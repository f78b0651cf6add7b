------------------------- MODULE AbstractSemaphore -------------------------
(***************************************************************************)
(* What a semaphore promises (the comment over FSemaphore in synch.h): P   *)
(* waits until the value is positive and then decrements it, V increments  *)
(* it and wakes up a waiter, both atomically.  Nothing is said about the   *)
(* order in which waiters are served, and a thread that has just arrived   *)
(* may go first.                                                           *)
(***************************************************************************)
EXTENDS Integers

CONSTANTS Threads, Sems,
          InitialValue,   \* the second argument of the constructor
          MaxValue        \* a bound: no value grows beyond it

VARIABLES value,     \* value[s]: the value of s, never negative
          waiting    \* waiting[s]: the threads in P(s)

absVars == <<value, waiting>>

AbsInit ==
  /\ value = InitialValue
  /\ waiting = [s \in Sems |-> {}]

Idle(t) == \A s \in Sems : t \notin waiting[s]

\* P that finds a positive value.
PassThrough(t, s) ==
  /\ Idle(t)
  /\ value[s] > 0
  /\ value' = [value EXCEPT ![s] = @ - 1]
  /\ UNCHANGED waiting

\* P that has to wait.
Await(t, s) ==
  /\ Idle(t)
  /\ value[s] = 0
  /\ waiting' = [waiting EXCEPT ![s] = @ \cup {t}]
  /\ UNCHANGED value

\* The end of a P that waited.
Complete(t, s) ==
  /\ t \in waiting[s]
  /\ value[s] > 0
  /\ value' = [value EXCEPT ![s] = @ - 1]
  /\ waiting' = [waiting EXCEPT ![s] = @ \ {t}]

AbsV(s) ==
  /\ value[s] < MaxValue
  /\ value' = [value EXCEPT ![s] = @ + 1]
  /\ UNCHANGED waiting

AbsNext ==
  \E s \in Sems : \/ AbsV(s)
                  \/ \E t \in Threads : PassThrough(t, s) \/ Await(t, s) \/ Complete(t, s)

\* No wake-up is lost: while the value stays positive and threads wait for it,
\* one of them, no matter which, gets through.
AbsFairness == \A s \in Sems : WF_absVars(\E t \in Threads : Complete(t, s))

AbsSafeSpec == AbsInit /\ [][AbsNext]_absVars

AbsSpec == AbsSafeSpec /\ AbsFairness
=============================================================================

----------------------------- MODULE Semaphore -----------------------------
(***************************************************************************)
(* Semaphores (synch.cpp, P and V) on top of the thread package.  P and V  *)
(* are the only callers of Ssleep(FALSE) and the only wake-ups in the      *)
(* kernel, so that here every sleep and every wake-up of Scheduler is tied *)
(* to a semaphore.  Any thread may call P and V on any semaphore, and any  *)
(* interrupt handler V.                                                    *)
(***************************************************************************)
EXTENDS Scheduler, FiniteSets

CONSTANTS Sems,           \* the semaphores
          NoSem,
          InitialValue,   \* the second argument of the constructor
          MaxValue        \* a bound of the model: no value grows beyond it

ASSUME SemaphoreAssumption ==
  /\ IsFiniteSet(Threads)
  /\ NoSem \notin Sems
  /\ MaxValue \in Nat
  /\ InitialValue \in [Sems -> 0..MaxValue]

VARIABLES
  value,        \* FSemaphore::value
  ThreadQueue,  \* FSemaphore::ThreadQueue, the longest sleeper at the head
  inP           \* the semaphore in whose P a thread has slept, NoSem if in none

semVars == <<value, ThreadQueue, inP>>
vars == <<schedVars, semVars>>

SemInit ==
  /\ SchedInit
  /\ value = InitialValue
  /\ ThreadQueue = [s \in Sems |-> <<>>]
  /\ inP = [t \in Threads |-> NoSem]

-----------------------------------------------------------------------------

\* The body of the loop of P, up to Ssleep(FALSE).
Enqueue(t, s) ==
  /\ value[s] = 0
  /\ ThreadQueue' = [ThreadQueue EXCEPT ![s] = Insert(@, t)]
  /\ inP' = [inP EXCEPT ![t] = s]
  /\ UNCHANGED value

\* The end of P.
Consume(t, s) ==
  /\ value[s] # 0
  /\ value' = [value EXCEPT ![s] = @ - 1]
  /\ inP' = [inP EXCEPT ![t] = NoSem]
  /\ UNCHANGED ThreadQueue

\* P, up to its end or to the first Ssleep.
P(t, s) ==
  \/ Enqueue(t, s) /\ Sleep(t)
  \/ Consume(t, s) /\ CriticalSection(t)

\* Mutation: P tests the value with "if" and not with "while".
PWokenIf(t, s) ==
  /\ inP[t] = s
  /\ value' = [value EXCEPT ![s] = @ - 1]
  /\ inP' = [inP EXCEPT ![t] = NoSem]
  /\ UNCHANGED ThreadQueue
  /\ LeaveAfterSleep(t)

\* P, back from Ssleep: the value may be gone again.
PWoken(t, s) ==
  /\ inP[t] = s
  /\ \/ Enqueue(t, s) /\ SleepAgain(t)
     \/ Consume(t, s) /\ LeaveAfterSleep(t)

\* The part of V that concerns the semaphore itself.
Increment(s) ==
  /\ value[s] < MaxValue
  /\ value' = [value EXCEPT ![s] = @ + 1]
  /\ ThreadQueue' = [ThreadQueue EXCEPT ![s] = IF @ = <<>> THEN @ ELSE Tail(@)]
  /\ UNCHANGED inP

\* Mutation: V looks for a waiter only if the value was 0.
VIfZero(t, s) ==
  IF value[s] = 0
  THEN /\ Increment(s)
       /\ IF ThreadQueue[s] = <<>>
          THEN CriticalSection(t)
          ELSE Wake(t, Head(ThreadQueue[s]))
  ELSE /\ value[s] < MaxValue
       /\ value' = [value EXCEPT ![s] = @ + 1]
       /\ UNCHANGED <<ThreadQueue, inP>>
       /\ CriticalSection(t)

\* V, called by a thread.
V(t, s) ==
  /\ Increment(s)
  /\ IF ThreadQueue[s] = <<>>
     THEN CriticalSection(t)
     ELSE Wake(t, Head(ThreadQueue[s]))

\* V, called by an interrupt handler.
HandlerV(s) ==
  /\ Increment(s)
  /\ IF ThreadQueue[s] = <<>>
     THEN InHandler /\ UNCHANGED schedVars
     ELSE HandlerWake(Head(ThreadQueue[s]))

\* The steps of Scheduler that no semaphore takes part in.
KernelStep(t) ==
  /\ \/ Finish(t) \/ Yield(t) \/ Enable(t) \/ UserTick(t) \/ CpuStep(t)
     \/ \E c \in Threads : Fork(t, c)
  /\ UNCHANGED semVars

SemNext ==
  \/ \E t \in Threads :
       \/ KernelStep(t)
       \/ \E s \in Sems : P(t, s) \/ PWoken(t, s) \/ V(t, s)
  \/ \E s \in Sems : HandlerV(s)
  \/ IdleReturn /\ UNCHANGED semVars

SemSpec == SemInit /\ [][SemNext]_vars

\* The fairness of Scheduler; a thread that is back from Ssleep goes on in P.
SemFairness ==
  /\ \A t \in Threads :
       /\ WF_vars(CpuStep(t) /\ UNCHANGED semVars)
       /\ WF_vars(UserTick(t) /\ UNCHANGED semVars)
       /\ SF_vars(Enable(t) /\ UNCHANGED semVars)
       /\ SF_vars(TickYield(t) /\ UNCHANGED semVars)
       /\ WF_vars(\E s \in Sems : PWoken(t, s))
  /\ WF_vars(IdleReturn /\ UNCHANGED semVars)

FairSemSpec == SemSpec /\ SemFairness

-----------------------------------------------------------------------------
(***************************************************************************)
(* Properties.                                                             *)
(***************************************************************************)

\* Every variable holds a value of its type; in particular no value is ever
\* negative, as synch.h promises.
SemTypeOK ==
  /\ value \in [Sems -> 0..MaxValue]
  /\ ThreadQueue \in [Sems -> Seq(Threads)]
  /\ inP \in [Threads -> Sems \cup {NoSem}]

\* Every thread that sleeps does so in the P of one semaphore, and the queue of
\* a semaphore holds exactly the threads asleep in its P, each of them once:
\* whoever V takes from it can be woken, and no sleeper is missing.
QueueExact ==
  /\ \A t \in Threads : inP[t] # NoSem <=> at[t] \in {"Ssleep", "woken"}
  /\ \A s \in Sems :
       /\ \A t \in Threads : InList(ThreadQueue[s], t) <=> Asleep(t) /\ inP[t] = s
       /\ NoDuplicate(ThreadQueue[s])

\* Threads in P(s) that have been woken and have not yet looked at the value.
Woken(s) == {t \in Threads : inP[t] = s /\ ~Asleep(t)}

\* No wake-up is lost: a thread sleeps only if for every unit of the value
\* there is a thread already woken to consume it.
NoLostWakeup ==
  \A s \in Sems : ThreadQueue[s] # <<>> => value[s] <= Cardinality(Woken(s))

\* The abstract view: a thread waits from its first sleep in P to the end of P.
Abstract == INSTANCE AbstractSemaphore
              WITH waiting <- [s \in Sems |-> {t \in Threads : inP[t] = s}]

\* P and V, with their queues, their interrupt masking and the scheduler under
\* them, implement the semaphore that synch.h describes.
ImplementsSemaphore == Abstract!AbsSafeSpec

\* Provided that the scheduler is fair, no unit of a semaphore is left lying
\* while threads wait for it.
SemaphoreLive == Abstract!AbsFairness
=============================================================================

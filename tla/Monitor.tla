------------------------------ MODULE Monitor ------------------------------
(***************************************************************************)
(* Locks and condition variables (synch.cpp): one lock with one condition, *)
(* as every user of the kernel has them, and threads that do inside it     *)
(* what they like.  Both are built from semaphores: the lock has one of    *)
(* value 1, and every Wait allocates one of value 0, here named after its  *)
(* thread.  A thread can lose the CPU at the end of each P and each V, and *)
(* so between any two actions.                                             *)
(***************************************************************************)
EXTENDS Integers, Sequences, FiniteSets

CONSTANTS Threads,
          NoThread,   \* the NULL pointer
          Lock        \* FLock::semaphore

ASSUME MonitorAssumption == Lock \notin Threads /\ NoThread \notin Threads

VARIABLES
  value, waiting,   \* the semaphores, see AbstractSemaphore
  lockHolder,       \* FLock::lockHolder
  WaitQueue,        \* Condition::WaitQueue, the longest waiter at the head
  pc                \* where each thread is

monVars == <<value, waiting, lockHolder, WaitQueue, pc>>

\* A correct lock keeps its semaphore at 0 or 1, and a waiter's too: a bound of
\* 2 leaves room for values that must not occur.
Semaphore == INSTANCE AbstractSemaphore
               WITH Sems <- Threads \cup {Lock},
                    InitialValue <- [s \in Threads \cup {Lock} |-> IF s = Lock THEN 1 ELSE 0],
                    MaxValue <- 2

(***************************************************************************)
(* "out":       not in the monitor;                                        *)
(* "acquire":   in Acquire, waiting in P;                                  *)
(* "taken":     in Acquire, past P, lockHolder not yet set;                *)
(* "in":        holding the lock;                                          *)
(* "wait":      in Wait, the lock released, P not yet called;              *)
(* "asleep":    in Wait, waiting in P;                                     *)
(* "signalled": in Wait, past P, Acquire not yet called.                   *)
(***************************************************************************)
Places == {"out", "acquire", "taken", "in", "wait", "asleep", "signalled"}

Goto(t, place) == pc' = [pc EXCEPT ![t] = place]

MonInit ==
  /\ Semaphore!AbsInit
  /\ lockHolder = NoThread
  /\ WaitQueue = <<>>
  /\ pc = [t \in Threads |-> "out"]

-----------------------------------------------------------------------------

\* Acquire, called from outside or by Wait.
Acquire(t) ==
  /\ pc[t] \in {"out", "signalled"}
  /\ \/ Semaphore!PassThrough(t, Lock) /\ Goto(t, "taken")
     \/ Semaphore!Await(t, Lock) /\ Goto(t, "acquire")
  /\ UNCHANGED <<lockHolder, WaitQueue>>

AcquireWoken(t) ==
  /\ pc[t] = "acquire"
  /\ Semaphore!Complete(t, Lock)
  /\ Goto(t, "taken")
  /\ UNCHANGED <<lockHolder, WaitQueue>>

SetHolder(t) ==
  /\ pc[t] = "taken"
  /\ lockHolder' = t
  /\ Goto(t, "in")
  /\ UNCHANGED <<value, waiting, WaitQueue>>

\* Release, which asserts IsHeldByCurrentThread.
Release(t) ==
  /\ pc[t] = "in"
  /\ lockHolder' = NoThread
  /\ Semaphore!AbsV(Lock)
  /\ Goto(t, "out")
  /\ UNCHANGED WaitQueue

\* Mutation: Wait forgets to queue its semaphore.
WaitUnqueued(t) ==
  /\ pc[t] = "in"
  /\ lockHolder' = NoThread
  /\ value' = [value EXCEPT ![t] = 0, ![Lock] = @ + 1]
  /\ Goto(t, "wait")
  /\ UNCHANGED <<waiting, WaitQueue>>

\* Wait, up to the end of its Release: a new semaphore, queued.
Wait(t) ==
  /\ pc[t] = "in"
  /\ WaitQueue' = Append(WaitQueue, t)
  /\ lockHolder' = NoThread
  /\ value' = [value EXCEPT ![t] = 0, ![Lock] = @ + 1]
  /\ Goto(t, "wait")
  /\ UNCHANGED waiting

WaitP(t) ==
  /\ pc[t] = "wait"
  /\ \/ Semaphore!PassThrough(t, t) /\ Goto(t, "signalled")
     \/ Semaphore!Await(t, t) /\ Goto(t, "asleep")
  /\ UNCHANGED <<lockHolder, WaitQueue>>

WaitWoken(t) ==
  /\ pc[t] = "asleep"
  /\ Semaphore!Complete(t, t)
  /\ Goto(t, "signalled")
  /\ UNCHANGED <<lockHolder, WaitQueue>>

\* Mutation: Signal also hands the lock over, as in Hoare's monitors.
SignalHandOver(t) ==
  /\ pc[t] = "in"
  /\ WaitQueue # <<>>
  /\ value' = [value EXCEPT ![Head(WaitQueue)] = @ + 1, ![Lock] = @ + 1]
  /\ WaitQueue' = Tail(WaitQueue)
  /\ UNCHANGED <<waiting, lockHolder, pc>>

\* Signal.  Broadcast signals until the queue is empty.
Signal(t) ==
  /\ pc[t] = "in"
  /\ IF WaitQueue = <<>>
     THEN UNCHANGED <<value, waiting, WaitQueue>>
     ELSE /\ Semaphore!AbsV(Head(WaitQueue))
          /\ WaitQueue' = Tail(WaitQueue)
  /\ UNCHANGED <<lockHolder, pc>>

MonStep(t) ==
  \/ Acquire(t) \/ AcquireWoken(t) \/ SetHolder(t) \/ Release(t)
  \/ Wait(t) \/ WaitP(t) \/ WaitWoken(t) \/ Signal(t)

MonNext == \E t \in Threads : MonStep(t)

MonSpec == MonInit /\ [][MonNext]_monVars

-----------------------------------------------------------------------------
(***************************************************************************)
(* Properties.                                                             *)
(***************************************************************************)

\* Every variable holds a value of its type, and no semaphore of a lock or of a
\* waiter ever exceeds 1.
MonTypeOK ==
  /\ value \in [Threads \cup {Lock} -> 0..1]
  /\ waiting \in [Threads \cup {Lock} -> SUBSET Threads]
  /\ lockHolder \in Threads \cup {NoThread}
  /\ WaitQueue \in Seq(Threads)
  /\ pc \in [Threads -> Places]

Owns(t) == pc[t] \in {"taken", "in"}

\* The lock is FREE exactly when no thread is between the P of its Acquire and
\* the V of its Release; at most one thread is; and a thread that calls Wait,
\* Signal or Release there passes ASSERT(IsHeldByCurrentThread()).
LockExact ==
  /\ value[Lock] = 1 <=> \A t \in Threads : ~Owns(t)
  /\ \A t, u \in Threads : Owns(t) /\ Owns(u) => t = u
  /\ \A t \in Threads : /\ lockHolder = t <=> pc[t] = "in"
                        /\ t \in waiting[Lock] <=> pc[t] = "acquire"

Queued(t) == \E i \in 1..Len(WaitQueue) : WaitQueue[i] = t

\* No waiter misses its signal, although the lock is released before P is
\* called: a thread in Wait is queued, each once, until exactly one V has
\* reached its semaphore, and a semaphore outside Wait is queued nowhere.
WaiterExact ==
  /\ \A t \in Threads :
       /\ Queued(t) => pc[t] \in {"wait", "asleep"} /\ value[t] = 0
       /\ pc[t] \in {"wait", "asleep"} /\ ~Queued(t) => value[t] = 1
       /\ value[t] = 1 => pc[t] \in {"wait", "asleep"}
       /\ \A u \in Threads : u \in waiting[t] <=> u = t /\ pc[t] = "asleep"
  /\ \A i, j \in 1..Len(WaitQueue) : WaitQueue[i] = WaitQueue[j] => i = j
=============================================================================

-------------------------- MODULE SynchListProofs --------------------------
(***************************************************************************)
(* Proofs about Monitor and about the list built on it, for every set of   *)
(* threads and of items.  In the monitor there is mutual exclusion and no  *)
(* missed signal; the list implements the monitor, so that this holds in   *)
(* it too; and no signal is lost.                                          *)
(***************************************************************************)
EXTENDS SynchList, SequenceTheorems, FiniteSetTheorems, TLAPS

(***************************************************************************)
(* The three properties are inductive together: that a signal finds the    *)
(* waiter's semaphore at 0 (WaiterExact) keeps the values below 2, and     *)
(* that the lock is free exactly when nobody owns it (LockExact) keeps a   *)
(* second thread out.                                                      *)
(***************************************************************************)
MonInv == MonTypeOK /\ LockExact /\ WaiterExact

\* The monitor starts free and with nobody waiting.
LEMMA MonInitInv == MonInit => MonInv
<1> SUFFICES ASSUME MonInit PROVE MonInv
  OBVIOUS
<1> USE MonitorAssumption DEF MonInit, Semaphore!AbsInit
<1>1. MonTypeOK
  BY EmptySeq DEF MonTypeOK, Places
<1>2. LockExact
  BY DEF LockExact, Owns
<1>3. WaiterExact
  BY DEF WaiterExact, Queued
<1> QED  BY <1>1, <1>2, <1>3 DEF MonInv

\* Into the monitor: P takes the lock, then the holder is noted.
LEMMA EnterInv ==
  ASSUME MonInv, NEW t \in Threads,
         Acquire(t) \/ AcquireWoken(t) \/ SetHolder(t)
  PROVE  MonInv'
<1> USE MonitorAssumption
<1>1. MonTypeOK /\ LockExact /\ WaiterExact
  BY DEF MonInv
<1>2. WaitQueue' = WaitQueue
  BY DEF Acquire, AcquireWoken, SetHolder
<1>3. CASE Semaphore!PassThrough(t, Lock) \/ Semaphore!Complete(t, Lock)
  <2>1. /\ value[Lock] = 1 /\ value' = [value EXCEPT ![Lock] = 0]
        /\ pc[t] \in {"out", "signalled", "acquire"} /\ pc' = [pc EXCEPT ![t] = "taken"]
        /\ lockHolder' = lockHolder
    <3>1. value[Lock] > 0 /\ value' = [value EXCEPT ![Lock] = @ - 1]
      BY <1>3 DEF Semaphore!PassThrough, Semaphore!Complete
    <3>2. value[Lock] = 1 /\ value' = [value EXCEPT ![Lock] = 0]
      <4>1. value[Lock] \in 0..1
        BY <1>1 DEF MonTypeOK
      <4>2. value[Lock] = 1
        BY <3>1, <4>1
      <4> QED  BY <3>1, <4>2
    <3>3. Acquire(t) \/ AcquireWoken(t)
      BY <3>2, <1>1 DEF SetHolder, MonTypeOK
    <3>4. /\ pc[t] \in {"out", "signalled", "acquire"}
          /\ lockHolder' = lockHolder
          /\ Goto(t, "taken") \/ (Semaphore!Await(t, Lock) /\ Goto(t, "acquire"))
      BY <3>3 DEF Acquire, AcquireWoken
    <3>5. ~Semaphore!Await(t, Lock)
      BY <3>2 DEF Semaphore!Await
    <3> QED  BY <3>2, <3>4, <3>5 DEF Goto
  <2>2. waiting' = [waiting EXCEPT ![Lock] = @ \ {t}]
    <3>1. CASE Semaphore!PassThrough(t, Lock)
      <4>1. waiting' = waiting /\ t \notin waiting[Lock]
        BY <3>1 DEF Semaphore!PassThrough, Semaphore!Idle
      <4> QED  BY <1>1, <4>1 DEF MonTypeOK
    <3>2. CASE Semaphore!Complete(t, Lock)
      BY <3>2 DEF Semaphore!Complete
    <3> QED  BY <1>3, <3>1, <3>2
  <2>3. MonTypeOK'
    BY <1>1, <1>2, <2>1, <2>2 DEF MonTypeOK, Places
  <2>4. LockExact'
    BY <1>1, <2>1, <2>2 DEF MonTypeOK, LockExact, Owns
  <2>5. WaiterExact'
    BY <1>1, <1>2, <2>1, <2>2 DEF MonTypeOK, WaiterExact, Queued
  <2> QED  BY <2>3, <2>4, <2>5 DEF MonInv
<1>4. CASE Acquire(t) /\ Semaphore!Await(t, Lock) /\ Goto(t, "acquire")
  <2>1. /\ value' = value
        /\ waiting' = [waiting EXCEPT ![Lock] = @ \cup {t}]
        /\ pc[t] \in {"out", "signalled"} /\ pc' = [pc EXCEPT ![t] = "acquire"]
        /\ lockHolder' = lockHolder
    BY <1>4 DEF Acquire, Goto, Semaphore!Await
  <2>2. MonTypeOK'
    BY <1>1, <1>2, <2>1 DEF MonTypeOK, Places
  <2>3. LockExact'
    BY <1>1, <2>1 DEF MonTypeOK, LockExact, Owns
  <2>4. WaiterExact'
    BY <1>1, <1>2, <2>1 DEF MonTypeOK, WaiterExact, Queued
  <2> QED  BY <2>2, <2>3, <2>4 DEF MonInv
<1>5. CASE SetHolder(t)
  <2>1. /\ UNCHANGED <<value, waiting>>
        /\ pc[t] = "taken" /\ pc' = [pc EXCEPT ![t] = "in"]
        /\ lockHolder' = t
    BY <1>5 DEF SetHolder, Goto
  <2>2. MonTypeOK'
    BY <1>1, <1>2, <2>1 DEF MonTypeOK, Places
  <2>3. LockExact'
    BY <1>1, <2>1 DEF MonTypeOK, LockExact, Owns
  <2>4. WaiterExact'
    BY <1>1, <1>2, <2>1 DEF MonTypeOK, WaiterExact, Queued
  <2> QED  BY <2>2, <2>3, <2>4 DEF MonInv
<1> QED  BY <1>3, <1>4, <1>5 DEF Acquire, AcquireWoken

\* Out of the monitor for good.
LEMMA ReleaseInv ==
  ASSUME MonInv, NEW t \in Threads, Release(t)
  PROVE  MonInv'
<1> USE MonitorAssumption
<1>1. MonTypeOK /\ LockExact /\ WaiterExact
  BY DEF MonInv
<1>2. value[Lock] = 0
  BY <1>1 DEF Release, MonTypeOK, LockExact, Owns
<1>3. /\ UNCHANGED <<waiting, WaitQueue>>
      /\ pc[t] = "in" /\ pc' = [pc EXCEPT ![t] = "out"]
      /\ lockHolder' = NoThread
      /\ value' = [value EXCEPT ![Lock] = 1]
  BY <1>2 DEF Release, Goto, Semaphore!AbsV
<1>4. MonTypeOK'
  BY <1>1, <1>3 DEF MonTypeOK, Places
<1>5. LockExact'
  BY <1>1, <1>3 DEF MonTypeOK, LockExact, Owns
<1>6. WaiterExact'
  BY <1>1, <1>3 DEF MonTypeOK, WaiterExact, Queued
<1> QED  BY <1>4, <1>5, <1>6 DEF MonInv

\* Into Wait.
LEMMA WaitInv ==
  ASSUME MonInv, NEW t \in Threads, Wait(t)
  PROVE  MonInv'
<1> USE MonitorAssumption
<1>1. MonTypeOK /\ LockExact /\ WaiterExact
  BY DEF MonInv
<1>2. value[Lock] = 0 /\ value[t] = 0 /\ ~Queued(t)
  BY <1>1 DEF Wait, MonTypeOK, LockExact, WaiterExact, Owns
<1>3. /\ waiting' = waiting
      /\ WaitQueue' = Append(WaitQueue, t)
      /\ pc[t] = "in" /\ pc' = [pc EXCEPT ![t] = "wait"]
      /\ lockHolder' = NoThread
      /\ value' = [value EXCEPT ![Lock] = 1]
  <2>1. value' = [value EXCEPT ![t] = 0, ![Lock] = value[Lock] + 1]
    BY DEF Wait
  <2>2. [value EXCEPT ![t] = 0] = value
    BY <1>1, <1>2 DEF MonTypeOK
  <2>3. value[Lock] + 1 = 1
    BY <1>2
  <2>4. value' = [[value EXCEPT ![t] = 0] EXCEPT ![Lock] = 1]
    BY <2>1, <2>3
  <2> QED  BY <2>2, <2>4 DEF Wait, Goto
<1>4. WaitQueue \in Seq(Threads)
  BY <1>1 DEF MonTypeOK
<1>5. /\ WaitQueue' \in Seq(Threads)
      /\ Len(WaitQueue') = Len(WaitQueue) + 1
      /\ \A i \in 1..Len(WaitQueue) : WaitQueue'[i] = WaitQueue[i]
      /\ WaitQueue'[Len(WaitQueue) + 1] = t
      /\ Len(WaitQueue) \in Nat
  BY <1>3, <1>4, AppendProperties, LenProperties
<1>6. MonTypeOK'
  BY <1>1, <1>3, <1>5 DEF MonTypeOK, Places
<1>7. LockExact'
  BY <1>1, <1>3 DEF MonTypeOK, LockExact, Owns
<1>8. WaiterExact'
  <2>1. \A u \in Threads : Queued(u)' <=> Queued(u) \/ u = t
    <3> TAKE u \in Threads
    <3>1. Queued(u)' => Queued(u) \/ u = t
      BY <1>5 DEF Queued
    <3>2. Queued(u) => Queued(u)'
      BY <1>5 DEF Queued
    <3>3. u = t => Queued(u)'
      BY <1>5 DEF Queued
    <3> QED  BY <3>1, <3>2, <3>3
  <2>2. \A i, j \in 1..Len(WaitQueue') : WaitQueue'[i] = WaitQueue'[j] => i = j
    BY <1>1, <1>2, <1>5 DEF WaiterExact, Queued
  <2> QED  BY <1>1, <1>2, <1>3, <2>1, <2>2 DEF MonTypeOK, WaiterExact
<1> QED  BY <1>6, <1>7, <1>8 DEF MonInv

\* The P of Wait.
LEMMA WaitPInv ==
  ASSUME MonInv, NEW t \in Threads, WaitP(t) \/ WaitWoken(t)
  PROVE  MonInv'
<1> USE MonitorAssumption
<1>1. MonTypeOK /\ LockExact /\ WaiterExact
  BY DEF MonInv
<1>2. UNCHANGED <<lockHolder, WaitQueue>> /\ pc[t] \in {"wait", "asleep"}
  BY DEF WaitP, WaitWoken
<1>3. CASE /\ Semaphore!PassThrough(t, t) \/ Semaphore!Complete(t, t)
           /\ Goto(t, "signalled")
  <2>1. value[t] > 0 /\ value' = [value EXCEPT ![t] = @ - 1]
    BY <1>3 DEF Semaphore!PassThrough, Semaphore!Complete
  <2>2. value[t] = 1 /\ value' = [value EXCEPT ![t] = 0]
    <3>1. value[t] \in 0..1
      BY <1>1 DEF MonTypeOK
    <3>2. value[t] = 1
      BY <2>1, <3>1
    <3> QED  BY <2>1, <3>2
  <2>3. waiting' = [waiting EXCEPT ![t] = @ \ {t}] /\ pc' = [pc EXCEPT ![t] = "signalled"]
    <3>1. CASE Semaphore!PassThrough(t, t)
      <4>1. waiting' = waiting /\ t \notin waiting[t]
        BY <3>1 DEF Semaphore!PassThrough, Semaphore!Idle
      <4> QED  BY <1>1, <1>3, <4>1 DEF MonTypeOK, Goto
    <3>2. CASE Semaphore!Complete(t, t)
      BY <1>3, <3>2 DEF Semaphore!Complete, Goto
    <3> QED  BY <1>3, <3>1, <3>2
  <2>4. MonTypeOK'
    BY <1>1, <1>2, <2>2, <2>3 DEF MonTypeOK, Places
  <2>5. LockExact'
    BY <1>1, <1>2, <2>2, <2>3 DEF MonTypeOK, LockExact, Owns
  <2>6. WaiterExact'
    BY <1>1, <1>2, <2>2, <2>3 DEF MonTypeOK, WaiterExact, Queued
  <2> QED  BY <2>4, <2>5, <2>6 DEF MonInv
<1>4. CASE pc[t] = "wait" /\ Semaphore!Await(t, t) /\ Goto(t, "asleep")
  <2>1. waiting' = [waiting EXCEPT ![t] = @ \cup {t}]
    BY <1>4 DEF Semaphore!Await
  <2>2. value' = value /\ pc' = [pc EXCEPT ![t] = "asleep"]
    BY <1>4 DEF Semaphore!Await, Goto
  <2>3. MonTypeOK'
    BY <1>1, <1>2, <1>4, <2>1, <2>2 DEF MonTypeOK, Places
  <2>4. LockExact'
    BY <1>1, <1>2, <2>1, <2>2 DEF MonTypeOK, LockExact, Owns
  <2>5. WaiterExact'
    BY <1>1, <1>2, <1>4, <2>1, <2>2 DEF MonTypeOK, WaiterExact, Queued
  <2> QED  BY <2>3, <2>4, <2>5 DEF MonInv
<1> QED  BY <1>3, <1>4 DEF WaitP, WaitWoken

\* Signal: the longest waiter is taken off the queue, and V reaches it.
LEMMA SignalInv ==
  ASSUME MonInv, NEW t \in Threads, Signal(t)
  PROVE  MonInv'
<1> USE MonitorAssumption
<1>1. MonTypeOK /\ LockExact /\ WaiterExact /\ WaitQueue \in Seq(Threads)
  BY DEF MonInv, MonTypeOK
<1>2. CASE WaitQueue = <<>>
  BY <1>1, <1>2 DEF Signal, MonInv, MonTypeOK, LockExact, Owns, WaiterExact, Queued
<1>3. CASE WaitQueue # <<>>
  <2> DEFINE h == Head(WaitQueue)
             tl == Tail(WaitQueue)
  <2>1. /\ h \in Threads /\ h = WaitQueue[1]
        /\ tl \in Seq(Threads)
        /\ Len(tl) = Len(WaitQueue) - 1
        /\ \A i \in 1..Len(tl) : tl[i] = WaitQueue[i + 1]
        /\ Len(WaitQueue) \in Nat /\ Len(WaitQueue) > 0
    BY <1>1, <1>3, HeadTailProperties, EmptySeq, LenProperties
  <2>2. /\ value' = [value EXCEPT ![h] = @ + 1]
        /\ WaitQueue' = tl
        /\ UNCHANGED <<waiting, lockHolder, pc>>
    BY <1>3 DEF Signal, Semaphore!AbsV
  <2> HIDE DEF h, tl
  <2>3. Queued(h)
    BY <2>1 DEF Queued
  <2>4. value[h] = 0 /\ pc[h] \in {"wait", "asleep"}
    BY <1>1, <2>1, <2>3 DEF WaiterExact
  <2>5. \A u \in Threads : Queued(u)' <=> Queued(u) /\ u # h
    <3> TAKE u \in Threads
    <3>1. Queued(u)' => Queued(u) /\ u # h
      <4> HAVE Queued(u)'
      <4>1. PICK i \in 1..Len(tl) : tl[i] = u
        BY <2>2 DEF Queued
      <4>2. i + 1 \in 1..Len(WaitQueue) /\ WaitQueue[i + 1] = u /\ i + 1 # 1
        BY <4>1, <2>1
      <4>3. Queued(u)
        BY <4>2 DEF Queued
      <4>4. \A k, n \in 1..Len(WaitQueue) : WaitQueue[k] = WaitQueue[n] => k = n
        BY <1>1 DEF WaiterExact
      <4>5. 1 \in 1..Len(WaitQueue)
        BY <2>1
      <4>6. u # h
        BY <2>1, <4>2, <4>4, <4>5, Zenon
      <4> QED  BY <4>3, <4>6
    <3>2. Queued(u) /\ u # h => Queued(u)'
      <4> HAVE Queued(u) /\ u # h
      <4>1. PICK i \in 1..Len(WaitQueue) : WaitQueue[i] = u
        BY DEF Queued
      <4>2. i - 1 \in 1..Len(tl) /\ tl[i - 1] = u
        BY <4>1, <2>1
      <4> QED  BY <2>2, <4>2 DEF Queued
    <3> QED  BY <3>1, <3>2
  <2>6. \A i, j \in 1..Len(WaitQueue') : WaitQueue'[i] = WaitQueue'[j] => i = j
    <3> SUFFICES ASSUME NEW i \in 1..Len(tl), NEW j \in 1..Len(tl), tl[i] = tl[j]
                 PROVE  i = j
      BY <2>2
    <3>1. /\ i + 1 \in 1..Len(WaitQueue) /\ j + 1 \in 1..Len(WaitQueue)
          /\ WaitQueue[i + 1] = WaitQueue[j + 1]
      BY <2>1
    <3> QED  BY <1>1, <2>1, <3>1 DEF WaiterExact
  <2>7. MonTypeOK'
    BY <1>1, <2>1, <2>2, <2>4 DEF MonTypeOK
  <2>8. LockExact'
    BY <1>1, <2>1, <2>2 DEF MonTypeOK, LockExact, Owns
  <2>9. WaiterExact'
    BY <1>1, <2>1, <2>2, <2>4, <2>5, <2>6 DEF MonTypeOK, WaiterExact
  <2> QED  BY <2>7, <2>8, <2>9 DEF MonInv
<1> QED  BY <1>2, <1>3

\* Every step keeps the invariant.
LEMMA MonNextInv == MonInv /\ [MonNext]_monVars => MonInv'
<1> SUFFICES ASSUME MonInv, [MonNext]_monVars PROVE MonInv'
  OBVIOUS
<1>1. ASSUME NEW t \in Threads, MonStep(t)
      PROVE  MonInv'
  BY <1>1, EnterInv, ReleaseInv, WaitInv, WaitPInv, SignalInv DEF MonStep
<1>2. CASE UNCHANGED monVars
  BY <1>2 DEF monVars, MonInv, MonTypeOK, LockExact, Owns, WaiterExact, Queued
<1> QED  BY <1>1, <1>2 DEF MonNext

\* The invariant holds throughout every run.
THEOREM MonitorInvariant == MonSpec => []MonInv
BY MonInitInv, MonNextInv, PTL DEF MonSpec

\* At most one thread is in the monitor, and lockHolder tells which.
THEOREM MonitorMutualExclusion == MonSpec => []LockExact
<1>1. MonInv => LockExact
  BY DEF MonInv
<1> QED  BY <1>1, MonitorInvariant, PTL

\* A thread that waits has not missed a signal, and no signal goes to a thread
\* that does not wait.
THEOREM MonitorNoMissedSignal == MonSpec => []WaiterExact
<1>1. MonInv => WaiterExact
  BY DEF MonInv
<1> QED  BY <1>1, MonitorInvariant, PTL

-----------------------------------------------------------------------------
(***************************************************************************)
(* The list: its calls, and where they are in the monitor.                 *)
(***************************************************************************)

Calls == {"none", "Append", "Signal", "Release", "RemoveFront"}

\* How far a thread is in its call and where it is in the monitor agree.
CallPlaces ==
  \A t \in Threads :
    /\ call[t] = "none" <=> pc[t] = "out"
    /\ call[t] \in {"Signal", "Release"} => pc[t] = "in"
    /\ pc[t] \in {"wait", "asleep", "signalled"} => call[t] = "RemoveFront"

CallInv ==
  /\ list \in Seq(Items)
  /\ call \in [Threads -> Calls]
  /\ item \in [Threads -> Items \cup {NoItem}]
  /\ \A t \in Threads : call[t] = "Append" <=> item[t] # NoItem
  /\ CallPlaces

ListInv == MonInv /\ CallInv /\ NoLostSignal

-----------------------------------------------------------------------------
(***************************************************************************)
(* The list is a monitor.                                                  *)
(***************************************************************************)

\* Every step of the list is a step of the monitor or leaves it alone.
LEMMA ListStepMonitors == [ListNext]_vars => [MonNext]_monVars
<1> SUFFICES ASSUME [ListNext]_vars PROVE [MonNext]_monVars
  OBVIOUS
<1>1. ASSUME NEW t \in Threads, InCall(t)
      PROVE  MonStep(t)
  BY <1>1 DEF InCall, AppendItem, SignalAppended, EndAppend, WaitForItem,
              RemoveItem, Proceed, MonStep
<1>2. ASSUME NEW t \in Threads, CallRemoveFront(t)
      PROVE  MonStep(t)
  BY <1>2 DEF CallRemoveFront, MonStep
<1>3. ASSUME NEW t \in Threads, NEW i \in Items, CallAppend(t, i)
      PROVE  MonStep(t)
  BY <1>3 DEF CallAppend, MonStep
<1>4. CASE UNCHANGED vars
  BY <1>4 DEF vars
<1> QED  BY <1>1, <1>2, <1>3, <1>4 DEF ListNext, MonNext

\* The list implements the monitor: whatever Append and RemoveFront do, they
\* use Acquire, Release, Wait and Signal as Monitor describes.
THEOREM ListImplementsMonitor == ListSpec => MonSpec
<1>1. ListInit => MonInit
  BY DEF ListInit
<1> QED  BY <1>1, ListStepMonitors, PTL DEF ListSpec, MonSpec

-----------------------------------------------------------------------------
(***************************************************************************)
(* The calls.                                                              *)
(***************************************************************************)

\* Where a step of the monitor takes a thread.
LEMMA Moves ==
  ASSUME MonTypeOK, NEW t \in Threads
  PROVE  /\ Acquire(t) => /\ pc[t] \in {"out", "signalled"}
                          /\ pc' \in {[pc EXCEPT ![t] = p] : p \in {"taken", "acquire"}}
         /\ AcquireWoken(t) => pc[t] = "acquire" /\ pc' = [pc EXCEPT ![t] = "taken"]
         /\ SetHolder(t) => pc[t] = "taken" /\ pc' = [pc EXCEPT ![t] = "in"]
         /\ Release(t) => pc[t] = "in" /\ pc' = [pc EXCEPT ![t] = "out"]
         /\ Wait(t) => pc[t] = "in" /\ pc' = [pc EXCEPT ![t] = "wait"]
         /\ WaitP(t) => /\ pc[t] = "wait"
                        /\ pc' \in {[pc EXCEPT ![t] = p] : p \in {"signalled", "asleep"}}
         /\ WaitWoken(t) => pc[t] = "asleep" /\ pc' = [pc EXCEPT ![t] = "signalled"]
         /\ Signal(t) => pc[t] = "in" /\ pc' = pc
BY DEF Acquire, AcquireWoken, SetHolder, Release, Wait, WaitP, WaitWoken, Signal, Goto

\* At the start nobody has called anything.
LEMMA CallInitInv == ListInit => CallInv
BY DEF ListInit, MonInit, CallInv, CallPlaces, Calls

\* Every step keeps the calls and the monitor in step.
LEMMA CallStepInv ==
  ASSUME MonTypeOK, CallInv, NEW t \in Threads,
         InCall(t) \/ CallRemoveFront(t) \/ \E i \in Items : CallAppend(t, i)
  PROVE  CallInv'
<1> USE SynchListAssumption DEF Become
<1>0. pc \in [Threads -> Places]
  BY DEF MonTypeOK
<1>1. CASE \E i \in Items : CallAppend(t, i)
  BY <1>0, <1>1, Moves DEF CallAppend, CallInv, CallPlaces, Calls
<1>2. CASE AppendItem(t)
  <2>1. item[t] \in Items
    BY <1>2 DEF AppendItem, CallInv
  <2>2. list' \in Seq(Items)
    BY <1>2, <2>1 DEF AppendItem, CallInv
  <2> QED  BY <1>0, <1>2, <2>2, Moves DEF AppendItem, CallInv, CallPlaces, Calls
<1>3. CASE SignalAppended(t)
  BY <1>0, <1>3, Moves DEF SignalAppended, CallInv, CallPlaces, Calls
<1>4. CASE EndAppend(t)
  BY <1>0, <1>4, Moves DEF EndAppend, CallInv, CallPlaces, Calls
<1>5. CASE CallRemoveFront(t)
  BY <1>0, <1>5, Moves DEF CallRemoveFront, CallInv, CallPlaces, Calls
<1>6. CASE WaitForItem(t)
  BY <1>0, <1>6, Moves DEF WaitForItem, listVars, CallInv, CallPlaces, Calls
<1>7. CASE RemoveItem(t)
  BY <1>0, <1>7, Moves DEF RemoveItem, CallInv, CallPlaces, Calls
<1>8. CASE Proceed(t)
  BY <1>0, <1>8, Moves DEF Proceed, listVars, CallInv, CallPlaces, Calls
<1> QED  BY <1>1, <1>2, <1>3, <1>4, <1>5, <1>6, <1>7, <1>8 DEF InCall

-----------------------------------------------------------------------------
(***************************************************************************)
(* The signals.                                                            *)
(***************************************************************************)

\* A thread in the queue of the condition is in RemoveFront, and in Wait.
LEMMA QueuedRemove ==
  ASSUME MonInv, CallInv, NEW t \in Threads, Queued(t)
  PROVE  call[t] = "RemoveFront" /\ pc[t] \in {"wait", "asleep"}
BY DEF MonInv, WaiterExact, CallInv, CallPlaces

\* Any set of threads is finite.
LEMMA ThreadsFinite ==
  ASSUME NEW S, S \subseteq Threads
  PROVE  IsFiniteSet(S) /\ Cardinality(S) \in Nat
BY SynchListAssumption, FS_Subset, FS_CardinalityType DEF SynchListAssumption

\* The steps that change neither the list nor the number of those who will
\* look at it or signal.
LEMMA SameCounts ==
  ASSUME NoLostSignal, UNCHANGED list, UNCHANGED WaitQueue,
         Removers' = Removers, Signallers' = Signallers
  PROVE  NoLostSignal'
BY DEF NoLostSignal

\* An item in the list, and a signal to come for it.
LEMMA AppendSignals ==
  ASSUME MonInv, CallInv, NoLostSignal, NEW t \in Threads, AppendItem(t)
  PROVE  NoLostSignal'
<1>1. /\ UNCHANGED WaitQueue
      /\ call[t] = "Append" /\ call' = [call EXCEPT ![t] = "Signal"]
      /\ call \in [Threads -> Calls] /\ item[t] \in Items
      /\ list \in Seq(Items) /\ list' = Append(list, item[t])
  BY DEF AppendItem, SetHolder, Become, CallInv
<1>2. Len(list') = Len(list) + 1 /\ Len(list) \in Nat
  BY <1>1
<1>3. Removers' = Removers
  BY <1>1 DEF Removers, Queued
<1>4. Signallers' = Signallers \cup {t} /\ t \notin Signallers
  BY <1>1 DEF Signallers
<1>5. /\ Cardinality(Signallers') = Cardinality(Signallers) + 1
      /\ Cardinality(Signallers) \in Nat /\ Cardinality(Removers) \in Nat
  BY <1>4, ThreadsFinite, FS_AddElement DEF Signallers, Removers
<1> QED  BY <1>1, <1>2, <1>3, <1>5 DEF NoLostSignal

\* A signal sent, and one more thread on its way to the list.
LEMMA SignalRemoves ==
  ASSUME MonInv, CallInv, NoLostSignal, NEW t \in Threads, SignalAppended(t)
  PROVE  NoLostSignal'
<1>1. /\ UNCHANGED list
      /\ call[t] = "Signal" /\ call' = [call EXCEPT ![t] = "Release"]
      /\ call \in [Threads -> Calls]
      /\ WaitQueue \in Seq(Threads) /\ list \in Seq(Items)
  BY DEF SignalAppended, Become, CallInv, MonInv, MonTypeOK
<1>2. CASE WaitQueue = <<>>
  <2>1. WaitQueue' = <<>>
    BY <1>2 DEF SignalAppended, Signal
  <2> QED  BY <2>1 DEF NoLostSignal
<1>3. CASE WaitQueue # <<>>
  <2> DEFINE h == Head(WaitQueue)
  <2>1. /\ WaitQueue' = Tail(WaitQueue)
        /\ h \in Threads /\ h = WaitQueue[1]
        /\ Len(WaitQueue) \in Nat \ {0} /\ Len(WaitQueue') = Len(WaitQueue) - 1
        /\ \A i \in 1..Len(WaitQueue') : WaitQueue'[i] = WaitQueue[i + 1]
    <3>1. WaitQueue' = Tail(WaitQueue)
      BY <1>3 DEF SignalAppended, Signal
    <3>2. Len(WaitQueue) \in Nat \ {0} /\ h = WaitQueue[1] /\ h \in Threads
      BY <1>1, <1>3
    <3> QED  BY <1>1, <1>3, <3>1, <3>2
  <2>2. \A u \in Threads : Queued(u)' <=> Queued(u) /\ u # h
    <3>1. \A i, j \in 1..Len(WaitQueue) : WaitQueue[i] = WaitQueue[j] => i = j
      BY DEF MonInv, WaiterExact
    <3> SUFFICES ASSUME NEW u \in Threads PROVE Queued(u)' <=> Queued(u) /\ u # h
      OBVIOUS
    <3>2. Queued(u)' => Queued(u) /\ u # h
      BY <2>1, <3>1 DEF Queued
    <3>3. ASSUME Queued(u), u # h PROVE Queued(u)'
      <4>1. PICK i \in 1..Len(WaitQueue) : WaitQueue[i] = u
        BY <3>3 DEF Queued
      <4>2. i - 1 \in 1..Len(WaitQueue') /\ WaitQueue'[i - 1] = u
        BY <2>1, <3>3, <4>1
      <4> QED  BY <4>2 DEF Queued
    <3> QED  BY <3>2, <3>3
  <2>3. Queued(h) /\ call[h] = "RemoveFront"
    <3>1. Queued(h)
      BY <2>1 DEF Queued
    <3> QED  BY <2>1, <3>1, QueuedRemove
  <2>4. Removers' = Removers \cup {h} /\ h \notin Removers
    <3>1. \A u \in Threads : call'[u] = "RemoveFront" <=> call[u] = "RemoveFront"
      BY <1>1
    <3> QED  BY <2>1, <2>2, <2>3, <3>1 DEF Removers
  <2>5. Signallers' = Signallers \ {t} /\ t \in Signallers
    BY <1>1 DEF Signallers
  <2>6. /\ Cardinality(Removers') = Cardinality(Removers) + 1
        /\ Cardinality(Signallers') = Cardinality(Signallers) - 1
        /\ Cardinality(Removers) \in Nat /\ Cardinality(Signallers) \in Nat
    <3>1. Removers \subseteq Threads /\ Signallers \subseteq Threads
      BY DEF Removers, Signallers
    <3>2. /\ IsFiniteSet(Removers) /\ Cardinality(Removers) \in Nat
          /\ IsFiniteSet(Signallers) /\ Cardinality(Signallers) \in Nat
      BY <3>1, ThreadsFinite
    <3>3. Cardinality(Removers') = Cardinality(Removers) + 1
      BY <2>4, <3>2, FS_AddElement
    <3>4. Cardinality(Signallers') = Cardinality(Signallers) - 1
      BY <2>5, <3>2, FS_RemoveElement
    <3> QED  BY <3>2, <3>3, <3>4
  <2> QED  BY <1>1, <1>3, <2>6 DEF NoLostSignal
<1> QED  BY <1>2, <1>3

\* A new remover, who may take the item a woken thread was to have.
LEMMA CallRemoveCounts ==
  ASSUME MonInv, CallInv, NoLostSignal, NEW t \in Threads, CallRemoveFront(t)
  PROVE  NoLostSignal'
<1>1. /\ UNCHANGED <<list, WaitQueue>>
      /\ call[t] = "none" /\ call' = [call EXCEPT ![t] = "RemoveFront"]
      /\ call \in [Threads -> Calls] /\ list \in Seq(Items)
  BY DEF CallRemoveFront, Acquire, Become, CallInv
<1>2. ~Queued(t)
  BY <1>1, QueuedRemove
<1>3. Removers' = Removers \cup {t} /\ t \notin Removers
  BY <1>1, <1>2 DEF Removers, Queued
<1>4. Signallers' = Signallers
  BY <1>1 DEF Signallers
<1>5. /\ Cardinality(Removers') = Cardinality(Removers) + 1
      /\ Cardinality(Removers) \in Nat /\ Cardinality(Signallers) \in Nat
  BY <1>3, ThreadsFinite, FS_AddElement DEF Signallers, Removers
<1> QED  BY <1>1, <1>4, <1>5 DEF NoLostSignal

\* An item removed, and its remover gone.
LEMMA RemoveCounts ==
  ASSUME MonInv, CallInv, NoLostSignal, NEW t \in Threads, RemoveItem(t)
  PROVE  NoLostSignal'
<1>1. /\ UNCHANGED WaitQueue /\ list' = Tail(list) /\ list # <<>>
      /\ call[t] = "RemoveFront" /\ call' = [call EXCEPT ![t] = "none"]
      /\ pc[t] = "in"
      /\ call \in [Threads -> Calls] /\ list \in Seq(Items)
  BY DEF RemoveItem, Release, Become, CallInv
<1>2. Len(list') = Len(list) - 1 /\ Len(list) \in Nat
  BY <1>1
<1>3. ~Queued(t)
  BY <1>1, QueuedRemove
<1>4. Removers' = Removers \ {t} /\ t \in Removers
  BY <1>1, <1>3 DEF Removers, Queued
<1>5. Signallers' = Signallers
  BY <1>1 DEF Signallers
<1>6. /\ Cardinality(Removers') = Cardinality(Removers) - 1
      /\ Cardinality(Removers) \in Nat /\ Cardinality(Signallers) \in Nat
  BY <1>4, ThreadsFinite, FS_RemoveElement DEF Signallers, Removers
<1> QED  BY <1>1, <1>2, <1>5, <1>6 DEF NoLostSignal

\* A thread waits only when the list is empty: nobody needs a signal then.
LEMMA WaitNeedsNone ==
  ASSUME NEW t \in Threads, WaitForItem(t)
  PROVE  NoLostSignal'
<1>1. list' = <<>>
  BY DEF WaitForItem, listVars
<1>2. Removers' \subseteq Threads /\ Signallers' \subseteq Threads
  BY DEF Removers, Signallers
<1>3. Cardinality(Removers') \in Nat /\ Cardinality(Signallers') \in Nat
  BY <1>2, ThreadsFinite
<1> QED  BY <1>1, <1>3 DEF NoLostSignal

\* At the start the list is empty and nobody waits.
LEMMA ListInitInv == ListInit => ListInv
<1>1. ListInit => NoLostSignal
  BY DEF ListInit, MonInit, NoLostSignal
<1> QED  BY <1>1, MonInitInv, CallInitInv DEF ListInit, ListInv

\* Every step preserves the invariant.
LEMMA ListNextInv == ListInv /\ [ListNext]_vars => ListInv'
<1> SUFFICES ASSUME ListInv, [ListNext]_vars PROVE ListInv'
  OBVIOUS
<1>0. MonInv /\ MonTypeOK /\ CallInv /\ NoLostSignal
  BY DEF ListInv, MonInv
<1>1. MonInv'
  BY <1>0, ListStepMonitors, MonNextInv
<1>2. CASE UNCHANGED vars
  <2>1. CallInv'
    BY <1>0, <1>2 DEF vars, monVars, listVars, CallInv, CallPlaces
  <2>2. NoLostSignal'
    BY <1>0, <1>2 DEF vars, monVars, listVars, NoLostSignal, Removers, Signallers, Queued
  <2> QED  BY <1>1, <2>1, <2>2 DEF ListInv
<1>3. ASSUME NEW t \in Threads,
             InCall(t) \/ CallRemoveFront(t) \/ \E i \in Items : CallAppend(t, i)
      PROVE  ListInv'
  <2>1. CallInv'
    BY <1>0, <1>3, CallStepInv
  <2>2. call \in [Threads -> Calls]
    BY <1>0 DEF CallInv
  <2>3. CASE \E i \in Items : CallAppend(t, i)
    <3>1. UNCHANGED <<list, WaitQueue>> /\ call[t] = "none" /\ call' = [call EXCEPT ![t] = "Append"]
      BY <2>3 DEF CallAppend, Acquire, Become
    <3>2. Removers' = Removers /\ Signallers' = Signallers
      BY <2>2, <3>1 DEF Removers, Signallers, Queued
    <3> QED  BY <1>0, <1>1, <2>1, <3>1, <3>2, SameCounts DEF ListInv
  <2>4. CASE EndAppend(t)
    <3>1. UNCHANGED <<list, WaitQueue>> /\ call[t] = "Release" /\ call' = [call EXCEPT ![t] = "none"]
      BY <2>4 DEF EndAppend, Release, Become
    <3>2. Removers' = Removers /\ Signallers' = Signallers
      BY <2>2, <3>1 DEF Removers, Signallers, Queued
    <3> QED  BY <1>0, <1>1, <2>1, <3>1, <3>2, SameCounts DEF ListInv
  <2>5. CASE Proceed(t)
    <3>1. UNCHANGED <<list, WaitQueue, call>>
      BY <2>5 DEF Proceed, listVars, Acquire, AcquireWoken, WaitP, WaitWoken, SetHolder
    <3>2. Removers' = Removers /\ Signallers' = Signallers
      BY <3>1 DEF Removers, Signallers, Queued
    <3> QED  BY <1>0, <1>1, <2>1, <3>1, <3>2, SameCounts DEF ListInv
  <2>6. CASE AppendItem(t) \/ SignalAppended(t) \/ CallRemoveFront(t)
             \/ RemoveItem(t) \/ WaitForItem(t)
    <3>1. NoLostSignal'
      BY <1>0, <2>6, AppendSignals, SignalRemoves, CallRemoveCounts, RemoveCounts,
         WaitNeedsNone
    <3> QED  BY <1>1, <2>1, <3>1 DEF ListInv
  <2> QED  BY <1>3, <2>3, <2>4, <2>5, <2>6 DEF InCall
<1> QED  BY <1>2, <1>3 DEF ListNext

\* While a thread waits in RemoveFront, every item in the list is accounted for
\* by a remover on its way or by a signal about to be sent.
THEOREM ListNoLostSignal == ListSpec => []NoLostSignal
<1>1. ListInv => NoLostSignal
  BY DEF ListInv
<1> QED  BY <1>1, ListInitInv, ListNextInv, PTL DEF ListSpec

\* In the list, as in any monitor, at most one thread owns the lock, and nobody
\* misses a signal.
THEOREM ListIsMonitor == ListSpec => [](LockExact /\ WaiterExact)
<1>1. MonInv => LockExact /\ WaiterExact
  BY DEF MonInv
<1> QED  BY <1>1, ListImplementsMonitor, MonitorInvariant, PTL
=============================================================================

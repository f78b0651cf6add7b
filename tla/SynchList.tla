----------------------------- MODULE SynchList -----------------------------
(***************************************************************************)
(* The synchronized list (synchlist.cpp), the queue between threads of the *)
(* kernel, used for the mailboxes of the post office: a monitor whose      *)
(* condition listEmpty is waited for in RemoveFront and signalled by       *)
(* Append.  A thread is in the monitor on behalf of one call.              *)
(***************************************************************************)
EXTENDS Monitor

CONSTANTS Items,   \* every item is appended at most once: callers allocate it
          NoItem

ASSUME SynchListAssumption == NoItem \notin Items /\ IsFiniteSet(Threads)

VARIABLES
  list,      \* SynchList::list
  call,      \* the call each thread is in, and how far
  item,      \* the argument of its Append
  removed    \* the items that RemoveFront has returned

listVars == <<list, call, item, removed>>
vars == <<monVars, listVars>>

(***************************************************************************)
(* "none", "RemoveFront"; "Append", which becomes "Signal" when the item   *)
(* is in the list and "Release" when the signal has been sent.             *)
(***************************************************************************)

ListInit ==
  /\ MonInit
  /\ list = <<>>
  /\ call = [t \in Threads |-> "none"]
  /\ item = [t \in Threads |-> NoItem]
  /\ removed = {}

-----------------------------------------------------------------------------

Become(t, c) == call' = [call EXCEPT ![t] = c]

Listed(i) == \E n \in 1..Len(list) : list[n] = i

Fresh(i) == ~Listed(i) /\ i \notin removed /\ \A t \in Threads : item[t] # i

CallAppend(t, i) ==
  /\ call[t] = "none" /\ Fresh(i)
  /\ Acquire(t)
  /\ Become(t, "Append")
  /\ item' = [item EXCEPT ![t] = i]
  /\ UNCHANGED <<list, removed>>

\* list->Append: the comparison says "equal", and the item is not in the list.
AppendItem(t) ==
  /\ call[t] = "Append"
  /\ SetHolder(t)
  /\ list' = Append(list, item[t])
  /\ Become(t, "Signal")
  /\ item' = [item EXCEPT ![t] = NoItem]
  /\ UNCHANGED removed

\* Mutation: Append signals only if the list was empty before.
SignalIfFirst(t) ==
  /\ call[t] = "Signal"
  /\ IF Len(list) = 1 THEN Signal(t) ELSE pc[t] = "in" /\ UNCHANGED monVars
  /\ Become(t, "Release")
  /\ UNCHANGED <<list, item, removed>>

SignalAppended(t) ==
  /\ call[t] = "Signal"
  /\ Signal(t)
  /\ Become(t, "Release")
  /\ UNCHANGED <<list, item, removed>>

EndAppend(t) ==
  /\ call[t] = "Release"
  /\ Release(t)
  /\ Become(t, "none")
  /\ UNCHANGED <<list, item, removed>>

CallRemoveFront(t) ==
  /\ call[t] = "none"
  /\ Acquire(t)
  /\ Become(t, "RemoveFront")
  /\ UNCHANGED <<list, item, removed>>

\* The test of the loop, when the list is empty.
WaitForItem(t) ==
  /\ call[t] = "RemoveFront"
  /\ list = <<>>
  /\ Wait(t)
  /\ UNCHANGED listVars

\* The rest of RemoveFront, when there is an item.
RemoveItem(t) ==
  /\ call[t] = "RemoveFront"
  /\ list # <<>>
  /\ list' = Tail(list)
  /\ removed' = removed \cup {Head(list)}
  /\ Release(t)
  /\ Become(t, "none")
  /\ UNCHANGED item

\* The rest of Acquire and Wait, whatever the call.
Proceed(t) ==
  /\ \/ pc[t] = "signalled" /\ Acquire(t)
     \/ AcquireWoken(t) \/ WaitP(t) \/ WaitWoken(t)
     \/ call[t] = "RemoveFront" /\ SetHolder(t)
  /\ UNCHANGED listVars

InCall(t) ==
  \/ AppendItem(t) \/ SignalAppended(t) \/ EndAppend(t)
  \/ WaitForItem(t) \/ RemoveItem(t) \/ Proceed(t)

ListNext ==
  \E t \in Threads : \/ InCall(t)
                     \/ CallRemoveFront(t)
                     \/ \E i \in Items : CallAppend(t, i)

ListSpec == ListInit /\ [][ListNext]_vars

(***************************************************************************)
(* A thread that has begun a call goes on with it, and P lets somebody     *)
(* through (AbsFairness, which Semaphore implements).  Nothing makes a     *)
(* thread call.                                                            *)
(***************************************************************************)
ListFairness ==
  /\ \A t \in Threads : WF_vars(InCall(t))
  /\ WF_vars(\E t \in Threads : AcquireWoken(t) /\ UNCHANGED listVars)

FairListSpec == ListSpec /\ ListFairness

-----------------------------------------------------------------------------
(***************************************************************************)
(* Properties.                                                             *)
(***************************************************************************)

\* Removers that are not waiting for a signal: each will look at the list.
Removers == {t \in Threads : call[t] = "RemoveFront" /\ ~Queued(t)}

\* Appenders whose signal is still to come.
Signallers == {t \in Threads : call[t] = "Signal"}

\* No signal is lost: while a thread waits in RemoveFront, for every item in
\* the list there is a remover on its way or a signal about to be sent, however
\* many latecomers took items from under the noses of woken threads.
NoLostSignal ==
  WaitQueue # <<>> => Len(list) <= Cardinality(Removers) + Cardinality(Signallers)

\* While a thread is in RemoveFront, every item in the list will be removed.
ItemsAreRemoved ==
  \A i \in Items :
    Listed(i) /\ (\E t \in Threads : call[t] = "RemoveFront")
      ~> i \in removed \/ \A t \in Threads : call[t] # "RemoveFront"
=============================================================================

---------------------------- MODULE AbstractList ----------------------------
(***************************************************************************)
(* What a SortedList promises: the items that were inserted and not yet    *)
(* removed, each once, in the order of their priorities and, among equals, *)
(* in the order of insertion.                                              *)
(***************************************************************************)
EXTENDS Naturals, SequencesExt

CONSTANTS Items, Priority(_)

VARIABLE list

Contents == {list[n] : n \in DOMAIN list}

\* A new item goes after those of no greater priority, and before the others.
IsPlace(n, item) == \A m \in DOMAIN list : m < n <=> Priority(list[m]) <= Priority(item)

ListInit == list = <<>>

\* Inserting what is on the list already changes nothing.
AddItem(item) ==
  /\ item \notin Contents
  /\ \E n \in 1 .. Len(list) + 1 : IsPlace(n, item) /\ list' = InsertAt(list, n, item)

TakeFirst == list # <<>> /\ list' = Tail(list)

TakeItem(item) == \E n \in DOMAIN list : list[n] = item /\ list' = RemoveAt(list, n)

ListNext == TakeFirst \/ \E item \in Items : AddItem(item) \/ TakeItem(item)

ListSpec == ListInit /\ [][ListNext]_list
=============================================================================

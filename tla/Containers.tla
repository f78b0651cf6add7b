----------------------------- MODULE Containers -----------------------------
(***************************************************************************)
(* The library's containers: SortedList with its cells and pointers        *)
(* (list.cpp), the hash table that grows (hash.cpp) and the bitmap packed  *)
(* in words, with its copy on disk (bitmap.cpp, pbitmap.cpp).  Each        *)
(* operation runs to its end: those that several threads use are inside a  *)
(* lock or with interrupts off in the modules that use them.               *)
(***************************************************************************)
EXTENDS Naturals, SequencesExt, Functions

CONSTANTS ListItems, Priority(_),         \* SortedList's compare orders by priority
          NumCells,                       \* the list elements that memory has room for
          Keys, Hash(_),                  \* an item of the table is given by its key
          InitialBuckets, ResizeRatio, IncreaseSizeBy,
          NumBits, BitsInWord

ASSUME ContainersAssumption ==
  /\ \A x \in ListItems : Priority(x) \in Nat
  /\ \A key \in Keys : Hash(key) \in Nat
  /\ NumCells \in Nat /\ InitialBuckets \in Nat \ {0} /\ ResizeRatio \in Nat \ {0}
  /\ IncreaseSizeBy \in Nat \ {0, 1} /\ NumBits \in Nat \ {0} /\ BitsInWord \in Nat \ {0}

VARIABLES
  item, next, first, last, numInList,     \* the list: what its elements hold
  buckets, numBuckets, numItems,          \* the hash table
  map, file,                              \* the bits of the bitmap's words; of those on disk
  marked, saved                           \* the bits that callers have marked, and saved

listVars == <<item, next, first, last, numInList>>
hashVars == <<buckets, numBuckets, numItems>>
bitmapVars == <<map, file, marked, saved>>

-----------------------------------------------------------------------------
(***************************************************************************)
(* SortedList.                                                             *)
(***************************************************************************)

NULL == 0
Cells == 1 .. NumCells

\* The elements met from one on, and NULL after the last.
Walk(from, links) ==
  LET nth[n \in Cells] == IF n = 1 THEN from ELSE IF nth[n - 1] = NULL THEN NULL ELSE links[nth[n - 1]]
  IN nth

ChainFrom(from, links) ==
  [n \in {k \in Cells : Walk(from, links)[k] # NULL} |-> Walk(from, links)[n]]

Chain == ChainFrom(first, next)

Listed == [n \in DOMAIN Chain |-> item[Chain[n]]]
IsInList(x) == x \in Range(Listed)
FreeCells == Cells \ Range(Chain)

SortedListInit ==
  /\ item = [c \in Cells |-> NULL] /\ next = [c \in Cells |-> NULL]
  /\ first = NULL /\ last = NULL /\ numInList = 0

\* Insert, and Append and Prepend, which are the same.  Before every element with a greater
\* priority, so after the equal ones; what is on the list already is left alone.
ListInsert(x) ==
  LET c == Min(FreeCells)
      smaller == {n \in DOMAIN Chain : n > 1 /\ Priority(x) < Priority(item[Chain[n]])}
      ptr == Chain[Min(smaller) - 1]
  IN /\ ~IsInList(x) /\ FreeCells # {}
     /\ item' = [item EXCEPT ![c] = x] /\ numInList' = numInList + 1
     /\ IF first = NULL
        THEN first' = c /\ last' = c /\ next' = [next EXCEPT ![c] = NULL]
        ELSE IF Priority(x) < Priority(item[first])
        THEN first' = c /\ next' = [next EXCEPT ![c] = first] /\ UNCHANGED last
        ELSE IF smaller # {}
        THEN next' = [next EXCEPT ![c] = next[ptr], ![ptr] = c] /\ UNCHANGED <<first, last>>
        ELSE next' = [next EXCEPT ![last] = c, ![c] = NULL] /\ last' = c /\ UNCHANGED first

RemoveFront ==
  /\ numInList # 0
  /\ IF first = last THEN first' = NULL /\ last' = NULL
     ELSE first' = next[first] /\ UNCHANGED last
  /\ numInList' = numInList - 1
  /\ UNCHANGED <<item, next>>

\* Mutation: the last element is unlinked and last still points to it.
RemoveKeepsLast(x) ==
  LET n == CHOOSE k \in DOMAIN Chain : item[Chain[k]] = x
  IN /\ IsInList(x)
     /\ IF x = item[first] THEN RemoveFront
        ELSE /\ next' = [next EXCEPT ![Chain[n - 1]] = next[Chain[n]]]
             /\ numInList' = numInList - 1
             /\ UNCHANGED <<item, first, last>>

ListRemove(x) ==
  LET n == CHOOSE k \in DOMAIN Chain : item[Chain[k]] = x
      prev == Chain[n - 1]
  IN /\ IsInList(x)
     /\ IF x = item[first] THEN RemoveFront
        ELSE /\ next' = [next EXCEPT ![prev] = next[Chain[n]]]
             /\ last' = IF next[Chain[n]] = NULL THEN prev ELSE last
             /\ numInList' = numInList - 1
             /\ UNCHANGED <<item, first>>

SortedListNext == RemoveFront \/ \E x \in ListItems : ListInsert(x) \/ ListRemove(x)

SortedListSpec == SortedListInit /\ [][SortedListNext]_listVars

\* SortedList::SanityCheck.
ListIsSane ==
  /\ IF first = NULL THEN numInList = 0 /\ last = NULL
     ELSE Len(Chain) = numInList /\ Last(Chain) = last /\ next[last] = NULL
  /\ \A m, n \in DOMAIN Chain : m < n => Priority(item[Chain[m]]) <= Priority(item[Chain[n]])

-----------------------------------------------------------------------------
(***************************************************************************)
(* MyHashTable.                                                            *)
(***************************************************************************)

Empty(size) == [n \in 0 .. size - 1 |-> <<>>]

HashInit == buckets = Empty(InitialBuckets) /\ numBuckets = InitialBuckets /\ numItems = 0

HashValue(key, size) == Hash(key) % size

Put(table, size, key) == [table EXCEPT ![HashValue(key, size)] = Append(@, key)]

\* The items of the buckets, bucket after bucket.
InBuckets ==
  LET upTo[n \in 0 .. numBuckets] == IF n = 0 THEN <<>> ELSE upTo[n - 1] \o buckets[n - 1]
  IN upTo[numBuckets]

\* Mutation: the old buckets become the first of the new ones as they are.
ReHashInPlace ==
  [n \in 0 .. numBuckets * IncreaseSizeBy - 1 |-> IF n < numBuckets THEN buckets[n] ELSE <<>>]

\* InitBuckets, and each item put at the end of its bucket, in the order of the old ones.
ReHash ==
  LET size == numBuckets * IncreaseSizeBy
      moved[n \in 0 .. Len(InBuckets)] ==
        IF n = 0 THEN Empty(size) ELSE Put(moved[n - 1], size, InBuckets[n])
  IN moved[Len(InBuckets)]

Find(key) == key \in Range(buckets[HashValue(key, numBuckets)])

HashInsert(key) ==
  LET full == numItems \div numBuckets >= ResizeRatio
      size == IF full THEN numBuckets * IncreaseSizeBy ELSE numBuckets
  IN /\ ~Find(key)
     /\ buckets' = Put(IF full THEN ReHash ELSE buckets, size, key)
     /\ numBuckets' = size
     /\ numItems' = numItems + 1

HashRemove(key) ==
  LET bucket == HashValue(key, numBuckets)
  IN \E n \in DOMAIN buckets[bucket] :
       /\ buckets[bucket][n] = key
       /\ buckets' = [buckets EXCEPT ![bucket] = RemoveAt(@, n)]
       /\ numItems' = numItems - 1
       /\ UNCHANGED numBuckets

HashNext == \E key \in Keys : HashInsert(key) \/ HashRemove(key)

HashSpec == HashInit /\ [][HashNext]_hashVars

FindNextFullBucket(start) ==
  LET full == {n \in start .. numBuckets - 1 : buckets[n] # <<>>}
  IN IF full = {} THEN numBuckets ELSE Min(full)

\* What a HashIterator yields: the bucket it is in, then those after it.
Iterated ==
  LET from[n \in 0 .. numBuckets] ==
        LET bucket == FindNextFullBucket(n)
        IN IF bucket = numBuckets THEN <<>> ELSE buckets[bucket] \o from[bucket + 1]
  IN from[0]

\* MyHashTable::SanityCheck.
TableIsSane ==
  /\ numItems = Len(InBuckets)
  /\ \A n \in DOMAIN buckets : \A key \in Range(buckets[n]) : HashValue(key, numBuckets) = n

-----------------------------------------------------------------------------
(***************************************************************************)
(* Bitmap and PersistentBitmap.                                            *)
(***************************************************************************)

Bits == 0 .. NumBits - 1
NumWords == (NumBits + BitsInWord - 1) \div BitsInWord
NoBits == [w \in 0 .. NumWords - 1 |-> {}]

BitmapInit == map = NoBits /\ file = NoBits /\ marked = {} /\ saved = {}

Test(which) == which % BitsInWord \in map[which \div BitsInWord]

\* Mutation: the word is shifted as if it were the first, past its width for the others.
SetAbsolute(which) ==
  [map EXCEPT ![which \div BitsInWord] = @ \cup ({which} \cap 0 .. BitsInWord - 1)]

Set(which) == [map EXCEPT ![which \div BitsInWord] = @ \cup {which % BitsInWord}]

Cleared(which) == [map EXCEPT ![which \div BitsInWord] = @ \ {which % BitsInWord}]

Mark(which) == map' = Set(which) /\ marked' = marked \cup {which} /\ UNCHANGED <<file, saved>>
Clear(which) == map' = Cleared(which) /\ marked' = marked \ {which} /\ UNCHANGED <<file, saved>>

FindAndSet ==
  LET clear == {n \in Bits : ~Test(n)}
  IN /\ clear # {}
     /\ map' = Set(Min(clear))
     /\ marked' = marked \cup {Min(clear)}
     /\ UNCHANGED <<file, saved>>

NumClear == Cardinality({n \in Bits : ~Test(n)})

WriteBack == file' = map /\ saved' = marked /\ UNCHANGED <<map, marked>>
FetchFrom == map' = file /\ marked' = saved /\ UNCHANGED <<file, saved>>

BitmapNext == FindAndSet \/ WriteBack \/ FetchFrom \/ \E n \in Bits : Mark(n) \/ Clear(n)

BitmapSpec == BitmapInit /\ [][BitmapNext]_bitmapVars

-----------------------------------------------------------------------------
(***************************************************************************)
(* Properties.                                                             *)
(***************************************************************************)

\* The pointers of the list are those of the items that were inserted and not removed, in
\* order: the list implements its promise, whatever is removed from its middle or end.
TheList == INSTANCE AbstractList WITH list <- Listed, Items <- ListItems
ImplementsList == TheList!ListSpec

\* List and hash table pass their SanityChecks, so the next Append finds the last element, and
\* Find an item even after the table has grown; and an iterator yields each item once.
SanityChecked ==
  /\ ListIsSane /\ TableIsSane
  /\ Len(Iterated) = numItems /\ IsInjective(Iterated)

\* A bit tests as set when it has been marked, or found, and not cleared since, through the
\* packing into words and the copy on disk.
BitmapExact == {n \in Bits : Test(n)} = marked /\ NumClear = NumBits - Cardinality(marked)
=============================================================================

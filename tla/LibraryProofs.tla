--------------------------- MODULE LibraryProofs ---------------------------
(***************************************************************************)
(* The theorems about the library's containers and about the machine.  The *)
(* sorted list of Containers implements that of AbstractList, list and     *)
(* hash table pass their SanityChecks, and the bitmap is exact, for any    *)
(* items and priorities, any hash function and growth of the table, and    *)
(* any number of cells, bits and bits in a word.  The machine's arithmetic *)
(* and its stores are exact and its instructions can be executed again,    *)
(* for bytes of any number of bits, any number of registers, any page      *)
(* table and any program.                                                  *)
(***************************************************************************)
EXTENDS Containers, Machine, SequenceTheorems, FiniteSetTheorems, WellFoundedInduction, TLAPS

-----------------------------------------------------------------------------
(***************************************************************************)
(* Induction, and recursive functions.                                     *)
(***************************************************************************)

\* Induction on the natural numbers, for a set: a smallest number outside it cannot be.
LEMMA NatSetInduction ==
  ASSUME NEW S \in SUBSET Nat, 0 \in S, \A n \in S : n + 1 \in S
  PROVE  S = Nat
<1> SUFFICES ASSUME Nat \ S # {} PROVE FALSE
  OBVIOUS
<1>1. PICK k \in Nat \ S : \A j \in Nat \ S : ~ (<<j, k>> \in OpToRel(<, Nat))
  <2>1. Nat \ S \subseteq Nat /\ Nat \ S # {}
    OBVIOUS
  <2> QED  BY <2>1, NatLessThanWellFounded, WFMin, Zenon
<1>2. k # 0 /\ k - 1 \in Nat /\ k = (k - 1) + 1
  OBVIOUS
<1>3. k - 1 \notin S
  BY <1>1, <1>2
<1>4. <<k - 1, k>> \in Nat \X Nat /\ k - 1 < k
  BY <1>2
<1>5. <<k - 1, k>> \in OpToRel(<, Nat)
  BY <1>4 DEF OpToRel
<1> QED  BY <1>1, <1>2, <1>3, <1>5

\* The same up to a number.
LEMMA UpToInduction ==
  ASSUME NEW N \in Nat, NEW S, 0 \in S, \A n \in 0 .. N : n \in S /\ n < N => n + 1 \in S
  PROVE  \A n \in 0 .. N : n \in S
<1> DEFINE T == {n \in Nat : n <= N => n \in S}
<1>1. 0 \in T
  OBVIOUS
<1>2. \A n \in T : n + 1 \in T
  OBVIOUS
<1>3. T = Nat
  <2> HIDE DEF T
  <2>1. T \in SUBSET Nat
    BY DEF T
  <2> QED  BY <2>1, <1>1, <1>2, NatSetInduction
<1> QED  BY <1>3

\* And downwards, from a number to zero.
LEMMA DownFromInduction ==
  ASSUME NEW N \in Nat, NEW S, N \in S, \A n \in 0 .. N : n \in S /\ n > 0 => n - 1 \in S
  PROVE  \A n \in 0 .. N : n \in S
<1> DEFINE T == {n \in 0 .. N : N - n \in S}
<1>1. 0 \in T
  OBVIOUS
<1>2. \A n \in 0 .. N : n \in T /\ n < N => n + 1 \in T
  <2> SUFFICES ASSUME NEW n \in 0 .. N, n \in T, n < N PROVE n + 1 \in T
    OBVIOUS
  <2>1. N - n \in 0 .. N /\ N - n \in S /\ N - n > 0 /\ (N - n) - 1 = N - (n + 1)
    OBVIOUS
  <2>2. (N - n) - 1 \in S
    BY <2>1
  <2> QED  BY <2>1, <2>2
<1>3. \A n \in 0 .. N : n \in T
  <2> HIDE DEF T
  <2> QED  BY <1>1, <1>2, UpToInduction
<1>4. ASSUME NEW n \in 0 .. N PROVE n \in S
  <2>1. N - n \in 0 .. N /\ N - (N - n) = n
    OBVIOUS
  <2>2. N - n \in T
    BY <2>1, <1>3
  <2> QED  BY <2>1, <2>2
<1> QED  BY <1>4

\* A function with all the values reached by the steps from one value to the next.
Reaches(N, V, base, step) ==
  \E f \in [0 .. N -> V] : f[0] = base /\ \A n \in 1 .. N : f[n] = step[n][f[n - 1]]

\* Whatever the steps, there is one.
LEMMA PrimitiveRecursion ==
  ASSUME NEW N \in Nat, NEW V, NEW base \in V, NEW step \in [1 .. N -> [V -> V]]
  PROVE  Reaches(N, V, base, step)
<1> DEFINE S == {m \in 0 .. N : \E f \in [0 .. m -> V] :
                    f[0] = base /\ \A n \in 1 .. m : f[n] = step[n][f[n - 1]]}
<1>1. 0 \in S
  <2> DEFINE f == [n \in 0 .. 0 |-> base]
  <2>1. f \in [0 .. 0 -> V] /\ f[0] = base /\ \A n \in 1 .. 0 : f[n] = step[n][f[n - 1]]
    OBVIOUS
  <2> HIDE DEF f
  <2>2. \E h \in [0 .. 0 -> V] : h[0] = base /\ \A n \in 1 .. 0 : h[n] = step[n][h[n - 1]]
    BY <2>1
  <2> QED  BY <2>2
<1>2. ASSUME NEW m \in 0 .. N, m \in S, m < N
      PROVE  m + 1 \in S
  <2>1. PICK f \in [0 .. m -> V] : f[0] = base /\ \A n \in 1 .. m : f[n] = step[n][f[n - 1]]
    BY <1>2
  <2> DEFINE g == [n \in 0 .. m + 1 |-> IF n = m + 1 THEN step[m + 1][f[m]] ELSE f[n]]
  <2>2. m + 1 \in 1 .. N /\ f[m] \in V
    BY <1>2
  <2>3. step[m + 1][f[m]] \in V
    BY <2>2
  <2>4. g \in [0 .. m + 1 -> V]
    BY <2>3
  <2>5. g[0] = base
    BY <2>1
  <2>6. ASSUME NEW n \in 1 .. m + 1 PROVE g[n] = step[n][g[n - 1]]
    <3>1. CASE n = m + 1
      <4>1. n - 1 = m /\ g[n - 1] = f[m]
        BY <3>1
      <4> QED  BY <3>1, <4>1
    <3>2. CASE n # m + 1
      <4>1. n \in 1 .. m /\ n - 1 \in 0 .. m
        BY <3>2
      <4> QED  BY <4>1, <2>1
    <3> QED  BY <3>1, <3>2
  <2> HIDE DEF g
  <2>7. \E h \in [0 .. m + 1 -> V] : h[0] = base /\ \A n \in 1 .. m + 1 : h[n] = step[n][h[n - 1]]
    BY <2>4, <2>5, <2>6
  <2> QED  BY <2>7, <1>2
<1>3. \A m \in 0 .. N : m \in S
  <2> HIDE DEF S
  <2> QED  BY <1>1, <1>2, UpToInduction
<1>4. N \in S
  BY <1>3
<1> QED  BY <1>4 DEF Reaches

-----------------------------------------------------------------------------
(***************************************************************************)
(* SortedList: what the pointers spell.                                    *)
(***************************************************************************)

\* The pointers, from one on, lead through c and then end.
Spells(c, from, links) ==
  /\ c \in Seq(Cells) /\ Len(c) <= NumCells
  /\ from = IF c = <<>> THEN NULL ELSE c[1]
  /\ \A n \in 1 .. Len(c) : links[c[n]] = IF n = Len(c) THEN NULL ELSE c[n + 1]

\* The walk along the pointers meets just the elements they lead through.
LEMMA ChainIsSpelled ==
  ASSUME NEW from, NEW links, NEW c, Spells(c, from, links)
  PROVE  ChainFrom(from, links) = c
<1> USE DEF NULL
<1> DEFINE Body(f) == [n \in Cells |-> IF n = 1 THEN from
                                       ELSE IF f[n - 1] = NULL THEN NULL ELSE links[f[n - 1]]]
           w == [n \in Cells |-> IF n <= Len(c) THEN c[n] ELSE NULL]
           v == Walk(from, links)
<1>1. /\ NumCells \in Nat /\ c \in Seq(Cells) /\ Len(c) \in Nat /\ Len(c) <= NumCells
      /\ DOMAIN c = 1 .. Len(c) /\ \A n \in 1 .. Len(c) : c[n] \in Cells /\ c[n] # NULL
      /\ c = <<>> <=> Len(c) = 0
  BY ContainersAssumption DEF Spells, Cells
<1>2. w = Body(w)
  <2>1. ASSUME NEW n \in Cells PROVE w[n] = Body(w)[n]
    <3>1. CASE n = 1
      <4>1. Body(w)[n] = from
        BY <3>1
      <4>2. CASE Len(c) = 0
        BY <4>1, <4>2, <3>1, <1>1 DEF Spells
      <4>3. CASE Len(c) # 0
        <5>1. 1 <= Len(c) /\ c # <<>>
          BY <4>3, <1>1
        <5> QED  BY <4>1, <5>1, <3>1 DEF Spells
      <4> QED  BY <4>2, <4>3
    <3>2. CASE n # 1 /\ n - 1 <= Len(c)
      <4>1. n - 1 \in Cells /\ n - 1 \in 1 .. Len(c) /\ w[n - 1] = c[n - 1] /\ c[n - 1] # NULL /\ n \in Nat
        BY <3>2, <1>1 DEF Cells
      <4>2. links[c[n - 1]] = IF n - 1 = Len(c) THEN NULL ELSE c[(n - 1) + 1]
        BY <4>1 DEF Spells
      <4>3. Body(w)[n] = links[c[n - 1]]
        BY <4>1, <3>2
      <4>4. (n - 1) + 1 = n /\ (n - 1 = Len(c) <=> ~ (n <= Len(c)))
        BY <3>2, <4>1, <1>1
      <4> QED  BY <4>2, <4>3, <4>4
    <3>3. CASE n # 1 /\ ~ (n - 1 <= Len(c))
      <4>1. n - 1 \in Cells /\ w[n - 1] = NULL /\ ~ (n <= Len(c))
        BY <3>3, <1>1 DEF Cells
      <4> QED  BY <4>1, <3>3
    <3> QED  BY <3>1, <3>2, <3>3
  <2> QED  BY <2>1
<1>3. v = Body(v)
  <2>1. v = CHOOSE f : f = Body(f)
    BY DEF Walk
  <2> HIDE DEF v, w, Body
  <2> QED  BY <1>2, <2>1
<1>4. \A n \in Cells : v[n] = w[n]
  <2> DEFINE S == {n \in Nat : n \in Cells => v[n] = w[n]}
  <2>1. 0 \in S
    BY DEF Cells
  <2>2. ASSUME NEW n \in 0 .. NumCells, n \in S, n < NumCells
        PROVE  n + 1 \in S
    <3>1. n + 1 \in Cells /\ (n + 1) - 1 = n
      BY <1>1, <2>2 DEF Cells
    <3>2. v[n + 1] = Body(v)[n + 1] /\ w[n + 1] = Body(w)[n + 1]
      BY <1>2, <1>3
    <3>3. CASE n = 0
      BY <3>1, <3>2, <3>3
    <3>4. CASE n # 0
      <4>1. n \in Cells
        BY <3>4, <1>1 DEF Cells
      <4>2. v[n] = w[n]
        BY <2>2, <4>1
      <4> QED  BY <3>1, <3>2, <3>4, <4>2
    <3> QED  BY <3>3, <3>4
  <2>3. \A n \in 0 .. NumCells : n \in S
    <3> HIDE DEF S
    <3> QED  BY <2>1, <2>2, <1>1, UpToInduction
  <2>4. Cells \subseteq 0 .. NumCells
    BY <1>1 DEF Cells
  <2> QED  BY <2>3, <2>4
<1>5. {k \in Cells : v[k] # NULL} = 1 .. Len(c)
  BY <1>1, <1>4 DEF Cells
<1>6. ChainFrom(from, links) = [n \in {k \in Cells : v[k] # NULL} |-> v[n]]
  BY DEF ChainFrom
<1>7. \A n \in 1 .. Len(c) : v[n] = c[n]
  BY <1>1, <1>4 DEF Cells
<1>8. ChainFrom(from, links) = [n \in 1 .. Len(c) |-> c[n]]
  BY <1>5, <1>6, <1>7
<1> QED  BY <1>8, <1>1

\* A sequence without repetition is as long as the set of its elements.
LEMMA InjectiveLength ==
  ASSUME NEW T, NEW s \in Seq(T), IsInjective(s)
  PROVE  IsFiniteSet(Range(s)) /\ Cardinality(Range(s)) = Len(s)
<1>1. Len(s) \in Nat /\ DOMAIN s = 1 .. Len(s)
  OBVIOUS
<1>2. IsFiniteSet(1 .. Len(s)) /\ Cardinality(1 .. Len(s)) = Len(s)
  BY <1>1, FS_Interval
<1>3. s \in Bijection(1 .. Len(s), Range(s))
  <2>1. s \in [1 .. Len(s) -> Range(s)]
    BY <1>1 DEF Range
  <2>2. \A a, b \in 1 .. Len(s) : s[a] = s[b] => a = b
    BY <1>1 DEF IsInjective
  <2>3. \A t \in Range(s) : \E a \in 1 .. Len(s) : s[a] = t
    BY <1>1 DEF Range
  <2> QED  BY <2>1, <2>2, <2>3 DEF Bijection, Injection, Surjection, IsInjective
<1>4. ExistsBijection(1 .. Len(s), Range(s))
  BY <1>3 DEF ExistsBijection
<1> QED  BY <1>2, <1>4, FS_Bijection

\* What inserting into a sequence, and removing from it, leave at each place.
HasInserted(r, s, i, e) ==
  /\ Len(r) = Len(s) + 1
  /\ \A n \in 1 .. Len(s) + 1 : r[n] = IF n < i THEN s[n] ELSE IF n = i THEN e ELSE s[n - 1]

\* Inserting at a place puts the element there and moves those from there on up by one.
LEMMA Inserted ==
  ASSUME NEW T, NEW s \in Seq(T), NEW i \in 1 .. Len(s) + 1, NEW e \in T
  PROVE  InsertAt(s, i, e) \in Seq(T) /\ HasInserted(InsertAt(s, i, e), s, i, e)
<1> DEFINE a == SubSeq(s, 1, i - 1)
           b == SubSeq(s, i, Len(s))
           ae == a \o <<e>>
<1>1. Len(s) \in Nat /\ i \in Nat /\ i >= 1 /\ i <= Len(s) + 1
  OBVIOUS
<1>2. a \in Seq(T) /\ Len(a) = i - 1 /\ \A n \in 1 .. i - 1 : a[n] = s[n]
  BY <1>1, SubSeqProperties
<1>3. b \in Seq(T) /\ Len(b) = Len(s) - i + 1 /\ \A n \in 1 .. Len(s) - i + 1 : b[n] = s[i + n - 1]
  BY <1>1, SubSeqProperties
<1>4. ae \in Seq(T) /\ Len(ae) = i /\ \A n \in 1 .. i : ae[n] = IF n < i THEN s[n] ELSE e
  <2>1. <<e>> \in Seq(T) /\ Len(<<e>>) = 1 /\ <<e>>[1] = e
    OBVIOUS
  <2> HIDE DEF a
  <2>2. /\ ae \in Seq(T) /\ Len(ae) = Len(a) + Len(<<e>>)
        /\ \A n \in 1 .. Len(a) + Len(<<e>>) : ae[n] = IF n <= Len(a) THEN a[n] ELSE <<e>>[n - Len(a)]
    BY <2>1, <1>2, ConcatProperties, Zenon
  <2> HIDE DEF ae
  <2> QED  BY <2>1, <2>2, <1>1, <1>2
<1>5. /\ ae \o b \in Seq(T) /\ Len(ae \o b) = Len(ae) + Len(b)
      /\ \A n \in 1 .. Len(ae) + Len(b) : (ae \o b)[n] = IF n <= Len(ae) THEN ae[n] ELSE b[n - Len(ae)]
  <2> HIDE DEF ae, b
  <2> QED  BY <1>3, <1>4, ConcatProperties, Zenon
<1>6. InsertAt(s, i, e) = ae \o b
  BY DEF InsertAt
<1> DEFINE r == ae \o b
<1>7. r \in Seq(T) /\ Len(r) = Len(s) + 1
  <2> HIDE DEF ae, b
  <2> QED  BY <1>1, <1>3, <1>4, <1>5
<1>8. ASSUME NEW n \in 1 .. Len(s) + 1
      PROVE  r[n] = IF n < i THEN s[n] ELSE IF n = i THEN e ELSE s[n - 1]
  <2> HIDE DEF ae, b, r
  <2>1. n \in 1 .. Len(ae) + Len(b) /\ n \in Int
    BY <1>1, <1>3, <1>4
  <2>2. r[n] = IF n <= i THEN ae[n] ELSE b[n - i]
    BY <2>1, <1>4, <1>5 DEF r
  <2>3. CASE n <= i
    BY <2>3, <2>2, <2>1, <1>1, <1>4
  <2>4. CASE n > i
    <3>1. n - i \in 1 .. Len(s) - i + 1 /\ i + (n - i) - 1 = n - 1
      BY <2>4, <1>1
    <3>2. b[n - i] = s[n - 1]
      BY <3>1, <1>3
    <3> QED  BY <3>2, <2>2, <2>4, <1>1
  <2> QED  BY <2>1, <2>3, <2>4, <1>1
<1> HIDE DEF ae, b, r
<1>9. HasInserted(r, s, i, e)
  BY <1>7, <1>8 DEF HasInserted
<1> QED  BY <1>6, <1>7, <1>9 DEF r

\* Removing at a place takes that element out and moves those after it down by one.
LEMMA Removed ==
  ASSUME NEW T, NEW s \in Seq(T), NEW i \in 1 .. Len(s)
  PROVE  /\ RemoveAt(s, i) \in Seq(T) /\ Len(RemoveAt(s, i)) = Len(s) - 1
         /\ \A n \in 1 .. Len(s) - 1 : RemoveAt(s, i)[n] = IF n < i THEN s[n] ELSE s[n + 1]
<1> DEFINE a == SubSeq(s, 1, i - 1)
           b == SubSeq(s, i + 1, Len(s))
           r == a \o b
<1>1. Len(s) \in Nat /\ i \in Nat /\ i >= 1 /\ i <= Len(s)
  OBVIOUS
<1>2. a \in Seq(T) /\ Len(a) = i - 1 /\ \A n \in 1 .. i - 1 : a[n] = s[n]
  BY <1>1, SubSeqProperties
<1>3. b \in Seq(T) /\ Len(b) = Len(s) - i /\ \A n \in 1 .. Len(s) - i : b[n] = s[i + n]
  BY <1>1, SubSeqProperties
<1>4. RemoveAt(s, i) = r
  BY DEF RemoveAt
<1> HIDE DEF a, b
<1>5. /\ r \in Seq(T) /\ Len(r) = Len(a) + Len(b)
      /\ \A n \in 1 .. Len(a) + Len(b) : r[n] = IF n <= Len(a) THEN a[n] ELSE b[n - Len(a)]
  BY <1>2, <1>3, ConcatProperties, Zenon
<1> HIDE DEF r
<1>6. ASSUME NEW n \in 1 .. Len(s) - 1
      PROVE  r[n] = IF n < i THEN s[n] ELSE s[n + 1]
  <2>0. n \in 1 .. Len(a) + Len(b) /\ Len(a) = i - 1 /\ n \in Int
    BY <1>1, <1>2, <1>3
  <2>1. CASE n < i
    <3>1. n <= Len(a) /\ n \in 1 .. i - 1
      BY <2>0, <2>1, <1>1
    <3>2. r[n] = a[n]
      BY <3>1, <2>0, <1>5
    <3> QED  BY <3>1, <3>2, <2>1, <1>2
  <2>2. CASE n >= i
    <3>1. n - (i - 1) \in 1 .. Len(s) - i /\ i + (n - (i - 1)) = n + 1
      BY <2>2, <1>1
    <3>2. b[n - (i - 1)] = s[n + 1]
      BY <3>1, <1>3
    <3>3. ~ (n <= Len(a)) /\ n - Len(a) = n - (i - 1)
      BY <2>0, <2>2, <1>1
    <3>4. r[n] = b[n - (i - 1)]
      BY <3>3, <2>0, <1>5
    <3> QED  BY <3>2, <3>4, <2>2, <2>0, <1>1
  <2> QED  BY <2>0, <2>1, <2>2, <1>1
<1> QED  BY <1>1, <1>2, <1>3, <1>4, <1>5, <1>6

\* Removing the first leaves the tail.
LEMMA RemovedFirst ==
  ASSUME NEW T, NEW s \in Seq(T), s # <<>>
  PROVE  RemoveAt(s, 1) = Tail(s)
<1>1. 1 \in 1 .. Len(s) /\ Len(s) \in Nat
  OBVIOUS
<1>2. /\ RemoveAt(s, 1) \in Seq(T) /\ Len(RemoveAt(s, 1)) = Len(s) - 1
      /\ \A n \in 1 .. Len(s) - 1 : RemoveAt(s, 1)[n] = IF n < 1 THEN s[n] ELSE s[n + 1]
  BY <1>1, Removed
<1>3. Tail(s) \in Seq(T) /\ Len(Tail(s)) = Len(s) - 1 /\ \A n \in 1 .. Len(s) - 1 : Tail(s)[n] = s[n + 1]
  OBVIOUS
<1> HIDE DEF RemoveAt
<1>4. \A n \in 1 .. Len(s) - 1 : RemoveAt(s, 1)[n] = Tail(s)[n]
  BY <1>2, <1>3
<1> QED  BY <1>2, <1>3, <1>4, SeqEqual

\* Linking a new element in lets the pointers lead through it too.
LEMMA SpellsInserted ==
  ASSUME NEW from, NEW links, NEW c, Spells(c, from, links), IsInjective(c),
         NEW cell \in Cells \ Range(c), NEW k \in 1 .. Len(c) + 1,
         NEW from2, from2 = IF k = 1 THEN cell ELSE from,
         NEW links2, links2[cell] = IF k = Len(c) + 1 THEN NULL ELSE c[k],
         k > 1 => links2[c[k - 1]] = cell,
         \A n \in 1 .. Len(c) : n # k - 1 => links2[c[n]] = links[c[n]]
  PROVE  Spells(InsertAt(c, k, cell), from2, links2)
<1> DEFINE r == InsertAt(c, k, cell)
<1>1. /\ NumCells \in Nat /\ c \in Seq(Cells) /\ Len(c) \in Nat /\ DOMAIN c = 1 .. Len(c)
      /\ \A n \in 1 .. Len(c) : c[n] \in Cells
  BY ContainersAssumption DEF Spells
<1>2. /\ r \in Seq(Cells) /\ Len(r) = Len(c) + 1
      /\ \A n \in 1 .. Len(c) + 1 : r[n] = IF n < k THEN c[n] ELSE IF n = k THEN cell ELSE c[n - 1]
  BY <1>1, Inserted DEF HasInserted
<1> HIDE DEF r
<1>3. Len(c) + 1 <= NumCells
  <2>1. IsFiniteSet(Range(c)) /\ Cardinality(Range(c)) = Len(c)
    BY <1>1, InjectiveLength
  <2>2. Cardinality(Range(c) \cup {cell}) = Len(c) + 1
    BY <2>1, FS_AddElement
  <2>3. IsFiniteSet(Cells) /\ Cardinality(Cells) = NumCells
    BY <1>1, FS_Interval DEF Cells
  <2>4. Range(c) \cup {cell} \in SUBSET Cells
    BY <1>1 DEF Range
  <2> QED  BY <2>2, <2>3, <2>4, FS_Subset
<1>4. from2 = IF r = <<>> THEN NULL ELSE r[1]
  <2>1. r # <<>> /\ 1 \in 1 .. Len(c) + 1
    BY <1>1, <1>2
  <2>2. CASE k = 1
    BY <2>1, <2>2, <1>2
  <2>3. CASE k # 1
    <3>1. c # <<>> /\ 1 < k
      BY <2>3, <1>1
    <3>2. from = c[1]
      BY <3>1 DEF Spells
    <3> QED  BY <3>1, <3>2, <2>1, <1>2
  <2> QED  BY <2>2, <2>3
<1>5. ASSUME NEW n \in 1 .. Len(r) PROVE links2[r[n]] = IF n = Len(r) THEN NULL ELSE r[n + 1]
  <2>1. n \in 1 .. Len(c) + 1 /\ n \in Int /\ k \in Int
    BY <1>1, <1>2
  <2>2. CASE n = k
    <3>1. r[n] = cell
      BY <2>1, <2>2, <1>2
    <3>2. CASE n = Len(r)
      BY <3>1, <3>2, <2>2, <1>2
    <3>3. CASE n # Len(r)
      <4>1. n + 1 \in 1 .. Len(c) + 1 /\ ~ (n + 1 < k) /\ n + 1 # k /\ (n + 1) - 1 = k
        BY <3>3, <2>1, <2>2, <1>1, <1>2
      <4>2. r[n + 1] = c[k]
        BY <4>1, <1>2
      <4> QED  BY <4>2, <3>1, <3>3, <2>2, <1>2
    <3> QED  BY <3>2, <3>3
  <2>3. CASE n < k /\ n = k - 1
    <3>1. r[n] = c[n] /\ n + 1 \in 1 .. Len(c) + 1 /\ n + 1 = k /\ n # Len(r) /\ k > 1
      BY <2>1, <2>3, <1>1, <1>2
    <3>2. r[n + 1] = cell
      BY <3>1, <1>2
    <3> QED  BY <3>1, <3>2, <2>3
  <2>4. CASE n < k /\ n # k - 1
    <3>0. n + 1 < k
      BY <2>1, <2>4
    <3>1. /\ r[n] = c[n] /\ n + 1 \in 1 .. Len(c) + 1 /\ n + 1 < k /\ n # Len(r)
          /\ n \in 1 .. Len(c) /\ n # Len(c)
      <4>1. n + 1 <= Len(c) /\ n + 1 \in 1 .. Len(c) + 1 /\ n \in 1 .. Len(c) /\ n # Len(c)
        BY <3>0, <2>1, <1>1
      <4>2. r[n] = c[n]
        BY <2>1, <2>4, <1>2
      <4>3. n # Len(r)
        <5>1. Len(r) = Len(c) + 1 /\ Len(c) \in Nat /\ n \in Int /\ n + 1 <= Len(c)
          BY <4>1, <2>1, <1>1, <1>2
        <5> HIDE DEF Spells
        <5> QED  BY <5>1
      <4> QED  BY <4>1, <4>2, <4>3, <3>0
    <3>2. r[n + 1] = c[n + 1]
      BY <3>1, <1>2
    <3>3. links2[c[n]] = c[n + 1]
      BY <3>1, <2>4 DEF Spells
    <3> QED  BY <3>1, <3>2, <3>3
  <2>5. CASE n > k
    <3>1. r[n] = c[n - 1] /\ n - 1 \in 1 .. Len(c) /\ n - 1 # k - 1 /\ (n - 1) + 1 = n
      BY <2>1, <2>5, <1>1, <1>2
    <3>2. links2[c[n - 1]] = IF n - 1 = Len(c) THEN NULL ELSE c[n]
      BY <3>1 DEF Spells
    <3>3. CASE n = Len(r)
      BY <3>1, <3>2, <3>3, <1>1, <1>2
    <3>4. CASE n # Len(r)
      <4>1. n + 1 \in 1 .. Len(c) + 1 /\ ~ (n + 1 < k) /\ n + 1 # k /\ (n + 1) - 1 = n /\ n - 1 # Len(c)
        <5>1. n # Len(c) + 1
          BY <3>4, <1>2
        <5> QED  BY <5>1, <2>1, <2>5, <1>1
      <4>2. r[n + 1] = c[n]
        BY <4>1, <1>2
      <4> QED  BY <4>1, <4>2, <3>1, <3>2, <3>4
    <3> QED  BY <3>3, <3>4
  <2> QED  BY <2>1, <2>2, <2>3, <2>4, <2>5
<1> QED  BY <1>2, <1>3, <1>4, <1>5 DEF Spells, r

\* Unlinking an element lets them lead through the others.
LEMMA SpellsRemoved ==
  ASSUME NEW from, NEW links, NEW c, Spells(c, from, links), NEW k \in 1 .. Len(c),
         NEW from2, from2 = IF k = 1 THEN links[from] ELSE from,
         NEW links2, k > 1 => links2[c[k - 1]] = links[c[k]],
         \A n \in 1 .. Len(c) : n # k - 1 => links2[c[n]] = links[c[n]]
  PROVE  Spells(RemoveAt(c, k), from2, links2)
<1> DEFINE r == RemoveAt(c, k)
<1>1. /\ NumCells \in Nat /\ c \in Seq(Cells) /\ Len(c) \in Nat /\ Len(c) <= NumCells
      /\ k \in Nat /\ k >= 1 /\ k <= Len(c) /\ c # <<>>
  BY ContainersAssumption DEF Spells
<1>2. /\ r \in Seq(Cells) /\ Len(r) = Len(c) - 1
      /\ \A n \in 1 .. Len(c) - 1 : r[n] = IF n < k THEN c[n] ELSE c[n + 1]
  BY <1>1, Removed
<1> HIDE DEF r
<1>3. r = <<>> <=> Len(c) = 1
  BY <1>1, <1>2
<1>4. from = c[1] /\ links[c[k]] = IF k = Len(c) THEN NULL ELSE c[k + 1]
  BY <1>1 DEF Spells
<1>5. from2 = IF r = <<>> THEN NULL ELSE r[1]
  <2>1. CASE k = 1
    <3>1. from2 = IF Len(c) = 1 THEN NULL ELSE c[2]
      BY <2>1, <1>1, <1>4
    <3>2. Len(c) # 1 => 1 \in 1 .. Len(c) - 1 /\ ~ (1 < k) /\ r[1] = c[1 + 1]
      BY <2>1, <1>1, <1>2
    <3> QED  BY <3>1, <3>2, <1>3
  <2>2. CASE k # 1
    <3>1. Len(c) # 1 /\ 1 \in 1 .. Len(c) - 1 /\ 1 < k
      BY <2>2, <1>1
    <3> QED  BY <3>1, <2>2, <1>2, <1>3, <1>4
  <2> QED  BY <2>1, <2>2
<1>6. ASSUME NEW n \in 1 .. Len(r) PROVE links2[r[n]] = IF n = Len(r) THEN NULL ELSE r[n + 1]
  <2>1. n \in 1 .. Len(c) - 1 /\ n \in Int
    BY <1>1, <1>2
  <2>2. CASE n = k - 1
    <3>1. n < k /\ r[n] = c[k - 1] /\ k > 1 /\ ~ (n + 1 < k) /\ n + 1 = k
      BY <2>1, <2>2, <1>1, <1>2
    <3>2. links2[r[n]] = IF k = Len(c) THEN NULL ELSE c[k + 1]
      BY <3>1, <1>4
    <3>3. k = Len(c) <=> n = Len(r)
      BY <3>1, <2>1, <1>1, <1>2
    <3>4. n # Len(r) => n + 1 \in 1 .. Len(c) - 1 /\ r[n + 1] = c[k + 1]
      BY <3>1, <2>1, <1>1, <1>2
    <3> QED  BY <3>2, <3>3, <3>4
  <2>3. CASE n < k - 1
    <3>1. n < k /\ r[n] = c[n] /\ n + 1 < k /\ n # Len(c) /\ n \in 1 .. Len(c) /\ n # k - 1
          /\ n + 1 \in 1 .. Len(c) - 1 /\ n # Len(r)
      BY <2>1, <2>3, <1>1, <1>2
    <3>2. links2[c[n]] = c[n + 1]
      BY <3>1 DEF Spells
    <3>3. r[n + 1] = c[n + 1]
      BY <3>1, <1>2
    <3> QED  BY <3>1, <3>2, <3>3
  <2>4. CASE n > k - 1
    <3>1. ~ (n < k) /\ n + 1 \in 1 .. Len(c) /\ n + 1 # k - 1 /\ ~ (n + 1 < k)
      BY <2>1, <2>4, <1>1
    <3>2. r[n] = c[n + 1]
      BY <3>1, <2>1, <1>2
    <3>3. links2[c[n + 1]] = IF n + 1 = Len(c) THEN NULL ELSE c[(n + 1) + 1]
      BY <3>1 DEF Spells
    <3>4. n + 1 = Len(c) <=> n = Len(r)
      BY <2>1, <1>1, <1>2
    <3>5. n # Len(r) => n + 1 \in 1 .. Len(c) - 1 /\ r[n + 1] = c[(n + 1) + 1]
      BY <3>1, <2>1, <1>1, <1>2
    <3> QED  BY <3>2, <3>3, <3>4, <3>5
  <2> QED  BY <2>1, <2>2, <2>3, <2>4, <1>1
<1>7. Len(r) <= NumCells
  BY <1>1, <1>2
<1> QED  BY <1>2, <1>5, <1>6, <1>7 DEF Spells, r

-----------------------------------------------------------------------------
(***************************************************************************)
(* SortedList: its invariant, and what each operation does to the items.   *)
(***************************************************************************)

Sorted(s) == \A m, n \in DOMAIN s : m < n => Priority(s[m]) <= Priority(s[n])

\* first, next and last are those of the elements on the list, which hold different items,
\* in the order of their priorities.
ListInv ==
  /\ item \in [Cells -> ListItems \cup {NULL}]
  /\ Spells(Chain, first, next) /\ next \in [Cells -> Cells \cup {NULL}]
  /\ last = IF Chain = <<>> THEN NULL ELSE Chain[Len(Chain)]
  /\ numInList = Len(Chain)
  /\ Listed \in Seq(ListItems) /\ IsInjective(Listed) /\ Sorted(Listed)

\* A set of numbers that is not empty has a minimum.
LEMMA MinOf ==
  ASSUME NEW S \in SUBSET Nat, S # {}
  PROVE  Min(S) \in S /\ \A n \in S : Min(S) <= n
<1>1. PICK k \in S : \A n \in S : ~ (<<n, k>> \in OpToRel(<, Nat))
  <2>1. S \subseteq Nat
    OBVIOUS
  <2> QED  BY <2>1, NatLessThanWellFounded, WFMin, Zenon
<1>2. ASSUME NEW n \in S, ~ (k <= n) PROVE FALSE
  <2>1. <<n, k>> \in Nat \X Nat /\ n < k
    BY <1>2
  <2>2. <<n, k>> \in OpToRel(<, Nat)
    BY <2>1 DEF OpToRel
  <2> QED  BY <2>2, <1>1
<1>3. \E m \in S : \A n \in S : m <= n
  BY <1>2
<1> QED  BY <1>3 DEF Min

\* What follows at once from the invariant.
LEMMA ListFacts ==
  ASSUME ListInv
  PROVE  /\ NumCells \in Nat /\ Chain \in Seq(Cells) /\ Len(Chain) \in Nat
         /\ DOMAIN Chain = 1 .. Len(Chain) /\ \A n \in 1 .. Len(Chain) : Chain[n] \in Cells /\ Chain[n] # NULL
         /\ Listed \in Seq(ListItems) /\ Len(Listed) = Len(Chain) /\ DOMAIN Listed = 1 .. Len(Chain)
         /\ \A n \in 1 .. Len(Chain) : Listed[n] = item[Chain[n]] /\ item[Chain[n]] \in ListItems
         /\ IsInjective(Chain)
         /\ first = NULL <=> Chain = <<>>
         /\ Chain = <<>> <=> Len(Chain) = 0
         /\ Chain # <<>> => first = Chain[1] /\ last = Chain[Len(Chain)] /\ 1 \in 1 .. Len(Chain)
<1>1. NumCells \in Nat /\ Chain \in Seq(Cells) /\ Len(Chain) \in Nat /\ DOMAIN Chain = 1 .. Len(Chain)
  BY ContainersAssumption DEF ListInv, Spells
<1>2. \A n \in 1 .. Len(Chain) : Chain[n] \in Cells /\ Chain[n] # NULL
  BY <1>1 DEF Cells, NULL
<1>3. DOMAIN Listed = 1 .. Len(Chain) /\ \A n \in 1 .. Len(Chain) : Listed[n] = item[Chain[n]]
  BY <1>1 DEF Listed
<1>4. Listed \in Seq(ListItems) /\ IsInjective(Listed)
  BY DEF ListInv
<1>5. Len(Listed) = Len(Chain) /\ \A n \in 1 .. Len(Chain) : Listed[n] \in ListItems
  BY <1>1, <1>3, <1>4
<1>6. IsInjective(Chain)
  BY <1>1, <1>3, <1>4 DEF IsInjective
<1>7. Chain = <<>> <=> Len(Chain) = 0
  BY <1>1
<1>8. first = IF Chain = <<>> THEN NULL ELSE Chain[1]
  BY DEF ListInv, Spells
<1>9. Chain # <<>> => 1 \in 1 .. Len(Chain)
  BY <1>1, <1>7
<1>10. Chain # <<>> => last = Chain[Len(Chain)]
  BY DEF ListInv
<1> QED  BY <1>1, <1>2, <1>3, <1>4, <1>5, <1>6, <1>7, <1>8, <1>9, <1>10

\* The place of an item on the list.
LEMMA PlaceOf ==
  ASSUME ListInv, NEW x, IsInList(x)
  PROVE  \E n \in 1 .. Len(Chain) : Listed[n] = x
BY ListFacts DEF IsInList, Range

\* Inserting at a place that keeps the order keeps the items different and in order.
LEMMA InsertedInOrder ==
  ASSUME NEW s \in Seq(ListItems), IsInjective(s), Sorted(s), NEW x \in ListItems, x \notin Range(s),
         NEW k \in 1 .. Len(s) + 1,
         \A n \in 1 .. Len(s) : Priority(s[n]) <= Priority(x) <=> n < k
  PROVE  /\ InsertAt(s, k, x) \in Seq(ListItems)
         /\ IsInjective(InsertAt(s, k, x)) /\ Sorted(InsertAt(s, k, x))
<1> DEFINE r == InsertAt(s, k, x)
<1>1. Len(s) \in Nat /\ DOMAIN s = 1 .. Len(s) /\ \A n \in 1 .. Len(s) : s[n] \in ListItems /\ s[n] # x
  BY DEF Range
<1>2. /\ r \in Seq(ListItems) /\ Len(r) = Len(s) + 1
      /\ \A n \in 1 .. Len(s) + 1 : r[n] = IF n < k THEN s[n] ELSE IF n = k THEN x ELSE s[n - 1]
  BY Inserted DEF HasInserted
<1> HIDE DEF r
<1>3. DOMAIN r = 1 .. Len(s) + 1
  BY <1>1, <1>2
<1>4. \A a, b \in 1 .. Len(s) : (s[a] = s[b] => a = b) /\ (a < b => Priority(s[a]) <= Priority(s[b]))
  BY <1>1 DEF IsInjective, Sorted
<1>5. \A y \in ListItems : Priority(y) \in Nat
  BY ContainersAssumption
<1>6. ASSUME NEW a \in 1 .. Len(s) + 1, NEW b \in 1 .. Len(s) + 1, a < b
      PROVE  r[a] # r[b] /\ Priority(r[a]) <= Priority(r[b])
  <2>0. a \in Int /\ b \in Int /\ k \in Int
    BY <1>1
  <2>1. CASE b < k
    <3>1. a \in 1 .. Len(s) /\ b \in 1 .. Len(s) /\ a < k
      BY <2>0, <2>1, <1>1, <1>6
    <3>2. r[a] = s[a] /\ r[b] = s[b]
      BY <3>1, <2>1, <1>2
    <3> QED  BY <3>1, <3>2, <1>4, <1>6
  <2>2. CASE b = k
    <3>1. a \in 1 .. Len(s) /\ a < k
      BY <2>0, <2>2, <1>1, <1>6
    <3>2. r[a] = s[a] /\ r[b] = x
      BY <3>1, <2>2, <1>2
    <3>3. Priority(s[a]) <= Priority(x)
      BY <3>1
    <3> QED  BY <3>1, <3>2, <3>3, <1>1
  <2>3. CASE b > k
    <3>1. b - 1 \in 1 .. Len(s) /\ r[b] = s[b - 1] /\ ~ (b - 1 < k)
      <4>1. b - 1 \in 1 .. Len(s) /\ ~ (b - 1 < k) /\ ~ (b < k) /\ b # k
        BY <2>0, <2>3, <1>1
      <4>2. r[b] = s[b - 1]
        BY <4>1, <1>2
      <4> QED  BY <4>1, <4>2
    <3>2. CASE a < k
      <4>1. a \in 1 .. Len(s) /\ r[a] = s[a] /\ a < b - 1
        BY <3>2, <2>0, <2>3, <1>1, <1>2
      <4>2. a # b - 1
        BY <4>1, <2>0
      <4> QED  BY <3>1, <4>1, <4>2, <1>4
    <3>3. CASE a = k
      <4>1. r[a] = x
        BY <3>3, <1>2
      <4>2. ~ (Priority(s[b - 1]) <= Priority(x)) /\ s[b - 1] \in ListItems /\ s[b - 1] # x
        BY <3>1, <1>1
      <4> QED  BY <3>1, <4>1, <4>2, <1>5
    <3>4. CASE a > k
      <4>1. a - 1 \in 1 .. Len(s) /\ r[a] = s[a - 1] /\ a - 1 < b - 1 /\ a - 1 # b - 1
        BY <3>4, <2>0, <1>1, <1>2, <1>6
      <4> QED  BY <3>1, <4>1, <1>4
    <3> QED  BY <3>2, <3>3, <3>4, <2>0
  <2> QED  BY <2>0, <2>1, <2>2, <2>3
<1>7. IsInjective(r)
  <2>1. \A a, b \in 1 .. Len(s) + 1 : a # b => a < b \/ b < a
    BY <1>1
  <2> QED  BY <2>1, <1>3, <1>6 DEF IsInjective
<1>8. Sorted(r)
  BY <1>3, <1>6 DEF Sorted
<1> QED  BY <1>2, <1>7, <1>8 DEF r

\* And so does removing.
LEMMA RemovedInOrder ==
  ASSUME NEW s \in Seq(ListItems), IsInjective(s), Sorted(s), NEW k \in 1 .. Len(s)
  PROVE  /\ RemoveAt(s, k) \in Seq(ListItems)
         /\ IsInjective(RemoveAt(s, k)) /\ Sorted(RemoveAt(s, k))
<1> DEFINE r == RemoveAt(s, k)
           At(n) == IF n < k THEN n ELSE n + 1
<1>1. Len(s) \in Nat /\ DOMAIN s = 1 .. Len(s) /\ k \in Int
  OBVIOUS
<1>2. /\ r \in Seq(ListItems) /\ Len(r) = Len(s) - 1
      /\ \A n \in 1 .. Len(s) - 1 : r[n] = IF n < k THEN s[n] ELSE s[n + 1]
  BY Removed
<1> HIDE DEF r
<1>3. DOMAIN r = 1 .. Len(s) - 1
  BY <1>1, <1>2
<1>4. \A a, b \in 1 .. Len(s) : (s[a] = s[b] => a = b) /\ (a < b => Priority(s[a]) <= Priority(s[b]))
  BY <1>1 DEF IsInjective, Sorted
<1>5. \A n \in 1 .. Len(s) - 1 : r[n] = s[At(n)] /\ At(n) \in 1 .. Len(s)
  BY <1>1, <1>2
<1>6. \A a, b \in 1 .. Len(s) - 1 : (At(a) = At(b) => a = b) /\ (a < b => At(a) < At(b))
  BY <1>1
<1> HIDE DEF At
<1>7. IsInjective(r)
  BY <1>3, <1>4, <1>5, <1>6 DEF IsInjective
<1>8. Sorted(r)
  BY <1>3, <1>4, <1>5, <1>6 DEF Sorted
<1> QED  BY <1>2, <1>7, <1>8 DEF r

\* Where Insert puts an item: after those of its priority and before those of a greater one.
LEMMA ListInsertStep ==
  ASSUME ListInv, NEW x \in ListItems, ListInsert(x)
  PROVE  /\ ListInv' /\ x \notin Range(Listed)
         /\ \E k \in 1 .. Len(Listed) + 1 :
              /\ \A n \in 1 .. Len(Listed) : Priority(Listed[n]) <= Priority(x) <=> n < k
              /\ Listed' = InsertAt(Listed, k, x)
<1> DEFINE c == Min(FreeCells)
           smaller == {n \in DOMAIN Chain : n > 1 /\ Priority(x) < Priority(item[Chain[n]])}
           After(k) == \A n \in 1 .. Len(Chain) : Priority(Listed[n]) <= Priority(x) <=> n < k
           Joined(k) == /\ first' = IF k = 1 THEN c ELSE first
                        /\ next'[c] = IF k = Len(Chain) + 1 THEN NULL ELSE Chain[k]
                        /\ k > 1 => next'[Chain[k - 1]] = c
                        /\ \A n \in 1 .. Len(Chain) : n # k - 1 => next'[Chain[n]] = next[Chain[n]]
                        /\ last' = IF k = Len(Chain) + 1 THEN c ELSE last
                        /\ next' \in [Cells -> Cells \cup {NULL}]
<1>1. /\ NumCells \in Nat /\ Chain \in Seq(Cells) /\ Len(Chain) \in Nat
      /\ DOMAIN Chain = 1 .. Len(Chain) /\ \A n \in 1 .. Len(Chain) : Chain[n] \in Cells /\ Chain[n] # NULL
      /\ Listed \in Seq(ListItems) /\ Len(Listed) = Len(Chain) /\ DOMAIN Listed = 1 .. Len(Chain)
      /\ \A n \in 1 .. Len(Chain) : Listed[n] = item[Chain[n]] /\ item[Chain[n]] \in ListItems
      /\ IsInjective(Chain)
      /\ first = NULL <=> Chain = <<>>
      /\ Chain = <<>> <=> Len(Chain) = 0
      /\ Chain # <<>> => first = Chain[1] /\ last = Chain[Len(Chain)] /\ 1 \in 1 .. Len(Chain)
  BY ListFacts
<1>2. c \in Cells /\ c \notin Range(Chain)
  <2>1. FreeCells # {} /\ FreeCells \in SUBSET Nat
    BY DEF ListInsert, FreeCells, Cells
  <2>2. c \in FreeCells
    BY <2>1, MinOf
  <2> QED  BY <2>2 DEF FreeCells
<1>3. \A n \in 1 .. Len(Chain) : Chain[n] # c
  BY <1>1, <1>2 DEF Range
<1>4. /\ x \notin Range(Listed) /\ item' = [item EXCEPT ![c] = x] /\ numInList' = numInList + 1
  BY DEF ListInsert, IsInList
<1>5. next \in [Cells -> Cells \cup {NULL}] /\ item \in [Cells -> ListItems \cup {NULL}]
  BY DEF ListInv
<1>6. \A y \in ListItems : Priority(y) \in Nat
  BY ContainersAssumption
<1>7. \A m, n \in 1 .. Len(Chain) : m < n => Priority(Listed[m]) <= Priority(Listed[n])
  BY <1>1 DEF ListInv, Sorted
<1>8. \A m, n \in 1 .. Len(Chain) : Chain[m] = Chain[n] => m = n
  BY <1>1 DEF IsInjective
<1>9. \E k \in 1 .. Len(Chain) + 1 : After(k) /\ Joined(k)
  <2>1. CASE first = NULL
    <3>1. first' = c /\ last' = c /\ next' = [next EXCEPT ![c] = NULL]
      BY <2>1 DEF ListInsert
    <3>2. Len(Chain) = 0 /\ 1 \in 1 .. Len(Chain) + 1
      BY <2>1, <1>1
    <3>3. After(1)
      BY <3>2
    <3>4. Joined(1)
      BY <3>1, <3>2, <1>2, <1>5
    <3> QED  BY <3>2, <3>3, <3>4
  <2>2. CASE first # NULL /\ Priority(x) < Priority(item[first])
    <3>1. first' = c /\ next' = [next EXCEPT ![c] = first] /\ last' = last
      BY <2>2 DEF ListInsert
    <3>2. Chain # <<>> /\ first = Chain[1] /\ 1 \in 1 .. Len(Chain) /\ Len(Chain) > 0
      BY <2>2, <1>1
    <3>3. After(1)
      <4>1. ASSUME NEW n \in 1 .. Len(Chain) PROVE ~ (Priority(Listed[n]) <= Priority(x))
        <5>1. Priority(Listed[1]) <= Priority(Listed[n])
          <6>1. n = 1 \/ 1 < n
            BY <1>1
          <6> QED  BY <6>1, <3>2, <1>1, <1>6, <1>7
        <5>2. Priority(x) < Priority(Listed[1])
          BY <2>2, <3>2, <1>1
        <5> QED  BY <5>1, <5>2, <3>2, <1>1, <1>6
      <4>2. \A n \in 1 .. Len(Chain) : ~ (n < 1)
        BY <1>1
      <4> QED  BY <4>1, <4>2
    <3>4. first \in Cells
      BY <3>2, <1>1
    <3>5. next'[c] = Chain[1] /\ next' \in [Cells -> Cells \cup {NULL}]
      BY <3>1, <3>2, <3>4, <1>2, <1>5
    <3>6. \A n \in 1 .. Len(Chain) : next'[Chain[n]] = next[Chain[n]]
      BY <3>1, <1>1, <1>3, <1>5
    <3>7. Joined(1)
      BY <3>1, <3>2, <3>5, <3>6, <1>1
    <3> QED  BY <3>2, <3>3, <3>7
  <2>3. CASE first # NULL /\ ~ (Priority(x) < Priority(item[first])) /\ smaller # {}
    <3> DEFINE k == Min(smaller)
               ptr == Chain[k - 1]
    <3>1. next' = [next EXCEPT ![c] = next[ptr], ![ptr] = c] /\ first' = first /\ last' = last
      BY <2>3 DEF ListInsert
    <3>2. k \in smaller /\ \A n \in smaller : k <= n
      <4>1. smaller \in SUBSET Nat
        BY <1>1
      <4> HIDE DEF smaller
      <4> QED  BY <2>3, <4>1, MinOf
    <3> HIDE DEF k
    <3>3. k \in 1 .. Len(Chain) /\ k > 1 /\ Priority(x) < Priority(Listed[k]) /\ k - 1 \in 1 .. Len(Chain)
      BY <3>2, <1>1
    <3>4. After(k)
      <4>1. ASSUME NEW n \in 1 .. Len(Chain), n < k PROVE Priority(Listed[n]) <= Priority(x)
        <5>1. n \notin smaller
          BY <3>2, <3>3, <4>1, <1>1
        <5>2. CASE n = 1
          BY <5>2, <2>3, <1>1, <1>6
        <5>3. CASE n # 1
          BY <5>1, <5>3, <1>1, <1>6
        <5> QED  BY <5>2, <5>3
      <4>2. ASSUME NEW n \in 1 .. Len(Chain), ~ (n < k) PROVE ~ (Priority(Listed[n]) <= Priority(x))
        <5>1. Priority(Listed[k]) <= Priority(Listed[n])
          <6>1. n = k \/ k < n
            BY <4>2, <3>3, <1>1
          <6> QED  BY <6>1, <3>3, <1>1, <1>6, <1>7
        <5> QED  BY <5>1, <3>3, <1>1, <1>6
      <4> QED  BY <4>1, <4>2
    <3>5. next[ptr] = Chain[k]
      <4>1. next[Chain[k - 1]] = IF k - 1 = Len(Chain) THEN NULL ELSE Chain[(k - 1) + 1]
        BY <3>3 DEF ListInv, Spells
      <4> QED  BY <4>1, <3>3, <1>1
    <3>6. ptr \in Cells /\ ptr # c /\ Chain[k] \in Cells
      BY <3>3, <1>1, <1>3
    <3>7. next'[c] = Chain[k] /\ next'[ptr] = c /\ next' \in [Cells -> Cells \cup {NULL}]
      <4> HIDE DEF c, ptr
      <4> QED  BY <3>1, <3>5, <3>6, <1>2, <1>5
    <3>8. ASSUME NEW n \in 1 .. Len(Chain), n # k - 1 PROVE next'[Chain[n]] = next[Chain[n]]
      <4>1. Chain[n] # ptr /\ Chain[n] # c /\ Chain[n] \in Cells
        BY <3>3, <3>8, <1>1, <1>3, <1>8
      <4> HIDE DEF c, ptr
      <4> QED  BY <4>1, <3>1, <1>5
    <3>9. Joined(k)
      <4> HIDE DEF c
      <4> QED  BY <3>1, <3>3, <3>7, <3>8, <1>1
    <3> HIDE DEF After, Joined
    <3> QED  BY <3>3, <3>4, <3>9, <1>1
  <2>4. CASE first # NULL /\ ~ (Priority(x) < Priority(item[first])) /\ smaller = {}
    <3>1. next' = [next EXCEPT ![last] = c, ![c] = NULL] /\ last' = c /\ first' = first
      BY <2>4 DEF ListInsert
    <3>2. /\ first = Chain[1] /\ last = Chain[Len(Chain)] /\ 1 \in 1 .. Len(Chain)
          /\ Len(Chain) \in 1 .. Len(Chain) /\ Len(Chain) > 0
      BY <2>4, <1>1
    <3>3. After(Len(Chain) + 1)
      <4>1. ASSUME NEW n \in 1 .. Len(Chain) PROVE Priority(Listed[n]) <= Priority(x) /\ n < Len(Chain) + 1
        <5>1. n \notin smaller
          BY <2>4
        <5>2. CASE n = 1
          BY <5>2, <3>2, <2>4, <1>1, <1>6
        <5>3. CASE n # 1
          BY <5>1, <5>3, <1>1, <1>6
        <5> QED  BY <5>2, <5>3
      <4> QED  BY <4>1
    <3>4. last \in Cells /\ last # c
      BY <3>2, <1>1, <1>3
    <3>5. next'[c] = NULL /\ next'[last] = c /\ next' \in [Cells -> Cells \cup {NULL}]
      <4> HIDE DEF c
      <4> QED  BY <3>1, <3>4, <1>2, <1>5
    <3>6. ASSUME NEW n \in 1 .. Len(Chain), n # Len(Chain) PROVE next'[Chain[n]] = next[Chain[n]]
      <4>1. Chain[n] # last /\ Chain[n] # c /\ Chain[n] \in Cells
        BY <3>2, <3>6, <1>1, <1>3, <1>8
      <4> HIDE DEF c
      <4> QED  BY <4>1, <3>1, <1>5
    <3>7. Len(Chain) + 1 \in 1 .. Len(Chain) + 1 /\ (Len(Chain) + 1) - 1 = Len(Chain) /\ Len(Chain) + 1 # 1
      BY <3>2, <1>1
    <3>8. Joined(Len(Chain) + 1)
      <4> HIDE DEF c
      <4> QED  BY <3>1, <3>2, <3>5, <3>6, <3>7
    <3> HIDE DEF After, Joined
    <3> QED  BY <3>3, <3>7, <3>8
  <2> QED  BY <2>1, <2>2, <2>3, <2>4
<1> HIDE DEF smaller
<1>10. PICK k \in 1 .. Len(Chain) + 1 : After(k) /\ Joined(k)
  BY <1>9
<1> HIDE DEF c
<1> DEFINE chain2 == InsertAt(Chain, k, c)
           list2 == InsertAt(Listed, k, x)
<1>11. Spells(chain2, first', next')
  <2>1. Spells(Chain, first, next)
    BY DEF ListInv
  <2>2. /\ first' = IF k = 1 THEN c ELSE first
        /\ next'[c] = IF k = Len(Chain) + 1 THEN NULL ELSE Chain[k]
        /\ k > 1 => next'[Chain[k - 1]] = c
        /\ \A n \in 1 .. Len(Chain) : n # k - 1 => next'[Chain[n]] = next[Chain[n]]
    BY <1>10
  <2>3. IsInjective(Chain) /\ c \in Cells \ Range(Chain)
    BY <1>1, <1>2
  <2> HIDE DEF After, Joined
  <2> QED  BY <2>1, <2>2, <2>3, SpellsInserted
<1>12. Chain' = chain2
  BY <1>11, ChainIsSpelled DEF Chain
<1>13. /\ chain2 \in Seq(Cells) /\ Len(chain2) = Len(Chain) + 1
       /\ \A n \in 1 .. Len(Chain) + 1 :
            chain2[n] = IF n < k THEN Chain[n] ELSE IF n = k THEN c ELSE Chain[n - 1]
  <2>1. Chain \in Seq(Cells) /\ c \in Cells /\ k \in 1 .. Len(Chain) + 1
    BY <1>1, <1>2
  <2> QED  BY <2>1, Inserted DEF HasInserted
<1>14. /\ list2 \in Seq(ListItems) /\ Len(list2) = Len(Chain) + 1
       /\ \A n \in 1 .. Len(Chain) + 1 :
            list2[n] = IF n < k THEN Listed[n] ELSE IF n = k THEN x ELSE Listed[n - 1]
  <2>1. Listed \in Seq(ListItems) /\ Len(Listed) = Len(Chain)
    BY <1>1
  <2>2. k \in 1 .. Len(Listed) + 1
    BY <2>1
  <2>3. /\ list2 \in Seq(ListItems) /\ Len(list2) = Len(Listed) + 1
        /\ \A n \in 1 .. Len(Listed) + 1 :
             list2[n] = IF n < k THEN Listed[n] ELSE IF n = k THEN x ELSE Listed[n - 1]
    <3>1. InsertAt(Listed, k, x) \in Seq(ListItems) /\ HasInserted(InsertAt(Listed, k, x), Listed, k, x)
      BY <2>1, <2>2, Inserted, Zenon
    <3> QED  BY <3>1 DEF HasInserted
  <2> HIDE DEF list2
  <2> QED  BY <2>1, <2>3
<1>15. list2 \in Seq(ListItems) /\ IsInjective(list2) /\ Sorted(list2)
  <2>1. \A n \in 1 .. Len(Listed) : Priority(Listed[n]) <= Priority(x) <=> n < k
    BY <1>1, <1>10
  <2>2. Listed \in Seq(ListItems) /\ IsInjective(Listed) /\ Sorted(Listed)
    BY DEF ListInv
  <2>3. k \in 1 .. Len(Listed) + 1
    BY <1>1
  <2> QED  BY <2>1, <2>2, <2>3, <1>4, InsertedInOrder
<1> HIDE DEF chain2, list2
<1>16. DOMAIN chain2 = 1 .. Len(Chain) + 1 /\ DOMAIN list2 = 1 .. Len(Chain) + 1
  BY <1>1, <1>13, <1>14
<1>17. Listed' = list2
  <2>1. Listed' = [n \in 1 .. Len(Chain) + 1 |-> item'[chain2[n]]]
    BY <1>12, <1>16 DEF Listed
  <2>2. ASSUME NEW n \in 1 .. Len(Chain) + 1 PROVE item'[chain2[n]] = list2[n]
    <3>0. n \in Int /\ k \in Int
      BY <1>1
    <3>1. CASE n < k
      <4>1. n \in 1 .. Len(Chain)
        BY <3>0, <3>1, <1>1
      <4> QED  BY <4>1, <3>1, <1>1, <1>3, <1>4, <1>5, <1>13, <1>14
    <3>2. CASE n = k
      BY <3>2, <1>2, <1>4, <1>5, <1>13, <1>14
    <3>3. CASE n > k
      <4>1. n - 1 \in 1 .. Len(Chain) /\ ~ (n < k) /\ n # k
        BY <3>0, <3>3, <1>1
      <4> QED  BY <4>1, <1>1, <1>3, <1>4, <1>5, <1>13, <1>14
    <3> QED  BY <3>0, <3>1, <3>2, <3>3
  <2>3. list2 = [n \in 1 .. Len(Chain) + 1 |-> list2[n]]
    BY <1>14, <1>16
  <2> QED  BY <2>1, <2>2, <2>3
<1>18. last' = IF chain2 = <<>> THEN NULL ELSE chain2[Len(chain2)]
  <2>1. chain2 # <<>> /\ Len(Chain) + 1 \in 1 .. Len(Chain) + 1
    BY <1>1, <1>13
  <2>2. CASE k = Len(Chain) + 1
    BY <2>1, <2>2, <1>10, <1>13
  <2>3. CASE k # Len(Chain) + 1
    <3>1. Len(Chain) # 0 /\ ~ (Len(Chain) + 1 < k) /\ (Len(Chain) + 1) - 1 = Len(Chain)
      BY <2>3, <1>1
    <3> QED  BY <3>1, <2>1, <2>3, <1>1, <1>10, <1>13
  <2> QED  BY <2>2, <2>3
<1>19. item' \in [Cells -> ListItems \cup {NULL}] /\ next' \in [Cells -> Cells \cup {NULL}]
  BY <1>4, <1>5, <1>10
<1>20. numInList' = Len(chain2)
  BY <1>4, <1>13 DEF ListInv
<1>21. ListInv'
  BY <1>11, <1>12, <1>15, <1>17, <1>18, <1>19, <1>20 DEF ListInv
<1> QED  BY <1>1, <1>4, <1>10, <1>17, <1>21 DEF list2

\* RemoveFront and Remove take the element at a place out, with its item.
LEMMA Unlinked ==
  ASSUME ListInv, NEW k \in 1 .. Len(Chain),
         first' = IF k = 1 THEN next[first] ELSE first,
         k > 1 => next'[Chain[k - 1]] = next[Chain[k]],
         \A n \in 1 .. Len(Chain) : n # k - 1 => next'[Chain[n]] = next[Chain[n]],
         last' = IF next[Chain[k]] # NULL THEN last ELSE IF k = 1 THEN NULL ELSE Chain[k - 1],
         next' \in [Cells -> Cells \cup {NULL}], item' = item, numInList' = numInList - 1
  PROVE  ListInv' /\ Listed' = RemoveAt(Listed, k)
<1> DEFINE chain2 == RemoveAt(Chain, k)
           list2 == RemoveAt(Listed, k)
<1>1. /\ Chain \in Seq(Cells) /\ Len(Chain) \in Nat /\ DOMAIN Chain = 1 .. Len(Chain)
      /\ \A n \in 1 .. Len(Chain) : Chain[n] \in Cells /\ Chain[n] # NULL
      /\ Listed \in Seq(ListItems) /\ Len(Listed) = Len(Chain)
      /\ \A n \in 1 .. Len(Chain) : Listed[n] = item[Chain[n]]
      /\ Chain # <<>> => first = Chain[1] /\ last = Chain[Len(Chain)]
  BY ListFacts
<1>2. k \in Int /\ 1 <= k /\ k <= Len(Chain)
  BY <1>1
<1>3. Spells(chain2, first', next')
  <2>1. Spells(Chain, first, next)
    BY DEF ListInv
  <2> QED  BY <2>1, SpellsRemoved
<1>4. Chain' = chain2
  BY <1>3, ChainIsSpelled DEF Chain
<1>5. /\ chain2 \in Seq(Cells) /\ Len(chain2) = Len(Chain) - 1
      /\ \A n \in 1 .. Len(Chain) - 1 : chain2[n] = IF n < k THEN Chain[n] ELSE Chain[n + 1]
  <2>1. Chain \in Seq(Cells) /\ k \in 1 .. Len(Chain)
    BY <1>1
  <2> QED  BY <2>1, Removed
<1>6. /\ list2 \in Seq(ListItems) /\ Len(list2) = Len(Chain) - 1
      /\ \A n \in 1 .. Len(Chain) - 1 : list2[n] = IF n < k THEN Listed[n] ELSE Listed[n + 1]
  <2>1. Listed \in Seq(ListItems) /\ k \in 1 .. Len(Listed) /\ Len(Listed) = Len(Chain)
    BY <1>1
  <2>2. /\ list2 \in Seq(ListItems) /\ Len(list2) = Len(Listed) - 1
        /\ \A n \in 1 .. Len(Listed) - 1 : list2[n] = IF n < k THEN Listed[n] ELSE Listed[n + 1]
    BY <2>1, Removed
  <2> HIDE DEF list2
  <2> QED  BY <2>1, <2>2
<1>7. IsInjective(list2) /\ Sorted(list2)
  <2>1. Listed \in Seq(ListItems) /\ IsInjective(Listed) /\ Sorted(Listed) /\ k \in 1 .. Len(Listed)
    BY <1>1 DEF ListInv
  <2> QED  BY <2>1, RemovedInOrder
<1> HIDE DEF chain2, list2
<1>8. DOMAIN chain2 = 1 .. Len(Chain) - 1 /\ DOMAIN list2 = 1 .. Len(Chain) - 1
  BY <1>1, <1>5, <1>6
<1>9. Listed' = list2
  <2>1. Listed' = [n \in 1 .. Len(Chain) - 1 |-> item[chain2[n]]]
    BY <1>4, <1>8 DEF Listed
  <2>2. \A n \in 1 .. Len(Chain) - 1 : n \in 1 .. Len(Chain) /\ n + 1 \in 1 .. Len(Chain)
    BY <1>1
  <2>3. ASSUME NEW n \in 1 .. Len(Chain) - 1 PROVE item[chain2[n]] = list2[n]
    <3>1. CASE n < k
      BY <3>1, <2>2, <1>1, <1>5, <1>6
    <3>2. CASE ~ (n < k)
      <4>1. chain2[n] = Chain[n + 1] /\ list2[n] = Listed[n + 1] /\ n + 1 \in 1 .. Len(Chain)
        BY <3>2, <2>2, <1>5, <1>6
      <4> QED  BY <4>1, <1>1
    <3> QED  BY <3>1, <3>2
  <2>4. list2 = [n \in 1 .. Len(Chain) - 1 |-> list2[n]]
    BY <1>6, <1>8
  <2> QED  BY <2>1, <2>3, <2>4
<1>10. last' = IF chain2 = <<>> THEN NULL ELSE chain2[Len(chain2)]
  <2>1. next[Chain[k]] = IF k = Len(Chain) THEN NULL ELSE Chain[k + 1]
    BY DEF ListInv, Spells
  <2>2. chain2 = <<>> <=> Len(Chain) = 1
    BY <1>1, <1>2, <1>5
  <2>3. last = Chain[Len(Chain)]
    BY <1>1, <1>2
  <2>4. CASE k = Len(Chain) /\ k = 1
    BY <2>1, <2>2, <2>4
  <2>5. CASE k = Len(Chain) /\ k # 1
    <3>1. last' = Chain[k - 1]
      BY <2>1, <2>5
    <3>2. Len(Chain) - 1 \in 1 .. Len(Chain) - 1 /\ Len(Chain) - 1 < k
      BY <2>5, <1>1, <1>2
    <3>3. chain2[Len(Chain) - 1] = Chain[Len(Chain) - 1]
      BY <3>2, <1>5
    <3> QED  BY <3>1, <3>3, <2>2, <2>5, <1>5
  <2>6. CASE k # Len(Chain)
    <3>0. Len(Chain) \in Int /\ k < Len(Chain)
      <4>1. Len(Chain) \in Int
        BY <1>1
      <4> QED  BY <4>1, <2>6, <1>2
    <3>1. last' = Chain[Len(Chain)]
      <4>1. k + 1 \in 1 .. Len(Chain)
        BY <3>0, <1>2
      <4> QED  BY <4>1, <2>1, <2>3, <2>6, <1>1
    <3>2. Len(Chain) - 1 \in 1 .. Len(Chain) - 1 /\ ~ (Len(Chain) - 1 < k) /\ (Len(Chain) - 1) + 1 = Len(Chain)
      BY <3>0, <1>2
    <3>3. chain2[Len(Chain) - 1] = Chain[Len(Chain)]
      BY <3>2, <1>5
    <3>4. Len(Chain) # 1
      BY <3>2, <1>1
    <3> QED  BY <3>1, <3>3, <3>4, <2>2, <1>5
  <2> QED  BY <2>4, <2>5, <2>6
<1>11. numInList' = Len(chain2)
  BY <1>5 DEF ListInv
<1>12. ListInv'
  BY <1>3, <1>4, <1>6, <1>7, <1>9, <1>10, <1>11 DEF ListInv
<1> QED  BY <1>9, <1>12 DEF list2

\* RemoveFront takes the first of the sorted list.
LEMMA RemoveFrontStep ==
  ASSUME ListInv, RemoveFront
  PROVE  ListInv' /\ Listed # <<>> /\ Listed' = RemoveAt(Listed, 1)
<1>1. /\ Chain \in Seq(Cells) /\ Len(Chain) \in Nat /\ DOMAIN Chain = 1 .. Len(Chain)
      /\ \A n \in 1 .. Len(Chain) : Chain[n] \in Cells /\ Chain[n] # NULL
      /\ Len(Listed) = Len(Chain) /\ Listed \in Seq(ListItems) /\ IsInjective(Chain)
      /\ Chain = <<>> <=> Len(Chain) = 0
      /\ Chain # <<>> => first = Chain[1] /\ last = Chain[Len(Chain)] /\ 1 \in 1 .. Len(Chain)
  BY ListFacts
<1>2. /\ Chain # <<>> /\ Listed # <<>> /\ first = Chain[1] /\ last = Chain[Len(Chain)] /\ 1 \in 1 .. Len(Chain)
      /\ item' = item /\ next' = next /\ numInList' = numInList - 1
      /\ IF first = last THEN first' = NULL /\ last' = NULL ELSE first' = next[first] /\ last' = last
  BY <1>1 DEF RemoveFront, ListInv
<1>3. next[first] = IF Len(Chain) = 1 THEN NULL ELSE Chain[1 + 1]
  BY <1>1, <1>2 DEF ListInv, Spells
<1>4. first = last <=> Len(Chain) = 1
  <2>1. Len(Chain) \in DOMAIN Chain /\ 1 \in DOMAIN Chain
    BY <1>1, <1>2
  <2> QED  BY <2>1, <1>2, <1>1 DEF IsInjective
<1>5. first' = next[first]
  BY <1>2, <1>3, <1>4
<1>6. Len(Chain) # 1 => Chain[1 + 1] # NULL
  BY <1>1, <1>2
<1>7. last' = IF next[Chain[1]] # NULL THEN last ELSE NULL
  BY <1>2, <1>3, <1>4, <1>6
<1>8. next \in [Cells -> Cells \cup {NULL}]
  BY DEF ListInv
<1>9. ListInv' /\ Listed' = RemoveAt(Listed, 1)
  BY <1>2, <1>5, <1>7, <1>8, Unlinked
<1> QED  BY <1>2, <1>9

\* Remove takes its item out of the sorted list, from wherever it is.
LEMMA ListRemoveStep ==
  ASSUME ListInv, NEW x \in ListItems, ListRemove(x)
  PROVE  ListInv' /\ \E k \in 1 .. Len(Listed) : Listed[k] = x /\ Listed' = RemoveAt(Listed, k)
<1> DEFINE k == CHOOSE j \in DOMAIN Chain : item[Chain[j]] = x
           prev == Chain[k - 1]
<1>1. /\ Chain \in Seq(Cells) /\ Len(Chain) \in Nat /\ DOMAIN Chain = 1 .. Len(Chain)
      /\ \A n \in 1 .. Len(Chain) : Chain[n] \in Cells /\ Chain[n] # NULL
      /\ Len(Listed) = Len(Chain) /\ Listed \in Seq(ListItems) /\ IsInjective(Chain)
      /\ DOMAIN Listed = 1 .. Len(Chain) /\ IsInjective(Listed)
      /\ \A n \in 1 .. Len(Chain) : Listed[n] = item[Chain[n]]
      /\ Chain = <<>> <=> Len(Chain) = 0
      /\ Chain # <<>> => first = Chain[1] /\ last = Chain[Len(Chain)] /\ 1 \in 1 .. Len(Chain)
  BY ListFacts DEF ListInv
<1>2. k \in 1 .. Len(Chain) /\ item[Chain[k]] = x
  <2>1. \E j \in 1 .. Len(Chain) : item[Chain[j]] = x
    BY <1>1, PlaceOf DEF ListRemove
  <2> QED  BY <2>1, <1>1
<1>3. Listed[k] = x /\ k \in Int /\ Len(Chain) # 0 /\ Chain # <<>>
  BY <1>1, <1>2
<1>4. x = item[first] <=> k = 1
  <2>1. first = Chain[1] /\ 1 \in 1 .. Len(Chain) /\ Listed[1] = item[first]
    BY <1>1, <1>3
  <2>2. Listed[1] = Listed[k] <=> k = 1
    BY <2>1, <1>1, <1>2 DEF IsInjective
  <2> QED  BY <2>1, <2>2, <1>3
<1>5. CASE k = 1
  <2>1. RemoveFront
    BY <1>4, <1>5 DEF ListRemove
  <2> HIDE DEF k
  <2> QED  BY <2>1, <1>1, <1>2, <1>3, <1>5, RemoveFrontStep
<1>6. CASE k # 1
  <2>1. /\ next' = [next EXCEPT ![prev] = next[Chain[k]]]
        /\ last' = IF next[Chain[k]] = NULL THEN prev ELSE last
        /\ numInList' = numInList - 1 /\ item' = item /\ first' = first
    BY <1>4, <1>6 DEF ListRemove
  <2> HIDE DEF k
  <2>2. k - 1 \in 1 .. Len(Chain) /\ k > 1
    BY <1>2, <1>3, <1>6
  <2>3. next \in [Cells -> Cells \cup {NULL}]
    BY DEF ListInv
  <2>4. prev \in Cells /\ next[Chain[k]] \in Cells \cup {NULL}
    BY <2>2, <2>3, <1>1, <1>2
  <2>5. next' \in [Cells -> Cells \cup {NULL}] /\ next'[prev] = next[Chain[k]]
    BY <2>1, <2>3, <2>4
  <2>6. ASSUME NEW n \in 1 .. Len(Chain), n # k - 1 PROVE next'[Chain[n]] = next[Chain[n]]
    <3>1. Chain[n] # prev /\ Chain[n] \in Cells
      BY <2>2, <2>6, <1>1 DEF IsInjective
    <3> QED  BY <3>1, <2>1, <2>3
  <2>7. ListInv' /\ Listed' = RemoveAt(Listed, k)
    BY <2>1, <2>2, <2>5, <2>6, <1>2, <1>6, Unlinked
  <2> QED  BY <2>7, <1>1, <1>2, <1>3
<1> QED  BY <1>5, <1>6

\* A new list is empty.
LEMMA ListInitially == SortedListInit => ListInv /\ Listed = <<>>
<1> SUFFICES ASSUME SortedListInit PROVE ListInv /\ Listed = <<>>
  OBVIOUS
<1>1. Spells(<<>>, first, next)
  BY ContainersAssumption DEF Spells, SortedListInit
<1>2. Chain = <<>>
  BY <1>1, ChainIsSpelled DEF Chain
<1>3. Listed = <<>>
  BY <1>2 DEF Listed
<1>4. IsInjective(<<>>) /\ Sorted(<<>>) /\ <<>> \in Seq(ListItems) /\ Len(<<>>) = 0
  BY DEF IsInjective, Sorted
<1> QED  BY <1>1, <1>2, <1>3, <1>4 DEF ListInv, SortedListInit

\* Every operation keeps the pointers spelling the list.
LEMMA ListStep ==
  ASSUME ListInv, SortedListNext
  PROVE  ListInv'
BY RemoveFrontStep, ListInsertStep, ListRemoveStep DEF SortedListNext

\* And so does an operation of another part.
LEMMA ListStutter ==
  ASSUME ListInv, UNCHANGED listVars
  PROVE  ListInv' /\ Listed' = Listed
BY DEF ListInv, listVars, Listed, Chain, Spells

\* The pointers are those of a list that keeps the promise of AbstractList: each step of
\* SortedList inserts the item where the promise says, or removes just that one.
THEOREM ListRefinement == SortedListSpec => ImplementsList
<1>1. SortedListInit => TheList!ListInit
  BY ListInitially DEF TheList!ListInit
<1>2. ASSUME ListInv, [SortedListNext]_listVars
      PROVE  [TheList!ListNext]_Listed
  <2>1. CASE RemoveFront
    <3>1. Listed \in Seq(ListItems) /\ Listed # <<>> /\ Listed' = RemoveAt(Listed, 1)
      BY <1>2, <2>1, RemoveFrontStep DEF ListInv
    <3>2. TheList!TakeFirst
      BY <3>1, RemovedFirst DEF TheList!TakeFirst
    <3> QED  BY <3>2 DEF TheList!ListNext
  <2>2. ASSUME NEW x \in ListItems, ListInsert(x) PROVE TheList!AddItem(x)
    <3>1. PICK k \in 1 .. Len(Listed) + 1 :
            /\ \A n \in 1 .. Len(Listed) : Priority(Listed[n]) <= Priority(x) <=> n < k
            /\ Listed' = InsertAt(Listed, k, x)
      BY <1>2, <2>2, ListInsertStep
    <3>2. x \notin Range(Listed)
      BY <1>2, <2>2, ListInsertStep
    <3>3. x \notin TheList!Contents
      BY <3>2 DEF TheList!Contents, Range
    <3>4. Len(Listed) \in Nat /\ DOMAIN Listed = 1 .. Len(Listed)
      BY <1>2, ListFacts
    <3>5. TheList!IsPlace(k, x)
      BY <3>1, <3>4 DEF TheList!IsPlace
    <3>6. Listed' = TheList!InsertAt(Listed, k, x)
      BY <3>1 DEF TheList!InsertAt, InsertAt
    <3> QED  BY <3>3, <3>5, <3>6 DEF TheList!AddItem
  <2>3. ASSUME NEW x \in ListItems, ListRemove(x) PROVE TheList!TakeItem(x)
    <3>1. Len(Listed) \in Nat /\ DOMAIN Listed = 1 .. Len(Listed)
      BY <1>2, ListFacts
    <3> QED  BY <3>1, <1>2, <2>3, ListRemoveStep DEF TheList!TakeItem, TheList!RemoveAt, RemoveAt
  <2>4. CASE UNCHANGED listVars
    BY <1>2, <2>4, ListStutter
  <2> QED  BY <1>2, <2>1, <2>2, <2>3, <2>4 DEF SortedListNext, TheList!ListNext
<1>3. SortedListSpec => []ListInv
  <2>1. SortedListInit => ListInv
    BY ListInitially
  <2>2. ListInv /\ [SortedListNext]_listVars => ListInv'
    BY ListStep, ListStutter
  <2> QED  BY <2>1, <2>2, PTL DEF SortedListSpec
<1> QED  BY <1>1, <1>2, <1>3, PTL DEF SortedListSpec, ImplementsList, TheList!ListSpec

\* SortedList's own SanityCheck holds of such pointers.
LEMMA ListPassesCheck == ListInv => ListIsSane
<1> SUFFICES ASSUME ListInv PROVE ListIsSane
  OBVIOUS
<1>1. /\ Chain \in Seq(Cells) /\ Len(Chain) \in Nat /\ DOMAIN Chain = 1 .. Len(Chain)
      /\ DOMAIN Listed = 1 .. Len(Chain) /\ \A n \in 1 .. Len(Chain) : Listed[n] = item[Chain[n]]
      /\ first = NULL <=> Chain = <<>>
      /\ Chain = <<>> <=> Len(Chain) = 0
      /\ Chain # <<>> => last = Chain[Len(Chain)]
  BY ListFacts
<1>2. first = NULL => numInList = 0 /\ last = NULL
  BY <1>1 DEF ListInv
<1>3. ASSUME first # NULL PROVE Len(Chain) = numInList /\ Last(Chain) = last /\ next[last] = NULL
  <2>1. Chain # <<>> /\ Len(Chain) \in 1 .. Len(Chain)
    BY <1>1, <1>3
  <2>2. next[Chain[Len(Chain)]] = NULL
    BY <2>1 DEF ListInv, Spells
  <2> QED  BY <2>1, <2>2, <1>1 DEF ListInv, Last
<1>4. \A m, n \in DOMAIN Chain : m < n => Priority(item[Chain[m]]) <= Priority(item[Chain[n]])
  BY <1>1 DEF ListInv, Sorted
<1> QED  BY <1>2, <1>3, <1>4 DEF ListIsSane

-----------------------------------------------------------------------------
(***************************************************************************)
(* MyHashTable.                                                            *)
(***************************************************************************)

\* Each bucket holds different keys, all of them its own.
Placed(table, size) ==
  /\ table \in [0 .. size - 1 -> Seq(Keys)]
  /\ \A b \in 0 .. size - 1 : IsInjective(table[b])
  /\ \A b \in 0 .. size - 1 : \A key \in Range(table[b]) : HashValue(key, size) = b

KeysOf(table) == {key \in Keys : \E b \in DOMAIN table : key \in Range(table[b])}

\* The items are counted, and lie in the buckets that a search looks into.
HashInv ==
  /\ numBuckets \in Nat \ {0} /\ Placed(buckets, numBuckets)
  /\ IsFiniteSet(KeysOf(buckets)) /\ numItems = Cardinality(KeysOf(buckets))

\* A hash value is the number of a bucket.
LEMMA HashValueInRange ==
  ASSUME NEW size \in Nat \ {0}, NEW key \in Keys
  PROVE  HashValue(key, size) \in 0 .. size - 1
<1>1. Hash(key) \in Nat
  BY ContainersAssumption
<1> QED  BY <1>1 DEF HashValue

\* Two sequences without repetition and without a common element, one after the other.
LEMMA ConcatInjective ==
  ASSUME NEW T, NEW s \in Seq(T), NEW t \in Seq(T), IsInjective(s), IsInjective(t),
         \A x \in Range(s) : x \notin Range(t)
  PROVE  s \o t \in Seq(T) /\ IsInjective(s \o t) /\ Range(s \o t) = Range(s) \cup Range(t)
<1> DEFINE r == s \o t
<1>1. /\ Len(s) \in Nat /\ DOMAIN s = 1 .. Len(s) /\ Len(t) \in Nat /\ DOMAIN t = 1 .. Len(t)
  OBVIOUS
<1>2. /\ r \in Seq(T) /\ Len(r) = Len(s) + Len(t)
      /\ \A n \in 1 .. Len(s) + Len(t) : r[n] = IF n <= Len(s) THEN s[n] ELSE t[n - Len(s)]
  BY ConcatProperties, Zenon
<1> HIDE DEF r
<1>3. DOMAIN r = 1 .. Len(s) + Len(t)
  BY <1>1, <1>2
<1>4. \A n \in 1 .. Len(s) : n \in 1 .. Len(s) + Len(t) /\ r[n] = s[n]
  BY <1>1, <1>2
<1>5. \A n \in 1 .. Len(t) : n + Len(s) \in 1 .. Len(s) + Len(t) /\ r[n + Len(s)] = t[n]
  <2> SUFFICES ASSUME NEW n \in 1 .. Len(t)
               PROVE  n + Len(s) \in 1 .. Len(s) + Len(t) /\ r[n + Len(s)] = t[n]
    OBVIOUS
  <2>1. n + Len(s) \in 1 .. Len(s) + Len(t) /\ ~ (n + Len(s) <= Len(s)) /\ (n + Len(s)) - Len(s) = n
    BY <1>1
  <2> QED  BY <2>1, <1>2
<1>6. \A n \in 1 .. Len(s) + Len(t) : n \in 1 .. Len(s) \/ (n - Len(s) \in 1 .. Len(t) /\ n = (n - Len(s)) + Len(s))
  BY <1>1
<1>7. Range(r) = Range(s) \cup Range(t)
  <2>1. ASSUME NEW x \in Range(r) PROVE x \in Range(s) \cup Range(t)
    <3>1. PICK n \in 1 .. Len(s) + Len(t) : x = r[n]
      BY <1>3 DEF Range
    <3>2. CASE n \in 1 .. Len(s)
      BY <3>1, <3>2, <1>1, <1>4 DEF Range
    <3>3. CASE n - Len(s) \in 1 .. Len(t) /\ n = (n - Len(s)) + Len(s)
      <4>1. r[n] = t[n - Len(s)]
        BY <3>3, <1>5
      <4> QED  BY <3>1, <3>3, <4>1, <1>1 DEF Range
    <3> QED  BY <3>2, <3>3, <1>6
  <2>2. ASSUME NEW x \in Range(s) PROVE x \in Range(r)
    BY <1>1, <1>3, <1>4 DEF Range
  <2>3. ASSUME NEW x \in Range(t) PROVE x \in Range(r)
    BY <1>1, <1>3, <1>5 DEF Range
  <2> QED  BY <2>1, <2>2, <2>3
<1>8. ASSUME NEW a \in 1 .. Len(s) + Len(t), NEW b \in 1 .. Len(s) + Len(t), r[a] = r[b]
      PROVE  a = b
  <2>1. CASE a \in 1 .. Len(s) /\ b \in 1 .. Len(s)
    BY <2>1, <1>1, <1>4, <1>8 DEF IsInjective
  <2>2. CASE a - Len(s) \in 1 .. Len(t) /\ a = (a - Len(s)) + Len(s) /\ b - Len(s) \in 1 .. Len(t) /\ b = (b - Len(s)) + Len(s)
    <3>1. r[a] = t[a - Len(s)] /\ r[b] = t[b - Len(s)]
      BY <2>2, <1>5
    <3>2. a - Len(s) = b - Len(s)
      BY <3>1, <2>2, <1>1, <1>8 DEF IsInjective
    <3> QED  BY <3>2, <2>2
  <2>3. \A m \in 1 .. Len(s), n \in 1 .. Len(t) : s[m] # t[n]
    BY <1>1 DEF Range
  <2>4. CASE a \in 1 .. Len(s) /\ b - Len(s) \in 1 .. Len(t) /\ b = (b - Len(s)) + Len(s)
    <3>1. r[a] = s[a] /\ r[b] = t[b - Len(s)]
      BY <2>4, <1>4, <1>5
    <3> QED  BY <3>1, <2>3, <2>4, <1>8
  <2>5. CASE b \in 1 .. Len(s) /\ a - Len(s) \in 1 .. Len(t) /\ a = (a - Len(s)) + Len(s)
    <3>1. r[b] = s[b] /\ r[a] = t[a - Len(s)]
      BY <2>5, <1>4, <1>5
    <3> QED  BY <3>1, <2>3, <2>5, <1>8
  <2> QED  BY <2>1, <2>2, <2>4, <2>5, <1>6
<1>9. IsInjective(r)
  BY <1>3, <1>8 DEF IsInjective
<1> QED  BY <1>2, <1>7, <1>9 DEF r

\* The same for one more element.
LEMMA AppendInjectively ==
  ASSUME NEW T, NEW s \in Seq(T), IsInjective(s), NEW x \in T, x \notin Range(s)
  PROVE  Append(s, x) \in Seq(T) /\ IsInjective(Append(s, x)) /\ Range(Append(s, x)) = Range(s) \cup {x}
<1>1. <<x>> \in Seq(T) /\ Len(<<x>>) = 1 /\ <<x>>[1] = x /\ DOMAIN <<x>> = {1}
  OBVIOUS
<1>2. IsInjective(<<x>>) /\ Range(<<x>>) = {x}
  BY <1>1 DEF IsInjective, Range
<1>3. Append(s, x) = s \o <<x>>
  OBVIOUS
<1>4. \A y \in Range(s) : y \notin Range(<<x>>)
  BY <1>2
<1>5. s \o <<x>> \in Seq(T) /\ IsInjective(s \o <<x>>) /\ Range(s \o <<x>>) = Range(s) \cup Range(<<x>>)
  <2> DEFINE t == <<x>>
  <2>1. t \in Seq(T) /\ IsInjective(t) /\ \A y \in Range(s) : y \notin Range(t)
    BY <1>1, <1>2, <1>4
  <2> HIDE DEF t
  <2>2. s \o t \in Seq(T) /\ IsInjective(s \o t) /\ Range(s \o t) = Range(s) \cup Range(t)
    BY <2>1, ConcatInjective
  <2> QED  BY <2>2 DEF t
<1> QED  BY <1>2, <1>3, <1>5

\* A table of empty buckets has no key, and all of them in their places.
LEMMA EmptyPlaced ==
  ASSUME NEW size \in Nat \ {0}
  PROVE  Placed(Empty(size), size) /\ KeysOf(Empty(size)) = {}
<1>1. Range(<<>>) = {} /\ IsInjective(<<>>) /\ <<>> \in Seq(Keys)
  BY DEF Range, IsInjective
<1>2. \A b \in 0 .. size - 1 : Empty(size)[b] = <<>>
  BY DEF Empty
<1>3. Empty(size) \in [0 .. size - 1 -> Seq(Keys)]
  BY <1>1 DEF Empty
<1> QED  BY <1>1, <1>2, <1>3 DEF Placed, KeysOf

\* A key that is put into the bucket of its hash value is in its place, the others as before.
LEMMA PutPlaced ==
  ASSUME NEW size \in Nat \ {0}, NEW table, Placed(table, size), NEW key \in Keys, key \notin KeysOf(table)
  PROVE  /\ Placed(Put(table, size, key), size)
         /\ KeysOf(Put(table, size, key)) = KeysOf(table) \cup {key}
<1> DEFINE h == HashValue(key, size)
           t == Put(table, size, key)
<1>1. h \in 0 .. size - 1
  BY HashValueInRange
<1>2. table \in [0 .. size - 1 -> Seq(Keys)]
  BY DEF Placed
<1>3. key \notin Range(table[h])
  BY <1>1, <1>2 DEF KeysOf
<1>4. /\ Append(table[h], key) \in Seq(Keys) /\ IsInjective(Append(table[h], key))
      /\ Range(Append(table[h], key)) = Range(table[h]) \cup {key}
  BY <1>1, <1>2, <1>3, AppendInjectively DEF Placed
<1>5. t = [table EXCEPT ![h] = Append(table[h], key)]
  BY DEF Put
<1>6. h = HashValue(key, size)
  OBVIOUS
<1> HIDE DEF h, t
<1>7. t \in [0 .. size - 1 -> Seq(Keys)]
  BY <1>1, <1>2, <1>4, <1>5
<1>8. \A b \in 0 .. size - 1 : t[b] = IF b = h THEN Append(table[h], key) ELSE table[b]
  BY <1>2, <1>5
<1>9. \A b \in 0 .. size - 1 : Range(t[b]) = IF b = h THEN Range(table[h]) \cup {key} ELSE Range(table[b])
  BY <1>4, <1>8
<1>10. Placed(t, size)
  <2>1. \A b \in 0 .. size - 1 : IsInjective(t[b])
    BY <1>4, <1>8 DEF Placed
  <2>2. \A b \in 0 .. size - 1 : \A k \in Range(t[b]) : HashValue(k, size) = b
    BY <1>1, <1>6, <1>9 DEF Placed
  <2> QED  BY <2>1, <2>2, <1>7 DEF Placed
<1>11. DOMAIN t = 0 .. size - 1 /\ DOMAIN table = 0 .. size - 1
  BY <1>2, <1>7
<1>12. KeysOf(t) = KeysOf(table) \cup {key}
  BY <1>1, <1>9, <1>11 DEF KeysOf
<1> QED  BY <1>10, <1>12 DEF t

\* What the buckets hold, one after the other, is each key once.
LEMMA InBucketsFacts ==
  ASSUME HashInv
  PROVE  InBuckets \in Seq(Keys) /\ IsInjective(InBuckets) /\ Range(InBuckets) = KeysOf(buckets)
<1> DEFINE N == numBuckets
           Body(f) == [n \in 0 .. N |-> IF n = 0 THEN <<>> ELSE f[n - 1] \o buckets[n - 1]]
           upTo == CHOOSE f : f = Body(f)
           Below(n) == {key \in Keys : \E b \in 0 .. n - 1 : key \in Range(buckets[b])}
           S == {n \in Nat : upTo[n] \in Seq(Keys) /\ IsInjective(upTo[n]) /\ Range(upTo[n]) = Below(n)}
<1>1. /\ N \in Nat /\ N > 0 /\ DOMAIN buckets = 0 .. N - 1 /\ \A b \in 0 .. N - 1 : buckets[b] \in Seq(Keys)
      /\ \A b \in 0 .. N - 1 : IsInjective(buckets[b])
      /\ \A b \in 0 .. N - 1 : \A key \in Range(buckets[b]) : HashValue(key, N) = b
  BY DEF HashInv, Placed
<1>2. upTo = Body(upTo)
  <2> DEFINE step == [n \in 1 .. N |-> [v \in Seq(Keys) |-> v \o buckets[n - 1]]]
  <2>1. ASSUME NEW n \in 1 .. N, NEW v \in Seq(Keys) PROVE v \o buckets[n - 1] \in Seq(Keys)
    <3>1. n - 1 \in 0 .. N - 1
      BY <1>1
    <3>2. buckets[n - 1] \in Seq(Keys)
      BY <3>1, <1>1
    <3> QED  BY <3>2
  <2>2. step \in [1 .. N -> [Seq(Keys) -> Seq(Keys)]]
    BY <2>1
  <2>3. <<>> \in Seq(Keys)
    OBVIOUS
  <2>4. \A n \in 1 .. N : \A v \in Seq(Keys) : step[n][v] = v \o buckets[n - 1]
    OBVIOUS
  <2> HIDE DEF step, N
  <2>5. Reaches(N, Seq(Keys), <<>>, step)
    BY <2>2, <2>3, <1>1, PrimitiveRecursion, Zenon
  <2>6. PICK f \in [0 .. N -> Seq(Keys)] : f[0] = <<>> /\ \A n \in 1 .. N : f[n] = step[n][f[n - 1]]
    BY <2>5 DEF Reaches
  <2>7. ASSUME NEW n \in 0 .. N PROVE f[n] = Body(f)[n]
    <3>1. CASE n = 0
      BY <3>1, <2>6
    <3>2. CASE n # 0
      <4>1. n \in 1 .. N /\ n - 1 \in 0 .. N
        BY <3>2, <1>1
      <4>2. f[n] = f[n - 1] \o buckets[n - 1]
        BY <4>1, <2>4, <2>6
      <4> QED  BY <4>2, <3>2
    <3> QED  BY <3>1, <3>2
  <2>8. f = Body(f)
    BY <2>7
  <2> HIDE DEF Body
  <2> QED  BY <2>8
<1>3. InBuckets = upTo[N]
  BY DEF InBuckets
<1> HIDE DEF upTo, N
<1>4. upTo[0] = <<>> /\ \A n \in 1 .. N : upTo[n] = upTo[n - 1] \o buckets[n - 1]
  <2>1. upTo[0] = Body(upTo)[0] /\ \A n \in 1 .. N : upTo[n] = Body(upTo)[n]
    <3> HIDE DEF Body
    <3> QED  BY <1>2
  <2>2. 0 \in 0 .. N /\ \A n \in 1 .. N : n \in 0 .. N /\ n # 0
    BY <1>1
  <2> QED  BY <2>1, <2>2
<1>5. 0 \in S
  <2>1. Range(<<>>) = {} /\ IsInjective(<<>>) /\ <<>> \in Seq(Keys)
    BY DEF Range, IsInjective
  <2>2. Below(0) = {}
    OBVIOUS
  <2> QED  BY <2>1, <2>2, <1>4
<1>6. ASSUME NEW n \in 0 .. N, n \in S, n < N
      PROVE  n + 1 \in S
  <2>1. n + 1 \in 1 .. N /\ (n + 1) - 1 = n /\ n \in 0 .. N - 1
    BY <1>1, <1>6
  <2>2. upTo[n + 1] = upTo[n] \o buckets[n]
    BY <2>1, <1>4
  <2>3. upTo[n] \in Seq(Keys) /\ IsInjective(upTo[n]) /\ Range(upTo[n]) = Below(n)
    BY <1>6
  <2>4. ASSUME NEW key \in Below(n) PROVE key \notin Range(buckets[n])
    <3>1. PICK b \in 0 .. n - 1 : key \in Range(buckets[b])
      BY <2>4
    <3>2. b \in 0 .. N - 1 /\ b # n
      BY <2>1, <1>1
    <3> QED  BY <3>1, <3>2, <2>1, <1>1
  <2>5. buckets[n] \in Seq(Keys) /\ IsInjective(buckets[n])
    BY <2>1, <1>1
  <2>6. /\ upTo[n] \o buckets[n] \in Seq(Keys) /\ IsInjective(upTo[n] \o buckets[n])
        /\ Range(upTo[n] \o buckets[n]) = Below(n) \cup Range(buckets[n])
    <3> HIDE DEF Below
    <3> QED  BY <2>3, <2>4, <2>5, ConcatInjective
  <2>7. Below(n + 1) = Below(n) \cup Range(buckets[n])
    <3>1. Range(buckets[n]) \subseteq Keys
      BY <2>5 DEF Range
    <3>2. \A b : b \in 0 .. (n + 1) - 1 <=> b \in 0 .. n - 1 \/ b = n
      BY <2>1
    <3> QED  BY <3>1, <3>2
  <2> HIDE DEF Below
  <2>8. upTo[n + 1] \in Seq(Keys) /\ IsInjective(upTo[n + 1]) /\ Range(upTo[n + 1]) = Below(n + 1)
    BY <2>2, <2>6, <2>7, Zenon
  <2> QED  BY <2>1, <2>8
<1>7. N \in S
  <2> HIDE DEF S
  <2>1. \A n \in 0 .. N : n \in S
    BY <1>1, <1>5, <1>6, UpToInduction
  <2> QED  BY <2>1, <1>1
<1>8. Below(N) = KeysOf(buckets)
  BY <1>1 DEF KeysOf
<1> QED  BY <1>3, <1>7, <1>8

\* Growing the table loses no key and puts each where it is looked for.
LEMMA ReHashFacts ==
  ASSUME HashInv
  PROVE  /\ numBuckets * IncreaseSizeBy \in Nat \ {0}
         /\ Placed(ReHash, numBuckets * IncreaseSizeBy) /\ KeysOf(ReHash) = KeysOf(buckets)
<1> DEFINE size == numBuckets * IncreaseSizeBy
           L == Len(InBuckets)
           Body(f) == [n \in 0 .. L |-> IF n = 0 THEN Empty(size) ELSE Put(f[n - 1], size, InBuckets[n])]
           moved == CHOOSE f : f = Body(f)
           Before(n) == {InBuckets[i] : i \in 1 .. n}
           S == {n \in Nat : Placed(moved[n], size) /\ KeysOf(moved[n]) = Before(n)}
           V == [0 .. size - 1 -> Seq(Keys)]
<1>1. InBuckets \in Seq(Keys) /\ IsInjective(InBuckets) /\ Range(InBuckets) = KeysOf(buckets)
  BY InBucketsFacts
<1>2. L \in Nat /\ DOMAIN InBuckets = 1 .. L /\ \A n \in 1 .. L : InBuckets[n] \in Keys
  BY <1>1
<1>3. size \in Nat \ {0}
  <2>1. numBuckets \in Nat /\ numBuckets > 0 /\ IncreaseSizeBy \in Nat /\ IncreaseSizeBy > 0
    BY ContainersAssumption DEF HashInv
  <2> QED  BY <2>1
<1> HIDE DEF size, L
<1>4. moved = Body(moved)
  <2> DEFINE step == [n \in 1 .. L |-> [v \in V |-> Put(v, size, InBuckets[n])]]
  <2>1. ASSUME NEW n \in 1 .. L, NEW v \in V PROVE Put(v, size, InBuckets[n]) \in V
    <3>1. InBuckets[n] \in Keys /\ HashValue(InBuckets[n], size) \in 0 .. size - 1
      BY <1>2, <1>3, HashValueInRange
    <3>2. Append(v[HashValue(InBuckets[n], size)], InBuckets[n]) \in Seq(Keys)
      BY <3>1
    <3> QED  BY <3>1, <3>2 DEF Put
  <2>2. step \in [1 .. L -> [V -> V]]
    <3> HIDE DEF V
    <3> QED  BY <2>1
  <2>3. Empty(size) \in V
    BY <1>3, EmptyPlaced DEF Placed
  <2> HIDE DEF V
  <2>4. \A n \in 1 .. L : \A v \in V : step[n][v] = Put(v, size, InBuckets[n])
    OBVIOUS
  <2> HIDE DEF step
  <2>5. Reaches(L, V, Empty(size), step)
    BY <2>2, <2>3, <1>2, PrimitiveRecursion, Zenon
  <2>6. PICK f \in [0 .. L -> V] : f[0] = Empty(size) /\ \A n \in 1 .. L : f[n] = step[n][f[n - 1]]
    BY <2>5 DEF Reaches
  <2>7. ASSUME NEW n \in 0 .. L PROVE f[n] = Body(f)[n]
    <3>1. CASE n = 0
      BY <3>1, <2>6
    <3>2. CASE n # 0
      <4>1. n \in 1 .. L /\ n - 1 \in 0 .. L
        BY <3>2, <1>2
      <4>2. f[n] = Put(f[n - 1], size, InBuckets[n])
        BY <4>1, <2>4, <2>6
      <4> QED  BY <4>2, <3>2
    <3> QED  BY <3>1, <3>2
  <2>8. f = Body(f)
    BY <2>7
  <2> HIDE DEF Body
  <2> QED  BY <2>8
<1>5. ReHash = moved[L]
  BY DEF ReHash, size, L
<1> HIDE DEF moved
<1>6. moved[0] = Empty(size) /\ \A n \in 1 .. L : moved[n] = Put(moved[n - 1], size, InBuckets[n])
  <2>1. moved[0] = Body(moved)[0] /\ \A n \in 1 .. L : moved[n] = Body(moved)[n]
    <3> HIDE DEF Body
    <3> QED  BY <1>4
  <2>2. 0 \in 0 .. L /\ \A n \in 1 .. L : n \in 0 .. L /\ n # 0
    BY <1>2
  <2> QED  BY <2>1, <2>2
<1>7. 0 \in S
  <2>1. Before(0) = {}
    OBVIOUS
  <2> HIDE DEF Before
  <2> QED  BY <2>1, <1>3, <1>6, EmptyPlaced
<1>8. ASSUME NEW n \in 0 .. L, n \in S, n < L
      PROVE  n + 1 \in S
  <2>1. n + 1 \in 1 .. L /\ (n + 1) - 1 = n /\ n \in Nat
    BY <1>2, <1>8
  <2>2. moved[n + 1] = Put(moved[n], size, InBuckets[n + 1])
    BY <2>1, <1>6
  <2>3. Placed(moved[n], size) /\ KeysOf(moved[n]) = Before(n)
    BY <1>8
  <2>4. InBuckets[n + 1] \in Keys /\ InBuckets[n + 1] \notin Before(n)
    <3>1. \A i \in 1 .. n : i \in 1 .. L /\ i # n + 1
      BY <2>1, <1>2
    <3> QED  BY <3>1, <2>1, <1>1, <1>2 DEF IsInjective
  <2>5. Before(n + 1) = Before(n) \cup {InBuckets[n + 1]}
    <3>1. 1 .. n + 1 = (1 .. n) \cup {n + 1}
      BY <2>1
    <3> QED  BY <3>1
  <2> HIDE DEF Before
  <2>6. Placed(moved[n + 1], size) /\ KeysOf(moved[n + 1]) = Before(n) \cup {InBuckets[n + 1]}
    BY <2>2, <2>3, <2>4, <1>3, PutPlaced
  <2> QED  BY <2>1, <2>5, <2>6
<1>9. L \in S
  <2> HIDE DEF S
  <2>1. \A n \in 0 .. L : n \in S
    BY <1>2, <1>7, <1>8, UpToInduction
  <2> QED  BY <2>1, <1>2
<1>10. Before(L) = KeysOf(buckets)
  BY <1>1, <1>2 DEF Range
<1> QED  BY <1>3, <1>5, <1>9, <1>10 DEF size

\* Removing from a sequence without repetition takes out just that element.
LEMMA RemovedInjectively ==
  ASSUME NEW T, NEW s \in Seq(T), IsInjective(s), NEW i \in 1 .. Len(s)
  PROVE  /\ RemoveAt(s, i) \in Seq(T) /\ IsInjective(RemoveAt(s, i))
         /\ Range(RemoveAt(s, i)) = Range(s) \ {s[i]}
<1> DEFINE r == RemoveAt(s, i)
           At(n) == IF n < i THEN n ELSE n + 1
<1>1. Len(s) \in Nat /\ DOMAIN s = 1 .. Len(s) /\ i \in Int
  OBVIOUS
<1>2. /\ r \in Seq(T) /\ Len(r) = Len(s) - 1
      /\ \A n \in 1 .. Len(s) - 1 : r[n] = IF n < i THEN s[n] ELSE s[n + 1]
  BY Removed
<1> HIDE DEF r
<1>3. DOMAIN r = 1 .. Len(s) - 1
  BY <1>1, <1>2
<1>4. \A a, b \in 1 .. Len(s) : s[a] = s[b] => a = b
  BY <1>1 DEF IsInjective
<1>5. \A n \in 1 .. Len(s) - 1 : r[n] = s[At(n)] /\ At(n) \in 1 .. Len(s) /\ At(n) # i
  BY <1>1, <1>2
<1>6. \A a, b \in 1 .. Len(s) - 1 : At(a) = At(b) => a = b
  BY <1>1
<1>7. ASSUME NEW m \in 1 .. Len(s), m # i PROVE \E n \in 1 .. Len(s) - 1 : At(n) = m
  <2>1. CASE m < i
    <3>1. m \in 1 .. Len(s) - 1 /\ At(m) = m
      BY <2>1, <1>1
    <3> QED  BY <3>1
  <2>2. CASE m > i
    <3>1. m - 1 \in 1 .. Len(s) - 1 /\ At(m - 1) = m
      BY <2>2, <1>1
    <3> QED  BY <3>1
  <2> QED  BY <2>1, <2>2, <1>1, <1>7
<1> HIDE DEF At
<1>8. IsInjective(r)
  BY <1>3, <1>4, <1>5, <1>6 DEF IsInjective
<1>9. Range(r) = Range(s) \ {s[i]}
  <2>1. ASSUME NEW y \in Range(r) PROVE y \in Range(s) \ {s[i]}
    BY <1>1, <1>3, <1>4, <1>5 DEF Range
  <2>2. ASSUME NEW y \in Range(s) \ {s[i]} PROVE y \in Range(r)
    <3>1. PICK m \in 1 .. Len(s) : y = s[m] /\ m # i
      BY <1>1 DEF Range
    <3>2. PICK n \in 1 .. Len(s) - 1 : At(n) = m
      BY <3>1, <1>7
    <3> QED  BY <3>1, <3>2, <1>3, <1>5 DEF Range
  <2> QED  BY <2>1, <2>2
<1> QED  BY <1>2, <1>8, <1>9 DEF r

\* A new table is empty.
LEMMA HashInitially == HashInit => HashInv
<1> SUFFICES ASSUME HashInit PROVE HashInv
  OBVIOUS
<1>1. numBuckets \in Nat \ {0} /\ buckets = Empty(numBuckets) /\ numItems = 0
  BY ContainersAssumption DEF HashInit
<1>2. Placed(buckets, numBuckets) /\ KeysOf(buckets) = {}
  BY <1>1, EmptyPlaced
<1>3. IsFiniteSet({}) /\ Cardinality({}) = 0
  BY FS_EmptySet
<1> QED  BY <1>1, <1>2, <1>3 DEF HashInv

\* A key that a search does not find is in no bucket.
LEMMA NotFound ==
  ASSUME HashInv, NEW key \in Keys
  PROVE  Find(key) <=> key \in KeysOf(buckets)
<1>1. HashValue(key, numBuckets) \in 0 .. numBuckets - 1
  BY HashValueInRange DEF HashInv
<1>2. DOMAIN buckets = 0 .. numBuckets - 1 /\ \A b \in 0 .. numBuckets - 1 : \A k \in Range(buckets[b]) : HashValue(k, numBuckets) = b
  BY DEF HashInv, Placed
<1> QED  BY <1>1, <1>2 DEF Find, KeysOf

\* Insert, which makes the table grow first when it is full, keeps every key in its place.
LEMMA HashInsertStep ==
  ASSUME HashInv, NEW key \in Keys, HashInsert(key)
  PROVE  HashInv'
<1> DEFINE full == numItems \div numBuckets >= ResizeRatio
           size == IF full THEN numBuckets * IncreaseSizeBy ELSE numBuckets
           table == IF full THEN ReHash ELSE buckets
<1>1. /\ ~Find(key) /\ buckets' = Put(table, size, key)
      /\ numBuckets' = size /\ numItems' = numItems + 1
  BY DEF HashInsert
<1>2. size \in Nat \ {0} /\ Placed(table, size) /\ KeysOf(table) = KeysOf(buckets)
  <2>1. CASE full
    <3> HIDE DEF full
    <3> QED  BY <2>1, ReHashFacts
  <2>2. CASE ~full
    <3> HIDE DEF full
    <3> QED  BY <2>2 DEF HashInv
  <2> QED  BY <2>1, <2>2
<1>3. key \notin KeysOf(table)
  BY <1>1, <1>2, NotFound
<1> HIDE DEF size, table
<1>4. Placed(buckets', numBuckets') /\ KeysOf(buckets') = KeysOf(buckets) \cup {key}
  BY <1>1, <1>2, <1>3, PutPlaced
<1>5. IsFiniteSet(KeysOf(buckets)) /\ numItems = Cardinality(KeysOf(buckets))
  BY DEF HashInv
<1>6. /\ IsFiniteSet(KeysOf(buckets) \cup {key})
      /\ Cardinality(KeysOf(buckets) \cup {key}) = numItems + 1
  BY <1>2, <1>3, <1>5, FS_AddElement
<1>7. numBuckets' \in Nat \ {0}
  BY <1>1, <1>2
<1>8. IsFiniteSet(KeysOf(buckets')) /\ numItems' = Cardinality(KeysOf(buckets'))
  BY <1>1, <1>4, <1>6
<1> QED  BY <1>4, <1>7, <1>8 DEF HashInv, KeysOf

\* Remove takes one key out of its bucket and counts one item less.
LEMMA HashRemoveStep ==
  ASSUME HashInv, NEW key \in Keys, HashRemove(key)
  PROVE  HashInv'
<1> DEFINE h == HashValue(key, numBuckets)
<1>1. /\ numBuckets \in Nat \ {0} /\ buckets \in [0 .. numBuckets - 1 -> Seq(Keys)]
      /\ \A b \in 0 .. numBuckets - 1 : IsInjective(buckets[b])
      /\ \A b \in 0 .. numBuckets - 1 : \A k \in Range(buckets[b]) : HashValue(k, numBuckets) = b
      /\ IsFiniteSet(KeysOf(buckets)) /\ numItems = Cardinality(KeysOf(buckets))
  BY DEF HashInv, Placed
<1>2. PICK n \in DOMAIN buckets[h] :
        /\ buckets[h][n] = key
        /\ buckets' = [buckets EXCEPT ![h] = RemoveAt(buckets[h], n)]
        /\ numItems' = numItems - 1 /\ numBuckets' = numBuckets
  BY DEF HashRemove
<1>3. h \in 0 .. numBuckets - 1
  BY <1>1, HashValueInRange
<1> HIDE DEF h
<1>4. buckets[h] \in Seq(Keys) /\ n \in 1 .. Len(buckets[h]) /\ key \in Range(buckets[h])
  BY <1>1, <1>2, <1>3 DEF Range
<1>5. /\ RemoveAt(buckets[h], n) \in Seq(Keys) /\ IsInjective(RemoveAt(buckets[h], n))
      /\ Range(RemoveAt(buckets[h], n)) = Range(buckets[h]) \ {key}
  BY <1>1, <1>2, <1>3, <1>4, RemovedInjectively
<1>6. buckets' \in [0 .. numBuckets - 1 -> Seq(Keys)]
  BY <1>1, <1>2, <1>5
<1>7. \A b \in 0 .. numBuckets - 1 : buckets'[b] = IF b = h THEN RemoveAt(buckets[h], n) ELSE buckets[b]
  BY <1>1, <1>2
<1>8. \A b \in 0 .. numBuckets - 1 : Range(buckets'[b]) = IF b = h THEN Range(buckets[h]) \ {key} ELSE Range(buckets[b])
  BY <1>5, <1>7
<1>9. Placed(buckets', numBuckets)
  <2>1. \A b \in 0 .. numBuckets - 1 : IsInjective(buckets'[b])
    BY <1>1, <1>5, <1>7
  <2>2. \A b \in 0 .. numBuckets - 1 : \A k \in Range(buckets'[b]) : HashValue(k, numBuckets) = b
    BY <1>1, <1>8
  <2> QED  BY <2>1, <2>2, <1>6 DEF Placed
<1>10. DOMAIN buckets = 0 .. numBuckets - 1 /\ DOMAIN buckets' = 0 .. numBuckets - 1
  BY <1>1, <1>6
<1>11. KeysOf(buckets') = KeysOf(buckets) \ {key}
  <2>1. \A b \in 0 .. numBuckets - 1 : b # h => key \notin Range(buckets[b])
    BY <1>1, <1>3, <1>4
  <2> QED  BY <2>1, <1>3, <1>8, <1>10 DEF KeysOf
<1>12. key \in KeysOf(buckets)
  BY <1>3, <1>4, <1>10 DEF KeysOf
<1>13. IsFiniteSet(KeysOf(buckets) \ {key}) /\ Cardinality(KeysOf(buckets) \ {key}) = numItems - 1
  BY <1>1, <1>12, FS_RemoveElement
<1>14. IsFiniteSet(KeysOf(buckets')) /\ numItems' = Cardinality(KeysOf(buckets'))
  BY <1>2, <1>11, <1>13
<1> QED  BY <1>1, <1>2, <1>9, <1>14 DEF HashInv, KeysOf

\* Every operation keeps every key in its place.
LEMMA HashStep ==
  ASSUME HashInv, [HashNext]_hashVars
  PROVE  HashInv'
<1>1. CASE HashNext
  BY <1>1, HashInsertStep, HashRemoveStep DEF HashNext
<1>2. CASE UNCHANGED hashVars
  BY <1>2 DEF HashInv, hashVars, KeysOf
<1> QED  BY <1>1, <1>2

\* The bucket an iterator goes on to: the first that is not empty, or the end of the table.
LEMMA NextFullBucket ==
  ASSUME HashInv, NEW n \in 0 .. numBuckets
  PROVE  /\ FindNextFullBucket(n) \in n .. numBuckets
         /\ \A b \in n .. FindNextFullBucket(n) - 1 : buckets[b] = <<>>
<1> DEFINE full == {b \in n .. numBuckets - 1 : buckets[b] # <<>>}
<1>1. numBuckets \in Nat /\ full \in SUBSET Nat
  BY DEF HashInv
<1>2. FindNextFullBucket(n) = IF full = {} THEN numBuckets ELSE Min(full)
  BY DEF FindNextFullBucket
<1>3. CASE full = {}
  BY <1>1, <1>2, <1>3
<1>4. CASE full # {}
  <2>1. Min(full) \in full /\ \A b \in full : Min(full) <= b
    <3> HIDE DEF full
    <3> QED  BY <1>1, <1>4, MinOf
  <2>2. FindNextFullBucket(n) = Min(full)
    BY <1>2, <1>4
  <2>3. Min(full) \in n .. numBuckets - 1
    BY <2>1
  <2>4. ASSUME NEW b \in n .. Min(full) - 1 PROVE buckets[b] = <<>>
    <3>1. b \in n .. numBuckets - 1 /\ ~ (Min(full) <= b)
      BY <2>3, <1>1
    <3> QED  BY <3>1, <2>1
  <2> HIDE DEF full
  <2> QED  BY <2>2, <2>3, <2>4, <1>1
<1> QED  BY <1>3, <1>4

\* An iterator yields each key of the table once.
LEMMA IteratedFacts ==
  ASSUME HashInv
  PROVE  Iterated \in Seq(Keys) /\ IsInjective(Iterated) /\ Range(Iterated) = KeysOf(buckets)
<1> DEFINE N == numBuckets
           F(n) == FindNextFullBucket(n)
           Body(f) == [n \in 0 .. N |-> IF F(n) = N THEN <<>> ELSE buckets[F(n)] \o f[F(n) + 1]]
           from == CHOOSE f : f = Body(f)
           AtLeast(n) == {key \in Keys : \E b \in n .. N - 1 : key \in Range(buckets[b])}
           Good(n) == from[n] \in Seq(Keys) /\ IsInjective(from[n]) /\ Range(from[n]) = AtLeast(n)
           S == {n \in Nat : \A m \in n .. N : Good(m)}
<1>1. /\ N \in Nat /\ N > 0 /\ DOMAIN buckets = 0 .. N - 1 /\ \A b \in 0 .. N - 1 : buckets[b] \in Seq(Keys)
      /\ \A b \in 0 .. N - 1 : IsInjective(buckets[b])
      /\ \A b \in 0 .. N - 1 : \A key \in Range(buckets[b]) : HashValue(key, N) = b
  BY DEF HashInv, Placed
<1>2. \A n \in 0 .. N : F(n) \in n .. N /\ \A b \in n .. F(n) - 1 : buckets[b] = <<>>
  BY NextFullBucket
<1>3. Iterated = from[0]
  BY DEF Iterated
<1> HIDE DEF N, F
<1>4. from = Body(from)
  <2> DEFINE step == [k \in 1 .. N |-> [v \in Seq(Keys) |-> buckets[N - k] \o v]]
  <2>1. ASSUME NEW k \in 1 .. N, NEW v \in Seq(Keys) PROVE buckets[N - k] \o v \in Seq(Keys)
    <3>1. N - k \in 0 .. N - 1
      BY <1>1
    <3>2. buckets[N - k] \in Seq(Keys)
      BY <3>1, <1>1
    <3> QED  BY <3>2
  <2>2. step \in [1 .. N -> [Seq(Keys) -> Seq(Keys)]]
    BY <2>1
  <2>3. <<>> \in Seq(Keys)
    OBVIOUS
  <2>4. \A k \in 1 .. N : \A v \in Seq(Keys) : step[k][v] = buckets[N - k] \o v
    OBVIOUS
  <2> HIDE DEF step
  <2>5. Reaches(N, Seq(Keys), <<>>, step)
    BY <2>2, <2>3, <1>1, PrimitiveRecursion, Zenon
  <2>6. PICK g \in [0 .. N -> Seq(Keys)] : g[0] = <<>> /\ \A k \in 1 .. N : g[k] = step[k][g[k - 1]]
    BY <2>5 DEF Reaches
  <2> DEFINE f == [n \in 0 .. N |-> g[N - n]]
  <2>7. /\ \A n \in 0 .. N : f[n] \in Seq(Keys)
        /\ f[N] = <<>>
    <3>1. \A n \in 0 .. N : N - n \in 0 .. N
      BY <1>1
    <3>2. N \in 0 .. N /\ N - N = 0
      BY <1>1
    <3> QED  BY <3>1, <3>2, <2>6
  <2>8. ASSUME NEW n \in 0 .. N - 1 PROVE f[n] = buckets[n] \o f[n + 1]
    <3>1. /\ n \in 0 .. N /\ n + 1 \in 0 .. N /\ N - n \in 1 .. N /\ N - (N - n) = n
          /\ (N - n) - 1 = N - (n + 1) /\ (N - n) - 1 \in 0 .. N
      BY <1>1
    <3>2. g[N - n] = step[N - n][g[(N - n) - 1]] /\ g[(N - n) - 1] \in Seq(Keys)
      BY <3>1, <2>6
    <3>3. g[N - n] = buckets[N - (N - n)] \o g[(N - n) - 1]
      BY <3>1, <3>2, <2>4
    <3> QED  BY <3>1, <3>3
  <2> HIDE DEF f
  <2>9. ASSUME NEW n \in 0 .. N PROVE f[n] = f[F(n)]
    <3> DEFINE T == {m \in Nat : n <= m => f[m] = f[F(n)]}
    <3>1. F(n) \in Nat /\ F(n) <= N /\ n <= F(n)
      <4>1. F(n) \in n .. N
        BY <1>2
      <4>2. N \in Nat /\ n \in Nat
        BY <1>1
      <4> QED  BY <4>1, <4>2
    <3>2. F(n) \in T
      BY <3>1
    <3>3. ASSUME NEW m \in 0 .. F(n), m \in T, m > 0
          PROVE  m - 1 \in T
      <4>1. m - 1 \in Nat /\ (m - 1) + 1 = m
        BY <3>3, <3>1
      <4>2. CASE n <= m - 1
        <5>1. m - 1 \in n .. F(n) - 1 /\ m - 1 \in 0 .. N - 1 /\ n <= m /\ m \in 0 .. N
          BY <4>1, <4>2, <3>1, <1>1
        <5>2. buckets[m - 1] = <<>>
          BY <5>1, <1>2
        <5>3. f[m - 1] = <<>> \o f[m] /\ f[m] \in Seq(Keys)
          BY <5>1, <5>2, <4>1, <2>7, <2>8
        <5>4. <<>> \o f[m] = f[m]
          BY <5>3
        <5>5. f[m] = f[F(n)]
          BY <5>1, <3>3
        <5> QED  BY <5>3, <5>4, <5>5, <4>1
      <4> QED  BY <4>1, <4>2
    <3>4. \A m \in 0 .. F(n) : m \in T
      <4> HIDE DEF T
      <4> QED  BY <3>1, <3>2, <3>3, DownFromInduction
    <3>5. n \in 0 .. F(n)
      BY <3>1
    <3> QED  BY <3>4, <3>5
  <2>10. ASSUME NEW n \in 0 .. N PROVE f[n] = Body(f)[n]
    <3>1. CASE F(n) = N
      BY <3>1, <2>7, <2>9
    <3>2. CASE F(n) # N
      <4>0. F(n) \in n .. N /\ N \in Nat
        BY <1>1, <1>2
      <4>1. F(n) \in 0 .. N - 1
        BY <3>2, <4>0
      <4>2. f[n] = buckets[F(n)] \o f[F(n) + 1]
        BY <4>1, <2>8, <2>9
      <4> QED  BY <3>2, <4>2
    <3> QED  BY <3>1, <3>2
  <2>11. f = Body(f)
    BY <2>10 DEF f
  <2> HIDE DEF Body
  <2> QED  BY <2>11
<1> HIDE DEF from
<1>5. \A n \in 0 .. N : from[n] = IF F(n) = N THEN <<>> ELSE buckets[F(n)] \o from[F(n) + 1]
  <2>1. \A n \in 0 .. N : from[n] = Body(from)[n]
    <3> HIDE DEF Body
    <3> QED  BY <1>4
  <2> QED  BY <2>1
<1>6. ASSUME NEW n \in 0 .. N, \A m \in n + 1 .. N : Good(m)
      PROVE  Good(n)
  <2>1. F(n) \in n .. N /\ \A b \in n .. F(n) - 1 : buckets[b] = <<>>
    BY <1>2
  <2>2. Range(<<>>) = {} /\ IsInjective(<<>>) /\ <<>> \in Seq(Keys)
    BY DEF Range, IsInjective
  <2>3. CASE F(n) = N
    <3>1. from[n] = <<>>
      BY <2>3, <1>5
    <3>2. AtLeast(n) = {}
      BY <2>1, <2>2, <2>3
    <3> HIDE DEF AtLeast
    <3> QED  BY <3>1, <3>2, <2>2
  <2>4. CASE F(n) # N
    <3>1. F(n) \in 0 .. N - 1 /\ F(n) + 1 \in n + 1 .. N
      BY <2>1, <2>4, <1>1
    <3>2. from[n] = buckets[F(n)] \o from[F(n) + 1]
      BY <2>4, <1>5
    <3>3. from[F(n) + 1] \in Seq(Keys) /\ IsInjective(from[F(n) + 1]) /\ Range(from[F(n) + 1]) = AtLeast(F(n) + 1)
      BY <3>1, <1>6
    <3>4. buckets[F(n)] \in Seq(Keys) /\ IsInjective(buckets[F(n)])
      BY <3>1, <1>1
    <3>5. ASSUME NEW key \in Range(buckets[F(n)]) PROVE key \notin AtLeast(F(n) + 1)
      <4>1. HashValue(key, N) = F(n)
        BY <3>1, <1>1
      <4>2. \A b \in F(n) + 1 .. N - 1 : b \in 0 .. N - 1 /\ b # F(n)
        BY <3>1, <1>1
      <4> QED  BY <4>1, <4>2, <1>1
    <3>6. AtLeast(n) = Range(buckets[F(n)]) \cup AtLeast(F(n) + 1)
      <4>1. Range(buckets[F(n)]) \subseteq Keys
        BY <3>4 DEF Range
      <4>2. \A b : b \in n .. N - 1 <=> b \in n .. F(n) - 1 \/ b = F(n) \/ b \in F(n) + 1 .. N - 1
        BY <3>1, <2>1, <1>1
      <4>3. \A b \in n .. F(n) - 1 : Range(buckets[b]) = {}
        BY <2>1, <2>2
      <4> QED  BY <4>1, <4>2, <4>3
    <3> HIDE DEF AtLeast
    <3>7. /\ buckets[F(n)] \o from[F(n) + 1] \in Seq(Keys) /\ IsInjective(buckets[F(n)] \o from[F(n) + 1])
          /\ Range(buckets[F(n)] \o from[F(n) + 1]) = Range(buckets[F(n)]) \cup AtLeast(F(n) + 1)
      BY <3>3, <3>4, <3>5, ConcatInjective
    <3> QED  BY <3>2, <3>6, <3>7
  <2> QED  BY <2>3, <2>4
<1> HIDE DEF Good
<1>7. N \in S
  <2>1. N \in 0 .. N /\ \A m \in N + 1 .. N : Good(m)
    BY <1>1
  <2>2. Good(N)
    BY <2>1, <1>6
  <2>3. \A m \in N .. N : m = N
    BY <1>1
  <2> QED  BY <2>2, <2>3, <1>1
<1>8. ASSUME NEW n \in 0 .. N, n \in S, n > 0
      PROVE  n - 1 \in S
  <2>1. n - 1 \in 0 .. N /\ (n - 1) + 1 = n /\ n - 1 \in Nat
    BY <1>1, <1>8
  <2>2. Good(n - 1)
    BY <2>1, <1>6, <1>8
  <2>3. \A m \in n - 1 .. N : m = n - 1 \/ m \in n .. N
    BY <2>1
  <2> QED  BY <2>1, <2>2, <2>3, <1>8
<1>9. Good(0)
  <2>1. \A n \in 0 .. N : n \in S
    <3> HIDE DEF S
    <3> QED  BY <1>1, <1>7, <1>8, DownFromInduction
  <2>2. 0 \in 0 .. N
    BY <1>1
  <2> QED  BY <2>1, <2>2
<1>10. AtLeast(0) = KeysOf(buckets)
  BY <1>1 DEF KeysOf
<1> QED  BY <1>3, <1>9, <1>10 DEF Good

\* MyHashTable's own SanityCheck holds, and its iterator is exact.
LEMMA TablePassesCheck == HashInv => TableIsSane /\ Len(Iterated) = numItems /\ IsInjective(Iterated)
<1> SUFFICES ASSUME HashInv PROVE TableIsSane /\ Len(Iterated) = numItems /\ IsInjective(Iterated)
  OBVIOUS
<1>1. InBuckets \in Seq(Keys) /\ IsInjective(InBuckets) /\ Range(InBuckets) = KeysOf(buckets)
  BY InBucketsFacts
<1>2. Iterated \in Seq(Keys) /\ IsInjective(Iterated) /\ Range(Iterated) = KeysOf(buckets)
  BY IteratedFacts
<1>3. Len(InBuckets) = numItems /\ Len(Iterated) = numItems
  BY <1>1, <1>2, InjectiveLength DEF HashInv
<1>4. \A n \in DOMAIN buckets : \A key \in Range(buckets[n]) : HashValue(key, numBuckets) = n
  BY DEF HashInv, Placed
<1> QED  BY <1>2, <1>3, <1>4 DEF TableIsSane

\* Lists and tables pass their SanityChecks after any operations, with any priorities and any
\* hash function, however often the table has grown; and an iterator yields each item once.
THEOREM ContainersAreSane == SortedListSpec /\ HashSpec => []SanityChecked
<1>1. SortedListInit => ListInv
  BY ListInitially
<1>2. ListInv /\ [SortedListNext]_listVars => ListInv'
  BY ListStep, ListStutter
<1>3. HashInit => HashInv
  BY HashInitially
<1>4. HashInv /\ [HashNext]_hashVars => HashInv'
  BY HashStep
<1>5. ListInv /\ HashInv => SanityChecked
  BY ListPassesCheck, TablePassesCheck DEF SanityChecked
<1> QED  BY <1>1, <1>2, <1>3, <1>4, <1>5, PTL DEF SortedListSpec, HashSpec

-----------------------------------------------------------------------------
(***************************************************************************)
(* Bitmap and PersistentBitmap.                                            *)
(***************************************************************************)

\* Words that hold just the bits of a set.
Holds(words, set) ==
  /\ words \in [0 .. NumWords - 1 -> SUBSET (0 .. BitsInWord - 1)]
  /\ set \in SUBSET Bits
  /\ \A n \in Bits : n % BitsInWord \in words[n \div BitsInWord] <=> n \in set

BitmapInv == Holds(map, marked) /\ Holds(file, saved)

\* Two bits in the same word have different places in it.
LEMMA PlacesDiffer ==
  ASSUME NEW m \in Bits, NEW n \in Bits, m \div BitsInWord = n \div BitsInWord,
         m % BitsInWord = n % BitsInWord
  PROVE  m = n
BY ContainersAssumption DEF Bits

\* What a quotient and a remainder are between.
LEMMA DivisionBounds ==
  ASSUME NEW x \in Int, NEW d \in Nat \ {0}
  PROVE  /\ x \div d \in Int /\ (x \div d) * d <= x /\ x < (x \div d) * d + d
         /\ x % d \in 0 .. d - 1
OBVIOUS

\* Products with the same factor are ordered as the others.
LEMMA ProductOrder ==
  ASSUME NEW a \in Int, NEW b \in Int, NEW d \in Nat, a <= b
  PROVE  a * d <= b * d
OBVIOUS

\* The words have room for every bit.
LEMMA WordOfBit ==
  ASSUME NEW n \in Bits
  PROVE  n \div BitsInWord \in 0 .. NumWords - 1 /\ n % BitsInWord \in 0 .. BitsInWord - 1
<1> DEFINE q == n \div BitsInWord
           p == (NumBits + BitsInWord - 1) \div BitsInWord
<1>1. NumBits \in Nat /\ BitsInWord \in Nat \ {0} /\ n \in Nat /\ n < NumBits
  BY ContainersAssumption DEF Bits
<1>2. q \in Int /\ q * BitsInWord <= n /\ n < q * BitsInWord + BitsInWord /\ n % BitsInWord \in 0 .. BitsInWord - 1
  BY <1>1, DivisionBounds
<1>3. p \in Int /\ NumBits + BitsInWord - 1 < p * BitsInWord + BitsInWord
  <2>1. NumBits + BitsInWord - 1 \in Int
    BY <1>1
  <2> QED  BY <2>1, <1>1, DivisionBounds
<1>4. NumWords = p
  BY DEF NumWords
<1> HIDE DEF q, p
<1>5. q * BitsInWord \in Int /\ p * BitsInWord \in Int
  BY <1>1, <1>2, <1>3
<1>6. q < p
  <2> SUFFICES ASSUME p <= q PROVE FALSE
    BY <1>2, <1>3
  <2>1. p * BitsInWord <= q * BitsInWord
    BY <1>1, <1>2, <1>3, ProductOrder
  <2> QED  BY <2>1, <1>1, <1>2, <1>3, <1>5
<1>7. q >= 0
  <2> SUFFICES ASSUME q + 1 <= 0 PROVE FALSE
    BY <1>2
  <2>1. (q + 1) * BitsInWord <= 0 * BitsInWord
    BY <1>1, <1>2, ProductOrder
  <2>2. (q + 1) * BitsInWord = q * BitsInWord + BitsInWord /\ 0 * BitsInWord = 0
    BY <1>1, <1>2
  <2> QED  BY <2>1, <2>2, <1>1, <1>2, <1>5
<1> QED  BY <1>2, <1>3, <1>4, <1>6, <1>7 DEF q

\* Setting and clearing a bit in its word marks and clears that one number.
LEMMA SetHolds ==
  ASSUME Holds(map, marked), NEW n \in Bits
  PROVE  Holds(Set(n), marked \cup {n}) /\ Holds(Cleared(n), marked \ {n})
<1>1. n \div BitsInWord \in 0 .. NumWords - 1 /\ n % BitsInWord \in 0 .. BitsInWord - 1
  BY WordOfBit
<1>2. map \in [0 .. NumWords - 1 -> SUBSET (0 .. BitsInWord - 1)]
  BY DEF Holds
<1>3. /\ Set(n) \in [0 .. NumWords - 1 -> SUBSET (0 .. BitsInWord - 1)]
      /\ Cleared(n) \in [0 .. NumWords - 1 -> SUBSET (0 .. BitsInWord - 1)]
  BY <1>1, <1>2 DEF Set, Cleared
<1>4. ASSUME NEW m \in Bits
      PROVE  /\ m % BitsInWord \in Set(n)[m \div BitsInWord] <=> m \in marked \cup {n}
             /\ m % BitsInWord \in Cleared(n)[m \div BitsInWord] <=> m \in marked \ {n}
  <2>1. m \div BitsInWord \in 0 .. NumWords - 1
    BY WordOfBit
  <2>2. m % BitsInWord \in map[m \div BitsInWord] <=> m \in marked
    BY DEF Holds
  <2>3. CASE m \div BitsInWord # n \div BitsInWord
    <3>1. m # n
      BY <2>3
    <3> QED  BY <3>1, <2>1, <2>2, <2>3, <1>1, <1>2 DEF Set, Cleared
  <2>4. CASE m \div BitsInWord = n \div BitsInWord
    <3>1. m % BitsInWord = n % BitsInWord <=> m = n
      BY <2>4, PlacesDiffer
    <3>2. /\ Set(n)[n \div BitsInWord] = map[n \div BitsInWord] \cup {n % BitsInWord}
          /\ Cleared(n)[n \div BitsInWord] = map[n \div BitsInWord] \ {n % BitsInWord}
      BY <1>1, <1>2 DEF Set, Cleared
    <3> QED  BY <3>1, <3>2, <2>2, <2>4
  <2> QED  BY <2>3, <2>4
<1>5. marked \cup {n} \in SUBSET Bits /\ marked \ {n} \in SUBSET Bits
  BY DEF Holds
<1> QED  BY <1>3, <1>4, <1>5 DEF Holds

\* A new bitmap has no bit set.
LEMMA BitmapInitially == BitmapInit => BitmapInv
<1> SUFFICES ASSUME BitmapInit PROVE BitmapInv
  OBVIOUS
<1>1. NoBits \in [0 .. NumWords - 1 -> SUBSET (0 .. BitsInWord - 1)]
  BY DEF NoBits
<1>2. \A n \in Bits : n % BitsInWord \notin NoBits[n \div BitsInWord]
  BY WordOfBit DEF NoBits
<1> QED  BY <1>1, <1>2 DEF BitmapInit, BitmapInv, Holds

\* Every operation on the bitmap, and on its copy on disk, keeps the words holding the marked.
LEMMA BitmapStep ==
  ASSUME BitmapInv, [BitmapNext]_bitmapVars
  PROVE  BitmapInv'
<1>1. ASSUME NEW n \in Bits, Mark(n) PROVE BitmapInv'
  BY <1>1, SetHolds DEF BitmapInv, Mark
<1>2. ASSUME NEW n \in Bits, Clear(n) PROVE BitmapInv'
  BY <1>2, SetHolds DEF BitmapInv, Clear
<1>3. CASE FindAndSet
  <2> DEFINE clear == {n \in Bits : ~Test(n)}
  <2>1. clear # {} /\ map' = Set(Min(clear)) /\ marked' = marked \cup {Min(clear)} /\ file' = file /\ saved' = saved
    BY <1>3 DEF FindAndSet
  <2>2. clear \in SUBSET Nat
    BY DEF Bits
  <2>3. Min(clear) \in Bits
    <3> HIDE DEF clear
    <3>1. Min(clear) \in clear
      BY <2>1, <2>2, MinOf
    <3> QED  BY <3>1 DEF clear
  <2> HIDE DEF clear
  <2> QED  BY <2>1, <2>3, SetHolds DEF BitmapInv
<1>4. CASE WriteBack
  BY <1>4 DEF WriteBack, BitmapInv
<1>5. CASE FetchFrom
  BY <1>5 DEF FetchFrom, BitmapInv
<1>6. CASE UNCHANGED bitmapVars
  BY <1>6 DEF BitmapInv, bitmapVars
<1> QED  BY <1>1, <1>2, <1>3, <1>4, <1>5, <1>6 DEF BitmapNext

\* Whatever the number of bits and the width of a word, a bit tests as set when it has been
\* marked, or found, and not cleared since, and NumClear counts the others.
THEOREM BitmapIsExact == BitmapSpec => []BitmapExact
<1>1. BitmapInit => BitmapInv
  BY BitmapInitially
<1>2. BitmapInv /\ [BitmapNext]_bitmapVars => BitmapInv'
  BY BitmapStep
<1>3. BitmapInv => BitmapExact
  <2> SUFFICES ASSUME BitmapInv PROVE BitmapExact
    OBVIOUS
  <2>1. marked \in SUBSET Bits /\ {n \in Bits : Test(n)} = marked
    BY DEF BitmapInv, Holds, Test
  <2>2. {n \in Bits : ~Test(n)} = Bits \ marked
    BY <2>1
  <2>3. NumBits \in Nat /\ IsFiniteSet(Bits) /\ Cardinality(Bits) = NumBits
    BY ContainersAssumption, FS_Interval DEF Bits
  <2>4. Cardinality(Bits \ marked) = NumBits - Cardinality(Bits \cap marked)
    BY <2>3, FS_Difference
  <2>5. Bits \cap marked = marked
    BY <2>1
  <2> QED  BY <2>1, <2>2, <2>4, <2>5 DEF BitmapExact, NumClear
<1> QED  BY <1>1, <1>2, <1>3, PTL DEF BitmapSpec

-----------------------------------------------------------------------------
(***************************************************************************)
(* Powers of two.                                                          *)
(***************************************************************************)

\* They are naturals: a set of x elements has so many subsets.
LEMMA PowerIsNat ==
  ASSUME NEW x \in Nat
  PROVE  2^x \in Nat
<1>1. IsFiniteSet(1..x) /\ Cardinality(1..x) = x
  BY FS_Interval
<1>2. Cardinality(SUBSET (1..x)) = 2^x /\ IsFiniteSet(SUBSET (1..x))
  BY <1>1, FS_SUBSET
<1>3. Cardinality(SUBSET (1..x)) \in Nat
  BY <1>2, FS_CardinalityType
<1> QED  BY <1>2, <1>3

\* Of the subsets of 1 .. x + 1 half have x + 1 in them.
LEMMA PowerNext ==
  ASSUME NEW x \in Nat
  PROVE  2^(x+1) = 2 * 2^x
<1> DEFINE S == SUBSET (1 .. x)
           T == {A \cup {x + 1} : A \in S}
           f == [A \in S |-> A \cup {x + 1}]
<1>1. \A n \in Nat : IsFiniteSet(1..n) /\ Cardinality(1..n) = n
  BY FS_Interval
<1>2. \A n \in Nat : IsFiniteSet(SUBSET (1..n)) /\ Cardinality(SUBSET (1..n)) = 2^n
  <2> SUFFICES ASSUME NEW n \in Nat PROVE IsFiniteSet(SUBSET (1..n)) /\ Cardinality(SUBSET (1..n)) = 2^n
    OBVIOUS
  <2>1. IsFiniteSet(1..n) /\ Cardinality(1..n) = n
    BY <1>1
  <2> QED  BY <2>1, FS_SUBSET
<1>3. S \cup T = SUBSET (1 .. x + 1)
  <2>1. ASSUME NEW B \in SUBSET (1 .. x + 1), x + 1 \in B PROVE B \in T
    <3>1. B \ {x + 1} \in S /\ B = (B \ {x + 1}) \cup {x + 1}
      <4>1. 1 .. x + 1 = (1 .. x) \cup {x + 1}
        OBVIOUS
      <4> QED  BY <4>1, <2>1
    <3> QED  BY <3>1
  <2>2. ASSUME NEW B \in SUBSET (1 .. x + 1), x + 1 \notin B PROVE B \in S
    BY <2>2
  <2>3. 1 .. x \subseteq 1 .. x + 1 /\ x + 1 \in 1 .. x + 1
    OBVIOUS
  <2>4. S \subseteq SUBSET (1 .. x + 1) /\ T \subseteq SUBSET (1 .. x + 1)
    BY <2>3, Zenon
  <2> QED  BY <2>1, <2>2, <2>4, Zenon
<1>4. S \cap T = {}
  OBVIOUS
<1>5. f \in Bijection(S, T)
  <2>1. f \in Injection(S, T)
    <3>1. ASSUME NEW A \in S, NEW B \in S, A \cup {x + 1} = B \cup {x + 1} PROVE A = B
      <4>1. x + 1 \notin A /\ x + 1 \notin B
        OBVIOUS
      <4> QED  BY <3>1, <4>1
    <3>2. f \in [S -> T]
      OBVIOUS
    <3>3. ASSUME NEW A \in S, NEW B \in S, f[A] = f[B] PROVE A = B
      BY <3>1, <3>3
    <3> HIDE DEF S, T, f
    <3> QED  BY <3>2, <3>3 DEF Injection, IsInjective
  <2>2. f \in Surjection(S, T)
    BY DEF Surjection
  <2> QED  BY <2>1, <2>2 DEF Bijection
<1>6. IsFiniteSet(S) /\ Cardinality(S) = 2^x
  BY <1>2
<1>7. IsFiniteSet(T) /\ Cardinality(T) = 2^x
  <2> HIDE DEF S, T, f
  <2> QED  BY <1>5, <1>6, FS_Bijection DEF ExistsBijection
<1>8. Cardinality(S \cup T) = 2^x + 2^x
  <2>1. Cardinality(S \cup T) = Cardinality(S) + Cardinality(T) - Cardinality(S \cap T)
    <3> HIDE DEF S, T, f
    <3> QED  BY <1>6, <1>7, FS_Union
  <2>2. Cardinality(S \cap T) = 0
    BY <1>4, FS_EmptySet
  <2>3. 2^x \in Nat
    BY PowerIsNat
  <2> QED  BY <2>1, <2>2, <2>3, <1>6, <1>7
<1>9. Cardinality(S \cup T) = 2^(x+1)
  <2>1. x + 1 \in Nat
    OBVIOUS
  <2>2. Cardinality(SUBSET (1 .. x + 1)) = 2^(x+1)
    BY <1>2, <2>1
  <2> HIDE DEF S, T, f
  <2> QED  BY <2>2, <1>3
<1>10. 2^x \in Nat
  BY PowerIsNat
<1>11. 2^(x+1) = 2^x + 2^x
  BY <1>8, <1>9
<1>12. \A p \in Nat : p + p = 2 * p
  OBVIOUS
<1>13. 2^x + 2^x = 2 * 2^x
  BY <1>10, <1>12
<1> QED  BY <1>11, <1>13

\* A power of two is a positive number.
LEMMA PowerPositive ==
  ASSUME NEW x \in Nat
  PROVE  2^x \in Nat \ {0}
<1> DEFINE S == {n \in Nat : 2^n # 0}
<1>1. 0 \in S
  <2>1. 2^0 = 1
    OBVIOUS
  <2> QED  BY <2>1
<1>2. \A n \in S : n + 1 \in S
  <2> SUFFICES ASSUME NEW n \in S PROVE n + 1 \in S
    OBVIOUS
  <2>1. 2^(n + 1) = 2 * 2^n /\ 2^n \in Nat /\ 2^n # 0
    BY PowerNext, PowerIsNat
  <2>2. \A p \in Nat : p # 0 => 2 * p # 0
    OBVIOUS
  <2>3. 2 * 2^n # 0
    BY <2>1, <2>2
  <2> QED  BY <2>1, <2>3
<1>3. S = Nat
  <2> HIDE DEF S
  <2>1. S \in SUBSET Nat
    BY DEF S
  <2> QED  BY <2>1, <1>1, <1>2, NatSetInduction
<1> QED  BY <1>3, PowerIsNat

\* The power of a sum is the product of the powers.
LEMMA PowerSum ==
  ASSUME NEW x \in Nat, NEW y \in Nat
  PROVE  2^(x + y) = 2^x * 2^y
<1> DEFINE S == {n \in Nat : 2^(x + n) = 2^x * 2^n}
<1>1. 0 \in S
  <2>1. 2^0 = 1 /\ x + 0 = x /\ 2^x \in Nat
    BY PowerIsNat
  <2>2. \A p \in Nat : p * 1 = p
    OBVIOUS
  <2> QED  BY <2>1, <2>2
<1>2. \A n \in S : n + 1 \in S
  <2> SUFFICES ASSUME NEW n \in S PROVE n + 1 \in S
    OBVIOUS
  <2>1. 2^(x + n) = 2^x * 2^n /\ 2^(n + 1) = 2 * 2^n /\ 2^x \in Nat /\ 2^n \in Nat
    BY PowerNext, PowerIsNat
  <2>2. 2^((x + n) + 1) = 2 * 2^(x + n)
    <3>1. x + n \in Nat
      OBVIOUS
    <3> QED  BY <3>1, PowerNext
  <2>3. \A p, q \in Nat : 2 * (p * q) = p * (2 * q)
    OBVIOUS
  <2>4. 2 * (2^x * 2^n) = 2^x * (2 * 2^n)
    BY <2>1, <2>3
  <2>5. (x + n) + 1 = x + (n + 1)
    OBVIOUS
  <2> QED  BY <2>1, <2>2, <2>4, <2>5
<1>3. S = Nat
  <2> HIDE DEF S
  <2>1. S \in SUBSET Nat
    BY DEF S
  <2> QED  BY <2>1, <1>1, <1>2, NatSetInduction
<1> QED  BY <1>3

-----------------------------------------------------------------------------
(***************************************************************************)
(* Division.                                                               *)
(***************************************************************************)

\* A number is its quotient times the divisor and its remainder.
LEMMA DivisionExact ==
  ASSUME NEW d \in Nat \ {0}, NEW x \in Int
  PROVE  \E q \in Int, r \in 0 .. d - 1 : q = x \div d /\ r = x % d /\ x = d * q + r
<1>1. PICK q \in Int, r \in 0 .. d - 1 : q = x \div d /\ r = x % d
  OBVIOUS
<1>2. r = x - d * q
  BY <1>1
<1>3. x = d * q + r
  BY <1>2
<1> QED  BY <1>1, <1>3

\* Quotient and remainder are the only ones.
LEMMA DivisionUnique ==
  ASSUME NEW d \in Nat \ {0}, NEW x \in Int, NEW q \in Int, NEW r \in 0 .. d - 1, x = d * q + r
  PROVE  x \div d = q /\ x % d = r
<1>1. x \div d \in Int /\ x % d \in 0 .. d - 1
  OBVIOUS
<1>2. PICK k \in Int, e \in 0 .. d - 1 : k = x \div d /\ e = x % d
  BY <1>1
<1>3. d * (q - k) = e - r /\ e - r < d /\ e - r > -d
  <2>1. e = x - d * k
    BY <1>2
  <2> QED  BY <2>1
<1>4. q - k < 1
  <2>1. CASE q - k >= 1
    <3>1. d * (q - k) >= d
      BY <2>1
    <3> QED  BY <3>1, <1>3
  <2> QED  BY <2>1
<1>5. q - k > -1
  <2>1. CASE q - k <= -1
    <3>1. d * (q - k) <= -d
      BY <2>1
    <3> QED  BY <3>1, <1>3
  <2> QED  BY <2>1
<1>6. q = k
  BY <1>4, <1>5
<1>7. e = r
  BY <1>3, <1>6
<1> QED  BY <1>2, <1>6, <1>7

-----------------------------------------------------------------------------
(***************************************************************************)
(* Words.                                                                  *)
(***************************************************************************)

Values == 0 .. 2^WordBits - 1

\* Two bytes, three and four; the sign is half of a word, a page a sixteenth.
LEMMA WordPowers ==
  /\ WordBits \in Nat /\ WordBits >= 8
  /\ Byte \in Nat /\ Byte >= 2 /\ Bytes(0) = 1
  /\ Half \in Nat /\ Half = Byte * Byte
  /\ Bytes(3) \in Nat /\ Bytes(3) = Byte * Half
  /\ 2^WordBits \in Nat /\ 2^WordBits = Byte * Bytes(3) /\ 2^WordBits = Half * Half
  /\ SignBit \in Nat \ {0} /\ 2^WordBits = 2 * SignBit
  /\ 2^(WordBits - 6) \in Nat /\ 2^(WordBits - 4) = 4 * 2^(WordBits - 6)
  /\ 2^(WordBits - 4) \in Nat \ {0} /\ 2^WordBits = 16 * 2^(WordBits - 4)
<1>1. ByteBits \in Nat /\ ByteBits >= 2
  BY MachineAssumption
<1>2. WordBits \in Nat /\ WordBits >= 8
  BY <1>1 DEF WordBits
<1>3. /\ 0 * ByteBits = 0 /\ 1 * ByteBits = ByteBits /\ 2 * ByteBits = ByteBits + ByteBits
      /\ 3 * ByteBits = ByteBits + 2 * ByteBits /\ 4 * ByteBits = ByteBits + 3 * ByteBits
      /\ 4 * ByteBits = 2 * ByteBits + 2 * ByteBits
      /\ 2 * ByteBits \in Nat /\ 3 * ByteBits \in Nat
  BY <1>1
<1>4. \A x, y \in Nat : 2^(x + y) = 2^x * 2^y
  BY PowerSum
<1>5. \A x \in Nat : 2^x \in Nat /\ 2^x # 0
  BY PowerPositive
<1>6. Byte = 2^ByteBits /\ Half = 2^(2 * ByteBits) /\ Bytes(3) = 2^(3 * ByteBits) /\ Bytes(0) = 2^0
  BY <1>3 DEF Byte, Half, Bytes
<1>7. 2^(2 * ByteBits) = Byte * Byte /\ 2^(3 * ByteBits) = Byte * Half
  BY <1>1, <1>3, <1>4, <1>6
<1>8. 2^WordBits = Byte * Bytes(3) /\ 2^WordBits = Half * Half
  BY <1>1, <1>3, <1>4, <1>6 DEF WordBits
<1>9. Byte \in Nat /\ Half \in Nat /\ Bytes(3) \in Nat /\ 2^WordBits \in Nat
  BY <1>1, <1>2, <1>3, <1>5, <1>6
<1>10. 2^0 = 1
  OBVIOUS
<1>11. Byte >= 2
  <2>1. ByteBits - 1 \in Nat /\ ByteBits = (ByteBits - 1) + 1
    BY <1>1
  <2>2. 2^((ByteBits - 1) + 1) = 2 * 2^(ByteBits - 1) /\ 2^(ByteBits - 1) \in Nat \ {0}
    BY <2>1, PowerNext, PowerPositive
  <2>3. \A p \in Nat \ {0} : 2 * p >= 2
    OBVIOUS
  <2>4. Byte = 2 * 2^(ByteBits - 1)
    BY <2>1, <2>2, <1>6
  <2> QED  BY <2>2, <2>3, <2>4
<1>12. SignBit \in Nat \ {0} /\ 2^WordBits = 2 * SignBit
  <2>1. WordBits - 1 \in Nat /\ WordBits = (WordBits - 1) + 1
    BY <1>2
  <2> QED  BY <2>1, PowerNext, PowerPositive DEF SignBit
<1>13. /\ 2^(WordBits - 6) \in Nat /\ 2^(WordBits - 4) = 4 * 2^(WordBits - 6)
       /\ 2^(WordBits - 4) \in Nat \ {0} /\ 2^WordBits = 16 * 2^(WordBits - 4)
  <2>1. /\ WordBits - 6 \in Nat /\ WordBits - 4 = 2 + (WordBits - 6)
        /\ WordBits - 4 \in Nat /\ WordBits = 4 + (WordBits - 4)
    BY <1>2
  <2>2. 2^2 = 4 /\ 2^4 = 16
    OBVIOUS
  <2>3. 2^(2 + (WordBits - 6)) = 2^2 * 2^(WordBits - 6)
    BY <2>1, PowerSum
  <2>4. 2^(4 + (WordBits - 4)) = 2^4 * 2^(WordBits - 4)
    BY <2>1, PowerSum
  <2> QED  BY <2>1, <2>2, <2>3, <2>4, PowerPositive
<1> QED  BY <1>2, <1>6, <1>7, <1>8, <1>9, <1>10, <1>11, <1>12, <1>13

\* A number cut to a word fits a register.
LEMMA WordIsValue ==
  ASSUME NEW n \in Int
  PROVE  Word(n) \in Values
<1>1. 2^WordBits \in Nat /\ 2^WordBits # 0
  BY WordPowers
<1>2. \A p \in Nat : p # 0 => n % p \in 0 .. p - 1
  OBVIOUS
<1> QED  BY <1>1, <1>2 DEF Word, Values

\* A word that is read with its sign is an integer.
LEMMA SignedIsInt ==
  ASSUME NEW w \in Values
  PROVE  Signed(w) \in Int
BY WordPowers DEF Values, Signed

\* A word shifted right is a word.
LEMMA ShiftIsValue ==
  ASSUME NEW w \in Values, NEW n \in Nat
  PROVE  ShiftRight(w, n) \in Values
<1>1. Signed(w) \in Int /\ 2^n \in Nat \ {0}
  BY SignedIsInt, PowerPositive
<1>2. \A v \in Int, p \in Nat \ {0} : v \div p \in Int
  OBVIOUS
<1>3. Signed(w) \div 2^n \in Int
  BY <1>1, <1>2
<1> QED  BY <1>3, WordIsValue DEF ShiftRight

\* A byte or a half word is a word when it is extended by its sign.
LEMMA ExtendIsValue ==
  ASSUME NEW width \in Nat, width <= 2^WordBits, NEW v \in Nat, v < width
  PROVE  Extend(v, width) \in Values
<1>1. v \in Values
  BY WordPowers DEF Values
<1>2. v - width \in Int
  OBVIOUS
<1> QED  BY <1>1, <1>2, WordIsValue DEF Extend

\* What the first n positions can add up to is a number of n bits.
LEMMA NumberIsValue ==
  ASSUME NEW ones
  PROVE  Number(ones) \in Values
<1> DEFINE add(n) == IF n - 1 \in ones THEN 2^(n - 1) ELSE 0
           step == [n \in 1 .. WordBits |-> [v \in Nat |-> v + add(n)]]
           sum[n \in 0 .. WordBits] ==
             IF n = 0 THEN 0 ELSE sum[n - 1] + (IF n - 1 \in ones THEN 2^(n - 1) ELSE 0)
<1>1. WordBits \in Nat
  BY WordPowers
<1>2. \A n \in 1 .. WordBits : add(n) \in Nat /\ add(n) <= 2^(n - 1)
  <2> SUFFICES ASSUME NEW n \in 1 .. WordBits PROVE add(n) \in Nat /\ add(n) <= 2^(n - 1)
    OBVIOUS
  <2>1. n - 1 \in Nat
    BY <1>1
  <2>2. 2^(n - 1) \in Nat
    BY <2>1, PowerIsNat
  <2> QED  BY <2>2
<1>3. step \in [1 .. WordBits -> [Nat -> Nat]]
  <2>1. \A n \in 1 .. WordBits, v \in Nat : v + add(n) \in Nat
    <3> HIDE DEF add
    <3> QED  BY <1>2
  <2> HIDE DEF add
  <2> QED  BY <2>1
<1>4. PICK f \in [0 .. WordBits -> Nat] :
        f[0] = 0 /\ \A n \in 1 .. WordBits : f[n] = step[n][f[n - 1]]
  <2> HIDE DEF step
  <2>1. Reaches(WordBits, Nat, 0, step)
    BY <1>1, <1>3, PrimitiveRecursion
  <2> QED  BY <2>1 DEF Reaches
<1>5. \A n \in 1 .. WordBits : f[n] = f[n - 1] + add(n)
  <2> SUFFICES ASSUME NEW n \in 1 .. WordBits PROVE f[n] = f[n - 1] + add(n)
    OBVIOUS
  <2>1. n - 1 \in 0 .. WordBits
    BY <1>1
  <2>2. f[n - 1] \in Nat
    BY <2>1, <1>4
  <2>3. step[n][f[n - 1]] = f[n - 1] + add(n)
    <3> HIDE DEF add
    <3> QED  BY <2>2
  <2> QED  BY <2>3, <1>4
<1>6. f = [n \in 0 .. WordBits |-> IF n = 0 THEN 0 ELSE f[n - 1] + add(n)]
  <2>1. \A n \in 0 .. WordBits : f[n] = IF n = 0 THEN 0 ELSE f[n - 1] + add(n)
    <3> HIDE DEF add
    <3> QED  BY <1>4, <1>5, <1>1
  <2>2. DOMAIN f = 0 .. WordBits
    BY <1>4
  <2> HIDE DEF add
  <2> QED  BY <2>1, <2>2, <1>4
<1>7. sum = [n \in 0 .. WordBits |->
               IF n = 0 THEN 0 ELSE sum[n - 1] + (IF n - 1 \in ones THEN 2^(n - 1) ELSE 0)]
  <2> DEFINE Body(g) == [n \in 0 .. WordBits |->
               IF n = 0 THEN 0 ELSE g[n - 1] + (IF n - 1 \in ones THEN 2^(n - 1) ELSE 0)]
  <2>1. f = Body(f)
    BY <1>6
  <2>2. sum = CHOOSE g : g = Body(g)
    BY Zenon
  <2> HIDE DEF sum, Body
  <2>3. sum = Body(sum)
    BY <2>1, <2>2, Zenon
  <2> QED  BY <2>3 DEF Body
<1>8. sum[0] = 0 /\ \A n \in 1 .. WordBits : sum[n] = sum[n - 1] + add(n)
  <2> HIDE DEF sum
  <2>1. 0 \in 0 .. WordBits /\ \A n \in 1 .. WordBits : n \in 0 .. WordBits /\ n # 0
    BY <1>1
  <2> QED  BY <1>7, <2>1
<1> DEFINE S == {n \in 0 .. WordBits : sum[n] \in 0 .. 2^n - 1}
<1>9. 0 \in S
  <2>1. 2^0 = 1
    OBVIOUS
  <2> HIDE DEF sum
  <2> QED  BY <2>1, <1>1, <1>8
<1>10. \A n \in 0 .. WordBits : n \in S /\ n < WordBits => n + 1 \in S
  <2> SUFFICES ASSUME NEW n \in 0 .. WordBits, n \in S, n < WordBits PROVE n + 1 \in S
    OBVIOUS
  <2> HIDE DEF sum, add
  <2>1. n \in Nat /\ n + 1 \in 1 .. WordBits /\ (n + 1) - 1 = n
    BY <1>1
  <2>2. sum[n + 1] = sum[n] + add(n + 1) /\ add(n + 1) \in Nat /\ add(n + 1) <= 2^n
    BY <2>1, <1>8, <1>2
  <2>3. 2^(n + 1) = 2 * 2^n /\ 2^n \in Nat
    BY <2>1, PowerNext, PowerIsNat
  <2>4. \A p, a, b \in Nat : a <= p - 1 /\ b <= p => a + b \in 0 .. 2 * p - 1
    OBVIOUS
  <2>5. sum[n] + add(n + 1) \in 0 .. 2 * 2^n - 1
    BY <2>2, <2>3, <2>4
  <2> QED  BY <2>1, <2>2, <2>3, <2>5
<1>11. WordBits \in S
  <2> HIDE DEF S
  <2>1. \A n \in 0 .. WordBits : n \in S
    BY <1>1, <1>9, <1>10, UpToInduction
  <2> QED  BY <2>1, <1>1
<1>12. Number(ones) = sum[WordBits]
  BY DEF Number
<1> HIDE DEF sum
<1> QED  BY <1>11, <1>12 DEF Values

-----------------------------------------------------------------------------
(***************************************************************************)
(* Decoding.                                                               *)
(***************************************************************************)

General == 0 .. NumGPRegs - 1

BranchOps == {"BLTZ", "BGEZ", "BLTZAL", "BGEZAL", "UNIMP"}
OpNames ==
  {"SPECIAL", "BCOND", "J", "JAL", "BEQ", "BNE", "BLEZ", "BGTZ", "ADDI", "ADDIU", "SLTI", "SLTIU",
   "ANDI", "ORI", "XORI", "LUI", "LB", "LH", "LWL", "LW", "LBU", "LHU", "LWR", "SB", "SH", "SWL",
   "SW", "SWR", "UNIMP", "RES"}
SpecialNames ==
  {"SLL", "SRL", "SRA", "SLLV", "SRLV", "SRAV", "JR", "JALR", "SYSCALL", "MFHI", "MTHI", "MFLO",
   "MTLO", "MULT", "MULTU", "DIV", "DIVU", "ADD", "ADDU", "SUB", "SUBU", "AND", "OR", "XOR", "NOR",
   "SLT", "SLTU", "UNIMP", "RES"}

\* What the rest relies on of an instruction that was decoded: its registers are general ones,
\* save the condition of a branch; a jump stays in its page; an immediate is a word.
Decoded(i) ==
  /\ i.op \in Handled /\ i.rs \in General /\ i.rd \in General
  /\ i.rt \in General \/ i.op \in BranchOps
  /\ i.extra \in Nat
  /\ i.op \in {"J", "JAL"} => i.extra < 2^(WordBits - 6)
  /\ i.op = "ADDI" => i.extra \in Values

\* A sequence of n names of S, of which the second is x.
IsTable(s, S, n, x) == s \in Seq(S) /\ Len(s) = n /\ n >= 2 /\ s[2] = x

\* Two tables, one behind the other, are a table.
LEMMA TwoTables ==
  ASSUME NEW S, NEW m \in Nat, NEW n \in Nat, NEW s, NEW t, NEW x, NEW y,
         IsTable(s, S, m, x), IsTable(t, S, n, y)
  PROVE  IsTable(s \o t, S, m + n, x)
BY DEF IsTable

\* opTable has an operation for each of the 64 codes.
LEMMA OpTableFacts == opTable \in Seq(OpNames) /\ Len(opTable) = 64 /\ opTable[2] = "BCOND"
<1> DEFINE a == <<"SPECIAL", "BCOND", "J", "JAL", "BEQ", "BNE", "BLEZ", "BGTZ",
                  "ADDI", "ADDIU", "SLTI", "SLTIU", "ANDI", "ORI", "XORI", "LUI">>
           b == [n \in 1 .. 4 |-> "UNIMP"]
           c == [n \in 1 .. 12 |-> "RES"]
           d == <<"LB", "LH", "LWL", "LW", "LBU", "LHU", "LWR", "RES",
                  "SB", "SH", "SWL", "SW", "RES", "RES", "SWR", "RES">>
           e == [n \in 1 .. 16 |-> IF (n - 1) \div 4 \in {0, 2} THEN "UNIMP" ELSE "RES"]
<1>1. IsTable(a, OpNames, 16, "BCOND")
  <2>1. a \in [1 .. 16 -> OpNames]
    BY DEF OpNames
  <2> QED  BY <2>1 DEF IsTable
<1>2. IsTable(b, OpNames, 4, "UNIMP")
  BY DEF OpNames, IsTable
<1>3. IsTable(c, OpNames, 12, "RES")
  BY DEF OpNames, IsTable
<1>4. IsTable(d, OpNames, 16, "LH")
  <2>1. d \in [1 .. 16 -> OpNames]
    BY DEF OpNames
  <2> QED  BY <2>1 DEF IsTable
<1>5. IsTable(e, OpNames, 16, "UNIMP")
  <2>1. e \in [1 .. 16 -> OpNames]
    BY DEF OpNames
  <2> QED  BY <2>1 DEF IsTable
<1>6. opTable = (((a \o b) \o c) \o d) \o e
  BY DEF opTable
<1> HIDE DEF a, b, c, d, e
<1>7. IsTable(a \o b, OpNames, 16 + 4, "BCOND")
  BY <1>1, <1>2, TwoTables
<1>8. IsTable((a \o b) \o c, OpNames, 32, "BCOND")
  <2>1. IsTable(a \o b, OpNames, 20, "BCOND")
    BY <1>7
  <2>2. IsTable((a \o b) \o c, OpNames, 20 + 12, "BCOND")
    BY <2>1, <1>3, TwoTables
  <2> QED  BY <2>2
<1>9. IsTable(((a \o b) \o c) \o d, OpNames, 48, "BCOND")
  <2>1. IsTable(((a \o b) \o c) \o d, OpNames, 32 + 16, "BCOND")
    BY <1>8, <1>4, TwoTables
  <2> QED  BY <2>1
<1>10. IsTable((((a \o b) \o c) \o d) \o e, OpNames, 48 + 16, "BCOND")
  BY <1>9, <1>5, TwoTables
<1>11. IsTable(opTable, OpNames, 64, "BCOND")
  BY <1>6, <1>10
<1> QED  BY <1>11 DEF IsTable

\* And specialTable for each of the 64 function codes.
LEMMA SpecialTableFacts == specialTable \in Seq(SpecialNames) /\ Len(specialTable) = 64
<1> DEFINE a == <<"SLL", "RES", "SRL", "SRA", "SLLV", "RES", "SRLV", "SRAV",
                  "JR", "JALR", "RES", "RES", "SYSCALL", "UNIMP", "RES", "RES",
                  "MFHI", "MTHI", "MFLO", "MTLO", "RES", "RES", "RES", "RES",
                  "MULT", "MULTU", "DIV", "DIVU", "RES", "RES", "RES", "RES",
                  "ADD", "ADDU", "SUB", "SUBU", "AND", "OR", "XOR", "NOR",
                  "RES", "RES", "SLT", "SLTU">>
           b == [n \in 1 .. 20 |-> "RES"]
<1>1. IsTable(a, SpecialNames, 44, "RES")
  <2>1. a \in [1 .. 44 -> SpecialNames]
    BY DEF SpecialNames
  <2> QED  BY <2>1 DEF IsTable
<1>2. IsTable(b, SpecialNames, 20, "RES")
  BY DEF SpecialNames, IsTable
<1>3. specialTable = a \o b
  BY DEF specialTable
<1> HIDE DEF a, b
<1>4. IsTable(a \o b, SpecialNames, 44 + 20, "RES")
  BY <1>1, <1>2, TwoTables
<1> QED  BY <1>3, <1>4 DEF IsTable

\* Every instruction word tried decodes so, whatever its fields.
LEMMA WordsAreDecoded ==
  ASSUME NEW w \in Words
  PROVE  Decoded(Decode(w))
<1> DEFINE i == Decode(w)
           op == opTable[w.op + 1]
<1>1. /\ w.op \in 0 .. 63 /\ w.funct \in 0 .. 63 /\ w.rs = 1 /\ w.rd \in General
      /\ w.rt \in General \/ w.op = 1
      /\ w.imm \in Nat
  <2>1. 0 \in General /\ Destinations \subseteq General /\ Codes \subseteq 0 .. 63 /\ Immediates \subseteq Nat
    BY MachineAssumption DEF General
  <2> DEFINE A == [op : {0}, funct : Codes, rs : {1}, rt : Destinations, rd : Destinations,
                   imm : Immediates]
             B == [op : {1}, funct : {0}, rs : {1}, rt : Fields, rd : {0}, imm : Immediates]
             C == [op : Codes \ {0, 1}, funct : {0}, rs : {1}, rt : Destinations, rd : {0},
                   imm : Immediates]
  <2>2. w \in A \/ w \in B \/ w \in C
    BY DEF Words
  <2>3. CASE w \in A
    <3>1. w.op = 0 /\ w.funct \in Codes /\ w.rs = 1 /\ w.rt \in Destinations /\ w.rd \in Destinations
          /\ w.imm \in Immediates
      BY <2>3
    <3>2. w.funct \in 0 .. 63 /\ w.imm \in Nat /\ w.op \in 0 .. 63
      <4>1. 0 \in 0 .. 63 /\ 1 \in 0 .. 63
        OBVIOUS
      <4> QED  BY <4>1, <2>1, <3>1, Zenon
    <3>3. w.rd \in General /\ (w.rt \in General \/ w.op = 1)
      BY <2>1, <3>1
    <3> QED  BY <3>1, <3>2, <3>3
  <2>4. CASE w \in B
    <3>1. w.op = 1 /\ w.funct = 0 /\ w.rs = 1 /\ w.rd = 0 /\ w.imm \in Immediates
      BY <2>4
    <3>2. w.funct \in 0 .. 63 /\ w.imm \in Nat /\ w.op \in 0 .. 63
      <4>1. 0 \in 0 .. 63 /\ 1 \in 0 .. 63
        OBVIOUS
      <4> QED  BY <4>1, <2>1, <3>1, Zenon
    <3>3. w.rd \in General /\ (w.rt \in General \/ w.op = 1)
      BY <2>1, <3>1
    <3> QED  BY <3>1, <3>2, <3>3
  <2>5. CASE w \in C
    <3>1. w.op \in Codes /\ w.funct = 0 /\ w.rs = 1 /\ w.rt \in Destinations /\ w.rd = 0
          /\ w.imm \in Immediates
      BY <2>5
    <3>2. w.funct \in 0 .. 63 /\ w.imm \in Nat /\ w.op \in 0 .. 63
      <4>1. 0 \in 0 .. 63 /\ 1 \in 0 .. 63
        OBVIOUS
      <4> QED  BY <4>1, <2>1, <3>1, Zenon
    <3>3. w.rd \in General /\ (w.rt \in General \/ w.op = 1)
      BY <2>1, <3>1
    <3> QED  BY <3>1, <3>2, <3>3
  <2> QED  BY <2>2, <2>3, <2>4, <2>5
<1>2. op \in OpNames /\ specialTable[w.funct + 1] \in SpecialNames
  <2>1. w.op + 1 \in 1 .. 64 /\ w.funct + 1 \in 1 .. 64
    BY <1>1
  <2>2. \A S : \A s \in Seq(S) : \A n \in 1 .. Len(s) : s[n] \in S
    OBVIOUS
  <2>3. op \in OpNames
    BY <2>1, <2>2, OpTableFacts
  <2>4. specialTable[w.funct + 1] \in SpecialNames
    BY <2>1, <2>2, SpecialTableFacts
  <2> QED  BY <2>3, <2>4
<1>3. w.op = 1 => op = "BCOND"
  BY OpTableFacts
<1>4. BranchCondition(w.rt) \in BranchOps
  BY DEF BranchCondition, BranchOps
<1>5. /\ i.op = CASE op = "SPECIAL" -> specialTable[w.funct + 1]
                  [] op = "BCOND" -> BranchCondition(w.rt)
                  [] OTHER -> op
      /\ i.rs = 1 /\ i.rt = w.rt /\ i.rd = w.rd
      /\ i.extra = CASE op = "SPECIAL" -> w.imm % WordBits
                     [] op \in {"J", "JAL"} -> w.imm % 2^(WordBits - 6)
                     [] OTHER -> Extend(w.imm % Half, Half)
  BY <1>1 DEF Decode
<1>6. i.rs \in General /\ i.rd \in General
  BY <1>1, <1>5, MachineAssumption DEF General
<1>7. w.imm % WordBits \in Nat
  BY <1>1, WordPowers
<1>8. w.imm % 2^(WordBits - 6) \in Nat /\ w.imm % 2^(WordBits - 6) < 2^(WordBits - 6)
  <2>1. 2^(WordBits - 6) \in Nat \ {0}
    BY WordPowers
  <2>2. \A p \in Nat \ {0} : w.imm % p \in Nat /\ w.imm % p < p
    BY <1>1
  <2> QED  BY <2>1, <2>2
<1>9. Extend(w.imm % Half, Half) \in Values
  <2>1. Half \in Nat \ {0} /\ Half <= 2^WordBits
    BY WordPowers
  <2>2. \A p \in Nat \ {0} : w.imm % p \in Nat /\ w.imm % p < p
    BY <1>1
  <2>3. w.imm % Half \in Nat /\ w.imm % Half < Half
    BY <2>1, <2>2
  <2> QED  BY <2>1, <2>3, ExtendIsValue
<1>10. Values \subseteq Nat
  BY DEF Values
<1> HIDE DEF i, op
<1>11. CASE op = "SPECIAL"
  <2>1. i.op \in SpecialNames /\ i.extra \in Nat
    BY <1>2, <1>5, <1>7, <1>11
  <2>2. i.op \in Handled /\ i.op \notin {"J", "JAL", "ADDI"}
    BY <2>1 DEF SpecialNames, Handled
  <2>3. i.rt \in General
    BY <1>1, <1>3, <1>5, <1>11
  <2> QED  BY <2>1, <2>2, <2>3, <1>6 DEF Decoded, i
<1>12. CASE op = "BCOND"
  <2>1. i.op \in BranchOps /\ i.extra \in Nat
    BY <1>4, <1>5, <1>9, <1>10, <1>12
  <2>2. i.op \in Handled /\ i.op \notin {"J", "JAL", "ADDI"}
    BY <2>1 DEF BranchOps, Handled
  <2> QED  BY <2>1, <2>2, <1>6 DEF Decoded, i
<1>13. CASE op \in OpNames \ {"SPECIAL", "BCOND"}
  <2>1. i.op = op /\ i.op \in Handled
    BY <1>5, <1>13 DEF OpNames, Handled
  <2>2. i.rt \in General
    BY <1>1, <1>3, <1>5, <1>13
  <2>3. CASE op \in {"J", "JAL"}
    <3>1. i.extra = w.imm % 2^(WordBits - 6)
      BY <1>5, <2>3
    <3> QED  BY <3>1, <2>1, <2>2, <2>3, <1>6, <1>8 DEF Decoded, i
  <2>4. CASE op \notin {"J", "JAL"}
    <3>1. i.extra = Extend(w.imm % Half, Half)
      BY <1>5, <1>13, <2>4
    <3> QED  BY <3>1, <2>1, <2>2, <2>4, <1>6, <1>9, <1>10 DEF Decoded, i
  <2> QED  BY <2>3, <2>4
<1> QED  BY <1>2, <1>11, <1>12, <1>13 DEF i

-----------------------------------------------------------------------------
(***************************************************************************)
(* What the operations write.                                              *)
(***************************************************************************)

MultStates == [lo : Values, hi : Values, bHi : Values, bLo : Values, a : Values]

\* A turn of Mult's loop leaves words.
LEMMA MultStepTyped ==
  ASSUME NEW m \in MultStates
  PROVE  MultStep(m) \in MultStates
<1>1. m.lo \in Values /\ m.hi \in Values /\ m.bHi \in Values /\ m.bLo \in Values /\ m.a \in Values
  BY DEF MultStates
<1>2. m.lo \in Nat /\ m.hi \in Nat /\ m.bHi \in Nat /\ m.bLo \in Nat /\ m.a \in Nat
  BY <1>1 DEF Values
<1> DEFINE lo == Word(m.lo + m.bLo)
           hi == Word(m.hi + (IF lo < m.bLo THEN 1 ELSE 0) + m.bHi)
<1>3. lo \in Values
  <2>1. m.lo + m.bLo \in Int
    BY <1>2
  <2> QED  BY <2>1, WordIsValue
<1>4. hi \in Values
  <2> HIDE DEF lo
  <2>1. m.hi + (IF lo < m.bLo THEN 1 ELSE 0) + m.bHi \in Int
    <3>1. m.hi \in Int /\ m.bHi \in Int
      BY <1>2
    <3> QED  BY <3>1
  <2> QED  BY <2>1, WordIsValue
<1>5. Word(2 * m.bLo) \in Values
  <2>1. 2 * m.bLo \in Int
    BY <1>2
  <2> QED  BY <2>1, WordIsValue
<1>6. Word(2 * m.bHi) + (IF Negative(m.bLo) THEN 1 ELSE 0) \in Values
  <2>1. PICK p \in Nat \ {0} : p = SignBit /\ 2^WordBits = 2 * p
    BY WordPowers
  <2>2. \A x \in Nat : (2 * x) % (2 * p) = 2 * (x % p) /\ x % p \in 0 .. p - 1
    <3> SUFFICES ASSUME NEW x \in Nat
                 PROVE  (2 * x) % (2 * p) = 2 * (x % p) /\ x % p \in 0 .. p - 1
      OBVIOUS
    <3>1. PICK q \in Int, r \in 0 .. p - 1 : q = x \div p /\ r = x % p /\ x = p * q + r
      BY DivisionExact
    <3>2. 2 * x = (2 * p) * q + 2 * r
      <4>1. 2 * x = 2 * (p * q) + 2 * r /\ (2 * p) * q = 2 * (p * q)
        BY <3>1
      <4> QED  BY <4>1
    <3>3. 2 * r \in 0 .. (2 * p) - 1 /\ 2 * p \in Nat \ {0} /\ 2 * x \in Int
      OBVIOUS
    <3>4. (2 * x) % (2 * p) = 2 * r
      BY <3>2, <3>3, DivisionUnique
    <3> QED  BY <3>1, <3>4
  <2>3. Word(2 * m.bHi) = 2 * (m.bHi % p) /\ m.bHi % p \in 0 .. p - 1
    BY <2>1, <2>2, <1>2 DEF Word
  <2> QED  BY <2>1, <2>3 DEF Values
<1>7. ShiftRight(m.a, 1) \in Values
  BY <1>1, ShiftIsValue
<1>8. MultStep(m) = [lo |-> IF m.a % 2 = 1 THEN lo ELSE m.lo,
                     hi |-> IF m.a % 2 = 1 THEN hi ELSE m.hi,
                     bHi |-> Word(2 * m.bHi) + (IF Negative(m.bLo) THEN 1 ELSE 0),
                     bLo |-> Word(2 * m.bLo),
                     a |-> ShiftRight(m.a, 1)]
  BY DEF MultStep
<1> HIDE DEF lo, hi
<1> QED  BY <1>1, <1>3, <1>4, <1>5, <1>6, <1>7, <1>8 DEF MultStates

\* The turns of Mult's loop: each is one step from the turn before.
LEMMA TurnsFacts ==
  ASSUME NEW start \in MultStates
  PROVE  /\ Turns(start) \in [0 .. WordBits -> MultStates] /\ Turns(start)[0] = start
         /\ \A n \in 1 .. WordBits : Turns(start)[n] = MultStep(Turns(start)[n - 1])
<1> DEFINE Body(g) == [n \in 0 .. WordBits |-> IF n = 0 THEN start ELSE MultStep(g[n - 1])]
           step == [n \in 1 .. WordBits |-> [m \in MultStates |-> MultStep(m)]]
<1>1. WordBits \in Nat
  BY WordPowers
<1>2. step \in [1 .. WordBits -> [MultStates -> MultStates]]
  BY MultStepTyped
<1>3. \A n \in 1 .. WordBits : \A m \in MultStates : step[n][m] = MultStep(m)
  OBVIOUS
<1>4. PICK f \in [0 .. WordBits -> MultStates] :
        f[0] = start /\ \A n \in 1 .. WordBits : f[n] = step[n][f[n - 1]]
  <2> HIDE DEF step
  <2>1. Reaches(WordBits, MultStates, start, step)
    BY <1>1, <1>2, PrimitiveRecursion
  <2> QED  BY <2>1 DEF Reaches
<1> HIDE DEF step
<1>5. \A n \in 1 .. WordBits : f[n] = MultStep(f[n - 1])
  <2> SUFFICES ASSUME NEW n \in 1 .. WordBits PROVE f[n] = MultStep(f[n - 1])
    OBVIOUS
  <2>1. n - 1 \in 0 .. WordBits
    BY <1>1
  <2>2. f[n - 1] \in MultStates
    BY <2>1, <1>4
  <2> QED  BY <2>2, <1>3, <1>4
<1>6. f = Body(f)
  <2>1. \A n \in 0 .. WordBits : f[n] = IF n = 0 THEN start ELSE MultStep(f[n - 1])
    BY <1>1, <1>4, <1>5
  <2> QED  BY <2>1, <1>4
<1>7. Turns(start) = CHOOSE g : g = Body(g)
  BY Zenon DEF Turns
<1>8. Turns(start) = Body(Turns(start))
  <2> HIDE DEF Body
  <2> QED  BY <1>6, <1>7, Zenon
<1> DEFINE t == Turns(start)
<1> HIDE DEF t
<1>9. t = [n \in 0 .. WordBits |-> IF n = 0 THEN start ELSE MultStep(t[n - 1])]
  BY <1>8 DEF t
<1>10. t[0] = start /\ \A n \in 1 .. WordBits : t[n] = MultStep(t[n - 1])
  <2>1. 0 \in 0 .. WordBits /\ \A n \in 1 .. WordBits : n \in 0 .. WordBits /\ n # 0
    BY <1>1
  <2> QED  BY <1>9, <2>1
<1>11. \A n \in 0 .. WordBits : t[n] \in MultStates
  <2> DEFINE S == {n \in 0 .. WordBits : t[n] \in MultStates}
  <2>1. 0 \in S
    BY <1>1, <1>10
  <2>2. \A n \in 0 .. WordBits : n \in S /\ n < WordBits => n + 1 \in S
    <3> SUFFICES ASSUME NEW n \in 0 .. WordBits, n \in S, n < WordBits PROVE n + 1 \in S
      OBVIOUS
    <3>1. n + 1 \in 1 .. WordBits /\ (n + 1) - 1 = n
      BY <1>1
    <3>2. t[n + 1] = MultStep(t[n]) /\ t[n] \in MultStates
      BY <3>1, <1>10
    <3> QED  BY <3>1, <3>2, MultStepTyped
  <2> HIDE DEF S
  <2>3. \A n \in 0 .. WordBits : n \in S
    BY <1>1, <2>1, <2>2, UpToInduction
  <2> QED  BY <2>3 DEF S
<1>12. t \in [0 .. WordBits -> MultStates]
  <2>1. DOMAIN t = 0 .. WordBits
    BY <1>9
  <2> QED  BY <2>1, <1>9, <1>11
<1> QED  BY <1>10, <1>12 DEF t

\* What the loop starts from: the magnitudes of the factors.
Magnitude(w, signedArith) == IF signedArith /\ Negative(w) THEN Negate(w) ELSE w
MultStart(a, b, signedArith) ==
  [lo |-> 0, hi |-> 0, bLo |-> Magnitude(b, signedArith), bHi |-> 0, a |-> Magnitude(a, signedArith)]

\* What Mult starts from are words.
LEMMA MultStartTyped ==
  ASSUME NEW a \in Values, NEW b \in Values, NEW s \in BOOLEAN
  PROVE  MultStart(a, b, s) \in MultStates
<1>1. \A w \in Values : Magnitude(w, s) \in Values
  <2> SUFFICES ASSUME NEW w \in Values PROVE Magnitude(w, s) \in Values
    OBVIOUS
  <2>1. -w \in Int
    BY DEF Values
  <2> QED  BY <2>1, WordIsValue DEF Magnitude, Negate
<1>2. 0 \in Values
  BY WordPowers DEF Values
<1> QED  BY <1>1, <1>2 DEF MultStart, MultStates

\* Both halves of a product are words.
LEMMA MultIsValue ==
  ASSUME NEW a \in Values, NEW b \in Values, NEW s \in BOOLEAN
  PROVE  Mult(a, b, s).hi \in Values /\ Mult(a, b, s).lo \in Values
<1> DEFINE start == MultStart(a, b, s)
           end == Turns(start)[WordBits]
           lo == Negate(end.lo)
           hi == Word(2^WordBits - 1 - end.hi + (IF lo = 0 THEN 1 ELSE 0))
           negative == s /\ Negative(a) # Negative(b)
<1>1. Mult(a, b, s) = IF a = 0 \/ b = 0 THEN [hi |-> 0, lo |-> 0]
                      ELSE IF negative THEN [hi |-> hi, lo |-> lo] ELSE [hi |-> end.hi, lo |-> end.lo]
  BY Zenon DEF Mult, MultStart, Magnitude
<1>2. end \in MultStates
  <2>1. WordBits \in 0 .. WordBits
    BY WordPowers
  <2> HIDE DEF start
  <2> QED  BY <2>1, MultStartTyped, TurnsFacts DEF start
<1> HIDE DEF end
<1>3. end.lo \in Values /\ end.hi \in Values
  BY <1>2 DEF MultStates
<1>7. end.lo \in Nat /\ end.hi \in Nat
  BY <1>3 DEF Values
<1>4. lo \in Values
  <2>1. -end.lo \in Int
    BY <1>7
  <2> QED  BY <2>1, WordIsValue DEF Negate
<1>5. hi \in Values
  <2> HIDE DEF lo
  <2>1. 2^WordBits - 1 - end.hi + (IF lo = 0 THEN 1 ELSE 0) \in Int
    <3>1. end.hi \in Int /\ 2^WordBits \in Int
      BY <1>7, WordPowers
    <3> QED  BY <3>1
  <2> QED  BY <2>1, WordIsValue
<1>6. 0 \in Values
  BY WordPowers DEF Values
<1> HIDE DEF lo, hi, negative
<1> QED  BY <1>1, <1>3, <1>4, <1>5, <1>6

\* The registers that operations write: the general ones, HI and LO.
Writable == General \cup {HiReg, LoReg}
Writes(f) == DOMAIN f \subseteq Writable /\ \A r \in DOMAIN f : f[r] \in Values

Regs == 0 .. NumTotalRegs - 1

\* All registers hold words, and LoadReg the number of a general one.
RegsTyped(regs) ==
  /\ regs \in [Regs -> Nat]
  /\ \A r \in Regs \ {LoadReg} : regs[r] \in Values
  /\ regs[LoadReg] \in General

\* The numbers of the special registers are beyond those of the general ones.
LEMMA RegisterNumbers ==
  /\ NumGPRegs \in Nat /\ NumGPRegs >= 3 /\ General \subseteq Regs /\ R31 \in General
  /\ 0 \in General /\ 1 \in General /\ 2 \in General
  /\ {HiReg, LoReg, PCReg, NextPCReg, PrevPCReg, LoadReg, LoadValueReg, BadVAddrReg} \subseteq Regs
  /\ {HiReg, LoReg, PCReg, NextPCReg, PrevPCReg, LoadReg, LoadValueReg, BadVAddrReg} \cap General = {}
  /\ HiReg # LoReg /\ Writable \subseteq Regs
  /\ {PCReg, NextPCReg, PrevPCReg, LoadReg, LoadValueReg, BadVAddrReg} \cap Writable = {}
  /\ {PCReg, NextPCReg, PrevPCReg} \cap {LoadReg, LoadValueReg, BadVAddrReg} = {}
  /\ PCReg # NextPCReg /\ PCReg # PrevPCReg /\ NextPCReg # PrevPCReg
  /\ LoadReg # LoadValueReg /\ LoadReg # BadVAddrReg /\ LoadValueReg # BadVAddrReg
  /\ \A r \in 1 .. PrevPCReg : r \in Regs /\ r # 0 /\ r \notin {LoadReg, LoadValueReg, BadVAddrReg}
BY MachineAssumption DEF General, Regs, Writable, HiReg, LoReg, PCReg, NextPCReg, PrevPCReg, LoadReg,
   LoadValueReg, BadVAddrReg, NumTotalRegs, R31

\* Nothing written is written well.
LEMMA NothingWrites == Writes(<<>>)
BY DEF Writes

\* One register with a word is written well.
LEMMA WriteWrites ==
  ASSUME NEW r \in Writable, NEW v \in Values
  PROVE  Writes(Write(r, v))
BY DEF Writes, Write

\* What two parts write well is written well.
LEMMA BothWrite ==
  ASSUME NEW s, NEW t, Writes(s), Writes(t)
  PROVE  Writes(s ++ t)
BY DEF Writes, ++

\* 0 and 1 are words.
LEMMA FlagIsValue == 0 \in Values /\ 1 \in Values
BY WordPowers DEF Values

\* Each kind of operation writes words into the registers it may write: the sums,
LEMMA SumWrites ==
  ASSUME NEW i, Decoded(i), RegsTyped(registers)
  PROVE  Writes(Sum(i))
<1> DEFINE a == registers[i.rs]
           b == registers[i.rt]
<1>1. a \in Nat /\ i.extra \in Nat /\ i.rd \in Writable
  BY RegisterNumbers DEF Decoded, RegsTyped, Writable
<1>2. i.op \notin BranchOps => b \in Nat /\ i.rt \in Writable
  BY RegisterNumbers DEF Decoded, RegsTyped, Writable
<1> HIDE DEF a, b
<1>3. CASE i.op \in {"ADD", "ADDU"}
  <2>1. i.op \notin BranchOps
    BY <1>3 DEF BranchOps
  <2>2. Word(a + b) \in Values
    BY <1>1, <1>2, <2>1, WordIsValue
  <2>3. Sum(i) = Write(i.rd, Word(a + b))
    BY <1>3 DEF Sum, a, b
  <2> QED  BY <1>1, <2>2, <2>3, WriteWrites
<1>4. CASE i.op \in {"ADDI", "ADDIU"}
  <2>1. i.op \notin BranchOps
    BY <1>4 DEF BranchOps
  <2>2. Word(a + i.extra) \in Values
    BY <1>1, WordIsValue
  <2>3. Sum(i) = Write(i.rt, Word(a + i.extra))
    BY <1>4 DEF Sum, a
  <2> QED  BY <1>2, <2>1, <2>2, <2>3, WriteWrites
<1>5. CASE i.op \in {"SUB", "SUBU"}
  <2>1. i.op \notin BranchOps
    BY <1>5 DEF BranchOps
  <2>2. Word(a - b) \in Values
    BY <1>1, <1>2, <2>1, WordIsValue
  <2>3. Sum(i) = Write(i.rd, Word(a - b))
    BY <1>5 DEF Sum, a, b
  <2> QED  BY <1>1, <2>2, <2>3, WriteWrites
<1>6. CASE i.op \notin {"ADD", "ADDU", "ADDI", "ADDIU", "SUB", "SUBU"}
  <2>1. Sum(i) = <<>>
    BY <1>6 DEF Sum
  <2> QED  BY <2>1, NothingWrites
<1> QED  BY <1>3, <1>4, <1>5, <1>6

\* the logical operations,
LEMMA LogicalWrites ==
  ASSUME NEW i, Decoded(i)
  PROVE  Writes(Logical(i))
<1>1. i.op \notin BranchOps => i.rt \in Writable
  BY DEF Decoded, Writable
<1>2. i.rd \in Writable
  BY DEF Decoded, Writable
<1>3. CASE i.op \in {"AND", "OR", "XOR"}
  <2>1. PICK ones : Logical(i) = Write(i.rd, Number(ones))
    BY <1>3 DEF Logical
  <2> QED  BY <1>2, <2>1, NumberIsValue, WriteWrites
<1>4. CASE i.op \in {"ANDI", "ORI", "XORI"}
  <2>1. PICK ones : Logical(i) = Write(i.rt, Number(ones))
    BY <1>4 DEF Logical
  <2>2. i.rt \in Writable
    BY <1>1, <1>4 DEF BranchOps
  <2> QED  BY <2>1, <2>2, NumberIsValue, WriteWrites
<1>5. CASE i.op = "NOR"
  <2>1. PICK ones : Logical(i) = Write(i.rd, 2^WordBits - 1 - Number(ones))
    BY <1>5 DEF Logical
  <2>2. 2^WordBits - 1 - Number(ones) \in Values
    BY NumberIsValue, WordPowers DEF Values
  <2> QED  BY <1>2, <2>1, <2>2, WriteWrites
<1>6. CASE i.op = "LUI"
  <2>1. Logical(i) = Write(i.rt, Word(i.extra * Half))
    BY <1>6 DEF Logical
  <2>2. i.extra \in Nat /\ Half \in Nat
    BY WordPowers DEF Decoded
  <2>3. i.extra * Half \in Int
    BY <2>2
  <2>4. i.rt \in Writable
    BY <1>1, <1>6 DEF BranchOps
  <2> QED  BY <2>1, <2>3, <2>4, WordIsValue, WriteWrites
<1>7. CASE i.op \notin {"AND", "OR", "XOR", "ANDI", "ORI", "XORI", "NOR", "LUI"}
  <2>1. Logical(i) = <<>>
    BY <1>7 DEF Logical
  <2> QED  BY <2>1, NothingWrites
<1> QED  BY <1>3, <1>4, <1>5, <1>6, <1>7

\* the comparisons,
LEMMA ComparedWrites ==
  ASSUME NEW i, Decoded(i)
  PROVE  Writes(Compared(i))
<1>1. i.op \notin BranchOps => i.rt \in Writable
  BY DEF Decoded, Writable
<1>2. i.rd \in Writable
  BY DEF Decoded, Writable
<1>3. CASE i.op \in {"SLT", "SLTU"}
  <2>1. PICK v \in {0, 1} : Compared(i) = Write(i.rd, v)
    BY <1>3 DEF Compared
  <2> QED  BY <1>2, <2>1, FlagIsValue, WriteWrites
<1>4. CASE i.op \in {"SLTI", "SLTIU"}
  <2>1. PICK v \in {0, 1} : Compared(i) = Write(i.rt, v)
    BY <1>4 DEF Compared
  <2>2. i.rt \in Writable
    BY <1>1, <1>4 DEF BranchOps
  <2> QED  BY <2>1, <2>2, FlagIsValue, WriteWrites
<1>5. CASE i.op \notin {"SLT", "SLTU", "SLTI", "SLTIU"}
  <2>1. Compared(i) = <<>>
    BY <1>5 DEF Compared
  <2> QED  BY <2>1, NothingWrites
<1> QED  BY <1>3, <1>4, <1>5

\* the shifts,
LEMMA ShiftedWrites ==
  ASSUME NEW i, Decoded(i), RegsTyped(registers)
  PROVE  Writes(Shifted(i))
<1> DEFINE a == registers[i.rs] % WordBits
           b == registers[i.rt]
<1>1. a \in Nat
  <2>1. registers[i.rs] \in Nat
    BY RegisterNumbers DEF Decoded, RegsTyped
  <2> QED  BY <2>1, WordPowers
<1>2. i.op \notin BranchOps => b \in Values
  BY RegisterNumbers DEF Decoded, RegsTyped
<1>3. i.rd \in Writable /\ i.extra \in Nat
  BY DEF Decoded, Writable
<1>4. \A v \in Values, n \in Nat : Word(v * 2^n) \in Values /\ ShiftRight(v, n) \in Values
  <2> SUFFICES ASSUME NEW v \in Values, NEW n \in Nat
               PROVE  Word(v * 2^n) \in Values /\ ShiftRight(v, n) \in Values
    OBVIOUS
  <2>1. v \in Int /\ 2^n \in Int
    BY PowerIsNat DEF Values
  <2>2. v * 2^n \in Int
    BY <2>1
  <2> QED  BY <2>2, WordIsValue, ShiftIsValue
<1> HIDE DEF a, b
<1>5. CASE i.op \in {"SLL", "SLLV", "SRA", "SRL", "SRAV", "SRLV"}
  <2>1. b \in Values
    BY <1>2, <1>5 DEF BranchOps
  <2>2. PICK n \in Nat : Shifted(i) = Write(i.rd, Word(b * 2^n)) \/ Shifted(i) = Write(i.rd, ShiftRight(b, n))
    BY <1>1, <1>3, <1>5 DEF Shifted, a, b
  <2> QED  BY <1>3, <1>4, <2>1, <2>2, WriteWrites
<1>6. CASE i.op \notin {"SLL", "SLLV", "SRA", "SRL", "SRAV", "SRLV"}
  <2>1. Shifted(i) = <<>>
    BY <1>6 DEF Shifted
  <2> QED  BY <2>1, NothingWrites
<1> QED  BY <1>5, <1>6

\* the moves from and to HI and LO,
LEMMA MovedWrites ==
  ASSUME NEW i, Decoded(i), RegsTyped(registers)
  PROVE  Writes(Moved(i))
<1>1. i.rd \in Writable /\ HiReg \in Writable /\ LoReg \in Writable
  BY DEF Decoded, Writable
<1>2. registers[HiReg] \in Values /\ registers[LoReg] \in Values /\ registers[i.rs] \in Values
  <2>1. {HiReg, LoReg, i.rs} \subseteq Regs \ {LoadReg}
    BY RegisterNumbers DEF Decoded, Writable
  <2> QED  BY <2>1 DEF RegsTyped
<1>3. CASE i.op \in {"MFHI", "MFLO", "MTHI", "MTLO"}
  <2>1. PICK r \in Writable, v \in Values : Moved(i) = Write(r, v)
    BY <1>1, <1>2, <1>3 DEF Moved
  <2> QED  BY <2>1, WriteWrites
<1>4. CASE i.op \notin {"MFHI", "MFLO", "MTHI", "MTLO"}
  <2>1. Moved(i) = <<>>
    BY <1>4 DEF Moved
  <2> QED  BY <2>1, NothingWrites
<1> QED  BY <1>3, <1>4

\* A quotient and a remainder are integers, when the divisor is not zero.
LEMMA QuotientIsInt ==
  ASSUME NEW a \in Int, NEW b \in Int, b # 0
  PROVE  Quotient(a, b) \in Int /\ Remainder(a, b) \in Int
<1>1. Quotient(a, b) \in Int
  BY DEF Quotient
<1>2. PICK q \in Int : q = Quotient(a, b)
  BY <1>1
<1>3. a - b * q \in Int
  OBVIOUS
<1> QED  BY <1>1, <1>2, <1>3 DEF Remainder

\* HI and LO are two registers, and each gets its own word.
LEMMA HiLoWrites ==
  ASSUME NEW hi \in Values, NEW lo \in Values
  PROVE  Writes(HiLo(hi, lo)) /\ HiLo(hi, lo)[HiReg] = hi /\ HiLo(hi, lo)[LoReg] = lo
<1>1. HiReg \in Writable /\ LoReg \in Writable /\ HiReg # LoReg
  BY RegisterNumbers DEF Writable
<1>2. Writes(HiLo(hi, lo))
  BY <1>1, WriteWrites, BothWrite DEF HiLo
<1>3. HiLo(hi, lo)[HiReg] = hi /\ HiLo(hi, lo)[LoReg] = lo
  BY <1>1 DEF HiLo, ++, Write
<1> QED  BY <1>2, <1>3

\* A division writes words, by zero too,
LEMMA DivWrites ==
  ASSUME NEW a \in Int, NEW b \in Int
  PROVE  Writes(DivResult(a, b))
<1>1. CASE b = 0
  BY <1>1, FlagIsValue, HiLoWrites DEF DivResult
<1>2. CASE b # 0
  <2>1. Word(Quotient(a, b)) \in Values /\ Word(Remainder(a, b)) \in Values
    BY <1>2, QuotientIsInt, WordIsValue
  <2> QED  BY <1>2, <2>1, HiLoWrites DEF DivResult
<1> QED  BY <1>1, <1>2

\* and so do the products and quotients,
LEMMA ProductWrites ==
  ASSUME NEW i, Decoded(i), RegsTyped(registers)
  PROVE  Writes(Product(i))
<1> DEFINE a == registers[i.rs]
           b == registers[i.rt]
<1>1. a \in Values /\ (i.op \notin BranchOps => b \in Values)
  BY RegisterNumbers DEF Decoded, RegsTyped
<1>2. \A v \in Values : v \in Int /\ Signed(v) \in Int
  BY SignedIsInt DEF Values
<1>3. CASE i.op \in {"MULT", "MULTU", "DIV", "DIVU"}
  <2>1. b \in Values
    BY <1>1, <1>3 DEF BranchOps
  <2> HIDE DEF a, b
  <2>2. CASE i.op \in {"MULT", "MULTU"}
    <3>1. PICK s \in BOOLEAN : Product(i) = MultResult(Mult(a, b, s))
      BY <2>2 DEF Product, a, b
    <3> QED  BY <3>1, <1>1, <2>1, MultIsValue, HiLoWrites DEF MultResult
  <2>3. CASE i.op \in {"DIV", "DIVU"}
    <3>1. PICK x \in Int, y \in Int : Product(i) = DivResult(x, y)
      BY <2>3, <1>1, <1>2, <2>1 DEF Product, a, b
    <3> QED  BY <3>1, DivWrites
  <2> QED  BY <1>3, <2>2, <2>3
<1>4. CASE i.op \notin {"MULT", "MULTU", "DIV", "DIVU"}
  <2>1. Product(i) = <<>>
    BY <1>4 DEF Product
  <2> QED  BY <2>1, NothingWrites
<1> QED  BY <1>3, <1>4

\* and the jumps that link.
LEMMA LinkedWrites ==
  ASSUME NEW i, Decoded(i), RegsTyped(registers)
  PROVE  Writes(Linked(i))
<1>1. i.rd \in Writable /\ R31 \in Writable
  BY RegisterNumbers DEF Decoded, Writable
<1>2. Word(registers[NextPCReg] + 4) \in Values
  <2>1. registers[NextPCReg] \in Nat
    BY RegisterNumbers DEF RegsTyped
  <2>2. registers[NextPCReg] + 4 \in Int
    BY <2>1
  <2> QED  BY <2>2, WordIsValue
<1>3. CASE i.op \in {"JAL", "BGEZAL", "BLTZAL", "JALR"}
  <2>1. PICK r \in Writable : Linked(i) = Write(r, Word(registers[NextPCReg] + 4))
    BY <1>1, <1>3 DEF Linked
  <2> QED  BY <1>2, <2>1, WriteWrites
<1>4. CASE i.op \notin {"JAL", "BGEZAL", "BLTZAL", "JALR"}
  <2>1. Linked(i) = <<>>
    BY <1>4 DEF Linked
  <2> QED  BY <2>1, NothingWrites
<1> QED  BY <1>3, <1>4

\* An instruction writes words, and only into registers that it may write.
LEMMA ResultWrites ==
  ASSUME NEW i, Decoded(i), RegsTyped(registers)
  PROVE  Writes(Result(i))
<1>1. /\ Writes(Sum(i)) /\ Writes(Logical(i)) /\ Writes(Compared(i)) /\ Writes(Shifted(i))
      /\ Writes(Moved(i)) /\ Writes(Product(i)) /\ Writes(Linked(i))
  BY SumWrites, LogicalWrites, ComparedWrites, ShiftedWrites, MovedWrites, ProductWrites, LinkedWrites
<1>2. Writes(Sum(i) ++ Logical(i))
  BY <1>1, BothWrite
<1>3. Writes(Sum(i) ++ Logical(i) ++ Compared(i))
  BY <1>1, <1>2, BothWrite
<1>4. Writes(Sum(i) ++ Logical(i) ++ Compared(i) ++ Shifted(i))
  BY <1>1, <1>3, BothWrite
<1>5. Writes(Sum(i) ++ Logical(i) ++ Compared(i) ++ Shifted(i) ++ Moved(i))
  BY <1>1, <1>4, BothWrite
<1>6. Writes(Sum(i) ++ Logical(i) ++ Compared(i) ++ Shifted(i) ++ Moved(i) ++ Product(i))
  BY <1>1, <1>5, BothWrite
<1> QED  BY <1>1, <1>6, BothWrite DEF Result

-----------------------------------------------------------------------------
(***************************************************************************)
(* Memory.                                                                 *)
(***************************************************************************)

MemorySize == NumPhysPages * PageSize
MemTyped(memory) == memory \in [0 .. MemorySize - 1 -> 0 .. Byte - 1]

\* What is aligned to a whole number of its size lies within one page.
LEMMA WithinPage ==
  ASSUME NEW vaddr \in Nat, NEW size \in {1, 2, 4}, vaddr % size = 0
  PROVE  vaddr % PageSize \in Nat /\ (vaddr % PageSize) + size <= PageSize
<1>1. PICK k \in Nat : PageSize = 4 * k /\ k > 0
  <2>1. PICK q \in Int, r \in 0 .. 3 : q = PageSize \div 4 /\ r = PageSize % 4 /\ PageSize = 4 * q + r
    BY DivisionExact, MachineAssumption
  <2>2. PageSize = 4 * q /\ q > 0
    BY <2>1, MachineAssumption
  <2> QED  BY <2>2
<1>2. PICK q \in Int, r \in 0 .. PageSize - 1 :
        q = vaddr \div PageSize /\ r = vaddr % PageSize /\ vaddr = PageSize * q + r
  <2>1. PageSize \in Nat \ {0} /\ vaddr \in Int
    BY MachineAssumption
  <2> QED  BY <2>1, DivisionExact
<1>3. PICK z \in Int : z = k * q
  OBVIOUS
<1>4. vaddr = 4 * z + r /\ r < 4 * k /\ r \in Nat
  <2>1. (4 * k) * q = 4 * (k * q)
    BY <1>1
  <2>2. PageSize * q = 4 * z
    BY <2>1, <1>1, <1>3
  <2>3. vaddr = 4 * z + r
    BY <2>2, <1>2
  <2>4. r < 4 * k /\ r \in Nat
    BY <1>1, <1>2
  <2> QED  BY <2>3, <2>4
<1>5. CASE size = 1
  BY <1>1, <1>2, <1>4, <1>5
<1>6. CASE size = 2
  BY <1>1, <1>2, <1>4, <1>6
<1>7. CASE size = 4
  BY <1>1, <1>2, <1>4, <1>7
<1> QED  BY <1>5, <1>6, <1>7

\* An address is translated by the page's entry, which allows it, to a frame of the memory.
LEMMA Translated ==
  ASSUME NEW vaddr \in Nat, NEW size \in {1, 2, 4}, NEW writing \in BOOLEAN,
         Translate(vaddr, size, writing).exception = "NoException"
  PROVE  LET entry == PageTable[(vaddr \div PageSize) + 1]
             address == Translate(vaddr, size, writing).address
         IN /\ address = entry.physicalPage * PageSize + (vaddr % PageSize)
            /\ ~(entry.readOnly /\ writing)
            /\ address \in Nat /\ address + size <= MemorySize
<1> DEFINE vpn == vaddr \div PageSize
           entry == PageTable[vpn + 1]
           t == Translate(vaddr, size, writing)
<1>1. /\ vaddr % size = 0 /\ vpn < Len(PageTable) /\ ~(entry.readOnly /\ writing)
      /\ ~(entry.physicalPage >= NumPhysPages)
      /\ t.address = entry.physicalPage * PageSize + (vaddr % PageSize)
  <2>1. \A kind : Fault(kind).exception = kind
    BY DEF Fault
  <2>2. \A x : [exception |-> "NoException", address |-> x].address = x
    OBVIOUS
  <2>3. t = IF vaddr % size # 0 THEN Fault("AddressError")
            ELSE IF vpn >= Len(PageTable) THEN Fault("AddressError")
            ELSE IF ~entry.valid THEN Fault("PageFault")
            ELSE IF entry.readOnly /\ writing THEN Fault("ReadOnly")
            ELSE IF entry.physicalPage >= NumPhysPages THEN Fault("BusError")
            ELSE [exception |-> "NoException",
                  address |-> entry.physicalPage * PageSize + (vaddr % PageSize)]
    BY DEF Translate
  <2>4. t.exception = "NoException"
    OBVIOUS
  <2> HIDE DEF t, entry, vpn
  <2>5. vaddr % size = 0
    BY <2>1, <2>3, <2>4
  <2>6. ~(vpn >= Len(PageTable))
    BY <2>1, <2>3, <2>4, <2>5
  <2>7. ~(entry.readOnly /\ writing)
    BY <2>1, <2>3, <2>4, <2>5, <2>6
  <2>8. ~(entry.physicalPage >= NumPhysPages)
    BY <2>1, <2>3, <2>4, <2>5, <2>6, <2>7
  <2>9. entry.valid
    BY <2>1, <2>3, <2>4, <2>5, <2>6
  <2>10. t.address = entry.physicalPage * PageSize + (vaddr % PageSize)
    BY <2>3, <2>2, <2>5, <2>6, <2>7, <2>8, <2>9
  <2>11. vpn < Len(PageTable)
    <3>1. vpn \in Int /\ Len(PageTable) \in Int
      BY MachineAssumption DEF vpn
    <3> QED  BY <2>6, <3>1
  <2> QED  BY <2>5, <2>7, <2>8, <2>10, <2>11
<1>2. PageSize \in Nat \ {0} /\ NumPhysPages \in Nat
  BY MachineAssumption
<1>3. vpn \in Nat
  BY <1>2
<1>4. entry.physicalPage \in Nat
  <2>1. vpn + 1 \in 1 .. Len(PageTable)
    BY <1>1, <1>3, MachineAssumption
  <2>2. entry \in [valid : BOOLEAN, readOnly : BOOLEAN, physicalPage : Nat]
    <3>1. PageTable \in Seq([valid : BOOLEAN, readOnly : BOOLEAN, physicalPage : Nat])
      BY MachineAssumption
    <3>2. \A S : \A s \in Seq(S) : \A n \in 1 .. Len(s) : s[n] \in S
      OBVIOUS
    <3> QED  BY <2>1, <3>1, <3>2, Zenon
  <2> QED  BY <2>2
<1>5. PICK frame \in Nat : frame = entry.physicalPage /\ frame + 1 <= NumPhysPages
  BY <1>1, <1>2, <1>4
<1>6. vaddr % PageSize \in Nat /\ (vaddr % PageSize) + size <= PageSize
  BY <1>1, WithinPage
<1>7. PICK offset \in Nat : offset = vaddr % PageSize /\ offset + size <= PageSize
  BY <1>6
<1>8. frame * PageSize \in Nat /\ frame * PageSize + PageSize <= NumPhysPages * PageSize
  <2>1. (frame + 1) * PageSize <= NumPhysPages * PageSize
    BY <1>2, <1>5
  <2>2. (frame + 1) * PageSize = frame * PageSize + PageSize /\ frame * PageSize \in Nat
    BY <1>2
  <2> QED  BY <2>1, <2>2
<1>9. t.address = frame * PageSize + offset
  BY <1>1, <1>5, <1>7
<1>10. NumPhysPages * PageSize \in Nat
  BY <1>2
<1>11. t.address \in Nat /\ t.address + size <= MemorySize
  <2>1. \A x, o, p, m \in Nat : x + p <= m /\ o + size <= p => x + o \in Nat /\ (x + o) + size <= m
    OBVIOUS
  <2>2. /\ frame * PageSize + offset \in Nat
        /\ (frame * PageSize + offset) + size <= NumPhysPages * PageSize
    BY <2>1, <1>2, <1>7, <1>8, <1>10
  <2> QED  BY <2>2, <1>9 DEF MemorySize
<1> QED  BY <1>1, <1>11

\* What Fetch adds up, for a byte, two and four.
LEMMA FetchSum ==
  ASSUME NEW memory, MemTyped(memory), NEW address \in Nat, NEW size \in {1, 2, 4},
         address + size <= MemorySize
  PROVE  LET byte(n) == memory[address + n]
         IN Fetch(memory, address, size) =
              IF size = 1 THEN byte(0)
              ELSE IF size = 2 THEN byte(0) + Byte * byte(1)
              ELSE byte(0) + Byte * (byte(1) + Byte * (byte(2) + Byte * byte(3)))
<1> DEFINE byte(n) == memory[address + n]
           at(n) == memory[address + size - n]
           Body(f) == [n \in 0 .. size |-> IF n = 0 THEN 0 ELSE at(n) + Byte * f[n - 1]]
           step == [n \in 1 .. size |-> [v \in Nat |-> at(n) + Byte * v]]
           sum == CHOOSE f : f = Body(f)
<1>1. Byte \in Nat /\ size \in Nat
  BY WordPowers
<1>2. \A n \in 0 .. size - 1 : byte(n) \in Nat
  <2> SUFFICES ASSUME NEW n \in 0 .. size - 1 PROVE byte(n) \in Nat
    OBVIOUS
  <2>1. MemorySize \in Nat
    BY MachineAssumption DEF MemorySize
  <2>2. address + n \in 0 .. MemorySize - 1
    BY <1>1, <2>1
  <2>3. byte(n) \in 0 .. Byte - 1
    BY <2>2 DEF MemTyped
  <2> QED  BY <2>3, <1>1
<1>3. \A n \in 1 .. size : at(n) = byte(size - n) /\ at(n) \in Nat
  <2> SUFFICES ASSUME NEW n \in 1 .. size PROVE at(n) = byte(size - n) /\ at(n) \in Nat
    OBVIOUS
  <2>1. size - n \in 0 .. size - 1 /\ address + size - n = address + (size - n)
    BY <1>1
  <2>2. at(n) = byte(size - n)
    BY <2>1
  <2>3. byte(size - n) \in Nat
    BY <2>1, <1>2
  <2> QED  BY <2>2, <2>3
<1> HIDE DEF byte, at
<1>4. step \in [1 .. size -> [Nat -> Nat]]
  <2>1. \A n \in 1 .. size, v \in Nat : at(n) + Byte * v \in Nat
    BY <1>1, <1>3
  <2> QED  BY <2>1
<1>5. \A n \in 1 .. size : \A v \in Nat : step[n][v] = at(n) + Byte * v
  OBVIOUS
<1>6. PICK f \in [0 .. size -> Nat] : f[0] = 0 /\ \A n \in 1 .. size : f[n] = step[n][f[n - 1]]
  <2> HIDE DEF step
  <2>1. Reaches(size, Nat, 0, step)
    BY <1>1, <1>4, PrimitiveRecursion
  <2> QED  BY <2>1 DEF Reaches
<1> HIDE DEF step
<1>7. \A n \in 1 .. size : f[n] = at(n) + Byte * f[n - 1]
  <2> SUFFICES ASSUME NEW n \in 1 .. size PROVE f[n] = at(n) + Byte * f[n - 1]
    OBVIOUS
  <2>1. n - 1 \in 0 .. size
    BY <1>1
  <2>2. f[n - 1] \in Nat
    BY <2>1, <1>6
  <2> QED  BY <2>2, <1>5, <1>6
<1>8. f = Body(f)
  <2>1. \A n \in 0 .. size : f[n] = IF n = 0 THEN 0 ELSE at(n) + Byte * f[n - 1]
    BY <1>1, <1>6, <1>7
  <2> QED  BY <2>1, <1>6
<1>9. sum = Body(sum)
  <2> HIDE DEF Body
  <2> QED  BY <1>8, Zenon
<1>10. Fetch(memory, address, size) = sum[size]
  BY Zenon DEF Fetch, at
<1> HIDE DEF sum
<1>11. sum[0] = 0 /\ \A n \in 1 .. size : sum[n] = at(n) + Byte * sum[n - 1]
  <2>1. 0 \in 0 .. size /\ \A n \in 1 .. size : n \in 0 .. size /\ n # 0
    BY <1>1
  <2> QED  BY <1>9, <2>1
<1>12. CASE size = 1
  <2>1. sum[1] = byte(0) + Byte * 0
    BY <1>3, <1>11, <1>12
  <2>2. Byte * 0 = 0 /\ byte(0) \in Nat
    BY <1>1, <1>2, <1>12
  <2>3. sum[1] = byte(0)
    BY <2>1, <2>2
  <2> QED  BY <2>3, <1>10, <1>12 DEF byte
<1>13. CASE size = 2
  <2>1. sum[1] = byte(1) + Byte * 0 /\ sum[2] = byte(0) + Byte * sum[1]
    BY <1>3, <1>11, <1>13
  <2>2. Byte * 0 = 0 /\ byte(1) \in Nat
    BY <1>1, <1>2, <1>13
  <2>3. sum[1] = byte(1)
    BY <2>1, <2>2
  <2>4. sum[2] = byte(0) + Byte * byte(1)
    BY <2>1, <2>3
  <2> QED  BY <2>4, <1>10, <1>13 DEF byte
<1>14. CASE size = 4
  <2>1. /\ sum[1] = byte(3) + Byte * 0 /\ sum[2] = byte(2) + Byte * sum[1]
        /\ sum[3] = byte(1) + Byte * sum[2] /\ sum[4] = byte(0) + Byte * sum[3]
    BY <1>3, <1>11, <1>14
  <2>2. Byte * 0 = 0 /\ byte(3) \in Nat
    BY <1>1, <1>2, <1>14
  <2>3. sum[1] = byte(3)
    BY <2>1, <2>2
  <2>4. sum[4] = byte(0) + Byte * (byte(1) + Byte * (byte(2) + Byte * byte(3)))
    BY <2>1, <2>3
  <2> QED  BY <2>4, <1>10, <1>14 DEF byte
<1> QED  BY <1>12, <1>13, <1>14

\* What size bytes hold is less than they count up to.
LEMMA FetchBound ==
  ASSUME NEW memory, MemTyped(memory), NEW address \in Nat, NEW size \in {1, 2, 4},
         address + size <= MemorySize
  PROVE  Fetch(memory, address, size) \in 0 .. Bytes(size) - 1
<1> DEFINE byte(n) == memory[address + n]
<1>1. Byte \in Nat \ {0}
  BY WordPowers
<1>2. \A n \in 0 .. size - 1 : byte(n) \in 0 .. Byte - 1
  <2> SUFFICES ASSUME NEW n \in 0 .. size - 1 PROVE byte(n) \in 0 .. Byte - 1
    OBVIOUS
  <2>1. MemorySize \in Nat
    BY MachineAssumption DEF MemorySize
  <2>2. address + n \in 0 .. MemorySize - 1
    BY <2>1
  <2> QED  BY <2>2 DEF MemTyped
<1>3. \A m \in Nat : \A x \in 0 .. Byte - 1, y \in 0 .. m - 1 : x + Byte * y \in 0 .. (Byte * m) - 1
  <2> SUFFICES ASSUME NEW m \in Nat, NEW x \in 0 .. Byte - 1, NEW y \in 0 .. m - 1
               PROVE  x + Byte * y \in 0 .. (Byte * m) - 1
    OBVIOUS
  <2>1. Byte * (y + 1) <= Byte * m
    BY <1>1
  <2>2. Byte * (y + 1) = Byte * y + Byte /\ Byte * y \in Nat /\ Byte * m \in Nat
    BY <1>1
  <2> QED  BY <1>1, <2>1, <2>2
<1>4. /\ Bytes(1) = Byte /\ Bytes(2) = Byte * Byte /\ Bytes(4) = Byte * (Byte * (Byte * Byte))
      /\ Byte * Byte \in Nat /\ Byte * (Byte * Byte) \in Nat
  <2>1. Bytes(2) = Byte * Byte /\ Bytes(4) = Byte * Bytes(3) /\ Bytes(3) = Byte * Half
    BY WordPowers DEF Half, WordBits, Bytes
  <2>2. Half = Byte * Byte
    BY WordPowers
  <2>3. Byte * Byte \in Nat /\ Byte * (Byte * Byte) \in Nat
    BY <1>1
  <2> QED  BY <2>1, <2>2, <2>3 DEF Byte
<1> HIDE DEF byte
<1>5. Fetch(memory, address, size) =
        IF size = 1 THEN byte(0)
        ELSE IF size = 2 THEN byte(0) + Byte * byte(1)
        ELSE byte(0) + Byte * (byte(1) + Byte * (byte(2) + Byte * byte(3)))
  BY FetchSum, Zenon DEF byte
<1>6. CASE size = 1
  BY <1>2, <1>4, <1>5, <1>6
<1>7. CASE size = 2
  <2>1. byte(0) \in 0 .. Byte - 1 /\ byte(1) \in 0 .. Byte - 1
    BY <1>2, <1>7
  <2>2. byte(0) + Byte * byte(1) \in 0 .. (Byte * Byte) - 1
    BY <1>1, <1>3, <2>1
  <2> QED  BY <1>4, <1>5, <1>7, <2>2
<1>8. CASE size = 4
  <2>1. /\ byte(0) \in 0 .. Byte - 1 /\ byte(1) \in 0 .. Byte - 1
        /\ byte(2) \in 0 .. Byte - 1 /\ byte(3) \in 0 .. Byte - 1
    BY <1>2, <1>8
  <2>2. byte(2) + Byte * byte(3) \in 0 .. (Byte * Byte) - 1
    BY <1>1, <1>3, <2>1
  <2>3. byte(1) + Byte * (byte(2) + Byte * byte(3)) \in 0 .. (Byte * (Byte * Byte)) - 1
    BY <1>3, <1>4, <2>1, <2>2
  <2>4. byte(0) + Byte * (byte(1) + Byte * (byte(2) + Byte * byte(3)))
          \in 0 .. (Byte * (Byte * (Byte * Byte))) - 1
    BY <1>3, <1>4, <2>1, <2>3
  <2> QED  BY <1>4, <1>5, <1>8, <2>4
<1> QED  BY <1>6, <1>7, <1>8

\* A store or a load is of one, two or four bytes.
LEMMA SizeFacts ==
  ASSUME NEW op
  PROVE  /\ Size(op) \in {1, 2, 4}
         /\ op = "LB" => Size(op) = 1
         /\ op = "LH" => Size(op) = 2
         /\ op \in {"SW", "LW", "LWL", "LWR", "SWL", "SWR"} => Size(op) = 4
BY DEF Size

\* What a load brings is a word.
LEMMA LoadedIsValue ==
  ASSUME NEW i, Decoded(i), i.op \in Loads, RegsTyped(registers),
         NEW value \in 0 .. Bytes(Size(i.op)) - 1
  PROVE  Loaded(i, value) \in Values
<1> DEFINE old == IF registers[LoadReg] = i.rt THEN registers[LoadValueReg] ELSE registers[i.rt]
<1>1. Size(i.op) \in {1, 2, 4}
  BY SizeFacts
<1>2. /\ Bytes(1) = Byte /\ Bytes(2) = Half /\ Bytes(4) = 2^WordBits
      /\ Byte \in Nat \ {0} /\ Half \in Nat /\ 2^WordBits \in Nat
      /\ Byte <= 2^WordBits /\ Half <= 2^WordBits
  <2>1. Bytes(1) = Byte /\ Bytes(2) = Half /\ Bytes(4) = 2^WordBits
    BY DEF Byte, Half, Bytes, WordBits
  <2>2. Byte \in Nat \ {0} /\ Half \in Nat /\ Half # 0 /\ Bytes(3) \in Nat \ {0}
    BY WordPowers
  <2>3. 2^WordBits \in Nat /\ 2^WordBits = Byte * Bytes(3) /\ 2^WordBits = Half * Half
    BY WordPowers
  <2>4. \A x \in Nat, y \in Nat \ {0} : x <= x * y
    OBVIOUS
  <2>5. Byte <= Byte * Bytes(3) /\ Half <= Half * Half
    BY <2>2, <2>4
  <2> QED  BY <2>1, <2>2, <2>3, <2>5
<1>3. value \in Values /\ value \in Nat
  <2>1. Bytes(Size(i.op)) \in Nat /\ Bytes(Size(i.op)) <= 2^WordBits
    BY <1>1, <1>2
  <2> QED  BY <2>1, <1>2 DEF Values
<1>4. CASE i.op = "LB"
  <2>1. value < Byte
    BY <1>2, <1>4, SizeFacts
  <2>2. Loaded(i, value) = Extend(value, Byte)
    BY <1>4 DEF Loaded
  <2> QED  BY <2>1, <2>2, <1>2, <1>3, ExtendIsValue
<1>5. CASE i.op = "LH"
  <2>1. value < Half
    BY <1>2, <1>5, SizeFacts
  <2>2. Loaded(i, value) = Extend(value, Half)
    BY <1>5 DEF Loaded
  <2> QED  BY <2>1, <2>2, <1>2, <1>3, ExtendIsValue
<1>6. CASE i.op = "LWR"
  <2>1. old \in Values
    <3>1. i.rt \in Regs \ {LoadReg} /\ LoadValueReg \in Regs \ {LoadReg}
      BY <1>6, RegisterNumbers DEF Decoded, BranchOps
    <3> QED  BY <3>1 DEF RegsTyped
  <2>2. Loaded(i, value) = (old \div Byte) * Byte + (value \div Bytes(3))
    BY <1>6, Zenon DEF Loaded
  <2> HIDE DEF old
  <2>3. PICK b3 \in Nat \ {0} : b3 = Bytes(3) /\ 2^WordBits = Byte * b3
    BY WordPowers
  <2>4. old \in Nat /\ old < Byte * b3 /\ value < Byte * b3
    <3>1. 2^WordBits \in Nat
      BY <1>2
    <3> QED  BY <3>1, <2>1, <2>3, <1>3 DEF Values
  <2>5. PICK q \in Int, r \in 0 .. Byte - 1 : q = old \div Byte /\ r = old % Byte /\ old = Byte * q + r
    BY <1>2, <2>4, DivisionExact
  <2>6. PICK t \in Int, u \in 0 .. b3 - 1 : t = value \div b3 /\ u = value % b3 /\ value = b3 * t + u
    BY <1>3, DivisionExact
  <2>7. q >= 0 /\ q + 1 <= b3
    <3>1. CASE q <= -1
      <4>1. Byte * q <= -Byte
        BY <3>1, <1>2
      <4> QED  BY <4>1, <2>4, <2>5, <1>2
    <3>2. CASE q >= b3
      <4>1. Byte * q >= Byte * b3
        BY <3>2, <1>2
      <4> QED  BY <4>1, <2>4, <2>5, <1>2
    <3> QED  BY <3>1, <3>2
  <2>8. t >= 0 /\ t + 1 <= Byte
    <3>1. CASE t <= -1
      <4>1. b3 * t <= -b3
        BY <3>1
      <4> QED  BY <4>1, <1>3, <2>6
    <3>2. CASE t >= Byte
      <4>1. b3 * t >= b3 * Byte
        BY <3>2, <1>2
      <4>2. b3 * Byte = Byte * b3
        BY <1>2
      <4> QED  BY <4>1, <4>2, <1>2, <2>4, <2>6
    <3> QED  BY <3>1, <3>2, <1>2
  <2>9. q * Byte + t \in 0 .. (Byte * b3) - 1
    <3>1. (q + 1) * Byte <= b3 * Byte
      BY <2>7, <1>2
    <3>2. (q + 1) * Byte = q * Byte + Byte /\ b3 * Byte = Byte * b3 /\ q * Byte \in Nat
      BY <2>7, <1>2
    <3> QED  BY <3>1, <3>2, <2>8, <1>2
  <2>10. Loaded(i, value) = q * Byte + t
    BY <2>2, <2>3, <2>5, <2>6
  <2> QED  BY <2>9, <2>10, <2>3 DEF Values
<1>7. CASE i.op \notin {"LB", "LH", "LWR"}
  <2>1. Loaded(i, value) = value
    BY <1>7 DEF Loaded
  <2> QED  BY <2>1, <1>3
<1> QED  BY <1>4, <1>5, <1>6, <1>7

\* Memory consists of bytes after a store.
LEMMA StoreTyped ==
  ASSUME MemTyped(mainMemory), NEW address \in Nat, NEW size \in {1, 2, 4}, NEW value \in Int
  PROVE  MemTyped(Store(address, size, value))
<1>1. Byte \in Nat \ {0} /\ ByteBits \in Nat
  BY WordPowers, MachineAssumption
<1>2. \A m \in address .. address + size - 1 : (value \div Bytes(m - address)) % Byte \in 0 .. Byte - 1
  <2> SUFFICES ASSUME NEW m \in address .. address + size - 1
               PROVE  (value \div Bytes(m - address)) % Byte \in 0 .. Byte - 1
    OBVIOUS
  <2>1. (m - address) * ByteBits \in Nat
    BY <1>1
  <2>2. PICK p \in Nat \ {0} : p = Bytes(m - address)
    BY <2>1, PowerPositive DEF Bytes
  <2>3. value \div p \in Int
    OBVIOUS
  <2>4. \A x \in Int : x % Byte \in 0 .. Byte - 1
    BY <1>1
  <2> QED  BY <2>2, <2>3, <2>4
<1>3. DOMAIN mainMemory = 0 .. MemorySize - 1 /\ \A m \in DOMAIN mainMemory : mainMemory[m] \in 0 .. Byte - 1
  BY DEF MemTyped
<1> QED  BY <1>2, <1>3 DEF MemTyped, Store

\* What a store takes is a number.
LEMMA StoredIsInt ==
  ASSUME NEW i, Decoded(i), i.op \in Stores, RegsTyped(registers), NEW value \in Int
  PROVE  Stored(i, value) \in Int
<1>1. registers[i.rt] \in Int
  BY RegisterNumbers DEF Decoded, BranchOps, Stores, RegsTyped
<1>2. /\ Bytes(3) \in Nat \ {0} /\ Byte \in Nat \ {0} /\ Bytes(Size(i.op)) \in Nat \ {0}
  <2>1. \A n \in {1, 2, 3, 4} : n * ByteBits \in Nat
    BY MachineAssumption
  <2>2. \A n \in {1, 2, 3, 4} : Bytes(n) \in Nat \ {0}
    BY <2>1, PowerPositive DEF Bytes
  <2> QED  BY <2>2, SizeFacts DEF Byte
<1>3. \A x \in Int, d \in Nat \ {0} : x % d \in Int
  OBVIOUS
<1>4. registers[i.rt] % Byte \in Int /\ value % Bytes(3) \in Int /\ registers[i.rt] % Bytes(Size(i.op)) \in Int
  BY <1>1, <1>2, <1>3
<1>5. (registers[i.rt] % Byte) * Bytes(3) \in Int
  BY <1>2, <1>4
<1>6. (value % Bytes(3)) + (registers[i.rt] % Byte) * Bytes(3) \in Int
  BY <1>4, <1>5
<1> QED  BY <1>4, <1>6 DEF Stored

-----------------------------------------------------------------------------
(***************************************************************************)
(* One instruction.                                                        *)
(***************************************************************************)

\* Between two instructions: registers and memory hold what they can.
MachInv == RegsTyped(registers) /\ MemTyped(mainMemory)

\* DelayedLoad: the load that was pending has arrived, R0 is zero, and the rest is as it was.
LEMMA DelayedLoadFacts ==
  ASSUME NEW regs, RegsTyped(regs), NEW nextReg \in General, NEW nextValue \in Values
  PROVE  LET done == DelayedLoad(regs, nextReg, nextValue)
         IN /\ RegsTyped(done) /\ done[0] = 0
            /\ regs[LoadReg] # 0 => done[regs[LoadReg]] = regs[LoadValueReg]
            /\ \A r \in Regs \ {0, LoadReg, LoadValueReg} : r # regs[LoadReg] => done[r] = regs[r]
<1> DEFINE done == DelayedLoad(regs, nextReg, nextValue)
           dest == regs[LoadReg]
<1>1. /\ regs \in [Regs -> Nat] /\ dest \in General
      /\ \A r \in Regs \ {LoadReg} : regs[r] \in Values
  BY DEF RegsTyped
<1>2. /\ General \subseteq Regs /\ 0 \in Regs /\ LoadReg \in Regs /\ LoadValueReg \in Regs
      /\ dest # LoadReg /\ dest # LoadValueReg /\ LoadReg # LoadValueReg
      /\ LoadReg # 0 /\ LoadValueReg # 0
  BY <1>1, RegisterNumbers
<1>3. done = [[[[regs EXCEPT ![dest] = regs[LoadValueReg]] EXCEPT ![LoadReg] = nextReg]
                 EXCEPT ![LoadValueReg] = nextValue] EXCEPT ![0] = 0]
  BY DEF DelayedLoad
<1> HIDE DEF done, dest
<1>4. done[0] = 0 /\ (dest # 0 => done[dest] = regs[LoadValueReg]) /\ done[LoadReg] = nextReg
  BY <1>1, <1>2, <1>3
<1>5. \A r \in Regs \ {0, LoadReg, LoadValueReg} : r # dest => done[r] = regs[r]
  BY <1>1, <1>2, <1>3
<1>6. done[LoadValueReg] = nextValue
  BY <1>1, <1>2, <1>3
<1>7. DOMAIN done = Regs
  BY <1>1, <1>3
<1>8. \A r \in Regs \ {LoadReg} : done[r] \in Values
  <2> SUFFICES ASSUME NEW r \in Regs \ {LoadReg} PROVE done[r] \in Values
    OBVIOUS
  <2>1. CASE r = 0
    BY <1>4, <2>1, FlagIsValue
  <2>2. CASE r = LoadValueReg
    BY <1>6, <2>2
  <2>3. CASE r = dest /\ r # 0
    BY <1>1, <1>2, <1>4, <2>3
  <2>4. CASE r \notin {0, LoadValueReg, dest}
    BY <1>1, <1>5, <2>4
  <2> QED  BY <2>1, <2>2, <2>3, <2>4
<1>9. done \in [Regs -> Nat]
  <2>1. \A r \in Regs : done[r] \in Nat
    <3> SUFFICES ASSUME NEW r \in Regs PROVE done[r] \in Nat
      OBVIOUS
    <3>1. CASE r = LoadReg
      BY <1>4, <3>1 DEF General
    <3>2. CASE r # LoadReg
      BY <1>8, <3>2 DEF Values
    <3> QED  BY <3>1, <3>2
  <2>2. done = [r \in Regs |-> done[r]]
    BY <1>3, <1>1
  <2> QED  BY <2>1, <2>2
<1> QED  BY <1>4, <1>5, <1>8, <1>9 DEF RegsTyped, done, dest

\* A register that is not LoadReg may get any word.
LEMMA RegisterSet ==
  ASSUME NEW regs, RegsTyped(regs), NEW r \in Regs \ {LoadReg}, NEW v \in Values
  PROVE  RegsTyped([regs EXCEPT ![r] = v])
<1>1. v \in Nat
  BY DEF Values
<1> QED  BY <1>1 DEF RegsTyped

\* With what an instruction writes, the registers are still registers, those it may not write as they were.
LEMMA ResultsLaid ==
  ASSUME NEW f, Writes(f), RegsTyped(registers)
  PROVE  RegsTyped(f ++ registers) /\ \A r \in Regs \ Writable : (f ++ registers)[r] = registers[r]
<1>1. DOMAIN f \subseteq Regs /\ LoadReg \in Regs \ Writable /\ Writable \subseteq Regs
  BY RegisterNumbers DEF Writes
<1>2. registers \in [Regs -> Nat] /\ \A r \in Regs \ {LoadReg} : registers[r] \in Values
  BY DEF RegsTyped
<1>3. \A r \in DOMAIN f : f[r] \in Values /\ r \in Writable
  BY DEF Writes
<1> DEFINE g == f ++ registers
<1>4. g = [r \in Regs |-> IF r \in DOMAIN f THEN f[r] ELSE registers[r]]
  <2>1. DOMAIN f \cup DOMAIN registers = Regs
    BY <1>1, <1>2
  <2> QED  BY <2>1 DEF ++
<1> HIDE DEF g
<1>5. \A r \in Regs \ Writable : g[r] = registers[r]
  BY <1>3, <1>4
<1>6. \A r \in Regs \ {LoadReg} : g[r] \in Values
  BY <1>2, <1>3, <1>4
<1>7. g[LoadReg] \in General
  <2>1. registers[LoadReg] \in General
    BY DEF RegsTyped
  <2> QED  BY <1>1, <1>5, <2>1
<1>8. g \in [Regs -> Nat]
  <2>1. Values \subseteq Nat
    BY DEF Values
  <2> QED  BY <1>2, <1>3, <1>4, <2>1
<1> QED  BY <1>5, <1>6, <1>7, <1>8 DEF RegsTyped, g

\* The pc after the next is a word.
LEMMA PcIsValue ==
  ASSUME NEW i, Decoded(i), NEW regs, RegsTyped(regs)
  PROVE  PcAfter(i, regs) \in Values
<1> DEFINE after == Word(regs[NextPCReg] + 4)
           page == 2^(WordBits - 4)
           jump == (after \div page) * page + 4 * i.extra
<1>1. regs[NextPCReg] \in Nat
  BY RegisterNumbers DEF RegsTyped
<1>2. i.extra \in Nat
  BY DEF Decoded
<1>3. after \in Values /\ Word(regs[NextPCReg] + 4 * i.extra) \in Values
  <2>1. regs[NextPCReg] + 4 \in Int /\ regs[NextPCReg] + 4 * i.extra \in Int
    BY <1>1, <1>2
  <2> QED  BY <2>1, WordIsValue
<1>4. regs[i.rs] \in Values
  BY RegisterNumbers DEF Decoded, RegsTyped
<1>5. PcAfter(i, regs) = CASE i.op \in {"J", "JAL"} -> jump
                           [] i.op \in {"JR", "JALR"} -> regs[i.rs]
                           [] Taken(i, regs) -> Word(regs[NextPCReg] + 4 * i.extra)
                           [] OTHER -> after
  BY DEF PcAfter
<1> HIDE DEF after, jump
<1>6. CASE i.op \in {"J", "JAL"}
  <2>1. PICK p \in Nat \ {0} : p = page /\ 2^WordBits = 16 * p
    BY WordPowers
  <2>2. 4 * i.extra < p /\ 4 * i.extra \in Nat
    <3>1. i.extra < 2^(WordBits - 6) /\ 2^(WordBits - 6) \in Nat /\ p = 4 * 2^(WordBits - 6)
      BY <1>6, <2>1, WordPowers DEF Decoded
    <3> QED  BY <1>2, <3>1
  <2>3. after \in Nat /\ after < 16 * p
    BY <1>3, <2>1 DEF Values
  <2>4. PICK q \in Int, r \in 0 .. p - 1 : q = after \div p /\ r = after % p /\ after = p * q + r
    BY <2>3, DivisionExact
  <2>5. q >= 0 /\ q <= 15
    <3>1. CASE q <= -1
      <4>1. p * q <= -p
        BY <3>1
      <4> QED  BY <4>1, <2>3, <2>4
    <3>2. CASE q >= 16
      <4>1. p * q >= p * 16
        BY <3>2
      <4> QED  BY <4>1, <2>3, <2>4
    <3> QED  BY <3>1, <3>2
  <2>6. q * p <= 15 * p /\ q * p \in Nat
    BY <2>5
  <2>7. q * p + 4 * i.extra \in 0 .. (16 * p) - 1
    BY <2>2, <2>6
  <2>8. PcAfter(i, regs) = (after \div page) * page + 4 * i.extra
    <3>1. ~Taken(i, regs)
      BY <1>6 DEF Taken
    <3>2. PcAfter(i, regs) = jump
      BY <1>5, <1>6, <3>1
    <3> QED  BY <3>2 DEF jump
  <2>9. PcAfter(i, regs) = q * p + 4 * i.extra
    BY <2>1, <2>4, <2>8
  <2> QED  BY <2>1, <2>7, <2>9 DEF Values
<1>7. CASE i.op \notin {"J", "JAL"}
  BY <1>3, <1>4, <1>5, <1>7
<1> QED  BY <1>6, <1>7

\* The load before last has arrived, and R0 is zero.
Arrived ==
  /\ registers'[0] = 0
  /\ registers[LoadReg] # 0 => registers'[registers[LoadReg]] = registers[LoadValueReg]

\* Nothing else has happened.
Undone ==
  /\ mainMemory' = mainMemory
  /\ \A r \in 1 .. PrevPCReg : r = registers[LoadReg] \/ registers'[r] = registers[r]

\* An exception leaves the instruction undone, but for the load that arrives.
LEMMA RaiseStep ==
  ASSUME MachInv, NEW which, NEW badVAddr \in Values, RaiseException(which, badVAddr)
  PROVE  RegsTyped(registers') /\ Arrived /\ Undone /\ exception' = which
<1> DEFINE regs == [registers EXCEPT ![BadVAddrReg] = badVAddr]
<1>1. registers' = DelayedLoad(regs, 0, 0) /\ mainMemory' = mainMemory /\ exception' = which
  BY DEF RaiseException
<1>2. /\ RegsTyped(regs) /\ regs[LoadReg] = registers[LoadReg]
      /\ regs[LoadValueReg] = registers[LoadValueReg]
      /\ \A r \in Regs : r # BadVAddrReg => regs[r] = registers[r]
  <2>1. RegsTyped(registers)
    BY DEF MachInv
  <2>2. BadVAddrReg \in Regs \ {LoadReg} /\ LoadReg \in Regs /\ LoadValueReg \in Regs /\ LoadValueReg # BadVAddrReg
    BY RegisterNumbers
  <2>3. RegsTyped(regs)
    BY <2>1, <2>2, RegisterSet
  <2>4. \A r \in Regs : r # BadVAddrReg => regs[r] = registers[r]
    BY <2>1 DEF RegsTyped
  <2> QED  BY <2>2, <2>3, <2>4
<1> HIDE DEF regs
<1>3. 0 \in General /\ 0 \in Values
  BY RegisterNumbers, FlagIsValue
<1>4. /\ RegsTyped(registers') /\ registers'[0] = 0
      /\ regs[LoadReg] # 0 => registers'[regs[LoadReg]] = regs[LoadValueReg]
      /\ \A r \in Regs \ {0, LoadReg, LoadValueReg} : r # regs[LoadReg] => registers'[r] = regs[r]
  BY <1>1, <1>2, <1>3, DelayedLoadFacts
<1>5. \A r \in 1 .. PrevPCReg : r = registers[LoadReg] \/ registers'[r] = registers[r]
  <2> SUFFICES ASSUME NEW r \in 1 .. PrevPCReg, r # registers[LoadReg]
               PROVE  registers'[r] = registers[r]
    OBVIOUS
  <2>1. r \in Regs \ {0, LoadReg, LoadValueReg} /\ r # BadVAddrReg
    BY RegisterNumbers
  <2> QED  BY <1>2, <1>4, <2>1
<1> QED  BY <1>1, <1>2, <1>4, <1>5 DEF Arrived, Undone

\* An instruction that ends well, from the registers with what it has written.
LEMMA AdvanceStep ==
  ASSUME NEW i, Decoded(i), NEW regs, RegsTyped(regs), NEW nextReg \in General, NEW nextValue \in Values,
         regs[LoadReg] = registers[LoadReg], regs[LoadValueReg] = registers[LoadValueReg],
         Advance(regs, i, nextReg, nextValue)
  PROVE  /\ RegsTyped(registers') /\ Arrived /\ exception' = "NoException"
         /\ \A r \in {HiReg, LoReg} : registers'[r] = regs[r]
<1> DEFINE done == DelayedLoad(regs, nextReg, nextValue)
           one == [done EXCEPT ![PrevPCReg] = done[PCReg]]
           two == [one EXCEPT ![PCReg] = done[NextPCReg]]
           three == [two EXCEPT ![NextPCReg] = PcAfter(i, regs)]
<1>1. exception' = "NoException" /\ registers' = three
  BY DEF Advance
<1>2. /\ RegsTyped(done) /\ done[0] = 0
      /\ regs[LoadReg] # 0 => done[regs[LoadReg]] = regs[LoadValueReg]
      /\ \A r \in Regs \ {0, LoadReg, LoadValueReg} : r # regs[LoadReg] => done[r] = regs[r]
  BY DelayedLoadFacts
<1>3. PcAfter(i, regs) \in Values
  BY PcIsValue
<1> HIDE DEF done
<1>4. /\ PrevPCReg \in Regs \ {LoadReg} /\ PCReg \in Regs \ {LoadReg} /\ NextPCReg \in Regs \ {LoadReg}
      /\ {PrevPCReg, PCReg, NextPCReg} \cap General = {} /\ 0 \in General
      /\ {HiReg, LoReg} \subseteq Regs \ {0, LoadReg, LoadValueReg, PrevPCReg, PCReg, NextPCReg}
      /\ {HiReg, LoReg} \cap General = {} /\ General \subseteq Regs
  BY RegisterNumbers DEF Writable
<1>5. RegsTyped(one)
  <2>1. done[PCReg] \in Values
    BY <1>2, <1>4 DEF RegsTyped
  <2> QED  BY <1>2, <1>4, <2>1, RegisterSet
<1>6. RegsTyped(two)
  <2>1. done[NextPCReg] \in Values
    BY <1>2, <1>4 DEF RegsTyped
  <2> HIDE DEF one
  <2> QED  BY <1>4, <1>5, <2>1, RegisterSet
<1>7. RegsTyped(three)
  <2> HIDE DEF two
  <2> QED  BY <1>3, <1>4, <1>6, RegisterSet
<1>8. \A r \in Regs \ {PrevPCReg, PCReg, NextPCReg} : three[r] = done[r]
  <2>1. DOMAIN done = Regs
    BY <1>2 DEF RegsTyped
  <2> QED  BY <2>1
<1>9. registers[LoadReg] \in General /\ regs[LoadReg] \in General
  BY DEF RegsTyped
<1> HIDE DEF three
<1>10. registers'[0] = 0
  BY <1>1, <1>2, <1>4, <1>8
<1>11. registers[LoadReg] # 0 => registers'[registers[LoadReg]] = registers[LoadValueReg]
  BY <1>1, <1>2, <1>4, <1>8, <1>9
<1>12. \A r \in {HiReg, LoReg} : registers'[r] = regs[r]
  BY <1>1, <1>2, <1>4, <1>8, <1>9
<1> QED  BY <1>1, <1>7, <1>10, <1>11, <1>12 DEF Arrived

\* The address of a load or a store is a word.
LEMMA AddressIsValue ==
  ASSUME NEW i, Decoded(i), RegsTyped(registers)
  PROVE  Address(i) \in Values /\ Address(i) \in Nat
<1>1. registers[i.rs] \in Nat /\ i.extra \in Nat
  BY RegisterNumbers DEF Decoded, RegsTyped
<1>2. registers[i.rs] + i.extra \in Int
  BY <1>1
<1>3. Address(i) \in Values
  BY <1>2, WordIsValue DEF Address
<1> QED  BY <1>3 DEF Values

\* What every step leaves: the types, and what Restartable asks.
StepIsSound ==
  /\ RegsTyped(registers') /\ MemTyped(mainMemory')
  /\ Arrived /\ (exception' # "NoException" => Undone)

\* A step that raises an exception keeps the machine well typed and can be executed again.
LEMMA RaiseIsSound ==
  ASSUME MachInv, NEW which, NEW badVAddr \in Values, RaiseException(which, badVAddr)
  PROVE  StepIsSound
<1>1. RegsTyped(registers') /\ Arrived /\ Undone
  BY RaiseStep
<1>2. MemTyped(mainMemory')
  BY <1>1 DEF MachInv, Undone
<1> QED  BY <1>1, <1>2 DEF StepIsSound

\* So does the step of an instruction that uses no memory,
LEMMA ExecuteIsSound ==
  ASSUME MachInv, NEW i, Decoded(i), Execute(i)
  PROVE  StepIsSound
<1>1. RegsTyped(registers) /\ MemTyped(mainMemory)
  BY DEF MachInv
<1>2. CASE \E which : RaiseException(which, 0)
  BY <1>2, FlagIsValue, RaiseIsSound
<1>3. CASE Advance(Result(i) ++ registers, i, 0, 0) /\ UNCHANGED mainMemory
  <2> DEFINE regs == Result(i) ++ registers
  <2>1. /\ RegsTyped(regs) /\ \A r \in Regs \ Writable : regs[r] = registers[r]
    BY <1>1, ResultWrites, ResultsLaid
  <2>2. LoadReg \in Regs \ Writable /\ LoadValueReg \in Regs \ Writable
    BY RegisterNumbers
  <2>3. regs[LoadReg] = registers[LoadReg] /\ regs[LoadValueReg] = registers[LoadValueReg]
    BY <2>1, <2>2
  <2>4. 0 \in General /\ 0 \in Values
    BY RegisterNumbers, FlagIsValue
  <2>5. Advance(regs, i, 0, 0) /\ mainMemory' = mainMemory
    BY <1>3
  <2> HIDE DEF regs
  <2>6. RegsTyped(registers') /\ Arrived /\ exception' = "NoException"
    BY <2>1, <2>3, <2>4, <2>5, AdvanceStep
  <2> QED  BY <1>1, <2>5, <2>6 DEF StepIsSound
<1> QED  BY <1>2, <1>3 DEF Execute

\* that of a load,
LEMMA LoadIsSound ==
  ASSUME MachInv, NEW i, Decoded(i), Load(i)
  PROVE  StepIsSound
<1> DEFINE t == Translate(Address(i), Size(i.op), FALSE)
<1>1. RegsTyped(registers) /\ MemTyped(mainMemory) /\ i.op \in Loads
  BY DEF MachInv, Load
<1>2. Address(i) \in Values /\ Address(i) \in Nat /\ Size(i.op) \in {1, 2, 4}
  BY <1>1, AddressIsValue, SizeFacts
<1>3. CASE t.exception # "NoException"
  <2>1. RaiseException(t.exception, Address(i))
    BY <1>3 DEF Load
  <2> HIDE DEF t
  <2> QED  BY <1>2, <2>1, RaiseIsSound
<1>4. CASE t.exception = "NoException"
  <2> DEFINE value == Loaded(i, Fetch(mainMemory, t.address, Size(i.op)))
  <2>1. Advance(registers, i, i.rt, value) /\ mainMemory' = mainMemory
    BY <1>4 DEF Load
  <2>2. t.address \in Nat /\ t.address + Size(i.op) <= MemorySize
    BY <1>2, <1>4, Translated
  <2> HIDE DEF t
  <2>3. Fetch(mainMemory, t.address, Size(i.op)) \in 0 .. Bytes(Size(i.op)) - 1
    BY <1>1, <1>2, <2>2, FetchBound
  <2>4. value \in Values
    BY <1>1, <2>3, LoadedIsValue
  <2>5. i.rt \in General
    BY <1>1 DEF Decoded, Loads, BranchOps
  <2> HIDE DEF value
  <2>6. RegsTyped(registers') /\ Arrived /\ exception' = "NoException"
    BY <1>1, <2>1, <2>4, <2>5, AdvanceStep
  <2> QED  BY <1>1, <2>1, <2>6 DEF StepIsSound
<1> QED  BY <1>3, <1>4

\* and that of a store.
LEMMA StoreIsSound ==
  ASSUME MachInv, NEW i, Decoded(i), StoreStep(i)
  PROVE  StepIsSound
<1> DEFINE t == Translate(Address(i), Size(i.op), TRUE)
           value == Stored(i, Fetch(mainMemory, t.address, Size(i.op)))
<1>1. RegsTyped(registers) /\ MemTyped(mainMemory) /\ i.op \in Stores
  BY DEF MachInv, StoreStep
<1>2. Address(i) \in Values /\ Address(i) \in Nat /\ Size(i.op) \in {1, 2, 4}
  BY <1>1, AddressIsValue, SizeFacts
<1>3. CASE t.exception # "NoException"
  <2>1. RaiseException(t.exception, Address(i))
    BY <1>3 DEF StoreStep
  <2> HIDE DEF t
  <2> QED  BY <1>2, <2>1, RaiseIsSound
<1>4. CASE t.exception = "NoException"
  <2>1. Advance(registers, i, 0, 0) /\ mainMemory' = Store(t.address, Size(i.op), value)
    BY <1>4 DEF StoreStep
  <2>2. t.address \in Nat /\ t.address + Size(i.op) <= MemorySize
    BY <1>2, <1>4, Translated
  <2> HIDE DEF t
  <2>3. Fetch(mainMemory, t.address, Size(i.op)) \in Int
    <3>1. Fetch(mainMemory, t.address, Size(i.op)) \in 0 .. Bytes(Size(i.op)) - 1
      BY <1>1, <1>2, <2>2, FetchBound
    <3> QED  BY <3>1
  <2>4. value \in Int
    BY <1>1, <2>3, StoredIsInt
  <2> HIDE DEF value
  <2>5. MemTyped(mainMemory')
    BY <1>1, <1>2, <2>1, <2>2, <2>4, StoreTyped
  <2>6. 0 \in General /\ 0 \in Values
    BY RegisterNumbers, FlagIsValue
  <2>7. RegsTyped(registers') /\ Arrived /\ exception' = "NoException"
    BY <1>1, <2>1, <2>6, AdvanceStep
  <2> QED  BY <2>5, <2>7 DEF StepIsSound
<1> QED  BY <1>3, <1>4

\* Every step is one of these.
LEMMA StepSound ==
  ASSUME MachInv, MachNext
  PROVE  StepIsSound /\ (instr' = NoInstr \/ Decoded(instr'))
<1>1. PICK w \in Words : OneInstruction(w)
  BY DEF MachNext
<1> DEFINE t == Translate(registers[PCReg], 4, FALSE)
           i == Decode(w)
<1>2. Decoded(i)
  BY WordsAreDecoded
<1>3. CASE t.exception # "NoException"
  <2>1. RaiseException(t.exception, registers[PCReg]) /\ instr' = NoInstr
    BY <1>1, <1>3 DEF OneInstruction
  <2>2. registers[PCReg] \in Values
    BY RegisterNumbers DEF MachInv, RegsTyped
  <2> HIDE DEF t
  <2> QED  BY <2>1, <2>2, RaiseIsSound
<1>4. CASE t.exception = "NoException"
  <2>1. (Execute(i) \/ Load(i) \/ StoreStep(i)) /\ instr' = i
    BY <1>1, <1>4 DEF OneInstruction
  <2> HIDE DEF t, i
  <2> QED  BY <1>2, <2>1, ExecuteIsSound, LoadIsSound, StoreIsSound
<1> QED  BY <1>3, <1>4

\* The machine starts well typed.
LEMMA MachInitially == MachInit => MachInv
<1> SUFFICES ASSUME MachInit PROVE MachInv
  OBVIOUS
<1>1. PICK a \in Operands, b \in Operands, pc \in {0, 16}, load \in {0, 2} :
        registers = [r \in Regs |->
          CASE r = 1 -> a [] r = 2 -> b [] r = HiReg -> 3 [] r = LoReg -> 5
            [] r = PCReg -> pc [] r = NextPCReg -> pc + 4
            [] r = LoadReg -> load [] r = LoadValueReg -> IF load = 0 THEN 0 ELSE 7 [] OTHER -> 0]
  BY DEF MachInit, Regs
<1> DEFINE value(r) ==
      CASE r = 1 -> a [] r = 2 -> b [] r = HiReg -> 3 [] r = LoReg -> 5
        [] r = PCReg -> pc [] r = NextPCReg -> pc + 4
        [] r = LoadReg -> load [] r = LoadValueReg -> IF load = 0 THEN 0 ELSE 7 [] OTHER -> 0
<1>6. \A r \in Regs : registers[r] = value(r)
  BY <1>1, Zenon
<1>2. a \in Values /\ b \in Values
  BY MachineAssumption DEF Values, WordBits
<1>3. \A n \in 0 .. 31 : n \in Values
  <2>1. 2^WordBits >= 32
    <3>1. PICK x \in Nat : x = Byte /\ x >= 4
      <4>1. ByteBits \in Nat /\ ByteBits >= 2
        BY MachineAssumption
      <4>2. ByteBits - 2 \in Nat /\ ByteBits = 2 + (ByteBits - 2) /\ 1 * ByteBits = ByteBits
        BY <4>1
      <4>3. 2^(2 + (ByteBits - 2)) = 2^2 * 2^(ByteBits - 2)
        BY <4>2, PowerSum
      <4>6. 2^(ByteBits - 2) \in Nat \ {0}
        BY <4>2, PowerPositive
      <4>7. 2^2 = 4
        OBVIOUS
      <4>4. \A p \in Nat \ {0} : 4 * p >= 4
        OBVIOUS
      <4>5. Byte = 4 * 2^(ByteBits - 2)
        BY <4>2, <4>3, <4>7 DEF Byte, Bytes
      <4>8. Byte \in Nat /\ Byte >= 4
        BY <4>3, <4>4, <4>5, <4>6, <4>7
      <4> QED  BY <4>8
    <3>2. Half = x * x /\ 2^WordBits = Half * Half
      BY <3>1, WordPowers
    <3>3. PICK y \in Nat : y = x * x /\ y >= 16
      <4>1. x * x >= 4 * x
        BY <3>1
      <4> QED  BY <3>1, <4>1
    <3>4. y * y >= 16 * y
      BY <3>3
    <3> QED  BY <3>2, <3>3, <3>4
  <2> QED  BY <2>1, WordPowers DEF Values
<1>4. RegsTyped(registers)
  <2>1. LoadReg \in Regs /\ LoadReg \notin {1, 2, HiReg, LoReg, PCReg, NextPCReg}
    BY RegisterNumbers DEF Writable
  <2>2. registers[LoadReg] = load
    <3>1. LoadReg # 1 /\ LoadReg # 2 /\ LoadReg # HiReg /\ LoadReg # LoReg /\ LoadReg # PCReg
          /\ LoadReg # NextPCReg /\ LoadReg # LoadValueReg
      BY <2>1, RegisterNumbers
    <3>2. value(LoadReg) = load
      BY <3>1
    <3> HIDE DEF value
    <3> QED  BY <1>6, <2>1, <3>2
  <2>3. \A r \in Regs \ {LoadReg} : registers[r] \in Values
    <3> SUFFICES ASSUME NEW r \in Regs \ {LoadReg} PROVE registers[r] \in Values
      OBVIOUS
    <3>1. CASE r \in {1, 2}
      <4>1. r # HiReg /\ r # LoReg /\ r # PCReg /\ r # NextPCReg /\ r # LoadReg /\ r # LoadValueReg
        BY <3>1, RegisterNumbers
      <4>2. CASE r = 1
        <5>1. r # 2
          BY <4>2
        <5>2. value(r) = a
          BY <4>1, <4>2, <5>1
        <5> HIDE DEF value
        <5> QED  BY <1>2, <1>6, <5>2
      <4>3. CASE r = 2
        <5>1. r # 1
          BY <4>3
        <5>2. value(r) = b
          BY <4>1, <4>3, <5>1
        <5> HIDE DEF value
        <5> QED  BY <1>2, <1>6, <5>2
      <4> QED  BY <3>1, <4>2, <4>3
    <3>2. CASE r \notin {1, 2}
      <4>1. registers[r] \in {3, 5, 0, 7, pc, pc + 4}
        BY <1>1, <3>2
      <4>2. pc \in 0 .. 31 /\ pc + 4 \in 0 .. 31
        OBVIOUS
      <4>3. 3 \in Values /\ 5 \in Values /\ 0 \in Values /\ 7 \in Values /\ pc \in Values /\ pc + 4 \in Values
        BY <1>3, <4>2
      <4> QED  BY <4>1, <4>3
    <3> QED  BY <3>1, <3>2
  <2>4. load \in General
    BY RegisterNumbers
  <2>5. registers \in [Regs -> Nat]
    <3>1. \A r \in Regs : registers[r] \in Nat
      BY <2>2, <2>3 DEF Values
    <3>2. registers = [r \in Regs |-> registers[r]]
      BY <1>1
    <3> QED  BY <3>1, <3>2
  <2> QED  BY <2>2, <2>3, <2>4, <2>5 DEF RegsTyped
<1>5. MemTyped(mainMemory)
  <2>1. mainMemory = [m \in 0 .. MemorySize - 1 |-> (m + m \div 4) % Byte]
    BY DEF MachInit, MemorySize
  <2>2. \A m \in 0 .. MemorySize - 1 : (m + m \div 4) % Byte \in 0 .. Byte - 1
    <3>1. \A x \in Int : x % Byte \in 0 .. Byte - 1
      BY WordPowers
    <3>2. \A m \in 0 .. MemorySize - 1 : m + m \div 4 \in Int
      BY MachineAssumption DEF MemorySize
    <3> QED  BY <3>1, <3>2
  <2> QED  BY <2>1, <2>2 DEF MemTyped
<1> QED  BY <1>4, <1>5 DEF MachInv

\* And every instruction keeps it so.
LEMMA MachStep == MachInv /\ [MachNext]_machVars => MachInv'
<1> SUFFICES ASSUME MachInv, [MachNext]_machVars PROVE MachInv'
  OBVIOUS
<1>1. CASE MachNext
  BY <1>1, StepSound DEF MachInv, StepIsSound
<1>2. CASE UNCHANGED machVars
  BY <1>2 DEF MachInv, machVars
<1> QED  BY <1>1, <1>2

\* For any width of the bytes, any number of registers, page table and instruction words, the
\* registers hold words, the pending load names a general register, and memory holds bytes.
THEOREM MachineTypeCorrect == MachSpec => []MachInv
BY MachInitially, MachStep, PTL DEF MachSpec

\* Every instruction of every program can be executed again if it ends in an exception.
THEOREM InstructionsRestart == MachSpec => Restartable
<1>1. MachInv /\ [MachNext]_machVars =>
      [/\ registers'[0] = 0
       /\ instr' = NoInstr \/ instr'.op \in Handled
       /\ registers[LoadReg] # 0 => registers'[registers[LoadReg]] = registers[LoadValueReg]
       /\ exception' # "NoException" =>
            /\ mainMemory' = mainMemory
            /\ \A r \in 1 .. PrevPCReg : r = registers[LoadReg] \/ registers'[r] = registers[r]]_machVars
  <2>1. MachInv /\ MachNext => /\ Arrived /\ (exception' # "NoException" => Undone)
                               /\ (instr' = NoInstr \/ Decoded(instr'))
    BY StepSound DEF StepIsSound
  <2> QED  BY <2>1 DEF Arrived, Undone, Decoded
<1> QED  BY <1>1, MachineTypeCorrect, PTL DEF MachSpec, Restartable

-----------------------------------------------------------------------------
(***************************************************************************)
(* What is stored.                                                         *)
(***************************************************************************)

\* To divide by a product is to divide by its factors, one after the other.
LEMMA DivisionTwice ==
  ASSUME NEW d \in Nat \ {0}, NEW e \in Nat \ {0}, NEW x \in Int
  PROVE  x \div (d * e) = (x \div d) \div e
<1>1. PICK q \in Int, r \in 0 .. d - 1 : q = x \div d /\ r = x % d /\ x = d * q + r
  BY DivisionExact
<1>2. PICK k \in Int, s \in 0 .. e - 1 : k = q \div e /\ s = q % e /\ q = e * k + s
  BY DivisionExact
<1>3. d * q = d * (e * k) + d * s /\ d * (e * k) = (d * e) * k
  BY <1>2
<1>4. x = (d * e) * k + (d * s + r)
  BY <1>1, <1>3
<1>5. d * s + r \in 0 .. (d * e) - 1
  <2>1. d * (s + 1) <= d * e
    <3>1. s + 1 <= e /\ s + 1 \in Nat
      OBVIOUS
    <3> QED  BY <3>1
  <2>2. d * (s + 1) = d * s + d /\ d * s \in Nat
    OBVIOUS
  <2> QED  BY <2>1, <2>2
<1>6. d * e \in Nat \ {0}
  OBVIOUS
<1>7. x \div (d * e) = k
  BY <1>4, <1>5, <1>6, DivisionUnique
<1> QED  BY <1>1, <1>2, <1>7

\* A word's four bytes add up to it.
LEMMA WordByBytes ==
  ASSUME NEW w \in Values
  PROVE  LET byte(n) == (w \div Bytes(n)) % Byte
         IN w = byte(0) + Byte * (byte(1) + Byte * (byte(2) + Byte * byte(3)))
<1>1. PICK b \in Nat \ {0}, h \in Nat \ {0}, t \in Nat \ {0} :
        b = Byte /\ h = Half /\ t = Bytes(3) /\ h = b * b /\ t = b * h /\ 2^WordBits = b * t
  <2>1. Byte \in Nat \ {0} /\ Half = Byte * Byte /\ Bytes(3) = Byte * Half /\ 2^WordBits = Byte * Bytes(3)
    BY WordPowers
  <2>2. \A x, y \in Nat \ {0} : x * y \in Nat \ {0}
    OBVIOUS
  <2> QED  BY <2>1, <2>2
<1>2. w \in Nat /\ w < b * t
  BY <1>1, WordPowers DEF Values
<1>3. Bytes(0) = 1 /\ Bytes(1) = b /\ Bytes(2) = h /\ Bytes(3) = t
  BY <1>1, WordPowers DEF Byte, Half
<1>4. PICK q \in Int, r \in 0 .. b - 1 : q = w \div b /\ r = w % b /\ w = b * q + r
  BY <1>2, DivisionExact
<1>5. PICK k \in Int, s \in 0 .. b - 1 : k = q \div b /\ s = q % b /\ q = b * k + s
  BY DivisionExact
<1>6. PICK l \in Int, u \in 0 .. b - 1 : l = k \div b /\ u = k % b /\ k = b * l + u
  BY DivisionExact
<1>7. w \div h = k
  BY <1>1, <1>2, <1>4, <1>5, DivisionTwice
<1>8. w \div t = l
  <2>1. t = h * b
    BY <1>1
  <2>2. w \div (h * b) = (w \div h) \div b
    <3>1. w \in Int
      BY <1>2
    <3> QED  BY <3>1, DivisionTwice
  <2> QED  BY <2>1, <2>2, <1>6, <1>7
<1>9. PICK v \in 0 .. t - 1 : w = t * l + v
  BY <1>2, <1>8, DivisionExact
<1>10. l \in 0 .. b - 1
  <2>1. CASE l <= -1
    <3>1. t * l <= -t
      BY <2>1
    <3> QED  BY <3>1, <1>2, <1>9
  <2>2. CASE l >= b
    <3>1. t * l >= t * b /\ t * b = b * t
      BY <2>2
    <3> QED  BY <3>1, <1>2, <1>9
  <2> QED  BY <2>1, <2>2
<1>11. l % b = l /\ w \div 1 = w
  BY <1>2, <1>10
<1>12. /\ (w \div Bytes(0)) % Byte = r /\ (w \div Bytes(1)) % Byte = s
       /\ (w \div Bytes(2)) % Byte = u /\ (w \div Bytes(3)) % Byte = l
  BY <1>1, <1>3, <1>4, <1>5, <1>6, <1>7, <1>8, <1>11
<1>13. w = r + b * (s + b * (u + b * l))
  <2>1. k = u + b * l /\ q = s + b * k /\ w = r + b * q
    BY <1>4, <1>5, <1>6
  <2> QED  BY <2>1
<1> QED  BY <1>1, <1>12, <1>13

\* A word that is stored and fetched again is the same.
LEMMA StoredWord ==
  ASSUME MemTyped(mainMemory), NEW address \in Nat, address + 4 <= MemorySize, NEW w \in Values
  PROVE  Fetch(Store(address, 4, w), address, 4) = w
<1> DEFINE memory == Store(address, 4, w)
           byte(n) == (w \div Bytes(n)) % Byte
<1>1. MemTyped(memory)
  <2>1. w \in Int
    BY DEF Values
  <2> QED  BY <2>1, StoreTyped
<1>2. \A n \in 0 .. 3 : memory[address + n] = byte(n)
  <2> SUFFICES ASSUME NEW n \in 0 .. 3 PROVE memory[address + n] = byte(n)
    OBVIOUS
  <2>1. MemorySize \in Nat
    BY MachineAssumption DEF MemorySize
  <2>2. address + n \in 0 .. MemorySize - 1 /\ address + n \in address .. address + 4 - 1 /\ (address + n) - address = n
    BY <2>1
  <2>3. DOMAIN mainMemory = 0 .. MemorySize - 1
    BY DEF MemTyped
  <2> QED  BY <2>2, <2>3 DEF Store
<1> HIDE DEF memory
<1>3. Fetch(memory, address, 4) =
        memory[address + 0] + Byte * (memory[address + 1] + Byte * (memory[address + 2] + Byte * memory[address + 3]))
  <2>1. 4 # 1 /\ 4 # 2 /\ 4 \in {1, 2, 4}
    OBVIOUS
  <2> QED  BY <1>1, <2>1, FetchSum
<1>4. w = byte(0) + Byte * (byte(1) + Byte * (byte(2) + Byte * byte(3)))
  BY WordByBytes
<1> HIDE DEF byte
<1> QED  BY <1>2, <1>3, <1>4 DEF memory

\* What StoreExact asks of a step that has executed i.
StoresExactly(i) ==
  LET address == Address(i)
      frame == PageTable[(address \div PageSize) + 1]
      place == frame.physicalPage * PageSize + (address % PageSize)
  IN /\ ~frame.readOnly
     /\ \A m \in DOMAIN mainMemory : m \notin place .. place + Size(i.op) - 1 =>
          mainMemory'[m] = mainMemory[m]
     /\ i.op = "SW" => Fetch(mainMemory', place, 4) = registers[i.rt]

\* A store writes the bytes at its own address and no others, into a page that it may write.
LEMMA StoreIsExact ==
  ASSUME MachInv, NEW i, Decoded(i), StoreStep(i), mainMemory' # mainMemory
  PROVE  StoresExactly(i)
<1> DEFINE t == Translate(Address(i), Size(i.op), TRUE)
           value == Stored(i, Fetch(mainMemory, t.address, Size(i.op)))
           entry == PageTable[(Address(i) \div PageSize) + 1]
           place == entry.physicalPage * PageSize + (Address(i) % PageSize)
<1>1. RegsTyped(registers) /\ MemTyped(mainMemory) /\ i.op \in Stores
  BY DEF MachInv, StoreStep
<1>2. Address(i) \in Nat /\ Size(i.op) \in {1, 2, 4}
  BY <1>1, AddressIsValue, SizeFacts
<1>3. t.exception = "NoException" /\ mainMemory' = Store(t.address, Size(i.op), value)
  BY DEF StoreStep, RaiseException
<1>4. t.address = place /\ ~entry.readOnly /\ t.address \in Nat /\ t.address + Size(i.op) <= MemorySize
  BY <1>2, <1>3, Translated
<1> HIDE DEF t, entry, place, value
<1>5. \A m \in DOMAIN mainMemory : m \notin place .. place + Size(i.op) - 1 => mainMemory'[m] = mainMemory[m]
  BY <1>3, <1>4 DEF Store
<1>6. i.op = "SW" => Fetch(mainMemory', place, 4) = registers[i.rt]
  <2> HAVE i.op = "SW"
  <2>1. Size(i.op) = 4
    BY SizeFacts
  <2>2. registers[i.rt] \in Values
    <3>1. i.rt \in Regs \ {LoadReg}
      BY RegisterNumbers DEF Decoded, BranchOps
    <3> QED  BY <1>1, <3>1 DEF RegsTyped
  <2>3. value = registers[i.rt]
    <3>1. value = registers[i.rt] % Bytes(4)
      BY <2>1 DEF Stored, value
    <3>2. Bytes(4) = 2^WordBits
      BY DEF Bytes, WordBits
    <3>3. PICK p \in Nat : p = 2^WordBits
      BY WordPowers
    <3>4. \A w \in 0 .. p - 1 : w % p = w
      OBVIOUS
    <3> QED  BY <2>2, <3>1, <3>2, <3>3, <3>4 DEF Values
  <2> QED  BY <1>1, <1>3, <1>4, <2>1, <2>2, <2>3, StoredWord
<1> QED  BY <1>4, <1>5, <1>6 DEF StoresExactly, entry, place

\* No other instruction changes memory.
LEMMA OnlyStores ==
  ASSUME MachInv, MachNext, instr' # NoInstr, mainMemory' # mainMemory
  PROVE  StoresExactly(instr')
<1>1. PICK w \in Words : OneInstruction(w)
  BY DEF MachNext
<1> DEFINE i == Decode(w)
<1>2. Decoded(i)
  BY WordsAreDecoded
<1>3. (Execute(i) \/ Load(i) \/ StoreStep(i)) /\ instr' = i
  BY <1>1 DEF OneInstruction
<1> HIDE DEF i
<1>4. ~Execute(i)
  BY DEF Execute, RaiseException
<1>5. ~Load(i)
  BY DEF Load, RaiseException
<1> QED  BY <1>2, <1>3, <1>4, <1>5, StoreIsExact

\* Every store of every program is within its page table, and a word comes back as it was.
THEOREM StoresAreExact == MachSpec => StoreExact
<1>1. MachInv /\ [MachNext]_machVars =>
      [instr' # NoInstr /\ mainMemory' # mainMemory =>
         LET address == Address(instr')
             frame == PageTable[(address \div PageSize) + 1]
             place == frame.physicalPage * PageSize + (address % PageSize)
         IN /\ ~frame.readOnly
            /\ \A m \in DOMAIN mainMemory : m \notin place .. place + Size(instr'.op) - 1 =>
                 mainMemory'[m] = mainMemory[m]
            /\ instr'.op = "SW" => Fetch(mainMemory', place, 4) = registers[instr'.rt]]_machVars
  <2>1. MachInv /\ MachNext /\ instr' # NoInstr /\ mainMemory' # mainMemory => StoresExactly(instr')
    BY OnlyStores
  <2> QED  BY <2>1 DEF StoresExactly
<1> QED  BY <1>1, MachineTypeCorrect, PTL DEF MachSpec, StoreExact

-----------------------------------------------------------------------------
(***************************************************************************)
(* Arithmetic.                                                             *)
(***************************************************************************)

\* A word is what is left of an integer by a multiple of their number.
LEMMA WordOf ==
  ASSUME NEW n \in Int, NEW k \in Int, NEW v \in Values, n = 2^WordBits * k + v
  PROVE  Word(n) = v
<1>1. PICK w \in Nat \ {0} : w = 2^WordBits
  BY WordPowers
<1>2. v \in 0 .. w - 1 /\ n = w * k + v
  BY <1>1 DEF Values
<1>4. n % w = v
  BY <1>2, DivisionUnique
<1> QED  BY <1>1, <1>4 DEF Word

\* A word is cut to itself.
LEMMA WordOfValue ==
  ASSUME NEW n \in Values
  PROVE  Word(n) = n
<1>1. PICK w \in Nat : w = 2^WordBits
  BY WordPowers
<1>2. n \in Int /\ n = w * 0 + n
  BY <1>1 DEF Values
<1> QED  BY <1>1, <1>2, WordOf

\* Signed numbers and words stand for each other.
LEMMA SignedWord ==
  ASSUME NEW n \in -SignBit .. SignBit - 1
  PROVE  Signed(Word(n)) = n
<1>1. PICK s \in Nat \ {0} : s = SignBit /\ 2^WordBits = 2 * s
  BY WordPowers
<1>2. n \in Int /\ n >= -s /\ n < s
  BY <1>1
<1>3. CASE n >= 0
  <2>1. n \in Values
    BY <1>1, <1>2, <1>3 DEF Values
  <2>2. Word(n) = n
    BY <2>1, WordOfValue
  <2> QED  BY <1>1, <1>2, <2>2 DEF Signed, Negative
<1>4. CASE n < 0
  <2>1. n = (2 * s) * (-1) + (n + 2 * s)
    BY <1>2
  <2>4. n = 2^WordBits * (-1) + (n + 2 * s) /\ -1 \in Int
    BY <1>1, <2>1
  <2>2. n + 2 * s \in Values
    BY <1>1, <1>2, <1>4 DEF Values
  <2>3. Word(n) = n + 2 * s
    BY <1>2, <2>2, <2>4, WordOf
  <2> QED  BY <1>1, <1>2, <2>3 DEF Signed, Negative
<1> QED  BY <1>2, <1>3, <1>4

\* A word that is read with its sign is between the smallest and the largest integer.
LEMMA SignedRange ==
  ASSUME NEW w \in Values
  PROVE  /\ Signed(w) \in -SignBit .. SignBit - 1
         /\ Signed(w) = IF w >= SignBit THEN w - 2 * SignBit ELSE w
         /\ Signed(w) < 0 <=> Negative(w)
BY WordPowers DEF Signed, Negative, Values

\* The test by signs is right: of a sum, and of a difference.
LEMMA SumOverflows ==
  ASSUME NEW a \in Values, NEW b \in Values
  PROVE  SameSign(a, b) /\ ~SameSign(b, Word(a + b)) <=> Signed(a) + Signed(b) \notin -SignBit .. SignBit - 1
<1>1. PICK s \in Nat \ {0} : s = SignBit /\ 2^WordBits = 2 * s
  BY WordPowers
<1>2. a \in 0 .. (2 * s) - 1 /\ b \in 0 .. (2 * s) - 1
  BY <1>1 DEF Values
<1>3. Word(a + b) = IF a + b >= 2 * s THEN a + b - 2 * s ELSE a + b
  <2>1. CASE a + b >= 2 * s
    <3>1. a + b = (2 * s) * 1 + (a + b - 2 * s) /\ a + b \in Int
      BY <1>2
    <3>4. a + b = 2^WordBits * 1 + (a + b - 2 * s) /\ 1 \in Int
      BY <1>1, <3>1
    <3>2. a + b - 2 * s \in Values
      BY <1>1, <1>2, <2>1 DEF Values
    <3>3. Word(a + b) = a + b - 2 * s
      BY <3>1, <3>2, <3>4, WordOf
    <3> QED  BY <2>1, <3>3
  <2>2. CASE ~(a + b >= 2 * s)
    <3>1. a + b \in Values
      BY <1>1, <1>2, <2>2 DEF Values
    <3> QED  BY <2>2, <3>1, WordOfValue
  <2> QED  BY <2>1, <2>2
<1>4. /\ Signed(a) = IF a >= s THEN a - 2 * s ELSE a
      /\ Signed(b) = IF b >= s THEN b - 2 * s ELSE b
  BY <1>1, SignedRange
<1> QED  BY <1>1, <1>2, <1>3, <1>4 DEF SameSign, Negative

\* The test of SUB by signs: it is one for the difference not being a word.
LEMMA DifferenceOverflows ==
  ASSUME NEW a \in Values, NEW b \in Values
  PROVE  ~SameSign(a, b) /\ ~SameSign(a, Word(a - b)) <=> Signed(a) - Signed(b) \notin -SignBit .. SignBit - 1
<1>1. PICK s \in Nat \ {0} : s = SignBit /\ 2^WordBits = 2 * s
  BY WordPowers
<1>2. a \in 0 .. (2 * s) - 1 /\ b \in 0 .. (2 * s) - 1
  BY <1>1 DEF Values
<1>3. Word(a - b) = IF a < b THEN a - b + 2 * s ELSE a - b
  <2>1. CASE a < b
    <3>1. a - b = (2 * s) * (-1) + (a - b + 2 * s) /\ a - b \in Int
      BY <1>2
    <3>4. a - b = 2^WordBits * (-1) + (a - b + 2 * s) /\ (-1) \in Int
      BY <1>1, <3>1
    <3>2. a - b + 2 * s \in Values
      BY <1>1, <1>2, <2>1 DEF Values
    <3>3. Word(a - b) = a - b + 2 * s
      BY <3>1, <3>2, <3>4, WordOf
    <3> QED  BY <2>1, <3>3
  <2>2. CASE ~(a < b)
    <3>1. a - b \in Values
      BY <1>1, <1>2, <2>2 DEF Values
    <3> QED  BY <2>2, <3>1, WordOfValue
  <2> QED  BY <2>1, <2>2
<1>4. /\ Signed(a) = IF a >= s THEN a - 2 * s ELSE a
      /\ Signed(b) = IF b >= s THEN b - 2 * s ELSE b
  BY <1>1, SignedRange
<1> QED  BY <1>1, <1>2, <1>3, <1>4 DEF SameSign, Negative

\* The arithmetic shift by one halves, rounding down, and drops the lowest bit.
LEMMA Halved ==
  ASSUME NEW w \in Values
  PROVE  /\ w % 2 \in {0, 1}
         /\ Signed(w) = 2 * Signed(ShiftRight(w, 1)) + (w % 2)
<1>1. PICK s \in Nat \ {0} : s = SignBit /\ 2^WordBits = 2 * s
  BY WordPowers
<1>2. PICK z \in Int : z = Signed(w) /\ z >= -s /\ z < s
  BY <1>1, SignedRange
<1>3. PICK q \in Int, e \in 0 .. 1 : q = z \div 2 /\ e = z % 2 /\ z = 2 * q + e
  BY DivisionExact
<1>4. q \in -SignBit .. SignBit - 1
  BY <1>1, <1>2, <1>3
<1>5. 2^1 = 2
  OBVIOUS
<1>6. ShiftRight(w, 1) = Word(q)
  BY <1>2, <1>3, <1>5 DEF ShiftRight
<1>7. Signed(ShiftRight(w, 1)) = q
  BY <1>4, <1>6, SignedWord
<1>8. w % 2 = e
  <2>1. w \in Nat /\ (w = z \/ w = z + 2 * s)
    BY <1>1, <1>2, SignedRange DEF Values
  <2>2. w = 2 * q + e \/ w = 2 * (q + s) + e
    BY <1>3, <2>1
  <2>3. 2 \in Nat \ {0} /\ w \in Int /\ q + s \in Int /\ e \in 0 .. 2 - 1
    BY <2>1
  <2> QED  BY <2>2, <2>3, DivisionUnique
<1> QED  BY <1>2, <1>3, <1>7, <1>8

-----------------------------------------------------------------------------
(***************************************************************************)
(* The product.                                                            *)
(***************************************************************************)

\* A double word, of which carry and shift are right as long as it does not overflow.
LEMMA CarryExact ==
  ASSUME NEW lo \in Values, NEW hi \in Values, NEW bLo \in Values, NEW bHi \in Values,
         NEW x \in Nat, NEW y \in Nat, lo + 2^WordBits * hi = x, bLo + 2^WordBits * bHi = y,
         x + y < 2^WordBits * 2^WordBits
  PROVE  LET newLo == Word(lo + bLo)
             newHi == Word(hi + (IF newLo < bLo THEN 1 ELSE 0) + bHi)
         IN newLo + 2^WordBits * newHi = x + y
<1>1. PICK w \in Nat \ {0} : w = 2^WordBits
  BY WordPowers
<1>2. lo \in 0 .. w - 1 /\ hi \in 0 .. w - 1 /\ bLo \in 0 .. w - 1 /\ bHi \in 0 .. w - 1
  BY <1>1 DEF Values
<1>3. lo + w * hi = x /\ bLo + w * bHi = y /\ x + y < w * w
  BY <1>1
<1> DEFINE newLo == Word(lo + bLo)
           carry == IF newLo < bLo THEN 1 ELSE 0
<1>4. newLo = IF lo + bLo >= w THEN lo + bLo - w ELSE lo + bLo
  <2>1. CASE lo + bLo >= w
    <3>1. lo + bLo = w * 1 + (lo + bLo - w) /\ lo + bLo \in Int
      BY <1>2
    <3>2. lo + bLo - w \in Values
      BY <1>1, <1>2, <2>1 DEF Values
    <3>3. newLo = lo + bLo - w
      BY <1>1, <3>1, <3>2, WordOf
    <3> QED  BY <2>1, <3>3
  <2>2. CASE ~(lo + bLo >= w)
    <3>1. lo + bLo \in Values
      BY <1>1, <1>2, <2>2 DEF Values
    <3> QED  BY <2>2, <3>1, WordOfValue
  <2> QED  BY <2>1, <2>2
<1> HIDE DEF newLo
<1>5. newLo + w * carry = lo + bLo /\ carry \in {0, 1} /\ newLo \in 0 .. w - 1
  <2>1. CASE lo + bLo >= w
    BY <1>2, <1>4, <2>1
  <2>2. CASE ~(lo + bLo >= w)
    BY <1>2, <1>4, <2>2
  <2> QED  BY <2>1, <2>2
<1> HIDE DEF carry
<1>6. PICK h \in Nat : h = hi + carry + bHi
  BY <1>2, <1>5
<1>7. newLo + w * h = x + y
  <2>1. w * h = w * hi + w * carry + w * bHi
    BY <1>2, <1>5, <1>6
  <2> QED  BY <2>1, <1>2, <1>3, <1>5
<1>8. h < w
  <2>1. CASE h >= w
    <3>1. w * h >= w * w
      BY <2>1
    <3> QED  BY <3>1, <1>3, <1>5, <1>7
  <2> QED  BY <2>1
<1>9. Word(hi + carry + bHi) = h
  <2>1. h \in Values
    BY <1>1, <1>8 DEF Values
  <2> QED  BY <2>1, <1>6, WordOfValue
<1> QED  BY <1>1, <1>7, <1>9 DEF newLo, carry

\* Doubling b, with the carry from its low word into its high one.
LEMMA DoubleExact ==
  ASSUME NEW bLo \in Values, NEW bHi \in Values, NEW y \in Nat, bLo + 2^WordBits * bHi = y,
         2 * y < 2^WordBits * 2^WordBits
  PROVE  Word(2 * bLo) + 2^WordBits * (Word(2 * bHi) + (IF Negative(bLo) THEN 1 ELSE 0)) = 2 * y
<1>1. PICK s \in Nat \ {0}, w \in Nat \ {0} : s = SignBit /\ w = 2^WordBits /\ w = 2 * s
  BY WordPowers
<1>2. bLo \in 0 .. w - 1 /\ bHi \in 0 .. w - 1 /\ bLo + w * bHi = y /\ 2 * y < w * w
  BY <1>1 DEF Values
<1> DEFINE carry == IF Negative(bLo) THEN 1 ELSE 0
<1>3. Word(2 * bLo) = 2 * bLo - w * carry /\ carry \in {0, 1}
  <2>1. CASE Negative(bLo)
    <3>1. bLo >= s /\ carry = 1
      BY <1>1, <2>1 DEF Negative
    <3>2. 2 * bLo = w * 1 + (2 * bLo - w) /\ 2 * bLo \in Int
      BY <1>2
    <3>3. 2 * bLo - w \in Values
      BY <1>1, <1>2, <3>1 DEF Values
    <3>4. Word(2 * bLo) = 2 * bLo - w
      BY <1>1, <3>2, <3>3, WordOf
    <3> QED  BY <3>1, <3>4
  <2>2. CASE ~Negative(bLo)
    <3>1. bLo < s /\ carry = 0
      BY <1>1, <1>2, <2>2 DEF Negative
    <3>2. 2 * bLo \in Values
      BY <1>1, <1>2, <3>1 DEF Values
    <3> QED  BY <1>2, <3>1, <3>2, WordOfValue
  <2> QED  BY <2>1, <2>2
<1> HIDE DEF carry
<1>4. 2 * bHi < w
  <2>1. CASE 2 * bHi >= w
    <3>1. w * (2 * bHi) >= w * w
      BY <1>2, <2>1
    <3>2. w * (2 * bHi) = 2 * (w * bHi)
      BY <1>2
    <3> QED  BY <3>1, <3>2, <1>2
  <2> QED  BY <1>2, <2>1
<1>5. Word(2 * bHi) = 2 * bHi
  <2>1. 2 * bHi \in Values
    BY <1>1, <1>2, <1>4 DEF Values
  <2> QED  BY <2>1, WordOfValue
<1>6. w * (2 * bHi + carry) = 2 * (w * bHi) + w * carry
  BY <1>2, <1>3
<1>7. (2 * bLo - w * carry) + w * (2 * bHi + carry) = 2 * y
  BY <1>2, <1>3, <1>6
<1> QED  BY <1>1, <1>3, <1>5, <1>7 DEF carry

\* After some turns p is a power of two: a has been shifted out by p and its remainder, r,
\* multiplied.
MultInv(m, a, b, p) ==
  /\ m \in MultStates
  /\ \E r \in 0 .. p - 1 : /\ Signed(a) = Signed(m.a) * p + r
                           /\ m.lo + 2^WordBits * m.hi = r * b
                           /\ m.bLo + 2^WordBits * m.bHi = b * p

\* A turn of Mult's loop keeps its invariant, for twice the power of two.
LEMMA MultStepAdds ==
  ASSUME NEW a \in Values, NEW b \in Values, NEW p \in Nat \ {0}, 2 * p <= 2^WordBits,
         NEW m, MultInv(m, a, b, p)
  PROVE  MultInv(MultStep(m), a, b, 2 * p)
<1>1. m \in MultStates /\ MultStep(m) \in MultStates
  BY MultStepTyped DEF MultInv
<1>2. PICK r \in 0 .. p - 1 : /\ Signed(a) = Signed(m.a) * p + r
                              /\ m.lo + 2^WordBits * m.hi = r * b
                              /\ m.bLo + 2^WordBits * m.bHi = b * p
  BY DEF MultInv
<1>3. m.lo \in Values /\ m.hi \in Values /\ m.bHi \in Values /\ m.bLo \in Values /\ m.a \in Values
  BY <1>1 DEF MultStates
<1>4. PICK w \in Nat \ {0} : w = 2^WordBits /\ 2 * p <= w
  BY WordPowers
<1>5. b \in 0 .. w - 1
  BY <1>4 DEF Values
<1>6. PICK x \in Nat, y \in Nat : x = r * b /\ y = b * p
  BY <1>5
<1>7. x + y < w * w
  <2>1. x + y = (r + p) * b
    BY <1>5, <1>6
  <2>2. (r + p) * b <= w * b
    <3>1. r + p <= w /\ r + p \in Nat
      BY <1>4
    <3> QED  BY <3>1, <1>5
  <2>3. w * b <= w * (w - 1) /\ w * (w - 1) = w * w - w
    BY <1>5
  <2> QED  BY <2>1, <2>2, <2>3, <1>5
<1>8. 2 * y < w * w
  <2>1. 2 * y = (2 * p) * b
    BY <1>5, <1>6
  <2>2. (2 * p) * b <= w * b
    BY <1>4, <1>5
  <2>3. w * b <= w * (w - 1) /\ w * (w - 1) = w * w - w
    BY <1>5
  <2> QED  BY <2>1, <2>2, <2>3, <1>5
<1> DEFINE lo == Word(m.lo + m.bLo)
           hi == Word(m.hi + (IF lo < m.bLo THEN 1 ELSE 0) + m.bHi)
           bLo == Word(2 * m.bLo)
           bHi == Word(2 * m.bHi) + (IF Negative(m.bLo) THEN 1 ELSE 0)
           n == MultStep(m)
<1>9. lo + w * hi = x + y
  <2>1. /\ m.lo + 2^WordBits * m.hi = x /\ m.bLo + 2^WordBits * m.bHi = y
        /\ x + y < 2^WordBits * 2^WordBits
    BY <1>2, <1>4, <1>6, <1>7
  <2>2. lo + 2^WordBits * hi = x + y
    <3>1. PICK mLo \in Values, mHi \in Values, mbLo \in Values, mbHi \in Values :
            mLo = m.lo /\ mHi = m.hi /\ mbLo = m.bLo /\ mbHi = m.bHi
      BY <1>3
    <3>2. LET newLo == Word(mLo + mbLo)
              newHi == Word(mHi + (IF newLo < mbLo THEN 1 ELSE 0) + mbHi)
          IN newLo + 2^WordBits * newHi = x + y
      <4>1. /\ mLo + 2^WordBits * mHi = x /\ mbLo + 2^WordBits * mbHi = y
            /\ x + y < 2^WordBits * 2^WordBits
        BY <2>1, <3>1
      <4> QED  BY <4>1, CarryExact
    <3> QED  BY <3>1, <3>2
  <2> QED  BY <2>2, <1>4
<1>10. bLo + w * bHi = 2 * y
  BY <1>2, <1>3, <1>4, <1>6, <1>8, DoubleExact
<1>11. n = [lo |-> IF m.a % 2 = 1 THEN lo ELSE m.lo, hi |-> IF m.a % 2 = 1 THEN hi ELSE m.hi,
            bHi |-> bHi, bLo |-> bLo, a |-> ShiftRight(m.a, 1)]
  BY DEF MultStep
<1> HIDE DEF lo, hi, bLo, bHi, n
<1>12. /\ n.lo = (IF m.a % 2 = 1 THEN lo ELSE m.lo) /\ n.hi = (IF m.a % 2 = 1 THEN hi ELSE m.hi)
       /\ n.bLo = bLo /\ n.bHi = bHi /\ n.a = ShiftRight(m.a, 1)
  BY <1>11
<1>13. PICK e \in {0, 1} : e = m.a % 2
  BY <1>3, Halved
<1>14. PICK z \in Int : z = Signed(n.a) /\ Signed(m.a) = 2 * z + e
  <2>1. Signed(ShiftRight(m.a, 1)) \in Int
    BY <1>3, ShiftIsValue, SignedIsInt
  <2> QED  BY <2>1, <1>3, <1>12, <1>13, Halved
<1>15. r + e * p \in 0 .. (2 * p) - 1
  BY <1>13
<1>16. Signed(a) = z * (2 * p) + (r + e * p)
  <2>1. (2 * z + e) * p = z * (2 * p) + e * p
    BY <1>13, <1>14
  <2> QED  BY <2>1, <1>2, <1>13, <1>14
<1>17. n.lo + w * n.hi = (r + e * p) * b
  <2>1. (r + e * p) * b = x + e * y
    <3>1. CASE e = 0
      <4>1. r + e * p = r /\ x + e * y = x
        BY <3>1
      <4> QED  BY <4>1, <1>6
    <3>2. CASE e = 1
      <4>1. r + e * p = r + p /\ x + e * y = x + y
        BY <3>2
      <4>2. (r + p) * b = r * b + b * p
        BY <1>5
      <4> QED  BY <4>1, <4>2, <1>6
    <3> QED  BY <1>13, <3>1, <3>2
  <2>2. CASE e = 0
    <3>1. n.lo = m.lo /\ n.hi = m.hi /\ x + e * y = x
      BY <1>12, <1>13, <2>2
    <3> QED  BY <2>1, <3>1, <1>2, <1>4, <1>6
  <2>3. CASE e = 1
    <3>1. n.lo = lo /\ n.hi = hi /\ x + e * y = x + y
      BY <1>12, <1>13, <2>3
    <3> QED  BY <2>1, <3>1, <1>9
  <2> QED  BY <1>13, <2>2, <2>3
<1>18. n.bLo + w * n.bHi = b * (2 * p)
  <2>1. b * (2 * p) = 2 * y
    BY <1>5, <1>6
  <2> QED  BY <2>1, <1>10, <1>12
<1>19. n \in MultStates
  BY <1>1 DEF n
<1>20. MultInv(n, a, b, 2 * p)
  BY <1>4, <1>14, <1>15, <1>16, <1>17, <1>18, <1>19 DEF MultInv
<1> QED  BY <1>20 DEF n

\* The loop leaves the product of what it was given, a by its two's complement.
LEMMA LoopMultiplies ==
  ASSUME NEW start \in MultStates, start.lo = 0, start.hi = 0, start.bHi = 0
  PROVE  LET end == Turns(start)[WordBits]
         IN end \in MultStates /\ end.lo + 2^WordBits * end.hi = start.a * start.bLo
<1> DEFINE t == Turns(start)
           a == start.a
           b == start.bLo
           S == {n \in 0 .. WordBits : MultInv(t[n], a, b, 2^n)}
<1>1. /\ t \in [0 .. WordBits -> MultStates] /\ t[0] = start
      /\ \A n \in 1 .. WordBits : t[n] = MultStep(t[n - 1])
  BY TurnsFacts
<1>2. a \in Values /\ b \in Values /\ WordBits \in Nat
  BY WordPowers DEF MultStates
<1>3. PICK w \in Nat \ {0} : w = 2^WordBits
  BY WordPowers
<1> HIDE DEF t, a, b
<1>4. 0 \in S
  <2>1. 2^0 = 1
    OBVIOUS
  <2>2. MultInv(start, a, b, 1)
    <3>1. Signed(a) \in Int /\ b \in Nat
      BY <1>2, SignedIsInt DEF Values
    <3>2. 0 \in 0 .. 1 - 1 /\ Signed(a) = Signed(a) * 1 + 0 /\ 0 + w * 0 = 0 * b /\ b + w * 0 = b * 1
      BY <3>1
    <3>3. 0 + 2^WordBits * 0 = 0 * b /\ b + 2^WordBits * 0 = b * 1
      BY <3>2, <1>3
    <3>4. start.a = a /\ start.bLo = b
      BY DEF a, b
    <3> QED  BY <3>2, <3>3, <3>4 DEF MultInv
  <2> QED  BY <1>1, <1>2, <2>1, <2>2
<1>5. \A n \in 0 .. WordBits : n \in S /\ n < WordBits => n + 1 \in S
  <2> SUFFICES ASSUME NEW n \in 0 .. WordBits, n \in S, n < WordBits PROVE n + 1 \in S
    OBVIOUS
  <2>1. n \in Nat /\ n + 1 \in 1 .. WordBits /\ (n + 1) - 1 = n /\ WordBits - (n + 1) \in Nat
    BY <1>2
  <2>2. t[n + 1] = MultStep(t[n])
    BY <1>1, <2>1
  <2>3. 2^(n + 1) = 2 * 2^n /\ 2^n \in Nat \ {0}
    BY <2>1, PowerNext, PowerPositive
  <2>4. 2 * 2^n <= 2^WordBits
    <3>1. PICK k \in Nat, j \in Nat : k = WordBits - (n + 1) /\ j = n + 1
      BY <2>1
    <3>2. 2^(j + k) = 2^j * 2^k
      BY PowerSum
    <3>3. 2^j \in Nat /\ 2^k \in Nat \ {0}
      BY PowerPositive
    <3>4. \A x \in Nat, y \in Nat \ {0} : x <= x * y
      OBVIOUS
    <3>5. 2^j <= 2^j * 2^k
      BY <3>3, <3>4
    <3>6. j + k = WordBits
      BY <1>2, <2>1, <3>1
    <3> QED  BY <3>1, <3>2, <3>5, <3>6, <2>3
  <2>5. MultInv(t[n + 1], a, b, 2 * 2^n)
    BY <1>2, <2>2, <2>3, <2>4, MultStepAdds
  <2> QED  BY <2>1, <2>3, <2>5
<1>6. MultInv(t[WordBits], a, b, w)
  <2> HIDE DEF S
  <2>1. \A n \in 0 .. WordBits : n \in S
    BY <1>2, <1>4, <1>5, UpToInduction
  <2>2. WordBits \in S
    BY <2>1, <1>2
  <2> QED  BY <2>2, <1>3 DEF S
<1> DEFINE end == t[WordBits]
<1> HIDE DEF end
<1>7. PICK r \in 0 .. w - 1 : Signed(a) = Signed(end.a) * w + r /\ end.lo + 2^WordBits * end.hi = r * b
  BY <1>6 DEF MultInv, end
<1>8. end \in MultStates
  BY <1>6 DEF MultInv, end
<1>9. r = a
  <2>1. PICK z \in Int : z = Signed(end.a)
    BY <1>8, SignedIsInt DEF MultStates
  <2>2. a \in 0 .. w - 1 /\ (Signed(a) = a \/ Signed(a) = a - w)
    BY <1>2, <1>3 DEF Values, Signed
  <2>3. a = w * z + r \/ a = w * (z + 1) + r
    BY <1>7, <2>1, <2>2
  <2>4. a = w * 0 + a /\ a \in Int /\ z + 1 \in Int
    BY <2>2
  <2>5. a % w = a
    BY <2>2, <2>4, DivisionUnique
  <2>6. a % w = r
    BY <2>3, <2>4, DivisionUnique
  <2> QED  BY <2>5, <2>6
<1> QED  BY <1>7, <1>8, <1>9 DEF end, t, a, b

\* The magnitude of a signed number, and what negation gives.
LEMMA MagnitudeIs ==
  ASSUME NEW v \in Values
  PROVE  /\ Magnitude(v, TRUE) = (IF Signed(v) < 0 THEN 0 - Signed(v) ELSE Signed(v))
         /\ Magnitude(v, FALSE) = v
         /\ Negate(v) = IF v = 0 THEN 0 ELSE 2^WordBits - v
<1>1. PICK s \in Nat \ {0}, w \in Nat \ {0} : s = SignBit /\ w = 2^WordBits /\ w = 2 * s
  BY WordPowers
<1>2. v \in 0 .. w - 1
  BY <1>1 DEF Values
<1>3. Negate(v) = IF v = 0 THEN 0 ELSE w - v
  <2>1. CASE v = 0
    <3>1. -v = w * 0 + 0 /\ -v \in Int
      BY <1>2, <2>1
    <3> QED  BY <1>1, <2>1, <3>1, FlagIsValue, WordOf DEF Negate
  <2>2. CASE v # 0
    <3>1. -v = w * (-1) + (w - v) /\ -v \in Int /\ -1 \in Int
      BY <1>2
    <3>2. w - v \in Values
      BY <1>1, <1>2, <2>2 DEF Values
    <3>3. Negate(v) = w - v
      BY <1>1, <3>1, <3>2, WordOf DEF Negate
    <3> QED  BY <2>2, <3>3
  <2> QED  BY <2>1, <2>2
<1>4. Signed(v) = (IF v >= s THEN v - w ELSE v) /\ (Negative(v) <=> v >= s)
  BY <1>1 DEF Signed, Negative
<1> QED  BY <1>1, <1>2, <1>3, <1>4 DEF Magnitude

\* MULTU's result.
LEMMA UnsignedProduct ==
  ASSUME NEW a \in Values, NEW b \in Values
  PROVE  LET p == Mult(a, b, FALSE) IN p.hi * 2^WordBits + p.lo = a * b
<1> DEFINE start == MultStart(a, b, FALSE)
           end == Turns(start)[WordBits]
<1>1. PICK w \in Nat \ {0} : w = 2^WordBits
  BY WordPowers
<1>2. a \in Nat /\ b \in Nat
  BY DEF Values
<1>3. Mult(a, b, FALSE) = IF a = 0 \/ b = 0 THEN [hi |-> 0, lo |-> 0] ELSE [hi |-> end.hi, lo |-> end.lo]
  BY Zenon DEF Mult, MultStart, Magnitude
<1>4. start \in MultStates /\ start.lo = 0 /\ start.hi = 0 /\ start.bHi = 0 /\ start.a = a /\ start.bLo = b
  <2>1. start \in MultStates
    BY MultStartTyped
  <2> QED  BY <2>1 DEF MultStart, Magnitude
<1>5. end \in MultStates /\ end.lo + w * end.hi = a * b
  <2> HIDE DEF start
  <2> QED  BY <1>1, <1>4, LoopMultiplies
<1> DEFINE p == Mult(a, b, FALSE)
<1> HIDE DEF end, p
<1>6. end.lo \in Nat /\ end.hi \in Nat
  <2>1. end.lo \in Values /\ end.hi \in Values
    BY <1>5 DEF MultStates
  <2> QED  BY <2>1 DEF Values
<1>9. p = IF a = 0 \/ b = 0 THEN [hi |-> 0, lo |-> 0] ELSE [hi |-> end.hi, lo |-> end.lo]
  BY <1>3 DEF p
<1>7. CASE a = 0 \/ b = 0
  <2>1. a * b = 0 /\ 0 * w + 0 = 0
    BY <1>2, <1>7
  <2>2. p.hi = 0 /\ p.lo = 0
    BY <1>7, <1>9
  <2> QED  BY <1>1, <2>1, <2>2 DEF p
<1>8. CASE ~(a = 0 \/ b = 0)
  <2>1. end.hi * w + end.lo = a * b
    BY <1>5, <1>6
  <2>2. p.hi = end.hi /\ p.lo = end.lo
    BY <1>8, <1>9
  <2> QED  BY <1>1, <2>1, <2>2 DEF p
<1> QED  BY <1>7, <1>8

\* MULT's result: the product of the magnitudes is at most a quarter of a double word, and
\* its complement the negative.
LEMMA SignedProduct ==
  ASSUME NEW a \in Values, NEW b \in Values
  PROVE  LET p == Mult(a, b, TRUE) IN Signed(p.hi) * 2^WordBits + p.lo = Signed(a) * Signed(b)
<1> DEFINE start == MultStart(a, b, TRUE)
           end == Turns(start)[WordBits]
           lo == Negate(end.lo)
           hi == Word(2^WordBits - 1 - end.hi + (IF lo = 0 THEN 1 ELSE 0))
           p == Mult(a, b, TRUE)
<1>1. PICK s \in Nat \ {0}, w \in Nat \ {0} : s = SignBit /\ w = 2^WordBits /\ w = 2 * s
  BY WordPowers
<1>2. p = IF a = 0 \/ b = 0 THEN [hi |-> 0, lo |-> 0]
          ELSE IF TRUE /\ Negative(a) # Negative(b) THEN [hi |-> hi, lo |-> lo]
          ELSE [hi |-> end.hi, lo |-> end.lo]
  BY Zenon DEF Mult, MultStart, Magnitude
<1>3. PICK x \in Int, y \in Int :
        /\ x = Signed(a) /\ x >= -s /\ x < s /\ (x < 0 <=> Negative(a)) /\ (a = 0 <=> x = 0)
        /\ y = Signed(b) /\ y >= -s /\ y < s /\ (y < 0 <=> Negative(b)) /\ (b = 0 <=> y = 0)
  <2>1. \A v \in Values : /\ Signed(v) \in Int /\ Signed(v) >= -s /\ Signed(v) < s
                          /\ (Signed(v) < 0 <=> Negative(v)) /\ (v = 0 <=> Signed(v) = 0)
    <3> SUFFICES ASSUME NEW v \in Values
                 PROVE  /\ Signed(v) \in Int /\ Signed(v) >= -s /\ Signed(v) < s
                        /\ (Signed(v) < 0 <=> Negative(v)) /\ (v = 0 <=> Signed(v) = 0)
      OBVIOUS
    <3>1. v \in 0 .. w - 1 /\ Signed(v) = (IF v >= s THEN v - 2 * s ELSE v)
      BY <1>1, SignedRange DEF Values
    <3>2. Signed(v) < 0 <=> Negative(v)
      BY SignedRange
    <3> QED  BY <1>1, <3>1, <3>2
  <2> QED  BY <2>1
<1>4. PICK u \in 0 .. s, v \in 0 .. s :
        /\ u = Magnitude(a, TRUE) /\ u = (IF x < 0 THEN 0 - x ELSE x)
        /\ v = Magnitude(b, TRUE) /\ v = (IF y < 0 THEN 0 - y ELSE y)
  <2>1. Magnitude(a, TRUE) = (IF x < 0 THEN 0 - x ELSE x) /\ Magnitude(b, TRUE) = (IF y < 0 THEN 0 - y ELSE y)
    BY <1>3, MagnitudeIs
  <2>2. \A z \in Int : z >= -s /\ z < s => (IF z < 0 THEN 0 - z ELSE z) \in 0 .. s
    OBVIOUS
  <2> QED  BY <1>3, <2>1, <2>2
<1>13. u \in Nat /\ v \in Nat /\ u <= s /\ v <= s
  <2>1. s \in Nat /\ u \in 0 .. s /\ v \in 0 .. s
    BY <1>1, <1>4
  <2> QED  BY <2>1
<1>5. start \in MultStates /\ start.lo = 0 /\ start.hi = 0 /\ start.bHi = 0 /\ start.a = u /\ start.bLo = v
  <2>1. start \in MultStates
    BY MultStartTyped
  <2> QED  BY <1>4, <2>1 DEF MultStart
<1>6. end \in MultStates /\ end.lo + w * end.hi = u * v
  <2> HIDE DEF start
  <2> QED  BY <1>1, <1>5, LoopMultiplies
<1> HIDE DEF end, p
<1>7. PICK l \in 0 .. w - 1, h \in 0 .. w - 1 : l = end.lo /\ h = end.hi
  <2>1. end.lo \in Values /\ end.hi \in Values
    BY <1>6 DEF MultStates
  <2> QED  BY <1>1, <2>1 DEF Values
<1>8. l + w * h = u * v
  BY <1>6, <1>7
<1>9. h < s
  <2>1. u * v <= s * s
    <3>1. u * v <= s * v /\ s * v <= s * s
      <4>1. s \in Nat /\ u \in Nat /\ v \in Nat /\ u <= s /\ v <= s
        BY <1>13
      <4>2. u * v <= s * v
        BY <4>1
      <4>3. s * v <= s * s
        BY <4>1
      <4> QED  BY <4>2, <4>3
    <3> QED  BY <3>1
  <2>2. CASE h >= s
    <3>1. w * h >= w * s
      BY <2>2
    <3>2. w * s = 2 * (s * s) /\ s * s >= 1
      BY <1>1
    <3> QED  BY <2>1, <3>1, <3>2, <1>7, <1>8
  <2> QED  BY <2>2, <1>7
<1>10. CASE a = 0 \/ b = 0
  <2>1. p.hi = 0 /\ p.lo = 0
    BY <1>2, <1>10
  <2>2. x * y = 0
    BY <1>3, <1>10
  <2>3. Signed(0) = 0
    BY <1>1 DEF Signed, Negative
  <2>4. 0 * w + 0 = 0
    OBVIOUS
  <2> QED  BY <1>1, <1>3, <2>1, <2>2, <2>3, <2>4 DEF p
<1>11. CASE ~(a = 0 \/ b = 0) /\ Negative(a) = Negative(b)
  <2>1. p.hi = h /\ p.lo = l
    BY <1>2, <1>7, <1>11
  <2>2. Signed(h) = h
    BY <1>1, <1>9, <1>7 DEF Signed, Negative
  <2>3. x * y = u * v
    <3>1. x < 0 <=> y < 0
      BY <1>3, <1>11
    <3>2. CASE x < 0
      <4>1. (0 - x) * (0 - y) = x * y
        BY <1>3
      <4> QED  BY <3>1, <3>2, <4>1, <1>4
    <3>3. CASE ~(x < 0)
      BY <3>1, <3>3, <1>4
    <3> QED  BY <3>2, <3>3
  <2>4. h * w + l = x * y
    BY <1>8, <2>3
  <2> QED  BY <1>1, <1>3, <2>1, <2>2, <2>4 DEF p
<1>12. CASE ~(a = 0 \/ b = 0) /\ Negative(a) # Negative(b)
  <2>1. p.hi = hi /\ p.lo = lo
    BY <1>2, <1>12
  <2>2. lo = IF l = 0 THEN 0 ELSE w - l
    <3>1. end.lo \in Values
      BY <1>6 DEF MultStates
    <3> QED  BY <1>1, <1>7, <3>1, MagnitudeIs
  <2> HIDE DEF lo
  <2>3. x * y = -(u * v) /\ u * v >= 1
    <3>1. x < 0 <=> ~(y < 0)
      <4>1. Negative(a) <=> ~Negative(b)
        BY <1>12 DEF Negative
      <4> QED  BY <1>3, <4>1
    <3>2. x # 0 /\ y # 0
      <4>1. a # 0 /\ b # 0
        BY <1>12
      <4> QED  BY <1>3, <4>1
    <3>3. u \in Nat \ {0} /\ v \in Nat \ {0}
      <4>1. x \in Int /\ y \in Int
        BY <1>3
      <4>2. \A z \in Int : z # 0 => (IF z < 0 THEN 0 - z ELSE z) # 0
        OBVIOUS
      <4>3. u # 0 /\ v # 0
        BY <1>4, <3>2, <4>1, <4>2
      <4> QED  BY <1>13, <4>3
    <3>4. u * v >= 1
      <4>1. u * v >= u * 1
        BY <3>3
      <4> QED  BY <3>3, <4>1
    <3>5. CASE x < 0
      <4>1. (0 - x) * y = -(x * y)
        BY <1>3
      <4>2. u * v = (0 - x) * y
        BY <3>1, <3>5, <1>4
      <4> QED  BY <3>4, <4>1, <4>2
    <3>6. CASE ~(x < 0)
      <4>1. x * (0 - y) = -(x * y)
        BY <1>3
      <4>2. u * v = x * (0 - y)
        BY <3>1, <3>6, <1>4
      <4> QED  BY <3>4, <4>1, <4>2
    <3> QED  BY <3>5, <3>6
  <2>4. CASE l = 0
    <3>1. lo = 0 /\ h >= 1
      <4>1. w * 0 = 0
        OBVIOUS
      <4> QED  BY <2>2, <2>3, <2>4, <4>1, <1>7, <1>8
    <3>2. hi = w - h
      <4>1. 2^WordBits - 1 - end.hi + (IF lo = 0 THEN 1 ELSE 0) = w - h
        BY <1>1, <1>7, <3>1
      <4>2. w - h \in Values
        BY <1>1, <1>7, <3>1 DEF Values
      <4> QED  BY <4>1, <4>2, WordOfValue
    <3>3. Signed(w - h) = -h
      BY <1>1, <1>7, <1>9, <3>1 DEF Signed, Negative
    <3>4. (-h) * w + 0 = x * y
      BY <2>3, <2>4, <1>8
    <3> QED  BY <1>1, <1>3, <2>1, <3>1, <3>2, <3>3, <3>4 DEF p
  <2>5. CASE l # 0
    <3>1. lo = w - l /\ lo # 0
      BY <2>2, <2>5, <1>7
    <3>2. hi = w - 1 - h
      <4>1. 2^WordBits - 1 - end.hi + (IF lo = 0 THEN 1 ELSE 0) = w - 1 - h
        BY <1>1, <1>7, <3>1
      <4>2. w - 1 - h \in Values
        BY <1>1, <1>7 DEF Values
      <4> QED  BY <4>1, <4>2, WordOfValue
    <3>3. Signed(w - 1 - h) = -1 - h
      BY <1>1, <1>7, <1>9 DEF Signed, Negative
    <3>4. (-1 - h) * w + (w - l) = x * y
      <4>1. (-1 - h) * w = -w - w * h
        BY <1>7
      <4> QED  BY <4>1, <2>3, <1>7, <1>8
    <3> QED  BY <1>1, <1>3, <2>1, <3>1, <3>2, <3>3, <3>4 DEF p
  <2> QED  BY <2>4, <2>5
<1> QED  BY <1>10, <1>11, <1>12

-----------------------------------------------------------------------------
(***************************************************************************)
(* The quotient.                                                           *)
(***************************************************************************)

Absolute(n) == IF n < 0 THEN 0 - n ELSE n

\* The division of the magnitudes, with the signs that C gives its results.
LEMMA QuotientFacts ==
  ASSUME NEW x \in Int, NEW y \in Int, y # 0
  PROVE  \E q \in Nat, r \in Nat :
           /\ r < Absolute(y) /\ Absolute(x) = Absolute(y) * q + r
           /\ Quotient(x, y) = (IF (x < 0 <=> y < 0) THEN q ELSE 0 - q)
           /\ Remainder(x, y) = (IF x < 0 THEN 0 - r ELSE r)
           /\ y * Quotient(x, y) + Remainder(x, y) = x
<1>1. PICK u \in Nat, v \in Nat \ {0} : u = Absolute(x) /\ v = Absolute(y)
  BY DEF Absolute
<1>2. PICK q \in Int, r \in 0 .. v - 1 : q = u \div v /\ r = u % v /\ u = v * q + r
  <2>1. v \in Nat \ {0} /\ u \in Int
    BY <1>1
  <2> QED  BY <2>1, DivisionExact
<1>3. q \in Nat
  <2>1. CASE q <= -1
    <3>1. v * q <= -v
      BY <2>1, <1>1
    <3> QED  BY <3>1, <1>1, <1>2
  <2> QED  BY <2>1
<1>4. Quotient(x, y) = IF (x < 0 <=> y < 0) THEN q ELSE 0 - q
  <2>1. (IF x < 0 THEN -x ELSE x) = u /\ (IF y < 0 THEN -y ELSE y) = v
    BY <1>1 DEF Absolute
  <2>2. Quotient(x, y) = IF (x < 0) = (y < 0) THEN q ELSE -q
    BY <1>2, <2>1 DEF Quotient
  <2>3. -q = 0 - q
    BY <1>3
  <2> QED  BY <2>2, <2>3
<1>5. PICK k \in Int : k = Quotient(x, y)
  BY <1>4
<1>6. Remainder(x, y) = x - y * k /\ y * k + (x - y * k) = x
  BY <1>5 DEF Remainder
<1>7. x - y * k = IF x < 0 THEN 0 - r ELSE r
  <2>1. CASE x < 0 /\ y < 0
    <3>1. k = q /\ u = 0 - x /\ v = 0 - y
      BY <1>1, <1>4, <1>5, <2>1 DEF Absolute
    <3>2. v * q = 0 - y * k
      BY <3>1
    <3> QED  BY <3>1, <3>2, <2>1, <1>2
  <2>2. CASE x < 0 /\ ~(y < 0)
    <3>1. k = 0 - q /\ u = 0 - x /\ v = y
      BY <1>1, <1>4, <1>5, <2>2 DEF Absolute
    <3>2. v * q = 0 - y * k
      BY <3>1, <1>3
    <3> QED  BY <3>1, <3>2, <2>2, <1>2
  <2>3. CASE ~(x < 0) /\ y < 0
    <3>1. k = 0 - q /\ u = x /\ v = 0 - y
      BY <1>1, <1>4, <1>5, <2>3 DEF Absolute
    <3>2. v * q = y * k
      BY <3>1, <1>3
    <3> QED  BY <3>1, <3>2, <2>3, <1>2
  <2>4. CASE ~(x < 0) /\ ~(y < 0)
    <3>1. k = q /\ u = x /\ v = y
      BY <1>1, <1>4, <1>5, <2>4 DEF Absolute
    <3> QED  BY <3>1, <2>4, <1>2
  <2> QED  BY <2>1, <2>2, <2>3, <2>4
<1>8. r \in Nat /\ r < v
  BY <1>1, <1>2
<1> QED  BY <1>1, <1>2, <1>3, <1>4, <1>5, <1>6, <1>7, <1>8

\* DIVU: quotient and remainder of words are words, the remainder smaller than the divisor.
LEMMA UnsignedQuotient ==
  ASSUME NEW a \in Values, NEW b \in Values, b # 0
  PROVE  LET hi == Word(Remainder(a, b))
             lo == Word(Quotient(a, b))
         IN hi < b /\ lo * b + hi = a
<1>1. a \in Nat /\ b \in Nat /\ b # 0
  BY DEF Values
<1>2. PICK q \in Nat, r \in Nat : /\ r < Absolute(b) /\ Absolute(a) = Absolute(b) * q + r
                                  /\ Quotient(a, b) = (IF (a < 0 <=> b < 0) THEN q ELSE 0 - q)
                                  /\ Remainder(a, b) = (IF a < 0 THEN 0 - r ELSE r)
  <2>1. a \in Int /\ b \in Int
    BY <1>1
  <2> QED  BY <1>1, <2>1, QuotientFacts
<1>3. Absolute(a) = a /\ Absolute(b) = b /\ Quotient(a, b) = q /\ Remainder(a, b) = r
  BY <1>1, <1>2 DEF Absolute
<1>4. q <= a /\ r <= a
  <2>1. b * q >= q
    BY <1>1
  <2> QED  BY <2>1, <1>1, <1>2, <1>3
<1>5. q \in Values /\ r \in Values
  BY <1>1, <1>4, WordPowers DEF Values
<1>6. Word(q) = q /\ Word(r) = r
  BY <1>5, WordOfValue
<1>7. q * b + r = a
  BY <1>1, <1>2, <1>3
<1> QED  BY <1>2, <1>3, <1>6, <1>7

\* The only quotient that is no word is that of the smallest number by -1.
LEMMA SignedQuotient ==
  ASSUME NEW a \in Values, NEW b \in Values, b # 0, ~(a = SignBit /\ b = 2^WordBits - 1)
  PROVE  LET hi == Word(Remainder(Signed(a), Signed(b)))
             lo == Word(Quotient(Signed(a), Signed(b)))
         IN /\ Signed(lo) * Signed(b) + Signed(hi) = Signed(a)
            /\ Absolute(Signed(hi)) < Absolute(Signed(b))
            /\ Signed(hi) * Signed(a) >= 0
<1>1. PICK s \in Nat \ {0}, w \in Nat \ {0} : s = SignBit /\ w = 2^WordBits /\ w = 2 * s
  BY WordPowers
<1>2. PICK x \in Int, y \in Int :
        /\ x = Signed(a) /\ x >= -s /\ x < s /\ (x = -s => a = s)
        /\ y = Signed(b) /\ y >= -s /\ y < s /\ (y = -1 => b = w - 1) /\ y # 0
  <2>1. ASSUME NEW v \in Values
        PROVE  /\ Signed(v) \in Int /\ Signed(v) >= -s /\ Signed(v) < s
               /\ (Signed(v) = -s => v = s) /\ (Signed(v) = -1 => v = w - 1) /\ (Signed(v) = 0 => v = 0)
    <3>1. v \in 0 .. w - 1 /\ Signed(v) = (IF v >= s THEN v - 2 * s ELSE v)
      BY <1>1, SignedRange DEF Values
    <3> QED  BY <1>1, <3>1
  <2> QED  BY <2>1
<1>3. PICK q \in Nat, r \in Nat : /\ r < Absolute(y) /\ Absolute(x) = Absolute(y) * q + r
                                  /\ Quotient(x, y) = (IF (x < 0 <=> y < 0) THEN q ELSE 0 - q)
                                  /\ Remainder(x, y) = (IF x < 0 THEN 0 - r ELSE r)
                                  /\ y * Quotient(x, y) + Remainder(x, y) = x
  <2>1. x \in Int /\ y \in Int /\ y # 0
    BY <1>2
  <2> QED  BY <2>1, QuotientFacts
<1>4. PICK u \in 0 .. s, v \in 1 .. s : u = Absolute(x) /\ v = Absolute(y)
  BY <1>1, <1>2 DEF Absolute
<1>5. q <= u /\ (q = s => v = 1 /\ u = s)
  <2>1. u = v * q + r
    BY <1>3, <1>4
  <2>2. v * q >= q
    BY <1>4
  <2>3. CASE v >= 2
    <3>1. v * q >= 2 * q
      BY <2>3, <1>4
    <3> QED  BY <3>1, <2>1, <2>2, <1>1, <1>3, <1>4
  <2>4. CASE v = 1
    BY <2>4, <2>1, <1>1, <1>3, <1>4
  <2> QED  BY <2>3, <2>4, <1>1, <1>4
<1>6. Quotient(x, y) \in -s .. s - 1
  <2>1. CASE q = s
    <3>1. v = 1 /\ u = s
      BY <2>1, <1>5
    <3>2. x = -s
      BY <3>1, <1>1, <1>2, <1>4 DEF Absolute
    <3>3. y = 1
      <4>1. y = 1 \/ y = -1
        BY <3>1, <1>2, <1>4 DEF Absolute
      <4>2. y # -1
        BY <3>2, <1>1, <1>2
      <4> QED  BY <4>1, <4>2
    <3> QED  BY <3>2, <3>3, <2>1, <1>1, <1>3
  <2>2. CASE q # s
    <3>1. q \in 0 .. s - 1
      BY <2>2, <1>1, <1>3, <1>4, <1>5
    <3> QED  BY <3>1, <1>1, <1>3
  <2> QED  BY <2>1, <2>2
<1>7. Remainder(x, y) \in -s .. s - 1 /\ Absolute(Remainder(x, y)) = r
  <2>1. r \in 0 .. s - 1
    BY <1>1, <1>3, <1>4
  <2> QED  BY <2>1, <1>1, <1>3 DEF Absolute
<1>8. Signed(Word(Quotient(x, y))) = Quotient(x, y) /\ Signed(Word(Remainder(x, y))) = Remainder(x, y)
  BY <1>1, <1>6, <1>7, SignedWord
<1>9. Quotient(x, y) * y + Remainder(x, y) = x
  <2>1. \A m, n \in Int : m * n = n * m
    OBVIOUS
  <2>2. Quotient(x, y) \in Int
    BY <1>1, <1>6
  <2> QED  BY <2>1, <2>2, <1>2, <1>3
<1>10. Remainder(x, y) * x >= 0
  <2>1. CASE x < 0
    <3>1. (0 - r) * x = r * (0 - x) /\ r * (0 - x) >= 0
      BY <2>1, <1>2, <1>3
    <3> QED  BY <2>1, <3>1, <1>3
  <2>2. CASE ~(x < 0)
    <3>1. r * x >= 0
      BY <2>2, <1>2, <1>3
    <3> QED  BY <2>2, <3>1, <1>3
  <2> QED  BY <2>1, <2>2
<1>11. Absolute(Remainder(x, y)) < Absolute(y)
  BY <1>3, <1>7
<1> QED  BY <1>2, <1>8, <1>9, <1>10, <1>11

-----------------------------------------------------------------------------
(***************************************************************************)
(* The arithmetic of an instruction.                                       *)
(***************************************************************************)

\* A register has the value of what is laid over, where that has one.
LEMMA LaidOver ==
  ASSUME NEW f, NEW g, NEW r, r \in DOMAIN f \/ r \in DOMAIN g
  PROVE  r \in DOMAIN (f ++ g) /\ (f ++ g)[r] = IF r \in DOMAIN f THEN f[r] ELSE g[r]
BY DEF ++

\* Two parts that write nothing write nothing together.
LEMMA NothingLaid ==
  ASSUME NEW f, NEW g, DOMAIN f = {}, DOMAIN g = {}
  PROVE  DOMAIN (f ++ g) = {}
BY DEF ++

Products == {"MULT", "MULTU", "DIV", "DIVU"}

\* Of what an operation writes, that of a product is all.
LEMMA ProductIsResult ==
  ASSUME NEW i, i.op \in Products, NEW hi, NEW lo, Product(i) = HiLo(hi, lo)
  PROVE  (Result(i) ++ registers)[HiReg] = hi /\ (Result(i) ++ registers)[LoReg] = lo
<1> DEFINE before == Sum(i) ++ Logical(i) ++ Compared(i) ++ Shifted(i) ++ Moved(i)
<1>1. /\ DOMAIN Sum(i) = {} /\ DOMAIN Logical(i) = {} /\ DOMAIN Compared(i) = {}
      /\ DOMAIN Shifted(i) = {} /\ DOMAIN Moved(i) = {} /\ DOMAIN Linked(i) = {}
  <2>1. DOMAIN <<>> = {}
    OBVIOUS
  <2>2. Sum(i) = <<>> /\ Compared(i) = <<>> /\ Moved(i) = <<>> /\ Linked(i) = <<>>
    BY DEF Products, Sum, Compared, Moved, Linked
  <2>3. Logical(i) = <<>>
    BY DEF Products, Logical
  <2>4. Shifted(i) = <<>>
    BY DEF Products, Shifted
  <2> QED  BY <2>1, <2>2, <2>3, <2>4
<1>2. DOMAIN before = {}
  <2>1. DOMAIN (Sum(i) ++ Logical(i)) = {}
    BY <1>1, NothingLaid
  <2>2. DOMAIN (Sum(i) ++ Logical(i) ++ Compared(i)) = {}
    BY <1>1, <2>1, NothingLaid
  <2>3. DOMAIN (Sum(i) ++ Logical(i) ++ Compared(i) ++ Shifted(i)) = {}
    BY <1>1, <2>2, NothingLaid
  <2> QED  BY <1>1, <2>3, NothingLaid
<1>3. Result(i) = before ++ HiLo(hi, lo) ++ Linked(i)
  BY DEF Result
<1> HIDE DEF before
<1>4. /\ HiReg \in DOMAIN HiLo(hi, lo) /\ LoReg \in DOMAIN HiLo(hi, lo)
      /\ HiLo(hi, lo)[HiReg] = hi /\ HiLo(hi, lo)[LoReg] = lo
  BY RegisterNumbers DEF HiLo, ++, Write
<1>5. \A r \in {HiReg, LoReg} : (Result(i) ++ registers)[r] = HiLo(hi, lo)[r]
  <2> SUFFICES ASSUME NEW r \in {HiReg, LoReg} PROVE (Result(i) ++ registers)[r] = HiLo(hi, lo)[r]
    OBVIOUS
  <2>1. r \in DOMAIN HiLo(hi, lo) /\ r \notin DOMAIN before
    BY <1>2, <1>4
  <2>2. r \in DOMAIN (before ++ HiLo(hi, lo)) /\ (before ++ HiLo(hi, lo))[r] = HiLo(hi, lo)[r]
    BY <2>1, LaidOver
  <2>3. r \in DOMAIN Result(i) /\ Result(i)[r] = HiLo(hi, lo)[r]
    BY <2>2, <1>3, LaidOver
  <2> QED  BY <2>3, LaidOver
<1> QED  BY <1>4, <1>5

\* An operation with a double result leaves it in HI and LO.
LEMMA ProductStep ==
  ASSUME MachInv, NEW i, Decoded(i), i.op \in Products, Execute(i),
         NEW hi, NEW lo, Product(i) = HiLo(hi, lo)
  PROVE  registers'[HiReg] = hi /\ registers'[LoReg] = lo
<1> DEFINE regs == Result(i) ++ registers
<1>1. RegsTyped(registers)
  BY DEF MachInv
<1>2. Advance(regs, i, 0, 0)
  <2>1. ~Overflows(i)
    BY DEF Overflows, Products
  <2>2. i.op # "SYSCALL" /\ i.op \notin {"RES", "UNIMP"}
    BY DEF Products
  <2> QED  BY <2>1, <2>2 DEF Execute
<1>3. /\ RegsTyped(regs) /\ \A r \in Regs \ Writable : regs[r] = registers[r]
  BY <1>1, ResultWrites, ResultsLaid
<1>4. LoadReg \in Regs \ Writable /\ LoadValueReg \in Regs \ Writable
  BY RegisterNumbers
<1>5. regs[LoadReg] = registers[LoadReg] /\ regs[LoadValueReg] = registers[LoadValueReg]
  BY <1>3, <1>4
<1>6. 0 \in General /\ 0 \in Values
  BY RegisterNumbers, FlagIsValue
<1>7. regs[HiReg] = hi /\ regs[LoReg] = lo
  BY ProductIsResult
<1> HIDE DEF regs
<1>8. \A r \in {HiReg, LoReg} : registers'[r] = regs[r]
  BY <1>1, <1>2, <1>3, <1>5, <1>6, AdvanceStep
<1> QED  BY <1>7, <1>8

\* What ArithmeticExact asks of a step that has executed i, kind by kind.
OverflowExact(i) ==
  LET a == registers[i.rs]
      b == IF i.op = "ADDI" THEN i.extra ELSE registers[i.rt]
      sum == IF i.op = "SUB" THEN Signed(a) - Signed(b) ELSE Signed(a) + Signed(b)
  IN i.op \in {"ADD", "ADDI", "SUB"} =>
       (exception' = "Overflow") = (sum \notin -SignBit .. SignBit - 1)

ProductExact(i) ==
  LET a == registers[i.rs]
      b == registers[i.rt]
      hi == registers'[HiReg]
      lo == registers'[LoReg]
  IN /\ i.op = "MULT" => Signed(hi) * 2^WordBits + lo = Signed(a) * Signed(b)
     /\ i.op = "MULTU" => hi * 2^WordBits + lo = a * b

QuotientExact(i) ==
  LET a == registers[i.rs]
      b == registers[i.rt]
      hi == registers'[HiReg]
      lo == registers'[LoReg]
  IN /\ i.op = "DIVU" /\ b # 0 => hi < b /\ lo * b + hi = a
     /\ i.op = "DIV" /\ b # 0 => /\ Signed(lo) * Signed(b) + Signed(hi) = Signed(a)
                                 /\ Absolute(Signed(hi)) < Absolute(Signed(b))
                                 /\ Signed(hi) * Signed(a) >= 0

\* ADD, ADDI and SUB raise Overflow exactly when the sum or difference is no word.
LEMMA OverflowIsExact ==
  ASSUME MachInv, NEW i, Decoded(i), Execute(i)
  PROVE  OverflowExact(i)
<1> DEFINE a == registers[i.rs]
           b == IF i.op = "ADDI" THEN i.extra ELSE registers[i.rt]
           sum == IF i.op = "SUB" THEN Signed(a) - Signed(b) ELSE Signed(a) + Signed(b)
<1> SUFFICES ASSUME i.op \in {"ADD", "ADDI", "SUB"}
             PROVE  (exception' = "Overflow") = (sum \notin -SignBit .. SignBit - 1)
  BY DEF OverflowExact
<1>1. a \in Values /\ b \in Values
  <2>1. i.rs \in Regs \ {LoadReg} /\ (i.op # "ADDI" => i.rt \in Regs \ {LoadReg})
    BY RegisterNumbers DEF Decoded, BranchOps
  <2>2. \A r \in Regs \ {LoadReg} : registers[r] \in Values
    BY DEF MachInv, RegsTyped
  <2> QED  BY <2>1, <2>2 DEF Decoded
<1>2. exception' = IF Overflows(i) THEN "Overflow" ELSE "NoException"
  <2>1. i.op # "SYSCALL" /\ i.op \notin {"RES", "UNIMP"}
    OBVIOUS
  <2> QED  BY <2>1 DEF Execute, RaiseException, Advance
<1>3. Overflows(i) = IF i.op = "SUB" THEN ~SameSign(a, b) /\ ~SameSign(a, Word(a - b))
                     ELSE SameSign(a, b) /\ ~SameSign(b, Word(a + b))
  <2>1. CASE i.op = "SUB"
    BY <2>1 DEF Overflows
  <2>2. CASE i.op # "SUB"
    BY <2>2 DEF Overflows
  <2> QED  BY <2>1, <2>2
<1> HIDE DEF a, b
<1>4. CASE i.op = "SUB"
  <2>1. Overflows(i) <=> sum \notin -SignBit .. SignBit - 1
    BY <1>1, <1>3, <1>4, DifferenceOverflows
  <2> HIDE DEF sum
  <2> QED  BY <1>2, <2>1
<1>5. CASE i.op # "SUB"
  <2>1. Overflows(i) <=> sum \notin -SignBit .. SignBit - 1
    BY <1>1, <1>3, <1>5, SumOverflows
  <2> HIDE DEF sum
  <2> QED  BY <1>2, <2>1
<1> QED  BY <1>4, <1>5

\* MULT and MULTU leave the product in HI and LO.
LEMMA ProductIsExact ==
  ASSUME MachInv, NEW i, Decoded(i), Execute(i)
  PROVE  ProductExact(i)
<1> DEFINE a == registers[i.rs]
           b == registers[i.rt]
           p(s) == Mult(a, b, s)
<1>1. SUFFICES ASSUME i.op \in {"MULT", "MULTU"} PROVE ProductExact(i)
  BY DEF ProductExact
<1>2. a \in Values /\ b \in Values
  <2>1. i.rs \in Regs \ {LoadReg} /\ i.rt \in Regs \ {LoadReg}
    BY <1>1, RegisterNumbers DEF Decoded, BranchOps
  <2> QED  BY <2>1 DEF MachInv, RegsTyped
<1>3. i.op \in Products
  BY <1>1 DEF Products
<1>4. CASE i.op = "MULT"
  <2>1. Product(i) = HiLo(p(TRUE).hi, p(TRUE).lo)
    BY <1>4 DEF Product, MultResult
  <2>2. registers'[HiReg] = p(TRUE).hi /\ registers'[LoReg] = p(TRUE).lo
    <3> HIDE DEF p
    <3> QED  BY <1>3, <2>1, ProductStep
  <2>3. Signed(p(TRUE).hi) * 2^WordBits + p(TRUE).lo = Signed(a) * Signed(b)
    <3> HIDE DEF a, b
    <3> QED  BY <1>2, SignedProduct
  <2> HIDE DEF p
  <2> QED  BY <1>4, <2>2, <2>3 DEF ProductExact
<1>5. CASE i.op = "MULTU"
  <2>1. Product(i) = HiLo(p(FALSE).hi, p(FALSE).lo)
    BY <1>5 DEF Product, MultResult
  <2>2. registers'[HiReg] = p(FALSE).hi /\ registers'[LoReg] = p(FALSE).lo
    <3> HIDE DEF p
    <3> QED  BY <1>3, <2>1, ProductStep
  <2>3. p(FALSE).hi * 2^WordBits + p(FALSE).lo = a * b
    <3> HIDE DEF a, b
    <3> QED  BY <1>2, UnsignedProduct
  <2> HIDE DEF p
  <2> QED  BY <1>5, <2>2, <2>3 DEF ProductExact
<1> QED  BY <1>1, <1>4, <1>5

\* DIV and DIVU leave quotient and remainder in LO and HI.
LEMMA QuotientIsExact ==
  ASSUME MachInv, NEW i, Decoded(i), Execute(i), ~HostTraps(i)
  PROVE  QuotientExact(i)
<1> DEFINE a == registers[i.rs]
           b == registers[i.rt]
<1>1. SUFFICES ASSUME i.op \in {"DIV", "DIVU"}, b # 0 PROVE QuotientExact(i)
  BY DEF QuotientExact
<1>2. a \in Values /\ b \in Values
  <2>1. i.rs \in Regs \ {LoadReg} /\ i.rt \in Regs \ {LoadReg}
    BY <1>1, RegisterNumbers DEF Decoded, BranchOps
  <2> QED  BY <2>1 DEF MachInv, RegsTyped
<1>3. i.op \in Products
  BY <1>1 DEF Products
<1>4. CASE i.op = "DIVU"
  <2> DEFINE hi == Word(Remainder(a, b))
             lo == Word(Quotient(a, b))
  <2>1. Product(i) = HiLo(hi, lo)
    BY <1>1, <1>4 DEF Product, DivResult
  <2>2. registers'[HiReg] = hi /\ registers'[LoReg] = lo
    <3> HIDE DEF hi, lo
    <3> QED  BY <1>3, <2>1, ProductStep
  <2>3. hi < b /\ lo * b + hi = a
    <3> HIDE DEF a, b
    <3> QED  BY <1>1, <1>2, UnsignedQuotient
  <2> HIDE DEF hi, lo
  <2> QED  BY <1>4, <2>2, <2>3 DEF QuotientExact
<1>5. CASE i.op = "DIV"
  <2> DEFINE hi == Word(Remainder(Signed(a), Signed(b)))
             lo == Word(Quotient(Signed(a), Signed(b)))
  <2>1. Product(i) = HiLo(hi, lo)
    <3>1. Signed(b) # 0
      <4> HIDE DEF b
      <4> QED  BY <1>1, <1>2, WordPowers DEF Signed, Negative, Values
    <3> QED  BY <3>1, <1>5 DEF Product, DivResult
  <2>2. registers'[HiReg] = hi /\ registers'[LoReg] = lo
    <3> HIDE DEF hi, lo
    <3> QED  BY <1>3, <2>1, ProductStep
  <2>3. ~(a = SignBit /\ b = 2^WordBits - 1)
    BY <1>5 DEF HostTraps
  <2>4. /\ Signed(lo) * Signed(b) + Signed(hi) = Signed(a)
        /\ Absolute(Signed(hi)) < Absolute(Signed(b))
        /\ Signed(hi) * Signed(a) >= 0
    <3> HIDE DEF a, b
    <3> QED  BY <1>1, <1>2, <2>3, SignedQuotient
  <2> HIDE DEF hi, lo
  <2> QED  BY <1>5, <2>2, <2>4 DEF QuotientExact
<1> QED  BY <1>1, <1>4, <1>5

\* The operations it is about are executed, never loads or stores.
LEMMA ArithmeticStep ==
  ASSUME MachInv, MachNext, instr' # NoInstr
  PROVE  OverflowExact(instr') /\ ProductExact(instr') /\ QuotientExact(instr')
<1>1. PICK w \in Words : OneInstruction(w)
  BY DEF MachNext
<1> DEFINE i == Decode(w)
<1>2. Decoded(i)
  BY WordsAreDecoded
<1>3. ~HostTraps(i) /\ (Execute(i) \/ Load(i) \/ StoreStep(i)) /\ instr' = i
  BY <1>1 DEF OneInstruction
<1> HIDE DEF i
<1>4. CASE Execute(i)
  BY <1>2, <1>3, <1>4, OverflowIsExact, ProductIsExact, QuotientIsExact
<1>5. CASE Load(i) \/ StoreStep(i)
  <2>1. i.op \in Loads \cup Stores
    BY <1>5 DEF Load, StoreStep
  <2>2. i.op \notin {"ADD", "ADDI", "SUB"} \cup Products
    BY <2>1 DEF Loads, Stores, Products
  <2>3. OverflowExact(i)
    BY <2>2 DEF OverflowExact
  <2>4. ProductExact(i) /\ QuotientExact(i)
    BY <2>2 DEF ProductExact, QuotientExact, Products
  <2> QED  BY <1>3, <2>3, <2>4
<1> QED  BY <1>3, <1>4, <1>5

\* For every width of the bytes and all operands, the arithmetic is that of the integers: the
\* overflow test, the loop of Mult with its carries, and the division of magnitudes.
THEOREM ArithmeticIsExact == MachSpec => ArithmeticExact
<1>1. MachInv /\ [MachNext]_machVars =>
      [LET i == instr'
           a == registers[i.rs]
           b == IF i.op = "ADDI" THEN i.extra ELSE registers[i.rt]
           sum == IF i.op = "SUB" THEN Signed(a) - Signed(b) ELSE Signed(a) + Signed(b)
           hi == registers'[HiReg]
           lo == registers'[LoReg]
           Abs(n) == IF n < 0 THEN -n ELSE n
       IN i # NoInstr =>
            /\ i.op \in {"ADD", "ADDI", "SUB"} =>
                 (exception' = "Overflow") = (sum \notin -SignBit .. SignBit - 1)
            /\ i.op = "MULT" => Signed(hi) * 2^WordBits + lo = Signed(a) * Signed(b)
            /\ i.op = "MULTU" => hi * 2^WordBits + lo = a * b
            /\ i.op = "DIVU" /\ b # 0 => hi < b /\ lo * b + hi = a
            /\ i.op = "DIV" /\ b # 0 => /\ Signed(lo) * Signed(b) + Signed(hi) = Signed(a)
                                        /\ Abs(Signed(hi)) < Abs(Signed(b))
                                        /\ Signed(hi) * Signed(a) >= 0]_machVars
  <2> DEFINE i == instr'
             b == IF i.op = "ADDI" THEN i.extra ELSE registers[i.rt]
             Abs(n) == IF n < 0 THEN -n ELSE n
  <2> SUFFICES ASSUME MachInv, MachNext, i # NoInstr
               PROVE  /\ OverflowExact(i)
                      /\ i.op = "MULT" => Signed(registers'[HiReg]) * 2^WordBits + registers'[LoReg]
                                          = Signed(registers[i.rs]) * Signed(b)
                      /\ i.op = "MULTU" => registers'[HiReg] * 2^WordBits + registers'[LoReg]
                                           = registers[i.rs] * b
                      /\ i.op = "DIVU" /\ b # 0 => /\ registers'[HiReg] < b
                                                   /\ registers'[LoReg] * b + registers'[HiReg] = registers[i.rs]
                      /\ i.op = "DIV" /\ b # 0 =>
                           /\ Signed(registers'[LoReg]) * Signed(b) + Signed(registers'[HiReg])
                              = Signed(registers[i.rs])
                           /\ Abs(Signed(registers'[HiReg])) < Abs(Signed(b))
                           /\ Signed(registers'[HiReg]) * Signed(registers[i.rs]) >= 0
    BY DEF OverflowExact
  <2>1. OverflowExact(i) /\ ProductExact(i) /\ QuotientExact(i)
    BY ArithmeticStep
  <2>2. i.op \in Products => b = registers[i.rt]
    BY DEF Products
  <2>3. \A n \in Int : Abs(n) = Absolute(n)
    BY DEF Absolute
  <2>4. i.op \in Products => Signed(registers'[HiReg]) \in Int /\ Signed(b) \in Int
    <3> HAVE i.op \in Products
    <3>1. i = NoInstr \/ Decoded(i)
      BY StepSound
    <3>2. i.rt \in General
      BY <3>1 DEF Decoded, BranchOps, Products
    <3>3. registers'[HiReg] \in Values
      BY StepSound, RegisterNumbers DEF StepIsSound, RegsTyped, Writable
    <3>4. registers[i.rt] \in Values
      BY <3>2, RegisterNumbers DEF MachInv, RegsTyped
    <3> HIDE DEF b, i
    <3> QED  BY <2>2, <3>3, <3>4, SignedIsInt
  <2>5. i.op \in Products => /\ Abs(Signed(registers'[HiReg])) = Absolute(Signed(registers'[HiReg]))
                             /\ Abs(Signed(b)) = Absolute(Signed(b))
    <3> HIDE DEF b, i, Abs
    <3> QED  BY <2>3, <2>4
  <2> HIDE DEF b, i, Abs
  <2> QED  BY <2>1, <2>2, <2>5 DEF ProductExact, QuotientExact, Products
<1> QED  BY <1>1, MachineTypeCorrect, PTL DEF MachSpec, ArithmeticExact
=============================================================================

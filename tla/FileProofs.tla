----------------------------- MODULE FileProofs -----------------------------
(***************************************************************************)
(* What is proved of files: their contents, of OpenFile, for any threads,  *)
(* any length of the file and any size of sector; and the directory, the   *)
(* headers and the free map, of FileSystem, for one user, any number of    *)
(* entries and of sectors, and a crash at any point.                       *)
(***************************************************************************)
EXTENDS FileSystem, OpenFile, SequenceTheorems, FiniteSetTheorems,
        WellFoundedInduction, TLAPS

-----------------------------------------------------------------------------
(***************************************************************************)
(* The contents of a file: reads and writes through whole sectors.         *)
(***************************************************************************)

Values == Threads \cup {Old, Junk}

Accessed == [kind : {"read", "write"}, sector : Int]

Calls ==
  [write : BOOLEAN, position : Nat, numBytes : Nat \ {0}, buf : [Bytes -> Values],
   start : [Bytes -> Values], todo : Seq(Accessed)]

OfTypes ==
  /\ bytes \in [Bytes -> Values] /\ image \in [Bytes -> Values]
  /\ seekPosition \in [Threads -> 0 .. FileLength]
  /\ call \in [Threads -> Calls \cup {NoCall}]
  /\ calls \in [Threads -> Nat]
  /\ raced \in BOOLEAN /\ wrong \in BOOLEAN

\* The sectors that a call is still to read or to write.
SectorsOf(todo, kind) ==
  {todo[i].sector : i \in {j \in 1 .. Len(todo) : todo[j].kind = kind}}
Left(t, kind) == SectorsOf(call[t].todo, kind)
ReadsFirst(todo) ==
  \A i, j \in 1 .. Len(todo) : todo[i].kind = "read" /\ todo[j].kind = "write" => i < j

\* A call stays in the file and in the sectors of its bytes, reads before it writes,
\* and writes only if it is a Write.
CallsInRange ==
  \A t \in Threads : ~Idle(t) =>
    /\ call[t].position = seekPosition[t]
    /\ call[t].position + call[t].numBytes <= FileLength
    /\ Left(t, "write") \subseteq Touches(call[t])
    /\ ReadsFirst(call[t].todo)

\* As long as no two writes have shared a sector, none do.
Apart ==
  \A t, u \in Threads : t # u => Touches(call[t]) \cap Touches(call[u]) = {}

InFile(b) == b \in Bytes /\ b < FileLength

\* In a sector that a Write touches: its own bytes are there or will be, and the rest
\* stays what it was, on the disk and, once read, in the buffer.
WritesExact ==
  \A t \in Threads, b \in Bytes :
    b < FileLength /\ Sector(b) \in Touches(call[t]) =>
      IF b \in Span(call[t])
      THEN bytes[b] = t \/ (bytes[b] = image[b] /\ Sector(b) \in Left(t, "write"))
      ELSE bytes[b] = image[b] /\ (call[t].buf[b] = image[b] \/ Sector(b) \in Left(t, "read"))

\* What a Read has seen, or will see, was there at its start or is another's since.
ReadsExact ==
  \A t \in Threads, b \in Bytes :
    b < FileLength /\ ~Idle(t) /\ ~call[t].write =>
      /\ image[b] = call[t].start[b] \/ image[b] \in Threads \ {t}
      /\ b \in Span(call[t]) => \/ Sector(b) \in Left(t, "read")
                                \/ call[t].buf[b] = call[t].start[b]
                                \/ call[t].buf[b] \in Threads \ {t}

RestExact ==
  \A b \in Bytes :
    b < FileLength /\ (\A t \in Threads : Sector(b) \notin Touches(call[t])) => bytes[b] = image[b]

OfInv ==
  /\ OfTypes /\ CallsInRange
  /\ ~raced => ~wrong /\ Apart /\ WritesExact /\ ReadsExact /\ RestExact

-----------------------------------------------------------------------------
(***************************************************************************)
(* Bytes and sectors.                                                      *)
(***************************************************************************)

\* What a quotient is between.
LEMMA Quotient ==
  ASSUME NEW x \in Int, NEW d \in Nat \ {0}
  PROVE  x \div d \in Int /\ (x \div d) * d <= x /\ x < (x \div d) * d + d
OBVIOUS

\* Products with the same factor are ordered as the others.
LEMMA ProductOrder ==
  ASSUME NEW a \in Int, NEW b \in Int, NEW d \in Nat \ {0}
  PROVE  (a < b => a * d + d <= b * d) /\ (a <= b => a * d <= b * d)
<1>1. ASSUME NEW x \in Int, NEW y \in Int, x <= y
      PROVE  x * d <= y * d
  BY <1>1
<1>2. (a + 1) * d = a * d + d /\ a + 1 \in Int
  OBVIOUS
<1> QED  BY <1>1, <1>2

\* A sector is the bytes from its start to the start of the next.
LEMMA SectorIs ==
  ASSUME NEW b \in Int, NEW s \in Int
  PROVE  /\ Sector(b) \in Int /\ s * SectorSize \in Int
         /\ Sector(b) = s <=> s * SectorSize <= b /\ b < s * SectorSize + SectorSize
         /\ Sector(b) < s <=> b < s * SectorSize
<1> DEFINE q == Sector(b)
<1>1. SectorSize \in Nat \ {0}
  BY OpenFileAssumption
<1>2. q \in Int /\ q * SectorSize <= b /\ b < q * SectorSize + SectorSize
  BY <1>1, Quotient DEF Sector
<1> HIDE DEF q
<1>3. q * SectorSize \in Int /\ s * SectorSize \in Int
  BY <1>1, <1>2
<1>4. q < s => q * SectorSize + SectorSize <= s * SectorSize
  BY <1>1, <1>2, ProductOrder
<1>5. s < q => s * SectorSize + SectorSize <= q * SectorSize
  BY <1>1, <1>2, ProductOrder
<1>6. q = s <=> s * SectorSize <= b /\ b < s * SectorSize + SectorSize
  BY <1>1, <1>2, <1>3, <1>4, <1>5
<1>7. q < s <=> b < s * SectorSize
  <2>1. q < s \/ q = s \/ s < q
    BY <1>2
  <2> QED  BY <1>1, <1>2, <1>3, <1>4, <1>5, <2>1
<1> QED  BY <1>2, <1>3, <1>6, <1>7 DEF q

\* Sectors come in the order of their positions.
LEMMA SectorOrder ==
  ASSUME NEW a \in Int, NEW b \in Int, a <= b
  PROVE  Sector(a) <= Sector(b)
<1>1. Sector(a) \in Int /\ Sector(b) \in Int
  BY SectorIs
<1>2. ~(Sector(b) < Sector(a))
  <2>1. ASSUME Sector(b) < Sector(a)
        PROVE  FALSE
    <3>1. b < Sector(a) * SectorSize
      BY <1>1, <2>1, SectorIs
    <3>2. Sector(a) * SectorSize <= a /\ Sector(a) * SectorSize \in Int
      BY <1>1, SectorIs
    <3> QED  BY <3>1, <3>2
  <2> QED  BY <2>1
<1> QED  BY <1>1, <1>2

\* All bytes before the end of the file are bytes of its sectors.
LEMMA FileInBytes == \A b \in Nat : b < FileLength => b \in Bytes
<1>1. FileLength \in Nat /\ SectorSize \in Nat \ {0}
  BY OpenFileAssumption
<1> SUFFICES ASSUME NEW b \in Nat, b < FileLength
             PROVE  b \in Bytes
  OBVIOUS
<1> DEFINE last == Sector(FileLength - 1)
<1>2. /\ last \in Int /\ last * SectorSize \in Int
      /\ FileLength - 1 < last * SectorSize + SectorSize
  BY <1>1, SectorIs
<1>3. (last + 1) * SectorSize = last * SectorSize + SectorSize
  <2> HIDE DEF last
  <2> QED  BY <1>1, <1>2
<1> HIDE DEF last
<1>4. (last + 1) * SectorSize \in Int /\ b <= (last + 1) * SectorSize - 1
  BY <1>1, <1>2, <1>3
<1> QED  BY <1>4 DEF Bytes, last

\* Positions are numbers.
LEMMA BytesInt == Bytes \subseteq Nat
BY DEF Bytes

-----------------------------------------------------------------------------
(***************************************************************************)
(* The accesses of a call.                                                 *)
(***************************************************************************)

Reach(position, n) == FirstSector(position) .. LastSector(position, n)

\* The sectors of a span are those from its first to its last.
LEMMA SpanSectors ==
  ASSUME NEW position \in Nat, NEW n \in Nat \ {0}
  PROVE  /\ FirstSector(position) \in Int /\ LastSector(position, n) \in Int
         /\ FirstSector(position) <= LastSector(position, n)
         /\ \A b \in position .. position + n - 1 : Sector(b) \in Reach(position, n)
         /\ \A s \in Reach(position, n) : \E b \in position .. position + n - 1 : Sector(b) = s
<1> DEFINE end == position + n - 1
<1>1. end \in Int /\ position <= end /\ SectorSize \in Nat \ {0}
  BY OpenFileAssumption
<1>2. FirstSector(position) = Sector(position) /\ LastSector(position, n) = Sector(end)
  BY DEF FirstSector, LastSector
<1> HIDE DEF end
<1>3. Sector(position) \in Int /\ Sector(end) \in Int /\ Sector(position) <= Sector(end)
  BY <1>1, SectorIs, SectorOrder
<1>4. ASSUME NEW b \in position .. end
      PROVE  Sector(b) \in Reach(position, n)
  <2>1. Sector(b) \in Int /\ Sector(position) <= Sector(b) /\ Sector(b) <= Sector(end)
    BY <1>1, SectorIs, SectorOrder
  <2> QED  BY <1>2, <1>3, <2>1 DEF Reach
<1>5. ASSUME NEW s \in Reach(position, n)
      PROVE  \E b \in position .. end : Sector(b) = s
  <2>1. s \in Int /\ Sector(position) <= s /\ s <= Sector(end)
    BY <1>2, <1>3 DEF Reach
  <2>2. CASE s = Sector(position)
    BY <1>1, <2>2
  <2>3. CASE s # Sector(position)
    <3>1. Sector(position) < s /\ ~(Sector(end) < s)
      BY <1>3, <2>1, <2>3
    <3>2. s * SectorSize \in Int /\ position < s * SectorSize /\ ~(end < s * SectorSize)
      BY <1>1, <2>1, <3>1, SectorIs
    <3>3. s * SectorSize < s * SectorSize + SectorSize
      BY <1>1, <3>2
    <3>4. Sector(s * SectorSize) = s
      BY <2>1, <3>2, <3>3, SectorIs
    <3>5. s * SectorSize \in position .. end
      BY <1>1, <3>2
    <3> QED  BY <3>4, <3>5
  <2> QED  BY <2>2, <2>3
<1> QED  BY <1>2, <1>3, <1>4, <1>5 DEF end

\* A list of sectors as accesses of one kind, in the same order.
LEMMA AccessesAre ==
  ASSUME NEW kind \in {"read", "write"}, NEW list \in Seq(Int)
  PROVE  /\ Accesses(kind, list) \in Seq(Accessed) /\ Len(Accesses(kind, list)) = Len(list)
         /\ \A i \in 1 .. Len(list) : /\ Accesses(kind, list)[i].kind = kind
                                      /\ Accesses(kind, list)[i].sector = list[i]
BY DEF Accesses, Accessed

\* The first and the last sector are read in if the bytes leave a part of them alone.
LEMMA PartialAre ==
  ASSUME NEW position \in Nat, NEW n \in Nat \ {0}
  PROVE  /\ PartialSectors(position, n) \in Seq(Int)
         /\ \A b \in Int : Sector(b) \in Reach(position, n) /\ b \notin position .. position + n - 1
              => \E i \in 1 .. Len(PartialSectors(position, n)) :
                   PartialSectors(position, n)[i] = Sector(b)
<1> DEFINE first == FirstSector(position)
           last == LastSector(position, n)
           end == position + n - 1
           firstAligned == position = first * SectorSize
           lastAligned == position + n = (last + 1) * SectorSize
           begins == IF firstAligned THEN <<>> ELSE <<first>>
           ends == IF ~lastAligned /\ (first # last \/ firstAligned) THEN <<last>> ELSE <<>>
<1>1. PartialSectors(position, n) = begins \o ends
  BY DEF PartialSectors
<1>2. first \in Int /\ last \in Int /\ first <= last /\ SectorSize \in Nat \ {0} /\ end \in Int
  BY SpanSectors, OpenFileAssumption
<1>3. begins \in Seq(Int) /\ ends \in Seq(Int)
  BY <1>2
<1>4. ASSUME NEW b \in Int, Sector(b) \in Reach(position, n), b \notin position .. end
      PROVE  \E i \in 1 .. Len(begins \o ends) : (begins \o ends)[i] = Sector(b)
  <2>1. Sector(b) \in Int /\ first <= Sector(b) /\ Sector(b) <= last
    BY <1>2, <1>4, SectorIs DEF Reach
  <2>2. CASE b < position
    <3>1. Sector(b) <= first
      BY <2>2, SectorOrder DEF FirstSector
    <3>2. Sector(b) = first
      BY <1>2, <2>1, <3>1
    <3>3. first * SectorSize <= b /\ first * SectorSize \in Int
      BY <2>1, <3>2, SectorIs
    <3>4. ~firstAligned
      BY <2>2, <3>3
    <3>5. begins = <<first>>
      BY <3>4
    <3> HIDE DEF first, begins, ends
    <3>6. Len(begins \o ends) >= 1 /\ (begins \o ends)[1] = first
      BY <1>3, <3>5
    <3> QED  BY <1>3, <3>2, <3>6
  <2>3. CASE ~(b < position)
    <3>1. end < b
      BY <1>2, <1>4, <2>3
    <3>2. last <= Sector(b)
      BY <1>2, <3>1, SectorOrder DEF LastSector
    <3>3. Sector(b) = last
      BY <1>2, <2>1, <3>2
    <3>4. b < last * SectorSize + SectorSize /\ last * SectorSize \in Int
      BY <2>1, <3>3, SectorIs
    <3>5. (last + 1) * SectorSize = last * SectorSize + SectorSize
      <4> HIDE DEF last
      <4> QED  BY <1>2
    <3>6. ~lastAligned
      BY <1>2, <3>1, <3>4, <3>5
    <3>7. CASE first # last \/ firstAligned
      <4>1. ends = <<last>>
        BY <3>6, <3>7
      <4> HIDE DEF last, begins, ends
      <4>2. Len(begins) \in Nat /\ Len(begins \o ends) = Len(begins) + 1
            /\ (begins \o ends)[Len(begins) + 1] = last
        BY <1>2, <1>3, <4>1
      <4> QED  BY <3>3, <4>2
    <3>8. CASE ~(first # last \/ firstAligned)
      <4>1. begins = <<first>> /\ first = last
        BY <3>8
      <4> HIDE DEF first, last, begins, ends
      <4>2. Len(begins \o ends) >= 1 /\ (begins \o ends)[1] = first
        BY <1>3, <4>1
      <4> QED  BY <1>3, <3>3, <4>1, <4>2
    <3> QED  BY <3>7, <3>8
  <2> QED  BY <2>2, <2>3
<1>5. begins \o ends \in Seq(Int)
  <2> HIDE DEF begins, ends
  <2> QED  BY <1>3
<1> HIDE DEF begins, ends
<1> QED  BY <1>1, <1>4, <1>5

\* AllSectors are the sectors from the first position to the last, each once.
LEMMA AllAre ==
  ASSUME NEW position \in Nat, NEW n \in Nat \ {0}
  PROVE  /\ AllSectors(position, n) \in Seq(Int)
         /\ \A i \in 1 .. Len(AllSectors(position, n)) :
              AllSectors(position, n)[i] \in Reach(position, n)
         /\ \A s \in Reach(position, n) :
              \E i \in 1 .. Len(AllSectors(position, n)) : AllSectors(position, n)[i] = s
<1> DEFINE first == FirstSector(position)
           last == LastSector(position, n)
<1>1. first \in Int /\ last \in Int /\ first <= last
  BY SpanSectors
<1>2. AllSectors(position, n) = [i \in 1 .. last - first + 1 |-> first + i - 1]
  BY DEF AllSectors
<1>3. Reach(position, n) = first .. last
  BY DEF Reach
<1> HIDE DEF first, last
<1> DEFINE all == [i \in 1 .. last - first + 1 |-> first + i - 1]
<1>4. all \in Seq(Int) /\ Len(all) = last - first + 1
  BY <1>1
<1>5. \A i \in 1 .. Len(all) : all[i] \in first .. last
  BY <1>1, <1>4
<1>6. \A s \in first .. last : s - first + 1 \in 1 .. Len(all) /\ all[s - first + 1] = s
  BY <1>1, <1>4
<1> QED  BY <1>2, <1>3, <1>4, <1>5, <1>6

\* The sectors that a list of accesses reads, or writes.
LEMMA SectorsOfAccesses ==
  ASSUME NEW kind \in {"read", "write"}, NEW other \in {"read", "write"}, NEW list \in Seq(Int)
  PROVE  SectorsOf(Accesses(kind, list), other)
           = IF other = kind THEN {list[i] : i \in 1 .. Len(list)} ELSE {}
BY AccessesAre DEF SectorsOf

\* The sectors of two lists, one after the other, are those of both.
LEMMA SectorsOfConcat ==
  ASSUME NEW p \in Seq(Accessed), NEW q \in Seq(Accessed), NEW kind
  PROVE  SectorsOf(p \o q, kind) = SectorsOf(p, kind) \cup SectorsOf(q, kind)
<1>1. /\ Len(p \o q) = Len(p) + Len(q) /\ Len(p) \in Nat /\ Len(q) \in Nat
      /\ \A i \in 1 .. Len(p) : i \in 1 .. Len(p \o q) /\ (p \o q)[i] = p[i]
      /\ \A i \in 1 .. Len(q) : i + Len(p) \in 1 .. Len(p \o q) /\ (p \o q)[i + Len(p)] = q[i]
      /\ \A i \in 1 .. Len(p \o q) : \/ i \in 1 .. Len(p) /\ (p \o q)[i] = p[i]
                                     \/ i - Len(p) \in 1 .. Len(q) /\ (p \o q)[i] = q[i - Len(p)]
  OBVIOUS
<1>2. \A s : s \in SectorsOf(p \o q, kind) => s \in SectorsOf(p, kind) \cup SectorsOf(q, kind)
  BY <1>1 DEF SectorsOf
<1>3. \A s : s \in SectorsOf(p, kind) => s \in SectorsOf(p \o q, kind)
  BY <1>1 DEF SectorsOf
<1>4. \A s : s \in SectorsOf(q, kind) => s \in SectorsOf(p \o q, kind)
  BY <1>1 DEF SectorsOf
<1> QED  BY <1>2, <1>3, <1>4

\* What Read and Write are about to do.
Plan(write, position, n) ==
  IF write
  THEN Accesses("read", PartialSectors(position, n)) \o Accesses("write", AllSectors(position, n))
  ELSE Accesses("read", AllSectors(position, n))

\* A plan is of accesses to the call's own sectors, the reads before the writes.
LEMMA PlanIs ==
  ASSUME NEW write \in BOOLEAN, NEW position \in Nat, NEW n \in Nat \ {0}
  PROVE  /\ Plan(write, position, n) \in Seq(Accessed) /\ ReadsFirst(Plan(write, position, n))
         /\ ~write => /\ SectorsOf(Plan(write, position, n), "write") = {}
                      /\ Reach(position, n) \subseteq SectorsOf(Plan(write, position, n), "read")
         /\ write => /\ SectorsOf(Plan(write, position, n), "write") = Reach(position, n)
                     /\ \A b \in Int :
                          Sector(b) \in Reach(position, n) /\ b \notin position .. position + n - 1
                            => Sector(b) \in SectorsOf(Plan(write, position, n), "read")
<1> DEFINE partial == PartialSectors(position, n)
           all == AllSectors(position, n)
           reads == Accesses("read", partial)
           writes == Accesses("write", all)
<1>1. partial \in Seq(Int) /\ all \in Seq(Int) /\ {all[i] : i \in 1 .. Len(all)} = Reach(position, n)
  <2>1. /\ all \in Seq(Int) /\ \A i \in 1 .. Len(all) : all[i] \in Reach(position, n)
        /\ \A s \in Reach(position, n) : \E i \in 1 .. Len(all) : all[i] = s
    BY AllAre
  <2>2. {all[i] : i \in 1 .. Len(all)} = Reach(position, n)
    <3> HIDE DEF all
    <3> QED  BY <2>1
  <2> QED  BY <2>1, <2>2, PartialAre
<1>2. \A b \in Int : Sector(b) \in Reach(position, n) /\ b \notin position .. position + n - 1
        => Sector(b) \in {partial[i] : i \in 1 .. Len(partial)}
  BY PartialAre
<1> HIDE DEF partial, all
<1>3. CASE ~write
  <2>1. Plan(write, position, n) = Accesses("read", all)
    BY <1>3 DEF Plan, all
  <2>2. Accesses("read", all) \in Seq(Accessed)
        /\ \A i \in 1 .. Len(Accesses("read", all)) : Accesses("read", all)[i].kind = "read"
    BY <1>1, AccessesAre
  <2>3. ReadsFirst(Accesses("read", all))
    BY <2>2 DEF ReadsFirst
  <2>4. /\ SectorsOf(Accesses("read", all), "write") = {}
        /\ SectorsOf(Accesses("read", all), "read") = Reach(position, n)
    BY <1>1, SectorsOfAccesses
  <2> QED  BY <1>3, <2>1, <2>2, <2>3, <2>4
<1>4. CASE write
  <2>1. Plan(write, position, n) = reads \o writes
    BY <1>4 DEF Plan, all, partial
  <2>2. /\ reads \in Seq(Accessed) /\ writes \in Seq(Accessed)
        /\ \A i \in 1 .. Len(reads) : reads[i].kind = "read"
        /\ \A i \in 1 .. Len(writes) : writes[i].kind = "write"
    BY <1>1, AccessesAre
  <2>3. /\ SectorsOf(reads, "write") = {} /\ SectorsOf(writes, "write") = Reach(position, n)
        /\ SectorsOf(reads, "read") = {partial[i] : i \in 1 .. Len(partial)}
    BY <1>1, SectorsOfAccesses
  <2> HIDE DEF reads, writes
  <2>4. reads \o writes \in Seq(Accessed)
    BY <2>2
  <2>5. \A k \in {"read", "write"} :
          SectorsOf(reads \o writes, k) = SectorsOf(reads, k) \cup SectorsOf(writes, k)
    BY <2>2, SectorsOfConcat
  <2>6. ReadsFirst(reads \o writes)
    <3>1. \A i \in 1 .. Len(reads \o writes) :
            (reads \o writes)[i].kind = IF i <= Len(reads) THEN "read" ELSE "write"
      BY <2>2
    <3> QED  BY <2>2, <3>1 DEF ReadsFirst
  <2> QED  BY <1>2, <1>4, <2>1, <2>3, <2>4, <2>5, <2>6
<1> QED  BY <1>3, <1>4

\* What is left of a plan after its first access is a plan.
LEMMA TailIs ==
  ASSUME NEW todo \in Seq(Accessed), todo # <<>>, ReadsFirst(todo)
  PROVE  /\ Head(todo) \in Accessed /\ Tail(todo) \in Seq(Accessed) /\ ReadsFirst(Tail(todo))
         /\ \A k : SectorsOf(Tail(todo), k) \subseteq SectorsOf(todo, k)
         /\ \A k : SectorsOf(todo, k) \subseteq
                     SectorsOf(Tail(todo), k) \cup (IF Head(todo).kind = k THEN {Head(todo).sector} ELSE {})
         /\ Head(todo).sector \in SectorsOf(todo, Head(todo).kind)
         /\ Head(todo).kind = "write" => SectorsOf(todo, "read") = {}
<1> DEFINE rest == Tail(todo)
<1>1. /\ rest \in Seq(Accessed) /\ Len(todo) \in Nat \ {0} /\ Len(rest) = Len(todo) - 1
      /\ todo[1] \in Accessed /\ Head(todo) = todo[1]
      /\ \A i \in 1 .. Len(rest) : i + 1 \in 1 .. Len(todo) /\ rest[i] = todo[i + 1]
      /\ \A i \in 1 .. Len(todo) : i = 1 \/ (i - 1 \in 1 .. Len(rest) /\ rest[i - 1] = todo[i])
      /\ \A i \in 1 .. Len(todo) : i \in Nat
  OBVIOUS
<1> HIDE DEF rest
<1>2. ReadsFirst(rest)
  <2> SUFFICES ASSUME NEW i \in 1 .. Len(rest), NEW j \in 1 .. Len(rest),
                      rest[i].kind = "read", rest[j].kind = "write"
               PROVE  i < j
    BY DEF ReadsFirst
  <2>1. i + 1 \in 1 .. Len(todo) /\ j + 1 \in 1 .. Len(todo)
        /\ todo[i + 1].kind = "read" /\ todo[j + 1].kind = "write"
    BY <1>1
  <2>2. i + 1 < j + 1
    BY <2>1 DEF ReadsFirst
  <2> QED  BY <2>2
<1>3. ASSUME NEW k, NEW s \in SectorsOf(rest, k)
      PROVE  s \in SectorsOf(todo, k)
  <2>1. PICK i \in 1 .. Len(rest) : rest[i].kind = k /\ s = rest[i].sector
    BY <1>3 DEF SectorsOf
  <2>2. i + 1 \in 1 .. Len(todo) /\ rest[i] = todo[i + 1]
    BY <1>1
  <2> QED  BY <2>1, <2>2 DEF SectorsOf
<1>4. ASSUME NEW k, NEW s \in SectorsOf(todo, k)
      PROVE  s \in SectorsOf(rest, k) \/ (Head(todo).kind = k /\ s = Head(todo).sector)
  <2>1. PICK i \in 1 .. Len(todo) : todo[i].kind = k /\ s = todo[i].sector
    BY <1>4 DEF SectorsOf
  <2>2. CASE i = 1
    BY <1>1, <2>1, <2>2
  <2>3. CASE i # 1
    <3>1. i - 1 \in 1 .. Len(rest) /\ rest[i - 1] = todo[i]
      BY <1>1, <2>3
    <3> QED  BY <2>1, <3>1 DEF SectorsOf
  <2> QED  BY <2>2, <2>3
<1>5. Head(todo).sector \in SectorsOf(todo, Head(todo).kind)
  <2>1. 1 \in 1 .. Len(todo)
    BY <1>1
  <2> QED  BY <1>1, <2>1 DEF SectorsOf
<1>6. Head(todo).kind = "write" => SectorsOf(todo, "read") = {}
  <2>1. 1 \in 1 .. Len(todo)
    BY <1>1
  <2>2. Head(todo).kind = "write" => \A i \in 1 .. Len(todo) : todo[i].kind # "read"
    BY <1>1, <2>1 DEF ReadsFirst
  <2> QED  BY <2>2 DEF SectorsOf
<1> QED  BY <1>1, <1>2, <1>3, <1>4, <1>5, <1>6 DEF rest

-----------------------------------------------------------------------------
(***************************************************************************)
(* Calls in progress.                                                      *)
(***************************************************************************)

\* A call that writes touches the bytes it writes; one that reads, and no call, touch nothing.
LEMMA TouchesIs ==
  /\ NoCall \notin Calls /\ Touches(NoCall) = {}
  /\ \A c \in Calls : Touches(c) = IF c.write THEN Reach(c.position, c.numBytes) ELSE {}
<1>1. NoCall \notin Calls
  <2>1. \A c \in Calls : "write" \in DOMAIN c
    BY DEF Calls
  <2>2. "write" \notin DOMAIN NoCall
    BY DEF NoCall
  <2> QED  BY <2>1, <2>2
<1>2. ASSUME NEW c \in Calls
      PROVE  Touches(c) = IF c.write THEN Reach(c.position, c.numBytes) ELSE {}
  <2>1. c # NoCall
    BY <1>1
  <2>2. c.position \in Nat /\ c.numBytes \in Nat \ {0}
    BY DEF Calls
  <2> DEFINE end == c.position + c.numBytes - 1
  <2>3. \A b \in c.position .. end : Sector(b) \in Reach(c.position, c.numBytes)
    BY <2>2, SpanSectors
  <2>4. \A s \in Reach(c.position, c.numBytes) : \E b \in c.position .. end : Sector(b) = s
    BY <2>2, SpanSectors
  <2>5. {Sector(b) : b \in Span(c)} = Reach(c.position, c.numBytes)
    BY <2>3, <2>4 DEF Span
  <2> QED  BY <2>1, <2>5 DEF Touches
<1>3. Touches(NoCall) = {}
  BY DEF Touches
<1> QED  BY <1>1, <1>2, <1>3

\* The bytes of a call are in the file, and in the sectors it touches if it is a Write.
LEMMA SpanIs ==
  ASSUME OfTypes, CallsInRange, NEW t \in Threads, ~Idle(t)
  PROVE  /\ call[t] \in Calls /\ call[t] # NoCall
         /\ \A b \in Span(call[t]) : b \in Bytes /\ b < FileLength
         /\ \A b \in Span(call[t]) : call[t].write => Sector(b) \in Touches(call[t])
<1>1. call[t] \in Calls /\ call[t] # NoCall
  BY DEF OfTypes, Idle
<1>2. call[t].position \in Nat /\ call[t].numBytes \in Nat \ {0}
      /\ call[t].position + call[t].numBytes <= FileLength /\ FileLength \in Nat
  BY <1>1, OpenFileAssumption DEF Calls, CallsInRange
<1>3. ASSUME NEW b \in Span(call[t])
      PROVE  b \in Bytes /\ b < FileLength
  <2>1. b \in Nat /\ b < FileLength
    BY <1>2 DEF Span
  <2> QED  BY <2>1, FileInBytes
<1>4. ASSUME NEW b \in Span(call[t]), call[t].write
      PROVE  Sector(b) \in Touches(call[t])
  BY <1>1, <1>4 DEF Touches
<1> QED  BY <1>1, <1>3, <1>4

\* What a reader can see of a byte.
LEMMA SeenIs ==
  ASSUME OfInv, ~raced, NEW t \in Threads, ~Idle(t), ~call[t].write, NEW b \in Bytes, b < FileLength
  PROVE  bytes[b] = image[b] \/ bytes[b] \in Threads \ {t}
<1>1. Touches(call[t]) = {}
  BY SpanIs, TouchesIs DEF OfInv
<1>2. CASE \A u \in Threads : Sector(b) \notin Touches(call[u])
  BY <1>2 DEF OfInv, RestExact
<1>3. ASSUME NEW u \in Threads, Sector(b) \in Touches(call[u])
      PROVE  bytes[b] = image[b] \/ bytes[b] \in Threads \ {t}
  <2>1. u # t
    BY <1>1, <1>3
  <2>2. bytes[b] = image[b] \/ bytes[b] = u
    BY <1>3 DEF OfInv, WritesExact
  <2> QED  BY <2>1, <2>2
<1> QED  BY <1>2, <1>3

\* The open file starts with no call under way.
LEMMA OfInitInv == OfInit => OfInv
<1> SUFFICES ASSUME OfInit PROVE OfInv
  OBVIOUS
<1>1. \A t \in Threads : call[t] = NoCall /\ Idle(t) /\ Touches(call[t]) = {}
  BY TouchesIs DEF OfInit, Idle
<1>2. \A b \in Bytes : bytes[b] = image[b]
  BY DEF OfInit
<1>3. OfTypes
  <2>1. 0 \in 0 .. FileLength
    BY OpenFileAssumption
  <2> QED  BY <2>1 DEF OfInit, OfTypes, Values
<1>4. ~wrong
  BY DEF OfInit
<1> QED  BY <1>1, <1>2, <1>3, <1>4
         DEF OfInv, CallsInRange, Apart, WritesExact, ReadsExact, RestExact

\* Seek moves the position and touches no byte.
LEMMA SeekInv ==
  ASSUME OfInv, NEW t \in Threads, NEW position \in 0 .. FileLength, Seek(t, position)
  PROVE  OfInv'
<1>1. /\ Idle(t) /\ UNCHANGED <<bytes, call, calls, image, raced, wrong>>
      /\ seekPosition' = [seekPosition EXCEPT ![t] = position]
  BY DEF Seek
<1>2. OfTypes'
  <2>1. seekPosition' \in [Threads -> 0 .. FileLength]
    BY <1>1 DEF OfInv, OfTypes
  <2>2. raced' \in BOOLEAN /\ wrong' \in BOOLEAN
    BY <1>1 DEF OfInv, OfTypes
  <2> QED  BY <1>1, <2>1, <2>2 DEF OfInv, OfTypes
<1>3. CallsInRange'
  <2>1. \A u \in Threads : ~Idle(u) => seekPosition'[u] = seekPosition[u]
    BY <1>1 DEF OfInv, OfTypes
  <2> QED  BY <1>1, <2>1 DEF OfInv, CallsInRange, Idle, Left
<1>4. /\ Apart' <=> Apart
      /\ WritesExact' <=> WritesExact
      /\ ReadsExact' <=> ReadsExact
      /\ RestExact' <=> RestExact
  BY <1>1 DEF Apart, WritesExact, ReadsExact, RestExact, Left, Idle
<1> QED  BY <1>1, <1>2, <1>3, <1>4 DEF OfInv

\* Only the call of t changes, and it goes on touching what it touches.
LEMMA CallGoesOn ==
  ASSUME OfInv, NEW t \in Threads, ~Idle(t), NEW buf \in [Bytes -> Values], call[t].todo # <<>>,
         call' = [call EXCEPT ![t] = [call[t] EXCEPT !.todo = Tail(call[t].todo), !.buf = buf]],
         UNCHANGED <<seekPosition, calls, image, raced, wrong>>, bytes' \in [Bytes -> Values]
  PROVE  /\ OfTypes' /\ CallsInRange'
         /\ \A u \in Threads : /\ Idle(u)' <=> Idle(u)
                               /\ Touches(call'[u]) = Touches(call[u])
                               /\ Span(call'[u]) = Span(call[u])
                               /\ ~Idle(u) => call'[u].write = call[u].write
                                              /\ call'[u].start = call[u].start
                               /\ u # t => call'[u] = call[u]
         /\ call'[t].buf = buf /\ call'[t].todo = Tail(call[t].todo)
<1> DEFINE c == call[t]
           d == [c EXCEPT !.todo = Tail(c.todo), !.buf = buf]
<1>1. c \in Calls /\ c # NoCall /\ c.todo \in Seq(Accessed) /\ ReadsFirst(c.todo)
  BY SpanIs DEF OfInv, CallsInRange, Calls
<1>2. /\ Tail(c.todo) \in Seq(Accessed) /\ ReadsFirst(Tail(c.todo))
      /\ SectorsOf(Tail(c.todo), "write") \subseteq SectorsOf(c.todo, "write")
  BY <1>1, TailIs
<1>3. /\ d \in Calls /\ d.write = c.write /\ d.position = c.position /\ d.numBytes = c.numBytes
      /\ d.start = c.start /\ d.buf = buf /\ d.todo = Tail(c.todo)
  <2> HIDE DEF c
  <2> QED  BY <1>1, <1>2 DEF Calls
<1>4. d # NoCall /\ Touches(d) = Touches(c) /\ Span(d) = Span(c)
  <2> HIDE DEF c, d
  <2> QED  BY <1>1, <1>3, TouchesIs DEF Span
<1>5. call'[t] = d /\ \A u \in Threads \ {t} : call'[u] = call[u]
  BY DEF OfInv, OfTypes
<1> HIDE DEF c, d
<1>6. OfTypes'
  <2>1. call' \in [Threads -> Calls \cup {NoCall}]
    <3>1. call \in [Threads -> Calls \cup {NoCall}] /\ call' = [call EXCEPT ![t] = d]
      BY DEF OfInv, OfTypes, c, d
    <3> QED  BY <1>3, <3>1
  <2>2. raced' \in BOOLEAN /\ wrong' \in BOOLEAN
    BY DEF OfInv, OfTypes
  <2> QED  BY <2>1, <2>2 DEF OfInv, OfTypes
<1>7. \A u \in Threads : Idle(u)' <=> Idle(u)
  BY <1>1, <1>4, <1>5 DEF Idle, c
<1>8. CallsInRange'
  <2> SUFFICES ASSUME NEW u \in Threads, ~Idle(u)
               PROVE  /\ call'[u].position = seekPosition[u]
                      /\ call'[u].position + call'[u].numBytes <= FileLength
                      /\ SectorsOf(call'[u].todo, "write") \subseteq Touches(call'[u])
                      /\ ReadsFirst(call'[u].todo)
    BY <1>7 DEF CallsInRange, Left
  <2>1. /\ call[u].position = seekPosition[u]
        /\ call[u].position + call[u].numBytes <= FileLength
        /\ SectorsOf(call[u].todo, "write") \subseteq Touches(call[u])
        /\ ReadsFirst(call[u].todo)
    BY DEF OfInv, CallsInRange, Left
  <2>2. CASE u # t
    BY <1>5, <2>1, <2>2
  <2>3. CASE u = t
    BY <1>2, <1>3, <1>4, <1>5, <2>1, <2>3 DEF c
  <2> QED  BY <2>2, <2>3
<1> QED  BY <1>3, <1>4, <1>5, <1>6, <1>7, <1>8 DEF c

\* A sector is read into the buffer.
LEMMA ReadSectorInv ==
  ASSUME OfInv, NEW t \in Threads, Access(t), Head(call[t].todo).kind = "read"
  PROVE  OfInv'
<1> DEFINE c == call[t]
           s == Head(c.todo).sector
           here == {b \in Bytes : Sector(b) = s}
           buf == [b \in Bytes |-> IF b \in here /\ b < FileLength THEN bytes[b] ELSE c.buf[b]]
<1>1. /\ c.todo # <<>>
      /\ call' = [call EXCEPT ![t] = [call[t] EXCEPT !.todo = Tail(call[t].todo), !.buf = buf]]
      /\ UNCHANGED <<bytes, seekPosition, calls, image, raced, wrong>>
  BY DEF Access
<1>2. ~Idle(t)
  BY <1>1 DEF Idle, NoCall
<1>3. c \in Calls /\ c # NoCall
  BY <1>2, SpanIs DEF OfInv
<1>4. /\ bytes \in [Bytes -> Values] /\ buf \in [Bytes -> Values] /\ bytes' \in [Bytes -> Values]
  BY <1>1, <1>3 DEF OfInv, OfTypes, Calls
<1> HIDE DEF here, buf
<1>5. /\ OfTypes' /\ CallsInRange'
      /\ \A u \in Threads : /\ Idle(u)' <=> Idle(u)
                            /\ Touches(call'[u]) = Touches(call[u])
                            /\ Span(call'[u]) = Span(call[u])
                            /\ ~Idle(u) => call'[u].write = call[u].write
                                           /\ call'[u].start = call[u].start
                            /\ u # t => call'[u] = call[u]
      /\ call'[t].buf = buf /\ call'[t].todo = Tail(c.todo)
  BY <1>1, <1>2, <1>4, CallGoesOn
<1>6. \A b \in Bytes : b < FileLength => buf[b] = IF Sector(b) = s THEN bytes[b] ELSE c.buf[b]
  BY DEF buf, here
<1>7. /\ SectorsOf(c.todo, "write") \subseteq SectorsOf(Tail(c.todo), "write")
      /\ SectorsOf(c.todo, "read") \subseteq SectorsOf(Tail(c.todo), "read") \cup {s}
  <2>1. c.todo \in Seq(Accessed) /\ ReadsFirst(c.todo)
    BY <1>2, <1>3 DEF OfInv, CallsInRange, Calls
  <2>2. /\ SectorsOf(c.todo, "write") \subseteq
             SectorsOf(Tail(c.todo), "write")
               \cup (IF Head(c.todo).kind = "write" THEN {Head(c.todo).sector} ELSE {})
        /\ SectorsOf(c.todo, "read") \subseteq
             SectorsOf(Tail(c.todo), "read")
               \cup (IF Head(c.todo).kind = "read" THEN {Head(c.todo).sector} ELSE {})
    BY <1>1, <2>1, TailIs
  <2> QED  BY <2>2
<1>8. ASSUME ~raced
      PROVE  ~wrong' /\ Apart' /\ WritesExact' /\ ReadsExact' /\ RestExact'
  <2>1. ~wrong' /\ Apart' /\ RestExact'
    BY <1>1, <1>5, <1>8 DEF OfInv, Apart, RestExact
  <2>2. ASSUME NEW u \in Threads, NEW b \in Bytes, b < FileLength, Sector(b) \in Touches(call'[u])
        PROVE  IF b \in Span(call'[u])
               THEN bytes'[b] = u
                    \/ (bytes'[b] = image'[b] /\ Sector(b) \in SectorsOf(call'[u].todo, "write"))
               ELSE bytes'[b] = image'[b]
                    /\ (call'[u].buf[b] = image'[b] \/ Sector(b) \in SectorsOf(call'[u].todo, "read"))
    <3>1. IF b \in Span(call[u])
          THEN bytes[b] = u \/ (bytes[b] = image[b] /\ Sector(b) \in SectorsOf(call[u].todo, "write"))
          ELSE bytes[b] = image[b]
               /\ (call[u].buf[b] = image[b] \/ Sector(b) \in SectorsOf(call[u].todo, "read"))
      BY <1>5, <1>8, <2>2 DEF OfInv, WritesExact, Left
    <3>2. CASE u # t
      BY <1>1, <1>5, <3>1, <3>2
    <3>3. CASE u = t
      <4>1. /\ bytes'[b] = bytes[b] /\ image'[b] = image[b] /\ Span(call'[t]) = Span(c)
            /\ call'[t].buf[b] = buf[b] /\ call'[t].todo = Tail(c.todo)
        BY <1>1, <1>5
      <4>2. buf[b] = IF Sector(b) = s THEN bytes[b] ELSE c.buf[b]
        BY <1>6, <2>2
      <4>3. IF b \in Span(c)
            THEN bytes[b] = t \/ (bytes[b] = image[b] /\ Sector(b) \in SectorsOf(c.todo, "write"))
            ELSE bytes[b] = image[b]
                 /\ (c.buf[b] = image[b] \/ Sector(b) \in SectorsOf(c.todo, "read"))
        BY <3>1, <3>3
      <4> HIDE DEF c, s
      <4>4. IF b \in Span(c)
            THEN bytes[b] = t \/ (bytes[b] = image[b] /\ Sector(b) \in SectorsOf(Tail(c.todo), "write"))
            ELSE bytes[b] = image[b]
                 /\ (buf[b] = image[b] \/ Sector(b) \in SectorsOf(Tail(c.todo), "read"))
        BY <1>7, <4>2, <4>3
      <4> QED  BY <3>3, <4>1, <4>4
    <3> QED  BY <3>2, <3>3
  <2>3. ASSUME NEW u \in Threads, NEW b \in Bytes, b < FileLength, ~Idle(u), ~call[u].write
        PROVE  /\ image'[b] = call'[u].start[b] \/ image'[b] \in Threads \ {u}
               /\ b \in Span(call'[u]) => \/ Sector(b) \in SectorsOf(call'[u].todo, "read")
                                          \/ call'[u].buf[b] = call'[u].start[b]
                                          \/ call'[u].buf[b] \in Threads \ {u}
    <3>1. /\ image[b] = call[u].start[b] \/ image[b] \in Threads \ {u}
          /\ b \in Span(call[u]) => \/ Sector(b) \in SectorsOf(call[u].todo, "read")
                                    \/ call[u].buf[b] = call[u].start[b]
                                    \/ call[u].buf[b] \in Threads \ {u}
      BY <1>8, <2>3 DEF OfInv, ReadsExact, Left
    <3>2. CASE u # t
      BY <1>1, <1>5, <3>1, <3>2
    <3>3. CASE u = t
      <4>1. bytes[b] = image[b] \/ bytes[b] \in Threads \ {t}
        BY <1>8, <2>3, <3>3, SeenIs
      <4>2. /\ image'[b] = image[b] /\ Span(call'[t]) = Span(c) /\ call'[t].start = c.start
            /\ call'[t].buf[b] = buf[b] /\ call'[t].todo = Tail(c.todo)
        BY <1>1, <1>2, <1>5
      <4>3. buf[b] = IF Sector(b) = s THEN bytes[b] ELSE c.buf[b]
        BY <1>6, <2>3
      <4>4. /\ image[b] = c.start[b] \/ image[b] \in Threads \ {t}
            /\ b \in Span(c) => \/ Sector(b) \in SectorsOf(c.todo, "read")
                                \/ c.buf[b] = c.start[b]
                                \/ c.buf[b] \in Threads \ {t}
        BY <3>1, <3>3
      <4> HIDE DEF c, s
      <4>5. b \in Span(c) => \/ Sector(b) \in SectorsOf(Tail(c.todo), "read")
                             \/ buf[b] = c.start[b]
                             \/ buf[b] \in Threads \ {t}
        BY <1>7, <4>1, <4>3, <4>4
      <4> QED  BY <3>3, <4>2, <4>4, <4>5
    <3> QED  BY <3>2, <3>3
  <2>4. WritesExact'
    BY <2>2 DEF WritesExact, Left
  <2>5. ReadsExact'
    BY <1>5, <2>3 DEF ReadsExact, Left
  <2> QED  BY <2>1, <2>4, <2>5
<1> QED  BY <1>1, <1>5, <1>8 DEF OfInv

\* A sector is written: the bytes of the call, and around them what was read.
LEMMA WriteSectorInv ==
  ASSUME OfInv, NEW t \in Threads, Access(t), Head(call[t].todo).kind = "write"
  PROVE  OfInv'
<1> DEFINE c == call[t]
           s == Head(c.todo).sector
           here == {b \in Bytes : Sector(b) = s}
<1>1. /\ c.todo # <<>>
      /\ call' = [call EXCEPT ![t].todo = Tail(c.todo)]
      /\ bytes' = [b \in Bytes |-> IF b \notin here THEN bytes[b]
                                   ELSE IF b \in Span(c) THEN t ELSE c.buf[b]]
      /\ UNCHANGED <<seekPosition, calls, image, raced, wrong>>
  BY DEF Access
<1>2. ~Idle(t)
  BY <1>1 DEF Idle, NoCall
<1>3. c \in Calls /\ c # NoCall
  BY <1>2, SpanIs DEF OfInv
<1>4. bytes' \in [Bytes -> Values] /\ c.buf \in [Bytes -> Values]
  BY <1>1, <1>3 DEF OfInv, OfTypes, Calls, Values
<1>5. call' = [call EXCEPT ![t] = [call[t] EXCEPT !.todo = Tail(call[t].todo), !.buf = c.buf]]
  <2>1. [c EXCEPT !.todo = Tail(c.todo)] = [c EXCEPT !.todo = Tail(c.todo), !.buf = c.buf]
    <3> HIDE DEF c
    <3> QED  BY <1>3 DEF Calls
  <2> QED  BY <1>1, <2>1
<1>6. /\ OfTypes' /\ CallsInRange'
      /\ \A u \in Threads : /\ Idle(u)' <=> Idle(u)
                            /\ Touches(call'[u]) = Touches(call[u])
                            /\ Span(call'[u]) = Span(call[u])
                            /\ ~Idle(u) => call'[u].write = call[u].write
                                           /\ call'[u].start = call[u].start
                            /\ u # t => call'[u] = call[u]
      /\ call'[t].buf = c.buf /\ call'[t].todo = Tail(c.todo)
  BY <1>1, <1>2, <1>4, <1>5, CallGoesOn
<1>7. \A b \in Bytes : bytes'[b] = IF Sector(b) # s THEN bytes[b]
                                   ELSE IF b \in Span(c) THEN t ELSE c.buf[b]
  BY <1>1
<1> HIDE DEF here
<1>8. /\ SectorsOf(c.todo, "write") \subseteq SectorsOf(Tail(c.todo), "write") \cup {s}
      /\ SectorsOf(c.todo, "read") = {} /\ s \in SectorsOf(c.todo, "write")
  <2>1. c.todo \in Seq(Accessed) /\ ReadsFirst(c.todo)
    BY <1>2, <1>3 DEF OfInv, CallsInRange, Calls
  <2>2. /\ SectorsOf(c.todo, "write") \subseteq
             SectorsOf(Tail(c.todo), "write")
               \cup (IF Head(c.todo).kind = "write" THEN {Head(c.todo).sector} ELSE {})
        /\ Head(c.todo).kind = "write" => SectorsOf(c.todo, "read") = {}
        /\ Head(c.todo).sector \in SectorsOf(c.todo, Head(c.todo).kind)
    BY <1>1, <2>1, TailIs
  <2> QED  BY <2>2
<1>9. s \in Touches(c) /\ c.write
  <2>1. s \in Touches(c)
    BY <1>2, <1>8 DEF OfInv, CallsInRange, Left
  <2> QED  BY <1>3, <2>1, TouchesIs
<1>10. ASSUME ~raced
       PROVE  ~wrong' /\ Apart' /\ WritesExact' /\ ReadsExact' /\ RestExact'
  <2>1. ~wrong' /\ Apart'
    BY <1>1, <1>6, <1>10 DEF OfInv, Apart
  <2>2. \A u \in Threads \ {t} : s \notin Touches(call[u])
    BY <1>9, <1>10 DEF OfInv, Apart
  <2>3. ASSUME NEW u \in Threads, NEW b \in Bytes, b < FileLength, Sector(b) \in Touches(call'[u])
        PROVE  IF b \in Span(call'[u])
               THEN bytes'[b] = u
                    \/ (bytes'[b] = image'[b] /\ Sector(b) \in SectorsOf(call'[u].todo, "write"))
               ELSE bytes'[b] = image'[b]
                    /\ (call'[u].buf[b] = image'[b] \/ Sector(b) \in SectorsOf(call'[u].todo, "read"))
    <3>1. IF b \in Span(call[u])
          THEN bytes[b] = u \/ (bytes[b] = image[b] /\ Sector(b) \in SectorsOf(call[u].todo, "write"))
          ELSE bytes[b] = image[b]
               /\ (call[u].buf[b] = image[b] \/ Sector(b) \in SectorsOf(call[u].todo, "read"))
      BY <1>6, <1>10, <2>3 DEF OfInv, WritesExact, Left
    <3>2. CASE u # t
      <4>1. Sector(b) # s
        BY <1>6, <2>2, <2>3, <3>2
      <4>2. bytes'[b] = bytes[b] /\ image' = image /\ call'[u] = call[u]
        BY <1>1, <1>6, <1>7, <3>2, <4>1
      <4> QED  BY <3>1, <4>2
    <3>3. CASE u = t
      <4>1. /\ image'[b] = image[b] /\ Span(call'[t]) = Span(c)
            /\ call'[t].buf[b] = c.buf[b] /\ call'[t].todo = Tail(c.todo)
        BY <1>1, <1>6
      <4>2. bytes'[b] = IF Sector(b) # s THEN bytes[b]
                        ELSE IF b \in Span(c) THEN t ELSE c.buf[b]
        BY <1>7
      <4>3. IF b \in Span(c)
            THEN bytes[b] = t \/ (bytes[b] = image[b] /\ Sector(b) \in SectorsOf(c.todo, "write"))
            ELSE bytes[b] = image[b]
                 /\ (c.buf[b] = image[b] \/ Sector(b) \in SectorsOf(c.todo, "read"))
        BY <3>1, <3>3
      <4> HIDE DEF c, s
      <4>4. IF b \in Span(c)
            THEN bytes'[b] = t \/ (bytes'[b] = image[b] /\ Sector(b) \in SectorsOf(Tail(c.todo), "write"))
            ELSE bytes'[b] = image[b] /\ c.buf[b] = image[b]
        BY <1>8, <4>2, <4>3
      <4> QED  BY <3>3, <4>1, <4>4
    <3> QED  BY <3>2, <3>3
  <2>4. WritesExact'
    BY <2>3 DEF WritesExact, Left
  <2>5. ReadsExact'
    <3> SUFFICES ASSUME NEW u \in Threads, NEW b \in Bytes, b < FileLength, ~Idle(u), ~call'[u].write
                 PROVE  /\ image'[b] = call'[u].start[b] \/ image'[b] \in Threads \ {u}
                        /\ b \in Span(call'[u]) => \/ Sector(b) \in SectorsOf(call'[u].todo, "read")
                                                   \/ call'[u].buf[b] = call'[u].start[b]
                                                   \/ call'[u].buf[b] \in Threads \ {u}
      BY <1>6 DEF ReadsExact, Left
    <3>1. u # t /\ ~call[u].write /\ call'[u] = call[u] /\ image' = image
      BY <1>1, <1>6, <1>9
    <3> QED  BY <1>10, <3>1 DEF OfInv, ReadsExact, Left
  <2>6. RestExact'
    <3> SUFFICES ASSUME NEW b \in Bytes, b < FileLength,
                        \A u \in Threads : Sector(b) \notin Touches(call'[u])
                 PROVE  bytes'[b] = image'[b]
      BY DEF RestExact
    <3>1. \A u \in Threads : Sector(b) \notin Touches(call[u])
      BY <1>6
    <3>2. Sector(b) # s
      BY <1>9, <3>1
    <3> QED  BY <1>1, <1>7, <1>10, <3>1, <3>2 DEF OfInv, RestExact
  <2> QED  BY <2>1, <2>4, <2>5, <2>6
<1> QED  BY <1>1, <1>6, <1>10 DEF OfInv

\* A call returns: what a Write has written becomes what the file holds.
LEMMA ReturnInv ==
  ASSUME OfInv, NEW t \in Threads, Return(t)
  PROVE  OfInv'
<1> DEFINE c == call[t]
<1>1. /\ ~Idle(t) /\ c.todo = <<>>
      /\ call' = [call EXCEPT ![t] = NoCall]
      /\ seekPosition' = [seekPosition EXCEPT ![t] = seekPosition[t] + c.numBytes]
      /\ image' = [b \in Bytes |-> IF c.write /\ b \in Span(c) THEN t ELSE image[b]]
      /\ wrong' = (wrong \/ (~c.write /\ \E b \in Span(c) :
                              c.buf[b] # c.start[b] /\ c.buf[b] \notin Threads \ {t}))
      /\ UNCHANGED <<bytes, calls, raced>>
  BY DEF Return
<1>2. /\ c \in Calls /\ c # NoCall
      /\ \A b \in Span(c) : b \in Bytes /\ b < FileLength
      /\ \A b \in Span(c) : c.write => Sector(b) \in Touches(c)
      /\ c.position = seekPosition[t] /\ c.position + c.numBytes <= FileLength
      /\ c.position \in Nat /\ c.numBytes \in Nat
  BY <1>1, SpanIs DEF OfInv, CallsInRange, Calls
<1>3. Left(t, "read") = {} /\ Left(t, "write") = {}
  BY <1>1 DEF Left, SectorsOf
<1>4. /\ call'[t] = NoCall /\ Touches(call'[t]) = {} /\ Idle(t)'
      /\ \A u \in Threads \ {t} : call'[u] = call[u] /\ (Idle(u)' <=> Idle(u))
                                  /\ seekPosition'[u] = seekPosition[u]
  BY <1>1, TouchesIs DEF OfInv, OfTypes, Idle
<1>5. \A b \in Bytes : image'[b] = IF c.write /\ b \in Span(c) THEN t ELSE image[b]
  BY <1>1
<1> HIDE DEF c
<1>6. OfTypes'
  <2>1. image' \in [Bytes -> Values]
    BY <1>1 DEF OfInv, OfTypes, Values
  <2>2. seekPosition' \in [Threads -> 0 .. FileLength]
    BY <1>1, <1>2, OpenFileAssumption DEF OfInv, OfTypes
  <2>3. raced' \in BOOLEAN
    BY <1>1 DEF OfInv, OfTypes
  <2>4. wrong' \in BOOLEAN
    BY <1>1 DEF OfInv, OfTypes
  <2>5. call' \in [Threads -> Calls \cup {NoCall}]
    BY <1>1 DEF OfInv, OfTypes
  <2> QED  BY <1>1, <2>1, <2>2, <2>3, <2>4, <2>5 DEF OfInv, OfTypes
<1>7. CallsInRange'
  BY <1>4 DEF OfInv, CallsInRange, Left
<1>8. ASSUME ~raced
      PROVE  ~wrong' /\ Apart' /\ WritesExact' /\ ReadsExact' /\ RestExact'
  <2>1. ~wrong'
    <3>1. ASSUME ~c.write, NEW b \in Span(c)
          PROVE  c.buf[b] = c.start[b] \/ c.buf[b] \in Threads \ {t}
      BY <1>1, <1>2, <1>3, <1>8, <3>1 DEF OfInv, ReadsExact, c
    <3> QED  BY <1>1, <1>8, <3>1 DEF OfInv
  <2>2. Apart'
    BY <1>4, <1>8 DEF OfInv, Apart
  <2>3. \A u \in Threads \ {t}, b \in Bytes :
          Sector(b) \in Touches(call[u]) => image'[b] = image[b]
    <3>1. \A u \in Threads \ {t} : Touches(call[u]) \cap Touches(c) = {}
      BY <1>8 DEF OfInv, Apart, c
    <3> QED  BY <1>2, <1>5, <3>1
  <2>4. WritesExact'
    <3> SUFFICES ASSUME NEW u \in Threads, NEW b \in Bytes, b < FileLength,
                        Sector(b) \in Touches(call'[u])
                 PROVE  IF b \in Span(call'[u])
                        THEN bytes'[b] = u \/ (bytes'[b] = image'[b]
                                               /\ Sector(b) \in SectorsOf(call'[u].todo, "write"))
                        ELSE bytes'[b] = image'[b]
                             /\ (call'[u].buf[b] = image'[b]
                                 \/ Sector(b) \in SectorsOf(call'[u].todo, "read"))
      BY DEF WritesExact, Left
    <3>1. u # t /\ call'[u] = call[u]
      BY <1>4
    <3>2. bytes' = bytes /\ image'[b] = image[b]
      BY <1>1, <2>3, <3>1
    <3> QED  BY <1>8, <3>1, <3>2 DEF OfInv, WritesExact, Left
  <2>5. ReadsExact'
    <3> SUFFICES ASSUME NEW u \in Threads, NEW b \in Bytes, b < FileLength, ~Idle(u)',
                        ~call'[u].write
                 PROVE  /\ image'[b] = call'[u].start[b] \/ image'[b] \in Threads \ {u}
                        /\ b \in Span(call'[u]) => \/ Sector(b) \in SectorsOf(call'[u].todo, "read")
                                                   \/ call'[u].buf[b] = call'[u].start[b]
                                                   \/ call'[u].buf[b] \in Threads \ {u}
      BY DEF ReadsExact, Left
    <3>1. u # t /\ call'[u] = call[u] /\ ~Idle(u)
      BY <1>4
    <3>2. image'[b] = image[b] \/ image'[b] = t
      BY <1>5
    <3>3. /\ image[b] = call[u].start[b] \/ image[b] \in Threads \ {u}
          /\ b \in Span(call[u]) => \/ Sector(b) \in SectorsOf(call[u].todo, "read")
                                    \/ call[u].buf[b] = call[u].start[b]
                                    \/ call[u].buf[b] \in Threads \ {u}
      BY <1>8, <3>1 DEF OfInv, ReadsExact, Left
    <3> QED  BY <3>1, <3>2, <3>3
  <2>6. RestExact'
    <3> SUFFICES ASSUME NEW b \in Bytes, b < FileLength,
                        \A u \in Threads : Sector(b) \notin Touches(call'[u])
                 PROVE  bytes[b] = image'[b]
      BY <1>1 DEF RestExact
    <3>1. CASE Sector(b) \in Touches(c)
      <4>1. IF b \in Span(c) THEN bytes[b] = t ELSE bytes[b] = image[b]
        BY <1>3, <1>8, <3>1 DEF OfInv, WritesExact, c
      <4>2. c.write
        BY <1>2, <3>1, TouchesIs
      <4> QED  BY <1>5, <4>1, <4>2
    <3>2. CASE Sector(b) \notin Touches(c)
      <4>1. \A u \in Threads : Sector(b) \notin Touches(call[u])
        BY <1>4, <3>2 DEF c
      <4>2. bytes[b] = image[b]
        BY <1>8, <4>1 DEF OfInv, RestExact
      <4> QED  BY <1>2, <1>5, <3>2, <4>2
    <3> QED  BY <3>1, <3>2
  <2> QED  BY <2>1, <2>2, <2>4, <2>5, <2>6
<1> QED  BY <1>1, <1>6, <1>7, <1>8 DEF OfInv

\* A call begins: nothing of it has happened yet, and its plan covers all of it.
LEMMA CallInv ==
  ASSUME OfInv, NEW t \in Threads, NEW write \in BOOLEAN, NEW numBytes \in 0 .. MaxBytes,
         Call(t, write, numBytes)
  PROVE  OfInv'
<1> DEFINE position == seekPosition[t]
           n == IF position + numBytes > FileLength THEN FileLength - position ELSE numBytes
           c == [write |-> write, position |-> position, numBytes |-> n,
                 buf |-> [b \in Bytes |-> Junk], start |-> image,
                 todo |-> Plan(write, position, n)]
<1>1. /\ Idle(t) /\ numBytes > 0 /\ position < FileLength
      /\ call' = [call EXCEPT ![t] = c]
      /\ calls' = [calls EXCEPT ![t] = calls[t] + 1]
      /\ raced' = (raced \/ \E u \in Threads \ {t} : Touches(call[u]) \cap Touches(c) # {})
      /\ UNCHANGED <<bytes, seekPosition, image, wrong>>
  BY DEF Call, Plan
<1>2. /\ position \in Nat /\ n \in Nat \ {0} /\ position + n <= FileLength
  <2>1. position \in 0 .. FileLength /\ FileLength \in Nat /\ MaxBytes \in Nat
    BY OpenFileAssumption DEF OfInv, OfTypes
  <2> HIDE DEF position
  <2> QED  BY <1>1, <2>1
<1> HIDE DEF position, n
<1> DEFINE todo == Plan(write, position, n)
<1>3. /\ todo \in Seq(Accessed) /\ ReadsFirst(todo)
      /\ ~write => /\ SectorsOf(todo, "write") = {}
                   /\ Reach(position, n) \subseteq SectorsOf(todo, "read")
      /\ write => /\ SectorsOf(todo, "write") = Reach(position, n)
                  /\ \A b \in Int : Sector(b) \in Reach(position, n) /\ b \notin position .. position + n - 1
                       => Sector(b) \in SectorsOf(todo, "read")
  BY <1>2, PlanIs
<1> HIDE DEF todo
<1>4. /\ c \in Calls /\ c.write = write /\ c.position = position /\ c.numBytes = n
      /\ c.start = image /\ c.todo = todo
  <2>1. image \in [Bytes -> Values] /\ [b \in Bytes |-> Junk] \in [Bytes -> Values]
    BY DEF OfInv, OfTypes, Values
  <2> QED  BY <1>2, <1>3, <2>1 DEF Calls, todo
<1> HIDE DEF c
<1>5. /\ c # NoCall /\ Touches(c) = IF write THEN Reach(position, n) ELSE {}
      /\ Span(c) = position .. position + n - 1
      /\ \A b \in Span(c) : Sector(b) \in Reach(position, n)
  <2>1. c # NoCall /\ Touches(c) = IF write THEN Reach(position, n) ELSE {}
    BY <1>4, TouchesIs
  <2>2. \A b \in position .. position + n - 1 : Sector(b) \in Reach(position, n)
    BY <1>2, SpanSectors
  <2> QED  BY <1>4, <2>1, <2>2 DEF Span
<1>6. call'[t] = c /\ \A u \in Threads \ {t} : call'[u] = call[u]
  BY <1>1 DEF OfInv, OfTypes
<1>7. OfTypes'
  <2>1. call' \in [Threads -> Calls \cup {NoCall}]
    BY <1>1, <1>4 DEF OfInv, OfTypes
  <2>2. calls' \in [Threads -> Nat]
    BY <1>1 DEF OfInv, OfTypes
  <2>3. raced' \in BOOLEAN
    BY <1>1 DEF OfInv, OfTypes
  <2>4. wrong' \in BOOLEAN
    BY <1>1 DEF OfInv, OfTypes
  <2> QED  BY <1>1, <2>1, <2>2, <2>3, <2>4 DEF OfInv, OfTypes
<1>8. CallsInRange'
  <2> SUFFICES ASSUME NEW u \in Threads, call'[u] # NoCall
               PROVE  /\ call'[u].position = seekPosition[u]
                      /\ call'[u].position + call'[u].numBytes <= FileLength
                      /\ SectorsOf(call'[u].todo, "write") \subseteq Touches(call'[u])
                      /\ ReadsFirst(call'[u].todo)
    BY <1>1 DEF CallsInRange, Left, Idle
  <2>1. CASE u = t
    BY <1>2, <1>3, <1>4, <1>5, <1>6, <2>1 DEF position
  <2>2. CASE u # t
    BY <1>6, <2>2 DEF OfInv, CallsInRange, Left, Idle
  <2> QED  BY <2>1, <2>2
<1>9. ASSUME ~raced'
      PROVE  ~wrong' /\ Apart' /\ WritesExact' /\ ReadsExact' /\ RestExact'
  <2>1. /\ ~raced /\ Touches(call[t]) = {}
        /\ \A u \in Threads \ {t} : Touches(call[u]) \cap Touches(c) = {}
    BY <1>1, <1>9, TouchesIs DEF Idle
  <2>2. ~wrong' /\ Apart'
    BY <1>1, <1>6, <2>1 DEF OfInv, Apart
  <2>3. ASSUME write, NEW b \in Bytes, b < FileLength, Sector(b) \in Touches(c)
        PROVE  bytes[b] = image[b]
    <3>1. \A u \in Threads : Sector(b) \notin Touches(call[u])
      BY <2>1, <2>3
    <3> QED  BY <2>1, <2>3, <3>1 DEF OfInv, RestExact
  <2>4. WritesExact'
    <3> SUFFICES ASSUME NEW u \in Threads, NEW b \in Bytes, b < FileLength,
                        Sector(b) \in Touches(call'[u])
                 PROVE  IF b \in Span(call'[u])
                        THEN bytes[b] = u \/ (bytes[b] = image[b]
                                              /\ Sector(b) \in SectorsOf(call'[u].todo, "write"))
                        ELSE bytes[b] = image[b]
                             /\ (call'[u].buf[b] = image[b]
                                 \/ Sector(b) \in SectorsOf(call'[u].todo, "read"))
      BY <1>1 DEF WritesExact, Left
    <3>1. CASE u # t
      BY <1>6, <2>1, <3>1 DEF OfInv, WritesExact, Left
    <3>2. CASE u = t
      <4>1. call'[u] = c /\ write /\ Sector(b) \in Reach(position, n)
        BY <1>5, <1>6, <3>2
      <4>2. bytes[b] = image[b]
        BY <2>3, <4>1
      <4>3. b \in Int
        BY BytesInt
      <4>4. b \in Span(c) => Sector(b) \in SectorsOf(todo, "write")
        BY <1>3, <4>1
      <4>5. b \notin Span(c) => Sector(b) \in SectorsOf(todo, "read")
        BY <1>3, <1>5, <4>1, <4>3
      <4> QED  BY <1>4, <4>1, <4>2, <4>4, <4>5
    <3> QED  BY <3>1, <3>2
  <2>5. ReadsExact'
    <3> SUFFICES ASSUME NEW u \in Threads, NEW b \in Bytes, b < FileLength, call'[u] # NoCall,
                        ~call'[u].write
                 PROVE  /\ image[b] = call'[u].start[b] \/ image[b] \in Threads \ {u}
                        /\ b \in Span(call'[u]) => \/ Sector(b) \in SectorsOf(call'[u].todo, "read")
                                                   \/ call'[u].buf[b] = call'[u].start[b]
                                                   \/ call'[u].buf[b] \in Threads \ {u}
      BY <1>1 DEF ReadsExact, Left, Idle
    <3>1. CASE u # t
      BY <1>6, <2>1, <3>1 DEF OfInv, ReadsExact, Left, Idle
    <3>2. CASE u = t
      <4>1. call'[u] = c /\ ~write
        BY <1>4, <1>6, <3>2
      <4>2. b \in Span(c) => Sector(b) \in SectorsOf(todo, "read")
        BY <1>3, <1>5, <4>1
      <4> QED  BY <1>4, <4>1, <4>2
    <3> QED  BY <3>1, <3>2
  <2>6. RestExact'
    <3> SUFFICES ASSUME NEW b \in Bytes, b < FileLength,
                        \A u \in Threads : Sector(b) \notin Touches(call'[u])
                 PROVE  bytes[b] = image[b]
      BY <1>1 DEF RestExact
    <3>1. \A u \in Threads : Sector(b) \notin Touches(call[u])
      BY <1>6, <2>1
    <3> QED  BY <2>1, <3>1 DEF OfInv, RestExact
  <2> QED  BY <2>2, <2>4, <2>5, <2>6
<1> QED  BY <1>7, <1>8, <1>9 DEF OfInv

\* Every step of a thread keeps the open file's invariant.
LEMMA OfNextInv == OfInv /\ [OfNext]_ofVars => OfInv'
<1> SUFFICES ASSUME OfInv, [OfNext]_ofVars PROVE OfInv'
  OBVIOUS
<1>1. CASE UNCHANGED ofVars
  <2>1. UNCHANGED <<bytes, seekPosition, call, calls, image, raced, wrong>>
    BY <1>1 DEF ofVars
  <2>2. OfTypes'
    <3>1. raced' \in BOOLEAN /\ wrong' \in BOOLEAN
      BY <2>1 DEF OfInv, OfTypes
    <3> QED  BY <2>1, <3>1 DEF OfInv, OfTypes
  <2>3. CallsInRange'
    BY <2>1 DEF OfInv, CallsInRange, Idle, Left
  <2>4. /\ Apart' <=> Apart
        /\ WritesExact' <=> WritesExact
        /\ ReadsExact' <=> ReadsExact
        /\ RestExact' <=> RestExact
    BY <2>1 DEF Apart, WritesExact, ReadsExact, RestExact, Left, Idle
  <2> QED  BY <2>1, <2>2, <2>3, <2>4 DEF OfInv
<1>2. CASE OfNext
  <2>1. PICK t \in Threads : \/ \E p \in 0 .. FileLength : Seek(t, p)
                             \/ \E w \in BOOLEAN, n \in 0 .. MaxBytes : Call(t, w, n)
                             \/ Access(t) \/ Return(t)
    BY <1>2 DEF OfNext
  <2>2. CASE \E p \in 0 .. FileLength : Seek(t, p)
    BY <2>2, SeekInv
  <2>3. CASE \E w \in BOOLEAN, n \in 0 .. MaxBytes : Call(t, w, n)
    BY <2>3, CallInv
  <2>4. CASE Access(t)
    <3>1. ~Idle(t) /\ call[t].todo # <<>>
      BY <2>4 DEF Access, Idle, NoCall
    <3>2. call[t].todo \in Seq(Accessed)
      BY <3>1, SpanIs DEF OfInv, Calls
    <3>3. Head(call[t].todo).kind \in {"read", "write"}
      <4>1. ReadsFirst(call[t].todo)
        BY <3>1 DEF OfInv, CallsInRange
      <4>2. Head(call[t].todo) \in Accessed
        BY <3>1, <3>2, <4>1, TailIs
      <4> QED  BY <4>2 DEF Accessed
    <3> QED  BY <2>4, <3>3, ReadSectorInv, WriteSectorInv
  <2>5. CASE Return(t)
    BY <2>5, ReturnInv
  <2> QED  BY <2>1, <2>2, <2>3, <2>4, <2>5
<1> QED  BY <1>1, <1>2

\* Unless two calls have overlapped, the invariant gives what is checked: the bytes are those written.
LEMMA OfInvExact == OfInv => FileExact
<1> SUFFICES ASSUME OfInv, ~raced
             PROVE  ~wrong /\ \A b \in 0 .. FileLength - 1 :
                      (\A t \in Threads : Sector(b) \notin Touches(call[t])) => bytes[b] = image[b]
  BY DEF FileExact
<1>1. ~wrong /\ RestExact
  BY DEF OfInv
<1>2. \A b \in 0 .. FileLength - 1 : b \in Bytes /\ b < FileLength
  <2>1. FileLength \in Nat
    BY OpenFileAssumption
  <2> QED  BY <2>1, FileInBytes
<1> QED  BY <1>1, <1>2 DEF RestExact

\* Every call to Read and Write, of any threads, on a file of any length in sectors of
\* any size: its plan of reads and writes, its buffer, and the bytes on the disk.
THEOREM FileInvariant == OfSpec => []OfInv
<1>1. OfInit => OfInv
  BY OfInitInv
<1>2. OfInv /\ [OfNext]_ofVars => OfInv'
  BY OfNextInv
<1> QED  BY <1>1, <1>2, PTL DEF OfSpec

\* As long as no two writes share a sector in time, a write changes its bytes and no
\* other, and a read returns what was there or was put there meanwhile.
THEOREM FileContents == OfSpec => []FileExact
BY FileInvariant, OfInvExact, PTL

-----------------------------------------------------------------------------
(***************************************************************************)
(* The file system, used by one thread at a time: files, the free map and  *)
(* what a crash leaves of them.                                            *)
(***************************************************************************)

DataSeqs == Seq(DiskSectors)
Entries == [inUse : BOOLEAN, sector : DiskSectors, name : Names \cup {NoName}]

FsTypes ==
  /\ marked \subseteq DiskSectors /\ System \subseteq marked
  /\ table \in [Slots -> Entries]
  /\ header \in [DiskSectors -> DataSeqs]
  /\ hurt \subseteq Slots
  /\ ~crashed => hurt = {}
  /\ DOMAIN op = Users

\* The sectors that the healthy files account for.
Used == System \cup UNION {Own(s) : s \in Healthy}

First(dir) == [to |-> "directory1", dir |-> dir]
Second(dir) == [to |-> "directory2", dir |-> dir]

\* The file that a Create is making: its entry, the data sectors of its header, the
\* directory and the free map that are to be written.
Made(o, e, data) ==
  /\ e.inUse /\ e.name = o.name
  /\ ({e.sector} \cup ToSet(data)) \cap marked = {} /\ e.sector \notin ToSet(data)
  /\ LET dir == [table EXCEPT ![o.slot] = e]
         map == marked \cup ({e.sector} \cup ToSet(data))
     IN \/ /\ o.todo = <<WriteHeader(e.sector, data), First(dir), Second(dir), WriteMap(map)>>
           /\ ~table[o.slot].inUse
        \/ /\ o.todo = <<First(dir), Second(dir), WriteMap(map)>> /\ header[e.sector] = data
           /\ ~table[o.slot].inUse
        \/ /\ o.todo = <<Second(dir), WriteMap(map)>> /\ header[e.sector] = data
           /\ o.slot < Straddle => table[o.slot] = e
           /\ o.slot = Straddle => table[o.slot].inUse /\ table[o.slot].sector = e.sector
        \/ /\ o.todo = <<WriteMap(map)>> /\ header[e.sector] = data
           /\ table[o.slot] = e

\* What a Create is still to write: sectors that no file has, for a name that none has, in
\* the first entry that was free.
Creating(o) ==
  /\ \A s \in Slots \ {o.slot} : table[s].inUse => table[s].name # o.name
  /\ \A s \in Slots : s < o.slot => table[s].inUse
  /\ \E e \in Entries, data \in DataSeqs : Made(o, e, data)

\* What a Remove is still to write: first the free map without the sectors of the file,
\* which are of no file that is unharmed by that.
Removing(o) ==
  LET dir == [table EXCEPT ![o.slot].inUse = FALSE]
  IN \/ /\ o.todo = <<WriteMap(marked \ Own(o.slot)), First(dir), Second(dir)>>
        /\ Own(o.slot) \cap System = {}
        /\ \A s \in Healthy : Own(s) \cap Own(o.slot) = {}
        /\ ~crashed => marked = Used \cup Own(o.slot)
     \/ o.todo = <<First(dir), Second(dir)>>
     \/ o.todo = <<Second(dir)>> /\ (o.slot <= Straddle => ~table[o.slot].inUse)

\* An operation that has written nothing yet has copies of what is on the disk.
Reading(o) ==
  \/ /\ o \in [kind : {"open", "remove", "create"}, name : Names, size : Nat, alone : BOOLEAN,
               at : {"directory1", "directory2", "header", "map"}, dir : [Slots -> Entries]]
     /\ o.at # "directory1" => o.dir = table
     /\ o.at = "header" => o.kind # "create" /\ FindIndex(table, o.name) # -1
     /\ o.at = "map" => o.kind = "create" /\ FindIndex(table, o.name) = -1
  \/ /\ o \in [kind : {"remove"}, name : Names, alone : BOOLEAN, at : {"map"}, dir : {table}, data : DataSeqs]
     /\ FindIndex(table, o.name) # -1
     /\ o.data = header[table[FindIndex(table, o.name)].sector]

Writing(o) ==
  /\ o \in [kind : {"remove", "create"}, name : Names, alone : BOOLEAN, at : {"writes"},
            slot : Slots \ hurt, todo : {o.todo}]
  /\ o.kind = "create" => Creating(o)
  /\ o.kind = "remove" => Removing(o)

Ops ==
  \A u \in Users : op[u] # NoOp =>
    /\ op[u].kind = "remove" => op[u].alone
    /\ op[u].alone => opened = {}
    /\ Reading(op[u]) \/ Writing(op[u])

HealthyFiles ==
  \A s \in Healthy :
    /\ Own(s) \subseteq marked \ System /\ table[s].sector \notin ToSet(header[table[s].sector])
    /\ \A r \in Healthy \ {s} : table[r].name # table[s].name /\ Own(r) \cap Own(s) = {}

\* An open file is in the directory, and nobody is changing its entry.
OpenedKept ==
  \A f \in opened :
    /\ f.slot \in Slots \ Changing /\ table[f.slot].inUse /\ table[f.slot].sector = f.sector
    /\ f.slot \notin hurt => f.data = header[f.sector]

\* The other entries with the name of a file that Create has made: only the one that
\* straddles may keep a name that is not its own, and then it comes after the file's.
Stale(c, s) ==
  table[s].name = c.name /\ (table[s].inUse \/ s = Straddle) => s = Straddle /\ c.slot < Straddle

CreatedKept ==
  \A c \in created :
    /\ c.slot \in Slots \ Changing /\ table[c.slot].inUse /\ table[c.slot].name = c.name
    /\ \A s \in Slots \ {c.slot} : Stale(c, s)

\* As long as nothing has crashed, the free map has the system's sectors and the files',
\* except while a Remove is still to write it.
NoneLost ==
  ~crashed => \/ marked = Used
              \/ \E u \in Users : At(u, "writes") /\ op[u].kind = "remove" /\ Len(op[u].todo) = 3

FsState == FsTypes /\ Ops /\ HealthyFiles /\ OpenedKept /\ CreatedKept /\ NoneLost

FsInv == (~corrupt => FsState) /\ (~crashed => ~corrupt)

\* Entries and sectors are numbers.
LEMMA SlotNumbers == Slots \subseteq Nat /\ System \subseteq DiskSectors /\ DiskSectors \subseteq Nat /\ IsFiniteSet(DiskSectors)
<1>1. NumDirEntries \in Nat /\ FreeSectors \in Nat
  BY FileSystemAssumption
<1>2. IsFiniteSet(DiskSectors)
  BY <1>1, FS_Interval DEF DiskSectors
<1> QED  BY <1>1, <1>2 DEF Slots, System, DiskSectors

\* A set of numbers has a least.
LEMMA MinIsIn ==
  ASSUME NEW S, S \subseteq Nat, S # {}
  PROVE  Min(S) \in S /\ \A k \in S : Min(S) <= k
<1>1. PICK n \in S : \A k \in S : ~ (<<k, n>> \in OpToRel(<, Nat))
  BY NatLessThanWellFounded, WFMin, Zenon
<1>2. ASSUME NEW k \in S, ~(n <= k)
      PROVE  FALSE
  <2>1. <<k, n>> \in Nat \X Nat /\ k < n
    BY <1>2
  <2>2. <<k, n>> \in OpToRel(<, Nat)
    BY <2>1 DEF OpToRel
  <2> QED  BY <2>2, <1>1
<1>3. \E x \in S : \A y \in S : x =< y
  BY <1>2
<1> QED  BY <1>3 DEF Min

\* Directory::FindIndex finds an entry in use of that name, if there is one.
LEMMA FindIndexFinds ==
  ASSUME NEW dir, NEW name
  PROVE  /\ FindIndex(dir, name) = -1 => \A s \in Slots : dir[s].inUse => dir[s].name # name
         /\ FindIndex(dir, name) # -1 => /\ FindIndex(dir, name) \in Slots
                                         /\ dir[FindIndex(dir, name)].inUse
                                         /\ dir[FindIndex(dir, name)].name = name
<1> DEFINE found == {s \in Slots : dir[s].inUse /\ dir[s].name = name}
<1>1. FindIndex(dir, name) = IF found = {} THEN -1 ELSE Min(found)
  BY DEF FindIndex
<1>2. found \subseteq Nat
  BY SlotNumbers
<1>3. CASE found = {}
  <2>1. \A s \in Slots : dir[s].inUse => dir[s].name # name
    BY <1>3
  <2>2. FindIndex(dir, name) = -1
    BY <1>1, <1>3
  <2> QED  BY <2>1, <2>2
<1>4. CASE found # {}
  <2>1. Min(found) \in found
    BY <1>2, <1>4, MinIsIn
  <2>2. FindIndex(dir, name) \in found
    BY <1>1, <1>4, <2>1
  <2>3. FindIndex(dir, name) \in Nat
    BY <2>2, <1>2
  <2>4. FindIndex(dir, name) # -1
    BY <2>3
  <2> QED  BY <2>2, <2>4
<1> QED  BY <1>3, <1>4

\* Reading the two sectors of one image gives that image.
LEMMA SameSectors ==
  ASSUME NEW dir \in [Slots -> Entries]
  PROVE  Sectors(dir, dir) = dir
<1>1. \A s \in Slots : [dir[s] EXCEPT !.name = dir[s].name] = dir[s]
  BY DEF Entries
<1> QED  BY <1>1 DEF Sectors

\* A directory whose other sector is another's differs only where the two do.
LEMMA SectorsAgree ==
  ASSUME NEW first \in [Slots -> Entries], NEW second \in [Slots -> Entries]
  PROVE  /\ Sectors(first, second) \in [Slots -> Entries]
         /\ \A s \in Slots : first[s] = second[s] => Sectors(first, second)[s] = first[s]
         /\ \A s \in Slots : s < Straddle => Sectors(first, second)[s] = first[s]
         /\ \A s \in Slots : Straddle < s => Sectors(first, second)[s] = second[s]
         /\ Straddle \in Slots => Sectors(first, second)[Straddle] = [first[Straddle] EXCEPT !.name = second[Straddle].name]
<1>1. Straddle \in Nat /\ Slots \subseteq Nat
  BY FileSystemAssumption, SlotNumbers
<1>2. \A s \in Slots : /\ first[s] \in Entries /\ second[s] \in Entries
                       /\ [first[s] EXCEPT !.name = second[s].name] \in Entries
  BY DEF Entries
<1>3. \A s \in Slots : first[s] = second[s] => [first[s] EXCEPT !.name = second[s].name] = first[s]
  BY DEF Entries
<1>4. \A s \in Slots : Sectors(first, second)[s] = IF s = Straddle THEN [first[s] EXCEPT !.name = second[s].name]
                                                   ELSE IF s < Straddle THEN first[s] ELSE second[s]
  BY DEF Sectors
<1>5. Sectors(first, second) \in [Slots -> Entries]
  <2>1. \A s \in Slots : Sectors(first, second)[s] \in Entries
    BY <1>2, <1>4
  <2>2. Sectors(first, second) = [s \in Slots |-> Sectors(first, second)[s]]
    BY DEF Sectors
  <2> QED  BY <2>1, <2>2
<1> QED  BY <1>1, <1>3, <1>4, <1>5

\* The lowest n members of a finite set with n or more: there are some to choose.
LEMMA LowestAreIn ==
  ASSUME NEW clear, clear \subseteq Nat, IsFiniteSet(clear), NEW n \in Nat, n <= Cardinality(clear)
  PROVE  Lowest(clear, n) \in [1 .. n -> clear]
<1> DEFINE InTurn(f, k) == \A i \in 1 .. k : f[i] = Min(clear \ {f[j] : j \in 1 .. i - 1})
           none == {k \in Nat : k <= Cardinality(clear) /\ ~ \E f \in [1 .. k -> clear] : InTurn(f, k)}
<1>0. Cardinality(clear) \in Nat
  BY FS_CardinalityType
<1>1. ASSUME none # {}
      PROVE  FALSE
  <2>1. Min(none) \in none /\ \A k \in none : Min(none) <= k
    <3>1. none \subseteq Nat
      OBVIOUS
    <3> QED  BY <3>1, <1>1, MinIsIn, Zenon
  <2> DEFINE m == Min(none)
  <2>2. /\ m \in Nat /\ m <= Cardinality(clear)
        /\ ~ \E f \in [1 .. m -> clear] : InTurn(f, m)
        /\ \A k \in none : m <= k
    BY <2>1
  <2> HIDE DEF m
  <2>3. m # 0
    <3>1. [i \in 1 .. 0 |-> 0] \in [1 .. 0 -> clear] /\ InTurn([i \in 1 .. 0 |-> 0], 0)
      OBVIOUS
    <3> QED  BY <3>1, <2>2
  <2>4. m - 1 \in Nat /\ m - 1 < Cardinality(clear) /\ m - 1 <= Cardinality(clear) /\ ~(m <= m - 1)
    BY <2>2, <2>3, <1>0
  <2>5. PICK g \in [1 .. m - 1 -> clear] : InTurn(g, m - 1)
    <3>1. m - 1 \notin none
      <4> HIDE DEF none
      <4> QED  BY <2>2, <2>4
    <3> HIDE DEF InTurn
    <3> QED  BY <3>1, <2>4
  <2> DEFINE left == clear \ {g[j] : j \in 1 .. m - 1}
             f == [i \in 1 .. m |-> IF i = m THEN Min(left) ELSE g[i]]
  <2>6. left # {}
    <3>1. IsFiniteSet(1 .. m - 1) /\ Cardinality(1 .. m - 1) = m - 1
      <4>1. /\ IsFiniteSet(1 .. m - 1)
            /\ Cardinality(1 .. m - 1) = IF 1 > m - 1 THEN 0 ELSE m - 1 - 1 + 1
        <5>1. 1 \in Int /\ m - 1 \in Int
          BY <2>4
        <5> QED  BY <5>1, FS_Interval
      <4> QED  BY <4>1, <2>4
    <3>2. \A j \in 1 .. m - 1 : g[j] \in clear
      BY <2>5
    <3>3. ASSUME left = {}
          PROVE  FALSE
      <4>1. clear = {g[j] : j \in 1 .. m - 1}
        BY <3>2, <3>3
      <4>2. g \in Surjection(1 .. m - 1, clear)
        BY <4>1, <2>5 DEF Surjection
      <4>3. Cardinality(clear) <= Cardinality(1 .. m - 1)
        BY <4>2, <3>1, FS_Surjection
      <4> QED  BY <4>3, <3>1, <2>4, <1>0
    <3> QED  BY <3>3
  <2>7. Min(left) \in left
    <3>1. left \subseteq Nat
      OBVIOUS
    <3> QED  BY <3>1, <2>6, MinIsIn, Zenon
  <2>8. f \in [1 .. m -> clear]
    <3>1. \A i \in 1 .. m : i # m => i \in 1 .. m - 1
      BY <2>2, <2>4
    <3>2. \A i \in 1 .. m : (IF i = m THEN Min(left) ELSE g[i]) \in clear
      BY <3>1, <2>5, <2>7
    <3> QED  BY <3>2, Zenon
  <2>9. InTurn(f, m)
    <3> SUFFICES ASSUME NEW i \in 1 .. m PROVE f[i] = Min(clear \ {f[j] : j \in 1 .. i - 1})
      OBVIOUS
    <3>1. \A j \in 1 .. i - 1 : j \in 1 .. m - 1 /\ j # m /\ j \in 1 .. m
      BY <2>2, <2>4
    <3>2. \A j \in 1 .. i - 1 : f[j] = g[j]
      BY <3>1
    <3>3. {f[j] : j \in 1 .. i - 1} = {g[j] : j \in 1 .. i - 1}
      BY <3>2, Zenon
    <3>4. CASE i = m
      <4>1. f[i] = Min(left)
        BY <3>4
      <4> HIDE DEF f
      <4> QED  BY <4>1, <3>3, <3>4
    <3>5. CASE i # m
      <4>1. f[i] = g[i] /\ i \in 1 .. m - 1
        BY <3>5, <2>2, <2>4
      <4>2. g[i] = Min(clear \ {g[j] : j \in 1 .. i - 1})
        BY <4>1, <2>5
      <4> HIDE DEF f
      <4> QED  BY <4>1, <4>2, <3>3
    <3> QED  BY <3>4, <3>5
  <2> HIDE DEF f
  <2> QED  BY <2>2, <2>8, <2>9
<1>2. \E f \in [1 .. n -> clear] : InTurn(f, n)
  BY <1>1
<1> QED  BY <1>2, Zenon DEF Lowest

\* BitMap::FindAndSet: the bits found were clear, and are set.
LEMMA FindAndSetFinds ==
  ASSUME NEW map, map \subseteq DiskSectors, NEW n \in Nat, ~(NumClear(map) < n)
  PROVE  /\ FindAndSet(map, n).found \in DataSeqs /\ Len(FindAndSet(map, n).found) = n
         /\ ToSet(FindAndSet(map, n).found) \subseteq DiskSectors \ map
         /\ FindAndSet(map, n).map = map \cup ToSet(FindAndSet(map, n).found)
<1> DEFINE clear == DiskSectors \ map
           found == Lowest(clear, n)
<1>1. clear \subseteq Nat /\ IsFiniteSet(clear) /\ clear \subseteq DiskSectors
  <2>1. IsFiniteSet(clear)
    BY SlotNumbers, FS_Difference
  <2> QED  BY <2>1, SlotNumbers
<1>2. n <= Cardinality(clear)
  <2>1. Cardinality(clear) \in Nat
    BY <1>1, FS_CardinalityType
  <2> QED  BY <2>1 DEF NumClear
<1>3. found \in [1 .. n -> clear]
  <2> HIDE DEF clear
  <2> QED  BY <1>1, <1>2, LowestAreIn
<1> DEFINE r == [found |-> found, map |-> map \cup ToSet(found)]
<1>4. FindAndSet(map, n) = r
  BY DEF FindAndSet
<1> HIDE DEF found, clear
<1>5. r.found = found /\ r.map = map \cup ToSet(found)
  OBVIOUS
<1>6. found \in Seq(DiskSectors) /\ Len(found) = n
  <2>1. found \in [1 .. n -> DiskSectors]
    BY <1>1, <1>3
  <2> QED  BY <2>1
<1>7. ToSet(found) \subseteq clear
  BY <1>3 DEF ToSet
<1> HIDE DEF r
<1> QED  BY <1>4, <1>5, <1>6, <1>7 DEF DataSeqs, clear

\* Nothing in the system calls keeps a second user out; filesys.cpp:33
\* and :217 leave that to the caller.
OneUser == \A u, v \in Users : u = v

\* The file system starts with an empty directory and none but its own sectors taken.
LEMMA InitFsState == FsInit => FsState
<1> SUFFICES ASSUME FsInit PROVE FsState
  OBVIOUS
<1>1. /\ marked = System /\ opened = {} /\ hurt = {} /\ created = {}
      /\ \A s \in Slots : table[s] = [inUse |-> FALSE, sector |-> 0, name |-> NoName]
      /\ \A u \in Users : op[u] = NoOp
  BY DEF FsInit
<1>2. Healthy = {}
  BY <1>1 DEF Healthy
<1>3. FsTypes
  <2>1. 0 \in DiskSectors
    BY SlotNumbers DEF System
  <2>2. table \in [Slots -> Entries]
    BY <2>1 DEF FsInit, Entries
  <2>3. <<>> \in DataSeqs
    BY DEF DataSeqs
  <2>4. header \in [DiskSectors -> DataSeqs]
    BY <2>3 DEF FsInit
  <2> QED  BY <1>1, <2>2, <2>4, SlotNumbers DEF FsTypes, FsInit
<1>4. Used = System
  BY <1>2 DEF Used
<1> QED  BY <1>1, <1>2, <1>3, <1>4 DEF FsState, Ops, HealthyFiles, OpenedKept, CreatedKept, NoneLost

\* With one user, the entry being changed is that of its operation.
LEMMA OneChanging ==
  ASSUME OneUser, NEW u \in Users
  PROVE  /\ Changing = IF At(u, "writes") THEN {op[u].slot} ELSE {}
         /\ Changing' = IF op'[u] # NoOp /\ op'[u].at = "writes" THEN {op'[u].slot} ELSE {}
         /\ NoneLost <=> ~crashed => \/ marked = Used
                                     \/ At(u, "writes") /\ op[u].kind = "remove" /\ Len(op[u].todo) = 3
         /\ Ops' <=> (op'[u] # NoOp => /\ op'[u].kind = "remove" => op'[u].alone
                                       /\ op'[u].alone => opened' = {}
                                       /\ Reading(op[u])' \/ Writing(op[u])')
<1>1. \A v \in Users : v = u
  BY DEF OneUser
<1>2. Changing = IF At(u, "writes") THEN {op[u].slot} ELSE {}
  BY <1>1 DEF Changing
<1>3. Changing' = IF op'[u] # NoOp /\ op'[u].at = "writes" THEN {op'[u].slot} ELSE {}
  BY <1>1 DEF Changing, At
<1>4. NoneLost <=> ~crashed => \/ marked = Used
                               \/ At(u, "writes") /\ op[u].kind = "remove" /\ Len(op[u].todo) = 3
  BY <1>1 DEF NoneLost
<1>5. Ops' <=> (op'[u] # NoOp => /\ op'[u].kind = "remove" => op'[u].alone
                                 /\ op'[u].alone => opened' = {}
                                 /\ Reading(op[u])' \/ Writing(op[u])')
  BY <1>1 DEF Ops
<1> QED  BY <1>2, <1>3, <1>4, <1>5

\* A step of a user that has nothing to write, before it or after, leaves the disk alone.
LEMMA ReadingStep ==
  ASSUME OneUser, FsState, NEW u \in Users,
         ~At(u, "writes"), ~(op'[u] # NoOp /\ op'[u].at = "writes"), DOMAIN op' = Users,
         UNCHANGED <<marked, table, header, history>>
  PROVE  /\ Changing = {} /\ Changing' = {}
         /\ FsTypes' /\ HealthyFiles' /\ CreatedKept' /\ NoneLost'
<1>1. Changing = {} /\ Changing' = {}
  BY OneChanging
<1>2. /\ marked' = marked /\ table' = table /\ header' = header
      /\ hurt' = hurt /\ crashed' = crashed /\ created' = created
  BY DEF history
<1>3. Healthy' = Healthy /\ \A s : Own(s)' = Own(s)
  BY <1>1, <1>2 DEF Healthy, Own
<1>4. Used' = Used
  BY <1>3 DEF Used
<1>5. FsTypes'
  BY <1>2 DEF FsState, FsTypes
<1>6. HealthyFiles'
  BY <1>2, <1>3 DEF FsState, HealthyFiles
<1>7. CreatedKept'
  BY <1>1, <1>2 DEF FsState, CreatedKept, Stale
<1>8. NoneLost'
  <2>1. ~crashed => marked = Used
    BY OneChanging DEF FsState
  <2> QED  BY <2>1, <1>2, <1>4 DEF NoneLost
<1> QED  BY <1>1, <1>5, <1>6, <1>7, <1>8

\* Whatever opens or closes nothing and finds the disk alone keeps the open files.
LEMMA OpenedStep ==
  ASSUME FsState, Changing = {}, Changing' = {}, opened' \subseteq opened,
         UNCHANGED <<table, header, hurt>>
  PROVE  OpenedKept'
  BY DEF FsState, OpenedKept

\* With one user, to begin an operation changes nothing on the disk.
LEMMA BeginKeeps ==
  ASSUME OneUser, FsState, NEW u \in Users, NEW kind \in {"open", "remove", "create"},
         NEW name \in Names, NEW size \in Nat, Begin(u, kind, name, size)
  PROVE  FsState'
<1> DEFINE o == [kind |-> kind, name |-> name, size |-> size, alone |-> kind = "remove" \/ size > 0,
                 at |-> "directory1", dir |-> table]
<1>1. /\ op[u] = NoOp /\ op' = [op EXCEPT ![u] = o]
      /\ kind = "remove" \/ size > 0 => opened = {}
      /\ UNCHANGED <<marked, table, header, opened, history>>
  BY DEF Begin
<1>2. op'[u] = o /\ DOMAIN op' = Users
  BY <1>1 DEF FsState, FsTypes
<1>3. /\ o.kind = kind /\ o.at = "directory1" /\ o.alone = (kind = "remove" \/ size > 0)
  OBVIOUS
<1>4. Reading(op[u])'
  <2>1. o \in [kind : {"open", "remove", "create"}, name : Names, size : Nat, alone : BOOLEAN,
               at : {"directory1", "directory2", "header", "map"}, dir : [Slots -> Entries]]
    BY DEF FsState, FsTypes
  <2> HIDE DEF o
  <2> QED  BY <2>1, <1>2, <1>3 DEF Reading
<1> HIDE DEF o
<1>5. ~At(u, "writes") /\ ~(op'[u] # NoOp /\ op'[u].at = "writes")
  BY <1>1, <1>2, <1>3 DEF At
<1>6. /\ Changing = {} /\ Changing' = {}
      /\ FsTypes' /\ HealthyFiles' /\ CreatedKept' /\ NoneLost'
  BY <1>1, <1>2, <1>5, ReadingStep
<1>7. OpenedKept'
  BY <1>1, <1>6, OpenedStep DEF history
<1>8. Ops'
  BY <1>1, <1>2, <1>3, <1>4, OneChanging
<1> QED  BY <1>6, <1>7, <1>8 DEF FsState

Begun ==
  [kind : {"open", "remove", "create"}, name : Names, size : Nat, alone : BOOLEAN,
   at : {"directory1", "directory2", "header", "map"}, dir : [Slots -> Entries]]

\* Where an operation is says what it has read.
LEMMA ReadingAt ==
  ASSUME FsState, NEW u \in Users
  PROVE  /\ op[u] # NoOp => /\ op[u].kind = "remove" => op[u].alone
                            /\ op[u].alone => opened = {}
         /\ At(u, "directory1") => op[u] \in Begun
         /\ At(u, "directory2") => op[u] \in Begun /\ op[u].dir = table
         /\ At(u, "header") => op[u] \in Begun /\ op[u].dir = table /\ op[u].kind # "create"
                               /\ FindIndex(table, op[u].name) # -1
         /\ At(u, "map") /\ op[u].kind = "create" =>
              op[u] \in Begun /\ op[u].dir = table /\ FindIndex(table, op[u].name) = -1
         /\ At(u, "map") /\ op[u].kind = "remove" =>
              /\ op[u].name \in Names /\ op[u].alone \in BOOLEAN /\ op[u].dir = table
              /\ FindIndex(table, op[u].name) # -1
              /\ op[u].data = header[table[FindIndex(table, op[u].name)].sector]
         /\ At(u, "writes") => Writing(op[u])
<1>1. op[u] # NoOp => /\ op[u].kind = "remove" => op[u].alone
                      /\ op[u].alone => opened = {}
                      /\ Reading(op[u]) \/ Writing(op[u])
  BY DEF FsState, Ops
<1>2. Writing(op[u]) => op[u].at = "writes"
  BY DEF Writing
<1>3. Reading(op[u]) => op[u].at # "writes"
  BY DEF Reading
<1>4. Reading(op[u]) =>
         \/ /\ op[u] \in Begun
            /\ op[u].at # "directory1" => op[u].dir = table
            /\ op[u].at = "header" => op[u].kind # "create" /\ FindIndex(table, op[u].name) # -1
            /\ op[u].at = "map" => op[u].kind = "create" /\ FindIndex(table, op[u].name) = -1
         \/ /\ op[u].at = "map" /\ op[u].kind = "remove"
            /\ op[u].name \in Names /\ op[u].alone \in BOOLEAN /\ op[u].dir = table
            /\ FindIndex(table, op[u].name) # -1
            /\ op[u].data = header[table[FindIndex(table, op[u].name)].sector]
  BY DEF Reading, Begun
<1> QED  BY <1>1, <1>2, <1>3, <1>4 DEF At

\* What a step that only reads must show of the operation it leaves.
LEMMA ReadingKeeps ==
  ASSUME OneUser, FsState, NEW u \in Users, ~At(u, "writes"),
         NEW o, op' = [op EXCEPT ![u] = o], o = NoOp \/ o.at # "writes",
         UNCHANGED <<marked, table, header, opened, history>>,
         o # NoOp => /\ o.kind = "remove" => o.alone
                     /\ o.alone => opened = {}
                     /\ Reading(o)
  PROVE  FsState'
<1>1. op'[u] = o /\ DOMAIN op' = Users
  BY DEF FsState, FsTypes
<1>2. /\ Changing = {} /\ Changing' = {}
      /\ FsTypes' /\ HealthyFiles' /\ CreatedKept' /\ NoneLost'
  BY <1>1, ReadingStep
<1>3. OpenedKept'
  BY <1>2, OpenedStep DEF history
<1>4. Ops'
  <2>1. o # NoOp => Reading(op[u])'
    BY <1>1 DEF Reading
  <2> QED  BY <2>1, <1>1, OneChanging
<1> QED  BY <1>2, <1>3, <1>4 DEF FsState

\* Neither does the first fetch of an operation,
LEMMA FetchFirstKeeps ==
  ASSUME OneUser, FsState, NEW u \in Users, FetchFirst(u)
  PROVE  FsState'
<1> DEFINE o == [op[u] EXCEPT !.dir = table, !.at = "directory2"]
<1>2. /\ ~At(u, "writes") /\ op[u] \in Begun
      /\ op[u].kind = "remove" => op[u].alone
      /\ op[u].alone => opened = {}
  BY ReadingAt DEF FetchFirst, At
<1>3. op' = [op EXCEPT ![u] = o] /\ UNCHANGED <<marked, table, header, opened, history>>
  BY DEF FetchFirst
<1>4. /\ o \in Begun /\ o.at = "directory2" /\ o.dir = table
      /\ o.kind = op[u].kind /\ o.alone = op[u].alone
  BY <1>2 DEF Begun, FsState, FsTypes
<1> HIDE DEF o
<1>5. Reading(o)
  BY <1>4 DEF Reading, Begun
<1> QED  BY <1>2, <1>3, <1>4, <1>5, ReadingKeeps

\* the second,
LEMMA FetchSecondKeeps ==
  ASSUME OneUser, FsState, NEW u \in Users, FetchSecond(u)
  PROVE  FsState'
<1> DEFINE next == IF op[u].kind = "create" THEN "map" ELSE "header"
           ends == (FindIndex(table, op[u].name) # -1) = (op[u].kind = "create")
           o == [op[u] EXCEPT !.dir = table, !.at = next]
<1>1. /\ ~At(u, "writes") /\ op[u] \in Begun /\ op[u].dir = table
      /\ op[u].kind = "remove" => op[u].alone
      /\ op[u].alone => opened = {}
  BY ReadingAt DEF FetchSecond, At
<1>2. Sectors(op[u].dir, table) = table
  BY <1>1, SameSectors DEF FsState, FsTypes
<1>3. /\ op' = [op EXCEPT ![u] = IF ends THEN NoOp ELSE o]
      /\ UNCHANGED <<marked, table, header, opened, history>>
  BY <1>2 DEF FetchSecond
<1>4. /\ o \in Begun /\ o.at = next /\ o.dir = table /\ o.name = op[u].name
      /\ o.kind = op[u].kind /\ o.alone = op[u].alone
  BY <1>1 DEF Begun, FsState, FsTypes
<1>5. next \in {"map", "header"} /\ (next = "map" <=> op[u].kind = "create")
  OBVIOUS
<1> HIDE DEF o, next
<1>6. CASE ends
  <2>1. op' = [op EXCEPT ![u] = NoOp]
    BY <1>3, <1>6
  <2> QED  BY <1>1, <1>3, <2>1, ReadingKeeps
<1>7. CASE ~ends
  <2>1. op' = [op EXCEPT ![u] = o]
    BY <1>3, <1>7
  <2>2. Reading(o)
    BY <1>4, <1>5, <1>7 DEF Reading, Begun
  <2> QED  BY <1>1, <1>3, <1>4, <1>5, <2>1, <2>2, ReadingKeeps
<1> QED  BY <1>6, <1>7

\* or that of a file's header.
LEMMA FetchHeaderKeeps ==
  ASSUME OneUser, FsState, NEW u \in Users, FetchHeader(u)
  PROVE  FsState'
<1> DEFINE o == [kind |-> op[u].kind, name |-> op[u].name, alone |-> op[u].alone, at |-> "map",
                 dir |-> op[u].dir, data |-> header[HeaderOf(u)]]
<1>1. /\ ~At(u, "writes") /\ op[u] \in Begun /\ op[u].dir = table
      /\ FindIndex(table, op[u].name) # -1
      /\ op[u].kind = "remove" /\ op[u].alone /\ opened = {}
  BY ReadingAt DEF FetchHeader, At
<1>2. op' = [op EXCEPT ![u] = o] /\ UNCHANGED <<marked, table, header, opened, history>>
  BY DEF FetchHeader
<1>3. HeaderOf(u) = table[FindIndex(table, op[u].name)].sector
  BY <1>1 DEF HeaderOf
<1>4. header[HeaderOf(u)] \in DataSeqs
  <2>1. FindIndex(table, op[u].name) \in Slots
    BY <1>1, FindIndexFinds
  <2>2. table[FindIndex(table, op[u].name)] \in Entries
    BY <2>1 DEF FsState, FsTypes
  <2>3. HeaderOf(u) \in DiskSectors
    BY <1>3, <2>2 DEF Entries
  <2> QED  BY <2>3 DEF FsState, FsTypes
<1>5. op[u].name \in Names /\ op[u].alone \in BOOLEAN
  BY <1>1 DEF Begun
<1>6. /\ o \in [kind : {"remove"}, name : Names, alone : BOOLEAN, at : {"map"}, dir : {table}, data : DataSeqs]
      /\ o.name = op[u].name /\ o.kind = "remove" /\ o.alone = op[u].alone /\ o.at = "map"
      /\ o.data = header[HeaderOf(u)]
  BY <1>1, <1>4, <1>5
<1> HIDE DEF o
<1>7. Reading(o)
  BY <1>1, <1>3, <1>6 DEF Reading
<1> QED  BY <1>1, <1>2, <1>6, <1>7, ReadingKeeps

\* The header that an open file keeps is the one on the disk.
LEMMA OpenFileKeeps ==
  ASSUME OneUser, FsState, NEW u \in Users, OpenFile(u)
  PROVE  FsState'
<1> DEFINE slot == FindIndex(table, op[u].name)
           file == [slot |-> slot, sector |-> HeaderOf(u), data |-> header[HeaderOf(u)]]
<1>1. /\ ~At(u, "writes") /\ op[u].dir = table
      /\ FindIndex(table, op[u].name) # -1
  BY ReadingAt DEF OpenFile, At
<1>2. /\ op' = [op EXCEPT ![u] = NoOp] /\ opened' = opened \cup {file}
      /\ UNCHANGED <<marked, table, header, history>>
  BY <1>1 DEF OpenFile
<1>3. op'[u] = NoOp /\ DOMAIN op' = Users
  BY <1>2 DEF FsState, FsTypes
<1>4. /\ Changing = {} /\ Changing' = {}
      /\ FsTypes' /\ HealthyFiles' /\ CreatedKept' /\ NoneLost'
  BY <1>1, <1>2, <1>3, ReadingStep
<1>5. Ops'
  BY <1>3, OneChanging
<1>6. OpenedKept'
  <2>1. slot \in Slots /\ table[slot].inUse /\ table[slot].sector = HeaderOf(u)
    BY <1>1, FindIndexFinds DEF HeaderOf
  <2>2. file.slot = slot /\ file.sector = HeaderOf(u) /\ file.data = header[HeaderOf(u)]
    OBVIOUS
  <2> HIDE DEF file, slot
  <2>3. UNCHANGED <<table, header, hurt>>
    BY <1>2 DEF history
  <2>4. \A f \in opened : /\ f.slot \in Slots \ Changing' /\ table'[f.slot].inUse /\ table'[f.slot].sector = f.sector
                          /\ f.slot \notin hurt' => f.data = header'[f.sector]
    BY <2>3, <1>4 DEF FsState, OpenedKept
  <2>5. /\ file.slot \in Slots \ Changing' /\ table'[file.slot].inUse /\ table'[file.slot].sector = file.sector
        /\ file.data = header'[file.sector]
    BY <2>1, <2>2, <2>3, <1>4
  <2> QED  BY <1>2, <2>4, <2>5 DEF OpenedKept
<1> QED  BY <1>4, <1>5, <1>6 DEF FsState

\* Closing a file, or nothing at all.
LEMMA RestKeeps ==
  ASSUME FsState, opened' \subseteq opened, UNCHANGED <<marked, table, header, op, history>>
  PROVE  FsState'
<1>1. UNCHANGED <<marked, table, header, op, history>>
  OBVIOUS
<1>2. /\ marked' = marked /\ table' = table /\ header' = header /\ op' = op
      /\ hurt' = hurt /\ crashed' = crashed /\ created' = created
  BY <1>1 DEF history
<1>3. Changing' = Changing
  BY <1>2 DEF Changing, At
<1>4. Healthy' = Healthy /\ \A s : Own(s)' = Own(s)
  BY <1>2, <1>3 DEF Healthy, Own
<1>5. Used' = Used
  BY <1>4 DEF Used
<1>6. FsTypes' /\ HealthyFiles' /\ CreatedKept'
  BY <1>2, <1>3, <1>4 DEF FsState, FsTypes, HealthyFiles, CreatedKept, Stale
<1>7. NoneLost'
  BY <1>2, <1>5 DEF FsState, NoneLost, At
<1>8. OpenedKept'
  BY <1>1, <1>2, <1>3 DEF FsState, OpenedKept
<1>9. Ops'
  <2>1. ASSUME NEW u \in Users
        PROVE  Reading(op[u])' = Reading(op[u]) /\ Writing(op[u])' = Writing(op[u])
    <3>1. Reading(op[u])' = Reading(op[u])
      BY <1>2 DEF Reading
    <3>2. Creating(op[u])' = Creating(op[u])
      BY <1>2 DEF Creating, Made
    <3>3. Removing(op[u])' = Removing(op[u])
      BY <1>2, <1>4, <1>5 DEF Removing, Own
    <3>4. Writing(op[u])' = Writing(op[u])
      BY <1>2, <3>2, <3>3 DEF Writing
    <3> QED  BY <3>1, <3>4
  <2>2. opened = {} => opened' = {}
    BY <1>1
  <2>3. \A u \in Users : op'[u] = op[u]
    BY <1>2
  <2> QED  BY <2>1, <2>2, <2>3 DEF FsState, Ops
<1> QED  BY <1>6, <1>7, <1>8, <1>9 DEF FsState

\* Four writes in turn, put together from the parts the code gives them in.
LEMMA FourInTurn ==
  ASSUME NEW a, NEW b, NEW c, NEW d
  PROVE  <<a>> \o <<b, c>> \o <<d>> = <<a, b, c, d>>
<1> DEFINE S == {a, b, c, d}
           s == <<a>> \o <<b, c>>
           r == <<d>>
           t == s \o r
<1>1. <<a>> \in Seq(S) /\ <<b, c>> \in Seq(S)
  OBVIOUS
<1>2. r \in Seq(S) /\ Len(r) = 1 /\ r[1] = d
  OBVIOUS
<1> HIDE DEF S, r
<1>3. s \in Seq(S) /\ Len(s) = 3
  BY <1>1, ConcatProperties
<1>4. s[1] = a /\ s[2] = b /\ s[3] = c
  BY <1>1, ConcatProperties
<1> HIDE DEF s
<1>5. /\ t \in Seq(S) /\ Len(t) = Len(s) + Len(r)
      /\ \A i \in 1 .. Len(s) + Len(r) : t[i] = IF i <= Len(s) THEN s[i] ELSE r[i - Len(s)]
  BY <1>2, <1>3, ConcatProperties, Zenon
<1> HIDE DEF t
<1>6. Len(t) = 4 /\ t[1] = a /\ t[2] = b /\ t[3] = c /\ t[4] = d
  BY <1>2, <1>3, <1>4, <1>5
<1>7. t \in Seq(S)
  BY <1>5
<1>8. t = <<a, b, c, d>>
  BY <1>6, <1>7
<1> QED  BY <1>8 DEF t, s, r

\* FileHeader::Allocate and Directory::Add, as Create uses them: sectors that were clear,
\* an entry that was free.
LEMMA CreateFinds ==
  ASSUME FsState, NEW u \in Users, Create(u), op'[u] # NoOp
  PROVE  \E slot \in Slots, e \in Entries, data \in DataSeqs :
           /\ ~table[slot].inUse /\ e.inUse /\ e.name = op[u].name
           /\ ({e.sector} \cup ToSet(data)) \cap marked = {} /\ e.sector \notin ToSet(data)
           /\ \A s \in Slots : s < slot => table[s].inUse
           /\ LET dir == [table EXCEPT ![slot] = e]
                  map == marked \cup ({e.sector} \cup ToSet(data))
              IN Writes(u, slot, <<WriteHeader(e.sector, data), First(dir), Second(dir), WriteMap(map)>>)
           /\ hurt' = hurt \ {slot}
<1> DEFINE o == op[u]
           one == FindAndSet(marked, 1)
           slot == Min(FreeEntries(table))
           e == [inUse |-> TRUE, sector |-> one.found[1], name |-> o.name]
           more == FindAndSet(one.map, o.size)
           data == more.found
           dir == [table EXCEPT ![slot] = e]
           map == marked \cup ({e.sector} \cup ToSet(data))
<1>1. /\ op[u] \in Begun /\ op[u].dir = table
      /\ table \in [Slots -> Entries] /\ marked \subseteq DiskSectors /\ DOMAIN op = Users
  BY ReadingAt DEF Create, FsState, FsTypes
<1>2. /\ NumClear(marked) # 0 /\ FreeEntries(table) # {} /\ ~(NumClear(one.map) < o.size)
      /\ Writes(u, slot, <<WriteHeader(e.sector, data)>> \o WriteBack(dir) \o <<WriteMap(more.map)>>)
      /\ hurt' = hurt \ {slot}
  <2>1. ASSUME op' = [op EXCEPT ![u] = NoOp]
        PROVE  FALSE
    BY <1>1, <2>1
  <2> QED  BY <1>1, <2>1 DEF Create
<1>3. slot \in Slots /\ ~table[slot].inUse /\ \A s \in Slots : s < slot => table[s].inUse
  <2>1. slot \in FreeEntries(table) /\ \A s \in FreeEntries(table) : slot <= s
    <3>1. FreeEntries(table) \subseteq Nat
      BY SlotNumbers DEF FreeEntries
    <3> QED  BY <3>1, <1>2, MinIsIn
  <2> HIDE DEF slot
  <2>2. slot \in Nat /\ Slots \subseteq Nat
    BY <2>1, SlotNumbers DEF FreeEntries
  <2> QED  BY <2>1, <2>2 DEF FreeEntries
<1>4. one.found[1] \in DiskSectors \ marked /\ one.map = marked \cup {one.found[1]}
  <2>1. NumClear(marked) \in Nat
    <3>1. IsFiniteSet(DiskSectors \ marked)
      BY SlotNumbers, FS_Difference
    <3> QED  BY <3>1, FS_CardinalityType DEF NumClear
  <2>2. ~(NumClear(marked) < 1)
    BY <2>1, <1>2
  <2>3. /\ one.found \in DataSeqs /\ Len(one.found) = 1
        /\ ToSet(one.found) \subseteq DiskSectors \ marked
        /\ one.map = marked \cup ToSet(one.found)
    BY <2>2, <1>1, FindAndSetFinds
  <2> HIDE DEF one
  <2>4. ToSet(one.found) = {one.found[1]}
    <3>1. DOMAIN one.found = {1}
      BY <2>3 DEF DataSeqs
    <3> QED  BY <3>1 DEF ToSet
  <2> QED  BY <2>3, <2>4
<1>5. /\ data \in DataSeqs /\ ToSet(data) \subseteq DiskSectors \ one.map
      /\ more.map = one.map \cup ToSet(data)
  <2>1. one.map \subseteq DiskSectors
    BY <1>4, <1>1
  <2>2. o.size \in Nat
    BY <1>1 DEF Begun
  <2> HIDE DEF one, o
  <2> QED  BY <2>1, <2>2, <1>2, FindAndSetFinds
<1>6. e \in Entries /\ e.inUse /\ e.name = o.name /\ e.sector = one.found[1]
  <2>1. o.name \in Names
    BY <1>1 DEF Begun
  <2> HIDE DEF one, o
  <2> QED  BY <2>1, <1>4 DEF Entries
<1> HIDE DEF one, more, slot, e
<1>7. /\ ({e.sector} \cup ToSet(data)) \cap marked = {} /\ more.map = map
      /\ e.sector \notin ToSet(data)
  BY <1>4, <1>5, <1>6
<1>8. <<WriteHeader(e.sector, data)>> \o WriteBack(dir) \o <<WriteMap(more.map)>>
        = <<WriteHeader(e.sector, data), First(dir), Second(dir), WriteMap(map)>>
  <2> HIDE DEF dir, map, data
  <2>1. WriteBack(dir) = <<First(dir), Second(dir)>> /\ WriteMap(more.map) = WriteMap(map)
    BY <1>7 DEF WriteBack, First, Second
  <2> QED  BY <2>1, FourInTurn
<1> HIDE DEF dir, map, data
<1>9. Writes(u, slot, <<WriteHeader(e.sector, data), First(dir), Second(dir), WriteMap(map)>>)
  BY <1>2, <1>8
<1> QED  BY <1>2, <1>3, <1>5, <1>6, <1>7, <1>9 DEF dir, map, o

\* Create writes nothing yet: it has the entry, which was free, and what is to be written.
LEMMA CreateKeeps ==
  ASSUME OneUser, FsState, NEW u \in Users, Create(u)
  PROVE  FsState'
<1>1. /\ ~At(u, "writes") /\ op[u] \in Begun /\ op[u].dir = table
      /\ op[u].kind = "create"
      /\ op[u].alone => opened = {}
      /\ FindIndex(table, op[u].name) = -1 /\ DOMAIN op = Users
  BY ReadingAt DEF Create, At, FsState, FsTypes
<1>2. UNCHANGED <<marked, table, header, opened, crashed, corrupt, created>>
  BY DEF Create
<1>3. CASE op'[u] = NoOp
  <2>1. op' = [op EXCEPT ![u] = NoOp] /\ UNCHANGED hurt
    <3>1. ASSUME NEW slot, NEW todo, Writes(u, slot, todo)
          PROVE  FALSE
      <4>1. op'[u] = [kind |-> op[u].kind, name |-> op[u].name, alone |-> op[u].alone, at |-> "writes",
                      slot |-> slot, todo |-> todo]
        BY <3>1, <1>1 DEF Writes
      <4>2. op'[u].kind = "create"
        BY <4>1, <1>1
      <4> QED  BY <4>2, <1>3 DEF NoOp
    <3> QED  BY <3>1 DEF Create
  <2> QED  BY <1>1, <1>2, <2>1, ReadingKeeps DEF history
<1>4. CASE op'[u] # NoOp
  <2>1. PICK slot \in Slots, e \in Entries, data \in DataSeqs :
           /\ ~table[slot].inUse /\ e.inUse /\ e.name = op[u].name
           /\ ({e.sector} \cup ToSet(data)) \cap marked = {} /\ e.sector \notin ToSet(data)
           /\ \A s \in Slots : s < slot => table[s].inUse
           /\ LET dir == [table EXCEPT ![slot] = e]
                  map == marked \cup ({e.sector} \cup ToSet(data))
              IN Writes(u, slot, <<WriteHeader(e.sector, data), First(dir), Second(dir), WriteMap(map)>>)
           /\ hurt' = hurt \ {slot}
    BY <1>4, CreateFinds
  <2> DEFINE dir == [table EXCEPT ![slot] = e]
             map == marked \cup ({e.sector} \cup ToSet(data))
             todo == <<WriteHeader(e.sector, data), First(dir), Second(dir), WriteMap(map)>>
             w == [kind |-> op[u].kind, name |-> op[u].name, alone |-> op[u].alone, at |-> "writes",
                   slot |-> slot, todo |-> todo]
  <2>2. op' = [op EXCEPT ![u] = w]
    BY <2>1 DEF Writes
  <2> HIDE DEF todo
  <2>3. op'[u] = w /\ DOMAIN op' = Users
    BY <2>2, <1>1
  <2>4. /\ w.kind = "create" /\ w.name = op[u].name /\ w.alone = op[u].alone /\ w.at = "writes"
        /\ w.slot = slot /\ w.todo = todo
        /\ w \in [kind : {"create"}, name : Names, alone : BOOLEAN, at : {"writes"},
                  slot : {slot}, todo : {todo}]
    BY <1>1 DEF Begun
  <2> HIDE DEF w
  <2>5. Changing = {} /\ Changing' = {slot}
    BY <1>1, <1>4, <2>3, <2>4, OneChanging
  <2>6. /\ marked' = marked /\ table' = table /\ header' = header /\ opened' = opened
        /\ crashed' = crashed /\ created' = created
    BY <1>2
  <2>7. Healthy' = Healthy /\ \A s : Own(s)' = Own(s)
    BY <2>1, <2>5, <2>6 DEF Healthy, Own
  <2>8. Used' = Used
    BY <2>7 DEF Used
  <2>9. FsTypes' /\ HealthyFiles'
    BY <2>1, <2>3, <2>6, <2>7 DEF FsState, FsTypes, HealthyFiles
  <2>10. OpenedKept' /\ CreatedKept'
    <3>1. Slots \ Changing' = Slots \ {slot}
      BY <2>5
    <3>2. \A f \in opened : f.slot # slot
      BY <2>1 DEF FsState, OpenedKept
    <3>3. \A c \in created : c.slot # slot
      BY <2>1 DEF FsState, CreatedKept
    <3>4. OpenedKept'
      BY <2>1, <2>6, <3>1, <3>2 DEF FsState, OpenedKept
    <3>5. CreatedKept'
      BY <2>6, <3>1, <3>3 DEF FsState, CreatedKept, Stale
    <3> QED  BY <3>4, <3>5
  <2>11. NoneLost'
    <3>1. ~crashed => marked = Used
      BY <1>1, OneChanging DEF FsState
    <3> QED  BY <3>1, <2>6, <2>8 DEF NoneLost
  <2>12. Writing(op[u])'
    <3>1. op'[u] \in [kind : {"remove", "create"}, name : Names, alone : BOOLEAN, at : {"writes"},
                      slot : Slots \ hurt', todo : {op'[u].todo}]
      BY <2>1, <2>3, <2>4
    <3>2. \A s \in Slots \ {slot} : table[s].inUse => table[s].name # op[u].name
      BY <1>1, FindIndexFinds
    <3>3. Made(op[u], e, data)'
      BY <2>1, <2>3, <2>4, <2>6 DEF Made, todo
    <3>4. Creating(op[u])'
      BY <3>2, <3>3, <2>1, <2>3, <2>4, <2>6 DEF Creating
    <3> QED  BY <3>1, <3>4, <2>3, <2>4 DEF Writing
  <2>13. Ops'
    BY <1>1, <2>3, <2>4, <2>6, <2>12, OneChanging
  <2> QED  BY <2>9, <2>10, <2>11, <2>13 DEF FsState
<1> QED  BY <1>3, <1>4

\* The same for three.
LEMMA ThreeInTurn ==
  ASSUME NEW a, NEW b, NEW c
  PROVE  <<a>> \o <<b, c>> = <<a, b, c>>
<1> DEFINE S == {a, b, c}
           s == <<a>> \o <<b, c>>
<1>1. <<a>> \in Seq(S) /\ <<b, c>> \in Seq(S)
  OBVIOUS
<1> HIDE DEF S
<1>2. s \in Seq(S) /\ Len(s) = 3
  BY <1>1, ConcatProperties
<1>3. s[1] = a /\ s[2] = b /\ s[3] = c
  BY <1>1, ConcatProperties
<1> HIDE DEF s
<1>4. s = <<a, b, c>>
  BY <1>2, <1>3
<1> QED  BY <1>4 DEF s

\* The sectors that Remove is to free are of no file that is still unharmed: a healthy
\* file's are its own, and the files that a hurt one shares some with are hurt from now on.
LEMMA RemoveFileKeeps ==
  ASSUME OneUser, FsState, NEW u \in Users, RemoveFile(u), ~corrupt'
  PROVE  FsState'
<1>1. /\ ~At(u, "writes") /\ op[u].kind = "remove" /\ op[u].alone /\ opened = {}
      /\ op[u].alone \in BOOLEAN /\ op[u].name \in Names /\ op[u].dir = table
      /\ FindIndex(table, op[u].name) # -1
      /\ op[u].data = header[table[FindIndex(table, op[u].name)].sector] /\ DOMAIN op = Users
  BY ReadingAt DEF RemoveFile, At, FsState, FsTypes
<1>2. PICK slot \in Slots : /\ slot = FindIndex(table, op[u].name)
                           /\ table[slot].inUse /\ table[slot].name = op[u].name
  BY <1>1, FindIndexFinds
<1> DEFINE dir == [table EXCEPT ![slot].inUse = FALSE]
           todo == <<WriteMap(marked \ Own(slot)), First(dir), Second(dir)>>
           w == [kind |-> op[u].kind, name |-> op[u].name, alone |-> op[u].alone, at |-> "writes",
                 slot |-> slot, todo |-> todo]
<1>3. /\ marked' = marked /\ table' = table /\ header' = header /\ opened' = opened
      /\ hurt' = (hurt \cup Reached(slot, Own(slot))) \ {slot} /\ crashed' = crashed
      /\ slot \in hurt => Own(slot) \cap System = {}
      /\ created' = {c \in created : c.name # op[u].name}
  BY <1>1, <1>2 DEF RemoveFile
<1>4. op' = [op EXCEPT ![u] = w]
  <2>1. ToSet(op[u].data) \cup {HeaderOf(u)} = Own(slot)
    BY <1>1, <1>2 DEF HeaderOf, Own
  <2>2. Writes(u, slot, <<WriteMap(marked \ Own(slot))>> \o WriteBack(dir))
    BY <1>1, <1>2, <2>1 DEF RemoveFile
  <2> HIDE DEF dir
  <2>3. <<WriteMap(marked \ Own(slot))>> \o WriteBack(dir) = todo
    BY ThreeInTurn DEF WriteBack, First, Second
  <2> HIDE DEF todo
  <2>4. Writes(u, slot, todo)
    BY <2>2, <2>3
  <2> QED  BY <2>4 DEF Writes
<1> HIDE DEF todo, dir
<1>5. op'[u] = w /\ DOMAIN op' = Users
  BY <1>4, <1>1
<1>6. /\ w.kind = "remove" /\ w.name = op[u].name /\ w.alone = op[u].alone /\ w.at = "writes"
      /\ w.slot = slot /\ w.todo = todo
      /\ w \in [kind : {"remove"}, name : Names, alone : BOOLEAN, at : {"writes"},
                slot : {slot}, todo : {todo}]
  BY <1>1
<1> HIDE DEF w
<1>7. op'[u] # NoOp /\ Changing = {} /\ Changing' = {slot}
  <2>1. op'[u] # NoOp
    BY <1>5, <1>6 DEF NoOp
  <2> QED  BY <1>1, <2>1, <1>5, <1>6, OneChanging
<1>8. /\ Healthy' = Healthy \ ({slot} \cup Reached(slot, Own(slot))) /\ \A s : Own(s)' = Own(s)
      /\ slot \notin hurt => slot \in Healthy /\ Healthy' = Healthy \ {slot}
      /\ \A s \in Healthy' : Own(s) \cap Own(slot) = {}
  <2>1. \A s : Own(s)' = Own(s)
    BY <1>3 DEF Own
  <2>2. Healthy' = Healthy \ ({slot} \cup Reached(slot, Own(slot)))
    BY <1>2, <1>3, <1>7 DEF Healthy
  <2>3. CASE slot \in hurt
    <3>1. \A s \in Healthy' : s \in Slots \ {slot} /\ table[s].inUse
      BY <2>2 DEF Healthy
    <3> QED  BY <2>1, <2>2, <2>3, <3>1 DEF Reached
  <2>4. CASE slot \notin hurt
    <3>1. slot \in Healthy /\ Reached(slot, Own(slot)) = {}
      BY <2>4, <1>2, <1>7 DEF Healthy, Reached
    <3>2. Healthy' = Healthy \ {slot}
      BY <2>2, <3>1
    <3> QED  BY <2>1, <2>4, <3>1, <3>2 DEF FsState, HealthyFiles
  <2> QED  BY <2>1, <2>2, <2>3, <2>4
<1>9. FsTypes' /\ HealthyFiles' /\ OpenedKept'
  <2>1. FsTypes'
    <3>1. Reached(slot, Own(slot)) \subseteq Slots /\ (hurt = {} => Reached(slot, Own(slot)) = {})
      BY DEF Reached
    <3> QED  BY <3>1, <1>3, <1>5 DEF FsState, FsTypes
  <2>2. HealthyFiles'
    BY <1>3, <1>8 DEF FsState, HealthyFiles
  <2>3. OpenedKept'
    BY <1>1, <1>3 DEF OpenedKept
  <2> QED  BY <2>1, <2>2, <2>3
<1>10. CreatedKept'
  <2>1. \A c \in created' : c \in created /\ c.slot # slot
    BY <1>2, <1>3 DEF FsState, CreatedKept
  <2> QED  BY <2>1, <1>3, <1>7 DEF FsState, CreatedKept, Stale
<1>11. ~crashed => marked = Used
  BY <1>1, OneChanging DEF FsState
<1>12. Removing(op[u])'
  <2>1. Own(slot) \cap System = {}
    BY <1>3, <1>8 DEF FsState, HealthyFiles
  <2>2. ~crashed => Used = Used' \cup Own(slot)
    <3>1. ~crashed => slot \in Healthy /\ Healthy' = Healthy \ {slot}
      BY <1>8 DEF FsState, FsTypes
    <3> QED  BY <3>1, <1>8 DEF Used
  <2>3. op'[u].todo = <<WriteMap(marked' \ Own(slot)'), First(dir), Second(dir)>> /\ op'[u].slot = slot
    BY <1>3, <1>5, <1>6, <1>8 DEF todo
  <2>4. dir = [table' EXCEPT ![slot].inUse = FALSE]
    BY <1>3 DEF dir
  <2>5. Own(slot)' \cap System = {} /\ \A s \in Healthy' : Own(s)' \cap Own(slot)' = {}
    BY <2>1, <1>8
  <2>6. ~crashed' => marked' = Used' \cup Own(slot)'
    BY <2>2, <1>3, <1>8, <1>11
  <2>7. Own(op[u].slot)' = Own(slot)'
    BY <2>3
  <2> QED  BY <2>3, <2>4, <2>5, <2>6, <2>7 DEF Removing
<1>13. Ops'
  <2>1. Writing(op[u])'
    <3>1. op'[u] \in [kind : {"remove", "create"}, name : Names, alone : BOOLEAN, at : {"writes"},
                      slot : Slots \ hurt', todo : {op'[u].todo}]
      BY <1>2, <1>3, <1>5, <1>6
    <3> QED  BY <3>1, <1>12, <1>5, <1>6 DEF Writing
  <2> QED  BY <2>1, <1>1, <1>3, <1>5, <1>6, OneChanging
<1>14. NoneLost'
  <2>1. Len(op'[u].todo) = 3
    BY <1>5, <1>6 DEF todo
  <2>2. At(u, "writes")'
    BY <1>5, <1>6, <1>7 DEF At
  <2> QED  BY <2>1, <2>2, <1>5, <1>6 DEF NoneLost
<1> QED  BY <1>9, <1>10, <1>13, <1>14 DEF FsState

\* What is left of four writes after each of them.
LEMMA Tails ==
  ASSUME NEW a, NEW b, NEW c, NEW d
  PROVE  /\ Head(<<a, b, c, d>>) = a /\ Tail(<<a, b, c, d>>) = <<b, c, d>>
         /\ Head(<<a, b, c>>) = a /\ Tail(<<a, b, c>>) = <<b, c>>
         /\ Head(<<a, b>>) = a /\ Tail(<<a, b>>) = <<b>>
         /\ Head(<<a>>) = a /\ Tail(<<a>>) = <<>>
  OBVIOUS

\* The operation after a write: what is left of it, or nothing.
LEMMA WriteLeaves ==
  ASSUME FsState, NEW u \in Users, WriteNext(u), NEW rest, Tail(op[u].todo) = rest
  PROVE  /\ Writing(op[u]) /\ At(u, "writes") /\ DOMAIN op' = Users
         /\ op[u].slot \in Slots \ hurt /\ op[u].name \in Names
         /\ op[u].kind = "remove" => op[u].alone
         /\ op[u].alone => opened = {}
         /\ rest = <<>> => op'[u] = NoOp
         /\ rest # <<>> =>
              /\ op'[u] # NoOp /\ op'[u].at = "writes" /\ op'[u].kind = op[u].kind
              /\ op'[u].name = op[u].name /\ op'[u].alone = op[u].alone
              /\ op'[u].slot = op[u].slot /\ op'[u].todo = rest
              /\ op'[u] \in [kind : {"remove", "create"}, name : Names, alone : BOOLEAN, at : {"writes"},
                             slot : Slots \ hurt, todo : {op'[u].todo}]
<1> DEFINE w == [op[u] EXCEPT !.todo = rest]
<1>1. /\ At(u, "writes") /\ Writing(op[u]) /\ DOMAIN op = Users
      /\ op[u].kind = "remove" => op[u].alone
      /\ op[u].alone => opened = {}
  BY ReadingAt DEF WriteNext, FsState, FsTypes, At
<1>2. op[u] \in [kind : {"remove", "create"}, name : Names, alone : BOOLEAN, at : {"writes"},
                 slot : Slots \ hurt, todo : {op[u].todo}]
  BY <1>1 DEF Writing
<1>3. op' = [op EXCEPT ![u] = IF rest = <<>> THEN NoOp ELSE w]
  BY DEF WriteNext
<1>4. op'[u] = (IF rest = <<>> THEN NoOp ELSE w) /\ DOMAIN op' = Users
  BY <1>1, <1>3
<1>5. /\ w.at = "writes" /\ w.kind = op[u].kind
      /\ w.name = op[u].name /\ w.alone = op[u].alone
      /\ w.slot = op[u].slot /\ w.todo = rest
      /\ w \in [kind : {"remove", "create"}, name : Names, alone : BOOLEAN, at : {"writes"},
                slot : Slots \ hurt, todo : {rest}]
  BY <1>2
<1>6. op[u].kind \in {"remove", "create"} /\ op[u].name \in Names /\ op[u].slot \in Slots \ hurt
  BY <1>2
<1> HIDE DEF w
<1>7. w # NoOp
  BY <1>5, <1>6 DEF NoOp
<1>8. rest = <<>> => op'[u] = NoOp
  BY <1>4
<1>9. rest # <<>> => op'[u] = w
  BY <1>4
<1> QED  BY <1>1, <1>4, <1>5, <1>6, <1>7, <1>8, <1>9

\* The entry that a write changes has its old name, and is in use only if it was, or if it is
\* the one that straddles; or it has the name that a Create gives it.
NameStays(o) ==
  \/ /\ table'[o.slot].name = table[o.slot].name
     /\ o.slot = Straddle \/ (table'[o.slot].inUse => table[o.slot].inUse)
  \/ /\ table'[o.slot].name = o.name
     /\ o.kind = "create"

\* What CreatedKept says, after a step, of a file that is not the one being changed.
StillFound(c, slot) ==
  /\ c.slot \in Slots \ {slot} /\ table'[c.slot].inUse /\ table'[c.slot].name = c.name
  /\ \A s \in Slots \ {c.slot} : Stale(c, s)'

\* A write of one user's operation, which touches only the entry that it is about and
\* sectors that are free: what it keeps.
LEMMA WriteKeeps ==
  ASSUME OneUser, FsState, NEW u \in Users, At(u, "writes"),
         op'[u] = NoOp \/ (op'[u].at = "writes" /\ op'[u].slot = op[u].slot), DOMAIN op' = Users,
         marked' \subseteq DiskSectors, System \subseteq marked',
         table' \in [Slots -> Entries], \A s \in Slots \ {op[u].slot} : table'[s] = table[s],
         header' \in [DiskSectors -> DataSeqs], \A x \in marked : header'[x] = header[x],
         UNCHANGED <<opened, hurt, crashed>>, NameStays(op[u])
  PROVE  /\ FsTypes' /\ OpenedKept'
         /\ \A s \in Healthy : s # op[u].slot /\ s \in Slots /\ table'[s] = table[s] /\ Own(s)' = Own(s)
         /\ Changing = {op[u].slot}
         /\ Changing' = IF op'[u] = NoOp THEN {} ELSE {op[u].slot}
         /\ Healthy' \ {op[u].slot} = Healthy
         /\ op'[u] # NoOp => Healthy' = Healthy /\ Used' = Used
         /\ \A c \in created : StillFound(c, op[u].slot)
<1> DEFINE slot == op[u].slot
<1>1. Changing = {slot} /\ Changing' = IF op'[u] = NoOp THEN {} ELSE {slot}
  BY OneChanging
<1> HIDE DEF slot
<1>2. FsTypes'
  BY DEF FsState, FsTypes
<1>3. \A s \in Healthy : s # slot /\ s \in Slots \ hurt /\ table[s].inUse /\ Own(s) \subseteq marked
  BY <1>1 DEF Healthy, FsState, HealthyFiles
<1>4. \A s \in Slots \ {slot} : table'[s] = table[s]
  BY DEF slot
<1>5. \A s \in Healthy : s # slot /\ s \in Slots /\ table'[s] = table[s] /\ Own(s)' = Own(s)
  <2> SUFFICES ASSUME NEW s \in Healthy PROVE table'[s] = table[s] /\ Own(s)' = Own(s)
    BY <1>3
  <2>1. table'[s] = table[s] /\ table[s].sector \in marked
    BY <1>3, <1>4 DEF Own
  <2>2. header'[table'[s].sector] = header[table[s].sector]
    BY <2>1
  <2> QED  BY <2>1, <2>2 DEF Own
<1>6. Healthy' \ {slot} = Healthy
  BY <1>1, <1>4 DEF Healthy
<1>7. op'[u] # NoOp => Healthy' = Healthy /\ Used' = Used
  <2> SUFFICES ASSUME op'[u] # NoOp PROVE Healthy' = Healthy /\ Used' = Used
    OBVIOUS
  <2>1. slot \notin Healthy'
    BY <1>1 DEF Healthy
  <2>2. Healthy' = Healthy
    BY <2>1, <1>6
  <2>3. \A s \in Healthy : Own(s)' = Own(s)
    BY <1>5
  <2> QED  BY <2>2, <2>3 DEF Used
<1>8. OpenedKept'
  <2> SUFFICES ASSUME NEW f \in opened
               PROVE  /\ f.slot \in Slots \ Changing' /\ table'[f.slot].inUse /\ table'[f.slot].sector = f.sector
                      /\ f.slot \notin hurt' => f.data = header'[f.sector]
    BY DEF OpenedKept
  <2>1. /\ f.slot \in Slots \ Changing /\ table[f.slot].inUse /\ table[f.slot].sector = f.sector
        /\ f.slot \notin hurt => f.data = header[f.sector]
    BY DEF FsState, OpenedKept
  <2>2. f.slot \in Slots \ Changing' /\ table'[f.slot] = table[f.slot]
    BY <2>1, <1>1, <1>4
  <2>3. ASSUME f.slot \notin hurt'
        PROVE  f.data = header'[f.sector]
    <3>1. f.slot \in Healthy
      BY <2>1, <2>3 DEF Healthy
    <3>2. f.sector \in marked
      BY <3>1, <1>3, <2>1 DEF Own
    <3> QED  BY <3>2, <2>1, <2>3
  <2> QED  BY <2>1, <2>2, <2>3
<1>9. \A c \in created : StillFound(c, slot)
  <2> SUFFICES ASSUME NEW c \in created PROVE StillFound(c, slot)
    OBVIOUS
  <2>1. /\ c.slot \in Slots \ {slot} /\ table[c.slot].inUse /\ table[c.slot].name = c.name
        /\ \A s \in Slots \ {c.slot} : Stale(c, s)
    BY <1>1 DEF FsState, CreatedKept
  <2>2. table'[c.slot] = table[c.slot]
    BY <2>1, <1>4
  <2>3. ASSUME NEW s \in Slots \ {c.slot}
        PROVE  Stale(c, s)'
    <3>1. CASE s # slot
      BY <3>1, <2>1, <1>4 DEF Stale
    <3>2. CASE s = slot
      <4>1. op[u].kind = "create" => op[u].name # c.name
        <5>1. Writing(op[u])
          BY ReadingAt
        <5> QED  BY <5>1, <2>1 DEF Writing, Creating, slot
      <4> QED  BY <4>1, <3>2, <2>1 DEF NameStays, Stale, slot
    <3> QED  BY <3>1, <3>2
  <2> QED  BY <2>1, <2>2, <2>3 DEF StillFound
<1> QED  BY <1>1, <1>2, <1>5, <1>6, <1>7, <1>8, <1>9 DEF slot

\* What is left of the proof when the operation goes on: its next stage.
LEMMA WriteGoesOn ==
  ASSUME OneUser, FsState, NEW u \in Users, NEW rest, rest # <<>>, Tail(op[u].todo) = rest,
         WriteNext(u), UNCHANGED marked,
         table' \in [Slots -> Entries], \A s \in Slots \ {op[u].slot} : table'[s] = table[s],
         header' \in [DiskSectors -> DataSeqs], \A x \in marked : header'[x] = header[x],
         op[u].kind = "create" => Creating(op[u])',
         op[u].kind = "remove" => Removing(op[u])', NameStays(op[u]),
         op[u].kind = "create" \/ (~crashed => marked = Used)
  PROVE  FsState'
<1>1. UNCHANGED <<opened, hurt, crashed, created>>
  BY DEF WriteNext
<1>2. /\ At(u, "writes") /\ DOMAIN op' = Users /\ Writing(op[u])
      /\ op[u].kind = "remove" => op[u].alone
      /\ op[u].alone => opened = {}
      /\ op'[u] # NoOp /\ op'[u].at = "writes" /\ op'[u].kind = op[u].kind
      /\ op'[u].alone = op[u].alone /\ op'[u].slot = op[u].slot
      /\ op'[u] \in [kind : {"remove", "create"}, name : Names, alone : BOOLEAN, at : {"writes"},
                     slot : Slots \ hurt, todo : {op'[u].todo}]
  BY WriteLeaves
<1>3. marked \subseteq DiskSectors /\ System \subseteq marked
  BY DEF FsState, FsTypes
<1>4. /\ FsTypes' /\ OpenedKept'
      /\ \A s \in Healthy : s # op[u].slot /\ s \in Slots /\ table'[s] = table[s] /\ Own(s)' = Own(s)
      /\ Changing' = {op[u].slot}
      /\ Healthy' = Healthy /\ Used' = Used
      /\ \A c \in created : StillFound(c, op[u].slot)
  BY <1>1, <1>2, <1>3, WriteKeeps
<1>5. HealthyFiles'
  <2>1. \A s \in Healthy : header'[table'[s].sector] = header[table[s].sector]
    BY <1>4 DEF FsState, HealthyFiles, Own
  <2>2. \A s \in Healthy : table'[s].sector \notin ToSet(header'[table'[s].sector])
    BY <2>1, <1>4 DEF FsState, HealthyFiles
  <2> QED  BY <2>2, <1>4 DEF FsState, HealthyFiles
<1>6. CreatedKept'
  BY <1>1, <1>4 DEF CreatedKept, StillFound
<1>7. Ops'
  <2>1. Writing(op[u])'
    BY <1>1, <1>2 DEF Writing
  <2> QED  BY <2>1, <1>1, <1>2, OneChanging
<1>8. NoneLost'
  <2>1. op[u].kind = "create" => (~crashed => marked = Used)
    BY OneChanging DEF FsState
  <2> QED  BY <2>1, <1>1, <1>4 DEF NoneLost
<1> QED  BY <1>4, <1>5, <1>6, <1>7, <1>8 DEF FsState

\* What each kind of write changes.
LEMMA WriteChanges ==
  ASSUME NEW u \in Users, WriteNext(u), NEW w, Head(op[u].todo) = w
  PROVE  /\ \A dir : w = First(dir) => table' = Sectors(dir, table) /\ header' = header /\ marked' = marked
         /\ \A dir : w = Second(dir) => table' = Sectors(table, dir) /\ header' = header /\ marked' = marked
         /\ \A map : w = WriteMap(map) => table' = table /\ header' = header /\ marked' = map
         /\ \A sector, data : w = WriteHeader(sector, data) =>
              table' = table /\ header' = [header EXCEPT ![sector] = data] /\ marked' = marked
         /\ UNCHANGED <<opened, hurt, crashed>>
         /\ op[u].kind # "create" => created' = created
         /\ Tail(op[u].todo) # <<>> => created' = created
         /\ Tail(op[u].todo) = <<>> /\ op[u].kind = "create" => created' = created \cup {[name |-> op[u].name, slot |-> op[u].slot]}
<1>1. /\ header' = IF w.to = "header" THEN [header EXCEPT ![w.sector] = w.data] ELSE header
      /\ marked' = IF w.to = "map" THEN w.map ELSE marked
      /\ w.to = "directory1" => table' = Sectors(w.dir, table)
      /\ w.to = "directory2" => table' = Sectors(table, w.dir)
      /\ w.to \notin {"directory1", "directory2"} => table' = table
  BY DEF WriteNext
<1>2. ASSUME NEW dir, w = First(dir)
      PROVE  table' = Sectors(dir, table) /\ header' = header /\ marked' = marked
  <2>1. w.to = "directory1" /\ w.dir = dir
    BY <1>2 DEF First
  <2> QED  BY <2>1, <1>1
<1>3. ASSUME NEW dir, w = Second(dir)
      PROVE  table' = Sectors(table, dir) /\ header' = header /\ marked' = marked
  <2>1. w.to = "directory2" /\ w.dir = dir
    BY <1>3 DEF Second
  <2> QED  BY <2>1, <1>1
<1>4. ASSUME NEW map, w = WriteMap(map)
      PROVE  table' = table /\ header' = header /\ marked' = map
  <2>1. w.to = "map" /\ w.map = map
    BY <1>4 DEF WriteMap
  <2> QED  BY <2>1, <1>1
<1>5. ASSUME NEW sector, NEW data, w = WriteHeader(sector, data)
      PROVE  table' = table /\ header' = [header EXCEPT ![sector] = data] /\ marked' = marked
  <2>1. w.to = "header" /\ w.sector = sector /\ w.data = data
    BY <1>5 DEF WriteHeader
  <2> QED  BY <2>1, <1>1
<1>6. /\ UNCHANGED <<opened, hurt, crashed>>
      /\ op[u].kind # "create" => created' = created
      /\ Tail(op[u].todo) # <<>> => created' = created
      /\ Tail(op[u].todo) = <<>> /\ op[u].kind = "create" => created' = created \cup {[name |-> op[u].name, slot |-> op[u].slot]}
  BY DEF WriteNext
<1> QED  BY <1>2, <1>3, <1>4, <1>5, <1>6

\* The writes of Create.
LEMMA CreateWriteKeeps ==
  ASSUME OneUser, FsState, NEW u \in Users, WriteNext(u), op[u].kind = "create"
  PROVE  FsState'
<1>1. /\ Creating(op[u]) /\ At(u, "writes") /\ DOMAIN op' = Users
      /\ op[u].slot \in Slots \ hurt /\ op[u].name \in Names
  BY WriteLeaves DEF Writing
<1>2. /\ table \in [Slots -> Entries] /\ header \in [DiskSectors -> DataSeqs]
      /\ marked \subseteq DiskSectors /\ System \subseteq marked
  BY DEF FsState, FsTypes
<1>3. PICK e \in Entries, data \in DataSeqs : Made(op[u], e, data)
  BY <1>1 DEF Creating
<1>4. PICK slot \in Slots \ hurt : slot = op[u].slot
  BY <1>1
<1>5. /\ \A s \in Slots \ {slot} : table[s].inUse => table[s].name # op[u].name
      /\ \A s \in Slots : s < slot => table[s].inUse
  BY <1>1, <1>4 DEF Creating
<1> DEFINE dir == [table EXCEPT ![slot] = e]
           map == marked \cup ({e.sector} \cup ToSet(data))
<1>6. /\ e.inUse /\ e.name = op[u].name /\ e.sector \in DiskSectors /\ e.inUse \in BOOLEAN
      /\ ({e.sector} \cup ToSet(data)) \cap marked = {} /\ e.sector \notin ToSet(data)
      /\ dir \in [Slots -> Entries] /\ dir[slot] = e /\ \A s \in Slots \ {slot} : dir[s] = table[s]
  BY <1>2, <1>3, <1>4 DEF Made, Entries
<1>7. \/ /\ op[u].todo = <<WriteHeader(e.sector, data), First(dir), Second(dir), WriteMap(map)>>
         /\ ~table[slot].inUse
      \/ /\ op[u].todo = <<First(dir), Second(dir), WriteMap(map)>> /\ header[e.sector] = data
         /\ ~table[slot].inUse
      \/ /\ op[u].todo = <<Second(dir), WriteMap(map)>> /\ header[e.sector] = data
         /\ slot < Straddle => table[slot] = e
         /\ slot = Straddle => table[slot].inUse /\ table[slot].sector = e.sector
      \/ /\ op[u].todo = <<WriteMap(map)>> /\ header[e.sector] = data
         /\ table[slot] = e
  BY <1>3, <1>4 DEF Made
<1>8. ASSUME NEW rest, rest # <<>>, Tail(op[u].todo) = rest, UNCHANGED marked,
             table' \in [Slots -> Entries], \A s \in Slots \ {slot} : table'[s] = table[s],
             header' \in [DiskSectors -> DataSeqs], \A x \in marked : header'[x] = header[x],
             Made(op[u], e, data)', NameStays(op[u])
      PROVE  FsState'
  <2>1. op'[u].slot = slot /\ op'[u].name = op[u].name
    BY <1>8, <1>4, WriteLeaves
  <2>2. Creating(op[u])'
    <3>1. \A s \in Slots : s < slot => s # slot
      BY SlotNumbers
    <3> QED  BY <1>8, <1>5, <2>1, <3>1 DEF Creating
  <2> QED  BY <1>8, <1>4, <2>2, WriteGoesOn
<1>9. ASSUME NEW rest, rest # <<>>, Tail(op[u].todo) = rest
      PROVE  op'[u].slot = slot /\ op'[u].name = op[u].name /\ op'[u].todo = rest
  BY <1>9, <1>4, WriteLeaves
<1> HIDE DEF dir, map
<1>10. ASSUME UNCHANGED marked, \A s \in Slots \ {slot} : table'[s] = table[s], table' \in [Slots -> Entries]
       PROVE  dir = [table' EXCEPT ![slot] = e] /\ map = marked' \cup ({e.sector} \cup ToSet(data))
  BY <1>2, <1>10 DEF dir, map
<1>11. CASE op[u].todo = <<WriteHeader(e.sector, data), First(dir), Second(dir), WriteMap(map)>> /\ ~table[slot].inUse
  <2> DEFINE rest == <<First(dir), Second(dir), WriteMap(map)>>
  <2>1. Head(op[u].todo) = WriteHeader(e.sector, data) /\ Tail(op[u].todo) = rest /\ rest # <<>>
    BY <1>11, Tails
  <2>2. table' = table /\ header' = [header EXCEPT ![e.sector] = data] /\ marked' = marked
    BY <2>1, WriteChanges
  <2>3. /\ header' \in [DiskSectors -> DataSeqs] /\ header'[e.sector] = data
        /\ \A x \in marked : header'[x] = header[x]
    BY <2>2, <1>2, <1>6
  <2>4. Made(op[u], e, data)'
    <3>1. op'[u].slot = slot /\ op'[u].name = op[u].name /\ op'[u].todo = rest
      BY <2>1, <1>9
    <3>2. dir = [table' EXCEPT ![slot] = e] /\ map = marked' \cup ({e.sector} \cup ToSet(data))
      BY <2>2, <1>2, <1>10
    <3>3. ~table'[slot].inUse /\ ({e.sector} \cup ToSet(data)) \cap marked' = {}
      BY <2>2, <1>6, <1>11
    <3> QED  BY <3>1, <3>2, <3>3, <2>3, <1>6 DEF Made
  <2>5. NameStays(op[u])
    BY <2>2 DEF NameStays
  <2> HIDE DEF rest
  <2> QED  BY <2>1, <2>2, <2>3, <2>4, <2>5, <1>2, <1>8
<1>12. CASE /\ op[u].todo = <<First(dir), Second(dir), WriteMap(map)>> /\ header[e.sector] = data
            /\ ~table[slot].inUse
  <2> DEFINE rest == <<Second(dir), WriteMap(map)>>
  <2>1. Head(op[u].todo) = First(dir) /\ Tail(op[u].todo) = rest /\ rest # <<>>
    BY <1>12, Tails
  <2>2. table' = Sectors(dir, table) /\ header' = header /\ marked' = marked
    BY <2>1, WriteChanges
  <2>3. /\ table' \in [Slots -> Entries] /\ \A s \in Slots \ {slot} : table'[s] = table[s]
        /\ slot < Straddle => table'[slot] = e
        /\ Straddle < slot => table'[slot] = table[slot]
        /\ slot = Straddle => table'[slot] = [e EXCEPT !.name = table[slot].name]
    <3>1. /\ Sectors(dir, table) \in [Slots -> Entries]
          /\ \A s \in Slots : dir[s] = table[s] => Sectors(dir, table)[s] = dir[s]
          /\ \A s \in Slots : s < Straddle => Sectors(dir, table)[s] = dir[s]
          /\ \A s \in Slots : Straddle < s => Sectors(dir, table)[s] = table[s]
          /\ Straddle \in Slots => Sectors(dir, table)[Straddle] = [dir[Straddle] EXCEPT !.name = table[Straddle].name]
      BY <1>2, <1>6, SectorsAgree
    <3> QED  BY <2>2, <3>1, <1>2, <1>6
  <2>4. slot = Straddle => table'[slot].inUse /\ table'[slot].sector = e.sector
    BY <2>3, <1>6 DEF Entries
  <2>5. Made(op[u], e, data)'
    <3>1. op'[u].slot = slot /\ op'[u].name = op[u].name /\ op'[u].todo = rest
      BY <2>1, <1>9
    <3>2. dir = [table' EXCEPT ![slot] = e] /\ map = marked' \cup ({e.sector} \cup ToSet(data))
      BY <2>2, <2>3, <1>10
    <3>3. header'[e.sector] = data /\ ({e.sector} \cup ToSet(data)) \cap marked' = {}
      BY <2>2, <1>6, <1>12
    <3> QED  BY <3>1, <3>2, <3>3, <2>3, <2>4, <1>6 DEF Made
  <2>6. NameStays(op[u])
    <3>1. slot \in Nat /\ Straddle \in Nat
      BY SlotNumbers, FileSystemAssumption
    <3>2. slot < Straddle \/ slot = Straddle \/ Straddle < slot
      BY <3>1
    <3>3. CASE slot < Straddle
      BY <3>3, <2>3, <1>4, <1>6 DEF NameStays
    <3>4. CASE slot = Straddle
      <4>1. [e EXCEPT !.name = table[slot].name].name = table[slot].name
        BY DEF Entries
      <4> QED  BY <4>1, <3>4, <2>3, <1>4 DEF NameStays
    <3>5. CASE Straddle < slot
      BY <3>5, <2>3, <1>4 DEF NameStays
    <3> QED  BY <3>2, <3>3, <3>4, <3>5
  <2> HIDE DEF rest
  <2> QED  BY <2>1, <2>2, <2>3, <2>5, <2>6, <1>2, <1>8
<1>13. CASE /\ op[u].todo = <<Second(dir), WriteMap(map)>> /\ header[e.sector] = data
            /\ slot < Straddle => table[slot] = e
            /\ slot = Straddle => table[slot].inUse /\ table[slot].sector = e.sector
  <2> DEFINE rest == <<WriteMap(map)>>
  <2>1. Head(op[u].todo) = Second(dir) /\ Tail(op[u].todo) = rest /\ rest # <<>>
    BY <1>13, Tails
  <2>2. table' = Sectors(table, dir) /\ header' = header /\ marked' = marked
    BY <2>1, WriteChanges
  <2>3. /\ table' \in [Slots -> Entries] /\ \A s \in Slots \ {slot} : table'[s] = table[s]
        /\ slot < Straddle => table'[slot] = table[slot]
        /\ Straddle < slot => table'[slot] = e
        /\ slot = Straddle => table'[slot] = [table[slot] EXCEPT !.name = e.name]
    <3>1. /\ Sectors(table, dir) \in [Slots -> Entries]
          /\ \A s \in Slots : table[s] = dir[s] => Sectors(table, dir)[s] = table[s]
          /\ \A s \in Slots : s < Straddle => Sectors(table, dir)[s] = table[s]
          /\ \A s \in Slots : Straddle < s => Sectors(table, dir)[s] = dir[s]
          /\ Straddle \in Slots => Sectors(table, dir)[Straddle] = [table[Straddle] EXCEPT !.name = dir[Straddle].name]
      BY <1>2, <1>6, SectorsAgree
    <3> QED  BY <2>2, <3>1, <1>2, <1>6
  <2>4. table'[slot] = e
    <3>1. slot \in Nat /\ Straddle \in Nat
      BY SlotNumbers, FileSystemAssumption
    <3>2. slot = Straddle => [table[slot] EXCEPT !.name = e.name] = e
      <4> SUFFICES ASSUME slot = Straddle PROVE [table[slot] EXCEPT !.name = e.name] = e
        OBVIOUS
      <4>1. table[slot] \in Entries /\ table[slot].inUse /\ table[slot].sector = e.sector
        BY <1>2, <1>13
      <4> QED  BY <4>1, <1>6 DEF Entries
    <3> QED  BY <3>1, <3>2, <2>3, <1>13
  <2>5. Made(op[u], e, data)'
    <3>1. op'[u].name = op[u].name /\ op'[u].slot = slot /\ op'[u].todo = rest
      BY <2>1, <1>9
    <3>2. map = marked' \cup ({e.sector} \cup ToSet(data))
      BY <2>2, <2>3, <1>10
    <3>3. header'[e.sector] = data /\ ({e.sector} \cup ToSet(data)) \cap marked' = {}
      BY <2>2, <1>6, <1>13
    <3> QED  BY <3>1, <3>2, <3>3, <2>4, <1>6 DEF Made
  <2>6. NameStays(op[u])
    BY <2>4, <1>4, <1>6 DEF NameStays
  <2> HIDE DEF rest
  <2> QED  BY <2>1, <2>2, <2>3, <2>5, <2>6, <1>2, <1>8
<1>14. CASE op[u].todo = <<WriteMap(map)>> /\ header[e.sector] = data /\ table[slot] = e
  <2>1. Head(op[u].todo) = WriteMap(map) /\ Tail(op[u].todo) = <<>>
    BY <1>14, Tails
  <2>2. /\ table' = table /\ header' = header /\ marked' = map
        /\ UNCHANGED <<opened, hurt, crashed>>
        /\ created' = created \cup {[name |-> op[u].name, slot |-> slot]}
    BY <2>1, <1>4, WriteChanges
  <2>3. op'[u] = NoOp
    BY <2>1, WriteLeaves
  <2>4. marked' = marked \cup ({e.sector} \cup ToSet(data)) /\ ToSet(data) \subseteq DiskSectors
    BY <2>2 DEF map, DataSeqs, ToSet
  <2>5. marked' \subseteq DiskSectors /\ System \subseteq marked'
    BY <2>4, <1>2, <1>6
  <2>6. /\ FsTypes' /\ OpenedKept'
        /\ \A s \in Healthy : s # slot /\ s \in Slots /\ table'[s] = table[s] /\ Own(s)' = Own(s)
        /\ Changing' = {} /\ Changing = {slot}
        /\ Healthy' \ {slot} = Healthy
        /\ \A c \in created : StillFound(c, slot)
    <3>1. NameStays(op[u])
      BY <2>2 DEF NameStays
    <3> QED  BY <3>1, <2>2, <2>3, <2>5, <1>1, <1>2, <1>4, WriteKeeps
  <2>7. Healthy' = Healthy \cup {slot} /\ slot \notin hurt'
    <3>1. slot \in Healthy'
      BY <2>2, <2>6, <1>6, <1>14 DEF Healthy
    <3> QED  BY <3>1, <2>2, <2>6
  <2>8. Own(slot)' = {e.sector} \cup ToSet(data)
    BY <2>2, <1>14 DEF Own
  <2>9. HealthyFiles'
    <3>1. \A s \in Healthy : Own(s) \subseteq marked \ System
      BY DEF FsState, HealthyFiles
    <3>2. \A s \in Healthy : table[s].name # e.name
      BY <2>6, <1>5, <1>6 DEF Healthy
    <3>3. /\ table'[slot] = e
          /\ \A s \in Healthy : Own(s)' \cap Own(slot)' = {} /\ table'[s].name # table'[slot].name
      BY <3>1, <3>2, <2>2, <2>6, <2>8, <1>6, <1>14
    <3>4. Own(slot)' \subseteq marked' \ System /\ \A s \in Healthy : Own(s)' \subseteq marked' \ System
      BY <3>1, <2>4, <2>6, <2>8, <1>2, <1>6
    <3>6. \A s \in Healthy \cup {slot} : table'[s].sector \notin ToSet(header'[table'[s].sector])
      <4>1. \A s \in Healthy : /\ table[s].sector \in marked /\ table'[s] = table[s]
                               /\ table[s].sector \notin ToSet(header[table[s].sector])
        BY <2>6, <3>1 DEF FsState, HealthyFiles, Own
      <4> QED  BY <4>1, <2>2, <1>6, <1>14
    <3>5. \A s, r \in Healthy : s # r => table'[r].name # table'[s].name /\ Own(r)' \cap Own(s)' = {}
      BY <2>6 DEF FsState, HealthyFiles
    <3> QED  BY <3>3, <3>4, <3>5, <3>6, <2>7 DEF HealthyFiles
  <2>10. CreatedKept'
    <3>0. PICK new : new = [name |-> op[u].name, slot |-> slot]
      OBVIOUS
    <3>1. \A c \in created : /\ c.slot \in Slots \ Changing' /\ table'[c.slot].inUse /\ table'[c.slot].name = c.name
                             /\ \A s \in Slots \ {c.slot} : Stale(c, s)'
      BY <2>6 DEF StillFound
    <3>2. new.slot = slot /\ new.name = op[u].name
      BY <3>0
    <3>3. new.slot \in Slots \ Changing' /\ table'[new.slot].inUse /\ table'[new.slot].name = new.name
      BY <2>2, <2>6, <3>2, <1>6, <1>14
    <3>4. ASSUME NEW s \in Slots \ {slot}
          PROVE  Stale(new, s)'
      <4> SUFFICES ASSUME table'[s].name = new.name, table'[s].inUse \/ s = Straddle
                   PROVE  s = Straddle /\ slot < Straddle
        BY <3>2 DEF Stale
      <4>1. ~table[s].inUse /\ s = Straddle
        BY <2>2, <3>2, <1>5
      <4>2. ~(s < slot) /\ s \in Nat /\ slot \in Nat /\ s # slot
        BY <4>1, <1>5, SlotNumbers
      <4> QED  BY <4>1, <4>2
    <3> QED  BY <3>0, <3>1, <3>2, <3>3, <3>4, <2>2 DEF CreatedKept
  <2>11. Ops'
    BY <2>3, OneChanging
  <2>12. NoneLost'
    <3>1. ~crashed => marked = Used
      BY OneChanging DEF FsState
    <3>2. Used' = Used \cup Own(slot)'
      BY <2>6, <2>7 DEF Used
    <3> QED  BY <3>1, <3>2, <2>2, <2>4, <2>8 DEF NoneLost
  <2> QED  BY <2>6, <2>9, <2>10, <2>11, <2>12 DEF FsState
<1> QED  BY <1>7, <1>11, <1>12, <1>13, <1>14 DEF dir, map

\* The writes of Remove.
LEMMA RemoveWriteKeeps ==
  ASSUME OneUser, FsState, NEW u \in Users, WriteNext(u), op[u].kind = "remove"
  PROVE  FsState'
<1>1. /\ Removing(op[u]) /\ At(u, "writes") /\ DOMAIN op' = Users
      /\ op[u].slot \in Slots \ hurt /\ op[u].alone /\ opened = {}
  BY WriteLeaves DEF Writing
<1>2. /\ table \in [Slots -> Entries] /\ header \in [DiskSectors -> DataSeqs]
      /\ marked \subseteq DiskSectors /\ System \subseteq marked
  BY DEF FsState, FsTypes
<1>3. PICK slot \in Slots \ hurt : slot = op[u].slot
  BY <1>1
<1> DEFINE dir == [table EXCEPT ![slot].inUse = FALSE]
<1>4. /\ dir \in [Slots -> Entries] /\ ~dir[slot].inUse /\ \A s \in Slots \ {slot} : dir[s] = table[s]
      /\ dir[slot] = [table[slot] EXCEPT !.inUse = FALSE] /\ dir[slot].name = table[slot].name
  BY <1>2 DEF Entries
<1>5. \/ /\ op[u].todo = <<WriteMap(marked \ Own(slot)), First(dir), Second(dir)>>
         /\ Own(slot) \cap System = {}
         /\ \A s \in Healthy : Own(s) \cap Own(slot) = {}
         /\ ~crashed => marked = Used \cup Own(slot)
      \/ op[u].todo = <<First(dir), Second(dir)>>
      \/ op[u].todo = <<Second(dir)>> /\ (slot <= Straddle => ~table[slot].inUse)
  BY <1>1, <1>3 DEF Removing
<1>6. ASSUME NEW rest, rest # <<>>, Tail(op[u].todo) = rest
      PROVE  /\ op'[u] # NoOp /\ op'[u].at = "writes" /\ op'[u].slot = slot /\ op'[u].todo = rest
             /\ op'[u].kind = op[u].kind /\ op'[u].alone = op[u].alone
             /\ op'[u] \in [kind : {"remove", "create"}, name : Names, alone : BOOLEAN, at : {"writes"},
                            slot : Slots \ hurt, todo : {op'[u].todo}]
  BY <1>6, <1>3, WriteLeaves
<1>7. UNCHANGED <<opened, hurt, crashed, created>>
  BY DEF WriteNext
<1> HIDE DEF dir
<1>8. CASE /\ op[u].todo = <<WriteMap(marked \ Own(slot)), First(dir), Second(dir)>>
           /\ Own(slot) \cap System = {}
           /\ \A s \in Healthy : Own(s) \cap Own(slot) = {}
           /\ ~crashed => marked = Used \cup Own(slot)
  <2> DEFINE rest == <<First(dir), Second(dir)>>
  <2>1. Head(op[u].todo) = WriteMap(marked \ Own(slot)) /\ Tail(op[u].todo) = rest /\ rest # <<>>
    BY <1>8, Tails
  <2>2. table' = table /\ header' = header /\ marked' = marked \ Own(slot)
    BY <2>1, WriteChanges
  <2>3. op'[u] # NoOp /\ op'[u].at = "writes" /\ op'[u].slot = slot /\ op'[u].todo = rest
    BY <2>1, <1>6
  <2>4. marked' \subseteq DiskSectors /\ System \subseteq marked'
    BY <2>2, <1>2, <1>8
  <2>5. /\ FsTypes' /\ OpenedKept'
        /\ \A s \in Healthy : s # slot /\ s \in Slots /\ table'[s] = table[s] /\ Own(s)' = Own(s)
        /\ Changing' = {slot}
        /\ Healthy' = Healthy /\ Used' = Used
        /\ \A c \in created : StillFound(c, slot)
    <3>1. NameStays(op[u])
      BY <2>2 DEF NameStays
    <3> QED  BY <3>1, <2>2, <2>3, <2>4, <1>1, <1>2, <1>3, <1>7, WriteKeeps
  <2>6. HealthyFiles'
    <3>1. \A s \in Healthy : Own(s)' \subseteq marked' \ System
      BY <2>2, <2>5, <1>8 DEF FsState, HealthyFiles
    <3> QED  BY <3>1, <2>2, <2>5 DEF FsState, HealthyFiles
  <2>7. CreatedKept'
    BY <2>5, <1>7 DEF CreatedKept, StillFound
  <2>8. NoneLost'
    <3>1. Used \cap Own(slot) = {}
      BY <1>8 DEF Used
    <3> QED  BY <3>1, <2>2, <2>5, <1>7, <1>8 DEF NoneLost
  <2>9. Ops'
    <3>1. Removing(op[u])'
      <4>1. dir = [table' EXCEPT ![slot].inUse = FALSE]
        BY <2>2 DEF dir
      <4> QED  BY <4>1, <2>3 DEF Removing
    <3>2. /\ op'[u].kind = op[u].kind /\ op'[u].alone = op[u].alone
          /\ op'[u] \in [kind : {"remove", "create"}, name : Names, alone : BOOLEAN, at : {"writes"},
                         slot : Slots \ hurt, todo : {op'[u].todo}]
      BY <2>1, <1>6
    <3>3. Writing(op[u])'
      BY <3>1, <3>2, <1>7 DEF Writing
    <3> QED  BY <3>2, <3>3, <1>1, <1>7, OneChanging
  <2> QED  BY <2>5, <2>6, <2>7, <2>8, <2>9 DEF FsState
<1>9. Len(op[u].todo) # 3 => (~crashed => marked = Used)
  BY OneChanging DEF FsState
<1>10. CASE op[u].todo = <<First(dir), Second(dir)>>
  <2> DEFINE rest == <<Second(dir)>>
  <2>1. Head(op[u].todo) = First(dir) /\ Tail(op[u].todo) = rest /\ rest # <<>> /\ Len(op[u].todo) # 3
    BY <1>10, Tails
  <2>2. table' = Sectors(dir, table) /\ header' = header /\ marked' = marked
    BY <2>1, WriteChanges
  <2>3. /\ Sectors(dir, table) \in [Slots -> Entries]
        /\ \A s \in Slots : dir[s] = table[s] => Sectors(dir, table)[s] = dir[s]
        /\ \A s \in Slots : s < Straddle => Sectors(dir, table)[s] = dir[s]
        /\ \A s \in Slots : Straddle < s => Sectors(dir, table)[s] = table[s]
        /\ Straddle \in Slots => Sectors(dir, table)[Straddle] = [dir[Straddle] EXCEPT !.name = table[Straddle].name]
    BY <1>2, <1>4, SectorsAgree
  <2>4. table' \in [Slots -> Entries] /\ \A s \in Slots \ {slot} : table'[s] = table[s]
    BY <2>2, <2>3, <1>4
  <2>5. /\ slot <= Straddle => table'[slot] = dir[slot]
        /\ ~(slot <= Straddle) => table'[slot] = table[slot]
    <3>1. slot \in Nat /\ Straddle \in Nat
      BY SlotNumbers, FileSystemAssumption
    <3>2. [dir[slot] EXCEPT !.name = table[slot].name] = dir[slot]
      <4>1. dir[slot] \in Entries
        BY <1>4
      <4> QED  BY <4>1, <1>4 DEF Entries
    <3> QED  BY <3>1, <3>2, <2>2, <2>3
  <2>6. dir = [table' EXCEPT ![slot].inUse = FALSE]
    <3>1. [table'[slot] EXCEPT !.inUse = FALSE] = dir[slot]
      <4>1. [dir[slot] EXCEPT !.inUse = FALSE] = dir[slot]
        BY <1>2, <1>4 DEF Entries
      <4> QED  BY <4>1, <2>5, <1>4
    <3> HIDE DEF dir
    <3> QED  BY <3>1, <2>4, <1>4
  <2>7. op'[u].slot = slot /\ op'[u].todo = rest
    BY <2>1, <1>6
  <2>8. Removing(op[u])'
    BY <2>5, <2>6, <2>7, <1>4 DEF Removing
  <2>9. NameStays(op[u])
    BY <2>5, <1>3, <1>4 DEF NameStays
  <2> HIDE DEF rest
  <2> QED  BY <2>1, <2>2, <2>4, <2>8, <2>9, <1>2, <1>3, <1>9, WriteGoesOn
<1>11. CASE op[u].todo = <<Second(dir)>> /\ (slot <= Straddle => ~table[slot].inUse)
  <2>1. Head(op[u].todo) = Second(dir) /\ Tail(op[u].todo) = <<>> /\ Len(op[u].todo) # 3
    BY <1>11, Tails
  <2>2. table' = Sectors(table, dir) /\ header' = header /\ marked' = marked
    BY <2>1, WriteChanges
  <2>3. /\ Sectors(table, dir) \in [Slots -> Entries]
        /\ \A s \in Slots : table[s] = dir[s] => Sectors(table, dir)[s] = table[s]
        /\ \A s \in Slots : s < Straddle => Sectors(table, dir)[s] = table[s]
        /\ \A s \in Slots : Straddle < s => Sectors(table, dir)[s] = dir[s]
        /\ Straddle \in Slots => Sectors(table, dir)[Straddle] = [table[Straddle] EXCEPT !.name = dir[Straddle].name]
    BY <1>2, <1>4, SectorsAgree
  <2>4. table' \in [Slots -> Entries] /\ \A s \in Slots \ {slot} : table'[s] = table[s]
    BY <2>2, <2>3, <1>4
  <2>5. ~table'[slot].inUse
    <3>1. slot \in Nat /\ Straddle \in Nat
      BY SlotNumbers, FileSystemAssumption
    <3>2. [table[slot] EXCEPT !.name = dir[slot].name].inUse = table[slot].inUse
      BY <1>2 DEF Entries
    <3>3. CASE Straddle < slot
      BY <3>3, <2>2, <2>3, <1>4
    <3>4. CASE slot < Straddle
      BY <3>1, <3>4, <2>2, <2>3, <1>11
    <3>5. CASE slot = Straddle
      <4>1. table'[slot].inUse = table[slot].inUse
        BY <3>2, <3>5, <2>2, <2>3
      <4> QED  BY <4>1, <3>1, <3>5, <1>11
    <3> QED  BY <3>1, <3>3, <3>4, <3>5
  <2>6. op'[u] = NoOp
    BY <2>1, WriteLeaves
  <2>7. /\ FsTypes' /\ OpenedKept'
        /\ \A s \in Healthy : s # slot /\ s \in Slots /\ table'[s] = table[s] /\ Own(s)' = Own(s)
        /\ Changing' = {}
        /\ Healthy' \ {slot} = Healthy
        /\ \A c \in created : StillFound(c, slot)
    <3>1. table'[slot].name = table[slot].name
      <4>1. slot \in Nat /\ Straddle \in Nat
        BY SlotNumbers, FileSystemAssumption
      <4>2. [table[slot] EXCEPT !.name = dir[slot].name].name = table[slot].name
        BY <1>2, <1>4 DEF Entries
      <4>3. CASE slot < Straddle
        BY <4>3, <2>2, <2>3
      <4>4. CASE slot = Straddle
        BY <4>2, <4>4, <2>2, <2>3
      <4>5. CASE Straddle < slot
        BY <4>5, <2>2, <2>3, <1>4
      <4> QED  BY <4>1, <4>3, <4>4, <4>5
    <3>2. NameStays(op[u])
      BY <3>1, <2>5, <1>3 DEF NameStays
    <3> QED  BY <3>2, <2>2, <2>4, <2>6, <1>1, <1>2, <1>3, <1>7, WriteKeeps
  <2>8. Healthy' = Healthy
    BY <2>5, <2>7 DEF Healthy
  <2>9. HealthyFiles'
    BY <2>2, <2>7, <2>8 DEF FsState, HealthyFiles
  <2>10. CreatedKept'
    BY <2>7, <1>7 DEF CreatedKept, StillFound
  <2>11. NoneLost'
    <3>1. Used' = Used
      BY <2>7, <2>8 DEF Used
    <3> QED  BY <3>1, <2>1, <2>2, <1>7, <1>9 DEF NoneLost
  <2>12. Ops'
    BY <2>6, OneChanging
  <2> QED  BY <2>7, <2>9, <2>10, <2>11, <2>12 DEF FsState
<1> QED  BY <1>5, <1>8, <1>10, <1>11

\* A crash leaves half-written the entry that was being changed, and no other.
LEMMA CrashKeeps ==
  ASSUME FsState, Crash
  PROVE  FsState'
<1>1. /\ op' = [u \in Users |-> NoOp] /\ hurt' = hurt \cup Changing /\ opened' = {} /\ crashed' = TRUE
      /\ marked' = marked /\ table' = table /\ header' = header /\ created' = created
  BY DEF Crash
<1>2. Changing \subseteq Slots
  <2> SUFFICES ASSUME NEW u \in Users, At(u, "writes") PROVE op[u].slot \in Slots
    BY DEF Changing
  <2> QED  BY ReadingAt DEF Writing
<1>3. Changing' = {}
  BY <1>1 DEF Changing, At
<1>4. Healthy' = Healthy /\ \A s : Own(s)' = Own(s)
  BY <1>1, <1>3 DEF Healthy, Own
<1>5. FsTypes' /\ HealthyFiles'
  BY <1>1, <1>2, <1>4 DEF FsState, FsTypes, HealthyFiles
<1>6. OpenedKept' /\ CreatedKept' /\ NoneLost' /\ Ops'
  BY <1>1, <1>3 DEF FsState, OpenedKept, CreatedKept, Stale, NoneLost, Ops
<1> QED  BY <1>5, <1>6 DEF FsState

\* Through a healthy file only sectors of its data are written, and these are of no other
\* healthy file; those that a hurt file reaches are hurt from now on.
LEMMA WriteThroughKeeps ==
  ASSUME OneUser, FsState, NEW u \in Users, NEW f \in opened, Write(u, f), ~corrupt'
  PROVE  FsState'
<1>1. /\ op[u] = NoOp /\ marked' = marked /\ table' = table /\ op' = op /\ opened' = opened
      /\ crashed' = crashed /\ created' = created
  BY DEF Write
<1>2. PICK sector \in ToSet(f.data) :
        /\ \/ \E data \in Garbage : header' = [header EXCEPT ![sector] = data]
           \/ header' = header
        /\ hurt' = hurt \cup Reached(f.slot, {sector})
  BY DEF Write
<1>3. Changing = {} /\ Changing' = {}
  BY <1>1, OneChanging DEF At
<1>4. /\ f.slot \in Slots /\ table[f.slot].inUse /\ table[f.slot].sector = f.sector
      /\ f.slot \notin hurt => f.data = header[f.sector]
  BY DEF FsState, OpenedKept
<1>5. \A x \in DiskSectors \ {sector} : header'[x] = header[x]
  BY <1>2 DEF FsState, FsTypes
<1>6. Healthy' = Healthy \ Reached(f.slot, {sector})
  BY <1>1, <1>2, <1>3 DEF Healthy
<1>7. /\ f.slot \notin hurt => Healthy' = Healthy
      /\ \A s \in Healthy' : s \in Healthy /\ table[s].sector # sector
  <2>1. CASE f.slot \in hurt
    <3>1. \A s \in Healthy : s \in Slots \ {f.slot} /\ table[s].inUse
      BY <2>1 DEF Healthy
    <3>2. \A s \in Healthy' : s \in Healthy /\ Own(s) \cap {sector} = {}
      BY <2>1, <3>1, <1>6 DEF Reached
    <3>3. \A s \in Healthy' : s \in Healthy /\ table[s].sector # sector
      BY <3>2 DEF Own
    <3> QED  BY <2>1, <3>3
  <2>2. CASE f.slot \notin hurt
    <3>1. Healthy' = Healthy /\ f.slot \in Healthy
      BY <2>2, <1>3, <1>4, <1>6 DEF Healthy, Reached
    <3>2. sector \in ToSet(header[table[f.slot].sector])
      BY <2>2, <1>4
    <3>3. sector \in Own(f.slot) /\ table[f.slot].sector # sector
      BY <3>1, <3>2 DEF Own, FsState, HealthyFiles
    <3>4. \A s \in Healthy \ {f.slot} : table[s].sector # sector
      BY <3>1, <3>3 DEF Own, FsState, HealthyFiles
    <3> QED  BY <3>1, <3>3, <3>4
  <2> QED  BY <2>1, <2>2
<1>8. \A s \in Healthy' : header'[table'[s].sector] = header[table[s].sector] /\ Own(s)' = Own(s)
  <2>1. \A s \in Healthy : table[s].sector \in DiskSectors
    BY DEF Healthy, FsState, FsTypes, Entries
  <2> QED  BY <2>1, <1>1, <1>5, <1>7 DEF Own
<1>9. FsTypes'
  <2>1. header' \in [DiskSectors -> DataSeqs]
    BY <1>2, FileSystemAssumption DEF FsState, FsTypes, DataSeqs
  <2>2. Reached(f.slot, {sector}) \subseteq Slots /\ (hurt = {} => Reached(f.slot, {sector}) = {})
    BY DEF Reached
  <2> QED  BY <2>1, <2>2, <1>1, <1>2 DEF FsState, FsTypes
<1>10. HealthyFiles'
  BY <1>1, <1>7, <1>8 DEF FsState, HealthyFiles
<1>11. OpenedKept'
  <2> SUFFICES ASSUME NEW g \in opened
               PROVE  /\ g.slot \in Slots \ Changing' /\ table'[g.slot].inUse /\ table'[g.slot].sector = g.sector
                      /\ g.slot \notin hurt' => g.data = header'[g.sector]
    BY <1>1 DEF OpenedKept
  <2>1. /\ g.slot \in Slots /\ table[g.slot].inUse /\ table[g.slot].sector = g.sector
        /\ g.slot \notin hurt => g.data = header[g.sector]
    BY DEF FsState, OpenedKept
  <2>2. ASSUME g.slot \notin hurt'
        PROVE  g.data = header'[g.sector]
    <3>1. g.slot \in Healthy'
      BY <2>1, <2>2, <1>1, <1>3 DEF Healthy
    <3> QED  BY <2>1, <2>2, <3>1, <1>1, <1>2, <1>8
  <2> QED  BY <2>1, <2>2, <1>1, <1>3
<1>12. CreatedKept'
  BY <1>1, <1>3 DEF FsState, CreatedKept, Stale
<1>13. NoneLost'
  <2> SUFFICES ASSUME ~crashed PROVE marked' = Used'
    BY <1>1 DEF NoneLost
  <2>1. Healthy' = Healthy
    BY <1>7 DEF FsState, FsTypes
  <2>2. Used' = Used
    BY <2>1, <1>8 DEF Used
  <2>3. marked = Used
    BY <1>1, OneChanging DEF FsState, At
  <2> QED  BY <2>2, <2>3, <1>1
<1>14. Ops'
  BY <1>1, OneChanging
<1> QED  BY <1>9, <1>10, <1>11, <1>12, <1>13, <1>14 DEF FsState

\* With one user every step of an operation keeps the file system's invariant.
LEMMA NextFsInv ==
  ASSUME OneUser
  PROVE  FsInv /\ [FsNext]_fsVars => FsInv'
<1> SUFFICES ASSUME FsInv, [FsNext]_fsVars PROVE FsInv'
  OBVIOUS
<1>1. CASE UNCHANGED fsVars
  <2>1. /\ corrupt' = corrupt /\ crashed' = crashed /\ opened' = opened
        /\ UNCHANGED <<marked, table, header, op, history>>
    BY <1>1 DEF fsVars, history
  <2>2. ~corrupt => FsState'
    BY <2>1, RestKeeps DEF FsInv
  <2> QED  BY <2>1, <2>2 DEF FsInv
<1>2. CASE FsNext
  <2>1. ~corrupt /\ FsState
    BY <1>2 DEF FsNext, FsInv
  <2>2. CASE \E f \in opened : Close(f)
    <3>1. PICK f \in opened : Close(f)
      BY <2>2
    <3>2. /\ corrupt' = corrupt /\ crashed' = crashed /\ opened' \subseteq opened
          /\ UNCHANGED <<marked, table, header, op, history>>
      BY <3>1 DEF Close, history
    <3> QED  BY <2>1, <3>2, RestKeeps DEF FsInv
  <2>3. CASE Crash
    <3>1. crashed'
      BY <2>3 DEF Crash
    <3> QED  BY <2>1, <2>3, <3>1, CrashKeeps DEF FsInv
  <2>4. ASSUME NEW u \in Users,
               \/ \E name \in Names : \/ Begin(u, "open", name, 0) \/ Begin(u, "remove", name, 0)
                                      \/ \E n \in 0 .. NumDirect : Begin(u, "create", name, n)
               \/ FetchFirst(u) \/ FetchSecond(u) \/ OpenFile(u) \/ FetchHeader(u)
               \/ Create(u) \/ WriteNext(u)
        PROVE  FsInv'
    <3>1. corrupt' = corrupt /\ crashed' = crashed
      BY <2>4 DEF Begin, FetchFirst, FetchSecond, OpenFile, FetchHeader, Create, WriteNext, history
    <3>2. FsState'
      <4>1. CASE \E name \in Names : \/ Begin(u, "open", name, 0) \/ Begin(u, "remove", name, 0)
                                     \/ \E n \in 0 .. NumDirect : Begin(u, "create", name, n)
        <5>1. 0 .. NumDirect \subseteq Nat
          BY FileSystemAssumption
        <5> QED  BY <2>1, <4>1, <5>1, BeginKeeps
      <4>2. CASE WriteNext(u)
        <5>1. op[u].kind \in {"remove", "create"}
          BY <2>1, <4>2, ReadingAt DEF WriteNext, Writing
        <5> QED  BY <2>1, <4>2, <5>1, CreateWriteKeeps, RemoveWriteKeeps
      <4> QED  BY <2>1, <2>4, <4>1, <4>2, FetchFirstKeeps, FetchSecondKeeps, OpenFileKeeps, FetchHeaderKeeps, CreateKeeps
    <3> QED  BY <2>1, <3>1, <3>2 DEF FsInv
  <2>5. ASSUME NEW u \in Users, RemoveFile(u)
        PROVE  FsInv'
    <3>1. crashed' = crashed /\ (corrupt' => hurt # {})
      BY <2>5 DEF RemoveFile
    <3>2. ~corrupt' => FsState'
      BY <2>1, <2>5, RemoveFileKeeps
    <3> QED  BY <2>1, <3>1, <3>2 DEF FsInv, FsState, FsTypes
  <2>6. ASSUME NEW u \in Users, NEW f \in opened, Write(u, f)
        PROVE  FsInv'
    <3>1. crashed' = crashed /\ (corrupt' => hurt # {})
      BY <2>6 DEF Write
    <3>2. ~corrupt' => FsState'
      BY <2>1, <2>6, WriteThroughKeeps
    <3> QED  BY <2>1, <3>1, <3>2 DEF FsInv, FsState, FsTypes
  <2> QED  BY <1>2, <2>2, <2>3, <2>4, <2>5, <2>6 DEF FsNext
<1> QED  BY <1>1, <1>2

\* With one user the file system's invariant holds of every reachable state.
LEMMA FsInvariant ==
  ASSUME OneUser
  PROVE  FsSpec => []FsInv
<1>1. FsInit => FsInv
  BY InitFsState DEF FsInv, FsInit
<1>2. FsInv /\ [FsNext]_fsVars => FsInv'
  BY NextFsInv
<1> QED  BY <1>1, <1>2, PTL DEF FsSpec

\* With one user at a time, whatever it creates, opens, writes and removes and wherever a
\* crash falls: until a half-written file, or one that it has reached, reaches the system's
\* own sectors, the files that none of these has reached have names and sectors of their own,
\* all marked, and an open one is accessed through the header on the disk (Create, Open,
\* Remove, WriteAt).
THEOREM FilesStayIntact ==
  ASSUME OneUser
  PROVE  FsSpec => []FilesIntact
<1>1. FsInv => FilesIntact
  <2> SUFFICES ASSUME FsState PROVE FilesIntact
    BY DEF FsInv, FilesIntact
  <2>1. System \subseteq marked
    BY DEF FsState, FsTypes
  <2>2. ASSUME NEW f \in opened, f.slot \notin hurt
        PROVE  f.slot \in Healthy /\ f.sector = table[f.slot].sector /\ f.data = header[f.sector]
    BY <2>2 DEF FsState, OpenedKept, Healthy
  <2> QED  BY <2>1, <2>2 DEF FsState, HealthyFiles, FilesIntact
<1> QED  BY <1>1, FsInvariant, PTL

\* With one user and no crash, the free map accounts for exactly the system's sectors and
\* the files' whenever no operation is under way (Create and Remove).
THEOREM SectorsAccounted ==
  ASSUME OneUser
  PROVE  FsSpec => []NoSectorLost
<1>1. FsInv => NoSectorLost
  <2> SUFFICES ASSUME FsState, ~crashed, \A u \in Users : op[u] = NoOp
               PROVE  marked = System \cup UNION {Own(s) : s \in {r \in Slots : table[r].inUse}}
    BY DEF FsInv, NoSectorLost
  <2>1. hurt = {} /\ Changing = {}
    BY DEF FsState, FsTypes, Changing, At
  <2>2. Healthy = {r \in Slots : table[r].inUse}
    BY <2>1 DEF Healthy
  <2> QED  BY <2>2 DEF FsState, NoneLost, Used, At
<1> QED  BY <1>1, FsInvariant, PTL

\* With one user at a time, the entry that a Create made is the one that is found by its name
\* until it is removed, whatever a crash leaves half-written and whatever name is left in the
\* entry that straddles; unless the directory's own sectors are reached (Create, FindIndex).
THEOREM CreatedStaysFound ==
  ASSUME OneUser
  PROVE  FsSpec => []CreatedFound
<1>1. FsInv => CreatedFound
  <2> SUFFICES ASSUME FsState, NEW c \in created
               PROVE  FindIndex(table, c.name) = c.slot
    BY DEF FsInv, CreatedFound
  <2>1. /\ c.slot \in Slots /\ table[c.slot].inUse /\ table[c.slot].name = c.name
        /\ \A s \in Slots \ {c.slot} : Stale(c, s)
    BY DEF FsState, CreatedKept
  <2> DEFINE found == {s \in Slots : table[s].inUse /\ table[s].name = c.name}
  <2>2. c.slot \in found /\ \A s \in found : s = c.slot \/ c.slot < s
    BY <2>1 DEF Stale
  <2>3. found \subseteq Nat
    BY SlotNumbers
  <2>4. FindIndex(table, c.name) = Min(found)
    BY <2>2 DEF FindIndex
  <2> HIDE DEF found
  <2>5. PICK m \in found : m = Min(found) /\ m <= c.slot
    BY <2>2, <2>3, MinIsIn
  <2>6. m = c.slot
    <3>1. m \in Nat /\ c.slot \in Nat
      BY <2>2, <2>3, <2>5
    <3>2. m = c.slot \/ c.slot < m
      BY <2>2, <2>5
    <3> QED  BY <3>1, <3>2, <2>5
  <2> QED  BY <2>4, <2>5, <2>6
<1> QED  BY <1>1, FsInvariant, PTL
=============================================================================

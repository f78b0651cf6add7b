------------------------------ MODULE OpenFile ------------------------------
(***************************************************************************)
(* The contents of one file, through the open files of several threads     *)
(* (openfile.cpp, SysRead and SysWrite): the disk moves whole sectors, so  *)
(* a read copies what it wants out of the sectors that hold it, and a      *)
(* write first reads the sectors that it will change in part.  A thread    *)
(* sleeps at every sector, and the others go on.                           *)
(***************************************************************************)
EXTENDS Integers, Sequences, SequencesExt

CONSTANTS Threads,
          FileLength, SectorSize,
          MaxBytes, MaxCalls      \* bounds: bytes per call, calls per thread

ASSUME OpenFileAssumption == FileLength \in Nat /\ SectorSize \in Nat \ {0} /\ MaxBytes \in Nat

VARIABLES
  bytes,         \* what the sectors of the file hold
  seekPosition,  \* of each thread's open file
  call,          \* the Read or Write it is in: [write, position, numBytes, buf, todo, start]
  calls,         \* how many it has made
  image,         \* history: the file, if every write happened when it returned
  raced, wrong   \* history: two writes shared a sector in time; a read returned what no one wrote

ofVars == <<bytes, seekPosition, call, calls, image, raced, wrong>>

Old == "old"     \* what the file held
Junk == "junk"   \* memory that nothing has been copied to
NoCall == [todo |-> <<>>]

Sector(b) == b \div SectorSize
\* The bytes of the file's sectors, those past its end included.
Bytes == 0 .. (Sector(FileLength - 1) + 1) * SectorSize - 1

OfInit ==
  /\ bytes = [b \in Bytes |-> Old] /\ image = bytes
  /\ seekPosition = [t \in Threads |-> 0]
  /\ call = [t \in Threads |-> NoCall] /\ calls = [t \in Threads |-> 0]
  /\ raced = FALSE /\ wrong = FALSE

Idle(t) == call[t] = NoCall

\* MyOpenNaFile::Seek.
Seek(t, position) ==
  /\ Idle(t) /\ calls[t] < MaxCalls
  /\ seekPosition' = [seekPosition EXCEPT ![t] = position]
  /\ UNCHANGED <<bytes, call, calls, image, raced, wrong>>

Span(c) == c.position .. c.position + c.numBytes - 1
FirstSector(position) == Sector(position)
LastSector(position, n) == Sector(position + n - 1)
Accesses(kind, sectors) == [i \in 1 .. Len(sectors) |-> [kind |-> kind, sector |-> sectors[i]]]
AllSectors(position, n) ==
  [i \in 1 .. LastSector(position, n) - FirstSector(position) + 1 |-> FirstSector(position) + i - 1]

\* Mutation: only the first sector is read in.
FirstOnly(position, n) ==
  LET first == FirstSector(position)
  IN IF position = first * SectorSize THEN <<>> ELSE <<first>>

\* The first and the last sector, where the write changes them in part.
PartialSectors(position, n) ==
  LET first == FirstSector(position)
      last == LastSector(position, n)
      firstAligned == position = first * SectorSize
      lastAligned == position + n = (last + 1) * SectorSize
  IN (IF firstAligned THEN <<>> ELSE <<first>>)
     \o (IF ~lastAligned /\ (first # last \/ firstAligned) THEN <<last>> ELSE <<>>)

Touches(c) == IF c = NoCall THEN {} ELSE IF c.write THEN {Sector(b) : b \in Span(c)} ELSE {}

\* Read or Write of numBytes from the seek position, clipped to the file's length.
Call(t, write, numBytes) ==
  LET position == seekPosition[t]
      n == IF position + numBytes > FileLength THEN FileLength - position ELSE numBytes
      c == [write |-> write, position |-> position, numBytes |-> n,
            buf |-> [b \in Bytes |-> Junk], start |-> image,
            todo |-> IF write
                     THEN Accesses("read", PartialSectors(position, n)) \o Accesses("write", AllSectors(position, n))
                     ELSE Accesses("read", AllSectors(position, n))]
  IN /\ Idle(t) /\ calls[t] < MaxCalls
     /\ numBytes > 0 /\ position < FileLength
     /\ call' = [call EXCEPT ![t] = c]
     /\ calls' = [calls EXCEPT ![t] = @ + 1]
     /\ raced' = (raced \/ \E u \in Threads \ {t} : Touches(call[u]) \cap Touches(c) # {})
     /\ UNCHANGED <<bytes, seekPosition, image, wrong>>

\* ReadSector or WriteSector of the next sector.  What is read in is clipped to the
\* file's length too; what is written is the buffer, with the caller's bytes over it.
Access(t) ==
  LET c == call[t]
      access == Head(c.todo)
      here == {b \in Bytes : Sector(b) = access.sector}
  IN /\ c.todo # <<>>
     /\ IF access.kind = "read"
        THEN /\ call' = [call EXCEPT ![t].todo = Tail(@),
                         ![t].buf = [b \in Bytes |-> IF b \in here /\ b < FileLength THEN bytes[b] ELSE @[b]]]
             /\ UNCHANGED bytes
        ELSE /\ call' = [call EXCEPT ![t].todo = Tail(@)]
             /\ bytes' = [b \in Bytes |-> IF b \notin here THEN bytes[b]
                                          ELSE IF b \in Span(c) THEN t ELSE c.buf[b]]
     /\ UNCHANGED <<seekPosition, calls, image, raced, wrong>>

\* The call returns numBytes, and Read and Write move the seek position by it.
Return(t) ==
  LET c == call[t]
  IN /\ ~Idle(t) /\ c.todo = <<>>
     /\ call' = [call EXCEPT ![t] = NoCall]
     /\ seekPosition' = [seekPosition EXCEPT ![t] = @ + c.numBytes]
     /\ image' = [b \in Bytes |-> IF c.write /\ b \in Span(c) THEN t ELSE image[b]]
     /\ wrong' = (wrong \/ (~c.write /\ \E b \in Span(c) :
                                c.buf[b] # c.start[b] /\ c.buf[b] \notin Threads \ {t}))
     /\ UNCHANGED <<bytes, calls, raced>>

OfNext == \E t \in Threads : \/ \E p \in 0 .. FileLength : Seek(t, p)
                             \/ \E w \in BOOLEAN, n \in 0 .. MaxBytes : Call(t, w, n)
                             \/ Access(t) \/ Return(t)

OfSpec == OfInit /\ [][OfNext]_ofVars

-----------------------------------------------------------------------------
(***************************************************************************)
(* Properties.                                                             *)
(***************************************************************************)

\* A write changes the bytes it was asked to and no other, in whatever sectors they
\* lie, and a read returns what the file held or what a write in the meantime put
\* there: as long as two writes do not share a sector at the same time, which
\* nothing in openfile.cpp prevents, the file holds what was written last.
FileExact ==
  ~raced => /\ ~wrong
            /\ \A b \in 0 .. FileLength - 1 :
                 (\A t \in Threads : Sector(b) \notin Touches(call[t])) => bytes[b] = image[b]
=============================================================================

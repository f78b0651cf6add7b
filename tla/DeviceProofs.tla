---------------------------- MODULE DeviceProofs ----------------------------
(***************************************************************************)
(* The devices and their drivers for any number of threads, any geometry   *)
(* of the disk, any lengths and any delays: the synchronous disk           *)
(* implements the abstract one and its head is where the clock says, the   *)
(* console moves one character at a time, and the queue of pending         *)
(* interrupts is served in order and on time.                              *)
(***************************************************************************)
EXTENDS SynchDisk, SynchConsole, PostOffice, Interrupts,
        FiniteSetTheorems, WellFoundedInduction, TLAPS

(***************************************************************************)
(* The disk: lock, semaphore, active flag and interrupt together carry out *)
(* one request at a time and let nobody go on the strength of another's    *)
(* interrupt.                                                              *)
(***************************************************************************)

DiskPlaces == {"out", "acquire", "in", "sent", "wait", "served"}

\* The types the argument needs; what is on the disk does not matter.
DiskTypes ==
  /\ active \in BOOLEAN
  /\ diskValue \in [{"lock", "semaphore"} -> 0..1]
  /\ diskWaiting \in [{"lock", "semaphore"} -> SUBSET Callers]
  /\ diskPc \in [Callers -> DiskPlaces]

Inside(t) == diskPc[t] \in {"in", "sent", "wait", "served"}

Awaits(t) == diskPc[t] \in {"sent", "wait"}

\* The lock: held by the one thread between Acquire and Release.
DiskLocked ==
  /\ \A t, u \in Callers : Inside(t) /\ Inside(u) => t = u
  /\ diskValue["lock"] = 0 <=> \E t \in Callers : Inside(t)
  /\ \A t \in Callers : t \in diskWaiting["lock"] <=> diskPc[t] = "acquire"
  /\ \A t \in Callers : t \in diskWaiting["semaphore"] <=> diskPc[t] = "wait"

\* The interrupt: one while the disk is active, and then a V for the one thread
\* that awaits it.
DiskAnswers ==
  /\ active <=> diskPending # {}
  /\ \A d, e \in diskPending : d = e
  /\ active => diskValue["semaphore"] = 0 /\ \E t \in Callers : Awaits(t)
  /\ ~active => (diskValue["semaphore"] = 1 <=> \E t \in Callers : Awaits(t))

DiskInv == DiskTypes /\ DiskLocked /\ DiskAnswers

\* The disk starts idle, with nobody waiting.
LEMMA DiskInitInv == DiskInit => DiskInv
<1> SUFFICES ASSUME DiskInit PROVE DiskInv
  OBVIOUS
<1>1. /\ active = FALSE /\ diskPending = {}
      /\ diskPc = [t \in Callers |-> "out"]
      /\ diskWaiting = [s \in {"lock", "semaphore"} |-> {}]
      /\ diskValue = [s \in {"lock", "semaphore"} |-> IF s = "lock" THEN 1 ELSE 0]
  BY DEF DiskInit, DiskSemaphore!AbsInit
<1>2. diskValue["lock"] = 1 /\ diskValue["semaphore"] = 0
  BY <1>1
<1>3. DiskTypes
  <2>1. active \in BOOLEAN
    BY <1>1
  <2>2. diskValue \in [{"lock", "semaphore"} -> 0..1]
    BY <1>1
  <2>3. diskPc \in [Callers -> DiskPlaces]
    BY <1>1 DEF DiskPlaces
  <2>4. diskWaiting \in [{"lock", "semaphore"} -> SUBSET Callers]
    BY <1>1
  <2> QED  BY <2>1, <2>2, <2>3, <2>4 DEF DiskTypes
<1>4. \A t \in Callers : diskPc[t] = "out"
  BY <1>1
<1>5. DiskLocked
  BY <1>1, <1>2, <1>4 DEF DiskLocked, Inside
<1>6. DiskAnswers
  BY <1>1, <1>2, <1>4 DEF DiskAnswers, Awaits
<1> QED  BY <1>3, <1>5, <1>6 DEF DiskInv

\* Into the lock and out of it.
LEMMA LockStepInv ==
  ASSUME DiskInv, NEW t \in Callers,
         (\E r \in DiskRequests : CallDisk(t, r)) \/ LockWoken(t) \/ ReleaseDisk(t)
  PROVE  DiskInv'
<1> USE DEF DiskInv, DiskTypes, DiskPlaces, DiskLocked, DiskAnswers, Inside, Awaits, DiskGoto
<1>1. UNCHANGED <<active, diskPending>>
  BY DEF CallDisk, LockWoken, ReleaseDisk
<1>2. CASE \E r \in DiskRequests : CallDisk(t, r)
  <2>1. CASE DiskSemaphore!PassThrough(t, "lock") /\ DiskGoto(t, "in")
    BY <1>1, <1>2, <2>1 DEF CallDisk, DiskSemaphore!PassThrough
  <2>2. CASE DiskSemaphore!Await(t, "lock") /\ DiskGoto(t, "acquire")
    BY <1>1, <1>2, <2>2 DEF CallDisk, DiskSemaphore!Await
  <2> QED  BY <1>2, <2>1, <2>2 DEF CallDisk
<1>3. CASE LockWoken(t)
  BY <1>1, <1>3 DEF LockWoken, DiskSemaphore!Complete
<1>4. CASE ReleaseDisk(t)
  BY <1>1, <1>4 DEF ReleaseDisk, DiskSemaphore!AbsV
<1> QED  BY <1>2, <1>3, <1>4

\* The request finds the disk idle, as ReadRequest and WriteRequest assert.
LEMMA SendInv ==
  ASSUME DiskInv, NEW t \in Callers, SendRequest(t)
  PROVE  DiskInv' /\ ~active
<1> USE DEF DiskInv, DiskTypes, DiskPlaces, DiskLocked, DiskAnswers, Inside, Awaits
<1>1. ~active /\ diskPending = {} /\ diskValue["semaphore"] = 0
  BY DEF SendRequest
<1>2. PICK due : diskPending' = diskPending \cup {due}
  BY DEF SendRequest
<1>3. /\ active' = TRUE /\ UNCHANGED <<diskValue, diskWaiting>>
      /\ diskPc[t] = "in" /\ diskPc' = [diskPc EXCEPT ![t] = "sent"]
  BY DEF SendRequest, DiskGoto, semVars
<1> QED  BY <1>1, <1>2, <1>3

\* The wait for the interrupt, and the interrupt.
LEMMA AnswerInv ==
  ASSUME DiskInv,
         DiskInterrupt \/ \E t \in Callers : AwaitInterrupt(t) \/ RequestWoken(t)
  PROVE  DiskInv'
<1> USE DEF DiskInv, DiskTypes, DiskPlaces, DiskLocked, DiskAnswers, Inside, Awaits, DiskGoto
<1>1. CASE DiskInterrupt
  <2>1. active /\ diskPending' = {}
    BY <1>1 DEF DiskInterrupt
  <2>2. /\ active' = FALSE /\ UNCHANGED <<diskPc, diskWaiting>>
        /\ diskValue' = [diskValue EXCEPT !["semaphore"] = 1]
    <3>1. DiskSemaphore!AbsV("semaphore") /\ active' = FALSE /\ diskPc' = diskPc
      BY <1>1 DEF DiskInterrupt
    <3>2. diskValue["semaphore"] = 0
      BY <2>1
    <3> QED  BY <3>1, <3>2 DEF DiskSemaphore!AbsV
  <2>3. diskValue'["semaphore"] = 1 /\ diskValue'["lock"] = diskValue["lock"]
    BY <2>2
  <2>4. DiskTypes'
    <3>1. active' \in BOOLEAN /\ diskPc' \in [Callers -> DiskPlaces]
      BY <2>2
    <3>2. diskValue' \in [{"lock", "semaphore"} -> 0..1]
      BY <2>2
    <3>3. diskWaiting' \in [{"lock", "semaphore"} -> SUBSET Callers]
      BY <2>2
    <3> QED  BY <3>1, <3>2, <3>3
  <2>5. DiskLocked'
    BY <2>2, <2>3
  <2>6. DiskAnswers'
    BY <2>1, <2>2, <2>3
  <2> QED  BY <2>4, <2>5, <2>6
<1>2. ASSUME NEW t \in Callers, AwaitInterrupt(t)
      PROVE  DiskInv'
  <2>1. UNCHANGED <<active, diskPending>> /\ diskPc[t] = "sent"
    BY <1>2 DEF AwaitInterrupt
  <2>2. CASE DiskSemaphore!PassThrough(t, "semaphore") /\ DiskGoto(t, "served")
    BY <2>1, <2>2 DEF DiskSemaphore!PassThrough
  <2>3. CASE DiskSemaphore!Await(t, "semaphore") /\ DiskGoto(t, "wait")
    BY <2>1, <2>3 DEF DiskSemaphore!Await
  <2> QED  BY <1>2, <2>2, <2>3 DEF AwaitInterrupt
<1>3. ASSUME NEW t \in Callers, RequestWoken(t)
      PROVE  DiskInv'
  <2>1. UNCHANGED <<active, diskPending>> /\ diskPc[t] = "wait"
    BY <1>3 DEF RequestWoken
  <2> QED  BY <1>3, <2>1 DEF RequestWoken, DiskSemaphore!Complete
<1> QED  BY <1>1, <1>2, <1>3

\* Every step of a thread, of the disk and of its handler keeps the disk's invariant.
LEMMA DiskNextInv == DiskInv /\ [DiskNext]_diskVars => DiskInv'
<1> SUFFICES ASSUME DiskInv, [DiskNext]_diskVars PROVE DiskInv'
  OBVIOUS
<1>1. CASE DiskTick \/ UNCHANGED diskVars
  BY <1>1 DEF DiskTick, diskVars, semVars, DiskInv, DiskTypes, DiskLocked, DiskAnswers,
              Inside, Awaits
<1>2. ASSUME NEW t \in Callers, InDiskCall(t) \/ \E r \in DiskRequests : CallDisk(t, r)
      PROVE  DiskInv'
  BY <1>2, LockStepInv, SendInv, AnswerInv DEF InDiskCall
<1>3. CASE DiskInterrupt
  BY <1>3, AnswerInv
<1> QED  BY <1>1, <1>2, <1>3 DEF DiskNext

\* In every reachable state at most one thread is between Acquire and Release
\* of the disk's lock, and an interrupt is pending exactly while the disk is active.
THEOREM DiskInvariant == DiskSpec => []DiskInv
BY DiskInitInv, DiskNextInv, PTL DEF DiskSpec

-----------------------------------------------------------------------------
(***************************************************************************)
(* The head: the arithmetic of ComputeLatency for any number of sectors    *)
(* and any speed.                                                          *)
(***************************************************************************)

\* What a quotient and a remainder are between.
LEMMA Division ==
  ASSUME NEW x \in Int, NEW d \in Nat \ {0}
  PROVE  x \div d \in Int /\ x % d \in 0 .. d - 1 /\ x = d * (x \div d) + (x % d)
OBVIOUS

\* Products with the same factor are ordered as the others.
LEMMA TimesMonotonic ==
  ASSUME NEW a \in Int, NEW b \in Int, NEW d \in Nat \ {0}, a <= b
  PROVE  a * d <= b * d
OBVIOUS

\* a comes before b, and so all of d lies between their multiples.
LEMMA TimesStrict ==
  ASSUME NEW a \in Int, NEW b \in Int, NEW d \in Nat \ {0}, a < b
  PROVE  a * d + d <= b * d
<1>1. a + 1 \in Int /\ a + 1 <= b
  OBVIOUS
<1>2. (a + 1) * d <= b * d
  BY <1>1, TimesMonotonic
<1>3. (a + 1) * d = a * d + d
  OBVIOUS
<1> QED  BY <1>2, <1>3

\* A multiple divides without a remainder.
LEMMA Multiple ==
  ASSUME NEW q \in Int, NEW d \in Nat \ {0}
  PROVE  (q * d) \div d = q /\ (q * d) % d = 0
<1> DEFINE Q == (q * d) \div d
           M == (q * d) % d
<1>1. q * d \in Int
  OBVIOUS
<1>2. Q \in Int /\ M \in 0 .. d - 1 /\ q * d = d * Q + M
  BY <1>1, Division
<1> HIDE DEF Q, M
<1>3. ~(q < Q)
  BY <1>2, TimesStrict
<1>4. ~(Q < q)
  BY <1>2, TimesStrict
<1>5. Q = q
  BY <1>2, <1>3, <1>4
<1>6. M = 0
  BY <1>2, <1>5
<1> QED  BY <1>5, <1>6 DEF Q, M

\* What is divisible is a multiple.
LEMMA Divisible ==
  ASSUME NEW x \in Int, NEW d \in Nat \ {0}, x % d = 0
  PROVE  x \div d \in Int /\ x = (x \div d) * d
<1>1. x \div d \in Int /\ x = d * (x \div d) + 0
  BY Division
<1> QED  BY <1>1

\* The next boundary is less than a sector away.
LEMMA NextBoundary ==
  ASSUME NEW y \in Nat, NEW d \in Nat \ {0}
  PROVE  /\ (-y) % d \in 0 .. d - 1
         /\ \E q \in Nat : y + ((-y) % d) = q * d
<1> DEFINE Q == (-y) \div d
<1>1. Q \in Int /\ (-y) % d \in 0 .. d - 1 /\ -y = d * Q + ((-y) % d)
  BY Division
<1> HIDE DEF Q
<1>2. y + ((-y) % d) = (-Q) * d /\ -Q \in Int
  BY <1>1
<1>3. ~(-Q < 0)
  <2>1. ASSUME -Q < 0
        PROVE  FALSE
    <3>1. (-Q) * d + d <= 0 * d
      BY <1>1, <2>1, TimesStrict
    <3> QED  BY <3>1, <1>1, <1>2
  <2> QED  BY <2>1
<1>4. -Q \in Nat
  BY <1>1, <1>3
<1> QED  BY <1>1, <1>2, <1>4

\* After ModuloDiff sectors the one that is asked for begins, and no sooner.
LEMMA NextPass ==
  ASSUME NEW to \in Int, NEW from \in Int
  PROVE  /\ ModuloDiff(to, from) \in 0 .. SectorsPerTrack - 1
         /\ (from + ModuloDiff(to, from) - to) % SectorsPerTrack = 0
         /\ \A f \in Int : f >= from /\ (f - to) % SectorsPerTrack = 0
              => f >= from + ModuloDiff(to, from)
<1> DEFINE d == SectorsPerTrack
           k == ModuloDiff(to, from)
           Q == (to - from) \div d
<1>1. d \in Nat \ {0}
  BY DiskAssumption
<1>2. Q \in Int /\ k \in 0 .. d - 1 /\ to - from = d * Q + k
  BY <1>1, Division DEF ModuloDiff
<1> HIDE DEF k, Q, d
<1>3. -Q \in Int /\ (from + k) - to = (-Q) * d
  BY <1>1, <1>2
<1>4. ((from + k) - to) % d = 0
  BY <1>1, <1>3, Multiple
<1>5. ASSUME NEW f \in Int, f >= from, (f - to) % d = 0, f < from + k
      PROVE  FALSE
  <2> DEFINE y == (f - to) \div d
  <2>1. y \in Int /\ f - to = y * d
    BY <1>1, <1>5, Divisible
  <2> HIDE DEF y
  <2>2. y < -Q
    <3>1. ASSUME -Q <= y
          PROVE  FALSE
      <4>1. (-Q) * d <= y * d
        BY <1>1, <1>3, <2>1, <3>1, TimesMonotonic
      <4> QED  BY <4>1, <1>2, <1>3, <1>5, <2>1
    <3> QED  BY <3>1, <1>3, <2>1
  <2>3. y * d + d <= (-Q) * d
    BY <1>1, <1>3, <2>1, <2>2, TimesStrict
  <2> QED  BY <2>1, <2>3, <1>1, <1>2, <1>3, <1>5
<1>6. \A f \in Int : f >= from /\ (f - to) % d = 0 => f >= from + k
  BY <1>2, <1>5
<1> QED  BY <1>2, <1>4, <1>6 DEF k, d

\* e is the end of a complete pass of the sector in request under the head.
Passing(e) ==
  /\ e \in 0 .. MaxDiskTicks
  /\ e % RotationTime = 0
  /\ (e \div RotationTime - 1 - sent.sector) % SectorsPerTrack = 0
  /\ e - RotationTime >= bufferInit

\* HeadPassed, of the request in progress.
RequestInTime ==
  /\ \E e \in Int : Passing(e) /\ e <= sent.due
  /\ \A e \in Int : Passing(e) /\ e - RotationTime >= sent.at => sent.due <= e
  /\ sent.writing => Passing(sent.due) /\ sent.due - RotationTime >= sent.at

\* The track has been buffered since a sector boundary, which has gone by before
\* the next request comes.
HeadInv ==
  /\ diskTicks \in Nat /\ lastSector \in Nat
  /\ bufferInit \in Nat /\ bufferInit % RotationTime = 0
  /\ diskRequest \in [Callers -> [writing : BOOLEAN, sector : Sectors, data : Data \cup {Blank}]]
  /\ ~active => bufferInit <= diskTicks
  /\ active => /\ diskPending = {sent.due} /\ sent.due \in Nat
               /\ bufferInit <= sent.due /\ RequestInTime

\* The head starts at sector 0, with no request.
LEMMA HeadInitInv == DiskInit => HeadInv
<1> SUFFICES ASSUME DiskInit PROVE HeadInv
  OBVIOUS
<1>1. /\ diskTicks = 0 /\ lastSector = 0 /\ bufferInit = 0 /\ active = FALSE
      /\ diskRequest = [t \in Callers |-> [writing |-> FALSE, sector |-> 0, data |-> Blank]]
  BY DEF DiskInit
<1>2. 0 % RotationTime = 0
  <2>1. RotationTime \in Nat \ {0} /\ 0 * RotationTime = 0
    BY DiskAssumption
  <2> QED  BY <2>1, Multiple
<1>3. 0 \in Sectors
  <2>1. NumSectors \in Nat \ {0}
    <3>1. SectorsPerTrack \in Nat \ {0} /\ NumTracks \in Nat \ {0}
      BY DiskAssumption
    <3>2. 1 * NumTracks <= SectorsPerTrack * NumTracks
      BY <3>1, TimesMonotonic
    <3> QED  BY <3>1, <3>2 DEF NumSectors
  <2> QED  BY <2>1 DEF Sectors
<1>4. diskRequest \in [Callers -> [writing : BOOLEAN, sector : Sectors, data : Data \cup {Blank}]]
  BY <1>1, <1>3
<1> QED  BY <1>1, <1>2, <1>4 DEF HeadInv

\* The time until the interrupt: a read of what has gone by under the head takes
\* one sector's time, anything else waits for the sector and lets it pass.
LEMMA LatencyInTime ==
  ASSUME NEW now \in Nat, now = diskTicks, lastSector \in Nat,
         bufferInit \in Nat, bufferInit % RotationTime = 0, bufferInit <= now,
         NEW new \in Nat, NEW writing \in BOOLEAN,
         NEW due, due = now + ComputeLatency(new, writing), due <= MaxDiskTicks,
         sent' = [at |-> now, sector |-> new, writing |-> writing, due |-> due],
         UpdateLast(new)
  PROVE  /\ lastSector' \in Nat /\ bufferInit' \in Nat /\ bufferInit' % RotationTime = 0
         /\ bufferInit' <= due /\ due \in Nat
         /\ RequestInTime'
<1> DEFINE R == RotationTime
           seek == SeekTo(new)
           rot == Rotation(new)
           T == now + seek + rot
           b == bufferInit
           c == bufferInit'
<1>1. R \in Nat \ {0} /\ SectorsPerTrack \in Nat \ {0} /\ MaxDiskTicks \in Nat
  BY DiskAssumption
<1>2. seek \in Nat
  <2>1. /\ new \div SectorsPerTrack \in Int /\ lastSector \div SectorsPerTrack \in Int
        /\ SeekTime \in Nat \ {0}
    BY <1>1, Division, DiskAssumption
  <2>2. Distance(new \div SectorsPerTrack, lastSector \div SectorsPerTrack) \in Nat
    BY <2>1 DEF Distance
  <2> QED  BY <2>1, <2>2 DEF SeekTo
<1> HIDE DEF seek
<1>3. rot \in 0 .. R - 1 /\ \E q \in Nat : T = q * R
  <2> DEFINE y == now + seek
  <2>1. y \in Nat
    BY <1>2
  <2>2. rot = (-y) % R /\ T = y + rot
    BY DEF Rotation, seek
  <2> HIDE DEF y, rot, T, R
  <2> QED  BY <2>1, <2>2, <1>1, NextBoundary
<1> HIDE DEF rot
<1>4. PICK q \in Nat : T = q * R
  BY <1>3
<1>5. T \in Nat /\ now <= T /\ T \div R = q /\ T % R = 0 /\ (seek = 0 => T < now + R)
  BY <1>1, <1>2, <1>3, <1>4, Multiple
<1>6. PICK p \in Nat : b = p * R /\ b \div R = p
  <2>1. b \div R \in Int /\ b = (b \div R) * R
    BY <1>1, Divisible
  <2> DEFINE p == b \div R
  <2> HIDE DEF p
  <2>2. ~(p < 0)
    <3>1. ASSUME p < 0
          PROVE  FALSE
      <4>1. p * R + R <= 0 * R
        BY <1>1, <2>1, <3>1, TimesStrict DEF p
      <4> QED  BY <4>1, <1>1, <2>1 DEF p
    <3> QED  BY <3>1
  <2> QED  BY <2>1, <2>2 DEF p
<1>7. c = IF seek = 0 THEN b ELSE T
  BY DEF UpdateLast, seek, rot
<1>8. lastSector' = new
  BY DEF UpdateLast
<1>9. c \in Nat /\ c % R = 0 /\ c <= T
  BY <1>5, <1>7
<1> HIDE DEF T, c, b, R
<1> DEFINE Ends(e) ==
      /\ e \in 0 .. MaxDiskTicks
      /\ e % R = 0
      /\ (e \div R - 1 - new) % SectorsPerTrack = 0
      /\ e - R >= c
\* A pass that begins at sector boundary f.
<1>10. ASSUME NEW f \in Nat, (f - new) % SectorsPerTrack = 0, f * R >= c,
              f * R + R <= MaxDiskTicks
       PROVE  f * R + R \in Nat /\ Ends(f * R + R) /\ (f * R + R) - R = f * R
  <2>1. f * R + R = (f + 1) * R /\ f * R \in Nat /\ f + 1 \in Int
    BY <1>1
  <2>2. (f * R + R) % R = 0 /\ (f * R + R) \div R = f + 1
    BY <1>1, <2>1, Multiple
  <2>3. f + 1 - 1 - new = f - new
    OBVIOUS
  <2> QED  BY <1>1, <1>10, <2>1, <2>2, <2>3
<1>11. ASSUME NEW e \in Int, Ends(e)
       PROVE  \E f \in Int : f * R = e - R /\ (f - new) % SectorsPerTrack = 0
  <2>1. e \div R \in Int /\ e = (e \div R) * R
    BY <1>1, <1>11, Divisible
  <2> DEFINE f == e \div R - 1
  <2>2. f \in Int /\ f * R = e - R
    BY <1>1, <2>1
  <2> QED  BY <1>11, <2>2
<1>12. CASE ~writing /\ seek = 0 /\ Buffered(new, T)
  <2>1. due = now + R
    BY <1>12 DEF ComputeLatency, seek, rot, T, R
  <2> DEFINE k == ModuloDiff(new, p)
  <2>2. k \in 0 .. SectorsPerTrack - 1 /\ (p + k - new) % SectorsPerTrack = 0
    <3>1. p \in Int /\ new \in Int
      OBVIOUS
    <3> QED  BY <3>1, NextPass
  <2>3. (T - b) \div R = q - p
    <3>1. T - b = (q - p) * R /\ q - p \in Int
      BY <1>1, <1>4, <1>6
    <3> QED  BY <3>1, <1>1, Multiple
  <2>4. q - p > k
    BY <1>12, <1>6, <2>3 DEF Buffered, b, R
  <2> HIDE DEF k
  <2>5. (p + k) * R + R <= T /\ b <= (p + k) * R
    <3>1. (p + k) * R + R <= q * R
      BY <1>1, <2>2, <2>4, TimesStrict
    <3>2. p * R <= (p + k) * R
      BY <1>1, <2>2, TimesMonotonic
    <3> QED  BY <3>1, <3>2, <1>4, <1>6
  <2> DEFINE e == (p + k) * R + R
  <2>6. e \in Nat /\ Ends(e) /\ e <= due
    <3>1. p + k \in Nat /\ c = b /\ (p + k) - new = p + k - new
      BY <1>7, <1>12, <2>2
    <3>2. (p + k) * R >= c /\ e <= MaxDiskTicks /\ e <= due
      <4>1. (p + k) * R \in Nat
        BY <1>1, <3>1
      <4> QED  BY <4>1, <1>1, <1>5, <1>9, <1>12, <2>1, <2>5, <3>1
    <3> QED  BY <3>1, <3>2, <2>2, <1>10
  <2>7. \A x \in Int : Ends(x) /\ x - R >= now => due <= x
    BY <1>1, <2>1
  <2>8. due \in Nat /\ c <= due
    BY <1>1, <1>5, <1>9, <1>12, <2>1
  <2> QED  BY <1>8, <1>9, <1>12, <2>6, <2>7, <2>8 DEF RequestInTime, Passing, R, c
<1>13. CASE ~(~writing /\ seek = 0 /\ Buffered(new, T))
  <2> DEFINE k == ModuloDiff(new, q)
  <2>1. /\ k \in 0 .. SectorsPerTrack - 1 /\ (q + k - new) % SectorsPerTrack = 0
        /\ \A f \in Int : f >= q /\ (f - new) % SectorsPerTrack = 0 => f >= q + k
    <3>1. q \in Int /\ new \in Int
      OBVIOUS
    <3> QED  BY <3>1, NextPass
  <2>2. ComputeLatency(new, writing) = T - now + k * R + R
    BY <1>5, <1>13 DEF ComputeLatency, seek, rot, T, R
  <2> HIDE DEF k
  <2>3. due = (q + k) * R + R /\ T <= (q + k) * R
    <3>1. (q + k) * R = q * R + k * R /\ k * R \in Nat
      BY <1>1, <2>1
    <3> DEFINE z == k * R
    <3>2. due = now + (T - now + z + R) /\ (q + k) * R = T + z /\ z \in Nat
      BY <3>1, <2>2, <1>4
    <3> HIDE DEF z
    <3> QED  BY <3>2, <1>1, <1>5
  <2>4. q + k \in Nat /\ (q + k) - new = q + k - new
    BY <2>1
  <2>5. due \in Nat /\ Ends(due) /\ due - R = (q + k) * R
    <3>1. (q + k) * R >= c /\ (q + k) * R + R <= MaxDiskTicks
      <4>1. (q + k) * R \in Nat
        BY <1>1, <2>4
      <4> QED  BY <4>1, <1>5, <1>9, <2>3
    <3>2. ((q + k) - new) % SectorsPerTrack = 0
      BY <2>1, <2>4
    <3> QED  BY <3>1, <3>2, <1>10, <2>3, <2>4
  <2>6. ASSUME NEW x \in Int, Ends(x), x - R >= now
        PROVE  due <= x
    <3>1. PICK f \in Int : f * R = x - R /\ (f - new) % SectorsPerTrack = 0
      BY <1>11, <2>6
    <3>2. ~(f < q)
      <4>1. ASSUME f < q
            PROVE  FALSE
        <5>1. f * R + R <= T
          BY <1>1, <1>4, <4>1, TimesStrict
        <5>2. seek # 0 => c = T
          BY <1>7
        <5> QED  BY <5>1, <5>2, <1>1, <1>5, <2>6, <3>1
      <4> QED  BY <4>1
    <3>3. f >= q + k
      BY <2>1, <3>1, <3>2
    <3>4. (q + k) * R <= f * R
      BY <1>1, <2>4, <3>3, TimesMonotonic
    <3> QED  BY <3>1, <3>4, <1>1, <2>3, <2>4
  <2>7. now <= due - R /\ c <= due
    BY <1>1, <1>5, <1>9, <2>3, <2>5
  <2> QED  BY <1>8, <1>9, <2>5, <2>6, <2>7 DEF RequestInTime, Passing, R, c
<1> QED  BY <1>12, <1>13

\* Every step keeps what is known of the head, the track buffer and the time of the request.
LEMMA HeadStepInv ==
  ASSUME DiskInv, HeadInv, [DiskNext]_diskVars
  PROVE  HeadInv'
<1> DEFINE Req == [writing : BOOLEAN, sector : Sectors, data : Data \cup {Blank}]
<1>1. ASSUME UNCHANGED <<active, diskPending, lastSector, bufferInit, sent>>,
             diskTicks' = diskTicks \/ diskTicks' = diskTicks + 1,
             diskRequest' \in [Callers -> Req]
      PROVE  HeadInv'
  BY <1>1 DEF HeadInv, RequestInTime, Passing
<1>2. ASSUME NEW t \in Callers, NEW r \in DiskRequests, CallDisk(t, r)
      PROVE  HeadInv'
  <2>1. r \in Req
    BY DEF DiskRequests
  <2>2. diskRequest' \in [Callers -> Req]
    BY <1>2, <2>1 DEF CallDisk, HeadInv
  <2> QED  BY <1>1, <1>2, <2>2 DEF CallDisk, headVars
<1>3. ASSUME NEW t \in Callers,
             LockWoken(t) \/ AwaitInterrupt(t) \/ RequestWoken(t) \/ ReleaseDisk(t)
      PROVE  HeadInv'
  BY <1>1, <1>3 DEF LockWoken, AwaitInterrupt, RequestWoken, ReleaseDisk, headVars, HeadInv
<1>4. ASSUME NEW t \in Callers, SendRequest(t)
      PROVE  HeadInv'
  <2>1. ~active /\ diskPending = {} /\ active' = TRUE
    BY <1>4, SendInv DEF DiskInv, DiskAnswers, SendRequest
  <2>2. /\ diskTicks \in Nat /\ lastSector \in Nat /\ bufferInit \in Nat
        /\ bufferInit % RotationTime = 0 /\ bufferInit <= diskTicks
        /\ diskRequest[t] \in Req
    BY <2>1 DEF HeadInv
  <2> DEFINE new == diskRequest[t].sector
             writing == diskRequest[t].writing
             due == diskTicks + ComputeLatency(new, writing)
  <2>3. new \in Nat /\ writing \in BOOLEAN
    <3>1. new \in Sectors /\ writing \in BOOLEAN
      BY <2>2
    <3> QED  BY <3>1 DEF Sectors
  <2>4. /\ due <= MaxDiskTicks /\ UpdateLast(new) /\ diskPending' = diskPending \cup {due}
        /\ sent' = [at |-> diskTicks, sector |-> new, writing |-> writing, due |-> due]
        /\ UNCHANGED <<diskTicks, diskRequest>>
    BY <1>4 DEF SendRequest
  <2> HIDE DEF new, writing
  <2>5. /\ lastSector' \in Nat /\ bufferInit' \in Nat /\ bufferInit' % RotationTime = 0
        /\ bufferInit' <= due /\ due \in Nat
        /\ RequestInTime'
    BY <2>2, <2>3, <2>4, LatencyInTime
  <2> HIDE DEF due
  <2>6. sent'.due = due /\ diskPending' = {sent'.due}
    BY <2>1, <2>4
  <2> QED  BY <2>1, <2>2, <2>4, <2>5, <2>6 DEF HeadInv
<1>5. CASE DiskInterrupt
  <2>1. active /\ active' = FALSE /\ UNCHANGED <<headVars, diskRequest>>
    BY <1>5 DEF DiskInv, DiskAnswers, DiskInterrupt
  <2>2. bufferInit <= diskTicks
    <3>1. PICK due \in diskPending : due <= diskTicks
      BY <1>5 DEF DiskInterrupt
    <3>2. /\ due = sent.due /\ due \in Nat /\ bufferInit <= sent.due
          /\ bufferInit \in Nat /\ diskTicks \in Nat
      BY <2>1, <3>1 DEF HeadInv
    <3> QED  BY <3>1, <3>2
  <2> QED  BY <2>1, <2>2 DEF HeadInv, headVars
<1>6. CASE DiskTick \/ UNCHANGED diskVars
  BY <1>1, <1>6 DEF DiskTick, diskVars, headVars, HeadInv
<1> QED  BY <1>2, <1>3, <1>4, <1>5, <1>6 DEF DiskNext, InDiskCall

\* HeadPassed for any geometry and speed of the disk: a request is finished when its
\* sector has passed under the head, a write at the first such pass and a read no
\* later, so that the track buffer promises nothing it has not seen.
THEOREM DiskHead == DiskSpec => []HeadPassed
<1>1. HeadInv => HeadPassed
  BY DEF HeadInv, HeadPassed, RequestInTime, Passing
<1> QED  BY <1>1, HeadInitInv, HeadStepInv, DiskInvariant, PTL DEF DiskSpec

-----------------------------------------------------------------------------
(***************************************************************************)
(* The disk as the abstract one.                                           *)
(***************************************************************************)

StageFunction == [t \in Callers |-> StageOf(t)]

\* A step that takes one thread to another stage and leaves the others where
\* they are is a change of the mapped stage at that thread.
LEMMA StageMoves ==
  ASSUME NEW t \in Callers, NEW to, StageOf(t)' = to,
         \A u \in Callers : u # t => StageOf(u)' = StageOf(u)
  PROVE  StageFunction' = [StageFunction EXCEPT ![t] = to]
BY DEF StageFunction

\* ReadSector and WriteSector around the disk: the lock.
LEMMA LockStepAbstract ==
  ASSUME DiskInv, NEW t \in Callers,
         (\E r \in DiskRequests : CallDisk(t, r)) \/ LockWoken(t) \/ ReleaseDisk(t)
  PROVE  [Abstract!AbsDiskNext]_(Abstract!absVars)
<1> USE DEF DiskInv, DiskTypes, DiskPlaces, DiskGoto, StageOf
<1>1. ASSUME NEW r \in DiskRequests, CallDisk(t, r)
      PROVE  Abstract!Call(t, r)
  <2>1. diskPc[t] = "out" /\ diskPc' \in {[diskPc EXCEPT ![t] = p] : p \in {"in", "acquire"}}
    BY <1>1 DEF CallDisk
  <2>2. /\ UNCHANGED <<active, sectors, buffer>>
        /\ diskRequest' = [diskRequest EXCEPT ![t] = r]
    BY <1>1 DEF CallDisk
  <2>3. StageFunction' = [StageFunction EXCEPT ![t] = "called"] /\ StageFunction[t] = "idle"
    BY <2>1, <2>2, StageMoves DEF StageFunction
  <2> QED  BY <2>2, <2>3 DEF Abstract!Call, Abstract!Stage, StageFunction
<1>2. CASE LockWoken(t)
  <2>1. diskPc[t] = "acquire" /\ diskPc' = [diskPc EXCEPT ![t] = "in"]
    BY <1>2 DEF LockWoken
  <2>2. UNCHANGED <<active, sectors, buffer, diskRequest>>
    BY <1>2 DEF LockWoken
  <2>3. \A u \in Callers : StageOf(u)' = StageOf(u)
    BY <2>1, <2>2
  <2>4. StageFunction' = StageFunction
    BY <2>3 DEF StageFunction
  <2> QED  BY <2>2, <2>4 DEF Abstract!absVars, StageFunction
<1>3. CASE ReleaseDisk(t)
  <2>1. diskPc[t] = "served" /\ diskPc' = [diskPc EXCEPT ![t] = "out"]
    BY <1>3 DEF ReleaseDisk
  <2>2. UNCHANGED <<active, sectors, buffer, diskRequest>>
    BY <1>3 DEF ReleaseDisk
  <2>3. StageFunction' = [StageFunction EXCEPT ![t] = "idle"] /\ StageFunction[t] = "finished"
    BY <2>1, <2>2, StageMoves DEF StageFunction
  <2>4. Abstract!Return(t)
    BY <2>2, <2>3 DEF Abstract!Return, Abstract!Stage, StageFunction
  <2> QED  BY <2>4 DEF Abstract!AbsDiskNext
<1>4. ASSUME NEW r \in DiskRequests, Abstract!Call(t, r)
      PROVE  Abstract!AbsDiskNext
  BY <1>4 DEF Abstract!AbsDiskNext, Abstract!Requests, DiskRequests
<1> QED  BY <1>1, <1>2, <1>3, <1>4

\* The request is the abstract disk's from ReadRequest or WriteRequest on: it
\* has no other.
LEMMA SendAbstract ==
  ASSUME DiskInv, NEW t \in Callers, SendRequest(t)
  PROVE  Abstract!Start(t)
<1> USE DEF DiskInv, DiskTypes, DiskPlaces, StageOf
<1>1. ~active
  BY SendInv
<1>2. /\ diskPc[t] = "in" /\ diskPc' = [diskPc EXCEPT ![t] = "sent"]
      /\ active' /\ UNCHANGED diskRequest
  BY DEF SendRequest, DiskGoto
<1>3. \A u \in Callers : u # t => ~Awaits(u)
  BY <1>2 DEF DiskLocked, Inside, Awaits
<1>4. StageFunction' = [StageFunction EXCEPT ![t] = "busy"] /\ StageFunction[t] = "called"
  <2>1. StageOf(t)' = "busy" /\ StageOf(t) = "called"
    BY <1>2
  <2>2. \A u \in Callers : u # t => StageOf(u)' = StageOf(u)
    BY <1>2, <1>3 DEF Awaits
  <2> QED  BY <2>1, <2>2, StageMoves DEF StageFunction
<1>5. \A u \in Callers : StageFunction[u] # "busy"
  BY <1>1 DEF StageFunction
<1>6. IF diskRequest[t].writing
      THEN sectors' = [sectors EXCEPT ![diskRequest[t].sector] = diskRequest[t].data]
           /\ UNCHANGED buffer
      ELSE buffer' = [buffer EXCEPT ![t] = sectors[diskRequest[t].sector]]
           /\ UNCHANGED sectors
  BY DEF SendRequest
<1> QED  BY <1>2, <1>4, <1>5, <1>6 DEF Abstract!Start, Abstract!Stage, StageFunction

\* The interrupt finishes the request of the one thread that awaits it.
LEMMA InterruptAbstract ==
  ASSUME DiskInv, DiskInterrupt
  PROVE  \E t \in Callers : Abstract!Complete(t)
<1> USE DEF DiskInv, DiskTypes, DiskPlaces, StageOf
<1>1. active /\ ~active' /\ UNCHANGED <<diskPc, diskRequest, sectors, buffer>>
  BY DEF DiskInterrupt, DiskAnswers
<1>2. PICK t \in Callers : Awaits(t)
  BY <1>1 DEF DiskAnswers
<1>3. \A u \in Callers : u # t => ~Awaits(u)
  BY <1>2 DEF DiskLocked, Inside, Awaits
<1>4. StageFunction' = [StageFunction EXCEPT ![t] = "finished"] /\ StageFunction[t] = "busy"
  <2>1. StageOf(t)' = "finished" /\ StageOf(t) = "busy"
    BY <1>1, <1>2 DEF Awaits
  <2>2. \A u \in Callers : u # t => StageOf(u)' = StageOf(u)
    BY <1>1, <1>3 DEF Awaits
  <2> QED  BY <2>1, <2>2, StageMoves DEF StageFunction
<1> QED  BY <1>1, <1>4 DEF Abstract!Complete, Abstract!Stage, StageFunction

\* A thread gets through the semaphore only when its request is finished.
LEMMA AwaitAbstract ==
  ASSUME DiskInv, NEW t \in Callers, AwaitInterrupt(t) \/ RequestWoken(t)
  PROVE  UNCHANGED Abstract!absVars
<1> USE DEF DiskInv, DiskTypes, DiskPlaces, StageOf, DiskGoto
<1>1. UNCHANGED <<active, sectors, buffer, diskRequest>> /\ Awaits(t)
  BY DEF AwaitInterrupt, RequestWoken, Awaits
<1>2. \/ diskPc' = [diskPc EXCEPT ![t] = "wait"]
      \/ diskPc' = [diskPc EXCEPT ![t] = "served"] /\ diskValue["semaphore"] > 0
  BY DEF AwaitInterrupt, RequestWoken, DiskSemaphore!PassThrough, DiskSemaphore!Complete
<1>3. diskPc' = [diskPc EXCEPT ![t] = "served"] => ~active
  BY <1>1, <1>2 DEF DiskAnswers, Awaits
<1>4. \A u \in Callers : StageOf(u)' = StageOf(u)
  BY <1>1, <1>2, <1>3 DEF Awaits
<1>5. StageFunction' = StageFunction
  BY <1>4 DEF StageFunction
<1> HIDE DEF StageOf
<1> QED  BY <1>1, <1>5 DEF Abstract!absVars, StageFunction

\* Every step of the disk maps to a step of the abstract one or to none.
LEMMA DiskStepAbstract ==
  ASSUME DiskInv, [DiskNext]_diskVars
  PROVE  [Abstract!AbsDiskNext]_(Abstract!absVars)
<1>1. CASE DiskTick \/ UNCHANGED diskVars
  <2>1. UNCHANGED <<active, diskPc, sectors, diskRequest, buffer>>
    BY <1>1 DEF DiskTick, diskVars
  <2>2. \A u \in Callers : StageOf(u)' = StageOf(u)
    BY <2>1 DEF StageOf
  <2>3. StageFunction' = StageFunction
    BY <2>2 DEF StageFunction
  <2> QED  BY <2>1, <2>3 DEF Abstract!absVars, StageFunction
<1>2. ASSUME NEW t \in Callers, SendRequest(t)
      PROVE  Abstract!AbsDiskNext
  BY <1>2, SendAbstract DEF Abstract!AbsDiskNext
<1>3. CASE DiskInterrupt
  BY <1>3, InterruptAbstract DEF Abstract!AbsDiskNext
<1>4. ASSUME NEW t \in Callers, InDiskCall(t) \/ \E r \in DiskRequests : CallDisk(t, r)
      PROVE  [Abstract!AbsDiskNext]_(Abstract!absVars)
  BY <1>2, <1>4, LockStepAbstract, AwaitAbstract DEF InDiskCall
<1> QED  BY <1>1, <1>3, <1>4 DEF DiskNext

\* The synchronous disk implements the abstract disk, but for liveness:
\* requests are carried out one at a time, each once, and a caller returns only
\* when the disk has finished with its own.
THEOREM DiskRefinement == DiskSpec => Abstract!AbsDiskInit /\ [][Abstract!AbsDiskNext]_(Abstract!absVars)
<1>1. DiskInit => Abstract!AbsDiskInit
  BY DEF DiskInit, Abstract!AbsDiskInit, StageOf
<1>2. DiskInv /\ [DiskNext]_diskVars => [Abstract!AbsDiskNext]_(Abstract!absVars)
  BY DiskStepAbstract
<1> QED  BY <1>1, <1>2, DiskInvariant, PTL DEF DiskSpec

-----------------------------------------------------------------------------
(***************************************************************************)
(* The console.                                                            *)
(***************************************************************************)

ConThreads == Readers \cup Writers

ConPlaces == {"out", "acquire", "locked", "await", "available", "read", "put", "shown"}

\* The types the argument needs; the characters written do not matter.
ConTypes ==
  /\ typed \in Seq(Keys) /\ taken \in Nat /\ taken <= Len(typed)
  /\ incoming \in Nat /\ polls \in 0..1
  /\ putBusy \in BOOLEAN /\ putPending \in 0..1
  /\ conValue \in [ConSems -> 0..1]
  /\ conWaiting \in [ConSems -> SUBSET ConThreads]
  /\ conPc \in [ConThreads -> ConPlaces]

Ended == \E i \in 1..taken : typed[i] \in {"ctrlD", "end"}

HasLockIn(t) == conPc[t] \in {"locked", "await", "available"}
HasLockOut(t) == conPc[t] \in {"locked", "put", "await", "shown"}
MayTake(t) == conPc[t] = "available"
AwaitsPut(t) == conPc[t] \in {"put", "await"}

\* The lock of ConsoleToKernel, and who waits for what.
InputLocked ==
  /\ \A t, u \in Readers : HasLockIn(t) /\ HasLockIn(u) => t = u
  /\ conValue["lockIn"] = 0 <=> \E t \in Readers : HasLockIn(t)
  /\ \A t \in ConThreads : t \in conWaiting["lockIn"] <=> t \in Readers /\ conPc[t] = "acquire"
  /\ \A t \in ConThreads : t \in conWaiting["waitIn"] <=> t \in Readers /\ conPc[t] = "await"

\* The keyboard: a poll, or an announcement, or a reader about to take it, or
\* nothing any more after EOF.
KeyboardOnce ==
  /\ polls = 1 => ~Ended /\ incoming = EOF
  /\ polls = 1 => conValue["waitIn"] = 0
  /\ polls = 1 \/ conValue["waitIn"] = 1 => \A t \in Readers : ~MayTake(t)
  /\ polls = 0 /\ conValue["waitIn"] = 0 => Ended \/ \E t \in Readers : MayTake(t)
  /\ incoming # EOF => incoming = taken /\ ~Ended
  /\ conValue["waitIn"] = 1 \/ (\E t \in Readers : MayTake(t)) => Ended \/ incoming # EOF

OutputLocked ==
  /\ \A t, u \in Writers : HasLockOut(t) /\ HasLockOut(u) => t = u
  /\ conValue["lockOut"] = 0 <=> \E t \in Writers : HasLockOut(t)
  /\ \A t \in ConThreads : t \in conWaiting["lockOut"] <=> t \in Writers /\ conPc[t] = "acquire"
  /\ \A t \in ConThreads : t \in conWaiting["waitOut"] <=> t \in Writers /\ conPc[t] = "await"

\* The display: an interrupt to come, and then a V, for the one that awaits it.
DisplayOnce ==
  /\ putBusy <=> putPending = 1
  /\ putPending = 1 => conValue["waitOut"] = 0 /\ \E t \in Writers : AwaitsPut(t)
  /\ putPending = 0 => (conValue["waitOut"] = 1 <=> \E t \in Writers : AwaitsPut(t))

ConInv == ConTypes /\ InputLocked /\ KeyboardOnce /\ OutputLocked /\ DisplayOnce

\* The console starts with nothing read, nothing written and nobody waiting.
LEMMA ConsoleInitInv == ConsoleInit => ConInv
<1> SUFFICES ASSUME ConsoleInit PROVE ConInv
  OBVIOUS
<1>1. /\ typed = <<>> /\ taken = 0 /\ incoming = 0 /\ polls = 1
      /\ putBusy = FALSE /\ putPending = 0
      /\ conPc = [t \in ConThreads |-> "out"]
      /\ conWaiting = [s \in ConSems |-> {}]
      /\ conValue = [s \in ConSems |-> IF s \in {"lockIn", "lockOut"} THEN 1 ELSE 0]
  BY DEF ConsoleInit, ConSemaphore!AbsInit, ConThreads, EOF
<1>2. /\ conValue["lockIn"] = 1 /\ conValue["lockOut"] = 1
      /\ conValue["waitIn"] = 0 /\ conValue["waitOut"] = 0
  BY <1>1 DEF ConSems
<1>3. \A t \in ConThreads : conPc[t] = "out"
  BY <1>1
<1>4. ConTypes
  <2>1. conPc \in [ConThreads -> ConPlaces]
    BY <1>1 DEF ConPlaces
  <2>2. conWaiting \in [ConSems -> SUBSET ConThreads]
    BY <1>1
  <2>3. conValue \in [ConSems -> 0..1]
    BY <1>1
  <2>4. typed \in Seq(Keys) /\ taken <= Len(typed)
    BY <1>1
  <2>5. putBusy \in BOOLEAN
    BY <1>1
  <2> QED  BY <1>1, <2>1, <2>2, <2>3, <2>4, <2>5 DEF ConTypes
<1>5. InputLocked /\ OutputLocked
  BY <1>1, <1>2, <1>3 DEF InputLocked, OutputLocked, HasLockIn, HasLockOut, ConSems, ConThreads
<1>6. KeyboardOnce /\ DisplayOnce
  BY <1>1, <1>2, <1>3 DEF KeyboardOnce, DisplayOnce, MayTake, AwaitsPut, Ended, EOF, ConThreads
<1> QED  BY <1>4, <1>5, <1>6 DEF ConInv

\* Typing changes nothing of what has been read.
LEMMA TypeInv ==
  ASSUME ConInv, NEW k \in Keys, Type(k)
  PROVE  ConInv'
<1>1. typed' = Append(typed, k) /\ UNCHANGED <<taken, incoming, polls>>
      /\ UNCHANGED <<putBusy, putPending, conValue, conWaiting, conPc>>
  BY DEF Type, outputVars
<1>2. typed \in Seq(Keys) /\ taken \in Nat /\ taken <= Len(typed)
  BY DEF ConInv, ConTypes
<1>3. typed' \in Seq(Keys) /\ taken <= Len(typed')
  BY <1>1, <1>2
<1>4. \A i \in 1..taken : typed'[i] = typed[i]
  BY <1>1, <1>2
<1>5. Ended' <=> Ended
  BY <1>1, <1>4 DEF Ended
<1>6. ConTypes'
  BY <1>1, <1>3 DEF ConInv, ConTypes
<1>7. KeyboardOnce'
  BY <1>1, <1>5 DEF ConInv, KeyboardOnce, MayTake
<1> QED  BY <1>1, <1>6, <1>7 DEF ConInv, InputLocked, OutputLocked, DisplayOnce,
           HasLockIn, HasLockOut, AwaitsPut

\* The poll reads one key more and announces it.
LEMMA PollInv ==
  ASSUME ConInv, Poll
  PROVE  ConInv'
<1>1. CASE taken = Len(typed)
  <2>1. UNCHANGED <<typed, taken, incoming, polls, putBusy, putPending,
                    conValue, conWaiting, conPc>>
    BY <1>1 DEF Poll, outputVars
  <2> QED  BY <2>1 DEF ConInv, ConTypes, InputLocked, KeyboardOnce, OutputLocked, DisplayOnce,
             HasLockIn, HasLockOut, MayTake, AwaitsPut, Ended
<1>2. CASE taken # Len(typed)
  <2>1. /\ polls = 1 /\ polls' = 0 /\ taken' = taken + 1
        /\ typed[taken + 1] \in {"char", "return"} => incoming' = taken + 1
        /\ typed[taken + 1] \notin {"char", "return"} => incoming' = incoming
        /\ UNCHANGED <<typed, putBusy, putPending, conWaiting, conPc>>
        /\ conValue' = [conValue EXCEPT !["waitIn"] = @ + 1]
    BY <1>2 DEF Poll, outputVars, ConSemaphore!AbsV, ConInv, ConTypes
  <2>2. /\ conValue \in [ConSems -> 0..1] /\ conValue["waitIn"] = 0
        /\ ~Ended /\ incoming = 0 /\ \A t \in Readers : ~MayTake(t)
    BY <2>1 DEF ConInv, ConTypes, KeyboardOnce, EOF
  <2>3. /\ conValue' \in [ConSems -> 0..1] /\ conValue'["waitIn"] = 1
        /\ \A s \in {"lockIn", "lockOut", "waitOut"} : conValue'[s] = conValue[s]
    BY <2>1, <2>2 DEF ConSems
  <2>4. typed \in Seq(Keys) /\ taken \in Nat /\ taken + 1 <= Len(typed)
    BY <1>2 DEF ConInv, ConTypes
  <2>5. typed[taken + 1] \in Keys
    BY <2>4
  <2>6. Ended' <=> typed[taken + 1] \in {"ctrlD", "end"}
    BY <2>1, <2>2, <2>4 DEF Ended
  <2>7. incoming' # 0 <=> ~Ended'
    BY <2>1, <2>2, <2>4, <2>5, <2>6 DEF Keys
  <2>8. incoming' # 0 => incoming' = taken'
    BY <2>1, <2>2
  <2>9. ConTypes'
    BY <2>1, <2>2, <2>3, <2>4 DEF ConInv, ConTypes
  <2>10. KeyboardOnce'
    BY <2>1, <2>2, <2>3, <2>7, <2>8 DEF KeyboardOnce, MayTake, EOF
  <2> QED  BY <2>1, <2>3, <2>9, <2>10 DEF ConInv, InputLocked, OutputLocked, DisplayOnce,
             HasLockIn, HasLockOut, AwaitsPut
<1> QED  BY <1>1, <1>2

\* A step of the readers leaves the writers' part alone.
LEMMA OutputUntouched ==
  ASSUME ConInv, UNCHANGED <<putBusy, putPending>>,
         conValue'["lockOut"] = conValue["lockOut"],
         conValue'["waitOut"] = conValue["waitOut"],
         conWaiting'["lockOut"] = conWaiting["lockOut"],
         conWaiting'["waitOut"] = conWaiting["waitOut"],
         \A t \in Writers : conPc'[t] = conPc[t]
  PROVE  (OutputLocked /\ DisplayOnce)'
BY DEF ConInv, OutputLocked, DisplayOnce, HasLockOut, AwaitsPut, ConThreads

\* Nor does a step of the writers disturb the readers.
LEMMA InputUntouched ==
  ASSUME ConInv, UNCHANGED <<typed, taken, incoming, polls>>,
         conValue'["lockIn"] = conValue["lockIn"],
         conValue'["waitIn"] = conValue["waitIn"],
         conWaiting'["lockIn"] = conWaiting["lockIn"],
         conWaiting'["waitIn"] = conWaiting["waitIn"],
         \A t \in Readers : conPc'[t] = conPc[t]
  PROVE  (InputLocked /\ KeyboardOnce)'
<1>1. Ended' <=> Ended
  BY DEF Ended
<1>2. KeyboardOnce'
  BY <1>1 DEF ConInv, KeyboardOnce, MayTake
<1>3. InputLocked'
  BY DEF ConInv, InputLocked, HasLockIn, ConThreads
<1> QED  BY <1>2, <1>3

\* GetChar: into the lock, and past the semaphore.
LEMMA ReadStepInv ==
  ASSUME ConInv, NEW t \in Readers,
         CallGetChar(t) \/ LockInWoken(t) \/ AwaitChar(t) \/ CharWoken(t)
  PROVE  ConInv'
<1>1. /\ UNCHANGED <<typed, taken, incoming, polls, putBusy, putPending>>
      /\ t \notin Writers /\ t \in ConThreads
  BY ConsoleAssumption DEF CallGetChar, LockInWoken, AwaitChar, CharWoken, inputVars, outputVars,
     ConThreads
<1> DEFINE
      Passed(s) == conValue[s] = 1 /\ conValue' = [conValue EXCEPT ![s] = 0]
      Slept(s) == /\ conValue[s] = 0 /\ UNCHANGED conValue
                  /\ conWaiting' = [conWaiting EXCEPT ![s] = @ \cup {t}]
      Woke(s) == Passed(s) /\ conWaiting' = [conWaiting EXCEPT ![s] = @ \ {t}]
      At(place) == conPc' = [conPc EXCEPT ![t] = place]
<1>2. \/ conPc[t] \in {"out", "read"} /\ Passed("lockIn") /\ UNCHANGED conWaiting /\ At("locked")
      \/ conPc[t] \in {"out", "read"} /\ Slept("lockIn") /\ At("acquire")
      \/ conPc[t] = "acquire" /\ Woke("lockIn") /\ At("locked")
      \/ conPc[t] = "locked" /\ Passed("waitIn") /\ UNCHANGED conWaiting /\ At("available")
      \/ conPc[t] = "locked" /\ Slept("waitIn") /\ At("await")
      \/ conPc[t] = "await" /\ Woke("waitIn") /\ At("available")
  <2>1. \A s \in ConSems : conValue[s] > 0 => conValue[s] = 1 /\ conValue[s] - 1 = 0
    BY DEF ConInv, ConTypes
  <2>2. \A s \in ConSems : /\ ConSemaphore!PassThrough(t, s) => Passed(s) /\ UNCHANGED conWaiting
                           /\ ConSemaphore!Await(t, s) => Slept(s)
                           /\ ConSemaphore!Complete(t, s) => Woke(s)
    BY <2>1 DEF ConSemaphore!PassThrough, ConSemaphore!Await, ConSemaphore!Complete
  <2> QED  BY <2>2 DEF CallGetChar, LockInWoken, AwaitChar, CharWoken, TryP, ConGoto, ConSems
<1>3. ConTypes'
  BY <1>1, <1>2 DEF ConInv, ConTypes, ConSems, ConPlaces
<1>4. InputLocked'
  BY <1>1, <1>2 DEF ConInv, ConTypes, InputLocked, HasLockIn, ConSems, ConThreads
<1>5. KeyboardOnce'
  <2>1. Ended' <=> Ended
    BY <1>1 DEF Ended
  <2> QED  BY <1>1, <1>2, <2>1 DEF ConInv, ConTypes, InputLocked, HasLockIn, KeyboardOnce, MayTake,
             ConSems, ConThreads, EOF
<1>6. (OutputLocked /\ DisplayOnce)'
  <2>1. \A s \in {"lockOut", "waitOut"} :
           conValue'[s] = conValue[s] /\ conWaiting'[s] = conWaiting[s]
    BY <1>2 DEF ConInv, ConTypes, ConSems
  <2>2. \A u \in Writers : conPc'[u] = conPc[u]
    BY <1>1, <1>2 DEF ConInv, ConTypes, ConThreads
  <2> QED  BY <1>1, <2>1, <2>2, OutputUntouched
<1> QED  BY <1>3, <1>4, <1>5, <1>6 DEF ConInv

\* GetChar takes the character, polls for the next one and releases the lock.
LEMMA TakeCharInv ==
  ASSUME ConInv, NEW t \in Readers, TakeChar(t)
  PROVE  ConInv'
<1> DEFINE next == IF LastOfRead(t, incoming) THEN "out" ELSE "read"
<1>1. /\ UNCHANGED <<typed, taken, putBusy, putPending, conWaiting>>
      /\ conPc[t] = "available" /\ t \notin Writers /\ t \in ConThreads
      /\ polls' = (IF incoming # 0 THEN polls + 1 ELSE polls) /\ incoming' = 0
      /\ conValue' = [conValue EXCEPT !["lockIn"] = @ + 1]
      /\ conPc' = [conPc EXCEPT ![t] = next] /\ next \in {"out", "read"}
  BY ConsoleAssumption DEF TakeChar, outputVars, ConThreads, EOF, ConSemaphore!AbsV, ConGoto
<1>2. /\ conValue["lockIn"] = 0 /\ polls = 0 /\ conValue["waitIn"] = 0
      /\ \A u \in Readers : HasLockIn(u) => u = t
      /\ incoming = 0 <=> Ended
  BY <1>1 DEF ConInv, ConTypes, InputLocked, KeyboardOnce, HasLockIn, MayTake, EOF, ConSems
<1>3. /\ conValue' \in [ConSems -> 0..1] /\ conValue'["lockIn"] = 1
      /\ \A s \in {"waitIn", "lockOut", "waitOut"} : conValue'[s] = conValue[s]
  BY <1>1, <1>2 DEF ConInv, ConTypes, ConSems
<1>4. /\ conPc' \in [ConThreads -> ConPlaces] /\ conPc'[t] \in {"out", "read"}
      /\ \A u \in ConThreads \ {t} : conPc'[u] = conPc[u]
  BY <1>1 DEF ConInv, ConTypes, ConPlaces
<1> HIDE DEF next
<1>5. \A u \in Readers : ~HasLockIn(u)' /\ ~MayTake(u)'
  BY <1>2, <1>4 DEF HasLockIn, MayTake, ConThreads
<1>6. ConTypes'
  BY <1>1, <1>2, <1>3, <1>4 DEF ConInv, ConTypes
<1>7. InputLocked'
  BY <1>1, <1>3, <1>4, <1>5 DEF ConInv, InputLocked
<1>8. KeyboardOnce'
  <2>1. Ended' <=> Ended
    BY <1>1 DEF Ended
  <2> QED  BY <1>1, <1>2, <1>3, <1>5, <2>1 DEF KeyboardOnce, EOF
<1>9. (OutputLocked /\ DisplayOnce)'
  BY <1>1, <1>3, <1>4, OutputUntouched DEF ConThreads
<1> QED  BY <1>6, <1>7, <1>8, <1>9 DEF ConInv

\* PutChar: into the lock, on to the display, past the semaphore and out.
LEMMA WriteStepInv ==
  ASSUME ConInv, NEW t \in Writers,
         CallPutChar(t) \/ LockOutWoken(t) \/ AwaitPut(t) \/ PutWoken(t) \/ ReleaseOut(t)
  PROVE  ConInv'
<1>1. /\ UNCHANGED <<typed, taken, incoming, polls, putBusy, putPending>>
      /\ t \notin Readers /\ t \in ConThreads
  BY ConsoleAssumption DEF CallPutChar, LockOutWoken, AwaitPut, PutWoken, ReleaseOut,
     inputVars, outputVars, ConThreads
<1> DEFINE
      Passed(s) == conValue[s] = 1 /\ conValue' = [conValue EXCEPT ![s] = 0]
      Slept(s) == /\ conValue[s] = 0 /\ UNCHANGED conValue
                  /\ conWaiting' = [conWaiting EXCEPT ![s] = @ \cup {t}]
      Woke(s) == Passed(s) /\ conWaiting' = [conWaiting EXCEPT ![s] = @ \ {t}]
      At(place) == conPc' = [conPc EXCEPT ![t] = place]
<1>2. \/ conPc[t] = "out" /\ Passed("lockOut") /\ UNCHANGED conWaiting /\ At("locked")
      \/ conPc[t] = "out" /\ Slept("lockOut") /\ At("acquire")
      \/ conPc[t] = "acquire" /\ Woke("lockOut") /\ At("locked")
      \/ conPc[t] = "put" /\ Passed("waitOut") /\ UNCHANGED conWaiting /\ At("shown")
      \/ conPc[t] = "put" /\ Slept("waitOut") /\ At("await")
      \/ conPc[t] = "await" /\ Woke("waitOut") /\ At("shown")
      \/ /\ conPc[t] = "shown" /\ At("out") /\ UNCHANGED conWaiting
         /\ conValue["lockOut"] = 0 /\ conValue' = [conValue EXCEPT !["lockOut"] = 1]
  <2>1. \A s \in ConSems : conValue[s] > 0 => conValue[s] = 1 /\ conValue[s] - 1 = 0
    BY DEF ConInv, ConTypes
  <2>2. \A s \in ConSems : /\ ConSemaphore!PassThrough(t, s) => Passed(s) /\ UNCHANGED conWaiting
                           /\ ConSemaphore!Await(t, s) => Slept(s)
                           /\ ConSemaphore!Complete(t, s) => Woke(s)
    BY <2>1 DEF ConSemaphore!PassThrough, ConSemaphore!Await, ConSemaphore!Complete
  <2>3. conPc[t] = "shown" => conValue["lockOut"] = 0
    BY DEF ConInv, OutputLocked, HasLockOut
  <2>4. CASE ReleaseOut(t)
    <3>1. /\ conPc[t] = "shown" /\ At("out") /\ UNCHANGED conWaiting
          /\ conValue' = [conValue EXCEPT !["lockOut"] = conValue["lockOut"] + 1]
      BY <2>4 DEF ReleaseOut, ConSemaphore!AbsV, ConGoto
    <3>2. conValue["lockOut"] = 0 /\ conValue["lockOut"] + 1 = 1
      BY <2>3, <3>1
    <3>3. conValue' = [conValue EXCEPT !["lockOut"] = 1]
      BY <3>1, <3>2
    <3> QED  BY <3>1, <3>2, <3>3
  <2> QED  BY <2>2, <2>4 DEF CallPutChar, LockOutWoken, AwaitPut, PutWoken, TryP, ConGoto, ConSems
<1>3. ConTypes'
  BY <1>1, <1>2 DEF ConInv, ConTypes, ConSems, ConPlaces
<1>4. OutputLocked'
  BY <1>1, <1>2 DEF ConInv, ConTypes, OutputLocked, HasLockOut, ConSems, ConThreads
<1>5. DisplayOnce'
  BY <1>1, <1>2 DEF ConInv, ConTypes, OutputLocked, HasLockOut, DisplayOnce, AwaitsPut,
     ConSems, ConThreads
<1>6. (InputLocked /\ KeyboardOnce)'
  <2>1. \A s \in {"lockIn", "waitIn"} :
           conValue'[s] = conValue[s] /\ conWaiting'[s] = conWaiting[s]
    BY <1>2 DEF ConInv, ConTypes, ConSems
  <2>2. \A u \in Readers : conPc'[u] = conPc[u]
    BY <1>1, <1>2 DEF ConInv, ConTypes, ConThreads
  <2> QED  BY <1>1, <2>1, <2>2, InputUntouched
<1> QED  BY <1>3, <1>4, <1>5, <1>6 DEF ConInv

\* A character goes to the display only when the display is not busy.
LEMMA PutInv ==
  ASSUME ConInv, NEW t \in Writers, Put(t)
  PROVE  ConInv'
<1>1. /\ UNCHANGED <<typed, taken, incoming, polls, conValue, conWaiting>>
      /\ conPc[t] = "locked" /\ conPc' = [conPc EXCEPT ![t] = "put"]
      /\ putBusy' = TRUE /\ putPending' = putPending + 1
      /\ t \notin Readers /\ t \in ConThreads
  BY ConsoleAssumption DEF Put, inputVars, ConGoto, ConThreads
<1>2. /\ \A u \in Writers : HasLockOut(u) => u = t
      /\ putPending = 0 /\ conValue["waitOut"] = 0
  BY <1>1 DEF ConInv, ConTypes, OutputLocked, DisplayOnce, HasLockOut, AwaitsPut, ConSems
<1>3. ConTypes'
  BY <1>1, <1>2 DEF ConInv, ConTypes, ConPlaces
<1>4. OutputLocked'
  BY <1>1, <1>2 DEF ConInv, ConTypes, OutputLocked, HasLockOut, ConThreads
<1>5. DisplayOnce'
  BY <1>1, <1>2 DEF ConInv, ConTypes, DisplayOnce, AwaitsPut
<1>6. (InputLocked /\ KeyboardOnce)'
  <2>1. \A u \in Readers : conPc'[u] = conPc[u]
    BY <1>1 DEF ConInv, ConTypes, ConThreads
  <2> QED  BY <1>1, <2>1, InputUntouched
<1> QED  BY <1>3, <1>4, <1>5, <1>6 DEF ConInv

\* The interrupt of the display finds the writer that caused it.
LEMMA WriteDoneInv ==
  ASSUME ConInv, WriteDone
  PROVE  ConInv'
<1>1. /\ UNCHANGED <<typed, taken, incoming, polls, conWaiting, conPc>>
      /\ putPending = 1 /\ putPending' = 0 /\ putBusy' = FALSE
      /\ conValue' = [conValue EXCEPT !["waitOut"] = conValue["waitOut"] + 1]
  BY DEF WriteDone, inputVars, ConSemaphore!AbsV, ConInv, ConTypes
<1>2. conValue["waitOut"] = 0 /\ \E t \in Writers : AwaitsPut(t)
  BY <1>1 DEF ConInv, DisplayOnce
<1>3. /\ conValue' \in [ConSems -> 0..1] /\ conValue'["waitOut"] = 1
      /\ \A s \in {"lockIn", "waitIn", "lockOut"} : conValue'[s] = conValue[s]
  BY <1>1, <1>2 DEF ConInv, ConTypes, ConSems
<1>4. ConTypes'
  <2>1. putBusy' \in BOOLEAN
    BY <1>1
  <2>2. putPending' \in 0..1
    BY <1>1
  <2> QED  BY <1>1, <1>3, <2>1, <2>2 DEF ConInv, ConTypes
<1>5. OutputLocked'
  BY <1>1, <1>3 DEF ConInv, OutputLocked, HasLockOut
<1>6. DisplayOnce'
  BY <1>1, <1>2, <1>3 DEF DisplayOnce, AwaitsPut
<1>7. (InputLocked /\ KeyboardOnce)'
  BY <1>1, <1>3, InputUntouched
<1> QED  BY <1>4, <1>5, <1>6, <1>7 DEF ConInv

\* Every step of a thread, the devices and their handlers keeps the console's invariant.
LEMMA ConsoleNextInv ==
  ASSUME ConInv, [ConsoleNext]_conVars
  PROVE  ConInv'
<1>1. CASE \E k \in Keys : Type(k)
  BY <1>1, TypeInv
<1>2. CASE Poll
  BY <1>2, PollInv
<1>3. CASE WriteDone
  BY <1>3, WriteDoneInv
<1>4. ASSUME NEW t \in Readers, Reading(t) \/ CallGetChar(t)
      PROVE  ConInv'
  BY <1>4, ReadStepInv, TakeCharInv DEF Reading
<1>5. ASSUME NEW t \in Writers, Writing(t) \/ CallPutChar(t)
      PROVE  ConInv'
  BY <1>5, WriteStepInv, PutInv DEF Writing
<1>6. CASE UNCHANGED conVars
  BY <1>6 DEF conVars, inputVars, outputVars, ConInv, ConTypes, InputLocked, KeyboardOnce,
     OutputLocked, DisplayOnce, HasLockIn, HasLockOut, MayTake, AwaitsPut, Ended
<1> QED  BY <1>1, <1>2, <1>3, <1>4, <1>5, <1>6 DEF ConsoleNext

\* A set of at most one element is counted by whether it has any.
LEMMA AtMostOne ==
  ASSUME NEW S, \A x, y \in S : x = y
  PROVE  /\ Cardinality(S) \in 0..1
         /\ Cardinality(S) = 1 <=> \E x \in S : TRUE
<1>1. CASE S = {}
  BY <1>1, FS_EmptySet
<1>2. ASSUME NEW x \in S
      PROVE  Cardinality(S) = 1
  <2>1. S = {x}
    OBVIOUS
  <2> QED  BY <2>1, FS_Singleton
<1> QED  BY <1>1, <1>2

\* The invariant gives what is checked of the console.
LEMMA ConInvExact == ConInv => ConsoleExact
<1> SUFFICES ASSUME ConInv PROVE ConsoleExact
  OBVIOUS
<1> DEFINE owner == {t \in Readers : conPc[t] = "available"}
           writer == {t \in Writers : conPc[t] \in {"locked", "put", "await", "shown"}}
           waiters == {t \in Writers : conPc[t] \in {"put", "await"}}
<1>1. /\ Cardinality(owner) \in 0..1
      /\ Cardinality(owner) = 1 <=> \E t \in Readers : MayTake(t)
  <2>1. \A x, y \in owner : x = y
    BY DEF ConInv, InputLocked, HasLockIn
  <2> QED  BY <2>1, AtMostOne DEF MayTake
<1>2. Cardinality(writer) \in 0..1
  <2>1. \A x, y \in writer : x = y
    BY DEF ConInv, OutputLocked, HasLockOut
  <2> QED  BY <2>1, AtMostOne
<1>3. /\ Cardinality(waiters) \in 0..1
      /\ Cardinality(waiters) = 1 <=> \E t \in Writers : AwaitsPut(t)
  <2>1. \A x, y \in waiters : x = y
    BY DEF ConInv, OutputLocked, HasLockOut
  <2> QED  BY <2>1, AtMostOne DEF AwaitsPut
<1>4. /\ conValue["waitIn"] \in 0..1 /\ conValue["waitOut"] \in 0..1
      /\ polls \in 0..1 /\ putPending \in 0..1
  BY DEF ConInv, ConTypes, ConSems
<1> HIDE DEF owner, writer, waiters
<1>5. /\ Cardinality(owner) + conValue["waitIn"] + polls <= 1
      /\ (Cardinality(owner) + conValue["waitIn"] + polls = 0) => Ended
      /\ incoming # EOF => polls = 0 /\ incoming = taken /\ ~Ended
      /\ conValue["waitIn"] + Cardinality(owner) = 1 /\ ~Ended => incoming # EOF
  BY <1>1, <1>4 DEF ConInv, KeyboardOnce
<1>6. putPending + conValue["waitOut"] = Cardinality(waiters) /\ (putBusy <=> putPending = 1)
  BY <1>3, <1>4 DEF ConInv, DisplayOnce
<1> QED  BY <1>2, <1>5, <1>6 DEF ConsoleExact, Ended, owner, writer, waiters

\* The console's invariant holds of every reachable state, for any threads and any input.
THEOREM ConsoleInvariant == ConsoleSpec => []ConInv
BY ConsoleInitInv, ConsoleNextInv, PTL DEF ConsoleSpec

\* ConsoleExact for any readers and writers, any lengths of their calls and
\* whatever the user types.
THEOREM ConsoleIsExact == ConsoleSpec => []ConsoleExact
BY ConsoleInvariant, ConInvExact, PTL

-----------------------------------------------------------------------------
(***************************************************************************)
(* The queue of pending interrupts.                                        *)
(***************************************************************************)

Entries == [device : Kinds, when : Nat]

InOrder(list) == \A i, j \in 1..Len(list) : i < j => list[i].when <= list[j].when

OnePerDevice(list) == \A i, j \in 1..Len(list) : list[i].device = list[j].device => i = j

Holds(list, e) == \E i \in 1..Len(list) : list[i] = e

\* A nonempty set of natural numbers has a least element.
LEMMA LeastOf ==
  ASSUME NEW S, S \subseteq Nat, S # {}
  PROVE  \E n \in S : \A k \in S : n <= k
<1>1. PICK n \in S : \A k \in S : ~ (<<k, n>> \in OpToRel(<, Nat))
  BY NatLessThanWellFounded, WFMin, Zenon
<1>2. ASSUME NEW k \in S, ~(n <= k)
      PROVE  FALSE
  <2>1. <<k, n>> \in Nat \X Nat /\ k < n
    BY <1>2
  <2>2. <<k, n>> \in OpToRel(<, Nat)
    BY <2>1 DEF OpToRel
  <2> QED  BY <2>2, <1>1
<1> QED  BY <1>2

\* In an ordered list the entries that are due by some time come first.
LEMMA EarlierFirst ==
  ASSUME NEW list \in Seq(Entries), InOrder(list), NEW now \in Nat
  PROVE  LET n == Cardinality({i \in 1..Len(list) : list[i].when <= now})
         IN n \in 0..Len(list) /\ \A i \in 1..Len(list) : list[i].when <= now <=> i <= n
<1> DEFINE early == {i \in 1..Len(list) : list[i].when <= now}
           late == {i \in 1..Len(list) : ~(list[i].when <= now)}
<1>1. Len(list) \in Nat /\ \A i \in 1..Len(list) : list[i].when \in Nat
  <2>1. Len(list) \in Nat /\ \A i \in 1..Len(list) : list[i] \in Entries
    OBVIOUS
  <2> QED  BY <2>1 DEF Entries
<1>2. \E n \in 0..Len(list) : early = 1..n
  <2>1. CASE late = {}
    BY <2>1, <1>1
  <2>2. CASE late # {}
    <3>1. PICK k \in late : \A i \in late : k <= i
      <4>1. late \subseteq Nat
        BY <1>1
      <4> QED  BY <4>1, <2>2, LeastOf
    <3>2. \A i \in 1..Len(list) : i < k => i \in early
      BY <3>1, <1>1
    <3>3. \A i \in 1..Len(list) : ~(i < k) => i \notin early
      BY <3>1, <1>1 DEF InOrder
    <3>4. k - 1 \in 0..Len(list) /\ early = 1..(k - 1)
      BY <3>1, <3>2, <3>3, <1>1
    <3> QED  BY <3>4
  <2> QED  BY <2>1, <2>2
<1>3. PICK n \in 0..Len(list) : early = 1..n
  BY <1>2
<1>4. Cardinality(early) = n
  <2>1. n \in Nat /\ Cardinality(1..n) = IF 1 > n THEN 0 ELSE n - 1 + 1
    BY <1>1, FS_Interval
  <2>2. Cardinality(1..n) = n
    BY <2>1
  <2> QED  BY <2>2, <1>3, Zenon
<1>5. \A i \in 1..Len(list) : list[i].when <= now <=> i <= n
  BY <1>1, <1>3
<1> QED  BY <1>4, <1>5, Zenon

\* SortedList::Insert puts the entry behind those that are not later.
LEMMA InsertPlaces ==
  ASSUME NEW list \in Seq(Entries), InOrder(list), NEW e \in Entries
  PROVE  \E n \in 0..Len(list) :
           /\ \A i \in 1..Len(list) : list[i].when <= e.when <=> i <= n
           /\ Insert(e, list) \in Seq(Entries)
           /\ Len(Insert(e, list)) = Len(list) + 1
           /\ \A i \in 1..n : Insert(e, list)[i] = list[i]
           /\ Insert(e, list)[n + 1] = e
           /\ \A i \in (n + 2)..(Len(list) + 1) : Insert(e, list)[i] = list[i - 1]
<1> DEFINE n == Cardinality({i \in 1..Len(list) : list[i].when <= e.when})
<1>1. n \in 0..Len(list) /\ \A i \in 1..Len(list) : list[i].when <= e.when <=> i <= n
  <2>1. e.when \in Nat
    BY DEF Entries
  <2> QED  BY <2>1, EarlierFirst
<1>2. Insert(e, list) = InsertAt(list, n + 1, e)
  BY Zenon DEF Insert
<1> HIDE DEF n
<1> DEFINE front == SubSeq(list, 1, (n + 1) - 1)
           back == SubSeq(list, n + 1, Len(list))
<1>3. /\ front \in Seq(Entries) /\ Len(front) = n /\ \A i \in 1..n : front[i] = list[i]
      /\ back \in Seq(Entries) /\ Len(back) = Len(list) - n
      /\ \A i \in 1..(Len(list) - n) : back[i] = list[i + n]
  BY <1>1
<1> HIDE DEF front, back
<1>4. /\ front \o <<e>> \in Seq(Entries) /\ Len(front \o <<e>>) = n + 1
      /\ \A i \in 1..n : (front \o <<e>>)[i] = list[i]
      /\ (front \o <<e>>)[n + 1] = e
  BY <1>1, <1>3
<1> DEFINE whole == front \o <<e>> \o back
<1>5. /\ whole \in Seq(Entries) /\ Len(whole) = Len(list) + 1
      /\ \A i \in 1..(n + 1) : whole[i] = (front \o <<e>>)[i]
      /\ \A i \in (n + 2)..(Len(list) + 1) : whole[i] = back[i - (n + 1)]
  BY <1>1, <1>3, <1>4
<1>6. Insert(e, list) = whole
  BY <1>2, Zenon DEF InsertAt, whole, front, back
<1> HIDE DEF whole
<1>7. \A i \in 1..n : whole[i] = list[i]
  BY <1>1, <1>4, <1>5
<1>8. whole[n + 1] = e
  BY <1>1, <1>4, <1>5
<1>9. \A i \in (n + 2)..(Len(list) + 1) : whole[i] = list[i - 1]
  <2> SUFFICES ASSUME NEW i \in (n + 2)..(Len(list) + 1)
               PROVE  whole[i] = list[i - 1]
    OBVIOUS
  <2>1. i - (n + 1) \in 1..(Len(list) - n) /\ i - (n + 1) + n = i - 1
    BY <1>1
  <2> QED  BY <2>1, <1>3, <1>5
<1> QED  BY <1>1, <1>5, <1>6, <1>7, <1>8, <1>9

\* Inserting an interrupt of a device that has none keeps the list in order, with one for each device.
LEMMA InsertKeeps ==
  ASSUME NEW list \in Seq(Entries), InOrder(list), OnePerDevice(list), NEW e \in Entries,
         \A i \in 1..Len(list) : list[i].device # e.device
  PROVE  LET longer == Insert(e, list)
         IN /\ longer \in Seq(Entries) /\ InOrder(longer) /\ OnePerDevice(longer)
            /\ \A x : Holds(longer, x) <=> x = e \/ Holds(list, x)
            /\ \A i, j \in 1..Len(longer) : i < j /\ longer[i] = e => e.when < longer[j].when
<1> DEFINE longer == Insert(e, list)
<1>1. PICK n \in 0..Len(list) :
           /\ \A i \in 1..Len(list) : list[i].when <= e.when <=> i <= n
           /\ longer \in Seq(Entries)
           /\ Len(longer) = Len(list) + 1
           /\ \A i \in 1..n : longer[i] = list[i]
           /\ longer[n + 1] = e
           /\ \A i \in (n + 2)..(Len(list) + 1) : longer[i] = list[i - 1]
  BY InsertPlaces
<1> HIDE DEF longer
<1>2. /\ Len(list) \in Nat /\ e.when \in Nat
      /\ \A i \in 1..Len(list) : list[i] \in Entries /\ list[i].when \in Nat
  <2>1. Len(list) \in Nat /\ \A i \in 1..Len(list) : list[i] \in Entries
    OBVIOUS
  <2> QED  BY <2>1 DEF Entries
\* Where each entry of the longer list comes from.
<1> DEFINE from(i) == IF i <= n THEN i ELSE i - 1
<1>3. \A i \in 1..Len(longer) :
         \/ i = n + 1 /\ longer[i] = e
         \/ i # n + 1 /\ from(i) \in 1..Len(list) /\ longer[i] = list[from(i)]
  BY <1>1, <1>2
<1> HIDE DEF from
<1>4. InOrder(longer)
  <2> SUFFICES ASSUME NEW i \in 1..Len(longer), NEW j \in 1..Len(longer), i < j
               PROVE  longer[i].when <= longer[j].when
    BY DEF InOrder
  <2>1. CASE i = n + 1
    BY <1>1, <1>2, <1>3, <2>1 DEF from
  <2>2. CASE j = n + 1
    BY <1>1, <1>2, <1>3, <2>2 DEF from
  <2>3. CASE i # n + 1 /\ j # n + 1
    <3>1. from(i) < from(j)
      BY <1>1, <1>2, <2>3 DEF from
    <3> QED  BY <3>1, <1>3, <2>3 DEF InOrder
  <2> QED  BY <2>1, <2>2, <2>3
<1>5. OnePerDevice(longer)
  <2> SUFFICES ASSUME NEW i \in 1..Len(longer), NEW j \in 1..Len(longer),
                      longer[i].device = longer[j].device
               PROVE  i = j
    BY DEF OnePerDevice
  <2>1. CASE i = n + 1
    BY <1>3, <2>1
  <2>2. CASE j = n + 1
    BY <1>3, <2>2
  <2>3. CASE i # n + 1 /\ j # n + 1
    <3>1. from(i) = from(j)
      BY <1>3, <2>3 DEF OnePerDevice
    <3> QED  BY <3>1, <1>1, <1>2, <2>3 DEF from
  <2> QED  BY <2>1, <2>2, <2>3
<1>6. ASSUME NEW x
      PROVE  Holds(longer, x) <=> x = e \/ Holds(list, x)
  <2>1. ASSUME NEW i \in 1..Len(list)
        PROVE  \E j \in 1..Len(longer) : longer[j] = list[i]
    <3>1. CASE i <= n
      BY <3>1, <1>1, <1>2
    <3>2. CASE ~(i <= n)
      <4>1. i + 1 \in (n + 2)..(Len(list) + 1) /\ i + 1 \in 1..Len(longer) /\ (i + 1) - 1 = i
        BY <3>2, <1>1, <1>2
      <4> QED  BY <4>1, <1>1
    <3> QED  BY <3>1, <3>2
  <2>2. n + 1 \in 1..Len(longer)
    BY <1>1, <1>2
  <2>3. CASE Holds(longer, x)
    BY <2>3, <1>3 DEF Holds
  <2>4. CASE x = e \/ Holds(list, x)
    BY <2>1, <2>2, <2>4, <1>1 DEF Holds
  <2> QED  BY <2>3, <2>4
<1>7. ASSUME NEW i \in 1..Len(longer), NEW j \in 1..Len(longer), i < j, longer[i] = e
      PROVE  e.when < longer[j].when
  <2>1. i = n + 1
    BY <1>3, <1>7
  <2>2. from(j) \in 1..Len(list) /\ ~(from(j) <= n) /\ longer[j] = list[from(j)]
    BY <2>1, <1>1, <1>2, <1>3, <1>7 DEF from
  <2>3. list[from(j)].when \in Nat /\ ~(list[from(j)].when <= e.when)
    BY <2>2, <1>1, <1>2
  <2> QED  BY <2>2, <2>3, <1>2
<1> QED  BY <1>1, <1>4, <1>5, <1>6, <1>7 DEF longer

\* Taking the first interrupt off the queue.
LEMMA TailKeeps ==
  ASSUME NEW list \in Seq(Entries), InOrder(list), OnePerDevice(list), list # <<>>
  PROVE  /\ Head(list) \in Entries /\ Holds(list, Head(list))
         /\ Tail(list) \in Seq(Entries) /\ InOrder(Tail(list)) /\ OnePerDevice(Tail(list))
         /\ \A i \in 1..Len(Tail(list)) : Tail(list)[i].device # Head(list).device
         /\ \A i \in 1..Len(list) : Head(list).when <= list[i].when
         /\ \A x : Holds(list, x) <=> x = Head(list) \/ Holds(Tail(list), x)
<1>1. /\ Head(list) \in Entries /\ Head(list) = list[1]
      /\ Tail(list) \in Seq(Entries) /\ Len(Tail(list)) = Len(list) - 1
      /\ Len(list) \in Nat \ {0}
      /\ \A i \in 1..Len(Tail(list)) : Tail(list)[i] = list[i + 1]
  OBVIOUS
<1>2. \A i \in 1..Len(list) : list[i].when \in Nat
  <2>1. \A i \in 1..Len(list) : list[i] \in Entries
    OBVIOUS
  <2> QED  BY <2>1 DEF Entries
<1> DEFINE rest == Tail(list)
<1> HIDE DEF rest
<1>3. /\ rest \in Seq(Entries) /\ Len(rest) = Len(list) - 1
      /\ \A i \in 1..Len(rest) : rest[i] = list[i + 1] /\ i + 1 \in 1..Len(list)
  BY <1>1 DEF rest
<1>4. InOrder(rest)
  BY <1>1, <1>3 DEF InOrder
<1>5. OnePerDevice(rest) /\ \A i \in 1..Len(rest) : rest[i].device # list[1].device
  BY <1>1, <1>3 DEF OnePerDevice
<1>6. \A i \in 1..Len(list) : list[1].when <= list[i].when
  BY <1>1, <1>2 DEF InOrder
<1>7. ASSUME NEW x
      PROVE  Holds(list, x) <=> x = list[1] \/ Holds(rest, x)
  <2>1. \A i \in 1..Len(list) : i = 1 \/ (i - 1 \in 1..Len(rest) /\ (i - 1) + 1 = i)
    BY <1>1, <1>3
  <2>2. CASE Holds(list, x)
    <3>1. PICK i \in 1..Len(list) : list[i] = x
      BY <2>2 DEF Holds
    <3>2. i # 1 => rest[i - 1] = x
      BY <2>1, <1>3, <3>1
    <3> QED  BY <3>1, <3>2, <2>1 DEF Holds
  <2>3. CASE x = list[1] \/ Holds(rest, x)
    BY <2>3, <1>1, <1>3 DEF Holds
  <2> QED  BY <2>2, <2>3
<1> QED  BY <1>1, <1>4, <1>5, <1>6, <1>7 DEF rest, Holds

-----------------------------------------------------------------------------
(***************************************************************************)
(* The clock.                                                              *)
(***************************************************************************)

IntTypes ==
  /\ totalTicks \in Nat
  /\ pending \in Seq(Entries)
  /\ intCount \in [Kinds -> 0..1]
  /\ status \in {"System", "User", "Idle"}
  /\ inHandler \in BOOLEAN /\ yieldOnReturn \in BOOLEAN
  /\ checking \in {"no", "OneTick", "Idle"}
  /\ fired.when \in Nat /\ fired.late \in 0 .. SystemTick - 1

\* The queue: in order, and with one interrupt at most of each device.
QueueInv ==
  /\ InOrder(pending) /\ OnePerDevice(pending)
  /\ \A d \in Kinds : intCount[d] = 1 <=> IsPending(d)
  /\ IsPending(Timer)

\* Nothing pending is overdue by a whole tick or for a time before the last
\* interrupt's; the handlers go on for as long as an interrupt is due.
TimeInv ==
  /\ \A x : Holds(pending, x) => x.when > totalTicks - SystemTick /\ x.when >= fired.when
  /\ fired.when <= totalTicks
  /\ checking = "no" => ~inHandler /\ \A x : Holds(pending, x) => x.when > totalTicks
  /\ checking # "no" => (inHandler <=> Due(totalTicks, pending))
  /\ checking = "Idle" <=> status = "Idle"
  /\ yieldOnReturn => checking = "OneTick"

IntInv == IntTypes /\ QueueInv /\ TimeInv

\* What is pending is an interrupt of a device for some time.
LEMMA HeldEntries ==
  ASSUME NEW list \in Seq(Entries), NEW x, Holds(list, x)
  PROVE  x \in Entries /\ x.when \in Nat /\ x.device \in Kinds
<1>1. x \in Entries
  BY DEF Holds
<1> QED  BY <1>1 DEF Entries

\* A device has an interrupt pending exactly when the list holds one of it.
LEMMA PendingHeld ==
  ASSUME NEW d
  PROVE  IsPending(d) <=> \E x : Holds(pending, x) /\ x.device = d
BY DEF IsPending, Holds

\* The first in the queue is due if any is.
LEMMA DueHeld ==
  ASSUME NEW list \in Seq(Entries), InOrder(list), NEW now \in Nat
  PROVE  Due(now, list) <=> \E x : Holds(list, x) /\ x.when <= now
<1>1. CASE list = <<>>
  BY <1>1 DEF Due, Holds
<1>2. CASE list # <<>>
  <2>1. /\ Len(list) \in Nat \ {0} /\ Head(list) = list[1]
        /\ \A i \in 1..Len(list) : list[i] \in Entries
    BY <1>2
  <2>2. \A i \in 1..Len(list) : list[i].when \in Nat
    BY <2>1 DEF Entries
  <2>3. \A i \in 1..Len(list) : list[1].when <= list[i].when
    BY <2>1, <2>2 DEF InOrder
  <2> QED  BY <1>2, <2>1, <2>2, <2>3 DEF Due, Holds
<1> QED  BY <1>1, <1>2

\* The invariant of the interrupts holds at the start.
LEMMA InterruptInitInv == InterruptInit => IntInv
<1> SUFFICES ASSUME InterruptInit PROVE IntInv
  OBVIOUS
<1>1. PICK delay \in TimerDelays : pending = <<[device |-> Timer, when |-> delay]>>
  BY DEF InterruptInit
<1>2. delay \in Nat \ {0} /\ SystemTick \in Nat \ {0} /\ Timer \in Kinds
  BY InterruptAssumption DEF Kinds
<1> DEFINE e == [device |-> Timer, when |-> delay]
<1>3. /\ e \in Entries /\ pending = <<e>> /\ e.device = Timer /\ e.when = delay
      /\ pending \in Seq(Entries) /\ Len(pending) = 1 /\ pending[1] = e
  BY <1>1, <1>2 DEF Entries
<1> HIDE DEF e
<1>4. IntTypes
  <2>1. intCount \in [Kinds -> 0..1] /\ fired.when = 0 /\ fired.late = 0
    BY DEF InterruptInit
  <2>2. yieldOnReturn \in BOOLEAN /\ inHandler \in BOOLEAN
    BY DEF InterruptInit
  <2> QED  BY <1>2, <1>3, <2>1, <2>2 DEF InterruptInit, IntTypes
<1>5. QueueInv
  <2>1. \A d \in Kinds : intCount[d] = 1 <=> d = Timer
    BY DEF InterruptInit
  <2> QED  BY <1>2, <1>3, <2>1 DEF QueueInv, InOrder, OnePerDevice, IsPending
<1>6. TimeInv
  <2>1. \A x : Holds(pending, x) <=> x = e
    BY <1>3 DEF Holds
  <2>2. /\ totalTicks = 0 /\ fired.when = 0 /\ checking = "no" /\ status = "System"
        /\ inHandler = FALSE /\ yieldOnReturn = FALSE
    BY DEF InterruptInit
  <2> QED  BY <1>2, <1>3, <2>1, <2>2 DEF TimeInv
<1> QED  BY <1>4, <1>5, <1>6 DEF IntInv

\* A device is started, or handlers start it again: what happens to the queue.
LEMMA ScheduleInv ==
  ASSUME IntInv, NEW d \in Devices, Schedule(d)
  PROVE  IntInv'
<1> DEFINE e == [device |-> d, when |-> totalTicks + Delay[d]]
<1>1. /\ e \in Entries /\ e.device = d /\ e.when \in Nat
      /\ e.when > totalTicks /\ d \in Kinds /\ totalTicks \in Nat
  BY InterruptAssumption DEF IntInv, IntTypes, Entries, Kinds
<1>2. /\ checking = "no" /\ status = "System" /\ ~IsPending(d)
      /\ pending' = Insert(e, pending) /\ intCount' = [intCount EXCEPT ![d] = @ + 1]
      /\ UNCHANGED <<totalTicks, status, inHandler, yieldOnReturn, checking, fired>>
  BY DEF Schedule, Kernel
<1> HIDE DEF e
<1>3. /\ pending \in Seq(Entries) /\ InOrder(pending) /\ OnePerDevice(pending)
      /\ \A i \in 1..Len(pending) : pending[i].device # e.device
  BY <1>1, <1>2 DEF IntInv, IntTypes, QueueInv, IsPending
<1>4. /\ pending' \in Seq(Entries) /\ InOrder(pending') /\ OnePerDevice(pending')
      /\ \A x : Holds(pending', x) <=> x = e \/ Holds(pending, x)
  BY <1>1, <1>2, <1>3, InsertKeeps
<1>5. intCount[d] = 0
  BY <1>1, <1>2 DEF IntInv, IntTypes, QueueInv
<1>6. /\ intCount' \in [Kinds -> 0..1] /\ intCount'[d] = 1
      /\ \A c \in Kinds \ {d} : intCount'[c] = intCount[c]
  BY <1>1, <1>2, <1>5 DEF IntInv, IntTypes
<1>7. IntTypes'
  BY <1>2, <1>4, <1>6 DEF IntInv, IntTypes
<1>8. \A c : IsPending(c)' <=> c = d \/ IsPending(c)
  <2>1. \A c : IsPending(c)' <=> \E x : Holds(pending', x) /\ x.device = c
    BY DEF IsPending, Holds
  <2>2. \A c : IsPending(c) <=> \E x : Holds(pending, x) /\ x.device = c
    BY PendingHeld
  <2> HIDE DEF IsPending, Holds
  <2> QED  BY <1>1, <1>4, <2>1, <2>2
<1>9. QueueInv'
  BY <1>4, <1>6, <1>8 DEF IntInv, QueueInv
<1>10. TimeInv'
  <2>1. fired.when <= totalTicks /\ SystemTick \in Nat \ {0} /\ fired.when \in Nat
    BY InterruptAssumption DEF IntInv, IntTypes, TimeInv
  <2>2. e.when > totalTicks - SystemTick /\ e.when >= fired.when
    BY <2>1, <1>1
  <2> QED  BY <1>1, <1>2, <1>4, <2>2 DEF IntInv, TimeInv
<1> QED  BY <1>7, <1>9, <1>10 DEF IntInv

\* The clock moves on by one tick.
LEMMA OneTickInv ==
  ASSUME IntInv, Enable \/ UserInstruction
  PROVE  IntInv'
<1>1. PICK tick \in {SystemTick, UserTick} : OneTick(tick) /\ checking = "no"
  BY DEF Enable, UserInstruction, Kernel
<1>2. tick \in Nat \ {0} /\ tick <= SystemTick /\ SystemTick \in Nat \ {0}
  BY InterruptAssumption
<1>3. /\ totalTicks' = totalTicks + tick /\ checking' = "OneTick"
      /\ inHandler' = Due(totalTicks', pending)
      /\ UNCHANGED <<pending, intCount, status, yieldOnReturn, fired>>
  BY <1>1 DEF OneTick
<1>4. totalTicks \in Nat /\ totalTicks' \in Nat
  BY <1>2, <1>3 DEF IntInv, IntTypes
<1>5. inHandler' \in BOOLEAN
  BY <1>3 DEF Due
<1>6. IntTypes'
  BY <1>3, <1>4, <1>5 DEF IntInv, IntTypes
<1>7. QueueInv'
  BY <1>3 DEF IntInv, QueueInv, IsPending
<1>8. TimeInv'
  <2>1. /\ fired.when <= totalTicks' /\ fired.when \in Nat
    BY <1>2, <1>3, <1>4 DEF IntInv, IntTypes, TimeInv
  <2>2. ASSUME NEW x, Holds(pending, x)
        PROVE  x.when > totalTicks' - SystemTick /\ x.when >= fired.when
    <3>1. x.when \in Nat /\ x.when > totalTicks /\ x.when >= fired.when
      BY <1>1, <2>2, HeldEntries DEF IntInv, IntTypes, TimeInv
    <3> QED  BY <3>1, <1>2, <1>3, <1>4
  <2>3. checking # "Idle" /\ status # "Idle"
    BY <1>1 DEF IntInv, TimeInv
  <2> QED  BY <1>3, <2>1, <2>2, <2>3 DEF TimeInv
<1> QED  BY <1>6, <1>7, <1>8 DEF IntInv

\* The clock jumps to the next interrupt.
LEMMA IdleInv ==
  ASSUME IntInv, Idle
  PROVE  IntInv'
<1> DEFINE next == Head(pending).when
<1>1. /\ checking = "no" /\ pending # <<>> /\ status' = "Idle" /\ checking' = "Idle"
      /\ inHandler' = TRUE
      /\ totalTicks' = IF next > totalTicks THEN next ELSE totalTicks
      /\ UNCHANGED <<pending, intCount, yieldOnReturn, fired>>
  BY DEF Idle, Kernel
<1>2. pending \in Seq(Entries) /\ InOrder(pending) /\ OnePerDevice(pending) /\ totalTicks \in Nat
  BY DEF IntInv, IntTypes, QueueInv
<1>3. /\ Holds(pending, Head(pending)) /\ next \in Nat /\ next > totalTicks
      /\ \A i \in 1..Len(pending) : next <= pending[i].when
  BY <1>1, <1>2, TailKeeps, HeldEntries DEF IntInv, TimeInv
<1>4. totalTicks' = next
  BY <1>1, <1>3
<1>5. \A x : Holds(pending, x) => next <= x.when
  BY <1>3 DEF Holds
<1>6. Due(totalTicks', pending)
  BY <1>1, <1>3, <1>4 DEF Due
<1> HIDE DEF next
<1>7. IntTypes'
  <2>1. inHandler' \in BOOLEAN
    BY <1>1
  <2> QED  BY <1>1, <1>3, <1>4, <2>1 DEF IntInv, IntTypes
<1>8. QueueInv'
  BY <1>1 DEF IntInv, QueueInv, IsPending
<1>9. TimeInv'
  <2>1. fired.when <= totalTicks' /\ fired.when \in Nat /\ SystemTick \in Nat \ {0}
    BY <1>2, <1>3, <1>4, InterruptAssumption DEF IntInv, IntTypes, TimeInv
  <2>2. ASSUME NEW x, Holds(pending, x)
        PROVE  x.when > totalTicks' - SystemTick /\ x.when >= fired.when
    <3>1. x.when \in Nat /\ x.when >= fired.when /\ next <= x.when
      BY <1>2, <1>5, <2>2, HeldEntries DEF IntInv, TimeInv
    <3> QED  BY <3>1, <2>1, <1>3, <1>4
  <2>3. yieldOnReturn = FALSE
    BY <1>1 DEF IntInv, IntTypes, TimeInv
  <2> QED  BY <1>1, <1>6, <2>1, <2>2, <2>3 DEF TimeInv
<1> QED  BY <1>7, <1>8, <1>9 DEF IntInv

\* What a handler does to the queue: its own interrupt goes, and comes back at most
\* once, for a later time.
LEMMA FireQueue ==
  ASSUME IntInv, Fire
  PROVE  LET next == Head(pending)
         IN /\ Holds(pending, next) /\ next \in Entries /\ next.when <= totalTicks
            /\ \A x : Holds(pending, x) => next.when <= x.when
            /\ pending' \in Seq(Entries) /\ InOrder(pending') /\ OnePerDevice(pending')
            /\ \A x : Holds(pending', x) /\ ~Holds(pending, x) =>
                 x.device = next.device /\ x \in Entries /\ x.when > totalTicks
            /\ \A x : Holds(pending, x) /\ x # next => Holds(pending', x)
            /\ \A x : Holds(pending, x) /\ Holds(pending', x) => x.device # next.device
            /\ \A i, j \in 1..Len(pending') : i < j /\ ~Holds(pending, pending'[i]) =>
                 pending'[i].when < pending'[j].when
            /\ intCount' \in [Kinds -> 0..1]
            /\ \A d \in Kinds \ {next.device} : intCount'[d] = intCount[d]
            /\ intCount'[next.device] = 1 <=> \E x : Holds(pending', x) /\ x.device = next.device
            /\ intCount'[next.device] = 1 \/ next.device # Timer
<1> DEFINE next == Head(pending)
           rest == Tail(pending)
<1>1. /\ pending \in Seq(Entries) /\ InOrder(pending) /\ OnePerDevice(pending)
      /\ totalTicks \in Nat /\ Due(totalTicks, pending)
  BY DEF IntInv, IntTypes, QueueInv, TimeInv, Fire
<1>2. /\ next \in Entries /\ Holds(pending, next) /\ next.when <= totalTicks
      /\ rest \in Seq(Entries) /\ InOrder(rest) /\ OnePerDevice(rest)
      /\ \A i \in 1..Len(rest) : rest[i].device # next.device
      /\ \A x : Holds(pending, x) <=> x = next \/ Holds(rest, x)
  BY <1>1, TailKeeps DEF Due
<1>3. \A x : Holds(pending, x) => next.when <= x.when
  BY <1>1, TailKeeps DEF Due, Holds
<1>4. \A x : Holds(rest, x) => x.device # next.device
  BY <1>2 DEF Holds
<1>5. /\ next.device \in Kinds /\ next.when \in Nat
      /\ intCount \in [Kinds -> 0..1] /\ intCount[next.device] = 1
  BY <1>1, <1>2, HeldEntries, PendingHeld DEF IntInv, IntTypes, QueueInv
<1>6. CallBack(next.device, rest)
  BY DEF Fire
<1> DEFINE back(when) == [device |-> next.device, when |-> when]
<1>7. \/ /\ intCount' = intCount
         /\ \E when \in Nat : when > totalTicks /\ pending' = Insert(back(when), rest)
      \/ /\ next.device # Timer /\ pending' = rest
         /\ intCount' = [intCount EXCEPT ![next.device] = @ - 1]
  <2>1. CASE next.device = Timer
    <3>1. PICK delay \in TimerDelays :
               /\ pending' = Insert([device |-> Timer, when |-> totalTicks + delay], rest)
               /\ intCount' = intCount
      BY <1>6, <2>1 DEF CallBack
    <3>2. totalTicks + delay \in Nat /\ totalTicks + delay > totalTicks
      BY <1>1, InterruptAssumption
    <3> QED  BY <3>1, <3>2, <2>1
  <2>2. CASE next.device # Timer
    <3>1. next.device \in Devices
      BY <1>5, <2>2 DEF Kinds
    <3>2. totalTicks + Delay[next.device] \in Nat
          /\ totalTicks + Delay[next.device] > totalTicks
      BY <3>1, <1>1, InterruptAssumption
    <3>3. \/ pending' = Insert(back(totalTicks + Delay[next.device]), rest) /\ intCount' = intCount
          \/ pending' = rest /\ intCount' = [intCount EXCEPT ![next.device] = @ - 1]
      BY <1>6, <2>2 DEF CallBack
    <3> QED  BY <3>2, <3>3, <2>2
  <2> QED  BY <2>1, <2>2
<1> HIDE DEF next, rest
<1>8. CASE /\ intCount' = intCount
           /\ \E when \in Nat : when > totalTicks /\ pending' = Insert(back(when), rest)
  <2>1. PICK when \in Nat : when > totalTicks /\ pending' = Insert(back(when), rest)
    BY <1>8
  <2> DEFINE e == back(when)
  <2>2. e \in Entries /\ e.device = next.device /\ e.when = when
    BY <2>1, <1>5 DEF Entries
  <2> HIDE DEF e
  <2>3. /\ pending' \in Seq(Entries) /\ InOrder(pending') /\ OnePerDevice(pending')
        /\ \A x : Holds(pending', x) <=> x = e \/ Holds(rest, x)
        /\ \A i, j \in 1..Len(pending') : i < j /\ pending'[i] = e => e.when < pending'[j].when
    <3>1. pending' = Insert(e, rest)
      BY <2>1 DEF e
    <3>2. \A i \in 1..Len(rest) : rest[i].device # e.device
      BY <1>2, <2>2
    <3> QED  BY <3>1, <3>2, <2>2, <1>2, InsertKeeps
  <2>4. \A x : Holds(pending', x) /\ ~Holds(pending, x) =>
           x.device = next.device /\ x \in Entries /\ x.when > totalTicks
    BY <1>2, <2>1, <2>2, <2>3
  <2>5. Holds(pending', e) /\ ~Holds(pending, e)
    <3>1. e # next
      BY <2>1, <2>2, <1>1, <1>2 DEF Entries
    <3> QED  BY <3>1, <1>2, <1>4, <2>2, <2>3
  <2>6. /\ \A x : Holds(pending, x) /\ x # next => Holds(pending', x)
        /\ \A x : Holds(pending, x) /\ Holds(pending', x) => x.device # next.device
    BY <1>2, <1>4, <2>3, <2>5
  <2>7. /\ intCount' \in [Kinds -> 0..1] /\ intCount'[next.device] = 1
        /\ \A d \in Kinds \ {next.device} : intCount'[d] = intCount[d]
    BY <1>5, <1>8
  <2>8. ASSUME NEW i \in 1..Len(pending'), NEW j \in 1..Len(pending'), i < j,
               ~Holds(pending, pending'[i])
        PROVE  pending'[i].when < pending'[j].when
    <3>1. Holds(pending', pending'[i])
      BY DEF Holds
    <3>2. pending'[i] = e
      BY <3>1, <1>2, <2>3, <2>8
    <3> QED  BY <3>2, <2>3, <2>8
  <2> QED  BY <1>2, <1>3, <2>2, <2>3, <2>4, <2>5, <2>6, <2>7, <2>8 DEF next
<1>9. CASE /\ next.device # Timer /\ pending' = rest
           /\ intCount' = [intCount EXCEPT ![next.device] = @ - 1]
  <2>1. /\ intCount' \in [Kinds -> 0..1] /\ intCount'[next.device] = 0
        /\ \A d \in Kinds \ {next.device} : intCount'[d] = intCount[d]
    BY <1>5, <1>9
  <2>2. \A i \in 1..Len(pending') : Holds(pending, pending'[i])
    BY <1>2, <1>9 DEF Holds
  <2> QED  BY <1>2, <1>3, <1>4, <1>9, <2>1, <2>2 DEF next
<1> QED  BY <1>7, <1>8, <1>9

\* Firing the first interrupt takes it from the list, and its handler may schedule the next.
LEMMA FireInv ==
  ASSUME IntInv, Fire
  PROVE  IntInv'
<1> DEFINE next == Head(pending)
<1>1. /\ Holds(pending, next) /\ next \in Entries /\ next.when <= totalTicks
      /\ \A x : Holds(pending, x) => next.when <= x.when
      /\ pending' \in Seq(Entries) /\ InOrder(pending') /\ OnePerDevice(pending')
      /\ \A x : Holds(pending', x) /\ ~Holds(pending, x) =>
           x.device = next.device /\ x \in Entries /\ x.when > totalTicks
      /\ \A x : Holds(pending, x) /\ x # next => Holds(pending', x)
      /\ \A x : Holds(pending, x) /\ Holds(pending', x) => x.device # next.device
      /\ intCount' \in [Kinds -> 0..1]
      /\ \A d \in Kinds \ {next.device} : intCount'[d] = intCount[d]
      /\ intCount'[next.device] = 1 <=> \E x : Holds(pending', x) /\ x.device = next.device
      /\ intCount'[next.device] = 1 \/ next.device # Timer
  BY FireQueue, Zenon
<1>2. /\ fired'.when = next.when /\ fired'.late = totalTicks - next.when
      /\ inHandler' = Due(totalTicks, pending')
      /\ UNCHANGED <<totalTicks, status, checking>>
      /\ yieldOnReturn' = IF next.device = Timer /\ status # "Idle" THEN TRUE ELSE yieldOnReturn
  BY DEF Fire, CallBack
<1>3. /\ next.when \in Nat /\ next.device \in Kinds /\ totalTicks \in Nat
      /\ SystemTick \in Nat \ {0} /\ next.when > totalTicks - SystemTick
      /\ checking # "no"
  BY <1>1, InterruptAssumption, HeldEntries DEF IntInv, IntTypes, TimeInv, Fire
<1> HIDE DEF next
<1>4. IntTypes'
  <2>1. fired'.when \in Nat /\ fired'.late \in 0 .. SystemTick - 1
    BY <1>1, <1>2, <1>3
  <2>2. inHandler' \in BOOLEAN
    BY <1>2 DEF Due
  <2>3. yieldOnReturn' \in BOOLEAN
    BY <1>2 DEF IntInv, IntTypes
  <2> QED  BY <1>1, <1>2, <2>1, <2>2, <2>3 DEF IntInv, IntTypes
<1>5. QueueInv'
  <2>1. \A c : IsPending(c)' <=> \E x : Holds(pending', x) /\ x.device = c
    BY DEF IsPending, Holds
  <2>2. \A c : IsPending(c) <=> \E x : Holds(pending, x) /\ x.device = c
    BY PendingHeld
  <2>3. \A c \in Kinds \ {next.device} : IsPending(c)' <=> IsPending(c)
    <3> HIDE DEF IsPending, Holds
    <3> QED  BY <1>1, <2>1, <2>2
  <2>4. \A c \in Kinds : intCount'[c] = 1 <=> IsPending(c)'
    BY <1>1, <2>1, <2>3 DEF IntInv, QueueInv
  <2>5. IsPending(Timer)'
    BY <1>1, <2>1, <2>3, <1>3 DEF IntInv, QueueInv, Kinds
  <2> QED  BY <1>1, <2>4, <2>5 DEF QueueInv
<1>6. TimeInv'
  <2>1. ASSUME NEW x, Holds(pending', x)
        PROVE  x.when > totalTicks - SystemTick /\ x.when >= next.when
    <3>1. CASE Holds(pending, x)
      BY <3>1, <1>1 DEF IntInv, TimeInv
    <3>2. CASE ~Holds(pending, x)
      <4>1. x.when \in Nat /\ x.when > totalTicks
        BY <3>2, <2>1, <1>1 DEF Entries
      <4> QED  BY <4>1, <1>1, <1>3
    <3> QED  BY <3>1, <3>2
  <2>2. yieldOnReturn' => checking = "OneTick"
    BY <1>2, <1>3 DEF IntInv, IntTypes, TimeInv
  <2> QED  BY <1>1, <1>2, <1>3, <2>1, <2>2 DEF IntInv, TimeInv
<1> QED  BY <1>4, <1>5, <1>6 DEF IntInv

\* The end of a check: nothing that is due is left.
LEMMA EndCheckInv ==
  ASSUME IntInv, EndTick \/ EndIdle
  PROVE  IntInv'
<1>1. /\ UNCHANGED <<totalTicks, pending, intCount, inHandler, fired>>
      /\ checking # "no" /\ ~inHandler /\ checking' = "no"
      /\ yieldOnReturn' \in {FALSE, yieldOnReturn} /\ yieldOnReturn' = FALSE
      /\ status' \in {"System", "User"}
  BY DEF EndTick, EndIdle, IntInv, IntTypes, TimeInv
<1>2. \A x : Holds(pending, x) => x.when > totalTicks
  <2>1. /\ pending \in Seq(Entries) /\ InOrder(pending) /\ totalTicks \in Nat
        /\ ~Due(totalTicks, pending)
    BY <1>1 DEF IntInv, IntTypes, QueueInv, TimeInv
  <2> QED  BY <2>1, DueHeld, HeldEntries
<1>3. IntTypes'
  <2>1. yieldOnReturn' \in BOOLEAN
    BY <1>1
  <2> QED  BY <1>1, <2>1 DEF IntInv, IntTypes
<1>4. QueueInv'
  BY <1>1 DEF IntInv, QueueInv, IsPending
<1>5. TimeInv'
  BY <1>1, <1>2 DEF IntInv, TimeInv
<1> QED  BY <1>3, <1>4, <1>5 DEF IntInv

\* Every step of the clock, the devices and the processor keeps the interrupts' invariant.
LEMMA InterruptNextInv ==
  ASSUME IntInv, [InterruptNext]_intVars
  PROVE  IntInv'
<1>1. ASSUME NEW d \in Devices, Schedule(d)
      PROVE  IntInv'
  BY <1>1, ScheduleInv
<1>2. CASE Enable \/ UserInstruction
  BY <1>2, OneTickInv
<1>3. CASE Idle
  BY <1>3, IdleInv
<1>4. CASE Fire
  BY <1>4, FireInv
<1>5. CASE EndTick \/ EndIdle
  BY <1>5, EndCheckInv
<1>6. CASE Disable \/ EnterUser \/ Trap
  <2>1. /\ UNCHANGED <<totalTicks, pending, intCount, inHandler, yieldOnReturn, checking, fired>>
        /\ status' \in {"System", "User"} /\ status # "Idle"
    BY <1>6 DEF Disable, EnterUser, Trap, Kernel
  <2>2. IntTypes'
    BY <2>1 DEF IntInv, IntTypes
  <2> QED  BY <2>1, <2>2 DEF IntInv, QueueInv, TimeInv, IsPending
<1>7. CASE UNCHANGED intVars
  BY <1>7 DEF intVars, IntInv, IntTypes, QueueInv, TimeInv, IsPending, Due
<1> QED  BY <1>1, <1>2, <1>3, <1>4, <1>5, <1>6, <1>7 DEF InterruptNext

\* The invariant gives what is checked of the clock.
LEMMA IntInvExact == IntInv => ClockExact
<1> SUFFICES ASSUME IntInv PROVE ClockExact
  OBVIOUS
<1>1. ASSUME NEW d \in Kinds
      PROVE  Cardinality({i \in 1..Len(pending) : pending[i].device = d}) = intCount[d]
  <2> DEFINE here == {i \in 1..Len(pending) : pending[i].device = d}
  <2>1. /\ Cardinality(here) \in 0..1
        /\ Cardinality(here) = 1 <=> \E i \in here : TRUE
    <3>1. \A i, j \in here : i = j
      BY DEF IntInv, QueueInv, OnePerDevice
    <3> QED  BY <3>1, AtMostOne
  <2>2. intCount[d] \in 0..1 /\ (intCount[d] = 1 <=> \E i \in here : TRUE)
    BY DEF IntInv, IntTypes, QueueInv, IsPending
  <2> HIDE DEF here
  <2>3. Cardinality(here) = intCount[d]
    BY <2>1, <2>2
  <2> QED  BY <2>3 DEF here
<1>2. \A d \in Kinds : intCount[d] <= 1
  BY DEF IntInv, IntTypes
<1>3. checking = "no" => \A i \in 1..Len(pending) : pending[i].when > totalTicks
  BY DEF IntInv, TimeInv, Holds
<1> QED  BY <1>1, <1>2, <1>3 DEF ClockExact, IntInv, IntTypes, QueueInv, TimeInv

\* The interrupts' invariant holds of every reachable state, for any delays.
THEOREM InterruptInvariant == InterruptSpec => []IntInv
BY InterruptInitInv, InterruptNextInv, PTL DEF InterruptSpec

\* ClockExact for any devices and delays and any length of the run: no interrupt
\* comes early or a tick late, and the timer is always armed.
THEOREM ClockIsExact == InterruptSpec => []ClockExact
BY InterruptInvariant, IntInvExact, PTL

\* InScheduledOrder for any devices and delays: the queue is served in the order
\* of its times, and for one time in the order of scheduling.
THEOREM InterruptOrder == InterruptSpec => InScheduledOrder
<1> DEFINE Ordered ==
      /\ fired'.when >= fired.when
      /\ \A i \in 1..Len(pending'), j \in 1..Len(pending') :
           i < j /\ (\E k \in 1..Len(pending) : pending[k] = pending'[j])
                 /\ (\A k \in 1..Len(pending) : pending[k] # pending'[i])
             => pending'[i].when < pending'[j].when
<1>1. IntInv /\ [InterruptNext]_intVars => [Ordered]_intVars
  <2> SUFFICES ASSUME IntInv, InterruptNext
               PROVE  Ordered
    OBVIOUS
  <2>1. ASSUME fired'.when >= fired.when,
               \A i, j \in 1..Len(pending') : i < j /\ ~Holds(pending, pending'[i]) =>
                 pending'[i].when < pending'[j].when
        PROVE  Ordered
    BY <2>1 DEF Holds
  <2> HIDE DEF Ordered
  <2>2. ASSUME NEW d \in Devices, Schedule(d)
        PROVE  Ordered
    <3> DEFINE e == [device |-> d, when |-> totalTicks + Delay[d]]
    <3>1. e \in Entries /\ e.device = d
      BY InterruptAssumption DEF IntInv, IntTypes, Entries, Kinds
    <3>2. /\ pending \in Seq(Entries) /\ InOrder(pending) /\ OnePerDevice(pending)
          /\ \A i \in 1..Len(pending) : pending[i].device # e.device
          /\ pending' = Insert(e, pending)
      BY <2>2, <3>1 DEF Schedule, IntInv, IntTypes, QueueInv, IsPending
    <3> HIDE DEF e
    <3>3. /\ \A x : Holds(pending', x) <=> x = e \/ Holds(pending, x)
          /\ \A i, j \in 1..Len(pending') : i < j /\ pending'[i] = e => e.when < pending'[j].when
      BY <3>1, <3>2, InsertKeeps
    <3>4. \A i \in 1..Len(pending') : Holds(pending', pending'[i])
      BY DEF Holds
    <3>5. fired' = fired /\ fired.when \in Nat
      BY <2>2 DEF Schedule, IntInv, IntTypes
    <3> QED  BY <3>3, <3>4, <3>5, <2>1
  <2>3. CASE Fire
    <3>1. \A i, j \in 1..Len(pending') : i < j /\ ~Holds(pending, pending'[i]) =>
             pending'[i].when < pending'[j].when
      BY <2>3, FireQueue
    <3>2. Holds(pending, Head(pending))
      BY <2>3, FireQueue
    <3>3. fired'.when = Head(pending).when /\ fired'.when >= fired.when
      BY <2>3, <3>2 DEF Fire, IntInv, TimeInv
    <3> QED  BY <3>1, <3>3, <2>1
  <2>4. CASE \/ Disable \/ Enable \/ UserInstruction \/ EnterUser \/ Trap \/ Idle
             \/ EndTick \/ EndIdle
    <3>1. pending' = pending /\ fired' = fired /\ fired.when \in Nat
      BY <2>4 DEF Disable, Enable, UserInstruction, EnterUser, Trap, Idle, EndTick, EndIdle,
         OneTick, IntInv, IntTypes
    <3>2. \A i \in 1..Len(pending') : Holds(pending, pending'[i])
      BY <3>1 DEF Holds
    <3> QED  BY <3>1, <3>2, <2>1
  <2> QED  BY <2>2, <2>3, <2>4 DEF InterruptNext
<1> QED  BY <1>1, InterruptInvariant, PTL DEF InterruptSpec, InScheduledOrder

-----------------------------------------------------------------------------
(***************************************************************************)
(* The network and the post office.                                        *)
(***************************************************************************)

Places == {"hello", "helloInPipe", "helloSent", "getHello", "ack", "ackInPipe", "ackSent",
           "getAck", "done"}

MailOf(h) == {m \in Messages : m.to = h}

MailTypes ==
  /\ pipe \in [Hosts -> {"absent", "listening", "connected", "written"}]
  /\ packet \in [Hosts -> Messages \cup {NoMessage}]
  /\ inHdr \in [Hosts -> Messages \cup {NoMessage}]
  /\ carried \in [Hosts -> Messages \cup {NoMessage}]
  /\ \A h \in Hosts : {packet[h], inHdr[h], carried[h]} \subseteq MailOf(h) \cup {NoMessage}
  /\ boxes \in [Hosts -> [{0, 1} -> Seq(Messages)]]
  /\ \A h \in Hosts, b \in {0, 1} : \A i \in 1..Len(boxes[h][b]) :
       boxes[h][b][i].to = h /\ Box(boxes[h][b][i]) = b
  /\ available \in [Hosts -> 0..1]
  /\ worker \in [Hosts -> {"wait", "receive", "put"}]

SendTypes ==
  /\ sendLock \in [Hosts -> TestThreads \cup {NoClient}]
  /\ sendBusy \in [Hosts -> BOOLEAN]
  /\ messageSent \in [Hosts -> 0..1]
  /\ step \in [TestThreads -> Places]
  /\ inMail \in [TestThreads -> Messages \cup {NoMessage}]

PostTypes == MailTypes /\ SendTypes

\* A thread answers a message that it has received.
MailKept ==
  \A t \in TestThreads :
    step[t] \in {"ack", "ackInPipe", "ackSent", "getAck", "done"} => inMail[t] \in Messages

HasSendLock(t) == step[t] \in {"helloInPipe", "helloSent", "ackInPipe", "ackSent"}

\* The send lock, and the interrupt or the V to come for the thread that holds it.
SendInTurn ==
  \A h \in Hosts :
    /\ \A t \in Clients[h] : HasSendLock(t) <=> sendLock[h] = t
    /\ sendLock[h] # NoClient => sendLock[h] \in Clients[h]
    /\ sendLock[h] = NoClient => ~sendBusy[h] /\ messageSent[h] = 0
    /\ sendLock[h] # NoClient => (sendBusy[h] <=> messageSent[h] = 0)

\* The device, messageAvailable and the postal worker.
MailAnnounced ==
  \A h \in Hosts :
    /\ pipe[h] = "written" => packet[h] \in Messages
    /\ inHdr[h] # NoMessage <=> available[h] = 1 \/ worker[h] = "receive"
    /\ worker[h] = "receive" => available[h] = 0
    /\ worker[h] = "put" => carried[h] \in Messages

InABox(m) == \E i \in 1..Len(boxes[m.to][Box(m)]) : boxes[m.to][Box(m)][i] = m

OnItsWay(m) ==
  packet[m.to] = m \/ inHdr[m.to] = m \/ carried[m.to] = m \/ InABox(m)

\* A message is in one place at most, and only between its Send and its Receive.
MailOnce ==
  /\ \A m \in Messages :
       /\ packet[m.to] = m => inHdr[m.to] # m /\ carried[m.to] # m /\ ~InABox(m)
       /\ inHdr[m.to] = m => carried[m.to] # m /\ ~InABox(m)
       /\ carried[m.to] = m => ~InABox(m)
       /\ OnItsWay(m) => m \in Sent \ lost
  /\ \A h \in Hosts, b \in {0, 1} : \A i, j \in 1..Len(boxes[h][b]) :
       boxes[h][b][i] = boxes[h][b][j] => i = j
  /\ lost \subseteq Sent

PostInv == PostTypes /\ MailKept /\ SendInTurn /\ MailAnnounced /\ MailOnce

\* There are two machines, each the other's far one.
LEMMA HostFacts ==
  /\ Hosts = {0, 1}
  /\ \A h \in Hosts : Far(h) \in Hosts
  /\ \A t \in TestThreads : HostOf(t) \in Hosts /\ t \in Clients[HostOf(t)]
  /\ \A h \in Hosts : \A t \in Clients[h] : t \in TestThreads /\ HostOf(t) = h
<1>1. Hosts = {0, 1} /\ \A h \in Hosts : Far(h) \in Hosts
  BY PostAssumption DEF Far
<1>2. ASSUME NEW t \in TestThreads
      PROVE  HostOf(t) \in Hosts /\ t \in Clients[HostOf(t)]
  <2>1. \E h \in Hosts : t \in Clients[h]
    BY DEF TestThreads
  <2> QED  BY <2>1 DEF HostOf
<1>3. ASSUME NEW h \in Hosts, NEW t \in Clients[h]
      PROVE  t \in TestThreads /\ HostOf(t) = h
  <2>1. t \in TestThreads
    BY DEF TestThreads
  <2>2. HostOf(t) \in {0, 1} /\ t \in Clients[HostOf(t)] /\ h \in {0, 1}
    BY <2>1, <1>1, <1>2
  <2>3. Clients[0] \cap Clients[1] = {}
    BY PostAssumption
  <2> QED  BY <2>1, <2>2, <2>3
<1> QED  BY <1>1, <1>2, <1>3

\* The first message of a test thread is a message.
LEMMA HelloIsMessage ==
  ASSUME NEW t \in TestThreads
  PROVE  Hello(t) \in Messages /\ Hello(t).from = t /\ Hello(t).kind = "hello"
BY HostFacts DEF Hello, Messages

\* Whether a message has been sent is seen from where its sender is.
LEMMA SentIs ==
  ASSUME NEW m
  PROVE  m \in Sent <=> /\ m \in Messages /\ SentBy(m.from, m.kind)
                        /\ m.kind = "hello" => m = Hello(m.from)
<1>1. m \in Messages => m.from \in TestThreads /\ m.kind \in {"hello", "ack"}
  BY DEF Messages
<1>2. ASSUME m \in Sent
      PROVE  /\ m \in Messages /\ SentBy(m.from, m.kind)
             /\ m.kind = "hello" => m = Hello(m.from)
  BY <1>2, HelloIsMessage DEF Sent
<1>3. ASSUME m \in Messages, SentBy(m.from, m.kind), m.kind = "hello" => m = Hello(m.from)
      PROVE  m \in Sent
  BY <1>1, <1>3 DEF Sent
<1> QED  BY <1>2, <1>3

\* The same of the next state.
LEMMA SentIsNext ==
  ASSUME NEW m
  PROVE  m \in Sent' <=> /\ m \in Messages /\ SentBy(m.from, m.kind)'
                         /\ m.kind = "hello" => m = Hello(m.from)
<1>1. m \in Messages => m.from \in TestThreads /\ m.kind \in {"hello", "ack"}
  BY DEF Messages
<1>2. ASSUME m \in Sent'
      PROVE  /\ m \in Messages /\ SentBy(m.from, m.kind)'
             /\ m.kind = "hello" => m = Hello(m.from)
  BY <1>2, HelloIsMessage DEF Sent
<1>3. ASSUME m \in Messages, SentBy(m.from, m.kind)', m.kind = "hello" => m = Hello(m.from)
      PROVE  m \in Sent'
  BY <1>1, <1>3 DEF Sent
<1> QED  BY <1>2, <1>3

\* A step that is not the end of a hand-over changes nothing of what is sent.
LEMMA SentStays ==
  ASSUME step \in [TestThreads -> Places], NEW t \in TestThreads, NEW s,
         step' = [step EXCEPT ![t] = s],
         \/ step[t] = "hello" /\ s = "helloInPipe"
         \/ step[t] = "helloSent" /\ s = "getHello"
         \/ step[t] = "getHello" /\ s = "ack"
         \/ step[t] = "ack" /\ s = "ackInPipe"
         \/ step[t] = "ackSent" /\ s = "getAck"
         \/ step[t] = "getAck" /\ s = "done"
  PROVE  Sent' = Sent
<1>1. \A u \in TestThreads : \A k \in {"hello", "ack"} : SentBy(u, k)' <=> SentBy(u, k)
  BY DEF SentBy
<1>2. \A m \in Messages : m.from \in TestThreads /\ m.kind \in {"hello", "ack"}
  BY DEF Messages
<1>3. \A m : m \in Sent' <=> m \in Sent
  BY <1>1, <1>2, SentIs, SentIsNext
<1> QED  BY <1>3

\* The message that a thread sends in NetworkTest.
OwnMessage(t, kind) == IF kind = "hello" THEN Hello(t) ELSE Ack(t)

\* The message that a test thread is about to send is its own, of that kind, and not sent yet.
LEMMA OwnMessageIs ==
  ASSUME PostTypes, MailKept, NEW t \in TestThreads, NEW kind \in {"hello", "ack"},
         step[t] \in {kind, InPipe[kind]}
  PROVE  /\ OwnMessage(t, kind) \in Messages
         /\ OwnMessage(t, kind).from = t /\ OwnMessage(t, kind).kind = kind
         /\ OwnMessage(t, kind) \notin Sent
<1>1. CASE kind = "hello"
  <2>1. step[t] \in {"hello", "helloInPipe"}
    BY <1>1 DEF InPipe
  <2>2. ~SentBy(t, "hello")
    BY <2>1 DEF SentBy
  <2> QED  BY <1>1, <2>2, HelloIsMessage, SentIs DEF OwnMessage
<1>2. CASE kind = "ack"
  <2>1. step[t] \in {"ack", "ackInPipe"}
    BY <1>2 DEF InPipe
  <2>2. ~SentBy(t, "ack")
    BY <2>1 DEF SentBy
  <2>3. inMail[t] \in Messages
    BY <2>1 DEF MailKept
  <2>4. Ack(t) \in Messages /\ Ack(t).from = t /\ Ack(t).kind = "ack"
    BY <2>3, HostFacts DEF Ack, Messages
  <2> QED  BY <1>2, <2>2, <2>4, SentIs DEF OwnMessage
<1> QED  BY <1>1, <1>2

\* The end of a hand-over: the message is sent from then on.
LEMMA SentGrows ==
  ASSUME PostTypes, MailKept, NEW t \in TestThreads, NEW kind \in {"hello", "ack"},
         step[t] \in {kind, InPipe[kind]}, step' = [step EXCEPT ![t] = Handed[kind]]
  PROVE  Sent \subseteq Sent' /\ OwnMessage(t, kind) \in Sent'
<1>1. \/ step[t] \in {"hello", "helloInPipe"} /\ Handed[kind] = "helloSent"
      \/ step[t] \in {"ack", "ackInPipe"} /\ Handed[kind] = "ackSent"
  BY DEF InPipe, Handed
<1>2. \A u \in TestThreads : \A k \in {"hello", "ack"} : SentBy(u, k) => SentBy(u, k)'
  BY <1>1 DEF SentBy, PostTypes, SendTypes
<1>3. SentBy(t, kind)'
  BY <1>1 DEF SentBy, PostTypes, SendTypes, InPipe, Handed
<1>4. \A m \in Messages : m.from \in TestThreads /\ m.kind \in {"hello", "ack"}
  BY DEF Messages
<1>5. \A m : m \in Sent => m \in Sent'
  BY <1>2, <1>4, SentIs, SentIsNext
<1>6. OwnMessage(t, kind) \in Sent'
  <2>1. kind = "hello" => OwnMessage(t, kind) = Hello(t)
    BY DEF OwnMessage
  <2> QED  BY <1>3, <2>1, OwnMessageIs, SentIsNext
<1> QED  BY <1>5, <1>6

\* The network starts with no message anywhere.
LEMMA PostInitInv == PostInit => PostInv
<1> SUFFICES ASSUME PostInit PROVE PostInv
  OBVIOUS
<1>1. /\ \A h \in Hosts : /\ pipe[h] = "absent" /\ packet[h] = NoMessage /\ inHdr[h] = NoMessage
                          /\ carried[h] = NoMessage /\ available[h] = 0 /\ worker[h] = "wait"
                          /\ sendLock[h] = NoClient /\ sendBusy[h] = FALSE /\ messageSent[h] = 0
                          /\ \A b \in {0, 1} : boxes[h][b] = <<>>
      /\ \A t \in TestThreads : step[t] = "hello" /\ inMail[t] = NoMessage
      /\ lost = {}
  BY DEF PostInit
<1>2. PostTypes
  <2>1. /\ pipe \in [Hosts -> {"absent", "listening", "connected", "written"}]
        /\ worker \in [Hosts -> {"wait", "receive", "put"}]
        /\ step \in [TestThreads -> Places]
    BY DEF PostInit, Places
  <2>2. /\ packet \in [Hosts -> Messages \cup {NoMessage}]
        /\ inHdr \in [Hosts -> Messages \cup {NoMessage}]
        /\ carried \in [Hosts -> Messages \cup {NoMessage}]
        /\ inMail \in [TestThreads -> Messages \cup {NoMessage}]
        /\ sendLock \in [Hosts -> TestThreads \cup {NoClient}]
    BY DEF PostInit
  <2>3. available \in [Hosts -> 0..1] /\ messageSent \in [Hosts -> 0..1]
    BY DEF PostInit
  <2>4. sendBusy \in [Hosts -> BOOLEAN]
    BY DEF PostInit
  <2>5. boxes \in [Hosts -> [{0, 1} -> Seq(Messages)]]
    <3>1. [b \in {0, 1} |-> <<>>] \in [{0, 1} -> Seq(Messages)]
      OBVIOUS
    <3> QED  BY <3>1 DEF PostInit
  <2> QED  BY <1>1, <2>1, <2>2, <2>3, <2>4, <2>5 DEF PostTypes, MailTypes, SendTypes
<1>3. NoMessage \notin Messages /\ NoClient \notin TestThreads
  BY PostAssumption
<1>4. MailKept /\ SendInTurn
  BY <1>1, <1>3, HostFacts DEF MailKept, SendInTurn, HasSendLock
<1>5. MailAnnounced
  BY <1>1 DEF MailAnnounced
<1>6. MailOnce
  <2>1. \A m \in Messages : m.to \in Hosts /\ Box(m) \in {0, 1}
    BY DEF Messages, Box
  <2>2. \A m \in Messages : ~OnItsWay(m) /\ ~InABox(m)
    BY <1>1, <1>3, <2>1 DEF OnItsWay, InABox
  <2> QED  BY <1>1, <1>3, <2>1, <2>2 DEF MailOnce, OnItsWay
<1> QED  BY <1>2, <1>4, <1>5, <1>6 DEF PostInv

\* No mail moves, and nothing is lost but what has not been sent before.
LEMMA MailRests ==
  ASSUME PostInv, UNCHANGED <<packet, inHdr, carried, boxes>>,
         Sent \subseteq Sent', lost' \subseteq lost \cup (Sent' \ Sent)
  PROVE  MailOnce'
<1>1. \A m \in Messages : (InABox(m)' <=> InABox(m)) /\ (OnItsWay(m)' <=> OnItsWay(m))
  BY DEF InABox, OnItsWay
<1>2. lost' \subseteq Sent'
  BY DEF PostInv, MailOnce
<1>3. \A m \in Messages : OnItsWay(m) => m \in Sent' \ lost'
  BY DEF PostInv, MailOnce
<1> QED  BY <1>1, <1>2, <1>3 DEF PostInv, MailOnce

\* Send takes the lock and starts the device.
LEMMA SendMessageInv ==
  ASSUME PostInv, NEW h \in Hosts, NEW t \in Clients[h], NEW kind \in {"hello", "ack"},
         Send(h, t, kind, OwnMessage(t, kind))
  PROVE  PostInv'
<1> DEFINE m == OwnMessage(t, kind)
<1>1. /\ UNCHANGED <<pipe, packet, inHdr, available, worker, carried, boxes, messageSent, inMail>>
      /\ step[t] = kind /\ sendLock[h] = NoClient
      /\ sendLock' = [sendLock EXCEPT ![h] = t]
      /\ sendBusy' = [sendBusy EXCEPT ![h] = TRUE]
      /\ \/ lost' = lost \cup {m} /\ step' = [step EXCEPT ![t] = Handed[kind]]
         \/ lost' = lost /\ step' = [step EXCEPT ![t] = InPipe[kind]]
  BY DEF Send, Advance
<1>2. t \in TestThreads /\ t # NoClient /\ \A g \in Hosts : t \in Clients[g] => g = h
  BY HostFacts, PostAssumption
<1>3. m \in Messages /\ m \notin Sent
  BY <1>1, <1>2, OwnMessageIs DEF PostInv
<1>4. InPipe[kind] \in {"helloInPipe", "ackInPipe"} /\ Handed[kind] \in {"helloSent", "ackSent"}
  BY DEF InPipe, Handed
<1>5. PICK s \in {"helloInPipe", "ackInPipe", "helloSent", "ackSent"} :
           step' = [step EXCEPT ![t] = s]
  BY <1>1, <1>4
<1>6. PostTypes'
  <2>1. step' \in [TestThreads -> Places]
    BY <1>5 DEF PostInv, PostTypes, SendTypes, Places
  <2>2. sendBusy' \in [Hosts -> BOOLEAN]
    BY <1>1 DEF PostInv, PostTypes, SendTypes
  <2>3. sendLock' \in [Hosts -> TestThreads \cup {NoClient}]
    BY <1>1, <1>2 DEF PostInv, PostTypes, SendTypes
  <2>4. MailTypes'
    BY <1>1 DEF PostInv, PostTypes, MailTypes
  <2> QED  BY <1>1, <2>1, <2>2, <2>3, <2>4 DEF PostInv, PostTypes, SendTypes
<1>7. MailKept'
  <2>1. step[t] = "ack" \/ s \in {"helloInPipe", "helloSent"}
    BY <1>1, <1>2, <1>5 DEF PostInv, PostTypes, SendTypes, InPipe, Handed
  <2> QED  BY <1>1, <1>5, <2>1 DEF PostInv, PostTypes, SendTypes, MailKept
<1>8. SendInTurn'
  <2>1. \A u \in TestThreads : HasSendLock(u)' <=> u = t \/ HasSendLock(u)
    BY <1>5 DEF PostInv, PostTypes, SendTypes, HasSendLock
  <2>2. /\ sendLock'[h] = t /\ sendBusy'[h] /\ messageSent[h] = 0
        /\ \A g \in Hosts \ {h} : sendLock'[g] = sendLock[g] /\ sendBusy'[g] = sendBusy[g]
    BY <1>1 DEF PostInv, PostTypes, SendTypes, SendInTurn
  <2>3. \A u \in Clients[h] : ~HasSendLock(u)
    BY <1>1, <1>2, HostFacts, PostAssumption DEF PostInv, SendInTurn
  <2> QED  BY <1>1, <1>2, <2>1, <2>2, <2>3, HostFacts DEF PostInv, SendInTurn
<1>9. MailAnnounced'
  BY <1>1 DEF PostInv, MailAnnounced
<1>10. Sent \subseteq Sent' /\ lost' \subseteq lost \cup (Sent' \ Sent)
  <2>1. CASE lost' = lost \cup {m} /\ step' = [step EXCEPT ![t] = Handed[kind]]
    BY <1>1, <1>2, <1>3, <2>1, SentGrows DEF PostInv
  <2>2. CASE lost' = lost /\ step' = [step EXCEPT ![t] = InPipe[kind]]
    <3>1. \/ step[t] = "hello" /\ InPipe[kind] = "helloInPipe"
          \/ step[t] = "ack" /\ InPipe[kind] = "ackInPipe"
      BY <1>1 DEF InPipe
    <3> QED  BY <1>2, <2>2, <3>1, SentStays DEF PostInv, PostTypes, SendTypes
  <2> QED  BY <1>1, <2>1, <2>2
<1>11. MailOnce'
  BY <1>1, <1>10, MailRests
<1> QED  BY <1>6, <1>7, <1>8, <1>9, <1>11 DEF PostInv

\* A step of a thread that keeps or lacks the lock before and after, and that receives nothing.
LEMMA ThreadMoves ==
  ASSUME PostInv, NEW t \in TestThreads, NEW s \in Places, step' = [step EXCEPT ![t] = s],
         UNCHANGED <<sendLock, sendBusy, messageSent, inMail>>,
         HasSendLock(t) <=> s \in {"helloInPipe", "helloSent", "ackInPipe", "ackSent"},
         \/ s \in {"helloInPipe", "helloSent", "getHello"}
         \/ step[t] \in {"ack", "ackInPipe", "ackSent", "getAck"}
  PROVE  SendTypes' /\ MailKept' /\ SendInTurn'
<1>1. step' \in [TestThreads -> Places]
  BY DEF PostInv, PostTypes, SendTypes
<1>2. SendTypes'
  <2>1. sendBusy' \in [Hosts -> BOOLEAN]
    BY DEF PostInv, PostTypes, SendTypes
  <2> QED  BY <1>1, <2>1 DEF PostInv, PostTypes, SendTypes
<1>3. \A u \in TestThreads : step'[u] = IF u = t THEN s ELSE step[u]
  BY DEF PostInv, PostTypes, SendTypes
<1>4. MailKept'
  BY <1>3 DEF PostInv, MailKept
<1>5. \A u \in TestThreads : HasSendLock(u)' <=> HasSendLock(u)
  BY <1>3 DEF HasSendLock
<1>6. SendInTurn'
  BY <1>5, HostFacts DEF PostInv, SendInTurn
<1> QED  BY <1>2, <1>4, <1>6

\* Where a thread is when it is in SendToPipe, and where it is after.
LEMMA InPipeFacts ==
  ASSUME PostInv, NEW t \in TestThreads, NEW kind \in {"hello", "ack"}, step[t] = InPipe[kind]
  PROVE  /\ HasSendLock(t) /\ Handed[kind] \in Places
         /\ Handed[kind] \in {"helloSent", "ackSent"}
         /\ Handed[kind] = "helloSent" \/ step[t] = "ackInPipe"
         /\ OnItsWay(OwnMessage(t, kind)) = FALSE
         /\ OwnMessage(t, kind) \in Messages \ Sent
<1>1. /\ HasSendLock(t) /\ Handed[kind] \in Places
      /\ Handed[kind] \in {"helloSent", "ackSent"}
      /\ Handed[kind] = "helloSent" \/ step[t] = "ackInPipe"
  BY DEF HasSendLock, Places, Handed, InPipe
<1>2. OwnMessage(t, kind) \in Messages \ Sent
  BY OwnMessageIs DEF PostInv
<1>3. ~OnItsWay(OwnMessage(t, kind))
  BY <1>2 DEF PostInv, MailOnce
<1>4. OnItsWay(OwnMessage(t, kind)) = FALSE
  BY <1>3 DEF OnItsWay, InABox
<1> QED  BY <1>1, <1>2, <1>4

\* One attempt: the pipe is taken, or it is not and the last attempt loses the message.
LEMMA TryPipeInv ==
  ASSUME PostInv, NEW h \in Hosts, NEW t \in Clients[h], NEW kind \in {"hello", "ack"},
         TryPipe(h, t, kind, OwnMessage(t, kind))
  PROVE  PostInv'
<1> DEFINE m == OwnMessage(t, kind)
<1>1. /\ UNCHANGED <<packet, inHdr, available, worker, carried, boxes, sendLock, sendBusy,
                     messageSent, inMail>>
      /\ step[t] = InPipe[kind]
      /\ \/ pipe' = [pipe EXCEPT ![m.to] = "connected"] \/ pipe' = pipe
      /\ \/ lost' = lost \cup {m} /\ step' = [step EXCEPT ![t] = Handed[kind]]
         \/ lost' = lost /\ step' = step
  BY DEF TryPipe, Advance
<1>2. t \in TestThreads
  BY HostFacts
<1>3. MailTypes'
  <2>0. m.to \in Hosts
    BY <1>1, <1>2, InPipeFacts DEF Messages
  <2>1. pipe' \in [Hosts -> {"absent", "listening", "connected", "written"}]
    <3>1. pipe \in [Hosts -> {"absent", "listening", "connected", "written"}]
      BY DEF PostInv, PostTypes, MailTypes
    <3> QED  BY <1>1, <2>0, <3>1
  <2> QED  BY <1>1, <2>1 DEF PostInv, PostTypes, MailTypes
<1>4. MailAnnounced'
  <2>1. \A g \in Hosts : pipe'[g] = "written" => pipe[g] = "written"
    BY <1>1 DEF PostInv, PostTypes, MailTypes
  <2> QED  BY <1>1, <2>1 DEF PostInv, MailAnnounced
<1>5. CASE lost' = lost /\ step' = step
  <2>1. SendTypes' /\ MailKept' /\ SendInTurn'
    <3>1. UNCHANGED <<step, sendLock, sendBusy, messageSent, inMail>>
      BY <1>1, <1>5
    <3>2. SendTypes' /\ MailKept'
      BY <3>1 DEF PostInv, PostTypes, SendTypes, MailKept
    <3>3. SendInTurn'
      BY <3>1 DEF PostInv, SendInTurn, HasSendLock
    <3> QED  BY <3>2, <3>3
  <2>2. Sent' = Sent
    BY <1>5 DEF Sent, SentBy
  <2>3. MailOnce'
    BY <1>1, <1>5, <2>2, MailRests
  <2> QED  BY <1>3, <1>4, <2>1, <2>3 DEF PostInv, PostTypes
<1>6. CASE lost' = lost \cup {m} /\ step' = [step EXCEPT ![t] = Handed[kind]]
  <2>1. SendTypes' /\ MailKept' /\ SendInTurn'
    BY <1>1, <1>2, <1>6, InPipeFacts, ThreadMoves
  <2>2. Sent \subseteq Sent' /\ m \in Sent'
    BY <1>1, <1>2, <1>6, SentGrows DEF PostInv
  <2>3. m \notin Sent
    BY <1>1, <1>2, InPipeFacts
  <2>4. MailOnce'
    BY <1>1, <1>6, <2>2, <2>3, MailRests
  <2> QED  BY <1>3, <1>4, <2>1, <2>4 DEF PostInv, PostTypes
<1> QED  BY <1>1, <1>5, <1>6

\* The packet is written, into a pipe that nobody else writes to.
LEMMA WritePipeInv ==
  ASSUME PostInv, NEW h \in Hosts, NEW t \in Clients[h], NEW kind \in {"hello", "ack"},
         WritePipe(h, t, kind, OwnMessage(t, kind))
  PROVE  PostInv'
<1> DEFINE m == OwnMessage(t, kind)
<1>1. /\ UNCHANGED <<inHdr, available, worker, carried, boxes, sendLock, sendBusy,
                     messageSent, inMail>>
      /\ step[t] = InPipe[kind] /\ step' = [step EXCEPT ![t] = Handed[kind]]
      /\ \/ /\ pipe' = [pipe EXCEPT ![m.to] = "written"]
            /\ packet' = [packet EXCEPT ![m.to] = m] /\ lost' = lost
         \/ lost' = lost \cup {m} /\ pipe' = pipe /\ packet' = packet
  BY DEF WritePipe, Advance
<1>2. t \in TestThreads
  BY HostFacts
<1>3. m \in Messages /\ m \notin Sent /\ ~OnItsWay(m)
  BY <1>1, <1>2, InPipeFacts
<1>4. SendTypes' /\ MailKept' /\ SendInTurn'
  BY <1>1, <1>2, InPipeFacts, ThreadMoves
<1>5. Sent \subseteq Sent' /\ m \in Sent'
  BY <1>1, <1>2, SentGrows DEF PostInv
<1>6. CASE lost' = lost \cup {m} /\ pipe' = pipe /\ packet' = packet
  <2>0. UNCHANGED <<pipe, packet, inHdr, available, worker, carried, boxes>>
    BY <1>1, <1>6
  <2>1. MailTypes' /\ MailAnnounced'
    <3>1. MailTypes'
      BY <2>0 DEF PostInv, PostTypes, MailTypes
    <3>2. MailAnnounced'
      BY <2>0 DEF PostInv, MailAnnounced
    <3> QED  BY <3>1, <3>2
  <2>2. MailOnce'
    BY <1>1, <1>3, <1>5, <1>6, MailRests
  <2> QED  BY <1>4, <2>1, <2>2 DEF PostInv, PostTypes
<1>7. CASE /\ pipe' = [pipe EXCEPT ![m.to] = "written"]
           /\ packet' = [packet EXCEPT ![m.to] = m] /\ lost' = lost
  <2>1. m.to \in Hosts
    BY <1>3 DEF Messages
  <2>2. \A g \in Hosts : packet'[g] = IF g = m.to THEN m ELSE packet[g]
    BY <1>7, <2>1 DEF PostInv, PostTypes, MailTypes
  <2>3. MailTypes'
    <3>1. pipe' \in [Hosts -> {"absent", "listening", "connected", "written"}]
      BY <1>7, <2>1 DEF PostInv, PostTypes, MailTypes
    <3>2. packet' \in [Hosts -> Messages \cup {NoMessage}]
      BY <1>3, <1>7, <2>1 DEF PostInv, PostTypes, MailTypes
    <3>3. \A g \in Hosts : packet[g] \in MailOf(g) \cup {NoMessage}
      BY DEF PostInv, PostTypes, MailTypes
    <3>4. m \in MailOf(m.to)
      BY <1>3 DEF MailOf
    <3>5. \A g \in Hosts : packet'[g] \in MailOf(g) \cup {NoMessage}
      BY <2>2, <3>3, <3>4
    <3> QED  BY <1>1, <3>1, <3>2, <3>5 DEF PostInv, PostTypes, MailTypes
  <2>4. MailAnnounced'
    <3>1. \A g \in Hosts : pipe'[g] = "written" => packet'[g] \in Messages
      BY <1>3, <1>7, <2>1, <2>2 DEF PostInv, PostTypes, MailTypes, MailAnnounced
    <3> QED  BY <1>1, <3>1 DEF PostInv, MailAnnounced
  <2>5. \A x \in Messages : x.to \in Hosts /\ (InABox(x)' <=> InABox(x))
    BY <1>1 DEF InABox, Messages
  <2>6. \A x \in Messages : OnItsWay(x)' => OnItsWay(x) \/ x = m
    BY <1>1, <2>2, <2>5 DEF OnItsWay
  <2>7. m \notin lost
    BY <1>3 DEF PostInv, MailOnce
  <2>8. \A x \in Messages : OnItsWay(x)' => x \in Sent' \ lost'
    BY <1>5, <1>7, <2>6, <2>7 DEF PostInv, MailOnce
  <2>9. \A x \in Messages :
           packet'[x.to] = x => inHdr'[x.to] # x /\ carried'[x.to] # x /\ ~InABox(x)'
    <3> SUFFICES ASSUME NEW x \in Messages, packet'[x.to] = x
                 PROVE  inHdr[x.to] # x /\ carried[x.to] # x /\ ~InABox(x)
      BY <1>1, <2>5
    <3>1. CASE x = m
      BY <1>3, <3>1 DEF OnItsWay
    <3>2. CASE x # m
      BY <2>2, <2>5, <3>2 DEF PostInv, MailOnce
    <3> QED  BY <3>1, <3>2
  <2>10. MailOnce'
    <3>1. \A x \in Messages : /\ inHdr'[x.to] = x => carried'[x.to] # x /\ ~InABox(x)'
                              /\ carried'[x.to] = x => ~InABox(x)'
      BY <1>1, <2>5 DEF PostInv, MailOnce
    <3>2. \A g \in Hosts, b \in {0, 1} : \A i, j \in 1..Len(boxes'[g][b]) :
             boxes'[g][b][i] = boxes'[g][b][j] => i = j
      BY <1>1 DEF PostInv, MailOnce
    <3>3. lost' \subseteq Sent'
      BY <1>5, <1>7 DEF PostInv, MailOnce
    <3> QED  BY <2>8, <2>9, <3>1, <3>2, <3>3 DEF MailOnce
  <2> QED  BY <1>4, <2>3, <2>4, <2>10 DEF PostInv, PostTypes
<1> QED  BY <1>1, <1>6, <1>7

\* The interrupt of the device gives the V that the thread with the lock waits for.
LEMMA SendDoneInv ==
  ASSUME PostInv, NEW h \in Hosts, SendDone(h)
  PROVE  PostInv'
<1>1. /\ UNCHANGED <<pipe, packet, inHdr, available, worker, carried, boxes, sendLock, step,
                     inMail, lost>>
      /\ sendBusy[h] /\ sendBusy' = [sendBusy EXCEPT ![h] = FALSE]
      /\ messageSent' = [messageSent EXCEPT ![h] = messageSent[h] + 1]
  BY DEF SendDone
<1>2. MailTypes' /\ MailKept' /\ MailAnnounced' /\ Sent' = Sent
  <2>1. MailTypes'
    BY <1>1 DEF PostInv, PostTypes, MailTypes
  <2>2. MailKept' /\ MailAnnounced'
    BY <1>1 DEF PostInv, MailKept, MailAnnounced
  <2> QED  BY <1>1, <2>1, <2>2 DEF Sent, SentBy
<1>3. sendLock[h] # NoClient /\ messageSent[h] = 0
  BY <1>1 DEF PostInv, SendInTurn
<1>4. SendTypes'
  <2>1. sendBusy' \in [Hosts -> BOOLEAN]
    BY <1>1 DEF PostInv, PostTypes, SendTypes
  <2>2. messageSent' \in [Hosts -> 0..1]
    BY <1>1, <1>3 DEF PostInv, PostTypes, SendTypes
  <2> QED  BY <1>1, <2>1, <2>2 DEF PostInv, PostTypes, SendTypes
<1>5. SendInTurn'
  <2>1. ~sendBusy'[h] /\ messageSent'[h] = 1
    BY <1>1, <1>3 DEF PostInv, PostTypes, SendTypes
  <2>2. \A g \in Hosts \ {h} : sendBusy'[g] = sendBusy[g] /\ messageSent'[g] = messageSent[g]
    BY <1>1 DEF PostInv, PostTypes, SendTypes
  <2>3. \A t : HasSendLock(t)' <=> HasSendLock(t)
    BY <1>1 DEF HasSendLock
  <2> QED  BY <1>1, <1>3, <2>1, <2>2, <2>3 DEF PostInv, SendInTurn
<1>6. MailOnce'
  BY <1>1, <1>2, MailRests
<1> QED  BY <1>2, <1>4, <1>5, <1>6 DEF PostInv, PostTypes

\* Send ends: the V is taken and the lock goes back.
LEMMA EndSendInv ==
  ASSUME PostInv, NEW h \in Hosts, NEW t \in Clients[h], NEW kind \in {"hello", "ack"}, NEW next,
         EndSend(h, t, kind, next),
         \/ kind = "hello" /\ next = "getHello"
         \/ kind = "ack" /\ next = "getAck"
  PROVE  PostInv'
<1>1. /\ UNCHANGED <<pipe, packet, inHdr, available, worker, carried, boxes, sendBusy,
                     inMail, lost>>
      /\ step[t] = Handed[kind] /\ messageSent[h] > 0 /\ step' = [step EXCEPT ![t] = next]
      /\ messageSent' = [messageSent EXCEPT ![h] = messageSent[h] - 1]
      /\ sendLock' = [sendLock EXCEPT ![h] = NoClient]
  BY DEF EndSend, Advance
<1>2. t \in TestThreads /\ t # NoClient
  BY HostFacts, PostAssumption
<1>3. \/ step[t] = "helloSent" /\ next = "getHello"
      \/ step[t] = "ackSent" /\ next = "getAck"
  BY <1>1 DEF Handed
<1>4. MailTypes' /\ MailAnnounced'
  <2>1. MailTypes'
    BY <1>1 DEF PostInv, PostTypes, MailTypes
  <2>2. MailAnnounced'
    BY <1>1 DEF PostInv, MailAnnounced
  <2> QED  BY <2>1, <2>2
<1>5. \A u \in TestThreads : step'[u] = IF u = t THEN next ELSE step[u]
  BY <1>1 DEF PostInv, PostTypes, SendTypes
<1>6. messageSent[h] = 1 /\ sendLock[h] = t /\ ~sendBusy[h]
  <2>1. HasSendLock(t)
    BY <1>3 DEF HasSendLock
  <2>2. sendLock[h] = t
    BY <2>1 DEF PostInv, SendInTurn
  <2>3. messageSent[h] = 1
    BY <1>1 DEF PostInv, PostTypes, SendTypes
  <2>4. ~sendBusy[h]
    BY <1>2, <2>2, <2>3 DEF PostInv, SendInTurn
  <2> QED  BY <2>2, <2>3, <2>4
<1>7. SendTypes'
  <2>1. step' \in [TestThreads -> Places]
    BY <1>1, <1>3 DEF PostInv, PostTypes, SendTypes, Places
  <2>2. messageSent' \in [Hosts -> 0..1]
    BY <1>1, <1>6 DEF PostInv, PostTypes, SendTypes
  <2>3. sendBusy' \in [Hosts -> BOOLEAN]
    BY <1>1 DEF PostInv, PostTypes, SendTypes
  <2>4. sendLock' \in [Hosts -> TestThreads \cup {NoClient}]
    BY <1>1 DEF PostInv, PostTypes, SendTypes
  <2> QED  BY <1>1, <2>1, <2>2, <2>3, <2>4 DEF PostInv, PostTypes, SendTypes
<1>8. MailKept'
  BY <1>1, <1>3, <1>5 DEF PostInv, MailKept
<1>9. SendInTurn'
  <2>1. sendLock'[h] = NoClient /\ messageSent'[h] = 0 /\ ~sendBusy'[h]
    BY <1>1, <1>6 DEF PostInv, PostTypes, SendTypes
  <2>2. \A g \in Hosts \ {h} : sendLock'[g] = sendLock[g] /\ messageSent'[g] = messageSent[g]
                               /\ sendBusy'[g] = sendBusy[g]
    BY <1>1 DEF PostInv, PostTypes, SendTypes
  <2>3. \A u \in TestThreads : HasSendLock(u)' <=> u # t /\ HasSendLock(u)
    BY <1>3, <1>5 DEF HasSendLock
  <2>4. \A u \in Clients[h] : HasSendLock(u) => u = t
    BY <1>6 DEF PostInv, SendInTurn
  <2>5. \A u \in Clients[h] : ~HasSendLock(u)' /\ u # NoClient
    BY <2>3, <2>4, HostFacts, PostAssumption
  <2>6. \A g \in Hosts \ {h} : \A u \in Clients[g] : HasSendLock(u)' <=> HasSendLock(u)
    BY <2>3, HostFacts
  <2> QED  BY <2>1, <2>2, <2>5, <2>6 DEF PostInv, SendInTurn
<1>10. Sent' = Sent
  BY <1>1, <1>2, <1>3, SentStays DEF PostInv, PostTypes, SendTypes
<1>11. MailOnce'
  BY <1>1, <1>10, MailRests
<1> QED  BY <1>4, <1>7, <1>8, <1>9, <1>11 DEF PostInv, PostTypes

\* The threads of NetworkTest rest.
LEMMA ThreadsRest ==
  ASSUME PostInv, UNCHANGED <<sendLock, sendBusy, messageSent, step, inMail>>
  PROVE  SendTypes' /\ MailKept' /\ SendInTurn' /\ Sent' = Sent
<1>1. SendTypes'
  BY DEF PostInv, PostTypes, SendTypes
<1>2. MailKept'
  BY DEF PostInv, MailKept
<1>3. SendInTurn'
  BY DEF PostInv, SendInTurn, HasSendLock
<1>4. Sent' = Sent
  BY DEF Sent, SentBy
<1> QED  BY <1>1, <1>2, <1>3, <1>4

\* A host creates its pipe.
LEMMA BootHostInv ==
  ASSUME PostInv, NEW h \in Hosts, BootHost(h)
  PROVE  PostInv'
<1>1. /\ UNCHANGED <<packet, inHdr, available, worker, carried, boxes, sendLock, sendBusy,
                     messageSent, step, inMail, lost>>
      /\ pipe' = [pipe EXCEPT ![h] = "listening"]
  BY DEF BootHost
<1>2. MailTypes'
  <2>1. pipe' \in [Hosts -> {"absent", "listening", "connected", "written"}]
    BY <1>1 DEF PostInv, PostTypes, MailTypes
  <2> QED  BY <1>1, <2>1 DEF PostInv, PostTypes, MailTypes
<1>3. MailAnnounced'
  <2>1. \A g \in Hosts : pipe'[g] = "written" => pipe[g] = "written"
    BY <1>1 DEF PostInv, PostTypes, MailTypes
  <2> QED  BY <1>1, <2>1 DEF PostInv, MailAnnounced
<1>4. SendTypes' /\ MailKept' /\ SendInTurn' /\ Sent' = Sent
  BY <1>1, ThreadsRest
<1>5. MailOnce'
  BY <1>1, <1>4, MailRests
<1> QED  BY <1>2, <1>3, <1>4, <1>5 DEF PostInv, PostTypes

\* The packet goes from the pipe to the buffer of the device, which was empty.
LEMMA PollNetworkInv ==
  ASSUME PostInv, NEW h \in Hosts, PollNetwork(h)
  PROVE  PostInv'
<1>1. /\ UNCHANGED <<worker, carried, boxes, sendLock, sendBusy, messageSent, step, inMail, lost>>
      /\ inHdr[h] = NoMessage
      /\ \/ UNCHANGED <<pipe, packet, inHdr, available>>
         \/ /\ pipe[h] = "written"
            /\ inHdr' = [inHdr EXCEPT ![h] = packet[h]]
            /\ pipe' = [pipe EXCEPT ![h] = "listening"]
            /\ packet' = [packet EXCEPT ![h] = NoMessage]
            /\ available' = [available EXCEPT ![h] = available[h] + 1]
  BY DEF PollNetwork, MayRead
<1>2. SendTypes' /\ MailKept' /\ SendInTurn' /\ Sent' = Sent
  BY <1>1, ThreadsRest
<1>3. CASE UNCHANGED <<pipe, packet, inHdr, available>>
  <2>1. MailTypes'
    BY <1>1, <1>3 DEF PostInv, PostTypes, MailTypes
  <2>2. MailAnnounced'
    BY <1>1, <1>3 DEF PostInv, MailAnnounced
  <2>3. MailOnce'
    BY <1>1, <1>2, <1>3, MailRests
  <2> QED  BY <1>2, <2>1, <2>2, <2>3 DEF PostInv, PostTypes
<1>4. CASE /\ pipe[h] = "written"
           /\ inHdr' = [inHdr EXCEPT ![h] = packet[h]]
           /\ pipe' = [pipe EXCEPT ![h] = "listening"]
           /\ packet' = [packet EXCEPT ![h] = NoMessage]
           /\ available' = [available EXCEPT ![h] = available[h] + 1]
  <2>1. packet[h] \in Messages /\ available[h] = 0 /\ worker[h] # "receive"
    <3>1. packet[h] \in Messages /\ available[h] # 1 /\ worker[h] # "receive"
      BY <1>1, <1>4 DEF PostInv, MailAnnounced
    <3>2. available[h] \in 0..1
      BY DEF PostInv, PostTypes, MailTypes
    <3> QED  BY <3>1, <3>2
  <2>2. /\ inHdr'[h] = packet[h] /\ packet'[h] = NoMessage /\ available'[h] = 1
        /\ pipe'[h] = "listening"
        /\ \A g \in Hosts \ {h} : inHdr'[g] = inHdr[g] /\ packet'[g] = packet[g]
                                  /\ available'[g] = available[g] /\ pipe'[g] = pipe[g]
    BY <1>4, <2>1 DEF PostInv, PostTypes, MailTypes
  <2>3. NoMessage \notin Messages
    BY PostAssumption
  <2>4. MailTypes'
    <3>1. pipe' \in [Hosts -> {"absent", "listening", "connected", "written"}]
      BY <1>4 DEF PostInv, PostTypes, MailTypes
    <3>2. /\ packet' \in [Hosts -> Messages \cup {NoMessage}]
          /\ inHdr' \in [Hosts -> Messages \cup {NoMessage}]
      BY <1>4, <2>1 DEF PostInv, PostTypes, MailTypes
    <3>3. available' \in [Hosts -> 0..1]
      BY <1>4, <2>1 DEF PostInv, PostTypes, MailTypes
    <3>4. \A g \in Hosts : /\ packet[g] \in MailOf(g) \cup {NoMessage}
                           /\ inHdr[g] \in MailOf(g) \cup {NoMessage}
      BY DEF PostInv, PostTypes, MailTypes
    <3>5. \A g \in Hosts : /\ packet'[g] \in MailOf(g) \cup {NoMessage}
                           /\ inHdr'[g] \in MailOf(g) \cup {NoMessage}
      BY <2>2, <3>4
    <3> QED  BY <1>1, <3>1, <3>2, <3>3, <3>5 DEF PostInv, PostTypes, MailTypes
  <2>5. MailAnnounced'
    BY <1>1, <2>1, <2>2, <2>3 DEF PostInv, MailAnnounced
  <2>6. \A x \in Messages : /\ x.to \in Hosts
                            /\ packet'[x.to] = x => packet[x.to] = x /\ x.to # h
                            /\ inHdr'[x.to] = x => IF x.to = h THEN packet[x.to] = x
                                                               ELSE inHdr[x.to] = x
                            /\ InABox(x)' <=> InABox(x)
    BY <1>1, <2>2, <2>3 DEF Messages, InABox
  <2>7. \A x \in Messages : OnItsWay(x)' => OnItsWay(x)
    BY <1>1, <2>6 DEF OnItsWay
  <2>8. MailOnce'
    <3>1. \A x \in Messages :
            /\ packet'[x.to] = x => inHdr'[x.to] # x /\ carried'[x.to] # x /\ ~InABox(x)'
            /\ inHdr'[x.to] = x => carried'[x.to] # x /\ ~InABox(x)'
            /\ carried'[x.to] = x => ~InABox(x)'
      BY <1>1, <2>6 DEF PostInv, MailOnce
    <3>2. \A x \in Messages : OnItsWay(x)' => x \in Sent' \ lost'
      BY <1>1, <1>2, <2>7 DEF PostInv, MailOnce
    <3>3. \A g \in Hosts, b \in {0, 1} : \A i, j \in 1..Len(boxes'[g][b]) :
             boxes'[g][b][i] = boxes'[g][b][j] => i = j
      BY <1>1 DEF PostInv, MailOnce
    <3>4. lost' \subseteq Sent'
      BY <1>1, <1>2 DEF PostInv, MailOnce
    <3> QED  BY <3>1, <3>2, <3>3, <3>4 DEF MailOnce
  <2> QED  BY <1>2, <2>4, <2>5, <2>8 DEF PostInv, PostTypes
<1> QED  BY <1>1, <1>3, <1>4

\* The postal worker is told of the packet in the buffer.
LEMMA AwaitMailInv ==
  ASSUME PostInv, NEW h \in Hosts, AwaitMail(h)
  PROVE  PostInv'
<1>1. /\ UNCHANGED <<pipe, packet, inHdr, carried, boxes, sendLock, sendBusy, messageSent, step,
                     inMail, lost>>
      /\ available[h] > 0
      /\ available' = [available EXCEPT ![h] = available[h] - 1]
      /\ worker' = [worker EXCEPT ![h] = "receive"]
  BY DEF AwaitMail
<1>2. available[h] = 1
  <2>1. available[h] \in 0..1
    BY DEF PostInv, PostTypes, MailTypes
  <2> QED  BY <1>1, <2>1
<1>3. /\ available'[h] = 0 /\ worker'[h] = "receive"
      /\ \A g \in Hosts \ {h} : available'[g] = available[g] /\ worker'[g] = worker[g]
  BY <1>1, <1>2 DEF PostInv, PostTypes, MailTypes
<1>4. MailTypes'
  <2>1. available' \in [Hosts -> 0..1] /\ worker' \in [Hosts -> {"wait", "receive", "put"}]
    BY <1>1, <1>2 DEF PostInv, PostTypes, MailTypes
  <2> QED  BY <1>1, <2>1 DEF PostInv, PostTypes, MailTypes
<1>5. MailAnnounced'
  BY <1>1, <1>2, <1>3 DEF PostInv, MailAnnounced
<1>6. SendTypes' /\ MailKept' /\ SendInTurn' /\ Sent' = Sent
  BY <1>1, ThreadsRest
<1>7. MailOnce'
  BY <1>1, <1>6, MailRests
<1> QED  BY <1>4, <1>5, <1>6, <1>7 DEF PostInv, PostTypes

\* The worker takes the packet, which leaves the buffer empty.
LEMMA ReceivePacketInv ==
  ASSUME PostInv, NEW h \in Hosts, ReceivePacket(h)
  PROVE  PostInv'
<1>1. /\ UNCHANGED <<pipe, packet, available, boxes, sendLock, sendBusy, messageSent, step,
                     inMail, lost>>
      /\ worker[h] = "receive" /\ worker' = [worker EXCEPT ![h] = "put"]
      /\ carried' = [carried EXCEPT ![h] = inHdr[h]]
      /\ inHdr' = [inHdr EXCEPT ![h] = NoMessage]
  BY DEF ReceivePacket
<1>2. SendTypes' /\ MailKept' /\ SendInTurn' /\ Sent' = Sent
  BY <1>1, ThreadsRest
<1>3. NoMessage \notin Messages
  BY PostAssumption
<1>4. inHdr[h] \in Messages /\ available[h] = 0
  BY <1>1 DEF PostInv, PostTypes, MailTypes, MailAnnounced
<1>5. /\ carried'[h] = inHdr[h] /\ inHdr'[h] = NoMessage /\ worker'[h] = "put"
      /\ \A g \in Hosts \ {h} : carried'[g] = carried[g] /\ inHdr'[g] = inHdr[g]
                                /\ worker'[g] = worker[g]
  BY <1>1 DEF PostInv, PostTypes, MailTypes
<1>6. MailTypes'
  <2>1. /\ carried' \in [Hosts -> Messages \cup {NoMessage}]
        /\ inHdr' \in [Hosts -> Messages \cup {NoMessage}]
        /\ worker' \in [Hosts -> {"wait", "receive", "put"}]
    BY <1>1, <1>4 DEF PostInv, PostTypes, MailTypes
  <2>2. \A g \in Hosts : /\ carried[g] \in MailOf(g) \cup {NoMessage}
                         /\ inHdr[g] \in MailOf(g) \cup {NoMessage}
    BY DEF PostInv, PostTypes, MailTypes
  <2>3. \A g \in Hosts : /\ carried'[g] \in MailOf(g) \cup {NoMessage}
                         /\ inHdr'[g] \in MailOf(g) \cup {NoMessage}
    BY <1>5, <2>2
  <2> QED  BY <1>1, <2>1, <2>3 DEF PostInv, PostTypes, MailTypes
<1>7. MailAnnounced'
  BY <1>1, <1>3, <1>4, <1>5 DEF PostInv, MailAnnounced
<1>8. \A x \in Messages : /\ x.to \in Hosts
                          /\ inHdr'[x.to] = x => inHdr[x.to] = x /\ x.to # h
                          /\ carried'[x.to] = x => IF x.to = h THEN inHdr[x.to] = x
                                                               ELSE carried[x.to] = x
                          /\ InABox(x)' <=> InABox(x)
  BY <1>1, <1>3, <1>5 DEF Messages, InABox
<1>9. \A x \in Messages : OnItsWay(x)' => OnItsWay(x)
  BY <1>1, <1>8 DEF OnItsWay
<1>10. MailOnce'
  <2>1. \A x \in Messages :
          /\ packet'[x.to] = x => inHdr'[x.to] # x /\ carried'[x.to] # x /\ ~InABox(x)'
          /\ inHdr'[x.to] = x => carried'[x.to] # x /\ ~InABox(x)'
          /\ carried'[x.to] = x => ~InABox(x)'
    BY <1>1, <1>8 DEF PostInv, MailOnce
  <2>2. \A x \in Messages : OnItsWay(x)' => x \in Sent' \ lost'
    BY <1>1, <1>2, <1>9 DEF PostInv, MailOnce
  <2>3. \A g \in Hosts, b \in {0, 1} : \A i, j \in 1..Len(boxes'[g][b]) :
           boxes'[g][b][i] = boxes'[g][b][j] => i = j
    BY <1>1 DEF PostInv, MailOnce
  <2>4. lost' \subseteq Sent'
    BY <1>1, <1>2 DEF PostInv, MailOnce
  <2> QED  BY <2>1, <2>2, <2>3, <2>4 DEF MailOnce
<1> QED  BY <1>2, <1>6, <1>7, <1>10 DEF PostInv, PostTypes

\* A message is added at the end of a mailbox in which it was not.
LEMMA PutInBoxInv ==
  ASSUME PostInv, NEW h \in Hosts, PutInBox(h)
  PROVE  PostInv'
<1> DEFINE m == carried[h]
           old == boxes[h][Box(m)]
<1>1. /\ UNCHANGED <<pipe, packet, inHdr, available, sendLock, sendBusy, messageSent, step,
                     inMail, lost>>
      /\ worker[h] = "put" /\ worker' = [worker EXCEPT ![h] = "wait"]
      /\ boxes' = [boxes EXCEPT ![h][Box(m)] = Append(old, m)]
      /\ carried' = [carried EXCEPT ![h] = NoMessage]
  BY DEF PutInBox
<1>2. SendTypes' /\ MailKept' /\ SendInTurn' /\ Sent' = Sent
  BY <1>1, ThreadsRest
<1>3. NoMessage \notin Messages
  BY PostAssumption
<1>4. m \in Messages /\ m.to = h /\ Box(m) \in {0, 1} /\ old \in Seq(Messages)
  <2>1. m \in Messages
    BY <1>1 DEF PostInv, MailAnnounced
  <2>2. m \in MailOf(h) \cup {NoMessage}
    BY DEF PostInv, PostTypes, MailTypes
  <2>3. Box(m) \in {0, 1}
    BY DEF Box
  <2> QED  BY <1>3, <2>1, <2>2, <2>3 DEF MailOf, PostInv, PostTypes, MailTypes
<1> DEFINE new == Append(old, m)
<1>5. /\ new \in Seq(Messages) /\ Len(new) = Len(old) + 1 /\ new[Len(old) + 1] = m
      /\ \A i \in 1..Len(old) : new[i] = old[i]
      /\ Len(old) \in Nat
  BY <1>4
<1>6. \A g \in Hosts, b \in {0, 1} :
        boxes'[g][b] = IF g = h /\ b = Box(m) THEN new ELSE boxes[g][b]
  <2> HIDE DEF m, old, new
  <2>1. boxes \in [Hosts -> [{0, 1} -> Seq(Messages)]] /\ boxes' = [boxes EXCEPT ![h][Box(m)] = new]
    BY <1>1 DEF PostInv, PostTypes, MailTypes, new
  <2> QED  BY <1>4, <2>1
<1>7. /\ carried'[h] = NoMessage /\ worker'[h] = "wait"
      /\ \A g \in Hosts \ {h} : carried'[g] = carried[g] /\ worker'[g] = worker[g]
  BY <1>1 DEF PostInv, PostTypes, MailTypes
<1> HIDE DEF m, old, new
<1>8. ~InABox(m) /\ \A i \in 1..Len(old) : old[i] # m
  <2>1. carried[m.to] = m
    BY <1>4 DEF m
  <2>2. ~InABox(m)
    BY <1>4, <2>1 DEF PostInv, MailOnce
  <2> QED  BY <1>4, <2>2 DEF InABox, old
<1>9. MailTypes'
  <2>1. /\ carried' \in [Hosts -> Messages \cup {NoMessage}]
        /\ worker' \in [Hosts -> {"wait", "receive", "put"}]
    BY <1>1 DEF PostInv, PostTypes, MailTypes
  <2>2. \A g \in Hosts : carried'[g] \in MailOf(g) \cup {NoMessage}
    <3>1. \A g \in Hosts : carried[g] \in MailOf(g) \cup {NoMessage}
      BY DEF PostInv, PostTypes, MailTypes
    <3> QED  BY <1>7, <3>1
  <2>3. boxes' \in [Hosts -> [{0, 1} -> Seq(Messages)]]
    <3>1. /\ boxes \in [Hosts -> [{0, 1} -> Seq(Messages)]]
          /\ boxes' = [boxes EXCEPT ![h][Box(m)] = new]
      BY <1>1 DEF PostInv, PostTypes, MailTypes, new, m, old
    <3> QED  BY <1>4, <1>5, <3>1
  <2>4. \A g \in Hosts, b \in {0, 1} : \A i \in 1..Len(boxes'[g][b]) :
          boxes'[g][b][i].to = g /\ Box(boxes'[g][b][i]) = b
    <3> SUFFICES ASSUME NEW g \in Hosts, NEW b \in {0, 1}, NEW i \in 1..Len(boxes'[g][b])
                 PROVE  boxes'[g][b][i].to = g /\ Box(boxes'[g][b][i]) = b
      OBVIOUS
    <3>1. \A j \in 1..Len(boxes[g][b]) : boxes[g][b][j].to = g /\ Box(boxes[g][b][j]) = b
      BY DEF PostInv, PostTypes, MailTypes
    <3>2. CASE g = h /\ b = Box(m)
      <4>1. boxes'[g][b] = new /\ boxes[g][b] = old
        BY <1>6, <3>2 DEF old
      <4>2. CASE i = Len(old) + 1
        BY <1>4, <1>5, <3>2, <4>1, <4>2
      <4>3. CASE i # Len(old) + 1
        <5>1. i \in 1..Len(old)
          BY <1>5, <4>1, <4>3
        <5> QED  BY <1>5, <3>1, <4>1, <5>1
      <4> QED  BY <4>2, <4>3
    <3>3. CASE ~(g = h /\ b = Box(m))
      BY <1>6, <3>1, <3>3
    <3> QED  BY <3>2, <3>3
  <2> QED  BY <1>1, <2>1, <2>2, <2>3, <2>4 DEF PostInv, PostTypes, MailTypes
<1>10. MailAnnounced'
  BY <1>1, <1>7 DEF PostInv, MailAnnounced
<1>11. \A x \in Messages : InABox(x)' => InABox(x) \/ x = m
  <2> SUFFICES ASSUME NEW x \in Messages, InABox(x)' PROVE InABox(x) \/ x = m
    OBVIOUS
  <2>1. x.to \in Hosts /\ Box(x) \in {0, 1}
    BY DEF Messages, Box
  <2>2. PICK i \in 1..Len(boxes'[x.to][Box(x)]) : boxes'[x.to][Box(x)][i] = x
    BY DEF InABox
  <2>3. CASE x.to = h /\ Box(x) = Box(m)
    <3>1. boxes'[x.to][Box(x)] = new /\ boxes[x.to][Box(x)] = old
      BY <1>6, <2>1, <2>3 DEF old
    <3>2. CASE i = Len(old) + 1
      BY <1>5, <2>2, <3>1, <3>2
    <3>3. CASE i # Len(old) + 1
      <4>1. i \in 1..Len(old)
        BY <1>5, <3>1, <3>3
      <4> QED  BY <1>5, <2>2, <3>1, <4>1 DEF InABox
    <3> QED  BY <3>2, <3>3
  <2>4. CASE ~(x.to = h /\ Box(x) = Box(m))
    BY <1>6, <2>1, <2>2, <2>4 DEF InABox
  <2> QED  BY <2>3, <2>4
<1>12. \A x \in Messages : /\ x.to \in Hosts
                           /\ carried'[x.to] = x => carried[x.to] = x /\ x # m
  <2>1. \A x \in Messages : x.to \in Hosts
    BY DEF Messages
  <2>2. m.to = h
    BY <1>4
  <2> QED  BY <1>3, <1>7, <2>1, <2>2
<1>13. carried[m.to] = m
  BY <1>4 DEF m
<1>14. \A x \in Messages : OnItsWay(x)' => OnItsWay(x)
  BY <1>1, <1>11, <1>12, <1>13 DEF OnItsWay
<1>15. MailOnce'
  <2>1. \A x \in Messages :
          /\ packet'[x.to] = x => inHdr'[x.to] # x /\ carried'[x.to] # x /\ ~InABox(x)'
          /\ inHdr'[x.to] = x => carried'[x.to] # x /\ ~InABox(x)'
          /\ carried'[x.to] = x => ~InABox(x)'
    BY <1>1, <1>11, <1>12, <1>13 DEF PostInv, MailOnce
  <2>2. \A x \in Messages : OnItsWay(x)' => x \in Sent' \ lost'
    BY <1>1, <1>2, <1>14 DEF PostInv, MailOnce
  <2>3. ASSUME NEW g \in Hosts, NEW b \in {0, 1}, NEW i \in 1..Len(boxes'[g][b]),
               NEW j \in 1..Len(boxes'[g][b]), boxes'[g][b][i] = boxes'[g][b][j]
        PROVE  i = j
    <3>1. \A k, l \in 1..Len(boxes[g][b]) : boxes[g][b][k] = boxes[g][b][l] => k = l
      BY DEF PostInv, MailOnce
    <3>2. CASE g = h /\ b = Box(m)
      <4>1. boxes'[g][b] = new /\ boxes[g][b] = old
        BY <1>6, <3>2 DEF old
      <4>2. \A k \in 1..Len(new) : k # Len(old) + 1 => k \in 1..Len(old)
        BY <1>5
      <4>3. CASE i = Len(old) + 1 \/ j = Len(old) + 1
        BY <1>5, <1>8, <2>3, <4>1, <4>2, <4>3
      <4>4. CASE i # Len(old) + 1 /\ j # Len(old) + 1
        BY <1>5, <2>3, <3>1, <4>1, <4>2, <4>4
      <4> QED  BY <4>3, <4>4
    <3>3. CASE ~(g = h /\ b = Box(m))
      BY <1>6, <2>3, <3>1, <3>3
    <3> QED  BY <3>2, <3>3
  <2>4. lost' \subseteq Sent'
    BY <1>1, <1>2 DEF PostInv, MailOnce
  <2> QED  BY <2>1, <2>2, <2>3, <2>4 DEF MailOnce
<1> QED  BY <1>2, <1>9, <1>10, <1>15 DEF PostInv, PostTypes

\* A thread receives the oldest message of a mailbox.
LEMMA GetInv ==
  ASSUME PostInv, NEW h \in Hosts, NEW t \in Clients[h], NEW b \in {0, 1}, NEW from, NEW to,
         Get(h, t, b, from, to),
         \/ from = "getHello" /\ to = "ack"
         \/ from = "getAck" /\ to = "done"
  PROVE  PostInv'
<1> DEFINE old == boxes[h][b]
           new == Tail(old)
<1>1. /\ UNCHANGED <<pipe, packet, inHdr, available, worker, carried, sendLock, sendBusy,
                     messageSent, lost>>
      /\ step[t] = from /\ step' = [step EXCEPT ![t] = to] /\ old # <<>>
      /\ inMail' = [inMail EXCEPT ![t] = Head(old)]
      /\ boxes' = [boxes EXCEPT ![h][b] = new]
  BY DEF Get, Advance
<1>2. t \in TestThreads
  BY HostFacts
<1>3. old \in Seq(Messages)
  BY DEF PostInv, PostTypes, MailTypes
<1>4. /\ Head(old) \in Messages /\ new \in Seq(Messages) /\ Len(new) = Len(old) - 1
      /\ Len(old) \in Nat /\ Len(new) \in Nat
      /\ \A i \in 1..Len(new) : i + 1 \in 1..Len(old) /\ new[i] = old[i + 1]
  <2> HIDE DEF old
  <2> QED  BY <1>1, <1>3
<1>5. boxes' \in [Hosts -> [{0, 1} -> Seq(Messages)]]
      /\ \A g \in Hosts, c \in {0, 1} :
           boxes'[g][c] = IF g = h /\ c = b THEN new ELSE boxes[g][c]
  <2> HIDE DEF old, new
  <2>1. boxes \in [Hosts -> [{0, 1} -> Seq(Messages)]]
    BY DEF PostInv, PostTypes, MailTypes
  <2> QED  BY <1>1, <1>4, <2>1
<1> HIDE DEF old, new
<1>6. ASSUME NEW g \in Hosts, NEW c \in {0, 1}, NEW i \in 1..Len(boxes'[g][c])
      PROVE  \E k \in 1..Len(boxes[g][c]) :
               /\ boxes'[g][c][i] = boxes[g][c][k]
               /\ k = IF g = h /\ c = b THEN i + 1 ELSE i
  <2>1. CASE g = h /\ c = b
    BY <1>4, <1>5, <1>6, <2>1 DEF old
  <2>2. CASE ~(g = h /\ c = b)
    BY <1>5, <1>6, <2>2
  <2> QED  BY <2>1, <2>2
<1>7. MailTypes'
  <2>1. ASSUME NEW g \in Hosts, NEW c \in {0, 1}, NEW i \in 1..Len(boxes'[g][c])
        PROVE  boxes'[g][c][i].to = g /\ Box(boxes'[g][c][i]) = c
    <3>1. \A k \in 1..Len(boxes[g][c]) : boxes[g][c][k].to = g /\ Box(boxes[g][c][k]) = c
      BY DEF PostInv, PostTypes, MailTypes
    <3>2. PICK k \in 1..Len(boxes[g][c]) : boxes'[g][c][i] = boxes[g][c][k]
      BY <1>6
    <3> QED  BY <3>1, <3>2
  <2> QED  BY <1>1, <1>5, <2>1 DEF PostInv, PostTypes, MailTypes
<1>8. \A u \in TestThreads : step'[u] = IF u = t THEN to ELSE step[u]
  BY <1>1 DEF PostInv, PostTypes, SendTypes
<1>9. SendTypes'
  <2>1. step' \in [TestThreads -> Places]
    BY <1>1, <1>2 DEF PostInv, PostTypes, SendTypes, Places
  <2>2. sendBusy' \in [Hosts -> BOOLEAN]
    BY <1>1 DEF PostInv, PostTypes, SendTypes
  <2>3. inMail' \in [TestThreads -> Messages \cup {NoMessage}]
    BY <1>1, <1>2, <1>4 DEF PostInv, PostTypes, SendTypes
  <2> QED  BY <1>1, <2>1, <2>2, <2>3 DEF PostInv, PostTypes, SendTypes
<1>10. MailKept'
  <2>1. \A u \in TestThreads : inMail'[u] = IF u = t THEN Head(old) ELSE inMail[u]
    BY <1>1 DEF PostInv, PostTypes, SendTypes
  <2> QED  BY <1>4, <1>8, <2>1 DEF PostInv, MailKept
<1>11. SendInTurn'
  <2>1. \A u \in TestThreads : HasSendLock(u)' <=> HasSendLock(u)
    BY <1>1, <1>8 DEF HasSendLock
  <2> QED  BY <1>1, <2>1, HostFacts DEF PostInv, SendInTurn
<1>12. MailAnnounced'
  BY <1>1 DEF PostInv, MailAnnounced
<1>13. Sent' = Sent
  BY <1>1, <1>2, SentStays DEF PostInv, PostTypes, SendTypes
<1>14. \A x \in Messages : InABox(x)' => InABox(x)
  <2>1. \A x \in Messages : x.to \in Hosts /\ Box(x) \in {0, 1}
    BY DEF Messages, Box
  <2> SUFFICES ASSUME NEW x \in Messages, InABox(x)' PROVE InABox(x)
    OBVIOUS
  <2>2. PICK i \in 1..Len(boxes'[x.to][Box(x)]) : boxes'[x.to][Box(x)][i] = x
    BY DEF InABox
  <2>3. PICK k \in 1..Len(boxes[x.to][Box(x)]) : boxes'[x.to][Box(x)][i] = boxes[x.to][Box(x)][k]
    BY <1>6, <2>1
  <2> QED  BY <2>2, <2>3 DEF InABox
<1>15. \A x \in Messages : OnItsWay(x)' => OnItsWay(x)
  BY <1>1, <1>14 DEF OnItsWay
<1>16. MailOnce'
  <2>1. \A x \in Messages :
          /\ packet'[x.to] = x => inHdr'[x.to] # x /\ carried'[x.to] # x /\ ~InABox(x)'
          /\ inHdr'[x.to] = x => carried'[x.to] # x /\ ~InABox(x)'
          /\ carried'[x.to] = x => ~InABox(x)'
    BY <1>1, <1>14 DEF PostInv, MailOnce
  <2>2. \A x \in Messages : OnItsWay(x)' => x \in Sent' \ lost'
    BY <1>1, <1>13, <1>15 DEF PostInv, MailOnce
  <2>3. ASSUME NEW g \in Hosts, NEW c \in {0, 1}, NEW i \in 1..Len(boxes'[g][c]),
               NEW j \in 1..Len(boxes'[g][c]), boxes'[g][c][i] = boxes'[g][c][j]
        PROVE  i = j
    <3>1. \A k, l \in 1..Len(boxes[g][c]) : boxes[g][c][k] = boxes[g][c][l] => k = l
      BY DEF PostInv, MailOnce
    <3> DEFINE at(k) == IF g = h /\ c = b THEN k + 1 ELSE k
    <3>4. at(i) \in 1..Len(boxes[g][c]) /\ boxes'[g][c][i] = boxes[g][c][at(i)]
      <4>1. PICK k \in 1..Len(boxes[g][c]) : /\ boxes'[g][c][i] = boxes[g][c][k]
                                             /\ k = IF g = h /\ c = b THEN i + 1 ELSE i
        BY <1>6
      <4> QED  BY <4>1
    <3>5. at(j) \in 1..Len(boxes[g][c]) /\ boxes'[g][c][j] = boxes[g][c][at(j)]
      <4>1. PICK k \in 1..Len(boxes[g][c]) : /\ boxes'[g][c][j] = boxes[g][c][k]
                                             /\ k = IF g = h /\ c = b THEN j + 1 ELSE j
        BY <1>6
      <4> QED  BY <4>1
    <3>6. boxes[g][c][at(i)] = boxes[g][c][at(j)]
      BY <2>3, <3>4, <3>5
    <3>2. at(i) = at(j)
      <4> HIDE DEF at
      <4> QED  BY <3>1, <3>4, <3>5, <3>6
    <3>3. Len(boxes'[g][c]) \in Nat
      BY <1>5
    <3> QED  BY <3>2, <3>3
  <2>4. lost' \subseteq Sent'
    BY <1>1, <1>13 DEF PostInv, MailOnce
  <2> QED  BY <2>1, <2>2, <2>3, <2>4 DEF MailOnce
<1> QED  BY <1>7, <1>9, <1>10, <1>11, <1>12, <1>16 DEF PostInv, PostTypes

\* Every step of a machine, of the network and of the helpers keeps the post office's invariant.
LEMMA PostNextInv == PostInv /\ [PostNext]_postVars => PostInv'
<1> SUFFICES ASSUME PostInv, [PostNext]_postVars PROVE PostInv'
  OBVIOUS
<1>1. CASE UNCHANGED postVars
  <2>1. UNCHANGED <<pipe, packet, inHdr, available, worker, carried, boxes, sendLock, sendBusy,
                    messageSent, step, inMail, lost>>
    BY <1>1 DEF postVars
  <2>2. SendTypes' /\ MailKept' /\ SendInTurn' /\ Sent' = Sent
    BY <2>1, ThreadsRest
  <2>3. MailTypes'
    BY <2>1 DEF PostInv, PostTypes, MailTypes
  <2>4. MailAnnounced'
    BY <2>1 DEF PostInv, MailAnnounced
  <2>5. MailOnce'
    BY <2>1, <2>2, MailRests
  <2> QED  BY <2>2, <2>3, <2>4, <2>5 DEF PostInv, PostTypes
<1>2. CASE PostNext
  <2>1. PICK h \in Hosts : \/ BootHost(h) \/ SendDone(h) \/ PollNetwork(h) \/ PostalDelivery(h)
                           \/ \E t \in Clients[h] : NetworkTest(h, t)
    BY <1>2 DEF PostNext
  <2>2. CASE BootHost(h)
    BY <2>2, BootHostInv
  <2>3. CASE SendDone(h)
    BY <2>3, SendDoneInv
  <2>4. CASE PollNetwork(h)
    BY <2>4, PollNetworkInv
  <2>5. CASE PostalDelivery(h)
    BY <2>5, AwaitMailInv, ReceivePacketInv, PutInBoxInv DEF PostalDelivery
  <2>6. ASSUME NEW t \in Clients[h], NetworkTest(h, t)
        PROVE  PostInv'
    <3>1. /\ OwnMessage(t, "hello") = Hello(t)
          /\ OwnMessage(t, "ack") = Ack(t)
      BY DEF OwnMessage
    <3>2. ASSUME NEW kind \in {"hello", "ack"}, NEW next,
                 InSend(h, t, kind, OwnMessage(t, kind), next),
                 \/ kind = "hello" /\ next = "getHello"
                 \/ kind = "ack" /\ next = "getAck"
          PROVE  PostInv'
      <4>1. CASE Send(h, t, kind, OwnMessage(t, kind))
        BY <4>1, SendMessageInv
      <4>2. CASE TryPipe(h, t, kind, OwnMessage(t, kind))
        BY <4>2, TryPipeInv
      <4>3. CASE WritePipe(h, t, kind, OwnMessage(t, kind))
        BY <4>3, WritePipeInv
      <4>4. CASE EndSend(h, t, kind, next)
        BY <3>2, <4>4, EndSendInv
      <4> QED  BY <3>2, <4>1, <4>2, <4>3, <4>4 DEF InSend
    <3>3. CASE InSend(h, t, "hello", Hello(t), "getHello")
      <4>1. InSend(h, t, "hello", OwnMessage(t, "hello"), "getHello")
        BY <3>1, <3>3
      <4> QED  BY <3>2, <4>1
    <3>4. CASE InSend(h, t, "ack", Ack(t), "getAck")
      <4>1. InSend(h, t, "ack", OwnMessage(t, "ack"), "getAck")
        BY <3>1, <3>4
      <4> QED  BY <3>2, <4>1
    <3>5. ASSUME NEW b \in {0, 1}, NEW from, NEW to, Get(h, t, b, from, to),
                 \/ from = "getHello" /\ to = "ack"
                 \/ from = "getAck" /\ to = "done"
          PROVE  PostInv'
      BY <3>5, GetInv
    <3>6. CASE Get(h, t, 0, "getHello", "ack")
      <4>1. 0 \in {0, 1}
        OBVIOUS
      <4> QED  BY <3>5, <3>6, <4>1
    <3>7. CASE Get(h, t, 1, "getAck", "done")
      <4>1. 1 \in {0, 1}
        OBVIOUS
      <4> QED  BY <3>5, <3>7, <4>1
    <3> QED  BY <2>6, <3>3, <3>4, <3>6, <3>7 DEF NetworkTest
  <2> QED  BY <2>1, <2>2, <2>3, <2>4, <2>5, <2>6
<1> QED  BY <1>1, <1>2

\* Places counted: one copy of a message where it is, and none where it is not.
LEMMA CopiesCounted ==
  ASSUME PostInv, NEW m \in Messages
  PROVE  Copies(m) <= IF m \in Sent \ lost THEN 1 ELSE 0
<1> DEFINE box == boxes[m.to][Box(m)]
           at == {i \in 1..Len(box) : box[i] = m}
           here == IF packet[m.to] = m THEN 1 ELSE 0
           buffered == IF inHdr[m.to] = m THEN 1 ELSE 0
           atWorker == IF carried[m.to] = m THEN 1 ELSE 0
<1>1. m.to \in Hosts /\ Box(m) \in {0, 1}
  BY DEF Messages, Box
<1>2. Copies(m) = here + (buffered + atWorker) + Cardinality(at)
  BY DEF Copies
<1>3. Len(box) \in Nat
  BY <1>1 DEF PostInv, PostTypes, MailTypes
<1>4. \A i, j \in at : i = j
  BY <1>1 DEF PostInv, MailOnce
<1>5. Cardinality(at) \in Nat /\ Cardinality(at) <= 1 /\ (at = {} => Cardinality(at) = 0)
  <2>1. Cardinality({}) = 0
    BY FS_EmptySet
  <2> HIDE DEF at
  <2>2. ASSUME NEW i \in at PROVE Cardinality(at) = 1
    <3>1. at = {i}
      BY <1>4
    <3> QED  BY <3>1, FS_Singleton
  <2> QED  BY <2>1, <2>2
<1>6. InABox(m) <=> at # {}
  BY DEF InABox
<1>7. /\ packet[m.to] = m => inHdr[m.to] # m /\ carried[m.to] # m /\ at = {}
      /\ inHdr[m.to] = m => carried[m.to] # m /\ at = {}
      /\ carried[m.to] = m => at = {}
      /\ packet[m.to] = m \/ inHdr[m.to] = m \/ carried[m.to] = m \/ at # {} => m \in Sent \ lost
  BY <1>6 DEF PostInv, MailOnce, OnItsWay
<1> HIDE DEF at
<1> QED  BY <1>2, <1>5, <1>7

\* The invariant gives what is checked of the post office.
LEMMA PostInvExact == PostInv => OneCopy
<1> SUFFICES ASSUME PostInv PROVE OneCopy
  OBVIOUS
<1>1. ASSUME NEW h \in Hosts
      PROVE  available[h] + (IF worker[h] = "receive" THEN 1 ELSE 0)
               = IF inHdr[h] = NoMessage THEN 0 ELSE 1
  <2>1. available[h] \in 0..1
    BY DEF PostInv, PostTypes, MailTypes
  <2>2. /\ inHdr[h] # NoMessage <=> available[h] = 1 \/ worker[h] = "receive"
        /\ worker[h] = "receive" => available[h] = 0
    BY DEF PostInv, MailAnnounced
  <2> QED  BY <2>1, <2>2
<1>2. \A h \in Hosts : sendBusy[h] => sendLock[h] # NoClient /\ messageSent[h] = 0
  BY DEF PostInv, SendInTurn
<1>3. \A m \in Messages : Copies(m) <= IF m \in Sent \ lost THEN 1 ELSE 0
  BY CopiesCounted
<1> QED  BY <1>1, <1>2, <1>3 DEF OneCopy

\* The mail of every network of two hosts, with any number of clients: the buffer, the
\* worker and the mailboxes of a host, and the lock and the device that it sends with.
THEOREM PostInvariant == PostSpec => []PostInv
<1>1. PostInit => PostInv
  BY PostInitInv
<1>2. PostInv /\ [PostNext]_postVars => PostInv'
  BY PostNextInv
<1> QED  BY <1>1, <1>2, PTL DEF PostSpec

\* A message is never in two places on its way, nor anywhere before it is sent or
\* after it is lost, and the worker is told of a packet only when there is one.
THEOREM PostOneCopy == PostSpec => []OneCopy
BY PostInvariant, PostInvExact, PTL
=============================================================================

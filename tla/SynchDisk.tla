----------------------------- MODULE SynchDisk -----------------------------
(***************************************************************************)
(* The synchronous disk (synchdisk.cpp) over the simulated one (disk.cpp). *)
(* A caller takes the lock, sends its request, and waits on a semaphore    *)
(* for the interrupt.  The simulated disk reads or writes its file as soon *)
(* as it is asked, and computes from the position of its head when the     *)
(* interrupt comes.  Locks and semaphores are abstract ones.               *)
(***************************************************************************)
EXTENDS Integers, FiniteSets

CONSTANTS Callers,   \* the threads that use the disk
          Data, Blank,
          SectorsPerTrack, NumTracks,
          RotationTime, SeekTime,   \* ticks per sector passed, per track crossed
          MaxDiskTicks                  \* a bound on simulated time

ASSUME DiskAssumption ==
  /\ {SectorsPerTrack, NumTracks, RotationTime, SeekTime} \subseteq Nat \ {0}
  /\ MaxDiskTicks \in Nat

VARIABLES
  sectors,        \* the file behind the disk
  active,         \* Disk::active
  diskPending,        \* the times of the DiskInt interrupts that are scheduled
  diskTicks,      \* stats->totalTicks
  lastSector, bufferInit,        \* the head, and since when the track is buffered
  diskValue, diskWaiting,        \* SynchDisk::lock and semaphore
  diskPc,         \* where each thread is
  diskRequest,    \* what each thread asks for: [writing, sector, data]
  buffer,         \* the buffer of its last read
  sent            \* history: when the request in progress was sent, and which

headVars == <<diskTicks, lastSector, bufferInit>>
semVars == <<diskValue, diskWaiting>>
diskVars == <<sectors, active, diskPending, headVars, semVars, diskPc, diskRequest, buffer, sent>>

NumSectors == SectorsPerTrack * NumTracks
Sectors == 0 .. NumSectors - 1

DiskSemaphore == INSTANCE AbstractSemaphore
                   WITH Threads <- Callers, Sems <- {"lock", "semaphore"},
                    InitialValue <- [s \in {"lock", "semaphore"} |-> IF s = "lock" THEN 1 ELSE 0],
                    MaxValue <- 2, value <- diskValue, waiting <- diskWaiting

DiskRequests == [writing : {TRUE}, sector : Sectors, data : Data]
              \cup [writing : {FALSE}, sector : Sectors, data : {Blank}]

Nothing == [at |-> 0, sector |-> 0, writing |-> FALSE, due |-> 0]

DiskInit ==
  /\ sectors = [s \in Sectors |-> Blank]
  /\ active = FALSE /\ diskPending = {}
  /\ diskTicks = 0 /\ lastSector = 0 /\ bufferInit = 0
  /\ DiskSemaphore!AbsInit
  /\ diskPc = [t \in Callers |-> "out"]
  /\ diskRequest = [t \in Callers |-> [writing |-> FALSE, sector |-> 0, data |-> Blank]]
  /\ buffer = [t \in Callers |-> Blank]
  /\ sent = Nothing

-----------------------------------------------------------------------------
(***************************************************************************)
(* The time a request takes.  Sector boundaries pass the head at multiples *)
(* of RotationTime.                                                        *)
(***************************************************************************)

Distance(a, b) == IF a > b THEN a - b ELSE b - a

SeekTo(new) ==
  Distance(new \div SectorsPerTrack, lastSector \div SectorsPerTrack) * SeekTime

\* TimeToSeek's second result: from the end of the seek to the next boundary.
Rotation(new) == -(diskTicks + SeekTo(new)) % RotationTime

ModuloDiff(to, from) == (to - from) % SectorsPerTrack

\* Mutation: the sector that passes the head now counts as buffered.
BufferedEarly(new, timeAfter) ==
  (timeAfter - bufferInit) \div RotationTime >= ModuloDiff(new, bufferInit \div RotationTime)

\* Has the track buffer seen the sector?
Buffered(new, timeAfter) ==
  (timeAfter - bufferInit) \div RotationTime > ModuloDiff(new, bufferInit \div RotationTime)

ComputeLatency(new, writing) ==
  LET timeAfter == diskTicks + SeekTo(new) + Rotation(new)
  IN IF ~writing /\ SeekTo(new) = 0 /\ Buffered(new, timeAfter)
     THEN RotationTime
     ELSE timeAfter - diskTicks
            + ModuloDiff(new, timeAfter \div RotationTime) * RotationTime + RotationTime

UpdateLast(new) ==
  /\ lastSector' = new
  /\ bufferInit' = IF SeekTo(new) = 0 THEN bufferInit
                   ELSE diskTicks + SeekTo(new) + Rotation(new)

-----------------------------------------------------------------------------

DiskGoto(t, place) == diskPc' = [diskPc EXCEPT ![t] = place]

\* ReadSector or WriteSector, up to the P of lock->Acquire.
CallDisk(t, r) ==
  /\ diskPc[t] = "out"
  /\ diskRequest' = [diskRequest EXCEPT ![t] = r]
  /\ \/ DiskSemaphore!PassThrough(t, "lock") /\ DiskGoto(t, "in")
     \/ DiskSemaphore!Await(t, "lock") /\ DiskGoto(t, "acquire")
  /\ UNCHANGED <<sectors, active, diskPending, headVars, buffer, sent>>

LockWoken(t) ==
  /\ diskPc[t] = "acquire"
  /\ DiskSemaphore!Complete(t, "lock")
  /\ DiskGoto(t, "in")
  /\ UNCHANGED <<sectors, active, diskPending, headVars, diskRequest, buffer, sent>>

\* Disk::ReadRequest or WriteRequest, which asserts that the disk is not active.
\* Within the bound on time.
SendRequest(t) ==
  LET r == diskRequest[t]
      due == diskTicks + ComputeLatency(r.sector, r.writing)
  IN /\ diskPc[t] = "in"
     /\ due <= MaxDiskTicks
     /\ IF r.writing
        THEN sectors' = [sectors EXCEPT ![r.sector] = r.data] /\ UNCHANGED buffer
        ELSE buffer' = [buffer EXCEPT ![t] = sectors[r.sector]] /\ UNCHANGED sectors
     /\ active' = TRUE
     /\ UpdateLast(r.sector)
     /\ diskPending' = diskPending \cup {due}
     /\ sent' = [at |-> diskTicks, sector |-> r.sector, writing |-> r.writing, due |-> due]
     /\ DiskGoto(t, "sent")
     /\ UNCHANGED <<diskTicks, semVars, diskRequest>>

\* Mutation: the lock is released before the wait for the interrupt.
AwaitUnlocked(t) ==
  /\ diskPc[t] = "sent"
  /\ IF diskValue["semaphore"] > 0
     THEN diskValue' = [diskValue EXCEPT !["semaphore"] = @ - 1, !["lock"] = 1]
          /\ DiskGoto(t, "out")
     ELSE diskValue' = [diskValue EXCEPT !["lock"] = 1] /\ UNCHANGED diskPc
  /\ UNCHANGED <<sectors, active, diskPending, headVars, diskWaiting, diskRequest, buffer, sent>>

\* The semaphore's P, before or after the interrupt.
AwaitInterrupt(t) ==
  /\ diskPc[t] = "sent"
  /\ \/ DiskSemaphore!PassThrough(t, "semaphore") /\ DiskGoto(t, "served")
     \/ DiskSemaphore!Await(t, "semaphore") /\ DiskGoto(t, "wait")
  /\ UNCHANGED <<sectors, active, diskPending, headVars, diskRequest, buffer, sent>>

RequestWoken(t) ==
  /\ diskPc[t] = "wait"
  /\ DiskSemaphore!Complete(t, "semaphore")
  /\ DiskGoto(t, "served")
  /\ UNCHANGED <<sectors, active, diskPending, headVars, diskRequest, buffer, sent>>

ReleaseDisk(t) ==
  /\ diskPc[t] = "served"
  /\ DiskSemaphore!AbsV("lock")
  /\ DiskGoto(t, "out")
  /\ UNCHANGED <<sectors, active, diskPending, headVars, diskRequest, buffer, sent>>

\* Disk::CallBack and, called by it, SynchDisk::CallBack, at the time it is due or
\* later.
DiskInterrupt ==
  \E due \in diskPending :
    /\ due <= diskTicks
    /\ diskPending' = diskPending \ {due}
    /\ active' = FALSE
    /\ DiskSemaphore!AbsV("semaphore")
    /\ sent' = Nothing
    /\ UNCHANGED <<sectors, headVars, diskPc, diskRequest, buffer>>

\* Time passes, whatever the threads do.
DiskTick ==
  /\ diskTicks < MaxDiskTicks
  /\ diskTicks' = diskTicks + 1
  /\ UNCHANGED <<sectors, active, diskPending, lastSector, bufferInit, semVars,
                 diskPc, diskRequest, buffer, sent>>

InDiskCall(t) ==
  LockWoken(t) \/ SendRequest(t) \/ AwaitInterrupt(t) \/ RequestWoken(t) \/ ReleaseDisk(t)

DiskNext ==
  \/ \E t \in Callers : InDiskCall(t) \/ \E r \in DiskRequests : CallDisk(t, r)
  \/ DiskInterrupt \/ DiskTick

DiskSpec == DiskInit /\ [][DiskNext]_diskVars

-----------------------------------------------------------------------------
(***************************************************************************)
(* Properties.                                                             *)
(***************************************************************************)

\* The stage of the abstract disk: a request is the disk's until active is
\* reset, and then its thread's.
StageOf(t) ==
  CASE diskPc[t] = "out" -> "idle"
    [] diskPc[t] \in {"acquire", "in"} -> "called"
    [] diskPc[t] \in {"sent", "wait"} -> IF active THEN "busy" ELSE "finished"
    [] diskPc[t] = "served" -> "finished"

Abstract == INSTANCE AbstractDisk
              WITH Threads <- Callers, contents <- sectors, stage <- [t \in Callers |-> StageOf(t)],
                   request <- diskRequest, result <- buffer

\* Lock, semaphore, active flag and interrupt together are the abstract disk: no
\* request is sent to a busy disk (the assertion in ReadRequest), no thread
\* returns on the strength of another's interrupt, and each is let go when its
\* own has come.
ImplementsDisk == Abstract!AbsDiskSpec

\* The clock of the head is right: when a request is finished, its sector has
\* passed completely under the head since the head came to its track; a write
\* ends as the first such pass after the request does, and a read never later.
\* This is where the track buffer could promise a sector it has not seen.
HeadPassed ==
  active =>
    LET Passes == {e \in 0 .. MaxDiskTicks :
                     /\ e % RotationTime = 0
                     /\ (e \div RotationTime - 1 - sent.sector) % SectorsPerTrack = 0
                     /\ e - RotationTime >= bufferInit}
        WriteEnds == {e \in Passes : e - RotationTime >= sent.at}
    IN /\ \E e \in Passes : e <= sent.due
       /\ \A e \in WriteEnds : sent.due <= e
       /\ sent.writing => sent.due \in WriteEnds
=============================================================================

-------------------------------- MODULE Boot --------------------------------
(***************************************************************************)
(* main (main.cpp) and the kernel's constructor, Initialize and destructor *)
(* (kernel.cpp): the command line is read three times, the objects of the  *)
(* machine and of the kernel are built in one order and deleted in         *)
(* another, and in between main does what the command line asks for, in an *)
(* order of its own.  The two halves are linked by function pointers, so   *)
(* that no compiler sees which object is needed when; and the construction *)
(* of the file system waits for the disk, which lets every device that is  *)
(* running already interrupt a kernel that is not finished.                *)
(*                                                                         *)
(* What an operation does inside the file system, the post office or a     *)
(* process is in their own modules.  Here a file is the sequence of its    *)
(* bytes, and a request waits for the disk as a whole.                     *)
(***************************************************************************)
EXTENDS Naturals, Sequences, FiniteSets

CONSTANTS
  CommandLines,         \* sequences of options and operands
  NachosNames, NoFile,
  UnixFiles,            \* the host's files: their bytes, by name
  Room,                 \* how many bytes fit on the Nachos disk
  TransferSize

HostBytes == UNION {{UnixFiles[n][i] : i \in DOMAIN UnixFiles[n]} : n \in DOMAIN UnixFiles}
DiskBytes == HostBytes \cup {"?"}          \* "?" is what a sector happened to hold

\* NachosNames has the names under which -cp is asked to create a file.
ASSUME BootAssumption ==
  /\ Room \in Nat /\ TransferSize \in Nat \ {0}
  /\ \A n \in DOMAIN UnixFiles : UnixFiles[n] \in Seq(HostBytes)
  /\ NoFile \notin Seq(DiskBytes)
  /\ CommandLines \subseteq Seq(STRING)
  /\ \A c \in CommandLines : \A i \in 1 .. Len(c) : c[i] = "-cp" /\ i + 2 <= Len(c) => c[i + 2] \in NachosNames

VARIABLES
  commandLine,
  stage,                \* where main is
  done,                 \* how many entries of BootOrder, then of Requests, then of Shutdown are done
  alive,                \* the objects that are built and not deleted
  missing,              \* those that were called upon, or deleted, while they were not alive
  armed,                \* the devices that have an interrupt scheduled
  diskRequests,         \* what the construction of the file system still asks of the disk
  files,                \* the Nachos disk, which outlives the machine
  transfer, printed     \* what Copy and Print are at, and have done

bootVars == <<commandLine, stage, done, alive, missing, armed, diskRequests, files, transfer, printed>>

-----------------------------------------------------------------------------
(***************************************************************************)
(* The command line: three loops over argv, each with its own options.     *)
(***************************************************************************)

\* The options that main, the machine's part of main and the kernel know, with
\* the number of operands each skips.
MainOptions ==
  [o \in {"-cp", "-d", "-x", "-K", "-p", "-r", "-C", "-N", "-l", "-D", "-z", "-u"} |->
     IF o = "-cp" THEN 2 ELSE IF o \in {"-d", "-x", "-K", "-p", "-r"} THEN 1 ELSE 0]
MachineOptions == [o \in {"-n", "-m", "-s"} |-> IF o = "-s" THEN 0 ELSE 1]
KernelOptions ==
  [o \in {"-rs", "-ci", "-co", "-s", "-f", "-u"} |-> IF o \in {"-rs", "-ci", "-co"} THEN 1 ELSE 0]

Operands(options, o) == IF o \in DOMAIN options THEN options[o] ELSE 0

\* The positions that a loop looks at: all but the operands of options it knows.
Read(options) ==
  LET looksAt[i \in 1 .. Len(commandLine)] ==
        \A j \in 1 .. i - 1 : looksAt[j] => j + Operands(options, commandLine[j]) < i
  IN {i \in 1 .. Len(commandLine) : looksAt[i]}

\* ASSERT(i + 1 < argc), or i + 2.
OperandMissing(options) ==
  \E i \in Read(options) : i + Operands(options, commandLine[i]) > Len(commandLine)

Given(options, o) == \E i \in Read(options) : commandLine[i] = o

\* The k-th operand of the last o.
Operand(options, o, k) ==
  LET last == CHOOSE i \in Read(options) :
                commandLine[i] = o /\ \A j \in Read(options) : commandLine[j] = o => j <= i
  IN commandLine[last + k]

-----------------------------------------------------------------------------
(***************************************************************************)
(* What is built in which order, and what each constructor calls upon.     *)
(***************************************************************************)

\* The functions of main that the kernel is given pointers to.
Glue(f) ==
  CASE f \in {"machineRun", "restoreMachineState", "writeVMRegister", "readVMRegister"} -> {"machine"}
    [] f \in {"interruptHalt", "interruptIdle", "setInterruptLevel", "getInterruptLevel",
               "alarmCallBack"} -> {"interrupt"}
    [] f \in {"diskReadRequest", "diskWriteRequest"} -> {"disk"}
    [] f = "conGetChar" -> {"consoleInput"}
    [] f = "conPutChar" -> {"consoleOutput"}

Clock == {"stats", "interrupt"}            \* Interrupt::Schedule reads totalTicks
Sleeping ==                                \* P, Ssleep and Idle
  Clock \cup Glue("setInterruptLevel") \cup Glue("interruptIdle")
  \cup {"kernel", "currentThread", "scheduler"}
DiskIO ==
  Sleeping \cup Glue("diskReadRequest") \cup Glue("diskWriteRequest") \cup {"synchDisk"}

Builds(object, needs) == [object |-> object, needs |-> needs \cup ({"debug"} \ {object})]

InitPointers == Builds("functions", {})    \* every pointer of main is taken from the library at once

BootMachine ==
  << Builds("debug", {}), InitPointers,
     Builds("stats", {}), Builds("interrupt", {"functions"}),
     Builds("hostName", {}), Builds("machine", {}) >>
BootKernel ==
  << Builds("kernel", {"functions", "machine"}), Builds("currentThread", {"kernel"}),
     Builds("scheduler", {"kernel"}), Builds("alarm", {"kernel"}),
     Builds("timer", Clock \cup {"functions", "alarm"}) >>
BootConsole ==
  << Builds("consoleInput", Clock \cup {"functions", "kernel"}), Builds("synchConsoleIn", {"kernel"}),
     Builds("consoleOutput", {"functions", "kernel"}), Builds("synchConsoleOut", {"kernel"}) >>
BootFiles ==
  << Builds("frameMap", {"kernel"}), Builds("procTable", {"kernel"}), Builds("synchDisk", {"kernel"}),
     Builds("disk", {"functions", "hostName", "synchDisk"}),
     Builds("fileSystem", DiskIO) >>
BootNetwork ==
  << Builds("messageAvailable", {"functions"}),
     Builds("network", Clock \cup {"functions", "hostName", "messageAvailable"}),
     Builds("postOfficeIn", Sleeping \cup {"functions", "network"}),
     Builds("postOfficeOut", {"functions", "hostName"}),
     Builds("Cleanup", Clock \cup {"functions"}) >>         \* Enable and CallOnUserAbort

\* The locks and semaphores of the consoles as late as the console is first used.
BootOrderLateSemaphores ==
  BootMachine \o BootKernel \o <<BootConsole[1], BootConsole[3]>> \o BootFiles
  \o <<BootConsole[2], BootConsole[4]>> \o BootNetwork

BootOrder == BootMachine \o BootKernel \o BootConsole \o BootFiles \o BootNetwork

\* Halt, and then what main deletes when it comes back.
HaltDeletes == [needs |-> {"stats"}, deletes |-> {"machine", "interrupt", "stats"}]
Shutdown ==
  << HaltDeletes,
     [needs |-> {"functions"}, deletes |-> {"disk"}],
     [needs |-> {}, deletes |-> {"scheduler", "alarm", "synchConsoleIn", "synchConsoleOut", "frameMap",
                                 "procTable", "synchDisk", "fileSystem", "kernel"}] >>

\* The interrupts, and what their handlers call upon.
HandlerNeeds ==
  [timer |-> Clock \cup Glue("alarmCallBack") \cup {"functions", "timer", "alarm"},
   consoleInput |-> Sleeping \cup {"functions", "consoleInput", "synchConsoleIn"},
   consoleOutput |-> Sleeping \cup {"consoleOutput", "synchConsoleOut"},
   disk |-> DiskIO,
   network |-> Sleeping \cup {"functions", "network", "messageAvailable"}]

Arms(object) == {object} \cap {"timer", "consoleInput", "network"}

-----------------------------------------------------------------------------
(***************************************************************************)
(* Booting.                                                                *)
(***************************************************************************)

NoTransfer == [from |-> "", to |-> "", at |-> 0]

\* LoadLibrary finds the kernel, and an unformatted disk is formatted by the first command line:
\* without it the file system opens what happens to be there.
BootInit ==
  /\ commandLine \in CommandLines /\ stage = "main" /\ done = 0
  /\ alive = {} /\ missing = {} /\ armed = {} /\ diskRequests = 0
  /\ files = [n \in NachosNames |-> NoFile]
  /\ transfer = NoTransfer /\ printed = NoFile

Uses(objects) == missing' = missing \cup (objects \ alive)

\* The first loop, before there is anything to clean up.
ParseMain ==
  /\ stage = "main" /\ stage' = IF OperandMissing(MainOptions) THEN "abort" ELSE "boot"
  /\ UNCHANGED <<commandLine, done, alive, missing, armed, diskRequests, files, transfer, printed>>

\* The second loop stands before the machine, the third in the kernel's constructor.
Refused(object) ==
  \/ object = "hostName" /\ OperandMissing(MachineOptions)
  \/ object = "kernel" /\ OperandMissing(KernelOptions)

Coming == BootOrder[done + 1]

Build ==
  /\ \/ stage = "boot" /\ Coming.object # "fileSystem"
     \/ stage = "opened"
  /\ Uses(Coming.needs)
  /\ IF Refused(Coming.object)
     THEN stage' = "abort" /\ UNCHANGED <<done, alive, armed>>
     ELSE /\ alive' = alive \cup {Coming.object} /\ armed' = armed \cup Arms(Coming.object)
          /\ IF done + 1 = Len(BootOrder) THEN stage' = "requests" /\ done' = 0
                                          ELSE stage' = "boot" /\ done' = done + 1
  /\ UNCHANGED <<commandLine, diskRequests, files, transfer, printed>>

\* FileSystem's constructor: with -f it writes two headers, the free map and a directory that does
\* not fill its second sector, and opens two files; else it only opens them.  It sleeps for each.
BeginFileSystem ==
  /\ stage = "boot" /\ Coming.object = "fileSystem"
  /\ stage' = "waiting" /\ armed' = armed \cup {"disk"}
  /\ Uses(Coming.needs)
  /\ IF Given(KernelOptions, "-f")
     THEN diskRequests' = 8 /\ files' = [n \in NachosNames |-> NoFile]
     ELSE diskRequests' = 2 /\ UNCHANGED files
  /\ UNCHANGED <<commandLine, done, alive, transfer, printed>>

Running == {"requests", "copying", "printing", "user"}

\* A handler, in the Idle of main or at any tick once interrupts are enabled.  The timer goes on;
\* console and network poll again unless something came, which is left to be fetched.
Handler(d) ==
  /\ d \in armed /\ stage \in Running \cup {"waiting"}
  /\ Uses(HandlerNeeds[d])
  /\ armed' \in IF d = "timer" THEN {armed}
                ELSE IF d \in {"consoleInput", "network"} THEN {armed, armed \ {d}}
                ELSE {armed \ {d}}
  /\ UNCHANGED <<commandLine, done, alive, files, transfer, printed>>
  /\ IF d # "disk" \/ stage # "waiting" THEN UNCHANGED <<stage, diskRequests>>
     ELSE diskRequests' = diskRequests - 1 /\ stage' = IF diskRequests = 1 THEN "opened" ELSE "request"

NextRequest ==
  /\ stage = "request" /\ stage' = "waiting" /\ armed' = armed \cup {"disk"}
  /\ Uses(Coming.needs)
  /\ UNCHANGED <<commandLine, done, alive, diskRequests, files, transfer, printed>>

-----------------------------------------------------------------------------
(***************************************************************************)
(* What the command line asks for, in the order of main and not in that of *)
(* the command line.                                                       *)
(***************************************************************************)

Requests == <<"-N", "-K", "-C", "-r", "-cp", "-D", "-l", "-p", "-x">>

Asked(o) ==
  /\ stage = "requests" /\ done < Len(Requests) /\ Requests[done + 1] = o /\ Given(MainOptions, o)
  /\ UNCHANGED <<commandLine, alive, diskRequests>>

NextOne == stage' = "requests" /\ done' = done + 1

NotAsked ==
  /\ stage = "requests" /\ done < Len(Requests) /\ ~Given(MainOptions, Requests[done + 1])
  /\ NextOne
  /\ UNCHANGED <<commandLine, alive, missing, armed, diskRequests, files, transfer, printed>>

\* NetworkTest, between hosts 0 and 1; it may also wait for ever.
NetworkTest ==
  /\ Asked("-N") /\ NextOne
  /\ IF Given(MachineOptions, "-m") /\ Operand(MachineOptions, "-m", 1) \notin {"0", "1"}
     THEN UNCHANGED <<missing, armed>>
     ELSE /\ Uses(Sleeping \cup {"network", "postOfficeIn", "postOfficeOut"})
          /\ armed' \in {armed, armed \cup {"network"}}
  /\ UNCHANGED <<files, transfer, printed>>

ThreadSelfTest ==
  /\ Asked("-K") /\ NextOne
  /\ Uses(Sleeping)
  /\ UNCHANGED <<armed, files, transfer, printed>>

\* Each character that is echoed sets off both halves of the console; at end of file it is over.
ConsoleTest ==
  /\ Asked("-C")
  /\ Uses(Sleeping \cup Glue("conGetChar") \cup Glue("conPutChar") \cup {"synchConsoleIn", "synchConsoleOut"})
  /\ \/ armed' = armed \cup {"consoleInput", "consoleOutput"} /\ UNCHANGED <<stage, done>>
     \/ NextOne /\ UNCHANGED armed
  /\ UNCHANGED <<files, transfer, printed>>

UsesDisk == Uses(DiskIO \cup {"fileSystem"}) /\ armed' = armed \cup {"disk"}

RemoveAsked ==
  /\ Asked("-r") /\ NextOne /\ UsesDisk
  /\ LET n == Operand(MainOptions, "-r", 1) IN
       files' = IF n \in NachosNames THEN [files EXCEPT ![n] = NoFile] ELSE files
  /\ UNCHANGED <<transfer, printed>>

\* Print and List of the file system.
ListFiles ==
  /\ Asked("-D") \/ Asked("-l")
  /\ NextOne /\ UsesDisk
  /\ UNCHANGED <<files, transfer, printed>>

Exists(n) == n \in NachosNames /\ files[n] # NoFile

SizeOf(n) == IF Exists(n) THEN Len(files[n]) ELSE 0

Used == LET sum[S \in SUBSET NachosNames] ==
              IF S = {} THEN 0 ELSE LET n == CHOOSE m \in S : TRUE IN SizeOf(n) + sum[S \ {n}]
        IN sum[NachosNames]

FromName == Operand(MainOptions, "-cp", 1)
ToName == Operand(MainOptions, "-cp", 2)

\* Copy: no input file, or Create says no.
CannotCopy ==
  \/ FromName \notin DOMAIN UnixFiles
  \/ Exists(ToName) \/ Used + Len(UnixFiles[FromName]) > Room

CopyRefused ==
  /\ Asked("-cp") /\ CannotCopy /\ NextOne
  /\ Uses({"functions", "fileSystem"})
  /\ UNCHANGED <<armed, files, transfer, printed>>

\* Lseek to the end, Tell and Lseek back give the length with which the file is created; what it
\* holds then is whatever was in its sectors.
StartAtEnd(from) == Len(UnixFiles[from])
StartAt(from) == 0

CopyBegins ==
  /\ Asked("-cp") /\ ~CannotCopy /\ UsesDisk
  /\ stage' = "copying" /\ UNCHANGED <<done, printed>>
  /\ files' = [files EXCEPT ![ToName] = [i \in 1 .. Len(UnixFiles[FromName]) |-> "?"]]
  /\ transfer' = [from |-> FromName, to |-> ToName, at |-> StartAt(FromName)]

Min2(a, b) == IF a < b THEN a ELSE b

\* ReadPartial fills the buffer as far as the file goes, Write appends as far as the new one goes.
CopyChunk ==
  LET source == UnixFiles[transfer.from]
      amount == Min2(TransferSize, Len(source) - transfer.at)
  IN /\ stage = "copying" /\ amount > 0 /\ UsesDisk
     /\ files' = [files EXCEPT ![transfer.to] =
                    [i \in DOMAIN @ |-> IF i \in transfer.at + 1 .. transfer.at + amount
                                        THEN source[i] ELSE @[i]]]
     /\ transfer' = [transfer EXCEPT !.at = @ + amount]
     /\ UNCHANGED <<commandLine, stage, done, alive, diskRequests, printed>>

CopyEnds ==
  /\ stage = "copying" /\ transfer.at = Len(UnixFiles[transfer.from]) /\ NextOne
  /\ Uses({"functions", "fileSystem"})
  /\ UNCHANGED <<commandLine, alive, armed, diskRequests, files, transfer, printed>>

PrintName == Operand(MainOptions, "-p", 1)

PrintBegins ==
  /\ Asked("-p") /\ UsesDisk
  /\ IF Exists(PrintName) THEN stage' = "printing" /\ printed' = <<>> /\ UNCHANGED done
                          ELSE NextOne /\ UNCHANGED printed
  /\ UNCHANGED <<files, transfer>>

PrintChunk ==
  LET amount == Min2(TransferSize, SizeOf(PrintName) - Len(printed)) IN
  /\ stage = "printing" /\ UsesDisk
  /\ printed' = printed \o SubSeq(files[PrintName], Len(printed) + 1, Len(printed) + amount)
  /\ IF amount = 0 THEN NextOne ELSE UNCHANGED <<stage, done>>
  /\ UNCHANGED <<commandLine, alive, diskRequests, files, transfer>>

\* The first process: Open, GetNewProcId and the address space, which may not find room.
Execute ==
  /\ Asked("-x") /\ armed' = armed \cup {"disk"}
  /\ Uses(DiskIO \cup {"fileSystem", "procTable", "frameMap"}
          \cup Glue("writeVMRegister") \cup Glue("restoreMachineState"))
  /\ \/ NextOne
     \/ Exists(Operand(MainOptions, "-x", 1)) /\ stage' = "user" /\ UNCHANGED done
  /\ UNCHANGED <<files, transfer, printed>>

-----------------------------------------------------------------------------
(***************************************************************************)
(* The end.                                                                *)
(***************************************************************************)

Delete(entry) ==
  Uses(entry.needs \cup entry.deletes \cup {"debug"}) /\ alive' = alive \ entry.deletes

\* Halt at the end of main, which deletes the machine under the kernel and comes back.
EndOfMain ==
  /\ stage = "requests" /\ done = Len(Requests)
  /\ stage' = "shutdown" /\ done' = 1 /\ Delete(Shutdown[1])
  /\ UNCHANGED <<commandLine, armed, diskRequests, files, transfer, printed>>

\* Then the disk and the kernel, whose destructor exits.
DeleteRest ==
  /\ stage = "shutdown"
  /\ Delete(Shutdown[done + 1]) /\ done' = done + 1
  /\ stage' = IF done + 1 = Len(Shutdown) THEN "exit" ELSE "shutdown"
  /\ UNCHANGED <<commandLine, armed, diskRequests, files, transfer, printed>>

\* The system call Halt deletes the same and runs into ASSERTNOTREACHED.
SysHalt ==
  /\ stage = "user" /\ stage' = "abort" /\ Delete(HaltDeletes)
  /\ UNCHANGED <<commandLine, done, armed, diskRequests, files, transfer, printed>>

\* Ctrl-C: Cleanup deletes the same and returns to whatever was going on, of which nothing
\* more can be said.
Cleanup ==
  /\ stage \in Running /\ stage' = "undefined" /\ Delete(HaltDeletes)
  /\ UNCHANGED <<commandLine, done, armed, diskRequests, files, transfer, printed>>

\* The program is started again, with another command line and the disk as it is.
Restart ==
  /\ stage \in {"exit", "abort"}
  /\ commandLine' \in CommandLines /\ stage' = "main" /\ done' = 0
  /\ alive' = {} /\ armed' = {} /\ diskRequests' = 0 /\ transfer' = NoTransfer /\ printed' = NoFile
  /\ UNCHANGED <<missing, files>>

BootNext ==
  \/ ParseMain \/ Build \/ BeginFileSystem \/ NextRequest
  \/ \E d \in DOMAIN HandlerNeeds : Handler(d)
  \/ NotAsked \/ NetworkTest \/ ThreadSelfTest \/ ConsoleTest \/ RemoveAsked \/ ListFiles
  \/ CopyRefused \/ CopyBegins \/ CopyChunk \/ CopyEnds \/ PrintBegins \/ PrintChunk \/ Execute
  \/ EndOfMain \/ DeleteRest \/ SysHalt \/ Cleanup \/ Restart

BootSpec == BootInit /\ [][BootNext]_bootVars

-----------------------------------------------------------------------------
(***************************************************************************)
(* Correctness.                                                            *)
(***************************************************************************)

\* Every object is there when a constructor, a request, a destructor or an interrupt
\* handler calls upon it, and is deleted at most once: although the devices that
\* Initialize has started interrupt it while the file system waits for the disk, although
\* Halt takes the machine away under the kernel, and whatever the command line is.
AliveWhenUsed == missing = {}

\* What -cp has copied is the host's file, byte by byte, and -p prints what is on the
\* disk, whatever their length is to the buffer's.
TransferExact ==
  /\ transfer # NoTransfer /\ stage \notin {"copying", "undefined"} => files[transfer.to] = UnixFiles[transfer.from]
  /\ printed # NoFile /\ stage \notin {"printing", "undefined"} => printed = files[PrintName]
=============================================================================

---------------------------- MODULE UserPrograms ----------------------------
(***************************************************************************)
(* User programs on one CPU: the machine's registers, page table register  *)
(* and memory, the address spaces, open-file tables and saved registers of *)
(* the processes (addrspace.cpp, table.cpp, thread.cpp), the system calls  *)
(* (ksyscall.h, exception.cpp) and the switch between threads              *)
(* (scheduler.cpp).  A process has one thread and a page holds one value.  *)
(* Any thread may be given the CPU at any time: what it waits for, and the *)
(* order of the ready list, are those of the other modules.                *)
(***************************************************************************)
EXTENDS Naturals, Sequences, FiniteSets

CONSTANTS Procs, First,    \* the processes, and the one that boots
          NumPhysPages,
          NumPages,        \* the pages of a program
          LoadedPages,     \* those that come from its file; the others are zero
          ReadOnlyPages,
          Values, Files,   \* what a page can hold; the values that name a file, 0 none
          MaxOpenFiles,
          MaxSteps         \* bound: the instructions executed, of all programs

ASSUME ProgramAssumption ==
  /\ First \in Procs /\ NumPhysPages \in Nat /\ NumPages \in 1 .. NumPhysPages
  /\ ReadOnlyPages \subseteq LoadedPages /\ LoadedPages \subseteq 1 .. NumPages
  /\ Values \subseteq Nat /\ {0, 1} \subseteq Values /\ Files \subseteq Values \ {0}
  /\ MaxOpenFiles \in Nat /\ MaxSteps \in Nat

VARIABLES
  steps,                          \* bound: the instructions executed
  current, state, call,           \* the thread that runs; each thread's place
  registers, machineTable,        \* the machine's; whose page table it uses
  userRegisters,                  \* Thread::userRegisters
  mainMemory, frameMap,           \* frameMap: the frames taken
  pageTable, openFiles,           \* of each process: its frames; its files by slot
  handles,                        \* the OpenFile objects not yet deleted
  expected, view,                 \* what each program's own instructions and calls
                                  \* make of its registers and pages
  atSwitch,                       \* history: expected at each program's last switch
  nextPC                          \* history: each program's instruction after the last

registersVars == <<steps, current, state, call, registers, machineTable, userRegisters, expected, atSwitch, nextPC>>
memoryVars == <<mainMemory, frameMap, pageTable, view>>
fileVars == <<openFiles, handles>>
programVars == <<registersVars, memoryVars, fileVars>>

Frames == 0 .. NumPhysPages - 1
Pages == 1 .. NumPages
Image(page) == IF page \in LoadedPages THEN 1 ELSE 0
NoFile == 0
ConsoleIds == 0 .. 1
Slots == 1 .. MaxOpenFiles
FileIds == 2 .. MaxOpenFiles + 1

\* The registers that matter here: PC in instructions, r4 and r2.
FirstRegisters == [pc |-> 0, r4 |-> 0, r2 |-> 0]
\* What the memory of a new Thread may hold in its place: nothing initializes it.
LeftRegisters == [pc |-> 1, r4 |-> 1, r2 |-> 1]
NoCall == [op |-> "none", at |-> "return", saved |-> FALSE, arg |-> 0, result |-> 0, child |-> First]

ProgramInit ==
  /\ steps = 0 /\ current = First
  /\ state = [p \in Procs |-> IF p = First THEN "user" ELSE "none"]
  /\ call = [p \in Procs |-> NoCall]
  /\ registers = FirstRegisters /\ machineTable = First
  /\ \E left \in {FirstRegisters, LeftRegisters} : userRegisters = [p \in Procs |-> left]
  /\ expected = [p \in Procs |-> FirstRegisters]
  /\ atSwitch = userRegisters /\ nextPC = [p \in Procs |-> 0]
  /\ pageTable = [p \in Procs |-> IF p = First THEN [page \in Pages |-> page - 1] ELSE <<>>]
  /\ frameMap = 0 .. NumPages - 1
  /\ mainMemory = [f \in Frames |-> IF f < NumPages THEN Image(f + 1) ELSE 0]
  /\ view = [p \in Procs |-> [page \in Pages |-> Image(page)]]
  /\ openFiles = [p \in Procs |-> [n \in Slots |-> NoFile]]
  /\ handles = 0

-----------------------------------------------------------------------------
(***************************************************************************)
(* Instructions.                                                           *)
(***************************************************************************)

InUser(p) == current = p /\ state[p] = "user" /\ steps < MaxSteps /\ steps' = steps + 1

\* An instruction that computes: it may leave any value in a register.
Computed(regs, v) == [pc |-> regs.pc + 1, r4 |-> v, r2 |-> regs.r2]

Compute(p) ==
  /\ InUser(p)
  /\ \E v \in Values :
       /\ registers' = Computed(registers, v)
       /\ expected' = [expected EXCEPT ![p] = Computed(expected[p], v)]
  /\ nextPC' = [nextPC EXCEPT ![p] = @ + 1]
  /\ UNCHANGED <<current, state, call, machineTable, userRegisters, atSwitch, memoryVars, fileVars>>

\* A store goes through the table that the machine has been told to use.
StoreValue(p) ==
  /\ InUser(p)
  /\ \E v \in Values, page \in Pages \ ReadOnlyPages :
       /\ mainMemory' = [mainMemory EXCEPT ![pageTable[machineTable][page]] = v]
       /\ view' = [view EXCEPT ![p][page] = v]
  /\ registers' = [registers EXCEPT !.pc = @ + 1]
  /\ expected' = [expected EXCEPT ![p].pc = @ + 1]
  /\ nextPC' = [nextPC EXCEPT ![p] = @ + 1]
  /\ UNCHANGED <<current, state, call, machineTable, userRegisters, atSwitch, frameMap, pageTable, fileVars>>

\* A system call, or ("Fault") any other exception: the machine enters the kernel with
\* the registers as they are.
Trap(p) ==
  /\ InUser(p)
  /\ state' = [state EXCEPT ![p] = "kernel"]
  /\ \E op \in {"Add", "Create", "Open", "Read", "Write", "Close", "Exec", "Join", "Exit", "Unknown", "Fault"} :
       call' = [call EXCEPT ![p] =
         [op |-> op, at |-> "start", saved |-> FALSE, arg |-> registers.r4, result |-> 0, child |-> First]]
  /\ UNCHANGED <<current, registers, machineTable, userRegisters, expected, atSwitch, nextPC, memoryVars, fileVars>>

-----------------------------------------------------------------------------
(***************************************************************************)
(* The switch.                                                             *)
(***************************************************************************)

Runnable(q) == state[q] \in {"born", "user", "kernel"}

\* ProcessStartup, the first thing a new thread does: InitRegisters and RestoreState.
ProcessStartup(q) ==
  /\ registers' = FirstRegisters
  /\ expected' = [expected EXCEPT ![q] = FirstRegisters]
  /\ state' = [state EXCEPT ![q] = "user"]

\* Mutation: a thread that is in the kernel has no user registers to save.
SaveUserOnly(p) ==
  userRegisters' = IF state[p] = "kernel" THEN userRegisters ELSE [userRegisters EXCEPT ![p] = registers]

SaveUserState(p) == userRegisters' = [userRegisters EXCEPT ![p] = registers]

RestoreState(q) == machineTable' = q

\* Where a call that waited goes on.
Resumed(place) ==
  CASE place = "wait" -> "go" [] place = "wait to load" -> "load" [] OTHER -> place

\* Scheduler::Run, on both sides of SWITCH.  A thread may be switched to itself, when it
\* went to sleep and was woken before another was ready.
Run(q) ==
  /\ Runnable(q) /\ (q = current => state[q] = "kernel")
  /\ current' = q /\ UNCHANGED <<steps, nextPC>>
  /\ SaveUserState(current) /\ atSwitch' = [atSwitch EXCEPT ![current] = expected[current]]
  /\ RestoreState(q)
  /\ IF state[q] = "born" THEN ProcessStartup(q)
     ELSE /\ registers' = userRegisters'[q]
          /\ UNCHANGED <<state, expected>>
  /\ call' = [call EXCEPT ![current].saved = TRUE, ![current].at = Resumed(call[current].at)]
  /\ UNCHANGED <<memoryVars, fileVars>>

-----------------------------------------------------------------------------
(***************************************************************************)
(* System calls.  A step of a call ends where the thread may lose the CPU, *)
(* at "wait" where it must: for the disk or the console.                   *)
(***************************************************************************)

At(p, op, at) == current = p /\ state[p] = "kernel" /\ call[p].op = op /\ call[p].at = at
Goto(p, at) == call' = [call EXCEPT ![p].at = at]
Finish(p, result) == call' = [call EXCEPT ![p].at = "return", ![p].result = result]
Failed == MaxOpenFiles + 2    \* for -1: it is no file id

\* A step of the kernel leaves alone the registers, saved or not, and what is expected of them.
registerState == <<registers, machineTable, userRegisters, expected, atSwitch, nextPC>>
InKernel == UNCHANGED <<steps, current, state, registerState>>

\* AddrSpace::Translate, to a frame; Len(pageTable[p]) pages are valid.
Maps(p, page, writing) == page \in DOMAIN pageTable[p] /\ ~(writing /\ page \in ReadOnlyPages)

\* KernelToUserBuf writes the value from page first on, until the last or one that it may
\* not write.
Written(p, first, last) == {page \in first .. last : \A n \in first .. page : Maps(p, n, TRUE)}

\* GetOpenFile: an id is a slot of the table and 2, the first two being the console's.
GetOpenFile(p, id) == IF id \in FileIds THEN openFiles[p][id - 1] ELSE NoFile

SysAdd(p) ==
  /\ At(p, "Add", "start") /\ Finish(p, (call[p].arg + 1) % 2)
  /\ InKernel /\ UNCHANGED <<memoryVars, fileVars>>

\* Any other exception, or a number that is no system call's, is only reported; the result
\* of the latter is a local that nothing has set.
Unexpected(p) ==
  /\ \/ At(p, "Fault", "start") /\ Finish(p, 0)
     \/ At(p, "Unknown", "start") /\ \E left \in Values : Finish(p, left)
  /\ InKernel /\ UNCHANGED <<memoryVars, fileVars>>

\* SysJoin waits for a child, or fails: what it waits for is in ProcTable.
SysJoin(p) ==
  /\ \/ At(p, "Join", "start") /\ (Goto(p, "wait") \/ Finish(p, Failed))
     \/ At(p, "Join", "go") /\ \E status \in Values : Finish(p, status)
  /\ InKernel /\ UNCHANGED <<memoryVars, fileVars>>

\* SysRead.  The console's and a file's data arrive after a wait.
SysRead(p) ==
  /\ At(p, "Read", "start")
  /\ \E id \in ConsoleIds \cup FileIds :
       IF id = 1 \/ (id # 0 /\ GetOpenFile(p, id) = NoFile) THEN Finish(p, Failed) ELSE Goto(p, "wait")
  /\ InKernel /\ UNCHANGED <<memoryVars, fileVars>>

SysReadCopy(p) ==
  /\ At(p, "Read", "go")
  /\ \E first, last \in 1 .. NumPages + 1, v \in Values :
       LET pages == Written(p, first, last)
       IN /\ first <= last
          /\ mainMemory' = [f \in Frames |-> IF \E page \in pages : pageTable[p][page] = f THEN v ELSE mainMemory[f]]
          /\ view' = [view EXCEPT ![p] = [page \in Pages |-> IF page \in pages THEN v ELSE @[page]]]
          /\ Finish(p, IF pages = first .. last THEN 1 ELSE Failed)
  /\ InKernel /\ UNCHANGED <<frameMap, pageTable, fileVars>>

\* SysWrite copies the buffer out before it waits.
SysWrite(p) ==
  /\ \/ /\ At(p, "Write", "start")
        /\ \E id \in ConsoleIds \cup FileIds, page \in 1 .. NumPages + 1 :
             IF id = 0 \/ (id # 1 /\ GetOpenFile(p, id) = NoFile) \/ ~Maps(p, page, FALSE)
             THEN Finish(p, Failed) ELSE Goto(p, "wait")
     \/ At(p, "Write", "go") /\ Finish(p, 1)
  /\ InKernel /\ UNCHANGED <<memoryVars, fileVars>>

\* UserStringToKernel, then FileSystem::Open or Create, which read the directory.
UseName(p) ==
  /\ \E op \in {"Create", "Open", "Exec"} : At(p, op, "start")
  /\ \E page \in 1 .. NumPages + 1 :
       IF Maps(p, page, FALSE)
       THEN call' = [call EXCEPT ![p].at = "wait", ![p].arg = mainMemory[pageTable[p][page]]]
       ELSE Finish(p, Failed)
  /\ InKernel /\ UNCHANGED <<memoryVars, fileVars>>

\* SysCreate: what the file system does is in FileSystem.
SysCreate(p) ==
  /\ At(p, "Create", "go") /\ \E result \in {0, Failed} : Finish(p, result)
  /\ InKernel /\ UNCHANGED <<memoryVars, fileVars>>

FreeSlots(p) == {n \in Slots : openFiles[p][n] = NoFile}
Lowest(S) == CHOOSE n \in S : \A k \in S : n <= k

\* Mutation: the slot after the last file is taken, if another is free.
NextSlot(p) ==
  LET used == {n \in Slots : openFiles[p][n] # NoFile}
  IN IF FreeSlots(p) = {} THEN 0 ELSE (Cardinality(used) % MaxOpenFiles) + 1

\* Table::Insert: the first free slot, 0 if there is none.
Insert(p) == IF FreeSlots(p) = {} THEN 0 ELSE Lowest(FreeSlots(p))

\* SysOpen: a file for which there is no slot is closed again.
SysOpen(p) ==
  LET name == call[p].arg
      slot == Insert(p)
  IN /\ At(p, "Open", "go")
     /\ IF name \in Files /\ slot # 0
        THEN /\ openFiles' = [openFiles EXCEPT ![p][slot] = name]
                  /\ handles' = handles + 1
             /\ Finish(p, slot + 1)
        ELSE Finish(p, Failed) /\ UNCHANGED fileVars
     /\ InKernel /\ UNCHANGED memoryVars

SysClose(p) ==
  /\ At(p, "Close", "start")
  /\ \E id \in ConsoleIds \cup FileIds :
       IF GetOpenFile(p, id) # NoFile
       THEN /\ openFiles' = [openFiles EXCEPT ![p][id - 1] = NoFile]
            /\ handles' = handles - 1
            /\ Finish(p, 0)
       ELSE Finish(p, Failed) /\ UNCHANGED fileVars
  /\ InKernel /\ UNCHANGED memoryVars

-----------------------------------------------------------------------------
(***************************************************************************)
(* Exec and Exit.                                                          *)
(***************************************************************************)

\* SysExec, after Open and GetNewProcId: the process is not yet anyone's.
SysExec(p) ==
  /\ At(p, "Exec", "go")
  /\ IF call[p].arg \in Files /\ \E c \in Procs : state[c] = "none"
     THEN \E c \in Procs :
            /\ state[c] = "none"
            /\ state' = [state EXCEPT ![c] = "loading"]
            /\ call' = [call EXCEPT ![p].at = "alloc", ![p].child = c]
            /\ handles' = handles + 1
     ELSE Finish(p, Failed) /\ UNCHANGED <<state, handles>>
  /\ UNCHANGED <<steps, current, registerState, memoryVars, openFiles>>

\* Mutation: the pages of a new address space are not cleared.
NotCleared(frames) == mainMemory

\* bzero on every page.
Cleared(frames) == [f \in Frames |-> IF f \in frames THEN 0 ELSE mainMemory[f]]

FramesOf(c) == {pageTable[c][page] : page \in DOMAIN pageTable[c]}

\* The constructor's loop takes a frame for each page.  When none is left the address
\* space is deleted and Exec fails.  After the last all of them are cleared.
AllocatePage(p) ==
  LET c == call[p].child
      free == Frames \ frameMap
      frame == Lowest(free)
  IN /\ At(p, "Exec", "alloc")
     /\ IF free = {}
        THEN /\ frameMap' = frameMap \ FramesOf(c)
             /\ pageTable' = [pageTable EXCEPT ![c] = <<>>]
             /\ state' = [state EXCEPT ![c] = "none"]
             /\ handles' = handles - 1
             /\ Finish(p, Failed)
             /\ UNCHANGED mainMemory
        ELSE /\ frameMap' = frameMap \cup {frame}
             /\ pageTable' = [pageTable EXCEPT ![c] = Append(@, frame)]
             /\ IF Len(pageTable[c]) + 1 < NumPages THEN UNCHANGED <<call, mainMemory>>
                ELSE Goto(p, "wait to load") /\ mainMemory' = Cleared(FramesOf(c) \cup {frame})
             /\ UNCHANGED <<state, handles>>
     /\ UNCHANGED <<steps, current, registerState, view, openFiles>>

\* The child's pages are read from its file, and the child forked.  (The pages are read
\* one by one, and nobody else can see the address space in between.)
LoadPages(p) ==
  LET c == call[p].child
  IN /\ At(p, "Exec", "load")
     /\ mainMemory' = [f \in Frames |->
          IF \E page \in LoadedPages : pageTable[c][page] = f THEN 1 ELSE mainMemory[f]]
     /\ view' = [view EXCEPT ![c] = [page \in Pages |-> Image(page)]]
     /\ state' = [state EXCEPT ![c] = "born"]
     /\ handles' = handles - 1
     /\ Finish(p, 2)
     /\ UNCHANGED <<steps, current, registerState, frameMap, pageTable, openFiles>>

\* Terminator: the destructor gives the frames back one by one and closes the files, and
\* the thread finishes; another must be given the CPU.
Terminator(p) ==
  LET open == {n \in Slots : openFiles[p][n] # NoFile}
  IN /\ At(p, "Exit", "start")
     /\ IF pageTable[p] # <<>>
        THEN /\ frameMap' = frameMap \ {Head(pageTable[p])}
             /\ pageTable' = [pageTable EXCEPT ![p] = Tail(@)]
             /\ UNCHANGED <<state, openFiles, handles>>
        ELSE /\ openFiles' = [openFiles EXCEPT ![p] = [n \in Slots |-> NoFile]]
             /\ handles' = handles - Cardinality(open)
             /\ state' = [state EXCEPT ![p] = "done"]
             /\ UNCHANGED <<frameMap, pageTable>>
     /\ UNCHANGED <<steps, current, call, registerState, mainMemory, view>>

\* The end of ExceptionHandler: the page table, the saved registers, and for a system call
\* the result and the next instruction.
Return(p) ==
  LET Returned(regs) == IF call[p].op = "Fault" THEN regs
                        ELSE [pc |-> regs.pc + 1, r4 |-> regs.r4, r2 |-> call[p].result]
  IN /\ current = p /\ state[p] = "kernel" /\ call[p].at = "return"
     /\ RestoreState(p)
     /\ registers' = Returned(userRegisters[p])
     /\ expected' = [expected EXCEPT ![p] = Returned(IF call[p].saved THEN expected[p] ELSE atSwitch[p])]
     /\ nextPC' = [nextPC EXCEPT ![p] = IF call[p].op = "Fault" THEN @ ELSE @ + 1]
     /\ state' = [state EXCEPT ![p] = "user"]
     /\ call' = [call EXCEPT ![p] = NoCall]
     /\ UNCHANGED <<steps, current, userRegisters, atSwitch, memoryVars, fileVars>>

ProgramStep(p) ==
  \/ Compute(p) \/ StoreValue(p) \/ Trap(p) \/ Run(p)
  \/ SysAdd(p) \/ Unexpected(p) \/ SysRead(p) \/ SysReadCopy(p) \/ SysWrite(p)
  \/ UseName(p) \/ SysCreate(p) \/ SysOpen(p) \/ SysClose(p) \/ SysJoin(p)
  \/ SysExec(p) \/ AllocatePage(p) \/ LoadPages(p) \/ Terminator(p) \/ Return(p)

ProgramNext == \E p \in Procs : ProgramStep(p)

ProgramSpec == ProgramInit /\ [][ProgramNext]_programVars

-----------------------------------------------------------------------------
(***************************************************************************)
(* Properties.                                                             *)
(***************************************************************************)

\* A program that runs has the registers that its own instructions and system calls have
\* left, and the machine uses its page table, whatever ran meanwhile: never another program's.
\* After a call in which it lost the CPU, they are those of the trap, with the result and the
\* PC set.  After any other, which has saved nothing, ExceptionHandler restores those of the
\* program's own last switch, or, if there was none yet, what memory held: see
\* ResumesAfterSyscall (Scheduler::Run, ExceptionHandler).
OwnRegisters ==
  state[current] = "user" => registers = expected[current] /\ machineTable = current

\* Until it exits, each page of a program holds what the program last stored, what the
\* kernel last copied there for it, or what was loaded: zero if nothing was.  No other
\* program, and no exit or Exec of another, changes it.
OwnMemory ==
  \A p \in Procs :
    (state[p] \in {"born", "user"} \/ (state[p] = "kernel" /\ call[p].op # "Exit")) =>
      \A page \in Pages : mainMemory[pageTable[p][page]] = view[p][page]

\* The OpenFile objects alive are those that a file id stands for, one each, and the
\* program files being loaded: none is lost on a path that fails, or overwritten.
HandlesExact ==
  handles = Cardinality({x \in Procs \X Slots : openFiles[x[1]][x[2]] # NoFile})
            + Cardinality({p \in Procs : call[p].op = "Exec" /\ call[p].at \in {"alloc", "wait to load", "load"}})

\* "On a syscall, the OS software must increment the PC so execution begins at the
\* instruction immediately after the syscall" (mipssim.cpp:112).  Not so for a call during
\* which the thread never lost the CPU: ExceptionHandler restores the registers that were
\* saved at the last switch.
ResumesAfterSyscall == state[current] = "user" => registers.pc = nextPC[current]
=============================================================================

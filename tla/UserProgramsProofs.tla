------------------------- MODULE UserProgramsProofs -------------------------
(***************************************************************************)
(* UserPrograms for every set of processes, size of memory and size of     *)
(* program.                                                                *)
(***************************************************************************)
EXTENDS UserPrograms, FiniteSetTheorems, WellFoundedInduction, SequenceTheorems, TLAPS

-----------------------------------------------------------------------------
(***************************************************************************)
(* Types.                                                                  *)
(***************************************************************************)

RegisterFiles == [pc : Nat, r4 : Nat, r2 : Nat]
Ops == {"none", "Add", "Create", "Open", "Read", "Write", "Close", "Exec", "Join", "Exit", "Unknown", "Fault"}
Places == {"start", "wait", "go", "alloc", "wait to load", "load", "return"}
Calls == [op : Ops, at : Places, saved : BOOLEAN, arg : Nat, result : Nat, child : Procs]
States == {"none", "loading", "born", "user", "kernel", "done"}

ControlTypes ==
  /\ steps \in Nat /\ current \in Procs /\ machineTable \in Procs
  /\ state \in [Procs -> States]
  /\ call \in [Procs -> Calls]
  /\ registers \in RegisterFiles
  /\ userRegisters \in [Procs -> RegisterFiles] /\ expected \in [Procs -> RegisterFiles]
  /\ atSwitch \in [Procs -> RegisterFiles]

MemoryTypes ==
  /\ mainMemory \in [Frames -> Nat] /\ frameMap \subseteq Frames
  /\ pageTable \in [Procs -> Seq(Frames)]
  /\ view \in [Procs -> [Pages -> Nat]]
  /\ openFiles \in [Procs -> [Slots -> Nat]]

\* Every variable has its type; handles and nextPC are only counted with.
ProgramTypeOK == ControlTypes /\ MemoryTypes

\* The processes that are building the address space of another.
Building(p) == call[p].op = "Exec" /\ call[p].at \in {"alloc", "wait to load", "load"}

\* A process that is being built is nobody's but its builder's.
ChildrenLoading ==
  /\ \A p \in Procs : Building(p) => state[call[p].child] = "loading"
  /\ \A p, q \in Procs : Building(p) /\ Building(q) /\ call[p].child = call[q].child => p = q

\* Only a process that has been started has the CPU, and the machine uses its page table.
HasTheCPU ==
  /\ state[current] \in {"user", "kernel", "done"}
  /\ state[current] = "user" => machineTable = current

BuildInv == ProgramTypeOK /\ ChildrenLoading /\ HasTheCPU

-----------------------------------------------------------------------------
(***************************************************************************)
(* Lemmas about the operators.                                             *)
(***************************************************************************)

\* The lowest of some numbers is one of them, and no other is below it.
LEMMA LowestProperties ==
  ASSUME NEW S, S \subseteq Nat, S # {}
  PROVE  Lowest(S) \in S /\ \A k \in S : Lowest(S) <= k
<1>1. PICK n \in S : \A k \in S : ~ (<<k, n>> \in OpToRel(<, Nat))
  BY NatLessThanWellFounded, WFMin, Zenon
<1>2. ASSUME NEW k \in S, ~(n <= k)
      PROVE  FALSE
  <2>1. <<k, n>> \in Nat \X Nat /\ k < n
    BY <1>2
  <2>2. <<k, n>> \in OpToRel(<, Nat)
    BY <2>1 DEF OpToRel
  <2> QED  BY <2>2, <1>1
<1> QED  BY <1>2 DEF Lowest

\* A call with one field changed is a call, and has the other fields it had.
LEMMA SetAt ==
  ASSUME NEW c \in Calls, NEW at \in Places, NEW d, d = [c EXCEPT !.at = at]
  PROVE  d \in Calls /\ d.op = c.op /\ d.at = at /\ d.arg = c.arg
         /\ d.result = c.result /\ d.saved = c.saved /\ d.child = c.child
  BY DEF Calls

\* A call in which its argument, its result or its child is set is a call at the same place.
LEMMA SetArg ==
  ASSUME NEW c \in Calls, NEW arg \in Nat, NEW d, d = [c EXCEPT !.arg = arg]
  PROVE  d \in Calls /\ d.op = c.op /\ d.at = c.at /\ d.arg = arg
         /\ d.result = c.result /\ d.saved = c.saved /\ d.child = c.child
  BY DEF Calls

\* The same of the result,
LEMMA SetResult ==
  ASSUME NEW c \in Calls, NEW result \in Nat, NEW d, d = [c EXCEPT !.result = result]
  PROVE  d \in Calls /\ d.op = c.op /\ d.at = c.at /\ d.arg = c.arg
         /\ d.result = result /\ d.saved = c.saved /\ d.child = c.child
  BY DEF Calls

\* and of the child.
LEMMA SetChild ==
  ASSUME NEW c \in Calls, NEW child \in Procs, NEW d, d = [c EXCEPT !.child = child]
  PROVE  d \in Calls /\ d.op = c.op /\ d.at = c.at /\ d.arg = c.arg
         /\ d.result = c.result /\ d.saved = c.saved /\ d.child = child
  BY DEF Calls

\* What Finish and Goto do to the call of a process.
LEMMA FinishCall ==
  ASSUME ProgramTypeOK, NEW p \in Procs, NEW result \in Nat, Finish(p, result)
  PROVE  /\ call' \in [Procs -> Calls]
         /\ \A q \in Procs \ {p} : call'[q] = call[q]
         /\ call'[p].op = call[p].op
         /\ call'[p].at = "return"
         /\ call'[p].saved = call[p].saved
         /\ call'[p].result = result
<1> DEFINE c == [call[p] EXCEPT !.at = "return"]
           d == [c EXCEPT !.result = result]
<1>1. call \in [Procs -> Calls]
  BY DEF ProgramTypeOK, ControlTypes
<1>2. c \in Calls /\ c.op = call[p].op /\ c.at = "return" /\ c.saved = call[p].saved
  <2>1. call[p] \in Calls /\ "return" \in Places
    BY <1>1 DEF Places
  <2> QED  BY <2>1, SetAt
<1>3. call' = [call EXCEPT ![p] = d]
  BY Zenon DEF Finish
<1> HIDE DEF c
<1>4. d \in Calls /\ d.op = call[p].op /\ d.at = "return" /\ d.saved = call[p].saved /\ d.result = result
  BY <1>2, SetResult
<1> HIDE DEF d
<1> QED  BY <1>1, <1>3, <1>4

\* Goto changes the place of its own call and nothing else about the calls.
LEMMA GotoCall ==
  ASSUME ProgramTypeOK, NEW p \in Procs, NEW at \in Places, Goto(p, at)
  PROVE  /\ call' \in [Procs -> Calls]
         /\ \A q \in Procs \ {p} : call'[q] = call[q]
         /\ call'[p].op = call[p].op
         /\ call'[p].at = at
         /\ call'[p].saved = call[p].saved
         /\ call'[p].child = call[p].child
<1> DEFINE d == [call[p] EXCEPT !.at = at]
<1>1. call \in [Procs -> Calls]
  BY DEF ProgramTypeOK, ControlTypes
<1>2. d \in Calls /\ d.op = call[p].op /\ d.at = at /\ d.saved = call[p].saved /\ d.child = call[p].child
  BY <1>1, SetAt
<1>3. call' = [call EXCEPT ![p] = d]
  BY Zenon DEF Goto
<1> HIDE DEF d
<1> QED  BY <1>1, <1>2, <1>3

-----------------------------------------------------------------------------
(***************************************************************************)
(* Type correctness and the children.                                      *)
(***************************************************************************)

\* The registers of a new program, and those a program leaves, are registers.
LEMMA FirstTypes == FirstRegisters \in RegisterFiles /\ LeftRegisters \in RegisterFiles
  BY DEF FirstRegisters, LeftRegisters, RegisterFiles

\* When Nachos starts no address space is being built.
LEMMA InitBuildInv ==
  ProgramInit => BuildInv
<1> SUFFICES ASSUME ProgramInit PROVE BuildInv
  OBVIOUS
<1> USE ProgramAssumption DEF ProgramInit
<1>1. /\ registers \in RegisterFiles
      /\ userRegisters \in [Procs -> RegisterFiles] /\ expected \in [Procs -> RegisterFiles]
      /\ atSwitch \in [Procs -> RegisterFiles]
  BY FirstTypes
<1>2. call \in [Procs -> Calls] /\ \A p \in Procs : call[p].op = "none"
  <2>1. NoCall \in Calls /\ NoCall.op = "none"
    BY DEF NoCall, Calls, Ops, Places
  <2> QED  BY <2>1
<1>3. mainMemory \in [Frames -> Nat] /\ view \in [Procs -> [Pages -> Nat]] /\ openFiles \in [Procs -> [Slots -> Nat]]
  BY DEF Image, NoFile
<1>4. frameMap \subseteq Frames
  BY DEF Frames
<1>5. pageTable \in [Procs -> Seq(Frames)]
  <2>1. [page \in Pages |-> page - 1] \in Seq(Frames)
    <3>1. NumPages \in Nat /\ Pages = 1 .. NumPages /\ \A i \in 1 .. NumPages : i - 1 \in Frames
      BY DEF Pages, Frames
    <3> QED  BY <3>1, SeqDef
  <2>2. pageTable = [p \in Procs |-> IF p = First THEN [page \in Pages |-> page - 1] ELSE <<>>]
    OBVIOUS
  <2> HIDE DEF ProgramInit
  <2> QED  BY <2>1, <2>2
<1>6. state \in [Procs -> States] /\ state[current] = "user" /\ machineTable = current
  BY DEF States
<1> QED  BY <1>1, <1>2, <1>3, <1>4, <1>5, <1>6 DEF BuildInv, ProgramTypeOK, ControlTypes, MemoryTypes, ChildrenLoading, Building, HasTheCPU

\* What the steps of the system calls other than Exec's and Exit's have in common.
OtherCall(p) ==
  \/ SysAdd(p) \/ Unexpected(p) \/ SysRead(p) \/ SysReadCopy(p) \/ SysWrite(p)
  \/ UseName(p) \/ SysCreate(p) \/ SysOpen(p) \/ SysClose(p) \/ SysJoin(p)

CallMoves(p) ==
  /\ call' \in [Procs -> Calls]
  /\ \A q \in Procs \ {p} : call'[q] = call[q]
  /\ call'[p].op = call[p].op
  /\ call'[p].at \in {"return", "wait"}
  /\ call'[p].saved = call[p].saved

\* The system calls that build nothing are made by the current process, in the kernel,
LEMMA OtherCallPlace ==
  ASSUME NEW p \in Procs, OtherCall(p)
  PROVE  /\ current = p /\ state[p] = "kernel" /\ InKernel
         /\ call[p].op # "Exit" /\ call[p].at \in {"start", "go"}
  BY DEF OtherCall, SysAdd, Unexpected, SysRead, SysReadCopy, SysWrite, UseName, SysCreate, SysOpen, SysClose, SysJoin, At

\* change no call but the caller's own,
LEMMA OtherCallMoves ==
  ASSUME ProgramTypeOK, NEW p \in Procs, OtherCall(p)
  PROVE  CallMoves(p)
<1>1. ControlTypes /\ MemoryTypes
  BY DEF ProgramTypeOK
<1>2. Values \subseteq Nat /\ Failed \in Nat
  BY ProgramAssumption DEF Failed
<1>3. ASSUME NEW result \in Nat, Finish(p, result)
      PROVE  CallMoves(p)
  BY <1>3, FinishCall DEF CallMoves
<1>4. ASSUME Goto(p, "wait")
      PROVE  CallMoves(p)
  <2>1. "wait" \in Places
    BY DEF Places
  <2> QED  BY <1>4, <2>1, GotoCall DEF CallMoves
<1>5. CASE SysAdd(p)
  <2>1. call[p].arg \in Nat /\ (call[p].arg + 1) % 2 \in Nat
    BY <1>1 DEF ControlTypes, Calls
  <2> QED  BY <1>3, <1>5, <2>1 DEF SysAdd
<1>6. CASE Unexpected(p)
  <2>1. \E result \in Values \cup {0} : Finish(p, result)
    BY <1>6 DEF Unexpected
  <2> QED  BY <1>2, <1>3, <2>1
<1>7. CASE SysJoin(p)
  <2>1. (\E result \in Values \cup {Failed} : Finish(p, result)) \/ Goto(p, "wait")
    BY <1>7 DEF SysJoin
  <2> QED  BY <1>2, <1>3, <1>4, <2>1
<1>8. CASE SysRead(p)
  <2>1. Finish(p, Failed) \/ Goto(p, "wait")
    BY <1>8 DEF SysRead
  <2> QED  BY <1>2, <1>3, <1>4, <2>1
<1>9. CASE SysReadCopy(p)
  <2>1. Finish(p, Failed) \/ Finish(p, 1)
    BY <1>9 DEF SysReadCopy
  <2> QED  BY <1>2, <1>3, <2>1
<1>10. CASE SysWrite(p)
  <2>1. Finish(p, Failed) \/ Finish(p, 1) \/ Goto(p, "wait")
    BY <1>10 DEF SysWrite
  <2> QED  BY <1>2, <1>3, <1>4, <2>1
<1>11. CASE SysCreate(p)
  <2>1. Finish(p, Failed) \/ Finish(p, 0)
    BY <1>11 DEF SysCreate
  <2> QED  BY <1>2, <1>3, <2>1
<1>12. CASE SysOpen(p)
  <2>1. Insert(p) \in Nat
    BY LowestProperties, ProgramAssumption DEF Insert, FreeSlots, Slots
  <2>2. Finish(p, Failed) \/ Finish(p, Insert(p) + 1)
    BY <1>12 DEF SysOpen
  <2> QED  BY <1>2, <1>3, <2>1, <2>2
<1>13. CASE SysClose(p)
  <2>1. Finish(p, Failed) \/ Finish(p, 0)
    BY <1>13 DEF SysClose
  <2> QED  BY <1>2, <1>3, <2>1
<1>14. CASE UseName(p)
  <2>1. CASE Finish(p, Failed)
    BY <1>2, <1>3, <2>1
  <2>2. ASSUME NEW page \in 1 .. NumPages + 1, Maps(p, page, FALSE),
               call' = [call EXCEPT ![p].at = "wait", ![p].arg = mainMemory[pageTable[p][page]]]
        PROVE  CallMoves(p)
    <3> DEFINE c == [call[p] EXCEPT !.at = "wait"]
               d == [c EXCEPT !.arg = mainMemory[pageTable[p][page]]]
    <3>1. call[p] \in Calls /\ "wait" \in Places
      BY <1>1 DEF ControlTypes, Places
    <3>2. mainMemory[pageTable[p][page]] \in Nat
      BY <1>1, <2>2 DEF MemoryTypes, Maps
    <3>3. c \in Calls /\ c.op = call[p].op /\ c.at = "wait" /\ c.saved = call[p].saved
      BY <3>1, SetAt
    <3>4. call' = [call EXCEPT ![p] = d]
      BY <2>2, Zenon
    <3> HIDE DEF c
    <3>5. d \in Calls /\ d.op = call[p].op /\ d.at = "wait" /\ d.saved = call[p].saved
      BY <3>2, <3>3, SetArg
    <3> HIDE DEF d
    <3> QED  BY <1>1, <3>4, <3>5 DEF ControlTypes, CallMoves
  <2> QED  BY <1>14, <2>1, <2>2 DEF UseName
<1> QED  BY <1>5, <1>6, <1>7, <1>8, <1>9, <1>10, <1>11, <1>12, <1>13, <1>14 DEF OtherCall

\* leave frames and page tables alone,
LEMMA OtherCallMemory ==
  ASSUME ProgramTypeOK, NEW p \in Procs, OtherCall(p)
  PROVE  MemoryTypes' /\ UNCHANGED <<frameMap, pageTable>> /\ (UNCHANGED memoryVars \/ SysReadCopy(p))
<1>1. MemoryTypes /\ ControlTypes
  BY DEF ProgramTypeOK
<1>2. UNCHANGED <<frameMap, pageTable>> /\ (UNCHANGED memoryVars \/ SysReadCopy(p))
  BY DEF OtherCall, SysAdd, Unexpected, SysRead, SysReadCopy, SysWrite, UseName, SysCreate, SysOpen, SysClose, SysJoin,
         memoryVars
<1>3. mainMemory' \in [Frames -> Nat] /\ view' \in [Procs -> [Pages -> Nat]]
  <2>1. CASE UNCHANGED memoryVars
    BY <1>1, <2>1 DEF MemoryTypes, memoryVars
  <2>2. CASE SysReadCopy(p)
    <3>1. Values \subseteq Nat
      BY ProgramAssumption
    <3>2. PICK first, last \in 1 .. NumPages + 1, v \in Values :
            LET pages == Written(p, first, last)
            IN /\ mainMemory' = [f \in Frames |-> IF \E page \in pages : pageTable[p][page] = f THEN v ELSE mainMemory[f]]
               /\ view' = [view EXCEPT ![p] = [page \in Pages |-> IF page \in pages THEN v ELSE view[p][page]]]
      BY <2>2 DEF SysReadCopy
    <3>3. mainMemory' \in [Frames -> Nat]
      BY <1>1, <3>1, <3>2 DEF MemoryTypes
    <3>4. [page \in Pages |-> IF page \in Written(p, first, last) THEN v ELSE view[p][page]] \in [Pages -> Nat]
      BY <1>1, <3>1 DEF MemoryTypes
    <3> QED  BY <1>1, <3>2, <3>3, <3>4 DEF MemoryTypes
  <2> QED  BY <1>2, <2>1, <2>2
<1>4. openFiles' \in [Procs -> [Slots -> Nat]]
  <2>1. CASE UNCHANGED openFiles
    BY <1>1, <2>1 DEF MemoryTypes
  <2>2. CASE openFiles' = [openFiles EXCEPT ![p][Insert(p)] = call[p].arg]
    <3>1. call[p].arg \in Nat
      BY <1>1 DEF ControlTypes, Calls
    <3> QED  BY <1>1, <2>2, <3>1 DEF MemoryTypes
  <2>3. CASE \E id : openFiles' = [openFiles EXCEPT ![p][id - 1] = NoFile]
    <3>1. PICK id : openFiles' = [openFiles EXCEPT ![p][id - 1] = NoFile]
      BY <2>3
    <3> QED  BY <1>1, <3>1 DEF MemoryTypes, NoFile
  <2>4. \/ UNCHANGED openFiles
        \/ openFiles' = [openFiles EXCEPT ![p][Insert(p)] = call[p].arg]
        \/ \E id : openFiles' = [openFiles EXCEPT ![p][id - 1] = NoFile]
    <3>1. CASE SysOpen(p)
      BY <3>1 DEF SysOpen, fileVars
    <3>2. CASE SysClose(p)
      BY <3>2 DEF SysClose, fileVars
    <3>3. CASE ~SysOpen(p) /\ ~SysClose(p)
      BY <3>3 DEF OtherCall, SysAdd, Unexpected, SysRead, SysReadCopy, SysWrite, UseName, SysCreate, SysJoin, fileVars
    <3> QED  BY <3>1, <3>2, <3>3
  <2> QED  BY <2>1, <2>2, <2>3, <2>4
<1> QED  BY <1>1, <1>2, <1>3, <1>4 DEF MemoryTypes

\* and so keep what is known about the address spaces being built.
LEMMA OtherCallBuild ==
  ASSUME BuildInv, NEW p \in Procs, OtherCall(p)
  PROVE  BuildInv'
<1>1. ProgramTypeOK /\ InKernel /\ CallMoves(p) /\ MemoryTypes'
  BY OtherCallPlace, OtherCallMoves, OtherCallMemory DEF BuildInv
<1>2. ControlTypes'
  BY <1>1 DEF ProgramTypeOK, ControlTypes, InKernel, registerState, CallMoves
<1>3. \A q \in Procs : Building(q)' => q # p /\ Building(q) /\ call'[q] = call[q]
  BY <1>1 DEF Building, CallMoves
<1>4. ChildrenLoading'
  BY <1>1, <1>3 DEF BuildInv, ChildrenLoading, InKernel
<1>5. HasTheCPU'
  BY <1>1 DEF BuildInv, HasTheCPU, InKernel, registerState
<1> QED  BY <1>1, <1>2, <1>4, <1>5 DEF BuildInv, ProgramTypeOK

\* The instructions.
LEMMA InstructionsBuild ==
  ASSUME BuildInv, NEW p \in Procs, Compute(p) \/ StoreValue(p) \/ Trap(p)
  PROVE  BuildInv'
<1>1. ControlTypes /\ MemoryTypes /\ Values \subseteq Nat
  BY ProgramAssumption DEF BuildInv, ProgramTypeOK
<1>2. steps' \in Nat /\ current = p /\ state[p] = "user"
  BY <1>1 DEF ControlTypes, Compute, StoreValue, Trap, InUser
<1>3. CASE Compute(p)
  <2>1. PICK v \in Values :
          registers' = Computed(registers, v) /\ expected' = [expected EXCEPT ![p] = Computed(expected[p], v)]
    BY <1>3 DEF Compute
  <2>2. registers' \in RegisterFiles
    BY <1>1, <2>1 DEF ControlTypes, RegisterFiles, Computed
  <2>3. expected' \in [Procs -> RegisterFiles]
    BY <1>1, <2>1 DEF ControlTypes, RegisterFiles, Computed
  <2>4. ControlTypes' /\ MemoryTypes'
    BY <1>1, <1>2, <1>3, <2>2, <2>3 DEF ControlTypes, MemoryTypes, Compute, memoryVars, fileVars
  <2> QED  BY <1>3, <2>4 DEF Compute, BuildInv, ProgramTypeOK, ChildrenLoading, Building, HasTheCPU
<1>4. CASE StoreValue(p)
  <2>1. PICK v \in Values, page \in Pages \ ReadOnlyPages :
          /\ mainMemory' = [mainMemory EXCEPT ![pageTable[machineTable][page]] = v]
          /\ view' = [view EXCEPT ![p][page] = v]
    BY <1>4 DEF StoreValue
  <2>2. mainMemory' \in [Frames -> Nat] /\ view' \in [Procs -> [Pages -> Nat]]
    BY <1>1, <2>1 DEF MemoryTypes
  <2> /\ registers' = [registers EXCEPT !.pc = registers.pc + 1]
      /\ expected' = [expected EXCEPT ![p] = [expected[p] EXCEPT !.pc = expected[p].pc + 1]]
    BY <1>4, Zenon DEF StoreValue
  <2>3. registers' \in RegisterFiles
    BY <1>1 DEF ControlTypes, RegisterFiles
  <2>4. expected' \in [Procs -> RegisterFiles]
    <3>1. expected[p] \in RegisterFiles
      BY <1>1 DEF ControlTypes
    <3>2. [expected[p] EXCEPT !.pc = expected[p].pc + 1] \in RegisterFiles
      BY <3>1 DEF RegisterFiles
    <3> QED  BY <1>1, <3>2 DEF ControlTypes
  <2>5. ControlTypes' /\ MemoryTypes'
    BY <1>1, <1>2, <1>4, <2>2, <2>3, <2>4 DEF ControlTypes, MemoryTypes, StoreValue, fileVars
  <2> QED  BY <1>4, <2>5 DEF StoreValue, BuildInv, ProgramTypeOK, ChildrenLoading, Building, HasTheCPU
<1>5. CASE Trap(p)
  <2> DEFINE c(op) == [op |-> op, at |-> "start", saved |-> FALSE, arg |-> registers.r4, result |-> 0, child |-> First]
  <2>1. PICK op \in Ops : call' = [call EXCEPT ![p] = c(op)]
    BY <1>5 DEF Trap, Ops
  <2>2. c(op) \in Calls /\ c(op).at = "start"
    BY <1>1, ProgramAssumption DEF ControlTypes, RegisterFiles, Calls, Ops, Places
  <2> HIDE DEF c
  <2>4. call' \in [Procs -> Calls] /\ call'[p].at = "start" /\ \A q \in Procs \ {p} : call'[q] = call[q]
    BY <1>1, <2>1, <2>2 DEF ControlTypes
  <2>5. state' = [state EXCEPT ![p] = "kernel"] /\ state' \in [Procs -> States]
    BY <1>1, <1>5 DEF ControlTypes, Trap, States
  <2>6. ControlTypes' /\ MemoryTypes'
    BY <1>1, <1>2, <1>5, <2>4, <2>5 DEF ControlTypes, MemoryTypes, Trap, memoryVars, fileVars
  <2>7. \A q \in Procs : Building(q)' => q # p /\ Building(q) /\ call'[q] = call[q]
    BY <2>4 DEF Building
  <2>8. \A q \in Procs : Building(q) => call[q].child # p
    BY <1>2 DEF BuildInv, ChildrenLoading
  <2>9. ChildrenLoading'
    <3>1. \A q \in Procs : call[q].child \in Procs
      BY <1>1 DEF ControlTypes, Calls
    <3> QED  BY <1>1, <2>5, <2>7, <2>8, <3>1 DEF BuildInv, ChildrenLoading, ControlTypes
  <2>10. HasTheCPU'
    BY <1>1, <1>2, <1>5, <2>5 DEF HasTheCPU, ControlTypes, Trap
  <2> QED  BY <2>6, <2>9, <2>10 DEF BuildInv, ProgramTypeOK
<1> QED  BY <1>3, <1>4, <1>5

\* The switch.
LEMMA RunCall ==
  ASSUME ControlTypes, NEW q \in Procs, Run(q)
  PROVE  /\ call' \in [Procs -> Calls]
         /\ \A p \in Procs \ {current} : call'[p] = call[p]
         /\ call'[current].saved = TRUE
         /\ call'[current].op = call[current].op /\ call'[current].child = call[current].child
         /\ call'[current].at = IF call[current].at = "wait" THEN "go"
                                ELSE IF call[current].at = "wait to load" THEN "load" ELSE call[current].at
<1> DEFINE at == Resumed(call[current].at)
           c == [call[current] EXCEPT !.saved = TRUE]
           d == [c EXCEPT !.at = at]
<1>1. call[current] \in Calls
  BY DEF ControlTypes
<1>2. at \in Places
  BY <1>1 DEF Calls, Places, Resumed
<1>3. at = IF call[current].at = "wait" THEN "go"
           ELSE IF call[current].at = "wait to load" THEN "load" ELSE call[current].at
  BY DEF Resumed
<1>4. call' = [call EXCEPT ![current] = d]
  BY Zenon DEF Run
<1> HIDE DEF at
<1>5. c \in Calls /\ c.op = call[current].op /\ c.child = call[current].child
  BY <1>1 DEF Calls
<1>6. c.saved = TRUE
  BY <1>1 DEF Calls
<1> HIDE DEF c
<1>7. d \in Calls /\ d.op = call[current].op /\ d.child = call[current].child /\ d.at = at
  BY <1>2, <1>5, SetAt
<1>8. d.saved = TRUE
  BY <1>2, <1>5, <1>6 DEF Calls
<1> HIDE DEF d
<1> QED  BY <1>3, <1>4, <1>7, <1>8 DEF ControlTypes

\* A switch to another process keeps it too,
LEMMA RunBuild ==
  ASSUME BuildInv, NEW q \in Procs, Run(q)
  PROVE  BuildInv'
<1>1. ControlTypes /\ MemoryTypes
  BY DEF BuildInv, ProgramTypeOK
<1>2. MemoryTypes'
  BY <1>1 DEF MemoryTypes, Run, memoryVars, fileVars
<1>3. userRegisters' = [userRegisters EXCEPT ![current] = registers] /\ userRegisters' \in [Procs -> RegisterFiles]
  BY <1>1 DEF ControlTypes, Run, SaveUserState
<1> atSwitch' \in [Procs -> RegisterFiles]
  BY <1>1 DEF ControlTypes, Run
<1>4. CASE state[q] = "born"
  <2>1. /\ registers' = FirstRegisters
        /\ expected' = [expected EXCEPT ![q] = FirstRegisters]
        /\ state' = [state EXCEPT ![q] = "user"]
    BY <1>4 DEF Run, ProcessStartup
  <2>2. ControlTypes'
    BY <1>1, <1>3, <2>1, RunCall, FirstTypes DEF ControlTypes, Run, States, RestoreState
  <2>3. \A p \in Procs : Building(p)' => Building(p) /\ call'[p].child = call[p].child
    BY <1>1, RunCall DEF Building, ControlTypes
  <2>4. \A p \in Procs : call[p].child \in Procs
    BY <1>1 DEF ControlTypes, Calls
  <2>5. ChildrenLoading'
    BY <1>1, <1>4, <2>1, <2>3, <2>4 DEF BuildInv, ChildrenLoading, ControlTypes
  <2>6. HasTheCPU'
    BY <1>1, <2>1 DEF HasTheCPU, Run, RestoreState, ControlTypes
  <2> QED  BY <1>2, <2>2, <2>5, <2>6 DEF BuildInv, ProgramTypeOK
<1>5. CASE state[q] # "born"
  <2>1. registers' = userRegisters'[q] /\ UNCHANGED <<state, expected>>
    BY <1>5 DEF Run
  <2>2. ControlTypes'
    BY <1>1, <1>3, <2>1, RunCall DEF ControlTypes, Run, RestoreState
  <2>3. \A p \in Procs : Building(p)' => Building(p) /\ call'[p].child = call[p].child
    BY <1>1, RunCall DEF Building, ControlTypes
  <2>4. ChildrenLoading'
    BY <2>1, <2>3 DEF BuildInv, ChildrenLoading
  <2>5. HasTheCPU'
    BY <1>5, <2>1 DEF HasTheCPU, Run, RestoreState, Runnable
  <2> QED  BY <1>2, <2>2, <2>4, <2>5 DEF BuildInv, ProgramTypeOK
<1> QED  BY <1>4, <1>5

\* Exec, Exit and the return from a call.
LEMMA SysExecBuild ==
  ASSUME BuildInv, NEW p \in Procs, SysExec(p)
  PROVE  BuildInv'
<1>1. ProgramTypeOK /\ ControlTypes /\ MemoryTypes
  BY DEF BuildInv, ProgramTypeOK
<1>2. MemoryTypes'
  BY <1>1 DEF MemoryTypes, SysExec, memoryVars
<1>3. CASE Finish(p, Failed) /\ UNCHANGED <<state, handles>>
  <2>1. InKernel /\ Failed \in Nat
    BY <1>3, ProgramAssumption DEF SysExec, InKernel, registerState, Failed
  <2>2. call' \in [Procs -> Calls] /\ call'[p].at = "return" /\ \A q \in Procs \ {p} : call'[q] = call[q]
    BY <1>1, <1>3, <2>1, FinishCall
  <2>3. ControlTypes'
    BY <1>1, <2>1, <2>2 DEF ControlTypes, InKernel, registerState
  <2>4. \A q \in Procs : Building(q)' => q # p /\ Building(q) /\ call'[q] = call[q]
    BY <2>2 DEF Building
  <2>5. ChildrenLoading' /\ HasTheCPU'
    BY <2>1, <2>4 DEF BuildInv, ChildrenLoading, HasTheCPU, InKernel, registerState
  <2> QED  BY <1>2, <2>3, <2>5 DEF BuildInv, ProgramTypeOK
<1>4. ASSUME NEW c \in Procs, state[c] = "none", state' = [state EXCEPT ![c] = "loading"],
             call' = [call EXCEPT ![p].at = "alloc", ![p].child = c]
      PROVE  BuildInv'
  <2> DEFINE r == [call[p] EXCEPT !.at = "alloc"]
             d == [r EXCEPT !.child = c]
  <2>1. call[p] \in Calls /\ "alloc" \in Places
    BY <1>1 DEF ControlTypes, Places
  <2>2. r \in Calls /\ r.at = "alloc"
    BY <2>1, SetAt
  <2>3. call' = [call EXCEPT ![p] = d]
    BY <1>4, Zenon
  <2> HIDE DEF r
  <2>4. d \in Calls /\ d.child = c
    BY <2>2, SetChild
  <2> HIDE DEF d
  <2>5. call' \in [Procs -> Calls] /\ call'[p].child = c /\ \A q \in Procs \ {p} : call'[q] = call[q]
    BY <1>1, <2>3, <2>4 DEF ControlTypes
  <2>6. state' \in [Procs -> States]
    BY <1>1, <1>4 DEF ControlTypes, States
  <2>7. ControlTypes'
    BY <1>1, <2>5, <2>6 DEF ControlTypes, SysExec, registerState
  <2>8. \A q \in Procs : call[q].child \in Procs
    BY <1>1 DEF ControlTypes, Calls
  <2>9. \A q \in Procs : q # p /\ Building(q)' => Building(q) /\ call'[q].child = call[q].child /\ call[q].child # c
    BY <1>4, <2>5 DEF Building, BuildInv, ChildrenLoading
  <2>10. ChildrenLoading'
    BY <1>1, <1>4, <2>5, <2>8, <2>9 DEF ChildrenLoading, BuildInv, ControlTypes
  <2>11. HasTheCPU'
    BY <1>1, <1>4 DEF BuildInv, HasTheCPU, SysExec, ControlTypes, registerState
  <2> QED  BY <1>2, <2>7, <2>10, <2>11 DEF BuildInv, ProgramTypeOK
<1> QED  BY <1>3, <1>4 DEF SysExec

\* Of the frames that are not taken, the lowest is one.
LEMMA FreeFrame ==
  ASSUME Frames \ frameMap # {}
  PROVE  Lowest(Frames \ frameMap) \in Frames /\ Lowest(Frames \ frameMap) \notin frameMap
<1>1. Frames \ frameMap \subseteq Nat
  BY ProgramAssumption DEF Frames
<1> QED  BY <1>1, LowestProperties

\* What an AllocatePage that finds a frame does, and one that does not.
LEMMA AllocateSplit ==
  ASSUME NEW p, AllocatePage(p)
  PROVE  LET c == call[p].child
             frame == Lowest(Frames \ frameMap)
         IN \/ /\ Frames \ frameMap = {}
               /\ frameMap' = frameMap \ FramesOf(c)
               /\ pageTable' = [pageTable EXCEPT ![c] = <<>>]
               /\ state' = [state EXCEPT ![c] = "none"]
               /\ Finish(p, Failed) /\ UNCHANGED mainMemory
            \/ /\ Frames \ frameMap # {}
               /\ frameMap' = frameMap \cup {frame}
               /\ pageTable' = [pageTable EXCEPT ![c] = Append(pageTable[c], frame)]
               /\ UNCHANGED state
               /\ \/ Len(pageTable[c]) + 1 < NumPages /\ UNCHANGED <<call, mainMemory>>
                  \/ /\ ~(Len(pageTable[c]) + 1 < NumPages)
                     /\ Goto(p, "wait to load")
                     /\ mainMemory' = Cleared(FramesOf(c) \cup {frame})
  BY DEF AllocatePage

\* and so does allocating a page, or failing to.
LEMMA AllocatePageBuild ==
  ASSUME BuildInv, NEW p \in Procs, AllocatePage(p)
  PROVE  BuildInv'
<1> DEFINE c == call[p].child
           frame == Lowest(Frames \ frameMap)
<1>1. ProgramTypeOK /\ ControlTypes /\ MemoryTypes
  BY DEF BuildInv, ProgramTypeOK
<1>2. /\ current = p /\ state[p] = "kernel"
      /\ UNCHANGED <<steps, current, registerState, view, openFiles>>
  BY DEF AllocatePage, At
<1>3. c \in Procs /\ Building(p) /\ state[c] = "loading" /\ c # p
  BY <1>1, <1>2 DEF ControlTypes, Calls, Building, BuildInv, ChildrenLoading, AllocatePage, At
<1>4. CASE /\ Frames \ frameMap = {}
           /\ frameMap' = frameMap \ FramesOf(c)
           /\ pageTable' = [pageTable EXCEPT ![c] = <<>>]
           /\ state' = [state EXCEPT ![c] = "none"]
           /\ Finish(p, Failed) /\ UNCHANGED mainMemory
  <2>1. Failed \in Nat /\ <<>> \in Seq(Frames)
    BY ProgramAssumption DEF Failed
  <2>2. call' \in [Procs -> Calls] /\ call'[p].at = "return" /\ \A q \in Procs \ {p} : call'[q] = call[q]
    BY <1>1, <1>4, <2>1, FinishCall
  <2> HIDE DEF c
  <2>3. MemoryTypes'
    BY <1>1, <1>2, <1>3, <1>4, <2>1 DEF MemoryTypes
  <2>4. state' \in [Procs -> States]
    BY <1>1, <1>4 DEF ControlTypes, States
  <2>5. ControlTypes'
    BY <1>1, <1>2, <2>2, <2>4 DEF ControlTypes, registerState
  <2>6. \A q \in Procs : Building(q)' => q # p /\ Building(q) /\ call'[q] = call[q]
    BY <2>2 DEF Building
  <2>7. \A q \in Procs : q # p /\ Building(q) => call[q].child # c
    BY <1>3 DEF BuildInv, ChildrenLoading, c
  <2>8. \A q \in Procs : call[q].child \in Procs
    BY <1>1 DEF ControlTypes, Calls
  <2>9. ChildrenLoading'
    BY <1>1, <1>4, <2>6, <2>7, <2>8 DEF ChildrenLoading, BuildInv, ControlTypes
  <2>10. HasTheCPU'
    BY <1>1, <1>2, <1>3, <1>4 DEF BuildInv, HasTheCPU, ControlTypes, registerState
  <2> QED  BY <2>3, <2>5, <2>9, <2>10 DEF BuildInv, ProgramTypeOK
<1>5. CASE /\ Frames \ frameMap # {}
           /\ frameMap' = frameMap \cup {frame}
           /\ pageTable' = [pageTable EXCEPT ![c] = Append(pageTable[c], frame)]
           /\ UNCHANGED state
           /\ \/ UNCHANGED <<call, mainMemory>>
              \/ /\ Goto(p, "wait to load")
                 /\ mainMemory' = Cleared(FramesOf(c) \cup {frame})
  <2>1. frame \in Frames
    BY <1>5, FreeFrame
  <2>2. call' \in [Procs -> Calls] /\ \A q \in Procs : call'[q].child = call[q].child /\ (Building(q)' => Building(q))
    <3>1. CASE UNCHANGED call
      BY <1>1, <3>1 DEF ControlTypes, Building
    <3>2. CASE Goto(p, "wait to load")
      <4>1. "wait to load" \in Places
        BY DEF Places
      <4>2. /\ call' \in [Procs -> Calls] /\ call'[p].child = call[p].child
            /\ \A q \in Procs \ {p} : call'[q] = call[q]
        BY <1>1, <3>2, <4>1, GotoCall
      <4> QED  BY <1>3, <4>2 DEF Building
    <3> QED  BY <1>5, <3>1, <3>2
  <2>3. mainMemory' \in [Frames -> Nat]
    <3>1. \A S : Cleared(S) \in [Frames -> Nat]
      BY <1>1 DEF MemoryTypes, Cleared
    <3>2. mainMemory' = mainMemory \/ mainMemory' = Cleared(FramesOf(c) \cup {frame})
      BY <1>5
    <3> QED  BY <1>1, <3>1, <3>2, Zenon DEF MemoryTypes
  <2> HIDE DEF c, frame
  <2>4. Append(pageTable[c], frame) \in Seq(Frames)
    BY <1>1, <1>3, <2>1 DEF MemoryTypes
  <2>5. MemoryTypes'
    BY <1>1, <1>2, <1>5, <2>1, <2>3, <2>4 DEF MemoryTypes
  <2>6. ControlTypes'
    BY <1>1, <1>2, <1>5, <2>2 DEF ControlTypes, registerState
  <2>7. ChildrenLoading'
    BY <1>5, <2>2 DEF BuildInv, ChildrenLoading
  <2>8. HasTheCPU'
    BY <1>2, <1>5 DEF BuildInv, HasTheCPU, registerState
  <2> QED  BY <2>5, <2>6, <2>7, <2>8 DEF BuildInv, ProgramTypeOK
<1> QED  BY <1>4, <1>5, AllocateSplit

\* Loading the pages ends the build.
LEMMA LoadPagesBuild ==
  ASSUME BuildInv, NEW p \in Procs, LoadPages(p)
  PROVE  BuildInv'
<1> DEFINE c == call[p].child
<1>1. ProgramTypeOK /\ ControlTypes /\ MemoryTypes
  BY DEF BuildInv, ProgramTypeOK
<1>2. c \in Procs /\ Building(p) /\ state[c] = "loading"
  BY <1>1 DEF ControlTypes, Calls, Building, BuildInv, ChildrenLoading, LoadPages, At
<1>3. call' \in [Procs -> Calls] /\ call'[p].at = "return" /\ \A q \in Procs \ {p} : call'[q] = call[q]
  <2>1. Finish(p, 2)
    BY DEF LoadPages
  <2> QED  BY <1>1, <2>1, FinishCall
<1>4. state' = [state EXCEPT ![c] = "born"] /\ state' \in [Procs -> States]
  BY <1>1 DEF ControlTypes, States, LoadPages
<1>5. mainMemory' \in [Frames -> Nat] /\ view' \in [Procs -> [Pages -> Nat]]
  BY <1>1 DEF MemoryTypes, LoadPages, Image
<1>6. MemoryTypes' /\ ControlTypes'
  BY <1>1, <1>3, <1>4, <1>5 DEF MemoryTypes, ControlTypes, LoadPages, registerState
<1> HIDE DEF c
<1>7. \A q \in Procs : Building(q)' => q # p /\ Building(q) /\ call'[q] = call[q]
  BY <1>3 DEF Building
<1>8. \A q \in Procs : q # p /\ Building(q) => call[q].child # c
  BY <1>2 DEF BuildInv, ChildrenLoading, c
<1>9. \A q \in Procs : call[q].child \in Procs
  BY <1>1 DEF ControlTypes, Calls
<1>10. ChildrenLoading'
  BY <1>1, <1>4, <1>7, <1>8, <1>9 DEF ChildrenLoading, BuildInv, ControlTypes
<1>11. HasTheCPU'
  BY <1>1, <1>2, <1>4 DEF BuildInv, HasTheCPU, ControlTypes, LoadPages, At
<1> QED  BY <1>6, <1>10, <1>11 DEF BuildInv, ProgramTypeOK

\* The destructor of another address space ends none,
LEMMA TerminatorBuild ==
  ASSUME BuildInv, NEW p \in Procs, Terminator(p)
  PROVE  BuildInv'
<1>1. ProgramTypeOK /\ ControlTypes /\ MemoryTypes
  BY DEF BuildInv, ProgramTypeOK
<1>2. /\ current = p /\ state[p] = "kernel"
      /\ UNCHANGED <<steps, current, call, registerState, mainMemory, view>>
  BY DEF Terminator, At
<1>3. CASE pageTable[p] # <<>>
  <2>1. pageTable' = [pageTable EXCEPT ![p] = Tail(pageTable[p])] /\ UNCHANGED <<state, openFiles>>
    BY <1>3 DEF Terminator
  <2>2. frameMap' \subseteq Frames
    BY <1>1, <1>3 DEF Terminator, MemoryTypes
  <2>3. Tail(pageTable[p]) \in Seq(Frames)
    BY <1>1, <1>3 DEF MemoryTypes
  <2>4. MemoryTypes' /\ ControlTypes'
    BY <1>1, <1>2, <2>1, <2>2, <2>3 DEF MemoryTypes, ControlTypes, registerState
  <2> QED  BY <1>2, <2>1, <2>4 DEF BuildInv, ProgramTypeOK, ChildrenLoading, Building, HasTheCPU, registerState
<1>4. CASE pageTable[p] = <<>>
  <2>1. /\ openFiles' = [openFiles EXCEPT ![p] = [n \in Slots |-> NoFile]]
        /\ state' = [state EXCEPT ![p] = "done"]
        /\ UNCHANGED <<frameMap, pageTable>>
    BY <1>4 DEF Terminator
  <2>2. openFiles' \in [Procs -> [Slots -> Nat]]
    BY <1>1, <2>1 DEF MemoryTypes, NoFile
  <2>3. state' \in [Procs -> States]
    BY <1>1, <2>1 DEF ControlTypes, States
  <2>4. MemoryTypes' /\ ControlTypes'
    BY <1>1, <1>2, <2>1, <2>2, <2>3 DEF MemoryTypes, ControlTypes, registerState
  <2>5. \A q \in Procs : call[q].child \in Procs
    BY <1>1 DEF ControlTypes, Calls
  <2>6. ChildrenLoading'
    BY <1>1, <1>2, <2>1, <2>5 DEF BuildInv, ChildrenLoading, Building, ControlTypes
  <2>7. HasTheCPU'
    BY <1>1, <1>2, <2>1 DEF HasTheCPU, ControlTypes
  <2> QED  BY <2>4, <2>6, <2>7 DEF BuildInv, ProgramTypeOK
<1> QED  BY <1>3, <1>4

\* and neither does returning from a call.
LEMMA ReturnBuild ==
  ASSUME BuildInv, NEW p \in Procs, Return(p)
  PROVE  BuildInv'
<1> DEFINE Returned(regs) == IF call[p].op = "Fault" THEN regs
                             ELSE [pc |-> regs.pc + 1, r4 |-> regs.r4, r2 |-> call[p].result]
<1>1. ProgramTypeOK /\ ControlTypes /\ MemoryTypes
  BY DEF BuildInv, ProgramTypeOK
<1>2. current = p /\ state[p] = "kernel" /\ UNCHANGED <<steps, current, userRegisters, atSwitch, memoryVars, fileVars>>
  BY DEF Return
<1>3. machineTable' = p /\ state' = [state EXCEPT ![p] = "user"] /\ call' = [call EXCEPT ![p] = NoCall]
  BY DEF Return, RestoreState
<1>4. \A regs \in RegisterFiles : Returned(regs) \in RegisterFiles
  <2>1. call[p].result \in Nat
    BY <1>1 DEF ControlTypes, Calls
  <2> QED  BY <2>1 DEF RegisterFiles
<1>5. registers' \in RegisterFiles
  <2>1. registers' = Returned(userRegisters[p]) /\ userRegisters[p] \in RegisterFiles
    BY <1>1 DEF Return, ControlTypes
  <2> QED  BY <1>4, <2>1
<1>6. expected' \in [Procs -> RegisterFiles]
  <2>1. /\ expected' = [expected EXCEPT ![p] = Returned(IF call[p].saved THEN expected[p] ELSE atSwitch[p])]
        /\ expected[p] \in RegisterFiles /\ atSwitch[p] \in RegisterFiles
    BY <1>1 DEF Return, ControlTypes
  <2> QED  BY <1>1, <1>4, <2>1 DEF ControlTypes
<1>7. NoCall \in Calls /\ NoCall.op = "none"
  BY ProgramAssumption DEF NoCall, Calls, Ops, Places
<1>8. call' \in [Procs -> Calls] /\ call'[p].op = "none" /\ \A q \in Procs \ {p} : call'[q] = call[q]
  BY <1>1, <1>3, <1>7 DEF ControlTypes
<1>9. state' \in [Procs -> States]
  BY <1>1, <1>3 DEF ControlTypes, States
<1>10. MemoryTypes' /\ ControlTypes'
  BY <1>1, <1>2, <1>3, <1>5, <1>6, <1>8, <1>9 DEF MemoryTypes, ControlTypes, memoryVars, fileVars
<1>11. \A q \in Procs : Building(q)' => q # p /\ Building(q) /\ call'[q] = call[q]
  BY <1>8 DEF Building
<1>12. \A q \in Procs : call[q].child \in Procs
  BY <1>1 DEF ControlTypes, Calls
<1>13. ChildrenLoading'
  BY <1>1, <1>2, <1>3, <1>11, <1>12 DEF BuildInv, ChildrenLoading, ControlTypes
<1>14. HasTheCPU'
  BY <1>1, <1>2, <1>3 DEF HasTheCPU, ControlTypes
<1> QED  BY <1>10, <1>13, <1>14 DEF BuildInv, ProgramTypeOK

\* Every step keeps what is known about the address spaces being built.
LEMMA NextBuild ==
  BuildInv /\ [ProgramNext]_programVars => BuildInv'
<1>1. ASSUME BuildInv, UNCHANGED programVars
      PROVE  BuildInv'
  BY <1>1 DEF BuildInv, ProgramTypeOK, ControlTypes, MemoryTypes, ChildrenLoading, Building, HasTheCPU,
              programVars, registersVars, memoryVars, fileVars
<1>2. ASSUME BuildInv, NEW p \in Procs, ProgramStep(p)
      PROVE  BuildInv'
  BY <1>2, InstructionsBuild, RunBuild, OtherCallBuild, SysExecBuild, AllocatePageBuild, LoadPagesBuild,
     TerminatorBuild, ReturnBuild DEF ProgramStep, OtherCall
<1> QED  BY <1>1, <1>2 DEF ProgramNext

-----------------------------------------------------------------------------
(***************************************************************************)
(* Registers.  The machine's are those of the thread that has the CPU;     *)
(* those of all others are saved.                                          *)
(***************************************************************************)

MachineRegisters == registers = expected[current]

\* A thread that does not run, or lost the CPU since its call began.
Switched(p) ==
  \/ state[p] = "user" /\ p # current
  \/ state[p] = "kernel" /\ (p # current \/ call[p].saved)

\* What is saved of a program is what it had at its own last switch: all that Return can
\* restore.  Since then it has changed nothing, if it is Switched.
SavedRegisters ==
  \A p \in Procs : userRegisters[p] = atSwitch[p] /\ (Switched(p) => atSwitch[p] = expected[p])

RegistersInv == BuildInv /\ MachineRegisters /\ SavedRegisters

\* The steps that leave all registers alone.
LEMMA KeepRegisters ==
  ASSUME RegistersInv, BuildInv', NEW p \in Procs,
         current = p, state[p] = "kernel",
         UNCHANGED <<current, registerState>>,
         \A q \in Procs : call'[q].saved = call[q].saved,
         \A q \in Procs : state'[q] \in {"user", "kernel"} => state'[q] = state[q],
         state'[p] # "user"
  PROVE  RegistersInv'
<1>1. MachineRegisters'
  BY DEF RegistersInv, MachineRegisters, registerState
<1>2. SavedRegisters'
  BY DEF RegistersInv, SavedRegisters, Switched, registerState
<1> QED  BY <1>1, <1>2 DEF RegistersInv

\* A call that is finished, or goes on, keeps what has been saved.
LEMMA SavedKept ==
  ASSUME BuildInv, NEW p \in Procs, NEW q \in Procs,
         \/ \E result \in Nat : Finish(p, result)
         \/ \E at \in Places : Goto(p, at)
  PROVE  call'[q].saved = call[q].saved
<1>1. ProgramTypeOK
  BY DEF BuildInv
<1>2. CASE \E result \in Nat : Finish(p, result)
  BY <1>1, <1>2, FinishCall
<1>3. CASE \E at \in Places : Goto(p, at)
  BY <1>1, <1>3, GotoCall
<1> QED  BY <1>2, <1>3

\* Every step keeps the machine's registers and the saved ones those of their programs.
LEMMA NextRegisters ==
  ASSUME RegistersInv, [ProgramNext]_programVars
  PROVE  RegistersInv'
<1>1. BuildInv /\ BuildInv' /\ ControlTypes /\ ControlTypes' /\ MemoryTypes
  BY NextBuild DEF RegistersInv, BuildInv, ProgramTypeOK
<1>2. CASE UNCHANGED programVars
  BY <1>1, <1>2 DEF RegistersInv, MachineRegisters, SavedRegisters, Switched, programVars, registersVars
<1>3. ASSUME NEW p \in Procs, Compute(p) \/ StoreValue(p) \/ Trap(p)
      PROVE  RegistersInv'
  <2>1. /\ current = p /\ current' = p /\ state[p] = "user"
        /\ UNCHANGED <<machineTable, userRegisters, atSwitch>>
    BY <1>3 DEF Compute, StoreValue, Trap, InUser
  <2>2. registers = expected[p]
    BY <2>1 DEF RegistersInv, MachineRegisters
  <2>3. registers' = expected'[p] /\ \A q \in Procs \ {p} : expected'[q] = expected[q]
    <3>1. CASE Compute(p)
      BY <1>1, <2>2, <3>1 DEF Compute, ControlTypes
    <3>2. CASE StoreValue(p)
      <4>1. registers' = [registers EXCEPT !.pc = @ + 1] /\ expected' = [expected EXCEPT ![p].pc = @ + 1]
        BY <3>2 DEF StoreValue
      <4> QED  BY <1>1, <2>2, <4>1 DEF ControlTypes
    <3>3. CASE Trap(p)
      BY <2>2, <3>3 DEF Trap
    <3> QED  BY <1>3, <3>1, <3>2, <3>3
  <2>4. /\ \A q \in Procs \ {p} : state'[q] = state[q] /\ call'[q] = call[q]
        /\ state'[p] = "user" \/ (state'[p] = "kernel" /\ ~call'[p].saved)
    <3>1. CASE Compute(p) \/ StoreValue(p)
      BY <2>1, <3>1 DEF Compute, StoreValue
    <3>2. CASE Trap(p)
      <4>1. PICK op : call' = [call EXCEPT ![p] =
              [op |-> op, at |-> "start", saved |-> FALSE, arg |-> registers.r4, result |-> 0, child |-> First]]
        BY <3>2 DEF Trap
      <4> QED  BY <1>1, <3>2, <4>1 DEF Trap, ControlTypes
    <3> QED  BY <1>3, <3>1, <3>2
  <2>5. SavedRegisters'
    BY <2>1, <2>3, <2>4 DEF RegistersInv, SavedRegisters, Switched
  <2> QED  BY <1>1, <2>1, <2>3, <2>5 DEF RegistersInv, MachineRegisters
<1>4. ASSUME NEW q \in Procs, Run(q)
      PROVE  RegistersInv'
  <2>1. /\ current' = q
        /\ userRegisters' = [userRegisters EXCEPT ![current] = registers]
        /\ atSwitch' = [atSwitch EXCEPT ![current] = expected[current]]
        /\ state[q] \in {"born", "user", "kernel"} /\ (q = current => state[q] = "kernel")
    BY <1>4 DEF Run, SaveUserState, Runnable
  <2>2. \A p \in Procs : p # q => state'[p] = state[p] /\ expected'[p] = expected[p]
    BY <1>1, <1>4 DEF Run, ProcessStartup, ControlTypes
  <2>3. \A p \in Procs : userRegisters'[p] = atSwitch'[p]
    BY <1>1, <2>1 DEF ControlTypes, RegistersInv, MachineRegisters, SavedRegisters
  <2>4. \A p \in Procs : state[p] \in {"user", "kernel"} => atSwitch'[p] = expected[p]
    BY <1>1, <2>1 DEF ControlTypes, RegistersInv, SavedRegisters, Switched
  <2>5. CASE state[q] = "born"
    <3>1. registers' = FirstRegisters /\ expected'[q] = FirstRegisters /\ state'[q] = "user"
      BY <1>1, <1>4, <2>5 DEF Run, ProcessStartup, ControlTypes
    <3>2. SavedRegisters'
      BY <2>1, <2>2, <2>3, <2>4, <3>1 DEF SavedRegisters, Switched
    <3> QED  BY <1>1, <2>1, <3>1, <3>2 DEF RegistersInv, MachineRegisters
  <2>6. CASE state[q] # "born"
    <3>1. registers' = userRegisters'[q] /\ UNCHANGED <<state, expected>>
      BY <1>4, <2>6 DEF Run
    <3>2. registers' = expected'[q]
      BY <2>1, <2>3, <2>4, <2>6, <3>1
    <3>3. SavedRegisters'
      BY <2>3, <2>4, <3>1 DEF SavedRegisters, Switched
    <3> QED  BY <1>1, <2>1, <3>2, <3>3 DEF RegistersInv, MachineRegisters
  <2> QED  BY <2>5, <2>6
<1>5. ASSUME NEW p \in Procs, OtherCall(p)
      PROVE  RegistersInv'
  <2>1. current = p /\ state[p] = "kernel" /\ InKernel /\ \A q \in Procs : call'[q].saved = call[q].saved
    BY <1>1, <1>5, OtherCallPlace, OtherCallMoves DEF CallMoves, BuildInv
  <2> QED  BY <1>1, <2>1, KeepRegisters DEF InKernel
<1>6. ASSUME NEW p \in Procs, SysExec(p)
      PROVE  RegistersInv'
  <2>1. current = p /\ state[p] = "kernel" /\ UNCHANGED <<current, registerState>>
    BY <1>6 DEF SysExec, At
  <2>2. \A q \in Procs : state'[q] # state[q] => state'[q] = "loading"
    BY <1>1, <1>6 DEF SysExec, ControlTypes
  <2>3. \A q \in Procs : call'[q].saved = call[q].saved
    <3>1. CASE Finish(p, Failed)
      <4>1. Failed \in Nat
        BY ProgramAssumption DEF Failed
      <4> QED  BY <1>1, <3>1, <4>1, SavedKept
    <3>2. CASE \E c \in Procs : call' = [call EXCEPT ![p].at = "alloc", ![p].child = c]
      BY <1>1, <3>2 DEF ControlTypes, Calls
    <3> QED  BY <1>6, <3>1, <3>2 DEF SysExec
  <2> QED  BY <1>1, <2>1, <2>2, <2>3, KeepRegisters
<1>7. ASSUME NEW p \in Procs, AllocatePage(p)
      PROVE  RegistersInv'
  <2>1. current = p /\ state[p] = "kernel" /\ UNCHANGED <<current, registerState>>
    BY <1>7 DEF AllocatePage, At
  <2>2. \A q \in Procs : state'[q] # state[q] => state'[q] = "none"
    BY <1>1, <1>7, AllocateSplit DEF ControlTypes
  <2>3. \A q \in Procs : call'[q].saved = call[q].saved
    <3>1. Failed \in Nat /\ "wait to load" \in Places
      BY ProgramAssumption DEF Failed, Places
    <3>2. Finish(p, Failed) \/ Goto(p, "wait to load") \/ UNCHANGED call
      BY <1>7, AllocateSplit
    <3> QED  BY <1>1, <3>1, <3>2, SavedKept
  <2> QED  BY <1>1, <2>1, <2>2, <2>3, KeepRegisters
<1>8. ASSUME NEW p \in Procs, LoadPages(p)
      PROVE  RegistersInv'
  <2>1. current = p /\ state[p] = "kernel" /\ UNCHANGED <<current, registerState>>
    BY <1>8 DEF LoadPages, At
  <2>2. \A q \in Procs : state'[q] # state[q] => state'[q] = "born"
    BY <1>1, <1>8 DEF LoadPages, ControlTypes
  <2>3. \A q \in Procs : call'[q].saved = call[q].saved
    <3>1. Finish(p, 2)
      BY <1>8 DEF LoadPages
    <3> QED  BY <1>1, <3>1, SavedKept
  <2> QED  BY <1>1, <2>1, <2>2, <2>3, KeepRegisters
<1>9. ASSUME NEW p \in Procs, Terminator(p)
      PROVE  RegistersInv'
  <2>1. current = p /\ state[p] = "kernel" /\ UNCHANGED <<current, call, registerState>>
    BY <1>9 DEF Terminator, At
  <2>2. \A q \in Procs : state'[q] # state[q] => state'[q] = "done"
    BY <1>1, <1>9 DEF Terminator, ControlTypes
  <2> QED  BY <1>1, <2>1, <2>2, KeepRegisters
<1>10. ASSUME NEW p \in Procs, Return(p)
       PROVE  RegistersInv'
  <2> DEFINE Returned(regs) == IF call[p].op = "Fault" THEN regs
                               ELSE [pc |-> regs.pc + 1, r4 |-> regs.r4, r2 |-> call[p].result]
             kept == IF call[p].saved THEN expected[p] ELSE atSwitch[p]
  <2>1. /\ current = p /\ state[p] = "kernel" /\ UNCHANGED <<current, userRegisters, atSwitch>>
        /\ registers' = Returned(userRegisters[p])
        /\ expected' = [expected EXCEPT ![p] = Returned(kept)]
        /\ state' = [state EXCEPT ![p] = "user"] /\ call' = [call EXCEPT ![p] = NoCall]
    BY <1>10 DEF Return
  <2>2. userRegisters[p] = kept
    BY <2>1 DEF RegistersInv, SavedRegisters, Switched
  <2> HIDE DEF Returned, kept
  <2>3. registers' = expected'[p]
    BY <1>1, <2>1, <2>2 DEF ControlTypes
  <2>4. \A q \in Procs \ {p} : state'[q] = state[q] /\ call'[q] = call[q] /\ expected'[q] = expected[q]
    BY <1>1, <2>1 DEF ControlTypes
  <2>5. state'[p] = "user"
    BY <1>1, <2>1 DEF ControlTypes
  <2>6. SavedRegisters'
    BY <2>1, <2>4, <2>5 DEF RegistersInv, SavedRegisters, Switched
  <2> QED  BY <1>1, <2>1, <2>3, <2>6 DEF RegistersInv, MachineRegisters
<1> QED  BY <1>2, <1>3, <1>4, <1>5, <1>6, <1>7, <1>8, <1>9, <1>10 DEF ProgramNext, ProgramStep, OtherCall

\* Every reachable state is well typed, and a process that is being built is only its
\* builder's (SysExec).
THEOREM ProgramTypeCorrect == ProgramSpec => []BuildInv
  BY InitBuildInv, NextBuild, PTL DEF ProgramSpec

\* Whatever the other programs, the scheduler and the kernel do meanwhile, a program that
\* runs has the registers that its own instructions and calls have left, and its own page
\* table.  After a call in which it did not lose the CPU they are those of its own last
\* switch (Scheduler::Run, ExceptionHandler).
THEOREM ProgramRegisters == ProgramSpec => []OwnRegisters
<1>1. ProgramInit => RegistersInv
  <2> SUFFICES ASSUME ProgramInit PROVE RegistersInv
    OBVIOUS
  <2>1. /\ current = First /\ machineTable = First /\ First \in Procs
        /\ \A p \in Procs : state[p] = IF p = First THEN "user" ELSE "none"
        /\ registers = expected[First]
    BY ProgramAssumption DEF ProgramInit
  <2>2. \A p \in Procs : ~Switched(p) /\ userRegisters[p] = atSwitch[p]
    BY <2>1 DEF ProgramInit, Switched
  <2> QED  BY <2>1, <2>2, InitBuildInv DEF RegistersInv, MachineRegisters, SavedRegisters
<1>2. RegistersInv /\ [ProgramNext]_programVars => RegistersInv'
  BY NextRegisters
<1>3. RegistersInv => OwnRegisters
  BY DEF RegistersInv, MachineRegisters, OwnRegisters, BuildInv, HasTheCPU
<1> QED  BY <1>1, <1>2, <1>3, PTL DEF ProgramSpec

-----------------------------------------------------------------------------
(***************************************************************************)
(* Memory.  No two pages share a frame, whoever they belong to; and a      *)
(* program that runs, or is to run, has all its pages.                     *)
(***************************************************************************)

Live(p) == state[p] \in {"born", "user"} \/ (state[p] = "kernel" /\ call[p].op # "Exit")

\* As many pages as the state of the process says.
SpaceSizes ==
  /\ \A p \in Procs : Live(p) => Len(pageTable[p]) = NumPages
  /\ \A p \in Procs : state[p] = "none" => Len(pageTable[p]) = 0
  /\ \A p \in Procs : Building(p) =>
       IF call[p].at = "alloc" THEN Len(pageTable[call[p].child]) < NumPages
       ELSE Len(pageTable[call[p].child]) = NumPages

\* A frame that a page has is taken, and no other page has it.
FramesOwned ==
  /\ \A p \in Procs : \A n \in 1 .. Len(pageTable[p]) : pageTable[p][n] \in frameMap
  /\ \A p, q \in Procs : \A n \in 1 .. Len(pageTable[p]) : \A m \in 1 .. Len(pageTable[q]) :
       pageTable[p][n] = pageTable[q][m] => p = q /\ n = m

\* The pages that are not loaded are clear before the others are loaded.
Blank ==
  \A p \in Procs : Building(p) /\ call[p].at # "alloc" =>
    \A page \in Pages \ LoadedPages : mainMemory[pageTable[call[p].child][page]] = 0

\* Exit does not return.
ExitStays == \A p \in Procs : state[p] = "kernel" /\ call[p].op = "Exit" => call[p].at = "start"

LiveMemory == \A p \in Procs : Live(p) => \A page \in Pages : mainMemory[pageTable[p][page]] = view[p][page]

MemoryInv == BuildInv /\ SpaceSizes /\ FramesOwned /\ Blank /\ ExitStays /\ LiveMemory

\* At the start the first process has the first frames, and nobody else has any.
LEMMA InitMemoryInv ==
  ProgramInit => MemoryInv
<1> SUFFICES ASSUME ProgramInit PROVE MemoryInv
  OBVIOUS
<1>1. /\ First \in Procs /\ NumPages \in 1 .. NumPhysPages /\ NumPhysPages \in Nat
      /\ \A p \in Procs : state[p] = IF p = First THEN "user" ELSE "none"
      /\ \A p \in Procs : call[p] = NoCall
      /\ pageTable[First] = [page \in 1 .. NumPages |-> page - 1]
      /\ \A p \in Procs \ {First} : pageTable[p] = <<>>
      /\ frameMap = 0 .. NumPages - 1
  BY ProgramAssumption DEF ProgramInit, Pages
<1>2. \A p \in Procs : ~Building(p) /\ state[p] # "kernel"
  <2>1. NoCall.op = "none"
    BY DEF NoCall
  <2> QED  BY <1>1, <2>1 DEF Building
<1>3. pageTable[First] \in Seq(Frames) /\ Len(pageTable[First]) = NumPages
  <2>1. pageTable \in [Procs -> Seq(Frames)]
    BY InitBuildInv, Zenon DEF BuildInv, ProgramTypeOK, MemoryTypes
  <2>2. pageTable[First] \in Seq(Frames)
    BY <1>1, <2>1, Zenon
  <2>3. NumPages \in Nat /\ DOMAIN pageTable[First] = 1 .. NumPages
    BY <1>1
  <2> QED  BY <2>2, <2>3, LenProperties
<1>4. \A p \in Procs : Live(p) => p = First
  BY <1>1 DEF Live
<1>5. SpaceSizes
  BY <1>1, <1>2, <1>3, <1>4 DEF SpaceSizes
<1>6. FramesOwned
  <2>1. \A q \in Procs : \A n \in 1 .. Len(pageTable[q]) : q = First
    BY <1>1
  <2>2. \A n \in 1 .. Len(pageTable[First]) : n \in 1 .. NumPages /\ pageTable[First][n] = n - 1
    BY <1>1, <1>3
  <2>3. \A q \in Procs : \A n \in 1 .. Len(pageTable[q]) : pageTable[q][n] \in frameMap
    BY <1>1, <2>1, <2>2
  <2>4. \A q, r \in Procs : \A n \in 1 .. Len(pageTable[q]) : \A m \in 1 .. Len(pageTable[r]) :
          pageTable[q][n] = pageTable[r][m] => q = r /\ n = m
    BY <1>1, <2>1, <2>2
  <2> QED  BY <2>3, <2>4 DEF FramesOwned
<1>7. LiveMemory
  <2>1. \A page \in Pages : mainMemory[page - 1] = Image(page) /\ view[First][page] = Image(page)
    BY <1>1 DEF ProgramInit, Pages, Frames
  <2> QED  BY <1>1, <1>4, <2>1 DEF LiveMemory, Pages
<1> QED  BY <1>2, <1>5, <1>6, <1>7, InitBuildInv DEF MemoryInv, Blank, ExitStays

\* The steps that leave memory alone, and give no process an address space.
LEMMA KeepMemory ==
  ASSUME MemoryInv, BuildInv', UNCHANGED memoryVars,
         \A p \in Procs : Live(p)' => Live(p),
         \A p \in Procs : state'[p] = "none" => state[p] = "none",
         \A p \in Procs : Building(p)' => /\ Building(p) /\ call'[p].child = call[p].child
                                          /\ call'[p].at = "alloc" <=> call[p].at = "alloc",
         ExitStays'
  PROVE  MemoryInv'
<1> USE DEF MemoryInv, memoryVars
<1>1. SpaceSizes'
  BY DEF SpaceSizes
<1>2. FramesOwned'
  BY DEF FramesOwned
<1>3. Blank'
  BY DEF Blank
<1>4. LiveMemory'
  BY DEF LiveMemory
<1> QED  BY <1>1, <1>2, <1>3, <1>4

\* Of the system calls that build nothing only Read writes memory, in the caller's own pages.
LEMMA OtherCallKeepsMemory ==
  ASSUME MemoryInv, BuildInv', NEW p \in Procs, OtherCall(p)
  PROVE  MemoryInv'
<1>1. /\ current = p /\ state[p] = "kernel" /\ UNCHANGED <<state, current>>
      /\ call[p].op # "Exit"
      /\ CallMoves(p) /\ UNCHANGED <<frameMap, pageTable>>
      /\ UNCHANGED memoryVars \/ SysReadCopy(p)
      /\ ControlTypes /\ MemoryTypes
  BY OtherCallPlace, OtherCallMoves, OtherCallMemory DEF MemoryInv, BuildInv, ProgramTypeOK, InKernel
<1>2. \A q \in Procs : Live(q)' <=> Live(q)
  BY <1>1 DEF Live, CallMoves
<1>3. \A q \in Procs : Building(q)' => q # p /\ Building(q) /\ call'[q] = call[q]
  BY <1>1 DEF Building, CallMoves
<1>4. ExitStays'
  BY <1>1 DEF MemoryInv, ExitStays, CallMoves
<1>5. CASE UNCHANGED memoryVars
  BY <1>1, <1>2, <1>3, <1>4, <1>5, KeepMemory
<1>6. CASE SysReadCopy(p)
  <2>1. SpaceSizes' /\ FramesOwned'
    BY <1>1, <1>2, <1>3 DEF MemoryInv, SpaceSizes, FramesOwned
  <2>2. PICK first, last \in 1 .. NumPages + 1, v \in Values :
          LET pages == Written(p, first, last)
          IN /\ mainMemory' = [f \in Frames |-> IF \E page \in pages : pageTable[p][page] = f THEN v ELSE mainMemory[f]]
             /\ view' = [view EXCEPT ![p] = [page \in Pages |-> IF page \in pages THEN v ELSE view[p][page]]]
    BY <1>6 DEF SysReadCopy
  <2> DEFINE pages == Written(p, first, last)
  <2>3. \A q \in Procs : /\ pageTable[q] \in Seq(Frames) /\ Len(pageTable[q]) \in Nat
                         /\ \A n \in 1 .. Len(pageTable[q]) : pageTable[q][n] \in Frames
    BY <1>1 DEF MemoryTypes
  <2>4. pages \subseteq 1 .. Len(pageTable[p])
    <3>1. \A page \in pages : page \in first .. page /\ Maps(p, page, TRUE)
      <4>1. \A page \in first .. last : page \in first .. page
        BY ProgramAssumption
      <4> QED  BY <4>1, Zenon DEF Written
    <3>2. DOMAIN pageTable[p] = 1 .. Len(pageTable[p])
      BY <2>3
    <3> QED  BY <3>1, <3>2 DEF Maps
  <2> HIDE DEF pages
  <2>5. \A q \in Procs : \A n \in 1 .. Len(pageTable[q]) :
          mainMemory'[pageTable[q][n]] = IF q = p /\ n \in pages THEN v ELSE mainMemory[pageTable[q][n]]
    <3> SUFFICES ASSUME NEW q \in Procs, NEW n \in 1 .. Len(pageTable[q])
                 PROVE  mainMemory'[pageTable[q][n]] = IF q = p /\ n \in pages THEN v ELSE mainMemory[pageTable[q][n]]
      OBVIOUS
    <3>1. (\E page \in pages : pageTable[p][page] = pageTable[q][n]) <=> q = p /\ n \in pages
      BY <2>4 DEF MemoryInv, FramesOwned
    <3>2. pageTable[q][n] \in Frames
      BY <2>3
    <3> QED  BY <2>2, <3>1, <3>2 DEF pages
  <2>6. \A q \in Procs : Building(q) => call[q].child \in Procs /\ call[q].child # p
    BY <1>1 DEF ControlTypes, Calls, MemoryInv, BuildInv, ChildrenLoading
  <2>7. Blank'
    <3> SUFFICES ASSUME NEW q \in Procs, Building(q)', call'[q].at # "alloc", NEW page \in Pages \ LoadedPages
                 PROVE  mainMemory'[pageTable'[call'[q].child][page]] = 0
      BY DEF Blank
    <3>1. Building(q) /\ call'[q] = call[q] /\ call[q].child \in Procs /\ call[q].child # p
      BY <1>3, <2>6
    <3>2. page \in 1 .. Len(pageTable[call[q].child]) /\ mainMemory[pageTable[call[q].child][page]] = 0
      BY <3>1 DEF MemoryInv, SpaceSizes, Blank, Pages
    <3> QED  BY <1>1, <2>5, <3>1, <3>2
  <2>8. LiveMemory'
    <3> SUFFICES ASSUME NEW q \in Procs, Live(q), NEW page \in Pages
                 PROVE  mainMemory'[pageTable'[q][page]] = view'[q][page]
      BY <1>2 DEF LiveMemory
    <3>1. page \in 1 .. Len(pageTable[q]) /\ mainMemory[pageTable[q][page]] = view[q][page]
      BY DEF MemoryInv, SpaceSizes, LiveMemory, Pages
    <3>2. view'[q][page] = IF q = p /\ page \in pages THEN v ELSE view[q][page]
      BY <1>1, <2>2 DEF MemoryTypes, pages
    <3> QED  BY <1>1, <2>5, <3>1, <3>2
  <2> QED  BY <1>4, <2>1, <2>7, <2>8 DEF MemoryInv
<1> QED  BY <1>1, <1>5, <1>6

\* A store of a program changes its own page and what is expected of it alike.
LEMMA StoreValueMemory ==
  ASSUME MemoryInv, BuildInv', NEW p \in Procs, StoreValue(p)
  PROVE  MemoryInv'
<1>1. /\ state[p] = "user" /\ machineTable = p /\ ControlTypes /\ MemoryTypes
      /\ UNCHANGED <<state, call, frameMap, pageTable>>
  BY DEF MemoryInv, BuildInv, ProgramTypeOK, HasTheCPU, StoreValue, InUser
<1>2. PICK v \in Values, written \in Pages \ ReadOnlyPages :
        mainMemory' = [mainMemory EXCEPT ![pageTable[p][written]] = v] /\ view' = [view EXCEPT ![p][written] = v]
  BY <1>1 DEF StoreValue
<1>3. \A q \in Procs : \A n \in 1 .. Len(pageTable[q]) : pageTable[q][n] \in Frames
  BY <1>1 DEF MemoryTypes
<1>4. written \in 1 .. Len(pageTable[p])
  BY <1>1 DEF MemoryInv, SpaceSizes, Live, Pages
<1>5. \A q \in Procs : \A n \in 1 .. Len(pageTable[q]) :
        mainMemory'[pageTable[q][n]] = IF q = p /\ n = written THEN v ELSE mainMemory[pageTable[q][n]]
  <2> SUFFICES ASSUME NEW q \in Procs, NEW n \in 1 .. Len(pageTable[q])
               PROVE  mainMemory'[pageTable[q][n]] = IF q = p /\ n = written THEN v ELSE mainMemory[pageTable[q][n]]
    OBVIOUS
  <2>1. pageTable[p][written] = pageTable[q][n] <=> q = p /\ n = written
    BY <1>4 DEF MemoryInv, FramesOwned
  <2>2. pageTable[q][n] \in Frames /\ mainMemory \in [Frames -> Nat]
    BY <1>1, <1>3 DEF MemoryTypes
  <2> QED  BY <1>2, <2>1, <2>2
<1>6. \A q \in Procs : (Live(q)' <=> Live(q)) /\ (Building(q)' <=> Building(q))
  BY <1>1 DEF Live, Building
<1>7. SpaceSizes' /\ FramesOwned' /\ ExitStays'
  BY <1>1, <1>6 DEF MemoryInv, SpaceSizes, FramesOwned, ExitStays
<1>8. Blank'
  <2> SUFFICES ASSUME NEW q \in Procs, Building(q), call[q].at # "alloc", NEW page \in Pages \ LoadedPages
               PROVE  mainMemory'[pageTable[call[q].child][page]] = 0
    BY <1>1, <1>6 DEF Blank
  <2>1. call[q].child \in Procs /\ call[q].child # p
    BY <1>1 DEF ControlTypes, Calls, MemoryInv, BuildInv, ChildrenLoading
  <2>2. page \in 1 .. Len(pageTable[call[q].child]) /\ mainMemory[pageTable[call[q].child][page]] = 0
    BY DEF MemoryInv, SpaceSizes, Blank, Pages
  <2> QED  BY <1>5, <2>1, <2>2
<1>9. LiveMemory'
  <2> SUFFICES ASSUME NEW q \in Procs, Live(q), NEW page \in Pages
               PROVE  mainMemory'[pageTable[q][page]] = view'[q][page]
    BY <1>1, <1>6 DEF LiveMemory
  <2>1. page \in 1 .. Len(pageTable[q]) /\ mainMemory[pageTable[q][page]] = view[q][page]
    BY DEF MemoryInv, SpaceSizes, LiveMemory, Pages
  <2>2. view'[q][page] = IF q = p /\ page = written THEN v ELSE view[q][page]
    BY <1>1, <1>2 DEF MemoryTypes
  <2> QED  BY <1>5, <2>1, <2>2
<1> QED  BY <1>7, <1>8, <1>9 DEF MemoryInv

\* An instruction on registers, and a trap, write no memory.
LEMMA ComputeTrapMemory ==
  ASSUME MemoryInv, BuildInv', NEW p \in Procs, Compute(p) \/ Trap(p)
  PROVE  MemoryInv'
<1>1. ControlTypes /\ state[p] = "user" /\ UNCHANGED memoryVars
  BY DEF MemoryInv, BuildInv, ProgramTypeOK, Compute, Trap, InUser
<1>2. CASE Compute(p)
  <2>1. UNCHANGED <<state, call>>
    BY <1>2 DEF Compute
  <2>2. /\ \A q \in Procs : Live(q)' => Live(q)
        /\ \A q \in Procs : Building(q)' => Building(q)
        /\ ExitStays'
    BY <2>1 DEF Live, Building, MemoryInv, ExitStays
  <2> QED  BY <1>1, <2>1, <2>2, KeepMemory
<1>3. CASE Trap(p)
  <2> DEFINE c(op) == [op |-> op, at |-> "start", saved |-> FALSE, arg |-> registers.r4, result |-> 0, child |-> First]
  <2>1. PICK op : call' = [call EXCEPT ![p] = c(op)]
    BY <1>3 DEF Trap
  <2>2. c(op).at = "start"
    OBVIOUS
  <2> HIDE DEF c
  <2>3. call'[p].at = "start" /\ \A q \in Procs \ {p} : call'[q] = call[q]
    BY <1>1, <2>1, <2>2 DEF ControlTypes
  <2>4. state' = [state EXCEPT ![p] = "kernel"]
    BY <1>3 DEF Trap
  <2>5. state'[p] = "kernel" /\ \A q \in Procs \ {p} : state'[q] = state[q]
    BY <1>1, <2>4 DEF ControlTypes
  <2>6. \A q \in Procs : Live(q)' => Live(q)
    BY <1>1, <2>3, <2>5 DEF Live
  <2>7. \A q \in Procs : Building(q)' => Building(q) /\ call'[q] = call[q]
    BY <2>3 DEF Building
  <2>8. ExitStays'
    BY <2>3, <2>5 DEF MemoryInv, ExitStays
  <2> QED  BY <1>1, <2>5, <2>6, <2>7, <2>8, KeepMemory
<1> QED  BY <1>2, <1>3

\* Neither does a switch to another process.
LEMMA RunMemory ==
  ASSUME MemoryInv, BuildInv', NEW q \in Procs, Run(q)
  PROVE  MemoryInv'
<1>1. ControlTypes /\ UNCHANGED memoryVars
  BY DEF MemoryInv, BuildInv, ProgramTypeOK, Run
<1>2. \A p \in Procs : \/ state'[p] = state[p]
                       \/ state[p] = "born" /\ state'[p] = "user"
  BY <1>1 DEF Run, ProcessStartup, ControlTypes
<1>3. \A p \in Procs : /\ call'[p].op = call[p].op /\ call'[p].child = call[p].child
                       /\ call'[p].at = "alloc" <=> call[p].at = "alloc"
                       /\ call[p].at = "start" => call'[p].at = "start"
                       /\ call'[p].at = "return" => call[p].at = "return"
                       /\ call'[p].at = "wait to load" => call[p].at = "wait to load"
                       /\ call'[p].at = "load" => call[p].at \in {"wait to load", "load"}
  BY <1>1, RunCall
<1>4. \A p \in Procs : Live(p)' => Live(p)
  BY <1>2, <1>3 DEF Live
<1>5. \A p \in Procs : Building(p)' => Building(p)
  BY <1>3 DEF Building
<1>6. ExitStays'
  BY <1>2, <1>3 DEF MemoryInv, ExitStays
<1> QED  BY <1>1, <1>2, <1>3, <1>4, <1>5, <1>6, KeepMemory

\* Returning from a call writes no memory.
LEMMA ReturnMemory ==
  ASSUME MemoryInv, BuildInv', NEW p \in Procs, Return(p)
  PROVE  MemoryInv'
<1>1. /\ ControlTypes /\ UNCHANGED memoryVars /\ state[p] = "kernel" /\ call[p].at = "return"
      /\ state' = [state EXCEPT ![p] = "user"] /\ call' = [call EXCEPT ![p] = NoCall]
  BY DEF MemoryInv, BuildInv, ProgramTypeOK, Return
<1>2. state'[p] = "user" /\ \A q \in Procs \ {p} : state'[q] = state[q]
  BY <1>1 DEF ControlTypes
<1>3. call'[p].op = "none" /\ \A q \in Procs \ {p} : call'[q] = call[q]
  <2>1. NoCall.op = "none"
    BY DEF NoCall
  <2> QED  BY <1>1, <2>1 DEF ControlTypes
<1>4. Live(p)
  BY <1>1 DEF Live, MemoryInv, ExitStays
<1>5. \A q \in Procs : Live(q)' => Live(q)
  BY <1>2, <1>3, <1>4 DEF Live
<1>6. \A q \in Procs : Building(q)' => Building(q) /\ call'[q] = call[q]
  BY <1>3 DEF Building
<1>7. ExitStays'
  BY <1>2, <1>3 DEF MemoryInv, ExitStays
<1> QED  BY <1>1, <1>2, <1>5, <1>6, <1>7, KeepMemory

\* Exec begins to build an address space that has no frame yet.
LEMMA SysExecMemory ==
  ASSUME MemoryInv, BuildInv', NEW p \in Procs, SysExec(p)
  PROVE  MemoryInv'
<1>1. /\ ControlTypes /\ MemoryTypes /\ ProgramTypeOK /\ UNCHANGED memoryVars /\ state[p] = "kernel"
      /\ call[p].op = "Exec" /\ call[p].at = "go"
  BY DEF MemoryInv, BuildInv, ProgramTypeOK, SysExec, At
<1>2. CASE Finish(p, Failed) /\ UNCHANGED <<state, handles>>
  <2>1. Failed \in Nat
    BY ProgramAssumption DEF Failed
  <2>2. /\ call'[p].at = "return" /\ call'[p].op = call[p].op
        /\ \A q \in Procs \ {p} : call'[q] = call[q]
    BY <1>1, <1>2, <2>1, FinishCall
  <2>3. \A q \in Procs : Live(q)' => Live(q)
    BY <1>2, <2>2 DEF Live
  <2>4. \A q \in Procs : Building(q)' => Building(q) /\ call'[q] = call[q]
    BY <2>2 DEF Building
  <2>5. ExitStays'
    BY <1>1, <1>2, <2>2 DEF MemoryInv, ExitStays
  <2> QED  BY <1>1, <1>2, <2>3, <2>4, <2>5, KeepMemory
<1>3. ASSUME NEW c \in Procs, state[c] = "none", state' = [state EXCEPT ![c] = "loading"],
             call' = [call EXCEPT ![p].at = "alloc", ![p].child = c]
      PROVE  MemoryInv'
  <2> DEFINE r == [call[p] EXCEPT !.at = "alloc"]
             d == [r EXCEPT !.child = c]
  <2>1. call[p] \in Calls /\ "alloc" \in Places
    BY <1>1 DEF ControlTypes, Places
  <2>2. r \in Calls /\ r.at = "alloc" /\ r.op = "Exec"
    BY <1>1, <2>1, SetAt
  <2>3. call' = [call EXCEPT ![p] = d]
    BY <1>3, Zenon
  <2> HIDE DEF r
  <2>4. d.child = c /\ d.at = "alloc" /\ d.op = "Exec"
    BY <2>2, SetChild
  <2> HIDE DEF d
  <2>5. /\ call'[p].child = c /\ call'[p].at = "alloc" /\ call'[p].op = "Exec"
        /\ \A q \in Procs \ {p} : call'[q] = call[q]
    BY <1>1, <2>3, <2>4 DEF ControlTypes
  <2>6. state'[c] = "loading" /\ \A q \in Procs \ {c} : state'[q] = state[q]
    BY <1>1, <1>3 DEF ControlTypes
  <2>7. \A q \in Procs : Live(q)' => Live(q)
    BY <1>1, <2>5, <2>6 DEF Live
  <2>8. \A q \in Procs : Building(q)' => q = p \/ (Building(q) /\ call'[q] = call[q])
    BY <2>5 DEF Building
  <2>9. Len(pageTable[c]) = 0 /\ 0 < NumPages
    BY <1>3, ProgramAssumption DEF MemoryInv, SpaceSizes
  <2>10. SpaceSizes'
    <3>1. UNCHANGED pageTable
      BY <1>1 DEF memoryVars
    <3>2. \A q \in Procs : Live(q)' => Len(pageTable'[q]) = NumPages
      BY <2>7, <3>1 DEF MemoryInv, SpaceSizes
    <3>3. \A q \in Procs : state'[q] = "none" => Len(pageTable'[q]) = 0
      BY <2>6, <3>1 DEF MemoryInv, SpaceSizes
    <3>4. \A q \in Procs : Building(q)' =>
            IF call'[q].at = "alloc" THEN Len(pageTable'[call'[q].child]) < NumPages
            ELSE Len(pageTable'[call'[q].child]) = NumPages
      BY <2>5, <2>8, <2>9, <3>1 DEF MemoryInv, SpaceSizes
    <3> QED  BY <3>2, <3>3, <3>4 DEF SpaceSizes
  <2>11. FramesOwned'
    BY <1>1 DEF MemoryInv, FramesOwned, memoryVars
  <2>12. Blank'
    BY <1>1, <2>5, <2>8 DEF MemoryInv, Blank, memoryVars
  <2>13. ExitStays'
    BY <2>5, <2>6 DEF MemoryInv, ExitStays
  <2>14. LiveMemory'
    BY <1>1, <2>7 DEF MemoryInv, LiveMemory, memoryVars
  <2> QED  BY <2>10, <2>11, <2>12, <2>13, <2>14 DEF MemoryInv
<1> QED  BY <1>2, <1>3 DEF SysExec

\* When no frame is left the build gives its own back, and nobody else's.
LEMMA AllocateFailsMemory ==
  ASSUME MemoryInv, BuildInv', NEW p \in Procs, AllocatePage(p), Frames \ frameMap = {}
  PROVE  MemoryInv'
<1> DEFINE c == call[p].child
<1>1. /\ ControlTypes /\ MemoryTypes /\ ProgramTypeOK /\ state[p] = "kernel"
      /\ call[p].op = "Exec" /\ Building(p) /\ c \in Procs /\ state[c] = "loading" /\ UNCHANGED view
  BY DEF MemoryInv, BuildInv, ProgramTypeOK, ControlTypes, Calls, ChildrenLoading, Building, AllocatePage, At
<1>2. /\ frameMap' = frameMap \ FramesOf(c)
      /\ pageTable' = [pageTable EXCEPT ![c] = <<>>]
      /\ state' = [state EXCEPT ![c] = "none"]
      /\ Finish(p, Failed) /\ UNCHANGED mainMemory
  BY AllocateSplit
<1>3. /\ call'[p].at = "return" /\ call'[p].op = call[p].op
      /\ \A q \in Procs \ {p} : call'[q] = call[q]
  <2>1. Failed \in Nat
    BY ProgramAssumption DEF Failed
  <2> QED  BY <1>1, <1>2, <2>1, FinishCall
<1>4. \A q \in Procs : Building(q)' => q # p /\ Building(q) /\ call'[q] = call[q] /\ call[q].child # c
  <2>1. \A q \in Procs : q # p /\ Building(q) => call[q].child # c
    BY <1>1 DEF MemoryInv, BuildInv, ChildrenLoading
  <2> QED  BY <1>3, <2>1 DEF Building
<1>5. FramesOf(c) = {pageTable[c][n] : n \in 1 .. Len(pageTable[c])}
  BY <1>1 DEF FramesOf, MemoryTypes
<1> HIDE DEF c
<1>6. /\ state'[c] = "none" /\ \A q \in Procs \ {c} : state'[q] = state[q]
      /\ pageTable'[c] = <<>> /\ \A q \in Procs \ {c} : pageTable'[q] = pageTable[q]
  BY <1>1, <1>2 DEF ControlTypes, MemoryTypes
<1>7. \A q \in Procs : Live(q)' => q # c /\ Live(q)
  BY <1>1, <1>3, <1>6 DEF Live
<1>8. \A q \in Procs : call[q].child \in Procs
  BY <1>1 DEF ControlTypes, Calls
<1>9. SpaceSizes'
  <2>1. \A q \in Procs : Live(q)' => Len(pageTable'[q]) = NumPages
    BY <1>6, <1>7 DEF MemoryInv, SpaceSizes
  <2>2. \A q \in Procs : state'[q] = "none" => Len(pageTable'[q]) = 0
    BY <1>6 DEF MemoryInv, SpaceSizes
  <2>3. \A q \in Procs : Building(q)' =>
          IF call'[q].at = "alloc" THEN Len(pageTable'[call'[q].child]) < NumPages
          ELSE Len(pageTable'[call'[q].child]) = NumPages
    BY <1>4, <1>6, <1>8 DEF MemoryInv, SpaceSizes
  <2> QED  BY <2>1, <2>2, <2>3 DEF SpaceSizes
<1>10. FramesOwned'
  <2>1. \A q \in Procs : \A n \in 1 .. Len(pageTable'[q]) : q # c /\ pageTable'[q] = pageTable[q]
    BY <1>6
  <2>2. \A q \in Procs : \A n \in 1 .. Len(pageTable'[q]) : pageTable'[q][n] \in frameMap'
    BY <1>1, <1>2, <1>5, <2>1 DEF MemoryInv, FramesOwned
  <2> QED  BY <2>1, <2>2 DEF MemoryInv, FramesOwned
<1>11. Blank'
  BY <1>2, <1>4, <1>6, <1>8 DEF MemoryInv, Blank
<1>12. ExitStays'
  BY <1>1, <1>3, <1>6 DEF MemoryInv, ExitStays
<1>13. LiveMemory'
  BY <1>1, <1>2, <1>6, <1>7 DEF MemoryInv, LiveMemory
<1> QED  BY <1>9, <1>10, <1>11, <1>12, <1>13 DEF MemoryInv

\* The frame taken was nobody's; after the last, all of the new process are clear, and no
\* page of another has changed.
LEMMA AllocateFrameMemory ==
  ASSUME MemoryInv, BuildInv', NEW p \in Procs, AllocatePage(p), Frames \ frameMap # {}
  PROVE  MemoryInv'
<1> DEFINE c == call[p].child
           frame == Lowest(Frames \ frameMap)
           size == Len(pageTable[c])
<1>1. /\ ControlTypes /\ MemoryTypes /\ ProgramTypeOK /\ state[p] = "kernel"
      /\ call[p].op = "Exec" /\ call[p].at = "alloc" /\ Building(p) /\ c \in Procs /\ state[c] = "loading"
      /\ UNCHANGED view
  BY DEF MemoryInv, BuildInv, ProgramTypeOK, ControlTypes, Calls, ChildrenLoading, Building, AllocatePage, At
<1>2. /\ frameMap' = frameMap \cup {frame}
      /\ pageTable' = [pageTable EXCEPT ![c] = Append(pageTable[c], frame)]
      /\ UNCHANGED state
      /\ \/ size + 1 < NumPages /\ UNCHANGED <<call, mainMemory>>
         \/ /\ ~(size + 1 < NumPages)
            /\ Goto(p, "wait to load")
            /\ mainMemory' = Cleared(FramesOf(c) \cup {frame})
  BY AllocateSplit
<1>3. frame \in Frames /\ frame \notin frameMap
  BY FreeFrame
<1>4. size \in Nat /\ size < NumPages /\ NumPages \in Nat
  BY <1>1, ProgramAssumption DEF MemoryTypes, MemoryInv, SpaceSizes
<1>5. FramesOf(c) = {pageTable[c][n] : n \in 1 .. size}
  <2>1. DOMAIN pageTable[c] = 1 .. size
    BY <1>1 DEF MemoryTypes
  <2> QED  BY <2>1, Zenon DEF FramesOf
<1>6. /\ call'[p].op = "Exec" /\ call'[p].child = c
      /\ call'[p].at = IF size + 1 < NumPages THEN "alloc" ELSE "wait to load"
      /\ \A q \in Procs \ {p} : call'[q] = call[q]
  <2>1. "wait to load" \in Places
    BY DEF Places
  <2>2. CASE size + 1 < NumPages
    BY <1>1, <1>2, <2>2
  <2>3. CASE ~(size + 1 < NumPages)
    BY <1>1, <1>2, <2>1, <2>3, GotoCall
  <2> QED  BY <2>2, <2>3
<1>7. \A q \in Procs : q # p /\ Building(q) => call[q].child \in Procs /\ call[q].child # c
  BY <1>1 DEF MemoryInv, BuildInv, ChildrenLoading, ControlTypes, Calls
<1> HIDE DEF c, frame
<1>8. /\ Len(pageTable'[c]) = size + 1 /\ pageTable'[c][size + 1] = frame
      /\ \A n \in 1 .. size : pageTable'[c][n] = pageTable[c][n]
      /\ \A q \in Procs \ {c} : pageTable'[q] = pageTable[q]
  <2>1. pageTable'[c] = Append(pageTable[c], frame) /\ \A q \in Procs \ {c} : pageTable'[q] = pageTable[q]
    BY <1>1, <1>2 DEF MemoryTypes
  <2>2. pageTable[c] \in Seq(Frames)
    BY <1>1 DEF MemoryTypes
  <2> QED  BY <1>3, <2>1, <2>2, AppendProperties
<1> HIDE DEF size
<1>9. \A q \in Procs : q # c => Len(pageTable[q]) \in Nat
  BY <1>1 DEF MemoryTypes
<1>10. size = Len(pageTable[c])
  BY DEF size
<1>11. FramesOwned'
  <2>1. \A q \in Procs : \A n \in 1 .. Len(pageTable'[q]) :
          \/ q = c /\ n = size + 1 /\ pageTable'[q][n] = frame
          \/ n \in 1 .. Len(pageTable[q]) /\ pageTable'[q][n] = pageTable[q][n] /\ pageTable[q][n] \in frameMap
    <3> SUFFICES ASSUME NEW q \in Procs, NEW n \in 1 .. Len(pageTable'[q])
                 PROVE  \/ q = c /\ n = size + 1 /\ pageTable'[q][n] = frame
                        \/ n \in 1 .. Len(pageTable[q]) /\ pageTable'[q][n] = pageTable[q][n] /\ pageTable[q][n] \in frameMap
      OBVIOUS
    <3>1. CASE q = c
      <4>1. n = size + 1 \/ n \in 1 .. size
        BY <1>4, <1>8, <3>1
      <4> QED  BY <1>8, <1>10, <3>1, <4>1 DEF MemoryInv, FramesOwned
    <3>2. CASE q # c
      BY <1>8, <3>2 DEF MemoryInv, FramesOwned
    <3> QED  BY <3>1, <3>2
  <2>2. \A q \in Procs : \A n \in 1 .. Len(pageTable'[q]) : pageTable'[q][n] \in frameMap'
    <3>1. frameMap' = frameMap \cup {frame}
      BY <1>2
    <3> QED  BY <2>1, <3>1
  <2>3. \A q, r \in Procs : \A n \in 1 .. Len(pageTable'[q]) : \A m \in 1 .. Len(pageTable'[r]) :
          pageTable'[q][n] = pageTable'[r][m] => q = r /\ n = m
    <3>1. \A q, r \in Procs : \A n \in 1 .. Len(pageTable[q]) : \A m \in 1 .. Len(pageTable[r]) :
            pageTable[q][n] = pageTable[r][m] => q = r /\ n = m
      BY DEF MemoryInv, FramesOwned
    <3>2. frame \notin frameMap
      BY <1>3
    <3>3. \A s \in Procs : \A k \in 1 .. Len(pageTable'[s]) : pageTable'[s][k] = frame => s = c /\ k = size + 1
      BY <2>1, <3>2
    <3> SUFFICES ASSUME NEW q \in Procs, NEW r \in Procs,
                        NEW n \in 1 .. Len(pageTable'[q]), NEW m \in 1 .. Len(pageTable'[r]),
                        pageTable'[q][n] = pageTable'[r][m]
                 PROVE  q = r /\ n = m
      OBVIOUS
    <3>4. CASE pageTable'[q][n] = frame
      <4>1. q = c /\ n = size + 1
        BY <3>3, <3>4
      <4>2. pageTable'[r][m] = frame
        BY <3>4
      <4>3. r = c /\ m = size + 1
        BY <3>3, <4>2
      <4> QED  BY <4>1, <4>3
    <3>5. CASE pageTable'[q][n] # frame
      <4>1. /\ n \in 1 .. Len(pageTable[q]) /\ pageTable'[q][n] = pageTable[q][n]
            /\ m \in 1 .. Len(pageTable[r]) /\ pageTable'[r][m] = pageTable[r][m]
        BY <2>1, <3>5
      <4>2. \A j \in 1 .. Len(pageTable[r]) : pageTable[q][n] = pageTable[r][j] => q = r /\ n = j
        BY <3>1, <4>1
      <4> QED  BY <4>1, <4>2
    <3> QED  BY <3>4, <3>5
  <2> QED  BY <2>2, <2>3 DEF FramesOwned
<1>12. \A q \in Procs : Live(q)' => Live(q) /\ q # c
  BY <1>1, <1>2, <1>6 DEF Live
<1>13. \A q \in Procs : Building(q)' => q = p \/ (Building(q) /\ call'[q] = call[q])
  BY <1>6 DEF Building
<1>14. SpaceSizes'
  <2>1. \A q \in Procs : Live(q)' => Len(pageTable'[q]) = NumPages
    BY <1>8, <1>12 DEF MemoryInv, SpaceSizes
  <2>2. \A q \in Procs : state'[q] = "none" => Len(pageTable'[q]) = 0
    BY <1>1, <1>2, <1>8 DEF MemoryInv, SpaceSizes
  <2>3. \A q \in Procs : Building(q)' =>
          IF call'[q].at = "alloc" THEN Len(pageTable'[call'[q].child]) < NumPages
          ELSE Len(pageTable'[call'[q].child]) = NumPages
    <3>1. IF call'[p].at = "alloc" THEN Len(pageTable'[call'[p].child]) < NumPages
          ELSE Len(pageTable'[call'[p].child]) = NumPages
      <4>1. CASE size + 1 < NumPages
        <5>1. Len(pageTable'[call'[p].child]) < NumPages
          BY <1>6, <1>8, <4>1
        <5> QED  BY <1>6, <4>1, <5>1
      <4>2. CASE ~(size + 1 < NumPages)
        <5>1. Len(pageTable'[call'[p].child]) = size + 1
          BY <1>6, <1>8
        <5>2. size + 1 = NumPages
          BY <1>4, <4>2
        <5>3. call'[p].at # "alloc"
          BY <1>6, <4>2
        <5> QED  BY <5>1, <5>2, <5>3
      <4> QED  BY <4>1, <4>2
    <3>2. \A q \in Procs : q # p /\ Building(q)' =>
            IF call'[q].at = "alloc" THEN Len(pageTable'[call'[q].child]) < NumPages
            ELSE Len(pageTable'[call'[q].child]) = NumPages
      BY <1>7, <1>8, <1>13 DEF MemoryInv, SpaceSizes
    <3> QED  BY <3>1, <3>2
  <2> QED  BY <2>1, <2>2, <2>3 DEF SpaceSizes
<1>15. \A q \in Procs \ {c} : \A n \in 1 .. Len(pageTable[q]) : mainMemory'[pageTable[q][n]] = mainMemory[pageTable[q][n]]
  <2> SUFFICES ASSUME NEW q \in Procs \ {c}, NEW n \in 1 .. Len(pageTable[q])
               PROVE  mainMemory'[pageTable[q][n]] = mainMemory[pageTable[q][n]]
    OBVIOUS
  <2>1. pageTable[q][n] \in frameMap /\ pageTable[q][n] \in Frames
    BY <1>1 DEF MemoryInv, FramesOwned, MemoryTypes
  <2>2. pageTable[q][n] \notin FramesOf(c) \cup {frame}
    BY <1>1, <1>3, <1>5, <1>10, <2>1 DEF MemoryInv, FramesOwned
  <2> QED  BY <1>2, <2>1, <2>2 DEF Cleared
<1>16. Blank'
  <2>1. ASSUME NEW page \in Pages \ LoadedPages, call'[p].at # "alloc"
        PROVE  mainMemory'[pageTable'[c][page]] = 0
    <3>1. size + 1 = NumPages /\ mainMemory' = Cleared(FramesOf(c) \cup {frame})
      <4>1. ~(size + 1 < NumPages)
        BY <1>6, <2>1
      <4>2. size + 1 = NumPages
        BY <1>4, <4>1
      <4>3. mainMemory' = Cleared(FramesOf(c) \cup {frame})
        BY <1>2, <4>1, Zenon
      <4> QED  BY <4>2, <4>3
    <3>2. page = size + 1 \/ page \in 1 .. size
      BY <1>4, <3>1 DEF Pages
    <3>3. pageTable'[c][page] \in FramesOf(c) \cup {frame}
      BY <1>5, <1>8, <3>2
    <3>4. pageTable'[c][page] \in Frames
      BY <1>1, <1>3, <1>5, <1>8, <1>10, <3>2 DEF MemoryTypes
    <3> QED  BY <3>1, <3>3, <3>4 DEF Cleared
  <2>2. ASSUME NEW q \in Procs, q # p, Building(q)', call'[q].at # "alloc", NEW page \in Pages \ LoadedPages
        PROVE  mainMemory'[pageTable'[call'[q].child][page]] = 0
    <3>1. Building(q) /\ call'[q] = call[q] /\ call[q].child \in Procs \ {c}
      BY <1>7, <1>13, <2>2
    <3>2. page \in 1 .. Len(pageTable[call[q].child]) /\ mainMemory[pageTable[call[q].child][page]] = 0
      BY <2>2, <3>1 DEF MemoryInv, SpaceSizes, Blank, Pages
    <3> QED  BY <1>8, <1>15, <3>1, <3>2
  <2> QED  BY <1>6, <2>1, <2>2 DEF Blank
<1>17. ExitStays'
  BY <1>2, <1>6 DEF MemoryInv, ExitStays
<1>18. LiveMemory'
  <2> SUFFICES ASSUME NEW q \in Procs, Live(q)', NEW page \in Pages
               PROVE  mainMemory'[pageTable'[q][page]] = view'[q][page]
    BY DEF LiveMemory
  <2>1. q # c /\ page \in 1 .. Len(pageTable[q]) /\ mainMemory[pageTable[q][page]] = view[q][page]
    BY <1>12 DEF MemoryInv, SpaceSizes, LiveMemory, Pages
  <2> QED  BY <1>1, <1>8, <1>15, <2>1
<1> QED  BY <1>11, <1>14, <1>16, <1>17, <1>18 DEF MemoryInv

\* When the pages are loaded the new program has what its executable says.
LEMMA LoadPagesMemory ==
  ASSUME MemoryInv, BuildInv', NEW p \in Procs, LoadPages(p)
  PROVE  MemoryInv'
<1> DEFINE c == call[p].child
<1>1. /\ ControlTypes /\ MemoryTypes /\ ProgramTypeOK /\ state[p] = "kernel"
      /\ call[p].op = "Exec" /\ call[p].at = "load" /\ Building(p) /\ c \in Procs /\ state[c] = "loading"
      /\ UNCHANGED <<frameMap, pageTable>>
  BY DEF MemoryInv, BuildInv, ProgramTypeOK, ControlTypes, Calls, ChildrenLoading, Building, LoadPages, At
<1>2. /\ mainMemory' = [f \in Frames |->
           IF \E page \in LoadedPages : pageTable[c][page] = f THEN 1 ELSE mainMemory[f]]
      /\ view' = [view EXCEPT ![c] = [page \in Pages |-> Image(page)]]
      /\ state' = [state EXCEPT ![c] = "born"]
      /\ Finish(p, 2)
  BY DEF LoadPages
<1>3. /\ call'[p].at = "return" /\ call'[p].op = "Exec"
      /\ \A q \in Procs \ {p} : call'[q] = call[q]
  BY <1>1, <1>2, FinishCall
<1>4. Len(pageTable[c]) = NumPages
  BY <1>1 DEF MemoryInv, SpaceSizes
<1>5. \A q \in Procs : Building(q)' => q # p /\ Building(q) /\ call'[q] = call[q] /\ call[q].child \in Procs \ {c}
  <2>1. \A q \in Procs : q # p /\ Building(q) => call[q].child \in Procs \ {c}
    BY <1>1 DEF MemoryInv, BuildInv, ChildrenLoading, ControlTypes, Calls
  <2> QED  BY <1>3, <2>1 DEF Building
<1>6. \A page \in Pages \ LoadedPages : mainMemory[pageTable[c][page]] = 0
  BY <1>1 DEF MemoryInv, Blank
<1> HIDE DEF c
<1>7. /\ state'[c] = "born" /\ \A q \in Procs \ {c} : state'[q] = state[q]
      /\ view'[c] = [page \in Pages |-> Image(page)] /\ \A q \in Procs \ {c} : view'[q] = view[q]
  BY <1>1, <1>2 DEF ControlTypes, MemoryTypes
<1>8. \A q \in Procs : Live(q)' => q = c \/ Live(q)
  BY <1>1, <1>3, <1>7 DEF Live
<1>9. \A q \in Procs : \A n \in 1 .. Len(pageTable[q]) : pageTable[q][n] \in Frames
  BY <1>1 DEF MemoryTypes
<1>10. SpaceSizes'
  <2>1. \A q \in Procs : Live(q)' => Len(pageTable'[q]) = NumPages
    BY <1>1, <1>4, <1>8 DEF MemoryInv, SpaceSizes
  <2>2. \A q \in Procs : state'[q] = "none" => Len(pageTable'[q]) = 0
    BY <1>1, <1>7 DEF MemoryInv, SpaceSizes
  <2>3. \A q \in Procs : Building(q)' =>
          IF call'[q].at = "alloc" THEN Len(pageTable'[call'[q].child]) < NumPages
          ELSE Len(pageTable'[call'[q].child]) = NumPages
    BY <1>1, <1>5 DEF MemoryInv, SpaceSizes
  <2> QED  BY <2>1, <2>2, <2>3 DEF SpaceSizes
<1>11. FramesOwned'
  BY <1>1 DEF MemoryInv, FramesOwned
<1>12. ExitStays'
  <2>1. \A q \in Procs : state'[q] = "kernel" /\ call'[q].op = "Exit" => q # p /\ q # c
    BY <1>3, <1>7
  <2> QED  BY <1>3, <1>7, <2>1 DEF MemoryInv, ExitStays
<1>13. LoadedPages \subseteq 1 .. Len(pageTable[c])
  BY <1>4, ProgramAssumption
<1>14. \A q \in Procs \ {c} : \A n \in 1 .. Len(pageTable[q]) : mainMemory'[pageTable[q][n]] = mainMemory[pageTable[q][n]]
  <2> SUFFICES ASSUME NEW q \in Procs \ {c}, NEW n \in 1 .. Len(pageTable[q])
               PROVE  mainMemory'[pageTable[q][n]] = mainMemory[pageTable[q][n]]
    OBVIOUS
  <2>1. ~ \E page \in LoadedPages : pageTable[c][page] = pageTable[q][n]
    BY <1>1, <1>13 DEF MemoryInv, FramesOwned
  <2> QED  BY <1>2, <1>9, <2>1
<1>15. Blank'
  <2> SUFFICES ASSUME NEW q \in Procs, Building(q)', call'[q].at # "alloc", NEW page \in Pages \ LoadedPages
               PROVE  mainMemory'[pageTable'[call'[q].child][page]] = 0
    BY DEF Blank
  <2>1. Building(q) /\ call'[q] = call[q] /\ call[q].child \in Procs \ {c}
    BY <1>5
  <2>2. page \in 1 .. Len(pageTable[call[q].child]) /\ mainMemory[pageTable[call[q].child][page]] = 0
    BY <2>1 DEF MemoryInv, SpaceSizes, Blank, Pages
  <2> QED  BY <1>1, <1>14, <2>1, <2>2
<1>16. LiveMemory'
  <2> SUFFICES ASSUME NEW q \in Procs, Live(q)', NEW page \in Pages
               PROVE  mainMemory'[pageTable[q][page]] = view'[q][page]
    BY <1>1 DEF LiveMemory
  <2>1. CASE q = c
    <3>1. page \in 1 .. Len(pageTable[c]) /\ pageTable[c][page] \in Frames /\ view'[c][page] = Image(page)
      BY <1>1, <1>4, <1>7, <1>9 DEF Pages
    <3>2. CASE page \in LoadedPages
      BY <1>2, <2>1, <3>1, <3>2 DEF Image
    <3>3. CASE page \notin LoadedPages
      <4>1. ~ \E loaded \in LoadedPages : pageTable[c][loaded] = pageTable[c][page]
        BY <1>1, <1>13, <3>1, <3>3 DEF MemoryInv, FramesOwned
      <4> QED  BY <1>2, <1>6, <2>1, <3>1, <3>3, <4>1 DEF Image
    <3> QED  BY <3>2, <3>3
  <2>2. CASE q # c
    <3>1. page \in 1 .. Len(pageTable[q]) /\ mainMemory[pageTable[q][page]] = view[q][page]
      BY <1>8, <2>2 DEF MemoryInv, SpaceSizes, LiveMemory, Pages
    <3> QED  BY <1>7, <1>14, <2>2, <3>1
  <2> QED  BY <2>1, <2>2
<1> QED  BY <1>10, <1>11, <1>12, <1>15, <1>16 DEF MemoryInv

\* A process that ends gives its frames back one by one, when nothing is expected of them any more.
LEMMA TerminatorMemory ==
  ASSUME MemoryInv, BuildInv', NEW p \in Procs, Terminator(p)
  PROVE  MemoryInv'
<1>1. /\ ControlTypes /\ MemoryTypes /\ state[p] = "kernel" /\ call[p].op = "Exit"
      /\ UNCHANGED <<call, mainMemory, view>>
  BY DEF MemoryInv, BuildInv, ProgramTypeOK, Terminator, At
<1>2. \A q \in Procs : Building(q)' <=> Building(q)
  BY <1>1 DEF Building
<1>3. \A q \in Procs : Building(q) => call[q].child \in Procs \ {p}
  BY <1>1 DEF MemoryInv, BuildInv, ChildrenLoading, ControlTypes, Calls
<1>4. ~Live(p)
  BY <1>1 DEF Live
<1>5. CASE pageTable[p] # <<>>
  <2>1. /\ frameMap' = frameMap \ {Head(pageTable[p])} /\ UNCHANGED state
        /\ pageTable' = [pageTable EXCEPT ![p] = Tail(pageTable[p])]
    BY <1>5 DEF Terminator
  <2>2. /\ pageTable[p] \in Seq(Frames) /\ Len(pageTable[p]) \in Nat \ {0} /\ Head(pageTable[p]) = pageTable[p][1]
    BY <1>1, <1>5 DEF MemoryTypes
  <2>3. /\ Len(pageTable'[p]) = Len(pageTable[p]) - 1
        /\ \A n \in 1 .. Len(pageTable'[p]) : n + 1 \in 1 .. Len(pageTable[p]) /\ pageTable'[p][n] = pageTable[p][n + 1]
    BY <1>1, <2>1, <2>2 DEF MemoryTypes
  <2>4. \A q \in Procs \ {p} : pageTable'[q] = pageTable[q]
    BY <1>1, <2>1 DEF MemoryTypes
  <2>5. \A q \in Procs : Live(q)' <=> Live(q)
    BY <1>1, <2>1 DEF Live
  <2>6. SpaceSizes'
    <3>1. \A q \in Procs : Live(q)' => Len(pageTable'[q]) = NumPages
      BY <1>4, <2>4, <2>5 DEF MemoryInv, SpaceSizes
    <3>2. \A q \in Procs : state'[q] = "none" => Len(pageTable'[q]) = 0
      BY <1>1, <2>1, <2>4 DEF MemoryInv, SpaceSizes
    <3>3. \A q \in Procs : Building(q)' =>
            IF call'[q].at = "alloc" THEN Len(pageTable'[call'[q].child]) < NumPages
            ELSE Len(pageTable'[call'[q].child]) = NumPages
      BY <1>1, <1>2, <1>3, <2>4 DEF MemoryInv, SpaceSizes
    <3> QED  BY <3>1, <3>2, <3>3 DEF SpaceSizes
  <2>7. FramesOwned'
    <3>1. \A q \in Procs : \A n \in 1 .. Len(pageTable'[q]) :
            LET m == IF q = p THEN n + 1 ELSE n
            IN m \in 1 .. Len(pageTable[q]) /\ pageTable'[q][n] = pageTable[q][m] /\ ~(q = p /\ m = 1)
      BY <2>3, <2>4
    <3>2. 1 \in 1 .. Len(pageTable[p])
      BY <2>2
    <3>3. \A q \in Procs : \A n \in 1 .. Len(pageTable'[q]) : pageTable'[q][n] \in frameMap'
      BY <2>1, <2>2, <3>1, <3>2 DEF MemoryInv, FramesOwned
    <3>4. \A q, r \in Procs : \A n \in 1 .. Len(pageTable'[q]) : \A m \in 1 .. Len(pageTable'[r]) :
            pageTable'[q][n] = pageTable'[r][m] => q = r /\ n = m
      <4> SUFFICES ASSUME NEW q \in Procs, NEW r \in Procs,
                          NEW n \in 1 .. Len(pageTable'[q]), NEW m \in 1 .. Len(pageTable'[r]),
                          pageTable'[q][n] = pageTable'[r][m]
                   PROVE  q = r /\ n = m
        OBVIOUS
      <4> DEFINE nn == IF q = p THEN n + 1 ELSE n
                 mm == IF r = p THEN m + 1 ELSE m
      <4>1. /\ nn \in 1 .. Len(pageTable[q]) /\ pageTable'[q][n] = pageTable[q][nn]
            /\ mm \in 1 .. Len(pageTable[r]) /\ pageTable'[r][m] = pageTable[r][mm]
        BY <3>1
      <4> HIDE DEF nn, mm
      <4>2. q = r /\ nn = mm
        <5>1. pageTable[q][nn] = pageTable[r][mm]
          BY <4>1
        <5>2. \A a, b \in Procs : \A i \in 1 .. Len(pageTable[a]) : \A j \in 1 .. Len(pageTable[b]) :
                pageTable[a][i] = pageTable[b][j] => a = b /\ i = j
          BY Zenon DEF MemoryInv, FramesOwned
        <5>3. \A j \in 1 .. Len(pageTable[r]) : pageTable[q][nn] = pageTable[r][j] => q = r /\ nn = j
          BY <4>1, <5>2
        <5> QED  BY <4>1, <5>1, <5>3
      <4> QED  BY <4>2 DEF nn, mm
    <3> QED  BY <3>3, <3>4 DEF FramesOwned
  <2>8. Blank'
    BY <1>1, <1>2, <1>3, <2>4 DEF MemoryInv, Blank
  <2>9. ExitStays'
    BY <1>1, <2>1 DEF MemoryInv, ExitStays
  <2>10. LiveMemory'
    BY <1>1, <1>4, <2>4, <2>5 DEF MemoryInv, LiveMemory
  <2> QED  BY <2>6, <2>7, <2>8, <2>9, <2>10 DEF MemoryInv
<1>6. CASE pageTable[p] = <<>>
  <2>1. UNCHANGED <<frameMap, pageTable>> /\ state' = [state EXCEPT ![p] = "done"]
    BY <1>6 DEF Terminator
  <2>2. state'[p] = "done" /\ \A q \in Procs \ {p} : state'[q] = state[q]
    BY <1>1, <2>1 DEF ControlTypes
  <2>3. \A q \in Procs : Live(q)' => Live(q)
    BY <1>1, <2>2 DEF Live
  <2>4. ExitStays'
    BY <1>1, <2>2 DEF MemoryInv, ExitStays
  <2>5. UNCHANGED memoryVars
    BY <1>1, <2>1 DEF memoryVars
  <2> QED  BY <1>1, <1>2, <2>2, <2>3, <2>4, <2>5, KeepMemory
<1> QED  BY <1>5, <1>6

\* Whatever the other programs do, start and exit included, a program finds in its pages
\* what it stored, what the kernel copied there for it, or what was loaded, for any size of
\* memory and of program (AddrSpace, Machine::WriteMem, SysExec, Terminator).
THEOREM ProgramMemory == ProgramSpec => []OwnMemory
<1>1. MemoryInv /\ [ProgramNext]_programVars => MemoryInv'
  <2>1. ASSUME MemoryInv, UNCHANGED programVars
        PROVE  MemoryInv'
    <3>1. UNCHANGED <<state, call, memoryVars>>
      BY <2>1 DEF programVars, registersVars
    <3>2. BuildInv'
      BY <2>1, NextBuild DEF MemoryInv
    <3>3. /\ \A q \in Procs : (Live(q)' <=> Live(q)) /\ (Building(q)' <=> Building(q))
          /\ ExitStays'
      BY <2>1, <3>1 DEF MemoryInv, ExitStays, Live, Building
    <3> QED  BY <2>1, <3>1, <3>2, <3>3, KeepMemory
  <2>2. ASSUME MemoryInv, NEW p \in Procs, ProgramStep(p)
        PROVE  MemoryInv'
    <3>1. BuildInv'
      BY <2>2, NextBuild DEF MemoryInv, ProgramNext
    <3> QED  BY <2>2, <3>1, ComputeTrapMemory, StoreValueMemory, RunMemory, OtherCallKeepsMemory, SysExecMemory,
                AllocateFailsMemory, AllocateFrameMemory, LoadPagesMemory, TerminatorMemory, ReturnMemory
                DEF ProgramStep, OtherCall
  <2> QED  BY <2>1, <2>2 DEF ProgramNext
<1>2. MemoryInv => OwnMemory
  BY DEF MemoryInv, LiveMemory, Live, OwnMemory
<1> QED  BY <1>1, <1>2, InitMemoryInv, PTL DEF ProgramSpec

-----------------------------------------------------------------------------
(***************************************************************************)
(* The OpenFile objects: as many as the file ids in use and the programs   *)
(* being loaded.                                                           *)
(***************************************************************************)

\* The file ids in use, of all processes, and the Execs under way: each keeps one.
OpenSlots == {x \in Procs \X Slots : openFiles[x[1]][x[2]] # NoFile}
Builders == {p \in Procs : Building(p)}

\* Only a thread in the kernel is in an Exec, and the objects are counted.
HandlesInv ==
  /\ \A p \in Procs : Building(p) => state[p] = "kernel"
  /\ IsFiniteSet(OpenSlots) /\ IsFiniteSet(Builders)
  /\ handles = Cardinality(OpenSlots) + Cardinality(Builders)

\* A step that opens and closes nothing.
LEMMA KeepHandles ==
  ASSUME HandlesInv, UNCHANGED fileVars,
         \A p \in Procs : (Building(p)' <=> Building(p)) /\ (Building(p)' => state'[p] = "kernel")
  PROVE  HandlesInv'
<1>1. OpenSlots' = OpenSlots /\ handles' = handles
  BY DEF OpenSlots, fileVars
<1>2. Builders' = Builders
  BY DEF Builders
<1> QED  BY <1>1, <1>2 DEF HandlesInv

\* A step in which only p's call moves, and not among the places of an Exec.
LEMMA OthersBuild ==
  ASSUME NEW p \in Procs, \A q \in Procs \ {p} : call'[q] = call[q]
  PROVE  \A q \in Procs \ {p} : Building(q)' <=> Building(q)
BY DEF Building

\* Open takes one more handle of the host, in the slot it says,
LEMMA SysOpenHandles ==
  ASSUME HandlesInv, MemoryTypes, NEW p \in Procs, SysOpen(p), Builders' = Builders,
         \A q \in Procs : Building(q)' => state'[q] = "kernel"
  PROVE  HandlesInv'
<1>1. CASE call[p].arg \in Files /\ Insert(p) # 0
  <2>1. PICK slot : slot = Insert(p)
    OBVIOUS
  <2>2. PICK name \in Files : name = call[p].arg
    BY <1>1
  <2>3. /\ openFiles' = [openFiles EXCEPT ![p][slot] = name]
        /\ handles' = handles + 1
    BY <1>1, <2>1, <2>2 DEF SysOpen
  <2>4. name # NoFile
    BY ProgramAssumption DEF NoFile
  <2>5. slot \in Slots /\ openFiles[p][slot] = NoFile
    <3>1. FreeSlots(p) # {} /\ FreeSlots(p) \subseteq Nat
      BY <1>1 DEF Insert, FreeSlots, Slots
    <3>2. slot \in FreeSlots(p)
      BY <1>1, <2>1, <3>1, LowestProperties DEF Insert
    <3> QED  BY <3>2 DEF FreeSlots
  <2>6. \A q \in Procs : \A n \in Slots :
          openFiles'[q][n] = IF q = p /\ n = slot THEN name ELSE openFiles[q][n]
    BY <2>3, <2>5 DEF MemoryTypes
  <2>7. OpenSlots' = OpenSlots \cup {<<p, slot>>} /\ <<p, slot>> \notin OpenSlots
    BY <2>4, <2>5, <2>6 DEF OpenSlots
  <2>8. IsFiniteSet(OpenSlots') /\ Cardinality(OpenSlots') = Cardinality(OpenSlots) + 1
    <3>1. IsFiniteSet(OpenSlots)
      BY DEF HandlesInv
    <3>2. /\ IsFiniteSet(OpenSlots \cup {<<p, slot>>})
          /\ Cardinality(OpenSlots \cup {<<p, slot>>}) = IF <<p, slot>> \in OpenSlots THEN Cardinality(OpenSlots)
                                                         ELSE Cardinality(OpenSlots) + 1
      BY <3>1, FS_AddElement
    <3> QED  BY <3>2, <2>7
  <2>9. Cardinality(OpenSlots) \in Nat /\ Cardinality(Builders) \in Nat
    BY FS_CardinalityType DEF HandlesInv
  <2>10. handles' = Cardinality(OpenSlots') + Cardinality(Builders')
    BY <2>3, <2>8, <2>9 DEF HandlesInv
  <2> QED  BY <2>8, <2>10 DEF HandlesInv
<1>2. CASE ~(call[p].arg \in Files /\ Insert(p) # 0)
  <2>1. OpenSlots' = OpenSlots /\ handles' = handles
    BY <1>2 DEF SysOpen, OpenSlots, fileVars
  <2> QED  BY <2>1 DEF HandlesInv
<1> QED  BY <1>1, <1>2

\* and Close gives one back.
LEMMA SysCloseHandles ==
  ASSUME HandlesInv, MemoryTypes, NEW p \in Procs, SysClose(p), Builders' = Builders,
         \A q \in Procs : Building(q)' => state'[q] = "kernel"
  PROVE  HandlesInv'
<1>1. CASE UNCHANGED fileVars
  <2>1. OpenSlots' = OpenSlots /\ handles' = handles
    BY <1>1 DEF OpenSlots, fileVars
  <2> QED  BY <2>1 DEF HandlesInv
<1>2. CASE ~UNCHANGED fileVars
  <2>1. PICK id \in ConsoleIds \cup FileIds :
          /\ GetOpenFile(p, id) # NoFile
          /\ openFiles' = [openFiles EXCEPT ![p][id - 1] = NoFile]
          /\ handles' = handles - 1
    BY <1>2 DEF SysClose
  <2>2. id \in FileIds /\ openFiles[p][id - 1] # NoFile
    BY <2>1 DEF GetOpenFile
  <2>3. PICK slot \in Slots : slot = id - 1
    BY <2>2, ProgramAssumption DEF FileIds, Slots
  <2>4. \A q \in Procs : \A n \in Slots :
          openFiles'[q][n] = IF q = p /\ n = slot THEN NoFile ELSE openFiles[q][n]
    BY <2>1, <2>3 DEF MemoryTypes
  <2>5. OpenSlots' = OpenSlots \ {<<p, slot>>} /\ <<p, slot>> \in OpenSlots
    <3>1. openFiles[p][slot] # NoFile
      BY <2>2, <2>3
    <3>2. <<p, slot>> \in OpenSlots
      BY <3>1 DEF OpenSlots
    <3>3. OpenSlots' = OpenSlots \ {<<p, slot>>}
      BY <2>4 DEF OpenSlots
    <3> QED  BY <3>2, <3>3
  <2>6. IsFiniteSet(OpenSlots') /\ Cardinality(OpenSlots') = Cardinality(OpenSlots) - 1
    <3>1. IsFiniteSet(OpenSlots)
      BY DEF HandlesInv
    <3>2. /\ IsFiniteSet(OpenSlots \ {<<p, slot>>})
          /\ Cardinality(OpenSlots \ {<<p, slot>>}) = IF <<p, slot>> \in OpenSlots THEN Cardinality(OpenSlots) - 1
                                                      ELSE Cardinality(OpenSlots)
      BY <3>1, FS_RemoveElement
    <3> QED  BY <3>2, <2>5
  <2>7. Cardinality(OpenSlots) \in Nat /\ Cardinality(Builders) \in Nat
    BY FS_CardinalityType DEF HandlesInv
  <2>8. handles' = Cardinality(OpenSlots') + Cardinality(Builders')
    BY <2>1, <2>6, <2>7 DEF HandlesInv
  <2> QED  BY <2>6, <2>8 DEF HandlesInv
<1> QED  BY <1>1, <1>2

\* The other calls open and close nothing.
LEMMA OtherCallHandles ==
  ASSUME BuildInv, HandlesInv, NEW p \in Procs, OtherCall(p)
  PROVE  HandlesInv'
<1>1. ProgramTypeOK /\ MemoryTypes
  BY DEF BuildInv, ProgramTypeOK
<1>2. CallMoves(p) /\ InKernel /\ call[p].at \in {"start", "go"}
  BY <1>1, OtherCallMoves, OtherCallPlace
<1>3. \A q \in Procs : Building(q)' <=> Building(q)
  BY <1>2 DEF CallMoves, Building
<1>4. \A q \in Procs : Building(q)' => state'[q] = "kernel"
  BY <1>2, <1>3 DEF HandlesInv, InKernel
<1>5. Builders' = Builders
  BY <1>3 DEF Builders
<1>6. CASE SysOpen(p)
  BY <1>1, <1>4, <1>5, <1>6, SysOpenHandles
<1>7. CASE SysClose(p)
  BY <1>1, <1>4, <1>5, <1>7, SysCloseHandles
<1>8. CASE ~SysOpen(p) /\ ~SysClose(p)
  <2>1. UNCHANGED fileVars
    BY <1>8 DEF OtherCall, SysAdd, Unexpected, SysRead, SysReadCopy, SysWrite, UseName, SysCreate, SysJoin
  <2> QED  BY <2>1, <1>3, <1>4, KeepHandles
<1> QED  BY <1>6, <1>7, <1>8

\* A builder more, or one less, with the file of the program it loads.
LEMMA BuilderComes ==
  ASSUME HandlesInv, NEW p \in Procs, ~Building(p), Building(p)', \A q \in Procs \ {p} : Building(q)' <=> Building(q),
         openFiles' = openFiles, handles' = handles + 1, \A q \in Procs : Building(q)' => state'[q] = "kernel"
  PROVE  HandlesInv'
<1>1. Builders' = Builders \cup {p} /\ p \notin Builders
  BY DEF Builders
<1>2. OpenSlots' = OpenSlots
  BY DEF OpenSlots
<1>3. IsFiniteSet(OpenSlots) /\ IsFiniteSet(Builders) /\ handles = Cardinality(OpenSlots) + Cardinality(Builders)
  BY DEF HandlesInv
<1>4. /\ IsFiniteSet(Builders \cup {p})
      /\ Cardinality(Builders \cup {p}) = IF p \in Builders THEN Cardinality(Builders) ELSE Cardinality(Builders) + 1
  BY <1>3, FS_AddElement
<1>5. Cardinality(OpenSlots) \in Nat /\ Cardinality(Builders) \in Nat
  BY <1>3, FS_CardinalityType
<1>6. handles' = Cardinality(OpenSlots') + Cardinality(Builders')
  BY <1>1, <1>2, <1>3, <1>4, <1>5
<1> QED  BY <1>1, <1>2, <1>3, <1>4, <1>6 DEF HandlesInv

\* A builder that stops building has closed its executable.
LEMMA BuilderGoes ==
  ASSUME HandlesInv, NEW p \in Procs, Building(p), ~Building(p)', \A q \in Procs \ {p} : Building(q)' <=> Building(q),
         openFiles' = openFiles, handles' = handles - 1, \A q \in Procs : Building(q)' => state'[q] = "kernel"
  PROVE  HandlesInv'
<1>1. Builders' = Builders \ {p} /\ p \in Builders
  BY DEF Builders
<1>2. OpenSlots' = OpenSlots
  BY DEF OpenSlots
<1>3. IsFiniteSet(OpenSlots) /\ IsFiniteSet(Builders) /\ handles = Cardinality(OpenSlots) + Cardinality(Builders)
  BY DEF HandlesInv
<1>4. /\ IsFiniteSet(Builders \ {p})
      /\ Cardinality(Builders \ {p}) = IF p \in Builders THEN Cardinality(Builders) - 1 ELSE Cardinality(Builders)
  BY <1>3, FS_RemoveElement
<1>5. Cardinality(OpenSlots) \in Nat /\ Cardinality(Builders) \in Nat
  BY <1>3, FS_CardinalityType
<1>6. handles' = Cardinality(OpenSlots') + Cardinality(Builders')
  BY <1>1, <1>2, <1>3, <1>4, <1>5
<1> QED  BY <1>1, <1>2, <1>3, <1>4, <1>6 DEF HandlesInv

\* At the start every handle counted is open.
LEMMA InitHandles == ProgramInit => HandlesInv
<1> SUFFICES ASSUME ProgramInit PROVE HandlesInv
  OBVIOUS
<1>1. \A p \in Procs : ~Building(p)
  BY DEF ProgramInit, NoCall, Building
<1>2. Builders = {}
  BY <1>1 DEF Builders
<1>3. OpenSlots = {}
  BY DEF ProgramInit, OpenSlots
<1>4. handles = 0
  BY DEF ProgramInit
<1> QED  BY <1>1, <1>2, <1>3, <1>4, FS_EmptySet DEF HandlesInv

\* An instruction of a program opens and closes nothing,
LEMMA InstructionHandles ==
  ASSUME BuildInv, HandlesInv, NEW p \in Procs, Compute(p) \/ StoreValue(p) \/ Trap(p)
  PROVE  HandlesInv'
<1>1. state[p] = "user" /\ UNCHANGED fileVars
  BY DEF Compute, StoreValue, Trap, InUser
<1>2. ~Building(p)
  BY <1>1 DEF HandlesInv
<1>3. CASE Compute(p) \/ StoreValue(p)
  <2>1. UNCHANGED <<state, call>>
    BY <1>3 DEF Compute, StoreValue
  <2> QED  BY <1>1, <2>1, KeepHandles DEF Building, HandlesInv
<1>4. CASE Trap(p)
  <2> DEFINE c(op) == [op |-> op, at |-> "start", saved |-> FALSE, arg |-> registers.r4, result |-> 0, child |-> First]
  <2>1. call \in [Procs -> Calls] /\ state \in [Procs -> States]
    BY DEF BuildInv, ProgramTypeOK, ControlTypes
  <2>2. PICK op : call' = [call EXCEPT ![p] = c(op)]
    BY <1>4 DEF Trap
  <2>3. c(op).at = "start"
    OBVIOUS
  <2> HIDE DEF c
  <2>4. call'[p].at = "start" /\ \A q \in Procs \ {p} : call'[q] = call[q]
    BY <2>1, <2>2, <2>3
  <2>5. \A q \in Procs \ {p} : state'[q] = state[q]
    BY <1>4, <2>1 DEF Trap
  <2>6. ~Building(p)'
    BY <2>4 DEF Building
  <2>7. \A q \in Procs \ {p} : Building(q)' <=> Building(q)
    BY <2>4, OthersBuild
  <2> QED  BY <1>1, <1>2, <2>5, <2>6, <2>7, KeepHandles DEF HandlesInv
<1> QED  BY <1>3, <1>4

\* nor does a switch to another process.
LEMMA RunHandles ==
  ASSUME BuildInv, HandlesInv, NEW q \in Procs, Run(q)
  PROVE  HandlesInv'
<1>1. ControlTypes /\ current \in Procs /\ state \in [Procs -> States]
  BY DEF BuildInv, ProgramTypeOK, ControlTypes
<1>2. PICK r \in Procs : r = current
  BY <1>1
<1>3. Building(r)' <=> Building(r)
  <2>1. /\ call'[r].op = call[r].op
        /\ call'[r].at = IF call[r].at = "wait" THEN "go"
                         ELSE IF call[r].at = "wait to load" THEN "load" ELSE call[r].at
    BY <1>1, <1>2, RunCall
  <2> QED  BY <2>1 DEF Building
<1>4. \A p \in Procs \ {r} : Building(p)' <=> Building(p)
  <2>1. \A p \in Procs \ {r} : call'[p] = call[p]
    BY <1>1, <1>2, RunCall
  <2> QED  BY <2>1, OthersBuild
<1>5. \A p \in Procs : Building(p)' <=> Building(p)
  BY <1>3, <1>4
<1>6. \A p \in Procs : state[p] = "kernel" => state'[p] = "kernel"
  BY <1>1 DEF Run, ProcessStartup
<1>7. \A p \in Procs : Building(p)' => state'[p] = "kernel"
  BY <1>5, <1>6 DEF HandlesInv
<1>8. UNCHANGED fileVars
  BY DEF Run
<1> QED  BY <1>5, <1>7, <1>8, KeepHandles

\* Exec opens its executable, for the time of the build.
LEMMA SysExecHandles ==
  ASSUME BuildInv, HandlesInv, NEW p \in Procs, SysExec(p)
  PROVE  HandlesInv'
<1>1. /\ ProgramTypeOK /\ call \in [Procs -> Calls] /\ state \in [Procs -> States]
      /\ state[p] = "kernel" /\ call[p].at = "go" /\ call[p].op = "Exec" /\ openFiles' = openFiles
  BY DEF BuildInv, ProgramTypeOK, ControlTypes, SysExec, At
<1>2. ~Building(p)
  BY <1>1 DEF Building
<1>3. CASE Finish(p, Failed) /\ UNCHANGED <<state, handles>>
  <2>1. Failed \in Nat
    BY ProgramAssumption DEF Failed
  <2>2. call'[p].at = "return" /\ \A q \in Procs \ {p} : call'[q] = call[q]
    BY <1>1, <1>3, <2>1, FinishCall
  <2>3. ~Building(p)'
    BY <2>2 DEF Building
  <2>4. \A q \in Procs \ {p} : Building(q)' <=> Building(q)
    BY <2>2, OthersBuild
  <2> QED  BY <1>1, <1>2, <1>3, <2>3, <2>4, KeepHandles DEF HandlesInv, fileVars
<1>4. ASSUME NEW c \in Procs, state[c] = "none", state' = [state EXCEPT ![c] = "loading"],
             call' = [call EXCEPT ![p].at = "alloc", ![p].child = c], handles' = handles + 1
      PROVE  HandlesInv'
  <2> DEFINE r == [call[p] EXCEPT !.at = "alloc"]
             d == [r EXCEPT !.child = c]
  <2>1. call[p] \in Calls /\ "alloc" \in Places
    BY <1>1 DEF Places
  <2>2. r \in Calls /\ r.at = "alloc" /\ r.op = call[p].op
    BY <2>1, SetAt
  <2>3. call' = [call EXCEPT ![p] = d]
    BY <1>4, Zenon
  <2> HIDE DEF r
  <2>4. d.at = "alloc" /\ d.op = "Exec"
    BY <1>1, <2>2, SetChild
  <2> HIDE DEF d
  <2>5. call'[p].at = "alloc" /\ call'[p].op = "Exec" /\ \A q \in Procs \ {p} : call'[q] = call[q]
    BY <1>1, <2>3, <2>4
  <2>6. Building(p)'
    BY <2>5 DEF Building
  <2>7. \A q \in Procs \ {p} : Building(q)' <=> Building(q)
    BY <2>5, OthersBuild
  <2>8. \A q \in Procs : state[q] = "kernel" => state'[q] = "kernel"
    BY <1>1, <1>4
  <2>9. \A q \in Procs : Building(q)' => state'[q] = "kernel"
    BY <1>1, <2>7, <2>8 DEF HandlesInv
  <2> QED  BY <1>1, <1>2, <1>4, <2>6, <2>7, <2>9, BuilderComes
<1> QED  BY <1>3, <1>4 DEF SysExec

\* A build that fails for want of frames closes it,
LEMMA AllocateHandles ==
  ASSUME BuildInv, HandlesInv, NEW p \in Procs, AllocatePage(p)
  PROVE  HandlesInv'
<1> DEFINE c == call[p].child
<1>1. /\ ProgramTypeOK /\ call \in [Procs -> Calls] /\ state \in [Procs -> States]
      /\ state[p] = "kernel" /\ call[p].at = "alloc" /\ call[p].op = "Exec" /\ openFiles' = openFiles
  BY DEF BuildInv, ProgramTypeOK, ControlTypes, AllocatePage, At
<1>2. Building(p)
  BY <1>1 DEF Building
<1>3. c \in Procs /\ state[c] = "loading"
  BY <1>1, <1>2 DEF Calls, BuildInv, ChildrenLoading
<1>4. CASE /\ state' = [state EXCEPT ![c] = "none"] /\ handles' = handles - 1
           /\ Finish(p, Failed)
  <2>1. Failed \in Nat
    BY ProgramAssumption DEF Failed
  <2>2. call'[p].at = "return" /\ \A q \in Procs \ {p} : call'[q] = call[q]
    BY <1>1, <1>4, <2>1, FinishCall
  <2>3. ~Building(p)'
    BY <2>2 DEF Building
  <2>4. \A q \in Procs \ {p} : Building(q)' <=> Building(q)
    BY <2>2, OthersBuild
  <2> HIDE DEF c
  <2>5. \A q \in Procs : state[q] = "kernel" => state'[q] = "kernel"
    BY <1>1, <1>3, <1>4
  <2>6. \A q \in Procs : Building(q)' => state'[q] = "kernel"
    BY <2>3, <2>4, <2>5 DEF HandlesInv
  <2> QED  BY <1>1, <1>2, <1>4, <2>3, <2>4, <2>6, BuilderGoes
<1>5. CASE UNCHANGED <<state, handles>> /\ (UNCHANGED call \/ Goto(p, "wait to load"))
  <2>1. \A q \in Procs : Building(q)' <=> Building(q)
    <3>1. CASE UNCHANGED call
      BY <3>1 DEF Building
    <3>2. CASE Goto(p, "wait to load")
      <4>1. "wait to load" \in Places
        BY DEF Places
      <4>2. /\ call'[p].at = "wait to load" /\ call'[p].op = call[p].op
            /\ \A q \in Procs \ {p} : call'[q] = call[q]
        BY <1>1, <3>2, <4>1, GotoCall
      <4>3. Building(p)'
        BY <1>1, <4>2 DEF Building
      <4>4. \A q \in Procs \ {p} : Building(q)' <=> Building(q)
        BY <4>2, OthersBuild
      <4> QED  BY <1>2, <4>3, <4>4
    <3> QED  BY <1>5, <3>1, <3>2
  <2> QED  BY <1>1, <1>5, <2>1, KeepHandles DEF HandlesInv, fileVars
<1> QED
  <2>1. \/ state' = [state EXCEPT ![c] = "none"] /\ handles' = handles - 1 /\ Finish(p, Failed)
        \/ UNCHANGED <<state, handles>> /\ (UNCHANGED call \/ Goto(p, "wait to load"))
    BY Zenon DEF AllocatePage
  <2> QED  BY <1>4, <1>5, <2>1

\* and so does one that goes well.
LEMMA LoadHandles ==
  ASSUME BuildInv, HandlesInv, NEW p \in Procs, LoadPages(p)
  PROVE  HandlesInv'
<1> DEFINE c == call[p].child
<1>1. /\ ProgramTypeOK /\ call \in [Procs -> Calls] /\ state \in [Procs -> States]
      /\ call[p].at = "load" /\ call[p].op = "Exec" /\ openFiles' = openFiles /\ handles' = handles - 1
  BY DEF BuildInv, ProgramTypeOK, ControlTypes, LoadPages, At
<1>2. Building(p)
  BY <1>1 DEF Building
<1>3. c \in Procs /\ state[c] = "loading" /\ state' = [state EXCEPT ![c] = "born"]
  BY <1>1, <1>2 DEF Calls, BuildInv, ChildrenLoading, LoadPages
<1>4. Finish(p, 2)
  BY DEF LoadPages
<1>5. call'[p].at = "return" /\ \A q \in Procs \ {p} : call'[q] = call[q]
  BY <1>1, <1>4, FinishCall
<1>6. ~Building(p)'
  BY <1>5 DEF Building
<1>7. \A q \in Procs \ {p} : Building(q)' <=> Building(q)
  BY <1>5, OthersBuild
<1> HIDE DEF c
<1>8. \A q \in Procs : state[q] = "kernel" => state'[q] = "kernel"
  BY <1>1, <1>3
<1>9. \A q \in Procs : Building(q)' => state'[q] = "kernel"
  BY <1>6, <1>7, <1>8 DEF HandlesInv
<1> QED  BY <1>1, <1>2, <1>6, <1>7, <1>9, BuilderGoes

\* Returning from a call opens and closes nothing.
LEMMA ReturnHandles ==
  ASSUME BuildInv, HandlesInv, NEW p \in Procs, Return(p)
  PROVE  HandlesInv'
<1>1. /\ call \in [Procs -> Calls] /\ state \in [Procs -> States] /\ call[p].at = "return" /\ UNCHANGED fileVars
      /\ state' = [state EXCEPT ![p] = "user"] /\ call' = [call EXCEPT ![p] = NoCall]
  BY DEF BuildInv, ProgramTypeOK, ControlTypes, Return
<1>2. NoCall.op = "none"
  BY DEF NoCall
<1>3. call'[p].op = "none" /\ \A q \in Procs \ {p} : call'[q] = call[q] /\ state'[q] = state[q]
  BY <1>1, <1>2
<1>4. ~Building(p) /\ ~Building(p)'
  BY <1>1, <1>3 DEF Building
<1>5. \A q \in Procs \ {p} : Building(q)' <=> Building(q)
  BY <1>3, OthersBuild
<1> QED  BY <1>1, <1>3, <1>4, <1>5, KeepHandles DEF HandlesInv

\* The files that an exiting process has open, each at its slot, are as many as the slots.
LEMMA OpenOfProcess ==
  ASSUME NEW p, NEW open \in SUBSET Slots
  PROVE  /\ IsFiniteSet({<<p, n>> : n \in open})
         /\ Cardinality({<<p, n>> : n \in open}) = Cardinality(open)
<1> DEFINE pairs == {<<p, n>> : n \in open}
           f == [n \in open |-> <<p, n>>]
<1>1. IsFiniteSet(open)
  <2>1. IsFiniteSet(Slots)
    BY FS_Interval, ProgramAssumption DEF Slots
  <2> QED  BY <2>1, FS_Subset
<1>2. f \in [open -> pairs]
  OBVIOUS
<1>3. \A m, n \in open : f[m] = f[n] => m = n
  OBVIOUS
<1>4. \A x \in pairs : \E n \in open : f[n] = x
  OBVIOUS
<1> HIDE DEF f, pairs
<1>5. f \in Bijection(open, pairs)
  <2>1. f \in Injection(open, pairs)
    BY <1>2, <1>3 DEF Injection, IsInjective
  <2>2. f \in Surjection(open, pairs)
    BY <1>2, <1>4 DEF Surjection
  <2> QED  BY <2>1, <2>2 DEF Bijection
<1>6. ExistsBijection(open, pairs)
  BY <1>5 DEF ExistsBijection
<1>7. IsFiniteSet(pairs) /\ Cardinality(pairs) = Cardinality(open)
  BY <1>1, <1>6, FS_Bijection
<1> QED  BY <1>7 DEF pairs

\* The destructor closes what the process has left open.
LEMMA TerminatorHandles ==
  ASSUME BuildInv, HandlesInv, NEW p \in Procs, Terminator(p)
  PROVE  HandlesInv'
<1>1. /\ MemoryTypes /\ state \in [Procs -> States] /\ UNCHANGED call /\ call[p].op = "Exit"
  BY DEF BuildInv, ProgramTypeOK, ControlTypes, Terminator, At
<1>2. ~Building(p) /\ \A q \in Procs : Building(q)' <=> Building(q)
  BY <1>1 DEF Building
<1>3. CASE pageTable[p] # <<>>
  <2>1. UNCHANGED <<state, openFiles, handles>>
    BY <1>3 DEF Terminator
  <2> QED  BY <1>2, <2>1, KeepHandles DEF HandlesInv, fileVars
<1>4. CASE pageTable[p] = <<>>
  <2> DEFINE open == {n \in Slots : openFiles[p][n] # NoFile}
             pairs == {<<p, n>> : n \in open}
  <2>1. /\ openFiles' = [openFiles EXCEPT ![p] = [n \in Slots |-> NoFile]]
        /\ handles' = handles - Cardinality(open)
        /\ state' = [state EXCEPT ![p] = "done"]
    BY <1>4 DEF Terminator
  <2>2. open \in SUBSET Slots
    OBVIOUS
  <2>3. IsFiniteSet(pairs) /\ Cardinality(pairs) = Cardinality(open)
    <3> HIDE DEF open
    <3> QED  BY <2>2, OpenOfProcess
  <2>4. \A q \in Procs : \A n \in Slots : openFiles'[q][n] = IF q = p THEN NoFile ELSE openFiles[q][n]
    BY <1>1, <2>1 DEF MemoryTypes
  <2>5. pairs \subseteq OpenSlots
    BY DEF OpenSlots
  <2>6. OpenSlots' = OpenSlots \ pairs
    BY <2>4 DEF OpenSlots
  <2>7. \A q \in Procs \ {p} : state'[q] = state[q]
    BY <1>1, <2>1
  <2>8. \A q \in Procs : Building(q)' => state'[q] = "kernel"
    BY <1>2, <2>7 DEF HandlesInv
  <2>9. Builders' = Builders
    BY <1>2 DEF Builders
  <2> HIDE DEF pairs, open
  <2>10. IsFiniteSet(OpenSlots) /\ IsFiniteSet(Builders) /\ handles = Cardinality(OpenSlots) + Cardinality(Builders)
    BY DEF HandlesInv
  <2>11. /\ IsFiniteSet(OpenSlots \ pairs)
         /\ Cardinality(OpenSlots \ pairs) = Cardinality(OpenSlots) - Cardinality(OpenSlots \cap pairs)
    BY <2>10, FS_Difference
  <2>12. OpenSlots \cap pairs = pairs
    BY <2>5
  <2>13. /\ Cardinality(OpenSlots) \in Nat /\ Cardinality(Builders) \in Nat /\ Cardinality(open) \in Nat
    BY <2>3, <2>10, FS_CardinalityType
  <2>14. Cardinality(OpenSlots \ pairs) = Cardinality(OpenSlots) - Cardinality(open)
    BY <2>3, <2>11, <2>12
  <2>15. handles' = Cardinality(OpenSlots \ pairs) + Cardinality(Builders)
    BY <2>1, <2>10, <2>13, <2>14
  <2> QED  BY <2>6, <2>8, <2>9, <2>10, <2>11, <2>15 DEF HandlesInv
<1> QED  BY <1>3, <1>4

\* No OpenFile object is lost, and none deleted twice: those alive are the ones that a file
\* id stands for and the program files being loaded, for any number of processes and of
\* slots (SysOpen, SysClose, SysExec, Terminator).
THEOREM HandlesAreExact == ProgramSpec => []HandlesExact
<1>1. BuildInv /\ HandlesInv /\ [ProgramNext]_programVars => HandlesInv'
  <2>1. ASSUME BuildInv, HandlesInv, UNCHANGED programVars
        PROVE  HandlesInv'
    BY <2>1, KeepHandles DEF programVars, registersVars, Building, HandlesInv
  <2>2. ASSUME BuildInv, HandlesInv, NEW p \in Procs, ProgramStep(p)
        PROVE  HandlesInv'
    BY <2>2, InstructionHandles, RunHandles, OtherCallHandles, SysExecHandles, AllocateHandles, LoadHandles,
       TerminatorHandles, ReturnHandles DEF ProgramStep, OtherCall
  <2> QED  BY <2>1, <2>2 DEF ProgramNext
<1>2. HandlesInv => HandlesExact
  BY DEF HandlesInv, HandlesExact, OpenSlots, Builders, Building
<1> QED  BY <1>1, <1>2, InitBuildInv, NextBuild, InitHandles, PTL DEF ProgramSpec
=============================================================================

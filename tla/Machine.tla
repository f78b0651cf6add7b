------------------------------ MODULE Machine ------------------------------
(***************************************************************************)
(* The simulated MIPS machine (mipssim.cpp, mipssim.h, machine.cpp): what  *)
(* an instruction does to the registers and, through the page table, to    *)
(* memory, and what is left of it when it ends in an exception.  A program *)
(* is any sequence of instruction words, which are given by their fields.  *)
(* A byte has ByteBits bits and everything scales with it: 8 on the real   *)
(* machine, whose words are integers modulo 2^32.                          *)
(***************************************************************************)
EXTENDS Integers, Sequences

CONSTANTS ByteBits, NumGPRegs,
          PageSize, NumPhysPages,
          PageTable,        \* the table the kernel has loaded: <<[valid, readOnly, physicalPage]...>>
          Operands, Immediates, Fields, Destinations,   \* the operands and fields tried
          Codes             \* the values tried for op and funct

ASSUME MachineAssumption ==
  /\ ByteBits \in Nat \ {0, 1} /\ NumGPRegs \in Nat \ 0 .. 2
  /\ PageSize \in Nat \ {0} /\ PageSize % 4 = 0 /\ NumPhysPages \in Nat
  /\ PageTable \in Seq([valid : BOOLEAN, readOnly : BOOLEAN, physicalPage : Nat])
  /\ Operands \subseteq 0 .. 2^(4 * ByteBits) - 1 /\ Immediates \subseteq Nat
  /\ Destinations \subseteq 0 .. NumGPRegs - 1 /\ Codes \subseteq 0 .. 63

VARIABLES
  registers, mainMemory,
  instr,      \* the instruction executed last
  exception   \* the exception it raised, or NoException

machVars == <<registers, mainMemory, instr, exception>>

HiReg == NumGPRegs
LoReg == NumGPRegs + 1
PCReg == NumGPRegs + 2
NextPCReg == NumGPRegs + 3
PrevPCReg == NumGPRegs + 4
LoadReg == NumGPRegs + 5
LoadValueReg == NumGPRegs + 6
BadVAddrReg == NumGPRegs + 7
NumTotalRegs == NumGPRegs + 8
R31 == NumGPRegs - 1

WordBits == 4 * ByteBits
Word(n) == n % 2^WordBits
Bytes(n) == 2^(n * ByteBits)      \* what n bytes count up to
Half == Bytes(2)
Byte == Bytes(1)
SignBit == 2^(WordBits - 1)
Negative(w) == w >= SignBit
Signed(w) == IF Negative(w) THEN w - 2^WordBits ELSE w

\* Values with a sign bit of their own, extended to a word.
Extend(v, width) == IF v >= width \div 2 THEN Word(v - width) ELSE v

-----------------------------------------------------------------------------
(***************************************************************************)
(* Decode.                                                                 *)
(***************************************************************************)

\* opTable: the operations of op 0 to 63.  All have an immediate but SPECIAL and the jumps.
opTable ==
  <<"SPECIAL", "BCOND", "J", "JAL", "BEQ", "BNE", "BLEZ", "BGTZ",
    "ADDI", "ADDIU", "SLTI", "SLTIU", "ANDI", "ORI", "XORI", "LUI">>
  \o [n \in 1 .. 4 |-> "UNIMP"] \o [n \in 1 .. 12 |-> "RES"]
  \o <<"LB", "LH", "LWL", "LW", "LBU", "LHU", "LWR", "RES",
       "SB", "SH", "SWL", "SW", "RES", "RES", "SWR", "RES">>
  \o [n \in 1 .. 16 |-> IF (n - 1) \div 4 \in {0, 2} THEN "UNIMP" ELSE "RES"]

\* specialTable: the operations of funct 0 to 63.
specialTable ==
  <<"SLL", "RES", "SRL", "SRA", "SLLV", "RES", "SRLV", "SRAV",
    "JR", "JALR", "RES", "RES", "SYSCALL", "UNIMP", "RES", "RES",
    "MFHI", "MTHI", "MFLO", "MTLO", "RES", "RES", "RES", "RES",
    "MULT", "MULTU", "DIV", "DIVU", "RES", "RES", "RES", "RES",
    "ADD", "ADDU", "SUB", "SUBU", "AND", "OR", "XOR", "NOR",
    "RES", "RES", "SLT", "SLTU">> \o [n \in 1 .. 20 |-> "RES"]

BranchCondition(rt) ==
  CASE rt = 0 -> "BLTZ" [] rt = 1 -> "BGEZ" [] rt = 16 -> "BLTZAL" [] rt = 17 -> "BGEZAL" [] OTHER -> "UNIMP"

\* rt of a BCOND is a condition, which is not scaled down with the registers.
Decode(w) ==
  LET op == opTable[w.op + 1]
  IN [op |-> CASE op = "SPECIAL" -> specialTable[w.funct + 1]
               [] op = "BCOND" -> BranchCondition(w.rt)
               [] OTHER -> op,
      rs |-> w.rs, rt |-> w.rt, rd |-> w.rd,
      extra |-> CASE op = "SPECIAL" -> w.imm % WordBits
                  [] op \in {"J", "JAL"} -> w.imm % 2^(WordBits - 6)
                  [] OTHER -> Extend(w.imm % Half, Half)]

\* The operations that OneInstruction has a case for; the default asserts.
Handled ==
  {"ADD", "ADDI", "ADDIU", "ADDU", "AND", "ANDI", "BEQ", "BGEZ", "BGEZAL", "BGTZ", "BLEZ", "BLTZ",
   "BLTZAL", "BNE", "DIV", "DIVU", "J", "JAL", "JALR", "JR", "LB", "LBU", "LH", "LHU", "LUI", "LW",
   "LWL", "LWR", "MFHI", "MFLO", "MTHI", "MTLO", "MULT", "MULTU", "NOR", "OR", "ORI", "RES", "SB",
   "SH", "SLL", "SLLV", "SLT", "SLTI", "SLTIU", "SLTU", "SRA", "SRAV", "SRL", "SRLV", "SUB", "SUBU",
   "SW", "SWL", "SWR", "SYSCALL", "UNIMP", "XOR", "XORI"}

-----------------------------------------------------------------------------
(***************************************************************************)
(* Arithmetic.                                                             *)
(***************************************************************************)

\* C's division rounds towards zero, and the remainder has the dividend's sign.
Quotient(a, b) ==
  LET q == (IF a < 0 THEN -a ELSE a) \div (IF b < 0 THEN -b ELSE b)
  IN IF (a < 0) = (b < 0) THEN q ELSE -q
Remainder(a, b) == a - b * Quotient(a, b)

ShiftRight(w, n) == Word(Signed(w) \div 2^n)

Negate(w) == Word(-w)

\* A word by the positions of its ones, on which the logical operations are those of sets.
Ones(w) == {n \in 0 .. WordBits - 1 : (w \div 2^n) % 2 = 1}
Number(ones) ==
  LET sum[n \in 0 .. WordBits] ==
        IF n = 0 THEN 0 ELSE sum[n - 1] + (IF n - 1 \in ones THEN 2^(n - 1) ELSE 0)
  IN sum[WordBits]

\* Mutation: the carry out of the low word is lost.
MultStepNoCarry(m) ==
  [lo |-> IF m.a % 2 = 1 THEN Word(m.lo + m.bLo) ELSE m.lo,
   hi |-> IF m.a % 2 = 1 THEN Word(m.hi + m.bHi) ELSE m.hi,
   bHi |-> Word(2 * m.bHi) + (IF Negative(m.bLo) THEN 1 ELSE 0),
   bLo |-> Word(2 * m.bLo),
   a |-> ShiftRight(m.a, 1)]

\* One turn of Mult's loop: add b, shifted, to the result if a's lowest bit is set.
MultStep(m) ==
  LET lo == Word(m.lo + m.bLo)
      hi == Word(m.hi + (IF lo < m.bLo THEN 1 ELSE 0) + m.bHi)
  IN [lo |-> IF m.a % 2 = 1 THEN lo ELSE m.lo,
      hi |-> IF m.a % 2 = 1 THEN hi ELSE m.hi,
      bHi |-> Word(2 * m.bHi) + (IF Negative(m.bLo) THEN 1 ELSE 0),
      bLo |-> Word(2 * m.bLo),
      a |-> ShiftRight(m.a, 1)]

Turns(start) ==
  LET turn[n \in 0 .. WordBits] == IF n = 0 THEN start ELSE MultStep(turn[n - 1])
  IN turn

Mult(a, b, signedArith) ==
  LET negative == signedArith /\ Negative(a) # Negative(b)
      Magnitude(w) == IF signedArith /\ Negative(w) THEN Negate(w) ELSE w
      start == [lo |-> 0, hi |-> 0, bLo |-> Magnitude(b), bHi |-> 0, a |-> Magnitude(a)]
      end == Turns(start)[WordBits]
      lo == Negate(end.lo)
      hi == Word(2^WordBits - 1 - end.hi + (IF lo = 0 THEN 1 ELSE 0))
  IN IF a = 0 \/ b = 0 THEN [hi |-> 0, lo |-> 0]
     ELSE IF negative THEN [hi |-> hi, lo |-> lo] ELSE [hi |-> end.hi, lo |-> end.lo]

\* A register with what is written into it; one such function laid over another.
Write(r, value) == [n \in {r} |-> value]
f ++ g == [n \in DOMAIN f \cup DOMAIN g |-> IF n \in DOMAIN f THEN f[n] ELSE g[n]]

HiLo(hi, lo) == Write(HiReg, hi) ++ Write(LoReg, lo)
DivResult(a, b) ==
  IF b = 0 THEN HiLo(0, 0) ELSE HiLo(Word(Remainder(a, b)), Word(Quotient(a, b)))
MultResult(p) == HiLo(p.hi, p.lo)

SameSign(a, b) == Negative(a) = Negative(b)

\* The test for overflow, by signs.
Overflows(i) ==
  LET a == registers[i.rs]
      b == IF i.op = "ADDI" THEN i.extra ELSE registers[i.rt]
  IN \/ i.op \in {"ADD", "ADDI"} /\ SameSign(a, b) /\ ~SameSign(b, Word(a + b))
     \/ i.op = "SUB" /\ ~SameSign(a, b) /\ ~SameSign(a, Word(a - b))

\* What the operations, other than the loads, write into the registers: by kind, and
\* nothing for one of another kind.
Sum(i) ==
  LET a == registers[i.rs]
      b == registers[i.rt]
  IN CASE i.op \in {"ADD", "ADDU"} -> Write(i.rd, Word(a + b))
       [] i.op \in {"ADDI", "ADDIU"} -> Write(i.rt, Word(a + i.extra))
       [] i.op \in {"SUB", "SUBU"} -> Write(i.rd, Word(a - b))
       [] OTHER -> <<>>

Logical(i) ==
  LET a == Ones(registers[i.rs])
      b == Ones(registers[i.rt])
      x == Ones(i.extra % Half)
  IN CASE i.op = "AND" -> Write(i.rd, Number(a \cap b))
       [] i.op = "ANDI" -> Write(i.rt, Number(a \cap x))
       [] i.op = "OR" -> Write(i.rd, Number(a \cup b))
       [] i.op = "ORI" -> Write(i.rt, Number(a \cup x))
       [] i.op = "XOR" -> Write(i.rd, Number((a \ b) \cup (b \ a)))
       [] i.op = "XORI" -> Write(i.rt, Number((a \ x) \cup (x \ a)))
       [] i.op = "NOR" -> Write(i.rd, 2^WordBits - 1 - Number(a \cup b))
       [] i.op = "LUI" -> Write(i.rt, Word(i.extra * Half))
       [] OTHER -> <<>>

Compared(i) ==
  LET a == registers[i.rs]
      b == registers[i.rt]
      Set(cond) == IF cond THEN 1 ELSE 0
  IN CASE i.op = "SLT" -> Write(i.rd, Set(Signed(a) < Signed(b)))
       [] i.op = "SLTI" -> Write(i.rt, Set(Signed(a) < Signed(i.extra)))
       [] i.op = "SLTU" -> Write(i.rd, Set(a < b))
       [] i.op = "SLTIU" -> Write(i.rt, Set(a < i.extra))
       [] OTHER -> <<>>

\* SRL shifts an int, and so does what SRA does.
Shifted(i) ==
  LET a == registers[i.rs] % WordBits
      b == registers[i.rt]
  IN CASE i.op = "SLL" -> Write(i.rd, Word(b * 2^i.extra))
       [] i.op = "SLLV" -> Write(i.rd, Word(b * 2^a))
       [] i.op \in {"SRA", "SRL"} -> Write(i.rd, ShiftRight(b, i.extra))
       [] i.op \in {"SRAV", "SRLV"} -> Write(i.rd, ShiftRight(b, a))
       [] OTHER -> <<>>

Moved(i) ==
  CASE i.op = "MFHI" -> Write(i.rd, registers[HiReg])
    [] i.op = "MFLO" -> Write(i.rd, registers[LoReg])
    [] i.op = "MTHI" -> Write(HiReg, registers[i.rs])
    [] i.op = "MTLO" -> Write(LoReg, registers[i.rs])
    [] OTHER -> <<>>

Product(i) ==
  LET a == registers[i.rs]
      b == registers[i.rt]
  IN CASE i.op = "MULT" -> MultResult(Mult(a, b, TRUE))
       [] i.op = "MULTU" -> MultResult(Mult(a, b, FALSE))
       [] i.op = "DIV" -> DivResult(Signed(a), Signed(b))
       [] i.op = "DIVU" -> DivResult(a, b)
       [] OTHER -> <<>>

Linked(i) ==
  LET link == Word(registers[NextPCReg] + 4)
  IN CASE i.op \in {"JAL", "BGEZAL", "BLTZAL"} -> Write(R31, link)
       [] i.op = "JALR" -> Write(i.rd, link)
       [] OTHER -> <<>>

Result(i) ==
  Sum(i) ++ Logical(i) ++ Compared(i) ++ Shifted(i) ++ Moved(i) ++ Product(i) ++ Linked(i)

Taken(i, regs) ==
  LET a == regs[i.rs]
  IN CASE i.op = "BEQ" -> a = regs[i.rt]
       [] i.op = "BNE" -> a # regs[i.rt]
       [] i.op \in {"BGEZ", "BGEZAL"} -> ~Negative(a)
       [] i.op \in {"BLTZ", "BLTZAL"} -> Negative(a)
       [] i.op = "BGTZ" -> Signed(a) > 0
       [] i.op = "BLEZ" -> Signed(a) <= 0
       [] OTHER -> FALSE

\* The pc after the next, with the registers that the instruction has left: it links
\* before it tests or jumps.
PcAfter(i, regs) ==
  LET after == Word(regs[NextPCReg] + 4)
      page == 2^(WordBits - 4)
  IN CASE i.op \in {"J", "JAL"} -> (after \div page) * page + 4 * i.extra
       [] i.op \in {"JR", "JALR"} -> regs[i.rs]
       [] Taken(i, regs) -> Word(regs[NextPCReg] + 4 * i.extra)
       [] OTHER -> after

-----------------------------------------------------------------------------
(***************************************************************************)
(* Memory.                                                                 *)
(***************************************************************************)

Fault(kind) == [exception |-> kind, address |-> 0]

\* Mutation: a page is read-only to fetches only.
TranslateWritable(vaddr, size, writing) ==
  LET entry == PageTable[(vaddr \div PageSize) + 1]
  IN IF vaddr % size # 0 \/ vaddr \div PageSize >= Len(PageTable) THEN Fault("AddressError")
     ELSE IF ~entry.valid THEN Fault("PageFault")
     ELSE IF entry.physicalPage >= NumPhysPages THEN Fault("BusError")
     ELSE [exception |-> "NoException", address |-> entry.physicalPage * PageSize + (vaddr % PageSize)]

\* Machine::Translate, by the page table: there is no TLB.  The use and dirty bits it
\* sets are read by nobody.
Translate(vaddr, size, writing) ==
  LET vpn == vaddr \div PageSize
      entry == PageTable[vpn + 1]
  IN IF vaddr % size # 0 THEN Fault("AddressError")
     ELSE IF vpn >= Len(PageTable) THEN Fault("AddressError")
     ELSE IF ~entry.valid THEN Fault("PageFault")
     ELSE IF entry.readOnly /\ writing THEN Fault("ReadOnly")
     ELSE IF entry.physicalPage >= NumPhysPages THEN Fault("BusError")
     ELSE [exception |-> "NoException", address |-> entry.physicalPage * PageSize + (vaddr % PageSize)]

\* The value of size bytes of physical memory, the lowest byte first.
Fetch(memory, address, size) ==
  LET sum[n \in 0 .. size] == IF n = 0 THEN 0 ELSE memory[address + size - n] + Byte * sum[n - 1]
  IN sum[size]

Store(address, size, value) ==
  [m \in DOMAIN mainMemory |-> IF m \in address .. address + size - 1
                               THEN (value \div Bytes(m - address)) % Byte ELSE mainMemory[m]]

Size(op) == CASE op \in {"LB", "LBU", "SB"} -> 1 [] op \in {"LH", "LHU", "SH"} -> 2 [] OTHER -> 4

Loads == {"LB", "LBU", "LH", "LHU", "LW", "LWL", "LWR"}
Stores == {"SB", "SH", "SW", "SWL", "SWR"}

\* What the register will get, one instruction later.  LWR of an aligned word takes its
\* top byte and keeps the rest of what a pending load, or the register, holds.
Loaded(i, value) ==
  LET old == IF registers[LoadReg] = i.rt THEN registers[LoadValueReg] ELSE registers[i.rt]
  IN CASE i.op = "LB" -> Extend(value, Byte)
       [] i.op = "LH" -> Extend(value, Half)
       [] i.op = "LWR" -> (old \div Byte) * Byte + value \div Bytes(3)
       [] OTHER -> value

\* SWR of an aligned word writes its top byte only.
Stored(i, value) ==
  LET b == registers[i.rt]
  IN IF i.op = "SWR" THEN (value % Bytes(3)) + (b % Byte) * Bytes(3) ELSE b % Bytes(Size(i.op))

-----------------------------------------------------------------------------
(***************************************************************************)
(* The steps.                                                              *)
(***************************************************************************)

\* Mutation: the load pending is dropped.
DelayedLoadDropped(regs, nextReg, nextValue) ==
  [regs EXCEPT ![LoadReg] = nextReg, ![LoadValueReg] = nextValue, ![0] = 0]

\* DelayedLoad: the load before last arrives, and R0 is zero again.
DelayedLoad(regs, nextReg, nextValue) ==
  [regs EXCEPT ![regs[LoadReg]] = regs[LoadValueReg],
               ![LoadReg] = nextReg, ![LoadValueReg] = nextValue, ![0] = 0]

\* RaiseException, up to and from the kernel's ExceptionHandler.
RaiseException(which, badVAddr) ==
  /\ exception' = which
  /\ registers' = DelayedLoad([registers EXCEPT ![BadVAddrReg] = badVAddr], 0, 0)
  /\ UNCHANGED mainMemory

Advance(regs, i, nextReg, nextValue) ==
  LET done == DelayedLoad(regs, nextReg, nextValue)
  IN /\ exception' = "NoException"
     /\ registers' = [done EXCEPT ![PrevPCReg] = done[PCReg], ![PCReg] = done[NextPCReg],
                                  ![NextPCReg] = PcAfter(i, regs)]

Execute(i) ==
  /\ i.op \notin Loads \cup Stores
  /\ IF i.op = "SYSCALL" THEN RaiseException("Syscall", 0)
     ELSE IF i.op \in {"RES", "UNIMP"} THEN RaiseException("IllegalInstr", 0)
     ELSE IF Overflows(i) THEN RaiseException("Overflow", 0)
     ELSE Advance(Result(i) ++ registers, i, 0, 0) /\ UNCHANGED mainMemory

Address(i) == Word(registers[i.rs] + i.extra)

\* An unaligned LWL, LWR, SWL or SWR fails an assertion and stops Nachos.
Aligned(i) == i.op \in {"LWL", "LWR", "SWL", "SWR"} => Address(i) % 4 = 0

Load(i) ==
  LET t == Translate(Address(i), Size(i.op), FALSE)
  IN /\ i.op \in Loads /\ Aligned(i)
     /\ IF t.exception # "NoException" THEN RaiseException(t.exception, Address(i))
        ELSE /\ Advance(registers, i, i.rt, Loaded(i, Fetch(mainMemory, t.address, Size(i.op))))
             /\ UNCHANGED mainMemory

\* SWL and SWR read the word before they write it.
StoreStep(i) ==
  LET t == Translate(Address(i), Size(i.op), TRUE)
  IN /\ i.op \in Stores /\ Aligned(i)
     /\ IF t.exception # "NoException" THEN RaiseException(t.exception, Address(i))
        ELSE /\ Advance(registers, i, 0, 0)
             /\ mainMemory' = Store(t.address, Size(i.op), Stored(i, Fetch(mainMemory, t.address, Size(i.op))))

\* The host traps on the one quotient that is no word: DIV of the smallest by -1.
HostTraps(i) == i.op = "DIV" /\ registers[i.rs] = SignBit /\ registers[i.rt] = 2^WordBits - 1

NoInstr == [op |-> "none", rs |-> 0, rt |-> 0, rd |-> 0, extra |-> 0]

OneInstruction(w) ==
  LET t == Translate(registers[PCReg], 4, FALSE)
      i == Decode(w)
  IN IF t.exception # "NoException"
     THEN RaiseException(t.exception, registers[PCReg]) /\ instr' = NoInstr
     ELSE ~HostTraps(i) /\ (Execute(i) \/ Load(i) \/ StoreStep(i)) /\ instr' = i

\* A program that begins, or goes on with what its earlier instructions have left.
MachInit ==
  /\ \E a, b \in Operands, pc \in {0, 16}, load \in {0, 2} :
       registers = [r \in 0 .. NumTotalRegs - 1 |->
         CASE r = 1 -> a [] r = 2 -> b [] r = HiReg -> 3 [] r = LoReg -> 5
           [] r = PCReg -> pc [] r = NextPCReg -> pc + 4
           [] r = LoadReg -> load [] r = LoadValueReg -> IF load = 0 THEN 0 ELSE 7 [] OTHER -> 0]
  /\ mainMemory = [m \in 0 .. NumPhysPages * PageSize - 1 |-> (m + m \div 4) % Byte]
  /\ instr = NoInstr /\ exception = "NoException"

\* The instruction words tried: rt of a BCOND is any field, funct and rd are SPECIAL's.
Words ==
  [op : {0}, funct : Codes, rs : {1}, rt : Destinations, rd : Destinations, imm : Immediates]
  \cup [op : {1}, funct : {0}, rs : {1}, rt : Fields, rd : {0}, imm : Immediates]
  \cup [op : Codes \ {0, 1}, funct : {0}, rs : {1}, rt : Destinations, rd : {0}, imm : Immediates]

MachNext == \E w \in Words : OneInstruction(w)

MachSpec == MachInit /\ [][MachNext]_machVars

-----------------------------------------------------------------------------
(***************************************************************************)
(* Properties.                                                             *)
(***************************************************************************)

\* The arithmetic that goes round by signs, carries and shifted sums is that of the
\* integers: ADD, ADDI and SUB raise Overflow exactly when the sum is no word, MULT and
\* MULTU give the double-length product, and DIV and DIVU leave a remainder with the
\* dividend's sign that is smaller than the divisor.
ArithmeticExact ==
  [][LET i == instr'
         a == registers[i.rs]
         b == IF i.op = "ADDI" THEN i.extra ELSE registers[i.rt]
         sum == IF i.op = "SUB" THEN Signed(a) - Signed(b) ELSE Signed(a) + Signed(b)
         hi == registers'[HiReg]
         lo == registers'[LoReg]
         Abs(n) == IF n < 0 THEN -n ELSE n
     IN i # NoInstr =>
          /\ i.op \in {"ADD", "ADDI", "SUB"} =>
               (exception' = "Overflow") = (sum \notin -SignBit .. SignBit - 1)
          /\ i.op = "MULT" => Signed(hi) * 2^WordBits + lo = Signed(a) * Signed(b)
          /\ i.op = "MULTU" => hi * 2^WordBits + lo = a * b
          /\ i.op = "DIVU" /\ b # 0 => hi < b /\ lo * b + hi = a
          /\ i.op = "DIV" /\ b # 0 => /\ Signed(lo) * Signed(b) + Signed(hi) = Signed(a)
                                      /\ Abs(Signed(hi)) < Abs(Signed(b))
                                      /\ Signed(hi) * Signed(a) >= 0]_machVars

\* An instruction that ends in an exception can be executed again: it has changed no
\* memory and no register, but for the load that was pending and has now arrived.  And
\* a pending load arrives under every instruction, R0 being zero again.  No word decodes to
\* an operation that OneInstruction has no case for.
Restartable ==
  [][/\ registers'[0] = 0
     /\ instr' = NoInstr \/ instr'.op \in Handled
     /\ registers[LoadReg] # 0 => registers'[registers[LoadReg]] = registers[LoadValueReg]
     /\ exception' # "NoException" =>
          /\ mainMemory' = mainMemory
          /\ \A r \in 1 .. PrevPCReg : r = registers[LoadReg] \/ registers'[r] = registers[r]]_machVars

\* A store changes the bytes at the address that its program's own page table gives,
\* none of a read-only page, and a word that is stored and loaded again is the same.
StoreExact ==
  [][instr' # NoInstr /\ mainMemory' # mainMemory =>
       LET address == Address(instr')
           frame == PageTable[(address \div PageSize) + 1]
           place == frame.physicalPage * PageSize + (address % PageSize)
       IN /\ ~frame.readOnly
          /\ \A m \in DOMAIN mainMemory : m \notin place .. place + Size(instr'.op) - 1 =>
               mainMemory'[m] = mainMemory[m]
          /\ instr'.op = "SW" => Fetch(mainMemory', place, 4) = registers[instr'.rt]]_machVars
=============================================================================

--------------------------- MODULE DatapathProofs ---------------------------
(***************************************************************************)
(* Theorems about Datapath, for words and register files of every size and *)
(* every program.                                                          *)
(***************************************************************************)
EXTENDS DatapathProps, TLAPS

(* Both modules speak of the same words. *)
LEMMA SameFormat ==
    /\ Manual!Modulus = Modulus /\ Manual!Word = Word
    /\ Manual!Funct3 = Funct3
    /\ Manual!LoadSizes = LoadSizes /\ Manual!StoreSizes = StoreSizes
    /\ \A w : Manual!Signed(w) = Signed(w)
  BY DEF Manual!Modulus, Modulus, Manual!Word, Word, Manual!Funct3, Funct3,
     Manual!LoadSizes, LoadSizes, Manual!StoreSizes, StoreSizes, Manual!Signed, Signed

(* Words are numbers in a range, whose middle is Half. *)
LEMMA WordRange ==
    /\ Half \in Int /\ Half >= 4 /\ Modulus = 2 * Half
    /\ \A w : w \in Word <=> w \in Int /\ 0 <= w /\ w < 2 * Half
  <1>1. Half \in Int /\ Half >= 4
    BY WordAssumption
  <1> QED
    BY <1>1 DEF Word, Modulus

(* Sums and differences of words, cut off. *)
LEMMA Wraps ==
    ASSUME NEW v \in Int, v >= -(2 * Half), v < 4 * Half
    PROVE  Wrap(v) \in Word /\ Manual!IsWordOf(Wrap(v), v)
  <1>1. PICK w : w = Wrap(v)
    OBVIOUS
  <1>2. \/ v >= 2 * Half /\ w = v - 2 * Half
        \/ v < 0 /\ w = v + 2 * Half
        \/ v >= 0 /\ v < 2 * Half /\ w = v
    BY <1>1, WordRange DEF Wrap
  <1>3. w \in Int /\ 0 <= w /\ w < 2 * Half
    BY <1>2, WordRange
  <1>4. w \in Word
    BY <1>3, WordRange
  <1>5. v - w \in {-Modulus, 0, Modulus}
    <2>1. v - w = 2 * Half \/ v - w = -(2 * Half) \/ v - w = 0
      BY <1>2, <1>3, WordRange
    <2>2. Half \in Int /\ Modulus = 2 * Half /\ -Modulus = -(2 * Half)
      BY WordRange
    <2> QED
      BY <2>1, <2>2
  <1> QED
    BY <1>1, <1>4, <1>5, SameFormat DEF Manual!IsWordOf

LEMMA WordFacts ==
    /\ 0 \in Word /\ 1 \in Word /\ 4 \in Word
    /\ \A a, b \in Word : /\ a + b \in Int /\ a - b \in Int
                          /\ a + b >= -(2 * Half) /\ a + b < 4 * Half
                          /\ a - b >= -(2 * Half) /\ a - b < 4 * Half
    /\ \A a \in Word : a % Amount \in Shift
  <1>1. ASSUME NEW a \in Word
        PROVE  a % Amount \in Shift
    <2>1. a \in Int /\ Amount \in Int /\ Amount > 0
      BY WordRange, WordAssumption
    <2> QED
      BY <2>1 DEF Shift
  <1>2. 0 \in Word /\ 1 \in Word /\ 4 \in Word
    BY WordRange
  <1>3. ASSUME NEW a \in Word, NEW b \in Word
        PROVE  /\ a + b \in Int /\ a - b \in Int
               /\ a + b >= -(2 * Half) /\ a + b < 4 * Half
               /\ a - b >= -(2 * Half) /\ a - b < 4 * Half
    BY WordRange
  <1> QED
    BY <1>1, <1>2, <1>3

LEMMA NoInstrType == NoInstr \in Instr
  BY WordAssumption, WordFacts DEF NoInstr, Instr, Opcode, Funct7

(* The operands of an instruction, once its registers are read. *)
LEMMA OperandTypes ==
    ASSUME TypeOK
    PROVE  /\ Src1 \in Word /\ Src2 \in Word
           /\ AdderRes \in Word
           /\ LogicRes \in Word /\ ShifterRes \in Word
  <1>1. Src1 \in Word /\ Src2 \in Word
    BY DEF TypeOK, Instr, Src1, Src2
  <1>2. AdderRes \in Word
    <2>1. AdderSum \in Int /\ AdderSum >= -(2 * Half) /\ AdderSum < 4 * Half
      BY <1>1, WordFacts DEF AdderSum
    <2> QED
      BY <2>1, Wraps DEF AdderRes
  <1>3. LogicRes \in Word
    <2>1. PICK op \in {"XOR", "OR", "AND"} : LogicRes = Bitwise[op][Src1, Src2]
      BY Zenon DEF LogicRes
    <2>2. <<Src1, Src2>> \in Word \X Word /\ Bitwise[op] \in [Word \X Word -> Word]
      BY <1>1, OperatorAssumption
    <2> QED
      BY <2>1, <2>2
  <1>4. ShifterRes \in Word
    <2>1. PICK op \in {"SLL", "SRL", "SRA"} : ShifterRes = Shifted[op][Src1, Src2 % Amount]
      BY Zenon DEF ShifterRes
    <2>2. /\ <<Src1, Src2 % Amount>> \in Word \X Shift
          /\ Shifted[op] \in [Word \X Shift -> Word]
      BY <1>1, WordFacts, OperatorAssumption
    <2> QED
      BY <2>1, <2>2
  <1> QED
    BY <1>1, <1>2, <1>3, <1>4

(***************************************************************************)
(* The flags of a subtraction order its operands, as numbers with a sign   *)
(* and without.                                                            *)
(***************************************************************************)
LEMMA FlagsCompare ==
    ASSUME TypeOK, sub
    PROVE  /\ (AdderRes = 0) <=> (Src1 = Src2)
           /\ Carry <=> (Src1 < Src2)
           /\ ~(IsNegative(AdderRes) <=> Overflow) <=> (Signed(Src1) < Signed(Src2))
  <1>1. Src1 \in Word /\ Src2 \in Word
    BY OperandTypes
  <1>2. AdderSum = Src1 - Src2 /\ AdderRes = Wrap(Src1 - Src2)
    BY DEF AdderSum, AdderRes
  <1>3. PICK a \in Word : a = Src1
    BY <1>1
  <1>4. PICK b \in Word : b = Src2
    BY <1>1
  <1>5. /\ a < b => AdderRes = a - b + 2 * Half
        /\ a >= b => AdderRes = a - b
    BY <1>2, <1>3, <1>4, WordRange DEF Wrap
  <1>6. (AdderRes = 0) <=> (Src1 = Src2)
    BY <1>3, <1>4, <1>5, WordRange
  <1>7. Carry <=> (Src1 < Src2)
    BY <1>2, <1>3, <1>4, WordRange DEF Carry
  <1>8. Overflow <=> /\ ~(IsNegative(a) <=> IsNegative(b))
                     /\ ~(IsNegative(a) <=> IsNegative(AdderRes))
    BY <1>3, <1>4 DEF Overflow
  <1>9. ~(IsNegative(AdderRes) <=> Overflow) <=> (Signed(a) < Signed(b))
    <2>1. CASE a >= Half /\ b >= Half
      BY <1>5, <1>8, <2>1, WordRange DEF IsNegative, Signed
    <2>2. CASE a >= Half /\ ~(b >= Half)
      BY <1>5, <1>8, <2>2, WordRange DEF IsNegative, Signed
    <2>3. CASE ~(a >= Half) /\ b >= Half
      BY <1>5, <1>8, <2>3, WordRange DEF IsNegative, Signed
    <2>4. CASE ~(a >= Half) /\ ~(b >= Half)
      BY <1>5, <1>8, <2>4, WordRange DEF IsNegative, Signed
    <2> QED
      BY <2>1, <2>2, <2>3, <2>4
  <1> QED
    BY <1>3, <1>4, <1>6, <1>7, <1>9

-----------------------------------------------------------------------------
LEMMA Funct3Values ==
    /\ Funct3.ADD = 0 /\ Funct3.SLL = 1 /\ Funct3.SLT = 2 /\ Funct3.SLTU = 3
    /\ Funct3.XOR = 4 /\ Funct3.SRL = 5 /\ Funct3.OR = 6 /\ Funct3.AND = 7
    /\ Funct3.BEQ = 0 /\ Funct3.BNE = 1 /\ Funct3.BLT = 4 /\ Funct3.BGE = 5
    /\ Funct3.BLTU = 6 /\ Funct3.BGEU = 7 /\ Funct3.PRIV = 0 /\ Funct3.JALR = 0
  BY DEF Funct3

(* What the decoder selects, or passes as an instruction that does nothing,
   is an instruction, and it writes rd when that instruction does. *)
LEMMA Decoded ==
    ASSUME NEW i \in Instr, NEW unit \in Units, Selects(i, unit)
    PROVE  /\ Manual!Legal(i) \/ Manual!Reserved(i)
           /\ ShouldWriteRd(i) <=> Manual!WritesRd(i)
  <1>1. i.funct3 \in 0..7
    BY DEF Instr
  <1>2. Manual!Legal(i) \/ Manual!Reserved(i)
    <2>1. CASE unit = "logic"
      BY SameFormat, <2>1, Funct3Values DEF Selects, MatchLogic, Manual!Legal
    <2>2. CASE unit = "adder"
      BY SameFormat, <2>2, Funct3Values DEF Selects, MatchAdder, Manual!Legal
    <2>3. CASE unit = "shifter"
      BY SameFormat, <2>3, Funct3Values DEF Selects, MatchShifter, Manual!Legal
    <2>4. CASE unit = "compare"
      BY SameFormat, <2>4, Funct3Values
      DEF Selects, MatchCompare, Manual!Legal, Manual!Reserved
    <2>5. CASE unit = "mem_unit"
      BY SameFormat, <2>5 DEF Selects, MatchMemory, MatchLoad, Manual!Legal
    <2>6. CASE unit = "branch"
      BY SameFormat, <2>6, Funct3Values DEF Selects, MatchBranch, Manual!Legal
    <2>7. CASE unit \in {"lui", "auipc", "jal", "jalr", "csr", "mret"}
      BY SameFormat, <2>7, Funct3Values DEF Selects, MatchCsr, Manual!Legal
    <2> QED
      BY <2>1, <2>2, <2>3, <2>4, <2>5, <2>6, <2>7 DEF Units
  <1>3. ASSUME unit \notin {"mem_unit", "branch", "mret"}
        PROVE  ShouldWriteRd(i) <=> Manual!WritesRd(i)
    <2>1. /\ i.opcode \notin {"BRANCH", "STORE", "FENCE"}
          /\ i.opcode = "SYSTEM" => i.funct3 # Funct3.PRIV
      BY <1>3 DEF Selects, Units, MatchLogic, MatchAdder, MatchShifter,
         MatchCompare, MatchCsr
    <2> QED
      BY SameFormat, <1>3, <2>1 DEF ShouldWriteRd, Manual!WritesRd
  <1>4. ASSUME unit \in {"mem_unit", "branch", "mret"}
        PROVE  ShouldWriteRd(i) <=> Manual!WritesRd(i)
    <2>1. \/ MatchLoad(i)
          \/ i.opcode \in {"STORE", "BRANCH"}
          \/ i.opcode = "SYSTEM" /\ i.funct3 = Funct3.PRIV
      BY <1>4 DEF Selects, MatchMemory, MatchBranch
    <2>2. CASE MatchLoad(i)
      BY SameFormat, <2>2 DEF MatchLoad, ShouldWriteRd, Manual!WritesRd
    <2>3. CASE \/ i.opcode \in {"STORE", "BRANCH"}
               \/ i.opcode = "SYSTEM" /\ i.funct3 = Funct3.PRIV
      <3>1. ~MatchLoad(i)
        BY <2>3 DEF MatchLoad
      <3>2. ASSUME NEW u \in Units \ {"mem_unit", "branch", "mret"}
            PROVE  ~Selects(i, u)
        BY <2>3, <3>2 DEF Selects, Units, MatchLogic, MatchAdder, MatchShifter,
           MatchCompare, MatchCsr
      <3> QED
        BY SameFormat, <2>3, <3>1, <3>2 DEF ShouldWriteRd, Manual!WritesRd
    <2> QED
      BY <2>1, <2>2, <2>3
  <1> QED
    BY <1>2, <1>3, <1>4

LEMMA NopDecoded ==
    ASSUME NEW i \in Instr, IsNop(i)
    PROVE  /\ Manual!Legal(i)
           /\ ~ShouldWriteRd(i) /\ ~Manual!WritesRd(i)
           /\ i.opcode \in {"FENCE", "SYSTEM"}
  <1>1. ASSUME NEW u \in Units \ {"mem_unit", "branch", "mret"}
        PROVE  ~Selects(i, u)
    BY <1>1 DEF IsNop, Selects, Units, MatchLogic, MatchAdder, MatchShifter,
       MatchCompare, MatchCsr
  <1> QED
    BY SameFormat, <1>1 DEF IsNop, ShouldWriteRd, MatchLoad, Manual!Legal, Manual!WritesRd

(* What it refuses is no instruction, or one of those that may be refused. *)
LEMMA Refused ==
    ASSUME NEW i \in Instr, \A unit \in Units : ~Selects(i, unit), ~IsNop(i)
    PROVE  Manual!Refusable(i)
  <1>1. i.funct3 \in 0..7
    BY DEF Instr
  <1>2. /\ ~MatchLogic(i) /\ ~MatchAdder(i) /\ ~MatchShifter(i)
        /\ ~MatchCompare(i) /\ ~MatchBranch(i)
        /\ i.opcode \notin {"LUI", "AUIPC", "JAL", "FENCE"}
        /\ ~(i.opcode = "JALR" /\ i.funct3 = Funct3.JALR)
    BY DEF Selects, Units, IsNop
  <1>3. SUFFICES ASSUME i.opcode \notin {"LOAD", "STORE", "SYSTEM"}, Manual!Legal(i)
                 PROVE  FALSE
    BY SameFormat DEF Manual!Refusable
  <1> QED
    BY SameFormat, <1>1, <1>2, <1>3, Funct3Values
    DEF Manual!Legal, MatchLogic, MatchAdder, MatchShifter, MatchCompare, MatchBranch

(* The opcodes of the units, which EXECUTE tells apart by active_unit. *)
LEMMA UnitOpcode ==
    ASSUME NEW i \in Instr, NEW unit \in Units, Selects(i, unit)
    PROVE  /\ unit \in {"logic", "adder", "shifter", "compare"} =>
                i.opcode \in {"OP_IMM", "ALU"}
           /\ (unit = "lui") <=> (i.opcode = "LUI")
           /\ (unit = "auipc") <=> (i.opcode = "AUIPC")
           /\ (unit = "jal") <=> (i.opcode = "JAL")
           /\ (unit = "jalr") <=> (i.opcode = "JALR")
           /\ (unit = "branch") <=> (i.opcode = "BRANCH")
           /\ unit = "branch" => i.funct3 \notin {2, 3}
           /\ (unit = "mem_unit") <=> (i.opcode \in {"LOAD", "STORE"})
           /\ (unit \in {"csr", "mret"}) <=> (i.opcode = "SYSTEM")
           /\ unit = "mret" => i.funct3 = Funct3.PRIV
  BY Funct3Values
  DEF Selects, Units, MatchLogic, MatchAdder, MatchShifter, MatchCompare,
      MatchLoad, MatchMemory, MatchBranch, MatchCsr

-----------------------------------------------------------------------------
(***************************************************************************)
(* The types.                                                              *)
(***************************************************************************)
LEMMA FetchedType ==
    ASSUME TypeOK, NEW i \in Code[pc]
    PROVE  i \in Instr
  BY WordAssumption DEF TypeOK

LEMMA ResultType ==
    ASSUME TypeOK, NEW v, UnitResult(v)
    PROVE  v \in Word
  <1>1. /\ pc \in Word /\ rdval \in Word /\ instr.imm \in Word
    BY DEF TypeOK, Instr
  <1>2. Wrap(pc + instr.imm) \in Word /\ Wrap(pc + 4) \in Word
    BY <1>1, WordFacts, Wraps
  <1> QED
    BY <1>1, <1>2, OperandTypes, WordFacts DEF UnitResult

LEMMA LatchType ==
    ASSUME TypeOK, LatchPc
    PROVE  pcAddend' \in Word /\ newPc' \in Word /\ isJalr' \in BOOLEAN
  <1>1. instr.imm \in Word /\ rs1val \in Word /\ newPc \in Word
    BY DEF TypeOK, Instr
  <1>2. Wrap(rs1val + instr.imm) \in Word
    BY <1>1, WordFacts, Wraps
  <1> QED
    BY <1>1, <1>2, WordFacts DEF LatchPc

LEMMA TypeStep == TypeOK /\ [Edge]_vars => TypeOK'
  <1>1. CASE UNCHANGED vars
    BY <1>1 DEF TypeOK, vars, latches
  <1>2. CASE TypeOK /\ Edge
    <2> USE <1>2
    <2> DEFINE Ctl == /\ cpu \in {"CHECK_SHOULD_HALT", "HALTED", "FETCH", "DECODE",
                                  "EXECUTE", "WRITEBACK", "TRAP"}
                      /\ pc \in Word /\ instr \in Instr
                      /\ active \in Units \cup {"none"}
                      /\ sub \in BOOLEAN /\ isJalr \in BOOLEAN
                      /\ rdval \in Word /\ pcAddend \in Word /\ newPc \in Word
    <2>1. gprf' \in [Reg -> Word]
      <3>1. instr.rd \in Reg
        BY DEF TypeOK, Instr
      <3>2. \A rv \in DebugWrites : rv[1] \in Reg /\ rv[2] \in Word
        BY DebugAssumption
      <3> QED
        BY <3>1, <3>2 DEF Edge, WritePort, TypeOK
    <2>2. rs1val' \in Word /\ rs2val' \in Word
      <3>1. instr.rd \in Reg /\ instr.rs1 \in Reg /\ instr.rs2 \in Reg /\ 0 \in Reg
        BY WordAssumption DEF TypeOK, Instr
      <3> QED
        BY <2>1, <3>1 DEF Edge, ReadPorts
    <2>3. Ctl'
      <3> Ctl
        BY DEF TypeOK
      <3>0. TrapVector \in Word /\ 0 \in Word
        BY WordAssumption, WordFacts
      <3>1. CASE CheckShouldHalt
        BY <3>1 DEF CheckShouldHalt, latches
      <3>2. CASE StayHalted
        BY <3>2 DEF StayHalted, latches
      <3>3. CASE Resume
        BY <3>3 DEF Resume, latches
      <3>4. CASE Fetch
        <4>1. instr' \in Instr
          BY <3>4, FetchedType DEF Fetch
        <4> QED
          BY <3>4, <4>1 DEF Fetch
      <3>5. CASE Trap
        BY <3>5, NoInstrType DEF Trap
      <3>6. CASE FetchTraps \/ DecodeTraps \/ ExecuteTraps
        BY <3>5, <3>6 DEF FetchTraps, DecodeTraps, ExecuteTraps
      <3>7. CASE Decode
        BY <3>7 DEF Decode, latches
      <3>8. CASE DecodeNop
        BY <3>8 DEF DecodeNop, latches
      <3>9. CASE ExecuteOneCycle
        BY <3>9, ResultType, LatchType DEF ExecuteOneCycle
      <3>10. CASE ExecuteWaits
        BY <3>0, <3>10, LatchType DEF ExecuteWaits
      <3>11. CASE ExecuteAnswered
        BY <3>11, LatchType DEF ExecuteAnswered
      <3>12. CASE ExecuteMret
        BY <3>12, LatchType, NoInstrType DEF ExecuteMret
      <3>13. CASE Writeback
        <4>1. Wrap(pc + pcAddend) \in Word
          BY WordFacts, Wraps
        <4> QED
          BY <3>0, <3>13, <4>1, NoInstrType DEF Writeback
      <3>14. CASE EnterTrapHandler
        BY <3>0, <3>14, NoInstrType DEF EnterTrapHandler
      <3> QED
        BY <3>1, <3>2, <3>3, <3>4, <3>6, <3>7, <3>8, <3>9, <3>10, <3>11, <3>12,
           <3>13, <3>14
        DEF Edge, MainFsm
    <2> QED
      BY <2>1, <2>2, <2>3 DEF TypeOK
  <1> QED
    BY <1>1, <1>2

-----------------------------------------------------------------------------
(***************************************************************************)
(* EXECUTE latches what the instruction set asks for.                      *)
(***************************************************************************)
LEMMA BranchTaken ==
    ASSUME TypeOK, sub, instr.funct3 \notin {2, 3}
    PROVE  ConditionMet <=> Manual!Taken(instr, Src1, Src2)
  <1>1. Signed(Src1) \in Int /\ Signed(Src2) \in Int /\ Src1 \in Int /\ Src2 \in Int
    BY OperandTypes, WordRange DEF Signed
  <1>2. /\ (AdderRes = 0) <=> (Src1 = Src2)
        /\ Carry <=> (Src1 < Src2)
        /\ ~(IsNegative(AdderRes) <=> Overflow) <=> (Signed(Src1) < Signed(Src2))
    BY FlagsCompare
  <1>3. (Src1 >= Src2 <=> ~(Src1 < Src2))
        /\ (Signed(Src1) >= Signed(Src2) <=> ~(Signed(Src1) < Signed(Src2)))
    BY <1>1
  <1> QED
    BY <1>2, <1>3, SameFormat, Funct3Values DEF ConditionMet, Manual!Taken

LEMMA Compared ==
    ASSUME TypeOK, sub, instr.funct3 \in {2, 3}
    PROVE  ConditionMet <=> IF instr.funct3 = 2 THEN Signed(Src1) < Signed(Src2)
                                                ELSE Src1 < Src2
  <1>1. Signed(Src1) \in Int /\ Signed(Src2) \in Int /\ Src1 \in Int /\ Src2 \in Int
    BY OperandTypes, WordRange DEF Signed
  <1>2. /\ (AdderRes = 0) <=> (Src1 = Src2)
        /\ Carry <=> (Src1 < Src2)
        /\ ~(IsNegative(AdderRes) <=> Overflow) <=> (Signed(Src1) < Signed(Src2))
    BY FlagsCompare
  <1>3. (Src1 < Src2 => Src1 # Src2)
        /\ (Signed(Src1) < Signed(Src2) => Src1 # Src2)
    BY <1>1
  <1> QED
    BY <1>2, <1>3, Funct3Values DEF ConditionMet

(* The operands are those of the instruction. *)
LEMMA Operands ==
    ASSUME TypeOK, OperandsStand, cpu = "EXECUTE", active # "lui"
    PROVE  /\ Src1 = gprf[instr.rs1]
           /\ instr.opcode = "OP_IMM" => Src2 = instr.imm
           /\ instr.opcode # "OP_IMM" => Src2 = gprf[instr.rs2]
  BY DEF OperandsStand, Src1, Src2

LEMMA RightResult ==
    ASSUME TypeOK, OperandsStand, UnitFits, cpu = "EXECUTE",
           NEW v, UnitResult(v), ShouldWriteRd(instr)
    PROVE  Manual!Result(instr, gprf, v)
  <1>1. instr \in Instr /\ pc \in Word /\ instr.imm \in Word /\ active \in Units \cup {"none"}
    BY DEF TypeOK, Instr
  <1>2. active # "none"
    BY <1>1, NopDecoded DEF UnitFits
  <1>3. active \in Units /\ Selects(instr, active)
    BY <1>1, <1>2 DEF UnitFits
  <1>4. CASE active \in {"logic", "adder", "shifter", "compare"}
    <2>1. instr.opcode \in {"OP_IMM", "ALU"}
      BY <1>1, <1>3, <1>4, UnitOpcode
    <2>2. SUFFICES Manual!Computes(instr, Src1, Src2, v)
      BY <1>4, <2>1, Operands DEF Manual!Result
    <2>3. CASE active = "logic"
      BY <1>3, <2>3, SameFormat, Funct3Values
      DEF Selects, MatchLogic, UnitResult, LogicRes, Manual!Computes
    <2>4. CASE active = "adder"
      <3>1. sub <=> Subtracts
        BY <2>4 DEF UnitFits
      <3>2. AdderSum \in Int /\ AdderSum >= -(2 * Half) /\ AdderSum < 4 * Half
        BY OperandTypes, WordFacts DEF AdderSum
      <3>3. Manual!IsWordOf(v, AdderSum)
        BY <2>4, <3>2, Wraps DEF UnitResult, AdderRes
      <3>4. instr.funct3 = Manual!Funct3.ADD
        BY <1>3, <2>4, SameFormat DEF Selects, MatchAdder
      <3> QED
        BY <3>1, <3>3, <3>4
        DEF AdderSum, Subtracts, Manual!Computes, Manual!Subtracts
    <2>5. CASE active = "shifter"
      BY <1>3, <2>5, SameFormat, Funct3Values
      DEF Selects, MatchShifter, UnitResult, ShifterRes, Manual!Computes
    <2>6. CASE active = "compare"
      <3>1. instr.funct3 \in {2, 3} /\ sub
        BY <1>3, <2>6, Funct3Values DEF Selects, MatchCompare, UnitFits
      <3> QED
        BY <2>6, <3>1, Compared, SameFormat, Funct3Values
        DEF UnitResult, Manual!Computes, Manual!Truth
    <2> QED
      BY <1>4, <2>3, <2>4, <2>5, <2>6
  <1>5. CASE active = "lui"
    BY <1>1, <1>3, <1>5, UnitOpcode DEF UnitResult, Manual!Result
  <1>6. CASE active = "auipc"
    BY <1>1, <1>3, <1>6, UnitOpcode, WordFacts, Wraps DEF UnitResult, Manual!Result
  <1>7. CASE active \in {"jal", "jalr"}
    BY <1>1, <1>3, <1>7, UnitOpcode, WordFacts, Wraps DEF UnitResult, Manual!Result
  <1>8. CASE active = "branch"
    BY <1>1, <1>3, <1>8, UnitOpcode, Decoded DEF Manual!WritesRd
  <1>9. active \notin {"mem_unit", "csr", "mret"}
    BY DEF UnitResult
  <1> QED
    BY <1>3, <1>4, <1>5, <1>6, <1>7, <1>8, <1>9 DEF Units

LEMMA RightTarget ==
    ASSUME TypeOK, OperandsStand, UnitFits, cpu = "EXECUTE", LatchPc, ~isJalr
    PROVE  Manual!Target(instr, gprf, IF isJalr' THEN newPc' ELSE Wrap(pc + pcAddend'))
  <1>1. /\ instr \in Instr /\ pc \in Word /\ instr.imm \in Word /\ rs1val \in Word
        /\ active \in Units \cup {"none"}
    BY DEF TypeOK, Instr
  <1>2. CASE active = "jalr"
    <2>1. instr.opcode = "JALR" /\ gprf[instr.rs1] = rs1val
      BY <1>1, <1>2, UnitOpcode DEF UnitFits, OperandsStand
    <2>2. PICK t \in Word : t = newPc' /\ Manual!IsWordOf(t, rs1val + instr.imm)
      BY <1>1, <1>2, WordFacts, Wraps DEF LatchPc
    <2> QED
      BY <1>2, <2>1, <2>2, SameFormat DEF LatchPc, Manual!Target
  <1>3. CASE active = "jal"
    <2>1. instr.opcode = "JAL"
      BY <1>1, <1>3, UnitOpcode DEF UnitFits
    <2> QED
      BY <1>1, <1>3, <2>1, WordFacts, Wraps DEF LatchPc, Manual!Target, Manual!Jumps
  <1>4. CASE active = "branch"
    <2>1. instr.opcode = "BRANCH" /\ instr.funct3 \notin {2, 3} /\ sub
      BY <1>1, <1>4, UnitOpcode DEF UnitFits
    <2>2. ConditionMet <=> Manual!Jumps(instr, gprf)
      BY <1>4, <2>1, BranchTaken, Operands DEF Manual!Jumps
    <2>3. pcAddend' = (IF ConditionMet THEN instr.imm ELSE 4) /\ ~isJalr'
      BY <1>4 DEF LatchPc
    <2> QED
      BY <1>1, <2>1, <2>2, <2>3, WordFacts, Wraps DEF Manual!Target
  <1>5. CASE active \notin {"jalr", "jal", "branch"}
    <2>1. instr.opcode \notin {"JALR", "JAL", "BRANCH"}
      BY <1>1, <1>5, UnitOpcode, NopDecoded DEF UnitFits
    <2>2. pcAddend' = 4 /\ ~isJalr'
      BY <1>5 DEF LatchPc
    <2> QED
      BY <1>1, <2>1, <2>2, WordFacts, Wraps DEF Manual!Target, Manual!Jumps
  <1> QED
    BY <1>2, <1>3, <1>4, <1>5

-----------------------------------------------------------------------------
(***************************************************************************)
(* The latches of the CPU hold what belongs to their instruction.          *)
(***************************************************************************)
LEMMA FetchedStep ==
    ASSUME TypeOK, Fetched, UnitFits, Edge
    PROVE  Fetched'
  <1>1. CASE CheckShouldHalt
    BY <1>1 DEF CheckShouldHalt, Fetched
  <1>2. CASE StayHalted
    BY <1>2 DEF StayHalted, Fetched
  <1>3. CASE Resume
    BY <1>3 DEF Resume, Fetched
  <1>4. CASE Fetch
    BY <1>4 DEF Fetch, Fetched
  <1>5. ASSUME Trap,
               \/ Manual!NotFetched
               \/ pc % 4 = 0 /\ instr \in Code[pc] /\ Manual!Refusable(instr)
        PROVE  Fetched'
    BY <1>5 DEF Trap, Fetched, Manual!NotFetched, Manual!Refusable, Manual!Legal
  <1>6. CASE FetchTraps
    BY <1>5, <1>6 DEF FetchTraps, Manual!NotFetched
  <1>7. CASE Decode
    BY <1>7 DEF Decode, Fetched
  <1>8. CASE DecodeNop
    BY <1>8 DEF DecodeNop, Fetched, latches
  <1>9. CASE DecodeTraps
    <2>1. instr \in Instr /\ pc % 4 = 0 /\ instr \in Code[pc]
      BY <1>9 DEF DecodeTraps, Fetched, TypeOK
    <2>2. Manual!Refusable(instr)
      BY <1>9, <2>1, Refused DEF DecodeTraps
    <2> QED
      BY <1>5, <1>9, <2>1, <2>2 DEF DecodeTraps
  <1>10. CASE ExecuteOneCycle
    BY <1>10 DEF ExecuteOneCycle, Fetched
  <1>11. CASE ExecuteWaits
    BY <1>11 DEF ExecuteWaits, Awaits, Fetched
  <1>12. CASE ExecuteAnswered
    BY <1>12 DEF ExecuteAnswered, Awaits, Fetched
  <1>13. CASE ExecuteTraps
    <2>1. /\ instr \in Instr /\ pc % 4 = 0 /\ instr \in Code[pc]
          /\ active \in Units /\ active \in {"mem_unit", "csr"}
          /\ Selects(instr, active)
      BY <1>13 DEF ExecuteTraps, Awaits, Fetched, UnitFits, TypeOK, Units
    <2>2. Manual!Refusable(instr)
      BY <2>1, UnitOpcode DEF Manual!Refusable
    <2> QED
      BY <1>5, <1>13, <2>1, <2>2 DEF ExecuteTraps
  <1>14. CASE ExecuteMret
    BY <1>14 DEF ExecuteMret, Fetched
  <1>15. CASE Writeback
    BY <1>15 DEF Writeback, Fetched
  <1>16. CASE EnterTrapHandler
    BY <1>16 DEF EnterTrapHandler, Fetched
  <1> QED
    BY <1>1, <1>2, <1>3, <1>4, <1>6, <1>7, <1>8, <1>9, <1>10, <1>11, <1>12,
       <1>13, <1>14, <1>15, <1>16
    DEF Edge, MainFsm

LEMMA UnitStep ==
    ASSUME TypeOK, UnitFits, Edge
    PROVE  UnitFits'
  <1>1. CASE CheckShouldHalt
    BY <1>1 DEF CheckShouldHalt, UnitFits, latches
  <1>2. CASE StayHalted
    BY <1>2 DEF StayHalted, UnitFits, latches
  <1>3. CASE Resume
    BY <1>3 DEF Resume, UnitFits, latches
  <1>4. CASE Fetch
    BY <1>4 DEF Fetch, UnitFits
  <1>5. CASE Trap
    BY <1>5 DEF Trap, UnitFits
  <1>6. CASE FetchTraps \/ DecodeTraps \/ ExecuteTraps
    BY <1>5, <1>6 DEF FetchTraps, DecodeTraps, ExecuteTraps
  <1>7. CASE Decode
    <2>1. PICK unit \in Units :
             /\ Selects(instr, unit) /\ active' = unit
             /\ sub' = \/ unit = "adder" /\ Subtracts
                       \/ unit \in {"compare", "branch"}
                       \/ unit \notin {"adder", "compare", "branch"} /\ sub
      BY <1>7 DEF Decode
    <2>2. cpu' = "EXECUTE" /\ instr' = instr /\ Selects(instr', active')
      BY <1>7, <2>1 DEF Decode
    <2>3. unit # "none"
      BY DEF Units
    <2>4. unit \in {"compare", "branch"} => sub'
      BY <2>1
    <2>5. unit = "adder" => (sub' <=> Subtracts)
      BY <2>1
    <2>6. Subtracts' <=> Subtracts
      BY <2>2 DEF Subtracts
    <2> QED
      BY <2>1, <2>2, <2>3, <2>4, <2>5, <2>6 DEF UnitFits
  <1>8. CASE DecodeNop
    BY <1>8 DEF DecodeNop, UnitFits, latches, IsNop
  <1>9. CASE ExecuteOneCycle
    BY <1>9 DEF ExecuteOneCycle, UnitFits
  <1>10. CASE ExecuteWaits
    BY <1>10 DEF ExecuteWaits, Awaits, UnitFits, Selects, Subtracts,
       MatchLogic, MatchAdder, MatchShifter, MatchCompare, MatchLoad, MatchMemory,
       MatchBranch, MatchCsr
  <1>11. CASE ExecuteAnswered
    BY <1>11 DEF ExecuteAnswered, UnitFits
  <1>12. CASE ExecuteMret
    BY <1>12 DEF ExecuteMret, UnitFits
  <1>13. CASE Writeback
    BY <1>13 DEF Writeback, UnitFits
  <1>14. CASE EnterTrapHandler
    BY <1>14 DEF EnterTrapHandler, UnitFits
  <1> QED
    BY <1>1, <1>2, <1>3, <1>4, <1>6, <1>7, <1>8, <1>9, <1>10, <1>11, <1>12,
       <1>13, <1>14
    DEF Edge, MainFsm

(* EXECUTE is entered from DECODE or from itself: then the read ports were
   asked for the registers of the instruction, and none was written. *)
LEMMA OperandsStep ==
    ASSUME TypeOK, UnitFits, OperandsStand, Edge
    PROVE  OperandsStand'
  <1>1. SUFFICES ASSUME cpu' = "EXECUTE"
                 PROVE  OperandsStand'
    BY DEF OperandsStand
  <1>2. Decode \/ DecodeNop \/ ExecuteWaits
    BY <1>1
    DEF Edge, MainFsm, CheckShouldHalt, StayHalted, Resume, Fetch, FetchTraps,
        DecodeTraps, ExecuteTraps, Trap, ExecuteOneCycle, ExecuteAnswered,
        ExecuteMret, Writeback, EnterTrapHandler
  <1>3. cpu \in {"DECODE", "EXECUTE"} /\ instr' = instr
    BY <1>2 DEF Decode, DecodeNop, ExecuteWaits, Awaits, latches
  <1>4. gprf' = gprf
    BY <1>3 DEF Edge, WritePort
  <1>5. rs2val' = gprf'[instr'.rs2]
    BY <1>3 DEF Edge, ReadPorts
  <1>6. active' # "lui" => rs1val' = gprf'[instr'.rs1]
    <2>1. ASSUME active' # "lui", cpu = "DECODE", Selects(instr, "lui")
          PROVE  FALSE
      <3>1. instr \in Instr /\ instr.opcode = "LUI"
        BY <2>1 DEF TypeOK, Selects
      <3>2. CASE Decode
        <4>1. active' \in Units /\ Selects(instr, active')
          BY <3>2 DEF Decode
        <4> QED
          BY <2>1, <3>1, <4>1, UnitOpcode
      <3>3. CASE DecodeNop
        BY <3>1, <3>3, NopDecoded DEF DecodeNop
      <3>4. CASE ExecuteWaits
        BY <2>1, <3>4 DEF ExecuteWaits, Awaits
      <3> QED
        BY <1>2, <3>2, <3>3, <3>4
    <2> QED
      BY <1>3, <2>1 DEF Edge, ReadPorts
  <1> QED
    BY <1>5, <1>6 DEF OperandsStand

(* What EXECUTE leaves behind stands in WRITEBACK. *)
LEMMA ResultStep ==
    ASSUME TypeOK, UnitFits, OperandsStand, ResultStands, Edge
    PROVE  ResultStands'
  <1> DEFINE Ready(v) ==
        /\ Manual!Legal(instr) \/ Manual!Reserved(instr)
        /\ ShouldWriteRd(instr) <=> Manual!WritesRd(instr)
        /\ ShouldWriteRd(instr) => Manual!Result(instr, gprf, v)
  <1>1. CASE cpu # "EXECUTE" /\ cpu # "WRITEBACK"
    <2>1. ~isJalr /\ isJalr' = isJalr /\ cpu' # "WRITEBACK"
      BY <1>1
      DEF ResultStands, Edge, MainFsm, latches, CheckShouldHalt, StayHalted, Resume,
          Fetch, FetchTraps, Decode, DecodeNop, DecodeTraps, Trap, ExecuteOneCycle,
          ExecuteWaits, ExecuteAnswered, ExecuteTraps, Awaits, ExecuteMret, Writeback,
          EnterTrapHandler
    <2> QED
      BY <2>1 DEF ResultStands
  <1>2. CASE Writeback
    BY <1>2 DEF Writeback, ResultStands
  <1>3. CASE ExecuteTraps
    BY <1>3 DEF ExecuteTraps, Awaits, Trap, ResultStands
  <1>4. CASE ExecuteWaits
    BY <1>4 DEF ExecuteWaits, Awaits, LatchPc, ResultStands
  <1>5. CASE ExecuteMret
    BY <1>5 DEF ExecuteMret, LatchPc, ResultStands
  <1>6. CASE ExecuteOneCycle \/ ExecuteAnswered
    <2>1. /\ cpu = "EXECUTE" /\ LatchPc /\ ~isJalr
          /\ cpu' = "WRITEBACK" /\ instr' = instr /\ pc' = pc /\ gprf' = gprf
      BY <1>6
      DEF ExecuteOneCycle, ExecuteAnswered, Awaits, ResultStands, Edge, WritePort
    <2>2. instr \in Instr /\ active \in Units \cup {"none"}
      BY DEF TypeOK
    <2>3. Ready(rdval')
      <3>1. CASE active = "none"
        BY <2>1, <2>2, <3>1, NopDecoded DEF UnitFits
      <3>2. CASE active \in Units
        <4>1. Selects(instr, active)
          BY <3>2 DEF UnitFits, Units
        <4>2. /\ Manual!Legal(instr) \/ Manual!Reserved(instr)
              /\ ShouldWriteRd(instr) <=> Manual!WritesRd(instr)
          BY <2>2, <3>2, <4>1, Decoded
        <4>3. ASSUME ShouldWriteRd(instr)
              PROVE  Manual!Result(instr, gprf, rdval')
          <5>1. CASE ExecuteOneCycle
            BY <2>1, <4>3, <5>1, RightResult, TypeStep DEF ExecuteOneCycle, TypeOK
          <5>2. CASE ExecuteAnswered
            <6>1. instr.opcode \in {"LOAD", "STORE", "SYSTEM"}
              BY <2>2, <3>2, <4>1, <5>2, UnitOpcode DEF ExecuteAnswered, Awaits
            <6>2. instr.opcode # "STORE"
              BY <4>2, <4>3 DEF Manual!WritesRd
            <6> QED
              BY <5>2, <6>1, <6>2, SameFormat DEF ExecuteAnswered, Manual!Result
          <5> QED
            BY <1>6, <5>1, <5>2
        <4> QED
          BY <4>2, <4>3
      <3> QED
        BY <2>2, <3>1, <3>2
    <2>4. Manual!Target(instr, gprf, IF isJalr' THEN newPc' ELSE Wrap(pc + pcAddend'))
      BY <2>1, RightTarget
    <2>5. /\ (Manual!Legal(instr) \/ Manual!Reserved(instr))'
          /\ (ShouldWriteRd(instr) <=> Manual!WritesRd(instr))'
      BY <2>1, <2>3
      DEF Manual!Legal, Manual!Reserved, Manual!WritesRd, ShouldWriteRd, Selects,
          MatchLogic, MatchAdder, MatchShifter, MatchCompare, MatchLoad, MatchMemory,
          MatchBranch, MatchCsr
    <2>6. (ShouldWriteRd(instr))' <=> ShouldWriteRd(instr)
      BY <2>1
      DEF ShouldWriteRd, Selects, MatchLogic, MatchAdder, MatchShifter, MatchCompare,
          MatchLoad, MatchMemory, MatchBranch, MatchCsr
    <2>7. (ShouldWriteRd(instr) => Manual!Result(instr, gprf, rdval))'
      BY <2>1, <2>3, <2>6 DEF Manual!Result
    <2>8. (Manual!Target(instr, gprf, IF isJalr THEN newPc ELSE Wrap(pc + pcAddend)))'
      BY <2>1, <2>4 DEF Manual!Target, Manual!Jumps, Manual!Taken, Wrap
    <2> QED
      BY <2>1, <2>5, <2>7, <2>8 DEF ResultStands
  <1>7. CASE cpu \in {"EXECUTE", "WRITEBACK"}
    BY <1>2, <1>3, <1>4, <1>5, <1>6, <1>7
    DEF Edge, MainFsm, CheckShouldHalt, StayHalted, Resume, Fetch, FetchTraps,
        Decode, DecodeNop, DecodeTraps, EnterTrapHandler
  <1> QED
    BY <1>1, <1>7

LEMMA LatchesInit == Init => LatchesFit
  BY WordAssumption, WordFacts, NoInstrType
  DEF Init, LatchesFit, TypeOK, Fetched, UnitFits, OperandsStand, ResultStands, Units

LEMMA LatchesStep == LatchesFit /\ [Edge]_vars => LatchesFit'
  <1>1. CASE LatchesFit /\ UNCHANGED vars
    <2>1. TypeOK' /\ Fetched' /\ OperandsStand'
      BY <1>1
      DEF vars, latches, LatchesFit, TypeOK, Fetched, OperandsStand, Units,
          Manual!Refusable, Manual!NotFetched, Manual!Legal
    <2>2. UnitFits'
      BY <1>1
      DEF vars, latches, LatchesFit, UnitFits, Selects, Subtracts, IsNop, MatchLogic,
          MatchAdder, MatchShifter, MatchCompare, MatchLoad, MatchMemory, MatchBranch,
          MatchCsr
    <2>3. (Manual!Legal(instr) \/ Manual!Reserved(instr))'
             <=> (Manual!Legal(instr) \/ Manual!Reserved(instr))
      BY <1>1 DEF vars, latches, Manual!Legal, Manual!Reserved
    <2>4. /\ ShouldWriteRd(instr)' <=> ShouldWriteRd(instr)
          /\ Manual!WritesRd(instr)' <=> Manual!WritesRd(instr)
      BY <1>1
      DEF vars, latches, ShouldWriteRd, Manual!WritesRd, Selects, MatchLogic,
          MatchAdder, MatchShifter, MatchCompare, MatchLoad, MatchMemory, MatchBranch,
          MatchCsr
    <2>5. Manual!Result(instr, gprf, rdval)' <=> Manual!Result(instr, gprf, rdval)
      BY <1>1 DEF vars, latches, Manual!Result
    <2>6. (Manual!Target(instr, gprf, IF isJalr THEN newPc ELSE Wrap(pc + pcAddend)))'
             <=> Manual!Target(instr, gprf, IF isJalr THEN newPc ELSE Wrap(pc + pcAddend))
      BY <1>1 DEF vars, latches, Manual!Target, Manual!Jumps, Manual!Taken, Wrap
    <2>7. ResultStands'
      BY <1>1, <2>3, <2>4, <2>5, <2>6 DEF vars, latches, LatchesFit, ResultStands
    <2> QED
      BY <2>1, <2>2, <2>7 DEF LatchesFit
  <1>2. CASE LatchesFit /\ Edge
    BY <1>2, TypeStep, FetchedStep, UnitStep, OperandsStep, ResultStep DEF LatchesFit
  <1> QED
    BY <1>1, <1>2

(* In every state in which the CPU uses one of its latches, it holds what
   belongs to the instruction at pc (cpu/cpu.py). *)
THEOREM LatchesBelong == Spec => []LatchesFit
  BY LatchesInit, LatchesStep, PTL DEF Spec

-----------------------------------------------------------------------------
(***************************************************************************)
(* The datapath implements the instruction set: an instruction happens in  *)
(* WRITEBACK, or is refused at the end of TRAP.                            *)
(***************************************************************************)
(* The registers as software knows them. *)
Visible == [gprf EXCEPT ![0] = 0]

(* A register other than x0 is seen as it is. *)
LEMMA VisibleRegisters ==
    ASSUME TypeOK
    PROVE  /\ \A r \in Reg \ {0} : Visible[r] = gprf[r]
           /\ gprf[0] = 0 => Visible = gprf
           /\ \A r \in Reg \ {0} : \A v : gprf' = [gprf EXCEPT ![r] = v]
                                          => Visible' = [Visible EXCEPT ![r] = v]
           /\ \A v : gprf' = [gprf EXCEPT ![0] = v] => Visible' = Visible
  <1>1. gprf \in [Reg -> Word] /\ 0 \in Reg
    BY WordAssumption DEF TypeOK
  <1>2. \A r \in Reg \ {0} : Visible[r] = gprf[r]
    BY <1>1 DEF Visible
  <1>3. gprf[0] = 0 => Visible = gprf
    BY <1>1 DEF Visible
  <1>4. ASSUME NEW r \in Reg \ {0}, NEW v, gprf' = [gprf EXCEPT ![r] = v]
        PROVE  Visible' = [Visible EXCEPT ![r] = v]
    BY <1>1, <1>4 DEF Visible
  <1>5. ASSUME NEW v, gprf' = [gprf EXCEPT ![0] = v]
        PROVE  Visible' = Visible
    BY <1>1, <1>5 DEF Visible
  <1> QED
    BY <1>2, <1>3, <1>4, <1>5

(* An instruction that does not name x0 has the same operands either way. *)
LEMMA SameOperands ==
    ASSUME TypeOK, 0 \notin {instr.rs1, instr.rs2}, NEW t, Manual!Completes(gprf, t)
    PROVE  Manual!Completes(Visible, t)
  <1>1. Visible[instr.rs1] = gprf[instr.rs1] /\ Visible[instr.rs2] = gprf[instr.rs2]
    BY VisibleRegisters DEF TypeOK, Instr
  <1>2. Manual!Target(instr, Visible, t) <=> Manual!Target(instr, gprf, t)
    BY <1>1 DEF Manual!Target, Manual!Jumps
  <1>3. \A v : Manual!Result(instr, Visible, v) <=> Manual!Result(instr, gprf, v)
    BY <1>1 DEF Manual!Result
  <1> QED
    BY <1>2, <1>3 DEF Manual!Completes

(* A completed instruction is one of the contract, or one of the two
   deviations. *)
LEMMA CompletionRefines ==
    ASSUME TypeOK, pc' \in Word, Manual!Completes(gprf, pc')
    PROVE  Manual!Execute(Visible) \/ OddJalr \/ SpoiledZero
  <1>1. CASE instr.opcode = "JALR" /\ pc' % 2 = 1
    BY <1>1 DEF OddJalr
  <1>2. CASE ~(instr.opcode = "JALR" /\ pc' % 2 = 1)
    <2>1. pc' = Manual!Rounded(instr, pc')
      <3>1. PICK n \in Int : n = pc'
        BY WordRange
      <3>2. n % 2 \in {0, 1}
        OBVIOUS
      <3>3. n % 2 # 1 => n - (n % 2) = n
        BY <3>2
      <3>4. CASE instr.opcode # "JALR"
        BY <3>4 DEF Manual!Rounded
      <3>5. CASE instr.opcode = "JALR"
        BY <1>2, <3>1, <3>3, <3>5 DEF Manual!Rounded
      <3> QED
        BY <3>4, <3>5
    <2>2. pc' \in Manual!Word
      BY SameFormat
    <2>3. Manual!Execute(gprf)
      BY <2>1, <2>2 DEF Manual!Execute
    <2>4. CASE gprf[0] = 0
      BY <2>3, <2>4, VisibleRegisters
    <2>5. CASE 0 \notin {instr.rs1, instr.rs2}
      <3>1. Manual!Completes(Visible, pc')
        BY <2>5, SameOperands
      <3> QED
        BY <2>1, <2>2, <3>1 DEF Manual!Execute
    <2>6. CASE gprf[0] # 0 /\ 0 \in {instr.rs1, instr.rs2}
      BY <2>3, <2>6 DEF SpoiledZero
    <2> QED
      BY <2>4, <2>5, <2>6
  <1> QED
    BY <1>1, <1>2

LEMMA StepRefines ==
    LatchesFit /\ [Edge]_vars
      => [Manual!ContractNext \/ OddJalr \/ SpoiledZero]_(Manual!contractVars)
  <1> SUFFICES ASSUME LatchesFit, Edge \/ UNCHANGED vars
               PROVE  \/ Manual!ContractNext \/ OddJalr \/ SpoiledZero
                      \/ UNCHANGED Manual!contractVars
    OBVIOUS
  <1> DEFINE Same == pc' = pc /\ gprf' = gprf /\ (cpu' = "HALTED" <=> cpu = "HALTED")
  <1>0. ASSUME Same
        PROVE  UNCHANGED Manual!contractVars
    <2>1. (cpu' = "HALTED") = (cpu = "HALTED")
      BY <1>0
    <2> QED
      BY <1>0, <2>1 DEF Manual!contractVars
  <1>1. ASSUME cpu # "HALTED", cpu' = "HALTED", pc' = pc, gprf' = gprf
        PROVE  Manual!Stop
    BY <1>1 DEF Manual!Stop
  <1>2. CASE UNCHANGED vars
    BY <1>0, <1>2 DEF vars
  <1>3. CASE Edge
    <2>0. TypeOK /\ Fetched /\ UnitFits /\ ResultStands
      BY DEF LatchesFit
    <2>1. ASSUME cpu # "HALTED", cpu # "WRITEBACK"
          PROVE  gprf' = gprf
      BY <1>3, <2>1 DEF Edge, WritePort
    <2>2. CASE CheckShouldHalt
      BY <1>0, <1>1, <2>1, <2>2 DEF CheckShouldHalt, Manual!ContractNext
    <2>3. CASE StayHalted
      <3>1. CASE gprf' = gprf
        BY <1>0, <2>3, <3>1 DEF StayHalted
      <3>2. CASE \E rv \in DebugWrites : gprf' = [gprf EXCEPT ![rv[1]] = rv[2]]
        <4>1. PICK rv \in DebugWrites : gprf' = [gprf EXCEPT ![rv[1]] = rv[2]]
          BY <3>2
        <4>2. rv[1] \in Reg /\ rv[2] \in Manual!Word
          BY DebugAssumption, SameFormat
        <4>3. /\ pc' = pc /\ cpu = "HALTED"
              /\ (cpu' = "HALTED") = (cpu = "HALTED")
          BY <2>3 DEF StayHalted
        <4>4. CASE rv[1] = 0
          <5>1. Visible' = Visible
            BY <2>0, <4>1, <4>4, VisibleRegisters
          <5> QED
            BY <4>3, <5>1 DEF Manual!contractVars, Visible
        <4>5. CASE rv[1] # 0
          <5>1. Visible' = [Visible EXCEPT ![rv[1]] = rv[2]]
            BY <2>0, <4>1, <4>2, <4>5, VisibleRegisters
          <5>2. Manual!Debug
            BY <4>2, <4>3, <4>5, <5>1 DEF Manual!Debug, Visible
          <5> QED
            BY <5>2 DEF Manual!ContractNext
        <4> QED
          BY <4>4, <4>5
      <3> QED
        BY <1>3, <2>3, <3>1, <3>2 DEF Edge, WritePort, StayHalted
    <2>4. CASE Resume
      <3>1. gprf' = gprf /\ pc' \in Manual!Word
        BY <1>3, <2>4, SameFormat DEF Resume, Edge, WritePort
      <3>2. Manual!Start
        BY <2>4, <3>1 DEF Resume, Manual!Start
      <3> QED
        BY <3>2 DEF Manual!ContractNext
    <2>5. ASSUME Trap, cpu \notin {"HALTED", "WRITEBACK"}
          PROVE  Manual!Stop \/ Same
      BY <1>1, <2>1, <2>5 DEF Trap
    <2>6. CASE FetchTraps \/ DecodeTraps \/ ExecuteTraps
      BY <1>0, <2>5, <2>6
      DEF FetchTraps, DecodeTraps, ExecuteTraps, Awaits, Manual!ContractNext
    <2>7. CASE Fetch \/ Decode \/ DecodeNop
      BY <1>0, <2>1, <2>7 DEF Fetch, Decode, DecodeNop
    <2>8. CASE ExecuteOneCycle \/ ExecuteWaits \/ ExecuteAnswered
      BY <1>0, <2>1, <2>8 DEF ExecuteOneCycle, ExecuteWaits, ExecuteAnswered, Awaits
    <2>9. CASE ExecuteMret
      <3>1. instr \in Instr /\ active \in Units /\ Selects(instr, active)
        BY <2>0, <2>9 DEF ExecuteMret, UnitFits, TypeOK, Units
      <3>2. instr.opcode = "SYSTEM" /\ instr.funct3 = Manual!Funct3.PRIV
        BY <2>9, <3>1, UnitOpcode, SameFormat DEF ExecuteMret
      <3>3. instr \in Code[pc] /\ gprf' = gprf /\ pc' \in Manual!Word
        BY <2>0, <2>1, <2>9, SameFormat DEF ExecuteMret, Fetched
      <3>4. Manual!Return
        <4>1. (cpu' = "HALTED") = (cpu = "HALTED") /\ cpu # "HALTED"
          BY <2>9 DEF ExecuteMret
        <4> QED
          BY <2>0, <2>9, <3>2, <3>3, <4>1
          DEF Manual!Return, Manual!IsFetched, ExecuteMret, Fetched
      <3> QED
        BY <3>4 DEF Manual!ContractNext
    <2>10. CASE Writeback
      <3>1. /\ cpu = "WRITEBACK" /\ pc % 4 = 0 /\ instr \in Code[pc]
            /\ cpu # "HALTED" /\ (cpu' = "HALTED") = (cpu = "HALTED")
        BY <2>0, <2>10 DEF Writeback, Fetched
      <3>2. Manual!Target(instr, gprf, pc') /\ pc' \in Word
        BY <1>3, <2>0, <2>10, <3>1, TypeStep DEF Writeback, ResultStands, TypeOK
      <3>3. \/ ~Manual!WritesRd(instr) /\ Visible' = Visible
            \/ /\ Manual!WritesRd(instr)
               /\ \E v \in Manual!Word : /\ Manual!Result(instr, gprf, v)
                                          /\ Visible' = [Visible EXCEPT ![instr.rd] = v]
        <4>1. CASE ShouldWriteRd(instr)
          <5>1. Manual!WritesRd(instr) /\ Manual!Result(instr, gprf, rdval)
            BY <2>0, <3>1, <4>1 DEF ResultStands
          <5>2. instr.rd \in Reg \ {0} /\ rdval \in Manual!Word
            BY <2>0, <4>1, SameFormat DEF ShouldWriteRd, TypeOK, Instr
          <5>3. Visible' = [Visible EXCEPT ![instr.rd] = rdval]
            BY <1>3, <2>0, <3>1, <4>1, <5>2, VisibleRegisters DEF Edge, WritePort
          <5> QED
            BY <5>1, <5>2, <5>3
        <4>2. CASE ~ShouldWriteRd(instr)
          <5>1. gprf' = gprf
            BY <1>3, <3>1, <4>2 DEF Edge, WritePort
          <5> QED
            BY <2>0, <3>1, <4>2, <5>1 DEF ResultStands, Visible
        <4> QED
          BY <4>1, <4>2
      <3>4. Manual!Completes(gprf, pc')
        BY <2>0, <3>1, <3>2, <3>3
        DEF Manual!Completes, Manual!IsFetched, ResultStands, Visible
      <3>5. Manual!Execute(Visible) \/ OddJalr \/ SpoiledZero
        BY <2>0, <3>2, <3>4, CompletionRefines
      <3> QED
        BY <3>5 DEF Manual!ContractNext, Visible
    <2>11. CASE EnterTrapHandler
      <3>1. /\ (cpu' = "HALTED") = (cpu = "HALTED") /\ cpu # "HALTED"
            /\ gprf' = gprf /\ pc' = TrapVector
        BY <2>1, <2>11 DEF EnterTrapHandler
      <3>2. Manual!Refuse
        BY <2>0, <2>11, <3>1
        DEF EnterTrapHandler, Fetched, Manual!Refuse, Manual!IsFetched
      <3> QED
        BY <3>2 DEF Manual!ContractNext
    <2> QED
      BY <1>3, <2>2, <2>3, <2>4, <2>6, <2>7, <2>8, <2>9, <2>10, <2>11
      DEF Edge, MainFsm
  <1> QED
    BY <1>2, <1>3

(* The CPU executes each instruction once, as the instruction set has it
   (README.md: "implements basic ISA rv32i"), for every program and whatever
   the debugger writes, but for the two steps DatapathProps names: a jalr to an
   odd address, and an instruction that reads x0 after the debugger wrote it. *)
THEOREM ImplementsIsa == Spec => IsaUpToDeviations
  <1>1. Init => Manual!ContractInit
    <2>1. Init => pc \in Manual!Word
      BY SameFormat DEF Init
    <2>2. Init => (cpu = "HALTED") = FALSE
      BY DEF Init
    <2>3. Init => [gprf EXCEPT ![0] = 0] = [r \in Reg |-> 0]
      BY DEF Init
    <2> QED
      BY <2>1, <2>2, <2>3 DEF Init, Manual!ContractInit
  <1> QED
    BY <1>1, StepRefines, LatchesBelong, PTL
    DEF Spec, IsaUpToDeviations
=============================================================================

----------------------------- MODULE IsaFormat -----------------------------
(***************************************************************************)
(* Words and instructions of RV32I, as Datapath and IsaContract share      *)
(* them: the numbers of cpu/isa.py and the fields of an instruction.       *)
(***************************************************************************)
EXTENDS Integers

CONSTANTS
    Half,        \* the least word whose sign bit is set: 2^31
    Amount,      \* 32: the shift amounts are the numbers below it
    Reg,         \* numbers of registers
    Code,        \* Code[a]: the instructions a fetch from a may return
    Faults,      \* the addresses whose fetch may be refused
    TrapVector,
    \* What the logic and shift operators of Amaranth do to words.
    Bitwise, Shifted

Modulus == 2 * Half
Word    == 0..Modulus - 1
Shift   == 0..Amount - 1

Signed(w) == IF w < Half THEN w ELSE w - Modulus

(* Funct3, whose numbers mean something else with every opcode. *)
Funct3 ==
    [ADD |-> 0, SLL |-> 1, SLT |-> 2, SLTU |-> 3, XOR |-> 4, SRL |-> 5, OR |-> 6,
     AND |-> 7,
     BEQ |-> 0, BNE |-> 1, BLT |-> 4, BGE |-> 5, BLTU |-> 6, BGEU |-> 7,
     PRIV |-> 0, JALR |-> 0]

(* The memory unit's sizes: bytes, half words and words, signed or not. *)
LoadSizes  == {0, 1, 2, 4, 5}
StoreSizes == {0, 1, 2}

Opcode == {"BRANCH", "JAL", "JALR", "AUIPC", "LUI", "OP_IMM", "ALU", "LOAD",
           "STORE", "SYSTEM", "FENCE", "unknown"}

(* ADD and SUB stand for all operations with the first and the second number. *)
Funct7 == {"ADD", "SUB", "MRET", "SFENCE_VMA", "other"}

(***************************************************************************)
(* An instruction by its fields.  imm is the immediate of its format, as   *)
(* the word it is extended to; in most formats it takes the place of       *)
(* funct7, rs2 or rd, which then hold what it makes them.                  *)
(***************************************************************************)
Instr ==
    [opcode : Opcode, funct3 : 0..7, funct7 : Funct7,
     rd : Reg, rs1 : Reg, rs2 : Reg, imm : Word]

NoInstr ==
    [opcode |-> "unknown", funct3 |-> 0, funct7 |-> "ADD",
     rd |-> 0, rs1 |-> 0, rs2 |-> 0, imm |-> 0]

ASSUME WordAssumption ==
    /\ Half \in Nat \ {0, 1, 2, 3}
    /\ Amount \in Nat \ {0}
    /\ 0 \in Reg
    /\ TrapVector \in Word
    /\ Code \in [Word -> SUBSET (Instr \ {NoInstr})]
    /\ Faults \subseteq Word

ASSUME OperatorAssumption ==
    /\ Bitwise \in [{"XOR", "OR", "AND"} -> [Word \X Word -> Word]]
    /\ Shifted \in [{"SLL", "SRL", "SRA"} -> [Word \X Shift -> Word]]
=============================================================================

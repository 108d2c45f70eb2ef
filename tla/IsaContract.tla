---------------------------- MODULE IsaContract ----------------------------
(***************************************************************************)
(* The base instruction set, as software knows it: there are a pc and      *)
(* registers, and an instruction happens at one moment or is refused.      *)
(* Numbers are compared as numbers; there are no flags, units or latches.  *)
(***************************************************************************)
EXTENDS IsaFormat

VARIABLES
    pc,
    x,           \* the registers; x[0] is zero
    stopped,     \* the hart is halted: pc and x are the debugger's
    instr        \* an input: what the memory holds where the pc points

contractVars == <<pc, x, stopped>>

(* The word that v is, when what does not fit is cut off. *)
IsWordOf(w, v) == w \in Word /\ v - w \in {-Modulus, 0, Modulus}

Truth(p) == IF p THEN 1 ELSE 0

Legal(i) ==
    \/ i.opcode \in {"LUI", "AUIPC", "JAL", "FENCE", "SYSTEM"}
    \/ i.opcode = "JALR" /\ i.funct3 = 0
    \/ i.opcode = "BRANCH" /\ i.funct3 \notin {2, 3}
    \/ i.opcode = "LOAD" /\ i.funct3 \in LoadSizes
    \/ i.opcode = "STORE" /\ i.funct3 \in StoreSizes
    \/ i.opcode = "OP_IMM" /\ i.funct3 \notin {Funct3.SLL, Funct3.SRL}
    \/ i.opcode = "ALU" /\ i.funct7 = "ADD"
    \/ i.opcode = "OP_IMM" /\ i.funct3 = Funct3.SLL /\ i.funct7 = "ADD"
    \/ i.opcode = "OP_IMM" /\ i.funct3 = Funct3.SRL /\ i.funct7 \in {"ADD", "SUB"}
    \/ i.opcode = "ALU" /\ i.funct3 \in {Funct3.ADD, Funct3.SRL} /\ i.funct7 = "SUB"

(* Encodings the manual reserves; the comparisons of CompareUnit take them. *)
Reserved(i) == i.opcode = "ALU" /\ i.funct3 \in {Funct3.SLT, Funct3.SLTU}

(***************************************************************************)
(* v is the result of an arithmetic instruction for the operands a and b.  *)
(***************************************************************************)
Subtracts(i) == i.opcode = "ALU" /\ i.funct7 = "SUB"

Computes(i, a, b, v) ==
    \/ i.funct3 = Funct3.ADD /\ ~Subtracts(i) /\ IsWordOf(v, a + b)
    \/ i.funct3 = Funct3.ADD /\ Subtracts(i) /\ IsWordOf(v, a - b)
    \/ i.funct3 = Funct3.SLT /\ v = Truth(Signed(a) < Signed(b))
    \/ i.funct3 = Funct3.SLTU /\ v = Truth(a < b)
    \/ i.funct3 = Funct3.XOR /\ v = Bitwise["XOR"][a, b]
    \/ i.funct3 = Funct3.OR /\ v = Bitwise["OR"][a, b]
    \/ i.funct3 = Funct3.AND /\ v = Bitwise["AND"][a, b]
    \/ i.funct3 = Funct3.SLL /\ v = Shifted["SLL"][a, b % Amount]
    \/ i.funct3 = Funct3.SRL /\ i.funct7 = "ADD" /\ v = Shifted["SRL"][a, b % Amount]
    \/ i.funct3 = Funct3.SRL /\ i.funct7 = "SUB" /\ v = Shifted["SRA"][a, b % Amount]

(* v is what instruction i leaves in rd, if the registers are regs; Devices
   and CsrTrap say what a load or a csr instruction does. *)
Result(i, regs, v) ==
    \/ i.opcode = "OP_IMM" /\ Computes(i, regs[i.rs1], i.imm, v)
    \/ i.opcode = "ALU" /\ Computes(i, regs[i.rs1], regs[i.rs2], v)
    \/ i.opcode = "LUI" /\ v = i.imm
    \/ i.opcode = "AUIPC" /\ IsWordOf(v, pc + i.imm)
    \/ i.opcode \in {"JAL", "JALR"} /\ IsWordOf(v, pc + 4)
    \/ i.opcode \in {"LOAD", "SYSTEM"} /\ v \in Word

Taken(i, a, b) ==
    \/ i.funct3 = Funct3.BEQ /\ a = b
    \/ i.funct3 = Funct3.BNE /\ a # b
    \/ i.funct3 = Funct3.BLT /\ Signed(a) < Signed(b)
    \/ i.funct3 = Funct3.BGE /\ Signed(a) >= Signed(b)
    \/ i.funct3 = Funct3.BLTU /\ a < b
    \/ i.funct3 = Funct3.BGEU /\ a >= b

Jumps(i, regs) ==
    \/ i.opcode = "JAL"
    \/ i.opcode = "BRANCH" /\ Taken(i, regs[i.rs1], regs[i.rs2])

(* t is the sum that instruction i makes of its operands to go on from. *)
Target(i, regs, t) ==
    \/ Jumps(i, regs) /\ IsWordOf(t, pc + i.imm)
    \/ i.opcode = "JALR" /\ IsWordOf(t, regs[i.rs1] + i.imm)
    \/ ~Jumps(i, regs) /\ i.opcode # "JALR" /\ IsWordOf(t, pc + 4)

(* jalr clears the lowest bit of it. *)
Rounded(i, t) == IF i.opcode = "JALR" THEN t - (t % 2) ELSE t

-----------------------------------------------------------------------------
ContractInit ==
    /\ pc \in Word
    /\ x = [r \in Reg |-> 0]
    /\ stopped = FALSE

WritesRd(i) ==
    /\ i.opcode \notin {"BRANCH", "STORE", "FENCE"}
    /\ i.opcode = "SYSTEM" => i.funct3 # Funct3.PRIV
    /\ i.rd # 0

IsFetched == pc % 4 = 0 /\ instr \in Code[pc]

(* The instruction has the registers regs for its operands, leaves its result
   and makes t of its target. *)
Completes(regs, t) ==
    /\ ~stopped /\ IsFetched
    /\ Legal(instr) \/ Reserved(instr)
    /\ Target(instr, regs, t)
    /\ \/ ~WritesRd(instr) /\ UNCHANGED x
       \/ /\ WritesRd(instr)
          /\ \E v \in Word : Result(instr, regs, v) /\ x' = [x EXCEPT ![instr.rd] = v]
    /\ UNCHANGED stopped

Execute(regs) == \E t \in Word : Completes(regs, t) /\ pc' = Rounded(instr, t)

(* What may be refused: an access, a privileged instruction, what is no
   instruction at all. *)
Refusable(i) == i.opcode \in {"LOAD", "STORE", "SYSTEM"} \/ ~Legal(i)

NotFetched == pc % 4 # 0 \/ pc \in Faults

Refuse ==
    /\ ~stopped
    /\ NotFetched \/ (IsFetched /\ Refusable(instr))
    /\ pc' = TrapVector
    /\ UNCHANGED <<x, stopped>>

(* mret goes to an address of the privileged architecture. *)
Return ==
    /\ ~stopped /\ IsFetched
    /\ instr.opcode = "SYSTEM" /\ instr.funct3 = Funct3.PRIV
    /\ pc' \in Word
    /\ UNCHANGED <<x, stopped>>

Stop == ~stopped /\ stopped' = TRUE /\ UNCHANGED <<pc, x>>

Debug ==
    /\ stopped
    /\ \E r \in Reg \ {0}, v \in Word : x' = [x EXCEPT ![r] = v]
    /\ UNCHANGED <<pc, stopped>>

Start == stopped /\ stopped' = FALSE /\ pc' \in Word /\ UNCHANGED x

ContractNext ==
    \/ Execute(x)
    \/ Refuse
    \/ Return
    \/ Stop
    \/ Debug
    \/ Start
=============================================================================

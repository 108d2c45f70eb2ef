----------------------------- MODULE MCDatapath -----------------------------
(***************************************************************************)
(* An instance of Datapath for TLC: words of four bits, four registers,    *)
(* and immediates that share their bits with funct7 and rs2.               *)
(***************************************************************************)
EXTENDS DatapathProps, FiniteSetsExt

Bit  == 0..3
Bits(w) == {k \in Bit : (w \div 2^k) % 2 = 1}
Number(bits) == MapThenSumSet(LAMBDA k : 2^k, bits)

MCBitwise ==
    [op \in {"XOR", "OR", "AND"} |-> [p \in Word \X Word |->
        LET a == Bits(p[1])
            b == Bits(p[2])
        IN  Number(CASE op = "OR" -> a \cup b [] op = "AND" -> a \cap b
                     [] op = "XOR" -> (a \cup b) \ (a \cap b))]]

(* Amaranth: a shift left grows, one to the right divides, with the sign of
   the operand, and an assignment cuts. *)
MCShifted ==
    [op \in {"SLL", "SRL", "SRA"} |-> [p \in Word \X Shift |->
        CASE op = "SLL" -> (p[1] * 2^p[2]) % Modulus
          [] op = "SRL" -> p[1] \div 2^p[2]
          [] op = "SRA" -> (Signed(p[1]) \div 2^p[2]) % Modulus]]

(* The manual: bits move, and zeros or the sign follow. *)
ASSUME ShiftsMoveBits ==
    \A a \in Word, n \in Shift :
        /\ Bits(MCShifted["SLL"][a, n]) = {k \in Bit : k - n \in Bits(a)}
        /\ Bits(MCShifted["SRL"][a, n]) = {k \in Bit : k + n \in Bits(a)}
        /\ Bits(MCShifted["SRA"][a, n]) =
             {k \in Bit : (IF k + n > 3 THEN 3 ELSE k + n) \in Bits(a)}

-----------------------------------------------------------------------------
I(opcode, funct3, funct7, rd, rs1, rs2, imm) ==
    [opcode |-> opcode, funct3 |-> funct3, funct7 |-> funct7,
     rd |-> rd, rs1 |-> rs1, rs2 |-> rs2, imm |-> imm]

(* The upper half of an immediate of the I format is funct7, the lower rs2. *)
Immediate(opcode, funct3, rd, rs1, imm) ==
    I(opcode, funct3, <<"ADD", "SUB", "other", "other">>[(imm \div 4) + 1],
      rd, rs1, imm % 4, imm)

RType ==
    {I("ALU", f3, f7, 1, 1, 2, 0) : f3 \in 0..7, f7 \in {"ADD", "SUB", "other"}}
      \cup {I("ALU", Funct3.ADD, "SUB", 2, 0, 1, 0), I("ALU", Funct3.XOR, "ADD", 0, 1, 2, 0),
            I("ALU", Funct3.SLT, "ADD", 2, 2, 2, 0)}

IType ==
    {Immediate("OP_IMM", f3, 1, 1, imm) : f3 \in 0..7, imm \in {1, 3, 5, 7, 9, 15}}
      \cup {Immediate("OP_IMM", Funct3.ADD, 0, 1, 5), Immediate("OP_IMM", Funct3.ADD, 2, 0, 7)}

Jumping ==
    {I("BRANCH", f3, "ADD", 1, 1, 2, imm) : f3 \in 0..7, imm \in {2, 4, 8}}
      \cup {I("BRANCH", Funct3.BGE, "SUB", 2, 2, 1, 12)}
      \cup {I("JAL", 0, "ADD", rd, 1, 2, imm) : rd \in {0, 1}, imm \in {2, 4, 12}}
      \cup {Immediate("JALR", f3, 2, 1, imm) : f3 \in {0, 1}, imm \in {0, 3, 15}}

Others ==
    {I("LUI", 0, "ADD", 1, 2, 2, 8), I("AUIPC", 3, "SUB", 1, 1, 2, 8),
     I("STORE", 2, "SUB", 2, 1, 1, 1), I("STORE", 4, "ADD", 2, 1, 1, 1),
     I("FENCE", 0, "ADD", 1, 1, 1, 0), I("unknown", 0, "SUB", 1, 1, 1, 0)}
      \cup {Immediate("LOAD", f3, 2, 1, 5) : f3 \in {2, 3, 4}}
      \cup {I("SYSTEM", f3, "ADD", 1, 2, 3, 0) : f3 \in {0, 1, 4}}
      \cup {I("SYSTEM", 0, f7, 1, 1, 1, 0) : f7 \in {"MRET", "SFENCE_VMA"}}

MCCode ==
    [a \in Word |-> CASE a = 0 -> RType [] a = 4 -> IType [] a = 8 -> Jumping
                      [] a = 12 -> Others [] a % 4 # 0 -> {}]

MCFaults == {12}

(* Any value for one register, and one value for x0. *)
MCDebugWrites == ({2} \X Word) \cup {<<0, 9>>}
=============================================================================

------------------------------ MODULE Datapath ------------------------------
(***************************************************************************)
(* The arithmetic of the CPU (cpu/cpu.py with adder.py, compare.py,        *)
(* shifter.py, logic.py and upper.py): the decoder, the registers between  *)
(* the states of main_fsm, the units and the register file.  A step is an  *)
(* edge of the clock.                                                      *)
(*                                                                         *)
(* When the hart halts, resumes and traps is the matter of RunControl, how *)
(* long an access takes that of Devices and CsrTrap: here they come at any *)
(* time.  Registers whose value is dead are cleared.                       *)
(***************************************************************************)
EXTENDS IsaFormat

CONSTANT DebugWrites     \* the registers the debugger writes, with the values

(* Any register may be among them: the write port does not keep the debugger
   from x0. *)
ASSUME DebugAssumption == DebugWrites \subseteq Reg \X Word

VARIABLES
    cpu,              \* state of main_fsm
    pc, instr,
    active,           \* the bit of active_unit that is set, or "none"
    sub,              \* adder.sub, latched in DECODE
    gprf,             \* the register file
    rs1val, rs2val,   \* the registers of its read ports
    rdval, pcAddend, newPc, isJalr

latches == <<instr, active, sub, rdval, pcAddend, newPc, isJalr>>
vars    == <<cpu, pc, latches, gprf, rs1val, rs2val>>

Init ==
    /\ cpu = "CHECK_SHOULD_HALT" /\ pc \in Word
    /\ instr = NoInstr /\ active = "none" /\ sub = FALSE
    /\ gprf = [r \in Reg |-> 0]
    /\ rs1val = 0 /\ rs2val = 0 /\ rdval = 0
    /\ pcAddend = 0 /\ newPc = 0 /\ isJalr = FALSE

(* An assignment to 32 bits of a sum or difference of two words. *)
Wrap(v) == IF v >= Modulus THEN v - Modulus ELSE IF v < 0 THEN v + Modulus ELSE v

IsNegative(w) == w >= Half

-----------------------------------------------------------------------------
(***************************************************************************)
(* The decoder.  Funct7 is looked at where an encoding names it.           *)
(***************************************************************************)
MatchLogic(i) ==
    /\ i.funct3 \in {Funct3.OR, Funct3.AND, Funct3.XOR}
    /\ i.opcode = "OP_IMM" \/ (i.opcode = "ALU" /\ i.funct7 = "ADD")

MatchAdder(i) ==
    /\ i.funct3 = Funct3.ADD
    /\ i.opcode = "OP_IMM" \/ (i.opcode = "ALU" /\ i.funct7 \in {"ADD", "SUB"})

MatchShifter(i) ==
    /\ i.opcode \in {"OP_IMM", "ALU"}
    /\ \/ i.funct3 = Funct3.SLL /\ i.funct7 = "ADD"
       \/ i.funct3 = Funct3.SRL /\ i.funct7 \in {"ADD", "SUB"}

MatchCompare(i) ==
    i.opcode \in {"OP_IMM", "ALU"} /\ i.funct3 \in {Funct3.SLT, Funct3.SLTU}

MatchLoad(i) == i.opcode = "LOAD" /\ i.funct3 \in LoadSizes

MatchMemory(i) == MatchLoad(i) \/ (i.opcode = "STORE" /\ i.funct3 \in StoreSizes)

MatchBranch(i) ==
    /\ i.opcode = "BRANCH"
    /\ i.funct3 \in {Funct3.BEQ, Funct3.BNE, Funct3.BLT, Funct3.BGE,
                     Funct3.BLTU, Funct3.BGEU}

MatchCsr(i) == i.opcode = "SYSTEM" /\ i.funct3 \notin {Funct3.PRIV, 4}

Selects(i, unit) ==
    \/ unit = "logic" /\ MatchLogic(i)
    \/ unit = "adder" /\ MatchAdder(i)
    \/ unit = "shifter" /\ MatchShifter(i)
    \/ unit = "mem_unit" /\ MatchMemory(i)
    \/ unit = "compare" /\ MatchCompare(i)
    \/ unit = "lui" /\ i.opcode = "LUI"
    \/ unit = "auipc" /\ i.opcode = "AUIPC"
    \/ unit = "jal" /\ i.opcode = "JAL"
    \/ unit = "jalr" /\ i.opcode = "JALR" /\ i.funct3 = Funct3.JALR
    \/ unit = "branch" /\ MatchBranch(i)
    \/ unit = "csr" /\ MatchCsr(i)
    \/ unit = "mret" /\ i.opcode = "SYSTEM" /\ i.funct3 = Funct3.PRIV /\ i.funct7 = "MRET"

Units == {"logic", "adder", "shifter", "mem_unit", "compare", "lui", "auipc",
          "jal", "jalr", "branch", "csr", "mret"}

(* Instructions that do nothing: they pass EXECUTE with no unit. *)
IsNop(i) ==
    \/ i.opcode = "FENCE"
    \/ i.opcode = "SYSTEM" /\ i.funct3 = Funct3.PRIV /\ i.funct7 = "SFENCE_VMA"

ShouldWriteRd(i) ==
    /\ \/ \E unit \in Units \ {"mem_unit", "branch", "mret"} : Selects(i, unit)
       \/ MatchLoad(i)
    /\ i.rd # 0

-----------------------------------------------------------------------------
(***************************************************************************)
(* The units.  Their inputs follow the read ports and the instruction.     *)
(***************************************************************************)
Src1 == rs1val
Src2 == IF instr.opcode = "OP_IMM" THEN instr.imm ELSE rs2val

AdderSum == IF sub THEN Src1 - Src2 ELSE Src1 + Src2
AdderRes == Wrap(AdderSum)
Carry    == AdderSum \notin Word

Overflow ==
    /\ sub <=> ~(IsNegative(Src1) <=> IsNegative(Src2))
    /\ ~(IsNegative(Src1) <=> IsNegative(AdderRes))

(* Mutant of ConditionMet: the sign of a difference that overflowed. *)
ConditionMetBySign ==
    LET zero == AdderRes = 0
        less == IsNegative(AdderRes)
    IN  \/ instr.funct3 = Funct3.SLT /\ ~zero /\ less
        \/ instr.funct3 = Funct3.SLTU /\ ~zero /\ Carry
        \/ instr.funct3 = Funct3.BEQ /\ zero
        \/ instr.funct3 = Funct3.BNE /\ ~zero
        \/ instr.funct3 = Funct3.BLT /\ less
        \/ instr.funct3 = Funct3.BGE /\ ~less
        \/ instr.funct3 = Funct3.BLTU /\ Carry
        \/ instr.funct3 = Funct3.BGEU /\ ~Carry

ConditionMet ==
    LET zero == AdderRes = 0
        less == ~(IsNegative(AdderRes) <=> Overflow)
    IN  \/ instr.funct3 = Funct3.SLT /\ ~zero /\ less
        \/ instr.funct3 = Funct3.SLTU /\ ~zero /\ Carry
        \/ instr.funct3 = Funct3.BEQ /\ zero
        \/ instr.funct3 = Funct3.BNE /\ ~zero
        \/ instr.funct3 = Funct3.BLT /\ less
        \/ instr.funct3 = Funct3.BGE /\ ~less
        \/ instr.funct3 = Funct3.BLTU /\ Carry
        \/ instr.funct3 = Funct3.BGEU /\ ~Carry

LogicRes ==
    Bitwise[IF instr.funct3 = Funct3.OR THEN "OR"
            ELSE IF instr.funct3 = Funct3.AND THEN "AND" ELSE "XOR"][Src1, Src2]

ShifterRes ==
    Shifted[IF instr.funct3 = Funct3.SLL THEN "SLL"
            ELSE IF instr.funct7 = "ADD" THEN "SRL" ELSE "SRA"][Src1, Src2 % Amount]

(* What EXECUTE latches in rdval; a unit that is not done shows zero, and
   without one the old value stays. *)
UnitResult(v) ==
    \/ active = "logic" /\ v = LogicRes
    \/ active = "adder" /\ v = AdderRes
    \/ active = "shifter" /\ v = ShifterRes
    \/ active = "compare" /\ v = IF ConditionMet THEN 1 ELSE 0
    \/ active = "lui" /\ v = instr.imm
    \/ active = "auipc" /\ v = Wrap(pc + instr.imm)
    \/ active \in {"jal", "jalr"} /\ v = Wrap(pc + 4)
    \/ active \in {"branch", "none"} /\ v = rdval

-----------------------------------------------------------------------------
(***************************************************************************)
(* The states of main_fsm.                                                 *)
(***************************************************************************)
CheckShouldHalt ==
    /\ cpu = "CHECK_SHOULD_HALT"
    /\ cpu' \in {"FETCH", "HALTED"}
    /\ UNCHANGED <<pc, latches>>

StayHalted == cpu = "HALTED" /\ UNCHANGED <<cpu, pc, latches>>

Resume ==
    /\ cpu = "HALTED"
    /\ cpu' = "FETCH" /\ pc' \in Word
    /\ UNCHANGED latches

(* Mutant of Trap: active_unit is left as it is. *)
TrapInUnit ==
    /\ cpu' \in {"TRAP", "HALTED"}
    /\ instr' = IF cpu' = "TRAP" THEN instr ELSE NoInstr
    /\ UNCHANGED <<pc, active, sub, rdval, pcAddend, newPc, isJalr>>

(* trap(): in Debug Mode the hart halts. *)
Trap ==
    /\ cpu' \in {"TRAP", "HALTED"}
    /\ active' = "none"
    /\ instr' = IF cpu' = "TRAP" THEN instr ELSE NoInstr
    /\ UNCHANGED <<pc, sub, rdval, pcAddend, newPc, isJalr>>

Fetch ==
    /\ cpu = "FETCH" /\ pc % 4 = 0
    /\ instr' \in Code[pc]
    /\ cpu' = "DECODE"
    /\ UNCHANGED <<pc, active, sub, rdval, pcAddend, newPc, isJalr>>

FetchTraps ==
    /\ cpu = "FETCH"
    /\ pc % 4 # 0 \/ pc \in Faults
    /\ Trap

Subtracts == instr.opcode = "ALU" /\ instr.funct7 = "SUB"

Decode ==
    /\ cpu = "DECODE"
    /\ cpu' = "EXECUTE"
    /\ \E unit \in Units :
          /\ Selects(instr, unit)
          /\ active' = unit
          /\ sub' = \/ unit = "adder" /\ Subtracts
                    \/ unit \in {"compare", "branch"}
                    \/ unit \notin {"adder", "compare", "branch"} /\ sub
    /\ UNCHANGED <<pc, instr, rdval, pcAddend, newPc, isJalr>>

DecodeNop ==
    /\ cpu = "DECODE" /\ IsNop(instr)
    /\ cpu' = "EXECUTE"
    /\ UNCHANGED <<pc, latches>>

(* ebreak, ecall, what is taken for one of them, and what selects nothing. An
   ebreak that enters Debug Mode does what a trap in Debug Mode does. *)
DecodeTraps ==
    /\ cpu = "DECODE"
    /\ \A unit \in Units : ~Selects(instr, unit)
    /\ ~IsNop(instr)
    /\ Trap

LatchPc ==
    /\ pcAddend' = IF active = "jal" \/ (active = "branch" /\ ConditionMet)
                     THEN instr.imm ELSE 4
    /\ newPc' = IF active = "jalr" THEN Wrap(rs1val + instr.imm) ELSE newPc
    /\ isJalr' = (isJalr \/ active = "jalr")

ExecuteOneCycle ==
    /\ cpu = "EXECUTE" /\ active \notin {"mem_unit", "csr", "mret"}
    /\ cpu' = "WRITEBACK" /\ active' = "none"
    /\ UnitResult(rdval')
    /\ LatchPc
    /\ UNCHANGED <<pc, instr, sub>>

Awaits == cpu = "EXECUTE" /\ active \in {"mem_unit", "csr"}

(* Until the memory unit or the CSR unit is done, EXECUTE latches what nobody
   uses; then it latches the result, which is theirs. *)
ExecuteWaits ==
    /\ Awaits
    /\ rdval' = 0 /\ LatchPc
    /\ UNCHANGED <<cpu, pc, instr, active, sub>>

ExecuteAnswered ==
    /\ Awaits
    /\ cpu' = "WRITEBACK" /\ active' = "none"
    /\ rdval' \in Word /\ LatchPc
    /\ UNCHANGED <<pc, instr, sub>>

(* A bus error, or a csr instruction that is refused. *)
ExecuteTraps == Awaits /\ Trap

ExecuteMret ==
    /\ cpu = "EXECUTE" /\ active = "mret"
    /\ cpu' = "CHECK_SHOULD_HALT" /\ pc' \in Word
    /\ active' = "none" /\ instr' = NoInstr
    /\ LatchPc
    /\ UNCHANGED <<sub, rdval>>

Writeback ==
    /\ cpu = "WRITEBACK"
    /\ cpu' = "CHECK_SHOULD_HALT"
    /\ pc' = IF isJalr THEN newPc ELSE Wrap(pc + pcAddend)
    /\ isJalr' = FALSE
    /\ instr' = NoInstr /\ rdval' = 0 /\ pcAddend' = 0 /\ newPc' = 0
    /\ UNCHANGED <<active, sub>>

EnterTrapHandler ==
    /\ cpu = "TRAP"
    /\ cpu' = "CHECK_SHOULD_HALT" /\ pc' = TrapVector
    /\ active' = "none" /\ instr' = NoInstr
    /\ UNCHANGED <<sub, rdval, pcAddend, newPc, isJalr>>

MainFsm ==
    \/ CheckShouldHalt
    \/ StayHalted
    \/ Resume
    \/ Fetch
    \/ FetchTraps
    \/ Decode
    \/ DecodeNop
    \/ DecodeTraps
    \/ ExecuteOneCycle
    \/ ExecuteWaits
    \/ ExecuteAnswered
    \/ ExecuteTraps
    \/ ExecuteMret
    \/ Writeback
    \/ EnterTrapHandler

-----------------------------------------------------------------------------
(***************************************************************************)
(* The register file: its write port belongs to the debugger while the     *)
(* hart is halted (a command and a resume never meet in a cycle, see       *)
(* RunControl); its read ports show, one cycle later, the registers they   *)
(* are asked for, with what is being written.                              *)
(***************************************************************************)
WritePort ==
    \/ /\ cpu = "HALTED" /\ cpu' = "HALTED"
       /\ \E rv \in DebugWrites : gprf' = [gprf EXCEPT ![rv[1]] = rv[2]]
    \/ /\ cpu = "WRITEBACK" /\ ShouldWriteRd(instr)
       /\ gprf' = [gprf EXCEPT ![instr.rd] = rdval]
    \/ /\ ~(cpu = "WRITEBACK" /\ ShouldWriteRd(instr))
       /\ UNCHANGED gprf

(* The first port reads for the debugger in HALTED and reads rd for lui. *)
ReadPorts ==
    /\ \/ cpu = "HALTED" /\ \E r \in Reg : rs1val' = gprf'[r]
       \/ cpu = "DECODE" /\ Selects(instr, "lui") /\ rs1val' = gprf'[instr.rd]
       \/ /\ cpu # "HALTED" /\ ~(cpu = "DECODE" /\ Selects(instr, "lui"))
          /\ rs1val' = gprf'[instr.rs1]
    /\ rs2val' = gprf'[IF cpu = "HALTED" THEN 0 ELSE instr.rs2]

Edge == MainFsm /\ WritePort /\ ReadPorts

Spec == Init /\ [][Edge]_vars
=============================================================================

---------------------------- MODULE CsrTrapProps ----------------------------
(***************************************************************************)
(* Properties of the CSR unit and the exception unit.                      *)
(***************************************************************************)
EXTENDS CsrTrap

(* Every FSM is in one of its states and every register holds a word. *)
TypeOK ==
    /\ cpu \in {"CHECK", "HALTED", "FETCH", "DECODE", "EXECUTE", "WRITEBACK", "TRAP"}
    /\ pc \in Word /\ instr \in Instr \cup {None} /\ rdval \in Word
    /\ wasHalted \in BOOLEAN /\ debugMode \in BOOLEAN
    /\ priv \in Mode /\ code \in Programs
    /\ csr \in [CsrReg -> Word]
    /\ csrFsm \in {"IDLE", "REG_GENERIC", "REG_SPECIFIC", "FINISH"}
    /\ lat \in [reg : CsrReg, func : Func, x0 : BOOLEAN]
    /\ rdVal \in Word /\ dst \in Word

-----------------------------------------------------------------------------
(* The CSR unit is at work only for the instruction the CPU executes, which
   it does not refuse, and which its latches describe. *)
AccessUnderWay ==
    csrFsm # "IDLE" =>
        /\ Enabled /\ ~Refused
        /\ lat = [reg |-> RegAt(instr.csr), func |-> instr.func, x0 |-> instr.x0]

AboutToWrite ==
    csrFsm = "REG_SPECIFIC" =>
        csr[lat.reg] = rdVal /\ dst = NewValue(lat.func, rdVal, instr.val)

(* What the swap leaves in a register that held old. *)
Swapped(old) ==
    IF OnlyReads(instr.func, instr.x0) THEN old
    ELSE Written(instr.csr, old, NewValue(instr.func, old, instr.val))

WritingBackCsr == cpu = "WRITEBACK" /\ instr.op = "csr"

HasWritten ==
    Vld \/ WritingBackCsr =>
        rdval = rdVal /\ csr[RegAt(instr.csr)] = Swapped(rdval)

(***************************************************************************)
(* A csr instruction is an atomic swap, although it takes four cycles: the *)
(* value that goes to rd is the one the new value was made of, and no      *)
(* other write fell in between.                                            *)
(***************************************************************************)
SwapIsAtomic == AccessUnderWay /\ AboutToWrite /\ HasWritten

(***************************************************************************)
(* Below machine mode mstatus.mpp is the mode itself.  So mret, which the  *)
(* decoder takes in every mode, leads from there to no other mode.         *)
(***************************************************************************)
MppHoldsMode == priv # Machine => csr["mstatus"] \cap Mpp = priv

(* The mode is raised by nothing but a trap that jumps to the handler. *)
ModeRisesOnlyByTrap ==
    [][priv # Machine /\ priv' # priv => priv' = Machine /\ cpu' = "TRAP"]_vars

(* Every csr instruction ends, be it in WRITEBACK or in a trap. *)
CsrAccessEnds == Enabled ~> ~Enabled

-----------------------------------------------------------------------------
(* Programs that enable none of the interrupts, and whose code in the program
   buffer keeps to addresses from which it meets no bus error. *)
EnablesNoIrq(c) ==
    \A a \in Memory : \A i \in c[a] :
        i.op = "csr" /\ i.csr = "mie" => i.val \cap {MsieBit, MeieBit} = {}

QuietWithin(c, addrs) ==
    /\ Progbuf \in addrs
    /\ \A a \in addrs : \A i \in c[a] :
        /\ i.op # "mret"
        /\ i.op \in {"load", "store"} => i.addr \in Memory
        /\ i.op = "jump" => i.to \in addrs \/ i.to \cap Misaligning # {}
        /\ i.op \in {"plain", "load", "store", "csr"} => Follow[a] \in addrs

QuietPrograms ==
    \A c \in Programs :
        EnablesNoIrq(c) /\ \E addrs \in SUBSET Memory : QuietWithin(c, addrs)

-----------------------------------------------------------------------------
(* The state of the contract: the effect of an instruction, or of a trap,
   is there before the CPU has moved pc, and dpc is saved a cycle late. *)
HasExecuted == cpu = "WRITEBACK" \/ Vld

ContractPc ==
    IF HasExecuted THEN (IF instr.op = "jump" THEN instr.to ELSE Follow[pc])
    ELSE IF cpu = "TRAP" THEN csr["mtvec"] \ Misaligning
    ELSE pc

ContractTodo == IF cpu \in {"DECODE", "EXECUTE"} /\ ~Vld THEN instr ELSE None

ContractPlace ==
    IF cpu = "HALTED" THEN "halted" ELSE IF debugMode THEN "progbuf" ELSE "program"

ContractCsr ==
    IF cpu = "HALTED" /\ ~wasHalted /\ ~debugMode THEN [csr EXCEPT !["dpc"] = pc] ELSE csr

Contract == INSTANCE PrivContract WITH
    pc <- ContractPc, csr <- ContractCsr, todo <- ContractTodo, place <- ContractPlace

(* The two units keep the contract of the privileged architecture. *)
KeepsPrivContract == Contract!PrivSpec
=============================================================================

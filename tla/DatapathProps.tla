--------------------------- MODULE DatapathProps ---------------------------
(***************************************************************************)
(* The datapath against the instruction set.                               *)
(***************************************************************************)
EXTENDS Datapath

Manual == INSTANCE IsaContract WITH
    x <- [gprf EXCEPT ![0] = 0], stopped <- (cpu = "HALTED"), instr <- instr

(* Where the code does something else than IsaContract: these steps, and no
   others.  The sum of jalr keeps its lowest bit (cpu.py:699). *)
OddJalr ==
    instr.opcode = "JALR" /\ pc' % 2 = 1 /\ Manual!Completes(gprf, pc')

(* The debugger may write x0 (cpu.py:317), which is a register like the
   others: an instruction then reads there what was written. *)
SpoiledZero ==
    gprf[0] # 0 /\ 0 \in {instr.rs1, instr.rs2} /\ Manual!Execute(gprf)

(***************************************************************************)
(* The decoder, the flags of the adder, the registers between the states   *)
(* of main_fsm and the ports of the register file together execute each    *)
(* instruction once, as the instruction set has it ("implements basic ISA  *)
(* rv32i", README.md): with the operands the registers hold when it        *)
(* begins, whatever was executed, refused or debugged before it, and with  *)
(* the two exceptions above: an odd target of jalr, which is not rounded,  *)
(* and a source register x0 that the debugger has written.                 *)
(***************************************************************************)
IsaUpToDeviations ==
    /\ Manual!ContractInit
    /\ [][Manual!ContractNext \/ OddJalr \/ SpoiledZero]_(Manual!contractVars)

-----------------------------------------------------------------------------
TypeOK ==
    /\ cpu \in {"CHECK_SHOULD_HALT", "HALTED", "FETCH", "DECODE", "EXECUTE",
                "WRITEBACK", "TRAP"}
    /\ pc \in Word
    /\ instr \in Instr
    /\ active \in Units \cup {"none"}
    /\ sub \in BOOLEAN /\ isJalr \in BOOLEAN
    /\ gprf \in [Reg -> Word]
    /\ rs1val \in Word /\ rs2val \in Word
    /\ rdval \in Word /\ pcAddend \in Word /\ newPc \in Word

(* What the FSM works on was fetched from where pc points, and what it
   refuses may be refused. *)
Fetched ==
    /\ cpu \in {"DECODE", "EXECUTE", "WRITEBACK"} =>
         pc % 4 = 0 /\ instr \in Code[pc]
    /\ cpu = "TRAP" =>
         \/ Manual!NotFetched
         \/ pc % 4 = 0 /\ instr \in Code[pc] /\ Manual!Refusable(instr)

(* A bit of active_unit outlives no instruction, and adder.sub, which does,
   is right where it is used. *)
UnitFits ==
    /\ active # "none" => cpu = "EXECUTE" /\ Selects(instr, active)
    /\ cpu = "EXECUTE" /\ active = "none" => IsNop(instr)
    /\ active \in {"compare", "branch"} => sub
    /\ active = "adder" => (sub <=> Subtracts)

(* The read ports show the registers of the instruction in every cycle of
   EXECUTE, that of an access as long as a slave takes. *)
OperandsStand ==
    cpu = "EXECUTE" =>
        /\ active # "lui" => rs1val = gprf[instr.rs1]
        /\ rs2val = gprf[instr.rs2]

(* WRITEBACK finds the result of its instruction, not that of an earlier
   one. *)
ResultStands ==
    /\ isJalr => cpu = "WRITEBACK"
    /\ cpu = "WRITEBACK" =>
         /\ Manual!Legal(instr) \/ Manual!Reserved(instr)
         /\ ShouldWriteRd(instr) <=> Manual!WritesRd(instr)
         /\ ShouldWriteRd(instr) => Manual!Result(instr, gprf, rdval)
         /\ Manual!Target(instr, gprf, IF isJalr THEN newPc ELSE Wrap(pc + pcAddend))

(* The latches of the CPU hold what belongs to the instruction at pc, in each
   state in which they are used. *)
LatchesFit == TypeOK /\ Fetched /\ UnitFits /\ OperandsStand /\ ResultStands
=============================================================================

----------------------------- MODULE RunControl -----------------------------
(***************************************************************************)
(* Run control of the mtkcpu core: the main FSM of the CPU (cpu/cpu.py),   *)
(* the two request/acknowledge FSMs between the CPU and the Debug Module   *)
(* (debug/cpu_dm_if.py), the Debug Module's DMI FSM (debug/top.py) with    *)
(* all of its register handlers (debug/dmi_handlers.py), and the ownership *)
(* of the memory bus (loadstore.py).                                       *)
(*                                                                         *)
(* The hardware is one synchronous clock domain: a step of this module is  *)
(* one clock edge, at which every register takes its next value.  A        *)
(* combinational signal of the code is a state function here, a sync       *)
(* assignment is a primed variable.  What is left to choice is what comes  *)
(* from outside: the instruction a fetch returns, how long a bus slave     *)
(* takes, and the DMI operations of the debugger.                          *)
(***************************************************************************)
EXTENDS Naturals

CONSTANTS
    Addr,          \* instruction addresses
    Follow,        \* Follow[a]: the address a + 4
    Misaligned,    \* addresses with a non-zero bit in pc & 0b11
    Unmapped,      \* addresses no bus slave decodes
    Code,          \* Code[a]: the instructions a fetch from a may return
    ResetPc,       \* pc_reset_value
    DpcReset,      \* the value of dpc out of reset
    ProgbufEntry,  \* PROGBUF_MMIO_ADDR
    TrapVector,    \* mtvec.base
    Reg, X0,       \* general purpose registers, and the one hardwired to zero
    Val, Zero,     \* register values
    DmiOps,        \* operations the debugger may issue over the DMI
    PoliteDebugger \* TRUE: it asks for a resume only of a hart it read as halted

-----------------------------------------------------------------------------
(***************************************************************************)
(* Instructions, by what the control of the core tells apart.  "plain" is  *)
(* every instruction of the one-cycle units, "mem" and "badmem" a load or  *)
(* store whose address some (no) slave decodes, "csr" an access to a CSR   *)
(* other than dcsr and dpc, "trap" an ecall or an illegal instruction,     *)
(* "jump" a jal, jalr or taken branch.                                     *)
(***************************************************************************)
Instr ==
    [op : {"plain", "mem", "badmem", "csr", "ebreak", "trap", "none"}]
      \cup [op : {"jump", "mret", "dpc"}, to : Addr]
      \cup [op : {"dcsr"}, step : BOOLEAN, ebreakm : BOOLEAN]

NoInstr == [op |-> "none"]

Memory   == {"mem", "badmem"}
DebugCsr == {"dcsr", "dpc"}
CsrOps   == {"csr"} \cup DebugCsr

(***************************************************************************)
(* CMDERR: the three bits of abstractcs.cmderr that are set.               *)
(***************************************************************************)
CmdErr       == SUBSET {0, 1, 2}
NoErr        == {}
NotSupported == {1}
Exception    == {0, 1}
HaltOrResume == {2}

(***************************************************************************)
(* An abstract command (COMMAND_Layout): its type, the register transfer   *)
(* it asks for ("badsize" and "badreg" are the unsupported ones) and       *)
(* whether the program buffer is executed afterwards.                      *)
(***************************************************************************)
Command ==
    [cmdtype  : {"AccessRegister", "other"},
     transfer : {"none", "badsize", "badreg", "read", "write"},
     regno    : Reg,
     postexec : BOOLEAN]

NoCommand ==
    [cmdtype |-> "AccessRegister", transfer |-> "none",
     regno |-> X0, postexec |-> FALSE]

DataReg == {"DATA0", "DATA1"}

(***************************************************************************)
(* A DMI write, decoded by the layout of the register it addresses.        *)
(***************************************************************************)
DmiWrite ==
    [reg : {"DMCONTROL"}, dmactive : BOOLEAN, haltreq : BOOLEAN,
     resumereq : BOOLEAN, otherHart : BOOLEAN]
      \cup [reg : {"COMMAND"}, command : Command]
      \cup [reg : DataReg, value : Val]
      \cup [reg : {"ABSTRACTCS"}, cmderr : CmdErr]
      \cup [reg : {"ABSTRACTAUTO"}, autoexec : SUBSET DataReg]
      \cup [reg : {"PROGBUF", "unimplemented"}]

(***************************************************************************)
(* The registers of dmi_regs, which a DMI read finds.                      *)
(***************************************************************************)
ReadableReg == DataReg \cup {"DMSTATUS", "DMCONTROL", "HARTINFO", "ABSTRACTCS",
                             "COMMAND", "ABSTRACTAUTO"}

DmiOp == [op : {"READ"}, reg : ReadableReg \cup {"unimplemented"}]
           \cup [op : {"WRITE"}, write : DmiWrite]

NoWrite == [reg |-> "unimplemented"]

ASSUME AddrAssumption ==
    /\ {ResetPc, DpcReset, ProgbufEntry, TrapVector} \subseteq Addr
    /\ Misaligned \subseteq Addr
    /\ Unmapped \subseteq Addr
    /\ ProgbufEntry \notin Misaligned \cup Unmapped
    /\ Follow \in [Addr -> Addr]
    /\ Code \in [Addr -> SUBSET (Instr \ {NoInstr})]
    /\ \A a \in Addr \ (Misaligned \cup Unmapped) : Code[a] # {}

ASSUME RegAssumption ==
    /\ X0 \in Reg
    /\ Zero \in Val

ASSUME DebuggerAssumption ==
    /\ DmiOps \subseteq DmiOp
    /\ PoliteDebugger \in BOOLEAN

-----------------------------------------------------------------------------
VARIABLES
    \* The hart.
    cpu,         \* state of main_fsm
    pc,
    instr,       \* the fetched instruction, NoInstr where its value is dead
    csrFsm,      \* state of the CSR unit's FSM
    dpc, cause,  \* Debug CSRs: resume address, dcsr.cause
    step,        \* dcsr.step
    ebreakm,     \* dcsr.ebreakm
    debugMode,   \* is_debug_mode: the program buffer is being executed
    wasHalted,   \* halted one cycle ago: prev(halted), and DMSTATUS.allhalted
    singleStep,  \* single_step_is_active
    gpr,
    \* The handshake.
    haltFsm, resumeFsm,
    \* The bus arbiter.
    granted,     \* pe.i: the ports whose request is latched
    \* The Debug Module.
    dm,          \* state of the DMI FSM
    req,         \* dmi_write_address and dmi_write_value
    cmdFsm,      \* HandlerCOMMAND: TRANSFER or POSTEXEC
    xferFsm,     \* HandlerCOMMAND: the GPR access inside TRANSFER
    peFsm,       \* HandlerCOMMAND: the execution inside POSTEXEC
    dataFsm,     \* HandlerDATA
    realDpc,     \* dpc saved over a program buffer execution
    \* DMI registers.
    dmactive, command, data, autoexec, cmderr, busy,
    resumeAcked,   \* DMSTATUS.allresumeack
    nonexistent,   \* DMSTATUS.allnonexistent
    rdata          \* the register whose value the DMI read data holds

cpuVars  == <<cpu, pc, instr, csrFsm, cause, step, ebreakm>>
execVars == <<cmdFsm, xferFsm, peFsm, dataFsm, realDpc, debugMode>>
dmiRegs  == <<dmactive, command, data, autoexec, nonexistent, rdata>>
dmVars   == <<dm, req, busy, cmderr, execVars, dmiRegs>>
edgeVars == <<haltFsm, resumeFsm, granted, wasHalted, singleStep, resumeAcked>>
vars     == <<cpuVars, dmVars, edgeVars, dpc, gpr>>

CpuTypeOK ==
    /\ cpu \in {"CHECK_SHOULD_HALT", "HALTED", "FETCH", "DECODE", "EXECUTE",
                "WRITEBACK", "TRAP"}
    /\ pc \in Addr
    /\ instr \in Instr
    /\ csrFsm \in {"IDLE", "REG_GENERIC", "REG_SPECIFIC", "FINISH"}
    /\ cause \in {"NO_CAUSE", "EBREAK", "HALTREQ", "STEP"}
    /\ step \in BOOLEAN /\ ebreakm \in BOOLEAN

DmTypeOK ==
    /\ dm \in {"IDLE", "DEASSERT_BUSY", "WAIT"}
    /\ req \in DmiWrite
    /\ busy \in BOOLEAN
    /\ cmderr \in CmdErr
    /\ cmdFsm \in {"TRANSFER", "POSTEXEC"}
    /\ xferFsm \in {"A", "B"}
    /\ peFsm \in {"SANITY_CHECK", "A", "B", "C", "D"}
    /\ dataFsm \in {"LATCH", "MAYBE_TRIGGER_COMMAND_EXEC"}
    /\ realDpc \in Addr
    /\ debugMode \in BOOLEAN
    /\ dmactive \in BOOLEAN
    /\ command \in Command
    /\ data \in [DataReg -> Val]
    /\ autoexec \subseteq DataReg
    /\ nonexistent \in BOOLEAN
    /\ rdata \in ReadableReg \cup {"none"}

EdgeTypeOK ==
    /\ haltFsm \in {"A", "B"} /\ resumeFsm \in {"A", "B"}
    /\ granted \subseteq {"debug", "dbus", "ibus"}
    /\ wasHalted \in BOOLEAN
    /\ singleStep \in BOOLEAN
    /\ resumeAcked \in BOOLEAN
    /\ dpc \in Addr
    /\ gpr \in [Reg -> Val]

TypeOK == CpuTypeOK /\ DmTypeOK /\ EdgeTypeOK

Init ==
    /\ cpu = "CHECK_SHOULD_HALT" /\ pc = ResetPc /\ instr = NoInstr
    /\ csrFsm = "IDLE"
    /\ dpc = DpcReset /\ cause = "NO_CAUSE"
    /\ step = FALSE /\ ebreakm = FALSE /\ debugMode = FALSE
    /\ wasHalted = FALSE /\ singleStep = FALSE
    /\ gpr = [r \in Reg |-> Zero]
    /\ haltFsm = "A" /\ resumeFsm = "A"
    /\ granted = {}
    /\ dm = "IDLE" /\ req = NoWrite
    /\ cmdFsm = "TRANSFER" /\ xferFsm = "A" /\ peFsm = "SANITY_CHECK"
    /\ dataFsm = "LATCH"
    /\ realDpc = DpcReset
    /\ dmactive = FALSE /\ command = NoCommand
    /\ data = [d \in DataReg |-> Zero]
    /\ autoexec = {} /\ cmderr = NoErr /\ busy = FALSE
    /\ resumeAcked = FALSE /\ nonexistent = FALSE /\ rdata = "none"

-----------------------------------------------------------------------------
(***************************************************************************)
(* Combinational signals between the CPU and the Debug Module.             *)
(***************************************************************************)
Halted == cpu = "HALTED"

(***************************************************************************)
(* HandlerCOMMAND is active for a write to COMMAND, and for a write to a   *)
(* data register whose autoexec bit is set, once the data is latched.      *)
(***************************************************************************)
Handles(r) == dm = "WAIT" /\ req.reg = r

AutoExec ==
    /\ \E d \in autoexec : Handles(d)
    /\ dataFsm = "MAYBE_TRIGGER_COMMAND_EXEC"

CommandActive == Handles("COMMAND") \/ AutoExec

Executing(s) ==
    /\ CommandActive
    /\ command.cmdtype = "AccessRegister"
    /\ cmdFsm = "POSTEXEC"
    /\ command.postexec
    /\ peFsm = s

Transferring(kind, s) ==
    /\ CommandActive
    /\ command.cmdtype = "AccessRegister"
    /\ cmdFsm = "TRANSFER"
    /\ command.transfer = kind
    /\ xferFsm = s

HaltReq == Handles("DMCONTROL") /\ dmactive /\ req.haltreq

ResumeReq ==
    \/ Handles("DMCONTROL") /\ dmactive /\ ~req.haltreq /\ req.resumereq
    \/ Executing("C")

HaltAck   == haltFsm = "B" /\ Halted
ResumeAck == resumeFsm = "B" /\ ~Halted

JustHalted  == ~wasHalted /\ Halted
JustResumed == wasHalted /\ ~Halted

HaltOnEbreak == debugMode \/ ebreakm

-----------------------------------------------------------------------------
(***************************************************************************)
(* The memory bus.  A port is connected to the bus when its request is     *)
(* latched in pe.i and no port of higher priority (debug, dbus, ibus) is   *)
(* latched with it.  Slaves answer after a delay of their own; an address  *)
(* no slave decodes raises interconnect_error at once.                     *)
(***************************************************************************)
PortEn(p) ==
    \/ p = "debug" /\ Handles("PROGBUF")
    \/ p = "dbus" /\ cpu = "EXECUTE" /\ instr.op \in Memory
    \/ p = "ibus" /\ cpu = "FETCH" /\ pc \notin Misaligned

Owns(p) ==
    /\ p \in granted
    /\ p = "dbus" => "debug" \notin granted
    /\ p = "ibus" => granted = {"ibus"}

Ports == {"debug", "dbus", "ibus"}

BusEn == \E p \in Ports : Owns(p) /\ PortEn(p)

NoSlave ==
    \/ Owns("ibus") /\ pc \in Unmapped
    \/ Owns("dbus") /\ instr.op = "badmem"

BusAnswers ==
    IF ~BusEn THEN {"none"} ELSE IF NoSlave THEN {"error"} ELSE {"wait", "ack"}

Ack(p, ans) == ans = "ack" /\ Owns(p)

(* bus_free_to_latch: with no port driving the bus, all requests of this
   cycle are latched; otherwise the latched ones stay. *)
LatchRequests ==
    granted' = IF BusEn THEN granted ELSE {p \in Ports : PortEn(p)}

-----------------------------------------------------------------------------
(***************************************************************************)
(* The main FSM of the CPU, one action per way out of (or stay in) a state.*)
(***************************************************************************)
DebugCsrDenied == instr.op \in DebugCsr /\ csrFsm = "IDLE" /\ ~debugMode

(* The conditions under which the code calls trap() in this cycle. *)
Traps(ans) ==
    \/ cpu = "FETCH" /\ (pc \in Misaligned \/ ans = "error")
    \/ cpu = "DECODE" /\ instr.op = "trap"
    \/ cpu = "DECODE" /\ instr.op = "ebreak" /\ ~HaltOnEbreak
    \/ cpu = "EXECUTE" /\ instr.op \in Memory /\ ans = "error"
    \/ cpu = "EXECUTE" /\ DebugCsrDenied

ErrorOnProgbuf(ans) == debugMode /\ Traps(ans)

(* Mutant of Trap: without the TRAP state, the hart fetches from mtvec in the
   next cycle. *)
TrapAtOnce(ans) ==
    /\ Traps(ans)
    /\ cpu' = IF debugMode THEN "HALTED" ELSE "FETCH"
    /\ pc' = IF debugMode THEN pc ELSE TrapVector
    /\ instr' = NoInstr
    /\ UNCHANGED <<csrFsm, cause, step, ebreakm>>

Trap(ans) ==
    /\ Traps(ans)
    /\ cpu' = IF debugMode THEN "HALTED" ELSE "TRAP"
    /\ instr' = NoInstr
    /\ UNCHANGED <<pc, csrFsm, cause, step, ebreakm>>

EnterHalt(why) ==
    /\ cpu' = "HALTED"
    /\ cause' = why
    /\ instr' = NoInstr
    /\ UNCHANGED <<pc, csrFsm, step, ebreakm>>

CheckShouldHalt ==
    /\ cpu = "CHECK_SHOULD_HALT"
    /\ \/ HaltReq /\ EnterHalt("HALTREQ")
       \/ ~HaltReq /\ singleStep /\ EnterHalt("STEP")
       \/ /\ ~HaltReq /\ ~singleStep
          /\ cpu' = "FETCH"
          /\ UNCHANGED <<pc, instr, csrFsm, cause, step, ebreakm>>

StayHalted == cpu = "HALTED" /\ ~ResumeReq /\ UNCHANGED cpuVars

Resume ==
    /\ cpu = "HALTED" /\ ResumeReq
    /\ pc' = dpc
    /\ cpu' = "FETCH"
    /\ UNCHANGED <<instr, csrFsm, cause, step, ebreakm>>

Fetch(ans) ==
    /\ cpu = "FETCH" /\ Ack("ibus", ans)
    /\ \E i \in Code[pc] : instr' = i
    /\ cpu' = "DECODE"
    /\ UNCHANGED <<pc, csrFsm, cause, step, ebreakm>>

FetchWaits(ans) ==
    /\ cpu = "FETCH" /\ ~Traps(ans) /\ ~Ack("ibus", ans)
    /\ UNCHANGED cpuVars

Decode(ans) ==
    /\ cpu = "DECODE" /\ ~Traps(ans)
    /\ \/ instr.op = "ebreak" /\ EnterHalt("EBREAK")
       \/ /\ instr.op # "ebreak"
          /\ cpu' = "EXECUTE"
          /\ UNCHANGED <<pc, instr, csrFsm, cause, step, ebreakm>>

ToWriteback == cpu' = "WRITEBACK" /\ UNCHANGED <<pc, instr, cause>>

ExecuteOneCycle ==
    /\ cpu = "EXECUTE" /\ instr.op \in {"plain", "jump"}
    /\ ToWriteback
    /\ UNCHANGED <<csrFsm, step, ebreakm>>

ExecuteMemory(ans) ==
    /\ cpu = "EXECUTE" /\ instr.op \in Memory /\ ans # "error"
    /\ IF Ack("dbus", ans) THEN ToWriteback ELSE UNCHANGED <<cpu, pc, instr, cause>>
    /\ UNCHANGED <<csrFsm, step, ebreakm>>

(* The CSR unit needs four cycles; the write takes effect in the third. *)
CsrWrites(op) == cpu = "EXECUTE" /\ instr.op = op /\ csrFsm = "REG_SPECIFIC"

ExecuteCsr ==
    /\ cpu = "EXECUTE" /\ instr.op \in CsrOps /\ ~DebugCsrDenied
    /\ csrFsm' = CASE csrFsm = "IDLE" -> "REG_GENERIC"
                   [] csrFsm = "REG_GENERIC" -> "REG_SPECIFIC"
                   [] csrFsm = "REG_SPECIFIC" -> "FINISH"
                   [] csrFsm = "FINISH" -> "IDLE"
    /\ IF CsrWrites("dcsr")
         THEN step' = instr.step /\ ebreakm' = instr.ebreakm
         ELSE UNCHANGED <<step, ebreakm>>
    /\ IF csrFsm = "FINISH" THEN ToWriteback ELSE UNCHANGED <<cpu, pc, instr, cause>>

(* Mutant of FetchWithNewPc: a jump to a trap handler skips the halt check. *)
FetchUnchecked(a) ==
    /\ pc' = a
    /\ cpu' = "FETCH"
    /\ instr' = NoInstr
    /\ UNCHANGED <<csrFsm, cause, step, ebreakm>>

(* fetch_with_new_pc, from mret and from TRAP *)
FetchWithNewPc(a) ==
    /\ pc' = a
    /\ cpu' = "CHECK_SHOULD_HALT"
    /\ instr' = NoInstr
    /\ UNCHANGED <<csrFsm, cause, step, ebreakm>>

ExecuteMret == cpu = "EXECUTE" /\ instr.op = "mret" /\ FetchWithNewPc(instr.to)

EnterTrapHandler == cpu = "TRAP" /\ FetchWithNewPc(TrapVector)

NextPc == IF instr.op = "jump" THEN instr.to ELSE Follow[pc]

Writeback ==
    /\ cpu = "WRITEBACK"
    /\ pc' = NextPc
    /\ cpu' = "CHECK_SHOULD_HALT"
    /\ instr' = NoInstr
    /\ UNCHANGED <<csrFsm, cause, step, ebreakm>>

CpuStep(ans) ==
    \/ CheckShouldHalt
    \/ StayHalted
    \/ Resume
    \/ Fetch(ans)
    \/ FetchWaits(ans)
    \/ Decode(ans)
    \/ ExecuteOneCycle
    \/ ExecuteMemory(ans)
    \/ ExecuteCsr
    \/ ExecuteMret
    \/ Writeback
    \/ EnterTrapHandler
    \/ Trap(ans)

-----------------------------------------------------------------------------
(***************************************************************************)
(* The DMI FSM.  In IDLE it takes an operation of the debugger; operations *)
(* that arrive in another state are dropped.                               *)
(***************************************************************************)
IsResume(w) == w.reg = "DMCONTROL" /\ w.resumereq /\ ~w.haltreq

DmiNop == dm = "IDLE" /\ UNCHANGED dmVars

DmiRead(r) ==
    /\ dm = "IDLE"
    /\ dm' = "DEASSERT_BUSY" /\ busy' = TRUE
    /\ IF r \in ReadableReg
         THEN rdata' = r /\ UNCHANGED cmderr
         ELSE cmderr' = NotSupported /\ UNCHANGED rdata
    /\ UNCHANGED <<req, execVars, dmactive, command, data, autoexec, nonexistent>>

DeassertBusy ==
    /\ dm = "DEASSERT_BUSY"
    /\ dm' = "IDLE" /\ busy' = FALSE
    /\ UNCHANGED <<req, cmderr, execVars, dmiRegs>>

AcceptWrite(w) ==
    /\ dm = "IDLE"
    /\ PoliteDebugger /\ IsResume(w) => wasHalted
    /\ dm' = "WAIT" /\ busy' = TRUE
    /\ req' = w
    /\ command' = IF w.reg = "COMMAND" THEN w.command ELSE command
    /\ UNCHANGED <<cmderr, execVars, dmactive, data, autoexec, nonexistent, rdata>>

DmiUpdate ==
    \E o \in DmiOps :
        \/ o.op = "READ" /\ DmiRead(o.reg)
        \/ o.op = "WRITE" /\ AcceptWrite(o.write)

(***************************************************************************)
(* In WAIT, cmderr takes command_err in every cycle: it is zero until the  *)
(* active handler raises an error in the cycle of command_finished.        *)
(***************************************************************************)
Finish(err) == dm' = "IDLE" /\ busy' = FALSE /\ cmderr' = err /\ UNCHANGED req

Continue == cmderr' = NoErr /\ UNCHANGED <<dm, busy, req>>

(* Mutant of HandleDmcontrol: it does not wait for resumeack. *)
HandleDmcontrolHasty ==
    /\ Handles("DMCONTROL")
    /\ nonexistent' = IF dmactive THEN req.otherHart ELSE nonexistent
    /\ IF HaltReq /\ ~HaltAck
         THEN Continue /\ UNCHANGED dmactive
         ELSE Finish(NoErr) /\ dmactive' = req.dmactive
    /\ UNCHANGED <<execVars, command, data, autoexec, rdata>>

HandleDmcontrol ==
    /\ Handles("DMCONTROL")
    /\ nonexistent' = IF dmactive THEN req.otherHart ELSE nonexistent
    /\ IF (HaltReq /\ ~HaltAck) \/ (ResumeReq /\ ~ResumeAck)
         THEN Continue /\ UNCHANGED dmactive
         ELSE Finish(NoErr) /\ dmactive' = req.dmactive
    /\ UNCHANGED <<execVars, command, data, autoexec, rdata>>

(* Mutant of HandleData: the command is triggered before the data is latched. *)
HandleDataLate ==
    /\ \E d \in DataReg : Handles(d)
    /\ \/ /\ dataFsm = "LATCH"
          /\ dataFsm' = "MAYBE_TRIGGER_COMMAND_EXEC"
          /\ Continue
          /\ UNCHANGED data
       \/ /\ dataFsm = "MAYBE_TRIGGER_COMMAND_EXEC" /\ ~AutoExec
          /\ dataFsm' = "LATCH"
          /\ Finish(NoErr)
          /\ data' = [data EXCEPT ![req.reg] = req.value]
    /\ UNCHANGED <<cmdFsm, xferFsm, peFsm, realDpc, debugMode,
                   dmactive, command, autoexec, nonexistent, rdata>>

HandleData ==
    /\ \E d \in DataReg : Handles(d)
    /\ \/ /\ dataFsm = "LATCH"
          /\ data' = [data EXCEPT ![req.reg] = req.value]
          /\ dataFsm' = "MAYBE_TRIGGER_COMMAND_EXEC"
          /\ Continue
       \/ /\ dataFsm = "MAYBE_TRIGGER_COMMAND_EXEC" /\ ~AutoExec
          /\ dataFsm' = "LATCH"
          /\ Finish(NoErr)
          /\ UNCHANGED data
    /\ UNCHANGED <<cmdFsm, xferFsm, peFsm, realDpc, debugMode,
                   dmactive, command, autoexec, nonexistent, rdata>>

(* The handler's write to cmderr overrides that of the DMI FSM. *)
HandleAbstractcs ==
    /\ Handles("ABSTRACTCS")
    /\ Finish(cmderr \ req.cmderr)
    /\ UNCHANGED <<execVars, dmiRegs>>

HandleAbstractauto ==
    /\ Handles("ABSTRACTAUTO")
    /\ autoexec' = req.autoexec
    /\ Finish(NoErr)
    /\ UNCHANGED <<execVars, dmactive, command, data, nonexistent, rdata>>

HandleProgbuf(ans) ==
    /\ Handles("PROGBUF")
    /\ IF Ack("debug", ans) THEN Finish(NoErr) ELSE Continue
    /\ UNCHANGED <<execVars, dmiRegs>>

HandleUnimplemented ==
    /\ Handles("unimplemented")
    /\ Finish(NotSupported)
    /\ UNCHANGED <<execVars, dmiRegs>>

(***************************************************************************)
(* HandlerCOMMAND.  When it finishes, a HandlerDATA that activated it      *)
(* returns to LATCH; otherwise dataFsm is in LATCH already.                *)
(***************************************************************************)
CommandFinishes(err) == Finish(err) /\ dataFsm' = "LATCH"

CommandContinues == Continue /\ UNCHANGED dataFsm

CommandUnsupported ==
    /\ CommandActive
    /\ \/ command.cmdtype # "AccessRegister"
       \/ cmdFsm = "TRANSFER" /\ command.transfer \in {"badsize", "badreg"}
    /\ CommandFinishes(NotSupported)
    /\ UNCHANGED <<cmdFsm, xferFsm, peFsm, realDpc, debugMode, dmiRegs>>

NoTransfer ==
    /\ Transferring("none", xferFsm)
    /\ cmdFsm' = "POSTEXEC"
    /\ CommandContinues
    /\ UNCHANGED <<xferFsm, peFsm, realDpc, debugMode, dmiRegs>>

TransferBegins ==
    /\ Transferring("read", "A") \/ Transferring("write", "A")
    /\ xferFsm' = "B"
    /\ CommandContinues
    /\ UNCHANGED <<cmdFsm, peFsm, realDpc, debugMode, dmiRegs>>

(* Mutant of DebugReadData: the read port's output is taken in the cycle its
   address is set up, when it still shows the register read before. *)
DebugReadTooEarly == IF Halted THEN {gpr[r] : r \in Reg} ELSE {Zero}

(* gprf_debug_data: zero while the hart runs.  The register file is read a
   cycle earlier; a hart that ran in that cycle read a register of its own. *)
DebugReadData ==
    CASE ~Halted             -> {Zero}
      [] Halted /\ wasHalted -> {gpr[command.regno]}
      [] OTHER               -> {gpr[r] : r \in Reg}

TransferEnds ==
    /\ \/ Transferring("read", "B") /\ \E v \in DebugReadData : data' = [data EXCEPT !["DATA0"] = v]
       \/ Transferring("write", "B") /\ UNCHANGED data
    /\ xferFsm' = "A" /\ cmdFsm' = "POSTEXEC"
    /\ CommandContinues
    /\ UNCHANGED <<peFsm, realDpc, debugMode, dmactive, command, autoexec,
                   nonexistent, rdata>>

Done(err) == CommandFinishes(err) /\ cmdFsm' = "TRANSFER"

NoPostexec ==
    /\ CommandActive /\ command.cmdtype = "AccessRegister"
    /\ cmdFsm = "POSTEXEC" /\ ~command.postexec
    /\ Done(NoErr)
    /\ UNCHANGED <<xferFsm, peFsm, realDpc, debugMode, dmiRegs>>

(* Mutants of SanityCheck: it lets a running hart through, or ends without
   an error. *)
NoSanityCheck ==
    /\ Executing("SANITY_CHECK")
    /\ peFsm' = "A" /\ CommandContinues
    /\ UNCHANGED <<cmdFsm, xferFsm, realDpc, debugMode, dmiRegs>>

SilentSanityCheck ==
    /\ Executing("SANITY_CHECK")
    /\ IF Halted
         THEN peFsm' = "A" /\ CommandContinues /\ UNCHANGED cmdFsm
         ELSE Done(NoErr) /\ UNCHANGED peFsm
    /\ UNCHANGED <<xferFsm, realDpc, debugMode, dmiRegs>>

SanityCheck ==
    /\ Executing("SANITY_CHECK")
    /\ IF Halted
         THEN peFsm' = "A" /\ CommandContinues /\ UNCHANGED cmdFsm
         ELSE Done(HaltOrResume) /\ UNCHANGED peFsm
    /\ UNCHANGED <<xferFsm, realDpc, debugMode, dmiRegs>>

(* Mutant of SaveDpc: is_debug_mode is left low. *)
SaveDpcOnly ==
    /\ Executing("A")
    /\ realDpc' = dpc
    /\ peFsm' = "B" /\ CommandContinues
    /\ UNCHANGED <<cmdFsm, xferFsm, debugMode, dmiRegs>>

SaveDpc ==
    /\ Executing("A")
    /\ realDpc' = dpc /\ debugMode' = TRUE
    /\ peFsm' = "B" /\ CommandContinues
    /\ UNCHANGED <<cmdFsm, xferFsm, dmiRegs>>

PointDpcToProgbuf ==
    /\ Executing("B")
    /\ peFsm' = "C" /\ CommandContinues
    /\ UNCHANGED <<cmdFsm, xferFsm, realDpc, debugMode, dmiRegs>>

(* Mutant of StartProgbuf: the resume request is a pulse of one cycle. *)
PulseProgbuf ==
    /\ Executing("C")
    /\ peFsm' = "D"
    /\ CommandContinues
    /\ UNCHANGED <<cmdFsm, xferFsm, realDpc, debugMode, dmiRegs>>

StartProgbuf ==
    /\ Executing("C")
    /\ peFsm' = IF ResumeAck THEN "D" ELSE "C"
    /\ CommandContinues
    /\ UNCHANGED <<cmdFsm, xferFsm, realDpc, debugMode, dmiRegs>>

(* Mutant of AwaitProgbuf: it does not look at error_on_progbuf_execution. *)
AwaitHaltOnly(ans) ==
    /\ Executing("D")
    /\ \/ /\ Halted
          /\ Done(NoErr) /\ peFsm' = "SANITY_CHECK" /\ debugMode' = FALSE
       \/ /\ ~Halted
          /\ CommandContinues /\ UNCHANGED <<cmdFsm, peFsm, debugMode>>
    /\ UNCHANGED <<xferFsm, realDpc, dmiRegs>>

AwaitProgbuf(ans) ==
    /\ Executing("D")
    /\ \/ /\ Halted
          /\ Done(NoErr) /\ peFsm' = "SANITY_CHECK" /\ debugMode' = FALSE
       \/ /\ ~Halted /\ ErrorOnProgbuf(ans)
          /\ Done(Exception) /\ peFsm' = "SANITY_CHECK" /\ UNCHANGED debugMode
       \/ /\ ~Halted /\ ~ErrorOnProgbuf(ans)
          /\ CommandContinues /\ UNCHANGED <<cmdFsm, peFsm, debugMode>>
    /\ UNCHANGED <<xferFsm, realDpc, dmiRegs>>

HandleCommand(ans) ==
    \/ CommandUnsupported
    \/ NoTransfer
    \/ TransferBegins
    \/ TransferEnds
    \/ NoPostexec
    \/ SanityCheck
    \/ SaveDpc
    \/ PointDpcToProgbuf
    \/ StartProgbuf
    \/ AwaitProgbuf(ans)

DmStep(ans) ==
    \/ DmiNop
    \/ DmiUpdate
    \/ DeassertBusy
    \/ HandleDmcontrol
    \/ HandleData
    \/ HandleAbstractcs
    \/ HandleAbstractauto
    \/ HandleProgbuf(ans)
    \/ HandleUnimplemented
    \/ HandleCommand(ans)

-----------------------------------------------------------------------------
(***************************************************************************)
(* Registers with more than one writer, and the small FSMs.                *)
(***************************************************************************)
(* Mutants of the acknowledge FSMs: the halt side is never rearmed, the resume
   side acknowledges twice, or takes no request of a running hart. *)
HaltAckStuck ==
    haltFsm' = IF haltFsm = "A" /\ ~HaltReq THEN "A" ELSE "B"

ResumeAckTwice ==
    resumeFsm' = IF resumeFsm = "A" /\ ~ResumeReq THEN "A"
                 ELSE IF resumeFsm = "B" /\ ~Halted /\ ~ResumeReq THEN "A" ELSE "B"

ResumeAckOfHalted ==
    resumeFsm' = IF resumeFsm = "A" THEN IF ResumeReq /\ Halted THEN "B" ELSE "A"
                                    ELSE IF Halted THEN "B" ELSE "A"

HaltAckFsm ==
    haltFsm' = IF haltFsm = "A" THEN IF HaltReq THEN "B" ELSE "A"
                                ELSE IF Halted THEN "A" ELSE "B"

ResumeAckFsm ==
    resumeFsm' = IF resumeFsm = "A" THEN IF ResumeReq THEN "B" ELSE "A"
                                    ELSE IF Halted THEN "B" ELSE "A"

(* Mutant of LatchStep: the sample lasts for the cycle after the resume. *)
LatchStepPulse == singleStep' = (JustResumed /\ step)

LatchStep == singleStep' = IF JustResumed THEN step ELSE singleStep

LatchResumeAck ==
    resumeAcked' = (ResumeAck \/ (resumeAcked /\ ~ResumeReq))

(* dpc: the Debug Module writes it over the CSR unit and the CPU. *)
DmWritesDpc == Executing("B") \/ (Executing("C") /\ ResumeAck)

(* Mutants of DpcStep: dpc is not restored, or not pointed to the buffer. *)
DpcNotRestored ==
    \/ Executing("B") /\ dpc' = ProgbufEntry
    \/ /\ ~Executing("B")
       /\ dpc' = IF JustHalted /\ ~debugMode THEN pc
                 ELSE IF CsrWrites("dpc") THEN instr.to ELSE dpc

DpcNotPointed ==
    \/ Executing("C") /\ ResumeAck /\ dpc' = realDpc
    \/ /\ ~(Executing("C") /\ ResumeAck)
       /\ dpc' = IF JustHalted /\ ~debugMode THEN pc
                 ELSE IF CsrWrites("dpc") THEN instr.to ELSE dpc

DpcStep ==
    \/ Executing("B") /\ dpc' = ProgbufEntry
    \/ Executing("C") /\ ResumeAck /\ dpc' = realDpc
    \/ /\ ~DmWritesDpc
       /\ dpc' = IF JustHalted /\ ~debugMode THEN pc
                 ELSE IF CsrWrites("dpc") THEN instr.to ELSE dpc

(* The write port of the register file belongs to the Debug Module while the
   hart is halted (x0 is not excluded), to WRITEBACK otherwise. *)
GprStep ==
    \/ /\ Halted /\ Transferring("write", "A")
       /\ gpr' = [gpr EXCEPT ![command.regno] = data["DATA0"]]
    \/ /\ cpu = "WRITEBACK"
       /\ \E rd \in Reg \ {X0}, v \in Val : gpr' = [gpr EXCEPT ![rd] = v]
    \/ ~(Halted /\ Transferring("write", "A")) /\ UNCHANGED gpr

(* One clock edge, with the answer of the bus in that cycle. *)
Edge(ans) ==
    /\ ans \in BusAnswers
    /\ CpuStep(ans)
    /\ DmStep(ans)
    /\ HaltAckFsm
    /\ ResumeAckFsm
    /\ LatchRequests
    /\ LatchStep
    /\ LatchResumeAck
    /\ DpcStep
    /\ GprStep
    /\ wasHalted' = Halted

Tick == \E ans \in {"none", "wait", "ack", "error"} : Edge(ans)

Spec == Init /\ [][Tick]_vars

(***************************************************************************)
(* The clock never stops, and every bus slave acknowledges a request it is *)
(* given after finitely many cycles (EBR and GPIO after a fixed number).   *)
(* Nothing is assumed of the debugger or of the program.                   *)
(***************************************************************************)
Fairness == WF_vars(Tick) /\ WF_vars(Edge("ack"))

FairSpec == Spec /\ Fairness
=============================================================================

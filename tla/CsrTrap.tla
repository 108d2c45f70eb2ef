------------------------------ MODULE CsrTrap ------------------------------
(***************************************************************************)
(* The CSR unit (csr.py) with its registers (csr_handlers.py), the         *)
(* exception unit (exception.py), and of the CPU (cpu.py) the main FSM     *)
(* that drives both.  A step is one clock edge.                            *)
(*                                                                         *)
(* What memory holds is the choice of Programs, and of several instructions *)
(* at one address, that of the fetch.  A cycle in which the CPU waits for  *)
(* the bus changes nothing here.  Halt requests, single steps and the      *)
(* program buffer come from RunControl's part of the design: the hart      *)
(* halts and resumes at any time.                                          *)
(***************************************************************************)
EXTENDS CsrLayout

CONSTANTS
    Boot,          \* pc_reset_value
    Progbuf,       \* PROGBUF_MMIO_ADDR
    Memory,        \* addresses some slave decodes
    Follow,        \* Follow[a]: the address a + 4
    Programs,      \* contents of memory: the instructions an address may hold
    Encoding(_),   \* the word that encodes an instruction
    MipFirst       \* the order in which the build took MIE and MIP from a set

None == [op |-> "none"]

ASSUME MemoryAssumption ==
    /\ Boot \in Word /\ Progbuf \in Word
    /\ Memory \subseteq Word
    /\ Follow \in [Memory -> Word]
    /\ MipFirst \in BOOLEAN

ASSUME ProgramAssumption ==
    \A c \in Programs :
        /\ DOMAIN c = Memory
        /\ \A a \in Memory : /\ c[a] \subseteq Instr
                             /\ c[a] # {}
                             /\ \A i \in c[a] : Encoding(i) \in Word

VARIABLES
    \* The CPU.
    cpu,          \* state of main_fsm
    pc,
    instr,
    rdval,        \* what WRITEBACK puts into rd
    wasHalted,    \* prev(halted)
    debugMode,    \* is_debug_mode
    priv,         \* current_priv_mode
    code,         \* the program, which does not change
    \* The CSR unit.
    csr,          \* my_reg_latch of each register
    csrFsm,
    lat,          \* csr_idx_latch, func3_latch and whether rs1_latch is zero
    rdVal,        \* rd_val
    dst

cpuVars == <<cpu, pc, instr, rdval, wasHalted, debugMode, priv, code>>
csrVars == <<csr, csrFsm, lat, rdVal, dst>>
vars == <<cpuVars, csrVars>>

Init ==
    /\ cpu = "CHECK" /\ pc = Boot /\ instr = None /\ rdval = {}
    /\ wasHalted = FALSE /\ debugMode = FALSE /\ priv = Machine
    /\ code \in Programs
    /\ csr = [r \in CsrReg |-> ResetValue(r)]
    /\ csrFsm = "IDLE" /\ rdVal = {} /\ dst = {}
    /\ lat = [reg |-> "mscratch", func |-> "RW", x0 |-> TRUE]

-----------------------------------------------------------------------------
(***************************************************************************)
(* Combinational signals.                                                  *)
(***************************************************************************)
Aligned == pc \cap Misaligning = {}

(* csr_unit.en *)
Enabled == cpu = "EXECUTE" /\ instr.op = "csr"

(* Mutant of Refused: the Debug CSRs are there in every mode. *)
RefusedButDebugCsr == priv # Machine \/ instr.csr = "unimplemented"

(* Mutant of Refused: user mode, too, has the machine's registers. *)
RefusedInNoMode ==
    instr.csr = "unimplemented" \/ (instr.csr \in DebugCsr /\ ~debugMode)

Refused ==
    \/ priv # Machine \/ instr.csr = "unimplemented"
    \/ instr.csr \in DebugCsr /\ ~debugMode

IllegalCsr == Enabled /\ csrFsm = "IDLE" /\ Refused

(* The Case that comes first takes an address that two registers have. *)
RegMipFirst(a) == IF a = "mie" THEN "mip" ELSE a
RegAt(a) == IF a = "mie" /\ MipFirst THEN "mip" ELSE a

Vld == csrFsm = "FINISH"

(* The register that is active, and whether its handler ends the write. *)
Active(r) ==
    csrFsm = "REG_SPECIFIC" /\ lat.reg = r /\ ~OnlyReads(lat.func, lat.x0)
WriteFinished(r) == Active(r) /\ r # "mip"

FetchError == cpu = "FETCH" /\ Aligned /\ pc \notin Memory
DataError(op) == cpu = "EXECUTE" /\ instr.op = op /\ instr.addr \notin Memory

HaltOnEbreak == debugMode \/ EbreakmBit \in csr["dcsr"]

(* The exceptions of the CPU itself: trap() raises them outside Debug Mode. *)
CpuTraps ==
    \/ cpu = "FETCH" /\ ~Aligned
    \/ cpu = "DECODE" /\ instr.op \in {"illegal", "ecall"}
    \/ cpu = "DECODE" /\ instr.op = "ebreak" /\ ~HaltOnEbreak
    \/ IllegalCsr

(* Mutant of CpuRaises: the program buffer's exceptions are notified, too. *)
CpuRaisesInDebugMode == CpuTraps

CpuRaises == CpuTraps /\ ~debugMode

(* The arbiter notifies a bus error in any mode. *)
BusError == FetchError \/ DataError("load") \/ DataError("store")

Traps == CpuTraps \/ BusError

TrapCause ==
    IF FetchError THEN FetchAccessFault
    ELSE IF DataError("load") THEN LoadAccessFault
    ELSE IF DataError("store") THEN StoreAccessFault
    ELSE IF cpu = "FETCH" THEN FetchMisaligned
    ELSE IF instr.op = "ebreak" THEN Breakpoint
    ELSE IF instr.op # "ecall" THEN IllegalInstr
    ELSE IF priv = Machine THEN EcallFromM ELSE EcallFromU

SoftwareIrqOn == MsieBit \in csr["mie"]
ExternalIrqOn == MeieBit \in csr["mie"]

(* An interrupt is raised by its enable bits, and goes nowhere else. *)
IrqRaised == (SoftwareIrqOn \/ ExternalIrqOn) /\ MieBit \in csr["mstatus"]

Raise == CpuRaises \/ BusError \/ IrqRaised

(* Mutant of BadAddr: the address on the bus counts words. *)
BadAddrShifted ==
    {b + 2 : b \in IF FetchError THEN pc ELSE instr.addr \ Misaligning}

BadAddr == IF FetchError THEN pc ELSE instr.addr \ Misaligning

-----------------------------------------------------------------------------
(***************************************************************************)
(* The CPU.                                                                *)
(***************************************************************************)
Goto(state) == cpu' = state /\ UNCHANGED <<pc, instr, rdval>>

Trap == Goto(IF debugMode THEN "HALTED" ELSE "TRAP")

CheckShouldHalt ==
    /\ cpu = "CHECK"
    /\ Goto("FETCH") \/ Goto("HALTED")

(* RunControl has the resume that comes before dpc is saved. *)
Halted ==
    /\ cpu = "HALTED"
    /\ \/ Goto("HALTED")
       \/ /\ wasHalted
          /\ cpu' = "FETCH"
          /\ pc' = IF debugMode THEN Progbuf ELSE csr["dpc"]
          /\ UNCHANGED <<instr, rdval>>

Fetch ==
    /\ cpu = "FETCH"
    /\ IF Traps THEN Trap
       ELSE /\ instr' \in code[pc]
            /\ cpu' = "DECODE"
            /\ UNCHANGED <<pc, rdval>>

Decode ==
    /\ cpu = "DECODE"
    /\ IF Traps THEN Trap
       ELSE Goto(IF instr.op = "ebreak" THEN "HALTED" ELSE "EXECUTE")

ExecuteCsr ==
    /\ Enabled
    /\ IF Traps THEN Trap
       ELSE /\ cpu' = IF Vld THEN "WRITEBACK" ELSE "EXECUTE"
            /\ rdval' = rdVal
            /\ UNCHANGED <<pc, instr>>

ExecuteMret ==
    /\ cpu = "EXECUTE" /\ instr.op = "mret"
    /\ cpu' = "CHECK" /\ pc' = csr["mepc"]
    /\ UNCHANGED <<instr, rdval>>

(* What the other units put into rd is left out. *)
ExecuteOther ==
    /\ cpu = "EXECUTE" /\ instr.op \notin {"csr", "mret"}
    /\ IF Traps THEN Trap ELSE Goto("WRITEBACK")

Writeback ==
    /\ cpu = "WRITEBACK"
    /\ cpu' = "CHECK"
    /\ pc' = IF instr.op = "jump" THEN instr.to ELSE Follow[pc]
    /\ UNCHANGED <<instr, rdval>>

EnterTrap ==
    /\ cpu = "TRAP"
    /\ cpu' = "CHECK" /\ pc' = csr["mtvec"] \ Misaligning
    /\ UNCHANGED <<instr, rdval>>

CpuStep ==
    /\ \/ CheckShouldHalt \/ Halted \/ Fetch \/ Decode
       \/ ExecuteCsr \/ ExecuteMret \/ ExecuteOther
       \/ Writeback \/ EnterTrap
    /\ wasHalted' = (cpu = "HALTED")

(* The Debug Module turns Debug Mode on and off around a program buffer. *)
DebugModule ==
    /\ debugMode' \in
         IF cpu = "HALTED" /\ wasHalted /\ cpu' = "HALTED" THEN BOOLEAN ELSE {debugMode}
    /\ UNCHANGED code

-----------------------------------------------------------------------------
(***************************************************************************)
(* The FSM of the CSR unit.                                                *)
(***************************************************************************)
Idle ==
    /\ csrFsm = "IDLE"
    /\ IF Enabled /\ ~Refused
       THEN /\ csrFsm' = "REG_GENERIC"
            /\ lat' = [reg |-> RegAt(instr.csr), func |-> instr.func, x0 |-> instr.x0]
       ELSE UNCHANGED <<csrFsm, lat>>
    /\ UNCHANGED <<rdVal, dst>>

(* Mutant of RegGeneric: dst is made of rd_val, which is a cycle late. *)
RegGenericLate ==
    /\ csrFsm = "REG_GENERIC" /\ csrFsm' = "REG_SPECIFIC"
    /\ rdVal' = csr[lat.reg]
    /\ dst' = NewValue(lat.func, rdVal, instr.val)
    /\ UNCHANGED lat

RegGeneric ==
    /\ csrFsm = "REG_GENERIC" /\ csrFsm' = "REG_SPECIFIC"
    /\ rdVal' = csr[lat.reg]
    /\ dst' = NewValue(lat.func, csr[lat.reg], instr.val)
    /\ UNCHANGED lat

RegSpecific ==
    /\ csrFsm = "REG_SPECIFIC"
    /\ csrFsm' = IF Active(lat.reg) /\ ~WriteFinished(lat.reg)
                 THEN "REG_SPECIFIC" ELSE "FINISH"
    /\ UNCHANGED <<lat, rdVal, dst>>

Finish ==
    /\ csrFsm = "FINISH" /\ csrFsm' = "IDLE"
    /\ UNCHANGED <<lat, rdVal, dst>>

CsrUnitStep == Idle \/ RegGeneric \/ RegSpecific \/ Finish

-----------------------------------------------------------------------------
(***************************************************************************)
(* The registers, which the CPU, their handlers and the exception unit     *)
(* assign.  Where two do in one cycle, the submodule that is added last    *)
(* has the last word.                                                      *)
(***************************************************************************)
EntersDebugMode == cpu # "HALTED" /\ cpu' = "HALTED" /\ ~Traps

EntryCauses ==
    IF cpu = "DECODE" THEN {EbreakEntry} ELSE {HaltreqEntry, StepEntry}

ByCpu(r, cause) ==
    IF r = "dcsr" /\ EntersDebugMode THEN Put(csr[r], Cause, cause)
    ELSE IF r = "dpc" /\ cpu = "HALTED" /\ ~wasHalted /\ ~debugMode THEN pc
    ELSE csr[r]

ByHandler(r, old) == IF Active(r) /\ r # "mip" THEN Written(r, old, dst) ELSE old

PopMie == IF MpieBit \in csr["mstatus"] THEN {MieBit} ELSE {}

(* None of the three sources of interrupts is driven. *)
PendingBits == {MsieBit, MtieBit, MeieBit}

OnRaise(r, old) ==
    IF r = "mepc" THEN pc
    ELSE IF r = "mstatus" THEN Put(old, Mpp, priv)
    ELSE IF r = "mip" THEN old \ PendingBits
    ELSE IF r = "mcause"
    THEN IF CpuRaises \/ BusError THEN TrapCause
         ELSE (IF SoftwareIrqOn THEN SoftwareIrq ELSE ExternalIrq) \cup Interrupt
    ELSE IF r = "mtval" /\ BusError THEN BadAddr
    ELSE IF r = "mtval" /\ CpuRaises /\ TrapCause = IllegalInstr THEN Encoding(instr)
    ELSE old

ByExceptionUnit(r, old) ==
    IF Raise THEN OnRaise(r, old)
    ELSE IF r = "mstatus" /\ cpu = "EXECUTE" /\ instr.op = "mret"
    THEN Put(old, {MieBit}, PopMie)
    ELSE old

RegistersStep ==
    \E cause \in EntryCauses :
        csr' = [r \in CsrReg |-> ByExceptionUnit(r, ByHandler(r, ByCpu(r, cause)))]

PrivStep ==
    priv' = IF Raise THEN Machine
            ELSE IF cpu = "EXECUTE" /\ instr.op = "mret" THEN csr["mstatus"] \cap Mpp
            ELSE priv

-----------------------------------------------------------------------------
Edge == CpuStep /\ DebugModule /\ CsrUnitStep /\ RegistersStep /\ PrivStep

Spec == Init /\ [][Edge]_vars

(* The clock does not stop, and slaves answer. *)
FairSpec == Spec /\ WF_vars(Edge)
=============================================================================

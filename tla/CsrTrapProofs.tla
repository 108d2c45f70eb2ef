---------------------------- MODULE CsrTrapProofs ----------------------------
(***************************************************************************)
(* Proofs about the CSR unit and the exception unit.                       *)
(***************************************************************************)
EXTENDS CsrTrapProps, Integers, TLAPS

(* An instruction that is decoded or executed is one memory holds at pc. *)
Fetched ==
    cpu \in {"DECODE", "EXECUTE", "WRITEBACK"} => pc \in Memory /\ instr \in code[pc]

CsrTrapInv == TypeOK /\ Fetched /\ AccessUnderWay /\ MppHoldsMode

-----------------------------------------------------------------------------
(* What an instruction of each kind carries. *)
LEMMA InstrParts ==
    ASSUME NEW i \in Instr
    PROVE  /\ i.op \in {"plain", "mret", "ecall", "ebreak", "illegal",
                        "jump", "load", "store", "csr"}
           /\ i.op = "jump" => i.to \in Word
           /\ i.op \in {"load", "store"} => i.addr \in Word
           /\ i.op = "csr" => /\ i.func \in Func /\ i.csr \in CsrAddr
                              /\ i.x0 \in BOOLEAN /\ i.val \in Word
  BY DEF Instr

(* Values the units compute are words again. *)
LEMMA PutIsWord ==
    ASSUME NEW w \in Word, NEW field, NEW v \in Word
    PROVE  Put(w, field, v) \in Word
  BY DEF Put, Word

LEMMA NewValueIsWord ==
    ASSUME NEW f, NEW old \in Word, NEW v \in Word
    PROVE  NewValue(f, old, v) \in Word
  BY DEF NewValue, Word

LEMMA WrittenIsWord ==
    ASSUME NEW r, NEW old \in Word, NEW v \in Word
    PROVE  Written(r, old, v) \in Word
  BY PutIsWord DEF Written

(* The constants of CsrLayout are words. *)
LEMMA ConstantsAreWords ==
    /\ \A c \in {FetchMisaligned, FetchAccessFault, IllegalInstr, Breakpoint,
                 LoadAccessFault, StoreAccessFault, EcallFromU, EcallFromM,
                 SoftwareIrq, ExternalIrq, Interrupt, EbreakEntry, HaltreqEntry,
                 StepEntry, {MieBit}, {}} : c \in Word
    /\ Mpp \in Word
    /\ \A r \in CsrReg : ResetValue(r) \in Word
<1>1. {} \in Word /\ {8, 30} \in Word /\ {5, 31} \in Word /\ {0, 1, 30} \in Word
  BY DEF Word, Bit
<1>2. \A r \in CsrReg : ResetValue(r) \in {{}, {8, 30}, {5, 31}, {0, 1, 30}}
  <2>. TAKE r \in CsrReg
  <2>1. CASE r = "misa"
    BY <2>1 DEF ResetValue
  <2>2. CASE r = "mtvec"
    BY <2>2 DEF ResetValue
  <2>3. CASE r = "dcsr"
    BY <2>3 DEF ResetValue
  <2>4. CASE r \notin {"misa", "mtvec", "dcsr"}
    BY <2>4 DEF ResetValue
  <2>. QED  BY <2>1, <2>2, <2>3, <2>4
<1>3. Mpp \in Word /\ {MieBit} \in Word
  BY DEF Mpp, MieBit, Word, Bit
<1>4. \A c \in {FetchMisaligned, FetchAccessFault, IllegalInstr, Breakpoint,
                LoadAccessFault, StoreAccessFault, EcallFromU, EcallFromM} : c \in Word
  BY DEF FetchMisaligned, FetchAccessFault, IllegalInstr, Breakpoint,
         LoadAccessFault, StoreAccessFault, EcallFromU, EcallFromM, Word, Bit
<1>5. \A c \in {SoftwareIrq, ExternalIrq, Interrupt, EbreakEntry, HaltreqEntry,
                StepEntry} : c \in Word
  BY DEF SoftwareIrq, ExternalIrq, Interrupt, EbreakEntry, HaltreqEntry, StepEntry,
         Word, Bit
<1>. QED  BY <1>1, <1>2, <1>3, <1>4, <1>5

-----------------------------------------------------------------------------
LEMMA InvInit == Init => CsrTrapInv
<1>. SUFFICES ASSUME Init PROVE CsrTrapInv
  OBVIOUS
<1>1. TypeOK
  <2>1. csr \in [CsrReg -> Word]
    BY ConstantsAreWords DEF Init
  <2>2. lat \in [reg : CsrReg, func : Func, x0 : BOOLEAN]
    BY DEF Init, CsrReg, Func
  <2>3. priv \in Mode /\ {} \in Word /\ pc \in Word
    BY MemoryAssumption, ConstantsAreWords DEF Init, Mode, Machine
  <2>. QED  BY <2>1, <2>2, <2>3 DEF Init, TypeOK
<1>2. Fetched /\ AccessUnderWay /\ MppHoldsMode
  BY DEF Init, Fetched, AccessUnderWay, MppHoldsMode
<1>. QED  BY <1>1, <1>2 DEF CsrTrapInv

(* While the CPU executes a csr instruction that is under way, it does not trap
   and stays in EXECUTE until vld. *)
LEMMA AccessHoldsTheCpu ==
    ASSUME TypeOK, AccessUnderWay, Edge, csrFsm # "IDLE"
    PROVE  /\ cpu = "EXECUTE" /\ instr.op = "csr" /\ ~Traps
           /\ cpu' = (IF Vld THEN "WRITEBACK" ELSE "EXECUTE")
           /\ rdval' = rdVal /\ pc' = pc /\ instr' = instr
<1>1. cpu = "EXECUTE" /\ instr.op = "csr" /\ ~Refused
  BY DEF AccessUnderWay, Enabled
<1>2. ~Traps
  BY <1>1 DEF Traps, CpuTraps, IllegalCsr, BusError, FetchError, DataError
<1>3. ExecuteCsr
  BY <1>1 DEF Edge, CpuStep, CheckShouldHalt, Halted, Fetch, Decode, ExecuteMret,
              ExecuteOther, Writeback, EnterTrap
<1>. QED  BY <1>1, <1>2, <1>3 DEF ExecuteCsr

LEMMA CpuTypes ==
    ASSUME CsrTrapInv, Edge
    PROVE  /\ (cpu \in {"CHECK", "HALTED", "FETCH", "DECODE", "EXECUTE",
                         "WRITEBACK", "TRAP"})'
           /\ pc' \in Word /\ instr' \in Instr \cup {None} /\ rdval' \in Word
           /\ wasHalted' \in BOOLEAN
           /\ Fetched'
<1>. USE DEF CsrTrapInv, TypeOK
<1>1. wasHalted' \in BOOLEAN /\ code' = code
  BY DEF Edge, CpuStep, DebugModule
<1>2. \A r \in {"dpc", "mepc", "mtvec"} : csr[r] \in Word
  BY DEF CsrReg
<1>3. CASE CheckShouldHalt
  BY <1>1, <1>3 DEF CheckShouldHalt, Goto, Fetched
<1>4. CASE Halted
  BY <1>1, <1>2, <1>4, MemoryAssumption DEF Halted, Goto, Fetched
<1>5. CASE Fetch
  <2>1. CASE Traps
    BY <1>1, <1>5, <2>1 DEF Fetch, Trap, Goto, Fetched
  <2>2. CASE ~Traps
    <3>1. pc \in Memory
      BY <1>5, <2>2 DEF Fetch, Traps, CpuTraps, BusError, FetchError
    <3>2. instr' \in code[pc] /\ code[pc] \subseteq Instr
      BY <1>5, <2>2, <3>1, ProgramAssumption DEF Fetch
    <3>. QED  BY <1>1, <1>5, <2>2, <3>1, <3>2 DEF Fetch, Fetched
  <2>. QED  BY <2>1, <2>2
<1>6. CASE Decode
  BY <1>1, <1>6 DEF Decode, Trap, Goto, Fetched
<1>7. CASE ExecuteCsr
  BY <1>1, <1>7 DEF ExecuteCsr, Enabled, Trap, Goto, Fetched
<1>8. CASE ExecuteMret
  BY <1>1, <1>2, <1>8 DEF ExecuteMret, Fetched
<1>9. CASE ExecuteOther
  BY <1>1, <1>9 DEF ExecuteOther, Trap, Goto, Fetched
<1>10. CASE Writeback
  <2>1. pc \in Memory /\ instr \in Instr
    BY <1>10, ProgramAssumption DEF Writeback, Fetched
  <2>2. Follow[pc] \in Word /\ (instr.op = "jump" => instr.to \in Word)
    BY <2>1, MemoryAssumption, InstrParts
  <2>. QED  BY <1>1, <1>10, <2>2 DEF Writeback, Fetched
<1>11. CASE EnterTrap
  <2>1. csr["mtvec"] \ Misaligning \in Word
    BY <1>2 DEF Word
  <2>. QED  BY <1>1, <1>11, <2>1 DEF EnterTrap, Fetched
<1>. QED
  BY <1>3, <1>4, <1>5, <1>6, <1>7, <1>8, <1>9, <1>10, <1>11 DEF Edge, CpuStep

LEMMA CsrUnitTypes ==
    ASSUME CsrTrapInv, Edge
    PROVE  /\ (csrFsm \in {"IDLE", "REG_GENERIC", "REG_SPECIFIC", "FINISH"})'
           /\ lat' \in [reg : CsrReg, func : Func, x0 : BOOLEAN]
           /\ rdVal' \in Word /\ dst' \in Word
           /\ AccessUnderWay'
<1>. USE DEF CsrTrapInv, TypeOK
<1>1. ASSUME cpu = "EXECUTE" PROVE instr \in Instr
  BY <1>1, ProgramAssumption DEF Fetched
<1>2. ASSUME csrFsm # "IDLE"
      PROVE  /\ cpu = "EXECUTE" /\ ~Vld => cpu' = "EXECUTE"
             /\ instr' = instr /\ priv' = priv /\ debugMode' = debugMode
  <2>1. priv = Machine /\ instr.op = "csr" /\ cpu = "EXECUTE"
    BY <1>2 DEF AccessUnderWay, Refused, Enabled
  <2>2. priv' = priv /\ debugMode' = debugMode
    BY <2>1 DEF Edge, PrivStep, DebugModule
  <2>. QED  BY <1>2, <2>1, <2>2, AccessHoldsTheCpu
<1>3. CASE Idle
  <2>1. CASE Enabled /\ ~Refused
    <3>1. instr \in Instr /\ instr.op = "csr" /\ cpu = "EXECUTE"
      BY <1>1, <2>1 DEF Enabled
    <3>2. RegAt(instr.csr) \in CsrReg
      BY <2>1, <3>1, InstrParts DEF RegAt, CsrAddr, CsrReg, Refused
    <3>3. lat' \in [reg : CsrReg, func : Func, x0 : BOOLEAN]
      BY <1>3, <2>1, <3>1, <3>2, InstrParts DEF Idle
    <3>4. ~Traps
      BY <2>1, <3>1 DEF Traps, CpuTraps, IllegalCsr, BusError, FetchError, DataError
    <3>5. cpu' = "EXECUTE" /\ instr' = instr
      BY <1>3, <3>1, <3>4
      DEF Idle, Vld, Edge, CpuStep, CheckShouldHalt, Halted, Fetch, Decode, ExecuteMret,
          ExecuteCsr, ExecuteOther, Writeback, EnterTrap
    <3>6. priv' = Machine /\ priv = Machine /\ debugMode' = debugMode
      BY <2>1, <3>1 DEF Edge, PrivStep, DebugModule, Refused
    <3>7. AccessUnderWay'
      BY <1>3, <2>1, <3>1, <3>5, <3>6 DEF Idle, AccessUnderWay, Enabled, Refused, RegAt
    <3>. QED  BY <1>3, <2>1, <3>3, <3>7 DEF Idle
  <2>2. CASE ~(Enabled /\ ~Refused)
    BY <1>3, <2>2 DEF Idle, AccessUnderWay
  <2>. QED  BY <2>1, <2>2
<1>4. CASE RegGeneric
  <2>1. csr[lat.reg] \in Word
    OBVIOUS
  <2>2. instr.val \in Word
    BY <1>1, <1>4, InstrParts DEF RegGeneric, AccessUnderWay, Enabled
  <2>3. NewValue(lat.func, csr[lat.reg], instr.val) \in Word
    BY <2>1, <2>2, NewValueIsWord
  <2>4. AccessUnderWay'
    BY <1>2, <1>4 DEF RegGeneric, AccessUnderWay, Enabled, Refused, RegAt, Vld
  <2>. QED  BY <1>4, <2>1, <2>3, <2>4 DEF RegGeneric
<1>5. CASE RegSpecific
  <2>1. AccessUnderWay'
    BY <1>2, <1>5 DEF RegSpecific, AccessUnderWay, Enabled, Refused, RegAt, Vld
  <2>. QED  BY <1>5, <2>1 DEF RegSpecific
<1>6. CASE Finish
  BY <1>6 DEF Finish, AccessUnderWay
<1>. QED  BY <1>3, <1>4, <1>5, <1>6 DEF Edge, CsrUnitStep

LEMMA RegisterTypes ==
    ASSUME CsrTrapInv, Edge
    PROVE  csr' \in [CsrReg -> Word] /\ priv' \in Mode
<1>. USE DEF CsrTrapInv, TypeOK
<1>1. priv \in Word /\ Mpp \in Word
  BY ConstantsAreWords DEF Mode, Word
<1>2. PICK cause \in EntryCauses :
        csr' = [r \in CsrReg |-> ByExceptionUnit(r, ByHandler(r, ByCpu(r, cause)))]
  BY DEF Edge, RegistersStep
<1>3. cause \in Word
  BY ConstantsAreWords DEF EntryCauses
<1>4. ASSUME NEW r \in CsrReg
      PROVE  ByExceptionUnit(r, ByHandler(r, ByCpu(r, cause))) \in Word
  <2>1. ByCpu(r, cause) \in Word
    BY <1>3, PutIsWord DEF ByCpu
  <2>2. ByHandler(r, ByCpu(r, cause)) \in Word
    BY <2>1, WrittenIsWord DEF ByHandler
  <2>. DEFINE old == ByHandler(r, ByCpu(r, cause))
  <2>. HIDE DEF old
  <2>3. old \in Word
    BY <2>2 DEF old
  <2>4. CASE Raise
    <3>1. TrapCause \in Word
      BY ConstantsAreWords DEF TrapCause
    <3>2. (IF SoftwareIrqOn THEN SoftwareIrq ELSE ExternalIrq) \cup Interrupt \in Word
      BY ConstantsAreWords DEF Word
    <3>3. BusError => BadAddr \in Word
      <4>1. instr \in Instr /\ instr.op \in {"load", "store"} => instr.addr \in Word
        BY InstrParts
      <4>2. BusError /\ ~FetchError => instr \in Instr /\ instr.op \in {"load", "store"}
        BY ProgramAssumption DEF BusError, DataError, Fetched
      <4>. QED  BY <4>1, <4>2 DEF BadAddr, Word
    <3>4. CpuRaises /\ TrapCause = IllegalInstr => Encoding(instr) \in Word
      <4>1. cpu = "FETCH" /\ CpuRaises => TrapCause # IllegalInstr
        BY DEF CpuRaises, CpuTraps, IllegalCsr, Enabled, TrapCause, FetchError, DataError, FetchMisaligned,
               FetchAccessFault, IllegalInstr
      <4>2. CpuRaises => cpu \in {"FETCH", "DECODE", "EXECUTE"}
        BY DEF CpuRaises, CpuTraps, IllegalCsr, Enabled
      <4>. QED  BY <4>1, <4>2, ProgramAssumption DEF Fetched
    <3>5. Put(old, Mpp, priv) \in Word /\ old \ PendingBits \in Word
      BY <1>1, <2>3, PutIsWord DEF Word
    <3>. QED  BY <2>3, <2>4, <3>1, <3>2, <3>3, <3>4, <3>5
              DEF ByExceptionUnit, OnRaise, old
  <2>5. CASE ~Raise
    <3>1. PopMie \in Word
      BY ConstantsAreWords DEF PopMie
    <3>. QED  BY <2>3, <2>5, <3>1, PutIsWord DEF ByExceptionUnit, old
  <2>. QED  BY <2>4, <2>5
<1>5. csr' \in [CsrReg -> Word]
  BY <1>2, <1>4
<1>6. priv' \in Mode
  BY DEF Edge, PrivStep, Mode, Machine
<1>. QED  BY <1>5, <1>6

(* What a step does to a register when no handler writes it. *)
LEMMA RegisterStep ==
    ASSUME Edge, NEW r \in CsrReg
    PROVE  \E cause \in EntryCauses :
             csr'[r] = ByExceptionUnit(r, ByHandler(r, ByCpu(r, cause)))
  BY DEF Edge, RegistersStep

LEMMA MppStep ==
    ASSUME CsrTrapInv, Edge
    PROVE  MppHoldsMode'
<1>. USE DEF CsrTrapInv
<1>. SUFFICES ASSUME priv' # Machine PROVE csr'["mstatus"] \cap Mpp = priv'
  BY DEF MppHoldsMode
<1>1. ~Raise
  BY DEF Edge, PrivStep
<1>2. PICK cause \in EntryCauses :
        csr'["mstatus"] = ByExceptionUnit("mstatus", ByHandler("mstatus", ByCpu("mstatus", cause)))
  BY RegisterStep DEF CsrReg
<1>3. ByCpu("mstatus", cause) = csr["mstatus"]
  BY DEF ByCpu
<1>4. csrFsm = "IDLE" => ByHandler("mstatus", csr["mstatus"]) = csr["mstatus"]
  BY DEF ByHandler, Active
<1>5. CASE cpu = "EXECUTE" /\ instr.op = "mret"
  <2>1. csrFsm = "IDLE"
    BY <1>5 DEF AccessUnderWay, Enabled
  <2>2. csr'["mstatus"] = Put(csr["mstatus"], {MieBit}, PopMie)
    BY <1>1, <1>2, <1>3, <1>4, <1>5, <2>1 DEF ByExceptionUnit
  <2>3. Put(csr["mstatus"], {MieBit}, PopMie) \cap Mpp = csr["mstatus"] \cap Mpp
    BY DEF Put, MieBit, Mpp
  <2>. QED  BY <1>1, <1>5, <2>2, <2>3 DEF Edge, PrivStep
<1>6. CASE ~(cpu = "EXECUTE" /\ instr.op = "mret")
  <2>1. priv' = priv
    BY <1>1, <1>6 DEF Edge, PrivStep
  <2>2. csrFsm = "IDLE"
    BY <2>1 DEF AccessUnderWay, Refused
  <2>3. csr'["mstatus"] = csr["mstatus"]
    BY <1>1, <1>2, <1>3, <1>4, <1>6, <2>2 DEF ByExceptionUnit
  <2>. QED  BY <2>1, <2>3 DEF MppHoldsMode
<1>. QED  BY <1>5, <1>6

LEMMA InvStep == CsrTrapInv /\ [Edge]_vars => CsrTrapInv'
<1>. SUFFICES ASSUME CsrTrapInv, [Edge]_vars PROVE CsrTrapInv'
  OBVIOUS
<1>1. CASE Edge
  <2>1. TypeOK'
    <3>1. debugMode' \in BOOLEAN /\ code' \in Programs
      BY <1>1 DEF Edge, DebugModule, CsrTrapInv, TypeOK
    <3>. QED  BY <1>1, <3>1, CpuTypes, CsrUnitTypes, RegisterTypes DEF TypeOK
  <2>. QED  BY <1>1, <2>1, CpuTypes, CsrUnitTypes, MppStep DEF CsrTrapInv
<1>2. CASE UNCHANGED vars
  <2>1. UNCHANGED <<cpu, pc, instr, rdval, wasHalted, debugMode, priv, code,
                    csr, csrFsm, lat, rdVal, dst>>
    BY <1>2 DEF vars, cpuVars, csrVars
  <2>2. TypeOK' /\ Fetched' /\ MppHoldsMode'
    BY <2>1 DEF CsrTrapInv, TypeOK, Fetched, MppHoldsMode
  <2>3. AccessUnderWay'
    BY <2>1 DEF CsrTrapInv, AccessUnderWay, Enabled, Refused, RegAt
  <2>. QED  BY <2>2, <2>3 DEF CsrTrapInv
<1>. QED  BY <1>1, <1>2

(***************************************************************************)
(* The FSMs, the registers and the modes keep their types, the CSR unit    *)
(* works only for an instruction the CPU executes and does not refuse, and *)
(* mstatus.mpp follows the mode.                                           *)
(***************************************************************************)
THEOREM CsrTrapInvariant == Spec => []CsrTrapInv
  BY InvInit, InvStep, PTL DEF Spec

(* No register of the two units holds anything but a word (TypeOK). *)
THEOREM CsrTrapTypes == Spec => []TypeOK
  BY CsrTrapInvariant, PTL DEF CsrTrapInv

(* Below machine mode mstatus.mpp is the mode (MppHoldsMode), so that mret,
   which the decoder takes in every mode, cannot raise it. *)
THEOREM MppFollowsMode == Spec => []MppHoldsMode
  BY CsrTrapInvariant, PTL DEF CsrTrapInv

-----------------------------------------------------------------------------
(***************************************************************************)
(* The rest holds while interrupts stay disabled, and no code in the       *)
(* program buffer meets a bus error.                                       *)
(***************************************************************************)
Quiet == ~IrqRaised /\ (debugMode => ~BusError)

LEMMA QuietRaise ==
    ASSUME Quiet
    PROVE  Raise <=> Traps /\ ~debugMode
  BY DEF Quiet, Raise, CpuRaises, Traps

(***************************************************************************)
(* The mode is raised by nothing but a trap that jumps to the handler      *)
(* (ModeRisesOnlyByTrap): not by mret, not by a csr instruction, and not   *)
(* by code in the program buffer.                                          *)
(***************************************************************************)
THEOREM ModeIsRaisedByTraps == Spec /\ []Quiet => ModeRisesOnlyByTrap
<1>. DEFINE Rises == priv # Machine /\ priv' # priv => priv' = Machine /\ cpu' = "TRAP"
<1>1. ASSUME CsrTrapInv, Quiet, Edge PROVE Rises
  <2>. SUFFICES ASSUME priv # Machine, priv' # priv PROVE priv' = Machine /\ cpu' = "TRAP"
    OBVIOUS
  <2>1. Raise
    BY <1>1 DEF CsrTrapInv, MppHoldsMode, Edge, PrivStep
  <2>2. Traps /\ ~debugMode
    BY <1>1, <2>1, QuietRaise
  <2>3. Trap
    BY <1>1, <2>2
    DEF Edge, CpuStep, CheckShouldHalt, Halted, Fetch, Decode, ExecuteMret, ExecuteCsr,
        ExecuteOther, Writeback, EnterTrap, Enabled, Traps, CpuTraps, IllegalCsr, BusError,
        FetchError, DataError
  <2>4. priv' = Machine
    BY <1>1, <2>1 DEF Edge, PrivStep
  <2>. QED  BY <2>2, <2>3, <2>4 DEF Trap, Goto
<1>2. CsrTrapInv /\ Quiet /\ [Edge]_vars => [Rises]_vars
  BY <1>1
<1>. HIDE DEF Rises
<1>3. Spec /\ []Quiet => [][Rises]_vars
  BY <1>2, CsrTrapInvariant, PTL DEF Spec
<1>. QED  BY <1>3 DEF Rises, ModeRisesOnlyByTrap

-----------------------------------------------------------------------------
(* While a csr instruction is under way its handler alone writes registers. *)
LEMMA OnlyTheHandlerWrites ==
    ASSUME CsrTrapInv, Quiet, Edge, csrFsm # "IDLE", NEW r \in CsrReg
    PROVE  csr'[r] = ByHandler(r, csr[r])
<1>1. cpu = "EXECUTE" /\ instr.op = "csr" /\ ~Traps
  BY AccessHoldsTheCpu DEF CsrTrapInv
<1>2. ~Raise
  BY <1>1, QuietRaise
<1>3. PICK cause \in EntryCauses :
        csr'[r] = ByExceptionUnit(r, ByHandler(r, ByCpu(r, cause)))
  BY RegisterStep
<1>4. cpu' # "HALTED"
  BY AccessHoldsTheCpu DEF CsrTrapInv
<1>5. ByCpu(r, cause) = csr[r]
  BY <1>1, <1>4 DEF ByCpu, EntersDebugMode
<1>. QED  BY <1>1, <1>2, <1>3, <1>5 DEF ByExceptionUnit

LEMMA SwapStep ==
    ASSUME CsrTrapInv, Quiet, SwapIsAtomic, Edge
    PROVE  AboutToWrite' /\ HasWritten'
<1>. USE DEF CsrTrapInv
<1>1. CASE csrFsm = "IDLE"
  <2>1. csrFsm' \in {"IDLE", "REG_GENERIC"}
    BY <1>1 DEF Edge, CsrUnitStep, Idle, RegGeneric, RegSpecific, Finish
  <2>2. ~WritingBackCsr'
    BY <1>1 DEF WritingBackCsr, Edge, CpuStep, CheckShouldHalt, Halted, Fetch, Decode,
                ExecuteMret, ExecuteCsr, ExecuteOther, Writeback, EnterTrap, Trap, Goto, Vld
  <2>. QED  BY <2>1, <2>2 DEF AboutToWrite, HasWritten, Vld
<1>2. CASE csrFsm = "REG_GENERIC"
  <2>1. RegGeneric /\ cpu' = "EXECUTE" /\ instr' = instr
    BY <1>2, AccessHoldsTheCpu
    DEF Edge, CsrUnitStep, Idle, RegGeneric, RegSpecific, Finish, Vld
  <2>2. csr'[lat.reg] = csr[lat.reg]
    BY <1>2, OnlyTheHandlerWrites DEF ByHandler, Active, TypeOK
  <2>. QED  BY <2>1, <2>2 DEF RegGeneric, AboutToWrite, HasWritten, Vld, WritingBackCsr
<1>3. CASE csrFsm = "REG_SPECIFIC"
  <2>1. RegSpecific /\ cpu' = "EXECUTE" /\ instr' = instr /\ rdval' = rdVal
    BY <1>3, AccessHoldsTheCpu
    DEF Edge, CsrUnitStep, Idle, RegGeneric, RegSpecific, Finish, Vld
  <2>2. /\ lat = [reg |-> RegAt(instr.csr), func |-> instr.func, x0 |-> instr.x0]
        /\ lat' = lat /\ rdVal' = rdVal /\ dst' = dst
    BY <1>3, <2>1 DEF AccessUnderWay, RegSpecific
  <2>3. csr[lat.reg] = rdVal /\ dst = NewValue(lat.func, rdVal, instr.val)
    BY <1>3 DEF SwapIsAtomic, AboutToWrite
  <2>4. csr'[lat.reg] = ByHandler(lat.reg, rdVal)
    BY <1>3, <2>3, OnlyTheHandlerWrites DEF TypeOK
  <2>5. CASE csrFsm' = "REG_SPECIFIC"
    <3>1. csr'[lat.reg] = rdVal
      BY <2>1, <2>4, <2>5 DEF RegSpecific, ByHandler, WriteFinished
    <3>. QED  BY <2>1, <2>2, <2>3, <2>5, <3>1
              DEF AboutToWrite, HasWritten, Vld, WritingBackCsr
  <2>6. CASE csrFsm' = "FINISH"
    <3>1. Active(lat.reg) => lat.reg # "mip"
      BY <2>1, <2>6 DEF RegSpecific, WriteFinished
    <3>2. csr'[lat.reg] = IF OnlyReads(lat.func, lat.x0) THEN rdVal
                         ELSE Written(lat.reg, rdVal, dst)
      BY <1>3, <2>4, <3>1 DEF ByHandler, Active
    <3>3. OnlyReads(lat.func, lat.x0) \/ RegAt(instr.csr) = instr.csr
      BY <1>3, <2>2, <3>1 DEF Active, RegAt
    <3>4. csr'[RegAt(instr.csr)] = Swapped(rdVal)
      BY <2>2, <2>3, <3>2, <3>3 DEF Swapped
    <3>. QED  BY <2>1, <2>2, <2>6, <3>4
              DEF AboutToWrite, HasWritten, Swapped, RegAt
  <2>. QED  BY <2>1, <2>5, <2>6 DEF RegSpecific
<1>4. CASE csrFsm = "FINISH"
  <2>1. Finish /\ instr' = instr /\ rdval' = rdVal
    BY <1>4, AccessHoldsTheCpu
    DEF Edge, CsrUnitStep, Idle, RegGeneric, RegSpecific, Finish
  <2>2. instr.op = "csr" /\ RegAt(instr.csr) = lat.reg /\ lat.reg \in CsrReg
    BY <1>4, AccessHoldsTheCpu DEF AccessUnderWay, TypeOK
  <2>3. csr'[RegAt(instr.csr)] = csr[RegAt(instr.csr)]
    BY <1>4, <2>2, OnlyTheHandlerWrites DEF ByHandler, Active
  <2>4. rdval = rdVal /\ csr[RegAt(instr.csr)] = Swapped(rdval)
    BY <1>4 DEF SwapIsAtomic, HasWritten, Vld
  <2>. QED  BY <2>1, <2>3, <2>4 DEF Finish, AboutToWrite, HasWritten, Swapped, RegAt
<1>. QED  BY <1>1, <1>2, <1>3, <1>4 DEF TypeOK

(***************************************************************************)
(* A csr instruction is an atomic swap (SwapIsAtomic), whatever traps,     *)
(* halts and program buffers come before it.                               *)
(***************************************************************************)
THEOREM SwapsAreAtomic == Spec /\ []Quiet => []SwapIsAtomic
<1>1. Init => SwapIsAtomic
  BY DEF Init, SwapIsAtomic, AccessUnderWay, AboutToWrite, HasWritten, Vld, WritingBackCsr
<1>2. CsrTrapInv /\ CsrTrapInv' /\ Quiet /\ SwapIsAtomic /\ [Edge]_vars => SwapIsAtomic'
  <2>. SUFFICES ASSUME CsrTrapInv, CsrTrapInv', Quiet, SwapIsAtomic, [Edge]_vars
                PROVE  SwapIsAtomic'
    OBVIOUS
  <2>1. CASE Edge
    BY <2>1, SwapStep DEF SwapIsAtomic, CsrTrapInv
  <2>2. CASE UNCHANGED vars
    <3>1. UNCHANGED <<cpu, pc, instr, rdval, wasHalted, debugMode, priv, code,
                      csr, csrFsm, lat, rdVal, dst>>
      BY <2>2 DEF vars, cpuVars, csrVars
    <3>. QED  BY <3>1 DEF SwapIsAtomic, AccessUnderWay, AboutToWrite, HasWritten, Vld,
                          WritingBackCsr, Enabled, Refused, RegAt, Swapped
  <2>. QED  BY <2>1, <2>2
<1>. QED  BY <1>1, <1>2, CsrTrapInvariant, PTL DEF Spec
-----------------------------------------------------------------------------
(***************************************************************************)
(* The refinement of PrivContract.                                         *)
(***************************************************************************)

(* What reaches EXECUTE is not for DECODE to end, and no step sets a bit of
   mip. *)
Executable ==
    cpu \in {"EXECUTE", "WRITEBACK"} => instr.op \notin {"illegal", "ecall", "ebreak"}

MipClear == csr["mip"] = {}

(* The layout of the contract is that of the registers. *)
LEMMA SameLayout ==
    /\ Contract!Machine = Machine /\ Contract!Mpp = Mpp /\ Contract!None = None
    /\ Contract!Misaligning = Misaligning /\ Contract!DebugCsr = DebugCsr
    /\ Contract!MieBit = MieBit /\ Contract!MpieBit = MpieBit
    /\ Contract!EbreakmBit = EbreakmBit /\ Contract!Cause = Cause
    /\ Contract!EbreakEntry = EbreakEntry /\ Contract!HaltreqEntry = HaltreqEntry
    /\ Contract!StepEntry = StepEntry
    /\ Contract!CsrReg = CsrReg
  BY DEF Contract!Machine, Machine, Contract!Mpp, Mpp, Contract!None, None,
         Contract!Misaligning, Misaligning, Contract!DebugCsr, DebugCsr,
         Contract!MieBit, MieBit, Contract!MpieBit, MpieBit,
         Contract!EbreakmBit, EbreakmBit, Contract!Cause, Cause,
         Contract!EbreakEntry, EbreakEntry, Contract!HaltreqEntry, HaltreqEntry,
         Contract!StepEntry, StepEntry, Contract!CsrReg, CsrReg

LEMMA SameCauses ==
    /\ Contract!FetchMisaligned = FetchMisaligned
    /\ Contract!FetchAccessFault = FetchAccessFault
    /\ Contract!IllegalInstr = IllegalInstr
    /\ Contract!Breakpoint = Breakpoint
    /\ Contract!LoadAccessFault = LoadAccessFault
    /\ Contract!StoreAccessFault = StoreAccessFault
    /\ Contract!EcallFromU = EcallFromU
    /\ Contract!EcallFromM = EcallFromM
  BY DEF Contract!FetchMisaligned, FetchMisaligned, Contract!FetchAccessFault,
         FetchAccessFault, Contract!IllegalInstr, IllegalInstr, Contract!Breakpoint,
         Breakpoint, Contract!LoadAccessFault, LoadAccessFault,
         Contract!StoreAccessFault, StoreAccessFault, Contract!EcallFromU, EcallFromU,
         Contract!EcallFromM, EcallFromM

LEMMA SameOperators ==
    /\ \A w, f, v : Contract!Put(w, f, v) = Put(w, f, v)
    /\ \A r, old, new : Contract!Written(r, old, new) = Written(r, old, new)
    /\ \A f, old, v : Contract!NewValue(f, old, v) = NewValue(f, old, v)
    /\ \A f, x0 : Contract!OnlyReads(f, x0) <=> OnlyReads(f, x0)
    /\ \A r : Contract!ResetValue(r) = ResetValue(r)
    /\ Contract!Instr = Instr
<1>1. \A w, f, v : Contract!Put(w, f, v) = Put(w, f, v)
  BY DEF Contract!Put, Put
<1>2. \A r : Contract!Writable(r) = Writable(r)
  BY DEF Contract!Writable, Writable, Contract!Step, Step, Contract!EbreakmBit,
         EbreakmBit, Contract!Bit, Bit
<1>3. \A r, old, new : Contract!Written(r, old, new) = Written(r, old, new)
  BY <1>1, <1>2 DEF Contract!Written, Written
<1>4. \A f, old, v : Contract!NewValue(f, old, v) = NewValue(f, old, v)
  BY DEF Contract!NewValue, NewValue
<1>5. \A f, x0 : Contract!OnlyReads(f, x0) <=> OnlyReads(f, x0)
  BY DEF Contract!OnlyReads, OnlyReads
<1>6. \A r : Contract!ResetValue(r) = ResetValue(r)
  BY DEF Contract!ResetValue, ResetValue
<1>7. Contract!Instr = Instr
  BY DEF Contract!Instr, Instr, Contract!Word, Word, Contract!Bit, Bit, Contract!Func,
         Func, Contract!CsrAddr, CsrAddr, Contract!CsrReg, CsrReg
<1>. QED  BY <1>1, <1>3, <1>4, <1>5, <1>6, <1>7

-----------------------------------------------------------------------------
LEMMA PrivInvStep ==
    ASSUME CsrTrapInv, Executable, MipClear, Edge
    PROVE  Executable' /\ MipClear'
<1>1. Executable'
  <2>1. cpu' \in {"EXECUTE", "WRITEBACK"} =>
          /\ instr' = instr
          /\ cpu = "EXECUTE" \/ (cpu = "DECODE" /\ ~Traps /\ instr.op # "ebreak")
    BY DEF Edge, CpuStep, CheckShouldHalt, Halted, Fetch, Decode, ExecuteMret,
           ExecuteCsr, ExecuteOther, Writeback, EnterTrap, Trap, Goto, Enabled
  <2>2. cpu = "DECODE" /\ ~Traps => instr.op \notin {"illegal", "ecall"}
    BY DEF Traps, CpuTraps
  <2>. QED  BY <2>1, <2>2 DEF Executable
<1>2. MipClear'
  <2>1. PICK cause \in EntryCauses :
          csr'["mip"] = ByExceptionUnit("mip", ByHandler("mip", ByCpu("mip", cause)))
    BY RegisterStep DEF CsrReg
  <2>2. ByHandler("mip", ByCpu("mip", cause)) = {}
    BY DEF MipClear, ByHandler, ByCpu
  <2>. QED  BY <2>1, <2>2 DEF MipClear, ByExceptionUnit, OnRaise
<1>. QED  BY <1>1, <1>2

(* The CSR unit rests while the CPU does anything but execute a csr
   instruction it does not refuse. *)
LEMMA UnitRests ==
    ASSUME CsrTrapInv, Edge, ~(Enabled /\ ~Refused)
    PROVE  csrFsm = "IDLE" /\ csrFsm' = "IDLE"
  BY DEF CsrTrapInv, AccessUnderWay, Edge, CsrUnitStep, Idle, RegGeneric, RegSpecific,
         Finish

(* Where nothing happens to the registers. *)
LEMMA RegistersRest ==
    ASSUME CsrTrapInv, Edge, \A r \in CsrReg \ {"mip"} : ~Active(r),
           ~Raise, ~EntersDebugMode,
           cpu = "HALTED" => wasHalted \/ debugMode,
           ~(cpu = "EXECUTE" /\ instr.op = "mret")
    PROVE  csr' = csr /\ priv' = priv
<1>1. PICK cause \in EntryCauses :
        csr' = [r \in CsrReg |-> ByExceptionUnit(r, ByHandler(r, ByCpu(r, cause)))]
  BY DEF Edge, RegistersStep
<1>2. ASSUME NEW r \in CsrReg
      PROVE  ByExceptionUnit(r, ByHandler(r, ByCpu(r, cause))) = csr[r]
  BY DEF ByExceptionUnit, ByHandler, ByCpu
<1>3. csr' = [r \in CsrReg |-> csr[r]]
  BY <1>1, <1>2
<1>4. csr \in [CsrReg -> Word]
  BY DEF CsrTrapInv, TypeOK
<1>. QED  BY <1>3, <1>4 DEF Edge, PrivStep

LEMMA NoneActive ==
    ASSUME csrFsm # "REG_SPECIFIC", NEW r
    PROVE  ~Active(r)
  BY DEF Active

-----------------------------------------------------------------------------
(* Traps. *)
TrapValue ==
    IF BusError THEN BadAddr
    ELSE IF TrapCause = IllegalInstr THEN Encoding(instr) ELSE csr["mtval"]

LEMMA TrapMoves ==
    ASSUME CsrTrapInv, Edge, Traps
    PROVE  /\ cpu \in {"FETCH", "DECODE", "EXECUTE"} /\ ~Vld
           /\ cpu' = (IF debugMode THEN "HALTED" ELSE "TRAP") /\ ~Vld'
           /\ csrFsm = "IDLE"
           /\ pc' = pc /\ debugMode' = debugMode /\ wasHalted' = FALSE
           /\ ~EntersDebugMode
<1>1. cpu \in {"FETCH", "DECODE", "EXECUTE"} /\ (cpu = "EXECUTE" => instr.op # "mret")
  BY DEF Traps, CpuTraps, IllegalCsr, Enabled, BusError, FetchError, DataError
<1>2. Trap
  BY <1>1 DEF Edge, CpuStep, CheckShouldHalt, Halted, Fetch, Decode, ExecuteMret,
              ExecuteCsr, ExecuteOther, Writeback, EnterTrap
<1>3. ~(Enabled /\ ~Refused)
  BY DEF Traps, CpuTraps, IllegalCsr, Enabled, BusError, FetchError, DataError
<1>4. csrFsm = "IDLE" /\ csrFsm' = "IDLE"
  BY <1>3, UnitRests
<1>. QED  BY <1>1, <1>2, <1>4
          DEF Trap, Goto, Vld, Edge, CpuStep, DebugModule, EntersDebugMode

LEMMA TrapWrites ==
    ASSUME CsrTrapInv, Quiet, MipClear, Edge, Traps, ~debugMode
    PROVE  /\ priv' = Machine
           /\ csr' = [csr EXCEPT !["mepc"] = pc, !["mcause"] = TrapCause,
                                 !["mtval"] = TrapValue,
                                 !["mstatus"] = Put(@, Mpp, priv)]
<1>1. PICK cause \in EntryCauses :
        csr' = [r \in CsrReg |-> ByExceptionUnit(r, ByHandler(r, ByCpu(r, cause)))]
  BY DEF Edge, RegistersStep
<1>2. Raise /\ (~BusError => CpuRaises)
  BY QuietRaise DEF Traps, CpuRaises
<1>3. csrFsm = "IDLE" /\ ~EntersDebugMode /\ cpu # "HALTED"
  BY TrapMoves
<1>4. csr \in [CsrReg -> Word]
  BY DEF CsrTrapInv, TypeOK
<1>5. BusError => TrapCause # IllegalInstr
  <2>1. BusError => TrapCause \in {FetchAccessFault, LoadAccessFault, StoreAccessFault}
    BY DEF BusError, TrapCause
  <2>2. IllegalInstr \notin {FetchAccessFault, LoadAccessFault, StoreAccessFault}
    BY DEF FetchAccessFault, LoadAccessFault, StoreAccessFault, IllegalInstr
  <2>. QED  BY <2>1, <2>2
<1>6. ASSUME NEW r \in CsrReg
      PROVE  csr'[r] = IF r = "mepc" THEN pc
                       ELSE IF r = "mcause" THEN TrapCause
                       ELSE IF r = "mtval" THEN TrapValue
                       ELSE IF r = "mstatus" THEN Put(csr[r], Mpp, priv) ELSE csr[r]
  <2>1. ByHandler(r, ByCpu(r, cause)) = csr[r]
    BY <1>3 DEF ByHandler, ByCpu, Active
  <2>2. csr'[r] = OnRaise(r, csr[r])
    BY <1>1, <1>2, <2>1 DEF ByExceptionUnit
  <2>. QED  BY <1>2, <1>5, <2>2 DEF OnRaise, TrapValue, MipClear
<1>7. /\ csr' \in [CsrReg -> Word]
  BY RegisterTypes
<1>. QED  BY <1>2, <1>4, <1>6, <1>7 DEF CsrReg, Edge, PrivStep

LEMMA TrapIsContract ==
    ASSUME CsrTrapInv, Quiet, MipClear, Edge, Traps
    PROVE  Contract!PrivNext
<1>. USE SameLayout, SameCauses
<1>1. Contract!Except(TrapCause, TrapValue)
  <2>1. CASE debugMode
    <3>1. ~Raise /\ cpu \in {"FETCH", "DECODE", "EXECUTE"} /\ ~(cpu = "EXECUTE" /\ instr.op = "mret")
      BY <2>1, QuietRaise, TrapMoves
      DEF Traps, CpuTraps, IllegalCsr, Enabled, BusError, FetchError, DataError
    <3>2. csr' = csr /\ priv' = priv
      BY <3>1, RegistersRest, TrapMoves, NoneActive
    <3>. QED  BY <2>1, <3>2, TrapMoves
              DEF Contract!Except, ContractPlace, ContractPc, ContractCsr, HasExecuted
  <2>2. CASE ~debugMode
    <3>1. ContractPc' = csr'["mtvec"] \ Misaligning /\ ContractCsr' = csr'
      BY <2>2, TrapMoves DEF ContractPc, ContractCsr, HasExecuted
    <3>2. ContractPc = pc /\ ContractCsr = csr /\ ContractPlace = "program"
          /\ ContractPlace' = "program"
      BY <2>2, TrapMoves DEF ContractPc, ContractCsr, HasExecuted, ContractPlace
    <3>3. csr'["mtvec"] = csr["mtvec"]
      BY <2>2, TrapWrites DEF CsrReg, CsrTrapInv, TypeOK
    <3>4. Contract!TrapTo(TrapCause, TrapValue)
      BY <2>2, <3>1, <3>2, <3>3, TrapWrites, SameOperators DEF Contract!TrapTo
    <3>. QED  BY <3>2, <3>4 DEF Contract!Except
  <2>. QED  BY <2>1, <2>2 DEF CsrTrapInv, TypeOK
<1>2. ContractPlace # "halted" /\ ContractTodo' = None /\ ContractCsr = csr /\ ContractPc = pc
  BY TrapMoves DEF ContractPlace, ContractTodo, ContractCsr, ContractPc, HasExecuted
<1>3. ContractPlace = "progbuf" <=> debugMode
  BY TrapMoves DEF ContractPlace
<1>4. CASE cpu = "FETCH"
  <2>1. ContractTodo = None
    BY <1>4 DEF ContractTodo
  <2>2. CASE Aligned
    <3>1. BusError /\ TrapCause = FetchAccessFault /\ TrapValue = pc /\ pc \notin Memory
      BY <1>4, <2>2 DEF Traps, CpuTraps, IllegalCsr, Enabled, BusError, FetchError,
                        DataError, TrapCause, TrapValue, BadAddr
    <3>. QED  BY <1>1, <1>2, <2>1, <2>2, <3>1
              DEF Aligned, Contract!Aligned, Contract!RefuseToFetch, Contract!PrivNext
  <2>3. CASE ~Aligned
    <3>1. TrapCause = FetchMisaligned /\ TrapValue = csr["mtval"]
      BY <1>4, <2>3 DEF BusError, FetchError, DataError, TrapCause, TrapValue,
                        FetchMisaligned, IllegalInstr
    <3>. QED  BY <1>1, <1>2, <2>1, <2>3, <3>1
              DEF Aligned, Contract!Aligned, Contract!RefuseToFetch, Contract!PrivNext
  <2>. QED  BY <2>2, <2>3
<1>5. CASE cpu \in {"DECODE", "EXECUTE"}
  <2>1. ContractTodo = instr
    BY <1>5, TrapMoves DEF ContractTodo
  <2>. DEFINE Runs(ops) == instr.op \in ops
  <2>2. \A ops : Contract!Executes(ops) <=> Runs(ops)
    BY <1>2, <2>1 DEF Contract!Executes
  <2>3. CASE cpu = "DECODE"
    <3>1. ~BusError /\ ~FetchError /\ ~DataError("load") /\ ~DataError("store")
      BY <2>3 DEF BusError, FetchError, DataError
    <3>2. CpuTraps
      BY <3>1 DEF Traps
    <3>3. CASE instr.op = "illegal"
      <4>1. TrapCause = IllegalInstr /\ TrapValue = Encoding(instr)
        BY <2>3, <3>1, <3>3 DEF TrapCause, TrapValue
      <4>. QED  BY <1>1, <2>1, <2>2, <3>3, <4>1
                DEF Contract!RefuseToExecute, Contract!PrivNext
    <3>4. CASE instr.op = "ecall"
      <4>1. /\ TrapCause = (IF priv = Machine THEN EcallFromM ELSE EcallFromU)
            /\ TrapValue = csr["mtval"]
        BY <2>3, <3>1, <3>4 DEF TrapCause, TrapValue, EcallFromM, EcallFromU, IllegalInstr
      <4>. QED  BY <1>1, <1>2, <2>1, <2>2, <3>4, <4>1
                DEF Contract!RefuseToExecute, Contract!PrivNext
    <3>5. CASE instr.op = "ebreak"
      <4>1. ~HaltOnEbreak
        BY <2>3, <3>2, <3>5 DEF CpuTraps, IllegalCsr, Enabled
      <4>2. TrapCause = Breakpoint /\ TrapValue = csr["mtval"]
        BY <2>3, <3>1, <3>5 DEF TrapCause, TrapValue, Breakpoint, IllegalInstr
      <4>3. ~Contract!HaltsOnEbreak
        BY <1>2, <1>3, <4>1 DEF HaltOnEbreak, Contract!HaltsOnEbreak
      <4>. QED  BY <1>1, <1>2, <2>1, <2>2, <3>5, <4>2, <4>3
                DEF Contract!RefuseToExecute, Contract!PrivNext
    <3>. QED  BY <2>3, <3>2, <3>3, <3>4, <3>5 DEF CpuTraps, IllegalCsr, Enabled
  <2>4. CASE cpu = "EXECUTE"
    <3>1. CASE IllegalCsr
      <4>1. instr.op = "csr" /\ Refused
        BY <3>1 DEF IllegalCsr, Enabled
      <4>2. TrapCause = IllegalInstr /\ TrapValue = Encoding(instr)
        BY <2>4, <4>1 DEF TrapCause, TrapValue, BusError, FetchError, DataError
      <4>3. Contract!Refused
        BY <1>3, <2>1, <4>1 DEF Refused, Contract!Refused
      <4>. QED  BY <1>1, <2>1, <2>2, <4>1, <4>2, <4>3
                DEF Contract!RefuseToExecute, Contract!PrivNext
    <3>2. ASSUME NEW op \in {"load", "store"}, DataError(op)
          PROVE  /\ instr.op = op /\ Contract!Faults
                 /\ TrapValue = instr.addr \ Misaligning
                 /\ TrapCause = IF op = "load" THEN LoadAccessFault ELSE StoreAccessFault
      BY <2>1, <2>4, <3>2 DEF DataError, FetchError, BusError, TrapValue, BadAddr,
                              TrapCause, Contract!Faults
    <3>3. CASE DataError("load")
      BY <1>1, <2>1, <2>2, <3>2, <3>3 DEF Contract!RefuseToExecute, Contract!PrivNext
    <3>4. CASE DataError("store")
      BY <1>1, <2>1, <2>2, <3>2, <3>4 DEF Contract!RefuseToExecute, Contract!PrivNext
    <3>. QED  BY <2>4, <3>1, <3>3, <3>4 DEF Traps, CpuTraps, BusError, FetchError
  <2>. QED  BY <1>5, <2>3, <2>4
<1>. QED  BY <1>4, <1>5, TrapMoves

-----------------------------------------------------------------------------
(* Steps without a trap. *)
Stutters == UNCHANGED Contract!privVars

LEMMA StuttersIf ==
    ASSUME ContractPc' = ContractPc, priv' = priv, ContractCsr' = ContractCsr,
           ContractTodo' = ContractTodo, ContractPlace' = ContractPlace
    PROVE  Stutters
  BY DEF Stutters, Contract!privVars

(* The registers outside the CSR unit's access, the entry into Debug Mode and
   mret are as they were. *)
LEMMA RestWithoutTrap ==
    ASSUME CsrTrapInv, Quiet, Edge, ~Traps, csrFsm = "IDLE", ~EntersDebugMode,
           cpu # "HALTED", ~(cpu = "EXECUTE" /\ instr.op = "mret")
    PROVE  csr' = csr /\ priv' = priv
  BY RegistersRest, NoneActive, QuietRaise

(* Entering Debug Mode writes dcsr.cause, and dpc a cycle later. *)
LEMMA HaltWrites ==
    ASSUME CsrTrapInv, Quiet, Edge, EntersDebugMode, csrFsm = "IDLE",
           cpu \in {"CHECK", "DECODE"}
    PROVE  /\ priv' = priv
           /\ \E cause \in EntryCauses :
                csr' = [csr EXCEPT !["dcsr"] = Put(@, Cause, cause)]
<1>1. ~Raise
  BY QuietRaise DEF EntersDebugMode
<1>2. PICK cause \in EntryCauses :
        csr' = [r \in CsrReg |-> ByExceptionUnit(r, ByHandler(r, ByCpu(r, cause)))]
  BY DEF Edge, RegistersStep
<1>3. csr \in [CsrReg -> Word]
  BY DEF CsrTrapInv, TypeOK
<1>4. ASSUME NEW r \in CsrReg
      PROVE  csr'[r] = IF r = "dcsr" THEN Put(csr[r], Cause, cause) ELSE csr[r]
  <2>1. ByHandler(r, ByCpu(r, cause)) = ByCpu(r, cause)
    BY DEF ByHandler, Active
  <2>2. csr'[r] = ByCpu(r, cause)
    BY <1>1, <1>2, <2>1 DEF ByExceptionUnit
  <2>. QED  BY <2>2 DEF ByCpu
<1>5. csr' \in [CsrReg -> Word]
  BY RegisterTypes
<1>. QED  BY <1>1, <1>3, <1>4, <1>5 DEF CsrReg, Edge, PrivStep

LEMMA HaltIsContract ==
    ASSUME CsrTrapInv, Quiet, Edge, EntersDebugMode, csrFsm = "IDLE", csrFsm' = "IDLE",
           cpu \in {"CHECK", "DECODE"}, pc' = pc, NEW cause \in EntryCauses,
           csr' = [csr EXCEPT !["dcsr"] = Put(@, Cause, cause)]
    PROVE  Contract!EnterDebugMode(cause)
<1>1. cpu' = "HALTED" /\ wasHalted' = FALSE /\ debugMode' = debugMode /\ priv' = priv
  BY HaltWrites DEF EntersDebugMode, Edge, CpuStep, DebugModule
<1>2. /\ ContractPc = pc /\ ContractPc' = pc /\ ContractPlace' = "halted"
      /\ ContractCsr = csr /\ (ContractPlace = "program" <=> ~debugMode)
      /\ ContractCsr' = IF debugMode THEN csr' ELSE [csr' EXCEPT !["dpc"] = pc]
  BY <1>1 DEF ContractPc, ContractPlace, ContractCsr, HasExecuted, Vld
<1>3. csr \in [CsrReg -> Word]
  BY DEF CsrTrapInv, TypeOK
<1>4. ContractCsr' = [csr EXCEPT !["dcsr"] = Put(@, Cause, cause),
                                 !["dpc"] = IF ~debugMode THEN pc ELSE @]
  BY <1>2, <1>3 DEF CsrReg
<1>. QED  BY <1>1, <1>2, <1>4, SameLayout, SameOperators DEF Contract!EnterDebugMode

LEMMA CheckIsContract ==
    ASSUME CsrTrapInv, Quiet, Edge, CheckShouldHalt
    PROVE  Contract!PrivNext \/ Stutters
<1>1. cpu = "CHECK" /\ ~Traps /\ pc' = pc
  BY DEF CheckShouldHalt, Goto, Traps, CpuTraps, IllegalCsr, Enabled, BusError,
         FetchError, DataError
<1>2. csrFsm = "IDLE" /\ csrFsm' = "IDLE" /\ debugMode' = debugMode
  BY <1>1, UnitRests DEF Enabled, Edge, DebugModule
<1>3. CASE cpu' = "FETCH"
  <2>1. csr' = csr /\ priv' = priv
    BY <1>1, <1>2, <1>3, RestWithoutTrap DEF EntersDebugMode
  <2>. QED  BY <1>1, <1>2, <1>3, <2>1, StuttersIf
            DEF ContractPc, ContractCsr, ContractTodo, ContractPlace, HasExecuted, Vld
<1>4. CASE cpu' = "HALTED"
  <2>1. EntersDebugMode
    BY <1>1, <1>4 DEF EntersDebugMode
  <2>2. PICK cause \in EntryCauses : csr' = [csr EXCEPT !["dcsr"] = Put(@, Cause, cause)]
    BY <1>1, <1>2, <2>1, HaltWrites
  <2>3. Contract!EnterDebugMode(cause) /\ cause \in {HaltreqEntry, StepEntry}
    BY <1>1, <1>2, <2>1, <2>2, HaltIsContract DEF EntryCauses
  <2>4. ContractTodo = None /\ ContractTodo' = None /\ ContractPlace # "halted"
    BY <1>1, <1>4 DEF ContractTodo, ContractPlace
  <2>. QED  BY <2>3, <2>4, SameLayout DEF Contract!Halt, Contract!PrivNext
<1>. QED  BY <1>3, <1>4 DEF CheckShouldHalt, Goto

LEMMA HaltedIsContract ==
    ASSUME CsrTrapInv, Quiet, Edge, Halted
    PROVE  Contract!PrivNext \/ Stutters
<1>1. cpu = "HALTED" /\ ~Traps /\ wasHalted' = TRUE /\ wasHalted \in BOOLEAN
      /\ debugMode \in BOOLEAN
  BY DEF Halted, Traps, CpuTraps, IllegalCsr, Enabled, BusError, FetchError, DataError,
         Edge, CpuStep, CsrTrapInv, TypeOK
<1>2. csrFsm = "IDLE" /\ csrFsm' = "IDLE"
  BY <1>1, UnitRests DEF Enabled
<1>3. ContractPc = pc /\ ContractTodo = None /\ ContractPlace = "halted"
  BY <1>1, <1>2 DEF ContractPc, ContractTodo, ContractPlace, HasExecuted, Vld
<1>4. CASE cpu' = "HALTED" /\ ~wasHalted /\ ~debugMode
  <2>1. pc' = pc /\ debugMode' = debugMode
    BY <1>1, <1>4 DEF Halted, Goto, Edge, DebugModule
  <2>2. PICK cause \in EntryCauses :
          csr' = [r \in CsrReg |-> ByExceptionUnit(r, ByHandler(r, ByCpu(r, cause)))]
    BY DEF Edge, RegistersStep
  <2>3. ~Raise
    BY <1>1, QuietRaise
  <2>4. ASSUME NEW r \in CsrReg
        PROVE  csr'[r] = IF r = "dpc" THEN pc ELSE csr[r]
    <3>1. ByHandler(r, ByCpu(r, cause)) = IF r = "dpc" THEN pc ELSE csr[r]
      BY <1>1, <1>2, <1>4 DEF ByHandler, Active, ByCpu, EntersDebugMode
    <3>. QED  BY <1>1, <2>2, <2>3, <3>1 DEF ByExceptionUnit
  <2>5. csr' = [csr EXCEPT !["dpc"] = pc] /\ priv' = priv
    <3>1. csr \in [CsrReg -> Word] /\ csr' \in [CsrReg -> Word]
      BY RegisterTypes DEF CsrTrapInv, TypeOK
    <3>. QED  BY <1>1, <2>3, <2>4, <3>1 DEF CsrReg, Edge, PrivStep
  <2>6. ContractCsr' = ContractCsr
    BY <1>1, <1>4, <2>5 DEF ContractCsr
  <2>. QED  BY <1>2, <1>3, <1>4, <2>1, <2>5, <2>6, StuttersIf
            DEF ContractPc, ContractTodo, ContractPlace, HasExecuted, Vld
<1>5. ASSUME cpu' = "FETCH" \/ wasHalted \/ debugMode
      PROVE  csr' = csr /\ priv' = priv /\ ContractCsr = csr /\ ContractCsr' = csr
  <2>1. wasHalted \/ debugMode
    BY <1>5 DEF Halted, Goto, CsrTrapInv, TypeOK
  <2>2. csr' = csr /\ priv' = priv
    BY <1>1, <1>2, <2>1, RegistersRest, NoneActive, QuietRaise DEF EntersDebugMode
  <2>. QED  BY <1>1, <2>1, <2>2 DEF ContractCsr
<1>6. CASE cpu' = "HALTED" /\ (wasHalted \/ debugMode)
  <2>1. pc' = pc
    BY <1>1, <1>6 DEF Halted, Goto
  <2>. QED  BY <1>2, <1>3, <1>5, <1>6, <2>1, StuttersIf
            DEF ContractPc, ContractTodo, ContractPlace, HasExecuted, Vld
<1>7. CASE cpu' = "FETCH"
  <2>1. /\ pc' = (IF debugMode THEN Progbuf ELSE csr["dpc"])
        /\ debugMode' = debugMode
    BY <1>1, <1>7 DEF Halted, Goto, Edge, DebugModule
  <2>2. /\ ContractPc' = pc' /\ ContractTodo' = None
        /\ ContractPlace' = (IF debugMode THEN "progbuf" ELSE "program")
    BY <1>2, <1>7, <2>1 DEF ContractPc, ContractTodo, ContractPlace, HasExecuted, Vld
  <2>3. Contract!Resume
    BY <1>3, <1>5, <1>7, <2>1, <2>2 DEF Contract!Resume
  <2>. QED  BY <2>3 DEF Contract!PrivNext
<1>. QED  BY <1>1, <1>4, <1>6, <1>7 DEF Halted, Goto

LEMMA FetchIsContract ==
    ASSUME CsrTrapInv, Quiet, Edge, Fetch, ~Traps
    PROVE  Contract!PrivNext \/ Stutters
<1>1. cpu = "FETCH" /\ cpu' = "DECODE" /\ pc' = pc /\ instr' \in code[pc]
  BY DEF Fetch
<1>2. csrFsm = "IDLE" /\ csrFsm' = "IDLE" /\ debugMode' = debugMode
  BY <1>1, UnitRests DEF Enabled, Edge, DebugModule
<1>3. csr' = csr /\ priv' = priv
  BY <1>1, <1>2, RestWithoutTrap DEF EntersDebugMode
<1>4. Aligned /\ pc \in Memory
  BY <1>1 DEF Traps, CpuTraps, BusError, FetchError
<1>5. instr' \in Instr
  BY <1>1, <1>4, ProgramAssumption DEF CsrTrapInv, TypeOK
<1>6. /\ ContractPc = pc /\ ContractPc' = pc /\ ContractCsr = csr /\ ContractCsr' = csr
      /\ ContractTodo = None /\ ContractTodo' = instr'
      /\ ContractPlace # "halted" /\ ContractPlace' = ContractPlace
  BY <1>1, <1>2, <1>3
  DEF ContractPc, ContractCsr, ContractTodo, ContractPlace, HasExecuted, Vld
<1>. QED  BY <1>3, <1>4, <1>5, <1>6, SameLayout, SameOperators
          DEF Aligned, Contract!Aligned, Contract!FetchInstr, Contract!PrivNext

LEMMA DecodeIsContract ==
    ASSUME CsrTrapInv, Quiet, Edge, Decode, ~Traps
    PROVE  Contract!PrivNext \/ Stutters
<1>1. /\ cpu = "DECODE" /\ pc' = pc /\ instr' = instr
      /\ cpu' = IF instr.op = "ebreak" THEN "HALTED" ELSE "EXECUTE"
  BY DEF Decode, Goto
<1>2. csrFsm = "IDLE" /\ csrFsm' = "IDLE" /\ debugMode' = debugMode
  BY <1>1, UnitRests DEF Enabled, Edge, DebugModule
<1>3. CASE instr.op # "ebreak"
  <2>1. csr' = csr /\ priv' = priv
    BY <1>1, <1>2, <1>3, RestWithoutTrap DEF EntersDebugMode
  <2>. QED  BY <1>1, <1>2, <1>3, <2>1, StuttersIf
            DEF ContractPc, ContractCsr, ContractTodo, ContractPlace, HasExecuted, Vld
<1>4. CASE instr.op = "ebreak"
  <2>1. EntersDebugMode
    BY <1>1, <1>4 DEF EntersDebugMode
  <2>2. PICK cause \in EntryCauses : csr' = [csr EXCEPT !["dcsr"] = Put(@, Cause, cause)]
    BY <1>1, <1>2, <2>1, HaltWrites
  <2>3. Contract!EnterDebugMode(cause) /\ cause = EbreakEntry
    BY <1>1, <1>2, <2>1, <2>2, HaltIsContract DEF EntryCauses
  <2>4. /\ ContractTodo = instr /\ ContractTodo' = None
        /\ ContractCsr = csr /\ ContractPlace \in {"program", "progbuf"}
        /\ ContractPlace = "progbuf" <=> debugMode
    BY <1>1, <1>2, <1>4 DEF ContractTodo, ContractCsr, ContractPlace, Vld, CsrTrapInv, TypeOK
  <2>5. HaltOnEbreak
    BY <1>1, <1>4 DEF Traps, CpuTraps
  <2>6. Contract!HaltsOnEbreak
    BY <2>4, <2>5, SameLayout DEF HaltOnEbreak, Contract!HaltsOnEbreak
  <2>7. Contract!Executes({"ebreak"})
    BY <1>4, <2>4, SameLayout DEF Contract!Executes
  <2>. QED  BY <2>3, <2>4, <2>6, <2>7, SameLayout DEF Contract!Halt, Contract!PrivNext
<1>. QED  BY <1>3, <1>4

(* The write of a csr instruction is the step the contract takes at once. *)
LEMMA AccessIsContract ==
    ASSUME CsrTrapInv, SwapIsAtomic, Quiet, Edge, csrFsm = "REG_SPECIFIC",
           csrFsm' = "FINISH"
    PROVE  Contract!AccessCsr
<1>1. /\ cpu = "EXECUTE" /\ cpu' = "EXECUTE" /\ instr.op = "csr" /\ ~Traps
      /\ pc' = pc /\ instr' = instr
  BY AccessHoldsTheCpu DEF CsrTrapInv, Vld
<1>2. /\ ~Refused /\ priv = Machine
      /\ lat = [reg |-> RegAt(instr.csr), func |-> instr.func, x0 |-> instr.x0]
  BY DEF CsrTrapInv, AccessUnderWay, Refused
<1>3. priv' = priv /\ debugMode' = debugMode
  BY <1>1, <1>2 DEF Edge, PrivStep, DebugModule
<1>4. dst = NewValue(instr.func, csr[lat.reg], instr.val)
  BY <1>2 DEF SwapIsAtomic, AboutToWrite
<1>5. csr \in [CsrReg -> Word] /\ csr' \in [CsrReg -> Word]
  BY RegisterTypes DEF CsrTrapInv, TypeOK
<1>6. Active(lat.reg) => lat.reg = instr.csr /\ lat.reg # "mip"
  <2>1. RegSpecific
    BY DEF Edge, CsrUnitStep, Idle, RegGeneric, RegSpecific, Finish
  <2>. QED  BY <1>2, <2>1 DEF RegSpecific, WriteFinished, RegAt
<1>7. csr' = IF OnlyReads(instr.func, instr.x0) THEN csr
             ELSE [csr EXCEPT ![instr.csr] =
                     Written(instr.csr, @, NewValue(instr.func, @, instr.val))]
  <2>1. \A r \in CsrReg : csr'[r] = ByHandler(r, csr[r])
    BY OnlyTheHandlerWrites
  <2>2. CASE OnlyReads(instr.func, instr.x0)
    <3>1. \A r \in CsrReg : csr'[r] = csr[r]
      BY <1>2, <2>1, <2>2 DEF ByHandler, Active
    <3>. QED  BY <1>5, <2>2, <3>1
  <2>3. CASE ~OnlyReads(instr.func, instr.x0)
    <3>1. Active(lat.reg)
      BY <1>2, <2>3 DEF Active
    <3>2. lat.reg = instr.csr /\ instr.csr \in CsrReg
      BY <1>6, <3>1 DEF CsrTrapInv, TypeOK
    <3>3. \A r \in CsrReg :
            csr'[r] = IF r = instr.csr THEN Written(r, csr[r], dst) ELSE csr[r]
      BY <1>6, <2>1, <3>1, <3>2 DEF ByHandler, Active
    <3>. QED  BY <1>4, <1>5, <2>3, <3>2, <3>3
  <2>. QED  BY <2>2, <2>3
<1>8. /\ ContractPc = pc /\ ContractPc' = Follow[pc]
      /\ ContractCsr = csr /\ ContractCsr' = csr'
      /\ ContractTodo = instr /\ ContractTodo' = None
      /\ ContractPlace = (IF debugMode THEN "progbuf" ELSE "program")
      /\ ContractPlace' = ContractPlace
  BY <1>1, <1>3 DEF ContractPc, ContractCsr, ContractTodo, ContractPlace, HasExecuted, Vld
<1>9. Contract!Executes({"csr"}) /\ ~Contract!Refused
  BY <1>1, <1>2, <1>8, SameLayout
  DEF Contract!Executes, Contract!Refused, Refused
<1>. QED  BY <1>3, <1>7, <1>8, <1>9, SameOperators DEF Contract!AccessCsr

LEMMA ExecuteCsrIsContract ==
    ASSUME CsrTrapInv, SwapIsAtomic, Quiet, Edge, ExecuteCsr, ~Traps
    PROVE  Contract!PrivNext \/ Stutters
<1>1. /\ cpu = "EXECUTE" /\ instr.op = "csr" /\ pc' = pc /\ instr' = instr
      /\ cpu' = IF Vld THEN "WRITEBACK" ELSE "EXECUTE"
  BY DEF ExecuteCsr, Enabled
<1>2. debugMode' = debugMode
  BY <1>1 DEF Edge, DebugModule
<1>3. csrFsm # "REG_SPECIFIC" \/ csrFsm' # "FINISH" => csr' = csr /\ priv' = priv
  <2>1. CASE csrFsm = "IDLE"
    BY <1>1, <2>1, RestWithoutTrap DEF EntersDebugMode, Vld
  <2>2. CASE csrFsm # "IDLE" /\ (csrFsm # "REG_SPECIFIC" \/ csrFsm' # "FINISH")
    <3>1. \A r \in CsrReg : csr'[r] = ByHandler(r, csr[r])
      BY <2>2, OnlyTheHandlerWrites
    <3>2. csrFsm = "REG_SPECIFIC" => Active(lat.reg) /\ lat.reg = "mip"
      BY <2>2 DEF Edge, CsrUnitStep, Idle, RegGeneric, RegSpecific, Finish, WriteFinished
    <3>3. \A r \in CsrReg : csr'[r] = csr[r]
      BY <3>1, <3>2 DEF ByHandler, Active
    <3>4. csr \in [CsrReg -> Word] /\ csr' \in [CsrReg -> Word]
      BY RegisterTypes DEF CsrTrapInv, TypeOK
    <3>5. ~Raise
      BY QuietRaise
    <3>. QED  BY <1>1, <3>3, <3>4, <3>5 DEF Edge, PrivStep
  <2>. QED  BY <2>1, <2>2
<1>4. CASE csrFsm = "REG_SPECIFIC" /\ csrFsm' = "FINISH"
  BY <1>4, AccessIsContract DEF Contract!PrivNext
<1>5. CASE csrFsm = "FINISH"
  <2>1. csrFsm' = "IDLE" /\ cpu' = "WRITEBACK"
    BY <1>1, <1>5 DEF Edge, CsrUnitStep, Idle, RegGeneric, RegSpecific, Finish, Vld
  <2>. QED  BY <1>1, <1>2, <1>3, <1>5, <2>1, StuttersIf
            DEF ContractPc, ContractCsr, ContractTodo, ContractPlace, HasExecuted, Vld
<1>6. CASE csrFsm # "FINISH" /\ csrFsm' # "FINISH"
  <2>1. cpu' = "EXECUTE"
    BY <1>1, <1>6 DEF Vld
  <2>. QED  BY <1>1, <1>2, <1>3, <1>6, <2>1, StuttersIf
            DEF ContractPc, ContractCsr, ContractTodo, ContractPlace, HasExecuted, Vld
<1>7. csrFsm' = "FINISH" => csrFsm = "REG_SPECIFIC"
  BY DEF Edge, CsrUnitStep, Idle, RegGeneric, RegSpecific, Finish
<1>. QED  BY <1>4, <1>5, <1>6, <1>7

LEMMA MretIsContract ==
    ASSUME CsrTrapInv, Quiet, Edge, ExecuteMret
    PROVE  Contract!PrivNext \/ Stutters
<1>1. /\ cpu = "EXECUTE" /\ instr.op = "mret" /\ cpu' = "CHECK" /\ pc' = csr["mepc"]
      /\ ~Traps
  BY DEF ExecuteMret, Traps, CpuTraps, IllegalCsr, Enabled, BusError, FetchError,
         DataError
<1>2. csrFsm = "IDLE" /\ csrFsm' = "IDLE" /\ debugMode' = debugMode
  BY <1>1, UnitRests DEF Enabled, Edge, DebugModule
<1>3. ~Raise
  BY <1>1, QuietRaise
<1>4. csr' = [csr EXCEPT !["mstatus"] = Put(@, {MieBit}, PopMie)]
  <2>1. PICK cause \in EntryCauses :
          csr' = [r \in CsrReg |-> ByExceptionUnit(r, ByHandler(r, ByCpu(r, cause)))]
    BY DEF Edge, RegistersStep
  <2>2. ASSUME NEW r \in CsrReg
        PROVE  csr'[r] = IF r = "mstatus" THEN Put(csr[r], {MieBit}, PopMie) ELSE csr[r]
    <3>1. ByHandler(r, ByCpu(r, cause)) = csr[r]
      BY <1>1, <1>2 DEF ByHandler, ByCpu, Active, EntersDebugMode
    <3>. QED  BY <1>1, <1>3, <2>1, <3>1 DEF ByExceptionUnit
  <2>3. csr \in [CsrReg -> Word] /\ csr' \in [CsrReg -> Word]
    BY RegisterTypes DEF CsrTrapInv, TypeOK
  <2>. QED  BY <2>2, <2>3 DEF CsrReg
<1>5. priv' = csr["mstatus"] \cap Mpp
  BY <1>1, <1>3 DEF Edge, PrivStep
<1>6. /\ ContractPc' = pc' /\ ContractCsr = csr /\ ContractCsr' = csr'
      /\ ContractTodo = instr /\ ContractTodo' = None
      /\ ContractPlace # "halted" /\ ContractPlace' = ContractPlace
  BY <1>1, <1>2 DEF ContractPc, ContractCsr, ContractTodo, ContractPlace, HasExecuted, Vld
<1>7. Contract!Executes({"mret"})
  BY <1>1, <1>6, SameLayout DEF Contract!Executes
<1>. QED  BY <1>1, <1>4, <1>5, <1>6, <1>7, SameLayout, SameOperators
          DEF PopMie, Contract!Mret, Contract!PrivNext

LEMMA ExecuteOtherIsContract ==
    ASSUME CsrTrapInv, Executable, Quiet, Edge, ExecuteOther, ~Traps
    PROVE  Contract!PrivNext \/ Stutters
<1>1. /\ cpu = "EXECUTE" /\ instr.op \notin {"csr", "mret"} /\ cpu' = "WRITEBACK"
      /\ pc' = pc /\ instr' = instr
  BY DEF ExecuteOther, Goto
<1>2. csrFsm = "IDLE" /\ csrFsm' = "IDLE" /\ debugMode' = debugMode
  BY <1>1, UnitRests DEF Enabled, Edge, DebugModule
<1>3. csr' = csr /\ priv' = priv
  BY <1>1, <1>2, RestWithoutTrap DEF EntersDebugMode
<1>4. instr.op \in {"plain", "jump", "load", "store"}
  <2>1. instr \in Instr
    BY <1>1, ProgramAssumption DEF CsrTrapInv, TypeOK, Fetched
  <2>. QED  BY <1>1, <2>1, InstrParts DEF Executable
<1>5. /\ ContractPc = pc
      /\ ContractPc' = (IF instr.op = "jump" THEN instr.to ELSE Follow[pc])
      /\ ContractCsr = csr /\ ContractCsr' = csr
      /\ ContractTodo = instr /\ ContractTodo' = None
      /\ ContractPlace # "halted" /\ ContractPlace' = ContractPlace
  BY <1>1, <1>2, <1>3
  DEF ContractPc, ContractCsr, ContractTodo, ContractPlace, HasExecuted, Vld
<1>6. ~Contract!Faults
  BY <1>1, <1>5 DEF Contract!Faults, Traps, BusError, DataError
<1>7. Contract!Executes({"plain", "jump", "load", "store"})
  BY <1>4, <1>5, SameLayout DEF Contract!Executes
<1>. QED  BY <1>3, <1>5, <1>6, <1>7 DEF Contract!Retire, Contract!PrivNext

(* The hart catches up with the contract. *)
LEMMA CatchesUp ==
    ASSUME CsrTrapInv, Quiet, Edge, Writeback \/ EnterTrap
    PROVE  Stutters
<1>1. /\ cpu \in {"WRITEBACK", "TRAP"} /\ cpu' = "CHECK"
      /\ pc' = ContractPc
  BY DEF Writeback, EnterTrap, ContractPc, HasExecuted, CsrTrapInv, AccessUnderWay,
         Enabled, Vld
<1>2. csrFsm = "IDLE" /\ csrFsm' = "IDLE" /\ debugMode' = debugMode
  BY <1>1, UnitRests DEF Enabled, Edge, DebugModule
<1>3. ~Traps
  BY <1>1 DEF Traps, CpuTraps, IllegalCsr, Enabled, BusError, FetchError, DataError
<1>4. csr' = csr /\ priv' = priv
  BY <1>1, <1>2, <1>3, RestWithoutTrap DEF EntersDebugMode
<1>5. ContractPc' = pc'
  BY <1>1, <1>2 DEF ContractPc, HasExecuted, Vld
<1>. QED  BY <1>1, <1>2, <1>4, <1>5, StuttersIf DEF ContractCsr, ContractTodo, ContractPlace

-----------------------------------------------------------------------------
LEMMA EdgeIsContract ==
    ASSUME CsrTrapInv, Executable, MipClear, SwapIsAtomic, Quiet, Edge
    PROVE  Contract!PrivNext \/ Stutters
<1>1. CASE Traps
  BY <1>1, TrapIsContract
<1>2. CASE ~Traps
  BY <1>2, CheckIsContract, HaltedIsContract, FetchIsContract, DecodeIsContract,
     ExecuteCsrIsContract, MretIsContract, ExecuteOtherIsContract, CatchesUp
  DEF Edge, CpuStep
<1>. QED  BY <1>1, <1>2

LEMMA ContractInit == Init => Contract!PrivInit
  BY SameLayout, SameOperators
  DEF Init, Contract!PrivInit, ContractPc, ContractCsr, ContractTodo, ContractPlace,
      HasExecuted, Vld

LEMMA UnchangedStutters == UNCHANGED vars => Stutters
<1>. SUFFICES ASSUME UNCHANGED vars PROVE Stutters
  OBVIOUS
<1>1. UNCHANGED <<cpu, pc, instr, rdval, wasHalted, debugMode, priv, code,
                  csr, csrFsm, lat, rdVal, dst>>
  BY DEF vars, cpuVars, csrVars
<1>. QED  BY <1>1, StuttersIf
          DEF ContractPc, ContractCsr, ContractTodo, ContractPlace, HasExecuted, Vld

LEMMA ExecutableHolds == Spec => [](Executable /\ MipClear)
<1>1. Init => Executable /\ MipClear
  BY DEF Init, Executable, MipClear, CsrReg, ResetValue
<1>2. CsrTrapInv /\ Executable /\ MipClear /\ [Edge]_vars => Executable' /\ MipClear'
  <2>. SUFFICES ASSUME CsrTrapInv, Executable, MipClear, [Edge]_vars
                PROVE  Executable' /\ MipClear'
    OBVIOUS
  <2>1. CASE Edge
    BY <2>1, PrivInvStep
  <2>2. CASE UNCHANGED vars
    BY <2>2 DEF vars, cpuVars, csrVars, Executable, MipClear
  <2>. QED  BY <2>1, <2>2
<1>. QED  BY <1>1, <1>2, CsrTrapInvariant, PTL DEF Spec

(***************************************************************************)
(* The CSR unit and the exception unit implement the contract of the       *)
(* privileged architecture (KeepsPrivContract): however many cycles an     *)
(* instruction or a trap takes, a program sees it as one step, and of an   *)
(* instruction that traps nothing but the trap.                            *)
(***************************************************************************)
THEOREM ImplementsPrivContract == Spec /\ []Quiet => KeepsPrivContract
<1>1. CsrTrapInv /\ Executable /\ MipClear /\ SwapIsAtomic /\ Quiet /\ [Edge]_vars
        => [Contract!PrivNext]_(Contract!privVars)
  BY EdgeIsContract, UnchangedStutters DEF Stutters
<1>. QED  BY <1>1, ExecutableHolds, ContractInit, CsrTrapInvariant, SwapsAreAtomic, PTL
          DEF Spec, KeepsPrivContract, Contract!PrivSpec

-----------------------------------------------------------------------------
(***************************************************************************)
(* Whether it stays quiet can be told from the programs.                   *)
(***************************************************************************)
IrqOff ==
    /\ csr["mie"] \cap {MsieBit, MeieBit} = {}
    /\ csrFsm = "REG_SPECIFIC" /\ lat.reg = "mie" => dst \cap {MsieBit, MeieBit} = {}

RunsWithin(addrs) ==
    debugMode /\ cpu # "HALTED" =>
        /\ cpu # "TRAP"
        /\ pc \in addrs \/ (~Aligned /\ cpu \in {"CHECK", "FETCH"})

ProgbufInBounds ==
    \E addrs \in SUBSET Memory : QuietWithin(code, addrs) /\ RunsWithin(addrs)

LEMMA InBoundsIsQuiet ==
    ASSUME CsrTrapInv, IrqOff, ProgbufInBounds
    PROVE  Quiet
<1>1. ~IrqRaised
  BY DEF IrqOff, IrqRaised, SoftwareIrqOn, ExternalIrqOn
<1>2. PICK addrs \in SUBSET Memory : QuietWithin(code, addrs) /\ RunsWithin(addrs)
  BY DEF ProgbufInBounds
<1>3. ASSUME debugMode PROVE ~BusError
  <2>1. ~FetchError
    BY <1>2, <1>3 DEF RunsWithin, FetchError
  <2>2. cpu = "EXECUTE" => pc \in addrs /\ instr \in code[pc]
    BY <1>2, <1>3 DEF RunsWithin, CsrTrapInv, Fetched
  <2>. QED  BY <1>2, <2>1, <2>2 DEF QuietWithin, BusError, DataError
<1>. QED  BY <1>1, <1>3 DEF Quiet

LEMMA IrqOffStep ==
    ASSUME CsrTrapInv, QuietPrograms, IrqOff, Edge
    PROVE  IrqOff'
<1>1. csr'["mie"] \cap {MsieBit, MeieBit} = {}
  <2>1. PICK cause \in EntryCauses :
          csr'["mie"] = ByExceptionUnit("mie", ByHandler("mie", ByCpu("mie", cause)))
    BY RegisterStep DEF CsrReg
  <2>2. csr'["mie"] = ByHandler("mie", csr["mie"])
    BY <2>1 DEF ByExceptionUnit, OnRaise, ByCpu
  <2>. QED  BY <2>2 DEF ByHandler, Active, Written, Put, IrqOff
<1>2. ASSUME csrFsm' = "REG_SPECIFIC", lat'.reg = "mie"
      PROVE  dst' \cap {MsieBit, MeieBit} = {}
  <2>1. CASE RegGeneric
    <3>1. /\ lat.reg = "mie" /\ dst' = NewValue(lat.func, csr["mie"], instr.val)
          /\ Enabled /\ lat.reg = RegAt(instr.csr)
      BY <1>2, <2>1 DEF RegGeneric, CsrTrapInv, AccessUnderWay
    <3>2. instr.op = "csr" /\ instr.csr = "mie" /\ instr \in code[pc] /\ pc \in Memory
      BY <3>1 DEF Enabled, RegAt, CsrTrapInv, Fetched
    <3>3. instr.val \cap {MsieBit, MeieBit} = {}
      BY <3>2 DEF QuietPrograms, EnablesNoIrq, CsrTrapInv, TypeOK
    <3>. QED  BY <3>1, <3>3 DEF NewValue, IrqOff
  <2>2. CASE RegSpecific
    BY <1>2, <2>2 DEF RegSpecific, IrqOff
  <2>. QED  BY <1>2, <2>1, <2>2 DEF Edge, CsrUnitStep, Idle, Finish
<1>. QED  BY <1>1, <1>2 DEF IrqOff

LEMMA InBoundsStep ==
    ASSUME CsrTrapInv, Executable, ProgbufInBounds, Edge
    PROVE  ProgbufInBounds'
<1>1. PICK addrs \in SUBSET Memory : QuietWithin(code, addrs) /\ RunsWithin(addrs)
  BY DEF ProgbufInBounds
<1>2. QuietWithin(code', addrs)
  BY <1>1 DEF Edge, DebugModule
<1>3. RunsWithin(addrs)'
  <2>. SUFFICES ASSUME debugMode', cpu' # "HALTED"
                PROVE  /\ cpu' # "TRAP"
                       /\ pc' \in addrs \/ (~Aligned' /\ cpu' \in {"CHECK", "FETCH"})
    BY DEF RunsWithin
  <2>1. debugMode /\ CpuStep
    BY DEF Edge, DebugModule
  <2>2. CASE Halted
    BY <1>1, <2>1, <2>2 DEF Halted, Goto, QuietWithin
  <2>3. CASE cpu # "HALTED"
    <3>1. cpu # "TRAP" /\ (pc \in addrs \/ (~Aligned /\ cpu \in {"CHECK", "FETCH"}))
      BY <1>1, <2>1, <2>3 DEF RunsWithin
    <3>2. ~Trap
      BY <2>1 DEF Trap, Goto
    <3>3. CASE CheckShouldHalt
      BY <3>1, <3>3 DEF CheckShouldHalt, Goto, Aligned
    <3>4. CASE Fetch
      BY <3>1, <3>2, <3>4 DEF Fetch, Traps, CpuTraps
    <3>5. CASE Decode \/ ExecuteCsr \/ ExecuteOther
      BY <3>1, <3>2, <3>5 DEF Decode, ExecuteCsr, Enabled, ExecuteOther, Goto
    <3>6. CASE cpu \in {"EXECUTE", "WRITEBACK"}
      <4>1. instr \in code[pc] /\ pc \in addrs /\ instr \in Instr
        BY <3>1, <3>6, ProgramAssumption DEF CsrTrapInv, TypeOK, Fetched
      <4>2. instr.op \in {"plain", "load", "store", "csr", "jump"}
        BY <1>1, <3>6, <4>1, InstrParts DEF QuietWithin, Executable
      <4>3. ~ExecuteMret
        BY <4>2 DEF ExecuteMret
      <4>4. ASSUME Writeback PROVE pc' \in addrs \/ ~Aligned'
        BY <1>1, <4>1, <4>2, <4>4 DEF Writeback, QuietWithin, Aligned
      <4>. QED  BY <2>1, <3>5, <3>6, <4>3, <4>4
                DEF CpuStep, CheckShouldHalt, Halted, Fetch, Decode, EnterTrap, Writeback
    <3>. QED  BY <2>1, <2>3, <3>1, <3>3, <3>4, <3>5, <3>6
              DEF CpuStep, Halted, ExecuteMret, Writeback, EnterTrap
  <2>. QED  BY <2>1, <2>2, <2>3 DEF CpuStep, CheckShouldHalt, Fetch, Decode, ExecuteCsr,
                                    Enabled, ExecuteMret, ExecuteOther, Writeback, EnterTrap
<1>. QED  BY <1>2, <1>3 DEF ProgbufInBounds

(* No interrupt is raised, and the program buffer meets no bus error, while
   the programs do not ask for it. *)
THEOREM QuietProgramsStayQuiet == QuietPrograms /\ Spec => []Quiet
<1>. SUFFICES ASSUME QuietPrograms PROVE Spec => []Quiet
  OBVIOUS
<1>1. Init => IrqOff /\ ProgbufInBounds
  <2>. SUFFICES ASSUME Init PROVE IrqOff /\ ProgbufInBounds
    OBVIOUS
  <2>1. IrqOff
    BY DEF Init, IrqOff, CsrReg, ResetValue
  <2>2. PICK addrs \in SUBSET Memory : QuietWithin(code, addrs)
    BY DEF Init, QuietPrograms
  <2>3. RunsWithin(addrs)
    BY DEF Init, RunsWithin
  <2>. QED  BY <2>1, <2>2, <2>3 DEF ProgbufInBounds
<1>2. CsrTrapInv /\ Executable /\ IrqOff /\ ProgbufInBounds /\ [Edge]_vars
        => IrqOff' /\ ProgbufInBounds'
  <2>. SUFFICES ASSUME CsrTrapInv, Executable, IrqOff, ProgbufInBounds, [Edge]_vars
                PROVE  IrqOff' /\ ProgbufInBounds'
    OBVIOUS
  <2>1. CASE Edge
    BY <2>1, IrqOffStep, InBoundsStep
  <2>2. CASE UNCHANGED vars
    <3>1. UNCHANGED <<cpu, pc, debugMode, code, csr, csrFsm, lat, dst>>
      BY <2>2 DEF vars, cpuVars, csrVars
    <3>. QED  BY <3>1 DEF IrqOff, ProgbufInBounds, RunsWithin, Aligned
  <2>. QED  BY <2>1, <2>2
<1>3. CsrTrapInv /\ IrqOff /\ ProgbufInBounds => Quiet
  BY InBoundsIsQuiet
<1>. QED  BY <1>1, <1>2, <1>3, CsrTrapInvariant, ExecutableHolds, PTL DEF Spec

(* So what is proved of quiet behaviours holds of every behaviour of programs
   without interrupts and of sound program buffers: the contract
   (KeepsPrivContract), the atomic swap (SwapIsAtomic) and the guarded mode
   (ModeRisesOnlyByTrap). *)
THEOREM QuietProgramsKeepContract ==
    QuietPrograms /\ Spec => KeepsPrivContract /\ []SwapIsAtomic /\ ModeRisesOnlyByTrap
  BY QuietProgramsStayQuiet, ImplementsPrivContract, SwapsAreAtomic,
     ModeIsRaisedByTraps, PTL

-----------------------------------------------------------------------------
(* Cycles of a csr instruction after this one. *)
CsrLeft ==
    CASE csrFsm = "IDLE" -> 3
      [] csrFsm = "REG_GENERIC" -> 2
      [] csrFsm = "REG_SPECIFIC" -> 1
      [] csrFsm = "FINISH" -> 0

LEMMA CsrStep ==
    ASSUME CsrTrapInv, Edge, Enabled, ~(Vld \/ Refused)
    PROVE  cpu' = "EXECUTE" /\ instr' = instr
<1>1. ~Traps
  BY DEF Enabled, Traps, CpuTraps, IllegalCsr, BusError, FetchError, DataError
<1>2. ExecuteCsr
  BY DEF Edge, CpuStep, CheckShouldHalt, Halted, Fetch, Decode, ExecuteMret, ExecuteOther,
         Writeback, EnterTrap, Enabled
<1>. QED  BY <1>1, <1>2 DEF ExecuteCsr

LEMMA CsrStepEnds ==
    ASSUME CsrTrapInv, Edge, Enabled, Vld \/ Refused
    PROVE  ~Enabled'
<1>1. ExecuteCsr
  BY DEF Edge, CpuStep, CheckShouldHalt, Halted, Fetch, Decode, ExecuteMret, ExecuteOther,
         Writeback, EnterTrap, Enabled
<1>2. Refused => Traps
  BY DEF CsrTrapInv, AccessUnderWay, Traps, CpuTraps, IllegalCsr
<1>. QED  BY <1>1, <1>2 DEF ExecuteCsr, Trap, Goto, Enabled

(***************************************************************************)
(* csr.py: a csr instruction is refused in its first cycle, or stands for  *)
(* four and ends, whatever register it names and whatever interrupts do    *)
(* meanwhile; in a build that took MIE before MIP.  With a clock that does *)
(* not stop this is CsrAccessEnds.                                         *)
(***************************************************************************)
THEOREM CsrAccessTime ==
    ~MipFirst /\ Spec =>
      [][Enabled => IF Vld \/ Refused THEN ~Enabled'
                    ELSE Enabled' /\ CsrLeft' = CsrLeft - 1]_vars
<1>. SUFFICES ASSUME ~MipFirst
              PROVE  Spec =>
                [][Enabled => IF Vld \/ Refused THEN ~Enabled'
                              ELSE Enabled' /\ CsrLeft' = CsrLeft - 1]_vars
  OBVIOUS
<1>1. CsrTrapInv /\ [Edge]_vars =>
        [Enabled => IF Vld \/ Refused THEN ~Enabled'
                    ELSE Enabled' /\ CsrLeft' = CsrLeft - 1]_vars
  <2>. SUFFICES ASSUME CsrTrapInv, Edge, Enabled, ~(Vld \/ Refused)
                PROVE  Enabled' /\ CsrLeft' = CsrLeft - 1
    BY CsrStepEnds
  <2>1. Enabled'
    BY CsrStep DEF Enabled
  <2>2. instr \in Instr /\ lat.reg \in CsrReg /\ csrFsm \in {"IDLE", "REG_GENERIC", "REG_SPECIFIC"}
    <3>1. instr \in Instr
      BY DEF CsrTrapInv, TypeOK, Enabled, None
    <3>. QED  BY <3>1 DEF CsrTrapInv, TypeOK, Vld
  <2>3. CsrUnitStep
    BY DEF Edge
  <2>4. CASE csrFsm = "IDLE"
    <3>1. csrFsm' = "REG_GENERIC"
      BY <2>3, <2>4 DEF CsrUnitStep, Idle, RegGeneric, RegSpecific, Finish
    <3>. QED  BY <2>1, <2>4, <3>1 DEF CsrLeft
  <2>5. CASE csrFsm = "REG_GENERIC"
    <3>1. csrFsm' = "REG_SPECIFIC"
      BY <2>3, <2>5 DEF CsrUnitStep, Idle, RegGeneric, RegSpecific, Finish
    <3>. QED  BY <2>1, <2>5, <3>1 DEF CsrLeft
  <2>6. CASE csrFsm = "REG_SPECIFIC"
    <3>1. lat.reg # "mip"
      <4>1. lat.reg = RegAt(instr.csr)
        BY <2>6 DEF CsrTrapInv, AccessUnderWay
      <4>2. instr.csr # "mip"
        BY <2>2, InstrParts DEF Enabled, CsrAddr
      <4>. QED  BY <4>1, <4>2 DEF RegAt
    <3>2. csrFsm' = "FINISH"
      BY <2>3, <2>6, <3>1
         DEF CsrUnitStep, Idle, RegGeneric, RegSpecific, Finish, Active, WriteFinished
    <3>. QED  BY <2>1, <2>6, <3>2 DEF CsrLeft
  <2>. QED  BY <2>2, <2>4, <2>5, <2>6
<1>. QED  BY <1>1, CsrTrapInvariant, PTL DEF Spec

(* The order of MIE and MIP matters: in the other build a csr instruction that
   has begun to write mie is in EXECUTE for ever, as the handler of mip, which
   it gets instead, never ends the write. *)
WritesMie ==
    /\ Enabled /\ csrFsm \in {"REG_GENERIC", "REG_SPECIFIC"}
    /\ instr.csr = "mie" /\ ~OnlyReads(instr.func, instr.x0)

THEOREM WriteToMieHangs == MipFirst /\ Spec => [][WritesMie => WritesMie']_vars
<1>. SUFFICES ASSUME MipFirst PROVE Spec => [][WritesMie => WritesMie']_vars
  OBVIOUS
<1>1. CsrTrapInv /\ [Edge]_vars => [WritesMie => WritesMie']_vars
  <2>. SUFFICES ASSUME CsrTrapInv, Edge, WritesMie PROVE WritesMie'
    OBVIOUS
  <2>1. Enabled /\ ~Vld /\ ~Refused
    BY DEF WritesMie, Vld, CsrTrapInv, AccessUnderWay
  <2>2. Enabled' /\ instr' = instr
    BY <2>1, CsrStep DEF Enabled
  <2>3. lat = [reg |-> "mip", func |-> instr.func, x0 |-> instr.x0]
    BY DEF WritesMie, CsrTrapInv, AccessUnderWay, RegAt
  <2>4. csrFsm' = "REG_SPECIFIC"
    BY <2>3 DEF WritesMie, Edge, CsrUnitStep, Idle, RegGeneric, RegSpecific, Finish, Active,
                WriteFinished
  <2>. QED  BY <2>2, <2>4 DEF WritesMie
<1>. QED  BY <1>1, CsrTrapInvariant, PTL DEF Spec
=============================================================================

------------------------ MODULE HartContractProofs ------------------------
(***************************************************************************)
(* RunControl implements HartContract, for every program that is debugged, *)
(* every debugger that resumes only a hart it has read as halted, and      *)
(* program buffers that take no trap.                                      *)
(***************************************************************************)
EXTENDS RunControlProofs

USE DEF cpuVars, dmVars, execVars, dmiRegs, edgeVars

(* A hart that has just left HALTED fetches. *)
LeavesToFetch == wasHalted /\ ~Halted => cpu = "FETCH"

(* While the DMI FSM is idle, what DMSTATUS shows of a halted hart is so. *)
HaltedIsNotStale == dm = "IDLE" /\ wasHalted => Halted

(* A resume is asked of a hart that has saved its dpc, and not a second
   time. *)
ResumesSavedHart ==
    dm = "WAIT" /\ IsResume(req) => wasHalted /\ (Halted \/ resumeFsm = "B")

(* The CSR unit is at work for the instruction in EXECUTE, and on the Debug
   CSRs in Debug Mode only. *)
CsrUnitServes ==
    csrFsm # "IDLE" => /\ cpu = "EXECUTE" /\ instr.op \in CsrOps
                       /\ instr.op \in DebugCsr => debugMode

(* The part that holds whatever the debugger sends. *)
StepInv == RunControlInv /\ DebugModeIsProgbuf /\ LeavesToFetch /\ CsrUnitServes

HartInv == StepInv /\ HaltedIsNotStale /\ ResumesSavedHart

-----------------------------------------------------------------------------
(***************************************************************************)
(* The inductive invariant.                                                *)
(***************************************************************************)
LEMMA OnlyWaitActs ==
    ASSUME dm # "WAIT"
    PROVE  ~ResumeReq /\ ~HaltReq /\ ~CommandActive
  <1>1. \A r : ~Handles(r)
    BY DEF Handles
  <1>2. ~AutoExec
    BY <1>1, Zenon DEF AutoExec
  <1> QED
    BY <1>1, <1>2 DEF ResumeReq, HaltReq, CommandActive, Executing

(* Debug Mode begins and ends in a halted hart. *)
LEMMA DebugModeSteps ==
    ASSUME StepInv, ProgbufSound, NEW ans, Edge(ans)
    PROVE  /\ ~Halted => debugMode' = debugMode
           /\ ~Halted /\ debugMode => peFsm \in {"C", "D"}
           /\ debugMode <=> peFsm \in {"B", "C", "D"}
           /\ debugMode => ~Handles("DMCONTROL") /\ Executing(peFsm)
  <1>1. TypeOK /\ DmShape /\ EntersProgbuf /\ DmStep(ans) /\ ans \in BusAnswers
    BY DEF StepInv, RunControlInv, Edge
  <1>2. debugMode <=> peFsm \in {"B", "C", "D"}
    BY <1>1 DEF StepInv, DebugModeIsProgbuf, DmShape, CommandShape
  <1>3. ~Halted => debugMode' = debugMode
    <2> SUFFICES ASSUME ~Halted PROVE debugMode' = debugMode
      OBVIOUS
    <2>1. peFsm \notin {"A", "B"}
      BY <1>1 DEF EntersProgbuf
    <2>2. CASE peFsm = "SANITY_CHECK"
      BY <1>1, <2>2, PostexecOrder DEF SanityCheck
    <2>3. CASE peFsm = "C"
      BY <1>1, <2>3, PostexecOrder DEF StartProgbuf
    <2>4. CASE peFsm = "D"
      BY <1>1, <2>4, PostexecOrder DEF AwaitProgbuf, ProgbufSound
    <2> QED
      BY <1>1, <2>1, <2>2, <2>3, <2>4 DEF TypeOK, DmTypeOK
  <1>4. ~Halted /\ debugMode => peFsm \in {"C", "D"}
    BY <1>1, <1>2 DEF EntersProgbuf
  <1>5. debugMode => ~Handles("DMCONTROL") /\ Executing(peFsm)
    BY <1>1, <1>2, PostexecOrder, Dispatch DEF Executing
  <1> QED
    BY <1>2, <1>3, <1>4, <1>5

LEMMA LeavesToFetchKept ==
    ASSUME StepInv, NEW ans, Edge(ans)
    PROVE  LeavesToFetch'
  <1>1. CpuStep(ans) /\ wasHalted' = Halted
    BY DEF Edge
  <1> QED
    BY <1>1, HaltedHart DEF LeavesToFetch, Halted

LEMMA HaltedIsNotStaleKept ==
    ASSUME HartInv, NEW ans, Edge(ans)
    PROVE  HaltedIsNotStale'
  <1> SUFFICES ASSUME dm' = "IDLE", Halted PROVE Halted'
    BY DEF HaltedIsNotStale, Edge
  <1>1. TypeOK /\ DmShape /\ DmStep(ans) /\ CpuStep(ans)
    BY DEF HartInv, StepInv, RunControlInv, Edge
  <1>2. ~ResumeReq
    <2> SUFFICES ASSUME ResumeReq PROVE FALSE
      OBVIOUS
    <2>1. dm = "WAIT" /\ ~ResumeAck
      BY OnlyWaitActs DEF ResumeAck
    <2>2. CASE Handles("DMCONTROL")
      BY <1>1, <2>1, <2>2, Dispatch DEF HandleDmcontrol, Continue
    <2>3. CASE Executing("C")
      <3>1. StartProgbuf
        BY <1>1, <2>3, PostexecOrder DEF Executing
      <3> QED
        BY <2>1, <3>1 DEF StartProgbuf, CommandContinues, Continue
    <2> QED
      BY <2>2, <2>3 DEF ResumeReq
  <1> QED
    BY <1>1, <1>2, HaltedHart

(* How a request comes to stand in WAIT. *)
LEMMA RequestStands ==
    ASSUME TypeOK, NEW ans, DmStep(ans), dm' = "WAIT"
    PROVE  \/ dm = "WAIT" /\ req' = req
           \/ dm = "IDLE" /\ (PoliteDebugger /\ IsResume(req') => wasHalted)
  <1> USE DEF Finish, Continue
  <1>1. CASE DmiNop
    BY <1>1 DEF DmiNop
  <1>2. CASE DmiUpdate
    BY <1>2 DEF DmiUpdate, DmiRead, AcceptWrite
  <1>3. CASE DeassertBusy
    BY <1>3 DEF DeassertBusy
  <1>4. CASE HandleDmcontrol \/ HandleData \/ HandleAbstractcs \/ HandleAbstractauto
               \/ HandleProgbuf(ans) \/ HandleUnimplemented
    BY <1>4 DEF HandleDmcontrol, HandleData, HandleAbstractcs, HandleAbstractauto,
       HandleProgbuf, HandleUnimplemented, Handles
  <1>5. CASE HandleCommand(ans)
    <2>1. dm = "WAIT"
      BY <1>5, OnlyWaitActs, Dispatch
    <2> QED
      BY <1>5, <2>1 DEF HandleCommand, CommandUnsupported, NoTransfer,
         TransferBegins, TransferEnds, NoPostexec, SanityCheck, SaveDpc,
         PointDpcToProgbuf, StartProgbuf, AwaitProgbuf, CommandFinishes,
         CommandContinues, Done
  <1> QED
    BY <1>1, <1>2, <1>3, <1>4, <1>5 DEF DmStep

LEMMA ResumesSavedHartKept ==
    ASSUME PoliteDebugger, HartInv, NEW ans, Edge(ans)
    PROVE  ResumesSavedHart'
  <1> SUFFICES ASSUME dm' = "WAIT", IsResume(req')
               PROVE  wasHalted' /\ (Halted' \/ resumeFsm' = "B")
    BY DEF ResumesSavedHart, IsResume
  <1>1. /\ TypeOK /\ DmStep(ans) /\ CpuStep(ans) /\ ResumeAckFsm
        /\ wasHalted' = Halted
    BY DEF HartInv, StepInv, RunControlInv, Edge
  <1>2. CASE dm = "IDLE"
    <2>1. Halted /\ ~ResumeReq
      BY <1>1, <1>2, RequestStands, OnlyWaitActs DEF HartInv, HaltedIsNotStale
    <2> QED
      BY <1>1, <2>1, HaltedHart
  <1>3. CASE dm = "WAIT" /\ req' = req
    <2>1. HandleDmcontrol /\ ~HaltReq
      BY <1>1, <1>3, Dispatch DEF Handles, IsResume, HaltReq
    <2>2. ResumeReq /\ ~ResumeAck
      BY <1>3, <2>1 DEF HandleDmcontrol, Finish
    <2>3. Halted
      BY <1>3, <2>2 DEF HartInv, ResumesSavedHart, ResumeAck
    <2>4. resumeFsm' = "B"
      BY <1>1, <2>2, <2>3 DEF ResumeAckFsm
    <2> QED
      BY <1>1, <2>3, <2>4
  <1> QED
    BY <1>1, <1>2, <1>3, RequestStands

LEMMA CsrUnitServesKept ==
    ASSUME StepInv, ProgbufSound, NEW ans, Edge(ans)
    PROVE  CsrUnitServes'
  <1> SUFFICES ASSUME csrFsm' # "IDLE"
               PROVE  /\ cpu' = "EXECUTE" /\ instr'.op \in CsrOps
                      /\ instr'.op \in DebugCsr => debugMode'
    BY DEF CsrUnitServes
  <1>1. CpuStep(ans)
    BY DEF Edge
  <1>2. ExecuteCsr
    BY <1>1 DEF StepInv, CsrUnitServes, CpuStep, CheckShouldHalt, EnterHalt,
       StayHalted, Resume, Fetch, FetchWaits, Decode, ExecuteOneCycle,
       ExecuteMemory, ExecuteMret, FetchWithNewPc, Writeback, EnterTrapHandler,
       Trap, Traps, DebugCsrDenied, CsrOps, DebugCsr, Memory
  <1>3. csrFsm # "FINISH" /\ cpu = "EXECUTE" /\ instr.op \in CsrOps
    BY <1>2 DEF ExecuteCsr
  <1>4. cpu' = cpu /\ instr' = instr
    BY <1>2, <1>3 DEF ExecuteCsr
  <1>5. instr.op \in DebugCsr => debugMode
    BY <1>2 DEF ExecuteCsr, DebugCsrDenied, StepInv, CsrUnitServes
  <1>6. debugMode' = debugMode
    BY <1>3, DebugModeSteps DEF Halted
  <1> QED
    BY <1>3, <1>4, <1>5, <1>6

(* A hart that leaves HALTED fetches before it does anything else, and the CSR
   unit writes dcsr and dpc for code of the debugger only. *)
THEOREM StepInvariant == Spec /\ []ProgbufSound => []StepInv
  <1> DEFINE Own == LeavesToFetch /\ CsrUnitServes
  <1>1. Init => Own
    BY DEF Init, LeavesToFetch, CsrUnitServes
  <1>2. RunControlInv /\ DebugModeIsProgbuf /\ ProgbufSound /\ Own /\ [Tick]_vars => Own'
    <2>1. ASSUME StepInv, ProgbufSound, NEW ans, Edge(ans) PROVE Own'
      BY <2>1, LeavesToFetchKept, CsrUnitServesKept
    <2>2. ASSUME Own, UNCHANGED vars PROVE Own'
      BY <2>2 DEF vars, LeavesToFetch, CsrUnitServes, Halted
    <2> QED
      BY <2>1, <2>2 DEF Tick, StepInv
  <1>3. RunControlInv /\ DebugModeIsProgbuf /\ Own => StepInv
    BY DEF StepInv
  <1> HIDE DEF Own
  <1> QED
    BY <1>1, <1>2, <1>3, RunControlInvariant, DebugModeFollowsProgbuf, PTL DEF Spec

(* What DMSTATUS shows of a halted hart can be relied on by a debugger that
   has nothing in flight, and by the resume it then asks for. *)
THEOREM HartInvariant == PoliteDebugger /\ Spec /\ []ProgbufSound => []HartInv
  <1> DEFINE Own == HaltedIsNotStale /\ ResumesSavedHart
  <1>1. Init => Own
    BY DEF Init, HaltedIsNotStale, ResumesSavedHart
  <1>2. PoliteDebugger /\ StepInv /\ Own /\ [Tick]_vars => Own'
    <2>1. ASSUME PoliteDebugger, HartInv, NEW ans, Edge(ans) PROVE Own'
      BY <2>1, HaltedIsNotStaleKept, ResumesSavedHartKept
    <2>2. ASSUME Own, UNCHANGED vars PROVE Own'
      BY <2>2 DEF vars, HaltedIsNotStale, ResumesSavedHart, Halted
    <2> QED
      BY <2>1, <2>2 DEF Tick, HartInv
  <1>3. StepInv /\ Own => HartInv
    BY DEF HartInv
  <1> HIDE DEF Own
  <1>4. ASSUME PoliteDebugger
        PROVE  Spec /\ []ProgbufSound => []HartInv
    <2>1. StepInv /\ Own /\ [Tick]_vars => Own'
      BY <1>2, <1>4
    <2> QED
      BY <1>1, <1>3, <2>1, StepInvariant, PTL DEF Spec
  <1> QED
    BY <1>4

-----------------------------------------------------------------------------
(***************************************************************************)
(* The steps of the contract.                                              *)
(***************************************************************************)
HartStutters == UNCHANGED Hart!hartVars

LEMMA HartStuttersIf ==
    ASSUME Place' = Place, Mode' = Mode, Budget' = Budget,
           CsrWrites("dpc")' <=> CsrWrites("dpc")
    PROVE  HartStutters
  BY DEF HartStutters, Hart!hartVars, CsrWrites

(* Only the CPU's first halted cycle, HandlerCOMMAND and code of the debugger
   write dpc. *)
LEMMA DpcSteps ==
    ASSUME StepInv, ProgbufSound, NEW ans, Edge(ans)
    PROVE  /\ CsrWrites("dpc") => debugMode /\ cpu = "EXECUTE" /\ dpc' = instr.to
           /\ ~debugMode /\ JustHalted => dpc' = pc
           /\ ~debugMode /\ Halted /\ wasHalted => dpc' = dpc
           /\ debugMode /\ ~DmWritesDpc /\ ~CsrWrites("dpc") => dpc' = dpc
  <1>1. DpcStep /\ EntersProgbuf
    BY DEF Edge, StepInv, RunControlInv
  <1>2. CsrWrites("dpc") => debugMode /\ cpu = "EXECUTE"
    BY DEF CsrWrites, StepInv, CsrUnitServes, DebugCsr
  <1>3. DmWritesDpc => debugMode /\ (Halted \/ cpu = "FETCH")
    BY <1>1 DEF EntersProgbuf, DmWritesDpc, Executing, Halted
  <1> QED
    BY <1>1, <1>2, <1>3 DEF DpcStep, DmWritesDpc, JustHalted, Halted

(* The three kinds of steps of a running hart. *)
LEMMA RunningHart ==
    ASSUME NEW ans, CpuStep(ans), ~Halted, ~debugMode
    PROVE  \/ cpu' = "HALTED" /\ pc' = pc
           \/ cpu' = "CHECK_SHOULD_HALT" /\ cpu # "CHECK_SHOULD_HALT"
           \/ /\ cpu' \notin {"HALTED", "CHECK_SHOULD_HALT"} /\ pc' = pc
              /\ cpu = "CHECK_SHOULD_HALT" => ~singleStep
  BY DEF Halted, CpuStep, CheckShouldHalt, EnterHalt, StayHalted, Resume, Fetch,
     FetchWaits, Decode, ExecuteOneCycle, ToWriteback, ExecuteMemory, ExecuteCsr,
     ExecuteMret, FetchWithNewPc, Writeback, EnterTrapHandler, Trap, Traps

(* A running hart is sampled for a single step once, when it is resumed. *)
LEMMA StepPendingKept ==
    ASSUME StepInv, ProgbufSound, NEW ans, Edge(ans), ~debugMode, ~Halted
    PROVE  /\ StepPending' = StepPending /\ StepPending \in BOOLEAN
           /\ cpu = "CHECK_SHOULD_HALT" => StepPending = singleStep
  <1>1. CpuStep(ans) /\ LatchStep /\ ~wasHalted' /\ TypeOK
    BY DEF Edge, StepInv, RunControlInv
  <1>2. step' = step
    <2>1. ~CsrWrites("dcsr")
      BY DEF CsrWrites, StepInv, CsrUnitServes, DebugCsr
    <2> QED
      BY <1>1, <2>1 DEF CpuStep, CheckShouldHalt, EnterHalt, StayHalted, Resume,
         Fetch, FetchWaits, Decode, ExecuteOneCycle, ExecuteMemory, ExecuteCsr,
         ExecuteMret, FetchWithNewPc, Writeback, EnterTrapHandler, Trap
  <1>3. StepPending' = StepPending /\ StepPending \in BOOLEAN
    BY <1>1, <1>2 DEF StepPending, LatchStep, JustResumed, TypeOK, CpuTypeOK, EdgeTypeOK
  <1>4. cpu = "CHECK_SHOULD_HALT" => StepPending = singleStep
    BY DEF StepPending, JustResumed, StepInv, LeavesToFetch
  <1> QED
    BY <1>3, <1>4

LEMMA RunningIsContract ==
    ASSUME StepInv, StepInv', ProgbufSound, NEW ans, Edge(ans), ~debugMode, ~Halted
    PROVE  Hart!HartNext \/ HartStutters
  <1>1. /\ CpuStep(ans) /\ LatchStep /\ ~wasHalted' /\ debugMode' = debugMode
        /\ TypeOK /\ TypeOK'
    BY DebugModeSteps DEF Edge, StepInv, RunControlInv
  <1>2. /\ Place = pc /\ Place' = pc' /\ Mode = "running"
        /\ Mode' = IF Halted' THEN "halted" ELSE "running"
    BY <1>1 DEF Place, Mode
  <1>3. ~CsrWrites("dpc") /\ ~CsrWrites("dpc")'
    BY <1>1 DEF CsrWrites, StepInv, CsrUnitServes, DebugCsr
  <1>4. /\ StepPending' = StepPending /\ StepPending \in BOOLEAN
        /\ cpu = "CHECK_SHOULD_HALT" => StepPending = singleStep
    BY StepPendingKept
  <1>5. CASE cpu' = "HALTED" /\ pc' = pc
    <2>1. Mode' = "halted" /\ Budget' = "spent"
      BY <1>2, <1>5 DEF Halted, Budget
    <2>2. Hart!Halt
      BY <1>2, <1>3, <1>5, <2>1 DEF Hart!Halt, CsrWrites
    <2> QED
      BY <2>2 DEF Hart!HartNext
  <1>6. CASE cpu' = "CHECK_SHOULD_HALT" /\ cpu # "CHECK_SHOULD_HALT"
    <2>1. Mode' = "running" /\ pc' \in Addr
      BY <1>1, <1>2, <1>6 DEF Halted, TypeOK, CpuTypeOK
    <2>2. Budget = IF StepPending THEN "one" ELSE "free"
      BY <1>2, <1>6 DEF Budget
    <2>3. Budget' = IF StepPending THEN "spent" ELSE "free"
      BY <1>4, <1>6, <2>1 DEF Budget
    <2>4. Hart!Execute
      BY <1>2, <1>3, <2>1, <2>2, <2>3 DEF Hart!Execute, CsrWrites
    <2> QED
      BY <2>4 DEF Hart!HartNext
  <1>7. CASE /\ cpu' \notin {"HALTED", "CHECK_SHOULD_HALT"} /\ pc' = pc
             /\ cpu = "CHECK_SHOULD_HALT" => ~singleStep
    <2>1. Mode' = "running"
      BY <1>2, <1>7 DEF Halted
    <2>2. Budget' = Budget
      BY <1>2, <1>4, <1>7, <2>1 DEF Budget
    <2> QED
      BY <1>2, <1>3, <1>7, <2>1, <2>2, HartStuttersIf
  <1> QED
    BY <1>1, <1>5, <1>6, <1>7, RunningHart

(* A halted hart outside Debug Mode is resumed once it has saved its place. *)
LEMMA HaltedIsContract ==
    ASSUME HartInv, HartInv', ProgbufSound, NEW ans, Edge(ans), ~debugMode, Halted
    PROVE  Hart!HartNext \/ HartStutters
  <1>1. /\ CpuStep(ans) /\ DmStep(ans) /\ wasHalted' /\ TypeOK /\ TypeOK' /\ DmShape
        /\ EntersProgbuf /\ StepInv
    BY DEF Edge, HartInv, StepInv, RunControlInv
  <1>2. Mode = "halted" /\ Budget = "spent"
    BY DEF Mode, Budget
  <1>3. ~CsrWrites("dpc") /\ (ResumeReq \/ Halted' => ~CsrWrites("dpc")')
    BY <1>1, HaltedHart DEF CsrWrites, Halted
  <1>4. peFsm \in {"SANITY_CHECK", "A"}
    BY <1>1, DebugModeSteps DEF TypeOK, DmTypeOK
  <1>5. CASE ResumeReq
    <2>1. Handles("DMCONTROL") /\ ~CommandActive
      BY <1>1, <1>4, <1>5, Dispatch DEF ResumeReq, Executing
    <2>2. wasHalted /\ HandleDmcontrol
      BY <1>1, <1>5, <2>1, Dispatch
      DEF HartInv, ResumesSavedHart, Handles, IsResume, ResumeReq, Executing
    <2>3. ~debugMode' /\ cpu' = "FETCH" /\ pc' = dpc
      BY <1>1, <1>5, <2>2, HaltedHart DEF HandleDmcontrol
    <2>4. Place = dpc /\ Place' = pc' /\ Mode' = "running"
      BY <2>2, <2>3 DEF Place, Mode, Halted
    <2>5. Budget' \in {"free", "one"}
      BY <2>3, <2>4 DEF Budget
    <2>6. Hart!ResumeHart
      BY <1>2, <1>3, <1>5, <2>3, <2>4, <2>5 DEF Hart!ResumeHart, CsrWrites
    <2> QED
      BY <2>6 DEF Hart!HartNext
  <1>6. CASE ~ResumeReq
    <2>1. Halted' /\ Mode' = "halted" /\ Budget' = "spent" /\ pc' = pc
      BY <1>1, <1>6, HaltedHart DEF Mode, Budget, Halted, CpuStep, CheckShouldHalt,
         StayHalted, Resume, Fetch, FetchWaits, Decode, ExecuteOneCycle, ExecuteMemory,
         ExecuteCsr, ExecuteMret, Writeback, EnterTrapHandler, Trap, Traps
    <2>2. Place' = Place
      <3>1. CASE peFsm = "A"
        <4>1. wasHalted /\ SaveDpc
          BY <1>1, <3>1, PostexecOrder DEF EntersProgbuf
        <4> QED
          BY <4>1 DEF Place, SaveDpc
      <3>2. CASE peFsm = "SANITY_CHECK"
        <4>1. ~debugMode'
          BY <1>1, <3>2, PostexecOrder DEF SanityCheck
        <4>2. dpc' = IF wasHalted THEN dpc ELSE pc
          BY <1>1, DpcSteps DEF JustHalted
        <4> QED
          BY <1>1, <2>1, <4>1, <4>2 DEF Place
      <3> QED
        BY <1>4, <3>1, <3>2
    <2> QED
      BY <1>2, <1>3, <2>1, <2>2, HartStuttersIf
  <1> QED
    BY <1>5, <1>6

(* Whatever the program buffer does, the place is safe in realDpc or in dpc,
   unless code of the debugger writes dpc itself. *)
LEMMA DebugModeIsContract ==
    ASSUME StepInv, StepInv', ProgbufSound, NEW ans, Edge(ans), debugMode
    PROVE  Hart!HartNext \/ HartStutters
  <1>1. /\ CpuStep(ans) /\ DmStep(ans) /\ wasHalted' = Halted /\ DmShape /\ EntersProgbuf
        /\ TypeOK /\ TypeOK' /\ DpcStep
    BY DEF Edge, StepInv, RunControlInv
  <1>2. Mode = "halted" /\ Budget = "spent"
    BY DEF Mode, Budget
  <1>3. peFsm \in {"B", "C", "D"} /\ Executing(peFsm) /\ ~Handles("DMCONTROL")
    BY DebugModeSteps
  <1>4. CASE peFsm = "B"
    <2>1. PointDpcToProgbuf
      BY <1>1, <1>4, PostexecOrder
    <2>2. Place = realDpc /\ Place' = realDpc /\ Mode' = "halted" /\ Budget' = "spent"
      BY <1>4, <2>1 DEF PointDpcToProgbuf, Place, Mode, Budget
    <2>3. Halted /\ ~ResumeReq
      BY <1>1, <1>3, <1>4 DEF EntersProgbuf, ResumeReq, Executing
    <2>4. ~CsrWrites("dpc") /\ ~CsrWrites("dpc")'
      BY <1>1, <2>3, HaltedHart DEF CsrWrites, Halted
    <2> QED
      BY <1>2, <2>2, <2>4, HartStuttersIf
  <1>5. CASE peFsm = "C"
    <2>1. StartProgbuf /\ (Halted \/ cpu = "FETCH")
      BY <1>1, <1>5, PostexecOrder DEF EntersProgbuf
    <2>2. Place = realDpc /\ Mode' = "halted" /\ Budget' = "spent"
      BY <1>5, <2>1 DEF StartProgbuf, Place, Mode, Budget
    <2>3. Place' = realDpc
      <3>1. CASE ResumeAck
        <4>1. dpc' = realDpc
          BY <1>1, <1>3, <1>5, <3>1 DEF DpcStep, DmWritesDpc, Executing
        <4> QED
          BY <2>1, <3>1, <4>1 DEF StartProgbuf, Place
      <3>2. CASE ~ResumeAck
        BY <2>1, <3>2 DEF StartProgbuf, Place
      <3> QED
        BY <3>1, <3>2
    <2>4. ~CsrWrites("dpc") /\ ~CsrWrites("dpc")'
      BY <1>1, <2>1 DEF CsrWrites, Halted, CpuStep, CheckShouldHalt, StayHalted,
         Resume, Fetch, FetchWaits, Decode, ExecuteOneCycle, ExecuteMemory,
         ExecuteCsr, ExecuteMret, Writeback, EnterTrapHandler, Trap
    <2> QED
      BY <1>2, <2>2, <2>3, <2>4, HartStuttersIf
  <1>6. CASE peFsm = "D"
    <2>1. AwaitProgbuf(ans) /\ ~ResumeReq /\ ~DmWritesDpc
      BY <1>1, <1>3, <1>6, PostexecOrder DEF ResumeReq, Executing, DmWritesDpc
    <2>2. Place = dpc
      BY <1>6 DEF Place
    <2>3. Mode' = "halted" /\ Budget' = "spent" /\ Place' = dpc'
      <3>1. CASE Halted
        <4>1. Halted' /\ wasHalted' /\ debugMode' = FALSE
          BY <1>1, <2>1, <3>1, HaltedHart DEF AwaitProgbuf
        <4> QED
          BY <4>1 DEF Mode, Budget, Place
      <3>2. CASE ~Halted
        <4>1. debugMode' /\ peFsm' = "D"
          BY <1>1, <1>6, <2>1, <3>2, DebugModeSteps DEF AwaitProgbuf, Edge, ProgbufSound
        <4> QED
          BY <4>1 DEF Mode, Budget, Place
      <3> QED
        BY <3>1, <3>2
    <2>4. CASE CsrWrites("dpc")
      <3>1. dpc' \in Addr
        BY <1>1 DEF TypeOK, EdgeTypeOK
      <3>2. ~CsrWrites("dpc")'
        BY <1>1, <2>4 DEF CsrWrites, CpuStep, CheckShouldHalt, StayHalted, Resume,
           Fetch, FetchWaits, Decode, ExecuteOneCycle, ExecuteMemory, ExecuteCsr,
           ExecuteMret, Writeback, EnterTrapHandler, Trap, Memory, FetchWithNewPc
      <3>3. Hart!MovePlace
        BY <1>2, <2>3, <2>4, <3>1, <3>2 DEF Hart!MovePlace
      <3> QED
        BY <3>3 DEF Hart!HartNext
    <2>5. CASE ~CsrWrites("dpc")
      <3>1. dpc' = dpc
        BY <2>1, <2>5, DpcSteps
      <3>2. CASE CsrWrites("dpc")'
        <4>1. Hart!AskToMove
          BY <1>2, <2>2, <2>3, <2>5, <3>1, <3>2 DEF Hart!AskToMove
        <4> QED
          BY <4>1 DEF Hart!HartNext
      <3>3. CASE ~CsrWrites("dpc")'
        BY <1>2, <2>2, <2>3, <2>5, <3>1, <3>3, HartStuttersIf
      <3> QED
        BY <3>2, <3>3
    <2> QED
      BY <2>4, <2>5
  <1> QED
    BY <1>3, <1>4, <1>5, <1>6

LEMMA HartInitial == Init => Hart!HartInit
  BY DEF Init, Hart!HartInit, Place, Mode, Budget, StepPending, JustResumed, Halted,
     CsrWrites

LEMMA UnchangedHart == UNCHANGED vars => HartStutters
  <1> SUFFICES ASSUME UNCHANGED vars PROVE HartStutters
    OBVIOUS
  <1>1. UNCHANGED <<cpu, pc, instr, csrFsm, dpc, step, debugMode, wasHalted, singleStep,
                    peFsm, realDpc>>
    BY DEF vars
  <1> QED
    BY <1>1, HartStuttersIf
    DEF Place, Mode, Budget, StepPending, JustResumed, Halted, CsrWrites

(***************************************************************************)
(* The composed CPU and Debug Module implement HartContract                *)
(* (KeepsHartContract): no instruction of the debugged program is lost or  *)
(* repeated over a halt, a resume or a program buffer, whatever operations *)
(* the debugger sends in between, and a single step executes one.          *)
(***************************************************************************)
THEOREM ImplementsHartContract ==
    PoliteDebugger /\ ProgbufIsSound /\ Spec => KeepsHartContract
  <1>1. HartInv /\ HartInv' /\ ProgbufSound /\ [Tick]_vars
          => [Hart!HartNext]_(Hart!hartVars)
    <2>1. ASSUME HartInv, HartInv', ProgbufSound, NEW ans, Edge(ans)
          PROVE  Hart!HartNext \/ HartStutters
      BY <2>1, RunningIsContract, HaltedIsContract, DebugModeIsContract DEF HartInv
    <2> QED
      BY <2>1, UnchangedHart DEF Tick, HartStutters
  <1>2. PoliteDebugger /\ Spec /\ []ProgbufSound => KeepsHartContract
    BY <1>1, HartInitial, HartInvariant, PTL
    DEF Spec, KeepsHartContract, Hart!HartSpec
  <1> QED
    BY <1>2, SoundProgbufTakesNoTrap, PTL

-----------------------------------------------------------------------------
(* cpu.py single_step_is_active: a hart resumed to single-step stays so until
   it halts, and every edge brings it nearer to that, but for those in which a
   slave keeps the bus waiting; whether its instruction retires or traps, and
   whatever the debugger sends meanwhile. *)
THEOREM StepProgress ==
    ProgbufIsSound /\ Spec =>
      [][Mode = "running" /\ StepPending =>
           \/ Mode' = "halted"
           \/ /\ StepPending'
              /\ CpuLeft' < CpuLeft \/ (Edge("wait") /\ CpuLeft' = CpuLeft)]_vars
  <1> DEFINE Advances ==
           Mode = "running" /\ StepPending =>
             \/ Mode' = "halted"
             \/ /\ StepPending'
                /\ CpuLeft' < CpuLeft \/ (Edge("wait") /\ CpuLeft' = CpuLeft)
  <1>1. StepInv /\ ProgbufSound /\ [Tick]_vars => [Advances]_vars
    <2>1. ASSUME StepInv, ProgbufSound, NEW ans, Edge(ans), Mode = "running", StepPending
          PROVE  \/ Mode' = "halted"
                 \/ /\ StepPending'
                    /\ CpuLeft' < CpuLeft \/ (ans = "wait" /\ CpuLeft' = CpuLeft)
      <3>1. ~debugMode /\ ~Halted /\ TypeOK /\ CpuStep(ans)
        BY <2>1 DEF Mode, StepInv, RunControlInv, Edge
      <3>2. StepPending' /\ (cpu = "CHECK_SHOULD_HALT" => singleStep)
        BY <2>1, <3>1, StepPendingKept
      <3>3. CASE cpu = "CHECK_SHOULD_HALT"
        <4>1. cpu' = "HALTED"
          BY <3>1, <3>2, <3>3, RunningHart
          DEF CpuStep, CheckShouldHalt, EnterHalt, StayHalted, Resume, Fetch,
              FetchWaits, Decode, ExecuteOneCycle, ExecuteMemory, ExecuteCsr,
              ExecuteMret, Writeback, EnterTrapHandler, Trap, Traps
        <4> QED
          BY <4>1 DEF Mode, Halted
      <3>4. CASE cpu # "CHECK_SHOULD_HALT"
        BY <2>1, <3>1, <3>2, <3>4, CpuAdvances DEF Halted
      <3> QED
        BY <3>3, <3>4
    <2> QED
      BY <2>1 DEF Tick
  <1>2. Spec /\ []ProgbufSound => [][Advances]_vars
    BY <1>1, StepInvariant, PTL DEF Spec
  <1> QED
    BY <1>2, SoundProgbufTakesNoTrap, PTL
=============================================================================

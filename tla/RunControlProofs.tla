-------------------------- MODULE RunControlProofs --------------------------
(***************************************************************************)
(* Theorems about RunControl, for every program, debugger, register file   *)
(* and bus delay.                                                          *)
(***************************************************************************)
EXTENDS RunControlProps, TLAPS

USE DEF cpuVars, dmVars, execVars, dmiRegs, edgeVars

-----------------------------------------------------------------------------
(* What a DMI write or an instruction of one kind holds. *)
LEMMA DmiWriteFields ==
    ASSUME NEW w \in DmiWrite
    PROVE  /\ w.reg \in DataReg => w.value \in Val
           /\ w.reg = "DMCONTROL" =>
                /\ w.dmactive \in BOOLEAN /\ w.haltreq \in BOOLEAN
                /\ w.resumereq \in BOOLEAN /\ w.otherHart \in BOOLEAN
           /\ w.reg = "COMMAND" => w.command \in Command
           /\ w.reg = "ABSTRACTCS" => w.cmderr \in CmdErr
           /\ w.reg = "ABSTRACTAUTO" => w.autoexec \in SUBSET DataReg
    BY DEF DmiWrite, DataReg

LEMMA InstrFields ==
    ASSUME NEW i \in Instr
    PROVE  /\ i.op \in {"jump", "mret", "dpc"} => i.to \in Addr
           /\ i.op = "dcsr" => i.step \in BOOLEAN /\ i.ebreakm \in BOOLEAN
    BY DEF Instr

LEMMA NoInstrType == NoInstr \in Instr
    BY DEF NoInstr, Instr

LEMMA CpuType ==
    ASSUME TypeOK, NEW ans, CpuStep(ans)
    PROVE  CpuTypeOK'
  <1> USE AddrAssumption, NoInstrType DEF TypeOK, CpuTypeOK, EdgeTypeOK
  <1>1. CASE CheckShouldHalt
    BY <1>1 DEF CheckShouldHalt, EnterHalt
  <1>2. CASE StayHalted
    BY <1>2 DEF StayHalted
  <1>3. CASE Resume
    BY <1>3 DEF Resume
  <1>4. CASE Fetch(ans)
    BY <1>4 DEF Fetch
  <1>5. CASE FetchWaits(ans)
    BY <1>5 DEF FetchWaits
  <1>6. CASE Decode(ans)
    BY <1>6 DEF Decode, EnterHalt
  <1>7. CASE ExecuteOneCycle
    BY <1>7 DEF ExecuteOneCycle, ToWriteback
  <1>8. CASE ExecuteMemory(ans)
    BY <1>8 DEF ExecuteMemory, ToWriteback
  <1>9. CASE ExecuteCsr
    BY <1>9, InstrFields DEF ExecuteCsr, ToWriteback, CsrWrites
  <1>10. CASE ExecuteMret
    BY <1>10, InstrFields DEF ExecuteMret, FetchWithNewPc
  <1>11. CASE Writeback
    BY <1>11, InstrFields DEF Writeback, NextPc
  <1>12. CASE EnterTrapHandler
    BY <1>12 DEF EnterTrapHandler, FetchWithNewPc
  <1>13. CASE Trap(ans)
    BY <1>13 DEF Trap
  <1> QED
    BY <1>1, <1>2, <1>3, <1>4, <1>5, <1>6, <1>7, <1>8, <1>9, <1>10, <1>11,
       <1>12, <1>13 DEF CpuStep

LEMMA CommandType ==
    ASSUME TypeOK, NEW ans, HandleCommand(ans)
    PROVE  DmTypeOK'
  <1> USE DEF TypeOK, DmTypeOK, CommandFinishes, CommandContinues, Finish,
              Continue, Done, CmdErr, NoErr, NotSupported, Exception, HaltOrResume
  <1>1. CASE CommandUnsupported
    BY <1>1 DEF CommandUnsupported
  <1>2. CASE NoTransfer
    BY <1>2 DEF NoTransfer
  <1>3. CASE TransferBegins
    BY <1>3 DEF TransferBegins
  <1>4. CASE TransferEnds
    <2>1. DebugReadData \subseteq Val
      BY RegAssumption DEF DebugReadData, EdgeTypeOK, Command
    <2> QED
      BY <1>4, <2>1 DEF TransferEnds, DataReg
  <1>5. CASE NoPostexec
    BY <1>5 DEF NoPostexec
  <1>6. CASE SanityCheck
    BY <1>6 DEF SanityCheck
  <1>7. CASE SaveDpc
    BY <1>7 DEF SaveDpc, EdgeTypeOK
  <1>8. CASE PointDpcToProgbuf
    BY <1>8 DEF PointDpcToProgbuf
  <1>9. CASE StartProgbuf
    BY <1>9 DEF StartProgbuf
  <1>10. CASE AwaitProgbuf(ans)
    BY <1>10 DEF AwaitProgbuf
  <1> QED
    BY <1>1, <1>2, <1>3, <1>4, <1>5, <1>6, <1>7, <1>8, <1>9, <1>10
    DEF HandleCommand

LEMMA DmType ==
    ASSUME TypeOK, NEW ans, DmStep(ans)
    PROVE  DmTypeOK'
  <1> USE DEF TypeOK, DmTypeOK, Finish, Continue, CmdErr, NoErr, NotSupported
  <1>1. CASE DmiNop
    BY <1>1 DEF DmiNop
  <1>2. CASE DmiUpdate
    <2>1. PICK o \in DmiOps : \/ o.op = "READ" /\ DmiRead(o.reg)
                              \/ o.op = "WRITE" /\ AcceptWrite(o.write)
      BY <1>2 DEF DmiUpdate
    <2>2. CASE DmiRead(o.reg)
      BY <2>2 DEF DmiRead
    <2>3. CASE o.op = "WRITE" /\ AcceptWrite(o.write)
      <3>1. o.write \in DmiWrite
        BY <2>3, DebuggerAssumption DEF DmiOp
      <3> QED
        BY <2>3, <3>1, DmiWriteFields DEF AcceptWrite
    <2> QED
      BY <2>1, <2>2, <2>3
  <1>3. CASE DeassertBusy
    BY <1>3 DEF DeassertBusy
  <1>4. CASE HandleDmcontrol
    BY <1>4, DmiWriteFields DEF HandleDmcontrol, Handles
  <1>5. CASE HandleData
    BY <1>5, DmiWriteFields DEF HandleData, Handles
  <1>6. CASE HandleAbstractcs
    BY <1>6 DEF HandleAbstractcs
  <1>7. CASE HandleAbstractauto
    BY <1>7, DmiWriteFields DEF HandleAbstractauto, Handles
  <1>8. CASE HandleProgbuf(ans)
    BY <1>8 DEF HandleProgbuf
  <1>9. CASE HandleUnimplemented
    BY <1>9 DEF HandleUnimplemented
  <1>10. CASE HandleCommand(ans)
    BY <1>10, CommandType
  <1> QED
    BY <1>1, <1>2, <1>3, <1>4, <1>5, <1>6, <1>7, <1>8, <1>9, <1>10 DEF DmStep

LEMMA EdgeType ==
    ASSUME TypeOK, NEW ans, Edge(ans)
    PROVE  EdgeTypeOK'
  <1> USE DEF TypeOK, EdgeTypeOK, CpuTypeOK, DmTypeOK
  <1>1. haltFsm' \in {"A", "B"} /\ resumeFsm' \in {"A", "B"}
    BY DEF Edge, HaltAckFsm, ResumeAckFsm
  <1>2. granted' \subseteq {"debug", "dbus", "ibus"}
    BY DEF Edge, LatchRequests, Ports
  <1>3. wasHalted' \in BOOLEAN /\ singleStep' \in BOOLEAN
    BY DEF Edge, LatchStep, Halted
  <1>4. resumeAcked' \in BOOLEAN
    BY DEF Edge, LatchResumeAck
  <1>5. dpc' \in Addr
    BY AddrAssumption, InstrFields DEF Edge, DpcStep, CsrWrites
  <1>6. gpr' \in [Reg -> Val]
    BY DEF Edge, GprStep, DataReg, Command
  <1> QED
    BY <1>1, <1>2, <1>3, <1>4, <1>5, <1>6

(* Type correctness of the composed CPU, Debug Module and handshake: no FSM
   leaves its states and no register takes a value outside its layout. *)
THEOREM TypeCorrect == Spec => []TypeOK
  <1>1. Init => TypeOK
    <2> SUFFICES ASSUME Init PROVE TypeOK
      OBVIOUS
    <2>1. CpuTypeOK
      BY AddrAssumption, NoInstrType DEF Init, CpuTypeOK
    <2>2. EdgeTypeOK
      BY AddrAssumption, RegAssumption DEF Init, EdgeTypeOK
    <2>3. NoWrite \in DmiWrite
      BY DEF NoWrite, DmiWrite
    <2>4. NoCommand \in Command
      BY RegAssumption DEF NoCommand, Command
    <2>5. data \in [DataReg -> Val]
      BY RegAssumption DEF Init
    <2>6. DmTypeOK
      BY <2>3, <2>4, <2>5, AddrAssumption DEF Init, DmTypeOK, CmdErr, NoErr
    <2> QED
      BY <2>1, <2>2, <2>6 DEF TypeOK
  <1>2. TypeOK /\ [Tick]_vars => TypeOK'
    <2>1. ASSUME TypeOK, NEW ans, Edge(ans) PROVE TypeOK'
      BY <2>1, CpuType, DmType, EdgeType DEF Edge, TypeOK
    <2>2. ASSUME TypeOK, UNCHANGED vars PROVE TypeOK'
      BY <2>2 DEF vars, TypeOK, CpuTypeOK, DmTypeOK, EdgeTypeOK
    <2> QED
      BY <2>1, <2>2 DEF Tick
  <1> QED
    BY <1>1, <1>2, PTL DEF Spec

-----------------------------------------------------------------------------
(***************************************************************************)
(* The handshake and the handlers of the Debug Module.                     *)
(***************************************************************************)

(* The FSMs of the Debug Module dispatch on the request: the handler of a
   DMCONTROL write, and that of a command, are the only steps there are. *)
LEMMA Dispatch ==
    ASSUME TypeOK, NEW ans, DmStep(ans)
    PROVE  /\ Handles("DMCONTROL") => HandleDmcontrol
           /\ CommandActive => HandleCommand(ans)
           /\ CommandActive => ~Handles("DMCONTROL")
           /\ HandleCommand(ans) => CommandActive
  <1> USE DEF Handles, DataReg
  <1>1. DmiNop \/ DmiUpdate \/ DeassertBusy => dm # "WAIT"
    BY DEF DmiNop, DmiUpdate, DmiRead, AcceptWrite, DeassertBusy
  <1>2. HandleCommand(ans) => CommandActive
    BY DEF HandleCommand, CommandUnsupported, NoTransfer, TransferBegins,
           TransferEnds, NoPostexec, SanityCheck, SaveDpc, PointDpcToProgbuf,
           StartProgbuf, AwaitProgbuf, Transferring, Executing
  <1>3. CommandActive =>
          /\ dm = "WAIT"
          /\ req.reg = "COMMAND" \/ (req.reg \in DataReg /\ AutoExec)
    <2>1. autoexec \subseteq DataReg
      BY DEF TypeOK, DmTypeOK
    <2>2. AutoExec => \E d \in autoexec : Handles(d)
      BY Zenon DEF AutoExec
    <2> QED
      BY <2>1, <2>2 DEF CommandActive
  <1>4. HandleData => req.reg \in DataReg /\ ~AutoExec
    BY DEF HandleData, AutoExec
  <1>5. /\ HandleAbstractcs => req.reg = "ABSTRACTCS"
        /\ HandleAbstractauto => req.reg = "ABSTRACTAUTO"
        /\ HandleProgbuf(ans) => req.reg = "PROGBUF"
        /\ HandleUnimplemented => req.reg = "unimplemented"
        /\ HandleDmcontrol => req.reg = "DMCONTROL"
    BY DEF HandleAbstractcs, HandleAbstractauto, HandleProgbuf,
           HandleUnimplemented, HandleDmcontrol
  <1>6. Handles("DMCONTROL") => dm = "WAIT" /\ req.reg = "DMCONTROL"
    OBVIOUS
  <1>7. \/ DmiNop \/ DmiUpdate \/ DeassertBusy
        \/ HandleDmcontrol \/ HandleData \/ HandleAbstractcs
        \/ HandleAbstractauto \/ HandleProgbuf(ans) \/ HandleUnimplemented
        \/ HandleCommand(ans)
    BY DEF DmStep
  <1> HIDE DEF Handles
  <1> QED
    BY <1>1, <1>2, <1>3, <1>4, <1>5, <1>6, <1>7

(* A step of HandlerCOMMAND keeps the shape of the Debug Module. *)
LEMMA CommandKeepsShape ==
    ASSUME TypeOK, DmShape, NEW ans, HandleCommand(ans)
    PROVE  DmShape'
  <1> USE DEF TypeOK, DmTypeOK, DmShape, CommandShape, CommandActive, AutoExec,
              Handles, DataReg, CommandFinishes, CommandContinues, Finish,
              Continue, Done
  <1>1. CASE CommandUnsupported
    BY <1>1 DEF CommandUnsupported
  <1>2. CASE NoTransfer
    BY <1>2 DEF NoTransfer, Transferring
  <1>3. CASE TransferBegins
    BY <1>3 DEF TransferBegins, Transferring
  <1>4. CASE TransferEnds
    BY <1>4 DEF TransferEnds, Transferring
  <1>5. CASE NoPostexec
    BY <1>5 DEF NoPostexec
  <1>6. CASE SanityCheck
    BY <1>6 DEF SanityCheck, Executing
  <1>7. CASE SaveDpc
    BY <1>7 DEF SaveDpc, Executing
  <1>8. CASE PointDpcToProgbuf
    BY <1>8 DEF PointDpcToProgbuf, Executing
  <1>9. CASE StartProgbuf
    BY <1>9 DEF StartProgbuf, Executing
  <1>10. CASE AwaitProgbuf(ans)
    BY <1>10 DEF AwaitProgbuf, Executing
  <1> QED
    BY <1>1, <1>2, <1>3, <1>4, <1>5, <1>6, <1>7, <1>8, <1>9, <1>10
    DEF HandleCommand

LEMMA DmKeepsShape ==
    ASSUME TypeOK, DmShape, NEW ans, DmStep(ans)
    PROVE  DmShape'
  <1> USE DEF TypeOK, DmTypeOK, DmShape, CommandShape, CommandActive, AutoExec,
              Handles, DataReg, Finish, Continue
  <1>1. CASE DmiNop
    BY <1>1 DEF DmiNop
  <1>2. CASE DmiUpdate
    <2>1. PICK o \in DmiOps : \/ o.op = "READ" /\ DmiRead(o.reg)
                              \/ o.op = "WRITE" /\ AcceptWrite(o.write)
      BY <1>2 DEF DmiUpdate
    <2>2. CASE DmiRead(o.reg)
      BY <2>2 DEF DmiRead
    <2>3. CASE AcceptWrite(o.write)
      BY <2>3 DEF AcceptWrite
    <2> QED
      BY <2>1, <2>2, <2>3
  <1>3. CASE DeassertBusy
    BY <1>3 DEF DeassertBusy
  <1>4. CASE HandleDmcontrol
    BY <1>4 DEF HandleDmcontrol
  <1>5. CASE HandleData
    <2>1. /\ ~CommandActive
          /\ UNCHANGED <<cmdFsm, xferFsm, peFsm>>
          /\ \E d \in DataReg : Handles(d)
      BY <1>5 DEF HandleData
    <2>2. CommandShape'
      BY <2>1
    <2>3. \/ UNCHANGED <<dm, req, busy>>
          \/ dm' = "IDLE" /\ busy' = FALSE /\ dataFsm' = "LATCH"
      BY <1>5 DEF HandleData
    <2> QED
      BY <2>1, <2>2, <2>3
  <1>6. CASE HandleAbstractcs
    BY <1>6 DEF HandleAbstractcs
  <1>7. CASE HandleAbstractauto
    BY <1>7 DEF HandleAbstractauto
  <1>8. CASE HandleProgbuf(ans)
    BY <1>8 DEF HandleProgbuf
  <1>9. CASE HandleUnimplemented
    BY <1>9 DEF HandleUnimplemented
  <1>10. CASE HandleCommand(ans)
    BY <1>10, CommandKeepsShape
  <1> QED
    BY <1>1, <1>2, <1>3, <1>4, <1>5, <1>6, <1>7, <1>8, <1>9, <1>10 DEF DmStep

(* The first two rules of the handshake: a request stays up until it is
   acknowledged, and is down in the cycle after. *)
LEMMA RequestHeld ==
    ASSUME TypeOK, DmShape, NEW ans, DmStep(ans)
    PROVE  /\ HaltReq /\ ~HaltAck => HaltReq'
           /\ HaltReq /\ HaltAck => ~HaltReq'
           /\ ResumeReq /\ ~ResumeAck => ResumeReq'
           /\ ResumeReq /\ ResumeAck => ~ResumeReq'
  <1>1. ASSUME Handles("DMCONTROL") PROVE
          /\ HaltReq /\ ~HaltAck => HaltReq'
          /\ HaltReq /\ HaltAck => ~HaltReq'
          /\ ResumeReq /\ ~ResumeAck => ResumeReq'
          /\ ResumeReq /\ ResumeAck => ~ResumeReq'
    <2>1. HandleDmcontrol /\ ~CommandActive
      BY <1>1, Dispatch
    <2> QED
      BY <1>1, <2>1 DEF HandleDmcontrol, HaltReq, ResumeReq, Executing,
         Handles, Finish, Continue, CommandActive, AutoExec
  <1>2. ASSUME Executing("C") PROVE
          /\ ~ResumeAck => ResumeReq'
          /\ ResumeAck => ~ResumeReq'
          /\ ~HaltReq
    <2>1. CommandActive /\ HandleCommand(ans) /\ ~Handles("DMCONTROL")
      BY <1>2, Dispatch DEF Executing
    <2>2. StartProgbuf
      BY <1>2, <2>1 DEF HandleCommand, CommandUnsupported, NoTransfer,
         TransferBegins, TransferEnds, NoPostexec, SanityCheck, SaveDpc,
         PointDpcToProgbuf, AwaitProgbuf, Transferring, Executing
    <2>3. CommandActive' /\ ~Handles("DMCONTROL")'
      BY <2>1, <2>2 DEF StartProgbuf, CommandContinues, Continue,
         CommandActive, AutoExec, Handles
    <2> QED
      BY <1>2, <2>1, <2>2, <2>3 DEF StartProgbuf, ResumeReq, HaltReq, Executing
  <1> QED
    BY <1>1, <1>2 DEF HaltReq, ResumeReq

(* A halted hart leaves HALTED for a resume request only, and then goes on at
   dpc. *)
LEMMA HaltedHart ==
    ASSUME NEW ans, CpuStep(ans), Halted
    PROVE  IF ResumeReq THEN cpu' = "FETCH" /\ pc' = dpc ELSE Halted'
  <1>1. StayHalted \/ Resume
    BY DEF Halted, CpuStep, CheckShouldHalt, Fetch, FetchWaits, Decode,
       ExecuteOneCycle, ExecuteMemory, ExecuteCsr, ExecuteMret, Writeback,
       EnterTrapHandler, Trap, Traps
  <1> QED
    BY <1>1 DEF StayHalted, Resume, Halted, cpuVars

(* The states of POSTEXEC are passed in the order the code lists them. *)
LEMMA PostexecOrder ==
    ASSUME TypeOK, DmShape, NEW ans, DmStep(ans)
    PROVE  /\ peFsm # "SANITY_CHECK" => Executing(peFsm)
           /\ peFsm = "SANITY_CHECK" =>
                SanityCheck \/ (peFsm' = peFsm /\ debugMode' = debugMode)
           /\ peFsm = "A" => SaveDpc
           /\ peFsm = "B" => PointDpcToProgbuf
           /\ peFsm = "C" => StartProgbuf
           /\ peFsm = "D" => AwaitProgbuf(ans)
  <1>1. peFsm # "SANITY_CHECK" => Executing(peFsm)
    BY DEF DmShape, CommandShape, Executing
  <1>2. Executing(peFsm) => HandleCommand(ans)
    BY Dispatch DEF Executing
  <1>3. HandleCommand(ans) /\ Executing(peFsm) =>
          \/ SanityCheck
          \/ SaveDpc
          \/ PointDpcToProgbuf
          \/ StartProgbuf
          \/ AwaitProgbuf(ans)
    BY DEF HandleCommand, CommandUnsupported, NoTransfer, TransferBegins,
       TransferEnds, NoPostexec, Transferring, Executing
  <1>4. peFsm = "SANITY_CHECK" =>
          SanityCheck \/ (peFsm' = peFsm /\ debugMode' = debugMode)
    BY DEF DmStep, DmiNop, DmiUpdate, DmiRead, AcceptWrite, DeassertBusy,
       HandleDmcontrol, HandleData, HandleAbstractcs, HandleAbstractauto,
       HandleProgbuf, HandleUnimplemented, HandleCommand, CommandUnsupported,
       NoTransfer, TransferBegins, TransferEnds, NoPostexec, SaveDpc,
       PointDpcToProgbuf, StartProgbuf, AwaitProgbuf, Executing, dmVars, execVars
  <1> QED
    BY <1>1, <1>2, <1>3, <1>4 DEF SanityCheck, SaveDpc, PointDpcToProgbuf,
       StartProgbuf, AwaitProgbuf, Executing

(* While HandlerCOMMAND is in SANITY_CHECK, A or B nobody asks for a resume. *)
LEMMA NoResumeBeforeC ==
    ASSUME TypeOK, NEW ans, DmStep(ans), CommandActive, peFsm # "C"
    PROVE  ~ResumeReq
  BY Dispatch DEF ResumeReq, Executing

LEMMA RequestsStandKept ==
    ASSUME TypeOK, DmShape, RequestsStand, NEW ans, Edge(ans)
    PROVE  RequestsStand'
  <1>1. DmStep(ans) /\ HaltAckFsm /\ ResumeAckFsm
    BY DEF Edge
  <1>2. haltFsm' = "B" => HaltReq /\ ~HaltAck
    BY <1>1 DEF HaltAckFsm, HaltAck, RequestsStand, TypeOK, EdgeTypeOK
  <1>3. resumeFsm' = "B" => ResumeReq /\ ~ResumeAck
    BY <1>1 DEF ResumeAckFsm, ResumeAck, RequestsStand, TypeOK, EdgeTypeOK
  <1> QED
    BY <1>1, <1>2, <1>3, RequestHeld DEF RequestsStand

LEMMA EntersProgbufKept ==
    ASSUME TypeOK, DmShape, RequestsStand, EntersProgbuf, NEW ans, Edge(ans)
    PROVE  EntersProgbuf'
  <1> USE DEF Halted
  <1>1. /\ DmStep(ans) /\ CpuStep(ans) /\ ResumeAckFsm /\ DpcStep
        /\ wasHalted' = Halted
    BY DEF Edge
  <1>2. peFsm \in {"SANITY_CHECK", "A", "B", "C", "D"}
    BY DEF TypeOK, DmTypeOK
  <1>3. CASE peFsm = "SANITY_CHECK"
    <2>1. CASE SanityCheck
      <3>1. ~ResumeReq
        BY <1>1, <1>3, <2>1, NoResumeBeforeC DEF SanityCheck, Executing
      <3>2. peFsm' \in {"SANITY_CHECK", "A"} /\ (peFsm' = "A" => Halted)
        BY <1>3, <2>1 DEF SanityCheck
      <3> QED
        BY <1>1, <3>1, <3>2, HaltedHart DEF EntersProgbuf
    <2>2. CASE peFsm' = peFsm
      BY <1>3, <2>2 DEF EntersProgbuf
    <2> QED
      BY <1>1, <1>3, <2>1, <2>2, PostexecOrder
  <1>4. CASE peFsm \in {"A", "B"}
    <2>1. Halted /\ wasHalted /\ Executing(peFsm)
      BY <1>1, <1>4, PostexecOrder DEF EntersProgbuf
    <2>2. ~ResumeReq
      BY <1>1, <1>4, <2>1, NoResumeBeforeC DEF Executing
    <2>3. Halted' /\ wasHalted'
      BY <1>1, <2>1, <2>2, HaltedHart
    <2>4. CASE peFsm = "A"
      BY <1>1, <2>3, <2>4, PostexecOrder DEF EntersProgbuf, SaveDpc
    <2>5. CASE peFsm = "B"
      <3>1. peFsm' = "C" /\ debugMode'
        BY <1>1, <2>5, PostexecOrder DEF EntersProgbuf, PointDpcToProgbuf
      <3>2. resumeFsm' = "A"
        BY <1>1, <2>2 DEF ResumeAckFsm, RequestsStand, TypeOK, EdgeTypeOK
      <3>3. Executing("B")
        BY <2>1, <2>5
      <3>4. dpc' = ProgbufEntry
        BY <1>1, <3>3 DEF DpcStep, DmWritesDpc, Executing
      <3> QED
        BY <2>3, <3>1, <3>2, <3>4 DEF EntersProgbuf
    <2> QED
      BY <1>4, <2>4, <2>5
  <1>5. CASE peFsm = "C"
    <2>1. Executing("C") /\ StartProgbuf /\ debugMode
      BY <1>1, <1>5, PostexecOrder DEF EntersProgbuf
    <2>2. CASE Halted
      <3>1. ResumeReq /\ ~ResumeAck /\ resumeFsm' = "B"
        BY <1>1, <1>5, <2>1, <2>2 DEF ResumeReq, ResumeAck, ResumeAckFsm,
           EntersProgbuf
      <3>2. cpu' = "FETCH" /\ pc' = ProgbufEntry /\ wasHalted'
        BY <1>1, <1>5, <2>2, <3>1, HaltedHart DEF EntersProgbuf
      <3> QED
        BY <2>1, <3>1, <3>2 DEF EntersProgbuf, StartProgbuf
    <2>3. CASE ~Halted
      BY <1>5, <2>1, <2>3 DEF EntersProgbuf, StartProgbuf, ResumeAck
    <2> QED
      BY <2>2, <2>3
  <1>6. CASE peFsm = "D"
    BY <1>1, <1>6, PostexecOrder DEF EntersProgbuf, AwaitProgbuf
  <1> QED
    BY <1>2, <1>3, <1>4, <1>5, <1>6

(* RunControlInv is an inductive invariant. *)
THEOREM RunControlInvariant == Spec => []RunControlInv
  <1>1. Init => DmShape /\ RequestsStand /\ EntersProgbuf
    BY DEF Init, DmShape, CommandShape, RequestsStand, EntersProgbuf
  <1>2. TypeOK /\ DmShape /\ RequestsStand /\ EntersProgbuf /\ [Tick]_vars
          => (DmShape /\ RequestsStand /\ EntersProgbuf)'
    <2>1. ASSUME TypeOK, DmShape, RequestsStand, EntersProgbuf, NEW ans, Edge(ans)
          PROVE  (DmShape /\ RequestsStand /\ EntersProgbuf)'
      <3>1. DmShape'
        BY <2>1, DmKeepsShape DEF Edge
      <3> QED
        BY <2>1, <3>1, RequestsStandKept, EntersProgbufKept
    <2>2. ASSUME DmShape, RequestsStand, EntersProgbuf, UNCHANGED vars
          PROVE  (DmShape /\ RequestsStand /\ EntersProgbuf)'
      BY <2>2 DEF vars, cpuVars, dmVars, execVars, dmiRegs, edgeVars, DmShape,
         CommandShape, CommandActive, AutoExec, Handles, RequestsStand, HaltReq,
         ResumeReq, Executing, EntersProgbuf, Halted
    <2> QED
      BY <2>1, <2>2 DEF Tick
  <1> QED
    BY <1>1, <1>2, TypeCorrect, PTL DEF Spec, RunControlInv

-----------------------------------------------------------------------------
(***************************************************************************)
(* The safety properties.                                                  *)
(***************************************************************************)

(* Every haltack and resumeack answers a request that is still there. *)
THEOREM AcksAnswerRequests == Spec => []NoSpuriousAck
  <1>1. RunControlInv => NoSpuriousAck
    BY DEF RunControlInv, RequestsStand, NoSpuriousAck, HaltAck, ResumeAck
  <1> QED
    BY <1>1, RunControlInvariant, PTL

(* With busy low no handler of the Debug Module and no FSM of the handshake is
   in the middle of anything. *)
THEOREM Quiescence == Spec => []IdleMeansQuiescent
  <1>1. RunControlInv => IdleMeansQuiescent
    BY DEF RunControlInv, TypeOK, DmTypeOK, EdgeTypeOK, DmShape, CommandShape,
       RequestsStand, IdleMeansQuiescent, CommandActive, AutoExec, Handles,
       HaltReq, ResumeReq, Executing, DataReg
  <1> QED
    BY <1>1, RunControlInvariant, PTL

(* A hart that SANITY_CHECK found halted is halted until state C resumes it. *)
THEOREM SanityCheckHolds == Spec => []SanityCheckNotStale
  <1>1. RunControlInv => SanityCheckNotStale
    BY DEF RunControlInv, EntersProgbuf, SanityCheckNotStale
  <1> QED
    BY <1>1, RunControlInvariant, PTL

(* A program buffer is entered at its first word. *)
THEOREM ProgbufEntered == Spec => []ProgbufStartsAtItsFirstWord
  <1>1. RunControlInv => ProgbufStartsAtItsFirstWord
    BY DEF RunControlInv, EntersProgbuf, ProgbufStartsAtItsFirstWord, Executing
  <1> QED
    BY <1>1, RunControlInvariant, PTL

(* The three writers of dpc never meet in one cycle. *)
THEOREM OneDpcWriter == Spec => []DpcHasOneWriter
  <1>1. ASSUME RunControlInv, NEW v \in DpcWriters, NEW w \in DpcWriters
        PROVE  v = w
    <2> USE DEF Halted
    <2>1. DmWritesDpc => debugMode /\ (Halted \/ cpu = "FETCH")
      BY <1>1 DEF RunControlInv, EntersProgbuf, DmWritesDpc, Executing
    <2>2. JustHalted => Halted
      BY DEF JustHalted
    <2>3. CsrWrites("dpc") => cpu = "EXECUTE"
      BY DEF CsrWrites
    <2> QED
      BY <1>1, <2>1, <2>2, <2>3 DEF DpcWriters
  <1>2. RunControlInv => DpcHasOneWriter
    BY <1>1 DEF DpcHasOneWriter
  <1> QED
    BY <1>2, RunControlInvariant, PTL

(* The Debug Module holds each request until its acknowledge and drops it in
   the next cycle. *)
THEOREM RequestsHeld == Spec => RequestHeldUntilAck
  <1> DEFINE Held == /\ HaltReq /\ ~HaltAck => HaltReq'
                     /\ ResumeReq /\ ~ResumeAck => ResumeReq'
                     /\ HaltAck => ~HaltReq'
                     /\ ResumeAck => ~ResumeReq'
  <1>1. RunControlInv /\ [Tick]_vars => [Held]_vars
    <2>1. ASSUME RunControlInv, NEW ans, Edge(ans) PROVE Held
      BY <2>1, RequestHeld
      DEF Edge, RunControlInv, RequestsStand, HaltAck, ResumeAck
    <2> QED
      BY <2>1 DEF Tick
  <1> QED
    BY <1>1, RunControlInvariant, PTL DEF Spec, RequestHeldUntilAck

-----------------------------------------------------------------------------
(***************************************************************************)
(* Exceptions in the program buffer.                                       *)
(***************************************************************************)

(* The bus has one owner, and an error is the only answer when it is due. *)
LEMMA BusOwner ==
    ASSUME TypeOK, NEW ans \in BusAnswers
    PROVE  /\ ans = "error" => BusEn /\ NoSlave /\ BusAnswers = {"error"}
           /\ Ack("ibus", ans) => PortEn("ibus")
           /\ BusEn /\ Owns("ibus") => PortEn("ibus")
           /\ BusEn /\ Owns("dbus") => PortEn("dbus")
  <1>1. \A p, q \in Ports : Owns(p) /\ Owns(q) => p = q
    BY DEF Ports, Owns
  <1>2. /\ BusEn /\ Owns("ibus") => PortEn("ibus")
        /\ BusEn /\ Owns("dbus") => PortEn("dbus")
    BY <1>1 DEF BusEn, Ports
  <1>3. ans \in {"ack", "error"} => BusEn
    BY DEF BusAnswers
  <1> QED
    BY <1>2, <1>3 DEF BusAnswers, Ack

(* A trap in the program buffer halts the hart, whatever else it could do. *)
LEMMA TrapHalts ==
    ASSUME TypeOK, NEW ans \in BusAnswers, CpuStep(ans), debugMode, Traps(ans)
    PROVE  cpu' = "HALTED"
  <1>1. ~Fetch(ans)
    <2> SUFFICES ASSUME Fetch(ans) PROVE FALSE
      OBVIOUS
    <2>1. cpu = "FETCH" /\ ans = "ack" /\ PortEn("ibus")
      BY BusOwner DEF Fetch, Ack
    <2> QED
      BY <2>1 DEF Traps, PortEn
  <1>2. ~ExecuteCsr
    BY DEF ExecuteCsr, DebugCsrDenied, Traps, CsrOps, Memory, DebugCsr
  <1>3. Trap(ans)
    BY <1>1, <1>2 DEF CpuStep, CheckShouldHalt, StayHalted, Resume, FetchWaits,
       Decode, ExecuteOneCycle, ExecuteMemory, ExecuteMret, Writeback,
       EnterTrapHandler, Traps, DebugCsrDenied, Memory, DebugCsr
  <1> QED
    BY <1>3 DEF Trap

(* A program buffer that traps is reported to the debugger in the same cycle,
   with the hart halted: the trap is not lost in the cycle in which
   HandlerCOMMAND still awaits resumeack. *)
THEOREM FaultReported == Spec => ProgbufFaultReported
  <1> DEFINE Fault == /\ \E ans \in BusAnswers : ErrorOnProgbuf(ans)
                      /\ Executing("C") \/ Executing("D")
             Reported == cpu' = "HALTED" /\ dm' = "IDLE" /\ cmderr' = Exception
  <1>1. RunControlInv /\ [Tick]_vars => [Fault => Reported]_vars
    <2>1. ASSUME RunControlInv, NEW ans, Edge(ans), Fault
          PROVE  Reported
      <3>1. TypeOK /\ DmShape /\ ans \in BusAnswers /\ CpuStep(ans) /\ DmStep(ans)
        BY <2>1 DEF RunControlInv, Edge
      <3>2. PICK a \in BusAnswers : debugMode /\ Traps(a)
        BY <2>1 DEF ErrorOnProgbuf
      <3>3. Traps(ans)
        BY <3>1, <3>2, BusOwner DEF Traps
      <3>4. ~Executing("C")
        <4> SUFFICES ASSUME Executing("C") PROVE FALSE
          OBVIOUS
        <4>1. cpu = "FETCH" /\ pc = ProgbufEntry
          BY <2>1, <3>3 DEF RunControlInv, EntersProgbuf, Executing, Halted, Traps
        <4>2. ans = "error"
          BY <3>3, <4>1, AddrAssumption DEF Traps
        <4> QED
          BY <3>1, <4>1, <4>2, BusOwner, AddrAssumption DEF NoSlave, PortEn
      <3>5. AwaitProgbuf(ans)
        BY <2>1, <3>1, <3>4, PostexecOrder DEF Executing
      <3>6. cpu' = "HALTED" /\ ~Halted
        BY <3>1, <3>2, <3>3, TrapHalts DEF Traps, Halted
      <3> QED
        BY <3>2, <3>3, <3>5, <3>6 DEF AwaitProgbuf, ErrorOnProgbuf, Done,
           CommandFinishes, Finish
    <2> QED
      BY <2>1 DEF Tick
  <1> QED
    BY <1>1, RunControlInvariant, PTL DEF Spec, ProgbufFaultReported

-----------------------------------------------------------------------------
(***************************************************************************)
(* Commands of the Debug Module.                                           *)
(***************************************************************************)

(* A command past its transfer is one whose transfer is supported, and the
   data that triggers it is in its register until the command itself reads a
   register of the hart there. *)
SupportedTransfer ==
    cmdFsm = "POSTEXEC" => command.transfer \notin {"badsize", "badreg"}

DataLatched ==
    dataFsm = "MAYBE_TRIGGER_COMMAND_EXEC" /\ cmdFsm = "TRANSFER"
      => data[req.reg] = req.value

(* What the steps outside HandlerCOMMAND leave alone. *)
LEMMA OutsideCommand ==
    ASSUME TypeOK, DmShape, NEW ans, DmStep(ans), ~HandleCommand(ans)
    PROVE  /\ cmdFsm' = cmdFsm /\ peFsm' = peFsm /\ debugMode' = debugMode
           /\ command' = command \/ (dm = "IDLE" /\ cmdFsm = "TRANSFER")
           /\ \/ UNCHANGED <<data, req, dataFsm>>
              \/ dataFsm' = "LATCH"
              \/ HandleData /\ dataFsm = "LATCH"
  <1>1. CASE DmiNop
    BY <1>1 DEF DmiNop, dmVars, execVars, dmiRegs
  <1>2. CASE DmiUpdate
    <2>1. PICK o \in DmiOps : \/ o.op = "READ" /\ DmiRead(o.reg)
                              \/ o.op = "WRITE" /\ AcceptWrite(o.write)
      BY <1>2 DEF DmiUpdate
    <2>2. CASE DmiRead(o.reg)
      BY <2>2 DEF DmiRead, execVars
    <2>3. CASE AcceptWrite(o.write)
      <3>1. dm = "IDLE" /\ dataFsm' = dataFsm
        BY <2>3 DEF AcceptWrite, execVars
      <3>2. dataFsm = "LATCH" /\ cmdFsm = "TRANSFER"
        BY <3>1 DEF TypeOK, DmTypeOK, DmShape, CommandShape, CommandActive,
           AutoExec, Handles
      <3> QED
        BY <2>3, <3>1, <3>2 DEF AcceptWrite, execVars
    <2> QED
      BY <2>1, <2>2, <2>3
  <1>3. CASE DeassertBusy
    BY <1>3 DEF DeassertBusy, execVars, dmiRegs
  <1>4. CASE HandleDmcontrol
    BY <1>4 DEF HandleDmcontrol, execVars, Finish, Continue
  <1>5. CASE HandleData
    BY <1>5 DEF HandleData, Finish, Continue
  <1>6. CASE HandleAbstractcs \/ HandleAbstractauto \/ HandleProgbuf(ans)
               \/ HandleUnimplemented
    BY <1>6 DEF HandleAbstractcs, HandleAbstractauto, HandleProgbuf,
       HandleUnimplemented, execVars, dmiRegs, Finish, Continue
  <1> QED
    BY <1>1, <1>2, <1>3, <1>4, <1>5, <1>6 DEF DmStep

LEMMA CommandKeepsLatches ==
    ASSUME TypeOK, SupportedTransfer, DataLatched, NEW ans, HandleCommand(ans)
    PROVE  SupportedTransfer' /\ DataLatched'
  <1> USE DEF SupportedTransfer, DataLatched, CommandFinishes, CommandContinues,
              Finish, Continue, Done
  <1>1. CASE CommandUnsupported
    BY <1>1 DEF CommandUnsupported, dmiRegs
  <1>2. CASE NoTransfer
    BY <1>2 DEF NoTransfer, Transferring, dmiRegs
  <1>3. CASE TransferBegins
    BY <1>3 DEF TransferBegins, dmiRegs
  <1>4. CASE TransferEnds
    BY <1>4 DEF TransferEnds, Transferring
  <1>5. CASE NoPostexec
    BY <1>5 DEF NoPostexec, dmiRegs
  <1>6. CASE SanityCheck
    BY <1>6 DEF SanityCheck, dmiRegs
  <1>7. CASE SaveDpc
    BY <1>7 DEF SaveDpc, dmiRegs
  <1>8. CASE PointDpcToProgbuf
    BY <1>8 DEF PointDpcToProgbuf, dmiRegs
  <1>9. CASE StartProgbuf
    BY <1>9 DEF StartProgbuf, dmiRegs
  <1>10. CASE AwaitProgbuf(ans)
    BY <1>10 DEF AwaitProgbuf, dmiRegs
  <1> QED
    BY <1>1, <1>2, <1>3, <1>4, <1>5, <1>6, <1>7, <1>8, <1>9, <1>10
    DEF HandleCommand

THEOREM LatchesHold == Spec => [](SupportedTransfer /\ DataLatched)
  <1>1. Init => SupportedTransfer /\ DataLatched
    BY DEF Init, SupportedTransfer, DataLatched
  <1>2. RunControlInv /\ SupportedTransfer /\ DataLatched /\ [Tick]_vars
          => (SupportedTransfer /\ DataLatched)'
    <2>1. ASSUME RunControlInv, SupportedTransfer, DataLatched,
                 NEW ans, Edge(ans), ~HandleCommand(ans)
          PROVE  (SupportedTransfer /\ DataLatched)'
      <3>1. TypeOK /\ DmShape /\ DmStep(ans)
        BY <2>1 DEF RunControlInv, Edge
      <3>2. ASSUME HandleData, dataFsm = "LATCH" PROVE DataLatched'
        <4>1. data' = [data EXCEPT ![req.reg] = req.value] /\ UNCHANGED req
          BY <3>2 DEF HandleData, Continue
        <4>2. req.reg \in DataReg
          BY <3>2 DEF HandleData, Handles
        <4>3. data \in [DataReg -> Val]
          BY <3>1 DEF TypeOK, DmTypeOK
        <4> QED
          BY <4>1, <4>2, <4>3 DEF DataLatched
      <3>3. DataLatched'
        BY <2>1, <3>1, <3>2, OutsideCommand DEF DataLatched
      <3>4. SupportedTransfer'
        BY <2>1, <3>1, OutsideCommand DEF SupportedTransfer
      <3> QED
        BY <3>3, <3>4
    <2>2. ASSUME RunControlInv, SupportedTransfer, DataLatched,
                 NEW ans, Edge(ans), HandleCommand(ans)
          PROVE  (SupportedTransfer /\ DataLatched)'
      BY <2>2, CommandKeepsLatches DEF RunControlInv
    <2>3. ASSUME SupportedTransfer, DataLatched, UNCHANGED vars
          PROVE  (SupportedTransfer /\ DataLatched)'
      BY <2>3 DEF vars, dmVars, execVars, dmiRegs, SupportedTransfer, DataLatched
    <2> QED
      BY <2>1, <2>2, <2>3 DEF Tick
  <1> QED
    BY <1>1, <1>2, RunControlInvariant, PTL DEF Spec

(* A command executed automatically writes the value whose arrival in a data
   register triggered it, not the one before. *)
THEOREM AutoexecIsOfNewData == Spec => []AutoexecUsesNewData
  <1>1. DataLatched => AutoexecUsesNewData
    BY DEF DataLatched, AutoexecUsesNewData, AutoExec, Transferring
  <1> QED
    BY <1>1, LatchesHold, PTL

(* In the second cycle of a register access that began on a halted hart, the hart
   is still halted, and a write has reached the register. *)
AccessLatched ==
    xferFsm = "B" /\ wasHalted =>
        /\ Halted
        /\ command.transfer = "write" => gpr[command.regno] = data["DATA0"]

(* The second cycle of an access follows its first; nobody asks for a resume in
   between. *)
LEMMA AccessBegins ==
    ASSUME RunControlInv, NEW ans, Edge(ans), xferFsm' = "B"
    PROVE  AccessLatched'
  <1>1. /\ TypeOK /\ DmShape /\ DmStep(ans) /\ CpuStep(ans) /\ GprStep
        /\ wasHalted' = Halted
    BY DEF RunControlInv, Edge
  <1>2. TransferBegins
    <2>1. xferFsm' = xferFsm \/ HandleCommand(ans)
      BY <1>1 DEF DmStep, DmiNop, DmiUpdate, DmiRead, AcceptWrite, DeassertBusy,
         HandleDmcontrol, HandleData, HandleAbstractcs, HandleAbstractauto,
         HandleProgbuf, HandleUnimplemented, dmVars, execVars
    <2>2. xferFsm = "B" => HandleCommand(ans) /\ ~CommandUnsupported
      BY <1>1, Dispatch DEF DmShape, CommandShape, CommandUnsupported
    <2>3. HandleCommand(ans)
      BY <2>1, <2>2
    <2> QED
      BY <1>1, <2>2, <2>3 DEF HandleCommand, CommandUnsupported, NoTransfer,
         TransferBegins, TransferEnds, NoPostexec, SanityCheck, SaveDpc,
         PointDpcToProgbuf, StartProgbuf, AwaitProgbuf, Transferring, Executing,
         DmShape, CommandShape
  <1>3. /\ CommandActive /\ peFsm # "C"
        /\ command' = command /\ data' = data
    BY <1>1, <1>2 DEF TransferBegins, Transferring, DmShape, CommandShape, dmiRegs
  <1>4. Halted => Halted'
    BY <1>1, <1>3, NoResumeBeforeC, HaltedHart
  <1>5. ASSUME Halted, command.transfer = "write"
        PROVE  gpr'[command.regno] = data["DATA0"]
    <2>1. Transferring("write", "A")
      BY <1>2, <1>5 DEF TransferBegins, Transferring
    <2>2. gpr' = [gpr EXCEPT ![command.regno] = data["DATA0"]]
      BY <1>1, <1>5, <2>1 DEF GprStep, Halted
    <2>3. command.regno \in Reg /\ gpr \in [Reg -> Val]
      BY <1>1, <2>1 DEF TypeOK, DmTypeOK, EdgeTypeOK, Command, NoCommand
    <2> QED
      BY <2>2, <2>3
  <1> QED
    BY <1>1, <1>3, <1>4, <1>5 DEF AccessLatched

LEMMA AccessesHold == Spec => []AccessLatched
  <1>1. Init => AccessLatched
    BY DEF Init, AccessLatched
  <1>2. RunControlInv /\ RunControlInv' /\ AccessLatched /\ [Tick]_vars
          => AccessLatched'
    <2>1. ASSUME RunControlInv, NEW ans, Edge(ans) PROVE AccessLatched'
      BY <2>1, AccessBegins DEF AccessLatched
    <2>2. ASSUME AccessLatched, UNCHANGED vars PROVE AccessLatched'
      BY <2>2 DEF vars, cpuVars, dmVars, execVars, dmiRegs, edgeVars,
         AccessLatched, Halted
    <2> QED
      BY <2>1, <2>2 DEF Tick
  <1> QED
    BY <1>1, <1>2, RunControlInvariant, PTL DEF Spec

(* A command that leaves TRANSFER has made its transfer. *)
LEMMA TransferIsMade ==
    ASSUME RunControlInv, AccessLatched, NEW ans, Edge(ans),
           cmdFsm = "TRANSFER", cmdFsm' = "POSTEXEC"
    PROVE  \/ command.transfer = "none"
           \/ /\ command.transfer \in {"read", "write"} /\ xferFsm = "B"
              /\ wasHalted => RegisterMoved
  <1>1. TypeOK /\ DmShape /\ DmStep(ans) /\ GprStep
    BY DEF RunControlInv, Edge
  <1>2. HandleCommand(ans)
    BY <1>1, OutsideCommand
  <1>3. NoTransfer \/ TransferEnds
    BY <1>2 DEF HandleCommand, CommandUnsupported, NoTransfer, TransferBegins,
       TransferEnds, NoPostexec, SanityCheck, SaveDpc, PointDpcToProgbuf,
       StartProgbuf, AwaitProgbuf, Done
  <1>4. CASE NoTransfer
    BY <1>4 DEF NoTransfer, Transferring
  <1>5. CASE TransferEnds
    <2>1. command.transfer \in {"read", "write"} /\ xferFsm = "B"
      BY <1>5 DEF TransferEnds, Transferring
    <2>2. ASSUME wasHalted PROVE RegisterMoved
      <3>1. Halted
        BY <2>1, <2>2 DEF AccessLatched
      <3>2. gpr' = gpr
        BY <1>1, <2>1, <3>1 DEF GprStep, Halted, Transferring
      <3>3. DebugReadData = {gpr[command.regno]}
        BY <2>2, <3>1 DEF DebugReadData
      <3>4. command.transfer = "read" =>
              data' = [data EXCEPT !["DATA0"] = gpr[command.regno]]
        BY <1>5, <3>3 DEF TransferEnds, Transferring
      <3>5. command.transfer = "write" =>
              data' = data /\ gpr[command.regno] = data["DATA0"]
        BY <1>5, <2>1, <2>2 DEF TransferEnds, Transferring, AccessLatched
      <3> QED
        BY <3>2, <3>4, <3>5 DEF RegisterMoved
    <2> QED
      BY <2>1, <2>2
  <1> QED
    BY <1>3, <1>4, <1>5

(* A command goes on after its transfer only if that was supported and, on a
   hart that was halted when it began, has moved the value between data0 and
   the register named; it ends with cmderr zero only after that, and where it
   asked for the program buffer, the hart has run it and has halted again. *)
THEOREM SuccessIsDone == Spec => NoErrMeansDone
  <1> DEFINE Succeeds == CommandActive /\ dm' = "IDLE" /\ cmderr' = NoErr
             Performed ==
                 /\ command.cmdtype = "AccessRegister" /\ cmdFsm = "POSTEXEC"
                 /\ command.transfer \notin {"badsize", "badreg"}
                 /\ command.postexec => Executing("D") /\ Halted
             Goes == cmdFsm = "TRANSFER" /\ cmdFsm' = "POSTEXEC"
             Made ==
                 \/ command.transfer = "none"
                 \/ /\ command.transfer \in {"read", "write"} /\ xferFsm = "B"
                    /\ wasHalted => RegisterMoved
  <1>1. RunControlInv /\ SupportedTransfer /\ AccessLatched /\ [Tick]_vars
          => [(Goes => Made) /\ (Succeeds => Performed)]_vars
    <2>1. ASSUME RunControlInv, SupportedTransfer, NEW ans, Edge(ans), Succeeds
          PROVE  Performed
      <3>1. HandleCommand(ans) /\ dm = "WAIT"
        BY <2>1, Dispatch DEF RunControlInv, Edge, CommandActive, AutoExec, Handles
      <3>2. NoErr # NotSupported /\ NoErr # HaltOrResume /\ NoErr # Exception
        BY DEF NoErr, NotSupported, HaltOrResume, Exception
      <3>3. \/ NoPostexec
            \/ AwaitProgbuf(ans) /\ Halted
        BY <2>1, <3>1, <3>2 DEF HandleCommand, CommandUnsupported, NoTransfer,
           TransferBegins, TransferEnds, SanityCheck, SaveDpc, PointDpcToProgbuf,
           StartProgbuf, AwaitProgbuf, CommandFinishes, CommandContinues, Finish,
           Continue, Done
      <3> QED
        BY <2>1, <3>3 DEF NoPostexec, AwaitProgbuf, Executing, SupportedTransfer
    <2>2. ASSUME RunControlInv, AccessLatched, NEW ans, Edge(ans), Goes
          PROVE  Made
      BY <2>2, TransferIsMade
    <2> QED
      BY <2>1, <2>2 DEF Tick
  <1> QED
    BY <1>1, RunControlInvariant, LatchesHold, AccessesHold, PTL
    DEF Spec, NoErrMeansDone

-----------------------------------------------------------------------------
(* No trap in the program buffer: what a debugger has to see to, since after
   one is_debug_mode stays high. *)
ProgbufSound ==
    peFsm = "D" => \A ans \in BusAnswers : ~ErrorOnProgbuf(ans)

DebugModeMarked == debugMode <=> peFsm \in {"B", "C", "D"}

LEMMA DebugModeMarkedKept ==
    ASSUME RunControlInv, ProgbufSound, DebugModeMarked, NEW ans, Edge(ans)
    PROVE  DebugModeMarked'
  <1> USE DEF DebugModeMarked
  <1>1. TypeOK /\ DmShape /\ DmStep(ans) /\ ans \in BusAnswers
    BY DEF RunControlInv, Edge
  <1>2. peFsm \in {"SANITY_CHECK", "A", "B", "C", "D"} /\ debugMode \in BOOLEAN
    BY <1>1 DEF TypeOK, DmTypeOK
  <1>3. CASE peFsm = "SANITY_CHECK"
    BY <1>1, <1>3, PostexecOrder DEF SanityCheck
  <1>4. CASE peFsm = "A"
    BY <1>1, <1>4, PostexecOrder DEF SaveDpc
  <1>5. CASE peFsm = "B"
    BY <1>1, <1>5, PostexecOrder DEF PointDpcToProgbuf
  <1>6. CASE peFsm = "C"
    BY <1>1, <1>6, PostexecOrder DEF StartProgbuf
  <1>7. CASE peFsm = "D"
    <2>1. AwaitProgbuf(ans) /\ ~ErrorOnProgbuf(ans)
      BY <1>1, <1>7, PostexecOrder DEF ProgbufSound
    <2>2. CASE peFsm' = "SANITY_CHECK" /\ debugMode' = FALSE
      BY <2>2
    <2>3. CASE peFsm' = peFsm /\ debugMode' = debugMode
      BY <1>7, <2>3
    <2> QED
      BY <2>1, <2>2, <2>3 DEF AwaitProgbuf
  <1> QED
    BY <1>2, <1>3, <1>4, <1>5, <1>6, <1>7

(* With such program buffers is_debug_mode is high for the execution of one
   and for nothing else, whatever program is debugged and whatever else the
   debugger sends. *)
THEOREM DebugModeFollowsProgbuf ==
    Spec /\ []ProgbufSound => []DebugModeIsProgbuf
  <1>1. Init => DebugModeMarked
    BY DEF Init, DebugModeMarked
  <1>2. RunControlInv /\ ProgbufSound /\ DebugModeMarked /\ [Tick]_vars
          => DebugModeMarked'
    <2>1. ASSUME DebugModeMarked, UNCHANGED vars PROVE DebugModeMarked'
      BY <2>1 DEF vars, dmVars, execVars, DebugModeMarked
    <2> QED
      BY <2>1, DebugModeMarkedKept DEF Tick
  <1>3. RunControlInv /\ DebugModeMarked => DebugModeIsProgbuf
    BY DEF RunControlInv, DmShape, CommandShape, DebugModeIsProgbuf, DebugModeMarked
  <1> QED
    BY <1>1, <1>2, <1>3, RunControlInvariant, PTL DEF Spec

-----------------------------------------------------------------------------
(* What holds while the program buffer runs. *)
RunsWithin(addrs) ==
    debugMode /\ ~Halted =>
        /\ pc \in addrs /\ cpu # "TRAP"
        /\ cpu \in {"DECODE", "EXECUTE", "WRITEBACK"} => instr \in Code[pc]
        /\ cpu \in {"EXECUTE", "WRITEBACK"} => instr.op # "ebreak"
        /\ cpu = "WRITEBACK" => instr.op # "mret"

LEMMA RunsWithinIsSound ==
    ASSUME NEW addrs \in SUBSET Addr, SoundWithin(addrs), TypeOK, EntersProgbuf,
           RunsWithin(addrs)
    PROVE  ProgbufSound
  <1> SUFFICES ASSUME debugMode, NEW ans \in BusAnswers, Traps(ans), peFsm = "D"
               PROVE  FALSE
    BY DEF ProgbufSound, ErrorOnProgbuf
  <1>1. cpu \in {"FETCH", "DECODE", "EXECUTE"} /\ ~Halted
    BY DEF Traps, Halted
  <1>2. /\ pc \in addrs \ (Misaligned \cup Unmapped)
        /\ cpu \in {"DECODE", "EXECUTE"} => instr.op \notin {"badmem", "trap"}
    BY <1>1 DEF RunsWithin, SoundWithin
  <1>3. ans # "error"
    BY <1>2, BusOwner DEF NoSlave, PortEn
  <1> QED
    BY <1>1, <1>2, <1>3 DEF Traps, HaltOnEbreak, DebugCsrDenied

LEMMA RunsWithinKept ==
    ASSUME NEW addrs \in SUBSET Addr, SoundWithin(addrs), RunControlInv,
           DebugModeMarked, RunsWithin(addrs), NEW ans, Edge(ans)
    PROVE  RunsWithin(addrs)'
  <1> SUFFICES ASSUME debugMode', ~Halted'
               PROVE  /\ pc' \in addrs /\ cpu' # "TRAP"
                      /\ cpu' \in {"DECODE", "EXECUTE", "WRITEBACK"} => instr' \in Code[pc']
                      /\ cpu' \in {"EXECUTE", "WRITEBACK"} => instr'.op # "ebreak"
                      /\ cpu' = "WRITEBACK" => instr'.op # "mret"
    BY DEF RunsWithin
  <1>1. /\ TypeOK /\ DmShape /\ EntersProgbuf /\ DmStep(ans) /\ CpuStep(ans)
        /\ ans \in BusAnswers
    BY DEF RunControlInv, Edge
  <1>2. ProgbufSound
    BY <1>1, RunsWithinIsSound
  <1>3. CASE Halted
    <2>1. ResumeReq /\ cpu' = "FETCH" /\ pc' = dpc
      BY <1>1, <1>3, HaltedHart
    <2>2. peFsm \in {"A", "B", "C", "D"}
      BY <1>1, <1>2, DebugModeMarkedKept, PostexecOrder
      DEF DebugModeMarked, SanityCheck, TypeOK, DmTypeOK
    <2>3. Executing("C")
      BY <1>1, <2>1, <2>2, PostexecOrder, NoResumeBeforeC DEF Executing
    <2>4. dpc = ProgbufEntry
      BY <1>1, <1>3, <2>3 DEF EntersProgbuf, Executing, Halted
    <2> QED
      BY <2>1, <2>4 DEF SoundWithin
  <1>4. CASE ~Halted
    <2>1. debugMode
      <3>1. peFsm # "A"
        BY <1>1, <1>4 DEF EntersProgbuf
      <3>2. peFsm' \in {"B", "C", "D"}
        BY <1>2, DebugModeMarkedKept DEF DebugModeMarked
      <3>3. peFsm # "SANITY_CHECK"
        BY <1>1, <3>2, PostexecOrder DEF SanityCheck, DebugModeMarked
      <3> QED
        BY <1>1, <3>1, <3>3 DEF DebugModeMarked, TypeOK, DmTypeOK
    <2>2. /\ pc \in addrs /\ cpu # "TRAP"
          /\ cpu \in {"DECODE", "EXECUTE", "WRITEBACK"} => instr \in Code[pc]
          /\ cpu \in {"EXECUTE", "WRITEBACK"} => instr.op # "ebreak"
          /\ cpu = "WRITEBACK" => instr.op # "mret"
      BY <1>4, <2>1 DEF RunsWithin
    <2>3. ~Traps(ans) /\ ~StayHalted /\ ~Resume /\ ~EnterTrapHandler
      BY <1>1, <1>4, <2>1, <2>2, TrapHalts
      DEF Halted, StayHalted, Resume, EnterTrapHandler
    <2>4. CASE CheckShouldHalt \/ FetchWaits(ans)
      BY <1>4, <2>2, <2>4 DEF CheckShouldHalt, EnterHalt, FetchWaits, Halted
    <2>5. CASE Fetch(ans)
      BY <2>2, <2>5 DEF Fetch
    <2>6. CASE Decode(ans)
      BY <2>2, <2>6 DEF Decode, EnterHalt, Halted
    <2>7. CASE ExecuteOneCycle \/ ExecuteMemory(ans) \/ ExecuteCsr
      BY <2>2, <2>7 DEF ExecuteOneCycle, ExecuteMemory, ExecuteCsr, ToWriteback,
         Memory, CsrOps, DebugCsr
    <2>8. CASE ExecuteMret
      BY <2>2, <2>8 DEF ExecuteMret, FetchWithNewPc, SoundWithin
    <2>9. CASE Writeback
      <3>1. pc' = NextPc /\ cpu' = "CHECK_SHOULD_HALT" /\ instr \in Code[pc]
        BY <2>2, <2>9 DEF Writeback
      <3>2. NextPc \in addrs
        BY <2>2, <2>9, <3>1 DEF NextPc, SoundWithin, Writeback
      <3> QED
        BY <3>1, <3>2
    <2> QED
      BY <1>1, <2>3, <2>4, <2>5, <2>6, <2>7, <2>8, <2>9 DEF CpuStep, Trap
  <1> QED
    BY <1>3, <1>4

(* Whether a program buffer traps can be told from its code. *)
THEOREM SoundProgbufTakesNoTrap == ProgbufIsSound /\ Spec => []ProgbufSound
  <1>1. ASSUME NEW addrs \in SUBSET Addr, SoundWithin(addrs)
        PROVE  Spec => []ProgbufSound
    <2> DEFINE Within == DebugModeMarked /\ RunsWithin(addrs)
    <2>1. Init => Within
      BY DEF Init, DebugModeMarked, RunsWithin
    <2>2. RunControlInv /\ Within /\ [Tick]_vars => Within'
      <3>1. ASSUME RunControlInv, Within, NEW ans, Edge(ans) PROVE Within'
        BY <1>1, <3>1, RunsWithinIsSound, RunsWithinKept, DebugModeMarkedKept
        DEF RunControlInv
      <3>2. ASSUME Within, UNCHANGED vars PROVE Within'
        BY <3>2 DEF vars, DebugModeMarked, RunsWithin, Halted
      <3> QED
        BY <3>1, <3>2 DEF Tick
    <2>3. RunControlInv /\ Within => ProgbufSound
      BY <1>1, RunsWithinIsSound DEF RunControlInv
    <2> HIDE DEF Within
    <2> QED
      BY <2>1, <2>2, <2>3, RunControlInvariant, PTL DEF Spec
  <1> QED
    BY <1>1 DEF ProgbufIsSound

-----------------------------------------------------------------------------
(***************************************************************************)
(* Progress: what is left to do falls with every clock edge, but for those *)
(* in which the owner of the bus waits for a slave.  With slaves that      *)
(* answer this is why requests are served.                                 *)
(***************************************************************************)

(* Edges until port p of the hart owns the bus. *)
BusLeft(p) ==
    IF Owns(p) THEN 0
    ELSE IF BusEn THEN 2
    ELSE IF PortEn("debug") THEN 3 ELSE 1

CsrLeft ==
    CASE csrFsm = "IDLE" -> 3
      [] csrFsm = "REG_GENERIC" -> 2
      [] csrFsm = "REG_SPECIFIC" -> 1
      [] OTHER -> 0

ExecuteLeft ==
    IF instr.op \in Memory THEN BusLeft("dbus")
    ELSE IF instr.op \in CsrOps THEN CsrLeft ELSE 0

(* Edges until the hart next looks for a request to halt, or is halted. *)
CpuLeft ==
    CASE cpu = "HALTED" -> 0
      [] cpu = "CHECK_SHOULD_HALT" -> 1
      [] cpu \in {"WRITEBACK", "TRAP"} -> 2
      [] cpu = "EXECUTE" -> 3 + ExecuteLeft
      [] cpu = "DECODE" -> 7
      [] OTHER -> 8 + BusLeft("ibus")

LEMMA LeftTypes ==
    /\ BusLeft("ibus") \in 0..3 /\ BusLeft("dbus") \in 0..3
    /\ CsrLeft \in 0..3 /\ ExecuteLeft \in 0..3 /\ CpuLeft \in 0..11
  <1>1. BusLeft("ibus") \in 0..3 /\ BusLeft("dbus") \in 0..3
    BY DEF BusLeft
  <1>2. CsrLeft \in 0..3
    BY DEF CsrLeft
  <1>3. ExecuteLeft \in 0..3
    BY <1>1, <1>2 DEF ExecuteLeft
  <1> QED
    BY <1>1, <1>2, <1>3 DEF CpuLeft

LEMMA NextLeftTypes ==
    /\ BusLeft("ibus")' \in 0..3 /\ BusLeft("dbus")' \in 0..3
    /\ CsrLeft' \in 0..3 /\ ExecuteLeft' \in 0..3 /\ CpuLeft' \in 0..11
  <1>1. BusLeft("ibus")' \in 0..3 /\ BusLeft("dbus")' \in 0..3
    BY DEF BusLeft
  <1>2. CsrLeft' \in 0..3
    BY DEF CsrLeft
  <1>3. ExecuteLeft' \in 0..3
    BY <1>1, <1>2 DEF ExecuteLeft
  <1> QED
    BY <1>1, <1>2, <1>3 DEF CpuLeft

(* The debug port is enabled until it is acknowledged. *)
LEMMA ProgbufPort ==
    ASSUME TypeOK, NEW ans, DmStep(ans), Handles("PROGBUF")
    PROVE  /\ HandleProgbuf(ans)
           /\ Ack("debug", ans) => dm' = "IDLE" /\ ~PortEn("debug")'
           /\ ~Ack("debug", ans) => dm' # "IDLE" /\ PortEn("debug")'
  <1>1. ~CommandActive /\ dm = "WAIT" /\ req.reg = "PROGBUF"
    <2>1. ~AutoExec
      BY Zenon DEF AutoExec, Handles, TypeOK, DmTypeOK, DataReg
    <2> QED
      BY <2>1 DEF CommandActive, Handles
  <1>2. HandleProgbuf(ans)
    BY <1>1, Dispatch DEF DmStep, DmiNop, DmiUpdate, DmiRead, AcceptWrite,
       DeassertBusy, HandleDmcontrol, HandleData, HandleAbstractcs,
       HandleAbstractauto, HandleUnimplemented, Handles, DataReg
  <1> QED
    BY <1>1, <1>2 DEF HandleProgbuf, Finish, Continue, PortEn, Handles

(* A port of the hart that stays enabled comes nearer to the bus. *)
LEMMA BusAdvances ==
    ASSUME TypeOK, NEW ans, Edge(ans), NEW p \in {"ibus", "dbus"},
           PortEn(p), PortEn(p)', ~(Owns(p) /\ ans \in {"ack", "error"})
    PROVE  BusLeft(p)' < BusLeft(p) \/ (ans = "wait" /\ BusLeft(p)' = BusLeft(p))
  <1>1. ans \in BusAnswers /\ DmStep(ans) /\ LatchRequests
    BY DEF Edge
  <1>2. \A q \in Ports : PortEn(q) => q \in {"debug", p}
    BY DEF PortEn, Ports
  <1>3. CASE Owns(p)
    <2>1. BusEn /\ ans = "wait"
      BY <1>1, <1>3 DEF BusEn, Ports, BusAnswers
    <2> QED
      BY <1>1, <1>3, <2>1 DEF LatchRequests, BusLeft, Owns
  <1>4. CASE ~Owns(p) /\ BusEn
    <2>1. Owns("debug") /\ PortEn("debug")
      BY <1>2, <1>4 DEF BusEn
    <2>2. granted' = granted /\ ans \in {"wait", "ack"}
      BY <1>1, <1>4, <2>1 DEF LatchRequests, BusAnswers, NoSlave, Owns
    <2>3. Owns("debug")' /\ ~Owns(p)' /\ \A q \in Ports : Owns(q)' => q = "debug"
      BY <2>1, <2>2 DEF Owns, Ports
    <2>4. BusEn' <=> PortEn("debug")'
      BY <2>3 DEF BusEn, Ports
    <2>5. PortEn("debug")' <=> ans = "wait"
      BY <1>1, <2>1, <2>2, ProgbufPort DEF PortEn, Ack
    <2> QED
      BY <1>4, <2>2, <2>3, <2>4, <2>5 DEF BusLeft
  <1>5. CASE ~Owns(p) /\ ~BusEn
    <2>1. granted' = {q \in Ports : PortEn(q)} /\ ans = "none"
      BY <1>1, <1>5 DEF LatchRequests, BusAnswers
    <2>2. CASE PortEn("debug")
      <3>1. granted' = {"debug", p} /\ PortEn("debug")'
        BY <1>1, <1>2, <2>1, <2>2, ProgbufPort DEF Ports, PortEn, Ack
      <3>2. Owns("debug")' /\ ~Owns(p)' /\ BusEn'
        BY <3>1 DEF Owns, BusEn, Ports
      <3> QED
        BY <1>5, <2>2, <3>2 DEF BusLeft
    <2>3. CASE ~PortEn("debug")
      <3>1. granted' = {p}
        BY <1>2, <2>1, <2>3 DEF Ports
      <3>2. Owns(p)'
        BY <3>1 DEF Owns
      <3> QED
        BY <1>5, <2>3, <3>2 DEF BusLeft
    <2> QED
      BY <2>2, <2>3
  <1> QED
    BY <1>3, <1>4, <1>5

(* Between two looks for a request to halt no state of the hart waits for
   anything but the bus. *)
LEMMA CpuAdvances ==
    ASSUME TypeOK, NEW ans, Edge(ans), cpu \notin {"HALTED", "CHECK_SHOULD_HALT"}
    PROVE  CpuLeft' < CpuLeft \/ (ans = "wait" /\ CpuLeft' = CpuLeft)
  <1>1. CpuStep(ans) /\ ans \in BusAnswers /\ CpuTypeOK'
    BY CpuType DEF Edge
  <1>2. CASE Trap(ans)
    <2>1. cpu \in {"FETCH", "DECODE", "EXECUTE"} /\ cpu' \in {"HALTED", "TRAP"}
      BY <1>2 DEF Trap, Traps
    <2> QED
      BY <2>1, LeftTypes, NextLeftTypes DEF CpuLeft
  <1>3. CASE Fetch(ans)
    BY <1>3, LeftTypes DEF Fetch, CpuLeft
  <1>4. CASE FetchWaits(ans)
    <2>1. PortEn("ibus") /\ PortEn("ibus")' /\ cpu = "FETCH" /\ cpu' = "FETCH"
      BY <1>4 DEF FetchWaits, Traps, PortEn
    <2>2. ~(Owns("ibus") /\ ans \in {"ack", "error"})
      BY <1>4 DEF FetchWaits, Traps, Ack
    <2>3. \/ BusLeft("ibus")' < BusLeft("ibus")
          \/ ans = "wait" /\ BusLeft("ibus")' = BusLeft("ibus")
      BY <2>1, <2>2, BusAdvances
    <2>4. CpuLeft = 8 + BusLeft("ibus") /\ CpuLeft' = 8 + BusLeft("ibus")'
      BY <2>1 DEF CpuLeft
    <2> QED
      BY <2>3, <2>4, LeftTypes, NextLeftTypes
  <1>5. CASE Decode(ans)
    <2>1. cpu = "DECODE" /\ cpu' \in {"HALTED", "EXECUTE"}
      BY <1>5 DEF Decode, EnterHalt
    <2>2. CpuLeft = 7 /\ CpuLeft' < 7
      BY <2>1, NextLeftTypes DEF CpuLeft
    <2> QED
      BY <2>2
  <1>6. CASE ExecuteMemory(ans)
    <2>1. CASE cpu' = "WRITEBACK"
      BY <1>6, <2>1, LeftTypes DEF ExecuteMemory, CpuLeft
    <2>2. CASE cpu' # "WRITEBACK"
      <3>1. /\ cpu = "EXECUTE" /\ cpu' = "EXECUTE" /\ instr' = instr
            /\ instr.op \in Memory /\ ~(Owns("dbus") /\ ans \in {"ack", "error"})
        BY <1>6, <2>2 DEF ExecuteMemory, ToWriteback, Ack
      <3>2. \/ BusLeft("dbus")' < BusLeft("dbus")
            \/ ans = "wait" /\ BusLeft("dbus")' = BusLeft("dbus")
        BY <3>1, BusAdvances DEF PortEn
      <3>3. CpuLeft = 3 + BusLeft("dbus") /\ CpuLeft' = 3 + BusLeft("dbus")'
        BY <3>1 DEF CpuLeft, ExecuteLeft
      <3> QED
        BY <3>2, <3>3, LeftTypes, NextLeftTypes
    <2> QED
      BY <2>1, <2>2
  <1>7. CASE ExecuteCsr
    <2>1. cpu = "EXECUTE" /\ instr.op \in CsrOps /\ instr.op \notin Memory
      BY <1>7 DEF ExecuteCsr, CsrOps, DebugCsr, Memory
    <2>2. CpuLeft = 3 + CsrLeft
      BY <2>1 DEF CpuLeft, ExecuteLeft
    <2>3. CASE csrFsm = "FINISH"
      BY <1>7, <2>2, <2>3, LeftTypes DEF ExecuteCsr, ToWriteback, CpuLeft
    <2>4. CASE csrFsm # "FINISH"
      <3>1. /\ cpu' = cpu /\ instr' = instr
            /\ \/ csrFsm = "IDLE" /\ csrFsm' = "REG_GENERIC"
               \/ csrFsm = "REG_GENERIC" /\ csrFsm' = "REG_SPECIFIC"
               \/ csrFsm = "REG_SPECIFIC" /\ csrFsm' = "FINISH"
        BY <1>7, <2>4 DEF ExecuteCsr, TypeOK, CpuTypeOK
      <3>2. CpuLeft' = 3 + CsrLeft'
        BY <2>1, <3>1 DEF CpuLeft, ExecuteLeft
      <3> QED
        BY <2>2, <3>1, <3>2 DEF CsrLeft
    <2> QED
      BY <2>3, <2>4
  <1>8. CASE ExecuteOneCycle \/ ExecuteMret \/ Writeback \/ EnterTrapHandler
    <2>1. \/ cpu = "EXECUTE" /\ cpu' \in {"WRITEBACK", "CHECK_SHOULD_HALT"}
          \/ cpu \in {"WRITEBACK", "TRAP"} /\ cpu' = "CHECK_SHOULD_HALT"
      BY <1>8 DEF ExecuteOneCycle, ToWriteback, ExecuteMret, FetchWithNewPc,
         Writeback, EnterTrapHandler
    <2> QED
      BY <2>1, LeftTypes, NextLeftTypes DEF CpuLeft
  <1> QED
    BY <1>1, <1>2, <1>3, <1>4, <1>5, <1>6, <1>7, <1>8
    DEF CpuStep, CheckShouldHalt, StayHalted, Resume

(* cpu.py main_fsm: wherever the hart is, it comes nearer to CHECK_SHOULD_HALT
   or to HALTED with every edge in which no slave keeps the bus waiting: this
   is the part of the liveness of run control that needs no fairness. *)
THEOREM HartProgress ==
    Spec => [][cpu \notin {"HALTED", "CHECK_SHOULD_HALT"} =>
                 CpuLeft' < CpuLeft \/ (Edge("wait") /\ CpuLeft' = CpuLeft)]_vars
  <1> DEFINE Advances == cpu \notin {"HALTED", "CHECK_SHOULD_HALT"} =>
                 CpuLeft' < CpuLeft \/ (Edge("wait") /\ CpuLeft' = CpuLeft)
  <1>1. TypeOK /\ [Tick]_vars => [Advances]_vars
    <2>1. ASSUME TypeOK, NEW ans, Edge(ans) PROVE Advances
      BY <2>1, CpuAdvances
    <2> QED
      BY <2>1 DEF Tick
  <1> QED
    BY <1>1, TypeCorrect, PTL DEF Spec

(* Edges until a request to halt is acknowledged. *)
HaltLeft == IF haltFsm = "A" THEN CpuLeft + 1 ELSE CpuLeft

LEMMA HaltAdvances ==
    ASSUME RunControlInv, NEW ans, Edge(ans), HaltReq, ~HaltAck
    PROVE  HaltLeft' < HaltLeft \/ (ans = "wait" /\ HaltLeft' = HaltLeft)
  <1>1. /\ TypeOK /\ DmShape /\ CpuStep(ans) /\ DmStep(ans) /\ HaltAckFsm
        /\ haltFsm \in {"A", "B"}
    BY DEF Edge, RunControlInv, TypeOK, EdgeTypeOK
  <1>2. ~ResumeReq
    BY <1>1, Dispatch DEF HaltReq, ResumeReq, Handles, Executing
  <1>3. CASE Halted
    <2>1. haltFsm = "A" /\ haltFsm' = "B"
      BY <1>1, <1>3 DEF HaltAck, HaltAckFsm
    <2>2. Halted'
      BY <1>1, <1>2, <1>3, HaltedHart
    <2>3. CpuLeft = 0 /\ CpuLeft' = 0
      BY <1>3, <2>2 DEF CpuLeft, Halted
    <2> QED
      BY <2>1, <2>3 DEF HaltLeft
  <1>4. CASE ~Halted
    <2>1. haltFsm' = "B"
      BY <1>1, <1>4 DEF HaltAckFsm
    <2>2. CASE cpu = "CHECK_SHOULD_HALT"
      <3>1. CheckShouldHalt
        BY <1>1, <2>2 DEF CpuStep, StayHalted, Resume, Fetch, FetchWaits, Decode,
           ExecuteOneCycle, ExecuteMemory, ExecuteCsr, ExecuteMret, Writeback,
           EnterTrapHandler, Trap, Traps
      <3>2. cpu' = "HALTED"
        BY <3>1 DEF CheckShouldHalt, EnterHalt
      <3>3. CpuLeft = 1 /\ CpuLeft' = 0
        BY <2>2, <3>2 DEF CpuLeft
      <3> QED
        BY <1>1, <2>1, <3>3 DEF HaltLeft
    <2>3. CASE cpu # "CHECK_SHOULD_HALT"
      <3>1. CpuLeft' < CpuLeft \/ (ans = "wait" /\ CpuLeft' = CpuLeft)
        BY <1>1, <1>4, <2>3, CpuAdvances DEF Halted
      <3>2. CASE haltFsm = "A"
        <4>1. HaltLeft = CpuLeft + 1 /\ HaltLeft' = CpuLeft'
          BY <2>1, <3>2, NextLeftTypes DEF HaltLeft
        <4> QED
          BY <3>1, <4>1, LeftTypes, NextLeftTypes
      <3>3. CASE haltFsm = "B"
        <4>1. HaltLeft = CpuLeft /\ HaltLeft' = CpuLeft'
          BY <2>1, <3>3, LeftTypes, NextLeftTypes DEF HaltLeft
        <4> QED
          BY <3>1, <4>1
      <3> QED
        BY <1>1, <3>2, <3>3
    <2> QED
      BY <2>2, <2>3
  <1> QED
    BY <1>3, <1>4

(* cpu_dm_if.py: a haltreq stays up until its haltack, and every edge brings
   the haltack nearer, but for those in which a slave keeps the bus waiting. *)
THEOREM HaltProgress ==
    Spec => [][HaltReq /\ ~HaltAck =>
                 /\ HaltReq'
                 /\ HaltLeft' < HaltLeft \/ (Edge("wait") /\ HaltLeft' = HaltLeft)]_vars
  <1> DEFINE Advances == HaltReq /\ ~HaltAck =>
                 /\ HaltReq'
                 /\ HaltLeft' < HaltLeft \/ (Edge("wait") /\ HaltLeft' = HaltLeft)
  <1>1. RunControlInv /\ [Tick]_vars => [Advances]_vars
    <2>1. ASSUME RunControlInv, NEW ans, Edge(ans) PROVE Advances
      BY <2>1, HaltAdvances, RequestHeld DEF RunControlInv, Edge
    <2> QED
      BY <2>1 DEF Tick
  <1> QED
    BY <1>1, RunControlInvariant, PTL DEF Spec

(* Edges until a request to resume is acknowledged. *)
ResumeLeft == IF resumeFsm = "A" THEN 2 ELSE IF Halted THEN 1 ELSE 0

(* cpu_dm_if.py: a resumereq stays up until its resumeack, which comes within
   two edges whatever the hart is doing: no slave can delay it. *)
THEOREM ResumeProgress ==
    Spec => [][ResumeReq /\ ~ResumeAck => ResumeReq' /\ ResumeLeft' < ResumeLeft]_vars
  <1> DEFINE Advances == ResumeReq /\ ~ResumeAck => ResumeReq' /\ ResumeLeft' < ResumeLeft
  <1>1. RunControlInv /\ [Tick]_vars => [Advances]_vars
    <2>1. ASSUME RunControlInv, NEW ans, Edge(ans), ResumeReq, ~ResumeAck
          PROVE  ResumeReq' /\ ResumeLeft' < ResumeLeft
      <3>1. /\ TypeOK /\ DmShape /\ CpuStep(ans) /\ DmStep(ans) /\ ResumeAckFsm
            /\ resumeFsm \in {"A", "B"}
        BY <2>1 DEF Edge, RunControlInv, TypeOK, EdgeTypeOK
      <3>2. ResumeReq'
        BY <2>1, <3>1, RequestHeld
      <3>3. resumeFsm' = "B"
        BY <2>1, <3>1 DEF ResumeAckFsm, ResumeAck
      <3>4. resumeFsm = "B" => Halted /\ ~Halted'
        BY <2>1, <3>1, HaltedHart DEF ResumeAck, Halted
      <3> QED
        BY <3>1, <3>2, <3>3, <3>4 DEF ResumeLeft
    <2> QED
      BY <2>1 DEF Tick
  <1> QED
    BY <1>1, RunControlInvariant, PTL DEF Spec

(* A port of the hart that owns the bus drops its request with the answer. *)
LEMMA PortDrops ==
    ASSUME TypeOK, NEW ans, Edge(ans), NEW p \in {"ibus", "dbus"},
           Owns(p), PortEn(p), ans \in {"ack", "error"}
    PROVE  ~PortEn(p)'
  <1>1. CpuStep(ans)
    BY DEF Edge
  <1>2. CASE p = "ibus"
    <2>1. cpu = "FETCH"
      BY <1>2 DEF PortEn
    <2>2. Fetch(ans) \/ Trap(ans)
      BY <1>1, <1>2, <2>1 DEF CpuStep, CheckShouldHalt, StayHalted, Resume, FetchWaits,
         Ack, Traps, Decode, ExecuteOneCycle, ExecuteMemory, ExecuteCsr, ExecuteMret,
         Writeback, EnterTrapHandler
    <2>3. cpu' \in {"DECODE", "HALTED", "TRAP"}
      BY <2>2 DEF Fetch, Trap
    <2> QED
      BY <1>2, <2>3 DEF PortEn
  <1>3. CASE p = "dbus"
    <2>1. cpu = "EXECUTE" /\ instr.op \in Memory
      BY <1>3 DEF PortEn
    <2>2. ExecuteMemory(ans) \/ Trap(ans)
      BY <1>1, <2>1 DEF CpuStep, CheckShouldHalt, StayHalted, Resume, Fetch, FetchWaits,
         Memory, CsrOps, DebugCsr, Decode, ExecuteOneCycle, ExecuteCsr, ExecuteMret,
         Writeback, EnterTrapHandler
    <2>3. cpu' \in {"WRITEBACK", "HALTED", "TRAP"}
      BY <1>3, <2>2 DEF ExecuteMemory, Ack, ToWriteback, Trap
    <2> QED
      BY <1>3, <2>3 DEF PortEn
  <1> QED
    BY <1>2, <1>3

(* Edges until the debug port, once enabled, owns the bus. *)
DebugLeft == IF Owns("debug") THEN 0 ELSE IF BusEn THEN 2 ELSE 1

LEMMA DebugAdvances ==
    ASSUME TypeOK, NEW ans, Edge(ans), Handles("PROGBUF"), ~Ack("debug", ans)
    PROVE  DebugLeft' < DebugLeft \/ (ans = "wait" /\ DebugLeft' = DebugLeft)
  <1>1. ans \in BusAnswers /\ DmStep(ans) /\ LatchRequests /\ PortEn("debug")
    BY DEF Edge, PortEn
  <1>2. CASE Owns("debug")
    <2>1. BusEn /\ ans = "wait"
      BY <1>1, <1>2 DEF BusEn, Ports, BusAnswers, NoSlave, Owns, Ack
    <2>2. Owns("debug")'
      BY <1>1, <1>2, <2>1 DEF LatchRequests, Owns
    <2> QED
      BY <1>2, <2>1, <2>2 DEF DebugLeft
  <1>3. CASE ~Owns("debug") /\ BusEn
    <2>1. PICK p \in Ports : Owns(p) /\ PortEn(p)
      BY <1>3 DEF BusEn
    <2>2. p \in {"ibus", "dbus"} /\ granted' = granted /\ ans \in {"wait", "ack", "error"}
      BY <1>1, <1>3, <2>1 DEF Ports, LatchRequests, BusAnswers
    <2>3. ~Owns("debug")' /\ \A q \in Ports : Owns(q)' => q = p
      BY <1>3, <2>1, <2>2 DEF Owns, Ports
    <2>4. ans # "wait" => ~BusEn'
      BY <2>1, <2>2, <2>3, PortDrops DEF BusEn
    <2> QED
      BY <1>3, <2>2, <2>3, <2>4 DEF DebugLeft
  <1>4. CASE ~Owns("debug") /\ ~BusEn
    <2>1. Owns("debug")'
      BY <1>1, <1>4 DEF LatchRequests, Owns, Ports
    <2> QED
      BY <1>4, <2>1 DEF DebugLeft
  <1> QED
    BY <1>2, <1>3, <1>4

(* Edges until HandlerCOMMAND finishes or waits for the hart. *)
CommandLeft ==
    CASE cmdFsm = "TRANSFER" -> IF xferFsm = "A" THEN 7 ELSE 6
      [] peFsm = "SANITY_CHECK" /\ cmdFsm # "TRANSFER" -> 5
      [] peFsm = "A" /\ cmdFsm # "TRANSFER" -> 4
      [] peFsm = "B" /\ cmdFsm # "TRANSFER" -> 3
      [] peFsm = "C" /\ cmdFsm # "TRANSFER" -> 2
      [] OTHER -> 1

(* The Debug Module waits for an acknowledge, or for the program buffer. *)
AwaitsHart ==
    \/ HaltReq /\ ~HaltAck
    \/ ResumeReq /\ ~ResumeAck
    \/ Executing("D") /\ ~Halted

LEMMA CommandAdvances ==
    ASSUME TypeOK, NEW ans, HandleCommand(ans), dm' # "IDLE"
    PROVE  /\ UNCHANGED <<dm, req, dataFsm, autoexec>>
           /\ \/ CommandLeft' < CommandLeft
              \/ CommandLeft' = CommandLeft /\ AwaitsHart
  <1> USE DEF CommandFinishes, CommandContinues, Finish, Continue, Done
  <1>1. ~CommandUnsupported /\ ~NoPostexec
    BY DEF CommandUnsupported, NoPostexec
  <1>2. CASE NoTransfer
    <2>1. cmdFsm = "TRANSFER" /\ cmdFsm' = "POSTEXEC"
      BY <1>2 DEF NoTransfer, Transferring
    <2> QED
      BY <1>2, <2>1 DEF NoTransfer, CommandLeft
  <1>3. CASE TransferBegins
    <2>1. cmdFsm = "TRANSFER" /\ xferFsm = "A" /\ cmdFsm' = cmdFsm /\ xferFsm' = "B"
      BY <1>3 DEF TransferBegins, Transferring
    <2> QED
      BY <1>3, <2>1 DEF TransferBegins, CommandLeft
  <1>4. CASE TransferEnds
    <2>1. cmdFsm = "TRANSFER" /\ cmdFsm' = "POSTEXEC"
      BY <1>4 DEF TransferEnds, Transferring
    <2> QED
      BY <1>4, <2>1 DEF TransferEnds, CommandLeft
  <1>5. CASE SanityCheck
    <2>1. cmdFsm = "POSTEXEC" /\ cmdFsm' = cmdFsm /\ peFsm = "SANITY_CHECK" /\ peFsm' = "A"
      BY <1>5 DEF SanityCheck, Executing
    <2> QED
      BY <1>5, <2>1 DEF SanityCheck, CommandLeft
  <1>6. CASE SaveDpc
    <2>1. cmdFsm = "POSTEXEC" /\ cmdFsm' = cmdFsm /\ peFsm = "A" /\ peFsm' = "B"
      BY <1>6 DEF SaveDpc, Executing
    <2> QED
      BY <1>6, <2>1 DEF SaveDpc, CommandLeft
  <1>7. CASE PointDpcToProgbuf
    <2>1. cmdFsm = "POSTEXEC" /\ cmdFsm' = cmdFsm /\ peFsm = "B" /\ peFsm' = "C"
      BY <1>7 DEF PointDpcToProgbuf, Executing
    <2> QED
      BY <1>7, <2>1 DEF PointDpcToProgbuf, CommandLeft
  <1>8. CASE StartProgbuf
    <2>1. /\ cmdFsm = "POSTEXEC" /\ cmdFsm' = cmdFsm /\ peFsm = "C"
          /\ peFsm' = IF ResumeAck THEN "D" ELSE "C"
          /\ Executing("C")
      BY <1>8 DEF StartProgbuf, Executing
    <2>2. ~ResumeAck => AwaitsHart
      BY <2>1 DEF AwaitsHart, ResumeReq
    <2> QED
      BY <1>8, <2>1, <2>2 DEF StartProgbuf, CommandLeft
  <1>9. CASE AwaitProgbuf(ans)
    <2>1. /\ UNCHANGED <<dm, req, dataFsm, autoexec, cmdFsm, xferFsm, peFsm>>
          /\ Executing("D") /\ ~Halted
      BY <1>9 DEF AwaitProgbuf
    <2> QED
      BY <2>1 DEF AwaitsHart, CommandLeft
  <1> QED
    BY <1>1, <1>2, <1>3, <1>4, <1>5, <1>6, <1>7, <1>8, <1>9 DEF HandleCommand

(* Edges until the DMI FSM is back in IDLE or waits for the hart or the bus. *)
DmiLeft ==
    IF Handles("PROGBUF") THEN DebugLeft
    ELSE IF CommandActive THEN CommandLeft
    ELSE IF dataFsm = "LATCH" /\ \E d \in DataReg : Handles(d) THEN 8 ELSE 0

LEMMA DmiAdvances ==
    ASSUME TypeOK, DmShape, NEW ans, Edge(ans), busy, dm' # "IDLE"
    PROVE  \/ DmiLeft' < DmiLeft
           \/ DmiLeft' = DmiLeft /\ (AwaitsHart \/ (Handles("PROGBUF") /\ ans = "wait"))
  <1>1. DmStep(ans) /\ dm = "WAIT"
    <2>1. DmStep(ans) /\ dm \in {"WAIT", "DEASSERT_BUSY"}
      BY DEF Edge, DmShape, TypeOK, DmTypeOK
    <2>2. dm = "DEASSERT_BUSY" => DeassertBusy
      BY <2>1, Dispatch DEF DmStep, DmiNop, DmiUpdate, DmiRead, AcceptWrite,
         HandleDmcontrol, HandleData, HandleAbstractcs, HandleAbstractauto,
         HandleProgbuf, HandleUnimplemented, Handles, CommandActive, AutoExec
    <2> QED
      BY <2>1, <2>2 DEF DeassertBusy
  <1>2. CASE Handles("PROGBUF")
    <2>1. Handles("PROGBUF")' /\ ~Ack("debug", ans)
      BY <1>1, <1>2, ProgbufPort DEF HandleProgbuf, Continue, Handles
    <2>2. DebugLeft' < DebugLeft \/ (ans = "wait" /\ DebugLeft' = DebugLeft)
      BY <1>2, <2>1, DebugAdvances
    <2> QED
      BY <1>2, <2>1, <2>2 DEF DmiLeft
  <1>3. CASE CommandActive
    <2>1. HandleCommand(ans)
      BY <1>1, <1>3, Dispatch
    <2>2. /\ UNCHANGED <<dm, req, dataFsm, autoexec>>
          /\ \/ CommandLeft' < CommandLeft
             \/ CommandLeft' = CommandLeft /\ AwaitsHart
      BY <2>1, CommandAdvances
    <2>3. CommandActive' /\ (Handles("PROGBUF")' <=> Handles("PROGBUF"))
      BY <1>3, <2>2 DEF CommandActive, AutoExec, Handles
    <2>4. ~Handles("PROGBUF")
      BY <1>3, Zenon DEF CommandActive, AutoExec, Handles, TypeOK, DmTypeOK, DataReg
    <2> QED
      BY <1>3, <2>2, <2>3, <2>4 DEF DmiLeft
  <1>4. CASE ~Handles("PROGBUF") /\ ~CommandActive
    <2>1. \/ HandleDmcontrol /\ AwaitsHart /\ UNCHANGED <<dm, req, dataFsm>>
          \/ /\ HandleData /\ dataFsm = "LATCH" /\ dataFsm' # "LATCH"
             /\ UNCHANGED <<dm, req>>
      BY <1>1, <1>4, Dispatch DEF DmStep, DmiNop, DmiUpdate, DmiRead, AcceptWrite,
         DeassertBusy, HandleDmcontrol, AwaitsHart, execVars, HandleData,
         HandleAbstractcs, HandleAbstractauto, HandleProgbuf, HandleUnimplemented,
         Finish, Continue
    <2>2. CASE HandleDmcontrol /\ AwaitsHart /\ UNCHANGED <<dm, req, dataFsm>>
      <3>1. Handles("DMCONTROL") /\ Handles("DMCONTROL")'
        BY <2>2 DEF HandleDmcontrol, Handles
      <3>2. DmiLeft = 0 /\ DmiLeft' = 0
        <4>1. autoexec \subseteq DataReg /\ autoexec' \subseteq DataReg
          BY <1>1, DmType DEF TypeOK, DmTypeOK
        <4> QED
          BY <3>1, <4>1, Zenon DEF DmiLeft, Handles, CommandActive, AutoExec, DataReg
      <3> QED
        BY <2>2, <3>2
    <2>3. CASE /\ HandleData /\ dataFsm = "LATCH" /\ dataFsm' # "LATCH"
               /\ UNCHANGED <<dm, req>>
      <3>1. DmiLeft = 8
        BY <1>4, <2>3 DEF DmiLeft, HandleData
      <3>2. ~Handles("PROGBUF")'
        BY <1>4, <2>3 DEF Handles
      <3>3. CommandLeft' \in 1..7
        BY DEF CommandLeft
      <3> QED
        BY <2>3, <3>1, <3>2, <3>3 DEF DmiLeft
    <2> QED
      BY <2>1, <2>2, <2>3
  <1> QED
    BY <1>2, <1>3, <1>4

(* top.py WAIT: every edge brings an operation of the debugger nearer to its
   end, but for those in which the Debug Module waits for an acknowledge or
   the program buffer, or a slave keeps the bus waiting.  In particular no hart,
   one that only traps included, keeps a write to the program buffer from the
   bus for more than two edges in which the bus moves. *)
THEOREM DmiProgress ==
    Spec => [][busy =>
                 \/ dm' = "IDLE"
                 \/ DmiLeft' < DmiLeft
                 \/ /\ DmiLeft' = DmiLeft
                    /\ AwaitsHart \/ (Handles("PROGBUF") /\ Edge("wait"))]_vars
  <1> DEFINE Advances == busy =>
                 \/ dm' = "IDLE"
                 \/ DmiLeft' < DmiLeft
                 \/ /\ DmiLeft' = DmiLeft
                    /\ AwaitsHart \/ (Handles("PROGBUF") /\ Edge("wait"))
  <1>1. RunControlInv /\ [Tick]_vars => [Advances]_vars
    <2>1. ASSUME RunControlInv, NEW ans, Edge(ans) PROVE Advances
      BY <2>1, DmiAdvances DEF RunControlInv
    <2> QED
      BY <2>1 DEF Tick
  <1> QED
    BY <1>1, RunControlInvariant, PTL DEF Spec
=============================================================================

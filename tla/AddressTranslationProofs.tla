---------------------- MODULE AddressTranslationProofs ----------------------
(***************************************************************************)
(* Proofs about the memory arbiter and its page walker, for every index    *)
(* width, address map, page table and program.                             *)
(*                                                                         *)
(* The inductive invariant is TypeOK with AccessPhases: it says how far    *)
(* the one access under way has got, and each lemma of the second section  *)
(* takes an access from one phase to the next.                             *)
(***************************************************************************)
EXTENDS AddressTranslationProps, Integers, TLAPS

(* The debugger writes the program buffer of a halted hart only. *)
DebugOnlyHalted == DebugWindow \subseteq {"HALTED"} \X Mode

(* What software and the memory map owe: every access finds a slave, and a  *)
(* walk finds a table of two levels.                                        *)
SoundTables == ~BusError /\ TwoLevelTables

-----------------------------------------------------------------------------
LEMMA InitType == Init => TypeOK
<1>. SUFFICES ASSUME Init PROVE TypeOK
  OBVIOUS
<1>1. /\ Nil \in Index /\ Boot \in Address /\ memory \in [Address -> Pte]
  BY IndexAssumption, SoftwareAssumption DEF Init
<1>2. /\ <<Nil, Nil>> \in Page /\ <<Nil, Nil, Nil>> \in Address
  BY <1>1 DEF Page, Address
<1>3. NoPte \in Pte
  BY <1>2 DEF NoPte, Pte
<1>4. instr \in Instr
  BY DEF Init, Instr
<1>5. /\ satp \in [on : BOOLEAN, ppn : Page]
      /\ vreq \in [addr : Address, store : BOOLEAN]
  BY <1>2 DEF Init
<1>6. /\ portFsm \in [Port -> {"TRANSLATE", "FIRST", "REQ"}]
      /\ slave \in [Slave -> {"REQ", "RET", "DONE"}]
      /\ readData \in [Slave -> Pte]
  BY <1>3 DEF Init
<1>. QED
  BY <1>1, <1>2, <1>3, <1>4, <1>5, <1>6
  DEF Init, TypeOK, CpuState, Mode, Issue

LEMMA AddrTypes ==
  ASSUME TypeOK
  PROVE  /\ \A p \in Port : PortAddr(p) \in Address
         /\ BusAddr \in Address
         /\ Owner \in Port
         /\ vreq.addr[1] \in Index /\ vreq.addr[2] \in Index /\ vreq.addr[3] \in Index
<1>1. \A p \in Port : PortAddr(p) \in Address
  BY IndexAssumption, MapAssumption
  DEF TypeOK, PortAddr, Address, Port, Accessing, Instr
<1>2. Owner \in Port
  BY DEF Owner, Port
<1>3. vreq.addr \in Address
  BY DEF TypeOK
<1>4. vreq.addr[1] \in Index /\ vreq.addr[2] \in Index /\ vreq.addr[3] \in Index
  BY <1>3 DEF Address
<1>5. Vpn \in Index
  BY <1>4 DEF Vpn
<1>6. BusAddr \in Address
  <2>1. rootPpn[1] \in Index /\ rootPpn[2] \in Index
    BY DEF TypeOK, Page
  <2>2. <<rootPpn[1], rootPpn[2], Vpn>> \in Address
    BY <1>5, <2>1 DEF Address
  <2>3. <<Nil, Nil, Nil>> \in Address
    BY IndexAssumption DEF Address
  <2>4. physAddr \in Address
    BY DEF TypeOK
  <2>. QED BY <1>1, <1>2, <2>2, <2>3, <2>4 DEF BusAddr
<1>. QED BY <1>1, <1>2, <1>4, <1>6

LEMMA CpuType ==
  ASSUME TypeOK, DebugStep, ModeStep, CpuStep
  PROVE  /\ cpu' \in CpuState /\ mode' \in Mode /\ pc' \in Address
         /\ instr' \in Instr /\ satp' \in [on : BOOLEAN, ppn : Page]
         /\ writing' \in BOOLEAN
<1>1. writing' \in BOOLEAN
  BY DEF DebugStep, TypeOK, PortAck, Ack
<1>2. mode' \in Mode
  BY DEF ModeStep, TypeOK, Mode
<1>3. instr.op = "satp" => [on |-> instr.on, ppn |-> instr.ppn] \in [on : BOOLEAN, ppn : Page]
  BY DEF TypeOK, Instr
<1>4. /\ cpu' \in CpuState /\ pc' \in Address
      /\ instr' \in Instr /\ satp' \in [on : BOOLEAN, ppn : Page]
  <2>1. Pcs \subseteq Address /\ Instrs \subseteq Instr
    BY SoftwareAssumption
  <2>2. CASE CheckShouldHalt BY <2>2 DEF CheckShouldHalt, Goto, TypeOK, CpuState
  <2>3. CASE Halted BY <2>1, <2>3 DEF Halted, Goto, TypeOK, CpuState
  <2>4. CASE Fetch BY <2>1, <2>4 DEF Fetch, Goto, TypeOK, CpuState
  <2>5. CASE Decode BY <2>5 DEF Decode, Goto, TypeOK, CpuState
  <2>6. CASE ExecuteMemory BY <2>6 DEF ExecuteMemory, Goto, TypeOK, CpuState
  <2>7. CASE ExecuteCsr BY <1>3, <2>7 DEF ExecuteCsr, Goto, TypeOK, CpuState
  <2>8. CASE ExecuteMret BY <2>1, <2>8 DEF ExecuteMret, TypeOK, CpuState
  <2>9. CASE ExecutePlain BY <2>9 DEF ExecutePlain, Goto, TypeOK, CpuState
  <2>10. CASE Jump("WRITEBACK") \/ Jump("TRAP")
    BY <2>1, <2>10 DEF Jump, TypeOK, CpuState
  <2>. QED BY <2>2, <2>3, <2>4, <2>5, <2>6, <2>7, <2>8, <2>9, <2>10 DEF CpuStep
<1>. QED BY <1>1, <1>2, <1>4

LEMMA PortType ==
  ASSUME TypeOK, LatchRequests, PortFsms, LatchVirtualRequest
  PROVE  /\ granted' \subseteq Port
         /\ portFsm' \in [Port -> {"TRANSLATE", "FIRST", "REQ"}]
         /\ vreq' \in [addr : Address, store : BOOLEAN]
<1>1. granted' \subseteq Port
  BY DEF LatchRequests, TypeOK
<1>2. \A p \in Port : PortFsmStep(p) \in {"TRANSLATE", "FIRST", "REQ"}
  BY DEF PortFsmStep, TypeOK
<1>3. portFsm' \in [Port -> {"TRANSLATE", "FIRST", "REQ"}]
  BY <1>2 DEF PortFsms, TypeOK
<1>4. PortStore(Owner) \in BOOLEAN
  BY DEF PortStore, TypeOK
<1>5. vreq' \in [addr : Address, store : BOOLEAN]
  BY <1>4, AddrTypes DEF LatchVirtualRequest, TypeOK
<1>. QED BY <1>1, <1>3, <1>5

LEMMA WalkType ==
  ASSUME TypeOK, WalkStep
  PROVE  /\ walker' \in {"IDLE", "TRANSLATE", "PROCESS_PTE", "NEXT"}
         /\ level' \in {0, 1} /\ rootPpn' \in Page /\ pte' \in Pte
         /\ errorCode' \in Issue /\ physAddr' \in Address
<1>1. CASE StartWalk BY <1>1 DEF StartWalk, TypeOK
<1>2. CASE ReadPte BY <1>2 DEF ReadPte, TypeOK
<1>3. CASE ProcessPte
  <2>1. PteIssue \in Issue
    BY DEF PteIssue, Issue, TypeOK
  <2>2. pte.ppn \in Page /\ pte.ppn[1] \in Index /\ pte.ppn[2] \in Index
    BY DEF TypeOK, Pte, Page
  <2>3. <<pte.ppn[1], pte.ppn[2], vreq.addr[3]>> \in Address
    BY <2>2, AddrTypes DEF Address
  <2>. QED BY <1>3, <2>1, <2>2, <2>3 DEF ProcessPte, TypeOK
<1>4. CASE NextLevel BY <1>4 DEF NextLevel, TypeOK
<1>. QED BY <1>1, <1>2, <1>3, <1>4 DEF WalkStep

LEMMA BusType ==
  ASSUME TypeOK, SlavesStep
  PROVE  /\ slave' \in [Slave -> {"REQ", "RET", "DONE"}]
         /\ readData' \in [Slave -> Pte]
         /\ memory' \in [Address -> Pte]
<1>1. \A s \in Slave : SlaveStep(s) \in {"REQ", "RET", "DONE"}
  BY DEF SlaveStep, TypeOK
<1>2. slave' \in [Slave -> {"REQ", "RET", "DONE"}]
  BY <1>1 DEF SlavesStep
<1>3. NoPte \in Pte
  BY IndexAssumption DEF NoPte, Pte, Page
<1>4. BusStore /\ Owner = "dbus" => instr.value \in Pte
  BY DEF BusStore, PortStore, TypeOK, Instr
<1>5. memory' \in [Address -> Pte]
  BY <1>3, <1>4, AddrTypes DEF SlavesStep, WrittenWord, TypeOK
<1>6. readData' \in [Slave -> Pte]
  <2>1. PICK a \in IF \E s \in Slave : LeftAlone(s) THEN Address ELSE {BusAddr} :
          readData' = [s \in Slave |->
                        IF Requests(s) THEN memory[BusAddr]
                        ELSE IF LeftAlone(s) THEN memory[a] ELSE readData[s]]
    BY DEF SlavesStep
  <2>2. a \in Address
    BY AddrTypes
  <2>. QED BY <2>1, <2>2, AddrTypes DEF TypeOK
<1>. QED BY <1>2, <1>5, <1>6

LEMMA TypeStep == TypeOK /\ [Edge]_vars => TypeOK'
<1>. SUFFICES ASSUME TypeOK, [Edge]_vars PROVE TypeOK'
  OBVIOUS
<1>1. CASE Edge
  BY <1>1, CpuType, PortType, WalkType, BusType DEF Edge, TypeOK
<1>2. CASE UNCHANGED vars
  BY <1>2 DEF vars, cpuVars, portVars, walkVars, busVars, TypeOK
<1>. QED BY <1>1, <1>2

(***************************************************************************)
(* No FSM leaves its states and no register its layout.                    *)
(***************************************************************************)
THEOREM TranslationTypes == Spec => []TypeOK
  BY InitType, TypeStep, PTL DEF Spec

-----------------------------------------------------------------------------
(***************************************************************************)
(* What the CPU and the debugger do to the access under way.               *)
(***************************************************************************)
LEMMA OneAccess ==
  ASSUME WritesWhileHalted, NEW p \in Port, NEW q \in Port,
         Accessing(p), Accessing(q)
  PROVE  p = q
  BY DEF WritesWhileHalted, Accessing, Port

LEMMA WritesStep ==
  ASSUME DebugOnlyHalted, WritesWhileHalted, Edge
  PROVE  WritesWhileHalted'
<1>. SUFFICES ASSUME writing' PROVE cpu' = "HALTED"
  BY DEF WritesWhileHalted
<1>1. cpu = "HALTED"
  BY DEF Edge, DebugStep, DebugOnlyHalted, WritesWhileHalted
<1>. QED
  BY <1>1 DEF Edge, CpuStep, CheckShouldHalt, Halted, Fetch, Decode, ExecuteMemory,
     ExecuteCsr, ExecuteMret, ExecutePlain, Jump, Goto

(* An access that is not acknowledged goes on as it is. *)
LEMMA AccessStays ==
  ASSUME WritesWhileHalted, ~BusError, Edge,
         NEW p \in Port, Accessing(p), ~PortAck(p)
  PROVE  /\ Accessing(p)' /\ PortAddr(p)' = PortAddr(p)
         /\ PortStore(p)' = PortStore(p)
         /\ TranslationOn' = TranslationOn /\ mode' = mode /\ satp' = satp
<1>. USE DEF Accessing, PortAddr, PortStore, TranslationOn
<1>1. mode' = mode
  BY DEF Edge, ModeStep, Raise, WritesWhileHalted
<1>2. CASE p = "debug"
  <2>1. writing /\ cpu = "HALTED"
    BY <1>2 DEF WritesWhileHalted
  <2>2. writing'
    BY <1>2, <2>1 DEF Edge, DebugStep
  <2>3. cpu' = "HALTED" /\ satp' = satp
    BY <2>1, <2>2 DEF Edge, CpuStep, CheckShouldHalt, Halted, Fetch, Decode, ExecuteMemory,
       ExecuteCsr, ExecuteMret, ExecutePlain, Jump, Goto
  <2>. QED BY <1>1, <1>2, <2>1, <2>2, <2>3
<1>3. CASE p = "dbus"
  <2>1. cpu = "EXECUTE" /\ instr.op \in {"load", "store"}
    BY <1>3
  <2>2. cpu' = "EXECUTE" /\ UNCHANGED <<pc, instr, satp>>
    BY <1>3, <2>1 DEF Edge, CpuStep, CheckShouldHalt, Halted, Fetch, Decode, ExecuteMemory,
       ExecuteCsr, ExecuteMret, ExecutePlain, Jump, Goto
  <2>. QED BY <1>1, <1>3, <2>1, <2>2
<1>4. CASE p = "ibus"
  <2>1. cpu = "FETCH"
    BY <1>4
  <2>2. cpu' = "FETCH" /\ UNCHANGED <<pc, instr, satp>>
    BY <1>4, <2>1 DEF Edge, CpuStep, CheckShouldHalt, Halted, Fetch, Decode, ExecuteMemory,
       ExecuteCsr, ExecuteMret, ExecutePlain, Jump, Goto
  <2>. QED BY <1>1, <1>4, <2>1, <2>2
<1>. QED BY <1>2, <1>3, <1>4 DEF Port

(* An access that is acknowledged is over, and no other begins at once. *)
LEMMA AccessEnds ==
  ASSUME DebugOnlyHalted, WritesWhileHalted, ~BusError, Edge,
         NEW p \in Port, Accessing(p), PortAck(p)
  PROVE  /\ \A q \in Port : ~Accessing(q)'
         /\ cpu' \in {"DECODE", "WRITEBACK", "HALTED"}
         /\ TranslationOn' = TranslationOn
<1>. USE DEF Accessing, TranslationOn
<1>1. mode' = mode
  BY DEF Edge, ModeStep, Raise, WritesWhileHalted
<1>2. CASE p = "debug"
  <2>1. writing /\ cpu = "HALTED"
    BY <1>2 DEF WritesWhileHalted
  <2>2. ~writing'
    BY <1>2, <2>1 DEF Edge, DebugStep
  <2>3. cpu' = "HALTED" /\ satp' = satp
    BY <2>1, <2>2 DEF Edge, CpuStep, CheckShouldHalt, Halted, Fetch, Decode, ExecuteMemory,
       ExecuteCsr, ExecuteMret, ExecutePlain, Jump, Goto
  <2>. QED BY <1>1, <2>2, <2>3
<1>3. CASE p = "dbus"
  <2>1. cpu = "EXECUTE" /\ instr.op \in {"load", "store"} /\ ~writing
    BY <1>3 DEF WritesWhileHalted
  <2>2. ~writing'
    BY <2>1 DEF Edge, DebugStep, DebugOnlyHalted
  <2>3. cpu' = "WRITEBACK" /\ satp' = satp
    BY <1>3, <2>1 DEF Edge, CpuStep, CheckShouldHalt, Halted, Fetch, Decode, ExecuteMemory,
       ExecuteCsr, ExecuteMret, ExecutePlain, Jump, Goto
  <2>. QED BY <1>1, <2>2, <2>3
<1>4. CASE p = "ibus"
  <2>1. cpu = "FETCH" /\ ~writing
    BY <1>4 DEF WritesWhileHalted
  <2>2. ~writing'
    BY <2>1 DEF Edge, DebugStep, DebugOnlyHalted
  <2>3. cpu' = "DECODE" /\ satp' = satp
    BY <1>4, <2>1 DEF Edge, CpuStep, CheckShouldHalt, Halted, Fetch, Decode, ExecuteMemory,
       ExecuteCsr, ExecuteMret, ExecutePlain, Jump, Goto
  <2>. QED BY <1>1, <2>2, <2>3
<1>. QED BY <1>2, <1>3, <1>4 DEF Port

-----------------------------------------------------------------------------
(***************************************************************************)
(* What the slaves do.                                                     *)
(***************************************************************************)
LEMMA OneSlave ==
  ASSUME TypeOK, NEW s \in Slave, NEW t \in Slave, Selected(s), Selected(t)
  PROVE  s = t
<1>1. BusAddr \in Address
  BY AddrTypes
<1>2. PageOf(BusAddr) \in Page
  BY <1>1 DEF Address, Page, PageOf
<1>. QED BY <1>2, MapAssumption DEF Selected

LEMMA SlaveFsm ==
  ASSUME TypeOK, Edge, NEW s \in Slave
  PROVE  slave'[s] = SlaveStep(s) /\ slave[s] \in {"REQ", "RET", "DONE"}
  BY DEF Edge, SlavesStep, TypeOK

(* A bus nobody drives leaves idle slaves idle. *)
LEMMA SlavesStayIdle ==
  ASSUME TypeOK, Edge, SlavesIdle, ~BusEn
  PROVE  SlavesIdle'
  BY SlaveFsm DEF SlavesIdle, SlaveStep, Cyc

(* With the acknowledge all slaves are idle again. *)
LEMMA SlavesAfterAck ==
  ASSUME TypeOK, Edge, SlavesServe, Ack
  PROVE  SlavesIdle'
<1>1. PICK t \in Slave : Selected(t) /\ slave[t] = "DONE"
  BY DEF Ack
<1>2. \A s \in Slave : slave'[s] = "REQ"
  <2>. TAKE s \in Slave
  <2>1. CASE s = t
    BY <1>1, <2>1, SlaveFsm DEF SlaveStep
  <2>2. CASE s # t
    <3>1. slave[s] = "REQ"
      BY <1>1, <2>2, OneSlave DEF SlavesServe
    <3>. QED BY <3>1, SlaveFsm DEF SlaveStep, Cyc
  <2>. QED BY <2>1, <2>2
<1>. QED BY <1>2 DEF SlavesIdle

(* Until then only the selected slave is at work. *)
LEMMA SlavesServeOn ==
  ASSUME TypeOK, Edge, SlavesServe, BusAddr' = BusAddr
  PROVE  SlavesServe'
<1>. SUFFICES ASSUME NEW s \in Slave, slave'[s] # "REQ" PROVE Selected(s)'
  BY DEF SlavesServe
<1>1. Selected(s)
  BY SlaveFsm DEF SlaveStep, SlavesServe
<1>. QED BY <1>1 DEF Selected

(* An access that a slave decodes is taken up, and not left alone. *)
LEMMA SlaveBusy ==
  ASSUME TypeOK, Edge, BusEn, ~Ack, ~BusError
  PROVE  \E s \in Slave : slave'[s] # "REQ"
<1>1. PageOf(BusAddr) \in Page
  BY AddrTypes DEF Address, Page, PageOf
<1>2. PICK s \in Slave : Selected(s)
  BY <1>1, MapAssumption DEF BusError, Cyc, Selected
<1>3. Cyc /\ slave[s] # "DONE"
  BY <1>2 DEF Cyc, Ack
<1>. QED BY <1>2, <1>3, SlaveFsm DEF SlaveStep

-----------------------------------------------------------------------------
(***************************************************************************)
(* From each phase of an access to the next; until the acknowledge the bus *)
(* stays with it.                                                          *)
(***************************************************************************)
KeepsBus == Owner' = Owner /\ BusAddr' = BusAddr /\ Walking' = Walking

LEMMA OneOwner ==
  ASSUME NEW p \in Port, granted = {p}
  PROVE  Owner = p /\ Owns(p) /\ \A q \in Port : Owns(q) => q = p
  BY DEF Owner, Owns, Port

LEMMA NextRequest ==
  ASSUME WritesWhileHalted, ~BusError, Edge, BusFree,
         NEW p \in Port, Accessing(p), ~PortAck(p)
  PROVE  Requested(p)'
<1>1. granted' = {p}
  BY OneAccess DEF Edge, LatchRequests
<1>2. Accessing(p)'
  BY AccessStays
<1>. QED BY <1>1, <1>2 DEF Requested

LEMMA FromNoAccess ==
  ASSUME TypeOK, WritesWhileHalted, ~BusError, Edge, NoAccess
  PROVE  NoAccess' \/ \E p \in Port : DirectAccess(p)' \/ Walk(p)'
<1>1. ~StartTranslation /\ ~BusEn /\ BusFree /\ \A p \in Port : ~PortAck(p)
  BY DEF NoAccess, StartTranslation, BusEn, BusFree, Walking, Connected, Owns, PortAck
<1>2. SlavesIdle'
  BY <1>1, SlavesStayIdle DEF NoAccess
<1>3. walker' = "IDLE"
  BY <1>1 DEF NoAccess, Edge, WalkStep, StartWalk, ReadPte, ProcessPte, NextLevel
<1>4. FsmsRest'
  BY DEF NoAccess, FsmsRest, Edge, PortFsms, Owns
<1>5. CASE \A p \in Port : ~Accessing(p)
  <2>1. granted' = {}
    BY <1>1, <1>5 DEF Edge, LatchRequests
  <2>. QED BY <2>1, <1>2, <1>3, <1>4 DEF NoAccess
<1>6. CASE \E p \in Port : Accessing(p)
  <2>1. PICK p \in Port : Accessing(p)
    BY <1>6
  <2>2. Requested(p)'
    BY <2>1, <1>1, NextRequest
  <2>3. SlavesServe'
    BY <1>2 DEF SlavesIdle, SlavesServe
  <2>. QED BY <2>2, <2>3, <1>2, <1>3, <1>4 DEF DirectAccess, Walk
<1>. QED BY <1>5, <1>6

LEMMA FromDirectAccess ==
  ASSUME DebugOnlyHalted, TypeOK, WritesWhileHalted, ~BusError, Edge,
         NEW p \in Port, DirectAccess(p)
  PROVE  /\ DirectAccess(p)' \/ Answered(p)'
         /\ ~Ack => KeepsBus
<1>1. /\ Owner = p /\ Connected(p) /\ ~Walking /\ BusEn
      /\ BusAddr = PortAddr(p) /\ ~BusFree /\ ~StartTranslation
  BY OneOwner DEF DirectAccess, Requested, Connected, Walking, BusEn, BusAddr, BusFree,
     StartTranslation
<1>2. granted' = {p}
  BY <1>1 DEF Edge, LatchRequests, DirectAccess, Requested
<1>3. walker' = "IDLE"
  BY <1>1 DEF DirectAccess, Edge, WalkStep, StartWalk, ReadPte, ProcessPte, NextLevel
<1>4. FsmsRest'
  BY DEF DirectAccess, FsmsRest, Edge, PortFsms
<1>5. CASE Ack
  <2>1. SlavesIdle'
    BY <1>5, SlavesAfterAck DEF DirectAccess
  <2>2. PortAck(p)
    BY <1>1, <1>5 DEF PortAck
  <2>3. /\ \A q \in Port : ~Accessing(q)'
        /\ cpu' \in {"DECODE", "WRITEBACK", "HALTED"}
        /\ ~TranslationOn'
    BY <2>2, AccessEnds DEF DirectAccess, Requested
  <2>. QED BY <2>1, <2>3, <1>2, <1>3, <1>4, <1>5 DEF Answered, FsmsRest, OthersRest
<1>6. CASE ~Ack
  <2>1. /\ Accessing(p)' /\ PortAddr(p)' = PortAddr(p) /\ ~TranslationOn'
    BY <1>6, AccessStays DEF PortAck, DirectAccess, Requested
  <2>2. Requested(p)'
    BY <2>1, <1>2 DEF Requested
  <2>3. (Owner = p /\ Owns(p))'
    BY <1>2 DEF Owner, Owns, Port
  <2>4. BusAddr' = BusAddr
    BY <1>1, <1>3, <2>1, <2>3 DEF BusAddr, Walking, Connected
  <2>5. SlavesServe'
    BY <2>4, SlavesServeOn DEF DirectAccess
  <2>6. KeepsBus
    BY <1>1, <1>3, <2>3, <2>4 DEF KeepsBus, Walking
  <2>. QED BY <2>1, <2>2, <2>5, <2>6, <1>3, <1>4 DEF DirectAccess
<1>. QED BY <1>5, <1>6

LEMMA FromTranslated ==
  ASSUME TypeOK, WritesWhileHalted, ~BusError, Edge,
         NEW p \in Port, Translated(p)
  PROVE  TranslatedAccess(p)' /\ KeepsBus
<1>1. /\ Owner = p /\ Connected(p) /\ ~Walking /\ BusEn
      /\ BusAddr = physAddr /\ BusFree /\ ~StartTranslation /\ ~Ack
  BY OneOwner DEF Translated, Requested, Connected, Walking, BusEn, BusAddr, BusFree,
     StartTranslation, Ack, SlavesIdle
<1>2. /\ Requested(p)' /\ TranslationOn'
  BY <1>1, NextRequest, AccessStays DEF Translated, Requested, PortAck
<1>3. walker' = "IDLE" /\ physAddr' = physAddr
  BY <1>1 DEF Translated, Edge, WalkStep, StartWalk, ReadPte, ProcessPte, NextLevel
<1>4. portFsm'[p] = "REQ" /\ OthersRest(p)'
  BY OneOwner DEF Translated, Requested, OthersRest, Edge, PortFsms, PortFsmStep
<1>5. (Owner = p /\ Owns(p))'
  BY <1>2 DEF Owner, Owns, Port, Requested
<1>6. BusAddr' = BusAddr
  BY <1>1, <1>2, <1>3, <1>4, <1>5 DEF BusAddr, Walking, Connected
<1>7. SlavesServe'
  BY <1>6, SlavesServeOn DEF Translated, SlavesIdle, SlavesServe
<1>8. \E s \in Slave : slave'[s] # "REQ"
  BY <1>1, SlaveBusy
<1>9. KeepsBus
  BY <1>1, <1>3, <1>5, <1>6 DEF KeepsBus, Walking
<1>. QED BY <1>2, <1>3, <1>4, <1>7, <1>8, <1>9 DEF TranslatedAccess

LEMMA FromTranslatedAccess ==
  ASSUME DebugOnlyHalted, TypeOK, WritesWhileHalted, ~BusError, Edge,
         NEW p \in Port, TranslatedAccess(p)
  PROVE  /\ TranslatedAccess(p)' \/ Answered(p)'
         /\ ~Ack => KeepsBus
<1>1. /\ Owner = p /\ Connected(p) /\ ~Walking /\ BusEn
      /\ BusAddr = physAddr /\ BusFree /\ ~StartTranslation
  BY OneOwner DEF TranslatedAccess, Requested, Connected, Walking, BusEn, BusAddr, BusFree,
     StartTranslation
<1>2. granted' = {p}
  BY <1>1, OneAccess DEF Edge, LatchRequests, TranslatedAccess, Requested
<1>3. walker' = "IDLE" /\ physAddr' = physAddr
  BY <1>1 DEF TranslatedAccess, Edge, WalkStep, StartWalk, ReadPte, ProcessPte, NextLevel
<1>4. portFsm'[p] = "REQ" /\ OthersRest(p)'
  BY <1>1, OneOwner DEF TranslatedAccess, Requested, OthersRest, Edge, PortFsms, PortFsmStep
<1>5. CASE Ack
  <2>1. SlavesIdle'
    BY <1>5, SlavesAfterAck DEF TranslatedAccess
  <2>2. PortAck(p)
    BY <1>1, <1>5 DEF PortAck
  <2>3. /\ \A q \in Port : ~Accessing(q)'
        /\ cpu' \in {"DECODE", "WRITEBACK", "HALTED"}
        /\ TranslationOn'
    BY <2>2, AccessEnds DEF TranslatedAccess, Requested
  <2>. QED BY <2>1, <2>3, <1>2, <1>3, <1>4, <1>5 DEF Answered
<1>6. CASE ~Ack
  <2>1. /\ Accessing(p)' /\ TranslationOn'
    BY <1>6, AccessStays DEF PortAck, TranslatedAccess, Requested
  <2>2. Requested(p)'
    BY <2>1, <1>2 DEF Requested
  <2>3. (Owner = p /\ Owns(p))'
    BY <1>2 DEF Owner, Owns, Port
  <2>4. BusAddr' = BusAddr
    BY <1>1, <1>3, <1>4, <2>1, <2>3 DEF BusAddr, Walking, Connected
  <2>5. SlavesServe'
    BY <2>4, SlavesServeOn DEF TranslatedAccess
  <2>6. \E s \in Slave : slave'[s] # "REQ"
    BY <1>1, <1>6, SlaveBusy
  <2>7. KeepsBus
    BY <1>1, <1>3, <2>3, <2>4 DEF KeepsBus, Walking
  <2>. QED BY <2>1, <2>2, <2>5, <2>6, <2>7, <1>3, <1>4 DEF TranslatedAccess
<1>. QED BY <1>5, <1>6

LEMMA FromAnswered ==
  ASSUME TypeOK, Edge, NEW p \in Port, Answered(p)
  PROVE  NoAccess'
<1>1. Owner = p /\ ~BusEn /\ ~StartTranslation /\ BusFree
  BY OneOwner DEF Answered, BusEn, Walking, StartTranslation, BusFree
<1>2. granted' = {}
  BY <1>1 DEF Answered, Edge, LatchRequests
<1>3. walker' = "IDLE"
  BY <1>1 DEF Answered, Edge, WalkStep, StartWalk, ReadPte, ProcessPte, NextLevel
<1>4. FsmsRest'
  <2>1. Owns(p) /\ \A q \in Port : Owns(q) => q = p
    BY OneOwner DEF Answered
  <2>2. \A q \in Port \ {p} : portFsm'[q] = "TRANSLATE"
    BY <2>1 DEF Answered, OthersRest, Edge, PortFsms
  <2>3. portFsm'[p] = "TRANSLATE"
    BY <1>1, <2>1 DEF Answered, Edge, PortFsms, PortFsmStep
  <2>. QED BY <2>2, <2>3 DEF FsmsRest
<1>5. SlavesIdle'
  BY <1>1, SlavesStayIdle DEF Answered
<1>. QED BY <1>2, <1>3, <1>4, <1>5 DEF NoAccess

(* A walk owns the bus whatever the CPU does, and reads its tables in peace. *)
LEMMA WalkGoesOn ==
  ASSUME TypeOK, WritesWhileHalted, ~BusError, Edge, NEW p \in Port, Walk(p)
  PROVE  /\ Requested(p)' /\ TranslationOn' /\ PortAddr(p)' = PortAddr(p)
         /\ satp' = satp /\ memory' = memory
         /\ StartTranslation /\ Owner = p /\ vreq'.addr = PortAddr(p)
         /\ BusEn <=> Walking
<1>1. /\ Owner = p /\ StartTranslation /\ ~BusFree /\ ~BusStore
      /\ \A q \in Port : ~Connected(q)
  BY OneOwner DEF Walk, Requested, StartTranslation, BusFree, BusStore, Connected, FsmsRest
<1>2. /\ Accessing(p)' /\ PortAddr(p)' = PortAddr(p) /\ TranslationOn' /\ satp' = satp
  BY <1>1, AccessStays DEF Walk, Requested, PortAck
<1>3. granted' = {p}
  BY <1>1 DEF Edge, LatchRequests, Walk, Requested
<1>4. memory' = memory
  BY <1>1 DEF Edge, SlavesStep
<1>5. vreq'.addr = PortAddr(p)
  BY <1>1 DEF Edge, LatchVirtualRequest
<1>6. BusEn <=> Walking
  BY <1>1 DEF BusEn
<1>. QED BY <1>1, <1>2, <1>3, <1>4, <1>5, <1>6 DEF Requested

LEMMA FsmsRestInWalk ==
  ASSUME Edge, NEW p \in Port, Walk(p), ~TranslationAck
  PROVE  FsmsRest'
  BY DEF Walk, FsmsRest, Edge, PortFsms, PortFsmStep

LEMMA FromWalkIdle ==
  ASSUME TypeOK, WritesWhileHalted, ~BusError, Edge,
         NEW p \in Port, Walk(p), walker = "IDLE"
  PROVE  Walk(p)'
<1>1. walker' = "TRANSLATE" /\ level' = 1 /\ rootPpn' = satp'.ppn
  BY WalkGoesOn DEF Edge, WalkStep, StartWalk, ReadPte, ProcessPte, NextLevel
<1>2. SlavesIdle'
  BY SlavesStayIdle, WalkGoesOn DEF Walk, Walking
<1>3. WalkReads'
  BY <1>1, <1>2 DEF WalkReads, SlavesIdle, SlavesServe
<1>4. FsmsRest'
  BY FsmsRestInWalk DEF TranslationAck
<1>. QED BY <1>1, <1>3, <1>4, WalkGoesOn DEF Walk

LEMMA FromWalkRead ==
  ASSUME TypeOK, WritesWhileHalted, ~BusError, Edge,
         NEW p \in Port, Walk(p), walker = "TRANSLATE"
  PROVE  Walk(p)' /\ (~Ack => KeepsBus)
<1>1. /\ WalkReads /\ Walking /\ BusEn
      /\ vreq.addr = PortAddr(p) /\ vreq'.addr = vreq.addr
      /\ BusAddr = <<rootPpn[1], rootPpn[2], Vpn>>
  BY WalkGoesOn DEF Walk, Walking, BusEn, BusAddr
<1>2. FsmsRest'
  BY FsmsRestInWalk DEF TranslationAck
<1>3. ReadPte
  BY DEF Edge, WalkStep, StartWalk, ReadPte, ProcessPte, NextLevel
<1>4. CASE Ack
  <2>1. PICK s \in Slave : Selected(s) /\ slave[s] = "DONE"
    BY <1>4 DEF Ack
  <2>2. PICK t \in Slave : Selected(t) /\ pte' = readData[t] /\ walker' = "PROCESS_PTE"
    BY <1>3, <1>4 DEF ReadPte
  <2>3. pte' = memory[BusAddr] /\ level' = level
    BY <1>1, <1>3, <2>1, <2>2, OneSlave DEF WalkReads, ReadPte
  <2>4. SlavesIdle'
    BY <1>1, <1>4, SlavesAfterAck DEF WalkReads
  <2>5. WalkHasRead'
    <3>1. CASE level = 1
      BY <1>1, <2>3, <2>4, <3>1, WalkGoesOn
      DEF WalkReads, WalkHasRead, RootEntry, EntryAt, Vpn
    <3>2. CASE level = 0
      BY <1>1, <2>3, <2>4, <3>2, WalkGoesOn
      DEF WalkReads, WalkHasRead, LastEntry, RootEntry, EntryAt, Vpn
    <3>. QED BY <3>1, <3>2 DEF TypeOK
  <2>. QED BY <1>2, <1>4, <2>2, <2>5, WalkGoesOn DEF Walk
<1>5. CASE ~Ack
  <2>1. /\ walker' = "TRANSLATE" /\ level' = level /\ rootPpn' = rootPpn
    BY <1>3, <1>5 DEF ReadPte
  <2>2. BusAddr' = BusAddr
    BY <1>1, <2>1 DEF BusAddr, Walking, Vpn
  <2>3. SlavesServe'
    BY <1>1, <2>2, SlavesServeOn DEF WalkReads
  <2>4. Cyc
    BY <1>1, <1>5 DEF Cyc
  <2>5. \A s \in Slave : ~LeftAlone(s)
    BY <1>1, <2>4 DEF LeftAlone, WalkReads, SlavesServe
  <2>6. ASSUME NEW s \in Slave, slave'[s] # "REQ"
        PROVE  readData'[s] = memory'[BusAddr']
    <3>1. slave[s] # "REQ" => readData[s] = memory[BusAddr]
      BY <1>1 DEF WalkReads
    <3>2. slave[s] = "REQ" => Requests(s)
      BY <2>6, SlaveFsm DEF SlaveStep, Requests
    <3>3. readData'[s] = IF Requests(s) THEN memory[BusAddr] ELSE readData[s]
      BY <2>5 DEF Edge, SlavesStep
    <3>. QED BY <2>2, <3>1, <3>2, <3>3, WalkGoesOn
  <2>7. WalkReads'
    BY <1>1, <2>1, <2>3, <2>6, WalkGoesOn DEF WalkReads, RootEntry, EntryAt
  <2>8. Owner' = Owner
    BY WalkGoesOn DEF Owner, Requested, Port
  <2>. QED BY <1>1, <1>2, <2>1, <2>2, <2>7, <2>8, WalkGoesOn DEF Walk, KeepsBus, Walking
<1>. QED BY <1>4, <1>5

LEMMA FromWalkProcess ==
  ASSUME TypeOK, WritesWhileHalted, ~BusError, TwoLevelTables, Edge,
         NEW p \in Port, Walk(p), walker = "PROCESS_PTE"
  PROVE  Walk(p)'
<1>1. /\ WalkHasRead /\ vreq.addr = PortAddr(p) /\ vreq'.addr = vreq.addr
  BY WalkGoesOn DEF Walk
<1>2. FsmsRest'
  BY FsmsRestInWalk DEF TranslationAck
<1>3. ProcessPte
  BY DEF Edge, WalkStep, StartWalk, ReadPte, ProcessPte, NextLevel
<1>4. SlavesIdle'
  BY <1>1, SlavesStayIdle, WalkGoesOn DEF WalkHasRead, Walking
<1>5. walker' = "NEXT" /\ pte' = pte /\ level' = level
  BY <1>3 DEF ProcessPte
<1>6. vreq.addr \in Address
  BY DEF TypeOK
<1>7. ~IsLeaf(RootEntry(vreq.addr)) /\ IsLeaf(LastEntry(vreq.addr))
  BY <1>6 DEF TwoLevelTables, Walk
<1>8. WalkHasRead'
  BY <1>1, <1>4, <1>5, WalkGoesOn DEF WalkHasRead, LastEntry, RootEntry, EntryAt
<1>9. level = 1 => rootPpn' = pte'.ppn
  BY <1>1, <1>3, <1>5, <1>7 DEF WalkHasRead, ProcessPte
<1>10. level = 0 => physAddr' = Sv32(vreq.addr)
  BY <1>1, <1>3, <1>7 DEF WalkHasRead, ProcessPte, Sv32
<1>11. Sv32(vreq.addr)' = Sv32(vreq.addr)
  BY <1>1, WalkGoesOn DEF Sv32, LastEntry, RootEntry, EntryAt
<1>12. WalkHasUsed'
  BY <1>5, <1>8, <1>9, <1>10, <1>11 DEF WalkHasUsed
<1>. QED BY <1>1, <1>2, <1>5, <1>12, WalkGoesOn DEF Walk

LEMMA FromWalkNext ==
  ASSUME TypeOK, WritesWhileHalted, ~BusError, TwoLevelTables, Edge,
         NEW p \in Port, Walk(p), walker = "NEXT"
  PROVE  Walk(p)' \/ Translated(p)'
<1>1. /\ WalkHasUsed /\ WalkHasRead
      /\ vreq.addr = PortAddr(p) /\ vreq'.addr = vreq.addr
  BY WalkGoesOn DEF Walk, WalkHasUsed
<1>2. NextLevel
  BY DEF Edge, WalkStep, StartWalk, ReadPte, ProcessPte, NextLevel
<1>3. SlavesIdle'
  BY <1>1, SlavesStayIdle, WalkGoesOn DEF WalkHasRead, Walking
<1>4. vreq.addr \in Address
  BY DEF TypeOK
<1>5. ~IsLeaf(RootEntry(vreq.addr)) /\ IsLeaf(LastEntry(vreq.addr))
  BY <1>4 DEF TwoLevelTables, Walk
<1>6. CASE level = 1
  <2>1. ~IsLeaf(pte)
    BY <1>1, <1>5, <1>6 DEF WalkHasRead
  <2>2. walker' = "TRANSLATE" /\ level' = 0 /\ rootPpn' = RootEntry(vreq.addr).ppn
    BY <1>1, <1>2, <1>6, <2>1 DEF NextLevel, WalkHasUsed, WalkHasRead
  <2>3. FsmsRest'
    BY <2>1, FsmsRestInWalk DEF TranslationAck
  <2>4. RootEntry(vreq.addr)' = RootEntry(vreq.addr)
    BY <1>1, WalkGoesOn DEF RootEntry, EntryAt
  <2>5. WalkReads'
    BY <1>3, <2>2, <2>4 DEF WalkReads, SlavesIdle, SlavesServe
  <2>. QED BY <1>1, <2>2, <2>3, <2>5, WalkGoesOn DEF Walk
<1>7. CASE level = 0
  <2>1. IsLeaf(pte)
    BY <1>1, <1>5, <1>7 DEF WalkHasRead
  <2>2. walker' = "IDLE" /\ physAddr' = Sv32(vreq.addr)
    BY <1>1, <1>2, <1>7, <2>1 DEF NextLevel, WalkHasUsed
  <2>3. portFsm'[p] = "FIRST" /\ OthersRest(p)'
    BY <2>1, OneOwner DEF Walk, Requested, FsmsRest, OthersRest, TranslationAck, Edge, PortFsms,
       PortFsmStep
  <2>4. Sv32(PortAddr(p))' = Sv32(vreq.addr)
    BY <1>1, WalkGoesOn DEF Sv32, LastEntry, RootEntry, EntryAt
  <2>. QED BY <1>1, <1>3, <2>2, <2>3, <2>4, WalkGoesOn DEF Translated
<1>. QED BY <1>6, <1>7 DEF TypeOK

LEMMA FromWalk ==
  ASSUME TypeOK, WritesWhileHalted, ~BusError, TwoLevelTables, Edge,
         NEW p \in Port, Walk(p)
  PROVE  Walk(p)' \/ Translated(p)'
  BY FromWalkIdle, FromWalkRead, FromWalkProcess, FromWalkNext DEF TypeOK

-----------------------------------------------------------------------------
IInv == TypeOK /\ AccessPhases

LEMMA InitPhases == Init => IInv
<1>. SUFFICES ASSUME Init PROVE AccessPhases
  BY InitType DEF IInv
<1>1. WritesWhileHalted
  BY DEF Init, WritesWhileHalted
<1>2. NoAccess
  BY DEF Init, NoAccess, FsmsRest, SlavesIdle
<1>. QED BY <1>1, <1>2 DEF AccessPhases

LEMMA PhasesStutter ==
  ASSUME UNCHANGED vars, AccessPhases
  PROVE  AccessPhases'
<1>. USE DEF vars, cpuVars, portVars, walkVars, busVars
<1>1. /\ \A p : (Accessing(p)' <=> Accessing(p)) /\ PortAddr(p)' = PortAddr(p)
      /\ TranslationOn' <=> TranslationOn
  BY DEF Accessing, PortAddr, TranslationOn
<1>2. BusAddr' = BusAddr
  BY <1>1 DEF BusAddr, Walking, Vpn, Connected, Owner, Owns
<1>3. \A s : Selected(s)' <=> Selected(s)
  BY <1>2 DEF Selected
<1>4. \A a : /\ RootEntry(a)' = RootEntry(a) /\ LastEntry(a)' = LastEntry(a)
             /\ Sv32(a)' = Sv32(a)
  BY DEF RootEntry, LastEntry, EntryAt, Sv32
<1>5. WritesWhileHalted'
  BY DEF AccessPhases, WritesWhileHalted
<1>6. NoAccess => NoAccess'
  BY DEF NoAccess, FsmsRest, SlavesIdle
<1>7. SlavesServe => SlavesServe'
  BY <1>3 DEF SlavesServe
<1>8. ASSUME NEW p PROVE DirectAccess(p) => DirectAccess(p)'
  BY <1>1, <1>7 DEF DirectAccess, Requested, FsmsRest
<1>9. WalkReads => WalkReads'
  BY <1>2, <1>4, <1>7 DEF WalkReads
<1>10. (WalkHasRead => WalkHasRead') /\ (WalkHasUsed => WalkHasUsed')
  BY <1>4 DEF WalkHasRead, WalkHasUsed, SlavesIdle
<1>11. ASSUME NEW p PROVE Walk(p) => Walk(p)'
  BY <1>1, <1>9, <1>10 DEF Walk, Requested, FsmsRest, SlavesIdle
<1>12. ASSUME NEW p PROVE Translated(p) => Translated(p)'
  BY <1>1, <1>4 DEF Translated, Requested, OthersRest, SlavesIdle
<1>13. ASSUME NEW p PROVE TranslatedAccess(p) => TranslatedAccess(p)'
  BY <1>1, <1>7 DEF TranslatedAccess, Requested, OthersRest
<1>14. ASSUME NEW p PROVE Answered(p) => Answered(p)'
  BY <1>1 DEF Answered, OthersRest, SlavesIdle
<1>. QED BY <1>5, <1>6, <1>8, <1>11, <1>12, <1>13, <1>14 DEF AccessPhases

LEMMA PhaseStep ==
  ASSUME DebugOnlyHalted
  PROVE  IInv /\ SoundTables /\ [Edge]_vars => IInv'
<1>. SUFFICES ASSUME IInv, SoundTables, [Edge]_vars PROVE IInv'
  OBVIOUS
<1>1. TypeOK'
  BY TypeStep DEF IInv
<1>2. CASE Edge
  <2>. SUFFICES AccessPhases'
    BY <1>1 DEF IInv
  <2>. USE <1>2 DEF IInv, SoundTables
  <2>1. WritesWhileHalted'
    BY WritesStep DEF AccessPhases
  <2>2. CASE NoAccess
    BY <2>1, <2>2, FromNoAccess DEF AccessPhases
  <2>3. CASE \E p \in Port : \/ DirectAccess(p) \/ Walk(p) \/ Translated(p)
                             \/ TranslatedAccess(p) \/ Answered(p)
    <3>1. PICK p \in Port : \/ DirectAccess(p) \/ Walk(p) \/ Translated(p)
                            \/ TranslatedAccess(p) \/ Answered(p)
      BY <2>3
    <3>2. CASE DirectAccess(p)
      BY <2>1, <3>2, FromDirectAccess DEF AccessPhases
    <3>3. CASE Walk(p)
      BY <2>1, <3>3, FromWalk DEF AccessPhases
    <3>4. CASE Translated(p)
      BY <2>1, <3>4, FromTranslated DEF AccessPhases
    <3>5. CASE TranslatedAccess(p)
      BY <2>1, <3>5, FromTranslatedAccess DEF AccessPhases
    <3>6. CASE Answered(p)
      BY <2>1, <3>6, FromAnswered DEF AccessPhases
    <3>. QED BY <3>1, <3>2, <3>3, <3>4, <3>5, <3>6
  <2>. QED BY <2>2, <2>3 DEF AccessPhases
<1>3. CASE UNCHANGED vars
  <2>1. AccessPhases'
    BY <1>3, PhasesStutter DEF IInv
  <2>. QED BY <1>1, <2>1 DEF IInv
<1>. QED BY <1>2, <1>3

(***************************************************************************)
(* While every access finds a slave and every walk a table of two levels,  *)
(* the accesses of the CPU and of the debugger follow one another in their *)
(* phases: no two are under way at once, none is left half done.           *)
(***************************************************************************)
THEOREM PhasesFollow ==
  ASSUME DebugOnlyHalted
  PROVE  Spec /\ []SoundTables => []AccessPhases
<1>1. Init => IInv
  BY InitPhases
<1>2. IInv /\ SoundTables /\ [Edge]_vars => IInv'
  BY PhaseStep
<1>3. IInv => AccessPhases
  BY DEF IInv
<1>. QED BY <1>1, <1>2, <1>3, PTL DEF Spec

-----------------------------------------------------------------------------
(***************************************************************************)
(* What the phases promise of the bus.                                     *)
(***************************************************************************)
LEMMA QuietBus ==
  ASSUME NEW s \in Slave, TakesRequest(s)
  PROVE  /\ ~NoAccess
         /\ \A p \in Port : ~Walk(p) /\ ~Answered(p)
<1>1. Cyc /\ ~Walking
  BY DEF TakesRequest, Requests
<1>2. PICK q \in Port : Connected(q) /\ Accessing(q)
  BY <1>1 DEF Cyc, BusEn
<1>. QED BY <1>2 DEF NoAccess, Walk, Answered, Connected, Owns, Requested, FsmsRest

LEMMA TakenWhen ==
  ASSUME IInv, NEW s \in Slave, TakesRequest(s)
  PROVE  \/ DirectAccess(Owner) /\ BusAddr = PortAddr(Owner)
         \/ Translated(Owner) /\ BusAddr = Sv32(PortAddr(Owner))
<1>1. PICK p \in Port : DirectAccess(p) \/ Translated(p) \/ TranslatedAccess(p)
  BY QuietBus DEF IInv, AccessPhases
<1>2. Owner = p /\ Owns(p)
  BY <1>1, OneOwner DEF DirectAccess, Translated, TranslatedAccess, Requested
<1>3. ~Walking /\ Selected(s) /\ slave[s] = "REQ"
  BY DEF TakesRequest, Requests
<1>4. ~TranslatedAccess(p)
  BY <1>3, OneSlave DEF IInv, TranslatedAccess, SlavesServe
<1>5. CASE DirectAccess(p)
  BY <1>2, <1>3, <1>5 DEF DirectAccess, BusAddr, Connected
<1>6. CASE Translated(p)
  BY <1>2, <1>3, <1>6 DEF Translated, BusAddr, Connected
<1>. QED BY <1>1, <1>2, <1>4, <1>5, <1>6

LEMMA PhasesPromise ==
  ASSUME IInv
  PROVE  AccessAtTranslation /\ NoRequestLeftBehind
<1>1. AccessAtTranslation
  BY TakenWhen DEF AccessAtTranslation, TakesVirtual, DirectAccess
<1>2. ASSUME NEW p \in Port, portFsm[p] # "TRANSLATE"
      PROVE  TranslationOn /\ Owns(p)
  <2>1. ~NoAccess
    BY <1>2 DEF NoAccess, FsmsRest
  <2>2. PICK q \in Port : \/ DirectAccess(q) \/ Walk(q) \/ Translated(q)
                          \/ TranslatedAccess(q) \/ Answered(q)
    BY <2>1 DEF IInv, AccessPhases
  <2>3. p = q /\ TranslationOn /\ granted = {q}
    BY <1>2, <2>2 DEF DirectAccess, Walk, Translated, TranslatedAccess, Answered, FsmsRest,
       OthersRest, Requested
  <2>. QED BY <2>3, OneOwner
<1>3. NoRequestLeftBehind
  BY <1>2 DEF NoRequestLeftBehind
<1>. QED BY <1>1, <1>3

(***************************************************************************)
(* Under the same conditions a user-mode access reaches a slave at the     *)
(* address the page tables give for it at that moment, a write of the      *)
(* debugger to a hart that halted in user mode included,                   *)
(***************************************************************************)
THEOREM TranslationIsCorrect ==
  ASSUME DebugOnlyHalted
  PROVE  Spec /\ []SoundTables => []AccessAtTranslation
<1>1. IInv => AccessAtTranslation
  BY PhasesPromise
<1>. QED BY <1>1, InitPhases, PhaseStep, PTL DEF Spec

(* and no port takes the state of an earlier access for that of its own. *)
THEOREM RequestsEnd ==
  ASSUME DebugOnlyHalted
  PROVE  Spec /\ []SoundTables => []NoRequestLeftBehind
<1>1. IInv => NoRequestLeftBehind
  BY PhasesPromise
<1>. QED BY <1>1, InitPhases, PhaseStep, PTL DEF Spec

(* A slave at work is what the acknowledge is still missing for. *)
LEMMA NoAckYet ==
  ASSUME TypeOK, NEW s \in Slave, Requests(s) \/ slave[s] = "RET", SlavesServe
  PROVE  ~Ack
<1>1. CASE Requests(s)
  BY <1>1 DEF Requests, Cyc
<1>2. CASE slave[s] = "RET"
  <2>1. Selected(s)
    BY <1>2 DEF SlavesServe
  <2>. QED BY <1>2, <2>1, OneSlave DEF Ack
<1>. QED BY <1>1, <1>2

LEMMA BusIsKept ==
  ASSUME DebugOnlyHalted, IInv, SoundTables, Edge,
         NEW s \in Slave, Requests(s) \/ slave[s] = "RET"
  PROVE  KeepsBus
<1>. USE DEF IInv, SoundTables
<1>1. WritesWhileHalted
  BY DEF AccessPhases
<1>2. BusEn \/ ~SlavesIdle
  BY DEF Requests, Cyc, SlavesIdle
<1>3. ~NoAccess
  BY <1>2 DEF NoAccess, BusEn, Walking, Connected, Owns
<1>4. \A p \in Port : ~Answered(p)
  BY <1>2 DEF Answered, BusEn, Walking
<1>5. PICK p \in Port : DirectAccess(p) \/ Walk(p) \/ Translated(p) \/ TranslatedAccess(p)
  BY <1>3, <1>4 DEF AccessPhases
<1>6. CASE DirectAccess(p)
  <2>1. ~Ack
    BY <1>6, NoAckYet DEF DirectAccess
  <2>. QED BY <1>1, <1>6, <2>1, FromDirectAccess
<1>7. CASE Walk(p)
  <2>1. walker = "TRANSLATE"
    <3>1. ~SlavesIdle \/ Walking
      BY <1>1, <1>2, <1>7, WalkGoesOn
    <3>. QED BY <1>7, <3>1 DEF TypeOK, Walk, Walking, WalkHasRead, WalkHasUsed
  <2>2. ~Ack
    BY <1>7, <2>1, NoAckYet DEF Walk, WalkReads
  <2>. QED BY <1>1, <1>7, <2>1, <2>2, FromWalkRead
<1>8. CASE Translated(p)
  BY <1>1, <1>8, FromTranslated
<1>9. CASE TranslatedAccess(p)
  <2>1. ~Ack
    BY <1>9, NoAckYet DEF TranslatedAccess
  <2>. QED BY <1>1, <1>9, <2>1, FromTranslatedAccess
<1>. QED BY <1>5, <1>6, <1>7, <1>8, <1>9

(* Nothing takes the bus from an access that a slave has begun. *)
THEOREM BusIsNotTaken ==
  ASSUME DebugOnlyHalted
  PROVE  Spec /\ []SoundTables => AccessNotInterrupted
<1>1. IInv /\ SoundTables /\ [Edge]_vars =>
        [\A s \in Slave : Requests(s) \/ slave[s] = "RET" =>
            /\ Owner' = Owner /\ BusAddr' = BusAddr
            /\ Walking' = Walking]_vars
  <2>. SUFFICES ASSUME IInv, SoundTables, Edge,
                       NEW s \in Slave, Requests(s) \/ slave[s] = "RET"
                PROVE  Owner' = Owner /\ BusAddr' = BusAddr /\ Walking' = Walking
    OBVIOUS
  <2>1. KeepsBus
    BY BusIsKept
  <2>. QED BY <2>1 DEF KeepsBus
<1>. QED BY <1>1, InitPhases, PhaseStep, PTL DEF Spec, AccessNotInterrupted

-----------------------------------------------------------------------------
(***************************************************************************)
(* Cycles until the access under way is acknowledged, counted from the     *)
(* states of the arbiter, the walker and the slaves alone.                 *)
(***************************************************************************)
SlaveLeft ==
    IF \E s \in Slave : slave[s] = "DONE" THEN 0
    ELSE IF \E s \in Slave : slave[s] = "RET" THEN 1 ELSE 2

WalkLeft ==
    IF walker = "IDLE" THEN 13
    ELSE (IF level = 1 THEN 5 ELSE 0)
           + (IF walker = "TRANSLATE" THEN 5 + SlaveLeft
              ELSE IF walker = "PROCESS_PTE" THEN 4 ELSE 3)

AccessLeft ==
    IF granted = {} THEN (IF TranslationOn THEN 14 ELSE 3)
    ELSE IF StartTranslation THEN WalkLeft ELSE SlaveLeft


(* Where the count stands in each phase. *)
LEMMA LeftInPhase ==
  ASSUME NEW p \in Port
  PROVE  /\ NoAccess => ~PortAck(p) /\ AccessLeft = IF TranslationOn THEN 14 ELSE 3
         /\ Walk(p) => ~PortAck(p) /\ AccessLeft = WalkLeft
         /\ DirectAccess(p) \/ Translated(p) \/ TranslatedAccess(p) =>
              /\ PortAck(p) <=> Ack
              /\ AccessLeft = SlaveLeft
<1>1. CASE NoAccess
  BY <1>1 DEF NoAccess, PortAck, Connected, Owns, AccessLeft, DirectAccess, Translated,
     TranslatedAccess, Walk, Requested
<1>2. CASE Walk(p)
  <2>1. StartTranslation /\ ~Connected(p) /\ granted # {}
    BY <1>2, OneOwner DEF Walk, Requested, FsmsRest, StartTranslation, Connected
  <2>2. ~Translated(p) /\ ~TranslatedAccess(p) /\ ~DirectAccess(p)
    BY <1>2 DEF Walk, FsmsRest, Translated, TranslatedAccess, DirectAccess
  <2>. QED BY <2>1, <2>2 DEF AccessLeft, PortAck, NoAccess
<1>3. CASE DirectAccess(p) \/ Translated(p) \/ TranslatedAccess(p)
  <2>1. ~StartTranslation /\ Connected(p) /\ granted # {} /\ ~Walk(p)
    BY <1>3, OneOwner DEF DirectAccess, Translated, TranslatedAccess, Requested,
       StartTranslation, Connected, Walk, FsmsRest
  <2>. QED BY <2>1 DEF AccessLeft, PortAck, NoAccess
<1>. QED BY <1>1, <1>2, <1>3

LEMMA SlaveLeftRange ==
  ASSUME TypeOK
  PROVE  /\ SlaveLeft \in 0..2
         /\ Ack => SlaveLeft = 0
         /\ SlavesServe /\ SlaveLeft = 0 => Ack
         /\ SlavesIdle => SlaveLeft = 2
  BY DEF SlaveLeft, Ack, SlavesServe, SlavesIdle

LEMMA WalkLeftRange ==
  ASSUME TypeOK
  PROVE  WalkLeft \in 3..13
<1>1. WalkLeft \in {3, 4, 5, 6, 7, 8, 9, 10, 11, 12, 13}
  <2>1. SlaveLeft \in {0, 1, 2}
    BY SlaveLeftRange
  <2>. QED BY <2>1 DEF WalkLeft, TypeOK
<1>. QED BY <1>1

(* The selected slave takes a step with every cycle. *)
LEMMA SlaveComesNearer ==
  ASSUME TypeOK, SlavesServe, Edge, BusEn, ~Ack, ~BusError
  PROVE  SlaveLeft' = SlaveLeft - 1
<1>1. PageOf(BusAddr) \in Page
  BY AddrTypes DEF Address, Page, PageOf
<1>2. PICK t \in Slave : Selected(t)
  BY <1>1, MapAssumption DEF BusError, Cyc, Selected
<1>3. slave[t] \in {"REQ", "RET"} /\ Cyc
  BY <1>2, SlaveFsm DEF Ack, Cyc
<1>4. ASSUME NEW s \in Slave, s # t PROVE slave[s] = "REQ" /\ slave'[s] = "REQ"
  <2>1. ~Selected(s) /\ slave[s] = "REQ"
    BY <1>2, <1>4, OneSlave DEF SlavesServe
  <2>. QED BY <2>1, SlaveFsm DEF SlaveStep
<1>5. slave'[t] = IF slave[t] = "REQ" THEN "RET" ELSE "DONE"
  BY <1>2, <1>3, SlaveFsm DEF SlaveStep
<1>6. CASE slave[t] = "REQ"
  <2>1. SlaveLeft = 2
    BY <1>4, <1>6 DEF SlaveLeft
  <2>2. SlaveLeft' = 1
    BY <1>4, <1>5, <1>6 DEF SlaveLeft
  <2>. QED BY <2>1, <2>2
<1>7. CASE slave[t] = "RET"
  <2>1. SlaveLeft = 1
    BY <1>4, <1>7 DEF SlaveLeft
  <2>2. SlaveLeft' = 0
    BY <1>5, <1>7 DEF SlaveLeft
  <2>. QED BY <2>1, <2>2
<1>. QED BY <1>3, <1>6, <1>7

LEMMA NearerFromNoAccess ==
  ASSUME TypeOK, WritesWhileHalted, ~BusError, Edge, NoAccess,
         NEW p \in Port, Accessing(p)
  PROVE  AccessLeft' = AccessLeft - 1
<1>1. ~StartTranslation /\ ~BusEn /\ BusFree /\ ~PortAck(p)
  BY DEF NoAccess, StartTranslation, BusEn, BusFree, Walking, Connected, Owns, PortAck
<1>2. SlavesIdle' /\ TypeOK'
  BY <1>1, SlavesStayIdle, TypeStep DEF NoAccess
<1>3. Requested(p)' /\ (TranslationOn' <=> TranslationOn)
  BY <1>1, NextRequest, AccessStays
<1>4. SlaveLeft' = 2
  BY <1>2 DEF SlaveLeft, SlavesIdle
<1>5. walker' = "IDLE" /\ FsmsRest'
  BY <1>1 DEF NoAccess, FsmsRest, Edge, PortFsms, Owns, WalkStep, StartWalk, ReadPte,
     ProcessPte, NextLevel
<1>6. (Owner = p)'
  BY <1>3 DEF Owner, Requested, Port
<1>7. granted' # {}
  BY <1>3 DEF Requested
<1>8. CASE TranslationOn
  <2>1. StartTranslation'
    BY <1>3, <1>5, <1>6, <1>7, <1>8 DEF StartTranslation, FsmsRest
  <2>2. AccessLeft' = 13
    BY <1>5, <1>7, <2>1 DEF AccessLeft, WalkLeft
  <2>3. AccessLeft = 14
    BY <1>8, LeftInPhase
  <2>. QED BY <2>2, <2>3
<1>9. CASE ~TranslationOn
  <2>1. AccessLeft' = 2
    BY <1>3, <1>4, <1>7, <1>9 DEF AccessLeft, StartTranslation
  <2>2. AccessLeft = 3
    BY <1>9, LeftInPhase
  <2>. QED BY <2>1, <2>2
<1>. QED BY <1>8, <1>9

(* With the bus in the hands of the access, the slave alone counts. *)
LEMMA NearerOnBus ==
  ASSUME TypeOK, WritesWhileHalted, ~BusError, DebugOnlyHalted, Edge, NEW p \in Port,
         DirectAccess(p) \/ Translated(p) \/ TranslatedAccess(p), ~Ack
  PROVE  AccessLeft' = AccessLeft - 1
<1>1. Accessing(p)'
  BY AccessStays DEF PortAck, DirectAccess, Translated, TranslatedAccess, Requested
<1>2. (DirectAccess(p) \/ Translated(p) \/ TranslatedAccess(p))'
  BY <1>1, FromDirectAccess, FromTranslated, FromTranslatedAccess DEF Answered
<1>3. AccessLeft = SlaveLeft
  BY LeftInPhase
<1>4. AccessLeft' = SlaveLeft'
  <2>1. (~StartTranslation)' /\ granted' # {}
    BY <1>2 DEF DirectAccess, Translated, TranslatedAccess, Requested, StartTranslation, Owner,
       Port
  <2>. QED BY <2>1 DEF AccessLeft
<1>5. SlavesServe /\ BusEn
  BY OneOwner DEF DirectAccess, Translated, TranslatedAccess, SlavesIdle, SlavesServe, BusEn,
     Requested, Connected
<1>. QED BY <1>3, <1>4, <1>5, SlaveComesNearer

LEMMA NearerFromWalk ==
  ASSUME TypeOK, WritesWhileHalted, ~BusError, TwoLevelTables, Edge,
         NEW p \in Port, Walk(p)
  PROVE  AccessLeft' = AccessLeft - 1
<1>1. AccessLeft = WalkLeft
  BY LeftInPhase
<1>2. TypeOK'
  BY TypeStep
<1>3. Walk(p)' => AccessLeft' = WalkLeft'
  <2>. SUFFICES ASSUME Walk(p)' PROVE AccessLeft' = WalkLeft'
    OBVIOUS
  <2>1. StartTranslation' /\ granted' # {}
    BY DEF Walk, Requested, FsmsRest, StartTranslation, Owner, Port
  <2>. QED BY <2>1 DEF AccessLeft
<1>4. CASE walker = "IDLE"
  <2>1. walker' = "TRANSLATE" /\ level' = 1
    BY <1>4, WalkGoesOn DEF Edge, WalkStep, StartWalk, ReadPte, ProcessPte, NextLevel
  <2>2. SlavesIdle'
    BY <1>4, SlavesStayIdle, WalkGoesOn DEF Walk, Walking
  <2>3. SlaveLeft' = 2
    BY <2>2 DEF SlaveLeft, SlavesIdle
  <2>4. WalkLeft = 13
    BY <1>4 DEF WalkLeft
  <2>5. WalkLeft' = 12
    BY <2>1, <2>3 DEF WalkLeft
  <2>. QED BY <1>1, <1>3, <1>4, <2>4, <2>5, FromWalkIdle
<1>5. CASE walker = "TRANSLATE"
  <2>1. ReadPte /\ WalkReads /\ BusEn
    BY <1>5, WalkGoesOn DEF Walk, Walking, Edge, WalkStep, StartWalk, ReadPte, ProcessPte,
       NextLevel
  <2>2. Walk(p)'
    BY <1>5, FromWalkRead
  <2>3. CASE Ack
    <3>1. SlaveLeft = 0
      BY <2>3, SlaveLeftRange
    <3>2. walker' = "PROCESS_PTE" /\ level' = level
      BY <2>1, <2>3 DEF ReadPte
    <3>3. CASE level = 1
      <4>1. WalkLeft = 10 BY <1>5, <3>1, <3>3 DEF WalkLeft
      <4>2. WalkLeft' = 9 BY <3>2, <3>3 DEF WalkLeft
      <4>. QED BY <1>1, <1>3, <2>2, <4>1, <4>2
    <3>4. CASE level = 0
      <4>1. WalkLeft = 5 BY <1>5, <3>1, <3>4 DEF WalkLeft
      <4>2. WalkLeft' = 4 BY <3>2, <3>4 DEF WalkLeft
      <4>. QED BY <1>1, <1>3, <2>2, <4>1, <4>2
    <3>. QED BY <3>3, <3>4 DEF TypeOK
  <2>4. CASE ~Ack
    <3>1. walker' = "TRANSLATE" /\ level' = level
      BY <2>1, <2>4, <1>5 DEF ReadPte
    <3>2. SlaveLeft' = SlaveLeft - 1 /\ SlaveLeft \in 0..2
      BY <2>1, <2>4, SlaveComesNearer, SlaveLeftRange DEF WalkReads
    <3>3. WalkLeft = (IF level = 1 THEN 5 ELSE 0) + (5 + SlaveLeft)
      BY <1>5 DEF WalkLeft
    <3>4. WalkLeft' = (IF level = 1 THEN 5 ELSE 0) + (5 + SlaveLeft')
      BY <3>1 DEF WalkLeft
    <3>5. WalkLeft' = WalkLeft - 1
      BY <3>2, <3>3, <3>4
    <3>. QED BY <1>1, <1>3, <2>2, <3>5
  <2>. QED BY <2>3, <2>4
<1>6. CASE walker = "PROCESS_PTE"
  <2>1. walker' = "NEXT" /\ level' = level
    BY <1>6 DEF Edge, WalkStep, StartWalk, ReadPte, ProcessPte, NextLevel
  <2>2. Walk(p)'
    BY <1>6, FromWalkProcess
  <2>3. WalkLeft' = WalkLeft - 1
    BY <1>6, <2>1 DEF WalkLeft, TypeOK
  <2>. QED BY <1>1, <1>3, <2>2, <2>3
<1>7. CASE walker = "NEXT"
  <2>1. NextLevel
    BY <1>7 DEF Edge, WalkStep, StartWalk, ReadPte, ProcessPte, NextLevel
  <2>2. /\ WalkHasRead /\ vreq.addr = PortAddr(p) /\ vreq.addr \in Address
    BY <1>7 DEF Walk, WalkHasUsed, TypeOK
  <2>3. ~IsLeaf(RootEntry(vreq.addr)) /\ IsLeaf(LastEntry(vreq.addr))
    BY <2>2 DEF TwoLevelTables, Walk
  <2>4. SlavesIdle'
    BY <1>7, <2>2, SlavesStayIdle, WalkGoesOn DEF WalkHasRead, Walking
  <2>5. SlaveLeft' = 2
    BY <2>4 DEF SlaveLeft, SlavesIdle
  <2>6. CASE level = 1
    <3>1. ~IsLeaf(pte)
      BY <2>2, <2>3, <2>6 DEF WalkHasRead
    <3>2. walker' = "TRANSLATE" /\ level' = 0
      BY <2>1, <3>1 DEF NextLevel
    <3>3. WalkLeft = 8
      BY <1>7, <2>6 DEF WalkLeft
    <3>4. WalkLeft' = 7
      BY <2>5, <3>2 DEF WalkLeft
    <3>5. Walk(p)'
      BY <1>7, <3>2, FromWalkNext DEF Translated
    <3>. QED BY <1>1, <1>3, <3>3, <3>4, <3>5
  <2>7. CASE level = 0
    <3>1. IsLeaf(pte)
      BY <2>2, <2>3, <2>7 DEF WalkHasRead
    <3>2. portFsm'[p] = "FIRST"
      BY <1>7, <3>1, OneOwner DEF Walk, Requested, FsmsRest, TranslationAck, Edge, PortFsms,
         PortFsmStep
    <3>3. (granted = {p} /\ ~StartTranslation)'
      BY <3>2, WalkGoesOn DEF Requested, StartTranslation, Owner, Port
    <3>4. AccessLeft' = 2
      BY <2>5, <3>3 DEF AccessLeft
    <3>5. WalkLeft = 3
      BY <1>7, <2>7 DEF WalkLeft
    <3>. QED BY <1>1, <3>4, <3>5
  <2>. QED BY <2>6, <2>7 DEF TypeOK
<1>. QED BY <1>4, <1>5, <1>6, <1>7 DEF TypeOK

(* The access of p is the one under way, or the next. *)
LEMMA AccessIsInPhase ==
  ASSUME IInv, NEW p \in Port, Accessing(p)
  PROVE  NoAccess \/ DirectAccess(p) \/ Walk(p) \/ Translated(p) \/ TranslatedAccess(p)
<1>1. ASSUME NEW q \in Port, DirectAccess(q) \/ Walk(q) \/ Translated(q) \/ TranslatedAccess(q)
      PROVE  q = p
  BY <1>1, OneAccess DEF IInv, AccessPhases, DirectAccess, Walk, Translated, TranslatedAccess,
     Requested
<1>2. \A q \in Port : ~Answered(q)
  BY DEF Answered
<1>. QED BY <1>1, <1>2 DEF IInv, AccessPhases

(***************************************************************************)
(* loadstore.py: every access stands until it is acknowledged, and every   *)
(* cycle brings that nearer by exactly one: no FSM of port, walker or      *)
(* slave wastes a cycle, whatever was accessed before.  With a clock that  *)
(* does not stop this is AccessAnswered.                                   *)
(***************************************************************************)
THEOREM AccessTime ==
  ASSUME DebugOnlyHalted
  PROVE  Spec /\ []SoundTables =>
           [][\A p \in Port : Accessing(p) /\ ~PortAck(p) =>
                Accessing(p)' /\ AccessLeft' = AccessLeft - 1]_vars
<1>1. IInv /\ SoundTables /\ [Edge]_vars =>
        [\A p \in Port : Accessing(p) /\ ~PortAck(p) =>
           Accessing(p)' /\ AccessLeft' = AccessLeft - 1]_vars
  <2>. SUFFICES ASSUME IInv, SoundTables, Edge, NEW p \in Port, Accessing(p), ~PortAck(p)
                PROVE  Accessing(p)' /\ AccessLeft' = AccessLeft - 1
    OBVIOUS
  <2>. USE DEF SoundTables
  <2>1. TypeOK /\ WritesWhileHalted
    BY DEF IInv, AccessPhases
  <2>2. Accessing(p)'
    BY <2>1, AccessStays
  <2>3. CASE DirectAccess(p) \/ Translated(p) \/ TranslatedAccess(p)
    <3>1. ~Ack
      BY <2>3, LeftInPhase
    <3>. QED BY <2>1, <2>2, <2>3, <3>1, NearerOnBus
  <2>. QED BY <2>1, <2>2, <2>3, AccessIsInPhase, NearerFromNoAccess, NearerFromWalk
<1>. QED BY <1>1, InitPhases, PhaseStep, PTL DEF Spec

(* An access is acknowledged after 14 cycles at most when it is translated, and
   after three when it is not: in the cycle in which none is left. *)
THEOREM AccessTimeBounded ==
  ASSUME DebugOnlyHalted
  PROVE  Spec /\ []SoundTables =>
           [](\A p \in Port : Accessing(p) =>
                /\ AccessLeft \in 0..(IF TranslationOn THEN 14 ELSE 3)
                /\ AccessLeft = 0 <=> PortAck(p))
<1>1. IInv => \A p \in Port : Accessing(p) =>
                /\ AccessLeft \in 0..(IF TranslationOn THEN 14 ELSE 3)
                /\ AccessLeft = 0 <=> PortAck(p)
  <2>. SUFFICES ASSUME IInv, NEW p \in Port, Accessing(p)
                PROVE  /\ AccessLeft \in 0..(IF TranslationOn THEN 14 ELSE 3)
                       /\ AccessLeft = 0 <=> PortAck(p)
    OBVIOUS
  <2>1. TypeOK
    BY DEF IInv
  <2>2. CASE NoAccess
    BY <2>2, LeftInPhase
  <2>3. CASE Walk(p)
    <3>1. TranslationOn
      BY <2>3 DEF Walk
    <3>. QED BY <2>1, <2>3, <3>1, LeftInPhase, WalkLeftRange
  <2>4. CASE DirectAccess(p) \/ Translated(p) \/ TranslatedAccess(p)
    <3>1. SlavesServe
      BY <2>4 DEF DirectAccess, Translated, TranslatedAccess, SlavesIdle, SlavesServe
    <3>2. SlaveLeft = 0 <=> Ack
      BY <2>1, <3>1, SlaveLeftRange
    <3>. QED BY <2>1, <2>4, <3>2, LeftInPhase, SlaveLeftRange
  <2>. QED BY <2>2, <2>3, <2>4, AccessIsInPhase
<1>. QED BY <1>1, InitPhases, PhaseStep, PTL DEF Spec

-----------------------------------------------------------------------------
(***************************************************************************)
(* Software that keeps to a sound memory map.                              *)
(***************************************************************************)
Kept(tables, frames) ==
    /\ satp.on => satp.ppn \in Roots
    /\ pc \in Pcs
    /\ instr \in Instrs \/ instr.op = "plain"
    /\ MapsToFrames(memory, tables, frames)

LEMMA KeptInitially ==
  ASSUME NEW tables \in SUBSET Page, NEW frames \in SUBSET Page,
         KeepsTo(tables, frames), Init
  PROVE  Kept(tables, frames)
  BY SoftwareAssumption DEF Init, KeepsTo, Kept

(* What software asks for physically. *)
LEMMA PortAddrKept ==
  ASSUME TypeOK, NEW tables \in SUBSET Page, NEW frames \in SUBSET Page,
         KeepsTo(tables, frames), Kept(tables, frames),
         NEW p \in Port, Accessing(p)
  PROVE  /\ PageOf(PortAddr(p)) \in tables \cup frames
         /\ PortStore(p) => PageOf(PortAddr(p)) \in frames
<1>1. CASE p = "debug"
  BY <1>1 DEF PortAddr, KeepsTo
<1>2. CASE p = "dbus"
  BY <1>2 DEF PortAddr, PortStore, Accessing, KeepsTo, Kept
<1>3. CASE p = "ibus"
  BY <1>3 DEF PortAddr, PortStore, KeepsTo, Kept
<1>. QED BY <1>1, <1>2, <1>3 DEF Port

(* What it gets translated. *)
LEMMA TablesKept ==
  ASSUME NEW tables \in SUBSET Page, NEW frames \in SUBSET Page,
         KeepsTo(tables, frames), Kept(tables, frames), TranslationOn,
         NEW a \in Address
  PROVE  /\ satp.ppn \in tables
         /\ ~IsLeaf(RootEntry(a)) /\ RootEntry(a).ppn \in tables
         /\ IsLeaf(LastEntry(a)) /\ LastEntry(a).ppn \in frames
         /\ PageOf(Sv32(a)) \in frames
<1>1. satp.ppn \in Roots /\ satp.ppn \in tables
  BY DEF TranslationOn, Kept, KeepsTo
<1>2. /\ ~IsLeaf(RootEntry(a)) /\ RootEntry(a).ppn \in tables
      /\ IsLeaf(LastEntry(a)) /\ LastEntry(a).ppn \in frames
  BY <1>1 DEF Kept, MapsToFrames, RootEntry, LastEntry, EntryAt
<1>3. \A q \in Page : q = <<q[1], q[2]>>
  BY DEF Page
<1>4. PageOf(Sv32(a)) = LastEntry(a).ppn
  BY <1>2, <1>3 DEF Sv32, PageOf
<1>. QED BY <1>1, <1>2, <1>4

LEMMA KeptIsSound ==
  ASSUME IInv, NEW tables \in SUBSET Page, NEW frames \in SUBSET Page,
         KeepsTo(tables, frames), Kept(tables, frames)
  PROVE  SoundTables
<1>. USE DEF IInv
<1>1. TwoLevelTables
  BY TablesKept DEF TwoLevelTables
<1>2. ASSUME BusEn PROVE Decodes[PageOf(BusAddr)] # {}
  <2>1. \A q \in tables \cup frames : Decodes[q] # {}
    BY DEF KeepsTo
  <2>2. ~NoAccess /\ \A q \in Port : ~Answered(q)
    BY <1>2 DEF NoAccess, Answered, BusEn, Walking, Connected, Owns
  <2>3. PICK p \in Port : DirectAccess(p) \/ Walk(p) \/ Translated(p) \/ TranslatedAccess(p)
    BY <2>2 DEF AccessPhases
  <2>4. Owner = p /\ Owns(p) /\ \A q \in Port : Owns(q) => q = p
    BY <2>3, OneOwner DEF DirectAccess, Walk, Translated, TranslatedAccess, Requested
  <2>5. CASE DirectAccess(p)
    <3>1. BusAddr = PortAddr(p)
      BY <2>4, <2>5 DEF DirectAccess, BusAddr, Walking, Connected
    <3>. QED BY <2>1, <2>5, <3>1, PortAddrKept DEF DirectAccess, Requested
  <2>6. CASE Walk(p)
    <3>1. \A q \in Port : ~Connected(q)
      BY <2>4, <2>6 DEF Walk, FsmsRest, Connected
    <3>2. Walking
      BY <1>2, <3>1 DEF BusEn
    <3>3. WalkReads /\ TranslationOn
      BY <2>6, <3>2 DEF Walk, Walking
    <3>4. rootPpn \in tables
      BY <3>3, TablesKept DEF WalkReads, TypeOK
    <3>5. PageOf(BusAddr) = rootPpn
      <4>1. rootPpn = <<rootPpn[1], rootPpn[2]>>
        BY DEF TypeOK, Page
      <4>. QED BY <3>2, <4>1 DEF BusAddr, PageOf
    <3>. QED BY <2>1, <3>4, <3>5
  <2>7. CASE Translated(p)
    <3>1. BusAddr = Sv32(PortAddr(p)) /\ TranslationOn
      BY <2>4, <2>7 DEF Translated, BusAddr, Walking, Connected
    <3>. QED BY <2>1, <3>1, AddrTypes, TablesKept
  <2>8. CASE TranslatedAccess(p)
    BY <2>8 DEF TranslatedAccess, SlavesServe, Selected
  <2>. QED BY <2>3, <2>5, <2>6, <2>7, <2>8
<1>3. ~BusError
  BY <1>2 DEF BusError, Cyc
<1>. QED BY <1>1, <1>3 DEF SoundTables

(* Stores go to frames, which no table is in. *)
LEMMA MemoryKept ==
  ASSUME IInv, Edge, NEW tables \in SUBSET Page, NEW frames \in SUBSET Page,
         KeepsTo(tables, frames), Kept(tables, frames)
  PROVE  MapsToFrames(memory', tables, frames)
<1>. USE DEF IInv
<1>1. ASSUME NEW a \in Address, PageOf(a) \in tables
      PROVE  memory'[a] = memory[a]
  <2>1. CASE BusStore /\ \E s \in Slave : Requests(s)
    <3>1. PICK s \in Slave : Requests(s)
      BY <2>1
    <3>2. TakesRequest(s) /\ PortStore(Owner) /\ Owner \in Port
      BY <2>1, <3>1, AddrTypes DEF BusStore, TakesRequest
    <3>3. CASE DirectAccess(Owner) /\ BusAddr = PortAddr(Owner)
      <4>1. PageOf(BusAddr) \in frames
        BY <3>2, <3>3, PortAddrKept DEF DirectAccess, Requested
      <4>. QED BY <1>1, <4>1 DEF Edge, SlavesStep, KeepsTo, TypeOK
    <3>4. CASE Translated(Owner) /\ BusAddr = Sv32(PortAddr(Owner))
      <4>1. PageOf(BusAddr) \in frames
        BY <3>2, <3>4, AddrTypes, TablesKept DEF Translated
      <4>. QED BY <1>1, <4>1 DEF Edge, SlavesStep, KeepsTo, TypeOK
    <3>. QED BY <3>2, <3>3, <3>4, TakenWhen
  <2>2. CASE ~(BusStore /\ \E s \in Slave : Requests(s))
    BY <2>2 DEF Edge, SlavesStep
  <2>. QED BY <2>1, <2>2
<1>2. ASSUME NEW t \in tables, NEW i \in Index
      PROVE  memory'[<<t[1], t[2], i>>] = memory[<<t[1], t[2], i>>]
  <2>1. t \in Page /\ t = <<t[1], t[2]>> /\ <<t[1], t[2], i>> \in Address
    BY DEF Page, Address
  <2>2. PageOf(<<t[1], t[2], i>>) = t
    BY <2>1 DEF PageOf
  <2>. QED BY <1>1, <2>1, <2>2
<1>3. ASSUME NEW root \in Roots, NEW a \in Address
      PROVE  LET e == memory'[<<root[1], root[2], a[1]>>]
                 l == memory'[<<e.ppn[1], e.ppn[2], a[2]>>]
             IN  /\ ~IsLeaf(e) /\ e.ppn \in tables
                 /\ IsLeaf(l) /\ l.ppn \in frames
  <2>. DEFINE e == memory[<<root[1], root[2], a[1]>>]
              l == memory[<<e.ppn[1], e.ppn[2], a[2]>>]
  <2>1. root \in tables /\ a[1] \in Index /\ a[2] \in Index
    BY DEF KeepsTo, Address
  <2>2. ~IsLeaf(e) /\ e.ppn \in tables /\ IsLeaf(l) /\ l.ppn \in frames
    BY DEF Kept, MapsToFrames
  <2>3. memory'[<<root[1], root[2], a[1]>>] = e
    BY <1>2, <2>1
  <2>4. memory'[<<e.ppn[1], e.ppn[2], a[2]>>] = l
    BY <1>2, <2>1, <2>2
  <2>. HIDE DEF e, l
  <2>. QED BY <2>2, <2>3, <2>4
<1>. QED BY <1>3 DEF MapsToFrames

LEMMA KeptStep ==
  ASSUME IInv, NEW tables \in SUBSET Page, NEW frames \in SUBSET Page,
         KeepsTo(tables, frames), Kept(tables, frames), [Edge]_vars
  PROVE  Kept(tables, frames)'
<1>1. CASE Edge
  <2>1. MapsToFrames(memory, tables, frames)'
    BY <1>1, MemoryKept DEF MapsToFrames
  <2>2. CpuStep /\ SoundTables
    BY <1>1, KeptIsSound DEF Edge
  <2>3. /\ satp'.on => satp'.ppn \in Roots
        /\ pc' \in Pcs
        /\ instr' \in Instrs \/ instr'.op = "plain"
    BY <2>2 DEF Kept, Roots, CpuStep, CheckShouldHalt, Halted, Fetch, Decode, ExecuteMemory,
       ExecuteCsr, ExecuteMret, ExecutePlain, Jump, Goto
  <2>. QED BY <2>1, <2>3 DEF Kept
<1>2. CASE UNCHANGED vars
  BY <1>2 DEF vars, cpuVars, busVars, Kept, MapsToFrames
<1>. QED BY <1>1, <1>2

(* The sound tables of the theorems above, and with them all they say, follow
   from the constants: from what code, tables and memory map software is given. *)
THEOREM SoundSoftwareKeepsTables ==
  ASSUME DebugOnlyHalted, SoundSoftware
  PROVE  Spec => []SoundTables
<1>1. PICK tables \in SUBSET Page, frames \in SUBSET Page : KeepsTo(tables, frames)
  BY DEF SoundSoftware
<1>. DEFINE K == Kept(tables, frames)
<1>2. Init => K
  BY <1>1, KeptInitially
<1>3. IInv /\ K => SoundTables
  BY <1>1, KeptIsSound
<1>4. IInv /\ K /\ [Edge]_vars => K'
  BY <1>1, KeptStep
<1>. HIDE DEF K
<1>. QED BY <1>2, <1>3, <1>4, InitPhases, PhaseStep, PTL DEF Spec

(* So an access of such software reaches the slave that Sv32 gives it
   (AccessAtTranslation), alone and undisturbed (AccessPhases,
   AccessNotInterrupted). *)
THEOREM SoundSoftwareIsServed ==
  ASSUME DebugOnlyHalted, SoundSoftware
  PROVE  Spec => []AccessAtTranslation /\ []AccessPhases /\ AccessNotInterrupted
  BY SoundSoftwareKeepsTables, TranslationIsCorrect, PhasesFollow, BusIsNotTaken, PTL
=============================================================================

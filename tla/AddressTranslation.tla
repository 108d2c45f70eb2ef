------------------------ MODULE AddressTranslation ------------------------
(***************************************************************************)
(* The memory arbiter with virtual memory (loadstore.py): the three ports  *)
(* that compete for the one bus, the FSM each port has for translated      *)
(* accesses, the page walker, the bridge, the address decoder and the      *)
(* slaves, and of the CPU (cpu.py) what they see: the ports it drives, the *)
(* privilege mode and satp.  A step is one clock edge.                     *)
(*                                                                         *)
(* What software decides is left to choice: the instruction a fetch        *)
(* returns and the address execution goes on at.  The program buffer is    *)
(* only written here, RunControl executes it.                              *)
(***************************************************************************)
EXTENDS Naturals

CONSTANTS
    Index,         \* ten bits of an address: half a page number, or a word
    Nil,           \* the index whose bits are all zero
    Slave,         \* the slaves on the bus
    Decodes,       \* Decodes[p]: the slaves whose range page p is in
    Boot,          \* the address out of reset
    Progbuf,       \* PROGBUF_MMIO_ADDR
    Pcs,           \* addresses code is executed at
    Instrs,        \* instructions code may contain
    PageTables,    \* contents the memory may start with
    DebugWindow    \* <<state of the CPU, mode>> in which progbuf is written

Mode    == {"M", "U"}
Port    == {"debug", "dbus", "ibus"}
Page    == Index \X Index
Address == Index \X Index \X Index
PageOf(a) == <<a[1], a[2]>>

(* PTE_Layout, as the walker reads it, and any other word of memory. *)
Pte == [v : BOOLEAN, r : BOOLEAN, w : BOOLEAN, x : BOOLEAN, u : BOOLEAN,
        a : BOOLEAN, d : BOOLEAN, ppn : Page]

IsLeaf(e) == e.r \/ e.x

(* "plain" is any instruction that needs no bus, "trap" one that traps. *)
Instr ==
    [op : {"plain", "mret", "trap"}]
      \cup [op : {"load"}, addr : Address]
      \cup [op : {"store"}, addr : Address, value : Pte]
      \cup [op : {"satp"}, on : BOOLEAN, ppn : Page]

Issue == {"OK", "PAGE_INVALID", "WRITABLE_NOT_READABLE", "LACK_PERMISSIONS",
          "FIRST_ACCESS", "MISALIGNED_SUPERPAGE", "LEAF_IS_NO_LEAF"}

ASSUME IndexAssumption == Nil \in Index

ASSUME MapAssumption ==
    /\ Decodes \in [Page -> SUBSET Slave]
    /\ \A p \in Page : \A s, t \in Decodes[p] : s = t
    /\ Progbuf \in Address

ASSUME SoftwareAssumption ==
    /\ Pcs \subseteq Address
    /\ Boot \in Pcs
    /\ Instrs \subseteq Instr
    /\ Instrs # {}
    /\ PageTables \subseteq [Address -> Pte]

-----------------------------------------------------------------------------
VARIABLES
    \* The CPU.
    cpu,          \* state of main_fsm
    mode,         \* current_priv_mode
    pc,
    instr,        \* the fetched instruction
    satp,         \* [on, ppn]: the fields mode and ppn
    writing,      \* HandlerPROGBUF drives the debug port
    \* The arbiter.
    granted,      \* pe.i: ports whose request is latched
    portFsm,      \* the FSM of each port: TRANSLATE, REQ with first, REQ
    vreq,         \* virtual_req_bus_latch
    physAddr,
    \* The page walker.
    walker,       \* its state
    level,        \* sv32_i
    rootPpn,
    pte,
    errorCode,
    \* The slaves.
    slave,        \* state of each slave
    readData,     \* what the read port of each slave shows
    memory

cpuVars  == <<cpu, mode, pc, instr, satp, writing>>
portVars == <<granted, portFsm, vreq, physAddr>>
walkVars == <<walker, level, rootPpn, pte, errorCode>>
busVars  == <<slave, readData, memory>>
vars == <<cpuVars, portVars, walkVars, busVars>>

NoPte == [v |-> FALSE, r |-> FALSE, w |-> FALSE, x |-> FALSE, u |-> FALSE,
          a |-> FALSE, d |-> FALSE, ppn |-> <<Nil, Nil>>]

Init ==
    /\ cpu = "CHECK" /\ mode = "M" /\ pc = Boot
    /\ instr = [op |-> "plain"]
    /\ satp = [on |-> FALSE, ppn |-> <<Nil, Nil>>]
    /\ writing = FALSE
    /\ granted = {}
    /\ portFsm = [p \in Port |-> "TRANSLATE"]
    /\ vreq = [addr |-> <<Nil, Nil, Nil>>, store |-> FALSE]
    /\ physAddr = <<Nil, Nil, Nil>>
    /\ walker = "IDLE" /\ level = 1 /\ rootPpn = <<Nil, Nil>>
    /\ pte = NoPte /\ errorCode = "OK"
    /\ slave = [s \in Slave |-> "REQ"]
    /\ readData = [s \in Slave |-> NoPte]
    /\ memory \in PageTables

-----------------------------------------------------------------------------
(***************************************************************************)
(* Combinational signals.                                                  *)
(***************************************************************************)
Accessing(p) ==
    \/ p = "debug" /\ writing
    \/ p = "dbus" /\ cpu = "EXECUTE" /\ instr.op \in {"load", "store"}
    \/ p = "ibus" /\ cpu = "FETCH"

PortStore(p) ==
    \/ p = "debug" /\ writing
    \/ p = "dbus" /\ cpu = "EXECUTE" /\ instr.op = "store"

(* A port that makes no access shows address zero. *)
PortAddr(p) ==
    IF ~Accessing(p) THEN <<Nil, Nil, Nil>>
    ELSE IF p = "debug" THEN Progbuf
    ELSE IF p = "dbus" THEN instr.addr ELSE pc

Owner ==
    IF "debug" \in granted THEN "debug"
    ELSE IF "dbus" \in granted THEN "dbus" ELSE "ibus"

Owns(p) == p \in granted /\ p = Owner

TranslationOn == satp.on /\ mode = "U"

StartTranslation ==
    granted # {} /\ TranslationOn /\ portFsm[Owner] = "TRANSLATE"

Connected(p) ==
    Owns(p) /\ (TranslationOn => portFsm[p] # "TRANSLATE")

Walking == walker = "TRANSLATE"

TranslationAck == walker = "NEXT" /\ IsLeaf(pte)

(* generic_bus: the walker's assignments come last and win. *)
BusEn == Walking \/ \E p \in Port : Connected(p) /\ Accessing(p)

Vpn == IF level = 1 THEN vreq.addr[1] ELSE vreq.addr[2]

BusAddr ==
    IF Walking THEN <<rootPpn[1], rootPpn[2], Vpn>>
    ELSE IF ~Connected(Owner) THEN <<Nil, Nil, Nil>>
    ELSE IF TranslationOn THEN physAddr
    ELSE PortAddr(Owner)

BusStore == ~Walking /\ Connected(Owner) /\ PortStore(Owner)

Selected(s) == s \in Decodes[PageOf(BusAddr)]

Ack == \E s \in Slave : Selected(s) /\ slave[s] = "DONE"

Cyc == BusEn /\ ~Ack

PortAck(p) == Connected(p) /\ Ack

BusError == Cyc /\ Decodes[PageOf(BusAddr)] = {}

BusFree ==
    IF TranslationOn THEN ~StartTranslation ELSE ~BusEn

-----------------------------------------------------------------------------
(***************************************************************************)
(* The CPU.  A trap is taken in the cycle its cause is raised; the address *)
(* it goes on at is mtvec, which software chooses.                         *)
(***************************************************************************)
Goto(state) == cpu' = state /\ UNCHANGED <<pc, instr, satp>>

CheckShouldHalt ==
    /\ cpu = "CHECK"
    /\ Goto("FETCH") \/ Goto("HALTED")

(* The Debug Module handles one DMI write at a time: progbuf or resumereq. *)
Halted ==
    /\ cpu = "HALTED"
    /\ \/ Goto("HALTED")
       \/ /\ ~writing /\ ~writing'
          /\ cpu' = "FETCH"
          /\ pc' \in Pcs
          /\ UNCHANGED <<instr, satp>>

Fetch ==
    /\ cpu = "FETCH"
    /\ \/ /\ PortAck("ibus")
          /\ instr' \in Instrs
          /\ cpu' = "DECODE"
          /\ UNCHANGED <<pc, satp>>
       \/ BusError /\ ~PortAck("ibus") /\ Goto("TRAP")
       \/ ~BusError /\ ~PortAck("ibus") /\ Goto("FETCH")

Decode ==
    /\ cpu = "DECODE"
    /\ Goto(IF instr.op = "trap" THEN "TRAP" ELSE "EXECUTE")

ExecuteMemory ==
    /\ cpu = "EXECUTE" /\ instr.op \in {"load", "store"}
    /\ Goto(IF BusError THEN "TRAP"
            ELSE IF PortAck("dbus") THEN "WRITEBACK" ELSE "EXECUTE")

(* An access to satp in user mode is an illegal instruction. *)
ExecuteCsr ==
    /\ cpu = "EXECUTE" /\ instr.op = "satp"
    /\ \/ mode = "U" /\ Goto("TRAP")
       \/ mode = "M" /\ Goto("EXECUTE")
       \/ /\ mode = "M"
          /\ cpu' = "WRITEBACK"
          /\ satp' = [on |-> instr.on, ppn |-> instr.ppn]
          /\ UNCHANGED <<pc, instr>>

ExecuteMret ==
    /\ cpu = "EXECUTE" /\ instr.op = "mret"
    /\ cpu' = "CHECK"
    /\ pc' \in Pcs
    /\ UNCHANGED <<instr, satp>>

ExecutePlain ==
    cpu = "EXECUTE" /\ instr.op = "plain" /\ Goto("WRITEBACK")

Jump(from) ==
    /\ cpu = from
    /\ cpu' = "CHECK"
    /\ pc' \in Pcs
    /\ UNCHANGED <<instr, satp>>

CpuStep ==
    \/ CheckShouldHalt \/ Halted \/ Fetch \/ Decode
    \/ ExecuteMemory \/ ExecuteCsr \/ ExecuteMret \/ ExecutePlain
    \/ Jump("WRITEBACK") \/ Jump("TRAP")

(***************************************************************************)
(* The exception unit: m_raise, from the bus or from the CPU, is stronger  *)
(* than m_mret.                                                            *)
(***************************************************************************)

(* Mutant of Raise: a store faults once its address is translated. *)
RaiseOnceTranslated ==
    \/ BusError
    \/ portFsm["dbus"] = "FIRST" /\ instr.op = "store"
    \/ cpu = "DECODE" /\ instr.op = "trap"
    \/ cpu = "EXECUTE" /\ instr.op = "satp" /\ mode = "U"

Raise ==
    \/ BusError
    \/ cpu = "DECODE" /\ instr.op = "trap"
    \/ cpu = "EXECUTE" /\ instr.op = "satp" /\ mode = "U"

ModeStep ==
    IF Raise THEN mode' = "M"
    ELSE IF cpu = "EXECUTE" /\ instr.op = "mret" THEN mode' \in Mode
    ELSE UNCHANGED mode

(* HandlerPROGBUF. *)
DebugStep ==
    IF writing THEN writing' = ~PortAck("debug")
    ELSE \/ writing' = FALSE
         \/ writing' = TRUE /\ <<cpu, mode>> \in DebugWindow

-----------------------------------------------------------------------------
(***************************************************************************)
(* The arbiter.                                                            *)
(***************************************************************************)
LatchRequests ==
    granted' = IF BusFree THEN {p \in Port : Accessing(p)} ELSE granted

(* Mutant of PortFsmStep: a request is over with its acknowledge. *)
PortFsmEndsWithAck(p) ==
    CASE portFsm[p] = "TRANSLATE" ->
            IF TranslationAck THEN "FIRST" ELSE "TRANSLATE"
      [] portFsm[p] = "FIRST" -> "REQ"
      [] portFsm[p] = "REQ" -> IF Ack THEN "TRANSLATE" ELSE "REQ"

PortFsmStep(p) ==
    CASE portFsm[p] = "TRANSLATE" ->
            IF TranslationAck THEN "FIRST" ELSE "TRANSLATE"
      [] portFsm[p] = "FIRST" -> "REQ"
      [] portFsm[p] = "REQ" -> IF ~BusEn THEN "TRANSLATE" ELSE "REQ"

(* The FSM of a port stands still unless the port owns a translating bus. *)
PortFsms ==
    portFsm' = [p \in Port |-> IF Owns(p) /\ TranslationOn
                              THEN PortFsmStep(p) ELSE portFsm[p]]

LatchVirtualRequest ==
    vreq' = IF StartTranslation
            THEN [addr |-> PortAddr(Owner), store |-> PortStore(Owner)]
            ELSE vreq

-----------------------------------------------------------------------------
(***************************************************************************)
(* The page walker.  It records an error and goes on.                      *)
(***************************************************************************)
(* Mutant of StartWalk: the walk starts where the last one left off. *)
StartWalkAtOldRoot ==
    /\ walker = "IDLE"
    /\ IF StartTranslation
       THEN walker' = "TRANSLATE" /\ level' = 1 /\ UNCHANGED rootPpn
       ELSE UNCHANGED <<walker, level, rootPpn>>
    /\ UNCHANGED <<pte, physAddr, errorCode>>

StartWalk ==
    /\ walker = "IDLE"
    /\ IF StartTranslation
       THEN walker' = "TRANSLATE" /\ level' = 1 /\ rootPpn' = satp.ppn
       ELSE UNCHANGED <<walker, level, rootPpn>>
    /\ UNCHANGED <<pte, physAddr, errorCode>>

ReadPte ==
    /\ walker = "TRANSLATE"
    /\ IF Ack
       THEN \E s \in Slave : /\ Selected(s)
                             /\ pte' = readData[s]
                             /\ walker' = "PROCESS_PTE"
       ELSE UNCHANGED <<walker, pte>>
    /\ UNCHANGED <<level, rootPpn, physAddr, errorCode>>

(* The last error that applies is the one recorded. *)
PteIssue ==
    IF IsLeaf(pte) /\ ~pte.u /\ mode = "U" THEN "LACK_PERMISSIONS"
    ELSE IF IsLeaf(pte) /\ (~pte.a \/ (vreq.store /\ ~pte.d)) THEN "FIRST_ACCESS"
    ELSE IF IsLeaf(pte) /\ level = 1 /\ pte.ppn[2] # Nil THEN "MISALIGNED_SUPERPAGE"
    ELSE IF ~IsLeaf(pte) /\ level = 0 THEN "LEAF_IS_NO_LEAF"
    ELSE IF pte.w /\ ~pte.r THEN "WRITABLE_NOT_READABLE"
    ELSE IF ~pte.v THEN "PAGE_INVALID"
    ELSE errorCode

ProcessPte ==
    /\ walker = "PROCESS_PTE"
    /\ walker' = "NEXT"
    /\ errorCode' = PteIssue
    /\ IF IsLeaf(pte)
       THEN /\ physAddr' = <<pte.ppn[1], pte.ppn[2], vreq.addr[3]>>
            /\ UNCHANGED rootPpn
       ELSE rootPpn' = pte.ppn /\ UNCHANGED physAddr
    /\ UNCHANGED <<level, pte>>

(* Mutant of NextLevel: the level is counted up. *)
NextLevelUp ==
    /\ walker = "NEXT"
    /\ IF IsLeaf(pte)
       THEN walker' = "IDLE" /\ level' = 1
       ELSE walker' = "TRANSLATE" /\ level' = level + 1
    /\ UNCHANGED <<rootPpn, pte, physAddr, errorCode>>

NextLevel ==
    /\ walker = "NEXT"
    /\ IF IsLeaf(pte)
       THEN walker' = "IDLE" /\ level' = 1
       ELSE walker' = "TRANSLATE" /\ level' = 0
    /\ UNCHANGED <<rootPpn, pte, physAddr, errorCode>>

WalkStep == StartWalk \/ ReadPte \/ ProcessPte \/ NextLevel

-----------------------------------------------------------------------------
(***************************************************************************)
(* The slaves: WishboneSlave around a block RAM (EBR_Wishbone).  A RAM     *)
(* that is left alone with a request under way shows another word.         *)
(***************************************************************************)
SlaveStep(s) ==
    CASE slave[s] = "REQ"  -> IF Cyc /\ Selected(s) THEN "RET" ELSE "REQ"
      [] slave[s] = "RET"  -> IF Cyc /\ Selected(s) THEN "DONE" ELSE "RET"
      [] slave[s] = "DONE" -> "REQ"

Requests(s) == slave[s] = "REQ" /\ Cyc /\ Selected(s)
LeftAlone(s) == slave[s] = "RET" /\ ~(Cyc /\ Selected(s))

WrittenWord == IF Owner = "dbus" THEN instr.value ELSE NoPte

SlavesStep ==
    /\ slave' = [s \in Slave |-> SlaveStep(s)]
    /\ \E a \in IF \E s \in Slave : LeftAlone(s) THEN Address ELSE {BusAddr} :
         readData' = [s \in Slave |->
                        IF Requests(s) THEN memory[BusAddr]
                        ELSE IF LeftAlone(s) THEN memory[a] ELSE readData[s]]
    /\ memory' = IF BusStore /\ \E s \in Slave : Requests(s)
                 THEN [memory EXCEPT ![BusAddr] = WrittenWord] ELSE memory

-----------------------------------------------------------------------------
Edge ==
    /\ DebugStep /\ ModeStep /\ CpuStep
    /\ LatchRequests /\ PortFsms /\ LatchVirtualRequest
    /\ WalkStep
    /\ SlavesStep

Spec == Init /\ [][Edge]_vars

(* The clock of the design does not stop. *)
FairSpec == Spec /\ WF_vars(Edge)
=============================================================================

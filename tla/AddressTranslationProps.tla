---------------------- MODULE AddressTranslationProps ----------------------
(***************************************************************************)
(* Properties of the memory arbiter and its page walker.                   *)
(***************************************************************************)
EXTENDS AddressTranslation

CpuState == {"CHECK", "HALTED", "FETCH", "DECODE", "EXECUTE", "WRITEBACK", "TRAP"}

(* Every FSM is in one of its states and every register fits its layout. *)
TypeOK ==
    /\ cpu \in CpuState /\ mode \in Mode /\ pc \in Address /\ instr \in Instr
    /\ satp \in [on : BOOLEAN, ppn : Page] /\ writing \in BOOLEAN
    /\ granted \subseteq Port
    /\ portFsm \in [Port -> {"TRANSLATE", "FIRST", "REQ"}]
    /\ vreq \in [addr : Address, store : BOOLEAN]
    /\ physAddr \in Address
    /\ walker \in {"IDLE", "TRANSLATE", "PROCESS_PTE", "NEXT"}
    /\ level \in {0, 1} /\ rootPpn \in Page /\ pte \in Pte
    /\ errorCode \in Issue
    /\ slave \in [Slave -> {"REQ", "RET", "DONE"}]
    /\ readData \in [Slave -> Pte]
    /\ memory \in [Address -> Pte]

-----------------------------------------------------------------------------
(***************************************************************************)
(* Algorithm 4.3.2 of the privileged specification: the entries a walk for *)
(* virtual address a reads, and the address it finds.                      *)
(***************************************************************************)
EntryAt(table, i) == memory[<<table[1], table[2], i>>]

RootEntry(a) == EntryAt(satp.ppn, a[1])
LastEntry(a) == EntryAt(RootEntry(a).ppn, a[2])

Sv32(a) ==
    IF IsLeaf(RootEntry(a))
    THEN <<RootEntry(a).ppn[1], a[2], a[3]>>
    ELSE <<LastEntry(a).ppn[1], LastEntry(a).ppn[2], a[3]>>

(* A slave takes a request that is not one of the walker's. *)
TakesRequest(s) == Requests(s) /\ ~Walking
TakesVirtual(s) == TakesRequest(s) /\ TranslationOn

(***************************************************************************)
(* The slaves see an access of user mode at the address Sv32 gives for the *)
(* page tables as they are at that moment, whatever the walker, the FSM of *)
(* the port and the latches did in between.  The debugger's writes to the  *)
(* program buffer of a hart that halted in user mode are such accesses.    *)
(***************************************************************************)
AccessAtTranslation ==
    \A s \in Slave : TakesVirtual(s) => BusAddr = Sv32(PortAddr(Owner))

(***************************************************************************)
(* No FSM of a port is left in REQ: mode and owner change only between     *)
(* accesses, so that the next translated access starts with a walk.        *)
(***************************************************************************)
NoRequestLeftBehind ==
    \A p \in Port : portFsm[p] # "TRANSLATE" => TranslationOn /\ Owns(p)

(***************************************************************************)
(* The phases of an access, which follow one another in this order: what   *)
(* the arbiter, the walker and the slaves agree on at every moment.        *)
(***************************************************************************)
FsmsRest   == \A p \in Port : portFsm[p] = "TRANSLATE"
SlavesIdle == \A s \in Slave : slave[s] = "REQ"

(* A slave at work is the one the bus selects. *)
SlavesServe == \A s \in Slave : slave[s] # "REQ" => Selected(s)

Requested(p) == granted = {p} /\ Accessing(p)

NoAccess == granted = {} /\ walker = "IDLE" /\ FsmsRest /\ SlavesIdle

DirectAccess(p) ==
    /\ Requested(p) /\ ~TranslationOn
    /\ walker = "IDLE" /\ FsmsRest /\ SlavesServe

(* The tables do not change under the walk, and it reads what they hold. *)
WalkReads ==
    /\ SlavesServe
    /\ \A s \in Slave : slave[s] # "REQ" => readData[s] = memory[BusAddr]
    /\ \/ level = 1 /\ rootPpn = satp.ppn
       \/ level = 0 /\ rootPpn = RootEntry(vreq.addr).ppn

WalkHasRead ==
    /\ SlavesIdle
    /\ \/ level = 1 /\ pte = RootEntry(vreq.addr)
       \/ level = 0 /\ pte = LastEntry(vreq.addr)

WalkHasUsed ==
    /\ WalkHasRead
    /\ level = 1 => rootPpn = pte.ppn
    /\ level = 0 => physAddr = Sv32(vreq.addr)

Walk(p) ==
    /\ Requested(p) /\ TranslationOn /\ FsmsRest
    /\ walker # "IDLE" => vreq.addr = PortAddr(p)
    /\ walker = "IDLE" => SlavesIdle
    /\ walker = "TRANSLATE" => WalkReads
    /\ walker = "PROCESS_PTE" => WalkHasRead
    /\ walker = "NEXT" => WalkHasUsed

OthersRest(p) == \A q \in Port \ {p} : portFsm[q] = "TRANSLATE"

Translated(p) ==
    /\ Requested(p) /\ TranslationOn /\ OthersRest(p)
    /\ portFsm[p] = "FIRST" /\ walker = "IDLE" /\ SlavesIdle
    /\ vreq.addr = PortAddr(p) /\ physAddr = Sv32(PortAddr(p))

TranslatedAccess(p) ==
    /\ Requested(p) /\ TranslationOn /\ OthersRest(p)
    /\ portFsm[p] = "REQ" /\ walker = "IDLE" /\ SlavesServe
    /\ \E s \in Slave : slave[s] # "REQ"

(* The port has its answer, the arbiter has not looked at it again. *)
Answered(p) ==
    /\ granted = {p} /\ \A q \in Port : ~Accessing(q)
    /\ cpu \in {"DECODE", "WRITEBACK", "HALTED"}
    /\ walker = "IDLE" /\ SlavesIdle /\ OthersRest(p)
    /\ portFsm[p] = IF TranslationOn THEN "REQ" ELSE "TRANSLATE"

WritesWhileHalted == writing => cpu = "HALTED"

(***************************************************************************)
(* There is at most one access under way, in one of these phases; with a   *)
(* debugger that writes the program buffer of a halted hart only, in       *)
(* whichever mode it halted, and no access that nobody answers.            *)
(***************************************************************************)
AccessPhases ==
    /\ WritesWhileHalted
    /\ \/ NoAccess
       \/ \E p \in Port : \/ DirectAccess(p) \/ Walk(p) \/ Translated(p)
                          \/ TranslatedAccess(p) \/ Answered(p)

(* The tables have two levels, and software does not break them. *)
TwoLevelTables ==
    TranslationOn => \A a \in Address : /\ ~IsLeaf(RootEntry(a))
                                       /\ IsLeaf(LastEntry(a))

(* Software and a memory map of which that is true.  The pages of the map are
   tables and frames, all of them decoded; code is loaded from both and stores
   to frames; and the tables below every root that satp may be given have two
   levels, and map every address to a frame. *)
Roots == {i.ppn : i \in {j \in Instrs : j.op = "satp"}}

MapsToFrames(m, tables, frames) ==
    \A root \in Roots, a \in Address :
        LET e == m[<<root[1], root[2], a[1]>>]
            l == m[<<e.ppn[1], e.ppn[2], a[2]>>]
        IN  /\ ~IsLeaf(e) /\ e.ppn \in tables
            /\ IsLeaf(l) /\ l.ppn \in frames

KeepsTo(tables, frames) ==
    /\ tables \cap frames = {} /\ Roots \subseteq tables
    /\ \A p \in tables \cup frames : Decodes[p] # {}
    /\ PageOf(Progbuf) \in frames
    /\ \A a \in Pcs : PageOf(a) \in tables \cup frames
    /\ \A i \in Instrs :
         /\ i.op = "load" => PageOf(i.addr) \in tables \cup frames
         /\ i.op = "store" => PageOf(i.addr) \in frames
    /\ \A m \in PageTables : MapsToFrames(m, tables, frames)

SoundSoftware == \E tables, frames \in SUBSET Page : KeepsTo(tables, frames)

(***************************************************************************)
(* An access a slave has begun keeps the bus, its owner and its address    *)
(* until the slave has answered.                                           *)
(***************************************************************************)
AccessNotInterrupted ==
    [][\A s \in Slave : Requests(s) \/ slave[s] = "RET" =>
          /\ Owner' = Owner /\ BusAddr' = BusAddr
          /\ Walking' = Walking]_vars

(* Every access ends with an acknowledge, the walk before it included. *)
AccessAnswered == \A p \in Port : Accessing(p) ~> PortAck(p)
=============================================================================

----------------------------- MODULE Devices -----------------------------
(***************************************************************************)
(* From the load/store unit to the pins (loadstore.py, mmio/): the masks   *)
(* and shifts of MemoryUnit, the arbiter as it is without virtual memory,  *)
(* the Wishbone slaves, and of these the block RAMs, the GPIO and the UART *)
(* with its serial line.  A step is one clock edge.                        *)
(*                                                                         *)
(* What the hart loads and stores, and when, is left to choice, as is what *)
(* the debugger writes to the program buffer; translated accesses are the  *)
(* matter of AddressTranslation.                                           *)
(***************************************************************************)
EXTENDS Integers, Sequences

CONSTANTS
    Bits,          \* bits of a byte: 8
    Divisor,       \* clock cycles a bit lasts on the serial line
    Depth,         \* words of a block RAM
    Workloads      \* each a [Port -> accesses]: of software and of the debugger

Bit      == {0, 1}
Byte     == [1..Bits -> Bit]    \* lowest bit first, as the line has them
Lanes    == 0..3
Word     == [Lanes -> Byte]
ZeroByte == [i \in 1..Bits |-> 0]
ZeroWord == [l \in Lanes |-> ZeroByte]

Ram  == {"ebr", "debug_ebr"}
Dev  == Ram \cup {"gpio", "uart"}
Port == {"debug", "dbus", "ibus"}

(* An access: addr is 4 * word + lsb from the base address of dev. *)
Op == [store : BOOLEAN, size : {1, 2, 4}, signed : BOOLEAN, dev : Dev,
       word : Nat, lsb : 0..3, value : Word]
Nothing == [dev |-> "none"]

(* The words that are registers; gpio_output is the only one of its device. *)
Cell == (Ram \X (0..Depth - 1)) \cup {<<"gpio", 0>>}
CellOf(op) == <<op.dev, op.word>>

(* Offsets of the two registers of the UART, in words. *)
BusyReg == 0
DataReg == 2

ASSUME SizeAssumption ==
    /\ Bits \in Nat \ {0} /\ Depth \in Nat \ {0}
    /\ Divisor \in Nat /\ Divisor >= 2

(* Software knows the memory map, and what the UART never acknowledges. *)
Legal(op) ==
    /\ op.dev \in Ram => op.word < Depth
    /\ op.dev = "uart" => op.word = BusyReg \/ (op.word = DataReg /\ op.store)

ASSUME AccessAssumption ==
    /\ Workloads # {}
    /\ \A load \in Workloads :
         /\ DOMAIN load = Port
         /\ \A p \in Port : \A op \in load[p] : op \in Op /\ Legal(op)
         /\ \A op \in load["ibus"] : ~op.store /\ op.size = 4
         /\ \A op \in load["debug"] : op.store /\ op.size = 4 /\ op.dev = "debug_ebr"

-----------------------------------------------------------------------------
VARIABLES
    workload,      \* the accesses software and debugger choose from
    request,       \* what each port asks for
    answer,        \* rdval and instr, in the cycle after they were loaded
    granted,       \* pe.i: ports whose request is latched
    slave,         \* state of each slave
    ramData,       \* rp.data of each block RAM
    datR,          \* dat_r of each slave
    memory,        \* contents of the block RAMs and gpio_output
    pins,          \* the signals of the GPIO
    tx, counter, bitno, latch, line,    \* tx_fsm, tx_counter, .., serial.tx
    \* The far end of the line, and history.
    rx,            \* a receiver, and the bits it has sampled
    outstanding    \* bytes the UART has taken and the receiver has not

portVars  == <<workload, request, answer, granted>>
slaveVars == <<slave, ramData, datR, memory, pins>>
txVars    == <<tx, counter, bitno, latch, line>>
vars == <<portVars, slaveVars, txVars, rx, outstanding>>

Init ==
    /\ workload \in Workloads
    /\ request = [p \in Port |-> Nothing]
    /\ answer = [p \in Port |-> <<>>]
    /\ granted = {}
    /\ slave = [d \in Dev |-> "REQ"]
    /\ ramData = [d \in Ram |-> ZeroWord] /\ datR = [d \in Dev |-> ZeroWord]
    /\ memory = [c \in Cell |-> ZeroWord] /\ pins = ZeroWord
    /\ tx = "IDLE" /\ counter = 0 /\ bitno = 0 /\ latch = ZeroByte /\ line = 0
    /\ rx = [t |-> 0, got |-> <<>>]
    /\ outstanding = <<>>

-----------------------------------------------------------------------------
(***************************************************************************)
(* MemoryUnit.  A word is taken as it is, whatever the low bits of its     *)
(* address; a half word at the last byte loses its upper half.             *)
(***************************************************************************)
Lsb(op) == IF op.size = 4 THEN 0 ELSE op.lsb

Lane(word, l) == IF l \in Lanes THEN word[l] ELSE ZeroByte

Fill(op, byte) ==
    IF op.signed THEN [i \in 1..Bits |-> byte[Bits]] ELSE ZeroByte

(* Mutant of Loaded: the sign is that of the first byte. *)
LoadedWithFirstSign(op, word) ==
    IF op.store THEN ZeroWord
    ELSE [l \in Lanes |-> IF l < op.size THEN Lane(word, Lsb(op) + l)
                          ELSE Fill(op, Lane(word, Lsb(op)))]

Loaded(op, word) ==
    IF op.store THEN ZeroWord
    ELSE [l \in Lanes |-> IF l < op.size THEN Lane(word, Lsb(op) + l)
                          ELSE Fill(op, Lane(word, Lsb(op) + op.size - 1))]

Mask(op) == {l \in Lanes : l - Lsb(op) \in 0..op.size - 1}

WriteData(op) ==
    [l \in Lanes |-> IF l \in Mask(op) THEN op.value[l - Lsb(op)] ELSE ZeroByte]

-----------------------------------------------------------------------------
(***************************************************************************)
(* The arbiter, the bridge and the address decoder.                        *)
(***************************************************************************)
Owner ==
    IF "debug" \in granted THEN "debug"
    ELSE IF "dbus" \in granted THEN "dbus" ELSE "ibus"

Owns(p) == p \in granted /\ p = Owner

BusOp == IF granted = {} THEN Nothing ELSE request[Owner]
BusEn == BusOp # Nothing
Ack   == \E d \in Dev : BusOp.dev = d /\ slave[d] = "DONE"
Cyc(d) == BusOp.dev = d /\ ~Ack

PortAck(p) == Owns(p) /\ Ack

(* Mutant of BusFree: requests are latched in every cycle. *)
BusFreeAlways == TRUE

BusFree == ~BusEn

LatchRequests ==
    granted' = IF BusFree THEN {p \in Port : request[p] # Nothing} ELSE granted

(***************************************************************************)
(* The ports.  The hart fetches in FETCH and loads or stores in EXECUTE,   *)
(* one or the other, with at least one other state in between; every port  *)
(* holds its request until the acknowledge.                                *)
(***************************************************************************)
HartRests == request["ibus"] = Nothing /\ request["dbus"] = Nothing

AccessesOf(p) == IF p = "debug" \/ HartRests THEN workload[p] ELSE {}

NextRequest(p) ==
    IF request[p] = Nothing THEN AccessesOf(p) \cup {Nothing}
    ELSE IF PortAck(p) THEN {Nothing} ELSE {request[p]}

PortsStep ==
    /\ \E b \in NextRequest("debug"), d \in NextRequest("dbus"), i \in NextRequest("ibus") :
         /\ d = Nothing \/ i = Nothing
         /\ request' = [p \in Port |-> CASE p = "debug" -> b
                                         [] p = "dbus" -> d
                                         [] p = "ibus" -> i]
    /\ answer' = [p \in Port |->
                    IF PortAck(p) THEN <<Loaded(request[p], datR[request[p].dev])>>
                    ELSE <<>>]
    /\ UNCHANGED workload

-----------------------------------------------------------------------------
(***************************************************************************)
(* The Wishbone slaves: WishboneSlave with the FSM of its owner inside.    *)
(* REQ and DONE are states of both, WAIT and RET (PARK) of the owner's.    *)
(***************************************************************************)
(* tx_ready: the UART takes a byte in this cycle. *)
Sends ==
    /\ Cyc("uart") /\ slave["uart"] = "REQ"
    /\ BusOp.word = DataReg /\ BusOp.store
    /\ tx = "IDLE"

Busy == tx # "IDLE" \/ Sends

(* Mutant of UartStep: from WAIT back to IDLE. *)
UartStepForgets ==
    CASE slave["uart"] = "REQ" ->
            IF BusOp.word = BusyReg THEN "RET" ELSE IF Sends THEN "WAIT" ELSE "REQ"
      [] slave["uart"] = "WAIT" -> IF tx = "IDLE" THEN "REQ" ELSE "WAIT"
      [] slave["uart"] = "RET" -> "DONE"

UartStep ==
    CASE slave["uart"] = "REQ" ->
            IF BusOp.word = BusyReg THEN "RET" ELSE IF Sends THEN "WAIT" ELSE "REQ"
      [] slave["uart"] = "WAIT" -> IF tx = "IDLE" THEN "RET" ELSE "WAIT"
      [] slave["uart"] = "RET" -> "DONE"

MemoryStepOf(d) == IF slave[d] = "REQ" THEN "RET" ELSE "DONE"

SlaveStep ==
    slave' = [d \in Dev |->
                IF slave[d] = "DONE" THEN "REQ"
                ELSE IF ~Cyc(d) THEN slave[d]
                ELSE IF d = "uart" THEN UartStep ELSE MemoryStepOf(d)]

Taken(d) == Cyc(d) /\ slave[d] = "REQ"
Reads(d) == Taken(d) /\ ~BusOp.store

Merged(op, word) ==
    [l \in Lanes |-> IF l \in Mask(op) THEN WriteData(op)[l] ELSE word[l]]

MemoryStep ==
    memory' =
      IF (\E d \in Dev : Taken(d)) /\ BusOp.store /\ CellOf(BusOp) \in Cell
      THEN [memory EXCEPT ![CellOf(BusOp)] = Merged(BusOp, @)]
      ELSE memory

(* The read port shows word 0 when nothing is asked of it. *)
RamStep ==
    ramData' = [d \in Ram |-> memory'[<<d, IF Reads(d) THEN BusOp.word ELSE 0>>]]

FlagWord(b) ==
    [ZeroWord EXCEPT ![0] = [i \in 1..Bits |-> IF b /\ i = 1 THEN 1 ELSE 0]]

DatRStep ==
    datR' = [d \in Dev |->
        CASE d \in Ram -> IF Cyc(d) /\ slave[d] = "RET" THEN ramData[d] ELSE datR[d]
          [] d = "gpio" -> IF Reads(d) /\ BusOp.word = 0 THEN memory[<<d, 0>>] ELSE datR[d]
          [] d = "uart" -> IF Reads(d) THEN FlagWord(Busy) ELSE datR[d]]

(* The pins are assigned while the slave handles a request. *)
PinsStep == pins' = IF Cyc("gpio") THEN memory[<<"gpio", 0>>] ELSE pins

-----------------------------------------------------------------------------
(***************************************************************************)
(* The transmitter of the UART.                                            *)
(***************************************************************************)
Strobe == counter = 0

(* Mutant of CounterStep: a bit lasts a cycle too long. *)
CounterStepLong == counter' = IF Strobe \/ Sends THEN Divisor ELSE counter - 1

CounterStep ==
    counter' = IF Strobe \/ Sends THEN Divisor - 1 ELSE counter - 1

TxIdle ==
    /\ tx = "IDLE"
    /\ IF Sends
       THEN tx' = "START" /\ latch' = WriteData(BusOp)[0] /\ UNCHANGED line
       ELSE line' = 1 /\ UNCHANGED <<tx, latch>>
    /\ UNCHANGED bitno

TxStart ==
    /\ tx = "START"
    /\ IF Strobe THEN line' = 0 /\ tx' = "DATA" ELSE UNCHANGED <<line, tx>>
    /\ UNCHANGED <<bitno, latch>>

(* Mutant of TxShift: the last bit is not sent. *)
TxShiftShort ==
    /\ tx = "DATA"
    /\ IF Strobe
       THEN /\ line' = latch[1] /\ latch' = Append(Tail(latch), 0)
            /\ bitno' = (bitno + 1) % Bits
            /\ tx' = IF bitno = Bits - 2 THEN "STOP" ELSE "DATA"
       ELSE UNCHANGED <<line, latch, bitno, tx>>

TxShift ==
    /\ tx = "DATA"
    /\ IF Strobe
       THEN /\ line' = latch[1] /\ latch' = Append(Tail(latch), 0)
            /\ bitno' = (bitno + 1) % Bits
            /\ tx' = IF bitno = Bits - 1 THEN "STOP" ELSE "DATA"
       ELSE UNCHANGED <<line, latch, bitno, tx>>

TxStop ==
    /\ tx = "STOP"
    /\ IF Strobe THEN line' = 1 /\ tx' = "IDLE" ELSE UNCHANGED <<line, tx>>
    /\ UNCHANGED <<bitno, latch>>

TxStep == CounterStep /\ (TxIdle \/ TxStart \/ TxShift \/ TxStop)

-----------------------------------------------------------------------------
(***************************************************************************)
(* Any receiver: it waits for the line to fall, looks again in the middle  *)
(* of the start bit, and then in the middle of every bit.                  *)
(***************************************************************************)
MiddleOf(bit) == Divisor \div 2 + bit * Divisor

RxDone == rx.t = MiddleOf(Bits + 1)

RxStep ==
    rx' = IF RxDone \/ (rx.t = 0 /\ line = 1) \/ (rx.t = MiddleOf(0) /\ line = 1)
          THEN [t |-> 0, got |-> <<>>]
          ELSE [t |-> rx.t + 1,
                got |-> IF \E b \in 1..Bits : rx.t = MiddleOf(b)
                        THEN Append(rx.got, line) ELSE rx.got]

HistoryStep ==
    LET left == IF RxDone /\ outstanding # <<>> THEN Tail(outstanding) ELSE outstanding
    IN  outstanding' = IF Sends THEN Append(left, WriteData(BusOp)[0]) ELSE left

-----------------------------------------------------------------------------
Edge ==
    /\ PortsStep /\ LatchRequests
    /\ SlaveStep /\ MemoryStep /\ RamStep /\ DatRStep /\ PinsStep
    /\ TxStep
    /\ RxStep /\ HistoryStep

Spec == Init /\ [][Edge]_vars

(* The clock of the design does not stop. *)
FairSpec == Spec /\ WF_vars(Edge)
=============================================================================

--------------------------- MODULE DevicesProps ---------------------------
(***************************************************************************)
(* Properties of the devices and of the way to them.                       *)
(***************************************************************************)
EXTENDS Devices

(* Every FSM is in one of its states, every register fits its width, and
   the UART takes no third byte before a receiver has the first. *)
TypeOK ==
    /\ workload \in Workloads
    /\ \A p \in Port : request[p] \in workload[p] \cup {Nothing}
    /\ DOMAIN request = Port
    /\ answer \in [Port -> {<<>>} \cup {<<word>> : word \in Word}]
    /\ granted \subseteq Port
    /\ slave \in [Dev -> {"REQ", "WAIT", "RET", "DONE"}]
    /\ \A d \in Dev \ {"uart"} : slave[d] # "WAIT"
    /\ ramData \in [Ram -> Word] /\ datR \in [Dev -> Word]
    /\ memory \in [Cell -> Word] /\ pins \in Word
    /\ tx \in {"IDLE", "START", "DATA", "STOP"}
    /\ counter \in 0..Divisor - 1 /\ bitno \in 0..Bits - 1
    /\ latch \in Byte /\ line \in Bit
    /\ outstanding \in Seq(Byte) /\ Len(outstanding) <= 2

-----------------------------------------------------------------------------
(* The state of DeviceContract: a slave has done what it is asked once it
   has left REQ, and holds the result in ramData, then in dat_r. *)
ShownBy(d) == IF d \in Ram /\ slave[d] = "RET" THEN ramData[d] ELSE datR[d]

Served(p) ==
    IF Owns(p) /\ \E d \in Dev : request[p].dev = d /\ slave[d] # "REQ"
    THEN <<Loaded(request[p], ShownBy(request[p].dev))>> ELSE <<>>

Size == [d \in Dev |-> IF d \in Ram THEN 4 * Depth ELSE IF d = "gpio" THEN 4 ELSE 0]

Bytes == [d \in Dev |-> [a \in 0..Size[d] - 1 |-> memory[<<d, a \div 4>>][a % 4]]]

Contract == INSTANCE DeviceContract WITH
    Op <- UNION {load[p] : load \in Workloads, p \in Port},
    Ones <- [i \in 1..Bits |-> 1],
    served <- [p \in Port |-> Served(p)], bytes <- Bytes

(***************************************************************************)
(* The memory unit, the bus and the slaves make every load and store what  *)
(* DeviceContract promises, for any size, sign and place in the word and   *)
(* whatever the other ports do meanwhile; a store to the GPIO is on the    *)
(* pins when it is over.                                                   *)
(***************************************************************************)
KeepsDeviceContract == Contract!ContractSpec

-----------------------------------------------------------------------------
(***************************************************************************)
(* A slave that is at work serves the access that has the bus now: no      *)
(* access finds a slave in the middle of another.                          *)
(***************************************************************************)
SlavesServe == \A d \in Dev : slave[d] # "REQ" => BusOp.dev = d

(***************************************************************************)
(* A receiver that knows nothing but the length of a bit hears the bytes   *)
(* the UART has taken, each once and in their order, however close they    *)
(* follow one another.                                                     *)
(***************************************************************************)
LineIsHeard ==
    RxDone => /\ line = 1
              /\ outstanding # <<>> /\ rx.got = Head(outstanding)

(***************************************************************************)
(* Every access is answered, the one that waits behind a byte the UART     *)
(* sends and the one a debugger keeps getting ahead of included.           *)
(***************************************************************************)
AccessAnswered == \A p \in Port : request[p] # Nothing ~> PortAck(p)
=============================================================================

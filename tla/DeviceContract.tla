-------------------------- MODULE DeviceContract --------------------------
(***************************************************************************)
(* What software may rely on when it loads and stores: there are bytes,    *)
(* each with its address, and an access happens at one moment between its  *)
(* request and its answer, to all its bytes at once.  There is no bus, no  *)
(* mask and no shift here.                                                 *)
(***************************************************************************)
EXTENDS Integers, Sequences

CONSTANTS Port, Op, Nothing, Byte, ZeroByte, Ones, Size

(* Size[d] is the number of bytes of memory that device d has. *)
Dev == DOMAIN Size

VARIABLES
    request,       \* what each port asks for, or Nothing
    served,        \* its result, once the access has happened
    answer,        \* the result a port was given
    bytes,         \* bytes[d][a]: the memory of the devices
    pins           \* the bytes of the GPIO, as the world sees them

contractVars == <<request, served, answer, bytes, pins>>

First(op) == 4 * op.word + op.lsb
Last(op)  == First(op) + op.size - 1
AddressesOf(op) == First(op)..Last(op)

(* An access that does not lie within one word is not trapped (TODO at
   loadstore.py:620): it is not known what it does to that word. *)
Contained(op) == op.lsb + op.size <= 4
WordOf(op) == 4 * op.word..4 * op.word + 3

Backed(op) == WordOf(op) \subseteq 0..Size[op.dev] - 1

Negative(byte) == byte[Len(byte)] = 1

Value(op, mem) ==
    [i \in 0..3 |->
        IF i < op.size THEN mem[First(op) + i]
        ELSE IF op.signed /\ Negative(mem[Last(op)]) THEN Ones ELSE ZeroByte]

Zeros == [i \in 0..3 |-> ZeroByte]

-----------------------------------------------------------------------------
ContractInit ==
    /\ request = [p \in Port |-> Nothing]
    /\ served = [p \in Port |-> <<>>] /\ answer = [p \in Port |-> <<>>]
    /\ bytes = [d \in Dev |-> [a \in 0..Size[d] - 1 |-> ZeroByte]]
    /\ pins = Zeros

(* A store changes the bytes it names, and no other. *)
StoreHappens(op) ==
    /\ \A d \in Dev \ {op.dev} : bytes'[d] = bytes[d]
    /\ \A a \in DOMAIN bytes[op.dev] :
         IF Contained(op) /\ a \in AddressesOf(op)
         THEN bytes'[op.dev][a] = op.value[a - First(op)]
         ELSE \/ ~Contained(op) /\ a \in WordOf(op)
              \/ bytes'[op.dev][a] = bytes[op.dev][a]

(* tx_busy is never seen set. *)
Result(op) ==
    IF op.store \/ op.dev = "uart" THEN Zeros ELSE Value(op, bytes[op.dev])

Determined(op) ==
    op.store \/ op.dev = "uart" \/ (Backed(op) /\ Contained(op))

Serve(p) ==
    /\ request[p] # Nothing /\ served[p] = <<>>
    /\ request'[p] = request[p]
    /\ Len(served'[p]) = 1
    /\ Determined(request[p]) => served'[p][1] = Result(request[p])
    /\ IF request[p].store THEN StoreHappens(request[p]) ELSE bytes' = bytes

(***************************************************************************)
(* The steps of a port: it asks, waits, its access happens, it is answered *)
(* - when the effects of the access are to be seen from outside.           *)
(***************************************************************************)
Wait(p) == request'[p] = request[p] /\ served'[p] = served[p]

Ask(p) ==
    /\ request[p] = Nothing
    /\ request'[p] \in Op
    /\ served'[p] = <<>>

Answer(p) ==
    /\ served[p] # <<>>
    /\ request[p].dev = "gpio" => pins = [i \in 0..3 |-> bytes["gpio"][i]]
    /\ request'[p] = Nothing /\ served'[p] = <<>>

Answers ==
    answer' = [p \in Port |-> IF request[p] # Nothing /\ request'[p] = Nothing
                              THEN served[p] ELSE <<>>]

PinsFollow ==
    pins' \in {pins, [i \in 0..3 |-> bytes["gpio"][i]]}

ContractNext ==
    /\ Answers /\ PinsFollow
    /\ \/ /\ \A p \in Port : Wait(p) \/ Ask(p) \/ Answer(p)
          /\ bytes' = bytes
       \/ \E p \in Port : /\ Serve(p)
                          /\ \A q \in Port \ {p} : Wait(q) \/ Ask(q)

ContractSpec == ContractInit /\ [][ContractNext]_contractVars
=============================================================================

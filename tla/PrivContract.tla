---------------------------- MODULE PrivContract ----------------------------
(***************************************************************************)
(* What the CSR unit and the exception unit promise a program: every       *)
(* instruction that is fetched is executed once, as one step that changes  *)
(* the mode and the registers as a whole, or it traps and does nothing     *)
(* else.  Code in the program buffer has the Debug CSRs for itself, and    *)
(* its exceptions leave no trace.                                          *)
(***************************************************************************)
EXTENDS CsrLayout

CONSTANTS Boot, Progbuf, Memory, Follow, Encoding(_)

VARIABLES
    pc, priv, csr,
    todo,      \* the instruction that is fetched and not executed, or None
    place      \* "program", "progbuf" or "halted"

privVars == <<pc, priv, csr, todo, place>>

None == [op |-> "none"]

PrivInit ==
    /\ pc = Boot /\ priv = Machine /\ todo = None /\ place = "program"
    /\ csr = [r \in CsrReg |-> ResetValue(r)]

Aligned(a) == a \cap Misaligning = {}

FetchInstr ==
    /\ place # "halted" /\ todo = None
    /\ Aligned(pc) /\ pc \in Memory
    /\ todo' \in Instr
    /\ UNCHANGED <<pc, priv, csr, place>>

Executes(ops) == place # "halted" /\ todo.op \in ops /\ todo' = None

Faults == todo.op \in {"load", "store"} /\ todo.addr \notin Memory

Retire ==
    /\ Executes({"plain", "jump", "load", "store"}) /\ ~Faults
    /\ pc' = IF todo.op = "jump" THEN todo.to ELSE Follow[pc]
    /\ UNCHANGED <<priv, csr, place>>

Refused ==
    \/ priv # Machine \/ todo.csr = "unimplemented"
    \/ todo.csr \in DebugCsr /\ place # "progbuf"

(* A csr instruction replaces the register by its new value. *)
AccessCsr ==
    /\ Executes({"csr"}) /\ ~Refused
    /\ csr' = IF OnlyReads(todo.func, todo.x0) THEN csr
              ELSE [csr EXCEPT ![todo.csr] =
                      Written(todo.csr, @, NewValue(todo.func, @, todo.val))]
    /\ pc' = Follow[pc]
    /\ UNCHANGED <<priv, place>>

(* mret is taken in every mode. *)
Mret ==
    /\ Executes({"mret"})
    /\ pc' = csr["mepc"] /\ priv' = csr["mstatus"] \cap Mpp
    /\ csr' = [csr EXCEPT !["mstatus"] =
                 Put(@, {MieBit}, IF MpieBit \in @ THEN {MieBit} ELSE {})]
    /\ UNCHANGED place

(* The causes without a case for mtval leave it as it is. *)
TrapTo(cause, value) ==
    /\ csr' = [csr EXCEPT !["mepc"] = pc, !["mcause"] = cause, !["mtval"] = value,
                          !["mstatus"] = Put(@, Mpp, priv)]
    /\ priv' = Machine
    /\ pc' = csr["mtvec"] \ Misaligning

(* An exception of the program buffer only ends it. *)
Except(cause, value) ==
    IF place = "program" THEN TrapTo(cause, value) /\ UNCHANGED place
    ELSE place' = "halted" /\ UNCHANGED <<pc, priv, csr>>

HaltsOnEbreak == place = "progbuf" \/ EbreakmBit \in csr["dcsr"]

RefuseToFetch ==
    /\ place # "halted" /\ todo = None /\ UNCHANGED todo
    /\ \/ ~Aligned(pc) /\ Except(FetchMisaligned, csr["mtval"])
       \/ Aligned(pc) /\ pc \notin Memory /\ Except(FetchAccessFault, pc)

RefuseToExecute ==
    \/ Executes({"illegal"}) /\ Except(IllegalInstr, Encoding(todo))
    \/ Executes({"csr"}) /\ Refused /\ Except(IllegalInstr, Encoding(todo))
    \/ Executes({"load"}) /\ Faults /\ Except(LoadAccessFault, todo.addr \ Misaligning)
    \/ Executes({"store"}) /\ Faults /\ Except(StoreAccessFault, todo.addr \ Misaligning)
    \/ Executes({"ecall"}) /\ Except(IF priv = Machine THEN EcallFromM ELSE EcallFromU,
                                     csr["mtval"])
    \/ Executes({"ebreak"}) /\ ~HaltsOnEbreak /\ Except(Breakpoint, csr["mtval"])

(* Entering Debug Mode saves pc, but not that of the program buffer. *)
EnterDebugMode(cause) ==
    /\ place' = "halted"
    /\ csr' = [csr EXCEPT !["dcsr"] = Put(@, Cause, cause),
                          !["dpc"] = IF place = "program" THEN pc ELSE @]
    /\ UNCHANGED <<pc, priv>>

Halt ==
    /\ place # "halted"
    /\ \/ Executes({"ebreak"}) /\ HaltsOnEbreak /\ EnterDebugMode(EbreakEntry)
       \/ /\ todo = None /\ UNCHANGED todo
          /\ \E c \in {HaltreqEntry, StepEntry} : EnterDebugMode(c)

Resume ==
    /\ place = "halted"
    /\ \/ place' = "program" /\ pc' = csr["dpc"]
       \/ place' = "progbuf" /\ pc' = Progbuf
    /\ UNCHANGED <<priv, csr, todo>>

PrivNext ==
    \/ FetchInstr \/ Retire \/ AccessCsr \/ Mret
    \/ RefuseToFetch \/ RefuseToExecute \/ Halt \/ Resume

PrivSpec == PrivInit /\ [][PrivNext]_privVars
=============================================================================

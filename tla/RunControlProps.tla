-------------------------- MODULE RunControlProps ---------------------------
(***************************************************************************)
(* The correctness properties of run control, and how RunControl is seen   *)
(* as the hart of HartContract.                                            *)
(***************************************************************************)
EXTENDS RunControl

(***************************************************************************)
(* The place of the debugged program.  While the program buffer runs it is *)
(* in the saved copy of dpc, then in dpc; in a hart that has entered Debug *)
(* Mode it is in dpc, and in pc otherwise.                                 *)
(***************************************************************************)
Place ==
    CASE debugMode /\ peFsm \in {"B", "C"} -> realDpc
      [] debugMode /\ peFsm \notin {"B", "C"} -> dpc
      [] ~debugMode /\ Halted /\ wasHalted -> dpc
      [] OTHER -> pc

Mode == IF debugMode \/ Halted THEN "halted" ELSE "running"

StepPending == IF JustResumed THEN step ELSE singleStep

Budget ==
    CASE Mode = "halted" -> "spent"
      [] Mode = "running" /\ ~StepPending -> "free"
      [] OTHER -> IF cpu = "CHECK_SHOULD_HALT" THEN "spent" ELSE "one"

Hart == INSTANCE HartContract
          WITH place <- Place, mode <- Mode, budget <- Budget,
               moving <- CsrWrites("dpc")

(* With a debugger that resumes only a hart it has read as halted, and a
   program buffer that takes no trap, the composed CPU and Debug Module keep
   the contract of HartContract: no instruction of the debugged program is
   lost or repeated over a halt, a resume or a program buffer (cpu.py HALTED,
   dmi_handlers.py POSTEXEC), and a single step executes one (cpu.py
   single_step_is_active). *)
KeepsHartContract == Hart!HartSpec

-----------------------------------------------------------------------------
(* A set of addresses the program buffer keeps to, in which no instruction
   traps. *)
SoundWithin(addrs) ==
    /\ ProgbufEntry \in addrs
    /\ addrs \cap (Misaligned \cup Unmapped) = {}
    /\ \A a \in addrs : \A i \in Code[a] :
         /\ i.op \notin {"badmem", "trap"}
         /\ i.op \in {"jump", "mret"} => i.to \in addrs
         /\ i.op \notin {"jump", "mret", "ebreak"} => Follow[a] \in addrs

ProgbufIsSound == \E addrs \in SUBSET Addr : SoundWithin(addrs)

-----------------------------------------------------------------------------
(***************************************************************************)
(* The inductive invariant behind the safety properties.                   *)
(***************************************************************************)

(* An inner FSM of HandlerCOMMAND is away from its first state only while the
   handler is active and the latched command leads there. *)
CommandShape ==
    /\ ~CommandActive =>
         cmdFsm = "TRANSFER" /\ xferFsm = "A" /\ peFsm = "SANITY_CHECK"
    /\ xferFsm = "B" => /\ cmdFsm = "TRANSFER"
                        /\ command.cmdtype = "AccessRegister"
                        /\ command.transfer \in {"read", "write"}
    /\ cmdFsm = "POSTEXEC" => command.cmdtype = "AccessRegister"
    /\ peFsm # "SANITY_CHECK" => cmdFsm = "POSTEXEC" /\ command.postexec

DmShape ==
    /\ busy <=> dm # "IDLE"
    /\ dataFsm # "LATCH" => \E d \in DataReg : Handles(d)
    /\ CommandShape

(* An acknowledge FSM is in B only while the request that took it there is up. *)
RequestsStand ==
    /\ haltFsm = "B" => HaltReq
    /\ resumeFsm = "B" => ResumeReq

(* The hart on the way from SANITY_CHECK into the program buffer. *)
EntersProgbuf ==
    /\ peFsm \in {"A", "B"} => Halted /\ wasHalted
    /\ peFsm = "C" =>
         \/ Halted /\ wasHalted /\ resumeFsm = "A" /\ dpc = ProgbufEntry
         \/ cpu = "FETCH" /\ wasHalted /\ resumeFsm = "B" /\ pc = ProgbufEntry
    /\ peFsm \in {"B", "C", "D"} => debugMode

RunControlInv == TypeOK /\ DmShape /\ RequestsStand /\ EntersProgbuf

-----------------------------------------------------------------------------
(* cpu_dm_if.py: "it's slave's responsibility to assure, that no spurious ack
   are asserted".  Every acknowledge answers a request that is still there,
   whatever else halts or starts the hart: this includes the haltack check
   the checker has commented out. *)
NoSpuriousAck == (HaltAck => HaltReq) /\ (ResumeAck => ResumeReq)

(* cpu_dm_if.py: "{halt/resume}req is kept high until {halt/resume}ack is
   received - deasserting it before ack is invalid", and it is low in the
   cycle after. *)
RequestHeldUntilAck ==
    [][/\ HaltReq /\ ~HaltAck => HaltReq'
       /\ ResumeReq /\ ~ResumeAck => ResumeReq'
       /\ HaltAck => ~HaltReq'
       /\ ResumeAck => ~ResumeReq']_vars

(* abstractcs.busy is set from the cycle after the DMI FSM accepts an
   operation until it is back in IDLE (top.py).  Nothing is in flight when it
   is low: no handler is between two of its states. *)
IdleMeansQuiescent ==
    /\ busy <=> dm # "IDLE"
    /\ ~busy => /\ cmdFsm = "TRANSFER" /\ xferFsm = "A" /\ dataFsm = "LATCH"
                /\ peFsm = "SANITY_CHECK" /\ haltFsm = "A" /\ resumeFsm = "A"

(* dpc has three writers with no arbitration between them: the CPU in its
   first halted cycle, HandlerCOMMAND around a program buffer ("we shouldn't
   write to CPU CSR directly from DM"), and the CSR unit.  No two of them
   write in the same cycle. *)
DpcWriters ==
    {w \in {"cpu", "dm", "csr"} :
        \/ w = "cpu" /\ JustHalted /\ ~debugMode
        \/ w = "dm" /\ DmWritesDpc
        \/ w = "csr" /\ CsrWrites("dpc")}

DpcHasOneWriter == \A v, w \in DpcWriters : v = w

(* top.py: "If an exception is encountered during execution of the Program
   Buffer, no more instructions are executed, the hart remains in Debug Mode,
   and cmderr is set to 3".  The trap that could be lost is one taken while
   HandlerCOMMAND is still waiting for resumeack. *)
ProgbufFaultReported ==
    [][(\E ans \in BusAnswers : ErrorOnProgbuf(ans))
         /\ (Executing("C") \/ Executing("D"))
       => cpu' = "HALTED" /\ dm' = "IDLE" /\ cmderr' = Exception]_vars

(* dmi_handlers.py POSTEXEC: is_debug_mode is raised for the execution of
   the program buffer and for nothing else, so that only there an ebreak
   halts without dcsr.ebreakm and dpc is left alone on entry. *)
DebugModeIsProgbuf == debugMode <=> CommandActive /\ peFsm \in {"B", "C", "D"}

(* From the cycle in which HandlerCOMMAND has found the hart halted until it
   asks for the resume itself, the hart stays halted (dmi_handlers.py
   SANITY_CHECK, A, B): the check is not stale when it is used. *)
SanityCheckNotStale == CommandActive /\ peFsm \in {"A", "B"} => Halted /\ wasHalted

(* HandlerCOMMAND makes the hart start at the first word of the program
   buffer by writing dpc two cycles before it resumes it, and takes dpc back
   in the cycle of the acknowledge (dmi_handlers.py A, B, C): a hart that
   has left HALTED while the acknowledge is awaited fetches from there, and
   has not got further. *)
ProgbufStartsAtItsFirstWord ==
    Executing("C") /\ ~Halted => cpu = "FETCH" /\ pc = ProgbufEntry

(* cpu.py HALTED: on entry dpc takes "the virtual address of the next
   instruction to be executed", and "when resuming, the hart's PC is updated
   to the virtual address stored in dpc".  So a hart that leaves HALTED goes
   on at its place, also when the resume request was already up while the hart
   was on its way into HALTED. *)
ResumesAtItsPlace == [][Mode = "halted" /\ Mode' = "running" => Place' = Place]_vars

(* A register access takes two cycles (dmi_handlers.py TRANSFER A and B): the
   Debug Module drives the ports of the register file in the first, and the
   value it read arrives in the second. *)
RegisterMoved ==
    /\ gpr' = gpr
    /\ command.transfer = "read" =>
         data' = [data EXCEPT !["DATA0"] = gpr[command.regno]]
    /\ command.transfer = "write" =>
         data' = data /\ gpr[command.regno] = data["DATA0"]

(* dmi_handlers.py: a COMMAND leaves TRANSFER for POSTEXEC only with its
   transfer made: data0 has the named register's value, or the register has that
   of data0, if the hart was halted in the first cycle of the access.  And it
   ends with cmderr zero only after that, with the hart having run the program
   buffer and halted again where it was asked to.  Of a hart that runs the
   property says nothing: there the code reads zero or drops the write, and
   reports no error. *)
NoErrMeansDone ==
    [][/\ cmdFsm = "TRANSFER" /\ cmdFsm' = "POSTEXEC" =>
            \/ command.transfer = "none"
            \/ /\ command.transfer \in {"read", "write"} /\ xferFsm = "B"
               /\ wasHalted => RegisterMoved
       /\ CommandActive /\ dm' = "IDLE" /\ cmderr' = NoErr =>
            /\ command.cmdtype = "AccessRegister" /\ cmdFsm = "POSTEXEC"
            /\ command.transfer \notin {"badsize", "badreg"}
            /\ command.postexec => Executing("D") /\ Halted]_vars

(* HandlerDATA triggers the latched COMMAND one cycle after it latches the
   data, and COMMAND takes its argument from data0: an automatic execution
   works on the value whose write triggered it. *)
AutoexecUsesNewData ==
    AutoExec /\ Transferring("write", "A") => data[req.reg] = req.value

-----------------------------------------------------------------------------
(* Liveness. *)

(* cpu_dm_if.py: "every Xreq will eventually be acked", a haltreq on a halted
   hart and a resumereq on a running one included. *)
HaltRequestServed   == HaltReq ~> HaltAck
ResumeRequestServed == ResumeReq ~> ResumeAck

(* The DMI FSM returns to IDLE from every operation (top.py WAIT), if the
   program buffer ends: while it waits it drops what the debugger sends.  A
   write to the program buffer gets the bus from a hart that only traps: the
   TRAP state was added to cpu.py because with a fetch from an unmapped mtvec
   "the debug bus couldn't take the bus ownership". *)
DmiOperationFinishes == busy ~> ~busy

(* A hart resumed with dcsr.step set halts again (single_step_is_active). *)
SteppedHartHalts == Hart!SteppedHartHalts

=============================================================================

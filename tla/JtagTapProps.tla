--------------------------- MODULE JtagTapProps ---------------------------
(***************************************************************************)
(* Properties of the test access port and the DMI register behind it.      *)
(***************************************************************************)
EXTENDS JtagTap

State ==
    {"TEST-LOGIC-RESET", "RUN-TEST-IDLE", "SELECT-DR-SCAN", "CAPTURE-DR", "SHIFT-DR",
     "EXIT1-DR", "PAUSE-DR", "EXIT2-DR", "UPDATE-DR", "SELECT-IR-SCAN", "CAPTURE-IR",
     "SHIFT-IR", "EXIT1-IR", "PAUSE-IR", "EXIT2-IR", "UPDATE-IR"}

(* Every FSM is in one of its states and every register has its width. *)
TypeOK ==
    /\ tck \in Bit /\ since \in 1..MinHalf
    /\ fsm \in State
    /\ ir \in Instruction /\ dr \in Words(DrWidth) /\ tdo \in Bit
    /\ w \in Message /\ update \in BOOLEAN
    /\ r \in Message /\ dmi \in {"IDLE", "DEASSERT_BUSY", "WAIT"}
    /\ write \in Message
    /\ pins \in [tms : Bit, tdi : Bit, tdo : Bit] /\ parity \in Bit /\ ones \in 0..5

-----------------------------------------------------------------------------
(***************************************************************************)
(* A debugger that has lost track resets the port: after five rising edges *)
(* with tms high the port is in TEST-LOGIC-RESET, from whichever of its    *)
(* states it started.                                                      *)
(***************************************************************************)
FiveOnesReset == ones = 5 => fsm = "TEST-LOGIC-RESET"

(***************************************************************************)
(* The Debug Module sees what was shifted in, and not a part of it: in the *)
(* cycle of update, w holds the DMI register as it is in UPDATE-DR, and    *)
(* dmi is ready for it but for a write.                                    *)
(***************************************************************************)
UpdateIsWhole ==
    update => /\ Updating /\ tck = 0 /\ since = 1
              /\ w = SubSeq(dr, 1, DmiWidth)
              /\ dmi # "DEASSERT_BUSY"

-----------------------------------------------------------------------------
(* The state of DebugTransport.  The code shifts ir itself, and sets it to
   IDCODE when it leaves TEST-LOGIC-RESET; while a code is shifted the
   standard has the old one in force, and the port uses neither. *)
ScansIr == fsm \in {"CAPTURE-IR", "SHIFT-IR", "EXIT1-IR", "PAUSE-IR", "EXIT2-IR"}
ScansDr == fsm \in {"SHIFT-DR", "EXIT1-DR", "PAUSE-DR", "EXIT2-DR", "UPDATE-DR"}

TransportInstr ==
    IF fsm = "TEST-LOGIC-RESET" THEN IDCODE ELSE IF ScansIr THEN <<>> ELSE ir

TransportSr ==
    IF ScansDr /\ HasRegister THEN SubSeq(dr, 1, Width)
    ELSE IF ScansIr /\ fsm # "CAPTURE-IR" THEN ir ELSE <<>>

Transport == INSTANCE DebugTransport WITH
    st <- fsm, instr <- TransportInstr, sr <- TransportSr,
    tms <- pins.tms, tdi <- pins.tdi, tdo <- pins.tdo,
    due <- Updating /\ (tck = 1 \/ update), writing <- (dmi = "WAIT"), result <- r,
    Empty <- Zeros(DmiWidth)

-----------------------------------------------------------------------------
(* Where the code does something else than DebugTransport: these steps, and
   no others.  EXIT2-IR waits for tms = 1 and never goes back to SHIFT-IR
   (jtag.py:231); UPDATE-IR goes past the scan of a register (jtag.py:238). *)
WrongArrow ==
    /\ \/ fsm = "EXIT2-IR" /\ pins'.tms = 0 /\ fsm' = "EXIT2-IR"
       \/ fsm = "UPDATE-IR" /\ pins'.tms = 1 /\ fsm' = "SELECT-IR-SCAN"
    /\ Transport!RisingEdge(TransportSr)

(* With an instruction that has no register there is nothing to scan: the
   switches at jtag.py:138 and 154 have no case for BYPASS. *)
NoBypass ==
    /\ fsm \in {"CAPTURE-DR", "SHIFT-DR"} /\ ~HasRegister
    /\ Transport!Leads(fsm, pins'.tms, fsm')
    /\ Transport!RisingEdge(<<>>)

(* A read of no register leaves the result of an earlier read in place
   (top.py:140); test_debug_unit.py:199 has 0. *)
StaleRead == w \notin Answered /\ Transport!TakesRead({r})

(* An update during a write is lost, and nothing tells (top.py:147). *)
MissedUpdate == Transport!Takes /\ dmi = "WAIT" /\ Transport!MayFinish

Deviates == WrongArrow \/ NoBypass \/ StaleRead \/ MissedUpdate

(***************************************************************************)
(* Whatever the debugger does, the port and the Debug Module behind it     *)
(* follow DebugTransport in every step that is none of the four deviations *)
(* above: tdo shows the captured bits in order, an update reaches the      *)
(* Debug Module once and whole, and the next capture finds the answer.     *)
(***************************************************************************)
StandardUpToDeviations ==
    /\ Transport!TransportInit
    /\ [][Transport!TransportNext \/ Deviates]_(Transport!transportVars)
=============================================================================

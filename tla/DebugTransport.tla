-------------------------- MODULE DebugTransport --------------------------
(***************************************************************************)
(* What a debugger may rely on at its end of the cable: a test access port *)
(* after IEEE 1149.1, and behind its DMI register a Debug Module that does *)
(* one operation at a time.  There is no system clock here: there are      *)
(* rising edges of tck, and between them updates and ends of operations.   *)
(***************************************************************************)
EXTENDS Naturals, Sequences

CONSTANTS
    IDCODE, DMI,   \* two codes of the instruction register: sequences of bits
    ReadOnly,      \* ReadOnly[i]: what a register shows that never changes
    Message,       \* contents of the DMI register
    Results,       \* those a read may leave there
    OpOf,          \* OpOf[m]: the operation m asks for
    Answered,      \* the messages whose address names a register
    Empty          \* what a read of no register gives

Bit == {0, 1}
None == <<>>

VARIABLES
    st,            \* state of the port
    instr,         \* the instruction in force; None while one is scanned
    sr,            \* the shift register between capture and update
    tms, tdi,      \* what the debugger put on the lines at the last rising edge
    tdo,           \* the bit it was given there
    due,           \* an update of the DMI register is still to come
    parity,        \* of the number of updates
    writing,       \* the Debug Module is busy with a write
    write,         \* the last write it took
    result         \* what the next capture of the DMI register finds

dmVars == <<writing, write, result>>
pins == <<tms, tdi, tdo>>
transportVars == <<st, instr, sr, pins, due, parity, dmVars>>

(***************************************************************************)
(* The state diagram of the standard: where tms leads, low and high.       *)
(***************************************************************************)
Arrow(s, low, high) == [from |-> s, on |-> <<low, high>>]

Diagram == {
    Arrow("TEST-LOGIC-RESET", "RUN-TEST-IDLE", "TEST-LOGIC-RESET"),
    Arrow("RUN-TEST-IDLE",    "RUN-TEST-IDLE", "SELECT-DR-SCAN"),
    Arrow("SELECT-DR-SCAN",   "CAPTURE-DR",    "SELECT-IR-SCAN"),
    Arrow("CAPTURE-DR",       "SHIFT-DR",      "EXIT1-DR"),
    Arrow("SHIFT-DR",         "SHIFT-DR",      "EXIT1-DR"),
    Arrow("EXIT1-DR",         "PAUSE-DR",      "UPDATE-DR"),
    Arrow("PAUSE-DR",         "PAUSE-DR",      "EXIT2-DR"),
    Arrow("EXIT2-DR",         "SHIFT-DR",      "UPDATE-DR"),
    Arrow("UPDATE-DR",        "RUN-TEST-IDLE", "SELECT-DR-SCAN"),
    Arrow("SELECT-IR-SCAN",   "CAPTURE-IR",    "TEST-LOGIC-RESET"),
    Arrow("CAPTURE-IR",       "SHIFT-IR",      "EXIT1-IR"),
    Arrow("SHIFT-IR",         "SHIFT-IR",      "EXIT1-IR"),
    Arrow("EXIT1-IR",         "PAUSE-IR",      "UPDATE-IR"),
    Arrow("PAUSE-IR",         "PAUSE-IR",      "EXIT2-IR"),
    Arrow("EXIT2-IR",         "SHIFT-IR",      "UPDATE-IR"),
    Arrow("UPDATE-IR",        "RUN-TEST-IDLE", "SELECT-DR-SCAN")}

Leads(s, on, t) == \E a \in Diagram : a.from = s /\ a.on[on + 1] = t

TransportInit ==
    /\ st = "TEST-LOGIC-RESET" /\ instr = IDCODE
    /\ sr = None /\ tms \in Bit /\ tdi \in Bit /\ tdo \in Bit
    /\ due = FALSE /\ parity = 0
    /\ writing = FALSE /\ write \in Message /\ result \in Message

-----------------------------------------------------------------------------
(* A write of the Debug Module may end at any time. *)
MayFinish == writing' \in {writing, FALSE} /\ UNCHANGED <<write, result>>

(* What a capture loads; an instruction without a register of its own has
   BYPASS, of one bit. *)
Captured ==
    IF instr = DMI THEN result
    ELSE IF instr \in DOMAIN ReadOnly THEN ReadOnly[instr] ELSE <<0>>

Shifts == st \in {"SHIFT-DR", "SHIFT-IR"}

(* While the port shifts, the debugger is given the lowest bit. *)
ShiftsOut == Shifts => sr # None /\ tdo' = Head(sr)

Scanned ==
    IF st' \in {"UPDATE-IR", "RUN-TEST-IDLE", "SELECT-DR-SCAN"} THEN None
    ELSE IF st = "CAPTURE-DR" THEN Captured
    ELSE IF st = "CAPTURE-IR" THEN IDCODE
    ELSE IF Shifts THEN Append(Tail(sr), tdi')
    ELSE sr

(***************************************************************************)
(* A rising edge of tck that leaves s in the shift register.  No state is  *)
(* left with its update outstanding, so a capture finds what the update    *)
(* before it asked for.                                                    *)
(***************************************************************************)
RisingEdge(s) ==
    /\ ~due
    /\ tms' \in Bit /\ tdi' \in Bit /\ tdo' \in Bit
    /\ sr' = s
    /\ instr' = IF st' = "TEST-LOGIC-RESET" THEN IDCODE
                ELSE IF st' = "UPDATE-IR" THEN sr
                ELSE IF st' = "CAPTURE-IR" THEN None
                ELSE instr
    /\ due' = (st' = "UPDATE-DR" /\ instr = DMI)
    /\ MayFinish
    /\ UNCHANGED parity

Rise == Leads(st, tms', st') /\ ShiftsOut /\ RisingEdge(Scanned)

(***************************************************************************)
(* The update: once per visit to UPDATE-DR, with all that was shifted in,  *)
(* by a Debug Module that has done what it was asked before.               *)
(***************************************************************************)
Takes == due /\ ~due' /\ parity' = 1 - parity /\ UNCHANGED <<st, instr, sr, pins>>

TakesNop == Takes /\ ~writing /\ OpOf[sr] = "NOP" /\ UNCHANGED dmVars

TakesRead(answers) ==
    /\ Takes /\ ~writing /\ OpOf[sr] = "READ"
    /\ result' \in answers
    /\ UNCHANGED <<writing, write>>

TakesWrite ==
    /\ Takes /\ ~writing /\ OpOf[sr] = "WRITE"
    /\ writing' = TRUE /\ write' = sr
    /\ UNCHANGED result

Update ==
    \/ TakesNop
    \/ TakesRead(IF sr \in Answered THEN Results ELSE {Empty})
    \/ TakesWrite

FinishWrite ==
    writing /\ MayFinish /\ UNCHANGED <<st, instr, sr, pins, due, parity>>

TransportNext == Rise \/ Update \/ FinishWrite
=============================================================================

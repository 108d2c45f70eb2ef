----------------------------- MODULE JtagTap -----------------------------
(***************************************************************************)
(* The test access port (jtag.py) and the FSM of the Debug Module that     *)
(* takes operations from its DMI register (top.py).  A step is one edge of *)
(* the system clock, in which tck, as it comes out of the synchronizers,   *)
(* may rise or fall.                                                       *)
(*                                                                         *)
(* The debugger is free to choose tms and tdi.  What the Debug Module does *)
(* with a write, and for how long, is the matter of RunControl.            *)
(***************************************************************************)
EXTENDS Naturals, Sequences

CONSTANTS
    IDCODE, DMI,   \* JtagIR: instructions are sequences of bits, lowest first
    ReadOnly,      \* [instruction -> word]: IDCODE and DTMCS, as they read
    DrWidth,       \* width of dr, the widest of the registers
    DmiWidth,      \* width of IR_DMI_Layout
    OpOf,          \* OpOf[m]: the field op of message m
    Answered,      \* messages whose address is that of a DMI register
    Results,       \* what the DMI register may hold after a read
    MinHalf        \* cycles from one edge of tck to the next, at least

Bit == {0, 1}
Words(n) == [1..n -> Bit]
Message == Words(DmiWidth)
IrWidth == Len(IDCODE)
Instruction == Words(IrWidth)
Zeros(n) == [i \in 1..n |-> 0]

ASSUME InstructionAssumption ==
    /\ IDCODE \in Seq(Bit) /\ Len(IDCODE) > 0
    /\ DMI \in Instruction
    /\ DMI \notin DOMAIN ReadOnly

ASSUME RegisterAssumption ==
    /\ DrWidth \in Nat /\ DmiWidth \in 1..DrWidth
    /\ IDCODE \in DOMAIN ReadOnly
    /\ \A i \in DOMAIN ReadOnly :
         ReadOnly[i] \in Seq(Bit) /\ Len(ReadOnly[i]) \in 1..DrWidth

ASSUME MessageAssumption ==
    /\ OpOf \in [Message -> {"NOP", "READ", "WRITE"}]
    /\ Answered \subseteq Message
    /\ Results \subseteq Message

(* A period of tck is some cycles long: the port has no say in it. *)
ASSUME TckAssumption == MinHalf \in Nat /\ MinHalf >= 2

-----------------------------------------------------------------------------
VARIABLES
    tck,       \* prev_tck
    since,     \* cycles since the last edge of tck, counted up to MinHalf
    fsm,       \* jtag_fsm
    ir, dr, tdo,
    w,         \* record.w of the DMI register
    update,    \* its record.update
    r,         \* its record.r
    dmi,       \* the Debug Module's FSM
    write,     \* dmi_write_value and dmi_write_address
    \* History, for the properties.
    pins,      \* tms, tdi and tdo as they were at the last rising edge of tck
    parity,    \* of the number of cycles with update high
    ones       \* rising edges with tms = 1 in a row, counted up to 5

lineVars == <<tck, since>>
tapVars  == <<fsm, ir, dr, tdo, w, update>>
dmVars   == <<r, dmi, write>>
history  == <<pins, parity, ones>>
vars == <<lineVars, tapVars, dmVars, history>>

Init ==
    /\ tck = 0 /\ since = MinHalf
    /\ fsm = "TEST-LOGIC-RESET"
    /\ ir = Zeros(IrWidth) /\ dr = Zeros(DrWidth) /\ tdo = 0
    /\ w = Zeros(DmiWidth) /\ update = FALSE
    /\ r = Zeros(DmiWidth) /\ dmi = "IDLE" /\ write = Zeros(DmiWidth)
    /\ pins = [tms |-> 0, tdi |-> 0, tdo |-> 0] /\ parity = 0 /\ ones = 0

-----------------------------------------------------------------------------
(***************************************************************************)
(* The state diagram of jtag_fsm.                                          *)
(***************************************************************************)
OnLow(s) ==
    CASE s \in {"TEST-LOGIC-RESET", "RUN-TEST-IDLE", "UPDATE-DR", "UPDATE-IR"}
            -> "RUN-TEST-IDLE"
      [] s = "SELECT-DR-SCAN" -> "CAPTURE-DR"
      [] s \in {"CAPTURE-DR", "SHIFT-DR", "EXIT2-DR"} -> "SHIFT-DR"
      [] s \in {"EXIT1-DR", "PAUSE-DR"} -> "PAUSE-DR"
      [] s = "SELECT-IR-SCAN" -> "CAPTURE-IR"
      [] s \in {"CAPTURE-IR", "SHIFT-IR"} -> "SHIFT-IR"
      [] s \in {"EXIT1-IR", "PAUSE-IR"} -> "PAUSE-IR"
      [] s = "EXIT2-IR" -> "EXIT2-IR"

(* Mutant of OnHigh: UPDATE-DR does not look at tms. *)
OnHighUpdateIdles(s) ==
    CASE s \in {"TEST-LOGIC-RESET", "SELECT-IR-SCAN"} -> "TEST-LOGIC-RESET"
      [] s = "RUN-TEST-IDLE" -> "SELECT-DR-SCAN"
      [] s = "UPDATE-DR" -> "RUN-TEST-IDLE"
      [] s \in {"CAPTURE-DR", "SHIFT-DR"} -> "EXIT1-DR"
      [] s = "PAUSE-DR" -> "EXIT2-DR"
      [] s \in {"EXIT1-DR", "EXIT2-DR"} -> "UPDATE-DR"
      [] s \in {"SELECT-DR-SCAN", "UPDATE-IR"} -> "SELECT-IR-SCAN"
      [] s \in {"CAPTURE-IR", "SHIFT-IR"} -> "EXIT1-IR"
      [] s = "PAUSE-IR" -> "EXIT2-IR"
      [] s \in {"EXIT1-IR", "EXIT2-IR"} -> "UPDATE-IR"

OnHigh(s) ==
    CASE s \in {"TEST-LOGIC-RESET", "SELECT-IR-SCAN"} -> "TEST-LOGIC-RESET"
      [] s \in {"RUN-TEST-IDLE", "UPDATE-DR"} -> "SELECT-DR-SCAN"
      [] s \in {"CAPTURE-DR", "SHIFT-DR"} -> "EXIT1-DR"
      [] s = "PAUSE-DR" -> "EXIT2-DR"
      [] s \in {"EXIT1-DR", "EXIT2-DR"} -> "UPDATE-DR"
      [] s \in {"SELECT-DR-SCAN", "UPDATE-IR"} -> "SELECT-IR-SCAN"
      [] s \in {"CAPTURE-IR", "SHIFT-IR"} -> "EXIT1-IR"
      [] s = "PAUSE-IR" -> "EXIT2-IR"
      [] s \in {"EXIT1-IR", "EXIT2-IR"} -> "UPDATE-IR"

-----------------------------------------------------------------------------
(***************************************************************************)
(* The registers of the port in a cycle in which tck does `edge'.          *)
(***************************************************************************)
HasRegister == ir = DMI \/ ir \in DOMAIN ReadOnly
Width == IF ir = DMI THEN DmiWidth ELSE Len(ReadOnly[ir])

Padded(word) == [i \in 1..DrWidth |-> IF i <= Len(word) THEN word[i] ELSE 0]

(* Mutant of ShiftedDr: the upper bound of dr[1:upper_bound] is one too high. *)
ShiftedDrOffByOne(tdi) ==
    [i \in 1..DrWidth |->
        IF i <= Width /\ i < DrWidth THEN dr[i + 1]
        ELSE IF i = Width + 1 THEN tdi ELSE 0]

(* Cat(dr[1:width], tdi) *)
ShiftedDr(tdi) ==
    [i \in 1..DrWidth |->
        IF i < Width THEN dr[i + 1] ELSE IF i = Width THEN tdi ELSE 0]

(* Mutant of IrStep: what is shifted in stays in front of what was there. *)
IrStepGrows(edge, tms, tdi) ==
    ir' = IF fsm = "CAPTURE-IR" \/ (fsm = "TEST-LOGIC-RESET" /\ edge = "rise" /\ tms = 0)
          THEN IDCODE
          ELSE IF fsm = "SHIFT-IR" /\ edge = "rise" /\ Len(ir) < 4 THEN Append(ir, tdi)
          ELSE ir

FsmStep(edge, tms) ==
    fsm' = IF edge # "rise" THEN fsm ELSE IF tms = 0 THEN OnLow(fsm) ELSE OnHigh(fsm)

IrStep(edge, tms, tdi) ==
    ir' = IF fsm = "CAPTURE-IR" \/ (fsm = "TEST-LOGIC-RESET" /\ edge = "rise" /\ tms = 0)
          THEN IDCODE
          ELSE IF fsm = "SHIFT-IR" /\ edge = "rise" THEN Append(Tail(ir), tdi)
          ELSE ir

DrStep(edge, tdi) ==
    dr' = IF HasRegister /\ fsm = "CAPTURE-DR"
          THEN Padded(IF ir = DMI THEN r ELSE ReadOnly[ir])
          ELSE IF HasRegister /\ fsm = "SHIFT-DR" /\ edge = "rise" THEN ShiftedDr(tdi)
          ELSE dr

TdoStep(edge) ==
    tdo' = IF edge = "fall" /\ fsm = "SHIFT-DR" THEN dr[1]
           ELSE IF edge = "fall" /\ fsm = "SHIFT-IR" THEN ir[1]
           ELSE tdo

Updating == fsm = "UPDATE-DR" /\ ir = DMI

(* Mutant of UpdateStep: update comes with the edge that leaves UPDATE-DR. *)
UpdateStepOnRise(edge) ==
    /\ w' = IF Updating THEN SubSeq(dr, 1, DmiWidth) ELSE w
    /\ update' = (Updating /\ edge = "rise")

(* update falls in the cycle after it rose. *)
UpdateStep(edge) ==
    /\ w' = IF Updating THEN SubSeq(dr, 1, DmiWidth) ELSE w
    /\ update' = (Updating /\ edge = "fall")

-----------------------------------------------------------------------------
(***************************************************************************)
(* The FSM of the Debug Module.  An update out of IDLE is not looked at;   *)
(* `sticky' is never set.                                                  *)
(***************************************************************************)
(* A read of no register leaves r as it was. *)
Read ==
    /\ dmi = "IDLE" /\ update /\ OpOf[w] = "READ"
    /\ IF w \in Answered THEN r' \in Results ELSE r' = r
    /\ dmi' = "DEASSERT_BUSY"
    /\ UNCHANGED write

Write ==
    /\ dmi = "IDLE" /\ update /\ OpOf[w] = "WRITE"
    /\ write' = w
    /\ dmi' = "WAIT"
    /\ UNCHANGED r

Idle ==
    /\ dmi = "IDLE" /\ (update => OpOf[w] = "NOP")
    /\ UNCHANGED dmVars

DeassertBusy ==
    dmi = "DEASSERT_BUSY" /\ dmi' = "IDLE" /\ UNCHANGED <<r, write>>

(* command_finished comes from the handler, after any number of cycles. *)
Wait ==
    dmi = "WAIT" /\ dmi' \in {"WAIT", "IDLE"} /\ UNCHANGED <<r, write>>

DmStep == Read \/ Write \/ Idle \/ DeassertBusy \/ Wait

-----------------------------------------------------------------------------
(* tck, as the synchronizer delivers it. *)
LineStep(edge) ==
    /\ \/ edge = "rise" /\ tck = 0 /\ tck' = 1
       \/ edge = "fall" /\ tck = 1 /\ tck' = 0
       \/ edge = "none" /\ UNCHANGED tck
    /\ IF edge = "none"
       THEN since' = IF since < MinHalf THEN since + 1 ELSE since
       ELSE since = MinHalf /\ since' = 1

HistoryStep(edge, tms, tdi) ==
    /\ pins' = IF edge = "rise" THEN [tms |-> tms, tdi |-> tdi, tdo |-> tdo] ELSE pins
    /\ parity' = IF update THEN 1 - parity ELSE parity
    /\ ones' = IF edge # "rise" THEN ones
               ELSE IF tms = 0 THEN 0 ELSE IF ones < 5 THEN ones + 1 ELSE ones

Edge(edge, tms, tdi) ==
    /\ LineStep(edge)
    /\ FsmStep(edge, tms) /\ IrStep(edge, tms, tdi) /\ DrStep(edge, tdi)
    /\ TdoStep(edge) /\ UpdateStep(edge)
    /\ DmStep
    /\ HistoryStep(edge, tms, tdi)

Next ==
    \/ \E tms, tdi \in Bit : Edge("rise", tms, tdi)
    \/ Edge("fall", 0, 0)
    \/ Edge("none", 0, 0)

Spec == Init /\ [][Next]_vars
=============================================================================

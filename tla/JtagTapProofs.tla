-------------------------- MODULE JtagTapProofs --------------------------
(***************************************************************************)
(* Theorems about the test access port, for instructions and registers of  *)
(* every width.                                                            *)
(***************************************************************************)
EXTENDS JtagTapProps, SequenceTheorems, TLAPS

(* The invariant FiveOnesReset rests on: with tms high, so many rising edges
   of tck at most are left on the way to TEST-LOGIC-RESET. *)
Distance(s) ==
    IF s = "TEST-LOGIC-RESET" THEN 0
    ELSE IF s = "SELECT-IR-SCAN" THEN 1
    ELSE IF s \in {"SELECT-DR-SCAN", "UPDATE-IR"} THEN 2
    ELSE IF s \in {"RUN-TEST-IDLE", "UPDATE-DR", "EXIT1-IR", "EXIT2-IR"} THEN 3
    ELSE IF s \in {"EXIT1-DR", "EXIT2-DR", "CAPTURE-IR", "SHIFT-IR", "PAUSE-IR"} THEN 4
    ELSE 5

OnesLeft == ones + Distance(fsm) <= 5

-----------------------------------------------------------------------------
(* Words are sequences of bits. *)
LEMMA WordIsSeq ==
    ASSUME NEW n \in Nat, NEW x \in Words(n)
    PROVE  x \in Seq(Bit) /\ Len(x) = n /\ \A i \in 1..n : x[i] \in Bit
  BY SMT DEF Words

LEMMA SeqIsWord ==
    ASSUME NEW x \in Seq(Bit)
    PROVE  x \in Words(Len(x))
  BY LenProperties DEF Words

LEMMA Widths ==
    /\ IrWidth \in Nat \ {0} /\ IDCODE \in Instruction
    /\ DmiWidth \in Nat \ {0} /\ DrWidth \in Nat \ {0} /\ DmiWidth <= DrWidth
  <1>1. IDCODE \in Seq(Bit) /\ Len(IDCODE) > 0
    BY InstructionAssumption
  <1>2. Len(IDCODE) \in Nat /\ IDCODE \in Words(Len(IDCODE))
    BY <1>1, LenProperties, SeqIsWord
  <1> QED BY <1>1, <1>2, RegisterAssumption DEF IrWidth, Instruction

(* The width of the register in force lies within dr. *)
LEMMA WidthInDr ==
    ASSUME HasRegister
    PROVE  Width \in 1..DrWidth
  BY Widths, RegisterAssumption DEF HasRegister, Width

LEMMA SameWord ==
    ASSUME NEW n \in Nat, NEW x \in Words(n), NEW y \in Words(n), \A i \in 1..n : x[i] = y[i]
    PROVE  x = y
  BY DEF Words

LEMMA FirstBit ==
    ASSUME NEW n \in Nat \ {0}, NEW x \in Words(n)
    PROVE  x # <<>> /\ Head(x) = x[1]
  <1>1. x \in Seq(Bit) /\ Len(x) = n
    BY WordIsSeq
  <1> QED BY <1>1, EmptySeq

(* The lowest bits of a word are a word. *)
LEMMA LowBits ==
    ASSUME NEW n \in Nat, NEW x \in Words(n), NEW k \in 0..n
    PROVE  /\ SubSeq(x, 1, k) \in Words(k)
           /\ \A i \in 1..k : SubSeq(x, 1, k)[i] = x[i]
  <1>1. \A i \in 1..k : x[i] \in Bit
    BY DEF Words
  <1>2. /\ SubSeq(x, 1, k) \in Seq(Bit) /\ Len(SubSeq(x, 1, k)) = k
        /\ \A i \in 1..k : SubSeq(x, 1, k)[i] = x[i]
    BY <1>1, SubSeqProperties
  <1> QED BY <1>2, SeqIsWord

(* A shift to the right keeps the width and takes the new bit at the end. *)
LEMMA Shift ==
    ASSUME NEW n \in Nat \ {0}, NEW x \in Words(n), NEW b \in Bit
    PROVE  /\ Append(Tail(x), b) \in Words(n)
           /\ \A i \in 1..n : Append(Tail(x), b)[i] = IF i < n THEN x[i + 1] ELSE b
  <1>1. x \in Seq(Bit) /\ Len(x) = n /\ x # <<>>
    BY WordIsSeq, EmptySeq
  <1>2. /\ Tail(x) \in Seq(Bit) /\ Len(Tail(x)) = n - 1
        /\ \A i \in 1..n - 1 : Tail(x)[i] = x[i + 1]
    BY <1>1, HeadTailProperties
  <1>3. /\ Append(Tail(x), b) \in Seq(Bit) /\ Len(Append(Tail(x), b)) = n
        /\ \A i \in 1..n - 1 : Append(Tail(x), b)[i] = Tail(x)[i]
        /\ Append(Tail(x), b)[n] = b
    BY <1>2, AppendProperties
  <1>4. Append(Tail(x), b) \in Words(n)
    BY <1>3, SeqIsWord
  <1>5. ASSUME NEW i \in 1..n
        PROVE  Append(Tail(x), b)[i] = IF i < n THEN x[i + 1] ELSE b
    <2>1. CASE i < n
      <3>1. i \in 1..n - 1
        BY <2>1
      <3> QED BY <2>1, <3>1, <1>2, <1>3
    <2>2. CASE ~(i < n)
      <3>1. i = n
        BY <2>2
      <3> QED BY <2>2, <3>1, <1>3
    <2> QED BY <2>1, <2>2
  <1> QED BY <1>4, <1>5

-----------------------------------------------------------------------------
(* A step is an edge of the clock with some edge of tck. *)
LEMMA NextCases ==
    ASSUME Next
    PROVE  \E edge \in {"rise", "fall", "none"}, tms, tdi \in Bit : Edge(edge, tms, tdi)
  BY DEF Next, Bit

LEMMA InitTypeOK == Init => TypeOK
  <1>1. ASSUME NEW n \in Nat PROVE Zeros(n) \in Words(n)
    BY DEF Zeros, Words, Bit
  <1>2. Zeros(IrWidth) \in Instruction /\ Zeros(DmiWidth) \in Message
        /\ Zeros(DrWidth) \in Words(DrWidth)
    BY <1>1, Widths DEF Instruction, Message
  <1> SUFFICES ASSUME Init PROVE TypeOK
    OBVIOUS
  <1>3. pins \in [tms : Bit, tdi : Bit, tdo : Bit] /\ update \in BOOLEAN
    BY DEF Init, Bit
  <1>4. tck \in Bit /\ since \in 1..MinHalf /\ tdo \in Bit /\ parity \in Bit /\ ones \in 0..5
    BY TckAssumption DEF Init, Bit
  <1>5. fsm \in State /\ dmi \in {"IDLE", "DEASSERT_BUSY", "WAIT"}
    BY DEF Init, State
  <1>6. /\ ir \in Instruction /\ dr \in Words(DrWidth)
        /\ w \in Message /\ r \in Message /\ write \in Message
    BY <1>2 DEF Init
  <1> QED BY <1>3, <1>4, <1>5, <1>6 DEF TypeOK

LEMMA EdgeTypeOK ==
    ASSUME TypeOK, NEW edge \in {"rise", "fall", "none"}, NEW tms \in Bit, NEW tdi \in Bit,
           Edge(edge, tms, tdi)
    PROVE  TypeOK'
  <1> USE DEF Edge
  <1>1. tck' \in Bit /\ since' \in 1..MinHalf
    BY TckAssumption DEF TypeOK, LineStep, Bit
  <1>2. fsm' \in State
    BY DEF TypeOK, FsmStep, State, OnLow, OnHigh, Bit
  <1>3. ir' \in Instruction
    <2>1. IDCODE \in Instruction /\ Append(Tail(ir), tdi) \in Instruction
      BY Widths, Shift DEF TypeOK, Instruction
    <2> QED BY <2>1 DEF TypeOK, IrStep
  <1>4. dr' \in Words(DrWidth)
    <2>1. ASSUME HasRegister
          PROVE  Padded(IF ir = DMI THEN r ELSE ReadOnly[ir]) \in Words(DrWidth)
      <3>1. (IF ir = DMI THEN r ELSE ReadOnly[ir]) \in Seq(Bit)
        BY <2>1, Widths, WordIsSeq, RegisterAssumption DEF HasRegister, TypeOK, Message
      <3> QED BY <3>1, LenProperties, Widths DEF Padded, Words, Bit
    <2>2. ASSUME HasRegister PROVE ShiftedDr(tdi) \in Words(DrWidth)
      BY <2>2, WidthInDr, Widths DEF ShiftedDr, Words, Bit, TypeOK
    <2> QED BY <2>1, <2>2 DEF TypeOK, DrStep
  <1>5. tdo' \in Bit
    <2>1. dr[1] \in Bit /\ ir[1] \in Bit
      BY Widths DEF TypeOK, Words, Instruction
    <2> QED BY <2>1 DEF TypeOK, TdoStep
  <1>6. w' \in Message /\ update' \in BOOLEAN
    <2>1. SubSeq(dr, 1, DmiWidth) \in Message
      BY Widths, LowBits DEF TypeOK, Message
    <2> QED BY <2>1 DEF TypeOK, UpdateStep
  <1>7. r' \in Message /\ dmi' \in {"IDLE", "DEASSERT_BUSY", "WAIT"} /\ write' \in Message
    BY MessageAssumption
       DEF TypeOK, DmStep, Read, Write, Idle, DeassertBusy, Wait, dmVars
  <1>8. pins' \in [tms : Bit, tdi : Bit, tdo : Bit] /\ parity' \in Bit /\ ones' \in 0..5
    BY DEF TypeOK, HistoryStep, Bit
  <1> QED BY <1>1, <1>2, <1>3, <1>4, <1>5, <1>6, <1>7, <1>8 DEF TypeOK

LEMMA NextTypeOK == TypeOK /\ [Next]_vars => TypeOK'
  <1> SUFFICES ASSUME TypeOK, [Next]_vars PROVE TypeOK'
    OBVIOUS
  <1>1. CASE Next
    BY <1>1, NextCases, EdgeTypeOK
  <1>2. CASE UNCHANGED vars
    BY <1>2 DEF TypeOK, vars, lineVars, tapVars, dmVars, history
  <1> QED BY <1>1, <1>2

(* The registers keep their widths, whichever instruction is in force. *)
THEOREM TypeCorrect == Spec => []TypeOK
  BY InitTypeOK, NextTypeOK, PTL DEF Spec

-----------------------------------------------------------------------------
(* The arrows of jtag_fsm, as the code draws them. *)
LEMMA Arrows ==
    /\ OnLow("TEST-LOGIC-RESET") = "RUN-TEST-IDLE"
    /\ OnLow("RUN-TEST-IDLE") = "RUN-TEST-IDLE"
    /\ OnLow("SELECT-DR-SCAN") = "CAPTURE-DR"
    /\ OnLow("CAPTURE-DR") = "SHIFT-DR"     /\ OnLow("CAPTURE-IR") = "SHIFT-IR"
    /\ OnLow("SHIFT-DR") = "SHIFT-DR"       /\ OnLow("SHIFT-IR") = "SHIFT-IR"
    /\ OnLow("EXIT1-DR") = "PAUSE-DR"       /\ OnLow("EXIT1-IR") = "PAUSE-IR"
    /\ OnLow("PAUSE-DR") = "PAUSE-DR"       /\ OnLow("PAUSE-IR") = "PAUSE-IR"
    /\ OnLow("EXIT2-DR") = "SHIFT-DR"       /\ OnLow("EXIT2-IR") = "EXIT2-IR"
    /\ OnLow("UPDATE-DR") = "RUN-TEST-IDLE" /\ OnLow("UPDATE-IR") = "RUN-TEST-IDLE"
    /\ OnLow("SELECT-IR-SCAN") = "CAPTURE-IR"
    /\ OnHigh("TEST-LOGIC-RESET") = "TEST-LOGIC-RESET"
    /\ OnHigh("RUN-TEST-IDLE") = "SELECT-DR-SCAN"
    /\ OnHigh("SELECT-DR-SCAN") = "SELECT-IR-SCAN"
    /\ OnHigh("CAPTURE-DR") = "EXIT1-DR"    /\ OnHigh("CAPTURE-IR") = "EXIT1-IR"
    /\ OnHigh("SHIFT-DR") = "EXIT1-DR"      /\ OnHigh("SHIFT-IR") = "EXIT1-IR"
    /\ OnHigh("EXIT1-DR") = "UPDATE-DR"     /\ OnHigh("EXIT1-IR") = "UPDATE-IR"
    /\ OnHigh("PAUSE-DR") = "EXIT2-DR"      /\ OnHigh("PAUSE-IR") = "EXIT2-IR"
    /\ OnHigh("EXIT2-DR") = "UPDATE-DR"     /\ OnHigh("EXIT2-IR") = "UPDATE-IR"
    /\ OnHigh("UPDATE-DR") = "SELECT-DR-SCAN" /\ OnHigh("UPDATE-IR") = "SELECT-IR-SCAN"
    /\ OnHigh("SELECT-IR-SCAN") = "TEST-LOGIC-RESET"
  BY DEF OnLow, OnHigh

(* With tms high every arrow leads closer to TEST-LOGIC-RESET. *)
LEMMA HighLeadsCloser ==
    ASSUME NEW s \in State
    PROVE  /\ Distance(s) \in 0..5 /\ Distance(OnHigh(s)) \in 0..5
           /\ Distance(OnHigh(s)) < Distance(s) \/ Distance(OnHigh(s)) = 0
           /\ Distance(s) = 0 => s = "TEST-LOGIC-RESET"
  BY Arrows DEF State, Distance

LEMMA EdgeOnesLeft ==
    ASSUME TypeOK, OnesLeft,
           NEW edge \in {"rise", "fall", "none"}, NEW tms \in Bit, NEW tdi \in Bit,
           Edge(edge, tms, tdi)
    PROVE  OnesLeft'
  <1>1. fsm \in State /\ fsm' \in State /\ ones \in 0..5
    BY EdgeTypeOK DEF TypeOK
  <1>2. Distance(fsm) \in 0..5 /\ Distance(fsm') \in 0..5
    BY <1>1, HighLeadsCloser
  <1>3. CASE edge # "rise"
    BY <1>3 DEF Edge, FsmStep, HistoryStep, OnesLeft
  <1>4. CASE edge = "rise" /\ tms = 0
    <2>1. ones' = 0
      BY <1>4 DEF Edge, HistoryStep
    <2> QED BY <2>1, <1>2 DEF OnesLeft
  <1>5. CASE edge = "rise" /\ tms # 0
    <2>1. fsm' = OnHigh(fsm) /\ ones' = IF ones < 5 THEN ones + 1 ELSE ones
      BY <1>5 DEF Edge, FsmStep, HistoryStep
    <2> QED BY <2>1, <1>1, <1>2, HighLeadsCloser DEF OnesLeft
  <1> QED BY <1>3, <1>4, <1>5

LEMMA OnesLeftImpliesReset == TypeOK /\ OnesLeft => FiveOnesReset
  <1> SUFFICES ASSUME TypeOK, OnesLeft, ones = 5 PROVE fsm = "TEST-LOGIC-RESET"
    BY DEF FiveOnesReset
  <1>1. fsm \in State
    BY DEF TypeOK
  <1> QED BY <1>1, HighLeadsCloser DEF OnesLeft

(* A debugger that knows nothing of the port can always reset it. *)
THEOREM Resettable == Spec => []FiveOnesReset
  <1>1. Init => OnesLeft
    BY DEF Init, OnesLeft, Distance
  <1>2. TypeOK /\ OnesLeft /\ [Next]_vars => OnesLeft'
    <2> SUFFICES ASSUME TypeOK, OnesLeft, [Next]_vars PROVE OnesLeft'
      OBVIOUS
    <2>1. CASE Next
      BY <2>1, NextCases, EdgeOnesLeft
    <2>2. CASE UNCHANGED vars
      BY <2>2 DEF OnesLeft, vars, tapVars, history
    <2> QED BY <2>1, <2>2
  <1> QED BY <1>1, <1>2, TypeCorrect, OnesLeftImpliesReset, PTL DEF Spec

-----------------------------------------------------------------------------
LEMMA EdgeUpdateIsWhole ==
    ASSUME TypeOK, UpdateIsWhole,
           NEW edge \in {"rise", "fall", "none"}, NEW tms \in Bit, NEW tdi \in Bit,
           Edge(edge, tms, tdi)
    PROVE  UpdateIsWhole'
  <1> SUFFICES ASSUME update'
               PROVE  /\ Updating' /\ tck' = 0 /\ since' = 1
                      /\ w' = SubSeq(dr, 1, DmiWidth)'
                      /\ dmi' # "DEASSERT_BUSY"
    BY DEF UpdateIsWhole
  <1>1. Updating /\ edge = "fall" /\ w' = SubSeq(dr, 1, DmiWidth)
    BY DEF Edge, UpdateStep
  <1>2. tck = 1 /\ tck' = 0 /\ since' = 1
    BY <1>1 DEF Edge, LineStep
  <1>3. fsm' = fsm /\ ir' = ir /\ dr' = dr
    BY <1>1 DEF Edge, FsmStep, IrStep, DrStep, Updating
  <1>4. dmi' # "DEASSERT_BUSY"
    <2>1. ~update
      BY <1>2 DEF UpdateIsWhole
    <2> QED BY <2>1 DEF Edge, DmStep, Read, Write, Idle, DeassertBusy, Wait, dmVars
  <1> QED BY <1>1, <1>2, <1>3, <1>4 DEF Updating

(* The update reaches the Debug Module whole and in the right cycle. *)
THEOREM UpdatesAreWhole == Spec => []UpdateIsWhole
  <1>1. Init => UpdateIsWhole
    BY DEF Init, UpdateIsWhole
  <1>2. TypeOK /\ UpdateIsWhole /\ [Next]_vars => UpdateIsWhole'
    <2> SUFFICES ASSUME TypeOK, UpdateIsWhole, [Next]_vars PROVE UpdateIsWhole'
      OBVIOUS
    <2>1. CASE Next
      BY <2>1, NextCases, EdgeUpdateIsWhole
    <2>2. CASE UNCHANGED vars
      BY <2>2 DEF UpdateIsWhole, Updating, vars, lineVars, tapVars, dmVars
    <2> QED BY <2>1, <2>2
  <1> QED BY <1>1, <1>2, TypeCorrect, PTL DEF Spec

-----------------------------------------------------------------------------
(***************************************************************************)
(* The port implements DebugTransport up to the deviations.  Between two   *)
(* rising edges of tck it makes an update, lets a write end, or does       *)
(* nothing to be seen.                                                     *)
(***************************************************************************)
(* While the port shifts and tck is low, tdo shows the bit to be sampled. *)
TdoReady ==
    tck = 0 => /\ fsm = "SHIFT-DR" => tdo = dr[1]
               /\ fsm = "SHIFT-IR" => tdo = ir[1]

LEMMA EdgeTdoReady ==
    ASSUME TypeOK, TdoReady,
           NEW edge \in {"rise", "fall", "none"}, NEW tms \in Bit, NEW tdi \in Bit,
           Edge(edge, tms, tdi)
    PROVE  TdoReady'
  <1> SUFFICES ASSUME tck' = 0 PROVE TdoReady'
    BY DEF TdoReady
  <1>1. edge # "rise"
    BY DEF Edge, LineStep
  <1>2. fsm' = fsm
    BY <1>1 DEF Edge, FsmStep
  <1>3. CASE fsm \in {"SHIFT-DR", "SHIFT-IR"}
    <2>1. ir' = ir /\ dr' = dr
      BY <1>1, <1>3 DEF Edge, IrStep, DrStep
    <2>2. CASE edge = "fall"
      BY <2>1, <2>2, <1>2 DEF Edge, TdoStep, TdoReady
    <2>3. CASE edge = "none"
      BY <2>1, <2>3, <1>2 DEF Edge, TdoStep, TdoReady, LineStep
    <2> QED BY <1>1, <2>2, <2>3
  <1>4. CASE fsm \notin {"SHIFT-DR", "SHIFT-IR"}
    BY <1>2, <1>4 DEF TdoReady
  <1> QED BY <1>3, <1>4

(* What a capture loads can be shifted out as it was. *)
LEMMA PaddedLow ==
    ASSUME NEW x \in Seq(Bit), Len(x) \in 1..DrWidth
    PROVE  SubSeq(Padded(x), 1, Len(x)) = x
  <1>1. Padded(x) \in Words(DrWidth)
    BY LenProperties, Widths DEF Padded, Words, Bit
  <1>2. /\ SubSeq(Padded(x), 1, Len(x)) \in Words(Len(x))
        /\ \A i \in 1..Len(x) : SubSeq(Padded(x), 1, Len(x))[i] = Padded(x)[i]
    BY <1>1, Widths, LowBits
  <1>3. \A i \in 1..Len(x) : Padded(x)[i] = x[i]
    BY Widths DEF Padded
  <1>4. x \in Words(Len(x))
    BY SeqIsWord
  <1> QED BY <1>2, <1>3, <1>4 DEF Words

(* A shift of dr is a shift of the register that is in force. *)
LEMMA ShiftLow ==
    ASSUME TypeOK, HasRegister, NEW b \in Bit
    PROVE  SubSeq(ShiftedDr(b), 1, Width) = Append(Tail(SubSeq(dr, 1, Width)), b)
  <1>1. Width \in 1..DrWidth /\ Width \in Nat \ {0} /\ DrWidth \in Nat
    BY WidthInDr, Widths
  <1>2. dr \in Words(DrWidth) /\ \A i \in 1..DrWidth : dr[i] \in Bit
    BY DEF TypeOK, Words
  <1>3. ShiftedDr(b) \in Words(DrWidth)
    BY <1>1, <1>2 DEF ShiftedDr, Words, Bit
  <1>4. /\ SubSeq(ShiftedDr(b), 1, Width) \in Words(Width)
        /\ \A i \in 1..Width : SubSeq(ShiftedDr(b), 1, Width)[i] = ShiftedDr(b)[i]
    BY <1>1, <1>3, LowBits
  <1>5. /\ SubSeq(dr, 1, Width) \in Words(Width)
        /\ \A i \in 1..Width : SubSeq(dr, 1, Width)[i] = dr[i]
    BY <1>1, <1>2, LowBits
  <1>6. /\ Append(Tail(SubSeq(dr, 1, Width)), b) \in Words(Width)
        /\ \A i \in 1..Width : Append(Tail(SubSeq(dr, 1, Width)), b)[i]
                 = IF i < Width THEN SubSeq(dr, 1, Width)[i + 1] ELSE b
    BY <1>1, <1>5, Shift
  <1>7. ASSUME NEW i \in 1..Width
        PROVE  SubSeq(ShiftedDr(b), 1, Width)[i] = Append(Tail(SubSeq(dr, 1, Width)), b)[i]
    <2>1. ShiftedDr(b)[i] = IF i < Width THEN dr[i + 1] ELSE b
      BY <1>1 DEF ShiftedDr
    <2>2. CASE i < Width
      <3>1. SubSeq(dr, 1, Width)[i + 1] = dr[i + 1]
        BY <2>2, <1>1, <1>5
      <3> QED BY <2>1, <2>2, <3>1, <1>4, <1>6
    <2>3. CASE ~(i < Width)
      BY <2>1, <2>3, <1>4, <1>6
    <2> QED BY <2>2, <2>3
  <1> QED BY <1>1, <1>4, <1>6, <1>7, SameWord

(* The register that is shifted has a first bit, which is that of dr or ir. *)
LEMMA FirstBits ==
    ASSUME TypeOK
    PROVE  /\ ir # <<>> /\ Head(ir) = ir[1]
           /\ HasRegister => /\ SubSeq(dr, 1, Width) # <<>>
                             /\ Head(SubSeq(dr, 1, Width)) = dr[1]
  <1>2. ir # <<>> /\ Head(ir) = ir[1]
    BY Widths, FirstBit DEF TypeOK, Instruction
  <1>3. ASSUME HasRegister
        PROVE  SubSeq(dr, 1, Width) # <<>> /\ Head(SubSeq(dr, 1, Width)) = dr[1]
    <2>1. Width \in 1..DrWidth /\ Width \in Nat \ {0} /\ DrWidth \in Nat
      BY <1>3, WidthInDr, Widths
    <2>2. SubSeq(dr, 1, Width) \in Words(Width) /\ SubSeq(dr, 1, Width)[1] = dr[1]
      BY <2>1, LowBits DEF TypeOK
    <2> QED BY <2>1, <2>2, FirstBit
  <1> QED BY <1>2, <1>3

-----------------------------------------------------------------------------
(* The end of a write, and nothing else, is to be seen of the Debug Module
   in a cycle without an update. *)
LEMMA QuietDm ==
    ASSUME ~update, DmStep
    PROVE  Transport!MayFinish
  <1>1. write' = write /\ r' = r
    BY DEF DmStep, Read, Write, Idle, DeassertBusy, Wait, dmVars
  <1>2. dmi # "WAIT" => dmi' # "WAIT"
    BY DEF DmStep, Read, Write, Idle, DeassertBusy, Wait, dmVars
  <1>3. (dmi' = "WAIT") \in {(dmi = "WAIT"), FALSE}
    <2>1. CASE dmi' = "WAIT"
      BY <2>1, <1>2
    <2>2. CASE dmi' # "WAIT"
      BY <2>2
    <2> QED BY <2>1, <2>2
  <1> QED BY <1>1, <1>3 DEF Transport!MayFinish

(* While tck does not rise, the shift register and the instruction in force
   stay as they are. *)
LEMMA NoRiseKeeps ==
    ASSUME TypeOK, NEW edge \in {"fall", "none"}, NEW tms \in Bit, NEW tdi \in Bit,
           Edge(edge, tms, tdi)
    PROVE  /\ fsm' = fsm /\ TransportInstr' = TransportInstr /\ TransportSr' = TransportSr
           /\ pins' = pins
  <1>1. fsm' = fsm /\ pins' = pins
    BY DEF Edge, FsmStep, HistoryStep
  <1>2. fsm \notin {"CAPTURE-IR"} => ir' = ir
    BY DEF Edge, IrStep
  <1>3. fsm \notin {"CAPTURE-DR"} => dr' = dr
    BY DEF Edge, DrStep
  <1>4. TransportInstr' = TransportInstr
    BY <1>1, <1>2 DEF TransportInstr, ScansIr
  <1>5. TransportSr' = TransportSr
    BY <1>1, <1>2, <1>3 DEF TransportSr, ScansDr, ScansIr, HasRegister, Width
  <1> QED BY <1>1, <1>4, <1>5

DueOf == Updating /\ (tck = 1 \/ update)
WritingOf == dmi = "WAIT"

LEMMA NoRiseNoUpdate ==
    ASSUME TypeOK, ~update, NEW edge \in {"fall", "none"}, NEW tms \in Bit, NEW tdi \in Bit,
           Edge(edge, tms, tdi)
    PROVE  Transport!FinishWrite \/ UNCHANGED Transport!transportVars
  <1>1. /\ fsm' = fsm /\ TransportInstr' = TransportInstr /\ TransportSr' = TransportSr
        /\ pins' = pins
    BY NoRiseKeeps
  <1>2. DueOf' = DueOf
    <2>1. Updating' = Updating
      BY <1>1 DEF Edge, IrStep, Updating
    <2>2. CASE edge = "fall"
      BY <2>1, <2>2 DEF Edge, LineStep, UpdateStep, DueOf
    <2>3. CASE edge = "none"
      BY <2>1, <2>3 DEF Edge, LineStep, UpdateStep, DueOf
    <2> QED BY <2>2, <2>3
  <1>3. parity' = parity
    BY DEF Edge, HistoryStep
  <1>4. DmStep
    BY DEF Edge
  <1>5. Transport!MayFinish
    BY <1>4, QuietDm
  <1>6. CASE WritingOf
    BY <1>1, <1>2, <1>3, <1>5, <1>6
       DEF Transport!FinishWrite, Transport!pins, DueOf, WritingOf
  <1>7. CASE ~WritingOf
    <2>1. WritingOf' = WritingOf /\ write' = write /\ r' = r
      BY <1>5, <1>7 DEF Transport!MayFinish, WritingOf
    <2> QED BY <1>1, <1>2, <1>3, <2>1
            DEF Transport!transportVars, Transport!pins, Transport!dmVars, DueOf, WritingOf
  <1> QED BY <1>6, <1>7

(* An update takes place in the cycle in which the Debug Module sees it. *)
LEMMA NoRiseUpdate ==
    ASSUME TypeOK, UpdateIsWhole, update,
           NEW edge \in {"fall", "none"}, NEW tms \in Bit, NEW tdi \in Bit,
           Edge(edge, tms, tdi)
    PROVE  Transport!Update \/ StaleRead \/ MissedUpdate
  <1>1. /\ fsm' = fsm /\ TransportInstr' = TransportInstr /\ TransportSr' = TransportSr
        /\ pins' = pins
    BY NoRiseKeeps
  <1>2. Updating /\ tck = 0 /\ w = SubSeq(dr, 1, DmiWidth) /\ dmi # "DEASSERT_BUSY"
    BY DEF UpdateIsWhole
  <1>3. edge = "none" /\ tck' = 0 /\ ~update'
    <2>1. edge = "none" /\ tck' = 0
      BY <1>2 DEF Edge, LineStep
    <2> QED BY <2>1 DEF Edge, UpdateStep
  <1>4. DueOf /\ ~DueOf'
    BY <1>2, <1>3 DEF DueOf
  <1>5. parity' = 1 - parity
    BY DEF Edge, HistoryStep
  <1>6. TransportSr = w
    BY <1>2 DEF TransportSr, ScansDr, HasRegister, Width, Updating
  <1>7. DmStep /\ OpOf[w] \in {"NOP", "READ", "WRITE"}
    BY MessageAssumption DEF Edge, TypeOK
  <1>8. Transport!Takes
    BY <1>1, <1>4, <1>5, <1>6 DEF Transport!Takes, Transport!pins, DueOf
  <1>9. CASE Read
    <2>1. /\ ~WritingOf /\ OpOf[TransportSr] = "READ"
          /\ WritingOf' = WritingOf /\ write' = write
          /\ IF w \in Answered THEN r' \in Results ELSE r' = r
      BY <1>6, <1>9 DEF Read, WritingOf
    <2>2. CASE w \in Answered
      <3>1. Transport!TakesRead(Results)
        BY <1>8, <2>1, <2>2 DEF Transport!TakesRead, WritingOf
      <3> QED BY <3>1, <2>2, <1>6 DEF Transport!Update
    <2>3. CASE w \notin Answered
      <3>1. Transport!TakesRead({r})
        BY <1>8, <2>1, <2>3 DEF Transport!TakesRead, WritingOf
      <3> QED BY <3>1, <2>3 DEF StaleRead
    <2> QED BY <2>2, <2>3
  <1>10. CASE Write
    <2>1. /\ ~WritingOf /\ OpOf[TransportSr] = "WRITE"
          /\ WritingOf' = TRUE /\ write' = TransportSr /\ r' = r
      BY <1>6, <1>10 DEF Write, WritingOf
    <2> QED BY <2>1, <1>8 DEF Transport!Update, Transport!TakesWrite, WritingOf
  <1>11. CASE Idle
    <2>1. ~WritingOf /\ OpOf[TransportSr] = "NOP" /\ UNCHANGED Transport!dmVars
      BY <1>6, <1>11 DEF Idle, WritingOf, dmVars, Transport!dmVars
    <2> QED BY <2>1, <1>8 DEF Transport!Update, Transport!TakesNop, WritingOf
  <1>12. CASE DeassertBusy
    BY <1>2, <1>12 DEF DeassertBusy
  <1>13. CASE Wait
    <2>1. dmi = "WAIT" /\ write' = write /\ r' = r
      BY <1>13 DEF Wait
    <2>2. CASE dmi' = "WAIT"
      BY <2>1, <2>2, <1>8 DEF MissedUpdate, Transport!MayFinish
    <2>3. CASE dmi' # "WAIT"
      BY <2>1, <2>3, <1>8 DEF MissedUpdate, Transport!MayFinish
    <2> QED BY <2>2, <2>3
  <1> QED BY <1>7, <1>9, <1>10, <1>11, <1>12, <1>13 DEF DmStep

(* The two diagrams agree but for the arrows of WrongArrow. *)
LEMMA DiagramArrow ==
    ASSUME NEW s, NEW low, NEW high, Transport!Arrow(s, low, high) \in Transport!Diagram
    PROVE  Transport!Leads(s, 0, low) /\ Transport!Leads(s, 1, high)
  <1>1. /\ Transport!Arrow(s, low, high).from = s
        /\ Transport!Arrow(s, low, high).on[1] = low
        /\ Transport!Arrow(s, low, high).on[2] = high
    BY DEF Transport!Arrow
  <1> HIDE DEF Transport!Arrow
  <1> QED BY <1>1 DEF Transport!Leads

LEMMA ArrowsLead ==
    ASSUME NEW s \in State, NEW tms \in Bit,
           ~(s = "EXIT2-IR" /\ tms = 0), ~(s = "UPDATE-IR" /\ tms = 1)
    PROVE  Transport!Leads(s, tms, IF tms = 0 THEN OnLow(s) ELSE OnHigh(s))
  <1>1. ASSUME Transport!Arrow(s, OnLow(s), OnHigh(s)) \in Transport!Diagram
        PROVE  Transport!Leads(s, tms, IF tms = 0 THEN OnLow(s) ELSE OnHigh(s))
    BY <1>1, DiagramArrow DEF Bit
  <1>2. CASE s \notin {"EXIT2-IR", "UPDATE-IR"}
    <2>1. Transport!Arrow(s, OnLow(s), OnHigh(s)) \in Transport!Diagram
      BY <1>2, Arrows DEF State, Transport!Diagram
    <2> QED BY <2>1, <1>1
  <1>3. CASE s = "EXIT2-IR"
    <2>1. Transport!Arrow("EXIT2-IR", "SHIFT-IR", "UPDATE-IR") \in Transport!Diagram
      BY DEF Transport!Diagram
    <2>2. Transport!Leads("EXIT2-IR", 1, "UPDATE-IR")
      BY <2>1, DiagramArrow
    <2> QED BY <2>2, <1>3, Arrows DEF Bit
  <1>4. CASE s = "UPDATE-IR"
    <2>1. Transport!Arrow("UPDATE-IR", "RUN-TEST-IDLE", "SELECT-DR-SCAN") \in Transport!Diagram
      BY DEF Transport!Diagram
    <2>2. Transport!Leads("UPDATE-IR", 0, "RUN-TEST-IDLE")
      BY <2>1, DiagramArrow
    <2> QED BY <2>2, <1>4, Arrows DEF Bit
  <1> QED BY <1>2, <1>3, <1>4

(* What a rising edge does to fsm, state by state. *)
LEMMA RiseLeads ==
    ASSUME TypeOK, NEW tms \in Bit, NEW tdi \in Bit, Edge("rise", tms, tdi)
    PROVE  /\ fsm' = IF tms = 0 THEN OnLow(fsm) ELSE OnHigh(fsm)
           /\ fsm \in State
           /\ \/ fsm = "EXIT2-IR" /\ tms = 0 /\ fsm' = "EXIT2-IR"
              \/ fsm = "UPDATE-IR" /\ tms = 1 /\ fsm' = "SELECT-IR-SCAN"
              \/ Transport!Leads(fsm, tms, fsm')
  <1>1. fsm' = (IF tms = 0 THEN OnLow(fsm) ELSE OnHigh(fsm)) /\ fsm \in State
    BY DEF Edge, FsmStep, TypeOK
  <1>2. fsm = "EXIT2-IR" /\ tms = 0 => fsm' = "EXIT2-IR"
    BY <1>1, Arrows
  <1>3. fsm = "UPDATE-IR" /\ tms = 1 => fsm' = "SELECT-IR-SCAN"
    BY <1>1, Arrows
  <1>4. ASSUME ~(fsm = "EXIT2-IR" /\ tms = 0), ~(fsm = "UPDATE-IR" /\ tms = 1)
        PROVE  Transport!Leads(fsm, tms, fsm')
    <2>1. Transport!Leads(fsm, tms, IF tms = 0 THEN OnLow(fsm) ELSE OnHigh(fsm))
      BY <1>1, <1>4, ArrowsLead
    <2> QED BY <1>1, <2>1
  <1> QED BY <1>1, <1>2, <1>3, <1>4

LEMMA RiseInstr ==
    ASSUME TypeOK, NEW tms \in Bit, NEW tdi \in Bit, Edge("rise", tms, tdi)
    PROVE  TransportInstr' = IF fsm' = "TEST-LOGIC-RESET" THEN IDCODE
                             ELSE IF fsm' = "UPDATE-IR" THEN TransportSr
                             ELSE IF fsm' = "CAPTURE-IR" THEN <<>>
                             ELSE TransportInstr
  <1>1. /\ fsm' = IF tms = 0 THEN OnLow(fsm) ELSE OnHigh(fsm)
        /\ fsm \in State
    BY RiseLeads
  <1>2. ir' = IF fsm = "CAPTURE-IR" \/ (fsm = "TEST-LOGIC-RESET" /\ tms = 0) THEN IDCODE
              ELSE IF fsm = "SHIFT-IR" THEN Append(Tail(ir), tdi)
              ELSE ir
    BY DEF Edge, IrStep
  <1>3. CASE fsm' = "UPDATE-IR"
    <2>1. fsm \in {"EXIT1-IR", "EXIT2-IR"}
      BY <1>1, <1>3, Arrows DEF State, Bit
    <2> QED BY <2>1, <1>2, <1>3 DEF TransportInstr, TransportSr, ScansIr, ScansDr
  <1>4. CASE fsm' \in {"TEST-LOGIC-RESET", "CAPTURE-IR"}
    BY <1>4 DEF TransportInstr, ScansIr
  <1>5. CASE fsm' \notin {"UPDATE-IR", "TEST-LOGIC-RESET", "CAPTURE-IR"}
    <2>1. CASE fsm = "TEST-LOGIC-RESET"
      BY <2>1, <1>1, <1>2, <1>5, Arrows DEF TransportInstr, ScansIr, Bit
    <2>2. CASE fsm \in {"CAPTURE-IR", "SHIFT-IR", "EXIT1-IR", "PAUSE-IR", "EXIT2-IR"}
      <3>1. fsm' \in {"SHIFT-IR", "EXIT1-IR", "PAUSE-IR", "EXIT2-IR"}
        BY <2>2, <1>1, <1>5, Arrows DEF Bit
      <3> QED BY <2>2, <3>1 DEF TransportInstr, ScansIr
    <2>3. CASE fsm \notin {"TEST-LOGIC-RESET", "CAPTURE-IR", "SHIFT-IR", "EXIT1-IR",
                           "PAUSE-IR", "EXIT2-IR"}
      <3>1. ir' = ir
        BY <2>3, <1>2
      <3>2. fsm' \notin {"SHIFT-IR", "EXIT1-IR", "PAUSE-IR", "EXIT2-IR"}
        BY <2>3, <1>1, Arrows DEF State, Bit
      <3> QED BY <3>1, <3>2, <2>3, <1>5 DEF TransportInstr, ScansIr
    <2> QED BY <2>1, <2>2, <2>3
  <1> QED BY <1>3, <1>4, <1>5

LEMMA RiseSr ==
    ASSUME TypeOK, NEW tms \in Bit, NEW tdi \in Bit, Edge("rise", tms, tdi)
    PROVE  TransportSr' =
             IF fsm' \in {"UPDATE-IR", "RUN-TEST-IDLE", "SELECT-DR-SCAN"} THEN <<>>
             ELSE IF fsm = "CAPTURE-DR"
             THEN IF TransportInstr = DMI THEN r
                  ELSE IF TransportInstr \in DOMAIN ReadOnly THEN ReadOnly[TransportInstr]
                  ELSE <<>>
             ELSE IF fsm = "CAPTURE-IR" THEN IDCODE
             ELSE IF fsm \in {"SHIFT-DR", "SHIFT-IR"}
             THEN IF TransportSr = <<>> THEN <<>> ELSE Append(Tail(TransportSr), tdi)
             ELSE TransportSr
  <1>1. /\ fsm' = IF tms = 0 THEN OnLow(fsm) ELSE OnHigh(fsm)
        /\ fsm \in State
    BY RiseLeads
  <1>2. ir' = IF fsm = "CAPTURE-IR" \/ (fsm = "TEST-LOGIC-RESET" /\ tms = 0) THEN IDCODE
              ELSE IF fsm = "SHIFT-IR" THEN Append(Tail(ir), tdi)
              ELSE ir
    BY DEF Edge, IrStep
  <1>3. dr' = IF HasRegister /\ fsm = "CAPTURE-DR"
              THEN Padded(IF ir = DMI THEN r ELSE ReadOnly[ir])
              ELSE IF HasRegister /\ fsm = "SHIFT-DR" THEN ShiftedDr(tdi)
              ELSE dr
    BY DEF Edge, DrStep
  <1>4. ir' = ir => HasRegister' = HasRegister /\ Width' = Width
    BY DEF HasRegister, Width
  <1>5. CASE fsm' \in {"UPDATE-IR", "RUN-TEST-IDLE", "SELECT-DR-SCAN"}
    BY <1>5 DEF TransportSr, ScansDr, ScansIr
  <1>6. CASE fsm = "CAPTURE-DR"
    <2>1. fsm' \in {"SHIFT-DR", "EXIT1-DR"} /\ ir' = ir
      BY <1>6, <1>1, <1>2, Arrows DEF Bit
    <2>2. TransportInstr = ir
      BY <1>6 DEF TransportInstr, ScansIr
    <2>3. ASSUME HasRegister
          PROVE  TransportSr' = IF ir = DMI THEN r ELSE ReadOnly[ir]
      <3> DEFINE x == IF ir = DMI THEN r ELSE ReadOnly[ir]
      <3>1. x \in Seq(Bit) /\ Len(x) = Width
        BY <2>3, Widths, WordIsSeq, RegisterAssumption DEF HasRegister, TypeOK, Message, Width
      <3>2. Len(x) \in 1..DrWidth
        BY <3>1, <2>3, WidthInDr
      <3>3. SubSeq(Padded(x), 1, Len(x)) = x
        BY <3>1, <3>2, PaddedLow
      <3>4. dr' = Padded(x)
        BY <2>3, <1>3, <1>6
      <3>5. TransportSr' = SubSeq(dr', 1, Width')
        BY <2>1, <2>3, <1>4 DEF TransportSr, ScansDr
      <3> QED BY <3>1, <3>3, <3>4, <3>5, <2>1, <1>4
    <2>4. ASSUME ~HasRegister PROVE TransportSr' = <<>>
      BY <2>1, <2>4, <1>4 DEF TransportSr, ScansDr, ScansIr
    <2>5. HasRegister <=> ir = DMI \/ ir \in DOMAIN ReadOnly
      BY DEF HasRegister
    <2> QED BY <2>1, <2>2, <2>3, <2>4, <2>5, <1>6
  <1>7. CASE fsm = "CAPTURE-IR"
    <2>1. fsm' \in {"SHIFT-IR", "EXIT1-IR"} /\ ir' = IDCODE
      BY <1>7, <1>1, <1>2, Arrows DEF Bit
    <2> QED BY <2>1, <1>7 DEF TransportSr, ScansDr, ScansIr
  <1>8. CASE fsm = "SHIFT-IR"
    <2>1. fsm' \in {"SHIFT-IR", "EXIT1-IR"} /\ ir' = Append(Tail(ir), tdi)
      BY <1>8, <1>1, <1>2, Arrows DEF Bit
    <2>2. TransportSr = ir /\ ir # <<>>
      BY <1>8, FirstBits DEF TransportSr, ScansDr, ScansIr
    <2>3. TransportSr' = ir'
      BY <2>1 DEF TransportSr, ScansDr, ScansIr
    <2> QED BY <2>1, <2>2, <2>3, <1>8
  <1>9. CASE fsm = "SHIFT-DR"
    <2>1. fsm' \in {"SHIFT-DR", "EXIT1-DR"} /\ ir' = ir
      BY <1>9, <1>1, <1>2, Arrows DEF Bit
    <2>2. CASE HasRegister
      <3>1. TransportSr = SubSeq(dr, 1, Width) /\ TransportSr # <<>>
        BY <2>2, <1>9, FirstBits DEF TransportSr, ScansDr
      <3>2. TransportSr' = SubSeq(ShiftedDr(tdi), 1, Width)
        <4>1. TransportSr' = SubSeq(dr', 1, Width')
          BY <2>1, <2>2, <1>4 DEF TransportSr, ScansDr
        <4> QED BY <4>1, <2>1, <2>2, <1>3, <1>4, <1>9
      <3>3. SubSeq(ShiftedDr(tdi), 1, Width) = Append(Tail(SubSeq(dr, 1, Width)), tdi)
        BY <2>2, ShiftLow
      <3>4. TransportSr' = Append(Tail(TransportSr), tdi)
        BY <3>1, <3>2, <3>3
      <3> HIDE DEF TransportSr
      <3> QED BY <3>1, <3>4, <2>1, <1>9
    <2>3. CASE ~HasRegister
      <3>1. TransportSr = <<>> /\ TransportSr' = <<>>
        BY <2>1, <2>3, <1>4, <1>9 DEF TransportSr, ScansDr, ScansIr
      <3> QED BY <3>1, <2>1, <1>9
    <2> QED BY <2>2, <2>3
  <1>10. CASE /\ fsm' \notin {"UPDATE-IR", "RUN-TEST-IDLE", "SELECT-DR-SCAN"}
              /\ fsm \notin {"CAPTURE-DR", "CAPTURE-IR", "SHIFT-IR", "SHIFT-DR"}
    <2>1. dr' = dr
      BY <1>3, <1>10
    <2>2. CASE fsm \in {"EXIT1-DR", "PAUSE-DR", "EXIT2-DR"}
      <3>1. fsm' \in {"SHIFT-DR", "PAUSE-DR", "EXIT2-DR", "UPDATE-DR"} /\ ir' = ir
        BY <2>2, <1>1, <1>2, Arrows DEF Bit
      <3>2. TransportSr' = TransportSr
        BY <2>1, <2>2, <3>1, <1>4 DEF TransportSr, ScansDr, ScansIr
      <3> QED BY <3>2, <1>10
    <2>3. CASE fsm \in {"EXIT1-IR", "PAUSE-IR", "EXIT2-IR"}
      <3>1. fsm' \in {"PAUSE-IR", "EXIT2-IR"} /\ ir' = ir
        BY <2>3, <1>1, <1>2, <1>10, Arrows DEF Bit
      <3>2. TransportSr' = TransportSr
        BY <2>3, <3>1 DEF TransportSr, ScansDr, ScansIr
      <3> QED BY <3>2, <1>10
    <2>4. CASE fsm \in {"TEST-LOGIC-RESET", "RUN-TEST-IDLE", "SELECT-DR-SCAN",
                        "SELECT-IR-SCAN", "UPDATE-IR", "UPDATE-DR"}
      <3>1. fsm' \in {"TEST-LOGIC-RESET", "CAPTURE-DR", "SELECT-IR-SCAN", "CAPTURE-IR"}
        BY <2>4, <1>1, <1>10, Arrows DEF Bit
      <3>2. CASE fsm = "UPDATE-DR"
        BY <3>2, <1>1, <1>10, Arrows DEF Bit
      <3>3. CASE fsm # "UPDATE-DR"
        <4>1. TransportSr = <<>> /\ TransportSr' = <<>>
          BY <2>4, <3>1, <3>3 DEF TransportSr, ScansDr, ScansIr
        <4> QED BY <4>1, <1>10
      <3> QED BY <3>2, <3>3
    <2> QED BY <2>2, <2>3, <2>4, <1>1, <1>10 DEF State
  <1> QED BY <1>5, <1>6, <1>7, <1>8, <1>9, <1>10

(* A rising edge is one of the standard, or takes an arrow the code has
   elsewhere, or finds no register to scan. *)
LEMMA RiseRises ==
    ASSUME TypeOK, UpdateIsWhole, TdoReady,
           NEW tms \in Bit, NEW tdi \in Bit, Edge("rise", tms, tdi)
    PROVE  Transport!Rise \/ WrongArrow \/ NoBypass
  <1>1. tck = 0 /\ tck' = 1 /\ since = MinHalf
    BY DEF Edge, LineStep
  <1>2. ~update /\ ~update'
    <2>1. ~update
      BY <1>1, TckAssumption DEF UpdateIsWhole
    <2> QED BY <2>1 DEF Edge, UpdateStep
  <1>3. ~DueOf
    BY <1>1, <1>2 DEF DueOf
  <1>4. pins' = [tms |-> tms, tdi |-> tdi, tdo |-> tdo] /\ parity' = parity
    BY <1>2 DEF Edge, HistoryStep
  <1>5. /\ fsm' = IF tms = 0 THEN OnLow(fsm) ELSE OnHigh(fsm)
        /\ fsm \in State
        /\ \/ fsm = "EXIT2-IR" /\ tms = 0 /\ fsm' = "EXIT2-IR"
           \/ fsm = "UPDATE-IR" /\ tms = 1 /\ fsm' = "SELECT-IR-SCAN"
           \/ Transport!Leads(fsm, tms, fsm')
    BY RiseLeads
  <1>6. DueOf' = (fsm' = "UPDATE-DR" /\ TransportInstr = DMI)
    <2>1. CASE fsm' = "UPDATE-DR"
      <3>1. fsm \in {"EXIT1-DR", "EXIT2-DR"}
        BY <1>5, <2>1, Arrows DEF State, Bit
      <3>2. ir' = ir /\ TransportInstr = ir
        BY <3>1 DEF Edge, IrStep, TransportInstr, ScansIr
      <3> QED BY <2>1, <3>2, <1>1, <1>2 DEF DueOf, Updating
    <2>2. CASE fsm' # "UPDATE-DR"
      BY <2>2 DEF DueOf, Updating
    <2> QED BY <2>1, <2>2
  <1>7. ASSUME Transport!Shifts, fsm = "SHIFT-DR" => HasRegister
        PROVE  TransportSr # <<>> /\ tdo = Head(TransportSr)
    <2>1. CASE fsm = "SHIFT-DR"
      <3>1. /\ TransportSr = SubSeq(dr, 1, Width)
            /\ SubSeq(dr, 1, Width) # <<>> /\ Head(SubSeq(dr, 1, Width)) = dr[1]
        BY <2>1, <1>7, FirstBits DEF TransportSr, ScansDr
      <3>2. tdo = dr[1]
        BY <2>1, <1>1 DEF TdoReady
      <3> QED BY <3>1, <3>2
    <2>2. CASE fsm = "SHIFT-IR"
      BY <2>2, <1>1, FirstBits DEF TdoReady, TransportSr, ScansDr, ScansIr
    <2> QED BY <1>7, <2>1, <2>2 DEF Transport!Shifts
  <1>8. Transport!MayFinish
    BY <1>2, QuietDm DEF Edge
  <1>9. /\ pins'.tms = tms /\ pins'.tdi = tdi /\ pins'.tdo = tdo
        /\ tms \in Bit /\ tdi \in Bit /\ tdo \in Bit
    BY <1>4 DEF TypeOK
  <1>10. ASSUME NEW s, TransportSr' = s
         PROVE  Transport!RisingEdge(s)
    <2>1. TransportInstr' = IF fsm' = "TEST-LOGIC-RESET" THEN IDCODE
                            ELSE IF fsm' = "UPDATE-IR" THEN TransportSr
                            ELSE IF fsm' = "CAPTURE-IR" THEN <<>>
                            ELSE TransportInstr
      BY RiseInstr
    <2> QED BY <1>3, <1>4, <1>6, <1>8, <1>9, <1>10, <2>1
            DEF Transport!RisingEdge, Transport!None, Transport!Bit, Bit, DueOf
  <1>11. CASE \/ fsm = "EXIT2-IR" /\ tms = 0 /\ fsm' = "EXIT2-IR"
              \/ fsm = "UPDATE-IR" /\ tms = 1 /\ fsm' = "SELECT-IR-SCAN"
    <2>1. TransportSr' = TransportSr
      BY <1>11, RiseSr
    <2>2. Transport!RisingEdge(TransportSr)
      BY <2>1, <1>10
    <2> QED BY <1>9, <1>11, <2>2 DEF WrongArrow
  <1>12. CASE /\ Transport!Leads(fsm, tms, fsm')
              /\ fsm \in {"CAPTURE-DR", "SHIFT-DR"} /\ ~HasRegister
    <2>1. TransportInstr = ir /\ (fsm = "SHIFT-DR" => TransportSr = <<>>)
      BY <1>12 DEF TransportInstr, TransportSr, ScansDr, ScansIr
    <2>2. TransportSr' = <<>>
      BY <1>12, <2>1, RiseSr DEF HasRegister
    <2>3. Transport!RisingEdge(<<>>)
      BY <2>2, <1>10
    <2> QED BY <1>9, <1>12, <2>3 DEF NoBypass
  <1>13. CASE /\ Transport!Leads(fsm, tms, fsm')
              /\ fsm \in {"CAPTURE-DR", "SHIFT-DR"} => HasRegister
    <2>1. Transport!ShiftsOut
      BY <1>7, <1>9, <1>13 DEF Transport!ShiftsOut, Transport!Shifts, Transport!None
    <2>2. fsm = "CAPTURE-DR" => TransportInstr = ir
      BY DEF TransportInstr, ScansIr
    <2>3. TransportSr' = Transport!Scanned
      BY <1>7, <1>9, <1>13, <2>2, RiseSr
         DEF Transport!Scanned, Transport!Shifts, Transport!Captured, Transport!None, HasRegister
    <2>4. Transport!RisingEdge(Transport!Scanned)
      BY <2>3, <1>10
    <2> QED BY <1>9, <1>13, <2>1, <2>4 DEF Transport!Rise
  <1> QED BY <1>5, <1>11, <1>12, <1>13

LEMMA NextIsTransport ==
    ASSUME TypeOK, UpdateIsWhole, TdoReady, Next
    PROVE  Transport!TransportNext \/ Deviates \/ UNCHANGED Transport!transportVars
  <1>1. PICK edge \in {"rise", "fall", "none"}, tms \in Bit, tdi \in Bit : Edge(edge, tms, tdi)
    BY NextCases
  <1>2. CASE edge = "rise"
    BY <1>1, <1>2, RiseRises DEF Transport!TransportNext, Deviates
  <1>3. CASE edge \in {"fall", "none"} /\ update
    BY <1>1, <1>3, NoRiseUpdate DEF Transport!TransportNext, Deviates
  <1>4. CASE edge \in {"fall", "none"} /\ ~update
    BY <1>1, <1>4, NoRiseNoUpdate DEF Transport!TransportNext
  <1> QED BY <1>1, <1>2, <1>3, <1>4

LEMMA StutterIsTransport ==
    ASSUME UNCHANGED vars
    PROVE  UNCHANGED Transport!transportVars
  BY DEF vars, lineVars, tapVars, dmVars, history, Transport!transportVars, Transport!pins,
         Transport!dmVars, TransportInstr, TransportSr, ScansIr, ScansDr, HasRegister, Width,
         Updating

LEMMA InitIsTransport == Init => Transport!TransportInit
  <1> SUFFICES ASSUME Init PROVE Transport!TransportInit
    OBVIOUS
  <1>1. TypeOK
    BY InitTypeOK
  <1>2. /\ TransportInstr = IDCODE /\ TransportSr = <<>> /\ ~DueOf /\ ~WritingOf
        /\ fsm = "TEST-LOGIC-RESET" /\ parity = 0
    BY DEF Init, TransportInstr, TransportSr, ScansDr, ScansIr, DueOf, WritingOf, Updating
  <1>3. /\ pins.tms \in Bit /\ pins.tdi \in Bit /\ pins.tdo \in Bit
        /\ write \in Message /\ r \in Message
    BY <1>1 DEF TypeOK
  <1> QED BY <1>2, <1>3
          DEF Transport!TransportInit, Transport!None, Transport!Bit, Bit, DueOf, WritingOf

(* Whatever the debugger does, the port and the Debug Module behind it are
   those of the standard but for the deviations JtagTapProps names. *)
THEOREM Implements == Spec => StandardUpToDeviations
  <1>1. Init => TdoReady
    BY DEF Init, TdoReady
  <1>2. TypeOK /\ TdoReady /\ [Next]_vars => TdoReady'
    <2> SUFFICES ASSUME TypeOK, TdoReady, [Next]_vars PROVE TdoReady'
      OBVIOUS
    <2>1. CASE Next
      BY <2>1, NextCases, EdgeTdoReady
    <2>2. CASE UNCHANGED vars
      BY <2>2 DEF TdoReady, vars, lineVars, tapVars
    <2> QED BY <2>1, <2>2
  <1>3. TypeOK /\ UpdateIsWhole /\ TdoReady /\ [Next]_vars
          => [Transport!TransportNext \/ Deviates]_(Transport!transportVars)
    BY NextIsTransport, StutterIsTransport
  <1> QED BY <1>1, <1>2, <1>3, InitIsTransport, TypeCorrect, UpdatesAreWhole, PTL
          DEF Spec, StandardUpToDeviations
=============================================================================

---------------------- MODULE CheckedRunControlProofs ----------------------
(***************************************************************************)
(* The handshake checker never fires, for every program and debugger.      *)
(***************************************************************************)
EXTENDS CheckedRunControl, RunControlProofs

(* A step of the checked system is one of RunControl. *)
LEMMA CheckedIsRunControl == CheckedSpec => Spec
  <1>1. CheckedInit => Init
    BY DEF CheckedInit
  <1>2. [CheckedTick]_<<vars, checkerVars>> => [Tick]_vars
    BY DEF CheckedTick
  <1> QED
    BY <1>1, <1>2, PTL DEF CheckedSpec, Spec

(* The checker stays silent: what it remembers of the last cycle is what the
   acknowledge FSMs moved on. *)
THEOREM CheckerStaysSilent == CheckedSpec => []CheckerSilent
  <1>1. CheckedInit => CheckerInv
    BY DEF CheckedInit, Init, CheckerInv, CheckerSilent, CheckerTypeOK
  <1>2. RunControlInv /\ CheckerInv /\ [CheckedTick]_<<vars, checkerVars>>
          => CheckerInv'
    <2>1. ASSUME RunControlInv, CheckerInv, NEW ans, Edge(ans), CheckerStep
          PROVE  CheckerInv'
      <3>1. /\ TypeOK /\ DmShape /\ RequestsStand
            /\ DmStep(ans) /\ HaltAckFsm /\ ResumeAckFsm
        BY <2>1 DEF RunControlInv, Edge
      <3>2. (HaltAck => HaltReq) /\ (ResumeAck => ResumeReq)
        BY <3>1 DEF RequestsStand, HaltAck, ResumeAck
      <3>3. ~Misused
        BY <2>1, <3>2 DEF CheckerInv, Misused, HaltAck, ResumeAck
      <3>4. /\ haltFsm' = "B" => HaltReq
            /\ HaltAck => haltFsm' = "A" /\ ~HaltReq'
        BY <3>1, <3>2, RequestHeld
        DEF HaltAckFsm, HaltAck, RequestsStand, TypeOK, EdgeTypeOK
      <3>5. /\ resumeFsm' = "B" => ResumeReq
            /\ ResumeAck => resumeFsm' = "A"
        BY <3>1, <3>2
        DEF ResumeAckFsm, ResumeAck, RequestsStand, TypeOK, EdgeTypeOK
      <3>6. CheckerTypeOK'
        <4>1. /\ HaltReq \in BOOLEAN /\ HaltAck \in BOOLEAN
              /\ ResumeReq \in BOOLEAN /\ ResumeAck \in BOOLEAN
              /\ (errorSticky \/ Misused) \in BOOLEAN
          BY Zenon DEF HaltReq, HaltAck, ResumeReq, ResumeAck
        <4> QED
          BY <2>1, <4>1, Zenon DEF CheckerStep, CheckerTypeOK
      <3> QED
        BY <2>1, <3>3, <3>4, <3>5, <3>6 DEF CheckerStep, CheckerInv, CheckerSilent
    <2>2. ASSUME CheckerInv, UNCHANGED <<vars, checkerVars>> PROVE CheckerInv'
      BY <2>2 DEF vars, dmVars, dmiRegs, edgeVars, checkerVars, CheckerInv,
         CheckerSilent, CheckerTypeOK, HaltReq, Handles
    <2> QED
      BY <2>1, <2>2 DEF CheckedTick, Tick
  <1>3. CheckerInv => CheckerSilent
    BY DEF CheckerInv
  <1> QED
    BY <1>1, <1>2, <1>3, CheckedIsRunControl, RunControlInvariant, PTL
    DEF CheckedSpec
=============================================================================

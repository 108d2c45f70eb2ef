------------------------- MODULE CheckedRunControl --------------------------
(***************************************************************************)
(* RunControl with the checker the code puts beside the handshake:         *)
(* CpuRunningStateExternalInterface.elaborate (debug/cpu_dm_if.py) delays  *)
(* the four signals by a cycle and raises error_sticky when their timing   *)
(* breaks the protocol its docstring states.                               *)
(***************************************************************************)
EXTENDS RunControlProps

VARIABLES prevHaltReq, prevHaltAck, prevResumeReq, prevResumeAck, errorSticky

checkerVars ==
    <<prevHaltReq, prevHaltAck, prevResumeReq, prevResumeAck, errorSticky>>

CheckerTypeOK ==
    /\ prevHaltReq \in BOOLEAN /\ prevHaltAck \in BOOLEAN
    /\ prevResumeReq \in BOOLEAN /\ prevResumeAck \in BOOLEAN
    /\ errorSticky \in BOOLEAN

CheckedInit ==
    /\ Init
    /\ prevHaltReq = FALSE /\ prevHaltAck = FALSE
    /\ prevResumeReq = FALSE /\ prevResumeAck = FALSE
    /\ errorSticky = FALSE

Misused ==
    \/ prevResumeAck /\ ResumeAck
    \/ prevHaltAck /\ HaltAck
    \/ ~prevHaltReq /\ HaltReq /\ HaltAck
    \/ ~prevResumeReq /\ ResumeReq /\ ResumeAck
    \/ ~ResumeReq /\ ResumeAck
    \/ prevHaltAck /\ HaltReq

CheckerStep ==
    /\ prevHaltReq' = HaltReq /\ prevHaltAck' = HaltAck
    /\ prevResumeReq' = ResumeReq /\ prevResumeAck' = ResumeAck
    /\ errorSticky' = (errorSticky \/ Misused)

CheckedTick == Tick /\ CheckerStep

CheckedSpec == CheckedInit /\ [][CheckedTick]_<<vars, checkerVars>>

(* error_sticky (cpu_dm_if.py), "Points that module was misused", stays low:
   the CPU and the Debug Module keep the timing of the handshake. *)
CheckerSilent == ~errorSticky

(* What keeps it silent: the signals of the last cycle, against the
   acknowledge FSMs of this one. *)
CheckerInv ==
    /\ CheckerTypeOK
    /\ haltFsm = "B" => prevHaltReq
    /\ resumeFsm = "B" => prevResumeReq
    /\ prevHaltAck => haltFsm = "A" /\ ~HaltReq
    /\ prevResumeAck => resumeFsm = "A"
    /\ CheckerSilent
=============================================================================

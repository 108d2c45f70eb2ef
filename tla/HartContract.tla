---------------------------- MODULE HartContract ----------------------------
(***************************************************************************)
(* What run control promises a debugger, and the program it debugs.        *)
(*                                                                         *)
(* A hart executes a program at a place.  Execution, an instruction that   *)
(* retires or a trap that is taken, is the only thing that moves the place *)
(* of a running hart.  Halting, resuming and whatever the debugger         *)
(* executes from the program buffer in between leave it alone, but for one *)
(* thing: code of the debugger may write the place itself.  A hart resumed *)
(* to single-step has a budget of one: with the budget spent it can only   *)
(* halt.                                                                   *)
(***************************************************************************)
CONSTANTS Addr, ResetPc

VARIABLES
    place,
    mode,     \* "running" or "halted", which includes Debug Mode
    budget,   \* what the hart may still execute: "free", "one" or "spent"
    moving    \* code of the debugger is about to write the place

hartVars == <<place, mode, budget, moving>>

HartInit ==
    place = ResetPc /\ mode = "running" /\ budget = "free" /\ moving = FALSE

Execute ==
    /\ mode = "running" /\ budget # "spent"
    /\ place' \in Addr
    /\ budget' = IF budget = "one" THEN "spent" ELSE "free"
    /\ UNCHANGED <<mode, moving>>

Halt ==
    /\ mode = "running"
    /\ mode' = "halted" /\ budget' = "spent"
    /\ UNCHANGED <<place, moving>>

ResumeHart ==
    /\ mode = "halted" /\ ~moving
    /\ mode' = "running" /\ budget' \in {"free", "one"}
    /\ UNCHANGED <<place, moving>>

AskToMove ==
    /\ mode = "halted" /\ ~moving
    /\ moving' = TRUE
    /\ UNCHANGED <<place, mode, budget>>

MovePlace ==
    /\ moving
    /\ place' \in Addr
    /\ moving' = FALSE
    /\ UNCHANGED <<mode, budget>>

HartNext == Execute \/ Halt \/ ResumeHart \/ AskToMove \/ MovePlace

HartSpec == HartInit /\ [][HartNext]_hartVars

(* A stepped hart halts. *)
SteppedHartHalts == mode = "running" /\ budget # "free" ~> mode = "halted"
=============================================================================

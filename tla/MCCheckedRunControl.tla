------------------------ MODULE MCCheckedRunControl ------------------------
(***************************************************************************)
(* The instances of MCRunControl with the handshake checker attached.      *)
(***************************************************************************)
EXTENDS MCRunControl, CheckedRunControl
=============================================================================

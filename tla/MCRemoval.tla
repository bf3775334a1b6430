----------------------------- MODULE MCRemoval -----------------------------
(***************************************************************************)
(* The instance of Removal for TLC: two torrents and two runs, so that a   *)
(* batch can be stopped halfway and another started while its last reply   *)
(* is due, and one failure.                                                *)
(***************************************************************************)
EXTENDS Removal
=============================================================================

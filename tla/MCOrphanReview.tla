--------------------------- MODULE MCOrphanReview ---------------------------
(***************************************************************************)
(* The instance of OrphanReview for TLC: two entries, so that a run can be *)
(* stopped between them, two scans and two windows, so that calls of the   *)
(* first one are still out when the second one opens.                      *)
(***************************************************************************)
EXTENDS OrphanReview
=============================================================================

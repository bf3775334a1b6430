-------------------------- MODULE MCInspectorFetch --------------------------
(***************************************************************************)
(* The instance of InspectorFetch for TLC.                                 *)
(***************************************************************************)
EXTENDS InspectorFetch

CONSTANTS t1, t2, s1, s2, files, overview
=============================================================================

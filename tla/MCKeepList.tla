---------------------------- MODULE MCKeepList ----------------------------
(***************************************************************************)
(* Instances of KeepList for TLC.                                          *)
(***************************************************************************)
EXTENDS KeepList

CONSTANTS a, b

\* One path that may change between two decisions, and another one.
SomeKept == {[path |-> a, stamp |-> 1], [path |-> a, stamp |-> 2],
             [path |-> b, stamp |-> 1]}
=============================================================================

-------------------------- MODULE MCTrackerHealth --------------------------
(***************************************************************************)
(* The instance of TrackerHealth for TLC: a torrent with a tracker and a   *)
(* backup, and one with the tracker alone.                                 *)
(***************************************************************************)
EXTENDS TrackerHealth

CONSTANTS t1, t2, h1, h2

Trackers == [t \in Torrent |-> IF t = t1 THEN {h1, h2} ELSE {h1}]
=============================================================================

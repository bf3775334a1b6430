---------------------------- MODULE MCPollLoop ----------------------------
(***************************************************************************)
(* The instance of PollLoop for TLC: one torrent (every property is about  *)
(* one row at a time), two session reads in flight, a full pass and a      *)
(* session read every other pass, one change and one failure.              *)
(***************************************************************************)
EXTENDS PollLoop
=============================================================================

------------------------------- MODULE MCDesk -------------------------------
(***************************************************************************)
(* The instance of Desk for TLC: two torrents, one in a folder below the   *)
(* base and one in a folder below that.  A behaviour browses the list, or   *)
(* uses some of the dialogs.                                               *)
(***************************************************************************)
EXTENDS Desk

Home  == <<"data">>
Films == <<"data", "films">>
Old   == <<"data", "films", "old">>

Plain == [labels |-> {}, dir |-> Films, status |-> "Download", active |-> TRUE,
          error |-> FALSE, trouble |-> FALSE, done |-> FALSE, size |-> 0]

Torrents ==
    {[i \in Id |-> IF i = 1 THEN Plain
                   ELSE [Plain EXCEPT !.dir = Old, !.status = "Stopped",
                                      !.active = FALSE, !.labels = {"x"}]]}

Befalls ==
    {[labels |-> {"x", "y"}, status |-> "Check", active |-> FALSE],
     [status |-> "Seed", done |-> TRUE, size |-> 1], [error |-> TRUE]}

Searches == {Id, {2}}

Advs == {NoAdv, [size |-> "gt10", idle |-> "any"], [idle |-> "active"],
         [size |-> "unheard-of"]}

Dirs == {Home, Films, Old}

Scripts ==
    {{"browse", "select", "focus"}, {"select", "focus", "bulk"},
     {"select", "menu"}, {"select", "focus", "remove"}, {"select", "labels"},
     {"select", "location"}, {"menu", "location"}, {"menu", "rename"},
     {"menu", "limits"}, {"focus", "trackers"}, {"settings"}, {"add"}}
=============================================================================

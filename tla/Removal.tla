------------------------------ MODULE Removal ------------------------------
(***************************************************************************)
(* Bulk removal with visible progress: removeSequence, stopRemoval and     *)
(* dismissRemoval of ui/src/state/store.ts and the RemoveBar of List.tsx,  *)
(* while the daemon deletes, replies get lost and polls overlap the run.   *)
(*                                                                         *)
(* A run is the loop of one removeSequence call; a stopped run can still   *)
(* await its last reply while the next one is going.  A batch is a set:    *)
(* its order is any order.  The number removing.done is kept as the set of *)
(* the ids it counts.  The selection, which only decides what the next     *)
(* batch may be, is left out.  The poll chain is that of PollLoop, with    *)
(* its passes one after the other and without the full pass it makes from  *)
(* time to time: what a run leaves behind, its own refresh must clear.     *)
(***************************************************************************)
EXTENDS Naturals

CONSTANTS
    Id,        \* torrent ids
    None,
    MaxRuns,   \* bound: calls of removeSequence
    MaxFails   \* bound: polls and removals that fail

Token == 1..MaxRuns

VARIABLES
    has,         \* the daemon's torrents
    rows, focus, \* the list, and the torrent in the inspector
    removing,    \* the run on screen
    loop,        \* the runs that still await a reply, by token
    runs,        \* removalToken
    poll, owed,  \* the poll in flight, and forceFull
    halted,      \* history: the runs the user stopped
    fails

vars == <<has, rows, focus, removing, loop, runs, poll, owed, halted, fails>>

Removing == [token : Token, ids : SUBSET Id, done : SUBSET Id,
             active : Id \cup {None}, failed : SUBSET Id, stopped : BOOLEAN]
Loop     == [todo : SUBSET Id, id : Id, reply : {"none", "ok", "failed"}]
Poll     == [forced : BOOLEAN, full : BOOLEAN, list : SUBSET Id,
             removed : SUBSET Id, answered : BOOLEAN]

ASSUME RemovalAssumption ==
    /\ None \notin Id /\ None \notin Removing \cup Loop \cup Poll
    /\ MaxRuns \in Nat /\ MaxFails \in Nat

Init ==
    /\ has \in SUBSET Id /\ rows = has
    /\ focus \in rows \cup {None}
    /\ removing = None
    /\ loop = [t \in Token |-> None]
    /\ runs = 0
    /\ poll = None /\ owed = FALSE
    /\ halted = {} /\ fails = 0

-----------------------------------------------------------------------------
\* Mutant: whatever run is on screen is taken for one's own.
Mine_Any(r, t) == r # None

\* mine(): the run on screen is still this one.
Mine(r, t) == r # None /\ r.token = t

\* The loop's check before every torrent.
Going(r, t) == Mine(r, t) /\ ~r.stopped

\* Mutant: a new run is never refused.
InFlight_Never(r) == FALSE

\* Already removing, in the sense of removeSequence.
InFlight(r) == r # None /\ ~r.stopped /\ r.done # r.ids

Refocus(i) == IF focus = i THEN None ELSE focus

\* removeSequence, up to its first await.  The ids come from a dialog that
\* may have been open for long.
RemoveSequence(ids) ==
    /\ ids # {} /\ ~InFlight(removing)
    /\ runs < MaxRuns
    /\ runs' = runs + 1
    /\ \E i \in ids :
         /\ removing' = [token |-> runs', ids |-> ids, done |-> {},
                         active |-> i, failed |-> {}, stopped |-> FALSE]
         /\ loop' = [loop EXCEPT ![runs'] =
                       [todo |-> ids \ {i}, id |-> i, reply |-> "none"]]
    /\ UNCHANGED <<has, rows, focus, poll, owed, halted, fails>>

\* Mutant: a failure is counted like any other reply.
Counted_Done(r, i, ok) == [r EXCEPT !.done = @ \cup {i}, !.active = None]

\* The tally after a reply about torrent i.
Counted(r, i, ok) ==
    [r EXCEPT !.done = @ \cup {i}, !.active = None,
              !.failed = IF ok THEN @ ELSE @ \cup {i}]

\* The row of a torrent that is gone is dropped at once, and the inspector
\* with it.
Dropped(i, ok) ==
    /\ rows' = IF ok THEN rows \ {i} ELSE rows
    /\ focus' = IF ok THEN Refocus(i) ELSE focus

\* Mutant: a run that was superseded or failed does not refresh.
Finish_Mine(t, r) ==
    /\ loop' = [loop EXCEPT ![t] = None]
    /\ owed' = (owed \/ Mine(r, t))
    /\ removing' = IF Mine(r, t) /\ r.failed = {} THEN None ELSE r

\* finishRemoval, and the end of the loop.
Finish(t, r) ==
    /\ loop' = [loop EXCEPT ![t] = None]
    /\ owed' = TRUE
    /\ removing' = IF Mine(r, t) /\ r.failed = {} THEN None ELSE r

\* The loop goes on from the tally r: the next torrent, or the end.
GoOn(t, r) ==
    \/ /\ Going(r, t)
       /\ \E i \in loop[t].todo :
            /\ removing' = [r EXCEPT !.active = i]
            /\ loop' = [loop EXCEPT ![t] = [todo |-> loop[t].todo \ {i},
                                            id |-> i, reply |-> "none"]]
       /\ owed' = owed
    \/ /\ Going(r, t) => loop[t].todo = {}
       /\ Finish(t, r)

\* The reply of api.remove arrives.
Reply(t) ==
    /\ loop[t] # None /\ loop[t].reply # "none"
    /\ LET i  == loop[t].id
           ok == loop[t].reply = "ok"
       IN  /\ Dropped(i, ok)
           /\ GoOn(t, IF Mine(removing, t) THEN Counted(removing, i, ok)
                      ELSE removing)
    /\ UNCHANGED <<has, runs, poll, halted, fails>>

\* The bar's buttons.  Stop shows until the run is finished, Dismiss after
\* that, when there are failures.
Finished(r) == (r.done = r.ids \/ r.stopped) /\ r.active = None

StopRemoval ==
    /\ removing # None /\ ~Finished(removing) /\ ~removing.stopped
    /\ removing' = [removing EXCEPT !.stopped = TRUE]
    /\ halted' = halted \cup {removing.token}
    /\ UNCHANGED <<has, rows, focus, loop, runs, poll, owed, fails>>

DismissRemoval ==
    /\ removing # None /\ Finished(removing) /\ removing.failed # {}
    /\ removing' = None
    /\ UNCHANGED <<has, rows, focus, loop, runs, poll, owed, halted, fails>>

Focus(i) ==
    /\ focus' = i
    /\ i \in rows \cup {None}
    /\ UNCHANGED <<has, rows, removing, loop, runs, poll, owed, halted, fails>>

-----------------------------------------------------------------------------
(* Polls: a delta may hold any part of what there is and of what is gone.  *)

PollStarts ==
    /\ poll = None
    /\ \E full \in BOOLEAN :
         /\ owed => full
         /\ poll' = [forced |-> owed, full |-> full, list |-> {},
                     removed |-> {}, answered |-> FALSE]
    /\ owed' = FALSE
    /\ UNCHANGED <<has, rows, focus, removing, loop, runs, halted, fails>>

PollAnswered ==
    /\ poll # None /\ ~poll.answered
    /\ \E list \in SUBSET has, removed \in SUBSET (Id \ has) :
         /\ poll.full => list = has
         /\ poll' = [poll EXCEPT !.list = list, !.removed = removed,
                                 !.answered = TRUE]
    /\ UNCHANGED <<has, rows, focus, removing, loop, runs, owed, halted, fails>>

PollMerged ==
    /\ poll # None /\ poll.answered
    /\ rows' = IF poll.full THEN poll.list
               ELSE (rows \cup poll.list) \ poll.removed
    /\ focus' = IF focus \in rows' THEN focus ELSE None
    /\ poll' = None
    /\ UNCHANGED <<has, removing, loop, runs, owed, halted, fails>>

PollFails ==
    /\ poll # None /\ fails < MaxFails
    /\ fails' = fails + 1
    /\ poll' = None
    /\ owed' = (owed \/ poll.forced)
    /\ UNCHANGED <<has, rows, focus, removing, loop, runs, halted>>

(* The daemon (external) unlinks one torrent at a time.                    *)

Replies(t, reply) == loop' = [loop EXCEPT ![t].reply = reply]

Unanswered(t) == loop[t] # None /\ loop[t].reply = "none"

Removed(t) ==
    /\ Unanswered(t)
    /\ has' = has \ {loop[t].id}
    /\ Replies(t, "ok")
    /\ UNCHANGED <<rows, focus, removing, runs, poll, owed, halted, fails>>

\* The daemon refuses, or the call is lost on its way there or back.
RemoveFails(t, before) ==
    /\ Unanswered(t) /\ fails < MaxFails
    /\ fails' = fails + 1
    /\ has' = IF before THEN has ELSE has \ {loop[t].id}
    /\ Replies(t, "failed")
    /\ UNCHANGED <<rows, focus, removing, runs, poll, owed, halted>>

-----------------------------------------------------------------------------
Run(t) == Reply(t) \/ Removed(t)

Next ==
    \/ \E ids \in SUBSET Id : RemoveSequence(ids)
    \/ \E t \in Token : Run(t) \/ \E before \in BOOLEAN : RemoveFails(t, before)
    \/ StopRemoval \/ DismissRemoval
    \/ \E i \in Id \cup {None} : Focus(i)
    \/ PollStarts \/ PollAnswered \/ PollMerged \/ PollFails

Spec == Init /\ [][Next]_vars

\* Every call is answered or fails, and the poll chain goes on (PollLoop).
Fairness ==
    /\ \A t \in Token : WF_vars(Run(t))
    /\ WF_vars(PollStarts) /\ WF_vars(PollAnswered) /\ WF_vars(PollMerged)

FairSpec == Spec /\ Fairness

-----------------------------------------------------------------------------
\* Every variable has its type.
TypeOK ==
    /\ has \in SUBSET Id /\ rows \in SUBSET Id
    /\ focus \in Id \cup {None}
    /\ removing \in Removing \cup {None}
    /\ loop \in [Token -> Loop \cup {None}]
    /\ runs \in 0..MaxRuns
    /\ poll \in Poll \cup {None}
    /\ owed \in BOOLEAN
    /\ halted \in SUBSET Token
    /\ fails \in Nat

\* The bar tells the truth: what it counts as removed is gone from the
\* daemon, what it names as being deleted is what its loop awaits, and it is
\* never left standing by a loop that ended, but for failures to read.
TallyTrue ==
    removing # None =>
        /\ (removing.done \ removing.failed) \cap has = {}
        /\ removing.active # None => /\ loop[removing.token] # None
                                     /\ loop[removing.token].id = removing.active
        /\ loop[removing.token] = None =>
             Finished(removing) /\ removing.failed # {}

\* Of all the loops that await a reply, only the one on screen may go on; a
\* batch is never deleted by two of them.
OneRun == \A t \in Token : loop[t] # None => t \in halted \/ Mine(removing, t)

\* "Stop issuing further removes" (store.ts:547): a run that was stopped asks
\* for no further torrent, whichever run is on the screen when its last reply
\* comes.
StopHolds ==
    [][\A t \in halted : loop'[t] = None \/ /\ loop[t] # None
                                            /\ loop'[t].id = loop[t].id]_vars

\* The inspector shows a torrent of the list.
InspectorShows == focus \in rows \cup {None}

\* A torrent whose removal failed stays marked until the user dismisses it
\* (store.ts:532-534) or tries it again.
FailuresStay ==
    [][removing # None /\ removing' # None =>
         removing.failed \subseteq removing'.failed \cup removing'.ids]_vars

\* When all is said, the list shows what the daemon has: a row that a poll
\* asked before the removal brought back does not stay.
RowsSettle == <>[](rows = has)

\* A run comes to its end: off the screen, or with its failures on it.
RunEnds ==
    \A t \in Token :
        loop[t] # None ~> loop[t] = None /\ (Mine(removing, t)
                                               => removing.failed # {})

\* The state is of its type, one loop goes on, and the inspector shows a row.
Consistent == TypeOK /\ OneRun /\ InspectorShows

\* What a run leaves behind settles: the list, and the run itself.
Settles == RowsSettle /\ RunEnds
=============================================================================

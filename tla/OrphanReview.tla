---------------------------- MODULE OrphanReview ----------------------------
(***************************************************************************)
(* The browser's side of the orphan finder: the Scan button of Settings    *)
(* (Orphans.tsx), the review window with its decisions and its delete run  *)
(* (OrphanReview.tsx) and the calls between them and the backend           *)
(* (api/orphans.ts, handler.go).                                           *)
(*                                                                         *)
(* The backend is what OrphanService and KeepList promise: a call takes    *)
(* effect at one moment, a scan or delete that meets another one is        *)
(* refused, and an entry is known by the scan that offered it.  Other tabs *)
(* scan, delete and forget as well.                                        *)
(***************************************************************************)
EXTENDS Naturals, FiniteSets, SequencesExt

CONSTANTS
    Entry,        \* paths that a scan may offer
    None,
    MaxScans,     \* bound: scans that end well
    MaxWindows,   \* bound: review windows
    MaxDecisions, \* bound: keys pressed
    MaxFails      \* bound: calls that fail without a reason of the backend's

\* A scan that the section has asked for, and what came of it.
Asks == [at : {"sent", "walk", "done", "failed"}, scan : 0..MaxScans,
         entries : SUBSET Entry]

ASSUME ReviewAssumption ==
    /\ MaxScans \in Nat /\ MaxWindows \in Nat /\ MaxDecisions \in Nat
    /\ MaxFails \in Nat
    /\ None \notin Entry \cup Asks
    /\ None \notin {"del", "keep", "queued", "active", "deleted", "failed", "kept"}

VARIABLES
    disk, kept,   \* what is on the disk, and what is remembered
    scan,         \* the current scan
    offers,       \* offers[s]: the entries that can still be asked for in scan s
    op,           \* the scan that is under way
    dialog,       \* the dialog of the store
    view,         \* the scan that the review dialog is for
    signedIn,
    ask,          \* the section's scan
    win,          \* the review window on the screen
    wins,         \* windows so far
    run,          \* run[n]: the delete run of window n
    queue,        \* queue[n]: its calls of keep and unkeep
    ghosts,       \* calls that the browser has given up
    keys, fails

server == <<disk, kept, scan, offers, op>>
pages  == <<dialog, view, signedIn, ask>>
vars == <<disk, kept, scan, offers, op, dialog, view, signedIn, ask, win,
          wins, run, queue, ghosts, keys, fails>>

Window == 1..MaxWindows

\* The decisions that make an entry be kept, deleted, or neither.
Decision == {"del", "keep", None}

Init ==
    /\ disk = Entry /\ kept = {} /\ scan = 0
    /\ offers = [s \in 1..MaxScans |-> {}] /\ op = None
    /\ dialog = "other" /\ view = None /\ signedIn = TRUE
    /\ ask = None /\ win = None /\ wins = 0
    /\ run = [n \in Window |-> None] /\ queue = [n \in Window |-> <<>>]
    /\ ghosts = {} /\ keys = 0 /\ fails = 0

-----------------------------------------------------------------------------
(* The backend: scans.                                                     *)

\* handleScan begins, or refuses with 423.
ScanBegins ==
    /\ ask # None /\ ask.at = "sent"
    /\ \/ /\ op = None
          /\ op' = [mine |-> TRUE, read |-> FALSE, hides |-> {}]
          /\ ask' = [ask EXCEPT !.at = "walk"]
       \/ /\ op # None
          /\ ask' = [ask EXCEPT !.at = "failed"]
          /\ UNCHANGED op
    /\ UNCHANGED <<disk, kept, scan, offers, dialog, view, signedIn, win,
                   wins, run, queue, ghosts, keys, fails>>

\* A scan of another tab.
OtherScanBegins ==
    /\ op = None
    /\ op' = [mine |-> FALSE, read |-> FALSE, hides |-> {}]
    /\ UNCHANGED <<disk, kept, scan, offers, pages, win, wins, run, queue, ghosts,
                   keys, fails>>

\* After the walk, the remembered Keeps are read.
ScanReadsKept ==
    /\ op # None /\ ~op.read
    /\ op' = [op EXCEPT !.read = TRUE, !.hides = kept]
    /\ UNCHANGED <<disk, kept, scan, offers, pages, win, wins, run, queue, ghosts,
                   keys, fails>>

\* The result replaces the one before.
ScanEnds ==
    /\ op # None /\ op.read
    /\ scan < MaxScans
    /\ scan' = scan + 1
    /\ offers' = [offers EXCEPT ![scan'] = disk \ op.hides]
    /\ ask' = IF op.mine THEN [at |-> "done", scan |-> scan', entries |-> offers'[scan']]
              ELSE ask
    /\ op' = None
    /\ UNCHANGED <<disk, kept, dialog, view, signedIn, win, wins, run, queue,
                   ghosts, keys, fails>>

\* The daemon or the disk fails it, or its browser has gone.
ScanFails ==
    /\ op # None
    /\ ask' = IF op.mine THEN [ask EXCEPT !.at = "failed"] ELSE ask
    /\ op' = None
    /\ UNCHANGED <<disk, kept, scan, offers, dialog, view, signedIn, win,
                   wins, run, queue, ghosts, keys, fails>>

-----------------------------------------------------------------------------
(* The section in Settings, and what opens and closes dialogs.             *)

\* An aborted scan may still come to its end at the backend.
Aborted ==
    /\ ask' = None
    /\ op' = IF op # None /\ op.mine THEN [op EXCEPT !.mine = FALSE] ELSE op

\* Mutant: nothing stops the scan when the section closes.
Closes_Going == UNCHANGED <<ask, op>>

\* The section closes, which stops its scan; so does its Stop button.
Closes == IF dialog = "settings" THEN Aborted ELSE UNCHANGED <<ask, op>>

NewWindow(v) ==
    /\ wins < MaxWindows
    /\ wins' = wins + 1
    /\ win' = [n |-> wins', scan |-> v.scan, entries |-> v.entries,
               dec |-> [e \in Entry |-> None], phase |-> "review",
               out |-> [e \in Entry |-> None], stopped |-> FALSE,
               acked |-> {}, sent |-> {}, vouched |-> {}]

\* The user goes to Settings.
OpenSettings ==
    /\ signedIn /\ dialog = "other"
    /\ dialog' = "settings"
    /\ UNCHANGED <<server, view, signedIn, ask, win, wins, run, queue, ghosts,
                   keys, fails>>

\* Settings is closed, or a file dropped on the page opens Add, whatever the
\* dialog was.
Leave ==
    /\ signedIn /\ dialog # "other"
    /\ dialog' = "other" /\ view' = None
    /\ Closes
    /\ win' = None
    /\ UNCHANGED <<disk, kept, scan, offers, signedIn, wins, run, queue, ghosts,
                   keys, fails>>

\* A poll is answered with 401: the sign-in screen replaces everything, and
\* the dialog stays in the store.
SignOut ==
    /\ signedIn /\ dialog # "other"
    /\ signedIn' = FALSE
    /\ Closes
    /\ win' = None
    /\ UNCHANGED <<disk, kept, scan, offers, dialog, view, wins, run, queue,
                   ghosts, keys, fails>>

\* A poll is answered again: the dialog is mounted anew.
SignIn ==
    /\ ~signedIn
    /\ signedIn' = TRUE
    /\ IF dialog = "review" THEN NewWindow(view)
       ELSE UNCHANGED <<win, wins>>
    /\ UNCHANGED <<server, dialog, view, ask, run, queue, ghosts, keys, fails>>

\* The Scan button, or Settings opened by Scan again.
Scan ==
    /\ signedIn /\ dialog = "settings" /\ ask = None
    /\ wins < MaxWindows /\ scan < MaxScans    \* bounds
    /\ ask' = [at |-> "sent", scan |-> 0, entries |-> {}]
    /\ UNCHANGED <<server, dialog, view, signedIn, win, wins, run, queue, ghosts,
                   keys, fails>>

StopScan ==
    /\ signedIn /\ dialog = "settings" /\ ask # None
    /\ Aborted
    /\ UNCHANGED <<disk, kept, scan, offers, dialog, view, signedIn, win,
                   wins, run, queue, ghosts, keys, fails>>

\* A result with entries opens the review.
ScanDone ==
    /\ ask # None /\ ask.at = "done" /\ ask.entries # {}
    /\ dialog' = "review"
    /\ view' = [scan |-> ask.scan, entries |-> ask.entries]
    /\ NewWindow(view')
    /\ ask' = None
    /\ UNCHANGED <<server, signedIn, run, queue, ghosts, keys, fails>>

\* Nothing new, or an error: the section says so.
ScanClean ==
    /\ ask # None
    /\ \/ ask.at = "failed"
       \/ ask.at = "done" /\ ask.entries = {}
    /\ ask' = None
    /\ UNCHANGED <<server, dialog, view, signedIn, win, wins, run, queue,
                   ghosts, keys, fails>>

-----------------------------------------------------------------------------
(* The review window.                                                      *)

In(phase) == win # None /\ win.phase = phase

ToDelete == {e \in win.entries : win.dec[e] = "del"}

\* Mutant: the keys work all the time.
Decides_Always == win # None

\* The keys and buttons of the detail pane.
Decides == In("review")

\* decide: K, D or U on entry e.  Keep is sent right away, taking it back too.
Decide(e, d) ==
    /\ Decides /\ e \in win.entries /\ win.dec[e] # d
    /\ keys < MaxDecisions /\ keys' = keys + 1
    /\ LET calls == {c \in {"keep", "unkeep"} :
                        IF c = "keep" THEN d = "keep" ELSE win.dec[e] = "keep"}
       IN  /\ queue' = [queue EXCEPT ![win.n] =
                @ \o SetToSeq({[call |-> c, scan |-> win.scan, e |-> e, at |-> "sent"] :
                                  c \in calls})]
           /\ win' = [win EXCEPT !.dec[e] = d,
                                 !.vouched = IF calls = {} THEN @ ELSE @ \cup {e}]
    /\ UNCHANGED <<server, pages, wins, run, ghosts, fails>>

Confirm ==
    /\ In("review") /\ ToDelete # {}
    /\ win' = [win EXCEPT !.phase = "confirm"]
    /\ UNCHANGED <<server, pages, wins, run, queue, ghosts, keys, fails>>

Back ==
    /\ In("confirm")
    /\ win' = [win EXCEPT !.phase = "review"]
    /\ UNCHANGED <<server, pages, wins, run, queue, ghosts, keys, fails>>

\* The run of window w asks for the next entry e, with `more` to come.
Sends(w, e, more) ==
    /\ win' = [w EXCEPT !.out[e] = "active", !.sent = @ \cup {e}]
    /\ run' = [run EXCEPT ![w.n] = [todo |-> more, id |-> e, scan |-> w.scan,
                                    at |-> "sent"]]

\* run, up to its first await.
Go ==
    /\ In("confirm")
    /\ \E e \in ToDelete :
         Sends([win EXCEPT !.phase = "deleting", !.stopped = FALSE, !.sent = {},
                           !.out = [i \in Entry |-> IF i \in ToDelete THEN "queued"
                                                    ELSE None]],
               e, ToDelete \ {e})
    /\ UNCHANGED <<server, pages, wins, queue, ghosts, keys, fails>>

Stop ==
    /\ In("deleting") /\ ~win.stopped
    /\ win' = [win EXCEPT !.stopped = TRUE]
    /\ UNCHANGED <<server, pages, wins, run, queue, ghosts, keys, fails>>

\* The loop is over: what was not asked for is a plain decision again.
Finished(w) ==
    [w EXCEPT !.phase = "done",
              !.out = [e \in Entry |-> IF @[e] = "queued" THEN None ELSE @[e]]]

\* Mutant: after a Stop the loop just returns.
GoesOn_Stuck(w, r) ==
    IF ~w.stopped /\ r.todo # {}
    THEN \E e \in r.todo : Sends(w, e, r.todo \ {e})
    ELSE /\ win' = IF w.stopped THEN w ELSE Finished(w)
         /\ run' = [run EXCEPT ![w.n] = None]

\* The loop's check before every entry.
GoesOn(w, r) ==
    IF ~w.stopped /\ r.todo # {}
    THEN \E e \in r.todo : Sends(w, e, r.todo \ {e})
    ELSE win' = Finished(w) /\ run' = [run EXCEPT ![w.n] = None]

\* From one await of run to the next.  If its window has closed it ends.
DeleteReply(n) ==
    /\ run[n] # None /\ run[n].at # "sent"
    /\ LET r == run[n]
       IN  IF win # None /\ win.n = n
           THEN GoesOn([win EXCEPT !.out[r.id] = r.at,
                                   !.acked = IF r.at = "deleted" THEN @ \cup {r.id}
                                             ELSE @], r)
           ELSE run' = [run EXCEPT ![n] = None] /\ UNCHANGED win
    /\ UNCHANGED <<server, pages, wins, queue, ghosts, keys, fails>>

\* Mutant: all that was asked for leaves the list.
Gone_Attempted(w) == {e \in Entry : w.out[e] # None}

Gone(w) == {e \in Entry : w.out[e] = "deleted"}

Dismiss ==
    /\ In("done")
    /\ win' = [win EXCEPT !.entries = @ \ Gone(win),
                          !.dec = [e \in Entry |-> IF e \in Gone(win) THEN None ELSE @[e]],
                          !.out = [e \in Entry |-> None], !.phase = "review"]
    /\ UNCHANGED <<server, pages, wins, run, queue, ghosts, keys, fails>>

\* Close, and Scan again, go back to Settings.
CloseReview ==
    /\ In("review") \/ In("done")
    /\ dialog' = "settings" /\ view' = None
    /\ win' = None
    /\ UNCHANGED <<server, signedIn, ask, wins, run, queue, ghosts,
                   keys, fails>>

-----------------------------------------------------------------------------
(* The backend: calls about one entry.                                     *)

\* The scan was replaced (410), or the entry has been deleted (500).
Refused(s, e) == s # scan \/ e \notin offers[s]

Removed(s, e) ==
    /\ disk' = disk \ {e}
    /\ offers' = [offers EXCEPT ![s] = @ \ {e}]

\* handleDelete: refused, kept by the recheck (409), done, or failed half-way.
DeleteHandled(n) ==
    /\ run[n] # None /\ run[n].at = "sent"
    /\ LET r == run[n]
           Answers(a) == run' = [run EXCEPT ![n].at = a]
       IN  \/ /\ op # None \/ Refused(r.scan, r.id)
              /\ Answers("failed")
              /\ UNCHANGED <<disk, offers, fails>>
           \/ /\ op = None /\ ~Refused(r.scan, r.id)
              /\ Answers("kept")
              /\ UNCHANGED <<disk, offers, fails>>
           \/ /\ op = None /\ ~Refused(r.scan, r.id) /\ r.id \in disk
              /\ Answers("deleted")
              /\ Removed(r.scan, r.id)
              /\ UNCHANGED fails
           \/ /\ fails < MaxFails /\ fails' = fails + 1
              /\ Answers("failed")
              /\ UNCHANGED <<disk, offers>>
    /\ UNCHANGED <<kept, scan, op, pages, win, wins, queue, ghosts, keys>>

\* The answer to a delete is lost; the backend may have got the call, or may
\* still get it.
DeleteLost(n) ==
    /\ run[n] # None /\ run[n].at # "failed"
    /\ fails < MaxFails /\ fails' = fails + 1
    /\ ghosts' = ghosts \cup {[call |-> "delete", scan |-> run[n].scan, e |-> run[n].id] :
                                 x \in {run[n].at} \cap {"sent"}}
    /\ run' = [run EXCEPT ![n].at = "failed"]
    /\ UNCHANGED <<server, pages, win, wins, queue, keys>>

\* Mutant: every call goes out at once.
InFlight_All(q) == DOMAIN q

\* Each call of the queue waits for the one before.
InFlight(q) == DOMAIN q \cap {1}

Remembered(call, e) == IF call = "keep" THEN kept \cup {e} ELSE kept \ {e}

\* Nothing more is said of the entries S in a window other than n.
Doubts(n, S) ==
    win' = IF win # None /\ win.n # n THEN [win EXCEPT !.vouched = @ \ S] ELSE win

\* handleKeep, handleUnkeep.
KeepHandled(n, i) ==
    /\ i \in InFlight(queue[n]) /\ queue[n][i].at = "sent"
    /\ LET c == queue[n][i]
       IN  \/ /\ ~Refused(c.scan, c.e)
              /\ kept' = Remembered(c.call, c.e)
              /\ queue' = [queue EXCEPT ![n][i].at = "ok"]
              /\ Doubts(n, {c.e})
              /\ UNCHANGED fails
           \/ /\ \/ Refused(c.scan, c.e) /\ UNCHANGED fails
                 \/ fails < MaxFails /\ fails' = fails + 1
              /\ queue' = [queue EXCEPT ![n][i].at = "failed"]
              /\ UNCHANGED <<kept, win>>
    /\ UNCHANGED <<disk, scan, offers, op, pages, wins, run, ghosts, keys>>

\* The answer comes; a failure is told in a toast, and the queue goes on.
KeepReply(n, i) ==
    /\ i \in InFlight(queue[n]) /\ queue[n][i].at # "sent"
    /\ queue' = [queue EXCEPT ![n] = RemoveAt(@, i)]
    /\ win' = IF queue[n][i].at = "failed" /\ win # None /\ win.n = n
              THEN [win EXCEPT !.vouched = @ \ {queue[n][i].e}] ELSE win
    /\ UNCHANGED <<server, pages, wins, run, ghosts, keys, fails>>

KeepLost(n, i) ==
    /\ i \in InFlight(queue[n]) /\ queue[n][i].at # "failed"
    /\ fails < MaxFails /\ fails' = fails + 1
    /\ LET c == queue[n][i]
       IN  ghosts' = ghosts \cup {[call |-> c.call, scan |-> c.scan, e |-> c.e] :
                                     x \in {c.at} \cap {"sent"}}
    /\ queue' = [queue EXCEPT ![n][i].at = "failed"]
    /\ UNCHANGED <<server, pages, win, wins, run, keys>>

\* A call that was given up reaches the backend, or never does.
Ghost(g) ==
    /\ ghosts' = ghosts \ {g}
    /\ \/ UNCHANGED <<disk, kept, offers, win>>
       \/ /\ g.call = "delete" /\ op = None /\ ~Refused(g.scan, g.e) /\ g.e \in disk
          /\ Removed(g.scan, g.e)
          /\ UNCHANGED <<kept, win>>
       \/ /\ g.call # "delete" /\ ~Refused(g.scan, g.e)
          /\ kept' = Remembered(g.call, g.e)
          /\ Doubts(0, {g.e})
          /\ UNCHANGED <<disk, offers>>
    /\ UNCHANGED <<scan, op, pages, wins, run, queue, keys, fails>>

\* Forget all, here or in another tab.
ForgetAll ==
    /\ kept # {}
    /\ kept' = {}
    /\ Doubts(0, Entry)
    /\ UNCHANGED <<disk, scan, offers, op, pages, wins, run, queue, ghosts, keys,
                   fails>>

Calls(n) ==
    \/ DeleteHandled(n) \/ DeleteReply(n) \/ DeleteLost(n)
    \/ \E i \in DOMAIN queue[n] : KeepHandled(n, i) \/ KeepReply(n, i) \/ KeepLost(n, i)

Next ==
    \/ ScanBegins \/ OtherScanBegins \/ ScanReadsKept \/ ScanEnds \/ ScanFails
    \/ OpenSettings \/ Leave \/ SignOut \/ SignIn
    \/ Scan \/ StopScan \/ ScanDone \/ ScanClean
    \/ \E e \in Entry, d \in Decision : Decide(e, d)
    \/ Confirm \/ Back \/ Go \/ Stop \/ Dismiss \/ CloseReview
    \/ \E n \in Window : Calls(n)
    \/ \E g \in ghosts : Ghost(g)
    \/ ForgetAll

Spec == Init /\ [][Next]_vars

\* A call that the browser has out is handled and answered.
Fairness ==
    \A n \in Window :
        /\ WF_vars(DeleteHandled(n)) /\ WF_vars(DeleteReply(n))
        /\ WF_vars(\E i \in DOMAIN queue[n] : KeepHandled(n, i) \/ KeepReply(n, i))

FairSpec == Spec /\ Fairness

-----------------------------------------------------------------------------
Outcome == {None, "queued", "active", "deleted", "failed", "kept"}

Scans   == [mine : BOOLEAN, read : BOOLEAN, hides : SUBSET Entry]
Views   == [scan : 1..MaxScans, entries : SUBSET Entry]
Windows == [n : Window, scan : 1..MaxScans, entries : SUBSET Entry,
            dec : [Entry -> Decision],
            phase : {"review", "confirm", "deleting", "done"},
            out : [Entry -> Outcome], stopped : BOOLEAN, acked : SUBSET Entry,
            sent : SUBSET Entry, vouched : SUBSET Entry]
Runs    == [todo : SUBSET Entry, id : Entry, scan : 1..MaxScans,
            at : {"sent", "deleted", "failed", "kept"}]
Keeps   == [call : {"keep", "unkeep"}, scan : 1..MaxScans, e : Entry,
            at : {"sent", "ok", "failed"}]
Ghosts  == [call : {"keep", "unkeep", "delete"}, scan : 1..MaxScans, e : Entry]

\* Every variable has its type.
TypeOK ==
    /\ disk \subseteq Entry /\ kept \subseteq Entry
    /\ scan \in 0..MaxScans /\ offers \in [1..MaxScans -> SUBSET Entry]
    /\ op \in Scans \cup {None}
    /\ dialog \in {"other", "settings", "review"} /\ signedIn \in BOOLEAN
    /\ view \in Views \cup {None} /\ ask \in Asks \cup {None}
    /\ win \in Windows \cup {None}
    /\ win # None => {e \in Entry : win.dec[e] # None} \subseteq win.entries
    /\ wins \in 0..MaxWindows
    /\ run \in [Window -> Runs \cup {None}]
    /\ queue \in [Window -> Seq(Keeps)]
    /\ ghosts \subseteq Ghosts
    /\ keys \in 0..MaxDecisions /\ fails \in 0..MaxFails

\* What the window asks to delete is in the list that was confirmed, is still
\* decided so, is shown as being deleted, and was not deleted before.
DecidedOnly ==
    \A n \in Window : run[n] # None /\ win # None /\ win.n = n =>
        LET e == run[n].id
        IN  /\ win.phase = "deleting" /\ win.out[e] = "active"
            /\ e \in ToDelete \ win.acked /\ run[n].todo \subseteq ToDelete \ win.acked

\* Rows tell the truth: a row is deleted only if the backend did it; a tally
\* is of the deletes that were asked for; and back in the review the list is
\* what the scan found but for what was deleted, so that everything else can
\* be tried again.
RowsTrue ==
    win # None =>
        /\ \A e \in Entry : win.out[e] = "deleted" => e \notin disk
        /\ win.phase = "done" => {e \in Entry : win.out[e] # None} = win.sent
        /\ win.phase = "review" => win.entries = view.entries \ win.acked

\* The last key wins ("K then U on the same entry must leave it forgotten"):
\* when all calls of a window are answered, an entry decided in it is remembered
\* if and only if the decision is Keep, or a toast told that a call failed, or
\* another window or tab had its hand in it.
LastKeyWins ==
    win # None /\ queue[win.n] = <<>> =>
        \A e \in win.vouched : e \in kept <=> win.dec[e] = "keep"

\* A scan that ends opens the review from Settings only: it never takes the
\* place of another dialog, or of the sign-in screen.
NoSurprise ==
    [][dialog' = "review" /\ dialog # "review" => dialog = "settings" /\ signedIn]_vars

\* A delete run ends, stopped or not, whatever the backend answers.
RunEnds == (In("deleting")) ~> ~In("deleting")

\* Every Keep and Undo is answered, though calls before it failed and though
\* the window closes.
QueueDrains == \A n \in Window : queue[n] # <<>> ~> queue[n] = <<>>

\* The state is of its type, and a run asks only for what was decided.
Consistent == TypeOK /\ DecidedOnly

\* What a window has started comes to its end: its run and its queue.
Settles == RunEnds /\ QueueDrains
=============================================================================

--------------------------- MODULE InspectorFetch ---------------------------
(***************************************************************************)
(* What the inspector shows: refreshDetail, focus and setInspectorTab of   *)
(* ui/src/state/store.ts, with the passes and the writes that call         *)
(* refreshDetail, against a daemon whose torrents change.                  *)
(*                                                                         *)
(* The fields of a torrent's detail are those of each tab that move on     *)
(* their own (EXTRA_LIVE) and "fixed", the rest.  Every field carries the  *)
(* time of its last change.  Of the list only which torrents there are,    *)
(* and which have their metadata, is kept; a delta is as good as a full    *)
(* answer (PollLoop and SimDaemon are about that).  A call is executed at  *)
(* one moment, or fails.  Statistics, the session and free space are left  *)
(* out, and so is signing out.                                             *)
(***************************************************************************)
EXTENDS Naturals, FiniteSets

CONSTANTS
    Id,           \* torrent ids
    Magnet,       \* those that have no metadata at first
    First,        \* bound: what may be focused at first
    Tab,          \* inspector tabs
    Overview,     \* the one that is open at first
    Slot,         \* bound: detail fetches in flight together
    FullEvery,    \* FULL_EVERY, 30
    None,
    Failed,       \* what a call that fails returns
    MaxNow,       \* bound: changes in the daemon
    MaxClicks,    \* bound: focus and tab changes
    MaxFails      \* bound: calls that fail

Field == Tab \cup {"fixed"}

\* The calls of refreshDetail, answered with times up to t.
Calls(t) ==
    UNION {[id : Id, all : {F = Field}, fields : {F},
            reply : {None, Failed} \cup [F -> 0..t]] : F \in SUBSET Field}

ASSUME InspectorAssumption ==
    /\ Magnet \subseteq Id /\ First \subseteq Id \cup {None}
    /\ Overview \in Tab
    /\ FullEvery \in Nat \ {0} /\ Slot # {}
    /\ {MaxNow, MaxClicks, MaxFails} \subseteq Nat
    /\ "fixed" \notin Tab /\ None \notin Id \cup Calls(MaxNow)

VARIABLES
    now, at, here, meta,           \* the daemon
    rows, full,                    \* byId: the torrents, those with metadata
    focusId, inspectorTab, detail,
    ticks, forceFull, pollAgain,
    pass,                          \* the poll in flight
    fetches,                       \* the calls of refreshDetail in flight
    write,                         \* the write in flight
    clicks, fails

daemon == <<now, at, here, meta>>
list   == <<rows, full>>
view   == <<focusId, inspectorTab, detail>>
flags  == <<ticks, forceFull, pollAgain>>
client == <<list, view, flags, pass, fetches, write>>
bounds == <<clicks, fails>>
vars   == <<daemon, client, bounds>>

\* The state a first full pass leaves, with or without a torrent focused.
Init ==
    /\ now = 0
    /\ at = [i \in Id |-> [f \in Field |-> 0]]
    /\ here = Id /\ meta = Id \ Magnet
    /\ rows = here /\ full = meta
    /\ focusId \in First /\ inspectorTab = Overview
    /\ detail = IF focusId = None THEN None ELSE [id |-> focusId, at |-> at[focusId]]
    /\ ticks = 1 % FullEvery
    /\ forceFull = FALSE /\ pollAgain = FALSE
    /\ pass = None
    /\ fetches = [s \in Slot |-> None]
    /\ write = None /\ clicks = 0 /\ fails = 0

-----------------------------------------------------------------------------
(* refreshDetail, with the focus, tab, detail and list of that moment.     *)

\* A torrent still fetching its metadata has no file list yet.
AsksAll(whole) ==
    \/ whole
    \/ detail' = None \/ detail'.id # focusId'
    \/ focusId' \in rows' \ full'

Unused == {s \in Slot : fetches[s] = None}

\* Up to the await: the call, if any, goes out in slot s.
RefreshDetail(whole, s) ==
    IF focusId' = None THEN s = None /\ fetches' = fetches
    ELSE /\ Unused # {} /\ s = (CHOOSE u \in Unused : TRUE)
         /\ fetches' = [fetches EXCEPT ![s] =
              [id |-> focusId', all |-> AsksAll(whole),
               fields |-> IF AsksAll(whole) THEN Field ELSE {inspectorTab'},
               reply |-> None]]

\* What an answer tells takes the place of what was known, field by field.
Spread(old, new) ==
    [f \in DOMAIN old \cup DOMAIN new |-> IF f \in DOMAIN new THEN new[f] ELSE old[f]]

\* Mutant: an answer is shown whatever is focused now.
Answered_Any(c) ==
    IF c.all THEN [id |-> c.id, at |-> c.reply]
    ELSE IF detail = None THEN detail
    ELSE [detail EXCEPT !.at = Spread(@, c.reply)]

\* After it: what detail becomes.
Answered(c) ==
    IF c.reply = Failed \/ focusId # c.id THEN detail
    ELSE IF c.all THEN [id |-> c.id, at |-> c.reply]
    ELSE IF detail = None \/ detail.id # c.id THEN detail
    ELSE [detail EXCEPT !.at = Spread(@, c.reply)]

\* A pass that waits for this call waits no longer.  What fails is undefined,
\* like the fields of a torrent that is gone.
DetailArrives(s) ==
    /\ fetches[s] # None /\ fetches[s].reply # None
    /\ detail' = Answered(fetches[s])
    /\ fetches' = [fetches EXCEPT ![s] = None]
    /\ pass' = IF pass # None /\ pass.slot = s THEN [pass EXCEPT !.slot = None]
               ELSE pass
    /\ UNCHANGED <<daemon, list, focusId, inspectorTab, flags, write, bounds>>

Click == clicks < MaxClicks /\ clicks' = clicks + 1

\* focus: a click on a row, or on the inspector's close button.
Focus(i) ==
    /\ Click
    /\ i \in rows \cup {None}
    /\ focusId' = i
    /\ detail' = IF detail # None /\ detail.id = i THEN detail ELSE None
    /\ UNCHANGED <<list, inspectorTab>>
    /\ \E s \in Slot \cup {None} : RefreshDetail(TRUE, s)
    /\ UNCHANGED <<daemon, flags, pass, write, fails>>

\* Inspector: the open tab shows the detail of the row; else it says that it
\* is loading.
Shown == focusId \in rows /\ detail # None /\ detail.id = focusId

\* The inspector has tabs when the focused torrent is in the list.
SetInspectorTab(tab) ==
    /\ Click
    /\ focusId \in rows
    /\ inspectorTab' = tab
    /\ UNCHANGED <<list, focusId, detail>>
    /\ \E s \in Slot \cup {None} : RefreshDetail(FALSE, s)
    /\ UNCHANGED <<daemon, flags, pass, write, fails>>

-----------------------------------------------------------------------------
(* The passes of pollOnce (PollLoop has all of it).                        *)

\* Mutant: only a forced pass asks for the detail.
Begin_Forced(force, t) ==
    \E s \in Slot \cup {None} :
        /\ IF force THEN RefreshDetail(TRUE, s) ELSE s = None /\ fetches' = fetches
        /\ forceFull' = FALSE
        /\ pass' = [forced |-> force, listed |-> None, slot |-> s]

\* The start of a pass: the list and the inspector's fields, at once.
Begin(force, t) ==
    \E s \in Slot \cup {None} :
        /\ RefreshDetail(force \/ t % FullEvery = 0, s)
        /\ forceFull' = FALSE
        /\ pass' = [forced |-> force, listed |-> None, slot |-> s]

\* The timeout, which is armed when no pass is under way.
Fire ==
    /\ pass = None
    /\ UNCHANGED <<list, view>>
    /\ Begin(forceFull, ticks)
    /\ UNCHANGED <<daemon, ticks, pollAgain, write, bounds>>

Finally(force) ==
    /\ ticks' = (ticks + 1) % FullEvery
    /\ pollAgain' = FALSE
    /\ \/ pollAgain /\ Begin(force, ticks')
       \/ /\ ~pollAgain
          /\ forceFull' = force /\ pass' = None /\ fetches' = fetches

\* The inspector closes when its torrent is gone.
PassDone ==
    /\ pass # None /\ pass.listed \notin {None, Failed} /\ pass.slot = None
    /\ rows' = pass.listed.rows /\ full' = pass.listed.full
    /\ IF focusId \in rows' \cup {None} THEN UNCHANGED <<focusId, detail>>
       ELSE focusId' = None /\ detail' = None
    /\ UNCHANGED inspectorTab
    /\ Finally(forceFull)
    /\ UNCHANGED <<daemon, write, bounds>>

\* The list could not be fetched.  The inspector's call may go on alone.
PassFailed ==
    /\ pass # None /\ pass.listed = Failed
    /\ UNCHANGED <<list, view>>
    /\ Finally(forceFull \/ pass.forced)
    /\ UNCHANGED <<daemon, write, bounds>>

\* run(label, fn), with a call that changes torrent i.
Write(i) ==
    /\ write = None /\ i \in rows /\ now < MaxNow
    /\ write' = [id |-> i, reply |-> None]
    /\ UNCHANGED <<daemon, list, view, flags, pass, fetches, bounds>>

\* The end of run: refreshNow, at once or after the poll in flight; a toast
\* if the call failed.
WriteEnds ==
    /\ write # None /\ write.reply # None
    /\ write' = None
    /\ UNCHANGED <<list, view>>
    /\ \/ /\ write.reply # Failed /\ pass # None
          /\ pollAgain' = TRUE /\ forceFull' = TRUE
          /\ UNCHANGED <<pass, fetches>>
       \/ /\ write.reply # Failed /\ pass = None
          /\ Begin(TRUE, ticks)
          /\ pollAgain' = pollAgain
       \/ /\ write.reply = Failed
          /\ UNCHANGED <<forceFull, pollAgain, pass, fetches>>
    /\ UNCHANGED <<daemon, ticks, bounds>>

-----------------------------------------------------------------------------
(* The daemon (external).                                                  *)

\* torrent_get, for the list.
ListAnswered ==
    /\ pass # None /\ pass.listed = None
    /\ pass' = [pass EXCEPT !.listed = [rows |-> here, full |-> meta]]
    /\ UNCHANGED <<daemon, list, view, flags, fetches, write, bounds>>

\* torrent_get, for fields of one torrent, if there is one.
DetailAnswered(s) ==
    /\ fetches[s] # None /\ fetches[s].reply = None
    /\ LET c == fetches[s]
       IN  fetches' = [fetches EXCEPT ![s].reply =
             IF c.id \in here THEN [f \in c.fields |-> at[c.id][f]] ELSE Failed]
    /\ UNCHANGED <<daemon, list, view, flags, pass, write, bounds>>

Happens == now < MaxNow /\ now' = now + 1

\* torrent_set and the like.  It may set what is set already.
WriteAnswered ==
    /\ write # None /\ write.reply = None
    /\ \/ Happens /\ at' = [at EXCEPT ![write.id]["fixed"] = now']
       \/ now = MaxNow /\ UNCHANGED <<now, at>>
    /\ write' = [write EXCEPT !.reply = "done"]
    /\ UNCHANGED <<here, meta, list, view, flags, pass, fetches, bounds>>

\* A call fails, whether or not the daemon has executed it.
Fails ==
    /\ fails < MaxFails /\ fails' = fails + 1
    /\ \/ /\ pass # None /\ pass.listed # Failed
          /\ pass' = [pass EXCEPT !.listed = Failed]
          /\ UNCHANGED <<fetches, write>>
       \/ /\ \E s \in Slot : /\ fetches[s] # None /\ fetches[s].reply # Failed
                             /\ fetches' = [fetches EXCEPT ![s].reply = Failed]
          /\ UNCHANGED <<pass, write>>
       \/ /\ write # None /\ write.reply # Failed
          /\ write' = [write EXCEPT !.reply = Failed]
          /\ UNCHANGED <<pass, fetches>>
    /\ UNCHANGED <<daemon, list, view, flags, clicks>>

\* What the tabs show moves on.
Moves(i) ==
    /\ Happens /\ i \in here
    /\ at' = [at EXCEPT ![i] = [f \in Field |-> IF f \in Tab THEN now' ELSE @[f]]]
    /\ UNCHANGED <<here, meta, client, bounds>>

\* A magnet gets its metadata: its files are new.
MetadataArrives(i) ==
    /\ Happens /\ i \in here \ meta
    /\ at' = [at EXCEPT ![i]["fixed"] = now']
    /\ meta' = meta \cup {i}
    /\ UNCHANGED <<here, client, bounds>>

\* Someone else removes a torrent.
Goes(i) ==
    /\ Happens /\ i \in here
    /\ here' = here \ {i} /\ meta' = meta \ {i}
    /\ UNCHANGED <<at, client, bounds>>

Next ==
    \/ \E i \in Id \cup {None} : Focus(i)
    \/ \E tab \in Tab : SetInspectorTab(tab)
    \/ \E s \in Slot : DetailAnswered(s) \/ DetailArrives(s)
    \/ Fire \/ ListAnswered \/ PassDone \/ PassFailed
    \/ WriteAnswered \/ WriteEnds \/ Fails
    \/ \E i \in Id : Write(i) \/ Moves(i) \/ MetadataArrives(i) \/ Goes(i)

Spec == Init /\ [][Next]_vars

\* The timeout fires, calls are answered, and answers are handled.
FairSpec ==
    /\ Spec
    /\ WF_vars(Fire) /\ WF_vars(ListAnswered)
    /\ WF_vars(PassDone \/ PassFailed)
    /\ \A s \in Slot : WF_vars(DetailAnswered(s) \/ DetailArrives(s))
    /\ WF_vars(WriteAnswered \/ WriteEnds)

-----------------------------------------------------------------------------
Lists  == {l \in [rows : SUBSET Id, full : SUBSET Id] : l.full \subseteq l.rows}
Passes == [forced : BOOLEAN, listed : Lists \cup {None, Failed},
           slot : Slot \cup {None}]

\* Every variable has its type; a pass waits for a call that is out.
TypeOK ==
    /\ now \in 0..MaxNow
    /\ at \in [Id -> [Field -> 0..now]]
    /\ meta \subseteq here /\ here \subseteq Id
    /\ rows \subseteq Id /\ full \subseteq rows
    /\ focusId \in Id \cup {None} /\ inspectorTab \in Tab
    /\ detail = None \/ detail \in [id : Id, at : [Field -> 0..now]]
    /\ ticks \in 0..(FullEvery - 1)
    /\ forceFull \in BOOLEAN /\ pollAgain \in BOOLEAN
    /\ pass \in Passes \cup {None}
    /\ pass # None /\ pass.slot # None => fetches[pass.slot] # None
    /\ fetches \in [Slot -> Calls(now) \cup {None}]
    /\ write \in [id : Id, reply : {None, "done", Failed}] \cup {None}

\* The detail shown is that of the focused torrent, with all its fields,
\* however many fetches, tabs and torrents are clicked through meanwhile
\* (store.ts:265).
DetailFocused ==
    detail # None => detail.id = focusId /\ DOMAIN detail.at = Field

\* When nothing changes any more, the inspector comes to show the torrent as
\* it is, or closes, even if older answers came after newer ones.
DetailSettles ==
    <>[](focusId # None => /\ focusId \in here
                           /\ Shown
                           /\ \A f \in {"fixed", inspectorTab} :
                                detail.at[f] = at[focusId][f])

Quiet ==
    /\ pass = None /\ ~forceFull /\ write = None
    /\ \A s \in Slot : fetches[s] = None

\* "every action ends in refreshNow(), which refetches the lot"
\* (store.ts:233): with no call failed or under way, what only moves on a
\* user action is as the daemon has it.
ActionShown ==
    /\ Quiet /\ fails = 0
    /\ focusId \in here /\ detail # None
    => detail.at["fixed"] = at[focusId]["fixed"]

\* The state is of its type, and the detail is that of the focused torrent.
Consistent == TypeOK /\ DetailFocused
=============================================================================

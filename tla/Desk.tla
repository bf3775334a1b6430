-------------------------------- MODULE Desk --------------------------------
(***************************************************************************)
(* What the user does with the list of torrents: the sidebar and the list  *)
(* (Sidebar.tsx, List.tsx, model.ts), selections, keys and menus           *)
(* (App.tsx, actions.ts), and the dialogs that edit torrents and settings  *)
(* (Dialogs.tsx, Add.tsx, Settings.tsx, parts.tsx).                        *)
(*                                                                         *)
(* The client sees what its last poll brought, a whole pass in one step.   *)
(* A write is a call in flight, applied by the daemon in any order or      *)
(* failed.  A removal is one step.  A folder is the sequence of its parts, *)
(* a torrent's name is its id, a search is the set of torrents whose names *)
(* match, a tracker list is the set of its URLs, and a source to add is a  *)
(* token that is used once.  The files a .torrent leaves unwanted, the     *)
(* options of an added torrent and the formatting are left out.            *)
(***************************************************************************)
EXTENDS Integers, FiniteSets, Sequences, SequencesExt, FiniteSetsExt, TLC

CONSTANTS
    Id, Label, Day,
    Dir,        \* folders, sequences of their parts
    Base,       \* the session's download directory
    Url,        \* trackers
    Token,      \* the sources there are to add
    Start,      \* the torrents there may be at first: functions from ids
    Condition,  \* what may befall a torrent elsewhere: some of its fields
    Search,     \* sets of torrents that a search can find
    Adv,        \* settings of the attribute filters
    Sorts,      \* sort keys used
    Script,     \* bound: sets of what is used in one behaviour
    MaxOther,   \* bound: changes from elsewhere
    MaxWrites,  \* bound: writes the user sends
    MaxWindows, \* bound: dialogs opened
    Nothing     \* no focus, or nothing loaded yet

Transport == {"tcp", "utp"}

SortKeys == {"name", "size", "path", "state"}

ASSUME DeskAssumption ==
    /\ Id \subseteq Nat /\ IsFiniteSet(Id) /\ Nothing \notin Id
    /\ Dir \subseteq Seq(STRING) /\ Base \in Seq(STRING) /\ Sorts \subseteq SortKeys
    /\ \A f \in Start : /\ DOMAIN f \subseteq Id
                        /\ \A i \in DOMAIN f : /\ {"dir", "size"} \subseteq DOMAIN f[i]
                                               /\ f[i].dir \in Dir /\ f[i].size \in Nat
    /\ \A c \in Condition : /\ "dir" \in DOMAIN c => c.dir \in Dir
                            /\ "size" \in DOMAIN c => c.size \in Nat
    /\ {MaxOther, MaxWrites, MaxWindows} \subseteq Nat

VARIABLES
    torrents,   \* at the daemon, what a poll brings of each
    fields,     \* at the daemon, what only the dialogs ask for
    session,    \* at the daemon
    view,       \* the torrents and the session of the last poll
    nav,        \* filter, search, attribute filters, sort key, direction
    selected, focusId,
    menu,       \* the open menu and the ids it is about
    dialog,
    writes,     \* calls in flight
    reads,      \* answers that a dialog waits for
    jobs,       \* submissions of an Add dialog that are running
    added,      \* how often each source was added
    script, other, sent, windows

vars == <<torrents, fields, session, view, nav, selected, focusId, menu,
          dialog, writes, reads, jobs, added, script, other, sent, windows>>

\* A record, with the fields that a patch gives it.
Patched(r, p) ==
    [k \in DOMAIN r \cup DOMAIN p |-> IF k \in DOMAIN p THEN p[k] ELSE r[k]]

-----------------------------------------------------------------------------
(* model.ts: filters.  A filter is <<kind, what>>.                         *)

IsActive(t) == t.active

IsChecking(t) == t.status \in {"Check", "CheckWait"}

Known == {"all", "download", "seed", "active", "inactive", "finished",
          "queued", "stopped", "error"}

\* FILTERS.
StatusFilter(k, t) ==
    CASE k = "download" -> t.status = "Download"
      [] k = "seed"     -> t.status = "Seed"
      [] k = "active"   -> IsActive(t)
      [] k = "inactive" -> ~IsActive(t) /\ ~IsChecking(t)
      [] k = "finished" -> t.done
      [] k = "queued"   -> IsChecking(t)
      [] k = "stopped"  -> t.status = "Stopped" /\ ~t.error
      [] k \in {"error", "trackererr"} -> t.error \/ t.trouble
      [] OTHER -> TRUE

\* filterFn.
FilterFn(f, t) ==
    CASE f[1] = "label" -> f[2] \in t.labels
      [] f[1] = "dir"   -> IsPrefix(f[2], t.dir)
      [] OTHER          -> StatusFilter(f[2], t)

\* ADV: what an option of an attribute filter lets through.
AdvTest(k, v, t) ==
    CASE k = "size" /\ v = "lt1"    -> t.size = 0
      [] k = "size" /\ v = "gt10"   -> t.size > 0
      [] k = "idle" /\ v = "active" -> IsActive(t)
      [] OTHER -> TRUE

\* advFn: all of those that are set.
AdvFn(adv, t) == \A k \in DOMAIN adv : adv[k] = "any" \/ AdvTest(k, adv[k], t)

\* rankOf: problems first.
Rank(t) ==
    CASE t.error   -> 0
      [] t.trouble -> 1
      [] IsChecking(t) -> 2
      [] t.status = "DownloadWait" -> 3
      [] t.status = "Download" -> 4
      [] t.status = "SeedWait" -> 5
      [] t.status = "Seed" -> 6
      [] OTHER -> 7

RelDir(d) == IF IsPrefix(Base, d) THEN SubSeq(d, Len(Base) + 1, Len(d)) ELSE d

\* sortFn: by what a row is sorted.  A text that is missing, here a path,
\* is last in both directions.
SortKey(n, i, t) ==
    CASE n.sort = "name" -> <<n.dir * i>>
      [] n.sort = "size" -> <<n.dir * t.size, i>>
      [] n.sort = "path" -> <<IF RelDir(t.dir) = <<>> THEN 1 ELSE 0,
                              n.dir * Len(RelDir(t.dir)), i>>
      [] n.sort = "state" -> <<n.dir * Rank(t), i>>

Before(a, b) ==
    \E k \in DOMAIN a : a[k] < b[k] /\ \A m \in 1..(k - 1) : a[m] = b[m]

\* The torrents that pass the filter, the attribute filters and the search.
Passing(ts, n) ==
    {i \in DOMAIN ts : /\ FilterFn(n.filter, ts[i])
                       /\ AdvFn(n.adv, ts[i])
                       /\ i \in n.search}

\* List: the rows that are shown, in their order.  The place of a torrent is
\* how many are before it.
Rows(ts, n) ==
    LET pass  == Passing(ts, n)
        key   == [i \in pass |-> SortKey(n, i, ts[i])]
        place == [i \in pass |-> Cardinality({j \in pass : Before(key[j], key[i])})]
    IN  [k \in 1..Cardinality(pass) |-> CHOOSE i \in pass : place[i] = k - 1]

Shown == Rows(view.torrents, nav)

-----------------------------------------------------------------------------
(* The sidebar: rows with the filter each is for and what it counts.       *)

\* Sidebar: the entries that are always there.
Pinned == {"all", "active", "error"}

\* FILTER_ORDER, which seed is not in.
FilterOrder == Known \ {"seed"}

StatusRows(f, ts) ==
    LET count == [k \in Known |->
                    Cardinality({i \in DOMAIN ts : StatusFilter(k, ts[i])})]
        listed == FilterOrder \cup {k \in Known : f = <<"status", k>>}
    IN  {[filter |-> <<"status", k>>, count |-> count[k]] :
         k \in {k \in listed :
                  count[k] > 0 \/ k \in Pinned \/ f = <<"status", k>>}}

\* labelCounts.
LabelRows(ts) ==
    {[filter |-> <<"label", l>>,
      count |-> Cardinality({i \in DOMAIN ts : l \in ts[i].labels})] :
     l \in UNION {ts[i].labels : i \in DOMAIN ts}}

\* folderTree: every directory hands its count to its ancestors.
PerDir(ts, d) == Cardinality({i \in DOMAIN ts : ts[i].dir = d})

\* Mutant: a folder counts only what is below it.
Within_Below(ts, p) ==
    MapThenSumSet(LAMBDA d : PerDir(ts, d),
                  {d \in {ts[i].dir : i \in DOMAIN ts} \ {p} :
                     \E k \in 1..Len(d) : SubSeq(d, 1, k) = p})

Within(ts, p) ==
    MapThenSumSet(LAMBDA d : PerDir(ts, d),
                  {d \in {ts[i].dir : i \in DOMAIN ts} :
                     \E k \in 1..Len(d) : SubSeq(d, 1, k) = p})

\* The folders it lists: those below the base, or from the root.
Folders(d) ==
    LET from == IF IsStrictPrefix(Base, d) THEN Len(Base) + 1 ELSE 1
    IN  IF d = Base THEN {} ELSE {SubSeq(d, 1, k) : k \in from..Len(d)}

FolderRows(ts) ==
    {[filter |-> <<"dir", p>>, count |-> Within(ts, p)] :
     p \in UNION {Folders(ts[i].dir) : i \in DOMAIN ts}}

SideRows(f, ts) == StatusRows(f, ts) \cup LabelRows(ts) \cup FolderRows(ts)

-----------------------------------------------------------------------------
(* Init, and steps that are not the user's.                                *)

NoDialog == [kind |-> "none"]

NoMenu == [kind |-> "none", ids |-> {}]

NoAdv == [k \in {} |-> "any"]

\* The store as it starts, after a first poll.
Init ==
    /\ torrents \in Start
    /\ fields = [i \in Id |-> [limit |-> 0, trackers |-> Url]]
    /\ session = [days |-> {}, transports |-> Transport, key |-> 0, time |-> 0]
    /\ view = [torrents |-> torrents, session |-> session]
    /\ nav = [filter |-> <<"status", "all">>, search |-> Id, adv |-> NoAdv,
              sort |-> "state", dir |-> 1]
    /\ selected = {} /\ focusId = Nothing
    /\ menu = NoMenu /\ dialog = NoDialog
    /\ writes = {} /\ reads = {} /\ jobs = {} /\ added = [s \in Token |-> 0]
    /\ script \in Script
    /\ other = 0 /\ sent = 0 /\ windows = 0

Daemon  == <<torrents, fields, session>>
Picked  == <<selected, focusId>>
Working == <<writes, reads, jobs, added>>
Counts  == <<script, other, sent, windows>>

\* A poll: rows, session, and the focus if its torrent is gone.
Poll ==
    /\ view # [torrents |-> torrents, session |-> session]
    /\ view' = [torrents |-> torrents, session |-> session]
    /\ focusId' = IF focusId \in DOMAIN torrents THEN focusId ELSE Nothing
    /\ dialog' = IF dialog.kind = "labels" /\ view.torrents # torrents
                 THEN [dialog EXCEPT !.fresh = FALSE] ELSE dialog
    /\ UNCHANGED <<Daemon, nav, selected, menu, Working, Counts>>

\* Another client, or the torrent itself.
Elsewhere ==
    /\ other < MaxOther
    /\ \E i \in DOMAIN torrents :
         \/ \E c \in Condition : torrents' = [torrents EXCEPT ![i] = Patched(@, c)]
         \/ torrents' = [k \in DOMAIN torrents \ {i} |-> torrents[k]]
    /\ other' = other + 1
    /\ UNCHANGED <<fields, session, view, nav, Picked, menu, dialog, Working,
                   script, sent, windows>>

-----------------------------------------------------------------------------
(* The list.  A dialog covers it.                                          *)

Free == dialog.kind = "none"

Browse == Free /\ "browse" \in script

\* pick: another filter clears the selection.
Pick(f) ==
    /\ Browse
    /\ nav' = [nav EXCEPT !.filter = f] /\ selected' = {}
    /\ UNCHANGED <<Daemon, view, focusId, menu, dialog, Working, Counts>>

Narrow(n) ==
    /\ Browse /\ nav' = n
    /\ UNCHANGED <<Daemon, view, Picked, menu, dialog, Working, Counts>>

SearchFor(q) == Narrow([nav EXCEPT !.search = q])

SetAdv(a) == Narrow([nav EXCEPT !.adv = a])

\* A click on a column header: the other direction, or its usual one.
SortBy(k) ==
    Narrow([nav EXCEPT !.sort = k,
                       !.dir = IF nav.sort = k THEN -@
                               ELSE IF k \in {"name", "path"} THEN 1 ELSE -1])

Select(ids) ==
    /\ Free /\ "select" \in script
    /\ selected' = ids
    /\ UNCHANGED <<Daemon, view, nav, focusId, menu, dialog, Working, Counts>>

\* onRowClick on the box of a row, or with a modifier.
ToggleRow(i) ==
    i \in ToSet(Shown) /\ Select(SymDiff(selected, {i}))

\* The rows from the anchor to row i.  An anchor that is not shown has index
\* -1, which is where slice counts from the end.
Span(anchor, i) ==
    LET index(r) == IF r \in ToSet(Shown)
                    THEN CHOOSE k \in DOMAIN Shown : Shown[k] = r ELSE 0
        a == index(anchor)
        b == index(i)
    IN  {Shown[k] : k \in (IF a = 0 THEN Len(Shown) ELSE Min({a, b}))
                          ..Max({a, b})}

\* onRowClick with shift.
RangeRow(i) ==
    /\ i \in ToSet(Shown)
    /\ \E anchor \in IF focusId # Nothing THEN {focusId} ELSE selected :
         Select(selected \cup Span(anchor, i))

\* focus, for a plain click: the same row again lets go of it.
FocusRow(i) ==
    /\ Free /\ "focus" \in script /\ i \in ToSet(Shown)
    /\ focusId' = IF focusId = i THEN Nothing ELSE i
    /\ UNCHANGED <<Daemon, view, nav, selected, menu, dialog, Working, Counts>>

\* selectAllVisible.
SelectAllVisible ==
    Select(IF Shown # <<>> /\ ToSet(Shown) \subseteq selected THEN {}
           ELSE ToSet(Shown))

\* Escape, and the x of the bar.
ClearSelection == Select({})

-----------------------------------------------------------------------------
(* Writes.  run sends a call; refreshNow is the poll.                      *)

MaySend == sent < MaxWrites

\* A call is sent; everything but the menu and the dialog stays.
Send(ws) ==
    /\ MaySend
    /\ writes' = writes \cup ws /\ sent' = sent + 1
    /\ UNCHANGED <<Daemon, view, nav, Picked, reads, jobs, added, script, other,
                   windows>>

Bulk(op, ids) == {[op |-> op, ids |-> ids]}

\* anyStopped: resume wins over pause as soon as one of them is stopped.
AnyStopped(ids) ==
    \E i \in ids \cap DOMAIN view.torrents : view.torrents[i].status = "Stopped"

ResumeOrPause(ids) == Bulk(IF AnyStopped(ids) THEN "start" ELSE "stop", ids)

\* selIds: the selection bar acts on what is selected and shown.
SelIds == selected \cap ToSet(Shown)

\* The keys act on all that is selected, or on the focus.
KeyIds == IF selected # {} THEN selected
          ELSE IF focusId = Nothing THEN {} ELSE {focusId}

\* A menu opens, over the list.
OpenMenu(kind, ids) ==
    /\ Free /\ menu = NoMenu /\ "menu" \in script
    /\ menu' = [kind |-> kind, ids |-> ids]
    /\ UNCHANGED <<Daemon, view, nav, Picked, dialog, Working, Counts>>

\* onMore and onContext: the selection, if the row is in it.
OpenRowMenu(i) ==
    /\ i \in ToSet(Shown)
    /\ OpenMenu("row", IF i \in selected THEN selected ELSE {i})

\* More, in the selection bar.
OpenSelMenu == SelIds # {} /\ OpenMenu("sel", SelIds)

\* Everything in the view.
OpenViewMenu == OpenMenu("view", ToSet(Shown))

CloseMenu ==
    /\ menu # NoMenu /\ menu' = NoMenu
    /\ UNCHANGED <<Daemon, view, nav, Picked, dialog, Working, Counts>>

\* torrentMenu: its writes.  Re-announce, verify and the queue moves change
\* nothing that is modelled.
TorrentMenu ==
    /\ Free /\ menu.kind \in {"row", "sel"} /\ menu' = NoMenu
    /\ Send(ResumeOrPause(menu.ids)) \/ Send(Bulk("touch", menu.ids))
    /\ UNCHANGED dialog

\* viewMenu: its writes.
ViewMenu ==
    /\ Free /\ menu.kind = "view" /\ menu' = NoMenu
    /\ \E op \in {"start", "stop", "touch"} : Send(Bulk(op, menu.ids))
    /\ UNCHANGED dialog

\* Resume and Pause of the selection bar.
BarActs ==
    /\ Free /\ "bulk" \in script /\ SelIds # {}
    /\ \E op \in {"start", "stop"} : Send(Bulk(op, SelIds))
    /\ UNCHANGED <<menu, dialog>>

\* onKey: the space bar.
KeyActs ==
    /\ Free /\ "bulk" \in script /\ KeyIds # {}
    /\ Send(ResumeOrPause(KeyIds))
    /\ UNCHANGED <<menu, dialog>>

-----------------------------------------------------------------------------
(* The dialogs.  There is room for one.                                    *)

\* The menu of torrents opens dialogs.
MenuIds == IF menu.kind \in {"row", "sel"} THEN menu.ids ELSE {}

\* The ids that a dialog may be opened with.
Asked(kind) ==
    (IF kind \in {"labels", "location", "remove"} THEN {SelIds} ELSE {})
    \cup {MenuIds} \cup (IF kind = "remove" THEN {KeyIds} ELSE {})

Show(d) ==
    /\ windows < MaxWindows
    /\ dialog' = d /\ menu' = NoMenu /\ windows' = windows + 1
    /\ UNCHANGED <<Daemon, view, nav, Picked, writes, jobs, added, script,
                   other, sent>>

Open(d) == Free /\ d.kind \in script /\ Show(d) /\ UNCHANGED reads

\* Cancel, Escape, or a click beside it.
Cancel ==
    /\ ~Free /\ dialog' = NoDialog
    /\ UNCHANGED <<Daemon, view, nav, Picked, menu, Working, Counts>>

\* The dialog is changed by the user.
Edit(d) ==
    /\ dialog' = d
    /\ UNCHANGED <<Daemon, view, nav, Picked, menu, Working, Counts>>

\* The dialog closes, and its calls are sent.
Save(ws) == Send(ws) /\ dialog' = NoDialog /\ UNCHANGED menu

\* Labels: those that all of them carry, as the last poll has it.
Initial(ids) ==
    {l \in Label : \A i \in ids : i \in DOMAIN view.torrents
                                  /\ l \in view.torrents[i].labels}

OpenLabels ==
    \E ids \in Asked("labels") \ {{}} :
        Open([kind |-> "labels", ids |-> ids, sel |-> Initial(ids),
              toggled |-> {}, fresh |-> TRUE])

\* toggle, and add for a label that is typed.  toggled and fresh are history.
ToggleLabel(l) ==
    /\ dialog.kind = "labels"
    /\ Edit([dialog EXCEPT !.sel = SymDiff(@, {l}), !.toggled = @ \cup {l}])

LabelsOf(i) ==
    IF i \in DOMAIN view.torrents THEN view.torrents[i].labels ELSE {}

\* Mutant: each gets what the dialog shows.
NewLabels_Shown(i) == dialog.sel

\* What a save gives torrent i: what was switched on and off here.
NewLabels(i) ==
    (LabelsOf(i) \ (Initial(dialog.ids) \ dialog.sel))
    \cup (dialog.sel \ Initial(dialog.ids))

\* save: a call for each list of labels, and none for torrents that keep theirs.
SaveLabels ==
    LET changed == {i \in dialog.ids : NewLabels(i) # LabelsOf(i)}
    IN  /\ dialog.kind = "labels"
        /\ Save({[op |-> "labels", labels |-> n,
                  ids |-> {i \in changed : NewLabels(i) = n}] :
                 n \in {NewLabels(i) : i \in changed}})

\* Location.
OpenLocation ==
    \E ids \in Asked("location") \ {{}} :
        Open([kind |-> "location", ids |-> ids])

Move(d) ==
    /\ dialog.kind = "location"
    /\ Save({[op |-> "location", ids |-> dialog.ids, dir |-> d]})

\* Rename, of a torrent that is still there.  The name is not modelled.
OpenRename ==
    /\ Cardinality(MenuIds) = 1 /\ MenuIds \subseteq DOMAIN view.torrents
    /\ Open([kind |-> "rename", ids |-> MenuIds])

Rename ==
    /\ dialog.kind = "rename" /\ dialog.ids \subseteq DOMAIN view.torrents
    /\ Save(Bulk("touch", dialog.ids))

\* ConfirmRemove, and the removal as a whole.
OpenRemove ==
    \E ids \in Asked("remove") \ {{}} : Open([kind |-> "remove", ids |-> ids])

ConfirmRemove ==
    LET Rest(f) == [i \in DOMAIN f \ dialog.ids |-> f[i]]
    IN  /\ dialog.kind = "remove" /\ dialog' = NoDialog
        /\ torrents' = Rest(torrents)
        /\ view' = [view EXCEPT !.torrents = Rest(@)]
        /\ selected' = selected \ dialog.ids
        /\ focusId' = IF focusId \in dialog.ids THEN Nothing ELSE focusId
        /\ UNCHANGED <<fields, session, nav, menu, Working, Counts>>

\* Limits: it shows those of the first torrent.
OpenLimits ==
    \E i \in MenuIds :
        /\ Free /\ "limits" \in script
        /\ Show([kind |-> "limits", ids |-> MenuIds, first |-> i, d |-> Nothing,
                 win |-> windows + 1])
        /\ reads' = reads \cup {windows + 1}

\* LimitRows: an edit is sent at once, and the dialog stays.
SetLimit(v) ==
    /\ dialog.kind = "limits" /\ dialog.d # Nothing
    /\ Send({[op |-> "limit", ids |-> dialog.ids, limit |-> v,
              win |-> dialog.win]})
    /\ UNCHANGED <<menu, dialog>>

\* TrackersEdit, for the torrent in the inspector.
OpenTrackers ==
    /\ Free /\ "trackers" \in script /\ focusId # Nothing
    /\ Show([kind |-> "trackers", ids |-> {focusId}, text |-> Nothing,
             failed |-> FALSE, win |-> windows + 1])
    /\ reads' = reads \cup {windows + 1}

\* The text area takes what is typed at any time.
TypeTrackers(list) ==
    dialog.kind = "trackers" /\ Edit([dialog EXCEPT !.text = list])

SaveTrackers ==
    /\ dialog.kind = "trackers" /\ dialog.text # Nothing
    /\ Save({[op |-> "trackers", ids |-> dialog.ids, list |-> dialog.text]})

\* The dialog that waits for answer w, if it is still open.
Waiting(kind, w) == dialog.kind = kind /\ dialog.win = w

\* An answer arrives; there is none about a torrent that is gone.
Loaded(w) ==
    /\ w \in reads /\ reads' = reads \ {w}
    /\ dialog' =
         CASE Waiting("limits", w) /\ dialog.first \in DOMAIN torrents ->
                [dialog EXCEPT !.d = fields[dialog.first].limit]
           [] Waiting("trackers", w) /\ dialog.ids \subseteq DOMAIN torrents ->
                [dialog EXCEPT !.text = UNION {fields[i].trackers : i \in dialog.ids}]
           [] Waiting("trackers", w) /\ ~(dialog.ids \subseteq DOMAIN torrents) ->
                [dialog EXCEPT !.failed = TRUE]
           [] OTHER -> dialog
    /\ UNCHANGED <<Daemon, view, nav, Picked, menu, writes, jobs, added, Counts>>

\* A load fails: the text stays what it is.
LoadFails(w) ==
    /\ w \in reads /\ reads' = reads \ {w}
    /\ dialog' = IF Waiting("trackers", w) THEN [dialog EXCEPT !.failed = TRUE]
                 ELSE dialog
    /\ UNCHANGED <<Daemon, view, nav, Picked, menu, writes, jobs, added, Counts>>

-----------------------------------------------------------------------------
(* Add.tsx.                                                                *)

Adding == dialog.kind = "add"

\* The sources that are nowhere yet.
Unused ==
    {s \in Token : /\ added[s] = 0
                   /\ \A j \in jobs : s \notin ToSet(j.todo)
                   /\ Adding => s \notin ToSet(dialog.sources)
                                  \cup ToSet(dialog.text) \cup dialog.reading}

NewAdd(text, reading) ==
    [kind |-> "add", sources |-> <<>>, text |-> text, reading |-> reading,
     win |-> windows + 1]

OpenAdd == Open(NewAdd(<<>>, {}))

\* A file dropped anywhere: for the Add dialog, which takes the place of
\* another one.
Drop ==
    /\ "add" \in script
    /\ \E s \in Unused :
         IF Adding THEN Edit([dialog EXCEPT !.reading = @ \cup {s}])
         ELSE Show(NewAdd(<<>>, {s})) /\ UNCHANGED reads

\* addFiles: a file has been read, and may be no .torrent.
AddFiles ==
    /\ Adding
    /\ \E s \in dialog.reading, valid \in BOOLEAN :
         Edit([dialog EXCEPT !.reading = @ \ {s},
                             !.sources = IF valid THEN Append(@, s) ELSE @])

TypeLink ==
    Adding /\ \E s \in Unused : Edit([dialog EXCEPT !.text = Append(@, s)])

\* addText, when the box is left or on Enter.
AddText ==
    /\ Adding /\ dialog.text # <<>>
    /\ Edit([dialog EXCEPT !.sources = @ \o dialog.text, !.text = <<>>])

RemoveSource(k) ==
    /\ Adding /\ k \in DOMAIN dialog.sources
    /\ Edit([dialog EXCEPT !.sources = RemoveAt(@, k)])

Busy == \E j \in jobs : j.win = dialog.win

\* Mutant: the button can be pressed while the sources are being added.
Submit_Busy ==
    LET srcs == dialog.sources \o dialog.text
    IN  /\ Adding /\ srcs # <<>>
        /\ jobs' = jobs \cup {[win |-> dialog.win, todo |-> srcs, any |-> FALSE]}
        /\ dialog' = [dialog EXCEPT !.sources = srcs, !.text = <<>>]
        /\ UNCHANGED <<Daemon, view, nav, Picked, menu, writes, reads, added, Counts>>

\* submit: what is still in the box counts too.
Submit ==
    LET srcs == dialog.sources \o dialog.text
    IN  /\ Adding /\ ~Busy /\ srcs # <<>>
        /\ jobs' = jobs \cup {[win |-> dialog.win, todo |-> srcs, any |-> FALSE]}
        /\ dialog' = [dialog EXCEPT !.sources = srcs, !.text = <<>>]
        /\ UNCHANGED <<Daemon, view, nav, Picked, menu, writes, reads, added, Counts>>

\* One source is answered, and after the last one the dialog is closed,
\* whichever is open by then, if any source was added or known.
Answered(j) ==
    /\ j \in jobs
    /\ \E ok \in BOOLEAN :
         LET next == [j EXCEPT !.todo = Tail(@), !.any = @ \/ ok]
             last == next.todo = <<>>
         IN  /\ added' = [added EXCEPT ![Head(j.todo)] = IF ok THEN @ + 1 ELSE @]
             /\ jobs' = (jobs \ {j}) \cup IF last THEN {} ELSE {next}
             /\ dialog' = IF last /\ next.any THEN NoDialog ELSE dialog
    /\ UNCHANGED <<Daemon, view, nav, Picked, menu, writes, reads, Counts>>

-----------------------------------------------------------------------------
(* Settings.tsx: an edit is sent at once, and only the key it is about.    *)

OpenSettings == Open([kind |-> "settings"])

Patch(p) ==
    /\ dialog.kind = "settings"
    /\ Send({[op |-> "session", patch |-> p]})
    /\ UNCHANGED <<menu, dialog>>

\* Numbers, texts and switches.
SetKey(v) == Patch([key |-> v])

\* A time of day, when what was typed is one.
SetTime(m) == m # Nothing /\ Patch([time |-> m])

\* A day is switched in the mask that the last poll brought.
SetDay(d) == Patch([days |-> SymDiff(view.session.days, {d})])

\* No list means all of them.
Transports ==
    IF view.session.transports = {} THEN Transport ELSE view.session.transports

\* Mutant: the last transport can be switched off.
SetTransport_Last(p, on) ==
    Patch([transports |-> IF on THEN Transports \cup {p} ELSE Transports \ {p}])

\* setTransport.
SetTransport(p, on) ==
    /\ Transports # {p}
    /\ Patch([transports |-> IF on THEN Transports \cup {p} ELSE Transports \ {p}])

\* The turtle in the header.
Turtle ==
    /\ Free /\ "settings" \in script
    /\ Send({[op |-> "session", patch |-> [key |-> 1 - view.session.key]]})
    /\ UNCHANGED <<menu, dialog>>

-----------------------------------------------------------------------------
(* The daemon: calls are applied in any order.                             *)

\* What a call does to a torrent.
Effect(w, t) ==
    CASE w.op = "start" /\ t.status = "Stopped" ->
           [t EXCEPT !.status = IF t.done THEN "SeedWait" ELSE "DownloadWait"]
      [] w.op = "stop"     -> [t EXCEPT !.status = "Stopped", !.active = FALSE]
      [] w.op = "labels"   -> [t EXCEPT !.labels = w.labels]
      [] w.op = "location" -> [t EXCEPT !.dir = w.dir]
      [] OTHER -> t

FieldEffect(w, d) ==
    CASE w.op = "limit"    -> [d EXCEPT !.limit = w.limit]
      [] w.op = "trackers" -> [d EXCEPT !.trackers = w.list]
      [] OTHER -> d

On(ids, f, F(_)) == [i \in DOMAIN f |-> IF i \in ids THEN F(f[i]) ELSE f[i]]

\* A call is applied and answered.  Limits are then loaded again.
Applied(w) ==
    /\ w \in writes /\ writes' = writes \ {w}
    /\ IF w.op = "session"
       THEN session' = Patched(session, w.patch) /\ UNCHANGED <<torrents, fields>>
       ELSE /\ torrents' = On(w.ids, torrents, LAMBDA t : Effect(w, t))
            /\ fields' = On(w.ids, fields, LAMBDA d : FieldEffect(w, d))
            /\ UNCHANGED session
    /\ reads' = IF w.op = "limit" THEN reads \cup {w.win} ELSE reads
    /\ UNCHANGED <<view, nav, Picked, menu, dialog, jobs, added, Counts>>

\* It fails, and is reported.
WriteFails(w) ==
    /\ w \in writes /\ writes' = writes \ {w}
    /\ UNCHANGED <<Daemon, view, nav, Picked, menu, dialog, reads, jobs, added,
                   Counts>>

-----------------------------------------------------------------------------
Filters == {r.filter : r \in SideRows(nav.filter, view.torrents)}

ListNext ==
    \/ \E f \in Filters : Pick(f)
    \/ \E q \in Search : SearchFor(q)
    \/ \E a \in Adv : SetAdv(a)
    \/ \E k \in Sorts : SortBy(k)
    \/ \E i \in Id : ToggleRow(i) \/ RangeRow(i) \/ FocusRow(i) \/ OpenRowMenu(i)
    \/ SelectAllVisible \/ ClearSelection
    \/ OpenSelMenu \/ OpenViewMenu \/ CloseMenu
    \/ TorrentMenu \/ ViewMenu \/ BarActs \/ KeyActs

DialogNext ==
    \/ Cancel
    \/ OpenLabels \/ SaveLabels \/ \E l \in Label : ToggleLabel(l)
    \/ OpenLocation \/ \E d \in Dir : Move(d)
    \/ OpenRename \/ Rename \/ OpenRemove \/ ConfirmRemove
    \/ OpenLimits \/ \E v \in 0..1 : SetLimit(v)
    \/ OpenTrackers \/ SaveTrackers \/ \E list \in SUBSET Url : TypeTrackers(list)
    \/ \E w \in reads : Loaded(w) \/ LoadFails(w)
    \/ OpenAdd \/ Drop \/ AddFiles \/ TypeLink \/ AddText \/ Submit
    \/ \E k \in 1..Cardinality(Token) : RemoveSource(k)
    \/ \E j \in jobs : Answered(j)
    \/ OpenSettings \/ Turtle
    \/ \E v \in 0..1 : SetKey(v) \/ SetTime(v)
    \/ \E d \in Day : SetDay(d)
    \/ \E p \in Transport, on \in BOOLEAN : SetTransport(p, on)

Next ==
    \/ ListNext \/ DialogNext \/ Poll \/ Elsewhere
    \/ \E w \in writes : Applied(w) \/ WriteFails(w)

Spec == Init /\ [][Next]_vars

-----------------------------------------------------------------------------
(* Properties.                                                             *)

\* Types, and the focus is on a torrent that the client knows.
TypeOK ==
    /\ DOMAIN torrents \subseteq Id /\ DOMAIN view.torrents \subseteq Id
    /\ session.days \subseteq Day /\ session.transports \subseteq Transport
    /\ selected \subseteq Id /\ focusId \in DOMAIN view.torrents \cup {Nothing}
    /\ menu.ids \subseteq Id /\ reads \subseteq 1..MaxWindows
    /\ dialog.kind \in {"none", "labels", "location", "rename", "remove",
                        "limits", "trackers", "add", "settings"}
    /\ \A w \in writes : w.op # "session" => w.ids \subseteq Id
    /\ added \in [Token -> Nat]

\* The sidebar counts a filter, a label or a folder once per torrent, over
\* the tree of folders, and the list filters torrent by torrent: each status,
\* label and folder row (there are no tracker rows here) counts what the list
\* shows when it is picked, with no attribute filter and no search.  A filter
\* in force keeps its row, and no other row is a dead end unless pinned.
SidebarTrue ==
    LET side == SideRows(nav.filter, view.torrents)
        all(f) == [nav EXCEPT !.filter = f, !.search = Id, !.adv = NoAdv]
    IN  /\ \A r \in side :
             /\ r.count = Len(Rows(view.torrents, all(r.filter)))
             /\ r.count > 0 \/ r.filter = nav.filter \/ r.filter[2] \in Pinned
        /\ nav.filter[1] = "status" => \E r \in side : r.filter = nav.filter

\* The Add dialog takes files, links and what is still in its box, may be
\* submitted again after a failure, and closes or stays by what came of it:
\* no source is added a second time.
AddOnce == \A s \in Token : added[s] <= 1

\* The daemon is never left without a transport, however edits, polls and
\* calls interleave: an empty list would let it reach no peers.
TransportsKept == session.transports # {}

\* A save of the labels dialog changes, of each torrent, only labels the user
\* switched there, as long as no poll brought other torrents meanwhile: a
\* label that only some of them carry is not taken from them.
LabelsAsToggled ==
    [][dialog.kind = "labels" /\ dialog.fresh =>
         \A w \in writes' \ writes : \A i \in w.ids :
             SymDiff(w.labels, LabelsOf(i)) \subseteq dialog.toggled]_vars

\* When the list of trackers could not be loaded, none is saved, which would
\* take those there are from the torrent.
TrackersKept ==
    [][dialog.kind = "trackers" /\ dialog.failed
         => \A w \in writes' \ writes : w.op # "trackers"]_vars

\* The state is of its type, and the sidebar tells what the list would show.
Consistent == TypeOK /\ SidebarTrue
=============================================================================

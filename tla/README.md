# Verification of transmission-ui

transmission-ui is a web front end for a Transmission daemon: a single-page
application (`src/ui`) and a small Go backend (`src/backend`) that serves it,
signs users in, passes their RPC calls on to the daemon, and finds and deletes
orphaned files on the daemon's disk.

The modules here model the parts of it in which order matters: what the backend
deletes and remembers while the daemon and other requests go on, what the
browser shows and sends while calls overlap, fail and come late, and the simulated
daemon that the browser is developed against. TLC checks each module on
small instances. The `*Proofs` modules hold theorems about all ten of them that
model code, checked by TLAPS for every value of the constants: every invariant and
action property that a passing run checks is proved.

    tlc -config KeepSafe.cfg MCKeepList        # a run
    tlapm OrphanServiceProofs.tla              # a module of proofs

`PROJECT.json` lists the runs, the source lines behind every definition, and for
each property a plausible bug (a definition named `Action_Bug`, next to the one
it changes) under which TLC finds the property violated.

## 1. The system

    browser                          backend (one process)             external
    ---------------------------      ----------------------------      -----------
    store.ts: poll chain, list  --+
    store.ts: bulk removal      --+-> httpapi gate -> rpc proxy  -----> daemon
    Inspector, dialogs          --+                                       ^
    OrphanReview, Orphans       ----> httpapi gate -> orphans.Service ---+
                                                        |   `-----------> data folders
                                                        `---------------> config folder

| Part | State it keeps | Operations | What is hard | What makes it correct |
|---|---|---|---|---|
| Remembered Keeps (`orphans/keep.go`, `service.go`) | one JSON file beside the daemon's config, `keepMu` | Keep, Unkeep, ForgetKept; Status and Scan read it | every edit is a load and a save of the whole file; I/O errors, crashes, a file that does not parse | one atomic list: no Keep is lost, nothing unreadable is replaced except on request |
| Orphan scan and delete (`orphans/service.go`, `rpc.go`, `scan.go`, `state.go`) | `opMu`; the last result with its entries; the cached claims with their fingerprint | Scan, Delete, expiry after 30 minutes, restart | a walk takes minutes while torrents come, move and go; two tabs; a cache of what the daemon owns; failure in the middle of RemoveAll | nothing is deleted that the daemon owned all along or that is not what the scan saw; a delete is for the scan that was shown; the lock always comes free |
| Claimed set and walk (`orphans/claims.go`, `scan.go`, `config/mounts.go`) | none (pure) | which paths a torrent claims, through roots and mount prefixes; which paths the walk offers | prefixes, nesting, hard links, incomplete dirs, case | a path at, above or below a claimed one is never offered |
| Orphan HTTP handlers (`orphans/handler.go`) | none | scan as a stream, keep, unkeep, delete, forget | a disconnected browser cancels the operation | status codes tell the outcomes apart |
| Polling (`ui/src/state/store.ts`) | list, session, connection; tick counter, `forceFull`, `pollAgain`, `sessionFresh`, the timer | startPolling, pollOnce, refreshNow, refreshSession | writes, timers and the returning user all start polls; deltas miss things; failures and sign-outs | one chain that never dies; a write is followed by a full pass that is newer; the list converges |
| Bulk removal (`store.ts`, `list/List.tsx`) | the run on screen, the token of the last run, one loop per run | removeSequence, stopRemoval, dismissRemoval, the reply of each remove | a run stopped while its last reply is due and another one started; a poll older than the removal; a lost reply | the tally is true, one loop goes on, Stop stops, the list settles |
| Inspector (`store.ts`, `inspector/`) | focused id, its detail, the tab | focus, setInspectorTab, refreshDetail | details of the last torrent, or older ones, that arrive late | the detail shown is that of the focused torrent, and comes to be current |
| Tracker health (`lib/model.ts`, `store.ts`) | since when each host fails, kept over reloads | computeHealth, whenever a list is made anew | every announce has a newer time; time passes with no torrent changing | an outage is found after ten minutes, and stays found |
| RPC clients (`rpc/client.ts`, `orphans/rpc.go`, `proxy/proxy.go`) | the daemon's session id, per client | a call; one retry on a 409 with the new id | parallel calls, a daemon that restarts between the two tries | a call fails only if the daemon changed its id twice |
| Orphan review (`dialogs/OrphanReview.tsx`, `Orphans.tsx`, `api/orphans.ts`) | the scan's entries, decisions, the queue of keep calls, the delete run | K, U, D, confirm, stop, retry, rescan | deletes overtake queued keeps; a rescan under an open review | what is remembered and deleted is what the user decided |
| Sign-in (`httpapi/server.go`, `login.go`) | signed cookies; the login throttle | gate, callback, login, logout | the shell and the login page judge a session by different tests | no redirect loop; a throttled address comes free |
| List and selection (`list/`, `lib/model.ts`, `app/`) | selection, focus, filters, sort, the open menu | click, range, keys, filters, menus, bulk writes | the list changes under a selection, a menu or a dialog | the sidebar counts what the list would show |
| Dialogs (`dialogs/`) | drafts, the sources to add | labels, location, limits, trackers, adding, settings | loads that are late or fail; a draft over what changed; several sources of which some fail | a save sends only what was edited; nothing is added twice |
| Simulated daemon (`ui/sim/`) | torrents, the queue, what was removed lately | tick, the RPC methods, the gate behind a delete | requests are handled with the time of their arrival; a verify or a queue move halfway | torrents add up, the queue is served, a delta tells of every change |

How they interact. The browser never learns of a change unless it asks: every
write ends in `refreshNow`, and the poll chain (PollLoop) carries everything
else. The removal loop (Removal) writes to the same list the polls write to. The
review window and any other tab share the one `orphans.Service`, whose scan and
delete exclude each other through `opMu`, while Keep and Unkeep go on beside
them under `keepMu`. The Service and the browsers ask the same daemon, which
changes on its own and under other clients: it is external, and modelled by what
its answers can be.

## 2. Modules

| Module | Models | Extends or instantiates |
|---|---|---|
| `KeepStore` | abstract: the promise of the Keep list, one atomic step per request | - |
| `KeepList` | the file, the temporary file, the mutex and the requests behind it | `Store == INSTANCE KeepStore` |
| `KeepListProofs` | theorems about KeepList | KeepList |
| `OrphanService` | Scan and Delete, the result, the claims cache, with the daemon and the disk as the environment | - |
| `OrphanServiceProofs` | theorems about OrphanService | OrphanService |
| `OrphanClaims` | newClaims and owner, the walk of a scan and the two answers around it, over paths | - |
| `OrphanClaimsProofs` | theorems about OrphanClaims | OrphanClaims |
| `PollLoop` | the poll chain and the session reads against a daemon that changes | - |
| `PollLoopProofs` | theorems about PollLoop | PollLoop |
| `Removal` | removeSequence's loops, the bar's buttons, the polls that overlap them | - |
| `RemovalProofs` | theorems about Removal and about SimDaemon | Removal, SimDaemon |
| `OrphanReview` | the Scan button, the review window, its delete run and its queue of keep calls, against the backend as other tabs use it | - |
| `OrphanReviewProofs` | theorems about OrphanReview | OrphanReview |
| `InspectorFetch` | focus, tabs, refreshDetail with its calls in flight, the passes and writes that call it | - |
| `InspectorFetchProofs` | theorems about InspectorFetch | InspectorFetch |
| `TrackerHealth` | the judgement of trackers and the memory of outages, over polls and reloads | - |
| `Desk` | the sidebar, the list, selections, menus, keys and the dialogs that edit, over polls and calls in flight | - |
| `DeskProofs` | theorems about Desk and about TrackerHealth | Desk, TrackerHealth |
| `SimDaemon` | the simulated daemon: ticks, handlers, queue and gate, with a client that polls deltas | - |
| `MC...` | constants of the instances for TLC | the module of that name |

Two proof modules are about two specifications each, which they extend side by side; the
names of TrackerHealth and SimDaemon that would clash there have a prefix (`HealthSpec`,
`HealthNext`, `healthVars`; `SimSpec`, `SimNext`, `simVars`).

### KeepList

A request is a process: `Ask`, `LookUp` (Service.entry, before the mutex), `Lock`,
`Load`/`Read`/`LoadRefused`, `Remove` or `Write`, `Written`, `Rename`, `Unlock`,
`Leave`. `Write` and `Written` are the truncation and the filling of the temporary
file by os.WriteFile, so that a crash between them leaves a file that does not
parse. `FailIO` fails any file operation before it took effect. `Crash` forgets
every process and keeps both files. `Damage` makes the file unreadable; it is
assumed not to happen inside the few milliseconds in which a request holds the
list. A record is a path with a stamp (the size, file count and mtime that Keep
stores), so that a path kept again after it changed is another record. The file
system is assumed to rename atomically; whether the data of a renamed file
survives a power failure is not modelled (keep.go does not sync).

KeepStore is what a browser may rely on. `ImplementsStore` maps `file` to the
abstract list and the steps to idle, asked and answered: a request takes effect at
the rename, the remove or the read.

### OrphanService

A *key* is something a scan can offer: a top-most data path, or a torrent's state
files. `disk[k]` is the set of files under k, which is also what `summarize`
measures. A torrent has an identity (id, place: its name and download_dir) and
files (the items it claims). `Claims(dirs, ident, files)` is what newClaims makes
of one answer of the daemon; `Fingerprint` leaves the files out, as the code's
does. How paths become keys, and why a scan's entries are apart, is the subject of
`OrphanClaims`.

Each RPC call of Scan and Delete is one action, in the order of the code, and the
daemon (`AddTorrent`, `RemoveTorrent`, `MoveTorrent`, `LearnFiles`, `RenameInner`,
`SetDirs`, `DaemonRestart`), the disk (`DiskChange`), the users (`Keep`, `Unkeep`,
`ForgetKept`) and time (`Expire`, `Restart`) move between any two of them.
RemoveAll is one `UnlinkPiece` per file and can `Fail` in between.

Identities do not determine files. A magnet has no file list (`None`) until `LearnFiles`,
and claims what has its name (`Whole`, with the `Layout` of the files in `Holds`), but no
`name.part`; `RenameInner` renames a path inside a torrent. Neither need change the
identity, and then the code keeps its cached claims (finding 3). `heard` is history: the
answer that the cached claims were made of. `Relisted` are the torrents whose files are
no longer those heard though their identity is. The properties of the cache excuse these
and no others; `CacheFresh` excuses none, and the code violates it.

`freeT`, `freeD`, `same` and `spent` are history: which keys were free, and whether
the entry was as scanned, at some instant since the request began to look, and
which entries of the current scan were already deleted.

### OrphanClaims

A path is a sequence of names, a *place* a root and a path below it in normal form
(`Norm`, for a file system that decomposes names). `Located` is claims.locate: the
root a daemon's path is in. `NewClaims` makes the three sets of the code, `files`,
`whole` (a torrent whose files are not known claims whatever has its name) and
`descend` (the folders above); `Owner` asks them. Data may be in the download folder
or the incomplete one, under the final name or as a `.part`.

`Begin` takes the daemon's answer, and fails the scan if it names a folder outside
the roots that the container sees (`Visible`, `Refused`), unless that path, read as one
here, is in a root that has another name here (`UnderMappedLocal`): then the code only
warns, and so does the model. The walk is `Visit`, which
lists one folder, and `Look`, which decides about one entry of a listing: claimed,
on the way to something claimed (`Descends`), or measured and `Offered`. Folders and
entries are taken in any order, which covers the order of the code. `SkipFolder` and
`SkipEntry` are read errors, which leave a warning. `Again` is the second answer,
which takes out what the daemon has claimed since. Between any two of them torrents
come, go, and get to know their files (`TorrentsChange`), and files appear, vanish and
change their kind (`DiskChanges`).

Left out: the marks of an entry (inside, match, hardlink, recent) and its size; the
filter of remembered Keeps and a change of the session's folders during a scan (both
in OrphanService); a folder that is replaced by a link at the moment it is opened.

### PollLoop

The daemon's changes are counted by a clock; a row is the time of the change it
shows. `PollOnce` is a call of pollOnce (from startPolling, from a timer, from
visibilitychange, from refreshNow), `Begin` the calls it sends, `RowsAnswered` and
`SessionAnswered` the daemon's answers, `PassDone` and `PassFailed` the two ways out
of the `try`, each with `Finally`. The session read is started with a pass, is
awaited with it and, when the torrents fail first, goes on alone: `reads` holds the
ones in flight. `Ages` lets a change leave the daemon's recently-active window at
any moment, so a delta may miss anything; `DaemonRestart` loses the window and
gives the ids to other torrents.

### Removal

`loop[t]` is the t-th call of removeSequence, suspended at its `await`. `Reply` is
everything from one await to the next: dropping the row, the tally, the check, the
next remove or finishRemoval with its refreshNow. `RemoveFails` is a call that the
daemon refused or whose reply was lost after it was carried out. A poll's answer is
what there was when it was asked, and is merged later, so a removed row can come
back until the next full pass.

### OrphanReview

The browser's half of the orphan finder. The backend is cut down to what
OrphanService and KeepList promise: a call takes effect at one moment, a scan or a
delete that meets another one is refused, an entry is known by the scan that offered
it, and is gone from it once deleted. What a recheck says is a free choice. Other tabs
scan (`OtherScanBegins`) and forget (`ForgetAll`); a delete of theirs is a failure of
ours.

Review windows are numbered: `win` is the one on the screen, `run[n]` the delete run of
window n, suspended at its `await`, and `queue[n]` its chain of keep and unkeep calls.
Runs and queues of a closed window go on, as promises do: the queue to its end, the run
to its next look at `alive`. `Decide` is a key or a button, with the calls that it
queues; `Go`, `DeleteReply` and `GoesOn` are the loop of `run` between its awaits;
`Dismiss` takes out what was deleted and makes the rest plain decisions again.

What is around the window can take it away: a file dropped on the page opens Add
whatever the dialog was (`Leave`), and a poll that is answered with 401 unmounts
everything (`SignOut`) but leaves the dialog in the store, so that `SignIn` mounts the
same review anew, without its decisions and with rows that may be deleted already.
A call whose connection breaks is answered as failed and may still take effect later,
or never (`ghosts`).

`acked`, `sent` and `vouched` are history: the entries that the backend said it
deleted, the ones that the last run asked for, and those of which the window is the
last to have said something that was carried out.

### InspectorFetch

A field of a torrent's detail carries the time of its last change: those that a tab
shows and that move on their own (EXTRA_LIVE), one per tab, and `"fixed"` for the rest.
`fetches` holds the calls of `refreshDetail` in flight, from a pass, a focus or a tab;
`RefreshDetail` is everything up to the `await`, read with the focus, tab and list of that
moment, and `DetailArrives` what comes after it, in any order of the answers. `Begin`,
`Fire`, `PassDone`, `PassFailed` and `Finally` are pollOnce, as far as the inspector and
the flags go; a pass waits for its detail call, and one that fails leaves the call to go
on alone. `Write` and `WriteEnds` are `run` with its refreshNow. At the daemon fields move
(`Moves`), a magnet gets its metadata, torrents go, and any call may fail.

Left out: what PollLoop has (the session, deltas that miss something, signing out), and
the edits made inside a tab, which are writes like any other.

### TrackerHealth

A tracker is its host, and the answer to an announce one of four classes. `Compute` is
computeHealth over a new list: who announces to a host (`usedTrackers` leaves out backups),
who fails, since when (`Remembered`, rememberFailing and forgetFailing together), and the
verdict. `Merge` is mergeTorrents: it makes the list anew when something changed, or every
CLOCK_EVERY ticks. `Reload` keeps only what localStorage keeps. `down` is history: the
hosts that were found down and have failed ever since.

### Desk

What a user can do, against the list and the session of the last poll (`view`), while the
daemon (`torrents`, `fields`, `session`) changes and calls are in flight (`writes`).
`FilterFn`, `AdvFn`, `SortKey`, `Passing` and `Rows` are model.ts and the list; `StatusRows`,
`LabelRows` and `FolderRows` the sidebar, which counts in its own way. A sort is said by what
it does: the place of a row is how many are before it (`Rows`). `selected`,
`focusId` and `menu` are what bulk actions take their ids from, each in its own way:
`SelIds` (selected and shown), `KeyIds` (all that is selected, or the focus), the ids of
a menu, which are those of the moment it was opened.

A dialog is a record; there is one at a time, and it covers the list. `Initial` is
computed again at each render, as in the code, and `sel` is not. A limits or trackers
dialog waits for its load by number (`reads`), so an answer for a closed one is dropped.
An Add dialog has the files being read, the list of sources and the links still in the
box; a submission (`jobs`) goes on if its dialog is closed, and closes whichever dialog is
open when it ends. Settings send each edit at once, computed from the session of the last
poll. `Applied` is the daemon, which applies calls in any order.

A removal is one step here (Removal has it). Left out: tracker rows and notices, free
space, statistics, the URL, FolderChips, the options of an added torrent and its unwanted
files, the port test, the interface settings, and the conflict of a renamed path.

### SimDaemon

`Arrive` is a request of server.ts up to its `await`: the world ticks to the time of the
arrival, and the request waits in `pending` behind a delete. `Turn` is the rest: the
handler runs with the time of arrival (`Stamp`), so a request can be handled after later
ones have ticked. `Stepped` is one torrent in one tick, as a choice over what rates,
stalls, seeding goals and the random rechecks make of it; `PromoteQueue` is run by the
tick and by most handlers, in one `Pass` per queue. The handlers are actions of the same
names (`Start`, `StartNow`, `Stop`, `Verify`, `TorrentRemove`, `TorrentSet`, `Move`,
`SessionSet`, `Add`, `TorrentGet`; re-announce, set_location and rename are `Touch`).
`QueueMove` says of every two torrents whether one passes the other (`Passes`), where the
code swaps neighbours in a loop; the result is the same. A byte is a file, so that
have_valid, have_unchecked and left_until_done are small numbers. `dirty` is history: the
torrents whose row changed since an answer last told the client. The client of `TorrentGet`
asks for a delta only within a window of its last poll, and not by a poll that waited behind
a delete until the removals since the last one are no longer remembered.

It is the daemon that PollLoop and InspectorFetch take for granted, built by hand: it
answers a delta as they assume, if the client asks within the window (`DeltaTells`).

## 3. Runs

| Run | Instance | Shows |
|---|---|---|
| `keep_safe` | KeepList, 2 requests, 2 paths of which one has 2 stamps, 1 crash or damage; fair | `Consistent`, `NoLostKeep`, `ImplementsStore` (refinement of KeepStore), `EveryKeepAnswered` |
| `orphan_small` | 1 torrent, 1 data path of 2 files, 2 places, 2 session folders, 2 requests, 2 scans, 2 changes, magnets and renames inside a torrent included | `Consistent`, `ResultPinned`, `CacheSound`, `UnlinkJustified`, `DeletedOnce` |
| `orphan_pair` | 2 torrents that share data, 1 request at a time, 1 scan, 1 change, magnets and renames inside a torrent included; fair | `OfferedAfterWalk`, `EveryRequestEnds` |
| `orphan_claims` | 1 root with another name here, 8 names (two spellings of one name, a `.part`, housekeeping), at most 2 of 5 torrents of which one is outside and only warned of and one outside and refused, every disk over 6 paths, 2 changes, 1 read error | `TypeOK`, `NothingOwned`, `TopMost`, `Complete` |
| `poll_loop` | 1 torrent, 2 session reads in flight, periods of 2 passes, 1 change, 1 failure; fair | `Consistent`, `RefreshServed`, `RefreshComes`, `Converges` |
| `orphan_review` | 2 entries, 2 scans, 2 windows, 2 keys, 1 failed or lost call; fair | `Consistent`, `RowsTrue`, `LastKeyWins`, `NoSurprise`, `Settles` |
| `removal` | 2 torrents, 2 runs, 1 failure; fair | `Consistent`, `TallyTrue`, `StopHolds`, `Settles` |
| `sim_daemon` | a magnet that runs and one or two torrents of 2 files that wait behind it, 3 ids, 3 requests (2 if there are three torrents) of which 2 wait, times 0 to 2, a window of 1 | `TorrentsSound`, `DeltaTells`, `QueueServed` |
| `inspector` | 2 torrents of which one is a magnet, 2 tabs, 2 fetches in flight, full passes every 2nd, 2 clicks, 1 change, 1 failure; fair | `Consistent`, `DetailSettles` |
| `tracker_health` | 2 torrents, a tracker and a backup, 3 announces or scrapes, 3 seconds with an outage after 1, 1 reload or removal; fair | `OutagesKept`, `DownShown` |
| `desk` | 2 torrents in a folder and a folder below it, 2 labels, 2 sources to add, 1 change from elsewhere, 2 writes, 2 dialogs | `Consistent`, `AddOnce`, `TransportsKept`, `LabelsAsToggled` |
| `desk_trackers` | the same | violated: `TrackersKept` (finding 1) |

`Consistent` is, in each module, the type invariant with the invariants that say its state
hangs together: `OneWriter` (KeepList), `OneOperation` (OrphanService), `OneChain`
(PollLoop), `OneRun` and `InspectorShows` (Removal), `DecidedOnly` (OrphanReview),
`DetailFocused` (InspectorFetch) and `SidebarTrue` (Desk). `TorrentsSound` (SimDaemon, with
`Accounted`) and `OutagesKept` (TrackerHealth, with `StaysDown`) are the same of their
modules. `Settles` is the liveness of Removal (`RowsSettle` and `RunEnds`) and
of OrphanReview (`RunEnds` and `QueueDrains`).

### The properties

* `OneWriter`: one request at a time is between its load and the end of its save.
* `NoLostKeep`: what a request is about to save is the edit of the list that is on
  the disk *now*, and what the rename installs is whole.
* `EveryKeepAnswered`: every request that uses the list, Keep, Unkeep, Forget all or a
  reader, ends, whichever way the mutex goes.
* `OneOperation`: `opMu` is held exactly between a TryLock and its answer: no way out
  of Scan or Delete leaves it behind.
* `ResultPinned`: the scan a delete was asked for is the current one until it answers.
* `CacheSound`: claims that would be reused hold the daemon's folders, every loaded torrent
  and its files, but for the files of a torrent that changed behind the identity they were
  heard with.
* `UnlinkJustified`: what is unlinked was free, and as scanned, at some instant after
  the delete was asked. With cached claims, the files of a torrent that changed behind its
  identity count as they were heard. The window between the last check and the unlink is open in
  the code, and the property does not pretend otherwise.
* `DeletedOnce`: an entry of a scan is not deleted a second time, by another tab or a
  retry.
* `OfferedAfterWalk`: a scan offers nothing that was owned from the end of the walk on.
* `EveryRequestEnds`: every scan and delete is answered.
* `NothingOwned`: a scan offers nothing that is, holds, or (while a torrent's files are
  not known) is in what the daemon's last answer may have on the disk. What the daemon
  may have is said again in the property, path by path, without the claims.
* `TopMost`: no entry of a scan is inside another one, whatever is moved under the walk.
* `Complete`: nothing is missed: on a disk at rest, a file is offered, or in use, or
  housekeeping, or there is a warning.
* `OneChain`: a pass in flight or one armed timer, never both, and never neither except
  when signed out.
* `RefreshServed`: after the pass that a refreshNow asked for, the list is at least as
  new as that call, and no delta takes that back.
* `RefreshComes`: a refreshNow is served even when its pass fails.
* `Converges`: when the daemon rests, list and session come to show it.
* `TallyTrue`, `OneRun`, `StopHolds`, `RunEnds`: the bar tells the truth, one loop goes
  on, a stopped run asks for nothing more, and no bar is left that nothing moves.
* `RowsSettle`, `InspectorShows`: the list ends as what the daemon has, and the inspector
  shows one of its rows.

* `DecidedOnly`: what a run asks to delete is in the list that was confirmed, still
  decided so, shown as active, and not deleted before.
* `RowsTrue`: a row says deleted only of what is gone; the tally of a run counts what it
  asked for; after Dismiss the list is the scan's without what was deleted, so that what
  was stopped or failed can be tried again.
* `LastKeyWins`: when the queue of a window is empty, an entry is remembered if and only
  if its decision is Keep, unless a toast told of a failed call, or another window, tab
  or lost call had its hand in it. OrphanReview.tsx:176-177 asks for it.
* `NoSurprise`: a scan that ends opens its review from Settings only, never over another
  dialog or the sign-in screen.
* `RunEnds` (of OrphanReview), `QueueDrains`: a run ends, stopped or not; every Keep and
  Undo is answered, whatever failed before it and though the window is closed.
* `DetailFocused`: the detail is that of the focused torrent, with all its fields, however
  many fetches are in flight.
* `DetailSettles`: when the daemon rests and the user too, the inspector comes to show the
  focused torrent as it is, or closes if it is gone.
* `StaysDown`: no announce, no reload and no change of the list starts the ten minutes of
  an outage again, as long as everything fails.
* `DownShown`: if everything fails at a host from some time on, and long enough, it comes
  to be shown as down, with nothing but the clock changing.
* `SidebarTrue`: every row of the sidebar that is modelled (status, labels, folders; the
  tracker rows are left out) counts what the list shows when it is picked, with the attribute
  filters and the search cleared; a filter in force keeps its row, and no other row is empty unless pinned.
* `AddOnce`: no source is added twice, whatever is submitted again after a failure.
* `TransportsKept`: the daemon is never left with an empty list of transports, although
  each edit is computed from what the last poll brought.
* `LabelsAsToggled`: a save changes, of each torrent, only labels that were switched in the
  dialog, *as long as no poll brought other torrents while it was open* (`dialog.fresh`;
  without that it is finding 7).
* `Accounted`: have_valid and left_until_done add up to the size, with nothing left in
  have_unchecked, for every torrent that is not being verified.
* `QueueServed`: queue positions are 0 to n-1 (`Contiguous`); no torrent waits while a slot is
  free, and one at most is verified (`NoIdleSlot`); who comes out of a queue to run is ahead of
  everyone who stays in it (`FirstComesFirst`).
* `DeltaTells`: what changed since the client's last poll will be in the next delta, and a
  removal is remembered for two windows.

### Bounds, and why they are enough

The properties are about one path, one entry, one row or one loop against
another, so two actors and one or two pieces of data meet all the pairs. Two
stamps for one path let a Keep replace itself. Two files under a path let RemoveAll
stop halfway. Two changes let the daemon and the disk, or the daemon twice, move
inside one operation; two published scans let a tab name the old one. `MaxId = 2`
lets an id be given again after a daemon restart. In PollLoop the first change is
the state at the start, so `MaxNow = 2` is one change, which together with ageing
is enough to miss it; periods of 2 keep the relation that a full pass is always a
session pass, as with 30 and 15, and keep passes that are neither. One failure is
enough to owe a full pass or to lose a session read; a second one while the first is
owed changes nothing that is not changed already. Three session reads in flight
would take two failed passes. In OrphanClaims two torrents
can share a folder or have one inside the other; paths of three names have a folder
above, at and below a claim; the second change can undo the first. One root is
enough for properties about one root; the proofs have any number. Two runs of Removal let one be stopped and replaced.
In OrphanReview two entries let a run be stopped between them, two windows let the calls
of the first be out under the second, and two keys are the shortest history in which
order matters, K then U.
In Desk a behaviour uses one set of features (`Script`): browsing, bulk actions, a menu, or
one kind of dialog. The theorems about Desk are for any set of scripts. Dialogs meet each
other only through what they write, which is applied by the daemon, except that a drop and an Add that ends act on whatever is open; those are
of the add set. Two torrents, one with a label and one without, let an edit of both
differ; two writes let a second edit be computed before the first is applied; two dialogs
let the answer for the first come under the second. In SimDaemon three requests are a
change, a tick and a poll, or two changes and a poll, two of which may wait; at most one
torrent does something unusual in a tick (`MaxOdd`), which, with three ticks, lets two be
at any two stages. Two torrents that wait and one that runs are the fewest for which the order
of a queue shows; with three torrents there are two requests, and three with fewer (`MaxWork`),
and only two hashes are added by requests (`Addable`). Otherwise the third id is for a torrent
that is added after a removal. The times 0 to 2 are two windows, so in the run `Trimmed` forgets
no removal; that it may is covered by the theorem. The theorems have any number of torrents, files and requests,
and any number of torrents to which something happens in a tick. `MaxNow = 1` in InspectorFetch is one change, at any moment of two
overlapping fetches. In TrackerHealth three announces make a tracker fail for one torrent,
for both, and be retried.
Requests and files are symmetric where a run checks no liveness.

TLC stops where the bounds do: the runs of the Keep list, of the Service, of
the claims, of the review, of Removal, of Desk, of SimDaemon, of InspectorFetch and of
TrackerHealth may come to rest (no request, all changes spent), so deadlock is not
checked there. The poll chain must never rest, and its run checks that.

### Fairness

* A Go handler goes on (`WF`). sync.Mutex hands the lock to a waiter in the end (its
  starvation mode), so a request that finds it free again and again gets it
  (`SF` on Lock). Nobody has to ask: `Ask`, `StartScan` and `StartDelete` are not fair.
* An RPC call of the Service is answered or fails. The HTTP client has no timeout
  (rpc.go:34), so this is an assumption about the daemon, or about a browser that
  closes the request in the end; it is listed as a hazard.
* In the browser every call is answered or fails, and a timer fires. Failures are
  bounded, which states that they stop; sign-out may be for ever, so the liveness
  properties of the polls except it.
* A call of the review is handled and answered, or fails; a scan or a click need not come.
* The poll's timer fires, and calls of the inspector are answered or fail (`Fire`, `PassDone`,
  `DetailAnswered`...). The tracker verdicts need that polls go on (`Poll`) and time passes.
* Desk and SimDaemon state no liveness.
* Crashes, damages, changes and clicks are never fair.

## 4. Proofs

| Theorem | Module | States |
|---|---|---|
| `TypeCorrect`, `OneWriterHolds`, `NoLostKeepHolds` | KeepListProofs | the invariants of KeepList |
| `ConsistentHolds` | KeepListProofs, OrphanServiceProofs | `Consistent` of each |
| `Implementation` | KeepListProofs | `Spec => ImplementsStore` |
| `TypeCorrect`, `OneOperationHolds`, `ResultPinnedHolds`, `DeletedOnceHolds`, `OfferedAfterWalkHolds` | OrphanServiceProofs | the invariants of OrphanService about the lock, the result and the scan |
| `CacheSoundHolds`, `UnlinkJustifiedHolds` | OrphanServiceProofs | those about the cached claims and what is unlinked |
| `TypeCorrect`, `NothingOwnedHolds`, `TopMostHolds` | OrphanClaimsProofs | the invariants of OrphanClaims about what is offered |
| `CompleteHolds` | OrphanClaimsProofs | what is not missed |
| `TypeCorrect`, `ConsistentHolds`, `RefreshServedHolds` | PollLoopProofs | the invariants of PollLoop |
| `TypeCorrect`, `ConsistentHolds`, `TallyTrueHolds`, `StopHoldsAlways` | RemovalProofs | the invariants of Removal, and the action property `StopHolds` |
| `ConsistentHolds` | InspectorFetchProofs | the invariant of InspectorFetch |
| `Invariance`, `ConsistentHolds`, `RowsTrueHolds`, `LastKeyWinsHolds`, `NoSurpriseHolds` | OrphanReviewProofs | the invariants of OrphanReview, and the action property `NoSurprise` |
| `ConsistentHolds`, `TransportsKeptHolds`, `AddOnceHolds`, `LabelsAsToggledHolds` | DeskProofs | the invariants of Desk, and the action property `LabelsAsToggled` |
| `RowsSorted` | DeskProofs | what the list shows: each torrent that passes once, in order |
| `OutagesKeptHolds` | DeskProofs | the invariant of TrackerHealth |
| `TorrentsSoundHolds`, `DeltaTellsHolds`, `QueueServedHolds` | RemovalProofs | the invariants of SimDaemon, and the action property in `QueueServed` |

They hold for any set of requests, paths, torrents, folders, tabs, labels and contents and any
bounds, under the assumptions that the modules name: `KeepAssumption`,
`ConstantsAssumption`, `ClaimsAssumption`, `MountsAssumption`, `PollAssumption`,
`RemovalAssumption`, `InspectorAssumption`, `ReviewAssumption`, `DeskAssumption`,
`HealthAssumption`, `SimAssumption`, `DatasetAssumption`. Most of
what these say is about the modelling: bounds are numbers, and the None values are distinct
from what they stand in for (an id, a record, a call). What they say about the program:

* the torrents of the Service and of Desk are finitely many;
* what is on the disk is in folders (`ClaimsAssumption`: every proper prefix of a path is a
  directory). It is said of every prefix, not of the last one only, because going from one to
  the next is an induction over the length of a path;
* the roots are apart, at the daemon and here, and none is `/`, as loadMounts requires
  (`MountsAssumption`);
* a folder is a sequence of parts, the list is sorted by one of the keys there are
  (`SortKeys`), and every torrent has a folder and a size (`DeskAssumption`);
* the simulator starts with torrents that `buildOne` can make, each hash once, none waiting for
  a slot of its queue while nothing runs there, and at most one that is verified
  (`DatasetAssumption`). So it is with the dataset taken once. With several copies of it
  (`TM_SIM_COUNT`) there would be several in `Check` at the start, and `NoIdleSlot`, which says
  that one at most is verified, would be false until they end;
* a full pass is a session pass (`PollAssumption`), as FULL_EVERY and SESSION_EVERY are 30
  and 15.

**KeepList.** None of `OneWriter` and `NoLostKeep` is inductive alone. The invariant is
TypeOK, `LocalsKnown` (a request past its lookup has an operation, and its step fits
it), OneWriter and NoLostKeep. OneWriter makes NoLostKeep stable: `file` changes only
in a step of the request that holds `keepMu`, so what another request loaded cannot
be old, because no other request has loaded anything. The refinement follows from
it: `Rename` installs `tmp = new = Edit(op, file)`, which is the abstract `After`.

**OrphanService.** `UnlinkJustified` speaks of the past, so the invariant carries the
history with it. `HistoryHolds`: while a request runs, what is free now is in its
history, and so is what its session answer leaves free. `CacheKeyed`: the cached
claims are those of the answer heard, and are kept under its identities. So if they match
today's, a torrent that is not relisted owns what was heard, which is in them (`FreeOfCached`).
`ClaimsHeard`: at the recheck, whatever is not in the
claims the request holds was free of torrents and folders since it began to look,
whether the claims are cached or new. `SpentGone`: an entry that was deleted is not
in the current result. With `OneOperation`, no other request can publish a result or
replace the cache in between, which gives `ResultPinned`.

**OrphanClaims.** `NothingOwned` comes down to sequences: a path at or above a claimed
one is a prefix of it (`KeyAtOrAbove`), so its key is among the claimed files or the
folders above them, and `OwnerCovers` says that what Owner lets through is apart from
all that the daemon's answer speaks for. `TopMost` is not inductive: the invariant
`Antichain` says that the folders to be read, the entries to be looked at and the
entries found are all beside each other, each set and any two of them. Reading a
folder replaces it by its children, which are beside each other (`SiblingsApart`) and
beside whatever the folder was beside (`ChildComparable`); looking at an entry makes it
a folder to read or an entry found, never both.

`Complete` needs the whole walk (`Walk`):
as long as nothing changes, the claims are the daemon's (`Settled`), an entry is what it was
listed as (`Listed`), and every file is excused (housekeeping, at or below what is used, or above
it), or at or below something found, warned of or still to be looked at, or inside a folder
still to be read (`Accounted`). Reading a folder passes each file below it on to the child it
is in, which is listed because the prefixes of a path are on the disk. Looking at an entry
offers it, makes it a folder to read, or leaves it because it is claimed, and then all that is
at or below it is excused.

**PollLoop.** `OneChain` is inductive with the types. `RefreshServed` is not: the invariant
adds `TimesKnown` (served <= asked <= now, and a pass is for a time that was asked for) and
`AnswerCurrent`: what the answer in flight says of a torrent that did not change since the pass
was asked for, or since the last time served, is right, and a full pass speaks of every
torrent. A pass that serves a refreshNow is forced, hence full, so it sets every row. A
delta that comes later may leave torrents out, and then their rows stay as they were served;
those it speaks of it does not take back to an older state.

**Removal.** `OnScreen` is what the tally rests on: of the batch on the screen, what is
done, what the loop awaits and what it has still to do are apart and make up the batch, and
without a loop the run is at its end and has failures. `TokensSpent` (tokens are given once)
keeps a loop that was superseded from being taken for the run on the screen. `StopHolds`
follows from `StoppedKnown`: a run whose token was stopped is shown as stopped, or is no
longer shown, and `Going` is false of both.

**InspectorFetch.** `Consistent` is inductive as it stands, because every call carries what it
asked for: a call for some fields was sent when a detail of its torrent was there, and
`refreshDetail` spreads its answer over the detail only if that is still the case. The types
are part of it: what is in flight is a set of calls of any size (`CallKnown`, `Merged`).

**OrphanReview.** The invariant is one conjunct per place in which a decision can be:
`Places` (a scan is asked for in Settings, a window is on the screen while its dialog is, a
window to come has no run), `DecidedOnly` and `RunKnown` (a run asks for each entry once, and
what it was told is deleted is not on the disk), `RowsKnown` (what each row may say in each
phase), `OneOut` (only the first call of a queue is out) and `KeysKnown`: for each entry
that the window vouches for, either a failed call is still to be told, or the last call that
is to come agrees with the decision, or, if there is none, what is remembered does. The last
is `LastKeyWins` for a queue that is not empty.

**Desk.** `TransportsKept` needs that no call in flight carries an empty list. For `AddOnce` a
source is followed through all the places it can be: being read, in the list, in the box, in one
submission's rest, added (`JobsKnown`, `HeldKnown`). In no two of these at once, with one
exception that is the point of the proof: while the submission of the dialog that is open runs,
the dialog still shows what the submission has added, and is allowed to, because it ends by
closing the dialog, and cannot be submitted a second time before. `LabelsAsToggled` is an
action property; its invariant says that what the box shows differs from what the dialog opened
with only in what was switched, as long as no poll brought other torrents.

`Consistent` of Desk is about counting. The invariant (`DeskInv`) is `AddInv` of `AddOnce` with
the type of each part of the state: the lists of the daemon and the client (`DataKnown`), filters
and sort (`NavKnown`), what is picked (`PickedKnown`), each kind of dialog (`DialogFits`) and the
calls (`CallsKnown`). `SidebarTrue` follows from the types by two facts about operators. One is
`RowsSorted`: sort keys end in the id, so they are a strict total order of the torrents that pass,
and then the numbers of those before each (`Ranking`) are 0 to n-1, each taken once; so the list
is as long as the set of those that pass is large. The other is `SumOfDirs`: the sum of `PerDir` over
folders, a fold, is the number of torrents in them. Then a row of the sidebar counts the
torrents that its filter lets through (`RowTells`): a folder's are those of which it is a
prefix, `WithinCounts`.

**TrackerHealth.** `HealthInv` is the types, `StatsKnown` (what is known of announces and
scrapes is of the past), `StaysDown`, and `DownSince`: of a host that was found down a time is
remembered that is ten minutes back. `RememberedFacts` says that `Remembered` is no later
than it was as long as everything fails, because the older time is among those of
which it takes the least.

**SimDaemon.** `SimInv` has five parts. `SimTypeOK`. `Times`: requests wait in the order of their
arrival, none older than the last poll. `Sane`: each torrent is `Sound` (of its type, adds up
unless it is being verified), has a hash of its own and a place of its own from 0 to n-1, and one
at most is verified. `Busy`: nobody waits for a slot that is free. `DeltaTells`. A torrent is
followed through everything a tick or a handler can make of it, one lemma per definition
(`ReconciledRow` to `SteppedRow`). For the places, `Renumbered` and `Moved` show that
`RenumberQueue` and `QueueMove` rank the torrents by a strict total order, which is what
`Ranking` asks for. The queue itself is `Promoting`: each pass of `promoteQueue` serves its own
queue and undoes nothing of the others, since the first ones of a queue are as many as there
is room for, or all of it (`FirstOnes`). A handler then has to do two things, `Request`: leave the
torrents sane, and change only torrents that are touched; and `Onward` and `Telling` do the rest.

**Induction in disguise.** The library's induction theorems cannot be used. Where a proof
needs an induction over a finite set, it takes a least counterexample instead: the subsets of
a finite set are well founded under inclusion (`FS_StrictSubsetOrderingWellFounded`), so if some
set of folders had a wrong sum there would be a smallest one (`SumOfDirs`). In the same way a set
of numbers has a least one (`LeastOne`): the first place in which two sort keys differ, the
oldest evidence of an outage. That places without gaps are all taken (`AllTaken`) is counting:
n different numbers below n.

**What the proofs found wrong in the models.** Each of these passed TLC on its instance.
`FirstComesFirst` spoke of every torrent that stops waiting, also of one that a request moves
from one queue to another in which it is promoted at once; of three torrents that was false.
It now speaks of one queue. `DeltaTells` was false of a poll that is handled so late, behind a
delete, that what was removed since the last one is forgotten; such a poll is excluded, in
`TorrentGet`. What `NoIdleSlot` needs at the start, one verify at most and nobody who waits in
vain, was assumed nowhere: it is `DatasetAssumption` now. `Rows` of Desk used a sort that no
prover can expand, and now says which torrent is at which place.

**Only model-checked.** The liveness properties: `EveryKeepAnswered`, `EveryRequestEnds`,
`Settles` of Removal and of OrphanReview, `RefreshComes`, `Converges`, `DetailSettles` and
`DownShown`. They rest on fairness, hence on ENABLED, which TLAPS does not prove. That
`TrackersKept` fails (finding 1) is TLC's counterexample. Every other property of a run is a
theorem.

## 5. Findings

The first is shown by a run. The others are shown by adding the named property to the
configuration that is given, and running it.

1. Run `desk_trackers`. Dialogs.tsx:414 says "On a failed load text stays null so Save
   stays disabled: saving an empty list would strip every tracker". The text area takes
   what is typed while the load is pending and after it failed (line 461), and then Save is
   enabled, under "Could not load the tracker list; nothing will be saved." (line 434).
2. `KeepRewrites`, KeepSafe.cfg. keep.go:11-13 says of a list that does not parse that "the
   next Keep or Forget all rewrites the file". The code refuses a Keep on it
   (service.go:315-330); only Forget all rewrites it.
3. `CacheFresh`, OrphanSmall.cfg. service.go:399-400 says that
   freshClaims "asks the daemon what it owns right now, for every single delete". It reuses
   the cached claims when folders, ids, hashes, names and download_dirs are unchanged. Two
   things change none of them and change what a torrent owns: a `torrent_rename_path` on a
   path inside it, and the file list of a magnet that had the name of the metadata all along
   (claims.go:79-98: until then it claims what has its name, and no `name.part`). So a delete
   can unlink a path the daemon owns. `CacheSound` and `UnlinkJustified` excuse just these
   torrents.
4. `DeleteMatchesScan`, OrphanSmall.cfg. service.go:366-368 says of every entry that it
   "must be what the scan saw". For state files only the hash is checked (deleteState,
   service.go:467).
5. `RefreshReadsSession`, PollLoop.cfg. `sessionFresh` is cleared only by a pass that
   succeeds. When the first pass after the boot read fails, the next refreshNow still skips
   `session_get`, and a setting that was just saved shows its old value until a later
   session pass; store.ts:379 says that the pass reads the session.
6. `FailuresStay`, Removal.cfg. store.ts:532-533 says that failed rows "stay marked until
   the user dismisses them". A finished run is not in flight, so removing any other torrent
   replaces it and its marks.
7. `LabelsAsToggled` without its conjunct `dialog.fresh`, Desk.cfg. Dialogs.tsx:173-175 says
   that a save applies the labels "toggled on / off here". The labels all torrents share are
   computed again at each render, the ones that are on are not, so a label that another
   client adds to all of them meanwhile is taken away by the save, and one that it removes is
   given back.
8. `ActionShown`, Inspector.cfg. store.ts:231-233 says that what is not asked for on every
   pass "only moves on a user action, and every action ends in refreshNow(), which refetches
   the lot". The answer of an older whole fetch can arrive after that of the newer one, and
   a list that says that a magnet has its metadata can come with a detail from before.
9. Reading `torrent_verify` (handlers.ts:156-158): on a torrent that is being verified it
   moves the 0 bytes of have_valid to have_unchecked without a reconcile, where derive.ts:112
   says that the three counts always add up to the size. `Accounted` is about torrents that
   are not being verified, and holds; the bytes are lost from the count.

## 6. Plan

Theorems worth proving next, in this order:

* OrphanService implements a *deleter*: an abstract specification in which each entry of the
  scan that is shown is removed at most once, or refused, in one step.
* OrphanReview assumes of the backend what that specification says: its own `scan`, `offers`
  and `op` are the deleter's state.
* PollLoop: the list of a browser as an abstract *viewer*.

Abstract specifications worth stating: a *viewer* (a list that is at some recent state of
the daemon, and eventually at the last) that PollLoop and Removal implement together;
a *deleter* (each entry of the shown scan is removed at most once, or refused) that
OrphanService implements and OrphanReview assumes; the daemon of PollLoop, which SimDaemon
implements.

More modules, if proofs leave room: `RpcSession`, callers of client.ts and rpc.go and a
daemon that changes its session id (every call is tried at most twice, and fails with 409
only after two changes); `AuthGate`, gate, shell, login page, callback and logout as a
transition system of redirects, and the throttle's window; the marks of an orphan entry
(inside, match, hardlink, recent); the reloads of the status display of OrphanReview.

## 7. Not modelled

* What users see as text: formatting, icons, layout, tracker names, bencode parsing.
  Pure functions with unit tests of their own.
* The wiring of `main.go`, the exchange with the identity provider, the cryptography of
  cookies, the static file server.
* The session handshake of the two RPC clients and the proxy, and the gate with its redirects
  and throttle: planned above. A call is one step that succeeds, fails, or loses its reply.
* Of the simulated daemon: peers, trackers, disk space, statistics, speeds and the orphan
  routes. They are numbers to look at, and no handler decides by them except the random
  stalls and outages, which are choices of a tick.
* Of the inspector: what its tabs draw, and their edits, which are writes as the others.
* One storage mounted under two names. OrphanClaims has the refusal of Service.Scan, which
  looks once, at the download folders of the first answer, but states no property of it: an
  incomplete folder, a torrent that comes during the walk, or a path under a mapped root's
  own name here is not refused, and what it holds may be offered from the root.
* The real daemon. It is external and may do what its RPC specification allows: the models
  let it change between any two answers.
* The statistics, free space and speed history that ride on a poll: a failure of theirs
  is swallowed and nothing else reads them.
* Weak memory and data races: the backend's shared fields are under mutexes, and the
  browser runs one callback at a time.

----------------------------- MODULE SimDaemon -----------------------------
(***************************************************************************)
(* The simulated daemon of ui/sim: createState, tick and the RPC handlers, *)
(* behind the gate of server.ts.  A request ticks the world when it        *)
(* arrives, may then wait behind a delete, and is handled with the time of *)
(* its arrival.  What it asks is chosen when it is handled: until then     *)
(* only the time matters.                                                  *)
(*                                                                         *)
(* A byte is a file: all files have length one.  Rates are moving or not;  *)
(* ratios, stalls and the random generator are choices of a tick.  Peers,  *)
(* trackers, disk space and statistics are left out.  A client polls, all  *)
(* torrents or what was recently active: dirty is what changed at the      *)
(* daemon since an answer to it last told of it.                           *)
(***************************************************************************)
EXTENDS Integers, FiniteSets, Sequences, FiniteSetsExt

CONSTANTS
    File,         \* the files of a torrent, numbers in their order
    Hash,         \* torrents there may be
    Addable,      \* bound: those of them that a request adds
    Dataset,      \* the sequences of torrents the simulator may start with
    RecentWindow, \* recentWindowSec
    MaxId,        \* bound: ids given out
    MaxNow,       \* bound: seconds
    MaxArrivals,  \* bound: requests
    MaxWork,      \* bound: requests so far and torrents that are there
    MaxPending,   \* bound: requests that wait at once
    MaxOdd        \* bound: torrents that something happens to in a tick

ASSUME SimAssumption ==
    /\ File \subseteq Nat /\ IsFiniteSet(File) /\ File # {}
    /\ Addable \subseteq Hash
    /\ {RecentWindow, MaxId, MaxNow, MaxArrivals, MaxWork, MaxPending, MaxOdd}
         \subseteq Nat

SimId == 1..MaxId

VARIABLES
    torrents,        \* the live torrents, by id
    session,         \* sizes of the two queues, 0 when one is disabled
    removed,         \* what was removed lately, and when
    nextId,
    now,             \* the time of the last arrival
    arrivals,        \* requests so far
    pending,         \* arrival times of the requests that wait, in order
    polled, dirty    \* the client's last poll, and what it has to be told of

simVars == <<torrents, session, removed, nextId, now, arrivals, pending,
          polled, dirty>>

Waits   == {"CheckWait", "DownloadWait", "SeedWait"}
Running == {"Download", "Seed"}
ST      == Waits \cup Running \cup {"Stopped", "Check"}

Torrent == [hash : Hash, status : ST, prev : {"Stopped"} \cup Running,
            meta : BOOLEAN, files : SUBSET File, want : SUBSET File,
            done : SUBSET File, size : Nat, valid : Nat, unchecked : Nat,
            left : Nat, full : BOOLEAN, moving : BOOLEAN, moved : BOOLEAN,
            pos : Nat, active : Nat]

Session == [download : Nat, seed : Nat]

-----------------------------------------------------------------------------
(* derive.ts: what follows from the rest.                                  *)

IsChecking(t) == t.status \in {"Check", "CheckWait"}

\* reconcile.  full is percent_done >= 1.
Reconciled(t) ==
    IF ~t.meta THEN t
    ELSE LET valid     == Min({t.size, t.valid})
             unchecked == Min({t.size - valid, t.unchecked})
         IN  [t EXCEPT !.valid = valid, !.unchecked = unchecked,
                       !.left = t.size - valid - unchecked,
                       !.full = t.size > 0 /\ valid >= t.size]

\* The first n of the wanted files: distributeBytes over the file table.
Spread(want, n) ==
    {f \in want : Cardinality({g \in want : g < f}) < n}

\* The place of a torrent in the order of queue positions.
Rank(ts, i) ==
    Cardinality({j \in DOMAIN ts : \/ ts[j].pos < ts[i].pos
                                   \/ (ts[j].pos = ts[i].pos /\ j < i)})

\* renumberQueue: contiguous positions in the order there is.
RenumberQueue(ts) == [i \in DOMAIN ts |-> [ts[i] EXCEPT !.pos = Rank(ts, i)]]

-----------------------------------------------------------------------------
(* data.ts: torrents from nothing.                                         *)

\* fileList: of many files, the last may start out unwanted.
FileLists == {[files |-> File, want |-> w] : w \in {File, File \ {Max(File)}}}

\* buildOne.  A magnet has no files and no size yet.
Built(hash, status, list, have, at) ==
    LET valid == Min({have, Cardinality(list.want)})
    IN  Reconciled(
          [hash |-> hash, status |-> status,
           prev |-> "Download", meta |-> list.files # {},
           files |-> list.files, want |-> list.want,
           done |-> Spread(list.want, valid),
           size |-> Cardinality(list.want), valid |-> valid,
           unchecked |-> 0, left |-> 0, full |-> FALSE,
           moving |-> status \in Running, moved |-> status \in Running,
           pos |-> 0, active |-> at])

\* simFieldsFor: the status a verify goes back to.
WithSimFields(t) == [t EXCEPT !.prev = IF t.full THEN "Seed" ELSE "Download"]

\* buildTorrents.
BuildTorrents(specs) ==
    RenumberQueue([i \in DOMAIN specs |->
                     WithSimFields([specs[i] EXCEPT !.pos = i])])

\* buildSession: the queues are as large as what is running, so that
\* nothing is promoted on the first tick.
BuildSession(ts) ==
    LET Sized(s) == Max({1, Cardinality({i \in DOMAIN ts : ts[i].status = s})})
    IN  [download |-> Sized("Download"), seed |-> Sized("Seed")]

\* What the simulator may start with: torrents that are built, the magnets of
\* them downloading, each once, none of which waits without one that runs, and
\* one at most that is verified.
Specs ==
    LET Whole == {Built(hash, status, list, have, 0) : hash \in Hash,
                    status \in ST, list \in FileLists, have \in 0..Cardinality(File)}
        Magnet == {Built(hash, "Download", [files |-> {}, want |-> {}], 0, 0) :
                     hash \in Hash}
    IN  Whole \cup Magnet

ASSUME DatasetAssumption ==
    \A specs \in Dataset :
        LET Some(s) == {i \in DOMAIN specs : specs[i].status = s}
        IN  /\ specs \in Seq(Specs) /\ Len(specs) <= MaxId
            /\ \A i, j \in DOMAIN specs : specs[i].hash = specs[j].hash => i = j
            /\ Some("DownloadWait") # {} => Some("Download") # {}
            /\ Some("SeedWait") # {} => Some("Seed") # {}
            /\ Some("CheckWait") # {} => Some("Check") # {}
            /\ Cardinality(Some("Check")) <= 1

\* createState.
SimInit ==
    /\ \E specs \in Dataset :
         /\ torrents = BuildTorrents(specs)
         /\ session = BuildSession(torrents)
         /\ nextId = Len(specs) + 1
    /\ removed = {} /\ now = 0 /\ arrivals = 0 /\ pending = <<>>
    /\ polled = 0 /\ dirty = {}

\* materializeMetadata: what a magnet turns out to be.
Materialized(t, list) ==
    [t EXCEPT !.files = list.files, !.want = list.want, !.done = {},
              !.size = Cardinality(list.files), !.valid = 0, !.unchecked = 0,
              !.left = Cardinality(list.files), !.full = FALSE, !.meta = TRUE]

-----------------------------------------------------------------------------
(* tick.ts.                                                                *)

\* wantedRates and applySessionCaps: a torrent moves or is stalled, and what
\* it gains in a tick is up to its rate.
Rates(t) ==
    {<<FALSE, 0>>}
    \cup {<<TRUE, n>> : n \in IF t.status = "Download" THEN 0..t.left ELSE {0}}

\* A verify starts over the bytes that are there.
Unchecked(t) == [t EXCEPT !.unchecked = t.valid, !.valid = 0]

\* The end of a verify: it rejoins the queue.
Verified(t) ==
    LET v == Reconciled([t EXCEPT !.valid = @ + t.unchecked, !.unchecked = 0])
    IN  [v EXCEPT !.status = IF v.prev = "Stopped" THEN "Stopped"
                             ELSE IF v.full THEN "SeedWait" ELSE "DownloadWait",
                  !.moving = FALSE]

\* A running torrent after rate r: complete, at its seeding goal or idle
\* limit, or rechecking itself.  Each with whether it counts as a change.
Ran(t, r) ==
    LET got  == Reconciled([t EXCEPT !.valid = @ + r[2], !.moving = r[1]])
        ends == t.status = "Download" /\ got.left = 0
        on   == IF ends THEN [got EXCEPT !.status = "Seed", !.full = TRUE]
                ELSE got
    IN  {<<on, ends>>}
        \cup IF on.status # "Seed" THEN {}
             ELSE {<<[on EXCEPT !.status = "Stopped", !.moving = FALSE], TRUE>>,
                   <<[Unchecked(on) EXCEPT !.status = "CheckWait",
                                           !.prev = "Seed"], TRUE>>}

\* A magnet that looks for peers, and may learn what it is.
Sought(t) ==
    {[u EXCEPT !.moving = m] : m \in BOOLEAN,
       u \in {t} \cup {Materialized(t, list) : list \in FileLists}}

\* advance: the torrents that t can become in a tick.
Advance(t) ==
    CASE ~t.meta /\ t.status = "Download" -> {<<u, TRUE>> : u \in Sought(t)}
      [] t.meta /\ t.status = "Check" ->
           {<<[t EXCEPT !.moving = FALSE], TRUE>>, <<Verified(t), TRUE>>}
      [] t.meta /\ t.status \in Running ->
           UNION {Ran(t, r) : r \in Rates(t)}
      [] OTHER -> {<<[t EXCEPT !.moving = FALSE], FALSE>>}

\* Mutant: a torrent that goes quiet is not reported a last time.
Stepped_Quiet(t, n) ==
    {[u[1] EXCEPT !.active = IF u[1].moving \/ u[2] THEN n ELSE @,
                  !.moved = u[1].moving] : u \in Advance(t)}

\* The loop of tick: what moves, moved or changed was active.
Stepped(t, n) ==
    {[u[1] EXCEPT !.active = IF u[1].moving \/ t.moved \/ u[2] THEN n ELSE @,
                  !.moved = u[1].moving] : u \in Advance(t)}

\* What a row of the client shows.
Row(t) == [status |-> t.status, valid |-> t.valid, unchecked |-> t.unchecked,
           left |-> t.left, moving |-> t.moving]

\* What a torrent does if nothing happens to it.
Usual(t, n) ==
    CHOOSE u \in Stepped(t, n) :
        /\ u.meta = t.meta /\ u.valid = t.valid
        /\ u.moving = (t.status \in Running)
        /\ u.status \in {t.status, "Seed"}

\* The worlds after a tick, in which something happens to few torrents.
Ticked(ts, n) ==
    LET usual  == [i \in DOMAIN ts |-> Usual(ts[i], n)]
        Few    == {odd \in SUBSET DOMAIN ts : Cardinality(odd) <= MaxOdd}
        Any(odd) == {f \in [odd -> UNION {Stepped(ts[i], n) : i \in odd}] :
                       \A i \in odd : f[i] \in Stepped(ts[i], n)}
    IN  UNION {{[i \in DOMAIN ts |-> IF i \in odd THEN f[i] ELSE usual[i]] :
                  f \in Any(odd)} : odd \in Few}

With(ts, s) == {i \in DOMAIN ts : ts[i].status = s}

\* Mutant: the order is that of the ids, whatever was moved.
Ahead_ById(ts, s, i) == Cardinality({j \in With(ts, s) : j < i})

\* How many of those in state s are before torrent i in the queue.
Ahead(ts, s, i) == Cardinality({j \in With(ts, s) : ts[j].pos < ts[i].pos})

\* Of the torrents that wait, the first ones, into the slots that are free.
Pass(ts, wait, run, slots, n) ==
    LET free == slots - Cardinality(With(ts, run))
    IN  [i \in DOMAIN ts |->
           IF i \in With(ts, wait) /\ (slots = 0 \/ Ahead(ts, wait, i) < free)
           THEN [ts[i] EXCEPT !.status = run, !.active = n]
           ELSE ts[i]]

\* promoteQueue: the two queues, and one verify at a time.
PromoteQueue(ts, s, n) ==
    LET two == Pass(Pass(ts, "DownloadWait", "Download", s.download, n),
                    "SeedWait", "Seed", s.seed, n)
    IN  Pass(two, "CheckWait", "Check", 1, n)

-----------------------------------------------------------------------------
(* server.ts: a request arrives, and is handled when its turn comes.       *)

Becomes(ts) ==
    /\ torrents' = ts
    /\ dirty' = dirty \cup {i \in SimId :
                  \/ (i \in DOMAIN torrents) # (i \in DOMAIN ts)
                  \/ /\ i \in DOMAIN ts /\ i \in DOMAIN torrents
                     /\ Row(ts[i]) # Row(torrents[i])}

\* trimRemoved.
Trimmed(rs, n) == {r \in rs : r.at >= n - 2 * RecentWindow}

\* The request handler up to its await: tick, and then the gate.
Arrive ==
    /\ arrivals < MaxArrivals /\ Len(pending) < MaxPending
    /\ arrivals + Cardinality(DOMAIN torrents) < MaxWork
    /\ \E n \in now..MaxNow :
         /\ now' = n
         /\ pending' = Append(pending, n)
         /\ \/ /\ \E ts \in Ticked(torrents, n) :
                    Becomes(PromoteQueue(ts, session, n))
               /\ removed' = Trimmed(removed, n)
            \/ \* Within the same millisecond nothing is ticked.
               n = now /\ UNCHANGED <<torrents, dirty, removed>>
    /\ arrivals' = arrivals + 1
    /\ UNCHANGED <<session, nextId, polled>>

\* A request is handled with the time at which it arrived.
Turn == pending # <<>> /\ pending' = Tail(pending)

Stamp == Head(pending)

Kept == UNCHANGED <<session, removed, nextId, now, arrivals, polled>>

\* touch.
Touched(ts, ids) == [i \in DOMAIN ts |-> IF i \in ids
                                         THEN [ts[i] EXCEPT !.active = Stamp]
                                         ELSE ts[i]]

-----------------------------------------------------------------------------
(* handlers.ts.  ids is selected(): some of the torrents there are.        *)

\* With torrents ids changed to what they are in ts, they are touched, and the
\* queue moves on.
Write(ids, ts) ==
    /\ Turn /\ Kept
    /\ Becomes(PromoteQueue(Touched(ts, ids), session, Stamp))

Startable(ids) == {i \in ids : ~IsChecking(torrents[i])}

\* torrent_start.
Started(t) == [t EXCEPT !.status = IF t.full /\ t.meta THEN "SeedWait"
                                   ELSE "DownloadWait"]

Start(ids) ==
    Write(Startable(ids),
          [i \in DOMAIN torrents |-> IF i \in Startable(ids)
                                     THEN Started(torrents[i]) ELSE torrents[i]])

\* torrent_start_now: each goes to the top, one after the other, and runs.
StartedNow(t) == [t EXCEPT !.status = IF t.full /\ t.meta THEN "Seed"
                                      ELSE "Download"]

StartNow(ids) ==
    Write(Startable(ids),
          RenumberQueue([i \in DOMAIN torrents |->
            IF i \in Startable(ids) THEN [StartedNow(torrents[i]) EXCEPT !.pos = -i]
            ELSE torrents[i]]))

\* Mutant: the bytes of a verify that is cancelled stay unchecked.
Stopped_Strands(t) == [t EXCEPT !.status = "Stopped", !.moving = FALSE]

\* Stopping cancels a verify, and folds its bytes back.
Stopped(t) ==
    LET u == IF IsChecking(t)
             THEN Reconciled([t EXCEPT !.valid = @ + t.unchecked,
                                       !.unchecked = 0])
             ELSE t
    IN  [u EXCEPT !.status = "Stopped", !.moving = FALSE]

Stop(ids) ==
    Write(ids, [i \in DOMAIN torrents |-> IF i \in ids THEN Stopped(torrents[i])
                                          ELSE torrents[i]])

\* torrent_verify, on a torrent that is being verified too.
Verifying(t) ==
    [Unchecked(t) EXCEPT !.status = "CheckWait",
                         !.prev = IF t.status = "Stopped" THEN "Stopped"
                                  ELSE IF t.full THEN "Seed" ELSE "Download"]

Verify(ids) ==
    Write(ids, [i \in DOMAIN torrents |-> IF i \in ids THEN Verifying(torrents[i])
                                          ELSE torrents[i]])

\* torrent_reannounce, torrent_set_location, torrent_rename_path: nothing of
\* what is modelled changes but the time of the last activity.
Touch(ids) ==
    /\ Turn /\ Kept
    /\ ids \subseteq DOMAIN torrents
    /\ Becomes(Touched(torrents, ids))

\* torrent_remove.
TorrentRemove(ids) ==
    /\ Turn
    /\ ids \subseteq DOMAIN torrents
    /\ removed' = removed \cup [id : ids, at : {Stamp}]
    /\ Becomes(PromoteQueue(
         RenumberQueue([i \in DOMAIN torrents \ ids |-> torrents[i]]),
         session, Stamp))
    /\ UNCHANGED <<session, nextId, now, arrivals, polled>>

\* torrent_set.  The totals are taken from the file table.
WithWanted(t, on, off) ==
    LET want == (t.want \cup (on \cap t.files)) \ off
    IN  Reconciled([t EXCEPT !.want = want, !.size = Cardinality(want),
                             !.valid = Cardinality(want \cap t.done)])

TorrentSet(ids, on, off) ==
    /\ Turn /\ Kept
    /\ ids \subseteq DOMAIN torrents
    /\ Becomes(Touched([i \in DOMAIN torrents |->
                          IF i \in ids THEN WithWanted(torrents[i], on, off)
                          ELSE torrents[i]], ids))

\* Torrent i, which moves, passes torrent x, which does not: to the top or the
\* bottom all there are, and by one place the next one, unless only torrents
\* that move are between the two, which pass it as well.
Passes(ts, where, ids, i, x) ==
    LET Between == {k \in DOMAIN ts : \/ ts[i].pos < ts[k].pos /\ ts[k].pos < ts[x].pos
                                      \/ ts[x].pos < ts[k].pos /\ ts[k].pos < ts[i].pos}
    IN  /\ i \in ids /\ x \notin ids
        /\ IF where \in {"top", "up"} THEN ts[x].pos < ts[i].pos
                                      ELSE ts[i].pos < ts[x].pos
        /\ where \in {"up", "down"} => Between \subseteq ids

\* queueMove: who is first of two torrents changes when one passes the other.
QueueMove(ts, where, ids) ==
    [i \in DOMAIN ts |->
       [ts[i] EXCEPT !.pos = Cardinality({j \in DOMAIN ts \ {i} :
          IF Passes(ts, where, ids, i, j) \/ Passes(ts, where, ids, j, i)
          THEN ts[i].pos < ts[j].pos ELSE ts[j].pos < ts[i].pos})]]

Move(where, ids) == Write(ids, QueueMove(torrents, where, ids))

\* session_set: a bigger queue takes effect at once.
SessionSet(s) ==
    /\ Turn
    /\ session' = s
    /\ Becomes(PromoteQueue(torrents, s, Stamp))
    /\ UNCHANGED <<removed, nextId, now, arrivals, polled>>

\* newTorrent and the end of addTorrent: it is queued, unless it is paused.
Added(hash, list, off, paused) ==
    LET t == Built(hash, IF paused THEN "Stopped" ELSE "Download", list, 0, Stamp)
        u == Reconciled([t EXCEPT !.want = @ \ off,
                                  !.size = Cardinality(t.want \ off)])
    IN  [WithSimFields(u) EXCEPT !.status = IF paused THEN @ ELSE "DownloadWait",
                                 !.pos = Cardinality(DOMAIN torrents)]

\* torrent_add, of a magnet if the file list is empty.
Add(hash, list, off, paused) ==
    /\ Turn /\ nextId <= MaxId
    /\ IF \E i \in DOMAIN torrents : torrents[i].hash = hash
       THEN UNCHANGED <<torrents, dirty, nextId>>
       ELSE /\ Becomes(PromoteQueue(
                 RenumberQueue([i \in DOMAIN torrents \cup {nextId} |->
                   IF i = nextId THEN Added(hash, list, off, paused)
                   ELSE torrents[i]]),
                 session, Stamp))
            /\ nextId' = nextId + 1
    /\ UNCHANGED <<session, removed, now, arrivals, polled>>

\* torrent_get of the client, for all torrents or, within a window of its last
\* one, for the recent ones.  A poll that waited behind a delete until the
\* removals since the last one are no longer remembered is none of these.
TorrentGet(full) ==
    /\ Turn
    /\ full \/ /\ Stamp - polled <= RecentWindow
               /\ now - polled <= 2 * RecentWindow
    /\ LET cut  == Stamp - RecentWindow
           told == IF full THEN SimId
                   ELSE {i \in DOMAIN torrents : torrents[i].active >= cut}
                        \cup {r.id : r \in {r \in removed : r.at >= cut}}
       IN  dirty' = dirty \ told
    /\ polled' = Stamp
    /\ UNCHANGED <<torrents, session, removed, nextId, now, arrivals>>

Where == {"top", "bottom", "up", "down"}

Handle ==
    \/ \E ids \in {{i} : i \in DOMAIN torrents} \cup {DOMAIN torrents} :
         \/ Start(ids) \/ StartNow(ids) \/ Stop(ids) \/ Verify(ids)
         \/ TorrentRemove(ids) \/ Touch(ids)
    \/ \E i \in DOMAIN torrents, f \in File :
         TorrentSet({i}, {f}, {}) \/ TorrentSet({i}, {}, {f})
    \/ \E ids \in SUBSET DOMAIN torrents, where \in Where : Move(where, ids)
    \/ \E q \in {"download", "seed"}, n \in 0..2 :
         SessionSet([session EXCEPT ![q] = n])
    \/ \E hash \in Addable, paused \in BOOLEAN, off \in {{}} \cup {{f} : f \in File},
         files \in {{}, File} :
         Add(hash, [files |-> files, want |-> files], off, paused)
    \/ \E full \in BOOLEAN : TorrentGet(full)

SimNext == Arrive \/ Handle

SimSpec == SimInit /\ [][SimNext]_simVars

-----------------------------------------------------------------------------
\* Every variable has its type, and no two torrents have one hash.
SimTypeOK ==
    /\ DOMAIN torrents \subseteq 1..(nextId - 1)
    /\ \A i \in DOMAIN torrents : torrents[i] \in Torrent
    /\ \A i, j \in DOMAIN torrents : torrents[i].hash = torrents[j].hash => i = j
    /\ session \in Session
    /\ removed \in SUBSET [id : SimId, at : Nat]
    /\ nextId \in 1..(MaxId + 1)
    /\ now \in 0..MaxNow /\ arrivals \in 0..MaxArrivals
    /\ pending \in Seq(0..MaxNow)
    /\ polled \in 0..MaxNow /\ dirty \in SUBSET SimId

\* Every torrent that is not being verified adds up, with nothing left in
\* have_unchecked, whichever way its last verify ended.
Accounted ==
    \A i \in DOMAIN torrents :
        LET t == torrents[i]
        IN  t.meta /\ ~IsChecking(t)
              => t.valid + t.left = t.size /\ t.unchecked = 0

\* The queue positions are 0 to n-1, whatever was moved, added or removed.
Contiguous ==
    {torrents[i].pos : i \in DOMAIN torrents} = 0..(Cardinality(DOMAIN torrents) - 1)

Queues == {[wait |-> "DownloadWait", run |-> "Download", slots |-> session.download],
           [wait |-> "SeedWait", run |-> "Seed", slots |-> session.seed],
           [wait |-> "CheckWait", run |-> "Check", slots |-> 1]}

\* No torrent waits for a slot that is free, and one at most is verified.
NoIdleSlot ==
    /\ \A q \in Queues :
         With(torrents, q.wait) # {} =>
             /\ q.slots # 0 /\ Cardinality(With(torrents, q.run)) >= q.slots
    /\ Cardinality(With(torrents, "Check")) <= 1

\* What runs that came out of a queue is ahead of everyone who stays in it.
FirstComesFirst ==
    \A i, j \in DOMAIN torrents \cap DOMAIN torrents' :
        \A q \in Queues :
            /\ torrents[i].status = q.wait /\ torrents'[i].status = q.run
            /\ torrents[j].status = q.wait /\ torrents'[j].status = q.wait
            => torrents'[i].pos < torrents'[j].pos

\* The queue works: contiguous, served in order, and never idle after a
\* request, however torrents come, go, stop, finish or are verified.
QueueServed == [](Contiguous /\ NoIdleSlot) /\ [][FirstComesFirst]_simVars

\* A client that polls at least once per window misses nothing by asking for
\* what was recently active: whatever changed since its last poll will be in
\* the next answer, with the frame in which a torrent goes quiet
\* (tick.ts:39), and a removal is remembered for two windows.
DeltaTells ==
    \A i \in dirty :
        IF i \in DOMAIN torrents THEN torrents[i].active >= polled
        ELSE now - polled <= 2 * RecentWindow
               => \E r \in removed : r.id = i /\ r.at >= polled

\* The torrents are of their type and add up.
TorrentsSound == SimTypeOK /\ Accounted
=============================================================================

------------------------------ MODULE PollLoop ------------------------------
(***************************************************************************)
(* The polling of ui/src/state/store.ts: startPolling, pollOnce,           *)
(* refreshNow, refreshSession and mergeTorrents, against a daemon whose    *)
(* torrents and session change between any two answers.                    *)
(*                                                                         *)
(* A clock `now' counts the daemon's changes, and everything shown carries *)
(* the time of the change it shows: list[i] is the version of torrent i's  *)
(* row (None: no row), session that of the session.  ticks is kept modulo  *)
(* FullEvery, the longest period it is compared with.  The statistics,     *)
(* free space and the inspector's fields are left out: refreshDetail and   *)
(* refreshFreeSpace never fail the pass and touch nothing modelled here.   *)
(***************************************************************************)
EXTENDS Naturals

CONSTANTS
    Id,            \* torrent ids
    Slot,          \* bound: session reads of passes in flight together
    FullEvery,     \* FULL_EVERY, 30
    SessionEvery,  \* SESSION_EVERY, 15
    None,
    MaxNow,        \* bound: changes in the daemon
    MaxFails       \* bound: passes and session reads that fail

Read == Slot \cup {"boot"}   \* "boot" is the read startPolling makes

VARIABLES
    now, torrent, recent, setting,        \* the daemon
    list, session, connection,            \* the snapshot
    ticks, forceFull, pollAgain, sessionFresh,
    started,                              \* startPolling
    armed,                                \* timeouts that will call pollOnce
    pass,                                 \* the poll in flight
    reads,                                \* the session_get calls in flight
    asked, served,                        \* history: refreshNow
    fails

daemon == <<now, torrent, recent, setting>>
shown  == <<list, session, connection>>
flags  == <<ticks, forceFull, pollAgain, sessionFresh, started, armed>>
vars   == <<daemon, shown, flags, pass, reads, asked, served, fails>>

Versions == Nat \cup {None}
Row     == [at : Nat, here : BOOLEAN]
Pass(S) == [forced : BOOLEAN, full : BOOLEAN, read : Slot \cup {None},
            rows : [S -> Versions] \cup {None}, need : Nat]

ASSUME PollAssumption ==
    /\ SessionEvery \in Nat \ {0} /\ FullEvery \in Nat \ {0}
    /\ FullEvery % SessionEvery = 0
    /\ MaxNow \in Nat /\ MaxFails \in Nat
    /\ None \notin Nat /\ "boot" \notin Slot /\ None \notin Slot
    /\ \A S \in SUBSET Id : None \notin Pass(S) \cup [S -> Versions]

\* What a list row shows of a torrent.
Shown(t) == IF t.here THEN t.at ELSE None

Init ==
    /\ now = 1
    /\ torrent \in [Id -> [at : {1}, here : BOOLEAN]]
    /\ recent \in SUBSET Id
    /\ setting = 1
    /\ list = [i \in Id |-> None] /\ session = None
    /\ connection = "connecting"
    /\ ticks = 0 /\ forceFull = TRUE /\ pollAgain = FALSE
    /\ sessionFresh = FALSE /\ started = "no" /\ armed = 0
    /\ pass = None
    /\ reads = [s \in Read |-> None]
    /\ asked = 0 /\ served = 0 /\ fails = 0

-----------------------------------------------------------------------------
(* pollOnce.  A pass sends its calls at once and takes note of what it is. *)

\* Mutant: a forced pass is not a full one.
IsFull_Timed(force, t) == t % FullEvery = 0

\* Mutant: only refreshNow makes a pass full.
IsFull_Forced(force, t) == force

IsFull(force, t) == force \/ t % FullEvery = 0

\* The start of a pass, with these values of forceFull, ticks, sessionFresh.
Begin(force, t, fresh) ==
    /\ forceFull' = FALSE
    /\ \E s \in Slot \cup {None} :
         /\ s = None <=> fresh \/ ~(force \/ t % SessionEvery = 0)
         /\ pass' = [forced |-> force, full |-> IsFull(force, t), read |-> s,
                     rows |-> None, need |-> asked']
         /\ IF s = None THEN reads' = reads
            ELSE /\ reads[s] = None
                 /\ reads' = [reads EXCEPT ![s] = [ver |-> None]]

\* Mutant: pollOnce leaves the timeout that is armed.
Cleared_Not(n) == n

\* The timeouts left after pollOnce cleared the one that `timer' names.
Cleared(n) == 0

\* pollOnce: a call while a pass is in flight only asks for one more.
PollOnce(force, fresh) ==
    \/ /\ pass # None
       /\ pollAgain' = TRUE /\ forceFull' = force
       /\ UNCHANGED <<armed, pass, reads>>
    \/ /\ pass = None
       /\ armed' = Cleared(armed)
       /\ Begin(force, ticks, fresh)
       /\ pollAgain' = pollAgain

\* The read of startPolling goes first and alone.
StartPolling ==
    /\ started = "no"
    /\ started' = "session"
    /\ reads' = [reads EXCEPT !["boot"] = [ver |-> None]]
    /\ UNCHANGED <<daemon, shown, ticks, forceFull, pollAgain, sessionFresh,
                   armed, pass, asked, served, fails>>

\* refreshSession ends: with an answer, or, caught, without one.
ReadEnds(s) ==
    /\ reads[s] # None
    /\ \/ /\ reads[s].ver # None
          /\ session' = reads[s].ver
          /\ fails' = fails
       \/ /\ fails < MaxFails /\ fails' = fails + 1
          /\ session' = session

\* A pass's own read, or that of a pass that failed meanwhile.
SessionRead(s) ==
    /\ s \in Slot
    /\ ReadEnds(s)
    /\ reads' = [reads EXCEPT ![s] = None]
    /\ UNCHANGED <<daemon, list, connection, flags, pass, asked, served>>

\* startPolling's own: then comes the first poll, unless coming back to the
\* tab has started one.  Its slot keeps the answer: it is used once.
BootRead ==
    /\ started = "session"
    /\ ReadEnds("boot")
    /\ started' = "done"
    /\ sessionFresh' = (session' # None)
    /\ asked' = asked
    /\ PollOnce(forceFull, sessionFresh')
    /\ UNCHANGED <<daemon, list, connection, ticks, served>>

\* The timeout fires.
Fire ==
    /\ armed > 0 /\ pass = None
    /\ armed' = Cleared(armed - 1)
    /\ asked' = asked
    /\ Begin(forceFull, ticks, sessionFresh)
    /\ UNCHANGED <<daemon, shown, ticks, pollAgain, sessionFresh, started,
                   served, fails>>

\* The user comes back to the tab.
Visible ==
    /\ started # "no"
    /\ asked' = asked
    /\ PollOnce(forceFull, sessionFresh)
    /\ UNCHANGED <<daemon, shown, ticks, sessionFresh, started, served, fails>>

\* Every write ends in it.
RefreshNow ==
    /\ started # "no"
    /\ asked' = now
    /\ PollOnce(TRUE, sessionFresh)
    /\ UNCHANGED <<daemon, shown, ticks, sessionFresh, started, served, fails>>

\* The finally block: one more pass if one was asked for, else a timeout,
\* else, signed out, nothing.
Finally(force, fresh) ==
    /\ ticks' = (ticks + 1) % FullEvery
    /\ pollAgain' = FALSE
    /\ \/ /\ pollAgain
          /\ armed' = Cleared(armed)
          /\ Begin(force, ticks', fresh)
       \/ /\ ~pollAgain
          /\ forceFull' = force /\ pass' = None /\ reads' = reads
          /\ armed' = IF connection' = "unauthorized" THEN armed ELSE armed + 1

\* mergeTorrents: a full answer replaces the list, a delta updates it.
Merged(rows) == [i \in Id |-> IF i \in DOMAIN rows THEN rows[i] ELSE list[i]]

\* All of the pass's calls were answered.
PassDone ==
    /\ pass # None /\ pass.rows # None
    /\ pass.read # None => reads[pass.read] = None
    /\ list' = Merged(pass.rows)
    /\ connection' = "ok"
    /\ sessionFresh' = FALSE
    /\ served' = IF pass.forced THEN pass.need ELSE served
    /\ asked' = asked
    /\ Finally(forceFull, FALSE)
    /\ UNCHANGED <<daemon, session, started, fails>>

\* Mutant: a failed full pass is no longer owed.
PassFailed_Forgets(c) ==
    /\ pass # None /\ fails < MaxFails
    /\ fails' = fails + 1
    /\ connection' = c
    /\ asked' = asked
    /\ Finally(forceFull, sessionFresh)
    /\ UNCHANGED <<daemon, list, session, sessionFresh, started, served>>

\* One of them failed.  A session read may go on alone.
PassFailed(c) ==
    /\ pass # None /\ fails < MaxFails
    /\ fails' = fails + 1
    /\ connection' = c
    /\ asked' = asked
    /\ Finally(forceFull \/ pass.forced, sessionFresh)
    /\ UNCHANGED <<daemon, list, session, sessionFresh, started, served>>

-----------------------------------------------------------------------------
(* The daemon (external): what it answers, and what happens to it.         *)

\* torrent_get, all of them or the recently active and removed ones.
RowsAnswered ==
    /\ pass # None /\ pass.rows = None
    /\ pass' = [pass EXCEPT !.rows =
                  [i \in IF pass.full THEN Id ELSE recent |-> Shown(torrent[i])]]
    /\ UNCHANGED <<daemon, shown, flags, reads, asked, served, fails>>

\* session_get.
SessionAnswered(s) ==
    /\ reads[s] = [ver |-> None]
    /\ reads' = [reads EXCEPT ![s] = [ver |-> setting]]
    /\ UNCHANGED <<daemon, shown, flags, pass, asked, served, fails>>

Happens == now < MaxNow /\ now' = now + 1

\* A torrent comes, changes or goes.
TorrentChanges(i, here) ==
    /\ Happens
    /\ torrent[i].here \/ here
    /\ torrent' = [torrent EXCEPT ![i] = [at |-> now', here |-> here]]
    /\ recent' = recent \cup {i}
    /\ UNCHANGED <<setting, shown, flags, pass, reads, asked, served, fails>>

SessionChanges ==
    /\ Happens
    /\ setting' = now'
    /\ UNCHANGED <<torrent, recent, shown, flags, pass, reads, asked, served,
                   fails>>

\* A change is no longer recent: nothing says a poll comes before that.
Ages(i) ==
    /\ i \in recent
    /\ recent' = recent \ {i}
    /\ UNCHANGED <<now, torrent, setting, shown, flags, pass, reads, asked,
                   served, fails>>

\* The daemon restarts: other torrents may have the ids, and the torrents
\* that are gone are not in `removed'.
DaemonRestart(has) ==
    /\ Happens
    /\ torrent' = [i \in Id |-> [at |-> now', here |-> i \in has]]
    /\ recent' = has
    /\ UNCHANGED <<setting, shown, flags, pass, reads, asked, served, fails>>

-----------------------------------------------------------------------------
Client ==
    \/ StartPolling \/ BootRead \/ Fire \/ PassDone
    \/ \E s \in Slot : SessionRead(s)

Daemon == RowsAnswered \/ \E s \in Read : SessionAnswered(s)

Change ==
    \/ \E i \in Id, here \in BOOLEAN : TorrentChanges(i, here)
    \/ SessionChanges
    \/ \E i \in Id : Ages(i)
    \/ \E has \in SUBSET Id : DaemonRestart(has)

Next ==
    \/ Client \/ Daemon \/ Change \/ Visible \/ RefreshNow
    \/ PassFailed("error") \/ PassFailed("unauthorized")

Spec == Init /\ [][Next]_vars

\* Every call is answered or fails, and a timeout fires.
Fairness ==
    /\ WF_vars(StartPolling) /\ WF_vars(BootRead) /\ WF_vars(Fire)
    /\ WF_vars(PassDone) /\ WF_vars(RowsAnswered)
    /\ \A s \in Slot : WF_vars(SessionRead(s))
    /\ \A s \in Read : WF_vars(SessionAnswered(s))

FairSpec == Spec /\ Fairness

-----------------------------------------------------------------------------
\* Every variable has its type.
TypeOK ==
    /\ now \in Nat /\ setting \in Nat
    /\ torrent \in [Id -> Row] /\ recent \in SUBSET Id
    /\ list \in [Id -> Versions] /\ session \in Versions
    /\ connection \in {"connecting", "ok", "unauthorized", "error"}
    /\ ticks \in 0..(FullEvery - 1)
    /\ forceFull \in BOOLEAN /\ pollAgain \in BOOLEAN
    /\ sessionFresh \in BOOLEAN
    /\ started \in {"no", "session", "done"}
    /\ armed \in Nat
    /\ pass = None \/ \E S \in SUBSET Id : pass \in Pass(S)
    /\ reads \in [Read -> [ver : Versions] \cup {None}]
    /\ asked \in Nat /\ served \in Nat /\ fails \in Nat

\* "Exactly one poll chain" (store.ts:271): a pass in flight or one timeout,
\* never both, never two; and never none, except before the first poll and
\* while the user is signed out.
OneChain ==
    /\ armed = 0 \/ (armed = 1 /\ pass = None)
    /\ started = "done" /\ pass = None /\ armed = 0
         => connection = "unauthorized"

\* The state is of its type and there is one chain.
Consistent == TypeOK /\ OneChain

\* Once the pass that refreshNow asked for is merged, the list shows every
\* torrent as it was when refreshNow was called, or newer; the deltas that
\* follow, whatever they miss, never take that back.
RefreshServed ==
    \A i \in Id : torrent[i].at <= served => list[i] = Shown(torrent[i])

\* "Run a full pass now (after any write): torrents, session, free space,
\* inspector" (store.ts:379): the pass that serves a refreshNow reads the
\* session.
RefreshReadsSession ==
    pass # None /\ pass.forced /\ pass.need > 0 => pass.read # None

\* What refreshNow asked for comes in the end, even when its pass fails, or
\* the user is signed out.
RefreshComes ==
    \A n \in 1..MaxNow :
        asked = n ~> served >= n \/ connection = "unauthorized"

\* When the daemon comes to rest, the list and the session come to show it:
\* what the deltas missed, because it aged before a poll or the daemon
\* restarted, a full pass brings.
Converges ==
    <>[](\/ connection = "unauthorized"
         \/ list = [i \in Id |-> Shown(torrent[i])] /\ session = setting)
=============================================================================

--------------------------- MODULE TrackerHealth ---------------------------
(***************************************************************************)
(* How the client judges trackers: classifyAnnounce, usedTrackers,         *)
(* computeHealth and the memory of outages of ui/src/lib/model.ts, which   *)
(* are computed again whenever mergeTorrents of ui/src/state/store.ts      *)
(* makes a new list, against a daemon that announces and scrapes.          *)
(*                                                                         *)
(* A tracker is its host.  What an announce was answered is one of the     *)
(* four classes of classifyAnnounce.  The memory of outages is the one     *)
(* localStorage keeps: every change of it is written.                      *)
(***************************************************************************)
EXTENDS Naturals, FiniteSets, FiniteSetsExt

CONSTANTS
    Torrent,
    Host,
    Uses,          \* the trackers of each torrent
    DownAfter,     \* DOWN_AFTER_S
    ClockEvery,    \* CLOCK_EVERY
    None,
    MaxNow,        \* bound: time
    MaxAnnounces,  \* bound: announces and scrapes
    MaxReloads     \* bound: reloads of the page, and torrents that go

ASSUME HealthAssumption ==
    /\ Uses \in [Torrent -> SUBSET Host]
    /\ {DownAfter, MaxNow, MaxAnnounces, MaxReloads} \subseteq Nat
    /\ ClockEvery \in Nat \ {0} /\ None \notin Nat

VARIABLES
    now,
    stat,           \* the daemon's tracker_stats, of each torrent there is
    rows,           \* the list: those that were last polled
    ticks,
    firstFailing,   \* since when each host is known to fail
    health,         \* lastHealth: what was computed for rows
    down,           \* history: hosts found down, and failing ever since
    announces, reloads

healthVars == <<now, stat, rows, ticks, firstFailing, health, down, announces, reloads>>

Class  == {"ok", "tracker", "torrent", "rejected"}
Silent == [announced |-> FALSE, result |-> "ok", at |-> 0, scrape |-> None]

-----------------------------------------------------------------------------
(* model.ts.                                                               *)

classifyAnnounce(ts) == IF ts.announced THEN ts.result ELSE "ok"

\* A tracker that never announced while a sibling did is a backup.
usedTrackers(t) ==
    LET active == {h \in DOMAIN t : t[h].announced}
    IN  IF active # {} THEN active ELSE DOMAIN t

usesTracker(t, h) == h \in usedTrackers(t)

\* Of the torrents with these rows: those that announce to h, and fail.
Announced(list, h) ==
    {i \in DOMAIN list : usesTracker(list[i], h) /\ list[i][h].announced}

Failing(list, h) ==
    {i \in Announced(list, h) :
       classifyAnnounce(list[i][h]) \in {"tracker", "rejected"}}

Rejected(list, h) ==
    {i \in Announced(list, h) : classifyAnnounce(list[i][h]) = "rejected"}

\* Stopped torrents never announce: they say nothing about the tracker.
AllFailing(list, h) ==
    Announced(list, h) # {} /\ Failing(list, h) = Announced(list, h)

\* Since when: a failed scrape is older evidence.
Evidence(list, h) ==
    UNION {{list[i][h].at, list[i][h].scrape} \ {None} : i \in Failing(list, h)}

\* Mutant: the last announce tells since when.
Remembered_Latest(list, h) ==
    IF AllFailing(list, h) THEN Min(Evidence(list, h)) ELSE None

\* rememberFailing and forgetFailing.  Before the first poll nothing is known.
Remembered(list, h) ==
    IF DOMAIN list = {} THEN firstFailing[h]
    ELSE IF AllFailing(list, h)
    THEN Min(Evidence(list, h) \cup ({firstFailing[h]} \ {None}))
    ELSE None

Health(list, h) ==
    IF Rejected(list, h) # {} /\ Rejected(list, h) = Announced(list, h)
    THEN "rejected"
    ELSE IF AllFailing(list, h) /\ now >= Remembered(list, h) + DownAfter
    THEN "down"
    ELSE IF \E i \in Announced(list, h) : classifyAnnounce(list[i][h]) # "ok"
    THEN "issues"
    ELSE "ok"

\* computeHealth, for a new list.
Compute(list) ==
    /\ rows' = list
    /\ health' = [h \in Host |-> Health(list, h)]
    /\ firstFailing' = [h \in Host |-> Remembered(list, h)]
    /\ down' = IF DOMAIN list = {} THEN down
               ELSE {h \in Host : /\ AllFailing(list, h)
                                  /\ health'[h] = "down" \/ h \in down}

-----------------------------------------------------------------------------
HealthInit ==
    /\ now = 0
    /\ stat = [t \in Torrent |-> [h \in Uses[t] |-> Silent]]
    /\ rows = <<>> /\ ticks = 0
    /\ firstFailing = [h \in Host |-> None]
    /\ health = [h \in Host |-> "ok"]
    /\ down = {} /\ announces = 0 /\ reloads = 0

\* Mutant: a list in which nothing changed is never made anew.
Merge_Quiet ==
    /\ ticks' = (ticks + 1) % ClockEvery
    /\ \/ Compute(stat)
       \/ stat = rows /\ UNCHANGED <<rows, health, firstFailing, down>>
    /\ stat # rows \/ UNCHANGED <<rows, health, firstFailing, down>>
    /\ UNCHANGED <<now, stat, announces, reloads>>

\* A poll, mergeTorrents: a list in which nothing changed is made anew every
\* few ticks, when the poll was a full one, or when a torrent was active.
Merge ==
    /\ ticks' = (ticks + 1) % ClockEvery
    /\ \/ Compute(stat)
       \/ /\ stat = rows /\ ticks # 0
          /\ UNCHANGED <<rows, health, firstFailing, down>>
    /\ UNCHANGED <<now, stat, announces, reloads>>

\* The page is loaded again: of all this, localStorage keeps firstFailing.
Reload ==
    /\ reloads < MaxReloads /\ reloads' = reloads + 1
    /\ ticks' = 0
    /\ Compute(<<>>)
    /\ UNCHANGED <<now, stat, announces>>

Passes ==
    /\ now < MaxNow /\ now' = now + 1
    /\ UNCHANGED <<stat, rows, ticks, firstFailing, health, down, announces, reloads>>

-----------------------------------------------------------------------------
(* The daemon (external).                                                  *)

Client == UNCHANGED <<now, rows, ticks, firstFailing, health, down>>

\* A torrent announces to one of its trackers.
Announce(t, h, result) ==
    /\ announces < MaxAnnounces /\ announces' = announces + 1
    /\ t \in DOMAIN stat /\ h \in Uses[t]
    /\ stat' = [stat EXCEPT ![t][h] =
                  [announced |-> TRUE, result |-> result, at |-> now,
                   scrape |-> @.scrape]]
    /\ Client /\ UNCHANGED reloads

\* It scrapes one: a scrape that succeeds is no evidence.
Scrape(t, h, ok) ==
    /\ announces < MaxAnnounces /\ announces' = announces + 1
    /\ t \in DOMAIN stat /\ h \in Uses[t]
    /\ ok => stat[t][h].scrape # None
    /\ stat' = [stat EXCEPT ![t][h].scrape = IF ok THEN None ELSE now]
    /\ Client /\ UNCHANGED reloads

\* A torrent is removed, or the daemon is restarted with it stopped.
Goes(t) ==
    /\ reloads < MaxReloads /\ reloads' = reloads + 1
    /\ t \in DOMAIN stat
    /\ \/ stat' = [i \in DOMAIN stat \ {t} |-> stat[i]]
       \/ stat' = [stat EXCEPT ![t] = [h \in Uses[t] |-> Silent]]
    /\ Client /\ UNCHANGED announces

HealthNext ==
    \/ Merge \/ Reload \/ Passes
    \/ \E t \in Torrent, h \in Host :
         \/ \E result \in Class : Announce(t, h, result)
         \/ \E ok \in BOOLEAN : Scrape(t, h, ok)
    \/ \E t \in Torrent : Goes(t)

HealthSpec == HealthInit /\ [][HealthNext]_healthVars

\* Polls go on, and time does.
HealthFairSpec == HealthSpec /\ WF_healthVars(Merge) /\ WF_healthVars(Passes)

-----------------------------------------------------------------------------
\* Every variable has its type, and what is remembered is in the past.
HealthTypeOK ==
    /\ now \in 0..MaxNow /\ ticks \in 0..(ClockEvery - 1)
    /\ DOMAIN stat \subseteq Torrent /\ DOMAIN rows \subseteq Torrent
    /\ firstFailing \in [Host -> 0..now \cup {None}]
    /\ health \in [Host -> {"ok", "issues", "down", "rejected"}]
    /\ down \subseteq Host

\* A tracker found down stays down as long as everything fails there: no
\* announce made meanwhile, no reload of the page starts the clock again
\* (model.ts:102, 170).
StaysDown ==
    \A h \in down : rows # <<>> => health[h] \in {"down", "rejected"}

\* "a failing tracker turns from issues into down ten minutes in, with no
\* torrent changing" (store.ts:213): the clock alone is enough.
DownShown ==
    \A h \in Host :
        LET Out == /\ AllFailing(stat, h)
                   /\ \E e \in Evidence(stat, h) : e + DownAfter <= MaxNow
        IN  <>[]Out => <>[](health[h] \in {"down", "rejected"})

\* The state is of its type, and what is down stays down.
OutagesKept == HealthTypeOK /\ StaysDown
=============================================================================

--------------------------- MODULE RemovalProofs ---------------------------
(***************************************************************************)
(* Proofs about Removal, for any torrents, any number of runs and of       *)
(* failures: what the bar shows, and what a stopped run may still do.      *)
(*                                                                         *)
(* Proofs about SimDaemon, which does the removing when the UI runs on the *)
(* simulator, for any torrents, files, requests and window: what its       *)
(* torrents add up to, how its queues are served, what a poll is told.     *)
(***************************************************************************)
EXTENDS Removal, SimDaemon, SequenceTheorems, FiniteSetTheorems, TLAPS

\* Tokens are given out once, in order.
TokensSpent ==
    /\ \A t \in Token : loop[t] # None => t <= runs
    /\ removing # None => removing.token <= runs
    /\ \A t \in halted : t <= runs

\* The batch of the run on the screen is what is done, what its loop awaits,
\* and what its loop has yet to do.
Parts(r, l) ==
    /\ r.active = l.id
    /\ l.id \notin r.done /\ l.id \notin l.todo /\ l.todo \cap r.done = {}
    /\ r.ids = r.done \cup l.todo \cup {l.id}

\* ... and without a loop it has come to its end, and has failures.
Rest(r) == r.active = None /\ r.failed # {} /\ (r.done = r.ids \/ r.stopped)

OnScreen ==
    removing # None =>
        /\ loop[removing.token] # None => Parts(removing, loop[removing.token])
        /\ loop[removing.token] = None => Rest(removing)

\* A run is shown as stopped when the user stopped it.
StoppedKnown == removing # None => (removing.stopped <=> removing.token \in halted)

\* What the daemon said it removed is gone.
RemovedGone ==
    /\ \A t \in Token : loop[t] # None /\ loop[t].reply = "ok" => loop[t].id \notin has
    /\ removing # None => (removing.done \ removing.failed) \cap has = {}

\* The inductive invariant.
IInv ==
    TypeOK /\ OneRun /\ InspectorShows /\ TokensSpent /\ OnScreen /\ StoppedKnown
      /\ RemovedGone

LEMMA NoneApart == None \notin Id /\ None \notin Removing /\ None \notin Loop
  BY RemovalAssumption

LEMMA InvInit == Init => IInv
<1> SUFFICES ASSUME Init PROVE IInv
  OBVIOUS
<1> USE DEF Init
<1>1. TypeOK
  <2>1. runs \in 0..MaxRuns
    BY RemovalAssumption
  <2> QED
    BY <2>1 DEF TypeOK
<1>2. OneRun /\ InspectorShows
  BY DEF OneRun, InspectorShows
<1>3. TokensSpent /\ OnScreen /\ StoppedKnown /\ RemovedGone
  BY DEF TokensSpent, OnScreen, StoppedKnown, RemovedGone
<1> QED
  BY <1>1, <1>2, <1>3 DEF IInv

\* The tally of a run is one, and is of the same run.
LEMMA CountedType ==
  ASSUME NEW r \in Removing, NEW i \in Id, NEW ok \in BOOLEAN
  PROVE  /\ Counted(r, i, ok) \in Removing
         /\ Counted(r, i, ok) # None
         /\ Counted(r, i, ok).token = r.token /\ Counted(r, i, ok).ids = r.ids
         /\ Counted(r, i, ok).done = r.done \cup {i}
         /\ Counted(r, i, ok).active = None
         /\ Counted(r, i, ok).stopped = r.stopped
         /\ ok => Counted(r, i, ok).failed = r.failed
         /\ ~ok => Counted(r, i, ok).failed = r.failed \cup {i}
<1>1. Counted(r, i, ok) \in Removing
  BY DEF Counted, Removing
<1>2. Counted(r, i, ok) # None
  BY <1>1, NoneApart
<1> QED
  BY <1>1, <1>2 DEF Counted, Removing

\* What is done with a reply about torrent i by the loop of run t: it goes on
\* with torrent j, it ends the run on the screen, or it was superseded.
GoesOn(t, i, j, ok) ==
    /\ removing \in Removing /\ removing.token = t /\ ~removing.stopped
    /\ j \in loop[t].todo
    /\ removing' = [Counted(removing, i, ok) EXCEPT !.active = j]
    /\ loop' = [loop EXCEPT ![t] = [todo |-> loop[t].todo \ {j}, id |-> j,
                                    reply |-> "none"]]

Ends(t, i, ok) ==
    /\ removing \in Removing /\ removing.token = t
    /\ removing.stopped \/ loop[t].todo = {}
    /\ removing' = IF Counted(removing, i, ok).failed = {} THEN None
                   ELSE Counted(removing, i, ok)
    /\ loop' = [loop EXCEPT ![t] = None]

Superseded(t) ==
    /\ ~Mine(removing, t)
    /\ removing' = removing
    /\ loop' = [loop EXCEPT ![t] = None]

LEMMA ReplyCases ==
  ASSUME TypeOK, NEW t \in Token, Reply(t)
  PROVE  /\ loop[t] \in Loop /\ loop[t].reply # "none"
         /\ \E ok \in BOOLEAN :
              /\ ok <=> loop[t].reply = "ok"
              /\ Dropped(loop[t].id, ok)
              /\ \/ \E j \in Id : GoesOn(t, loop[t].id, j, ok)
                 \/ Ends(t, loop[t].id, ok)
                 \/ Superseded(t)
         /\ UNCHANGED <<has, runs, poll, halted, fails>>
         /\ owed' \in BOOLEAN
<1> DEFINE i  == loop[t].id
           ok == loop[t].reply = "ok"
           r  == IF Mine(removing, t) THEN Counted(removing, i, ok) ELSE removing
<1>1. loop[t] \in Loop /\ loop[t].reply # "none" /\ i \in Id /\ ok \in BOOLEAN
  BY DEF Reply, TypeOK, Loop
<1>2. Dropped(i, ok) /\ GoOn(t, r) /\ UNCHANGED <<has, runs, poll, halted, fails>>
  BY DEF Reply
<1>3. CASE ~Mine(removing, t)
  <2>1. Superseded(t) /\ owed' = TRUE
    BY <1>2, <1>3 DEF GoOn, Going, Finish, Superseded, Mine
  <2> QED
    BY <1>1, <1>2, <2>1
<1>4. CASE Mine(removing, t)
  <2>1. removing \in Removing /\ removing.token = t
    BY <1>4 DEF Mine, TypeOK
  <2>2. r = Counted(removing, i, ok)
    BY <1>4
  <2>3. Mine(r, t) /\ (Going(r, t) <=> ~removing.stopped)
    <3>1. /\ Counted(removing, i, ok) # None
          /\ Counted(removing, i, ok).token = t
          /\ Counted(removing, i, ok).stopped = removing.stopped
      BY <1>1, <2>1, CountedType
    <3> HIDE DEF r
    <3> QED
      BY <2>2, <3>1 DEF Mine, Going
  <2>4. CASE Going(r, t) /\ loop[t].todo # {}
    <3>1. PICK j \in loop[t].todo : GoesOn(t, i, j, ok) /\ owed' = owed
      BY <1>2, <2>1, <2>2, <2>3, <2>4 DEF GoOn, GoesOn
    <3>2. j \in Id
      BY <1>1, <3>1 DEF Loop
    <3> QED
      BY <1>1, <1>2, <3>1, <3>2 DEF TypeOK
  <2>5. CASE ~(Going(r, t) /\ loop[t].todo # {})
    <3>1. Finish(t, r)
      BY <1>2, <2>5 DEF GoOn
    <3>2. Ends(t, i, ok) /\ owed' = TRUE
      BY <2>1, <2>2, <2>3, <2>5, <3>1 DEF Finish, Ends
    <3> QED
      BY <1>1, <1>2, <3>2
  <2> QED
    BY <2>4, <2>5
<1> QED
  BY <1>3, <1>4

\* A reply is to a run that has a loop; it leaves the other loops alone, and
\* the run on the screen is the same one, or none.
LEMMA ReplyKeeps ==
  ASSUME TypeOK, NEW t \in Token, Reply(t)
  PROVE  /\ UNCHANGED <<has, runs, poll, halted, fails>>
         /\ loop[t] \in Loop /\ loop[t] # None
         /\ \A u \in Token : u # t => loop'[u] = loop[u]
         /\ \/ loop'[t] = None
            \/ /\ loop'[t].id \in loop[t].todo
               /\ loop'[t].reply = "none"
               /\ Mine(removing, t) /\ ~removing.stopped
         /\ removing' # None => /\ removing # None
                                /\ removing'.token = removing.token
                                /\ removing'.ids = removing.ids
                                /\ removing'.stopped = removing.stopped
<1> DEFINE i == loop[t].id
<1>1. /\ UNCHANGED <<has, runs, poll, halted, fails>>
      /\ loop[t] \in Loop /\ loop[t] # None /\ i \in Id
  BY ReplyCases, NoneApart DEF Loop
<1>2. PICK ok \in BOOLEAN : \/ \E j \in Id : GoesOn(t, i, j, ok)
                            \/ Ends(t, i, ok)
                            \/ Superseded(t)
  BY ReplyCases
<1>3. ASSUME removing \in Removing
      PROVE  /\ removing # None
             /\ Counted(removing, i, ok) \in Removing
             /\ Counted(removing, i, ok).token = removing.token
             /\ Counted(removing, i, ok).ids = removing.ids
             /\ Counted(removing, i, ok).stopped = removing.stopped
  <2>1. removing # None
    BY <1>3, NoneApart
  <2>2. ok \in BOOLEAN /\ i \in Id
    BY <1>1
  <2> QED
    BY <1>3, <2>1, <2>2, CountedType
<1>4. loop \in [Token -> Loop \cup {None}]
  BY DEF TypeOK
<1>5. ASSUME NEW j \in Id, GoesOn(t, i, j, ok)
      PROVE  /\ \A u \in Token : u # t => loop'[u] = loop[u]
             /\ loop'[t].id \in loop[t].todo /\ loop'[t].reply = "none"
             /\ Mine(removing, t) /\ ~removing.stopped
             /\ removing # None
             /\ removing'.token = removing.token
             /\ removing'.ids = removing.ids
             /\ removing'.stopped = removing.stopped
  BY <1>3, <1>4, <1>5 DEF GoesOn, Mine, Removing
<1>6. ASSUME Ends(t, i, ok) \/ Superseded(t)
      PROVE  /\ \A u \in Token : u # t => loop'[u] = loop[u]
             /\ loop'[t] = None
  BY <1>4, <1>6 DEF Ends, Superseded
<1>7. ASSUME Ends(t, i, ok), removing' # None
      PROVE  /\ removing # None
             /\ removing'.token = removing.token
             /\ removing'.ids = removing.ids
             /\ removing'.stopped = removing.stopped
  BY <1>3, <1>7 DEF Ends
<1>8. Superseded(t) => removing' = removing
  BY DEF Superseded
<1>9. CASE \E j \in Id : GoesOn(t, i, j, ok)
  BY <1>1, <1>5, <1>9
<1>10. CASE Ends(t, i, ok)
  BY <1>1, <1>6, <1>7, <1>10
<1>11. CASE Superseded(t)
  BY <1>1, <1>6, <1>8, <1>11
<1> QED
  BY <1>2, <1>9, <1>10, <1>11

LEMMA TypeStep == TypeOK /\ [Next]_vars => TypeOK'
<1> SUFFICES ASSUME TypeOK, [Next]_vars PROVE TypeOK'
  OBVIOUS
<1>1. ASSUME NEW ids \in SUBSET Id, RemoveSequence(ids) PROVE TypeOK'
  <2>1. runs' \in Token /\ runs' \in 0..MaxRuns
    BY <1>1, RemovalAssumption DEF RemoveSequence, TypeOK, Token
  <2>2. PICK i \in ids :
          /\ removing' = [token |-> runs', ids |-> ids, done |-> {},
                          active |-> i, failed |-> {}, stopped |-> FALSE]
          /\ loop' = [loop EXCEPT ![runs'] =
                        [todo |-> ids \ {i}, id |-> i, reply |-> "none"]]
    BY <1>1 DEF RemoveSequence
  <2>3. removing' \in Removing
    BY <2>1, <2>2 DEF Removing
  <2>4. [todo |-> ids \ {i}, id |-> i, reply |-> "none"] \in Loop
    BY DEF Loop
  <2> QED
    BY <1>1, <2>1, <2>2, <2>3, <2>4 DEF RemoveSequence, TypeOK
<1>2. ASSUME NEW t \in Token, Reply(t) PROVE TypeOK'
  <2>1. PICK ok \in BOOLEAN :
          /\ Dropped(loop[t].id, ok)
          /\ \/ \E j \in Id : GoesOn(t, loop[t].id, j, ok)
             \/ Ends(t, loop[t].id, ok)
             \/ Superseded(t)
    BY <1>2, ReplyCases
  <2>2. loop[t] \in Loop /\ loop[t].id \in Id /\ loop[t].todo \in SUBSET Id
    BY <1>2, ReplyCases DEF Loop
  <2>3. UNCHANGED <<has, runs, poll, halted, fails>> /\ owed' \in BOOLEAN
    BY <1>2, ReplyCases
  <2>4. rows' \in SUBSET Id /\ focus' \in Id \cup {None}
    BY <2>1 DEF Dropped, Refocus, TypeOK
  <2>5. removing \in Removing => Counted(removing, loop[t].id, ok) \in Removing
    BY <2>2, CountedType
  <2>6. removing' \in Removing \cup {None}
    BY <2>1, <2>5 DEF GoesOn, Ends, Superseded, Removing, TypeOK
  <2>7. loop' \in [Token -> Loop \cup {None}]
    BY <2>1, <2>2 DEF GoesOn, Ends, Superseded, TypeOK, Loop
  <2> QED
    BY <2>3, <2>4, <2>6, <2>7 DEF TypeOK
<1>3. ASSUME NEW t \in Token, Removed(t) PROVE TypeOK'
  BY <1>3 DEF Removed, Unanswered, Replies, TypeOK, Loop
<1>4. ASSUME NEW t \in Token, NEW before \in BOOLEAN, RemoveFails(t, before)
      PROVE  TypeOK'
  BY <1>4 DEF RemoveFails, Unanswered, Replies, TypeOK, Loop
<1>5. CASE StopRemoval
  BY <1>5 DEF StopRemoval, TypeOK, Removing
<1>6. CASE DismissRemoval
  BY <1>6 DEF DismissRemoval, TypeOK
<1>7. ASSUME NEW i \in Id \cup {None}, Focus(i) PROVE TypeOK'
  BY <1>7 DEF Focus, TypeOK
<1>8. CASE PollStarts
  <2>1. PICK full \in BOOLEAN :
          poll' = [forced |-> owed, full |-> full, list |-> {}, removed |-> {},
                   answered |-> FALSE]
    BY <1>8 DEF PollStarts
  <2>2. poll' \in Poll
    BY <2>1 DEF Poll, TypeOK
  <2> QED
    BY <1>8, <2>2 DEF PollStarts, TypeOK
<1>9. CASE PollAnswered
  BY <1>9 DEF PollAnswered, TypeOK, Poll
<1>10. CASE PollMerged
  BY <1>10 DEF PollMerged, TypeOK, Poll
<1>11. CASE PollFails
  BY <1>11 DEF PollFails, TypeOK, Poll
<1>12. CASE UNCHANGED vars
  BY <1>12 DEF vars, TypeOK
<1> QED
  BY <1>1, <1>2, <1>3, <1>4, <1>5, <1>6, <1>7, <1>8, <1>9, <1>10, <1>11, <1>12 DEF Next, Run

\* The inspector never shows a torrent without a row.
LEMMA FocusStep == IInv /\ [Next]_vars => InspectorShows'
<1> SUFFICES ASSUME IInv, [Next]_vars PROVE InspectorShows'
  OBVIOUS
<1> USE DEF IInv, InspectorShows
<1>1. ASSUME NEW t \in Token, Reply(t) PROVE InspectorShows'
  <2>1. PICK ok \in BOOLEAN : Dropped(loop[t].id, ok)
    BY <1>1, ReplyCases
  <2> QED
    BY <2>1 DEF Dropped, Refocus
<1>2. ASSUME NEW i \in Id \cup {None}, Focus(i) PROVE InspectorShows'
  BY <1>2 DEF Focus
<1>3. CASE PollMerged
  BY <1>3 DEF PollMerged
<1>4. CASE UNCHANGED <<rows, focus>>
  BY <1>4
<1> QED
  BY <1>1, <1>2, <1>3, <1>4 DEF Next, Run, RemoveSequence, Removed, RemoveFails,
     StopRemoval, DismissRemoval, PollStarts, PollAnswered, PollFails, vars

\* A token is never given out again.
LEMMA TokensStep == IInv /\ [Next]_vars => TokensSpent'
<1> SUFFICES ASSUME IInv, [Next]_vars PROVE TokensSpent'
  OBVIOUS
<1> USE DEF IInv, TokensSpent
<1>1. ASSUME NEW ids \in SUBSET Id, RemoveSequence(ids) PROVE TokensSpent'
  <2>1. /\ runs \in Nat /\ runs' = runs + 1 /\ runs' \in Token
        /\ \A t \in Token : t \in Nat
        /\ halted \subseteq Token
    BY <1>1, RemovalAssumption DEF RemoveSequence, Token, TypeOK
  <2>2. removing'.token = runs' /\ halted' = halted
    BY <1>1 DEF RemoveSequence
  <2>3. \A t \in Token : t # runs' => loop'[t] = loop[t]
    BY <1>1 DEF RemoveSequence, TypeOK
  <2> QED
    BY <2>1, <2>2, <2>3
<1>2. ASSUME NEW t \in Token, Reply(t) PROVE TokensSpent'
  BY <1>2, ReplyKeeps
<1>3. ASSUME NEW t \in Token, Removed(t) PROVE TokensSpent'
  BY <1>3 DEF Removed, Replies, Unanswered, TypeOK
<1>4. ASSUME NEW t \in Token, NEW before \in BOOLEAN, RemoveFails(t, before)
      PROVE  TokensSpent'
  BY <1>4 DEF RemoveFails, Replies, Unanswered, TypeOK
<1>5. CASE StopRemoval
  BY <1>5 DEF StopRemoval, Removing, TypeOK
<1>6. CASE DismissRemoval
  BY <1>6 DEF DismissRemoval
<1>7. CASE UNCHANGED <<removing, loop, runs, halted>>
  BY <1>7
<1> QED
  BY <1>1, <1>2, <1>3, <1>4, <1>5, <1>6, <1>7 DEF Next, Run, Focus, PollStarts,
     PollAnswered, PollMerged, PollFails, vars

\* What the run on the screen counts, awaits and has yet to do stays its batch.
LEMMA OnScreenStep == IInv /\ [Next]_vars => OnScreen'
<1> SUFFICES ASSUME IInv, [Next]_vars PROVE OnScreen'
  OBVIOUS
<1> USE DEF IInv, OnScreen
<1>1. ASSUME NEW ids \in SUBSET Id, RemoveSequence(ids) PROVE OnScreen'
  <2>1. runs' \in Token
    BY <1>1, RemovalAssumption DEF RemoveSequence, TypeOK, Token
  <2>2. PICK i \in ids :
          /\ removing' = [token |-> runs', ids |-> ids, done |-> {},
                          active |-> i, failed |-> {}, stopped |-> FALSE]
          /\ loop' = [loop EXCEPT ![runs'] =
                        [todo |-> ids \ {i}, id |-> i, reply |-> "none"]]
    BY <1>1 DEF RemoveSequence
  <2>3. [todo |-> ids \ {i}, id |-> i, reply |-> "none"] \in Loop
    BY DEF Loop
  <2>4. loop'[runs'] = [todo |-> ids \ {i}, id |-> i, reply |-> "none"]
    BY <2>1, <2>2 DEF TypeOK
  <2>5. Parts(removing', loop'[runs'])
    BY <2>2, <2>4 DEF Parts
  <2> QED
    BY <2>2, <2>3, <2>4, <2>5, NoneApart
<1>2. ASSUME NEW t \in Token, Reply(t) PROVE OnScreen'
  <2> DEFINE i == loop[t].id
  <2>1. TypeOK /\ i \in Id /\ loop[t] \in Loop /\ loop[t] # None
    BY <1>2, ReplyKeeps DEF Loop
  <2>2. PICK ok \in BOOLEAN : \/ \E j \in Id : GoesOn(t, i, j, ok)
                              \/ Ends(t, i, ok)
                              \/ Superseded(t)
    BY <1>2, <2>1, ReplyCases
  <2> DEFINE c == Counted(removing, i, ok)
  <2>3. ASSUME removing \in Removing, removing.token = t
        PROVE  /\ Parts(removing, loop[t])
               /\ c \in Removing /\ c # None /\ c.token = t /\ c.ids = removing.ids
               /\ c.done = removing.done \cup {i} /\ c.active = None
               /\ c.stopped = removing.stopped
    <3>1. Parts(removing, loop[t])
      BY <2>1, <2>3, NoneApart
    <3>2. /\ c \in Removing /\ c # None /\ c.token = removing.token
          /\ c.ids = removing.ids /\ c.done = removing.done \cup {i}
          /\ c.active = None /\ c.stopped = removing.stopped
      BY <2>1, <2>3, CountedType
    <3> QED
      BY <2>3, <3>1, <3>2
  <2> HIDE DEF c
  <2>4. ASSUME NEW j \in Id, GoesOn(t, i, j, ok) PROVE OnScreen'
    <3>1. /\ removing' = [c EXCEPT !.active = j] /\ j \in loop[t].todo
          /\ loop'[t] = [todo |-> loop[t].todo \ {j}, id |-> j, reply |-> "none"]
      BY <2>1, <2>4 DEF GoesOn, TypeOK, c
    <3>2. removing'.token = t
      BY <2>3, <2>4, <3>1 DEF GoesOn, Removing
    <3>3. loop'[t] \in Loop
      BY <2>1, <2>4, <3>1 DEF Loop
    <3>4. Parts(removing', loop'[t])
      BY <2>3, <2>4, <3>1 DEF GoesOn, Parts, Removing
    <3> QED
      BY <3>2, <3>3, <3>4, NoneApart
  <2>5. ASSUME Ends(t, i, ok) PROVE OnScreen'
    <3>1. /\ removing' = IF c.failed = {} THEN None ELSE c
          /\ loop'[t] = None
          /\ removing.stopped \/ loop[t].todo = {}
      BY <2>1, <2>5 DEF Ends, TypeOK, c
    <3>2. CASE c.failed # {}
      <4>1. Rest(c) /\ c.token = t
        BY <2>3, <2>5, <3>1, <3>2 DEF Ends, Parts, Rest
      <4> QED
        BY <3>1, <3>2, <4>1
    <3> QED
      BY <3>1, <3>2
  <2>6. CASE Superseded(t)
    BY <2>1, <2>6, NoneApart DEF Superseded, Mine, TypeOK, Removing
  <2> QED
    BY <2>2, <2>4, <2>5, <2>6
<1>3. ASSUME NEW t \in Token, Removed(t) PROVE OnScreen'
  BY <1>3, NoneApart DEF Removed, Replies, Unanswered, TypeOK, Loop, Removing, Parts
<1>4. ASSUME NEW t \in Token, NEW before \in BOOLEAN, RemoveFails(t, before)
      PROVE  OnScreen'
  BY <1>4, NoneApart DEF RemoveFails, Replies, Unanswered, TypeOK, Loop, Removing, Parts
<1>5. CASE StopRemoval
  BY <1>5, NoneApart DEF StopRemoval, TypeOK, Removing, Parts, Rest
<1>6. CASE DismissRemoval
  BY <1>6 DEF DismissRemoval
<1>7. CASE UNCHANGED <<removing, loop>>
  BY <1>7
<1> QED
  BY <1>1, <1>2, <1>3, <1>4, <1>5, <1>6, <1>7 DEF Next, Run, Focus, PollStarts,
     PollAnswered, PollMerged, PollFails, vars

\* A run says that it was stopped if, and only if, the user stopped it.
LEMMA StoppedStep == IInv /\ [Next]_vars => StoppedKnown'
<1> SUFFICES ASSUME IInv, [Next]_vars PROVE StoppedKnown'
  OBVIOUS
<1> USE DEF IInv, StoppedKnown
<1>1. ASSUME NEW ids \in SUBSET Id, RemoveSequence(ids) PROVE StoppedKnown'
  <2>1. runs \in Nat /\ runs' = runs + 1 /\ \A t \in halted : t \in Nat /\ t <= runs
    BY <1>1, RemovalAssumption DEF RemoveSequence, TokensSpent, TypeOK, Token
  <2>2. runs' \notin halted
    BY <2>1
  <2>3. removing'.token = runs' /\ removing'.stopped = FALSE /\ halted' = halted
    BY <1>1 DEF RemoveSequence
  <2> QED
    BY <2>2, <2>3
<1>2. ASSUME NEW t \in Token, Reply(t) PROVE StoppedKnown'
  BY <1>2, ReplyKeeps
<1>3. CASE StopRemoval
  BY <1>3 DEF StopRemoval, TypeOK, Removing
<1>4. CASE DismissRemoval
  BY <1>4 DEF DismissRemoval
<1>5. CASE UNCHANGED <<removing, halted>>
  BY <1>5
<1> QED
  BY <1>1, <1>2, <1>3, <1>4, <1>5 DEF Next, Run, Removed, RemoveFails, Focus,
     PollStarts, PollAnswered, PollMerged, PollFails, vars

\* The loops that go on: only the one on the screen.
LEMMA OneRunStep == IInv /\ [Next]_vars => OneRun'
<1> SUFFICES ASSUME IInv, [Next]_vars PROVE OneRun'
  OBVIOUS
<1> USE DEF IInv, OneRun
<1>1. ASSUME NEW ids \in SUBSET Id, RemoveSequence(ids) PROVE OneRun'
  <2>1. runs' \in Token /\ halted' = halted
    BY <1>1, RemovalAssumption DEF RemoveSequence, TypeOK, Token
  <2>2. \A t \in Token : t # runs' => loop'[t] = loop[t]
    BY <1>1 DEF RemoveSequence, TypeOK
  <2>3. Mine(removing', runs')
    <3>1. PICK i \in ids :
            removing' = [token |-> runs', ids |-> ids, done |-> {},
                         active |-> i, failed |-> {}, stopped |-> FALSE]
      BY <1>1 DEF RemoveSequence
    <3>2. removing' \in Removing
      BY <2>1, <3>1 DEF Removing
    <3> QED
      BY <3>1, <3>2, NoneApart DEF Mine
  <2>4. \A t \in Token : loop[t] # None => t \in halted
    <3> SUFFICES ASSUME NEW t \in Token, loop[t] # None, t \notin halted PROVE FALSE
      OBVIOUS
    <3>1. Mine(removing, t)
      OBVIOUS
    <3>2. ~removing.stopped /\ removing.done # removing.ids
      BY <3>1 DEF Mine, StoppedKnown, OnScreen, Parts
    <3> QED
      BY <1>1, <3>1, <3>2 DEF RemoveSequence, InFlight, Mine
  <2> QED
    BY <2>1, <2>2, <2>3, <2>4
<1>2. ASSUME NEW t \in Token, Reply(t) PROVE OneRun'
  <2> SUFFICES ASSUME NEW u \in Token, loop'[u] # None, u \notin halted
               PROVE  Mine(removing', u)
    BY <1>2, ReplyKeeps
  <2>1. loop[u] # None /\ Mine(removing, u)
    BY <1>2, ReplyKeeps
  <2>2. u = t \/ Superseded(t)
    BY <1>2, <2>1, ReplyCases DEF GoesOn, Ends, Mine
  <2>3. CASE Superseded(t)
    BY <2>1, <2>3 DEF Superseded
  <2>4. CASE u = t /\ ~Superseded(t)
    <3>1. PICK ok \in BOOLEAN : \/ \E j \in Id : GoesOn(t, loop[t].id, j, ok)
                                \/ Ends(t, loop[t].id, ok)
      BY <1>2, <2>4, ReplyCases
    <3>2. ~Ends(t, loop[t].id, ok)
      BY <2>4 DEF Ends, TypeOK
    <3>3. PICK j \in Id : GoesOn(t, loop[t].id, j, ok)
      BY <3>1, <3>2
    <3>4. loop[t].id \in Id /\ removing \in Removing /\ ok \in BOOLEAN
      BY <1>2, <3>3, ReplyKeeps DEF GoesOn, Loop
    <3>5. removing' \in Removing
      <4>1. Counted(removing, loop[t].id, ok) \in Removing
        BY <3>4, CountedType
      <4> QED
        BY <3>3, <4>1 DEF GoesOn, Removing
    <3> QED
      BY <1>2, <2>1, <2>4, <3>5, ReplyKeeps, NoneApart DEF Mine
  <2> QED
    BY <2>2, <2>3, <2>4
<1>3. ASSUME NEW t \in Token, Removed(t) PROVE OneRun'
  BY <1>3 DEF Removed, Replies, Unanswered, TypeOK
<1>4. ASSUME NEW t \in Token, NEW before \in BOOLEAN, RemoveFails(t, before)
      PROVE  OneRun'
  BY <1>4 DEF RemoveFails, Replies, Unanswered, TypeOK
<1>5. CASE StopRemoval
  BY <1>5 DEF StopRemoval, Mine
<1>6. CASE DismissRemoval
  <2> SUFFICES ASSUME NEW t \in Token, loop[t] # None PROVE t \in halted
    BY <1>6 DEF DismissRemoval
  <2>1. ~Mine(removing, t)
    BY <1>6, NoneApart DEF DismissRemoval, Finished, OnScreen, Parts, Mine, TypeOK, Loop
  <2> QED
    BY <2>1
<1>7. CASE UNCHANGED <<removing, loop, halted>>
  BY <1>7 DEF Mine
<1> QED
  BY <1>1, <1>2, <1>3, <1>4, <1>5, <1>6, <1>7 DEF Next, Run, Focus, PollStarts,
     PollAnswered, PollMerged, PollFails, vars

\* What was removed stays so: the daemon gets no torrent back.
LEMMA GoneStep == IInv /\ [Next]_vars => RemovedGone'
<1> SUFFICES ASSUME IInv, [Next]_vars PROVE RemovedGone'
  OBVIOUS
<1> USE DEF IInv, RemovedGone
<1>1. ASSUME NEW ids \in SUBSET Id, RemoveSequence(ids) PROVE RemovedGone'
  <2>1. runs' \in Token /\ has' = has /\ removing'.done = {}
    BY <1>1, RemovalAssumption DEF RemoveSequence, TypeOK, Token
  <2>2. /\ \A t \in Token : t # runs' => loop'[t] = loop[t]
        /\ loop'[runs'].reply = "none"
    BY <1>1, <2>1 DEF RemoveSequence, TypeOK
  <2> QED
    BY <2>1, <2>2
<1>2. ASSUME NEW t \in Token, Reply(t) PROVE RemovedGone'
  <2> DEFINE i == loop[t].id
  <2>1. TypeOK /\ i \in Id /\ has' = has /\ loop[t] # None
    BY <1>2, ReplyKeeps DEF Loop
  <2>2. \A u \in Token : loop'[u] # None /\ loop'[u].reply = "ok" => loop'[u].id \notin has'
    BY <1>2, <2>1, ReplyKeeps
  <2>3. PICK ok \in BOOLEAN : /\ ok <=> loop[t].reply = "ok"
                              /\ \/ \E j \in Id : GoesOn(t, i, j, ok)
                                 \/ Ends(t, i, ok)
                                 \/ Superseded(t)
    BY <1>2, <2>1, ReplyCases
  <2> DEFINE c == Counted(removing, i, ok)
  <2>4. ASSUME removing \in Removing
        PROVE  c \in Removing /\ (c.done \ c.failed) \cap has = {}
    <3>1. /\ c \in Removing /\ c.done = removing.done \cup {i}
          /\ ok => c.failed = removing.failed
          /\ ~ok => c.failed = removing.failed \cup {i}
      BY <2>1, <2>4, CountedType
    <3>2. (removing.done \ removing.failed) \cap has = {}
      BY <2>4, NoneApart
    <3>3. ok => i \notin has
      BY <2>1, <2>3
    <3> HIDE DEF c
    <3>4. CASE ok
      BY <3>1, <3>2, <3>3, <3>4
    <3>5. CASE ~ok
      BY <3>1, <3>2, <3>5
    <3> QED
      BY <3>1, <3>4, <3>5
  <2> HIDE DEF c
  <2>5. removing' # None => (removing'.done \ removing'.failed) \cap has' = {}
    <3>1. ASSUME NEW j \in Id, GoesOn(t, i, j, ok)
          PROVE  (removing'.done \ removing'.failed) \cap has' = {}
      <4>1. removing' = [c EXCEPT !.active = j] /\ removing \in Removing
        BY <3>1 DEF GoesOn, c
      <4> QED
        BY <2>1, <2>4, <4>1 DEF Removing
    <3>2. ASSUME Ends(t, i, ok), removing' # None
          PROVE  (removing'.done \ removing'.failed) \cap has' = {}
      <4>1. removing' = c /\ removing \in Removing
        BY <3>2 DEF Ends, c
      <4> QED
        BY <2>1, <2>4, <4>1
    <3>3. Superseded(t) => removing' = removing
      BY DEF Superseded
    <3> QED
      BY <2>1, <2>3, <3>1, <3>2, <3>3
  <2> QED
    BY <2>2, <2>5
<1>3. ASSUME NEW t \in Token, Removed(t) PROVE RemovedGone'
  BY <1>3 DEF Removed, Replies, Unanswered, TypeOK, Loop
<1>4. ASSUME NEW t \in Token, NEW before \in BOOLEAN, RemoveFails(t, before)
      PROVE  RemovedGone'
  BY <1>4 DEF RemoveFails, Replies, Unanswered, TypeOK, Loop
<1>5. CASE StopRemoval
  BY <1>5 DEF StopRemoval, TypeOK, Removing
<1>6. CASE DismissRemoval
  BY <1>6 DEF DismissRemoval
<1>7. CASE UNCHANGED <<has, removing, loop>>
  BY <1>7
<1> QED
  BY <1>1, <1>2, <1>3, <1>4, <1>5, <1>6, <1>7 DEF Next, Run, Focus, PollStarts,
     PollAnswered, PollMerged, PollFails, vars

LEMMA Inductive == Spec => []IInv
<1>1. IInv /\ [Next]_vars => IInv'
  BY TypeStep, FocusStep, TokensStep, OnScreenStep, StoppedStep, OneRunStep,
     GoneStep DEF IInv
<1> QED
  BY InvInit, <1>1, PTL DEF Spec

\* The variables have their types.
THEOREM TypeCorrect == Spec => []TypeOK
<1>1. IInv => TypeOK
  BY DEF IInv
<1> QED
  BY Inductive, <1>1, PTL

\* The state is of its type, one loop goes on, and the inspector shows a row.
THEOREM ConsistentHolds == Spec => []Consistent
<1>1. IInv => Consistent
  BY DEF IInv, Consistent
<1> QED
  BY Inductive, <1>1, PTL

\* The bar tells the truth about the run on the screen.
THEOREM TallyTrueHolds == Spec => []TallyTrue
<1>1. IInv => TallyTrue
  BY DEF IInv, TallyTrue, OnScreen, Parts, Rest, Finished, RemovedGone
<1> QED
  BY Inductive, <1>1, PTL

\* A stopped run asks for no further torrent: its loop was superseded, or is
\* shown as stopped.
THEOREM StopHoldsAlways == Spec => StopHolds
<1> DEFINE Holds(t) == loop'[t] = None \/ (loop[t] # None /\ loop'[t].id = loop[t].id)
<1>1. IInv /\ [Next]_vars
        => [\A t \in halted : loop'[t] = None \/ /\ loop[t] # None
                                                 /\ loop'[t].id = loop[t].id]_vars
  <2> SUFFICES ASSUME IInv, [Next]_vars, NEW t \in halted PROVE Holds(t)
    OBVIOUS
  <2>1. t \in Token /\ TypeOK
    BY DEF IInv, TypeOK
  <2>2. ASSUME NEW ids \in SUBSET Id, RemoveSequence(ids) PROVE Holds(t)
    <3>1. t # runs'
      <4>1. t \in Nat /\ runs \in Nat /\ t <= runs
        BY <2>1, RemovalAssumption DEF IInv, TokensSpent, TypeOK, Token
      <4> QED
        BY <2>2, <4>1 DEF RemoveSequence
    <3> QED
      BY <2>1, <2>2, <3>1 DEF RemoveSequence, TypeOK
  <2>3. ASSUME NEW u \in Token, Reply(u) PROVE Holds(t)
    <3>1. CASE t # u
      BY <2>1, <2>3, <3>1, ReplyKeeps
    <3>2. CASE t = u
      BY <2>1, <2>3, <3>2, ReplyKeeps DEF IInv, StoppedKnown, Mine
    <3> QED
      BY <3>1, <3>2
  <2>4. ASSUME NEW u \in Token, Removed(u) PROVE Holds(t)
    BY <2>1, <2>4 DEF Removed, Replies, Unanswered, TypeOK, Loop
  <2>5. ASSUME NEW u \in Token, NEW before \in BOOLEAN, RemoveFails(u, before)
        PROVE  Holds(t)
    BY <2>1, <2>5 DEF RemoveFails, Replies, Unanswered, TypeOK, Loop
  <2>6. CASE UNCHANGED loop
    BY <2>6
  <2> QED
    BY <2>2, <2>3, <2>4, <2>5, <2>6 DEF Next, Run, StopRemoval, DismissRemoval,
       Focus, PollStarts, PollAnswered, PollMerged, PollFails, vars
<1> QED
  BY Inductive, <1>1, PTL DEF Spec, StopHolds

-----------------------------------------------------------------------------
(* SimDaemon.  The places of the queue.                                    *)

\* Numbers of 0..n-1, a different one for each of n things, are all of them.
LEMMA AllTaken ==
  ASSUME NEW D, IsFiniteSet(D), NEW r \in [D -> 0..(Cardinality(D) - 1)],
         \A i, j \in D : r[i] = r[j] => i = j
  PROVE  {r[i] : i \in D} = 0..(Cardinality(D) - 1)
<1> DEFINE T == 0..(Cardinality(D) - 1)
<1>1. IsFiniteSet(T) /\ Cardinality(T) = Cardinality(D)
  <2>1. Cardinality(D) \in Nat
    BY FS_CardinalityType
  <2>2. Cardinality(D) - 1 \in Int
    BY <2>1
  <2> QED
    BY <2>1, <2>2, FS_Interval
<1> HIDE DEF T
<1>2. r \in Injection(D, T)
  BY DEF T, Injection, IsInjective
<1>3. r \in Surjection(D, T)
  BY <1>1, <1>2, FS_Injection
<1>4. \A p \in T : \E i \in D : r[i] = p
  BY <1>3 DEF Surjection
<1>5. \A i \in D : r[i] \in T
  BY DEF T
<1>6. {r[i] : i \in D} = T
  BY <1>4, <1>5
<1> QED
  BY <1>6 DEF T

\* In a finite set with a strict total order, the number of those before it
\* tells the place of each: the places are 0 to n-1, each taken once.
LEMMA Ranking ==
  ASSUME NEW D, IsFiniteSet(D), NEW R,
         \A i \in D : <<i, i>> \notin R,
         \A i, j, k \in D : <<i, j>> \in R /\ <<j, k>> \in R => <<i, k>> \in R,
         \A i, j \in D : i # j => <<i, j>> \in R \/ <<j, i>> \in R,
         NEW r, \A i \in D : r[i] = Cardinality({j \in D : <<j, i>> \in R})
  PROVE  /\ \A i \in D : r[i] \in 0..(Cardinality(D) - 1)
         /\ \A i, j \in D : <<i, j>> \in R <=> r[i] < r[j]
         /\ \A i, j \in D : r[i] = r[j] => i = j
         /\ {r[i] : i \in D} = 0..(Cardinality(D) - 1)
<1> DEFINE Before(i) == {j \in D : <<j, i>> \in R}
           n == Cardinality(D)
<1>1. n \in Nat
  BY FS_CardinalityType
<1>2. ASSUME NEW i \in D
      PROVE  /\ IsFiniteSet(Before(i)) /\ r[i] \in 0..(n - 1) /\ r[i] \in Int
             /\ r[i] = Cardinality(Before(i))
  <2>1. /\ IsFiniteSet(Before(i)) /\ Cardinality(Before(i)) <= n
        /\ n = Cardinality(Before(i)) => D = Before(i)
    BY FS_Subset
  <2>2. i \notin Before(i) /\ r[i] = Cardinality(Before(i))
    OBVIOUS
  <2>3. Cardinality(Before(i)) \in Nat
    BY <2>1, FS_CardinalityType
  <2> HIDE DEF Before, n
  <2> QED
    BY <1>1, <2>1, <2>2, <2>3
<1>3. ASSUME NEW i \in D, NEW j \in D, <<i, j>> \in R PROVE r[i] < r[j]
  <2>1. Before(i) \subseteq Before(j) /\ i \in Before(j) /\ i \notin Before(i)
    BY <1>3
  <2>2. /\ Cardinality(Before(i)) <= Cardinality(Before(j))
        /\ Cardinality(Before(j)) = Cardinality(Before(i)) => Before(j) = Before(i)
    BY <1>2, <2>1, FS_Subset
  <2> HIDE DEF Before
  <2> QED
    BY <1>2, <2>1, <2>2
<1>4. ASSUME NEW i \in D, NEW j \in D
      PROVE  /\ <<i, j>> \in R <=> r[i] < r[j]
             /\ r[i] = r[j] => i = j
  <2>1. r[i] \in Int /\ r[j] \in Int
    BY <1>2
  <2>2. /\ <<i, j>> \in R => r[i] < r[j]
        /\ <<j, i>> \in R => r[j] < r[i]
    BY <1>3
  <2>3. i = j \/ <<i, j>> \in R \/ <<j, i>> \in R
    OBVIOUS
  <2> QED
    BY <2>1, <2>2, <2>3
<1>5. {r[i] : i \in D} = 0..(n - 1)
  <2> DEFINE f == [i \in D |-> r[i]]
  <2>1. f \in [D -> 0..(n - 1)] /\ \A i, j \in D : f[i] = f[j] => i = j
    BY <1>2, <1>4
  <2>2. {f[i] : i \in D} = {r[i] : i \in D}
    OBVIOUS
  <2> HIDE DEF f
  <2> QED
    BY <2>1, <2>2, AllTaken
<1> QED
  BY <1>2, <1>4, <1>5

-----------------------------------------------------------------------------
(* Queue positions.                                                        *)

\* A torrent, wherever in the queue.
Unplaced == {[t EXCEPT !.pos = p] : t \in Torrent, p \in Int}

\* The torrents have different positions from 0 to n-1.
InPlace(ts) ==
    /\ \A i \in DOMAIN ts : ts[i].pos \in 0..(Cardinality(DOMAIN ts) - 1)
    /\ \A i, j \in DOMAIN ts : ts[i].pos = ts[j].pos => i = j

\* A torrent is one again with any position.
LEMMA PlacedType ==
  ASSUME NEW u \in Unplaced
  PROVE  /\ u.pos \in Int
         /\ \A k \in Nat : /\ [u EXCEPT !.pos = k] \in Torrent
                           /\ [u EXCEPT !.pos = k].pos = k
  BY DEF Unplaced, Torrent

\* A torrent may be given any position.
LEMMA TorrentUnplaced ==
  ASSUME NEW t \in Torrent
  PROVE  /\ t \in Unplaced
         /\ \A p \in Int : /\ [t EXCEPT !.pos = p] \in Unplaced
                           /\ [t EXCEPT !.pos = p].pos = p
<1>1. t = [t EXCEPT !.pos = t.pos] /\ t.pos \in Int
  BY DEF Torrent
<1> QED
  BY <1>1 DEF Unplaced, Torrent

\* renumberQueue puts torrents in places, and changes nothing else of them.
LEMMA Renumbered ==
  ASSUME NEW ts, IsFiniteSet(DOMAIN ts), DOMAIN ts \subseteq Nat,
         \A i \in DOMAIN ts : ts[i] \in Unplaced
  PROVE  /\ DOMAIN RenumberQueue(ts) = DOMAIN ts
         /\ InPlace(RenumberQueue(ts))
         /\ \A i \in DOMAIN ts :
              /\ RenumberQueue(ts)[i] \in Torrent
              /\ RenumberQueue(ts)[i] = [ts[i] EXCEPT !.pos = Rank(ts, i)]
              /\ RenumberQueue(ts)[i].pos = Rank(ts, i) /\ Rank(ts, i) \in Nat
         /\ \A i, j \in DOMAIN ts :
              ts[i].pos < ts[j].pos => Rank(ts, i) < Rank(ts, j)
<1> DEFINE D == DOMAIN ts
           R == {p \in D \X D : \/ ts[p[1]].pos < ts[p[2]].pos
                                \/ ts[p[1]].pos = ts[p[2]].pos /\ p[1] < p[2]}
           r == [i \in D |-> Rank(ts, i)]
<1>1. \A i \in D : ts[i].pos \in Int /\ i \in Nat
  BY PlacedType
<1>2. \A i \in D : r[i] = Cardinality({j \in D : <<j, i>> \in R})
  <2>1. ASSUME NEW i \in D PROVE r[i] = Cardinality({j \in D : <<j, i>> \in R})
    <3>1. {j \in D : <<j, i>> \in R} =
            {j \in D : \/ ts[j].pos < ts[i].pos
                       \/ ts[j].pos = ts[i].pos /\ j < i}
      OBVIOUS
    <3> QED
      BY <3>1 DEF Rank
  <2> QED
    BY <2>1
<1>3. \A i \in D : <<i, i>> \notin R
  BY <1>1
<1>4. \A i, j, k \in D : <<i, j>> \in R /\ <<j, k>> \in R => <<i, k>> \in R
  BY <1>1
<1>5. \A i, j \in D : i # j => <<i, j>> \in R \/ <<j, i>> \in R
  BY <1>1
<1>6. \A i, j \in D : ts[i].pos < ts[j].pos => <<i, j>> \in R
  OBVIOUS
<1> HIDE DEF R, r
<1>7. /\ \A i \in D : r[i] \in 0..(Cardinality(D) - 1)
      /\ \A i, j \in D : <<i, j>> \in R <=> r[i] < r[j]
      /\ \A i, j \in D : r[i] = r[j] => i = j
  BY <1>2, <1>3, <1>4, <1>5, Ranking
<1>8. \A i \in D : Rank(ts, i) \in 0..(Cardinality(D) - 1)
  BY <1>7 DEF r
<1>9. \A i, j \in D : Rank(ts, i) = Rank(ts, j) => i = j
  BY <1>7 DEF r
<1>10. \A i \in D : Rank(ts, i) \in Nat
  <2>1. Cardinality(D) \in Nat
    BY FS_CardinalityType
  <2> QED
    BY <1>8, <2>1
<1>11. DOMAIN RenumberQueue(ts) = D
  BY DEF RenumberQueue
<1>12. \A i \in D : /\ RenumberQueue(ts)[i] = [ts[i] EXCEPT !.pos = Rank(ts, i)]
                    /\ RenumberQueue(ts)[i] \in Torrent
                    /\ RenumberQueue(ts)[i].pos = Rank(ts, i)
  BY <1>10, PlacedType DEF RenumberQueue
<1>13. InPlace(RenumberQueue(ts))
  BY <1>8, <1>9, <1>11, <1>12 DEF InPlace
<1>14. \A i, j \in D : ts[i].pos < ts[j].pos => Rank(ts, i) < Rank(ts, j)
  <2>1. \A i, j \in D : ts[i].pos < ts[j].pos => r[i] < r[j]
    BY <1>7, <1>6
  <2> QED
    BY <2>1 DEF r
<1> QED
  BY <1>10, <1>11, <1>12, <1>13, <1>14

\* Of torrents D at places p, those of M move, up or down, by one place or to
\* the end: which pass which, and who is first afterwards.
Past(D, p, M, up, one, i, x) ==
    /\ i \in M /\ x \notin M
    /\ IF up THEN p[x] < p[i] ELSE p[i] < p[x]
    /\ one => \A k \in D : (\/ p[i] < p[k] /\ p[k] < p[x]
                            \/ p[x] < p[k] /\ p[k] < p[i]) => k \in M

\* After a move, i comes before j.
First(D, p, M, up, one, i, j) ==
    i # j /\ IF Past(D, p, M, up, one, j, i) \/ Past(D, p, M, up, one, i, j)
             THEN p[j] < p[i] ELSE p[i] < p[j]

\* That is an order.
LEMMA MoveOrder ==
  ASSUME NEW D, NEW p \in [D -> Int], \A i, j \in D : p[i] = p[j] => i = j,
         NEW M, NEW up \in BOOLEAN, NEW one \in BOOLEAN
  PROVE  /\ \A a, b, c \in D :
              First(D, p, M, up, one, a, b) /\ First(D, p, M, up, one, b, c)
                => First(D, p, M, up, one, a, c)
         /\ \A a, b \in D :
              a # b => First(D, p, M, up, one, a, b) \/ First(D, p, M, up, one, b, a)
<1>1. ASSUME NEW a \in D, NEW b \in D, NEW c \in D,
             First(D, p, M, up, one, a, b), First(D, p, M, up, one, b, c)
      PROVE  First(D, p, M, up, one, a, c)
  BY <1>1 DEF First, Past
<1>2. ASSUME NEW a \in D, NEW b \in D, a # b
      PROVE  First(D, p, M, up, one, a, b) \/ First(D, p, M, up, one, b, a)
  BY <1>2 DEF First
<1> QED
  BY <1>1, <1>2

\* queueMove puts torrents in places, and changes nothing else of them.
LEMMA Moved ==
  ASSUME NEW ts, IsFiniteSet(DOMAIN ts), \A i \in DOMAIN ts : ts[i] \in Torrent,
         InPlace(ts), NEW where \in Where, NEW ids
  PROVE  /\ DOMAIN QueueMove(ts, where, ids) = DOMAIN ts
         /\ InPlace(QueueMove(ts, where, ids))
         /\ \A i \in DOMAIN ts :
              /\ QueueMove(ts, where, ids)[i] \in Torrent
              /\ \E k \in Nat :
                   QueueMove(ts, where, ids)[i] = [ts[i] EXCEPT !.pos = k]
<1> DEFINE D == DOMAIN ts
           p == [i \in D |-> ts[i].pos]
           up == where \in {"top", "up"}
           one == where \in {"up", "down"}
           Goes(i, j) == First(D, p, ids, up, one, i, j)
           R == {q \in D \X D : Goes(q[1], q[2])}
           At(i) == Cardinality({j \in D \ {i} :
                      IF Passes(ts, where, ids, i, j) \/ Passes(ts, where, ids, j, i)
                      THEN ts[i].pos < ts[j].pos ELSE ts[j].pos < ts[i].pos})
           r == [i \in D |-> At(i)]
<1>1. Cardinality(D) \in Nat
  BY FS_CardinalityType
<1>2. p \in [D -> Int] /\ \A i, j \in D : p[i] = p[j] => i = j
  BY <1>1 DEF InPlace
<1>3. \A i, x \in D : Passes(ts, where, ids, i, x) <=> Past(D, p, ids, up, one, i, x)
  BY DEF Passes, Past
<1>4. /\ \A i, j, k \in D : Goes(i, j) /\ Goes(j, k) => Goes(i, k)
      /\ \A i, j \in D : i # j => Goes(i, j) \/ Goes(j, i)
  <2> HIDE DEF p, up, one
  <2>1. up \in BOOLEAN /\ one \in BOOLEAN
    BY DEF up, one
  <2> QED
    BY <1>2, <2>1, MoveOrder
<1>5. \A i \in D : ~ Goes(i, i)
  BY DEF First
<1>6. \A i \in D : r[i] = Cardinality({j \in D : <<j, i>> \in R})
  <2>1. ASSUME NEW i \in D PROVE r[i] = Cardinality({j \in D : <<j, i>> \in R})
    <3>1. {j \in D : <<j, i>> \in R} = {j \in D : Goes(j, i)}
      <4> HIDE DEF Goes
      <4> QED
        OBVIOUS
    <3>2. {j \in D : Goes(j, i)} =
            {j \in D \ {i} :
               IF Passes(ts, where, ids, i, j) \/ Passes(ts, where, ids, j, i)
               THEN ts[i].pos < ts[j].pos ELSE ts[j].pos < ts[i].pos}
      BY <1>3 DEF First
    <3> QED
      BY <3>1, <3>2
  <2> QED
    BY <2>1
<1> HIDE DEF Goes
<1>7. \A i \in D : <<i, i>> \notin R
  BY <1>5
<1>8. \A i, j, k \in D : <<i, j>> \in R /\ <<j, k>> \in R => <<i, k>> \in R
  BY <1>4
<1>9. \A i, j \in D : i # j => <<i, j>> \in R \/ <<j, i>> \in R
  BY <1>4
<1> HIDE DEF R, r
<1>10. /\ \A i \in D : r[i] \in 0..(Cardinality(D) - 1)
       /\ \A i, j \in D : r[i] = r[j] => i = j
  BY <1>6, <1>7, <1>8, <1>9, Ranking
<1> HIDE DEF At
<1>11. /\ \A i \in D : At(i) \in 0..(Cardinality(D) - 1)
       /\ \A i, j \in D : At(i) = At(j) => i = j
  BY <1>10 DEF r
<1>12. \A i \in D : At(i) \in Nat
  BY <1>1, <1>11
<1>13. DOMAIN QueueMove(ts, where, ids) = D
  BY DEF QueueMove
<1>14. \A i \in D : QueueMove(ts, where, ids)[i] = [ts[i] EXCEPT !.pos = At(i)]
  BY DEF QueueMove, At
<1>15. \A i \in D : ts[i] \in Unplaced
  BY TorrentUnplaced
<1>16. ASSUME NEW i \in D
       PROVE  /\ QueueMove(ts, where, ids)[i] \in Torrent
              /\ QueueMove(ts, where, ids)[i].pos = At(i)
  <2>1. ts[i] \in Unplaced /\ At(i) \in Nat
    BY <1>12, <1>15
  <2>2. /\ [ts[i] EXCEPT !.pos = At(i)] \in Torrent
        /\ [ts[i] EXCEPT !.pos = At(i)].pos = At(i)
    BY <2>1, PlacedType
  <2>3. QueueMove(ts, where, ids)[i] = [ts[i] EXCEPT !.pos = At(i)]
    BY <1>14
  <2> QED
    BY <2>2, <2>3
<1>17. InPlace(QueueMove(ts, where, ids))
  BY <1>11, <1>13, <1>16 DEF InPlace
<1> QED
  BY <1>12, <1>13, <1>14, <1>16, <1>17

-----------------------------------------------------------------------------
(* Who comes out of a queue.                                               *)

\* The first ones of W, in the order of places p.
Firsts(W, p, free) == {i \in W : Cardinality({j \in W : p[j] < p[i]}) < free}

\* In a finite set in an order, that of places p, the first ones are as many
\* as were asked for, unless these are all; the first one is one.
LEMMA FirstOnes ==
  ASSUME NEW W, IsFiniteSet(W), NEW p \in [W -> Int],
         \A i, j \in W : p[i] = p[j] => i = j, NEW free \in Int
  PROVE  LET P == Firsts(W, p, free)
         IN  /\ IsFiniteSet(P) /\ P \subseteq W
             /\ P # W => Cardinality(P) >= free
             /\ free <= 1 => Cardinality(P) <= 1
             /\ free <= 0 => P = {}
             /\ \A i \in P : \A j \in W \ P : p[i] < p[j]
<1> DEFINE P == Firsts(W, p, free)
           R == {q \in W \X W : p[q[1]] < p[q[2]]}
           r == [i \in W |-> Cardinality({j \in W : p[j] < p[i]})]
<1>1. \A i \in W : r[i] = Cardinality({j \in W : <<j, i>> \in R})
  <2>1. ASSUME NEW i \in W PROVE r[i] = Cardinality({j \in W : <<j, i>> \in R})
    <3>1. {j \in W : <<j, i>> \in R} = {j \in W : p[j] < p[i]}
      OBVIOUS
    <3> QED
      BY <3>1
  <2> QED
    BY <2>1
<1>2. \A i \in W : <<i, i>> \notin R
  OBVIOUS
<1>3. \A i, j, k \in W : <<i, j>> \in R /\ <<j, k>> \in R => <<i, k>> \in R
  OBVIOUS
<1>4. \A i, j \in W : i # j => <<i, j>> \in R \/ <<j, i>> \in R
  OBVIOUS
<1>5. \A i, j \in W : <<i, j>> \in R <=> p[i] < p[j]
  OBVIOUS
<1>6. P = {i \in W : r[i] < free}
  BY DEF Firsts
<1> HIDE DEF P, R, r
<1>7. /\ \A i \in W : r[i] \in 0..(Cardinality(W) - 1)
      /\ \A i, j \in W : <<i, j>> \in R <=> r[i] < r[j]
      /\ \A i, j \in W : r[i] = r[j] => i = j
  BY <1>1, <1>2, <1>3, <1>4, Ranking
<1>8. {r[i] : i \in W} = 0..(Cardinality(W) - 1)
  <2>1. r \in [W -> 0..(Cardinality(W) - 1)]
    BY <1>7 DEF r
  <2> QED
    BY <1>7, <2>1, AllTaken
<1>9. Cardinality(W) \in Nat
  BY FS_CardinalityType
<1>10. IsFiniteSet(P) /\ P \subseteq W
  BY <1>6, FS_Subset
<1>11. Cardinality(P) \in Nat
  BY <1>10, FS_CardinalityType
<1>12. ASSUME P # W PROVE Cardinality(P) >= free
  <2>1. PICK j \in W : ~ (r[j] < free)
    BY <1>6, <1>12
  <2>2. CASE free <= 0
    BY <1>11, <2>2
  <2>3. CASE free > 0
    <3> DEFINE T == 0..(free - 1)
               g == [i \in P |-> r[i]]
    <3>1. \A i \in P : g[i] \in T
      BY <1>6, <1>7, <1>9, <1>10
    <3>2. \A k \in T : k \in 0..(Cardinality(W) - 1)
      BY <1>7, <1>9, <2>1
    <3>3. \A k \in T : \E i \in P : g[i] = k
      <4>1. ASSUME NEW k \in T PROVE \E i \in P : g[i] = k
        <5>1. PICK i \in W : r[i] = k
          BY <1>8, <3>2
        <5>2. i \in P
          BY <1>6, <5>1
        <5> QED
          BY <5>1, <5>2
      <4> QED
        BY <4>1
    <3>4. Cardinality(T) = free
      BY <2>3, FS_Interval
    <3> HIDE DEF T
    <3>5. g \in Surjection(P, T)
      BY <3>1, <3>3 DEF Surjection
    <3>6. Cardinality(T) <= Cardinality(P)
      BY <1>10, <3>5, FS_Surjection
    <3> QED
      BY <1>11, <3>4, <3>6
  <2> QED
    BY <2>2, <2>3
<1>13. free <= 0 => P = {}
  BY <1>6, <1>7, <1>9
<1>14. ASSUME free <= 1 PROVE Cardinality(P) <= 1
  <2>1. \A i, j \in P : i = j
    BY <1>6, <1>7, <1>9, <1>14
  <2>2. CASE P = {}
    BY <2>2, FS_EmptySet
  <2>3. CASE P # {}
    <3>1. PICK i \in P : P = {i}
      BY <2>1, <2>3
    <3>2. Cardinality({i}) = 1
      BY FS_Singleton
    <3> QED
      BY <3>1, <3>2
  <2> QED
    BY <2>2, <2>3
<1>15. ASSUME NEW i \in P, NEW j \in W \ P PROVE p[i] < p[j]
  <2>1. r[i] \in Int /\ r[j] \in Int /\ r[i] < free /\ ~ (r[j] < free)
    BY <1>6, <1>7, <1>9
  <2>2. i \in W /\ j \in W
    BY <1>10
  <2>3. <<i, j>> \in R
    <3>1. r[i] < r[j]
      BY <2>1
    <3> QED
      BY <1>7, <2>2, <3>1
  <2> QED
    BY <1>5, <2>2, <2>3
<1> QED
  BY <1>10, <1>12, <1>13, <1>14, <1>15 DEF P

\* The torrents that a pass takes out of a queue.
Taken(ts, wait, run, slots) ==
    {i \in With(ts, wait) :
       slots = 0 \/ Ahead(ts, wait, i) < slots - Cardinality(With(ts, run))}

\* A torrent that a pass takes.
TakenOut(t, run, n) == [t EXCEPT !.status = run, !.active = n]

\* What a pass may do to a torrent.
Passed(t, u, wait, run, n) ==
    u = t \/ (t.status = wait /\ u = TakenOut(t, run, n))

\* A pass sets the status of a torrent, and the time of its last activity.
LEMMA PassRow ==
  ASSUME NEW t \in Torrent, NEW run \in ST, NEW n \in Nat
  PROVE  LET u == TakenOut(t, run, n)
         IN  /\ u \in Torrent /\ u.status = run /\ u.active = n
             /\ u.pos = t.pos /\ u.hash = t.hash /\ u.meta = t.meta
             /\ u.valid = t.valid /\ u.unchecked = t.unchecked
             /\ u.left = t.left /\ u.size = t.size
             /\ u.moving = t.moving /\ u.moved = t.moved
  BY DEF TakenOut, Torrent

\* A pass changes the torrents it takes, and these only.
LEMMA PassTakes ==
  ASSUME NEW ts, \A i \in DOMAIN ts : ts[i] \in Torrent, IsFiniteSet(DOMAIN ts),
         NEW wait \in ST, NEW run \in ST, wait # run, NEW slots \in Nat,
         NEW n \in Nat
  PROVE  LET q == Pass(ts, wait, run, slots, n)
             P == Taken(ts, wait, run, slots)
         IN  /\ DOMAIN q = DOMAIN ts /\ P \subseteq With(ts, wait)
             /\ \A i \in DOMAIN ts : /\ q[i] \in Torrent
                                     /\ q[i].pos = ts[i].pos
                                     /\ Passed(ts[i], q[i], wait, run, n)
             /\ With(q, wait) = With(ts, wait) \ P
             /\ With(q, run) = With(ts, run) \cup P
             /\ \A s : s # wait /\ s # run => With(q, s) = With(ts, s)
<1> DEFINE q == Pass(ts, wait, run, slots, n)
           P == Taken(ts, wait, run, slots)
<1>1. P \subseteq With(ts, wait) /\ With(ts, wait) \subseteq DOMAIN ts
  BY DEF Taken, With
<1>2. DOMAIN q = DOMAIN ts
  BY DEF Pass
<1>3. \A i \in DOMAIN ts : q[i] = IF i \in P THEN TakenOut(ts[i], run, n) ELSE ts[i]
  BY DEF Pass, Taken, TakenOut
<1>4. \A i \in DOMAIN ts : /\ TakenOut(ts[i], run, n) \in Torrent /\ TakenOut(ts[i], run, n).status = run
                           /\ TakenOut(ts[i], run, n).pos = ts[i].pos
  BY PassRow
<1>5. \A i \in P : ts[i].status = wait
  BY <1>1 DEF With
<1>6. \A i \in DOMAIN ts : Passed(ts[i], q[i], wait, run, n)
  BY <1>3, <1>5 DEF Passed
<1> HIDE DEF q, P
<1>7. \A i \in DOMAIN ts : q[i] \in Torrent /\ q[i].pos = ts[i].pos
  BY <1>3, <1>4
<1>8. \A i \in DOMAIN ts : q[i].status = IF i \in P THEN run ELSE ts[i].status
  BY <1>3, <1>4
<1>9. With(q, wait) = With(ts, wait) \ P
  BY <1>1, <1>2, <1>8 DEF With
<1>10. With(q, run) = With(ts, run) \cup P
  BY <1>1, <1>2, <1>8 DEF With
<1>11. \A s : s # wait /\ s # run => With(q, s) = With(ts, s)
  BY <1>1, <1>2, <1>5, <1>8 DEF With
<1> QED
  BY <1>1, <1>2, <1>6, <1>7, <1>9, <1>10, <1>11 DEF q, P

\* Those that a pass takes are the first ones of the queue, and they are as many
\* as there is room for.
LEMMA PassServes ==
  ASSUME NEW ts, \A i \in DOMAIN ts : ts[i] \in Torrent, IsFiniteSet(DOMAIN ts),
         InPlace(ts), NEW wait \in ST, NEW run \in ST, wait # run,
         NEW slots \in Nat, NEW n \in Nat
  PROVE  LET q == Pass(ts, wait, run, slots, n)
             P == Taken(ts, wait, run, slots)
         IN  /\ With(q, wait) # {}
                  => slots # 0 /\ Cardinality(With(q, run)) >= slots
             /\ slots = 1 /\ Cardinality(With(ts, run)) <= 1
                  => Cardinality(With(q, run)) <= 1
             /\ \A i \in P, j \in With(q, wait) : ts[i].pos < ts[j].pos
<1> DEFINE q == Pass(ts, wait, run, slots, n)
           W == With(ts, wait)
           R == With(ts, run)
           P == Taken(ts, wait, run, slots)
           free == slots - Cardinality(R)
           p == [i \in W |-> ts[i].pos]
<1>1. W \subseteq DOMAIN ts /\ R \subseteq DOMAIN ts /\ W \cap R = {}
  BY DEF With
<1>2. IsFiniteSet(W) /\ IsFiniteSet(R)
  BY <1>1, FS_Subset
<1>3. Cardinality(R) \in Nat /\ Cardinality(DOMAIN ts) \in Nat
  BY <1>2, FS_CardinalityType
<1>4. free \in Int
  BY <1>3
<1>5. p \in [W -> Int] /\ \A i, j \in W : p[i] = p[j] => i = j
  BY <1>1, <1>3 DEF InPlace
<1>6. With(q, wait) = W \ P /\ With(q, run) = R \cup P /\ P \subseteq W
  BY PassTakes
<1>7. slots = 0 => P = W
  BY DEF Taken
<1>8. slots # 0 => P = Firsts(W, p, free)
  <2>1. \A i \in W : Ahead(ts, wait, i) = Cardinality({j \in W : p[j] < p[i]})
    <3>1. \A i \in W : {j \in W : p[j] < p[i]} = {j \in W : ts[j].pos < ts[i].pos}
      OBVIOUS
    <3> QED
      BY <3>1 DEF Ahead
  <2> QED
    BY <2>1 DEF Taken, Firsts
<1> HIDE DEF q, W, R, P, free
<1>9. slots # 0 => /\ IsFiniteSet(P)
                   /\ P # W => Cardinality(P) >= free
                   /\ free <= 1 => Cardinality(P) <= 1
                   /\ free <= 0 => P = {}
                   /\ \A i \in P : \A j \in W \ P : p[i] < p[j]
  <2> HIDE DEF p
  <2> QED
    BY <1>2, <1>4, <1>5, <1>8, FirstOnes
<1>10. IsFiniteSet(P)
  BY <1>2, <1>6, FS_Subset
<1>11. Cardinality(P) \in Nat
  BY <1>10, FS_CardinalityType
<1>12. Cardinality(R \cup P) = Cardinality(R) + Cardinality(P)
  <2>1. R \cap P = {}
    BY <1>1, <1>6
  <2>2. Cardinality(R \cap P) = 0
    BY <2>1, FS_EmptySet
  <2>3. Cardinality(R \cup P) =
          Cardinality(R) + Cardinality(P) - Cardinality(R \cap P)
    BY <1>2, <1>10, FS_Union
  <2> QED
    BY <1>3, <1>11, <2>2, <2>3
<1>13. ASSUME With(q, wait) # {}
       PROVE  slots # 0 /\ Cardinality(With(q, run)) >= slots
  <2>1. P # W /\ slots # 0
    BY <1>6, <1>7, <1>13
  <2>2. Cardinality(P) >= free
    BY <1>9, <2>1
  <2> QED
    BY <1>3, <1>6, <1>11, <1>12, <2>1, <2>2 DEF free
<1>14. ASSUME slots = 1, Cardinality(R) <= 1
       PROVE  Cardinality(With(q, run)) <= 1
  <2>1. CASE Cardinality(R) = 0
    <3>1. Cardinality(P) <= 1
      BY <1>9, <1>14, <2>1 DEF free
    <3> QED
      BY <1>6, <1>11, <1>12, <2>1, <3>1
  <2>2. CASE Cardinality(R) = 1
    <3>1. P = {}
      BY <1>9, <1>14, <2>2 DEF free
    <3> QED
      BY <1>6, <2>2, <3>1
  <2> QED
    BY <1>3, <1>14, <2>1, <2>2
<1>15. ASSUME NEW i \in P, NEW j \in With(q, wait) PROVE ts[i].pos < ts[j].pos
  <2>1. slots # 0 /\ i \in W /\ j \in W \ P
    BY <1>6, <1>7
  <2> QED
    BY <1>9, <2>1
<1> QED
  BY <1>13, <1>14, <1>15 DEF q, P, R

-----------------------------------------------------------------------------
(* The queue moves on.                                                     *)

\* From ts to q, a queue is served: nobody stays in it while a slot is free, and
\* who comes out of it was ahead of who stays.
Serves(ts, q, wait, run, slots) ==
    /\ With(q, wait) # {} => slots # 0 /\ Cardinality(With(q, run)) >= slots
    /\ \A i \in With(ts, wait) \cap With(q, run), j \in With(q, wait) :
          ts[i].pos < ts[j].pos

\* What promoteQueue may do to a torrent.
Promoted(t, u, n) == \/ Passed(t, u, "DownloadWait", "Download", n)
                     \/ Passed(t, u, "SeedWait", "Seed", n)
                     \/ Passed(t, u, "CheckWait", "Check", n)

\* A pass serves its queue, keeps the places, and leaves the others alone.
LEMMA PassQueue ==
  ASSUME NEW ts, \A i \in DOMAIN ts : ts[i] \in Torrent, IsFiniteSet(DOMAIN ts),
         InPlace(ts), NEW wait \in ST, NEW run \in ST, wait # run,
         NEW slots \in Nat, NEW n \in Nat
  PROVE  LET q == Pass(ts, wait, run, slots, n)
         IN  /\ DOMAIN q = DOMAIN ts /\ InPlace(q)
             /\ \A i \in DOMAIN ts : /\ q[i] \in Torrent
                                     /\ q[i].pos = ts[i].pos
                                     /\ Passed(ts[i], q[i], wait, run, n)
             /\ \A s : s # wait /\ s # run => With(q, s) = With(ts, s)
             /\ Serves(ts, q, wait, run, slots)
             /\ slots = 1 /\ Cardinality(With(ts, run)) <= 1
                  => Cardinality(With(q, run)) <= 1
<1> DEFINE q == Pass(ts, wait, run, slots, n)
           P == Taken(ts, wait, run, slots)
<1>1. /\ DOMAIN q = DOMAIN ts /\ P \subseteq With(ts, wait)
      /\ \A i \in DOMAIN ts : /\ q[i] \in Torrent
                              /\ q[i].pos = ts[i].pos
                              /\ Passed(ts[i], q[i], wait, run, n)
      /\ With(q, wait) = With(ts, wait) \ P
      /\ With(q, run) = With(ts, run) \cup P
      /\ \A s : s # wait /\ s # run => With(q, s) = With(ts, s)
  BY PassTakes
<1>2. /\ With(q, wait) # {} => slots # 0 /\ Cardinality(With(q, run)) >= slots
      /\ slots = 1 /\ Cardinality(With(ts, run)) <= 1
           => Cardinality(With(q, run)) <= 1
      /\ \A i \in P, j \in With(q, wait) : ts[i].pos < ts[j].pos
  BY PassServes
<1> HIDE DEF q, P
<1>3. InPlace(q)
  BY <1>1 DEF InPlace
<1>4. With(ts, wait) \cap With(ts, run) = {}
  BY DEF With
<1>5. Serves(ts, q, wait, run, slots)
  BY <1>1, <1>2, <1>4 DEF Serves
<1> QED
  BY <1>1, <1>2, <1>3, <1>5 DEF q

\* Each pass of promoteQueue serves its queue, and undoes nothing of the others.
LEMMA Promoting ==
  ASSUME NEW ts, \A i \in DOMAIN ts : ts[i] \in Torrent, IsFiniteSet(DOMAIN ts),
         InPlace(ts), NEW s \in Session, NEW n \in Nat
  PROVE  LET q == PromoteQueue(ts, s, n)
         IN  /\ DOMAIN q = DOMAIN ts /\ InPlace(q)
             /\ \A i \in DOMAIN ts : /\ q[i] \in Torrent
                                     /\ q[i].pos = ts[i].pos
                                     /\ Promoted(ts[i], q[i], n)
             /\ Serves(ts, q, "DownloadWait", "Download", s.download)
             /\ Serves(ts, q, "SeedWait", "Seed", s.seed)
             /\ Serves(ts, q, "CheckWait", "Check", 1)
             /\ Cardinality(With(ts, "Check")) <= 1
                  => Cardinality(With(q, "Check")) <= 1
<1> DEFINE a == Pass(ts, "DownloadWait", "Download", s.download, n)
           b == Pass(a, "SeedWait", "Seed", s.seed, n)
           c == Pass(b, "CheckWait", "Check", 1, n)
<1>1. /\ {"DownloadWait", "Download", "SeedWait", "Seed", "CheckWait", "Check"}
           \subseteq ST
      /\ s.download \in Nat /\ s.seed \in Nat /\ 1 \in Nat
  BY DEF ST, Waits, Running, Session
<1>2. /\ DOMAIN a = DOMAIN ts /\ InPlace(a)
      /\ \A i \in DOMAIN ts : /\ a[i] \in Torrent /\ a[i].pos = ts[i].pos
                              /\ Passed(ts[i], a[i], "DownloadWait", "Download", n)
      /\ \A x : x # "DownloadWait" /\ x # "Download" => With(a, x) = With(ts, x)
      /\ Serves(ts, a, "DownloadWait", "Download", s.download)
  BY <1>1, PassQueue
<1> HIDE DEF a
<1>3. /\ DOMAIN b = DOMAIN a /\ InPlace(b)
      /\ \A i \in DOMAIN a : /\ b[i] \in Torrent /\ b[i].pos = a[i].pos
                             /\ Passed(a[i], b[i], "SeedWait", "Seed", n)
      /\ \A x : x # "SeedWait" /\ x # "Seed" => With(b, x) = With(a, x)
      /\ Serves(a, b, "SeedWait", "Seed", s.seed)
  <2>1. /\ \A i \in DOMAIN a : a[i] \in Torrent
        /\ IsFiniteSet(DOMAIN a)
    BY <1>2
  <2> QED
    BY <1>1, <1>2, <2>1, PassQueue
<1> HIDE DEF b
<1>4. /\ DOMAIN c = DOMAIN b /\ InPlace(c)
      /\ \A i \in DOMAIN b : /\ c[i] \in Torrent /\ c[i].pos = b[i].pos
                             /\ Passed(b[i], c[i], "CheckWait", "Check", n)
      /\ \A x : x # "CheckWait" /\ x # "Check" => With(c, x) = With(b, x)
      /\ Serves(b, c, "CheckWait", "Check", 1)
      /\ Cardinality(With(b, "Check")) <= 1 => Cardinality(With(c, "Check")) <= 1
  <2>1. /\ \A i \in DOMAIN b : b[i] \in Torrent
        /\ IsFiniteSet(DOMAIN b)
    BY <1>2, <1>3
  <2> QED
    BY <1>1, <1>3, <2>1, PassQueue
<1>5. PromoteQueue(ts, s, n) = c
  BY DEF PromoteQueue, a, b
<1> HIDE DEF c
<1>6. /\ DOMAIN c = DOMAIN ts
      /\ \A i \in DOMAIN ts : c[i] \in Torrent /\ c[i].pos = ts[i].pos
  BY <1>2, <1>3, <1>4
<1>7. ASSUME NEW i \in DOMAIN ts PROVE Promoted(ts[i], c[i], n)
  <2>1. /\ Passed(ts[i], a[i], "DownloadWait", "Download", n)
        /\ Passed(a[i], b[i], "SeedWait", "Seed", n)
        /\ Passed(b[i], c[i], "CheckWait", "Check", n)
        /\ ts[i] \in Torrent /\ a[i] \in Torrent
    BY <1>2, <1>3, <1>4
  <2>2. /\ a[i] # ts[i] => a[i].status = "Download"
        /\ b[i] # a[i] => b[i].status = "Seed"
    <3>1. TakenOut(ts[i], "Download", n).status = "Download"
      BY <2>1 DEF TakenOut, Torrent
    <3>2. TakenOut(a[i], "Seed", n).status = "Seed"
      BY <2>1 DEF TakenOut, Torrent
    <3> QED
      BY <2>1, <3>1, <3>2 DEF Passed
  <2> QED
    BY <2>1, <2>2 DEF Promoted, Passed
<1>8. /\ \A x \in {"DownloadWait", "Download"} : With(c, x) = With(a, x)
      /\ \A x \in {"SeedWait", "Seed"} : /\ With(a, x) = With(ts, x)
                                         /\ With(c, x) = With(b, x)
      /\ \A x \in {"CheckWait", "Check"} : With(b, x) = With(ts, x)
  BY <1>2, <1>3, <1>4
<1>9. Serves(ts, c, "DownloadWait", "Download", s.download)
  BY <1>2, <1>8 DEF Serves
<1>10. \A i \in DOMAIN ts : a[i].pos = ts[i].pos /\ b[i].pos = ts[i].pos
  BY <1>2, <1>3
<1>11. /\ \A x : With(ts, x) \subseteq DOMAIN ts /\ With(c, x) \subseteq DOMAIN ts
  BY <1>6 DEF With
<1>12. Serves(ts, c, "SeedWait", "Seed", s.seed)
  BY <1>3, <1>8, <1>10, <1>11 DEF Serves
<1>13. Serves(ts, c, "CheckWait", "Check", 1)
  BY <1>4, <1>8, <1>10, <1>11 DEF Serves
<1>14. InPlace(c) /\ (Cardinality(With(ts, "Check")) <= 1
                        => Cardinality(With(c, "Check")) <= 1)
  BY <1>4, <1>8
<1> QED
  BY <1>5, <1>6, <1>7, <1>9, <1>12, <1>13, <1>14

-----------------------------------------------------------------------------
(* One torrent.                                                            *)

\* The smaller of two numbers.
LEMMA MinPair ==
  ASSUME NEW a \in Nat, NEW b \in Nat
  PROVE  Min({a, b}) = IF a <= b THEN a ELSE b
<1>1. \E x \in {a, b} : \A y \in {a, b} : x <= y
  OBVIOUS
<1>2. Min({a, b}) \in {a, b} /\ \A y \in {a, b} : Min({a, b}) <= y
  BY <1>1 DEF Min
<1> QED
  BY <1>2

\* The larger of two numbers.
LEMMA MaxPair ==
  ASSUME NEW a \in Nat, NEW b \in Nat
  PROVE  Max({a, b}) = IF a >= b THEN a ELSE b
<1>1. \E x \in {a, b} : \A y \in {a, b} : x >= y
  OBVIOUS
<1>2. Max({a, b}) \in {a, b} /\ \A y \in {a, b} : Max({a, b}) >= y
  BY <1>1 DEF Max
<1> QED
  BY <1>2

\* A torrent is of its type, adds up unless it is being verified, does not seed
\* what it knows nothing of, and what moves has moved in the last tick.
Sound(t) ==
    /\ t \in Torrent
    /\ t.meta /\ ~IsChecking(t) => t.valid + t.left = t.size /\ t.unchecked = 0
    /\ ~t.meta => t.status \notin {"Seed", "SeedWait"}
    /\ t.moving => t.moved

\* The fields of two torrents that reconcile leaves alone.
SameApart(t, u) ==
    /\ u.hash = t.hash /\ u.status = t.status /\ u.prev = t.prev
    /\ u.meta = t.meta /\ u.size = t.size /\ u.moving = t.moving
    /\ u.moved = t.moved /\ u.pos = t.pos /\ u.active = t.active

\* reconcile keeps the type, and makes the numbers add up.
LEMMA ReconciledRow ==
  ASSUME NEW t \in Torrent
  PROVE  LET u == Reconciled(t)
         IN  /\ u \in Torrent /\ SameApart(t, u)
             /\ ~t.meta => u = t
             /\ t.meta => /\ u.valid = IF t.size <= t.valid THEN t.size ELSE t.valid
                          /\ u.unchecked = IF t.size - u.valid <= t.unchecked
                                           THEN t.size - u.valid ELSE t.unchecked
                          /\ u.left = t.size - u.valid - u.unchecked
<1> DEFINE v == Min({t.size, t.valid})
           w == Min({t.size - v, t.unchecked})
           u == Reconciled(t)
<1>1. t.size \in Nat /\ t.valid \in Nat /\ t.unchecked \in Nat /\ t.meta \in BOOLEAN
  BY DEF Torrent
<1>2. v = IF t.size <= t.valid THEN t.size ELSE t.valid
  BY <1>1, MinPair
<1>3. v \in Nat /\ t.size - v \in Nat
  <2> HIDE DEF v
  <2> QED
    BY <1>1, <1>2
<1>4. w = IF t.size - v <= t.unchecked THEN t.size - v ELSE t.unchecked
  <2> HIDE DEF v
  <2> QED
    BY <1>1, <1>3, MinPair
<1>5. w \in Nat /\ t.size - v - w \in Nat
  <2> HIDE DEF v, w
  <2> QED
    BY <1>1, <1>3, <1>4
<1>6. t.meta => u = [t EXCEPT !.valid = v, !.unchecked = w, !.left = t.size - v - w,
                              !.full = t.size > 0 /\ v >= t.size]
  BY DEF Reconciled
<1>7. ~t.meta => u = t
  BY DEF Reconciled
<1> HIDE DEF u, v, w
<1>8. (t.size > 0 /\ v >= t.size) \in BOOLEAN
  OBVIOUS
<1>9. t.meta => /\ u \in Torrent /\ SameApart(t, u)
                /\ u.valid = v /\ u.unchecked = w /\ u.left = t.size - v - w
  BY <1>3, <1>5, <1>6, <1>8 DEF Torrent, SameApart
<1>10. ~t.meta => u \in Torrent /\ SameApart(t, u)
  BY <1>7 DEF SameApart
<1> QED
  BY <1>1, <1>2, <1>4, <1>7, <1>9, <1>10 DEF u

\* What reconcile makes of a torrent with nothing unchecked adds up, and with
\* what is there no more than its size, it is only left that changes.
LEMMA ReconciledSound ==
  ASSUME NEW t \in Torrent, t.unchecked = 0
  PROVE  LET u == Reconciled(t)
         IN  /\ u \in Torrent /\ SameApart(t, u)
             /\ t.meta => u.valid + u.left = u.size /\ u.unchecked = 0
             /\ t.valid <= t.size => u.valid = t.valid /\ u.unchecked = 0
<1>1. t.size \in Nat /\ t.valid \in Nat /\ t.meta \in BOOLEAN
  BY DEF Torrent
<1> QED
  BY <1>1, ReconciledRow DEF SameApart

\* A sound torrent after a change of an operation: in its place, and not in the
\* middle of a verify if it was not before.
Kin(t, u) == /\ Sound(u) /\ u.hash = t.hash /\ u.pos = t.pos
             /\ u.status = "Check" => t.status = "Check"

\* Being touched keeps a torrent sound.
LEMMA TouchedRow ==
  ASSUME NEW t, Sound(t), NEW n \in Nat
  PROVE  LET u == [t EXCEPT !.active = n]
         IN  Kin(t, u) /\ u.status = t.status /\ u.active = n /\ Row(u) = Row(t)
<1>1. t \in Torrent
  BY DEF Sound
<1> QED
  BY <1>1 DEF Sound, Kin, Torrent, IsChecking, Row

\* Being put in another place keeps a torrent sound.
LEMMA PlacedRow ==
  ASSUME NEW t, Sound(t), NEW k \in Nat
  PROVE  LET u == [t EXCEPT !.pos = k]
         IN  /\ Sound(u) /\ u.status = t.status /\ u.hash = t.hash
             /\ u.active = t.active /\ u.pos = k /\ Row(u) = Row(t)
<1>1. t \in Torrent
  BY DEF Sound
<1> QED
  BY <1>1 DEF Sound, Torrent, IsChecking, Row

\* So does coming out of a queue, which is an activity.
LEMMA PromotedRow ==
  ASSUME NEW t, Sound(t), NEW n \in Nat, NEW u, Promoted(t, u, n)
  PROVE  /\ Sound(u) /\ u.hash = t.hash /\ u.pos = t.pos
         /\ u = t \/ (u.active = n /\ t.status \in Waits
                      /\ u.status \in {"Download", "Seed", "Check"})
<1>1. t \in Torrent
  BY DEF Sound
<1>2. ASSUME NEW w, NEW r, Passed(t, u, w, r, n), u # t,
             <<w, r>> \in {<<"DownloadWait", "Download">>, <<"SeedWait", "Seed">>,
                           <<"CheckWait", "Check">>}
      PROVE  /\ Sound(u) /\ u.hash = t.hash /\ u.pos = t.pos /\ u.active = n
             /\ t.status = w /\ u.status = r
  <2>1. t.status = w /\ u = TakenOut(t, r, n) /\ r \in ST
    BY <1>2 DEF Passed, ST, Running
  <2>2. /\ u \in Torrent /\ u.status = r /\ u.active = n
        /\ u.pos = t.pos /\ u.hash = t.hash /\ u.meta = t.meta
        /\ u.valid = t.valid /\ u.unchecked = t.unchecked
        /\ u.left = t.left /\ u.size = t.size
        /\ u.moving = t.moving /\ u.moved = t.moved
    BY <1>1, <2>1, PassRow
  <2> QED
    BY <1>2, <2>1, <2>2 DEF Sound, IsChecking
<1> QED
  BY <1>2 DEF Promoted, Passed, Waits

\* What torrent_start starts waits.
LEMMA StartedRow ==
  ASSUME NEW t, Sound(t), ~IsChecking(t)
  PROVE  Kin(t, Started(t)) /\ Started(t).status \in {"SeedWait", "DownloadWait"}
<1>1. t \in Torrent
  BY DEF Sound
<1> QED
  BY <1>1 DEF Started, Sound, Kin, Torrent, IsChecking, ST, Waits

\* What torrent_start_now starts runs.
LEMMA StartedNowRow ==
  ASSUME NEW t, Sound(t), ~IsChecking(t)
  PROVE  Kin(t, StartedNow(t)) /\ StartedNow(t).status \in Running
<1>1. t \in Torrent
  BY DEF Sound
<1> QED
  BY <1>1 DEF StartedNow, Sound, Kin, Torrent, IsChecking, ST, Running

\* The bytes of a verify that is cancelled are there again.
LEMMA StoppedRow ==
  ASSUME NEW t, Sound(t)
  PROVE  Kin(t, Stopped(t)) /\ Stopped(t).status = "Stopped"
<1>1. t \in Torrent
  BY DEF Sound
<1> DEFINE sum == t.valid + t.unchecked
           v == [t EXCEPT !.valid = sum, !.unchecked = 0]
           u == IF IsChecking(t) THEN Reconciled(v) ELSE t
<1>2. sum \in Nat
  BY <1>1 DEF Torrent
<1> HIDE DEF sum
<1>3. v \in Torrent /\ v.unchecked = 0 /\ SameApart(t, v)
  BY <1>1, <1>2 DEF Torrent, SameApart
<1>4. Stopped(t) = [u EXCEPT !.status = "Stopped", !.moving = FALSE]
  BY DEF Stopped, sum
<1> HIDE DEF v
<1>5. /\ u \in Torrent /\ SameApart(t, u)
      /\ u.meta => u.valid + u.left = u.size /\ u.unchecked = 0
  <2>1. CASE IsChecking(t)
    BY <1>3, <2>1, ReconciledSound DEF SameApart
  <2>2. CASE ~IsChecking(t)
    BY <1>1, <2>2 DEF SameApart, Sound
  <2> QED
    BY <2>1, <2>2
<1> HIDE DEF u
<1> QED
  BY <1>4, <1>5 DEF Sound, Kin, Torrent, IsChecking, SameApart, ST

\* What is to be verified waits for it.
LEMMA VerifyingRow ==
  ASSUME NEW t, Sound(t)
  PROVE  Kin(t, Verifying(t)) /\ Verifying(t).status = "CheckWait"
<1>1. t \in Torrent
  BY DEF Sound
<1> DEFINE p == IF t.status = "Stopped" THEN "Stopped"
                ELSE IF t.full THEN "Seed" ELSE "Download"
<1>2. p \in {"Stopped"} \cup Running
  BY DEF Running
<1>3. t.valid \in Nat /\ "CheckWait" \in ST
  BY <1>1 DEF Torrent, ST, Waits
<1> DEFINE v == Unchecked(t)
           u == Verifying(t)
<1>4. v \in Torrent /\ SameApart(t, v)
  BY <1>1, <1>3 DEF Unchecked, Torrent, SameApart
<1>5. u = [v EXCEPT !.status = "CheckWait", !.prev = p]
  BY DEF Verifying
<1> HIDE DEF p, v
<1>6. /\ u \in Torrent /\ u.status = "CheckWait" /\ u.hash = t.hash
      /\ u.pos = t.pos /\ u.moving = t.moving /\ u.moved = t.moved
  BY <1>4, <1>2, <1>3, <1>5 DEF Torrent, SameApart
<1> HIDE DEF u
<1>7. Sound(u)
  BY <1>6 DEF Sound, IsChecking
<1> QED
  BY <1>6, <1>7 DEF Kin, u

\* The totals of the files that are wanted add up.
LEMMA WantedRow ==
  ASSUME NEW t, Sound(t), NEW on \in SUBSET File, NEW off \in SUBSET File
  PROVE  Kin(t, WithWanted(t, on, off)) /\ WithWanted(t, on, off).status = t.status
<1>1. t \in Torrent
  BY DEF Sound
<1> DEFINE want == (t.want \cup (on \cap t.files)) \ off
           v == [t EXCEPT !.want = want, !.size = Cardinality(want),
                          !.valid = Cardinality(want \cap t.done)]
<1>2. want \in SUBSET File
  BY <1>1 DEF Torrent
<1>3. IsFiniteSet(want) /\ IsFiniteSet(want \cap t.done)
  BY <1>2, SimAssumption, FS_Subset
<1>4. Cardinality(want) \in Nat /\ Cardinality(want \cap t.done) \in Nat
  BY <1>3, FS_CardinalityType
<1>5. WithWanted(t, on, off) = Reconciled(v)
  BY DEF WithWanted
<1> HIDE DEF want
<1>6. /\ v \in Torrent /\ v.hash = t.hash /\ v.pos = t.pos /\ v.status = t.status
      /\ v.meta = t.meta /\ v.unchecked = t.unchecked
      /\ v.moving = t.moving /\ v.moved = t.moved
  BY <1>1, <1>2, <1>4 DEF Torrent
<1> HIDE DEF v
<1>7. Reconciled(v) \in Torrent /\ SameApart(v, Reconciled(v))
  BY <1>6, ReconciledRow
<1>8. v.unchecked = 0 /\ v.meta
        => /\ Reconciled(v).valid + Reconciled(v).left = Reconciled(v).size
           /\ Reconciled(v).unchecked = 0
  BY <1>6, ReconciledSound
<1> QED
  BY <1>5, <1>6, <1>7, <1>8 DEF Sound, Kin, IsChecking, SameApart

\* What is built is sound: nothing unchecked, and no more there than is wanted.
LEMMA BuiltRow ==
  ASSUME NEW hash \in Hash, NEW status \in ST, NEW files \in SUBSET File,
         NEW want \in SUBSET File, NEW have \in Nat, NEW at \in Nat,
         files = {} => status \notin {"Seed", "SeedWait"}
  PROVE  LET t == Built(hash, status, [files |-> files, want |-> want], have, at)
         IN  /\ Sound(t) /\ t.hash = hash /\ t.status = status /\ t.active = at
             /\ t.unchecked = 0 /\ t.valid = IF have <= Cardinality(want) THEN have
                                             ELSE Cardinality(want)
<1> DEFINE list == [files |-> files, want |-> want]
           n == Cardinality(want)
           valid == Min({have, n})
           done == Spread(want, valid)
           runsNow == status \in Running
           b == [hash |-> hash, status |-> status,
                 prev |-> "Download", meta |-> files # {},
                 files |-> files, want |-> want,
                 done |-> done, size |-> n, valid |-> valid,
                 unchecked |-> 0, left |-> 0, full |-> FALSE,
                 moving |-> runsNow, moved |-> runsNow,
                 pos |-> 0, active |-> at]
           t == Built(hash, status, list, have, at)
<1>1. n \in Nat
  <2>1. IsFiniteSet(want)
    BY SimAssumption, FS_Subset
  <2> QED
    BY <2>1, FS_CardinalityType
<1>2. valid = IF have <= n THEN have ELSE n
  <2> HIDE DEF n
  <2> QED
    BY <1>1, MinPair
<1>3. done \in SUBSET File
  BY DEF Spread
<1>4. t = Reconciled(b)
  BY DEF Built
<1> HIDE DEF n, valid, done
<1>5. valid \in Nat /\ valid <= n
  BY <1>1, <1>2
<1>6. runsNow \in BOOLEAN /\ (files # {}) \in BOOLEAN /\ "Download" \in {"Stopped"} \cup Running
  BY DEF Running
<1> HIDE DEF runsNow
<1>7. b \in Torrent
  BY <1>1, <1>3, <1>5, <1>6 DEF Torrent
<1>8. /\ b.hash = hash /\ b.status = status /\ b.meta = (files # {}) /\ b.size = n
      /\ b.valid = valid /\ b.unchecked = 0 /\ b.moving = runsNow /\ b.moved = runsNow
      /\ b.active = at
  OBVIOUS
<1> HIDE DEF b, t
<1>9. /\ t \in Torrent /\ SameApart(b, t)
      /\ b.meta => t.valid + t.left = t.size /\ t.unchecked = 0
      /\ t.valid = b.valid /\ t.unchecked = 0
  BY <1>4, <1>5, <1>7, <1>8, ReconciledSound
<1>10. Sound(t)
  BY <1>6, <1>8, <1>9 DEF Sound, SameApart
<1> QED
  BY <1>2, <1>8, <1>9, <1>10 DEF t, n, SameApart

\* simFieldsFor changes only what a verify goes back to.
LEMMA SimFieldsRow ==
  ASSUME NEW t, Sound(t)
  PROVE  LET u == WithSimFields(t)
         IN  Sound(u) /\ u.hash = t.hash /\ u.status = t.status /\ u.active = t.active
<1>1. t \in Torrent
  BY DEF Sound
<1> QED
  BY <1>1 DEF WithSimFields, Sound, Torrent, IsChecking, Running

\* What is added is sound, and active now.
LEMMA AddedRow ==
  ASSUME NEW hash \in Hash, NEW files \in SUBSET File, NEW off \in SUBSET File,
         NEW paused \in BOOLEAN, Stamp \in Nat, IsFiniteSet(DOMAIN torrents)
  PROVE  LET u == Added(hash, [files |-> files, want |-> files], off, paused)
         IN  /\ Sound(u) /\ u.hash = hash /\ u.active = Stamp
             /\ u.status \in {"Stopped", "DownloadWait"}
<1> DEFINE list == [files |-> files, want |-> files]
           status == IF paused THEN "Stopped" ELSE "Download"
           t == Built(hash, status, list, 0, Stamp)
           left == t.want \ off
           n == Cardinality(left)
           v == [t EXCEPT !.want = left, !.size = n]
           w == Reconciled(v)
           u == WithSimFields(w)
           k == Cardinality(DOMAIN torrents)
           z == IF paused THEN u.status ELSE "DownloadWait"
<1>1. status \in ST /\ status \notin {"Seed", "SeedWait", "Check", "CheckWait"}
  BY DEF ST, Running
<1>2. Cardinality(files) \in Nat
  <2>1. IsFiniteSet(files)
    BY SimAssumption, FS_Subset
  <2> QED
    BY <2>1, FS_CardinalityType
<1>3. /\ Sound(t) /\ t.hash = hash /\ t.status = status /\ t.active = Stamp
      /\ t.unchecked = 0 /\ t.valid = 0
  <2> HIDE DEF status
  <2> QED
    BY <1>1, <1>2, BuiltRow
<1> HIDE DEF t, status
<1>4. t \in Torrent
  BY <1>3 DEF Sound
<1>5. left \in SUBSET File
  BY <1>4 DEF Torrent
<1>6. n \in Nat
  <2>1. IsFiniteSet(left)
    BY <1>5, SimAssumption, FS_Subset
  <2> QED
    BY <2>1, FS_CardinalityType
<1> HIDE DEF n, left
<1>7. /\ v \in Torrent /\ v.hash = t.hash /\ v.status = t.status /\ v.active = t.active
      /\ v.unchecked = t.unchecked /\ v.valid = t.valid /\ v.meta = t.meta
      /\ v.moving = t.moving /\ v.moved = t.moved
  BY <1>4, <1>5, <1>6 DEF Torrent
<1> HIDE DEF v
<1>8. /\ w \in Torrent /\ SameApart(v, w)
      /\ v.meta => w.valid + w.left = w.size /\ w.unchecked = 0
  BY <1>3, <1>7, ReconciledSound
<1> HIDE DEF w
<1>9. Sound(w)
  BY <1>3, <1>7, <1>8 DEF Sound, SameApart
<1>10. /\ Sound(u) /\ u.hash = hash /\ u.active = Stamp /\ u.status = status
  BY <1>3, <1>7, <1>8, <1>9, SimFieldsRow DEF SameApart
<1> HIDE DEF u
<1>11. k \in Nat
  BY FS_CardinalityType
<1>12. z \in {"Stopped", "DownloadWait"} /\ z \in ST
  BY <1>10 DEF status, ST, Waits
<1>13. Added(hash, list, off, paused) = [u EXCEPT !.status = z, !.pos = k]
  BY DEF Added, u, w, v, n, left, t, status
<1> HIDE DEF z, k
<1>14. u \in Torrent /\ ~IsChecking(u)
  BY <1>1, <1>10 DEF Sound, IsChecking
<1> DEFINE a == [u EXCEPT !.status = z, !.pos = k]
<1>15. /\ a \in Torrent /\ a.status = z /\ a.hash = u.hash /\ a.active = u.active
       /\ a.meta = u.meta /\ a.valid = u.valid /\ a.left = u.left /\ a.size = u.size
       /\ a.unchecked = u.unchecked /\ a.moving = u.moving /\ a.moved = u.moved
  BY <1>11, <1>12, <1>14 DEF Torrent
<1> HIDE DEF a
<1>16. Sound(a)
  BY <1>10, <1>12, <1>14, <1>15 DEF Sound
<1> QED
  BY <1>10, <1>12, <1>13, <1>15, <1>16 DEF a

-----------------------------------------------------------------------------
(* A torrent in a tick.                                                    *)

\* A torrent after a step, before the activity is noted; told says that it counts
\* as a change.
Next1(t, v, told) ==
    /\ v \in Torrent /\ v.hash = t.hash /\ v.pos = t.pos /\ v.active = t.active
    /\ v.meta /\ ~IsChecking(v) => v.valid + v.left = v.size /\ v.unchecked = 0
    /\ ~v.meta => v.status \notin {"Seed", "SeedWait"}
    /\ v.status = "Check" => t.status = "Check"
    /\ t.status \in Waits => v.status = t.status
    /\ ~told /\ ~v.moving /\ ~t.moved => Row(v) = Row(t)

\* A magnet that learns what it is.
LEMMA MaterializedRow ==
  ASSUME NEW t, Sound(t), t.status = "Download", NEW list \in FileLists, NEW m \in BOOLEAN
  PROVE  Next1(t, [Materialized(t, list) EXCEPT !.moving = m], TRUE)
<1> DEFINE files == list.files
           want == list.want
           n == Cardinality(files)
           u == Materialized(t, list)
           v == [u EXCEPT !.moving = m]
<1>1. t \in Torrent
  BY DEF Sound
<1>2. files \in SUBSET File /\ want \in SUBSET File
  BY DEF FileLists
<1>3. n \in Nat
  <2>1. IsFiniteSet(files)
    BY <1>2, SimAssumption, FS_Subset
  <2> QED
    BY <2>1, FS_CardinalityType
<1>4. u = [t EXCEPT !.files = files, !.want = want, !.done = {},
                    !.size = n, !.valid = 0, !.unchecked = 0,
                    !.left = n, !.full = FALSE, !.meta = TRUE]
  BY DEF Materialized
<1> HIDE DEF files, want, n, u
<1>5. /\ u \in Torrent /\ u.hash = t.hash /\ u.pos = t.pos /\ u.active = t.active
      /\ u.size = n /\ u.valid = 0 /\ u.unchecked = 0 /\ u.left = n
      /\ u.status = t.status /\ u.meta = TRUE
  BY <1>1, <1>2, <1>3, <1>4 DEF Torrent
<1>6. /\ v \in Torrent /\ v.hash = t.hash /\ v.pos = t.pos /\ v.active = t.active
      /\ v.size = n /\ v.valid = 0 /\ v.unchecked = 0 /\ v.left = n
      /\ v.status = "Download" /\ v.meta = TRUE
  BY <1>5 DEF Torrent
<1> HIDE DEF v
<1>7. Next1(t, v, TRUE)
  BY <1>3, <1>6 DEF Next1, Waits
<1> QED
  BY <1>7 DEF v, u

\* The end of a verify.
LEMMA VerifiedRow ==
  ASSUME NEW t, Sound(t), t.meta, t.status = "Check"
  PROVE  Next1(t, Verified(t), TRUE)
<1> DEFINE sum == t.valid + t.unchecked
           b == [t EXCEPT !.valid = sum, !.unchecked = 0]
           v == Reconciled(b)
           s == IF v.prev = "Stopped" THEN "Stopped"
                ELSE IF v.full THEN "SeedWait" ELSE "DownloadWait"
           u == [v EXCEPT !.status = s, !.moving = FALSE]
<1>1. t \in Torrent
  BY DEF Sound
<1>2. sum \in Nat
  BY <1>1 DEF Torrent
<1>3. Verified(t) = u
  BY DEF Verified
<1> HIDE DEF sum
<1>4. b \in Torrent /\ b.unchecked = 0 /\ SameApart(t, b)
  BY <1>1, <1>2 DEF Torrent, SameApart
<1> HIDE DEF b
<1>5. /\ v \in Torrent /\ SameApart(b, v)
      /\ b.meta => v.valid + v.left = v.size /\ v.unchecked = 0
  BY <1>4, ReconciledSound
<1>6. s \in {"Stopped", "SeedWait", "DownloadWait"} /\ s \in ST
  BY DEF ST, Waits
<1> HIDE DEF v, s
<1>7. /\ u \in Torrent /\ u.status = s /\ u.hash = v.hash /\ u.pos = v.pos
      /\ u.active = v.active /\ u.meta = v.meta /\ u.valid = v.valid
      /\ u.left = v.left /\ u.size = v.size /\ u.unchecked = v.unchecked
  BY <1>5, <1>6 DEF Torrent
<1> HIDE DEF u
<1>8. Next1(t, u, TRUE)
  BY <1>4, <1>5, <1>6, <1>7 DEF Next1, SameApart, Waits
<1> QED
  BY <1>3, <1>8

\* A torrent that runs, moving or not and gaining k.
LEMMA RanRow ==
  ASSUME NEW t, Sound(t), t.meta, t.status \in Running, NEW m \in BOOLEAN,
         NEW k \in Nat, ~m => k = 0, NEW x \in Ran(t, <<m, k>>)
  PROVE  \E v, told : x = <<v, told>> /\ Next1(t, v, told)
<1> DEFINE sum == t.valid + k
           b == [t EXCEPT !.valid = sum, !.moving = m]
           got == Reconciled(b)
           ends == t.status = "Download" /\ got.left = 0
           on == IF ends THEN [got EXCEPT !.status = "Seed", !.full = TRUE] ELSE got
           stops == [on EXCEPT !.status = "Stopped", !.moving = FALSE]
           checks == [Unchecked(on) EXCEPT !.status = "CheckWait", !.prev = "Seed"]
<1>1. t \in Torrent
  BY DEF Sound
<1>2. /\ t.valid \in Nat /\ t.left \in Nat /\ t.size \in Nat
      /\ t.valid + t.left = t.size /\ t.unchecked = 0
      /\ t.status \in {"Download", "Seed"} /\ ~IsChecking(t)
  BY <1>1 DEF Torrent, Sound, Running, IsChecking
<1>3. sum \in Nat /\ (~m => sum = t.valid)
  BY <1>2
<1> HIDE DEF sum
<1>4. /\ b \in Torrent /\ b.unchecked = 0 /\ b.hash = t.hash /\ b.pos = t.pos
      /\ b.active = t.active /\ b.status = t.status /\ b.meta = t.meta
      /\ b.size = t.size /\ b.valid = sum /\ b.moving = m /\ b.moved = t.moved
  BY <1>1, <1>2, <1>3 DEF Torrent
<1> HIDE DEF b
<1>5. /\ got \in Torrent /\ SameApart(b, got)
      /\ got.valid + got.left = got.size /\ got.unchecked = 0
      /\ ~m => got.valid = t.valid
  <2>1. ~m => b.valid <= b.size
    BY <1>2, <1>3, <1>4
  <2>2. b.meta
    BY <1>4
  <2> QED
    BY <1>3, <1>4, <2>1, <2>2, ReconciledSound
<1> HIDE DEF got
<1>6. got.left \in Nat /\ got.valid \in Nat
  BY <1>5 DEF Torrent
<1>7. ~m => got.left = t.left
  BY <1>2, <1>4, <1>5, <1>6 DEF SameApart
<1>8. /\ on \in Torrent /\ on.hash = got.hash /\ on.pos = got.pos
      /\ on.active = got.active /\ on.meta = got.meta /\ on.size = got.size
      /\ on.valid = got.valid /\ on.left = got.left /\ on.unchecked = 0
      /\ on.moving = got.moving
      /\ on.status = IF ends THEN "Seed" ELSE got.status
  <2>1. CASE ends
    <3>1. "Seed" \in ST
      BY DEF ST, Running
    <3> QED
      BY <1>5, <2>1, <3>1 DEF Torrent
  <2>2. CASE ~ends
    BY <1>5, <2>2
  <2> QED
    BY <2>1, <2>2
<1>9. on.status \in {"Download", "Seed"} /\ (ends \/ on.status = t.status)
  BY <1>2, <1>4, <1>5, <1>8 DEF SameApart
<1>10. x \in {<<on, ends>>, <<stops, TRUE>>, <<checks, TRUE>>}
  <2>1. Ran(t, <<m, k>>) = {<<on, ends>>} \cup
          IF on.status # "Seed" THEN {} ELSE {<<stops, TRUE>>, <<checks, TRUE>>}
    BY DEF Ran, got, b, sum
  <2> HIDE DEF on, ends, stops, checks
  <2> QED
    BY <2>1
<1>11. Next1(t, on, ends)
  <2> HIDE DEF on, ends
  <2>1. on.hash = t.hash /\ on.pos = t.pos /\ on.active = t.active /\ on.meta
    BY <1>4, <1>5, <1>8 DEF SameApart
  <2>2. ~ends /\ ~on.moving => Row(on) = Row(t) \/ t.moved
    <3>1. ASSUME ~ends, ~on.moving PROVE Row(on) = Row(t) \/ t.moved
      <4>1. ~m /\ on.moving = m
        BY <1>4, <1>5, <1>8, <3>1 DEF SameApart
      <4>2. /\ on.status = t.status /\ on.valid = t.valid /\ on.left = t.left
            /\ on.unchecked = t.unchecked
        BY <1>2, <1>5, <1>7, <1>8, <1>9, <3>1, <4>1
      <4>3. t.moving \in BOOLEAN /\ on.moving \in BOOLEAN
        BY <1>1, <1>8 DEF Torrent
      <4>4. t.moving => t.moved
        BY DEF Sound
      <4>5. CASE t.moving
        BY <4>4, <4>5
      <4>6. CASE ~t.moving
        <5>1. on.moving = t.moving
          BY <3>1, <4>3, <4>6
        <5> QED
          BY <4>2, <5>1 DEF Row
      <4> QED
        BY <4>5, <4>6
    <3> QED
      BY <3>1
  <2>3. on.status \notin {"Check"} /\ t.status \notin Waits
    BY <1>2, <1>9 DEF Waits
  <2> QED
    BY <1>5, <1>8, <1>9, <2>1, <2>2, <2>3 DEF Next1
<1> HIDE DEF on
<1>12. Next1(t, stops, TRUE)
  <2>1. /\ stops \in Torrent /\ stops.hash = on.hash /\ stops.pos = on.pos
        /\ stops.active = on.active /\ stops.meta = on.meta /\ stops.size = on.size
        /\ stops.valid = on.valid /\ stops.left = on.left /\ stops.unchecked = 0
        /\ stops.status = "Stopped"
    <3>1. "Stopped" \in ST
      BY DEF ST
    <3> QED
      BY <1>8, <3>1 DEF Torrent
  <2> HIDE DEF stops
  <2> QED
    BY <1>2, <1>4, <1>5, <1>8, <2>1 DEF Next1, SameApart, Waits
<1>13. Next1(t, checks, TRUE)
  <2> DEFINE v == Unchecked(on)
  <2>1. on.valid \in Nat
    BY <1>8 DEF Torrent
  <2>2. v \in Torrent /\ SameApart(on, v)
    BY <1>8, <2>1 DEF Unchecked, Torrent, SameApart
  <2> HIDE DEF v
  <2>3. "CheckWait" \in ST /\ "Seed" \in {"Stopped"} \cup Running
    BY DEF ST, Waits, Running
  <2>4. /\ checks \in Torrent /\ checks.hash = v.hash /\ checks.pos = v.pos
        /\ checks.active = v.active /\ checks.meta = v.meta
        /\ checks.status = "CheckWait"
    <3>1. checks = [v EXCEPT !.status = "CheckWait", !.prev = "Seed"]
      BY DEF v
    <3> HIDE DEF checks
    <3> QED
      BY <2>2, <2>3, <3>1 DEF Torrent
  <2> HIDE DEF checks
  <2> QED
    BY <1>2, <1>4, <1>5, <1>8, <2>2, <2>4 DEF Next1, SameApart, Waits, IsChecking
<1> QED
  BY <1>10, <1>11, <1>12, <1>13

\* A torrent that moves or not.
Moving(t, m) == [t EXCEPT !.moving = m]

\* What advance may make of a torrent.
LEMMA AdvanceRow ==
  ASSUME NEW t, Sound(t), NEW x \in Advance(t)
  PROVE  \E v, told : x = <<v, told>> /\ Next1(t, v, told)
<1>1. t \in Torrent
  BY DEF Sound
<1>2. CASE ~t.meta /\ t.status = "Download"
  <2> DEFINE U == {t} \cup {Materialized(t, list) : list \in FileLists}
  <2>1. PICK y \in Sought(t) : x = <<y, TRUE>>
    BY <1>2 DEF Advance
  <2>2. Sought(t) = {Moving(u, m) : m \in BOOLEAN, u \in U}
    BY DEF Sought, Moving
  <2>3. PICK m \in BOOLEAN, u \in U : x = <<Moving(u, m), TRUE>>
    <3> HIDE DEF U
    <3> QED
      BY <2>1, <2>2
  <2>4. CASE u = t
    <3> DEFINE v == [t EXCEPT !.moving = m]
    <3>1. /\ v \in Torrent /\ v.hash = t.hash /\ v.pos = t.pos /\ v.active = t.active
          /\ v.status = t.status /\ v.meta = t.meta
      BY <1>1 DEF Torrent
    <3> HIDE DEF v
    <3>2. Next1(t, v, TRUE)
      BY <1>2, <3>1 DEF Next1
    <3> QED
      BY <2>3, <2>4, <3>2 DEF v, Moving
  <2>5. CASE u # t
    <3>1. PICK list \in FileLists : u = Materialized(t, list)
      BY <2>5
    <3>2. Next1(t, [u EXCEPT !.moving = m], TRUE)
      BY <1>2, <3>1, MaterializedRow
    <3> QED
      BY <2>3, <3>2 DEF Moving
  <2> QED
    BY <2>4, <2>5
<1> DEFINE q == [t EXCEPT !.moving = FALSE]
<1>3. /\ q \in Torrent /\ q.hash = t.hash /\ q.pos = t.pos /\ q.active = t.active
      /\ q.status = t.status /\ q.meta = t.meta /\ q.valid = t.valid
      /\ q.left = t.left /\ q.size = t.size /\ q.unchecked = t.unchecked
      /\ q.moving = FALSE
  BY <1>1 DEF Torrent
<1>4. \A told : Next1(t, q, told)
  <2> HIDE DEF q
  <2>1. ~t.moved => t.moving = FALSE
    BY <1>1 DEF Sound, Torrent
  <2>2. ~t.moved => Row(q) = Row(t)
    BY <1>3, <2>1 DEF Row
  <2> QED
    BY <1>3, <2>2 DEF Next1, Sound, IsChecking
<1>5. CASE t.meta /\ t.status = "Check"
  <2>1. x \in {<<q, TRUE>>, <<Verified(t), TRUE>>}
    <3>1. Advance(t) = {<<q, TRUE>>, <<Verified(t), TRUE>>}
      BY <1>5 DEF Advance, Running
    <3> HIDE DEF q
    <3> QED
      BY <3>1
  <2>2. Next1(t, Verified(t), TRUE)
    BY <1>5, VerifiedRow
  <2> QED
    BY <1>4, <2>1, <2>2
<1>6. CASE t.meta /\ t.status \in Running
  <2>1. t.status # "Check" /\ t.meta = TRUE
    BY <1>1, <1>6 DEF Running, Torrent
  <2>2. PICK r \in Rates(t) : x \in Ran(t, r)
    BY <1>6, <2>1 DEF Advance
  <2>3. CASE r = <<FALSE, 0>>
    BY <1>6, <2>2, <2>3, RanRow
  <2>4. CASE r # <<FALSE, 0>>
    <3>1. PICK k \in IF t.status = "Download" THEN 0..t.left ELSE {0} : r = <<TRUE, k>>
      BY <2>4 DEF Rates
    <3>2. k \in Nat
      BY <1>1, <3>1 DEF Torrent
    <3> QED
      BY <1>6, <2>2, <3>1, <3>2, RanRow
  <2> QED
    BY <2>3, <2>4
<1>7. CASE /\ ~(~t.meta /\ t.status = "Download")
           /\ ~(t.meta /\ t.status = "Check")
           /\ ~(t.meta /\ t.status \in Running)
  <2>1. x = <<q, FALSE>>
    <3>1. Advance(t) = {<<q, FALSE>>}
      BY <1>7 DEF Advance
    <3> HIDE DEF q
    <3> QED
      BY <3>1
  <2> QED
    BY <1>4, <2>1
<1> QED
  BY <1>2, <1>5, <1>6, <1>7

\* The loop of tick: whoever changes, or falls silent, was active in this tick.
SteppedTo(t, u, n) ==
    /\ Kin(t, u) /\ (t.status \in Waits => u.status = t.status)
    /\ u.active = n \/ (u.active = t.active /\ Row(u) = Row(t))

\* A tick makes no more of a torrent than that.
LEMMA SteppedRow ==
  ASSUME NEW t, Sound(t), NEW n \in Nat, NEW u \in Stepped(t, n)
  PROVE  SteppedTo(t, u, n)
<1>1. PICK x \in Advance(t) :
        u = [x[1] EXCEPT !.active = IF x[1].moving \/ t.moved \/ x[2] THEN n ELSE @,
                         !.moved = x[1].moving]
  BY DEF Stepped
<1>2. PICK v, told : x = <<v, told>> /\ Next1(t, v, told)
  BY AdvanceRow
<1> DEFINE a == IF v.moving \/ t.moved \/ told THEN n ELSE v.active
           m == v.moving
<1>3. u = [v EXCEPT !.active = a, !.moved = m]
  BY <1>1, <1>2
<1>4. v \in Torrent
  BY <1>2 DEF Next1
<1>5. a \in Nat /\ m \in BOOLEAN
  BY <1>4 DEF Torrent
<1>6. a = n \/ (a = t.active /\ Row(v) = Row(t))
  BY <1>2 DEF Next1
<1> HIDE DEF a, m
<1>7. /\ u \in Torrent /\ u.hash = v.hash /\ u.pos = v.pos /\ u.status = v.status
      /\ u.meta = v.meta /\ u.valid = v.valid /\ u.left = v.left /\ u.size = v.size
      /\ u.unchecked = v.unchecked /\ u.moving = v.moving /\ u.active = a /\ u.moved = m
  BY <1>3, <1>4, <1>5 DEF Torrent
<1>8. Row(u) = Row(v)
  BY <1>7 DEF Row
<1>9. Kin(t, u)
  BY <1>2, <1>7 DEF Kin, Sound, Next1, IsChecking, m
<1> QED
  BY <1>2, <1>6, <1>7, <1>8, <1>9 DEF SteppedTo, Next1

\* There is always a step in which nothing happens to a torrent.
LEMMA UsualRow ==
  ASSUME NEW t, Sound(t), NEW n \in Nat
  PROVE  Usual(t, n) \in Stepped(t, n)
<1> DEFINE Quiet(u) == /\ u.meta = t.meta /\ u.valid = t.valid
                       /\ u.moving = (t.status \in Running)
                       /\ u.status \in {t.status, "Seed"}
<1>1. t \in Torrent
  BY DEF Sound
<1>2. \E v, told : <<v, told>> \in Advance(t) /\ v \in Torrent /\ Quiet(v)
  <2>1. CASE ~t.meta /\ t.status = "Download"
    <3> DEFINE v == [t EXCEPT !.moving = TRUE]
    <3> DEFINE U == {t} \cup {Materialized(t, list) : list \in FileLists}
    <3>1. Sought(t) = {Moving(u, m) : m \in BOOLEAN, u \in U}
      BY DEF Sought, Moving
    <3>2. t \in U
      OBVIOUS
    <3> HIDE DEF U
    <3>3. \A m \in BOOLEAN : Moving(t, m) \in Sought(t)
      BY <3>1, <3>2
    <3>4. Moving(t, TRUE) \in Sought(t)
      BY <3>3, Zenon
    <3>5. v \in Sought(t)
      BY <3>4 DEF Moving
    <3>6. <<v, TRUE>> \in Advance(t)
      <4> HIDE DEF v
      <4> QED
        BY <2>1, <3>5 DEF Advance
    <3>7. v \in Torrent /\ Quiet(v)
      BY <1>1, <2>1 DEF Torrent, Running
    <3> QED
      BY <3>6, <3>7
  <2>2. CASE t.meta /\ t.status = "Check"
    <3> DEFINE v == [t EXCEPT !.moving = FALSE]
    <3>1. <<v, TRUE>> \in Advance(t)
      BY <2>2 DEF Advance, Running
    <3>2. /\ v \in Torrent /\ v.meta = t.meta /\ v.valid = t.valid
          /\ v.moving = FALSE /\ v.status = t.status
      BY <1>1 DEF Torrent
    <3>3. t.status \notin Running
      BY <2>2 DEF Running
    <3> HIDE DEF v
    <3>4. (t.status \in Running) = FALSE
      BY <3>3
    <3>5. v.moving = (t.status \in Running)
      BY <3>2, <3>4, Zenon
    <3> QED
      BY <3>1, <3>2, <3>3, <3>5
  <2>3. CASE t.meta /\ t.status \in Running
    <3> DEFINE sum == t.valid + 0
               b == [t EXCEPT !.valid = sum, !.moving = TRUE]
               got == Reconciled(b)
               ends == t.status = "Download" /\ got.left = 0
               on == IF ends THEN [got EXCEPT !.status = "Seed", !.full = TRUE] ELSE got
    <3>1. /\ t.valid \in Nat /\ t.left \in Nat /\ t.size \in Nat
          /\ t.valid + t.left = t.size /\ t.unchecked = 0 /\ t.meta = TRUE
          /\ t.status # "Check"
      BY <1>1, <2>3 DEF Torrent, Sound, Running, IsChecking
    <3>2. sum = t.valid
      BY <3>1
    <3>3. <<TRUE, 0>> \in Rates(t)
      BY <3>1 DEF Rates
    <3>4. <<on, ends>> \in Ran(t, <<TRUE, 0>>)
      BY DEF Ran
    <3> HIDE DEF sum
    <3>5. /\ b \in Torrent /\ b.unchecked = 0 /\ b.status = t.status
          /\ b.meta = t.meta /\ b.size = t.size /\ b.valid = t.valid /\ b.moving = TRUE
      BY <1>1, <3>1, <3>2 DEF Torrent
    <3> HIDE DEF b
    <3>6. b.valid <= b.size
      BY <3>1, <3>5
    <3>7. got \in Torrent /\ SameApart(b, got) /\ got.valid = t.valid
      BY <3>5, <3>6, ReconciledSound
    <3> HIDE DEF got
    <3>8. "Seed" \in ST
      BY DEF ST, Running
    <3>9. on \in Torrent /\ Quiet(on)
      <4>1. CASE ends
        <5>1. /\ on \in Torrent /\ on.meta = got.meta /\ on.valid = got.valid
              /\ on.moving = got.moving /\ on.status = "Seed"
          BY <3>7, <3>8, <4>1 DEF Torrent
        <5> HIDE DEF on
        <5> QED
          BY <2>3, <3>5, <3>7, <5>1 DEF SameApart
      <4>2. CASE ~ends
        BY <2>3, <3>5, <3>7, <4>2 DEF SameApart
      <4> QED
        BY <4>1, <4>2
    <3> HIDE DEF on, ends
    <3>10. <<on, ends>> \in Advance(t)
      BY <2>3, <3>1, <3>3, <3>4 DEF Advance
    <3> QED
      BY <3>9, <3>10
  <2>4. CASE /\ ~(~t.meta /\ t.status = "Download")
             /\ ~(t.meta /\ t.status = "Check")
             /\ ~(t.meta /\ t.status \in Running)
    <3> DEFINE v == [t EXCEPT !.moving = FALSE]
    <3>1. Advance(t) = {<<v, FALSE>>}
      BY <2>4 DEF Advance
    <3>2. t.status \notin Running
      BY <1>1, <2>4 DEF Sound, Torrent, Running
    <3>3. /\ v \in Torrent /\ v.meta = t.meta /\ v.valid = t.valid
          /\ v.moving = FALSE /\ v.status = t.status
      BY <1>1 DEF Torrent
    <3> HIDE DEF v
    <3>4. (t.status \in Running) = FALSE
      BY <3>2
    <3>5. v.moving = (t.status \in Running)
      BY <3>3, <3>4, Zenon
    <3> QED
      BY <3>1, <3>2, <3>3, <3>5
  <2> QED
    BY <2>1, <2>2, <2>3, <2>4
<1>3. PICK v, told : <<v, told>> \in Advance(t) /\ v \in Torrent /\ Quiet(v)
  BY <1>2
<1> DEFINE a == IF v.moving \/ t.moved \/ told THEN n ELSE v.active
           m == v.moving
           u == [v EXCEPT !.active = a, !.moved = m]
<1>4. u \in Stepped(t, n)
  <2> DEFINE F(x) == [x[1] EXCEPT !.active = IF x[1].moving \/ t.moved \/ x[2]
                                             THEN n ELSE @,
                                  !.moved = x[1].moving]
  <2>1. Stepped(t, n) = {F(x) : x \in Advance(t)}
    BY DEF Stepped
  <2>2. u = F(<<v, told>>)
    OBVIOUS
  <2> HIDE DEF F, u
  <2> QED
    BY <1>3, <2>1, <2>2
<1>5. a \in Nat /\ m \in BOOLEAN
  BY <1>3 DEF Torrent
<1> HIDE DEF a, m
<1>6. u.meta = v.meta /\ u.valid = v.valid /\ u.moving = v.moving /\ u.status = v.status
  BY <1>3, <1>5 DEF Torrent
<1> HIDE DEF u
<1>7. Quiet(u)
  BY <1>3, <1>6
<1>8. \E z \in Stepped(t, n) : Quiet(z)
  BY <1>4, <1>7
<1> QED
  BY <1>8 DEF Usual

\* After a tick every torrent is one of those it can become.
LEMMA TickedRows ==
  ASSUME NEW ts, \A i \in DOMAIN ts : Sound(ts[i]), NEW n \in Nat,
         NEW w \in Ticked(ts, n)
  PROVE  /\ DOMAIN w = DOMAIN ts
         /\ \A i \in DOMAIN ts : SteppedTo(ts[i], w[i], n)
<1> DEFINE S(i) == Stepped(ts[i], n)
           usual == [i \in DOMAIN ts |-> Usual(ts[i], n)]
<1>1. \A i \in DOMAIN ts : usual[i] \in S(i)
  BY UsualRow
<1>2. PICK odd \in SUBSET DOMAIN ts :
        \E f \in [odd -> UNION {S(i) : i \in odd}] :
          /\ \A i \in odd : f[i] \in S(i)
          /\ w = [i \in DOMAIN ts |-> IF i \in odd THEN f[i] ELSE usual[i]]
  BY DEF Ticked
<1>3. DOMAIN w = DOMAIN ts /\ \A i \in DOMAIN ts : w[i] \in S(i)
  <2> HIDE DEF S, usual
  <2> QED
    BY <1>1, <1>2
<1> QED
  BY <1>3, SteppedRow

-----------------------------------------------------------------------------
(* All torrents.                                                           *)

\* The torrents are sound, each there once and in its place, and one at most is
\* verified.
Sane(ts) ==
    /\ DOMAIN ts \subseteq SimId
    /\ \A i \in DOMAIN ts : Sound(ts[i])
    /\ \A i, j \in DOMAIN ts : ts[i].hash = ts[j].hash => i = j
    /\ InPlace(ts)
    /\ Cardinality(With(ts, "Check")) <= 1

\* Nobody waits for a slot of s that is free.
Busy(ts, s) ==
    /\ With(ts, "DownloadWait") # {}
         => s.download # 0 /\ Cardinality(With(ts, "Download")) >= s.download
    /\ With(ts, "SeedWait") # {}
         => s.seed # 0 /\ Cardinality(With(ts, "Seed")) >= s.seed
    /\ With(ts, "CheckWait") # {} => Cardinality(With(ts, "Check")) >= 1

\* From ts to q, whoever changes is active at n.
Active(ts, q, n) ==
    \A i \in DOMAIN q :
        \/ q[i].active = n
        \/ /\ i \in DOMAIN ts /\ q[i].active = ts[i].active
           /\ Row(q[i]) = Row(ts[i])

\* Who left a queue to run is ahead of everyone who waits.
Jumps(ts, q) ==
    \A i, j \in DOMAIN ts \cap DOMAIN q :
        /\ ts[i].status \in Waits /\ q[i].status \in {"Download", "Seed", "Check"}
        /\ q[j].status \in Waits
        => q[i].pos < q[j].pos

\* FirstComesFirst, of the torrents ts and q.
InTurn(ts, q) ==
    \A i, j \in DOMAIN ts \cap DOMAIN q :
        \A w \in {<<"DownloadWait", "Download">>, <<"SeedWait", "Seed">>,
                  <<"CheckWait", "Check">>} :
            /\ ts[i].status = w[1] /\ q[i].status = w[2]
            /\ ts[j].status = w[1] /\ q[j].status = w[1]
            => q[i].pos < q[j].pos

\* What a request does to the torrents before the queue moves on.
Request(ts, mid, n) == Sane(mid) /\ Active(ts, mid, n) /\ Jumps(ts, mid)

\* There are finitely many torrents, as there are ids.
LEMMA SaneFinite ==
  ASSUME NEW ts, Sane(ts)
  PROVE  /\ IsFiniteSet(DOMAIN ts) /\ Cardinality(DOMAIN ts) \in Nat
         /\ \A i \in DOMAIN ts : ts[i] \in Torrent /\ i \in Nat /\ i >= 1
<1>1. MaxId \in Nat
  BY SimAssumption
<1>2. IsFiniteSet(1..MaxId)
  BY <1>1, FS_Interval
<1>3. DOMAIN ts \subseteq 1..MaxId
  BY DEF Sane, SimId
<1>4. IsFiniteSet(DOMAIN ts)
  BY <1>2, <1>3, FS_Subset
<1>5. Cardinality(DOMAIN ts) \in Nat
  BY <1>4, FS_CardinalityType
<1>6. \A i \in DOMAIN ts : i \in Nat /\ i >= 1
  BY <1>1, <1>3
<1> QED
  BY <1>4, <1>5, <1>6 DEF Sane, Sound

\* When the queue moves on after a request, nobody is left waiting in vain, and
\* who comes out was ahead.
LEMMA Onward ==
  ASSUME NEW ts, NEW mid, NEW n \in Nat, Request(ts, mid, n), NEW s \in Session
  PROVE  LET q == PromoteQueue(mid, s, n)
         IN  /\ DOMAIN q = DOMAIN mid
             /\ Sane(q) /\ Busy(q, s) /\ Active(ts, q, n) /\ InTurn(ts, q)
<1> DEFINE q == PromoteQueue(mid, s, n)
<1>1. Sane(mid) /\ Active(ts, mid, n) /\ Jumps(ts, mid)
  BY DEF Request
<1>2. IsFiniteSet(DOMAIN mid) /\ \A i \in DOMAIN mid : mid[i] \in Torrent
  BY <1>1, SaneFinite
<1>3. InPlace(mid)
  BY <1>1 DEF Sane
<1>4. /\ DOMAIN q = DOMAIN mid /\ InPlace(q)
      /\ \A i \in DOMAIN mid : /\ q[i] \in Torrent /\ q[i].pos = mid[i].pos
                               /\ Promoted(mid[i], q[i], n)
      /\ Serves(mid, q, "DownloadWait", "Download", s.download)
      /\ Serves(mid, q, "SeedWait", "Seed", s.seed)
      /\ Serves(mid, q, "CheckWait", "Check", 1)
      /\ Cardinality(With(mid, "Check")) <= 1 => Cardinality(With(q, "Check")) <= 1
  BY <1>2, <1>3, Promoting
<1> HIDE DEF q
<1>5. \A i \in DOMAIN mid :
         /\ Sound(q[i]) /\ q[i].hash = mid[i].hash
         /\ q[i] = mid[i] \/ (q[i].active = n /\ mid[i].status \in Waits
                              /\ q[i].status \in {"Download", "Seed", "Check"})
  <2>1. \A i \in DOMAIN mid : Sound(mid[i])
    BY <1>1 DEF Sane
  <2> QED
    BY <1>4, <2>1, PromotedRow
<1>6. Sane(q)
  BY <1>1, <1>4, <1>5 DEF Sane
<1>7. Busy(q, s)
  BY <1>4 DEF Serves, Busy
<1>8. Active(ts, q, n)
  BY <1>1, <1>4, <1>5 DEF Active
<1>9. InTurn(ts, q)
  <2>1. ASSUME NEW i \in DOMAIN ts \cap DOMAIN q, NEW j \in DOMAIN ts \cap DOMAIN q,
               NEW wait, NEW run,
               <<wait, run>> \in {<<"DownloadWait", "Download">>,
                                  <<"SeedWait", "Seed">>, <<"CheckWait", "Check">>},
               ts[i].status = wait, q[i].status = run, q[j].status = wait
        PROVE  q[i].pos < q[j].pos
    <3>1. i \in DOMAIN mid /\ j \in DOMAIN mid
      BY <1>4
    <3>2. wait \in Waits /\ run \in {"Download", "Seed", "Check"} /\ wait # run
      BY <2>1 DEF Waits
    <3>3. q[j] = mid[j]
      BY <1>5, <2>1, <3>1, <3>2 DEF Waits
    <3>4. CASE q[i] = mid[i]
      <4>1. mid[i].status = run /\ mid[j].status = wait
        BY <2>1, <3>3, <3>4
      <4>2. mid[i].pos < mid[j].pos
        BY <1>1, <2>1, <3>1, <3>2, <4>1 DEF Jumps
      <4> QED
        BY <1>4, <3>1, <4>2
    <3>5. CASE q[i] # mid[i]
      <4>1. mid[i].status = wait
        <5>1. Promoted(mid[i], q[i], n) /\ mid[i] \in Torrent
          BY <1>2, <1>4, <3>1
        <5>2. PICK w, r : /\ <<w, r>> \in {<<"DownloadWait", "Download">>,
                                <<"SeedWait", "Seed">>, <<"CheckWait", "Check">>}
                          /\ Passed(mid[i], q[i], w, r, n)
          BY <5>1 DEF Promoted
        <5>3. mid[i].status = w /\ q[i] = TakenOut(mid[i], r, n) /\ r \in ST
          BY <3>5, <5>2 DEF Passed, ST, Running
        <5>4. q[i].status = r
          BY <5>1, <5>3 DEF TakenOut, Torrent
        <5> QED
          BY <2>1, <5>2, <5>3, <5>4
      <4>2. i \in With(mid, wait) /\ i \in With(q, run) /\ j \in With(q, wait)
        BY <2>1, <3>1, <4>1 DEF With
      <4>3. mid[i].pos < mid[j].pos
        BY <1>4, <2>1, <4>2 DEF Serves
      <4> QED
        BY <1>4, <3>1, <4>3
    <3> QED
      BY <3>4, <3>5
  <2> QED
    BY <2>1 DEF InTurn
<1> QED
  BY <1>4, <1>6, <1>7, <1>8, <1>9 DEF q

-----------------------------------------------------------------------------
(* What the requests do to the torrents.                                   *)

\* Torrents that are in place, of which no more are verified than were, are sane.
LEMMA SaneAgain ==
  ASSUME NEW ts, Sane(ts), NEW q, DOMAIN q \subseteq SimId, InPlace(q),
         \A i \in DOMAIN q : Sound(q[i]),
         \A i, j \in DOMAIN q : q[i].hash = q[j].hash => i = j,
         \A i \in DOMAIN q : q[i].status = "Check"
                               => i \in DOMAIN ts /\ ts[i].status = "Check"
  PROVE  Sane(q)
<1>1. With(q, "Check") \subseteq With(ts, "Check") /\ With(ts, "Check") \subseteq DOMAIN ts
  BY DEF With
<1>2. IsFiniteSet(With(ts, "Check"))
  BY <1>1, SaneFinite, FS_Subset
<1>3. /\ Cardinality(With(ts, "Check")) \in Nat
      /\ IsFiniteSet(With(q, "Check"))
      /\ Cardinality(With(q, "Check")) <= Cardinality(With(ts, "Check"))
  BY <1>1, <1>2, FS_Subset, FS_CardinalityType
<1>4. Cardinality(With(q, "Check")) \in Nat
  BY <1>3, FS_CardinalityType
<1>5. Cardinality(With(ts, "Check")) <= 1
  BY DEF Sane
<1>6. Cardinality(With(q, "Check")) <= 1
  BY <1>3, <1>4, <1>5
<1> QED
  BY <1>6 DEF Sane

\* Torrents that stay in their places, and are not verified if they were not,
\* stay sane.
LEMMA KinSane ==
  ASSUME NEW ts, Sane(ts), NEW q, DOMAIN q = DOMAIN ts,
         \A i \in DOMAIN ts : q[i] = ts[i] \/ Kin(ts[i], q[i])
  PROVE  Sane(q)
<1>1. \A i \in DOMAIN ts : /\ Sound(q[i]) /\ q[i].hash = ts[i].hash
                           /\ q[i].pos = ts[i].pos
                           /\ q[i].status = "Check" => ts[i].status = "Check"
  BY DEF Kin, Sane
<1>2. InPlace(q)
  BY <1>1 DEF Sane, InPlace
<1>3. DOMAIN q \subseteq SimId
  BY DEF Sane
<1>4. \A i, j \in DOMAIN q : q[i].hash = q[j].hash => i = j
  BY <1>1 DEF Sane
<1> QED
  BY <1>1, <1>2, <1>3, <1>4, SaneAgain

\* touch.
LEMMA TouchedAll ==
  ASSUME NEW ts, Sane(ts), NEW ids, Stamp \in Nat
  PROVE  LET q == Touched(ts, ids)
         IN  /\ DOMAIN q = DOMAIN ts /\ Sane(q)
             /\ \A i \in DOMAIN ts :
                  /\ q[i].status = ts[i].status /\ q[i].pos = ts[i].pos
                  /\ Row(q[i]) = Row(ts[i])
                  /\ q[i].active = IF i \in ids THEN Stamp ELSE ts[i].active
<1> DEFINE q == Touched(ts, ids)
<1>1. DOMAIN q = DOMAIN ts
  BY DEF Touched
<1>2. \A i \in DOMAIN ts : Sound(ts[i])
  BY DEF Sane
<1>3. ASSUME NEW i \in DOMAIN ts
      PROVE  /\ q[i] = ts[i] \/ Kin(ts[i], q[i])
             /\ q[i].status = ts[i].status /\ q[i].pos = ts[i].pos
             /\ Row(q[i]) = Row(ts[i])
             /\ q[i].active = IF i \in ids THEN Stamp ELSE ts[i].active
  <2> DEFINE u == [ts[i] EXCEPT !.active = Stamp]
  <2>1. Kin(ts[i], u) /\ u.status = ts[i].status /\ u.active = Stamp /\ Row(u) = Row(ts[i])
    BY <1>2, TouchedRow
  <2>2. u.pos = ts[i].pos
    BY <2>1 DEF Kin
  <2>3. q[i] = IF i \in ids THEN u ELSE ts[i]
    BY DEF Touched
  <2> HIDE DEF q, u
  <2> QED
    BY <2>1, <2>2, <2>3
<1> HIDE DEF q
<1>4. Sane(q)
  BY <1>1, <1>3, KinSane
<1> QED
  BY <1>1, <1>3, <1>4 DEF q

\* A handler that changes torrents of ids, which are touched.
LEMMA Written ==
  ASSUME NEW ts, NEW q, Sane(q), DOMAIN q = DOMAIN ts, NEW ids, Stamp \in Nat,
         \A i \in DOMAIN ts \ ids : q[i].active = ts[i].active /\ Row(q[i]) = Row(ts[i]),
         Jumps(ts, q)
  PROVE  Request(ts, Touched(q, ids), Stamp)
<1> DEFINE m == Touched(q, ids)
<1>1. /\ DOMAIN m = DOMAIN q /\ Sane(m)
      /\ \A i \in DOMAIN q :
           /\ m[i].status = q[i].status /\ m[i].pos = q[i].pos
           /\ Row(m[i]) = Row(q[i])
           /\ m[i].active = IF i \in ids THEN Stamp ELSE q[i].active
  BY TouchedAll
<1> HIDE DEF m
<1>2. Active(ts, m, Stamp)
  BY <1>1 DEF Active
<1>3. Jumps(ts, m)
  BY <1>1 DEF Jumps
<1> QED
  BY <1>1, <1>2, <1>3 DEF Request, m

\* A handler that lets nobody run, and changes the torrents of ids only.
LEMMA WrittenRows ==
  ASSUME NEW ts, Sane(ts), NEW ids, Stamp \in Nat, NEW q, DOMAIN q = DOMAIN ts,
         \A i \in DOMAIN ts \cap ids :
            Kin(ts[i], q[i]) /\ q[i].status \notin {"Download", "Seed", "Check"},
         \A i \in DOMAIN ts \ ids : q[i] = ts[i]
  PROVE  Request(ts, Touched(q, ids), Stamp)
<1>1. Sane(q)
  BY KinSane
<1>2. Jumps(ts, q)
  <2>1. ASSUME NEW i \in DOMAIN ts, ts[i].status \in Waits
        PROVE  q[i].status \notin {"Download", "Seed", "Check"}
    <3>1. CASE i \in ids
      BY <3>1
    <3>2. CASE i \notin ids
      BY <2>1, <3>2 DEF Waits
    <3> QED
      BY <3>1, <3>2
  <2> QED
    BY <2>1 DEF Jumps
<1> QED
  BY <1>1, <1>2, Written

\* torrent_start.
LEMMA StartRequest ==
  ASSUME Sane(torrents), NEW ids, Stamp \in Nat
  PROVE  LET q == [i \in DOMAIN torrents |-> IF i \in Startable(ids)
                     THEN Started(torrents[i]) ELSE torrents[i]]
         IN  Request(torrents, Touched(q, Startable(ids)), Stamp)
<1> DEFINE q == [i \in DOMAIN torrents |-> IF i \in Startable(ids)
                   THEN Started(torrents[i]) ELSE torrents[i]]
<1>1. DOMAIN q = DOMAIN torrents
  OBVIOUS
<1>2. ASSUME NEW i \in DOMAIN torrents \cap Startable(ids)
      PROVE  /\ Kin(torrents[i], q[i])
             /\ q[i].status \notin {"Download", "Seed", "Check"}
  <2>1. Sound(torrents[i]) /\ ~IsChecking(torrents[i])
    BY DEF Sane, Startable
  <2>2. /\ Kin(torrents[i], Started(torrents[i]))
        /\ Started(torrents[i]).status \in {"SeedWait", "DownloadWait"}
    BY <2>1, StartedRow
  <2>3. q[i] = Started(torrents[i])
    OBVIOUS
  <2> HIDE DEF q
  <2> QED
    BY <2>2, <2>3
<1>3. \A i \in DOMAIN torrents \ Startable(ids) : q[i] = torrents[i]
  OBVIOUS
<1> HIDE DEF q
<1>4. Request(torrents, Touched(q, Startable(ids)), Stamp)
  BY <1>1, <1>2, <1>3, WrittenRows
<1> QED
  BY <1>4 DEF q

\* torrent_stop.
LEMMA StopRequest ==
  ASSUME Sane(torrents), NEW ids, Stamp \in Nat
  PROVE  LET q == [i \in DOMAIN torrents |-> IF i \in ids THEN Stopped(torrents[i])
                                             ELSE torrents[i]]
         IN  Request(torrents, Touched(q, ids), Stamp)
<1> DEFINE q == [i \in DOMAIN torrents |-> IF i \in ids THEN Stopped(torrents[i])
                                           ELSE torrents[i]]
<1>1. DOMAIN q = DOMAIN torrents
  OBVIOUS
<1>2. ASSUME NEW i \in DOMAIN torrents \cap ids
      PROVE  /\ Kin(torrents[i], q[i])
             /\ q[i].status \notin {"Download", "Seed", "Check"}
  <2>1. /\ Kin(torrents[i], Stopped(torrents[i]))
        /\ Stopped(torrents[i]).status = "Stopped"
    BY StoppedRow DEF Sane
  <2>2. q[i] = Stopped(torrents[i])
    OBVIOUS
  <2> HIDE DEF q
  <2> QED
    BY <2>1, <2>2
<1>3. \A i \in DOMAIN torrents \ ids : q[i] = torrents[i]
  OBVIOUS
<1> HIDE DEF q
<1>4. Request(torrents, Touched(q, ids), Stamp)
  BY <1>1, <1>2, <1>3, WrittenRows
<1> QED
  BY <1>4 DEF q

\* torrent_verify.
LEMMA VerifyRequest ==
  ASSUME Sane(torrents), NEW ids, Stamp \in Nat
  PROVE  LET q == [i \in DOMAIN torrents |-> IF i \in ids THEN Verifying(torrents[i])
                                             ELSE torrents[i]]
         IN  Request(torrents, Touched(q, ids), Stamp)
<1> DEFINE q == [i \in DOMAIN torrents |-> IF i \in ids THEN Verifying(torrents[i])
                                           ELSE torrents[i]]
<1>1. DOMAIN q = DOMAIN torrents
  OBVIOUS
<1>2. ASSUME NEW i \in DOMAIN torrents \cap ids
      PROVE  /\ Kin(torrents[i], q[i])
             /\ q[i].status \notin {"Download", "Seed", "Check"}
  <2>1. /\ Kin(torrents[i], Verifying(torrents[i]))
        /\ Verifying(torrents[i]).status = "CheckWait"
    BY VerifyingRow DEF Sane
  <2>2. q[i] = Verifying(torrents[i])
    OBVIOUS
  <2> HIDE DEF q
  <2> QED
    BY <2>1, <2>2
<1>3. \A i \in DOMAIN torrents \ ids : q[i] = torrents[i]
  OBVIOUS
<1> HIDE DEF q
<1>4. Request(torrents, Touched(q, ids), Stamp)
  BY <1>1, <1>2, <1>3, WrittenRows
<1> QED
  BY <1>4 DEF q

\* Torrents z, wherever they were put, after renumberQueue.
LEMMA RenumberedRows ==
  ASSUME NEW z, NEW q, DOMAIN q \subseteq SimId, IsFiniteSet(DOMAIN q),
         \A i \in DOMAIN q : Sound(z[i]) /\ \E p \in Int : q[i] = [z[i] EXCEPT !.pos = p]
  PROVE  LET r == RenumberQueue(q)
         IN  /\ DOMAIN r = DOMAIN q /\ InPlace(r)
             /\ \A i \in DOMAIN q :
                  /\ Sound(r[i]) /\ r[i].status = z[i].status
                  /\ r[i].hash = z[i].hash /\ r[i].active = z[i].active
                  /\ Row(r[i]) = Row(z[i])
             /\ \A i, j \in DOMAIN q : q[i].pos < q[j].pos => r[i].pos < r[j].pos
<1> DEFINE r == RenumberQueue(q)
<1>1. DOMAIN q \subseteq Nat
  BY SimAssumption DEF SimId
<1>2. \A i \in DOMAIN q : q[i] \in Unplaced
  BY TorrentUnplaced DEF Sound
<1>3. /\ DOMAIN r = DOMAIN q /\ InPlace(r)
      /\ \A i \in DOMAIN q : /\ r[i] = [q[i] EXCEPT !.pos = Rank(q, i)]
                             /\ r[i].pos = Rank(q, i) /\ Rank(q, i) \in Nat
      /\ \A i, j \in DOMAIN q : q[i].pos < q[j].pos => Rank(q, i) < Rank(q, j)
  BY <1>1, <1>2, Renumbered
<1> HIDE DEF r
<1>4. ASSUME NEW i \in DOMAIN q
      PROVE  /\ Sound(r[i]) /\ r[i].status = z[i].status
             /\ r[i].hash = z[i].hash /\ r[i].active = z[i].active
             /\ Row(r[i]) = Row(z[i])
  <2>1. PICK p \in Int : q[i] = [z[i] EXCEPT !.pos = p]
    OBVIOUS
  <2> DEFINE k == Rank(q, i)
             u == [z[i] EXCEPT !.pos = k]
  <2>2. k \in Nat /\ r[i] = [q[i] EXCEPT !.pos = k]
    BY <1>3
  <2> HIDE DEF k
  <2>3. r[i] = u
    BY <2>1, <2>2
  <2>4. /\ Sound(u) /\ u.status = z[i].status /\ u.hash = z[i].hash
        /\ u.active = z[i].active /\ Row(u) = Row(z[i])
    BY <2>2, PlacedRow
  <2> HIDE DEF u
  <2> QED
    BY <2>3, <2>4
<1> QED
  BY <1>3, <1>4 DEF r

\* torrent_start_now: what is started is at the top.
LEMMA StartNowRequest ==
  ASSUME Sane(torrents), NEW ids \in SUBSET DOMAIN torrents, Stamp \in Nat
  PROVE  LET q == RenumberQueue([i \in DOMAIN torrents |->
                    IF i \in Startable(ids)
                    THEN [StartedNow(torrents[i]) EXCEPT !.pos = -i]
                    ELSE torrents[i]])
         IN  Request(torrents, Touched(q, Startable(ids)), Stamp)
<1> DEFINE S == Startable(ids)
           z == [i \in DOMAIN torrents |-> IF i \in S THEN StartedNow(torrents[i])
                                           ELSE torrents[i]]
           b == [i \in DOMAIN torrents |->
                   IF i \in S THEN [StartedNow(torrents[i]) EXCEPT !.pos = -i]
                   ELSE torrents[i]]
           q == RenumberQueue(b)
<1>1. DOMAIN b = DOMAIN torrents
  OBVIOUS
<1>2. \A i \in S : ~IsChecking(torrents[i])
  BY DEF Startable
<1>3. /\ DOMAIN torrents \subseteq SimId /\ IsFiniteSet(DOMAIN torrents)
      /\ \A i \in DOMAIN torrents : i \in Nat /\ i >= 1
  BY SaneFinite DEF Sane
<1>4. ASSUME NEW i \in DOMAIN torrents
      PROVE  /\ Sound(z[i]) /\ z[i].hash = torrents[i].hash
             /\ z[i].status = "Check" => torrents[i].status = "Check"
             /\ i \in S => z[i].status \in Running
             /\ i \notin S => z[i] = torrents[i]
             /\ \E p \in Int : b[i] = [z[i] EXCEPT !.pos = p]
             /\ b[i].pos \in Int /\ (i \in S => b[i].pos < 0)
             /\ i \notin S => b[i].pos >= 0
  <2>1. Sound(torrents[i]) /\ torrents[i] \in Torrent
    BY DEF Sane, Sound
  <2>2. CASE i \in S
    <3>1. Kin(torrents[i], StartedNow(torrents[i])) /\ StartedNow(torrents[i]).status \in Running
      BY <1>2, <2>1, <2>2, StartedNowRow
    <3>2. z[i] = StartedNow(torrents[i]) /\ b[i] = [z[i] EXCEPT !.pos = -i]
      BY <2>2
    <3> HIDE DEF z, b
    <3>3. z[i] \in Torrent /\ -i \in Int /\ -i < 0
      BY <1>3, <3>1, <3>2 DEF Kin, Sound
    <3>4. b[i].pos = -i
      BY <3>2, <3>3, TorrentUnplaced
    <3>5. \E p \in Int : b[i] = [z[i] EXCEPT !.pos = p]
      BY <3>2, <3>3
    <3> QED
      BY <2>2, <3>1, <3>2, <3>3, <3>4, <3>5 DEF Kin
  <2>3. CASE i \notin S
    <3>1. z[i] = torrents[i] /\ b[i] = torrents[i]
      BY <2>3
    <3> HIDE DEF z, b
    <3>2. torrents[i].pos \in Nat /\ b[i] = [z[i] EXCEPT !.pos = torrents[i].pos]
      BY <2>1, <3>1 DEF Torrent
    <3>3. \E p \in Int : b[i] = [z[i] EXCEPT !.pos = p]
      BY <3>2
    <3>4. b[i].pos \in Int /\ b[i].pos >= 0
      BY <3>1, <3>2
    <3>5. Sound(z[i]) /\ z[i].hash = torrents[i].hash /\ z[i].status = torrents[i].status
      BY <2>1, <3>1
    <3> QED
      BY <2>3, <3>1, <3>3, <3>4, <3>5
  <2> QED
    BY <2>2, <2>3
<1> HIDE DEF S, z, b
<1>5. /\ DOMAIN q = DOMAIN b /\ InPlace(q)
      /\ \A i \in DOMAIN b :
           /\ Sound(q[i]) /\ q[i].status = z[i].status
           /\ q[i].hash = z[i].hash /\ q[i].active = z[i].active
           /\ Row(q[i]) = Row(z[i])
      /\ \A i, j \in DOMAIN b : b[i].pos < b[j].pos => q[i].pos < q[j].pos
  BY <1>1, <1>3, <1>4, RenumberedRows
<1> HIDE DEF q
<1>6. \A i, j \in DOMAIN q : q[i].hash = q[j].hash => i = j
  BY <1>1, <1>4, <1>5 DEF Sane
<1>7. Sane(q)
  BY <1>1, <1>3, <1>4, <1>5, <1>6, SaneAgain
<1>8. Jumps(torrents, q)
  <2>1. ASSUME NEW i \in DOMAIN torrents, NEW j \in DOMAIN torrents,
               torrents[i].status \in Waits, q[i].status \in {"Download", "Seed", "Check"},
               q[j].status \in Waits
        PROVE  q[i].pos < q[j].pos
    <3>1. i \in S
      BY <1>1, <1>4, <1>5, <2>1 DEF Waits
    <3>2. j \notin S
      BY <1>1, <1>4, <1>5, <2>1 DEF Waits, Running
    <3>3. b[i].pos < 0 /\ b[j].pos >= 0 /\ b[i].pos \in Int /\ b[j].pos \in Int
      BY <1>1, <1>4, <3>1, <3>2
    <3>4. b[i].pos < b[j].pos
      BY <3>3
    <3> QED
      BY <1>1, <1>5, <3>4
  <2> QED
    BY <1>1, <1>5, <2>1 DEF Jumps
<1>9. \A i \in DOMAIN torrents \ S :
         q[i].active = torrents[i].active /\ Row(q[i]) = Row(torrents[i])
  BY <1>1, <1>4, <1>5
<1>10. Request(torrents, Touched(q, S), Stamp)
  BY <1>1, <1>5, <1>7, <1>8, <1>9, Written
<1> QED
  BY <1>10 DEF q, b, S

\* queue_move.
LEMMA MoveRequest ==
  ASSUME Sane(torrents), NEW ids, NEW where \in Where, Stamp \in Nat
  PROVE  Request(torrents, Touched(QueueMove(torrents, where, ids), ids), Stamp)
<1> DEFINE q == QueueMove(torrents, where, ids)
<1>1. /\ IsFiniteSet(DOMAIN torrents) /\ InPlace(torrents)
      /\ \A i \in DOMAIN torrents : torrents[i] \in Torrent
  BY SaneFinite DEF Sane
<1>2. DOMAIN q = DOMAIN torrents
  BY <1>1, Moved
<1>3. InPlace(q)
  BY <1>1, Moved
<1>4. \A i \in DOMAIN torrents :
         \E k \in Nat : q[i] = [torrents[i] EXCEPT !.pos = k]
  BY <1>1, Moved
<1>5. /\ DOMAIN q = DOMAIN torrents /\ InPlace(q)
      /\ \A i \in DOMAIN torrents :
           \E k \in Nat : q[i] = [torrents[i] EXCEPT !.pos = k]
  BY <1>2, <1>3, <1>4
<1> HIDE DEF q
<1>6. ASSUME NEW i \in DOMAIN torrents
      PROVE  /\ Sound(q[i]) /\ q[i].status = torrents[i].status
             /\ q[i].hash = torrents[i].hash /\ q[i].active = torrents[i].active
             /\ Row(q[i]) = Row(torrents[i])
  <2>1. PICK k \in Nat : q[i] = [torrents[i] EXCEPT !.pos = k]
    BY <1>5
  <2> DEFINE u == [torrents[i] EXCEPT !.pos = k]
  <2>2. /\ Sound(u) /\ u.status = torrents[i].status /\ u.hash = torrents[i].hash
        /\ u.active = torrents[i].active /\ Row(u) = Row(torrents[i])
    BY PlacedRow DEF Sane
  <2> HIDE DEF u
  <2>3. q[i] = u
    BY <2>1 DEF u
  <2> QED
    BY <2>2, <2>3
<1>7. DOMAIN q \subseteq SimId /\ \A i, j \in DOMAIN q : q[i].hash = q[j].hash => i = j
  BY <1>5, <1>6 DEF Sane
<1>8. Sane(q)
  BY <1>5, <1>6, <1>7, SaneAgain
<1>9. Jumps(torrents, q)
  BY <1>6 DEF Jumps, Waits
<1>10. Request(torrents, Touched(q, ids), Stamp)
  BY <1>5, <1>6, <1>8, <1>9, Written
<1> QED
  BY <1>10 DEF q

\* Torrents that come and go, and are renumbered.
LEMMA Regrouped ==
  ASSUME NEW ts, Sane(ts), NEW n \in Nat, NEW b, DOMAIN b \subseteq SimId,
         \A i \in DOMAIN b :
            /\ Sound(b[i])
            /\ i \in DOMAIN ts => b[i] = ts[i]
            /\ i \notin DOMAIN ts => b[i].active = n /\ b[i].status # "Check",
         \A i, j \in DOMAIN b : b[i].hash = b[j].hash => i = j
  PROVE  /\ DOMAIN RenumberQueue(b) = DOMAIN b
         /\ Request(ts, RenumberQueue(b), n)
<1> DEFINE q == RenumberQueue(b)
<1>1. IsFiniteSet(DOMAIN b)
  <2>1. MaxId \in Nat
    BY SimAssumption
  <2>2. IsFiniteSet(1..MaxId)
    BY <2>1, FS_Interval
  <2> QED
    BY <2>2, FS_Subset DEF SimId
<1>2. ASSUME NEW i \in DOMAIN b PROVE \E p \in Int : b[i] = [b[i] EXCEPT !.pos = p]
  <2>1. b[i].pos \in Int /\ b[i] = [b[i] EXCEPT !.pos = b[i].pos]
    BY DEF Sound, Torrent
  <2> QED
    BY <2>1
<1>3. \A i \in DOMAIN b : Sound(b[i]) /\ \E p \in Int : b[i] = [b[i] EXCEPT !.pos = p]
  BY <1>2
<1>4. /\ DOMAIN q = DOMAIN b /\ InPlace(q)
      /\ \A i \in DOMAIN b :
           /\ Sound(q[i]) /\ q[i].status = b[i].status
           /\ q[i].hash = b[i].hash /\ q[i].active = b[i].active
           /\ Row(q[i]) = Row(b[i])
  BY <1>1, <1>3, RenumberedRows
<1> HIDE DEF q
<1>5. \A i, j \in DOMAIN q : q[i].hash = q[j].hash => i = j
  BY <1>4
<1>6. Sane(q)
  BY <1>4, <1>5, SaneAgain
<1>7. Active(ts, q, n)
  BY <1>4 DEF Active
<1>8. Jumps(ts, q)
  BY <1>4 DEF Jumps, Waits
<1> QED
  BY <1>4, <1>6, <1>7, <1>8 DEF Request, q

\* torrent_remove.
LEMMA RemoveRequest ==
  ASSUME Sane(torrents), NEW ids, Stamp \in Nat
  PROVE  LET q == RenumberQueue([i \in DOMAIN torrents \ ids |-> torrents[i]])
         IN  DOMAIN q = DOMAIN torrents \ ids /\ Request(torrents, q, Stamp)
<1> DEFINE b == [i \in DOMAIN torrents \ ids |-> torrents[i]]
<1>1. DOMAIN b = DOMAIN torrents \ ids /\ \A i \in DOMAIN b : b[i] = torrents[i]
  OBVIOUS
<1> HIDE DEF b
<1>2. DOMAIN b \subseteq SimId /\ DOMAIN b \subseteq DOMAIN torrents
  BY <1>1 DEF Sane
<1>3. \A i \in DOMAIN b : Sound(b[i])
  BY <1>1 DEF Sane
<1>4. \A i, j \in DOMAIN b : b[i].hash = b[j].hash => i = j
  BY <1>1, <1>2 DEF Sane
<1>5. DOMAIN RenumberQueue(b) = DOMAIN b /\ Request(torrents, RenumberQueue(b), Stamp)
  BY <1>1, <1>2, <1>3, <1>4, Regrouped
<1> QED
  BY <1>1, <1>5 DEF b

\* The torrents with the one that is added.
WithAdded(hash, files, off, paused) ==
    RenumberQueue([i \in DOMAIN torrents \cup {nextId} |->
      IF i = nextId
      THEN Added(hash, [files |-> files, want |-> files], off, paused)
      ELSE torrents[i]])

\* torrent_add, of a torrent that is not there.
LEMMA AddRequest ==
  ASSUME Sane(torrents), Stamp \in Nat, NEW hash \in Hash, NEW files \in SUBSET File,
         NEW off \in SUBSET File, NEW paused \in BOOLEAN,
         nextId \in SimId, nextId \notin DOMAIN torrents,
         \A i \in DOMAIN torrents : torrents[i].hash # hash
  PROVE  /\ DOMAIN WithAdded(hash, files, off, paused) = DOMAIN torrents \cup {nextId}
         /\ Request(torrents, WithAdded(hash, files, off, paused), Stamp)
<1> DEFINE u == Added(hash, [files |-> files, want |-> files], off, paused)
           b == [i \in DOMAIN torrents \cup {nextId} |->
                   IF i = nextId THEN u ELSE torrents[i]]
<1>1. /\ Sound(u) /\ u.hash = hash /\ u.active = Stamp
      /\ u.status \in {"Stopped", "DownloadWait"}
  <2>1. IsFiniteSet(DOMAIN torrents)
    BY SaneFinite
  <2> QED
    BY <2>1, AddedRow
<1> HIDE DEF u
<1>2. /\ DOMAIN b = DOMAIN torrents \cup {nextId} /\ b[nextId] = u
      /\ \A i \in DOMAIN torrents : b[i] = torrents[i]
  OBVIOUS
<1> HIDE DEF b
<1>3. DOMAIN b \subseteq SimId
  BY <1>2 DEF Sane
<1>4. \A i \in DOMAIN b :
         /\ Sound(b[i])
         /\ i \in DOMAIN torrents => b[i] = torrents[i]
         /\ i \notin DOMAIN torrents => b[i].active = Stamp /\ b[i].status # "Check"
  BY <1>1, <1>2 DEF Sane
<1>5. \A i, j \in DOMAIN b : b[i].hash = b[j].hash => i = j
  BY <1>1, <1>2 DEF Sane
<1>6. DOMAIN RenumberQueue(b) = DOMAIN b /\ Request(torrents, RenumberQueue(b), Stamp)
  BY <1>3, <1>4, <1>5, Regrouped
<1> QED
  BY <1>2, <1>6 DEF b, u, WithAdded

\* session_set asks nothing of the torrents.
LEMMA SameRequest ==
  ASSUME NEW ts, Sane(ts), NEW n \in Nat
  PROVE  Request(ts, ts, n)
  BY DEF Request, Active, Jumps, Waits

\* A tick.
LEMMA TickRequest ==
  ASSUME NEW ts, Sane(ts), NEW n \in Nat, NEW w \in Ticked(ts, n)
  PROVE  DOMAIN w = DOMAIN ts /\ Request(ts, w, n)
<1>1. DOMAIN w = DOMAIN ts /\ \A i \in DOMAIN ts : SteppedTo(ts[i], w[i], n)
  BY TickedRows DEF Sane
<1>2. Sane(w)
  BY <1>1, KinSane DEF SteppedTo
<1>3. Active(ts, w, n)
  BY <1>1 DEF Active, SteppedTo
<1>4. Jumps(ts, w)
  BY <1>1 DEF Jumps, SteppedTo, Waits
<1> QED
  BY <1>1, <1>2, <1>3, <1>4 DEF Request

\* torrent_set, and what is only touched: nobody's status changes.
LEMMA StayRequest ==
  ASSUME Sane(torrents), NEW ids, Stamp \in Nat, NEW s, Busy(torrents, s),
         NEW b, DOMAIN b = DOMAIN torrents,
         \A i \in DOMAIN torrents :
            \/ b[i] = torrents[i]
            \/ i \in ids /\ Kin(torrents[i], b[i]) /\ b[i].status = torrents[i].status
  PROVE  LET q == Touched(b, ids)
         IN  /\ DOMAIN q = DOMAIN torrents
             /\ Sane(q) /\ Busy(q, s) /\ Active(torrents, q, Stamp)
             /\ InTurn(torrents, q)
<1> DEFINE q == Touched(b, ids)
<1>1. Sane(b)
  BY KinSane
<1>2. /\ DOMAIN q = DOMAIN b /\ Sane(q)
      /\ \A i \in DOMAIN b :
           /\ q[i].status = b[i].status /\ q[i].pos = b[i].pos
           /\ Row(q[i]) = Row(b[i])
           /\ q[i].active = IF i \in ids THEN Stamp ELSE b[i].active
  BY <1>1, TouchedAll
<1> HIDE DEF q
<1>3. \A i \in DOMAIN torrents : q[i].status = torrents[i].status
  BY <1>2
<1>4. \A x : With(q, x) = With(torrents, x)
  BY <1>2, <1>3 DEF With
<1>5. Busy(q, s)
  BY <1>4 DEF Busy
<1>6. Active(torrents, q, Stamp)
  BY <1>2 DEF Active
<1>7. InTurn(torrents, q)
  BY <1>2, <1>3 DEF InTurn
<1> QED
  BY <1>2, <1>5, <1>6, <1>7 DEF q

-----------------------------------------------------------------------------
(* The invariant.                                                          *)

\* Requests wait in the order in which they came, none of them older than the
\* last poll.
Times ==
    /\ \A k \in DOMAIN pending : polled <= pending[k] /\ pending[k] <= now
    /\ \A k, l \in DOMAIN pending : k <= l => pending[k] <= pending[l]
    /\ polled <= now

\* The inductive invariant.
SimInv ==
    /\ SimTypeOK /\ Times
    /\ Sane(torrents) /\ Busy(torrents, session)
    /\ DeltaTells

\* Torrents q after a request or a tick at n: sound, served, and told.
Follows(q, s, n) ==
    Sane(q) /\ Busy(q, s) /\ Active(torrents, q, n) /\ InTurn(torrents, q)

\* What was recent enough later was so before.
LEMMA Earlier ==
  ASSUME NEW a \in Int, NEW b \in Int, NEW p \in Int, NEW w \in Int, a <= b, b - p <= w
  PROVE  a - p <= w
  OBVIOUS

\* The client is told of every change, and of every removal.
LEMMA Telling ==
  ASSUME SimTypeOK, DeltaTells, NEW q, NEW n \in Nat, Becomes(q),
         Active(torrents, q, n), polled <= n, polled' = polled,
         now' \in Nat, now <= now',
         \A i \in DOMAIN torrents \ DOMAIN q : \E r \in removed' : r.id = i /\ r.at >= n,
         \A r \in removed : now' - polled <= 2 * RecentWindow /\ r.at >= polled
                              => r \in removed',
         removed' \in SUBSET [id : SimId, at : Nat]
  PROVE  DeltaTells'
<1>1. /\ polled \in Nat /\ now \in Nat /\ RecentWindow \in Nat
      /\ \A i \in DOMAIN torrents : torrents[i].active \in Nat
  BY SimAssumption DEF SimTypeOK, Torrent
<1>2. torrents' = q
  BY DEF Becomes
<1>3. ASSUME NEW i \in dirty', i \in DOMAIN q PROVE q[i].active >= polled
  <2>1. CASE q[i].active = n
    BY <1>1, <2>1
  <2>2. CASE /\ i \in DOMAIN torrents /\ q[i].active = torrents[i].active
             /\ Row(q[i]) = Row(torrents[i])
    <3>1. i \in dirty
      BY <1>3, <2>2 DEF Becomes
    <3>2. torrents[i].active >= polled
      BY <2>2, <3>1 DEF DeltaTells
    <3> QED
      BY <2>2, <3>2
  <2> QED
    BY <1>3, <2>1, <2>2 DEF Active
<1>4. ASSUME NEW i \in dirty', i \notin DOMAIN q,
             now' - polled <= 2 * RecentWindow
      PROVE  \E r \in removed' : r.id = i /\ r.at >= polled
  <2>1. CASE i \in DOMAIN torrents
    <3>1. PICK r \in removed' : r.id = i /\ r.at >= n
      BY <1>4, <2>1
    <3>2. r.at \in Nat
      OBVIOUS
    <3>3. r.at >= polled
      BY <1>1, <3>1, <3>2
    <3> QED
      BY <3>1, <3>3
  <2>2. CASE i \notin DOMAIN torrents
    <3>1. i \in dirty
      BY <1>4, <2>2 DEF Becomes
    <3>2. now - polled <= 2 * RecentWindow
      <4> DEFINE w == 2 * RecentWindow
      <4>1. w \in Int
        BY <1>1
      <4>2. now' - polled <= w
        BY <1>4
      <4> HIDE DEF w
      <4>3. now' \in Int /\ now <= now'
        OBVIOUS
      <4>4. now \in Int /\ polled \in Int
        BY <1>1
      <4>5. now - polled <= w
        BY ONLY <4>3, <4>4, <4>1, <4>2, Earlier
      <4> QED
        BY <4>5 DEF w
    <3>3. PICK r \in removed : r.id = i /\ r.at >= polled
      BY <2>2, <3>1, <3>2 DEF DeltaTells
    <3> QED
      BY <1>4, <3>3
  <2> QED
    BY <2>1, <2>2
<1> QED
  BY <1>2, <1>3, <1>4 DEF DeltaTells

\* What of the invariant and of the queue holds whatever the request was.
LEMMA Becoming ==
  ASSUME SimInv, NEW q, NEW n \in Nat, Becomes(q), Follows(q, session', n),
         polled <= n, polled' = polled, now' \in Nat, now <= now',
         \A i \in DOMAIN torrents \ DOMAIN q : \E r \in removed' : r.id = i /\ r.at >= n,
         \A r \in removed : now' - polled <= 2 * RecentWindow /\ r.at >= polled
                              => r \in removed',
         removed' \in SUBSET [id : SimId, at : Nat]
  PROVE  /\ Sane(torrents)' /\ Busy(torrents, session)' /\ DeltaTells'
         /\ dirty' \in SUBSET SimId /\ InTurn(torrents, torrents')
<1>1. torrents' = q
  BY DEF Becomes
<1>2. Sane(torrents)' /\ Busy(torrents, session)' /\ InTurn(torrents, torrents')
  BY <1>1 DEF Follows
<1>3. dirty' \in SUBSET SimId
  BY DEF Becomes, SimInv, SimTypeOK
<1>4. DeltaTells'
  BY Telling DEF SimInv, Follows
<1> QED
  BY <1>2, <1>3, <1>4

\* The first request that waits has its turn, with the time of its arrival.
LEMMA TurnTaken ==
  ASSUME SimTypeOK, Times, Turn
  PROVE  /\ Stamp \in 0..MaxNow /\ polled <= Stamp /\ Stamp <= now
         /\ pending' \in Seq(0..MaxNow)
         /\ \A k \in DOMAIN pending' :
              k + 1 \in DOMAIN pending /\ pending'[k] = pending[k + 1]
         /\ \A k \in DOMAIN pending' : Stamp <= pending'[k]
<1>1. pending \in Seq(0..MaxNow) /\ pending # <<>> /\ pending' = Tail(pending)
  BY DEF Turn, SimTypeOK
<1>2. Len(pending) \in Nat /\ Len(pending) >= 1 /\ DOMAIN pending = 1..Len(pending)
  BY <1>1
<1>3. 1 \in DOMAIN pending /\ Stamp = pending[1]
  BY <1>1, <1>2 DEF Stamp
<1>4. pending[1] \in 0..MaxNow
  <2> DEFINE T == 0..MaxNow
  <2>1. pending \in Seq(T) /\ 1 \in 1..Len(pending)
    BY <1>1, <1>2
  <2> HIDE DEF T
  <2>2. pending[1] \in T
    BY <2>1, ElementOfSeq
  <2> QED
    BY <2>2 DEF T
<1>5. /\ pending' \in Seq(0..MaxNow) /\ Len(pending') = Len(pending) - 1
      /\ DOMAIN pending' = 1..(Len(pending) - 1)
      /\ \A k \in 1..(Len(pending) - 1) : pending'[k] = pending[k + 1]
  BY <1>1, <1>2
<1>6. \A k \in DOMAIN pending' :
         k + 1 \in DOMAIN pending /\ pending'[k] = pending[k + 1] /\ 1 <= k + 1
  BY <1>2, <1>5
<1>7. \A k \in DOMAIN pending' : pending[1] <= pending[k + 1]
  BY <1>3, <1>6 DEF Times
<1> QED
  BY <1>3, <1>4, <1>5, <1>6, <1>7 DEF Times

\* And those that wait still come in order.
LEMMA TimesAfterTurn ==
  ASSUME SimTypeOK, Times, Turn, now' = now, polled' \in {polled, Stamp}
  PROVE  Times'
<1>1. /\ Stamp \in 0..MaxNow /\ polled <= Stamp /\ Stamp <= now
      /\ \A k \in DOMAIN pending' :
           k + 1 \in DOMAIN pending /\ pending'[k] = pending[k + 1]
      /\ \A k \in DOMAIN pending' : Stamp <= pending'[k]
  BY TurnTaken
<1>2. /\ pending \in Seq(0..MaxNow) /\ polled \in Nat /\ now \in Nat /\ MaxNow \in Nat
  BY SimAssumption DEF SimTypeOK
<1>3. \A k \in DOMAIN pending : pending[k] \in Nat /\ k \in Nat
  BY <1>2
<1>4. pending' \in Seq(0..MaxNow)
  BY TurnTaken
<1>5. \A k \in DOMAIN pending' : k \in Nat
  BY <1>4
<1>6. \A k \in DOMAIN pending' : polled' <= pending'[k] /\ pending'[k] <= now'
  BY <1>1, <1>2, <1>3 DEF Times
<1>7. \A k, l \in DOMAIN pending' : k <= l => pending'[k] <= pending'[l]
  <2>1. ASSUME NEW k \in DOMAIN pending', NEW l \in DOMAIN pending', k <= l
        PROVE  pending'[k] <= pending'[l]
    <3>1. /\ k + 1 \in DOMAIN pending /\ l + 1 \in DOMAIN pending /\ k + 1 <= l + 1
          /\ pending'[k] = pending[k + 1] /\ pending'[l] = pending[l + 1]
      BY <1>1, <1>5, <2>1
    <3>2. pending[k + 1] <= pending[l + 1]
      BY <3>1 DEF Times
    <3> QED
      BY <3>1, <3>2
  <2> QED
    BY <2>1
<1>8. polled' <= now'
  BY <1>1, <1>2 DEF Times
<1> QED
  BY <1>6, <1>7, <1>8 DEF Times

\* A request that has its turn keeps the invariant.
LEMMA AfterTurn ==
  ASSUME SimInv, Turn, NEW q, Becomes(q), Follows(q, session', Stamp),
         session' \in Session, removed' \in SUBSET [id : SimId, at : Nat],
         removed \subseteq removed',
         \A i \in DOMAIN torrents \ DOMAIN q : \E r \in removed' : r.id = i /\ r.at >= Stamp,
         nextId' \in 1..(MaxId + 1), DOMAIN q \subseteq 1..(nextId' - 1),
         UNCHANGED <<now, arrivals, polled>>
  PROVE  SimInv' /\ InTurn(torrents, torrents')
<1>1. SimTypeOK /\ Times
  BY DEF SimInv
<1>2. /\ Stamp \in 0..MaxNow /\ polled <= Stamp /\ pending' \in Seq(0..MaxNow)
  BY <1>1, TurnTaken
<1>3. Stamp \in Nat /\ now \in Nat
  BY <1>1, <1>2, SimAssumption DEF SimTypeOK
<1>4. now' \in Nat /\ now <= now' /\ polled' = polled
  BY <1>3
<1>5. /\ Sane(torrents)' /\ Busy(torrents, session)' /\ DeltaTells'
      /\ dirty' \in SUBSET SimId /\ InTurn(torrents, torrents')
  BY <1>2, <1>3, <1>4, Becoming
<1>6. Times'
  BY <1>1, TimesAfterTurn
<1>7. torrents' = q
  BY DEF Becomes
<1>8. SimTypeOK'
  <2>1. /\ \A i \in DOMAIN torrents' : torrents'[i] \in Torrent
        /\ \A i, j \in DOMAIN torrents' : torrents'[i].hash = torrents'[j].hash => i = j
    BY <1>5 DEF Sane, Sound
  <2>2. now' \in 0..MaxNow /\ arrivals' \in 0..MaxArrivals /\ polled' \in 0..MaxNow
    BY <1>1 DEF SimTypeOK
  <2>3. DOMAIN torrents' \subseteq 1..(nextId' - 1)
    BY <1>7
  <2> QED
    BY <1>2, <1>5, <2>1, <2>2, <2>3 DEF SimTypeOK
<1> QED
  BY <1>5, <1>6, <1>8 DEF SimInv

\* The handlers after which the queue moves on, with no torrent added or removed.
LEMMA AfterRequest ==
  ASSUME SimInv, Turn, NEW mid, DOMAIN mid = DOMAIN torrents,
         Request(torrents, mid, Stamp), NEW s \in Session, session' = s,
         Becomes(PromoteQueue(mid, s, Stamp)),
         UNCHANGED <<removed, nextId, now, arrivals, polled>>
  PROVE  SimInv' /\ InTurn(torrents, torrents')
<1> DEFINE q == PromoteQueue(mid, s, Stamp)
<1>1. SimTypeOK /\ Times
  BY DEF SimInv
<1>2. Stamp \in Nat
  BY <1>1, TurnTaken, SimAssumption
<1>3. /\ DOMAIN q = DOMAIN mid
      /\ Sane(q) /\ Busy(q, s) /\ Active(torrents, q, Stamp) /\ InTurn(torrents, q)
  BY <1>2, Onward
<1> HIDE DEF q
<1>4. Follows(q, session', Stamp)
  BY <1>3 DEF Follows
<1>5. /\ removed' \in SUBSET [id : SimId, at : Nat] /\ removed \subseteq removed'
      /\ nextId' \in 1..(MaxId + 1) /\ DOMAIN torrents \subseteq 1..(nextId' - 1)
  BY <1>1 DEF SimTypeOK
<1>6. Becomes(q)
  BY DEF q
<1>7. DOMAIN q \subseteq 1..(nextId' - 1) /\ DOMAIN torrents \ DOMAIN q = {}
  BY <1>3, <1>5
<1> QED
  BY <1>4, <1>5, <1>6, <1>7, AfterTurn

\* ... of which the torrents of ids are touched first.
LEMMA AfterWrite ==
  ASSUME SimInv, NEW ids, NEW q, DOMAIN q = DOMAIN torrents, Write(ids, q),
         Request(torrents, Touched(q, ids), Stamp)
  PROVE  SimInv' /\ InTurn(torrents, torrents')
<1> DEFINE mid == Touched(q, ids)
<1>1. /\ Turn /\ Becomes(PromoteQueue(mid, session, Stamp))
      /\ UNCHANGED <<removed, nextId, now, arrivals, polled>> /\ session' = session
  BY DEF Write, Kept
<1>2. DOMAIN mid = DOMAIN torrents
  BY DEF Touched
<1>3. session \in Session
  BY DEF SimInv, SimTypeOK
<1> HIDE DEF mid
<1>4. Request(torrents, mid, Stamp)
  BY DEF mid
<1> QED
  BY <1>1, <1>2, <1>3, <1>4, AfterRequest

\* torrent_set, and the handlers that only touch.
LEMMA AfterTouch ==
  ASSUME SimInv, Turn, Kept, NEW ids, NEW b, DOMAIN b = DOMAIN torrents,
         Becomes(Touched(b, ids)),
         \A i \in DOMAIN torrents :
            \/ b[i] = torrents[i]
            \/ i \in ids /\ Kin(torrents[i], b[i]) /\ b[i].status = torrents[i].status
  PROVE  SimInv' /\ InTurn(torrents, torrents')
<1> DEFINE q == Touched(b, ids)
<1>1. SimTypeOK /\ Times /\ Sane(torrents) /\ Busy(torrents, session)
  BY DEF SimInv
<1>2. Stamp \in Nat
  BY <1>1, TurnTaken, SimAssumption
<1>3. /\ DOMAIN q = DOMAIN torrents
      /\ Sane(q) /\ Busy(q, session) /\ Active(torrents, q, Stamp)
      /\ InTurn(torrents, q)
  BY <1>1, <1>2, StayRequest
<1> HIDE DEF q
<1>4. UNCHANGED <<session, removed, nextId, now, arrivals, polled>>
  BY DEF Kept
<1>5. Follows(q, session', Stamp)
  BY <1>3, <1>4 DEF Follows
<1>6. /\ removed' \in SUBSET [id : SimId, at : Nat] /\ removed \subseteq removed'
      /\ nextId' \in 1..(MaxId + 1) /\ DOMAIN torrents \subseteq 1..(nextId' - 1)
      /\ session' \in Session
  BY <1>1, <1>4 DEF SimTypeOK
<1>7. Becomes(q)
  BY DEF q
<1>8. DOMAIN q \subseteq 1..(nextId' - 1) /\ DOMAIN torrents \ DOMAIN q = {}
  BY <1>3, <1>6
<1> QED
  BY <1>4, <1>5, <1>6, <1>7, <1>8, AfterTurn

\* What has been removed since the last poll, two windows ago at most, is still
\* remembered.
LEMMA StillRemembered ==
  ASSUME NEW n \in Nat, NEW p \in Nat, NEW w \in Nat, NEW at \in Nat,
         n - p <= 2 * w, at >= p
  PROVE  at >= n - 2 * w
<1> DEFINE v == 2 * w
<1>1. v \in Int /\ n - p <= v
  OBVIOUS
<1> HIDE DEF v
<1>2. at >= n - v
  BY <1>1
<1> QED
  BY <1>2 DEF v

\* The arrival of a request, with a tick or within the same millisecond.
LEMMA AfterArrive ==
  ASSUME SimInv, Arrive
  PROVE  SimInv' /\ InTurn(torrents, torrents')
<1>1. SimTypeOK /\ Times /\ Sane(torrents) /\ Busy(torrents, session) /\ DeltaTells
  BY DEF SimInv
<1>2. PICK n \in now..MaxNow :
        /\ now' = n /\ pending' = Append(pending, n)
        /\ \/ /\ \E ts \in Ticked(torrents, n) : Becomes(PromoteQueue(ts, session, n))
              /\ removed' = Trimmed(removed, n)
           \/ n = now /\ UNCHANGED <<torrents, dirty, removed>>
  BY DEF Arrive
<1>3. /\ arrivals < MaxArrivals /\ arrivals' = arrivals + 1
      /\ UNCHANGED <<session, nextId, polled>>
  BY DEF Arrive
<1>4. /\ now \in Nat /\ MaxNow \in Nat /\ RecentWindow \in Nat /\ polled \in Nat
      /\ MaxArrivals \in Nat /\ arrivals \in 0..MaxArrivals /\ n \in Nat
      /\ pending \in Seq(0..MaxNow) /\ session \in Session
      /\ removed \in SUBSET [id : SimId, at : Nat] /\ n <= MaxNow /\ now <= n
  BY <1>1, SimAssumption DEF SimTypeOK
<1>5. polled <= n /\ polled' = polled /\ now' \in Nat /\ now <= now'
  BY <1>1, <1>2, <1>3, <1>4 DEF Times
<1>6. /\ Sane(torrents)' /\ Busy(torrents, session)' /\ DeltaTells'
      /\ dirty' \in SUBSET SimId /\ InTurn(torrents, torrents')
      /\ removed' \in SUBSET [id : SimId, at : Nat]
      /\ DOMAIN torrents' = DOMAIN torrents
  <2>1. CASE /\ \E ts \in Ticked(torrents, n) : Becomes(PromoteQueue(ts, session, n))
             /\ removed' = Trimmed(removed, n)
    <3>1. PICK ts \in Ticked(torrents, n) : Becomes(PromoteQueue(ts, session, n))
      BY <2>1
    <3> DEFINE q == PromoteQueue(ts, session, n)
    <3>2. DOMAIN ts = DOMAIN torrents /\ Request(torrents, ts, n)
      BY <1>1, <1>4, TickRequest
    <3>3. /\ DOMAIN q = DOMAIN ts
          /\ Sane(q) /\ Busy(q, session) /\ Active(torrents, q, n) /\ InTurn(torrents, q)
      BY <1>4, <3>2, Onward
    <3>4. Becomes(q)
      BY <3>1
    <3> HIDE DEF q
    <3>5. Follows(q, session', n)
      BY <1>3, <3>3 DEF Follows
    <3>6. removed' \in SUBSET [id : SimId, at : Nat]
      BY <1>4, <2>1 DEF Trimmed
    <3>7. ASSUME NEW r \in removed, now' - polled <= 2 * RecentWindow, r.at >= polled
          PROVE  r \in removed'
      <4>1. r.at \in Nat
        BY <1>4
      <4>2. r.at >= n - 2 * RecentWindow
        BY <1>2, <1>4, <3>7, <4>1, StillRemembered
      <4> QED
        BY <2>1, <4>2 DEF Trimmed
    <3>8. DOMAIN torrents \ DOMAIN q = {}
      BY <3>2, <3>3
    <3>9. /\ Sane(torrents)' /\ Busy(torrents, session)' /\ DeltaTells'
          /\ dirty' \in SUBSET SimId /\ InTurn(torrents, torrents')
      BY <1>4, <1>5, <3>4, <3>5, <3>6, <3>7, <3>8, Becoming
    <3>10. torrents' = q
      BY <3>4 DEF Becomes
    <3> QED
      BY <3>2, <3>3, <3>6, <3>9, <3>10
  <2>2. CASE n = now /\ UNCHANGED <<torrents, dirty, removed>>
    <3>1. torrents' = torrents /\ dirty' = dirty /\ removed' = removed /\ now' = now
      BY <1>2, <2>2
    <3>2. DeltaTells'
      BY <1>1, <1>5, <3>1 DEF DeltaTells
    <3>3. InTurn(torrents, torrents')
      BY <3>1 DEF InTurn
    <3>4. dirty' \in SUBSET SimId
      BY <1>1, <3>1 DEF SimTypeOK
    <3> QED
      BY <1>1, <1>3, <1>4, <3>1, <3>2, <3>3, <3>4
  <2> QED
    BY <1>2, <2>1, <2>2
<1>7. pending' \in Seq(0..MaxNow)
  <2> DEFINE T == 0..MaxNow
  <2>1. n \in T /\ pending \in Seq(T)
    BY <1>4
  <2> HIDE DEF T
  <2>2. Append(pending, n) \in Seq(T)
    BY <2>1
  <2> QED
    BY <1>2, <2>2 DEF T
<1>8. Times'
  <2>1. Len(pending) \in Nat /\ DOMAIN pending = 1..Len(pending)
    BY <1>4
  <2>2. /\ DOMAIN pending' = 1..(Len(pending) + 1)
        /\ pending'[Len(pending) + 1] = n
        /\ \A k \in 1..Len(pending) : pending'[k] = pending[k]
    BY <1>2, <1>4
  <2>3. \A k \in DOMAIN pending : pending[k] \in 0..MaxNow
    <3> DEFINE T == 0..MaxNow
    <3>1. pending \in Seq(T)
      BY <1>4
    <3> HIDE DEF T
    <3>2. \A k \in 1..Len(pending) : pending[k] \in T
      BY <3>1, ElementOfSeq
    <3> QED
      BY <2>1, <3>2 DEF T
  <2>4. \A k \in DOMAIN pending : polled <= pending[k] /\ pending[k] <= n
    <3>1. \A k \in DOMAIN pending : polled <= pending[k] /\ pending[k] <= now
      BY <1>1 DEF Times
    <3> QED
      BY <1>4, <2>3, <3>1
  <2>5. \A k \in DOMAIN pending' : \/ k \in DOMAIN pending /\ pending'[k] = pending[k]
                                   \/ k = Len(pending) + 1 /\ pending'[k] = n
    BY <2>1, <2>2
  <2>6. \A k \in DOMAIN pending' : polled' <= pending'[k] /\ pending'[k] <= now'
    BY <1>2, <1>4, <1>5, <2>4, <2>5
  <2>7. ASSUME NEW k \in DOMAIN pending', NEW l \in DOMAIN pending', k <= l
        PROVE  pending'[k] <= pending'[l]
    <3>1. CASE l = Len(pending) + 1
      BY <1>4, <2>2, <2>4, <2>5, <3>1
    <3>2. CASE l # Len(pending) + 1
      <4>1. l \in DOMAIN pending /\ k \in DOMAIN pending
        BY <2>1, <2>2, <2>7, <3>2
      <4>2. pending[k] <= pending[l]
        BY <1>1, <2>7, <4>1 DEF Times
      <4> QED
        BY <2>1, <2>2, <4>1, <4>2
    <3> QED
      BY <3>1, <3>2
  <2>8. polled' <= now'
    BY <1>2, <1>5
  <2> QED
    BY <2>6, <2>7, <2>8 DEF Times
<1>9. SimTypeOK'
  <2>1. /\ \A i \in DOMAIN torrents' : torrents'[i] \in Torrent
        /\ \A i, j \in DOMAIN torrents' : torrents'[i].hash = torrents'[j].hash => i = j
    BY <1>6 DEF Sane, Sound
  <2>2. now' \in 0..MaxNow /\ arrivals' \in 0..MaxArrivals
    BY <1>2, <1>3, <1>4
  <2>3. DOMAIN torrents' \subseteq 1..(nextId' - 1) /\ session' \in Session
        /\ nextId' \in 1..(MaxId + 1) /\ polled' \in 0..MaxNow
    BY <1>1, <1>3, <1>6 DEF SimTypeOK
  <2> QED
    BY <1>6, <1>7, <2>1, <2>2, <2>3 DEF SimTypeOK
<1> QED
  BY <1>6, <1>8, <1>9 DEF SimInv

\* Removing.
LEMMA AfterRemove ==
  ASSUME SimInv, NEW ids, TorrentRemove(ids)
  PROVE  SimInv' /\ InTurn(torrents, torrents')
<1> DEFINE mid == RenumberQueue([i \in DOMAIN torrents \ ids |-> torrents[i]])
           q == PromoteQueue(mid, session, Stamp)
<1>1. SimTypeOK /\ Times /\ Sane(torrents)
  BY DEF SimInv
<1>2. /\ Turn /\ ids \subseteq DOMAIN torrents
      /\ removed' = removed \cup [id : ids, at : {Stamp}]
      /\ Becomes(q) /\ UNCHANGED <<session, nextId, now, arrivals, polled>>
  BY DEF TorrentRemove
<1>3. Stamp \in Nat
  BY <1>1, <1>2, TurnTaken, SimAssumption
<1>4. DOMAIN mid = DOMAIN torrents \ ids /\ Request(torrents, mid, Stamp)
  BY <1>1, <1>3, RemoveRequest
<1> HIDE DEF mid
<1>5. session \in Session
  BY <1>1 DEF SimTypeOK
<1>6. /\ DOMAIN q = DOMAIN mid
      /\ Sane(q) /\ Busy(q, session) /\ Active(torrents, q, Stamp)
      /\ InTurn(torrents, q)
  BY <1>3, <1>4, <1>5, Onward
<1> HIDE DEF q
<1>7. Follows(q, session', Stamp)
  BY <1>2, <1>6 DEF Follows
<1>8. ids \subseteq SimId
  BY <1>1, <1>2 DEF Sane
<1>9. removed' \in SUBSET [id : SimId, at : Nat] /\ removed \subseteq removed'
  BY <1>1, <1>2, <1>3, <1>8 DEF SimTypeOK
<1>10. ASSUME NEW i \in DOMAIN torrents \ DOMAIN q
       PROVE  \E r \in removed' : r.id = i /\ r.at >= Stamp
  <2> DEFINE r == [id |-> i, at |-> Stamp]
  <2>1. i \in ids
    BY <1>4, <1>6
  <2>2. r \in removed' /\ r.id = i /\ r.at >= Stamp
    BY <1>2, <1>3, <2>1
  <2> QED
    BY <2>2
<1>11. /\ nextId' \in 1..(MaxId + 1) /\ DOMAIN q \subseteq 1..(nextId' - 1)
       /\ session' \in Session
  BY <1>1, <1>2, <1>4, <1>6 DEF SimTypeOK
<1> QED
  BY <1>2, <1>7, <1>9, <1>10, <1>11, AfterTurn

\* Adding.
LEMMA AfterAdd ==
  ASSUME SimInv, NEW hash \in Hash, NEW files \in SUBSET File,
         NEW off \in SUBSET File, NEW paused \in BOOLEAN,
         Add(hash, [files |-> files, want |-> files], off, paused)
  PROVE  SimInv' /\ InTurn(torrents, torrents')
<1> DEFINE mid == WithAdded(hash, files, off, paused)
           q == PromoteQueue(mid, session, Stamp)
<1>1. /\ SimTypeOK /\ Times /\ Sane(torrents) /\ Busy(torrents, session) /\ DeltaTells
  BY DEF SimInv
<1>2. /\ Turn /\ nextId <= MaxId
      /\ UNCHANGED <<session, removed, now, arrivals, polled>>
  BY DEF Add
<1>3. /\ Stamp \in Nat /\ pending' \in Seq(0..MaxNow)
  BY <1>1, <1>2, TurnTaken, SimAssumption
<1>4. CASE \E i \in DOMAIN torrents : torrents[i].hash = hash
  <2>1. UNCHANGED <<torrents, dirty, nextId>>
    BY <1>4 DEF Add
  <2>2. Times'
    BY <1>1, <1>2, TimesAfterTurn
  <2>3. SimTypeOK'
    BY <1>1, <1>2, <1>3, <2>1 DEF SimTypeOK
  <2>4. DeltaTells'
    BY <1>1, <1>2, <2>1 DEF DeltaTells
  <2>5. Sane(torrents)' /\ Busy(torrents, session)' /\ InTurn(torrents, torrents')
    BY <1>1, <1>2, <2>1 DEF InTurn
  <2> QED
    BY <2>2, <2>3, <2>4, <2>5 DEF SimInv
<1>5. CASE \A i \in DOMAIN torrents : torrents[i].hash # hash
  <2>1. Becomes(q) /\ nextId' = nextId + 1
    BY <1>5 DEF Add, WithAdded
  <2>2. /\ nextId \in 1..(MaxId + 1) /\ MaxId \in Nat
        /\ DOMAIN torrents \subseteq 1..(nextId - 1)
        /\ removed \in SUBSET [id : SimId, at : Nat] /\ session \in Session
    BY <1>1, SimAssumption DEF SimTypeOK
  <2>3. nextId \in SimId /\ nextId \notin DOMAIN torrents
    BY <1>2, <2>2 DEF SimId
  <2>4. DOMAIN mid = DOMAIN torrents \cup {nextId} /\ Request(torrents, mid, Stamp)
    <3>1. Sane(torrents) /\ \A i \in DOMAIN torrents : torrents[i].hash # hash
      BY <1>1, <1>5
    <3> QED
      BY <1>3, <2>3, <3>1, AddRequest
  <2> HIDE DEF mid
  <2>5. /\ DOMAIN q = DOMAIN mid
        /\ Sane(q) /\ Busy(q, session) /\ Active(torrents, q, Stamp)
        /\ InTurn(torrents, q)
    BY <1>3, <2>2, <2>4, Onward
  <2> HIDE DEF q
  <2>6. Follows(q, session', Stamp)
    BY <1>2, <2>5 DEF Follows
  <2>7. /\ nextId' \in 1..(MaxId + 1) /\ nextId' - 1 = nextId
    BY <1>2, <2>1, <2>2
  <2>8. DOMAIN q \subseteq 1..(nextId' - 1)
    <3>1. DOMAIN torrents \cup {nextId} \subseteq 1..nextId
      BY <2>2
    <3> QED
      BY <2>4, <2>5, <2>7, <3>1
  <2>9. DOMAIN torrents \ DOMAIN q = {}
    BY <2>4, <2>5
  <2>10. /\ removed' \in SUBSET [id : SimId, at : Nat] /\ removed \subseteq removed'
         /\ session' \in Session
    BY <1>2, <2>2
  <2> QED
    BY <1>2, <2>1, <2>6, <2>7, <2>8, <2>9, <2>10, AfterTurn
<1> QED
  BY <1>4, <1>5

\* A poll: what was dirty is among what is told.
LEMMA AfterGet ==
  ASSUME SimInv, NEW full \in BOOLEAN, TorrentGet(full)
  PROVE  SimInv' /\ InTurn(torrents, torrents')
<1> DEFINE cut == Stamp - RecentWindow
           told == IF full THEN SimId
                   ELSE {i \in DOMAIN torrents : torrents[i].active >= cut}
                        \cup {r.id : r \in {r \in removed : r.at >= cut}}
<1>1. /\ SimTypeOK /\ Times /\ Sane(torrents) /\ Busy(torrents, session) /\ DeltaTells
  BY DEF SimInv
<1>2. /\ Turn /\ polled' = Stamp /\ dirty' = dirty \ told
      /\ UNCHANGED <<torrents, session, removed, nextId, now, arrivals>>
  BY DEF TorrentGet
<1>3. /\ Stamp \in 0..MaxNow /\ polled <= Stamp /\ Stamp <= now
      /\ pending' \in Seq(0..MaxNow)
  BY <1>1, <1>2, TurnTaken
<1>4. /\ Stamp \in Nat /\ polled \in Nat /\ now \in Nat /\ RecentWindow \in Nat
      /\ dirty \in SUBSET SimId
      /\ \A i \in DOMAIN torrents : torrents[i].active \in Nat
      /\ \A r \in removed : r.at \in Nat
  BY <1>1, <1>3, SimAssumption DEF SimTypeOK, Torrent
<1>5. dirty \subseteq told
  <2>1. CASE full
    BY <1>4, <2>1
  <2>2. CASE ~full
    <3>1. Stamp - polled <= RecentWindow /\ now - polled <= 2 * RecentWindow
      BY <2>2 DEF TorrentGet
    <3>2. cut \in Int /\ polled >= cut
      BY <1>4, <3>1
    <3> HIDE DEF cut
    <3>3. ASSUME NEW i \in dirty PROVE i \in told
      <4>1. CASE i \in DOMAIN torrents
        <5>1. torrents[i].active >= polled
          BY <1>1, <4>1 DEF DeltaTells
        <5>2. torrents[i].active >= cut
          BY <1>4, <3>2, <4>1, <5>1
        <5> QED
          BY <2>2, <4>1, <5>2
      <4>2. CASE i \notin DOMAIN torrents
        <5>1. PICK r \in removed : r.id = i /\ r.at >= polled
          BY <1>1, <3>1, <4>2 DEF DeltaTells
        <5>2. r.at >= cut
          BY <1>4, <3>2, <5>1
        <5> QED
          BY <2>2, <5>1, <5>2
      <4> QED
        BY <4>1, <4>2
    <3> QED
      BY <3>3
  <2> QED
    BY <2>1, <2>2
<1> HIDE DEF told
<1>6. dirty' = {}
  BY <1>2, <1>5
<1>7. DeltaTells'
  BY <1>6 DEF DeltaTells
<1>8. Times'
  BY <1>1, <1>2, TimesAfterTurn
<1>9. SimTypeOK'
  BY <1>1, <1>2, <1>3, <1>6 DEF SimTypeOK
<1>10. Sane(torrents)' /\ Busy(torrents, session)' /\ InTurn(torrents, torrents')
  BY <1>1, <1>2 DEF InTurn
<1> QED
  BY <1>7, <1>8, <1>9, <1>10 DEF SimInv

\* torrent_set, of one file.
LEMMA AfterSet ==
  ASSUME SimInv, NEW ids, NEW on \in SUBSET File, NEW off \in SUBSET File,
         TorrentSet(ids, on, off)
  PROVE  SimInv' /\ InTurn(torrents, torrents')
<1> DEFINE b == [i \in DOMAIN torrents |-> IF i \in ids
                                           THEN WithWanted(torrents[i], on, off)
                                           ELSE torrents[i]]
<1>1. /\ Turn /\ Kept /\ Becomes(Touched(b, ids))
  BY DEF TorrentSet
<1>2. DOMAIN b = DOMAIN torrents
  OBVIOUS
<1>3. \A i \in DOMAIN torrents : Sound(torrents[i])
  BY DEF SimInv, Sane
<1>4. ASSUME NEW i \in DOMAIN torrents
      PROVE  \/ b[i] = torrents[i]
             \/ i \in ids /\ Kin(torrents[i], b[i]) /\ b[i].status = torrents[i].status
  <2> DEFINE u == WithWanted(torrents[i], on, off)
  <2>1. Kin(torrents[i], u) /\ u.status = torrents[i].status
    BY <1>3, WantedRow
  <2>2. b[i] = IF i \in ids THEN u ELSE torrents[i]
    OBVIOUS
  <2> HIDE DEF u, b
  <2> QED
    BY <2>1, <2>2
<1> HIDE DEF b
<1> QED
  BY <1>1, <1>2, <1>4, AfterTouch

\* torrent_reannounce and the others that only touch.
LEMMA AfterPoke ==
  ASSUME SimInv, NEW ids, Touch(ids)
  PROVE  SimInv' /\ InTurn(torrents, torrents')
<1>1. Turn /\ Kept /\ Becomes(Touched(torrents, ids))
  BY DEF Touch
<1> QED
  BY <1>1, AfterTouch

\* session_set.
LEMMA AfterSession ==
  ASSUME SimInv, NEW s \in Session, SessionSet(s)
  PROVE  SimInv' /\ InTurn(torrents, torrents')
<1>1. /\ Turn /\ session' = s /\ Becomes(PromoteQueue(torrents, s, Stamp))
      /\ UNCHANGED <<removed, nextId, now, arrivals, polled>>
  BY DEF SessionSet
<1>2. Stamp \in Nat /\ Sane(torrents)
  BY <1>1, TurnTaken, SimAssumption DEF SimInv
<1>3. Request(torrents, torrents, Stamp)
  BY <1>2, SameRequest
<1> QED
  BY <1>1, <1>3, AfterRequest

\* The handlers that change torrents and let the queue move on.
LEMMA AfterHandler ==
  ASSUME SimInv, NEW ids \in SUBSET DOMAIN torrents,
         \/ Start(ids) \/ StartNow(ids) \/ Stop(ids) \/ Verify(ids)
         \/ \E where \in Where : Move(where, ids)
  PROVE  SimInv' /\ InTurn(torrents, torrents')
<1>1. Turn
  BY DEF Start, StartNow, Stop, Verify, Move, Write
<1>2. Stamp \in Nat /\ Sane(torrents)
  BY <1>1, TurnTaken, SimAssumption DEF SimInv
<1>3. CASE Start(ids)
  <2> DEFINE S == Startable(ids)
             q == [i \in DOMAIN torrents |-> IF i \in Startable(ids)
                     THEN Started(torrents[i]) ELSE torrents[i]]
  <2>1. Write(S, q) /\ DOMAIN q = DOMAIN torrents
    BY <1>3 DEF Start
  <2>2. Request(torrents, Touched(q, S), Stamp)
    BY <1>2, StartRequest
  <2> HIDE DEF q, S
  <2> QED
    BY <2>1, <2>2, AfterWrite
<1>4. CASE StartNow(ids)
  <2> DEFINE S == Startable(ids)
             b == [i \in DOMAIN torrents |->
                     IF i \in Startable(ids)
                     THEN [StartedNow(torrents[i]) EXCEPT !.pos = -i]
                     ELSE torrents[i]]
             q == RenumberQueue(b)
  <2>1. Write(S, q) /\ DOMAIN q = DOMAIN torrents
    BY <1>4 DEF StartNow, RenumberQueue
  <2>2. Request(torrents, Touched(q, S), Stamp)
    BY <1>2, StartNowRequest
  <2> HIDE DEF q, S
  <2> QED
    BY <2>1, <2>2, AfterWrite
<1>5. CASE Stop(ids)
  <2> DEFINE q == [i \in DOMAIN torrents |-> IF i \in ids THEN Stopped(torrents[i])
                                             ELSE torrents[i]]
  <2>1. Write(ids, q) /\ DOMAIN q = DOMAIN torrents
    BY <1>5 DEF Stop
  <2>2. Request(torrents, Touched(q, ids), Stamp)
    BY <1>2, StopRequest
  <2> HIDE DEF q
  <2> QED
    BY <2>1, <2>2, AfterWrite
<1>6. CASE Verify(ids)
  <2> DEFINE q == [i \in DOMAIN torrents |-> IF i \in ids THEN Verifying(torrents[i])
                                             ELSE torrents[i]]
  <2>1. Write(ids, q) /\ DOMAIN q = DOMAIN torrents
    BY <1>6 DEF Verify
  <2>2. Request(torrents, Touched(q, ids), Stamp)
    BY <1>2, VerifyRequest
  <2> HIDE DEF q
  <2> QED
    BY <2>1, <2>2, AfterWrite
<1>7. CASE \E where \in Where : Move(where, ids)
  <2>1. PICK where \in Where : Move(where, ids)
    BY <1>7
  <2> DEFINE q == QueueMove(torrents, where, ids)
  <2>2. Write(ids, q) /\ DOMAIN q = DOMAIN torrents
    BY <2>1 DEF Move, QueueMove
  <2>3. Request(torrents, Touched(q, ids), Stamp)
    BY <1>2, MoveRequest
  <2> HIDE DEF q
  <2> QED
    BY <2>2, <2>3, AfterWrite
<1> QED
  BY <1>3, <1>4, <1>5, <1>6, <1>7

\* A step that changes nothing.
LEMMA AfterNothing ==
  ASSUME SimInv, UNCHANGED simVars
  PROVE  SimInv' /\ InTurn(torrents, torrents')
<1>1. /\ torrents' = torrents /\ session' = session /\ removed' = removed
      /\ nextId' = nextId /\ now' = now /\ arrivals' = arrivals
      /\ pending' = pending /\ polled' = polled /\ dirty' = dirty
  BY DEF simVars
<1>2. SimTypeOK' /\ Times'
  BY <1>1 DEF SimInv, SimTypeOK, Times
<1>3. Sane(torrents)' /\ Busy(torrents, session)'
  BY <1>1 DEF SimInv
<1>4. DeltaTells'
  BY <1>1 DEF SimInv, DeltaTells
<1>5. InTurn(torrents, torrents')
  BY <1>1 DEF InTurn
<1> QED
  BY <1>2, <1>3, <1>4, <1>5 DEF SimInv

\* Every step keeps the invariant, and serves the queues in order.
LEMMA SimStep ==
  ASSUME SimInv, [SimNext]_simVars
  PROVE  SimInv' /\ InTurn(torrents, torrents')
<1>1. CASE Arrive
  BY <1>1, AfterArrive
<1>2. ASSUME NEW ids \in {{i} : i \in DOMAIN torrents} \cup {DOMAIN torrents},
             \/ Start(ids) \/ StartNow(ids) \/ Stop(ids) \/ Verify(ids)
             \/ TorrentRemove(ids) \/ Touch(ids)
      PROVE  SimInv' /\ InTurn(torrents, torrents')
  <2>1. ids \in SUBSET DOMAIN torrents
    OBVIOUS
  <2>2. CASE \/ Start(ids) \/ StartNow(ids) \/ Stop(ids) \/ Verify(ids)
    BY <2>1, <2>2, AfterHandler
  <2>3. CASE TorrentRemove(ids)
    BY <2>3, AfterRemove
  <2>4. CASE Touch(ids)
    BY <2>4, AfterPoke
  <2> QED
    BY <1>2, <2>2, <2>3, <2>4
<1>3. ASSUME NEW i \in DOMAIN torrents, NEW f \in File,
             TorrentSet({i}, {f}, {}) \/ TorrentSet({i}, {}, {f})
      PROVE  SimInv' /\ InTurn(torrents, torrents')
  <2>1. {f} \in SUBSET File /\ {} \in SUBSET File
    OBVIOUS
  <2> QED
    BY <1>3, <2>1, AfterSet
<1>4. ASSUME NEW ids \in SUBSET DOMAIN torrents, NEW where \in Where, Move(where, ids)
      PROVE  SimInv' /\ InTurn(torrents, torrents')
  BY <1>4, AfterHandler
<1>5. ASSUME NEW q \in {"download", "seed"}, NEW n \in 0..2,
             SessionSet([session EXCEPT ![q] = n])
      PROVE  SimInv' /\ InTurn(torrents, torrents')
  <2> DEFINE s == [session EXCEPT ![q] = n]
  <2>1. session \in Session /\ n \in Nat
    BY DEF SimInv, SimTypeOK
  <2>2. s \in Session
    BY <2>1 DEF Session
  <2>3. SessionSet(s)
    BY <1>5
  <2> HIDE DEF s
  <2> QED
    BY <2>2, <2>3, AfterSession
<1>6. ASSUME NEW hash \in Addable, NEW paused \in BOOLEAN,
             NEW off \in {{}} \cup {{f} : f \in File}, NEW files \in {{}, File},
             Add(hash, [files |-> files, want |-> files], off, paused)
      PROVE  SimInv' /\ InTurn(torrents, torrents')
  <2>1. off \in SUBSET File /\ files \in SUBSET File
    OBVIOUS
  <2>2. hash \in Hash
    BY SimAssumption
  <2> QED
    BY <1>6, <2>1, <2>2, AfterAdd
<1>7. ASSUME NEW all \in BOOLEAN, TorrentGet(all)
      PROVE  SimInv' /\ InTurn(torrents, torrents')
  BY <1>7, AfterGet
<1>8. CASE UNCHANGED simVars
  BY <1>8, AfterNothing
<1>9. CASE Handle
  BY <1>2, <1>3, <1>4, <1>5, <1>6, <1>7, <1>9 DEF Handle
<1> QED
  BY <1>1, <1>8, <1>9 DEF SimNext

-----------------------------------------------------------------------------
(* The start.                                                              *)

\* What the dataset is made of is sound.
LEMMA SpecRow ==
  ASSUME NEW t \in Specs
  PROVE  Sound(t) /\ t.active = 0
<1>1. CASE \E hash \in Hash, status \in ST, list \in FileLists,
              have \in 0..Cardinality(File) : t = Built(hash, status, list, have, 0)
  <2>1. PICK hash \in Hash, status \in ST, list \in FileLists,
             have \in 0..Cardinality(File) : t = Built(hash, status, list, have, 0)
    BY <1>1
  <2>2. PICK want \in SUBSET File : list = [files |-> File, want |-> want]
    BY DEF FileLists
  <2>3. File \in SUBSET File /\ File # {} /\ have \in Nat /\ 0 \in Nat
    BY SimAssumption
  <2>4. t = Built(hash, status, [files |-> File, want |-> want], have, 0)
    BY <2>1, <2>2
  <2> QED
    BY <2>3, <2>4, BuiltRow
<1>2. CASE \E hash \in Hash :
              t = Built(hash, "Download", [files |-> {}, want |-> {}], 0, 0)
  <2>1. PICK hash \in Hash :
          t = Built(hash, "Download", [files |-> {}, want |-> {}], 0, 0)
    BY <1>2
  <2>2. "Download" \in ST /\ {} \in SUBSET File /\ 0 \in Nat
        /\ "Download" \notin {"Seed", "SeedWait"}
    BY DEF ST, Running
  <2> QED
    BY <2>1, <2>2, BuiltRow
<1> QED
  BY <1>1, <1>2 DEF Specs

\* What the simulator starts with: the torrents of the dataset, in places.
LEMMA BuiltTorrents ==
  ASSUME NEW specs \in Dataset
  PROVE  LET q == BuildTorrents(specs)
         IN  /\ DOMAIN q = DOMAIN specs /\ DOMAIN specs = 1..Len(specs)
             /\ Len(specs) \in 0..MaxId /\ Sane(q)
             /\ \A i \in DOMAIN specs : q[i].status = specs[i].status
<1> DEFINE raw == [i \in DOMAIN specs |-> WithSimFields([specs[i] EXCEPT !.pos = i])]
           q == BuildTorrents(specs)
<1>1. /\ specs \in Seq(Specs) /\ Len(specs) <= MaxId /\ MaxId \in Nat
      /\ \A i, j \in DOMAIN specs : specs[i].hash = specs[j].hash => i = j
      /\ Cardinality({i \in DOMAIN specs : specs[i].status = "Check"}) <= 1
  BY DatasetAssumption, SimAssumption
<1>2. DOMAIN specs = 1..Len(specs) /\ Len(specs) \in 0..MaxId
  BY <1>1
<1>3. ASSUME NEW i \in DOMAIN specs
      PROVE  Sound(specs[i]) /\ specs[i].active = 0 /\ i \in Nat
  <2>1. specs[i] \in Specs
    BY <1>1, <1>2, ElementOfSeq
  <2> QED
    BY <1>2, <2>1, SpecRow
<1>4. DOMAIN raw = DOMAIN specs
  OBVIOUS
<1>5. ASSUME NEW i \in DOMAIN specs
      PROVE  /\ Sound(raw[i]) /\ raw[i].hash = specs[i].hash
             /\ raw[i].status = specs[i].status
             /\ \E p \in Int : raw[i] = [raw[i] EXCEPT !.pos = p]
  <2> DEFINE u == [specs[i] EXCEPT !.pos = i]
  <2>1. Sound(u) /\ u.hash = specs[i].hash /\ u.status = specs[i].status
    BY <1>3, PlacedRow
  <2>2. raw[i] = WithSimFields(u)
    OBVIOUS
  <2> HIDE DEF u, raw
  <2>3. Sound(raw[i]) /\ raw[i].hash = u.hash /\ raw[i].status = u.status
    BY <2>1, <2>2, SimFieldsRow
  <2>4. raw[i].pos \in Int /\ raw[i] = [raw[i] EXCEPT !.pos = raw[i].pos]
    BY <2>3 DEF Sound, Torrent
  <2>5. \E p \in Int : raw[i] = [raw[i] EXCEPT !.pos = p]
    BY <2>4
  <2> QED
    BY <2>1, <2>3, <2>5
<1>6. q = RenumberQueue(raw)
  BY DEF BuildTorrents
<1> HIDE DEF raw
<1>7. DOMAIN raw \subseteq SimId /\ IsFiniteSet(DOMAIN raw)
  <2>1. IsFiniteSet(1..Len(specs))
    BY <1>2, FS_Interval
  <2> QED
    BY <1>1, <1>2, <1>4, <2>1 DEF SimId
<1>8. /\ DOMAIN q = DOMAIN raw /\ InPlace(q)
      /\ \A i \in DOMAIN raw :
           /\ Sound(q[i]) /\ q[i].status = raw[i].status /\ q[i].hash = raw[i].hash
  <2>1. \A i \in DOMAIN raw :
           Sound(raw[i]) /\ \E p \in Int : raw[i] = [raw[i] EXCEPT !.pos = p]
    BY <1>4, <1>5
  <2> QED
    BY <1>6, <1>7, <2>1, RenumberedRows
<1> HIDE DEF q
<1>9. With(q, "Check") = {i \in DOMAIN specs : specs[i].status = "Check"}
  BY <1>4, <1>5, <1>8 DEF With
<1>10. Sane(q)
  <2>1. Cardinality(With(q, "Check")) <= 1
    BY <1>1, <1>9
  <2>2. \A i, j \in DOMAIN q : q[i].hash = q[j].hash => i = j
    BY <1>1, <1>4, <1>5, <1>8
  <2> QED
    BY <1>7, <1>8, <2>1, <2>2 DEF Sane
<1> QED
  BY <1>2, <1>4, <1>5, <1>8, <1>10 DEF q

\* The queues are as large as what runs.
LEMMA BuiltSession ==
  ASSUME NEW q, IsFiniteSet(DOMAIN q),
         With(q, "DownloadWait") # {} => With(q, "Download") # {},
         With(q, "SeedWait") # {} => With(q, "Seed") # {},
         With(q, "CheckWait") # {} => With(q, "Check") # {}
  PROVE  BuildSession(q) \in Session /\ Busy(q, BuildSession(q))
<1> DEFINE s == BuildSession(q)
           d == Cardinality(With(q, "Download"))
           e == Cardinality(With(q, "Seed"))
           c == Cardinality(With(q, "Check"))
<1>1. \A x : IsFiniteSet(With(q, x)) /\ Cardinality(With(q, x)) \in Nat
  <2>1. \A x : With(q, x) \subseteq DOMAIN q
    BY DEF With
  <2>2. \A x : IsFiniteSet(With(q, x))
    BY <2>1, FS_Subset
  <2> QED
    BY <2>2, FS_CardinalityType
<1>2. \A x : With(q, x) # {} => Cardinality(With(q, x)) # 0
  BY <1>1, FS_EmptySet
<1>3. d \in Nat /\ e \in Nat /\ c \in Nat
  BY <1>1
<1>4. s = [download |-> Max({1, d}), seed |-> Max({1, e})]
  BY DEF BuildSession, With
<1>5. /\ With(q, "DownloadWait") # {} => d # 0
      /\ With(q, "SeedWait") # {} => e # 0
      /\ With(q, "CheckWait") # {} => c # 0
  BY <1>2
<1> HIDE DEF s, d, e, c
<1>6. /\ Max({1, d}) = IF 1 >= d THEN 1 ELSE d
      /\ Max({1, e}) = IF 1 >= e THEN 1 ELSE e
  BY <1>3, MaxPair
<1>7. s.download = (IF 1 >= d THEN 1 ELSE d) /\ s.seed = IF 1 >= e THEN 1 ELSE e
  BY <1>4, <1>6
<1>8. s \in Session
  BY <1>3, <1>4, <1>6 DEF Session
<1>9. /\ With(q, "DownloadWait") # {} => s.download # 0 /\ d >= s.download
      /\ With(q, "SeedWait") # {} => s.seed # 0 /\ e >= s.seed
      /\ With(q, "CheckWait") # {} => c >= 1
  BY <1>3, <1>5, <1>7
<1> QED
  BY <1>8, <1>9 DEF Busy, s, d, e, c

\* The simulator starts with the invariant.
LEMMA SimStart ==
  ASSUME SimInit
  PROVE  SimInv
<1>1. PICK specs \in Dataset :
        /\ torrents = BuildTorrents(specs)
        /\ session = BuildSession(torrents)
        /\ nextId = Len(specs) + 1
  BY DEF SimInit
<1>2. /\ removed = {} /\ now = 0 /\ arrivals = 0 /\ pending = <<>>
      /\ polled = 0 /\ dirty = {}
  BY DEF SimInit
<1>3. /\ DOMAIN torrents = DOMAIN specs /\ DOMAIN specs = 1..Len(specs)
      /\ Len(specs) \in 0..MaxId /\ Sane(torrents)
      /\ \A i \in DOMAIN specs : torrents[i].status = specs[i].status
  BY <1>1, BuiltTorrents
<1>4. IsFiniteSet(DOMAIN torrents)
  BY <1>3, SaneFinite
<1>5. \A x : With(torrents, x) = {i \in DOMAIN specs : specs[i].status = x}
  BY <1>3 DEF With
<1>6. session \in Session /\ Busy(torrents, session)
  <2>1. /\ With(torrents, "DownloadWait") # {} => With(torrents, "Download") # {}
        /\ With(torrents, "SeedWait") # {} => With(torrents, "Seed") # {}
        /\ With(torrents, "CheckWait") # {} => With(torrents, "Check") # {}
    BY <1>5, DatasetAssumption
  <2> QED
    BY <1>1, <1>4, <2>1, BuiltSession
<1>7. SimTypeOK
  <2>1. MaxNow \in Nat /\ MaxArrivals \in Nat /\ MaxId \in Nat
    BY SimAssumption
  <2>2. nextId \in 1..(MaxId + 1) /\ DOMAIN torrents \subseteq 1..(nextId - 1)
    BY <1>1, <1>3, <2>1
  <2>3. /\ \A i \in DOMAIN torrents : torrents[i] \in Torrent
        /\ \A i, j \in DOMAIN torrents : torrents[i].hash = torrents[j].hash => i = j
    BY <1>3 DEF Sane, Sound
  <2>4. pending \in Seq(0..MaxNow)
    BY <1>2
  <2> QED
    BY <1>2, <1>6, <2>1, <2>2, <2>3, <2>4 DEF SimTypeOK
<1>8. Times
  BY <1>2 DEF Times
<1>9. DeltaTells
  BY <1>2 DEF DeltaTells
<1> QED
  BY <1>3, <1>6, <1>7, <1>8, <1>9 DEF SimInv

-----------------------------------------------------------------------------
(* What follows.                                                           *)

\* The invariant says more than the properties of the runs.
LEMMA SimPromises ==
  ASSUME SimInv
  PROVE  TorrentsSound /\ DeltaTells /\ Contiguous /\ NoIdleSlot
<1>1. SimTypeOK /\ Sane(torrents) /\ Busy(torrents, session) /\ DeltaTells
  BY DEF SimInv
<1>2. Accounted
  BY <1>1 DEF Accounted, Sane, Sound
<1>3. Contiguous
  <2> DEFINE D == DOMAIN torrents
             T == 0..(Cardinality(D) - 1)
             r == [i \in D |-> torrents[i].pos]
  <2>1. IsFiniteSet(D)
    BY <1>1, SaneFinite
  <2>2. r \in [D -> T] /\ \A i, j \in D : r[i] = r[j] => i = j
    BY <1>1 DEF Sane, InPlace
  <2>3. {r[i] : i \in D} = {torrents[i].pos : i \in D}
    OBVIOUS
  <2> HIDE DEF r
  <2>4. {r[i] : i \in D} = T
    BY <2>1, <2>2, AllTaken
  <2> QED
    BY <2>3, <2>4 DEF Contiguous
<1>4. NoIdleSlot
  <2>1. /\ With(torrents, "DownloadWait") # {}
             => /\ session.download # 0
                /\ Cardinality(With(torrents, "Download")) >= session.download
        /\ With(torrents, "SeedWait") # {}
             => session.seed # 0 /\ Cardinality(With(torrents, "Seed")) >= session.seed
        /\ With(torrents, "CheckWait") # {} => Cardinality(With(torrents, "Check")) >= 1
        /\ Cardinality(With(torrents, "Check")) <= 1
    BY <1>1 DEF Busy, Sane
  <2> QED
    BY <2>1 DEF NoIdleSlot, Queues
<1> QED
  BY <1>1, <1>2, <1>3, <1>4 DEF TorrentsSound

\* Serving each queue in turn is FirstComesFirst.
LEMMA InOrder ==
  ASSUME InTurn(torrents, torrents')
  PROVE  FirstComesFirst
BY DEF InTurn, FirstComesFirst, Queues

\* The torrents of the simulated daemon are of their type and no two of them
\* the same, and each adds up, with nothing unchecked, unless it is being
\* verified: reconcile in every handler and tick keeps have and left together.
THEOREM TorrentsSoundHolds == SimSpec => []TorrentsSound
<1>1. SimInit => SimInv
  BY SimStart
<1>2. SimInv /\ [SimNext]_simVars => SimInv'
  BY SimStep
<1>3. SimInv => TorrentsSound
  BY SimPromises
<1> QED
  BY <1>1, <1>2, <1>3, PTL DEF SimSpec

\* A client that polls once per window, and asks only for what was recently
\* active, is told of every change and of every removal.
THEOREM DeltaTellsHolds == SimSpec => []DeltaTells
<1>1. SimInit => SimInv
  BY SimStart
<1>2. SimInv /\ [SimNext]_simVars => SimInv'
  BY SimStep
<1>3. SimInv => DeltaTells
  BY SimPromises
<1> QED
  BY <1>1, <1>2, <1>3, PTL DEF SimSpec

\* promoteQueue and renumberQueue make the queues work: the places are 0 to n-1,
\* no slot is free while a torrent waits for it, one torrent at most is
\* verified, and who comes out of a queue was ahead of all who stay.
THEOREM QueueServedHolds == SimSpec => QueueServed
<1>1. SimInit => SimInv
  BY SimStart
<1>2. SimInv /\ [SimNext]_simVars => SimInv'
  BY SimStep
<1>3. SimInv => Contiguous /\ NoIdleSlot
  BY SimPromises
<1>4. SimInv /\ [SimNext]_simVars => [FirstComesFirst]_simVars
  BY SimStep, InOrder
<1> QED
  BY <1>1, <1>2, <1>3, <1>4, PTL DEF SimSpec, QueueServed
=============================================================================

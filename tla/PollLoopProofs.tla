--------------------------- MODULE PollLoopProofs ---------------------------
(***************************************************************************)
(* Proofs about PollLoop, for any torrents, periods, changes and failures: *)
(* there is one poll chain, and what refreshNow asked for stays shown.     *)
(***************************************************************************)
EXTENDS PollLoop, TLAPS

\* History: a pass serves a time that was asked for, which is past.
TimesKnown ==
    /\ asked <= now /\ served <= asked
    /\ pass # None => pass.need <= asked
    /\ \A i \in Id : torrent[i].at <= now

\* The answer of the pass in flight is of a time after it was asked for: what
\* did not change since then, or since the last time served, is as it says.
\* That of a forced pass tells of all torrents.
AnswerCurrent ==
    pass # None =>
        /\ pass.forced => pass.full
        /\ pass.rows # None =>
             /\ pass.full => DOMAIN pass.rows = Id
             /\ \A i \in Id \cap DOMAIN pass.rows :
                    torrent[i].at <= pass.need \/ torrent[i].at <= served =>
                        pass.rows[i] = Shown(torrent[i])

\* The inductive invariant.
IInv == TypeOK /\ OneChain /\ TimesKnown /\ AnswerCurrent /\ RefreshServed

-----------------------------------------------------------------------------
\* A pass is one whatever the torrents it was answered about.
APass == UNION {Pass(S) : S \in SUBSET Id}

LEMMA PassApart ==
  /\ None \notin APass
  /\ \A S \in SUBSET Id : None \notin [S -> Versions]
  BY PollAssumption DEF APass

LEMMA ShownType == ASSUME NEW t \in Row PROVE Shown(t) \in Versions
  BY DEF Shown, Row, Versions

LEMMA InvInit == Init => IInv
<1> SUFFICES ASSUME Init PROVE IInv
  OBVIOUS
<1> USE DEF Init
<1>1. TypeOK
  <2>1. ticks \in 0..(FullEvery - 1)
    BY PollAssumption
  <2>2. torrent \in [Id -> Row]
    BY DEF Row
  <2> QED
    BY <2>1, <2>2 DEF TypeOK, Versions
<1>2. OneChain
  BY DEF OneChain
<1>3. TimesKnown /\ AnswerCurrent
  BY DEF TimesKnown, AnswerCurrent
<1>4. RefreshServed
  BY DEF RefreshServed
<1> QED
  BY <1>1, <1>2, <1>3, <1>4 DEF IInv

\* What the start of a pass leaves.
LEMMA BeginLeaves ==
  ASSUME TypeOK, NEW force \in BOOLEAN, NEW t, NEW fresh, asked' \in Nat,
         Begin(force, t, fresh)
  PROVE  /\ pass' \in APass /\ pass' # None
         /\ pass'.need = asked' /\ pass'.rows = None
         /\ pass'.forced => pass'.full
         /\ reads' \in [Read -> [ver : Versions] \cup {None}]
         /\ forceFull' = FALSE
<1>1. PICK s \in Slot \cup {None} :
        /\ pass' = [forced |-> force, full |-> IsFull(force, t), read |-> s,
                    rows |-> None, need |-> asked']
        /\ IF s = None THEN reads' = reads
           ELSE reads' = [reads EXCEPT ![s] = [ver |-> None]]
  BY DEF Begin
<1>2. IsFull(force, t) \in BOOLEAN /\ (force => IsFull(force, t))
  BY DEF IsFull
<1>3. pass' \in Pass({})
  BY <1>1, <1>2 DEF Pass
<1>4. reads' \in [Read -> [ver : Versions] \cup {None}]
  BY <1>1 DEF TypeOK, Read, Versions
<1>5. pass' \in APass /\ pass' # None
  BY <1>3, PassApart DEF APass
<1> QED
  BY <1>1, <1>2, <1>4, <1>5 DEF Begin

\* What pollOnce leaves: a pass in flight, and one chain.
LEMMA PollOnceLeaves ==
  ASSUME TypeOK, OneChain, NEW force \in BOOLEAN, NEW fresh, asked' \in Nat,
         PollOnce(force, fresh)
  PROVE  /\ pass' \in APass /\ pass' # None /\ armed' = 0
         /\ \/ UNCHANGED <<pass, reads>>
            \/ /\ pass'.need = asked' /\ pass'.rows = None
               /\ pass'.forced => pass'.full
         /\ reads' \in [Read -> [ver : Versions] \cup {None}]
         /\ forceFull' \in BOOLEAN /\ pollAgain' \in BOOLEAN
<1>1. CASE pass # None
  BY <1>1 DEF PollOnce, TypeOK, OneChain, APass
<1>2. CASE pass = None
  BY <1>2, BeginLeaves DEF PollOnce, Cleared, TypeOK
<1> QED
  BY <1>1, <1>2

\* What the end of a pass leaves: the next one, or a timeout, or, signed out,
\* nothing.
LEMMA FinallyLeaves ==
  ASSUME TypeOK, OneChain, pass # None, NEW force \in BOOLEAN, NEW fresh,
         asked' \in Nat, Finally(force, fresh)
  PROVE  /\ ticks' \in 0..(FullEvery - 1)
         /\ \/ /\ pass' \in APass /\ pass' # None /\ armed' = 0
               /\ pass'.need = asked' /\ pass'.rows = None
               /\ pass'.forced => pass'.full
            \/ /\ pass' = None
               /\ armed' = IF connection' = "unauthorized" THEN 0 ELSE 1
         /\ reads' \in [Read -> [ver : Versions] \cup {None}]
         /\ forceFull' \in BOOLEAN /\ pollAgain' = FALSE
         /\ pass' \in APass \cup {None} /\ armed' \in Nat
<1>1. armed = 0
  BY DEF OneChain
<1>2. ticks' \in 0..(FullEvery - 1)
  <2>1. ticks + 1 \in Nat /\ FullEvery \in Nat \ {0}
    BY PollAssumption DEF TypeOK
  <2>2. (ticks + 1) % FullEvery \in 0..(FullEvery - 1)
    BY <2>1
  <2> QED
    BY <2>2 DEF Finally
<1>3. CASE pollAgain
  <2>1. Begin(force, ticks', fresh) /\ armed' = 0 /\ pollAgain' = FALSE
    BY <1>3 DEF Finally, Cleared
  <2>2. /\ pass' \in APass /\ pass' # None
        /\ pass'.need = asked' /\ pass'.rows = None
        /\ pass'.forced => pass'.full
        /\ reads' \in [Read -> [ver : Versions] \cup {None}]
        /\ forceFull' = FALSE
    BY <2>1, BeginLeaves
  <2> QED
    BY <1>2, <2>1, <2>2
<1>4. CASE ~pollAgain
  BY <1>1, <1>2, <1>4 DEF Finally, TypeOK
<1> QED
  BY <1>3, <1>4

-----------------------------------------------------------------------------
LEMMA TypeStep == TypeOK /\ OneChain /\ [Next]_vars => TypeOK'
<1> SUFFICES ASSUME TypeOK, OneChain, [Next]_vars PROVE TypeOK'
  OBVIOUS
<1> USE DEF daemon, shown, flags
<1>1. CASE StartPolling
  BY <1>1 DEF StartPolling, TypeOK, Read, Versions
<1>2. CASE BootRead
  <2>1. session' \in Versions /\ fails' \in Nat
    BY <1>2 DEF BootRead, ReadEnds, TypeOK, Read
  <2>2. asked' \in Nat /\ (session' # None) \in BOOLEAN /\ started' = "done"
    BY <1>2 DEF BootRead, TypeOK
  <2>3. PollOnce(forceFull, sessionFresh') /\ forceFull \in BOOLEAN
    BY <1>2 DEF BootRead, TypeOK
  <2>4. /\ pass' \in APass /\ armed' = 0
        /\ reads' \in [Read -> [ver : Versions] \cup {None}]
        /\ forceFull' \in BOOLEAN /\ pollAgain' \in BOOLEAN
    BY <2>2, <2>3, PollOnceLeaves
  <2>5. sessionFresh' \in BOOLEAN
    BY <1>2 DEF BootRead
  <2> QED
    BY <1>2, <2>1, <2>2, <2>4, <2>5 DEF BootRead, TypeOK, APass
<1>3. CASE Fire
  <2>1. /\ pass' \in APass
        /\ reads' \in [Read -> [ver : Versions] \cup {None}]
        /\ forceFull' = FALSE
    BY <1>3, BeginLeaves DEF Fire, TypeOK
  <2> QED
    BY <1>3, <2>1 DEF Fire, Cleared, TypeOK, APass
<1>4. CASE PassDone
  <2>1. /\ pass # None /\ asked' \in Nat /\ Finally(forceFull, FALSE)
        /\ forceFull \in BOOLEAN
    BY <1>4 DEF PassDone, TypeOK
  <2>2. /\ ticks' \in 0..(FullEvery - 1)
        /\ pass' \in APass \cup {None} /\ armed' \in Nat
        /\ reads' \in [Read -> [ver : Versions] \cup {None}]
        /\ forceFull' \in BOOLEAN /\ pollAgain' = FALSE
    BY <2>1, FinallyLeaves
  <2>3. PICK S \in SUBSET Id : pass \in Pass(S)
    BY <2>1 DEF TypeOK
  <2>4. pass.rows \in [S -> Versions] /\ pass.need \in Nat
    BY <1>4, <2>3 DEF PassDone, Pass
  <2>5. list' \in [Id -> Versions]
    BY <1>4, <2>4 DEF PassDone, Merged, TypeOK
  <2>6. served' \in Nat
    BY <1>4, <2>4 DEF PassDone, TypeOK
  <2> QED
    BY <1>4, <2>1, <2>2, <2>5, <2>6 DEF PassDone, TypeOK, APass
<1>5. ASSUME NEW s \in Slot, SessionRead(s) PROVE TypeOK'
  BY <1>5 DEF SessionRead, ReadEnds, TypeOK, Read
<1>6. CASE RowsAnswered
  <2> DEFINE S == IF pass.full THEN Id ELSE recent
  <2>1. S \in SUBSET Id
    BY DEF TypeOK
  <2>2. [i \in S |-> Shown(torrent[i])] \in [S -> Versions]
    BY <2>1, ShownType DEF TypeOK
  <2>3. PICK R \in SUBSET Id : pass \in Pass(R)
    BY <1>6 DEF RowsAnswered, TypeOK
  <2>4. pass' = [pass EXCEPT !.rows = [i \in S |-> Shown(torrent[i])]]
    BY <1>6 DEF RowsAnswered
  <2> HIDE DEF S
  <2>5. pass' \in Pass(S)
    BY <2>2, <2>3, <2>4 DEF Pass
  <2> QED
    BY <1>6, <2>1, <2>5 DEF RowsAnswered, TypeOK
<1>7. ASSUME NEW s \in Read, SessionAnswered(s) PROVE TypeOK'
  BY <1>7 DEF SessionAnswered, TypeOK, Versions
<1>8. ASSUME NEW i \in Id, NEW here \in BOOLEAN, TorrentChanges(i, here) PROVE TypeOK'
  <2>1. now' \in Nat /\ [at |-> now', here |-> here] \in Row
    BY <1>8 DEF TorrentChanges, Happens, TypeOK, Row
  <2> QED
    BY <1>8, <2>1 DEF TorrentChanges, TypeOK
<1>9. CASE SessionChanges
  BY <1>9 DEF SessionChanges, Happens, TypeOK
<1>10. ASSUME NEW i \in Id, Ages(i) PROVE TypeOK'
  BY <1>10 DEF Ages, TypeOK
<1>11. ASSUME NEW has \in SUBSET Id, DaemonRestart(has) PROVE TypeOK'
  <2>1. now' \in Nat
    BY <1>11 DEF DaemonRestart, Happens, TypeOK
  <2>2. torrent' \in [Id -> Row]
    BY <1>11, <2>1 DEF DaemonRestart, Row
  <2> QED
    BY <1>11, <2>1, <2>2 DEF DaemonRestart, TypeOK
<1>12. CASE Visible
  <2>1. PollOnce(forceFull, sessionFresh) /\ asked' \in Nat /\ forceFull \in BOOLEAN
    BY <1>12 DEF Visible, TypeOK
  <2>2. /\ pass' \in APass /\ armed' = 0
        /\ reads' \in [Read -> [ver : Versions] \cup {None}]
        /\ forceFull' \in BOOLEAN /\ pollAgain' \in BOOLEAN
    BY <2>1, PollOnceLeaves
  <2> QED
    BY <1>12, <2>1, <2>2 DEF Visible, TypeOK, APass
<1>13. CASE RefreshNow
  <2>1. PollOnce(TRUE, sessionFresh) /\ asked' \in Nat
    BY <1>13 DEF RefreshNow, TypeOK
  <2>2. /\ pass' \in APass /\ armed' = 0
        /\ reads' \in [Read -> [ver : Versions] \cup {None}]
        /\ forceFull' \in BOOLEAN /\ pollAgain' \in BOOLEAN
    BY <2>1, PollOnceLeaves
  <2> QED
    BY <1>13, <2>1, <2>2 DEF RefreshNow, TypeOK, APass
<1>14. ASSUME NEW c \in {"error", "unauthorized"}, PassFailed(c) PROVE TypeOK'
  <2>1. /\ pass # None /\ asked' \in Nat
        /\ Finally(forceFull \/ pass.forced, sessionFresh)
    BY <1>14 DEF PassFailed, TypeOK
  <2>2. PICK force \in BOOLEAN : Finally(force, sessionFresh)
    BY <2>1
  <2>3. /\ ticks' \in 0..(FullEvery - 1)
        /\ pass' \in APass \cup {None} /\ armed' \in Nat
        /\ reads' \in [Read -> [ver : Versions] \cup {None}]
        /\ forceFull' \in BOOLEAN /\ pollAgain' = FALSE
    BY <2>1, <2>2, FinallyLeaves
  <2> QED
    <3>1. connection' \in {"error", "unauthorized"} /\ fails' \in Nat
      BY <1>14 DEF PassFailed, TypeOK
    <3>2. UNCHANGED <<daemon, list, session, sessionFresh, started, served>>
      BY <1>14 DEF PassFailed
    <3> QED
      BY <2>1, <2>3, <3>1, <3>2 DEF TypeOK, APass
<1>15. CASE UNCHANGED vars
  BY <1>15 DEF vars, TypeOK
<1> QED
  BY <1>1, <1>2, <1>3, <1>4, <1>5, <1>6, <1>7, <1>8, <1>9, <1>10, <1>11, <1>12,
     <1>13, <1>14, <1>15 DEF Next, Client, Daemon, Change

\* A pass or a timeout follows every end of a pass, and never both.
LEMMA ChainStep == TypeOK /\ OneChain /\ [Next]_vars => OneChain'
<1> SUFFICES ASSUME TypeOK, OneChain, [Next]_vars PROVE OneChain'
  OBVIOUS
<1> USE DEF daemon, shown, flags
<1>1. CASE StartPolling
  BY <1>1 DEF StartPolling, OneChain
<1>2. CASE BootRead
  <2>1. PollOnce(forceFull, sessionFresh') /\ asked' \in Nat /\ forceFull \in BOOLEAN
    BY <1>2 DEF BootRead, TypeOK
  <2>2. pass' # None /\ armed' = 0
    BY <2>1, PollOnceLeaves
  <2> QED
    BY <2>2 DEF OneChain
<1>3. CASE Fire
  <2>1. pass' # None /\ armed' = 0
    BY <1>3, BeginLeaves DEF Fire, Cleared, TypeOK
  <2> QED
    BY <2>1 DEF OneChain
<1>4. ASSUME pass # None, NEW force \in BOOLEAN, NEW fresh, asked' \in Nat,
             Finally(force, fresh)
      PROVE  OneChain'
  <2>1. \/ pass' # None /\ armed' = 0
        \/ /\ pass' = None
           /\ armed' = IF connection' = "unauthorized" THEN 0 ELSE 1
    BY <1>4, FinallyLeaves
  <2> QED
    BY <2>1 DEF OneChain
<1>5. CASE PassDone
  BY <1>4, <1>5 DEF PassDone, TypeOK
<1>6. ASSUME NEW c \in {"error", "unauthorized"}, PassFailed(c) PROVE OneChain'
  <2>1. PICK force \in BOOLEAN : Finally(force, sessionFresh)
    BY <1>6 DEF PassFailed
  <2>2. pass # None /\ asked' \in Nat
    BY <1>6 DEF PassFailed, TypeOK
  <2> QED
    BY <1>4, <2>1, <2>2
<1>7. CASE Visible \/ RefreshNow
  <2>1. /\ asked' \in Nat
        /\ \E force \in BOOLEAN : PollOnce(force, sessionFresh)
    BY <1>7 DEF Visible, RefreshNow, TypeOK
  <2>2. pass' # None /\ armed' = 0
    BY <2>1, PollOnceLeaves
  <2> QED
    BY <2>2 DEF OneChain
<1>8. CASE RowsAnswered
  <2>1. PICK S \in SUBSET Id : pass \in Pass(S)
    BY <1>8 DEF RowsAnswered, TypeOK
  <2>2. PICK T \in SUBSET Id :
          pass' = [pass EXCEPT !.rows = [i \in T |-> Shown(torrent[i])]]
    BY <1>8 DEF RowsAnswered, TypeOK
  <2>3. [i \in T |-> Shown(torrent[i])] \in [T -> Versions]
    BY <2>2, ShownType DEF TypeOK
  <2>4. pass' \in Pass(T)
    BY <2>1, <2>2, <2>3 DEF Pass
  <2>5. pass' # None
    BY <2>4, PassApart DEF APass
  <2> QED
    BY <1>8, <2>5 DEF RowsAnswered, OneChain
<1>9. CASE UNCHANGED <<armed, pass, started, connection>>
  BY <1>9 DEF OneChain
<1> QED
  BY <1>1, <1>2, <1>3, <1>5, <1>6, <1>7, <1>8, <1>9 DEF Next, Client, Daemon, Change,
     SessionRead, SessionAnswered, TorrentChanges, SessionChanges, Ages,
     DaemonRestart, vars

\* Time passes by changes only, and what is asked for is the present.
LEMMA TimesStep == IInv /\ [Next]_vars => TimesKnown'
<1> SUFFICES ASSUME IInv, [Next]_vars PROVE TimesKnown'
  OBVIOUS
<1> USE DEF IInv, TimesKnown, daemon, shown, flags
<1>0. now \in Nat /\ asked \in Nat /\ served \in Nat
  BY DEF TypeOK
<1>1. pass # None => pass.need \in Nat
  BY DEF TypeOK, Pass
<1>2. ASSUME NEW force \in BOOLEAN, NEW fresh, PollOnce(force, fresh),
             UNCHANGED <<now, torrent, served>>, asked' \in {asked, now}
      PROVE  TimesKnown'
  <2>1. asked' \in Nat /\ asked <= asked' /\ asked' <= now
    BY <1>0, <1>2
  <2>2. \/ UNCHANGED pass
        \/ pass'.need = asked'
    BY <1>2, <2>1, PollOnceLeaves
  <2> QED
    BY <1>0, <1>1, <1>2, <2>1, <2>2
<1>3. CASE BootRead
  BY <1>2, <1>3 DEF BootRead, TypeOK
<1>4. CASE Visible \/ RefreshNow
  <2>1. \E force \in BOOLEAN : PollOnce(force, sessionFresh)
    BY <1>4 DEF Visible, RefreshNow, TypeOK
  <2> QED
    BY <1>2, <1>4, <2>1 DEF Visible, RefreshNow
<1>5. CASE Fire
  <2>1. pass'.need = asked' /\ asked' = asked
    BY <1>0, <1>5, BeginLeaves DEF Fire, TypeOK
  <2> QED
    BY <1>0, <1>5, <2>1 DEF Fire
<1>6. ASSUME pass # None, NEW force \in BOOLEAN, NEW fresh, asked' = asked,
             Finally(force, fresh)
      PROVE  pass' # None => pass'.need = asked
  BY <1>0, <1>6, FinallyLeaves
<1>7. CASE PassDone
  <2>1. pass' # None => pass'.need = asked
    BY <1>6, <1>7 DEF PassDone, TypeOK
  <2>2. served' <= asked
    BY <1>7 DEF PassDone
  <2> QED
    BY <1>0, <1>7, <2>1, <2>2 DEF PassDone
<1>8. ASSUME NEW c \in {"error", "unauthorized"}, PassFailed(c) PROVE TimesKnown'
  <2>1. PICK force \in BOOLEAN : Finally(force, sessionFresh)
    BY <1>8 DEF PassFailed
  <2>2. pass' # None => pass'.need = asked
    BY <1>6, <1>8, <2>1 DEF PassFailed
  <2> QED
    BY <1>0, <1>8, <2>2 DEF PassFailed
<1>9. CASE RowsAnswered
  <2>1. pass'.need = pass.need
    BY <1>9 DEF RowsAnswered, TypeOK, Pass
  <2> QED
    BY <1>9, <2>1 DEF RowsAnswered
<1>10. ASSUME NEW i \in Id, NEW here \in BOOLEAN, TorrentChanges(i, here)
       PROVE  TimesKnown'
  <2>1. now' = now + 1 /\ torrent'[i].at = now'
    BY <1>10 DEF TorrentChanges, Happens, TypeOK
  <2>2. \A j \in Id \ {i} : torrent'[j] = torrent[j]
    BY <1>10 DEF TorrentChanges, TypeOK
  <2>3. \A j \in Id : torrent[j].at \in Nat
    BY DEF TypeOK, Row
  <2>4. UNCHANGED <<asked, served, pass>> /\ (pass # None => pass.need \in Nat)
    BY <1>10 DEF TorrentChanges, TypeOK, Pass
  <2> QED
    BY <1>0, <2>1, <2>2, <2>3, <2>4
<1>11. CASE SessionChanges
  <2>1. /\ now' = now + 1 /\ torrent' = torrent /\ UNCHANGED <<asked, served, pass>>
        /\ pass # None => pass.need \in Nat
        /\ \A j \in Id : torrent[j].at \in Nat
    BY <1>11 DEF SessionChanges, Happens, TypeOK, Pass, Row
  <2> QED
    BY <1>0, <2>1
<1>12. ASSUME NEW has \in SUBSET Id, DaemonRestart(has) PROVE TimesKnown'
  <2>1. /\ now' = now + 1 /\ UNCHANGED <<asked, served, pass>>
        /\ pass # None => pass.need \in Nat
        /\ \A j \in Id : torrent'[j].at = now'
    BY <1>12 DEF DaemonRestart, Happens, TypeOK, Pass
  <2> QED
    BY <1>0, <2>1
<1>13. CASE UNCHANGED <<now, torrent, asked, served, pass>>
  BY <1>13
<1> QED
  BY <1>3, <1>4, <1>5, <1>7, <1>8, <1>9, <1>10, <1>11, <1>12, <1>13
     DEF Next, Client, Daemon, Change, StartPolling, SessionRead, SessionAnswered,
     Ages, vars

\* What the pass in flight was answered stays true of what does not change.
LEMMA AnswerStep == IInv /\ [Next]_vars => AnswerCurrent'
<1> SUFFICES ASSUME IInv, [Next]_vars PROVE AnswerCurrent'
  OBVIOUS
<1> USE DEF daemon, shown, flags
<1>0. TypeOK /\ OneChain /\ TimesKnown /\ AnswerCurrent
  BY DEF IInv
<1>1. ASSUME pass' = None \/ (pass'.rows = None /\ (pass'.forced => pass'.full))
      PROVE  AnswerCurrent'
  BY <1>1 DEF AnswerCurrent
<1>2. ASSUME UNCHANGED <<pass, torrent, served>> PROVE AnswerCurrent'
  BY <1>0, <1>2 DEF AnswerCurrent
<1>3. ASSUME NEW force \in BOOLEAN, NEW fresh, PollOnce(force, fresh),
             UNCHANGED <<torrent, served>>, asked' \in Nat
      PROVE  AnswerCurrent'
  <2>1. \/ UNCHANGED pass
        \/ pass'.rows = None /\ (pass'.forced => pass'.full)
    BY <1>0, <1>3, PollOnceLeaves
  <2> QED
    BY <1>1, <1>2, <1>3, <2>1
<1>4. CASE BootRead
  BY <1>0, <1>3, <1>4 DEF BootRead, TypeOK
<1>5. CASE Visible \/ RefreshNow
  <2>1. \E force \in BOOLEAN : PollOnce(force, sessionFresh)
    BY <1>0, <1>5 DEF Visible, RefreshNow, TypeOK
  <2> QED
    BY <1>0, <1>3, <1>5, <2>1 DEF Visible, RefreshNow, TypeOK
<1>6. CASE Fire
  <2>1. pass'.rows = None /\ (pass'.forced => pass'.full)
    BY <1>0, <1>6, BeginLeaves DEF Fire, TypeOK
  <2> QED
    BY <1>1, <2>1
<1>7. ASSUME pass # None, NEW force \in BOOLEAN, NEW fresh, asked' \in Nat,
             Finally(force, fresh)
      PROVE  AnswerCurrent'
  BY <1>0, <1>1, <1>7, FinallyLeaves
<1>8. CASE PassDone
  BY <1>0, <1>7, <1>8 DEF PassDone, TypeOK
<1>9. ASSUME NEW c \in {"error", "unauthorized"}, PassFailed(c) PROVE AnswerCurrent'
  <2>1. PICK force \in BOOLEAN : Finally(force, sessionFresh)
    BY <1>9 DEF PassFailed
  <2> QED
    BY <1>0, <1>7, <1>9, <2>1 DEF PassFailed, TypeOK
<1>10. CASE RowsAnswered
  <2> DEFINE S    == IF pass.full THEN Id ELSE recent
             rows == [i \in S |-> Shown(torrent[i])]
  <2>1. pass # None /\ pass' = [pass EXCEPT !.rows = rows] /\ UNCHANGED torrent
    BY <1>10 DEF RowsAnswered
  <2>2. pass'.rows = rows /\ pass'.full = pass.full /\ pass'.forced = pass.forced
    BY <1>0, <2>1 DEF TypeOK, Pass
  <2>3. DOMAIN rows = S /\ \A i \in S : rows[i] = Shown(torrent[i])
    OBVIOUS
  <2>4. pass.full => S = Id
    OBVIOUS
  <2>5. pass.forced => pass.full
    BY <1>0, <2>1 DEF AnswerCurrent
  <2> HIDE DEF S, rows
  <2> QED
    BY <2>1, <2>2, <2>3, <2>4, <2>5 DEF AnswerCurrent
<1>11. ASSUME UNCHANGED <<pass, served>>,
              \A i \in Id : torrent'[i] # torrent[i] => torrent'[i].at = now + 1
       PROVE  AnswerCurrent'
  <2>1. pass # None => pass.need \in Nat /\ pass.need <= now
    BY <1>0 DEF TypeOK, Pass, TimesKnown
  <2>2. now \in Nat /\ served \in Nat /\ served <= now
    BY <1>0 DEF TypeOK, TimesKnown
  <2>3. ASSUME NEW i \in Id, pass # None,
               torrent'[i].at <= pass.need \/ torrent'[i].at <= served
        PROVE  torrent'[i] = torrent[i]
    BY <1>11, <2>1, <2>2, <2>3
  <2> QED
    BY <1>0, <1>11, <2>3 DEF AnswerCurrent
<1>12. ASSUME NEW i \in Id, NEW here \in BOOLEAN, TorrentChanges(i, here)
       PROVE  AnswerCurrent'
  <2>1. \A j \in Id : torrent'[j] # torrent[j] => torrent'[j].at = now + 1
    BY <1>0, <1>12 DEF TorrentChanges, Happens, TypeOK
  <2> QED
    BY <1>11, <1>12, <2>1 DEF TorrentChanges
<1>13. ASSUME NEW has \in SUBSET Id, DaemonRestart(has) PROVE AnswerCurrent'
  <2>1. \A j \in Id : torrent'[j].at = now + 1
    BY <1>13 DEF DaemonRestart, Happens
  <2> QED
    BY <1>11, <1>13, <2>1 DEF DaemonRestart
<1>14. CASE UNCHANGED <<pass, torrent, served>>
  BY <1>2, <1>14
<1> QED
  BY <1>4, <1>5, <1>6, <1>8, <1>9, <1>10, <1>12, <1>13, <1>14
     DEF Next, Client, Daemon, Change, StartPolling, SessionRead, SessionAnswered,
     SessionChanges, Ages, vars

\* Neither a full answer nor a delta takes back what was shown.
LEMMA ServedStep == IInv /\ [Next]_vars => RefreshServed'
<1> SUFFICES ASSUME IInv, [Next]_vars PROVE RefreshServed'
  OBVIOUS
<1> USE DEF daemon, shown, flags
<1>0. TypeOK /\ TimesKnown /\ AnswerCurrent /\ RefreshServed
  BY DEF IInv
<1>1. CASE PassDone
  <2> SUFFICES ASSUME NEW i \in Id, torrent[i].at <= served'
               PROVE  list'[i] = Shown(torrent[i])
    BY <1>1 DEF PassDone, RefreshServed
  <2>1. /\ pass # None /\ pass.rows # None
        /\ list'[i] = IF i \in DOMAIN pass.rows THEN pass.rows[i] ELSE list[i]
        /\ served' = IF pass.forced THEN pass.need ELSE served
    BY <1>1 DEF PassDone, Merged
  <2>2. CASE i \in DOMAIN pass.rows
    BY <1>0, <2>1, <2>2 DEF AnswerCurrent
  <2>3. CASE i \notin DOMAIN pass.rows
    <3>1. ~pass.forced
      BY <1>0, <2>1, <2>3 DEF AnswerCurrent
    <3> QED
      BY <1>0, <2>1, <2>3, <3>1 DEF RefreshServed
  <2> QED
    BY <2>2, <2>3
<1>2. ASSUME UNCHANGED <<list, served>>,
             \A i \in Id : torrent'[i] # torrent[i] => torrent'[i].at = now + 1
      PROVE  RefreshServed'
  <2>1. now \in Nat /\ served \in Nat /\ served <= now
    BY <1>0 DEF TypeOK, TimesKnown
  <2> QED
    BY <1>0, <1>2, <2>1 DEF RefreshServed
<1>3. ASSUME NEW i \in Id, NEW here \in BOOLEAN, TorrentChanges(i, here)
      PROVE  RefreshServed'
  <2>1. \A j \in Id : torrent'[j] # torrent[j] => torrent'[j].at = now + 1
    BY <1>0, <1>3 DEF TorrentChanges, Happens, TypeOK
  <2> QED
    BY <1>2, <1>3, <2>1 DEF TorrentChanges
<1>4. ASSUME NEW has \in SUBSET Id, DaemonRestart(has) PROVE RefreshServed'
  <2>1. \A j \in Id : torrent'[j].at = now + 1
    BY <1>4 DEF DaemonRestart, Happens
  <2> QED
    BY <1>2, <1>4, <2>1 DEF DaemonRestart
<1>5. CASE UNCHANGED <<torrent, list, served>>
  BY <1>0, <1>5 DEF RefreshServed
<1> QED
  BY <1>1, <1>3, <1>4, <1>5
     DEF Next, Client, Daemon, Change, StartPolling, BootRead, Fire, SessionRead,
     SessionAnswered, RowsAnswered, SessionChanges, Ages, Visible, RefreshNow,
     PassFailed, vars

LEMMA Inductive == Spec => []IInv
<1>1. IInv /\ [Next]_vars => IInv'
  BY TypeStep, ChainStep, TimesStep, AnswerStep, ServedStep DEF IInv
<1> QED
  BY InvInit, <1>1, PTL DEF Spec

\* The variables have their types.
THEOREM TypeCorrect == Spec => []TypeOK
<1>1. IInv => TypeOK
  BY DEF IInv
<1> QED
  BY Inductive, <1>1, PTL

\* There is exactly one poll chain, from the first poll on.
THEOREM ConsistentHolds == Spec => []Consistent
<1>1. IInv => Consistent
  BY DEF IInv, Consistent
<1> QED
  BY Inductive, <1>1, PTL

\* What a refreshNow was served stays on the screen until it changes.
THEOREM RefreshServedHolds == Spec => []RefreshServed
<1>1. IInv => RefreshServed
  BY DEF IInv
<1> QED
  BY Inductive, <1>1, PTL

=============================================================================

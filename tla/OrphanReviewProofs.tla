------------------------- MODULE OrphanReviewProofs -------------------------
(***************************************************************************)
(* Proofs about OrphanReview, for any entries, scans, windows, keys and    *)
(* lost calls: a run deletes what was decided, its rows tell the truth,    *)
(* the last key wins, and a scan takes no other dialog's place.            *)
(***************************************************************************)
EXTENDS OrphanReview, SequenceTheorems, FiniteSetTheorems, TLAPS

\* Who is where: a scan is asked for in Settings, a window is on the screen
\* while its dialog is, and windows to come have no run.
Places ==
    /\ ask # None => dialog = "settings" /\ signedIn
    /\ op # None /\ op.mine =>
         ask # None /\ ask.at = "walk" /\ dialog = "settings" /\ signedIn
    /\ ask # None /\ ask.at = "done" => ask.scan \in 1..MaxScans
    /\ dialog = "review" => view \in Views
    /\ win # None => dialog = "review" /\ signedIn /\ win.n = wins
    /\ \A n \in Window : n > wins => run[n] = None

\* A run asks for each entry once, and is told that it is deleted when it is.
RunKnown ==
    \A n \in Window : run[n] # None =>
        /\ run[n].id \notin run[n].todo
        /\ run[n].at = "deleted" => run[n].id \notin disk

\* What a row of the window on the screen says, in each phase.
RowsKnown ==
    win # None =>
        /\ \A e \in Entry :
             /\ win.out[e] = "deleted" => e \notin disk /\ e \in win.acked
             /\ win.out[e] # None => win.dec[e] = "del"
             /\ win.phase \in {"review", "confirm"} => win.out[e] = None
             /\ win.phase \in {"deleting", "done"} =>
                  (win.out[e] \notin {None, "queued"} <=> e \in win.sent)
             /\ win.phase = "done" => win.out[e] # "queued"
        /\ win.entries \ Gone(win) = view.entries \ win.acked

\* The first call has failed, and that is still to be told.
Untold(q, e) == q # <<>> /\ q[1].e = e /\ q[1].at = "failed"

\* The last call about e that is to come is in line with decision d, or if
\* there is none what is remembered is.
InLine(q, e, d, known) ==
    /\ \A i \in DOMAIN q :
         /\ q[i].e = e /\ q[i].at = "sent"
         /\ \A j \in DOMAIN q : j > i => q[j].e # e
         => (q[i].call = "keep" <=> d = "keep")
    /\ (\A i \in DOMAIN q : q[i].e = e => q[i].at # "sent")
         => (e \in known <=> d = "keep")

\* Only the first call of a queue is out.
OneOut == \A n \in Window : \A i \in DOMAIN queue[n] : i > 1 => queue[n][i].at = "sent"

\* What is vouched for comes to be remembered as decided.
KeysKnown ==
    win # None => \A e \in win.vouched :
        \/ Untold(queue[win.n], e)
        \/ InLine(queue[win.n], e, win.dec[e], kept)

\* The inductive invariant.
IInv == /\ TypeOK /\ Places /\ DecidedOnly /\ RunKnown /\ RowsKnown
        /\ OneOut /\ KeysKnown


-----------------------------------------------------------------------------
LEMMA InvInit == Init => IInv
<1> SUFFICES ASSUME Init PROVE IInv
  OBVIOUS
<1> USE DEF Init
<1>1. TypeOK
  <2>1. queue \in [Window -> Seq(Keeps)]
    OBVIOUS
  <2>2. offers \in [1..MaxScans -> SUBSET Entry]
    OBVIOUS
  <2> QED
    BY <2>1, <2>2, ReviewAssumption DEF TypeOK
<1>2. Places /\ DecidedOnly /\ RunKnown /\ RowsKnown /\ KeysKnown
  BY DEF Places, DecidedOnly, RunKnown, RowsKnown, KeysKnown
<1>3. OneOut
  BY DEF OneOut
<1> QED
  BY <1>1, <1>2, <1>3 DEF IInv

-----------------------------------------------------------------------------
(* Scans at the backend, and the pages.                                    *)

\* What leaves the window, the runs and the calls alone.
LEMMA WindowKept ==
  ASSUME IInv, UNCHANGED <<disk, kept, view, win, run, queue>>
  PROVE  DecidedOnly' /\ RunKnown' /\ RowsKnown' /\ OneOut' /\ KeysKnown'
<1>1. DecidedOnly'
  BY DEF IInv, DecidedOnly, ToDelete
<1>2. RunKnown' /\ OneOut'
  BY DEF IInv, RunKnown, OneOut
<1>3. RowsKnown'
  BY DEF IInv, RowsKnown, Gone
<1>4. KeysKnown'
  BY DEF IInv, KeysKnown
<1> QED
  BY <1>1, <1>2, <1>3, <1>4

\* What closes the window, if there is one.
LEMMA WindowClosed ==
  ASSUME IInv, win' = None, UNCHANGED <<disk, run, queue>>
  PROVE  DecidedOnly' /\ RunKnown' /\ RowsKnown' /\ OneOut' /\ KeysKnown'
  BY DEF IInv, DecidedOnly, RunKnown, RowsKnown, OneOut, KeysKnown

\* A new window has no run, no outcomes and no decisions.
LEMMA WindowOpened ==
  ASSUME IInv, view' \in Views, NewWindow(view'), UNCHANGED <<disk, run, queue>>
  PROVE  /\ win' \in Windows /\ wins' \in 0..MaxWindows /\ win'.n = wins'
         /\ {e \in Entry : win'.dec[e] # None} \subseteq win'.entries
         /\ \A n \in Window : n > wins' => run'[n] = None
         /\ DecidedOnly' /\ RunKnown' /\ RowsKnown' /\ OneOut' /\ KeysKnown'
<1>1. /\ wins < MaxWindows /\ wins' = wins + 1
      /\ win' = [n |-> wins', scan |-> view'.scan, entries |-> view'.entries,
               dec |-> [e \in Entry |-> None], phase |-> "review",
               out |-> [e \in Entry |-> None], stopped |-> FALSE,
               acked |-> {}, sent |-> {}, vouched |-> {}]
  BY DEF NewWindow
<1>2. wins \in 0..MaxWindows /\ MaxWindows \in Nat
  BY ReviewAssumption DEF IInv, TypeOK
<1>3. wins' \in Window /\ wins' \in 0..MaxWindows /\ wins' > wins
  BY <1>1, <1>2 DEF Window
<1>4. view'.scan \in 1..MaxScans /\ view'.entries \in SUBSET Entry
  BY DEF Views
<1>5. win' \in Windows
  <2>1. [e \in Entry |-> None] \in [Entry -> Decision]
    BY DEF Decision
  <2>2. [e \in Entry |-> None] \in [Entry -> Outcome]
    BY DEF Outcome
  <2> QED
    BY <1>1, <1>3, <1>4, <2>1, <2>2 DEF Windows
<1>6. \A n \in Window : n > wins' => run'[n] = None
  BY <1>1, <1>2 DEF IInv, Places, Window
<1>7. run'[wins'] = None
  BY <1>1, <1>2, <1>3 DEF IInv, Places
<1>8. DecidedOnly'
  BY <1>1, <1>7 DEF DecidedOnly
<1>9. RowsKnown'
  BY <1>1, ReviewAssumption DEF RowsKnown, Gone
<1>10. RunKnown' /\ OneOut'
  BY DEF IInv, RunKnown, OneOut
<1>11. KeysKnown'
  BY <1>1 DEF KeysKnown
<1> QED
  BY <1>1, <1>3, <1>5, <1>6, <1>8, <1>9, <1>10, <1>11

LEMMA ScanStep ==
  ASSUME IInv, \/ ScanBegins \/ OtherScanBegins \/ ScanReadsKept \/ ScanEnds \/ ScanFails
  PROVE  IInv'
<1> USE DEF IInv
<1>1. UNCHANGED <<disk, kept, dialog, view, signedIn, win, wins, run, queue, ghosts,
                  keys, fails>>
  BY DEF ScanBegins, OtherScanBegins, ScanReadsKept, ScanEnds, ScanFails, pages
<1>2. DecidedOnly' /\ RunKnown' /\ RowsKnown' /\ OneOut' /\ KeysKnown'
  BY <1>1, WindowKept
<1>3. /\ op' \in Scans \cup {None} /\ ask' \in Asks \cup {None}
      /\ ask' # None => ask # None \/ (op # None /\ op.mine)
      /\ op' # None /\ op'.mine =>
           ask' # None /\ ask'.at = "walk" /\ (ask # None \/ (op # None /\ op.mine))
      /\ ask' # None /\ ask'.at = "done" => ask'.scan \in 1..MaxScans
      /\ scan' \in 0..MaxScans /\ offers' \in [1..MaxScans -> SUBSET Entry]
  <2>1. CASE ScanBegins
    <3>1. ask \in Asks
      BY <2>1 DEF ScanBegins, TypeOK
    <3>2. scan' = scan /\ offers' = offers
      BY <2>1 DEF ScanBegins
    <3>3. CASE /\ op' = [mine |-> TRUE, read |-> FALSE, hides |-> {}]
               /\ ask' = [ask EXCEPT !.at = "walk"]
      <4>1. op' \in Scans
        BY <3>3 DEF Scans
      <4>2. ask' \in Asks /\ ask'.at = "walk"
        BY <3>1, <3>3 DEF Asks
      <4>3. ask' # None
        BY <4>2, ReviewAssumption
      <4> QED
        BY <2>1, <3>2, <4>1, <4>2, <4>3 DEF TypeOK, ScanBegins
    <3>4. CASE op' = op /\ ask' = [ask EXCEPT !.at = "failed"]
      <4>1. ask' \in Asks /\ ask'.at = "failed"
        BY <3>1, <3>4 DEF Asks
      <4> QED
        BY <2>1, <3>2, <3>4, <4>1 DEF TypeOK, Places, ScanBegins
    <3> QED
      BY <2>1, <3>3, <3>4 DEF ScanBegins
  <2>2. CASE OtherScanBegins
    <3>1. op' = [mine |-> FALSE, read |-> FALSE, hides |-> {}] /\ ask' = ask
      BY <2>2 DEF OtherScanBegins, pages
    <3>2. op' \in Scans /\ ~op'.mine
      BY <3>1 DEF Scans
    <3> QED
      BY <2>2, <3>1, <3>2 DEF OtherScanBegins, TypeOK, Places
  <2>3. CASE ScanReadsKept
    <3>1. op \in Scans /\ op # None /\ op' = [op EXCEPT !.read = TRUE, !.hides = kept]
      BY <2>3 DEF ScanReadsKept, TypeOK
    <3>2. op' \in Scans /\ op'.mine = op.mine /\ ask' = ask
      BY <2>3, <3>1 DEF Scans, ScanReadsKept, pages, TypeOK
    <3> QED
      BY <2>3, <3>1, <3>2 DEF ScanReadsKept, TypeOK, Places
  <2>4. CASE ScanEnds
    <3>1. scan' = scan + 1 /\ scan < MaxScans /\ op' = None
      BY <2>4 DEF ScanEnds
    <3>2. scan' \in 1..MaxScans
      BY <3>1, ReviewAssumption DEF TypeOK
    <3>3. offers' = [offers EXCEPT ![scan'] = disk \ op.hides]
      BY <2>4 DEF ScanEnds
    <3>4. offers' \in [1..MaxScans -> SUBSET Entry]
      BY <3>2, <3>3 DEF TypeOK
    <3>5. CASE op.mine
      <4>1. ask' = [at |-> "done", scan |-> scan', entries |-> offers'[scan']]
        BY <2>4, <3>5 DEF ScanEnds
      <4>2. ask' \in Asks /\ ask'.scan \in 1..MaxScans
        BY <3>2, <3>4, <4>1 DEF Asks
      <4> QED
        BY <2>4, <3>1, <3>2, <3>4, <3>5, <4>2 DEF ScanEnds
    <3>6. CASE ~op.mine
      <4>1. ask' = ask
        BY <2>4, <3>6 DEF ScanEnds
      <4> QED
        BY <3>1, <3>2, <3>4, <4>1 DEF TypeOK, Places
    <3> QED
      BY <3>5, <3>6
  <2>5. CASE ScanFails
    <3>1. op' = None /\ scan' = scan /\ offers' = offers
      BY <2>5 DEF ScanFails
    <3>2. CASE op.mine
      <4>1. ask \in Asks /\ ask' = [ask EXCEPT !.at = "failed"]
        BY <2>5, <3>2 DEF ScanFails, Places, TypeOK
      <4>2. ask' \in Asks /\ ask'.at = "failed"
        BY <4>1 DEF Asks
      <4> QED
        BY <2>5, <3>1, <3>2, <4>2 DEF TypeOK, ScanFails
    <3>3. CASE ~op.mine
      <4>1. ask' = ask
        BY <2>5, <3>3 DEF ScanFails
      <4> QED
        BY <3>1, <4>1 DEF TypeOK, Places
    <3> QED
      BY <3>2, <3>3
  <2> QED
    BY <2>1, <2>2, <2>3, <2>4, <2>5
<1>4. TypeOK'
  BY <1>1, <1>3 DEF TypeOK
<1>5. Places'
  BY <1>1, <1>3 DEF Places
<1> QED
  BY <1>2, <1>4, <1>5


\* What the section leaves when it closes or its scan is stopped.
LEMMA SectionClosed ==
  ASSUME IInv, Aborted \/ (dialog # "settings" /\ UNCHANGED <<ask, op>>)
  PROVE  /\ ask' = None /\ op' \in Scans \cup {None}
         /\ op' # None => ~op'.mine
<1>1. CASE Aborted
  <2>1. op \in Scans \cup {None}
    BY DEF IInv, TypeOK
  <2>2. CASE op # None /\ op.mine
    BY <1>1, <2>1, <2>2 DEF Aborted, Scans
  <2>3. CASE ~(op # None /\ op.mine)
    BY <1>1, <2>1, <2>3 DEF Aborted
  <2> QED
    BY <2>2, <2>3
<1>2. CASE dialog # "settings" /\ UNCHANGED <<ask, op>>
  BY <1>2 DEF IInv, TypeOK, Places
<1> QED
  BY <1>1, <1>2

LEMMA LeavingStep ==
  ASSUME IInv, Leave \/ SignOut
  PROVE  IInv'
<1> USE DEF IInv
<1>1. /\ win' = None /\ dialog' \in {"other", dialog}
      /\ dialog' = "review" => view' = view
      /\ view' \in {view, None} /\ signedIn' \in BOOLEAN
      /\ UNCHANGED <<disk, kept, scan, offers, wins, run, queue, ghosts, keys, fails>>
  BY DEF Leave, SignOut, TypeOK
<1>2. ask' = None /\ op' \in Scans \cup {None} /\ (op' # None => ~op'.mine)
  BY SectionClosed DEF Leave, SignOut, Closes
<1>3. DecidedOnly' /\ RunKnown' /\ RowsKnown' /\ OneOut' /\ KeysKnown'
  BY <1>1, WindowClosed
<1>4. TypeOK'
  BY <1>1, <1>2 DEF TypeOK
<1>5. Places'
  BY <1>1, <1>2 DEF Places, TypeOK
<1> QED
  BY <1>3, <1>4, <1>5

LEMMA SettingsStep ==
  ASSUME IInv, OpenSettings \/ Scan \/ StopScan \/ ScanClean
  PROVE  IInv'
<1> USE DEF IInv
<1>1. UNCHANGED <<disk, kept, scan, offers, view, signedIn, win, wins, run, queue,
                  ghosts, keys, fails>>
  BY DEF OpenSettings, Scan, StopScan, ScanClean, server
<1>2. DecidedOnly' /\ RunKnown' /\ RowsKnown' /\ OneOut' /\ KeysKnown'
  BY <1>1, WindowKept
<1>3. CASE OpenSettings
  <2>1. signedIn /\ dialog = "other" /\ dialog' = "settings" /\ UNCHANGED <<op, ask>>
    BY <1>3 DEF OpenSettings, server
  <2> QED
    BY <1>1, <1>2, <2>1 DEF TypeOK, Places
<1>4. CASE Scan
  <2>1. /\ signedIn /\ dialog = "settings" /\ UNCHANGED <<op, dialog>>
        /\ ask = None
        /\ ask' = [at |-> "sent", scan |-> 0, entries |-> {}]
    BY <1>4 DEF Scan, server
  <2>2. ask' \in Asks /\ ask'.at = "sent"
    BY <2>1, ReviewAssumption DEF Asks
  <2> QED
    BY <1>1, <1>2, <2>1, <2>2 DEF TypeOK, Places
<1>5. CASE StopScan
  <2>1. ask' = None /\ op' \in Scans \cup {None} /\ (op' # None => ~op'.mine)
    BY <1>5, SectionClosed DEF StopScan
  <2>2. dialog' = dialog
    BY <1>5 DEF StopScan
  <2> QED
    BY <1>1, <1>2, <2>1, <2>2 DEF TypeOK, Places
<1>6. CASE ScanClean
  <2>1. ask' = None /\ UNCHANGED <<op, dialog>>
    BY <1>6 DEF ScanClean, server
  <2>2. op # None => ~op.mine
    BY <1>6 DEF ScanClean, Places
  <2> QED
    BY <1>1, <1>2, <2>1, <2>2 DEF TypeOK, Places
<1> QED
  BY <1>3, <1>4, <1>5, <1>6

LEMMA ReviewStep ==
  ASSUME IInv, SignIn \/ ScanDone \/ CloseReview
  PROVE  IInv'
<1> USE DEF IInv
<1>1. UNCHANGED <<disk, kept, scan, offers, op, run, queue, ghosts, keys, fails>>
  BY DEF SignIn, ScanDone, CloseReview, server
<1>2. CASE SignIn
  <2>1. UNCHANGED <<dialog, view, ask>> /\ signedIn' = TRUE
    BY <1>2 DEF SignIn
  <2>2. CASE dialog = "review"
    <3>1. view' \in Views /\ NewWindow(view')
      BY <1>2, <2>1, <2>2 DEF SignIn, Places
    <3> QED
      BY <1>1, <2>1, <2>2, <3>1, WindowOpened DEF TypeOK, Places
  <2>3. CASE dialog # "review"
    <3>1. UNCHANGED <<win, wins>>
      BY <1>2, <2>3 DEF SignIn
    <3>2. DecidedOnly' /\ RunKnown' /\ RowsKnown' /\ OneOut' /\ KeysKnown'
      BY <1>1, <2>1, <3>1, WindowKept
    <3> QED
      BY <1>1, <2>1, <3>1, <3>2 DEF TypeOK, Places
  <2> QED
    BY <2>2, <2>3
<1>3. CASE ScanDone
  <2>1. /\ ask # None /\ ask.at = "done" /\ dialog' = "review" /\ ask' = None
        /\ view' = [scan |-> ask.scan, entries |-> ask.entries]
        /\ NewWindow(view') /\ signedIn' = signedIn
    BY <1>3 DEF ScanDone
  <2>2. ask \in Asks /\ ask.scan \in 1..MaxScans
    BY <2>1 DEF TypeOK, Places
  <2>3. view' \in Views
    BY <2>1, <2>2 DEF Asks, Views
  <2>4. signedIn /\ (op # None => ~op.mine)
    BY <2>1 DEF Places
  <2> QED
    BY <1>1, <2>1, <2>3, <2>4, WindowOpened DEF TypeOK, Places
<1>4. CASE CloseReview
  <2>1. /\ win # None /\ win' = None /\ dialog' = "settings" /\ view' = None
        /\ UNCHANGED <<signedIn, ask, wins>>
    BY <1>4 DEF CloseReview, In
  <2>2. dialog = "review" /\ signedIn
    BY <2>1 DEF Places
  <2>3. DecidedOnly' /\ RunKnown' /\ RowsKnown' /\ OneOut' /\ KeysKnown'
    BY <1>1, <2>1, WindowClosed
  <2> QED
    BY <1>1, <2>1, <2>2, <2>3 DEF TypeOK, Places
<1> QED
  BY <1>2, <1>3, <1>4


-----------------------------------------------------------------------------
(* The review window.                                                      *)

\* A window that changes stays on the screen.
LEMMA PlacesKept ==
  ASSUME IInv, win # None, win'.n = win.n,
         UNCHANGED <<ask, op, dialog, view, signedIn, wins>>,
         \A n \in Window : run[n] = None => run'[n] = None \/ n = win.n
  PROVE  Places'
<1>1. win.n = wins /\ wins \in Nat /\ win.n \in Nat
  BY DEF IInv, Places, TypeOK
<1>2. \A n \in Window : n > wins => n # win.n
  BY <1>1 DEF Window
<1> QED
  BY <1>1, <1>2 DEF IInv, Places

\* Phases, while no run is under way.
LEMMA PhaseStep ==
  ASSUME IInv, Confirm \/ Back \/ Stop
  PROVE  IInv'
<1> USE DEF IInv
<1>1. /\ win \in Windows /\ win # None
      /\ UNCHANGED <<disk, kept, scan, offers, op, dialog, view, signedIn, ask,
                     wins, run, queue, ghosts, keys, fails>>
  BY DEF Confirm, Back, Stop, In, TypeOK, server, pages
<1>2. \/ /\ win.phase \in {"review", "confirm"}
         /\ \E p \in {"review", "confirm"} : win' = [win EXCEPT !.phase = p]
      \/ win.phase = "deleting" /\ win' = [win EXCEPT !.stopped = TRUE]
  BY DEF Confirm, Back, Stop, In
<1>3. /\ win' \in Windows
      /\ win'.n = win.n /\ win'.entries = win.entries /\ win'.dec = win.dec
      /\ win'.out = win.out /\ win'.acked = win.acked /\ win'.sent = win.sent
      /\ win'.vouched = win.vouched
      /\ \/ win'.phase = win.phase
         \/ /\ win.phase \in {"review", "confirm"}
            /\ win'.phase \in {"review", "confirm"}
  BY <1>1, <1>2 DEF Windows
<1>4. TypeOK'
  BY <1>1, <1>3 DEF TypeOK
<1>5. Places'
  BY <1>1, <1>3, PlacesKept
<1>6. DecidedOnly' /\ RunKnown' /\ OneOut'
  BY <1>1, <1>3 DEF DecidedOnly, ToDelete, RunKnown, OneOut
<1>7. RowsKnown'
  BY <1>1, <1>3 DEF RowsKnown, Gone
<1>8. KeysKnown'
  BY <1>1, <1>3 DEF KeysKnown
<1> QED
  BY <1>4, <1>5, <1>6, <1>7, <1>8

\* Back to the review: what is gone leaves the list.
LEMMA DismissStep ==
  ASSUME IInv, Dismiss
  PROVE  IInv'
<1> USE DEF IInv
<1> DEFINE dec == [e \in Entry |-> IF e \in Gone(win) THEN None ELSE win.dec[e]]
<1> DEFINE out == [e \in Entry |-> None]
<1>1. /\ win \in Windows /\ win # None /\ win.phase = "done"
      /\ win' = [win EXCEPT !.entries = @ \ Gone(win), !.dec = dec, !.out = out,
                            !.phase = "review"]
      /\ UNCHANGED <<disk, kept, scan, offers, op, dialog, view, signedIn, ask,
                     wins, run, queue, ghosts, keys, fails>>
  BY DEF Dismiss, In, TypeOK, server, pages
<1>2. dec \in [Entry -> Decision] /\ out \in [Entry -> Outcome]
  BY <1>1 DEF Windows, Decision, Outcome
<1>3. /\ win' \in Windows
      /\ win'.n = win.n /\ win'.entries = win.entries \ Gone(win)
      /\ win'.dec = dec /\ win'.out = out /\ win'.phase = "review"
      /\ win'.acked = win.acked /\ win'.vouched = win.vouched
  <2> HIDE DEF dec, out
  <2> QED
    BY <1>1, <1>2 DEF Windows
<1>4. TypeOK'
  <2>1. {e \in Entry : win'.dec[e] # None} \subseteq win'.entries
    BY <1>1, <1>3 DEF TypeOK
  <2> HIDE DEF dec, out
  <2> QED
    BY <1>1, <1>3, <2>1 DEF TypeOK
<1>5. Places'
  BY <1>1, <1>3, PlacesKept
<1>6. DecidedOnly'
  BY <1>1, <1>3 DEF DecidedOnly
<1>7. RunKnown' /\ OneOut'
  BY <1>1 DEF RunKnown, OneOut
<1>8. RowsKnown'
  <2>1. win'.entries \ Gone(win') = view.entries \ win.acked
    BY <1>1, <1>3, ReviewAssumption DEF RowsKnown, Gone
  <2>2. \A e \in Entry : win'.out[e] = None
    BY <1>3
  <2>3. win'.phase = "review" /\ win'.acked = win.acked /\ view' = view
    BY <1>1, <1>3
  <2> HIDE DEF dec, out
  <2> QED
    BY <2>1, <2>2, <2>3, ReviewAssumption DEF RowsKnown
<1>9. KeysKnown'
  <2>1. \A e \in Gone(win) : win.dec[e] = "del"
    BY <1>1, ReviewAssumption DEF Gone, RowsKnown
  <2>2. \A e \in Entry : win'.dec[e] = "keep" <=> win.dec[e] = "keep"
    BY <1>3, <2>1, ReviewAssumption
  <2>3. win.vouched \subseteq Entry
    BY <1>1 DEF Windows
  <2> HIDE DEF dec, out
  <2>4. \A e \in Entry : InLine(queue[win.n], e, win.dec[e], kept)
                           => InLine(queue[win.n], e, win'.dec[e], kept)
    BY <2>2 DEF InLine
  <2> QED
    BY <1>1, <1>3, <2>3, <2>4 DEF KeysKnown
<1> QED
  BY <1>4, <1>5, <1>6, <1>7, <1>8, <1>9

\* The run begins: with what was decided in the list that was confirmed.
LEMMA GoStep ==
  ASSUME IInv, Go
  PROVE  IInv'
<1> USE DEF IInv
<1> DEFINE base == [i \in Entry |-> IF i \in ToDelete THEN "queued" ELSE None]
<1>1. PICK e \in ToDelete :
        Sends([win EXCEPT !.phase = "deleting", !.stopped = FALSE, !.sent = {},
                          !.out = base], e, ToDelete \ {e})
  BY DEF Go
<1> DEFINE out == [base EXCEPT ![e] = "active"]
<1>2. /\ win \in Windows /\ win # None /\ win.phase = "confirm"
      /\ UNCHANGED <<disk, kept, scan, offers, op, dialog, view, signedIn, ask,
                     wins, queue, ghosts, keys, fails>>
  BY DEF Go, In, TypeOK, server, pages
<1>3. /\ e \in Entry /\ e \in win.entries /\ ToDelete \subseteq Entry
      /\ win.n \in Window /\ win.scan \in 1..MaxScans
  BY <1>2 DEF ToDelete, Windows
<1>4. base \in [Entry -> Outcome] /\ out \in [Entry -> Outcome]
  BY DEF Outcome
<1>5. /\ win' \in Windows /\ win'.n = win.n /\ win'.phase = "deleting"
      /\ win'.entries = win.entries /\ win'.dec = win.dec /\ win'.out = out
      /\ win'.acked = win.acked /\ win'.sent = {e} /\ win'.vouched = win.vouched
  <2> HIDE DEF base
  <2> QED
    BY <1>1, <1>2, <1>3, <1>4 DEF Sends, Windows
<1>6. run' = [run EXCEPT ![win.n] = [todo |-> ToDelete \ {e}, id |-> e,
                                     scan |-> win.scan, at |-> "sent"]]
  <2> HIDE DEF base
  <2> QED
    BY <1>1, <1>2 DEF Sends, Windows
<1>7. /\ run' \in [Window -> Runs \cup {None}]
      /\ run'[win.n] = [todo |-> ToDelete \ {e}, id |-> e, scan |-> win.scan,
                        at |-> "sent"]
      /\ \A n \in Window : n # win.n => run'[n] = run[n]
  BY <1>3, <1>6 DEF Runs, TypeOK
<1>8. ToDelete' = ToDelete
  BY <1>5 DEF ToDelete
<1>9. ToDelete \cap win.acked = {}
  BY <1>2, ReviewAssumption DEF RowsKnown, Gone, ToDelete
<1>10. TypeOK'
  <2> HIDE DEF base, out
  <2> QED
    BY <1>2, <1>5, <1>7 DEF TypeOK
<1>11. Places'
  <2> HIDE DEF base, out
  <2> QED
    BY <1>2, <1>5, <1>7, PlacesKept
<1>12. DecidedOnly'
  BY <1>3, <1>5, <1>7, <1>8, <1>9 DEF DecidedOnly
<1>13. RunKnown'
  BY <1>2, <1>7 DEF RunKnown
<1>14. RowsKnown'
  <2>1. \A i \in Entry : out[i] = IF i = e THEN "active"
                                  ELSE IF i \in ToDelete THEN "queued" ELSE None
    BY <1>3
  <2>2. \A i \in ToDelete : win.dec[i] = "del"
    BY DEF ToDelete
  <2>3. Gone(win') = {} /\ Gone(win) = {}
    BY <1>2, <1>5, <2>1, ReviewAssumption DEF Gone, RowsKnown
  <2> HIDE DEF base, out
  <2> QED
    BY <1>2, <1>5, <2>1, <2>2, <2>3, ReviewAssumption DEF RowsKnown
<1>15. OneOut'
  BY <1>2 DEF OneOut
<1>16. KeysKnown'
  <2> HIDE DEF base, out
  <2> QED
    BY <1>2, <1>5 DEF KeysKnown
<1> QED
  BY <1>10, <1>11, <1>12, <1>13, <1>14, <1>15, <1>16


-----------------------------------------------------------------------------
(* Runs.                                                                   *)

\* A call of a run is answered or lost: its rows are told later.
LEMMA RunAnswered ==
  ASSUME IInv, NEW n \in Window, run[n] # None,
         NEW a \in {"deleted", "failed", "kept"},
         run' = [run EXCEPT ![n].at = a],
         disk' \subseteq disk, a = "deleted" => run[n].id \notin disk',
         UNCHANGED <<kept, ask, op, dialog, view, signedIn, win, wins, queue>>
  PROVE  /\ run' \in [Window -> Runs \cup {None}]
         /\ Places' /\ DecidedOnly' /\ RunKnown' /\ RowsKnown' /\ OneOut' /\ KeysKnown'
<1> USE DEF IInv
<1>1. run[n] \in Runs /\ run' = [run EXCEPT ![n] = [run[n] EXCEPT !.at = a]]
  BY DEF TypeOK
<1>2. [run[n] EXCEPT !.at = a] \in Runs
  BY <1>1 DEF Runs
<1>3. /\ run' \in [Window -> Runs \cup {None}]
      /\ \A m \in Window : m # n => run'[m] = run[m]
      /\ run'[n].id = run[n].id /\ run'[n].todo = run[n].todo /\ run'[n].at = a
      /\ run[n] # None
  BY <1>1, <1>2 DEF TypeOK, Runs
<1>4. Places'
  BY <1>3 DEF Places
<1>5. DecidedOnly'
  <2>1. ToDelete' = ToDelete
    BY DEF ToDelete
  <2> QED
    BY <1>3, <2>1 DEF DecidedOnly
<1>6. RunKnown'
  BY <1>3 DEF RunKnown
<1>7. RowsKnown'
  BY DEF RowsKnown, Gone
<1>8. OneOut' /\ KeysKnown'
  BY DEF OneOut, KeysKnown
<1> QED
  BY <1>3, <1>4, <1>5, <1>6, <1>7, <1>8

LEMMA DeleteHandledStep ==
  ASSUME IInv, NEW n \in Window, DeleteHandled(n)
  PROVE  IInv'
<1>1. run[n] # None /\ run[n] \in Runs
  BY DEF DeleteHandled, IInv, TypeOK
<1>2. run[n].scan \in 1..MaxScans /\ run[n].id \in Entry
  BY <1>1 DEF Runs
<1>3. PICK a \in {"deleted", "failed", "kept"} :
        /\ run' = [run EXCEPT ![n].at = a]
        /\ \/ /\ a # "deleted"
              /\ UNCHANGED <<disk, offers>>
           \/ a = "deleted" /\ Removed(run[n].scan, run[n].id)
  BY DEF DeleteHandled
<1>4. /\ disk' \subseteq disk /\ (a = "deleted" => run[n].id \notin disk')
      /\ offers' \in [1..MaxScans -> SUBSET Entry]
  BY <1>2, <1>3 DEF Removed, IInv, TypeOK
<1>5. fails' \in 0..MaxFails
  BY ReviewAssumption DEF DeleteHandled, IInv, TypeOK
<1>6. UNCHANGED <<kept, scan, op, dialog, view, signedIn, ask, win, wins, queue,
                  ghosts, keys>>
  BY DEF DeleteHandled, pages
<1>7. /\ run' \in [Window -> Runs \cup {None}]
      /\ Places' /\ DecidedOnly' /\ RunKnown' /\ RowsKnown' /\ OneOut' /\ KeysKnown'
  BY <1>1, <1>3, <1>4, <1>6, RunAnswered
<1>8. TypeOK'
  BY <1>4, <1>5, <1>6, <1>7 DEF IInv, TypeOK
<1> QED
  BY <1>7, <1>8 DEF IInv

LEMMA DeleteLostStep ==
  ASSUME IInv, NEW n \in Window, DeleteLost(n)
  PROVE  IInv'
<1>1. run[n] # None /\ run[n] \in Runs /\ run' = [run EXCEPT ![n].at = "failed"]
  BY DEF DeleteLost, IInv, TypeOK
<1>2. UNCHANGED <<disk, kept, scan, offers, op, dialog, view, signedIn, ask, win,
                  wins, queue, keys>>
  BY DEF DeleteLost, server, pages
<1>3. ghosts' \subseteq Ghosts
  <2>1. [call |-> "delete", scan |-> run[n].scan, e |-> run[n].id] \in Ghosts
    BY <1>1 DEF Runs, Ghosts
  <2>2. ghosts' \subseteq
          ghosts \cup {[call |-> "delete", scan |-> run[n].scan, e |-> run[n].id]}
    BY DEF DeleteLost
  <2> QED
    BY <2>1, <2>2 DEF IInv, TypeOK
<1>4. fails' \in 0..MaxFails
  BY ReviewAssumption DEF DeleteLost, IInv, TypeOK
<1>5. /\ run' \in [Window -> Runs \cup {None}]
      /\ Places' /\ DecidedOnly' /\ RunKnown' /\ RowsKnown' /\ OneOut' /\ KeysKnown'
  BY <1>1, <1>2, RunAnswered DEF IInv, TypeOK
<1>6. TypeOK'
  BY <1>2, <1>3, <1>4, <1>5 DEF IInv, TypeOK
<1> QED
  BY <1>5, <1>6 DEF IInv


\* A run whose window is not on the screen ends.
LEMMA RunAlone ==
  ASSUME IInv, NEW n \in Window, run' = [run EXCEPT ![n] = None],
         UNCHANGED <<disk, kept, scan, offers, op, dialog, view, signedIn, ask, win,
                     wins, queue, ghosts, keys, fails>>
  PROVE  IInv'
<1> USE DEF IInv
<1>1. /\ run' \in [Window -> Runs \cup {None}]
      /\ \A m \in Window : run'[m] # None => run'[m] = run[m] /\ run[m] # None
      /\ \A m \in Window : run[m] = None => run'[m] = None
  BY DEF TypeOK
<1>2. TypeOK'
  BY <1>1 DEF TypeOK
<1>3. Places'
  BY <1>1 DEF Places
<1>4. DecidedOnly'
  <2>1. ToDelete' = ToDelete
    BY DEF ToDelete
  <2> QED
    BY <1>1, <2>1 DEF DecidedOnly
<1>5. RunKnown' /\ OneOut' /\ KeysKnown'
  BY <1>1 DEF RunKnown, OneOut, KeysKnown
<1>6. RowsKnown'
  BY DEF RowsKnown, Gone
<1> QED
  BY <1>2, <1>3, <1>4, <1>5, <1>6

\* The window with the answer of its run.
Told == [win EXCEPT !.out[run[win.n].id] = run[win.n].at,
                    !.acked = IF run[win.n].at = "deleted"
                              THEN @ \cup {run[win.n].id} ELSE @]

\* Its row says so, and the others what they said.
LEMMA ToldTrue ==
  ASSUME IInv, win # None, win.n \in Window, run[win.n] # None,
         run[win.n].at # "sent"
  PROVE  /\ Told \in Windows
         /\ Told.n = win.n /\ Told.scan = win.scan /\ Told.entries = win.entries
         /\ Told.dec = win.dec /\ Told.phase = "deleting" /\ Told.stopped = win.stopped
         /\ Told.sent = win.sent /\ Told.vouched = win.vouched
         /\ \A i \in Entry :
              /\ Told.out[i] = "deleted" => i \notin disk /\ i \in Told.acked
              /\ Told.out[i] # None => Told.dec[i] = "del"
              /\ Told.out[i] \notin {None, "queued"} <=> i \in Told.sent
         /\ Told.entries \ Gone(Told) = view.entries \ Told.acked
         /\ run[win.n].todo \subseteq ToDelete \ Told.acked
<1> USE DEF IInv
<1> DEFINE r == run[win.n]
<1>1. /\ win \in Windows /\ r \in Runs /\ r # None
      /\ r.at \in {"deleted", "failed", "kept"} /\ r.id \in Entry
  BY DEF TypeOK, Runs
<1>2. /\ win.phase = "deleting" /\ win.out[r.id] = "active"
      /\ r.id \in ToDelete \ win.acked /\ r.todo \subseteq ToDelete \ win.acked
      /\ r.id \notin r.todo /\ (r.at = "deleted" => r.id \notin disk)
  BY DEF DecidedOnly, RunKnown
<1> DEFINE acked == IF r.at = "deleted" THEN win.acked \cup {r.id} ELSE win.acked
<1> DEFINE out == [win.out EXCEPT ![r.id] = r.at]
<1>3. Told = [win EXCEPT !.out = out, !.acked = acked]
  BY <1>1 DEF Told, Windows
<1>4. out \in [Entry -> Outcome] /\ acked \in SUBSET Entry
  BY <1>1 DEF Windows, Outcome
<1>5. \A i \in Entry : out[i] = IF i = r.id THEN r.at ELSE win.out[i]
  BY <1>1 DEF Windows
<1>6. acked = IF r.at = "deleted" THEN win.acked \cup {r.id} ELSE win.acked
  OBVIOUS
<1>7. win.dec[r.id] = "del" /\ r.id \in win.entries
  BY <1>2 DEF ToDelete
<1>8. r.id \in win.sent
  BY <1>1, <1>2, ReviewAssumption DEF RowsKnown
<1> HIDE DEF out, acked, r
<1>9. /\ Told \in Windows /\ Told.out = out /\ Told.acked = acked
      /\ Told.n = win.n /\ Told.scan = win.scan /\ Told.entries = win.entries
      /\ Told.dec = win.dec /\ Told.phase = "deleting" /\ Told.stopped = win.stopped
      /\ Told.sent = win.sent /\ Told.vouched = win.vouched
  BY <1>1, <1>2, <1>3, <1>4 DEF Windows
<1>10. ASSUME NEW i \in Entry
       PROVE  /\ Told.out[i] = "deleted" => i \notin disk /\ i \in Told.acked
              /\ Told.out[i] # None => Told.dec[i] = "del"
              /\ Told.out[i] \notin {None, "queued"} <=> i \in Told.sent
  <2>1. CASE i = r.id
    BY <1>1, <1>2, <1>5, <1>6, <1>7, <1>8, <1>9, <2>1, ReviewAssumption
  <2>2. CASE i # r.id
    BY <1>2, <1>5, <1>6, <1>9, <2>2 DEF RowsKnown
  <2> QED
    BY <2>1, <2>2
<1>11. Told.entries \ Gone(Told) = view.entries \ Told.acked
  <2>1. win.entries \ Gone(win) = view.entries \ win.acked
    BY DEF RowsKnown
  <2>2. Gone(win) \subseteq Entry /\ r.id \notin Gone(win)
    BY <1>2 DEF Gone
  <2>3. CASE r.at = "deleted"
    <3>1. Gone(Told) = Gone(win) \cup {r.id}
      BY <1>1, <1>5, <1>9, <2>3 DEF Gone
    <3>2. Told.acked = win.acked \cup {r.id}
      BY <1>6, <1>9, <2>3
    <3> QED
      BY <1>9, <2>1, <3>1, <3>2
  <2>4. CASE r.at # "deleted"
    <3>1. Gone(Told) = Gone(win)
      BY <1>2, <1>5, <1>9, <2>4 DEF Gone
    <3> QED
      BY <1>6, <1>9, <2>1, <2>4, <3>1
  <2> QED
    BY <2>3, <2>4
<1>12. r.todo \subseteq ToDelete \ Told.acked
  BY <1>2, <1>6, <1>9
<1> QED
  BY <1>9, <1>10, <1>11, <1>12 DEF r

LEMMA DeleteReplyStep ==
  ASSUME IInv, NEW n \in Window, DeleteReply(n)
  PROVE  IInv'
<1> USE DEF IInv
<1>1. /\ run[n] # None /\ run[n].at # "sent" /\ run[n] \in Runs
      /\ UNCHANGED <<disk, kept, scan, offers, op, dialog, view, signedIn, ask,
                     wins, queue, ghosts, keys, fails>>
  BY DEF DeleteReply, TypeOK, server, pages
<1>2. CASE ~(win # None /\ win.n = n)
  <2>1. run' = [run EXCEPT ![n] = None] /\ win' = win
    BY <1>2 DEF DeleteReply
  <2> QED
    BY <1>1, <2>1, RunAlone
<1>3. CASE win # None /\ win.n = n
  <2> DEFINE w == [win EXCEPT !.out[run[n].id] = run[n].at,
                              !.acked = IF run[n].at = "deleted"
                                        THEN @ \cup {run[n].id} ELSE @]
  <2>1. GoesOn(w, run[n])
    BY <1>3 DEF DeleteReply
  <2>2. /\ w \in Windows
        /\ w.n = win.n /\ w.scan = win.scan /\ w.entries = win.entries
        /\ w.dec = win.dec /\ w.phase = "deleting"
        /\ w.sent = win.sent /\ w.vouched = win.vouched
        /\ \A i \in Entry :
             /\ w.out[i] = "deleted" => i \notin disk /\ i \in w.acked
             /\ w.out[i] # None => w.dec[i] = "del"
             /\ w.out[i] \notin {None, "queued"} <=> i \in w.sent
        /\ w.entries \ Gone(w) = view.entries \ w.acked
        /\ run[n].todo \subseteq ToDelete \ w.acked
    <3>1. w = Told
      BY <1>3 DEF Told
    <3>2. win # None /\ win.n \in Window /\ run[win.n] # None /\ run[win.n].at # "sent"
      BY <1>1, <1>3
    <3> HIDE DEF w
    <3>3. run[win.n].todo = run[n].todo
      BY <1>3
    <3> QED
      BY <3>1, <3>2, <3>3, ToldTrue
  <2> HIDE DEF w
  <2>3. /\ run[n].id \notin run[n].todo /\ ToDelete \subseteq Entry
        /\ run[n].todo \subseteq Entry
    BY <1>1, <2>2 DEF RunKnown, ToDelete, Windows, Runs
  <2>4. CASE \E e \in run[n].todo : Sends(w, e, run[n].todo \ {e})
    <3>1. PICK e \in run[n].todo : Sends(w, e, run[n].todo \ {e})
      BY <2>4
    <3>2. /\ win' = [w EXCEPT !.out[e] = "active", !.sent = @ \cup {e}]
          /\ run' = [run EXCEPT ![n] = [todo |-> run[n].todo \ {e}, id |-> e,
                                        scan |-> w.scan, at |-> "sent"]]
      BY <1>3, <2>2, <3>1 DEF Sends
    <3>3. [w.out EXCEPT ![e] = "active"] \in [Entry -> Outcome]
      BY <2>2 DEF Windows, Outcome
    <3>4. /\ win' \in Windows
          /\ win'.n = win.n /\ win'.entries = win.entries /\ win'.dec = win.dec
          /\ win'.phase = "deleting" /\ win'.vouched = win.vouched
          /\ win'.acked = w.acked /\ win'.sent = w.sent \cup {e}
          /\ win'.out = [w.out EXCEPT ![e] = "active"]
      <4> DEFINE out == [w.out EXCEPT ![e] = "active"]
      <4> DEFINE sent == w.sent \cup {e}
      <4>1. win' = [w EXCEPT !.out = out, !.sent = sent]
        BY <2>2, <3>2 DEF Windows
      <4>2. sent \in SUBSET Entry /\ out \in [Entry -> Outcome]
        BY <2>2, <2>3, <3>1, <3>3 DEF Windows
      <4> HIDE DEF out, sent
      <4>3. /\ win' \in Windows
            /\ win'.n = w.n /\ win'.entries = w.entries /\ win'.dec = w.dec
            /\ win'.phase = w.phase /\ win'.vouched = w.vouched
            /\ win'.acked = w.acked /\ win'.sent = sent /\ win'.out = out
        BY <2>2, <4>1, <4>2 DEF Windows
      <4> QED
        BY <2>2, <4>3 DEF out, sent
    <3>5. /\ run' \in [Window -> Runs \cup {None}]
          /\ run'[n] = [todo |-> run[n].todo \ {e}, id |-> e, scan |-> w.scan,
                        at |-> "sent"]
          /\ \A m \in Window : m # n => run'[m] = run[m]
      <4>1. [todo |-> run[n].todo \ {e}, id |-> e, scan |-> w.scan,
             at |-> "sent"] \in Runs
        BY <2>2, <2>3, <3>1 DEF Runs, Windows
      <4> QED
        BY <3>2, <4>1 DEF TypeOK
    <3>6. ToDelete' = ToDelete /\ e \in ToDelete \ w.acked /\ e \in Entry
      BY <2>2, <2>3, <3>1, <3>4 DEF ToDelete
    <3>7. \A i \in Entry : win'.out[i] = IF i = e THEN "active" ELSE w.out[i]
      BY <2>2, <3>4 DEF Windows
    <3>8. TypeOK'
      BY <1>1, <1>3, <3>4, <3>5 DEF TypeOK
    <3>9. Places'
      BY <1>1, <1>3, <3>4, <3>5, PlacesKept
    <3>10. DecidedOnly'
      BY <1>3, <2>2, <3>4, <3>5, <3>6, <3>7 DEF DecidedOnly
    <3>11. RunKnown' /\ OneOut'
      BY <1>1, <3>5 DEF RunKnown, OneOut
    <3>12. RowsKnown'
      <4>1. w.out[e] # "deleted" /\ w.dec[e] = "del"
        BY <2>2, <3>6 DEF ToDelete
      <4>2. Gone(win') = Gone(w)
        BY <3>7, <4>1 DEF Gone
      <4> QED
        BY <1>1, <2>2, <3>4, <3>7, <4>1, <4>2, ReviewAssumption DEF RowsKnown
    <3>13. KeysKnown'
      BY <1>1, <1>3, <3>4 DEF KeysKnown
    <3> QED
      BY <3>8, <3>9, <3>10, <3>11, <3>12, <3>13
  <2>5. CASE win' = Finished(w) /\ run' = [run EXCEPT ![w.n] = None]
    <3> DEFINE out == [e \in Entry |-> IF w.out[e] = "queued" THEN None ELSE w.out[e]]
    <3>1. out \in [Entry -> Outcome]
      BY <2>2 DEF Windows, Outcome
    <3>2. win' = [w EXCEPT !.phase = "done", !.out = out]
      BY <2>2, <2>5 DEF Finished
    <3>3. /\ win' \in Windows
          /\ win'.n = win.n /\ win'.entries = win.entries /\ win'.dec = win.dec
          /\ win'.phase = "done" /\ win'.vouched = win.vouched
          /\ win'.acked = w.acked /\ win'.sent = w.sent /\ win'.out = out
      <4> HIDE DEF out
      <4> QED
        BY <2>2, <3>1, <3>2 DEF Windows
    <3>4. /\ run' \in [Window -> Runs \cup {None}]
          /\ run'[n] = None
          /\ \A m \in Window : m # n => run'[m] = run[m]
      BY <1>3, <2>2, <2>5 DEF TypeOK
    <3>5. TypeOK'
      <4> HIDE DEF out
      <4> QED
        BY <1>1, <1>3, <3>3, <3>4 DEF TypeOK
    <3>6. Places'
      BY <1>1, <1>3, <3>3, <3>4, PlacesKept
    <3>7. DecidedOnly'
      BY <1>3, <3>3, <3>4 DEF DecidedOnly
    <3>8. RunKnown' /\ OneOut'
      BY <1>1, <3>4 DEF RunKnown, OneOut
    <3>9. RowsKnown'
      <4>1. \A i \in Entry : win'.out[i] = IF w.out[i] = "queued" THEN None ELSE w.out[i]
        BY <3>3
      <4>2. Gone(win') = Gone(w)
        BY <4>1, ReviewAssumption DEF Gone
      <4> HIDE DEF out
      <4> QED
        BY <1>1, <2>2, <3>3, <4>1, <4>2, ReviewAssumption DEF RowsKnown
    <3>10. KeysKnown'
      <4> HIDE DEF out
      <4> QED
        BY <1>1, <1>3, <3>3 DEF KeysKnown
    <3> QED
      BY <3>5, <3>6, <3>7, <3>8, <3>9, <3>10
  <2> QED
    BY <2>1, <2>4, <2>5 DEF GoesOn
<1> QED
  BY <1>2, <1>3


-----------------------------------------------------------------------------
(* The queues of keep calls.                                               *)

\* A call is handled or lost.
Mark(q, a) == [q EXCEPT ![1].at = a]

LEMMA Marked ==
  ASSUME NEW q \in Seq(Keeps), 1 \in DOMAIN q, NEW a \in {"ok", "failed"}
  PROVE  /\ Mark(q, a) \in Seq(Keeps)
         /\ DOMAIN Mark(q, a) = DOMAIN q
         /\ Mark(q, a)[1].at = a
         /\ Mark(q, a)[1].e = q[1].e
         /\ \A i \in DOMAIN q : i # 1 => Mark(q, a)[i] = q[i]
<1>1. q[1] \in Keeps
  OBVIOUS
<1>2. [q[1] EXCEPT !.at = a] \in Keeps
  BY <1>1 DEF Keeps
<1>3. Mark(q, a) = [q EXCEPT ![1] = [q[1] EXCEPT !.at = a]]
  BY DEF Mark
<1> QED
  BY <1>1, <1>2, <1>3 DEF Keeps

\* A call is answered, and leaves the queue.
LEMMA Shifted ==
  ASSUME NEW q \in Seq(Keeps), 1 \in DOMAIN q
  PROVE  /\ RemoveAt(q, 1) \in Seq(Keeps)
         /\ Len(RemoveAt(q, 1)) = Len(q) - 1
         /\ \A i \in 1..(Len(q) - 1) : RemoveAt(q, 1)[i] = q[i + 1]
<1>1. Len(q) \in Nat /\ Len(q) >= 1 /\ DOMAIN q = 1..Len(q)
  OBVIOUS
<1>2. SubSeq(q, 1, 0) = <<>>
  OBVIOUS
<1>3. /\ SubSeq(q, 2, Len(q)) \in Seq(Keeps)
      /\ Len(SubSeq(q, 2, Len(q))) = Len(q) - 1
      /\ \A i \in 1..(Len(q) - 1) : SubSeq(q, 2, Len(q))[i] = q[i + 1]
  BY <1>1, SubSeqProperties
<1>4. RemoveAt(q, 1) = SubSeq(q, 2, Len(q))
  BY <1>2, <1>3 DEF RemoveAt
<1> QED
  BY <1>3, <1>4

\* A call is added.
LEMMA OneElement ==
  ASSUME NEW c
  PROVE  SetToSeq({c}) = <<c>>
<1>1. Cardinality({c}) = 1
  BY FS_Singleton
<1>2. <<c>> \in [1..1 -> {c}] /\ IsInjective(<<c>>)
  BY DEF IsInjective
<1>3. \A f \in [1..1 -> {c}] : f = <<c>>
  OBVIOUS
<1> QED
  BY <1>1, <1>2, <1>3 DEF SetToSeq

LEMMA NoElement == SetToSeq({}) = <<>>
<1>1. Cardinality({}) = 0
  BY FS_EmptySet
<1>2. <<>> \in [1..0 -> {}] /\ IsInjective(<<>>)
  BY DEF IsInjective
<1>3. \A f \in [1..0 -> {}] : f = <<>>
  OBVIOUS
<1> QED
  BY <1>1, <1>2, <1>3 DEF SetToSeq


\* Nothing more is said of what is not vouched for, and nothing else of the
\* window changes; what the disk loses makes no row untrue.
LEMMA Unvouched ==
  ASSUME IInv, disk' \subseteq disk,
         \/ win' = win
         \/ win # None /\ \E S : win' = [win EXCEPT !.vouched = @ \ S],
         UNCHANGED <<op, dialog, view, signedIn, ask, wins, run>>
  PROVE  /\ win' \in Windows \cup {None}
         /\ win' # None => /\ win # None /\ win'.n = win.n /\ win'.dec = win.dec
                           /\ win'.vouched \subseteq win.vouched
                           /\ {e \in Entry : win'.dec[e] # None} \subseteq win'.entries
         /\ Places' /\ DecidedOnly' /\ RunKnown' /\ RowsKnown'
<1> USE DEF IInv
<1>1. CASE win' = win
  <2>1. Places' /\ RunKnown'
    BY <1>1 DEF Places, RunKnown
  <2>2. DecidedOnly'
    BY <1>1 DEF DecidedOnly, ToDelete
  <2>3. RowsKnown'
    BY <1>1 DEF RowsKnown, Gone
  <2> QED
    BY <1>1, <2>1, <2>2, <2>3 DEF TypeOK
<1>2. CASE win # None /\ \E S : win' = [win EXCEPT !.vouched = @ \ S]
  <2>1. PICK S : win' = [win EXCEPT !.vouched = win.vouched \ S]
    BY <1>2
  <2>2. win \in Windows /\ win # None
    BY <1>2 DEF TypeOK
  <2>3. /\ win' \in Windows
        /\ win'.n = win.n /\ win'.entries = win.entries /\ win'.dec = win.dec
        /\ win'.phase = win.phase /\ win'.out = win.out /\ win'.acked = win.acked
        /\ win'.sent = win.sent /\ win'.vouched = win.vouched \ S
    BY <2>1, <2>2 DEF Windows
  <2>4. Places'
    BY <2>2, <2>3, PlacesKept
  <2>5. DecidedOnly' /\ RunKnown'
    BY <2>2, <2>3 DEF DecidedOnly, ToDelete, RunKnown
  <2>6. RowsKnown'
    BY <2>2, <2>3 DEF RowsKnown, Gone
  <2> QED
    BY <2>2, <2>3, <2>4, <2>5, <2>6 DEF TypeOK
<1> QED
  BY <1>1, <1>2

\* The window is vouched for when what it says of each entry still holds.
LEMMA StillKnown ==
  ASSUME IInv, win' # None => /\ win # None /\ win'.n = win.n /\ win'.dec = win.dec
                              /\ win'.vouched \subseteq win.vouched,
         \A e \in Entry : win' # None /\ e \in win'.vouched =>
           \/ Untold(queue'[win.n], e)
           \/ /\ ~Untold(queue[win.n], e)
              /\ InLine(queue[win.n], e, win.dec[e], kept)
                   => InLine(queue'[win.n], e, win.dec[e], kept')
  PROVE  KeysKnown'
<1> SUFFICES ASSUME win' # None, NEW e \in win'.vouched
             PROVE  \/ Untold(queue'[win'.n], e)
                    \/ InLine(queue'[win'.n], e, win'.dec[e], kept')
  BY DEF KeysKnown
<1>1. e \in win.vouched /\ win # None /\ e \in Entry
  BY DEF IInv, TypeOK, Windows
<1>2. \/ Untold(queue[win.n], e)
      \/ InLine(queue[win.n], e, win.dec[e], kept)
  BY <1>1 DEF IInv, KeysKnown
<1> QED
  BY <1>1, <1>2

LEMMA GhostStep ==
  ASSUME IInv, ForgetAll \/ (\E g \in ghosts : Ghost(g))
  PROVE  IInv'
<1> USE DEF IInv
<1>1. UNCHANGED <<scan, op, dialog, view, signedIn, ask, wins, run, queue, keys, fails>>
  BY DEF ForgetAll, Ghost, pages
<1>2. ghosts' \subseteq Ghosts
  BY DEF ForgetAll, Ghost, TypeOK
<1>3. win # None => win \in Windows /\ win.n # 0 /\ win.vouched \subseteq Entry
  BY DEF TypeOK, Windows, Window
<1>4. CASE ForgetAll
  <2>1. /\ kept' = {} /\ Doubts(0, Entry) /\ UNCHANGED <<disk, offers>>
    BY <1>4 DEF ForgetAll
  <2>2. win' = IF win # None THEN [win EXCEPT !.vouched = @ \ Entry] ELSE win
    BY <1>3, <2>1 DEF Doubts
  <2>3. win' # None => win'.vouched = {}
    BY <1>3, <2>2 DEF Windows
  <2>4. /\ win' \in Windows \cup {None}
        /\ win' # None => {e \in Entry : win'.dec[e] # None} \subseteq win'.entries
        /\ Places' /\ DecidedOnly' /\ RunKnown' /\ RowsKnown'
    BY <1>1, <2>1, <2>2, Unvouched
  <2>5. TypeOK'
    BY <1>1, <1>2, <2>1, <2>4 DEF TypeOK
  <2>6. KeysKnown' /\ OneOut'
    BY <1>1, <2>3 DEF KeysKnown, OneOut
  <2> QED
    BY <2>4, <2>5, <2>6
<1>5. CASE \E g \in ghosts : Ghost(g)
  <2>1. PICK g \in ghosts : Ghost(g)
    BY <1>5
  <2>2. g \in Ghosts
    BY DEF TypeOK
  <2>3. CASE UNCHANGED <<disk, kept, offers, win>>
    <3>1. DecidedOnly' /\ RunKnown' /\ RowsKnown' /\ OneOut' /\ KeysKnown'
      BY <1>1, <2>3, WindowKept
    <3>2. Places' /\ TypeOK'
      BY <1>1, <1>2, <2>3 DEF Places, TypeOK
    <3> QED
      BY <3>1, <3>2
  <2>4. CASE Removed(g.scan, g.e) /\ UNCHANGED <<kept, win>>
    <3>1. disk' \subseteq disk /\ offers' \in [1..MaxScans -> SUBSET Entry]
      BY <2>2, <2>4 DEF Removed, Ghosts, TypeOK
    <3>2. Places' /\ DecidedOnly' /\ RunKnown' /\ RowsKnown'
      BY <1>1, <2>4, <3>1, Unvouched
    <3>3. KeysKnown' /\ OneOut'
      BY <1>1, <2>4 DEF KeysKnown, OneOut
    <3>4. TypeOK'
      BY <1>1, <1>2, <2>4, <3>1 DEF TypeOK
    <3> QED
      BY <3>2, <3>3, <3>4
  <2>5. CASE /\ kept' = Remembered(g.call, g.e)
             /\ Doubts(0, {g.e})
             /\ UNCHANGED <<disk, offers>>
    <3>1. g.e \in Entry
      BY <2>2 DEF Ghosts
    <3>2. win' = IF win # None THEN [win EXCEPT !.vouched = @ \ {g.e}] ELSE win
      BY <1>3, <2>5 DEF Doubts
    <3>3. /\ win' \in Windows \cup {None}
          /\ win' # None => /\ win # None /\ win'.n = win.n /\ win'.dec = win.dec
                            /\ win'.vouched \subseteq win.vouched
                            /\ {e \in Entry : win'.dec[e] # None} \subseteq win'.entries
          /\ Places' /\ DecidedOnly' /\ RunKnown' /\ RowsKnown'
      BY <1>1, <2>5, <3>2, Unvouched
    <3>4. win' # None => g.e \notin win'.vouched
      BY <1>3, <3>2 DEF Windows
    <3>5. kept' \subseteq Entry /\ \A e : e # g.e => (e \in kept' <=> e \in kept)
      BY <2>5, <3>1 DEF Remembered, TypeOK
    <3>6. TypeOK'
      BY <1>1, <1>2, <2>5, <3>3, <3>5 DEF TypeOK
    <3>7. KeysKnown'
      <4> SUFFICES ASSUME win' # None, NEW e \in win'.vouched
                   PROVE  \/ Untold(queue'[win'.n], e)
                          \/ InLine(queue'[win'.n], e, win'.dec[e], kept')
        BY DEF KeysKnown
      <4>1. e # g.e /\ win # None /\ e \in win.vouched
        BY <3>3, <3>4
      <4>2. \/ Untold(queue[win.n], e)
            \/ InLine(queue[win.n], e, win.dec[e], kept)
        BY <4>1 DEF KeysKnown
      <4>3. e \in kept' <=> e \in kept
        BY <3>5, <4>1
      <4> QED
        BY <1>1, <3>3, <4>2, <4>3 DEF InLine
    <3>8. OneOut'
      BY <1>1 DEF OneOut
    <3> QED
      BY <3>3, <3>6, <3>7, <3>8
  <2> QED
    BY <2>1, <2>3, <2>4, <2>5 DEF Ghost
<1> QED
  BY <1>4, <1>5


\* A call that is marked fails, or is carried out and makes what is
\* remembered as it says.
LEMMA MarkKnown ==
  ASSUME IInv, NEW n \in Window, 1 \in DOMAIN queue[n],
         NEW a \in {"ok", "failed"}, queue' = [queue EXCEPT ![n][1].at = a],
         win' # None => /\ win # None /\ win'.n = win.n /\ win'.dec = win.dec
                        /\ win'.vouched \subseteq win.vouched,
         \/ a = "failed" /\ kept' = kept
         \/ /\ a = "ok" /\ queue[n][1].at = "sent"
            /\ kept' = Remembered(queue[n][1].call, queue[n][1].e)
            /\ win' # None /\ win'.n # n => queue[n][1].e \notin win'.vouched
  PROVE  queue' \in [Window -> Seq(Keeps)] /\ OneOut' /\ KeysKnown'
<1> USE DEF IInv
<1> DEFINE q == queue[n]
<1> DEFINE p == Mark(q, a)
<1>1. /\ p \in Seq(Keeps) /\ DOMAIN p = DOMAIN q /\ 1 \in DOMAIN q
      /\ p[1].at = a /\ p[1].e = q[1].e
      /\ \A i \in DOMAIN q : i # 1 => p[i] = q[i]
  <2>1. q \in Seq(Keeps) /\ 1 \in DOMAIN q
    BY DEF TypeOK
  <2> HIDE DEF q
  <2> QED
    BY <2>1, Marked
<1>2. /\ queue' = [queue EXCEPT ![n] = p]
      /\ queue' \in [Window -> Seq(Keeps)]
      /\ queue'[n] = p /\ \A m \in Window : m # n => queue'[m] = queue[m]
  BY <1>1 DEF TypeOK, Mark
<1>3. q \in Seq(Keeps) /\ q[1] \in Keeps /\ DOMAIN q = 1..Len(q) /\ Len(q) \in Nat
  BY <1>1 DEF TypeOK
<1>4. \A i \in DOMAIN q : i # 1 => q[i].at = "sent"
  BY <1>3 DEF OneOut
<1>5. OneOut'
  <2> SUFFICES ASSUME NEW m \in Window, NEW i \in DOMAIN queue'[m], i > 1
               PROVE  queue'[m][i].at = "sent"
    BY DEF OneOut
  <2>1. CASE m = n
    <3> HIDE DEF p, q
    <3> QED
      BY <1>1, <1>2, <1>3, <1>4, <2>1
  <2>2. CASE m # n
    BY <1>2, <2>2 DEF OneOut
  <2> QED
    BY <2>1, <2>2
<1>6. KeysKnown'
  <2> SUFFICES ASSUME win' # None, NEW e \in win'.vouched
               PROVE  \/ Untold(queue'[win'.n], e)
                      \/ InLine(queue'[win'.n], e, win'.dec[e], kept')
    BY DEF KeysKnown
  <2>1. /\ e \in win.vouched /\ win # None /\ e \in Entry /\ win.n \in Window
        /\ win'.n = win.n /\ win'.dec = win.dec
    BY DEF TypeOK, Windows
  <2>2. \/ Untold(queue[win.n], e)
        \/ InLine(queue[win.n], e, win.dec[e], kept)
    BY <2>1 DEF KeysKnown
  <2>3. CASE win.n # n
    <3>1. queue'[win.n] = queue[win.n]
      BY <1>2, <2>1, <2>3
    <3>2. e \in kept' <=> e \in kept
      BY <2>1, <2>3 DEF Remembered
    <3> QED
      BY <2>1, <2>2, <3>1, <3>2 DEF InLine
  <2>4. CASE win.n = n
    <3> DEFINE d == win.dec[e]
    <3>1. Untold(q, e) \/ InLine(q, e, d, kept)
      BY <2>2, <2>4
    <3>2. q # <<>> /\ p # <<>> /\ 1 \in DOMAIN q
      BY <1>1, <1>3
    <3> HIDE DEF p, q, d
    <3>3. CASE a = "failed"
      <4>1. kept' = kept
        BY <3>3
      <4>2. CASE q[1].e = e
        BY <1>1, <1>2, <2>1, <2>4, <3>2, <3>3, <4>2 DEF Untold
      <4>3. CASE q[1].e # e
        <5>1. InLine(q, e, d, kept)
          BY <3>1, <4>3 DEF Untold
        <5>2. InLine(p, e, d, kept)
          BY <1>1, <4>3, <5>1 DEF InLine
        <5> QED
          BY <1>2, <2>1, <2>4, <4>1, <5>2 DEF d
      <4> QED
        BY <4>2, <4>3
    <3>4. CASE a = "ok" /\ q[1].at = "sent" /\ kept' = Remembered(q[1].call, q[1].e)
      <4>1. InLine(q, e, d, kept)
        BY <3>1, <3>4 DEF Untold
      <4>2. CASE q[1].e # e
        <5>1. e \in kept' <=> e \in kept
          BY <3>4, <4>2 DEF Remembered
        <5>2. InLine(p, e, d, kept')
          BY <1>1, <3>4, <4>1, <4>2, <5>1 DEF InLine
        <5> QED
          BY <1>2, <2>1, <2>4, <5>2 DEF d
      <4>3. CASE q[1].e = e
        <5>1. e \in kept' <=> q[1].call = "keep"
          BY <2>1, <3>4, <4>3 DEF Remembered
        <5>2. \A i \in DOMAIN p :
                /\ p[i].e = e /\ p[i].at = "sent"
                /\ \A j \in DOMAIN p : j > i => p[j].e # e
                => (p[i].call = "keep" <=> d = "keep")
          <6> SUFFICES ASSUME NEW i \in DOMAIN p, p[i].e = e, p[i].at = "sent",
                              \A j \in DOMAIN p : j > i => p[j].e # e
                       PROVE  p[i].call = "keep" <=> d = "keep"
            OBVIOUS
          <6>1. i # 1 /\ i \in DOMAIN q /\ q[i] = p[i]
            BY <1>1, <3>4
          <6>2. \A j \in DOMAIN q : j > i => q[j].e # e
            BY <1>1, <1>3, <6>1
          <6> QED
            BY <4>1, <6>1, <6>2 DEF InLine
        <5>3. (\A i \in DOMAIN p : p[i].e = e => p[i].at # "sent")
                => (e \in kept' <=> d = "keep")
          <6> SUFFICES ASSUME \A i \in DOMAIN p : p[i].e = e => p[i].at # "sent"
                       PROVE  e \in kept' <=> d = "keep"
            OBVIOUS
          <6>1. \A j \in DOMAIN q : j > 1 => q[j].e # e
            BY <1>1, <1>3, <1>4
          <6>2. q[1].call = "keep" <=> d = "keep"
            BY <3>2, <3>4, <4>1, <4>3, <6>1 DEF InLine
          <6> QED
            BY <5>1, <6>2
        <5>4. InLine(p, e, d, kept')
          BY <5>2, <5>3 DEF InLine
        <5> QED
          BY <1>2, <2>1, <2>4, <5>4 DEF d
      <4> QED
        BY <4>2, <4>3
    <3> QED
      BY <3>3, <3>4 DEF q
  <2> QED
    BY <2>3, <2>4
<1> QED
  BY <1>2, <1>5, <1>6

\* Only the first call of a queue is out.
LEMMA FirstOut ==
  ASSUME IInv, NEW n \in Window, NEW i \in InFlight(queue[n])
  PROVE  /\ i = 1 /\ 1 \in DOMAIN queue[n]
         /\ queue[n] \in Seq(Keeps) /\ queue[n][1] \in Keeps
<1>1. i = 1 /\ 1 \in DOMAIN queue[n] /\ queue[n] \in Seq(Keeps)
  BY DEF InFlight, IInv, TypeOK
<1> QED
  BY <1>1

LEMMA KeepHandledStep ==
  ASSUME IInv, NEW n \in Window, NEW i \in DOMAIN queue[n], KeepHandled(n, i)
  PROVE  IInv'
<1> USE DEF IInv
<1> DEFINE c == queue[n][1]
<1>1. /\ i = 1 /\ 1 \in DOMAIN queue[n] /\ c \in Keeps /\ c.at = "sent"
  BY FirstOut DEF KeepHandled
<1>2. UNCHANGED <<disk, scan, offers, op, dialog, view, signedIn, ask, wins, run,
                  ghosts, keys>>
  BY DEF KeepHandled, pages
<1>3. fails' \in 0..MaxFails
  BY ReviewAssumption DEF KeepHandled, TypeOK
<1>4. c.e \in Entry
  BY <1>1 DEF Keeps
<1>5. win # None => win \in Windows
  BY DEF TypeOK
<1>6. CASE /\ kept' = Remembered(c.call, c.e)
           /\ queue' = [queue EXCEPT ![n][1].at = "ok"]
           /\ Doubts(n, {c.e})
  <2>1. \/ win' = win
        \/ win # None /\ \E S : win' = [win EXCEPT !.vouched = @ \ S]
    BY <1>6 DEF Doubts
  <2>2. /\ win' \in Windows \cup {None}
        /\ win' # None => /\ win # None /\ win'.n = win.n /\ win'.dec = win.dec
                          /\ win'.vouched \subseteq win.vouched
                          /\ {e \in Entry : win'.dec[e] # None} \subseteq win'.entries
        /\ Places' /\ DecidedOnly' /\ RunKnown' /\ RowsKnown'
    BY <1>2, <2>1, Unvouched
  <2>3. win' # None /\ win'.n # n => c.e \notin win'.vouched
    BY <1>5, <1>6, <2>2 DEF Doubts, Windows
  <2>4. queue' \in [Window -> Seq(Keeps)] /\ OneOut' /\ KeysKnown'
    BY <1>1, <1>6, <2>2, <2>3, MarkKnown
  <2>5. kept' \subseteq Entry
    BY <1>4, <1>6 DEF Remembered, TypeOK
  <2>6. TypeOK'
    BY <1>2, <1>3, <2>2, <2>4, <2>5 DEF TypeOK
  <2> QED
    BY <2>2, <2>4, <2>6
<1>7. CASE /\ queue' = [queue EXCEPT ![n][1].at = "failed"]
           /\ UNCHANGED <<kept, win>>
  <2>1. /\ win' \in Windows \cup {None}
        /\ win' # None => {e \in Entry : win'.dec[e] # None} \subseteq win'.entries
        /\ Places' /\ DecidedOnly' /\ RunKnown' /\ RowsKnown'
    BY <1>2, <1>7, Unvouched
  <2>2. queue' \in [Window -> Seq(Keeps)] /\ OneOut' /\ KeysKnown'
    BY <1>1, <1>7, MarkKnown
  <2>3. TypeOK'
    BY <1>2, <1>3, <1>7, <2>1, <2>2 DEF TypeOK
  <2> QED
    BY <2>1, <2>2, <2>3
<1> QED
  BY <1>1, <1>6, <1>7 DEF KeepHandled

LEMMA KeepLostStep ==
  ASSUME IInv, NEW n \in Window, NEW i \in DOMAIN queue[n], KeepLost(n, i)
  PROVE  IInv'
<1> USE DEF IInv
<1> DEFINE c == queue[n][1]
<1>1. /\ i = 1 /\ 1 \in DOMAIN queue[n] /\ c \in Keeps
      /\ queue' = [queue EXCEPT ![n][1].at = "failed"]
  BY FirstOut DEF KeepLost
<1>2. UNCHANGED <<disk, kept, scan, offers, op, dialog, view, signedIn, ask, win,
                  wins, run, keys>>
  BY DEF KeepLost, server, pages
<1>3. fails' \in 0..MaxFails
  BY ReviewAssumption DEF KeepLost, TypeOK
<1>4. ghosts' \subseteq Ghosts
  <2>1. [call |-> c.call, scan |-> c.scan, e |-> c.e] \in Ghosts
    BY <1>1 DEF Keeps, Ghosts
  <2>2. ghosts' \subseteq ghosts \cup {[call |-> c.call, scan |-> c.scan, e |-> c.e]}
    BY <1>1 DEF KeepLost
  <2> QED
    BY <2>1, <2>2 DEF TypeOK
<1>5. Places' /\ DecidedOnly' /\ RunKnown' /\ RowsKnown'
  BY <1>2, Unvouched
<1>6. queue' \in [Window -> Seq(Keeps)] /\ OneOut' /\ KeysKnown'
  BY <1>1, <1>2, MarkKnown
<1>7. TypeOK'
  BY <1>2, <1>3, <1>4, <1>6 DEF TypeOK
<1> QED
  BY <1>5, <1>6, <1>7


LEMMA KeepReplyStep ==
  ASSUME IInv, NEW n \in Window, NEW i \in DOMAIN queue[n], KeepReply(n, i)
  PROVE  IInv'
<1> USE DEF IInv
<1> DEFINE q == queue[n]
<1> DEFINE p == RemoveAt(q, 1)
<1>1. /\ i = 1 /\ 1 \in DOMAIN q /\ q \in Seq(Keeps) /\ q[1].at # "sent"
      /\ queue' = [queue EXCEPT ![n] = p]
      /\ win' = IF q[1].at = "failed" /\ win # None /\ win.n = n
                THEN [win EXCEPT !.vouched = @ \ {q[1].e}] ELSE win
  <2>1. i \in InFlight(q)
    BY DEF KeepReply
  <2>2. i = 1 /\ 1 \in DOMAIN q /\ q \in Seq(Keeps)
    BY <2>1, FirstOut
  <2> QED
    BY <2>2 DEF KeepReply
<1>2. UNCHANGED <<disk, kept, scan, offers, op, dialog, view, signedIn, ask, wins,
                  run, ghosts, keys, fails>>
  BY DEF KeepReply, server, pages
<1>3. /\ p \in Seq(Keeps) /\ Len(p) = Len(q) - 1
      /\ \A k \in 1..(Len(q) - 1) : p[k] = q[k + 1]
  <2> HIDE DEF q
  <2> QED
    BY <1>1, Shifted
<1>4. /\ queue' \in [Window -> Seq(Keeps)] /\ queue'[n] = p
      /\ \A m \in Window : m # n => queue'[m] = queue[m]
  <2> HIDE DEF p
  <2> QED
    BY <1>1, <1>3 DEF TypeOK
<1>5. \/ win' = win
      \/ win # None /\ \E S : win' = [win EXCEPT !.vouched = @ \ S]
  BY <1>1
<1>6. /\ win' \in Windows \cup {None}
      /\ win' # None => /\ win # None /\ win'.n = win.n /\ win'.dec = win.dec
                        /\ win'.vouched \subseteq win.vouched
                        /\ {e \in Entry : win'.dec[e] # None} \subseteq win'.entries
      /\ Places' /\ DecidedOnly' /\ RunKnown' /\ RowsKnown'
  BY <1>2, <1>5, Unvouched
<1>7. TypeOK'
  BY <1>2, <1>4, <1>6 DEF TypeOK
<1>8. /\ DOMAIN q = 1..Len(q) /\ DOMAIN p = 1..Len(p) /\ Len(q) \in Nat /\ Len(p) \in Nat
      /\ \A k \in DOMAIN p : p[k] = q[k + 1] /\ k + 1 \in DOMAIN q
  <2> HIDE DEF p, q
  <2>1. DOMAIN q = 1..Len(q) /\ Len(q) \in Nat
    BY <1>1
  <2>2. DOMAIN p = 1..Len(p) /\ Len(p) \in Nat
    BY <1>3
  <2> QED
    BY <1>3, <2>1, <2>2
<1>9. OneOut'
  <2> SUFFICES ASSUME NEW m \in Window, NEW k \in DOMAIN queue'[m], k > 1
               PROVE  queue'[m][k].at = "sent"
    BY DEF OneOut
  <2>1. CASE m = n
    <3>1. \A l \in DOMAIN q : l > 1 => q[l].at = "sent"
      BY DEF OneOut
    <3> HIDE DEF p, q
    <3> QED
      BY <1>4, <1>8, <2>1, <3>1
  <2>2. CASE m # n
    BY <1>4, <2>2 DEF OneOut
  <2> QED
    BY <2>1, <2>2
<1>10. KeysKnown'
  <2> SUFFICES ASSUME win' # None, NEW e \in win'.vouched
               PROVE  \/ Untold(queue'[win'.n], e)
                      \/ InLine(queue'[win'.n], e, win'.dec[e], kept')
    BY DEF KeysKnown
  <2>1. /\ e \in win.vouched /\ win # None /\ e \in Entry /\ win.n \in Window
        /\ win'.n = win.n /\ win'.dec = win.dec /\ win \in Windows
    BY <1>6 DEF TypeOK, Windows
  <2>2. \/ Untold(queue[win.n], e)
        \/ InLine(queue[win.n], e, win.dec[e], kept)
    BY <2>1 DEF KeysKnown
  <2>3. CASE win.n # n
    <3>1. queue'[win.n] = queue[win.n]
      BY <1>4, <2>1, <2>3
    <3> QED
      BY <1>2, <2>1, <2>2, <3>1
  <2>4. CASE win.n = n
    <3> DEFINE d == win.dec[e]
    <3>1. Untold(q, e) \/ InLine(q, e, d, kept)
      BY <2>2, <2>4
    <3>2. q[1].at = "failed" => e # q[1].e
      BY <1>1, <2>1, <2>4 DEF Windows
    <3> HIDE DEF p, q, d
    <3>3. InLine(q, e, d, kept)
      BY <3>1, <3>2 DEF Untold
    <3>4. \A k \in DOMAIN p :
            /\ p[k].e = e /\ p[k].at = "sent"
            /\ \A j \in DOMAIN p : j > k => p[j].e # e
            => (p[k].call = "keep" <=> d = "keep")
      <4> SUFFICES ASSUME NEW k \in DOMAIN p, p[k].e = e, p[k].at = "sent",
                          \A j \in DOMAIN p : j > k => p[j].e # e
                   PROVE  p[k].call = "keep" <=> d = "keep"
        OBVIOUS
      <4>1. k + 1 \in DOMAIN q /\ q[k + 1] = p[k]
        BY <1>8
      <4>2. ASSUME NEW j \in DOMAIN q, j > k + 1
            PROVE  q[j].e # e
        <5>1. j - 1 \in DOMAIN p /\ j - 1 > k /\ (j - 1) + 1 = j
          BY <1>3, <1>8, <4>2
        <5> QED
          BY <1>8, <5>1
      <4> QED
        BY <3>3, <4>1, <4>2 DEF InLine
    <3>5. (\A k \in DOMAIN p : p[k].e = e => p[k].at # "sent")
            => (e \in kept <=> d = "keep")
      <4> SUFFICES ASSUME \A k \in DOMAIN p : p[k].e = e => p[k].at # "sent"
                   PROVE  e \in kept <=> d = "keep"
        OBVIOUS
      <4>1. ASSUME NEW j \in DOMAIN q, q[j].e = e
            PROVE  q[j].at # "sent"
        <5>1. CASE j = 1
          BY <1>1, <5>1
        <5>2. CASE j # 1
          <6>1. j - 1 \in DOMAIN p /\ (j - 1) + 1 = j
            BY <1>3, <1>8, <5>2
          <6> QED
            BY <1>8, <4>1, <6>1
        <5> QED
          BY <5>1, <5>2
      <4> QED
        BY <3>3, <4>1 DEF InLine
    <3>6. InLine(p, e, d, kept)
      BY <3>4, <3>5 DEF InLine
    <3> QED
      BY <1>2, <1>4, <2>1, <2>4, <3>6 DEF d
  <2> QED
    BY <2>3, <2>4
<1> QED
  BY <1>6, <1>7, <1>9, <1>10

\* A key: the call it sends, if any, is the last about its entry.
LEMMA DecideStep ==
  ASSUME IInv, NEW e \in Entry, NEW d \in Decision, Decide(e, d)
  PROVE  IInv'
<1> USE DEF IInv
<1> DEFINE q == queue[win.n]
<1> DEFINE calls == {c \in {"keep", "unkeep"} :
                       IF c = "keep" THEN d = "keep" ELSE win.dec[e] = "keep"}
<1> DEFINE Sent(c) == [call |-> c, scan |-> win.scan, e |-> e, at |-> "sent"]
<1>1. /\ win # None /\ win \in Windows /\ win.phase = "review"
      /\ e \in win.entries /\ win.dec[e] # d
      /\ UNCHANGED <<disk, kept, scan, offers, op, dialog, view, signedIn, ask,
                     wins, run, ghosts, fails>>
  BY DEF Decide, Decides, In, TypeOK, server, pages
<1>2. /\ queue' = [queue EXCEPT ![win.n] = @ \o SetToSeq({Sent(c) : c \in calls})]
      /\ win' = [win EXCEPT !.dec[e] = d,
                            !.vouched = IF calls = {} THEN @ ELSE @ \cup {e}]
  BY DEF Decide
<1>3. keys' \in 0..MaxDecisions
  BY ReviewAssumption DEF Decide, TypeOK
<1> DEFINE dec == [win.dec EXCEPT ![e] = d]
<1> DEFINE vouched == IF calls = {} THEN win.vouched ELSE win.vouched \cup {e}
<1>4. dec \in [Entry -> Decision] /\ vouched \in SUBSET Entry
  BY <1>1 DEF Windows
<1>5. win' = [win EXCEPT !.dec = dec, !.vouched = vouched]
  BY <1>1, <1>2 DEF Windows
<1>6. \A i \in Entry : dec[i] = IF i = e THEN d ELSE win.dec[i]
  BY <1>1 DEF Windows
<1>7. /\ win' \in Windows
      /\ win'.n = win.n /\ win'.entries = win.entries /\ win'.dec = dec
      /\ win'.phase = "review" /\ win'.out = win.out /\ win'.acked = win.acked
      /\ win'.sent = win.sent /\ win'.vouched = vouched
  <2> HIDE DEF dec, vouched
  <2> QED
    BY <1>1, <1>4, <1>5 DEF Windows
<1>8. win.n \in Window /\ q \in Seq(Keeps) /\ win.scan \in 1..MaxScans
  BY <1>1 DEF Windows, TypeOK
<1>9. PICK s \in Seq(Keeps) :
        /\ queue' = [queue EXCEPT ![win.n] = q \o s]
        /\ \/ s = <<>> /\ calls = {} /\ d # "keep" /\ win.dec[e] # "keep"
           \/ \E c \in {"keep", "unkeep"} :
                s = <<Sent(c)>> /\ (c = "keep" <=> d = "keep") /\ calls # {}
  <2>1. CASE d = "keep"
    <3>1. calls = {"keep"}
      BY <1>1, <2>1
    <3>2. {Sent(c) : c \in calls} = {Sent("keep")}
      BY <3>1
    <3>3. SetToSeq({Sent(c) : c \in calls}) = <<Sent("keep")>>
      BY <3>2, OneElement
    <3>4. Sent("keep") \in Keeps
      BY <1>8 DEF Keeps
    <3>5. <<Sent("keep")>> \in Seq(Keeps)
      BY <3>4
    <3> HIDE DEF calls, Sent
    <3> QED
      BY <1>2, <2>1, <3>1, <3>3, <3>5
  <2>2. CASE win.dec[e] = "keep"
    <3>1. calls = {"unkeep"} /\ d # "keep"
      BY <1>1, <2>2
    <3>2. {Sent(c) : c \in calls} = {Sent("unkeep")}
      BY <3>1
    <3>3. SetToSeq({Sent(c) : c \in calls}) = <<Sent("unkeep")>>
      BY <3>2, OneElement
    <3>4. Sent("unkeep") \in Keeps
      BY <1>8 DEF Keeps
    <3>5. <<Sent("unkeep")>> \in Seq(Keeps)
      BY <3>4
    <3> HIDE DEF calls, Sent
    <3> QED
      BY <1>2, <3>1, <3>3, <3>5
  <2>3. CASE d # "keep" /\ win.dec[e] # "keep"
    <3>1. calls = {}
      BY <2>3
    <3>2. {Sent(c) : c \in calls} = {}
      BY <3>1
    <3>3. SetToSeq({Sent(c) : c \in calls}) = <<>>
      BY <3>2, NoElement
    <3>4. <<>> \in Seq(Keeps)
      OBVIOUS
    <3> HIDE DEF calls, Sent
    <3> QED
      BY <1>2, <2>3, <3>1, <3>3, <3>4
  <2> QED
    BY <2>1, <2>2, <2>3
<1> HIDE DEF calls, dec
<1> DEFINE p == q \o s
<1>10. /\ p \in Seq(Keeps) /\ queue' = [queue EXCEPT ![win.n] = p]
       /\ Len(p) = Len(q) + Len(s) /\ DOMAIN p = 1..Len(p) /\ DOMAIN q = 1..Len(q)
       /\ Len(q) \in Nat /\ Len(s) \in {0, 1}
       /\ \A i \in DOMAIN q : i \in DOMAIN p /\ p[i] = q[i]
       /\ Len(s) = 1 => p[Len(q) + 1] = s[1]
  <2>1. Len(s) \in {0, 1}
    BY <1>9
  <2> HIDE DEF q
  <2> QED
    BY <1>8, <1>9, <2>1
<1> HIDE DEF p
<1>11. /\ queue' \in [Window -> Seq(Keeps)] /\ queue'[win.n] = p
       /\ \A m \in Window : m # win.n => queue'[m] = queue[m]
  BY <1>8, <1>10 DEF TypeOK
<1>12. TypeOK'
  <2>1. {i \in Entry : dec[i] # None} \subseteq win.entries
    BY <1>1, <1>6 DEF TypeOK
  <2> HIDE DEF vouched
  <2> QED
    BY <1>1, <1>3, <1>7, <1>11, <2>1 DEF TypeOK
<1>13. Places'
  BY <1>1, <1>7, PlacesKept
<1>14. DecidedOnly'
  BY <1>1, <1>7 DEF DecidedOnly
<1>15. RunKnown'
  BY <1>1 DEF RunKnown
<1>16. RowsKnown'
  <2>1. \A i \in Entry : win.out[i] = None
    BY <1>1 DEF RowsKnown
  <2>2. win'.entries \ Gone(win') = view.entries \ win.acked
    BY <1>1, <1>7 DEF RowsKnown, Gone
  <2> HIDE DEF vouched
  <2> QED
    BY <1>1, <1>7, <2>1, <2>2, ReviewAssumption DEF RowsKnown
<1>17. CASE s = <<>> /\ calls = {} /\ d # "keep" /\ win.dec[e] # "keep"
  <2>1. queue' = queue
    <3>1. p = q
      BY <1>8, <1>17 DEF p
    <3> QED
      BY <1>8, <1>10, <3>1 DEF TypeOK
  <2>2. OneOut'
    BY <2>1 DEF OneOut
  <2>3. vouched = win.vouched /\ win.vouched \subseteq Entry
    BY <1>1, <1>17 DEF Windows
  <2>4. \A i \in Entry : dec[i] = "keep" <=> win.dec[i] = "keep"
    BY <1>6, <1>17
  <2>5. \A i \in Entry : InLine(queue[win.n], i, win.dec[i], kept)
                         => InLine(queue[win.n], i, dec[i], kept)
    BY <2>4 DEF InLine
  <2>6. KeysKnown'
    <3> HIDE DEF vouched, q
    <3> QED
      BY <1>1, <1>7, <2>1, <2>3, <2>5 DEF KeysKnown
  <2> QED
    BY <1>12, <1>13, <1>14, <1>15, <1>16, <2>2, <2>6
<1>18. CASE \E c \in {"keep", "unkeep"} :
              s = <<Sent(c)>> /\ (c = "keep" <=> d = "keep") /\ calls # {}
  <2>1. PICK c \in {"keep", "unkeep"} : s = <<Sent(c)>> /\ (c = "keep" <=> d = "keep")
    BY <1>18
  <2>2. /\ Len(s) = 1 /\ Len(p) = Len(q) + 1
        /\ p[Len(p)].call = c /\ p[Len(p)].e = e /\ p[Len(p)].at = "sent"
        /\ \A k \in DOMAIN p : k \in DOMAIN q \/ k = Len(p)
    <3>1. s[1] = Sent(c) /\ Len(s) = 1
      BY <2>1
    <3> HIDE DEF q
    <3> QED
      BY <1>10, <3>1
  <2>3. OneOut'
    <3> SUFFICES ASSUME NEW m \in Window, NEW k \in DOMAIN queue'[m], k > 1
                 PROVE  queue'[m][k].at = "sent"
      BY DEF OneOut
    <3>1. CASE m = win.n
      <4>1. \A l \in DOMAIN q : l > 1 => q[l].at = "sent"
        BY <1>8 DEF OneOut
      <4> HIDE DEF q
      <4> QED
        BY <1>10, <1>11, <2>2, <3>1, <4>1
    <3>2. CASE m # win.n
      BY <1>11, <3>2 DEF OneOut
    <3> QED
      BY <3>1, <3>2
  <2>4. ASSUME NEW i \in vouched
        PROVE  Untold(p, i) \/ InLine(p, i, dec[i], kept)
    <3>0. i \in Entry
      BY <1>4
    <3>1. CASE i = e
      <4>1. dec[i] = "keep" <=> c = "keep"
        BY <1>6, <2>1, <3>1
      <4>2. InLine(p, i, dec[i], kept)
        <5>1. Len(p) \in DOMAIN p /\ \A k \in DOMAIN p : k # Len(p) => Len(p) > k
          BY <1>10, <2>2
        <5> QED
          BY <2>2, <3>1, <4>1, <5>1 DEF InLine
      <4> QED
        BY <4>2
    <3>2. CASE i # e
      <4>1. i \in win.vouched
        BY <3>2
      <4>2. Untold(q, i) \/ InLine(q, i, win.dec[i], kept)
        BY <1>1, <4>1 DEF KeysKnown
      <4>3. dec[i] = win.dec[i]
        BY <1>6, <3>0, <3>2
      <4>4. \A k \in DOMAIN p : p[k].e = i => k \in DOMAIN q
        BY <2>2, <3>2
      <4> HIDE DEF q
      <4>5. Untold(q, i) => Untold(p, i)
        <5> SUFFICES ASSUME Untold(q, i) PROVE Untold(p, i)
          OBVIOUS
        <5>1. 1 \in DOMAIN q
          BY <1>8, <1>10 DEF Untold
        <5>2. 1 \in DOMAIN p /\ p[1] = q[1] /\ p # <<>>
          BY <1>10, <5>1
        <5> QED
          BY <5>2 DEF Untold
      <4>6. InLine(q, i, win.dec[i], kept) => InLine(p, i, dec[i], kept)
        BY <1>10, <4>3, <4>4 DEF InLine
      <4> QED
        BY <4>2, <4>5, <4>6
    <3> QED
      BY <3>1, <3>2
  <2>5. KeysKnown'
    <3> HIDE DEF vouched, q
    <3> QED
      BY <1>1, <1>7, <1>11, <2>4 DEF KeysKnown
  <2> QED
    BY <1>12, <1>13, <1>14, <1>15, <1>16, <2>3, <2>5
<1> QED
  BY <1>9, <1>17, <1>18


-----------------------------------------------------------------------------
LEMMA InvNext == IInv /\ [Next]_vars => IInv'
<1> SUFFICES ASSUME IInv, [Next]_vars PROVE IInv'
  OBVIOUS
<1>1. CASE UNCHANGED vars
  <2>1. UNCHANGED <<disk, kept, view, win, run, queue>>
    BY <1>1 DEF vars
  <2>2. DecidedOnly' /\ RunKnown' /\ RowsKnown' /\ OneOut' /\ KeysKnown'
    BY <2>1, WindowKept
  <2>3. TypeOK' /\ Places'
    BY <1>1 DEF vars, IInv, TypeOK, Places
  <2> QED
    BY <2>2, <2>3 DEF IInv
<1>2. CASE \E n \in Window : Calls(n)
  BY <1>2, DeleteHandledStep, DeleteReplyStep, DeleteLostStep, KeepHandledStep,
     KeepReplyStep, KeepLostStep DEF Calls
<1>3. CASE \E e \in Entry, d \in Decision : Decide(e, d)
  BY <1>3, DecideStep
<1>4. CASE \/ ScanBegins \/ OtherScanBegins \/ ScanReadsKept \/ ScanEnds \/ ScanFails
           \/ OpenSettings \/ Leave \/ SignOut \/ SignIn
           \/ Scan \/ StopScan \/ ScanDone \/ ScanClean
           \/ Confirm \/ Back \/ Go \/ Stop \/ Dismiss \/ CloseReview
           \/ (\E g \in ghosts : Ghost(g))
           \/ ForgetAll
  BY <1>4, ScanStep, LeavingStep, SettingsStep, ReviewStep, PhaseStep, GoStep,
     DismissStep, GhostStep
<1> QED
  BY <1>1, <1>2, <1>3, <1>4 DEF Next

\* The inductive invariant holds: types, who is on the screen, what is being
\* deleted and by whom, and what the queue of a window still has to say.
THEOREM Invariance == Spec => []IInv
<1> QED
  BY InvInit, InvNext, PTL DEF Spec

\* Whatever is pressed, stopped, answered late or lost, a run asks only for
\* what is in the list that was confirmed and still decided so, and never
\* again for what was deleted (OrphanReview.run).
THEOREM ConsistentHolds == Spec => []Consistent
<1>1. IInv => Consistent
  BY DEF IInv, Consistent
<1> QED
  BY <1>1, Invariance, PTL

\* A row is shown as deleted only if the backend did it, the tally is of what
\* was asked for, and back in the review the list is what the scan found but
\* for what was deleted (OrphanReview.run, dismiss).
THEOREM RowsTrueHolds == Spec => []RowsTrue
<1>1. IInv => RowsTrue
  <2> SUFFICES ASSUME IInv, win # None PROVE RowsTrue
    BY DEF RowsTrue
  <2>1. win \in Windows
    BY DEF IInv, TypeOK
  <2>2. \A e \in Entry : win.out[e] = "deleted" => e \notin disk
    BY DEF IInv, RowsKnown
  <2>3. win.phase = "done" => {e \in Entry : win.out[e] # None} = win.sent
    <3> SUFFICES ASSUME win.phase = "done"
                 PROVE  {e \in Entry : win.out[e] # None} = win.sent
      OBVIOUS
    <3>1. \A e \in Entry : win.out[e] # None <=> e \in win.sent
      BY DEF IInv, RowsKnown
    <3> QED
      BY <2>1, <3>1 DEF Windows
  <2>4. win.phase = "review" => win.entries = view.entries \ win.acked
    BY ReviewAssumption DEF IInv, RowsKnown, Gone
  <2> QED
    BY <2>2, <2>3, <2>4 DEF RowsTrue
<1> QED
  BY <1>1, Invariance, PTL

\* However keys, answers, failures, lost calls and other tabs interleave: when
\* the calls of a window are answered, what is remembered of an entry decided
\* in it is its last decision (OrphanReview.decide, its queue).
THEOREM LastKeyWinsHolds == Spec => []LastKeyWins
<1>1. IInv => LastKeyWins
  <2> SUFFICES ASSUME IInv, win # None, queue[win.n] = <<>>, NEW e \in win.vouched
               PROVE  e \in kept <=> win.dec[e] = "keep"
    BY DEF LastKeyWins
  <2>1. InLine(queue[win.n], e, win.dec[e], kept)
    BY DEF IInv, KeysKnown, Untold
  <2> QED
    BY <2>1 DEF InLine
<1> QED
  BY <1>1, Invariance, PTL

\* A scan that ends opens its review from Settings, signed in, and never in
\* the place of another dialog or of the sign-in screen (Orphans).
THEOREM NoSurpriseHolds == Spec => NoSurprise
<1>1. IInv /\ [Next]_vars
        => [dialog' = "review" /\ dialog # "review" => dialog = "settings" /\ signedIn]_vars
  <2> SUFFICES ASSUME IInv, Next, dialog' = "review", dialog # "review"
               PROVE  dialog = "settings" /\ signedIn
    OBVIOUS
  <2>1. CASE ScanDone
    BY <2>1 DEF ScanDone, IInv, Places
  <2>2. CASE Leave \/ SignOut \/ SignIn \/ OpenSettings \/ Scan \/ StopScan \/ CloseReview
    BY <2>2 DEF Leave, SignOut, SignIn, OpenSettings, Scan, StopScan, CloseReview
  <2>3. CASE dialog' = dialog
    BY <2>3
  <2> QED
    BY <2>1, <2>2, <2>3
    DEF Next, Calls, ScanBegins, OtherScanBegins, ScanReadsKept, ScanEnds, ScanFails,
        ScanClean, Decide, Confirm, Back, Go, Stop, Dismiss, DeleteHandled, DeleteReply,
        DeleteLost, KeepHandled, KeepReply, KeepLost, Ghost, ForgetAll, pages
<1> QED
  BY <1>1, Invariance, PTL DEF Spec, NoSurprise

=============================================================================

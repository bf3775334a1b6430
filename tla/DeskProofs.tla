----------------------------- MODULE DeskProofs -----------------------------
(***************************************************************************)
(* Proofs about Desk, for any torrents, folders, labels, sources, filters  *)
(* and calls: the sidebar counts what the list shows, nothing is added     *)
(* twice, a transport is always left, and labels change as they were       *)
(* switched.  And about TrackerHealth: an outage that was found stays      *)
(* found.                                                                  *)
(***************************************************************************)
EXTENDS Desk, TrackerHealth, SequenceTheorems, FiniteSetTheorems,
        WellFoundedInduction, TLAPS

\* No source comes twice.
Distinct(s) == \A i, j \in DOMAIN s : s[i] = s[j] => i = j

AddDialogs == [kind : {"add"}, sources : Seq(Token), text : Seq(Token),
               reading : SUBSET Token, win : 1..windows]
Jobs       == [win : 1..windows, todo : Seq(Token) \ {<<>>}, any : BOOLEAN]

\* What is in the dialog: listed, in the box, or being read.
Held == ToSet(dialog.sources) \cup ToSet(dialog.text) \cup dialog.reading

\* Dialogs of the kinds that keep what the user did have what they keep.
DialogKnown ==
    /\ windows \in Nat /\ "kind" \in DOMAIN dialog
    /\ dialog.kind = "labels" => {"ids", "sel", "toggled", "fresh"} \subseteq DOMAIN dialog
    /\ Adding => dialog \in AddDialogs

\* What is to be added is in one submission, once, and not added yet.
JobsKnown ==
    /\ added \in [Token -> 0..1]
    /\ jobs \subseteq Jobs
    /\ \A j \in jobs : /\ Distinct(j.todo)
                       /\ \A s \in ToSet(j.todo) : added[s] = 0
    /\ \A j, k \in jobs : j # k => ToSet(j.todo) \cap ToSet(k.todo) = {}

\* What is in the dialog is there once, no submission of another dialog has
\* it, and if it is added already then the dialog is about to be closed.
HeldKnown ==
    Adding =>
        /\ Distinct(dialog.sources) /\ Distinct(dialog.text)
        /\ ToSet(dialog.sources) \cap ToSet(dialog.text) = {}
        /\ (ToSet(dialog.sources) \cup ToSet(dialog.text)) \cap dialog.reading = {}
        /\ \A j \in jobs : j.win # dialog.win => ToSet(j.todo) \cap Held = {}
        /\ \A s \in Held :
             added[s] = 0 \/ \E j \in jobs : j.win = dialog.win /\ j.any

\* Nothing is added twice, whatever is dropped, typed, submitted and failed.
AddInv == DialogKnown /\ JobsKnown /\ HeldKnown

\* A transport is left, and no call on its way takes the last.
TransportInv ==
    /\ "transports" \in DOMAIN session /\ TransportsKept
    /\ \A w \in writes : /\ w.op = "session"
                         /\ "transports" \in DOMAIN w.patch
                         => w.patch.transports # {}

\* As long as no poll brought other torrents, what the labels dialog shows
\* differs from what it opened with in what was switched.
LabelInv ==
    dialog.kind = "labels" /\ dialog.fresh =>
        SymDiff(dialog.sel, Initial(dialog.ids)) \subseteq dialog.toggled

-----------------------------------------------------------------------------
(* What the steps leave alone, and the calls that they send.               *)

\* The list and the menus send no call from a dialog, and none that edits
\* the session or labels.
LEMMA ListStep ==
  ASSUME ListNext
  PROVE  /\ UNCHANGED <<session, view, dialog, jobs, added, windows>>
         /\ \A w \in writes' \ writes : Free /\ w.op \in {"start", "stop", "touch"}
<1> DEFINE Still ==
      /\ UNCHANGED <<session, view, dialog, jobs, added, windows>>
      /\ \A w \in writes' \ writes : Free /\ w.op \in {"start", "stop", "touch"}
<1>1. ASSUME NEW f \in Filters, Pick(f) PROVE Still
  BY <1>1 DEF Pick, Daemon, Working, Counts
<1>2. ASSUME \/ \E q \in Search : SearchFor(q)
             \/ \E a \in Adv : SetAdv(a)
             \/ \E k \in Sorts : SortBy(k)
       PROVE Still
  <2>1. PICK n : Narrow(n)
    BY <1>2 DEF SearchFor, SetAdv, SortBy
  <2> QED
    BY <2>1 DEF Narrow, Daemon, Picked, Working, Counts
<1>3. ASSUME \/ \E i \in Id : ToggleRow(i) \/ RangeRow(i)
             \/ SelectAllVisible \/ ClearSelection
       PROVE Still
  <2>1. PICK ids : Select(ids)
    BY <1>3 DEF ToggleRow, RangeRow, SelectAllVisible, ClearSelection
  <2> QED
    BY <2>1 DEF Select, Daemon, Working, Counts
<1>4. ASSUME \E i \in Id : FocusRow(i) PROVE Still
  BY <1>4 DEF FocusRow, Daemon, Working, Counts
<1>5. ASSUME \/ \E i \in Id : OpenRowMenu(i)
             \/ OpenSelMenu \/ OpenViewMenu
       PROVE Still
  <2>1. PICK kind, ids : OpenMenu(kind, ids)
    BY <1>5 DEF OpenRowMenu, OpenSelMenu, OpenViewMenu
  <2> QED
    BY <2>1 DEF OpenMenu, Daemon, Working, Counts
<1>6. ASSUME CloseMenu PROVE Still
  BY <1>6 DEF CloseMenu, Daemon, Working, Counts
<1>7. ASSUME TorrentMenu \/ ViewMenu \/ BarActs \/ KeyActs PROVE Still
  <2>1. PICK op, ids : op \in {"start", "stop", "touch"} /\ Send(Bulk(op, ids))
    BY <1>7 DEF TorrentMenu, ViewMenu, BarActs, KeyActs, ResumeOrPause
  <2>2. Free /\ dialog' = dialog
    BY <1>7 DEF TorrentMenu, ViewMenu, BarActs, KeyActs
  <2> QED
    BY <2>1, <2>2 DEF Send, Bulk, Daemon
<1> HIDE DEF Still
<1> SUFFICES Still
  BY DEF Still
<1>8. CASE \E i \in Id : ToggleRow(i) \/ RangeRow(i) \/ FocusRow(i) \/ OpenRowMenu(i)
  BY <1>8, <1>3, <1>4, <1>5
<1> QED
  BY <1>1, <1>2, <1>3, <1>5, <1>6, <1>7, <1>8 DEF ListNext

\* The call that saves the labels of those torrents that get labels n.
Saved(n) ==
    [op |-> "labels", labels |-> n,
     ids |-> {i \in {i \in dialog.ids : NewLabels(i) # LabelsOf(i)} : NewLabels(i) = n}]

\* What a dialog sends.
SentBy(w) ==
    \/ dialog.kind # "labels" /\ w.op \in {"touch", "limit", "trackers", "location"}
    \/ dialog.kind # "labels" /\ w.op = "session"
         /\ ("transports" \in DOMAIN w.patch => w.patch.transports # {})
    \/ dialog.kind = "labels" /\ \E n : w = Saved(n)

\* The dialogs open and close, and change, and send their calls.
LEMMA DialogWrites ==
  ASSUME DialogNext
  PROVE  /\ session' = session
         /\ view' = view \/ ConfirmRemove
         /\ \A w \in writes' \ writes : SentBy(w)
<1> DEFINE Quiet == UNCHANGED <<session, view, writes>>
<1>1. CASE Cancel
  BY <1>1 DEF Cancel, Daemon, Working
<1>2. ASSUME NEW d, Show(d) PROVE Quiet
  BY <1>2 DEF Show, Daemon
<1>3. ASSUME NEW d, Edit(d) PROVE Quiet
  BY <1>3 DEF Edit, Daemon, Working
<1>4. CASE \/ OpenLabels \/ OpenLocation \/ OpenRename \/ OpenRemove
           \/ OpenLimits \/ OpenTrackers \/ OpenAdd \/ OpenSettings
  <2>1. PICK d : Show(d)
    BY <1>4 DEF OpenLabels, OpenLocation, OpenRename, OpenRemove, OpenLimits,
                OpenTrackers, OpenAdd, OpenSettings, Open
  <2> QED
    BY <2>1, <1>2
<1>5. CASE \/ \E l \in Label : ToggleLabel(l)
           \/ \E list \in SUBSET Url : TypeTrackers(list)
           \/ AddFiles \/ TypeLink \/ AddText
           \/ \E k \in 1..Cardinality(Token) : RemoveSource(k)
  <2>1. PICK d : Edit(d)
    BY <1>5 DEF ToggleLabel, TypeTrackers, AddFiles, TypeLink, AddText, RemoveSource
  <2> QED
    BY <2>1, <1>3
<1>6. CASE Drop
  <2>1. PICK s \in Unused :
          IF Adding THEN Edit([dialog EXCEPT !.reading = @ \cup {s}])
          ELSE Show(NewAdd(<<>>, {s})) /\ UNCHANGED reads
    BY <1>6 DEF Drop
  <2> QED
    BY <2>1, <1>2, <1>3
<1>7. CASE SaveLabels
  <2> DEFINE changed == {i \in dialog.ids : NewLabels(i) # LabelsOf(i)}
  <2>1. dialog.kind = "labels"
    BY <1>7 DEF SaveLabels
  <2>2. writes' = writes \cup {Saved(n) : n \in {NewLabels(i) : i \in changed}}
    BY <1>7 DEF SaveLabels, Save, Send, Saved
  <2>3. UNCHANGED <<session, view>>
    BY <1>7 DEF SaveLabels, Save, Send, Daemon
  <2> QED
    BY <2>1, <2>2, <2>3 DEF SentBy
<1>8. CASE Rename \/ SaveTrackers \/ \E d \in Dir : Move(d)
  BY <1>8 DEF Rename, SaveTrackers, Move, Save, Send, Bulk, Daemon, SentBy
<1>9. CASE \E v \in 0..1 : SetLimit(v)
  BY <1>9 DEF SetLimit, Send, Daemon, SentBy
<1>10. CASE ConfirmRemove
  BY <1>10 DEF ConfirmRemove, Working
<1>11. CASE \E w \in reads : Loaded(w) \/ LoadFails(w)
  <2>1. UNCHANGED <<session, view, writes>>
    BY <1>11 DEF Loaded, LoadFails, Daemon
  <2> QED
    BY <2>1
<1>12. CASE Submit
  BY <1>12 DEF Submit, Daemon
<1>13. CASE \E j \in jobs : Answered(j)
  <2>1. UNCHANGED <<session, view, writes>>
    BY <1>13 DEF Answered, Daemon
  <2> QED
    BY <2>1
<1>14. ASSUME NEW p, "transports" \in DOMAIN p => p.transports # {},
              dialog.kind # "labels",
              Send({[op |-> "session", patch |-> p]})
       PROVE  /\ UNCHANGED <<session, view>>
              /\ \A w \in writes' \ writes : SentBy(w)
  BY <1>14 DEF Send, Daemon, SentBy
<1>15. CASE Turtle
  BY <1>15, <1>14 DEF Turtle, Free
<1>16. CASE \E v \in 0..1 : SetKey(v) \/ SetTime(v)
  BY <1>16, <1>14 DEF SetKey, SetTime, Patch
<1>17. CASE \E d \in Day : SetDay(d)
  BY <1>17, <1>14 DEF SetDay, Patch
<1>18. CASE \E p \in Transport, on \in BOOLEAN : SetTransport(p, on)
  <2>1. PICK p \in Transport, on \in BOOLEAN : SetTransport(p, on)
    BY <1>18
  <2> DEFINE list == IF on THEN Transports \cup {p} ELSE Transports \ {p}
  <2>2. Transports # {} /\ Transports # {p}
    BY <2>1 DEF SetTransport, Transports, Transport
  <2>3. list # {}
    BY <2>2
  <2>4. dialog.kind # "labels" /\ Send({[op |-> "session", patch |-> [transports |-> list]]})
    BY <2>1 DEF SetTransport, Patch
  <2> HIDE DEF list
  <2> QED
    BY <2>3, <2>4, <1>14
<1> QED
  BY <1>1, <1>4, <1>5, <1>6, <1>7, <1>8, <1>9, <1>10, <1>11, <1>12, <1>13, <1>15,
     <1>16, <1>17, <1>18 DEF DialogNext

\* The rest of the steps.
LEMMA OtherWrites ==
  ASSUME Poll \/ Elsewhere
  PROVE  UNCHANGED <<session, writes>>
BY DEF Poll, Elsewhere, Daemon, Working

LEMMA CallEnds ==
  ASSUME \E w \in writes : Applied(w) \/ WriteFails(w)
  PROVE  /\ UNCHANGED <<view, dialog, jobs, added, windows>>
         /\ writes' \subseteq writes
         /\ session' # session =>
              \E w \in writes : w.op = "session" /\ session' = Patched(session, w.patch)
BY DEF Applied, WriteFails, Daemon, Counts

-----------------------------------------------------------------------------
(* A transport is left.                                                    *)

LEMMA TransportStep == TransportInv /\ [Next]_vars => TransportInv'
<1> SUFFICES ASSUME TransportInv, [Next]_vars PROVE TransportInv'
  OBVIOUS
<1> USE DEF TransportInv, TransportsKept
<1>1. CASE session' = session /\ writes' \subseteq writes
  BY <1>1
<1>2. CASE ListNext
  <2>1. session' = session /\ \A w \in writes' \ writes : w.op # "session"
    BY <1>2, ListStep
  <2> QED
    BY <2>1
<1>3. CASE DialogNext
  <2>1. session' = session /\ \A w \in writes' \ writes : SentBy(w)
    BY <1>3, DialogWrites
  <2>2. \A w \in writes' \ writes :
          w.op = "session" /\ "transports" \in DOMAIN w.patch => w.patch.transports # {}
    BY <2>1 DEF SentBy, Saved
  <2> QED
    BY <2>1, <2>2
<1>4. CASE Poll \/ Elsewhere
  BY <1>4, <1>1, OtherWrites
<1>5. CASE \E w \in writes : Applied(w) \/ WriteFails(w)
  <2>1. ASSUME NEW w \in writes, w.op = "session", session' = Patched(session, w.patch)
        PROVE  "transports" \in DOMAIN session' /\ session'.transports # {}
    <3>1. "transports" \in DOMAIN session'
      BY <2>1 DEF Patched
    <3>2. session'.transports = IF "transports" \in DOMAIN w.patch
                                THEN w.patch.transports ELSE session.transports
      BY <2>1 DEF Patched
    <3> QED
      BY <2>1, <3>1, <3>2
  <2>2. "transports" \in DOMAIN session' /\ session'.transports # {}
    BY <1>5, <2>1, CallEnds
  <2>3. writes' \subseteq writes
    BY <1>5, CallEnds
  <2> QED
    BY <2>2, <2>3
<1>6. CASE UNCHANGED vars
  BY <1>6, <1>1 DEF vars
<1> QED
  BY <1>2, <1>3, <1>4, <1>5, <1>6 DEF Next

\* However edits, polls and calls interleave, the daemon keeps a transport.
THEOREM TransportsKeptHolds == Spec => []TransportsKept
<1>1. Init => TransportInv
  BY DEF Init, TransportInv, TransportsKept, Transport
<1>2. TransportInv => TransportsKept
  BY DEF TransportInv
<1> QED
  BY <1>1, <1>2, TransportStep, PTL DEF Spec

-----------------------------------------------------------------------------
(* What the dialog keeps, and the labels.                                  *)

LEMMA KnownInit == Init => DialogKnown
BY DEF Init, DialogKnown, NoDialog, Adding

\* A dialog that opens has what it keeps.
LEMMA Opened ==
  ASSUME DialogKnown, NEW d, Show(d), "kind" \in DOMAIN d,
         d.kind = "labels" => {"ids", "sel", "toggled", "fresh"} \subseteq DOMAIN d,
         d.kind = "add" => \E text \in Seq(Token), reading \in SUBSET Token :
                             d = NewAdd(text, reading)
  PROVE  DialogKnown'
<1>1. windows' \in Nat /\ windows' = windows + 1 /\ dialog' = d
  BY DEF Show, DialogKnown
<1>2. ASSUME d.kind = "add" PROVE dialog' \in AddDialogs'
  <2>1. PICK text \in Seq(Token), reading \in SUBSET Token : d = NewAdd(text, reading)
    BY <1>2
  <2> QED
    BY <1>1, <2>1 DEF NewAdd, AddDialogs, DialogKnown
<1> QED
  BY <1>1, <1>2 DEF DialogKnown, Adding

\* A dialog that stays, or is closed.
LEMMA Closed ==
  ASSUME DialogKnown, windows' = windows, dialog' \in {dialog, NoDialog}
  PROVE  DialogKnown'
<1>1. CASE dialog' = dialog
  BY <1>1 DEF DialogKnown, Adding, AddDialogs
<1>2. CASE dialog' = NoDialog
  BY <1>2 DEF DialogKnown, Adding, NoDialog
<1> QED
  BY <1>1, <1>2

\* The sequence without one of its elements.
LEMMA Removed ==
  ASSUME NEW s \in Seq(Token), NEW k \in DOMAIN s
  PROVE  /\ RemoveAt(s, k) \in Seq(Token)
         /\ DOMAIN RemoveAt(s, k) = 1..(Len(s) - 1)
         /\ \A i \in 1..(Len(s) - 1) :
              RemoveAt(s, k)[i] = IF i < k THEN s[i] ELSE s[i + 1]
<1> DEFINE front == SubSeq(s, 1, k - 1)
           back  == SubSeq(s, k + 1, Len(s))
<1>1. Len(s) \in Nat /\ k \in 1..Len(s) /\ \A i \in 1..Len(s) : s[i] \in Token
  BY LenProperties, ElementOfSeq
<1>2. /\ front \in Seq(Token)
      /\ Len(front) = k - 1
      /\ \A i \in 1..(k - 1) : front[i] = s[i]
  <2>1. \A i \in 1..(k - 1) : s[i] \in Token
    BY <1>1
  <2>2. 1 \in Int /\ k - 1 \in Int
    BY <1>1
  <2> QED
    BY <1>1, <2>1, <2>2, SubSeqProperties
<1>3. /\ back \in Seq(Token)
      /\ Len(back) = Len(s) - k
      /\ \A i \in 1..(Len(s) - k) : back[i] = s[k + i]
  <2>1. \A i \in (k + 1)..Len(s) : s[i] \in Token
    BY <1>1
  <2>2. k + 1 \in Int /\ Len(s) \in Int
    BY <1>1
  <2>3. /\ back \in Seq(Token)
        /\ Len(back) = IF k + 1 <= Len(s) THEN Len(s) - (k + 1) + 1 ELSE 0
        /\ \A i \in 1..(Len(s) - (k + 1) + 1) : back[i] = s[(k + 1) + i - 1]
    BY <2>1, <2>2, SubSeqProperties
  <2> QED
    BY <1>1, <2>3
<1> HIDE DEF front, back
<1>4. /\ front \o back \in Seq(Token)
      /\ Len(front \o back) = Len(s) - 1
      /\ \A i \in 1..(Len(s) - 1) : (front \o back)[i] =
           IF i <= k - 1 THEN front[i] ELSE back[i - (k - 1)]
  <2>1. /\ front \o back \in Seq(Token)
        /\ Len(front \o back) = Len(front) + Len(back)
        /\ \A i \in 1..(Len(front) + Len(back)) : (front \o back)[i] =
             IF i <= Len(front) THEN front[i] ELSE back[i - Len(front)]
    BY <1>2, <1>3, ConcatProperties
  <2>2. Len(front) + Len(back) = Len(s) - 1 /\ Len(front) = k - 1
    BY <1>1, <1>2, <1>3
  <2> QED
    BY <2>1, <2>2
<1>5. RemoveAt(s, k) = front \o back
  BY DEF RemoveAt, front, back
<1>6. DOMAIN (front \o back) = 1..(Len(s) - 1)
  BY <1>4, LenProperties
<1>7. ASSUME NEW i \in 1..(Len(s) - 1)
      PROVE  (front \o back)[i] = IF i < k THEN s[i] ELSE s[i + 1]
  <2>1. CASE i < k
    BY <2>1, <1>1, <1>2, <1>4
  <2>2. CASE ~(i < k)
    <3>1. i - (k - 1) \in 1..(Len(s) - k) /\ k + (i - (k - 1)) = i + 1
      BY <2>2, <1>1
    <3>2. (front \o back)[i] = back[i - (k - 1)]
      BY <2>2, <1>1, <1>4
    <3> QED
      BY <2>2, <3>1, <3>2, <1>3
  <2> QED
    BY <2>1, <2>2
<1> QED
  BY <1>4, <1>5, <1>6, <1>7

\* What the user does in the Add dialog leaves one.
LEMMA AddEdited ==
  ASSUME DialogKnown, Adding, windows' = windows, dialog' \in AddDialogs
  PROVE  DialogKnown'
BY DEF DialogKnown, Adding, AddDialogs

LEMMA KnownStep == DialogKnown /\ [Next]_vars => DialogKnown'
<1> SUFFICES ASSUME DialogKnown, [Next]_vars PROVE DialogKnown'
  OBVIOUS
<1> DEFINE Parts(d) == {"ids", "sel", "toggled", "fresh"} \subseteq DOMAIN d
<1>1. CASE ListNext \/ UNCHANGED vars
  BY <1>1, ListStep, Closed DEF vars
<1>2. CASE \E w \in writes : Applied(w) \/ WriteFails(w)
  BY <1>2, CallEnds, Closed
<1>3. CASE Elsewhere
  BY <1>3, Closed DEF Elsewhere
<1>4. CASE Poll
  <2>1. windows' = windows
    BY <1>4 DEF Poll, Counts
  <2>2. CASE dialog' = dialog
    BY <2>1, <2>2, Closed
  <2>3. CASE dialog.kind = "labels" /\ dialog' = [dialog EXCEPT !.fresh = FALSE]
    BY <2>1, <2>3 DEF DialogKnown, Adding
  <2> QED
    BY <1>4, <2>2, <2>3 DEF Poll
<1>5. CASE DialogNext
  <2>1. ASSUME Cancel \/ ConfirmRemove \/ Turtle \/ Rename \/ SaveTrackers
               \/ SaveLabels \/ \E d \in Dir : Move(d)
        PROVE  DialogKnown'
    BY <2>1, Closed DEF Cancel, ConfirmRemove, Turtle, Rename, SaveTrackers,
                        SaveLabels, Move, Save, Send, Counts
  <2>2. ASSUME \/ \E v \in 0..1 : SetLimit(v) \/ SetKey(v) \/ SetTime(v)
               \/ \E d \in Day : SetDay(d)
               \/ \E p \in Transport, on \in BOOLEAN : SetTransport(p, on)
        PROVE  DialogKnown'
    BY <2>2, Closed DEF SetLimit, SetKey, SetTime, SetDay, SetTransport, Patch, Send
  <2>3. ASSUME OpenLabels PROVE DialogKnown'
    <3>1. PICK ids : Show([kind |-> "labels", ids |-> ids, sel |-> Initial(ids),
                           toggled |-> {}, fresh |-> TRUE])
      BY <2>3 DEF OpenLabels, Open
    <3> QED
      BY <3>1, Opened
  <2>4. ASSUME OpenLocation \/ OpenRename \/ OpenRemove PROVE DialogKnown'
    <3>1. ASSUME NEW ids, NEW kind \in {"location", "rename", "remove"},
                 Show([kind |-> kind, ids |-> ids])
          PROVE  DialogKnown'
      BY <3>1, Opened
    <3>2. CASE OpenLocation
      BY <3>1, <3>2 DEF OpenLocation, Open
    <3>3. CASE OpenRename
      BY <3>1, <3>3 DEF OpenRename, Open
    <3>4. CASE OpenRemove
      BY <3>1, <3>4 DEF OpenRemove, Open
    <3> QED
      BY <2>4, <3>2, <3>3, <3>4
  <2>5. ASSUME OpenLimits PROVE DialogKnown'
    <3>1. PICK i : Show([kind |-> "limits", ids |-> MenuIds, first |-> i,
                         d |-> Nothing, win |-> windows + 1])
      BY <2>5 DEF OpenLimits
    <3> QED
      BY <3>1, Opened
  <2>6. ASSUME OpenTrackers \/ OpenSettings PROVE DialogKnown'
    <3>1. CASE OpenTrackers
      BY <3>1, Opened DEF OpenTrackers
    <3>2. CASE OpenSettings
      BY <3>2, Opened DEF OpenSettings, Open
    <3> QED
      BY <2>6, <3>1, <3>2
  <2>7. ASSUME NEW text \in Seq(Token), NEW reading \in SUBSET Token,
               Show(NewAdd(text, reading))
        PROVE  DialogKnown'
    <3>1. NewAdd(text, reading).kind = "add" /\ "kind" \in DOMAIN NewAdd(text, reading)
      BY DEF NewAdd
    <3> QED
      BY <2>7, <3>1, Opened
  <2>8. ASSUME OpenAdd PROVE DialogKnown'
    <3>1. <<>> \in Seq(Token) /\ {} \in SUBSET Token
      OBVIOUS
    <3>2. Show(NewAdd(<<>>, {}))
      BY <2>8 DEF OpenAdd, Open
    <3> QED
      BY <3>1, <3>2, <2>7
  <2>9. ASSUME NEW d \in AddDialogs, Adding, Edit(d) PROVE DialogKnown'
    <3>1. dialog' \in AddDialogs /\ windows' = windows
      BY <2>9 DEF Edit, Counts
    <3> QED
      BY <2>9, <3>1, AddEdited
  <2>10. Adding => dialog \in AddDialogs
    BY DEF DialogKnown
  <2>11. ASSUME Drop PROVE DialogKnown'
    <3>1. PICK s \in Unused :
            IF Adding THEN Edit([dialog EXCEPT !.reading = @ \cup {s}])
            ELSE Show(NewAdd(<<>>, {s}))
      BY <2>11 DEF Drop
    <3>2. s \in Token
      BY DEF Unused
    <3>3. CASE Adding
      <4>1. [dialog EXCEPT !.reading = @ \cup {s}] \in AddDialogs
        BY <3>2, <3>3, <2>10 DEF AddDialogs
      <4> QED
        BY <3>1, <3>3, <4>1, <2>9
    <3>4. CASE ~Adding
      <4>1. <<>> \in Seq(Token) /\ {s} \in SUBSET Token
        BY <3>2
      <4> QED
        BY <3>1, <3>4, <4>1, <2>7
    <3> QED
      BY <3>3, <3>4
  <2>12. ASSUME AddFiles PROVE DialogKnown'
    <3>1. PICK s \in dialog.reading, valid \in BOOLEAN :
            Edit([dialog EXCEPT !.reading = @ \ {s},
                                !.sources = IF valid THEN Append(@, s) ELSE @])
      BY <2>12 DEF AddFiles
    <3>2. dialog \in AddDialogs /\ s \in Token
      BY <2>12, <2>10 DEF AddFiles, AddDialogs
    <3> DEFINE src == IF valid THEN Append(dialog.sources, s) ELSE dialog.sources
               d   == [dialog EXCEPT !.reading = @ \ {s}, !.sources = src]
    <3>3. src \in Seq(Token)
      BY <3>2 DEF AddDialogs
    <3>4. Edit(d)
      BY <3>1
    <3>5. d \in AddDialogs
      <4> HIDE DEF src
      <4> QED
        BY <3>2, <3>3 DEF AddDialogs
    <3> HIDE DEF d
    <3> QED
      BY <2>12, <3>4, <3>5, <2>9 DEF AddFiles
  <2>13. ASSUME TypeLink \/ AddText PROVE DialogKnown'
    <3>1. PICK src \in Seq(Token), txt \in Seq(Token) :
            Edit([dialog EXCEPT !.sources = src, !.text = txt])
      <4>1. dialog \in AddDialogs /\ <<>> \in Seq(Token)
        BY <2>13, <2>10 DEF TypeLink, AddText
      <4>2. CASE TypeLink
        <5>1. PICK s \in Token : Edit([dialog EXCEPT !.text = Append(@, s)])
          BY <4>2 DEF TypeLink, Unused
        <5>2. Append(dialog.text, s) \in Seq(Token) /\ dialog.sources \in Seq(Token)
          BY <4>1 DEF AddDialogs
        <5>3. [dialog EXCEPT !.text = Append(@, s)]
                = [dialog EXCEPT !.sources = dialog.sources, !.text = Append(@, s)]
          BY <4>1 DEF AddDialogs
        <5> QED
          BY <5>1, <5>2, <5>3
      <4>3. CASE AddText
        <5>1. dialog.sources \o dialog.text \in Seq(Token)
          BY <4>1, ConcatProperties DEF AddDialogs
        <5> QED
          BY <4>1, <4>3, <5>1 DEF AddText
      <4> QED
        BY <2>13, <4>2, <4>3
    <3>2. [dialog EXCEPT !.sources = src, !.text = txt] \in AddDialogs /\ Adding
      BY <2>13, <2>10 DEF TypeLink, AddText, AddDialogs
    <3> QED
      BY <3>1, <3>2, <2>9
  <2>14. ASSUME NEW k \in 1..Cardinality(Token), RemoveSource(k) PROVE DialogKnown'
    <3>1. dialog \in AddDialogs /\ Adding /\ k \in DOMAIN dialog.sources
          /\ Edit([dialog EXCEPT !.sources = RemoveAt(@, k)])
      BY <2>14, <2>10 DEF RemoveSource
    <3>2. RemoveAt(dialog.sources, k) \in Seq(Token)
      BY <3>1, Removed DEF AddDialogs
    <3>3. [dialog EXCEPT !.sources = RemoveAt(@, k)] \in AddDialogs
      BY <3>1, <3>2 DEF AddDialogs
    <3> QED
      BY <3>1, <3>3, <2>9
  <2>15. ASSUME Submit PROVE DialogKnown'
    <3>1. dialog \in AddDialogs /\ Adding /\ windows' = windows /\ <<>> \in Seq(Token)
      BY <2>15, <2>10 DEF Submit, Counts
    <3>2. dialog.sources \o dialog.text \in Seq(Token)
      BY <3>1, ConcatProperties DEF AddDialogs
    <3>3. dialog' = [dialog EXCEPT !.sources = dialog.sources \o dialog.text, !.text = <<>>]
      BY <2>15 DEF Submit
    <3>4. dialog' \in AddDialogs
      BY <3>1, <3>2, <3>3 DEF AddDialogs
    <3> QED
      BY <3>1, <3>4, AddEdited
  <2>16. ASSUME NEW j \in jobs, Answered(j) PROVE DialogKnown'
    BY <2>16, Closed DEF Answered, Counts
  <2>17. ASSUME \/ \E l \in Label : ToggleLabel(l)
                \/ \E list \in SUBSET Url : TypeTrackers(list)
         PROVE DialogKnown'
    BY <2>17 DEF ToggleLabel, TypeTrackers, Edit, Counts, DialogKnown, Adding
  <2>18. ASSUME NEW w \in reads, Loaded(w) \/ LoadFails(w) PROVE DialogKnown'
    <3>1. windows' = windows
      BY <2>18 DEF Loaded, LoadFails, Counts
    <3>2. \/ dialog' = dialog
          \/ /\ dialog.kind \in {"limits", "trackers"}
             /\ \E v : dialog' \in {[dialog EXCEPT !.d = v], [dialog EXCEPT !.text = v],
                                    [dialog EXCEPT !.failed = v]}
      BY <2>18 DEF Loaded, LoadFails, Waiting
    <3> QED
      BY <3>1, <3>2, Closed DEF DialogKnown, Adding
  <2> QED
    BY <1>5, <2>1, <2>2, <2>3, <2>4, <2>5, <2>6, <2>8, <2>11, <2>12, <2>13, <2>14,
       <2>15, <2>16, <2>17, <2>18 DEF DialogNext
<1> QED
  BY <1>1, <1>2, <1>3, <1>4, <1>5 DEF Next

\* What is switched changes by what is switched.
LEMMA LabelStep == DialogKnown /\ LabelInv /\ [Next]_vars => LabelInv'
<1> SUFFICES ASSUME DialogKnown, LabelInv, [Next]_vars PROVE LabelInv'
  OBVIOUS
<1>1. CASE /\ dialog' = dialog
           /\ dialog.kind = "labels" /\ dialog.fresh => view'.torrents = view.torrents
  BY <1>1 DEF LabelInv, Initial
<1>2. CASE dialog'.kind # "labels"
  BY <1>2 DEF LabelInv
<1>3. CASE ListNext \/ Elsewhere \/ UNCHANGED vars
           \/ \E w \in writes : Applied(w) \/ WriteFails(w)
  BY <1>3, <1>1, ListStep, CallEnds DEF Elsewhere, vars
<1>4. CASE Poll
  <2>1. CASE dialog.kind = "labels" /\ view.torrents # torrents
    BY <1>4, <2>1 DEF Poll, LabelInv, DialogKnown
  <2>2. CASE ~(dialog.kind = "labels" /\ view.torrents # torrents)
    BY <1>4, <1>1, <2>2 DEF Poll
  <2> QED
    BY <2>1, <2>2
<1>5. CASE DialogNext
  <2>1. ASSUME Cancel \/ ConfirmRemove \/ Rename \/ SaveTrackers
               \/ SaveLabels \/ \E d \in Dir : Move(d)
        PROVE  LabelInv'
    <3>1. dialog' = NoDialog
      BY <2>1 DEF Cancel, ConfirmRemove, Rename, SaveTrackers, SaveLabels, Move, Save
    <3> QED
      BY <3>1, <1>2 DEF NoDialog
  <2>2. view' = view \/ ConfirmRemove
    BY <1>5, DialogWrites
  <2>3. ASSUME \/ \E v \in 0..1 : SetLimit(v) \/ SetKey(v) \/ SetTime(v)
               \/ \E d \in Day : SetDay(d)
               \/ \E p \in Transport, on \in BOOLEAN : SetTransport(p, on)
               \/ Turtle
        PROVE  LabelInv'
    <3>1. dialog' = dialog
      BY <2>3 DEF SetLimit, SetKey, SetTime, SetDay, SetTransport, Patch, Turtle
    <3> QED
      BY <3>1, <2>1, <2>2, <1>1
  <2>4. ASSUME OpenLabels PROVE LabelInv'
    <3>1. PICK ids : Show([kind |-> "labels", ids |-> ids, sel |-> Initial(ids),
                           toggled |-> {}, fresh |-> TRUE])
      BY <2>4 DEF OpenLabels, Open
    <3>2. /\ dialog'.sel = Initial(ids) /\ dialog'.ids = ids
          /\ view'.torrents = view.torrents
      BY <3>1 DEF Show
    <3>3. Initial(ids)' = Initial(ids)
      BY <3>2 DEF Initial
    <3>4. SymDiff(dialog'.sel, Initial(dialog.ids)') = {}
      BY <3>2, <3>3 DEF SymDiff, Initial
    <3> QED
      BY <3>4 DEF LabelInv
  <2>5. ASSUME \/ OpenLocation \/ OpenRename \/ OpenRemove \/ OpenLimits
               \/ OpenTrackers \/ OpenAdd \/ OpenSettings
        PROVE  LabelInv'
    BY <2>5, <1>2 DEF OpenLocation, OpenRename, OpenRemove, OpenLimits, OpenTrackers,
                      OpenAdd, OpenSettings, Open, Show, NewAdd
  <2>6. ASSUME NEW l \in Label, ToggleLabel(l) PROVE LabelInv'
    <3>1. /\ dialog.kind = "labels"
          /\ dialog'.sel = SymDiff(dialog.sel, {l}) /\ dialog'.ids = dialog.ids
          /\ dialog'.toggled = dialog.toggled \cup {l} /\ dialog'.fresh = dialog.fresh
          /\ view' = view
      BY <2>6 DEF ToggleLabel, Edit, DialogKnown
    <3>2. Initial(dialog.ids)' = Initial(dialog.ids)
      BY <3>1 DEF Initial
    <3> QED
      BY <3>1, <3>2 DEF LabelInv, SymDiff
  <2>7. ASSUME \/ \E list \in SUBSET Url : TypeTrackers(list)
               \/ AddFiles \/ TypeLink \/ AddText \/ Submit
               \/ \E k \in 1..Cardinality(Token) : RemoveSource(k)
        PROVE  LabelInv'
    <3>1. dialog.kind # "labels" /\ dialog'.kind = dialog.kind
      BY <2>7 DEF TypeTrackers, AddFiles, TypeLink, AddText, Submit, RemoveSource,
                  Edit, DialogKnown, Adding
    <3> QED
      BY <3>1, <1>2
  <2>8. ASSUME Drop PROVE LabelInv'
    <3>1. dialog'.kind = "add"
      BY <2>8 DEF Drop, Edit, Show, NewAdd, DialogKnown, Adding
    <3> QED
      BY <3>1, <1>2
  <2>9. ASSUME NEW j \in jobs, Answered(j) PROVE LabelInv'
    <3>1. dialog' \in {dialog, NoDialog} /\ view' = view
      BY <2>9 DEF Answered
    <3> QED
      BY <3>1, <1>1, <1>2 DEF NoDialog
  <2>10. ASSUME NEW w \in reads, Loaded(w) \/ LoadFails(w) PROVE LabelInv'
    <3>1. view' = view
      BY <2>10 DEF Loaded, LoadFails
    <3>2. \/ dialog' = dialog
          \/ dialog'.kind = dialog.kind /\ dialog.kind # "labels"
      BY <2>10 DEF Loaded, LoadFails, Waiting, DialogKnown
    <3> QED
      BY <3>1, <3>2, <1>1, <1>2
  <2> QED
    BY <1>5, <2>1, <2>3, <2>4, <2>5, <2>6, <2>7, <2>8, <2>9, <2>10 DEF DialogNext
<1> QED
  BY <1>3, <1>4, <1>5 DEF Next

\* A save of the labels dialog changes, of each torrent, only labels that were
\* switched there, as long as no poll brought other torrents meanwhile.
THEOREM LabelsAsToggledHolds == Spec => LabelsAsToggled
<1> DEFINE Step == dialog.kind = "labels" /\ dialog.fresh =>
                     \A w \in writes' \ writes : \A i \in w.ids :
                       SymDiff(w.labels, LabelsOf(i)) \subseteq dialog.toggled
<1>1. Init => DialogKnown /\ LabelInv
  BY KnownInit DEF Init, LabelInv, NoDialog
<1>2. DialogKnown /\ LabelInv /\ [Next]_vars => (DialogKnown /\ LabelInv)'
  BY KnownStep, LabelStep
<1>3. ASSUME LabelInv, [Next]_vars, dialog.kind = "labels", dialog.fresh,
             NEW w \in writes' \ writes, NEW i \in w.ids
      PROVE  SymDiff(w.labels, LabelsOf(i)) \subseteq dialog.toggled
  <2>1. DialogNext
    BY <1>3, ListStep, OtherWrites, CallEnds DEF Next, Free, vars
  <2>2. PICK n : w = Saved(n)
    BY <1>3, <2>1, DialogWrites DEF SentBy
  <2>3. w.labels = NewLabels(i)
    BY <1>3, <2>2 DEF Saved
  <2>4. SymDiff(NewLabels(i), LabelsOf(i)) \subseteq SymDiff(dialog.sel, Initial(dialog.ids))
    BY DEF NewLabels, SymDiff
  <2>5. SymDiff(dialog.sel, Initial(dialog.ids)) \subseteq dialog.toggled
    BY <1>3 DEF LabelInv
  <2> QED
    BY <2>3, <2>4, <2>5
<1>4. LabelInv /\ [Next]_vars => Step
  BY <1>3
<1>5. LabelInv /\ [Next]_vars => [Step]_vars
  BY <1>4
<1> QED
  BY <1>1, <1>2, <1>5, PTL DEF Spec, LabelsAsToggled

-----------------------------------------------------------------------------
(* Nothing is added twice.                                                 *)

LEMMA DistinctTail ==
  ASSUME NEW s \in Seq(Token), s # <<>>, Distinct(s)
  PROVE  /\ Head(s) \in ToSet(s)
         /\ Tail(s) \in Seq(Token) /\ Distinct(Tail(s))
         /\ ToSet(Tail(s)) \subseteq ToSet(s) \ {Head(s)}
<1>1. Len(s) \in Nat \ {0} /\ DOMAIN s = 1..Len(s) /\ Head(s) = s[1]
  BY LenProperties, EmptySeq
<1>2. /\ Tail(s) \in Seq(Token) /\ Len(Tail(s)) = Len(s) - 1
      /\ \A i \in 1..Len(Tail(s)) : Tail(s)[i] = s[i + 1]
  BY HeadTailProperties
<1>3. DOMAIN Tail(s) = 1..(Len(s) - 1) /\ \A i \in 1..(Len(s) - 1) : Tail(s)[i] = s[i + 1]
  BY <1>2, LenProperties
<1>4. \A i \in 1..(Len(s) - 1) : i + 1 \in 1..Len(s) /\ i + 1 # 1
  BY <1>1
<1>5. Distinct(Tail(s))
  <2> SUFFICES ASSUME NEW i \in 1..(Len(s) - 1), NEW j \in 1..(Len(s) - 1),
                      s[i + 1] = s[j + 1]
               PROVE  i = j
    BY <1>3 DEF Distinct
  <2>1. i + 1 = j + 1
    BY <1>1, <1>4 DEF Distinct
  <2> QED
    BY <1>1, <2>1
<1>6. \A i \in 1..(Len(s) - 1) : s[i + 1] # s[1]
  BY <1>1, <1>4 DEF Distinct
<1>7. ToSet(Tail(s)) \subseteq ToSet(s) \ {s[1]}
  BY <1>1, <1>3, <1>4, <1>6 DEF ToSet
<1>8. s[1] \in ToSet(s)
  BY <1>1 DEF ToSet
<1> QED
  BY <1>1, <1>2, <1>5, <1>7, <1>8

LEMMA DistinctConcat ==
  ASSUME NEW s \in Seq(Token), NEW t \in Seq(Token), Distinct(s), Distinct(t),
         ToSet(s) \cap ToSet(t) = {}
  PROVE  /\ s \o t \in Seq(Token) /\ Distinct(s \o t)
         /\ ToSet(s \o t) = ToSet(s) \cup ToSet(t)
<1> DEFINE u == s \o t
<1>1. /\ Len(s) \in Nat /\ DOMAIN s = 1..Len(s)
      /\ Len(t) \in Nat /\ DOMAIN t = 1..Len(t)
  BY LenProperties
<1>2. /\ u \in Seq(Token) /\ Len(u) = Len(s) + Len(t)
      /\ \A i \in 1..(Len(s) + Len(t)) :
           u[i] = IF i <= Len(s) THEN s[i] ELSE t[i - Len(s)]
  BY ConcatProperties
<1>3. DOMAIN u = 1..(Len(s) + Len(t))
  BY <1>2, LenProperties
<1> HIDE DEF u
<1>4. \A i \in 1..Len(s) : i \in DOMAIN u /\ u[i] = s[i]
  BY <1>1, <1>2, <1>3
<1>5. \A i \in 1..Len(t) : Len(s) + i \in DOMAIN u /\ u[Len(s) + i] = t[i]
  <2> TAKE i \in 1..Len(t)
  <2>1. Len(s) + i \in 1..(Len(s) + Len(t)) /\ ~(Len(s) + i <= Len(s))
        /\ (Len(s) + i) - Len(s) = i
    BY <1>1
  <2> QED
    BY <2>1, <1>2, <1>3
<1>6. ASSUME NEW i \in DOMAIN u
      PROVE  \/ i \in 1..Len(s) /\ u[i] = s[i] /\ s[i] \in ToSet(s)
             \/ /\ i - Len(s) \in 1..Len(t) /\ u[i] = t[i - Len(s)]
                /\ t[i - Len(s)] \in ToSet(t)
  <2>1. CASE i <= Len(s)
    BY <2>1, <1>1, <1>2, <1>3 DEF ToSet
  <2>2. CASE ~(i <= Len(s))
    <3>1. i - Len(s) \in 1..Len(t)
      BY <2>2, <1>1, <1>3
    <3>2. u[i] = t[i - Len(s)]
      BY <2>2, <1>2, <1>3
    <3>3. t[i - Len(s)] \in ToSet(t)
      BY <3>1, <1>1 DEF ToSet
    <3> QED
      BY <3>1, <3>2, <3>3
  <2> QED
    BY <2>1, <2>2
<1>7. Distinct(u)
  <2> SUFFICES ASSUME NEW i \in DOMAIN u, NEW j \in DOMAIN u, u[i] = u[j]
               PROVE  i = j
    BY DEF Distinct
  <2>1. CASE i \in 1..Len(s) /\ u[i] = s[i] /\ s[i] \in ToSet(s)
    <3>1. j \in 1..Len(s) /\ u[j] = s[j]
      BY <2>1, <1>6
    <3> QED
      BY <2>1, <3>1, <1>1 DEF Distinct
  <2>2. CASE i - Len(s) \in 1..Len(t) /\ u[i] = t[i - Len(s)] /\ t[i - Len(s)] \in ToSet(t)
    <3>1. j - Len(s) \in 1..Len(t) /\ u[j] = t[j - Len(s)]
      BY <2>2, <1>6
    <3>2. i - Len(s) = j - Len(s)
      BY <2>2, <3>1, <1>1 DEF Distinct
    <3> QED
      BY <3>2, <1>1, <1>3
  <2> QED
    BY <2>1, <2>2, <1>6
<1>8. ToSet(u) \subseteq ToSet(s) \cup ToSet(t)
  BY <1>6 DEF ToSet
<1>9. ToSet(s) \subseteq ToSet(u)
  BY <1>1, <1>4 DEF ToSet
<1>10. ToSet(t) \subseteq ToSet(u)
  BY <1>1, <1>5 DEF ToSet
<1> QED
  BY <1>2, <1>7, <1>8, <1>9, <1>10 DEF u

LEMMA DistinctAppend ==
  ASSUME NEW s \in Seq(Token), Distinct(s), NEW e \in Token, e \notin ToSet(s)
  PROVE  /\ Append(s, e) \in Seq(Token) /\ Distinct(Append(s, e))
         /\ ToSet(Append(s, e)) = ToSet(s) \cup {e}
<1>1. <<e>> \in Seq(Token) /\ Distinct(<<e>>) /\ ToSet(<<e>>) = {e}
  BY DEF Distinct, ToSet
<1>2. Append(s, e) = s \o <<e>>
  BY AppendIsConcat
<1>3. ToSet(s) \cap ToSet(<<e>>) = {}
  BY <1>1
<1> QED
  BY <1>1, <1>2, <1>3, DistinctConcat

LEMMA DistinctRemoved ==
  ASSUME NEW s \in Seq(Token), Distinct(s), NEW k \in DOMAIN s
  PROVE  Distinct(RemoveAt(s, k)) /\ ToSet(RemoveAt(s, k)) \subseteq ToSet(s)
<1> DEFINE u == RemoveAt(s, k)
           at(i) == IF i < k THEN i ELSE i + 1
<1>1. Len(s) \in Nat /\ DOMAIN s = 1..Len(s)
  BY LenProperties
<1>2. DOMAIN u = 1..(Len(s) - 1) /\ \A i \in DOMAIN u : u[i] = s[at(i)]
  BY Removed
<1>3. \A i \in DOMAIN u : at(i) \in 1..Len(s)
  BY <1>1, <1>2
<1>4. \A i, j \in DOMAIN u : at(i) = at(j) => i = j
  BY <1>1, <1>2
<1> HIDE DEF u, at
<1>5. Distinct(u)
  BY <1>1, <1>2, <1>3, <1>4 DEF Distinct
<1>6. ToSet(u) \subseteq ToSet(s)
  BY <1>1, <1>2, <1>3 DEF ToSet
<1> QED
  BY <1>5, <1>6 DEF u

LEMMA AddInit == Init => AddInv
<1> SUFFICES ASSUME Init PROVE AddInv
  OBVIOUS
<1>1. JobsKnown
  BY DEF Init, JobsKnown
<1>2. HeldKnown
  BY DEF Init, HeldKnown, Adding, NoDialog
<1> QED
  BY <1>1, <1>2, KnownInit DEF AddInv

\* The submissions are what they were.
JobsStay == UNCHANGED <<jobs, added>> /\ windows' \in {windows, windows + 1}

LEMMA JobsLeft ==
  ASSUME AddInv, JobsStay
  PROVE  JobsKnown'
<1>1. Jobs \subseteq Jobs'
  <2>1. windows \in Nat
    BY DEF AddInv, DialogKnown
  <2>2. 1..windows \subseteq 1..windows'
    BY <2>1 DEF JobsStay
  <2> QED
    BY <2>2 DEF Jobs
<1> QED
  BY <1>1 DEF AddInv, JobsKnown, JobsStay

\* The dialog that is open is the same, or none to add with.
LEMMA SameHeld ==
  ASSUME AddInv, JobsStay, dialog' = dialog \/ ~(Adding')
  PROVE  HeldKnown'
BY DEF AddInv, HeldKnown, JobsStay, Adding, Held

\* An Add dialog opens, with a source that was dropped or with none.
LEMMA FreshHeld ==
  ASSUME AddInv, NEW reading \in SUBSET Unused, Show(NewAdd(<<>>, reading))
  PROVE  JobsStay /\ HeldKnown'
<1>1. /\ JobsStay
      /\ dialog'.sources = <<>> /\ dialog'.text = <<>>
      /\ dialog'.reading = reading /\ dialog'.win = windows + 1
  BY DEF Show, NewAdd, JobsStay
<1>2. \A j \in jobs : j.win # windows + 1
  BY DEF AddInv, DialogKnown, JobsKnown, Jobs
<1>3. Distinct(<<>>) /\ ToSet(<<>>) = {}
  BY DEF Distinct, ToSet
<1>4. Held' = reading
  BY <1>1, <1>3 DEF Held
<1>5. \A s \in reading : added[s] = 0 /\ \A j \in jobs : s \notin ToSet(j.todo)
  BY DEF Unused
<1>6. HeldKnown'
  <2>1. Distinct(dialog.sources)' /\ Distinct(dialog.text)'
    BY <1>1, <1>3
  <2>2. /\ (ToSet(dialog.sources) \cap ToSet(dialog.text) = {})'
        /\ ((ToSet(dialog.sources) \cup ToSet(dialog.text)) \cap dialog.reading = {})'
    BY <1>1, <1>3
  <2>3. /\ (\A j \in jobs : j.win # dialog.win => ToSet(j.todo) \cap Held = {})'
        /\ (\A s \in Held : added[s] = 0 \/ \E j \in jobs : j.win = dialog.win /\ j.any)'
    BY <1>1, <1>4, <1>5 DEF JobsStay
  <2> QED
    BY <2>1, <2>2, <2>3 DEF HeldKnown
<1> QED
  BY <1>1, <1>6

\* The user changes what is in the dialog, with sources that it had or that
\* are nowhere.
LEMMA EditHeld ==
  ASSUME AddInv, Adding, NEW src, NEW txt, NEW rd,
         dialog' = [dialog EXCEPT !.sources = src, !.text = txt, !.reading = rd],
         JobsStay, Distinct(src), Distinct(txt), ToSet(src) \cap ToSet(txt) = {},
         (ToSet(src) \cup ToSet(txt)) \cap rd = {},
         ToSet(src) \cup ToSet(txt) \cup rd \subseteq Held \cup Unused
  PROVE  HeldKnown'
<1>1. dialog \in AddDialogs
  BY DEF AddInv, DialogKnown
<1>2. /\ dialog'.sources = src /\ dialog'.text = txt /\ dialog'.reading = rd
      /\ dialog'.win = dialog.win
  BY <1>1 DEF AddDialogs
<1>3. Held' \subseteq Held \cup Unused
  BY <1>2 DEF Held
<1>4. \A s \in Unused : added[s] = 0 /\ \A j \in jobs : s \notin ToSet(j.todo)
  BY DEF Unused
<1>5. /\ \A j \in jobs : j.win # dialog.win => ToSet(j.todo) \cap Held = {}
      /\ \A s \in Held : added[s] = 0 \/ \E j \in jobs : j.win = dialog.win /\ j.any
  BY DEF AddInv, HeldKnown
<1>6. (\A j \in jobs : j.win # dialog.win => ToSet(j.todo) \cap Held = {})'
  BY <1>2, <1>3, <1>4, <1>5 DEF JobsStay
<1>7. (\A s \in Held : added[s] = 0 \/ \E j \in jobs : j.win = dialog.win /\ j.any)'
  BY <1>2, <1>3, <1>4, <1>5 DEF JobsStay
<1>8. /\ Distinct(dialog.sources)' /\ Distinct(dialog.text)'
      /\ (ToSet(dialog.sources) \cap ToSet(dialog.text) = {})'
      /\ ((ToSet(dialog.sources) \cup ToSet(dialog.text)) \cap dialog.reading = {})'
  BY <1>2
<1> QED
  BY <1>6, <1>7, <1>8 DEF HeldKnown

\* What the dialog has.
LEMMA DialogHas ==
  ASSUME AddInv, Adding
  PROVE  /\ dialog \in AddDialogs
         /\ dialog.sources \in Seq(Token) /\ dialog.text \in Seq(Token)
         /\ dialog.reading \subseteq Token
         /\ Distinct(dialog.sources) /\ Distinct(dialog.text)
         /\ ToSet(dialog.sources) \cap ToSet(dialog.text) = {}
         /\ (ToSet(dialog.sources) \cup ToSet(dialog.text)) \cap dialog.reading = {}
BY DEF AddInv, DialogKnown, HeldKnown, AddDialogs

\* A source that is nowhere is not in the dialog.
LEMMA UnusedNotHeld == Adding => Unused \subseteq Token \ Held
BY DEF Unused, Held

\* Sources come, are read, listed and taken off.
LEMMA EditsHeld ==
  ASSUME AddInv, Adding,
         \/ \E s \in Unused : Edit([dialog EXCEPT !.reading = @ \cup {s}])
         \/ AddFiles \/ TypeLink \/ AddText
         \/ \E k \in 1..Cardinality(Token) : RemoveSource(k)
  PROVE  JobsStay /\ HeldKnown'
<1> DEFINE src == dialog.sources
           txt == dialog.text
           rd  == dialog.reading
<1>1. /\ dialog \in AddDialogs
      /\ src \in Seq(Token) /\ txt \in Seq(Token) /\ rd \subseteq Token
      /\ Distinct(src) /\ Distinct(txt) /\ ToSet(src) \cap ToSet(txt) = {}
      /\ (ToSet(src) \cup ToSet(txt)) \cap rd = {}
  BY DialogHas
<1>2. Unused \subseteq Token /\ Unused \cap (ToSet(src) \cup ToSet(txt) \cup rd) = {}
  BY UnusedNotHeld DEF Held
<1>3. Held = ToSet(src) \cup ToSet(txt) \cup rd
  BY DEF Held
<1>4. \A s, t, r : [dialog EXCEPT !.sources = s] = [dialog EXCEPT !.sources = s, !.text = txt, !.reading = rd]
                /\ [dialog EXCEPT !.text = t] = [dialog EXCEPT !.sources = src, !.text = t, !.reading = rd]
                /\ [dialog EXCEPT !.reading = r] = [dialog EXCEPT !.sources = src, !.text = txt, !.reading = r]
                /\ [dialog EXCEPT !.reading = r, !.sources = s] = [dialog EXCEPT !.sources = s, !.text = txt, !.reading = r]
                /\ [dialog EXCEPT !.sources = s, !.text = t] = [dialog EXCEPT !.sources = s, !.text = t, !.reading = rd]
  BY <1>1 DEF AddDialogs
<1> HIDE DEF src, txt, rd
<1>5. JobsStay
  BY DEF AddFiles, TypeLink, AddText, RemoveSource, Edit, JobsStay, Working, Counts
<1>6. ASSUME NEW s \in Unused, Edit([dialog EXCEPT !.reading = rd \cup {s}])
      PROVE  HeldKnown'
  <2>1. dialog' = [dialog EXCEPT !.sources = src, !.text = txt, !.reading = rd \cup {s}]
    BY <1>4, <1>6 DEF Edit
  <2> DEFINE new == rd \cup {s}
  <2>2. /\ (ToSet(src) \cup ToSet(txt)) \cap new = {}
        /\ ToSet(src) \cup ToSet(txt) \cup new \subseteq Held \cup Unused
    BY <1>1, <1>2, <1>3
  <2>3. dialog' = [dialog EXCEPT !.sources = src, !.text = txt, !.reading = new]
    BY <2>1
  <2> HIDE DEF new
  <2> QED
    BY <2>2, <2>3, <1>1, <1>5, EditHeld
<1>7. ASSUME AddFiles PROVE HeldKnown'
  <2>1. PICK s \in rd, valid \in BOOLEAN :
          Edit([dialog EXCEPT !.reading = rd \ {s},
                              !.sources = IF valid THEN Append(src, s) ELSE src])
    BY <1>7 DEF AddFiles, src, rd
  <2> DEFINE new == IF valid THEN Append(src, s) ELSE src
  <2>2. s \in Token /\ s \notin ToSet(src) /\ s \notin ToSet(txt)
    BY <1>1
  <2>3. Distinct(new) /\ ToSet(new) \subseteq ToSet(src) \cup {s}
    BY <1>1, <2>2, DistinctAppend
  <2>4. Edit([dialog EXCEPT !.reading = rd \ {s}, !.sources = new])
    BY <2>1
  <2> HIDE DEF new
  <2>5. dialog' = [dialog EXCEPT !.sources = new, !.text = txt, !.reading = rd \ {s}]
    BY <1>4, <2>4 DEF Edit
  <2>6. /\ ToSet(new) \cap ToSet(txt) = {}
        /\ (ToSet(new) \cup ToSet(txt)) \cap (rd \ {s}) = {}
        /\ ToSet(new) \cup ToSet(txt) \cup (rd \ {s}) \subseteq Held \cup Unused
    BY <1>1, <1>3, <2>1, <2>2, <2>3
  <2> QED
    BY <2>3, <2>5, <2>6, <1>1, <1>5, EditHeld
<1>8. ASSUME TypeLink PROVE HeldKnown'
  <2>1. PICK s \in Unused : Edit([dialog EXCEPT !.text = Append(txt, s)])
    BY <1>8 DEF TypeLink, txt
  <2> DEFINE new == Append(txt, s)
  <2>2. s \in Token /\ s \notin ToSet(src) /\ s \notin ToSet(txt) /\ s \notin rd
    BY <1>2
  <2>3. Distinct(new) /\ ToSet(new) = ToSet(txt) \cup {s}
    BY <1>1, <2>2, DistinctAppend
  <2>4. dialog' = [dialog EXCEPT !.sources = src, !.text = new, !.reading = rd]
    BY <1>4, <2>1 DEF Edit
  <2> HIDE DEF new
  <2>5. /\ ToSet(src) \cap ToSet(new) = {}
        /\ (ToSet(src) \cup ToSet(new)) \cap rd = {}
        /\ ToSet(src) \cup ToSet(new) \cup rd \subseteq Held \cup Unused
    BY <1>1, <1>3, <2>2, <2>3
  <2> QED
    BY <2>3, <2>4, <2>5, <1>1, <1>5, EditHeld
<1>9. ASSUME AddText PROVE HeldKnown'
  <2> DEFINE new == src \o txt
  <2>1. dialog' = [dialog EXCEPT !.sources = new, !.text = <<>>, !.reading = rd]
    BY <1>4, <1>9 DEF AddText, Edit, src, txt
  <2>2. Distinct(new) /\ ToSet(new) = ToSet(src) \cup ToSet(txt)
    BY <1>1, DistinctConcat
  <2>3. Distinct(<<>>) /\ ToSet(<<>>) = {}
    BY DEF Distinct, ToSet
  <2> HIDE DEF new
  <2>4. /\ ToSet(new) \cap ToSet(<<>>) = {}
        /\ (ToSet(new) \cup ToSet(<<>>)) \cap rd = {}
        /\ ToSet(new) \cup ToSet(<<>>) \cup rd \subseteq Held \cup Unused
    BY <1>1, <1>3, <2>2, <2>3
  <2> QED
    BY <2>1, <2>2, <2>3, <2>4, <1>5, EditHeld
<1>10. ASSUME NEW k, RemoveSource(k) PROVE HeldKnown'
  <2> DEFINE new == RemoveAt(src, k)
  <2>1. dialog' = [dialog EXCEPT !.sources = new, !.text = txt, !.reading = rd]
    BY <1>4, <1>10 DEF RemoveSource, Edit, src
  <2>2. k \in DOMAIN src
    BY <1>10 DEF RemoveSource, src
  <2>3. Distinct(new) /\ ToSet(new) \subseteq ToSet(src)
    BY <1>1, <2>2, DistinctRemoved
  <2> HIDE DEF new
  <2>4. /\ ToSet(new) \cap ToSet(txt) = {}
        /\ (ToSet(new) \cup ToSet(txt)) \cap rd = {}
        /\ ToSet(new) \cup ToSet(txt) \cup rd \subseteq Held \cup Unused
    BY <1>1, <1>3, <2>3
  <2> QED
    BY <2>1, <2>3, <2>4, <1>1, <1>5, EditHeld
<1> QED
  BY <1>5, <1>6, <1>7, <1>8, <1>9, <1>10 DEF rd

\* What is submitted is in no other submission, and none of it is added.
LEMMA SubmitStep ==
  ASSUME AddInv, Submit
  PROVE  JobsKnown' /\ HeldKnown'
<1> DEFINE srcs == dialog.sources \o dialog.text
           job  == [win |-> dialog.win, todo |-> srcs, any |-> FALSE]
<1>1. Adding /\ ~Busy /\ srcs # <<>>
  BY DEF Submit
<1>2. /\ jobs' = jobs \cup {job} /\ added' = added /\ windows' = windows
      /\ dialog' = [dialog EXCEPT !.sources = srcs, !.text = <<>>]
  BY DEF Submit, Counts
<1>3. /\ dialog \in AddDialogs
      /\ Distinct(srcs) /\ srcs \in Seq(Token)
      /\ ToSet(srcs) = ToSet(dialog.sources) \cup ToSet(dialog.text)
      /\ ToSet(srcs) \cap dialog.reading = {}
  BY <1>1, DialogHas, DistinctConcat
<1>4. /\ dialog'.sources = srcs /\ dialog'.text = <<>>
      /\ dialog'.reading = dialog.reading /\ dialog'.win = dialog.win
      /\ dialog'.kind = "add"
  BY <1>1, <1>2, <1>3 DEF AddDialogs, Adding
<1>5. Distinct(<<>>) /\ ToSet(<<>>) = {}
  BY DEF Distinct, ToSet
<1>6. ToSet(srcs) \subseteq Held /\ Held' = Held
  BY <1>3, <1>4, <1>5 DEF Held
<1>7. \A j \in jobs : j.win # dialog.win
  BY <1>1 DEF Busy
<1>8. /\ \A j \in jobs : ToSet(j.todo) \cap Held = {}
      /\ \A s \in Held : added[s] = 0
  BY <1>1, <1>7 DEF AddInv, HeldKnown
<1>9. job \in Jobs /\ job.todo = srcs /\ job.win = dialog.win
  BY <1>1, <1>3 DEF Jobs, AddDialogs
<1> HIDE DEF job, srcs
<1>10. JobsKnown'
  <2>1. /\ added \in [Token -> 0..1] /\ jobs \subseteq Jobs
        /\ \A j \in jobs : Distinct(j.todo) /\ \A s \in ToSet(j.todo) : added[s] = 0
        /\ \A j, k \in jobs : j # k => ToSet(j.todo) \cap ToSet(k.todo) = {}
    BY DEF AddInv, JobsKnown
  <2>2. Jobs' = Jobs
    BY <1>2 DEF Jobs
  <2>3. (added \in [Token -> 0..1] /\ jobs \subseteq Jobs)'
    BY <1>2, <1>9, <2>1, <2>2
  <2>4. \A j \in jobs' : Distinct(j.todo) /\ \A s \in ToSet(j.todo) : added[s] = 0
    BY <1>2, <1>3, <1>6, <1>8, <1>9, <2>1
  <2>5. \A j, k \in jobs' : j # k => ToSet(j.todo) \cap ToSet(k.todo) = {}
    BY <1>2, <1>6, <1>8, <1>9, <2>1
  <2> QED
    BY <1>2, <2>3, <2>4, <2>5 DEF JobsKnown
<1>11. HeldKnown'
  <2>1. \A j \in jobs' : j.win # dialog'.win => ToSet(j.todo) \cap Held' = {}
    BY <1>2, <1>4, <1>6, <1>8, <1>9
  <2>2. \A s \in Held' : added'[s] = 0
    BY <1>2, <1>6, <1>8
  <2>3. /\ Distinct(dialog.sources)' /\ Distinct(dialog.text)'
        /\ (ToSet(dialog.sources) \cap ToSet(dialog.text) = {})'
        /\ ((ToSet(dialog.sources) \cup ToSet(dialog.text)) \cap dialog.reading = {})'
    BY <1>3, <1>4, <1>5
  <2> QED
    BY <2>1, <2>2, <2>3 DEF HeldKnown
<1> QED
  BY <1>10, <1>11

\* An answer is about the first source of its submission, which no other
\* submission has; if it was added, the dialog it is of is about to be closed.
LEMMA AnsweredStep ==
  ASSUME AddInv, NEW j \in jobs, Answered(j)
  PROVE  JobsKnown' /\ HeldKnown'
<1>1. PICK ok \in BOOLEAN :
        LET next == [j EXCEPT !.todo = Tail(@), !.any = @ \/ ok]
            last == next.todo = <<>>
        IN  /\ added' = [added EXCEPT ![Head(j.todo)] = IF ok THEN @ + 1 ELSE @]
            /\ jobs' = (jobs \ {j}) \cup IF last THEN {} ELSE {next}
            /\ dialog' = IF last /\ next.any THEN NoDialog ELSE dialog
  BY DEF Answered
<1> DEFINE h    == Head(j.todo)
           next == [j EXCEPT !.todo = Tail(@), !.any = @ \/ ok]
<1>2. /\ added \in [Token -> 0..1] /\ jobs \subseteq Jobs
      /\ \A k \in jobs : Distinct(k.todo) /\ \A s \in ToSet(k.todo) : added[s] = 0
      /\ \A k, l \in jobs : k # l => ToSet(k.todo) \cap ToSet(l.todo) = {}
  BY DEF AddInv, JobsKnown
<1>3. /\ j \in Jobs /\ j.todo \in Seq(Token) /\ j.todo # <<>> /\ j.any \in BOOLEAN
      /\ Distinct(j.todo)
  BY <1>2 DEF Jobs
<1>4. /\ h \in ToSet(j.todo) /\ h \in Token
      /\ Tail(j.todo) \in Seq(Token) /\ Distinct(Tail(j.todo))
      /\ ToSet(Tail(j.todo)) \subseteq ToSet(j.todo) \ {h}
  BY <1>3, DistinctTail, HeadTailProperties
<1>5. /\ next.todo = Tail(j.todo) /\ next.win = j.win /\ next.any = (j.any \/ ok)
      /\ next \in [win : 1..windows, todo : Seq(Token), any : BOOLEAN]
  BY <1>3, <1>4 DEF Jobs
<1>6. /\ added' = [added EXCEPT ![h] = IF ok THEN @ + 1 ELSE @]
      /\ jobs' = (jobs \ {j}) \cup IF next.todo = <<>> THEN {} ELSE {next}
      /\ dialog' = IF next.todo = <<>> /\ next.any THEN NoDialog ELSE dialog
      /\ windows' = windows
  BY <1>1 DEF Answered, Counts
<1> HIDE DEF next, h
<1>7. /\ added[h] = 0 /\ added' \in [Token -> 0..1]
      /\ \A s \in Token \ {h} : added'[s] = added[s]
      /\ ~ok => added' = added
  <2>1. added[h] = 0
    BY <1>2, <1>4
  <2> QED
    BY <1>2, <1>4, <1>6, <2>1
<1>8. \A k \in jobs' : \/ k \in jobs /\ k # j
                       \/ k = next /\ next.todo # <<>>
  BY <1>6
<1>9. \A k \in jobs \ {j} : h \notin ToSet(k.todo) /\ ToSet(k.todo) \subseteq Token
  <2> TAKE k \in jobs \ {j}
  <2>1. ToSet(k.todo) \subseteq Token
    <3>1. k.todo \in Seq(Token)
      BY <1>2 DEF Jobs
    <3> QED
      BY <3>1, LenProperties, ElementOfSeq DEF ToSet
  <2>2. ToSet(k.todo) \cap ToSet(j.todo) = {}
    BY <1>2
  <2> QED
    BY <1>4, <2>1, <2>2
<1>10. ToSet(j.todo) \subseteq Token
  BY <1>3, LenProperties, ElementOfSeq DEF ToSet
<1>11. JobsKnown'
  <2>1. Jobs' = Jobs
    BY <1>6 DEF Jobs
  <2>2. jobs' \subseteq Jobs
    <3>1. next.todo # <<>> => next \in Jobs
      BY <1>5 DEF Jobs
    <3> QED
      BY <1>2, <1>8, <3>1
  <2>3. \A k \in jobs' : Distinct(k.todo) /\ \A s \in ToSet(k.todo) : added'[s] = 0
    <3>1. ASSUME NEW k \in jobs, k # j
          PROVE  Distinct(k.todo) /\ \A s \in ToSet(k.todo) : added'[s] = 0
      BY <3>1, <1>2, <1>7, <1>9
    <3>2. Distinct(next.todo) /\ \A s \in ToSet(next.todo) : added'[s] = 0
      BY <1>2, <1>4, <1>5, <1>7, <1>10
    <3> QED
      BY <1>8, <3>1, <3>2
  <2>4. \A k, l \in jobs' : k # l => ToSet(k.todo) \cap ToSet(l.todo) = {}
    <3>1. ToSet(next.todo) \subseteq ToSet(j.todo)
      BY <1>4, <1>5
    <3>2. \A k \in jobs \ {j} : ToSet(k.todo) \cap ToSet(next.todo) = {}
      BY <3>1, <1>2
    <3> QED
      BY <1>2, <1>8, <3>2
  <2> QED
    BY <1>7, <2>1, <2>2, <2>3, <2>4 DEF JobsKnown
<1>12. HeldKnown'
  <2>1. CASE dialog' = NoDialog
    BY <2>1 DEF HeldKnown, Adding, NoDialog
  <2>2. CASE dialog' = dialog /\ ~Adding
    BY <2>2 DEF HeldKnown, Adding
  <2>3. CASE dialog' = dialog /\ Adding /\ ~(next.todo = <<>> /\ next.any)
    <3>1. Held' = Held /\ Held \subseteq Token
      <4>1. /\ dialog.sources \in Seq(Token) /\ dialog.text \in Seq(Token)
            /\ dialog.reading \subseteq Token
        BY <2>3, DialogHas
      <4>2. ToSet(dialog.sources) \subseteq Token /\ ToSet(dialog.text) \subseteq Token
        BY <4>1, LenProperties, ElementOfSeq DEF ToSet
      <4> QED
        BY <2>3, <4>1, <4>2 DEF Held
    <3>2. /\ \A k \in jobs : k.win # dialog.win => ToSet(k.todo) \cap Held = {}
          /\ \A s \in Held : added[s] = 0 \/ \E k \in jobs : k.win = dialog.win /\ k.any
      BY <2>3 DEF AddInv, HeldKnown
    <3>3. \A k \in jobs' : k.win # dialog.win => ToSet(k.todo) \cap Held = {}
      BY <3>2, <1>4, <1>5, <1>8
    <3>4. ASSUME NEW s \in Held
          PROVE  added'[s] = 0 \/ \E k \in jobs' : k.win = dialog.win /\ k.any
      <4>1. CASE \E k \in jobs \ {j} : k.win = dialog.win /\ k.any
        BY <4>1, <1>6
      <4>2. CASE j.win = dialog.win /\ (j.any \/ ok)
        <5>1. next.any /\ next \in jobs' /\ next.win = dialog.win
          BY <4>2, <2>3, <1>5, <1>6
        <5> QED
          BY <5>1
      <4>3. CASE /\ ~\E k \in jobs : k.win = dialog.win /\ k.any
                 /\ ~(j.win = dialog.win /\ ok)
        <5>1. added[s] = 0
          BY <4>3, <3>2
        <5>2. CASE ~ok
          BY <5>1, <5>2, <1>7
        <5>3. CASE ok
          <6>1. j.win # dialog.win
            BY <4>3, <5>3
          <6>2. s # h /\ s \in Token
            BY <6>1, <3>1, <3>2, <1>4
          <6> QED
            BY <5>1, <6>2, <1>7
        <5> QED
          BY <5>2, <5>3
      <4> QED
        BY <4>1, <4>2, <4>3
    <3>5. /\ Distinct(dialog.sources) /\ Distinct(dialog.text)
          /\ ToSet(dialog.sources) \cap ToSet(dialog.text) = {}
          /\ (ToSet(dialog.sources) \cup ToSet(dialog.text)) \cap dialog.reading = {}
      BY <2>3, DialogHas
    <3>6. /\ (\A k \in jobs : k.win # dialog.win => ToSet(k.todo) \cap Held = {})'
          /\ (\A s \in Held : added[s] = 0 \/ \E k \in jobs : k.win = dialog.win /\ k.any)'
      BY <2>3, <3>1, <3>3, <3>4
    <3> QED
      BY <2>3, <3>5, <3>6 DEF HeldKnown
  <2> QED
    BY <1>6, <2>1, <2>2, <2>3
<1> QED
  BY <1>11, <1>12

LEMMA AddStep == AddInv /\ [Next]_vars => AddInv'
<1> SUFFICES ASSUME AddInv, [Next]_vars PROVE AddInv'
  OBVIOUS
<1>1. DialogKnown'
  BY KnownStep DEF AddInv
<1>2. ASSUME JobsStay, dialog' = dialog \/ ~(Adding') PROVE AddInv'
  BY <1>1, <1>2, JobsLeft, SameHeld DEF AddInv
<1>3. CASE ListNext \/ UNCHANGED vars \/ \E w \in writes : Applied(w) \/ WriteFails(w)
  BY <1>3, <1>2, ListStep, CallEnds DEF JobsStay, vars
<1>4. CASE Poll \/ Elsewhere
  <2>1. \/ dialog' = dialog
        \/ dialog.kind = "labels" /\ dialog' = [dialog EXCEPT !.fresh = FALSE]
    BY <1>4 DEF Poll, Elsewhere
  <2>2. dialog' = dialog \/ ~(Adding')
    BY <2>1 DEF Adding, AddInv, DialogKnown
  <2> QED
    BY <1>4, <2>2, <1>2 DEF Poll, Elsewhere, Working, Counts, JobsStay
<1>5. CASE DialogNext
  <2>1. ASSUME \/ Cancel \/ ConfirmRemove \/ Rename \/ SaveTrackers \/ SaveLabels
               \/ \E d \in Dir : Move(d)
        PROVE  AddInv'
    <3>1. dialog' = NoDialog /\ JobsStay
      BY <2>1 DEF Cancel, ConfirmRemove, Rename, SaveTrackers, SaveLabels, Move, Save,
                  Send, Working, Counts, JobsStay
    <3> QED
      BY <3>1, <1>2 DEF NoDialog, Adding
  <2>2. ASSUME \/ \E v \in 0..1 : SetLimit(v) \/ SetKey(v) \/ SetTime(v)
               \/ \E d \in Day : SetDay(d)
               \/ \E p \in Transport, on \in BOOLEAN : SetTransport(p, on)
               \/ Turtle
        PROVE  AddInv'
    <3>1. dialog' = dialog /\ JobsStay
      BY <2>2 DEF SetLimit, SetKey, SetTime, SetDay, SetTransport, Patch, Turtle, Send,
                  JobsStay
    <3> QED
      BY <3>1, <1>2
  <2>3. ASSUME \/ OpenLabels \/ OpenLocation \/ OpenRename \/ OpenRemove \/ OpenLimits
               \/ OpenTrackers \/ OpenSettings
        PROVE  AddInv'
    <3>1. JobsStay
      BY <2>3 DEF OpenLabels, OpenLocation, OpenRename, OpenRemove, OpenLimits,
                  OpenTrackers, OpenSettings, Open, Show, JobsStay
    <3>2. ~(Adding')
      BY <2>3 DEF OpenLabels, OpenLocation, OpenRename, OpenRemove, OpenLimits,
                  OpenTrackers, OpenSettings, Open, Show, Adding
    <3> QED
      BY <3>1, <3>2, <1>2
  <2>4. ASSUME OpenAdd PROVE AddInv'
    <3>1. Show(NewAdd(<<>>, {})) /\ {} \in SUBSET Unused
      BY <2>4 DEF OpenAdd, Open
    <3> QED
      BY <3>1, <1>1, FreshHeld, JobsLeft DEF AddInv
  <2>5. ASSUME Drop PROVE AddInv'
    <3>1. CASE Adding
      BY <2>5, <3>1, <1>1, EditsHeld, JobsLeft DEF Drop, AddInv
    <3>2. CASE ~Adding
      <4>1. PICK s \in Unused : Show(NewAdd(<<>>, {s}))
        BY <2>5, <3>2 DEF Drop
      <4>2. {s} \in SUBSET Unused
        BY <4>1
      <4> QED
        BY <4>1, <4>2, <1>1, FreshHeld, JobsLeft DEF AddInv
    <3> QED
      BY <3>1, <3>2
  <2>6. ASSUME \/ AddFiles \/ TypeLink \/ AddText
               \/ \E k \in 1..Cardinality(Token) : RemoveSource(k)
        PROVE  AddInv'
    <3>1. Adding
      BY <2>6 DEF AddFiles, TypeLink, AddText, RemoveSource
    <3> QED
      BY <2>6, <3>1, <1>1, EditsHeld, JobsLeft DEF AddInv
  <2>7. ASSUME Submit PROVE AddInv'
    BY <2>7, <1>1, SubmitStep DEF AddInv
  <2>8. ASSUME NEW j \in jobs, Answered(j) PROVE AddInv'
    BY <2>8, <1>1, AnsweredStep DEF AddInv
  <2>9. ASSUME \/ \E l \in Label : ToggleLabel(l)
               \/ \E list \in SUBSET Url : TypeTrackers(list)
        PROVE  AddInv'
    <3>1. JobsStay /\ dialog.kind # "add" /\ dialog'.kind = dialog.kind
      BY <2>9 DEF ToggleLabel, TypeTrackers, Edit, JobsStay, Working, Counts, AddInv,
                  DialogKnown
    <3> QED
      BY <3>1, <1>2 DEF Adding
  <2>10. ASSUME NEW w \in reads, Loaded(w) \/ LoadFails(w) PROVE AddInv'
    <3>1. JobsStay
      BY <2>10 DEF Loaded, LoadFails, Counts, JobsStay
    <3>2. \/ dialog' = dialog
          \/ dialog.kind # "add" /\ dialog'.kind = dialog.kind
      BY <2>10 DEF Loaded, LoadFails, Waiting, AddInv, DialogKnown
    <3> QED
      BY <3>1, <3>2, <1>2 DEF Adding
  <2> QED
    BY <1>5, <2>1, <2>2, <2>3, <2>4, <2>5, <2>6, <2>7, <2>8, <2>9, <2>10 DEF DialogNext
<1> QED
  BY <1>3, <1>4, <1>5 DEF Next

\* Whatever is dropped, typed, submitted again, answered and refused, and in
\* whichever dialog: no source is added a second time.
THEOREM AddOnceHolds == Spec => []AddOnce
<1>1. AddInv => AddOnce
  BY DEF AddInv, JobsKnown, AddOnce
<1> QED
  BY <1>1, AddInit, AddStep, PTL DEF Spec

-----------------------------------------------------------------------------
(* The order of the list.                                                  *)

\* A set of numbers that is not empty has a least one.
LEMMA LeastOne ==
  ASSUME NEW S \in SUBSET Nat, S # {}
  PROVE  \E x \in S : \A y \in S : x <= y
<1> DEFINE T == {0..x : x \in S}
<1>1. T \subseteq FiniteSubsetsOf(Nat) /\ T # {}
  <2>1. \A x \in S : IsFiniteSet(0..x) /\ 0..x \subseteq Nat
    BY FS_Interval
  <2> QED
    BY <2>1 DEF FiniteSubsetsOf
<1>2. PICK m \in T : \A y \in T : ~ (<<y, m>> \in StrictSubsetOrdering(Nat))
  <2> HIDE DEF T
  <2> QED
    BY <1>1, WFMin, FS_StrictSubsetOrderingWellFounded
<1>3. PICK x \in S : m = 0..x
  OBVIOUS
<1>4. ASSUME NEW y \in S PROVE x <= y
  <2>1. 0..y \in T /\ 0..y \in SUBSET Nat /\ 0..x \in SUBSET Nat
    OBVIOUS
  <2>2. ~ (0..y \subseteq 0..x /\ 0..y # 0..x)
    BY <1>2, <1>3, <2>1 DEF StrictSubsetOrdering
  <2>3. CASE ~ (x <= y)
    <3>1. 0..y \subseteq 0..x /\ x \in 0..x /\ x \notin 0..y
      BY <2>3
    <3> QED
      BY <2>2, <3>1
  <2> QED
    BY <2>3
<1> QED
  BY <1>4

\* Min is that one.
LEMMA MinOfNats ==
  ASSUME NEW S \in SUBSET Nat, S # {}
  PROVE  Min(S) \in S /\ \A y \in S : Min(S) <= y
  BY LeastOne DEF Min

\* Numbers of 0..n-1, a different one for each of n things, are all of them.
LEMMA AllTaken ==
  ASSUME NEW D, IsFiniteSet(D), NEW r \in [D -> 0..(Cardinality(D) - 1)],
         \A i, j \in D : r[i] = r[j] => i = j
  PROVE  \A p \in 0..(Cardinality(D) - 1) : \E i \in D : r[i] = p
<1> DEFINE T == 0..(Cardinality(D) - 1)
<1>1. IsFiniteSet(T) /\ Cardinality(T) = Cardinality(D)
  <2>1. Cardinality(D) \in Nat
    BY FS_CardinalityType
  <2>2. Cardinality(D) - 1 \in Int
    BY <2>1
  <2> QED
    BY <2>1, <2>2, FS_Interval
<1> HIDE DEF T
<1>2. r \in Injection(D, T)
  BY DEF T, Injection, IsInjective
<1>3. r \in Surjection(D, T)
  BY <1>1, <1>2, FS_Injection
<1>4. \A p \in T : \E i \in D : r[i] = p
  BY <1>3 DEF Surjection
<1> QED
  BY <1>4 DEF T

\* In a finite set with a strict total order, the number of those before it
\* tells the place of each: no two have the same.
LEMMA Ranking ==
  ASSUME NEW D, IsFiniteSet(D), NEW R,
         \A i \in D : <<i, i>> \notin R,
         \A i, j, k \in D : <<i, j>> \in R /\ <<j, k>> \in R => <<i, k>> \in R,
         \A i, j \in D : i # j => <<i, j>> \in R \/ <<j, i>> \in R,
         NEW r, \A i \in D : r[i] = Cardinality({j \in D : <<j, i>> \in R})
  PROVE  /\ \A i \in D : r[i] \in 0..(Cardinality(D) - 1)
         /\ \A i, j \in D : <<i, j>> \in R <=> r[i] < r[j]
         /\ \A i, j \in D : r[i] = r[j] => i = j
<1> DEFINE Lower(i) == {j \in D : <<j, i>> \in R}
           n == Cardinality(D)
<1>1. n \in Nat
  BY FS_CardinalityType
<1>2. ASSUME NEW i \in D
      PROVE  /\ IsFiniteSet(Lower(i)) /\ r[i] \in 0..(n - 1) /\ r[i] \in Int
             /\ r[i] = Cardinality(Lower(i))
  <2>1. /\ IsFiniteSet(Lower(i)) /\ Cardinality(Lower(i)) <= n
        /\ n = Cardinality(Lower(i)) => D = Lower(i)
    BY FS_Subset
  <2>2. i \notin Lower(i) /\ r[i] = Cardinality(Lower(i))
    OBVIOUS
  <2>3. Cardinality(Lower(i)) \in Nat
    BY <2>1, FS_CardinalityType
  <2> HIDE DEF Lower, n
  <2> QED
    BY <1>1, <2>1, <2>2, <2>3
<1>3. ASSUME NEW i \in D, NEW j \in D, <<i, j>> \in R PROVE r[i] < r[j]
  <2>1. Lower(i) \subseteq Lower(j) /\ i \in Lower(j) /\ i \notin Lower(i)
    BY <1>3
  <2>2. /\ Cardinality(Lower(i)) <= Cardinality(Lower(j))
        /\ Cardinality(Lower(j)) = Cardinality(Lower(i)) => Lower(j) = Lower(i)
    BY <1>2, <2>1, FS_Subset
  <2> HIDE DEF Lower
  <2> QED
    BY <1>2, <2>1, <2>2
<1>4. ASSUME NEW i \in D, NEW j \in D
      PROVE  /\ <<i, j>> \in R <=> r[i] < r[j]
             /\ r[i] = r[j] => i = j
  <2>1. r[i] \in Int /\ r[j] \in Int
    BY <1>2
  <2>2. /\ <<i, j>> \in R => r[i] < r[j]
        /\ <<j, i>> \in R => r[j] < r[i]
    BY <1>3
  <2>3. i = j \/ <<i, j>> \in R \/ <<j, i>> \in R
    OBVIOUS
  <2> QED
    BY <2>1, <2>2, <2>3
<1> QED
  BY <1>2, <1>4

\* Keys of one length are in a strict total order.
LEMMA BeforeOrders ==
  ASSUME NEW l \in Nat, NEW Key, Key = [1..l -> Int]
  PROVE  /\ \A a \in Key : ~Before(a, a)
         /\ \A a, b, c \in Key : Before(a, b) /\ Before(b, c) => Before(a, c)
         /\ \A a, b \in Key : a # b => Before(a, b) \/ Before(b, a)
<1>1. \A a \in Key : DOMAIN a = 1..l /\ \A k \in 1..l : a[k] \in Int
  OBVIOUS
<1>2. ASSUME NEW a \in Key, NEW b \in Key, NEW c \in Key, Before(a, b), Before(b, c)
      PROVE  Before(a, c)
  <2>1. PICK k \in 1..l : a[k] < b[k] /\ \A m \in 1..(k - 1) : a[m] = b[m]
    BY <1>1, <1>2 DEF Before
  <2>2. PICK p \in 1..l : b[p] < c[p] /\ \A m \in 1..(p - 1) : b[m] = c[m]
    BY <1>1, <1>2 DEF Before
  <2>3. CASE k <= p
    <3>1. b[k] <= c[k]
      <4>1. CASE k = p
        BY <1>1, <2>2, <4>1
      <4>2. CASE k # p
        <5>1. k \in 1..(p - 1)
          BY <2>3, <4>2
        <5> QED
          BY <1>1, <2>2, <5>1
      <4> QED
        BY <4>1, <4>2
    <3>2. a[k] < c[k]
      BY <1>1, <2>1, <3>1
    <3>3. \A m \in 1..(k - 1) : a[m] = c[m]
      BY <2>1, <2>2, <2>3
    <3> QED
      BY <1>1, <3>2, <3>3 DEF Before
  <2>4. CASE p < k
    <3>1. a[p] = b[p]
      BY <2>1, <2>4
    <3>2. \A m \in 1..(p - 1) : a[m] = c[m]
      BY <2>1, <2>2, <2>4
    <3> QED
      BY <1>1, <2>2, <3>1, <3>2 DEF Before
  <2> QED
    BY <2>3, <2>4
<1>3. ASSUME NEW a \in Key, NEW b \in Key, a # b
      PROVE  Before(a, b) \/ Before(b, a)
  <2> DEFINE Differ == {k \in 1..l : a[k] # b[k]}
  <2>1. Differ \in SUBSET Nat /\ Differ # {}
    BY <1>3
  <2>2. PICK k \in Differ : \A m \in Differ : k <= m
    <3> HIDE DEF Differ
    <3> QED
      BY <2>1, LeastOne
  <2>3. k \in 1..l /\ \A m \in 1..(k - 1) : a[m] = b[m]
    BY <2>2
  <2>4. a[k] < b[k] \/ b[k] < a[k]
    BY <1>1, <2>2, <2>3
  <2> QED
    BY <1>1, <2>3, <2>4 DEF Before
<1>4. \A a \in Key : ~Before(a, a)
  BY <1>1 DEF Before
<1> QED
  BY <1>2, <1>3, <1>4

\* What the list needs of torrents to sort them and to tell their folders.
Housed(t) == {"dir", "size"} \subseteq DOMAIN t /\ t.dir \in Dir /\ t.size \in Nat

\* A list of torrents.
Listing(ts) == DOMAIN ts \subseteq Id /\ \A i \in DOMAIN ts : Housed(ts[i])

\* What the list is sorted by.
Sorting(n) == n.sort \in SortKeys /\ n.dir \in {-1, 1}

KeyLength(n) == CASE n.sort = "name" -> 1 [] n.sort = "path" -> 3 [] OTHER -> 2

\* The path below the base has a length.
LEMMA RelDirLength ==
  ASSUME NEW d \in Dir
  PROVE  Len(RelDir(d)) \in Nat
<1>1. d \in Seq(STRING) /\ Len(Base) \in Nat
  BY DeskAssumption
<1>2. Len(d) \in Nat /\ \A k \in 1..Len(d) : d[k] \in STRING
  BY <1>1, ElementOfSeq
<1>3. SubSeq(d, Len(Base) + 1, Len(d)) \in Seq(STRING)
  BY <1>1, <1>2, SubSeqProperties
<1> QED
  BY <1>1, <1>3, LenProperties DEF RelDir

\* Keys of the rows have one length, and tell the torrent.
LEMMA SortKeyType ==
  ASSUME NEW n, Sorting(n), NEW i \in Nat, NEW t, Housed(t)
  PROVE  /\ SortKey(n, i, t) \in [1..KeyLength(n) -> Int]
         /\ SortKey(n, i, t)[KeyLength(n)] = IF n.sort = "name" THEN n.dir * i ELSE i
<1>1. \A x \in Nat : n.dir * x \in Int
  BY DEF Sorting
<1>2. CASE n.sort = "name"
  BY <1>1, <1>2 DEF SortKey, KeyLength
<1>3. CASE n.sort = "size"
  BY <1>1, <1>3 DEF SortKey, KeyLength, Housed
<1>4. CASE n.sort = "state"
  <2>1. Rank(t) \in Nat
    BY DEF Rank
  <2> QED
    BY <1>1, <1>4, <2>1 DEF SortKey, KeyLength
<1>5. CASE n.sort = "path"
  <2>1. Len(RelDir(t.dir)) \in Nat
    BY RelDirLength DEF Housed
  <2> QED
    BY <1>1, <1>5, <2>1 DEF SortKey, KeyLength
<1> QED
  BY <1>2, <1>3, <1>4, <1>5 DEF Sorting, SortKeys

\* The list has each torrent that passes once, in the order of the keys.
LEMMA RowsSorted ==
  ASSUME NEW ts, Listing(ts), NEW n, Sorting(n)
  PROVE  /\ DOMAIN Rows(ts, n) = 1..Cardinality(Passing(ts, n))
         /\ ToSet(Rows(ts, n)) = Passing(ts, n)
         /\ \A k, m \in DOMAIN Rows(ts, n) :
              k < m => LET i == Rows(ts, n)[k]
                           j == Rows(ts, n)[m]
                       IN  Before(SortKey(n, i, ts[i]), SortKey(n, j, ts[j]))
<1> DEFINE D == Passing(ts, n)
           key == [i \in D |-> SortKey(n, i, ts[i])]
           R == {p \in D \X D : Before(key[p[1]], key[p[2]])}
           r == [i \in D |-> Cardinality({j \in D : Before(key[j], key[i])})]
           N == Cardinality(D)
           list == Rows(ts, n)
<1>1. IsFiniteSet(D) /\ N \in Nat /\ D \subseteq Nat
  <2>1. D \subseteq Id
    BY DEF Listing, Passing
  <2> QED
    BY <2>1, DeskAssumption, FS_Subset, FS_CardinalityType
<1>2. \A i \in D : key[i] \in [1..KeyLength(n) -> Int]
  BY <1>1, SortKeyType DEF Listing, Passing
<1>3. KeyLength(n) \in Nat
  BY DEF KeyLength
<1>4. \A i, j \in D : key[i] = key[j] => i = j
  <2> SUFFICES ASSUME NEW i \in D, NEW j \in D, key[i] = key[j] PROVE i = j
    OBVIOUS
  <2>1. /\ key[i][KeyLength(n)] = IF n.sort = "name" THEN n.dir * i ELSE i
        /\ key[j][KeyLength(n)] = IF n.sort = "name" THEN n.dir * j ELSE j
    BY <1>1, SortKeyType DEF Listing, Passing
  <2>2. i \in Nat /\ j \in Nat /\ n.dir \in {-1, 1}
    BY <1>1 DEF Sorting
  <2> HIDE DEF D, key
  <2> QED
    BY <2>1, <2>2
<1>5. \A i \in D : r[i] = Cardinality({j \in D : <<j, i>> \in R})
  <2> SUFFICES ASSUME NEW i \in D PROVE r[i] = Cardinality({j \in D : <<j, i>> \in R})
    OBVIOUS
  <2>1. {j \in D : <<j, i>> \in R} = {j \in D : Before(key[j], key[i])}
    OBVIOUS
  <2> QED
    BY <2>1
<1>6. /\ \A a \in [1..KeyLength(n) -> Int] : ~Before(a, a)
      /\ \A a, b, c \in [1..KeyLength(n) -> Int] :
           Before(a, b) /\ Before(b, c) => Before(a, c)
      /\ \A a, b \in [1..KeyLength(n) -> Int] : a # b => Before(a, b) \/ Before(b, a)
  BY <1>3, BeforeOrders
<1>7. \A i, j \in D : <<i, j>> \in R <=> Before(key[i], key[j])
  OBVIOUS
<1> HIDE DEF key
<1>8. /\ \A i \in D : <<i, i>> \notin R
      /\ \A i, j, k \in D : <<i, j>> \in R /\ <<j, k>> \in R => <<i, k>> \in R
      /\ \A i, j \in D : i # j => <<i, j>> \in R \/ <<j, i>> \in R
  <2> HIDE DEF D, R
  <2> QED
    BY <1>2, <1>4, <1>6, <1>7
<1>9. /\ \A i, j \in D : <<i, j>> \in R <=> r[i] < r[j]
      /\ \A i, j \in D : r[i] = r[j] => i = j
      /\ \A i \in D : r[i] \in 0..(N - 1)
      /\ \A k \in 0..(N - 1) : \E i \in D : r[i] = k
  <2> HIDE DEF D, R, r
  <2>1. \A i, j \in D : <<i, j>> \in R <=> r[i] < r[j]
    BY <1>1, <1>5, <1>8, Ranking
  <2>2. \A i, j \in D : r[i] = r[j] => i = j
    BY <1>1, <1>5, <1>8, Ranking
  <2>3. \A i \in D : r[i] \in 0..(N - 1)
    BY <1>1, <1>5, <1>8, Ranking
  <2>4. \A p \in 0..(Cardinality(D) - 1) : \E i \in D : r[i] = p
    <3>1. r \in [D -> 0..(Cardinality(D) - 1)]
      BY <2>3 DEF r
    <3> QED
      BY <1>1, <2>2, <3>1, AllTaken
  <2> QED
    BY <2>1, <2>2, <2>3, <2>4
<1>10. DOMAIN list = 1..N
  BY DEF Rows
<1>11. \A k \in 1..N : list[k] \in D /\ r[list[k]] = k - 1
  <2> SUFFICES ASSUME NEW k \in 1..N PROVE list[k] \in D /\ r[list[k]] = k - 1
    OBVIOUS
  <2>1. k - 1 \in 0..(N - 1)
    BY <1>1
  <2>2. PICK i \in D : r[i] = k - 1
    BY <1>9, <2>1
  <2>3. list[k] = CHOOSE x \in D : r[x] = k - 1
    BY DEF Rows, key
  <2> HIDE DEF D, r
  <2> QED
    BY <2>2, <2>3
<1> HIDE DEF D, r, R, list
<1>12. \A i \in D : \E k \in 1..N : list[k] = i
  <2> SUFFICES ASSUME NEW i \in D PROVE \E k \in 1..N : list[k] = i
    OBVIOUS
  <2>1. r[i] \in 0..(N - 1)
    BY <1>9
  <2>2. r[i] + 1 \in 1..N /\ (r[i] + 1) - 1 = r[i]
    BY <1>1, <2>1
  <2>3. list[r[i] + 1] \in D /\ r[list[r[i] + 1]] = r[i]
    BY <1>11, <2>2
  <2> QED
    BY <1>9, <2>2, <2>3
<1>13. ToSet(list) = D
  BY <1>10, <1>11, <1>12 DEF ToSet
<1>14. ASSUME NEW k \in 1..N, NEW m \in 1..N, k < m
       PROVE  Before(key[list[k]], key[list[m]])
  <2>1. /\ list[k] \in D /\ r[list[k]] = k - 1
        /\ list[m] \in D /\ r[list[m]] = m - 1
    BY <1>11
  <2>2. r[list[k]] < r[list[m]]
    BY <1>14, <2>1
  <2> QED
    BY <2>1, <2>2, <1>7, <1>9
<1> QED
  <2>1. ToSet(Rows(ts, n)) = Passing(ts, n) /\ DOMAIN Rows(ts, n) = 1..Cardinality(Passing(ts, n))
    BY <1>10, <1>13 DEF list, D
  <2>2. \A k, m \in DOMAIN Rows(ts, n) : k < m =>
          Before(SortKey(n, Rows(ts, n)[k], ts[Rows(ts, n)[k]]),
                 SortKey(n, Rows(ts, n)[m], ts[Rows(ts, n)[m]]))
    BY <1>10, <1>11, <1>14 DEF list, key
  <2> QED
    BY <2>1, <2>2

\* The list has as many rows as torrents pass.
LEMMA RowsCount ==
  ASSUME NEW ts, Listing(ts), NEW n
  PROVE  Len(Rows(ts, n)) = Cardinality(Passing(ts, n))
<1>1. Cardinality(Passing(ts, n)) \in Nat
  <2>1. Passing(ts, n) \subseteq Id
    BY DEF Listing, Passing
  <2> QED
    BY <2>1, DeskAssumption, FS_Subset, FS_CardinalityType
<1> QED
  BY <1>1 DEF Rows

-----------------------------------------------------------------------------
(* What the sidebar counts.                                                *)

\* The torrents whose folder is one of these.
InDirs(ts, s) == {i \in DOMAIN ts : ts[i].dir \in s}

\* A sum over folders counts each torrent in one of them once.
LEMMA SumOfDirs ==
  ASSUME NEW ts, IsFiniteSet(DOMAIN ts), NEW S, IsFiniteSet(S)
  PROVE  MapThenSumSet(LAMBDA d : PerDir(ts, d), S) = Cardinality(InDirs(ts, S))
<1> DEFINE pick(s) == CHOOSE x \in s : TRUE
           step(g) == [s \in SUBSET S |->
                         IF s = {} THEN 0 ELSE PerDir(ts, pick(s)) + g[s \ {pick(s)}]]
           iter == CHOOSE g : g = step(g)
           f == [s \in SUBSET S |-> Cardinality(InDirs(ts, s))]
<1>1. MapThenSumSet(LAMBDA d : PerDir(ts, d), S) = iter[S]
  BY DEF MapThenSumSet, MapThenFoldSet
<1>2. ASSUME NEW s \in SUBSET S, s # {}
      PROVE  Cardinality(InDirs(ts, s)) = PerDir(ts, pick(s)) + Cardinality(InDirs(ts, s \ {pick(s)}))
  <2> DEFINE x == pick(s)
             here == {i \in DOMAIN ts : ts[i].dir = x}
             rest == InDirs(ts, s \ {x})
  <2>1. x \in s
    BY <1>2
  <2> HIDE DEF x
  <2>2. InDirs(ts, s) = here \cup rest /\ here \cap rest = {}
    BY <2>1 DEF InDirs
  <2>3. IsFiniteSet(here) /\ IsFiniteSet(rest)
    BY FS_Subset DEF InDirs
  <2>4. Cardinality(here \cup rest) = Cardinality(here) + Cardinality(rest) - Cardinality(here \cap rest)
    BY <2>3, FS_Union
  <2>5. Cardinality(here \cap rest) = 0
    BY <2>2, FS_EmptySet
  <2>6. Cardinality(here) \in Nat /\ Cardinality(rest) \in Nat
    BY <2>3, FS_CardinalityType
  <2>7. PerDir(ts, x) = Cardinality(here)
    BY DEF PerDir
  <2>8. Cardinality(InDirs(ts, s)) = PerDir(ts, x) + Cardinality(rest)
    <3> HIDE DEF here, rest
    <3> QED
      BY <2>2, <2>4, <2>5, <2>6, <2>7
  <2> QED
    BY <2>8 DEF x
<1>3. Cardinality(InDirs(ts, {})) = 0
  <2>1. InDirs(ts, {}) = {}
    BY DEF InDirs
  <2> QED
    BY <2>1, FS_EmptySet
<1>4. f = step(f)
  <2>1. ASSUME NEW s \in SUBSET S
        PROVE  f[s] = IF s = {} THEN 0 ELSE PerDir(ts, pick(s)) + f[s \ {pick(s)}]
    <3>1. s \ {pick(s)} \in SUBSET S
      OBVIOUS
    <3>2. f[s \ {pick(s)}] = Cardinality(InDirs(ts, s \ {pick(s)}))
      BY <3>1
    <3> QED
      BY <3>2, <1>2, <1>3
  <2> QED
    BY <2>1
<1>5. iter = step(iter)
  <2> HIDE DEF step, f
  <2> QED
    BY <1>4
<1>6. \A s \in SUBSET S : iter[s] = IF s = {} THEN 0 ELSE PerDir(ts, pick(s)) + iter[s \ {pick(s)}]
  <2> HIDE DEF iter, pick
  <2> QED
    BY <1>5
<1> DEFINE Bad == {s \in SUBSET S : iter[s] # Cardinality(InDirs(ts, s))}
<1>7. Bad = {}
  <2> SUFFICES ASSUME Bad # {} PROVE FALSE
    OBVIOUS
  <2>1. Bad \subseteq FiniteSubsetsOf(S)
    BY FS_Subset DEF FiniteSubsetsOf
  <2>2. PICK m \in Bad : \A y \in Bad : ~ (<<y, m>> \in StrictSubsetOrdering(S))
    <3> HIDE DEF Bad
    <3> QED
      BY <2>1, WFMin, FS_StrictSubsetOrderingWellFounded
  <2>3. m # {}
    BY <1>3, <1>6
  <2> DEFINE n == m \ {pick(m)}
  <2>4. n \in SUBSET S /\ n \subseteq m /\ n # m
    BY <2>3
  <2>5. n \notin Bad
    BY <2>2, <2>4 DEF StrictSubsetOrdering
  <2>6. iter[n] = Cardinality(InDirs(ts, n))
    BY <2>4, <2>5
  <2> QED
    <3>1. m \in SUBSET S /\ iter[m] # Cardinality(InDirs(ts, m))
      OBVIOUS
    <3>2. iter[m] = PerDir(ts, pick(m)) + iter[n]
      BY <3>1, <1>6, <2>3
    <3>3. Cardinality(InDirs(ts, m)) = PerDir(ts, pick(m)) + Cardinality(InDirs(ts, n))
      BY <3>1, <1>2, <2>3
    <3> QED
      BY <3>1, <3>2, <3>3, <2>6
<1> QED
  BY <1>1, <1>7

\* What a filter lets through, alone.
Through(ts, f) == {i \in DOMAIN ts : FilterFn(f, ts[i])}

\* What the list shows once a row of the sidebar is picked.
All(n, f) == [n EXCEPT !.filter = f, !.search = Id, !.adv = NoAdv]

\* Such a list has as many rows as the filter lets torrents through.
LEMMA AllThrough ==
  ASSUME NEW ts, Listing(ts), NEW n, {"filter", "search", "adv"} \subseteq DOMAIN n, NEW f
  PROVE  Len(Rows(ts, All(n, f))) = Cardinality(Through(ts, f))
<1> DEFINE a == All(n, f)
<1>1. a.filter = f /\ a.search = Id /\ a.adv = NoAdv
  BY DEF All
<1>2. \A t : AdvFn(NoAdv, t)
  BY DEF AdvFn, NoAdv
<1>3. Passing(ts, a) = Through(ts, f)
  <2> HIDE DEF a
  <2> QED
    BY <1>1, <1>2 DEF Passing, Through, Listing
<1> QED
  BY <1>3, RowsCount

\* A path with a folder in it is in front of another if the other begins so.
LEMMA FolderPrefix ==
  ASSUME NEW d \in Seq(STRING), NEW p \in Seq(STRING), Len(p) >= 1
  PROVE  IsPrefix(p, d) <=> \E m \in 1..Len(d) : SubSeq(d, 1, m) = p
<1>1. /\ Len(d) \in Nat /\ \A m \in 1..Len(d) : d[m] \in STRING
      /\ Len(p) \in Nat /\ \A m \in 1..Len(p) : p[m] \in STRING
  BY ElementOfSeq
<1>2. SubSeq(p, 1, Len(p)) = p
  <2>1. SubSeq(p, 1, Len(p)) = [m \in 1..Len(p) |-> p[m]]
    BY <1>1 DEF SubSeq
  <2> QED
    BY <1>1, <2>1
<1>3. \A m \in 1..Len(d) : Len(SubSeq(d, 1, m)) = m
  <2> SUFFICES ASSUME NEW m \in 1..Len(d) PROVE Len(SubSeq(d, 1, m)) = m
    OBVIOUS
  <2>1. \A j \in 1..m : d[j] \in STRING
    BY <1>1
  <2>2. m \in Int /\ 1 <= m
    BY <1>1
  <2> QED
    BY <2>1, <2>2, SubSeqProperties
<1>4. ASSUME IsPrefix(p, d) PROVE \E m \in 1..Len(d) : SubSeq(d, 1, m) = p
  <2>1. Len(p) \in 1..Len(d)
    BY <1>1, <1>4 DEF IsPrefix
  <2>2. SubSeq(d, 1, Len(p)) = p
    BY <1>2, <1>4 DEF IsPrefix
  <2> QED
    BY <2>1, <2>2
<1>5. ASSUME NEW m \in 1..Len(d), SubSeq(d, 1, m) = p PROVE IsPrefix(p, d)
  <2>1. Len(p) = m
    BY <1>3, <1>5
  <2>2. Len(p) <= Len(d)
    BY <1>1, <2>1
  <2>3. SubSeq(p, 1, Len(p)) = SubSeq(d, 1, Len(p))
    BY <1>2, <1>5, <2>1
  <2> QED
    BY <2>2, <2>3 DEF IsPrefix
<1> QED
  BY <1>4, <1>5

\* The beginning of a path is one.
LEMMA Beginning ==
  ASSUME NEW e \in Seq(STRING), NEW k \in 1..Len(e)
  PROVE  SubSeq(e, 1, k) \in Seq(STRING) /\ Len(SubSeq(e, 1, k)) >= 1
<1>1. Len(e) \in Nat /\ \A m \in 1..k : e[m] \in STRING
  BY ElementOfSeq
<1>2. k \in Int /\ 1 <= k
  BY <1>1
<1> QED
  BY <1>1, <1>2, SubSeqProperties

\* A folder counts the torrents that its filter lets through.
LEMMA WithinCounts ==
  ASSUME NEW ts, Listing(ts), NEW j \in DOMAIN ts, NEW p \in Folders(ts[j].dir)
  PROVE  /\ Within(ts, p) = Cardinality(Through(ts, <<"dir", p>>))
         /\ j \in Through(ts, <<"dir", p>>)
<1> DEFINE dirs == {ts[i].dir : i \in DOMAIN ts}
           S == {d \in dirs : \E k \in 1..Len(d) : SubSeq(d, 1, k) = p}
<1>1. \A i \in DOMAIN ts : ts[i].dir \in Seq(STRING)
  BY DeskAssumption DEF Listing, Housed
<1>2. IsFiniteSet(DOMAIN ts)
  BY DeskAssumption, FS_Subset DEF Listing
<1>3. IsFiniteSet(S)
  <2>1. IsFiniteSet(dirs)
    <3> DEFINE f == [i \in DOMAIN ts |-> ts[i].dir]
    <3>1. f \in Surjection(DOMAIN ts, dirs)
      BY DEF Surjection
    <3> HIDE DEF f, dirs
    <3> QED
      BY <1>2, <3>1, FS_Surjection
  <2> HIDE DEF dirs
  <2> QED
    BY <2>1, FS_Subset
<1>4. PICK k \in 1..Len(ts[j].dir) : p = SubSeq(ts[j].dir, 1, k)
  <2>1. Len(Base) \in Nat /\ Len(ts[j].dir) \in Nat
    BY <1>1, DeskAssumption
  <2>2. PICK from \in {1, Len(Base) + 1} :
          p \in {SubSeq(ts[j].dir, 1, k) : k \in from..Len(ts[j].dir)}
    BY DEF Folders
  <2>3. from \in Nat /\ from >= 1
    BY <2>1, <2>2
  <2> QED
    BY <2>1, <2>2, <2>3
<1>5. \A i \in DOMAIN ts : ts[i].dir \in S <=> FilterFn(<<"dir", p>>, ts[i])
  <2> SUFFICES ASSUME NEW i \in DOMAIN ts
               PROVE  ts[i].dir \in S <=> FilterFn(<<"dir", p>>, ts[i])
    OBVIOUS
  <2>1. ts[i].dir \in S <=> \E m \in 1..Len(ts[i].dir) : SubSeq(ts[i].dir, 1, m) = p
    OBVIOUS
  <2>2. IsPrefix(p, ts[i].dir) <=> \E m \in 1..Len(ts[i].dir) : SubSeq(ts[i].dir, 1, m) = p
    <3>1. ts[i].dir \in Seq(STRING) /\ p \in Seq(STRING) /\ Len(p) >= 1
      BY <1>1, <1>4, Beginning
    <3> QED
      BY <3>1, FolderPrefix
  <2>3. FilterFn(<<"dir", p>>, ts[i]) <=> IsPrefix(p, ts[i].dir)
    BY DEF FilterFn
  <2> QED
    BY <2>1, <2>2, <2>3
<1>6. j \in Through(ts, <<"dir", p>>)
  <2>1. ts[j].dir \in S
    BY <1>4
  <2> QED
    BY <1>5, <2>1 DEF Through
<1>7. Within(ts, p) = Cardinality(InDirs(ts, S))
  <2>1. Within(ts, p) = MapThenSumSet(LAMBDA d : PerDir(ts, d), S)
    BY DEF Within
  <2> HIDE DEF S
  <2> QED
    BY <1>2, <1>3, <2>1, SumOfDirs
<1>8. InDirs(ts, S) = Through(ts, <<"dir", p>>)
  <2> HIDE DEF S
  <2> QED
    BY <1>5 DEF InDirs, Through
<1> QED
  BY <1>6, <1>7, <1>8

\* A row of the sidebar counts what the list shows when it is picked, and is
\* no dead end unless it is in force or pinned.
LEMMA RowTells ==
  ASSUME NEW ts, Listing(ts), NEW f, NEW r \in SideRows(f, ts)
  PROVE  /\ r.count = Cardinality(Through(ts, r.filter))
         /\ r.count > 0 \/ r.filter = f \/ r.filter[2] \in Pinned
<1>1. IsFiniteSet(DOMAIN ts)
  BY DeskAssumption, FS_Subset DEF Listing
<1>2. \A j, g : j \in Through(ts, g) => Cardinality(Through(ts, g)) > 0
  <2> SUFFICES ASSUME NEW j, NEW g, j \in Through(ts, g)
               PROVE  Cardinality(Through(ts, g)) > 0
    OBVIOUS
  <2>1. IsFiniteSet(Through(ts, g))
    BY <1>1, FS_Subset DEF Through
  <2>2. Cardinality(Through(ts, g)) # 0 /\ Cardinality(Through(ts, g)) \in Nat
    BY <2>1, FS_EmptySet, FS_CardinalityType
  <2> QED
    BY <2>2
<1>3. CASE r \in StatusRows(f, ts)
  <2> DEFINE C(k) == Cardinality({i \in DOMAIN ts : StatusFilter(k, ts[i])})
  <2>1. PICK k \in Known : /\ r = [filter |-> <<"status", k>>, count |-> C(k)]
                           /\ C(k) > 0 \/ k \in Pinned \/ f = <<"status", k>>
    BY <1>3 DEF StatusRows, FilterOrder
  <2>2. \A t : FilterFn(<<"status", k>>, t) = StatusFilter(k, t)
    BY DEF FilterFn
  <2>3. Through(ts, <<"status", k>>) = {i \in DOMAIN ts : StatusFilter(k, ts[i])}
    BY <2>2 DEF Through
  <2> QED
    BY <2>1, <2>3
<1>4. CASE r \in LabelRows(ts)
  <2>1. PICK l : /\ \E i \in DOMAIN ts : l \in ts[i].labels
                 /\ r = [filter |-> <<"label", l>>,
                         count |-> Cardinality({i \in DOMAIN ts : l \in ts[i].labels})]
    BY <1>4 DEF LabelRows
  <2>2. \A t : FilterFn(<<"label", l>>, t) <=> l \in t.labels
    BY DEF FilterFn
  <2>3. Through(ts, <<"label", l>>) = {i \in DOMAIN ts : l \in ts[i].labels}
    BY <2>2 DEF Through
  <2> QED
    BY <1>2, <2>1, <2>3
<1>5. CASE r \in FolderRows(ts)
  <2>1. PICK j, p : /\ j \in DOMAIN ts /\ p \in Folders(ts[j].dir)
                    /\ r = [filter |-> <<"dir", p>>, count |-> Within(ts, p)]
    BY <1>5 DEF FolderRows
  <2> QED
    BY <1>2, <2>1, WithinCounts
<1> QED
  BY <1>3, <1>4, <1>5 DEF SideRows

\* What the sidebar needs of the list's settings.
NavKnown ==
    /\ {"filter", "search", "adv", "sort", "dir"} \subseteq DOMAIN nav
    /\ Sorting(nav)
    /\ nav.filter[1] = "status" => \E k \in Known : nav.filter = <<"status", k>>

\* With such settings and torrents the sidebar tells what the list shows.
LEMMA SidebarTells ==
  ASSUME NavKnown, Listing(view.torrents)
  PROVE  SidebarTrue
<1> DEFINE side == SideRows(nav.filter, view.torrents)
           all(f) == [nav EXCEPT !.filter = f, !.search = Id, !.adv = NoAdv]
<1>1. ASSUME NEW r \in side
      PROVE  /\ r.count = Len(Rows(view.torrents, all(r.filter)))
             /\ r.count > 0 \/ r.filter = nav.filter \/ r.filter[2] \in Pinned
  <2>1. Len(Rows(view.torrents, All(nav, r.filter))) = Cardinality(Through(view.torrents, r.filter))
    BY AllThrough DEF NavKnown
  <2> QED
    BY <2>1, RowTells DEF All
<1>2. ASSUME nav.filter[1] = "status" PROVE \E r \in side : r.filter = nav.filter
  <2>1. PICK k \in Known : nav.filter = <<"status", k>>
    BY <1>2 DEF NavKnown
  <2> DEFINE row == [filter |-> <<"status", k>>,
                     count |-> Cardinality({i \in DOMAIN view.torrents :
                                              StatusFilter(k, view.torrents[i])})]
  <2>2. row \in StatusRows(nav.filter, view.torrents)
    BY <2>1 DEF StatusRows
  <2>3. row \in side /\ row.filter = nav.filter
    BY <2>1, <2>2 DEF SideRows
  <2> QED
    BY <2>3
<1> QED
  BY <1>1, <1>2 DEF SidebarTrue
-----------------------------------------------------------------------------
(* The state is of its type, and the sidebar tells the truth.              *)

Kinds == {"none", "labels", "location", "rename", "remove", "limits", "trackers",
          "add", "settings"}

SessionKnown(s) ==
    /\ {"days", "transports"} \subseteq DOMAIN s
    /\ s.days \subseteq Day /\ s.transports \subseteq Transport

\* A call that is on its way.
CallKnown(w) ==
    /\ w.op # "session" => w.ids \subseteq Id
    /\ w.op = "session" =>
         /\ "days" \in DOMAIN w.patch => w.patch.days \subseteq Day
         /\ "transports" \in DOMAIN w.patch => w.patch.transports \subseteq Transport
    /\ w.op = "location" => w.dir \in Dir
    /\ w.op = "limit" => w.win \in 1..MaxWindows

\* A dialog that is open.
DialogFits(d) ==
    /\ "kind" \in DOMAIN d /\ d.kind \in Kinds
    /\ d.kind \notin {"none", "add", "settings"} => "ids" \in DOMAIN d /\ d.ids \subseteq Id
    /\ d.kind = "limits" => "win" \in DOMAIN d /\ d.win \in 1..MaxWindows

DataKnown ==
    /\ {"torrents", "session"} \subseteq DOMAIN view
    /\ Listing(torrents) /\ Listing(view.torrents)
    /\ SessionKnown(session) /\ SessionKnown(view.session)

PickedKnown ==
    /\ selected \subseteq Id /\ menu.ids \subseteq Id
    /\ focusId \in DOMAIN view.torrents \cup {Nothing}

CallsKnown ==
    /\ \A w \in writes : CallKnown(w)
    /\ windows \in 0..MaxWindows /\ reads \subseteq 1..MaxWindows

\* The inductive invariant.
DeskInv ==
    AddInv /\ DataKnown /\ NavKnown /\ PickedKnown /\ DialogFits(dialog) /\ CallsKnown

\* A row that is shown is of a torrent that the client knows.
LEMMA ShownKnown ==
  ASSUME DataKnown, NavKnown
  PROVE  /\ ToSet(Shown) \subseteq DOMAIN view.torrents /\ ToSet(Shown) \subseteq Id
         /\ \E n \in Nat : DOMAIN Shown = 1..n /\ Len(Shown) = n
<1> DEFINE P == Passing(view.torrents, nav)
<1>1. /\ DOMAIN Shown = 1..Cardinality(P) /\ ToSet(Shown) = P
      /\ Len(Shown) = Cardinality(P)
  BY RowsSorted, RowsCount DEF DataKnown, NavKnown, Shown
<1>2. P \subseteq DOMAIN view.torrents /\ P \subseteq Id
  BY DEF Passing, DataKnown, Listing
<1>3. Cardinality(P) \in Nat
  BY <1>2, DeskAssumption, FS_Subset, FS_CardinalityType
<1> QED
  BY <1>1, <1>2, <1>3

\* A range of rows is of rows that are shown.
LEMMA SpanShown ==
  ASSUME DataKnown, NavKnown, NEW anchor, NEW i \in ToSet(Shown)
  PROVE  Span(anchor, i) \subseteq Id
<1> DEFINE index(r) == IF r \in ToSet(Shown)
                       THEN CHOOSE k \in DOMAIN Shown : Shown[k] = r ELSE 0
           a == index(anchor)
           b == index(i)
           from == IF a = 0 THEN Len(Shown) ELSE Min({a, b})
<1>1. PICK n \in Nat : DOMAIN Shown = 1..n /\ Len(Shown) = n
  BY ShownKnown
<1>2. \A r \in ToSet(Shown) : index(r) \in 1..n
  BY <1>1 DEF ToSet
<1>3. a \in 0..n /\ b \in 1..n
  BY <1>2
<1>4. Span(anchor, i) = {Shown[k] : k \in from..Max({a, b})}
  BY DEF Span
<1> HIDE DEF index, a, b
<1>5. Max({a, b}) \in {a, b} /\ a <= Max({a, b}) /\ b <= Max({a, b})
  <2>1. \E x \in {a, b} : \A y \in {a, b} : x >= y
    BY <1>3
  <2> QED
    BY <1>3, <2>1 DEF Max
<1>6. from \in 1..n
  <2>1. CASE a = 0
    BY <1>1, <1>3, <2>1
  <2>2. CASE a # 0
    <3>1. {a, b} \in SUBSET Nat /\ {a, b} # {}
      BY <1>3
    <3>2. Min({a, b}) \in {a, b}
      BY <3>1, MinOfNats
    <3> QED
      BY <1>3, <2>2, <3>2
  <2> QED
    BY <2>1, <2>2
<1> HIDE DEF from
<1>7. from..Max({a, b}) \subseteq DOMAIN Shown
  BY <1>1, <1>3, <1>5, <1>6
<1>8. Span(anchor, i) \subseteq ToSet(Shown)
  BY <1>4, <1>7 DEF ToSet
<1> QED
  BY <1>8, ShownKnown

\* What a bulk call or a dialog may be about.
LEMMA IdsKnown ==
  ASSUME DataKnown, NavKnown, PickedKnown
  PROVE  /\ SelIds \subseteq Id /\ KeyIds \subseteq Id /\ MenuIds \subseteq Id
         /\ \A kind : \A ids \in Asked(kind) : ids \subseteq Id
<1>1. focusId # Nothing => focusId \in Id
  BY DEF PickedKnown, DataKnown, Listing
<1>2. SelIds \subseteq Id /\ KeyIds \subseteq Id /\ MenuIds \subseteq Id
  BY <1>1 DEF PickedKnown, SelIds, KeyIds, MenuIds
<1> QED
  BY <1>2 DEF Asked

\* A row of the sidebar that is about a status is about one there is.
LEMMA FiltersKnown ==
  ASSUME NEW f \in Filters, f[1] = "status"
  PROVE  \E k \in Known : f = <<"status", k>>
<1>1. PICK r \in SideRows(nav.filter, view.torrents) : f = r.filter
  BY DEF Filters
<1>2. CASE r \in StatusRows(nav.filter, view.torrents)
  <2>1. PICK k, c : k \in Known /\ r = [filter |-> <<"status", k>>, count |-> c]
    BY <1>2 DEF StatusRows, FilterOrder
  <2> QED
    BY <1>1, <2>1
<1>3. r \notin LabelRows(view.torrents)
  <2>1. ASSUME NEW l, NEW c, r = [filter |-> <<"label", l>>, count |-> c] PROVE FALSE
    BY <1>1, <2>1
  <2> QED
    BY <2>1 DEF LabelRows
<1>4. r \notin FolderRows(view.torrents)
  <2>1. ASSUME NEW p, NEW c, r = [filter |-> <<"dir", p>>, count |-> c] PROVE FALSE
    BY <1>1, <2>1
  <2> QED
    BY <2>1 DEF FolderRows
<1> QED
  BY <1>2, <1>3, <1>4 DEF SideRows

\* The list, the keys and the menus.
LEMMA ListFits ==
  ASSUME DataKnown, NavKnown, PickedKnown, CallsKnown, ListNext
  PROVE  /\ UNCHANGED <<torrents, reads>> /\ NavKnown' /\ PickedKnown'
         /\ \A w \in writes' : CallKnown(w)
<1> DEFINE Fits == /\ UNCHANGED <<torrents, reads>> /\ NavKnown' /\ PickedKnown'
                   /\ \A w \in writes' : CallKnown(w)
<1>1. view' = view
  BY ListStep
<1>2. (nav' = nav => NavKnown') /\ (writes' = writes => \A w \in writes' : CallKnown(w))
  BY DEF NavKnown, CallsKnown
<1>3. ASSUME NEW f \in Filters, Pick(f) PROVE Fits
  <2>1. /\ nav' = [nav EXCEPT !.filter = f] /\ selected' = {}
        /\ UNCHANGED <<torrents, reads, writes, focusId, menu>>
    BY <1>3 DEF Pick, Daemon, Working
  <2>2. NavKnown'
    <3>1. /\ {"filter", "search", "adv", "sort", "dir"} \subseteq DOMAIN nav'
          /\ nav'.filter = f /\ nav'.sort = nav.sort /\ nav'.dir = nav.dir
      BY <2>1 DEF NavKnown
    <3> QED
      BY <3>1, FiltersKnown DEF NavKnown, Sorting
  <2> QED
    BY <1>1, <1>2, <2>1, <2>2 DEF PickedKnown
<1>4. ASSUME NEW n, Narrow(n), n.filter = nav.filter, Sorting(n),
             {"filter", "search", "adv", "sort", "dir"} \subseteq DOMAIN n
      PROVE  Fits
  <2>1. nav' = n /\ UNCHANGED <<torrents, reads, writes, selected, focusId, menu>>
    BY <1>4 DEF Narrow, Daemon, Working, Picked
  <2>2. NavKnown'
    BY <1>4, <2>1 DEF NavKnown
  <2> QED
    BY <1>1, <1>2, <2>1, <2>2 DEF PickedKnown
<1>5. ASSUME NEW q, SearchFor(q) \/ SetAdv(q) PROVE Fits
  <2>1. CASE SearchFor(q)
    <3> DEFINE n == [nav EXCEPT !.search = q]
    <3>1. /\ n.filter = nav.filter /\ n.sort = nav.sort /\ n.dir = nav.dir
          /\ DOMAIN n = DOMAIN nav /\ Narrow(n)
      BY <2>1 DEF SearchFor, NavKnown
    <3> HIDE DEF n
    <3> QED
      BY <1>4, <3>1 DEF NavKnown, Sorting
  <2>2. CASE SetAdv(q)
    <3> DEFINE n == [nav EXCEPT !.adv = q]
    <3>1. /\ n.filter = nav.filter /\ n.sort = nav.sort /\ n.dir = nav.dir
          /\ DOMAIN n = DOMAIN nav /\ Narrow(n)
      BY <2>2 DEF SetAdv, NavKnown
    <3> HIDE DEF n
    <3> QED
      BY <1>4, <3>1 DEF NavKnown, Sorting
  <2> QED
    BY <1>5, <2>1, <2>2
<1>6. ASSUME NEW k \in Sorts, SortBy(k) PROVE Fits
  <2> DEFINE d == IF nav.sort = k THEN -nav.dir
                  ELSE IF k \in {"name", "path"} THEN 1 ELSE -1
             n == [nav EXCEPT !.sort = k, !.dir = d]
  <2>1. d \in {-1, 1} /\ k \in SortKeys
    BY DeskAssumption DEF NavKnown, Sorting
  <2>2. Narrow(n)
    BY <1>6 DEF SortBy
  <2> HIDE DEF d
  <2>3. /\ n.filter = nav.filter /\ n.sort = k /\ n.dir = d /\ DOMAIN n = DOMAIN nav
    BY DEF NavKnown
  <2> HIDE DEF n
  <2> QED
    BY <1>4, <2>1, <2>2, <2>3 DEF NavKnown, Sorting
<1>7. ASSUME NEW ids, ids \subseteq Id, Select(ids) PROVE Fits
  <2>1. selected' = ids /\ UNCHANGED <<torrents, reads, writes, nav, focusId, menu>>
    BY <1>7 DEF Select, Daemon, Working
  <2> QED
    BY <1>1, <1>2, <1>7, <2>1 DEF PickedKnown
<1>8. ASSUME NEW i \in Id, ToggleRow(i) \/ RangeRow(i) PROVE Fits
  <2>1. CASE ToggleRow(i)
    <3>1. SymDiff(selected, {i}) \subseteq Id
      BY DEF PickedKnown, SymDiff
    <3> QED
      BY <1>7, <2>1, <3>1 DEF ToggleRow
  <2>2. CASE RangeRow(i)
    <3>1. PICK anchor : i \in ToSet(Shown) /\ Select(selected \cup Span(anchor, i))
      BY <2>2 DEF RangeRow
    <3>2. selected \cup Span(anchor, i) \subseteq Id
      BY <3>1, SpanShown DEF PickedKnown
    <3> QED
      BY <1>7, <3>1, <3>2
  <2> QED
    BY <1>8, <2>1, <2>2
<1>9. ASSUME SelectAllVisible \/ ClearSelection PROVE Fits
  <2>1. PICK ids \in {{}, ToSet(Shown)} : Select(ids)
    BY <1>9 DEF SelectAllVisible, ClearSelection
  <2> QED
    BY <1>7, <2>1, ShownKnown
<1>10. ASSUME NEW i \in Id, FocusRow(i) PROVE Fits
  <2>1. /\ focusId' \in {i, Nothing} /\ i \in ToSet(Shown)
        /\ UNCHANGED <<torrents, reads, writes, nav, selected, menu>>
    BY <1>10 DEF FocusRow, Daemon, Working
  <2>2. i \in DOMAIN view.torrents
    BY <2>1, ShownKnown
  <2> QED
    BY <1>1, <1>2, <2>1, <2>2 DEF PickedKnown
<1>11. ASSUME NEW kind, NEW ids, ids \subseteq Id, OpenMenu(kind, ids) PROVE Fits
  <2>1. menu'.ids = ids /\ UNCHANGED <<torrents, reads, writes, nav, selected, focusId>>
    BY <1>11 DEF OpenMenu, Daemon, Working, Picked
  <2> QED
    BY <1>1, <1>2, <1>11, <2>1 DEF PickedKnown
<1>12. ASSUME \/ \E i \in Id : OpenRowMenu(i)
              \/ OpenSelMenu \/ OpenViewMenu
       PROVE  Fits
  <2>1. PICK kind, ids : ids \subseteq Id /\ OpenMenu(kind, ids)
    <3>1. CASE \E i \in Id : OpenRowMenu(i)
      BY <3>1 DEF OpenRowMenu, PickedKnown
    <3>2. CASE OpenSelMenu
      BY <3>2, IdsKnown DEF OpenSelMenu
    <3>3. CASE OpenViewMenu
      BY <3>3, ShownKnown DEF OpenViewMenu
    <3> QED
      BY <1>12, <3>1, <3>2, <3>3
  <2> QED
    BY <1>11, <2>1
<1>13. ASSUME CloseMenu PROVE Fits
  <2>1. menu'.ids = {} /\ UNCHANGED <<torrents, reads, writes, nav, selected, focusId>>
    BY <1>13 DEF CloseMenu, NoMenu, Daemon, Working, Picked
  <2> QED
    BY <1>1, <1>2, <2>1 DEF PickedKnown
<1>14. ASSUME TorrentMenu \/ ViewMenu \/ BarActs \/ KeyActs PROVE Fits
  <2>1. PICK op, ids : /\ op \in {"start", "stop", "touch"} /\ ids \subseteq Id
                       /\ Send(Bulk(op, ids))
    <3>1. menu.ids \subseteq Id
      BY DEF PickedKnown
    <3> QED
      BY <1>14, <3>1, IdsKnown DEF TorrentMenu, ViewMenu, BarActs, KeyActs, ResumeOrPause
  <2>2. menu' \in {menu, NoMenu}
    BY <1>14 DEF TorrentMenu, ViewMenu, BarActs, KeyActs
  <2>3. /\ writes' = writes \cup Bulk(op, ids)
        /\ UNCHANGED <<torrents, reads, nav, selected, focusId>>
    BY <2>1 DEF Send, Daemon, Picked
  <2>4. \A w \in writes' : CallKnown(w)
    BY <2>1, <2>3 DEF Bulk, CallKnown, CallsKnown
  <2>5. PickedKnown'
    BY <1>1, <2>2, <2>3 DEF PickedKnown, NoMenu
  <2> QED
    BY <1>2, <2>3, <2>4, <2>5
<1> HIDE DEF Fits
<1>15. Fits
  <2>1. CASE \E i \in Id : ToggleRow(i) \/ RangeRow(i) \/ FocusRow(i) \/ OpenRowMenu(i)
    BY <2>1, <1>8, <1>10, <1>12
  <2> QED
    BY <2>1, <1>3, <1>5, <1>6, <1>9, <1>12, <1>13, <1>14 DEF ListNext
<1> QED
  BY <1>15 DEF Fits

\* A dialog that opens, over nothing or, with a file that is dropped, over
\* another one.
LEMMA ShowFits ==
  ASSUME PickedKnown, CallsKnown, NEW d, Show(d), DialogFits(d)
  PROVE  /\ UNCHANGED <<torrents, view, nav, selected, focusId, writes>>
         /\ menu' = NoMenu /\ DialogFits(dialog') /\ windows' \in 0..MaxWindows
         /\ windows + 1 \in 1..MaxWindows
<1>1. /\ UNCHANGED <<torrents, view, nav, selected, focusId, writes>>
      /\ menu' = NoMenu /\ dialog' = d /\ windows < MaxWindows /\ windows' = windows + 1
  BY DEF Show, Daemon, Picked
<1>2. windows \in 0..MaxWindows /\ MaxWindows \in Nat
  BY DeskAssumption DEF CallsKnown
<1> QED
  BY <1>1, <1>2

\* The dialogs open, with torrents that there are, or were.
LEMMA OpenFits ==
  ASSUME DataKnown, NavKnown, PickedKnown, CallsKnown,
         \/ OpenLabels \/ OpenLocation \/ OpenRename \/ OpenRemove
         \/ OpenLimits \/ OpenTrackers \/ OpenAdd \/ OpenSettings
  PROVE  \E d : Show(d) /\ DialogFits(d) /\ reads' \subseteq reads \cup {windows + 1}
<1> DEFINE Opens == \E d : Show(d) /\ DialogFits(d) /\ reads' \subseteq reads \cup {windows + 1}
<1>1. windows \in Nat /\ windows + 1 \in Nat
  BY DeskAssumption DEF CallsKnown
<1>2. \A d : Show(d) => windows + 1 \in 1..MaxWindows
  <2> SUFFICES ASSUME NEW d, Show(d) PROVE windows + 1 \in 1..MaxWindows
    OBVIOUS
  <2>1. windows < MaxWindows
    BY DEF Show
  <2> QED
    BY <1>1, <2>1, DeskAssumption
<1>3. ASSUME NEW d, Open(d), "kind" \in DOMAIN d, d.kind \in Kinds \ {"limits"},
             d.kind \notin {"add", "settings", "none"} => "ids" \in DOMAIN d /\ d.ids \subseteq Id
      PROVE  Opens
  BY <1>3 DEF Open, DialogFits, Kinds
<1>4. CASE OpenLabels
  <2>1. PICK ids \in Asked("labels") :
          Open([kind |-> "labels", ids |-> ids, sel |-> Initial(ids),
                toggled |-> {}, fresh |-> TRUE])
    BY <1>4 DEF OpenLabels
  <2> DEFINE d == [kind |-> "labels", ids |-> ids, sel |-> Initial(ids),
                   toggled |-> {}, fresh |-> TRUE]
  <2>2. /\ Open(d) /\ "kind" \in DOMAIN d /\ d.kind = "labels"
        /\ "ids" \in DOMAIN d /\ d.ids = ids
    BY <2>1
  <2>3. ids \subseteq Id
    BY <2>1, IdsKnown
  <2> HIDE DEF d
  <2> QED
    BY <1>3, <2>2, <2>3 DEF Kinds
<1>5. CASE OpenLocation \/ OpenRename \/ OpenRemove
  <2>1. PICK kind, ids : /\ kind \in {"location", "rename", "remove"} /\ ids \subseteq Id
                         /\ Open([kind |-> kind, ids |-> ids])
    BY <1>5, IdsKnown DEF OpenLocation, OpenRename, OpenRemove
  <2> DEFINE d == [kind |-> kind, ids |-> ids]
  <2>2. /\ Open(d) /\ "kind" \in DOMAIN d /\ d.kind = kind
        /\ "ids" \in DOMAIN d /\ d.ids = ids
    BY <2>1
  <2> HIDE DEF d
  <2> QED
    BY <1>3, <2>1, <2>2 DEF Kinds
<1>6. CASE OpenLimits
  <2>1. PICK i : /\ Show([kind |-> "limits", ids |-> MenuIds, first |-> i,
                          d |-> Nothing, win |-> windows + 1])
                 /\ reads' = reads \cup {windows + 1}
    BY <1>6 DEF OpenLimits
  <2> DEFINE d == [kind |-> "limits", ids |-> MenuIds, first |-> i, d |-> Nothing,
                   win |-> windows + 1]
  <2>2. /\ Show(d) /\ {"kind", "ids", "win"} \subseteq DOMAIN d /\ d.kind = "limits"
        /\ d.ids = MenuIds /\ d.win = windows + 1
    BY <2>1
  <2> HIDE DEF d
  <2> QED
    BY <1>2, <2>1, <2>2, IdsKnown DEF DialogFits, Kinds
<1>7. CASE OpenTrackers
  <2>1. /\ focusId # Nothing
        /\ Show([kind |-> "trackers", ids |-> {focusId}, text |-> Nothing,
                 failed |-> FALSE, win |-> windows + 1])
        /\ reads' = reads \cup {windows + 1}
    BY <1>7 DEF OpenTrackers
  <2> DEFINE d == [kind |-> "trackers", ids |-> {focusId}, text |-> Nothing,
                   failed |-> FALSE, win |-> windows + 1]
  <2>2. /\ Show(d) /\ {"kind", "ids"} \subseteq DOMAIN d /\ d.kind = "trackers"
        /\ d.ids = {focusId}
    BY <2>1
  <2>3. {focusId} \subseteq Id
    BY <2>1 DEF PickedKnown, DataKnown, Listing
  <2> HIDE DEF d
  <2> QED
    BY <2>1, <2>2, <2>3 DEF DialogFits, Kinds
<1>8. CASE OpenAdd
  <2> DEFINE d == NewAdd(<<>>, {})
  <2>1. Open(d) /\ "kind" \in DOMAIN d /\ d.kind = "add"
    BY <1>8 DEF OpenAdd, NewAdd
  <2> HIDE DEF d
  <2> QED
    BY <1>3, <2>1 DEF Kinds
<1>9. CASE OpenSettings
  <2> DEFINE d == [kind |-> "settings"]
  <2>1. Open(d) /\ "kind" \in DOMAIN d /\ d.kind = "settings"
    BY <1>9 DEF OpenSettings
  <2> HIDE DEF d
  <2> QED
    BY <1>3, <2>1 DEF Kinds
<1> QED
  BY <1>4, <1>5, <1>6, <1>7, <1>8, <1>9

\* The calls of the dialogs are about torrents that there are, or were.
LEMMA CallsFit ==
  ASSUME DataKnown, NavKnown, PickedKnown, CallsKnown, DialogFits(dialog), DialogNext,
         NEW w \in writes' \ writes
  PROVE  CallKnown(w)
<1>1. ASSUME NEW p, Send({[op |-> "session", patch |-> p]}),
             "days" \in DOMAIN p => p.days \subseteq Day,
             "transports" \in DOMAIN p => p.transports \subseteq Transport
      PROVE  CallKnown(w)
  <2>1. w.op = "session" /\ w.patch = p
    BY <1>1 DEF Send
  <2> QED
    BY <1>1, <2>1 DEF CallKnown
<1>2. CASE Turtle
  BY <1>1, <1>2 DEF Turtle
<1>3. CASE \E v \in 0..1 : SetKey(v) \/ SetTime(v)
  BY <1>1, <1>3 DEF SetKey, SetTime, Patch
<1>4. CASE \E d \in Day : SetDay(d)
  <2>1. PICK d \in Day : Send({[op |-> "session",
                                patch |-> [days |-> SymDiff(view.session.days, {d})]]})
    BY <1>4 DEF SetDay, Patch
  <2> DEFINE days == SymDiff(view.session.days, {d})
  <2>2. days \subseteq Day
    BY DEF SymDiff, DataKnown, SessionKnown
  <2>3. Send({[op |-> "session", patch |-> [days |-> days]]})
    BY <2>1
  <2> HIDE DEF days
  <2> QED
    BY <1>1, <2>2, <2>3
<1>5. CASE \E p \in Transport, on \in BOOLEAN : SetTransport(p, on)
  <2>1. PICK p \in Transport, on \in BOOLEAN : SetTransport(p, on)
    BY <1>5
  <2> DEFINE list == IF on THEN Transports \cup {p} ELSE Transports \ {p}
  <2>2. list \subseteq Transport
    BY DEF Transports, DataKnown, SessionKnown
  <2>3. Send({[op |-> "session", patch |-> [transports |-> list]]})
    BY <2>1 DEF SetTransport, Patch
  <2> HIDE DEF list
  <2> QED
    BY <1>1, <2>2, <2>3
<1>6. CASE \/ SaveLabels \/ \E d \in Dir : Move(d)
           \/ Rename \/ SaveTrackers \/ \E v \in 0..1 : SetLimit(v)
  <2>1. dialog.kind \in {"labels", "location", "rename", "trackers", "limits"}
    BY <1>6 DEF SaveLabels, Move, Rename, SaveTrackers, SetLimit
  <2>2. dialog.ids \subseteq Id
    BY <2>1 DEF DialogFits
  <2>3. CASE SaveLabels
    <3> DEFINE changed == {i \in dialog.ids : NewLabels(i) # LabelsOf(i)}
    <3>1. PICK n : w = [op |-> "labels", labels |-> n,
                        ids |-> {i \in changed : NewLabels(i) = n}]
      BY <2>3 DEF SaveLabels, Save, Send
    <3>2. w.op = "labels" /\ w.ids \subseteq dialog.ids
      BY <3>1
    <3> QED
      BY <2>2, <3>2 DEF CallKnown
  <2>4. CASE \E d \in Dir : Move(d)
    <3>1. w.op = "location" /\ w.ids = dialog.ids /\ w.dir \in Dir
      BY <2>4 DEF Move, Save, Send
    <3> QED
      BY <2>2, <3>1 DEF CallKnown
  <2>5. CASE Rename
    <3>1. w.op = "touch" /\ w.ids = dialog.ids
      BY <2>5 DEF Rename, Save, Send, Bulk
    <3> QED
      BY <2>2, <3>1 DEF CallKnown
  <2>6. CASE SaveTrackers
    <3>1. w.op = "trackers" /\ w.ids = dialog.ids
      BY <2>6 DEF SaveTrackers, Save, Send
    <3> QED
      BY <2>2, <3>1 DEF CallKnown
  <2>7. CASE \E v \in 0..1 : SetLimit(v)
    <3>1. w.op = "limit" /\ w.ids = dialog.ids /\ w.win = dialog.win
      BY <2>7 DEF SetLimit, Send
    <3>2. dialog.win \in 1..MaxWindows
      BY <2>7 DEF SetLimit, DialogFits
    <3> QED
      BY <2>2, <3>1, <3>2 DEF CallKnown
  <2> QED
    BY <1>6, <2>3, <2>4, <2>5, <2>6, <2>7
<1>7. CASE \/ OpenLabels \/ OpenLocation \/ OpenRename \/ OpenRemove
           \/ OpenLimits \/ OpenTrackers \/ OpenAdd \/ OpenSettings
  <2>1. PICK d : Show(d)
    BY <1>7, OpenFits
  <2> QED
    BY <2>1 DEF Show
<1>8. CASE \/ Cancel \/ ConfirmRemove
           \/ \E l \in Label : ToggleLabel(l)
           \/ \E list \in SUBSET Url : TypeTrackers(list)
           \/ \E k \in 1..Cardinality(Token) : RemoveSource(k)
           \/ AddFiles \/ TypeLink \/ AddText \/ Submit
  BY <1>8 DEF Cancel, ConfirmRemove, ToggleLabel, TypeTrackers, RemoveSource, AddFiles,
              TypeLink, AddText, Submit, Edit, Working
<1>9. CASE Drop
  BY <1>9 DEF Drop, Edit, Show, Working
<1>10. CASE \E r \in reads : Loaded(r) \/ LoadFails(r)
  <2>1. writes' = writes
    BY <1>10 DEF Loaded, LoadFails
  <2> QED
    BY <2>1
<1>11. CASE \E j \in jobs : Answered(j)
  <2>1. writes' = writes
    BY <1>11 DEF Answered
  <2> QED
    BY <2>1
<1> QED
  BY <1>2, <1>3, <1>4, <1>5, <1>6, <1>7, <1>8, <1>9, <1>10, <1>11 DEF DialogNext

\* The dialogs, but for a removal.
LEMMA DialogStays ==
  ASSUME DataKnown, NavKnown, PickedKnown, CallsKnown, DialogFits(dialog), DialogNext,
         ~ConfirmRemove
  PROVE  /\ UNCHANGED <<torrents, view, nav, selected, focusId>>
         /\ menu' \in {menu, NoMenu} /\ DialogFits(dialog')
         /\ windows' \in 0..MaxWindows /\ reads' \subseteq 1..MaxWindows
<1> DEFINE Fits == /\ UNCHANGED <<torrents, view, nav, selected, focusId>>
                   /\ menu' \in {menu, NoMenu} /\ DialogFits(dialog')
                   /\ windows' \in 0..MaxWindows /\ reads' \subseteq 1..MaxWindows
<1>1. windows \in 0..MaxWindows /\ reads \subseteq 1..MaxWindows
  BY DEF CallsKnown
<1>2. DialogFits(NoDialog)
  BY DEF DialogFits, NoDialog, Kinds
<1>3. ASSUME NEW d, Edit(d), DialogFits(d) PROVE Fits
  <2>1. /\ UNCHANGED <<torrents, view, nav, selected, focusId, menu, windows, reads>>
        /\ dialog' = d
    BY <1>3 DEF Edit, Daemon, Picked, Working, Counts
  <2> QED
    BY <1>1, <1>3, <2>1
<1>4. ASSUME NEW d, Edit(d), Adding, "kind" \in DOMAIN d, d.kind = dialog.kind PROVE Fits
  BY <1>3, <1>4 DEF Adding, DialogFits, Kinds
<1>5. ASSUME NEW ws, Send(ws), dialog' \in {dialog, NoDialog}, menu' = menu PROVE Fits
  <2>1. UNCHANGED <<torrents, view, nav, selected, focusId, windows, reads>>
    BY <1>5 DEF Send, Daemon, Picked
  <2> QED
    BY <1>1, <1>2, <1>5, <2>1
<1>6. CASE Cancel
  <2>1. Edit(NoDialog)
    BY <1>6 DEF Cancel, Edit
  <2> QED
    BY <1>2, <1>3, <2>1
<1>7. CASE \/ OpenLabels \/ OpenLocation \/ OpenRename \/ OpenRemove
           \/ OpenLimits \/ OpenTrackers \/ OpenAdd \/ OpenSettings
  <2>1. PICK d : Show(d) /\ DialogFits(d) /\ reads' \subseteq reads \cup {windows + 1}
    BY <1>7, OpenFits
  <2> QED
    BY <1>1, <2>1, ShowFits
<1>8. CASE SaveLabels \/ Rename \/ SaveTrackers \/ \E d \in Dir : Move(d)
  <2>1. \E ws : Save(ws)
    BY <1>8 DEF SaveLabels, Rename, SaveTrackers, Move
  <2> QED
    BY <1>5, <2>1 DEF Save
<1>9. CASE \/ Turtle \/ \E v \in 0..1 : SetLimit(v) \/ SetKey(v) \/ SetTime(v)
           \/ \E d \in Day : SetDay(d)
           \/ \E p \in Transport, on \in BOOLEAN : SetTransport(p, on)
  <2>1. \E ws : Send(ws)
    BY <1>9 DEF Turtle, SetLimit, SetKey, SetTime, SetDay, SetTransport, Patch
  <2>2. dialog' = dialog /\ menu' = menu
    BY <1>9 DEF Turtle, SetLimit, SetKey, SetTime, SetDay, SetTransport, Patch
  <2> QED
    BY <1>5, <2>1, <2>2
<1>10. CASE \E l \in Label : ToggleLabel(l)
  <2>1. PICK l : dialog.kind = "labels"
                 /\ Edit([dialog EXCEPT !.sel = SymDiff(@, {l}), !.toggled = @ \cup {l}])
    BY <1>10 DEF ToggleLabel
  <2> DEFINE d == [dialog EXCEPT !.sel = SymDiff(@, {l}), !.toggled = @ \cup {l}]
  <2>2. DOMAIN d = DOMAIN dialog /\ d.kind = dialog.kind /\ d.ids = dialog.ids /\ Edit(d)
    BY <2>1 DEF DialogFits
  <2> HIDE DEF d
  <2> QED
    BY <1>3, <2>1, <2>2 DEF DialogFits
<1>11. CASE \E list \in SUBSET Url : TypeTrackers(list)
  <2>1. PICK list : dialog.kind = "trackers" /\ Edit([dialog EXCEPT !.text = list])
    BY <1>11 DEF TypeTrackers
  <2> DEFINE d == [dialog EXCEPT !.text = list]
  <2>2. DOMAIN d = DOMAIN dialog /\ d.kind = dialog.kind /\ d.ids = dialog.ids /\ Edit(d)
    BY <2>1 DEF DialogFits
  <2> HIDE DEF d
  <2> QED
    BY <1>3, <2>1, <2>2 DEF DialogFits
<1>12. CASE \/ AddFiles \/ TypeLink \/ AddText
            \/ \E k \in 1..Cardinality(Token) : RemoveSource(k)
  <2>1. PICK src, txt, rd :
          /\ Adding
          /\ Edit([dialog EXCEPT !.sources = src]) \/ Edit([dialog EXCEPT !.text = txt])
             \/ Edit([dialog EXCEPT !.sources = src, !.text = txt])
             \/ Edit([dialog EXCEPT !.reading = rd, !.sources = src])
    BY <1>12 DEF AddFiles, TypeLink, AddText, RemoveSource
  <2>2. /\ UNCHANGED <<torrents, view, nav, selected, focusId, menu, windows, reads>>
        /\ "kind" \in DOMAIN dialog' /\ dialog'.kind = dialog.kind
    BY <2>1 DEF Edit, Daemon, Picked, Working, Counts, DialogFits
  <2>3. DialogFits(dialog')
    BY <2>1, <2>2 DEF DialogFits, Adding, Kinds
  <2> QED
    BY <1>1, <2>2, <2>3
<1>13. CASE Drop
  <2>1. PICK s : IF Adding THEN Edit([dialog EXCEPT !.reading = @ \cup {s}])
                 ELSE Show(NewAdd(<<>>, {s})) /\ UNCHANGED reads
    BY <1>13 DEF Drop
  <2>2. CASE Adding
    <3> DEFINE d == [dialog EXCEPT !.reading = @ \cup {s}]
    <3>1. Edit(d) /\ "kind" \in DOMAIN d /\ d.kind = dialog.kind
      BY <2>1, <2>2 DEF DialogFits
    <3> HIDE DEF d
    <3> QED
      BY <1>4, <2>2, <3>1
  <2>3. CASE ~Adding
    <3> DEFINE d == NewAdd(<<>>, {s})
    <3>1. Show(d) /\ UNCHANGED reads /\ "kind" \in DOMAIN d /\ d.kind = "add"
      BY <2>1, <2>3 DEF NewAdd
    <3> HIDE DEF d
    <3>2. DialogFits(d)
      BY <3>1 DEF DialogFits, Kinds
    <3> QED
      BY <1>1, <3>1, <3>2, ShowFits
  <2> QED
    BY <2>2, <2>3
<1>14. CASE Submit
  <2> DEFINE srcs == dialog.sources \o dialog.text
             d == [dialog EXCEPT !.sources = srcs, !.text = <<>>]
  <2>1. /\ UNCHANGED <<torrents, view, nav, selected, focusId, menu, windows, reads>>
        /\ dialog' = d /\ Adding
    BY <1>14 DEF Submit, Daemon, Picked, Counts
  <2>2. "kind" \in DOMAIN d /\ d.kind = dialog.kind
    BY DEF DialogFits
  <2> HIDE DEF d
  <2>3. DialogFits(dialog')
    BY <2>1, <2>2 DEF DialogFits, Adding, Kinds
  <2> QED
    BY <1>1, <2>1, <2>3
<1>15. CASE \E j \in jobs : Answered(j)
  <2>1. /\ UNCHANGED <<torrents, view, nav, selected, focusId, menu, windows, reads>>
        /\ dialog' \in {dialog, NoDialog}
    BY <1>15 DEF Answered, Daemon, Picked, Counts
  <2> QED
    BY <1>1, <1>2, <2>1
<1>16. CASE \E w \in reads : Loaded(w) \/ LoadFails(w)
  <2>1. /\ UNCHANGED <<torrents, view, nav, selected, focusId, menu, windows>>
        /\ reads' \subseteq reads
        /\ \/ dialog' = dialog
           \/ /\ dialog.kind \in {"limits", "trackers"}
              /\ \E v : dialog' \in {[dialog EXCEPT !.d = v], [dialog EXCEPT !.text = v],
                                     [dialog EXCEPT !.failed = v]}
    BY <1>16 DEF Loaded, LoadFails, Waiting, Daemon, Picked, Counts
  <2>2. DialogFits(dialog')
    <3>1. CASE dialog' = dialog
      BY <3>1
    <3>2. CASE dialog' # dialog
      <4>1. /\ dialog.kind \in {"limits", "trackers"} /\ DOMAIN dialog' = DOMAIN dialog
            /\ \A k \in DOMAIN dialog : k \notin {"d", "text", "failed"} => dialog'[k] = dialog[k]
        BY <2>1, <3>2
      <4>2. /\ dialog'.kind = dialog.kind /\ dialog'.ids = dialog.ids
            /\ dialog.kind = "limits" => dialog'.win = dialog.win
        BY <4>1 DEF DialogFits
      <4> QED
        BY <4>1, <4>2 DEF DialogFits
    <3> QED
      BY <3>1, <3>2
  <2> QED
    BY <1>1, <2>1, <2>2
<1> HIDE DEF Fits
<1>17. Fits
  BY <1>6, <1>7, <1>8, <1>9, <1>10, <1>11, <1>12, <1>13, <1>14, <1>15, <1>16
     DEF DialogNext, Fits
<1> QED
  BY <1>17 DEF Fits

\* What a call does to a torrent leaves it a size and a folder.
LEMMA EffectHoused ==
  ASSUME NEW t, Housed(t), NEW w, CallKnown(w)
  PROVE  Housed(Effect(w, t))
<1>1. \A s : Housed([t EXCEPT !.status = s]) /\ Housed([t EXCEPT !.labels = s])
             /\ Housed([t EXCEPT !.status = s, !.active = FALSE])
  BY DEF Housed
<1>2. w.op = "location" => Housed([t EXCEPT !.dir = w.dir])
  BY DEF Housed, CallKnown
<1> QED
  BY <1>1, <1>2 DEF Effect

\* What befalls a torrent, too.
LEMMA ConditionHoused ==
  ASSUME NEW t, Housed(t), NEW c \in Condition
  PROVE  Housed(Patched(t, c))
<1>1. /\ "dir" \in DOMAIN c => c.dir \in Dir
      /\ "size" \in DOMAIN c => c.size \in Nat
  BY DeskAssumption
<1>2. /\ {"dir", "size"} \subseteq DOMAIN Patched(t, c)
      /\ Patched(t, c).dir = IF "dir" \in DOMAIN c THEN c.dir ELSE t.dir
      /\ Patched(t, c).size = IF "size" \in DOMAIN c THEN c.size ELSE t.size
  BY DEF Patched, Housed
<1> QED
  BY <1>1, <1>2 DEF Housed

\* The store starts so.
LEMMA DeskInit == Init => DeskInv
<1> SUFFICES ASSUME Init PROVE DeskInv
  OBVIOUS
<1>1. AddInv
  BY AddInit
<1>2. Listing(torrents)
  BY DeskAssumption DEF Init, Listing, Housed
<1>3. DataKnown
  BY <1>2 DEF Init, DataKnown, SessionKnown
<1>4. NavKnown
  BY DEF Init, NavKnown, Sorting, SortKeys, Known
<1>5. PickedKnown /\ DialogFits(dialog) /\ CallsKnown
  BY DeskAssumption DEF Init, PickedKnown, DialogFits, CallsKnown, NoMenu, NoDialog, Kinds
<1> QED
  BY <1>1, <1>3, <1>4, <1>5 DEF DeskInv

\* A poll brings the client what is at the daemon.
LEMMA PollFits ==
  ASSUME DeskInv, Poll
  PROVE  (DataKnown /\ NavKnown /\ PickedKnown /\ DialogFits(dialog) /\ CallsKnown)'
<1> USE DEF DeskInv
<1>1. /\ view' = [torrents |-> torrents, session |-> session]
      /\ focusId' = IF focusId \in DOMAIN torrents THEN focusId ELSE Nothing
      /\ UNCHANGED <<torrents, session, nav, selected, menu, writes, reads, windows>>
  BY DEF Poll, Daemon, Working, Counts
<1>2. DialogFits(dialog')
  <2>1. CASE dialog' = dialog
    BY <2>1
  <2>2. CASE dialog.kind = "labels" /\ dialog' = [dialog EXCEPT !.fresh = FALSE]
    <3>1. DOMAIN dialog' = DOMAIN dialog /\ dialog'.kind = "labels" /\ dialog'.ids = dialog.ids
      BY <2>2 DEF DialogFits
    <3> QED
      BY <2>2, <3>1 DEF DialogFits
  <2> QED
    BY <2>1, <2>2 DEF Poll
<1>3. DataKnown' /\ PickedKnown'
  BY <1>1 DEF DataKnown, PickedKnown
<1>4. NavKnown' /\ CallsKnown'
  BY <1>1 DEF NavKnown, CallsKnown
<1> QED
  BY <1>2, <1>3, <1>4

\* What happens elsewhere changes torrents, or takes one away.
LEMMA ElsewhereFits ==
  ASSUME DeskInv, Elsewhere
  PROVE  (DataKnown /\ NavKnown /\ PickedKnown /\ DialogFits(dialog) /\ CallsKnown)'
<1> USE DEF DeskInv
<1>1. UNCHANGED <<session, view, nav, selected, focusId, menu, dialog, writes, reads, windows>>
  BY DEF Elsewhere, Picked, Working
<1>2. Listing(torrents')
  <2>1. PICK i \in DOMAIN torrents :
          \/ \E c \in Condition : torrents' = [torrents EXCEPT ![i] = Patched(@, c)]
          \/ torrents' = [k \in DOMAIN torrents \ {i} |-> torrents[k]]
    BY DEF Elsewhere
  <2>2. ASSUME NEW c \in Condition, torrents' = [torrents EXCEPT ![i] = Patched(@, c)]
        PROVE  Listing(torrents')
    <3>1. Housed(Patched(torrents[i], c))
      BY ConditionHoused DEF DataKnown, Listing
    <3> QED
      BY <2>2, <3>1 DEF DataKnown, Listing
  <2>3. ASSUME torrents' = [k \in DOMAIN torrents \ {i} |-> torrents[k]]
        PROVE  Listing(torrents')
    BY <2>3 DEF DataKnown, Listing
  <2> QED
    BY <2>1, <2>2, <2>3
<1>3. DataKnown'
  BY <1>1, <1>2 DEF DataKnown
<1> QED
  BY <1>1, <1>3 DEF NavKnown, PickedKnown, CallsKnown

\* A call is applied to the torrents it is about, or to the session.
LEMMA CallFits ==
  ASSUME DeskInv, NEW w \in writes, Applied(w) \/ WriteFails(w)
  PROVE  (DataKnown /\ NavKnown /\ PickedKnown /\ DialogFits(dialog) /\ CallsKnown)'
<1> USE DEF DeskInv
<1>1. /\ UNCHANGED <<view, nav, selected, focusId, menu, dialog, windows>>
      /\ writes' \subseteq writes
  BY DEF Applied, WriteFails, Picked, Counts
<1>2. CallKnown(w)
  BY DEF CallsKnown
<1>3. reads' \subseteq 1..MaxWindows
  BY <1>2 DEF Applied, WriteFails, CallsKnown, CallKnown
<1>4. SessionKnown(session')
  <2>1. CASE session' = session
    BY <2>1 DEF DataKnown
  <2>2. CASE w.op = "session" /\ session' = Patched(session, w.patch)
    <3> DEFINE p == w.patch
    <3>1. /\ {"days", "transports"} \subseteq DOMAIN session'
          /\ session'.days = IF "days" \in DOMAIN p THEN p.days ELSE session.days
          /\ session'.transports =
               IF "transports" \in DOMAIN p THEN p.transports ELSE session.transports
      BY <2>2 DEF Patched, DataKnown, SessionKnown
    <3> QED
      BY <1>2, <2>2, <3>1 DEF CallKnown, DataKnown, SessionKnown
  <2> QED
    BY <2>1, <2>2 DEF Applied, WriteFails, Daemon
<1>5. Listing(torrents')
  <2>1. CASE torrents' = torrents
    BY <2>1 DEF DataKnown
  <2>2. CASE torrents' = On(w.ids, torrents, LAMBDA t : Effect(w, t))
    <3>1. torrents' = [i \in DOMAIN torrents |->
                         IF i \in w.ids THEN Effect(w, torrents[i]) ELSE torrents[i]]
      BY <2>2 DEF On
    <3>2. \A i \in DOMAIN torrents : Housed(torrents[i]) /\ Housed(Effect(w, torrents[i]))
      BY <1>2, EffectHoused DEF DataKnown, Listing
    <3>3. DOMAIN torrents' \subseteq Id
      BY <3>1 DEF DataKnown, Listing
    <3>4. \A i \in DOMAIN torrents' : Housed(torrents'[i])
      BY <3>1, <3>2
    <3> QED
      BY <3>3, <3>4 DEF Listing
  <2> QED
    BY <2>1, <2>2 DEF Applied, WriteFails, Daemon
<1>6. DataKnown'
  BY <1>1, <1>4, <1>5 DEF DataKnown
<1> QED
  BY <1>1, <1>3, <1>6 DEF NavKnown, PickedKnown, CallsKnown

\* A removal takes torrents from the daemon, the client and what is picked.
LEMMA RemoveFits ==
  ASSUME DeskInv, ConfirmRemove
  PROVE  (DataKnown /\ NavKnown /\ PickedKnown /\ DialogFits(dialog) /\ CallsKnown)'
<1> USE DEF DeskInv
<1>1. /\ torrents' = [i \in DOMAIN torrents \ dialog.ids |-> torrents[i]]
      /\ view' = [view EXCEPT !.torrents = [i \in DOMAIN @ \ dialog.ids |-> @[i]]]
      /\ selected' = selected \ dialog.ids
      /\ focusId' = IF focusId \in dialog.ids THEN Nothing ELSE focusId
      /\ dialog' = NoDialog
      /\ UNCHANGED <<session, nav, menu, writes, reads, windows>>
  BY DEF ConfirmRemove, Working, Counts
<1> DEFINE left == [i \in DOMAIN view.torrents \ dialog.ids |-> view.torrents[i]]
<1>2. /\ view'.torrents = left /\ view'.session = view.session
      /\ DOMAIN view' = DOMAIN view
  BY <1>1 DEF DataKnown
<1>3. Listing(left) /\ Listing(torrents')
  BY <1>1 DEF DataKnown, Listing
<1>4. DOMAIN left = DOMAIN view.torrents \ dialog.ids
  OBVIOUS
<1> HIDE DEF left
<1>5. DataKnown'
  BY <1>1, <1>2, <1>3 DEF DataKnown
<1>6. PickedKnown'
  BY <1>1, <1>2, <1>4 DEF PickedKnown
<1>7. DialogFits(dialog')
  BY <1>1 DEF DialogFits, NoDialog, Kinds
<1> QED
  BY <1>1, <1>5, <1>6, <1>7 DEF NavKnown, CallsKnown

\* Every step keeps the invariant.
LEMMA DeskStep == DeskInv /\ [Next]_vars => DeskInv'
<1> SUFFICES ASSUME DeskInv, [Next]_vars PROVE DeskInv'
  OBVIOUS
<1> DEFINE Rest == DataKnown /\ NavKnown /\ PickedKnown /\ DialogFits(dialog) /\ CallsKnown
<1>1. AddInv'
  BY AddStep DEF DeskInv
<1>2. CASE ListNext
  <2>1. UNCHANGED <<session, view, dialog, windows>>
    BY <1>2, ListStep
  <2>2. /\ UNCHANGED <<torrents, reads>> /\ NavKnown' /\ PickedKnown'
        /\ \A w \in writes' : CallKnown(w)
    BY <1>2, ListFits DEF DeskInv
  <2> QED
    BY <1>1, <2>1, <2>2 DEF DeskInv, DataKnown, CallsKnown
<1>3. CASE DialogNext /\ ~ConfirmRemove
  <2>1. session' = session
    BY <1>3, DialogWrites
  <2>2. /\ UNCHANGED <<torrents, view, nav, selected, focusId>>
        /\ menu' \in {menu, NoMenu} /\ DialogFits(dialog')
        /\ windows' \in 0..MaxWindows /\ reads' \subseteq 1..MaxWindows
    BY <1>3, DialogStays DEF DeskInv
  <2>3. \A w \in writes' \ writes : CallKnown(w)
    BY <1>3, CallsFit DEF DeskInv
  <2>4. DataKnown' /\ NavKnown'
    BY <2>1, <2>2 DEF DeskInv, DataKnown, NavKnown
  <2>5. PickedKnown' /\ CallsKnown'
    BY <2>2, <2>3 DEF DeskInv, PickedKnown, CallsKnown, NoMenu
  <2> QED
    BY <1>1, <2>2, <2>4, <2>5 DEF DeskInv
<1>4. CASE ConfirmRemove
  BY <1>1, <1>4, RemoveFits DEF DeskInv
<1>5. CASE Poll
  BY <1>1, <1>5, PollFits DEF DeskInv
<1>6. CASE Elsewhere
  BY <1>1, <1>6, ElsewhereFits DEF DeskInv
<1>7. CASE \E w \in writes : Applied(w) \/ WriteFails(w)
  BY <1>1, <1>7, CallFits DEF DeskInv
<1>8. CASE UNCHANGED vars
  BY <1>1, <1>8 DEF vars, DeskInv, DataKnown, NavKnown, PickedKnown, CallsKnown
<1> QED
  BY <1>2, <1>3, <1>4, <1>5, <1>6, <1>7, <1>8 DEF Next

\* The state is of its type and the focus on a torrent the client knows, and a
\* row of the sidebar counts what the list shows when it is picked, over any
\* torrents, folders, labels, filters, polls and calls.
THEOREM ConsistentHolds == Spec => []Consistent
<1>1. DeskInv => Consistent
  <2> SUFFICES ASSUME DeskInv PROVE Consistent
    OBVIOUS
  <2>1. added \in [Token -> Nat]
    BY DEF DeskInv, AddInv, JobsKnown
  <2>2. TypeOK
    BY <2>1 DEF TypeOK, DeskInv, DataKnown, Listing, SessionKnown, PickedKnown,
                DialogFits, Kinds, CallsKnown, CallKnown
  <2>3. SidebarTrue
    BY SidebarTells DEF DeskInv, DataKnown
  <2> QED
    BY <2>2, <2>3 DEF Consistent
<1> QED
  BY <1>1, DeskInit, DeskStep, PTL DEF Spec

-----------------------------------------------------------------------------
(* Tracker health, which the sidebar and the notices of the list show.      *)

\* What is known of the trackers of a torrent: times that are past.
Stats(t) == [Uses[t] -> [announced : BOOLEAN, result : Class,
                         at : 0..now, scrape : 0..now \cup {None}]]

\* The rows of a list are what the daemon may say of its torrents.
Told(list) ==
    /\ DOMAIN list \subseteq Torrent /\ list = [t \in DOMAIN list |-> list[t]]
    /\ \A t \in DOMAIN list : list[t] \in Stats(t)

StatsKnown == Told(stat) /\ Told(rows)

\* A host that was found down failed for that long, and it is remembered.
DownSince ==
    \A h \in down : firstFailing[h] # None /\ firstFailing[h] + DownAfter <= now

\* The inductive invariant.
HealthInv == HealthTypeOK /\ StatsKnown /\ DownSince /\ StaysDown

\* What is remembered is of the past, never later than it was, and there
\* while everything fails.
LEMMA RememberedFacts ==
  ASSUME HealthTypeOK, NEW list, Told(list), NEW h \in Host
  PROVE  /\ Remembered(list, h) \in 0..now \cup {None}
         /\ DOMAIN list # {} /\ AllFailing(list, h) =>
              /\ Remembered(list, h) # None
              /\ firstFailing[h] # None => Remembered(list, h) <= firstFailing[h]
<1> USE HealthAssumption
<1>1. now \in Nat /\ firstFailing[h] \in 0..now \cup {None}
  BY DEF HealthTypeOK
<1>2. ASSUME NEW i \in Failing(list, h)
      PROVE  list[i][h].at \in 0..now /\ list[i][h].scrape \in 0..now \cup {None}
  <2>1. i \in DOMAIN list /\ h \in DOMAIN list[i] /\ list[i] \in Stats(i)
    BY DEF Failing, Announced, usesTracker, usedTrackers, Told
  <2> QED
    BY <2>1 DEF Stats
<1>3. Evidence(list, h) \subseteq 0..now
  BY <1>2 DEF Evidence
<1>4. AllFailing(list, h) => Evidence(list, h) # {}
  <2>1. AllFailing(list, h) => Failing(list, h) # {}
    BY DEF AllFailing
  <2>2. \A i \in Failing(list, h) : list[i][h].at # None
    BY <1>1, <1>2
  <2> QED
    BY <2>1, <2>2 DEF Evidence
<1>5. CASE DOMAIN list = {} \/ ~ AllFailing(list, h)
  BY <1>1, <1>5 DEF Remembered
<1>6. CASE DOMAIN list # {} /\ AllFailing(list, h)
  <2> DEFINE S == Evidence(list, h) \cup ({firstFailing[h]} \ {None})
  <2>1. S \in SUBSET Nat /\ S # {} /\ S \subseteq 0..now
    BY <1>1, <1>3, <1>4, <1>6
  <2>2. Remembered(list, h) = Min(S)
    BY <1>6 DEF Remembered
  <2>3. firstFailing[h] # None => firstFailing[h] \in S
    OBVIOUS
  <2> HIDE DEF S
  <2>4. Min(S) \in S /\ \A y \in S : Min(S) <= y
    BY <2>1, MinOfNats
  <2>5. Min(S) # None
    BY <2>1, <2>4, <1>1
  <2> QED
    BY <2>1, <2>2, <2>3, <2>4, <2>5
<1> QED
  BY <1>5, <1>6

\* The invariant holds at the start.
LEMMA HealthInitInv == HealthInit => HealthInv
<1> SUFFICES ASSUME HealthInit PROVE HealthInv
  OBVIOUS
<1> USE HealthAssumption DEF HealthInit
<1>1. HealthTypeOK
  BY DEF HealthTypeOK
<1>2. StatsKnown
  <2>1. \A t \in Torrent : [h \in Uses[t] |-> Silent] \in Stats(t)
    BY DEF Stats, Silent, Class
  <2>2. Told(stat)
    BY <2>1 DEF Told
  <2>3. rows = [t \in DOMAIN rows |-> rows[t]]
    OBVIOUS
  <2>4. Told(rows)
    BY <2>3 DEF Told
  <2> QED
    BY <2>2, <2>4 DEF StatsKnown
<1>3. DownSince /\ StaysDown
  BY DEF DownSince, StaysDown
<1> QED
  BY <1>1, <1>2, <1>3 DEF HealthInv

\* A list is made anew, and judged.

\* A list is made anew, and judged.
LEMMA ComputeKeeps ==
  ASSUME HealthInv, NEW list, Told(list), Compute(list), now' = now
  PROVE  /\ DOMAIN rows' \subseteq Torrent
         /\ firstFailing' \in [Host -> 0..now \cup {None}]
         /\ health' \in [Host -> {"ok", "issues", "down", "rejected"}]
         /\ down' \subseteq Host
         /\ DownSince' /\ StaysDown'
<1> USE HealthAssumption
<1>1. now \in Nat /\ HealthTypeOK /\ DownSince /\ DownAfter \in Nat
  BY DEF HealthInv, HealthTypeOK
<1>2. /\ rows' = list
      /\ health' = [h \in Host |-> Health(list, h)]
      /\ firstFailing' = [h \in Host |-> Remembered(list, h)]
      /\ down' = IF DOMAIN list = {} THEN down
                 ELSE {h \in Host : /\ AllFailing(list, h)
                                    /\ health'[h] = "down" \/ h \in down}
  BY DEF Compute
<1>3. DOMAIN rows' \subseteq Torrent
  BY <1>2 DEF Told
<1>4. firstFailing' \in [Host -> 0..now \cup {None}]
  BY <1>1, <1>2, RememberedFacts
<1>5. health' \in [Host -> {"ok", "issues", "down", "rejected"}]
  BY <1>2 DEF Health
<1>6. down' \subseteq Host
  BY <1>1, <1>2 DEF HealthTypeOK
<1>7. CASE DOMAIN list = {}
  <2>1. rows' = <<>>
    BY <1>2, <1>7 DEF Told
  <2>2. \A h \in Host : firstFailing'[h] = firstFailing[h]
    BY <1>2, <1>7 DEF Remembered
  <2>3. down' = down
    BY <1>2, <1>7
  <2>4. DownSince'
    BY <1>1, <1>6, <2>2, <2>3 DEF DownSince
  <2>5. StaysDown'
    BY <2>1 DEF StaysDown
  <2> QED
    BY <1>3, <1>4, <1>5, <1>6, <2>4, <2>5
<1>8. CASE DOMAIN list # {}
  <2>1. ASSUME NEW h \in down'
        PROVE  /\ Remembered(list, h) # None
               /\ Remembered(list, h) + DownAfter <= now
               /\ health'[h] \in {"down", "rejected"}
    <3>1. h \in Host /\ AllFailing(list, h) /\ (health'[h] = "down" \/ h \in down)
      BY <1>2, <1>8
    <3>2. health'[h] = Health(list, h)
      BY <1>2, <3>1
    <3>3. /\ Remembered(list, h) \in 0..now /\ Remembered(list, h) # None
          /\ firstFailing[h] # None => Remembered(list, h) <= firstFailing[h]
      BY <1>1, <1>8, <3>1, RememberedFacts
    <3>4. CASE h \in down
      <4>1. firstFailing[h] \in 0..now /\ firstFailing[h] + DownAfter <= now
        BY <1>1, <3>1, <3>4 DEF DownSince, HealthTypeOK
      <4>2. firstFailing[h] # None
        BY <1>1, <3>4 DEF DownSince
      <4>3. Remembered(list, h) + DownAfter <= now
        BY <1>1, <3>3, <4>1, <4>2
      <4> QED
        BY <1>1, <3>1, <3>2, <3>3, <4>3 DEF Health
    <3>5. CASE health'[h] = "down"
      <4>1. now >= Remembered(list, h) + DownAfter
        BY <3>2, <3>5 DEF Health
      <4> QED
        BY <1>1, <3>3, <3>5, <4>1
    <3> QED
      BY <3>1, <3>4, <3>5
  <2>2. DownSince'
    <3>1. \A h \in down' : firstFailing'[h] = Remembered(list, h)
      BY <1>2, <1>6
    <3> QED
      BY <2>1, <3>1 DEF DownSince
  <2>3. StaysDown'
    BY <2>1 DEF StaysDown
  <2> QED
    BY <1>3, <1>4, <1>5, <1>6, <2>2, <2>3
<1> QED
  BY <1>7, <1>8

\* Every step of the client, the daemon and time keeps the invariant.
LEMMA HealthStep == HealthInv /\ [HealthNext]_healthVars => HealthInv'
<1> SUFFICES ASSUME HealthInv, [HealthNext]_healthVars PROVE HealthInv'
  OBVIOUS
<1> USE HealthAssumption
<1>1. HealthTypeOK /\ StatsKnown /\ DownSince /\ StaysDown
  BY DEF HealthInv
<1>2. now \in Nat /\ ticks \in Nat /\ 0..now \subseteq Nat /\ now <= MaxNow
  BY <1>1 DEF HealthTypeOK
<1>3. ASSUME NEW list, Told(list), now' = now PROVE Told(list)'
  BY <1>3 DEF Told, Stats
\* What only the client's view says is kept where nothing of it changes.
<1>4. ASSUME UNCHANGED <<now, rows, ticks, firstFailing, health, down>>, Told(stat)'
      PROVE  HealthInv'
  <2>1. Told(rows)'
    BY <1>1, <1>4 DEF StatsKnown, Told, Stats
  <2>2. HealthTypeOK'
    BY <1>1, <1>4 DEF HealthTypeOK, Told
  <2>3. DownSince' /\ StaysDown'
    BY <1>1, <1>4 DEF DownSince, StaysDown
  <2> QED
    BY <1>4, <2>1, <2>2, <2>3 DEF HealthInv, StatsKnown
\* A new list, of what was told.
<1>5. ASSUME NEW list, Told(list), Compute(list), UNCHANGED <<now, stat>>,
             ticks' \in 0..(ClockEvery - 1)
      PROVE  HealthInv'
  <2>1. /\ DOMAIN rows' \subseteq Torrent
        /\ firstFailing' \in [Host -> 0..now \cup {None}]
        /\ health' \in [Host -> {"ok", "issues", "down", "rejected"}]
        /\ down' \subseteq Host
        /\ DownSince' /\ StaysDown'
    BY <1>5, ComputeKeeps
  <2>2. HealthTypeOK'
    BY <1>1, <1>5, <2>1 DEF HealthTypeOK
  <2>3. Told(stat)'
    BY <1>1, <1>5 DEF StatsKnown, Told, Stats
  <2>4. Told(rows)'
    <3>1. rows' = list
      BY <1>5 DEF Compute
    <3> QED
      BY <1>5, <3>1 DEF Told, Stats
  <2> QED
    BY <2>1, <2>2, <2>3, <2>4 DEF HealthInv, StatsKnown
<1>6. (ticks + 1) % ClockEvery \in 0..(ClockEvery - 1) /\ 0 \in 0..(ClockEvery - 1)
  BY <1>2
<1>7. CASE Merge
  <2>1. CASE Compute(stat)
    BY <1>1, <1>5, <1>6, <1>7, <2>1 DEF Merge, StatsKnown
  <2>2. CASE UNCHANGED <<rows, health, firstFailing, down>>
    <3>1. HealthTypeOK'
      BY <1>1, <1>6, <1>7, <2>2 DEF Merge, HealthTypeOK
    <3>2. StatsKnown'
      BY <1>1, <1>7, <2>2 DEF Merge, StatsKnown, Told, Stats
    <3>3. DownSince' /\ StaysDown'
      BY <1>1, <1>7, <2>2 DEF Merge, DownSince, StaysDown
    <3> QED
      BY <3>1, <3>2, <3>3 DEF HealthInv
  <2> QED
    BY <1>7, <2>1, <2>2 DEF Merge
<1>8. CASE Reload
  <2>1. Told(<<>>)
    <3>1. <<>> = [t \in DOMAIN <<>> |-> <<>>[t]]
      OBVIOUS
    <3> QED
      BY <3>1 DEF Told
  <2> QED
    BY <1>5, <1>6, <1>8, <2>1 DEF Reload
<1>9. CASE Passes
  <2>1. now' = now + 1 /\ now' \in 0..MaxNow /\ 0..now \subseteq 0..now'
    BY <1>2, <1>9 DEF Passes
  <2>2. \A t \in Torrent : Stats(t) \subseteq Stats(t)'
    BY <2>1 DEF Stats
  <2>3. StatsKnown'
    BY <1>1, <1>9, <2>2 DEF Passes, StatsKnown, Told
  <2>4. HealthTypeOK'
    BY <1>1, <1>9, <2>1 DEF Passes, HealthTypeOK
  <2>5. DownSince' /\ StaysDown'
    <3>1. \A h \in down : firstFailing[h] \in Nat
      BY <1>1, <1>2 DEF DownSince, HealthTypeOK
    <3> QED
      BY <1>1, <1>2, <1>9, <2>1, <3>1 DEF Passes, DownSince, StaysDown
  <2> QED
    BY <2>3, <2>4, <2>5 DEF HealthInv
<1>10. ASSUME NEW t \in Torrent, NEW h \in Host, NEW result \in Class,
              Announce(t, h, result)
       PROVE  HealthInv'
  <2>1. t \in DOMAIN stat /\ h \in Uses[t] /\ stat[t] \in Stats(t)
    BY <1>1, <1>10 DEF Announce, StatsKnown, Told
  <2> DEFINE new == [announced |-> TRUE, result |-> result, at |-> now,
                    scrape |-> stat[t][h].scrape]
  <2>2. [stat[t] EXCEPT ![h] = new] \in Stats(t)
    BY <1>2, <2>1 DEF Stats
  <2>3. Told(stat')
    <3>1. stat' = [stat EXCEPT ![t] = [stat[t] EXCEPT ![h] = new]]
      BY <1>10 DEF Announce
    <3> HIDE DEF new
    <3> QED
      BY <1>1, <2>1, <2>2, <3>1 DEF StatsKnown, Told
  <2> QED
    BY <1>4, <1>10, <2>3 DEF Announce, Client, Told, Stats
<1>11. ASSUME NEW t \in Torrent, NEW h \in Host, NEW ok \in BOOLEAN,
              Scrape(t, h, ok)
       PROVE  HealthInv'
  <2>1. t \in DOMAIN stat /\ h \in Uses[t] /\ stat[t] \in Stats(t)
    BY <1>1, <1>11 DEF Scrape, StatsKnown, Told
  <2>2. [stat[t] EXCEPT ![h].scrape = IF ok THEN None ELSE now] \in Stats(t)
    BY <1>2, <2>1 DEF Stats
  <2>3. Told(stat')
    BY <1>1, <1>11, <2>1, <2>2 DEF Scrape, StatsKnown, Told
  <2> QED
    BY <1>4, <1>11, <2>3 DEF Scrape, Client, Told, Stats
<1>12. ASSUME NEW t \in Torrent, Goes(t) PROVE HealthInv'
  <2>1. [h \in Uses[t] |-> Silent] \in Stats(t)
    BY <1>2 DEF Stats, Silent, Class
  <2>2. Told(stat')
    BY <1>1, <1>12, <2>1 DEF Goes, StatsKnown, Told
  <2> QED
    BY <1>4, <1>12, <2>2 DEF Goes, Client, Told, Stats
<1>13. CASE UNCHANGED healthVars
  BY <1>1, <1>4, <1>13 DEF healthVars, StatsKnown, Told, Stats
<1> QED
  BY <1>7, <1>8, <1>9, <1>10, <1>11, <1>12, <1>13 DEF HealthNext

\* For any torrents, trackers and times: an outage that was found stays as
\* long as everything fails there, over announces and reloads.
THEOREM OutagesKeptHolds == HealthSpec => []OutagesKept
<1>1. HealthInv => OutagesKept
  BY DEF HealthInv, OutagesKept
<1> QED
  BY <1>1, HealthInitInv, HealthStep, PTL DEF HealthSpec
=============================================================================

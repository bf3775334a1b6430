------------------------ MODULE InspectorFetchProofs ------------------------
(***************************************************************************)
(* Proofs about InspectorFetch, for any torrents, tabs, fetches in flight  *)
(* and failures: the detail shown is that of the focused torrent.          *)
(***************************************************************************)
EXTENDS InspectorFetch, TLAPS

\* A call tells of the fields it asks for, of all of them if it says so.
LEMMA CallKnown ==
  ASSUME NEW t, NEW c \in Calls(t)
  PROVE  /\ c \in [id : Id, all : BOOLEAN, fields : SUBSET Field,
                   reply : {c.reply}]
         /\ c.all => c.fields = Field
         /\ c.reply \in {None, Failed} \cup [c.fields -> 0..t]
<1>1. PICK F \in SUBSET Field :
        c \in [id : Id, all : {F = Field}, fields : {F},
               reply : {None, Failed} \cup [F -> 0..t]]
  BY DEF Calls
<1> QED
  BY <1>1

\* What makes a call.
LEMMA CallMade ==
  ASSUME NEW t \in 0..MaxNow, NEW i \in Id, NEW F \in SUBSET Field,
         NEW r \in {None, Failed} \cup [F -> 0..t]
  PROVE  /\ [id |-> i, all |-> F = Field, fields |-> F, reply |-> r] \in Calls(t)
         /\ [id |-> i, all |-> F = Field, fields |-> F, reply |-> r] # None
<1> DEFINE c == [id |-> i, all |-> F = Field, fields |-> F, reply |-> r]
<1>1. c \in [id : Id, all : {F = Field}, fields : {F},
             reply : {None, Failed} \cup [F -> 0..t]]
  OBVIOUS
<1>2. c \in Calls(t)
  BY <1>1 DEF Calls
<1>3. 0..t \subseteq 0..MaxNow
  BY InspectorAssumption
<1>4. r \in {None, Failed} \cup [F -> 0..MaxNow]
  BY <1>3
<1>5. c \in [id : Id, all : {F = Field}, fields : {F},
             reply : {None, Failed} \cup [F -> 0..MaxNow]]
  BY <1>4
<1>6. c \in Calls(MaxNow)
  BY <1>5 DEF Calls
<1> QED
  BY <1>2, <1>6, InspectorAssumption

\* Time goes on, and calls stay what they are.
LEMMA CallsGrow ==
  ASSUME NEW t \in Nat, NEW u \in Nat, t <= u
  PROVE  Calls(t) \subseteq Calls(u)
<1> SUFFICES ASSUME NEW c \in Calls(t) PROVE c \in Calls(u)
  OBVIOUS
<1>1. PICK F \in SUBSET Field :
        c \in [id : Id, all : {F = Field}, fields : {F},
               reply : {None, Failed} \cup [F -> 0..t]]
  BY DEF Calls
<1>2. 0..t \subseteq 0..u
  OBVIOUS
<1>3. {None, Failed} \cup [F -> 0..t] \subseteq {None, Failed} \cup [F -> 0..u]
  BY <1>2
<1>4. c \in [id : Id, all : {F = Field}, fields : {F},
             reply : {None, Failed} \cup [F -> 0..u]]
  BY <1>1, <1>3
<1> QED
  BY <1>4 DEF Calls

\* Fields that were fetched alone are merged into what is shown.
LEMMA Merged ==
  ASSUME NEW t, NEW F \in SUBSET Field, NEW f \in [F -> 0..t],
         NEW g \in [Field -> 0..t]
  PROVE  Spread(g, f) \in [Field -> 0..t]
  BY DEF Spread

-----------------------------------------------------------------------------
LEMMA InvInit == Init => Consistent
<1> SUFFICES ASSUME Init PROVE Consistent
  OBVIOUS
<1> USE DEF Init
<1>1. at \in [Id -> [Field -> 0..now]]
  OBVIOUS
<1>2. ticks \in 0..(FullEvery - 1)
  BY InspectorAssumption
<1>3. focusId \in Id \cup {None}
  BY InspectorAssumption
<1>4. detail # None =>
        /\ detail \in [id : Id, at : [Field -> 0..now]]
        /\ detail.id = focusId /\ DOMAIN detail.at = Field
  BY <1>1, <1>3
<1>5. fetches \in [Slot -> Calls(now) \cup {None}]
  OBVIOUS
<1>6. now \in 0..MaxNow /\ inspectorTab \in Tab
  BY InspectorAssumption
<1> QED
  BY <1>1, <1>2, <1>3, <1>4, <1>5, <1>6 DEF Consistent, TypeOK, DetailFocused

-----------------------------------------------------------------------------
\* What refreshDetail leaves: a call in an unused slot, or none.
LEMMA RefreshLeaves ==
  ASSUME TypeOK, focusId' \in Id \cup {None}, inspectorTab' \in Tab,
         NEW whole \in BOOLEAN, NEW s, RefreshDetail(whole, s)
  PROVE  /\ s \in Slot \cup {None}
         /\ fetches' \in [Slot -> Calls(now) \cup {None}]
         /\ s # None => fetches'[s] # None
         /\ \A r \in Slot : fetches[r] # None => fetches'[r] # None
<1>1. CASE focusId' = None
  BY <1>1 DEF RefreshDetail, TypeOK
<1>2. CASE focusId' # None
  <2> DEFINE F == IF AsksAll(whole) THEN Field ELSE {inspectorTab'}
  <2> DEFINE c == [id |-> focusId', all |-> AsksAll(whole), fields |-> F,
                   reply |-> None]
  <2>1. /\ s \in Unused
        /\ fetches' = [fetches EXCEPT ![s] = c]
    BY <1>2 DEF RefreshDetail
  <2>2. AsksAll(whole) \in BOOLEAN
    BY DEF AsksAll
  <2>3. F \in SUBSET Field /\ (AsksAll(whole) <=> F = Field)
    BY InspectorAssumption DEF Field
  <2>4. AsksAll(whole) = (F = Field)
    BY <2>2, <2>3
  <2>5. c = [id |-> focusId', all |-> F = Field, fields |-> F, reply |-> None]
    BY <2>4
  <2>6. now \in 0..MaxNow /\ focusId' \in Id
    BY <1>2 DEF TypeOK
  <2>7. c \in Calls(now) /\ c # None
    <3> HIDE DEF F
    <3> QED
      BY <2>3, <2>5, <2>6, CallMade
  <2> HIDE DEF c
  <2> QED
    BY <2>1, <2>7 DEF TypeOK, Unused
<1> QED
  BY <1>1, <1>2

\* What the start of a pass leaves.
LEMMA BeginLeaves ==
  ASSUME TypeOK, focusId' \in Id \cup {None}, inspectorTab' \in Tab,
         NEW force \in BOOLEAN, NEW t, Begin(force, t)
  PROVE  /\ pass' \in Passes
         /\ pass'.slot # None => fetches'[pass'.slot] # None
         /\ fetches' \in [Slot -> Calls(now) \cup {None}]
         /\ forceFull' = FALSE
<1> DEFINE whole == force \/ t % FullEvery = 0
<1>1. PICK s : /\ RefreshDetail(whole, s)
               /\ forceFull' = FALSE
               /\ pass' = [forced |-> force, listed |-> None, slot |-> s]
  BY DEF Begin
<1>2. whole \in BOOLEAN
  OBVIOUS
<1> HIDE DEF whole
<1> QED
  BY <1>1, <1>2, RefreshLeaves DEF Passes

\* What the end of a pass leaves.
LEMMA FinallyLeaves ==
  ASSUME TypeOK, focusId' \in Id \cup {None}, inspectorTab' \in Tab,
         NEW force \in BOOLEAN, Finally(force)
  PROVE  /\ ticks' \in 0..(FullEvery - 1)
         /\ pollAgain' = FALSE /\ forceFull' \in BOOLEAN
         /\ pass' \in Passes \cup {None}
         /\ pass' # None /\ pass'.slot # None => fetches'[pass'.slot] # None
         /\ fetches' \in [Slot -> Calls(now) \cup {None}]
<1>1. ticks' \in 0..(FullEvery - 1) /\ pollAgain' = FALSE
  BY InspectorAssumption DEF Finally, TypeOK
<1>2. CASE pollAgain /\ Begin(force, ticks')
  BY <1>1, <1>2, BeginLeaves
<1>3. CASE forceFull' = force /\ pass' = None /\ fetches' = fetches
  BY <1>1, <1>3 DEF TypeOK
<1> QED
  BY <1>2, <1>3 DEF Finally


-----------------------------------------------------------------------------
(* The steps.  What most of them leave of the invariant.                   *)

\* A step that leaves the daemon, and of the rest touches only these.
LEMMA FocusStep ==
  ASSUME Consistent, NEW i \in Id \cup {None}, Focus(i)
  PROVE  Consistent'
<1> USE DEF Consistent
<1>1. /\ focusId' \in Id \cup {None} /\ inspectorTab' = inspectorTab
      /\ inspectorTab' \in Tab
  BY DEF Focus, TypeOK
<1>2. PICK s : RefreshDetail(TRUE, s)
  BY DEF Focus
<1>3. /\ fetches' \in [Slot -> Calls(now) \cup {None}]
      /\ \A r \in Slot : fetches[r] # None => fetches'[r] # None
  BY <1>1, <1>2, RefreshLeaves
<1>4. detail' # None => detail' = detail /\ detail.id = focusId'
  BY DEF Focus
<1>5. pass' = pass /\ (pass # None => pass.slot \in Slot \cup {None})
  BY DEF Focus, TypeOK, Passes
<1>6. pass' # None /\ pass'.slot # None => fetches'[pass'.slot] # None
  BY <1>3, <1>5 DEF TypeOK
<1>7. UNCHANGED <<now, at, here, meta, rows, full, ticks, forceFull, pollAgain, write>>
  BY DEF Focus, daemon, list, flags
<1>8. DetailFocused'
  BY <1>4 DEF DetailFocused
<1> QED
  BY <1>1, <1>3, <1>4, <1>5, <1>6, <1>7, <1>8 DEF TypeOK

LEMMA TabStep ==
  ASSUME Consistent, NEW tab \in Tab, SetInspectorTab(tab)
  PROVE  Consistent'
<1> USE DEF Consistent
<1>1. focusId' = focusId /\ focusId' \in Id \cup {None} /\ inspectorTab' \in Tab
  BY DEF SetInspectorTab, TypeOK
<1>2. PICK s : RefreshDetail(FALSE, s)
  BY DEF SetInspectorTab
<1>3. /\ fetches' \in [Slot -> Calls(now) \cup {None}]
      /\ \A r \in Slot : fetches[r] # None => fetches'[r] # None
  BY <1>1, <1>2, RefreshLeaves
<1>4. pass' = pass /\ (pass # None => pass.slot \in Slot \cup {None})
  BY DEF SetInspectorTab, TypeOK, Passes
<1>5. pass' # None /\ pass'.slot # None => fetches'[pass'.slot] # None
  BY <1>3, <1>4 DEF TypeOK
<1>6. UNCHANGED <<now, at, here, meta, rows, full, detail, ticks, forceFull,
                  pollAgain, write>>
  BY DEF SetInspectorTab, daemon, list, flags
<1>7. DetailFocused'
  BY <1>1, <1>6 DEF DetailFocused
<1> QED
  BY <1>1, <1>3, <1>4, <1>5, <1>6, <1>7 DEF TypeOK

\* An answer: for the focused torrent, and whole or merged into its detail.
LEMMA ArrivesStep ==
  ASSUME Consistent, NEW s \in Slot, DetailArrives(s)
  PROVE  Consistent'
<1> USE DEF Consistent
<1> DEFINE c == fetches[s]
<1>1. /\ c \in Calls(now) /\ c.reply # None /\ detail' = Answered(c)
      /\ fetches' = [fetches EXCEPT ![s] = None]
  BY DEF DetailArrives, TypeOK
<1>2. UNCHANGED <<now, at, here, meta, rows, full, focusId, inspectorTab, ticks,
                  forceFull, pollAgain, write>>
  BY DEF DetailArrives, daemon, list, flags
<1>3. /\ c.id \in Id /\ c.fields \in SUBSET Field
      /\ c.all => c.fields = Field
      /\ c.reply \in {None, Failed} \cup [c.fields -> 0..now]
  BY <1>1, CallKnown
<1>4. detail' # None =>
        /\ detail' \in [id : Id, at : [Field -> 0..now]]
        /\ detail'.id = focusId /\ DOMAIN detail'.at = Field
  <2> HIDE DEF c
  <2>1. CASE detail' = detail
    BY <2>1 DEF TypeOK, DetailFocused
  <2>2. CASE /\ focusId = c.id /\ c.reply # Failed /\ c.all
             /\ detail' = [id |-> c.id, at |-> c.reply]
    BY <1>1, <1>3, <2>2
  <2>3. CASE /\ focusId = c.id /\ c.reply # Failed
             /\ detail # None /\ detail.id = c.id
             /\ detail' = [detail EXCEPT !.at = Spread(@, c.reply)]
    <3>1. c.reply \in [c.fields -> 0..now]
      BY <1>1, <1>3, <2>3
    <3>2. detail \in [id : Id, at : [Field -> 0..now]]
      BY <2>3 DEF TypeOK
    <3>3. Spread(detail.at, c.reply) \in [Field -> 0..now]
      BY <1>3, <3>1, <3>2, Merged
    <3> QED
      BY <2>3, <3>2, <3>3
  <2> QED
    BY <1>1, <2>1, <2>2, <2>3 DEF Answered
<1>5. fetches' \in [Slot -> Calls(now) \cup {None}]
  BY <1>1 DEF TypeOK
<1>6. /\ pass' \in Passes \cup {None}
      /\ pass' # None /\ pass'.slot # None => fetches'[pass'.slot] # None
  <2>1. CASE pass # None /\ pass.slot = s
    <3>1. pass' = [pass EXCEPT !.slot = None] /\ pass \in Passes
      BY <2>1 DEF DetailArrives, TypeOK
    <3> QED
      BY <3>1 DEF Passes
  <2>2. CASE ~(pass # None /\ pass.slot = s)
    <3>1. pass' = pass
      BY <2>2 DEF DetailArrives
    <3> QED
      BY <1>1, <2>2, <3>1 DEF TypeOK, Passes
  <2> QED
    BY <2>1, <2>2
<1>7. DetailFocused'
  BY <1>2, <1>4 DEF DetailFocused
<1> QED
  BY <1>2, <1>4, <1>5, <1>6, <1>7 DEF TypeOK

\* A pass that begins, ends or fails, and a write that ends.
LEMMA PassStep ==
  ASSUME Consistent, Fire \/ PassDone \/ PassFailed \/ WriteEnds
  PROVE  Consistent'
<1> USE DEF Consistent
<1>1. UNCHANGED <<now, at, here, meta, inspectorTab>>
  BY DEF Fire, PassDone, PassFailed, WriteEnds, daemon, view
<1>2. /\ rows' \subseteq Id /\ full' \subseteq rows'
      /\ write' \in [id : Id, reply : {None, "done", Failed}] \cup {None}
  <2>1. CASE PassDone
    <3>1. pass.listed \in Lists /\ rows' = pass.listed.rows /\ full' = pass.listed.full
      BY <2>1 DEF PassDone, TypeOK, Passes
    <3>2. write' = write
      BY <2>1 DEF PassDone
    <3> QED
      BY <3>1, <3>2 DEF Lists, TypeOK
  <2>2. CASE Fire \/ PassFailed \/ WriteEnds
    BY <2>2 DEF Fire, PassFailed, WriteEnds, list, TypeOK
  <2> QED
    BY <2>1, <2>2
<1>3. /\ focusId' \in Id \cup {None}
      /\ detail' # None => detail' = detail /\ focusId' = focusId
  BY DEF Fire, PassDone, PassFailed, WriteEnds, view, TypeOK
<1>4. inspectorTab' \in Tab /\ forceFull \in BOOLEAN
  BY <1>1 DEF TypeOK
<1>5. /\ ticks' \in 0..(FullEvery - 1)
      /\ pollAgain' \in BOOLEAN /\ forceFull' \in BOOLEAN
      /\ pass' \in Passes \cup {None}
      /\ pass' # None /\ pass'.slot # None => fetches'[pass'.slot] # None
      /\ fetches' \in [Slot -> Calls(now) \cup {None}]
  <2>1. CASE Fire
    <3>1. ticks' = ticks /\ pollAgain' = pollAgain
      BY <2>1 DEF Fire
    <3>2. Begin(forceFull, ticks)
      BY <2>1 DEF Fire
    <3> QED
      BY <1>3, <1>4, <3>1, <3>2, BeginLeaves DEF TypeOK
  <2>2. CASE PassDone
    <3>1. Finally(forceFull)
      BY <2>2 DEF PassDone
    <3> QED
      BY <1>3, <1>4, <3>1, FinallyLeaves
  <2>3. CASE PassFailed
    <3> DEFINE force == forceFull \/ pass.forced
    <3>1. Finally(force)
      BY <2>3 DEF PassFailed
    <3>2. force \in BOOLEAN
      OBVIOUS
    <3> HIDE DEF force
    <3> QED
      BY <1>3, <1>4, <3>1, <3>2, FinallyLeaves
  <2>4. CASE WriteEnds
    <3>1. ticks' = ticks
      BY <2>4 DEF WriteEnds
    <3>2. CASE Begin(TRUE, ticks) /\ pollAgain' = pollAgain
      BY <1>3, <1>4, <3>1, <3>2, BeginLeaves DEF TypeOK
    <3>3. CASE /\ pollAgain' = TRUE /\ forceFull' = TRUE
               /\ UNCHANGED <<pass, fetches>>
      BY <3>1, <3>3 DEF TypeOK
    <3>4. CASE UNCHANGED <<forceFull, pollAgain, pass, fetches>>
      BY <3>1, <3>4 DEF TypeOK
    <3> QED
      BY <2>4, <3>2, <3>3, <3>4 DEF WriteEnds
  <2> QED
    BY <2>1, <2>2, <2>3, <2>4
<1>6. DetailFocused'
  BY <1>3 DEF DetailFocused
<1> QED
  BY <1>1, <1>2, <1>3, <1>5, <1>6 DEF TypeOK


\* The daemon answers a detail fetch, or a fetch fails.
LEMMA ReplyKept ==
  ASSUME Consistent, NEW s \in Slot, fetches[s] # None,
         NEW r \in {None, Failed} \cup [fetches[s].fields -> 0..now],
         fetches' = [fetches EXCEPT ![s].reply = r]
  PROVE  /\ fetches' \in [Slot -> Calls(now) \cup {None}]
         /\ \A q \in Slot : fetches[q] # None => fetches'[q] # None
<1> DEFINE c == fetches[s]
<1>1. c \in Calls(now) /\ now \in 0..MaxNow
  BY DEF Consistent, TypeOK
<1>2. PICK F \in SUBSET Field :
        c \in [id : Id, all : {F = Field}, fields : {F},
               reply : {None, Failed} \cup [F -> 0..now]]
  BY <1>1 DEF Calls
<1>3. [c EXCEPT !.reply = r] = [id |-> c.id, all |-> F = Field, fields |-> F, reply |-> r]
  BY <1>2
<1>4. c.id \in Id /\ r \in {None, Failed} \cup [F -> 0..now]
  BY <1>2
<1>5. [c EXCEPT !.reply = r] \in Calls(now) /\ [c EXCEPT !.reply = r] # None
  BY <1>1, <1>3, <1>4, CallMade
<1>6. fetches' = [fetches EXCEPT ![s] = [c EXCEPT !.reply = r]]
  OBVIOUS
<1> HIDE DEF c
<1> QED
  BY <1>5, <1>6 DEF Consistent, TypeOK

LEMMA DetailAnsweredStep ==
  ASSUME Consistent, NEW s \in Slot, DetailAnswered(s)
  PROVE  Consistent'
<1> USE DEF Consistent
<1> DEFINE c == fetches[s]
<1> DEFINE r == IF c.id \in here THEN [f \in c.fields |-> at[c.id][f]] ELSE Failed
<1>1. c # None /\ fetches' = [fetches EXCEPT ![s].reply = r]
  BY DEF DetailAnswered
<1>2. c \in Calls(now)
  BY <1>1 DEF TypeOK
<1>3. c.id \in Id /\ c.fields \in SUBSET Field
  BY <1>2, CallKnown
<1>4. r \in {None, Failed} \cup [c.fields -> 0..now]
  BY <1>3 DEF TypeOK
<1>5. /\ fetches' \in [Slot -> Calls(now) \cup {None}]
      /\ \A q \in Slot : fetches[q] # None => fetches'[q] # None
  <2> HIDE DEF r
  <2> QED
    BY <1>1, <1>4, ReplyKept
<1>6. UNCHANGED <<now, at, here, meta, rows, full, focusId, inspectorTab, detail,
                  ticks, forceFull, pollAgain, pass, write>>
  BY DEF DetailAnswered, daemon, list, view, flags
<1>7. pass # None => pass.slot \in Slot \cup {None}
  BY DEF TypeOK, Passes
<1>8. pass' # None /\ pass'.slot # None => fetches'[pass'.slot] # None
  BY <1>5, <1>6, <1>7 DEF TypeOK
<1>9. DetailFocused'
  BY <1>6 DEF DetailFocused
<1> QED
  BY <1>5, <1>6, <1>8, <1>9 DEF TypeOK

LEMMA FailsStep ==
  ASSUME Consistent, Fails
  PROVE  Consistent'
<1> USE DEF Consistent
<1>1. UNCHANGED <<now, at, here, meta, rows, full, focusId, inspectorTab, detail,
                  ticks, forceFull, pollAgain>>
  BY DEF Fails, daemon, list, view, flags
<1>2. DetailFocused'
  BY <1>1 DEF DetailFocused
<1>3. CASE /\ pass # None
           /\ pass' = [pass EXCEPT !.listed = Failed]
           /\ UNCHANGED <<fetches, write>>
  <2>1. pass \in Passes
    BY <1>3 DEF TypeOK
  <2>2. pass' \in Passes /\ pass'.slot = pass.slot
    BY <1>3, <2>1 DEF Passes
  <2> QED
    BY <1>1, <1>2, <1>3, <2>2 DEF TypeOK
<1>4. CASE /\ \E s \in Slot : /\ fetches[s] # None
                              /\ fetches' = [fetches EXCEPT ![s].reply = Failed]
           /\ UNCHANGED <<pass, write>>
  <2>1. PICK s \in Slot : /\ fetches[s] # None
                          /\ fetches' = [fetches EXCEPT ![s].reply = Failed]
    BY <1>4
  <2>2. /\ fetches' \in [Slot -> Calls(now) \cup {None}]
        /\ \A q \in Slot : fetches[q] # None => fetches'[q] # None
    BY <2>1, ReplyKept
  <2>3. pass # None => pass.slot \in Slot \cup {None}
    BY DEF TypeOK, Passes
  <2>4. pass' # None /\ pass'.slot # None => fetches'[pass'.slot] # None
    BY <1>4, <2>2, <2>3 DEF TypeOK
  <2> QED
    BY <1>1, <1>2, <1>4, <2>2, <2>4 DEF TypeOK
<1>5. CASE /\ write # None
           /\ write' = [write EXCEPT !.reply = Failed]
           /\ UNCHANGED <<pass, fetches>>
  BY <1>1, <1>2, <1>5 DEF TypeOK
<1> QED
  BY <1>3, <1>4, <1>5 DEF Fails

\* The daemon's torrents change: what was seen of them stays of the past.
LEMMA DaemonStep ==
  ASSUME Consistent, now' \in now..MaxNow,
         at' \in [Id -> [Field -> 0..now']],
         meta' \subseteq here', here' \subseteq Id,
         write' \in [id : Id, reply : {None, "done", Failed}] \cup {None},
         UNCHANGED <<list, view, flags, pass, fetches>>
  PROVE  Consistent'
<1> USE DEF Consistent
<1>1. UNCHANGED <<rows, full, focusId, inspectorTab, detail, ticks, forceFull,
                  pollAgain, pass, fetches>>
  BY DEF list, view, flags
<1>2. now \in Nat /\ now' \in Nat /\ now <= now' /\ now' \in 0..MaxNow
  BY InspectorAssumption DEF TypeOK
<1>3. Calls(now) \subseteq Calls(now') /\ 0..now \subseteq 0..now'
  BY <1>2, CallsGrow
<1>4. fetches' \in [Slot -> Calls(now') \cup {None}]
  BY <1>1, <1>3 DEF TypeOK
<1>5. detail' = None \/ detail' \in [id : Id, at : [Field -> 0..now']]
  BY <1>1, <1>3 DEF TypeOK
<1>6. DetailFocused'
  BY <1>1 DEF DetailFocused
<1> QED
  BY <1>1, <1>2, <1>4, <1>5, <1>6 DEF TypeOK

LEMMA OtherSteps ==
  ASSUME Consistent,
         \/ WriteAnswered
         \/ \E i \in Id : Write(i) \/ Moves(i) \/ MetadataArrives(i) \/ Goes(i)
  PROVE  Consistent'
<1> USE DEF Consistent
<1>1. UNCHANGED <<list, view, flags, pass, fetches>>
  BY DEF WriteAnswered, Write, Moves, MetadataArrives, Goes, client
<1>2. now \in Nat /\ now <= MaxNow /\ MaxNow \in Nat
  BY InspectorAssumption DEF TypeOK
<1>3. now' \in now..MaxNow
  BY <1>2 DEF WriteAnswered, Write, Moves, MetadataArrives, Goes, Happens, daemon
<1>4. now' \in 0..now' /\ 0..now \subseteq 0..now'
  BY <1>2, <1>3
<1>6. at' \in [Id -> [Field -> 0..now']]
  <2>0. at \in [Id -> [Field -> 0..now']]
    BY <1>4 DEF TypeOK
  <2>1. CASE at' = at
    BY <2>0, <2>1
  <2>2. CASE \E i \in Id : at' = [at EXCEPT ![i]["fixed"] = now']
    <3>1. PICK i \in Id : at' = [at EXCEPT ![i]["fixed"] = now']
      BY <2>2
    <3>2. [at[i] EXCEPT !["fixed"] = now'] \in [Field -> 0..now']
      BY <1>4, <2>0
    <3>3. at' = [at EXCEPT ![i] = [at[i] EXCEPT !["fixed"] = now']]
      BY <3>1
    <3> QED
      BY <2>0, <3>2, <3>3
  <2>3. CASE \E i \in Id :
               at' = [at EXCEPT ![i] = [f \in Field |-> IF f \in Tab THEN now' ELSE @[f]]]
    <3>1. PICK i \in Id :
               at' = [at EXCEPT ![i] = [f \in Field |-> IF f \in Tab THEN now' ELSE @[f]]]
      BY <2>3
    <3>2. [f \in Field |-> IF f \in Tab THEN now' ELSE at[i][f]] \in [Field -> 0..now']
      BY <1>4, <2>0
    <3> QED
      BY <2>0, <3>1, <3>2
  <2>4. write # None => write.id \in Id
    BY DEF TypeOK
  <2> QED
    BY <2>1, <2>2, <2>3, <2>4
    DEF WriteAnswered, Write, Moves, MetadataArrives, Goes, daemon
<1>7. meta' \subseteq here' /\ here' \subseteq Id
  BY DEF WriteAnswered, Write, Moves, MetadataArrives, Goes, daemon, TypeOK
<1>8. write' \in [id : Id, reply : {None, "done", Failed}] \cup {None}
  BY DEF WriteAnswered, Write, Moves, MetadataArrives, Goes, client, TypeOK
<1> QED
  BY <1>1, <1>3, <1>6, <1>7, <1>8, DaemonStep

LEMMA ListStep ==
  ASSUME Consistent, ListAnswered
  PROVE  Consistent'
<1> USE DEF Consistent
<1>1. pass \in Passes /\ pass' = [pass EXCEPT !.listed = [rows |-> here, full |-> meta]]
  BY DEF ListAnswered, TypeOK
<1>2. [rows |-> here, full |-> meta] \in Lists
  BY DEF Lists, TypeOK
<1>3. pass' \in Passes /\ pass'.slot = pass.slot
  BY <1>1, <1>2 DEF Passes
<1>4. pass # None
  BY DEF ListAnswered
<1>5. UNCHANGED <<now, at, here, meta, rows, full, focusId, inspectorTab, detail,
                  ticks, forceFull, pollAgain, fetches, write>>
  BY DEF ListAnswered, daemon, list, view, flags
<1>6. DetailFocused'
  BY <1>5 DEF DetailFocused
<1> QED
  BY <1>3, <1>4, <1>5, <1>6 DEF TypeOK

LEMMA InvNext == Consistent /\ [Next]_vars => Consistent'
<1> SUFFICES ASSUME Consistent, [Next]_vars PROVE Consistent'
  OBVIOUS
<1>1. CASE UNCHANGED vars
  BY <1>1 DEF vars, daemon, client, list, view, flags, bounds, Consistent, TypeOK,
              DetailFocused
<1>2. CASE Next
  BY <1>2, FocusStep, TabStep, ArrivesStep, PassStep, DetailAnsweredStep, FailsStep,
     OtherSteps, ListStep DEF Next
<1> QED
  BY <1>1, <1>2

\* However many fetches are out, however torrents and tabs are clicked
\* through, and whichever calls fail or answer late: the detail shown is that
\* of the focused torrent, with all its fields (refreshDetail, focus).
THEOREM ConsistentHolds == Spec => []Consistent
<1> QED
  BY InvInit, InvNext, PTL DEF Spec

=============================================================================

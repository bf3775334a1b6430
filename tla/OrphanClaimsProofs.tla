------------------------- MODULE OrphanClaimsProofs -------------------------
(***************************************************************************)
(* Proofs about OrphanClaims, for any names, roots, torrents and contents: *)
(* a scan offers nothing that a torrent may have, and nothing twice.       *)
(***************************************************************************)
EXTENDS OrphanClaims, SequenceTheorems, TLAPS

-----------------------------------------------------------------------------
(* Paths.                                                                  *)

LEMMA Prefix ==
  ASSUME NEW p \in Path, NEW n \in 0..Len(p)
  PROVE  /\ SubSeq(p, 1, n) \in Path /\ Len(SubSeq(p, 1, n)) = n
         /\ \A i \in 1..n : SubSeq(p, 1, n)[i] = p[i]
  BY SubSeqProperties DEF Path

\* Within, name by name.
LEMMA WithinNames ==
  ASSUME NEW p \in Path, NEW q \in Path
  PROVE  Within(p, q) <=> Len(q) <= Len(p) /\ \A i \in 1..Len(q) : q[i] = p[i]
<1>1. Len(p) \in Nat /\ Len(q) \in Nat
  BY DEF Path
<1>2. ASSUME Len(q) <= Len(p), \A i \in 1..Len(q) : q[i] = p[i]
      PROVE  Within(p, q)
  <2>1. SubSeq(q, 1, Len(q)) = q
    BY SubSeqFull DEF Path
  <2>2. /\ SubSeq(p, 1, Len(q)) \in Path /\ Len(SubSeq(p, 1, Len(q))) = Len(q)
        /\ \A i \in 1..Len(q) : SubSeq(p, 1, Len(q))[i] = p[i]
    BY <1>1, <1>2, Prefix
  <2>3. SubSeq(p, 1, Len(q)) = q
    BY <2>2, <1>2, SeqEqual DEF Path
  <2> QED
    BY <2>1, <2>3, <1>2 DEF Within, IsPrefix
<1>3. ASSUME Within(p, q)
      PROVE  Len(q) <= Len(p) /\ \A i \in 1..Len(q) : q[i] = p[i]
  <2>1. Len(q) <= Len(p) /\ SubSeq(q, 1, Len(q)) = SubSeq(p, 1, Len(q))
    BY <1>3 DEF Within, IsPrefix
  <2>2. /\ \A i \in 1..Len(q) : SubSeq(p, 1, Len(q))[i] = p[i]
        /\ \A i \in 1..Len(q) : SubSeq(q, 1, Len(q))[i] = q[i]
    BY <1>1, <2>1, Prefix
  <2> QED
    BY <2>1, <2>2
<1> QED
  BY <1>2, <1>3

LEMMA WithinPrefix ==
  ASSUME NEW p \in Path, NEW q \in Path, Within(p, q)
  PROVE  SubSeq(p, 1, Len(q)) = q
  BY SubSeqFull DEF Within, IsPrefix, Path

LEMMA NormType ==
  ASSUME NEW p \in Path PROVE Norm(p) \in Path /\ Len(Norm(p)) = Len(p)
  BY ClaimsAssumption DEF Norm, Path

LEMMA LocatedType ==
  ASSUME NEW p \in Path, NEW y \in Located(p) PROVE y \in Places
<1>1. PICK r \in Root : /\ Within(p, Mount[r])
                        /\ y = [root |-> r,
                                rel |-> Norm(SubSeq(p, Len(Mount[r]) + 1, Len(p)))]
  BY DEF Located
<1>2. Mount[r] \in Path
  BY ClaimsAssumption
<1>3. SubSeq(p, Len(Mount[r]) + 1, Len(p)) \in Path
  <2>1. Len(Mount[r]) \in Nat /\ Len(p) \in Nat
    BY <1>2 DEF Path
  <2>2. \A i \in Len(Mount[r]) + 1 .. Len(p) : p[i] \in Name
    BY <2>1 DEF Path
  <2> QED
    BY <2>1, <2>2 DEF Path
<1> QED
  BY <1>1, <1>3, NormType DEF Places

-----------------------------------------------------------------------------
(* What is claimed.                                                        *)

LEMMA KeyAtOrAbove ==
  ASSUME NEW x \in Proper, NEW y \in Places,
         y.root = x.root, Within(y.rel, Norm(x.rel))
  PROVE  [x EXCEPT !.rel = Norm(@)] \in AtOrAbove(y)
<1>1. /\ Norm(x.rel) \in Path /\ Len(Norm(x.rel)) = Len(x.rel)
      /\ x.rel \in Path /\ y.rel \in Path /\ x.rel # <<>>
  BY NormType DEF Proper, Places
<1>2. Len(x.rel) \in Nat \ {0} /\ Len(y.rel) \in Nat
  BY <1>1, EmptySeq DEF Path
<1>3. Len(x.rel) \in 1..Len(y.rel)
  BY <1>1, <1>2, WithinNames
<1>4. SubSeq(y.rel, 1, Len(x.rel)) = Norm(x.rel)
  BY <1>1, WithinPrefix
<1>5. [x EXCEPT !.rel = Norm(@)] = [y EXCEPT !.rel = SubSeq(@, 1, Len(x.rel))]
  BY <1>4 DEF Proper, Places
<1> QED
  BY <1>3, <1>5 DEF AtOrAbove

LEMMA HomesAreBases ==
  ASSUME NEW t \in Torrent, session \in Session PROVE Homes(t) = Bases(session, t)
  BY ClaimsAssumption DEF Homes, Bases

\* The daemon's words for a torrent's data are those of newClaims.
LEMMA DataIsClaimed ==
  ASSUME NEW T \in SUBSET Torrent, session \in Session, NEW p \in Data(T)
  PROVE  \E t \in T : \E b \in Bases(session, t) : p \in DataIn(t, b)
<1>1. PICK t \in T : \E b \in Homes(t) : p \in AnyOf(t, b)
  BY DEF Data
<1>2. PICK b \in Homes(t) : p \in AnyOf(t, b)
  BY <1>1
<1>3. b \in Bases(session, t) /\ b \in Path
  BY HomesAreBases, ClaimsAssumption DEF Bases
<1>4. SUFFICES p \in DataIn(t, b)
  BY <1>3
<1>0. ASSUME NEW f \in t.files, NEW g \in Spellings(f), p = b \o g
      PROVE  p \in DataIn(t, b)
  <2>1. t.files # {} /\ p \in {b \o h : h \in Spellings(f)}
    BY <1>0
  <2>2. p \in UNION {{b \o h : h \in Spellings(u)} : u \in t.files}
    BY <2>1
  <2> QED
    BY <2>1, <2>2 DEF DataIn
<1>5. CASE \E f \in t.files : p = b \o f
  <2>1. PICK f \in t.files : p = b \o f
    BY <1>5
  <2>2. f \in Spellings(f)
    BY DEF Spellings
  <2> QED
    BY <2>1, <2>2, <1>0
<1>6. ASSUME NEW f \in t.files, p = Append(b \o Front(f), Part[Last(f)])
      PROVE  p \in DataIn(t, b)
  <2>1. f \in Path /\ f # <<>> /\ Part[Last(f)] \in Name
    BY ClaimsAssumption
  <2>2. Len(f) - 1 \in 0..Len(f)
    BY <2>1, EmptySeq DEF Path
  <2>3. Front(f) \in Path
    BY <2>1, <2>2, Prefix DEF Front
  <2>4. p = b \o Append(Front(f), Part[Last(f)])
    <3> DEFINE e == Part[Last(f)]
    <3>1. <<e>> \in Path /\ b \o Front(f) \in Path
      BY <1>3, <2>1, <2>3, ConcatProperties DEF Path
    <3>2. /\ Append(b \o Front(f), e) = (b \o Front(f)) \o <<e>>
          /\ Append(Front(f), e) = Front(f) \o <<e>>
      BY <2>1, <2>3, <3>1, AppendIsConcat DEF Path
    <3>3. (b \o Front(f)) \o <<e>> = b \o (Front(f) \o <<e>>)
      BY <1>3, <2>3, <3>1, ConcatAssociative DEF Path
    <3> QED
      BY <1>6, <3>2, <3>3
  <2>5. Append(Front(f), Part[Last(f)]) \in Spellings(f)
    BY DEF Spellings
  <2> QED
    BY <2>4, <2>5, <1>0
<1>7. CASE t.files = {} /\ p = Append(b, t.name)
  BY <1>7 DEF DataIn
<1> QED
  BY <1>2, <1>5, <1>6, <1>7 DEF AnyOf

LEMMA DataInType ==
  ASSUME NEW t \in Torrent, NEW b \in Path, NEW p \in DataIn(t, b)
  PROVE  p \in Path
<1>1. CASE t.files = {}
  <2>1. p = Append(b, t.name) /\ t.name \in Name
    BY <1>1, ClaimsAssumption DEF DataIn
  <2> QED
    BY <2>1, AppendProperties DEF Path
<1>2. CASE t.files # {}
  <2>1. PICK f \in t.files : \E g \in Spellings(f) : p = b \o g
    BY <1>2 DEF DataIn
  <2>2. f \in Path /\ f # <<>> /\ Part[Last(f)] \in Name
    BY ClaimsAssumption
  <2>3. Len(f) - 1 \in 0..Len(f)
    BY <2>2, EmptySeq DEF Path
  <2>4. Front(f) \in Path
    BY <2>2, <2>3, Prefix DEF Front
  <2>5. Append(Front(f), Part[Last(f)]) \in Path
    BY <2>2, <2>4 DEF Path
  <2>6. \A g \in Spellings(f) : g \in Path
    BY <2>2, <2>5 DEF Spellings
  <2> QED
    BY <2>1, <2>6, ConcatProperties DEF Path
<1> QED
  BY <1>1, <1>2

LEMMA BasesType ==
  ASSUME NEW s \in Session, NEW t \in Torrent PROVE Bases(s, t) \subseteq Path
  BY ClaimsAssumption DEF Bases

LEMMA AboveType ==
  ASSUME NEW x \in Places PROVE AtOrAbove(x) \subseteq Proper
<1>1. SUFFICES ASSUME NEW n \in 1..Len(x.rel)
               PROVE  [x EXCEPT !.rel = SubSeq(@, 1, n)] \in Proper
  BY DEF AtOrAbove
<1>2. x.rel \in Path /\ Len(x.rel) \in Nat
  BY DEF Places, Path
<1>3. SubSeq(x.rel, 1, n) \in Path /\ Len(SubSeq(x.rel, 1, n)) = n
  BY <1>2, Prefix
<1>4. SubSeq(x.rel, 1, n) # <<>>
  BY <1>2, <1>3, EmptySeq
<1> QED
  BY <1>3, <1>4 DEF Places, Proper

LEMMA SelfAtOrAbove ==
  ASSUME NEW x \in Proper PROVE x \in AtOrAbove(x)
<1>1. x.rel \in Path /\ x.rel # <<>>
  BY DEF Proper, Places
<1>2. Len(x.rel) \in 1..Len(x.rel) /\ SubSeq(x.rel, 1, Len(x.rel)) = x.rel
  BY <1>1, EmptySeq, SubSeqFull DEF Path
<1>3. x = [x EXCEPT !.rel = SubSeq(@, 1, Len(x.rel))]
  BY <1>2 DEF Proper, Places
<1> QED
  BY <1>2, <1>3 DEF AtOrAbove

\* What newClaims does with the data of a torrent, and with a daemon's folder.
LEMMA DataClaimed ==
  ASSUME NEW s, NEW T, NEW t \in T, NEW b \in Bases(s, t), NEW y \in DataAt(t, b)
  PROVE  /\ t.files # {} => y \in NewClaims(s, T).files
         /\ t.files = {} => y \in NewClaims(s, T).whole
         /\ Above(y) \subseteq NewClaims(s, T).descend
<1> DEFINE D(U) == UNION {UNION {DataAt(u, a) : a \in Bases(s, u)} : u \in U}
<1>1. \A U : t \in U => y \in D(U)
  OBVIOUS
<1>2. /\ NewClaims(s, T).files = D({u \in T : u.files # {}})
      /\ NewClaims(s, T).whole = D({u \in T : u.files = {}})
      /\ UNION {Above(x) : x \in D(T)} \subseteq NewClaims(s, T).descend
  BY DEF NewClaims
<1>3. Above(y) \subseteq UNION {Above(x) : x \in D(T)}
  BY <1>1
<1>4. t.files # {} => y \in D({u \in T : u.files # {}})
  BY <1>1
<1>5. t.files = {} => y \in D({u \in T : u.files = {}})
  BY <1>1
<1> HIDE DEF D
<1> QED
  BY <1>2, <1>3, <1>4, <1>5

LEMMA FolderClaimed ==
  ASSUME NEW s, NEW T, NEW p \in Structural(s, T), NEW y \in Located(p)
  PROVE  AtOrAbove(y) \subseteq NewClaims(s, T).descend
  BY DEF NewClaims

LEMMA DataAtType ==
  ASSUME NEW t \in Torrent, NEW b \in Path PROVE DataAt(t, b) \subseteq Proper
  BY DataInType, LocatedType DEF DataAt, Proper

LEMMA ClaimsType ==
  ASSUME NEW s \in Session, NEW T \in SUBSET Torrent
  PROVE  NewClaims(s, T) \in [files : SUBSET Proper, whole : SUBSET Proper,
                               descend : SUBSET Proper]
<1> DEFINE D(U) == UNION {UNION {DataAt(u, a) : a \in Bases(s, u)} : u \in U}
           F    == UNION {UNION {AtOrAbove(x) : x \in Located(p)} :
                            p \in Structural(s, T)}
<1>1. \A U \in SUBSET T : D(U) \subseteq Proper
  BY BasesType, DataAtType
<1>2. UNION {Above(x) : x \in D(T)} \subseteq Proper
  BY <1>1, AboveType DEF Above, Proper
<1>3. F \subseteq Proper
  <2>1. Structural(s, T) \subseteq Path
    BY ClaimsAssumption DEF Structural
  <2> QED
    BY <2>1, LocatedType, AboveType
<1>4. NewClaims(s, T) = [files   |-> D({t \in T : t.files # {}}),
                         whole   |-> D({t \in T : t.files = {}}),
                         descend |-> (UNION {Above(x) : x \in D(T)}) \cup F]
  BY DEF NewClaims
<1> HIDE DEF D, F
<1> QED
  BY <1>1, <1>2, <1>3, <1>4

-----------------------------------------------------------------------------
\* Type correctness: whatever the daemon has and the disk contains, the walk
\* keeps to places in the roots, and only proper ones are claimed or offered.
THEOREM TypeCorrect == Spec => []TypeOK
<1>1. Init => TypeOK
  <2> SUFFICES ASSUME Init PROVE TypeOK
    OBVIOUS
  <2>1. claims \in [files : SUBSET Proper, whole : SUBSET Proper,
                    descend : SUBSET Proper]
    BY ClaimsType DEF Init
  <2> QED
    BY <2>1, ClaimsAssumption DEF Init, TypeOK
<1>2. TypeOK /\ [Next]_vars => TypeOK'
  <2> SUFFICES ASSUME TypeOK, [Next]_vars PROVE TypeOK'
    OBVIOUS
  <2> USE DEF TypeOK
  <2>0. NewClaims(session, loaded) \in [files : SUBSET Proper, whole : SUBSET Proper,
                                        descend : SUBSET Proper]
    BY ClaimsType
  <2>1. CASE Begin
    <3>1. [root : Root, rel : {<<>>}] \subseteq Places
      BY EmptySeq DEF Places, Path
    <3> QED
      BY <2>0, <2>1, <3>1 DEF Begin
  <2>2. CASE Again
    BY <2>0, <2>2 DEF Again
  <2>3. ASSUME NEW x \in folders, Visit(x) PROVE TypeOK'
    <3>1. x.root \in Root
      BY DEF Places
    <3>2. \A p \in DOMAIN disk[x.root] : p \in Path \ {<<>>}
      BY <3>1, ClaimsAssumption
    <3> DEFINE Isdir(p) == disk[x.root][p] = "dir"
               Item(p) == [root |-> x.root, rel |-> p, dir |-> Isdir(p)]
    <3>3. \A p : Isdir(p) \in BOOLEAN
      BY Zenon
    <3>4. \A u \in listed' : u \in listed \/ \E p \in DOMAIN disk[x.root] : u = Item(p)
      BY <2>3 DEF Visit
    <3> HIDE DEF Isdir
    <3>5. \A p \in DOMAIN disk[x.root] : Item(p) \in Entry
      BY <3>1, <3>2, <3>3 DEF Entry
    <3>6. listed' \subseteq Entry
      BY <3>4, <3>5
    <3> QED
      BY <2>3, <3>6 DEF Visit
  <2>4. ASSUME NEW x \in folders, SkipFolder(x) PROVE TypeOK'
    BY <2>4 DEF SkipFolder, Skipped, Proper
  <2>5. ASSUME NEW e \in listed PROVE [root |-> e.root, rel |-> e.rel] \in Proper
    BY DEF Entry, Proper, Places
  <2>6. ASSUME NEW e \in listed, Look(e) PROVE TypeOK'
    BY <2>5, <2>6 DEF Look, Proper
  <2>7. ASSUME NEW e \in listed, SkipEntry(e) PROVE TypeOK'
    BY <2>5, <2>7 DEF SkipEntry, Skipped
  <2>8. ASSUME Change PROVE changes' \in 0..MaxChanges
    BY <2>8, ClaimsAssumption DEF Change
  <2>9. ASSUME NEW T \in SUBSET Torrent, TorrentsChange(T) PROVE TypeOK'
    BY <2>8, <2>9 DEF TorrentsChange
  <2>10. ASSUME NEW r \in Root, NEW D \in Tree, NEW p, DiskChanges(r, p, D)
         PROVE  TypeOK'
    BY <2>8, <2>10 DEF DiskChanges
  <2>11. CASE UNCHANGED vars
    BY <2>11 DEF vars
  <2> QED
    BY <2>1, <2>2, <2>3, <2>4, <2>6, <2>7, <2>9, <2>10, <2>11 DEF Next
<1> QED
  BY <1>1, <1>2, PTL DEF Spec

-----------------------------------------------------------------------------
\* What Owner takes out is all that NothingOwned speaks of.
LEMMA OwnerCovers ==
  ASSUME NEW T \in SUBSET Torrent, session \in Session, NEW x \in Proper,
         ~Owner(NewClaims(session, T), [x EXCEPT !.rel = Norm(@)])
  PROVE  /\ ~\E p \in Data(T) \cup Structural(session, T) : AtOrBelow(p, x)
         /\ ~\E p \in Data({t \in T : t.files = {}}) : Below(x, p)
<1> DEFINE c   == NewClaims(session, T)
           key == [x EXCEPT !.rel = Norm(@)]
<1>1. /\ key \notin c.files /\ key \notin c.descend
      /\ \A y \in AtOrAbove(key) : y \notin c.whole
  BY DEF Owner, WholeOwner
<1>2. key \in Proper /\ key.root = x.root /\ key.rel = Norm(x.rel)
      /\ Norm(x.rel) \in Path /\ Norm(x.rel) # <<>>
  <2>1. x.rel \in Path /\ x.rel # <<>>
    BY DEF Proper, Places
  <2>2. Norm(x.rel) \in Path /\ Len(Norm(x.rel)) = Len(x.rel)
    BY <2>1, NormType
  <2>3. Norm(x.rel) # <<>>
    BY <2>1, <2>2, EmptySeq DEF Path
  <2> QED
    BY <2>2, <2>3 DEF Proper, Places
<1>3. key \in AtOrAbove(key)
  BY <1>2, SelfAtOrAbove
<1> HIDE DEF c
<1>4. ASSUME NEW p \in Structural(session, T), AtOrBelow(p, x) PROVE FALSE
  <2>1. PICK y \in Located(p) : y.root = x.root /\ Within(y.rel, Norm(x.rel))
    BY <1>4 DEF AtOrBelow
  <2>2. y \in Places
    BY LocatedType, ClaimsAssumption DEF Structural
  <2>3. key \in c.descend
    BY <2>1, <2>2, KeyAtOrAbove, FolderClaimed DEF c
  <2> QED
    BY <1>1, <2>3
<1>5. ASSUME NEW p \in Data(T), AtOrBelow(p, x) PROVE FALSE
  <2>1. PICK y \in Located(p) : y.root = x.root /\ Within(y.rel, Norm(x.rel))
    BY <1>5 DEF AtOrBelow
  <2>2. PICK t \in T : \E b \in Bases(session, t) : p \in DataIn(t, b)
    BY DataIsClaimed
  <2>3. PICK b \in Bases(session, t) : p \in DataIn(t, b)
    BY <2>2
  <2>4. y \in Places
    BY <2>3, BasesType, DataInType, LocatedType
  <2>5. y.rel # <<>>
    <3>1. Len(Norm(x.rel)) <= Len(y.rel)
      BY <2>1 DEF Within, IsPrefix
    <3> QED
      BY <1>2, <3>1, EmptySeq DEF Path
  <2>6. y \in DataAt(t, b)
    BY <2>1, <2>3, <2>5 DEF DataAt
  <2>7. key \in AtOrAbove(y)
    BY <2>1, <2>4, KeyAtOrAbove
  <2>8. /\ t.files # {} => y \in c.files
        /\ t.files = {} => y \in c.whole
        /\ Above(y) \subseteq c.descend
    BY <2>6, DataClaimed DEF c
  <2>9. CASE key = y
    BY <1>1, <1>3, <2>8, <2>9
  <2>10. CASE key # y
    BY <1>1, <2>7, <2>8, <2>10 DEF Above
  <2> QED
    BY <2>9, <2>10
<1>6. ASSUME NEW p \in Data({t \in T : t.files = {}}), Below(x, p) PROVE FALSE
  <2>1. PICK y \in Located(p) : /\ y.root = x.root /\ y.rel # <<>>
                                /\ Within(Norm(x.rel), y.rel)
    BY <1>6 DEF Below
  <2>2. PICK t \in {t \in T : t.files = {}} :
               \E b \in Bases(session, t) : p \in DataIn(t, b)
    BY DataIsClaimed
  <2>3. PICK b \in Bases(session, t) : p \in DataIn(t, b)
    BY <2>2
  <2>4. y \in Places
    BY <2>3, BasesType, DataInType, LocatedType
  <2>5. y \in DataAt(t, b)
    BY <2>1, <2>3 DEF DataAt
  <2>6. y \in c.whole
    BY <2>2, <2>5, DataClaimed DEF c
  <2>7. y \in AtOrAbove(key)
    <3>1. /\ y.rel \in Path /\ Len(y.rel) \in Nat \ {0}
          /\ Len(y.rel) <= Len(Norm(x.rel))
      BY <2>1, <2>4, EmptySeq DEF Places, Path, Within, IsPrefix
    <3>2. SubSeq(Norm(x.rel), 1, Len(y.rel)) = y.rel
      BY <1>2, <2>1, <3>1, WithinPrefix
    <3>3. Len(Norm(x.rel)) \in Nat
      BY <1>2 DEF Path
    <3>4. Len(y.rel) \in 1..Len(key.rel)
      BY <1>2, <3>1, <3>3
    <3>5. y = [key EXCEPT !.rel = SubSeq(@, 1, Len(y.rel))]
      BY <1>2, <2>1, <2>4, <3>2 DEF Places, Proper
    <3> QED
      BY <3>4, <3>5 DEF AtOrAbove
  <2> QED
    BY <1>1, <2>6, <2>7
<1> QED
  BY <1>4, <1>5, <1>6

\* Whatever is added, removed, moved or written while the disk is walked, a
\* finished scan offers nothing that the daemon's last answer speaks for.
THEOREM NothingOwnedHolds == Spec => []NothingOwned
<1>1. Init => NothingOwned
  BY DEF Init, NothingOwned
<1>2. TypeOK /\ NothingOwned /\ [Next]_vars => NothingOwned'
  <2> SUFFICES ASSUME TypeOK, NothingOwned, [Next]_vars PROVE NothingOwned'
    OBVIOUS
  <2>1. CASE Again
    <3> SUFFICES ASSUME NEW x \in out'
                 PROVE  /\ ~\E p \in (Data(heard) \cup Structural(session, heard))' :
                              AtOrBelow(p, x)
                        /\ ~\E p \in Data({t \in heard : t.files = {}})' : Below(x, p)
      BY DEF NothingOwned, AtOrBelow, Below
    <3>1. /\ heard' = loaded /\ session' = session
          /\ x \in out /\ ~Owner(NewClaims(session, loaded), [x EXCEPT !.rel = Norm(@)])
      BY <2>1 DEF Again
    <3>2. x \in Proper /\ session \in Session /\ loaded \in SUBSET Torrent
      BY <3>1 DEF TypeOK
    <3>3. /\ ~\E p \in Data(loaded) \cup Structural(session, loaded) : AtOrBelow(p, x)
          /\ ~\E p \in Data({t \in loaded : t.files = {}}) : Below(x, p)
      BY <3>1, <3>2, OwnerCovers
    <3>4. \A T : Data(T)' = Data(T)
      BY <3>1 DEF Data, Homes
    <3> QED
      BY <3>1, <3>3, <3>4 DEF Data, Homes
  <2>2. CASE UNCHANGED vars
    BY <2>2 DEF vars, NothingOwned, Data, Homes
  <2>3. CASE Next /\ ~Again
    <3>1. pc' # "done"
      BY <2>3 DEF Next, Begin, Visit, SkipFolder, Look, SkipEntry, TorrentsChange,
                  DiskChanges, Change
    <3> QED
      BY <3>1 DEF NothingOwned
  <2> QED
    BY <2>1, <2>2, <2>3
<1> QED
  BY <1>1, <1>2, TypeCorrect, PTL DEF Spec

-----------------------------------------------------------------------------
(* The walk.                                                               *)

\* One of the places is inside the other one, or is it.
Comparable(x, y) ==
    x.root = y.root /\ (Within(x.rel, y.rel) \/ Within(y.rel, x.rel))

LEMMA ChildNames ==
  ASSUME NEW p \in Path, p # <<>>
  PROVE  /\ Front(p) \in Path /\ Len(p) \in Nat \ {0} /\ Len(Front(p)) = Len(p) - 1
         /\ \A i \in 1..Len(p) - 1 : Front(p)[i] = p[i]
<1>1. Len(p) \in Nat \ {0}
  BY EmptySeq DEF Path
<1>2. Len(p) - 1 \in 0..Len(p)
  BY <1>1
<1> QED
  BY <1>1, <1>2, Prefix DEF Front

\* What is comparable with a child is comparable with its folder.
LEMMA ChildComparable ==
  ASSUME NEW p \in Path, p # <<>>, NEW q \in Path, Within(p, q) \/ Within(q, p)
  PROVE  Within(Front(p), q) \/ Within(q, Front(p))
<1>1. /\ Front(p) \in Path /\ Len(p) \in Nat \ {0} /\ Len(Front(p)) = Len(p) - 1
      /\ \A i \in 1..Len(p) - 1 : Front(p)[i] = p[i]
  BY ChildNames
<1>2. Len(q) \in Nat
  BY DEF Path
<1>3. CASE Len(q) < Len(p)
  <2>1. \A i \in 1..Len(q) : q[i] = p[i]
    BY <1>1, <1>2, <1>3, WithinNames
  <2> QED
    BY <1>1, <1>2, <1>3, <2>1, WithinNames
<1>4. CASE Len(p) <= Len(q)
  <2>1. \A i \in 1..Len(p) : q[i] = p[i]
    BY <1>1, <1>2, <1>4, WithinNames
  <2> QED
    BY <1>1, <1>2, <1>4, <2>1, WithinNames
<1> QED
  BY <1>1, <1>2, <1>3, <1>4

LEMMA SiblingsApart ==
  ASSUME NEW p \in Path, p # <<>>, NEW q \in Path, q # <<>>, Front(p) = Front(q),
         Within(p, q) \/ Within(q, p)
  PROVE  p = q
<1>1. Len(p) \in Nat \ {0} /\ Len(q) \in Nat \ {0} /\ Len(p) - 1 = Len(q) - 1
  BY ChildNames
<1>2. Len(p) = Len(q)
  BY <1>1
<1>3. \A i \in 1..Len(p) : p[i] = q[i]
  BY <1>2, WithinNames
<1> QED
  BY <1>2, <1>3, SeqEqual DEF Path

\* The inductive invariant: the folders to read, the entries to look at and
\* the entries found are all beside each other.
Beside(S, U) == \A x \in S, y \in U : ~Comparable(x, y)
Spread(S)    == \A x, y \in S : Comparable(x, y) => x = y

Antichain ==
    /\ Spread(folders) /\ Spread(listed) /\ Spread(out)
    /\ Beside(folders, listed) /\ Beside(folders, out) /\ Beside(listed, out)
    /\ pc = "start" => folders = {} /\ listed = {} /\ out = {}

LEMMA AntichainInductive == TypeOK /\ Antichain /\ [Next]_vars => Antichain'
<1> SUFFICES ASSUME TypeOK, Antichain, [Next]_vars PROVE Antichain'
  OBVIOUS
<1> USE DEF Antichain
<1>1. CASE Begin
  <2>1. listed' = {} /\ out' = {} /\ pc' = "walk"
    BY <1>1 DEF Begin
  <2>2. Spread(folders')
    BY <1>1 DEF Begin, Spread, Comparable
  <2> QED
    BY <2>1, <2>2 DEF Beside, Spread
<1>2. CASE Again
  BY <1>2 DEF Again, Beside, Spread
<1>3. ASSUME NEW x \in folders, Visit(x) PROVE Antichain'
  <2>1. PICK C :
          /\ listed' = listed \cup C
          /\ \A c, d \in C : c.rel = d.rel => c = d
          /\ \A c \in C : c.root = x.root /\ c.rel \in Path /\ c.rel # <<>>
                            /\ Front(c.rel) = x.rel
    <3> DEFINE D == disk[x.root]
               C == {[root |-> x.root, rel |-> p, dir |-> D[p] = "dir"] :
                       p \in {q \in DOMAIN D : Front(q) = x.rel /\ Last(q) \notin Skip}}
    <3>1. \A p \in DOMAIN D : p \in Path /\ p # <<>>
      BY ClaimsAssumption DEF TypeOK, Places
    <3>2. listed' = listed \cup C
      BY <1>3 DEF Visit
    <3>3. \A c \in C : \E p \in DOMAIN D :
             /\ Front(p) = x.rel /\ c.root = x.root /\ c.rel = p
             /\ c = [root |-> x.root, rel |-> p, dir |-> D[p] = "dir"]
      OBVIOUS
    <3>4. \A c, d \in C : c.rel = d.rel => c = d
      BY <3>3
    <3> HIDE DEF C
    <3>5. \A c \in C : c.root = x.root /\ c.rel \in Path /\ c.rel # <<>>
                          /\ Front(c.rel) = x.rel
      BY <3>1, <3>3
    <3> QED
      BY <3>2, <3>4, <3>5
  <2>2. folders' = folders \ {x} /\ out' = out /\ pc' # "start"
    BY <1>3 DEF Visit
  <2>3. /\ \A y \in folders \cup out : y.rel \in Path
        /\ \A e \in listed : e.rel \in Path
    BY DEF TypeOK, Places, Proper, Entry
  <2>4. ASSUME NEW c \in C, NEW y, y.rel \in Path,
               Comparable(c, y) \/ Comparable(y, c)
        PROVE  Comparable(x, y) /\ Comparable(y, x)
    BY <2>1, <2>4, ChildComparable DEF Comparable
  <2>5. Spread(listed')
    <3>1. ASSUME NEW c \in C, NEW d \in C, Comparable(c, d) PROVE c = d
      BY <2>1, <3>1, SiblingsApart DEF Comparable
    <3>2. ASSUME NEW c \in C, NEW e \in listed
          PROVE  ~Comparable(c, e) /\ ~Comparable(e, c)
      BY <2>3, <2>4 DEF Beside
    <3> QED
      BY <2>1, <3>1, <3>2 DEF Spread
  <2>6. Beside(folders', listed')
    <3>1. ASSUME NEW c \in C, NEW y \in folders', Comparable(y, c) PROVE FALSE
      BY <2>2, <2>3, <2>4, <3>1 DEF Spread
    <3> QED
      BY <2>1, <2>2, <3>1 DEF Beside
  <2>7. Beside(listed', out')
    <3>1. ASSUME NEW c \in C, NEW y \in out, Comparable(c, y) PROVE FALSE
      BY <2>3, <2>4, <3>1 DEF Beside
    <3> QED
      BY <2>1, <2>2, <3>1 DEF Beside
  <2> QED
    BY <2>2, <2>5, <2>6, <2>7 DEF Beside, Spread
<1>4. ASSUME NEW x \in folders, SkipFolder(x) PROVE Antichain'
  BY <1>4 DEF SkipFolder, Beside, Spread
<1>5. ASSUME NEW e \in listed, Look(e) PROVE Antichain'
  <2> DEFINE x == [root |-> e.root, rel |-> e.rel]
  <2>1. /\ listed' = listed \ {e} /\ pc' # "start"
        /\ \/ folders' \in {folders, folders \cup {x}} /\ out' = out
           \/ folders' = folders /\ out' \in {out, out \cup {x}}
    BY <1>5 DEF Look, Offered, Unclaimed, Descends
  <2>2. x.root = e.root /\ x.rel = e.rel
    OBVIOUS
  <2> HIDE DEF x
  <2>3. \A y : (Comparable(x, y) <=> Comparable(e, y))
               /\ (Comparable(y, x) <=> Comparable(y, e))
               /\ (Comparable(y, x) <=> Comparable(x, y))
    BY <2>2 DEF Comparable
  <2>4. /\ \A y \in listed' : ~Comparable(x, y)
        /\ \A y \in folders \cup out : ~Comparable(x, y)
    BY <2>1, <2>3 DEF Spread, Beside
  <2> QED
    BY <2>1, <2>3, <2>4 DEF Spread, Beside
<1>6. ASSUME NEW e \in listed, SkipEntry(e) PROVE Antichain'
  BY <1>6 DEF SkipEntry, Beside, Spread
<1>7. CASE \E T \in SUBSET Torrent : TorrentsChange(T)
  BY <1>7 DEF TorrentsChange
<1>8. CASE \E r \in Root, D \in Tree : \E p \in DOMAIN D \cup DOMAIN disk[r] :
              DiskChanges(r, p, D)
  BY <1>8 DEF DiskChanges
<1>9. CASE UNCHANGED vars
  BY <1>9 DEF vars
<1> QED
  BY <1>1, <1>2, <1>3, <1>4, <1>5, <1>6, <1>7, <1>8, <1>9 DEF Next

\* No entry of a scan is inside another one, though folders are renamed and
\* replaced under the walk.
THEOREM TopMostHolds == Spec => []TopMost
<1>1. Init => Antichain
  BY DEF Init, Antichain, Spread, Beside
<1>2. Antichain => TopMost
  BY DEF Antichain, Spread, Comparable, TopMost
<1> QED
  BY <1>1, <1>2, TypeCorrect, AntichainInductive, PTL DEF Spec

-----------------------------------------------------------------------------
(* Nothing is missed.                                                      *)

Key(x) == [x EXCEPT !.rel = Norm(@)]

\* What excuses a file from being offered.
Excused(r, p) ==
    \/ \E i \in DOMAIN p : p[i] \in Skip
    \/ \E u \in Data(heard) \cup Structural(session, heard) :
         AtOrBelow(u, [root |-> r, rel |-> p])
    \/ \E u \in Data(heard) : Below([root |-> r, rel |-> p], u)

\* Something in S is at or above path p of root r.
Covered(S, r, p) == \E y \in S : y.root = r /\ Within(p, y.rel)

\* As long as nothing changed, the claims are the daemon's,
Settled == heard = loaded /\ claims = NewClaims(session, heard)

\* an entry is as it was listed, and a folder that was found is on the way to
\* nothing claimed,
Listed ==
    /\ \A e \in listed : /\ e.rel \in DOMAIN disk[e.root]
                         /\ e.dir = (disk[e.root][e.rel] = "dir")
    /\ \A y \in out : disk[y.root][y.rel] = "dir" => Key(y) \notin claims.descend

\* and each file is excused, found, in a folder that is still to be read, or
\* at or below an entry that is still to be looked at.
Accounted ==
    \A r \in Root : \A p \in DOMAIN disk[r] : disk[r][p] # "dir" =>
        \/ Excused(r, p)
        \/ Covered(out \cup warned, r, p)
        \/ Covered({x \in folders : x.rel # p}, r, p)
        \/ Covered(listed, r, p)

Walk ==
    /\ pc = "done" => folders = {} /\ listed = {}
    /\ pc # "start" /\ changes = 0 => Settled /\ Listed /\ Accounted

\* What is above something that exists is a folder.
LEMMA FoldersAbove ==
  ASSUME NEW D \in Tree, NEW p \in DOMAIN D, NEW q \in Path, q # <<>>,
         Within(p, q), q # p
  PROVE  q \in DOMAIN D /\ D[q] = "dir"
<1>1. p \in Path /\ \A n \in 1..(Len(p) - 1) : /\ SubSeq(p, 1, n) \in DOMAIN D
                                              /\ D[SubSeq(p, 1, n)] = "dir"
  BY ClaimsAssumption
<1>2. /\ Len(p) \in Nat /\ Len(q) \in Nat \ {0} /\ Len(q) <= Len(p)
      /\ \A i \in 1..Len(q) : q[i] = p[i]
  BY <1>1, WithinNames, EmptySeq DEF Path
<1>3. Len(q) # Len(p)
  BY <1>1, <1>2, SeqEqual DEF Path
<1>4. Len(q) \in 1..(Len(p) - 1)
  BY <1>2, <1>3
<1> QED
  BY <1>1, <1>4, WithinPrefix

-----------------------------------------------------------------------------
LEMMA WithinTrans ==
  ASSUME NEW p \in Path, NEW q \in Path, NEW u \in Path, Within(p, q), Within(q, u)
  PROVE  Within(p, u)
<1>1. /\ Len(p) \in Nat /\ Len(q) \in Nat /\ Len(u) \in Nat
      /\ Len(q) <= Len(p) /\ \A i \in 1..Len(q) : q[i] = p[i]
      /\ Len(u) <= Len(q) /\ \A i \in 1..Len(u) : u[i] = q[i]
  BY WithinNames DEF Path
<1>2. Len(u) <= Len(p) /\ \A i \in 1..Len(u) : u[i] = p[i]
  BY <1>1
<1> QED
  BY <1>2, WithinNames

LEMMA WithinNorm ==
  ASSUME NEW p \in Path, NEW q \in Path, Within(p, q) PROVE Within(Norm(p), Norm(q))
<1>1. /\ Len(p) \in Nat /\ Len(q) \in Nat
      /\ Len(q) <= Len(p) /\ \A i \in 1..Len(q) : q[i] = p[i]
  BY WithinNames DEF Path
<1>2. /\ Norm(p) \in Path /\ Len(Norm(p)) = Len(p)
      /\ Norm(q) \in Path /\ Len(Norm(q)) = Len(q)
  BY NormType
<1>3. ASSUME NEW i \in 1..Len(q) PROVE Norm(q)[i] = Norm(p)[i]
  <2>1. i \in DOMAIN p /\ i \in DOMAIN q
    BY <1>1 DEF Path
  <2> QED
    BY <2>1, <1>1 DEF Norm
<1> QED
  BY <1>1, <1>2, <1>3, WithinNames

\* What newClaims claims is of the daemon's words for its data.
LEMMA ClaimedIsData ==
  ASSUME NEW T \in SUBSET Torrent, session \in Session, NEW t \in T,
         NEW b \in Bases(session, t), NEW p \in DataIn(t, b)
  PROVE  p \in Data(T)
<1>1. b \in Homes(t) /\ b \in Path
  BY HomesAreBases, BasesType
<1>2. p \in AnyOf(t, b)
  <2>1. CASE t.files = {}
    BY <2>1 DEF DataIn, AnyOf
  <2>2. CASE t.files # {}
    <3>1. PICK f \in t.files : \E g \in Spellings(f) : p = b \o g
      BY <2>2 DEF DataIn
    <3>2. p = b \o f \/ p = b \o Append(Front(f), Part[Last(f)])
      BY <3>1 DEF Spellings
    <3>3. CASE p = b \o f
      BY <3>3, <3>1 DEF AnyOf
    <3>4. CASE p = b \o Append(Front(f), Part[Last(f)])
      <4> DEFINE e == Part[Last(f)]
      <4>1. f \in Path /\ f # <<>> /\ e \in Name
        BY ClaimsAssumption
      <4>2. Front(f) \in Path /\ <<e>> \in Path
        BY <4>1, ChildNames DEF Path
      <4>3. b \o Front(f) \in Path
        BY <1>1, <4>2, ConcatProperties DEF Path
      <4>4. /\ Append(b \o Front(f), e) = (b \o Front(f)) \o <<e>>
            /\ Append(Front(f), e) = Front(f) \o <<e>>
        BY <4>1, <4>2, <4>3, AppendIsConcat DEF Path
      <4>5. (b \o Front(f)) \o <<e>> = b \o (Front(f) \o <<e>>)
        BY <1>1, <4>2, ConcatAssociative DEF Path
      <4>6. p = Append(b \o Front(f), e)
        BY <3>4, <4>4, <4>5
      <4> QED
        BY <4>6 DEF AnyOf
    <3> QED
      BY <3>2, <3>3, <3>4
  <2> QED
    BY <2>1, <2>2
<1>3. p \in UNION {AnyOf(t, h) : h \in Homes(t)}
  BY <1>1, <1>2
<1> QED
  BY <1>3 DEF Data

LEMMA ClaimsAreData ==
  ASSUME NEW T \in SUBSET Torrent, session \in Session
  PROVE  LET c == NewClaims(session, T)
         IN  /\ \A y \in c.files \cup c.whole :
                  y.rel # <<>> /\ \E u \in Data(T) : y \in Located(u)
             /\ \A y \in c.descend :
                  \E u \in Data(T) \cup Structural(session, T) :
                    \E z \in Located(u) : y \in AtOrAbove(z)
<1> DEFINE D(U) == UNION {UNION {DataAt(t, a) : a \in Bases(session, t)} : t \in U}
           c == NewClaims(session, T)
<1>1. /\ c.files = D({t \in T : t.files # {}})
      /\ c.whole = D({t \in T : t.files = {}})
      /\ c.descend = (UNION {Above(x) : x \in D(T)})
                       \cup (UNION {UNION {AtOrAbove(x) : x \in Located(p)} :
                                      p \in Structural(session, T)})
  BY DEF NewClaims
<1>2. ASSUME NEW t \in T, NEW a \in Bases(session, t), NEW y \in DataAt(t, a)
      PROVE  y.rel # <<>> /\ \E u \in Data(T) : y \in Located(u)
  <2>1. PICK u \in DataIn(t, a) : y \in Located(u)
    BY DEF DataAt
  <2> QED
    BY <2>1, ClaimedIsData DEF DataAt
<1>3. \A y \in D(T) : y.rel # <<>> /\ \E u \in Data(T) : y \in Located(u)
  BY <1>2
<1>4. c.files \subseteq D(T) /\ c.whole \subseteq D(T)
  BY <1>1
<1> HIDE DEF D, c
<1>5. ASSUME NEW y \in c.descend
      PROVE  \E u \in Data(T) \cup Structural(session, T) :
                \E z \in Located(u) : y \in AtOrAbove(z)
  <2>1. CASE \E x \in D(T) : y \in Above(x)
    BY <2>1, <1>3 DEF Above
  <2>2. CASE \E p \in Structural(session, T) : \E x \in Located(p) : y \in AtOrAbove(x)
    BY <2>2
  <2> QED
    BY <1>1, <2>1, <2>2
<1> QED
  BY <1>3, <1>4, <1>5 DEF c

LEMMA KeyParts ==
  ASSUME NEW x \in Proper
  PROVE  /\ Key(x) \in Proper /\ Key(x).root = x.root /\ Key(x).rel = Norm(x.rel)
         /\ x.root \in Root /\ x.rel \in Path /\ x.rel # <<>>
<1>1. x.root \in Root /\ x.rel \in Path /\ x.rel # <<>>
  BY DEF Proper, Places
<1>2. Norm(x.rel) \in Path /\ Len(Norm(x.rel)) = Len(x.rel)
  BY <1>1, NormType
<1>3. Norm(x.rel) # <<>>
  BY <1>1, <1>2, EmptySeq DEF Path
<1> QED
  BY <1>1, <1>2, <1>3 DEF Key, Proper, Places

\* What is at or above a place is that.
LEMMA AtOrAboveIs ==
  ASSUME NEW x \in Proper, NEW y \in AtOrAbove(x)
  PROVE  y \in Proper /\ y.root = x.root /\ Within(x.rel, y.rel)
<1>1. x \in Places /\ x.rel \in Path
  BY DEF Proper, Places
<1>2. y \in Proper
  BY <1>1, AboveType
<1>3. PICK n \in 1..Len(x.rel) : y = [x EXCEPT !.rel = SubSeq(@, 1, n)]
  BY DEF AtOrAbove
<1>4. y.root = x.root /\ y.rel = SubSeq(x.rel, 1, n)
  BY <1>1, <1>3 DEF Places
<1>5. Len(x.rel) \in Nat
  BY <1>1 DEF Path
<1>6. n \in 0..Len(x.rel) /\ n <= Len(x.rel)
  BY <1>5
<1>7. /\ y.rel \in Path /\ Len(y.rel) = n
      /\ \A i \in 1..n : y.rel[i] = x.rel[i]
  BY <1>1, <1>4, <1>6, Prefix
<1> QED
  BY <1>1, <1>2, <1>4, <1>6, <1>7, WithinNames

\* A file at or below what is claimed for data is excused, and so is one that
\* is a folder on the way to something claimed.
LEMMA ExcusedBelow ==
  ASSUME TypeOK, Settled, NEW r \in Root, NEW p \in Path,
         NEW y \in claims.files \cup claims.whole, y.root = r, Within(Norm(p), y.rel)
  PROVE  Excused(r, p)
<1>1. y.rel # <<>> /\ \E u \in Data(heard) : y \in Located(u)
  BY ClaimsAreData DEF TypeOK, Settled
<1> QED
  BY <1>1 DEF Excused, Below

LEMMA ExcusedAbove ==
  ASSUME TypeOK, Settled, NEW r \in Root, NEW p \in Path, p # <<>>,
         Key([root |-> r, rel |-> p]) \in claims.descend
  PROVE  Excused(r, p)
<1> DEFINE x == [root |-> r, rel |-> p]
<1>1. PICK u \in Data(heard) \cup Structural(session, heard) :
             \E z \in Located(u) : Key(x) \in AtOrAbove(z)
  BY ClaimsAreData DEF TypeOK, Settled
<1>2. PICK z \in Located(u) : Key(x) \in AtOrAbove(z)
  BY <1>1
<1>3. u \in Path
  <2>1. CASE u \in Structural(session, heard)
    BY <2>1, ClaimsAssumption DEF Structural, TypeOK
  <2>2. CASE u \in Data(heard)
    <3>1. PICK t \in heard : \E b \in Bases(session, t) : u \in DataIn(t, b)
      BY <2>2, DataIsClaimed DEF TypeOK
    <3> QED
      BY <3>1, BasesType, DataInType DEF TypeOK
  <2> QED
    BY <1>1, <2>1, <2>2
<1>4. x \in Proper
  BY DEF Proper, Places
<1>5. z \in Places
  BY <1>2, <1>3, LocatedType
<1>6. z.rel # <<>>
  <2>1. PICK n \in 1..Len(z.rel) : TRUE
    BY <1>2 DEF AtOrAbove
  <2> QED
    BY <2>1, EmptySeq
<1>7. z \in Proper
  BY <1>5, <1>6 DEF Proper
<1>8. Key(x).root = z.root /\ Within(z.rel, Key(x).rel)
  BY <1>2, <1>7, AtOrAboveIs
<1>9. z.root = r /\ Within(z.rel, Norm(p))
  BY <1>4, <1>8, KeyParts
<1> QED
  BY <1>1, <1>2, <1>9 DEF Excused, AtOrBelow

\* A file at or below an entry in a torrent's folder is excused.
LEMMA ExcusedWhole ==
  ASSUME TypeOK, Settled, NEW r \in Root, NEW p \in Path, NEW x \in Proper,
         x.root = r, Within(p, x.rel), WholeOwner(claims, Key(x))
  PROVE  Excused(r, p)
<1>1. PICK y \in AtOrAbove(Key(x)) : y \in claims.whole
  BY DEF WholeOwner
<1>2. /\ Key(x) \in Proper /\ Key(x).root = r /\ Key(x).rel = Norm(x.rel)
      /\ x.rel \in Path
  BY KeyParts
<1>3. y \in Proper /\ y.root = r /\ Within(Norm(x.rel), y.rel)
  BY <1>1, <1>2, AtOrAboveIs
<1>4. Within(Norm(p), Norm(x.rel))
  BY <1>2, WithinNorm
<1>5. Norm(p) \in Path /\ Norm(x.rel) \in Path /\ y.rel \in Path
  BY <1>2, <1>3, NormType DEF Proper, Places
<1>6. Within(Norm(p), y.rel)
  BY <1>3, <1>4, <1>5, WithinTrans
<1> QED
  BY <1>1, <1>3, <1>6, ExcusedBelow

\* What the second answer takes out holds no file that is not excused.
LEMMA TakenOut ==
  ASSUME TypeOK, Settled, Listed, NEW y \in out, Owner(claims, Key(y)),
         NEW p \in DOMAIN disk[y.root], disk[y.root][p] # "dir", Within(p, y.rel)
  PROVE  Excused(y.root, p)
<1>1. y \in Proper /\ y.root \in Root /\ y.rel \in Path /\ y.rel # <<>>
      /\ Key(y).root = y.root /\ Key(y).rel = Norm(y.rel)
  BY KeyParts DEF TypeOK
<1>2. disk[y.root] \in Tree
  BY <1>1 DEF TypeOK
<1>3. p \in Path /\ p # <<>>
  BY <1>2, ClaimsAssumption
<1>4. CASE WholeOwner(claims, Key(y))
  BY <1>1, <1>3, <1>4, ExcusedWhole
<1>5. CASE Key(y) \in claims.files
  <2>1. Within(Norm(p), Norm(y.rel))
    BY <1>1, <1>3, WithinNorm
  <2> QED
    BY <1>1, <1>3, <1>5, <2>1, ExcusedBelow
<1>6. CASE Key(y) \in claims.descend
  <2>1. disk[y.root][y.rel] # "dir"
    BY <1>6 DEF Listed
  <2>2. y.rel = p
    BY <1>1, <1>2, <2>1, FoldersAbove
  <2>3. y = [root |-> y.root, rel |-> p]
    BY <1>1, <2>2 DEF Proper, Places
  <2> QED
    BY <1>1, <1>3, <1>6, <2>3, ExcusedAbove
<1> QED
  BY <1>4, <1>5, <1>6 DEF Owner

\* A folder is read: the file is in an entry of it, or at or below one.
LEMMA ChildOnTheWay ==
  ASSUME NEW D \in Tree, NEW p \in DOMAIN D, NEW q \in Path, Within(p, q), p # q,
         ~\E i \in DOMAIN p : p[i] \in Skip
  PROVE  \E c \in DOMAIN D : Front(c) = q /\ Last(c) \notin Skip /\ Within(p, c)
<1>1. p \in Path /\ p # <<>>
  BY ClaimsAssumption
<1>2. /\ Len(p) \in Nat \ {0} /\ Len(q) \in Nat /\ Len(q) <= Len(p)
      /\ \A i \in 1..Len(q) : q[i] = p[i]
      /\ DOMAIN p = 1..Len(p)
  BY <1>1, WithinNames, EmptySeq DEF Path
<1>3. Len(q) # Len(p)
  BY <1>1, <1>2, SeqEqual DEF Path
<1> DEFINE n == Len(q) + 1
           c == SubSeq(p, 1, n)
<1>4. n \in 1..Len(p) /\ n \in 0..Len(p) /\ n - 1 = Len(q)
  BY <1>2, <1>3
<1> HIDE DEF n
<1>5. c \in Path /\ Len(c) = n /\ \A i \in 1..n : c[i] = p[i]
  BY <1>1, <1>4, Prefix
<1> HIDE DEF c
<1>6. Within(p, c)
  BY <1>1, <1>2, <1>4, <1>5, WithinNames
<1>7. c # <<>> /\ Last(c) = p[n]
  BY <1>4, <1>5, EmptySeq DEF Last
<1>8. Front(c) = q
  <2>1. /\ Front(c) \in Path /\ Len(Front(c)) = Len(q)
        /\ \A i \in 1..Len(q) : Front(c)[i] = c[i]
    BY <1>4, <1>5, <1>7, ChildNames
  <2>2. \A i \in 1..Len(q) : i \in 1..n
    BY <1>2, <1>4
  <2>3. \A i \in 1..Len(q) : Front(c)[i] = q[i]
    BY <2>1, <2>2, <1>2, <1>5
  <2> QED
    BY <2>1, <2>3, SeqEqual DEF Path
<1>9. c \in DOMAIN D
  BY <1>5, <1>6, <1>7, FoldersAbove
<1>10. Last(c) \notin Skip
  BY <1>2, <1>4, <1>7
<1> QED
  BY <1>6, <1>8, <1>9, <1>10

LEMMA VisitWalk ==
  ASSUME TypeOK, Settled, Listed, Accounted, NEW x \in folders, Visit(x)
  PROVE  Settled' /\ Listed' /\ Accounted'
<1>1. /\ x \in Places /\ x.root \in Root /\ x.rel \in Path /\ disk[x.root] \in Tree
  BY DEF TypeOK, Places
<1>2. UNCHANGED <<session, loaded, disk, heard, claims, out, warned>>
      /\ folders' = folders \ {x}
  BY DEF Visit
<1> DEFINE D == disk[x.root]
           Item(p) == [root |-> x.root, rel |-> p, dir |-> D[p] = "dir"]
<1>3. listed' = listed \cup {Item(p) : p \in {q \in DOMAIN D : Front(q) = x.rel
                                                               /\ Last(q) \notin Skip}}
  BY DEF Visit
<1>4. Settled'
  BY <1>2 DEF Settled
<1>5. Listed'
  <2>1. \A p : Item(p).root = x.root /\ Item(p).rel = p
    OBVIOUS
  <2>2. \A p : Item(p).dir = (D[p] = "dir")
    OBVIOUS
  <2> QED
    BY <1>2, <1>3, <2>1, <2>2 DEF Listed, Key
<1>6. Accounted'
  <2> SUFFICES ASSUME NEW r \in Root, NEW p \in DOMAIN disk[r], disk[r][p] # "dir"
               PROVE  \/ Excused(r, p)
                      \/ Covered(out \cup warned, r, p)
                      \/ Covered({y \in folders' : y.rel # p}, r, p)
                      \/ Covered(listed', r, p)
    BY <1>2 DEF Accounted, Excused, Data, Homes, Structural, AtOrBelow, Below, Covered
  <2>1. \/ Excused(r, p)
        \/ Covered(out \cup warned, r, p)
        \/ Covered({y \in folders : y.rel # p}, r, p)
        \/ Covered(listed, r, p)
    BY DEF Accounted
  <2>2. ASSUME Covered(listed, r, p) PROVE Covered(listed', r, p)
    BY <2>2, <1>3 DEF Covered
  <2>3. ASSUME NEW y \in folders, y.rel # p, y # x, y.root = r, Within(p, y.rel)
        PROVE  Covered({u \in folders' : u.rel # p}, r, p)
    BY <2>3, <1>2 DEF Covered
  <2>4. ASSUME x.rel # p, x.root = r, Within(p, x.rel), ~Excused(r, p)
        PROVE  Covered(listed', r, p)
    <3>1. ~\E i \in DOMAIN p : p[i] \in Skip
      BY <2>4 DEF Excused
    <3>2. PICK c \in DOMAIN D : Front(c) = x.rel /\ Last(c) \notin Skip /\ Within(p, c)
      BY <2>4, <3>1, <1>1, ChildOnTheWay
    <3>3. Item(c) \in listed' /\ Item(c).root = r /\ Item(c).rel = c
      BY <3>2, <2>4, <1>3
    <3> HIDE DEF Item
    <3> QED
      BY <3>2, <3>3 DEF Covered
  <2> QED
    BY <2>1, <2>2, <2>3, <2>4 DEF Covered
<1> QED
  BY <1>4, <1>5, <1>6

\* An entry is looked at: the file is excused, or the entry is a folder to read,
\* or it is found, for it has not gone, and has the file in it.
LEMMA LookWalk ==
  ASSUME TypeOK, Settled, Listed, Accounted, NEW e \in listed, Look(e)
  PROVE  Settled' /\ Listed' /\ Accounted'
<1> DEFINE x == [root |-> e.root, rel |-> e.rel]
<1>1. /\ x \in Proper /\ x.root = e.root /\ x.rel = e.rel
      /\ e.root \in Root /\ e.rel \in Path /\ disk[e.root] \in Tree /\ e.dir \in BOOLEAN
  BY DEF TypeOK, Entry, Proper, Places
<1>2. UNCHANGED <<session, loaded, disk, heard, claims, warned>>
      /\ listed' = listed \ {e}
  BY DEF Look
<1>3. /\ folders' = IF Descends(e, Key(x)) THEN folders \cup {x} ELSE folders
      /\ out' = IF Offered(e, x, Key(x)) THEN out \cup {x} ELSE out
  BY DEF Look, Key
<1>4. e.rel \in DOMAIN disk[e.root] /\ e.dir = (disk[e.root][e.rel] = "dir")
  BY DEF Listed
<1> HIDE DEF x
<1>5. Settled'
  BY <1>2 DEF Settled
<1>6. Listed'
  <2>1. ASSUME Offered(e, x, Key(x)), disk[x.root][x.rel] = "dir"
        PROVE  Key(x) \notin claims.descend
    <3>1. e.dir
      BY <2>1, <1>1, <1>4
    <3> QED
      BY <2>1, <3>1 DEF Offered, Unclaimed, Descends
  <2>2. \A y \in out' : y \in out \/ (y = x /\ Offered(e, x, Key(x)))
    BY <1>3
  <2>3. \A y \in out' : disk[y.root][y.rel] = "dir" => Key(y) \notin claims.descend
    BY <2>1, <2>2 DEF Listed
  <2> QED
    BY <1>2, <2>3 DEF Listed, Key
<1>7. Accounted'
  <2> SUFFICES ASSUME NEW r \in Root, NEW p \in DOMAIN disk[r], disk[r][p] # "dir"
               PROVE  \/ Excused(r, p)
                      \/ Covered(out' \cup warned, r, p)
                      \/ Covered({y \in folders' : y.rel # p}, r, p)
                      \/ Covered(listed', r, p)
    BY <1>2 DEF Accounted, Excused, Data, Homes, Structural, AtOrBelow, Below, Covered
  <2>1. \/ Excused(r, p)
        \/ Covered(out \cup warned, r, p)
        \/ Covered({y \in folders : y.rel # p}, r, p)
        \/ Covered(listed, r, p)
    BY DEF Accounted
  <2>2. ASSUME Covered(out \cup warned, r, p) PROVE Covered(out' \cup warned, r, p)
    BY <2>2, <1>3 DEF Covered
  <2>3. ASSUME Covered({y \in folders : y.rel # p}, r, p)
        PROVE  Covered({y \in folders' : y.rel # p}, r, p)
    BY <2>3, <1>3 DEF Covered
  <2>4. ASSUME NEW y \in listed, y # e, y.root = r, Within(p, y.rel)
        PROVE  Covered(listed', r, p)
    BY <2>4, <1>2 DEF Covered
  <2>5. ASSUME e.root = r, Within(p, e.rel), ~Excused(r, p)
        PROVE  \/ Covered(out' \cup warned, r, p)
               \/ Covered({y \in folders' : y.rel # p}, r, p)
    <3>1. disk[r] \in Tree
      BY DEF TypeOK
    <3>2. p \in Path /\ p # <<>>
      BY <3>1, ClaimsAssumption
    <3>3. ~WholeOwner(claims, Key(x))
      BY <2>5, <1>1, <3>2, ExcusedWhole
    <3>4. CASE Descends(e, Key(x))
      <4>1. x \in folders' /\ x.rel # p
        BY <3>4, <2>5, <1>1, <1>3, <1>4 DEF Descends
      <4> QED
        BY <4>1, <2>5, <1>1 DEF Covered
    <3>5. CASE ~Descends(e, Key(x))
      <4>0. e.rel \in DOMAIN disk[r] /\ (~e.dir => disk[r][e.rel] # "dir")
        BY <1>4, <2>5
      <4>1. ~e.dir => e.rel = p
        BY <4>0, <2>5, <3>1, <1>1, FoldersAbove, KeyParts
      <4>2. ~e.dir => Key(x) \notin claims.files
        <5> SUFFICES ASSUME ~e.dir, Key(x) \in claims.files PROVE FALSE
          OBVIOUS
        <5>1. Key(x).root = r /\ Key(x).rel = Norm(p)
          BY <4>1, <2>5, <1>1, KeyParts
        <5>2. Within(Norm(p), Norm(p))
          BY <3>2, NormType, WithinNames DEF Path
        <5> QED
          BY <5>1, <5>2, <2>5, <3>2, ExcusedBelow
      <4>3. Unclaimed(e, Key(x))
        BY <3>3, <3>5, <4>2 DEF Unclaimed
      <4>4. e.dir => HasFile(disk[r], x.rel)
        <5> SUFFICES ASSUME e.dir PROVE HasFile(disk[r], x.rel)
          OBVIOUS
        <5>1. e.rel # p
          BY <1>4, <2>5
        <5> QED
          BY <5>1, <1>1, <2>5 DEF HasFile
      <4>5. Offered(e, x, Key(x))
        BY <4>3, <4>4, <1>1, <1>4, <2>5 DEF Offered
      <4>6. x \in out'
        BY <4>5, <1>3
      <4> QED
        BY <4>6, <2>5, <1>1 DEF Covered
    <3> QED
      BY <3>4, <3>5
  <2> QED
    BY <2>1, <2>2, <2>3, <2>4, <2>5 DEF Covered
<1> QED
  BY <1>5, <1>6, <1>7

\* What cannot be read is among the warnings.
LEMMA ShedWalk ==
  ASSUME Settled, Listed, Accounted, NEW x, NEW F, NEW L,
         UNCHANGED <<session, loaded, disk, heard, claims, out>>,
         warned' = warned \cup {x}, folders' = folders \ F, listed' = listed \ L,
         \A y \in F \cup L : y.root = x.root /\ y.rel = x.rel
  PROVE  Settled' /\ Listed' /\ Accounted'
<1>1. Settled'
  BY DEF Settled
<1>2. Listed'
  BY DEF Listed, Key
<1>3. Accounted'
  <2> SUFFICES ASSUME NEW r \in Root, NEW p \in DOMAIN disk[r], disk[r][p] # "dir"
               PROVE  \/ Excused(r, p)
                      \/ Covered(out \cup warned', r, p)
                      \/ Covered({y \in folders' : y.rel # p}, r, p)
                      \/ Covered(listed', r, p)
    BY DEF Accounted, Excused, Data, Homes, Structural, AtOrBelow, Below, Covered
  <2>1. \/ Excused(r, p)
        \/ Covered(out \cup warned, r, p)
        \/ Covered({y \in folders : y.rel # p}, r, p)
        \/ Covered(listed, r, p)
    BY DEF Accounted
  <2> QED
    BY <2>1 DEF Covered
<1> QED
  BY <1>1, <1>2, <1>3

LEMMA SkipWalk ==
  ASSUME Settled, Listed, Accounted,
         \/ \E x \in folders : SkipFolder(x)
         \/ \E e \in listed : SkipEntry(e)
  PROVE  Settled' /\ Listed' /\ Accounted'
<1>1. ASSUME NEW x \in folders, SkipFolder(x) PROVE Settled' /\ Listed' /\ Accounted'
  <2>1. /\ UNCHANGED <<session, loaded, disk, heard, claims, out>>
        /\ warned' = warned \cup {x}
        /\ folders' = folders \ {x} /\ listed' = listed \ {}
    BY <1>1 DEF SkipFolder, Skipped
  <2>2. \A y \in {x} \cup {} : y.root = x.root /\ y.rel = x.rel
    OBVIOUS
  <2> QED
    BY <2>1, <2>2, ShedWalk
<1>2. ASSUME NEW e \in listed, SkipEntry(e) PROVE Settled' /\ Listed' /\ Accounted'
  <2> DEFINE x == [root |-> e.root, rel |-> e.rel]
  <2>1. /\ UNCHANGED <<session, loaded, disk, heard, claims, out>>
        /\ warned' = warned \cup {x}
        /\ folders' = folders \ {} /\ listed' = listed \ {e}
    BY <1>2 DEF SkipEntry, Skipped
  <2>2. \A y \in {} \cup {e} : y.root = x.root /\ y.rel = x.rel
    OBVIOUS
  <2> HIDE DEF x
  <2> QED
    BY <2>1, <2>2, ShedWalk
<1> QED
  BY <1>1, <1>2

LEMMA AgainWalk ==
  ASSUME TypeOK, Settled, Listed, Accounted, Again
  PROVE  Settled' /\ Listed' /\ Accounted'
<1>1. /\ UNCHANGED <<session, loaded, disk, warned, heard, claims, folders, listed>>
      /\ folders = {} /\ listed = {}
      /\ out' = {y \in out : ~Owner(claims, Key(y))}
  BY DEF Again, Settled, Key
<1>2. Settled'
  BY <1>1 DEF Settled
<1>4. Listed'
  BY <1>1 DEF Listed, Key
<1>3. Accounted'
  <2> SUFFICES ASSUME NEW r \in Root, NEW p \in DOMAIN disk[r], disk[r][p] # "dir"
               PROVE  Excused(r, p) \/ Covered(out' \cup warned, r, p)
    BY <1>1 DEF Accounted, Excused, Data, Homes, Structural, AtOrBelow, Below, Covered
  <2>1. Excused(r, p) \/ Covered(out \cup warned, r, p)
    BY <1>1 DEF Accounted, Covered
  <2>2. ASSUME NEW y \in out, y \notin out', y.root = r, Within(p, y.rel)
        PROVE  Excused(r, p)
    BY <2>2, <1>1, TakenOut
  <2> QED
    BY <2>1, <2>2 DEF Covered
<1> QED
  BY <1>2, <1>3, <1>4

LEMMA BeginWalk ==
  ASSUME TypeOK, Antichain, Begin
  PROVE  Settled' /\ Listed' /\ Accounted'
<1>1. /\ heard' = loaded /\ loaded' = loaded /\ session' = session
      /\ claims' = NewClaims(session, loaded) /\ disk' = disk
      /\ folders' = [root : Root, rel : {<<>>}] /\ listed' = {} /\ out' = {}
  BY DEF Begin, Antichain
<1>2. NewClaims(session', heard') = NewClaims(session, loaded)
  BY <1>1
<1>3. Settled' /\ Listed'
  BY <1>1, <1>2 DEF Settled, Listed
<1>4. ASSUME NEW r \in Root, NEW p \in DOMAIN disk[r]
      PROVE  Covered({x \in folders' : x.rel # p}, r, p)
  <2>1. disk[r] \in Tree
    BY DEF TypeOK
  <2>2. p \in Path /\ p # <<>>
    BY <2>1, ClaimsAssumption
  <2>3. <<>> \in Path /\ Len(<<>>) = 0 /\ Len(p) \in Nat
    BY <2>2, EmptySeq DEF Path
  <2>4. Within(p, <<>>)
    BY <2>2, <2>3, WithinNames
  <2>5. [root |-> r, rel |-> <<>>] \in folders'
    BY <1>1
  <2> QED
    BY <2>2, <2>4, <2>5 DEF Covered
<1> QED
  BY <1>1, <1>3, <1>4 DEF Accounted

LEMMA WalkStep == TypeOK /\ Antichain /\ Walk /\ [Next]_vars => Walk'
<1> SUFFICES ASSUME TypeOK, Antichain, Walk, [Next]_vars PROVE Walk'
  OBVIOUS
<1>1. ASSUME Change, pc' = pc PROVE changes' # 0 /\ pc' # "done"
  BY <1>1 DEF Change, TypeOK
<1>2. CASE Begin
  BY <1>2, BeginWalk DEF Begin, Walk
<1>3. CASE Again
  BY <1>3, AgainWalk DEF Again, Walk
<1>4. ASSUME NEW x \in folders, Visit(x) PROVE Walk'
  BY <1>4, VisitWalk DEF Visit, Walk
<1>5. ASSUME NEW e \in listed, Look(e) PROVE Walk'
  BY <1>5, LookWalk DEF Look, Walk
<1>6. CASE \/ \E x \in folders : SkipFolder(x)
           \/ \E e \in listed : SkipEntry(e)
  <2>1. pc = "walk" /\ pc' = pc /\ changes' = changes
    BY <1>6 DEF SkipFolder, SkipEntry
  <2> QED
    BY <1>6, <2>1, SkipWalk DEF Walk
<1>7. ASSUME NEW T, TorrentsChange(T) PROVE Walk'
  BY <1>1, <1>7 DEF TorrentsChange, Walk
<1>8. ASSUME NEW r, NEW D, NEW p, DiskChanges(r, p, D) PROVE Walk'
  BY <1>1, <1>8 DEF DiskChanges, Walk
<1>9. CASE UNCHANGED vars
  <2>1. Settled => Settled'
    BY <1>9 DEF vars, Settled
  <2>2. Listed => Listed'
    BY <1>9 DEF vars, Listed, Key
  <2>3. Accounted => Accounted'
    BY <1>9 DEF vars, Accounted, Excused, Data, Homes, Structural, AtOrBelow, Below, Covered
  <2> QED
    BY <1>9, <2>1, <2>2, <2>3 DEF vars, Walk
<1> QED
  BY <1>2, <1>3, <1>4, <1>5, <1>6, <1>7, <1>8, <1>9 DEF Next

\* If nothing changes, a scan misses no file: it is offered in an entry, or is
\* housekeeping, or used, or below or above what is used, or there is a warning.
THEOREM CompleteHolds == Spec => []Complete
<1>1. Init => Walk
  BY DEF Init, Walk
<1>2. Init => Antichain
  BY DEF Init, Antichain, Spread, Beside
<1>3. TypeOK /\ Walk => Complete
  <2> SUFFICES ASSUME TypeOK, Walk, pc = "done", changes = 0, NEW r \in Root,
                      NEW p \in DOMAIN disk[r], disk[r][p] # "dir"
               PROVE  \/ Excused(r, p)
                      \/ Covered(out \cup warned, r, p)
    BY DEF Complete, Excused, Covered
  <2> QED
    BY DEF Walk, Accounted, Covered
<1> QED
  BY <1>1, <1>2, <1>3, TypeCorrect, AntichainInductive, WalkStep, PTL DEF Spec

=============================================================================

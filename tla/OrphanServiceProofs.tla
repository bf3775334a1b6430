------------------------ MODULE OrphanServiceProofs ------------------------
(***************************************************************************)
(* Proofs about OrphanService, for any torrents, items, folders, requests  *)
(* and bounds, and whatever torrents do to their files meanwhile.          *)
(***************************************************************************)
EXTENDS OrphanService, FiniteSetTheorems, TLAPS

-----------------------------------------------------------------------------
(* The inductive invariant.                                                *)

\* What a request's operation and locals are at each of its steps.
LocalsKnown ==
    \A r \in Req :
        /\ pc[r] \in {"lookup", "identities", "recheck", "unlink", "forget"} =>
             kind[r] = "delete"
        /\ pc[r] \in {"walk", "again", "publish"} => kind[r] = "scan"
        /\ kind[r] = "delete" /\ pc[r] # "idle" =>
             want[r] \in [scan : Nat, key : Key]
        /\ kind[r] = "delete" /\ pc[r] \in HoldPC => entry[r] \in Entry
        /\ pc[r] \notin {"idle", "lookup", "session"} => sess[r] \in Dirs

\* A spent entry is not in the current result.
SpentGone == result # None => spent \cap result.byID = {}

Pinned == ResultPinned /\ SpentGone

\* The cached claims are those of the answer heard, which has the identities
\* of the fingerprint they are kept under.
CacheKeyed ==
    claimsFP # None =>
        /\ heard.ident = claimsFP[2]
        /\ claims = Claims(claimsFP[1], claimsFP[2], heard.files)

\* A request's history holds the present, and what its answers were free of.
HistoryHolds ==
    \A r \in Req :
        /\ pc[r] \notin {"idle", "lookup"} =>
             /\ FreeOfTorrents(ident, files) \subseteq freeT[r]
             /\ FreeOfFolders(dirs) \subseteq freeD[r]
        /\ pc[r] \notin {"idle", "lookup", "session"} =>
             FreeOfFolders(sess[r]) \subseteq freeD[r]
        /\ kind[r] = "delete" /\ pc[r] \in HoldPC \ {"unlink", "forget"} =>
             (Matches(entry[r], disk) => same[r])

\* What a delete was told it may remove was free of torrents and folders.
ClaimsHeard ==
    \A r \in Req : pc[r] = "recheck" =>
        Key \ own[r] \subseteq freeT[r] \cap freeD[r]

IInv ==
    /\ TypeOK /\ LocalsKnown /\ OneOperation /\ Pinned
    /\ CacheKeyed /\ HistoryHolds /\ ClaimsHeard
    /\ OfferedAfterWalk /\ UnlinkJustified

-----------------------------------------------------------------------------
\* Users, the daemon and the disk do not touch the Service or its requests.
LEMMA EnvFrame ==
  Decide \/ Daemon \/ Disk => UNCHANGED <<service, pc, locals, spent, scans>>
  BY DEF Decide, Daemon, Disk, Keep, Unkeep, ForgetKept, AddTorrent,
         RemoveTorrent, MoveTorrent, LearnFiles, RenameInner, SetDirs, DaemonRestart,
         DiskChange

LEMMA LoadedCount == ASSUME NEW i PROVE Cardinality(Loaded(i)) \in Nat
<1>1. Loaded(i) \subseteq Torrent
  BY DEF Loaded
<1> QED
  BY <1>1, ConstantsAssumption, FS_Subset, FS_CardinalityType

LEMMA ClaimsType ==
  ASSUME NEW d \in Dirs, NEW i \in Identities_, NEW f \in Files
  PROVE  Claims(d, i, f) \in SUBSET Key /\ FilesOf(i, f) \in SUBSET Key
<1>1. ASSUME NEW t \in Loaded(i) PROVE Holds(i, f, t) \subseteq Item
  BY ConstantsAssumption DEF Loaded, Holds, Identities_, Ident, Files
<1> QED
  BY <1>1, ConstantsAssumption DEF Claims, FilesOf, Loaded, Key

LEMMA InvInit == Init => IInv
<1> SUFFICES ASSUME Init PROVE IInv
  OBVIOUS
<1> USE ConstantsAssumption DEF Init
<1>1. TypeOK
  <2>1. Cardinality(Loaded(ident)) \in Nat
    BY LoadedCount
  <2>2. files \in Files
    BY DEF Ident, Files
  <2>3. heard \in [ident : Identities_, files : Files]
    BY DEF NoAnswer, Identities_, Files
  <2> QED
    BY <2>1, <2>2, <2>3 DEF TypeOK, Identities_, Ops, ScanPC, DelPC
<1>2. LocalsKnown /\ OneOperation /\ Pinned
  BY DEF LocalsKnown, OneOperation, Pinned, ResultPinned, SpentGone, HoldPC, DelPC
<1>3. CacheKeyed
  BY DEF CacheKeyed
<1>4. HistoryHolds /\ ClaimsHeard /\ OfferedAfterWalk /\ UnlinkJustified
  BY DEF HistoryHolds, ClaimsHeard, OfferedAfterWalk, UnlinkJustified, HoldPC,
         DelPC
<1> QED
  BY <1>1, <1>2, <1>3, <1>4 DEF IInv

\* Every variable keeps its type.
LEMMA TypeStep == IInv /\ [Next]_vars => TypeOK'
  <1> SUFFICES ASSUME IInv, [Next]_vars PROVE TypeOK'
    OBVIOUS
  <1> USE ConstantsAssumption DEF IInv, TypeOK, HoldPC, DelPC, ScanPC, Ops,
     Goto
  <1>1. ASSUME NEW r \in Req, NEW n \in 1..scans, NEW k \in Key,
     StartDelete(r, n, k) PROVE TypeOK'
    BY <1>1 DEF StartDelete, Return, Change, daemon, service, locals, history
  <1>2. ASSUME NEW r \in Req, StartScan(r) PROVE TypeOK'
    BY <1>2 DEF StartScan, FreeOfTorrents, FreeOfFolders, daemon
  <1>3. ASSUME NEW r \in Req, LookupFound(r) PROVE TypeOK'
    BY <1>3 DEF LookupFound, FreeOfTorrents, FreeOfFolders, daemon, service,
       Matches
  <1>4. ASSUME NEW r \in Req, LookupRefused(r) PROVE TypeOK'
    BY <1>4 DEF LookupRefused, Return, Change, daemon, service, locals,
       history
  <1>5. ASSUME NEW r \in Req, Session(r) PROVE TypeOK'
    BY <1>5 DEF Session, Return, Change, daemon, service, locals, history
  <1>6. ASSUME NEW r \in Req, Identities(r) PROVE TypeOK'
    <2>1. freeT' \in [Req -> SUBSET Key]
      BY <1>6 DEF Identities, TakeAsHeard
    <2>2. own' \in [Req -> SUBSET Key] /\ pc' \in [Req -> {"idle"} \cup ScanPC \cup DelPC]
      BY <1>6 DEF Identities
    <2> QED
      BY <1>6, <2>1, <2>2 DEF Identities, daemon, service
  <1>7. ASSUME NEW r \in Req, DeleteTorrents(r) PROVE TypeOK'
    <2>1. sess[r] \in Dirs
      BY <1>7 DEF DeleteTorrents, LocalsKnown
    <2>2. Claims(sess[r], ident, files) \in SUBSET Key
      BY <2>1, ClaimsType
    <2> QED
      BY <1>7, <2>1, <2>2 DEF DeleteTorrents, Return, Fingerprint, daemon, service, locals, history
  <1>8. ASSUME NEW r \in Req, Recheck(r) PROVE TypeOK'
    BY <1>8 DEF Recheck, Entry, LocalsKnown, daemon, service, history
  <1>9. ASSUME NEW r \in Req, RecheckRefused(r) PROVE TypeOK'
    BY <1>9 DEF RecheckRefused, Return, Change, daemon, service, locals,
       history
  <1>10. ASSUME NEW r \in Req, NEW p \in Piece, UnlinkPiece(r, p) PROVE
     TypeOK'
    BY <1>10 DEF UnlinkPiece, Entry, LocalsKnown, daemon, service, history
  <1>11. ASSUME NEW r \in Req, UnlinkDone(r) PROVE TypeOK'
    BY <1>11 DEF UnlinkDone, Return, Change, daemon, service, locals, history
  <1>12. ASSUME NEW r \in Req, Forget(r) PROVE TypeOK'
    BY <1>12 DEF Forget, Return, LocalsKnown, daemon
  <1>13. ASSUME NEW r \in Req, ScanTorrents(r) PROVE TypeOK'
    <2>1. sess[r] \in Dirs
      BY <1>13 DEF ScanTorrents, LocalsKnown
    <2>2. Claims(sess[r], ident, files) \in SUBSET Key
      BY <2>1, ClaimsType
    <2> QED
      BY <1>13, <2>1, <2>2 DEF ScanTorrents, Return, Fingerprint, daemon, service, locals, history
  <1>14. ASSUME NEW r \in Req, NEW k \in Key, Walk(r, k) PROVE TypeOK'
    BY <1>14 DEF Walk, Entry, daemon, service, history
  <1>15. ASSUME NEW r \in Req, LoadKept(r) PROVE TypeOK'
    BY <1>15 DEF LoadKept, FreeOfTorrents, daemon, service
  <1>16. ASSUME NEW r \in Req, Again(r) PROVE TypeOK'
    BY <1>16 DEF Again, Return, Change, daemon, service, locals, history
  <1>17. ASSUME NEW r \in Req, Publish(r) PROVE TypeOK'
    BY <1>17 DEF Publish, Return, Change, daemon, service, locals, history
  <1>18. ASSUME NEW r \in Req, Fail(r) PROVE TypeOK'
    BY <1>18 DEF Fail, Return, Change, daemon, service, locals, history
  <1>19. ASSUME Decide \/ Daemon \/ Disk PROVE TypeOK'
    <2> USE DEF Identities_, Files, Key
    <2>1. CASE Decide
      BY <2>1 DEF Decide, Keep, Unkeep, ForgetKept, HasEntry, daemon, service,
                  locals, history, Change, Entry
    <2>2. ASSUME NEW t \in Torrent, NEW p \in Place,
                 NEW f \in {None, Layout[t][p]}, AddTorrent(t, p, f)
          PROVE  TypeOK'
      BY <2>2 DEF AddTorrent, Watch, service, locals, Change, Ident, FreeOfTorrents, FreeOfFolders
    <2>3. ASSUME NEW t \in Torrent, NEW p \in Place, MoveTorrent(t, p)
          PROVE  TypeOK'
      BY <2>3 DEF MoveTorrent, Watch, service, locals, Change, Ident, FreeOfTorrents, FreeOfFolders
    <2>9. ASSUME NEW t \in Torrent, NEW p \in Place, LearnFiles(t, p)
          PROVE  TypeOK'
      BY <2>9 DEF LearnFiles, Watch, service, locals, Change, Ident, FreeOfTorrents, FreeOfFolders
    <2>4. ASSUME NEW t \in Torrent, NEW l \in {{}, disk[t]}, RemoveTorrent(t, l)
          PROVE  TypeOK'
      BY <2>4 DEF RemoveTorrent, Watch, service, locals, Change, FreeOfTorrents, FreeOfFolders
    <2>5. ASSUME NEW t \in Torrent, NEW f \in SUBSET Item, RenameInner(t, f)
          PROVE  TypeOK'
      BY <2>5 DEF RenameInner, Watch, service, locals, Change, FreeOfTorrents, FreeOfFolders
    <2>6. ASSUME NEW d \in Dirs, SetDirs(d) PROVE TypeOK'
      BY <2>6 DEF SetDirs, Watch, service, locals, Change, FreeOfTorrents, FreeOfFolders
    <2>7. ASSUME NEW n \in [Torrent -> 1..MaxId], DaemonRestart(n)
          PROVE  TypeOK'
      <3>1. ident' \in [Torrent -> Ident \cup {NotLoaded}]
        BY <2>7 DEF DaemonRestart, Ident
      <3>2. nextId' \in Nat \ {0}
        BY <2>7, LoadedCount DEF DaemonRestart
      <3> QED
        BY <2>7, <3>1, <3>2 DEF DaemonRestart, service, locals, history, Change
    <2>8. CASE Disk
      BY <2>8 DEF Disk, DiskChange, daemon, Watch, service, locals, Change, FreeOfTorrents, FreeOfFolders
    <2> HIDE DEF IInv, TypeOK
    <2>10. ASSUME NEW t \in Torrent, NEW p \in Place,
                  \/ \E f \in {None, Layout[t][p]} : AddTorrent(t, p, f)
                  \/ MoveTorrent(t, p) \/ LearnFiles(t, p)
           PROVE  TypeOK'
      BY <2>10, <2>2, <2>3, <2>9
    <2>11. CASE Daemon
      BY <2>11, <2>4, <2>5, <2>6, <2>7, <2>10 DEF Daemon
    <2> QED
      BY <1>19, <2>1, <2>8, <2>11
  <1>20. ASSUME Expire PROVE TypeOK'
    BY <1>20 DEF Expire, Return, Change, daemon, service, locals, history
  <1>21. ASSUME Restart PROVE TypeOK'
    <2>1. NoAnswer \in [ident : Identities_, files : Files]
      BY DEF NoAnswer, Identities_, Files
    <2> QED
      BY <1>21, <2>1 DEF Restart, Change, daemon
  <1>22. ASSUME UNCHANGED vars PROVE TypeOK'
    BY <1>22 DEF vars, daemon, service, locals, history
  <1> QED
    BY <1>1, <1>2, <1>3, <1>4, <1>5, <1>6, <1>7, <1>8, <1>9, <1>10, <1>11,
       <1>12, <1>13, <1>14, <1>15, <1>16, <1>17, <1>18, <1>19, <1>20, <1>21,
       <1>22 DEF Next, Call, Handler, DeleteStep, ScanStep

\* The locals stay what each step takes them for.
LEMMA LocalsStep == IInv /\ [Next]_vars => LocalsKnown'
  <1> SUFFICES ASSUME IInv, [Next]_vars PROVE LocalsKnown'
    OBVIOUS
  <1> USE DEF IInv, TypeOK, LocalsKnown, HoldPC, DelPC, ScanPC, Ops, Goto
  <1>1. ASSUME NEW r \in Req, NEW n \in 1..scans, NEW k \in Key,
     StartDelete(r, n, k) PROVE LocalsKnown'
    BY <1>1 DEF StartDelete, Return
  <1>2. ASSUME NEW r \in Req, StartScan(r) PROVE LocalsKnown'
    BY <1>2 DEF StartScan, Return
  <1>3. ASSUME NEW r \in Req, LookupFound(r) PROVE LocalsKnown'
    BY <1>3 DEF LookupFound, Return
  <1>4. ASSUME NEW r \in Req, LookupRefused(r) PROVE LocalsKnown'
    BY <1>4 DEF LookupRefused, Return
  <1>5. ASSUME NEW r \in Req, Session(r) PROVE LocalsKnown'
    BY <1>5 DEF Session, Return
  <1>6. ASSUME NEW r \in Req, Identities(r) PROVE LocalsKnown'
    BY <1>6 DEF Identities, Return
  <1>7. ASSUME NEW r \in Req, DeleteTorrents(r) PROVE LocalsKnown'
    BY <1>7 DEF DeleteTorrents, Return
  <1>8. ASSUME NEW r \in Req, Recheck(r) PROVE LocalsKnown'
    BY <1>8 DEF Recheck, Return
  <1>9. ASSUME NEW r \in Req, RecheckRefused(r) PROVE LocalsKnown'
    BY <1>9 DEF RecheckRefused, Return
  <1>10. ASSUME NEW r \in Req, NEW p \in Piece, UnlinkPiece(r, p) PROVE
     LocalsKnown'
    BY <1>10 DEF UnlinkPiece, Return
  <1>11. ASSUME NEW r \in Req, UnlinkDone(r) PROVE LocalsKnown'
    BY <1>11 DEF UnlinkDone, locals
  <1>12. ASSUME NEW r \in Req, Forget(r) PROVE LocalsKnown'
    BY <1>12 DEF Forget, Return
  <1>13. ASSUME NEW r \in Req, ScanTorrents(r) PROVE LocalsKnown'
    BY <1>13 DEF ScanTorrents, Return
  <1>14. ASSUME NEW r \in Req, NEW k \in Key, Walk(r, k) PROVE LocalsKnown'
    BY <1>14 DEF Walk, Return
  <1>15. ASSUME NEW r \in Req, LoadKept(r) PROVE LocalsKnown'
    BY <1>15 DEF LoadKept, Return
  <1>16. ASSUME NEW r \in Req, Again(r) PROVE LocalsKnown'
    BY <1>16 DEF Again, Return
  <1>17. ASSUME NEW r \in Req, Publish(r) PROVE LocalsKnown'
    BY <1>17 DEF Publish, Return
  <1>18. ASSUME NEW r \in Req, Fail(r) PROVE LocalsKnown'
    BY <1>18 DEF Fail, Return
  <1>19. ASSUME Decide \/ Daemon \/ Disk PROVE LocalsKnown'
    BY <1>19, EnvFrame DEF service, locals
  <1>20. ASSUME Expire PROVE LocalsKnown'
    BY <1>20 DEF Expire, locals
  <1>21. ASSUME Restart PROVE LocalsKnown'
    BY <1>21 DEF Restart, Return
  <1>22. ASSUME UNCHANGED vars PROVE LocalsKnown'
    BY <1>22 DEF vars, locals
  <1> QED
    BY <1>1, <1>2, <1>3, <1>4, <1>5, <1>6, <1>7, <1>8, <1>9, <1>10, <1>11,
       <1>12, <1>13, <1>14, <1>15, <1>16, <1>17, <1>18, <1>19, <1>20, <1>21,
       <1>22 DEF Next, Call, Handler, DeleteStep, ScanStep

\* One request is past its TryLock.
LEMMA LockStep == IInv /\ [Next]_vars => OneOperation'
  <1> SUFFICES ASSUME IInv, [Next]_vars PROVE OneOperation'
    OBVIOUS
  <1> USE ConstantsAssumption DEF IInv, TypeOK, OneOperation, HoldPC, DelPC,
     ScanPC, Ops, Goto
  <1>1. ASSUME NEW r \in Req, NEW n \in 1..scans, NEW k \in Key,
     StartDelete(r, n, k) PROVE OneOperation'
    BY <1>1 DEF StartDelete, Return, service
  <1>2. ASSUME NEW r \in Req, StartScan(r) PROVE OneOperation'
    BY <1>2 DEF StartScan, Return, service
  <1>3. ASSUME NEW r \in Req, LookupFound(r) PROVE OneOperation'
    BY <1>3 DEF LookupFound, Return, service
  <1>4. ASSUME NEW r \in Req, LookupRefused(r) PROVE OneOperation'
    BY <1>4 DEF LookupRefused, Return, service
  <1>5. ASSUME NEW r \in Req, Session(r) PROVE OneOperation'
    BY <1>5 DEF Session, Return, service
  <1>6. ASSUME NEW r \in Req, Identities(r) PROVE OneOperation'
    BY <1>6 DEF Identities, Return, service
  <1>7. ASSUME NEW r \in Req, DeleteTorrents(r) PROVE OneOperation'
    BY <1>7 DEF DeleteTorrents, Return, service
  <1>8. ASSUME NEW r \in Req, Recheck(r) PROVE OneOperation'
    BY <1>8 DEF Recheck, Return, service
  <1>9. ASSUME NEW r \in Req, RecheckRefused(r) PROVE OneOperation'
    BY <1>9 DEF RecheckRefused, Return, service
  <1>10. ASSUME NEW r \in Req, NEW p \in Piece, UnlinkPiece(r, p) PROVE
     OneOperation'
    BY <1>10 DEF UnlinkPiece, Return, service
  <1>11. ASSUME NEW r \in Req, UnlinkDone(r) PROVE OneOperation'
    BY <1>11 DEF UnlinkDone, service
  <1>12. ASSUME NEW r \in Req, Forget(r) PROVE OneOperation'
    BY <1>12 DEF Forget, Return, service
  <1>13. ASSUME NEW r \in Req, ScanTorrents(r) PROVE OneOperation'
    BY <1>13 DEF ScanTorrents, Return, service
  <1>14. ASSUME NEW r \in Req, NEW k \in Key, Walk(r, k) PROVE OneOperation'
    BY <1>14 DEF Walk, Return, service
  <1>15. ASSUME NEW r \in Req, LoadKept(r) PROVE OneOperation'
    BY <1>15 DEF LoadKept, Return, service
  <1>16. ASSUME NEW r \in Req, Again(r) PROVE OneOperation'
    BY <1>16 DEF Again, Return, service
  <1>17. ASSUME NEW r \in Req, Publish(r) PROVE OneOperation'
    BY <1>17 DEF Publish, Return, service
  <1>18. ASSUME NEW r \in Req, Fail(r) PROVE OneOperation'
    BY <1>18 DEF Fail, Return, service
  <1>19. ASSUME Decide \/ Daemon \/ Disk PROVE OneOperation'
    BY <1>19, EnvFrame DEF service
  <1>20. ASSUME Expire PROVE OneOperation'
    BY <1>20 DEF Expire, Return, service
  <1>21. ASSUME Restart PROVE OneOperation'
    BY <1>21 DEF Restart, Return, service
  <1>22. ASSUME UNCHANGED vars PROVE OneOperation'
    BY <1>22 DEF vars, service
  <1> QED
    BY <1>1, <1>2, <1>3, <1>4, <1>5, <1>6, <1>7, <1>8, <1>9, <1>10, <1>11,
       <1>12, <1>13, <1>14, <1>15, <1>16, <1>17, <1>18, <1>19, <1>20, <1>21,
       <1>22 DEF Next, Call, Handler, DeleteStep, ScanStep

\* A delete's scan stays the current one, and no spent entry returns.
LEMMA PinStep == IInv /\ [Next]_vars => Pinned'
  <1> SUFFICES ASSUME IInv, [Next]_vars PROVE Pinned'
    OBVIOUS
  <1> USE ConstantsAssumption DEF IInv, TypeOK, OneOperation, LocalsKnown,
     Pinned, ResultPinned, SpentGone, HoldPC, DelPC, ScanPC, Ops, Goto
  <1>1. ASSUME NEW r \in Req, NEW n \in 1..scans, NEW k \in Key,
     StartDelete(r, n, k) PROVE Pinned'
    BY <1>1 DEF StartDelete, Return, service, locals
  <1>2. ASSUME NEW r \in Req, StartScan(r) PROVE Pinned'
    BY <1>2 DEF StartScan, Return, service, locals
  <1>3. ASSUME NEW r \in Req, LookupFound(r) PROVE Pinned'
    BY <1>3 DEF LookupFound, HasEntry, service
  <1>4. ASSUME NEW r \in Req, LookupRefused(r) PROVE Pinned'
    BY <1>4 DEF LookupRefused, Return, service, locals
  <1>5. ASSUME NEW r \in Req, Session(r) PROVE Pinned'
    BY <1>5 DEF Session, Return, service, locals
  <1>6. ASSUME NEW r \in Req, Identities(r) PROVE Pinned'
    BY <1>6 DEF Identities, Return, service, locals
  <1>7. ASSUME NEW r \in Req, DeleteTorrents(r) PROVE Pinned'
    BY <1>7 DEF DeleteTorrents, Return, service, locals
  <1>8. ASSUME NEW r \in Req, Recheck(r) PROVE Pinned'
    BY <1>8 DEF Recheck, Return, service, locals
  <1>9. ASSUME NEW r \in Req, RecheckRefused(r) PROVE Pinned'
    BY <1>9 DEF RecheckRefused, Return, service, locals
  <1>10. ASSUME NEW r \in Req, NEW p \in Piece, UnlinkPiece(r, p) PROVE
     Pinned'
    BY <1>10 DEF UnlinkPiece, Return, service, locals
  <1>11. ASSUME NEW r \in Req, UnlinkDone(r) PROVE Pinned'
    BY <1>11 DEF UnlinkDone, Return, service, locals
  <1>12. ASSUME NEW r \in Req, Forget(r) PROVE Pinned'
    BY <1>12 DEF Forget, Return, service, locals
  <1>13. ASSUME NEW r \in Req, ScanTorrents(r) PROVE Pinned'
    BY <1>13 DEF ScanTorrents, Return, service, locals
  <1>14. ASSUME NEW r \in Req, NEW k \in Key, Walk(r, k) PROVE Pinned'
    BY <1>14 DEF Walk, Return, service, locals
  <1>15. ASSUME NEW r \in Req, LoadKept(r) PROVE Pinned'
    BY <1>15 DEF LoadKept, Return, service, locals
  <1>16. ASSUME NEW r \in Req, Again(r) PROVE Pinned'
    BY <1>16 DEF Again, Return, service, locals
  <1>17. ASSUME NEW r \in Req, Publish(r) PROVE Pinned'
    <2>1. \A q \in Req : pc'[q] = "idle"
      BY <1>17 DEF Publish, Return
    <2>2. spent' = {}
      BY <1>17 DEF Publish
    <2> QED
      BY <2>1, <2>2
  <1>18. ASSUME NEW r \in Req, Fail(r) PROVE Pinned'
    BY <1>18 DEF Fail, Return, service, locals
  <1>19. ASSUME Decide \/ Daemon \/ Disk PROVE Pinned'
    BY <1>19, EnvFrame DEF service, locals
  <1>20. ASSUME Expire PROVE Pinned'
    <2>1. /\ result' \in [id : Nat, byID : SUBSET Entry, live : BOOLEAN]
          /\ result'.id = result.id /\ result'.byID = result.byID
      BY <1>20 DEF Expire
    <2>2. UNCHANGED <<pc, kind, want, entry, spent>>
      BY <1>20 DEF Expire, locals
    <2>3. result /= None
      BY <1>20 DEF Expire
    <2> QED
      BY <2>1, <2>2, <2>3
  <1>21. ASSUME Restart PROVE Pinned'
    BY <1>21 DEF Restart, Return, service, locals
  <1>22. ASSUME UNCHANGED vars PROVE Pinned'
    BY <1>22 DEF vars, service, locals
  <1> QED
    BY <1>1, <1>2, <1>3, <1>4, <1>5, <1>6, <1>7, <1>8, <1>9, <1>10, <1>11,
       <1>12, <1>13, <1>14, <1>15, <1>16, <1>17, <1>18, <1>19, <1>20, <1>21,
       <1>22 DEF Next, Call, Handler, DeleteStep, ScanStep

\* The cache keeps belonging to its fingerprint.
LEMMA CacheStep == IInv /\ [Next]_vars => CacheKeyed'
  <1> SUFFICES ASSUME IInv, [Next]_vars PROVE CacheKeyed'
    OBVIOUS
  <1> USE DEF IInv, TypeOK, LocalsKnown, CacheKeyed
  <1>1. ASSUME NEW r \in Req, NEW n \in 1..scans, NEW k \in Key,
     StartDelete(r, n, k) PROVE CacheKeyed'
    BY <1>1 DEF StartDelete, service
  <1>2. ASSUME NEW r \in Req, StartScan(r) PROVE CacheKeyed'
    BY <1>2 DEF StartScan, service
  <1>3. ASSUME NEW r \in Req, LookupFound(r) PROVE CacheKeyed'
    BY <1>3 DEF LookupFound, service
  <1>4. ASSUME NEW r \in Req, LookupRefused(r) PROVE CacheKeyed'
    BY <1>4 DEF LookupRefused, service
  <1>5. ASSUME NEW r \in Req, Session(r) PROVE CacheKeyed'
    BY <1>5 DEF Session, service
  <1>6. ASSUME NEW r \in Req, Identities(r) PROVE CacheKeyed'
    BY <1>6 DEF Identities, service
  <1>7. ASSUME NEW r \in Req, DeleteTorrents(r) PROVE CacheKeyed'
    BY <1>7 DEF DeleteTorrents, Fingerprint
  <1>8. ASSUME NEW r \in Req, Recheck(r) PROVE CacheKeyed'
    BY <1>8 DEF Recheck, service
  <1>9. ASSUME NEW r \in Req, RecheckRefused(r) PROVE CacheKeyed'
    BY <1>9 DEF RecheckRefused, service
  <1>10. ASSUME NEW r \in Req, NEW p \in Piece, UnlinkPiece(r, p) PROVE
     CacheKeyed'
    BY <1>10 DEF UnlinkPiece, service
  <1>11. ASSUME NEW r \in Req, UnlinkDone(r) PROVE CacheKeyed'
    BY <1>11 DEF UnlinkDone, service
  <1>12. ASSUME NEW r \in Req, Forget(r) PROVE CacheKeyed'
    BY <1>12 DEF Forget
  <1>13. ASSUME NEW r \in Req, ScanTorrents(r) PROVE CacheKeyed'
    BY <1>13 DEF ScanTorrents, service
  <1>14. ASSUME NEW r \in Req, NEW k \in Key, Walk(r, k) PROVE CacheKeyed'
    BY <1>14 DEF Walk, service
  <1>15. ASSUME NEW r \in Req, LoadKept(r) PROVE CacheKeyed'
    BY <1>15 DEF LoadKept, service
  <1>16. ASSUME NEW r \in Req, Again(r) PROVE CacheKeyed'
    BY <1>16 DEF Again, service
  <1>17. ASSUME NEW r \in Req, Publish(r) PROVE CacheKeyed'
    BY <1>17 DEF Publish, service
  <1>18. ASSUME NEW r \in Req, Fail(r) PROVE CacheKeyed'
    BY <1>18 DEF Fail, service
  <1>19. ASSUME Decide \/ Daemon \/ Disk PROVE CacheKeyed'
    BY <1>19, EnvFrame DEF service
  <1>20. ASSUME Expire PROVE CacheKeyed'
    BY <1>20 DEF Expire, service
  <1>21. ASSUME Restart PROVE CacheKeyed'
    BY <1>21 DEF Restart, service
  <1>22. ASSUME UNCHANGED vars PROVE CacheKeyed'
    BY <1>22 DEF vars, service
  <1> QED
    BY <1>1, <1>2, <1>3, <1>4, <1>5, <1>6, <1>7, <1>8, <1>9, <1>10, <1>11,
       <1>12, <1>13, <1>14, <1>15, <1>16, <1>17, <1>18, <1>19, <1>20, <1>21,
       <1>22 DEF Next, Call, Handler, DeleteStep, ScanStep

-----------------------------------------------------------------------------
(* The history.                                                            *)

LEMMA FreeOfClaims ==
  ASSUME NEW d, NEW i, NEW f
  PROVE  Key \ Claims(d, i, f) \subseteq FreeOfTorrents(i, f) \cap FreeOfFolders(d)
  BY DEF Claims, FreeOfTorrents, FreeOfFolders

\* What cached claims leave free, no torrent owns but by files that were
\* relisted, and it is no folder of the daemon.
LEMMA FreeOfCached ==
  ASSUME NEW d, NEW i, NEW f, heard.ident = i
  PROVE  Key \ Claims(d, i, heard.files)
           \subseteq (Key \ KnownOwned(i, f)) \cap FreeOfFolders(d)
<1>1. KnownOwned(i, f) \subseteq FilesOf(i, heard.files)
  BY DEF KnownOwned, Relisted, FilesOf, Holds, Loaded
<1> QED
  BY <1>1 DEF Claims, FreeOfFolders

\* Whatever happens around a request, its history keeps what it has and takes
\* in the present.
LEMMA HistoryGrows ==
  ASSUME TypeOK, Decide \/ Daemon \/ Disk, NEW r \in Req, pc[r] # "idle"
  PROVE  /\ freeT[r] \subseteq freeT'[r] /\ freeD[r] \subseteq freeD'[r]
         /\ same[r] => same'[r]
         /\ FreeOfTorrents(ident, files) \subseteq freeT[r] =>
              FreeOfTorrents(ident', files') \subseteq freeT'[r]
         /\ FreeOfFolders(dirs) \subseteq freeD[r] =>
              FreeOfFolders(dirs') \subseteq freeD'[r]
         /\ (Matches(entry[r], disk) => same[r]) =>
              (Matches(entry[r], disk') => same'[r])
<1> USE DEF TypeOK
<1>1. CASE Watch
  BY <1>1 DEF Watch
<1>2. CASE UNCHANGED <<dirs, ident, files, disk, history>>
  BY <1>2 DEF history, FreeOfTorrents, FreeOfFolders, FilesOf, Holds, Loaded, Matches
<1>3. ASSUME NEW n \in [Torrent -> 1..MaxId], DaemonRestart(n)
      PROVE  FreeOfTorrents(ident', files') = FreeOfTorrents(ident, files)
  <2>1. Loaded(ident') = Loaded(ident)
    BY <1>3, ConstantsAssumption DEF DaemonRestart, Loaded, Ident, Identities_
  <2>2. files' = files
    BY <1>3 DEF DaemonRestart
  <2>4. ASSUME NEW t \in Loaded(ident)
        PROVE  Holds(ident', files', t) = Holds(ident, files, t)
    BY <1>3, <2>2, ConstantsAssumption
       DEF DaemonRestart, Holds, Loaded, Ident, Identities_
  <2>3. FilesOf(ident', files') = FilesOf(ident, files)
    BY <2>1, <2>4 DEF FilesOf
  <2> QED
    BY <2>3 DEF FreeOfTorrents
<1>4. ASSUME NEW n \in [Torrent -> 1..MaxId], DaemonRestart(n)
      PROVE  UNCHANGED <<dirs, disk, history>>
  BY <1>4 DEF DaemonRestart
<1>5. \/ Watch \/ UNCHANGED <<dirs, ident, files, disk, history>>
      \/ \E n \in [Torrent -> 1..MaxId] : DaemonRestart(n)
  BY DEF Decide, Daemon, Disk, Keep, Unkeep, ForgetKept, AddTorrent,
         RemoveTorrent, MoveTorrent, LearnFiles, RenameInner, SetDirs, DiskChange, daemon
<1> QED
  BY <1>1, <1>2, <1>3, <1>4, <1>5 DEF history, FreeOfFolders, Matches

\* A running request's history holds the present.
LEMMA HistoryStep == IInv /\ [Next]_vars => HistoryHolds'
  <1> SUFFICES ASSUME IInv, [Next]_vars PROVE HistoryHolds'
    OBVIOUS
  <1> USE DEF IInv, TypeOK, OneOperation, HoldPC, DelPC, ScanPC, Ops, Goto,
     HistoryHolds
  <1>1. ASSUME NEW r \in Req, NEW n \in 1..scans, NEW k \in Key,
     StartDelete(r, n, k) PROVE HistoryHolds'
    BY <1>1 DEF StartDelete, Return, daemon, service, locals, history
  <1>2. ASSUME NEW r \in Req, StartScan(r) PROVE HistoryHolds'
    BY <1>2 DEF StartScan, daemon
  <1>3. ASSUME NEW r \in Req, LookupFound(r) PROVE HistoryHolds'
    BY <1>3 DEF LookupFound, daemon, service
  <1>4. ASSUME NEW r \in Req, LookupRefused(r) PROVE HistoryHolds'
    BY <1>4 DEF LookupRefused, Return, daemon, service, locals, history
  <1>5. ASSUME NEW r \in Req, Session(r) PROVE HistoryHolds'
    BY <1>5 DEF Session, Return, daemon, service, locals, history
  <1>6. ASSUME NEW r \in Req, Identities(r) PROVE HistoryHolds'
    BY <1>6 DEF Identities, TakeAsHeard, daemon, service
  <1>7. ASSUME NEW r \in Req, DeleteTorrents(r) PROVE HistoryHolds'
    BY <1>7 DEF DeleteTorrents, Return, daemon, service, locals, history
  <1>8. ASSUME NEW r \in Req, Recheck(r) PROVE HistoryHolds'
    BY <1>8 DEF Recheck, Return, daemon, service, locals, history
  <1>9. ASSUME NEW r \in Req, RecheckRefused(r) PROVE HistoryHolds'
    BY <1>9 DEF RecheckRefused, Return, daemon, service, locals, history
  <1>10. ASSUME NEW r \in Req, NEW p \in Piece, UnlinkPiece(r, p) PROVE
     HistoryHolds'
    BY <1>10 DEF UnlinkPiece, Return, daemon, service, locals, history
  <1>11. ASSUME NEW r \in Req, UnlinkDone(r) PROVE HistoryHolds'
    BY <1>11 DEF UnlinkDone, Return, daemon, service, locals, history
  <1>12. ASSUME NEW r \in Req, Forget(r) PROVE HistoryHolds'
    BY <1>12 DEF Forget, Return, daemon, service, locals, history
  <1>13. ASSUME NEW r \in Req, ScanTorrents(r) PROVE HistoryHolds'
    BY <1>13 DEF ScanTorrents, Return, daemon, service, locals, history
  <1>14. ASSUME NEW r \in Req, NEW k \in Key, Walk(r, k) PROVE HistoryHolds'
    BY <1>14 DEF Walk, Return, daemon, service, locals, history
  <1>15. ASSUME NEW r \in Req, LoadKept(r) PROVE HistoryHolds'
    BY <1>15 DEF LoadKept, Return, daemon, service, locals, history
  <1>16. ASSUME NEW r \in Req, Again(r) PROVE HistoryHolds'
    BY <1>16 DEF Again, Return, daemon, service, locals, history
  <1>17. ASSUME NEW r \in Req, Publish(r) PROVE HistoryHolds'
    BY <1>17 DEF Publish, Return, daemon, service, locals, history
  <1>18. ASSUME NEW r \in Req, Fail(r) PROVE HistoryHolds'
    BY <1>18 DEF Fail, Return, daemon, service, locals, history
  <1>19. ASSUME Decide \/ Daemon \/ Disk PROVE HistoryHolds'
    BY <1>19, EnvFrame, HistoryGrows DEF service, locals
  <1>20. ASSUME Expire PROVE HistoryHolds'
    BY <1>20 DEF Expire, Return, daemon, service, locals, history
  <1>21. ASSUME Restart PROVE HistoryHolds'
    BY <1>21 DEF Restart, Return, daemon, service, locals, history
  <1>22. ASSUME UNCHANGED vars PROVE HistoryHolds'
    BY <1>22 DEF vars, daemon, service, locals, history
  <1> QED
    BY <1>1, <1>2, <1>3, <1>4, <1>5, <1>6, <1>7, <1>8, <1>9, <1>10, <1>11,
       <1>12, <1>13, <1>14, <1>15, <1>16, <1>17, <1>18, <1>19, <1>20, <1>21,
       <1>22 DEF Next, Call, Handler, DeleteStep, ScanStep

\* The claims a delete checks against are of an instant it saw.
LEMMA HeardStep == IInv /\ [Next]_vars => ClaimsHeard'
  <1> SUFFICES ASSUME IInv, [Next]_vars PROVE ClaimsHeard'
    OBVIOUS
  <1> USE DEF IInv, TypeOK, OneOperation, HoldPC, DelPC, ScanPC, Ops, Goto,
     ClaimsHeard
  <1>1. ASSUME NEW r \in Req, NEW n \in 1..scans, NEW k \in Key,
     StartDelete(r, n, k) PROVE ClaimsHeard'
    BY <1>1 DEF StartDelete, Return, daemon, service, locals, history
  <1>2. ASSUME NEW r \in Req, StartScan(r) PROVE ClaimsHeard'
    BY <1>2 DEF StartScan, Return, daemon, service, locals, history
  <1>3. ASSUME NEW r \in Req, LookupFound(r) PROVE ClaimsHeard'
    BY <1>3 DEF LookupFound, Return, daemon, service, locals, history
  <1>4. ASSUME NEW r \in Req, LookupRefused(r) PROVE ClaimsHeard'
    BY <1>4 DEF LookupRefused, Return, daemon, service, locals, history
  <1>5. ASSUME NEW r \in Req, Session(r) PROVE ClaimsHeard'
    BY <1>5 DEF Session, Return, daemon, service, locals, history
  <1>6. ASSUME NEW r \in Req, Identities(r) PROVE ClaimsHeard'
    <2>1. CASE claimsFP = Fingerprint(sess[r], ident)
      <3>1. sess[r] \in Dirs
        BY <1>6 DEF Identities, LocalsKnown
      <3>2. claimsFP /= None
        BY <2>1, <3>1, ConstantsAssumption DEF Fingerprint, Identities_
      <3>3. /\ heard.ident = ident
            /\ claims = Claims(sess[r], ident, heard.files)
        BY <2>1, <3>2 DEF CacheKeyed, Fingerprint
      <3>4. own'[r] = claims /\ freeD' = freeD
        BY <1>6, <2>1 DEF Identities
      <3>5. freeT'[r] = freeT[r] \cup (Key \ KnownOwned(ident, files))
        BY <1>6, <2>1 DEF Identities, TakeAsHeard
      <3>6. FreeOfFolders(sess[r]) \subseteq freeD[r]
        BY <1>6 DEF Identities, HistoryHolds
      <3>7. Key \ own'[r] \subseteq freeT'[r] \cap freeD'[r]
        BY <3>3, <3>4, <3>5, <3>6, FreeOfCached
      <3>8. \A q \in Req \ {r} : pc'[q] # "recheck"
        BY <1>6 DEF Identities
      <3> QED
        BY <3>7, <3>8
    <2>2. CASE claimsFP # Fingerprint(sess[r], ident)
      BY <1>6, <2>2 DEF Identities
    <2> QED
      BY <2>1, <2>2
  <1>7. ASSUME NEW r \in Req, DeleteTorrents(r) PROVE ClaimsHeard'
    <2>1. Key \ own'[r] \subseteq freeT[r] \cap freeD[r]
      BY <1>7, FreeOfClaims DEF DeleteTorrents, HistoryHolds
    <2> QED
      BY <1>7, <2>1 DEF DeleteTorrents, history
  <1>8. ASSUME NEW r \in Req, Recheck(r) PROVE ClaimsHeard'
    BY <1>8 DEF Recheck, Return, daemon, service, locals, history
  <1>9. ASSUME NEW r \in Req, RecheckRefused(r) PROVE ClaimsHeard'
    BY <1>9 DEF RecheckRefused, Return, daemon, service, locals, history
  <1>10. ASSUME NEW r \in Req, NEW p \in Piece, UnlinkPiece(r, p) PROVE
     ClaimsHeard'
    BY <1>10 DEF UnlinkPiece, Return, daemon, service, locals, history
  <1>11. ASSUME NEW r \in Req, UnlinkDone(r) PROVE ClaimsHeard'
    BY <1>11 DEF UnlinkDone, Return, daemon, service, locals, history
  <1>12. ASSUME NEW r \in Req, Forget(r) PROVE ClaimsHeard'
    BY <1>12 DEF Forget, Return, daemon, service, locals, history
  <1>13. ASSUME NEW r \in Req, ScanTorrents(r) PROVE ClaimsHeard'
    BY <1>13 DEF ScanTorrents, Return, daemon, service, locals, history
  <1>14. ASSUME NEW r \in Req, NEW k \in Key, Walk(r, k) PROVE ClaimsHeard'
    BY <1>14 DEF Walk, Return, daemon, service, locals, history
  <1>15. ASSUME NEW r \in Req, LoadKept(r) PROVE ClaimsHeard'
    BY <1>15 DEF LoadKept, Return, daemon, service, locals, history
  <1>16. ASSUME NEW r \in Req, Again(r) PROVE ClaimsHeard'
    BY <1>16 DEF Again, Return, daemon, service, locals, history
  <1>17. ASSUME NEW r \in Req, Publish(r) PROVE ClaimsHeard'
    BY <1>17 DEF Publish, Return, daemon, service, locals, history
  <1>18. ASSUME NEW r \in Req, Fail(r) PROVE ClaimsHeard'
    BY <1>18 DEF Fail, Return, daemon, service, locals, history
  <1>19. ASSUME Decide \/ Daemon \/ Disk PROVE ClaimsHeard'
    BY <1>19, EnvFrame, HistoryGrows DEF service, locals
  <1>20. ASSUME Expire PROVE ClaimsHeard'
    BY <1>20 DEF Expire, Return, daemon, service, locals, history
  <1>21. ASSUME Restart PROVE ClaimsHeard'
    BY <1>21 DEF Restart, Return, daemon, service, locals, history
  <1>22. ASSUME UNCHANGED vars PROVE ClaimsHeard'
    BY <1>22 DEF vars, service, locals, history
  <1> QED
    BY <1>1, <1>2, <1>3, <1>4, <1>5, <1>6, <1>7, <1>8, <1>9, <1>10, <1>11,
       <1>12, <1>13, <1>14, <1>15, <1>16, <1>17, <1>18, <1>19, <1>20, <1>21,
       <1>22 DEF Next, Call, Handler, DeleteStep, ScanStep

\* What a scan is about to offer was free after the walk.
LEMMA OfferedStep == IInv /\ [Next]_vars => OfferedAfterWalk'
  <1> SUFFICES ASSUME IInv, [Next]_vars PROVE OfferedAfterWalk'
    OBVIOUS
  <1> USE DEF IInv, TypeOK, OneOperation, HoldPC, DelPC, ScanPC, Ops, Goto,
     OfferedAfterWalk
  <1>1. ASSUME NEW r \in Req, NEW n \in 1..scans, NEW k \in Key,
     StartDelete(r, n, k) PROVE OfferedAfterWalk'
    BY <1>1 DEF StartDelete, Return, daemon, service, locals, history
  <1>2. ASSUME NEW r \in Req, StartScan(r) PROVE OfferedAfterWalk'
    BY <1>2 DEF StartScan, Return, daemon, service, locals, history
  <1>3. ASSUME NEW r \in Req, LookupFound(r) PROVE OfferedAfterWalk'
    BY <1>3 DEF LookupFound, Return, daemon, service, locals, history
  <1>4. ASSUME NEW r \in Req, LookupRefused(r) PROVE OfferedAfterWalk'
    BY <1>4 DEF LookupRefused, Return, daemon, service, locals, history
  <1>5. ASSUME NEW r \in Req, Session(r) PROVE OfferedAfterWalk'
    BY <1>5 DEF Session, Return, daemon, service, locals, history
  <1>6. ASSUME NEW r \in Req, Identities(r) PROVE OfferedAfterWalk'
    BY <1>6 DEF Identities, Return, daemon, service, locals, history
  <1>7. ASSUME NEW r \in Req, DeleteTorrents(r) PROVE OfferedAfterWalk'
    BY <1>7 DEF DeleteTorrents, Return, daemon, service, locals, history
  <1>8. ASSUME NEW r \in Req, Recheck(r) PROVE OfferedAfterWalk'
    BY <1>8 DEF Recheck, Return, daemon, service, locals, history
  <1>9. ASSUME NEW r \in Req, RecheckRefused(r) PROVE OfferedAfterWalk'
    BY <1>9 DEF RecheckRefused, Return, daemon, service, locals, history
  <1>10. ASSUME NEW r \in Req, NEW p \in Piece, UnlinkPiece(r, p) PROVE
     OfferedAfterWalk'
    BY <1>10 DEF UnlinkPiece, Return, daemon, service, locals, history
  <1>11. ASSUME NEW r \in Req, UnlinkDone(r) PROVE OfferedAfterWalk'
    BY <1>11 DEF UnlinkDone, Return, daemon, service, locals, history
  <1>12. ASSUME NEW r \in Req, Forget(r) PROVE OfferedAfterWalk'
    BY <1>12 DEF Forget, Return, daemon, service, locals, history
  <1>13. ASSUME NEW r \in Req, ScanTorrents(r) PROVE OfferedAfterWalk'
    BY <1>13 DEF ScanTorrents, Return, daemon, service, locals, history
  <1>14. ASSUME NEW r \in Req, NEW k \in Key, Walk(r, k) PROVE
     OfferedAfterWalk'
    BY <1>14 DEF Walk, Return, daemon, service, locals, history
  <1>15. ASSUME NEW r \in Req, LoadKept(r) PROVE OfferedAfterWalk'
    BY <1>15 DEF LoadKept, Return, daemon, service, locals, history
  <1>16. ASSUME NEW r \in Req, Again(r) PROVE OfferedAfterWalk'
    <2>1. \A e \in found'[r] : e.key \in Key \ Claims(sess[r], ident, files)
      BY <1>16 DEF Again, Entry
    <2>2. \A e \in found'[r] : e.key \in freeT[r] \cap freeD[r]
      BY <1>16, <2>1, FreeOfClaims DEF Again, HistoryHolds
    <2> QED
      BY <1>16, <2>2 DEF Again, history
  <1>17. ASSUME NEW r \in Req, Publish(r) PROVE OfferedAfterWalk'
    BY <1>17 DEF Publish, Return, daemon, service, locals, history
  <1>18. ASSUME NEW r \in Req, Fail(r) PROVE OfferedAfterWalk'
    BY <1>18 DEF Fail, Return, daemon, service, locals, history
  <1>19. ASSUME Decide \/ Daemon \/ Disk PROVE OfferedAfterWalk'
    BY <1>19, EnvFrame, HistoryGrows DEF service, locals
  <1>20. ASSUME Expire PROVE OfferedAfterWalk'
    BY <1>20 DEF Expire, Return, daemon, service, locals, history
  <1>21. ASSUME Restart PROVE OfferedAfterWalk'
    BY <1>21 DEF Restart, Return, daemon, service, locals, history
  <1>22. ASSUME UNCHANGED vars PROVE OfferedAfterWalk'
    BY <1>22 DEF vars, service, locals, history
  <1> QED
    BY <1>1, <1>2, <1>3, <1>4, <1>5, <1>6, <1>7, <1>8, <1>9, <1>10, <1>11,
       <1>12, <1>13, <1>14, <1>15, <1>16, <1>17, <1>18, <1>19, <1>20, <1>21,
       <1>22 DEF Next, Call, Handler, DeleteStep, ScanStep

\* What a delete is about to unlink it may.
LEMMA JustifiedStep == IInv /\ [Next]_vars => UnlinkJustified'
  <1> SUFFICES ASSUME IInv, [Next]_vars PROVE UnlinkJustified'
    OBVIOUS
  <1> USE DEF IInv, TypeOK, OneOperation, HoldPC, DelPC, ScanPC, Ops, Goto,
     UnlinkJustified
  <1>1. ASSUME NEW r \in Req, NEW n \in 1..scans, NEW k \in Key,
     StartDelete(r, n, k) PROVE UnlinkJustified'
    BY <1>1 DEF StartDelete, Return, daemon, service, locals, history
  <1>2. ASSUME NEW r \in Req, StartScan(r) PROVE UnlinkJustified'
    BY <1>2 DEF StartScan, Return, daemon, service, locals, history
  <1>3. ASSUME NEW r \in Req, LookupFound(r) PROVE UnlinkJustified'
    BY <1>3 DEF LookupFound, Return, daemon, service, locals, history
  <1>4. ASSUME NEW r \in Req, LookupRefused(r) PROVE UnlinkJustified'
    BY <1>4 DEF LookupRefused, Return, daemon, service, locals, history
  <1>5. ASSUME NEW r \in Req, Session(r) PROVE UnlinkJustified'
    BY <1>5 DEF Session, Return, daemon, service, locals, history
  <1>6. ASSUME NEW r \in Req, Identities(r) PROVE UnlinkJustified'
    BY <1>6 DEF Identities, Return, daemon, service, locals, history
  <1>7. ASSUME NEW r \in Req, DeleteTorrents(r) PROVE UnlinkJustified'
    BY <1>7 DEF DeleteTorrents, Return, daemon, service, locals, history
  <1>8. ASSUME NEW r \in Req, Recheck(r) PROVE UnlinkJustified'
    <2>1. entry[r] \in Entry
      BY <1>8 DEF Recheck, LocalsKnown
    <2>2. entry[r].key \in freeT[r] \cap freeD[r]
      BY <1>8, <2>1 DEF Recheck, Refused, ClaimsHeard, Entry
    <2>3. entry[r].key \in Item => same[r]
      BY <1>8, <2>1, ConstantsAssumption DEF Recheck, Refused, HistoryHolds, LocalsKnown, Matches
    <2> QED
      BY <1>8, <2>2, <2>3 DEF Recheck, history
  <1>9. ASSUME NEW r \in Req, RecheckRefused(r) PROVE UnlinkJustified'
    BY <1>9 DEF RecheckRefused, Return, daemon, service, locals, history
  <1>10. ASSUME NEW r \in Req, NEW p \in Piece, UnlinkPiece(r, p) PROVE
     UnlinkJustified'
    BY <1>10 DEF UnlinkPiece, Return, daemon, service, locals, history
  <1>11. ASSUME NEW r \in Req, UnlinkDone(r) PROVE UnlinkJustified'
    BY <1>11 DEF UnlinkDone, Return, daemon, service, locals, history
  <1>12. ASSUME NEW r \in Req, Forget(r) PROVE UnlinkJustified'
    BY <1>12 DEF Forget, Return, daemon, service, locals, history
  <1>13. ASSUME NEW r \in Req, ScanTorrents(r) PROVE UnlinkJustified'
    BY <1>13 DEF ScanTorrents, Return, daemon, service, locals, history
  <1>14. ASSUME NEW r \in Req, NEW k \in Key, Walk(r, k) PROVE UnlinkJustified'
    BY <1>14 DEF Walk, Return, daemon, service, locals, history
  <1>15. ASSUME NEW r \in Req, LoadKept(r) PROVE UnlinkJustified'
    BY <1>15 DEF LoadKept, Return, daemon, service, locals, history
  <1>16. ASSUME NEW r \in Req, Again(r) PROVE UnlinkJustified'
    BY <1>16 DEF Again, Return, daemon, service, locals, history
  <1>17. ASSUME NEW r \in Req, Publish(r) PROVE UnlinkJustified'
    BY <1>17 DEF Publish, Return, daemon, service, locals, history
  <1>18. ASSUME NEW r \in Req, Fail(r) PROVE UnlinkJustified'
    BY <1>18 DEF Fail, Return, daemon, service, locals, history
  <1>19. ASSUME Decide \/ Daemon \/ Disk PROVE UnlinkJustified'
    <2>1. UNCHANGED <<pc, entry>>
      BY <1>19, EnvFrame DEF locals
    <2>2. \A r \in Req : pc[r] = "unlink" =>
             /\ freeT[r] \subseteq freeT'[r] /\ freeD[r] \subseteq freeD'[r]
             /\ same[r] => same'[r]
      BY <1>19, HistoryGrows
    <2> QED
      BY <2>1, <2>2
  <1>20. ASSUME Expire PROVE UnlinkJustified'
    BY <1>20 DEF Expire, Return, daemon, service, locals, history
  <1>21. ASSUME Restart PROVE UnlinkJustified'
    BY <1>21 DEF Restart, Return, daemon, service, locals, history
  <1>22. ASSUME UNCHANGED vars PROVE UnlinkJustified'
    BY <1>22 DEF vars, service, locals, history
  <1> QED
    BY <1>1, <1>2, <1>3, <1>4, <1>5, <1>6, <1>7, <1>8, <1>9, <1>10, <1>11,
       <1>12, <1>13, <1>14, <1>15, <1>16, <1>17, <1>18, <1>19, <1>20, <1>21,
       <1>22 DEF Next, Call, Handler, DeleteStep, ScanStep

-----------------------------------------------------------------------------
LEMMA Invariance == Spec => []IInv
<1>1. IInv /\ [Next]_vars => IInv'
  BY TypeStep, LocalsStep, LockStep, PinStep, CacheStep,
     HistoryStep, HeardStep, OfferedStep, JustifiedStep DEF IInv
<1> QED
  BY <1>1, InvInit, PTL DEF Spec

\* Every variable keeps its type.
THEOREM TypeCorrect == Spec => []TypeOK
  BY Invariance, PTL DEF IInv

\* opMu is held by exactly the request that runs.
THEOREM OneOperationHolds == Spec => []OneOperation
  BY Invariance, PTL DEF IInv

\* The state is of its type, and opMu is held as just said.
THEOREM ConsistentHolds == Spec => []Consistent
  BY Invariance, PTL DEF IInv, Consistent

\* From its lookup on, a delete works on the current scan, which offers it.
THEOREM ResultPinnedHolds == Spec => []ResultPinned
  BY Invariance, PTL DEF IInv, Pinned

\* No entry of a scan is deleted twice.
THEOREM DeletedOnceHolds == Spec => []DeletedOnce
<1>1. IInv => DeletedOnce
  BY DEF IInv, Pinned, ResultPinned, SpentGone, DeletedOnce
<1> QED
  BY <1>1, Invariance, PTL

\* Cached claims that would be reused hold all that the daemon owns, but for
\* files that changed behind the identity they were heard with.
THEOREM CacheSoundHolds == Spec => []CacheSound
<1>1. IInv => CacheSound
  <2> SUFFICES ASSUME IInv, claimsFP = Fingerprint(dirs, ident)
               PROVE  Structural[dirs] \cup KnownOwned(ident, files) \subseteq claims
    BY DEF CacheSound
  <2>1. claimsFP /= None
    BY ConstantsAssumption DEF IInv, TypeOK, Fingerprint, Identities_
  <2>2. heard.ident = ident /\ claims = Claims(dirs, ident, heard.files)
    BY <2>1 DEF IInv, CacheKeyed, Fingerprint
  <2>3. KnownOwned(ident, files) \subseteq FilesOf(ident, heard.files)
    BY <2>2 DEF KnownOwned, Relisted, FilesOf, Holds, Loaded
  <2> QED
    BY <2>2, <2>3 DEF Claims
<1> QED
  BY <1>1, Invariance, PTL

\* A scan offers nothing a torrent owned ever since the walk ended.
THEOREM OfferedAfterWalkHolds == Spec => []OfferedAfterWalk
  BY Invariance, PTL DEF IInv

\* A delete unlinks nothing the daemon owned all along since it was asked, as
\* far as the identities tell, and no data that was not, at some instant since,
\* what the scan saw.
THEOREM UnlinkJustifiedHolds == Spec => []UnlinkJustified
  BY Invariance, PTL DEF IInv
=============================================================================

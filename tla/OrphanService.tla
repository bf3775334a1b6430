--------------------------- MODULE OrphanService ---------------------------
(***************************************************************************)
(* The orphan finder: Service.Scan and Service.Delete of                   *)
(* backend/internal/orphans/service.go, running against a daemon and a     *)
(* disk that change between any two of their steps.                        *)
(*                                                                         *)
(* What the properties do not tell apart is abstracted.  A KEY is a thing  *)
(* a scan can offer: an Item is a top-most data path, and a Torrent stands *)
(* for the set of state files (.torrent, .magnet, .resume) named after its *)
(* hash.  disk[k] is the set of pieces (files) under k; it is also what    *)
(* summarize() measures, so two contents compare as the code compares      *)
(* size, file count, newest mtime and kind.  newClaims() is a set: the     *)
(* keys the daemon owns (the paths themselves are in OrphanClaims).        *)
(***************************************************************************)
EXTENDS Naturals, FiniteSets

CONSTANTS
    Torrent,     \* info hashes; also the keys of their state files
    Item,        \* top-most data paths
    Piece,       \* files under a key
    Place,       \* a torrent's name and download_dir
    Dirs,        \* values of the session's download_dir and incomplete_dir
    Layout,      \* Layout[t][p]: the items torrent t's files claim at place p
    Whole,       \* Whole[t][p]: what its name claims while it has no file list
    Structural,  \* Structural[d]: the items that are the daemon's own folders
    Req,         \* HTTP requests that can be in flight together
    NotLoaded, None, Unreadable,
    MaxId,       \* bound: torrent ids the daemon hands out
    MaxScans,    \* bound: scans that publish a result
    MaxChanges   \* bound: changes made by the daemon, the disk and the users

Key   == Item \cup Torrent
Ident == [id : 1..MaxId, place : Place]
Entry == [key : Key, mark : SUBSET Piece]

ASSUME ConstantsAssumption ==
    /\ IsFiniteSet(Torrent)
    /\ Item \cap Torrent = {}
    /\ Layout \in [Torrent -> [Place -> SUBSET Item]]
    /\ Structural \in [Dirs -> SUBSET Item]
    /\ Whole \in [Torrent -> [Place -> SUBSET Item]]
    /\ \A S \in SUBSET Item : S # None
    /\ NotLoaded \notin Ident
    /\ None \notin Req
    /\ None \notin [id : Nat, byID : SUBSET Entry, live : BOOLEAN]
    /\ None \notin Entry
    /\ None \notin Dirs \X [Torrent -> Ident \cup {NotLoaded}]
    /\ MaxId \in Nat /\ MaxScans \in Nat /\ MaxChanges \in Nat

VARIABLES
    dirs, ident, files, nextId,  \* the daemon: session folders, torrents
    disk,                        \* the data folders and the state folder
    opMu, result,                \* the Service's fields; with no cached
    claims, claimsFP,            \* claims (nil) claimsFP is None
    heard,                       \* history: the answer the claims are from
    kept,                        \* the remembered Keeps, see KeepList
    pc, kind, want, entry,       \* a request's step, operation and argument
    sess, own, todo, found,      \* its locals
    freeT, freeD, same, spent,   \* history, for the properties
    scans, changes               \* bounded counters

daemon   == <<dirs, ident, files, nextId>>
service  == <<opMu, result, claims, claimsFP, heard>>
locals   == <<kind, want, entry, sess, own, todo, found>>
history  == <<freeT, freeD, same>>   \* of the requests
vars == <<daemon, disk, service, kept, pc, locals, history, spent,
          scans, changes>>

-----------------------------------------------------------------------------
(* What the daemon owns, and what it is recognised by.                     *)

Loaded(i) == {t \in Torrent : i[t] # NotLoaded}

\* newClaims, one torrent's data: its files, each also as name.part; a magnet
\* that has no file list yet (None) claims what has its name, and no .part.
Holds(i, f, t) == IF f[t] = None THEN Whole[t][i[t].place] ELSE f[t]

\* newClaims, the part that comes from the torrents: a loaded hash protects
\* its state files, a claimed path its item.
FilesOf(i, f) == Loaded(i) \cup UNION {Holds(i, f, t) : t \in Loaded(i)}

Claims(d, i, f) == Structural[d] \cup FilesOf(i, f)

\* Mutant: the fingerprint leaves out name and download_dir.
Fingerprint_NoPlace(d, i) ==
    <<d, [t \in Torrent |-> IF i[t] = NotLoaded THEN NotLoaded
            ELSE [i[t] EXCEPT !.place = CHOOSE p \in Place : TRUE]]>>

\* The folders and each torrent's id, hash, name and download_dir: no files.
Fingerprint(d, i) == <<d, i>>

-----------------------------------------------------------------------------
Ops     == {"scan", "delete"}
ScanPC  == {"session", "torrents", "walk", "again", "publish"}
DelPC   == {"lookup", "session", "identities", "torrents", "recheck",
            "unlink", "forget"}
\* The steps of a delete that hold an entry of the scan.
HoldPC  == DelPC \ {"lookup"}

NoAnswer == [ident |-> [t \in Torrent |-> NotLoaded],
             files |-> [t \in Torrent |-> {}]]

Init ==
    /\ dirs \in Dirs
    /\ ident \in [Torrent -> Ident \cup {NotLoaded}]
    /\ \A t, u \in Loaded(ident) : t # u => ident[t].id # ident[u].id
    /\ \E magnet \in SUBSET Loaded(ident) :
         files = [t \in Torrent |-> IF ident[t] = NotLoaded THEN {}
                                    ELSE IF t \in magnet THEN None
                                    ELSE Layout[t][ident[t].place]]
    /\ nextId = Cardinality(Loaded(ident)) + 1
    /\ \A t \in Loaded(ident) : ident[t].id < nextId
    /\ disk \in [Key -> SUBSET Piece]
    /\ opMu = None /\ result = None /\ claims = {} /\ claimsFP = None
    /\ heard = NoAnswer
    /\ kept = {}
    /\ pc    = [r \in Req |-> "idle"]
    /\ kind  = [r \in Req |-> "scan"]
    /\ want  = [r \in Req |-> None]
    /\ entry = [r \in Req |-> None]
    /\ sess  = [r \in Req |-> None]
    /\ own   = [r \in Req |-> {}]
    /\ todo  = [r \in Req |-> {}]
    /\ found = [r \in Req |-> {}]
    /\ freeT = [r \in Req |-> {}]
    /\ freeD = [r \in Req |-> {}]
    /\ same  = [r \in Req |-> FALSE]
    /\ spent = {}
    /\ scans = 0
    /\ changes = 0

-----------------------------------------------------------------------------
(* History.  While a request runs, freeT[r] and freeD[r] collect the keys  *)
(* that no torrent owned, and that were not a folder of the daemon, at     *)
(* some instant since the request last began to look; same[r] says that    *)
(* the entry's content was once what the scan saw.  spent holds the        *)
(* entries of the current scan whose delete was carried out.  heard is the *)
(* answer the cached claims were made of.  No action reads these variables *)
(* but to set them.                                                        *)

FreeOfTorrents(i, f) == Key \ FilesOf(i, f)
FreeOfFolders(d)     == Key \ Structural[d]
Matches(e, dk)       == e # None /\ dk[e.key] = e.mark

\* The torrents whose files are no longer those heard although their id, hash,
\* name and download_dir are: a path inside was renamed, or a magnet has
\* learnt its files.  Claims kept by identity cannot know of it.
Relisted(i, f) ==
    {t \in Loaded(i) : heard.ident[t] = i[t] /\ heard.files[t] # f[t]}

\* What the torrents own but for the files of the relisted ones.
KnownOwned(i, f) ==
    Loaded(i) \cup UNION {Holds(i, f, t) : t \in Loaded(i) \ Relisted(i, f)}

\* Conjoined to every change of the daemon or of the disk.
Watch ==
    /\ freeT' = [r \in Req |-> IF pc[r] = "idle" THEN {}
                   ELSE freeT[r] \cup FreeOfTorrents(ident', files')]
    /\ freeD' = [r \in Req |-> IF pc[r] = "idle" THEN {}
                   ELSE freeD[r] \cup FreeOfFolders(dirs')]
    /\ same' = [r \in Req |-> same[r] \/ Matches(entry[r], disk')]

-----------------------------------------------------------------------------
(* Scan and Delete.  A request that finds opMu taken is answered ErrBusy   *)
(* and changes nothing, so TryLock shows only as the guard opMu = None.    *)

Goto(r, step) == pc' = [pc EXCEPT ![r] = step]

\* Return: the deferred opMu.Unlock(), and the locals are gone.
Return(r) ==
    /\ opMu' = None
    /\ Goto(r, "idle")
    /\ want'  = [want EXCEPT ![r] = None]
    /\ entry' = [entry EXCEPT ![r] = None]
    /\ sess'  = [sess EXCEPT ![r] = None]
    /\ own'   = [own EXCEPT ![r] = {}]
    /\ todo'  = [todo EXCEPT ![r] = {}]
    /\ found' = [found EXCEPT ![r] = {}]
    /\ freeT' = [freeT EXCEPT ![r] = {}]
    /\ freeD' = [freeD EXCEPT ![r] = {}]
    /\ same'  = [same EXCEPT ![r] = FALSE]
    /\ kind'  = [kind EXCEPT ![r] = "scan"]

\* Mutant: a scan does not wait for a delete.
StartScan_NoLock(r) ==
    /\ pc[r] = "idle" /\ scans < MaxScans
    /\ Goto(r, "session")
    /\ kind' = [kind EXCEPT ![r] = "scan"]
    /\ freeT' = [freeT EXCEPT ![r] = FreeOfTorrents(ident, files)]
    /\ freeD' = [freeD EXCEPT ![r] = FreeOfFolders(dirs)]
    /\ UNCHANGED <<daemon, disk, service, kept, want, entry, sess, own, todo,
                   found, same, spent, scans, changes>>

\* Scan takes opMu.
StartScan(r) ==
    /\ pc[r] = "idle" /\ opMu = None /\ scans < MaxScans
    /\ opMu' = r
    /\ Goto(r, "session")
    /\ kind' = [kind EXCEPT ![r] = "scan"]
    /\ freeT' = [freeT EXCEPT ![r] = FreeOfTorrents(ident, files)]
    /\ freeD' = [freeD EXCEPT ![r] = FreeOfFolders(dirs)]
    /\ UNCHANGED <<daemon, disk, result, claims, claimsFP, heard, kept, want,
                   entry, sess, own, todo, found, same, spent, scans, changes>>

\* Delete takes opMu.  A tab may still name a scan that was replaced.
StartDelete(r, n, k) ==
    /\ pc[r] = "idle" /\ opMu = None
    /\ opMu' = r
    /\ Goto(r, "lookup")
    /\ kind' = [kind EXCEPT ![r] = "delete"]
    /\ want' = [want EXCEPT ![r] = [scan |-> n, key |-> k]]
    /\ UNCHANGED <<daemon, disk, result, claims, claimsFP, heard, kept, entry,
                   sess, own, todo, found, history, spent,
                   scans, changes>>

\* Service.entry: expired, replaced, or from before a restart; or no longer
\* in the result.
HasEntry(n, e) ==
    /\ result # None /\ result.id = n /\ result.live
    /\ e \in result.byID

\* Mutant: an expired scan returns before the deferred Unlock.
LookupRefused_Locked(r) ==
    /\ pc[r] = "lookup"
    /\ \A e \in Entry : ~(HasEntry(want[r].scan, e) /\ e.key = want[r].key)
    /\ Goto(r, "idle")
    /\ UNCHANGED <<daemon, disk, service, kept, locals, history, spent, scans,
                   changes>>

LookupFound(r) ==
    /\ pc[r] = "lookup"
    /\ \E e \in Entry :
         /\ HasEntry(want[r].scan, e) /\ e.key = want[r].key
         /\ entry' = [entry EXCEPT ![r] = e]
         /\ same' = [same EXCEPT ![r] = Matches(e, disk)]
    /\ freeT' = [freeT EXCEPT ![r] = FreeOfTorrents(ident, files)]
    /\ freeD' = [freeD EXCEPT ![r] = FreeOfFolders(dirs)]
    /\ Goto(r, "session")
    /\ UNCHANGED <<daemon, disk, service, kept, kind, want, sess, own, todo,
                   found, spent, scans, changes>>

LookupRefused(r) ==
    /\ pc[r] = "lookup"
    /\ \A e \in Entry : ~(HasEntry(want[r].scan, e) /\ e.key = want[r].key)
    /\ Return(r)
    /\ UNCHANGED <<daemon, disk, result, claims, claimsFP, heard, kept, spent,
                   scans, changes>>

\* rpc.session: the daemon's answer is its state at one instant.
Session(r) ==
    /\ pc[r] = "session"
    /\ sess' = [sess EXCEPT ![r] = dirs]
    /\ Goto(r, IF kind[r] = "scan" THEN "torrents" ELSE "identities")
    /\ UNCHANGED <<daemon, disk, service, kept, kind, want, entry, own, todo,
                   found, history, spent,
                   scans, changes>>

\* History: a delete that goes by the cached claims may take the files of a
\* relisted torrent as they were heard.
TakeAsHeard(r) ==
    freeT' = [freeT EXCEPT ![r] = @ \cup (Key \ KnownOwned(ident, files))]

\* Mutant: any cached claims will do.
Identities_Trusting(r) ==
    /\ pc[r] = "identities"
    /\ \/ /\ claimsFP # None
          /\ own' = [own EXCEPT ![r] = claims]
          /\ TakeAsHeard(r)
          /\ Goto(r, "recheck")
       \/ /\ claimsFP = None
          /\ UNCHANGED <<own, freeT>>
          /\ Goto(r, "torrents")
    /\ UNCHANGED <<daemon, disk, service, kept, kind, want, entry, sess, todo,
                   found, freeD, same, spent, scans, changes>>

\* Mutant: on another answer, ask again instead of building the claims.
Identities_AskAgain(r) ==
    /\ pc[r] = "identities"
    /\ \/ /\ claimsFP = Fingerprint(sess[r], ident)
          /\ own' = [own EXCEPT ![r] = claims]
          /\ Goto(r, "recheck")
       \/ /\ claimsFP # Fingerprint(sess[r], ident)
          /\ own' = own
          /\ Goto(r, "session")
    /\ UNCHANGED <<daemon, disk, service, kept, kind, want, entry, sess, todo,
                   found, history, spent, scans, changes>>

\* freshClaims: rpc.identities, and the cached claims if they are for it.
Identities(r) ==
    /\ pc[r] = "identities"
    /\ \/ /\ claimsFP = Fingerprint(sess[r], ident)
          /\ own' = [own EXCEPT ![r] = claims]
          /\ TakeAsHeard(r)
          /\ Goto(r, "recheck")
       \/ /\ claimsFP # Fingerprint(sess[r], ident)
          /\ UNCHANGED <<own, freeT>>
          /\ Goto(r, "torrents")
    /\ UNCHANGED <<daemon, disk, service, kept, kind, want, entry, sess, todo,
                   found, freeD, same, spent, scans, changes>>

\* freshClaims: the cache is keyed by the fingerprint of the full answer, not
\* of the identities asked before it.
DeleteTorrents(r) ==
    /\ pc[r] = "torrents" /\ kind[r] = "delete"
    /\ own' = [own EXCEPT ![r] = Claims(sess[r], ident, files)]
    /\ claims' = Claims(sess[r], ident, files)
    /\ claimsFP' = Fingerprint(sess[r], ident)
    /\ heard' = [ident |-> ident, files |-> files]
    /\ Goto(r, "recheck")
    /\ UNCHANGED <<daemon, disk, opMu, result, kept, kind, want, entry, sess,
                   todo, found, history, spent,
                   scans, changes>>

\* What deleteData and deleteState refuse.  Only a data entry is measured
\* again.
Refused(r) ==
    \/ entry[r].key \in own[r]
    \/ entry[r].key \in Item /\ disk[entry[r].key] # entry[r].mark

Recheck(r) ==
    /\ pc[r] = "recheck" /\ ~Refused(r)
    /\ todo' = [todo EXCEPT ![r] = entry[r].mark]
    /\ Goto(r, "unlink")
    /\ UNCHANGED <<daemon, disk, service, kept, kind, want, entry, sess, own,
                   found, history, spent,
                   scans, changes>>

\* KeptError.
RecheckRefused(r) ==
    /\ pc[r] = "recheck" /\ Refused(r)
    /\ Return(r)
    /\ UNCHANGED <<daemon, disk, result, claims, claimsFP, heard, kept, spent,
                   scans, changes>>

\* What is left to remove: RemoveAll takes whatever it finds, deleteState the
\* files the scan listed.
Remaining(r) ==
    IF entry[r].key \in Item THEN disk[entry[r].key] ELSE todo[r]

UnlinkPiece(r, p) ==
    /\ pc[r] = "unlink" /\ p \in Remaining(r)
    /\ disk' = [disk EXCEPT ![entry[r].key] = @ \ {p}]
    /\ todo' = [todo EXCEPT ![r] = @ \ {p}]
    /\ UNCHANGED <<daemon, service, kept, pc, kind, want, entry, sess, own,
                   found, history, spent,
                   scans, changes>>

UnlinkDone(r) ==
    /\ pc[r] = "unlink" /\ Remaining(r) = {}
    /\ Goto(r, "forget")
    /\ UNCHANGED <<daemon, disk, service, kept, locals, history, spent,
                   scans, changes>>

\* Mutant: the entry stays in the result.
Forget_Left(r) ==
    /\ pc[r] = "forget"
    /\ result' = result
    /\ spent' = spent \cup {entry[r]}
    /\ Return(r)
    /\ UNCHANGED <<daemon, disk, claims, claimsFP, heard, kept, scans, changes>>

\* Delete takes the entry out of the current result and answers.
Forget(r) ==
    /\ pc[r] = "forget"
    /\ result' = IF result = None THEN None
                 ELSE [result EXCEPT !.byID = {e \in @ : e.key # entry[r].key}]
    /\ spent' = spent \cup {entry[r]}
    /\ Return(r)
    /\ UNCHANGED <<daemon, disk, claims, claimsFP, heard, kept, scans, changes>>

-----------------------------------------------------------------------------
ScanTorrents(r) ==
    /\ pc[r] = "torrents" /\ kind[r] = "scan"
    /\ own' = [own EXCEPT ![r] = Claims(sess[r], ident, files)]
    /\ todo' = [todo EXCEPT ![r] = Key]
    /\ Goto(r, "walk")
    /\ UNCHANGED <<daemon, disk, service, kept, kind, want, entry, sess, found,
                   history, spent,
                   scans, changes>>

\* walker.visit and scanState look at one key; a data path that cannot be
\* read is skipped with a warning.
Walk(r, k) ==
    /\ pc[r] = "walk" /\ k \in todo[r]
    /\ todo' = [todo EXCEPT ![r] = @ \ {k}]
    /\ \/ /\ k \notin own[r] /\ disk[k] # {}
          /\ found' = [found EXCEPT ![r] = @ \cup {[key |-> k, mark |-> disk[k]]}]
       \/ /\ k \in own[r] \/ disk[k] = {} \/ k \in Item
          /\ found' = found
    /\ UNCHANGED <<daemon, disk, service, kept, pc, kind, want, entry, sess,
                   own, history, spent,
                   scans, changes>>

\* loadKept under keepMu: an unreadable list hides nothing.
LoadKept(r) ==
    /\ pc[r] = "walk" /\ todo[r] = {}
    /\ found' = [found EXCEPT ![r] = IF kept = Unreadable THEN @ ELSE @ \ kept]
    /\ freeT' = [freeT EXCEPT ![r] = FreeOfTorrents(ident, files)]
    /\ Goto(r, "again")
    /\ UNCHANGED <<daemon, disk, service, kept, kind, want, entry, sess, own,
                   todo, freeD, same, spent, scans, changes>>

\* Mutant: the second answer is not used.
Again_Unfiltered(r) ==
    /\ pc[r] = "again"
    /\ Goto(r, "publish")
    /\ UNCHANGED <<daemon, disk, service, kept, locals, history, spent, scans,
                   changes>>

\* The second torrents call: what the daemon owns now is not offered.
Again(r) ==
    /\ pc[r] = "again"
    /\ found' = [found EXCEPT ![r] =
                   {e \in @ : e.key \notin Claims(sess[r], ident, files)}]
    /\ Goto(r, "publish")
    /\ UNCHANGED <<daemon, disk, service, kept, kind, want, entry, sess, own,
                   todo, history, spent,
                   scans, changes>>

Publish(r) ==
    /\ pc[r] = "publish"
    /\ result' = [id |-> scans + 1, byID |-> found[r], live |-> TRUE]
    /\ scans' = scans + 1
    /\ spent' = {}
    /\ Return(r)
    /\ UNCHANGED <<daemon, disk, claims, claimsFP, heard, kept, changes>>

\* An RPC call or a file operation fails, the config folder is not the
\* daemon's, or the browser went away: the error is answered.
Fail(r) ==
    /\ pc[r] \in {"session", "identities", "torrents", "walk", "again",
                  "recheck", "unlink"}
    /\ Return(r)
    /\ UNCHANGED <<daemon, disk, result, claims, claimsFP, heard, kept, spent,
                   scans, changes>>

-----------------------------------------------------------------------------
(* The rest of the Service: decisions, the result's age, a restart.        *)

Change == changes < MaxChanges /\ changes' = changes + 1

\* Keep and Unkeep refuse while the list cannot be read; their locking is
\* KeepList's subject and they are one step here.
Keep(n, e) ==
    /\ HasEntry(n, e) /\ kept # Unreadable /\ Change
    /\ kept' = {x \in kept : x.key # e.key} \cup {e}
    /\ UNCHANGED <<daemon, disk, service, pc, locals, history, spent, scans>>

Unkeep(n, e) ==
    /\ HasEntry(n, e) /\ kept # Unreadable /\ Change
    /\ kept' = {x \in kept : x.key # e.key}
    /\ UNCHANGED <<daemon, disk, service, pc, locals, history, spent, scans>>

ForgetKept ==
    /\ Change
    /\ kept' = {}
    /\ UNCHANGED <<daemon, disk, service, pc, locals, history, spent, scans>>

\* resultTTL passes.
Expire ==
    /\ result # None /\ result.live
    /\ result' = [result EXCEPT !.live = FALSE]
    /\ UNCHANGED <<daemon, disk, opMu, claims, claimsFP, heard, kept, pc, locals,
                   history, spent,
                   scans, changes>>

\* The backend dies and starts again: New() has no result and no claims; the
\* Keep list is on the disk.
Restart ==
    /\ Change
    /\ opMu' = None /\ result' = None /\ claims' = {} /\ claimsFP' = None
    /\ heard' = NoAnswer
    /\ pc'    = [r \in Req |-> "idle"]
    /\ want'  = [r \in Req |-> None]
    /\ entry' = [r \in Req |-> None]
    /\ sess'  = [r \in Req |-> None]
    /\ own'   = [r \in Req |-> {}]
    /\ todo'  = [r \in Req |-> {}]
    /\ found' = [r \in Req |-> {}]
    /\ freeT' = [r \in Req |-> {}]
    /\ freeD' = [r \in Req |-> {}]
    /\ same'  = [r \in Req |-> FALSE]
    /\ kind'  = [r \in Req |-> "scan"]
    /\ spent' = {}
    /\ UNCHANGED <<daemon, disk, kept, scans>>

-----------------------------------------------------------------------------
(* The daemon and the disk (external), as the Service's code expects them. *)

\* A torrent is added, with its files or as a magnet, and the daemon writes
\* its state files.
AddTorrent(t, p, f) ==
    /\ Change /\ ident[t] = NotLoaded /\ nextId <= MaxId
    /\ ident' = [ident EXCEPT ![t] = [id |-> nextId, place |-> p]]
    /\ files' = [files EXCEPT ![t] = f]
    /\ nextId' = nextId + 1
    /\ disk' = [disk EXCEPT ![t] = Piece]
    /\ UNCHANGED <<dirs, service, kept, pc, locals, spent, scans>>
    /\ Watch

\* A torrent is removed without its data; its state files may stay behind.
RemoveTorrent(t, left) ==
    /\ Change /\ ident[t] # NotLoaded
    /\ ident' = [ident EXCEPT ![t] = NotLoaded]
    /\ files' = [files EXCEPT ![t] = {}]
    /\ disk' = [disk EXCEPT ![t] = left]
    /\ UNCHANGED <<dirs, nextId, service, kept, pc, locals, spent, scans>>
    /\ Watch

\* A torrent is moved or its top folder renamed: another place.
MoveTorrent(t, p) ==
    /\ Change /\ ident[t] # NotLoaded /\ ident[t].place # p
    /\ ident' = [ident EXCEPT ![t].place = p]
    /\ files' = [files EXCEPT ![t] = IF @ = None THEN None ELSE Layout[t][p]]
    /\ UNCHANGED <<dirs, nextId, disk, service, kept, pc, locals, spent,
                   scans>>
    /\ Watch

\* A magnet gets its metadata and with it its files.  Its name may become the
\* one the metadata has, and may have been that one all along (dn=).
LearnFiles(t, p) ==
    /\ Change /\ ident[t] # NotLoaded /\ files[t] = None
    /\ ident' = [ident EXCEPT ![t].place = p]
    /\ files' = [files EXCEPT ![t] = Layout[t][p]]
    /\ UNCHANGED <<dirs, nextId, disk, service, kept, pc, locals, spent,
                   scans>>
    /\ Watch

\* torrent_rename_path on a path inside the torrent: its files change, its
\* id, name and download_dir do not.
RenameInner(t, f) ==
    /\ Change /\ ident[t] # NotLoaded /\ files[t] # None /\ files[t] # f
    /\ files' = [files EXCEPT ![t] = f]
    /\ UNCHANGED <<dirs, ident, nextId, disk, service, kept, pc, locals, spent,
                   scans>>
    /\ Watch

\* session_set of download_dir or incomplete_dir.
SetDirs(d) ==
    /\ Change /\ dirs # d
    /\ dirs' = d
    /\ UNCHANGED <<ident, files, nextId, disk, service, kept, pc, locals, spent,
                   scans>>
    /\ Watch

\* The daemon restarts and numbers its torrents again.
DaemonRestart(n) ==
    /\ Change
    /\ \A t \in Loaded(ident) : n[t] <= Cardinality(Loaded(ident))
    /\ \A t, u \in Loaded(ident) : t # u => n[t] # n[u]
    /\ nextId' = Cardinality(Loaded(ident)) + 1
    /\ ident' = [t \in Torrent |-> IF ident[t] = NotLoaded THEN NotLoaded
                                   ELSE [ident[t] EXCEPT !.id = n[t]]]
    /\ UNCHANGED <<dirs, files, disk, service, kept, pc, locals,
                   history, spent, scans>>

\* Somebody writes to or deletes from a data folder.
DiskChange(k, content) ==
    /\ Change /\ disk[k] # content
    /\ disk' = [disk EXCEPT ![k] = content]
    /\ UNCHANGED <<daemon, service, kept, pc, locals, spent, scans>>
    /\ Watch

-----------------------------------------------------------------------------
DeleteStep(r) ==
    \/ LookupFound(r) \/ LookupRefused(r) \/ Identities(r)
    \/ DeleteTorrents(r) \/ Recheck(r) \/ RecheckRefused(r)
    \/ \E p \in Piece : UnlinkPiece(r, p)
    \/ UnlinkDone(r) \/ Forget(r)

ScanStep(r) ==
    \/ ScanTorrents(r) \/ (\E k \in Key : Walk(r, k)) \/ LoadKept(r)
    \/ Again(r) \/ Publish(r)

Handler(r) == Session(r) \/ DeleteStep(r) \/ ScanStep(r) \/ Fail(r)

Call(r) ==
    \/ StartScan(r)
    \/ \E n \in 1..scans, k \in Key : StartDelete(r, n, k)

Decide ==
    \/ \E n \in 1..scans, e \in Entry : Keep(n, e) \/ Unkeep(n, e)
    \/ ForgetKept

Daemon ==
    \/ \E t \in Torrent, p \in Place :
         \/ \E f \in {None, Layout[t][p]} : AddTorrent(t, p, f)
         \/ MoveTorrent(t, p) \/ LearnFiles(t, p)
    \/ \E t \in Torrent : \E left \in {{}, disk[t]} : RemoveTorrent(t, left)
    \/ \E t \in Torrent, f \in SUBSET Item : RenameInner(t, f)
    \/ \E d \in Dirs : SetDirs(d)
    \/ \E n \in [Torrent -> 1..MaxId] : DaemonRestart(n)

Disk == \E k \in Item, content \in SUBSET Piece : DiskChange(k, content)

Next ==
    \/ \E r \in Req : Call(r) \/ Handler(r)
    \/ Decide \/ Expire \/ Restart \/ Daemon \/ Disk

Spec == Init /\ [][Next]_vars

\* A handler goes on until it answers: every RPC call is answered or fails
\* (or the browser closes the request), and the folders are finite.
Fairness == \A r \in Req : WF_vars(Handler(r))

FairSpec == Spec /\ Fairness

-----------------------------------------------------------------------------
Identities_ == [Torrent -> Ident \cup {NotLoaded}]
Files       == [Torrent -> {None} \cup SUBSET Item]

\* Every variable has its type.
TypeOK ==
    /\ dirs \in Dirs
    /\ ident \in Identities_
    /\ files \in Files
    /\ nextId \in Nat \ {0}
    /\ disk \in [Key -> SUBSET Piece]
    /\ opMu \in Req \cup {None}
    /\ result \in [id : Nat, byID : SUBSET Entry, live : BOOLEAN] \cup {None}
    /\ claims \in SUBSET Key
    /\ claimsFP \in (Dirs \X Identities_) \cup {None}
    /\ heard \in [ident : Identities_, files : Files]
    /\ kept \in (SUBSET Entry) \cup {Unreadable}
    /\ pc \in [Req -> {"idle"} \cup ScanPC \cup DelPC]
    /\ kind \in [Req -> Ops]
    /\ want \in [Req -> [scan : Nat, key : Key] \cup {None}]
    /\ entry \in [Req -> Entry \cup {None}]
    /\ sess \in [Req -> Dirs \cup {None}]
    /\ own \in [Req -> SUBSET Key]
    /\ todo \in [Req -> SUBSET (Key \cup Piece)]
    /\ found \in [Req -> SUBSET Entry]
    /\ freeT \in [Req -> SUBSET Key] /\ freeD \in [Req -> SUBSET Key]
    /\ same \in [Req -> BOOLEAN]
    /\ spent \in SUBSET Entry
    /\ scans \in Nat /\ changes \in Nat

\* opMu is held by exactly the request that is between its TryLock and its
\* answer, whichever way it leaves (service.go:62, "held for a whole scan or
\* delete").
OneOperation == \A r \in Req : pc[r] # "idle" <=> opMu = r

\* The state is of its type and its lock says who holds it.
Consistent == TypeOK /\ OneOperation

\* From the lookup to the answer, the scan a delete was asked for is the
\* current one and still offers the entry: no scan publishes in between, and
\* the delete that ends takes its id out of the right result.
ResultPinned ==
    \A r \in Req : kind[r] = "delete" /\ pc[r] \in HoldPC =>
        /\ result # None /\ result.id = want[r].scan
        /\ entry[r] \in result.byID /\ entry[r].key = want[r].key

\* Whenever the next delete would reuse the cached claims, they hold the
\* daemon's folders, every loaded torrent and its files, but for a torrent
\* whose files changed behind the very identity they were heard with.  It
\* rests on the cache being keyed by the full answer, on the fingerprint
\* telling one torrent and place from another, and on no older claims.
CacheSound ==
    claimsFP = Fingerprint(dirs, ident)
        => Structural[dirs] \cup KnownOwned(ident, files) \subseteq claims

\* "asks the daemon what it owns right now, for every single delete: a torrent
\* re-added a moment ago must win over the scan" (service.go:399-400): claims
\* that the next delete would reuse are what the daemon owns.  They are not
\* after a path inside a torrent was renamed, or a magnet got its file list
\* under the name it had.
CacheFresh ==
    claimsFP = Fingerprint(dirs, ident)
        => claims = Claims(dirs, ident, files)

\* A delete unlinks only what, at some instant after it was asked, no torrent
\* owned and no folder of the daemon was; a data path also held at some such
\* instant exactly what the scan saw.  By cached claims, the files of a
\* relisted torrent count as they were heard.  (The time between the last
\* check and the unlink is not covered: nothing stops a torrent from being
\* added there.)
UnlinkJustified ==
    \A r \in Req : pc[r] = "unlink" =>
        /\ entry[r].key \in freeT[r] \cap freeD[r]
        /\ entry[r].key \in Item => same[r]

\* "it must be what the scan saw" (service.go:366-368), for every entry.
DeleteMatchesScan == \A r \in Req : pc[r] = "unlink" => same[r]

\* A scan offers nothing that a torrent owned the whole time since the walk
\* ended, however the torrents changed while the disk was being walked.
OfferedAfterWalk ==
    \A r \in Req : pc[r] = "publish" =>
        \A e \in found[r] : e.key \in freeT[r] \cap freeD[r]

\* A delete that was carried out spends the entry: the same scan id and entry
\* id never lead to a second one, so a path somebody creates there later,
\* alike to the second, is not deleted on the old scan's word.
DeletedOnce ==
    \A r \in Req : kind[r] = "delete" /\ pc[r] \in HoldPC =>
        entry[r] \notin spent

\* Every scan and delete is answered, so the lock is never left behind.
EveryRequestEnds == \A r \in Req : pc[r] # "idle" ~> pc[r] = "idle"
=============================================================================

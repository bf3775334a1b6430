---------------------------- MODULE OrphanClaims ----------------------------
(***************************************************************************)
(* What the daemon owns on the disk, and what a scan finds that it does    *)
(* not: newClaims and owner (claims.go), walker.visit (scan.go) and the    *)
(* two halves of Service.Scan around the walk, while torrents come and go  *)
(* and files are written and removed.  OrphanService has the rest of the   *)
(* operation, with Owner as its set Claims.                                *)
(*                                                                         *)
(* A path is a sequence of names.  The daemon's are absolute; a PLACE is a *)
(* root and a path below it.  The order in which a folder is listed, and   *)
(* folders are visited, is any order.                                      *)
(***************************************************************************)
EXTENDS Naturals, FiniteSets, SequencesExt

CONSTANTS
    Name,       \* names, as they are spelled
    Nfc,        \* Nfc[n]: n in normal form
    Part,       \* Part[n]: n with .part behind it, for the names of files
    Skip,       \* housekeeping: lost+found, @eaDir and the like
    Root,
    Mount,      \* Mount[r]: the daemon's path of root r
    Local,      \* Local[r]: this container's path of root r
    Visible,    \* folders outside the roots that this container can see
    Session,    \* the folders a session may have
    Torrent,    \* torrents the daemon may have
    Tree,       \* contents a root may have: the kind of each path that exists
    None,
    MaxLoaded,  \* bound: torrents at a time
    MaxChanges, \* bound: changes of the torrents and of the disk
    MaxErrors   \* bound: paths that cannot be read

Path == Seq(Name)

ASSUME ClaimsAssumption ==
    /\ Nfc \in [Name -> Name] /\ \A n \in Name : Nfc[Nfc[n]] = Nfc[n]
    /\ DOMAIN Part \subseteq Name /\ \A n \in DOMAIN Part : Part[n] \in Name
    /\ Skip \subseteq Name
    /\ Mount \in [Root -> Path] /\ Local \in [Root -> Path]
    /\ Visible \subseteq Path
    /\ \A s \in Session : s.download \in Path /\ s.incomplete \in Path \cup {None}
    /\ \A t \in Torrent : /\ t.dir \in Path /\ t.name \in Name
                          /\ \A f \in t.files : f \in Path /\ f # <<>>
                                                /\ Last(f) \in DOMAIN Part
    /\ None \notin Path
    /\ \A D \in Tree : \A p \in DOMAIN D :
          /\ p \in Path /\ p # <<>> /\ D[p] \in {"dir", "file", "symlink"}
          /\ \A n \in 1..(Len(p) - 1) : /\ SubSeq(p, 1, n) \in DOMAIN D
                                       /\ D[SubSeq(p, 1, n)] = "dir"
    /\ MaxLoaded \in Nat /\ MaxChanges \in Nat /\ MaxErrors \in Nat

\* within of claims.go and mounts.go: p is q or below it.
Within(p, q) == IsPrefix(q, p)

\* config.loadMounts: neither at the daemon nor here is a root inside another
\* one, or the root folder, for the config folder would be inside it.
ASSUME MountsAssumption ==
    \A side \in {Mount, Local} :
        /\ \A r \in Root : side[r] # <<>>
        /\ \A q, r \in Root : q # r => ~Within(side[q], side[r])

VARIABLES
    session, loaded,   \* the daemon
    disk,              \* disk[r], the content of root r
    pc,
    heard,             \* the torrents of the last answer
    claims,            \* newClaims of that answer
    folders, listed,   \* the walk: folders to read, listing entries to look at
    out,               \* the entries found
    warned,            \* what could not be read
    changes

vars == <<session, loaded, disk, pc, heard, claims, folders, listed, out,
          warned, changes>>

-----------------------------------------------------------------------------
(* newClaims.                                                              *)

Norm(p) == [i \in DOMAIN p |-> Nfc[p[i]]]

\* locate: the place of a daemon's path, if it is in a root.
Located(p) ==
    {[root |-> r, rel |-> Norm(SubSeq(p, Len(Mount[r]) + 1, Len(p)))] :
        r \in {q \in Root : Within(p, Mount[q])}}

\* Mutant: the loop goes on to the root.
AtOrAbove_Root(x) == {[x EXCEPT !.rel = SubSeq(@, 1, n)] : n \in 0..Len(x.rel)}

\* The folders at or above a place, but for the root; and those above it.
AtOrAbove(x) == {[x EXCEPT !.rel = SubSeq(@, 1, n)] : n \in 1..Len(x.rel)}
Above(x) == AtOrAbove(x) \ {x}

\* The folders that torrent t's data may be in.
Bases(s, t) == {t.dir} \cup ({s.incomplete} \ {None})

\* Mutant: a file that is being downloaded has its final name.
Spellings_Final(f) == {f}

\* A file has its final name, or .part behind it.
Spellings(f) == {f, Append(Front(f), Part[Last(f)])}

\* Where torrent t may have its data below base b: its files, or, while they
\* are not known, whatever has its name.
DataIn(t, b) ==
    IF t.files = {} THEN {Append(b, t.name)}
    ELSE UNION {{b \o g : g \in Spellings(f)} : f \in t.files}

DataAt(t, b) == {x \in UNION {Located(p) : p \in DataIn(t, b)} : x.rel # <<>>}

\* The folders of the daemon itself.
Structural(s, T) ==
    {s.download} \cup ({s.incomplete} \ {None}) \cup {t.dir : t \in T}

NewClaims(s, T) ==
    LET Data(U) == UNION {UNION {DataAt(t, b) : b \in Bases(s, t)} : t \in U}
    IN  [files   |-> Data({t \in T : t.files # {}}),
         whole   |-> Data({t \in T : t.files = {}}),
         descend |-> (UNION {Above(x) : x \in Data(T)})
                       \cup (UNION {UNION {AtOrAbove(x) : x \in Located(p)} :
                                      p \in Structural(s, T)})]

WholeOwner(c, x) == AtOrAbove(x) \cap c.whole # {}

\* owner: x, or anything below it, is a torrent's or a folder of the daemon.
Owner(c, x) == x \in c.files \/ WholeOwner(c, x) \/ x \in c.descend

-----------------------------------------------------------------------------
(* Service.Scan and walker.visit.                                          *)

Init ==
    /\ session \in Session
    /\ loaded \in {T \in SUBSET Torrent : Cardinality(T) <= MaxLoaded}
    /\ disk \in [Root -> Tree]
    /\ pc = "start" /\ heard = {} /\ claims = NewClaims(session, {})
    /\ folders = {} /\ listed = {} /\ out = {}
    /\ warned = {} /\ changes = 0

\* underMappedLocal: the daemon's path p, read as a path here, is in a root
\* that has another name here, so what is seen there is some other folder.
UnderMappedLocal(p) == \E r \in Root : Mount[r] # Local[r] /\ Within(p, Local[r])

\* The container sees t's folder, which is in no root: the same storage may be
\* in one under another name.  What it does not see, and what it sees where a
\* root is mounted, it only warns of.
Refused(t) ==
    Located(t.dir) = {} /\ t.dir \in Visible /\ ~UnderMappedLocal(t.dir)

\* The daemon answers, and the walk begins in every root.
Begin ==
    /\ pc = "start"
    /\ ~\E t \in loaded : Refused(t)
    /\ heard' = loaded
    /\ claims' = NewClaims(session, loaded)
    /\ folders' = [root : Root, rel : {<<>>}]
    /\ pc' = "walk"
    /\ UNCHANGED <<session, loaded, disk, listed, out, warned, changes>>

\* visit reads folder x, a path as the disk spells it; one that has gone is
\* empty.
Visit(x) ==
    /\ pc = "walk" /\ x \in folders
    /\ folders' = folders \ {x}
    /\ LET D == disk[x.root]
           children == {p \in DOMAIN D : Front(p) = x.rel /\ Last(p) \notin Skip}
       IN  listed' = listed \cup
               {[root |-> x.root, rel |-> p, dir |-> D[p] = "dir"] : p \in children}
    /\ UNCHANGED <<session, loaded, disk, pc, heard, claims, out, warned, changes>>

\* Mutant: a folder has content if it has a file directly in it.
HasFile_Shallow(D, p) ==
    \E q \in DOMAIN D : Front(q) = p /\ D[q] # "dir"

\* summarize counts the files at any depth.
HasFile(D, p) == \E q \in DOMAIN D : Within(q, p) /\ q # p /\ D[q] # "dir"

\* A folder on the way to something claimed is visited.
Descends(e, key) ==
    ~WholeOwner(claims, key) /\ e.dir /\ key \in claims.descend

\* Anything else that is not claimed is measured,
Unclaimed(e, key) ==
    /\ ~WholeOwner(claims, key) /\ ~Descends(e, key)
    /\ ~e.dir => key \notin claims.files

\* and offered, unless it has gone since it was listed, or is a folder with no
\* file in it.
Offered(e, x, key) ==
    LET D == disk[x.root]
    IN  /\ Unclaimed(e, key)
        /\ x.rel \in DOMAIN D
        /\ e.dir /\ D[x.rel] = "dir" => HasFile(D, x.rel)

\* Mutant: an unclaimed folder is offered, and what is in it as well.
Look_Twice(e) ==
    /\ pc = "walk" /\ e \in listed
    /\ listed' = listed \ {e}
    /\ LET x   == [root |-> e.root, rel |-> e.rel]
           key == [x EXCEPT !.rel = Norm(@)]
       IN  /\ folders' = IF e.dir /\ ~WholeOwner(claims, key)
                         THEN folders \cup {x} ELSE folders
           /\ out' = IF Offered(e, x, key) THEN out \cup {x} ELSE out
    /\ UNCHANGED <<session, loaded, disk, pc, heard, claims, warned, changes>>

\* visit looks at one entry of a listing.
Look(e) ==
    /\ pc = "walk" /\ e \in listed
    /\ listed' = listed \ {e}
    /\ LET x   == [root |-> e.root, rel |-> e.rel]
           key == [x EXCEPT !.rel = Norm(@)]
       IN  /\ folders' = IF Descends(e, key) THEN folders \cup {x} ELSE folders
           /\ out' = IF Offered(e, x, key) THEN out \cup {x} ELSE out
    /\ UNCHANGED <<session, loaded, disk, pc, heard, claims, warned, changes>>

\* What cannot be read is skipped with a warning: a folder (if it is a root,
\* the scan fails), or something at or below an entry that is measured.
Skipped(x) == Cardinality(warned) < MaxErrors /\ warned' = warned \cup {x}

SkipFolder(x) ==
    /\ pc = "walk" /\ x \in folders /\ x.rel # <<>>
    /\ folders' = folders \ {x}
    /\ Skipped(x)
    /\ UNCHANGED <<session, loaded, disk, pc, heard, claims, listed, out, changes>>

SkipEntry(e) ==
    /\ pc = "walk" /\ e \in listed
    /\ LET x == [root |-> e.root, rel |-> e.rel]
       IN  Unclaimed(e, [x EXCEPT !.rel = Norm(@)]) /\ Skipped(x)
    /\ listed' = listed \ {e}
    /\ UNCHANGED <<session, loaded, disk, pc, heard, claims, folders, out, changes>>

\* The walk is over and the daemon is asked again: what it owns now is taken
\* out.
Again ==
    /\ pc = "walk" /\ folders = {} /\ listed = {}
    /\ pc' = "done"
    /\ heard' = loaded
    /\ claims' = NewClaims(session, loaded)
    /\ out' = {e \in out : ~Owner(claims', [e EXCEPT !.rel = Norm(@)])}
    /\ UNCHANGED <<session, loaded, disk, folders, listed, warned, changes>>

-----------------------------------------------------------------------------
(* The daemon and the disk (external).                                     *)

Change == pc # "done" /\ changes < MaxChanges /\ changes' = changes + 1

\* Torrents are added, removed, moved, or get to know their files.
TorrentsChange(T) ==
    /\ Change
    /\ T # loaded /\ Cardinality(T) <= MaxLoaded
    /\ loaded' = T
    /\ UNCHANGED <<session, disk, pc, heard, claims, folders, listed, out,
                   warned>>

\* Something at or below p is created, removed or replaced.
DiskChanges(r, p, D) ==
    /\ Change
    /\ D # disk[r]
    /\ \A q \in DOMAIN D \cup DOMAIN disk[r] :
           ~Within(q, p) => q \in DOMAIN D \cap DOMAIN disk[r] /\ D[q] = disk[r][q]
    /\ disk' = [disk EXCEPT ![r] = D]
    /\ UNCHANGED <<session, loaded, pc, heard, claims, folders, listed, out,
                   warned>>

Next ==
    \/ Begin \/ Again
    \/ \E x \in folders : Visit(x) \/ SkipFolder(x)
    \/ \E e \in listed : Look(e) \/ SkipEntry(e)
    \/ \E T \in SUBSET Torrent : TorrentsChange(T)
    \/ \E r \in Root, D \in Tree : \E p \in DOMAIN D \cup DOMAIN disk[r] :
           DiskChanges(r, p, D)

Spec == Init /\ [][Next]_vars

-----------------------------------------------------------------------------
Places == [root : Root, rel : Path]
Proper == {x \in Places : x.rel # <<>>}   \* all but the roots
Entry  == [root : Root, rel : Path \ {<<>>}, dir : BOOLEAN]

\* Every variable has its type.
TypeOK ==
    /\ session \in Session /\ loaded \in SUBSET Torrent
    /\ disk \in [Root -> Tree]
    /\ pc \in {"start", "walk", "done"}
    /\ heard \in SUBSET Torrent
    /\ claims \in [files : SUBSET Proper, whole : SUBSET Proper,
                   descend : SUBSET Proper]
    /\ folders \subseteq Places /\ out \subseteq Proper /\ warned \subseteq Proper
    /\ listed \subseteq Entry
    /\ changes \in 0..MaxChanges

\* The daemon's path p names place x or something below it.
AtOrBelow(p, x) ==
    \E y \in Located(p) : y.root = x.root /\ Within(y.rel, Norm(x.rel))

\* ... or x is below it.
Below(x, p) ==
    \E y \in Located(p) : /\ y.root = x.root /\ y.rel # <<>>
                           /\ Within(Norm(x.rel), y.rel)

\* Where the daemon may have data of torrents T: in the download folder or
\* the incomplete one, whole or as a .part.
Homes(t) == {d \in {t.dir, session.incomplete} : d # None}
AnyOf(t, b) ==
    {b \o f : f \in t.files} \cup {Append(b \o Front(f), Part[Last(f)]) : f \in t.files}
      \cup {Append(b, n) : n \in IF t.files = {} THEN {t.name} ELSE {}}
Data(T) == UNION {UNION {AnyOf(t, b) : b \in Homes(t)} : t \in T}

\* A scan offers nothing that is, or holds, what a torrent of the daemon's
\* last answer may have on the disk (under its final name, as a .part, in the
\* incomplete folder, in another spelling) or a folder of the daemon, and
\* nothing in the folder of a torrent whose files are not known.
NothingOwned ==
    pc = "done" => \A x \in out :
        /\ ~\E p \in Data(heard) \cup Structural(session, heard) : AtOrBelow(p, x)
        /\ ~\E p \in Data({t \in heard : t.files = {}}) : Below(x, p)

\* No entry is inside another one, whatever is moved while the disk is walked:
\* to delete one leaves the others as they were shown, and no file is counted
\* twice.
TopMost == \A x, y \in out : x.root = y.root /\ Within(x.rel, y.rel) => x = y

\* Nothing is missed: if nothing changes, every file that is not housekeeping
\* is offered, in an entry at or above it, unless the daemon uses its path,
\* or one above or below it, or there is a warning.
Complete ==
    pc = "done" /\ changes = 0 =>
        \A r \in Root : \A p \in {q \in DOMAIN disk[r] : disk[r][q] # "dir"} :
            LET x == [root |-> r, rel |-> p]
            IN  \/ \E i \in DOMAIN p : p[i] \in Skip
                \/ \E u \in Data(heard) \cup Structural(session, heard) : AtOrBelow(u, x)
                \/ \E u \in Data(heard) : Below(x, u)
                \/ \E y \in out \cup warned : y.root = r /\ Within(p, y.rel)
=============================================================================

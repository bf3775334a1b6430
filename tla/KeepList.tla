------------------------------ MODULE KeepList ------------------------------
(***************************************************************************)
(* The remembered Keeps as backend/internal/orphans keeps them: Keep,      *)
(* Unkeep, ForgetKept and the readers Status and Scan (service.go), each a *)
(* load and a save of one JSON file (keep.go) under keepMu, while other    *)
(* requests run, file operations fail, and the backend dies in between.    *)
(*                                                                         *)
(* The file is the set of its records; an absent file is the empty list,   *)
(* as loadKept reads it.  A file cut short by a crash does not parse.      *)
(***************************************************************************)
EXTENDS Naturals

CONSTANTS
    Client,      \* requests that can be in flight together
    Kept,        \* records that can be on the list: a path, and its stamp (the
                 \* size, files and newest mtime it had when it was decided on)
    Unreadable,  \* a list file that does not parse
    None,
    MaxFaults    \* bound: crashes of the backend and damages to the file

ASSUME KeepAssumption ==
    /\ MaxFaults \in Nat
    /\ None \notin Client

VARIABLES
    file,      \* transmission-ui-kept.json
    tmp,       \* transmission-ui-kept.json.tmp
    keepMu,    \* who is in withState
    pc, op,    \* a request's step, and what it was asked
    new,       \* its local: the list it is about to save
    ok, seen,  \* its answer: done or an error, and the list a reader shows
    crashes, damages  \* faults so far

vars == <<file, tmp, keepMu, pc, op, new, ok, seen, crashes,
          damages>>

Lists == SUBSET Kept
Op    == [do : {"keep", "unkeep"}, of : Kept]
            \cup [do : {"forget", "read"}, of : {None}]

\* The steps inside withState.
Critical == {"load", "remove", "write", "writing", "rename", "unlock"}

Init ==
    /\ file \in Lists \cup {Unreadable}
    /\ tmp \in {None, Unreadable}
    /\ keepMu = None
    /\ pc = [c \in Client |-> "idle"]
    /\ op = [c \in Client |-> None]
    /\ new = [c \in Client |-> {}]
    /\ ok = [c \in Client |-> FALSE]
    /\ seen = [c \in Client |-> {}]
    /\ crashes = 0 /\ damages = 0

-----------------------------------------------------------------------------
Goto(c, step) == pc' = [pc EXCEPT ![c] = step]

\* slices.DeleteFunc on the path, whatever its stamp.
Without(l, p) == {k \in l : k.path # p}

\* What Keep and Unkeep make of the list they loaded.
Edit(o, l) == IF o.do = "keep" THEN Without(l, o.of.path) \cup {o.of}
              ELSE Without(l, o.of.path)

\* A request arrives.  Keep and Unkeep look their entry up first.
Ask(c, o) ==
    /\ pc[c] = "idle"
    /\ op' = [op EXCEPT ![c] = o]
    /\ Goto(c, IF o.do \in {"keep", "unkeep"} THEN "entry" ELSE "lock")
    /\ UNCHANGED <<file, tmp, keepMu, new, ok, seen, crashes,
                   damages>>

\* Service.entry, outside keepMu: the scan may have expired, been replaced,
\* or no longer offer the entry (OrphanService has the scan).
LookUp(c) ==
    /\ pc[c] = "entry"
    /\ Goto(c, "lock") \/ Goto(c, "answered")
    /\ UNCHANGED <<file, tmp, keepMu, op, new, ok, seen, crashes,
                   damages>>

\* Mutant: withState without its mutex.
Lock_NoMutex(c) ==
    /\ pc[c] = "lock"
    /\ keepMu' = c
    /\ Goto(c, IF op[c].do = "forget" THEN "remove" ELSE "load")
    /\ UNCHANGED <<file, tmp, op, new, ok, seen, crashes, damages>>

\* keepMu.Lock().  Forget all saves without loading.
Lock(c) ==
    /\ pc[c] = "lock" /\ keepMu = None
    /\ keepMu' = c
    /\ Goto(c, IF op[c].do = "forget" THEN "remove" ELSE "load")
    /\ UNCHANGED <<file, tmp, op, new, ok, seen, crashes,
                   damages>>

\* Status and Scan load the list; one that does not parse is shown as such.
Read(c) ==
    /\ pc[c] = "load" /\ op[c].do = "read"
    /\ ok' = [ok EXCEPT ![c] = TRUE]
    /\ seen' = [seen EXCEPT ![c] = file]
    /\ Goto(c, "unlock")
    /\ UNCHANGED <<file, tmp, keepMu, op, new, crashes,
                   damages>>

\* Keep and Unkeep load it and work out the new list.
Load(c) ==
    /\ pc[c] = "load" /\ op[c].do \in {"keep", "unkeep"}
    /\ file # Unreadable
    /\ new' = [new EXCEPT ![c] = Edit(op[c], file)]
    /\ Goto(c, IF new'[c] = {} THEN "remove" ELSE "write")
    /\ UNCHANGED <<file, tmp, keepMu, op, ok, seen, crashes,
                   damages>>

\* Mutant: the refusal returns without unlocking.
LoadRefused_Locked(c) ==
    /\ pc[c] = "load" /\ op[c].do \in {"keep", "unkeep"}
    /\ file = Unreadable
    /\ Goto(c, "answered")
    /\ UNCHANGED <<file, tmp, keepMu, op, new, ok, seen, crashes, damages>>

\* errKeptLocked.
LoadRefused(c) ==
    /\ pc[c] = "load" /\ op[c].do \in {"keep", "unkeep"}
    /\ file = Unreadable
    /\ Goto(c, "unlock")
    /\ UNCHANGED <<file, tmp, keepMu, op, new, ok, seen, crashes,
                   damages>>

\* saveKept of an empty list.
Remove(c) ==
    /\ pc[c] = "remove"
    /\ file' = {}
    /\ ok' = [ok EXCEPT ![c] = TRUE]
    /\ Goto(c, "unlock")
    /\ UNCHANGED <<tmp, keepMu, op, new, seen, crashes,
                   damages>>

\* Mutant: the list is written in place.
Write_InPlace(c) ==
    /\ pc[c] = "write"
    /\ tmp' = Unreadable /\ file' = Unreadable
    /\ Goto(c, "writing")
    /\ UNCHANGED <<keepMu, op, new, ok, seen, crashes, damages>>

\* saveKept: WriteFile truncates the temporary file, then fills it.
Write(c) ==
    /\ pc[c] = "write"
    /\ tmp' = Unreadable
    /\ Goto(c, "writing")
    /\ UNCHANGED <<file, keepMu, op, new, ok, seen, crashes,
                   damages>>

Written(c) ==
    /\ pc[c] = "writing"
    /\ tmp' = new[c]
    /\ Goto(c, "rename")
    /\ UNCHANGED <<file, keepMu, op, new, ok, seen, crashes,
                   damages>>

Rename(c) ==
    /\ pc[c] = "rename"
    /\ file' = tmp
    /\ tmp' = None
    /\ ok' = [ok EXCEPT ![c] = TRUE]
    /\ Goto(c, "unlock")
    /\ UNCHANGED <<keepMu, op, new, seen, crashes,
                   damages>>

\* The folder cannot be opened, or a file operation fails.
FailIO(c) ==
    /\ pc[c] \in {"load", "remove", "write", "writing", "rename"}
    /\ Goto(c, "unlock")
    /\ UNCHANGED <<file, tmp, keepMu, op, new, ok, seen, crashes,
                   damages>>

\* The deferred keepMu.Unlock().
Unlock(c) ==
    /\ pc[c] = "unlock"
    /\ keepMu' = None
    /\ new' = [new EXCEPT ![c] = {}]
    /\ Goto(c, "answered")
    /\ UNCHANGED <<file, tmp, op, ok, seen, crashes,
                   damages>>

\* The answer has been sent.
Leave(c) ==
    /\ pc[c] = "answered"
    /\ Goto(c, "idle")
    /\ op' = [op EXCEPT ![c] = None]
    /\ ok' = [ok EXCEPT ![c] = FALSE]
    /\ seen' = [seen EXCEPT ![c] = {}]
    /\ UNCHANGED <<file, tmp, keepMu, new, crashes,
                   damages>>

\* The backend dies and starts again.  Both files stay as they are.
Crash ==
    /\ crashes + damages < MaxFaults
    /\ crashes' = crashes + 1
    /\ keepMu' = None
    /\ pc' = [c \in Client |-> "idle"]
    /\ op' = [c \in Client |-> None]
    /\ new' = [c \in Client |-> {}]
    /\ ok' = [c \in Client |-> FALSE]
    /\ seen' = [c \in Client |-> {}]
    /\ UNCHANGED <<file, tmp, damages>>

\* Somebody edits the file badly (external).  An editor that saves within the
\* few milliseconds of a load and its save is not considered.
Damage ==
    /\ crashes + damages < MaxFaults
    /\ damages' = damages + 1
    /\ keepMu = None
    /\ file' = Unreadable
    /\ UNCHANGED <<tmp, keepMu, pc, op, new, ok, seen, crashes>>

-----------------------------------------------------------------------------
InLock(c) == Read(c) \/ Load(c) \/ LoadRefused(c) \/ Remove(c) \/ Write(c)
                \/ Written(c) \/ Rename(c) \/ FailIO(c) \/ Unlock(c)

Next ==
    \/ \E c \in Client : \/ \E o \in Op : Ask(c, o)
                         \/ LookUp(c) \/ Lock(c) \/ InLock(c) \/ Leave(c)
    \/ Crash \/ Damage

Spec == Init /\ [][Next]_vars

\* A handler runs on, and sync.Mutex hands the lock to a waiter in the end
\* (its starvation mode), so a lock free again and again is got.
Fairness ==
    \A c \in Client : /\ WF_vars(LookUp(c)) /\ WF_vars(InLock(c))
                      /\ SF_vars(Lock(c))

FairSpec == Spec /\ Fairness

-----------------------------------------------------------------------------
\* Every variable has its type.
TypeOK ==
    /\ file \in Lists \cup {Unreadable}
    /\ tmp \in Lists \cup {Unreadable, None}
    /\ keepMu \in Client \cup {None}
    /\ pc \in [Client -> {"idle", "entry", "lock", "answered"} \cup Critical]
    /\ op \in [Client -> Op \cup {None}]
    /\ new \in [Client -> Lists]
    /\ ok \in [Client -> BOOLEAN]
    /\ seen \in [Client -> Lists \cup {Unreadable}]
    /\ crashes \in Nat /\ damages \in Nat

\* One request at a time is between its load and the end of its save
\* (service.go:63, "held for a read-modify-write of the Keep list").
OneWriter == \A c \in Client : pc[c] \in Critical <=> keepMu = c

\* The state is of its type and its lock says who holds it.
Consistent == TypeOK /\ OneWriter

\* What a request is about to save is still the edit of the list on the disk:
\* nobody's Keep got in between, and nothing that cannot be read is replaced
\* except by Forget all.  What the rename installs is whole.
NoLostKeep ==
    \A c \in Client :
        /\ pc[c] \in {"write", "writing", "rename"} =>
             file # Unreadable /\ new[c] = Edit(op[c], file)
        /\ pc[c] = "remove" /\ op[c].do # "forget" =>
             file # Unreadable /\ Edit(op[c], file) = {}
        /\ pc[c] = "rename" => tmp = new[c]

\* "the next Keep or Forget all rewrites the file" (keep.go:11-14): a Keep
\* that has loaded the list can always go on to save it.
KeepRewrites ==
    \A c \in Client : pc[c] = "load" /\ op[c].do = "keep" => ENABLED Load(c)

\* The promise to the browsers.  A request takes effect when its file
\* operation does, and is answered from then on.
Store == INSTANCE KeepStore WITH
    list <- file,
    at   <- [c \in Client |->
               CASE pc[c] = "idle" -> "idle"
                 [] pc[c] \in {"unlock", "answered"} -> "answered"
                 [] OTHER -> "asked"]

\* Keep, Unkeep, Forget all and the readers behave as one atomic list through
\* every interleaving, I/O error and crash.
ImplementsStore == Store!AbsSpec

\* Every Keep, Unkeep and Forget all, and every load for Status or a scan, is
\* answered from whatever step it is at, in whatever order the others take the
\* lock, unless the backend dies.
EveryKeepAnswered ==
    \A c \in Client :
        pc[c] \notin {"idle", "answered"} ~> pc[c] \in {"answered", "idle"}
=============================================================================

----------------------------- MODULE KeepStore -----------------------------
(***************************************************************************)
(* What the remembered Keeps promise to the browsers: one list, shared by  *)
(* every tab, on which each Keep, Unkeep, Forget all and read takes effect *)
(* at one instant between its request and its answer, or not at all.  An   *)
(* error means nothing was remembered and nothing was dropped.  A list     *)
(* that does not parse refuses Keep and Unkeep until it is forgotten.      *)
(*                                                                         *)
(* KeepList is the code behind it: a file, a temporary file and a mutex.   *)
(***************************************************************************)
EXTENDS Naturals

CONSTANTS
    Client,      \* requests that can be in flight together
    Kept,        \* records that can be on the list: a path, and its stamp (the
                 \* size, files and newest mtime it had when it was decided on)
    Unreadable,  \* a list file that does not parse
    None

Op   == [do : {"keep", "unkeep"}, of : Kept]
            \cup [do : {"forget", "read"}, of : {None}]

VARIABLES
    list,     \* the remembered Keeps
    at,       \* at[c]: no request, asked, or answered
    op,       \* op[c]: what was asked
    ok, seen, \* the answer: done or an error, and the list a read shows
    damages   \* how often somebody has damaged the list

calls   == <<at, op, ok, seen>>
absVars == <<list, at, op, ok, seen, damages>>

\* The list after the request: a path is kept once, with its latest stamp.
Without(l, p) == {k \in l : k.path # p}

After(o, l) ==
    CASE o.do = "keep"   -> Without(l, o.of.path) \cup {o.of}
      [] o.do = "unkeep" -> Without(l, o.of.path)
      [] o.do = "forget" -> {}
      [] o.do = "read"   -> l

AbsInit ==
    /\ list \in (SUBSET Kept) \cup {Unreadable}
    /\ at = [c \in Client |-> "idle"]
    /\ op = [c \in Client |-> None]
    /\ ok = [c \in Client |-> FALSE]
    /\ seen = [c \in Client |-> {}]
    /\ damages = 0

AbsAsk(c, o) ==
    /\ at[c] = "idle"
    /\ at' = [at EXCEPT ![c] = "asked"]
    /\ op' = [op EXCEPT ![c] = o]
    /\ UNCHANGED <<list, ok, seen, damages>>

\* The request takes effect.
AbsApply(c) ==
    /\ at[c] = "asked"
    /\ op[c].do \in {"keep", "unkeep"} => list # Unreadable
    /\ list' = After(op[c], list)
    /\ at' = [at EXCEPT ![c] = "answered"]
    /\ ok' = [ok EXCEPT ![c] = TRUE]
    /\ seen' = [seen EXCEPT ![c] = IF op[c].do = "read" THEN list ELSE {}]
    /\ UNCHANGED <<op, damages>>

\* It fails, and the list is as it was.
AbsRefuse(c) ==
    /\ at[c] = "asked"
    /\ at' = [at EXCEPT ![c] = "answered"]
    /\ UNCHANGED <<list, op, ok, seen, damages>>

AbsLeave(c) ==
    /\ at[c] = "answered"
    /\ at' = [at EXCEPT ![c] = "idle"]
    /\ op' = [op EXCEPT ![c] = None]
    /\ ok' = [ok EXCEPT ![c] = FALSE]
    /\ seen' = [seen EXCEPT ![c] = {}]
    /\ UNCHANGED <<list, damages>>

\* The backend dies: nobody is answered, the list stays.
AbsDie ==
    /\ at' = [c \in Client |-> "idle"]
    /\ op' = [c \in Client |-> None]
    /\ ok' = [c \in Client |-> FALSE]
    /\ seen' = [c \in Client |-> {}]
    /\ UNCHANGED <<list, damages>>

\* Somebody, never this program, leaves the list in a state that does not
\* parse.
AbsDamage ==
    /\ list' = Unreadable
    /\ damages' = damages + 1
    /\ UNCHANGED calls

AbsNext ==
    \/ \E c \in Client : \/ \E o \in Op : AbsAsk(c, o)
                         \/ AbsApply(c) \/ AbsRefuse(c) \/ AbsLeave(c)
    \/ AbsDie \/ AbsDamage

AbsSpec == AbsInit /\ [][AbsNext]_absVars
=============================================================================

--------------------------- MODULE MCOrphanClaims ---------------------------
(***************************************************************************)
(* The instance of OrphanClaims for TLC.  One root, /m to the daemon and   *)
(* /o here, where /v can be seen besides.  In the root a folder a and      *)
(* perhaps another a in that; a file f, spelled in two ways (f and g), or  *)
(* with .part behind it (h); and housekeeping (s).  The torrents have a    *)
(* with its file f, a with files unknown, or f in the folder a; one has its*)
(* data in the daemon's own /o, which is only warned of, and one in /v,    *)
(* which stops the scan.                                                   *)
(***************************************************************************)
EXTENDS OrphanClaims, TLC

CONSTANTS f, g, h, m, o, s, v, a, r1

Names  == {f, g, h, m, o, s, v, a}
InNfc  == [n \in Names |-> IF n = g THEN f ELSE n]
PartOf == f :> h
Mounts == r1 :> <<m>>
Locals == r1 :> <<o>>
Seen   == {<<o>>, <<v>>}

Sessions == [download : {<<m>>}, incomplete : {None, <<m, a>>}]

Torrents ==
    {[dir |-> <<m>>, name |-> a, files |-> {<<a, f>>}],
     [dir |-> <<m>>, name |-> a, files |-> {}],
     [dir |-> <<m, a>>, name |-> f, files |-> {<<f>>}],
     [dir |-> <<o>>, name |-> a, files |-> {<<a, f>>}],
     [dir |-> <<v>>, name |-> a, files |-> {}]}

\* What may be at each path.
CanBe == (<<a>> :> {"dir", "symlink"}) @@ (<<a, f>> :> {"file"})
            @@ (<<a, g>> :> {"file", "dir"}) @@ (<<a, a>> :> {"dir"})
            @@ (<<a, a, h>> :> {"file"}) @@ (<<s>> :> {"file"})

Contents ==
    {D \in UNION {[P -> {"dir", "file", "symlink"}] : P \in SUBSET DOMAIN CanBe} :
        /\ <<s>> \in DOMAIN D
        /\ \A p \in DOMAIN D :
              /\ D[p] \in CanBe[p]
              /\ Len(p) > 1 => Front(p) \in DOMAIN D /\ D[Front(p)] = "dir"}
=============================================================================

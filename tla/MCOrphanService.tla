-------------------------- MODULE MCOrphanService --------------------------
(***************************************************************************)
(* Instances of OrphanService for TLC.                                     *)
(***************************************************************************)
EXTENDS OrphanService, TLC

CONSTANTS a, t1, t2, p1, p2, d1, d2

\* One item, one torrent that claims it at home and nothing elsewhere, and
\* session folders that are clear of it or are it.  A magnet's name claims
\* nothing here: the item is a name.part, or a file not called like the magnet.
SmallLayout == (t1 :> (p1 :> {a} @@ p2 :> {}))
SmallWhole == (t1 :> (p1 :> {} @@ p2 :> {}))
SmallStructural == (d1 :> {} @@ d2 :> {a})

\* Two torrents with the same data at home (cross-seeding), and none elsewhere.
WideLayout == [t \in {t1, t2} |-> (p1 :> {a} @@ p2 :> {})]
WideWhole == [t \in {t1, t2} |-> (p1 :> {a} @@ p2 :> {})]
WideStructural == (d1 :> {})

Symmetric == Permutations(Req) \cup Permutations(Piece)
=============================================================================

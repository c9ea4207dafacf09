------------------------- MODULE MCStaticFileCache -------------------------
(* A small instance of StaticFileCache for TLC. *)
EXTENDS StaticFileCache, TLC

CONSTANTS t1, t2, index, style, s1, s2

TwoThreads == {t1, t2}
TwoPaths   == {index, style}
TwoShards  == {s1, s2}
(* Both files share a shard. *)
Hash       == (index :> s1) @@ (style :> s1)

Symmetry == Permutations(Threads) \cup Permutations(Paths)
=============================================================================

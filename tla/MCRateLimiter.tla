---------------------------- MODULE MCRateLimiter ----------------------------
(* A small instance of RateLimiter for TLC. *)
EXTENDS RateLimiter, TLC

CONSTANTS t1, t2, key1, key2, s1

TwoThreads == {t1, t2}
TwoKeys    == {key1, key2}
OneShard   == {s1}
Hash       == [k \in Keys |-> s1]

Symmetry == Permutations(Threads)
=============================================================================

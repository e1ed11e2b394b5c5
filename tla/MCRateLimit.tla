----------------------------- MODULE MCRateLimit -----------------------------
(* RateLimit for TLC: threads are interchangeable. *)
EXTENDS RateLimit, TLC

Interchangeable == Permutations(Threads)
=============================================================================

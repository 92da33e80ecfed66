-------------------------- MODULE MCSignedRequests --------------------------
(* SignedRequests with two requests and two threads.  A second has two     *)
(* ticks, and a clock that is ahead by more than the window lets a request *)
(* be refused first and taken later.                                       *)
EXTENDS SignedRequests, TLC

CONSTANTS r1, r2, t1, t2

MCRequests == {r1, r2}
MCThreads == {t1, t2}
MCSymmetry == Permutations(MCRequests) \cup Permutations(MCThreads)
=============================================================================

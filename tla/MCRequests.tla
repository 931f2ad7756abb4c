----------------------------- MODULE MCRequests -----------------------------
(***************************************************************************)
(* Instances of Requests for TLC: an item of user u1.                      *)
(***************************************************************************)
EXTENDS Requests, TLC

CONSTANTS u1, u2, s1, s2, r1, r2, i1

OfFirst == i1 :> u1

SidsAndRequests == Permutations({s1, s2}) \cup Permutations({r1, r2})
=============================================================================

----------------------------- MODULE MCLocalApi -----------------------------
(* LocalApi with three requests: a deep check that holds the flag or has   *)
(* been hung up on, a second one that is let through or refused, and a     *)
(* request of another route beside them.                                  *)
EXTENDS LocalApi, TLC

CONSTANTS r1, r2, r3

MCRequests == {r1, r2, r3}
MCOffers == (r1 :> {"deep"}) @@ (r2 :> {"deep"}) @@ (r3 :> Kinds \ {"list"})
=============================================================================

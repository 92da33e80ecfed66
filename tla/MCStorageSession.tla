-------------------------- MODULE MCStorageSession --------------------------
(* StorageSession with two PIDs.  Three process lives are enough for one   *)
(* to crash, one to find and lose the evidence, and one to be misled; the  *)
(* overlap of two sessions that misleads it needs a fourth.                *)
EXTENDS StorageSession, TLC

CONSTANTS pidA, pidB

MCProcs == {pidA, pidB}
MCMaxStarts == (pidA :> 2) @@ (pidB :> 1)
MCMaxStartsBoth == (pidA :> 2) @@ (pidB :> 2)
MCMaxCrashes == 1
=============================================================================

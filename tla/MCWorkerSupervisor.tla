------------------------- MODULE MCWorkerSupervisor -------------------------
(* Three crashes trip the breaker; the cap on delays is reached by the     *)
(* second.                                                                 *)
EXTENDS WorkerSupervisor
=============================================================================

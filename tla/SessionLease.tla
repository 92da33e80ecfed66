---------------------------- MODULE SessionLease ----------------------------
(***************************************************************************)
(* What a storage session promises (storage/marker.rs, storage/engine.rs): *)
(* the directory has one owner at a time, and data that a dead owner may   *)
(* have left damaged is examined before anyone serves it.  When two        *)
(* processes acquire at once, or what is left on the disk misleads one,    *)
(* they contend, and then nothing is promised any more.                    *)
(***************************************************************************)
CONSTANTS Procs, Nobody, Contended

VARIABLES
    owner,    \* the process that holds the session
    suspect,  \* the database file is damaged
    serving   \* an owner is reading and writing the database file

vars == <<owner, suspect, serving>>

Init == owner = Nobody /\ suspect = FALSE /\ serving = FALSE

Acquire(p) ==
    /\ owner = Nobody
    /\ owner' = p
    /\ UNCHANGED <<suspect, serving>>

\* Damage is only ever set aside while nobody is using the file.
Examine(p) ==
    /\ owner = p
    /\ suspect' = FALSE
    /\ serving' = FALSE
    /\ UNCHANGED owner

Serve(p) ==
    /\ owner = p
    /\ ~suspect
    /\ serving' = TRUE
    /\ UNCHANGED <<owner, suspect>>

Close(p) ==
    /\ owner = p
    /\ serving' = FALSE
    /\ UNCHANGED <<owner, suspect>>

Release(p) ==
    /\ owner = p
    /\ ~serving
    /\ owner' = Nobody
    /\ UNCHANGED <<suspect, serving>>

Die(p) ==
    /\ owner = p
    /\ owner' = Nobody
    /\ suspect' \in {suspect, TRUE}
    /\ serving' = FALSE

Contend ==
    /\ owner' = Contended
    /\ suspect' \in BOOLEAN
    /\ serving' \in BOOLEAN

Next ==
    \/ \E p \in Procs :
          \/ Acquire(p) \/ Examine(p) \/ Serve(p) \/ Close(p) \/ Release(p) \/ Die(p)
    \/ Contend

Spec == Init /\ [][Next]_vars
=============================================================================

----------------------------- MODULE KeyCustody -----------------------------
(* What enrolment and rotation promise (cli/commands/identity.rs): the key *)
(* that the device is known by can always be used to sign, and gives way   *)
(* only to another one that can.                                           *)
CONSTANTS Keys, NoKey

VARIABLES
    active,  \* the key the device is known by
    usable   \* the keys it can sign with

vars == <<active, usable>>

Init == active = NoKey /\ usable = {}

Keep(k) ==
    /\ usable' = usable \cup {k}
    /\ UNCHANGED active

Become(k) ==
    /\ k \in usable
    /\ active' = k
    /\ UNCHANGED usable

Scrub(k) ==
    /\ k # active
    /\ usable' = usable \ {k}
    /\ UNCHANGED active

\* The database is set aside, and the device has to enrol again.
Forget ==
    /\ active' = NoKey
    /\ UNCHANGED usable

Next ==
    \/ \E k \in Keys : Keep(k) \/ Become(k) \/ Scrub(k)
    \/ Forget

Spec == Init /\ [][Next]_vars
=============================================================================

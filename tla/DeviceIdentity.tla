--------------------------- MODULE DeviceIdentity ---------------------------
(***************************************************************************)
(* `netra enroll` and `netra identity rotate [--emergency]` (cli/commands/ *)
(* identity.rs), one after another: the session marker lets one process at *)
(* a time work on the database.  Private keys live in the system's         *)
(* keystore, the identity and the keys' metadata in two tables.  A command *)
(* writes to the keystore, then runs two or three statements in one        *)
(* closure that opens no transaction, so each of them commits alone; any   *)
(* of them may fail, and the process may die between any two.              *)
(***************************************************************************)
CONSTANTS
    Keys,   \* key identifiers; a bound: each is generated once
    NoKey

ASSUME KeyAssumption == NoKey \notin Keys

VARIABLES
    identity,  \* active_key_id of the row of _netra_device_identity, NoKey without a row
    status,    \* status in _netra_key_metadata, "none" without a row
    keystore,  \* the private keys: "spoilt" when a file was half written or half erased
    pc,        \* where the command is
    cmd,       \* which one it is
    old, new,  \* identity.active_key_id as it was read, and the generated key
    outcome,   \* what the last command came to
    used,      \* the identifiers generated so far
    served,    \* the keys that have been active in this database
    cut        \* in this database a closure has ended between its statements

local == <<pc, cmd, old, new, outcome, used>>
database == <<identity, status, served, cut>>
vars == <<identity, status, keystore, local, served, cut>>

Commands == {"enroll", "rotate", "emergency"}
Statuses == {"none", "ACTIVE", "RETIRED", "REVOKED"}
Outcomes == {"none", "ENROLLED", "ALREADY ENROLLED", "STANDARD_ROTATION",
             "EMERGENCY_REVOCATION", "error", "died"}

TypeOK ==
    /\ identity \in Keys \cup {NoKey}
    /\ status \in [Keys -> Statuses]
    /\ keystore \in [Keys -> {"absent", "whole", "spoilt"}]
    /\ pc \in {"idle", "read", "retrieve", "store", "upsert", "insert",
               "retire", "activate", "scrub"}
    /\ cmd \in Commands /\ outcome \in Outcomes
    /\ old \in Keys \cup {NoKey} /\ new \in Keys \cup {NoKey}
    /\ used \subseteq Keys /\ served \subseteq Keys
    /\ cut \in BOOLEAN

Init ==
    /\ identity = NoKey /\ status = [k \in Keys |-> "none"]
    /\ keystore = [k \in Keys |-> "absent"]
    /\ pc = "idle" /\ cmd = "enroll" /\ old = NoKey /\ new = NoKey
    /\ outcome = "none" /\ used = {} /\ served = {} /\ cut = FALSE

Begin(c) ==
    /\ pc = "idle" /\ used # Keys
    /\ pc' = "read" /\ cmd' = c
    /\ old' = NoKey /\ new' = NoKey /\ outcome' = "none"
    /\ UNCHANGED <<database, keystore, used>>

Goto(label) == pc' = label /\ UNCHANGED outcome

Exit(o) == pc' = "idle" /\ outcome' = o

ReadToEnroll ==
    /\ pc = "read" /\ cmd = "enroll"
    /\ IF identity = NoKey THEN Goto("store") ELSE Exit("ALREADY ENROLLED")
    /\ UNCHANGED <<database, keystore, cmd, old, new, used>>

ReadToRotate ==
    /\ pc = "read" /\ cmd # "enroll"
    /\ IF identity = NoKey THEN Exit("error") ELSE Goto("retrieve")
    /\ old' = identity
    /\ UNCHANGED <<database, keystore, cmd, new, used>>

RetrievePrivateKey ==
    /\ pc = "retrieve"
    /\ IF keystore[old] = "whole" THEN Goto("store") ELSE Exit("error")
    /\ UNCHANGED <<database, keystore, cmd, old, new, used>>

StorePrivateKey_ErrorDropped ==
    /\ pc = "store"
    /\ \E k \in Keys \ used, s \in {"absent", "whole"} :
           /\ new' = k
           /\ used' = used \cup {k}
           /\ keystore' = [keystore EXCEPT ![k] = s]
    /\ Goto(IF cmd = "enroll" THEN "upsert" ELSE "insert")
    /\ UNCHANGED <<database, cmd, old>>

StorePrivateKey ==
    /\ pc = "store"
    /\ \E k \in Keys \ used :
           /\ new' = k
           /\ used' = used \cup {k}
           /\ keystore' = [keystore EXCEPT ![k] = "whole"]
    /\ Goto(IF cmd = "enroll" THEN "upsert" ELSE "insert")
    /\ UNCHANGED <<database, cmd, old>>

\* The write fails, or the process dies in it.
StoreFails ==
    /\ pc = "store"
    /\ \E k \in Keys \ used, s \in {"absent", "spoilt"} :
           /\ new' = k
           /\ used' = used \cup {k}
           /\ keystore' = [keystore EXCEPT ![k] = s]
    /\ \E o \in {"error", "died"} : Exit(o)
    /\ UNCHANGED <<database, cmd, old>>
-----------------------------------------------------------------------------
(* The statements. *)

UpsertIdentity ==
    /\ pc = "upsert"
    /\ identity' = new
    /\ served' = served \cup {new}
    /\ Goto("insert")
    /\ UNCHANGED <<status, keystore, cut, cmd, old, new, used>>

InsertKey ==
    /\ pc = "insert"
    /\ status' = [status EXCEPT ![new] = "ACTIVE"]
    /\ IF cmd = "enroll" THEN Exit("ENROLLED") ELSE Goto("retire")
    /\ UNCHANGED <<identity, keystore, served, cut, cmd, old, new, used>>

\* What becomes of the old key.
Demoted == IF cmd = "emergency" THEN "REVOKED" ELSE "RETIRED"

UpdateStatus_NotFoundPasses ==
    /\ pc = "retire"
    /\ status' = [status EXCEPT ![old] = IF status[old] = "none" THEN "none" ELSE Demoted]
    /\ Goto("activate")
    /\ UNCHANGED <<identity, keystore, served, cut, cmd, old, new, used>>

UpdateStatus_New ==
    /\ pc = "retire"
    /\ status' = [status EXCEPT ![new] = Demoted]
    /\ Goto("activate")
    /\ UNCHANGED <<identity, keystore, served, cut, cmd, old, new, used>>

\* An UPDATE that finds no row is an error; the new key's row stays behind it.
UpdateStatus ==
    /\ pc = "retire"
    /\ IF status[old] = "none"
       THEN /\ Exit("error")
            /\ cut' = TRUE
            /\ UNCHANGED status
       ELSE /\ status' = [status EXCEPT ![old] = Demoted]
            /\ Goto("activate")
            /\ UNCHANGED cut
    /\ UNCHANGED <<identity, keystore, served, cmd, old, new, used>>

UpdateActiveKey_Lost ==
    /\ pc = "activate"
    /\ IF cmd = "emergency" THEN Goto("scrub") ELSE Exit("STANDARD_ROTATION")
    /\ UNCHANGED <<identity, served, status, keystore, cut, cmd, old, new, used>>

UpdateActiveKey ==
    /\ pc = "activate"
    /\ identity' = new
    /\ served' = served \cup {new}
    /\ IF cmd = "emergency" THEN Goto("scrub") ELSE Exit("STANDARD_ROTATION")
    /\ UNCHANGED <<status, keystore, cut, cmd, old, new, used>>

DeletePrivateKey_Active ==
    /\ pc = "scrub"
    /\ keystore' = [keystore EXCEPT ![identity] = "absent"]
    /\ Exit("EMERGENCY_REVOCATION")
    /\ UNCHANGED <<database, cmd, old, new, used>>

\* The file is overwritten, then removed; either may fail, and the result is dropped.
DeletePrivateKey ==
    /\ pc = "scrub"
    /\ \E s \in {"absent", "spoilt", keystore[old]} : keystore' = [keystore EXCEPT ![old] = s]
    /\ Exit("EMERGENCY_REVOCATION")
    /\ UNCHANGED <<database, cmd, old, new, used>>

\* Some statements of the closure have been executed and some have not.
Midway == pc \in {"retire", "activate"} \/ (pc = "insert" /\ cmd = "enroll")

\* A read, a retrieval or a statement fails.
Fails ==
    /\ pc \in {"read", "retrieve", "upsert", "insert", "retire", "activate"}
    /\ Exit("error")
    /\ cut' = (cut \/ Midway)
    /\ UNCHANGED <<identity, status, keystore, served, cmd, old, new, used>>

Crash ==
    /\ pc # "idle"
    /\ Exit("died")
    /\ cut' = (cut \/ Midway)
    /\ UNCHANGED <<identity, status, keystore, served, cmd, old, new, used>>

\* A damaged database is quarantined and created anew (StorageSession).
Quarantine ==
    /\ pc = "idle"
    /\ identity' = NoKey /\ status' = [k \in Keys |-> "none"]
    /\ served' = {} /\ cut' = FALSE
    /\ outcome' = "none"
    /\ UNCHANGED <<keystore, pc, cmd, old, new, used>>

Next ==
    \/ \E c \in Commands : Begin(c)
    \/ ReadToEnroll \/ ReadToRotate \/ RetrievePrivateKey \/ StorePrivateKey \/ StoreFails
    \/ UpsertIdentity \/ InsertKey \/ UpdateStatus \/ UpdateActiveKey \/ DeletePrivateKey
    \/ Fails \/ Crash \/ Quarantine

Spec == Init /\ [][Next]_vars
-----------------------------------------------------------------------------
\* The device can sign with its active key at any moment, and with its next one before that
\* becomes active, whatever fails.
Custody == INSTANCE KeyCustody WITH active <- identity, usable <- {k \in Keys : keystore[k] = "whole"}

CustodySpec == Custody!Spec

\* A key that has given way to another is never listed as ACTIVE again.
SupersededIsInactive == \A k \in served \ {identity} : status[k] \in {"RETIRED", "REVOKED"}

\* Between commands the one ACTIVE key is the identity's, unless a closure was cut short.
OneActiveKey ==
    pc = "idle" /\ ~cut => {k \in Keys : status[k] = "ACTIVE"} = {identity} \ {NoKey}

\* A revoked key is not made a retired one, with its period of grace, by a later rotation,
\* unless the emergency rotation was cut short.
RevokedForGood ==
    [][~(\E k \in Keys : status[k] = "REVOKED" /\ status'[k] \in {"ACTIVE", "RETIRED"} /\ ~cut)]_vars

\* A command that reports success exits with the key it names as active ACTIVE in the tables,
\* its private key in the keystore, and the previous one RETIRED, or REVOKED after an
\* emergency.  What an emergency rotation prints besides, "Old Key Scrubbed"
\* (identity.rs:501), is no part of this: the result of the deletion is dropped (:480), and
\* the line is printed of a private key that is still in the keystore.
ReportedKeys ==
    pc = "idle" =>
        /\ outcome \in {"ENROLLED", "STANDARD_ROTATION", "EMERGENCY_REVOCATION"} =>
               identity = new /\ status[new] = "ACTIVE" /\ keystore[new] = "whole"
        /\ outcome = "STANDARD_ROTATION" => status[old] = "RETIRED"
        /\ outcome = "EMERGENCY_REVOCATION" => status[old] = "REVOKED"
=============================================================================

---------------------------- MODULE DeviceProofs ----------------------------
(***************************************************************************)
(* Proofs about the device: about its identity (DeviceIdentity), for any   *)
(* number of keys, and about what the scans of its posture make of it      *)
(* (HostPosture), for any sockets, services and hosts.                     *)
(***************************************************************************)
EXTENDS DeviceIdentity, HostPosture, FiniteSetTheorems, TLAPS

\* What has not been generated is nowhere.
FreshInv ==
    /\ \A k \in Keys \ used : status[k] = "none" /\ keystore[k] = "absent"
    /\ served \subseteq used
    /\ identity = NoKey => served = {}
    /\ identity # NoKey => identity \in served

\* What a command in progress has read and written.
CommandInv ==
    /\ pc \in {"retrieve", "retire", "activate"} => cmd # "enroll"
    /\ pc = "scrub" => cmd = "emergency"
    /\ pc = "upsert" => cmd = "enroll"
    /\ pc \in {"store", "upsert"} /\ cmd = "enroll" => identity = NoKey
    /\ pc = "insert" /\ cmd = "enroll" => identity = new
    /\ pc \in {"retrieve", "store", "insert", "retire", "activate"} /\ cmd # "enroll" =>
           old = identity /\ identity # NoKey
    /\ pc \in {"insert", "retire", "activate"} /\ cmd # "enroll" => new \notin served
    /\ pc \in {"upsert", "insert", "retire", "activate", "scrub"} =>
           new \in used /\ keystore[new] = "whole"
    /\ pc \in {"upsert", "insert"} => status[new] = "none"
    /\ pc \in {"retire", "activate", "scrub"} => status[new] = "ACTIVE"
    /\ pc \in {"activate", "scrub"} => status[old] = Demoted
    /\ pc = "scrub" => identity = new /\ old \in used /\ old # new

CustodyInv == identity # NoKey => keystore[identity] = "whole"

\* The ACTIVE rows at each point of a command that has not been cut short.
Listed ==
    CASE pc = "insert" -> IF cmd = "enroll" THEN {} ELSE {identity}
      [] pc = "retire" -> {identity, new}
      [] pc = "activate" -> {new}
      [] OTHER -> {identity} \ {NoKey}

ListedInv == ~cut => {k \in Keys : status[k] = "ACTIVE"} = Listed

IInv ==
    /\ TypeOK /\ FreshInv /\ CommandInv /\ CustodyInv /\ ListedInv
    /\ SupersededIsInactive /\ ReportedKeys

\* Nothing has been generated, and no command runs.
LEMMA Initially == Init => IInv
BY KeyAssumption DEF Init, IInv, TypeOK, Commands, Statuses, Outcomes, FreshInv, CommandInv,
   CustodyInv, ListedInv, Listed, SupersededIsInactive, ReportedKeys

\* A command begins with nothing in its hands.
LEMMA BeginStep == ASSUME IInv, NEW c \in Commands, Begin(c) PROVE IInv'
<1> USE DEF IInv, Begin, database, local
<1>1. TypeOK'
  BY DEF TypeOK, Outcomes
<1>2. FreshInv' /\ CustodyInv' /\ SupersededIsInactive'
  BY DEF FreshInv, CustodyInv, SupersededIsInactive
<1>3. CommandInv' /\ ReportedKeys'
  BY DEF CommandInv, ReportedKeys
<1>4. ListedInv'
  BY DEF ListedInv, Listed
<1> QED BY <1>1, <1>2, <1>3, <1>4

\* What a command has read of the identity stays so until the command writes.
LEMMA ReadSteps == ASSUME IInv, ReadToEnroll \/ ReadToRotate \/ RetrievePrivateKey PROVE IInv'
<1> USE DEF IInv, ReadToEnroll, ReadToRotate, RetrievePrivateKey, database, local, Goto, Exit
<1>1. TypeOK'
  BY DEF TypeOK, Outcomes
<1>2. FreshInv' /\ CustodyInv' /\ SupersededIsInactive'
  BY DEF FreshInv, CustodyInv, SupersededIsInactive
<1>3. CommandInv'
  BY DEF CommandInv
<1>4. ReportedKeys'
  BY DEF ReportedKeys
<1>5. ListedInv'
  BY DEF ListedInv, Listed
<1> QED BY <1>1, <1>2, <1>3, <1>4, <1>5

\* The keystore is written under an identifier never used before.
LEMMA StoreSteps == ASSUME IInv, StorePrivateKey \/ StoreFails PROVE IInv'
<1> USE DEF IInv, StorePrivateKey, StoreFails, database, local, Goto, Exit
<1>1. TypeOK'
  BY DEF TypeOK, Statuses, Outcomes
<1>2. FreshInv'
  BY DEF FreshInv, TypeOK, CommandInv
<1>3. CommandInv'
  BY KeyAssumption DEF CommandInv, TypeOK, FreshInv, Demoted
<1>4. CustodyInv'
  BY KeyAssumption DEF CustodyInv, CommandInv, TypeOK, FreshInv
<1>5. ListedInv'
  BY KeyAssumption DEF ListedInv, Listed, CommandInv, TypeOK, FreshInv, Demoted
<1>6. SupersededIsInactive'
  BY KeyAssumption DEF SupersededIsInactive, CommandInv, TypeOK, FreshInv, Demoted
<1>7. ReportedKeys'
  BY KeyAssumption DEF ReportedKeys, CommandInv, TypeOK, Demoted
<1> QED BY <1>1, <1>2, <1>3, <1>4, <1>5, <1>6, <1>7

\* An enrolment writes the identity on a device that had none.
LEMMA UpsertStep == ASSUME IInv, UpsertIdentity PROVE IInv'
<1> USE DEF IInv, UpsertIdentity, Goto, Exit
<1>1. TypeOK'
  BY DEF TypeOK, Statuses, Outcomes, CommandInv
<1>2. FreshInv'
  BY KeyAssumption DEF FreshInv, TypeOK, CommandInv
<1>3. CommandInv'
  BY KeyAssumption DEF CommandInv, TypeOK, FreshInv, Demoted
<1>4. CustodyInv'
  BY KeyAssumption DEF CustodyInv, CommandInv, TypeOK, FreshInv
<1>5. ListedInv'
  BY KeyAssumption DEF ListedInv, Listed, CommandInv, TypeOK, FreshInv, Demoted
<1>6. SupersededIsInactive'
  BY KeyAssumption DEF SupersededIsInactive, CommandInv, TypeOK, FreshInv, Demoted
<1>7. ReportedKeys'
  BY KeyAssumption DEF ReportedKeys, CommandInv, TypeOK, Demoted
<1> QED BY <1>1, <1>2, <1>3, <1>4, <1>5, <1>6, <1>7

\* The new row is ACTIVE beside the one it is to replace.
LEMMA InsertStep == ASSUME IInv, InsertKey PROVE IInv'
<1> USE DEF IInv, InsertKey, Goto, Exit
<1>1. TypeOK'
  BY DEF TypeOK, Statuses, Outcomes
<1>2. FreshInv'
  BY DEF FreshInv, TypeOK, CommandInv
<1>3. CommandInv'
  BY KeyAssumption DEF CommandInv, TypeOK, FreshInv, Demoted
<1>4. CustodyInv'
  BY KeyAssumption DEF CustodyInv, CommandInv, TypeOK, FreshInv
<1>5. ListedInv'
  BY KeyAssumption DEF ListedInv, Listed, CommandInv, TypeOK, FreshInv, Demoted
<1>6. SupersededIsInactive'
  BY KeyAssumption DEF SupersededIsInactive, CommandInv, TypeOK, FreshInv, Demoted
<1>7. ReportedKeys'
  BY KeyAssumption DEF ReportedKeys, CommandInv, TypeOK, Demoted
<1> QED BY <1>1, <1>2, <1>3, <1>4, <1>5, <1>6, <1>7

\* The old row leaves ACTIVE while its key is still the active one: the closure is still open.
LEMMA StatusStep == ASSUME IInv, UpdateStatus PROVE IInv'
<1> USE DEF IInv, UpdateStatus, Goto, Exit
<1>1. TypeOK'
  BY DEF TypeOK, Statuses, Outcomes, Demoted
<1>2. FreshInv'
  BY DEF FreshInv, TypeOK, CommandInv
<1>3. CommandInv'
  BY KeyAssumption DEF CommandInv, TypeOK, FreshInv, Demoted
<1>4. CustodyInv'
  BY KeyAssumption DEF CustodyInv, CommandInv, TypeOK, FreshInv
<1>5. ListedInv'
  BY KeyAssumption DEF ListedInv, Listed, CommandInv, TypeOK, FreshInv, Demoted
<1>6. SupersededIsInactive'
  BY KeyAssumption DEF SupersededIsInactive, CommandInv, TypeOK, FreshInv, Demoted
<1>7. ReportedKeys'
  BY KeyAssumption DEF ReportedKeys, CommandInv, TypeOK, Demoted
<1> QED BY <1>1, <1>2, <1>3, <1>4, <1>5, <1>6, <1>7

\* The new key becomes the active one.
LEMMA ActiveKeyStep == ASSUME IInv, UpdateActiveKey PROVE IInv'
<1> USE DEF IInv, UpdateActiveKey, Goto, Exit
<1>1. TypeOK'
  BY DEF TypeOK, Statuses, Outcomes, CommandInv
<1>2. FreshInv'
  BY KeyAssumption DEF FreshInv, TypeOK, CommandInv
<1>3. CommandInv'
  BY KeyAssumption DEF CommandInv, TypeOK, FreshInv, Demoted
<1>4. CustodyInv'
  BY KeyAssumption DEF CustodyInv, CommandInv, TypeOK, FreshInv
<1>5. ListedInv'
  BY KeyAssumption DEF ListedInv, Listed, CommandInv, TypeOK, FreshInv, Demoted
<1>6. SupersededIsInactive'
  BY KeyAssumption DEF SupersededIsInactive, CommandInv, TypeOK, FreshInv, Demoted
<1>7. ReportedKeys'
  BY KeyAssumption DEF ReportedKeys, CommandInv, TypeOK, Demoted
<1> QED BY <1>1, <1>2, <1>3, <1>4, <1>5, <1>6, <1>7

\* Only a key that is not active any more is scrubbed.
LEMMA DeleteStep == ASSUME IInv, DeletePrivateKey PROVE IInv'
<1> USE DEF IInv, DeletePrivateKey, database, local, Goto, Exit
<1>1. TypeOK'
  BY DEF TypeOK, Statuses, Outcomes
<1>2. FreshInv'
  BY DEF FreshInv, TypeOK, CommandInv
<1>3. CommandInv'
  BY KeyAssumption DEF CommandInv, TypeOK, FreshInv, Demoted
<1>4. CustodyInv'
  BY KeyAssumption DEF CustodyInv, CommandInv, TypeOK, FreshInv
<1>5. ListedInv'
  BY KeyAssumption DEF ListedInv, Listed, CommandInv, TypeOK, FreshInv, Demoted
<1>6. SupersededIsInactive'
  BY KeyAssumption DEF SupersededIsInactive, CommandInv, TypeOK, FreshInv, Demoted
<1>7. ReportedKeys'
  BY KeyAssumption DEF ReportedKeys, CommandInv, TypeOK, Demoted
<1> QED BY <1>1, <1>2, <1>3, <1>4, <1>5, <1>6, <1>7

\* A command that ends between its statements leaves the database marked as cut.
LEMMA CutSteps == ASSUME IInv, Fails \/ Crash PROVE IInv'
<1> USE DEF IInv, Fails, Crash, Midway, Goto, Exit
<1>1. TypeOK'
  BY DEF TypeOK, Statuses, Outcomes
<1>2. FreshInv'
  BY DEF FreshInv, TypeOK, CommandInv
<1>3. CommandInv'
  BY KeyAssumption DEF CommandInv, TypeOK, FreshInv, Demoted
<1>4. CustodyInv'
  BY KeyAssumption DEF CustodyInv, CommandInv, TypeOK, FreshInv
<1>5. ListedInv'
  BY KeyAssumption DEF ListedInv, Listed, CommandInv, TypeOK, FreshInv, Demoted
<1>6. SupersededIsInactive'
  BY KeyAssumption DEF SupersededIsInactive, CommandInv, TypeOK, FreshInv, Demoted
<1>7. ReportedKeys'
  BY KeyAssumption DEF ReportedKeys, CommandInv, TypeOK, Demoted
<1> QED BY <1>1, <1>2, <1>3, <1>4, <1>5, <1>6, <1>7

\* A quarantine takes the rows and leaves the keystore.
LEMMA QuarantineStep == ASSUME IInv, Quarantine PROVE IInv'
<1> USE DEF IInv, Quarantine, local, Goto, Exit
<1>1. TypeOK'
  BY DEF TypeOK, Statuses, Outcomes
<1>2. FreshInv'
  BY DEF FreshInv, TypeOK, CommandInv
<1>3. CommandInv'
  BY KeyAssumption DEF CommandInv, TypeOK, FreshInv, Demoted
<1>4. CustodyInv'
  BY KeyAssumption DEF CustodyInv, CommandInv, TypeOK, FreshInv
<1>5. ListedInv'
  BY KeyAssumption DEF ListedInv, Listed, CommandInv, TypeOK, FreshInv, Demoted
<1>6. SupersededIsInactive'
  BY KeyAssumption DEF SupersededIsInactive, CommandInv, TypeOK, FreshInv, Demoted
<1>7. ReportedKeys'
  BY KeyAssumption DEF ReportedKeys, CommandInv, TypeOK, Demoted
<1> QED BY <1>1, <1>2, <1>3, <1>4, <1>5, <1>6, <1>7

\* Each step of the commands preserves the invariant.
LEMMA Inductive == ASSUME IInv, [Next]_vars PROVE IInv'
<1>1. CASE UNCHANGED vars
  BY <1>1 DEF IInv, TypeOK, FreshInv, CommandInv, CustodyInv, ListedInv, Listed, Demoted,
     SupersededIsInactive, ReportedKeys, vars, local
<1>2. CASE Next
  BY <1>2, BeginStep, ReadSteps, StoreSteps, UpsertStep, InsertStep, StatusStep, ActiveKeyStep,
     DeleteStep, CutSteps, QuarantineStep DEF Next
<1> QED BY <1>1, <1>2

\* The inductive invariant of enrolment and rotation.
THEOREM Invariant == Spec => []IInv
BY Initially, Inductive, PTL DEF Spec

\* The type invariant holds for any set of keys.
THEOREM TypeCorrect == Spec => []TypeOK
<1>1. IInv => TypeOK
  BY DEF IInv
<1> QED BY Invariant, <1>1, PTL

\* execute_identity: update_status() of the old key comes before update_active_key(), so
\* whatever fails, a key that was replaced is listed as retired or revoked.
THEOREM SupersededKeysAreInactive == Spec => []SupersededIsInactive
<1>1. IInv => SupersededIsInactive
  BY DEF IInv
<1> QED BY Invariant, <1>1, PTL

\* Between commands none of which was cut short within its statements, exactly the
\* identity's key is listed as ACTIVE.
THEOREM ActiveKeyIsUnique == Spec => []OneActiveKey
<1>1. IInv => OneActiveKey
  BY DEF IInv, ListedInv, Listed, OneActiveKey
<1> QED BY Invariant, <1>1, PTL

\* The keys a successful command names have the status it gives them, and the new one can
\* sign.  Of the old private key that an emergency rotation reports as scrubbed, nothing is
\* claimed.
THEOREM ReportedKeysHold == Spec => []ReportedKeys
<1>1. IInv => ReportedKeys
  BY DEF IInv
<1> QED BY Invariant, <1>1, PTL

\* update_status() never turns REVOKED into RETIRED unless an earlier command was cut short.
THEOREM RevokedKeysStayRevoked == Spec => RevokedForGood
<1>1. IInv /\ [Next]_vars =>
        [~(\E k \in Keys : status[k] = "REVOKED" /\ status'[k] \in {"ACTIVE", "RETIRED"} /\ ~cut)]_vars
  <2> SUFFICES ASSUME IInv, Next, NEW k \in Keys,
                      status[k] = "REVOKED", status'[k] \in {"ACTIVE", "RETIRED"}, ~cut
               PROVE  FALSE
    BY DEF vars
  <2>1. status' # status /\ status \in [Keys -> Statuses]
    BY DEF IInv, TypeOK
  <2>2. InsertKey \/ UpdateStatus \/ Quarantine
    BY <2>1 DEF Next, Begin, ReadToEnroll, ReadToRotate, RetrievePrivateKey, StorePrivateKey,
       StoreFails, UpsertIdentity, UpdateActiveKey, DeletePrivateKey, Fails, Crash, database
  <2>3. CASE InsertKey
    <3>1. status[new] = "none"
      BY <2>3 DEF InsertKey, IInv, CommandInv
    <3> QED BY <2>1, <2>3, <3>1 DEF InsertKey
  <2>4. CASE UpdateStatus
    <3>1. old \in Keys /\ status[old] = "ACTIVE"
      BY <2>4 DEF UpdateStatus, IInv, TypeOK, CommandInv, ListedInv, Listed
    <3> QED BY <2>1, <2>4, <3>1 DEF UpdateStatus
  <2>5. CASE Quarantine
    BY <2>5 DEF Quarantine
  <2> QED BY <2>2, <2>3, <2>4, <2>5
<1> QED BY Invariant, <1>1, PTL DEF Spec, RevokedForGood
-----------------------------------------------------------------------------
\* Each step keeps the promise of KeyCustody or is unseen by it.
LEMMA StepImplements == ASSUME IInv, [Next]_vars PROVE [Custody!Next]_(Custody!vars)
<1> DEFINE usable == {k \in Keys : keystore[k] = "whole"}
<1> USE DEF Custody!vars, Custody!Next
<1>1. CASE identity' = identity /\ keystore' = keystore
  BY <1>1
<1>2. CASE StorePrivateKey
  <2>1. PICK k \in Keys \ used : keystore' = [keystore EXCEPT ![k] = "whole"]
    BY <1>2 DEF StorePrivateKey
  <2>2. usable' = usable \cup {k} /\ identity' = identity
    BY <1>2, <2>1 DEF StorePrivateKey, database, IInv, TypeOK
  <2> QED BY <2>2 DEF Custody!Keep
<1>3. CASE StoreFails
  <2>1. PICK k \in Keys \ used, s \in {"absent", "spoilt"} : keystore' = [keystore EXCEPT ![k] = s]
    BY <1>3 DEF StoreFails
  <2>2. keystore[k] = "absent"
    BY DEF IInv, FreshInv
  <2>3. usable' = usable /\ identity' = identity
    BY <1>3, <2>1, <2>2 DEF StoreFails, database, IInv, TypeOK
  <2> QED BY <2>3
<1>4. CASE UpsertIdentity \/ UpdateActiveKey
  <2>1. new \in usable /\ identity' = new /\ keystore' = keystore
    BY <1>4 DEF UpsertIdentity, UpdateActiveKey, IInv, TypeOK, CommandInv
  <2> QED BY <2>1 DEF Custody!Become
<1>5. CASE DeletePrivateKey
  <2>1. old \in Keys /\ old # identity /\ identity' = identity
    BY <1>5 DEF DeletePrivateKey, database, IInv, TypeOK, CommandInv
  <2>2. PICK s \in {"absent", "spoilt", keystore[old]} : keystore' = [keystore EXCEPT ![old] = s]
    BY <1>5 DEF DeletePrivateKey
  <2>3. usable' \in {usable, usable \ {old}}
    BY <2>1, <2>2 DEF IInv, TypeOK
  <2> QED BY <2>1, <2>3 DEF Custody!Scrub
<1>6. CASE Quarantine
  BY <1>6 DEF Quarantine, Custody!Forget
<1> QED
  <2>1. CASE UNCHANGED vars
    BY <1>1, <2>1 DEF vars
  <2>2. CASE Next
    <3>1. \/ identity' = identity /\ keystore' = keystore
          \/ StorePrivateKey \/ StoreFails \/ UpsertIdentity \/ UpdateActiveKey
          \/ DeletePrivateKey \/ Quarantine
      BY <2>2 DEF Next, Begin, ReadToEnroll, ReadToRotate, RetrievePrivateKey, InsertKey,
         UpdateStatus, Fails, Crash, database
    <3> QED BY <3>1, <1>1, <1>2, <1>3, <1>4, <1>5, <1>6
  <2> QED BY <2>1, <2>2

\* Enrolment and rotation keep the device's key usable through every failure and crash.
THEOREM Implements == Spec => CustodySpec
<1>1. Init => Custody!Init
  BY DEF Init, Custody!Init
<1> QED BY Invariant, <1>1, StepImplements, PTL DEF Spec, CustodySpec, Custody!Spec
-----------------------------------------------------------------------------
(***************************************************************************)
(* The posture scans of a host, for any sockets, services and hosts, and   *)
(* any number of changes and scans.                                        *)
(***************************************************************************)
\* The tables or keys that a source is read in.
Parts(s) ==
    CASE s = "sockets" -> IF os = "linux" THEN 2 ELSE 4
      [] s = "firewall" -> 3
      [] OTHER -> 1

\* The one among them that shows a finding.
Part(f) ==
    CASE DomainOf[f[1]] = "sockets" -> IF f[2][1] = "::" THEN 2 ELSE 1
      [] DomainOf[f[1]] = "firewall" -> CHOOSE i \in DOMAIN Profiles : Profiles[i] = f[2]
      [] OTHER -> 1

\* How far the collectors have got.
ProgressInv ==
    /\ \A s \in Sources :
           /\ got[s] = "pending" => next[s] < Parts(s)
           /\ got[s] = "Available" /\ s \notin unread => next[s] = Parts(s)
           /\ got[s] # "missing" => s \in scope
    /\ settled => \A s \in Sources : got[s] # "pending"

\* What is wrong with the host now lies between what always and what ever was.
WatchInv == always \subseteq Holding(host) /\ Holding(host) \subseteq ever

\* Nothing is raised that never was.
SoundInv == Raised \subseteq ever

\* What was wrong all along is raised as soon as the part that shows it has been read.
CompleteInv ==
    \A f \in Findings :
        LET s == DomainOf[f[1]] IN
        /\ f \in always /\ InSight(f)
        /\ s \notin unread /\ got[s] \in {"pending", "Available"} /\ Part(f) <= next[s]
        => f \in Raised

PostureInv ==
    /\ PostureTypeOK /\ ProgressInv /\ WatchInv /\ SoundInv /\ CompleteInv
    /\ LedgerTellsTheHost

-----------------------------------------------------------------------------
(* What the rules make of a payload. *)
Shows(s, p) ==
    CASE s = "sockets" -> Net001(p) \cup Net002(p)
      [] s = "firewall" -> Fw001(p)
      [] s = "users" -> Usr001(p)
      [] s = "services" -> Svc001(p)
      [] s = "os_config" -> Os001(p)

\* The rules raise what each source shows by itself.
LEMMA ShowsOf ==
    /\ \A p : /\ Shows("sockets", p) = Net001(p) \cup Net002(p)
             /\ Shows("firewall", p) = Fw001(p)
             /\ Shows("users", p) = Usr001(p)
             /\ Shows("services", p) = Svc001(p)
             /\ Shows("os_config", p) = Os001(p)
    /\ \A f : f \in Raised <=> \E s \in Sources : f \in Shows(s, payload[s])
  <1>1. \A p : /\ Shows("sockets", p) = Net001(p) \cup Net002(p)
              /\ Shows("firewall", p) = Fw001(p)
              /\ Shows("users", p) = Usr001(p)
              /\ Shows("services", p) = Svc001(p)
              /\ Shows("os_config", p) = Os001(p)
    BY DEF Shows
  <1>2. Sources = {"sockets", "firewall", "users", "services", "os_config"}
    BY DEF Sources
  <1> QED
    BY <1>1, <1>2 DEF Raised

\* A rule judges each record by itself.
LEMMA ShowsEach ==
    ASSUME NEW s \in Sources, NEW p, NEW q
    PROVE  /\ Shows(s, p \cup q) = Shows(s, p) \cup Shows(s, q)
           /\ Shows(s, {}) = {}
  <1>1. \A ports : /\ Exposed(p \cup q, ports) = Exposed(p, ports) \cup Exposed(q, ports)
                  /\ Exposed({}, ports) = {}
    BY DEF Exposed
  <1>2. /\ Net001(p \cup q) = Net001(p) \cup Net001(q) /\ Net001({}) = {}
        /\ Net002(p \cup q) = Net002(p) \cup Net002(q) /\ Net002({}) = {}
    BY <1>1 DEF Net001, Net002
  <1>3. Fw001(p \cup q) = Fw001(p) \cup Fw001(q) /\ Fw001({}) = {}
    BY DEF Fw001
  <1>4. Usr001(p \cup q) = Usr001(p) \cup Usr001(q) /\ Usr001({}) = {}
    BY DEF Usr001
  <1>5. Svc001(p \cup q) = Svc001(p) \cup Svc001(q) /\ Svc001({}) = {}
    BY DEF Svc001
  <1>6. Os001(p \cup q) = Os001(p) \cup Os001(q) /\ Os001({}) = {}
    BY DEF Os001
  <1>7. s \in {"sockets", "firewall", "users", "services", "os_config"}
    BY DEF Sources
  <1>8. CASE s = "sockets"
    <2>1. \A r : Shows(s, r) = Net001(r) \cup Net002(r)
      BY <1>8, ShowsOf
    <2> QED
      BY <1>2, <2>1
  <1>9. CASE s \in {"firewall", "users", "services", "os_config"}
    BY <1>3, <1>4, <1>5, <1>6, <1>9, ShowsOf
  <1> QED
    BY <1>7, <1>8, <1>9

\* The same of the payloads after a step.
LEMMA RaisedHas == \A f : f \in Raised' <=> \E t \in Sources : f \in Shows(t, payload'[t])
  <1>1. Sources = {"sockets", "firewall", "users", "services", "os_config"}
    BY DEF Sources
  <1> QED
    BY <1>1, ShowsOf DEF Raised

\* What a payload raises when the one of a source is replaced, or added to.
LEMMA RaisedNext ==
    ASSUME NEW s \in Sources, NEW records, DOMAIN payload = Sources
    PROVE  /\ payload' = [payload EXCEPT ![s] = @ \cup records]
                  => Raised' = Raised \cup Shows(s, records)
           /\ payload' = [payload EXCEPT ![s] = {}] => Raised' \subseteq Raised
  <1>1. ASSUME payload' = [payload EXCEPT ![s] = @ \cup records]
        PROVE  Raised' = Raised \cup Shows(s, records)
    <2>1. \A t \in Sources : payload'[t] = IF t = s THEN payload[s] \cup records ELSE payload[t]
      BY <1>1
    <2>2. \A t \in Sources : \A f :
              f \in Shows(t, payload'[t]) <=>
                  f \in Shows(t, payload[t]) \/ (t = s /\ f \in Shows(s, records))
      BY <2>1, ShowsEach
    <2> QED
      BY RaisedHas, <2>2, ShowsOf
  <1>2. ASSUME payload' = [payload EXCEPT ![s] = {}]
        PROVE  Raised' \subseteq Raised
    <2>1. \A t \in Sources : payload'[t] = IF t = s THEN {} ELSE payload[t]
      BY <1>2
    <2>2. \A t \in Sources : \A f : f \in Shows(t, payload'[t]) => f \in Shows(t, payload[t])
      BY <2>1, ShowsEach
    <2> QED
      BY RaisedHas, <2>2, ShowsOf
  <1> QED
    BY <1>1, <1>2

\* Each finding has a source, and one of the parts of that source to show it.
LEMMA FindingsHaveParts ==
    /\ \A r \in RuleIds : DomainOf[r] \in Sources
    /\ DomainOf["NET-001"] = "sockets" /\ DomainOf["NET-002"] = "sockets"
    /\ DomainOf["FW-001"] = "firewall" /\ DomainOf["USR-001"] = "users"
    /\ DomainOf["SVC-001"] = "services" /\ DomainOf["OS-001"] = "os_config"
    /\ \A f \in Findings : f[1] \in RuleIds /\ DomainOf[f[1]] \in Sources /\ Part(f) \in 1..3
  <1>1. /\ \A r \in RuleIds : DomainOf[r] \in Sources
        /\ DomainOf["NET-001"] = "sockets" /\ DomainOf["NET-002"] = "sockets"
        /\ DomainOf["FW-001"] = "firewall" /\ DomainOf["USR-001"] = "users"
        /\ DomainOf["SVC-001"] = "services" /\ DomainOf["OS-001"] = "os_config"
    BY DEF DomainOf, RuleIds, Sources
  <1>2. ASSUME NEW f \in Findings
        PROVE  f[1] \in RuleIds /\ (f[1] = "FW-001" => f[2] \in {Profiles[i] : i \in DOMAIN Profiles})
    BY DEF Findings, RuleIds
  <1>3. ASSUME NEW f \in Findings
        PROVE  Part(f) \in 1..3
    <2>1. CASE f[1] = "FW-001"
      <3>1. DOMAIN Profiles = 1..3
        BY DEF Profiles
      <3>2. DomainOf[f[1]] = "firewall"
        BY <1>1, <2>1
      <3>3. PICK i \in DOMAIN Profiles : Profiles[i] = f[2]
        BY <1>2, <2>1
      <3>4. Part(f) = CHOOSE j \in DOMAIN Profiles : Profiles[j] = f[2]
        BY <3>2 DEF Part
      <3> QED
        BY <3>1, <3>3, <3>4
    <2>2. CASE f[1] # "FW-001"
      <3>1. DomainOf[f[1]] # "firewall"
        BY <1>1, <1>2, <2>2 DEF RuleIds
      <3>2. Part(f) \in {1, 2}
        BY <3>1 DEF Part
      <3> QED
        BY <3>2
    <2> QED
      BY <2>1, <2>2
  <1> QED
    BY <1>1, <1>2, <1>3

\* A source shows findings of its own rules only.
LEMMA ShowsOwn ==
    ASSUME NEW s \in Sources, NEW p, NEW f \in Shows(s, p)
    PROVE  DomainOf[f[1]] = s
  <1>1. s \in {"sockets", "firewall", "users", "services", "os_config"}
    BY DEF Sources
  <1>2. CASE s = "sockets"
    <2>1. f[1] \in {"NET-001", "NET-002"}
      BY <1>2, ShowsOf DEF Net001, Net002
    <2> QED
      BY <1>2, <2>1, FindingsHaveParts
  <1>3. CASE s = "firewall"
    <2>1. f[1] = "FW-001"
      BY <1>3, ShowsOf DEF Fw001
    <2> QED
      BY <1>3, <2>1, FindingsHaveParts
  <1>4. CASE s = "users"
    <2>1. f[1] = "USR-001"
      BY <1>4, ShowsOf DEF Usr001
    <2> QED
      BY <1>4, <2>1, FindingsHaveParts
  <1>5. CASE s = "services"
    <2>1. f[1] = "SVC-001"
      BY <1>5, ShowsOf DEF Svc001
    <2> QED
      BY <1>5, <2>1, FindingsHaveParts
  <1>6. CASE s = "os_config"
    <2>1. f[1] = "OS-001"
      BY <1>6, ShowsOf DEF Os001
    <2> QED
      BY <1>6, <2>1, FindingsHaveParts
  <1> QED
    BY <1>1, <1>2, <1>3, <1>4, <1>5, <1>6

\* What a collector sees, and in which part, is a matter of the platform alone.
LEMMA PlatformDecides ==
    ASSUME os' = os
    PROVE  /\ \A f : (InSight(f) <=> InSight(f)') /\ Part(f)' = Part(f)
           /\ \A s : Parts(s)' = Parts(s)
  BY DEF InSight, Part, Parts

\* A part of the source s that was really read shows what was wrong all along.
Told(s, records, readable) ==
    readable => \A f \in Findings :
        DomainOf[f[1]] = s /\ f \in always /\ InSight(f) /\ Part(f) = next[s] + 1
            => f \in Shows(s, records)

\* A collector takes one more part, and what that part raises was so.
LEMMA Advanced ==
    ASSUME PostureInv, NEW s \in Sources, NEW records, NEW readable \in BOOLEAN,
           Pending(s), Advance(s, Parts(s), records, readable),
           Shows(s, records) \subseteq ever, s = "sockets" => records \subseteq Sockets,
           Told(s, records, readable)
    PROVE  PostureInv'
  <1> USE PostureAssumption
  <1>1. /\ next[s] \in 0..4 /\ next[s] < Parts(s) /\ Parts(s) \in 1..4
        /\ got[s] = "pending" /\ ~settled /\ s \in scope
    BY DEF PostureInv, PostureTypeOK, ProgressInv, Pending, Parts
  <1>2. /\ UNCHANGED <<os, host, scope, settled, ledger, always, ever, scans, changes>>
        /\ \A t \in Sources :
               /\ t # s => next'[t] = next[t] /\ got'[t] = got[t]
               /\ t # s => (t \in unread' <=> t \in unread)
        /\ next'[s] = next[s] + 1
        /\ got'[s] = IF next[s] + 1 = Parts(s) THEN "Available" ELSE "pending"
        /\ readable => unread' = unread
        /\ ~readable => s \in unread'
        /\ payload' = [payload EXCEPT ![s] = @ \cup records]
    BY <1>1 DEF PostureInv, PostureTypeOK, Advance
  <1>3. PostureTypeOK'
    <2>1. payload'["sockets"] \subseteq Sockets /\ DOMAIN payload' = Sources
      BY <1>2 DEF PostureInv, PostureTypeOK, Sources
    <2>2. next' \in [Sources -> 0..4]
      BY <1>1 DEF PostureInv, PostureTypeOK, Advance
    <2>3. got' \in [Sources -> {"pending", "missing", "Available", "Unsupported"}]
      BY <1>1 DEF PostureInv, PostureTypeOK, Advance
    <2>4. room' \in [Sources -> Nat \cup {Unsized}] /\ unread' \subseteq Sources
      BY DEF PostureInv, PostureTypeOK, Advance
    <2> QED
      BY <1>2, <2>1, <2>2, <2>3, <2>4 DEF PostureInv, PostureTypeOK
  <1>4. ProgressInv'
    <2>1. \A t : Parts(t)' = Parts(t)
      BY <1>2, PlatformDecides
    <2>2. ASSUME NEW t \in Sources
          PROVE  /\ got'[t] = "pending" => next'[t] < Parts(t)
                 /\ got'[t] = "Available" /\ t \notin unread' => next'[t] = Parts(t)
                 /\ got'[t] # "missing" => t \in scope
      <3>1. CASE t = s
        BY <1>1, <1>2, <3>1
      <3>2. CASE t # s
        BY <1>2, <3>2 DEF PostureInv, ProgressInv
      <3> QED
        BY <3>1, <3>2
    <2> QED
      BY <1>1, <1>2, <2>1, <2>2 DEF ProgressInv
  <1>5. WatchInv'
    BY <1>2 DEF PostureInv, WatchInv, Holding
  <1>6. Raised' = Raised \cup Shows(s, records)
    BY <1>2, RaisedNext DEF PostureInv, PostureTypeOK
  <1>7. SoundInv'
    BY <1>2, <1>6 DEF PostureInv, SoundInv
  <1>8. CompleteInv'
    <2>1. SUFFICES ASSUME NEW f \in Findings, NEW t \in Sources, t = DomainOf[f[1]],
                          f \in always, InSight(f), t \notin unread',
                          got'[t] \in {"pending", "Available"}, Part(f) <= next'[t]
                   PROVE  f \in Raised'
      BY <1>2, PlatformDecides, FindingsHaveParts DEF CompleteInv
    <2>2. Part(f) \in 1..3
      BY FindingsHaveParts
    <2>3. CASE t # s
      <3>1. f \in Raised
        BY <1>2, <2>1, <2>3 DEF PostureInv, CompleteInv
      <3> QED
        BY <1>6, <3>1
    <2>4. CASE t = s
      <3>1. readable /\ s \notin unread
        BY <1>2, <2>1, <2>4
      <3>2. CASE Part(f) <= next[s]
        <4>1. f \in Raised
          BY <1>1, <2>1, <2>4, <3>1, <3>2 DEF PostureInv, CompleteInv
        <4> QED
          BY <1>6, <4>1
      <3>3. CASE Part(f) = next[s] + 1
        <4>1. f \in Shows(s, records)
          BY <2>1, <2>4, <3>1, <3>3 DEF Told
        <4> QED
          BY <1>6, <4>1
      <3> QED
        BY <1>1, <1>2, <2>1, <2>2, <2>4, <3>2, <3>3
    <2> QED
      BY <2>3, <2>4
  <1>9. LedgerTellsTheHost'
    BY <1>1, <1>2 DEF LedgerTellsTheHost
  <1> QED
    BY <1>3, <1>4, <1>5, <1>7, <1>8, <1>9 DEF PostureInv

\* Whatever is wrong with a host is a finding.
LEMMA HoldingIsFindings == \A h \in Host : Holding(h) \subseteq Findings
  BY DEF Holding, Host, Findings, Listeners

\* An empty payload raises nothing.
LEMMA NothingRaised ==
    payload = [s \in Sources |-> {}] => Raised = {}
  BY ShowsOf, ShowsEach

\* A scan that has just begun, of whatever the host is then.
Beginning ==
    /\ os \in Platforms /\ host \in Host /\ scope \in Scopes /\ got = Asked(scope)
    /\ payload = [s \in Sources |-> {}]
    /\ next = [s \in Sources |-> 0] /\ room = [s \in Sources |-> Unsized]
    /\ unread = {} /\ settled = FALSE
    /\ always = Holding(host) /\ ever = Holding(host)
    /\ ledger \in [Findings -> FindingStatuses]
    /\ scans \in 1..MaxScans /\ changes \in 0..MaxChanges

\* A scan that has just begun has read nothing and seen one moment.
LEMMA BeginsWell == Beginning => PostureInv
  <1> SUFFICES ASSUME Beginning PROVE PostureInv
    OBVIOUS
  <1>1. Raised = {}
    BY NothingRaised DEF Beginning
  <1>2. \A s \in Sources : got[s] = IF s \in scope THEN "pending" ELSE "missing"
    BY DEF Beginning, Asked
  <1>3. \A s : Parts(s) \in 1..4
    BY DEF Parts
  <1>4. PostureTypeOK
    <2>1. ever \subseteq Findings /\ always = ever
      BY HoldingIsFindings DEF Beginning
    <2>2. payload["sockets"] = {} /\ DOMAIN payload = Sources
      BY DEF Beginning, Sources
    <2>3. got \in [Sources -> {"pending", "missing", "Available", "Unsupported"}]
      BY DEF Beginning, Asked
    <2>4. next \in [Sources -> 0..4] /\ room \in [Sources -> Nat \cup {Unsized}]
      BY DEF Beginning
    <2> QED
      BY <2>1, <2>2, <2>3, <2>4 DEF Beginning, PostureTypeOK
  <1>5. ProgressInv
    BY <1>2, <1>3 DEF Beginning, ProgressInv
  <1>6. WatchInv /\ SoundInv
    BY <1>1 DEF Beginning, WatchInv, SoundInv
  <1>7. CompleteInv
    <2>1. \A f \in Findings : Part(f) \in 1..3 /\ DomainOf[f[1]] \in Sources
      BY FindingsHaveParts
    <2>2. \A s \in Sources : next[s] = 0
      BY DEF Beginning
    <2> QED
      BY <2>1, <2>2 DEF CompleteInv
  <1>8. LedgerTellsTheHost
    BY DEF Beginning, LedgerTellsTheHost
  <1> QED
    BY <1>4, <1>5, <1>6, <1>7, <1>8 DEF PostureInv

\* The first scan begins.
LEMMA PostureInitially == PostureInit => PostureInv
  <1> SUFFICES ASSUME PostureInit PROVE Beginning
    BY BeginsWell
  <1>1. ledger \in [Findings -> FindingStatuses]
    BY PostureAssumption DEF PostureInit
  <1> QED
    BY <1>1, PostureAssumption DEF PostureInit, Beginning

\* And so does each further one.
LEMMA NextScanStep == ASSUME PostureInv, NextScan PROVE PostureInv'
  <1>1. Beginning'
    <2>1. scans + 1 \in 1..MaxScans
      BY PostureAssumption DEF PostureInv, PostureTypeOK, NextScan
    <2>2. UNCHANGED <<os, host, ledger, changes>> /\ scans' = scans + 1
      BY DEF NextScan
    <2>3. /\ scope' \in Scopes /\ got' = Asked(scope')
          /\ payload' = [s \in Sources |-> {}]
          /\ next' = [s \in Sources |-> 0] /\ room' = [s \in Sources |-> Unsized]
          /\ unread' = {} /\ settled' = FALSE
          /\ always' = Holding(host) /\ ever' = Holding(host)
      BY DEF NextScan, Begun
    <2>4. Holding(host)' = Holding(host) /\ Asked(scope)' = Asked(scope')
      BY <2>2 DEF Holding, Asked
    <2> QED
      BY <2>1, <2>2, <2>3, <2>4 DEF PostureInv, PostureTypeOK, Beginning
  <1>2. (Beginning => PostureInv)'
    BY BeginsWell, PTL
  <1> QED
    BY <1>1, <1>2

\* Nothing is read: the host changes, or a buffer is sized.
LEMMA NothingRead ==
    ASSUME PostureInv, UNCHANGED <<os, scope, got, payload, next, unread, settled, ledger>>,
           ~settled, PostureTypeOK', WatchInv', always' \subseteq always, ever \subseteq ever'
    PROVE  PostureInv'
  <1>1. ProgressInv'
    BY PlatformDecides DEF PostureInv, ProgressInv
  <1>2. Raised' = Raised
    BY DEF Raised
  <1>3. SoundInv'
    BY <1>2 DEF PostureInv, SoundInv
  <1>4. CompleteInv'
    BY <1>2, PlatformDecides DEF PostureInv, CompleteInv
  <1>5. LedgerTellsTheHost'
    BY DEF LedgerTellsTheHost
  <1> QED
    BY <1>1, <1>3, <1>4, <1>5 DEF PostureInv

\* A change of the host narrows what was always so and widens what ever was.
LEMMA ChangesStep ==
    ASSUME PostureInv, NEW s \in Sources, NEW h \in Host, Changes(s, h)
    PROVE  PostureInv'
  <1>1. /\ UNCHANGED <<os, scope, got, payload, next, room, unread, settled, ledger, scans>>
        /\ got[s] = "pending" /\ changes < MaxChanges /\ changes' = changes + 1 /\ host' = h
        /\ always' = always \cap Holding(h) /\ ever' = ever \cup Holding(h)
    BY DEF Changes, scan
  <1>2. ~settled
    BY <1>1 DEF PostureInv, ProgressInv
  <1>3. PostureTypeOK'
    BY <1>1, HoldingIsFindings, PostureAssumption DEF PostureInv, PostureTypeOK
  <1>4. Holding(host)' = Holding(h)
    BY <1>1 DEF Holding
  <1>5. WatchInv'
    BY <1>1, <1>4 DEF WatchInv
  <1> QED
    BY <1>1, <1>2, <1>3, <1>5, NothingRead

\* Each change of the host leads to a host.
LEMMA HostSteps ==
    ASSUME PostureInv,
           \/ \E s \in Sockets : SocketChanges(s)
           \/ \E i \in DOMAIN Profiles : ProfileSwitched(Profiles[i])
           \/ \E a \in Accounts : AccountSwitched(a)
           \/ \E v \in Services : ServiceChanges(v)
    PROVE  PostureInv'
  <1>1. host \in Host
    BY DEF PostureInv, PostureTypeOK
  <1>2. CASE \E s \in Sockets : SocketChanges(s)
    <2>1. PICK s \in Sockets : SocketChanges(s)
      BY <1>2
    <2>2. [host EXCEPT !.sockets = Toggled(@, s)] \in Host
      BY <1>1 DEF Host, Toggled
    <2> QED
      BY <2>1, <2>2, ChangesStep DEF SocketChanges, Sources
  <1>3. CASE \E i \in DOMAIN Profiles : ProfileSwitched(Profiles[i])
    <2>1. PICK i \in DOMAIN Profiles : ProfileSwitched(Profiles[i])
      BY <1>3
    <2>2. [host EXCEPT !.disabled = Toggled(@, Profiles[i])] \in Host
      BY <1>1 DEF Host, Toggled
    <2> QED
      BY <2>1, <2>2, ChangesStep DEF ProfileSwitched, Sources
  <1>4. CASE \E a \in Accounts : AccountSwitched(a)
    <2>1. PICK a \in Accounts : AccountSwitched(a)
      BY <1>4
    <2>2. [host EXCEPT !.enabled = Toggled(@, a)] \in Host
      BY <1>1 DEF Host, Toggled
    <2> QED
      BY <2>1, <2>2, ChangesStep DEF AccountSwitched, Sources
  <1>5. CASE \E v \in Services : ServiceChanges(v)
    <2>1. PICK v \in Services : ServiceChanges(v)
      BY <1>5
    <2>2. [host EXCEPT !.services = Toggled(@, v)] \in Host
      BY <1>1 DEF Host, Toggled
    <2> QED
      BY <2>1, <2>2, ChangesStep DEF ServiceChanges, Sources
  <1> QED
    BY <1>2, <1>3, <1>4, <1>5

\* The rows of a table, and the services, can be counted.
LEMMA Countable ==
    ASSUME PostureTypeOK
    PROVE  \A t : Cardinality(Rows(t)) \in Nat /\ Cardinality(host.services) \in Nat
  <1>1. host.sockets \subseteq Sockets /\ host.services \subseteq Services
    BY DEF PostureTypeOK, Host
  <1>2. ASSUME NEW t PROVE Rows(t) \subseteq Sockets
    BY <1>1 DEF Rows
  <1> QED
    BY <1>1, <1>2, FS_Subset, FS_CardinalityType, PostureAssumption

\* A buffer is sized.
LEMMA SizedStep ==
    ASSUME PostureInv, NEW s \in Sources, NEW rows \in Nat, Pending(s), Sized(s, rows)
    PROVE  PostureInv'
  <1>1. UNCHANGED <<os, host, scope, got, payload, next, unread, settled, ledger, always, ever,
                    scans, changes>>
    BY DEF Sized
  <1>2. ~settled
    BY DEF PostureInv, ProgressInv, Pending
  <1>3. room' \in [Sources -> Nat \cup {Unsized}]
    BY DEF PostureInv, PostureTypeOK, Sized
  <1>4. PostureTypeOK'
    BY <1>1, <1>3 DEF PostureInv, PostureTypeOK
  <1>5. WatchInv'
    BY <1>1 DEF PostureInv, WatchInv, Holding
  <1> QED
    BY <1>1, <1>2, <1>4, <1>5, NothingRead

\* The two collectors that size buffers.
LEMMA SizeSteps == ASSUME PostureInv, SizeSockets \/ SizeServices PROVE PostureInv'
  <1>1. CASE SizeSockets
    BY <1>1, Countable, SizedStep DEF SizeSockets, Sources, PostureInv
  <1>2. CASE SizeServices
    BY <1>2, Countable, SizedStep DEF SizeServices, Sources, PostureInv
  <1> QED
    BY <1>1, <1>2

\* A collector that is lost takes with it what its own source showed, and no more.
LEMMA LostStep == ASSUME PostureInv, NEW s \in Sources, Lost(s) PROVE PostureInv'
  <1>1. /\ UNCHANGED <<os, host, scope, next, room, unread, settled, ledger, always, ever, scans,
                       changes>>
        /\ \A t \in Sources : got'[t] = IF t = s THEN "missing" ELSE got[t]
        /\ \A t \in Sources : payload'[t] = IF t = s THEN {} ELSE payload[t]
        /\ payload' = [payload EXCEPT ![s] = {}]
        /\ got[s] = "pending"
    BY DEF PostureInv, PostureTypeOK, Lost, Pending
  <1>2. ~settled
    BY <1>1 DEF PostureInv, ProgressInv
  <1>3. PostureTypeOK'
    <2>1. got' \in [Sources -> {"pending", "missing", "Available", "Unsupported"}]
      BY DEF PostureInv, PostureTypeOK, Lost
    <2>2. payload'["sockets"] \subseteq Sockets /\ DOMAIN payload' = Sources
      BY <1>1 DEF PostureInv, PostureTypeOK, Sources
    <2> QED
      BY <1>1, <2>1, <2>2 DEF PostureInv, PostureTypeOK
  <1>4. ProgressInv'
    <2>1. \A t : Parts(t)' = Parts(t)
      BY <1>1, PlatformDecides
    <2>2. ASSUME NEW t \in Sources
          PROVE  /\ got'[t] = "pending" => next'[t] < Parts(t)
                 /\ got'[t] = "Available" /\ t \notin unread' => next'[t] = Parts(t)
                 /\ got'[t] # "missing" => t \in scope'
      BY <1>1 DEF PostureInv, ProgressInv
    <2> QED
      BY <1>1, <1>2, <2>1, <2>2 DEF ProgressInv
  <1>5. WatchInv'
    BY <1>1 DEF PostureInv, WatchInv, Holding
  <1>6. SoundInv'
    BY <1>1, RaisedNext DEF PostureInv, PostureTypeOK, SoundInv
  <1>7. CompleteInv'
    <2>1. SUFFICES ASSUME NEW f \in Findings, NEW t \in Sources, t = DomainOf[f[1]],
                          f \in always, InSight(f), t \notin unread,
                          got'[t] \in {"pending", "Available"}, Part(f) <= next[t]
                   PROVE  f \in Raised'
      BY <1>1, PlatformDecides, FindingsHaveParts DEF CompleteInv
    <2>2. t # s /\ got'[t] = got[t]
      BY <1>1, <2>1
    <2>3. f \in Raised
      BY <2>1, <2>2 DEF PostureInv, CompleteInv
    <2>4. PICK u \in Sources : f \in Shows(u, payload[u])
      BY <2>3, ShowsOf
    <2>5. u = t
      BY <2>1, <2>4, ShowsOwn
    <2>6. f \in Shows(t, payload'[t])
      BY <1>1, <2>2, <2>4, <2>5
    <2> QED
      BY <2>6, RaisedHas
  <1>8. LedgerTellsTheHost'
    BY <1>1, <1>2 DEF LedgerTellsTheHost
  <1> QED
    BY <1>3, <1>4, <1>5, <1>6, <1>7, <1>8 DEF PostureInv

\* A stub reads nothing, and says of no part that it was read.
LEMMA StubStep == ASSUME PostureInv, NEW s \in Sources, ReadStub(s) PROVE PostureInv'
  <1>1. /\ UNCHANGED <<os, host, scope, payload, next, room, settled, ledger, always, ever, scans,
                       changes>>
        /\ \A t \in Sources : t # s => got'[t] = got[t]
        /\ got'[s] \in {"Available", "Unsupported"}
        /\ unread' = unread \cup {s}
        /\ got[s] = "pending"
    BY DEF PostureInv, PostureTypeOK, ReadStub, Pending
  <1>2. ~settled
    BY <1>1 DEF PostureInv, ProgressInv
  <1>3. PostureTypeOK'
    <2>1. got' \in [Sources -> {"pending", "missing", "Available", "Unsupported"}]
      BY DEF PostureInv, PostureTypeOK, ReadStub
    <2> QED
      BY <1>1, <2>1 DEF PostureInv, PostureTypeOK
  <1>4. ProgressInv'
    <2>1. \A t : Parts(t)' = Parts(t)
      BY <1>1, PlatformDecides
    <2>2. ASSUME NEW t \in Sources
          PROVE  /\ got'[t] = "pending" => next'[t] < Parts(t)
                 /\ got'[t] = "Available" /\ t \notin unread' => next'[t] = Parts(t)
                 /\ got'[t] # "missing" => t \in scope'
      BY <1>1 DEF PostureInv, ProgressInv
    <2> QED
      BY <1>1, <1>2, <2>1, <2>2 DEF ProgressInv
  <1>5. WatchInv'
    BY <1>1 DEF PostureInv, WatchInv, Holding
  <1>6. Raised' = Raised
    BY <1>1 DEF Raised
  <1>7. SoundInv'
    BY <1>1, <1>6 DEF PostureInv, SoundInv
  <1>8. CompleteInv'
    <2>1. SUFFICES ASSUME NEW f \in Findings, NEW t \in Sources, t = DomainOf[f[1]],
                          f \in always, InSight(f), t \notin unread',
                          got'[t] \in {"pending", "Available"}, Part(f) <= next[t]
                   PROVE  f \in Raised
      BY <1>1, <1>6, PlatformDecides, FindingsHaveParts DEF CompleteInv
    <2> QED
      BY <1>1, <2>1 DEF PostureInv, CompleteInv
  <1>9. LedgerTellsTheHost'
    BY <1>1, <1>2 DEF LedgerTellsTheHost
  <1> QED
    BY <1>3, <1>4, <1>5, <1>7, <1>8, <1>9 DEF PostureInv

-----------------------------------------------------------------------------
(* The collectors: what each takes was so, and shows what always was.      *)

\* The rows of a table are sockets of the host.
LEMMA RowsAreSo ==
    ASSUME PostureInv, NEW t
    PROVE  Rows(t) \subseteq Sockets /\ Shows("sockets", Rows(t)) \subseteq ever
  <1>1. Rows(t) \subseteq host.sockets /\ host.sockets \subseteq Sockets
    BY DEF PostureInv, PostureTypeOK, Host, Rows
  <1>2. \A ports : Exposed(Rows(t), ports) \subseteq Exposed(host.sockets, ports)
    BY <1>1 DEF Exposed
  <1>3. Net001(Rows(t)) \subseteq Holding(host) /\ Net002(Rows(t)) \subseteq Holding(host)
    BY <1>2 DEF Net001, Net002, Holding, Exposed
  <1> QED
    BY <1>1, <1>3, ShowsOf DEF PostureInv, WatchInv

\* A listener is among the rows of the table for its version of the protocol.
LEMMA RowsShow ==
    ASSUME PostureInv, NEW v \in BOOLEAN, NEW f \in Holding(host),
           DomainOf[f[1]] = "sockets", f[2][1] = "::" <=> v
    PROVE  f \in Shows("sockets", Rows(<<"tcp", v>>))
  <1>1. f[1] \in {"NET-001", "NET-002"}
    BY FindingsHaveParts DEF Holding
  <1>2. PICK ports \in {Plaintext, Databases} :
            /\ \/ f[1] = "NET-001" /\ ports = Plaintext
               \/ f[1] = "NET-002" /\ ports = Databases
            /\ f[2] \in Exposed(host.sockets, ports)
    BY <1>1 DEF Holding, Exposed
  <1>3. PICK q \in host.sockets :
            /\ q.protocol = "tcp" /\ q.state = "LISTEN"
            /\ q.address \in Wildcard /\ q.port \in ports
            /\ f[2] = <<q.address, q.port>>
    BY <1>2 DEF Exposed
  <1>4. f[2][1] = q.address
    BY <1>3
  <1>5. q \in Sockets /\ q.v6 \in BOOLEAN
    BY PostureAssumption DEF PostureInv, PostureTypeOK, Host
  <1>6. q.v6 <=> v
    BY <1>3, <1>4, <1>5, PostureAssumption
  <1>7. q.v6 = v
    BY <1>5, <1>6, Zenon
  <1>8. q \in Rows(<<"tcp", v>>)
    BY <1>3, <1>7 DEF Rows
  <1>9. f[2] \in Exposed(Rows(<<"tcp", v>>), ports)
    BY <1>3, <1>8 DEF Exposed
  <1>10. f = <<f[1], f[2]>>
    BY DEF Holding
  <1>11. f \in Net001(Rows(<<"tcp", v>>)) \cup Net002(Rows(<<"tcp", v>>))
    BY <1>2, <1>9, <1>10 DEF Net001, Net002
  <1> QED
    BY <1>11, ShowsOf

\* What a collector needs to show of the part it takes.
LEMMA AlwaysHolds ==
    ASSUME PostureInv, NEW s \in Sources, NEW records,
           \A f \in Findings \cap Holding(host) :
               DomainOf[f[1]] = s /\ InSight(f) /\ Part(f) = next[s] + 1 => f \in Shows(s, records)
    PROVE  \A readable \in BOOLEAN : Told(s, records, readable)
  BY DEF PostureInv, WatchInv, Told

\* A part that could not be read raises nothing and need not show anything.
LEMMA NotRead ==
    ASSUME PostureInv, NEW s \in Sources, Pending(s), Advance(s, Parts(s), {}, FALSE)
    PROVE  PostureInv'
  <1>1. Shows(s, {}) = {}
    BY ShowsEach
  <1>2. Told(s, {}, FALSE)
    BY DEF Told
  <1> QED
    BY <1>1, <1>2, Advanced

\* The order of the tables.
LEMMA TablesInOrder ==
    /\ Tables["windows"][1] = <<"tcp", FALSE>> /\ Tables["windows"][2] = <<"tcp", TRUE>>
    /\ Tables["linux"][1] = <<"tcp", FALSE>>
  <1>1. ASSUME NEW a, NEW b, NEW c, NEW d, NEW p, NEW q
        PROVE  /\ [windows |-> <<a, b, c, d>>, linux |-> <<p, q>>]["windows"][1] = a
               /\ [windows |-> <<a, b, c, d>>, linux |-> <<p, q>>]["windows"][2] = b
               /\ [windows |-> <<a, b, c, d>>, linux |-> <<p, q>>]["linux"][1] = p
    OBVIOUS
  <1> QED
    BY <1>1, Zenon DEF Tables

\* A table of Windows: each listener is in the one for its version of the protocol.
LEMMA TableStep ==
    ASSUME PostureInv, NEW protocol \in {"tcp", "udp"}, ReadTable(protocol)
    PROVE  PostureInv'
  <1>1. os = "windows" /\ Pending("sockets") /\ Parts("sockets") = 4 /\ "sockets" \in Sources
    BY DEF ReadTable, Windows, Parts, Sources
  <1>2. CASE Advance("sockets", 4, Rows(Table), TRUE)
    <2>1. ASSUME NEW f \in Findings \cap Holding(host), DomainOf[f[1]] = "sockets",
                 Part(f) = next["sockets"] + 1
          PROVE  f \in Shows("sockets", Rows(Table))
      <3>1. next["sockets"] \in 0..4
        BY DEF PostureInv, PostureTypeOK, Sources
      <3>2. CASE f[2][1] = "::"
        <4>1. next["sockets"] = 1
          BY <2>1, <3>1, <3>2 DEF Part
        <4>2. Table = <<"tcp", TRUE>>
          <5>1. Table = Tables["windows"][2]
            BY <1>1, <4>1 DEF Table
          <5> QED
            BY <5>1, TablesInOrder, Zenon
        <4>3. f \in Holding(host) /\ DomainOf[f[1]] = "sockets"
          BY <2>1
        <4>4. f[2][1] = "::" <=> TRUE
          BY <3>2, Zenon
        <4>5. f \in Shows("sockets", Rows(<<"tcp", TRUE>>))
          BY <4>3, <4>4, RowsShow, Zenon
        <4> QED
          BY <4>2, <4>5
      <3>3. CASE f[2][1] # "::"
        <4>1. next["sockets"] = 0
          BY <2>1, <3>1, <3>3 DEF Part
        <4>2. Table = <<"tcp", FALSE>>
          <5>1. Table = Tables["windows"][1]
            BY <1>1, <4>1 DEF Table
          <5> QED
            BY <5>1, TablesInOrder, Zenon
        <4>3. f \in Holding(host) /\ DomainOf[f[1]] = "sockets"
          BY <2>1
        <4>4. f[2][1] = "::" <=> FALSE
          BY <3>3, Zenon
        <4>5. f \in Shows("sockets", Rows(<<"tcp", FALSE>>))
          BY <4>3, <4>4, RowsShow, Zenon
        <4> QED
          BY <4>2, <4>5
      <3> QED
        BY <3>2, <3>3
    <2>2. Told("sockets", Rows(Table), TRUE)
      BY <1>1, <2>1, AlwaysHolds
    <2> QED
      BY <1>1, <1>2, <2>2, RowsAreSo, Advanced
  <1>3. CASE Advance("sockets", 4, {}, FALSE)
    BY <1>1, <1>3, NotRead
  <1> QED
    BY <1>2, <1>3 DEF ReadTable

\* A table of Linux, which has those for IPv4 only.
LEMMA ProcNetStep == ASSUME PostureInv, ReadProcNet PROVE PostureInv'
  <1>1. os = "linux" /\ Pending("sockets") /\ Parts("sockets") = 2 /\ "sockets" \in Sources
    BY DEF ReadProcNet, Parts, Sources
  <1>2. CASE Advance("sockets", 2, Rows(Table), TRUE)
    <2>1. ASSUME NEW f \in Findings \cap Holding(host), DomainOf[f[1]] = "sockets", InSight(f),
                 Part(f) = next["sockets"] + 1
          PROVE  f \in Shows("sockets", Rows(Table))
      <3>1. next["sockets"] \in 0..4
        BY DEF PostureInv, PostureTypeOK, Sources
      <3>2. f[2][1] # "::"
        BY <1>1, <2>1 DEF InSight
      <3>3. next["sockets"] = 0
        BY <2>1, <3>1, <3>2 DEF Part
      <3>4. Table = <<"tcp", FALSE>>
        <4>1. Table = Tables["linux"][1]
          BY <1>1, <3>3 DEF Table
        <4> QED
          BY <4>1, TablesInOrder, Zenon
      <3>5. f \in Holding(host) /\ DomainOf[f[1]] = "sockets"
        BY <2>1
      <3>6. f[2][1] = "::" <=> FALSE
        BY <3>2, Zenon
      <3>7. f \in Shows("sockets", Rows(<<"tcp", FALSE>>))
        BY <3>5, <3>6, RowsShow, Zenon
      <3> QED
        BY <3>4, <3>7
    <2>2. Told("sockets", Rows(Table), TRUE)
      BY <1>1, <2>1, AlwaysHolds
    <2> QED
      BY <1>1, <1>2, <2>2, RowsAreSo, Advanced
  <1>3. CASE Advance("sockets", 2, {}, FALSE)
    BY <1>1, <1>3, NotRead
  <1>4. PICK readable \in BOOLEAN :
            Advance("sockets", 2, IF readable THEN Rows(Table) ELSE {}, readable)
    BY DEF ReadProcNet
  <1>5. CASE readable
    <2>1. readable = TRUE /\ (IF readable THEN Rows(Table) ELSE {}) = Rows(Table)
      BY <1>5
    <2> QED
      BY <1>2, <1>4, <2>1
  <1>6. CASE ~readable
    <2>1. readable = FALSE /\ (IF readable THEN Rows(Table) ELSE {}) = {}
      BY <1>6
    <2> QED
      BY <1>3, <1>4, <2>1
  <1> QED
    BY <1>5, <1>6

\* What a source besides the sockets shows of the host: no more than is so, and when read all of it.
LEMMA RecordStep ==
    ASSUME PostureInv, NEW s \in Sources \ {"sockets"}, NEW records, NEW readable \in BOOLEAN,
           Pending(s), Advance(s, Parts(s), records, readable),
           Shows(s, records) \subseteq Holding(host),
           readable => \A f \in Findings \cap Holding(host) :
               DomainOf[f[1]] = s /\ InSight(f) /\ Part(f) = next[s] + 1 => f \in Shows(s, records)
    PROVE  PostureInv'
  <1>1. Told(s, records, readable)
    BY DEF PostureInv, WatchInv, Told
  <1>2. Shows(s, records) \subseteq ever
    BY DEF PostureInv, WatchInv
  <1> QED
    BY <1>1, <1>2, Advanced

\* A profile is raised only when its key was read and said so.
LEMMA ProfileStep == ASSUME PostureInv, ReadProfile PROVE PostureInv'
  <1> DEFINE profile == Profiles[next["firewall"] + 1]
             record(b) == [profile |-> profile, enabled |-> b => profile \notin host.disabled]
  <1>1. PICK readable \in BOOLEAN : Advance("firewall", 3, {record(readable)}, readable)
    BY DEF ReadProfile
  <1>2. Pending("firewall") /\ Parts("firewall") = 3 /\ "firewall" \in Sources \ {"sockets"}
    BY DEF ReadProfile, Parts, Sources
  <1>3. next["firewall"] \in 0..2
    BY <1>2 DEF PostureInv, PostureTypeOK, ProgressInv, Pending
  <1>4. profile \in {Profiles[i] : i \in DOMAIN Profiles}
    BY <1>3 DEF Profiles
  <1>5. record(readable).profile = profile
    OBVIOUS
  <1>6. record(readable).enabled <=> (readable => profile \notin host.disabled)
    OBVIOUS
  <1> HIDE DEF record, profile
  <1>7. \A f : f \in Shows("firewall", {record(readable)}) <=>
            f = <<"FW-001", profile>> /\ readable /\ profile \in host.disabled
    BY <1>5, <1>6, ShowsOf DEF Fw001
  <1>8. Shows("firewall", {record(readable)}) \subseteq Holding(host)
    BY <1>7 DEF Holding
  <1>9. ASSUME NEW f \in Findings \cap Holding(host), DomainOf[f[1]] = "firewall",
               Part(f) = next["firewall"] + 1, readable
        PROVE  f \in Shows("firewall", {record(readable)})
    <2>1. f[1] = "FW-001"
      BY <1>9, FindingsHaveParts DEF RuleIds
    <2>2. f = <<"FW-001", f[2]>> /\ f[2] \in host.disabled
      BY <2>1 DEF Holding
    <2>3. PICK i \in DOMAIN Profiles : Profiles[i] = f[2]
      BY <2>2 DEF PostureInv, PostureTypeOK, Host
    <2>4. Part(f) = CHOOSE j \in DOMAIN Profiles : Profiles[j] = f[2]
      BY <1>9 DEF Part
    <2>5. Profiles[Part(f)] = f[2]
      BY <2>3, <2>4
    <2> QED
      BY <1>7, <1>9, <2>2, <2>5 DEF profile
  <1> QED
    BY <1>1, <1>2, <1>8, <1>9, RecordStep

\* The accounts, taken at one moment.
LEMMA UsersStep == ASSUME PostureInv, ReadUsers PROVE PostureInv'
  <1> DEFINE record(a) == [username |-> a, enabled |-> a \in host.enabled]
             records(b) == {record(a) : a \in Accounts \cap (IF b THEN Accounts ELSE {})}
  <1>1. PICK readable \in BOOLEAN : Advance("users", 1, records(readable), readable)
    BY DEF ReadUsers
  <1>2. Pending("users") /\ Parts("users") = 1 /\ "users" \in Sources \ {"sockets"}
    BY DEF ReadUsers, Parts, Sources
  <1>3. \A a : record(a).username = a /\ (record(a).enabled <=> a \in host.enabled)
    OBVIOUS
  <1> HIDE DEF record
  <1>4. \A f : f \in Shows("users", records(readable)) <=>
            f = <<"USR-001", "Guest">> /\ readable /\ "Guest" \in host.enabled
    <2>1. \A r : r \in records(readable) <=> readable /\ \E a \in Accounts : r = record(a)
      OBVIOUS
    <2>2. "Guest" \in Accounts
      BY DEF Accounts
    <2> HIDE DEF records
    <2> QED
      BY <1>3, <2>1, <2>2, ShowsOf DEF Usr001
  <1> HIDE DEF records
  <1>5. Shows("users", records(readable)) \subseteq Holding(host)
    BY <1>4 DEF Holding
  <1>6. ASSUME NEW f \in Findings \cap Holding(host), DomainOf[f[1]] = "users", readable
        PROVE  f \in Shows("users", records(readable))
    <2>1. f[1] = "USR-001"
      BY <1>6, FindingsHaveParts DEF RuleIds
    <2>2. f = <<"USR-001", "Guest">> /\ "Guest" \in host.enabled
      BY <2>1 DEF Holding
    <2> QED
      BY <1>4, <1>6, <2>2
  <1> QED
    BY <1>1, <1>2, <1>5, <1>6, RecordStep

\* The services, of which nothing can be raised.
LEMMA ServicesStep == ASSUME PostureInv, ReadServices PROVE PostureInv'
  <1> DEFINE records == {[service |-> v, path |-> "none"] : v \in host.services}
  <1>1. Pending("services") /\ Parts("services") = 1 /\ "services" \in Sources \ {"sockets"}
    BY DEF ReadServices, Parts, Sources
  <1>2. CASE Advance("services", 1, records, TRUE)
    <2>1. Shows("services", records) = {}
      <3>1. \A r \in records : r.path = "none"
        OBVIOUS
      <3> HIDE DEF records
      <3> QED
        BY <3>1, ShowsOf DEF Svc001
    <2>2. ASSUME NEW f \in Findings, DomainOf[f[1]] = "services"
          PROVE  ~InSight(f)
      <3>1. f[1] = "SVC-001"
        BY <2>2, FindingsHaveParts DEF RuleIds
      <3> QED
        BY <2>2, <3>1 DEF InSight
    <2> HIDE DEF records
    <2> QED
      BY <1>1, <1>2, <2>1, <2>2, RecordStep
  <1>3. CASE Advance("services", 1, {}, FALSE)
    BY <1>1, <1>3, NotRead
  <1> QED
    BY <1>2, <1>3 DEF ReadServices

\* The setting is raised only when it was read and is off.
LEMMA OsConfigStep == ASSUME PostureInv, ReadOsConfig PROVE PostureInv'
  <1> DEFINE value(b) == IF ~b THEN "N/A"
                         ELSE CASE host.secureBoot = "on" -> "1"
                                [] host.secureBoot = "off" -> "0"
                                [] OTHER -> "N/A"
             record(b) == [check |-> "SecureBoot", value |-> value(b)]
  <1>1. PICK readable \in BOOLEAN : Advance("os_config", 1, {record(readable)}, readable)
    BY DEF ReadOsConfig
  <1>2. Pending("os_config") /\ Parts("os_config") = 1 /\ "os_config" \in Sources \ {"sockets"}
    BY DEF ReadOsConfig, Parts, Sources
  <1>3. record(readable).check = "SecureBoot" /\ record(readable).value = value(readable)
    OBVIOUS
  <1>4. value(readable) = "0" <=> readable /\ host.secureBoot = "off"
    OBVIOUS
  <1> HIDE DEF record, value
  <1>5. \A f : f \in Shows("os_config", {record(readable)}) <=>
            f = <<"OS-001", "SecureBoot">> /\ readable /\ host.secureBoot = "off"
    BY <1>3, <1>4, ShowsOf DEF Os001
  <1>6. Shows("os_config", {record(readable)}) \subseteq Holding(host)
    BY <1>5 DEF Holding
  <1>7. ASSUME NEW f \in Findings \cap Holding(host), DomainOf[f[1]] = "os_config", readable
        PROVE  f \in Shows("os_config", {record(readable)})
    <2>1. f[1] = "OS-001"
      BY <1>7, FindingsHaveParts DEF RuleIds
    <2>2. f = <<"OS-001", "SecureBoot">> /\ host.secureBoot = "off"
      BY <2>1 DEF Holding
    <2> QED
      BY <1>5, <1>7, <2>2
  <1> QED
    BY <1>1, <1>2, <1>6, <1>7, RecordStep

-----------------------------------------------------------------------------
(* The ledger: a source that was read to the end showed what was so.       *)

\* The part that shows a finding is one of those its source has.
LEMMA PartWithin == \A f \in Findings : Part(f) <= Parts(DomainOf[f[1]])
  <1>1. SUFFICES ASSUME NEW f \in Findings PROVE Part(f) <= Parts(DomainOf[f[1]])
    OBVIOUS
  <1>2. Part(f) \in 1..3
    BY FindingsHaveParts
  <1>3. CASE DomainOf[f[1]] = "sockets"
    BY <1>3 DEF Part, Parts
  <1>4. CASE DomainOf[f[1]] = "firewall"
    BY <1>2, <1>4 DEF Parts
  <1>5. CASE DomainOf[f[1]] \notin {"sockets", "firewall"}
    BY <1>5 DEF Part, Parts
  <1> QED
    BY <1>3, <1>4, <1>5

\* What was read to the end and always so is raised, and what is raised was so.
LEMMA SettleStep == ASSUME PostureInv, Settle PROVE PostureInv'
  <1>1. /\ UNCHANGED <<os, host, scope, got, payload, next, room, unread, always, ever, scans,
                       changes>>
        /\ settled' = TRUE /\ \A s \in Sources : got[s] # "pending"
    BY DEF Settle, scan
  <1>2. \A f \in Findings :
            /\ ledger'[f] \in FindingStatuses
            /\ f \in Raised => ledger'[f] \in {"OPEN", "SUPPRESSED"}
            /\ f \notin Raised /\ f[1] \in Telemetric!Evaluated(scope, got) => ledger'[f] # "OPEN"
    BY DEF PostureInv, PostureTypeOK, Settle, Upserted, FindingStatuses
  <1>3. ledger' \in [Findings -> FindingStatuses]
    <2>1. ledger' = [f \in Findings |-> ledger'[f]]
      BY DEF Settle
    <2> QED
      BY <1>2, <2>1
  <1>4. PostureTypeOK'
    BY <1>1, <1>3 DEF PostureInv, PostureTypeOK
  <1>5. ProgressInv'
    BY <1>1, PlatformDecides DEF PostureInv, ProgressInv
  <1>6. WatchInv'
    BY <1>1 DEF PostureInv, WatchInv, Holding
  <1>7. Raised' = Raised
    BY <1>1 DEF Raised
  <1>8. SoundInv'
    BY <1>1, <1>7 DEF PostureInv, SoundInv
  <1>9. CompleteInv'
    BY <1>1, <1>7, PlatformDecides DEF PostureInv, CompleteInv
  <1>10. ASSUME NEW f \in Findings, got[DomainOf[f[1]]] = "Available",
                DomainOf[f[1]] \notin unread, InSight(f)
         PROVE  /\ f \in always => ledger'[f] \in {"OPEN", "SUPPRESSED"}
                /\ f \notin ever => ledger'[f] # "OPEN"
    <2> DEFINE s == DomainOf[f[1]]
    <2>1. s \in Sources /\ f[1] \in RuleIds /\ s \in scope /\ next[s] = Parts(s)
      BY <1>10, FindingsHaveParts DEF PostureInv, ProgressInv
    <2>2. f \in always => f \in Raised
      BY <1>10, <2>1, PartWithin DEF PostureInv, CompleteInv
    <2>3. s # "topology"
      BY <2>1 DEF Sources
    <2>4. f[1] \in Telemetric!Evaluated(scope, got)
      BY <1>10, <2>1, <2>3 DEF Telemetric!Evaluated, Telemetric!Usable, Telemetric!Privilege
    <2>5. f \in Raised => f \in ever
      BY DEF PostureInv, SoundInv
    <2> QED
      BY <1>2, <2>2, <2>4, <2>5
  <1>11. LedgerTellsTheHost'
    BY <1>1, <1>10, PlatformDecides DEF LedgerTellsTheHost
  <1> QED
    BY <1>4, <1>5, <1>6, <1>8, <1>9, <1>11 DEF PostureInv

\* Nothing moves.
LEMMA PostureStutter == ASSUME PostureInv, UNCHANGED postureVars PROVE PostureInv'
  <1>1. UNCHANGED <<os, host, scope, got, payload, next, room, unread, settled, ledger, always,
                    ever, scans, changes>>
    BY DEF postureVars, scan
  <1>2. PostureTypeOK'
    BY <1>1 DEF PostureInv, PostureTypeOK
  <1>3. ProgressInv'
    BY <1>1, PlatformDecides DEF PostureInv, ProgressInv
  <1>4. WatchInv'
    BY <1>1 DEF PostureInv, WatchInv, Holding
  <1>5. Raised' = Raised
    BY <1>1 DEF Raised
  <1>6. SoundInv'
    BY <1>1, <1>5 DEF PostureInv, SoundInv
  <1>7. CompleteInv'
    BY <1>1, <1>5, PlatformDecides DEF PostureInv, CompleteInv
  <1>8. LedgerTellsTheHost'
    BY <1>1, PlatformDecides DEF PostureInv, LedgerTellsTheHost
  <1> QED
    BY <1>2, <1>3, <1>4, <1>6, <1>7, <1>8 DEF PostureInv

\* Each step of a scan and of the host preserves the invariant.
LEMMA PostureInductive == ASSUME PostureInv, [PostureNext]_postureVars PROVE PostureInv'
  <1>1. CASE \/ \E s \in Sockets : SocketChanges(s)
             \/ \E i \in DOMAIN Profiles : ProfileSwitched(Profiles[i])
             \/ \E a \in Accounts : AccountSwitched(a)
             \/ \E v \in Services : ServiceChanges(v)
    BY <1>1, HostSteps
  <1>2. CASE SizeSockets \/ SizeServices
    BY <1>2, SizeSteps
  <1>3. CASE ReadTcp \/ ReadUdp
    BY <1>3, TableStep DEF ReadTcp, ReadUdp
  <1>4. CASE ReadProcNet
    BY <1>4, ProcNetStep
  <1>5. CASE ReadProfile
    BY <1>5, ProfileStep
  <1>6. CASE ReadUsers
    BY <1>6, UsersStep
  <1>7. CASE ReadServices
    BY <1>7, ServicesStep
  <1>8. CASE ReadOsConfig
    BY <1>8, OsConfigStep
  <1>9. CASE \E s \in Sources : ReadStub(s) \/ Lost(s)
    BY <1>9, StubStep, LostStep
  <1>10. CASE Settle
    BY <1>10, SettleStep
  <1>11. CASE NextScan
    BY <1>11, NextScanStep
  <1>12. CASE UNCHANGED postureVars
    BY <1>12, PostureStutter
  <1> QED
    BY <1>1, <1>2, <1>3, <1>4, <1>5, <1>6, <1>7, <1>8, <1>9, <1>10, <1>11, <1>12
       DEF PostureNext

(***************************************************************************)
(* What a posture scan has raised lies at any moment between what has been *)
(* wrong with the host all along, as far as it was read, and what was so   *)
(* at some moment of the scan.                                             *)
(***************************************************************************)
THEOREM PostureInvariant == PostureSpec => []PostureInv
  BY PostureInitially, PostureInductive, PTL DEF PostureSpec

(***************************************************************************)
(* The host, the payloads and the ledger stay of their types.              *)
(***************************************************************************)
THEOREM PostureTypeCorrect == PostureSpec => []PostureTypeOK
  <1>1. PostureInv => PostureTypeOK
    BY DEF PostureInv
  <1> QED
    BY <1>1, PostureInvariant, PTL

(***************************************************************************)
(* After a scan the ledger has as open what was wrong all through it, and  *)
(* nothing that never was, for every source that was read.                 *)
(***************************************************************************)
THEOREM LedgersTellTheHost == PostureSpec => []LedgerTellsTheHost
  <1>1. PostureInv => LedgerTellsTheHost
    BY DEF PostureInv
  <1> QED
    BY <1>1, PostureInvariant, PTL

\* Only the end of a scan touches the ledger.
LEMMA LedgerKept == ASSUME [PostureNext]_postureVars PROVE Settle \/ ledger' = ledger
  <1>1. ASSUME NEW s, NEW h, Changes(s, h) PROVE ledger' = ledger
    BY <1>1 DEF Changes
  <1>2. ASSUME NEW s, NEW n, NEW records, NEW readable, Advance(s, n, records, readable)
        PROVE  ledger' = ledger
    BY <1>2 DEF Advance
  <1>3. ASSUME NEW s, NEW rows, Sized(s, rows) PROVE ledger' = ledger
    BY <1>3 DEF Sized
  <1>4. CASE \/ \E s \in Sockets : SocketChanges(s)
             \/ \E i \in DOMAIN Profiles : ProfileSwitched(Profiles[i])
             \/ \E a \in Accounts : AccountSwitched(a)
             \/ \E v \in Services : ServiceChanges(v)
    BY <1>1, <1>4 DEF SocketChanges, ProfileSwitched, AccountSwitched, ServiceChanges
  <1>5. CASE SizeSockets \/ SizeServices
    BY <1>3, <1>5 DEF SizeSockets, SizeServices
  <1>6. CASE ReadTcp \/ ReadUdp \/ ReadServices
    BY <1>2, <1>6 DEF ReadTcp, ReadUdp, ReadTable, ReadServices
  <1>7. CASE ReadProcNet \/ ReadProfile \/ ReadUsers \/ ReadOsConfig
    BY <1>2, <1>7 DEF ReadProcNet, ReadProfile, ReadUsers, ReadOsConfig
  <1>8. CASE \E s \in Sources : ReadStub(s) \/ Lost(s)
    BY <1>8 DEF ReadStub, Lost
  <1>9. CASE NextScan \/ UNCHANGED postureVars
    BY <1>9 DEF NextScan, postureVars
  <1> QED
    BY <1>4, <1>5, <1>6, <1>7, <1>8, <1>9 DEF PostureNext

(***************************************************************************)
(* A finding opens only if it was so at some moment of the scan.           *)
(***************************************************************************)
THEOREM NoAlarmIsFalse == PostureSpec => NoFalseAlarm
  <1> DEFINE Honest == \A f \in Findings :
                 ledger'[f] = "OPEN" => ledger[f] = "OPEN" \/ f \in ever
  <1>1. ASSUME PostureInv, [PostureNext]_postureVars PROVE [Honest]_postureVars
    <2>1. CASE Settle
      <3>1. ASSUME NEW f \in Findings, f \notin Raised, ledger[f] # "OPEN"
            PROVE  ledger'[f] # "OPEN"
        BY <2>1, <3>1 DEF Settle
      <3> QED
        BY <1>1, <3>1 DEF PostureInv, SoundInv
    <2>2. CASE ledger' = ledger
      BY <2>2
    <2> QED
      BY <1>1, <2>1, <2>2, LedgerKept
  <1>2. PostureInv /\ [PostureNext]_postureVars => [Honest]_postureVars
    BY <1>1
  <1> QED
    BY <1>2, PostureInvariant, PTL DEF PostureSpec, NoFalseAlarm
=============================================================================

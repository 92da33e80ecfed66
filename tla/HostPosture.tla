---------------------------- MODULE HostPosture ----------------------------
(***************************************************************************)
(* The posture side of a scan, a full one or one of a single domain: the   *)
(* collectors of sockets, firewall profiles, accounts, services and the    *)
(* firmware setting take their tables piece by piece, side by side, while  *)
(* sockets open and close, profiles are switched, accounts enabled and     *)
(* services installed; a table may outgrow the buffer it was sized for, a  *)
(* key or a file may not be readable.  The baseline rules then judge the   *)
(* payloads and the ledger follows.  The statements this takes are the     *)
(* subject of ScanCycle, the network collectors that of NetworkScan.       *)
(***************************************************************************)
EXTENDS Naturals, Sequences, FiniteSets

CONSTANTS
    Sockets,     \* sockets that may be open: [protocol, v6, address, port, state]
    Wildcard,    \* the addresses "0.0.0.0" and "::"
    Plaintext,   \* ports 80, 21 and 23
    Databases,   \* ports 5432, 3306, 27017, 6379 and 1433
    Services,    \* services that may be installed
    Unquoted,    \* those whose path has a blank and no quotes
    Hosts,       \* the hosts a behaviour starts with
    Scopes,      \* the sources a scan may cover
    Ledgers,     \* the statuses that earlier scans may have left everywhere
    Unsized,     \* no buffer has been sized yet
    MaxScans, MaxChanges   \* bounds on the scans and on the changes of the host

Platforms == {"linux", "windows", "macos"}

Sources == {"sockets", "firewall", "users", "services", "os_config"}

Profiles == <<"Domain", "Private", "Public">>

Accounts == {"Guest", "Administrator"}

FindingStatuses == {"NONE", "OPEN", "RESOLVED", "SUPPRESSED"}

Host == [sockets : SUBSET Sockets, disabled : SUBSET {Profiles[i] : i \in DOMAIN Profiles},
         enabled : SUBSET Accounts, services : SUBSET Services,
         secureBoot : {"on", "off", "absent"}]

\* "::" is the wildcard of the tables for IPv6, and of no other.
ASSUME PostureAssumption ==
    /\ IsFiniteSet(Sockets) /\ IsFiniteSet(Services)
    /\ Sockets \subseteq [protocol : {"tcp", "udp"}, v6 : BOOLEAN, address : STRING, port : Nat,
                          state : {"LISTEN", "ESTABLISHED", "BOUND"}]
    /\ \A s \in Sockets : s.address \in Wildcard => (s.v6 <=> s.address = "::")
    /\ Scopes \subseteq SUBSET Sources
    /\ Plaintext \cap Databases = {} /\ Unquoted \subseteq Services
    /\ Unsized \notin Nat /\ Hosts \subseteq Host /\ Ledgers \subseteq FindingStatuses
    /\ MaxScans \in Nat \ {0} /\ MaxChanges \in Nat

RuleIds == {"NET-001", "NET-002", "FW-001", "USR-001", "SVC-001", "OS-001"}

DomainOf == [r \in RuleIds |-> CASE r \in {"NET-001", "NET-002"} -> "sockets"
                                 [] r = "FW-001" -> "firewall" [] r = "USR-001" -> "users"
                                 [] r = "SVC-001" -> "services" [] r = "OS-001" -> "os_config"]

Telemetric == INSTANCE Telemetry WITH
    NetworkSources <- {}, Topology <- "topology", Rules <- RuleIds, Domain <- DomainOf,
    Needed <- [r \in RuleIds |-> {}], Guarded <- [r \in RuleIds |-> <<>>], Guardless <- RuleIds,
    Findings <- {}, RuleOf <- <<>>, Facts <- {}, Needs <- <<>>, Excuses <- <<>>

\* A finding is a rule and the target and discriminator its fingerprint is made of.
Listeners(ports) == Wildcard \X ports

Findings ==
    ({"NET-001"} \X Listeners(Plaintext)) \cup ({"NET-002"} \X Listeners(Databases))
    \cup ({"FW-001"} \X {Profiles[i] : i \in DOMAIN Profiles}) \cup {<<"USR-001", "Guest">>}
    \cup ({"SVC-001"} \X Services) \cup {<<"OS-001", "SecureBoot">>}

VARIABLES
    os,       \* the platform
    host,     \* the tables of the host
    scope,    \* the sources the scan covers
    got,      \* for each source "pending", "missing" or the privilege it was read with
    payload,  \* the records read so far
    next,     \* how many of its tables or keys each collector has done with
    room,     \* the rows the buffers of sockets and services were sized for
    unread,   \* sources of which some part was not really read
    settled,  \* the scan has brought the ledger up to date
    ledger,   \* local_findings: the status of each finding
    always, ever, \* what has held on the host all through the scan, and at some moment
    scans, changes

scan == <<scope, got, payload, next, room, unread>>
postureVars == <<os, host, scan, settled, ledger, always, ever, scans, changes>>

\* What is wrong with a host.
Holding(h) ==
    LET Exposed(ports) ==
            {<<s.address, s.port>> : s \in {q \in h.sockets :
                /\ q.protocol = "tcp" /\ q.state = "LISTEN"
                /\ q.address \in Wildcard /\ q.port \in ports}}
    IN  ({"NET-001"} \X Exposed(Plaintext)) \cup ({"NET-002"} \X Exposed(Databases))
        \cup ({"FW-001"} \X h.disabled) \cup ({"USR-001"} \X (h.enabled \cap {"Guest"}))
        \cup ({"SVC-001"} \X (h.services \cap Unquoted))
        \cup {f \in {<<"OS-001", "SecureBoot">>} : h.secureBoot = "off"}

Asked(sources) == [s \in Sources |-> IF s \in sources THEN "pending" ELSE "missing"]

Begun ==
    /\ scope' \in Scopes /\ got' = Asked(scope')
    /\ payload' = [s \in Sources |-> {}]
    /\ next' = [s \in Sources |-> 0] /\ room' = [s \in Sources |-> Unsized]
    /\ unread' = {} /\ settled' = FALSE
    /\ always' = Holding(host) /\ ever' = Holding(host)

PostureInit ==
    /\ os \in Platforms /\ host \in Hosts
    /\ scope \in Scopes /\ got = Asked(scope)
    /\ payload = [s \in Sources |-> {}]
    /\ next = [s \in Sources |-> 0] /\ room = [s \in Sources |-> Unsized]
    /\ unread = {} /\ settled = FALSE
    /\ always = Holding(host) /\ ever = Holding(host)
    /\ ledger \in {[f \in Findings |-> status] : status \in Ledgers}
    /\ scans = 1 /\ changes = 0
-----------------------------------------------------------------------------
(***************************************************************************)
(* The host.  A change that no collector could see, before its first table *)
(* or after its last, is left to the first table of a later scan.          *)
(***************************************************************************)
Changes(s, h) ==
    /\ changes < MaxChanges /\ got[s] = "pending"
    /\ host' = h /\ changes' = changes + 1
    /\ always' = always \cap Holding(h) /\ ever' = ever \cup Holding(h)
    /\ UNCHANGED <<os, scan, settled, ledger, scans>>

Toggled(set, x) == IF x \in set THEN set \ {x} ELSE set \cup {x}

SocketChanges(s) == Changes("sockets", [host EXCEPT !.sockets = Toggled(@, s)])
ProfileSwitched(p) == Changes("firewall", [host EXCEPT !.disabled = Toggled(@, p)])
AccountSwitched(a) == Changes("users", [host EXCEPT !.enabled = Toggled(@, a)])
ServiceChanges(v) == Changes("services", [host EXCEPT !.services = Toggled(@, v)])
-----------------------------------------------------------------------------
(***************************************************************************)
(* The collectors.                                                         *)
(***************************************************************************)
Pending(s) == got[s] = "pending"

\* One more table or key of a source of n is done with; the last one ends its collector.
Advance(s, n, records, readable) ==
    /\ payload' = [payload EXCEPT ![s] = @ \cup records]
    /\ next' = [next EXCEPT ![s] = @ + 1]
    /\ room' = [room EXCEPT ![s] = Unsized]
    /\ got' = [got EXCEPT ![s] = IF next[s] + 1 = n THEN "Available" ELSE @]
    /\ unread' = IF readable THEN unread ELSE unread \cup {s}
    /\ UNCHANGED <<os, host, scope, settled, ledger, always, ever, scans, changes>>

\* The size the system gives may leave some room to spare.
Sized(s, rows) ==
    /\ \E spare \in 0..1 : room' = [room EXCEPT ![s] = rows + spare]
    /\ UNCHANGED <<os, host, scope, got, payload, next, unread, settled, ledger, always, ever, scans, changes>>

\* An error or a panic; a scan() without an await cannot be timed out.
Lost(s) ==
    /\ Pending(s)
    /\ got' = [got EXCEPT ![s] = "missing"]
    /\ payload' = [payload EXCEPT ![s] = {}]
    /\ UNCHANGED <<os, host, scope, next, room, unread, settled, ledger, always, ever, scans, changes>>

\* The tables in the order they are read: protocol, and whether it is the one for IPv6.
Tables == [windows |-> <<<<"tcp", FALSE>>, <<"tcp", TRUE>>, <<"udp", FALSE>>, <<"udp", TRUE>>>>,
           linux |-> <<<<"tcp", FALSE>>, <<"udp", FALSE>>>>]

Table == Tables[os][next["sockets"] + 1]

Rows(t) == {s \in host.sockets : s.protocol = t[1] /\ s.v6 = t[2]}

SizeSockets ==
    /\ os = "windows" /\ Pending("sockets") /\ room["sockets"] = Unsized
    /\ Sized("sockets", Cardinality(Rows(Table)))

Windows(protocol) == os = "windows" /\ Pending("sockets") /\ Table[1] = protocol

\* Mutant: a table that no longer fits is passed over like one without a size.
ReadTable_PassedOver(protocol) ==
    /\ Windows(protocol)
    /\ \/ /\ room["sockets"] # Unsized
          /\ Advance("sockets", 4, IF Cardinality(Rows(Table)) <= room["sockets"]
                                   THEN Rows(Table) ELSE {}, TRUE)
       \/ room["sockets"] = Unsized /\ Advance("sockets", 4, {}, FALSE)

\* More rows than the buffer has room for make the call fail, and the collector with it (Lost).
\* A table that the system gives no size for is passed over.
ReadTable(protocol) ==
    /\ Windows(protocol)
    /\ \/ /\ room["sockets"] # Unsized /\ Cardinality(Rows(Table)) <= room["sockets"]
          /\ Advance("sockets", 4, Rows(Table), TRUE)
       \/ room["sockets"] = Unsized /\ Advance("sockets", 4, {}, FALSE)

ReadTcp == ReadTable("tcp")
ReadUdp == ReadTable("udp")

\* /proc/net/tcp and /proc/net/udp, unless they cannot be read.
ReadProcNet ==
    /\ os = "linux" /\ Pending("sockets")
    /\ \E readable \in BOOLEAN :
           Advance("sockets", 2, IF readable THEN Rows(Table) ELSE {}, readable)

\* Mutant: a profile whose key cannot be opened counts as disabled.
ReadProfile_Pessimistic ==
    /\ os = "windows" /\ Pending("firewall")
    /\ \E readable \in BOOLEAN :
           LET profile == Profiles[next["firewall"] + 1]
           IN  Advance("firewall", 3,
                       {[profile |-> profile, enabled |-> readable /\ profile \notin host.disabled]},
                       readable)

\* A profile whose key or value cannot be had counts as enabled.
ReadProfile ==
    /\ os = "windows" /\ Pending("firewall")
    /\ \E readable \in BOOLEAN :
           LET profile == Profiles[next["firewall"] + 1]
           IN  Advance("firewall", 3,
                       {[profile |-> profile, enabled |-> readable => profile \notin host.disabled]},
                       readable)

\* One call; when it fails the list stays empty.
ReadUsers ==
    /\ os = "windows" /\ Pending("users")
    /\ \E readable \in BOOLEAN :
           Advance("users", 1,
                   {[username |-> a, enabled |-> a \in host.enabled] : a \in Accounts \cap
                        (IF readable THEN Accounts ELSE {})}, readable)

SizeServices ==
    /\ os = "windows" /\ Pending("services") /\ room["services"] = Unsized
    /\ Sized("services", Cardinality(host.services))

\* The second call fails when the list has grown, or either does of itself; the list then stays
\* empty.
\* The path of a service's binary is not among what it gives.
ReadServices ==
    /\ os = "windows" /\ Pending("services")
    /\ \/ /\ room["services"] # Unsized /\ Cardinality(host.services) <= room["services"]
          /\ Advance("services", 1, {[service |-> v, path |-> "none"] : v \in host.services}, TRUE)
       \/ Advance("services", 1, {}, FALSE)

\* UEFISecureBootEnabled: a value that is absent or cannot be read is "N/A".
ReadOsConfig ==
    /\ os = "windows" /\ Pending("os_config")
    /\ \E readable \in BOOLEAN :
           LET value == IF ~readable THEN "N/A"
                        ELSE CASE host.secureBoot = "on" -> "1"
                               [] host.secureBoot = "off" -> "0"
                               [] OTHER -> "N/A"
           IN  Advance("os_config", 1, {[check |-> "SecureBoot", value |-> value]}, readable)

\* Where a source has no collector its payload is empty; only that for sockets, which macOS has
\* as a stub, is said to be available.
ReadStub(s) ==
    /\ Pending(s) /\ (os = "macos" \/ (os = "linux" /\ s # "sockets"))
    /\ got' = [got EXCEPT ![s] = IF s = "sockets" THEN "Available" ELSE "Unsupported"]
    /\ unread' = unread \cup {s}
    /\ UNCHANGED <<os, host, scope, payload, next, room, settled, ledger, always, ever, scans, changes>>
-----------------------------------------------------------------------------
(***************************************************************************)
(* The baseline rules and the ledger.                                      *)
(***************************************************************************)
Exposed(records, ports) ==
    {<<r.address, r.port>> : r \in {q \in records :
        /\ q.protocol = "tcp" /\ q.state = "LISTEN"
        /\ q.address \in Wildcard /\ q.port \in ports}}

Net001(p) == {"NET-001"} \X Exposed(p, Plaintext)
Net002(p) == {"NET-002"} \X Exposed(p, Databases)
Fw001(p) == {<<"FW-001", r.profile>> : r \in {q \in p : ~q.enabled}}
Usr001(p) == {<<"USR-001", r.username>> : r \in {q \in p : q.username = "Guest" /\ q.enabled}}
Svc001(p) == {<<"SVC-001", r.service>> : r \in {q \in p : q.path = "unquoted"}}
Os001(p) == {<<"OS-001", r.check>> : r \in {q \in p : q.check = "SecureBoot" /\ q.value = "0"}}

Raised ==
    Net001(payload["sockets"]) \cup Net002(payload["sockets"]) \cup Fw001(payload["firewall"])
    \cup Usr001(payload["users"]) \cup Svc001(payload["services"]) \cup Os001(payload["os_config"])

Upserted(status) == IF status = "SUPPRESSED" THEN status ELSE "OPEN"

\* What was raised is reported; what was not, under a rule that was evaluated, is resolved.
Settle ==
    /\ ~settled /\ \A s \in Sources : got[s] # "pending"
    /\ settled' = TRUE
    /\ ledger' = [f \in Findings |->
           IF f \in Raised THEN Upserted(ledger[f])
           ELSE IF f[1] \in Telemetric!Evaluated(scope, got) /\ ledger[f] = "OPEN" THEN "RESOLVED"
           ELSE ledger[f]]
    /\ UNCHANGED <<os, host, scan, always, ever, scans, changes>>

NextScan ==
    /\ settled /\ scans < MaxScans
    /\ Begun /\ scans' = scans + 1
    /\ UNCHANGED <<os, host, ledger, changes>>

PostureNext ==
    \/ \E s \in Sockets : SocketChanges(s)
    \/ \E i \in DOMAIN Profiles : ProfileSwitched(Profiles[i])
    \/ \E a \in Accounts : AccountSwitched(a)
    \/ \E v \in Services : ServiceChanges(v)
    \/ SizeSockets \/ ReadTcp \/ ReadUdp \/ ReadProcNet \/ ReadProfile \/ ReadUsers
    \/ SizeServices \/ ReadServices \/ ReadOsConfig
    \/ \E s \in Sources : ReadStub(s) \/ Lost(s)
    \/ Settle \/ NextScan

PostureSpec == PostureInit /\ [][PostureNext]_postureVars
-----------------------------------------------------------------------------
\* The host, the payloads and the ledger are of their types.
PostureTypeOK ==
    /\ os \in Platforms /\ host \in Host /\ scope \in Scopes
    /\ got \in [Sources -> {"pending", "missing", "Available", "Unsupported"}]
    /\ payload["sockets"] \subseteq Sockets
    /\ DOMAIN payload = Sources /\ next \in [Sources -> 0..4]
    /\ room \in [Sources -> Nat \cup {Unsized}]
    /\ unread \subseteq Sources /\ settled \in BOOLEAN
    /\ ledger \in [Findings -> FindingStatuses]
    /\ always \subseteq ever /\ ever \subseteq Findings
    /\ scans \in 1..MaxScans /\ changes \in 0..MaxChanges

(***************************************************************************)
(* A finding opens only if what it says was true of the host at some       *)
(* moment of the scan that opens it: neither a torn reading nor a table,   *)
(* key or file that could not be read raises a false alarm.                *)
(***************************************************************************)
NoFalseAlarm ==
    [][\A f \in Findings : ledger'[f] = "OPEN" => ledger[f] = "OPEN" \/ f \in ever]_postureVars

\* What the collector of a platform can see: Linux has none for IPv6 sockets, and no collector
\* gives the path of a service, so SVC-001 is never raised.
InSight(f) ==
    CASE DomainOf[f[1]] = "sockets" -> os = "windows" \/ (os = "linux" /\ f[2][1] # "::")
      [] f[1] = "SVC-001" -> FALSE
      [] OTHER -> os = "windows"

(***************************************************************************)
(* After a scan the ledger lists as open what was wrong all through it and *)
(* nothing that never was, for every source that was read, whatever else   *)
(* moved between two of its tables (docs/ARCHITECTURE.md:385).             *)
(***************************************************************************)
LedgerTellsTheHost ==
    settled => \A f \in Findings :
        LET s == DomainOf[f[1]] IN
        got[s] = "Available" /\ s \notin unread /\ InSight(f) =>
            /\ f \in always => ledger[f] \in {"OPEN", "SUPPRESSED"}
            /\ f \notin ever => ledger[f] # "OPEN"
=============================================================================

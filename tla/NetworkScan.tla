---------------------------- MODULE NetworkScan ----------------------------
(***************************************************************************)
(* The network side of a scan: the four collectors read the tables of the  *)
(* host one after another, in any order, while interfaces go up and down,  *)
(* change their names or vanish, and addresses and routes come and go; one *)
(* may fail or time out.  The supervisor then builds the topology of what  *)
(* they delivered, correlates it and evaluates the rules.  What becomes of *)
(* the findings is the subject of ScanCycle.                               *)
(*                                                                         *)
(* The collectors differ by platform.  Linux numbers the interfaces in the *)
(* order it lists them, reads no address but the loopback ones, and gives  *)
(* routes the index 0; Windows takes index, name and addresses from its    *)
(* own tables, where the alias of an interface may not be had; those of    *)
(* macOS are stubs.                                                        *)
(***************************************************************************)
EXTENDS NetworkTopology

CONSTANTS
    Adapters, Loopback,  \* the interfaces, and the one that is "lo"
    IfIndex,             \* their indexes on Windows
    Nameless,            \* those whose alias Windows may fail to give
    Hosts,               \* the hosts a behaviour starts with
    Nets,                \* nets an adapter may get in its course
    Gateway,             \* of a default route that may appear
    MaxChanges           \* bound on the changes of the host

ASSUME ScanAssumption ==
    /\ IsFiniteSet(Adapters) /\ Loopback \in Adapters /\ Nameless \subseteq Adapters
    /\ IfIndex \in [Adapters -> Nat \ {0}]
    /\ \A a, b \in Adapters : IfIndex[a] = IfIndex[b] => a = b
    /\ Gateway \in Addresses /\ MaxChanges \in Nat

Platforms == {"linux", "windows", "macos"}

Sources == {"interfaces", "routes", "dns", "neighbors"}

Net == [address : Addresses, len : 0..Width]

Route == [destination : {"default", "loopback", "other"}, gateway : Addresses \cup {None},
          adapter : Adapters, metric : Nat, v6 : BOOLEAN]

Host == [present : SUBSET Adapters, name : [Adapters -> Names], up : SUBSET Adapters,
         nets : [Adapters -> SUBSET Net], routes : SUBSET Route,
         resolvers : SUBSET Addresses, neighbors : SUBSET [address : Addresses, adapter : Adapters]]

\* What a kernel sees to: no two interfaces share a name, and a route leads over an interface
\* that is there, to a gateway of its own family.
WellFormed(h) ==
    /\ \A a, b \in Adapters : h.name[a] = h.name[b] => a = b
    /\ \A r \in h.routes : /\ r.adapter \in h.present
                           /\ r.gateway # None => r.v6 = r.gateway.v6

ASSUME HostsAssumption ==
    /\ Hosts \subseteq Host /\ Nets \subseteq Net
    /\ \A h \in Hosts : WellFormed(h)

RuleIds == {"NET-003", "NET-004", "NET-005", "NET-006", "NET-007", "NET-008"}

\* domain() and required_sources of each rule, and what the supervisor wants for it.
DomainOf == [r \in RuleIds |-> CASE r = "NET-005" -> "dns" [] r = "NET-006" -> "routes"
                                 [] r = "NET-007" -> "neighbors" [] OTHER -> "topology"]

Required == [r \in RuleIds |-> CASE r = "NET-003" -> <<"routes", "interfaces">>
                                 [] r = "NET-008" -> <<"interfaces", "routes">>
                                 [] r = "NET-005" -> <<"dns">>
                                 [] r = "NET-007" -> <<"neighbors">>
                                 [] OTHER -> <<"routes">>]

Wanted == [r \in RuleIds |-> {Required[r][i] : i \in DOMAIN Required[r]}]

Telemetric == INSTANCE Telemetry WITH
    NetworkSources <- Sources, Topology <- "topology", Rules <- RuleIds, Domain <- DomainOf,
    Needed <- Wanted, Guarded <- Required, Guardless <- {}, Findings <- {}, RuleOf <- <<>>,
    Facts <- {}, Needs <- <<>>, Excuses <- <<>>

VARIABLES
    os,       \* the platform
    host,     \* the tables of the host
    got,      \* for each source "pending", "missing" or the privilege it was read with
    payload,  \* what was read: for each source a set of records
    view,     \* what the supervisor made of it: snapshot, edges, findings
    steady,   \* the host has not changed since the scan began
    changes   \* how often the host has changed

vars == <<os, host, got, payload, view, steady, changes>>

NoView == [done |-> FALSE, snapshot |-> Snapshot({}, {}, {}, {}), edges |-> {}, found |-> {}]

Unread == [s \in Sources |-> "pending"]

Init ==
    /\ os \in Platforms /\ host \in Hosts
    /\ got = Unread /\ payload = [s \in Sources |-> {}] /\ view = NoView
    /\ steady = TRUE /\ changes = 0
-----------------------------------------------------------------------------
(***************************************************************************)
(* The host.                                                               *)
(***************************************************************************)
Changes(h) ==
    /\ changes < MaxChanges
    /\ host' = h /\ changes' = changes + 1 /\ steady' = FALSE
    /\ UNCHANGED <<os, got, payload, view>>

LinkChanges(a) ==
    a \in host.present /\ Changes([host EXCEPT !.up = IF a \in @ THEN @ \ {a} ELSE @ \cup {a}])

\* The kernel drops the routes and the neighbours of an interface with it.
Unplugged(a) ==
    /\ a \in host.present \ {Loopback}
    /\ Changes([host EXCEPT !.present = @ \ {a}, !.up = @ \ {a}, !.nets[a] = {},
                            !.routes = {r \in @ : r.adapter # a},
                            !.neighbors = {n \in @ : n.adapter # a}])

Renumbered(a, n) ==
    /\ a \in host.present \ {Loopback}
    /\ Changes([host EXCEPT !.nets[a] = IF n \in @ THEN @ \ {n} ELSE @ \cup {n}])

Swapped(a, b) ==
    /\ a # b /\ {a, b} \subseteq host.present \ {Loopback}
    /\ Changes([host EXCEPT !.name[a] = host.name[b], !.name[b] = host.name[a]])

Rerouted(a, metric) ==
    /\ a \in host.present \ {Loopback}
    /\ Changes([host EXCEPT !.routes = @ \cup
         {[destination |-> "default", gateway |-> Gateway, adapter |-> a, metric |-> metric,
           v6 |-> Gateway.v6]}])
-----------------------------------------------------------------------------
(***************************************************************************)
(* The collectors.                                                         *)
(***************************************************************************)
Listings == {p \in [host.present -> 1..Cardinality(host.present)] :
                \A a, b \in host.present : p[a] = p[b] => a = b}

Node(a, index, at, nets) ==
    [name |-> host.name[a], index |-> index, at |-> at, up |-> a \in host.up,
     loopback |-> a = Loopback, nets |-> nets]

SysClassNet(p) ==
    {Node(a, p[a], p[a], IF a = Loopback THEN host.nets[a] ELSE {}) : a \in host.present}

ProcNetDev(p) == {[Node(a, p[a], p[a], {}) EXCEPT !.up = FALSE] : a \in host.present}

WindowsInterfaces(p) == {Node(a, IfIndex[a], p[a], host.nets[a]) : a \in host.present}

Row(r, index, name) ==
    [destination |-> r.destination, gateway |-> r.gateway, index |-> index, name |-> name,
     metric |-> r.metric, v6 |-> r.v6]

\* /proc/net/route, and /proc/net/ipv6_route unless it cannot be read.
LinuxRoutes(ipv6) ==
    {Row(r, 0, host.name[r.adapter]) : r \in {q \in host.routes : q.v6 => ipv6}}

\* ConvertInterfaceLuidToAlias fails for the interfaces in `nameless`.
Alias(a, nameless) == IF a \in nameless THEN None ELSE host.name[a]

WindowsRoutes(nameless) ==
    {Row(r, IfIndex[r.adapter], Alias(r.adapter, nameless)) : r \in host.routes}

Resolvers == {a \in host.resolvers : Class[a] # "Unspecified"}

Reachable == {n \in host.neighbors : Class[n.address] \notin {"Unspecified", "Loopback"}}

NetlinkNeighbors == {[address |-> n.address, name |-> None] : n \in Reachable}

\* /proc/net/arp, when the dump is empty or fails.
ArpNeighbors ==
    {[address |-> n.address, name |-> host.name[n.adapter]] :
        n \in {m \in Reachable : ~m.address.v6}}

WindowsNeighbors(nameless) ==
    {[address |-> n.address, name |-> Alias(n.adapter, nameless)] : n \in Reachable}

Reads(source, privilege, records) ==
    /\ got[source] = "pending"
    /\ got' = [got EXCEPT ![source] = privilege]
    /\ payload' = [payload EXCEPT ![source] = records]
    /\ UNCHANGED <<os, host, view, steady, changes>>

\* What Linux cannot read is passed over, and Windows may have no data to give: an empty table
\* is read with full privilege, too.
ReadInterfaces ==
    \/ /\ os = "linux"
       /\ \E p \in Listings : \E records \in {SysClassNet(p), ProcNetDev(p), {}} :
              Reads("interfaces", "Available", records)
    \/ /\ os = "windows"
       /\ \E p \in Listings : \E records \in {WindowsInterfaces(p), {}} :
              Reads("interfaces", "Available", records)

ReadRoutes ==
    \/ os = "linux" /\ \E ipv6 \in BOOLEAN : Reads("routes", "Available", LinuxRoutes(ipv6))
    \/ /\ os = "windows"
       /\ \E nameless \in SUBSET Nameless : Reads("routes", "Available", WindowsRoutes(nameless))

ReadResolvers ==
    os # "macos" /\ \E records \in {Resolvers, {}} : Reads("dns", "Available", records)

ReadNeighbors ==
    \/ os = "linux" /\ NetlinkNeighbors # {} /\ Reads("neighbors", "Available", NetlinkNeighbors)
    \/ /\ os = "linux"
       /\ \E records \in {ArpNeighbors, {}} : Reads("neighbors", "Available", records)
    \/ /\ os = "windows"
       /\ \E nameless \in SUBSET Nameless :
              Reads("neighbors", "Available", WindowsNeighbors(nameless))

\* The stub for the interfaces reports its empty list as a table that was read.
ReadStub(source) ==
    /\ os = "macos"
    /\ Reads(source, IF source = "interfaces" THEN "Available" ELSE "Unsupported", {})

\* An error of the collector, a panic or its timeout.
Lost(source) == Reads(source, "missing", {})
-----------------------------------------------------------------------------
(***************************************************************************)
(* The supervisor.                                                         *)
(***************************************************************************)
Raised(s) ==
    Net003(s) \cup Net004(s) \cup Net008(s) \cup Net005(payload["dns"])
    \cup Net006(payload["routes"]) \cup Net007(payload["neighbors"])

Viewed ==
    LET snapshot == Snapshot(payload["interfaces"], payload["routes"], payload["dns"],
                             payload["neighbors"])
    IN  [done |-> TRUE, snapshot |-> snapshot, edges |-> Edges(snapshot),
         found |-> {f \in Raised(snapshot) : Telemetric!Proceeds(f[1], got)}]

Synthesize ==
    /\ ~view.done /\ \A s \in Sources : got[s] # "pending"
    /\ view' = Viewed
    /\ UNCHANGED <<os, host, got, payload, steady, changes>>

NextScan ==
    /\ view.done
    /\ got' = Unread /\ payload' = [s \in Sources |-> {}] /\ view' = NoView /\ steady' = TRUE
    /\ UNCHANGED <<os, host, changes>>

Next ==
    \/ \E a \in Adapters : LinkChanges(a) \/ Unplugged(a)
    \/ \E a \in Adapters, n \in Nets : Renumbered(a, n)
    \/ \E a, b \in Adapters : Swapped(a, b)
    \/ \E a \in Adapters, metric \in {1, 2} : Rerouted(a, metric)
    \/ ReadInterfaces \/ ReadRoutes \/ ReadResolvers \/ ReadNeighbors
    \/ \E s \in Sources : ReadStub(s) \/ Lost(s)
    \/ Synthesize \/ NextScan

Spec == Init /\ [][Next]_vars
-----------------------------------------------------------------------------
InterfaceNode == [name : Names, index : Nat, at : Nat, up : BOOLEAN, loopback : BOOLEAN,
                  nets : SUBSET Net]

RouteRow == [destination : {"default", "loopback", "other"}, gateway : Addresses \cup {None},
             index : Nat, name : Names \cup {None}, metric : Nat, v6 : BOOLEAN]

\* The host, the payloads and the view are of their types.
TypeOK ==
    /\ os \in Platforms /\ host \in Host
    /\ got \in [Sources -> {"pending", "missing", "Available", "Unsupported"}]
    /\ DOMAIN payload = Sources
    /\ payload["interfaces"] \subseteq InterfaceNode /\ payload["routes"] \subseteq RouteRow
    /\ payload["dns"] \subseteq Addresses
    /\ payload["neighbors"] \subseteq [address : Addresses, name : Names \cup {None}]
    /\ DOMAIN view = {"done", "snapshot", "edges", "found"}
    /\ view.done \in BOOLEAN /\ (view.done => \A s \in Sources : got[s] # "pending")
    /\ steady \in BOOLEAN /\ changes \in 0..MaxChanges

\* The first len bits of two addresses are the same.
Bit(value, i) == (value \div Pow2[Width - i]) % 2

SamePrefix(a, net) ==
    /\ a.v6 = net.address.v6
    /\ \A i \in 1..net.len : Bit(a.value, i) = Bit(net.address.value, i)

\* The subnets of an adapter that a collector gets to see.
Observable(a) ==
    {n \in host.nets[a] :
        /\ os = "windows" /\ a \in host.up \ {Loopback}
        /\ Class[n.address] \in {"Loopback", "Private", "LinkLocal", "CarrierGradeNat", "PublicGlobal"}}

Strays(r) ==
    /\ r.destination = "default" /\ r.gateway # None
    /\ ~(r.gateway.v6 /\ Class[r.gateway] = "LinkLocal")
    /\ Observable(r.adapter) # {}
    /\ \A n \in Observable(r.adapter) : ~SamePrefix(r.gateway, n)

\* When the host has kept still and both tables were really read, NET-003 names the gateways that
\* lie outside every subnet of their own interface, compared bit by bit, and no others.
OffSubnetIsReal ==
    view.done /\ steady /\ payload["interfaces"] # {} /\ got["routes"] = "Available" =>
        {f[2] : f \in {e \in view.found : e[1] = "NET-003"}}
            = {r.gateway : r \in {q \in host.routes : Strays(q)}}

\* However torn the reading, a finding of NET-003 is not refuted by the edges enqueued with
\* it: no subnet has both an edge from its interface and one from its gateway.  "unknown" is what
\* the finding calls an interface whose alias could not be had.
GraphAgreesWithFindings ==
    \A g \in view.snapshot.gateways :
        g.name \notin {None, "unknown"} /\ <<"NET-003", g.ip, g.name>> \in view.found =>
            ~\E n \in view.snapshot.subnets :
                {Edge("InterfaceHasGateway", <<"interface", g.name>>, <<"gateway", g.ip>>),
                 Edge("InterfaceHostsSubnet", <<"interface", g.name>>, <<"subnet", n.net>>),
                 Edge("GatewayOnSubnet", <<"gateway", g.ip>>, <<"subnet", n.net>>)} \subseteq view.edges

\* A host that NET-008 says joins a public and a private network is multi-homed in the
\* snapshot, which decides it by other fields and another filter.
MultiHomedAgrees ==
    (\E f \in view.found : f[1] = "NET-008") => view.snapshot.multiHomed

\* "Fingerprint Ordering Invariance": had the interfaces been listed in another order, the
\* same findings and the same edges would have come out.
OrderDoesNotMatter ==
    LET s == view.snapshot
        places == {i.at : i \in s.interfaces}
        Relisted(p) == [s EXCEPT !.interfaces = {[i EXCEPT !.at = p[i.at]] : i \in s.interfaces}]
    IN  \A p \in {q \in [places -> places] : \A x \in places : \E y \in places : q[y] = x} :
            Raised(Relisted(p)) = Raised(s) /\ Edges(Relisted(p)) = Edges(s)
=============================================================================

-------------------------- MODULE NetworkTopology --------------------------
(***************************************************************************)
(* What NETRA makes of the network tables of a host: TopologyBuilder turns *)
(* the four payloads into a snapshot, TopologyCorrelator joins its nodes   *)
(* by edges, and the rules NET-003 to NET-008 raise findings.              *)
(*                                                                         *)
(* An address is its family and its bits as a number; Width stands for 32  *)
(* and 128.  A net is an address with a prefix length, host bits included, *)
(* as the CIDR strings of the code are.  Tables are sets, but an interface *)
(* keeps the place `at` which it was listed: the snapshot is sorted by     *)
(* index only, and a rule takes the first interface that matches.  A       *)
(* finding is what its fingerprint is computed from.                       *)
(***************************************************************************)
EXTENDS Naturals, FiniteSets

CONSTANTS
    Width,         \* bits in an address
    Addresses,     \* [v6 |-> family, value |-> bits]
    Class,         \* the classification of each address
    Names,         \* interface names
    LooksVirtual,  \* names that contain one of NET-008's virtual_patterns
    None           \* a name or a gateway that is not given

\* 2 ^ n, by the equations that the arithmetic of prefixes needs.
Pow2[n \in Nat] == IF n = 0 THEN 1 ELSE 2 * Pow2[n - 1]

ASSUME TopologyAssumption ==
    /\ Width \in Nat \ {0}
    /\ Addresses \subseteq [v6 : BOOLEAN, value : 0..(Pow2[Width] - 1)]
    /\ LooksVirtual \subseteq Names /\ None \notin Names
-----------------------------------------------------------------------------
(***************************************************************************)
(* ip_in_cidr.                                                             *)
(***************************************************************************)
\* value & (!0 << (Width - len)); wrapping_shl takes the shift modulo the width.
Masked(value, len) == value - (value % Pow2[(Width - len) % Width])

InCidr_NoZeroCase(a, net) ==
    /\ a.v6 = net.address.v6 /\ net.len <= Width
    /\ Masked(a.value, net.len) = Masked(net.address.value, net.len)

InCidr(a, net) ==
    /\ a.v6 = net.address.v6 /\ net.len <= Width
    /\ \/ net.len = 0
       \/ Masked(a.value, net.len) = Masked(net.address.value, net.len)
-----------------------------------------------------------------------------
(***************************************************************************)
(* TopologyBuilder.                                                        *)
(***************************************************************************)
LocalOrPrivate(c) == c \in {"Loopback", "Private", "LinkLocal", "CarrierGradeNat"}

Public(c) == c = "PublicGlobal"

Assigned_PrivateOnly(i) ==
    IF i.up /\ ~i.loopback THEN {n \in i.nets : LocalOrPrivate(Class[n.address])} ELSE {}

\* The addresses of an interface that give it a subnet.
Assigned(i) ==
    IF i.up /\ ~i.loopback
    THEN {n \in i.nets : LocalOrPrivate(Class[n.address]) \/ Public(Class[n.address])}
    ELSE {}

Subnets(interfaces) == UNION {{[net |-> n, name |-> i.name] : n \in Assigned(i)} : i \in interfaces}

IsMultiHomed(interfaces) ==
    Cardinality({i.index : i \in {j \in interfaces : Assigned(j) # {}}}) > 1

Gateways(routes) ==
    {[ip |-> r.gateway, index |-> r.index, name |-> r.name, metric |-> r.metric, v6 |-> r.v6] :
        r \in {q \in routes : q.destination = "default" /\ q.gateway # None}}

Snapshot(interfaces, routes, resolvers, neighbors) ==
    [interfaces |-> interfaces, gateways |-> Gateways(routes), resolvers |-> resolvers,
     neighbors |-> neighbors, subnets |-> Subnets(interfaces),
     multiHomed |-> IsMultiHomed(interfaces)]
-----------------------------------------------------------------------------
(***************************************************************************)
(* TopologyCorrelator::correlate.                                          *)
(***************************************************************************)
Before(i, j) == i.index < j.index \/ (i.index = j.index /\ i.at < j.at)

\* The last of them, for collect() into a map keeps the last of equal indexes.
ByIndex(s, index) ==
    CHOOSE i \in s.interfaces : /\ i.index = index
                                /\ \A j \in s.interfaces : j.index = index => ~Before(i, j)

EgressKey(s, g) ==
    IF g.name # None THEN <<"interface", g.name>>
    ELSE IF \E i \in s.interfaces : i.index = g.index
         THEN <<"interface", ByIndex(s, g.index).name>>
         ELSE <<"interface:idx", g.index>>

Edge(kind, from, to) == [kind |-> kind, from |-> from, to |-> to]

HostsSubnet(n) == Edge("InterfaceHostsSubnet", <<"interface", n.name>>, <<"subnet", n.net>>)

GatewayOnSubnet(g, n) == Edge("GatewayOnSubnet", <<"gateway", g.ip>>, <<"subnet", n.net>>)

OnSubnet(s) ==
    {GatewayOnSubnet(p[1], p[2]) : p \in {q \in s.gateways \X s.subnets : InCidr(q[1].ip, q[2].net)}}
    \cup {Edge("DnsOnSubnet", <<"dns", p[1]>>, <<"subnet", p[2].net>>) :
            p \in {q \in s.resolvers \X s.subnets : InCidr(q[1], q[2].net)}}

Edges(s) ==
    {HostsSubnet(n) : n \in s.subnets}
    \cup {Edge("InterfaceHasGateway", EgressKey(s, g), <<"gateway", g.ip>>) : g \in s.gateways}
    \cup {Edge("InterfaceHasNeighbor", <<"interface", n.name>>, <<"neighbor", n.address>>) :
            n \in {m \in s.neighbors : m.name # None}}
    \cup {Edge("NeighborIsGateway", <<"neighbor", g.ip>>, <<"gateway", g.ip>>) :
            g \in {h \in s.gateways : \E n \in s.neighbors : n.address = h.ip}}
    \cup OnSubnet(s)
-----------------------------------------------------------------------------
(***************************************************************************)
(* The rules.                                                              *)
(***************************************************************************)
\* iter().find(..) over the interfaces, which are sorted by index.
First_Unsorted(S) == CHOOSE i \in S : \A j \in S \ {i} : i.at < j.at

First(S) == CHOOSE i \in S : \A j \in S \ {i} : Before(i, j)

Matches(s, g) == {i \in s.interfaces : i.name = g.name \/ i.index = g.index}

EgressSubnets_ByIndex(s, g) ==
    {n \in s.subnets : \E i \in s.interfaces : i.index = g.index /\ i.name = n.name}

EgressSubnets(s, g) ==
    {n \in s.subnets : \/ n.name = g.name
                       \/ Matches(s, g) # {} /\ n.name = First(Matches(s, g)).name}

OffSubnet(s) ==
    {g \in s.gateways :
        /\ ~(g.v6 /\ Class[g.ip] = "LinkLocal")
        /\ Matches(s, g) # {} => ~First(Matches(s, g)).loopback /\ EgressSubnets(s, g) # {}
        /\ \A n \in EgressSubnets(s, g) : ~InCidr(g.ip, n.net)}

Net003(s) ==
    {<<"NET-003", g.ip, IF g.name = None THEN "unknown" ELSE g.name>> : g \in OffSubnet(s)}

Rivals(s, v6, metric) == {g.ip : g \in {h \in s.gateways : h.v6 = v6 /\ h.metric = metric}}

Net004(s) ==
    {<<"NET-004", k[1], k[2], Rivals(s, k[1], k[2])>> :
        k \in {c \in BOOLEAN \X {g.metric : g \in s.gateways} : Cardinality(Rivals(s, c[1], c[2])) > 1}}

Net005(resolvers) ==
    {<<"NET-005", a>> : a \in
        {b \in resolvers : Class[b] \in {"Unspecified", "Broadcast", "Multicast", "Documentation"}}}

\* The names "lo", "lo0" and "loopback.." belong to the loopback interface, "lo" here.
LeaksLoopback(r) ==
    /\ r.destination = "loopback"
    /\ \/ r.gateway # None /\ Class[r.gateway] \notin {"Loopback", "Unspecified"}
       \/ r.name \notin {"lo", None}

Net006(routes) ==
    {<<"NET-006", r.v6, r.gateway, IF r.gateway = None THEN r.name ELSE None>> :
        r \in {q \in routes : LeaksLoopback(q)}}

Net007(neighbors) ==
    {<<"NET-007", n.address, IF n.name = None THEN "unknown" ELSE n.name>> : n \in
        {m \in neighbors : Class[m.address] \in {"Unspecified", "Broadcast", "Multicast", "Loopback"}}}

Physical(i) == i.up /\ ~i.loopback /\ i.name \notin LooksVirtual

\* The physical interfaces with an address of class c, by name.
Faces_EvenDown(s, c) == {i.name : i \in {j \in s.interfaces : \E n \in j.nets : Class[n.address] = c}}

Faces(s, c) ==
    {i.name : i \in {j \in s.interfaces :
        /\ Physical(j)
        /\ \/ \E n \in j.nets : Class[n.address] = c
           \/ \E n \in s.subnets : n.name = j.name /\ Class[n.net.address] = c}}

Net008(s) ==
    {<<"NET-008", p[1], p[2]>> :
        p \in {q \in Faces(s, "PublicGlobal") \X Faces(s, "Private") : q[1] # q[2]}}
=============================================================================

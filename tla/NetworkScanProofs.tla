------------------------- MODULE NetworkScanProofs -------------------------
(***************************************************************************)
(* What is proved of NetworkScan: its type invariant, that the graph never *)
(* refutes a finding of NET-003, that NET-008 and the snapshot agree on    *)
(* what is multi-homed, that the order of a listing does not matter, and   *)
(* that on a steady host NET-003 names the gateways that really are off    *)
(* every subnet, for any hosts, names, addresses and widths.  The lemmas   *)
(* that carry this speak of any snapshot at all, of any with distinct      *)
(* indexes, or of numbers and their bits.  The invariants supply the rest: *)
(* a view is computed from the payloads, no two interfaces of a payload    *)
(* share an index, and while the host keeps still a payload is what its    *)
(* collector makes of it.                                                  *)
(***************************************************************************)
EXTENDS NetworkScan, FiniteSetTheorems, WellFoundedInduction, TLAPS

Distinct(S) == \A i, j \in S : i.index = j.index => i = j

Indexes(S) == {i.index : i \in S}

\* The inductive invariant.
IInv ==
    /\ TypeOK
    /\ Distinct(payload["interfaces"]) /\ IsFiniteSet(Indexes(payload["interfaces"]))
    /\ view.done => view = Viewed
    /\ ~view.done => view = NoView
-----------------------------------------------------------------------------
(***************************************************************************)
(* About any snapshot.                                                     *)
(***************************************************************************)
\* A gateway that OffSubnet holds, from a named interface, has no subnet in common with it:
\* EgressSubnets takes every subnet of that name, whatever else it takes.
LEMMA OffSubnetHasNoTriangle ==
    ASSUME NEW s, NEW g \in OffSubnet(s), NEW m \in s.subnets, m.name = g.name
    PROVE  ~InCidr(g.ip, m.net)
  BY DEF OffSubnet, EgressSubnets

\* An edge of one of the two kinds stands for a subnet and for a gateway on it.
LEMMA SubnetEdges ==
    ASSUME NEW s, NEW name, NEW net
    PROVE  /\ Edge("InterfaceHostsSubnet", <<"interface", name>>, <<"subnet", net>>) \in Edges(s)
                => \E m \in s.subnets : m.name = name /\ m.net = net
           /\ \A ip : Edge("GatewayOnSubnet", <<"gateway", ip>>, <<"subnet", net>>) \in Edges(s)
                => InCidr(ip, net)
  <1> DEFINE hosts == Edge("InterfaceHostsSubnet", <<"interface", name>>, <<"subnet", net>>)
  <1>1. ASSUME hosts \in Edges(s)
        PROVE  \E m \in s.subnets : m.name = name /\ m.net = net
    <2>1. hosts \in {HostsSubnet(n) : n \in s.subnets}
      BY <1>1 DEF Edges, OnSubnet, Edge, HostsSubnet, GatewayOnSubnet
    <2>2. PICK m \in s.subnets : hosts = HostsSubnet(m)
      BY <2>1
    <2>3. m.name = name /\ m.net = net
      BY <2>2 DEF HostsSubnet, Edge
    <2> QED
      BY <2>3
  <1>2. ASSUME NEW ip, Edge("GatewayOnSubnet", <<"gateway", ip>>, <<"subnet", net>>) \in Edges(s)
        PROVE  InCidr(ip, net)
    <2> DEFINE e == Edge("GatewayOnSubnet", <<"gateway", ip>>, <<"subnet", net>>)
    <2>1. e \in {GatewayOnSubnet(p[1], p[2]) :
                    p \in {q \in s.gateways \X s.subnets : InCidr(q[1].ip, q[2].net)}}
      BY <1>2 DEF Edges, OnSubnet, Edge, HostsSubnet, GatewayOnSubnet
    <2>2. PICK h \in s.gateways, n \in s.subnets : InCidr(h.ip, n.net) /\ e = GatewayOnSubnet(h, n)
      BY <2>1
    <2>3. h.ip = ip /\ n.net = net
      BY <2>2 DEF GatewayOnSubnet, Edge
    <2> QED
      BY <2>2, <2>3
  <1> QED
    BY <1>1, <1>2

\* The two interfaces of a finding of NET-008 have subnets, and so have different indexes.
LEMMA FaceHasSubnet ==
    ASSUME NEW I, NEW R, NEW D, NEW N, NEW c \in {"PublicGlobal", "Private"},
           NEW name \in Faces(Snapshot(I, R, D, N), c)
    PROVE  \E i \in I : i.name = name /\ Assigned(i) # {}
  <1> DEFINE s == Snapshot(I, R, D, N)
  <1>1. s.interfaces = I /\ s.subnets = Subnets(I)
    BY DEF Snapshot
  <1>2. PICK j \in I : /\ j.name = name /\ Physical(j)
                       /\ \/ \E n \in j.nets : Class[n.address] = c
                          \/ \E n \in Subnets(I) : n.name = j.name /\ Class[n.net.address] = c
    BY <1>1 DEF Faces
  <1>3. CASE \E n \in j.nets : Class[n.address] = c
    BY <1>2, <1>3 DEF Assigned, Physical, LocalOrPrivate, Public
  <1>4. CASE \E n \in Subnets(I) : n.name = j.name
    BY <1>2, <1>4 DEF Subnets
  <1> QED
    BY <1>2, <1>3, <1>4

LEMMA TwoIndexes ==
    ASSUME NEW I, Distinct(I), IsFiniteSet(Indexes(I)), NEW i \in I, NEW j \in I, i.name # j.name,
           Assigned(i) # {}, Assigned(j) # {}
    PROVE  IsMultiHomed(I)
  <1> DEFINE A == {k.index : k \in {l \in I : Assigned(l) # {}}}
  <1>1. i.index # j.index
    BY DEF Distinct
  <1>2. i.index \in A /\ j.index \in A
    OBVIOUS
  <1>3. IsFiniteSet(A)
    BY FS_Subset DEF Indexes
  <1>4. IsFiniteSet({i.index, j.index}) /\ Cardinality({i.index, j.index}) = 2
    <2>1. IsFiniteSet({i.index}) /\ Cardinality({i.index}) = 1
      BY FS_Singleton
    <2>2. {i.index, j.index} = {i.index} \cup {j.index}
      OBVIOUS
    <2>3. j.index \notin {i.index}
      BY <1>1
    <2>4. Cardinality({i.index} \cup {j.index}) = Cardinality({i.index}) + 1
      BY <2>1, <2>3, FS_AddElement
    <2>5. IsFiniteSet({i.index} \cup {j.index})
      BY <2>1, FS_AddElement
    <2> QED
      BY <2>1, <2>2, <2>4, <2>5
  <1>5. Cardinality({i.index, j.index}) <= Cardinality(A)
    BY <1>2, <1>3, FS_Subset
  <1>6. Cardinality(A) > 1
    BY <1>3, <1>4, <1>5, FS_CardinalityType
  <1> QED
    BY <1>6 DEF IsMultiHomed
-----------------------------------------------------------------------------
(***************************************************************************)
(* Another order of the same interfaces.                                   *)
(***************************************************************************)
Moved(i, p) == [i EXCEPT !.at = p[i.at]]

Relist(S, p) == {Moved(i, p) : i \in S}

\* Interfaces with distinct indexes have a first one, whatever places they were listed at.
LEMMA FirstHasLeastIndex ==
    ASSUME NEW M, M # {}, M \subseteq InterfaceNode, Distinct(M)
    PROVE  First(M) \in M /\ \A j \in M \ {First(M)} : First(M).index < j.index
  <1> DEFINE Less == {ss \in Nat \X Nat : ss[1] < ss[2]}
  <1>1. IsWellFoundedOn(Less, Nat)
    BY NatLessThanWellFounded DEF OpToRel
  <1>2. \A i \in M : i.index \in Nat /\ i.at \in Nat
    BY DEF InterfaceNode
  <1>3. Indexes(M) \subseteq Nat /\ Indexes(M) # {}
    BY <1>2 DEF Indexes
  <1> HIDE DEF Less
  <1>4. PICK n \in Indexes(M) : \A k \in Indexes(M) : ~(<<k, n>> \in Less)
    BY <1>1, <1>3, WFMin
  <1>5. PICK m \in M : m.index = n
    BY DEF Indexes
  <1>6. \A j \in M \ {m} : m.index < j.index
    <2> SUFFICES ASSUME NEW j \in M \ {m} PROVE m.index < j.index
      OBVIOUS
    <2>1. j.index \in Indexes(M) /\ j.index \in Nat /\ m.index \in Nat
      BY <1>2 DEF Indexes
    <2>2. ~(j.index < m.index)
      BY <1>4, <1>5, <2>1 DEF Less
    <2>3. j.index # m.index
      BY DEF Distinct
    <2> QED
      BY <2>1, <2>2, <2>3
  <1>7. \A j \in M \ {m} : Before(m, j)
    BY <1>6 DEF Before
  <1>8. First(M) \in M /\ \A j \in M \ {First(M)} : Before(First(M), j)
    BY <1>7 DEF First
  <1>9. First(M) = m
    <2> SUFFICES ASSUME First(M) # m PROVE FALSE
      OBVIOUS
    <2>1. Before(First(M), m) /\ m.index < First(M).index
      BY <1>6, <1>8
    <2> QED
      BY <1>2, <1>8, <2>1 DEF Before
  <1> QED
    BY <1>6, <1>9

\* Relisting changes nothing about an interface but its place.
LEMMA Relisting ==
    ASSUME NEW I, I \subseteq InterfaceNode, NEW p \in [{i.at : i \in I} -> {i.at : i \in I}],
           NEW i \in I
    PROVE  /\ Moved(i, p) \in InterfaceNode /\ Moved(i, p).index = i.index
           /\ Moved(i, p).name = i.name /\ Moved(i, p).up = i.up
           /\ Moved(i, p).loopback = i.loopback /\ Moved(i, p).nets = i.nets
  <1>1. i \in InterfaceNode
    OBVIOUS
  <1>2. p[i.at] \in {k.at : k \in I}
    OBVIOUS
  <1>3. p[i.at] \in Nat
    BY <1>2 DEF InterfaceNode
  <1> QED
    BY <1>1, <1>3 DEF InterfaceNode, Moved

\* The first of the relisted interfaces is the first one, relisted.
LEMMA FirstRelisted ==
    ASSUME NEW I, I \subseteq InterfaceNode, Distinct(I),
           NEW p \in [{i.at : i \in I} -> {i.at : i \in I}],
           NEW M, M \subseteq I, M # {}
    PROVE  First(M) \in M /\ First(Relist(M, p)) = Moved(First(M), p)
  <1> DEFINE f == First(M)
             R == Relist(M, p)
             r == Moved(f, p)
  <1>0. M \subseteq InterfaceNode /\ Distinct(M)
    BY DEF Distinct
  <1>1. f \in M /\ \A j \in M \ {f} : f.index < j.index
    BY <1>0, FirstHasLeastIndex
  <1>2. \A i \in M : Moved(i, p) \in InterfaceNode /\ Moved(i, p).index = i.index
    <2> TAKE i \in M
    <2>1. i \in I
      OBVIOUS
    <2> QED
      BY <2>1, Relisting
  <1>3. R \subseteq InterfaceNode /\ r \in R /\ R # {}
    BY <1>1, <1>2 DEF Relist
  <1>4. Distinct(R)
    <2> SUFFICES ASSUME NEW x \in R, NEW y \in R, x.index = y.index PROVE x = y
      BY DEF Distinct
    <2>1. PICK i \in M : x = Moved(i, p)
      BY DEF Relist
    <2>2. PICK j \in M : y = Moved(j, p)
      BY DEF Relist
    <2>3. i.index = j.index
      BY <1>2, <2>1, <2>2
    <2> QED
      BY <1>0, <2>1, <2>2, <2>3 DEF Distinct
  <1>5. First(R) \in R /\ \A j \in R \ {First(R)} : First(R).index < j.index
    BY <1>3, <1>4, FirstHasLeastIndex
  <1>6. \A i \in M : i.index \in Nat
    BY DEF InterfaceNode
  <1>7. First(R) = r
    <2> SUFFICES ASSUME First(R) # r PROVE FALSE
      OBVIOUS
    <2>1. PICK i \in M : First(R) = Moved(i, p)
      BY <1>5 DEF Relist
    <2>2. First(R).index < r.index
      BY <1>3, <1>5
    <2>3. i.index < f.index
      BY <1>1, <1>2, <2>1, <2>2
    <2> QED
      BY <1>1, <1>6, <2>3
  <1> QED
    BY <1>1, <1>7

\* What the rules and the correlator see of a snapshot is the same in the relisted one.
LEMMA Relisted ==
    ASSUME NEW I, I \subseteq InterfaceNode, Distinct(I), NEW R, NEW D, NEW N,
           NEW p \in [{i.at : i \in I} -> {i.at : i \in I}]
    PROVE  LET s == Snapshot(I, R, D, N)
               t == [s EXCEPT !.interfaces = Relist(I, p)]
           IN  /\ Edges(t) = Edges(s) /\ Net003(t) = Net003(s)
               /\ Net004(t) = Net004(s) /\ Net008(t) = Net008(s)
  <1> DEFINE s == Snapshot(I, R, D, N)
             t == [s EXCEPT !.interfaces = Relist(I, p)]
             at(i) == Moved(i, p)
  <1>1. /\ s.interfaces = I /\ t.interfaces = Relist(I, p)
        /\ t.gateways = s.gateways /\ t.resolvers = s.resolvers /\ t.neighbors = s.neighbors
        /\ t.subnets = s.subnets
    BY DEF Snapshot
  <1>2. \A i \in I : /\ at(i) \in InterfaceNode /\ at(i).index = i.index /\ at(i).name = i.name
                     /\ at(i).up = i.up /\ at(i).loopback = i.loopback /\ at(i).nets = i.nets
    <2> TAKE i \in I
    <2> QED
      BY Relisting
  <1>3. Relist(I, p) = {at(i) : i \in I}
    BY DEF Relist
  <1> HIDE DEF s, t, at
  <1>4. \A c : Faces(t, c) = Faces(s, c)
    <2> SUFFICES ASSUME NEW c PROVE Faces(t, c) = Faces(s, c)
      OBVIOUS
    <2>1. \A i \in I : Physical(at(i)) <=> Physical(i)
      BY <1>2 DEF Physical
    <2> DEFINE Has(j) == \/ \E n \in j.nets : Class[n.address] = c
                         \/ \E n \in s.subnets : n.name = j.name /\ Class[n.net.address] = c
    <2>2. \A i \in I : Has(at(i)) <=> Has(i)
      BY <1>2
    <2>3. Faces(s, c) = {i.name : i \in {j \in I : Physical(j) /\ Has(j)}}
      BY <1>1 DEF Faces
    <2>4. Faces(t, c) = {i.name : i \in {j \in Relist(I, p) : Physical(j) /\ Has(j)}}
      BY <1>1 DEF Faces
    <2> HIDE DEF Has
    <2> QED
      BY <1>2, <1>3, <2>1, <2>2, <2>3, <2>4
  <1>5. \A g : Matches(t, g) = Relist(Matches(s, g), p)
    BY <1>1, <1>2, <1>3 DEF Matches, Relist, at
  <1>6. \A g : Matches(s, g) # {} =>
            /\ Matches(t, g) # {}
            /\ First(Matches(t, g)).name = First(Matches(s, g)).name
            /\ First(Matches(t, g)).loopback = First(Matches(s, g)).loopback
    <2> SUFFICES ASSUME NEW g, Matches(s, g) # {}
                 PROVE  /\ Matches(t, g) # {}
                        /\ First(Matches(t, g)).name = First(Matches(s, g)).name
                        /\ First(Matches(t, g)).loopback = First(Matches(s, g)).loopback
      OBVIOUS
    <2>1. Matches(s, g) \subseteq I
      BY <1>1 DEF Matches
    <2>2. First(Matches(s, g)) \in I /\ First(Matches(t, g)) = at(First(Matches(s, g)))
      BY <1>5, <2>1, FirstRelisted DEF at
    <2>3. Matches(t, g) # {}
      BY <1>5 DEF Relist
    <2> QED
      BY <1>2, <2>2, <2>3
  <1>7. \A g : Matches(t, g) # {} <=> Matches(s, g) # {}
    BY <1>5, <1>6 DEF Relist
  <1>8. \A g : EgressSubnets(t, g) = EgressSubnets(s, g)
    BY <1>1, <1>6, <1>7 DEF EgressSubnets
  <1>9. OffSubnet(t) = OffSubnet(s)
    BY <1>1, <1>6, <1>7, <1>8 DEF OffSubnet
  <1>10. \A g \in s.gateways : EgressKey(t, g) = EgressKey(s, g)
    <2> SUFFICES ASSUME NEW g \in s.gateways, g.name = None, NEW i \in I, i.index = g.index
                 PROVE  ByIndex(t, g.index).name = ByIndex(s, g.index).name
      BY <1>1, <1>2, <1>3 DEF EgressKey
    <2>1. i.index \in Nat /\ i.at \in Nat /\ at(i).index \in Nat /\ at(i).at \in Nat
      BY <1>2 DEF InterfaceNode
    <2>2. \A j \in I : j.index = g.index => j = i
      BY DEF Distinct
    <2>3. \A j \in Relist(I, p) : j.index = g.index => j = at(i)
      BY <1>2, <1>3, <2>2
    <2>4. ~Before(i, i) /\ ~Before(at(i), at(i))
      BY <2>1 DEF Before
    <2>5. ByIndex(s, g.index) = i
      BY <1>1, <2>2, <2>4 DEF ByIndex
    <2>6. at(i) \in Relist(I, p) /\ at(i).index = g.index
      BY <1>2, <1>3
    <2>7. ByIndex(t, g.index) = at(i)
      BY <1>1, <2>3, <2>4, <2>6 DEF ByIndex
    <2> QED
      BY <1>2, <2>5, <2>7
  <1>11. Edges(t) = Edges(s)
    <2> DEFINE egress(x) == {Edge("InterfaceHasGateway", EgressKey(x, g), <<"gateway", g.ip>>) : g \in s.gateways}
               others == {HostsSubnet(n) : n \in s.subnets}
               near == {Edge("InterfaceHasNeighbor", <<"interface", n.name>>, <<"neighbor", n.address>>) :
                            n \in {m \in s.neighbors : m.name # None}}
               known == {Edge("NeighborIsGateway", <<"neighbor", g.ip>>, <<"gateway", g.ip>>) :
                            g \in {h \in s.gateways : \E n \in s.neighbors : n.address = h.ip}}
    <2>1. OnSubnet(t) = OnSubnet(s)
      BY <1>1 DEF OnSubnet
    <2>2. egress(t) = egress(s)
      BY <1>10
    <2>3. Edges(s) = others \cup egress(s) \cup near \cup known \cup OnSubnet(s)
      BY DEF Edges
    <2>4. Edges(t) = others \cup egress(t) \cup near \cup known \cup OnSubnet(t)
      BY <1>1, Zenon DEF Edges
    <2> QED
      BY <2>1, <2>2, <2>3, <2>4
  <1>12. Net003(t) = Net003(s) /\ Net008(t) = Net008(s)
    BY <1>4, <1>9 DEF Net003, Net008
  <1>13. Net004(t) = Net004(s)
    BY <1>1 DEF Net004, Rivals
  <1> QED
    BY <1>11, <1>12, <1>13 DEF s, t
-----------------------------------------------------------------------------
(***************************************************************************)
(* Powers of two, prefixes and masks.  Induction is over a set of numbers, *)
(* because the library's rule is about an operator.                        *)
(***************************************************************************)
\* Induction, stated of a set instead of a predicate.
LEMMA InductionOnSet ==
    ASSUME NEW S, 0 \in S, \A n \in Nat : n \in S => n + 1 \in S
    PROVE  Nat \subseteq S
  <1> SUFFICES ASSUME Nat \ S # {} PROVE FALSE
    OBVIOUS
  <1> DEFINE Less == {ss \in Nat \X Nat : ss[1] < ss[2]}
  <1>1. IsWellFoundedOn(Less, Nat)
    BY NatLessThanWellFounded DEF OpToRel
  <1> HIDE DEF Less
  <1>2. PICK n \in Nat \ S : \A k \in Nat \ S : ~(<<k, n>> \in Less)
    BY <1>1, WFMin
  <1>3. n - 1 \in Nat
    BY <1>2
  <1>4. <<n - 1, n>> \in Less
    BY <1>2, <1>3 DEF Less
  <1>5. n - 1 \in S
    BY <1>2, <1>3, <1>4
  <1> QED
    BY <1>2, <1>3, <1>5

\* The first powers of two, as a table.
Powers(h, m) == h \in [0..m -> Nat] /\ h[0] = 1 /\ \A i \in 1..m : h[i] = 2 * h[i - 1]

\* There are powers of two up to any exponent.
LEMMA PowersExist == \A m \in Nat : \E h : Powers(h, m)
  <1> DEFINE S == {m \in Nat : \E h : Powers(h, m)}
  <1>1. 0 \in S
    <2>1. Powers([i \in 0..0 |-> 1], 0)
      BY DEF Powers
    <2> QED
      BY <2>1
  <1>2. ASSUME NEW m \in Nat, m \in S PROVE m + 1 \in S
    <2>1. PICK h : Powers(h, m)
      BY <1>2
    <2> DEFINE g == [i \in 0..(m + 1) |-> IF i = m + 1 THEN 2 * h[m] ELSE h[i]]
    <2>2. Powers(g, m + 1)
      BY <2>1 DEF Powers
    <2> QED
      BY <2>2
  <1> HIDE DEF S
  <1>3. Nat \subseteq S
    BY <1>1, <1>2, InductionOnSet
  <1> QED
    BY <1>3 DEF S

\* Two tables agree where both are defined.
LEMMA PowersAgree ==
    ASSUME NEW m \in Nat, NEW n \in Nat, NEW g, NEW h, Powers(g, m), Powers(h, n)
    PROVE  \A i \in Nat : i <= m /\ i <= n => g[i] = h[i]
  <1> DEFINE S == {i \in Nat : i <= m /\ i <= n => g[i] = h[i]}
  <1>1. 0 \in S
    BY DEF Powers
  <1>2. ASSUME NEW i \in Nat, i \in S PROVE i + 1 \in S
    <2> SUFFICES ASSUME i + 1 <= m, i + 1 <= n PROVE g[i + 1] = h[i + 1]
      OBVIOUS
    <2>1. g[i] = h[i]
      BY <1>2
    <2>2. g[i + 1] = 2 * g[i] /\ h[i + 1] = 2 * h[i]
      <3>1. i + 1 \in 1..m /\ i + 1 \in 1..n /\ (i + 1) - 1 = i
        OBVIOUS
      <3> QED
        BY <3>1 DEF Powers
    <2> QED
      BY <2>1, <2>2
  <1> HIDE DEF S
  <1>3. Nat \subseteq S
    BY <1>1, <1>2, InductionOnSet
  <1> QED
    BY <1>3 DEF S

\* Pow2 is what its definition says.
LEMMA Pow2Facts ==
    /\ Pow2[0] = 1
    /\ \A n \in Nat : Pow2[n + 1] = 2 * Pow2[n]
    /\ \A n \in Nat : Pow2[n] \in Nat \ {0}
  <1> DEFINE Equation(f) == f = [n \in Nat |-> IF n = 0 THEN 1 ELSE 2 * f[n - 1]]
             table(n) == CHOOSE h : Powers(h, n)
             f == [n \in Nat |-> table(n)[n]]
  <1>1. \A n \in Nat : Powers(table(n), n)
    BY PowersExist
  <1> HIDE DEF table
  <1>2. f[0] = 1
    BY <1>1 DEF Powers
  <1>3. \A n \in Nat \ {0} : f[n] = 2 * f[n - 1]
    <2> SUFFICES ASSUME NEW n \in Nat \ {0} PROVE f[n] = 2 * f[n - 1]
      OBVIOUS
    <2>1. n - 1 \in Nat
      OBVIOUS
    <2>2. table(n)[n] = 2 * table(n)[n - 1]
      <3>1. n \in 1..n
        OBVIOUS
      <3> QED
        BY <1>1, <3>1 DEF Powers
    <2>3. table(n)[n - 1] = table(n - 1)[n - 1]
      BY <1>1, <2>1, PowersAgree
    <2> QED
      BY <2>1, <2>2, <2>3
  <1>4. Equation(f)
    <2> DEFINE e == [n \in Nat |-> IF n = 0 THEN 1 ELSE 2 * f[n - 1]]
    <2>1. \A n \in Nat : f[n] = e[n]
      BY <1>2, <1>3
    <2> QED
      BY <2>1
  <1> HIDE DEF f
  <1>5. Pow2 = CHOOSE g : Equation(g)
    BY DEF Pow2
  <1>6. Equation(Pow2)
    BY <1>4, <1>5
  <1>7. Pow2[0] = 1 /\ \A n \in Nat : Pow2[n + 1] = 2 * Pow2[n]
    <2>1. \A n \in Nat : Pow2[n] = IF n = 0 THEN 1 ELSE 2 * Pow2[n - 1]
      BY <1>6
    <2> HIDE DEF Equation
    <2> QED
      BY <2>1
  <1>8. \A n \in Nat : Pow2[n] \in Nat \ {0}
    <2> DEFINE S == {n \in Nat : Pow2[n] \in Nat \ {0}}
    <2>1. 0 \in S /\ \A n \in Nat : n \in S => n + 1 \in S
      BY <1>7
    <2> HIDE DEF S
    <2>2. Nat \subseteq S
      BY <2>1, InductionOnSet
    <2> QED
      BY <2>2 DEF S
  <1> QED
    BY <1>7, <1>8

\* The first k bits of a value, as a number.
Prefix(value, k) == value \div Pow2[Width - k]

Values == 0..(Pow2[Width] - 1)

LEMMA PrefixSteps ==
    ASSUME NEW v \in Values
    PROVE  /\ Prefix(v, 0) = 0
           /\ \A k \in 0..Width : Prefix(v, k) \in Nat
           /\ \A k \in 1..Width : Prefix(v, k) = 2 * Prefix(v, k - 1) + Bit(v, k) /\ Bit(v, k) \in {0, 1}
  <1> USE TopologyAssumption
  <1>1. v \in Nat /\ v < Pow2[Width] /\ Pow2[Width] \in Nat \ {0}
    BY Pow2Facts DEF Values
  <1>2. Prefix(v, 0) = 0
    <2>1. Width - 0 = Width
      OBVIOUS
    <2> QED
      BY <1>1, <2>1 DEF Prefix
  <1>3. ASSUME NEW k \in 0..Width PROVE Prefix(v, k) \in Nat
    <2>1. Width - k \in Nat /\ Pow2[Width - k] \in Nat \ {0}
      BY Pow2Facts
    <2> QED
      BY <1>1, <2>1 DEF Prefix
  <1>4. ASSUME NEW k \in 1..Width
        PROVE  Prefix(v, k) = 2 * Prefix(v, k - 1) + Bit(v, k) /\ Bit(v, k) \in {0, 1}
    <2> DEFINE p == Pow2[Width - k]
    <2>1. Width - k \in Nat /\ Width - (k - 1) = (Width - k) + 1
      OBVIOUS
    <2>2. p \in Nat \ {0} /\ Pow2[Width - (k - 1)] = 2 * p
      BY <2>1, Pow2Facts
    <2> HIDE DEF p
    <2>3. v \div (2 * p) = (v \div p) \div 2
      BY <1>1, <2>2
    <2>4. v \div p \in Nat
      BY <1>1, <2>2
    <2>5. v \div p = 2 * ((v \div p) \div 2) + ((v \div p) % 2)
      BY <2>4
    <2>6. (v \div p) % 2 \in {0, 1}
      BY <2>4
    <2>7. Prefix(v, k) = v \div p /\ Prefix(v, k - 1) = v \div (2 * p) /\ Bit(v, k) = (v \div p) % 2
      BY <2>2 DEF Prefix, Bit, p
    <2> QED
      BY <2>3, <2>5, <2>6, <2>7
  <1> QED
    BY <1>2, <1>3, <1>4

\* Prefixes are the same number exactly if they have the same bits.
LEMMA PrefixIsItsBits ==
    ASSUME NEW v \in Values, NEW w \in Values, NEW len \in 0..Width
    PROVE  Prefix(v, len) = Prefix(w, len) <=> \A i \in 1..len : Bit(v, i) = Bit(w, i)
  <1> DEFINE Same(k) == Prefix(v, k) = Prefix(w, k) <=> \A i \in 1..k : Bit(v, i) = Bit(w, i)
             S == {k \in Nat : k <= Width => Same(k)}
  <1>1. 0 \in S
    BY PrefixSteps
  <1>2. ASSUME NEW k \in Nat, k \in S PROVE k + 1 \in S
    <2> SUFFICES ASSUME k + 1 <= Width PROVE Same(k + 1)
      OBVIOUS
    <2>1. k \in 0..Width /\ k + 1 \in 1..Width /\ (k + 1) - 1 = k
      BY TopologyAssumption
    <2>2. /\ Prefix(v, k + 1) = 2 * Prefix(v, k) + Bit(v, k + 1) /\ Bit(v, k + 1) \in {0, 1}
          /\ Prefix(w, k + 1) = 2 * Prefix(w, k) + Bit(w, k + 1) /\ Bit(w, k + 1) \in {0, 1}
          /\ Prefix(v, k) \in Nat /\ Prefix(w, k) \in Nat
      BY <2>1, PrefixSteps
    <2>3. Prefix(v, k + 1) = Prefix(w, k + 1)
              <=> Prefix(v, k) = Prefix(w, k) /\ Bit(v, k + 1) = Bit(w, k + 1)
      BY <2>2
    <2>4. (\A i \in 1..(k + 1) : Bit(v, i) = Bit(w, i))
              <=> (\A i \in 1..k : Bit(v, i) = Bit(w, i)) /\ Bit(v, k + 1) = Bit(w, k + 1)
      <3>1. 1..(k + 1) = (1..k) \cup {k + 1}
        OBVIOUS
      <3> QED
        BY <3>1
    <2>5. Same(k)
      BY <1>2, <2>1
    <2> QED
      BY <2>3, <2>4, <2>5
  <1> HIDE DEF S
  <1>3. Nat \subseteq S
    BY <1>1, <1>2, InductionOnSet
  <1>4. len \in Nat /\ len <= Width
    BY TopologyAssumption
  <1> QED
    BY <1>3, <1>4 DEF S

\* A mask compares prefixes.
LEMMA MaskComparesPrefixes ==
    ASSUME NEW v \in Values, NEW w \in Values, NEW len \in 1..Width
    PROVE  Masked(v, len) = Masked(w, len) <=> Prefix(v, len) = Prefix(w, len)
  <1>1. (Width - len) % Width = Width - len /\ Width - len \in Nat
    BY TopologyAssumption
  <1>2. Pow2[Width - len] \in Nat \ {0} /\ v \in Nat /\ w \in Nat
    <2>1. Pow2[Width] \in Nat
      BY TopologyAssumption, Pow2Facts
    <2> QED
      BY <1>1, <2>1, Pow2Facts DEF Values
  <1> DEFINE p == Pow2[Width - len]
  <1>3. Masked(v, len) = v - (v % p) /\ Masked(w, len) = w - (w % p)
    BY <1>1 DEF Masked
  <1>4. Prefix(v, len) = v \div p /\ Prefix(w, len) = w \div p
    BY DEF Prefix
  <1> HIDE DEF p
  <1>5. p \in Nat \ {0}
    BY <1>2 DEF p
  <1>6. v - (v % p) = w - (w % p) => v \div p = w \div p
    BY <1>2, <1>5
  <1>7. v \div p = w \div p => v - (v % p) = w - (w % p)
    BY <1>2, <1>5
  <1> QED
    BY <1>3, <1>4, <1>6, <1>7

\* ip_in_cidr compares bits, for the prefix lengths there are.
LEMMA InCidrComparesBits ==
    ASSUME NEW a \in Addresses, NEW n \in Net
    PROVE  InCidr(a, n) <=> SamePrefix(a, n)
  <1>1. n.address \in Addresses /\ n.len \in 0..Width
    BY DEF Net
  <1>2. a.value \in Values /\ n.address.value \in Values
    BY <1>1, TopologyAssumption DEF Values
  <1>3. CASE n.len = 0
    BY <1>1, <1>3, TopologyAssumption DEF InCidr, SamePrefix
  <1>4. CASE n.len # 0
    <2>1. n.len \in 1..Width /\ n.len <= Width
      BY <1>1, <1>4, TopologyAssumption
    <2>2. Masked(a.value, n.len) = Masked(n.address.value, n.len)
              <=> \A i \in 1..n.len : Bit(a.value, i) = Bit(n.address.value, i)
      BY <1>1, <1>2, <2>1, MaskComparesPrefixes, PrefixIsItsBits
    <2> QED
      BY <1>4, <2>1, <2>2 DEF InCidr, SamePrefix
  <1> QED
    BY <1>3, <1>4
-----------------------------------------------------------------------------
(***************************************************************************)
(* The collectors.                                                         *)
(***************************************************************************)
\* A set of nodes, one of each interface, each with the index f gives it.
LEMMA NodesAreDistinct ==
    ASSUME NEW X, IsFiniteSet(X), NEW f, \A a, b \in X : f[a] = f[b] => a = b,
           NEW n, NEW S, S = {n[a] : a \in X}, \A a \in X : n[a].index = f[a]
    PROVE  Distinct(S) /\ IsFiniteSet(Indexes(S))
  <1> DEFINE Given == {f[a] : a \in X}
  <1>1. Indexes(S) = Given
    BY DEF Indexes
  <1>2. [a \in X |-> f[a]] \in Surjection(X, Given)
    BY DEF Surjection
  <1>3. IsFiniteSet(Given)
    BY <1>2, FS_Surjection
  <1>4. Distinct(S)
    BY DEF Distinct
  <1> QED
    BY <1>1, <1>3, <1>4

\* What a listing gives the interfaces as indexes is distinct, and finite.
LEMMA PayloadsAreDistinct ==
    ASSUME TypeOK, NEW p \in Listings, NEW S \in {SysClassNet(p), ProcNetDev(p), WindowsInterfaces(p), {}}
    PROVE  Distinct(S) /\ IsFiniteSet(Indexes(S)) /\ S \subseteq InterfaceNode
  <1>1. host \in Host /\ host.present \subseteq Adapters
    BY DEF TypeOK, Host
  <1>2. IsFiniteSet(host.present) /\ Cardinality(host.present) \in Nat
    BY <1>1, ScanAssumption, FS_Subset, FS_CardinalityType
  <1>3. /\ p \in [host.present -> 1..Cardinality(host.present)]
        /\ \A a, b \in host.present : p[a] = p[b] => a = b
    BY DEF Listings
  <1>4. \A a, b \in host.present : IfIndex[a] = IfIndex[b] => a = b
    BY <1>1, ScanAssumption
  <1>5. \A a \in host.present :
           /\ host.name[a] \in Names /\ host.nets[a] \in SUBSET Net
           /\ p[a] \in Nat /\ IfIndex[a] \in Nat
    BY <1>1, <1>2, <1>3, ScanAssumption DEF Host
  <1>6. \A a \in host.present, index \in Nat, at \in Nat, nets \in SUBSET Net :
           /\ Node(a, index, at, nets) \in InterfaceNode
           /\ Node(a, index, at, nets).index = index
    <2> SUFFICES ASSUME NEW a \in host.present, NEW index \in Nat, NEW at \in Nat, NEW nets \in SUBSET Net
                 PROVE  /\ Node(a, index, at, nets) \in InterfaceNode
                        /\ Node(a, index, at, nets).index = index
      OBVIOUS
    <2>1. (a \in host.up) \in BOOLEAN /\ (a = Loopback) \in BOOLEAN
      OBVIOUS
    <2>2. host.name[a] \in Names
      BY <1>5
    <2> QED
      BY <2>1, <2>2 DEF Node, InterfaceNode
  <1>7. CASE S = SysClassNet(p)
    <2> DEFINE n == [a \in host.present |-> Node(a, p[a], p[a], IF a = Loopback THEN host.nets[a] ELSE {})]
    <2>1. \A a \in host.present : n[a] \in InterfaceNode /\ n[a].index = p[a]
      BY <1>5, <1>6
    <2>2. S = {n[a] : a \in host.present}
      BY <1>7 DEF SysClassNet
    <2> HIDE DEF n
    <2>3. Distinct(S) /\ IsFiniteSet(Indexes(S))
      BY <1>2, <1>3, <2>1, <2>2, NodesAreDistinct
    <2> QED
      BY <2>1, <2>2, <2>3
  <1>8. CASE S = ProcNetDev(p)
    <2> DEFINE n == [a \in host.present |-> [Node(a, p[a], p[a], {}) EXCEPT !.up = FALSE]]
    <2>1. ASSUME NEW a \in host.present PROVE n[a] \in InterfaceNode /\ n[a].index = p[a]
      <3>1. Node(a, p[a], p[a], {}) \in InterfaceNode /\ Node(a, p[a], p[a], {}).index = p[a]
        BY <1>5, <1>6
      <3>2. n[a] = [Node(a, p[a], p[a], {}) EXCEPT !.up = FALSE]
        OBVIOUS
      <3> QED
        BY <3>1, <3>2 DEF InterfaceNode
    <2>2. S = {n[a] : a \in host.present}
      BY <1>8 DEF ProcNetDev
    <2> HIDE DEF n
    <2>3. Distinct(S) /\ IsFiniteSet(Indexes(S))
      BY <1>2, <1>3, <2>1, <2>2, NodesAreDistinct
    <2> QED
      BY <2>1, <2>2, <2>3
  <1>9. CASE S = WindowsInterfaces(p)
    <2> DEFINE n == [a \in host.present |-> Node(a, IfIndex[a], p[a], host.nets[a])]
    <2>1. \A a \in host.present : n[a] \in InterfaceNode /\ n[a].index = IfIndex[a]
      BY <1>5, <1>6
    <2>2. S = {n[a] : a \in host.present}
      BY <1>9 DEF WindowsInterfaces
    <2> HIDE DEF n
    <2>3. Distinct(S) /\ IsFiniteSet(Indexes(S))
      BY <1>2, <1>4, <2>1, <2>2, NodesAreDistinct
    <2> QED
      BY <2>1, <2>2, <2>3
  <1>10. CASE S = {}
    <2>1. Indexes(S) = {}
      BY <1>10 DEF Indexes
    <2> QED
      BY <1>10, <2>1, FS_EmptySet DEF Distinct
  <1> QED
    BY <1>7, <1>8, <1>9, <1>10
-----------------------------------------------------------------------------
\* A change of the host leaves it a host, and touches nothing that has been read.
LEMMA HostActions ==
    ASSUME IInv, NEW h \in Host, Changes(h)
    PROVE  IInv'
  <1>1. changes' \in 0..MaxChanges /\ steady' \in BOOLEAN /\ host' \in Host
    <2>1. changes' \in 0..MaxChanges
      BY ScanAssumption DEF Changes, IInv, TypeOK
    <2>2. steady' \in BOOLEAN /\ host' \in Host
      BY DEF Changes
    <2> QED
      BY <2>1, <2>2
  <1>2. UNCHANGED <<os, got, payload, view>> /\ TypeOK
    BY DEF Changes, IInv
  <1>3. payload' = payload /\ view' = view /\ got' = got
    BY DEF Changes
  <1>4. Viewed' = Viewed
    BY <1>3 DEF Viewed, Raised
  <1>5. TypeOK'
    BY <1>1, <1>2 DEF TypeOK
  <1> QED
    BY <1>3, <1>4, <1>5 DEF IInv

\* Each change of the host leads to a host.
LEMMA HostsStayHosts ==
    ASSUME TypeOK
    PROVE  /\ \A a \in Adapters : LinkChanges(a) => \E h \in Host : Changes(h)
           /\ \A a \in Adapters : Unplugged(a) => \E h \in Host : Changes(h)
           /\ \A a \in Adapters, n \in Nets : Renumbered(a, n) => \E h \in Host : Changes(h)
           /\ \A a, b \in Adapters : Swapped(a, b) => \E h \in Host : Changes(h)
           /\ \A a \in Adapters, m \in {1, 2} : Rerouted(a, m) => \E h \in Host : Changes(h)
  <1> USE ScanAssumption, HostsAssumption
  <1>1. host \in Host
    BY DEF TypeOK
  <1>2. ASSUME NEW a \in Adapters, LinkChanges(a) PROVE \E h \in Host : Changes(h)
    BY <1>1, <1>2 DEF LinkChanges, Host
  <1>3. ASSUME NEW a \in Adapters, Unplugged(a) PROVE \E h \in Host : Changes(h)
    BY <1>1, <1>3 DEF Unplugged, Host
  <1>4. ASSUME NEW a \in Adapters, NEW n \in Nets, Renumbered(a, n) PROVE \E h \in Host : Changes(h)
    BY <1>1, <1>4 DEF Renumbered, Host
  <1>5. ASSUME NEW a \in Adapters, NEW b \in Adapters, Swapped(a, b) PROVE \E h \in Host : Changes(h)
    BY <1>1, <1>5 DEF Swapped, Host
  <1>6. ASSUME NEW a \in Adapters, NEW m \in {1, 2}, Rerouted(a, m) PROVE \E h \in Host : Changes(h)
    <2> DEFINE r == [destination |-> "default", gateway |-> Gateway, adapter |-> a, metric |-> m,
                     v6 |-> Gateway.v6]
    <2>1. Gateway \in Addresses /\ Gateway.v6 \in BOOLEAN
      BY TopologyAssumption
    <2>2. m \in Nat
      BY <1>6
    <2>3. r \in Route
      BY <2>1, <2>2 DEF Route
    <2> HIDE DEF r
    <2>4. [host EXCEPT !.routes = @ \cup {r}] \in Host
      BY <1>1, <2>3 DEF Host
    <2> QED
      BY <1>6, <2>4 DEF Rerouted, r
  <1> QED
    BY <1>2, <1>3, <1>4, <1>5, <1>6

\* The records a source may deliver.
Records(source) ==
    CASE source = "interfaces" -> {S \in SUBSET InterfaceNode : Distinct(S) /\ IsFiniteSet(Indexes(S))}
      [] source = "routes"     -> SUBSET RouteRow
      [] source = "dns"        -> SUBSET Addresses
      [] source = "neighbors"  -> SUBSET [address : Addresses, name : Names \cup {None}]

\* What a collector delivers is of its type, and its interfaces have distinct indexes.
LEMMA Reading ==
    ASSUME IInv, NEW source \in Sources, NEW privilege \in {"missing", "Available", "Unsupported"},
           NEW records \in Records(source), Reads(source, privilege, records)
    PROVE  IInv'
  <1>1. ~view.done /\ view' = view /\ view = NoView
    BY DEF Reads, IInv, TypeOK
  <1>2. got' \in [Sources -> {"pending", "missing", "Available", "Unsupported"}]
    BY DEF Reads, IInv, TypeOK
  <1>3. payload' = [payload EXCEPT ![source] = records] /\ DOMAIN payload = Sources
    BY DEF Reads, IInv, TypeOK
  <1>4. \A s \in Sources \ {source} : payload'[s] = payload[s]
    BY <1>3
  <1>5. payload'[source] = records
    BY <1>3
  <1>6. /\ payload'["interfaces"] \subseteq InterfaceNode
        /\ Distinct(payload'["interfaces"]) /\ IsFiniteSet(Indexes(payload'["interfaces"]))
    BY <1>4, <1>5 DEF Records, Sources, IInv, TypeOK
  <1>7. payload'["routes"] \subseteq RouteRow
    BY <1>4, <1>5 DEF Records, Sources, IInv, TypeOK
  <1>8. payload'["dns"] \subseteq Addresses
    BY <1>4, <1>5 DEF Records, Sources, IInv, TypeOK
  <1>9. payload'["neighbors"] \subseteq [address : Addresses, name : Names \cup {None}]
    BY <1>4, <1>5 DEF Records, Sources, IInv, TypeOK
  <1>10. /\ os' \in Platforms /\ host' \in Host /\ DOMAIN payload' = Sources
         /\ DOMAIN view' = {"done", "snapshot", "edges", "found"} /\ view'.done \in BOOLEAN
         /\ steady' \in BOOLEAN /\ changes' \in 0..MaxChanges
    BY <1>1, <1>3 DEF Reads, IInv, TypeOK
  <1>11. TypeOK'
    BY <1>1, <1>2, <1>6, <1>7, <1>8, <1>9, <1>10 DEF TypeOK
  <1> QED
    BY <1>1, <1>6, <1>11 DEF IInv, NoView

\* Every collector reads records of its source.
LEMMA Collectors ==
    ASSUME TypeOK
    PROVE  /\ \A p \in Listings : {SysClassNet(p), ProcNetDev(p), WindowsInterfaces(p), {}}
                                     \subseteq Records("interfaces")
           /\ \A ipv6 \in BOOLEAN : LinuxRoutes(ipv6) \in Records("routes")
           /\ \A nameless \in SUBSET Nameless : WindowsRoutes(nameless) \in Records("routes")
           /\ Resolvers \in Records("dns")
           /\ {NetlinkNeighbors, ArpNeighbors} \subseteq Records("neighbors")
           /\ \A nameless \in SUBSET Nameless : WindowsNeighbors(nameless) \in Records("neighbors")
           /\ \A s \in Sources : {} \in Records(s)
  <1>1. \A p \in Listings : {SysClassNet(p), ProcNetDev(p), WindowsInterfaces(p), {}}
                               \subseteq Records("interfaces")
    BY PayloadsAreDistinct DEF Records
  <1>2. \A a \in Adapters : host.name[a] \in Names /\ IfIndex[a] \in Nat
    BY ScanAssumption DEF TypeOK, Host
  <1>3. host.routes \subseteq Route /\ host.resolvers \subseteq Addresses
        /\ host.neighbors \subseteq [address : Addresses, adapter : Adapters]
    BY DEF TypeOK, Host
  <1>4. \A a \in Adapters, nameless \in SUBSET Nameless : Alias(a, nameless) \in Names \cup {None}
    BY <1>2 DEF Alias
  <1>5. \A r \in Route, index \in Nat, name \in Names \cup {None} : Row(r, index, name) \in RouteRow
    BY DEF Row, Route, RouteRow
  <1>6. \A ipv6 \in BOOLEAN : LinuxRoutes(ipv6) \in SUBSET RouteRow
    BY <1>2, <1>3, <1>5 DEF LinuxRoutes, Route
  <1>7. \A nameless \in SUBSET Nameless : WindowsRoutes(nameless) \in SUBSET RouteRow
    BY <1>2, <1>3, <1>4, <1>5 DEF WindowsRoutes, Route
  <1>8. Resolvers \in SUBSET Addresses
    BY <1>3 DEF Resolvers
  <1>9. {NetlinkNeighbors, ArpNeighbors}
            \subseteq SUBSET [address : Addresses, name : Names \cup {None}]
    BY <1>2, <1>3 DEF NetlinkNeighbors, ArpNeighbors, Reachable
  <1>10. \A nameless \in SUBSET Nameless :
            WindowsNeighbors(nameless) \in SUBSET [address : Addresses, name : Names \cup {None}]
    BY <1>3, <1>4 DEF WindowsNeighbors, Reachable
  <1>11. Indexes({}) = {} /\ Distinct({}) /\ IsFiniteSet({})
    BY FS_EmptySet DEF Indexes, Distinct
  <1> QED
    BY <1>1, <1>6, <1>7, <1>8, <1>9, <1>10, <1>11 DEF Records, Sources

\* Every step of a collector is a reading of records of its source.
LEMMA CollectorSteps ==
    ASSUME TypeOK, \/ ReadInterfaces \/ ReadRoutes \/ ReadResolvers \/ ReadNeighbors
                   \/ \E s \in Sources : ReadStub(s) \/ Lost(s)
    PROVE  \E source \in Sources, privilege \in {"missing", "Available", "Unsupported"} :
              \E records \in Records(source) : Reads(source, privilege, records)
  <1>1. CASE ReadInterfaces
    BY <1>1, Collectors DEF ReadInterfaces, Sources
  <1>2. CASE ReadRoutes
    BY <1>2, Collectors DEF ReadRoutes, Sources
  <1>3. CASE ReadResolvers
    BY <1>3, Collectors DEF ReadResolvers, Sources
  <1>4. CASE ReadNeighbors
    BY <1>4, Collectors DEF ReadNeighbors, Sources
  <1>5. CASE \E s \in Sources : ReadStub(s) \/ Lost(s)
    BY <1>5, Collectors DEF ReadStub, Lost
  <1> QED
    BY <1>1, <1>2, <1>3, <1>4, <1>5

-----------------------------------------------------------------------------
(***************************************************************************)
(* The theorems.                                                           *)
(***************************************************************************)
\* The inductive invariant holds: a view, once made, is the view of the payloads.
THEOREM Invariant == Spec => []IInv
  <1>1. Init => IInv
    <2> SUFFICES ASSUME Init PROVE IInv
      OBVIOUS
    <2>1. Indexes({}) = {} /\ Distinct({}) /\ IsFiniteSet({})
      BY FS_EmptySet DEF Indexes, Distinct
    <2>2. payload["interfaces"] = {} /\ payload["routes"] = {} /\ payload["dns"] = {}
          /\ payload["neighbors"] = {} /\ DOMAIN payload = Sources
      BY DEF Init, Sources
    <2>3. os \in Platforms /\ host \in Host
      BY HostsAssumption DEF Init
    <2>4. got \in [Sources -> {"pending", "missing", "Available", "Unsupported"}]
      BY DEF Init, Unread
    <2>5. /\ DOMAIN view = {"done", "snapshot", "edges", "found"}
          /\ view.done = FALSE /\ steady \in BOOLEAN
      BY DEF Init, NoView
    <2>6. changes \in 0..MaxChanges
      BY ScanAssumption DEF Init
    <2>7. TypeOK
      BY <2>2, <2>3, <2>4, <2>5, <2>6 DEF TypeOK
    <2> QED
      BY <2>1, <2>2, <2>5, <2>7 DEF IInv, Init
  <1>2. IInv /\ [Next]_vars => IInv'
    <2> SUFFICES ASSUME IInv, [Next]_vars PROVE IInv'
      OBVIOUS
    <2>0. TypeOK
      BY DEF IInv
    <2>1. CASE \/ \E a \in Adapters : LinkChanges(a) \/ Unplugged(a)
               \/ \E a \in Adapters, n \in Nets : Renumbered(a, n)
               \/ \E a, b \in Adapters : Swapped(a, b)
               \/ \E a \in Adapters, metric \in {1, 2} : Rerouted(a, metric)
      BY <2>0, <2>1, HostsStayHosts, HostActions
    <2>2. CASE \/ ReadInterfaces \/ ReadRoutes \/ ReadResolvers \/ ReadNeighbors
               \/ \E s \in Sources : ReadStub(s) \/ Lost(s)
      BY <2>0, <2>2, CollectorSteps, Reading
    <2>3. CASE Synthesize
      <3>1. view' = Viewed /\ UNCHANGED <<os, host, got, payload, steady, changes>>
            /\ \A s \in Sources : got[s] # "pending"
        BY <2>3 DEF Synthesize
      <3>2. Viewed' = Viewed
        BY <3>1 DEF Viewed, Raised
      <3>3. Viewed.done = TRUE /\ DOMAIN Viewed = {"done", "snapshot", "edges", "found"}
        BY DEF Viewed
      <3>4. TypeOK'
        BY <2>0, <3>1, <3>3 DEF TypeOK
      <3> QED
        BY <3>1, <3>2, <3>3, <3>4 DEF IInv
    <2>4. CASE NextScan
      <3>1. Indexes({}) = {} /\ Distinct({}) /\ IsFiniteSet({})
        BY FS_EmptySet DEF Indexes, Distinct
      <3>2. payload'["interfaces"] = {} /\ payload'["routes"] = {} /\ payload'["dns"] = {}
            /\ payload'["neighbors"] = {} /\ DOMAIN payload' = Sources
        BY <2>4 DEF NextScan, Sources
      <3>3. got' \in [Sources -> {"pending", "missing", "Available", "Unsupported"}]
        BY <2>4 DEF NextScan, Unread
      <3>4. /\ DOMAIN view' = {"done", "snapshot", "edges", "found"}
            /\ view'.done = FALSE /\ steady' \in BOOLEAN /\ view' = NoView
        BY <2>4 DEF NextScan, NoView
      <3>5. os' \in Platforms /\ host' \in Host /\ changes' \in 0..MaxChanges
        BY <2>0, <2>4 DEF NextScan, TypeOK
      <3>6. TypeOK'
        BY <3>2, <3>3, <3>4, <3>5 DEF TypeOK
      <3> QED
        BY <3>1, <3>2, <3>4, <3>6 DEF IInv
    <2>5. CASE UNCHANGED vars
      <3>1. UNCHANGED <<os, host, got, payload, view, steady, changes>>
        BY <2>5 DEF vars
      <3>2. Viewed' = Viewed
        BY <3>1 DEF Viewed, Raised
      <3>3. TypeOK'
        BY <2>0, <3>1 DEF TypeOK
      <3> QED
        BY <3>1, <3>2, <3>3 DEF IInv
    <2> QED
      BY <2>1, <2>2, <2>3, <2>4, <2>5 DEF Next
  <1> QED
    BY <1>1, <1>2, PTL DEF Spec

\* The host, the payloads and the view are of their types.
THEOREM TypeCorrect == Spec => []TypeOK
  <1>1. IInv => TypeOK
    BY DEF IInv
  <1> QED
    BY <1>1, Invariant, PTL

\* The graph never refutes a finding of NET-003, whatever was read at different times: the
\* finding's gateway is off every subnet of the name it gives, and the edges come of the same
\* snapshot.
THEOREM GraphNeverRefutes == Spec => []GraphAgreesWithFindings
  <1>1. IInv => GraphAgreesWithFindings
    <2> SUFFICES ASSUME IInv,
                        NEW g \in view.snapshot.gateways,
                        g.name \notin {None, "unknown"},
                        <<"NET-003", g.ip, g.name>> \in view.found,
                        NEW n \in view.snapshot.subnets,
                        Edge("InterfaceHostsSubnet", <<"interface", g.name>>, <<"subnet", n.net>>)
                            \in view.edges,
                        Edge("GatewayOnSubnet", <<"gateway", g.ip>>, <<"subnet", n.net>>)
                            \in view.edges
                 PROVE  FALSE
      BY DEF GraphAgreesWithFindings
    <2> DEFINE s == view.snapshot
    <2>1. view = Viewed
      <3>1. NoView.found = {}
        BY DEF NoView
      <3> QED
        BY <3>1 DEF IInv, TypeOK
    <2>2. view.edges = Edges(s) /\ <<"NET-003", g.ip, g.name>> \in Raised(s)
      BY <2>1 DEF Viewed
    <2>3. <<"NET-003", g.ip, g.name>> \in Net003(s)
      BY <2>2 DEF Raised, Net004, Net005, Net006, Net007, Net008
    <2>4. PICK h \in OffSubnet(s) : h.ip = g.ip /\ g.name = (IF h.name = None THEN "unknown" ELSE h.name)
      BY <2>3 DEF Net003
    <2>5. PICK m \in s.subnets : m.name = g.name /\ m.net = n.net
      BY <2>2, SubnetEdges
    <2>6. InCidr(g.ip, n.net)
      BY <2>2, SubnetEdges
    <2>7. ~InCidr(h.ip, m.net)
      BY <2>4, <2>5, OffSubnetHasNoTriangle
    <2> QED
      BY <2>4, <2>5, <2>6, <2>7
  <1> QED
    BY <1>1, Invariant, PTL

\* A finding of NET-008 and the snapshot's is_multi_homed never disagree: each of its two
\* interfaces has a subnet, and their indexes differ.
THEOREM MultiHomedIsConsistent == Spec => []MultiHomedAgrees
  <1>1. IInv => MultiHomedAgrees
    <2> SUFFICES ASSUME IInv, NEW f \in view.found, f[1] = "NET-008"
                 PROVE  view.snapshot.multiHomed
      BY DEF MultiHomedAgrees
    <2> DEFINE I == payload["interfaces"]
               s == Snapshot(I, payload["routes"], payload["dns"], payload["neighbors"])
    <2>1. view = Viewed
      <3>1. NoView.found = {}
        BY DEF NoView
      <3> QED
        BY <3>1 DEF IInv, TypeOK
    <2>2. view.snapshot = s /\ f \in Raised(s)
      BY <2>1 DEF Viewed
    <2>3. f \in Net008(s)
      BY <2>2 DEF Raised, Net003, Net004, Net005, Net006, Net007
    <2>4. PICK x \in Faces(s, "PublicGlobal"), y \in Faces(s, "Private") : x # y
      BY <2>3 DEF Net008
    <2>5. PICK i \in I : i.name = x /\ Assigned(i) # {}
      BY <2>4, FaceHasSubnet
    <2>6. PICK j \in I : j.name = y /\ Assigned(j) # {}
      BY <2>4, FaceHasSubnet
    <2>7. IsMultiHomed(I)
      BY <2>4, <2>5, <2>6, TwoIndexes DEF IInv
    <2> QED
      BY <2>2, <2>7 DEF Snapshot
  <1> QED
    BY <1>1, Invariant, PTL

\* Had the interfaces been listed in another order, the same would have come of it: their
\* indexes are distinct, so the sort by index leaves nothing to the order of listing.
THEOREM OrderNeverMatters == Spec => []OrderDoesNotMatter
  <1>1. IInv => OrderDoesNotMatter
    <2> SUFFICES ASSUME IInv PROVE OrderDoesNotMatter
      OBVIOUS
    <2>1. PICK I, R, D, N : /\ view.snapshot = Snapshot(I, R, D, N)
                            /\ I \subseteq InterfaceNode /\ Distinct(I)
      <3>1. CASE view.done
        BY <3>1 DEF IInv, TypeOK, Viewed
      <3>2. CASE ~view.done
        BY <3>2 DEF IInv, NoView, Distinct
      <3> QED
        BY <3>1, <3>2
    <2> DEFINE s == view.snapshot
               places == {i.at : i \in I}
               t(p) == [s EXCEPT !.interfaces = Relist(I, p)]
    <2>2. \A p \in [places -> places] :
             /\ Edges(t(p)) = Edges(s) /\ Net003(t(p)) = Net003(s)
             /\ Net004(t(p)) = Net004(s) /\ Net008(t(p)) = Net008(s)
      BY <2>1, Relisted
    <2>3. \A p \in [places -> places] : Raised(t(p)) = Raised(s) /\ Edges(t(p)) = Edges(s)
      BY <2>2 DEF Raised
    <2>4. s.interfaces = I
      BY <2>1 DEF Snapshot
    <2> HIDE DEF s
    <2> QED
      BY <2>3, <2>4 DEF OrderDoesNotMatter, Relist, Moved, s
  <1> QED
    BY <1>1, Invariant, PTL
-----------------------------------------------------------------------------
(***************************************************************************)
(* What was read of a host that kept still is what there is.               *)
(***************************************************************************)
InterfacesRead(S) ==
    \E p \in Listings :
        \/ os = "linux" /\ S \in {SysClassNet(p), ProcNetDev(p)}
        \/ os = "windows" /\ S = WindowsInterfaces(p)

RoutesRead(S) ==
    \/ os = "linux" /\ \E ipv6 \in BOOLEAN : S = LinuxRoutes(ipv6)
    \/ os = "windows" /\ \E nameless \in SUBSET Nameless : S = WindowsRoutes(nameless)

SteadyInv == steady =>
    /\ payload["interfaces"] # {} =>
           got["interfaces"] = "Available" /\ InterfacesRead(payload["interfaces"])
    /\ got["routes"] = "Available" => RoutesRead(payload["routes"])

\* A change leaves a host that a kernel would have.
LEMMA WellFormedNext ==
    ASSUME TypeOK, WellFormed(host), [Next]_vars
    PROVE  WellFormed(host')
  <1> USE ScanAssumption DEF WellFormed, Changes
  <1>1. host \in Host
    BY DEF TypeOK
  <1>2. ASSUME NEW a \in Adapters, LinkChanges(a) PROVE WellFormed(host')
    BY <1>1, <1>2 DEF LinkChanges, Host
  <1>3. ASSUME NEW a \in Adapters, Unplugged(a) PROVE WellFormed(host')
    BY <1>1, <1>3 DEF Unplugged, Host
  <1>4. ASSUME NEW a \in Adapters, NEW n \in Nets, Renumbered(a, n) PROVE WellFormed(host')
    BY <1>1, <1>4 DEF Renumbered, Host
  <1>5. ASSUME NEW a \in Adapters, NEW b \in Adapters, Swapped(a, b) PROVE WellFormed(host')
    <2>1. host' = [host EXCEPT !.name[a] = host.name[b], !.name[b] = host.name[a]]
      BY <1>5 DEF Swapped
    <2>2. host'.routes = host.routes /\ host'.present = host.present
      BY <1>1, <2>1 DEF Host
    <2>3. host'.name = [host.name EXCEPT ![a] = host.name[b], ![b] = host.name[a]]
      BY <1>1, <2>1 DEF Host
    <2>4. \A c, d \in Adapters : host'.name[c] = host'.name[d] => c = d
      BY <1>1, <2>3 DEF Host
    <2> QED
      BY <2>2, <2>4
  <1>6. ASSUME NEW a \in Adapters, NEW m \in {1, 2}, Rerouted(a, m) PROVE WellFormed(host')
    BY <1>1, <1>6 DEF Rerouted, Host
  <1>7. ASSUME UNCHANGED host PROVE WellFormed(host')
    BY <1>7
  <1>8. CASE ReadInterfaces \/ ReadRoutes \/ ReadResolvers \/ ReadNeighbors
             \/ (\E s \in Sources : ReadStub(s) \/ Lost(s)) \/ Synthesize \/ NextScan \/ UNCHANGED vars
    <2>1. UNCHANGED host
      BY <1>8 DEF ReadInterfaces, ReadRoutes, ReadResolvers, ReadNeighbors, ReadStub, Lost, Reads,
         Synthesize, NextScan, vars
    <2> QED
      BY <1>7, <2>1
  <1> QED
    BY <1>2, <1>3, <1>4, <1>5, <1>6, <1>8 DEF Next

\* What a table would give depends on the host and the platform alone.
LEMMA ReadingsStay ==
    ASSUME UNCHANGED <<os, host>>
    PROVE  \A S : /\ InterfacesRead(S) => InterfacesRead(S)'
                  /\ RoutesRead(S) => RoutesRead(S)'
  <1>1. host' = host /\ os' = os
    OBVIOUS
  <1>2. Listings' = Listings
    BY <1>1 DEF Listings
  <1>3. \A p : /\ SysClassNet(p)' = SysClassNet(p) /\ ProcNetDev(p)' = ProcNetDev(p)
               /\ WindowsInterfaces(p)' = WindowsInterfaces(p)
    BY <1>1 DEF SysClassNet, ProcNetDev, WindowsInterfaces, Node
  <1>4. \A b : LinuxRoutes(b)' = LinuxRoutes(b) /\ WindowsRoutes(b)' = WindowsRoutes(b)
    BY <1>1 DEF LinuxRoutes, WindowsRoutes, Row, Alias
  <1> QED
    BY <1>1, <1>2, <1>3, <1>4 DEF InterfacesRead, RoutesRead

\* A source was read as a host that kept still lets it be.
Fits(source, privilege, records) ==
    /\ source = "interfaces" =>
           records = {} \/ (privilege = "Available" /\ InterfacesRead(records))
    /\ source = "routes" /\ privilege = "Available" => RoutesRead(records)

\* Each step preserves what a steady host and its readings have in common.
LEMMA SteadyNext ==
    ASSUME TypeOK, SteadyInv, [Next]_vars
    PROVE  SteadyInv'
  <1>1. ASSUME NEW h, Changes(h) PROVE SteadyInv'
    BY <1>1 DEF Changes, SteadyInv
  <1>2. CASE \/ \E a \in Adapters : LinkChanges(a) \/ Unplugged(a)
             \/ \E a \in Adapters, n \in Nets : Renumbered(a, n)
             \/ \E a, b \in Adapters : Swapped(a, b)
             \/ \E a \in Adapters, metric \in {1, 2} : Rerouted(a, metric)
    BY <1>1, <1>2 DEF LinkChanges, Unplugged, Renumbered, Swapped, Rerouted
  <1>3. ASSUME NEW source \in Sources, NEW privilege, NEW records, Reads(source, privilege, records),
               Fits(source, privilege, records)
        PROVE  SteadyInv'
    <2>1. steady' = steady /\ UNCHANGED <<os, host>>
      BY <1>3 DEF Reads
    <2>2. /\ got' = [got EXCEPT ![source] = privilege]
          /\ payload' = [payload EXCEPT ![source] = records]
      BY <1>3 DEF Reads
    <2>3. DOMAIN got = Sources /\ DOMAIN payload = Sources
      BY DEF TypeOK
    <2>4. steady =>
          /\ payload'["interfaces"] # {} =>
                 got'["interfaces"] = "Available" /\ InterfacesRead(payload'["interfaces"])
          /\ got'["routes"] = "Available" => RoutesRead(payload'["routes"])
      BY <1>3, <2>1, <2>2, <2>3 DEF Sources, SteadyInv, Fits
    <2>5. \A S : (InterfacesRead(S) => InterfacesRead(S)') /\ (RoutesRead(S) => RoutesRead(S)')
      BY <2>1, ReadingsStay
    <2> QED
      BY <2>1, <2>4, <2>5 DEF SteadyInv
  <1>4. CASE ReadInterfaces
    <2>1. PICK records :
              /\ Reads("interfaces", "Available", records)
              /\ \/ records = {}
                 \/ os = "linux" /\ \E p \in Listings : records \in {SysClassNet(p), ProcNetDev(p)}
                 \/ os = "windows" /\ \E p \in Listings : records = WindowsInterfaces(p)
      BY <1>4 DEF ReadInterfaces
    <2>2. Fits("interfaces", "Available", records)
      BY <2>1 DEF Fits, InterfacesRead
    <2> QED
      BY <1>3, <2>1, <2>2 DEF Sources
  <1>5. CASE ReadRoutes
    <2>1. PICK records : Reads("routes", "Available", records) /\ Fits("routes", "Available", records)
      BY <1>5 DEF ReadRoutes, RoutesRead, Fits
    <2> QED
      BY <1>3, <2>1 DEF Sources
  <1>6. CASE ReadResolvers \/ ReadNeighbors
    <2>1. PICK source \in {"dns", "neighbors"} : \E records : Reads(source, "Available", records)
      BY <1>6 DEF ReadResolvers, ReadNeighbors
    <2>2. \A records : Fits(source, "Available", records)
      BY DEF Fits
    <2> QED
      BY <1>3, <2>1, <2>2 DEF Sources
  <1>7. CASE \E s \in Sources : ReadStub(s) \/ Lost(s)
    <2>1. PICK s \in Sources : ReadStub(s) \/ Lost(s)
      BY <1>7
    <2>2. \E privilege : Reads(s, privilege, {}) /\ Fits(s, privilege, {})
      <3>1. CASE Lost(s)
        BY <3>1 DEF Lost, Fits
      <3>2. CASE ReadStub(s) /\ s = "interfaces"
        BY <3>2 DEF ReadStub, Fits
      <3>3. CASE ReadStub(s) /\ s # "interfaces"
        BY <3>3 DEF ReadStub, Fits
      <3> QED
        BY <2>1, <3>1, <3>2, <3>3
    <2> QED
      BY <1>3, <2>2
  <1>8. CASE NextScan
    <2>1. got' = Unread /\ payload' = [s \in Sources |-> {}]
      BY <1>8 DEF NextScan
    <2>2. Unread["routes"] = "pending" /\ payload'["interfaces"] = {}
      BY <2>1 DEF Unread, Sources
    <2> QED
      BY <2>1, <2>2 DEF SteadyInv
  <1>9. CASE Synthesize \/ UNCHANGED vars
    <2>1. UNCHANGED <<os, host, got, payload, steady>>
      BY <1>9 DEF Synthesize, vars
    <2>2. \A S : (InterfacesRead(S) => InterfacesRead(S)') /\ (RoutesRead(S) => RoutesRead(S)')
      BY <2>1, ReadingsStay
    <2> QED
      BY <2>1, <2>2 DEF SteadyInv
  <1> QED
    BY <1>2, <1>4, <1>5, <1>6, <1>7, <1>8, <1>9 DEF Next

\* While the host keeps still, each table that was read holds what its collector gives of it.
THEOREM SteadyReadings == Spec => [](WellFormed(host) /\ SteadyInv)
  <1>1. Init => WellFormed(host) /\ SteadyInv
    BY HostsAssumption DEF Init, SteadyInv, Unread, Sources
  <1>2. TypeOK /\ (WellFormed(host) /\ SteadyInv) /\ [Next]_vars => (WellFormed(host) /\ SteadyInv)'
    BY WellFormedNext, SteadyNext
  <1> QED
    BY <1>1, <1>2, TypeCorrect, PTL DEF Spec
-----------------------------------------------------------------------------
(***************************************************************************)
(* The gateways outside the subnets of their interface.                    *)
(***************************************************************************)
\* Linux reads no address but the loopback ones, so no interface gives a subnet and every
\* gateway belongs to an interface without one.
LEMMA LinuxHasNoStray ==
    ASSUME TypeOK, WellFormed(host), os = "linux", NEW p \in Listings,
           NEW I \in {SysClassNet(p), ProcNetDev(p)}, NEW ipv6 \in BOOLEAN, NEW D, NEW N
    PROVE  OffSubnet(Snapshot(I, LinuxRoutes(ipv6), D, N)) = {}
  <1> DEFINE s == Snapshot(I, LinuxRoutes(ipv6), D, N)
             node(a) == Node(a, p[a], p[a], IF a = Loopback THEN host.nets[a] ELSE {})
             bare(a) == [Node(a, p[a], p[a], {}) EXCEPT !.up = FALSE]
  <1>0. I \in {{node(a) : a \in host.present}, {bare(a) : a \in host.present}}
    BY DEF SysClassNet, ProcNetDev
  <1>1. \A i \in I : i.loopback \/ i.nets = {}
    <2>1. \A a : node(a).loopback <=> a = Loopback
      BY DEF Node
    <2>2. \A a : a # Loopback => node(a).nets = {}
      BY DEF Node
    <2>3. \A a : bare(a).nets = {}
      BY DEF Node
    <2> HIDE DEF node, bare
    <2> QED
      BY <1>0, <2>1, <2>2, <2>3
  <1>2. s.subnets = {}
    BY <1>1 DEF Snapshot, Subnets, Assigned
  <1>3. \A g : EgressSubnets(s, g) = {}
    BY <1>2 DEF EgressSubnets
  <1>4. \A a \in host.present : \E i \in I : i.name = host.name[a]
    <2>1. \A a : node(a).name = host.name[a] /\ bare(a).name = host.name[a]
      BY DEF Node
    <2> HIDE DEF node, bare
    <2> QED
      BY <1>0, <2>1
  <1>5. \A g \in s.gateways : \E q \in host.routes : g.name = host.name[q.adapter]
    BY DEF Snapshot, Gateways, LinuxRoutes, Row
  <1>6. \A g \in s.gateways : \E i \in I : i.name = g.name
    BY <1>4, <1>5 DEF WellFormed
  <1>7. s.interfaces = I
    BY DEF Snapshot
  <1>8. \A g \in s.gateways : Matches(s, g) # {}
    <2> HIDE DEF s
    <2> QED
      BY <1>6, <1>7 DEF Matches
  <1> HIDE DEF s
  <1>9. OffSubnet(s) = {}
    BY <1>3, <1>8 DEF OffSubnet
  <1> QED
    BY <1>9 DEF s

\* On Windows a gateway's interface is found, by its index or its name, and its subnets are
\* those there are to see.
LEMMA WindowsGateways ==
    ASSUME TypeOK, WellFormed(host), os = "windows", NEW p \in Listings,
           NEW s, s.interfaces = WindowsInterfaces(p), s.subnets = Subnets(WindowsInterfaces(p)),
           NEW q \in host.routes, q.destination = "default", q.gateway # None,
           NEW g, g.ip = q.gateway, g.v6 = q.v6, g.index = IfIndex[q.adapter],
           g.name \in {None, host.name[q.adapter]}
    PROVE  (/\ ~(g.v6 /\ Class[g.ip] = "LinkLocal")
            /\ Matches(s, g) # {} => ~First(Matches(s, g)).loopback /\ EgressSubnets(s, g) # {}
            /\ \A n \in EgressSubnets(s, g) : ~InCidr(g.ip, n.net))
               <=> Strays(q)
  <1> DEFINE a == q.adapter
             node(b) == Node(b, IfIndex[b], p[b], host.nets[b])
  <1>1. /\ a \in host.present /\ a \in Adapters /\ host.present \subseteq Adapters
        /\ host.name \in [Adapters -> Names] /\ host.nets \in [Adapters -> SUBSET Net]
        /\ q.gateway \in Addresses /\ q.v6 = q.gateway.v6
    <2>1. host \in Host /\ q \in Route
      BY DEF TypeOK, Host
    <2> QED
      BY <2>1 DEF Host, Route, WellFormed
  <1>2. WindowsInterfaces(p) = {node(b) : b \in host.present}
    BY DEF WindowsInterfaces
  <1>3. \A b : /\ node(b).name = host.name[b] /\ node(b).index = IfIndex[b]
                /\ node(b).up = (b \in host.up) /\ node(b).loopback = (b = Loopback)
                /\ node(b).nets = host.nets[b]
    BY DEF Node
  <1> HIDE DEF node
  <1>4. \A b \in host.present : node(b).name = g.name \/ node(b).index = g.index => b = a
    <2>1. None \notin Names /\ \A b, c \in Adapters : IfIndex[b] = IfIndex[c] => b = c
      BY TopologyAssumption, ScanAssumption
    <2> QED
      BY <1>1, <1>3, <2>1 DEF WellFormed
  <1>5. Matches(s, g) = {node(a)}
    BY <1>1, <1>2, <1>3, <1>4 DEF Matches
  <1>6. First(Matches(s, g)) = node(a)
    BY <1>5 DEF First
  <1>7. Assigned(node(a)) = Observable(a)
    BY <1>3 DEF Assigned, Observable, LocalOrPrivate, Public
  <1> DEFINE pair(n, b) == [net |-> n, name |-> host.name[b]]
  <1>8. EgressSubnets(s, g) = {pair(n, a) : n \in Observable(a)}
    <2>1. s.subnets = UNION {{pair(n, b) : n \in Assigned(node(b))} : b \in host.present}
      BY <1>2, <1>3 DEF Subnets
    <2>2. EgressSubnets(s, g) = {n \in s.subnets : n.name = host.name[a]}
      <3>1. \A n \in s.subnets : n.name \in Names
        BY <1>1, <2>1
      <3>2. \A n \in s.subnets : n.name = g.name => n.name = host.name[a]
        BY <3>1, TopologyAssumption
      <3> QED
        BY <1>3, <1>5, <1>6, <3>2 DEF EgressSubnets
    <2>3. \A b \in host.present : host.name[b] = host.name[a] => b = a
      BY <1>1 DEF WellFormed
    <2>4. {n \in s.subnets : n.name = host.name[a]}
              = {pair(n, a) : n \in Assigned(node(a))}
      BY <1>1, <2>1, <2>3
    <2> QED
      BY <1>7, <2>2, <2>4
  <1>9. \A n \in Observable(a) : InCidr(g.ip, n) <=> SamePrefix(q.gateway, n)
    BY <1>1, InCidrComparesBits DEF Observable
  <1>10. (\A n \in EgressSubnets(s, g) : ~InCidr(g.ip, n.net))
             <=> \A n \in Observable(a) : ~SamePrefix(q.gateway, n)
    <2>1. \A n : pair(n, a).net = n
      OBVIOUS
    <2> HIDE DEF pair
    <2> QED
      BY <1>8, <1>9, <2>1
  <1>11. EgressSubnets(s, g) # {} <=> Observable(a) # {}
    BY <1>8
  <1>12. Observable(a) # {} => a # Loopback
    BY DEF Observable
  <1> QED
    BY <1>1, <1>3, <1>5, <1>6, <1>10, <1>11, <1>12 DEF Strays

\* On Windows a gateway is off subnet in a snapshot exactly when it is on the host.
LEMMA WindowsStrays ==
    ASSUME TypeOK, WellFormed(host), os = "windows", NEW p \in Listings,
           NEW nameless \in SUBSET Nameless, NEW D, NEW N
    PROVE  {g.ip : g \in OffSubnet(Snapshot(WindowsInterfaces(p), WindowsRoutes(nameless), D, N))}
               = {q.gateway : q \in {r \in host.routes : Strays(r)}}
  <1> DEFINE s == Snapshot(WindowsInterfaces(p), WindowsRoutes(nameless), D, N)
             of(q) == [ip |-> q.gateway, index |-> IfIndex[q.adapter],
                       name |-> Alias(q.adapter, nameless), metric |-> q.metric, v6 |-> q.v6]
             Defaults == {q \in host.routes : q.destination = "default" /\ q.gateway # None}
  <1>1. s.gateways = {of(q) : q \in Defaults}
    <2> DEFINE row(q) == Row(q, IfIndex[q.adapter], Alias(q.adapter, nameless))
               gate(x) == [ip |-> x.gateway, index |-> x.index, name |-> x.name,
                           metric |-> x.metric, v6 |-> x.v6]
    <2>1. s.gateways = {gate(x) : x \in {y \in {row(q) : q \in host.routes} :
                                             y.destination = "default" /\ y.gateway # None}}
      BY DEF Snapshot, Gateways, WindowsRoutes
    <2>2. \A q : /\ row(q).destination = q.destination /\ row(q).gateway = q.gateway
                  /\ gate(row(q)) = of(q)
      BY DEF Row
    <2> HIDE DEF s, row, gate, of
    <2> QED
      BY <2>1, <2>2
  <1>2. s.interfaces = WindowsInterfaces(p) /\ s.subnets = Subnets(WindowsInterfaces(p))
    BY DEF Snapshot
  <1>3. \A q : /\ of(q).ip = q.gateway /\ of(q).v6 = q.v6 /\ of(q).index = IfIndex[q.adapter]
                /\ of(q).name \in {None, host.name[q.adapter]}
    BY DEF Alias
  <1> HIDE DEF s, of
  <1>4. ASSUME NEW q \in Defaults PROVE of(q) \in OffSubnet(s) <=> Strays(q)
    <2>1. of(q) \in s.gateways
      BY <1>1
    <2> QED
      BY <1>2, <1>3, <2>1, WindowsGateways DEF OffSubnet
  <1>5. OffSubnet(s) \subseteq s.gateways
    BY DEF OffSubnet
  <1>6. \A q \in host.routes : Strays(q) => q \in Defaults
    BY DEF Strays
  <1>7. {g.ip : g \in OffSubnet(s)} = {q.gateway : q \in {r \in host.routes : Strays(r)}}
    BY <1>1, <1>3, <1>4, <1>5, <1>6
  <1> QED
    BY <1>7 DEF s

\* When the host has kept still and both tables were really read, NET-003 names the gateways
\* that lie outside every subnet of their own interface, bit by bit, and no others: for every
\* width of an address, every host and every order of listing.
THEOREM OffSubnetIsTrue == Spec => []OffSubnetIsReal
  <1>1. IInv /\ WellFormed(host) /\ SteadyInv => OffSubnetIsReal
    <2> SUFFICES ASSUME IInv, WellFormed(host), SteadyInv, view.done, steady,
                        payload["interfaces"] # {}, got["routes"] = "Available"
                 PROVE  {f[2] : f \in {e \in view.found : e[1] = "NET-003"}}
                            = {q.gateway : q \in {r \in host.routes : Strays(r)}}
      BY DEF OffSubnetIsReal
    <2> DEFINE I == payload["interfaces"]
               R == payload["routes"]
               s == Snapshot(I, R, payload["dns"], payload["neighbors"])
    <2>1. TypeOK /\ view = Viewed
      BY DEF IInv
    <2>2. got["interfaces"] = "Available" /\ InterfacesRead(I) /\ RoutesRead(R)
      BY DEF SteadyInv
    <2>3. Telemetric!Proceeds("NET-003", got)
      <3>1. /\ Required["NET-003"] = <<"routes", "interfaces">>
            /\ DomainOf["NET-003"] = "topology"
        BY DEF Required, DomainOf, RuleIds
      <3>2. "interfaces" \in Sources
        BY DEF Sources
      <3> QED
        BY <2>2, <3>1, <3>2 DEF Telemetric!Proceeds, Telemetric!Missing, Telemetric!Partials,
           Telemetric!Usable, Telemetric!Privilege, Telemetric!TopologyPrivilege
    <2>4. view.found = {f \in Raised(s) : Telemetric!Proceeds(f[1], got)}
      BY <2>1 DEF Viewed
    <2>5. {e \in view.found : e[1] = "NET-003"} = Net003(s)
      <3>1. \A e \in Raised(s) : e[1] = "NET-003" <=> e \in Net003(s)
        BY DEF Raised, Net003, Net004, Net005, Net006, Net007, Net008
      <3> QED
        BY <2>3, <2>4, <3>1 DEF Raised
    <2>6. {f[2] : f \in Net003(s)} = {g.ip : g \in OffSubnet(s)}
      <3> DEFINE name(g) == IF g.name = None THEN "unknown" ELSE g.name
      <3>1. Net003(s) = {<<"NET-003", g.ip, name(g)>> : g \in OffSubnet(s)}
        BY DEF Net003
      <3> DEFINE finding(g) == <<"NET-003", g.ip, name(g)>>
      <3>2. \A g : finding(g)[2] = g.ip
        OBVIOUS
      <3> HIDE DEF s, name, finding
      <3> QED
        BY <3>1, <3>2 DEF finding
    <2>7. CASE os = "linux"
      <3>1. PICK p \in Listings : I \in {SysClassNet(p), ProcNetDev(p)}
        BY <2>2, <2>7 DEF InterfacesRead
      <3>2. PICK ipv6 \in BOOLEAN : R = LinuxRoutes(ipv6)
        BY <2>2, <2>7 DEF RoutesRead
      <3>3. OffSubnet(s) = {}
        BY <2>1, <2>7, <3>1, <3>2, LinuxHasNoStray
      <3>4. {r \in host.routes : Strays(r)} = {}
        BY <2>7 DEF Strays, Observable
      <3> QED
        BY <2>5, <2>6, <3>3, <3>4
    <2>8. CASE os = "windows"
      <3>1. PICK p \in Listings : I = WindowsInterfaces(p)
        BY <2>2, <2>8 DEF InterfacesRead
      <3>2. PICK nameless \in SUBSET Nameless : R = WindowsRoutes(nameless)
        BY <2>2, <2>8 DEF RoutesRead
      <3> DEFINE W == Snapshot(WindowsInterfaces(p), WindowsRoutes(nameless), payload["dns"],
                               payload["neighbors"])
      <3>3. s = W
        BY <3>1, <3>2
      <3>4. {g.ip : g \in OffSubnet(W)} = {q.gateway : q \in {r \in host.routes : Strays(r)}}
        BY <2>1, <2>8, WindowsStrays
      <3> HIDE DEF s, W
      <3> QED
        BY <2>5, <2>6, <3>3, <3>4
    <2> QED
      BY <2>2, <2>7, <2>8 DEF InterfacesRead
  <1> QED
    BY <1>1, Invariant, SteadyReadings, PTL
=============================================================================

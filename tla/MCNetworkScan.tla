--------------------------- MODULE MCNetworkScan ---------------------------
(* Two interfaces and the loopback one, three-bit addresses of two families. *)
EXTENDS NetworkScan, TLC

V4(value) == [v6 |-> FALSE, value |-> value]
V6(value) == [v6 |-> TRUE, value |-> value]

MCClass == V4(0) :> "Loopback" @@ V4(2) :> "Private" @@ V4(3) :> "Private" @@ V4(6) :> "PublicGlobal"
           @@ V4(7) :> "Multicast" @@ V6(2) :> "PublicGlobal" @@ V6(3) :> "PublicGlobal"
           @@ V6(7) :> "LinkLocal"

MCAddresses == DOMAIN MCClass

MCNames == {"lo", "eth0", "eth1"}

MCNet(address, len) == [address |-> address, len |-> len]

MCIfIndex == "a" :> 2 @@ "b" :> 3 @@ "lo" :> 1

MCNets == {MCNet(V4(2), 2), MCNet(V4(6), 3)}

Default(gateway, adapter, metric) ==
    [destination |-> "default", gateway |-> gateway, adapter |-> adapter, metric |-> metric,
     v6 |-> gateway.v6]

Leak == [destination |-> "loopback", gateway |-> V4(3), adapter |-> "a", metric |-> 1, v6 |-> FALSE]

MCGateway == V4(3)

\* One interface with a net or with an address that gives none beside it, the other with or
\* without nets; two default routes, rivals or of two metrics; a resolver and a neighbour that
\* cannot be.
MCHosts ==
    {[present |-> {"a", "b", "lo"}, name |-> "a" :> "eth0" @@ "b" :> "eth1" @@ "lo" :> "lo",
      up |-> {"a", "b"}, nets |-> "a" :> nets[1] @@ "b" :> nets[2] @@ "lo" :> {MCNet(V4(0), 1)},
      routes |-> routes, resolvers |-> {V4(2), V4(7)},
      neighbors |-> {[address |-> V4(3), adapter |-> "a"], [address |-> V4(7), adapter |-> "b"]}] :
        nets \in {<<{MCNet(V4(2), 2)}, {}>>,
                  <<{MCNet(V4(6), 3), MCNet(V4(7), 1)}, {MCNet(V4(2), 3), MCNet(V6(3), 0)}>>},
        routes \in {{Default(V4(6), "b", 1), Default(V4(3), "b", 1), Leak},
                    {Default(V6(7), "a", 1), Default(V6(2), "b", 2)}}}
=============================================================================

--------------------------- MODULE MCHostPosture ---------------------------
(* A web server that moves between the families, a database, a connection and a resolver. *)
EXTENDS HostPosture

Socket(protocol, v6, address, port, state) ==
    [protocol |-> protocol, v6 |-> v6, address |-> address, port |-> port, state |-> state]

Web4 == Socket("tcp", FALSE, "0.0.0.0", 80, "LISTEN")
Web6 == Socket("tcp", TRUE, "::", 80, "LISTEN")
Bound == Socket("tcp", FALSE, "0.0.0.0", 5432, "ESTABLISHED")
Base == Socket("tcp", FALSE, "127.0.0.1", 5432, "LISTEN")
Dns == Socket("udp", FALSE, "0.0.0.0", 80, "BOUND")

MCSockets == {Web4, Web6, Bound, Base, Dns}

MCScopes == {{s} : s \in Sources} \cup {{"users", "os_config"}}

MCHosts ==
    {[sockets |-> {Web4, Base, Dns}, disabled |-> {"Public"}, enabled |-> {"Guest"},
      services |-> {"print"}, secureBoot |-> "off"],
     [sockets |-> {Web6, Bound, Dns}, disabled |-> {}, enabled |-> {"Administrator"},
      services |-> {}, secureBoot |-> "absent"],
     [sockets |-> {}, disabled |-> {"Domain", "Public"}, enabled |-> Accounts,
      services |-> {"print", "update"}, secureBoot |-> "on"]}
=============================================================================

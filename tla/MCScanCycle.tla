---------------------------- MODULE MCScanCycle ----------------------------
(* NET-003 (a gateway outside every subnet: from routes and interfaces),   *)
(* NET-006 (a loopback route that leaks) and NET-001 (a plaintext port, of *)
(* high severity and without a guardrail).  The routes collector fails     *)
(* when its file cannot be read; the others swallow that, as on Linux.     *)
EXTENDS ScanCycle, TLC

MCSources == {"interfaces", "routes", "sockets"}
MCNetworkSources == MCSources \ {"sockets"}
MCRules == {"NET-001", "NET-003", "NET-006"}
MCDomain == ("NET-001" :> "sockets") @@ ("NET-003" :> "topology") @@ ("NET-006" :> "routes")
MCNeeded == [r \in MCRules |-> MCNetworkSources]
MCGuarded == ("NET-001" :> <<>>) @@ ("NET-003" :> <<"routes", "interfaces">>)
             @@ ("NET-006" :> <<"routes">>)
MCGuardless == {"NET-001"}
MCFindings == {"telnet", "gateway", "leak"}
MCRuleOf == ("telnet" :> "NET-001") @@ ("gateway" :> "NET-003") @@ ("leak" :> "NET-006")
MCFacts == {"port23", "default_route", "subnet", "loopback_route"}
MCNeeds == ("telnet" :> {"port23"}) @@ ("gateway" :> {"default_route"})
           @@ ("leak" :> {"loopback_route"})
MCExcuses == [f \in MCFindings |-> IF f = "gateway" THEN {"subnet"} ELSE {}]

MCReads == {"proc_tcp", "proc_route", "sys_net"}
MCSourceOf == ("proc_tcp" :> "sockets") @@ ("proc_route" :> "routes")
              @@ ("sys_net" :> "interfaces")
MCReadOf == ("port23" :> "proc_tcp") @@ ("default_route" :> "proc_route")
            @@ ("subnet" :> "sys_net") @@ ("loopback_route" :> "proc_route")
MCFatal == {"proc_route"}
MCReports == ("sockets" :> {"Available", "PermissionDenied"}) @@ ("routes" :> {"Available"})
             @@ ("interfaces" :> {"Available", "Partial"})
MCProductionReports == [s \in MCSources |-> {"Available"}]
MCLedgers == {("telnet" :> "NONE") @@ ("gateway" :> "RESOLVED") @@ ("leak" :> "SUPPRESSED"),
              ("telnet" :> "SUPPRESSED") @@ ("gateway" :> "NONE") @@ ("leak" :> "RESOLVED")}
MCKinds == {"all", "sockets"}
=============================================================================

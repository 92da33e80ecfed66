----------------------------- MODULE Telemetry -----------------------------
(***************************************************************************)
(* What a scan may conclude from what its collectors delivered: the        *)
(* sources TopologyExtractor finds missing or degraded, the privilege of   *)
(* the topology derived from them, the guardrail of the network rules, the *)
(* findings the rule engine raises, and the rules whose findings the       *)
(* supervisor then takes to be up to date.                                 *)
(*                                                                         *)
(* `got` gives each source "missing" or the privilege its observation      *)
(* carries, and `seen` is the set of facts in the payloads.  A finding is  *)
(* raised by facts that show it, unless other facts excuse it: a gateway   *)
(* (routes) outside every subnet (interfaces) is NET-003, for example.     *)
(***************************************************************************)
EXTENDS Naturals, Sequences

CONSTANTS
    Sources,         \* the collectors, by their scanner_id
    NetworkSources,  \* NETWORK_SCANNER_IDS
    Topology,        \* the domain of the observation derived from them
    Rules, Domain,   \* each rule's domain: a source or Topology
    Needed,          \* sources the supervisor wants for a Topology rule
    Guarded,         \* required_sources of its guardrail, in order
    Guardless,       \* the baseline rules, which have no guardrail
    Findings,        \* findings, by fingerprint
    RuleOf,          \* the rule that raises each
    Facts,           \* what there is to see on a host
    Needs, Excuses   \* the facts that show a finding, and those that excuse it

ASSUME TelemetryAssumption ==
    /\ NetworkSources \subseteq Sources /\ Topology \notin Sources
    /\ Domain \in [Rules -> Sources \cup {Topology}]
    /\ Needed \in [Rules -> SUBSET NetworkSources]
    /\ Guarded \in [Rules -> Seq(NetworkSources)]
    /\ Guardless \subseteq Rules
    /\ \A r \in Rules : Domain[r] = Topology =>
           /\ r \notin Guardless
           /\ Needed[r] # {} /\ \A i \in DOMAIN Guarded[r] : Guarded[r][i] \in Needed[r]
    /\ RuleOf \in [Findings -> Rules]
    /\ Needs \in [Findings -> SUBSET Facts] /\ Excuses \in [Findings -> SUBSET Facts]
-----------------------------------------------------------------------------
Privileges == {"Available", "Partial", "PermissionDenied", "Unsupported", "Error"}

Missing(got) == {s \in NetworkSources : got[s] = "missing"}

Partials(got) == {s \in NetworkSources : got[s] \notin {"missing", "Available"}}

TopologyPrivilege(got) ==
    IF \E s \in NetworkSources : got[s] = "Available" THEN "Available"
    ELSE IF Partials(got) # {} THEN "Partial" ELSE "Unsupported"

\* The privilege of the observation a domain's rules look at.
Privilege(d, got) == IF d = Topology THEN TopologyPrivilege(got) ELSE got[d]

Usable(privilege) == privilege \in {"Available", "Partial"}

\* NetworkConfidenceGuardrail::evaluate under the standard policy, which all six network
\* rules use.  The first degraded source of the list decides: a missing one suppresses the
\* rule, unless a partial one before it has already let it go on with a lower severity.
\* Low confidence, too, only lowers the severity.
Proceeds(r, got) ==
    LET Lacks(i) == Guarded[r][i] \in Missing(got)
        Degraded(i) == Guarded[r][i] \in Partials(got)
    IN  IF Domain[r] = Topology /\ \E i \in DOMAIN Guarded[r] : Lacks(i) \/ Degraded(i)
        THEN \A i \in DOMAIN Guarded[r] : Lacks(i) => \E j \in 1..(i - 1) : Degraded(j)
        ELSE Usable(Privilege(Domain[r], got))

Applies(r, got) ==
    IF r \in Guardless THEN got[Domain[r]] # "missing" ELSE Proceeds(r, got)

Shown(f, facts) == Needs[f] \subseteq facts /\ Excuses[f] \cap facts = {}

\* RuleEngine::evaluate over the observations of the given domains.
Raised(domains, got, seen) ==
    {f \in Findings : /\ Domain[RuleOf[f]] \in domains
                      /\ Applies(RuleOf[f], got)
                      /\ Shown(f, seen)}

Evaluated_IgnoresMissing(domains, got) ==
    {r \in Rules : Domain[r] \in domains /\ Usable(Privilege(Domain[r], got))}

\* evaluated_rule_ids: "authoritatively evaluated", to the supervisor.
Evaluated(domains, got) ==
    {r \in Rules : /\ Domain[r] \in domains
                   /\ Usable(Privilege(Domain[r], got))
                   /\ Domain[r] = Topology => Needed[r] \cap Missing(got) = {}}
=============================================================================

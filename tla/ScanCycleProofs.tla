-------------------------- MODULE ScanCycleProofs --------------------------
(* What holds of ScanCycle for every set of collectors, rules, findings    *)
(* and facts.                                                              *)
EXTENDS ScanCycle, TLAPS

\* Where the rules have been evaluated on what is still in memory.
Judged == {"enqueue", "report", "select", "resolve", "topology", "count", "exit", "done"}

\* What the scan acts on is what its payloads say.
VerdictInv ==
    /\ pc \in Judged => /\ active = Raised(Domains(kind), got, seen)
                        /\ rules = Evaluated(Domains(kind), got)
    /\ raised \subseteq active
    /\ raised # {} => pc \in {"enqueue", "report"}
    /\ pc = "enqueue" => raised = active

\* A row stays open from its selection to its resolution.
DoomedInv ==
    /\ doomed # {} => pc = "resolve"
    /\ \A f \in doomed : f \notin active /\ RuleOf[f] \in rules /\ ledger[f] = "OPEN"

\* On a host that does not change, a full reading is the truth.
SeenInv ==
    steady => /\ seen \subseteq host
              /\ \A x \in host : /\ got[SourceOf[ReadOf[x]]] = "Available"
                                 /\ ReadOf[x] \notin unread
                                 => x \in seen

Standing(f) == ledger[f] \in {"OPEN", "SUPPRESSED"}

\* How far a scan that has lost no statement has brought the ledger.
LedgerInv ==
    flawless =>
        /\ pc \in {"report", "select", "resolve", "topology", "count", "exit", "done"} =>
               \A f \in active \ raised : Standing(f)
        /\ pc \in {"resolve", "topology", "count", "exit", "done"} =>
               \A f \in Findings \ active :
                   RuleOf[f] \in rules /\ ledger[f] = "OPEN" => f \in doomed
        /\ pc = "done" => (exit = "policy_failure" <=> \E f \in Critical : ledger[f] = "OPEN")

IInv == TypeOK /\ VerdictInv /\ DoomedInv /\ SeenInv /\ LedgerInv
-----------------------------------------------------------------------------
\* The supervisor's list covers the guardrail's: a rule that counts as evaluated is not
\* kept from raising what it sees (rules/network/common.rs, observation/supervisor.rs).
LEMMA EvaluatedApplies ==
    ASSUME NEW domains, NEW got_ \in [Sources -> Delivered \cup {"running"}],
           NEW r \in Evaluated(domains, got_)
    PROVE  Applies(r, got_)
<1>1. r \in Rules /\ Usable(Privilege(Domain[r], got_))
  BY DEF Evaluated
<1>2. CASE Domain[r] = Topology
  <2>1. r \notin Guardless /\ Needed[r] \cap Missing(got_) = {}
    BY <1>1, <1>2, TelemetryAssumption DEF Evaluated
  <2>2. \A i \in DOMAIN Guarded[r] : Guarded[r][i] \notin Missing(got_)
    BY <1>1, <1>2, <2>1, TelemetryAssumption
  <2> QED
    BY <1>1, <1>2, <2>1, <2>2 DEF Applies, Proceeds
<1>3. CASE Domain[r] # Topology
  BY <1>1, <1>3 DEF Applies, Proceeds, Usable, Privilege
<1> QED BY <1>2, <1>3
-----------------------------------------------------------------------------
\* Nothing has been scanned.
LEMMA Initially == Init => IInv
<1> SUFFICES ASSUME Init PROVE IInv
  OBVIOUS
<1>1. TypeOK
  BY ScanAssumption DEF Init, TypeOK, Delivered, PCs
<1>2. VerdictInv /\ DoomedInv
  BY DEF Init, VerdictInv, DoomedInv, Judged
<1>3. SeenInv
  BY ScanAssumption DEF Init, SeenInv
<1>4. LedgerInv
  BY DEF Init, LedgerInv
<1> QED BY <1>1, <1>2, <1>3, <1>4 DEF IInv

LEMMA AbortStep ==
    ASSUME IInv, NEW how \in {"failed", "dead"}, Abort(how)
    PROVE  IInv'
<1> USE DEF Abort, history
<1>1. TypeOK'
  BY DEF IInv, TypeOK, Delivered, PCs, Ended
<1>2. VerdictInv' /\ DoomedInv'
  BY DEF VerdictInv, DoomedInv, Judged
<1>3. SeenInv'
  BY ScanAssumption DEF IInv, TypeOK, SeenInv
<1>4. LedgerInv'
  BY DEF LedgerInv
<1> QED BY <1>1, <1>2, <1>3, <1>4 DEF IInv

LEMMA StartStep ==
    ASSUME IInv, NEW k \in Kinds, Start(k)
    PROVE  IInv'
<1> USE DEF Start
<1>1. TypeOK'
  BY DEF IInv, TypeOK, Delivered, PCs
<1>2. VerdictInv' /\ DoomedInv'
  BY DEF VerdictInv, DoomedInv, Judged
<1>3. SeenInv'
  BY ScanAssumption DEF IInv, TypeOK, SeenInv
<1>4. LedgerInv'
  BY DEF LedgerInv
<1> QED BY <1>1, <1>2, <1>3, <1>4 DEF IInv

LEMMA CollectStep ==
    ASSUME IInv, NEW s \in Sources, Deliver(s) \/ Fails(s) \/ TimesOut(s)
    PROVE  IInv'
<1>1. CASE Deliver(s)
  <2> USE <1>1 DEF Deliver
  <2>0. PICK lost \in SUBSET {x \in Reads \ Fatal : SourceOf[x] = s}, p \in Reports[s] :
            /\ got' = [got EXCEPT ![s] = p]
            /\ unread' = unread \cup lost
            /\ \E part \in SUBSET FactsOf(s, lost) :
                   /\ p = "Available" => part = FactsOf(s, lost)
                   /\ seen' = seen \cup part
    OBVIOUS
  <2>1. PICK part \in SUBSET FactsOf(s, lost) :
            /\ p = "Available" => part = FactsOf(s, lost)
            /\ seen' = seen \cup part
    BY <2>0
  <2>2. p \in Privileges /\ part \subseteq host
    BY ScanAssumption DEF FactsOf
  <2>3. TypeOK'
    BY <2>0, <2>1, <2>2 DEF IInv, TypeOK, Delivered, verdicts, history
  <2>4. VerdictInv' /\ DoomedInv' /\ LedgerInv'
    BY DEF IInv, VerdictInv, DoomedInv, LedgerInv, Judged, Standing, verdicts, history
  <2>5. SeenInv'
    <3> SUFFICES ASSUME steady',
                        NEW x \in host, got'[SourceOf[ReadOf[x]]] = "Available",
                        ReadOf[x] \notin unread'
                 PROVE  x \in seen'
      BY <2>1, <2>2 DEF IInv, SeenInv, history
    <3>1. x \in Facts /\ SourceOf[ReadOf[x]] \in Sources
      BY ScanAssumption DEF IInv, TypeOK
    <3>2. CASE SourceOf[ReadOf[x]] = s
      BY <2>0, <2>1, <3>1, <3>2 DEF FactsOf, IInv, TypeOK
    <3>3. CASE SourceOf[ReadOf[x]] # s
      BY <2>0, <2>1, <3>1, <3>3 DEF IInv, TypeOK, SeenInv, history
    <3> QED BY <3>2, <3>3
  <2> QED BY <2>3, <2>4, <2>5 DEF IInv
<1>2. CASE Fails(s) /\ kind # All
  BY <1>2, AbortStep DEF Fails
<1>3. CASE TimesOut(s) \/ (Fails(s) /\ kind = All)
  <2>1. /\ pc = "collect" /\ got' = [got EXCEPT ![s] = "missing"]
        /\ UNCHANGED <<host, pc, kind, seen, unread, verdicts, exit, ledger, history>>
    BY <1>3 DEF Fails, TimesOut
  <2>2. TypeOK'
    BY <2>1 DEF IInv, TypeOK, Delivered, verdicts, history
  <2>3. VerdictInv' /\ DoomedInv' /\ LedgerInv'
    BY <2>1 DEF IInv, VerdictInv, DoomedInv, LedgerInv, Judged, Standing, verdicts, history
  <2>4. SeenInv'
    BY <2>1, ScanAssumption DEF IInv, TypeOK, SeenInv, history
  <2> QED BY <2>2, <2>3, <2>4 DEF IInv
<1> QED BY <1>1, <1>2, <1>3

LEMMA WorkStep ==
    ASSUME IInv, Work
    PROVE  IInv'
<1> USE DEF collected, verdicts, history
<1>1. CASE Evaluate
  <2> USE <1>1 DEF Evaluate
  <2>1. TypeOK'
    BY DEF IInv, TypeOK, PCs, Raised, Evaluated
  <2>2. VerdictInv' /\ DoomedInv'
    BY DEF IInv, VerdictInv, DoomedInv, Judged
  <2>3. SeenInv' /\ LedgerInv'
    BY DEF IInv, SeenInv, LedgerInv
  <2> QED BY <2>1, <2>2, <2>3 DEF IInv
<1>2. CASE EnqueueObservations
  <2> USE <1>2 DEF EnqueueObservations
  <2>1. TypeOK' /\ VerdictInv' /\ DoomedInv' /\ SeenInv'
    BY DEF IInv, TypeOK, PCs, VerdictInv, DoomedInv, SeenInv, Judged
  <2>2. LedgerInv'
    BY DEF IInv, VerdictInv, LedgerInv
  <2> QED BY <2>1, <2>2 DEF IInv
<1>3. CASE WriterFails \/ ReaderFails
  BY <1>3, AbortStep DEF WriterFails, ReaderFails
<1>4. CASE \E f \in Findings : Report(f) \/ ReportFails(f)
  <2>1. PICK f \in Findings : Report(f) \/ ReportFails(f)
    BY <1>4
  <2>2. TypeOK'
    BY <2>1 DEF IInv, TypeOK, Statuses, Report, ReportFails, Upserted
  <2>3. VerdictInv' /\ DoomedInv' /\ SeenInv'
    BY <2>1 DEF IInv, VerdictInv, DoomedInv, SeenInv, Judged, Report, ReportFails
  <2>4. LedgerInv'
    BY <2>1 DEF IInv, TypeOK, VerdictInv, LedgerInv, Standing, Report, ReportFails, Upserted
  <2> QED BY <2>2, <2>3, <2>4 DEF IInv
<1>5. CASE Reported \/ Reconciled \/ EnqueueTopology \/ CountOpen
  <2> USE <1>5 DEF Reported, Reconciled, EnqueueTopology, CountOpen, AfterReconcile
  <2>1. TypeOK' /\ VerdictInv' /\ DoomedInv' /\ SeenInv'
    BY DEF IInv, TypeOK, PCs, VerdictInv, DoomedInv, SeenInv, Judged
  <2>2. LedgerInv'
    BY DEF IInv, LedgerInv, Standing
  <2> QED BY <2>1, <2>2 DEF IInv
<1>6. CASE Select
  <2> USE <1>6 DEF Select, Stale
  <2>1. TypeOK' /\ VerdictInv' /\ DoomedInv' /\ SeenInv'
    BY DEF IInv, TypeOK, PCs, VerdictInv, DoomedInv, SeenInv, Judged
  <2>2. LedgerInv'
    BY DEF IInv, LedgerInv, Standing
  <2> QED BY <2>1, <2>2 DEF IInv
<1>7. CASE \E f \in Findings : Resolve(f)
  <2>1. PICK f \in Findings : Resolve(f)
    BY <1>7
  <2>2. TypeOK' /\ VerdictInv' /\ DoomedInv' /\ SeenInv'
    BY <2>1 DEF IInv, TypeOK, Statuses, VerdictInv, DoomedInv, SeenInv, Judged, Resolve
  <2>3. LedgerInv'
    BY <2>1 DEF IInv, TypeOK, VerdictInv, DoomedInv, LedgerInv, Standing, Resolve
  <2> QED BY <2>2, <2>3 DEF IInv
<1>8. CASE ReconcileFails
  <2> USE <1>8 DEF ReconcileFails, AfterReconcile
  <2>1. TypeOK' /\ VerdictInv' /\ DoomedInv' /\ SeenInv'
    BY DEF IInv, TypeOK, PCs, VerdictInv, DoomedInv, SeenInv, Judged
  <2>2. LedgerInv'
    BY DEF LedgerInv
  <2> QED BY <2>1, <2>2 DEF IInv
<1>9. CASE Exit
  <2> USE <1>9 DEF Exit
  <2>1. TypeOK' /\ VerdictInv' /\ DoomedInv' /\ SeenInv'
    BY DEF IInv, TypeOK, PCs, Ended, VerdictInv, DoomedInv, SeenInv, Judged
  <2>2. LedgerInv'
    BY DEF IInv, LedgerInv, Standing
  <2> QED BY <2>1, <2>2 DEF IInv
<1> QED
  BY <1>1, <1>2, <1>3, <1>4, <1>5, <1>6, <1>7, <1>8, <1>9 DEF Work

\* A change of the host ends its steadiness.
LEMMA ChangeStep ==
    ASSUME IInv, ChangeHost
    PROVE  IInv'
<1>0. /\ changes' = changes + 1 /\ steady' = FALSE
      /\ UNCHANGED <<pc, kind, got, seen, unread, raised, active, rules, doomed,
                     exit, ledger, scans, flawless>>
  BY DEF ChangeHost, collected, verdicts
<1>1. TypeOK'
  <2>1. host' \subseteq Facts
    BY DEF IInv, TypeOK, ChangeHost
  <2>2. changes' \in Nat
    BY <1>0, SMT DEF IInv, TypeOK
  <2>3. steady' \in BOOLEAN
    BY <1>0
  <2> QED BY <1>0, <2>1, <2>2, <2>3 DEF IInv, TypeOK
<1>2. VerdictInv' /\ DoomedInv' /\ SeenInv'
  BY <1>0 DEF IInv, VerdictInv, DoomedInv, SeenInv, Judged
<1>3. LedgerInv'
  BY <1>0 DEF IInv, LedgerInv, Standing
<1> QED BY <1>1, <1>2, <1>3 DEF IInv

\* Each step of a scan and of the host preserves the invariant.
LEMMA Inductive == IInv /\ [Next]_vars => IInv'
<1> SUFFICES ASSUME IInv, [Next]_vars PROVE IInv'
  OBVIOUS
<1>1. CASE \E k \in Kinds : Start(k)
  BY <1>1, StartStep
<1>2. CASE \E s \in Sources : Deliver(s) \/ Fails(s) \/ TimesOut(s)
  BY <1>2, CollectStep
<1>3. CASE Work
  BY <1>3, WorkStep
<1>4. CASE Crash
  BY <1>4, AbortStep DEF Crash
<1>5. CASE ChangeHost
  BY <1>5, ChangeStep
<1>6. CASE UNCHANGED vars
  BY <1>6 DEF vars, collected, verdicts, history, IInv, TypeOK, VerdictInv, DoomedInv,
              SeenInv, LedgerInv, Judged, Standing
<1> QED BY <1>1, <1>2, <1>3, <1>4, <1>5, <1>6 DEF Next

\* The invariant holds in every reachable state.
THEOREM Invariant == Spec => []IInv
<1> QED BY Initially, Inductive, PTL DEF Spec

\* Types are respected, for any collectors, rules, findings and facts.
THEOREM TypeCorrect == Spec => []TypeOK
<1>1. IInv => TypeOK
  BY DEF IInv
<1> QED BY <1>1, Invariant, PTL
-----------------------------------------------------------------------------
LEMMA OnlyVerdictsMoveTheLedger ==
    ASSUME [Next]_vars
    PROVE  \/ UNCHANGED ledger
           \/ \E f \in Findings : Report(f) \/ Resolve(f)
<1>1. CASE \E k \in Kinds : Start(k)
  BY <1>1 DEF Start
<1>2. CASE \E s \in Sources : Deliver(s) \/ Fails(s) \/ TimesOut(s)
  BY <1>2 DEF Deliver, Fails, TimesOut, Abort
<1>3. CASE Work
  BY <1>3 DEF Work, Evaluate, EnqueueObservations, WriterFails, ReportFails, Reported,
              Select, Reconciled, ReconcileFails, EnqueueTopology, CountOpen, Exit,
              ReaderFails, Abort
<1>4. CASE Crash \/ ChangeHost \/ UNCHANGED vars
  BY <1>4 DEF Crash, Abort, ChangeHost, vars
<1> QED BY <1>1, <1>2, <1>3, <1>4 DEF Next

\* A finding opens and is resolved only on what the payloads of its scan say.
THEOREM VerdictsAreFounded == Spec => VerdictsFollowPayloads
<1>1. ASSUME IInv, [Next]_vars, NEW f \in Findings
      PROVE  /\ ledger'[f] = "OPEN" => ledger[f] = "OPEN" \/ Shown(f, seen)
             /\ ledger'[f] = "RESOLVED" => ledger[f] = "RESOLVED" \/ ~Shown(f, seen)
  <2>1. CASE UNCHANGED ledger
    BY <2>1
  <2>2. CASE \E g \in Findings : Report(g)
    <3>1. PICK g \in Findings : Report(g)
      BY <2>2
    <3>2. Shown(g, seen)
      BY <1>1, <3>1 DEF IInv, VerdictInv, Judged, Report, Raised
    <3> QED
      BY <1>1, <3>1, <3>2 DEF IInv, TypeOK, Report, Upserted
  <2>3. CASE \E g \in Findings : Resolve(g)
    <3>1. PICK g \in Findings : Resolve(g)
      BY <2>3
    <3>2. /\ g \notin Raised(Domains(kind), got, seen)
          /\ RuleOf[g] \in Evaluated(Domains(kind), got)
      BY <1>1, <3>1 DEF IInv, VerdictInv, DoomedInv, Judged, Resolve
    <3>3. Applies(RuleOf[g], got)
      BY <1>1, <3>2, EvaluatedApplies DEF IInv, TypeOK
    <3>4. ~Shown(g, seen)
      BY <3>2, <3>3 DEF Raised, Evaluated
    <3> QED
      BY <1>1, <3>1, <3>4 DEF IInv, TypeOK, Resolve
  <2> QED BY <1>1, <2>1, <2>2, <2>3, OnlyVerdictsMoveTheLedger
<1>2. IInv /\ [Next]_vars =>
          [\A f \in Findings :
               /\ ledger'[f] = "OPEN" => ledger[f] = "OPEN" \/ Shown(f, seen)
               /\ ledger'[f] = "RESOLVED" => ledger[f] = "RESOLVED" \/ ~Shown(f, seen)]_vars
  BY <1>1
<1> QED BY <1>2, Invariant, PTL DEF Spec, VerdictsFollowPayloads

\* The ledger moves only from none to open, and between open and resolved.
THEOREM LedgerMoves == Spec => LedgerLifecycle
<1>1. ASSUME IInv, [Next]_vars, NEW f \in Findings
      PROVE  ledger'[f] = ledger[f] \/ <<ledger[f], ledger'[f]>> \in Lifecycle
  <2>1. CASE UNCHANGED ledger
    BY <2>1
  <2>2. CASE \E g \in Findings : Report(g)
    BY <1>1, <2>2 DEF IInv, TypeOK, Statuses, Report, Upserted, Lifecycle
  <2>3. CASE \E g \in Findings : Resolve(g)
    BY <1>1, <2>3 DEF IInv, TypeOK, DoomedInv, Resolve, Lifecycle
  <2> QED BY <1>1, <2>1, <2>2, <2>3, OnlyVerdictsMoveTheLedger
<1>2. IInv /\ [Next]_vars =>
          [\A f \in Findings :
               ledger'[f] = ledger[f] \/ <<ledger[f], ledger'[f]>> \in Lifecycle]_vars
  BY <1>1
<1> QED BY <1>2, Invariant, PTL DEF Spec, LedgerLifecycle
-----------------------------------------------------------------------------
\* What the payloads say of a finding whose sources were all read is what the host shows.
LEMMA FullReadings ==
    ASSUME IInv, steady, NEW f \in Findings, Trusted(f)
    PROVE  Shown(f, seen) <=> Shown(f, host)
<1>1. seen \subseteq host
  BY DEF IInv, SeenInv
<1>2. ASSUME NEW x \in (Needs[f] \cup Excuses[f]) \cap host
      PROVE  x \in seen
  <2>1. FullyRead(SourceOf[ReadOf[x]]) /\ x \in Facts
    BY TelemetryAssumption DEF Trusted, Evidence
  <2> QED
    BY <1>2, <2>1 DEF FullyRead, IInv, SeenInv
<1> QED BY <1>1, <1>2 DEF Shown

\* Such a finding's rule applies and counts as evaluated.
LEMMA FullReadingsCount ==
    ASSUME IInv, NEW f \in Findings, Trusted(f)
    PROVE  RuleOf[f] \in Evaluated(Domains(kind), got)
<1> DEFINE r == RuleOf[f]
<1>1. r \in Rules /\ Domain[r] \in Domains(kind)
  BY TelemetryAssumption DEF Trusted
<1>2. CASE Domain[r] = Topology
  <2>1. Needed[r] # {} /\ Needed[r] \subseteq NetworkSources
    BY <1>1, <1>2, TelemetryAssumption
  <2>2. \A s \in Needed[r] : got[s] = "Available"
    BY DEF Trusted, FullyRead
  <2> QED
    BY <1>1, <1>2, <2>1, <2>2 DEF Evaluated, Usable, Privilege, TopologyPrivilege, Missing
<1>3. CASE Domain[r] # Topology
  <2>1. got[Domain[r]] = "Available"
    BY <1>3 DEF Trusted, FullyRead
  <2> QED
    BY <1>1, <1>3, <2>1 DEF Evaluated, Usable, Privilege
<1> QED BY <1>2, <1>3

\* A scan that lost no statement, on a host that did not change, leaves the truth about
\* every finding whose sources it read in full.
THEOREM LedgerIsTrue == Spec => []TruthAtExit
<1>1. ASSUME IInv PROVE TruthAtExit
  <2> SUFFICES ASSUME pc = "done", steady, flawless, NEW f \in Findings, Trusted(f)
               PROVE  IF Shown(f, host)
                      THEN /\ ledger[f] \in {"OPEN", "SUPPRESSED"}
                           /\ f \in Critical /\ ledger[f] = "OPEN" => exit = "policy_failure"
                      ELSE ledger[f] # "OPEN"
    BY DEF TruthAtExit
  <2>1. /\ active = Raised(Domains(kind), got, seen)
        /\ rules = Evaluated(Domains(kind), got)
        /\ raised = {} /\ doomed = {}
    BY <1>1 DEF IInv, VerdictInv, DoomedInv, Judged
  <2>2. RuleOf[f] \in rules
    BY <1>1, <2>1, FullReadingsCount
  <2>3. Applies(RuleOf[f], got) /\ Domain[RuleOf[f]] \in Domains(kind)
    BY <1>1, <2>1, <2>2, EvaluatedApplies DEF IInv, TypeOK, Evaluated
  <2>4. f \in active <=> Shown(f, host)
    BY <1>1, <2>1, <2>3, FullReadings DEF Raised
  <2> QED
    BY <1>1, <2>1, <2>2, <2>4 DEF IInv, LedgerInv, Standing
<1> QED BY <1>1, Invariant, PTL
=============================================================================

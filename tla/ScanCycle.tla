----------------------------- MODULE ScanCycle -----------------------------
(***************************************************************************)
(* One `netra scan` after another: ScannerSupervisor (observation/         *)
(* supervisor.rs) runs the collectors, evaluates the rules, stores the     *)
(* observations, reports findings to the ledger (repositories/findings.rs) *)
(* and resolves those it no longer sees; then the command picks its exit   *)
(* code.  The session lease keeps two scans from overlapping, but the host *)
(* changes under a scan, collectors hang, fail or read only part of what   *)
(* there is, single SQL statements fail (every error in the write closures *)
(* is dropped, and each statement commits by itself), and the process can  *)
(* die between any two of them.                                            *)
(***************************************************************************)
EXTENDS Telemetry

CONSTANTS
    Reads,       \* the files and system calls the collectors read
    SourceOf,    \* the collector that makes each read
    ReadOf,      \* the read that shows each fact
    Fatal,       \* reads whose failure fails the collector; other failures are swallowed
    Reports,     \* the privileges each collector can report
    Yielding,    \* collectors whose scan() awaits: only those can be timed out
    Critical,    \* findings of critical or high severity
    All,         \* the kind of a scan without --domain
    Kinds,       \* the scans to run: All, or the domain of --domain
    Ledgers,     \* bound: ledgers that earlier scans may have left
    MaxScans,    \* bound: scans
    MaxChanges   \* bound: changes of the host

Statuses == {"NONE", "OPEN", "RESOLVED", "SUPPRESSED"}

ASSUME ScanAssumption ==
    /\ SourceOf \in [Reads -> Sources] /\ ReadOf \in [Facts -> Reads]
    /\ Fatal \subseteq Reads
    /\ Reports \in [Sources -> SUBSET Privileges]
    /\ Yielding \subseteq Sources /\ Critical \subseteq Findings
    /\ All \notin Sources /\ Kinds \subseteq Sources \cup {All}
    /\ Ledgers \subseteq [Findings -> Statuses]
    /\ MaxScans \in Nat /\ MaxChanges \in Nat

VARIABLES
    host,     \* the facts that hold on the host
    pc,       \* where the scan is
    kind,     \* what it scans
    got,      \* what each collector has delivered
    seen,     \* the facts in the payloads
    unread,   \* reads that failed and were swallowed
    raised,   \* findings raised and not yet reported to the ledger
    active,   \* active_fingerprints
    rules,    \* evaluated_rule_ids
    doomed,   \* fingerprints_to_resolve
    exit,     \* the exit code
    ledger,   \* local_findings: the status of each finding
    scans, changes,
    steady,   \* the host has not changed since the scan started
    flawless  \* no statement of the scan has failed

collected == <<kind, got, seen, unread>>
verdicts == <<raised, active, rules, doomed>>
history == <<scans, changes, steady, flawless>>
vars == <<host, pc, collected, verdicts, exit, ledger, history>>

Ended == {"done", "failed", "dead"}

PCs == {"idle", "collect", "enqueue", "report", "select", "resolve", "topology", "count",
        "exit"} \cup Ended

Delivered == Privileges \cup {"missing"}

TypeOK ==
    /\ host \subseteq Facts
    /\ pc \in PCs
    /\ kind \in Kinds \cup {All}
    /\ got \in [Sources -> Delivered \cup {"running"}]
    /\ seen \subseteq Facts /\ unread \subseteq Reads
    /\ raised \subseteq Findings /\ active \subseteq Findings
    /\ rules \subseteq Rules /\ doomed \subseteq Findings
    /\ exit \in {"none", "success", "policy_failure"}
    /\ ledger \in [Findings -> Statuses]
    /\ scans \in Nat /\ changes \in Nat
    /\ steady \in BOOLEAN /\ flawless \in BOOLEAN
-----------------------------------------------------------------------------
\* Nothing under src/rust calls suppress(), but a database may hold suppressed findings.
Init ==
    /\ host \in SUBSET Facts
    /\ pc = "idle" /\ kind = All
    /\ got = [s \in Sources |-> "missing"]
    /\ seen = {} /\ unread = {}
    /\ raised = {} /\ active = {} /\ rules = {} /\ doomed = {}
    /\ exit = "none"
    /\ ledger \in Ledgers
    /\ scans = 0 /\ changes = 0
    /\ steady = TRUE /\ flawless = TRUE

\* The collectors and the rule domains of a scan.
Collectors(k) == IF k = All THEN Sources ELSE {k}

Domains(k) == IF k = All THEN Sources \cup {Topology} ELSE {k}

Start(k) ==
    /\ pc \in {"idle"} \cup Ended
    /\ scans < MaxScans
    /\ pc' = "collect" /\ kind' = k
    /\ got' = [s \in Sources |-> IF s \in Collectors(k) THEN "running" ELSE "missing"]
    /\ seen' = {} /\ unread' = {}
    /\ raised' = {} /\ active' = {} /\ rules' = {} /\ doomed' = {}
    /\ exit' = "none"
    /\ scans' = scans + 1 /\ steady' = TRUE /\ flawless' = TRUE
    /\ UNCHANGED <<host, ledger, changes>>

\* The process ends without a result, and what it had collected is gone.
Abort(how) ==
    /\ pc' = how
    /\ got' = [s \in Sources |-> "missing"]
    /\ seen' = {} /\ unread' = {}
    /\ raised' = {} /\ active' = {} /\ rules' = {} /\ doomed' = {}
    /\ UNCHANGED <<host, kind, exit, ledger, history>>
-----------------------------------------------------------------------------
FactsOf(s, lost) == {x \in host : SourceOf[ReadOf[x]] = s /\ ReadOf[x] \notin lost}

\* The collector returns an observation.  A read that fails without failing the collector
\* leaves its facts out, whatever privilege is reported.  A partial observation holds any
\* part of the facts; a denied, unsupported or erroneous one holds none.
Deliver(s) ==
    /\ pc = "collect" /\ got[s] = "running"
    /\ \E lost \in SUBSET {x \in Reads \ Fatal : SourceOf[x] = s}, p \in Reports[s] :
           /\ got' = [got EXCEPT ![s] = p]
           /\ unread' = unread \cup lost
           /\ \E part \in SUBSET FactsOf(s, lost) :
                  /\ p = "Available" => part = FactsOf(s, lost)
                  /\ ~Usable(p) => part = {}
                  /\ seen' = seen \cup part
    /\ UNCHANGED <<host, pc, kind, verdicts, exit, ledger, history>>

\* The collector fails.  In a full scan that is logged, and so is a panic of its task;
\* a --domain scan returns the error.
Fails(s) ==
    /\ pc = "collect" /\ got[s] = "running"
    /\ IF kind = All
       THEN /\ got' = [got EXCEPT ![s] = "missing"]
            /\ UNCHANGED <<host, pc, kind, seen, unread, verdicts, exit, ledger, history>>
       ELSE Abort("failed")

\* timeout() drops a collector, but only at one of its awaits; a --domain scan has none.
TimesOut_SingleDomain(s) ==
    /\ pc = "collect" /\ got[s] = "running"
    /\ kind # All /\ s \in Yielding
    /\ got' = [got EXCEPT ![s] = "missing"]
    /\ UNCHANGED <<host, pc, kind, seen, unread, verdicts, exit, ledger, history>>

TimesOut(s) ==
    /\ pc = "collect" /\ got[s] = "running"
    /\ kind = All /\ s \in Yielding
    /\ got' = [got EXCEPT ![s] = "missing"]
    /\ UNCHANGED <<host, pc, kind, seen, unread, verdicts, exit, ledger, history>>

\* Topology synthesis and the one pass of the rule engine.
Evaluate ==
    /\ pc = "collect" /\ \A s \in Sources : got[s] # "running"
    /\ pc' = "enqueue"
    /\ raised' = Raised(Domains(kind), got, seen)
    /\ active' = raised'
    /\ rules' = Evaluated(Domains(kind), got)
    /\ UNCHANGED <<host, collected, doomed, exit, ledger, history>>
-----------------------------------------------------------------------------
\* "Transaction A", one autocommit statement after another.
\* The rows go to the table of ObservationQueue; here only whether all were accepted.
EnqueueObservations ==
    /\ pc = "enqueue"
    /\ pc' = "report"
    /\ flawless' \in BOOLEAN
    /\ UNCHANGED <<host, collected, verdicts, exit, ledger, scans, changes, steady>>

\* with_writer finds the engine closed, which ends the scan.
WriterFails ==
    /\ pc = "enqueue"
    /\ Abort("failed")

\* upsert_entry: a resolved finding opens again and a suppressed one stays suppressed.
Upserted_Reopens(before) == "OPEN"

Upserted_KeepsResolved(before) == IF before = "NONE" THEN "OPEN" ELSE before

Upserted(before) == IF before = "SUPPRESSED" THEN "SUPPRESSED" ELSE "OPEN"

Report(f) ==
    /\ pc = "report" /\ f \in raised
    /\ raised' = raised \ {f}
    /\ ledger' = [ledger EXCEPT ![f] = Upserted(ledger[f])]
    /\ UNCHANGED <<host, pc, collected, active, rules, doomed, exit, history>>

ReportFails(f) ==
    /\ pc = "report" /\ f \in raised
    /\ raised' = raised \ {f}
    /\ flawless' = FALSE
    /\ UNCHANGED <<host, pc, collected, active, rules, doomed, exit, ledger,
                   scans, changes, steady>>

Reported ==
    /\ pc = "report" /\ raised = {}
    /\ pc' = "select"
    /\ UNCHANGED <<host, collected, verdicts, exit, ledger, history>>

\* reconcile_evaluated_rules, first loop: the open findings of the evaluated rules that
\* are not active.  It only reads, so its SELECTs, one for each rule, are one step.
Stale_Active == {f \in Findings : RuleOf[f] \in rules /\ ledger[f] = "OPEN"}

Stale == {f \in Findings \ active : RuleOf[f] \in rules /\ ledger[f] = "OPEN"}

Select ==
    /\ pc = "select"
    /\ pc' = "resolve"
    /\ doomed' = Stale
    /\ UNCHANGED <<host, collected, raised, active, rules, exit, ledger, history>>

\* Second loop.
Resolve(f) ==
    /\ pc = "resolve" /\ f \in doomed
    /\ doomed' = doomed \ {f}
    /\ ledger' = [ledger EXCEPT ![f] = "RESOLVED"]
    /\ UNCHANGED <<host, pc, collected, raised, active, rules, exit, history>>

AfterReconcile == IF kind = All THEN "topology" ELSE "count"

Reconciled ==
    /\ pc = "resolve" /\ doomed = {}
    /\ pc' = AfterReconcile
    /\ UNCHANGED <<host, collected, verdicts, exit, ledger, history>>

\* A failing SELECT or UPDATE returns from reconcile_evaluated_rules.
ReconcileFails ==
    /\ \/ pc = "select" /\ rules # {}
       \/ pc = "resolve" /\ doomed # {}
    /\ pc' = AfterReconcile
    /\ doomed' = {}
    /\ flawless' = FALSE
    /\ UNCHANGED <<host, collected, raised, active, rules, exit, ledger,
                   scans, changes, steady>>

\* "Transaction B": the derived observation; its failure is only logged.
EnqueueTopology ==
    /\ pc = "topology"
    /\ pc' = "count"
    /\ UNCHANGED <<host, collected, verdicts, exit, ledger, history>>

\* The supervisor counts the open findings, then execute_scan reads them again for the
\* exit code.  Either read can fail.
CountOpen ==
    /\ pc = "count"
    /\ pc' = "exit"
    /\ UNCHANGED <<host, collected, verdicts, exit, ledger, history>>

Exit ==
    /\ pc = "exit"
    /\ pc' = "done"
    /\ exit' = IF \E f \in Critical : ledger[f] = "OPEN" THEN "policy_failure" ELSE "success"
    /\ UNCHANGED <<host, collected, verdicts, ledger, history>>

ReaderFails ==
    /\ pc \in {"count", "exit"}
    /\ Abort("failed")
-----------------------------------------------------------------------------
Crash ==
    /\ pc \notin {"idle"} \cup Ended
    /\ Abort("dead")

ChangeHost ==
    /\ changes < MaxChanges
    /\ \E x \in Facts : host' = IF x \in host THEN host \ {x} ELSE host \cup {x}
    /\ changes' = changes + 1 /\ steady' = FALSE
    /\ UNCHANGED <<pc, collected, verdicts, exit, ledger, scans, flawless>>

Work ==
    \/ Evaluate \/ EnqueueObservations \/ WriterFails
    \/ \E f \in Findings : Report(f) \/ ReportFails(f)
    \/ Reported
    \/ Select
    \/ \E f \in Findings : Resolve(f)
    \/ Reconciled \/ ReconcileFails
    \/ EnqueueTopology \/ CountOpen \/ Exit \/ ReaderFails

Next ==
    \/ \E k \in Kinds : Start(k)
    \/ \E s \in Sources : Deliver(s) \/ Fails(s) \/ TimesOut(s)
    \/ Work \/ Crash \/ ChangeHost

Spec == Init /\ [][Next]_vars

\* tokio runs the scan on.  A collector that blocks its thread cannot be timed out and is
\* assumed to return; one that awaits may hang for ever.
Fairness ==
    /\ WF_vars(Work)
    /\ \A s \in Yielding : WF_vars(TimesOut(s))
    /\ \A s \in Sources \ Yielding : WF_vars(Deliver(s) \/ Fails(s))

FairSpec == Spec /\ Fairness
-----------------------------------------------------------------------------
\* A finding whose rule this scan covers, and whose evidence its collectors read in full.
Evidence(f) == {SourceOf[ReadOf[x]] : x \in Needs[f] \cup Excuses[f]}

FullyRead(s) == got[s] = "Available" /\ \A x \in unread : SourceOf[x] # s

Trusted(f) ==
    LET r == RuleOf[f] IN
    /\ Domain[r] \in Domains(kind)
    /\ \A s \in Evidence(f) \cup Needed[r] \cup ({Domain[r]} \ {Topology}) : FullyRead(s)

\* When a scan ends whose statements all succeeded, on a host that did not change under it,
\* the ledger agrees with the host on every finding whose own sources were read in full:
\* whatever the other collectors did, whatever an earlier scan that crashed or lost
\* statements left behind.  An unsuppressed finding of high severity also sets the exit code.
TruthAtExit ==
    pc = "done" /\ steady /\ flawless =>
        \A f \in Findings : Trusted(f) =>
            IF Shown(f, host)
            THEN /\ ledger[f] \in {"OPEN", "SUPPRESSED"}
                 /\ f \in Critical /\ ledger[f] = "OPEN" => exit = "policy_failure"
            ELSE ledger[f] # "OPEN"

\* A finding opens only on what the scan's payloads show, and is resolved only by a scan
\* whose payloads do not show it: the guardrail, which keeps a rule from raising what it
\* sees, and the supervisor's own list of sources never part ways, and a row selected
\* for resolution is not overtaken by its own report.
VerdictsFollowPayloads ==
    [][\A f \in Findings :
           /\ ledger'[f] = "OPEN" => ledger[f] = "OPEN" \/ Shown(f, seen)
           /\ ledger'[f] = "RESOLVED" => ledger[f] = "RESOLVED" \/ ~Shown(f, seen)]_vars

\* Over any number of scans, crashes and lost statements, a finding only opens, is resolved
\* and opens again; what was suppressed stays so.
Lifecycle == {<<"NONE", "OPEN">>, <<"OPEN", "RESOLVED">>, <<"RESOLVED", "OPEN">>}

LedgerLifecycle ==
    [][\A f \in Findings :
           ledger'[f] = ledger[f] \/ <<ledger[f], ledger'[f]>> \in Lifecycle]_vars

\* A full scan ends even when a collector that can be timed out never answers.
FullScanEnds == (pc = "collect" /\ kind = All) ~> (pc \in Ended)

\* docs/SECURITY_CHECK.md:216: "Failed scans never falsely resolve existing security
\* findings."  What still holds on a host that did not change under the scan stays open.
NeverFalselyResolved ==
    [][\A f \in Findings :
           ledger'[f] = "RESOLVED" /\ ledger[f] # "RESOLVED" /\ steady => ~Shown(f, host)]_vars
=============================================================================

# A TLA+ model of the NETRA backend

NETRA is an endpoint posture agent in Rust: a CLI process that scans the host, evaluates rules over
the observations, keeps findings and a queue of observations in one SQLite database, and runs its
components under a lifecycle coordinator. This directory holds its specification: modules translated
from the source, the TLC configurations that check them on small instances, and theorems about them
that TLAPS proves for every instance. All paths below are relative to the repository; `core/` is
`rust/crates/netra-core/src/`, and likewise `cli/`, `api/` and `platform/`.

To check everything by hand:

    tlc -workers 2 -config ObservationQueue.cfg MCObservationQueue.tla     # and likewise each cfg
    tlapm ObservationQueueProofs.tla                                       # and likewise each *Proofs

## 1. The system

| Component (source) | State it keeps | Operations that change it | Talks to | What is hard, and what must hold |
|---|---|---|---|---|
| Runtime coordinator (`core/runtime/`) | `state`, the component list, a broadcast channel | register, initialize, start, trigger_shutdown, shutdown, wait_for_shutdown | calls every component; OS signals | Each call releases the lock between reading and writing; two stoppers and a starter interleave; components fail or hang. A runtime that went down stays down, what a call reports is true, shutdown returns. |
| Storage session (`core/storage/marker.rs`) | `.runtime_active`, `.clean_shutdown`, a temporary file | acquire_session, release_session | processes share the directory | Several file operations, a crash between any two, two processes at once. One owner; an unclean end is never forgotten. |
| Storage engine and quarantine (`core/storage/engine.rs`, `recovery.rs`) | engine state, writer and reader connection under mutexes | initialize (open, verify, quarantine, migrate), with_writer, stop | session markers, SQLite | `with_writer` checks the state before it has the mutex; the checkpoint has a timeout but its closure goes on. No write after release, no damaged file served. |
| Migrations (`core/storage/migrations/`) | the ledger table | run_pending_migrations | engine | A crash between migrations; a changed checksum. Nobody works on half a schema. |
| Observation queue (`core/storage/repositories/queue.rs`) | one row per observation | enqueue, fetch, mark in flight / acknowledged / dead letter, requeue stale | writers through the mutex, readers without | Clients act on identifiers fetched earlier; each UPDATE commits on its own. No accepted observation is lost, attempts are bounded. |
| Quota and pruner (`core/storage/pruner.rs`) | deletes rows | check_quota, execute_prune | queue, findings | Deletes under storage pressure while clients hold identifiers. Never deletes what is owed. |
| Findings repository (`core/storage/repositories/findings.rs`) | one row per fingerprint | upsert, reconcile, resolve, suppress | scan pipeline | Suppression survives rescans; a finding is resolved only on evidence. |
| Scan pipeline (`core/observation/`) | none of its own | run_scan_cycle, run_single_domain_scan | collectors, rules, queue, findings | Collectors time out, panic or report degraded data; the writes of a cycle are several statements. |
| Rule engine (`core/rules/`) | none | evaluate | scan pipeline | Which degraded telemetry silences a rule. |
| Collectors (`platform/scanners/`) | none | scan | the operating system's tables | Several tables read one after another while the host changes, buffers sized by one call and filled by the next, keys that cannot be read. What is reported was true. |
| Network topology (`core/network/`) | none | build, correlate | scan pipeline | The result should not depend on the order in which the system lists things. |
| Worker supervisor and watchdog (`core/supervisor/`) | worker state, launch token, crash history | spawn, IPC messages, worker exit, shutdown | worker over IPC | Messages and exits of a replaced worker; restart backoff and the circuit breaker. |
| Worker harness and IPC (`core/worker/`, `core/ipc/`, `platform/ipc/`) | connection | handshake, heartbeat, frames | supervisor | Partial frames, lost peers. |
| Identity and keys (`cli/commands/identity.rs`, `core/storage/repositories/{identity,keys}.rs`, `core/identity/`) | identity row, key rows, keystore entries | enroll, rotate | keystore, database | Five or six writes to two stores without a transaction. |
| REST service (`api/`) | a single-flight flag, server task | deep check, start, stop | coordinator, engine | The flag must be released on every path, a hang-up included; the engine closes while requests read. |
| Request signing (`core/identity/signer.rs`, `api/middleware/auth.rs`) | a nonce cache that forgets | sign, verify_request_signature | clients, network | Copies that are late, early or spoilt, on several threads. Each request is taken at most once. |
| CLI, output, keystores, config, logging | little or none | | | Presentation, parsing and OS calls. |

`PROJECT.json` lists each component with its sources and how far it is modelled, and every hazard at
the line where it bites.

## 2. Plan

Modules are written so that they can be proved about: parameters are CONSTANTS with named
assumptions, one action per operation or statement, no RECURSIVE operator.

| Order | Modules | Abstract specification | Questions | State |
|---|---|---|---|---|
| 1 | `RuntimeLifecycle`, `RuntimeProofs` | - | lifecycle safety and termination of shutdown | done, proved |
| 2 | `StorageSession`, `StorageSessionProofs` | `SessionLease` | ownership of the directory, damage noticed, schema complete across crashes | done, proved |
| 3 | `ObservationQueue`, `ObservationQueueProofs` | `ObservationDelivery` | nothing accepted is lost, attempts bounded | done, proved |
| 4 | `Telemetry`, `ScanCycle` with the findings table, `ScanCycleProofs` | - | resolution only on evidence, suppression kept, what a crash between the writes leaves | done, proved |
| 5 | `WorkerSupervisor` with the watchdog and the harness, `WorkerSupervisorProofs` | - | late messages of dead workers, circuit breaker, backoff | done, proved |
| 6 | `DeviceIdentity`, `DeviceProofs` | `KeyCustody`: the active key can always sign | enrolment and rotation with failures and crashes | done, proved |
| 7 | `NetworkTopology` (pure operators), `NetworkScan`, `NetworkScanProofs` | bit-by-bit membership, the host itself | topology, edges and network rules of tables read at different moments | done, proved |
| 8 | migrations (in `StorageSession`) | - | a crash between two migrations | done, proved |
| 9 | `LocalApi`, `RuntimeProofs` | - | the single-flight flag, hang-ups, stop of service and engine | done, proved |
| 10 | `SignedRequests`, `SignedRequestsProofs` | - | replay protection with a cache that forgets | done, proved |
| 11 | `HostPosture`, `DeviceProofs` | the host itself | posture tables and baseline rules read at different moments | done, proved |

Composition: `StorageSession` composes markers, engine, quarantine and the CLI's process life; `ScanCycle`
builds on `Telemetry` and on what `StorageSession` shows, that two scans do not overlap; `NetworkScan`
builds on `NetworkTopology` and instantiates the guardrail of `Telemetry` for the six network rules;
`HostPosture` instantiates `Telemetry` for the six baseline rules; `LocalApi` takes the engine's states from `StorageSession`.

Two proof modules speak of two components each, which have nothing else in common: `RuntimeProofs` of the coordinator
and of the REST service that stops with it, `DeviceProofs` of the device's identity and of its posture. `LocalApi` and
`HostPosture` therefore name what every specification has `ApiSpec`, `PostureSpec`, `ApiTypeOK` and so on.

What would come next: `check_quota`, and frame decoding.

## 3. What is modelled

### RuntimeLifecycle

`state` and `components` are the coordinator's fields; `comp` is what the last lifecycle call did to
each component; `task` is each tokio task's position and locals in the call it is making. A step is what
a task does under one lock, or one call into a component, so every `.await` and lock release in
`coordinator.rs` is a point where others run. Component calls succeed or fail; a `stop()` may also exceed its timeout at an
await (`StopComponent`, which then goes on), or block its thread (`StopBlocks`), where the timeout cannot reach it, and come
back or not (`StopUnblocks`). `Blocking` are the components that can: `DatabaseEngine::stop()` waits for std mutexes.

* `CanTransitionTo` is the table of `state.rs`; `TransitionTo` is `transition_to`, `TryTransition` the
  `let _ = transition_to(..)` that drops a refusal.
* `Register`/`RegisterPush`, `Init*`, `Start*`, `Trigger*`, `Shutdown*`/`Stop*`, `Wait*` are the
  handlers, cut where they release a lock.
* A starter calls registration, `initialize()` and `start()`; a stopper calls the rest. `main.rs` does
  the first in one task; nothing in the type stops several tasks from sharing the coordinator, and the
  signal task and the host do.

Properties: `ReportedDown` (what `shutdown()` and a critical failure report is true and stays so),
`TeardownReleases` (reverse teardown misses no component that was started before the runtime went
down), `NeverRevived`, and under fairness `ShutdownReturns` and `WaiterWoken`, unless a `stop()` blocks for ever
(`[]<>Unblocked`).

### SessionLease and StorageSession

Processes (a process is its PID, which a restart reuses) run `main.rs`: acquire the session, open,
verify, maybe quarantine, migrate, run commands, stop, release. A step is one file operation, or what a
thread does under the writer's mutex. SQLite is external: a crash while the file is open may damage it, `quick_check` sees
the damage, and a clean marker skips `quick_check`. Opening or checking may fail on a sound file too, which is then
quarantined like a damaged one. Removing a file may fail, and the code goes on as if it had not (`Dropped`, at most
`MaxFaults` times): `.clean_shutdown`, `.runtime_active`, or the database after a quarantine that had to copy it.

A quarantine takes the main file first (`MoveAway`); the `-wal` and `-shm` files and the metadata follow, and a process may
die or give up before they have (`Degrade`, `RecoverRest`). Those files are not tracked: SQLite discards a log that does not
belong to its database. Each migration is one transaction, which creates its tables and lists itself (`ApplyMigration`);
`Migrate` ends the engine's initialization when none is left. A database may also come from an older build, with only some of
them. A checksum mismatch is one of the errors of `InitError`. `storage recover` quarantines and re-creates the database,
migrations included, inside a running process. The engine in memory, which only tests have, is left out.

`SessionLease` is the promise in three variables (owner, suspect, serving), and `LeaseSpec` maps the processes to it.
Two flags say where the promise ends. `raced`: two processes were between inspecting and registering at once (the check and
the registration are separate file operations). `misled`: the disk told a session less than it had done. Either
`.runtime_active` did not parse and `.clean_shutdown` was there, which takes a removal that failed (`marker.rs:112-115`) or
a late rename, and a session that died while it registered; or a quarantine left a damaged file where it was
(`recovery.rs:185`). All of this can happen in the code, and does in the run; `DamageDetected` and the lease say that nothing
else leads to a damaged file being served.

Properties: `AtMostOneHolder`, `DamageDetected`, `NoWriteAfterRelease` (a write that passed the state check before `stop()`
never runs after the handles are closed), `SchemaComplete` (a Ready engine has all tables, wherever a process died
between two migrations) and `LeaseSpec`.

### ObservationDelivery and ObservationQueue

A row has a hash, a status, a retry count and whether its `updated_at` is behind the requeue's cutoff. A
write holds the writer's mutex for its whole closure while each UPDATE in it commits alone, so a step
is one statement: other writers wait, readers (`FetchQueuedBatch`) do not, an error keeps the statements
before it (`WriteFails`), and so does `Crash`. `RequeueExhausted` and `RequeueRetryable` are the two
statements of `requeue_stale_in_flight`. The senders are the clients of the API: no code under `src/`
delivers observations yet, and their orders of calls are those of the repository's tests (fetch, mark,
report; or fetch and report). Rows age one by one: `updated_at` comes from the wall clock.
Retention periods and the byte threshold of the pruner are abstracted to "some set of settled rows".

`ObservationDelivery` is the promise at the level of payloads: `Accept` leaves a payload owed, and it
stops being owed only by `Settle` (a sender that was handed it reports) or `Abandon` (its attempts are
exhausted). The refinement maps `owed` to the hashes of the live rows, `inHand` to the hashes of each
sender's batch, `worn` to the hashes of live rows with no attempt left. `accepted` counts successful
enqueue calls in both, so an enqueue that reports success without leaving its payload owed is not a
stutter.

### Telemetry and ScanCycle

`Telemetry` holds what `supervisor.rs`, `topology.rs`, `common.rs` and `engine.rs` conclude from a scan's
observations: a payload is the set of `Facts` it contains, and a finding is raised when the payloads hold the
facts it `Needs` and none that `Excuses` it. `Proceeds` is the guardrail (under the standard policy, the only one
the rules use), `Raised` the rule engine, `Evaluated` the supervisor's list of rules whose findings it may
resolve. The last two look at the same sources through two separately written lists: `Guarded` in the rules,
`Needed` in the supervisor. `TelemetryAssumption` says of the constants what those lists say in the code.

`ScanCycle` is `netra scan` after `netra scan`, with the rows of `local_findings` as `ledger`.

* Collectors (`Deliver`, `Fails`, `TimesOut`): each delivers the facts it could read. A read that fails fails
  the collector (`Fatal`) or is swallowed, as most Linux collectors do. A partial observation holds any part
  of the facts. In a full scan a collector's failure is logged; in a scan of one domain it ends the scan.
* `Evaluate` is topology synthesis and the one pass of the rule engine; it touches no shared state.
* `EnqueueObservations`, `Report`, `Select`, `Resolve`, `EnqueueTopology`: the "transactions" of the supervisor.
  No SQL transaction is opened and every error is dropped, so each statement commits alone and may fail alone.
  `Select` is several SELECTs, one step because it writes nothing and the writer's mutex is held.
* `CountOpen`, `Exit`: the last reads and the exit code. `Crash` between any two steps; `ChangeHost` at any time.

`steady` and `flawless` remember whether the host changed or a statement failed since the scan started.
`Observation::new` never fails here (it serializes plain data), and severities, evidence and timestamps are
left out: the only severity that matters is High or Critical, which no guardrail lowers and no
repeated report changes.

Properties: `TruthAtExit` (a scan without lost statements on a steady host leaves the truth about what it read
in full), `VerdictsFollowPayloads` (a finding opens or is resolved only on what the scan's payloads say),
`LedgerLifecycle` and, under fairness, `FullScanEnds`.

### WorkerSupervisor

The engine, its crash tracker and the worker's harness. Nothing under `rust/` runs the engine yet: the daemon is
the loop of `core/tests/ipc_tests.rs` and `supervisor_tests.rs` (prepare a token, spawn, register, wait for the exit, ask
`handle_worker_exit`), one step per lock it takes or time it reads. Workers are numbered by their tokens; each has
a connection with one message in flight (`mail`), which outlives the worker. The task of a connection reads the
clock first (`HandleIpcMessage`) and then does one of `HandshakeRequest` and `Heartbeat`, so it may finish when the
worker is dead and its successor registered. `RecordCrash` is `record_crash` under the tracker's lock, `Decide` the
change of state after it under another lock. Workers may die at any time (`Exit`); any exit counts as a crash, and
`Shutdown` may come at any time.

The clock does not step backwards, the daemon does not wait out the delay it was told (a longer wait only takes
crashes out of the window) and a worker's process identifier and the time of its last heartbeat, which nothing
decides on, are left out. `crashes` and `delays` log every crash and its answer and belong to no code: `history`,
`streak` and `started` are the tracker.

Properties: `RestartsBounded` (fewer than `max_consecutive_crashes` crashes in the window before any restart,
counted over all crashes and not over what the tracker remembers), `TrippedIsDown` and `DownIsFinal` (nothing that
interleaves revives the supervisor), `StreakEarned`; `BackoffFollowsStreak` is proved and not run.

### KeyCustody and DeviceIdentity

`netra enroll` and `netra identity rotate [--emergency]`, command after command. A command reads the identity, writes
a private key to the keystore (a file on Windows, so it may be left half written or half erased: `spoilt`), then
runs `UpsertIdentity`, `InsertKey` or `InsertKey`, `UpdateStatus`, `UpdateActiveKey` in one closure without a
transaction, and an emergency rotation deletes the old private key at last. Every read, write and statement may fail
(`StoreFails`, `Fails`, the outcomes of `DeletePrivateKey`), and `Crash` may come before any of them. `cut` remembers
that a closure ended between its first and its last statement, `served` which keys have been active;
`Quarantine` is what `StorageSession` does to a damaged database. Key identifiers are UUIDs, hence never reused.
The gateway is not contacted by this code, and signatures are opaque. The development keystore, which only
enrolment can select and rotation then does not find, is compiled out of releases and left out.

`KeyCustody` is the promise: `active` is replaced only by a usable key, and only keys that are not active are
scrubbed. Properties: its refinement `CustodySpec`, `SupersededIsInactive`, `OneActiveKey`, `RevokedForGood` and
`ReportedKeys` (which keys a command reports as active and superseded; not the line "Old Key Scrubbed", which is not always
true, see section 4).

### NetworkTopology and NetworkScan

What `ScanCycle` abstracts to facts, for the network collectors and the rules NET-003 to NET-008.
`NetworkTopology` translates `TopologyBuilder` (`Snapshot`), `TopologyCorrelator` (`Edges`), `ip_in_cidr` (`InCidr`)
and the bodies of the rules (`Net003` to `Net008`) as operators on the payloads. An address is its family and its
bits as a number, a finding is what its fingerprint is computed from. A table is a set, except that an interface keeps
the place it was listed at, because the sort by index is all that orders what a rule finds first.

`NetworkScan` has the `host` with its interfaces, addresses, routes, resolvers and neighbours, which changes at any
moment (`LinkChanges`, `Unplugged`, `Renumbered`, `Swapped`, `Rerouted`: external), four collectors that run side by side
and read a table each, when they get to it, and the supervisor, which goes on when the last has answered or was lost
(`Synthesize`). A collector reads its table at one moment; on Linux it really reads several files. The collectors are
those of the platform `os`: Linux numbers interfaces as it lists them, falls back to `/proc/net/dev` and to
`/proc/net/arp`, reads no addresses but the loopback ones and writes index 0 in every route; Windows may not give the
alias of an interface; macOS has stubs (that for interfaces reports its empty list as read). The engine's
dispatch and the guardrail are `Telemetry!Proceeds`.

A host is as a kernel keeps one (`WellFormed`, assumed of the first hosts and preserved by every change): no two
interfaces have the same name, a route belongs to an interface that is there, and its gateway is of its own family.
`Pow2` is the shift of `ip_in_cidr`.

Properties: `OffSubnetIsReal` (on a steady host NET-003 names exactly the gateways off every observable subnet of their
interface, by a definition that looks at single bits and at the host, not at the payloads), `GraphAgreesWithFindings`,
`MultiHomedAgrees` and `OrderDoesNotMatter` (the "Fingerprint Ordering Invariance" of `docs/ARCHITECTURE.md`).

Left out: letter case (edges spell interface names in lower case), the class of an address as computed from its bits (it
is the constant `Class`), patterns in names (`LooksVirtual`), MAC hashes, states of neighbours, confidence, evidence.

### HostPosture

The posture side of a scan: sockets, firewall profiles, accounts, services and the Secure Boot value. `host` is what the
operating system has and changes at any moment a collector could notice (external). A collector takes its tables or keys
one by one (`next`): the four socket tables of Windows (`SizeSockets`, then `ReadTcp` or `ReadUdp`), the two of Linux
(`ReadProcNet`), three profile keys (`ReadProfile`), one list of accounts (`ReadUsers`) and of services (`SizeServices`,
`ReadServices`), one value (`ReadOsConfig`). `room` is what a buffer was sized for: a table that has outgrown it fails the
collector (`Lost`), a table without a size is passed over, a key that cannot be read becomes "enabled" and a list that
cannot be read stays empty; `unread` remembers where that happened. `Net001` to `Os001` are the baseline rules on the
payloads, and `Settle` is the supervisor's conclusion, by `Telemetry!Evaluated`, on the rows of the ledger; the statements
it takes, with their failures, are `ScanCycle`'s. `always` and `ever` belong to no code: what was wrong with the host all
through the scan, and at some moment of it.

Properties: `NoFalseAlarm` (a finding opens only if it was true at some moment of the scan) and `LedgerTellsTheHost` (what
held all through a scan is open or suppressed after it and what never held is not open, for every source that was read).
`InSight` names what no payload of a platform can show: IPv6 sockets on Linux, paths of services anywhere.

Of the sockets a host may have `PostureAssumption` says that the wildcard `::` occurs in the tables for IPv6 and
`0.0.0.0` in those for IPv4: each table prints its addresses by the type of its own rows (`windows/socket.rs:103,175`), and
Linux reads no table for IPv6. Without it a listener could be in a table that no rule would find it in.

### LocalApi

`ApiService` (`Initialize`, `StartListener`, `StartServer`, `StopSend` to `StopFlag`), the handlers, and the reader's half of
`DatabaseEngine` (`ReadCall`, `ReaderLock`, `ReadDone`, `CloseBegin`, `CloseReader`). A request is a future (`pc`) and the
closure it left on the blocking pool (`closure`): `HangUp` drops the future where it waits, its guard with it, and the closure
goes on. `Kinds` are the routes by what they ask of the engine. `raced` says that `start()` and `stop()` overlapped.

The engine may be in any state when the service starts, and SQLite may fail any statement, on a sound file too (`Found`).

Properties: `SingleFlight` (two deep checks run at once only if the client of one has hung up), `PassIsEarned` (a quick check
answers `passed: true` only if it ran and the file is not damaged in a way it sees), `NoReadAfterClose`, `StoppedIsQuiet`
and, under fairness, `FlagComesBack`. Of `passed: false` nothing is claimed: any error earns it (section 4).

Left out: what the routes select and how they page, `timeout_middleware` (no router layers it), a poisoned mutex (no closure
panics), an engine in memory, which stops without closing its reader and which only tests have.

### SignedRequests

A client signs with its own clock (`Sign`); copies arrive any number of times, late, early or spoilt (`Receive`; a spoilt
copy is judged by the timestamp it carries), and a thread compares the timestamp, looks the nonce up (`CheckNonce`) and
verifies the signature (`CheckSignature`). The clock for timestamps has whole seconds, the one of the cache has not; `Restart`
empties the cache. No route calls the verifier yet, so its clients are those of its tests. The wall clock does not jump.

The cache lifetime is twice the window, 600 s for 300 s, and that is just not enough: a request stamped 300 s ahead passes, is
forgotten 600 s later, and then passes again until that second is over. `Outlives` says of a request that its timestamp may
still pass when a nonce recorded now is forgotten; `early` are the requests of which an intact copy was recorded then.
Properties: `AtMostOnce` (no request that is not `early` is accepted twice) and `ReplayIsReal`; a nonce is recorded before
the signature is verified, so a spoilt copy uses it up, which `ReplayIsReal` allows for.

## 4. Runs

| Run | Checks | Bounds | Result |
|---|---|---|---|
| `runtime` | the five properties above, under `FairSpec` | 2 components (1 critical and able to block), 1 starter with 4 calls, 2 stoppers with 1 call each | hold; 187,038 states |
| `session` | `AtMostOneHolder`, `DamageDetected`, `NoWriteAfterRelease`, `SchemaComplete`, refinement of `SessionLease` | 2 PIDs, 3 process lives, 1 crash, 2 failed removals, 2 migrations | hold; 3,914,729 states |
| `session_damage` | `UncleanDetected` | 2 PIDs, 4 lives, 1 crash, no failed removal | violated |
| `queue` | `RetriesBounded`, `SettledStays`, `FlightKeepsItsTime`, refinement of `ObservationDelivery` | 2 payloads, 2 senders, 2 rows, 2 attempts, 1 crash | hold; 374,582 states |
| `scan` | `TruthAtExit`, `VerdictsFollowPayloads`, `LedgerLifecycle`, `FullScanEnds` | 3 collectors, 3 rules with a finding each, 4 facts, 2 scans (full or sockets only), 1 host change | hold; 602,830 states |
| `scan_false_resolution` | `NeverFalselyResolved` | same, steady host, collectors report Available only | violated |
| `supervisor` | `RestartsBounded`, `TrippedIsDown`, `DownIsFinal`, `StreakEarned` | 3 workers, 3 crashes trip the breaker, clock 0 to 3, window 2, stable after 1 | hold; 1,113,105 states |
| `identity` | `SupersededIsInactive`, `OneActiveKey`, `ReportedKeys`, `RevokedForGood`, refinement of `KeyCustody` | 4 keys | hold; 79,067 states |
| `network` | `OffSubnetIsReal`, `GraphAgreesWithFindings`, `MultiHomedAgrees`, `OrderDoesNotMatter` | 2 interfaces and `lo`, 8 addresses of 3 bits, 4 hosts on 3 platforms, 1 change of the host | hold; 341,360 states |
| `posture` | `LedgerTellsTheHost`, `NoFalseAlarm` | 3 hosts on 3 platforms, 5 sockets, 3 profiles, 2 accounts, 2 services, 2 scans of one or two domains, 2 changes | hold; 427,446 states |
| `api` | `SingleFlight`, `PassIsEarned`, `NoReadAfterClose`, `StoppedIsQuiet`, `FlagComesBack` under `FairApiSpec` | 3 requests: 2 deep checks and one of any route but /findings, sent once each | hold; 1,447,728 states |
| `requests` | `AtMostOnce`, `ReplayIsReal` | 2 requests, 2 threads, 2 ticks a second, window 4, cache 8, clients ahead by up to 5, clock 0 to 10 | hold; 8,400,916 states |

Why the bounds are enough. *runtime*: four starter calls are two registrations, `initialize()` and
`start()`; two stoppers let a trigger, a waiter and a shutdown meet; with two components the teardown
loop has a middle. *session*: one life that dies, one that finds what it left, and one that is misled
need three lives; with two failed removals `.clean_shutdown` survives a session that dies and the next, which tears
`.runtime_active`. Without failed removals `UncleanDetected` is violated by the overlap of a fourth life. *queue*: two rows are
one payload twice or two payloads, two attempts are a first flight, a requeue and a last one, and two
senders can hold the same row. The LIMIT of a fetch does not bite with two rows; no property is about it.
*scan*: the three rules are the three kinds the code has (without a guardrail, of a topology derived from two
sources, of one source with a guardrail); the ledgers a run starts from mix findings never seen, resolved and
suppressed; two scans are one that crashes or loses statements and one that must repair what it left.
*supervisor*: two crashes that are answered with a restart and a third that is or is not within the window; the
base delay of 12 s reaches the cap at the second crash; the other multipliers are left to the proof.
*identity*: four keys are an enrolment that is cut or not, a rotation that is cut, one that starts from what it
left, and one more. *network*: one change falls before, between or after any two readings, and the next scan starts
from its result; two interfaces with two routes are the right and the wrong one for every join by name or index, a
swap of names included; prefixes 0, 2 and 3 of 3 bits are the wildcard, a proper net and a single address.

*posture*: a server moves from one family to the other in two changes, the first of which may fall between a table's two
calls and the second between two tables; a second scan has to correct what the first left; no rule reads two domains, so
one at a time, and one pair, are enough. *api*: one deep check that holds the flag or was hung up on, one that is let through
or refused, and a third request between them; /findings differs from /scan/status only in making one read instead of two.
*requests*: two copies of one request on two threads and another in the cache beside it; the cache lasts twice the window, as
in the code, and the clock runs until it has forgotten what it recorded first. A client one tick beyond the window is refused
at first; one exactly at it is accepted twice, which is why `AtMostOnce` excepts `early` (without the exception the run fails).

Deadlock is not checked in any run: a runtime that is down, processes that have used up their lives, a
queue with nothing left to do, a stopped service and a last scan all stop for good reason.

### Where the code and its comments disagree

* `UncleanDetected` (`core/storage/marker.rs:77`): a releasing process renames `.clean_shutdown` into place
  after another has registered; if that one dies and its successor leaves a torn marker, the next start
  sees a clean shutdown and serves a file that may be damaged. A `.clean_shutdown` whose removal failed, an error
  `marker.rs:112-115` drops, does the same without any overlap; the run allows no such failure, so that what it shows is the
  late rename. `DamageDetected` is what holds with both.
* `NeverFalselyResolved` (`platform/scanners/linux/dns.rs:99`): a collector that passes over an unreadable file
  reports an empty payload as Available, and the findings that rested on it are resolved although nothing
  on the host has changed. `VerdictsFollowPayloads` and `TruthAtExit`, which asks that the sources were read
  in full, are what does hold. The sockets of macOS, a stub that says Available, are a standing case of it.

Seen while modelling, and not runs:

* A deep check that finds corruption answers `passed: true`: `probe_tier3_deep_check` hands its list of issues back as
  `Ok` and the route takes every `Ok` for a pass (`api/routes/storage.rs:194`, against `docs/API.md:807`, "clean and
  structurally sound"). Conversely every error answers `passed: false` with the message that corruption was detected, on a
  sound file that was busy as much as on an engine that had stopped (`api/routes/storage.rs:202,231`); the documentation has
  corruption for `false` and 503 for a probe that cannot run (`docs/API.md:807-810`). `CheckVerdict` of `LocalApi` says
  both; `PassIsEarned` is the half that holds.
* A request stamped 300 s ahead of the server is accepted again 600 s later, for up to a second (`api/middleware/auth.rs:36,49,
  113`), although `docs/PHASES.md:204` has duplicated nonces rejected. `AtMostOnce` excepts requests recorded that early.
* `shutdown()` gives a `stop()` up after its timeout (`core/runtime/coordinator.rs:240`), but a timeout acts only at an await.
  `DatabaseEngine::stop()` waits for std mutexes (`core/storage/engine.rs:379-380`), so a closure that hangs inside one keeps
  `shutdown()` from returning. `ShutdownReturns` is conditional on that not lasting for ever.
* `start()` works on a copy of the component list and does not look at the state again, so it starts components that a
  concurrent `shutdown()` has stopped, and the runtime is then Stopped with a running component
  (`core/runtime/state.rs:29` calls Stopped "all resources released"). `TeardownReleases` is what does hold.
* `storage recover` quarantines the files while its own engine still has them open (`cli/commands/storage.rs:377`,
  `core/storage/recovery.rs:140`). Its quarantine directory is named by the second, so a second quarantine in the same
  second moves its files over those of the first (`recovery.rs:147`).
* After the timeout "aborts" the checkpoint, `stop()` locks the mutex that the checkpoint's closure still holds
  (`core/storage/engine.rs:361,375`); in the same way it waits for a deep check on the reader (`engine.rs:379`).
* A changed checksum makes every command fail at startup, `storage recover` included, which is what would repair it.
* A marker whose PID belongs to a process of another program keeps the directory locked (`core/storage/marker.rs:90`).
* SVC-001 can never be raised: `windows/services.rs` gives no path of a binary, although `docs/PHASES.md:220` lists
  "unquoted path detection". USR-001 matches the name "Guest" only, since `windows/users.rs` puts the name where the rule expects a
  SID. Linux reads neither `/proc/net/tcp6` nor `udp6`, so a dual-stack listener on `::` goes unseen.
* A server that rebinds from `0.0.0.0` to `::` or back between two tables is in neither: its port was exposed all along
  and its findings, which are per address, are resolved. `LedgerTellsTheHost` speaks of addresses.
* On an engine that has closed /findings and /scan/status answer 500 where /storage/status answers 503. Nothing registers
  `ApiService` with the
  coordinator. A `start()` that a `stop()` overlaps leaves a serving task behind (`StoppedIsQuiet` excludes it).

Nor is it a run that `record_heartbeat` looks at no worker, so a heartbeat of a dead worker, handled when its successor has
been registered for `stable_reset_secs`, ends the streak (`core/supervisor/watchdog.rs:18` asks for continuous
healthy execution). `StreakEarned` is what does hold. And the breaker trips on the number of crashes in the
window, consecutive or not.

Nor is the deletion of an emergency rotation, whose result is dropped while the command reports "Old Key
Scrubbed" (`cli/commands/identity.rs:480,501`): that line may be false, and `ReportedKeys`
does not cover it. Nor is what an enrolment cut between its two statements leaves: an
enrolled device whose key has no row, on which every later rotation fails after adding an ACTIVE row, and which
cannot enrol again: `OneActiveKey` and `RevokedForGood` say how much holds without and with such a cut.

On the network side, five things a reader of the documents would not expect, met while modelling. NET-003 calls a gateway
"outside all locally observed subnets" (`core/rules/network/net_003.rs:126`) but looks only at the subnets of the gateway's
own interface. The Linux collector reads no address except those of `lo`, although `docs/SYSTEM_DESIGN.md:346` has it map
IP addresses and prefix lengths, so there are no subnets there: NET-008 never fires, and NET-003 only when the interface of
a route was not listed at all. Neighbours read through netlink carry no interface name, so they have no
`InterfaceHasNeighbor` edge. NET-008 takes every name that contains "lo" for virtual, "wlo1" and "Local Area Connection"
included (`net_008.rs:61`). And a gateway whose interface has no alias is reported as "unknown", which
`GraphAgreesWithFindings` therefore leaves out.

Also not a run, but visible in `session`: two processes that inspect before either registers both become
holders, which is why `AtMostOneHolder` is conditional on `~raced`.

## 5. Fairness

`RuntimeLifecycle!FairSpec` assumes weak fairness of each stopper's steps inside a call while no `stop()` holds its thread
(`Unblocked /\ TeardownStep(t)`): tokio polls a ready task, locks are held for a statement, and a `comp.stop()` that waits at
an await is given up after its timeout. Of a `stop()` that blocks its thread nothing is assumed, not that it ever comes back,
and `ShutdownReturns` and `WaiterWoken` are claimed for the runs in which none blocks for ever. Starters get no fairness
(`initialize()` and `start()` of a component have no timeout), and signals and new calls need never come.
`LocalApi!FairApiSpec` assumes it of each handler's steps and of its closure's (tokio polls, the pool runs, SQLite returns);
nobody need come, hang up or call `stop()`. `ScanCycle!FairSpec`
assumes it of the scan's own steps (`Work`), of the timer of a collector that awaits (`TimesOut`), and that a
collector that blocks its thread returns: `timeout()` acts only at an await, the platform collectors have none,
and nothing in the code bounds them. A collector that awaits may hang for ever. The queue
has no fairness: nothing under `src/` schedules senders or the requeue, so no liveness is claimed. Nor has
the supervisor: nothing drives it yet, and its own calls have no timeouts or loops. `StorageSession`, `DeviceIdentity`,
`NetworkScan`, `HostPosture` and `SignedRequests` claim safety only: a process, a command or a reading may stop anywhere.

## 6. Proofs

`RuntimeProofs` proves, of `RuntimeLifecycle` and for all sets of components and tasks: `TypeCorrect` (`[]TypeOK`),
`ReportsHold` (`[]ReportedDown`), `TeardownIsComplete` (`[]TeardownReleases`) and `DownIsFinal` (`NeverRevived`).
The inductive invariant adds to the checked invariants that once any call has found the runtime failed
or down the state is one of the down states (`DownInv`), that a call past its first transition finds the state
already past `Created` (`LaunchedInv`), that only a stopping task is inside the teardown loop (`StopInv`), and
that the loop's index stays in the snapshot it walks, with a component left where it blocks (`IndexInv`).
One lemma per group of actions, one step per conjunct it disturbs.

`ObservationQueueProofs` proves, for any number of payloads, senders and rows: `TypeCorrect`,
`AttemptsBounded` (`[]RetriesBounded`), `SettledForGood` (`SettledStays`), `FlightsNotCutShort`
(`FlightKeepsItsTime`), and `Implements` (`Spec => DeliverySpec`). The inductive invariant adds `RowsInv` (rows beyond
the counter have never been used, so a new row has no attempts), `HandsInv` (senders hold only rows that
exist, so an insert never changes the payload in a sender's hand) and `StaleInv` (a flight whose `updated_at`
is behind the cutoff has lasted its timeout, which is what makes the requeue's test right). `Moved` lists
the ways a step may change a status and carries both action properties; the refinement has one lemma
per concrete action, with `Shrinking` as the fact shared by reports, the requeue and the pruner.

`ScanCycleProofs` proves, for any collectors, rules, findings and facts: `TypeCorrect`, `VerdictsAreFounded`
(`VerdictsFollowPayloads`), `LedgerMoves` (`LedgerLifecycle`) and `LedgerIsTrue` (`[]TruthAtExit`). The lemma that
carries them is `EvaluatedApplies`: a rule that counts as evaluated is not silenced by its guardrail, because the
supervisor's list of sources covers the guardrail's. The invariant adds `VerdictInv` (the active fingerprints and
evaluated rules are those of the payloads still in memory), `DoomedInv` (a selected row stays open until its
UPDATE), `SeenInv` (on a steady host a full reading is the truth) and `LedgerInv` (how far a scan that lost no
statement has brought the ledger). `FullReadings` and `FullReadingsCount` turn them into `TruthAtExit`.

`StorageSessionProofs` proves, for any number of processes, lives, crashes and migrations: `TypeCorrect`, `HolderIsUnique`
(`[]AtMostOneHolder`), `DamageIsDetected` (`[]DamageDetected`), `NothingWrittenLate` (`[]NoWriteAfterRelease`) and
`SchemaIsComplete` (`[]SchemaComplete`). The invariant adds `HandleInv` (who has a connection, and that only a connection's
mutex is held), `SchemaInv` (the tables are those the ledger lists), `AloneInv` (who may be where as long as no two were inside
`acquire_session()` at once: what the read of the marker told a process is still so) and `DamageInv`: as long as no two
acquired at once and none was misled, a damaged file comes with its evidence (`EvidenceInv`), which is a `.runtime_active` that
names a session or is torn, and whoever has looked past it knows of an unclean restart; `CheckClean` either finds
`.clean_shutdown` missing or is misled. `Implements` (`Spec => LeaseSpec`) rests on the same invariant: `Described` says that,
undisturbed, the lease's owner is the one holder and that it alone can be serving; every action is then a step of the lease
(`StepMapped`) or leaves all three of its variables alone (`Stutter`), and a step that sets `raced` or `misled` is `Contend`.

`SignedRequestsProofs` proves, for any requests, threads, clocks and periods: `TypeCorrect`, `AcceptedOnce` (`[]AtMostOnce`)
and `RefusedAsReplay` (`[]ReplayIsReal`). No relation between window and lifetime is assumed; the set `early` grows with it.
The invariant adds `CallInv` (how long a thread has been between the two checks), and for every request that is not early
`EntryInv` (once it is used its timestamp expires before its entry is forgotten), `MemoryInv` (what is used and not in the
cache has expired, so no copy passes the first check) and `OnceInv` (one intact copy at a time gets past the cache, none after
the one that was accepted); `SpentInv` says that what is in the cache is spent.

`WorkerSupervisorProofs` proves every property of its run for any policy, number of workers and length of time:
`TypeCorrect`, `RestartsAreBounded`, `TrippedStaysDown`, `DownForGood`, `StreakIsEarned`, `BackoffIsExponential`. The
invariant adds `ClockInv` (no time in anyone's hands is ahead of the clock, and the time of an exit is not before
a recorded crash), `HistoryInv` (no crash within the window of the time at hand has been forgotten: it makes the
pruned history count for all crashes), `StartInv` (a start is remembered only while its worker is watched) and
`BackoffInv` (the last answer is the delay of the current streak). `UnseenSteps` disposes of the steps that touch
neither tracker nor daemon; `Transitions` is the one fact about the table of states.

`DeviceProofs` proves of `DeviceIdentity` every property of its run, for any set of keys: `TypeCorrect`,
`SupersededKeysAreInactive`, `ActiveKeyIsUnique`, `ReportedKeysHold`, `RevokedKeysStayRevoked` and `Implements`
(`Spec => CustodySpec`). The invariant adds `FreshInv` (an identifier not yet generated is nowhere), `CommandInv`
(what a command in progress has read and written), `CustodyInv` and `ListedInv` (which rows are ACTIVE at each
point of a command, as long as nothing was cut).

`DeviceProofs` also proves both properties of `HostPosture`, for any sockets, services, hosts, scopes, ledgers and number of
changes and scans: `PostureTypeCorrect`, `LedgersTellTheHost` (`[]LedgerTellsTheHost`) and `NoAlarmIsFalse` (`NoFalseAlarm`).
What a scan has raised lies between two bounds: all of it was so at some moment (`SoundInv`), and whatever was so at every
moment, and is shown by a part its collector has read, is in it (`CompleteInv`; `Part` is that part, a table or a key).
`WatchInv` puts the host of the moment between the same bounds, and `ProgressInv` says how many parts are read. None
of the four holds for long without the others. One lemma, `Advanced`, takes a collector one part further; each collector then has to show two
things of the part it takes (`TableStep` to `OsConfigStep`): what it raises is so now, and it raises all it can show. For
the tables of sockets this is where the family of the wildcards matters (`RowsShow`). `SettleStep` turns the bounds into the ledger's.

`RuntimeProofs` proves the safety properties of `LocalApi` for any number of requests and any routes: `ApiTypeCorrect`,
`DeepChecksAreSingle` (`[]SingleFlight`), `PassesAreEarned` (`[]PassIsEarned`), `ReaderStaysClosed` (`[]NoReadAfterClose`) and
`StopIsQuiet` (`[]StoppedIsQuiet`). The invariant adds `CallInv` (what a request and the closure it left may be doing
together), `FlagInv` (the flag is set as long as a guard exists, and one exists at most), `VerdictInv` (no quick check
that finds the file in order had damage to see) and `ServiceInv` (what `start()` and `stop()` leave each other while they do not
overlap; a server that has ended has no request in flight). `ApiStep` keeps the two halves, service and handlers, apart.

`NetworkScanProofs` proves every property of its run, for any hosts, names, address classes and widths: `TypeCorrect`,
`OffSubnetIsTrue` (`[]OffSubnetIsReal`), `GraphNeverRefutes` (`[]GraphAgreesWithFindings`), `MultiHomedIsConsistent`
(`[]MultiHomedAgrees`) and `OrderNeverMatters` (`[]OrderDoesNotMatter`). Some lemmas speak of any snapshot
(`OffSubnetHasNoTriangle`, `SubnetEdges`, `FaceHasSubnet`), others of any with distinct indexes (`TwoIndexes`, and `Relisted`:
the least index, which exists because the naturals are well-founded, picks the same interface wherever it was listed);
the invariant supplies that a view is the view of payloads that have not changed since, and that no two interfaces of a
payload share an index (`PayloadsAreDistinct`, over the listings of each platform).
`OffSubnetIsTrue` needs two things more. `SteadyReadings`: as long as the host keeps still, a payload is what the
collector of the platform makes of it (`InterfacesRead`, `RoutesRead`), on a host that stays `WellFormed`. And
arithmetic: `InCidrComparesBits` shows that the masks of `ip_in_cidr`, the shift by the whole width and the lengths beyond
it included, compare exactly the first bits of two addresses, for every width. That is an induction over the prefix (`PrefixSteps`,
`PrefixIsItsBits`), done with `InductionOnSet`, which speaks of a set of numbers where the library's theorem takes a predicate.
`WindowsStrays` and `LinuxHasNoStray` then carry the gateways of a snapshot over to those of the host.

The assumptions are the named ASSUMEs of the modules, which TLC evaluates in the runs: non-empty
components, disjoint starters and stoppers; `max_retries` at least 1 (with 0 the first flight would already
exceed it); at least one crash, a positive base delay and a positive `stable_reset_secs`; `NoKey` is no key; a finite set of
interfaces whose Windows indexes differ, hosts as a kernel keeps them; finitely many sockets and services, wildcards in the
tables of their own family, ports that are not both plaintext and a database's.

Every invariant and every action property of the runs that pass is a theorem, and so are the three refinements. Only model-checked are
the liveness properties (`ShutdownReturns`, `WaiterWoken`, `FullScanEnds`, `FlagComesBack`; fairness is outside this
prover). Conversely the type invariants are theorems and not among the runs' properties.

## 7. Not modelled

The components marked `not_modelled` in `PROJECT.json`, each with its reason: the configuration repository (an upsert and a
select), the WebSocket client (nothing starts it and its peer is not in the repository; its handshake and its first ping
both carry sequence number 0, against `docs/API.md:236`), and what is outside TLC's reach or interest: the byte layouts of
operating-system tables, transports and frames, cryptography, parsing, presentation, configuration, logging.

Within modelled components: `health()` and the other calls that only read; SQLite's own durability (with
`synchronous = NORMAL` a power failure may lose the last commits; crashes here are of the process); `check_quota` and the
pruner's statement on findings; the process collector, which no rule reads; PIDs of other programs; evidence that is cut
inside a character and panics (`core/storage/repositories/findings.rs:220`: in `ScanCycle` one of the places where the
process dies); `messages` of `identity/protocol.rs`, which nothing sends.

------------------------------ MODULE LocalApi ------------------------------
(***************************************************************************)
(* The REST service: ApiService as a component of the coordinator          *)
(* (netra-api/lib.rs), its handlers (netra-api/routes/), and what they use *)
(* of the storage engine: with_reader(), the integrity probes, and the     *)
(* half of stop() that closes the reader (storage/engine.rs, recovery.rs). *)
(*                                                                         *)
(* A handler is a future and the closure it gives to with_reader() runs on *)
(* the blocking pool: a client that hangs up drops the future, with the    *)
(* single-flight guard it holds, and the closure goes on.  axum, hyper and *)
(* SQLite are external; SQLite may return an error for any statement, on a *)
(* sound file too.  The file is sound, or damaged in a way the tier 1      *)
(* probe of initialize() passed over.  No closure here panics, so the      *)
(* mutex is never poisoned.                                                *)
(***************************************************************************)
EXTENDS Naturals, FiniteSets

CONSTANTS
    Requests,   \* bound: each is sent once
    Offers      \* bound: the routes each request may take

\* "peek": /health, /status and /diagnostics; "counts": /storage/status; "scan":
\* /scan/status; "list": /findings; "quick" and "deep": /storage/check.
Kinds == {"peek", "counts", "scan", "list", "quick", "deep"}
Checks == {"quick", "deep"}

ASSUME OffersAssumption == Offers \in [Requests -> SUBSET Kinds]

VARIABLES
    storage,   \* AppState.storage is Some
    engine,    \* StorageState
    reader,    \* EngineInner.reader is Some
    db,        \* the file; "subtle" damage is seen by integrity_check only
    listener, tx, handle, running,   \* the fields of ApiService
    server,    \* the task that start() spawns
    starter,   \* where initialize() and start() are
    stopper,   \* where ApiService::stop() is
    closer,    \* where DatabaseEngine::stop() is
    raced,     \* stop() was called while start() had not returned, or the reverse
    deepLock,  \* AppState.deep_check_lock
    pc, kind,  \* each request's handler and route
    reads,     \* how many with_reader() calls the handler still makes
    closure,   \* its closure on the blocking pool
    outcome,   \* what the closure, or with_reader() itself, gave back
    answer     \* status code, and passed where the route has it

service == <<listener, tx, handle, running, server, starter, stopper, raced>>
store == <<storage, engine, reader, db, closer>>
handlers == <<deepLock, pc, kind, reads, closure, outcome, answer>>
apiVars == <<service, store, handlers>>

None == [code |-> 0]
Ok == [code |-> 200]
Error(c) == [code |-> c]
Pass == [code |-> 200, passed |-> TRUE]
Alarm == [code |-> 200, passed |-> FALSE]
Answers == {None, Ok, Pass, Alarm} \cup {Error(c) : c \in {400, 404, 409, 500, 503}}

ApiTypeOK ==
    /\ storage \in BOOLEAN /\ reader \in BOOLEAN
    /\ engine \in {"Uninitialized", "Ready", "Degraded", "Failed", "Stopping", "Stopped"}
    /\ db \in {"ok", "subtle", "damaged"}
    /\ listener \in BOOLEAN /\ tx \in BOOLEAN /\ handle \in BOOLEAN /\ running \in BOOLEAN
    /\ server \in {"none", "serving", "draining", "ended"}
    /\ starter \in {"new", "initialized", "spawn", "started", "failed"}
    /\ stopper \in {"idle", "join", "wait", "flag", "drained", "timed_out", "stopped"}
    /\ closer \in {"idle", "closing", "closed"}
    /\ raced \in BOOLEAN /\ deepLock \in BOOLEAN
    /\ pc \in [Requests -> {"new", "handler", "call", "waiting", "answered", "hung_up"}]
    /\ kind \in [Requests -> Kinds]
    /\ reads \in [Requests -> 0..2]
    /\ closure \in [Requests -> {"none", "queued", "reading", "done"}]
    /\ outcome \in [Requests -> {"none", "ok", "issues", "error", "closed"}]
    /\ answer \in [Requests -> Answers]

\* The host hands over an engine whatever has become of it; without one its state is moot.  A
\* quarantine leaves it Degraded and without connections (StorageSession).
ApiInit ==
    /\ storage \in BOOLEAN
    /\ engine \in IF storage THEN {"Uninitialized", "Ready", "Degraded", "Failed", "Stopped"}
                  ELSE {"Uninitialized"}
    /\ reader = (engine = "Ready")
    /\ db \in IF engine = "Ready" THEN {"ok", "subtle", "damaged"} ELSE {"ok"}
    /\ listener = FALSE /\ tx = FALSE /\ handle = FALSE /\ running = FALSE
    /\ server = "none" /\ starter = "new" /\ stopper = "idle" /\ closer = "idle"
    /\ raced = FALSE /\ deepLock = FALSE
    /\ pc = [r \in Requests |-> "new"]
    /\ kind = [r \in Requests |-> "peek"]
    /\ reads = [r \in Requests |-> 0]
    /\ closure = [r \in Requests |-> "none"]
    /\ outcome = [r \in Requests |-> "none"]
    /\ answer = [r \in Requests |-> None]
-----------------------------------------------------------------------------
(* ApiService: initialize() and start() *)
\* A configuration that does not validate or a port in use ends in an error.
Initialize ==
    /\ starter = "new"
    /\ \/ listener' = TRUE /\ starter' = "initialized"
       \/ starter' = "failed" /\ UNCHANGED listener
    /\ UNCHANGED <<tx, handle, running, server, stopper, raced, store, handlers>>

\* start() takes the listener; between this and the next step it is at an await.
StartListener ==
    /\ starter = "initialized"
    /\ listener' = FALSE
    /\ starter' = IF listener THEN "spawn" ELSE "failed"
    /\ raced' = (raced \/ stopper # "idle")
    /\ UNCHANGED <<tx, handle, running, server, stopper, store, handlers>>

\* The rest of it.  Its other awaits are on mutexes that only a stop() beside it takes, and
\* then nothing is claimed.
StartServer ==
    /\ starter = "spawn"
    /\ tx' = TRUE /\ handle' = TRUE /\ running' = TRUE
    /\ server' = "serving"
    /\ starter' = "started"
    /\ UNCHANGED <<listener, stopper, raced, store, handlers>>
-----------------------------------------------------------------------------
(* ApiService::stop() *)
InFlight == {r \in Requests : pc[r] \in {"handler", "call", "waiting"}}

\* Mutant: the signal is not sent.
StopSend_Silent ==
    /\ stopper = "idle"
    /\ tx' = FALSE
    /\ stopper' = "join"
    /\ raced' = (raced \/ starter = "spawn")
    /\ UNCHANGED <<listener, handle, running, server, starter, store, handlers>>

StopSend ==
    /\ stopper = "idle"
    /\ tx' = FALSE
    /\ server' = IF tx /\ server = "serving" THEN "draining" ELSE server
    /\ stopper' = "join"
    /\ raced' = (raced \/ starter = "spawn")
    /\ UNCHANGED <<listener, handle, running, starter, store, handlers>>

StopJoin ==
    /\ stopper = "join"
    /\ handle' = FALSE
    /\ stopper' = IF handle THEN "wait" ELSE "flag"
    /\ UNCHANGED <<listener, tx, running, server, starter, raced, store, handlers>>

\* The task has ended, or the three seconds have; the task is then left to itself.
StopWait ==
    /\ stopper = "wait"
    /\ stopper' \in {"timed_out"} \cup (IF server = "ended" THEN {"drained"} ELSE {})
    /\ running' = FALSE
    /\ UNCHANGED <<listener, tx, handle, server, starter, raced, store, handlers>>

StopFlag ==
    /\ stopper = "flag"
    /\ running' = FALSE
    /\ stopper' = "stopped"
    /\ UNCHANGED <<listener, tx, handle, server, starter, raced, store, handlers>>

\* axum: the task ends when the requests in flight have been answered.
ServerEnds ==
    /\ server = "draining"
    /\ InFlight = {}
    /\ server' = "ended"
    /\ UNCHANGED <<listener, tx, handle, running, starter, stopper, raced, store, handlers>>
-----------------------------------------------------------------------------
(* The handlers *)
Reads(k) == CASE k = "peek" -> 0 [] k = "scan" -> 2 [] OTHER -> 1

\* What a route answers when it asks the engine nothing, or there is none.
NoStorage(k) == CASE k = "peek" -> Ok [] k \in Checks -> Error(503) [] OTHER -> Error(404)

\* Routes with a query, which may not parse.
Queried == Checks \cup {"list"}

Arrive(r) ==
    /\ pc[r] = "new"
    /\ server = "serving"
    /\ \E k \in Offers[r] :
           /\ kind' = [kind EXCEPT ![r] = k]
           /\ \/ /\ storage /\ k # "peek"
                 /\ pc' = [pc EXCEPT ![r] = IF k = "deep" THEN "handler" ELSE "call"]
                 /\ UNCHANGED answer
              \/ /\ ~storage \/ k = "peek"
                 /\ pc' = [pc EXCEPT ![r] = "answered"]
                 /\ answer' = [answer EXCEPT ![r] = NoStorage(k)]
              \/ /\ k \in Queried
                 /\ pc' = [pc EXCEPT ![r] = "answered"]
                 /\ answer' = [answer EXCEPT ![r] = Error(400)]
           /\ reads' = [reads EXCEPT ![r] = Reads(k)]
    /\ UNCHANGED <<deepLock, closure, outcome, service, store>>

\* Mutant: the flag is set, and whether it was set already not looked at.
TakeDeepLock_Store(r) ==
    /\ pc[r] = "handler"
    /\ deepLock' = TRUE
    /\ pc' = [pc EXCEPT ![r] = "call"]
    /\ UNCHANGED <<kind, reads, closure, outcome, answer, service, store>>

\* compare_exchange on the flag.
TakeDeepLock(r) ==
    /\ pc[r] = "handler"
    /\ deepLock' = TRUE
    /\ IF deepLock
       THEN /\ pc' = [pc EXCEPT ![r] = "answered"]
            /\ answer' = [answer EXCEPT ![r] = Error(409)]
       ELSE /\ pc' = [pc EXCEPT ![r] = "call"]
            /\ UNCHANGED answer
    /\ UNCHANGED <<kind, reads, closure, outcome, service, store>>

Guarded(r) == kind[r] = "deep" /\ pc[r] \in {"call", "waiting"}

(* DatabaseEngine::with_reader() *)
ReadCall(r) ==
    /\ pc[r] = "call"
    /\ pc' = [pc EXCEPT ![r] = "waiting"]
    /\ reads' = [reads EXCEPT ![r] = @ - 1]
    /\ IF engine \in {"Ready", "Degraded"}
       THEN closure' = [closure EXCEPT ![r] = "queued"] /\ UNCHANGED outcome
       ELSE outcome' = [outcome EXCEPT ![r] = "closed"] /\ UNCHANGED closure
    /\ UNCHANGED <<deepLock, kind, answer, service, store>>

ReaderHeld == \E r \in Requests : closure[r] = "reading"

ReaderLock(r) ==
    /\ closure[r] = "queued"
    /\ ~ReaderHeld
    /\ closure' = [closure EXCEPT ![r] = IF reader THEN "reading" ELSE "done"]
    /\ outcome' = [outcome EXCEPT ![r] = IF reader THEN @ ELSE "closed"]
    /\ UNCHANGED <<deepLock, pc, kind, reads, answer, service, store>>

\* quick_check passes over subtle damage, which integrity_check lists; either may fail.
Found(k) ==
    {"error"} \cup
    CASE k = "deep" /\ db # "ok" -> {"issues"}
      [] k = "quick" /\ db = "damaged" -> {}
      [] OTHER -> {"ok"}

ReadDone(r) ==
    /\ closure[r] = "reading"
    /\ closure' = [closure EXCEPT ![r] = "done"]
    /\ \E o \in Found(kind[r]) : outcome' = [outcome EXCEPT ![r] = o]
    /\ UNCHANGED <<deepLock, pc, kind, reads, answer, service, store>>

\* Mutant: a check that the engine's stop() has overtaken is no alarm.
CheckVerdict_ClosedPasses(k, o) == IF o = "error" THEN Alarm ELSE Pass

\* What /storage/check makes of the probe: everything that is not an error is a pass.
CheckVerdict(k, o) == IF o \in {"ok", "issues"} THEN Pass ELSE Alarm

\* The match on the result in each route, and the status of each error.
Answered(k, o) ==
    CASE k \in Checks -> CheckVerdict(k, o)
      [] o = "ok" -> Ok
      [] k = "counts" /\ o = "closed" -> Error(503)
      [] OTHER -> Error(500)

\* The handler goes on: to its next read, or to its answer, where the guard is dropped.
\* The reads of /storage/status drop their own errors.
Answer(r) ==
    /\ pc[r] = "waiting"
    /\ outcome[r] # "none"
    /\ LET o == IF kind[r] = "counts" /\ outcome[r] = "error" THEN "ok" ELSE outcome[r]
           more == reads[r] > 0 /\ o = "ok"
       IN  /\ pc' = [pc EXCEPT ![r] = IF more THEN "call" ELSE "answered"]
           /\ answer' = [answer EXCEPT ![r] = IF more THEN @ ELSE Answered(kind[r], o)]
           /\ closure' = [closure EXCEPT ![r] = "none"]
           /\ outcome' = [outcome EXCEPT ![r] = "none"]
    /\ deepLock' = (deepLock /\ ~Guarded(r))
    /\ UNCHANGED <<kind, reads, service, store>>

\* Mutant: the flag is reset by the code after the await, which a dropped future never reaches.
HangUp_KeepsLock(r) ==
    /\ pc[r] = "waiting"
    /\ pc' = [pc EXCEPT ![r] = "hung_up"]
    /\ UNCHANGED <<deepLock, kind, reads, closure, outcome, answer, service, store>>

\* The client closes its connection: the future is dropped where it waits, the guard with it.
HangUp(r) ==
    /\ pc[r] = "waiting"
    /\ pc' = [pc EXCEPT ![r] = "hung_up"]
    /\ deepLock' = (deepLock /\ ~Guarded(r))
    /\ UNCHANGED <<kind, reads, closure, outcome, answer, service, store>>
-----------------------------------------------------------------------------
(* DatabaseEngine::stop(), the reader's half; the coordinator's host decides whether it *)
(* comes before or after ApiService::stop() *)
CloseBegin ==
    /\ storage
    /\ closer = "idle"
    /\ engine' = "Stopping"
    /\ closer' = "closing"
    /\ UNCHANGED <<storage, reader, db, service, handlers>>

\* Mutant: the handle is dropped without the mutex.
CloseReader_NoLock ==
    /\ closer = "closing"
    /\ reader' = FALSE
    /\ engine' = "Stopped"
    /\ closer' = "closed"
    /\ UNCHANGED <<storage, db, service, handlers>>

\* An engine in memory, which only tests have, keeps its handles.
CloseReader ==
    /\ closer = "closing"
    /\ ~ReaderHeld
    /\ reader' = FALSE
    /\ engine' = "Stopped"
    /\ closer' = "closed"
    /\ UNCHANGED <<storage, db, service, handlers>>

HandlerStep(r) == TakeDeepLock(r) \/ ReadCall(r) \/ Answer(r)
ClosureStep(r) == ReaderLock(r) \/ ReadDone(r)

ApiNext ==
    \/ Initialize \/ StartListener \/ StartServer
    \/ StopSend \/ StopJoin \/ StopWait \/ StopFlag \/ ServerEnds
    \/ \E r \in Requests : Arrive(r) \/ HandlerStep(r) \/ ClosureStep(r) \/ HangUp(r)
    \/ CloseBegin \/ CloseReader

ApiSpec == ApiInit /\ [][ApiNext]_apiVars

\* tokio polls a handler that can go on and the pool runs its closures; SQLite returns.  No
\* client need come or hang up, and nobody need call stop().
FairApiSpec ==
    /\ ApiSpec
    /\ \A r \in Requests : WF_apiVars(HandlerStep(r)) /\ WF_apiVars(ClosureStep(r))
-----------------------------------------------------------------------------
(***************************************************************************)
(* The single-flight guard (state.rs:17, routes/storage.rs:166): two deep  *)
(* checks are on the blocking pool at once only if the client of one has   *)
(* hung up, which drops its guard and not its closure.                     *)
(***************************************************************************)
DeepPending(r) == kind[r] = "deep" /\ closure[r] \in {"queued", "reading"}

SingleFlight ==
    \A r, s \in Requests :
        DeepPending(r) /\ DeepPending(s) /\ r # s => "hung_up" \in {pc[r], pc[s]}

(***************************************************************************)
(* A quick check is answered passed:true only if it ran, and the file is   *)
(* not damaged in a way quick_check sees (routes/storage.rs:214-228):      *)
(* neither an error nor an engine that stops under the check becomes a     *)
(* pass.  Nothing is claimed of passed:true after a deep check, which      *)
(* drops the list of what it found (line 194), nor of passed:false, which  *)
(* any error of SQLite and a stopped engine earn on a sound file.          *)
(***************************************************************************)
PassIsEarned ==
    \A r \in Requests : kind[r] = "quick" /\ answer[r] = Pass => db # "damaged"

(***************************************************************************)
(* The reader is closed under its mutex (engine.rs:380): once stop() has   *)
(* closed it no closure is inside SQLite any more, and none gets there.    *)
(***************************************************************************)
NoReadAfterClose == closer = "closed" => ~ReaderHeld /\ ~reader

(***************************************************************************)
(* A stop() that no start() overlapped has ended the service (lib.rs:130): *)
(* no connection is accepted any more, and a stop() that did not run into  *)
(* its timeout leaves no request unanswered.                               *)
(***************************************************************************)
StoppedIsQuiet ==
    ~raced /\ stopper \in {"drained", "timed_out", "stopped"} =>
        /\ server # "serving" /\ ~running
        /\ stopper = "drained" => InFlight = {}

\* Deep checks become possible again: no answer, error or disconnection keeps the flag.
FlagComesBack == deepLock ~> ~deepLock
=============================================================================

-------------------------- MODULE WorkerSupervisor --------------------------
(***************************************************************************)
(* The supervisor of worker processes: SupervisorEngine (supervisor/       *)
(* runner.rs), its CrashTracker (watchdog.rs) and the worker's harness     *)
(* (worker/runner.rs).  A daemon task prepares a token, spawns a worker,   *)
(* registers it, waits for its exit and asks whether to restart.  A task   *)
(* for each connection handles the worker's messages, and may still hold   *)
(* one when the worker is long gone.  Each field of the engine has a lock  *)
(* of its own, and both exits and messages read the clock before they take *)
(* any.  No code under src/ runs the engine: the daemon's order of calls   *)
(* is that of tests/ipc_tests.rs, tests/supervisor_tests.rs and            *)
(* docs/SYSTEM_DESIGN.md 16.                                               *)
(*                                                                         *)
(* Workers are numbered in the order of their tokens.  active_worker_pid   *)
(* and last_heartbeat_secs are left out: only reports and tests read them. *)
(***************************************************************************)
EXTENDS Integers, Sequences, FiniteSets

CONSTANTS
    MaxCrashes,    \* max_consecutive_crashes
    Window,        \* crash_window_secs
    StableReset,   \* stable_reset_secs
    RestartDelay,  \* restart_delay_ms
    MaxWorkers,    \* bound: workers spawned
    MaxTime        \* bound: the clock

ASSUME SupervisorAssumption ==
    /\ MaxCrashes \in Nat \ {0} /\ RestartDelay \in Nat \ {0}
    /\ Window \in Nat /\ StableReset \in Nat \ {0}
    /\ MaxWorkers \in Nat /\ MaxTime \in Nat

Workers == 1..MaxWorkers

Never == -1

VARIABLES
    now,       \* the clock
    state,     \* SupervisorState
    token,     \* current_token: the worker it was made for, 0 for none
    worker,    \* each worker's life
    mail,      \* what is on its connection
    heard,     \* when the supervisor began to handle that
    phase,     \* where the daemon is
    at,        \* the time it works with
    streak,    \* consecutive_crashes
    started,   \* worker_started_secs
    crashes,   \* the times of all crashes
    history,   \* crash_history: those still remembered
    delays     \* what each crash was answered with: a delay, 0 for the circuit breaker

tracker == <<streak, started, crashes, history, delays>>
vars == <<now, state, token, worker, mail, heard, phase, at, tracker>>

States == {"Starting", "Running", "Degraded", "Stopping", "Stopped", "Failed"}
Phases == {"prepare", "spawn", "register", "start", "watch", "record", "decide", "halted"}

TypeOK ==
    /\ now \in Nat /\ at \in Nat
    /\ state \in States /\ phase \in Phases
    /\ token \in 0..MaxWorkers
    /\ worker \in [Workers -> {"unborn", "spawned", "waiting", "authenticated", "gone"}]
    /\ mail \in [Workers -> {"none", "handshake", "accepted", "rejected", "heartbeat"}]
    /\ heard \in [Workers -> Nat \cup {Never}]
    /\ streak \in Nat /\ started \in Nat \cup {Never}
    /\ crashes \in Seq(Nat) /\ delays \in Seq(Nat)
    /\ history \subseteq DOMAIN crashes
-----------------------------------------------------------------------------
Targets_FailedRecovers ==
    [Starting |-> {"Running", "Degraded", "Stopping", "Failed"},
     Running  |-> {"Degraded", "Stopping", "Failed"},
     Degraded |-> {"Running", "Stopping", "Failed"},
     Stopping |-> {"Stopped", "Failed"},
     Stopped  |-> {"Starting"},
     Failed   |-> {"Stopping", "Starting", "Running"}]

Targets_RunningNeverFails ==
    [Starting |-> {"Running", "Degraded", "Stopping", "Failed"},
     Running  |-> {"Degraded", "Stopping"},
     Degraded |-> {"Running", "Stopping", "Failed"},
     Stopping |-> {"Stopped", "Failed"},
     Stopped  |-> {"Starting"},
     Failed   |-> {"Stopping", "Starting"}]

Targets ==
    [Starting |-> {"Running", "Degraded", "Stopping", "Failed"},
     Running  |-> {"Degraded", "Stopping", "Failed"},
     Degraded |-> {"Running", "Stopping", "Failed"},
     Stopping |-> {"Stopped", "Failed"},
     Stopped  |-> {"Starting"},
     Failed   |-> {"Stopping", "Starting"}]

\* let _ = transition_to(..): a refusal is dropped.
After(from, target) == IF target \in Targets[from] THEN target ELSE from

Init ==
    /\ now = 0 /\ at = 0
    /\ state = "Starting" /\ phase = "prepare" /\ token = 0
    /\ worker = [g \in Workers |-> "unborn"]
    /\ mail = [g \in Workers |-> "none"]
    /\ heard = [g \in Workers |-> Never]
    /\ streak = 0 /\ started = Never
    /\ crashes = <<>> /\ history = {} /\ delays = <<>>

Tick ==
    /\ now < MaxTime
    /\ now' = now + 1
    /\ UNCHANGED <<state, token, worker, mail, heard, phase, at, tracker>>
-----------------------------------------------------------------------------
(* The daemon. *)

PrepareNextWorkerToken ==
    /\ phase = "prepare" /\ token < MaxWorkers
    /\ token' = token + 1
    /\ phase' = "spawn"
    /\ UNCHANGED <<now, state, worker, mail, heard, at, tracker>>

Spawn ==
    /\ phase = "spawn"
    /\ worker' = [worker EXCEPT ![token] = "spawned"]
    /\ phase' = "register"
    /\ UNCHANGED <<now, state, token, mail, heard, at, tracker>>

RegisterWorkerSpawn ==
    /\ phase = "register"
    /\ at' = now
    /\ phase' = "start"
    /\ UNCHANGED <<now, state, token, worker, mail, heard, tracker>>

RecordWorkerStart ==
    /\ phase = "start"
    /\ started' = at
    /\ phase' = "watch"
    /\ UNCHANGED <<now, state, token, worker, mail, heard, at,
                   streak, crashes, history, delays>>

HandleWorkerExit ==
    /\ phase = "watch" /\ worker[token] = "gone"
    /\ at' = now
    /\ phase' = "record"
    /\ UNCHANGED <<now, state, token, worker, mail, heard, tracker>>

DelayCap == 32000

\* Exponential backoff: the base delay times 2^(crash - 1), capped twice.
Multiplier == <<1, 2, 4, 8, 16>>

Delay(crash) ==
    LET delay == RestartDelay * Multiplier[IF crash < 5 THEN crash ELSE 5]
    IN  IF delay < DelayCap THEN delay ELSE DelayCap

\* The crashes remembered when another one is recorded.
Remembered_HalfWindow(time) == {i \in history : crashes[i] > time - Window}

Remembered(time) == {i \in history : crashes[i] >= time - Window}

RecordCrash_KeepsStart ==
    /\ phase = "record"
    /\ crashes' = Append(crashes, at)
    /\ history' = Remembered(at) \cup {Len(crashes) + 1}
    /\ streak' = streak + 1
    /\ delays' = Append(delays, IF streak' >= MaxCrashes \/ Cardinality(history') >= MaxCrashes
                                THEN 0 ELSE Delay(streak'))
    /\ phase' = "decide"
    /\ UNCHANGED <<now, state, token, worker, mail, heard, at, started>>

RecordCrash ==
    /\ phase = "record"
    /\ crashes' = Append(crashes, at)
    /\ history' = Remembered(at) \cup {Len(crashes) + 1}
    /\ streak' = streak + 1
    /\ started' = Never
    /\ delays' = Append(delays, IF streak' >= MaxCrashes \/ Cardinality(history') >= MaxCrashes
                                THEN 0 ELSE Delay(streak'))
    /\ phase' = "decide"
    /\ UNCHANGED <<now, state, token, worker, mail, heard, at>>

Tripped == delays[Len(delays)] = 0

Decide ==
    /\ phase = "decide"
    /\ state' = After(state, IF Tripped THEN "Failed" ELSE "Degraded")
    /\ phase' = IF Tripped THEN "halted" ELSE "prepare"
    /\ UNCHANGED <<now, token, worker, mail, heard, at, tracker>>

\* One lock for both transitions.
Shutdown ==
    /\ state' = After(After(state, "Stopping"), "Stopped")
    /\ UNCHANGED <<now, token, worker, mail, heard, phase, at, tracker>>
-----------------------------------------------------------------------------
(* The worker. *)

CreateHandshakeRequest(g) ==
    /\ worker[g] = "spawned"
    /\ worker' = [worker EXCEPT ![g] = "waiting"]
    /\ mail' = [mail EXCEPT ![g] = "handshake"]
    /\ UNCHANGED <<now, state, token, heard, phase, at, tracker>>

HandleHandshakeResponse(g) ==
    /\ worker[g] = "waiting" /\ mail[g] \in {"accepted", "rejected"}
    /\ worker' = [worker EXCEPT ![g] = IF mail[g] = "accepted" THEN "authenticated" ELSE "gone"]
    /\ mail' = [mail EXCEPT ![g] = "none"]
    /\ UNCHANGED <<now, state, token, heard, phase, at, tracker>>

CreateHeartbeat(g) ==
    /\ worker[g] = "authenticated" /\ mail[g] = "none"
    /\ mail' = [mail EXCEPT ![g] = "heartbeat"]
    /\ UNCHANGED <<now, state, token, worker, heard, phase, at, tracker>>

\* Any exit counts as a crash; what the worker had sent is still delivered.
Exit(g) ==
    /\ worker[g] \in {"spawned", "waiting", "authenticated"}
    /\ worker' = [worker EXCEPT ![g] = "gone"]
    /\ UNCHANGED <<now, state, token, mail, heard, phase, at, tracker>>
-----------------------------------------------------------------------------
(* The task that handles a worker's connection. *)

HandleIpcMessage(g) ==
    /\ mail[g] \in {"handshake", "heartbeat"} /\ heard[g] = Never
    /\ heard' = [heard EXCEPT ![g] = now]
    /\ UNCHANGED <<now, state, token, worker, mail, phase, at, tracker>>

\* The token stays locked while the state is written.
HandshakeRequest(g) ==
    /\ mail[g] = "handshake" /\ heard[g] # Never
    /\ IF g = token
       THEN /\ state' = After(state, "Running")
            /\ mail' = [mail EXCEPT ![g] = "accepted"]
       ELSE /\ mail' = [mail EXCEPT ![g] = "rejected"]
            /\ UNCHANGED state
    /\ heard' = [heard EXCEPT ![g] = Never]
    /\ UNCHANGED <<now, token, worker, phase, at, tracker>>

\* The worker registered last has been running for stable_reset_secs.
Stable(time) == started # Never /\ time - started >= StableReset

\* No message but a handshake is matched against the token or the session.
Heartbeat(g) ==
    /\ mail[g] = "heartbeat" /\ heard[g] # Never
    /\ streak' = IF Stable(heard[g]) THEN 0 ELSE streak
    /\ mail' = [mail EXCEPT ![g] = "none"]
    /\ heard' = [heard EXCEPT ![g] = Never]
    /\ UNCHANGED <<now, state, token, worker, phase, at, started, crashes, history, delays>>

Next ==
    \/ Tick
    \/ PrepareNextWorkerToken \/ Spawn \/ RegisterWorkerSpawn \/ RecordWorkerStart
    \/ HandleWorkerExit \/ RecordCrash \/ Decide
    \/ Shutdown
    \/ \E g \in Workers :
           \/ CreateHandshakeRequest(g) \/ HandleHandshakeResponse(g)
           \/ CreateHeartbeat(g) \/ Exit(g)
           \/ HandleIpcMessage(g) \/ HandshakeRequest(g) \/ Heartbeat(g)

Spec == Init /\ [][Next]_vars
-----------------------------------------------------------------------------
\* A crash is answered with a restart only if fewer than max_consecutive_crashes fall into
\* the window before it: what record_crash forgets, and the heartbeats that reset the streak,
\* never make room for one restart more.
RestartsBounded ==
    \A i \in DOMAIN crashes :
        delays[i] > 0 =>
            Cardinality({j \in 1..i : crashes[j] >= crashes[i] - Window}) < MaxCrashes

\* When the breaker has tripped the supervisor is down, even if a handshake of the worker
\* that just died was handled between the verdict and the change of state.
TrippedIsDown == phase = "halted" => state \in {"Failed", "Stopped"}

\* No late handshake, exit or shutdown brings a failed or stopped supervisor back.
DownIsFinal ==
    [][~(state \in {"Failed", "Stopped"} /\ state' \notin {"Failed", "Stopped"})]_vars

\* Along a streak each delay is the double of the one before, up to the caps; the first
\* crash after a reset waits the base delay again.
BackoffFollowsStreak ==
    [][delays' # delays /\ delays'[Len(delays')] > 0 =>
           LET next == delays'[Len(delays')]
               prev == delays[Len(delays)]
           IN  /\ streak = 0 => next \in {RestartDelay, DelayCap}
               /\ streak > 0 => \/ next \in {2 * prev, DelayCap}
                                \/ next = prev /\ prev = RestartDelay * 16]_vars

\* The streak ends only while a registered worker is being watched that started long enough
\* ago, and never between a crash and the next start.
StreakEarned ==
    [][streak > 0 /\ streak' = 0 =>
           phase \in {"watch", "record"} /\ now - started >= StableReset]_vars
=============================================================================

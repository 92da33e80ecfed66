----------------------- MODULE WorkerSupervisorProofs -----------------------
(* What holds of WorkerSupervisor for every policy and any number of       *)
(* workers.                                                                *)
EXTENDS WorkerSupervisor, FiniteSetTheorems, TLAPS

\* No time that anyone works with lies ahead of the clock, or before a recorded crash.
ClockInv ==
    /\ at <= now
    /\ \A i \in DOMAIN crashes : crashes[i] <= at
    /\ \A g \in Workers : heard[g] <= now

\* No crash that still matters has been forgotten.
HistoryInv ==
    /\ Len(delays) = Len(crashes)
    /\ \A i \in DOMAIN crashes : crashes[i] >= at - Window => i \in history

\* A start is remembered only while its worker is being watched.
StartInv == started # Never => phase \in {"watch", "record"} /\ started <= at

\* The last answer belongs to the streak, and the breaker's is followed by no record.
BackoffInv ==
    /\ streak > 0 => Len(delays) > 0 /\ delays[Len(delays)] \in {0, Delay(streak)}
    /\ Len(delays) > 0 /\ delays[Len(delays)] = 0 => phase \in {"decide", "halted"}

IInv ==
    /\ TypeOK /\ ClockInv /\ HistoryInv /\ StartInv /\ BackoffInv
    /\ RestartsBounded /\ TrippedIsDown

\* No worker has been started.
LEMMA Initially == Init => IInv
<1> SUFFICES ASSUME Init PROVE IInv
  OBVIOUS
<1>1. TypeOK
  BY SupervisorAssumption DEF Init, TypeOK, States, Phases, Never
<1>2. /\ ClockInv /\ HistoryInv /\ StartInv /\ BackoffInv
      /\ RestartsBounded /\ TrippedIsDown
  BY DEF Init, ClockInv, HistoryInv, StartInv, BackoffInv, RestartsBounded, TrippedIsDown, Never
<1> QED BY <1>1, <1>2 DEF IInv

\* From any state the breaker leads to Failed, unless the supervisor has stopped; from there
\* and from Stopped only Failed and Stopped can be reached by what the engine asks for.
LEMMA Transitions ==
    ASSUME NEW s \in States
    PROVE  /\ \A t \in States : After(s, t) \in States
           /\ After(s, "Failed") \in {"Failed", "Stopped"}
           /\ After(After(s, "Stopping"), "Stopped") \in {"Failed", "Stopped"}
           /\ s \in {"Failed", "Stopped"} =>
                  /\ After(s, "Running") \in {"Failed", "Stopped"}
                  /\ After(s, "Degraded") \in {"Failed", "Stopped"}
BY DEF After, Targets, States

\* What the log of crashes and its reckoning do not see.
Reckoning == <<streak, started, crashes, history, delays, at, phase>>

LEMMA UnseenSteps ==
    ASSUME IInv, UNCHANGED Reckoning,
           now' \in Nat /\ now' >= now, state' \in States, token' \in 0..MaxWorkers,
           worker' \in [Workers -> {"unborn", "spawned", "waiting", "authenticated", "gone"}],
           mail' \in [Workers -> {"none", "handshake", "accepted", "rejected", "heartbeat"}],
           heard' \in [Workers -> Nat \cup {Never}],
           \A g \in Workers : heard'[g] <= now',
           state \in {"Failed", "Stopped"} => state' \in {"Failed", "Stopped"}
    PROVE  IInv'
<1>1. TypeOK'
  BY DEF IInv, TypeOK, Reckoning
<1>2. ClockInv'
  BY DEF IInv, TypeOK, ClockInv, Reckoning
<1>3. HistoryInv' /\ StartInv' /\ BackoffInv' /\ RestartsBounded'
  BY DEF IInv, HistoryInv, StartInv, BackoffInv, RestartsBounded, Reckoning, Delay
<1>4. TrippedIsDown'
  BY DEF IInv, TrippedIsDown, Reckoning
<1> QED BY <1>1, <1>2, <1>3, <1>4 DEF IInv

\* The daemon's steps other than the record of a crash and the verdict.
LEMMA DaemonSteps ==
    ASSUME IInv,
           PrepareNextWorkerToken \/ Spawn \/ RegisterWorkerSpawn \/ RecordWorkerStart
           \/ HandleWorkerExit
    PROVE  IInv'
<1> USE DEF IInv, tracker
<1>1. TypeOK'
  <2>1. CASE PrepareNextWorkerToken
    BY <2>1, SupervisorAssumption DEF PrepareNextWorkerToken, TypeOK, Phases
  <2>2. CASE Spawn
    BY <2>2 DEF Spawn, TypeOK, Phases
  <2>3. CASE RegisterWorkerSpawn \/ RecordWorkerStart \/ HandleWorkerExit
    BY <2>3 DEF RegisterWorkerSpawn, RecordWorkerStart, HandleWorkerExit, TypeOK, Phases
  <2> QED BY <2>1, <2>2, <2>3
<1>2. /\ crashes' = crashes /\ history' = history /\ delays' = delays
      /\ now' = now /\ heard' = heard /\ at' \in {at, now}
      /\ phase # "halted" /\ phase' # "halted"
  BY DEF PrepareNextWorkerToken, Spawn, RegisterWorkerSpawn, RecordWorkerStart, HandleWorkerExit
<1>3. at' >= at /\ at' <= now /\ at \in Nat /\ at' \in Nat /\ now \in Nat
  BY <1>1, <1>2 DEF TypeOK, ClockInv
<1>4. ClockInv'
  <2>1. \A i \in DOMAIN crashes : crashes[i] \in Nat
    BY DEF TypeOK
  <2> QED BY <1>2, <1>3, <2>1 DEF ClockInv
<1>5. HistoryInv'
  <2>1. \A i \in DOMAIN crashes : crashes[i] >= at' - Window => crashes[i] >= at - Window
    BY <1>3, SupervisorAssumption DEF TypeOK
  <2> QED BY <1>2, <2>1 DEF HistoryInv
<1>6. StartInv'
  <2>1. CASE PrepareNextWorkerToken \/ Spawn \/ RegisterWorkerSpawn
    BY <2>1 DEF PrepareNextWorkerToken, Spawn, RegisterWorkerSpawn, StartInv
  <2>2. CASE RecordWorkerStart
    BY <2>2, <1>3 DEF RecordWorkerStart, StartInv
  <2>3. CASE HandleWorkerExit
    BY <2>3, <1>3 DEF HandleWorkerExit, StartInv, TypeOK
  <2> QED BY <2>1, <2>2, <2>3
<1>7. RestartsBounded' /\ TrippedIsDown'
  BY <1>2 DEF RestartsBounded, TrippedIsDown
<1>8. BackoffInv'
  <2>1. streak' = streak
    BY DEF PrepareNextWorkerToken, Spawn, RegisterWorkerSpawn, RecordWorkerStart, HandleWorkerExit
  <2>2. phase \notin {"decide", "halted"}
    BY DEF PrepareNextWorkerToken, Spawn, RegisterWorkerSpawn, RecordWorkerStart, HandleWorkerExit
  <2> QED BY <1>2, <2>1, <2>2 DEF BackoffInv, Delay
<1> QED BY <1>1, <1>4, <1>5, <1>6, <1>7, <1>8

\* The delay before a restart is never zero.
LEMMA DelayIsPositive ==
    ASSUME NEW crash \in Nat \ {0}
    PROVE  Delay(crash) \in Nat \ {0}
<1> DEFINE index == IF crash < 5 THEN crash ELSE 5
<1>1. index \in 1..5
  OBVIOUS
<1>2. Multiplier[index] \in {1, 2, 4, 8, 16}
  BY <1>1 DEF Multiplier
<1>3. RestartDelay * Multiplier[index] \in Nat \ {0}
  BY <1>2, SupervisorAssumption
<1> QED BY <1>3 DEF Delay, DelayCap

\* A crash enters history and streak together.
LEMMA CrashRecorded == ASSUME IInv, RecordCrash PROVE IInv'
<1> USE DEF IInv
<1>1. /\ at \in Nat /\ crashes \in Seq(Nat) /\ delays \in Seq(Nat) /\ streak \in Nat
      /\ history \subseteq DOMAIN crashes /\ Len(delays) = Len(crashes)
  BY DEF TypeOK, HistoryInv
<1> DEFINE n == Len(crashes) + 1
           answer == IF streak' >= MaxCrashes \/ Cardinality(history') >= MaxCrashes
                     THEN 0 ELSE Delay(streak')
<1>2. /\ crashes' = Append(crashes, at) /\ delays' = Append(delays, answer)
      /\ history' = Remembered(at) \cup {n} /\ streak' = streak + 1
  BY DEF RecordCrash
<1>3. streak' \in Nat \ {0} /\ Delay(streak') \in Nat \ {0}
  BY <1>1, <1>2, DelayIsPositive
<1>4. /\ crashes' \in Seq(Nat) /\ Len(crashes') = n /\ crashes'[n] = at /\ n \in Nat
      /\ \A i \in 1..Len(crashes) : crashes'[i] = crashes[i]
  BY <1>1, <1>2
<1>5. answer \in Nat
  BY <1>3
<1>6. /\ delays' \in Seq(Nat) /\ Len(delays') = n /\ delays'[n] = answer
      /\ \A i \in 1..Len(crashes) : delays'[i] = delays[i]
  BY <1>1, <1>2, <1>5
<1>7. history' \subseteq 1..n
  BY <1>1, <1>2, <1>4 DEF Remembered
<1>8. TypeOK'
  <2>1. /\ now' \in Nat /\ at' \in Nat /\ state' \in States /\ phase' \in Phases
        /\ token' \in 0..MaxWorkers /\ started' \in Nat \cup {Never}
    BY DEF RecordCrash, TypeOK, Phases
  <2>2. /\ worker' = worker /\ mail' = mail /\ heard' = heard
    BY DEF RecordCrash
  <2> QED BY <1>3, <1>4, <1>6, <1>7, <2>1, <2>2 DEF TypeOK
<1>9. ClockInv'
  <2>1. now' = now /\ at' = at /\ heard' = heard
    BY DEF RecordCrash
  <2>2. \A i \in DOMAIN crashes' : crashes'[i] <= at
    <3>1. \A i \in 1..Len(crashes) : crashes[i] <= at
      BY <1>1 DEF ClockInv
    <3>2. DOMAIN crashes' = 1..n /\ \A i \in 1..n : i \in 1..Len(crashes) \/ i = n
      BY <1>1, <1>4
    <3> QED BY <1>1, <1>4, <3>1, <3>2
  <2> QED BY <2>1, <2>2 DEF ClockInv
<1>10. \A i \in DOMAIN crashes' : crashes'[i] >= at - Window => i \in history'
  BY <1>1, <1>2, <1>4 DEF HistoryInv, Remembered
<1>11. HistoryInv'
  BY <1>4, <1>6, <1>10 DEF HistoryInv, RecordCrash
<1>12. StartInv' /\ TrippedIsDown'
  BY DEF StartInv, TrippedIsDown, RecordCrash
<1>13. BackoffInv'
  <2>1. answer \in {0, Delay(streak')}
    BY <1>3
  <2>2. phase' = "decide"
    BY DEF RecordCrash
  <2>3. (Delay(streak))' = Delay(streak')
    BY DEF Delay
  <2> QED BY <1>4, <1>6, <2>1, <2>2, <2>3 DEF BackoffInv
<1>14. RestartsBounded'
  <2> SUFFICES ASSUME NEW i \in DOMAIN crashes', delays'[i] > 0
               PROVE  Cardinality({j \in 1..i : crashes'[j] >= crashes'[i] - Window}) < MaxCrashes
    BY DEF RestartsBounded
  <2>1. CASE i \in 1..Len(crashes)
    <3>1. {j \in 1..i : crashes'[j] >= crashes'[i] - Window}
            = {j \in 1..i : crashes[j] >= crashes[i] - Window}
      BY <1>1, <1>4, <2>1
    <3>2. delays[i] > 0 /\ i \in DOMAIN crashes
      BY <1>1, <1>6, <2>1
    <3> QED BY <3>1, <3>2 DEF RestartsBounded
  <2>2. CASE i = n
    <3> DEFINE recent == {j \in 1..n : crashes'[j] >= at - Window}
    <3>1. recent \subseteq history'
      BY <1>4, <1>10
    <3>2. IsFiniteSet(history')
      <4>1. 1 \in Int /\ n \in Int
        BY <1>4
      <4>2. IsFiniteSet(1..n)
        BY <4>1, FS_Interval
      <4> QED BY <1>7, <4>2, FS_Subset
    <3>3. Cardinality(recent) <= Cardinality(history')
      BY <3>1, <3>2, FS_Subset
    <3>4. Cardinality(history') \in Nat /\ Cardinality(recent) \in Nat
      BY <3>1, <3>2, FS_Subset, FS_CardinalityType
    <3>5. ~(Cardinality(history') >= MaxCrashes)
      BY <1>6, <2>2
    <3>6. Cardinality(recent) < MaxCrashes
      BY <3>3, <3>4, <3>5, SupervisorAssumption
    <3> QED BY <1>4, <2>2, <3>6
  <2> QED BY <1>4, <2>1, <2>2
<1> QED BY <1>8, <1>9, <1>11, <1>12, <1>13, <1>14

\* The answer to a crash changes the state and the delay.
LEMMA Decided == ASSUME IInv, Decide PROVE IInv'
<1> USE DEF IInv
<1>1. state' \in States /\ (Tripped => state' \in {"Failed", "Stopped"})
  BY Transitions DEF Decide, TypeOK, States
<1>2. TypeOK'
  BY <1>1 DEF Decide, TypeOK, tracker, Phases
<1>3. ClockInv' /\ HistoryInv' /\ RestartsBounded'
  BY DEF Decide, ClockInv, HistoryInv, RestartsBounded, tracker
<1>4. StartInv'
  BY DEF Decide, StartInv, tracker
<1>5. BackoffInv'
  BY DEF Decide, BackoffInv, Tripped, Delay, tracker
<1>6. TrippedIsDown'
  BY <1>1 DEF Decide, TrippedIsDown
<1> QED BY <1>2, <1>3, <1>4, <1>5, <1>6

LEMMA HeartbeatHandled ==
    ASSUME IInv, NEW g \in Workers, Heartbeat(g)
    PROVE  IInv'
<1> USE DEF IInv
<1>1. streak' \in {0, streak} /\ heard' = [heard EXCEPT ![g] = Never]
  BY DEF Heartbeat
<1>2. TypeOK'
  BY <1>1 DEF Heartbeat, TypeOK
<1>3. ClockInv'
  BY <1>1 DEF Heartbeat, ClockInv, TypeOK, Never
<1>4. HistoryInv' /\ StartInv' /\ RestartsBounded' /\ TrippedIsDown'
  BY DEF Heartbeat, HistoryInv, StartInv, RestartsBounded, TrippedIsDown
<1>5. BackoffInv'
  BY <1>1 DEF Heartbeat, BackoffInv, Delay
<1> QED BY <1>2, <1>3, <1>4, <1>5

\* Time, shutdown and messages other than heartbeats leave the reckoning alone.
LEMMA OtherSteps ==
    ASSUME IInv,
           \/ Tick \/ Shutdown
           \/ \E g \in Workers :
                  \/ CreateHandshakeRequest(g) \/ HandleHandshakeResponse(g)
                  \/ CreateHeartbeat(g) \/ Exit(g)
                  \/ HandleIpcMessage(g) \/ HandshakeRequest(g)
    PROVE  IInv'
<1> USE DEF IInv, tracker, Reckoning
<1>1. CASE Tick
  <2>1. UNCHANGED <<Reckoning, state, token, worker, mail, heard>>
    BY <1>1 DEF Tick
  <2>2. now' \in Nat /\ now' >= now
    BY <1>1 DEF Tick, TypeOK
  <2>3. \A g \in Workers : heard'[g] <= now'
    <3>1. \A g \in Workers : heard[g] \in Int /\ heard[g] <= now /\ now \in Int
      BY DEF TypeOK, ClockInv, Never
    <3> QED BY <2>1, <2>2, <3>1
  <2> QED BY <2>1, <2>2, <2>3, UnseenSteps DEF TypeOK
<1>2. CASE Shutdown
  <2>1. state' \in {"Failed", "Stopped"}
    BY <1>2, Transitions DEF Shutdown, TypeOK
  <2>2. UNCHANGED <<Reckoning, now, token, worker, mail, heard>>
    BY <1>2 DEF Shutdown
  <2> QED BY <2>1, <2>2, UnseenSteps DEF TypeOK, ClockInv, States
<1>3. ASSUME NEW g \in Workers,
             CreateHandshakeRequest(g) \/ HandleHandshakeResponse(g) \/ CreateHeartbeat(g) \/ Exit(g)
      PROVE  IInv'
  <2>1. UNCHANGED <<Reckoning, now, state, token, heard>>
    BY <1>3 DEF CreateHandshakeRequest, HandleHandshakeResponse, CreateHeartbeat, Exit
  <2>2. /\ worker' \in [Workers -> {"unborn", "spawned", "waiting", "authenticated", "gone"}]
        /\ mail' \in [Workers -> {"none", "handshake", "accepted", "rejected", "heartbeat"}]
    BY <1>3 DEF CreateHandshakeRequest, HandleHandshakeResponse, CreateHeartbeat, Exit, TypeOK
  <2> QED BY <2>1, <2>2, UnseenSteps DEF TypeOK, ClockInv
<1>4. ASSUME NEW g \in Workers, HandleIpcMessage(g)
      PROVE  IInv'
  <2>1. UNCHANGED <<Reckoning, now, state, token, worker, mail>>
    BY <1>4 DEF HandleIpcMessage
  <2>2. heard' = [heard EXCEPT ![g] = now]
    BY <1>4 DEF HandleIpcMessage
  <2> QED BY <2>1, <2>2, UnseenSteps DEF TypeOK, ClockInv
<1>5. ASSUME NEW g \in Workers, HandshakeRequest(g)
      PROVE  IInv'
  <2>1. UNCHANGED <<Reckoning, now, token, worker>>
    BY <1>5 DEF HandshakeRequest
  <2>2. heard' = [heard EXCEPT ![g] = Never]
    BY <1>5 DEF HandshakeRequest
  <2>3. mail' \in [Workers -> {"none", "handshake", "accepted", "rejected", "heartbeat"}]
    BY <1>5 DEF HandshakeRequest, TypeOK
  <2>4. state' \in {state, After(state, "Running")}
    BY <1>5 DEF HandshakeRequest
  <2>5. /\ state' \in States
        /\ state \in {"Failed", "Stopped"} => state' \in {"Failed", "Stopped"}
    BY <2>4, Transitions DEF TypeOK, States
  <2>6. \A w \in Workers : heard'[w] <= now'
    BY <2>1, <2>2 DEF TypeOK, ClockInv, Never
  <2>7. /\ UNCHANGED Reckoning /\ now' \in Nat /\ now' >= now /\ token' \in 0..MaxWorkers
        /\ worker' \in [Workers -> {"unborn", "spawned", "waiting", "authenticated", "gone"}]
    BY <2>1 DEF TypeOK
  <2>8. heard' \in [Workers -> Nat \cup {Never}]
    BY <2>2 DEF TypeOK
  <2> QED BY <2>3, <2>5, <2>6, <2>7, <2>8, UnseenSteps
<1> QED BY <1>1, <1>2, <1>3, <1>4, <1>5

\* Each step of the supervisor preserves the invariant.
LEMMA Inductive == ASSUME IInv, [Next]_vars PROVE IInv'
<1>1. CASE UNCHANGED vars
  <2>1. UNCHANGED <<Reckoning, now, state, token, worker, mail, heard>>
    BY <1>1 DEF vars, tracker, Reckoning
  <2> QED BY <2>1, UnseenSteps DEF IInv, TypeOK, ClockInv
<1>2. CASE Next
  BY <1>2, DaemonSteps, CrashRecorded, Decided, HeartbeatHandled, OtherSteps DEF Next
<1> QED BY <1>1, <1>2

-----------------------------------------------------------------------------
\* The inductive invariant of the supervisor.
THEOREM Invariant == Spec => []IInv
BY Initially, Inductive, PTL DEF Spec

\* The type invariant holds for any policy and any number of workers.
THEOREM TypeCorrect == Spec => []TypeOK
<1>1. IInv => TypeOK
  BY DEF IInv
<1> QED BY Invariant, <1>1, PTL

\* handle_worker_exit and record_crash: fewer than max_consecutive_crashes crashes fall into
\* the window before any crash that is answered with a restart, whatever is pruned or reset.
THEOREM RestartsAreBounded == Spec => []RestartsBounded
<1>1. IInv => RestartsBounded
  BY DEF IInv
<1> QED BY Invariant, <1>1, PTL

\* handle_worker_exit: once the daemon has been told to halt, the supervisor is down, in any
\* interleaving with handshakes and shutdowns.
THEOREM TrippedStaysDown == Spec => []TrippedIsDown
<1>1. IInv => TrippedIsDown
  BY DEF IInv
<1> QED BY Invariant, <1>1, PTL

\* No call of the engine takes a failed or stopped supervisor to another state.
THEOREM DownForGood == Spec => DownIsFinal
<1>1. IInv /\ [Next]_vars
        => [~(state \in {"Failed", "Stopped"} /\ state' \notin {"Failed", "Stopped"})]_vars
  <2> SUFFICES ASSUME IInv, Next, state \in {"Failed", "Stopped"}, state' # state
               PROVE  state' \in {"Failed", "Stopped"}
    BY DEF vars
  <2>1. state \in States
    BY DEF IInv, TypeOK
  <2>2. state' \in {After(state, "Failed"), After(state, "Degraded"),
                    After(After(state, "Stopping"), "Stopped"), After(state, "Running")}
    BY DEF Next, Tick, PrepareNextWorkerToken, Spawn, RegisterWorkerSpawn, RecordWorkerStart,
           HandleWorkerExit, RecordCrash, Decide, Shutdown, CreateHandshakeRequest,
           HandleHandshakeResponse, CreateHeartbeat, Exit, HandleIpcMessage, HandshakeRequest,
           Heartbeat
  <2> QED BY <2>1, <2>2, Transitions
<1> QED BY Invariant, <1>1, PTL DEF Spec, DownIsFinal

\* record_heartbeat ends a streak only while a worker is watched that was registered at least
\* stable_reset_secs ago.
THEOREM StreakIsEarned == Spec => StreakEarned
<1>1. IInv /\ [Next]_vars
        => [streak > 0 /\ streak' = 0 =>
                phase \in {"watch", "record"} /\ now - started >= StableReset]_vars
  <2> SUFFICES ASSUME IInv, Next, streak > 0, streak' = 0
               PROVE  phase \in {"watch", "record"} /\ now - started >= StableReset
    OBVIOUS
  <2>1. streak \in Nat /\ streak' # streak /\ streak' # streak + 1
    BY DEF IInv, TypeOK
  <2>2. PICK g \in Workers : Heartbeat(g)
    BY <2>1 DEF Next, Tick, PrepareNextWorkerToken, Spawn, RegisterWorkerSpawn,
           RecordWorkerStart, HandleWorkerExit, RecordCrash, Decide, Shutdown,
           CreateHandshakeRequest, HandleHandshakeResponse, CreateHeartbeat, Exit,
           HandleIpcMessage, HandshakeRequest, tracker
  <2>3. started # Never /\ heard[g] - started >= StableReset
    BY <2>1, <2>2 DEF Heartbeat, Stable
  <2>4. phase \in {"watch", "record"}
    BY <2>3 DEF IInv, StartInv
  <2>5. heard[g] <= now /\ heard[g] \in Int /\ now \in Int /\ started \in Int
    BY DEF IInv, TypeOK, ClockInv, Never
  <2> QED BY <2>3, <2>4, <2>5, SupervisorAssumption
<1> QED BY Invariant, <1>1, PTL DEF Spec, StreakEarned

\* The delays double along a streak: 2^(n - 1) times the base, at most 16 times, at most 32 s.
LEMMA Doubling ==
    ASSUME NEW crash \in Nat \ {0}
    PROVE  \/ Delay(crash + 1) \in {2 * Delay(crash), DelayCap}
           \/ Delay(crash + 1) = Delay(crash) /\ Delay(crash) = RestartDelay * 16
<1>1. RestartDelay \in Nat
  BY SupervisorAssumption
<1>2. CASE crash \in 1..4
  <2>1. PICK m \in {1, 2, 4, 8} : /\ Multiplier[IF crash < 5 THEN crash ELSE 5] = m
                                  /\ Multiplier[IF crash + 1 < 5 THEN crash + 1 ELSE 5] = 2 * m
    BY <1>2 DEF Multiplier
  <2> QED BY <1>1, <2>1 DEF Delay, DelayCap
<1>3. CASE crash \notin 1..4
  <2>1. /\ (IF crash < 5 THEN crash ELSE 5) = 5
        /\ (IF crash + 1 < 5 THEN crash + 1 ELSE 5) = 5
    BY <1>3
  <2>2. Multiplier[5] = 16
    BY DEF Multiplier
  <2> QED BY <1>1, <2>1, <2>2 DEF Delay, DelayCap
<1> QED BY <1>2, <1>3

\* record_crash: each delay of a streak is the double of the one before up to the caps, and
\* the first after a reset is the base delay.
THEOREM BackoffIsExponential == Spec => BackoffFollowsStreak
<1> DEFINE Follows ==
             delays' # delays /\ delays'[Len(delays')] > 0 =>
                LET next == delays'[Len(delays')]
                    prev == delays[Len(delays)]
                IN  /\ streak = 0 => next \in {RestartDelay, DelayCap}
                    /\ streak > 0 => \/ next \in {2 * prev, DelayCap}
                                     \/ next = prev /\ prev = RestartDelay * 16
<1>1. IInv /\ [Next]_vars => [Follows]_vars
  <2> SUFFICES ASSUME IInv, Next, delays' # delays, delays'[Len(delays')] > 0
               PROVE  Follows
    OBVIOUS
  <2>1. RecordCrash
    BY DEF Next, Tick, PrepareNextWorkerToken, Spawn, RegisterWorkerSpawn,
           RecordWorkerStart, HandleWorkerExit, Decide, Shutdown, CreateHandshakeRequest,
           HandleHandshakeResponse, CreateHeartbeat, Exit, HandleIpcMessage, HandshakeRequest,
           Heartbeat, tracker
  <2>2. streak \in Nat /\ delays \in Seq(Nat) /\ streak' = streak + 1
    BY <2>1 DEF RecordCrash, IInv, TypeOK
  <2>3. delays'[Len(delays')] = Delay(streak + 1)
    <3>1. PICK d \in {0, Delay(streak')} : delays' = Append(delays, d)
      BY <2>1 DEF RecordCrash
    <3>2. delays'[Len(delays')] = d
      BY <2>2, <3>1
    <3> QED BY <2>2, <3>1, <3>2
  <2>4. CASE streak = 0
    <3>1. Multiplier[1] = 1
      BY DEF Multiplier
    <3> QED BY <2>3, <2>4, <3>1, SupervisorAssumption DEF Delay, DelayCap
  <2>5. CASE streak > 0
    <3>1. Len(delays) > 0 /\ delays[Len(delays)] \in {0, Delay(streak)}
      BY <2>5 DEF IInv, BackoffInv
    <3>2. delays[Len(delays)] # 0
      BY <2>1, <3>1 DEF RecordCrash, IInv, BackoffInv
    <3>3. delays[Len(delays)] = Delay(streak)
      BY <3>1, <3>2
    <3> QED BY <2>2, <2>3, <2>5, <3>3, Doubling
  <2> QED BY <2>2, <2>4, <2>5
<1> QED BY Invariant, <1>1, PTL DEF Spec, BackoffFollowsStreak
=============================================================================

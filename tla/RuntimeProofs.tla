--------------------------- MODULE RuntimeProofs ---------------------------
(***************************************************************************)
(* Proofs about RuntimeLifecycle and, in the second half, about LocalApi,  *)
(* the service that stops with it: for any sets of components, tasks and   *)
(* requests and any bound on the calls.  The first invariant adds to       *)
(* TypeOK what a task in the middle of a call may rely on: that a runtime  *)
(* it once saw down is still down, and that one it has seen leave Created  *)
(* is still out of it.  The second ties each request to its closure, to    *)
(* the flag of the deep checks and to the reader of the engine.            *)
(***************************************************************************)
EXTENDS RuntimeLifecycle, LocalApi, TLAPS

\* pcs of a starter that has left Created behind.
Launched == {"init_load", "init", "init_fail", "run", "start_load", "start", "start_fail"}

DownInv ==
    \A t \in Tasks : task[t].wasFailed \/ task[t].wasDown => state \in Down

LaunchedInv ==
    \A t \in Tasks : task[t].pc \in Launched => state # "Created"

IndexInv ==
    \A t \in Tasks :
        /\ task[t].pc \in Teardown => task[t].next \in 0..Len(task[t].snap)
        /\ task[t].pc = "blocked" => task[t].next > 0

StopInv ==
    \A t \in Tasks : task[t].pc \in Teardown => t \in Stoppers

IInv ==
    /\ TypeOK
    /\ DownInv
    /\ LaunchedInv
    /\ StopInv
    /\ IndexInv
    /\ ReportedDown
    /\ TeardownReleases
-----------------------------------------------------------------------------
LEMMA PrefixAppend ==
    ASSUME NEW s \in Seq(Comps), NEW u \in Seq(Comps), NEW c \in Comps, IsPrefix(s, u)
    PROVE  IsPrefix(s, Append(u, c))
  BY DEF IsPrefix

LEMMA PrefixOf ==
    ASSUME NEW s \in Seq(Comps)
    PROVE  IsPrefix(s, s) /\ IsPrefix(<<>>, s)
  BY DEF IsPrefix

\* The state table leads out of Down only to Down, and never back to Created.
LEMMA TableDown ==
    ASSUME NEW s \in States, NEW n \in States, CanTransitionTo(s, n)
    PROVE  /\ s \in Down => n \in Down
           /\ s # "Created" => n # "Created"
  BY DEF CanTransitionTo, Down, States

\* Failed is within reach of every state but Created and Stopped.
LEMMA FailedReachable ==
    ASSUME NEW s \in States, s # "Created", s # "Stopped"
    PROVE  CanTransitionTo(s, "Failed")
  BY DEF CanTransitionTo, States

\* What any step does to the runtime state.
LEMMA StateStep ==
    ASSUME TypeOK, [Next]_vars
    PROVE  /\ state' \in States
           /\ state \in Down => state' \in Down
           /\ state # "Created" => state' # "Created"
<1> USE DEF TypeOK
<1>1. \/ UNCHANGED state
      \/ \E n \in States : CanTransitionTo(state, n) /\ state' = n
  BY DEF Next, vars, StarterStep, StopperStep, TeardownStep, Register, RegisterPush,
         InitBegin, InitLoad, InitComponent, InitFail, InitDone, StartCheck, StartRun,
         StartLoad, StartComponent, StartFail, StartDone, Trigger, TriggerRead, TriggerGo,
         Shutdown, ShutdownLoad, StopComponent, StopBlocks, StopUnblocks, PassOver,
           ShutdownFinish, WaitBegin, WaitReceive,
         WaitSignal, WaitShutdown, TransitionTo, TryTransition, States
<1>2. QED BY <1>1, TableDown

-----------------------------------------------------------------------------
\* The initial values are of their types.
LEMMA TypeInit == Init => TypeOK
<1> SUFFICES ASSUME Init PROVE TypeOK
  OBVIOUS
<1>1. (CHOOSE c \in Comps : TRUE) \in Comps
  BY ConstantsAssumption DEF ConstantsAssumption
<1>2. IdleTask("none", 0) \in TaskRecord
  BY <1>1 DEF IdleTask, TaskRecord, PCs
<1>3. IsPrefix(<<>>, <<>>)
  BY DEF IsPrefix
<1>4. \A t \in Tasks : IsPrefix(task[t].snap, components)
  BY <1>3 DEF Init, IdleTask
<1> QED BY <1>2, <1>4 DEF Init, TypeOK, States, CompStatus

LEMMA ComponentsStep ==
    ASSUME TypeOK, [Next]_vars
    PROVE  /\ components' \in Seq(Comps)
           /\ \A s \in Seq(Comps) : IsPrefix(s, components) => IsPrefix(s, components')
           /\ comp' \in [Comps -> CompStatus]
           /\ state \in Down => \A c \in Comps : comp'[c] = "started" => comp[c] = "started"
<1>1. CASE \E t \in Starters : RegisterPush(t)
  <2>1. PICK t \in Starters : RegisterPush(t)
    BY <1>1
  <2>2. task[t].arg \in Comps
    BY DEF TypeOK, TaskRecord, Tasks
  <2> QED BY <2>1, <2>2, PrefixAppend DEF TypeOK, RegisterPush
<1>2. CASE ~\E t \in Starters : RegisterPush(t)
  <2>1. components' = components
    BY <1>2 DEF Next, vars, StarterStep, StopperStep, TeardownStep, Register,
           InitBegin, InitLoad, InitComponent, InitFail, InitDone, StartCheck, StartRun,
           StartLoad, StartComponent, StartFail, StartDone, Trigger, TriggerRead, TriggerGo,
           Shutdown, ShutdownLoad, StopComponent, StopBlocks, StopUnblocks, PassOver,
           ShutdownFinish, WaitBegin, WaitReceive,
           WaitSignal, WaitShutdown
  <2>2. \/ comp' = comp
        \/ \E c, v : /\ v \in CompStatus
                     /\ v = "started" => state \notin Down
                     /\ comp' = [comp EXCEPT ![c] = v]
    BY <1>2 DEF Next, vars, StarterStep, StopperStep, TeardownStep, Register,
           InitBegin, InitLoad, InitComponent, InitFail, InitDone, StartCheck, StartRun,
           StartLoad, StartComponent, StartFail, StartDone, Trigger, TriggerRead, TriggerGo,
           Shutdown, ShutdownLoad, StopComponent, StopBlocks, StopUnblocks, PassOver,
           ShutdownFinish, WaitBegin, WaitReceive,
           WaitSignal, WaitShutdown, CompStatus
  <2> QED BY <2>1, <2>2 DEF TypeOK
<1> QED BY <1>1, <1>2

-----------------------------------------------------------------------------
\* What IInv asks of task t when its record is r, in the state after the step.
Sound(t, r) ==
    /\ r \in TaskRecord
    /\ IsPrefix(r.snap, components')
    /\ r.wasFailed \/ r.wasDown => state' \in Down
    /\ r.pc \in Launched => state' # "Created"
    /\ r.pc \in Teardown => t \in Stoppers /\ r.next \in 0..Len(r.snap)
    /\ r.pc = "blocked" => r.next > 0
    /\ t \in Stoppers /\ r.result = "ok" => state' \in Down
    /\ t \in Starters /\ r.result = "component_failure" => state' \in Down
    /\ r.pc \in Teardown /\ r.wasDown =>
           \A i \in r.next + 1 .. Len(r.snap) : comp'[r.snap[i]] # "started"

\* A step that leaves a task's record alone leaves it sound.
LEMMA Unmoved ==
    ASSUME IInv, [Next]_vars, NEW t \in Tasks
    PROVE  Sound(t, task[t])
<1> DEFINE r == task[t]
<1>1. TypeOK /\ r \in TaskRecord /\ r.snap \in Seq(Comps) /\ IsPrefix(r.snap, components)
  BY DEF IInv, TypeOK, TaskRecord
<1>2. IsPrefix(r.snap, components')
  BY <1>1, ComponentsStep
<1>3. r.wasFailed \/ r.wasDown => state \in Down
  BY DEF IInv, DownInv
<1>4. r.pc \in Launched => state # "Created"
  BY DEF IInv, LaunchedInv
<1>5. /\ t \in Stoppers /\ r.result = "ok" => state \in Down
      /\ t \in Starters /\ r.result = "component_failure" => state \in Down
  BY DEF IInv, ReportedDown
<1>6. ASSUME r.pc \in Teardown, r.wasDown, NEW i \in r.next + 1 .. Len(r.snap)
      PROVE  comp'[r.snap[i]] # "started"
  <2>1. t \in Stoppers
    BY <1>6 DEF IInv, StopInv, At
  <2>2. r.next \in Nat
    BY <1>1 DEF TaskRecord
  <2>3. i \in 1..Len(r.snap)
    BY <1>1, <1>6, <2>2
  <2>4. r.snap[i] \in Comps
    BY <1>1, <2>3
  <2>5. comp[r.snap[i]] # "started"
    BY <1>6, <2>1 DEF IInv, TeardownReleases, At
  <2> QED BY <1>1, <1>3, <1>6, <2>4, <2>5, ComponentsStep
<1>7. /\ r.pc \in Teardown => t \in Stoppers /\ r.next \in 0..Len(r.snap)
      /\ r.pc = "blocked" => r.next > 0
  BY DEF IInv, StopInv, IndexInv, At
<1> HIDE DEF r
<1> QED BY <1>1, <1>2, <1>3, <1>4, <1>5, <1>6, <1>7, StateStep DEF Sound, r

\* Where a task may go without having moved the components it is to stop.
Entry == {p \in PCs \ Teardown : p \in Launched => state' # "Created"}

\* A record is as sound as another with the same index and snapshot.
LEMMA Inherit ==
    ASSUME NEW t \in Tasks, NEW r, Sound(t, r), NEW q \in TaskRecord,
           q.snap = r.snap, q.next = r.next,
           q.wasDown = r.wasDown,
           q.wasFailed = r.wasFailed \/ (q.wasFailed => state' \in Down),
           q.pc = r.pc \/ q.pc \in Entry,
           q.result = r.result \/ q.result = "err"
    PROVE  Sound(t, q)
  BY DEF Sound, Entry, Teardown

\* The record updates the actions make keep a record sound.
LEMMA Updates ==
    ASSUME NEW t \in Tasks, NEW r, Sound(t, r)
    PROVE  /\ \A n \in Nat : Sound(t, [r EXCEPT !.calls = n])
           /\ Sound(t, [r EXCEPT !.result = "err"])
           /\ \A b \in BOOLEAN : Sound(t, [r EXCEPT !.rx = b])
           /\ \A p \in Entry : Sound(t, [r EXCEPT !.pc = p])
           /\ \A p \in Entry, c \in Comps : Sound(t, [r EXCEPT !.pc = p, !.arg = c])
           /\ \A p \in Entry, b \in BOOLEAN : Sound(t, [r EXCEPT !.pc = p, !.sawFailed = b])
           /\ \A p \in Entry, th \in {"idle", "load", "enter"} :
                  /\ Sound(t, [r EXCEPT !.pc = p, !.then = th])
                  /\ Sound(t, [r EXCEPT !.pc = p, !.then = th, !.rx = FALSE])
                  /\ \A b \in BOOLEAN : (b => state' \in Down) =>
                        Sound(t, [r EXCEPT !.pc = p, !.then = th, !.wasFailed = b])
<1> DEFINE Like(q) ==
      /\ q \in TaskRecord /\ q.snap = r.snap /\ q.next = r.next /\ q.wasDown = r.wasDown
      /\ q.wasFailed = r.wasFailed \/ (q.wasFailed => state' \in Down)
      /\ q.pc = r.pc \/ q.pc \in Entry
      /\ q.result = r.result \/ q.result = "err"
<1>1. \A q : Like(q) => Sound(t, q)
  BY Inherit
<1>2. r \in TaskRecord /\ Entry \subseteq PCs
  BY DEF Sound, Entry
<1> HIDE DEF Sound, Entry
<1>3. \A n \in Nat : Like([r EXCEPT !.calls = n])
  BY <1>2 DEF TaskRecord
<1>4. Like([r EXCEPT !.result = "err"])
  BY <1>2 DEF TaskRecord
<1>5. \A b \in BOOLEAN : Like([r EXCEPT !.rx = b])
  BY <1>2 DEF TaskRecord
<1>6. \A p \in Entry : Like([r EXCEPT !.pc = p])
  BY <1>2 DEF TaskRecord
<1>7. \A p \in Entry, c \in Comps : Like([r EXCEPT !.pc = p, !.arg = c])
  BY <1>2 DEF TaskRecord
<1>8. \A p \in Entry, b \in BOOLEAN : Like([r EXCEPT !.pc = p, !.sawFailed = b])
  BY <1>2 DEF TaskRecord
<1>9. \A p \in Entry, th \in {"idle", "load", "enter"} : Like([r EXCEPT !.pc = p, !.then = th])
  BY <1>2 DEF TaskRecord
<1>10. \A p \in Entry, th \in {"idle", "load", "enter"} :
           Like([r EXCEPT !.pc = p, !.then = th, !.rx = FALSE])
  BY <1>2 DEF TaskRecord
<1>11. \A p \in Entry, th \in {"idle", "load", "enter"}, b \in BOOLEAN :
           (b => state' \in Down) => Like([r EXCEPT !.pc = p, !.then = th, !.wasFailed = b])
  <2> TAKE p \in Entry, th \in {"idle", "load", "enter"}, b \in BOOLEAN
  <2> HAVE b => state' \in Down
  <2> DEFINE q == [r EXCEPT !.pc = p, !.then = th, !.wasFailed = b]
  <2>1. /\ q \in TaskRecord /\ q.snap = r.snap /\ q.next = r.next /\ q.wasDown = r.wasDown
        /\ q.pc = p /\ q.result = r.result /\ q.wasFailed = b
    BY <1>2 DEF TaskRecord
  <2> HIDE DEF q
  <2>2. q.wasFailed => state' \in Down
    BY <2>1
  <2>3. Like(q)
    BY <2>1, <2>2
  <2> QED BY <2>3 DEF q
<1> HIDE DEF Like
<1> QED BY <1>1, <1>3, <1>4, <1>5, <1>6, <1>7, <1>8, <1>9, <1>10, <1>11

\* So do those that move the index, ...
LEMMA Indexes ==
    ASSUME NEW t \in Tasks, NEW r, Sound(t, r), NEW n \in Nat
    PROVE  /\ r.pc \notin Teardown =>
                  /\ Sound(t, [r EXCEPT !.next = n])
                  /\ \A b \in BOOLEAN : Sound(t, [r EXCEPT !.next = n, !.degraded = b])
           /\ r.pc \in Teardown /\ r.next = n + 1 /\ comp'[r.snap[n + 1]] # "started" =>
                  Sound(t, [r EXCEPT !.pc = "stop", !.next = n])
           /\ r.pc \in Teardown /\ r.next > 0 => Sound(t, [r EXCEPT !.pc = "blocked"])
<1> DEFINE Moved(q) ==
      /\ q \in TaskRecord /\ q.snap = r.snap /\ q.next = n /\ q.wasDown = r.wasDown
      /\ q.wasFailed = r.wasFailed /\ q.pc = r.pc /\ q.result = r.result
<1>1. r \in TaskRecord
  BY DEF Sound
<1>2. Moved([r EXCEPT !.next = n])
  BY <1>1 DEF TaskRecord
<1>3. \A b \in BOOLEAN : Moved([r EXCEPT !.next = n, !.degraded = b])
  BY <1>1 DEF TaskRecord
<1>4. ASSUME NEW q, Moved(q), r.pc \notin Teardown
      PROVE  Sound(t, q)
  BY <1>4 DEF Sound, Teardown
<1>5. ASSUME r.pc \in Teardown, r.next = n + 1, comp'[r.snap[n + 1]] # "started"
      PROVE  Sound(t, [r EXCEPT !.pc = "stop", !.next = n])
  <2> DEFINE q == [r EXCEPT !.pc = "stop", !.next = n]
  <2>1. /\ q \in TaskRecord /\ q.snap = r.snap /\ q.next = n /\ q.wasDown = r.wasDown
        /\ q.wasFailed = r.wasFailed /\ q.pc = "stop" /\ q.result = r.result
    BY <1>1 DEF TaskRecord, PCs
  <2> HIDE DEF q
  <2>2. \A i \in q.next + 1 .. Len(q.snap) : i = n + 1 \/ i \in r.next + 1 .. Len(r.snap)
    BY <1>5, <2>1
  <2>3. q.pc \notin Launched /\ q.next \in 0..Len(q.snap) /\ t \in Stoppers
    BY <1>5, <2>1 DEF Sound, Launched
  <2>4. Sound(t, q)
    BY <1>5, <2>1, <2>2, <2>3 DEF Sound
  <2> QED BY <2>4 DEF q
<1>6. ASSUME r.pc \in Teardown, r.next > 0
      PROVE  Sound(t, [r EXCEPT !.pc = "blocked"])
  <2> DEFINE q == [r EXCEPT !.pc = "blocked"]
  <2>1. /\ q \in TaskRecord /\ q.snap = r.snap /\ q.next = r.next /\ q.wasDown = r.wasDown
        /\ q.wasFailed = r.wasFailed /\ q.pc = "blocked" /\ q.result = r.result
    BY <1>1 DEF TaskRecord, PCs
  <2> HIDE DEF q
  <2>2. Sound(t, q)
    BY <1>6, <2>1 DEF Sound, Launched, Teardown
  <2> QED BY <2>2 DEF q
<1> HIDE DEF Moved
<1> QED BY <1>2, <1>3, <1>4, <1>5, <1>6

\* ... and those that take a snapshot of the components.
LEMMA Snapshots ==
    ASSUME NEW t \in Tasks, NEW r, Sound(t, r),
           components \in Seq(Comps), components' = components
    PROVE  /\ \A p \in Entry, n \in Nat :
                  Sound(t, [r EXCEPT !.pc = p, !.snap = components, !.next = n])
           /\ \A p \in Entry, n \in Nat :
                  Sound(t, [r EXCEPT !.pc = p, !.snap = components, !.next = n, !.degraded = FALSE])
           /\ \A b \in BOOLEAN : (b => state' \in Down) /\ t \in Stoppers =>
                  Sound(t, [r EXCEPT !.pc = "stop", !.snap = components,
                                     !.next = Len(components), !.wasDown = b])
<1> DEFINE Taken(q, p, n) ==
      /\ q \in TaskRecord /\ q.snap = components /\ q.next = n /\ q.pc = p
      /\ q.wasFailed = r.wasFailed /\ q.result = r.result
<1>1. r \in TaskRecord /\ Entry \subseteq PCs /\ "stop" \in PCs /\ "stop" \notin Launched
  BY DEF Sound, Entry, PCs, Launched
<1>2. IsPrefix(components, components')
  BY PrefixOf
<1>3. \A p \in Entry, n \in Nat :
          Taken([r EXCEPT !.pc = p, !.snap = components, !.next = n], p, n)
  BY <1>1 DEF TaskRecord
<1>4. \A p \in Entry, n \in Nat :
          Taken([r EXCEPT !.pc = p, !.snap = components, !.next = n, !.degraded = FALSE], p, n)
  BY <1>1 DEF TaskRecord
<1>5. \A p \in Entry, n \in Nat :
          /\ [r EXCEPT !.pc = p, !.snap = components, !.next = n].wasDown = r.wasDown
          /\ [r EXCEPT !.pc = p, !.snap = components, !.next = n, !.degraded = FALSE].wasDown
                 = r.wasDown
  BY <1>1 DEF TaskRecord
<1>6. ASSUME NEW q, NEW p \in Entry, NEW n \in Nat, Taken(q, p, n), q.wasDown = r.wasDown
      PROVE  Sound(t, q)
  BY <1>2, <1>6 DEF Sound, Entry, Teardown
<1>7. ASSUME NEW b \in BOOLEAN, b => state' \in Down, t \in Stoppers
      PROVE  Sound(t, [r EXCEPT !.pc = "stop", !.snap = components,
                                !.next = Len(components), !.wasDown = b])
  <2> DEFINE q == [r EXCEPT !.pc = "stop", !.snap = components,
                            !.next = Len(components), !.wasDown = b]
  <2>1. Len(components) \in Nat
    OBVIOUS
  <2>2. Taken(q, "stop", Len(components)) /\ q.wasDown = b
    BY <1>1, <2>1 DEF TaskRecord
  <2> HIDE DEF q
  <2>3. q.wasDown => state' \in Down
    BY <1>7, <2>2
  <2>4. q.next + 1 .. Len(q.snap) = {}
    BY <2>1, <2>2
  <2>5. Sound(t, q)
    BY <1>1, <1>2, <1>7, <2>1, <2>2, <2>3, <2>4 DEF Sound
  <2> QED BY <2>5 DEF q
<1> HIDE DEF Taken
<1> QED BY <1>3, <1>4, <1>5, <1>6, <1>7

LEMMA IdleRecord ==
    ASSUME NEW t \in Tasks, NEW res \in {"none", "ok", "err", "component_failure"}, NEW n \in Nat,
           components' \in Seq(Comps),
           t \in Stoppers /\ res = "ok" => state' \in Down,
           t \in Starters /\ res = "component_failure" => state' \in Down
    PROVE  Sound(t, IdleTask(res, n))
<1>1. (CHOOSE x \in Comps : TRUE) \in Comps
  BY ConstantsAssumption DEF ConstantsAssumption
<1>2. IsPrefix(<<>>, components')
  BY DEF IsPrefix
<1> QED BY <1>1, <1>2 DEF IdleTask, TaskRecord, PCs, Sound, Launched, Teardown
-----------------------------------------------------------------------------
\* Task t's record becomes r, and a broadcast may mark the waiting receivers.
Becomes(t, r) ==
    task' = [task EXCEPT ![t] = r] \/ task' = Broadcast([task EXCEPT ![t] = r])

LEMMA Idle ==
    ASSUME IInv, [Next]_vars, NEW t \in Tasks,
           NEW res \in {"none", "ok", "err", "component_failure"},
           t \in Stoppers /\ res = "ok" => state' \in Down,
           t \in Starters /\ res = "component_failure" => state' \in Down,
           task' = Return(t, res) \/ task' = Broadcast(Return(t, res))
    PROVE  \E r : Sound(t, r) /\ Becomes(t, r)
<1>1. task[t].calls \in Nat
  BY DEF IInv, TypeOK, TaskRecord
<1>2. components' \in Seq(Comps)
  BY ComponentsStep DEF IInv
<1> QED BY <1>1, <1>2, IdleRecord DEF Return, Becomes

LEMMA Called ==
    ASSUME IInv, NEW t \in Tasks, NEW r, Sound(t, r), Call(t, r)
    PROVE  \E q : Sound(t, q) /\ Becomes(t, q)
<1> DEFINE calls == task[t].calls + 1
<1>1. calls \in Nat
  BY DEF IInv, TypeOK, TaskRecord
<1>2. task' = [task EXCEPT ![t] = [r EXCEPT !.calls = calls]]
  BY DEF Call
<1> HIDE DEF calls
<1> QED BY <1>1, <1>2, Updates DEF Becomes

LEMMA Gone ==
    ASSUME IInv, [Next]_vars, NEW t \in Tasks, NEW p \in Entry,
           task' = Goto(t, p) \/ task' = Broadcast(Goto(t, p))
    PROVE  \E r : Sound(t, r) /\ Becomes(t, r)
<1>1. Sound(t, [task[t] EXCEPT !.pc = p])
  BY Unmoved, Updates
<1> QED BY <1>1 DEF Goto, Becomes

LEMMA StarterRecord ==
    ASSUME IInv, [Next]_vars, NEW t \in Starters, StarterStep(t)
    PROVE  \E r : Sound(t, r) /\ Becomes(t, r)
<1> DEFINE Goal == \E r : Sound(t, r) /\ Becomes(t, r)
           n == task[t].next + 1
<1>1. /\ t \in Tasks /\ t \notin Stoppers
      /\ Sound(t, task[t])
      /\ n \in Nat
      /\ task[t].degraded \in BOOLEAN
      /\ components \in Seq(Comps)
  BY Unmoved, ConstantsAssumption DEF ConstantsAssumption, IInv, TypeOK, TaskRecord, Tasks
<1>2. /\ task[t].pc \in Launched => state' # "Created"
      /\ {"push", "idle"} \subseteq Entry
      /\ state' # "Created" => Launched \subseteq Entry
  BY StateStep, <1>1 DEF IInv, LaunchedInv, Entry, PCs, Launched, Teardown
<1>3. ASSUME NEW res \in {"none", "ok", "err"},
             task' = Return(t, res) \/ task' = Broadcast(Return(t, res))
      PROVE  Goal
  BY <1>1, <1>3, Idle
<1>4. CASE Register(t)
  <2>1. PICK c \in Comps : Call(t, IF state = "Created" THEN [task[t] EXCEPT !.pc = "push", !.arg = c]
                                   ELSE [task[t] EXCEPT !.result = "err"])
    BY <1>4 DEF Register
  <2>2. Sound(t, [task[t] EXCEPT !.pc = "push", !.arg = c]) /\ Sound(t, [task[t] EXCEPT !.result = "err"])
    BY <1>1, <1>2, Updates
  <2> QED BY <1>1, <2>1, <2>2, Called
<1>5. CASE InitBegin(t)
  <2>1. CASE TransitionTo("Initializing") /\ Call(t, [task[t] EXCEPT !.pc = "init_load"])
    <3>1. "init_load" \in Entry
      BY <2>1 DEF TransitionTo, Entry, PCs, Teardown
    <3>2. Sound(t, [task[t] EXCEPT !.pc = "init_load"])
      BY <1>1, <3>1, Updates
    <3> QED BY <1>1, <2>1, <3>2, Called
  <2>2. CASE Call(t, [task[t] EXCEPT !.result = "err"])
    BY <1>1, <2>2, Updates, Called
  <2> QED BY <1>5, <2>1, <2>2 DEF InitBegin
<1>6. CASE StartCheck(t)
  <2>1. CASE state = "Ready"
    <3>1. "run" \in Entry
      BY <2>1, StateStep DEF Entry, PCs, IInv, Teardown
    <3>2. Sound(t, [task[t] EXCEPT !.pc = "run"])
      BY <1>1, <3>1, Updates
    <3> QED BY <1>1, <1>6, <2>1, <3>2, Called DEF StartCheck
  <2>2. CASE state # "Ready"
    BY <1>1, <1>6, <2>2, Updates, Called DEF StartCheck
  <2> QED BY <2>1, <2>2
<1>7. CASE InitLoad(t)
  <2>1. "init" \in Entry /\ components' = components
    BY <1>2, <1>7 DEF InitLoad, At, Launched
  <2>2. Sound(t, [task[t] EXCEPT !.pc = "init", !.snap = components, !.next = 1])
    BY <1>1, <2>1, Snapshots
  <2> QED BY <1>7, <2>2 DEF InitLoad, Becomes
<1>8. CASE StartLoad(t)
  <2>1. "start" \in Entry /\ components' = components
    BY <1>2, <1>8 DEF StartLoad, At, Launched
  <2>2. Sound(t, [task[t] EXCEPT !.pc = "start", !.snap = components, !.next = 1, !.degraded = FALSE])
    BY <1>1, <2>1, Snapshots
  <2> QED BY <1>8, <2>2 DEF StartLoad, Becomes
<1>9. CASE InitComponent(t) \/ StartComponent(t)
  <2>1. task[t].pc \notin Teardown
    BY <1>9 DEF InitComponent, StartComponent, At, Teardown
  <2>2. Sound(t, [task[t] EXCEPT !.next = n])
    <3> HIDE DEF n
    <3> QED BY <1>1, <2>1, Indexes
  <2>3. \A b \in BOOLEAN : Sound(t, [task[t] EXCEPT !.next = n, !.degraded = task[t].degraded \/ b])
    <3> HIDE DEF n
    <3> TAKE b \in BOOLEAN
    <3>1. task[t].degraded \/ b \in BOOLEAN
      OBVIOUS
    <3> QED BY <1>1, <2>1, <3>1, Indexes
  <2>4. \/ task' = [task EXCEPT ![t] = [task[t] EXCEPT !.next = n]]
        \/ \E b \in BOOLEAN :
              task' = [task EXCEPT ![t] = [task[t] EXCEPT !.next = n, !.degraded = task[t].degraded \/ b]]
        \/ \E p \in {"init_fail", "start_fail"} : task' = Goto(t, p)
    BY <1>9 DEF InitComponent, StartComponent
  <2>5. {"init_fail", "start_fail"} \subseteq Entry
    BY <1>2, <1>9 DEF InitComponent, StartComponent, At, Launched
  <2> HIDE DEF n
  <2> QED BY <1>1, <2>2, <2>3, <2>4, <2>5, Gone DEF Becomes
<1>10. CASE StartRun(t)
  <2>1. "start_load" \in Entry
    BY <1>2, <1>10 DEF StartRun, At, Launched
  <2> QED BY <1>1, <1>3, <1>10, <2>1, Gone DEF StartRun
<1>11. CASE RegisterPush(t) \/ InitDone(t) \/ StartDone(t)
  BY <1>3, <1>11 DEF RegisterPush, InitDone, StartDone
<1>12. CASE InitFail(t) \/ StartFail(t)
  <2>1. state # "Created" /\ state \in States
    BY <1>1, <1>12 DEF InitFail, StartFail, At, Launched, IInv, LaunchedInv, TypeOK
  <2>2. state' \in Down
    BY <1>12, <2>1, FailedReachable DEF InitFail, StartFail, TryTransition, Down
  <2> QED BY <1>1, <1>12, <2>2, Idle DEF InitFail, StartFail
<1> QED BY <1>4, <1>5, <1>6, <1>7, <1>8, <1>9, <1>10, <1>11, <1>12 DEF StarterStep

LEMMA StopperRecord ==
    ASSUME IInv, [Next]_vars, NEW t \in Stoppers, StopperStep(t)
    PROVE  \E r : Sound(t, r) /\ Becomes(t, r)
<1> DEFINE Goal == \E r : Sound(t, r) /\ Becomes(t, r)
           n == task[t].next - 1
<1>1. /\ t \in Tasks /\ t \notin Starters
      /\ Sound(t, task[t])
      /\ task[t].next \in Nat
      /\ task[t].snap \in Seq(Comps)
      /\ task[t].then \in {"idle", "load", "enter"}
      /\ task[t].wasFailed => state \in Down
      /\ components \in Seq(Comps)
      /\ comp \in [Comps -> CompStatus]
  BY Unmoved, ConstantsAssumption
     DEF ConstantsAssumption, IInv, TypeOK, TaskRecord, Tasks, DownInv
<1>2. {"trigger", "trigger_go", "enter", "load", "wait"} \subseteq Entry
  BY DEF Entry, PCs, Launched, Teardown
<1>3. state \in Down => state' \in Down
  BY StateStep DEF IInv
<1>4. ASSUME task' = AfterTrigger(t) \/ task' = Broadcast(AfterTrigger(t))
      PROVE  Goal
  <2>1. CASE task[t].then = "idle"
    BY <1>1, <1>4, <2>1, Idle DEF AfterTrigger
  <2>2. CASE task[t].then # "idle"
    <3>1. task[t].then \in Entry
      BY <1>1, <1>2, <2>2
    <3> QED BY <1>1, <1>4, <2>2, <3>1, Gone DEF AfterTrigger
  <2> QED BY <2>1, <2>2
<1>5. ASSUME NEW r, Sound(t, r), UNCHANGED state
      PROVE  Sound(t, EnterShutdown(r))
  <2>1. (state = "Failed") \in BOOLEAN /\ ((state = "Failed") => state' \in Down)
    BY <1>5 DEF Down
  <2> QED BY <1>1, <1>2, <1>5, <2>1, Updates DEF EnterShutdown
<1>6. CASE Trigger(t) \/ WaitBegin(t)
  <2>1. /\ Sound(t, [task[t] EXCEPT !.pc = "trigger", !.then = "idle"])
        /\ Sound(t, [task[t] EXCEPT !.pc = "wait"])
    BY <1>1, <1>2, Updates
  <2> QED BY <1>1, <1>6, <2>1, Called DEF Trigger, WaitBegin
<1>7. CASE Shutdown(t)
  BY <1>1, <1>5, <1>7, Called DEF Shutdown
<1>8. CASE WaitSignal(t)
  <2>1. Sound(t, [task[t] EXCEPT !.pc = "trigger", !.then = "enter", !.rx = FALSE])
    BY <1>1, <1>2, Updates
  <2> QED BY <1>8, <2>1 DEF WaitSignal, Becomes
<1>9. CASE TriggerRead(t)
  <2>1. CASE task' = AfterTrigger(t)
    BY <1>4, <2>1
  <2>2. CASE task' = [task EXCEPT ![t] = [task[t] EXCEPT !.pc = "trigger_go",
                                                         !.sawFailed = (state = "Failed")]]
    <3>1. (state = "Failed") \in BOOLEAN
      OBVIOUS
    <3>2. Sound(t, [task[t] EXCEPT !.pc = "trigger_go", !.sawFailed = (state = "Failed")])
      BY <1>1, <1>2, <3>1, Updates
    <3> QED BY <2>2, <3>2 DEF Becomes
  <2> QED BY <1>9, <2>1, <2>2 DEF TriggerRead
<1>10. CASE TriggerGo(t)
  BY <1>4, <1>10 DEF TriggerGo
<1>11. CASE WaitReceive(t)
  <2>1. Sound(t, [task[t] EXCEPT !.rx = FALSE])
    BY <1>1, Updates
  <2>2. Sound(t, EnterShutdown([task[t] EXCEPT !.rx = FALSE]))
    BY <1>5, <1>11, <2>1 DEF WaitReceive
  <2> QED BY <1>11, <2>2 DEF WaitReceive, Becomes
<1>12. CASE WaitShutdown(t)
  <2>1. Sound(t, EnterShutdown(task[t]))
    BY <1>1, <1>5, <1>12 DEF WaitShutdown
  <2> QED BY <1>12, <2>1 DEF WaitShutdown, Becomes
<1>13. CASE ShutdownLoad(t)
  <2>1. (state \in Down) \in BOOLEAN /\ ((state \in Down) => state' \in Down)
    BY <1>3
  <2>2. Sound(t, [task[t] EXCEPT !.pc = "stop", !.snap = components,
                                 !.next = Len(components), !.wasDown = (state \in Down)])
    BY <1>1, <1>13, <2>1, Snapshots DEF ShutdownLoad
  <2> QED BY <1>13, <2>2 DEF ShutdownLoad, Becomes
<1>14. CASE StopComponent(t) \/ StopUnblocks(t)
  <2>1. task[t].pc \in Teardown /\ PassOver(t)
    BY <1>14 DEF StopComponent, StopUnblocks, At, Teardown
  <2>2. task[t].next \in 1..Len(task[t].snap)
    <3>1. CASE StopComponent(t)
      BY <1>1, <2>1, <3>1 DEF StopComponent, IInv, IndexInv
    <3>2. CASE StopUnblocks(t)
      BY <1>1, <3>2 DEF StopUnblocks, IInv, IndexInv, At, Teardown
    <3> QED BY <1>14, <3>1, <3>2
  <2>3. n \in Nat /\ task[t].next = n + 1
    BY <1>1, <2>2
  <2>4. /\ comp' = [comp EXCEPT ![task[t].snap[n + 1]] = "stopped"]
        /\ task' = [task EXCEPT ![t] = [task[t] EXCEPT !.pc = "stop", !.next = n]]
    BY <2>1, <2>3 DEF PassOver, Visited
  <2> HIDE DEF n
  <2>5. comp'[task[t].snap[n + 1]] # "started"
    BY <1>1, <2>2, <2>3, <2>4
  <2>6. Sound(t, [task[t] EXCEPT !.pc = "stop", !.next = n])
    BY <1>1, <2>1, <2>3, <2>5, Indexes
  <2> QED BY <2>4, <2>6 DEF Becomes
<1>16. CASE StopBlocks(t)
  <2>1. Sound(t, [task[t] EXCEPT !.pc = "blocked"])
    BY <1>1, <1>16, Indexes DEF StopBlocks, At, Teardown
  <2> QED BY <1>16, <2>1 DEF StopBlocks, Goto, Becomes
<1>15. CASE ShutdownFinish(t)
  <2>1. CASE task[t].wasFailed /\ task' = Return(t, "ok")
    BY <1>1, <1>3, <2>1, Idle
  <2>2. CASE TransitionTo("Stopped") /\ task' = Return(t, "ok")
    <3>1. state' \in Down
      BY <2>2 DEF TransitionTo, Down
    <3> QED BY <1>1, <2>2, <3>1, Idle
  <2>3. CASE task' = Return(t, "err")
    BY <1>1, <2>3, Idle
  <2> QED BY <1>15, <2>1, <2>2, <2>3 DEF ShutdownFinish
<1> QED BY <1>6, <1>7, <1>8, <1>9, <1>10, <1>11, <1>12, <1>13, <1>14, <1>15, <1>16
        DEF StopperStep, TeardownStep
-----------------------------------------------------------------------------
\* If the task that moves ends with a sound record, every task does.
LEMMA AllSound ==
    ASSUME IInv, [Next]_vars, NEW t \in Tasks, NEW r, Sound(t, r), Becomes(t, r)
    PROVE  /\ task' \in [Tasks -> TaskRecord]
           /\ \A u \in Tasks : Sound(u, task'[u])
<1> DEFINE f == [task EXCEPT ![t] = r]
<1>1. /\ f = [u \in Tasks |-> f[u]]
      /\ \A u \in Tasks : f[u] = IF u = t THEN r ELSE task[u]
  BY DEF IInv, TypeOK
<1>2. \A u \in Tasks : Sound(u, f[u])
  BY <1>1, Unmoved
<1>3. \A u \in Tasks : f[u] \in TaskRecord
  BY <1>2 DEF Sound
<1>4. task' = f \/ task' = Broadcast(f)
  BY DEF Becomes
<1> HIDE DEF f
<1>5. \A u \in Tasks : Sound(u, Broadcast(f)[u])
  <2> TAKE u \in Tasks
  <2>1. Sound(u, [f[u] EXCEPT !.rx = TRUE])
    BY <1>2, Updates
  <2> QED BY <1>2, <2>1 DEF Broadcast
<1>6. Broadcast(f) = [u \in Tasks |-> Broadcast(f)[u]]
  BY DEF Broadcast
<1>7. \A u \in Tasks : Broadcast(f)[u] \in TaskRecord
  BY <1>5 DEF Sound
<1> QED BY <1>1, <1>2, <1>3, <1>4, <1>5, <1>6, <1>7

\* No call has begun.
LEMMA InvInit == Init => IInv
<1> SUFFICES ASSUME Init PROVE IInv
  OBVIOUS
<1>1. TypeOK
  BY TypeInit
<1>2. \A t \in Tasks : task[t] = IdleTask("none", 0)
  BY DEF Init
<1>3. \A t \in Tasks : /\ task[t].pc = "idle" /\ task[t].result = "none"
                       /\ task[t].wasFailed = FALSE /\ task[t].wasDown = FALSE
  <2> DEFINE r == IdleTask("none", 0)
  <2>1. /\ r.pc = "idle" /\ r.result = "none"
        /\ r.wasFailed = FALSE /\ r.wasDown = FALSE
    BY DEF IdleTask
  <2> HIDE DEF r
  <2> QED BY <1>2, <2>1 DEF r
<1> QED BY <1>1, <1>3 DEF IInv, IndexInv, DownInv, LaunchedInv, StopInv, ReportedDown,
           TeardownReleases, At, Launched, Tasks, Teardown

\* Each step of the coordinator preserves the invariant.
LEMMA InvNext == IInv /\ [Next]_vars => IInv'
<1> SUFFICES ASSUME IInv, [Next]_vars PROVE IInv'
  OBVIOUS
<1>1. /\ task' \in [Tasks -> TaskRecord]
      /\ \A u \in Tasks : Sound(u, task'[u])
  <2>1. CASE UNCHANGED vars
    <3>1. task' = task
      BY <2>1 DEF vars
    <3> QED BY <3>1, Unmoved DEF IInv, TypeOK
  <2>2. CASE Next
    <3>1. PICK t \in Tasks : \/ t \in Starters /\ StarterStep(t)
                             \/ t \in Stoppers /\ StopperStep(t)
      BY <2>2 DEF Next, Tasks
    <3>2. \E r : Sound(t, r) /\ Becomes(t, r)
      BY <3>1, StarterRecord, StopperRecord
    <3> QED BY <3>2, AllSound
  <2> QED BY <2>1, <2>2
<1>2. TypeOK'
  BY <1>1, StateStep, ComponentsStep DEF IInv, TypeOK, Sound
<1>3. DownInv' /\ LaunchedInv' /\ StopInv' /\ IndexInv'
  BY <1>1 DEF Sound, DownInv, LaunchedInv, StopInv, IndexInv, At
<1>4. ReportedDown'
  BY <1>1 DEF Sound, ReportedDown, Tasks
<1>5. TeardownReleases'
  BY <1>1 DEF Sound, TeardownReleases, At, Tasks
<1> QED BY <1>2, <1>3, <1>4, <1>5 DEF IInv

\* The inductive invariant of the coordinator.
THEOREM Invariant == Spec => []IInv
  BY InvInit, InvNext, PTL DEF Spec

(***************************************************************************)
(* For any number of components, starters and stoppers: the variables keep *)
(* their types, and what a task has copied of the component list stays a   *)
(* prefix of it.                                                           *)
(***************************************************************************)
THEOREM TypeCorrect == Spec => []TypeOK
  BY Invariant, PTL DEF IInv

(***************************************************************************)
(* A runtime that is Stopping, Stopped or Failed is never Ready, Running   *)
(* or Degraded again, whatever calls race.                                 *)
(***************************************************************************)
THEOREM DownIsFinal == Spec => NeverRevived
<1>1. IInv /\ [Next]_vars => [(state \in Down) => (state' \in Down)]_vars
  BY StateStep DEF IInv
<1> QED BY <1>1, Invariant, PTL DEF NeverRevived, Spec

(***************************************************************************)
(* The results of shutdown() and of a failed initialize() or start() can   *)
(* be relied upon.                                                         *)
(***************************************************************************)
THEOREM ReportsHold == Spec => []ReportedDown
  BY Invariant, PTL DEF IInv

(***************************************************************************)
(* A teardown that began on a runtime already down leaves no component     *)
(* started behind the point it has reached.                                *)
(***************************************************************************)
THEOREM TeardownIsComplete == Spec => []TeardownReleases
  BY Invariant, PTL DEF IInv
-----------------------------------------------------------------------------
(***************************************************************************)
(* The REST service, for any number of requests and any routes.            *)
(***************************************************************************)
\* A deep check reads once, a handler about to read still has to, and a closure outlives no
\* answer.
CallInv ==
    \A r \in Requests :
        /\ pc[r] = "handler" => kind[r] = "deep"
        /\ pc[r] \in {"handler", "call"} => reads[r] > 0
        /\ kind[r] = "deep" => reads[r] <= 1 /\ (pc[r] = "waiting" => reads[r] = 0)
        /\ closure[r] # "none" => pc[r] \in {"waiting", "hung_up"}

\* The flag is set as long as a handler holds the guard, and one at most does.
FlagInv ==
    \A r \in Requests : Guarded(r) => deepLock /\ \A s \in Requests : Guarded(s) => r = s

\* A request that is new has no outcome and no answer, and no quick check finds damage in order.
VerdictInv ==
    \A r \in Requests :
        /\ pc[r] = "new" => outcome[r] = "none" /\ answer[r] = None
        /\ kind[r] = "quick" /\ outcome[r] \in {"ok", "issues"} => db # "damaged"

\* What start() and stop() leave each other, as long as they do not overlap.
ServiceInv ==
    /\ server # "none" <=> starter = "started"
    /\ stopper = "idle" /\ starter = "started" => server = "serving" /\ tx
    /\ ~raced /\ stopper # "idle" => starter # "spawn" /\ server # "serving"
    /\ ~raced /\ stopper \in {"drained", "timed_out", "stopped"} => ~running
    /\ server = "ended" => InFlight = {}
    /\ stopper = "drained" => server = "ended"

ApiInv ==
    /\ ApiTypeOK /\ CallInv /\ FlagInv /\ VerdictInv /\ ServiceInv
    /\ PassIsEarned /\ NoReadAfterClose

ServiceStep ==
    Initialize \/ StartListener \/ StartServer \/ StopSend \/ StopJoin \/ StopWait \/ StopFlag
    \/ ServerEnds

\* A route answers with a status, and a check passes only what its probe did not fail on.
LEMMA Answering ==
    ASSUME NEW k \in Kinds, NEW o
    PROVE  /\ NoStorage(k) \in Answers /\ NoStorage(k) # Pass
           /\ Answered(k, o) \in Answers
           /\ Answered(k, o) = Pass => o \in {"ok", "issues"}
           /\ None # Pass /\ \A c : Error(c) # Pass
  <1>1. /\ {None, Ok, Pass, Alarm} \subseteq Answers
        /\ \A c \in {400, 404, 409, 500, 503} : Error(c) \in Answers
    BY DEF Answers
  <1>2. Pass # Ok /\ Pass # None /\ \A c : Pass # Error(c)
    <2>1. "passed" \in DOMAIN Pass
      BY DEF Pass
    <2>2. "passed" \notin DOMAIN Ok /\ "passed" \notin DOMAIN None /\ \A c : "passed" \notin DOMAIN Error(c)
      BY DEF Ok, None, Error
    <2> QED
      BY <2>1, <2>2
  <1>3. Alarm # Pass
    <2>1. Pass.passed /\ ~Alarm.passed
      BY DEF Pass, Alarm
    <2> QED
      BY <2>1
  <1>4. NoStorage(k) = Ok \/ NoStorage(k) = Error(503) \/ NoStorage(k) = Error(404)
    BY DEF NoStorage
  <1>5. \/ Answered(k, o) = CheckVerdict(k, o) \/ Answered(k, o) = Ok
        \/ Answered(k, o) = Error(503) \/ Answered(k, o) = Error(500)
    BY DEF Answered
  <1> QED
    BY <1>1, <1>2, <1>3, <1>4, <1>5 DEF CheckVerdict

\* No request has come and no closure runs.
LEMMA ApiInitially == ApiInit => ApiInv
  <1> SUFFICES ASSUME ApiInit PROVE ApiInv
    OBVIOUS
  <1> USE DEF ApiInit
  <1>1. ApiTypeOK
    <2>1. None \in Answers
      BY DEF Answers
    <2>2. reader \in BOOLEAN /\ storage \in BOOLEAN
      BY Zenon
    <2>3. engine \in {"Uninitialized", "Ready", "Degraded", "Failed", "Stopped"} /\ db \in {"ok", "subtle", "damaged"}
      OBVIOUS
    <2>4. pc \in [Requests -> {"new"}] /\ kind \in [Requests -> {"peek"}] /\ reads \in [Requests -> {0}]
      OBVIOUS
    <2>5. /\ closure \in [Requests -> {"none"}] /\ outcome \in [Requests -> {"none"}]
          /\ answer \in [Requests -> Answers]
      BY <2>1
    <2>6. \A x \in {listener, tx, handle, running, raced, deepLock} : x \in BOOLEAN
      OBVIOUS
    <2>7. server = "none" /\ starter = "new" /\ stopper = "idle" /\ closer = "idle"
      OBVIOUS
    <2> HIDE DEF ApiInit
    <2> QED
      BY <2>2, <2>3, <2>4, <2>5, <2>6, <2>7 DEF ApiTypeOK, Kinds
  <1>2. CallInv /\ FlagInv /\ VerdictInv /\ ServiceInv
    BY DEF CallInv, FlagInv, Guarded, VerdictInv, ServiceInv
  <1>4. PassIsEarned /\ NoReadAfterClose
    BY DEF PassIsEarned, NoReadAfterClose
  <1> QED
    BY <1>1, <1>2, <1>4 DEF ApiInv

\* Every variable keeps its type.
LEMMA ApiTypeNext ==
    ASSUME ApiTypeOK, CallInv, [ApiNext]_apiVars
    PROVE  ApiTypeOK'
  <1> USE DEF ApiTypeOK, handlers, store, service
  <1>1. CASE ServiceStep
    <2> USE DEF Initialize, StartListener, StartServer, StopSend, StopJoin, StopWait, StopFlag, ServerEnds
    <2>1. raced' \in BOOLEAN
      BY <1>1, Zenon DEF ServiceStep
    <2>2. UNCHANGED <<store, handlers>>
      BY <1>1 DEF ServiceStep
    <2>3. /\ listener' \in BOOLEAN /\ tx' \in BOOLEAN /\ handle' \in BOOLEAN /\ running' \in BOOLEAN
          /\ server' \in {"none", "serving", "draining", "ended"}
          /\ starter' \in {"new", "initialized", "spawn", "started", "failed"}
          /\ stopper' \in {"idle", "join", "wait", "flag", "drained", "timed_out", "stopped"}
      <3>1. CASE Initialize
        BY <3>1
      <3>2. CASE StartListener
        BY <3>2
      <3>3. CASE StartServer
        BY <3>3
      <3>4. CASE StopSend
        BY <3>4
      <3>5. CASE StopJoin
        BY <3>5
      <3>6. CASE StopWait
        BY <3>6
      <3>7. CASE StopFlag
        BY <3>7
      <3>8. CASE ServerEnds
        BY <3>8
      <3> QED
        BY <1>1, <3>1, <3>2, <3>3, <3>4, <3>5, <3>6, <3>7, <3>8 DEF ServiceStep
    <2> QED
      BY <2>1, <2>2, <2>3
  <1>2. ASSUME NEW r \in Requests, Arrive(r) PROVE ApiTypeOK'
    <2>1. PICK k \in Offers[r] :
              /\ kind' = [kind EXCEPT ![r] = k]
              /\ reads' = [reads EXCEPT ![r] = Reads(k)]
              /\ pc'[r] \in {"handler", "call", "answered"} /\ pc' = [pc EXCEPT ![r] = pc'[r]]
              /\ \/ answer' = answer
                 \/ answer' = [answer EXCEPT ![r] = NoStorage(k)]
                 \/ answer' = [answer EXCEPT ![r] = Error(400)]
      BY <1>2 DEF Arrive
    <2>2. k \in Kinds
      BY OffersAssumption
    <2>3. Reads(k) \in 0..2 /\ NoStorage(k) \in Answers /\ Error(400) \in Answers
      BY <2>2, Answering DEF Reads, Answers
    <2>4. UNCHANGED <<deepLock, closure, outcome, service, store>>
      BY <1>2 DEF Arrive
    <2> QED
      BY <2>1, <2>2, <2>3, <2>4
  <1>3. ASSUME NEW r \in Requests, TakeDeepLock(r) PROVE ApiTypeOK'
    <2>1. Error(409) \in Answers
      BY DEF Answers
    <2> QED
      BY <1>3, <2>1 DEF TakeDeepLock
  <1>4. ASSUME NEW r \in Requests, ReadCall(r) PROVE ApiTypeOK'
    <2>1. reads[r] > 0
      BY <1>4 DEF ReadCall, CallInv
    <2> QED
      BY <1>4, <2>1 DEF ReadCall
  <1>5. ASSUME NEW r \in Requests, Answer(r) PROVE ApiTypeOK'
    <2>1. \A o : Answered(kind[r], o) \in Answers
      BY Answering
    <2> QED
      BY <1>5, <2>1 DEF Answer
  <1>6. ASSUME NEW r \in Requests, ReaderLock(r) PROVE ApiTypeOK'
    BY <1>6 DEF ReaderLock
  <1>7. ASSUME NEW r \in Requests, ReadDone(r) PROVE ApiTypeOK'
    <2>1. Found(kind[r]) \subseteq {"ok", "issues", "error"}
      BY DEF Found
    <2> QED
      BY <1>7, <2>1 DEF ReadDone
  <1>8. ASSUME NEW r \in Requests, HangUp(r) PROVE ApiTypeOK'
    BY <1>8 DEF HangUp
  <1>9. CASE CloseBegin \/ CloseReader \/ UNCHANGED apiVars
    <2>1. CASE CloseBegin
      BY <2>1 DEF CloseBegin
    <2>2. CASE CloseReader
      <3>1. reader' \in BOOLEAN /\ engine' = "Stopped" /\ closer' = "closed"
        BY <2>2 DEF CloseReader
      <3>2. UNCHANGED <<storage, db>> /\ UNCHANGED service /\ UNCHANGED handlers
        BY <2>2 DEF CloseReader
      <3> QED
        BY <3>1, <3>2
    <2>3. CASE UNCHANGED apiVars
      BY <2>3 DEF apiVars
    <2> QED
      BY <1>9, <2>1, <2>2, <2>3
  <1> QED
    BY <1>1, <1>2, <1>3, <1>4, <1>5, <1>6, <1>7, <1>8, <1>9
    DEF ApiNext, ServiceStep, HandlerStep, ClosureStep

\* The service and the closing of the engine leave the handlers alone, and the other way round.
LEMMA ApiStep ==
    ASSUME [ApiNext]_apiVars
    PROVE  \/ UNCHANGED apiVars
           \/ ServiceStep /\ UNCHANGED store /\ UNCHANGED handlers
           \/ (CloseBegin \/ CloseReader) /\ UNCHANGED service /\ UNCHANGED handlers
           \/ /\ UNCHANGED service /\ UNCHANGED store
              /\ \E r \in Requests : \/ Arrive(r) \/ TakeDeepLock(r) \/ ReadCall(r) \/ Answer(r)
                                    \/ ReaderLock(r) \/ ReadDone(r) \/ HangUp(r)
  <1>1. CASE ServiceStep
    BY <1>1 DEF ServiceStep, Initialize, StartListener, StartServer, StopSend, StopJoin, StopWait,
       StopFlag, ServerEnds
  <1>2. CASE CloseBegin \/ CloseReader
    BY <1>2 DEF CloseBegin, CloseReader
  <1>3. CASE \E r \in Requests : Arrive(r) \/ HandlerStep(r) \/ ClosureStep(r) \/ HangUp(r)
    BY <1>3 DEF Arrive, HandlerStep, TakeDeepLock, ReadCall, Answer, ClosureStep, ReaderLock, ReadDone,
       HangUp
  <1> QED
    BY <1>1, <1>2, <1>3 DEF ApiNext, ServiceStep

\* Each step keeps a request and its closure together.
LEMMA CallNext ==
    ASSUME ApiTypeOK, CallInv, [ApiNext]_apiVars
    PROVE  CallInv'
  <1> USE DEF ApiTypeOK, CallInv
  <1>1. CASE UNCHANGED handlers
    BY <1>1 DEF handlers
  <1>2. ASSUME NEW r \in Requests, Arrive(r) PROVE CallInv'
    <2>1. PICK k \in Offers[r] :
              /\ kind' = [kind EXCEPT ![r] = k]
              /\ reads' = [reads EXCEPT ![r] = Reads(k)]
              /\ \/ k # "peek" /\ pc' = [pc EXCEPT ![r] = IF k = "deep" THEN "handler" ELSE "call"]
                 \/ pc' = [pc EXCEPT ![r] = "answered"]
              /\ pc[r] = "new"
              /\ UNCHANGED closure
      BY <1>2 DEF Arrive
    <2>2. k \in Kinds
      BY OffersAssumption
    <2>3. /\ Reads(k) \in 0..2 /\ (k # "peek" => Reads(k) > 0)
          /\ k = "deep" => Reads(k) = 1
      BY <2>2 DEF Reads
    <2> QED
      BY <2>1, <2>2, <2>3
  <1>3. ASSUME NEW r \in Requests, TakeDeepLock(r) PROVE CallInv'
    BY <1>3 DEF TakeDeepLock
  <1>4. ASSUME NEW r \in Requests, ReadCall(r) PROVE CallInv'
    BY <1>4 DEF ReadCall
  <1>5. ASSUME NEW r \in Requests, Answer(r) PROVE CallInv'
    BY <1>5 DEF Answer
  <1>6. ASSUME NEW r \in Requests, ReaderLock(r) PROVE CallInv'
    BY <1>6 DEF ReaderLock
  <1>7. ASSUME NEW r \in Requests, ReadDone(r) PROVE CallInv'
    BY <1>7 DEF ReadDone
  <1>8. ASSUME NEW r \in Requests, HangUp(r) PROVE CallInv'
    BY <1>8 DEF HangUp
  <1> QED
    BY <1>1, <1>2, <1>3, <1>4, <1>5, <1>6, <1>7, <1>8, ApiStep DEF apiVars

\* The guard is given up with the flag, and the flag by no one else.
LEMMA FlagNext ==
    ASSUME ApiTypeOK, CallInv, FlagInv, [ApiNext]_apiVars
    PROVE  FlagInv'
  <1> USE DEF ApiTypeOK, FlagInv, Guarded
  <1>1. CASE UNCHANGED handlers
    BY <1>1 DEF handlers
  <1>2. ASSUME NEW r \in Requests, Arrive(r) PROVE FlagInv'
    <2>1. PICK k \in Offers[r] :
              /\ kind' = [kind EXCEPT ![r] = k]
              /\ \/ pc' = [pc EXCEPT ![r] = IF k = "deep" THEN "handler" ELSE "call"]
                 \/ pc' = [pc EXCEPT ![r] = "answered"]
              /\ UNCHANGED deepLock
      BY <1>2 DEF Arrive
    <2> QED
      BY <2>1
  <1>3. ASSUME NEW r \in Requests, TakeDeepLock(r) PROVE FlagInv'
    BY <1>3 DEF TakeDeepLock
  <1>4. ASSUME NEW r \in Requests, ReadCall(r) PROVE FlagInv'
    BY <1>4 DEF ReadCall
  <1>5. ASSUME NEW r \in Requests, Answer(r) PROVE FlagInv'
    <2>1. ASSUME kind[r] = "deep" PROVE pc' = [pc EXCEPT ![r] = "answered"]
      <3>1. pc[r] = "waiting"
        BY <1>5 DEF Answer
      <3>2. ~(reads[r] > 0)
        BY <2>1, <3>1 DEF CallInv
      <3> QED
        BY <1>5, <3>2 DEF Answer
    <2>2. kind' = kind /\ (deepLock /\ ~Guarded(r) => deepLock') /\ pc[r] = "waiting"
      BY <1>5 DEF Answer
    <2>3. pc' = [pc EXCEPT ![r] = "call"] \/ pc' = [pc EXCEPT ![r] = "answered"]
      BY <1>5 DEF Answer
    <2> QED
      BY <2>1, <2>2, <2>3
  <1>6. ASSUME NEW r \in Requests, ReaderLock(r) \/ ReadDone(r) PROVE FlagInv'
    BY <1>6 DEF ReaderLock, ReadDone
  <1>7. ASSUME NEW r \in Requests, HangUp(r) PROVE FlagInv'
    BY <1>7 DEF HangUp
  <1> QED
    BY <1>1, <1>2, <1>3, <1>4, <1>5, <1>6, <1>7, ApiStep DEF apiVars

\* The file does not change, nor the route of a request that has come.
LEMMA VerdictNext ==
    ASSUME ApiTypeOK, CallInv, VerdictInv, [ApiNext]_apiVars
    PROVE  VerdictInv'
  <1> USE DEF ApiTypeOK, VerdictInv
  <1>1. CASE UNCHANGED store /\ UNCHANGED handlers
    BY <1>1 DEF handlers, store
  <1>2. CASE (CloseBegin \/ CloseReader) /\ UNCHANGED handlers
    BY <1>2 DEF CloseBegin, CloseReader, handlers
  <1>3. ASSUME NEW r \in Requests, UNCHANGED store, Arrive(r) PROVE VerdictInv'
    <2>1. /\ pc[r] = "new" /\ pc'[r] # "new" /\ pc' = [pc EXCEPT ![r] = pc'[r]]
          /\ outcome' = outcome
          /\ \A s \in Requests : s # r => kind'[s] = kind[s] /\ answer'[s] = answer[s]
      BY <1>3 DEF Arrive
    <2> QED
      BY <1>3, <2>1 DEF store
  <1>4. ASSUME NEW r \in Requests, UNCHANGED store, TakeDeepLock(r) PROVE VerdictInv'
    BY <1>4 DEF TakeDeepLock, store
  <1>5. ASSUME NEW r \in Requests, UNCHANGED store, ReadCall(r) PROVE VerdictInv'
    BY <1>5 DEF ReadCall, store
  <1>6. ASSUME NEW r \in Requests, UNCHANGED store, Answer(r) PROVE VerdictInv'
    <2>1. /\ outcome' = [outcome EXCEPT ![r] = "none"] /\ kind' = kind
          /\ pc[r] = "waiting" /\ pc'[r] # "new" /\ pc' = [pc EXCEPT ![r] = pc'[r]]
          /\ \A s \in Requests : s # r => answer'[s] = answer[s]
      BY <1>6 DEF Answer
    <2> QED
      BY <1>6, <2>1 DEF store
  <1>7. ASSUME NEW r \in Requests, UNCHANGED store, ReaderLock(r) PROVE VerdictInv'
    BY <1>7 DEF ReaderLock, CallInv, store
  <1>8. ASSUME NEW r \in Requests, UNCHANGED store, ReadDone(r) PROVE VerdictInv'
    <2>1. PICK o \in Found(kind[r]) : outcome' = [outcome EXCEPT ![r] = o]
      BY <1>8 DEF ReadDone
    <2>2. kind[r] = "quick" /\ o \in {"ok", "issues"} => db # "damaged"
      BY <2>1 DEF Found
    <2>3. pc[r] # "new" /\ UNCHANGED <<pc, kind, answer>>
      BY <1>8 DEF ReadDone, CallInv
    <2> QED
      BY <1>8, <2>1, <2>2, <2>3 DEF store
  <1>9. ASSUME NEW r \in Requests, UNCHANGED store, HangUp(r) PROVE VerdictInv'
    BY <1>9 DEF HangUp, store
  <1> QED
    BY <1>1, <1>2, <1>3, <1>4, <1>5, <1>6, <1>7, <1>8, <1>9, ApiStep DEF apiVars

\* A quick check is answered passed:true by a handler whose closure found the file in order.
LEMMA PassNext ==
    ASSUME ApiTypeOK, CallInv, VerdictInv, PassIsEarned, [ApiNext]_apiVars
    PROVE  PassIsEarned'
  <1> USE DEF ApiTypeOK, PassIsEarned
  <1>1. CASE UNCHANGED store /\ UNCHANGED answer /\ UNCHANGED kind
    BY <1>1 DEF store
  <1>2. CASE (CloseBegin \/ CloseReader) /\ UNCHANGED handlers
    BY <1>2 DEF CloseBegin, CloseReader, handlers
  <1>3. ASSUME NEW r \in Requests, UNCHANGED store, Arrive(r) PROVE PassIsEarned'
    <2>1. PICK k \in Offers[r] :
              \/ answer' = answer
              \/ answer' = [answer EXCEPT ![r] = NoStorage(k)]
              \/ answer' = [answer EXCEPT ![r] = Error(400)]
      BY <1>3 DEF Arrive
    <2>2. k \in Kinds /\ NoStorage(k) # Pass /\ Error(400) # Pass /\ None # Pass
      BY OffersAssumption, Answering
    <2>3. answer[r] = None
      BY <1>3 DEF Arrive, VerdictInv
    <2>4. answer'[r] # Pass /\ \A s \in Requests : s # r => answer'[s] = answer[s]
      BY <2>1, <2>2, <2>3
    <2>5. \A s \in Requests : s # r => kind'[s] = kind[s]
      BY <1>3 DEF Arrive
    <2> QED
      BY <1>3, <2>4, <2>5 DEF store
  <1>4. ASSUME NEW r \in Requests, UNCHANGED store, TakeDeepLock(r) PROVE PassIsEarned'
    <2>1. kind' = kind /\ kind[r] = "deep"
      BY <1>4 DEF TakeDeepLock, CallInv
    <2>2. \A s \in Requests : s # r => answer'[s] = answer[s]
      BY <1>4 DEF TakeDeepLock
    <2> QED
      BY <1>4, <2>1, <2>2 DEF store
  <1>5. ASSUME NEW r \in Requests, UNCHANGED store, Answer(r) PROVE PassIsEarned'
    <2>1. kind' = kind /\ \A s \in Requests : s # r => answer'[s] = answer[s]
      BY <1>5 DEF Answer
    <2>2. ASSUME kind[r] = "quick", answer'[r] = Pass PROVE db # "damaged"
      <3>1. answer'[r] = answer[r] \/ answer'[r] = Answered(kind[r], outcome[r])
        BY <1>5, <2>2 DEF Answer
      <3>2. answer'[r] # answer[r] => outcome[r] \in {"ok", "issues"}
        BY <2>2, <3>1, Answering
      <3> QED
        BY <2>2, <3>2 DEF VerdictInv
    <2> QED
      BY <1>5, <2>1, <2>2 DEF store
  <1>6. ASSUME NEW r \in Requests, ReadCall(r) \/ ReaderLock(r) \/ ReadDone(r) \/ HangUp(r)
        PROVE  UNCHANGED answer /\ UNCHANGED kind
    BY <1>6 DEF ReadCall, ReaderLock, ReadDone, HangUp
  <1>7. UNCHANGED handlers => UNCHANGED answer /\ UNCHANGED kind
    BY DEF handlers
  <1> QED
    BY <1>1, <1>2, <1>3, <1>4, <1>5, <1>6, <1>7, ApiStep DEF apiVars

\* The reader is closed when nobody holds it.
LEMMA CloseNext ==
    ASSUME ApiTypeOK, NoReadAfterClose, [ApiNext]_apiVars
    PROVE  NoReadAfterClose'
  <1> USE DEF ApiTypeOK, NoReadAfterClose, ReaderHeld
  <1>1. CASE UNCHANGED store /\ UNCHANGED handlers
    BY <1>1 DEF store, handlers
  <1>2. CASE (CloseBegin \/ CloseReader) /\ UNCHANGED handlers
    BY <1>2 DEF CloseBegin, CloseReader, handlers
  <1>3. ASSUME NEW r \in Requests, UNCHANGED store,
               Arrive(r) \/ TakeDeepLock(r) \/ HangUp(r)
        PROVE  NoReadAfterClose'
    BY <1>3 DEF Arrive, TakeDeepLock, HangUp, store
  <1>4. ASSUME NEW r \in Requests, UNCHANGED store, ReadCall(r) PROVE NoReadAfterClose'
    BY <1>4 DEF ReadCall, store
  <1>5. ASSUME NEW r \in Requests, UNCHANGED store, Answer(r) PROVE NoReadAfterClose'
    <2>1. closure' = [closure EXCEPT ![r] = "none"]
      BY <1>5 DEF Answer
    <2> QED
      BY <1>5, <2>1 DEF store
  <1>6. ASSUME NEW r \in Requests, UNCHANGED store, ReaderLock(r) PROVE NoReadAfterClose'
    BY <1>6 DEF ReaderLock, store
  <1>7. ASSUME NEW r \in Requests, UNCHANGED store, ReadDone(r) PROVE NoReadAfterClose'
    BY <1>7 DEF ReadDone, store
  <1> QED
    BY <1>1, <1>2, <1>3, <1>4, <1>5, <1>6, <1>7, ApiStep DEF apiVars

\* A request comes in only while the server serves, so none is left where it has ended.
LEMMA ServiceNext ==
    ASSUME ApiTypeOK, ServiceInv, [ApiNext]_apiVars
    PROVE  ServiceInv'
  <1> USE DEF ApiTypeOK, ServiceInv
  <1>1. CASE UNCHANGED service /\ UNCHANGED handlers
    BY <1>1 DEF service, handlers, InFlight
  <1>2. CASE ServiceStep /\ UNCHANGED handlers
    <2>1. InFlight' = InFlight
      BY <1>2 DEF handlers, InFlight
    <2>2. CASE Initialize
      BY <2>1, <2>2 DEF Initialize
    <2>3. CASE StartListener
      BY <2>1, <2>3 DEF StartListener
    <2>4. CASE StartServer
      BY <2>1, <2>4 DEF StartServer
    <2>5. CASE StopSend
      BY <2>1, <2>5 DEF StopSend
    <2>6. CASE StopJoin
      BY <2>1, <2>6 DEF StopJoin
    <2>7. CASE StopWait
      BY <2>1, <2>7 DEF StopWait
    <2>8. CASE StopFlag
      BY <2>1, <2>8 DEF StopFlag
    <2>9. CASE ServerEnds
      BY <2>1, <2>9 DEF ServerEnds
    <2> QED
      BY <1>2, <2>2, <2>3, <2>4, <2>5, <2>6, <2>7, <2>8, <2>9 DEF ServiceStep
  <1>3. ASSUME NEW r \in Requests, UNCHANGED service,
               \/ Arrive(r) \/ TakeDeepLock(r) \/ ReadCall(r) \/ Answer(r)
               \/ ReaderLock(r) \/ ReadDone(r) \/ HangUp(r)
        PROVE  ServiceInv'
    <2>1. server = "serving" \/ InFlight' \subseteq InFlight
      BY <1>3 DEF InFlight, Arrive, TakeDeepLock, ReadCall, Answer, ReaderLock, ReadDone, HangUp
    <2> QED
      BY <1>3, <2>1 DEF service
  <1> QED
    BY <1>1, <1>2, <1>3, ApiStep DEF apiVars

\* The inductive invariant of the REST service: requests, closures, flag and reader agree.
THEOREM ApiInvariant == ApiSpec => []ApiInv
  <1>1. ApiInv /\ [ApiNext]_apiVars => ApiInv'
    BY ApiTypeNext, CallNext, FlagNext, VerdictNext, ServiceNext, PassNext, CloseNext DEF ApiInv
  <1> QED
    BY <1>1, ApiInitially, PTL DEF ApiSpec

(***************************************************************************)
(* The variables of the service keep their types.                          *)
(***************************************************************************)
THEOREM ApiTypeCorrect == ApiSpec => []ApiTypeOK
  <1>1. ApiInv => ApiTypeOK
    BY DEF ApiInv
  <1> QED
    BY <1>1, ApiInvariant, PTL

(***************************************************************************)
(* However many clients ask for a deep check, and wherever they hang up,   *)
(* two of them are on the blocking pool only if the client of one is gone. *)
(***************************************************************************)
THEOREM DeepChecksAreSingle == ApiSpec => []SingleFlight
  <1>1. ApiInv => SingleFlight
    BY DEF ApiInv, CallInv, FlagInv, Guarded, SingleFlight, DeepPending
  <1> QED
    BY <1>1, ApiInvariant, PTL

(***************************************************************************)
(* However often the engine stops under a check and whatever SQLite        *)
(* returns, a quick check is answered passed:true only on a file without   *)
(* damage that quick_check sees.                                           *)
(***************************************************************************)
THEOREM PassesAreEarned == ApiSpec => []PassIsEarned
  BY ApiInvariant, PTL DEF ApiInv

(***************************************************************************)
(* Once the engine has closed its reader no closure is inside SQLite.      *)
(***************************************************************************)
THEOREM ReaderStaysClosed == ApiSpec => []NoReadAfterClose
  BY ApiInvariant, PTL DEF ApiInv

(***************************************************************************)
(* A stop() that no start() overlapped has ended the service, and one that *)
(* did not run into its timeout leaves no request unanswered.              *)
(***************************************************************************)
THEOREM StopIsQuiet == ApiSpec => []StoppedIsQuiet
  <1>1. ApiInv => StoppedIsQuiet
    BY DEF ApiInv, ServiceInv, StoppedIsQuiet
  <1> QED
    BY <1>1, ApiInvariant, PTL
=============================================================================

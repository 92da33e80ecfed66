-------------------------- MODULE RuntimeLifecycle --------------------------
(***************************************************************************)
(* The runtime coordinator of netra-core (runtime/coordinator.rs) and the  *)
(* state table it obeys (runtime/state.rs).  One RuntimeCoordinator is     *)
(* shared by tokio tasks.  A starter registers components and calls        *)
(* initialize() and start(), as main.rs does; a stopper calls              *)
(* trigger_shutdown(), shutdown() or wait_for_shutdown() at any time.      *)
(*                                                                         *)
(* A step is what a task does while it holds one of the coordinator's      *)
(* locks, or one call into a component.  A state change and the broadcast  *)
(* that directly follows it are one step: only a receiver subscribed in    *)
(* between could tell, and to it the broadcast comes either way.           *)
(***************************************************************************)
EXTENDS Naturals, Sequences, SequencesExt

CONSTANTS
    Comps,      \* the components a starter may register
    Critical,   \* those whose is_critical() is true
    Blocking,   \* those whose stop() may block its thread, as DatabaseEngine's does
    Starters,   \* tasks that register, initialize and start
    Stoppers,   \* tasks that trigger, wait for or run the shutdown
    MaxCalls    \* bound: how many coordinator calls each task makes

ASSUME ConstantsAssumption ==
    /\ Comps # {}
    /\ Critical \cup Blocking \subseteq Comps
    /\ Starters \cap Stoppers = {}
    /\ MaxCalls \in [Starters \cup Stoppers -> Nat]

Tasks == Starters \cup Stoppers

VARIABLES
    state,       \* RuntimeCoordinator.state
    components,  \* RuntimeCoordinator.components, in registration order
    comp,        \* what the last lifecycle call did to each component
    task         \* each task's position in the call it is making

vars == <<state, components, comp, task>>

States == {"Created", "Initializing", "Ready", "Running", "Degraded",
           "Stopping", "Stopped", "Failed"}

Operational == {"Running", "Degraded"}          \* RuntimeState::is_operational

\* The states a shutdown leads to and that nothing leads out of.
Down == {"Stopping", "Stopped", "Failed"}

\* "late" is a component whose start() completed when the runtime was already down;
\* "failed" one whose initialize() or start() returned an error.
CompStatus == {"new", "initialized", "started", "late", "failed", "stopped"}

PCs == {"idle", "push", "init_load", "init", "init_fail",
        "run", "start_load", "start", "start_fail",
        "trigger", "trigger_go", "enter", "load", "stop", "blocked", "wait"}

\* In the loop of shutdown(): between two components, or in a stop() that holds its thread.
Teardown == {"stop", "blocked"}

(***************************************************************************)
(* A task's record: pc; where it goes after a trigger (then); whether its  *)
(* last unlocked read saw Failed (sawFailed); was_failed; its snapshot of  *)
(* the components (snap), the index of the one it visits next, and, for a  *)
(* shutdown, whether the runtime was down when it took the snapshot        *)
(* (wasDown); has_degraded; the component being registered (arg); whether  *)
(* its broadcast receiver holds a message (rx); the result of its last     *)
(* call, "component_failure" being the error a critical component causes;  *)
(* and how many calls it has made.                                         *)
(***************************************************************************)
TaskRecord == [pc : PCs, then : {"idle", "load", "enter"}, sawFailed : BOOLEAN,
               wasFailed : BOOLEAN, snap : Seq(Comps), next : Nat,
               wasDown : BOOLEAN, degraded : BOOLEAN, arg : Comps, rx : BOOLEAN,
               result : {"none", "ok", "err", "component_failure"},
               calls : Nat]

TypeOK ==
    /\ state \in States
    /\ components \in Seq(Comps)
    /\ comp \in [Comps -> CompStatus]
    /\ task \in [Tasks -> TaskRecord]
    /\ \A t \in Tasks : IsPrefix(task[t].snap, components)
-----------------------------------------------------------------------------
(* RuntimeState::can_transition_to *)
CanTransitionTo(s, next) ==
    \/ s = next
    \/ s = "Created"      /\ next = "Initializing"
    \/ s = "Initializing" /\ next \in {"Ready", "Failed"}
    \/ s = "Ready"        /\ next \in {"Running", "Stopping", "Failed"}
    \/ s = "Running"      /\ next \in {"Degraded", "Stopping", "Failed"}
    \/ s = "Degraded"     /\ next \in {"Running", "Stopping", "Failed"}
    \/ s = "Stopping"     /\ next \in {"Stopped", "Failed"}
    \/ s = "Failed"       /\ next \in {"Stopping", "Stopped"}

\* Mutant: the transition is stored without being validated.
TransitionTo_Unvalidated(next) == state' = next

(* transition_to: validate and store under the write lock. *)
TransitionTo(next) ==
    /\ CanTransitionTo(state, next)
    /\ state' = next

Illegal(next) == ~CanTransitionTo(state, next)

(* let _ = self.transition_to(next).await *)
TryTransition(next) ==
    state' = IF CanTransitionTo(state, next) THEN next ELSE state

\* A task between calls, with what its last call returned.
IdleTask(res, n) ==
    [pc |-> "idle", then |-> "idle", sawFailed |-> FALSE, wasFailed |-> FALSE,
     snap |-> <<>>, next |-> 0, wasDown |-> FALSE, degraded |-> FALSE,
     arg |-> CHOOSE c \in Comps : TRUE, rx |-> FALSE, result |-> res, calls |-> n]

Init ==
    /\ state = "Created"
    /\ components = <<>>
    /\ comp = [c \in Comps |-> "new"]
    /\ task = [t \in Tasks |-> IdleTask("none", 0)]

\* t begins a coordinator call: its task record becomes r, one call older.
Call(t, r) ==
    /\ task[t].pc = "idle"
    /\ task[t].calls < MaxCalls[t]
    /\ task' = [task EXCEPT ![t] = [r EXCEPT !.calls = task[t].calls + 1]]

At(t, pc) == task[t].pc = pc
Goto(t, pc) == [task EXCEPT ![t].pc = pc]
Return(t, res) == [task EXCEPT ![t] = IdleTask(res, task[t].calls)]

\* shutdown_tx.send(()): every subscribed receiver holds a message.
Broadcast(f) ==
    [u \in Tasks |-> IF f[u].pc = "wait" THEN [f[u] EXCEPT !.rx = TRUE] ELSE f[u]]
-----------------------------------------------------------------------------
(* register_component: the state is read, and the lock released, before the push.  *)
(* A starter registers a component once: the code would not refuse a second time.  *)
Register(t) ==
    \E c \in Comps :
        /\ \A i \in 1..Len(components) : components[i] # c
        /\ \A u \in Tasks : At(u, "push") => task[u].arg # c
        /\ Call(t, IF state = "Created"
                   THEN [task[t] EXCEPT !.pc = "push", !.arg = c]
                   ELSE [task[t] EXCEPT !.result = "err"])
        /\ UNCHANGED <<state, components, comp>>

RegisterPush(t) ==
    /\ At(t, "push")
    /\ components' = Append(components, task[t].arg)
    /\ task' = Return(t, "ok")
    /\ UNCHANGED <<state, comp>>
-----------------------------------------------------------------------------
(* initialize() *)
InitBegin(t) ==
    \/ /\ TransitionTo("Initializing")
       /\ Call(t, [task[t] EXCEPT !.pc = "init_load"])
       /\ UNCHANGED <<components, comp>>
    \/ /\ Illegal("Initializing")
       /\ Call(t, [task[t] EXCEPT !.result = "err"])
       /\ UNCHANGED <<state, components, comp>>

InitLoad(t) ==
    /\ At(t, "init_load")
    /\ task' = [task EXCEPT ![t] = [@ EXCEPT !.pc = "init", !.snap = components, !.next = 1]]
    /\ UNCHANGED <<state, components, comp>>

\* One comp.initialize(); a critical component's error ends the loop.
InitComponent(t) ==
    /\ At(t, "init")
    /\ task[t].next <= Len(task[t].snap)
    /\ LET c == task[t].snap[task[t].next]
           next == [task EXCEPT ![t] = [@ EXCEPT !.next = task[t].next + 1]]
       IN  \/ /\ comp' = [comp EXCEPT ![c] = "initialized"]
              /\ task' = next
           \/ /\ comp' = [comp EXCEPT ![c] = "failed"]
              /\ task' = IF c \in Critical THEN Goto(t, "init_fail") ELSE next
    /\ UNCHANGED <<state, components>>

InitFail(t) ==
    /\ At(t, "init_fail")
    /\ TryTransition("Failed")
    /\ task' = Return(t, "component_failure")
    /\ UNCHANGED <<components, comp>>

InitDone(t) ==
    /\ At(t, "init")
    /\ task[t].next > Len(task[t].snap)
    /\ \/ TransitionTo("Ready") /\ task' = Return(t, "ok")
       \/ Illegal("Ready") /\ task' = Return(t, "err") /\ UNCHANGED state
    /\ UNCHANGED <<components, comp>>
-----------------------------------------------------------------------------
(* start(): the state is read, and the lock released, before the transition. *)
StartCheck(t) ==
    /\ Call(t, IF state = "Ready" THEN [task[t] EXCEPT !.pc = "run"]
               ELSE [task[t] EXCEPT !.result = "err"])
    /\ UNCHANGED <<state, components, comp>>

StartRun(t) ==
    /\ At(t, "run")
    /\ \/ TransitionTo("Running") /\ task' = Goto(t, "start_load")
       \/ Illegal("Running") /\ task' = Return(t, "err") /\ UNCHANGED state
    /\ UNCHANGED <<components, comp>>

StartLoad(t) ==
    /\ At(t, "start_load")
    /\ task' = [task EXCEPT ![t] = [@ EXCEPT !.pc = "start", !.snap = components,
                                             !.next = 1, !.degraded = FALSE]]
    /\ UNCHANGED <<state, components, comp>>

\* One comp.start(); nothing in the loop looks at the runtime state again.
StartComponent(t) ==
    /\ At(t, "start")
    /\ task[t].next <= Len(task[t].snap)
    /\ LET c == task[t].snap[task[t].next]
           next(deg) == [task EXCEPT ![t] = [@ EXCEPT
                           !.next = task[t].next + 1, !.degraded = task[t].degraded \/ deg]]
       IN  \/ /\ comp' = [comp EXCEPT ![c] = IF state \in Down THEN "late" ELSE "started"]
              /\ task' = next(FALSE)
           \/ /\ comp' = [comp EXCEPT ![c] = "failed"]
              /\ task' = IF c \in Critical THEN Goto(t, "start_fail")
                         ELSE next(TRUE)
    /\ UNCHANGED <<state, components>>

StartFail(t) ==
    /\ At(t, "start_fail")
    /\ TryTransition("Failed")
    /\ task' = Broadcast(Return(t, "component_failure"))
    /\ UNCHANGED <<components, comp>>

StartDone(t) ==
    /\ At(t, "start")
    /\ task[t].next > Len(task[t].snap)
    /\ IF task[t].degraded THEN TryTransition("Degraded") ELSE UNCHANGED state
    /\ task' = Return(t, "ok")
    /\ UNCHANGED <<components, comp>>
-----------------------------------------------------------------------------
(* trigger_shutdown(): alone, as the first half of shutdown(), or on a signal. *)
Trigger(t) ==
    /\ Call(t, [task[t] EXCEPT !.pc = "trigger", !.then = "idle"])
    /\ UNCHANGED <<state, components, comp>>

\* What the caller does once trigger_shutdown() has returned.
AfterTrigger(t) == IF task[t].then = "idle" THEN Return(t, "none") ELSE Goto(t, task[t].then)

TriggerRead(t) ==
    /\ At(t, "trigger")
    /\ task' = IF state \in {"Stopping", "Stopped"}
               THEN AfterTrigger(t)
               ELSE [task EXCEPT ![t] = [@ EXCEPT !.pc = "trigger_go",
                                                  !.sawFailed = (state = "Failed")]]
    /\ UNCHANGED <<state, components, comp>>

\* Mutant: the broadcast is skipped when the transition is refused.
TriggerGo_OnlyIfLegal(t) ==
    /\ At(t, "trigger_go")
    /\ \/ task[t].sawFailed /\ UNCHANGED state /\ task' = Broadcast(AfterTrigger(t))
       \/ ~task[t].sawFailed /\ TransitionTo("Stopping") /\ task' = Broadcast(AfterTrigger(t))
       \/ ~task[t].sawFailed /\ Illegal("Stopping") /\ task' = AfterTrigger(t)
          /\ UNCHANGED state
    /\ UNCHANGED <<components, comp>>

TriggerGo(t) ==
    /\ At(t, "trigger_go")
    /\ IF task[t].sawFailed THEN UNCHANGED state ELSE TryTransition("Stopping")
    /\ task' = Broadcast(AfterTrigger(t))
    /\ UNCHANGED <<components, comp>>

(* shutdown() *)
\* was_failed is read first; what follows is trigger_shutdown().
EnterShutdown(r) ==
    [r EXCEPT !.pc = "trigger", !.then = "load", !.wasFailed = (state = "Failed")]

Shutdown(t) ==
    /\ Call(t, EnterShutdown(task[t]))
    /\ UNCHANGED <<state, components, comp>>

ShutdownLoad(t) ==
    /\ At(t, "load")
    /\ task' = [task EXCEPT ![t] = [@ EXCEPT !.pc = "stop", !.snap = components,
                                 !.next = Len(components), !.wasDown = (state \in Down)]]
    /\ UNCHANGED <<state, components, comp>>

\* The component the loop is at.
Visited(t) == task[t].snap[task[t].next]

\* The loop has done with that component and goes on to the one before it.
\* "stopped" means asked to stop: an error or a timeout is logged and passed over.
PassOver(t) ==
    /\ comp' = [comp EXCEPT ![Visited(t)] = "stopped"]
    /\ task' = [task EXCEPT ![t] = [@ EXCEPT !.pc = "stop", !.next = task[t].next - 1]]
    /\ UNCHANGED <<state, components>>

\* Mutant: the index runs backwards but the components are stopped forwards.
StopComponent_Forward(t) ==
    /\ At(t, "stop")
    /\ task[t].next > 0
    /\ comp' = [comp EXCEPT ![task[t].snap[Len(task[t].snap) - task[t].next + 1]] = "stopped"]
    /\ task' = [task EXCEPT ![t] = [@ EXCEPT !.next = task[t].next - 1]]
    /\ UNCHANGED <<state, components>>

\* Mutant: no timeout around stop(), which a failed component never returns from.
StopComponent_NoTimeout(t) ==
    /\ At(t, "stop")
    /\ task[t].next > 0
    /\ comp[Visited(t)] # "failed"
    /\ PassOver(t)

\* One comp.stop() in reverse order, which returns or is given up at an await.
StopComponent(t) ==
    /\ At(t, "stop")
    /\ task[t].next > 0
    /\ PassOver(t)

\* Or it waits for a std mutex, which another thread may hold for ever: the timeout acts
\* only when the future is polled, and the poll does not come back.
StopBlocks(t) ==
    /\ At(t, "stop")
    /\ task[t].next > 0
    /\ Visited(t) \in Blocking
    /\ task' = Goto(t, "blocked")
    /\ UNCHANGED <<state, components, comp>>

StopUnblocks(t) == At(t, "blocked") /\ PassOver(t)

\* Mutant: an illegal final transition is reported as success.
ShutdownFinish_IgnoresError(t) ==
    /\ At(t, "stop")
    /\ task[t].next = 0
    /\ IF task[t].wasFailed THEN UNCHANGED state ELSE TryTransition("Stopped")
    /\ task' = Return(t, "ok")
    /\ UNCHANGED <<components, comp>>

ShutdownFinish(t) ==
    /\ At(t, "stop")
    /\ task[t].next = 0
    /\ \/ task[t].wasFailed /\ task' = Return(t, "ok") /\ UNCHANGED state
       \/ ~task[t].wasFailed /\ TransitionTo("Stopped") /\ task' = Return(t, "ok")
       \/ ~task[t].wasFailed /\ Illegal("Stopped") /\ task' = Return(t, "err")
          /\ UNCHANGED state
    /\ UNCHANGED <<components, comp>>
-----------------------------------------------------------------------------
(* wait_for_shutdown(): subscribe, then the first of a signal and a broadcast. *)
WaitBegin(t) ==
    /\ Call(t, [task[t] EXCEPT !.pc = "wait"])
    /\ UNCHANGED <<state, components, comp>>

WaitReceive(t) ==
    /\ At(t, "wait")
    /\ task[t].rx
    /\ task' = [task EXCEPT ![t] = EnterShutdown([@ EXCEPT !.rx = FALSE])]
    /\ UNCHANGED <<state, components, comp>>

\* SIGINT or SIGTERM: trigger_shutdown(), then shutdown().
WaitSignal(t) ==
    /\ At(t, "wait")
    /\ task' = [task EXCEPT ![t] = [@ EXCEPT !.pc = "trigger", !.then = "enter", !.rx = FALSE]]
    /\ UNCHANGED <<state, components, comp>>

WaitShutdown(t) ==
    /\ At(t, "enter")
    /\ task' = [task EXCEPT ![t] = EnterShutdown(@)]
    /\ UNCHANGED <<state, components, comp>>
-----------------------------------------------------------------------------
StarterStep(t) ==
    \/ Register(t)  \/ RegisterPush(t)
    \/ InitBegin(t) \/ InitLoad(t)  \/ InitComponent(t)  \/ InitFail(t)  \/ InitDone(t)
    \/ StartCheck(t) \/ StartRun(t) \/ StartLoad(t) \/ StartComponent(t)
    \/ StartFail(t) \/ StartDone(t)

\* What a stopper does inside a call, signals from outside and blocking calls aside.
TeardownStep(t) ==
    \/ TriggerRead(t) \/ TriggerGo(t) \/ WaitReceive(t) \/ WaitShutdown(t)
    \/ ShutdownLoad(t) \/ StopComponent(t) \/ ShutdownFinish(t)

StopperStep(t) ==
    \/ Trigger(t) \/ Shutdown(t) \/ WaitBegin(t) \/ WaitSignal(t)
    \/ StopBlocks(t) \/ StopUnblocks(t)
    \/ TeardownStep(t)

Next ==
    \/ \E t \in Starters : StarterStep(t)
    \/ \E t \in Stoppers : StopperStep(t)

Spec == Init /\ [][Next]_vars

(***************************************************************************)
(* Tokio polls a task that is ready as long as no stop() blocks a thread   *)
(* it runs tasks on, the locks are held for one statement, and a stop()    *)
(* that waits at an await is given up after the timeout: so a stopper      *)
(* inside a call goes on.  Nothing is assumed while some stop() holds its  *)
(* thread, nor that it ever lets go.  Nothing is assumed of the starters:  *)
(* initialize() and start() of a component have no timeout.  Signals and   *)
(* new calls need never come.                                              *)
(***************************************************************************)
Unblocked == \A t \in Stoppers : ~At(t, "blocked")

FairSpec == Spec /\ \A t \in Stoppers : WF_vars(Unblocked /\ TeardownStep(t))
-----------------------------------------------------------------------------
(***************************************************************************)
(* Once the runtime is Stopping, Stopped or Failed it never becomes Ready, *)
(* Running or Degraded again, although start() decides on a state it read  *)
(* before a concurrent shutdown changed it (coordinator.rs:140-148).       *)
(***************************************************************************)
NeverRevived == [][(state \in Down) => (state' \in Down)]_vars

(***************************************************************************)
(* A caller told that its shutdown() succeeded, or that a critical         *)
(* component failed, can rely on the runtime not being operational, now or *)
(* later, whatever the other tasks were doing (coordinator.rs:120, 167,    *)
(* 259-262).                                                               *)
(***************************************************************************)
ReportedDown ==
    /\ \A t \in Stoppers : task[t].result = "ok" => state \in Down
    /\ \A t \in Starters : task[t].result = "component_failure" => state \in Down

(***************************************************************************)
(* shutdown() that took its snapshot once the runtime was down has no      *)
(* started component behind the point it has reached in reverse order:     *)
(* only a start() that completes after the runtime went down ("late") can  *)
(* leave one running.                                                      *)
(***************************************************************************)
TeardownReleases ==
    \A t \in Stoppers :
        task[t].pc \in Teardown /\ task[t].wasDown =>
            \A i \in task[t].next + 1 .. Len(task[t].snap) :
                comp[task[t].snap[i]] # "started"

(***************************************************************************)
(* Every shutdown that has begun returns, whichever components fail in     *)
(* stop() or exceed its timeout at an await (coordinator.rs:240-257),      *)
(* unless a stop() blocks its thread for ever: the timeout does not reach  *)
(* the std mutexes DatabaseEngine::stop() waits for (engine.rs:379-380).   *)
(***************************************************************************)
ShutdownReturns ==
    []<>Unblocked => \A t \in Stoppers : At(t, "trigger") ~> At(t, "idle")

(***************************************************************************)
(* A task inside wait_for_shutdown() when another task is about to         *)
(* broadcast leaves the wait (coordinator.rs:228, 304), unless a stop()    *)
(* blocks for ever a thread it may need.                                   *)
(***************************************************************************)
WaiterWoken ==
    []<>Unblocked =>
        \A t, u \in Stoppers : At(t, "wait") /\ At(u, "trigger_go") ~> ~At(t, "wait")

=============================================================================

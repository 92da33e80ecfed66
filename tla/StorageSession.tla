--------------------------- MODULE StorageSession ---------------------------
(***************************************************************************)
(* Netra processes that share one storage directory: the session markers   *)
(* (storage/marker.rs), the engine that opens, verifies, migrates and      *)
(* closes the database (storage/engine.rs, storage/migrations), quarantine *)
(* (storage/recovery.rs), and the `netra storage recover` command.  A      *)
(* process runs main.rs: it acquires the session, opens the database,      *)
(* dispatches a command and tears down; an error during initialization     *)
(* ends it without a teardown.                                             *)
(*                                                                         *)
(* A step is one file-system operation, or what a thread does while it     *)
(* holds the writer's mutex.  Removing a file may fail, and the code goes  *)
(* on as if it had not.  SQLite is external: a crash with the file open    *)
(* may or may not damage it, and quick_check sees the damage.              *)
(***************************************************************************)
EXTENDS Naturals, FiniteSets

CONSTANTS
    Procs,       \* processes; a process is its PID, which a restart reuses
    Migrations,  \* how many migrations the build knows
    None,        \* no marker file
    Torn,        \* a marker file that does not parse
    MaxStarts,   \* bound: how often each process is started
    MaxCrashes,  \* bound: how many processes die without a teardown, in all
    MaxFaults    \* bound: how many removals of a file fail, in all

ASSUME ConstantsAssumption ==
    /\ None \notin Procs /\ Torn \notin Procs /\ None # Torn
    /\ Migrations \in Nat
    /\ MaxStarts \in [Procs -> Nat]
    /\ MaxCrashes \in Nat /\ MaxFaults \in Nat

VARIABLES
    active,   \* .runtime_active: the PID it names
    clean,    \* .clean_shutdown exists
    tmp,      \* .clean_shutdown.tmp exists
    db,       \* the database file
    ledger,   \* how many migrations its table _netra_migrations lists
    tables,   \* of how many it has the tables
    pc,       \* where each process is
    seen,     \* the PID each process read from .runtime_active, until it has no more use for it
    unclean,  \* is_unclean_restart, likewise
    engine,   \* StorageState
    conn,     \* the process's connection: to the file in place, or to one moved away
    client,   \* a with_writer call: not yet queued, waiting for the mutex, or in it
    ckpt,     \* the checkpoint closure that stop() spawns, in the same way
    starts, crashes, faults,
    raced,    \* two processes have been between inspecting and registering at once
    misled    \* the disk has told a session less than it had done: see Misleads

file == <<db, ledger, tables>>
disk == <<active, clean, tmp, file>>
inner == <<engine, conn, client, ckpt>>
flags == <<raced, misled>>
counters == <<starts, crashes, faults, flags>>
vars == <<disk, pc, seen, unclean, inner, counters>>

\* Between reading .runtime_active and having written it.
Window == {"alive", "check_clean", "remove_clean", "truncate", "register"}

Holding == {"open", "verify", "quarantine", "quarantined", "migrate", "running", "recovering",
            "reinit", "remigrate", "checkpoint", "close", "release_active"}

Releasing == {"release_active", "release_tmp", "release_rename"}

PCs == {"off", "inspect", "release_tmp", "release_rename"} \cup Window \cup Holding

TypeOK ==
    /\ active \in Procs \cup {None, Torn}
    /\ clean \in BOOLEAN /\ tmp \in BOOLEAN
    /\ db \in {"absent", "ok", "damaged"}
    /\ ledger \in 0..Migrations /\ tables \in Nat
    /\ pc \in [Procs -> PCs]
    /\ seen \in [Procs -> Procs \cup {None, Torn}]
    /\ unclean \in [Procs -> BOOLEAN]
    /\ engine \in [Procs -> {"Uninitialized", "Ready", "Degraded", "Stopping", "Stopped"}]
    /\ conn \in [Procs -> {"none", "live", "moved"}]
    /\ client \in [Procs -> {"idle", "queued", "writing"}]
    /\ ckpt \in [Procs -> {"none", "queued", "holding"}]
    /\ starts \in [Procs -> Nat] /\ crashes \in 0..MaxCrashes /\ faults \in 0..MaxFaults
    /\ raced \in BOOLEAN /\ misled \in BOOLEAN
-----------------------------------------------------------------------------
\* An empty directory, or one that an older build or this one has left.
Init ==
    /\ active = None /\ tmp = FALSE
    /\ \/ clean = FALSE /\ db = "absent" /\ ledger = 0
       \/ clean = TRUE /\ db = "ok" /\ ledger \in 1..Migrations
    /\ tables = ledger
    /\ pc = [p \in Procs |-> "off"]
    /\ seen = [p \in Procs |-> None]
    /\ unclean = [p \in Procs |-> FALSE]
    /\ engine = [p \in Procs |-> "Uninitialized"]
    /\ conn = [p \in Procs |-> "none"]
    /\ client = [p \in Procs |-> "idle"]
    /\ ckpt = [p \in Procs |-> "none"]
    /\ starts = [p \in Procs |-> 0] /\ crashes = 0 /\ faults = 0
    /\ raced = FALSE /\ misled = FALSE

At(p, l) == pc[p] = l
Goto(p, l) == pc' = [pc EXCEPT ![p] = l]

\* The process ends, and with it whatever it holds in memory.
Exit(p) ==
    /\ pc' = [pc EXCEPT ![p] = "off"]
    /\ engine' = [engine EXCEPT ![p] = "Uninitialized"]
    /\ conn' = [conn EXCEPT ![p] = "none"]
    /\ client' = [client EXCEPT ![p] = "idle"]
    /\ ckpt' = [ckpt EXCEPT ![p] = "none"]
    /\ unclean' = [unclean EXCEPT ![p] = FALSE]
    /\ seen' = [seen EXCEPT ![p] = None]

\* The error of a failing removal is dropped.
Dropped == faults < MaxFaults /\ faults' = faults + 1

Start(p) ==
    /\ At(p, "off")
    /\ starts[p] < MaxStarts[p]
    /\ starts' = [starts EXCEPT ![p] = @ + 1]
    /\ Goto(p, "inspect")
    /\ UNCHANGED <<disk, seen, unclean, inner, crashes, faults, flags>>
-----------------------------------------------------------------------------
(* CleanShutdownMarker::acquire_session *)
\* A file that does not parse is passed over.
InspectRead(p) ==
    /\ At(p, "inspect")
    /\ seen' = [seen EXCEPT ![p] = active]
    /\ Goto(p, IF active \in Procs THEN "alive" ELSE "check_clean")
    /\ raced' = (raced \/ \E q \in Procs \ {p} : pc[q] \in Window)
    /\ UNCHANGED <<disk, unclean, inner, starts, crashes, faults, misled>>

\* Mutant: the PID in the file is not checked for being alive.
InspectAlive_Unchecked(p) ==
    /\ At(p, "alive")
    /\ unclean' = [unclean EXCEPT ![p] = TRUE]
    /\ Goto(p, "check_clean")
    /\ UNCHANGED <<seen, inner, disk, counters>>

\* SessionLocked ends main.rs; a dead or identical PID is a stale session.
InspectAlive(p) ==
    /\ At(p, "alive")
    /\ \/ /\ seen[p] # p /\ pc[seen[p]] # "off"
          /\ Exit(p)
       \/ /\ seen[p] = p \/ pc[seen[p]] = "off"
          /\ unclean' = [unclean EXCEPT ![p] = TRUE]
          /\ Goto(p, "check_clean")
          /\ UNCHANGED <<seen, inner>>
    /\ UNCHANGED <<disk, counters>>

\* Mutant: only a stale .runtime_active counts as an unclean restart.
CheckClean_ActiveOnly(p) ==
    /\ At(p, "check_clean")
    /\ Goto(p, "remove_clean")
    /\ UNCHANGED <<disk, seen, unclean, inner, counters>>

\* A marker that does not parse, next to .clean_shutdown, looks like a clean stop.
Misleads(p) == seen[p] = Torn /\ clean

CheckClean(p) ==
    /\ At(p, "check_clean")
    /\ unclean' = [unclean EXCEPT ![p] = @ \/ ~clean]
    /\ misled' = (misled \/ Misleads(p))
    /\ seen' = [seen EXCEPT ![p] = None]
    /\ Goto(p, "remove_clean")
    /\ UNCHANGED <<disk, inner, starts, crashes, faults, raced>>

RemoveClean(p) ==
    /\ At(p, "remove_clean")
    /\ \/ clean' = FALSE /\ UNCHANGED faults
       \/ clean /\ Dropped /\ UNCHANGED clean
    /\ Goto(p, "truncate")
    /\ UNCHANGED <<active, tmp, file, seen, unclean, inner, starts, crashes, flags>>

Truncate(p) ==
    /\ At(p, "truncate")
    /\ active' = Torn
    /\ Goto(p, "register")
    /\ UNCHANGED <<clean, tmp, file, seen, unclean, inner, counters>>

WriteSession(p) ==
    /\ At(p, "register")
    /\ active' = p
    /\ Goto(p, "open")
    /\ UNCHANGED <<clean, tmp, file, seen, unclean, inner, counters>>
-----------------------------------------------------------------------------
(* DatabaseEngine::initialize, from the connection on *)
\* Opening creates a missing file.  Whatever error it or its pragmas return leads to quarantine,
\* of a damaged file or of a sound one.
Open(p) ==
    /\ At(p, "open")
    /\ \/ /\ db' = IF db = "absent" THEN "ok" ELSE db
          /\ conn' = [conn EXCEPT ![p] = "live"]
          /\ Goto(p, "verify")
       \/ Goto(p, "quarantine") /\ UNCHANGED <<db, conn>>
    /\ UNCHANGED <<active, clean, tmp, ledger, tables, seen, unclean, engine, client, ckpt, counters>>

\* Mutant: tier 1 is trusted after an unclean restart too.
Verify_Tier1Only(p) ==
    /\ At(p, "verify")
    /\ Goto(p, "migrate")
    /\ UNCHANGED <<disk, seen, unclean, inner, counters>>

\* Tier 2 after an unclean restart; otherwise tier 1, which damage may pass, and tier 2
\* if tier 1 fails.  A check that cannot be run counts as damage.
Verify(p) ==
    /\ At(p, "verify")
    /\ \/ /\ db # "damaged" \/ ~unclean[p]
          /\ Goto(p, "migrate")
          /\ UNCHANGED conn
       \/ /\ Goto(p, "quarantine")
          /\ conn' = [conn EXCEPT ![p] = "none"]
    /\ unclean' = [unclean EXCEPT ![p] = FALSE]
    /\ UNCHANGED <<disk, seen, engine, client, ckpt, counters>>

\* Moving the file away leaves the connections others have to it.  If it is copied because it
\* cannot be renamed, it may stay where it was.
MoveAway ==
    \/ /\ db' = "absent" /\ ledger' = 0 /\ tables' = 0
       /\ conn' = [q \in Procs |-> IF conn[q] = "live" THEN "moved" ELSE conn[q]]
       /\ UNCHANGED <<faults, misled>>
    \/ /\ db # "absent" /\ Dropped
       /\ misled' = (misled \/ db = "damaged")
       /\ UNCHANGED <<file, conn>>

Quarantine(p) ==
    /\ At(p, "quarantine")
    /\ MoveAway
    /\ Goto(p, "quarantined")
    /\ UNCHANGED <<active, clean, tmp, seen, unclean, engine, client, ckpt, starts, crashes, raced>>

\* The write-ahead log and the metadata have followed.
Degrade(p) ==
    /\ At(p, "quarantined")
    /\ engine' = [engine EXCEPT ![p] = "Degraded"]
    /\ Goto(p, "running")
    /\ UNCHANGED <<disk, seen, unclean, conn, client, ckpt, counters>>

(* MigrationEngine::run_pending_migrations *)
\* Mutant: an error of the migration's statements is dropped.
ApplyMigration_ErrorDropped(p) ==
    /\ (At(p, "migrate") /\ conn[p] = "live") \/ At(p, "remigrate")
    /\ ledger < Migrations
    /\ ledger' = ledger + 1
    /\ tables' \in {tables, tables + 1}
    /\ UNCHANGED <<active, clean, tmp, db, pc, seen, unclean, inner, counters>>

\* One transaction for a migration and its row; those the ledger lists are passed over.
ApplyMigration(p) ==
    /\ (At(p, "migrate") /\ conn[p] = "live") \/ At(p, "remigrate")
    /\ ledger < Migrations
    /\ ledger' = ledger + 1
    /\ tables' = tables + 1
    /\ UNCHANGED <<active, clean, tmp, db, pc, seen, unclean, inner, counters>>

Migrate(p) ==
    /\ At(p, "migrate")
    /\ conn[p] = "live" => ledger = Migrations
    /\ engine' = [engine EXCEPT ![p] = "Ready"]
    /\ Goto(p, "running")
    /\ UNCHANGED <<disk, seen, unclean, conn, client, ckpt, counters>>

\* An error that initialize() returns, a checksum that differs from the ledger's among them:
\* main.rs exits and leaves the markers.
InitError(p) ==
    /\ pc[p] \in {"truncate", "register", "quarantine", "quarantined", "migrate"}
    /\ Exit(p)
    /\ UNCHANGED <<disk, counters>>
-----------------------------------------------------------------------------
(* netra storage recover: quarantine, then a fresh database in its place *)
Recover(p) ==
    /\ At(p, "running")
    /\ db # "absent"
    /\ MoveAway
    /\ Goto(p, "recovering")
    /\ UNCHANGED <<active, clean, tmp, seen, unclean, engine, client, ckpt, starts, crashes, raced>>

\* The write-ahead log and the metadata follow, or the command ends with an error.
RecoverRest(p) ==
    /\ At(p, "recovering")
    /\ Goto(p, "reinit") \/ Goto(p, "running")
    /\ UNCHANGED <<disk, seen, unclean, inner, counters>>

\* The command opens a connection of its own, or fails to.
Reinit(p) ==
    /\ At(p, "reinit")
    /\ \/ db' = (IF db = "absent" THEN "ok" ELSE db) /\ Goto(p, "remigrate")
       \/ Goto(p, "running") /\ UNCHANGED db
    /\ UNCHANGED <<active, clean, tmp, ledger, tables, seen, unclean, inner, counters>>

\* All migrations are done, or one has failed and the command reports it.
ReinitDone(p) ==
    /\ At(p, "remigrate")
    /\ Goto(p, "running")
    /\ UNCHANGED <<disk, seen, unclean, inner, counters>>

(* DatabaseEngine::with_writer *)
WriteCall(p) ==
    /\ client[p] = "idle"
    /\ engine[p] \in {"Ready", "Degraded"}
    /\ client' = [client EXCEPT ![p] = "queued"]
    /\ UNCHANGED <<disk, pc, seen, unclean, engine, conn, ckpt, counters>>

LockHeld(p) == client[p] = "writing" \/ ckpt[p] = "holding"

WriteLock(p) ==
    /\ client[p] = "queued"
    /\ ~LockHeld(p)
    /\ client' = [client EXCEPT ![p] = IF conn[p] = "none" THEN "idle" ELSE "writing"]
    /\ UNCHANGED <<disk, pc, seen, unclean, engine, conn, ckpt, counters>>

WriteDone(p) ==
    /\ client[p] = "writing"
    /\ client' = [client EXCEPT ![p] = "idle"]
    /\ UNCHANGED <<disk, pc, seen, unclean, engine, conn, ckpt, counters>>
-----------------------------------------------------------------------------
(* DatabaseEngine::stop *)
StopBegin(p) ==
    /\ At(p, "running")
    /\ engine' = [engine EXCEPT ![p] = "Stopping"]
    /\ ckpt' = [ckpt EXCEPT ![p] = "queued"]
    /\ Goto(p, "checkpoint")
    /\ UNCHANGED <<disk, seen, unclean, conn, client, counters>>

CheckpointLock(p) ==
    /\ ckpt[p] = "queued"
    /\ ~LockHeld(p)
    /\ ckpt' = [ckpt EXCEPT ![p] = IF conn[p] = "none" THEN "none" ELSE "holding"]
    /\ UNCHANGED <<disk, pc, seen, unclean, engine, conn, client, counters>>

CheckpointDone(p) ==
    /\ ckpt[p] = "holding"
    /\ ckpt' = [ckpt EXCEPT ![p] = "none"]
    /\ UNCHANGED <<disk, pc, seen, unclean, engine, conn, client, counters>>

\* The checkpoint has finished, or its 1000 ms are over and it goes on alone.
CheckpointWait(p) ==
    /\ At(p, "checkpoint")
    /\ Goto(p, "close")
    /\ UNCHANGED <<disk, seen, unclean, inner, counters>>

\* Mutant: the handles are dropped without waiting for the mutex.
CloseHandles_NoLock(p) ==
    /\ At(p, "close")
    /\ conn' = [conn EXCEPT ![p] = "none"]
    /\ Goto(p, "release_active")
    /\ UNCHANGED <<disk, seen, unclean, engine, client, ckpt, counters>>

CloseHandles(p) ==
    /\ At(p, "close")
    /\ ~LockHeld(p)
    /\ conn' = [conn EXCEPT ![p] = "none"]
    /\ Goto(p, "release_active")
    /\ UNCHANGED <<disk, seen, unclean, engine, client, ckpt, counters>>

(* CleanShutdownMarker::release_session *)
ReleaseActive(p) ==
    /\ At(p, "release_active")
    /\ \/ active' = None /\ UNCHANGED faults
       \/ Dropped /\ UNCHANGED active
    /\ Goto(p, "release_tmp")
    /\ UNCHANGED <<clean, tmp, file, seen, unclean, inner, starts, crashes, flags>>

\* An error here is dropped by stop(), which then goes on to exit.
ReleaseTmp(p) ==
    /\ At(p, "release_tmp")
    /\ \/ tmp' = TRUE /\ Goto(p, "release_rename") /\ UNCHANGED <<seen, unclean, inner>>
       \/ Exit(p) /\ UNCHANGED tmp
    /\ UNCHANGED <<active, clean, file, counters>>

\* The rename may fail, and does if another process has renamed the same temporary file.
ReleaseRename(p) ==
    /\ At(p, "release_rename")
    /\ \/ clean' = (clean \/ tmp) /\ tmp' = FALSE
       \/ UNCHANGED <<clean, tmp>>
    /\ Exit(p)
    /\ UNCHANGED <<active, file, counters>>
-----------------------------------------------------------------------------
\* The process is killed.  If it had the file in place open, the file may be damaged.
Crash(p) ==
    /\ pc[p] # "off"
    /\ crashes < MaxCrashes
    /\ crashes' = crashes + 1
    /\ db' \in IF conn[p] = "live" \/ At(p, "remigrate") THEN {db, "damaged"} ELSE {db}
    /\ Exit(p)
    /\ UNCHANGED <<active, clean, tmp, ledger, tables, starts, faults, flags>>

StopStep(p) ==
    \/ CheckpointLock(p) \/ CheckpointWait(p) \/ CloseHandles(p)
    \/ ReleaseActive(p) \/ ReleaseTmp(p) \/ ReleaseRename(p)

Next == \E p \in Procs :
    \/ Start(p) \/ InspectRead(p) \/ InspectAlive(p) \/ CheckClean(p) \/ RemoveClean(p)
    \/ Truncate(p) \/ WriteSession(p)
    \/ Open(p) \/ Verify(p) \/ Quarantine(p) \/ Degrade(p) \/ ApplyMigration(p) \/ Migrate(p)
    \/ InitError(p) \/ Recover(p) \/ RecoverRest(p) \/ Reinit(p) \/ ReinitDone(p)
    \/ WriteCall(p) \/ WriteLock(p) \/ WriteDone(p)
    \/ StopBegin(p) \/ CheckpointDone(p) \/ StopStep(p)
    \/ Crash(p)

Spec == Init /\ [][Next]_vars
-----------------------------------------------------------------------------
(***************************************************************************)
(* Unless two processes were inside acquire_session() at once, the session *)
(* has one holder (marker.rs:73-78), although a process may acquire while  *)
(* another is still between the steps of releasing.                        *)
(***************************************************************************)
AtMostOneHolder ==
    ~raced => Cardinality({p \in Procs : pc[p] \in Holding}) <= 1

(***************************************************************************)
(* Damage that a crash left behind is found before the engine is Ready, at *)
(* whatever step of acquire_session(), initialize() or release_session()   *)
(* processes died and whichever removal of a marker failed (marker.rs:86-  *)
(* 115, 172-174, engine.rs:254-290).  There are two ways to miss it:       *)
(* .runtime_active is torn and .clean_shutdown in place, which takes a     *)
(* removal that failed or a late rename, and a session that dies while it  *)
(* registers; or a quarantine has left the damaged file where it was       *)
(* (recovery.rs:185).  Until one of the two has happened nothing is missed. *)
(***************************************************************************)
Served == {p \in Procs : engine[p] = "Ready" /\ conn[p] = "live"}

DamageDetected == ~raced /\ ~misled /\ Served # {} => db # "damaged"

(***************************************************************************)
(* The session is released only after write completion and handle closure  *)
(* (marker.rs:163): a write that passed the state check before stop()      *)
(* never runs afterwards.                                                  *)
(***************************************************************************)
NoWriteAfterRelease ==
    \A p \in Procs : pc[p] \in Releasing => conn[p] = "none" /\ ~LockHeld(p)

(***************************************************************************)
(* Nobody works on part of a schema (migrations/mod.rs:37): once the       *)
(* engine is Ready all migrations have been applied, wherever processes of *)
(* this build or an older one, or a recovery, have stopped between two.    *)
(***************************************************************************)
SchemaComplete == Served # {} => tables = Migrations

\* What a lease says of the processes: nothing any more once two have acquired at once, or one
\* was misled.
Owner ==
    IF raced \/ misled THEN Torn
    ELSE IF \E p \in Procs : pc[p] \in Holding
         THEN CHOOSE p \in Procs : pc[p] \in Holding
         ELSE None

Suspect == db = "damaged"

Serving == \E p \in Procs : engine[p] \in {"Ready", "Stopping"} /\ conn[p] = "live"

Lease == INSTANCE SessionLease WITH
    Nobody <- None, Contended <- Torn, owner <- Owner, suspect <- Suspect, serving <- Serving

\* The processes implement the lease, each session from its marker to its release.
LeaseSpec == Lease!Spec

(***************************************************************************)
(* The comment on acquire_session(): it determines "if previous            *)
(* termination was unclean" (marker.rs:77).  The code fails to when the    *)
(* late rename of a releasing process puts .clean_shutdown next to the     *)
(* marker of a session that has since died, and that marker is then torn.  *)
(***************************************************************************)
UncleanDetected == ~raced /\ Served # {} => db # "damaged"
=============================================================================

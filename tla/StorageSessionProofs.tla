------------------------ MODULE StorageSessionProofs ------------------------
(***************************************************************************)
(* Theorems about StorageSession, for any number of processes, starts,     *)
(* crashes and migrations.                                                 *)
(*                                                                         *)
(* Most of the argument is about who may be where at once.  As long as no  *)
(* two processes have been inside acquire_session() together, whoever      *)
(* holds the session is the one .runtime_active names, and a process that  *)
(* has got past the check for a living owner is alone (AloneInv).  Damage  *)
(* then lies behind a .runtime_active that is not gone, and each step of   *)
(* acquire_session() carries that evidence on (EvidenceInv).               *)
(***************************************************************************)
EXTENDS StorageSession, FiniteSetTheorems, TLAPS

\* Before the engine is initialized, and after the process has ended.
Idle == {"off", "inspect", "alive", "check_clean", "remove_clean", "truncate", "register",
         "open", "verify", "quarantine", "quarantined", "migrate"}

\* Nothing is asked of an engine that is not initialized; the mutex guards a connection, and
\* only a holder has one.
HandleInv ==
    \A p \in Procs :
        /\ pc[p] \in Idle => engine[p] = "Uninitialized"
        /\ engine[p] = "Uninitialized" => client[p] = "idle" /\ ckpt[p] = "none"
        /\ conn[p] = "none" => client[p] # "writing" /\ ckpt[p] # "holding"
        /\ conn[p] # "none" => pc[p] \in Holding \ {"release_active"}

\* A connection to the file in place is served only with the whole schema.
SchemaInv ==
    /\ tables = ledger
    /\ \A p \in Procs : conn[p] = "live" /\ engine[p] = "Ready" => ledger = Migrations

\* Who may be where, as long as no two have been inside acquire_session() at once.
AloneInv == ~raced =>
    /\ \A p, q \in Procs : pc[p] \in Window /\ pc[q] \in Window => p = q
    /\ \A p \in Procs : pc[p] \in Holding => active = p
    /\ \A p, q \in Procs : pc[p] \in Window \ {"alive"} => pc[q] \notin Holding
    /\ \A p, q \in Procs : pc[p] = "alive" /\ pc[q] \in Holding => seen[p] = q

\* Between removing .runtime_active and having renamed .clean_shutdown into place.
Late == {"release_tmp", "release_rename"}

\* Damage outlives its session only behind a .runtime_active that names it or is torn; whoever
\* comes next knows of it, or has seen the torn marker and has yet to look for .clean_shutdown.
EvidenceInv == db = "damaged" =>
    /\ active # None
    /\ \A p \in Procs : pc[p] \in (Idle \ {"quarantined", "migrate"}) \cup Late
    /\ \A p \in Procs : pc[p] = "check_clean" => unclean[p] \/ seen[p] = Torn
    /\ \A p \in Procs :
           pc[p] \in {"remove_clean", "truncate", "register", "open", "verify"} => unclean[p]

DamageInv == ~raced /\ ~misled => EvidenceInv

USE DEF Window, Holding, Releasing, PCs, At, Goto
-----------------------------------------------------------------------------
\* The actions of a process one by one, so that a proof can cite each.
Step(p) ==
    \/ Start(p) \/ InspectRead(p) \/ InspectAlive(p) \/ CheckClean(p) \/ RemoveClean(p)
    \/ Truncate(p) \/ WriteSession(p)
    \/ Open(p) \/ Verify(p) \/ Quarantine(p) \/ Degrade(p) \/ ApplyMigration(p) \/ Migrate(p)
    \/ InitError(p) \/ Recover(p) \/ RecoverRest(p) \/ Reinit(p) \/ ReinitDone(p)
    \/ WriteCall(p) \/ WriteLock(p) \/ WriteDone(p)
    \/ StopBegin(p) \/ CheckpointLock(p) \/ CheckpointDone(p) \/ CheckpointWait(p)
    \/ CloseHandles(p) \/ ReleaseActive(p) \/ ReleaseTmp(p) \/ ReleaseRename(p)
    \/ Crash(p)

LEMMA Steps == [Next]_vars => (\E p \in Procs : Step(p)) \/ UNCHANGED vars
  BY DEF Next, Step, StopStep

\* Every variable keeps its type.
LEMMA TypeInit == Init => TypeOK
<1> SUFFICES ASSUME Init PROVE TypeOK
  OBVIOUS
<1>1. ledger \in 0..Migrations /\ tables \in Nat
  BY ConstantsAssumption DEF Init
<1>2. clean \in BOOLEAN /\ db \in {"absent", "ok", "damaged"}
  BY DEF Init
<1>3. crashes \in 0..MaxCrashes /\ faults \in 0..MaxFaults
  BY ConstantsAssumption DEF Init
<1> QED
  BY <1>1, <1>2, <1>3 DEF Init, TypeOK

LEMMA FaultsBounded ==
    ASSUME faults \in 0..MaxFaults, Dropped \/ UNCHANGED faults PROVE faults' \in 0..MaxFaults
  BY ConstantsAssumption DEF Dropped

LEMMA TypeNext == TypeOK /\ [Next]_vars => TypeOK'
<1> SUFFICES ASSUME TypeOK, [Next]_vars PROVE TypeOK'
  OBVIOUS
<1>1. ASSUME NEW p \in Procs, Step(p) PROVE TypeOK'
  <2> USE ConstantsAssumption DEF TypeOK, disk, file, inner, counters, flags
  <2>1. CASE Start(p)
    BY <2>1 DEF Start
  <2>2. CASE InspectRead(p)
    BY <2>2 DEF InspectRead
  <2>3. CASE InspectAlive(p)
    <3>1. UNCHANGED <<disk, counters>>
      BY <2>3 DEF InspectAlive
    <3>2. Exit(p) \/ (/\ unclean' = [unclean EXCEPT ![p] = TRUE]
                      /\ pc' = [pc EXCEPT ![p] = "check_clean"]
                      /\ UNCHANGED <<seen, inner>>)
      BY <2>3 DEF InspectAlive
    <3>3. CASE Exit(p)
      BY <3>1, <3>3 DEF Exit
    <3> QED
      BY <3>1, <3>2, <3>3
  <2>4. CASE CheckClean(p)
    <3>1. misled' \in BOOLEAN
      BY <2>4 DEF CheckClean, Misleads
    <3>2. unclean' \in [Procs -> BOOLEAN]
      BY <2>4 DEF CheckClean
    <3> QED
      BY <2>4, <3>1, <3>2 DEF CheckClean
  <2>5. CASE RemoveClean(p)
    <3>1. faults' \in 0..MaxFaults
      BY <2>5, FaultsBounded DEF RemoveClean
    <3>2. clean' \in BOOLEAN
      BY <2>5 DEF RemoveClean
    <3> QED
      BY <2>5, <3>1, <3>2 DEF RemoveClean
  <2>6. CASE Truncate(p)
    BY <2>6 DEF Truncate
  <2>7. CASE WriteSession(p)
    BY <2>7 DEF WriteSession
  <2>8. CASE Open(p)
    BY <2>8 DEF Open
  <2>9. CASE Verify(p)
    BY <2>9 DEF Verify
  <2>10. CASE Quarantine(p)
    <3>1. faults' \in 0..MaxFaults
      BY <2>10, FaultsBounded DEF Quarantine, MoveAway
    <3>3. misled' \in BOOLEAN
      BY <2>10 DEF Quarantine, MoveAway
    <3>2. /\ db' \in {"absent", "ok", "damaged"} /\ ledger' \in 0..Migrations /\ tables' \in Nat
          /\ conn' \in [Procs -> {"none", "live", "moved"}]
      BY <2>10 DEF Quarantine, MoveAway
    <3> QED
      BY <2>10, <3>1, <3>2, <3>3 DEF Quarantine
  <2>11. CASE ApplyMigration(p)
    BY <2>11 DEF ApplyMigration
  <2>12. CASE Migrate(p)
    BY <2>12 DEF Migrate
  <2>13. CASE InitError(p)
    BY <2>13 DEF InitError, Exit
  <2>14. CASE Recover(p)
    <3>1. faults' \in 0..MaxFaults
      BY <2>14, FaultsBounded DEF Recover, MoveAway
    <3>3. misled' \in BOOLEAN
      BY <2>14 DEF Recover, MoveAway
    <3>2. /\ db' \in {"absent", "ok", "damaged"} /\ ledger' \in 0..Migrations /\ tables' \in Nat
          /\ conn' \in [Procs -> {"none", "live", "moved"}]
      BY <2>14 DEF Recover, MoveAway
    <3> QED
      BY <2>14, <3>1, <3>2, <3>3 DEF Recover
  <2>15. CASE Reinit(p)
    BY <2>15 DEF Reinit
  <2>16. CASE ReinitDone(p)
    BY <2>16 DEF ReinitDone
  <2>17. CASE WriteCall(p)
    BY <2>17 DEF WriteCall
  <2>18. CASE WriteLock(p)
    BY <2>18 DEF WriteLock
  <2>19. CASE WriteDone(p)
    BY <2>19 DEF WriteDone
  <2>20. CASE StopBegin(p)
    BY <2>20 DEF StopBegin
  <2>21. CASE CheckpointLock(p)
    BY <2>21 DEF CheckpointLock
  <2>22. CASE CheckpointDone(p)
    BY <2>22 DEF CheckpointDone
  <2>23. CASE CheckpointWait(p)
    BY <2>23 DEF CheckpointWait
  <2>24. CASE CloseHandles(p)
    BY <2>24 DEF CloseHandles
  <2>25. CASE ReleaseActive(p)
    BY <2>25 DEF ReleaseActive, Dropped
  <2>26. CASE ReleaseTmp(p)
    BY <2>26 DEF ReleaseTmp, Exit
  <2>27. CASE ReleaseRename(p)
    BY <2>27 DEF ReleaseRename, Exit
  <2>28. CASE Crash(p)
    BY <2>28 DEF Crash, Exit
  <2>29. CASE Degrade(p)
    BY <2>29 DEF Degrade
  <2>30. CASE RecoverRest(p)
    BY <2>30 DEF RecoverRest
  <2> QED
    BY <1>1, <2>1, <2>2, <2>3, <2>4, <2>5, <2>6, <2>7, <2>8, <2>9, <2>10, <2>11, <2>12, <2>13,
       <2>14, <2>15, <2>16, <2>17, <2>18, <2>19, <2>20, <2>21, <2>22, <2>23, <2>24, <2>25,
       <2>26, <2>27, <2>28, <2>29, <2>30 DEF Step
<1>2. CASE UNCHANGED vars
  BY <1>2 DEF vars, disk, file, inner, counters, flags, TypeOK
<1> QED
  BY <1>1, <1>2, Steps

\* Nobody runs.
LEMMA HandleInit == Init => HandleInv /\ SchemaInv /\ AloneInv
  BY DEF Init, HandleInv, SchemaInv, AloneInv, Idle

\* The engine and its handles belong to the process, but for a file that is moved away.
LEMMA HandleNext == TypeOK /\ HandleInv /\ [Next]_vars => HandleInv'
<1> SUFFICES ASSUME TypeOK, HandleInv, [Next]_vars PROVE HandleInv'
  OBVIOUS
<1>1. ASSUME NEW p \in Procs, Step(p) PROVE HandleInv'
  <2> USE DEF TypeOK, HandleInv, Idle, inner
  <2>1. CASE Start(p) \/ InspectRead(p) \/ CheckClean(p) \/ RemoveClean(p) \/ Truncate(p)
             \/ WriteSession(p)
    BY <2>1 DEF Start, InspectRead, CheckClean, RemoveClean, Truncate, WriteSession
  <2>2. CASE InspectAlive(p)
    <3>1. CASE Exit(p)
      BY <3>1 DEF Exit
    <3> QED
      BY <2>2, <3>1 DEF InspectAlive
  <2>3. CASE Open(p)
    BY <2>3 DEF Open
  <2>4. CASE Verify(p)
    BY <2>4 DEF Verify
  <2>5. CASE Quarantine(p)
    BY <2>5 DEF Quarantine, MoveAway
  <2>6. CASE ApplyMigration(p)
    BY <2>6 DEF ApplyMigration
  <2>7. CASE Migrate(p) \/ Degrade(p)
    BY <2>7 DEF Migrate, Degrade
  <2>8. CASE InitError(p) \/ ReleaseRename(p) \/ Crash(p)
    BY <2>8 DEF InitError, ReleaseRename, Crash, Exit
  <2>9. CASE Recover(p)
    BY <2>9 DEF Recover, MoveAway
  <2>10. CASE Reinit(p) \/ ReinitDone(p) \/ RecoverRest(p)
    BY <2>10 DEF Reinit, ReinitDone, RecoverRest
  <2>11. CASE WriteCall(p) \/ WriteLock(p) \/ WriteDone(p)
    BY <2>11 DEF WriteCall, WriteLock, WriteDone
  <2>12. CASE StopBegin(p) \/ CheckpointLock(p) \/ CheckpointDone(p) \/ CheckpointWait(p)
    BY <2>12 DEF StopBegin, CheckpointLock, CheckpointDone, CheckpointWait
  <2>13. CASE CloseHandles(p)
    BY <2>13 DEF CloseHandles, LockHeld
  <2>14. CASE ReleaseActive(p)
    BY <2>14 DEF ReleaseActive
  <2>15. CASE ReleaseTmp(p)
    <3>1. CASE Exit(p)
      BY <3>1 DEF Exit
    <3> QED
      BY <2>15, <3>1 DEF ReleaseTmp
  <2> QED
    BY <1>1, <2>1, <2>2, <2>3, <2>4, <2>5, <2>6, <2>7, <2>8, <2>9, <2>10, <2>11, <2>12, <2>13,
       <2>14, <2>15 DEF Step
<1>2. CASE UNCHANGED vars
  BY <1>2 DEF vars, inner, HandleInv
<1> QED
  BY <1>1, <1>2, Steps

\* A migration and its row are one transaction; moving the file away moves every connection.
LEMMA SchemaNext == TypeOK /\ HandleInv /\ SchemaInv /\ [Next]_vars => SchemaInv'
<1> SUFFICES ASSUME TypeOK, HandleInv, SchemaInv, [Next]_vars PROVE SchemaInv'
  OBVIOUS
<1>1. ASSUME NEW p \in Procs, Step(p) PROVE SchemaInv'
  <2> USE ConstantsAssumption DEF TypeOK, SchemaInv
  <2>1. CASE Quarantine(p) \/ Recover(p)
    BY <2>1 DEF Quarantine, Recover, MoveAway, file
  <2>2. CASE ApplyMigration(p)
    BY <2>2 DEF ApplyMigration, inner
  <2>3. CASE Migrate(p)
    BY <2>3 DEF Migrate, disk, file
  <2>10. CASE Degrade(p)
    BY <2>10 DEF Degrade, disk, file
  <2>4. CASE Open(p)
    BY <2>4 DEF Open, HandleInv, Idle
  <2>5. CASE Verify(p) \/ StopBegin(p) \/ CloseHandles(p)
    BY <2>5 DEF Verify, StopBegin, CloseHandles, disk, file
  <2>6. CASE InitError(p) \/ Crash(p) \/ ReleaseRename(p)
    BY <2>6 DEF InitError, Crash, ReleaseRename, Exit, disk, file
  <2>7. CASE InspectAlive(p)
    BY <2>7 DEF InspectAlive, Exit, disk, file, inner
  <2>8. CASE ReleaseTmp(p)
    BY <2>8 DEF ReleaseTmp, Exit, file, inner
  <2>9. CASE UNCHANGED <<ledger, tables, engine, conn>>
    BY <2>9
  <2> QED
    BY <1>1, <2>1, <2>2, <2>3, <2>4, <2>5, <2>6, <2>7, <2>8, <2>9, <2>10
    DEF Step, Start, InspectRead, CheckClean, RemoveClean, Truncate, WriteSession, Reinit,
        ReinitDone, RecoverRest, WriteCall, WriteLock, WriteDone, CheckpointLock, CheckpointDone,
        CheckpointWait, ReleaseActive, disk, file, inner
<1>2. CASE UNCHANGED vars
  BY <1>2 DEF vars, disk, file, inner, SchemaInv
<1> QED
  BY <1>1, <1>2, Steps

\* The steps once more, by what they do to the markers and to where the process is.
Passes(p) ==
    /\ pc[p] = "alive"
    /\ seen[p] = p \/ pc[seen[p]] = "off"
    /\ unclean' = [unclean EXCEPT ![p] = TRUE]
    /\ pc' = [pc EXCEPT ![p] = "check_clean"]
    /\ UNCHANGED <<disk, seen, counters>>

Marks(p) ==
    /\ pc[p] = "release_tmp" /\ pc' = [pc EXCEPT ![p] = "release_rename"]
    /\ UNCHANGED <<active, file, seen, unclean, counters>>

Leaves(p) ==
    /\ pc[p] # "off" /\ Exit(p) /\ UNCHANGED <<active, flags>>
    /\ \/ UNCHANGED db
       \/ pc[p] \in Holding

Within(p) ==
    /\ pc[p] \in Holding
    /\ \E l \in Holding : pc' = [pc EXCEPT ![p] = l]
    /\ ~misled' /\ db' = "damaged" =>
           /\ db = "damaged" /\ pc[p] # "quarantine"
           /\ pc[p] \in Idle \ {"quarantined", "migrate"} =>
                  pc'[p] = "quarantine" \/ (pc'[p] = "verify" /\ UNCHANGED unclean) \/ ~unclean[p]
    /\ \A q \in Procs : q # p => unclean'[q] = unclean[q]
    /\ misled => misled'
    /\ UNCHANGED <<active, seen, raced>>

Aside(p) == UNCHANGED <<active, db, pc, seen, unclean, flags>>

LEMMA Kinds ==
    ASSUME TypeOK, HandleInv, NEW p \in Procs, Step(p)
    PROVE  \/ Start(p) \/ InspectRead(p) \/ Passes(p) \/ CheckClean(p) \/ RemoveClean(p)
           \/ Truncate(p) \/ WriteSession(p) \/ ReleaseActive(p) \/ Marks(p)
           \/ Leaves(p) \/ Within(p) \/ Aside(p)
<1> USE DEF TypeOK, disk, file, inner, counters, flags
<1>1. CASE InspectAlive(p)
  BY <1>1 DEF InspectAlive, Passes, Leaves
<1>2. CASE InitError(p) \/ ReleaseRename(p)
  BY <1>2 DEF InitError, ReleaseRename, Leaves
<1>3. CASE Crash(p)
  BY <1>3 DEF Crash, Leaves, HandleInv
<1>4. CASE ReleaseTmp(p)
  BY <1>4 DEF ReleaseTmp, Leaves, Marks
<1>5. CASE Open(p) \/ Verify(p)
  BY <1>5 DEF Open, Verify, Within, Idle
<1>6. CASE Quarantine(p) \/ Recover(p)
  BY <1>6 DEF Quarantine, Recover, MoveAway, Within, Idle
<1>7. CASE Migrate(p) \/ Degrade(p)
  BY <1>7 DEF Migrate, Degrade, Within, Idle
<1>8. CASE RecoverRest(p) \/ Reinit(p) \/ ReinitDone(p) \/ StopBegin(p) \/ CheckpointWait(p) \/ CloseHandles(p)
  BY <1>8 DEF RecoverRest, Reinit, ReinitDone, StopBegin, CheckpointWait, CloseHandles, Within, Idle
<1>9. CASE ApplyMigration(p) \/ WriteCall(p) \/ WriteLock(p) \/ WriteDone(p)
           \/ CheckpointLock(p) \/ CheckpointDone(p)
  BY <1>9 DEF ApplyMigration, WriteCall, WriteLock, WriteDone, CheckpointLock, CheckpointDone, Aside
<1> QED
  BY <1>1, <1>2, <1>3, <1>4, <1>5, <1>6, <1>7, <1>8, <1>9 DEF Step

\* A process gets past the check for a living owner only when there is none.
LEMMA AloneNext == TypeOK /\ HandleInv /\ AloneInv /\ [Next]_vars => AloneInv'
<1> SUFFICES ASSUME TypeOK, HandleInv, AloneInv, [Next]_vars PROVE AloneInv'
  OBVIOUS
<1>1. ASSUME NEW p \in Procs, Step(p) PROVE AloneInv'
  <2> USE ConstantsAssumption DEF TypeOK, AloneInv, disk, file, inner, counters, flags
  <2>1. CASE Start(p)
    BY <2>1 DEF Start
  <2>2. CASE InspectRead(p)
    <3> SUFFICES ASSUME ~raced' PROVE AloneInv'
      OBVIOUS
    <3>1. ~raced /\ \A q \in Procs : pc[q] \in Window => q = p
      BY <2>2 DEF InspectRead
    <3>2. CASE active \in Procs
      BY <2>2, <3>1, <3>2 DEF InspectRead
    <3>3. CASE active \notin Procs
      <4>1. \A q \in Procs : pc[q] \notin Holding
        BY <3>1, <3>3
      <4>2. pc' = [pc EXCEPT ![p] = "check_clean"]
        BY <2>2, <3>3 DEF InspectRead
      <4> QED
        BY <3>1, <4>1, <4>2
    <3> QED
      BY <3>2, <3>3
  <2>3. CASE Passes(p)
    BY <2>3 DEF Passes
  <2>4. CASE CheckClean(p) \/ RemoveClean(p)
    BY <2>4 DEF CheckClean, RemoveClean
  <2>5. CASE Truncate(p)
    BY <2>5 DEF Truncate
  <2>6. CASE WriteSession(p)
    BY <2>6 DEF WriteSession
  <2>7. CASE ReleaseActive(p)
    BY <2>7 DEF ReleaseActive
  <2>8. CASE Marks(p)
    BY <2>8 DEF Marks
  <2>9. CASE Leaves(p)
    BY <2>9 DEF Leaves, Exit
  <2>10. CASE Within(p)
    BY <2>10 DEF Within
  <2>11. CASE Aside(p)
    BY <2>11 DEF Aside
  <2> QED
    BY <1>1, <2>1, <2>2, <2>3, <2>4, <2>5, <2>6, <2>7, <2>8, <2>9, <2>10, <2>11, Kinds
<1>2. CASE UNCHANGED vars
  BY <1>2 DEF vars, disk, counters, flags, AloneInv
<1> QED
  BY <1>1, <1>2, Steps

\* Both flags are for good.
LEMMA FlagsStay ==
    ASSUME TypeOK, HandleInv, NEW p \in Procs, Step(p), ~raced', ~misled'
    PROVE  ~raced /\ ~misled
BY Kinds DEF TypeOK, Start, InspectRead, Passes, CheckClean, RemoveClean, Truncate, WriteSession,
   ReleaseActive, Marks, Leaves, Within, Aside, counters, flags

\* Damage comes from a holder that died, whom .runtime_active still names.
LEMMA EvidenceNext ==
    ASSUME TypeOK, HandleInv, ~raced, ~misled, AloneInv, EvidenceInv,
           NEW p \in Procs, Step(p), ~raced', ~misled'
    PROVE  EvidenceInv'
<1> USE ConstantsAssumption DEF TypeOK, EvidenceInv, Idle, Late, disk, file, inner, counters, flags
<1>1. CASE Start(p)
  BY <1>1 DEF Start
<1>2. CASE InspectRead(p)
  BY <1>2 DEF InspectRead
<1>3. CASE Passes(p)
  BY <1>3 DEF Passes
<1>4. CASE CheckClean(p)
  BY <1>4 DEF CheckClean, Misleads
<1>5. CASE RemoveClean(p)
  BY <1>5 DEF RemoveClean
<1>6. CASE Truncate(p)
  BY <1>6 DEF Truncate
<1>7. CASE WriteSession(p)
  BY <1>7 DEF WriteSession
<1>8. CASE ReleaseActive(p)
  BY <1>8 DEF ReleaseActive
<1>9. CASE Marks(p)
  BY <1>9 DEF Marks
<1>10. CASE Leaves(p)
  <2>1. CASE UNCHANGED db
    BY <1>10, <2>1 DEF Leaves, Exit
  <2>2. CASE pc[p] \in Holding
    <3>1. active = p
      BY <2>2 DEF AloneInv
    <3>2. \A q \in Procs : q # p => pc[q] \in {"off", "inspect", "alive"} \cup Late
      <4>1. \A q \in Procs : q # p => pc[q] \notin Holding
        BY <2>2 DEF AloneInv
      <4>2. \A q \in Procs : pc[q] \notin Window \ {"alive"}
        BY <2>2 DEF AloneInv
      <4> QED
        BY <4>1, <4>2
    <3> QED
      BY <1>10, <2>2, <3>1, <3>2 DEF Leaves, Exit
  <2> QED
    BY <1>10, <2>1, <2>2 DEF Leaves
<1>11. CASE Within(p)
  BY <1>11 DEF Within
<1>12. CASE Aside(p)
  BY <1>12 DEF Aside
<1> QED
  BY <1>1, <1>2, <1>3, <1>4, <1>5, <1>6, <1>7, <1>8, <1>9, <1>10, <1>11, <1>12, Kinds

IInv == TypeOK /\ HandleInv /\ SchemaInv /\ AloneInv /\ DamageInv

\* No file is damaged yet.
LEMMA DamageInit == Init => DamageInv
BY DEF Init, DamageInv, EvidenceInv

LEMMA DamageNext ==
    TypeOK /\ HandleInv /\ AloneInv /\ DamageInv /\ [Next]_vars => DamageInv'
<1> SUFFICES ASSUME TypeOK, HandleInv, AloneInv, DamageInv, [Next]_vars PROVE DamageInv'
  OBVIOUS
<1>1. ASSUME NEW p \in Procs, Step(p), ~raced', ~misled' PROVE EvidenceInv'
  <2>1. ~raced /\ ~misled
    BY <1>1, FlagsStay
  <2> QED
    BY <1>1, <2>1, EvidenceNext DEF DamageInv
<1>2. CASE UNCHANGED vars
  BY <1>2 DEF vars, disk, file, counters, flags, DamageInv, EvidenceInv
<1> QED
  BY <1>1, <1>2, Steps DEF DamageInv
-----------------------------------------------------------------------------
(***************************************************************************)
(* The inductive invariant.                                                *)
(***************************************************************************)
THEOREM Inductive == Spec => []IInv
<1>1. Init => IInv
  BY TypeInit, HandleInit, DamageInit DEF IInv
<1>2. IInv /\ [Next]_vars => IInv'
  BY TypeNext, HandleNext, SchemaNext, AloneNext, DamageNext DEF IInv
<1> QED
  BY <1>1, <1>2, PTL DEF Spec

(***************************************************************************)
(* Every variable keeps its type.                                          *)
(***************************************************************************)
THEOREM TypeCorrect == Spec => []TypeOK
<1>1. IInv => TypeOK
  BY DEF IInv
<1> QED
  BY <1>1, Inductive, PTL

(***************************************************************************)
(* The session has one holder, unless two were inside acquire_session() at *)
(* once: the holder is the process that .runtime_active names.             *)
(***************************************************************************)
THEOREM HolderIsUnique == Spec => []AtMostOneHolder
<1>1. IInv => AtMostOneHolder
  <2> SUFFICES ASSUME IInv, ~raced
               PROVE Cardinality({p \in Procs : pc[p] \in Holding}) <= 1
    BY DEF AtMostOneHolder
  <2>1. {p \in Procs : pc[p] \in Holding} \subseteq {active}
    BY DEF IInv, AloneInv
  <2>2. IsFiniteSet({active}) /\ Cardinality({active}) = 1
    BY FS_Singleton
  <2> QED
    BY <2>1, <2>2, FS_Subset, FS_CardinalityType
<1> QED
  BY <1>1, Inductive, PTL

(***************************************************************************)
(* Damage is found before the engine is Ready, wherever processes died.    *)
(***************************************************************************)
THEOREM DamageIsDetected == Spec => []DamageDetected
<1>1. IInv => DamageDetected
  BY DEF IInv, DamageDetected, Served, DamageInv, EvidenceInv, HandleInv, Idle, Late
<1> QED
  BY <1>1, Inductive, PTL

(***************************************************************************)
(* No write, and no checkpoint, runs once the session is being released.   *)
(***************************************************************************)
THEOREM NothingWrittenLate == Spec => []NoWriteAfterRelease
<1>1. IInv => NoWriteAfterRelease
  BY DEF IInv, NoWriteAfterRelease, HandleInv, LockHeld
<1> QED
  BY <1>1, Inductive, PTL

(***************************************************************************)
(* The engine is Ready only on a database with the whole schema.           *)
(***************************************************************************)
THEOREM SchemaIsComplete == Spec => []SchemaComplete
<1>1. IInv => SchemaComplete
  BY DEF IInv, SchemaComplete, Served, SchemaInv
<1> QED
  BY <1>1, Inductive, PTL
-----------------------------------------------------------------------------
(***************************************************************************)
(* Refinement: every step of a process is a step, or a stutter, of         *)
(* SessionLease.                                                           *)
(***************************************************************************)
LEMMA InvNext == IInv /\ [Next]_vars => IInv'
  BY TypeNext, HandleNext, SchemaNext, AloneNext, DamageNext DEF IInv

\* Undisturbed, the owner is the process that holds the session, and it alone can be serving.
Described ==
    /\ \A p \in Procs : pc[p] \in Holding =>
           /\ Owner = p
           /\ \A q \in Procs : pc[q] \in Holding => q = p
           /\ Serving <=> engine[p] \in {"Ready", "Stopping"} /\ conn[p] = "live"
    /\ (\A p \in Procs : pc[p] \notin Holding) => Owner = None /\ ~Serving

LEMMA Describes == IInv /\ ~raced /\ ~misled => Described
<1> SUFFICES ASSUME IInv, ~raced, ~misled PROVE Described
  OBVIOUS
<1>1. \A q \in Procs : conn[q] = "live" => pc[q] \in Holding
  BY DEF IInv, HandleInv
<1>2. ASSUME NEW p \in Procs, pc[p] \in Holding
      PROVE  /\ Owner = p
             /\ \A q \in Procs : pc[q] \in Holding => q = p
             /\ Serving <=> engine[p] \in {"Ready", "Stopping"} /\ conn[p] = "live"
  <2>1. \A q \in Procs : pc[q] \in Holding => q = p
    BY <1>2 DEF IInv, AloneInv
  <2>2. Owner = p
    BY <1>2, <2>1 DEF Owner
  <2> QED
    BY <1>1, <1>2, <2>1, <2>2 DEF Serving
<1>3. ASSUME \A p \in Procs : pc[p] \notin Holding PROVE Owner = None /\ ~Serving
  BY <1>1, <1>3 DEF Owner, Serving
<1> QED
  BY <1>2, <1>3 DEF Described

LEMMA DescribesNext == IInv' /\ ~raced' /\ ~misled' => Described'
<1> SUFFICES ASSUME IInv', ~raced', ~misled' PROVE Described'
  OBVIOUS
<1>1. \A q \in Procs : conn'[q] = "live" => pc'[q] \in Holding
  BY DEF IInv, HandleInv
<1>2. ASSUME NEW p \in Procs, pc'[p] \in Holding
      PROVE  /\ Owner' = p
             /\ \A q \in Procs : pc'[q] \in Holding => q = p
             /\ Serving' <=> engine'[p] \in {"Ready", "Stopping"} /\ conn'[p] = "live"
  <2>1. \A q \in Procs : pc'[q] \in Holding => q = p
    BY <1>2 DEF IInv, AloneInv
  <2>2. Owner' = p
    BY <1>2, <2>1 DEF Owner
  <2> QED
    BY <1>1, <1>2, <2>1, <2>2 DEF Serving
<1>3. ASSUME \A p \in Procs : pc'[p] \notin Holding PROVE Owner' = None /\ ~Serving'
  BY <1>1, <1>3 DEF Owner, Serving
<1> QED
  BY <1>2, <1>3 DEF Described

LEMMA Booleans == Serving \in BOOLEAN /\ Suspect \in BOOLEAN /\ Serving' \in BOOLEAN /\ Suspect' \in BOOLEAN
  BY DEF Serving, Suspect

\* An engine that serves through its connection to the file in place.
Serves(p) == engine[p] \in {"Ready", "Stopping"} /\ conn[p] = "live"

\* Nobody came to hold the session or ceased to, and whoever holds it serves as before.
LEMMA Stutter ==
    ASSUME Described, Described', Suspect' = Suspect,
           \A q \in Procs : pc'[q] \in Holding <=> pc[q] \in Holding,
           \A q \in Procs : pc[q] \in Holding => (Serves(q)' <=> Serves(q))
    PROVE  UNCHANGED Lease!vars
<1>1. CASE \E q \in Procs : pc[q] \in Holding
  <2>1. PICK q \in Procs : pc[q] \in Holding
    BY <1>1
  <2>2. Owner' = Owner
    BY <2>1 DEF Described
  <2>3. (Serving <=> Serves(q)) /\ (Serving' <=> Serves(q)')
    BY <2>1 DEF Described, Serves
  <2>4. Serving' = Serving
    BY <2>1, <2>3, Booleans
  <2> QED
    BY <2>2, <2>4 DEF Lease!vars
<1>2. CASE \A q \in Procs : pc[q] \notin Holding
  <2>1. Owner' = Owner
    BY <1>2 DEF Described
  <2>2. Serving' = Serving
    BY <1>2, Booleans DEF Described
  <2> QED
    BY <2>1, <2>2 DEF Lease!vars
<1> QED
  BY <1>1, <1>2

\* The holder of the session ends without a release: nobody holds it any more.
LEMMA HolderLeaves ==
    ASSUME TypeOK, Described, Described', NEW p \in Procs, pc[p] \in Holding, Exit(p),
           db' \in {db, "damaged"}
    PROVE  Lease!Die(p)
<1>1. \A q \in Procs : pc'[q] \notin Holding
  BY DEF Described, Exit, TypeOK
<1>2. Owner = p /\ Owner' = None
  BY <1>1 DEF Described
<1>3. Serving' = FALSE
  BY <1>1, Booleans DEF Described
<1>4. Suspect' \in {Suspect, TRUE}
  BY DEF Suspect
<1> QED
  BY <1>2, <1>3, <1>4 DEF Lease!Die

\* A step by which the holder stays the holder, so that only what is served can change.
LEMMA HolderStays ==
    ASSUME TypeOK, Described, Described', NEW p \in Procs, pc[p] \in Holding, pc'[p] \in Holding
    PROVE  Owner = p /\ Owner' = p /\ Serving = Serves(p) /\ Serving' = Serves(p)'
<1>1. Owner = p /\ Owner' = p
  BY DEF Described
<1>2. (Serving <=> Serves(p)) /\ (Serving' <=> Serves(p)')
  BY DEF Described, Serves
<1>3. Serves(p) \in BOOLEAN /\ Serves(p)' \in BOOLEAN
  BY DEF Serves
<1> QED
  BY <1>1, <1>2, <1>3, Booleans

\* Undisturbed, every step of a process is a step of the lease.
LEMMA StepMapped ==
    ASSUME IInv, IInv', NEW p \in Procs, Step(p), ~raced', ~misled'
    PROVE  Lease!Next \/ UNCHANGED Lease!vars
<1> TypeOK /\ HandleInv /\ AloneInv /\ DamageInv
  BY DEF IInv
<1>1. ~raced /\ ~misled
  BY FlagsStay
<1>2. Described /\ Described'
  BY <1>1, Describes, DescribesNext
<1>3. EvidenceInv
  BY <1>1 DEF DamageInv
<1> USE DEF TypeOK, disk, file, inner, counters, flags
<1>4. CASE Start(p) \/ InspectRead(p) \/ CheckClean(p) \/ RemoveClean(p) \/ Truncate(p)
           \/ ApplyMigration(p) \/ RecoverRest(p) \/ ReinitDone(p) \/ WriteCall(p)
           \/ WriteLock(p) \/ WriteDone(p) \/ CheckpointLock(p) \/ CheckpointDone(p)
           \/ CheckpointWait(p)
  <2>1. /\ db' = db /\ engine' = engine /\ conn' = conn
        /\ \A q \in Procs : pc'[q] \in Holding <=> pc[q] \in Holding
    BY <1>4 DEF Start, InspectRead, CheckClean, RemoveClean, Truncate, ApplyMigration, RecoverRest,
       ReinitDone, WriteCall, WriteLock, WriteDone, CheckpointLock, CheckpointDone, CheckpointWait
  <2> QED
    BY <1>2, <2>1, Stutter DEF Suspect, Serves
<1>5. CASE Open(p) \/ Verify(p) \/ Degrade(p) \/ Reinit(p)
  <2>1. \A q \in Procs : pc'[q] \in Holding <=> pc[q] \in Holding
    BY <1>5 DEF Open, Verify, Degrade, Reinit
  <2>2. Suspect' = Suspect
    BY <1>5 DEF Open, Verify, Degrade, Reinit, Suspect
  <2>3. \A q \in Procs : Serves(q)' <=> Serves(q)
    BY <1>5 DEF Open, Verify, Degrade, Reinit, Serves, HandleInv, Idle
  <2> QED
    BY <1>2, <2>1, <2>2, <2>3, Stutter
<1>6. ASSUME pc[p] \notin Holding, Exit(p), db' = db PROVE UNCHANGED Lease!vars
  <2>1. \A q \in Procs : pc'[q] \in Holding <=> pc[q] \in Holding
    BY <1>6 DEF Exit
  <2>2. \A q \in Procs : pc[q] \in Holding => (Serves(q)' <=> Serves(q))
    BY <1>6 DEF Exit, Serves
  <2> QED
    BY <1>2, <1>6, <2>1, <2>2, Stutter DEF Suspect
<1>7. CASE InspectAlive(p)
  <2>1. CASE Exit(p)
    BY <1>6, <1>7, <2>1 DEF InspectAlive
  <2>2. CASE ~Exit(p)
    <3>1. /\ db' = db /\ engine' = engine /\ conn' = conn
          /\ \A q \in Procs : pc'[q] \in Holding <=> pc[q] \in Holding
      BY <1>7, <2>2 DEF InspectAlive
    <3> QED
      BY <1>2, <3>1, Stutter DEF Suspect, Serves
  <2> QED
    BY <2>1, <2>2
<1>8. CASE ReleaseTmp(p) \/ ReleaseRename(p)
  <2>1. CASE Exit(p)
    BY <1>6, <1>8, <2>1 DEF ReleaseTmp, ReleaseRename
  <2>2. CASE ~Exit(p)
    <3>1. /\ db' = db /\ engine' = engine /\ conn' = conn
          /\ \A q \in Procs : pc'[q] \in Holding <=> pc[q] \in Holding
      BY <1>8, <2>2 DEF ReleaseTmp, ReleaseRename
    <3> QED
      BY <1>2, <3>1, Stutter DEF Suspect, Serves
  <2> QED
    BY <2>1, <2>2
<1>9. CASE WriteSession(p)
  <2>1. \A q \in Procs : pc[q] \notin Holding
    BY <1>1, <1>9 DEF WriteSession, AloneInv
  <2>2. pc'[p] \in Holding /\ engine'[p] = "Uninitialized" /\ db' = db
    BY <1>9 DEF WriteSession, HandleInv, Idle
  <2>3. Owner = None /\ Serving = FALSE
    BY <1>2, <2>1, Booleans DEF Described
  <2>4. Owner' = p /\ Serving' = FALSE
    BY <1>2, <2>2, Booleans DEF Described
  <2>5. Lease!Acquire(p)
    BY <2>2, <2>3, <2>4 DEF Lease!Acquire, Suspect
  <2> QED
    BY <2>5 DEF Lease!Next
<1>10. CASE Quarantine(p) \/ Recover(p)
  <2>1. MoveAway /\ pc[p] \in Holding /\ pc'[p] \in Holding /\ engine' = engine
    BY <1>10 DEF Quarantine, Recover
  <2>2. CASE db' = "absent" /\ conn'[p] # "live"
    <3>1. Lease!Examine(p)
      BY <1>2, <2>1, <2>2, HolderStays DEF Lease!Examine, Suspect, Serves
    <3> QED
      BY <3>1 DEF Lease!Next
  <2>3. CASE UNCHANGED <<db, conn>>
    <3>1. \A q \in Procs : pc'[q] \in Holding <=> pc[q] \in Holding
      BY <1>10 DEF Quarantine, Recover
    <3> QED
      BY <1>2, <2>1, <2>3, <3>1, Stutter DEF Suspect, Serves
  <2> QED
    BY <2>1, <2>2, <2>3 DEF MoveAway
<1>11. CASE Migrate(p) \/ StopBegin(p)
  <2>1. /\ pc[p] \in Holding /\ pc'[p] \in Holding /\ db' = db /\ conn' = conn
        /\ engine'[p] \in {"Ready", "Stopping"}
        /\ \A q \in Procs : q # p => engine'[q] = engine[q]
        /\ \A q \in Procs : pc'[q] \in Holding <=> pc[q] \in Holding
    BY <1>11 DEF Migrate, StopBegin
  <2>2. Suspect = FALSE
    BY <1>3, <1>11 DEF Migrate, StopBegin, EvidenceInv, Idle, Late, Suspect
  <2>3. CASE conn[p] = "live"
    <3>1. Serving' = TRUE
      BY <1>2, <2>1, <2>3, HolderStays DEF Serves
    <3>2. Owner = p /\ Owner' = p
      BY <1>2, <2>1, HolderStays
    <3>3. Lease!Serve(p)
      BY <2>1, <2>2, <3>1, <3>2 DEF Lease!Serve, Suspect
    <3> QED
      BY <3>3 DEF Lease!Next
  <2>4. CASE conn[p] # "live"
    <3>1. \A q \in Procs : Serves(q)' <=> Serves(q)
      BY <2>1, <2>4 DEF Serves
    <3> QED
      BY <1>2, <2>1, <3>1, Stutter DEF Suspect
  <2> QED
    BY <2>3, <2>4
<1>12. CASE CloseHandles(p)
  <2>1. pc[p] \in Holding /\ pc'[p] \in Holding /\ db' = db /\ conn'[p] # "live"
    BY <1>12 DEF CloseHandles
  <2>2. Lease!Close(p)
    BY <1>2, <2>1, HolderStays DEF Lease!Close, Suspect, Serves
  <2> QED
    BY <2>2 DEF Lease!Next
<1>13. CASE ReleaseActive(p)
  <2>1. pc[p] \in Holding /\ db' = db /\ conn[p] = "none"
    BY <1>13 DEF ReleaseActive, HandleInv
  <2>2. \A q \in Procs : pc'[q] \notin Holding
    BY <1>2, <1>13 DEF ReleaseActive, Described
  <2>3. Owner = p /\ Serving = FALSE
    BY <1>2, <2>1, Booleans DEF Described
  <2>4. Owner' = None /\ Serving' = FALSE
    BY <1>2, <2>2, Booleans DEF Described
  <2>5. Lease!Release(p)
    BY <2>1, <2>3, <2>4 DEF Lease!Release, Suspect
  <2> QED
    BY <2>5 DEF Lease!Next
<1>14. CASE InitError(p) \/ Crash(p)
  <2>1. Exit(p) /\ db' \in {db, "damaged"}
    BY <1>14 DEF InitError, Crash
  <2>2. pc[p] \notin Holding => db' = db
    BY <1>14 DEF InitError, Crash, HandleInv
  <2>3. pc[p] \in Holding => Lease!Die(p)
    BY <1>2, <2>1, HolderLeaves
  <2> QED
    BY <1>6, <2>1, <2>2, <2>3 DEF Lease!Next
<1> QED
  BY <1>4, <1>5, <1>7, <1>8, <1>9, <1>10, <1>11, <1>12, <1>13, <1>14 DEF Step

\* Each step is one of the lease, or none.
LEMMA NextMapped == IInv /\ [Next]_vars => [Lease!Next]_(Lease!vars)
<1> SUFFICES ASSUME IInv, [Next]_vars PROVE Lease!Next \/ UNCHANGED Lease!vars
  OBVIOUS
<1>1. CASE raced' \/ misled'
  <2>1. Owner' = Torn
    BY <1>1 DEF Owner
  <2>2. Lease!Contend
    BY <2>1, Booleans DEF Lease!Contend
  <2> QED
    BY <2>2 DEF Lease!Next
<1>2. CASE UNCHANGED vars
  BY <1>2 DEF vars, disk, file, inner, counters, flags, Lease!vars, Owner, Suspect, Serving
<1>3. ASSUME ~raced', ~misled', NEW p \in Procs, Step(p)
      PROVE  Lease!Next \/ UNCHANGED Lease!vars
  BY <1>3, InvNext, StepMapped
<1> QED
  BY <1>1, <1>2, <1>3, Steps

\* The session starts as the lease does.
LEMMA InitMapped == Init => Lease!Init
  BY DEF Init, Lease!Init, Owner, Suspect, Serving

(***************************************************************************)
(* The processes implement the lease: one owner from its marker to its     *)
(* release, that serves only data it has examined, for as long as no two   *)
(* get in each other's way.                                                *)
(***************************************************************************)
THEOREM Implements == Spec => LeaseSpec
  BY InitMapped, Inductive, NextMapped, PTL DEF Spec, LeaseSpec, Lease!Spec
=============================================================================

--------------------------- MODULE ObservationQueue ---------------------------
(***************************************************************************)
(* The durable observation queue (storage/repositories/queue.rs) and what  *)
(* the pruner deletes from it (storage/pruner.rs).                         *)
(*                                                                         *)
(* A write runs in a with_writer closure, under the writer's mutex; each   *)
(* UPDATE in it commits on its own.  So a step is one statement: another   *)
(* writer waits for the closure to return, while a reader sees what has    *)
(* been committed so far, and an error or a crash keeps it.                *)
(*                                                                         *)
(* The senders are the queue's clients: they fetch a batch, and later mark *)
(* and report on the identifiers in it, whatever happened in between.      *)
(***************************************************************************)
EXTENDS Naturals, FiniteSets

CONSTANTS
    Payloads,     \* observation contents, told apart by their SHA-256 hash
    NoPayload,    \* the hash of a row that has not been inserted
    Senders,      \* clients that deliver observations
    Free, Sweeper, \* the writer's mutex: free, or held by the requeue
    BatchLimit,   \* LIMIT of fetch_queued_batch
    MaxRetries,   \* max_retries of requeue_stale_in_flight
    MaxRows,      \* bound: rows ever inserted
    MaxAccepted,  \* bound: successful enqueue() calls, by payload
    MaxCrashes    \* bound: crashes of the process

ASSUME QueueAssumption ==
    /\ NoPayload \notin Payloads
    /\ Free \notin Senders /\ Sweeper \notin Senders /\ Free # Sweeper
    /\ BatchLimit \in Nat /\ MaxRetries \in Nat \ {0}
    /\ MaxRows \in Nat /\ MaxAccepted \in Nat /\ MaxCrashes \in Nat

VARIABLES
    rows,      \* how many rows have ever been inserted
    hash,      \* sha256_hash of each row
    status,    \* status of each row, or that it is not there yet or no longer
    retry,     \* retry_count of each row
    stale,     \* rows whose updated_at is before the requeue's cutoff
    writer,    \* who holds the writer's mutex between two statements
    pc,        \* what each sender is doing
    batch,     \* the identifiers each sender has fetched
    todo,      \* those its running write has still to update
    accepted,  \* history: how many enqueue() calls returned Ok, by payload
    overdue,   \* history: rows whose current flight has lasted the timeout
    crashes

table == <<rows, hash, status, retry, stale, overdue>>
clients == <<pc, batch, todo>>
vars == <<table, writer, clients, accepted, crashes>>

\* Identifiers are UUIDv7: numbering the rows as they are inserted orders them by created_at.
Ids == 1..MaxRows

Live == {"QUEUED", "IN_FLIGHT"}
Settled == {"ACKNOWLEDGED", "DEAD_LETTER"}

Writing == {"marking", "acknowledging", "rejecting"}

TypeOK ==
    /\ rows \in 0..MaxRows
    /\ hash \in [Ids -> Payloads \cup {NoPayload}]
    /\ status \in [Ids -> Live \cup Settled \cup {"NONE", "DELETED"}]
    /\ retry \in [Ids -> Nat]
    /\ stale \subseteq Ids /\ overdue \subseteq Ids
    /\ writer \in Senders \cup {Free, Sweeper}
    /\ pc \in [Senders -> {"idle", "fetched", "sent"} \cup Writing]
    /\ batch \in [Senders -> SUBSET Ids]
    /\ todo \in [Senders -> SUBSET Ids]
    /\ accepted \in [Payloads -> Nat]
    /\ crashes \in 0..MaxCrashes

Init ==
    /\ rows = 0
    /\ hash = [i \in Ids |-> NoPayload]
    /\ status = [i \in Ids |-> "NONE"]
    /\ retry = [i \in Ids |-> 0]
    /\ stale = {} /\ overdue = {}
    /\ writer = Free
    /\ pc = [s \in Senders |-> "idle"]
    /\ batch = [s \in Senders |-> {}]
    /\ todo = [s \in Senders |-> {}]
    /\ accepted = [h \in Payloads |-> 0]
    /\ crashes = 0

Queued == {i \in Ids : status[i] = "QUEUED"}
InFlight == {i \in Ids : status[i] = "IN_FLIGHT"}
-----------------------------------------------------------------------------
\* SELECT ... WHERE sha256_hash = ?1 AND status = 'QUEUED'
Duplicates_AnyStatus(h) == {i \in Ids : hash[i] = h /\ status[i] \in Live \cup Settled}

Duplicates(h) == {i \in Queued : hash[i] = h}

\* A queued duplicate is only touched.
EnqueueDuplicate(h) ==
    /\ \E i \in Duplicates(h) : stale' = stale \ {i}
    /\ UNCHANGED <<rows, hash, status, retry, overdue>>

EnqueueNew(h) ==
    /\ Duplicates(h) = {}
    /\ rows < MaxRows
    /\ rows' = rows + 1
    /\ hash' = [hash EXCEPT ![rows + 1] = h]
    /\ status' = [status EXCEPT ![rows + 1] = "QUEUED"]
    /\ UNCHANGED <<retry, stale, overdue>>

Enqueue(h) ==
    /\ writer = Free
    /\ accepted[h] < MaxAccepted
    /\ EnqueueDuplicate(h) \/ EnqueueNew(h)
    /\ accepted' = [accepted EXCEPT ![h] = accepted[h] + 1]
    /\ UNCHANGED <<writer, clients, crashes>>

\* ORDER BY created_at ASC LIMIT: the oldest queued rows.
Oldest(B) ==
    /\ B \subseteq Queued
    /\ \A i \in B, j \in Queued \ B : i < j
    /\ Cardinality(B) <= BatchLimit
    /\ Cardinality(B) < BatchLimit => B = Queued

\* A read, which does not wait for the writer.
FetchQueuedBatch(s) ==
    /\ pc[s] = "idle"
    /\ \E B \in SUBSET Queued :
           /\ B # {} /\ Oldest(B)
           /\ batch' = [batch EXCEPT ![s] = B]
    /\ pc' = [pc EXCEPT ![s] = "fetched"]
    /\ UNCHANGED <<table, writer, todo, accepted, crashes>>
-----------------------------------------------------------------------------
\* A client's write takes the mutex, then updates the identifiers one by one.
Acquire(s, write, ids) ==
    /\ writer = Free
    /\ ids # {}
    /\ writer' = s
    /\ pc' = [pc EXCEPT ![s] = write]
    /\ todo' = [todo EXCEPT ![s] = ids]
    /\ UNCHANGED <<table, batch, accepted, crashes>>

MarkInFlight(s) == pc[s] = "fetched" /\ Acquire(s, "marking", batch[s])

\* A client may deliver without marking, and reports on as many identifiers as it has answers.
MarkAcknowledged(s) ==
    \E ids \in SUBSET batch[s] :
        pc[s] \in {"fetched", "sent"} /\ Acquire(s, "acknowledging", ids)

MarkDeadLetter(s) ==
    \E ids \in SUBSET batch[s] :
        pc[s] \in {"fetched", "sent"} /\ Acquire(s, "rejecting", ids)

\* UPDATE ... WHERE id = ?: one row, with a new updated_at.
Touch(s, i) ==
    /\ todo' = [todo EXCEPT ![s] = todo[s] \ {i}]
    /\ stale' = stale \ {i}
    /\ UNCHANGED <<rows, hash, writer, pc, batch, accepted, crashes>>

\* UPDATE ... WHERE id = ? AND status = 'QUEUED' found nothing.
Skip(s, i) ==
    /\ todo' = [todo EXCEPT ![s] = todo[s] \ {i}]
    /\ UNCHANGED <<table, writer, pc, batch, accepted, crashes>>

MarkOne_AnyStatus(s, i) ==
    /\ pc[s] = "marking"
    /\ IF status[i] \in Live \cup Settled
       THEN /\ status' = [status EXCEPT ![i] = "IN_FLIGHT"]
            /\ retry' = [retry EXCEPT ![i] = retry[i] + 1]
            /\ overdue' = overdue \ {i}
            /\ Touch(s, i)
       ELSE Skip(s, i)

MarkOne_KeepsUpdatedAt(s, i) ==
    /\ pc[s] = "marking"
    /\ IF status[i] = "QUEUED"
       THEN /\ status' = [status EXCEPT ![i] = "IN_FLIGHT"]
            /\ retry' = [retry EXCEPT ![i] = retry[i] + 1]
            /\ overdue' = overdue \ {i}
            /\ todo' = [todo EXCEPT ![s] = todo[s] \ {i}]
            /\ UNCHANGED <<rows, hash, stale, writer, pc, batch, accepted, crashes>>
       ELSE Skip(s, i)

MarkOne(s, i) ==
    /\ pc[s] = "marking"
    /\ IF status[i] = "QUEUED"
       THEN /\ status' = [status EXCEPT ![i] = "IN_FLIGHT"]
            /\ retry' = [retry EXCEPT ![i] = retry[i] + 1]
            /\ overdue' = overdue \ {i}
            /\ Touch(s, i)
       ELSE Skip(s, i)

Resolution(s) == IF pc[s] = "acknowledging" THEN "ACKNOWLEDGED" ELSE "DEAD_LETTER"

\* No condition on the status: a late report overrides whatever the row has become.
ReportOne(s, i) ==
    /\ pc[s] \in {"acknowledging", "rejecting"}
    /\ IF status[i] \in Live \cup Settled
       THEN /\ status' = [status EXCEPT ![i] = Resolution(s)]
            /\ UNCHANGED <<retry, overdue>>
            /\ Touch(s, i)
       ELSE Skip(s, i)

UpdateOne(s) ==
    \E i \in todo[s] :
        /\ \A j \in todo[s] : i <= j
        /\ MarkOne(s, i) \/ ReportOne(s, i)

\* The closure returns; the client goes on to send what it marked, or is done.
WriteReturns(s) ==
    /\ pc[s] \in Writing /\ todo[s] = {}
    /\ writer' = Free
    /\ pc' = [pc EXCEPT ![s] = IF pc[s] = "marking" THEN "sent" ELSE "idle"]
    /\ batch' = [batch EXCEPT ![s] = IF pc[s] = "marking" THEN batch[s] ELSE {}]
    /\ UNCHANGED <<table, todo, accepted, crashes>>

\* A statement fails: those before it stay committed and the client gives up.
WriteFails(s) ==
    /\ pc[s] \in Writing /\ todo[s] # {}
    /\ writer' = Free
    /\ pc' = [pc EXCEPT ![s] = "idle"]
    /\ batch' = [batch EXCEPT ![s] = {}]
    /\ todo' = [todo EXCEPT ![s] = {}]
    /\ UNCHANGED <<table, accepted, crashes>>

\* No answer comes back.
GiveUp(s) ==
    /\ pc[s] \in {"fetched", "sent"}
    /\ pc' = [pc EXCEPT ![s] = "idle"]
    /\ batch' = [batch EXCEPT ![s] = {}]
    /\ UNCHANGED <<table, writer, todo, accepted, crashes>>
-----------------------------------------------------------------------------
\* requeue_stale_in_flight, first statement: attempts are exhausted.
Exhausted == {i \in InFlight \cap stale : retry[i] >= MaxRetries}

RequeueExhausted ==
    /\ writer = Free
    /\ writer' = Sweeper
    /\ status' = [i \in Ids |-> IF i \in Exhausted THEN "DEAD_LETTER" ELSE status[i]]
    /\ stale' = stale \ Exhausted
    /\ UNCHANGED <<rows, hash, retry, overdue, clients, accepted, crashes>>

\* Second statement: the others are queued again.
Retryable == {i \in InFlight \cap stale : retry[i] < MaxRetries}

RequeueRetryable ==
    /\ writer = Sweeper
    /\ writer' = Free
    /\ status' = [i \in Ids |-> IF i \in Retryable THEN "QUEUED" ELSE status[i]]
    /\ stale' = stale \ Retryable
    /\ UNCHANGED <<rows, hash, retry, overdue, clients, accepted, crashes>>

RequeueFails ==
    /\ writer = Sweeper
    /\ writer' = Free
    /\ UNCHANGED <<table, clients, accepted, crashes>>

\* Time passes until a row's updated_at falls behind the cutoff.  The requeue takes its
\* cutoff when it starts.  Utc::now() is no monotone clock: the rows age in any order.
Age(i) ==
    /\ writer # Sweeper
    /\ status[i] \in Live /\ i \notin stale
    /\ stale' = stale \cup {i}
    /\ overdue' = IF status[i] = "IN_FLIGHT" THEN overdue \cup {i} ELSE overdue
    /\ UNCHANGED <<rows, hash, status, retry, writer, clients, accepted, crashes>>

\* execute_prune: acknowledged and dead-lettered rows past their retention, and under
\* storage pressure more of the acknowledged ones.  Retentions are not told apart.
Prunable_All == {i \in Ids : status[i] \in Live \cup Settled}

Prunable == {i \in Ids : status[i] \in Settled}

ExecutePrune ==
    /\ writer = Free
    /\ \E D \in SUBSET Prunable :
           /\ D # {}
           /\ status' = [i \in Ids |-> IF i \in D THEN "DELETED" ELSE status[i]]
    /\ UNCHANGED <<rows, hash, retry, stale, overdue, writer, clients, accepted, crashes>>

\* The process dies and is started again: what was committed is what there is.
Crash ==
    /\ crashes < MaxCrashes
    /\ crashes' = crashes + 1
    /\ writer' = Free
    /\ pc' = [s \in Senders |-> "idle"]
    /\ batch' = [s \in Senders |-> {}]
    /\ todo' = [s \in Senders |-> {}]
    /\ UNCHANGED <<table, accepted>>

Next ==
    \/ \E h \in Payloads : Enqueue(h)
    \/ \E s \in Senders :
          \/ FetchQueuedBatch(s)
          \/ MarkInFlight(s) \/ MarkAcknowledged(s) \/ MarkDeadLetter(s)
          \/ UpdateOne(s) \/ WriteReturns(s) \/ WriteFails(s) \/ GiveUp(s)
    \/ RequeueExhausted \/ RequeueRetryable \/ RequeueFails
    \/ \E i \in Ids : Age(i)
    \/ ExecutePrune
    \/ Crash

Spec == Init /\ [][Next]_vars
-----------------------------------------------------------------------------
\* No row is ever attempted more often than max_retries, whatever senders work on
\* overlapping batches and wherever a requeue is cut short: mark_in_flight counts an
\* attempt only on a queued row, and requeue_stale_in_flight queues no exhausted one.
RetriesBounded ==
    \A i \in Ids :
        /\ retry[i] <= MaxRetries
        /\ status[i] = "QUEUED" => retry[i] < MaxRetries

\* A settled row never becomes live again: neither a sender that fetched it before it was
\* settled nor a requeue can bring it back.  (A late report may still turn
\* ACKNOWLEDGED into DEAD_LETTER and back: mark_* look at no status.)
SettledStays ==
    [][\A i \in Ids : status[i] \in Settled => status'[i] \in Settled \cup {"DELETED"}]_vars

\* Only a flight that has lasted the timeout is taken from its sender: a row that waited
\* in the queue for long is not swept as soon as it is marked in flight.
FlightKeepsItsTime ==
    [][\A i \in Ids :
          status[i] = "IN_FLIGHT" /\ status'[i] \notin {"IN_FLIGHT", "ACKNOWLEDGED"}
          => i \in overdue \/ \E s \in Senders : pc[s] = "rejecting" /\ i \in todo[s]]_vars

\* At the level of payloads: an accepted payload stays owed until a sender that was handed
\* it reports an outcome or its attempts are exhausted (deduplication, the requeue, the
\* pruner and crashes lose none).
Owed == {hash[i] : i \in Queued \cup InFlight}

Worn == {hash[i] : i \in {j \in Queued \cup InFlight : retry[j] >= MaxRetries}}

Delivery ==
    INSTANCE ObservationDelivery
        WITH owed <- Owed,
             inHand <- [s \in Senders |-> {hash[i] : i \in batch[s]}],
             worn <- Worn

DeliverySpec == Delivery!Spec
=============================================================================

------------------------ MODULE ObservationQueueProofs ------------------------
(***************************************************************************)
(* Proofs about the observation queue, for any number of payloads, senders *)
(* and rows.  The inductive invariant adds to the type invariant and the   *)
(* bound on attempts: which rows exist, that senders hold only rows that   *)
(* exist, and that a row in flight is stale only after its timeout.        *)
(***************************************************************************)
EXTENDS ObservationQueue, TLAPS

RowsInv ==
    \A i \in Ids :
        IF i <= rows
        THEN hash[i] \in Payloads /\ status[i] # "NONE"
        ELSE status[i] = "NONE" /\ retry[i] = 0

HandsInv ==
    \A s \in Senders :
        /\ \A i \in batch[s] : i <= rows
        /\ todo[s] \subseteq batch[s]
        /\ pc[s] \notin Writing => todo[s] = {}

StaleInv == \A i \in Ids : status[i] = "IN_FLIGHT" /\ i \in stale => i \in overdue

IInv == TypeOK /\ RetriesBounded /\ RowsInv /\ HandsInv /\ StaleInv

\* The invariant holds before the first call.
LEMMA InitInv == Init => IInv
  <1> SUFFICES ASSUME Init PROVE IInv
    OBVIOUS
  <1> USE QueueAssumption DEF Init, Ids
  <1>1. TypeOK
    BY DEF TypeOK, Live, Settled, Writing
  <1>2. RetriesBounded
    BY DEF RetriesBounded
  <1>3. RowsInv /\ HandsInv /\ StaleInv
    BY DEF RowsInv, HandsInv, StaleInv
  <1> QED
    BY <1>1, <1>2, <1>3 DEF IInv

\* enqueue() keeps the invariant: the row it inserts is the next one, never attempted.
LEMMA EnqueueInv == ASSUME IInv, NEW h \in Payloads, Enqueue(h) PROVE IInv'
  <1>1. TypeOK /\ RetriesBounded /\ RowsInv /\ HandsInv /\ StaleInv
    BY DEF IInv
  <1>2. /\ UNCHANGED <<writer, pc, batch, todo, crashes>>
        /\ accepted' \in [Payloads -> Nat]
    BY <1>1 DEF Enqueue, clients, TypeOK
  <1>3. CASE EnqueueDuplicate(h)
    <2>1. stale' \subseteq stale /\ UNCHANGED <<rows, hash, status, retry, overdue>>
      BY <1>3 DEF EnqueueDuplicate
    <2>2. TypeOK'
      BY <1>1, <1>2, <2>1 DEF TypeOK, Ids
    <2>3. RetriesBounded' /\ RowsInv' /\ HandsInv' /\ StaleInv'
      BY <1>1, <1>2, <2>1 DEF RetriesBounded, RowsInv, HandsInv, StaleInv
    <2> QED
      BY <2>2, <2>3 DEF IInv
  <1>4. CASE EnqueueNew(h)
    <2>1. /\ rows + 1 \in Ids /\ rows' = rows + 1 /\ rows \in Nat
          /\ hash' = [hash EXCEPT ![rows + 1] = h]
          /\ status' = [status EXCEPT ![rows + 1] = "QUEUED"]
          /\ UNCHANGED <<retry, stale, overdue>>
      BY <1>1, <1>4, QueueAssumption DEF EnqueueNew, Ids, TypeOK
    <2>2. TypeOK'
      BY <1>1, <1>2, <2>1, QueueAssumption DEF TypeOK, Ids, Live
    <2>3. RetriesBounded'
      BY <1>1, <2>1, QueueAssumption DEF TypeOK, RetriesBounded, RowsInv
    <2>4. RowsInv'
      BY <1>1, <2>1 DEF TypeOK, RowsInv, Ids
    <2>5. HandsInv'
      BY <1>1, <1>2, <2>1 DEF TypeOK, HandsInv, Ids
    <2>6. StaleInv'
      BY <1>1, <2>1 DEF TypeOK, StaleInv
    <2> QED
      BY <2>2, <2>3, <2>4, <2>5, <2>6 DEF IInv
  <1> QED
    BY <1>3, <1>4 DEF Enqueue

\* What leaves the table alone keeps the parts of the invariant that speak of it.
LEMMA TableFrame ==
    ASSUME IInv, UNCHANGED table
    PROVE  RetriesBounded' /\ RowsInv' /\ StaleInv'
  BY DEF IInv, table, RetriesBounded, RowsInv, StaleInv

\* A fetched row exists.
LEMMA FetchInv == ASSUME IInv, NEW s \in Senders, FetchQueuedBatch(s) PROVE IInv'
  <1> USE DEF FetchQueuedBatch
  <1>1. TypeOK'
    BY DEF IInv, TypeOK, Queued, table
  <1>2. HandsInv'
    <2> SUFFICES ASSUME NEW t \in Senders
                 PROVE  /\ \A i \in batch'[t] : i <= rows'
                        /\ todo'[t] \subseteq batch'[t]
                        /\ pc'[t] \notin Writing => todo'[t] = {}
      BY DEF HandsInv
    <2>1. pc[s] = "idle" /\ UNCHANGED <<rows, todo>>
      BY DEF table
    <2>2. PICK B \in SUBSET Queued : batch' = [batch EXCEPT ![s] = B]
      OBVIOUS
    <2>3. \A i \in B : i \in Ids /\ i <= rows
      BY <2>2 DEF IInv, RowsInv, Queued
    <2> QED
      BY <2>1, <2>2, <2>3 DEF IInv, TypeOK, HandsInv, Writing
  <1> QED
    BY <1>1, <1>2, TableFrame DEF IInv

\* A write begins with identifiers its client holds.
LEMMA AcquireInv ==
    ASSUME IInv, NEW s \in Senders, NEW write \in Writing, NEW ids \in SUBSET batch[s],
           Acquire(s, write, ids)
    PROVE  IInv'
  <1>1. TypeOK'
    BY DEF IInv, TypeOK, Acquire, table
  <1>2. HandsInv'
    BY DEF IInv, TypeOK, HandsInv, Acquire, table
  <1> QED
    BY <1>1, <1>2, TableFrame DEF IInv, Acquire

\* A statement that finds nothing to update only shortens the list.
LEMMA SkipInv ==
    ASSUME IInv, NEW s \in Senders, NEW i \in todo[s], Skip(s, i)
    PROVE  IInv'
  <1>1. TypeOK'
    BY DEF IInv, TypeOK, Skip, table
  <1>2. HandsInv'
    BY DEF IInv, TypeOK, HandsInv, Skip, table
  <1> QED
    BY <1>1, <1>2, TableFrame DEF IInv, Skip

\* One UPDATE of mark_in_flight: a queued row has an attempt left.
LEMMA MarkOneInv ==
    ASSUME IInv, NEW s \in Senders, NEW i \in todo[s], MarkOne(s, i)
    PROVE  IInv'
  <1>1. CASE status[i] = "QUEUED"
    <2>1. /\ i \in Ids /\ i <= rows
          /\ status' = [status EXCEPT ![i] = "IN_FLIGHT"]
          /\ retry' = [retry EXCEPT ![i] = retry[i] + 1]
          /\ overdue' = overdue \ {i}
          /\ stale' = stale \ {i}
          /\ todo' = [todo EXCEPT ![s] = todo[s] \ {i}]
          /\ pc[s] = "marking"
          /\ UNCHANGED <<rows, hash, writer, pc, batch, accepted, crashes>>
      BY <1>1 DEF MarkOne, Touch, IInv, TypeOK, HandsInv
    <2>2. TypeOK'
      BY <2>1 DEF IInv, TypeOK, Live
    <2>3. RetriesBounded'
      BY <1>1, <2>1, QueueAssumption DEF IInv, TypeOK, RetriesBounded
    <2>4. RowsInv'
      BY <2>1 DEF IInv, TypeOK, RowsInv
    <2>5. HandsInv'
      BY <2>1 DEF IInv, TypeOK, HandsInv, Writing
    <2>6. StaleInv'
      BY <2>1 DEF IInv, TypeOK, StaleInv
    <2> QED
      BY <2>2, <2>3, <2>4, <2>5, <2>6 DEF IInv
  <1>2. CASE status[i] # "QUEUED"
    BY <1>2, SkipInv DEF MarkOne
  <1> QED
    BY <1>1, <1>2

\* One UPDATE of mark_acknowledged or mark_dead_letter.
LEMMA ReportOneInv ==
    ASSUME IInv, NEW s \in Senders, NEW i \in todo[s], ReportOne(s, i)
    PROVE  IInv'
  <1>1. CASE status[i] \in Live \cup Settled
    <2>1. /\ i \in Ids /\ i <= rows
          /\ status' = [status EXCEPT ![i] = Resolution(s)]
          /\ Resolution(s) \in Settled
          /\ stale' = stale \ {i}
          /\ todo' = [todo EXCEPT ![s] = todo[s] \ {i}]
          /\ pc[s] \in Writing
          /\ UNCHANGED <<rows, hash, retry, overdue, writer, pc, batch, accepted, crashes>>
      BY <1>1 DEF ReportOne, Touch, Resolution, IInv, TypeOK, HandsInv, Settled, Writing
    <2>2. TypeOK'
      BY <2>1 DEF IInv, TypeOK
    <2>3. RetriesBounded'
      BY <2>1 DEF IInv, TypeOK, RetriesBounded, Settled
    <2>4. RowsInv'
      BY <2>1 DEF IInv, TypeOK, RowsInv, Settled
    <2>5. HandsInv'
      BY <2>1 DEF IInv, TypeOK, HandsInv
    <2>6. StaleInv'
      BY <2>1 DEF IInv, TypeOK, StaleInv, Settled
    <2> QED
      BY <2>2, <2>3, <2>4, <2>5, <2>6 DEF IInv
  <1>2. CASE status[i] \notin Live \cup Settled
    BY <1>2, SkipInv DEF ReportOne
  <1> QED
    BY <1>1, <1>2

\* The steps of a sender's client that leave the table alone, and a crash.
LEMMA ClientInv ==
    ASSUME IInv, \/ \E s \in Senders : WriteReturns(s) \/ WriteFails(s) \/ GiveUp(s)
                 \/ Crash
    PROVE  IInv'
  <1>1. UNCHANGED table
    BY DEF WriteReturns, WriteFails, GiveUp, Crash
  <1>2. ASSUME NEW s \in Senders, WriteReturns(s) PROVE TypeOK' /\ HandsInv'
    <2>1. TypeOK'
      BY <1>2 DEF IInv, TypeOK, WriteReturns, table, Writing
    <2>2. HandsInv'
      BY <1>2 DEF IInv, TypeOK, HandsInv, WriteReturns, table, Writing
    <2> QED
      BY <2>1, <2>2
  <1>3. ASSUME NEW s \in Senders, WriteFails(s) PROVE TypeOK' /\ HandsInv'
    <2>1. TypeOK'
      BY <1>3 DEF IInv, TypeOK, WriteFails, table, Writing
    <2>2. HandsInv'
      BY <1>3 DEF IInv, TypeOK, HandsInv, WriteFails, table, Writing
    <2> QED
      BY <2>1, <2>2
  <1>4. ASSUME NEW s \in Senders, GiveUp(s) PROVE TypeOK' /\ HandsInv'
    <2>1. TypeOK'
      BY <1>4 DEF IInv, TypeOK, GiveUp, table, Writing
    <2>2. HandsInv'
      BY <1>4 DEF IInv, TypeOK, HandsInv, GiveUp, table, Writing
    <2> QED
      BY <2>1, <2>2
  <1>5. ASSUME Crash PROVE TypeOK' /\ HandsInv'
    <2>1. TypeOK'
      BY <1>5, QueueAssumption DEF IInv, TypeOK, Crash, table, Writing
    <2>2. HandsInv'
      BY <1>5 DEF IInv, TypeOK, HandsInv, Crash, table, Writing
    <2> QED
      BY <2>1, <2>2
  <1> QED
    BY <1>1, <1>2, <1>3, <1>4, <1>5, TableFrame DEF IInv

\* Statements on many rows at once: the requeue and the pruner.  They insert no row,
\* start no flight, and queue only rows with an attempt left.
LEMMA SweepInv ==
    ASSUME IInv,
           UNCHANGED <<rows, hash, retry, overdue, clients, accepted, crashes>>,
           writer' \in Senders \cup {Free, Sweeper},
           stale' \subseteq stale,
           status' \in [Ids -> Live \cup Settled \cup {"NONE", "DELETED"}],
           \A i \in Ids : \/ status'[i] = status[i]
                          \/ /\ status[i] # "NONE"
                             /\ status'[i] \notin {"NONE", "IN_FLIGHT"}
                             /\ status'[i] = "QUEUED" => retry[i] < MaxRetries
    PROVE  IInv'
  <1>1. TypeOK'
    BY DEF IInv, TypeOK, clients
  <1>2. RetriesBounded'
    BY DEF IInv, RetriesBounded
  <1>3. RowsInv'
    BY DEF IInv, RowsInv
  <1>4. HandsInv'
    BY DEF IInv, HandsInv, clients
  <1>5. StaleInv'
    BY DEF IInv, StaleInv
  <1> QED
    BY <1>1, <1>2, <1>3, <1>4, <1>5 DEF IInv

\* The two statements of the requeue.
LEMMA RequeueInv ==
    ASSUME IInv, RequeueExhausted \/ RequeueRetryable \/ RequeueFails
    PROVE  IInv'
  <1>1. CASE RequeueExhausted
    <2>1. \A i \in Exhausted : i \in Ids /\ status[i] = "IN_FLIGHT"
      BY DEF Exhausted, InFlight
    <2> QED
      BY <1>1, <2>1, SweepInv DEF RequeueExhausted, IInv, TypeOK, Settled
  <1>2. CASE RequeueRetryable
    <2>1. \A i \in Retryable :
              i \in Ids /\ status[i] = "IN_FLIGHT" /\ retry[i] < MaxRetries
      BY DEF Retryable, InFlight
    <2> QED
      BY <1>2, <2>1, SweepInv DEF RequeueRetryable, IInv, TypeOK, Live
  <1>3. CASE RequeueFails
    BY <1>3, SweepInv DEF RequeueFails, table, IInv, TypeOK
  <1> QED
    BY <1>1, <1>2, <1>3

\* The pruner deletes settled rows.
LEMMA PruneInv == ASSUME IInv, ExecutePrune PROVE IInv'
  <1>1. PICK D \in SUBSET Prunable :
            status' = [i \in Ids |-> IF i \in D THEN "DELETED" ELSE status[i]]
    BY DEF ExecutePrune
  <1>2. \A i \in D : i \in Ids /\ status[i] # "NONE"
    BY DEF Prunable, Settled
  <1> QED
    BY <1>1, <1>2, SweepInv DEF ExecutePrune, IInv, TypeOK

\* A row ages.
LEMMA AgeInv == ASSUME IInv, NEW i \in Ids, Age(i) PROVE IInv'
  <1>1. TypeOK'
    BY DEF IInv, TypeOK, Age, clients
  <1>2. RetriesBounded' /\ RowsInv' /\ HandsInv'
    BY DEF IInv, RetriesBounded, RowsInv, HandsInv, Age, clients
  <1>3. StaleInv'
    BY DEF IInv, TypeOK, StaleInv, Age
  <1> QED
    BY <1>1, <1>2, <1>3 DEF IInv

\* Every step keeps the invariant.
LEMMA NextInv == IInv /\ [Next]_vars => IInv'
  <1> SUFFICES ASSUME IInv, [Next]_vars PROVE IInv'
    OBVIOUS
  <1>1. CASE \E h \in Payloads : Enqueue(h)
    BY <1>1, EnqueueInv
  <1>2. ASSUME NEW s \in Senders, FetchQueuedBatch(s) PROVE IInv'
    BY <1>2, FetchInv
  <1>3. ASSUME NEW s \in Senders, MarkInFlight(s) \/ MarkAcknowledged(s) \/ MarkDeadLetter(s)
        PROVE IInv'
    BY <1>3, AcquireInv DEF MarkInFlight, MarkAcknowledged, MarkDeadLetter, Writing
  <1>4. ASSUME NEW s \in Senders, UpdateOne(s) PROVE IInv'
    BY <1>4, MarkOneInv, ReportOneInv DEF UpdateOne
  <1>5. ASSUME NEW s \in Senders, WriteReturns(s) \/ WriteFails(s) \/ GiveUp(s) PROVE IInv'
    BY <1>5, ClientInv
  <1>6. CASE RequeueExhausted \/ RequeueRetryable \/ RequeueFails
    BY <1>6, RequeueInv
  <1>7. CASE \E i \in Ids : Age(i)
    BY <1>7, AgeInv
  <1>8. CASE ExecutePrune
    BY <1>8, PruneInv
  <1>9. CASE Crash
    BY <1>9, ClientInv
  <1>10. CASE UNCHANGED vars
    <2>1. UNCHANGED table /\ UNCHANGED <<writer, clients, accepted, crashes>>
      BY <1>10 DEF vars
    <2>2. TypeOK' /\ HandsInv'
      BY <2>1 DEF IInv, TypeOK, HandsInv, table, clients
    <2> QED
      BY <2>1, <2>2, TableFrame DEF IInv
  <1> QED
    BY <1>1, <1>2, <1>3, <1>4, <1>5, <1>6, <1>7, <1>8, <1>9, <1>10 DEF Next

\* The inductive invariant of the queue.
THEOREM Invariant == Spec => []IInv
  BY InitInv, NextInv, PTL DEF Spec

\* Every reachable state is a table and clients of the right form.
THEOREM TypeCorrect == Spec => []TypeOK
  <1>1. IInv => TypeOK
    BY DEF IInv
  <1> QED
    BY <1>1, Invariant, PTL

\* No row is attempted more often than max_retries, for any number of senders and rows.
THEOREM AttemptsBounded == Spec => []RetriesBounded
  <1>1. IInv => RetriesBounded
    BY DEF IInv
  <1> QED
    BY <1>1, Invariant, PTL
-----------------------------------------------------------------------------
\* The ways a step may change the status of a row.
Moved(i) ==
    \/ status'[i] = status[i]
    \/ status[i] = "NONE" /\ status'[i] = "QUEUED"
    \/ status[i] = "QUEUED" /\ status'[i] = "IN_FLIGHT"
    \/ /\ status[i] \in Live \cup Settled
       /\ \E s \in Senders :
             \/ pc[s] = "acknowledging" /\ status'[i] = "ACKNOWLEDGED"
             \/ pc[s] = "rejecting" /\ i \in todo[s] /\ status'[i] = "DEAD_LETTER"
    \/ status[i] = "IN_FLIGHT" /\ i \in stale /\ status'[i] \in {"QUEUED", "DEAD_LETTER"}
    \/ status[i] \in Settled /\ status'[i] = "DELETED"

\* Each step moves a status in one of the ways listed.
LEMMA StatusMoves == ASSUME IInv, [Next]_vars, NEW i \in Ids PROVE Moved(i)
  <1>1. ASSUME NEW h \in Payloads, Enqueue(h) PROVE Moved(i)
    BY <1>1 DEF Enqueue, EnqueueDuplicate, EnqueueNew, IInv, TypeOK, RowsInv, Moved
  <1>2. ASSUME NEW s \in Senders, UpdateOne(s) PROVE Moved(i)
    <2>1. PICK j \in todo[s] : MarkOne(s, j) \/ ReportOne(s, j)
      BY <1>2 DEF UpdateOne
    <2>2. CASE MarkOne(s, j)
      BY <2>2 DEF MarkOne, Skip, table, IInv, TypeOK, Moved
    <2>3. CASE ReportOne(s, j)
      <3>1. CASE status[j] \in Live \cup Settled
        BY <2>3, <3>1 DEF ReportOne, Resolution, IInv, TypeOK, Moved
      <3>2. CASE status[j] \notin Live \cup Settled
        BY <2>3, <3>2 DEF ReportOne, Skip, table, Moved
      <3> QED
        BY <3>1, <3>2
    <2> QED
      BY <2>1, <2>2, <2>3
  <1>3. CASE RequeueExhausted
    BY <1>3 DEF RequeueExhausted, Exhausted, InFlight, Moved
  <1>4. CASE RequeueRetryable
    BY <1>4 DEF RequeueRetryable, Retryable, InFlight, Moved
  <1>5. CASE ExecutePrune
    BY <1>5 DEF ExecutePrune, Prunable, Moved
  <1>6. CASE UNCHANGED status
    BY <1>6 DEF Moved
  <1>7. ASSUME NEW s \in Senders,
               \/ FetchQueuedBatch(s)
               \/ MarkInFlight(s) \/ MarkAcknowledged(s) \/ MarkDeadLetter(s)
               \/ WriteReturns(s) \/ WriteFails(s) \/ GiveUp(s)
        PROVE  UNCHANGED status
    BY <1>7 DEF FetchQueuedBatch, MarkInFlight, MarkAcknowledged, MarkDeadLetter, Acquire,
                WriteReturns, WriteFails, GiveUp, table
  <1>8. RequeueFails \/ (\E j \in Ids : Age(j)) \/ Crash \/ UNCHANGED vars
        => UNCHANGED status
    BY DEF RequeueFails, Age, Crash, table, vars
  <1> QED
    BY <1>1, <1>2, <1>3, <1>4, <1>5, <1>6, <1>7, <1>8 DEF Next

\* A settled row never becomes live again, for any number of senders and rows.
THEOREM SettledForGood == Spec => SettledStays
  <1>1. IInv /\ [Next]_vars
        => [\A i \in Ids :
               status[i] \in Settled => status'[i] \in Settled \cup {"DELETED"}]_vars
    <2> SUFFICES ASSUME IInv, [Next]_vars, NEW i \in Ids, status[i] \in Settled
                 PROVE  status'[i] \in Settled \cup {"DELETED"}
      OBVIOUS
    <2> QED
      BY StatusMoves DEF Moved, Settled
  <1> QED
    BY <1>1, Invariant, PTL DEF Spec, SettledStays

\* A row is taken from a sender that has not reported only after the timeout.
THEOREM FlightsNotCutShort == Spec => FlightKeepsItsTime
  <1>1. IInv /\ [Next]_vars
        => [\A i \in Ids :
               status[i] = "IN_FLIGHT" /\ status'[i] \notin {"IN_FLIGHT", "ACKNOWLEDGED"}
               => i \in overdue \/ \E s \in Senders : pc[s] = "rejecting" /\ i \in todo[s]]_vars
    <2> SUFFICES ASSUME IInv, [Next]_vars, NEW i \in Ids, status[i] = "IN_FLIGHT",
                        status'[i] \notin {"IN_FLIGHT", "ACKNOWLEDGED"}
                 PROVE  i \in overdue \/ \E s \in Senders : pc[s] = "rejecting" /\ i \in todo[s]
      OBVIOUS
    <2>1. Moved(i)
      BY StatusMoves
    <2>2. i \in stale => i \in overdue
      BY DEF IInv, StaleInv
    <2> QED
      BY <2>1, <2>2 DEF Moved, Settled
  <1> QED
    BY <1>1, Invariant, PTL DEF Spec, FlightKeepsItsTime
-----------------------------------------------------------------------------
\* Refinement: every step of the queue is a step, or a stutter, of ObservationDelivery.
InHand == [s \in Senders |-> {hash[i] : i \in batch[s]}]

\* The abstract variables do not change when the table's statuses, attempts and hashes
\* and the clients' batches do not.
LEMMA Stutter ==
    ASSUME UNCHANGED <<hash, status, retry, batch, accepted>>
    PROVE  UNCHANGED Delivery!vars
  BY DEF Delivery!vars, Owed, Worn, Queued, InFlight

\* The queue starts as the promise does.
LEMMA InitMapped == Init => Delivery!Init
  BY DEF Init, Delivery!Init, Owed, Worn, Queued, InFlight

\* enqueue() accepts its payload, by a new row or by the queued one it found.
LEMMA EnqueueMapped == ASSUME IInv, NEW h \in Payloads, Enqueue(h) PROVE Delivery!Accept(h)
  <1>1. UNCHANGED batch /\ accepted' = [accepted EXCEPT ![h] = accepted[h] + 1]
    BY DEF Enqueue, clients
  <1>2. CASE EnqueueDuplicate(h)
    <2>1. UNCHANGED <<hash, status, retry>> /\ Duplicates(h) # {}
      BY <1>2 DEF EnqueueDuplicate
    <2>2. h \in Owed
      BY <2>1 DEF Duplicates, Owed, Queued
    <2>3. Owed' = Owed /\ Worn' = Worn /\ InHand' = InHand
      BY <1>1, <2>1 DEF Owed, Worn, InHand, Queued, InFlight
    <2> QED
      BY <1>1, <2>2, <2>3 DEF Delivery!Accept, InHand
  <1>3. CASE EnqueueNew(h)
    <2>1. /\ rows + 1 \in Ids /\ rows \in Nat
          /\ hash' = [hash EXCEPT ![rows + 1] = h]
          /\ status' = [status EXCEPT ![rows + 1] = "QUEUED"]
          /\ status[rows + 1] = "NONE" /\ retry[rows + 1] = 0
          /\ UNCHANGED retry
      BY <1>3, QueueAssumption DEF EnqueueNew, Ids, IInv, TypeOK, RowsInv
    <2>2. /\ (Queued \cup InFlight)' = (Queued \cup InFlight) \cup {rows + 1}
          /\ rows + 1 \notin Queued \cup InFlight
          /\ \A i \in Queued \cup InFlight : i \in Ids /\ hash'[i] = hash[i]
          /\ hash'[rows + 1] = h
      BY <2>1 DEF Queued, InFlight, IInv, TypeOK
    <2>3. Owed' = Owed \cup {h}
      BY <2>2 DEF Owed
    <2>4. {j \in Queued \cup InFlight : retry[j] >= MaxRetries}'
          = {j \in Queued \cup InFlight : retry[j] >= MaxRetries}
      BY <2>1, <2>2, QueueAssumption DEF IInv, TypeOK
    <2>5. Worn' = Worn
      BY <2>2, <2>4 DEF Worn
    <2>6. \A s \in Senders : \A i \in batch[s] : hash'[i] = hash[i]
      BY <2>1 DEF IInv, TypeOK, HandsInv
    <2>7. InHand' = InHand
      BY <1>1, <2>6 DEF InHand
    <2> QED
      BY <1>1, <2>3, <2>5, <2>7 DEF Delivery!Accept, InHand
  <1> QED
    BY <1>2, <1>3 DEF Enqueue

\* What is fetched is owed.
LEMMA FetchMapped ==
    ASSUME IInv, NEW s \in Senders, FetchQueuedBatch(s)
    PROVE  \E H \in SUBSET Payloads : Delivery!Take(s, H)
  <1>1. PICK B \in SUBSET Queued : batch' = [batch EXCEPT ![s] = B]
    BY DEF FetchQueuedBatch
  <1>2. UNCHANGED <<hash, status, retry, accepted>>
    BY DEF FetchQueuedBatch, table
  <1>3. PICK H \in SUBSET Payloads : H = {hash[i] : i \in B}
    BY DEF IInv, RowsInv, Queued
  <1>4. H \subseteq Owed
    BY <1>3 DEF Owed
  <1>5. Owed' = Owed /\ Worn' = Worn
    BY <1>2 DEF Owed, Worn, Queued, InFlight
  <1>6. \A t \in Senders : batch'[t] = IF t = s THEN B ELSE batch[t]
    BY <1>1 DEF IInv, TypeOK
  <1>7. InHand' = [InHand EXCEPT ![s] = H]
    BY <1>2, <1>3, <1>6 DEF InHand
  <1>8. Delivery!Take(s, H)
    BY <1>2, <1>4, <1>5, <1>7 DEF Delivery!Take, InHand
  <1> QED
    BY <1>8

\* An UPDATE of mark_in_flight is an attempt: the row stays owed and may wear out.
LEMMA MarkOneMapped ==
    ASSUME IInv, NEW s \in Senders, NEW i \in todo[s], MarkOne(s, i), status[i] = "QUEUED"
    PROVE  Delivery!Attempt(s)
  <1>1. /\ i \in batch[s] /\ i \in Ids
        /\ status' = [status EXCEPT ![i] = "IN_FLIGHT"]
        /\ retry' = [retry EXCEPT ![i] = retry[i] + 1]
        /\ UNCHANGED <<hash, batch, accepted>>
    BY DEF MarkOne, Touch, IInv, TypeOK, HandsInv
  <1>2. (Queued \cup InFlight)' = Queued \cup InFlight
    BY <1>1 DEF Queued, InFlight, IInv, TypeOK
  <1>3. Owed' = Owed
    BY <1>1, <1>2 DEF Owed
  <1>4. \A j \in Queued \cup InFlight : j # i => retry'[j] = retry[j]
    BY <1>1 DEF Queued, InFlight, IInv, TypeOK
  <1>5. Worn' \subseteq Worn \cup {hash[i]}
    BY <1>1, <1>2, <1>4 DEF Worn
  <1>6. InHand' = InHand /\ hash[i] \in InHand[s]
    BY <1>1 DEF InHand
  <1> QED
    BY <1>1, <1>3, <1>5, <1>6 DEF Delivery!Attempt, InHand

\* Rows that settle or that were settled: what is owed and worn can only shrink, by the
\* payloads of the rows that were live.
LEMMA Shrinking ==
    ASSUME IInv, NEW S \in SUBSET Ids,
           UNCHANGED <<hash, retry, accepted, batch>>,
           \A i \in Ids : IF i \in S
                          THEN status'[i] \notin Live
                          ELSE status'[i] = status[i]
    PROVE  /\ Owed' \subseteq Owed /\ Owed \ Owed' \subseteq {hash[i] : i \in S}
           /\ Worn' \subseteq Worn
           /\ InHand' = InHand
           /\ (S \cap (Queued \cup InFlight) = {}) => Owed' = Owed /\ Worn' = Worn
           /\ Owed \ Owed' \in SUBSET Payloads
  <1>1. /\ (Queued \cup InFlight)' = (Queued \cup InFlight) \ S
        /\ \A i \in Queued \cup InFlight : i \in Ids
    BY DEF Queued, InFlight, Live
  <1>2. Owed' = {hash[i] : i \in (Queued \cup InFlight) \ S}
    BY <1>1 DEF Owed
  <1>3. Owed' \subseteq Owed /\ Owed \ Owed' \subseteq {hash[i] : i \in S}
    BY <1>2 DEF Owed
  <1>4. Worn' = {hash[i] : i \in {j \in (Queued \cup InFlight) \ S : retry[j] >= MaxRetries}}
    BY <1>1 DEF Worn
  <1>5. Worn' \subseteq Worn
    BY <1>4 DEF Worn
  <1>6. (S \cap (Queued \cup InFlight) = {}) => Owed' = Owed /\ Worn' = Worn
    BY <1>2, <1>4 DEF Owed, Worn
  <1>7. Owed \subseteq Payloads
    BY DEF Owed, Queued, InFlight, IInv, RowsInv
  <1> QED
    BY <1>3, <1>5, <1>6, <1>7 DEF InHand

\* An UPDATE of mark_acknowledged or mark_dead_letter settles a payload in hand.
LEMMA ReportOneMapped ==
    ASSUME IInv, NEW s \in Senders, NEW i \in todo[s], ReportOne(s, i),
           status[i] \in Live \cup Settled
    PROVE  \E H \in SUBSET Payloads : Delivery!Settle(s, H)
  <1>1. /\ i \in batch[s] /\ i \in Ids
        /\ status' = [status EXCEPT ![i] = Resolution(s)]
        /\ Resolution(s) \notin Live
        /\ UNCHANGED <<hash, retry, batch, accepted>>
    BY DEF ReportOne, Touch, Resolution, Live, IInv, TypeOK, HandsInv
  <1>2. \A j \in Ids : IF j \in {i} THEN status'[j] \notin Live ELSE status'[j] = status[j]
    BY <1>1 DEF IInv, TypeOK
  <1>3. /\ Owed' \subseteq Owed /\ Owed \ Owed' \subseteq {hash[j] : j \in {i}}
        /\ Worn' \subseteq Worn /\ InHand' = InHand
        /\ Owed \ Owed' \in SUBSET Payloads
    BY <1>1, <1>2, Shrinking
  <1>4. PICK H \in SUBSET Payloads : H = {p \in Payloads : p = hash[i]}
    OBVIOUS
  <1>5. H \subseteq InHand[s]
    BY <1>1, <1>4 DEF InHand
  <1>6. CASE hash[i] \in Owed'
    <2>1. Owed' = Owed \ {}
      BY <1>3, <1>6
    <2>2. Delivery!Settle(s, {})
      BY <1>1, <1>3, <2>1 DEF Delivery!Settle, InHand
    <2> QED
      BY <2>2
  <1>7. CASE hash[i] \notin Owed'
    <2>1. Owed' = Owed \ H
      BY <1>3, <1>4, <1>7
    <2>2. Delivery!Settle(s, H)
      BY <1>1, <1>3, <1>5, <2>1 DEF Delivery!Settle, InHand
    <2> QED
      BY <2>2
  <1> QED
    BY <1>6, <1>7

\* The requeue gives up only what has no attempt left.
LEMMA RequeueMapped ==
    ASSUME IInv, RequeueExhausted \/ RequeueRetryable
    PROVE  \/ \E H \in SUBSET Payloads : Delivery!Abandon(H)
           \/ UNCHANGED Delivery!vars
  <1>1. CASE RequeueExhausted
    <2>1. /\ UNCHANGED <<hash, retry, accepted, batch>>
          /\ Exhausted \in SUBSET Ids
          /\ \A i \in Ids : IF i \in Exhausted
                            THEN status'[i] \notin Live
                            ELSE status'[i] = status[i]
      BY <1>1 DEF RequeueExhausted, Exhausted, InFlight, Live, clients
    <2>2. /\ Owed' \subseteq Owed /\ Owed \ Owed' \subseteq {hash[i] : i \in Exhausted}
          /\ Worn' \subseteq Worn /\ InHand' = InHand
          /\ Owed \ Owed' \in SUBSET Payloads
      BY <2>1, Shrinking
    <2>3. {hash[i] : i \in Exhausted} \subseteq Worn
      BY DEF Exhausted, Worn
    <2>4. PICK H \in SUBSET Payloads : H = Owed \ Owed'
      BY <2>2
    <2>5. Delivery!Abandon(H)
      BY <2>1, <2>2, <2>3, <2>4 DEF Delivery!Abandon, InHand
    <2> QED
      BY <2>5
  <1>2. CASE RequeueRetryable
    <2>1. /\ UNCHANGED <<hash, retry, accepted, batch>>
          /\ \A i \in Ids : (status'[i] \in Live) <=> (status[i] \in Live)
      BY <1>2 DEF RequeueRetryable, Retryable, InFlight, Live, clients
    <2>2. (Queued \cup InFlight)' = Queued \cup InFlight
      BY <2>1 DEF Queued, InFlight, Live
    <2>3. Owed' = Owed /\ Worn' = Worn /\ InHand' = InHand
      BY <2>1, <2>2 DEF Owed, Worn, InHand
    <2> QED
      BY <2>1, <2>3 DEF Delivery!vars, InHand
  <1> QED
    BY <1>1, <1>2

\* The pruner deletes nothing that is owed.
LEMMA PruneMapped == ASSUME IInv, ExecutePrune PROVE UNCHANGED Delivery!vars
  <1>1. UNCHANGED <<hash, retry, accepted, batch>>
    BY DEF ExecutePrune, clients
  <1>2. PICK D \in SUBSET Prunable :
            status' = [i \in Ids |-> IF i \in D THEN "DELETED" ELSE status[i]]
    BY DEF ExecutePrune
  <1>3. /\ D \in SUBSET Ids /\ D \cap (Queued \cup InFlight) = {}
        /\ \A i \in Ids : IF i \in D THEN status'[i] \notin Live ELSE status'[i] = status[i]
    BY <1>2 DEF Prunable, Queued, InFlight, Settled, Live
  <1>4. Owed' = Owed /\ Worn' = Worn /\ InHand' = InHand
    BY <1>1, <1>3, Shrinking
  <1> QED
    BY <1>1, <1>4 DEF Delivery!vars, InHand

\* Clients let go of their batches when they are done, and in a crash.
LEMMA LetGoMapped ==
    ASSUME IInv, NEW S \in SUBSET Senders, UNCHANGED table, UNCHANGED accepted,
           batch' = [t \in Senders |-> IF t \in S THEN {} ELSE batch[t]]
    PROVE  Delivery!LetGo(S)
  <1>1. Owed' = Owed /\ Worn' = Worn
    BY DEF table, Owed, Worn, Queued, InFlight
  <1>2. InHand' = [t \in Senders |-> IF t \in S THEN {} ELSE InHand[t]]
    BY DEF table, InHand
  <1> QED
    BY <1>1, <1>2 DEF Delivery!LetGo, InHand

\* Each step of the queue is one of the promise, or none.
LEMMA NextMapped == IInv /\ [Next]_vars => [Delivery!Next]_(Delivery!vars)
  <1> SUFFICES ASSUME IInv, [Next]_vars PROVE [Delivery!Next]_(Delivery!vars)
    OBVIOUS
  <1> USE DEF Delivery!Next
  <1>1. CASE \E h \in Payloads : Enqueue(h)
    BY <1>1, EnqueueMapped
  <1>2. ASSUME NEW s \in Senders, FetchQueuedBatch(s) PROVE Delivery!Next
    BY <1>2, FetchMapped
  <1>3. ASSUME NEW s \in Senders, MarkInFlight(s) \/ MarkAcknowledged(s) \/ MarkDeadLetter(s)
        PROVE  UNCHANGED Delivery!vars
    <2>1. UNCHANGED <<hash, status, retry, batch, accepted>>
      BY <1>3 DEF MarkInFlight, MarkAcknowledged, MarkDeadLetter, Acquire, table
    <2> QED
      BY <2>1, Stutter
  <1>4. ASSUME NEW s \in Senders, UpdateOne(s)
        PROVE  Delivery!Next \/ UNCHANGED Delivery!vars
    <2>1. PICK i \in todo[s] : MarkOne(s, i) \/ ReportOne(s, i)
      BY <1>4 DEF UpdateOne
    <2>2. CASE MarkOne(s, i) /\ status[i] = "QUEUED"
      BY <2>2, MarkOneMapped
    <2>3. CASE ReportOne(s, i) /\ status[i] \in Live \cup Settled
      BY <2>3, ReportOneMapped
    <2>4. CASE Skip(s, i)
      BY <2>4, Stutter DEF Skip, table
    <2> QED
      BY <2>1, <2>2, <2>3, <2>4 DEF MarkOne, ReportOne
  <1>5. ASSUME NEW s \in Senders, WriteReturns(s) \/ WriteFails(s) \/ GiveUp(s)
        PROVE  Delivery!Next
    <2>1. UNCHANGED table /\ UNCHANGED accepted
      BY <1>5 DEF WriteReturns, WriteFails, GiveUp
    <2>2. CASE batch' = batch
      <3>1. batch' = [t \in Senders |-> IF t \in {} THEN {} ELSE batch[t]]
        BY <2>2 DEF IInv, TypeOK
      <3> QED
        BY <2>1, <3>1, LetGoMapped
    <2>3. CASE batch' = [batch EXCEPT ![s] = {}]
      <3>1. batch' = [t \in Senders |-> IF t \in {s} THEN {} ELSE batch[t]]
        BY <2>3 DEF IInv, TypeOK
      <3> QED
        BY <2>1, <3>1, LetGoMapped
    <2>4. batch' = batch \/ batch' = [batch EXCEPT ![s] = {}]
      BY <1>5 DEF WriteReturns, WriteFails, GiveUp, IInv, TypeOK
    <2> QED
      BY <2>2, <2>3, <2>4
  <1>6. CASE RequeueExhausted \/ RequeueRetryable
    BY <1>6, RequeueMapped
  <1>7. CASE RequeueFails \/ (\E i \in Ids : Age(i)) \/ UNCHANGED vars
    <2>1. UNCHANGED <<hash, status, retry, batch, accepted>>
      BY <1>7 DEF RequeueFails, Age, vars, table, clients
    <2> QED
      BY <2>1, Stutter
  <1>8. CASE ExecutePrune
    BY <1>8, PruneMapped
  <1>9. CASE Crash
    <2>1. /\ UNCHANGED table /\ UNCHANGED accepted
          /\ batch' = [t \in Senders |-> IF t \in Senders THEN {} ELSE batch[t]]
      BY <1>9 DEF Crash
    <2> QED
      BY <2>1, LetGoMapped
  <1> QED
    BY <1>1, <1>2, <1>3, <1>4, <1>5, <1>6, <1>7, <1>8, <1>9 DEF Next

\* The queue implements ObservationDelivery: no accepted payload is lost.
THEOREM Implements == Spec => DeliverySpec
  BY InitMapped, Invariant, NextMapped, PTL DEF Spec, DeliverySpec, Delivery!Spec
=============================================================================

----------------------------- MODULE QueueStore -----------------------------
(***************************************************************************)
(* The queue table of platform/outbox: `outbox_event` (producers to        *)
(* transport) and `event_delivery` (transport to consumer) have the same   *)
(* columns as far as leasing is concerned, and the same store class        *)
(* (PostgresOutboxStore) works on either.  A table is a sequence of rows;  *)
(* the index of a row is its entry_id.  Every operator here is one SQL     *)
(* statement (or the part of one) as a function of the table.              *)
(*                                                                         *)
(* Time.  The statements compare next_attempt_at (of a pending row) and    *)
(* lease_expires_at (of a leased row) with the caller's clock.  Only the   *)
(* outcome of the comparison matters, so a row holds `ready`: the          *)
(* timestamp its status waits on has passed.                               *)
(*                                                                         *)
(* `attempts` is compared with maxAttempts and with nothing else, so it    *)
(* saturates one above it.                                                 *)
(***************************************************************************)
EXTENDS Naturals, Sequences, FiniteSets

CONSTANTS Workers,      \* worker ids: the values of leased_by
          NoWorker,     \* leased_by IS NULL
          Streams,      \* (tenant, aggregate type, aggregate id[, consumer])
          MaxAttempts   \* dispatcher option maxAttempts

ASSUME MaxAttemptsAssumption == MaxAttempts \in Nat \ {0}
ASSUME NoWorkerAssumption == NoWorker \notin Workers

Statuses == {"pending", "leased", "done", "dead", "skipped"}

Row == [stream   : Streams,
        event    : Nat,
        status   : Statuses,
        attempts : 0 .. MaxAttempts + 1,
        ready    : BOOLEAN,
        leasedBy : Workers \cup {NoWorker}]

(* The column defaults: pending, no attempt made, due at once. *)
NewRow(stream, event) ==
  [stream |-> stream, event |-> event, status |-> "pending", attempts |-> 0,
   ready |-> TRUE, leasedBy |-> NoWorker]

-----------------------------------------------------------------------------

(* status IN (done, 'skipped'): the row no longer holds back its stream. *)
Finished(row) == row.status \in {"done", "skipped"}

(* The NOT EXISTS of the lease statement: no earlier unfinished row. *)
IsHead(q, e) ==
  \A earlier \in 1 .. Len(q) :
    earlier < e /\ q[earlier].stream = q[e].stream => Finished(q[earlier])

(* Mutation: an expired lease is not taken over. *)
LeasableWhenPending(row) == row.status = "pending" /\ row.ready

(* The condition on the row itself: pending and due, or leased and expired. *)
Leasable(row) == row.status \in {"pending", "leased"} /\ row.ready

(* Mutation: dead letters do not hold back their stream. *)
CandidatesPastDeadLetters(q, scope) ==
  {e \in 1 .. Len(q) :
     /\ q[e].stream \in scope /\ Leasable(q[e])
     /\ \A earlier \in 1 .. e - 1 :
          q[earlier].stream = q[e].stream => Finished(q[earlier]) \/ q[earlier].status = "dead"}

(* The rows the lease statement's snapshot selects within a set of streams. *)
Candidates(q, scope) ==
  {e \in 1 .. Len(q) : q[e].stream \in scope /\ Leasable(q[e]) /\ IsHead(q, e)}

(* The rows it goes on to lock: SKIP LOCKED passes over the rows another   *)
(* statement holds, a row that changed since the snapshot is re-checked on *)
(* its committed version, and ORDER BY entry_id LIMIT takes the first.     *)
LockedRows(q, candidates, heldByOthers, limit) ==
  LET free == {e \in candidates \ heldByOthers : Leasable(q[e])}
  IN  {e \in free : Cardinality({f \in free : f < e}) < limit}

(* attempts + 1, saturating. *)
NextAttempt(attempts) ==
  IF attempts > MaxAttempts THEN attempts ELSE attempts + 1

(* Mutation: taking over an expired lease is not counted as an attempt. *)
LeaseRowUncounted(row, worker) ==
  [row EXCEPT !.status = "leased",
              !.attempts = IF row.status = "leased" THEN @ ELSE NextAttempt(@),
              !.ready = FALSE, !.leasedBy = worker]

(* Mutation: taking over an expired lease keeps the first worker's name. *)
LeaseRowKeepsOwner(row, worker) ==
  [row EXCEPT !.status = "leased", !.attempts = NextAttempt(row.attempts),
              !.ready = FALSE, !.leasedBy = IF @ = NoWorker THEN worker ELSE @]

(* leaseBatch: the UPDATE over the locked rows. *)
LeaseRow(row, worker) ==
  [row EXCEPT !.status = "leased", !.attempts = NextAttempt(row.attempts),
              !.ready = FALSE, !.leasedBy = worker]

LeaseRows(q, entries, worker) ==
  [e \in 1 .. Len(q) |-> IF e \in entries THEN LeaseRow(q[e], worker) ELSE q[e]]

(* WHERE status = 'leased' AND leased_by = worker: the caller's lease. *)
HoldsLease(q, e, worker) ==
  q[e].status = "leased" /\ q[e].leasedBy = worker

(* Mutation: the row gets the finished status of another kind of queue. *)
PublishedRowMisnamed(row) ==
  [row EXCEPT !.status = "delivered", !.ready = FALSE, !.leasedBy = NoWorker]

(* markPublished: no row is updated when the lease was lost. *)
PublishedRow(row) ==
  [row EXCEPT !.status = "done", !.ready = FALSE, !.leasedBy = NoWorker]

(* Mutation: the row is marked without looking at the lease. *)
MarkPublishedUnfenced(q, e, worker) == [q EXCEPT ![e] = PublishedRow(q[e])]

MarkPublished(q, e, worker) ==
  IF HoldsLease(q, e, worker) THEN [q EXCEPT ![e] = PublishedRow(q[e])] ELSE q

(* recordFailure: without a retry time the row is dead-lettered. *)
FailedRow(row, retry) ==
  [row EXCEPT !.status = IF retry THEN "pending" ELSE "dead",
              !.ready = FALSE, !.leasedBy = NoWorker]

RecordFailure(q, e, worker, retry) ==
  IF HoldsLease(q, e, worker) THEN [q EXCEPT ![e] = FailedRow(q[e], retry)] ELSE q

(* resolveDeadLetter of a row whose status is 'dead'. *)
RequeueRow(row) == [row EXCEPT !.status = "pending", !.attempts = 0, !.ready = TRUE]
SkipRow(row)    == [row EXCEPT !.status = "skipped"]

(* The clock reaches next_attempt_at or lease_expires_at. *)
TimestampPasses(row) == [row EXCEPT !.ready = TRUE]

=============================================================================

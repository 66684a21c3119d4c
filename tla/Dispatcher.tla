----------------------------- MODULE Dispatcher -----------------------------
(***************************************************************************)
(* createOutboxDispatcher of platform/outbox: passes (`runOnce`) of any    *)
(* number of workers over one queue table, together with the producers     *)
(* that append to it, the operators who resolve dead letters, and the      *)
(* passing of time.  A delivery worker (createDeliveryWorker) is the same  *)
(* dispatcher on a consumer's part of the delivery table, which is what    *)
(* ScopeOf is for.                                                         *)
(*                                                                         *)
(* A pass holds its state in memory between statements: the snapshot of    *)
(* the lease statement, the batch it leased, and the outcome of the        *)
(* hand-over in progress.  A crash, or an exception out of a store call,   *)
(* forgets all of it and changes nothing in the table.                     *)
(***************************************************************************)
EXTENDS QueueStore

CONSTANTS Runs,            \* the loops that call runOnce, one pass at a time
          WorkerOf,        \* workerId of each loop
          ScopeOf,         \* the streams of the table each loop works on
          BatchSize,       \* dispatcher option batchSize
          MaxEntries,      \* bound: rows ever appended
          MaxResolutions   \* bound: dead-letter resolutions per row

ASSUME RunsAssumption ==
  /\ WorkerOf \in [Runs -> Workers]
  /\ ScopeOf \in [Runs -> SUBSET Streams]
ASSUME BoundsAssumption ==
  BatchSize \in Nat \ {0} /\ MaxEntries \in Nat /\ MaxResolutions \in Nat

VARIABLES queue,   \* the table
          run,     \* the pass each loop is in
          handed,  \* history: times the publisher took effect, by entry
          audit    \* number of audit events on each dead letter

vars == <<queue, run, handed, audit>>

Entries == 1 .. MaxEntries
Leases  == [id : Entries, attempts : 0 .. MaxAttempts + 1]
Pass    == [pc         : {"idle", "leasing", "working", "published", "failed"},
            candidates : SUBSET Entries,
            batch      : SUBSET Leases]
Idle    == [pc |-> "idle", candidates |-> {}, batch |-> {}]

Init ==
  /\ queue = <<>>
  /\ run = [r \in Runs |-> Idle]
  /\ handed = [e \in Entries |-> 0]
  /\ audit = [e \in Entries |-> 0]

-----------------------------------------------------------------------------
(* Producers and time *)

(* appendOutboxEvent commits: the row gets the next entry_id.  Producers of *)
(* one stream are serialised by the aggregate's row, so commit order is     *)
(* entry_id order within the stream.                                        *)
Enqueue(stream, event) ==
  /\ Len(queue) < MaxEntries
  /\ queue' = Append(queue, NewRow(stream, event))
  /\ UNCHANGED <<run, handed, audit>>

(* Events are named by the entry_id of their outbox row. *)
Produce(stream) == Enqueue(stream, Len(queue) + 1)

(* A row's backoff or lease runs out. *)
TimePasses(e) ==
  /\ e \in 1 .. Len(queue)
  /\ queue[e].status \in {"pending", "leased"}
  /\ ~queue[e].ready
  /\ queue' = [queue EXCEPT ![e] = TimestampPasses(queue[e])]
  /\ UNCHANGED <<run, handed, audit>>

-----------------------------------------------------------------------------
(* One pass *)

(* leaseBatch: the statement takes its snapshot.  One that selects nothing  *)
(* ends the pass.                                                           *)
Snapshot(r) ==
  LET candidates == Candidates(queue, ScopeOf[r])
  IN  /\ run[r].pc = "idle"
      /\ run' = [run EXCEPT ![r] =
                   IF candidates = {} THEN Idle
                   ELSE [pc |-> "leasing", candidates |-> candidates, batch |-> {}]]
      /\ UNCHANGED <<queue, handed, audit>>

(* leaseBatch: the rows are locked, re-checked, updated and returned.  A    *)
(* pass that got none is over.                                              *)
LeaseBatch(r, heldByOthers) ==
  LET locked == LockedRows(queue, run[r].candidates, heldByOthers, BatchSize)
  IN  /\ run[r].pc = "leasing"
      /\ queue' = LeaseRows(queue, locked, WorkerOf[r])
      /\ run' = [run EXCEPT ![r] =
                   IF locked = {} THEN Idle
                   ELSE [pc |-> "working", candidates |-> {},
                         batch |-> {[id |-> e, attempts |-> queue'[e].attempts] :
                                      e \in locked}]]
      /\ UNCHANGED <<handed, audit>>

(* The loop over the batch works in entry_id order. *)
IsCurrent(r, x) == x \in run[r].batch /\ \A y \in run[r].batch : x.id <= y.id

(* The iteration over x ends; after the last one so does the pass. *)
Advance(r, x) ==
  run' = [run EXCEPT ![r] =
            IF @.batch = {x} THEN Idle
            ELSE [pc |-> "working", candidates |-> {}, batch |-> @.batch \ {x}]]

(* Leased more often than attempts are allowed: dead-lettered unseen. *)
GiveUp(r, x) ==
  /\ run[r].pc = "working" /\ IsCurrent(r, x)
  /\ x.attempts > MaxAttempts
  /\ queue' = RecordFailure(queue, x.id, WorkerOf[r], FALSE)
  /\ Advance(r, x)
  /\ UNCHANGED <<handed, audit>>

(* publisher.publish(envelope) returns or throws.  It may throw although it *)
(* took effect: a commit whose acknowledgement is lost.                     *)
Outcomes == {"published", "failed", "ambiguous"}

(* Mutation: an exception of the publisher is swallowed. *)
HandOverSwallowsErrors(r, x, outcome) ==
  /\ run[r].pc = "working" /\ IsCurrent(r, x)
  /\ x.attempts <= MaxAttempts
  /\ handed' = [handed EXCEPT ![x.id] = IF outcome = "failed" THEN @ ELSE @ + 1]
  /\ run' = [run EXCEPT ![r].pc = "published"]
  /\ UNCHANGED <<queue, audit>>

HandOver(r, x, outcome) ==
  /\ run[r].pc = "working" /\ IsCurrent(r, x)
  /\ x.attempts <= MaxAttempts
  /\ handed' = [handed EXCEPT ![x.id] = IF outcome = "failed" THEN @ ELSE @ + 1]
  /\ run' = [run EXCEPT ![r].pc = IF outcome = "published" THEN "published" ELSE "failed"]
  /\ UNCHANGED <<queue, audit>>

(* The hand-over threw: retry with backoff, or dead-letter when exhausted. *)
HandOverFailed(r, x) ==
  /\ run[r].pc = "failed" /\ IsCurrent(r, x)
  /\ queue' = RecordFailure(queue, x.id, WorkerOf[r], x.attempts < MaxAttempts)
  /\ Advance(r, x)
  /\ UNCHANGED <<handed, audit>>

(* The hand-over succeeded. *)
HandOverDone(r, x) ==
  /\ run[r].pc = "published" /\ IsCurrent(r, x)
  /\ queue' = MarkPublished(queue, x.id, WorkerOf[r])
  /\ Advance(r, x)
  /\ UNCHANGED <<handed, audit>>

(* The process dies, or a store call throws out of runOnce. *)
Crash(r) ==
  /\ run[r].pc # "idle"
  /\ run' = [run EXCEPT ![r] = Idle]
  /\ UNCHANGED <<queue, handed, audit>>

-----------------------------------------------------------------------------
(* Operators: the resolution and its audit event commit together *)

ResolveDeadLetter(e, resolved) ==
  /\ e \in 1 .. Len(queue)
  /\ queue[e].status = "dead"
  /\ audit[e] < MaxResolutions
  /\ queue' = [queue EXCEPT ![e] = resolved]
  /\ audit' = [audit EXCEPT ![e] = @ + 1]
  /\ UNCHANGED <<run, handed>>

Requeue(e) == ResolveDeadLetter(e, RequeueRow(queue[e]))
Skip(e)    == ResolveDeadLetter(e, SkipRow(queue[e]))

-----------------------------------------------------------------------------

(* The outcome of an entry reaches the table. *)
Conclude(r, x) == GiveUp(r, x) \/ HandOverFailed(r, x) \/ HandOverDone(r, x)

(* Everything a loop does except calling the publisher. *)
StoreStep(r) ==
  \/ Snapshot(r)
  \/ \E heldByOthers \in SUBSET run[r].candidates : LeaseBatch(r, heldByOthers)
  \/ \E x \in run[r].batch : Conclude(r, x)
  \/ Crash(r)

PublisherStep(r) ==
  \E x \in run[r].batch : \E outcome \in Outcomes : HandOver(r, x, outcome)

PassStep(r) == StoreStep(r) \/ PublisherStep(r)

Next ==
  \/ \E stream \in Streams : Produce(stream)
  \/ \E e \in Entries : TimePasses(e) \/ Requeue(e) \/ Skip(e)
  \/ \E r \in Runs : PassStep(r)

Spec == Init /\ [][Next]_vars

-----------------------------------------------------------------------------
(* Safety *)

(* The rows, the passes and the two histories have their types. *)
TypeOK ==
  /\ queue \in Seq(Row) /\ Len(queue) <= MaxEntries
  /\ run \in [Runs -> Pass]
  /\ handed \in [Entries -> Nat]
  /\ audit \in [Entries -> Nat]

(* Per-aggregate order.  Work on an entry (a lease, an outcome, a hand-over *)
(* that took effect, a place in some pass's batch, however stale) only      *)
(* exists once every earlier entry of its stream is published or skipped,   *)
(* although leaseBatch decides that on a snapshot that may be out of date   *)
(* when the rows are locked.                                                *)
Started(e) ==
  \/ queue[e].status # "pending"
  \/ handed[e] > 0
  \/ \E r \in Runs : \E x \in run[r].batch : x.id = e

NoOvertake ==
  \A e \in 1 .. Len(queue) : Started(e) => IsHead(queue, e)

(* No event is lost: an entry is marked published only after the publisher  *)
(* took effect for it, whichever pass marks it and however many leases,     *)
(* crashes and resolutions lie in between.                                  *)
PublishedWasHanded ==
  \A e \in 1 .. Len(queue) : queue[e].status = "done" => handed[e] > 0

(* The lease check of markPublished and recordFailure names the worker and  *)
(* not the lease.  It is enough: a pass whose worker still holds a row      *)
(* holds the row's latest lease, never an earlier one that expired and was  *)
(* taken again.  Holds when no two loops share a workerId.                  *)
HeldLeaseIsLatest ==
  \A r \in Runs : \A x \in run[r].batch :
    HoldsLease(queue, x.id, WorkerOf[r]) => x.attempts = queue[x.id].attempts

(* The publisher takes effect at most maxAttempts times for an entry, plus  *)
(* maxAttempts for each audited resolution: crashes, expired leases and     *)
(* late passes buy no further attempt.                                      *)
HandOverBudget ==
  \A e \in Entries : handed[e] <= MaxAttempts * (1 + audit[e])

(* Settled rows stay as they are: published and skipped for good, dead      *)
(* until an operator's resolution, which is audited, decides otherwise.     *)
SettledIsStable ==
  [][\A e \in 1 .. Len(queue) :
       Finished(queue[e]) \/ (queue[e].status = "dead" /\ audit'[e] = audit[e])
         => queue'[e] = queue[e]]_vars

(* What the test 'skipping a dead-lettered event unblocks its stream, keeps *)
(* the evidence, and never republishes it' says of a skipped event.         *)
SkippedIsNeverHandedOver ==
  [][\A e \in 1 .. Len(queue) :
       queue[e].status = "skipped" => handed'[e] = handed[e]]_vars

(* The inductive invariant of the proofs.  A snapshot's candidates are heads *)
(* and stay heads; a batch and the history speak of appended rows only; a   *)
(* hand-over that returned took effect.                                     *)
PassesOK ==
  \A r \in Runs :
    /\ \A e \in run[r].candidates : e \in 1 .. Len(queue) /\ IsHead(queue, e)
    /\ \A x \in run[r].batch : x.id \in 1 .. Len(queue)
    /\ run[r].pc = "published" =>
         \A x \in run[r].batch : IsCurrent(r, x) => handed[x.id] > 0
HandedOK == \A e \in Entries : handed[e] > 0 => e \in 1 .. Len(queue)

IndInv == TypeOK /\ PassesOK /\ HandedOK /\ NoOvertake /\ PublishedWasHanded

-----------------------------------------------------------------------------
(* Liveness *)

(* Loops run on, a started statement or hand-over returns, clocks advance.  *)
(* Row locks last for one statement, so a loop that keeps trying gets past  *)
(* them (SF).  Nothing obliges a crash, a producer or an operator.          *)
Fairness ==
  /\ \A r \in Runs :
       /\ WF_vars(Snapshot(r))
       /\ SF_vars(LeaseBatch(r, {}))
       /\ WF_vars(PublisherStep(r))
       /\ WF_vars(\E x \in run[r].batch : Conclude(r, x))
  /\ \A e \in Entries : WF_vars(TimePasses(e))

FairSpec == Spec /\ Fairness

(* No pass dies while it holds a batch, and no lease runs out under a pass  *)
(* that works on it: leaseSeconds is chosen above the time a batch takes.   *)
InBatch(e) == \E r \in Runs : \E x \in run[r].batch : x.id = e
Calm == [][/\ \A r \in Runs : run[r].batch # {} => ~Crash(r)
           /\ \A e \in Entries : InBatch(e) => ~TimePasses(e)]_vars

(* Held back for good by a dead letter of its own or an earlier entry. *)
Blocked(e) ==
  \E d \in 1 .. e : queue[d].stream = queue[e].stream /\ queue[d].status = "dead"

Settled(e) == e <= Len(queue) /\ (Finished(queue[e]) \/ Blocked(e))

(* Every appended event is published, skipped, or waits behind a dead       *)
(* letter that an operator has to resolve, once crashes and overrun leases  *)
(* cease.                                                                   *)
EveryEntrySettles ==
  <>Calm => \A e \in Entries :
              (e <= Len(queue)) ~> Settled(e)

=============================================================================

-------------------------- MODULE DispatcherProofs --------------------------
(***************************************************************************)
(* Proofs about Dispatcher for every number of workers, streams, events,   *)
(* attempts and resolutions.                                               *)
(***************************************************************************)
EXTENDS Dispatcher, FiniteSetTheorems, TLAPS

-----------------------------------------------------------------------------
(* The statements of the store *)

SameEvent(row, new) == new \in Row /\ new.stream = row.stream /\ new.event = row.event

(* Every statement about one row yields a row of the same event. *)
LEMMA RowStatements ==
  ASSUME NEW row \in Row
  PROVE  /\ \A worker \in Workers : SameEvent(row, LeaseRow(row, worker))
         /\ SameEvent(row, PublishedRow(row))
         /\ \A retry \in BOOLEAN : SameEvent(row, FailedRow(row, retry))
         /\ SameEvent(row, RequeueRow(row))
         /\ SameEvent(row, SkipRow(row))
         /\ SameEvent(row, TimestampPasses(row))
  <1>. USE MaxAttemptsAssumption DEF Row, Statuses, SameEvent
  <1>1. NextAttempt(row.attempts) \in 0 .. MaxAttempts + 1
    BY DEF NextAttempt
  <1>2. ASSUME NEW worker \in Workers PROVE SameEvent(row, LeaseRow(row, worker))
    BY <1>1 DEF LeaseRow
  <1>3. SameEvent(row, PublishedRow(row))
    BY DEF PublishedRow
  <1>4. ASSUME NEW retry \in BOOLEAN PROVE SameEvent(row, FailedRow(row, retry))
    BY DEF FailedRow
  <1>5. SameEvent(row, RequeueRow(row))
    <2>1. 0 \in 0 .. MaxAttempts + 1 /\ row.attempts \in 0 .. MaxAttempts + 1
      OBVIOUS
    <2>. QED BY <2>1, Zenon DEF RequeueRow
  <1>6. SameEvent(row, SkipRow(row))
    BY DEF SkipRow
  <1>7. SameEvent(row, TimestampPasses(row))
    BY DEF TimestampPasses
  <1>. QED BY <1>2, <1>3, <1>4, <1>5, <1>6, <1>7

(* Updating one row of a table gives a table. *)
LEMMA UpdateOneRow ==
  ASSUME NEW q \in Seq(Row), NEW e \in 1 .. Len(q), NEW row \in Row
  PROVE  /\ [q EXCEPT ![e] = row] \in Seq(Row)
         /\ Len([q EXCEPT ![e] = row]) = Len(q)
         /\ \A i \in 1 .. Len(q) : [q EXCEPT ![e] = row][i] = IF i = e THEN row ELSE q[i]
  OBVIOUS

(* leaseBatch keeps the table's shape and touches the locked rows only. *)
LEMMA LeaseManyRows ==
  ASSUME NEW q \in Seq(Row), NEW entries, NEW worker \in Workers
  PROVE  /\ LeaseRows(q, entries, worker) \in Seq(Row)
         /\ Len(LeaseRows(q, entries, worker)) = Len(q)
         /\ \A i \in 1 .. Len(q) :
              LeaseRows(q, entries, worker)[i] =
                IF i \in entries THEN LeaseRow(q[i], worker) ELSE q[i]
  <1>1. ASSUME NEW i \in 1 .. Len(q) PROVE LeaseRow(q[i], worker) \in Row
    <2>1. q[i] \in Row
      OBVIOUS
    <2>. QED BY <2>1, RowStatements DEF SameEvent
  <1>. QED BY <1>1 DEF LeaseRows

(* The rows leaseBatch locks come from its snapshot and pass the re-check. *)
LEMMA LockedRowsAreCandidates ==
  ASSUME NEW q, NEW candidates, NEW held, NEW limit
  PROVE  \A e \in LockedRows(q, candidates, held, limit) :
           e \in candidates /\ Leasable(q[e])
  BY DEF LockedRows

-----------------------------------------------------------------------------
(* What one step does to the table *)

(* Rows keep their event, finished rows stay finished, rows are only added *)
(* at the end.                                                              *)
Evolves ==
  /\ queue' \in Seq(Row)
  /\ Len(queue') <= MaxEntries
  /\ Len(queue) <= Len(queue')
  /\ \A i \in 1 .. Len(queue) :
       /\ queue'[i].stream = queue[i].stream /\ queue'[i].event = queue[i].event
       /\ Finished(queue[i]) => queue'[i] = queue[i]

(* Every step of the dispatcher, its producers and its operators evolves    *)
(* the table.                                                               *)
LEMMA NextEvolves == TypeOK /\ PassesOK /\ [Next]_vars => Evolves
  <1>. SUFFICES ASSUME TypeOK, PassesOK, [Next]_vars PROVE Evolves
    OBVIOUS
  <1>. USE DEF TypeOK
  <1>1. ASSUME NEW e \in 1 .. Len(queue), NEW row \in Row, ~Finished(queue[e]),
               SameEvent(queue[e], row), queue' = [queue EXCEPT ![e] = row]
        PROVE  Evolves
    BY <1>1, UpdateOneRow DEF Evolves, SameEvent
  <1>2. CASE UNCHANGED queue
    BY <1>2 DEF Evolves
  <1>3. ASSUME NEW s \in Streams, Produce(s) PROVE Evolves
    <2>1. NewRow(s, Len(queue) + 1) \in Row
      BY MaxAttemptsAssumption DEF NewRow, Row, Statuses
    <2>2. queue' = Append(queue, NewRow(s, Len(queue) + 1)) /\ Len(queue) < MaxEntries
      BY <1>3 DEF Produce, Enqueue
    <2>. QED BY <2>1, <2>2, BoundsAssumption DEF Evolves
  <1>4. ASSUME NEW e \in Entries, TimePasses(e) PROVE Evolves
    <2>1. e \in 1 .. Len(queue) /\ queue[e] \in Row
      BY <1>4 DEF TimePasses
    <2>. QED BY <1>4, <1>1, <2>1, RowStatements DEF TimePasses, Finished, SameEvent
  <1>5. ASSUME NEW e \in Entries, Requeue(e) \/ Skip(e) PROVE Evolves
    <2>1. e \in 1 .. Len(queue) /\ queue[e] \in Row
      BY <1>5 DEF Requeue, Skip, ResolveDeadLetter
    <2>. QED BY <1>5, <1>1, <2>1, RowStatements
         DEF Requeue, Skip, ResolveDeadLetter, Finished, SameEvent
  <1>6. ASSUME NEW r \in Runs, NEW held, LeaseBatch(r, held) PROVE Evolves
    <2>. DEFINE locked == LockedRows(queue, run[r].candidates, held, BatchSize)
    <2>1. WorkerOf[r] \in Workers
      BY RunsAssumption
    <2>2. \A i \in locked : ~Finished(queue[i])
      BY LockedRowsAreCandidates DEF Leasable, Finished
    <2>3. queue' = LeaseRows(queue, locked, WorkerOf[r])
      BY <1>6 DEF LeaseBatch
    <2>4. \A i \in 1 .. Len(queue) : queue[i] \in Row
      OBVIOUS
    <2>5. \A i \in 1 .. Len(queue) :
            /\ LeaseRow(queue[i], WorkerOf[r]).stream = queue[i].stream
            /\ LeaseRow(queue[i], WorkerOf[r]).event = queue[i].event
      BY <2>1, <2>4, RowStatements DEF SameEvent
    <2>. HIDE DEF locked
    <2>. QED BY <2>1, <2>2, <2>3, <2>5, LeaseManyRows DEF Evolves
  <1>7. ASSUME NEW r \in Runs, NEW x \in run[r].batch, NEW retry \in BOOLEAN,
               queue' = RecordFailure(queue, x.id, WorkerOf[r], retry)
        PROVE  Evolves
    <2>1. x.id \in 1 .. Len(queue) /\ queue[x.id] \in Row
      BY DEF PassesOK
    <2>2. WorkerOf[r] \in Workers
      BY RunsAssumption
    <2>. QED BY <1>1, <1>2, <1>7, <2>1, <2>2, RowStatements
         DEF RecordFailure, HoldsLease, Finished, SameEvent
  <1>8. ASSUME NEW r \in Runs, NEW x \in run[r].batch, HandOverDone(r, x) PROVE Evolves
    <2>1. x.id \in 1 .. Len(queue) /\ queue[x.id] \in Row
      BY DEF PassesOK
    <2>2. WorkerOf[r] \in Workers
      BY RunsAssumption
    <2>. QED
      BY <1>1, <1>2, <1>8, <2>1, <2>2, RowStatements
      DEF HandOverDone, MarkPublished, HoldsLease, Finished, SameEvent
  <1>9. ASSUME NEW r \in Runs, NEW x \in run[r].batch, GiveUp(r, x) \/ HandOverFailed(r, x)
        PROVE  Evolves
    <2>1. (x.attempts < MaxAttempts) \in BOOLEAN /\ FALSE \in BOOLEAN
      OBVIOUS
    <2>. QED BY <1>7, <1>9, <2>1 DEF GiveUp, HandOverFailed
  <1>10. ASSUME NEW r \in Runs, NEW x \in run[r].batch, NEW o \in Outcomes, HandOver(r, x, o)
         PROVE  Evolves
    BY <1>2, <1>10 DEF HandOver
  <1>11. ASSUME NEW r \in Runs, Snapshot(r) \/ Crash(r) PROVE Evolves
    BY <1>2, <1>11 DEF Snapshot, Crash
  <1>. QED
    BY <1>2, <1>3, <1>4, <1>5, <1>6, <1>8, <1>9, <1>10, <1>11
    DEF Next, PassStep, StoreStep, PublisherStep, Conclude, vars

(* So the head of a stream remains its head: a lease statement's snapshot   *)
(* can go stale in every way but this one.                                  *)
LEMMA HeadStable ==
  ASSUME TypeOK, Evolves, NEW e \in 1 .. Len(queue), IsHead(queue, e)
  PROVE  IsHead(queue', e)
  <1>1. Len(queue) \in Nat /\ Len(queue') \in Nat
    BY DEF TypeOK, Evolves
  <1>. QED BY <1>1 DEF Evolves, IsHead

-----------------------------------------------------------------------------
(* The conjuncts of the inductive invariant, each over one step *)

LEMMA TypeStep == IndInv /\ [Next]_vars => TypeOK'
  <1>. SUFFICES ASSUME IndInv, [Next]_vars PROVE TypeOK'
    OBVIOUS
  <1>1. TypeOK /\ PassesOK
    BY DEF IndInv
  <1>2. queue' \in Seq(Row) /\ Len(queue') <= MaxEntries
    BY <1>1, NextEvolves DEF Evolves
  <1>3. Idle \in Pass
    BY DEF Idle, Pass
  <1>4. run' \in [Runs -> Pass]
    <2>1. ASSUME NEW r \in Runs, NEW x, Advance(r, x) PROVE run' \in [Runs -> Pass]
      BY <1>1, <1>3, <2>1 DEF Advance, TypeOK, Pass
    <2>2. ASSUME NEW r \in Runs, Snapshot(r) PROVE run' \in [Runs -> Pass]
      <3>1. Candidates(queue, ScopeOf[r]) \subseteq Entries
        BY <1>1, BoundsAssumption DEF Candidates, Entries, TypeOK
      <3>. QED BY <1>1, <1>3, <2>2, <3>1 DEF Snapshot, TypeOK, Pass
    <2>3. ASSUME NEW r \in Runs, NEW held, LeaseBatch(r, held) PROVE run' \in [Runs -> Pass]
      <3>. DEFINE locked == LockedRows(queue, run[r].candidates, held, BatchSize)
                  batch == {[id |-> e, attempts |-> queue'[e].attempts] : e \in locked}
      <3>1. Evolves
        BY <1>1, NextEvolves
      <3>2. \A e \in locked : e \in Entries /\ queue'[e].attempts \in 0 .. MaxAttempts + 1
        <4>. SUFFICES ASSUME NEW e \in locked
                      PROVE  e \in Entries /\ queue'[e].attempts \in 0 .. MaxAttempts + 1
          OBVIOUS
        <4>1. e \in 1 .. Len(queue)
          BY <1>1, LockedRowsAreCandidates DEF PassesOK
        <4>2. queue'[e] \in Row /\ e \in Entries
          BY <1>1, <3>1, <4>1, BoundsAssumption DEF Evolves, TypeOK, Entries
        <4>. QED BY <4>2 DEF Row
      <3>3. batch \subseteq Leases
        BY <3>2 DEF Leases
      <3>4. run' = [run EXCEPT ![r] = IF locked = {} THEN Idle
                      ELSE [pc |-> "working", candidates |-> {}, batch |-> batch]]
        BY <2>3 DEF LeaseBatch
      <3>. HIDE DEF locked, batch
      <3>. QED BY <1>1, <1>3, <3>3, <3>4 DEF TypeOK, Pass
    <2>4. ASSUME NEW r \in Runs, NEW x, NEW o, HandOver(r, x, o) PROVE run' \in [Runs -> Pass]
      BY <1>1, <2>4 DEF HandOver, TypeOK, Pass
    <2>5. ASSUME NEW r \in Runs, Crash(r) PROVE run' \in [Runs -> Pass]
      BY <1>1, <1>3, <2>5 DEF Crash, TypeOK
    <2>6. CASE UNCHANGED run
      BY <1>1, <2>6 DEF TypeOK
    <2>. QED
      BY <2>1, <2>2, <2>3, <2>4, <2>5, <2>6
      DEF Next, PassStep, StoreStep, PublisherStep, Conclude, GiveUp, HandOverFailed, HandOverDone, Produce, Enqueue,
          TimePasses, Requeue, Skip, ResolveDeadLetter, vars
  <1>5. handed' \in [Entries -> Nat]
    <2>1. ASSUME NEW r \in Runs, NEW x \in run[r].batch, NEW o \in Outcomes, HandOver(r, x, o)
          PROVE  handed' \in [Entries -> Nat]
      <3>1. x.id \in Entries /\ handed[x.id] \in Nat
        BY <1>1 DEF TypeOK, Pass, Leases
      <3>2. handed' = [handed EXCEPT ![x.id] =
                         IF o = "failed" THEN handed[x.id] ELSE handed[x.id] + 1]
        BY <2>1 DEF HandOver
      <3>. QED BY <1>1, <3>1, <3>2 DEF TypeOK
    <2>2. CASE UNCHANGED handed
      BY <1>1, <2>2 DEF TypeOK
    <2>. QED
      BY <2>1, <2>2
      DEF Next, PassStep, StoreStep, PublisherStep, Conclude, Snapshot, LeaseBatch, Crash, GiveUp, HandOverFailed,
          HandOverDone, Produce, Enqueue, TimePasses, Requeue, Skip, ResolveDeadLetter, vars
  <1>6. audit' \in [Entries -> Nat]
    <2>1. ASSUME NEW e \in Entries, Requeue(e) \/ Skip(e) PROVE audit' \in [Entries -> Nat]
      BY <1>1, <2>1 DEF Requeue, Skip, ResolveDeadLetter, TypeOK
    <2>2. CASE UNCHANGED audit
      BY <1>1, <2>2 DEF TypeOK
    <2>. QED
      BY <2>1, <2>2
      DEF Next, PassStep, StoreStep, PublisherStep, Conclude, Snapshot, LeaseBatch, Crash, GiveUp, HandOver,
          HandOverFailed, HandOverDone, Produce, Enqueue, TimePasses, vars
  <1>. QED BY <1>2, <1>4, <1>5, <1>6 DEF TypeOK

(* What a step may do to the batches: no lease appears in one except by the *)
(* lease statement, on rows of the snapshot.                                *)
LEMMA BatchStep ==
  ASSUME IndInv, [Next]_vars, NEW r \in Runs, NEW x \in run'[r].batch
  PROVE  \/ x \in run[r].batch
         \/ x.id \in run[r].candidates
  <1>. USE DEF IndInv, TypeOK, Pass, Idle
  <1>1. ASSUME NEW q \in Runs, NEW y, Advance(q, y) PROVE x \in run[r].batch
    BY <1>1 DEF Advance
  <1>2. ASSUME NEW q \in Runs, Snapshot(q) PROVE x \in run[r].batch
    BY <1>2 DEF Snapshot
  <1>3. ASSUME NEW q \in Runs, NEW held, LeaseBatch(q, held)
        PROVE  x \in run[r].batch \/ x.id \in run[r].candidates
    <2>1. CASE q = r
      <3>1. PICK e \in LockedRows(queue, run[r].candidates, held, BatchSize) : x.id = e
        BY <1>3, <2>1 DEF LeaseBatch
      <3>. QED BY <3>1, LockedRowsAreCandidates
    <2>2. CASE q # r
      BY <1>3, <2>2 DEF LeaseBatch
    <2>. QED BY <2>1, <2>2
  <1>4. ASSUME NEW q \in Runs, NEW y, NEW o, HandOver(q, y, o) PROVE x \in run[r].batch
    BY <1>4 DEF HandOver
  <1>5. ASSUME NEW q \in Runs, Crash(q) PROVE x \in run[r].batch
    BY <1>5 DEF Crash
  <1>6. CASE UNCHANGED run
    BY <1>6
  <1>. QED
    BY <1>1, <1>2, <1>3, <1>4, <1>5, <1>6
    DEF Next, PassStep, StoreStep, PublisherStep, Conclude, GiveUp, HandOverFailed, HandOverDone, Produce, Enqueue,
        TimePasses, Requeue, Skip, ResolveDeadLetter, vars

(* And to the candidates: they are those of a snapshot, this step's or an   *)
(* earlier one's.                                                           *)
LEMMA CandidatesStep ==
  ASSUME IndInv, [Next]_vars, NEW r \in Runs, NEW e \in run'[r].candidates
  PROVE  e \in run[r].candidates \/ e \in Candidates(queue, ScopeOf[r])
  <1>. USE DEF IndInv, TypeOK, Pass, Idle
  <1>1. ASSUME NEW q \in Runs, NEW y, Advance(q, y) PROVE e \in run[r].candidates
    BY <1>1 DEF Advance
  <1>2. ASSUME NEW q \in Runs, Snapshot(q)
        PROVE  e \in run[r].candidates \/ e \in Candidates(queue, ScopeOf[r])
    BY <1>2 DEF Snapshot
  <1>3. ASSUME NEW q \in Runs, NEW held, LeaseBatch(q, held) PROVE e \in run[r].candidates
    BY <1>3 DEF LeaseBatch
  <1>4. ASSUME NEW q \in Runs, NEW y, NEW o, HandOver(q, y, o) PROVE e \in run[r].candidates
    BY <1>4 DEF HandOver
  <1>5. ASSUME NEW q \in Runs, Crash(q) PROVE e \in run[r].candidates
    BY <1>5 DEF Crash
  <1>6. CASE UNCHANGED run
    BY <1>6
  <1>. QED
    BY <1>1, <1>2, <1>3, <1>4, <1>5, <1>6
    DEF Next, PassStep, StoreStep, PublisherStep, Conclude, GiveUp, HandOverFailed, HandOverDone, Produce, Enqueue,
        TimePasses, Requeue, Skip, ResolveDeadLetter, vars

(* The history grows by hand-overs only. *)
LEMMA HandedStepLemma ==
  ASSUME IndInv, [Next]_vars, NEW e \in Entries
  PROVE  /\ handed'[e] >= handed[e]
         /\ handed'[e] # handed[e] => \E r \in Runs : \E x \in run[r].batch : x.id = e
  <1>. USE DEF IndInv, TypeOK
  <1>1. ASSUME NEW r \in Runs, NEW x \in run[r].batch, NEW o \in Outcomes, HandOver(r, x, o)
        PROVE  /\ handed'[e] >= handed[e]
               /\ handed'[e] # handed[e] => x.id = e
    <2>1. handed' = [handed EXCEPT ![x.id] =
                       IF o = "failed" THEN handed[x.id] ELSE handed[x.id] + 1]
      BY <1>1 DEF HandOver
    <2>. QED BY <2>1
  <1>2. CASE UNCHANGED handed
    BY <1>2
  <1>. QED
    BY <1>1, <1>2
    DEF Next, PassStep, StoreStep, PublisherStep, Conclude, Snapshot, LeaseBatch, Crash, GiveUp, HandOverFailed,
        HandOverDone, Produce, Enqueue, TimePasses, Requeue, Skip, ResolveDeadLetter, vars

(* A row leaves 'pending' by a lease on a candidate, and becomes 'done' by  *)
(* a pass whose hand-over of it returned; only an operator skips it.        *)
LEMMA RowStep ==
  ASSUME IndInv, [Next]_vars, NEW e \in 1 .. Len(queue)
  PROVE  /\ queue[e].status = "pending" /\ queue'[e].status # "pending"
              => \E r \in Runs : e \in run[r].candidates
         /\ queue[e].status # "done" /\ queue'[e].status = "done"
              => \E r \in Runs : \E x \in run[r].batch :
                   run[r].pc = "published" /\ IsCurrent(r, x) /\ x.id = e
         /\ queue[e].status # "skipped" /\ queue'[e].status = "skipped" => Skip(e)
  <1>. DEFINE Leased == \E r \in Runs : e \in run[r].candidates
              Marked == \E r \in Runs : \E x \in run[r].batch :
                          run[r].pc = "published" /\ IsCurrent(r, x) /\ x.id = e
              Goal == /\ queue[e].status = "pending" /\ queue'[e].status # "pending" => Leased
                      /\ queue[e].status # "done" /\ queue'[e].status = "done" => Marked
                      /\ queue[e].status # "skipped" /\ queue'[e].status = "skipped" => Skip(e)
  <1>0. queue \in Seq(Row) /\ queue[e] \in Row /\ PassesOK
    BY DEF IndInv, TypeOK
  <1>. HIDE DEF Leased, Marked
  <1>1. ASSUME UNCHANGED queue PROVE Goal
    BY <1>1
  <1>2. ASSUME NEW s \in Streams, Produce(s) PROVE Goal
    BY <1>0, <1>2 DEF Produce, Enqueue
  <1>3. ASSUME NEW d \in Entries, TimePasses(d) PROVE Goal
    BY <1>0, <1>3 DEF TimePasses, TimestampPasses, Row
  <1>4. ASSUME NEW d \in Entries, Requeue(d) \/ Skip(d) PROVE Goal
    <2>1. /\ d \in 1 .. Len(queue) /\ queue[d] \in Row /\ queue[d].status = "dead"
          /\ \/ queue' = [queue EXCEPT ![d] = RequeueRow(queue[d])]
             \/ queue' = [queue EXCEPT ![d] = SkipRow(queue[d])] /\ Skip(d)
      BY <1>0, <1>4 DEF Requeue, Skip, ResolveDeadLetter
    <2>2. RequeueRow(queue[d]).status = "pending" /\ SkipRow(queue[d]).status = "skipped"
      BY <2>1 DEF RequeueRow, SkipRow, Row
    <2>. QED BY <1>0, <2>1, <2>2
  <1>5. ASSUME NEW r \in Runs, NEW held, LeaseBatch(r, held) PROVE Goal
    <2>. DEFINE locked == LockedRows(queue, run[r].candidates, held, BatchSize)
    <2>1. \A i \in locked : i \in run[r].candidates
      BY LockedRowsAreCandidates
    <2>2. queue' = LeaseRows(queue, locked, WorkerOf[r])
      BY <1>5 DEF LeaseBatch
    <2>3. e \in locked => Leased
      BY <2>1 DEF Leased
    <2>4. WorkerOf[r] \in Workers
      BY RunsAssumption
    <2>. HIDE DEF locked
    <2>5. queue'[e] = IF e \in locked THEN LeaseRow(queue[e], WorkerOf[r]) ELSE queue[e]
      BY <1>0, <2>2, <2>4, LeaseManyRows
    <2>. QED BY <1>0, <2>3, <2>5 DEF LeaseRow, Row
  <1>6. ASSUME NEW r \in Runs, NEW x \in run[r].batch, NEW retry \in BOOLEAN,
               queue' = RecordFailure(queue, x.id, WorkerOf[r], retry)
        PROVE  Goal
    <2>1. x.id \in 1 .. Len(queue) /\ queue[x.id] \in Row
      BY <1>0 DEF PassesOK
    <2>2. FailedRow(queue[x.id], retry).status \notin {"done", "skipped"}
      BY <2>1 DEF FailedRow, Row
    <2>. QED BY <1>0, <1>6, <2>1, <2>2 DEF RecordFailure, HoldsLease
  <1>7. ASSUME NEW r \in Runs, NEW x \in run[r].batch, GiveUp(r, x) \/ HandOverFailed(r, x)
        PROVE  Goal
    <2>1. (x.attempts < MaxAttempts) \in BOOLEAN /\ FALSE \in BOOLEAN
      OBVIOUS
    <2>. QED BY <1>6, <1>7, <2>1 DEF GiveUp, HandOverFailed
  <1>8. ASSUME NEW r \in Runs, NEW x \in run[r].batch, HandOverDone(r, x) PROVE Goal
    <2>1. x.id \in 1 .. Len(queue)
      BY <1>0 DEF PassesOK
    <2>2. x.id = e => Marked
      BY <1>8 DEF HandOverDone, Marked
    <2>3. queue' = MarkPublished(queue, x.id, WorkerOf[r])
      BY <1>8 DEF HandOverDone
    <2>4. PublishedRow(queue[x.id]).status = "done"
      BY <1>0, <2>1 DEF PublishedRow, Row
    <2>. QED BY <1>0, <2>1, <2>2, <2>3, <2>4 DEF MarkPublished, HoldsLease
  <1>9. ASSUME NEW r \in Runs, NEW x \in run[r].batch, NEW o \in Outcomes, HandOver(r, x, o)
        PROVE  Goal
    BY <1>1, <1>9 DEF HandOver
  <1>10. ASSUME NEW r \in Runs, Snapshot(r) \/ Crash(r) PROVE Goal
    BY <1>1, <1>10 DEF Snapshot, Crash
  <1>11. Goal
    BY <1>1, <1>2, <1>3, <1>4, <1>5, <1>7, <1>8, <1>9, <1>10
    DEF Next, PassStep, StoreStep, PublisherStep, Conclude, vars
  <1>. QED BY <1>11 DEF Leased, Marked

(* Only a producer adds rows. *)
LEMMA LengthKept ==
  ASSUME TypeOK, PassesOK
  PROVE  /\ \A r \in Runs : PassStep(r) => Len(queue') = Len(queue)
         /\ \A d \in Entries : TimePasses(d) \/ Requeue(d) \/ Skip(d) => Len(queue') = Len(queue)
  <1>1. ASSUME NEW r \in Runs, PassStep(r) PROVE Len(queue') = Len(queue)
    <2>1. WorkerOf[r] \in Workers
      BY RunsAssumption
    <2>2. \A x \in run[r].batch : x.id \in 1 .. Len(queue)
      BY DEF PassesOK
    <2>3. ASSUME NEW held, LeaseBatch(r, held) PROVE Len(queue') = Len(queue)
      <3>. DEFINE locked == LockedRows(queue, run[r].candidates, held, BatchSize)
      <3>1. queue' = LeaseRows(queue, locked, WorkerOf[r]) /\ queue \in Seq(Row)
        BY <2>3 DEF LeaseBatch, TypeOK
      <3>. HIDE DEF locked
      <3>. QED BY <2>1, <3>1, LeaseManyRows
    <2>4. ASSUME NEW x \in run[r].batch, GiveUp(r, x) \/ HandOverFailed(r, x)
          PROVE  Len(queue') = Len(queue)
      <3>1. \A retry \in BOOLEAN :
              Len(RecordFailure(queue, x.id, WorkerOf[r], retry)) = Len(queue)
        BY DEF RecordFailure, TypeOK
      <3>2. (x.attempts < MaxAttempts) \in BOOLEAN /\ FALSE \in BOOLEAN
        OBVIOUS
      <3>3. PICK retry \in BOOLEAN : queue' = RecordFailure(queue, x.id, WorkerOf[r], retry)
        BY <2>4, <3>2 DEF GiveUp, HandOverFailed
      <3>. QED BY <3>1, <3>3
    <2>5. ASSUME NEW x \in run[r].batch, HandOverDone(r, x) PROVE Len(queue') = Len(queue)
      BY <2>2, <2>5 DEF HandOverDone, MarkPublished, TypeOK
    <2>. QED
      BY <1>1, <2>3, <2>4, <2>5 DEF PassStep, StoreStep, PublisherStep, Conclude, Snapshot, HandOver, Crash
  <1>2. ASSUME NEW d \in Entries, TimePasses(d) \/ Requeue(d) \/ Skip(d)
        PROVE  Len(queue') = Len(queue)
    BY <1>2 DEF TimePasses, Requeue, Skip, ResolveDeadLetter, TypeOK
  <1>. QED BY <1>1, <1>2

(* A row of this step is pending, and the step did nothing else. *)
LEMMA NewRowsArePending ==
  ASSUME IndInv, [Next]_vars, NEW e \in 1 .. Len(queue'), e \notin 1 .. Len(queue)
  PROVE  UNCHANGED <<run, handed>> /\ queue'[e].status = "pending"
  <1>0. TypeOK /\ PassesOK /\ Evolves
    BY NextEvolves DEF IndInv
  <1>1. Len(queue) \in Nat /\ Len(queue') \in Nat /\ Len(queue) # Len(queue')
    BY <1>0 DEF TypeOK, Evolves
  <1>2. PICK s \in Streams : Produce(s)
    <2>1. ASSUME NEW r \in Runs, PassStep(r) PROVE Len(queue') = Len(queue)
      BY <1>0, <2>1, LengthKept
    <2>2. ASSUME NEW d \in Entries, TimePasses(d) \/ Requeue(d) \/ Skip(d)
          PROVE  Len(queue') = Len(queue)
      BY <1>0, <2>2, LengthKept
    <2>. QED BY <1>1, <2>1, <2>2 DEF Next, vars
  <1>3. /\ queue' = Append(queue, NewRow(s, Len(queue) + 1))
        /\ handed' = handed /\ run' = run /\ Len(queue) < MaxEntries
    BY <1>2 DEF Produce, Enqueue
  <1>4. e = Len(queue) + 1 /\ e \in Entries
    BY <1>0, <1>1, <1>3, BoundsAssumption DEF TypeOK, Entries
  <1>5. queue'[e].status = "pending"
    BY <1>0, <1>3, <1>4 DEF TypeOK, NewRow
  <1>. QED BY <1>3, <1>5

(* Per-aggregate order over one step. *)
LEMMA NoOvertakeStep == IndInv /\ [Next]_vars => NoOvertake'
  <1>. SUFFICES ASSUME IndInv, [Next]_vars, NEW e \in 1 .. Len(queue'), Started(e)'
                PROVE  IsHead(queue', e)
    BY DEF NoOvertake
  <1>1. TypeOK /\ PassesOK /\ HandedOK /\ NoOvertake /\ Evolves
    BY NextEvolves DEF IndInv
  <1>2. CASE e \in 1 .. Len(queue)
    <2>1. e \in Entries
      BY <1>1, <1>2, BoundsAssumption DEF TypeOK, Entries
    <2>2. handed[e] \in Nat /\ handed'[e] \in Nat
      BY <2>1, TypeStep DEF IndInv, TypeOK
    <2>3. CASE queue'[e].status # "pending"
      BY <1>1, <1>2, <2>3, RowStep, HeadStable DEF NoOvertake, Started, PassesOK
    <2>4. CASE handed'[e] > 0
      <3>1. Started(e)
        BY <2>1, <2>2, <2>4, HandedStepLemma DEF Started
      <3>. QED BY <1>1, <1>2, <3>1, HeadStable DEF NoOvertake
    <2>5. CASE \E r \in Runs : \E x \in run'[r].batch : x.id = e
      <3>1. PICK r \in Runs : \E x \in run'[r].batch : x.id = e
        BY <2>5
      <3>2. IsHead(queue, e)
        BY <1>1, <1>2, <3>1, BatchStep DEF NoOvertake, Started, PassesOK
      <3>. QED BY <1>1, <1>2, <3>2, HeadStable
    <2>. QED BY <2>3, <2>4, <2>5 DEF Started
  <1>3. CASE e \notin 1 .. Len(queue)
    <2>1. e \in Entries
      BY <1>1, <1>3, BoundsAssumption DEF TypeOK, Entries, Evolves
    <2>2. UNCHANGED <<run, handed>> /\ queue'[e].status = "pending"
      BY <1>1, <1>3, NewRowsArePending
    <2>6. ~(handed'[e] > 0)
      BY <1>1, <1>3, <2>1, <2>2 DEF HandedOK
    <2>7. ~\E r \in Runs : \E x \in run'[r].batch : x.id = e
      BY <1>1, <1>3, <2>2 DEF PassesOK
    <2>. QED BY <2>2, <2>6, <2>7 DEF Started
  <1>. QED BY <1>2, <1>3

(* What the passes know stays true while others work. *)
LEMMA PassesStep == IndInv /\ [Next]_vars => PassesOK'
  <1>. SUFFICES ASSUME IndInv, [Next]_vars, NEW r \in Runs
                PROVE  /\ \A e \in run'[r].candidates :
                            e \in 1 .. Len(queue') /\ IsHead(queue', e)
                       /\ \A x \in run'[r].batch : x.id \in 1 .. Len(queue')
                       /\ run'[r].pc = "published" =>
                            \A x \in run'[r].batch : IsCurrent(r, x)' => handed'[x.id] > 0
    BY DEF PassesOK
  <1>1. TypeOK /\ TypeOK' /\ PassesOK /\ NoOvertake /\ Evolves
    BY NextEvolves, TypeStep DEF IndInv
  <1>2. Len(queue) \in Nat /\ Len(queue') \in Nat /\ Len(queue) <= Len(queue')
    BY <1>1 DEF TypeOK, Evolves
  <1>3. ASSUME NEW e \in run'[r].candidates PROVE e \in 1 .. Len(queue') /\ IsHead(queue', e)
    <2>1. e \in 1 .. Len(queue) /\ IsHead(queue, e)
      BY <1>1, CandidatesStep DEF PassesOK, Candidates
    <2>. QED BY <1>1, <1>2, <2>1, HeadStable
  <1>4. ASSUME NEW x \in run'[r].batch PROVE x.id \in 1 .. Len(queue')
    BY <1>1, <1>2, BatchStep DEF PassesOK
  <1>5. ASSUME run'[r].pc = "published", NEW x \in run'[r].batch, IsCurrent(r, x)'
        PROVE  handed'[x.id] > 0
    <2>1. /\ x.id \in Entries /\ handed'[x.id] \in Nat /\ handed[x.id] \in Nat
          /\ handed'[x.id] >= handed[x.id]
      BY <1>1, <1>5, HandedStepLemma DEF TypeOK, Pass, Leases
    <2>2. CASE run'[r] = run[r]
      BY <1>1, <1>5, <2>1, <2>2 DEF PassesOK, IsCurrent
    <2>3. ASSUME NEW y \in run[r].batch, NEW o \in Outcomes, HandOver(r, y, o)
          PROVE  handed'[x.id] > 0
      <3>1. o # "failed"
        BY <1>1, <1>5, <2>3 DEF HandOver, TypeOK, Pass
      <3>2. run'[r].batch = run[r].batch
        BY <1>1, <2>3 DEF HandOver, TypeOK, Pass
      <3>3. x.id = y.id
        BY <1>1, <1>5, <2>3, <3>2 DEF HandOver, IsCurrent, TypeOK, Pass, Leases, Entries
      <3>4. handed' = [handed EXCEPT ![y.id] = handed[y.id] + 1]
        BY <2>3, <3>1 DEF HandOver
      <3>. QED BY <1>1, <2>1, <3>3, <3>4 DEF TypeOK
    <2>4. ASSUME NEW q \in Runs, q # r, run' = [run EXCEPT ![q] = run'[q]]
          PROVE  run'[r] = run[r]
      BY <1>1, <2>4 DEF TypeOK
    <2>5. ASSUME NEW q \in Runs, PassStep(q), q # r PROVE run'[r] = run[r]
      BY <1>1, <2>5
      DEF PassStep, StoreStep, PublisherStep, Conclude, Snapshot, LeaseBatch, Crash, GiveUp, HandOver, HandOverFailed,
          HandOverDone, Advance, TypeOK
    <2>6. ASSUME Snapshot(r) \/ (\E held : LeaseBatch(r, held)) \/ Crash(r)
                   \/ \E y : Advance(r, y)
          PROVE  FALSE
      BY <1>1, <1>5, <2>6 DEF Snapshot, LeaseBatch, Crash, Advance, Idle, TypeOK
    <2>7. CASE UNCHANGED run
      BY <2>2, <2>7
    <2>8. ASSUME PassStep(r) PROVE handed'[x.id] > 0
      BY <2>3, <2>6, <2>8 DEF PassStep, StoreStep, PublisherStep, Conclude, GiveUp, HandOverFailed, HandOverDone
    <2>. QED
      BY <2>2, <2>5, <2>7, <2>8
      DEF Next, Produce, Enqueue, TimePasses, Requeue, Skip, ResolveDeadLetter, vars
  <1>. QED BY <1>3, <1>4, <1>5

(* No event is lost, over one step; and the history speaks of rows only. *)
LEMMA HistoryStep == IndInv /\ [Next]_vars => PublishedWasHanded' /\ HandedOK'
  <1>. SUFFICES ASSUME IndInv, [Next]_vars PROVE PublishedWasHanded' /\ HandedOK'
    OBVIOUS
  <1>1. /\ TypeOK /\ TypeOK' /\ PassesOK /\ HandedOK /\ PublishedWasHanded
        /\ Evolves /\ PassesOK' /\ NoOvertake'
    BY NextEvolves, TypeStep, PassesStep, NoOvertakeStep DEF IndInv
  <1>2. Len(queue) \in Nat /\ Len(queue') \in Nat /\ Len(queue) <= Len(queue')
    BY <1>1 DEF TypeOK, Evolves
  <1>3. \A e \in Entries : handed[e] \in Nat /\ handed'[e] \in Nat
    BY <1>1 DEF TypeOK
  <1>4. HandedOK'
    BY <1>1, <1>2, <1>3, HandedStepLemma DEF HandedOK, PassesOK
  <1>5. ASSUME NEW e \in 1 .. Len(queue'), queue'[e].status = "done" PROVE handed'[e] > 0
    <2>0. e \in Entries
      BY <1>1, <1>2, BoundsAssumption DEF TypeOK, Entries
    <2>1. CASE e \in 1 .. Len(queue)
      <3>1. handed[e] > 0
        BY <1>1, <1>5, <2>1, RowStep DEF PublishedWasHanded, PassesOK
      <3>. QED BY <1>3, <2>0, <3>1, HandedStepLemma
    <2>2. CASE e \notin 1 .. Len(queue)
      <3>1. queue'[e].status = "pending"
        BY <1>1, <2>2, NewRowsArePending
      <3>. QED BY <1>5, <3>1
    <2>. QED BY <2>1, <2>2
  <1>. QED BY <1>4, <1>5 DEF PublishedWasHanded

-----------------------------------------------------------------------------
(* The theorems *)

LEMMA InitHolds == Init => IndInv
  <1>. SUFFICES ASSUME Init PROVE IndInv
    OBVIOUS
  <1>1. TypeOK
    BY BoundsAssumption DEF Init, TypeOK, Idle, Pass
  <1>2. PassesOK /\ HandedOK /\ NoOvertake /\ PublishedWasHanded
    BY DEF Init, PassesOK, HandedOK, NoOvertake, PublishedWasHanded, Idle
  <1>. QED BY <1>1, <1>2 DEF IndInv

LEMMA StepHolds == IndInv /\ [Next]_vars => IndInv'
  <1>1. IndInv /\ [Next]_vars => TypeOK' /\ PassesOK' /\ NoOvertake'
    BY TypeStep, PassesStep, NoOvertakeStep
  <1>2. IndInv /\ [Next]_vars => PublishedWasHanded' /\ HandedOK'
    BY HistoryStep
  <1>. QED BY <1>1, <1>2 DEF IndInv

(* The inductive invariant holds of every reachable state. *)
THEOREM Invariance == Spec => []IndInv
  BY InitHolds, StepHolds, PTL DEF Spec

(* Type correctness of the table, the passes and the histories. *)
THEOREM TypeCorrect == Spec => []TypeOK
  <1>1. IndInv => TypeOK
    BY DEF IndInv
  <1>. QED BY <1>1, Invariance, PTL

(* Per-aggregate order: leaseBatch never lets an entry overtake an earlier  *)
(* unfinished entry of its stream, however workers, crashes, expired leases *)
(* and operators interleave.                                                *)
THEOREM Ordered == Spec => []NoOvertake
  <1>1. IndInv => NoOvertake
    BY DEF IndInv
  <1>. QED BY <1>1, Invariance, PTL

(* No event is lost: an entry is marked published only after its publisher  *)
(* took effect.                                                             *)
THEOREM NothingLost == Spec => []PublishedWasHanded
  <1>1. IndInv => PublishedWasHanded
    BY DEF IndInv
  <1>. QED BY <1>1, Invariance, PTL

-----------------------------------------------------------------------------
(* Leases *)

(* A row that is leased after a step other than a lease statement was       *)
(* leased before it, by the same worker and for the same attempt.           *)
SameLease(e) ==
  queue'[e].status = "leased" =>
    /\ queue[e].status = "leased"
    /\ queue'[e].leasedBy = queue[e].leasedBy
    /\ queue'[e].attempts = queue[e].attempts

LEMMA LeaseKept ==
  ASSUME IndInv, [Next]_vars, NEW e \in 1 .. Len(queue),
         ~\E r \in Runs : \E held : LeaseBatch(r, held)
  PROVE  SameLease(e)
  <1>0. queue \in Seq(Row) /\ queue[e] \in Row /\ PassesOK
    BY DEF IndInv, TypeOK
  <1>1. ASSUME UNCHANGED queue PROVE SameLease(e)
    BY <1>1 DEF SameLease
  <1>2. ASSUME NEW d \in 1 .. Len(queue), NEW row, row.status # "leased",
               queue' = [queue EXCEPT ![d] = row]
        PROVE  SameLease(e)
    BY <1>0, <1>2 DEF SameLease
  <1>3. ASSUME NEW s \in Streams, Produce(s) PROVE SameLease(e)
    BY <1>0, <1>3 DEF Produce, Enqueue, SameLease
  <1>4. ASSUME NEW d \in Entries, TimePasses(d) PROVE SameLease(e)
    BY <1>0, <1>4 DEF TimePasses, TimestampPasses, Row, SameLease
  <1>5. ASSUME NEW d \in Entries, Requeue(d) \/ Skip(d) PROVE SameLease(e)
    <2>1. d \in 1 .. Len(queue) /\ queue[d] \in Row
      BY <1>0, <1>5 DEF Requeue, Skip, ResolveDeadLetter
    <2>2. RequeueRow(queue[d]).status # "leased" /\ SkipRow(queue[d]).status # "leased"
      BY <2>1 DEF RequeueRow, SkipRow, Row
    <2>. QED BY <1>2, <1>5, <2>1, <2>2 DEF Requeue, Skip, ResolveDeadLetter
  <1>6. ASSUME NEW r \in Runs, NEW x \in run[r].batch, GiveUp(r, x) \/ HandOverFailed(r, x)
        PROVE  SameLease(e)
    <2>1. x.id \in 1 .. Len(queue) /\ queue[x.id] \in Row
      BY <1>0 DEF PassesOK
    <2>2. \A retry \in BOOLEAN : FailedRow(queue[x.id], retry).status # "leased"
      BY <2>1 DEF FailedRow, Row
    <2>3. PICK retry \in BOOLEAN : queue' = RecordFailure(queue, x.id, WorkerOf[r], retry)
      <3>1. (x.attempts < MaxAttempts) \in BOOLEAN /\ FALSE \in BOOLEAN
        OBVIOUS
      <3>. QED BY <1>6, <3>1 DEF GiveUp, HandOverFailed
    <2>. QED BY <1>1, <1>2, <2>1, <2>2, <2>3 DEF RecordFailure
  <1>7. ASSUME NEW r \in Runs, NEW x \in run[r].batch, HandOverDone(r, x) PROVE SameLease(e)
    <2>1. x.id \in 1 .. Len(queue) /\ queue[x.id] \in Row
      BY <1>0 DEF PassesOK
    <2>2. PublishedRow(queue[x.id]).status # "leased"
      BY <2>1 DEF PublishedRow, Row
    <2>. QED BY <1>1, <1>2, <1>7, <2>1, <2>2 DEF HandOverDone, MarkPublished
  <1>8. ASSUME NEW r \in Runs, NEW x \in run[r].batch, NEW o \in Outcomes, HandOver(r, x, o)
        PROVE  SameLease(e)
    BY <1>1, <1>8 DEF HandOver
  <1>9. ASSUME NEW r \in Runs, Snapshot(r) \/ Crash(r) PROVE SameLease(e)
    BY <1>1, <1>9 DEF Snapshot, Crash
  <1>. QED
    BY <1>1, <1>3, <1>4, <1>5, <1>6, <1>7, <1>8, <1>9
    DEF Next, PassStep, StoreStep, PublisherStep, Conclude, vars

(* Two loops never share a worker id. *)
DistinctWorkers == \A r, s \in Runs : WorkerOf[r] = WorkerOf[s] => r = s

(* The lease check by worker id, without a fencing token, over one step. *)
LEMMA HeldLeaseStep ==
  ASSUME DistinctWorkers, IndInv, HeldLeaseIsLatest, [Next]_vars
  PROVE  HeldLeaseIsLatest'
  <1>. SUFFICES ASSUME NEW r \in Runs, NEW x \in run'[r].batch,
                       HoldsLease(queue', x.id, WorkerOf[r])
                PROVE  x.attempts = queue'[x.id].attempts
    BY DEF HeldLeaseIsLatest
  <1>1. TypeOK /\ PassesOK
    BY DEF IndInv
  <1>2. ASSUME NEW q \in Runs, NEW held, LeaseBatch(q, held)
        PROVE  x.attempts = queue'[x.id].attempts
    <2>. DEFINE locked == LockedRows(queue, run[q].candidates, held, BatchSize)
                batch == {[id |-> e, attempts |-> queue'[e].attempts] : e \in locked}
    <2>1. /\ queue' = LeaseRows(queue, locked, WorkerOf[q])
          /\ run' = [run EXCEPT ![q] = IF locked = {} THEN Idle
                       ELSE [pc |-> "working", candidates |-> {}, batch |-> batch]]
      BY <1>2 DEF LeaseBatch
    <2>. HIDE DEF locked
    <2>2. CASE q = r
      <3>1. x \in batch
        <4>. HIDE DEF batch
        <4>. QED BY <1>1, <2>1, <2>2 DEF TypeOK, Idle
      <3>. QED BY <3>1
    <2>3. CASE q # r
      <3>1. x \in run[r].batch
        <4>. HIDE DEF batch
        <4>. QED BY <1>1, <2>1, <2>3 DEF TypeOK
      <3>2. x.id \in 1 .. Len(queue) /\ queue[x.id] \in Row
        BY <1>1, <3>1 DEF PassesOK, TypeOK
      <3>3. WorkerOf[q] \in Workers /\ WorkerOf[q] # WorkerOf[r]
        BY <2>3, RunsAssumption DEF DistinctWorkers
      <3>4. queue'[x.id] = IF x.id \in locked THEN LeaseRow(queue[x.id], WorkerOf[q])
                           ELSE queue[x.id]
        BY <1>1, <2>1, <3>2, <3>3, LeaseManyRows DEF TypeOK
      <3>5. LeaseRow(queue[x.id], WorkerOf[q]).leasedBy = WorkerOf[q]
        BY <3>2 DEF LeaseRow, Row
      <3>6. queue'[x.id] = queue[x.id]
        BY <3>3, <3>4, <3>5 DEF HoldsLease
      <3>. QED BY <3>1, <3>6 DEF HoldsLease, HeldLeaseIsLatest
    <2>. QED BY <2>2, <2>3
  <1>3. CASE ~\E q \in Runs : \E held : LeaseBatch(q, held)
    <2>1. x \in run[r].batch
      <3>. USE <1>1 DEF TypeOK, Pass, Idle
      <3>1. ASSUME NEW q \in Runs, NEW y, Advance(q, y) PROVE x \in run[r].batch
        BY <3>1 DEF Advance
      <3>2. ASSUME NEW q \in Runs, Snapshot(q) \/ Crash(q) PROVE x \in run[r].batch
        BY <3>2 DEF Snapshot, Crash
      <3>3. ASSUME NEW q \in Runs, NEW y, NEW o, HandOver(q, y, o) PROVE x \in run[r].batch
        BY <3>3 DEF HandOver
      <3>4. CASE UNCHANGED run
        BY <3>4
      <3>. QED
        BY <1>3, <3>1, <3>2, <3>3, <3>4
        DEF Next, PassStep, StoreStep, PublisherStep, Conclude, GiveUp, HandOverFailed, HandOverDone, Produce, Enqueue,
            TimePasses, Requeue, Skip, ResolveDeadLetter, vars
    <2>2. x.id \in 1 .. Len(queue)
      BY <1>1, <2>1 DEF PassesOK
    <2>3. SameLease(x.id)
      BY <1>3, <2>2, LeaseKept
    <2>. QED BY <2>1, <2>3 DEF SameLease, HoldsLease, HeldLeaseIsLatest
  <1>. QED BY <1>2, <1>3

(* A worker id is fence enough: a pass that still holds a row holds its     *)
(* latest lease, as long as two loops never share a worker id.              *)
THEOREM LeasesFenced == ASSUME DistinctWorkers PROVE Spec => []HeldLeaseIsLatest
  <1>1. Init => HeldLeaseIsLatest
    BY DEF Init, Idle, HeldLeaseIsLatest
  <1>2. IndInv /\ HeldLeaseIsLatest /\ [Next]_vars => HeldLeaseIsLatest'
    BY HeldLeaseStep
  <1>. QED BY <1>1, <1>2, Invariance, PTL DEF Spec

-----------------------------------------------------------------------------
(* Settled rows *)

(* A dead letter moves by an operator's audited resolution only. *)
LEMMA DeadStep ==
  ASSUME IndInv, [Next]_vars, NEW e \in 1 .. Len(queue), queue[e].status = "dead",
         audit'[e] = audit[e]
  PROVE  queue'[e] = queue[e]
  <1>0. /\ queue \in Seq(Row) /\ queue[e] \in Row /\ PassesOK
        /\ e \in Entries /\ audit \in [Entries -> Nat]
    BY BoundsAssumption DEF IndInv, TypeOK, Entries
  <1>1. ASSUME NEW d \in 1 .. Len(queue), NEW row, queue[d].status # "dead",
               queue' = [queue EXCEPT ![d] = row]
        PROVE  queue'[e] = queue[e]
    BY <1>0, <1>1
  <1>2. ASSUME NEW s \in Streams, Produce(s) PROVE queue'[e] = queue[e]
    BY <1>0, <1>2 DEF Produce, Enqueue
  <1>3. ASSUME NEW d \in Entries, TimePasses(d) PROVE queue'[e] = queue[e]
    BY <1>1, <1>3 DEF TimePasses
  <1>4. ASSUME NEW d \in Entries, Requeue(d) \/ Skip(d) PROVE queue'[e] = queue[e]
    BY <1>0, <1>4 DEF Requeue, Skip, ResolveDeadLetter
  <1>5. ASSUME NEW r \in Runs, NEW held, LeaseBatch(r, held) PROVE queue'[e] = queue[e]
    <2>. DEFINE locked == LockedRows(queue, run[r].candidates, held, BatchSize)
    <2>1. e \notin locked
      BY LockedRowsAreCandidates DEF Leasable
    <2>2. queue' = LeaseRows(queue, locked, WorkerOf[r])
      BY <1>5 DEF LeaseBatch
    <2>3. WorkerOf[r] \in Workers
      BY RunsAssumption
    <2>. HIDE DEF locked
    <2>. QED BY <1>0, <2>1, <2>2, <2>3, LeaseManyRows
  <1>6. ASSUME NEW r \in Runs, NEW x \in run[r].batch, GiveUp(r, x) \/ HandOverFailed(r, x)
        PROVE  queue'[e] = queue[e]
    <2>1. x.id \in 1 .. Len(queue)
      BY <1>0 DEF PassesOK
    <2>2. PICK retry \in BOOLEAN : queue' = RecordFailure(queue, x.id, WorkerOf[r], retry)
      <3>1. (x.attempts < MaxAttempts) \in BOOLEAN /\ FALSE \in BOOLEAN
        OBVIOUS
      <3>. QED BY <1>6, <3>1 DEF GiveUp, HandOverFailed
    <2>. QED BY <1>1, <2>1, <2>2 DEF RecordFailure, HoldsLease
  <1>7. ASSUME NEW r \in Runs, NEW x \in run[r].batch, HandOverDone(r, x)
        PROVE  queue'[e] = queue[e]
    <2>1. x.id \in 1 .. Len(queue)
      BY <1>0 DEF PassesOK
    <2>. QED BY <1>1, <1>7, <2>1 DEF HandOverDone, MarkPublished, HoldsLease
  <1>8. CASE UNCHANGED queue
    BY <1>8
  <1>. QED
    BY <1>2, <1>3, <1>4, <1>5, <1>6, <1>7, <1>8
    DEF Next, PassStep, StoreStep, PublisherStep, Conclude, Snapshot, Crash, HandOver, vars

(* Published and skipped rows never change again, and a dead letter only    *)
(* with an audit event: the dispatcher never revives or drops one itself.   *)
THEOREM SettledForGood == Spec => SettledIsStable
  <1>1. IndInv /\ [Next]_vars =>
          [\A e \in 1 .. Len(queue) :
             Finished(queue[e]) \/ (queue[e].status = "dead" /\ audit'[e] = audit[e])
               => queue'[e] = queue[e]]_vars
    <2>. SUFFICES ASSUME IndInv, [Next]_vars, NEW e \in 1 .. Len(queue),
                         Finished(queue[e]) \/ (queue[e].status = "dead" /\ audit'[e] = audit[e])
                  PROVE  queue'[e] = queue[e]
      OBVIOUS
    <2>1. Evolves
      BY NextEvolves DEF IndInv
    <2>. QED BY <2>1, DeadStep DEF Evolves
  <1>. QED BY <1>1, Invariance, PTL DEF Spec, SettledIsStable
-----------------------------------------------------------------------------
(* A queue that another transaction feeds *)

(* However many pending rows a transaction appends at once, the invariant   *)
(* stands: nobody has begun to work on them, and they come after all others. *)
LEMMA RowsAppended ==
  ASSUME IndInv, NEW rows \in Seq(Row), queue' = queue \o rows, Len(queue') <= MaxEntries,
         \A i \in 1 .. Len(rows) : rows[i].status = "pending",
         UNCHANGED <<run, handed, audit>>
  PROVE  IndInv'
  <1>1. /\ queue \in Seq(Row) /\ queue' \in Seq(Row) /\ Len(queue) \in Nat /\ Len(rows) \in Nat
        /\ Len(queue') = Len(queue) + Len(rows)
        /\ \A i \in 1 .. Len(queue) : queue'[i] = queue[i]
        /\ \A i \in 1 .. Len(queue') : i \notin 1 .. Len(queue) => queue'[i].status = "pending"
    <2>1. queue \in Seq(Row) /\ Len(queue) \in Nat /\ Len(rows) \in Nat
      BY DEF IndInv, TypeOK
    <2>2. queue' \in Seq(Row) /\ Len(queue') = Len(queue) + Len(rows)
      BY <2>1
    <2>3. \A i \in 1 .. Len(queue) : queue'[i] = queue[i]
      BY <2>1
    <2>4. ASSUME NEW i \in 1 .. Len(queue'), i \notin 1 .. Len(queue)
          PROVE  queue'[i].status = "pending"
      <3>1. i - Len(queue) \in 1 .. Len(rows) /\ queue'[i] = rows[i - Len(queue)]
        BY <2>1, <2>2, <2>4
      <3>. QED BY <3>1
    <2>. QED BY <2>1, <2>2, <2>3, <2>4
  <1>2. TypeOK'
    BY <1>1 DEF IndInv, TypeOK
  <1>3. ASSUME NEW e \in 1 .. Len(queue), IsHead(queue, e) PROVE IsHead(queue', e)
    BY <1>1, <1>3 DEF IsHead
  <1>4. 1 .. Len(queue) \subseteq 1 .. Len(queue')
    BY <1>1
  <1>5. PassesOK'
    BY <1>3, <1>4 DEF IndInv, PassesOK, IsCurrent
  <1>6. HandedOK'
    BY <1>4 DEF IndInv, HandedOK
  <1>7. ASSUME NEW e \in 1 .. Len(queue'), e \notin 1 .. Len(queue) PROVE ~Started(e)' /\ handed'[e] = 0
    <2>1. queue'[e].status = "pending"
      BY <1>1, <1>7
    <2>2. ~\E r \in Runs : \E x \in run'[r].batch : x.id = e
      BY <1>7 DEF IndInv, PassesOK
    <2>3. e \in Entries
      BY <1>1, BoundsAssumption DEF Entries
    <2>4. handed'[e] = 0
      BY <1>7, <2>3 DEF IndInv, HandedOK, TypeOK
    <2>. QED BY <2>1, <2>2, <2>4 DEF Started
  <1>8. NoOvertake'
    <2>. SUFFICES ASSUME NEW e \in 1 .. Len(queue'), Started(e)' PROVE IsHead(queue', e)
      BY DEF NoOvertake
    <2>1. e \in 1 .. Len(queue)
      BY <1>7
    <2>2. Started(e)
      BY <1>1, <2>1 DEF Started
    <2>. QED BY <1>3, <2>1, <2>2 DEF IndInv, NoOvertake
  <1>9. PublishedWasHanded'
    BY <1>1 DEF IndInv, PublishedWasHanded
  <1>. QED BY <1>2, <1>5, <1>6, <1>8, <1>9 DEF IndInv

-----------------------------------------------------------------------------
(* The budget of hand-overs.  Every lease of a row counts as an attempt     *)
(* when it is taken, so what was handed over and what passes may still hand *)
(* over, under leases however old, is within the attempts that were counted *)
(* since the last resolution and MaxAttempts for each one before.           *)

(* A pass may still hand e over: it leased the row for an allowed attempt   *)
(* and has not come to it yet.                                              *)
MayHandOver(r, e) ==
  \E x \in run[r].batch :
    x.id = e /\ x.attempts <= MaxAttempts /\ (run[r].pc = "working" \/ ~IsCurrent(r, x))
Holders(e) == {r \in Runs : MayHandOver(r, e)}

Counted(row) == IF row.attempts > MaxAttempts THEN MaxAttempts ELSE row.attempts
WithinBudget(e) ==
  /\ IsFiniteSet(Holders(e))
  /\ handed[e] + Cardinality(Holders(e)) <= MaxAttempts * audit[e] + Counted(queue[e])

OneLeaseEach == \A r \in Runs : \A x, y \in run[r].batch : x.id = y.id => x = y
BudgetInv == OneLeaseEach /\ \A e \in 1 .. Len(queue) : WithinBudget(e)

(* The arithmetic: how many hand-overs h and holders H, how much is counted *)
(* before (b) and after (b2).                                               *)
LEMMA FewerHolders ==
  ASSUME NEW H, NEW H2, IsFiniteSet(H), H2 \subseteq H, NEW h \in Nat, NEW b \in Nat, NEW b2 \in Nat,
         h + Cardinality(H) <= b, b <= b2
  PROVE  IsFiniteSet(H2) /\ h + Cardinality(H2) <= b2
  <1>1. H2 \in SUBSET H
    OBVIOUS
  <1>2. IsFiniteSet(H2) /\ Cardinality(H2) <= Cardinality(H)
    BY <1>1, FS_Subset
  <1>3. Cardinality(H) \in Nat /\ Cardinality(H2) \in Nat
    BY <1>2, FS_CardinalityType
  <1>. QED BY <1>2, <1>3

LEMMA OneHolderMore ==
  ASSUME NEW H, NEW H2, NEW r, IsFiniteSet(H), H2 \subseteq H \cup {r}, NEW h \in Nat, NEW b \in Nat,
         h + Cardinality(H) <= b
  PROVE  IsFiniteSet(H2) /\ h + Cardinality(H2) <= b + 1
  <1>1. /\ IsFiniteSet(H \cup {r}) /\ Cardinality(H) \in Nat
        /\ Cardinality(H \cup {r}) = IF r \in H THEN Cardinality(H) ELSE Cardinality(H) + 1
    BY FS_AddElement, FS_CardinalityType
  <1>2. h + Cardinality(H \cup {r}) <= b + 1
    BY <1>1
  <1>3. b + 1 \in Nat /\ b + 1 <= b + 1
    OBVIOUS
  <1>. QED BY <1>1, <1>2, <1>3, FewerHolders

LEMMA OneHolderLess ==
  ASSUME NEW H, NEW H2, NEW r \in H, IsFiniteSet(H), H2 \subseteq H \ {r}, NEW h \in Nat, NEW b \in Nat,
         h + Cardinality(H) <= b
  PROVE  IsFiniteSet(H2) /\ h + 1 + Cardinality(H2) <= b
  <1>1. /\ IsFiniteSet(H \ {r}) /\ Cardinality(H) \in Nat /\ Cardinality(H \ {r}) \in Nat
        /\ Cardinality(H \ {r}) = Cardinality(H) - 1
    BY FS_RemoveElement, FS_CardinalityType
  <1>2. PICK G, k : G = H \ {r} /\ k = h + 1
    OBVIOUS
  <1>3. k + Cardinality(G) <= b /\ k \in Nat
    BY <1>1, <1>2
  <1>4. IsFiniteSet(G) /\ H2 \subseteq G /\ b <= b
    BY <1>1, <1>2
  <1>5. IsFiniteSet(H2) /\ k + Cardinality(H2) <= b
    BY <1>3, <1>4, FewerHolders
  <1>. QED BY <1>2, <1>5

(* The row's attempts and its audit record set its budget. *)
LEMMA Budgets ==
  ASSUME NEW q \in Seq(Row), Len(q) <= MaxEntries, NEW h \in [Entries -> Nat], NEW a \in [Entries -> Nat],
         NEW e \in 1 .. Len(q)
  PROVE  /\ e \in Entries /\ h[e] \in Nat /\ a[e] \in Nat
         /\ q[e].attempts \in 0 .. MaxAttempts + 1
         /\ Counted(q[e]) \in 0 .. MaxAttempts
         /\ MaxAttempts * a[e] \in Nat
  <1>1. e \in Entries
    BY BoundsAssumption DEF Entries
  <1>2. q[e] \in Row
    OBVIOUS
  <1>3. q[e].attempts \in 0 .. MaxAttempts + 1
    BY <1>2 DEF Row
  <1>4. \A m, n \in Nat : m * n \in Nat
    OBVIOUS
  <1>. QED BY <1>1, <1>3, <1>4, MaxAttemptsAssumption DEF Counted

(* A step that hands nothing over, takes no lease and puts no count back    *)
(* without an audited resolution stays within the budget.                   *)
LEMMA BudgetStands ==
  ASSUME TypeOK, TypeOK', NEW e \in 1 .. Len(queue), e \in 1 .. Len(queue'), WithinBudget(e),
         Holders(e)' \subseteq Holders(e), handed'[e] = handed[e],
         \/ audit'[e] = audit[e] /\ Counted(queue[e]) <= Counted(queue'[e])
         \/ audit'[e] = audit[e] + 1
  PROVE  WithinBudget(e)'
  <1>1. PICK H, H2, h, a, a2, k, k2 :
          /\ H = Holders(e) /\ H2 = Holders(e)' /\ h = handed[e] /\ a = audit[e] /\ a2 = audit'[e]
          /\ k = Counted(queue[e]) /\ k2 = Counted(queue'[e])
    OBVIOUS
  <1>2. h \in Nat /\ a \in Nat /\ k \in 0 .. MaxAttempts /\ MaxAttempts * a \in Nat
    BY <1>1, Budgets DEF TypeOK
  <1>3. a2 \in Nat /\ k2 \in 0 .. MaxAttempts /\ MaxAttempts * a2 \in Nat
    <2>1. queue' \in Seq(Row) /\ Len(queue') <= MaxEntries /\ handed' \in [Entries -> Nat] /\ audit' \in [Entries -> Nat]
      BY DEF TypeOK
    <2>. QED BY <1>1, <2>1, Budgets
  <1>4. IsFiniteSet(H) /\ h + Cardinality(H) <= MaxAttempts * a + k
    BY <1>1 DEF WithinBudget
  <1>5. MaxAttempts * a + k <= MaxAttempts * a2 + k2
    <2>1. CASE a2 = a /\ k <= k2
      <3>1. PICK p : p = MaxAttempts * a
        OBVIOUS
      <3>2. p + k <= p + k2
        BY <1>2, <1>3, <2>1, <3>1
      <3>. QED BY <2>1, <3>1, <3>2
    <2>2. CASE a2 = a + 1
      <3>1. \A m, n \in Nat : m * (n + 1) = m * n + m
        OBVIOUS
      <3>2. PICK p : p = MaxAttempts * a
        OBVIOUS
      <3>3. MaxAttempts * a2 = p + MaxAttempts
        BY <1>2, <2>2, <3>1, <3>2, MaxAttemptsAssumption
      <3>4. p + k <= (p + MaxAttempts) + k2
        BY <1>2, <1>3, <3>2, MaxAttemptsAssumption
      <3>. QED BY <3>2, <3>3, <3>4
    <2>. QED BY <1>1, <2>1, <2>2
  <1>6. IsFiniteSet(H2) /\ h + Cardinality(H2) <= MaxAttempts * a2 + k2
    <2>1. PICK b, b2 : b = MaxAttempts * a + k /\ b2 = MaxAttempts * a2 + k2
      OBVIOUS
    <2>2. b \in Nat /\ b2 \in Nat
      BY <1>2, <1>3, <2>1
    <2>3. H2 \subseteq H
      BY <1>1
    <2>. QED BY <1>2, <1>4, <1>5, <2>1, <2>2, <2>3, FewerHolders
  <1>7. IsFiniteSet(Holders(e)') /\ handed'[e] + Cardinality(Holders(e)') <= MaxAttempts * audit'[e] + Counted(queue'[e])
    BY <1>1, <1>6
  <1>. QED BY <1>7 DEF WithinBudget, Counted, Holders

(* A step of one pass changes nobody else's leases. *)
LEMMA OthersHold ==
  ASSUME NEW r \in Runs, NEW pass, run \in [Runs -> Pass], run' = [run EXCEPT ![r] = pass], NEW e
  PROVE  /\ \A q \in Runs : q # r => (MayHandOver(q, e)' <=> MayHandOver(q, e))
         /\ Holders(e)' \subseteq Holders(e) \cup {r}
         /\ (MayHandOver(r, e)' => MayHandOver(r, e)) => Holders(e)' \subseteq Holders(e)
         /\ ~MayHandOver(r, e)' => Holders(e)' \subseteq Holders(e) \ {r}
  <1>1. \A q \in Runs : q # r => run'[q] = run[q]
    OBVIOUS
  <1>2. ASSUME NEW q \in Runs, q # r PROVE MayHandOver(q, e)' <=> MayHandOver(q, e)
    BY <1>1, <1>2 DEF MayHandOver, IsCurrent
  <1>. QED BY <1>2 DEF Holders

(* An iteration ends: nothing else of the batch was or is handed over. *)
LEMMA AdvanceBudget ==
  ASSUME run \in [Runs -> Pass], NEW r \in Runs, NEW x \in run[r].batch, IsCurrent(r, x),
         OneLeaseEach, Advance(r, x), NEW e
  PROVE  OneLeaseEach' /\ Holders(e)' \subseteq Holders(e)
  <1>1. PICK pass : /\ pass = IF run[r].batch = {x} THEN Idle
                              ELSE [pc |-> "working", candidates |-> {}, batch |-> run[r].batch \ {x}]
                    /\ run' = [run EXCEPT ![r] = pass]
    BY DEF Advance
  <1>2. run'[r] = pass /\ pass.batch \subseteq run[r].batch \ {x} /\ \A q \in Runs : q # r => run'[q] = run[q]
    BY <1>1 DEF Idle
  <1>3. OneLeaseEach'
    BY <1>2 DEF OneLeaseEach
  <1>4. MayHandOver(r, e)' => MayHandOver(r, e)
    <2>. SUFFICES ASSUME MayHandOver(r, e)' PROVE MayHandOver(r, e)
      OBVIOUS
    <2>1. PICK y \in pass.batch : y.id = e /\ y.attempts <= MaxAttempts
      BY <1>2 DEF MayHandOver
    <2>2. y \in run[r].batch /\ y # x
      BY <1>2
    <2>3. x.id \in Nat /\ y.id \in Nat
      BY <2>2, BoundsAssumption DEF Pass, Leases, Entries
    <2>4. ~IsCurrent(r, y)
      BY <2>2, <2>3 DEF IsCurrent, OneLeaseEach
    <2>. QED BY <2>1, <2>2, <2>4 DEF MayHandOver
  <1>. QED BY <1>1, <1>3, <1>4, OthersHold

(* The statements that end an iteration leave the row's count alone. *)
LEMMA CountKept ==
  ASSUME NEW q \in Seq(Row), NEW d \in 1 .. Len(q), NEW q2,
         \/ \E w : \E retry \in BOOLEAN : q2 = RecordFailure(q, d, w, retry)
         \/ \E w : q2 = MarkPublished(q, d, w)
         \/ q2 = [q EXCEPT ![d] = TimestampPasses(q[d])]
  PROVE  \A e \in 1 .. Len(q) : q2[e].attempts = q[e].attempts
  <1>1. q[d] \in Row
    OBVIOUS
  <1>2. \A retry \in BOOLEAN : FailedRow(q[d], retry).attempts = q[d].attempts
    BY <1>1 DEF FailedRow, Row
  <1>3. PublishedRow(q[d]).attempts = q[d].attempts
    BY <1>1 DEF PublishedRow, Row
  <1>4. TimestampPasses(q[d]).attempts = q[d].attempts
    BY <1>1 DEF TimestampPasses, Row
  <1>5. ASSUME NEW row, row.attempts = q[d].attempts, q2 = [q EXCEPT ![d] = row] \/ q2 = q
        PROVE  \A e \in 1 .. Len(q) : q2[e].attempts = q[e].attempts
    BY <1>5
  <1>. QED BY <1>2, <1>3, <1>4, <1>5 DEF RecordFailure, MarkPublished

(* The lease statement: the attempt is counted with the lease. *)
LEMMA LeaseBudget ==
  ASSUME IndInv, BudgetInv, TypeOK', NEW r \in Runs, NEW held, LeaseBatch(r, held)
  PROVE  OneLeaseEach' /\ \A e \in 1 .. Len(queue) : WithinBudget(e)'
  <1>. DEFINE locked == LockedRows(queue, run[r].candidates, held, BatchSize)
              batch == {[id |-> e, attempts |-> queue'[e].attempts] : e \in locked}
              pass == IF locked = {} THEN Idle ELSE [pc |-> "working", candidates |-> {}, batch |-> batch]
  <1>1. /\ queue' = LeaseRows(queue, locked, WorkerOf[r]) /\ run' = [run EXCEPT ![r] = pass]
        /\ UNCHANGED <<handed, audit>>
    BY DEF LeaseBatch
  <1>. HIDE DEF locked
  <1>2. TypeOK /\ WorkerOf[r] \in Workers
    BY RunsAssumption DEF IndInv
  <1>3. /\ Len(queue') = Len(queue)
        /\ \A e \in 1 .. Len(queue) :
             queue'[e] = IF e \in locked THEN LeaseRow(queue[e], WorkerOf[r]) ELSE queue[e]
    BY <1>1, <1>2, LeaseManyRows DEF TypeOK
  <1>4. \A x \in pass.batch : x.id \in locked /\ x.attempts = queue'[x.id].attempts
    BY DEF Idle
  <1>5. \A x, y \in pass.batch : x.id = y.id => x = y
    BY DEF Idle
  <1>. HIDE DEF pass
  <1>6. run'[r] = pass /\ \A q \in Runs : q # r => run'[q] = run[q]
    BY <1>1, <1>2 DEF TypeOK
  <1>7. OneLeaseEach'
    BY <1>5, <1>6 DEF BudgetInv, OneLeaseEach
  <1>8. ASSUME NEW e \in 1 .. Len(queue) PROVE WithinBudget(e)'
    <2>1. WithinBudget(e) /\ e \in 1 .. Len(queue')
      BY <1>3 DEF BudgetInv
    <2>2. MayHandOver(r, e)' => e \in locked /\ queue'[e].attempts <= MaxAttempts
      BY <1>4, <1>6 DEF MayHandOver
    <2>3. e \in locked => queue'[e].attempts = NextAttempt(queue[e].attempts)
      <3>1. queue[e] \in Row
        BY <1>2 DEF TypeOK
      <3>. QED BY <1>3, <3>1 DEF LeaseRow, Row
    <2>4. queue[e].attempts \in Nat
      <3>1. queue[e].attempts \in 0 .. MaxAttempts + 1
        BY <1>2, Budgets DEF TypeOK
      <3>. QED BY <3>1, MaxAttemptsAssumption
    <2>5. CASE ~MayHandOver(r, e)'
      <3>1. Holders(e)' \subseteq Holders(e)
        BY <1>1, <1>2, <2>5, OthersHold DEF TypeOK
      <3>2. Counted(queue[e]) <= Counted(queue'[e])
        BY <1>3, <2>3, <2>4, MaxAttemptsAssumption DEF Counted, NextAttempt
      <3>. QED BY <1>1, <1>2, <2>1, <3>1, <3>2, BudgetStands
    <2>6. CASE MayHandOver(r, e)'
      <3>1. Counted(queue'[e]) = Counted(queue[e]) + 1
        BY <2>2, <2>3, <2>4, <2>6, MaxAttemptsAssumption DEF Counted, NextAttempt
      <3>2. PICK H, H2, h, b : /\ H = Holders(e) /\ H2 = Holders(e)' /\ h = handed[e]
                               /\ b = MaxAttempts * audit[e] + Counted(queue[e])
        OBVIOUS
      <3>3. h \in Nat /\ b \in Nat /\ b + 1 = MaxAttempts * audit[e] + Counted(queue'[e])
        <4>1. /\ handed[e] \in Nat /\ MaxAttempts * audit[e] \in Nat /\ Counted(queue[e]) \in 0 .. MaxAttempts
          BY <1>2, Budgets DEF TypeOK
        <4>2. PICK p : p = MaxAttempts * audit[e]
          OBVIOUS
        <4>. QED BY <3>1, <3>2, <4>1, <4>2, MaxAttemptsAssumption
      <3>4. IsFiniteSet(H) /\ h + Cardinality(H) <= b /\ H2 \subseteq H \cup {r}
        BY <1>1, <1>2, <2>1, <3>2, OthersHold DEF WithinBudget, TypeOK
      <3>5. IsFiniteSet(H2) /\ h + Cardinality(H2) <= b + 1
        BY <3>3, <3>4, OneHolderMore
      <3>6. IsFiniteSet(Holders(e)') /\ handed'[e] + Cardinality(Holders(e)') <= MaxAttempts * audit'[e] + Counted(queue'[e])
        BY <1>1, <3>2, <3>3, <3>5
      <3>. QED BY <3>6 DEF WithinBudget, Counted, Holders
    <2>. QED BY <2>5, <2>6
  <1>. QED BY <1>7, <1>8

(* The hand-over: it uses up the pass's lease. *)
LEMMA HandOverSpends ==
  ASSUME IndInv, BudgetInv, TypeOK', NEW r \in Runs, NEW x \in run[r].batch, NEW outcome \in Outcomes,
         HandOver(r, x, outcome)
  PROVE  OneLeaseEach' /\ \A e \in 1 .. Len(queue) : WithinBudget(e)'
  <1>1. TypeOK /\ OneLeaseEach /\ x.id \in 1 .. Len(queue) /\ run[r] \in Pass
    BY DEF IndInv, BudgetInv, PassesOK, TypeOK
  <1>2. PICK pass : /\ run' = [run EXCEPT ![r] = pass] /\ pass.batch = run[r].batch
                    /\ pass.pc \in {"published", "failed"}
    <2>1. run' = [run EXCEPT ![r] = [run[r] EXCEPT !.pc = IF outcome = "published" THEN "published" ELSE "failed"]]
      BY <1>1 DEF HandOver, TypeOK
    <2>2. PICK pass : pass = [run[r] EXCEPT !.pc = IF outcome = "published" THEN "published" ELSE "failed"]
      OBVIOUS
    <2>3. pass.batch = run[r].batch /\ pass.pc \in {"published", "failed"}
      BY <1>1, <2>2 DEF Pass
    <2>. QED BY <2>1, <2>2, <2>3
  <1>3. run'[r] = pass /\ \A q \in Runs : q # r => run'[q] = run[q]
    BY <1>1, <1>2 DEF TypeOK
  <1>4. OneLeaseEach'
    BY <1>1, <1>2, <1>3 DEF OneLeaseEach
  <1>5. ASSUME NEW e \in 1 .. Len(queue) PROVE WithinBudget(e)'
    <2>1. WithinBudget(e) /\ UNCHANGED <<queue, audit>> /\ run[r].pc = "working"
      BY DEF BudgetInv, HandOver
    <2>2. MayHandOver(r, e)' => MayHandOver(r, e)
      BY <1>2, <1>3, <2>1 DEF MayHandOver
    <2>3. CASE handed'[e] = handed[e]
      <3>1. Holders(e)' \subseteq Holders(e)
        BY <1>1, <1>2, <2>2, OthersHold DEF TypeOK
      <3>2. Counted(queue[e]) <= Counted(queue'[e])
        <4>1. Counted(queue[e]) \in 0 .. MaxAttempts
          BY <1>1, Budgets DEF TypeOK
        <4>. QED BY <2>1, <4>1, MaxAttemptsAssumption
      <3>. QED BY <1>1, <2>1, <2>3, <3>1, <3>2, BudgetStands
    <2>4. CASE handed'[e] # handed[e]
      <3>1. e = x.id /\ handed'[e] = handed[e] + 1
        BY <1>1, <2>4 DEF HandOver, TypeOK
      <3>2. r \in Holders(e)
        BY <2>1, <3>1 DEF Holders, MayHandOver, HandOver
      <3>3. ~MayHandOver(r, e)'
        <4>1. IsCurrent(r, x)'
          BY <1>2, <1>3 DEF HandOver, IsCurrent
        <4>. QED BY <1>1, <1>2, <1>3, <3>1, <4>1 DEF MayHandOver, OneLeaseEach
      <3>4. PICK H, H2, h, b : /\ H = Holders(e) /\ H2 = Holders(e)' /\ h = handed[e]
                               /\ b = MaxAttempts * audit[e] + Counted(queue[e])
        OBVIOUS
      <3>5. h \in Nat /\ b \in Nat
        <4>1. /\ handed[e] \in Nat /\ MaxAttempts * audit[e] \in Nat /\ Counted(queue[e]) \in 0 .. MaxAttempts
          BY <1>1, Budgets DEF TypeOK
        <4>2. PICK p : p = MaxAttempts * audit[e]
          OBVIOUS
        <4>. QED BY <3>4, <4>1, <4>2, MaxAttemptsAssumption
      <3>6. IsFiniteSet(H) /\ h + Cardinality(H) <= b /\ H2 \subseteq H \ {r} /\ r \in H
        BY <1>1, <1>2, <2>1, <3>2, <3>3, <3>4, OthersHold DEF WithinBudget, TypeOK
      <3>7. IsFiniteSet(H2) /\ h + 1 + Cardinality(H2) <= b
        BY <3>5, <3>6, OneHolderLess
      <3>8. IsFiniteSet(Holders(e)') /\ handed'[e] + Cardinality(Holders(e)') <= MaxAttempts * audit'[e] + Counted(queue'[e])
        BY <2>1, <3>1, <3>4, <3>7
      <3>. QED BY <3>8 DEF WithinBudget, Counted, Holders
    <2>. QED BY <2>3, <2>4
  <1>. QED BY <1>4, <1>5

(* Every other step of a pass. *)
LEMMA PassBudget ==
  ASSUME IndInv, BudgetInv, TypeOK', NEW r \in Runs,
         Snapshot(r) \/ Crash(r) \/ \E x \in run[r].batch : Conclude(r, x)
  PROVE  OneLeaseEach' /\ \A e \in 1 .. Len(queue) : WithinBudget(e)'
  <1>1. TypeOK /\ OneLeaseEach /\ PassesOK
    BY DEF IndInv, BudgetInv
  <1>2. ASSUME \A e \in 1 .. Len(queue) : /\ Holders(e)' \subseteq Holders(e) /\ e \in 1 .. Len(queue')
                                          /\ queue'[e].attempts = queue[e].attempts,
               UNCHANGED <<handed, audit>>, NEW e \in 1 .. Len(queue)
        PROVE  WithinBudget(e)'
    <2>1. WithinBudget(e)
      BY DEF BudgetInv
    <2>2. Counted(queue'[e]) = Counted(queue[e])
      BY <1>2 DEF Counted
    <2>3. Counted(queue[e]) <= Counted(queue'[e])
      <3>1. Counted(queue[e]) \in 0 .. MaxAttempts
        BY <1>1, Budgets DEF TypeOK
      <3>. QED BY <2>2, <3>1, MaxAttemptsAssumption
    <2>. QED BY <1>1, <1>2, <2>1, <2>3, BudgetStands
  <1>3. CASE Snapshot(r) \/ Crash(r)
    <2>1. PICK pass : run' = [run EXCEPT ![r] = pass] /\ pass.batch = {}
      <3>1. Idle.batch = {}
        BY DEF Idle
      <3>2. CASE Crash(r)
        BY <3>1, <3>2 DEF Crash
      <3>3. CASE Snapshot(r)
        <4>1. PICK pass : /\ run' = [run EXCEPT ![r] = pass]
                          /\ pass = IF Candidates(queue, ScopeOf[r]) = {} THEN Idle
                                    ELSE [pc |-> "leasing", candidates |-> Candidates(queue, ScopeOf[r]), batch |-> {}]
          BY <3>3 DEF Snapshot
        <4>2. pass.batch = {}
          BY <3>1, <4>1
        <4>. QED BY <4>1, <4>2
      <3>. QED BY <1>3, <3>2, <3>3
    <2>2. run'[r] = pass /\ \A q \in Runs : q # r => run'[q] = run[q]
      BY <1>1, <2>1 DEF TypeOK
    <2>3. \A e : Holders(e)' \subseteq Holders(e)
      <3>1. \A e : ~MayHandOver(r, e)'
        BY <2>1, <2>2 DEF MayHandOver
      <3>. QED BY <1>1, <2>1, <3>1, OthersHold DEF TypeOK
    <2>4. OneLeaseEach'
      BY <1>1, <2>1, <2>2 DEF OneLeaseEach
    <2>5. UNCHANGED <<queue, handed, audit>>
      BY <1>3 DEF Snapshot, Crash
    <2>. QED BY <1>2, <2>3, <2>4, <2>5
  <1>4. ASSUME NEW x \in run[r].batch, Conclude(r, x)
        PROVE  OneLeaseEach' /\ \A e \in 1 .. Len(queue) : WithinBudget(e)'
    <2>1. IsCurrent(r, x) /\ Advance(r, x) /\ UNCHANGED <<handed, audit>>
      BY <1>4 DEF Conclude, GiveUp, HandOverFailed, HandOverDone
    <2>2. OneLeaseEach' /\ \A e : Holders(e)' \subseteq Holders(e)
      BY <1>1, <2>1, AdvanceBudget DEF TypeOK
    <2>3. Len(queue') = Len(queue)
      BY <1>1, <1>4, LengthKept DEF PassStep, StoreStep
    <2>4. \A e \in 1 .. Len(queue) : queue'[e].attempts = queue[e].attempts
      <3>1. \/ \E retry \in BOOLEAN : queue' = RecordFailure(queue, x.id, WorkerOf[r], retry)
            \/ queue' = MarkPublished(queue, x.id, WorkerOf[r])
        <4>1. (x.attempts < MaxAttempts) \in BOOLEAN /\ FALSE \in BOOLEAN
          OBVIOUS
        <4>. QED BY <1>4, <4>1 DEF Conclude, GiveUp, HandOverFailed, HandOverDone
      <3>2. x.id \in 1 .. Len(queue) /\ queue \in Seq(Row)
        BY <1>1 DEF PassesOK, TypeOK
      <3>. QED BY <3>1, <3>2, CountKept
    <2>. QED BY <1>2, <2>1, <2>2, <2>3, <2>4
  <1>. QED BY <1>3, <1>4

(* Producers, operators and the clock. *)
LEMMA OutsideBudget ==
  ASSUME IndInv, BudgetInv, TypeOK',
         \/ \E s \in Streams : Produce(s)
         \/ \E d \in Entries : TimePasses(d) \/ Requeue(d) \/ Skip(d)
  PROVE  OneLeaseEach' /\ \A e \in 1 .. Len(queue) : WithinBudget(e)'
  <1>1. TypeOK /\ UNCHANGED <<run, handed>>
    BY DEF IndInv, Produce, Enqueue, TimePasses, Requeue, Skip, ResolveDeadLetter
  <1>2. OneLeaseEach'
    BY <1>1 DEF BudgetInv, OneLeaseEach
  <1>3. ASSUME NEW e \in 1 .. Len(queue) PROVE WithinBudget(e)'
    <2>1. Holders(e)' = Holders(e) /\ WithinBudget(e) /\ queue \in Seq(Row) /\ queue[e] \in Row
      BY <1>1 DEF Holders, MayHandOver, IsCurrent, BudgetInv, TypeOK
    <2>2. audit[e] \in Nat /\ Counted(queue[e]) \in 0 .. MaxAttempts /\ e \in Entries
      BY <1>1, Budgets DEF TypeOK
    <2>3. /\ e \in 1 .. Len(queue')
          /\ \/ audit'[e] = audit[e] /\ queue'[e].attempts = queue[e].attempts
             \/ audit'[e] = audit[e] + 1
      <3>1. ASSUME NEW s \in Streams, Produce(s)
            PROVE  e \in 1 .. Len(queue') /\ audit' = audit /\ queue'[e] = queue[e]
        BY <2>1, <3>1 DEF Produce, Enqueue
      <3>2. ASSUME NEW d \in Entries, TimePasses(d)
            PROVE  e \in 1 .. Len(queue') /\ audit' = audit /\ queue'[e].attempts = queue[e].attempts
        <4>1. d \in 1 .. Len(queue) /\ queue' = [queue EXCEPT ![d] = TimestampPasses(queue[d])] /\ audit' = audit
          BY <3>2 DEF TimePasses
        <4>2. queue'[e].attempts = queue[e].attempts
          BY <2>1, <4>1, CountKept
        <4>. QED BY <2>1, <4>1, <4>2
      <3>3. ASSUME NEW d \in Entries, Requeue(d) \/ Skip(d)
            PROVE  /\ e \in 1 .. Len(queue')
                   /\ audit' = [audit EXCEPT ![d] = @ + 1] /\ (d # e => queue'[e] = queue[e])
        BY <2>1, <3>3 DEF Requeue, Skip, ResolveDeadLetter
      <3>. QED BY <1>1, <2>2, <3>1, <3>2, <3>3 DEF TypeOK
    <2>4. queue'[e].attempts = queue[e].attempts => Counted(queue[e]) <= Counted(queue'[e])
      <3>1. queue'[e].attempts = queue[e].attempts => Counted(queue'[e]) = Counted(queue[e])
        BY DEF Counted
      <3>. QED BY <2>2, <3>1, MaxAttemptsAssumption
    <2>. QED BY <1>1, <2>1, <2>3, <2>4, BudgetStands
  <1>. QED BY <1>2, <1>3

LEMMA BudgetStep == IndInv /\ BudgetInv /\ [Next]_vars => BudgetInv'
  <1>. SUFFICES ASSUME IndInv, BudgetInv, [Next]_vars PROVE BudgetInv'
    OBVIOUS
  <1>1. IndInv' /\ TypeOK'
    BY StepHolds DEF IndInv
  <1>2. OneLeaseEach' /\ \A e \in 1 .. Len(queue) : WithinBudget(e)'
    <2>1. CASE UNCHANGED vars
      BY <2>1 DEF vars, BudgetInv, OneLeaseEach, WithinBudget, Holders, MayHandOver, IsCurrent
    <2>2. ASSUME NEW r \in Runs, PassStep(r)
          PROVE  OneLeaseEach' /\ \A e \in 1 .. Len(queue) : WithinBudget(e)'
      BY <1>1, <2>2, PassBudget, LeaseBudget, HandOverSpends DEF PassStep, StoreStep, PublisherStep
    <2>. QED BY <1>1, <2>1, <2>2, OutsideBudget DEF Next
  <1>3. ASSUME NEW e \in 1 .. Len(queue'), e \notin 1 .. Len(queue) PROVE WithinBudget(e)'
    <2>1. ~Started(e)' /\ handed'[e] = 0
      <3>1. UNCHANGED <<run, handed>> /\ queue'[e].status = "pending"
        BY <1>3, NewRowsArePending
      <3>2. e \in Entries
        BY <1>1, BoundsAssumption DEF TypeOK, Entries
      <3>3. handed[e] = 0
        BY <1>3, <3>2 DEF IndInv, HandedOK, TypeOK
      <3>. QED BY <1>3, <3>1, <3>3 DEF Started, IndInv, PassesOK
    <2>2. Holders(e)' = {}
      BY <2>1 DEF Started, Holders, MayHandOver
    <2>3. MaxAttempts * audit'[e] \in Nat /\ Counted(queue'[e]) \in 0 .. MaxAttempts
      <3>1. queue' \in Seq(Row) /\ Len(queue') <= MaxEntries /\ handed' \in [Entries -> Nat] /\ audit' \in [Entries -> Nat]
        BY <1>1 DEF TypeOK
      <3>. QED BY <3>1, Budgets
    <2>4. IsFiniteSet({}) /\ Cardinality({}) = 0
      BY FS_EmptySet
    <2>5. 0 + 0 <= MaxAttempts * audit'[e] + Counted(queue'[e])
      <3>1. PICK p, k : p = MaxAttempts * audit'[e] /\ k = Counted(queue'[e])
        OBVIOUS
      <3>2. 0 + 0 <= p + k
        BY <2>3, <3>1, MaxAttemptsAssumption
      <3>. QED BY <3>1, <3>2
    <2>6. IsFiniteSet(Holders(e)') /\ handed'[e] + Cardinality(Holders(e)') <= MaxAttempts * audit'[e] + Counted(queue'[e])
      BY <2>1, <2>2, <2>4, <2>5
    <2>. QED BY <2>6 DEF WithinBudget, Counted, Holders
  <1>. QED BY <1>2, <1>3 DEF BudgetInv

(* The publisher takes effect at most MaxAttempts times for an entry, and   *)
(* MaxAttempts times more for each audited resolution, however many passes  *)
(* crash, overrun their leases or come late.                                *)
THEOREM AttemptsBounded == Spec => []HandOverBudget
  <1>1. Init => BudgetInv
    <2>. SUFFICES ASSUME Init PROVE BudgetInv
      OBVIOUS
    <2>1. queue = <<>> /\ \A r \in Runs : run[r].batch = {}
      BY DEF Init, Idle
    <2>. QED BY <2>1 DEF BudgetInv, OneLeaseEach
  <1>2. IndInv /\ BudgetInv => HandOverBudget
    <2>. SUFFICES ASSUME IndInv, BudgetInv, NEW e \in Entries PROVE handed[e] <= MaxAttempts * (1 + audit[e])
      BY DEF HandOverBudget
    <2>1. TypeOK /\ HandedOK
      BY DEF IndInv
    <2>2. PICK h, a : h = handed[e] /\ a = audit[e] /\ h \in Nat /\ a \in Nat
      BY <2>1 DEF TypeOK
    <2>3. /\ \A m, n \in Nat : m * (1 + n) = m * n + m
          /\ \A m, n \in Nat : m * n \in Nat
      OBVIOUS
    <2>4. PICK p : p = MaxAttempts * a
      OBVIOUS
    <2>5. MaxAttempts * (1 + a) = p + MaxAttempts /\ p \in Nat
      BY <2>2, <2>3, <2>4, MaxAttemptsAssumption
    <2>6. CASE e \in 1 .. Len(queue)
      <3>1. PICK H, k : H = Holders(e) /\ k = Counted(queue[e])
        OBVIOUS
      <3>2. IsFiniteSet(H) /\ h + Cardinality(H) <= p + k /\ k \in 0 .. MaxAttempts
        BY <2>1, <2>2, <2>4, <2>6, <3>1, Budgets DEF BudgetInv, WithinBudget, TypeOK
      <3>3. Cardinality(H) \in Nat
        BY <3>2, FS_CardinalityType
      <3>4. h <= p + MaxAttempts
        BY <2>2, <2>5, <3>2, <3>3, MaxAttemptsAssumption
      <3>. QED BY <2>2, <2>5, <3>4
    <2>7. CASE e \notin 1 .. Len(queue)
      <3>1. h = 0
        BY <2>1, <2>2, <2>7 DEF HandedOK
      <3>2. h <= p + MaxAttempts
        BY <2>5, <3>1, MaxAttemptsAssumption
      <3>. QED BY <2>2, <2>5, <3>2
    <2>. QED BY <2>6, <2>7
  <1>. QED BY <1>1, <1>2, BudgetStep, Invariance, PTL DEF Spec

=============================================================================

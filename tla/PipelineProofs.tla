--------------------------- MODULE PipelineProofs ---------------------------
(***************************************************************************)
(* The pipeline implements the promise of FanOut, for any relays, workers, *)
(* consumers, routes, streams and events.  Both queues are dispatchers, so *)
(* what DispatcherProofs shows holds of each of them: of the outbox as it  *)
(* stands, and of the delivery queue although publish() appends to it.     *)
(*                                                                         *)
(* The argument.  Work on an event only starts when its predecessors in    *)
(* its stream are published or skipped, and what is published has its      *)
(* deliveries: so a consumer's deliveries of a stream are queued in the    *)
(* order of the events, save for those of an event that was skipped and    *)
(* handed over by a late pass all the same.  A delivery starts when its    *)
(* predecessors in the queue are delivered or skipped, and what is         *)
(* delivered has been applied.  The inbox keeps a repeated hand-over from  *)
(* being applied twice.                                                    *)
(***************************************************************************)
EXTENDS EventPipeline, FiniteSetTheorems, TLAPS

OutboxQueue == INSTANCE DispatcherProofs
  WITH queue <- outbox, run <- relay, handed <- relayed, audit <- outboxAudit,
       Workers <- Relays, Runs <- Relays, WorkerOf <- [r \in Relays |-> r],
       ScopeOf <- [r \in Relays |-> Streams],
       MaxEntries <- MaxEvents

DeliveryQueue == INSTANCE DispatcherProofs
  WITH queue <- delivery, run <- worker, handed <- delivered, audit <- deliveryAudit,
       Streams <- Consumers \X Streams,
       Workers <- DeliveryWorkers, Runs <- DeliveryWorkers,
       WorkerOf <- [w \in DeliveryWorkers |-> w],
       ScopeOf <- [w \in DeliveryWorkers |-> {ConsumerOf[w]} \X Streams],
       MaxEntries <- MaxEvents * Len(Routes)

-----------------------------------------------------------------------------
(* The inductive invariant *)

Events == 1 .. Len(outbox)
Deliveries == 1 .. Len(delivery)
ConsumerAt(i) == delivery[i].stream[1]
EventAt(i) == delivery[i].event

(* An event is named by its entry_id. *)
EventsOK ==
  /\ types \in Seq(Types) /\ Len(types) = Len(outbox)
  /\ \A e \in Events : outbox[e].event = e

(* A delivery is of an event that was handed over, in the event's stream,   *)
(* for a consumer that subscribes to it; there is one of each.              *)
DeliveryOK(i) ==
  /\ EventAt(i) \in Events /\ relayed[EventAt(i)] > 0
  /\ delivery[i].stream = <<ConsumerAt(i), outbox[EventAt(i)].stream>>
  /\ ConsumerAt(i) \in Consumers /\ Subscribed(ConsumerAt(i), types[EventAt(i)])

OneEach == \A i, j \in Deliveries :
  EventAt(i) = EventAt(j) /\ ConsumerAt(i) = ConsumerAt(j) => i = j

(* What was handed over has all of its deliveries. *)
FannedOut ==
  \A e \in Events : relayed[e] > 0 =>
    \A c \in Consumers : Subscribed(c, types[e]) => HasDelivery(c, e)

InOrder ==
  \A i, j \in Deliveries : i < j /\ delivery[i].stream = delivery[j].stream =>
    EventAt(i) < EventAt(j) \/ outbox[EventAt(j)].status = "skipped"

(* The inbox records what was applied. *)
InboxOK ==
  /\ applied \in [Consumers -> Seq(Nat)]
  /\ \A c \in Consumers, e \in Nat : <<c, e>> \in inbox <=> e \in Range(applied[c])

HandedWasApplied ==
  \A i \in Deliveries : delivered[i] > 0 => EventAt(i) \in Range(applied[ConsumerAt(i)])

(* A worker works for its consumer. *)
InScope ==
  \A w \in DeliveryWorkers :
    /\ \A i \in worker[w].candidates : i \in Deliveries => ConsumerAt(i) = ConsumerOf[w]
    /\ \A x \in worker[w].batch : x.id \in Deliveries => ConsumerAt(x.id) = ConsumerOf[w]

IndInv ==
  /\ OutboxQueue!IndInv /\ DeliveryQueue!IndInv
  /\ EventsOK
  /\ \A i \in Deliveries : DeliveryOK(i)
  /\ OneEach /\ FannedOut /\ InOrder
  /\ InboxOK /\ HandedWasApplied /\ InScope
-----------------------------------------------------------------------------
(* The two queues, as the proofs about the dispatcher name their steps *)

LEMMA SameOutbox ==
  /\ Outbox!Init <=> OutboxQueue!Init
  /\ Outbox!Entries = OutboxQueue!Entries /\ Outbox!Outcomes = OutboxQueue!Outcomes
  /\ \A s : Outbox!Produce(s) <=> OutboxQueue!Produce(s)
  /\ \A r, x, outcome : Outbox!HandOver(r, x, outcome) <=> OutboxQueue!HandOver(r, x, outcome)
  /\ \A r : Outbox!Snapshot(r) <=> OutboxQueue!Snapshot(r)
  /\ \A r : Outbox!StoreStep(r) <=> OutboxQueue!StoreStep(r)
  /\ \A e : Outbox!TimePasses(e) <=> OutboxQueue!TimePasses(e)
  /\ \A e : (Outbox!Requeue(e) <=> OutboxQueue!Requeue(e)) /\ (Outbox!Skip(e) <=> OutboxQueue!Skip(e))
  <1>1. \A q, s : Outbox!Candidates(q, s) = OutboxQueue!Candidates(q, s)
    BY DEF Outbox!Candidates, Outbox!Leasable, Outbox!IsHead, Outbox!Finished,
      OutboxQueue!Candidates, OutboxQueue!Leasable, OutboxQueue!IsHead, OutboxQueue!Finished
  <1>2. \A q, e, f, n : Outbox!LockedRows(q, e, f, n) = OutboxQueue!LockedRows(q, e, f, n)
    <2>1. \A S : Outbox!Cardinality(S) = OutboxQueue!Cardinality(S)
      BY Zenon DEF Outbox!Cardinality, OutboxQueue!Cardinality
    <2>2. \A row : Outbox!Leasable(row) <=> OutboxQueue!Leasable(row)
      BY DEF Outbox!Leasable, OutboxQueue!Leasable
    <2>. QED BY <2>1, <2>2 DEF Outbox!LockedRows, OutboxQueue!LockedRows
  <1>3. \A q, e, w : Outbox!LeaseRows(q, e, w) = OutboxQueue!LeaseRows(q, e, w)
    BY DEF Outbox!LeaseRows, Outbox!LeaseRow, Outbox!NextAttempt, OutboxQueue!LeaseRows,
      OutboxQueue!LeaseRow, OutboxQueue!NextAttempt
  <1>4. \A r, x : Outbox!IsCurrent(r, x) <=> OutboxQueue!IsCurrent(r, x)
    BY DEF Outbox!IsCurrent, OutboxQueue!IsCurrent
  <1>5. Outbox!Idle = OutboxQueue!Idle
    BY DEF Outbox!Idle, OutboxQueue!Idle
  <1>6. \A r : Outbox!Snapshot(r) <=> OutboxQueue!Snapshot(r)
    BY <1>1, <1>5 DEF Outbox!Snapshot, OutboxQueue!Snapshot
  <1>7. \A r, held : Outbox!LeaseBatch(r, held) <=> OutboxQueue!LeaseBatch(r, held)
    BY <1>2, <1>3, <1>5 DEF Outbox!LeaseBatch, OutboxQueue!LeaseBatch
  <1>8. \A q, e, w, retry : /\ Outbox!RecordFailure(q, e, w, retry) = OutboxQueue!RecordFailure(q, e, w, retry)
                            /\ Outbox!MarkPublished(q, e, w) = OutboxQueue!MarkPublished(q, e, w)
    BY DEF Outbox!RecordFailure, Outbox!FailedRow, Outbox!HoldsLease, Outbox!MarkPublished,
      Outbox!PublishedRow, OutboxQueue!RecordFailure, OutboxQueue!FailedRow,
      OutboxQueue!HoldsLease, OutboxQueue!MarkPublished, OutboxQueue!PublishedRow
  <1>9. \A r, x : Outbox!Conclude(r, x) <=> OutboxQueue!Conclude(r, x)
    <2>1. \A r, x : Outbox!Advance(r, x) <=> OutboxQueue!Advance(r, x)
      BY <1>5 DEF Outbox!Advance, OutboxQueue!Advance
    <2>2. \A r, x : Outbox!GiveUp(r, x) <=> OutboxQueue!GiveUp(r, x)
      BY <1>4, <1>8, <2>1 DEF Outbox!GiveUp, OutboxQueue!GiveUp
    <2>3. \A r, x : Outbox!HandOverFailed(r, x) <=> OutboxQueue!HandOverFailed(r, x)
      BY <1>4, <1>8, <2>1 DEF Outbox!HandOverFailed, OutboxQueue!HandOverFailed
    <2>4. \A r, x : Outbox!HandOverDone(r, x) <=> OutboxQueue!HandOverDone(r, x)
      BY <1>4, <1>8, <2>1 DEF Outbox!HandOverDone, OutboxQueue!HandOverDone
    <2>. QED BY <2>2, <2>3, <2>4 DEF Outbox!Conclude, OutboxQueue!Conclude
  <1>10. \A r : Outbox!StoreStep(r) <=> OutboxQueue!StoreStep(r)
    <2>1. \A r : Outbox!Crash(r) <=> OutboxQueue!Crash(r)
      BY <1>5 DEF Outbox!Crash, OutboxQueue!Crash
    <2>. QED BY <1>6, <1>7, <1>9, <2>1 DEF Outbox!StoreStep, OutboxQueue!StoreStep
  <1>11. \A e : (Outbox!Requeue(e) <=> OutboxQueue!Requeue(e)) /\ (Outbox!Skip(e) <=> OutboxQueue!Skip(e))
    BY DEF Outbox!Requeue, Outbox!Skip, Outbox!ResolveDeadLetter, Outbox!RequeueRow, Outbox!SkipRow,
      OutboxQueue!Requeue, OutboxQueue!Skip, OutboxQueue!ResolveDeadLetter,
      OutboxQueue!RequeueRow, OutboxQueue!SkipRow
  <1>12. \A e : Outbox!TimePasses(e) <=> OutboxQueue!TimePasses(e)
    BY DEF Outbox!TimePasses, Outbox!TimestampPasses, OutboxQueue!TimePasses,
      OutboxQueue!TimestampPasses
  <1>13. \A r, x, outcome : Outbox!HandOver(r, x, outcome) <=> OutboxQueue!HandOver(r, x, outcome)
    BY <1>4 DEF Outbox!HandOver, OutboxQueue!HandOver
  <1>14. \A s : Outbox!Produce(s) <=> OutboxQueue!Produce(s)
    BY DEF Outbox!Produce, Outbox!Enqueue, Outbox!NewRow, OutboxQueue!Produce, OutboxQueue!Enqueue,
      OutboxQueue!NewRow
  <1>15. (Outbox!Init <=> OutboxQueue!Init) /\ Outbox!Entries = OutboxQueue!Entries /\ Outbox!Outcomes = OutboxQueue!Outcomes
    BY <1>5 DEF Outbox!Init, Outbox!Entries, Outbox!Outcomes, OutboxQueue!Init, OutboxQueue!Entries,
      OutboxQueue!Outcomes
  <1>. QED BY <1>6, <1>10, <1>11, <1>12, <1>13, <1>14, <1>15

LEMMA SameDelivery ==
  /\ Delivery!Init <=> DeliveryQueue!Init
  /\ Delivery!Entries = DeliveryQueue!Entries /\ Delivery!Outcomes = DeliveryQueue!Outcomes
  /\ \A s : Delivery!Produce(s) <=> DeliveryQueue!Produce(s)
  /\ \A r, x, outcome : Delivery!HandOver(r, x, outcome) <=> DeliveryQueue!HandOver(r, x, outcome)
  /\ \A r : Delivery!Snapshot(r) <=> DeliveryQueue!Snapshot(r)
  /\ \A r : Delivery!StoreStep(r) <=> DeliveryQueue!StoreStep(r)
  /\ \A e : Delivery!TimePasses(e) <=> DeliveryQueue!TimePasses(e)
  /\ \A e : (Delivery!Requeue(e) <=> DeliveryQueue!Requeue(e)) /\ (Delivery!Skip(e) <=> DeliveryQueue!Skip(e))
  <1>1. \A q, s : Delivery!Candidates(q, s) = DeliveryQueue!Candidates(q, s)
    BY DEF Delivery!Candidates, Delivery!Leasable, Delivery!IsHead, Delivery!Finished,
      DeliveryQueue!Candidates, DeliveryQueue!Leasable, DeliveryQueue!IsHead,
      DeliveryQueue!Finished
  <1>2. \A q, e, f, n : Delivery!LockedRows(q, e, f, n) = DeliveryQueue!LockedRows(q, e, f, n)
    <2>1. \A S : Delivery!Cardinality(S) = DeliveryQueue!Cardinality(S)
      BY Zenon DEF Delivery!Cardinality, DeliveryQueue!Cardinality
    <2>2. \A row : Delivery!Leasable(row) <=> DeliveryQueue!Leasable(row)
      BY DEF Delivery!Leasable, DeliveryQueue!Leasable
    <2>. QED BY <2>1, <2>2 DEF Delivery!LockedRows, DeliveryQueue!LockedRows
  <1>3. \A q, e, w : Delivery!LeaseRows(q, e, w) = DeliveryQueue!LeaseRows(q, e, w)
    BY DEF Delivery!LeaseRows, Delivery!LeaseRow, Delivery!NextAttempt, DeliveryQueue!LeaseRows,
      DeliveryQueue!LeaseRow, DeliveryQueue!NextAttempt
  <1>4. \A r, x : Delivery!IsCurrent(r, x) <=> DeliveryQueue!IsCurrent(r, x)
    BY DEF Delivery!IsCurrent, DeliveryQueue!IsCurrent
  <1>5. Delivery!Idle = DeliveryQueue!Idle
    BY DEF Delivery!Idle, DeliveryQueue!Idle
  <1>6. \A r : Delivery!Snapshot(r) <=> DeliveryQueue!Snapshot(r)
    BY <1>1, <1>5 DEF Delivery!Snapshot, DeliveryQueue!Snapshot
  <1>7. \A r, held : Delivery!LeaseBatch(r, held) <=> DeliveryQueue!LeaseBatch(r, held)
    BY <1>2, <1>3, <1>5 DEF Delivery!LeaseBatch, DeliveryQueue!LeaseBatch
  <1>8. \A q, e, w, retry : /\ Delivery!RecordFailure(q, e, w, retry) = DeliveryQueue!RecordFailure(q, e, w, retry)
                            /\ Delivery!MarkPublished(q, e, w) = DeliveryQueue!MarkPublished(q, e, w)
    BY DEF Delivery!RecordFailure, Delivery!FailedRow, Delivery!HoldsLease, Delivery!MarkPublished,
      Delivery!PublishedRow, DeliveryQueue!RecordFailure, DeliveryQueue!FailedRow,
      DeliveryQueue!HoldsLease, DeliveryQueue!MarkPublished, DeliveryQueue!PublishedRow
  <1>9. \A r, x : Delivery!Conclude(r, x) <=> DeliveryQueue!Conclude(r, x)
    <2>1. \A r, x : Delivery!Advance(r, x) <=> DeliveryQueue!Advance(r, x)
      BY <1>5 DEF Delivery!Advance, DeliveryQueue!Advance
    <2>2. \A r, x : Delivery!GiveUp(r, x) <=> DeliveryQueue!GiveUp(r, x)
      BY <1>4, <1>8, <2>1 DEF Delivery!GiveUp, DeliveryQueue!GiveUp
    <2>3. \A r, x : Delivery!HandOverFailed(r, x) <=> DeliveryQueue!HandOverFailed(r, x)
      BY <1>4, <1>8, <2>1 DEF Delivery!HandOverFailed, DeliveryQueue!HandOverFailed
    <2>4. \A r, x : Delivery!HandOverDone(r, x) <=> DeliveryQueue!HandOverDone(r, x)
      BY <1>4, <1>8, <2>1 DEF Delivery!HandOverDone, DeliveryQueue!HandOverDone
    <2>. QED BY <2>2, <2>3, <2>4 DEF Delivery!Conclude, DeliveryQueue!Conclude
  <1>10. \A r : Delivery!StoreStep(r) <=> DeliveryQueue!StoreStep(r)
    <2>1. \A r : Delivery!Crash(r) <=> DeliveryQueue!Crash(r)
      BY <1>5 DEF Delivery!Crash, DeliveryQueue!Crash
    <2>. QED BY <1>6, <1>7, <1>9, <2>1 DEF Delivery!StoreStep, DeliveryQueue!StoreStep
  <1>11. \A e : (Delivery!Requeue(e) <=> DeliveryQueue!Requeue(e)) /\ (Delivery!Skip(e) <=> DeliveryQueue!Skip(e))
    BY DEF Delivery!Requeue, Delivery!Skip, Delivery!ResolveDeadLetter, Delivery!RequeueRow,
      Delivery!SkipRow, DeliveryQueue!Requeue, DeliveryQueue!Skip,
      DeliveryQueue!ResolveDeadLetter, DeliveryQueue!RequeueRow, DeliveryQueue!SkipRow
  <1>12. \A e : Delivery!TimePasses(e) <=> DeliveryQueue!TimePasses(e)
    BY DEF Delivery!TimePasses, Delivery!TimestampPasses, DeliveryQueue!TimePasses,
      DeliveryQueue!TimestampPasses
  <1>13. \A r, x, outcome : Delivery!HandOver(r, x, outcome) <=> DeliveryQueue!HandOver(r, x, outcome)
    BY <1>4 DEF Delivery!HandOver, DeliveryQueue!HandOver
  <1>14. \A s : Delivery!Produce(s) <=> DeliveryQueue!Produce(s)
    BY DEF Delivery!Produce, Delivery!Enqueue, Delivery!NewRow, DeliveryQueue!Produce,
      DeliveryQueue!Enqueue, DeliveryQueue!NewRow
  <1>15. (Delivery!Init <=> DeliveryQueue!Init) /\ Delivery!Entries = DeliveryQueue!Entries /\ Delivery!Outcomes = DeliveryQueue!Outcomes
    BY <1>5 DEF Delivery!Init, Delivery!Entries, Delivery!Outcomes, DeliveryQueue!Init,
      DeliveryQueue!Entries, DeliveryQueue!Outcomes
  <1>. QED BY <1>6, <1>10, <1>11, <1>12, <1>13, <1>14, <1>15
-----------------------------------------------------------------------------
(* What their steps do *)

LEMMA OutboxOptions == [r \in Relays |-> r] \in [Relays -> Relays]
  OBVIOUS

LEMMA DeliveryOptions ==
  /\ MaxEvents * Len(Routes) \in Nat /\ Len(Routes) \in Nat
  /\ [w \in DeliveryWorkers |-> w] \in [DeliveryWorkers -> DeliveryWorkers]
  /\ [w \in DeliveryWorkers |-> {ConsumerOf[w]} \X Streams]
       \in [DeliveryWorkers -> SUBSET (Consumers \X Streams)]
  <1>1. Len(Routes) \in Nat
    BY RoutesAssumption
  <1>2. \A m, n \in Nat : m * n \in Nat
    OBVIOUS
  <1>3. \A w \in DeliveryWorkers : {ConsumerOf[w]} \X Streams \subseteq Consumers \X Streams
    BY ConsumerOfAssumption
  <1>. QED BY <1>1, <1>2, <1>3, LimitsAssumption

(* What a statement of the store, an operator or the clock may do to the    *)
(* outbox queue.                                                            *)
OutboxQuiet ==
  \/ \E r \in Relays : Outbox!StoreStep(r)
  \/ \E e \in Outbox!Entries : Outbox!TimePasses(e) \/ Outbox!Requeue(e) \/ Outbox!Skip(e)

OutboxKept ==
  /\ Len(outbox') = Len(outbox) /\ relayed' = relayed
  /\ \A e \in 1 .. Len(outbox) :
       /\ outbox'[e].stream = outbox[e].stream /\ outbox'[e].event = outbox[e].event
       /\ outbox[e].status = "skipped" => outbox'[e].status = "skipped"
       /\ outbox[e].status # "skipped" /\ outbox'[e].status = "skipped" => Outbox!Skip(e)

LEMMA OutboxQuietStep ==
  ASSUME OutboxQueue!IndInv, OutboxQuiet
  PROVE  OutboxQueue!IndInv' /\ OutboxQueue!Next /\ OutboxKept
  <1>. USE OptionsAssumption, LimitsAssumption, WorkersAssumption, OutboxOptions
  <1>1. \/ \E r \in Relays : OutboxQueue!StoreStep(r)
        \/ \E e \in OutboxQueue!Entries : OutboxQueue!TimePasses(e) \/ OutboxQueue!Requeue(e) \/ OutboxQueue!Skip(e)
    BY SameOutbox DEF OutboxQuiet
  <1>2. OutboxQueue!Next
    BY <1>1 DEF OutboxQueue!Next, OutboxQueue!PassStep
  <1>3. OutboxQueue!IndInv'
    BY <1>2, OutboxQueue!StepHolds
  <1>4. OutboxQueue!TypeOK /\ OutboxQueue!PassesOK
    BY DEF OutboxQueue!IndInv
  <1>5. OutboxQueue!Evolves
    BY <1>2, <1>4, OutboxQueue!NextEvolves
  <1>6. Len(outbox') = Len(outbox)
    BY <1>1, <1>4, OutboxQueue!LengthKept DEF OutboxQueue!PassStep
  <1>7. relayed' = relayed
    BY <1>1 DEF OutboxQueue!StoreStep, OutboxQueue!Snapshot, OutboxQueue!LeaseBatch, OutboxQueue!Conclude,
       OutboxQueue!GiveUp, OutboxQueue!HandOverFailed, OutboxQueue!HandOverDone, OutboxQueue!Crash, OutboxQueue!TimePasses,
       OutboxQueue!Requeue, OutboxQueue!Skip, OutboxQueue!ResolveDeadLetter
  <1>8. \A e \in 1 .. Len(outbox) :
          /\ outbox'[e].stream = outbox[e].stream /\ outbox'[e].event = outbox[e].event
          /\ outbox[e].status = "skipped" => outbox'[e].status = "skipped"
    BY <1>5 DEF OutboxQueue!Evolves, OutboxQueue!Finished
  <1>9. \A e \in 1 .. Len(outbox) :
          outbox[e].status # "skipped" /\ outbox'[e].status = "skipped" => Outbox!Skip(e)
    BY <1>2, OutboxQueue!RowStep, SameOutbox
  <1>. QED BY <1>2, <1>3, <1>6, <1>7, <1>8, <1>9 DEF OutboxKept

(* A hand-over leaves the queue's rows alone. *)
LEMMA OutboxHandOverStep ==
  ASSUME OutboxQueue!IndInv, NEW r \in Relays, NEW x \in relay[r].batch, NEW outcome \in Outbox!Outcomes,
         Outbox!HandOver(r, x, outcome)
  PROVE  /\ OutboxQueue!IndInv' /\ outbox' = outbox /\ OutboxQueue!Next
         /\ x.id \in 1 .. Len(outbox) /\ relayed \in [Outbox!Entries -> Nat]
         /\ relayed' = [relayed EXCEPT ![x.id] = IF outcome = "failed" THEN @ ELSE @ + 1]
         /\ OutboxQueue!IsHead(outbox, x.id)
  <1>. USE OptionsAssumption, LimitsAssumption, WorkersAssumption, OutboxOptions
  <1>1. OutboxQueue!HandOver(r, x, outcome) /\ outcome \in OutboxQueue!Outcomes
    BY SameOutbox
  <1>2. OutboxQueue!Next
    BY <1>1 DEF OutboxQueue!Next, OutboxQueue!PassStep, OutboxQueue!PublisherStep
  <1>3. OutboxQueue!IndInv'
    BY <1>2, OutboxQueue!StepHolds
  <1>4. x.id \in 1 .. Len(outbox)
    BY DEF OutboxQueue!IndInv, OutboxQueue!PassesOK
  <1>5. OutboxQueue!IsHead(outbox, x.id)
    BY <1>4 DEF OutboxQueue!IndInv, OutboxQueue!NoOvertake, OutboxQueue!Started
  <1>6. relayed \in [Outbox!Entries -> Nat]
    BY SameOutbox DEF OutboxQueue!IndInv, OutboxQueue!TypeOK
  <1>. QED BY <1>1, <1>2, <1>3, <1>4, <1>5, <1>6 DEF OutboxQueue!HandOver

(* What a statement of the store, an operator or the clock may do to the    *)
(* delivery queue.                                                          *)
DeliveryQuiet ==
  \/ \E r \in DeliveryWorkers : Delivery!StoreStep(r)
  \/ \E e \in Delivery!Entries : Delivery!TimePasses(e) \/ Delivery!Requeue(e) \/ Delivery!Skip(e)

DeliveryKept ==
  /\ Len(delivery') = Len(delivery) /\ delivered' = delivered
  /\ \A e \in 1 .. Len(delivery) :
       /\ delivery'[e].stream = delivery[e].stream /\ delivery'[e].event = delivery[e].event
       /\ delivery[e].status = "skipped" => delivery'[e].status = "skipped"
       /\ delivery[e].status # "skipped" /\ delivery'[e].status = "skipped" => Delivery!Skip(e)

LEMMA DeliveryQuietStep ==
  ASSUME DeliveryQueue!IndInv, DeliveryQuiet
  PROVE  DeliveryQueue!IndInv' /\ DeliveryQueue!Next /\ DeliveryKept
  <1>. USE OptionsAssumption, LimitsAssumption, WorkersAssumption, DeliveryOptions
  <1>1. \/ \E r \in DeliveryWorkers : DeliveryQueue!StoreStep(r)
        \/ \E e \in DeliveryQueue!Entries : DeliveryQueue!TimePasses(e) \/ DeliveryQueue!Requeue(e) \/ DeliveryQueue!Skip(e)
    BY SameDelivery DEF DeliveryQuiet
  <1>2. DeliveryQueue!Next
    BY <1>1 DEF DeliveryQueue!Next, DeliveryQueue!PassStep
  <1>3. DeliveryQueue!IndInv'
    BY <1>2, DeliveryQueue!StepHolds
  <1>4. DeliveryQueue!TypeOK /\ DeliveryQueue!PassesOK
    BY DEF DeliveryQueue!IndInv
  <1>5. DeliveryQueue!Evolves
    BY <1>2, <1>4, DeliveryQueue!NextEvolves
  <1>6. Len(delivery') = Len(delivery)
    BY <1>1, <1>4, DeliveryQueue!LengthKept DEF DeliveryQueue!PassStep
  <1>7. delivered' = delivered
    BY <1>1 DEF DeliveryQueue!StoreStep, DeliveryQueue!Snapshot, DeliveryQueue!LeaseBatch, DeliveryQueue!Conclude,
       DeliveryQueue!GiveUp, DeliveryQueue!HandOverFailed, DeliveryQueue!HandOverDone, DeliveryQueue!Crash, DeliveryQueue!TimePasses,
       DeliveryQueue!Requeue, DeliveryQueue!Skip, DeliveryQueue!ResolveDeadLetter
  <1>8. \A e \in 1 .. Len(delivery) :
          /\ delivery'[e].stream = delivery[e].stream /\ delivery'[e].event = delivery[e].event
          /\ delivery[e].status = "skipped" => delivery'[e].status = "skipped"
    BY <1>5 DEF DeliveryQueue!Evolves, DeliveryQueue!Finished
  <1>9. \A e \in 1 .. Len(delivery) :
          delivery[e].status # "skipped" /\ delivery'[e].status = "skipped" => Delivery!Skip(e)
    BY <1>2, DeliveryQueue!RowStep, SameDelivery
  <1>. QED BY <1>2, <1>3, <1>6, <1>7, <1>8, <1>9 DEF DeliveryKept

(* A hand-over leaves the queue's rows alone. *)
LEMMA DeliveryHandOverStep ==
  ASSUME DeliveryQueue!IndInv, NEW r \in DeliveryWorkers, NEW x \in worker[r].batch, NEW outcome \in Delivery!Outcomes,
         Delivery!HandOver(r, x, outcome)
  PROVE  /\ DeliveryQueue!IndInv' /\ delivery' = delivery /\ DeliveryQueue!Next
         /\ x.id \in 1 .. Len(delivery) /\ delivered \in [Delivery!Entries -> Nat]
         /\ delivered' = [delivered EXCEPT ![x.id] = IF outcome = "failed" THEN @ ELSE @ + 1]
         /\ DeliveryQueue!IsHead(delivery, x.id)
  <1>. USE OptionsAssumption, LimitsAssumption, WorkersAssumption, DeliveryOptions
  <1>1. DeliveryQueue!HandOver(r, x, outcome) /\ outcome \in DeliveryQueue!Outcomes
    BY SameDelivery
  <1>2. DeliveryQueue!Next
    BY <1>1 DEF DeliveryQueue!Next, DeliveryQueue!PassStep, DeliveryQueue!PublisherStep
  <1>3. DeliveryQueue!IndInv'
    BY <1>2, DeliveryQueue!StepHolds
  <1>4. x.id \in 1 .. Len(delivery)
    BY DEF DeliveryQueue!IndInv, DeliveryQueue!PassesOK
  <1>5. DeliveryQueue!IsHead(delivery, x.id)
    BY <1>4 DEF DeliveryQueue!IndInv, DeliveryQueue!NoOvertake, DeliveryQueue!Started
  <1>6. delivered \in [Delivery!Entries -> Nat]
    BY SameDelivery DEF DeliveryQueue!IndInv, DeliveryQueue!TypeOK
  <1>. QED BY <1>1, <1>2, <1>3, <1>4, <1>5, <1>6 DEF DeliveryQueue!HandOver
-----------------------------------------------------------------------------
(* The transport's INSERT *)

LEMMA Enumeration ==
  ASSUME NEW S, IsFiniteSet(S)
  PROVE  /\ SetToSeq(S) \in Seq(S)
         /\ \A a, b \in 1 .. Len(SetToSeq(S)) : SetToSeq(S)[a] = SetToSeq(S)[b] => a = b
         /\ \A s \in S : \E a \in 1 .. Len(SetToSeq(S)) : SetToSeq(S)[a] = s
  <1>1. PICK n \in Nat : n = Cardinality(S) /\ ExistsBijection(1 .. n, S)
    BY FS_CardinalityType
  <1>2. \E f \in [1 .. n -> S] : IsInjective(f)
    BY <1>1 DEF ExistsBijection, Bijection, Injection
  <1>3. PICK g : g = SetToSeq(S)
    OBVIOUS
  <1>4. g \in [1 .. n -> S] /\ IsInjective(g)
    BY <1>1, <1>2, <1>3 DEF SetToSeq
  <1>5. IsFiniteSet(1 .. n) /\ Cardinality(1 .. n) = n
    BY FS_Interval
  <1>6. g \in Injection(1 .. n, S)
    BY <1>4 DEF Injection
  <1>7. g \in Surjection(1 .. n, S)
    BY <1>1, <1>5, <1>6, FS_Injection
  <1>8. g \in Seq(S) /\ Len(g) = n
    BY <1>4
  <1>. QED BY <1>3, <1>4, <1>7, <1>8 DEF IsInjective, Surjection

LEMMA SubscribersFinite ==
  ASSUME NEW type
  PROVE  IsFiniteSet(ConsumersFor(type))
  <1>. DEFINE f == [i \in 1 .. Len(Routes) |-> Routes[i].consumer]
              T == {f[i] : i \in 1 .. Len(Routes)}
  <1>1. Len(Routes) \in Nat /\ DOMAIN Routes = 1 .. Len(Routes)
    BY RoutesAssumption
  <1>2. IsFiniteSet(1 .. Len(Routes))
    BY <1>1, FS_Interval
  <1>3. f \in Surjection(1 .. Len(Routes), T)
    BY DEF Surjection
  <1>4. IsFiniteSet(T)
    BY <1>2, <1>3, FS_Surjection
  <1>5. ConsumersFor(type) \in SUBSET T
    BY <1>1 DEF ConsumersFor, Subscribed
  <1>. HIDE DEF T
  <1>. QED BY <1>4, <1>5, FS_Subset

(* As many deliveries as there may be. *)
LEMMA Bounded ==
  ASSUME NEW n \in Nat, NEW ev \in [1 .. n -> 1 .. MaxEvents], NEW con \in [1 .. n -> Consumers],
         \A i \in 1 .. n : \E k \in 1 .. Len(Routes) : Routes[k].consumer = con[i],
         \A i, j \in 1 .. n : ev[i] = ev[j] /\ con[i] = con[j] => i = j
  PROVE  n <= MaxEvents * Len(Routes)
  <1>. DEFINE At(i) == CHOOSE k \in 1 .. Len(Routes) : Routes[k].consumer = con[i]
              T == (1 .. MaxEvents) \X (1 .. Len(Routes))
              f == [i \in 1 .. n |-> <<ev[i], At(i)>>]
  <1>1. \A i \in 1 .. n : At(i) \in 1 .. Len(Routes) /\ Routes[At(i)].consumer = con[i]
    OBVIOUS
  <1>. HIDE DEF At
  <1>2. f \in [1 .. n -> T]
    BY <1>1
  <1>3. ASSUME NEW i \in 1 .. n, NEW j \in 1 .. n, f[i] = f[j]
        PROVE  i = j
    <2>1. ev[i] = ev[j] /\ At(i) = At(j)
      BY <1>3
    <2>2. con[i] = con[j]
      BY <1>1, <2>1
    <2>. QED BY <2>1, <2>2
  <1>4. f \in Injection(1 .. n, T)
    BY <1>2, <1>3 DEF Injection, IsInjective
  <1>5. /\ IsFiniteSet(1 .. MaxEvents) /\ Cardinality(1 .. MaxEvents) = MaxEvents
        /\ IsFiniteSet(1 .. Len(Routes)) /\ Cardinality(1 .. Len(Routes)) = Len(Routes)
        /\ Cardinality(1 .. n) = n
    <2>1. \A m \in Nat : IsFiniteSet(1 .. m) /\ Cardinality(1 .. m) = m
      BY FS_Interval
    <2>. QED BY <2>1, LimitsAssumption, DeliveryOptions
  <1>6. IsFiniteSet(T) /\ Cardinality(T) = MaxEvents * Len(Routes)
    <2>1. ASSUME NEW A, NEW B, IsFiniteSet(A), IsFiniteSet(B)
          PROVE  IsFiniteSet(A \X B) /\ Cardinality(A \X B) = Cardinality(A) * Cardinality(B)
      BY <2>1, FS_Product
    <2>2. IsFiniteSet(T) /\ Cardinality(T) = Cardinality(1 .. MaxEvents) * Cardinality(1 .. Len(Routes))
      BY <1>5, <2>1
    <2>. QED BY <1>5, <2>2
  <1>. HIDE DEF T, f
  <1>7. Cardinality(1 .. n) <= Cardinality(T)
    BY <1>4, <1>6, FS_Injection
  <1>. QED BY <1>5, <1>6, <1>7

(* The rows of an INSERT for event e: one for each subscriber that had none. *)
RowsFor(e, rows) ==
  /\ rows \in Seq(DeliveryQueue!Row)
  /\ \A k \in 1 .. Len(rows) :
       /\ rows[k].status = "pending" /\ rows[k].event = e
       /\ rows[k].stream = <<rows[k].stream[1], outbox[e].stream>>
       /\ rows[k].stream[1] \in Consumers
       /\ Subscribed(rows[k].stream[1], types[e]) /\ ~HasDelivery(rows[k].stream[1], e)
  /\ \A k, l \in 1 .. Len(rows) : rows[k].stream[1] = rows[l].stream[1] => k = l
  /\ \A c \in Consumers : Subscribed(c, types[e]) /\ ~HasDelivery(c, e) =>
       \E k \in 1 .. Len(rows) : rows[k].stream[1] = c

LEMMA InsertedRows ==
  ASSUME NEW e \in Nat, outbox[e].stream \in Streams, NEW rows, rows = NewDeliveries(e)
  PROVE  RowsFor(e, rows)
  <1>1. PICK S : S = {c \in ConsumersFor(types[e]) : ~HasDelivery(c, e)}
    OBVIOUS
  <1>2. \A c : c \in S <=> c \in Consumers /\ Subscribed(c, types[e]) /\ ~HasDelivery(c, e)
    BY <1>1 DEF ConsumersFor
  <1>3. IsFiniteSet(S)
    <2>1. S \in SUBSET ConsumersFor(types[e])
      BY <1>1
    <2>. QED BY <2>1, SubscribersFinite, FS_Subset
  <1>4. PICK missing : missing = SetToSeq(S)
    OBVIOUS
  <1>5. /\ missing \in Seq(S)
        /\ \A a, b \in 1 .. Len(missing) : missing[a] = missing[b] => a = b
        /\ \A s \in S : \E a \in 1 .. Len(missing) : missing[a] = s
    BY <1>3, <1>4, Enumeration
  <1>7. rows = [i \in 1 .. Len(missing) |-> Delivery!NewRow(<<missing[i], outbox[e].stream>>, e)]
    <2>1. DOMAIN missing = 1 .. Len(missing)
      BY <1>5
    <2>. QED BY <1>1, <1>4, <2>1 DEF NewDeliveries
  <1>8. Len(missing) \in Nat /\ \A i \in 1 .. Len(missing) : missing[i] \in S
    BY <1>5
  <1>9. ASSUME NEW i \in 1 .. Len(missing)
        PROVE  /\ rows[i].status = "pending" /\ rows[i].event = e
               /\ rows[i].stream = <<missing[i], outbox[e].stream>>
               /\ rows[i] \in DeliveryQueue!Row
    <2>1. rows[i] = Delivery!NewRow(<<missing[i], outbox[e].stream>>, e)
      BY <1>7
    <2>2. <<missing[i], outbox[e].stream>> \in Consumers \X Streams
      BY <1>2, <1>8
    <2>. QED BY <2>1, <2>2, OptionsAssumption
         DEF Delivery!NewRow, DeliveryQueue!Row, DeliveryQueue!Statuses
  <1>10. rows \in Seq(DeliveryQueue!Row) /\ Len(rows) = Len(missing)
    <2>1. rows \in [1 .. Len(missing) -> DeliveryQueue!Row]
      BY <1>7, <1>9
    <2>. QED BY <1>8, <2>1
  <1>11. \A i \in 1 .. Len(missing) : rows[i].stream[1] = missing[i]
    BY <1>9
  <1>12. \A k \in 1 .. Len(rows) :
           /\ rows[k].status = "pending" /\ rows[k].event = e
           /\ rows[k].stream = <<rows[k].stream[1], outbox[e].stream>>
           /\ rows[k].stream[1] \in Consumers
           /\ Subscribed(rows[k].stream[1], types[e]) /\ ~HasDelivery(rows[k].stream[1], e)
    BY <1>2, <1>8, <1>9, <1>10, <1>11
  <1>13. \A k, l \in 1 .. Len(rows) : rows[k].stream[1] = rows[l].stream[1] => k = l
    BY <1>5, <1>10, <1>11
  <1>14. \A c \in Consumers : Subscribed(c, types[e]) /\ ~HasDelivery(c, e) =>
           \E k \in 1 .. Len(rows) : rows[k].stream[1] = c
    BY <1>2, <1>5, <1>10, <1>11
  <1>. QED BY <1>10, <1>12, <1>13, <1>14 DEF RowsFor
-----------------------------------------------------------------------------
(* Steps that leave the rows where they are *)

LEMMA QueueTypes ==
  ASSUME IndInv
  PROVE  /\ outbox \in Seq(OutboxQueue!Row) /\ Len(outbox) \in Nat /\ Len(outbox) <= MaxEvents
         /\ delivery \in Seq(DeliveryQueue!Row) /\ Len(delivery) \in Nat
         /\ DOMAIN delivery = Deliveries /\ DOMAIN outbox = Events
         /\ relayed \in [1 .. MaxEvents -> Nat]
         /\ delivered \in [1 .. MaxEvents * Len(Routes) -> Nat]
         /\ Deliveries \subseteq 1 .. MaxEvents * Len(Routes) /\ Events \subseteq 1 .. MaxEvents
         /\ \A e \in Events : outbox[e].stream \in Streams /\ outbox[e].event \in Nat
         /\ \A i \in Deliveries : delivery[i].stream \in Consumers \X Streams /\ delivery[i].event \in Nat
  <1>1. /\ outbox \in Seq(OutboxQueue!Row) /\ Len(outbox) <= MaxEvents
        /\ relayed \in [1 .. MaxEvents -> Nat]
    BY DEF IndInv, OutboxQueue!IndInv, OutboxQueue!TypeOK, OutboxQueue!Entries
  <1>2. /\ delivery \in Seq(DeliveryQueue!Row) /\ Len(delivery) <= MaxEvents * Len(Routes)
        /\ delivered \in [1 .. MaxEvents * Len(Routes) -> Nat]
    BY DEF IndInv, DeliveryQueue!IndInv, DeliveryQueue!TypeOK, DeliveryQueue!Entries
  <1>3. /\ Len(outbox) \in Nat /\ Len(delivery) \in Nat
        /\ DOMAIN delivery = Deliveries /\ DOMAIN outbox = Events
    BY <1>1, <1>2 DEF Events, Deliveries
  <1>4. Events \subseteq 1 .. MaxEvents
    BY <1>1, <1>3, LimitsAssumption DEF Events
  <1>5. Deliveries \subseteq 1 .. MaxEvents * Len(Routes)
    <2>1. \A m, n \in Nat : m <= n => 1 .. m \subseteq 1 .. n
      OBVIOUS
    <2>. QED BY <1>2, <1>3, <2>1, DeliveryOptions DEF Deliveries
  <1>6. \A e \in Events : outbox[e].stream \in Streams /\ outbox[e].event \in Nat
    <2>1. \A e \in Events : outbox[e] \in OutboxQueue!Row
      BY <1>1 DEF Events
    <2>. QED BY <2>1 DEF OutboxQueue!Row
  <1>7. \A i \in Deliveries : delivery[i].stream \in Consumers \X Streams /\ delivery[i].event \in Nat
    <2>1. \A i \in Deliveries : delivery[i] \in DeliveryQueue!Row
      BY <1>2 DEF Deliveries
    <2>. QED BY <2>1 DEF DeliveryQueue!Row
  <1>. QED BY <1>1, <1>2, <1>3, <1>4, <1>5, <1>6, <1>7

RowsStand ==
  /\ Len(outbox') = Len(outbox) /\ relayed' = relayed /\ types' = types
  /\ \A e \in Events :
       /\ outbox'[e].stream = outbox[e].stream /\ outbox'[e].event = outbox[e].event
       /\ outbox[e].status = "skipped" => outbox'[e].status = "skipped"
  /\ Len(delivery') = Len(delivery)
  /\ \A i \in Deliveries : delivery'[i].stream = delivery[i].stream /\ delivery'[i].event = delivery[i].event

Structure == EventsOK /\ (\A i \in Deliveries : DeliveryOK(i)) /\ OneEach /\ FannedOut /\ InOrder

LEMMA StructureStands ==
  ASSUME IndInv, RowsStand, delivery' \in Seq(DeliveryQueue!Row)
  PROVE  Structure'
  <1>1. Events' = Events /\ Deliveries' = Deliveries
    BY DEF RowsStand, Events, Deliveries
  <1>2. \A i \in Deliveries : ConsumerAt(i)' = ConsumerAt(i) /\ EventAt(i)' = EventAt(i)
    BY DEF RowsStand, ConsumerAt, EventAt
  <1>3. EventsOK'
    BY <1>1 DEF IndInv, EventsOK, RowsStand
  <1>4. ASSUME NEW i \in Deliveries PROVE DeliveryOK(i)'
    BY <1>1, <1>2 DEF IndInv, DeliveryOK, RowsStand
  <1>5. OneEach'
    BY <1>1, <1>2 DEF IndInv, OneEach
  <1>6. \A c, e : HasDelivery(c, e) => HasDelivery(c, e)'
    <2>1. DOMAIN delivery = Deliveries
      BY QueueTypes
    <2>2. DOMAIN delivery' = Deliveries
      BY <1>1 DEF Deliveries
    <2>. QED BY <2>1, <2>2 DEF HasDelivery, RowsStand
  <1>7. FannedOut'
    BY <1>1, <1>6 DEF IndInv, FannedOut, RowsStand
  <1>8. InOrder'
    <2>. SUFFICES ASSUME NEW i \in Deliveries, NEW j \in Deliveries, i < j,
                         delivery'[i].stream = delivery'[j].stream
                  PROVE  EventAt(i)' < EventAt(j)' \/ outbox'[EventAt(j)'].status = "skipped"
      BY <1>1 DEF InOrder
    <2>1. delivery[i].stream = delivery[j].stream
      BY DEF RowsStand
    <2>2. EventAt(i) < EventAt(j) \/ outbox[EventAt(j)].status = "skipped"
      BY <2>1 DEF IndInv, InOrder
    <2>3. EventAt(j) \in Events
      BY DEF IndInv, DeliveryOK
    <2>. QED BY <1>2, <2>2, <2>3 DEF RowsStand
  <1>. QED BY <1>1, <1>3, <1>4, <1>5, <1>7, <1>8 DEF Structure

(* Who works on what changes with the steps of the delivery queue only. *)
LEMMA ScopeStands ==
  ASSUME IndInv, DeliveryQueue!Next \/ UNCHANGED worker, Len(delivery') = Len(delivery),
         \A i \in Deliveries : delivery'[i].stream = delivery[i].stream
  PROVE  InScope'
  <1>1. Deliveries' = Deliveries /\ \A i \in Deliveries : ConsumerAt(i)' = ConsumerAt(i)
    BY DEF Deliveries, ConsumerAt
  <1>2. CASE UNCHANGED worker
    BY <1>1, <1>2 DEF IndInv, InScope
  <1>3. CASE DeliveryQueue!Next
    <2>. SUFFICES ASSUME NEW w \in DeliveryWorkers
                  PROVE  /\ \A i \in worker'[w].candidates : i \in Deliveries => ConsumerAt(i) = ConsumerOf[w]
                         /\ \A x \in worker'[w].batch : x.id \in Deliveries => ConsumerAt(x.id) = ConsumerOf[w]
      BY <1>1 DEF InScope
    <2>. USE OptionsAssumption, LimitsAssumption, WorkersAssumption, DeliveryOptions
    <2>1. DeliveryQueue!IndInv
      BY DEF IndInv
    <2>2. /\ \A i \in worker[w].candidates : i \in Deliveries => ConsumerAt(i) = ConsumerOf[w]
          /\ \A x \in worker[w].batch : x.id \in Deliveries => ConsumerAt(x.id) = ConsumerOf[w]
      BY DEF IndInv, InScope
    <2>3. ASSUME NEW i \in worker'[w].candidates, i \in Deliveries PROVE ConsumerAt(i) = ConsumerOf[w]
      <3>1. \/ i \in worker[w].candidates
            \/ i \in DeliveryQueue!Candidates(delivery, {ConsumerOf[w]} \X Streams)
        BY <1>3, <2>1, <2>3, DeliveryQueue!CandidatesStep
      <3>2. CASE i \in DeliveryQueue!Candidates(delivery, {ConsumerOf[w]} \X Streams)
        <4>1. delivery[i].stream \in {ConsumerOf[w]} \X Streams
          BY <3>2 DEF DeliveryQueue!Candidates
        <4>. QED BY <4>1 DEF ConsumerAt
      <3>. QED BY <2>2, <2>3, <3>1, <3>2
    <2>4. ASSUME NEW x \in worker'[w].batch, x.id \in Deliveries PROVE ConsumerAt(x.id) = ConsumerOf[w]
      <3>1. x \in worker[w].batch \/ x.id \in worker[w].candidates
        BY <1>3, <2>1, <2>4, DeliveryQueue!BatchStep
      <3>. QED BY <2>2, <2>4, <3>1
    <2>. QED BY <2>3, <2>4
  <1>. QED BY <1>2, <1>3

(* No hand-over to a consumer took effect. *)
LEMMA ConsumersStand ==
  ASSUME IndInv, UNCHANGED <<inbox, applied, delivered>>, Len(delivery') = Len(delivery),
         \A i \in Deliveries : delivery'[i].stream = delivery[i].stream /\ delivery'[i].event = delivery[i].event
  PROVE  InboxOK' /\ HandedWasApplied'
  <1>1. Deliveries' = Deliveries
    BY DEF Deliveries
  <1>2. \A i \in Deliveries : ConsumerAt(i)' = ConsumerAt(i) /\ EventAt(i)' = EventAt(i)
    BY DEF ConsumerAt, EventAt
  <1>3. InboxOK'
    BY DEF IndInv, InboxOK
  <1>. QED BY <1>1, <1>2, <1>3 DEF IndInv, HandedWasApplied

LEMMA OutboxStepHolds ==
  ASSUME IndInv, OnOutbox(OutboxQuiet)
  PROVE  IndInv' /\ OutboxKept
  <1>1. OutboxQueue!IndInv' /\ OutboxKept
    BY OutboxQuietStep DEF IndInv, OnOutbox
  <1>2. UNCHANGED <<delivery, worker, delivered, deliveryAudit, types, inbox, applied>>
    BY DEF OnOutbox, deliveryVars, consumerVars
  <1>3. RowsStand /\ delivery' \in Seq(DeliveryQueue!Row)
    BY <1>1, <1>2, QueueTypes DEF RowsStand, OutboxKept, Events
  <1>4. DeliveryQueue!IndInv'
    <2>. USE OptionsAssumption, LimitsAssumption, WorkersAssumption, DeliveryOptions
    <2>. QED BY <1>2, DeliveryQueue!StepHolds DEF IndInv, DeliveryQueue!vars
  <1>5. Structure'
    BY <1>3, StructureStands
  <1>6. InScope' /\ InboxOK' /\ HandedWasApplied'
    BY <1>2, <1>3, ScopeStands, ConsumersStand DEF RowsStand
  <1>. QED BY <1>1, <1>4, <1>5, <1>6 DEF IndInv, Structure

LEMMA OutboxStutters ==
  ASSUME OutboxQueue!IndInv, UNCHANGED outboxVars
  PROVE  OutboxQueue!IndInv'
  BY OptionsAssumption, LimitsAssumption, WorkersAssumption, OutboxOptions, OutboxQueue!StepHolds
  DEF outboxVars, OutboxQueue!vars

LEMMA DeliveryStutters ==
  ASSUME DeliveryQueue!IndInv, UNCHANGED <<delivery, deliveryVars>>
  PROVE  DeliveryQueue!IndInv'
  BY OptionsAssumption, LimitsAssumption, WorkersAssumption, DeliveryOptions, DeliveryQueue!StepHolds
  DEF deliveryVars, DeliveryQueue!vars

LEMMA DeliveryStepHolds ==
  ASSUME IndInv, OnDelivery(DeliveryQuiet)
  PROVE  IndInv' /\ DeliveryKept
  <1>1. DeliveryQueue!IndInv' /\ DeliveryQueue!Next /\ DeliveryKept
    BY DeliveryQuietStep DEF IndInv, OnDelivery
  <1>2. UNCHANGED <<outbox, relayed, types, inbox, applied>> /\ UNCHANGED outboxVars
    BY DEF OnDelivery, outboxVars, consumerVars
  <1>3. RowsStand /\ delivery' \in Seq(DeliveryQueue!Row) /\ delivered' = delivered
    BY <1>1, <1>2 DEF RowsStand, DeliveryKept, Deliveries, DeliveryQueue!IndInv, DeliveryQueue!TypeOK
  <1>4. OutboxQueue!IndInv'
    BY <1>2, OutboxStutters DEF IndInv
  <1>5. Structure'
    BY <1>3, StructureStands
  <1>6. InScope' /\ InboxOK' /\ HandedWasApplied'
    BY <1>1, <1>2, <1>3, ScopeStands, ConsumersStand DEF RowsStand
  <1>. QED BY <1>1, <1>4, <1>5, <1>6 DEF IndInv, Structure

-----------------------------------------------------------------------------
(* The hand-over to a consumer *)

LEMMA RangeAppend ==
  ASSUME NEW S, NEW s \in Seq(S), NEW v \in S
  PROVE  Append(s, v) \in Seq(S) /\ Range(Append(s, v)) = Range(s) \cup {v}
  <1>1. /\ Append(s, v) \in Seq(S) /\ Len(s) \in Nat /\ Len(Append(s, v)) = Len(s) + 1
        /\ \A k \in 1 .. Len(s) : Append(s, v)[k] = s[k]
        /\ Append(s, v)[Len(s) + 1] = v
    OBVIOUS
  <1>2. DOMAIN s = 1 .. Len(s) /\ DOMAIN Append(s, v) = 1 .. Len(s) + 1
    BY <1>1
  <1>3. 1 .. Len(s) + 1 = (1 .. Len(s)) \cup {Len(s) + 1}
    BY <1>1
  <1>4. Range(Append(s, v)) = {Append(s, v)[k] : k \in (1 .. Len(s)) \cup {Len(s) + 1}}
    BY <1>2, <1>3 DEF Range
  <1>5. Range(s) = {s[k] : k \in 1 .. Len(s)}
    BY <1>2 DEF Range
  <1>. QED BY <1>1, <1>4, <1>5

(* What the consumer's transaction leaves behind for the consumer and the   *)
(* event of the delivery, and for no other.                                 *)
Consumed(c, e, fresh) ==
  IF fresh THEN /\ applied' = [applied EXCEPT ![c] = Append(@, e)]
                /\ inbox' = inbox \cup {<<c, e>>}
  ELSE UNCHANGED <<applied, inbox>>

LEMMA ConsumeStep ==
  ASSUME IndInv, NEW w \in DeliveryWorkers, NEW x \in worker[w].batch,
         NEW outcome \in Delivery!Outcomes, Consume(w, x, outcome)
  PROVE  /\ IndInv' /\ delivery' = delivery /\ UNCHANGED <<outbox, types>>
         /\ x.id \in Deliveries /\ DeliveryQueue!IsHead(delivery, x.id)
         /\ Consumed(ConsumerAt(x.id), EventAt(x.id),
                     outcome # "failed" /\ <<ConsumerAt(x.id), EventAt(x.id)>> \notin inbox)
  <1>1. PICK i, c, e : i = x.id /\ c = ConsumerAt(i) /\ e = EventAt(i)
    OBVIOUS
  <1>2. /\ DeliveryQueue!IndInv' /\ delivery' = delivery /\ DeliveryQueue!Next
        /\ i \in 1 .. Len(delivery) /\ delivered \in [Delivery!Entries -> Nat]
        /\ delivered' = [delivered EXCEPT ![i] = IF outcome = "failed" THEN @ ELSE @ + 1]
        /\ DeliveryQueue!IsHead(delivery, i)
    BY <1>1, DeliveryHandOverStep DEF IndInv, Consume
  <1>3. UNCHANGED <<outbox, relayed, types>> /\ UNCHANGED outboxVars
    BY DEF Consume, outboxVars
  <1>4. i \in Deliveries /\ c = ConsumerOf[w] /\ c \in Consumers /\ e \in Nat /\ e \in Events
    <2>1. i \in Deliveries
      BY <1>2 DEF Deliveries
    <2>2. c = ConsumerOf[w]
      BY <1>1, <2>1 DEF IndInv, InScope
    <2>3. c \in Consumers /\ e \in Events
      BY <1>1, <2>1 DEF IndInv, DeliveryOK
    <2>4. e \in Nat
      BY <2>3, QueueTypes DEF Events
    <2>. QED BY <2>1, <2>2, <2>3, <2>4
  <1>5. Consumed(c, e, outcome # "failed" /\ <<c, e>> \notin inbox)
    <2>1. /\ inbox' = IF outcome = "failed" THEN inbox ELSE inbox \cup {<<c, e>>}
          /\ applied' = IF outcome # "failed" /\ <<c, e>> \notin inbox
                        THEN [applied EXCEPT ![c] = Append(@, e)] ELSE applied
      BY <1>1, <1>4 DEF Consume, EventAt
    <2>2. <<c, e>> \in inbox => inbox \cup {<<c, e>>} = inbox
      OBVIOUS
    <2>. QED BY <2>1, <2>2 DEF Consumed
  <1>6. /\ applied \in [Consumers -> Seq(Nat)]
        /\ \A d \in Consumers, f \in Nat : <<d, f>> \in inbox <=> f \in Range(applied[d])
    BY DEF IndInv, InboxOK
  <1>7. /\ InboxOK'
        /\ \A d \in Consumers : Range(applied[d]) \subseteq Range(applied'[d])
        /\ outcome # "failed" => e \in Range(applied'[c])
    <2>1. CASE outcome # "failed" /\ <<c, e>> \notin inbox
      <3>1. applied' = [applied EXCEPT ![c] = Append(@, e)] /\ inbox' = inbox \cup {<<c, e>>}
        BY <1>5, <2>1 DEF Consumed
      <3>2. Append(applied[c], e) \in Seq(Nat) /\ Range(Append(applied[c], e)) = Range(applied[c]) \cup {e}
        BY <1>4, <1>6, RangeAppend
      <3>3. applied' \in [Consumers -> Seq(Nat)]
        BY <1>4, <1>6, <3>1, <3>2
      <3>4. \A d \in Consumers : Range(applied'[d]) = IF d = c THEN Range(applied[d]) \cup {e}
                                                      ELSE Range(applied[d])
        BY <1>4, <1>6, <3>1, <3>2
      <3>5. ASSUME NEW d \in Consumers, NEW f \in Nat
            PROVE  <<d, f>> \in inbox' <=> f \in Range(applied'[d])
        BY <1>6, <3>1, <3>4
      <3>. QED BY <1>4, <3>3, <3>4, <3>5 DEF InboxOK
    <2>2. CASE ~(outcome # "failed" /\ <<c, e>> \notin inbox)
      BY <1>4, <1>5, <1>6, <2>2 DEF Consumed, InboxOK
    <2>. QED BY <2>1, <2>2
  <1>8. HandedWasApplied'
    <2>. SUFFICES ASSUME NEW j \in Deliveries, delivered'[j] > 0
                  PROVE  EventAt(j) \in Range(applied'[ConsumerAt(j)])
      BY <1>2 DEF HandedWasApplied, Deliveries, EventAt, ConsumerAt
    <2>1. ConsumerAt(j) \in Consumers
      BY DEF IndInv, DeliveryOK
    <2>2. CASE delivered[j] > 0
      BY <1>7, <2>1, <2>2 DEF IndInv, HandedWasApplied
    <2>3. CASE ~(delivered[j] > 0)
      <3>1. j = i /\ outcome # "failed"
        BY <1>2, <2>3
      <3>. QED BY <1>1, <1>7, <3>1
    <2>. QED BY <2>2, <2>3
  <1>9. RowsStand /\ delivery' \in Seq(DeliveryQueue!Row)
    BY <1>2, <1>3, QueueTypes DEF RowsStand
  <1>10. Structure' /\ InScope'
    BY <1>2, <1>9, StructureStands, ScopeStands DEF RowsStand
  <1>11. OutboxQueue!IndInv'
    BY <1>3, OutboxStutters DEF IndInv
  <1>12. IndInv'
    BY <1>2, <1>7, <1>8, <1>10, <1>11 DEF IndInv, Structure
  <1>. QED BY <1>1, <1>2, <1>3, <1>4, <1>5, <1>12

-----------------------------------------------------------------------------
(* The hand-over to the transport *)

(* Rows that are added are of event e, one for each subscriber that had     *)
(* none; every other row stays.                                             *)
Inserted(e) ==
  /\ delivery' \in Seq(DeliveryQueue!Row) /\ Len(delivery) <= Len(delivery')
  /\ \A i \in Deliveries : delivery'[i] = delivery[i]
  /\ \A i \in Deliveries' \ Deliveries :
       /\ delivery'[i].status = "pending" /\ EventAt(i)' = e
       /\ delivery'[i].stream = <<ConsumerAt(i)', outbox[e].stream>>
       /\ ConsumerAt(i)' \in Consumers
       /\ Subscribed(ConsumerAt(i)', types[e]) /\ ~HasDelivery(ConsumerAt(i)', e)
  /\ \A i, j \in Deliveries' \ Deliveries : ConsumerAt(i)' = ConsumerAt(j)' => i = j
  /\ \A c \in Consumers : Subscribed(c, types[e]) /\ ~HasDelivery(c, e) =>
       \E i \in Deliveries' \ Deliveries : ConsumerAt(i)' = c

LEMMA InsertStep ==
  ASSUME IndInv, NEW e \in Events, delivery' = delivery \o NewDeliveries(e)
  PROVE  Inserted(e)
  <1>1. PICK rows : rows = NewDeliveries(e)
    OBVIOUS
  <1>2. e \in Nat /\ outbox[e].stream \in Streams
    BY QueueTypes DEF Events
  <1>3. /\ rows \in Seq(DeliveryQueue!Row)
        /\ \A k \in 1 .. Len(rows) :
             /\ rows[k].status = "pending" /\ rows[k].event = e
             /\ rows[k].stream = <<rows[k].stream[1], outbox[e].stream>>
             /\ rows[k].stream[1] \in Consumers
             /\ Subscribed(rows[k].stream[1], types[e]) /\ ~HasDelivery(rows[k].stream[1], e)
        /\ \A k, l \in 1 .. Len(rows) : rows[k].stream[1] = rows[l].stream[1] => k = l
        /\ \A c \in Consumers : Subscribed(c, types[e]) /\ ~HasDelivery(c, e) =>
             \E k \in 1 .. Len(rows) : rows[k].stream[1] = c
    <2>1. RowsFor(e, rows)
      BY <1>1, <1>2, InsertedRows
    <2>. QED BY <2>1 DEF RowsFor
  <1>4. PICK n : n = Len(delivery)
    OBVIOUS
  <1>5. n \in Nat /\ delivery \in Seq(DeliveryQueue!Row) /\ Len(rows) \in Nat
    BY <1>3, <1>4, QueueTypes
  <1>6. /\ delivery' \in Seq(DeliveryQueue!Row) /\ Len(delivery') = n + Len(rows)
        /\ \A i \in 1 .. n : delivery'[i] = delivery[i]
        /\ \A k \in 1 .. Len(rows) : delivery'[n + k] = rows[k]
    BY <1>1, <1>3, <1>4, <1>5
  <1>7. \A i : i \in Deliveries' \ Deliveries <=> i \in (n + 1) .. (n + Len(rows))
    BY <1>4, <1>5, <1>6 DEF Deliveries
  <1>8. \A i \in Deliveries' \ Deliveries : i - n \in 1 .. Len(rows) /\ delivery'[i] = rows[i - n]
    <2>1. ASSUME NEW i \in (n + 1) .. (n + Len(rows)) PROVE i - n \in 1 .. Len(rows) /\ i = n + (i - n)
      BY <1>5
    <2>. QED BY <1>6, <1>7, <2>1
  <1>9. \A k \in 1 .. Len(rows) : n + k \in Deliveries' \ Deliveries
    <2>1. ASSUME NEW k \in 1 .. Len(rows) PROVE n + k \in (n + 1) .. (n + Len(rows))
      BY <1>5
    <2>. QED BY <1>7, <2>1
  <1>10. ASSUME NEW i \in Deliveries' \ Deliveries
         PROVE  /\ delivery'[i].status = "pending" /\ EventAt(i)' = e
                /\ delivery'[i].stream = <<ConsumerAt(i)', outbox[e].stream>>
                /\ ConsumerAt(i)' \in Consumers
                /\ Subscribed(ConsumerAt(i)', types[e]) /\ ~HasDelivery(ConsumerAt(i)', e)
    <2>1. PICK k \in 1 .. Len(rows) : delivery'[i] = rows[k]
      BY <1>8
    <2>2. EventAt(i)' = rows[k].event /\ ConsumerAt(i)' = rows[k].stream[1]
      BY <2>1 DEF EventAt, ConsumerAt
    <2>. QED BY <1>3, <2>1, <2>2
  <1>11. ASSUME NEW i \in Deliveries' \ Deliveries, NEW j \in Deliveries' \ Deliveries,
                ConsumerAt(i)' = ConsumerAt(j)'
         PROVE  i = j
    <2>0. PICK k, l : k = i - n /\ l = j - n
      OBVIOUS
    <2>1. k = l
      <3>1. k \in 1 .. Len(rows) /\ l \in 1 .. Len(rows) /\ delivery'[i] = rows[k] /\ delivery'[j] = rows[l]
        BY <1>8, <2>0
      <3>2. rows[k].stream[1] = rows[l].stream[1]
        BY <1>11, <3>1 DEF ConsumerAt
      <3>. QED BY <1>3, <3>1, <3>2
    <2>2. i \in Nat /\ j \in Nat
      BY <1>5, <1>7
    <2>. QED BY <1>5, <2>0, <2>1, <2>2
  <1>12. ASSUME NEW c \in Consumers, Subscribed(c, types[e]), ~HasDelivery(c, e)
         PROVE  \E i \in Deliveries' \ Deliveries : ConsumerAt(i)' = c
    <2>1. PICK k \in 1 .. Len(rows) : rows[k].stream[1] = c
      BY <1>3, <1>12
    <2>2. n + k \in Deliveries' \ Deliveries /\ ConsumerAt(n + k)' = c
      BY <1>6, <1>9, <2>1 DEF ConsumerAt
    <2>. QED BY <2>2
  <1>13. Len(delivery) <= Len(delivery') /\ \A i \in Deliveries : delivery'[i] = delivery[i]
    BY <1>4, <1>5, <1>6 DEF Deliveries
  <1>. QED BY <1>6, <1>10, <1>11, <1>12, <1>13 DEF Inserted

(* The rows of a hand-over fit into the structure of the queues. *)
LEMMA InsertFits ==
  ASSUME IndInv, NEW e \in Events, Inserted(e), UNCHANGED <<outbox, types>>,
         relayed' = [relayed EXCEPT ![e] = @ + 1]
  PROVE  Structure'
  <1>1. Events' = Events /\ Deliveries \subseteq Deliveries'
    BY QueueTypes DEF Inserted, Events, Deliveries
  <1>2. \A i \in Deliveries : ConsumerAt(i)' = ConsumerAt(i) /\ EventAt(i)' = EventAt(i)
    BY DEF Inserted, ConsumerAt, EventAt
  <1>3. EventsOK'
    BY DEF IndInv, EventsOK, Events
  <1>4. \A f \in Events : relayed'[f] > 0 <=> relayed[f] > 0 \/ f = e
    BY QueueTypes
  <1>5. ASSUME NEW i \in Deliveries' PROVE DeliveryOK(i)'
    <2>1. CASE i \in Deliveries
      <3>1. DeliveryOK(i)
        BY <2>1 DEF IndInv
      <3>. QED BY <1>1, <1>2, <1>4, <2>1, <3>1 DEF DeliveryOK, Inserted
    <2>2. CASE i \notin Deliveries
      BY <1>1, <1>4, <2>2 DEF DeliveryOK, Inserted
    <2>. QED BY <2>1, <2>2
  <1>6. \A i \in Deliveries : HasDelivery(ConsumerAt(i), EventAt(i))
    BY QueueTypes DEF HasDelivery, ConsumerAt, EventAt
  <1>7. ASSUME NEW i \in Deliveries, NEW j \in Deliveries' \ Deliveries
        PROVE  ~(EventAt(i) = EventAt(j)' /\ ConsumerAt(i) = ConsumerAt(j)')
    BY <1>6 DEF Inserted
  <1>8. OneEach'
    <2>. SUFFICES ASSUME NEW i \in Deliveries', NEW j \in Deliveries',
                         EventAt(i)' = EventAt(j)', ConsumerAt(i)' = ConsumerAt(j)'
                  PROVE  i = j
      BY DEF OneEach
    <2>1. CASE i \in Deliveries /\ j \in Deliveries
      BY <1>2, <2>1 DEF IndInv, OneEach
    <2>2. CASE i \notin Deliveries /\ j \notin Deliveries
      BY <2>2 DEF Inserted
    <2>. QED BY <1>2, <1>7, <2>1, <2>2
  <1>9. \A c, f : HasDelivery(c, f)' <=> \E i \in Deliveries' : EventAt(i)' = f /\ ConsumerAt(i)' = c
    BY DEF HasDelivery, EventAt, ConsumerAt, Deliveries, Inserted
  <1>10. \A c, f : HasDelivery(c, f) => HasDelivery(c, f)'
    <2>1. \A c, f : HasDelivery(c, f) => \E i \in Deliveries : EventAt(i) = f /\ ConsumerAt(i) = c
      BY QueueTypes DEF HasDelivery, EventAt, ConsumerAt
    <2>. QED BY <1>1, <1>2, <1>9, <2>1
  <1>11. FannedOut'
    <2>. SUFFICES ASSUME NEW f \in Events, relayed'[f] > 0, NEW c \in Consumers, Subscribed(c, types[f])
                  PROVE  HasDelivery(c, f)'
      BY <1>1 DEF FannedOut
    <2>1. CASE relayed[f] > 0
      BY <1>10, <2>1 DEF IndInv, FannedOut
    <2>2. CASE f = e
      BY <1>9, <1>10, <2>2 DEF Inserted
    <2>. QED BY <1>4, <2>1, <2>2
  <1>12. InOrder'
    <2>. SUFFICES ASSUME NEW i \in Deliveries', NEW j \in Deliveries', i < j,
                         delivery'[i].stream = delivery'[j].stream
                  PROVE  EventAt(i)' < EventAt(j)' \/ outbox[EventAt(j)'].status = "skipped"
      BY DEF InOrder
    <2>1. ConsumerAt(i)' = ConsumerAt(j)'
      BY DEF ConsumerAt
    <2>2. CASE i \in Deliveries /\ j \in Deliveries
      BY <1>2, <2>2 DEF IndInv, InOrder, Inserted
    <2>3. i \in Deliveries
      <3>1. i \notin Deliveries => j \notin Deliveries
        <4>1. Len(delivery) \in Nat /\ Len(delivery') \in Nat
          BY QueueTypes DEF Inserted
        <4>. QED BY <4>1 DEF Deliveries
      <3>2. i = j => FALSE
        <4>1. i \in Nat
          BY DEF Deliveries
        <4>. QED BY <4>1
      <3>. QED BY <2>1, <3>1, <3>2 DEF Inserted
    <2>4. CASE j \notin Deliveries
      <3>1. PICK f, c : f = EventAt(i) /\ c = ConsumerAt(i)
        OBVIOUS
      <3>2. f \in Events /\ relayed[f] > 0 /\ delivery[i].stream = <<c, outbox[f].stream>> /\ c \in Consumers
        BY <2>3, <3>1 DEF IndInv, DeliveryOK
      <3>3. EventAt(j)' = e /\ delivery'[j].stream = <<c, outbox[e].stream>>
            /\ Subscribed(c, types[e]) /\ ~HasDelivery(c, e)
        BY <1>2, <2>1, <2>3, <2>4, <3>1 DEF Inserted
      <3>4. outbox[f].stream = outbox[e].stream
        BY <2>3, <3>2, <3>3 DEF Inserted
      <3>5. relayed[e] = 0
        <4>1. relayed[e] \in Nat /\ ~(relayed[e] > 0)
          BY <3>2, <3>3, QueueTypes DEF IndInv, FannedOut
        <4>. QED BY <4>1
      <3>6. CASE f < e
        BY <1>2, <2>3, <3>1, <3>3, <3>6
      <3>7. CASE e < f
        <4>1. OutboxQueue!IsHead(outbox, f)
          BY <3>2 DEF IndInv, OutboxQueue!IndInv, OutboxQueue!NoOvertake, OutboxQueue!Started, Events
        <4>2. outbox[e].status \in {"done", "skipped"}
          BY <3>4, <3>7, <4>1 DEF OutboxQueue!IsHead, OutboxQueue!Finished, Events
        <4>3. outbox[e].status # "done"
          BY <3>5 DEF IndInv, OutboxQueue!IndInv, OutboxQueue!PublishedWasHanded, Events
        <4>. QED BY <3>3, <4>2, <4>3
      <3>8. f \in Nat /\ e \in Nat /\ f # e
        BY <3>2, <3>5, QueueTypes DEF Events
      <3>. QED BY <3>6, <3>7, <3>8
    <2>. QED BY <2>2, <2>3, <2>4
  <1>. QED BY <1>3, <1>5, <1>8, <1>11, <1>12 DEF Structure

(* At most one delivery per event and route. *)
LEMMA DeliveriesBounded ==
  ASSUME Structure, outbox \in Seq(OutboxQueue!Row), Len(outbox) <= MaxEvents,
         delivery \in Seq(DeliveryQueue!Row)
  PROVE  Len(delivery) <= MaxEvents * Len(Routes)
  <1>1. PICK n, ev, con : /\ n = Len(delivery)
                          /\ ev = [i \in 1 .. n |-> EventAt(i)]
                          /\ con = [i \in 1 .. n |-> ConsumerAt(i)]
    OBVIOUS
  <1>2. n \in Nat /\ Deliveries = 1 .. n /\ Events \subseteq 1 .. MaxEvents
    BY <1>1, LimitsAssumption DEF Deliveries, Events
  <1>3. ev \in [1 .. n -> 1 .. MaxEvents] /\ con \in [1 .. n -> Consumers]
    BY <1>1, <1>2 DEF Structure, DeliveryOK
  <1>4. \A i \in 1 .. n : \E k \in 1 .. Len(Routes) : Routes[k].consumer = con[i]
    <2>1. DOMAIN Routes = 1 .. Len(Routes)
      BY RoutesAssumption
    <2>. QED BY <1>1, <1>2, <2>1 DEF Structure, DeliveryOK, Subscribed
  <1>5. \A i, j \in 1 .. n : ev[i] = ev[j] /\ con[i] = con[j] => i = j
    BY <1>1, <1>2 DEF Structure, OneEach
  <1>6. n <= MaxEvents * Len(Routes)
    BY <1>2, <1>3, <1>4, <1>5, Bounded
  <1>. QED BY <1>1, <1>6, Zenon

LEMMA PublishStep ==
  ASSUME IndInv, NEW r \in Relays, NEW x \in relay[r].batch,
         NEW outcome \in Outbox!Outcomes, Publish(r, x, outcome)
  PROVE  /\ IndInv' /\ UNCHANGED <<outbox, types, applied>>
         /\ Len(delivery) <= Len(delivery')
         /\ \A i \in Deliveries : delivery'[i] = delivery[i]
         /\ \A i \in Deliveries' \ Deliveries : delivery'[i].status = "pending"
  <1>1. PICK e : e = x.id
    OBVIOUS
  <1>2. /\ OutboxQueue!IndInv' /\ outbox' = outbox /\ e \in Events
        /\ relayed' = [relayed EXCEPT ![e] = IF outcome = "failed" THEN @ ELSE @ + 1]
    BY <1>1, OutboxHandOverStep DEF IndInv, Publish, Events
  <1>3. outbox[e].event = e
    BY <1>2 DEF IndInv, EventsOK
  <1>4. UNCHANGED <<worker, delivered, deliveryAudit, types, inbox, applied>>
    BY DEF Publish, deliveryVars, consumerVars
  <1>5. CASE outcome = "failed"
    <2>1. delivery' = delivery /\ relayed' = relayed
      BY <1>2, <1>5, QueueTypes DEF Publish
    <2>2. RowsStand /\ delivery' \in Seq(DeliveryQueue!Row)
      BY <1>2, <1>4, <2>1, QueueTypes DEF RowsStand
    <2>3. DeliveryQueue!IndInv'
      BY <1>4, <2>1, DeliveryStutters DEF IndInv, deliveryVars
    <2>4. Structure' /\ InScope' /\ InboxOK' /\ HandedWasApplied'
      BY <1>4, <2>2, StructureStands, ScopeStands, ConsumersStand DEF RowsStand
    <2>5. IndInv'
      BY <1>2, <2>3, <2>4 DEF IndInv, Structure
    <2>. QED BY <1>2, <1>4, <2>1, <2>5, QueueTypes DEF Deliveries
  <1>6. CASE outcome # "failed"
    <2>1. PICK rows : rows = NewDeliveries(e)
      OBVIOUS
    <2>2. delivery' = delivery \o rows /\ relayed' = [relayed EXCEPT ![e] = @ + 1]
      BY <1>1, <1>2, <1>3, <1>6, <2>1 DEF Publish
    <2>3. Inserted(e)
      BY <1>2, <2>1, <2>2, InsertStep
    <2>4. Structure'
      BY <1>2, <1>4, <2>2, <2>3, InsertFits
    <2>5. Len(delivery') <= MaxEvents * Len(Routes)
      <3>1. /\ (outbox \in Seq(OutboxQueue!Row))' /\ Len(outbox') <= MaxEvents
            /\ (delivery \in Seq(DeliveryQueue!Row))'
        BY <1>2, <2>3, QueueTypes DEF Inserted
      <3>2. (Structure /\ outbox \in Seq(OutboxQueue!Row) /\ Len(outbox) <= MaxEvents
              /\ delivery \in Seq(DeliveryQueue!Row) => Len(delivery) <= MaxEvents * Len(Routes))'
        BY DeliveriesBounded, PTL
      <3>. QED BY <2>4, <3>1, <3>2
    <2>6. DeliveryQueue!IndInv'
      <3>1. rows \in Seq(DeliveryQueue!Row) /\ \A k \in 1 .. Len(rows) : rows[k].status = "pending"
        <4>1. e \in Nat /\ outbox[e].stream \in Streams
          BY <1>2, QueueTypes DEF Events
        <4>2. RowsFor(e, rows)
          BY <2>1, <4>1, InsertedRows
        <4>. QED BY <4>2 DEF RowsFor
      <3>. USE OptionsAssumption, LimitsAssumption, WorkersAssumption, DeliveryOptions
      <3>. QED BY <1>4, <2>2, <2>5, <3>1, DeliveryQueue!RowsAppended DEF IndInv
    <2>7. InboxOK'
      BY <1>4 DEF IndInv, InboxOK
    <2>8. /\ \A i \in Deliveries : ConsumerAt(i)' = ConsumerAt(i) /\ EventAt(i)' = EventAt(i)
          /\ Deliveries' \subseteq 1 .. MaxEvents * Len(Routes)
      <3>1. Len(delivery') \in Nat
        BY <2>3 DEF Inserted
      <3>2. \A m, n \in Nat : m <= n => 1 .. m \subseteq 1 .. n
        OBVIOUS
      <3>. QED BY <2>3, <2>5, <3>1, <3>2, DeliveryOptions DEF Inserted, ConsumerAt, EventAt, Deliveries
    <2>9. HandedWasApplied'
      <3>. SUFFICES ASSUME NEW i \in Deliveries', delivered'[i] > 0
                    PROVE  EventAt(i)' \in Range(applied[ConsumerAt(i)'])
        BY <1>4 DEF HandedWasApplied
      <3>1. i \in Deliveries
        BY <1>4, <2>8 DEF IndInv, DeliveryQueue!IndInv, DeliveryQueue!HandedOK, DeliveryQueue!Entries,
           Deliveries
      <3>. QED BY <1>4, <2>8, <3>1 DEF IndInv, HandedWasApplied
    <2>10. InScope'
      <3>1. \A w \in DeliveryWorkers :
              /\ \A i \in worker[w].candidates : i \in Deliveries
              /\ \A y \in worker[w].batch : y.id \in Deliveries
        BY DEF IndInv, DeliveryQueue!IndInv, DeliveryQueue!PassesOK, Deliveries
      <3>. QED BY <1>4, <2>8, <3>1 DEF IndInv, InScope
    <2>11. IndInv'
      BY <1>2, <2>4, <2>6, <2>7, <2>9, <2>10 DEF IndInv, Structure
    <2>. QED BY <1>2, <1>4, <2>3, <2>11 DEF Inserted
  <1>. QED BY <1>5, <1>6

-----------------------------------------------------------------------------
(* The producers *)

LEMMA ProduceStep ==
  ASSUME IndInv, NEW s \in Streams, NEW type \in Types, Produce(s, type)
  PROVE  /\ IndInv' /\ Len(outbox') = Len(outbox) + 1
         /\ \A e \in Events : outbox'[e] = outbox[e] /\ types'[e] = types[e]
         /\ outbox'[Len(outbox) + 1].stream = s /\ types'[Len(outbox) + 1] = type
         /\ outbox'[Len(outbox) + 1].status = "pending"
         /\ UNCHANGED <<delivery, applied>>
  <1>1. PICK n : n = Len(outbox)
    OBVIOUS
  <1>2. /\ n \in Nat /\ outbox \in Seq(OutboxQueue!Row)
        /\ types \in Seq(Types) /\ Len(types) = n /\ Events = 1 .. n
    BY <1>1, QueueTypes DEF IndInv, EventsOK, Events
  <1>3. OutboxQueue!Produce(s)
    BY SameOutbox DEF Produce
  <1>4. OutboxQueue!IndInv'
    <2>. USE OptionsAssumption, LimitsAssumption, WorkersAssumption, OutboxOptions
    <2>1. OutboxQueue!Next
      BY <1>3 DEF OutboxQueue!Next
    <2>. QED BY <2>1, OutboxQueue!StepHolds DEF IndInv
  <1>5. /\ outbox' = Append(outbox, OutboxQueue!NewRow(s, n + 1)) /\ relayed' = relayed
        /\ types' = Append(types, type) /\ Len(outbox) < MaxEvents
    BY <1>1, <1>3 DEF OutboxQueue!Produce, OutboxQueue!Enqueue, Produce
  <1>6. UNCHANGED <<delivery, worker, delivered, deliveryAudit, inbox, applied>>
    BY DEF Produce, deliveryVars, consumerVars
  <1>7. /\ Len(outbox') = n + 1 /\ Events' = 1 .. n + 1
        /\ \A e \in Events : outbox'[e] = outbox[e] /\ types'[e] = types[e]
        /\ outbox'[n + 1] = OutboxQueue!NewRow(s, n + 1) /\ types'[n + 1] = type
        /\ types' \in Seq(Types) /\ Len(types') = n + 1
    BY <1>1, <1>2, <1>5 DEF Events
  <1>8. /\ outbox'[n + 1].stream = s /\ outbox'[n + 1].status = "pending" /\ outbox'[n + 1].event = n + 1
    BY <1>7 DEF OutboxQueue!NewRow
  <1>9. Events' = Events \cup {n + 1} /\ n + 1 \notin Events
    BY <1>2, <1>7
  <1>10. EventsOK'
    BY <1>7, <1>8, <1>9 DEF IndInv, EventsOK
  <1>11. Deliveries' = Deliveries /\ \A i \in Deliveries : ConsumerAt(i)' = ConsumerAt(i) /\ EventAt(i)' = EventAt(i)
    BY <1>6 DEF Deliveries, ConsumerAt, EventAt
  <1>12. ASSUME NEW i \in Deliveries PROVE DeliveryOK(i)'
    <2>1. DeliveryOK(i)
      BY DEF IndInv
    <2>. QED BY <1>5, <1>6, <1>7, <1>9, <1>11, <2>1 DEF DeliveryOK
  <1>13. OneEach'
    BY <1>11 DEF IndInv, OneEach
  <1>14. FannedOut'
    <2>1. relayed[n + 1] = 0
      <3>1. n + 1 \in 1 .. MaxEvents
        BY <1>1, <1>2, <1>5, LimitsAssumption
      <3>2. ~(relayed[n + 1] > 0)
        BY <1>1, <1>2, <3>1 DEF IndInv, OutboxQueue!IndInv, OutboxQueue!HandedOK, OutboxQueue!Entries
      <3>3. relayed[n + 1] \in Nat
        BY <3>1, QueueTypes
      <3>. QED BY <3>2, <3>3
    <2>2. \A c, e : HasDelivery(c, e)' <=> HasDelivery(c, e)
      BY <1>6 DEF HasDelivery
    <2>. QED BY <1>5, <1>7, <1>9, <2>1, <2>2 DEF IndInv, FannedOut
  <1>15. InOrder'
    <2>. SUFFICES ASSUME NEW i \in Deliveries, NEW j \in Deliveries, i < j,
                         delivery[i].stream = delivery[j].stream
                  PROVE  EventAt(i) < EventAt(j) \/ outbox'[EventAt(j)].status = "skipped"
      BY <1>6, <1>11 DEF InOrder
    <2>1. EventAt(j) \in Events
      BY DEF IndInv, DeliveryOK
    <2>. QED BY <1>7, <2>1 DEF IndInv, InOrder
  <1>16. DeliveryQueue!IndInv'
    BY <1>6, DeliveryStutters DEF IndInv, deliveryVars
  <1>17. InScope' /\ InboxOK' /\ HandedWasApplied'
    BY <1>6, ScopeStands, ConsumersStand
  <1>18. IndInv'
    BY <1>4, <1>10, <1>11, <1>12, <1>13, <1>14, <1>15, <1>16, <1>17 DEF IndInv
  <1>. QED BY <1>1, <1>6, <1>7, <1>8, <1>18

-----------------------------------------------------------------------------
(* Every step *)

(* What a step does, as far as the invariant is concerned: the listener's   *)
(* part of the state is not in it.                                          *)
LEMMA StepCases ==
  ASSUME [Next]_vars
  PROVE  \/ \E s \in Streams, type \in Types : Produce(s, type)
         \/ \E r \in Relays : \E x \in relay[r].batch : \E outcome \in Outbox!Outcomes :
              Publish(r, x, outcome)
         \/ \E w \in DeliveryWorkers : \E x \in worker[w].batch : \E outcome \in Delivery!Outcomes :
              Consume(w, x, outcome)
         \/ OnOutbox(OutboxQuiet)
         \/ OnDelivery(DeliveryQuiet)
         \/ UNCHANGED <<outboxVars, delivery, deliveryVars, types, consumerVars>>
  <1>1. CASE OutboxStep
    BY <1>1 DEF OutboxStep, OnOutbox, OutboxQuiet
  <1>2. CASE DeliveryStep
    BY <1>2 DEF DeliveryStep, Poll, OnDelivery, DeliveryQuiet, Delivery!StoreStep
  <1>3. CASE ListenerStep
    BY <1>3 DEF ListenerStep, PollNothing, OnListener
  <1>4. CASE UNCHANGED vars
    BY <1>4 DEF vars
  <1>. QED BY <1>1, <1>2, <1>3, <1>4 DEF Next

LEMMA QuietHolds ==
  ASSUME IndInv, UNCHANGED <<outboxVars, delivery, deliveryVars, types, consumerVars>>
  PROVE  IndInv'
  <1>1. UNCHANGED <<outbox, relayed, delivery, worker, delivered, types, inbox, applied>>
    BY DEF outboxVars, deliveryVars, consumerVars
  <1>2. OutboxQueue!IndInv' /\ DeliveryQueue!IndInv'
    BY OutboxStutters, DeliveryStutters DEF IndInv
  <1>3. RowsStand /\ delivery' \in Seq(DeliveryQueue!Row)
    BY <1>1, QueueTypes DEF RowsStand
  <1>4. Structure' /\ InScope' /\ InboxOK' /\ HandedWasApplied'
    BY <1>1, <1>3, StructureStands, ScopeStands, ConsumersStand DEF RowsStand
  <1>. QED BY <1>2, <1>4 DEF IndInv, Structure

LEMMA InitHolds == Init => IndInv
  <1>. SUFFICES ASSUME Init PROVE IndInv
    OBVIOUS
  <1>1. OutboxQueue!Init /\ DeliveryQueue!Init
    BY SameOutbox, SameDelivery DEF Init
  <1>2. OutboxQueue!IndInv
    BY <1>1, OutboxQueue!InitHolds, OptionsAssumption, LimitsAssumption, WorkersAssumption, OutboxOptions
  <1>3. DeliveryQueue!IndInv
    BY <1>1, DeliveryQueue!InitHolds, OptionsAssumption, LimitsAssumption, WorkersAssumption,
       DeliveryOptions
  <1>4. outbox = <<>> /\ delivery = <<>> /\ worker = [w \in DeliveryWorkers |-> DeliveryQueue!Idle]
    BY <1>1 DEF OutboxQueue!Init, DeliveryQueue!Init
  <1>5. Events = {} /\ Deliveries = {}
    BY <1>4 DEF Events, Deliveries
  <1>6. EventsOK
    BY <1>4, <1>5 DEF Init, EventsOK
  <1>7. InboxOK
    <2>1. inbox = {} /\ applied = [c \in Consumers |-> <<>>]
      BY DEF Init
    <2>2. Range(<<>>) = {}
      BY DEF Range
    <2>3. <<>> \in Seq(Nat)
      OBVIOUS
    <2>. QED BY <2>1, <2>2, <2>3 DEF InboxOK
  <1>8. InScope
    BY <1>4, <1>5 DEF InScope
  <1>. QED BY <1>2, <1>3, <1>5, <1>6, <1>7, <1>8 DEF IndInv, OneEach, FannedOut, InOrder, HandedWasApplied

(* The whole invariant: the structure of the two queues, the order of the   *)
(* deliveries, and the agreement of inboxes, effects and deliveries.        *)
THEOREM Invariance == Spec => []IndInv
  <1>1. IndInv /\ [Next]_vars => IndInv'
    BY StepCases, ProduceStep, PublishStep, ConsumeStep, OutboxStepHolds, DeliveryStepHolds, QuietHolds
  <1>. QED BY InitHolds, <1>1, PTL DEF Spec

(* A delivery is marked delivered only when the consumer's transaction      *)
(* committed, whatever passes, crashes and resolutions lie in between.      *)
THEOREM DeliveredMeansApplied == Spec => []DeliveredWasApplied
  <1>1. IndInv => DeliveredWasApplied
    <2>. SUFFICES ASSUME IndInv, NEW i \in Deliveries, delivery[i].status = "done"
                  PROVE  EventAt(i) \in Range(applied[ConsumerAt(i)])
      BY QueueTypes DEF DeliveredWasApplied, EventAt, ConsumerAt
    <2>1. delivered[i] > 0
      BY DEF IndInv, DeliveryQueue!IndInv, DeliveryQueue!PublishedWasHanded, Deliveries
    <2>. QED BY <2>1 DEF IndInv, HandedWasApplied
  <1>. QED BY <1>1, Invariance, PTL

-----------------------------------------------------------------------------
(* The refinement: FanOut's variables, as the pipeline computes them *)

Produced == [e \in DOMAIN outbox |-> [stream |-> outbox[e].stream, type |-> types[e]]]
SkippedEvents == {e \in DOMAIN outbox : outbox[e].status = "skipped"}
SkippedDeliveries == {j \in DOMAIN delivery : delivery[j].status = "skipped"}

LEMMA WaivedIs ==
  Waived = (Consumers \X SkippedEvents) \cup {<<ConsumerAt(i), EventAt(i)>> : i \in SkippedDeliveries}
  BY DEF Waived, SkippedEvents, SkippedDeliveries, ConsumerAt, EventAt

LEMMA ProducedIs ==
  ASSUME IndInv
  PROVE  /\ Produced \in Seq([stream : Streams, type : Types]) /\ Len(Produced) = Len(outbox)
         /\ DOMAIN Produced = Events
         /\ \A e \in Events : Produced[e].stream = outbox[e].stream /\ Produced[e].type = types[e]
  <1>1. /\ DOMAIN outbox = Events /\ Len(outbox) \in Nat /\ Events = 1 .. Len(outbox)
        /\ \A e \in Events : outbox[e].stream \in Streams
    BY QueueTypes DEF Events
  <1>2. \A e \in Events : types[e] \in Types
    BY <1>1 DEF IndInv, EventsOK
  <1>. QED BY <1>1, <1>2 DEF Produced

(* A step that changes no event, no effect and no skipped row. *)
LEMMA Stutters ==
  ASSUME Produced' = Produced, applied' = applied, Waived' = Waived
  PROVE  UNCHANGED Promise!vars
  BY DEF Promise!vars, Produced

LEMMA ProduceRefines ==
  ASSUME IndInv, NEW s \in Streams, NEW type \in Types, Produce(s, type)
  PROVE  Promise!Produce(s, type)
  <1>1. PICK n : n = Len(outbox)
    OBVIOUS
  <1>2. /\ IndInv' /\ Len(outbox') = n + 1
        /\ \A e \in Events : outbox'[e] = outbox[e] /\ types'[e] = types[e]
        /\ outbox'[n + 1].stream = s /\ types'[n + 1] = type
        /\ outbox'[n + 1].status = "pending"
        /\ UNCHANGED <<delivery, applied>>
    BY <1>1, ProduceStep
  <1>3. n \in Nat /\ Events = 1 .. n /\ Events' = 1 .. n + 1 /\ DOMAIN outbox = Events /\ DOMAIN outbox' = Events'
    <2>1. n \in Nat /\ Events = 1 .. n /\ DOMAIN outbox = Events
      BY <1>1, QueueTypes DEF Events
    <2>2. DOMAIN outbox' = Events'
      <3>1. (IndInv => DOMAIN outbox = Events)'
        BY QueueTypes, PTL
      <3>. QED BY <1>2, <3>1
    <2>. QED BY <1>2, <2>1, <2>2 DEF Events
  <1>4. Produced' = Append(Produced, [stream |-> s, type |-> type])
    <2>1. /\ Produced' = [e \in 1 .. n + 1 |-> [stream |-> outbox'[e].stream, type |-> types'[e]]]
          /\ Produced = [e \in 1 .. n |-> [stream |-> outbox[e].stream, type |-> types[e]]]
      BY <1>3 DEF Produced
    <2>2. Produced \in Seq([stream : Streams, type : Types]) /\ Len(Produced) = n
      BY <1>1, ProducedIs
    <2>. QED BY <1>2, <1>3, <2>1, <2>2
  <1>5. SkippedEvents' = SkippedEvents
    BY <1>2, <1>3 DEF SkippedEvents
  <1>6. Waived' = Waived
    BY <1>2, <1>5, WaivedIs DEF SkippedDeliveries, ConsumerAt, EventAt, Waived, SkippedEvents
  <1>. QED BY <1>2, <1>4, <1>6 DEF Promise!Produce, Produced

(* Skipping an outbox row waives the event for everybody; whatever else     *)
(* happens to the outbox is not seen.                                       *)
LEMMA OutboxRefines ==
  ASSUME IndInv, OnOutbox(OutboxQuiet)
  PROVE  \/ \E e \in 1 .. Len(Produced) : Promise!Waive(Consumers, e)
         \/ UNCHANGED Promise!vars
  <1>1. IndInv' /\ OutboxKept
    BY OutboxStepHolds
  <1>2. UNCHANGED <<delivery, types, applied>>
    BY DEF OnOutbox, consumerVars
  <1>3. Events' = Events /\ DOMAIN outbox = Events /\ DOMAIN outbox' = Events
    <2>1. (IndInv => DOMAIN outbox = Events)'
      BY QueueTypes, PTL
    <2>. QED BY <1>1, <2>1, QueueTypes DEF OutboxKept, Events
  <1>4. Produced' = Produced
    BY <1>1, <1>2, <1>3 DEF Produced, OutboxKept, Events
  <1>5. Waived' = (Consumers \X SkippedEvents') \cup {<<ConsumerAt(i), EventAt(i)>> : i \in SkippedDeliveries}
    BY <1>2 DEF Waived, SkippedEvents, SkippedDeliveries, ConsumerAt, EventAt
  <1>6. ASSUME NEW e \in Events, outbox[e].status # "skipped", outbox'[e].status = "skipped"
        PROVE  e \in 1 .. Len(Produced) /\ Promise!Waive(Consumers, e)
    <2>1. Outbox!Skip(e)
      BY <1>1, <1>6 DEF OutboxKept, Events
    <2>2. \A d \in Events : d # e => outbox'[d] = outbox[d]
      BY <1>3, <2>1 DEF Outbox!Skip, Outbox!ResolveDeadLetter
    <2>3. SkippedEvents' = SkippedEvents \cup {e}
      BY <1>3, <1>6, <2>2 DEF SkippedEvents
    <2>4. Waived' = Waived \cup (Consumers \X {e})
      BY <1>5, <2>3, WaivedIs
    <2>5. e \in 1 .. Len(Produced)
      BY ProducedIs DEF Events
    <2>. QED BY <1>2, <1>4, <2>4, <2>5 DEF Promise!Waive, Produced
  <1>7. CASE \A e \in Events : outbox'[e].status = "skipped" => outbox[e].status = "skipped"
    <2>1. SkippedEvents' = SkippedEvents
      BY <1>1, <1>3, <1>7 DEF SkippedEvents, OutboxKept, Events
    <2>2. Waived' = Waived
      BY <1>5, <2>1, WaivedIs
    <2>. QED BY <1>2, <1>4, <2>2, Stutters
  <1>. QED BY <1>6, <1>7

(* Skipping a delivery waives its event for its consumer. *)
LEMMA DeliveryRefines ==
  ASSUME IndInv, OnDelivery(DeliveryQuiet)
  PROVE  \/ \E e \in 1 .. Len(Produced) : \E c \in Consumers : Promise!Waive({c}, e)
         \/ UNCHANGED Promise!vars
  <1>1. IndInv' /\ DeliveryKept
    BY DeliveryStepHolds
  <1>2. UNCHANGED <<outbox, types, applied>>
    BY DEF OnDelivery, outboxVars, consumerVars
  <1>3. Deliveries' = Deliveries /\ DOMAIN delivery = Deliveries /\ DOMAIN delivery' = Deliveries
    <2>1. (IndInv => DOMAIN delivery = Deliveries)'
      BY QueueTypes, PTL
    <2>. QED BY <1>1, <2>1, QueueTypes DEF DeliveryKept, Deliveries
  <1>4. Produced' = Produced
    BY <1>2 DEF Produced
  <1>5. \A i \in Deliveries : ConsumerAt(i)' = ConsumerAt(i) /\ EventAt(i)' = EventAt(i)
    BY <1>1 DEF DeliveryKept, Deliveries, ConsumerAt, EventAt
  <1>6. Waived' = (Consumers \X SkippedEvents) \cup {<<ConsumerAt(i), EventAt(i)>> : i \in SkippedDeliveries'}
    <2>1. Waived' = (Consumers \X SkippedEvents) \cup {<<ConsumerAt(i)', EventAt(i)'>> : i \in SkippedDeliveries'}
      BY <1>2 DEF Waived, SkippedEvents, SkippedDeliveries, ConsumerAt, EventAt
    <2>2. SkippedDeliveries' \subseteq Deliveries
      BY <1>3 DEF SkippedDeliveries
    <2>. QED BY <1>5, <2>1, <2>2
  <1>7. ASSUME NEW i \in Deliveries, delivery[i].status # "skipped", delivery'[i].status = "skipped"
        PROVE  \E e \in 1 .. Len(Produced) : \E c \in Consumers : Promise!Waive({c}, e)
    <2>1. Delivery!Skip(i)
      BY <1>1, <1>7 DEF DeliveryKept, Deliveries
    <2>2. \A j \in Deliveries : j # i => delivery'[j] = delivery[j]
      BY <1>3, <2>1 DEF Delivery!Skip, Delivery!ResolveDeadLetter
    <2>3. SkippedDeliveries' = SkippedDeliveries \cup {i}
      BY <1>3, <1>7, <2>2 DEF SkippedDeliveries
    <2>4. PICK c, e : c = ConsumerAt(i) /\ e = EventAt(i)
      OBVIOUS
    <2>5. Waived' = Waived \cup ({c} \X {e})
      <3>1. {<<ConsumerAt(j), EventAt(j)>> : j \in SkippedDeliveries \cup {i}} =
              {<<ConsumerAt(j), EventAt(j)>> : j \in SkippedDeliveries} \cup {<<c, e>>}
        BY <2>4
      <3>2. {c} \X {e} = {<<c, e>>}
        OBVIOUS
      <3>. QED BY <1>6, <2>3, <3>1, <3>2, WaivedIs
    <2>6. c \in Consumers /\ e \in 1 .. Len(Produced)
      BY <2>4, ProducedIs DEF IndInv, DeliveryOK, Events
    <2>7. Promise!Waive({c}, e)
      BY <1>2, <1>4, <2>5, <2>6 DEF Promise!Waive, Produced
    <2>. QED BY <2>6, <2>7
  <1>8. CASE \A i \in Deliveries : delivery'[i].status = "skipped" => delivery[i].status = "skipped"
    <2>1. SkippedDeliveries' = SkippedDeliveries
      BY <1>1, <1>3, <1>8 DEF SkippedDeliveries, DeliveryKept, Deliveries
    <2>2. Waived' = Waived
      BY <1>6, <2>1, WaivedIs
    <2>. QED BY <1>2, <1>4, <2>2, Stutters
  <1>. QED BY <1>7, <1>8

(* A hand-over to the transport is not seen. *)
LEMMA PublishRefines ==
  ASSUME IndInv, NEW r \in Relays, NEW x \in relay[r].batch,
         NEW outcome \in Outbox!Outcomes, Publish(r, x, outcome)
  PROVE  UNCHANGED Promise!vars
  <1>1. /\ IndInv' /\ UNCHANGED <<outbox, types, applied>>
        /\ Len(delivery) <= Len(delivery')
        /\ \A i \in Deliveries : delivery'[i] = delivery[i]
        /\ \A i \in Deliveries' \ Deliveries : delivery'[i].status = "pending"
    BY PublishStep
  <1>2. Produced' = Produced
    BY <1>1 DEF Produced
  <1>3. DOMAIN delivery = Deliveries /\ DOMAIN delivery' = Deliveries' /\ Deliveries \subseteq Deliveries'
    <2>1. (IndInv => DOMAIN delivery = Deliveries /\ Len(delivery) \in Nat)'
      BY QueueTypes, PTL
    <2>. QED BY <1>1, <2>1, QueueTypes DEF Deliveries
  <1>4. SkippedDeliveries' = SkippedDeliveries
    BY <1>1, <1>3 DEF SkippedDeliveries
  <1>5. Waived' = Waived
    <2>1. Waived' = (Consumers \X SkippedEvents) \cup {<<ConsumerAt(i)', EventAt(i)'>> : i \in SkippedDeliveries'}
      BY <1>1 DEF Waived, SkippedEvents, SkippedDeliveries, ConsumerAt, EventAt
    <2>2. \A i \in SkippedDeliveries : ConsumerAt(i)' = ConsumerAt(i) /\ EventAt(i)' = EventAt(i)
      BY <1>1, <1>3 DEF SkippedDeliveries, ConsumerAt, EventAt
    <2>. QED BY <1>4, <2>1, <2>2, WaivedIs
  <1>. QED BY <1>1, <1>2, <1>5, Stutters

(* The consumer has applied every earlier event of the stream that it       *)
(* subscribes to and nobody waived, when a pass works on its delivery of e. *)
LEMMA PredecessorsApplied ==
  ASSUME IndInv, NEW i \in Deliveries, DeliveryQueue!IsHead(delivery, i),
         NEW d \in Events, d < EventAt(i), outbox[d].stream = outbox[EventAt(i)].stream,
         Subscribed(ConsumerAt(i), types[d]), <<ConsumerAt(i), d>> \notin Waived
  PROVE  d \in Range(applied[ConsumerAt(i)])
  <1>1. PICK c, e : c = ConsumerAt(i) /\ e = EventAt(i)
    OBVIOUS
  <1>2. /\ e \in Events /\ relayed[e] > 0 /\ delivery[i].stream = <<c, outbox[e].stream>>
        /\ c \in Consumers
    BY <1>1 DEF IndInv, DeliveryOK
  <1>3. OutboxQueue!IsHead(outbox, e)
    BY <1>2 DEF IndInv, OutboxQueue!IndInv, OutboxQueue!NoOvertake, OutboxQueue!Started, Events
  <1>4. outbox[d].status \in {"done", "skipped"}
    BY <1>1, <1>3 DEF OutboxQueue!IsHead, OutboxQueue!Finished, Events
  <1>5. outbox[d].status = "done"
    <2>1. outbox[d].status # "skipped"
      BY <1>1, <1>2, QueueTypes, WaivedIs DEF SkippedEvents
    <2>. QED BY <1>4, <2>1
  <1>6. relayed[d] > 0
    BY <1>5 DEF IndInv, OutboxQueue!IndInv, OutboxQueue!PublishedWasHanded, Events
  <1>7. HasDelivery(c, d)
    BY <1>1, <1>2, <1>6 DEF IndInv, FannedOut
  <1>8. PICK j \in Deliveries : EventAt(j) = d /\ ConsumerAt(j) = c
    BY <1>7, QueueTypes DEF HasDelivery, EventAt, ConsumerAt
  <1>9. delivery[j].stream = delivery[i].stream
    <2>1. delivery[j].stream = <<c, outbox[d].stream>>
      BY <1>8 DEF IndInv, DeliveryOK
    <2>. QED BY <1>1, <1>2, <2>1
  <1>10. j < i
    <2>1. i \in Nat /\ j \in Nat /\ d \in Nat /\ e \in Nat /\ d < e
      BY <1>1, <1>2 DEF Deliveries, Events
    <2>2. i < j => EventAt(i) < EventAt(j) \/ outbox[EventAt(j)].status = "skipped"
      BY <1>9 DEF IndInv, InOrder
    <2>3. i # j
      BY <1>1, <1>8, <2>1
    <2>4. ~(i < j)
      BY <1>1, <1>5, <1>8, <2>1, <2>2
    <2>. QED BY <2>1, <2>3, <2>4
  <1>11. delivery[j].status \in {"done", "skipped"}
    BY <1>9, <1>10 DEF DeliveryQueue!IsHead, DeliveryQueue!Finished, Deliveries
  <1>12. delivery[j].status = "done"
    <2>1. delivery[j].status = "skipped" => <<c, d>> \in Waived
      BY <1>8, QueueTypes, WaivedIs DEF SkippedDeliveries
    <2>. QED BY <1>1, <1>11, <2>1
  <1>13. delivered[j] > 0
    BY <1>12 DEF IndInv, DeliveryQueue!IndInv, DeliveryQueue!PublishedWasHanded, Deliveries
  <1>. QED BY <1>1, <1>8, <1>13 DEF IndInv, HandedWasApplied

(* The consumer's transaction is the promise's application of the event, or *)
(* is not seen: the event was recorded, or the transaction failed.          *)
LEMMA ConsumeRefines ==
  ASSUME IndInv, NEW w \in DeliveryWorkers, NEW x \in worker[w].batch,
         NEW outcome \in Delivery!Outcomes, Consume(w, x, outcome)
  PROVE  \/ \E e \in 1 .. Len(Produced) : \E c \in Consumers : Promise!Apply(c, e)
         \/ UNCHANGED Promise!vars
  <1>1. PICK i, c, e : i = x.id /\ c = ConsumerAt(i) /\ e = EventAt(i)
    OBVIOUS
  <1>2. /\ delivery' = delivery /\ UNCHANGED <<outbox, types>>
        /\ i \in Deliveries /\ DeliveryQueue!IsHead(delivery, i)
        /\ Consumed(c, e, outcome # "failed" /\ <<c, e>> \notin inbox)
    BY <1>1, ConsumeStep
  <1>3. Produced' = Produced /\ Waived' = Waived
    BY <1>2 DEF Produced, Waived
  <1>4. CASE ~(outcome # "failed" /\ <<c, e>> \notin inbox)
    <2>1. applied' = applied
      BY <1>2, <1>4 DEF Consumed
    <2>. QED BY <1>3, <2>1, Stutters
  <1>5. CASE outcome # "failed" /\ <<c, e>> \notin inbox
    <2>1. applied' = [applied EXCEPT ![c] = Append(@, e)]
      BY <1>2, <1>5 DEF Consumed
    <2>2. c \in Consumers /\ e \in Events /\ Subscribed(c, types[e])
      BY <1>1, <1>2 DEF IndInv, DeliveryOK
    <2>3. e \in Nat /\ e \in 1 .. Len(Produced) /\ Events = 1 .. Len(Produced)
      BY <2>2, ProducedIs, QueueTypes DEF Events
    <2>4. e \notin Range(applied[c])
      BY <1>5, <2>2, <2>3 DEF IndInv, InboxOK
    <2>5. ASSUME NEW d \in 1 .. e - 1, Produced[d].stream = Produced[e].stream,
                 Subscribed(c, Produced[d].type), <<c, d>> \notin Waived
          PROVE  d \in Range(applied[c])
      <3>1. d \in Events /\ d < e
        BY <2>3
      <3>2. outbox[d].stream = outbox[e].stream /\ Subscribed(c, types[d])
        BY <2>2, <2>5, <3>1, ProducedIs
      <3>. QED BY <1>1, <1>2, <2>5, <3>1, <3>2, PredecessorsApplied
    <2>6. Subscribed(c, Produced[e].type)
      BY <2>2, ProducedIs
    <2>7. Promise!Predecessors(c, e) \subseteq Range(applied[c])
      BY <2>5 DEF Promise!Predecessors, Produced
    <2>8. Promise!Apply(c, e)
      <3>1. Promise!Applied(c) = Range(applied[c])
        BY DEF Promise!Applied, Promise!Range, Range
      <3>. QED BY <1>3, <2>1, <2>3, <2>4, <2>6, <2>7, <3>1 DEF Promise!Apply, Produced
    <2>. QED BY <2>2, <2>3, <2>8
  <1>. QED BY <1>4, <1>5

(* The pipeline keeps its promise, whatever is repeated, lost, late or      *)
(* resolved on the way: every consumer applies an event at most once, and   *)
(* the events of a stream in the order in which they were produced, save    *)
(* those an operator skipped.                                               *)
THEOREM PipelineKeepsPromise == Spec => KeepsPromise
  <1>1. Init => Promise!Init
    <2>. SUFFICES ASSUME Init PROVE Promise!Init
      OBVIOUS
    <2>1. outbox = <<>> /\ delivery = <<>> /\ applied = [c \in Consumers |-> <<>>]
      BY DEF Init, Outbox!Init, Delivery!Init
    <2>2. Produced = <<>>
      BY <2>1 DEF Produced
    <2>3. Waived = {}
      BY <2>1 DEF Waived
    <2>. QED BY <2>1, <2>2, <2>3 DEF Promise!Init, Produced
  <1>2. IndInv /\ [Next]_vars => [Promise!Next]_Promise!vars
    <2>. SUFFICES ASSUME IndInv, [Next]_vars PROVE Promise!Next \/ UNCHANGED Promise!vars
      OBVIOUS
    <2>1. ASSUME NEW s \in Streams, NEW type \in Types, Produce(s, type) PROVE Promise!Next
      BY <2>1, ProduceRefines DEF Promise!Next
    <2>2. CASE OnOutbox(OutboxQuiet)
      <3>1. Consumers \in SUBSET Consumers
        OBVIOUS
      <3>. QED BY <2>2, <3>1, OutboxRefines DEF Promise!Next, Produced
    <2>3. CASE OnDelivery(DeliveryQuiet)
      <3>1. \A c \in Consumers : {c} \in SUBSET Consumers
        OBVIOUS
      <3>. QED BY <2>3, <3>1, DeliveryRefines DEF Promise!Next, Produced
    <2>4. ASSUME NEW w \in DeliveryWorkers, NEW x \in worker[w].batch,
                 NEW outcome \in Delivery!Outcomes, Consume(w, x, outcome)
          PROVE  Promise!Next \/ UNCHANGED Promise!vars
      BY <2>4, ConsumeRefines DEF Promise!Next, Produced
    <2>5. CASE UNCHANGED <<outboxVars, delivery, deliveryVars, types, consumerVars>>
      BY <2>5, Stutters DEF outboxVars, consumerVars, Produced, Waived
    <2>. QED BY <2>1, <2>2, <2>3, <2>4, <2>5, StepCases, PublishRefines
  <1>. QED BY <1>1, <1>2, Invariance, PTL DEF Spec, KeepsPromise, Promise!Spec

=============================================================================

--------------------------- MODULE EventPipeline ----------------------------
(***************************************************************************)
(* The path of an event from a producer's transaction to the effects of    *)
(* its consumers: the outbox and its relays, the transport that copies an  *)
(* event into the delivery queue of every subscribed consumer, the         *)
(* delivery workers and the listener some of them sleep on, and each       *)
(* consumer's inbox.  Both queues are worked by the same dispatcher; what  *)
(* differs is the publisher it hands over to.                              *)
(***************************************************************************)
EXTENDS Naturals, Sequences, SequencesExt, Functions

CONSTANTS Streams, Types,
          Consumers,
          Routes,                \* PostgresEventPublisher's routes, in order
          Relays,                \* the outbox dispatchers' loops
          DeliveryWorkers,       \* the delivery workers' loops
          ConsumerOf,            \* the consumer each delivery worker serves
          Sleepers,              \* those that wait on the listener when idle
          NoWorker, MaxAttempts, BatchSize,
          MaxEvents,             \* bound: events produced
          MaxResolutions         \* bound: resolutions of dead letters, of all

(* validatedRoutes: each consumer is routed once, to at least one type. *)
ASSUME RoutesAssumption ==
  /\ Routes \in Seq([consumer : Consumers, eventTypes : (SUBSET Types) \ {{}}])
  /\ \A i, j \in DOMAIN Routes : Routes[i].consumer = Routes[j].consumer => i = j
ASSUME ConsumerOfAssumption ==
  ConsumerOf \in [DeliveryWorkers -> Consumers] /\ Sleepers \subseteq DeliveryWorkers
ASSUME WorkersAssumption == NoWorker \notin Relays \cup DeliveryWorkers
ASSUME OptionsAssumption == MaxAttempts \in Nat \ {0} /\ BatchSize \in Nat \ {0}
ASSUME LimitsAssumption == MaxEvents \in Nat /\ MaxResolutions \in Nat

VARIABLES outbox, relay, relayed, outboxAudit,
          delivery, worker, delivered, deliveryAudit,
          session, notices, rest,
          types,     \* the type of each event, by entry_id of its outbox row
          inbox,     \* inbox_record: <<consumer, event>>
          applied    \* the effects of each consumer's handler, in order

outboxVars    == <<outbox, relay, relayed, outboxAudit>>
deliveryVars  == <<worker, delivered, deliveryAudit>>
listenerVars  == <<session, notices, rest>>
consumerVars  == <<inbox, applied>>
vars == <<outboxVars, delivery, deliveryVars, listenerVars, types, consumerVars>>

(* The relays' dispatcher: all streams of outbox_event. *)
Outbox == INSTANCE Dispatcher
  WITH queue <- outbox, run <- relay, handed <- relayed, audit <- outboxAudit,
       Workers <- Relays, Runs <- Relays, WorkerOf <- [r \in Relays |-> r],
       ScopeOf <- [r \in Relays |-> Streams],
       MaxEntries <- MaxEvents

(* The delivery workers' dispatcher: a stream of event_delivery belongs to  *)
(* one consumer, and a worker is confined to its consumer's streams.        *)
Delivery == INSTANCE Dispatcher
  WITH queue <- delivery, run <- worker, handed <- delivered, audit <- deliveryAudit,
       Streams <- Consumers \X Streams,
       Workers <- DeliveryWorkers, Runs <- DeliveryWorkers,
       WorkerOf <- [w \in DeliveryWorkers |-> w],
       ScopeOf <- [w \in DeliveryWorkers |-> {ConsumerOf[w]} \X Streams],
       MaxEntries <- MaxEvents * Len(Routes)

Listener == INSTANCE DeliveryListener WITH ServedBy <- ConsumerOf

Init ==
  /\ Outbox!Init /\ Delivery!Init /\ Listener!Init
  /\ types = <<>>
  /\ inbox = {}
  /\ applied = [c \in Consumers |-> <<>>]

-----------------------------------------------------------------------------
(* The transport *)

(* The consumers subscribed to a type. *)
Subscribed(c, type) ==
  \E i \in DOMAIN Routes : Routes[i].consumer = c /\ type \in Routes[i].eventTypes
ConsumersFor(type) == {c \in Consumers : Subscribed(c, type)}

HasDelivery(c, e) ==
  \E i \in DOMAIN delivery : delivery[i].event = e /\ delivery[i].stream[1] = c

(* The INSERT of publish: one row per subscribed consumer, ON CONFLICT      *)
(* (consumer, tenant, event) DO NOTHING.  The rows are of different         *)
(* streams, so the order in which they are numbered matters to nobody.      *)
NewDeliveries(e) ==
  LET missing == SetToSeq({c \in ConsumersFor(types[e]) : ~HasDelivery(c, e)})
  IN  [i \in DOMAIN missing |-> Delivery!NewRow(<<missing[i], outbox[e].stream>>, e)]

(* A relay's hand-over is PostgresEventPublisher.publish. *)
Publish(r, x, outcome) ==
  /\ Outbox!HandOver(r, x, outcome)
  /\ delivery' = IF outcome = "failed" THEN delivery
                 ELSE delivery \o NewDeliveries(outbox[x.id].event)
  /\ Listener!Notify(IF outcome = "failed" THEN {}
                     ELSE {row.stream[1] : row \in Range(NewDeliveries(outbox[x.id].event))})
  /\ UNCHANGED <<deliveryVars, types, consumerVars>>

-----------------------------------------------------------------------------
(* The consumers *)

(* Mutation: the inbox record is committed before the handler runs. *)
ConsumeRecordsFirst(w, x, outcome) ==
  LET event  == delivery[x.id].event
      record == <<ConsumerOf[w], event>>
  IN  /\ Delivery!HandOver(w, x, outcome)
      /\ inbox' = inbox \cup {record}
      /\ applied' = IF outcome # "failed" /\ record \notin inbox
                    THEN [applied EXCEPT ![ConsumerOf[w]] = Append(@, event)]
                    ELSE applied
      /\ UNCHANGED <<outboxVars, delivery, listenerVars, types>>

(* Mutation: the handler runs whether or not the event was recorded. *)
ConsumeIgnoresInbox(w, x, outcome) ==
  LET event == delivery[x.id].event
  IN  /\ Delivery!HandOver(w, x, outcome)
      /\ inbox' = IF outcome = "failed" THEN inbox ELSE inbox \cup {<<ConsumerOf[w], event>>}
      /\ applied' = IF outcome # "failed"
                    THEN [applied EXCEPT ![ConsumerOf[w]] = Append(@, event)]
                    ELSE applied
      /\ UNCHANGED <<outboxVars, delivery, listenerVars, types>>

(* A delivery worker's hand-over is the consumer's transaction: record the  *)
(* event in the inbox and run the handler, or find it recorded already.     *)
Consume(w, x, outcome) ==
  LET event  == delivery[x.id].event
      record == <<ConsumerOf[w], event>>
      fresh  == record \notin inbox
  IN  /\ Delivery!HandOver(w, x, outcome)
      /\ inbox' = IF outcome = "failed" THEN inbox ELSE inbox \cup {record}
      /\ applied' = IF outcome # "failed" /\ fresh
                    THEN [applied EXCEPT ![ConsumerOf[w]] = Append(@, event)]
                    ELSE applied
      /\ UNCHANGED <<outboxVars, delivery, listenerVars, types>>

-----------------------------------------------------------------------------

Produce(stream, type) ==
  /\ Outbox!Produce(stream)
  /\ types' = Append(types, type)
  /\ UNCHANGED <<delivery, deliveryVars, listenerVars, consumerVars>>

Resolutions(audits) == FoldFunction(+, 0, audits)
MayResolve == Resolutions(outboxAudit) + Resolutions(deliveryAudit) < MaxResolutions

OnOutbox(step) == step /\ UNCHANGED <<delivery, deliveryVars, listenerVars, types, consumerVars>>
OnDelivery(step) == step /\ UNCHANGED <<outboxVars, listenerVars, types, consumerVars>>
OnListener(step) == step /\ UNCHANGED <<outboxVars, delivery, deliveryVars, types, consumerVars>>

(* Steps of the relays, of the clock and of the operators on outbox_event.  *)
OutboxStep ==
  \/ \E r \in Relays : OnOutbox(Outbox!StoreStep(r))
  \/ \E e \in Outbox!Entries :
       \/ OnOutbox(Outbox!TimePasses(e))
       \/ MayResolve /\ OnOutbox(Outbox!Requeue(e) \/ Outbox!Skip(e))

(* A delivery worker's pass begins; a worker that sleeps begins none. *)
Poll(w) == Listener!IsAwake(w) /\ OnDelivery(Delivery!Snapshot(w))

(* The pass that finds nothing sends a sleeper to rest. *)
PollNothing(w) ==
  /\ worker[w].pc = "idle"
  /\ Delivery!Candidates(delivery, {ConsumerOf[w]} \X Streams) = {}
  /\ OnListener(Listener!FindsNothing(w))

(* The same on event_delivery. *)
DeliveryStep ==
  \/ \E w \in DeliveryWorkers :
       \/ Poll(w)
       \/ OnDelivery(Delivery!StoreStep(w)) /\ worker[w].pc # "idle"
  \/ \E i \in Delivery!Entries :
       \/ OnDelivery(Delivery!TimePasses(i))
       \/ MayResolve /\ OnDelivery(Delivery!Requeue(i) \/ Delivery!Skip(i))

(* What the workers that sleep, and the process they are in, do about it. *)
ListenerStep ==
  \/ \E w \in Sleepers :
       \/ PollNothing(w)
       \/ \E started \in Listener!Sessions : OnListener(Listener!WaitFor(w, started))
       \/ OnListener(Listener!TimeOut(w))
  \/ \E c \in Consumers : OnListener(Listener!Notified(c))

Next ==
  \/ \E stream \in Streams, type \in Types : Produce(stream, type)
  \/ \E r \in Relays : \E x \in relay[r].batch : \E outcome \in Outbox!Outcomes :
       Publish(r, x, outcome)
  \/ \E w \in DeliveryWorkers : \E x \in worker[w].batch :
       \E outcome \in Delivery!Outcomes : Consume(w, x, outcome)
  \/ OutboxStep
  \/ DeliveryStep
  \/ ListenerStep

Spec == Init /\ [][Next]_vars

-----------------------------------------------------------------------------
(* Safety *)

(* A delivery is marked delivered only for an event whose effects are in    *)
(* the consumer's own tables, in the transaction of its inbox record.       *)
DeliveredWasApplied ==
  \A i \in DOMAIN delivery : delivery[i].status = "done" =>
    delivery[i].event \in Range(applied[delivery[i].stream[1]])

(* The pairs an operator gave up, in the outbox or in one delivery queue. *)
Waived ==
  (Consumers \X {e \in DOMAIN outbox : outbox[e].status = "skipped"})
  \cup {<<delivery[i].stream[1], delivery[i].event>> :
          i \in {j \in DOMAIN delivery : delivery[j].status = "skipped"}}

Promise == INSTANCE FanOut
  WITH produced <- [e \in DOMAIN outbox |->
                      [stream |-> outbox[e].stream, type |-> types[e]]],
       waived <- Waived, Subscribes <- Subscribed

(* The pipeline implements the promise: effects at most once and in stream  *)
(* order for each consumer, whatever is repeated, lost, late or resolved.   *)
KeepsPromise == Promise!Spec

-----------------------------------------------------------------------------
(* Liveness: both dispatchers with the fairness of Dispatcher *)

Fairness ==
  /\ \A r \in Relays :
       /\ WF_vars(OnOutbox(Outbox!Snapshot(r)))
       /\ SF_vars(OnOutbox(Outbox!LeaseBatch(r, {})))
       /\ WF_vars(\E x \in relay[r].batch : \E o \in Outbox!Outcomes : Publish(r, x, o))
       /\ WF_vars(OnOutbox(\E x \in relay[r].batch : Outbox!Conclude(r, x)))
  /\ \A w \in DeliveryWorkers :
       /\ WF_vars(Poll(w))
       /\ SF_vars(OnDelivery(Delivery!LeaseBatch(w, {})))
       /\ WF_vars(\E x \in worker[w].batch : \E o \in Delivery!Outcomes : Consume(w, x, o))
       /\ WF_vars(OnDelivery(\E x \in worker[w].batch : Delivery!Conclude(w, x)))
  /\ \A w \in Sleepers :
       /\ WF_vars(PollNothing(w))
       /\ WF_vars(\E started \in Listener!Sessions : OnListener(Listener!WaitFor(w, started)))
       /\ WF_vars(OnListener(Listener!TimeOut(w)))
  /\ \A e \in Outbox!Entries : WF_vars(OnOutbox(Outbox!TimePasses(e)))
  /\ \A i \in Delivery!Entries : WF_vars(OnDelivery(Delivery!TimePasses(i)))

FairSpec == Spec /\ Fairness

(* What may keep event e from consumer c for good: an operator's decision   *)
(* not taken yet, or taken against it; never another consumer's trouble.    *)
HeldFrom(c, e) ==
  \/ Outbox!Blocked(e)
  \/ <<c, e>> \in Waived
  \/ \E i \in DOMAIN delivery :
       delivery[i].stream[1] = c /\ delivery[i].event = e /\ Delivery!Blocked(i)

(* Every produced event is applied by every consumer that subscribes to it, *)
(* unless a dead letter in the outbox or in that consumer's own queue holds *)
(* it back: one consumer's dead letter never blocks another consumer.       *)
EveryEventReaches ==
  <>Outbox!Calm /\ <>Delivery!Calm =>
    \A e \in 1 .. MaxEvents, c \in Consumers :
      (e <= Len(types) /\ Subscribed(c, types[e]))
        ~> (e <= Len(types) /\ (e \in Range(applied[c]) \/ HeldFrom(c, e)))

=============================================================================

\* Two relays, one consumer with two workers, two events of one stream, one dead letter resolved
\* in either queue.
SPECIFICATION Spec
CONSTANTS
  c1 = c1 c2 = c2 t1 = t1 t2 = t2 w1 = w1 w2 = w2
  Streams = {s1}
  Types = {t1}
  Consumers = {c1}
  Routes <- OneRoute
  Relays = {r1, r2}
  DeliveryWorkers = {w1, w2}
  ConsumerOf <- AllServeOne
  Sleepers = {}
  NoWorker = NoWorker
  MaxAttempts = 1
  BatchSize = 1
  MaxEvents = 2
  MaxResolutions = 1
SYMMETRY Symmetry
INVARIANT DeliveredWasApplied
PROPERTIES KeepsPromise

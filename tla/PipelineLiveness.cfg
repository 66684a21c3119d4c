\* One relay, two consumers with one worker each, one event of either type.
SPECIFICATION FairSpec
CONSTANTS
  c1 = c1 c2 = c2 t1 = t1 t2 = t2 w1 = w1 w2 = w2
  Streams = {s1}
  Types = {t1, t2}
  Consumers = {c1, c2}
  Routes <- TwoRoutes
  Relays = {r1}
  DeliveryWorkers = {w1, w2}
  ConsumerOf <- OneEach
  Sleepers = {w1}
  NoWorker = NoWorker
  MaxAttempts = 1
  BatchSize = 1
  MaxEvents = 1
  MaxResolutions = 0
PROPERTIES EveryEventReaches

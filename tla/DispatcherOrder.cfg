\* Two workers, two streams, three events, one attempt before dead-lettering.
SPECIFICATION Spec
CONSTANTS
  Workers = {w1, w2}
  Runs = {w1, w2}
  NoWorker = NoWorker
  Streams = {s1, s2}
  WorkerOf <- MCWorkerOf
  ScopeOf <- MCScopeOf
  MaxAttempts = 1
  BatchSize = 2
  MaxEntries = 3
  MaxResolutions = 1
SYMMETRY Symmetry
INVARIANTS TypeOK NoOvertake HeldLeaseIsLatest PublishedWasHanded

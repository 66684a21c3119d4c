\* Two workers, one stream of two events, two attempts before dead-lettering.
SPECIFICATION FairSpec
CONSTANTS
  Workers = {w1, w2}
  Runs = {w1, w2}
  NoWorker = NoWorker
  Streams = {s1}
  WorkerOf <- MCWorkerOf
  ScopeOf <- MCScopeOf
  MaxAttempts = 2
  BatchSize = 2
  MaxEntries = 2
  MaxResolutions = 1
INVARIANTS HandOverBudget
PROPERTIES SettledIsStable EveryEntrySettles

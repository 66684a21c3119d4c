\* Four attempts, two keys, a lifecycle with a race.
SPECIFICATION Spec
CONSTANTS
  Attempts = {a1, a2, a3, a4}
  NoAttempt = NoAttempt
  None = None
  Keys = {k1, k2}
  Commands <- Lifecycle
  MaxExpiries = 1
\* The attempts are finitely many: when all are answered nothing is left to do.
CHECK_DEADLOCK FALSE
SYMMETRY Symmetry
INVARIANTS CommitsTogether AuditIsOneHistory NoGridlock
PROPERTIES RetryIsNotRefused EntryIdsFollowCommits

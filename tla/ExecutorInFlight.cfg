\* Two attempts of one request under one key.
SPECIFICATION FairSpec
CONSTANTS
  Attempts = {a1, a2}
  NoAttempt = NoAttempt
  RecordKeys = {k1}
  Payloads = {p1}
  Responses = {x1}
  None = None
  MaxExpiries = 0
PROPERTY DuplicateIsToldToWait
\* The attempts are finitely many: when all are answered nothing is left to do.
CHECK_DEADLOCK FALSE

\* Four attempts on one key, two payloads, two responses, two expiries.
SPECIFICATION Spec
CONSTANTS
  Attempts = {a1, a2, a3, a4}
  NoAttempt = NoAttempt
  RecordKeys = {k1}
  Payloads = {p1, p2}
  Responses = {x1, x2}
  None = None
  MaxExpiries = 2
SYMMETRY Symmetry
\* The attempts are finitely many: when all are answered nothing is left to do.
CHECK_DEADLOCK FALSE
INVARIANTS TypeOK ClaimIsExclusive OneEffectPerKey ReplayIsAnOriginal

\* Three commands on one request, two policies, two makers; p may lose a role.
SPECIFICATION Spec
CONSTANTS
  Attempts = {a1, a2, a3}
  NoAttempt = NoAttempt
  p = p
  q = q
  bot = bot
  Actors = {bot, p, q}
  Makers = {bot, q}
  Humans = {p, q}
  Policies <- BothPolicies
  Targets = {t}
  ScopesOf <- Scopes
  InitialRoles <- Assigned
  ChangingRoles <- Changing
  MaxRoleChanges = 1
  GrantPool = 1
  ApprovalPool = 2
SYMMETRY Symmetry
INVARIANTS StatusFollowsDecisions AcknowledgedStands EventsTellVersions NamedApproverDecides NoGridlock
\* The attempts are finitely many: when all are answered nothing is left to do.
CHECK_DEADLOCK FALSE

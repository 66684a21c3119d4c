\* Two requests with any of five credentials; the clock moves once, past the expiry of most
\* credentials and past the tolerance for the old one.
SPECIFICATION Spec
CONSTANTS
  Requests = {r1, r2}
  A = A B = B
  user = user operator = operator mixed = mixed worker = worker old = old
  Credentials = {user, operator, mixed, worker, old}
  Claims <- MCClaims
  Policy <- MCPolicy
  Audience <- MCAudience
  PlatformAudience = "platform"
  RequiredScopes = {"purge"}
  Tenants = {A, B}
  NoTenant = NoTenant
  Arrivals <- MCArrivals
  MaxTime = 1
  MaxStateChanges = 2
  MaxRevocations = 1
  MaxNesting = 1
SYMMETRY Symmetry
INVARIANTS AdmittedWhileAllowed ActsForItsCredential EntryPointsApart FactPerAttempt
\* Requests, ticks and changes are finitely many.
CHECK_DEADLOCK FALSE

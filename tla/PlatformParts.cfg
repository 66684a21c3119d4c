\* Audit: two calls of two tenants.  Cache: four addresses, two entries.  Migrations: three runs.
\* Roles: three commands of three actors on two roles.  Money: every calculation of MCPlatformParts,
\* under limits of three digits and two decimals.
SPECIFICATION Spec
CONSTANTS
  A = A B = B
  c1 = c1 c2 = c2
  Calls = {c1, c2}
  Tenants = {A, B}
  NoTenant = NoTenant
  Payloads <- MCPayloads
  NoSnapshot = NoSnapshot
  ForbiddenFields = {"api_key"}
  PolicyFields <- MCPolicyFields
  Values <- MCValues
  MaxScanDepth = 1
  MaxLimit = 1
  Limits = {0, 1, 2}
  MaxTime = 1
  Characters = {"a", "b", "n", "t", "u", ":"}
  Addresses <- MCAddresses
  MaxEntries = 2
  MaxSegment = 3
  DefaultTtl = 2
  NoTtl = NoTtl
  Ttls = {0, 1}
  CacheValues = {1, 2}
  Uncloneable = Uncloneable
  LatestTime = 2
  Runs = {r1, r2, r3}
  Nobody = Nobody
  Releases <- MCReleases
  Attempts = {r1, r2, r3}
  NoAttempt = NoAttempt
  Actors = {root, x, w}
  Roles = {admin, old}
  Administrator = admin
  FirstAdministrator = root
  ActiveRoles = {admin}
  AssigningRoles = {admin, old}
  Workloads = {w}
  MaxPrecision = 3
  MaxScale = 2
  Questions <- Calculations
  FirstQuestion <- MCFirstQuestion
SYMMETRY Symmetry
INVARIANTS
  EvidenceWithEffect ReadsAreEvidenced CacheTellsTheTruth SchemaIsItsRecord
  RoleTypeOK AdministratorRemains LogTellsAssignments LogJustifiesChanges
  RoundsOnce AllocatesFairly ProratesConsistently
\* Calls, runs, commands, calculations and ticks are finitely many.
CHECK_DEADLOCK FALSE

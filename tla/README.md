# A verification project for Sintius

Sintius is a multi-tenant platform foundation in TypeScript over PostgreSQL. This
directory holds TLA+ modules that model its core, TLC configurations that check
them on small instances, and TLAPS proofs that hold for every instance.
`PROJECT.json` lists the runs, maps definitions to source lines, and names the
hazards the properties are aimed at.

## 1. Inventory

| Part | State | Operations | Talks to |
|---|---|---|---|
| Outbox (`platform/outbox`: `append.ts`, `dispatcher.ts`, `store.ts`) | `outbox_event`: status, attempts, next_attempt_at, leased_by, lease_expires_at; a pass's batch in memory | append, leaseBatch, markPublished, recordFailure | producers' transactions, transport |
| Dead letters (`operations.ts`, `store.ts`) | status `dead`/`skipped`, audit event | requeue, skip | operators, audit |
| Transport and deliveries (`transport.ts`, `delivery.ts`) | `event_delivery`, one stream per consumer; routes; listeners | publish, worker passes, wake-ups | outbox relays, consumers |
| Inbox (`inbox.ts`, `store.ts`) | `inbox_record` and the consumer's own tables | consume | delivery workers |
| Idempotency (`platform/idempotency`) | `idempotency_record`: status, hash, response, expires_at | claim, work, complete | every command |
| Foundation proof (`modules/foundation-proof`) | `foundation_proof_record` | record a proof | idempotency, audit, outbox |
| Tenants (`modules/identity-tenant`: `tenant.ts`, `tenant-commands.ts`) | `tenant` row with row_version | provision, activate, suspend, reactivate, close | idempotency, audit, outbox |
| Roles (`authorization.ts`, `persona-matrix.ts`, `security-persistence.ts`) | roles with limits, assignments; the persona matrix | assign, revoke; check a permission with constraints and limits | every tenant command |
| Approvals (`modules/audit-governance`) | `approval_request`, decisions | propose, approve, reject, cancel | roles, policies, audit |
| Trusted contexts, cache (`platform/tenant-context`) | principals and contexts issued, the active context of each request (AsyncLocalStorage); LRU/TTL map | resolve a tenant, job or platform context, activate, nest; get, set, delete | everything |
| Authentication (`authentication.ts`, `jwt-verifier.ts`, `credential-status.ts`) | `credential_revocation`, authentication facts | three entry points: user, workload, platform operator | HTTP API, job scheduler |
| Money (`platform/money`) | none | decimal arithmetic, rounding, allocation, proration | domain code |
| Audit (`platform/audit`) | `audit_event` (append only), field policy | record, query (itself recorded) | every command |
| Event envelopes (`platform/event-envelope`) | none | derive a scope, check data, build | producers |
| Migrations (`tools/database/migrate-postgres.mjs`) | `schema_migration`, an advisory lock | run the files of a release | the database |
| Ids, problems, observability | none | format | everything |
| HTTP API (`apps/api`) | the principal and context of each request | authenticate, select a tenant, route to commands | authentication, contexts, commands |
| Other tools (`tools/*`) | none | build-time linters | nothing at run time |

What is hard here: several relays and workers lease from one table with `SKIP
LOCKED` on snapshots; leases expire under workers that go on; a crash may fall
between any two statements; commits may succeed without the caller learning it;
clients retry; commands read without locks and write with compare-and-set; sequence
values are drawn before the commit that shows them; notifications are missed between a
poll and the wait that follows; clocks are read twice and set back in between; releases
are deployed side by side.

What makes the parts correct: per-aggregate order and no lost event (outbox); at
most one effect per event and consumer (transport and inbox); exactly one effect per
idempotency key (executor); one history per tenant, committed with its audit and
outbox rows (tenants); never without an administrator (roles); every decision by an
approver who was authorised, none of them lost or overwritten (approvals); no request
acts for anyone, or in any tenant, but its credential allows (ingress); no effect and no
read without its evidence (audit); answers that agree with a reference (cache); a schema
that is what its record says (migrations); rounding once and parts that add up (money).

## 2. Modules

| Module | Models | Uses |
|---|---|---|
| `QueueStore` | the statements of `PostgresOutboxStore` and the dead-letter SQL on one row or one table | |
| `Dispatcher` | `runOnce` of any number of loops over one queue, producers, operators, time | `QueueStore` |
| `DispatcherProofs` | proofs about `Dispatcher` | `Dispatcher` |
| `FanOut` | abstract: what outbox, transport and inbox promise together | |
| `DeliveryListener` | the LISTEN session, its waiters and their timers | |
| `EventPipeline` | relays, transport, delivery workers, inbox, composed of two instances of `Dispatcher` and the listener | `Dispatcher`, `DeliveryListener`, `FanOut` |
| `PipelineProofs` | proofs about `EventPipeline`; its refinement of `FanOut` | `EventPipeline`, `DispatcherProofs` for both queues |
| `IdempotentExecutor` | the executor over its store; by itself, the foundation-proof command | |
| `ExecutorProofs` | proofs about `IdempotentExecutor` | `IdempotentExecutor` |
| `TenantCommands` | the tenant lifecycle inside an instance of the executor | `IdempotentExecutor` |
| `TenantProofs` | proofs about `TenantCommands`; its refinement of the executor | `TenantCommands`, `ExecutorProofs` |
| `RoleAdministration`, `RoleProofs` | `assignRole` and `revokeRole`; proofs | |
| `Authorization` | permissions, constraints, role limits, persona matrix, default policy, as operators | |
| `Approvals`, `ApprovalProofs` | propose, decide, cancel on one approval request; proofs | `Authorization` |
| `AuditTrail` | tenant commands and audit reads: context, bound transaction, evidence, envelope | |
| `TenantCache` | the tenant-scoped cache over the in-memory store, with a reference | |
| `Migrations` | runs of the migration script | |
| `PlatformProofs` | proofs about the three modules above and `Money` | `AuditTrail`, `TenantCache`, `Migrations`, `Money` |
| `Ingress`, `IngressProofs` | authentication, tenant selection, contexts; proofs | |
| `Money` | decimals, allocation, proration as operators | |
| `MC*` | constants and symmetry sets for TLC | the module of the same name; `MCPlatformParts`: audit trail, cache, migrations, roles, money |

Everywhere an action is one statement, one awaited call or one in-memory step between
two of them, because that is where Node.js and PostgreSQL interleave; in `Money` a
step is one calculation. The definitions that follow a comment `Mutation:` are faulty
variants of the definition after them. They are used by no specification; the
`mutants` of `PROJECT.json` put each in the place of the original to show that the
property they are listed under would notice.

**Queue and dispatcher.** `queue` is the table (`status`, `attempts`, `leasedBy`, and
`ready`: `next_attempt_at` or `lease_expires_at` is past); time appears only
as the moment a stored timestamp passes (`TimePasses`). `run[r]` is the pass loop `r`
is in. `leaseBatch` is two steps: `Snapshot` evaluates the whole `WHERE` clause on the
statement's snapshot, `LeaseBatch` locks rows some of which others may hold
(`SKIP LOCKED`), re-checks a changed row's own condition as PostgreSQL does and
updates. Then come `GiveUp` (attempts exhausted), `HandOver` with the three outcomes a
publisher can have (took effect; failed; took effect and failed to say so), and the
mark or the failure record. `Crash` forgets a pass between any two steps.

**Pipeline.** `Publish` is the hand-over of an outbox relay: one insert for all
subscribed consumers, ignoring the ones that exist. `Consume` is the hand-over of a
delivery worker: the consumer's transaction with the inbox record and the handler's
effects, one step because nothing else reads or writes either table between. `Waived`
maps an operator's skip to the abstract `FanOut`. A worker of `Sleepers` goes through
`PollNothing` and `WaitFor` after an empty pass and begins no other before it is woken
(`Notified`, for those that wait at that moment only) or its timer runs out (`TimeOut`).
`WaitFor` with a failed session is the memoised rejection of `start()`.

**Executor.** `record` and `keyLock` are the row of a key and the transaction that has
written it; `ClaimInsert`, `ClaimReplace` and `ClaimExisting` are the three statements
of `claim`, and each waits while another transaction holds the row. `sawExpired` is
the comparison with the `now` read before the transaction began. `Expire` lets a
record's time pass.

**Tenants.** `FindTenant` (no lock), `WriteTenant` (compare-and-set on `row_version`,
waiting for a concurrent writer), `AppendEvent` (audit and outbox rows, the sequence
value drawn here), `WorkReturns`, `CompleteClaim`, `Commit`. `Refuse` is the domain's
refusal or a lost compare-and-set, `Fail` any exception or lost connection.
`reactivateTenant` differs from `activateTenant` in its scope only.

**Roles.** `Authorize` in its own read transaction, `FindRole` with `FOR UPDATE`,
`GuardLastAdministrator`, `ChangeAssignment`, `Commit`. The lock of the assignment row
is never contended, since every writer holds the role's lock.

**Approvals.** `Authorize`, `OpenTransaction`, `Load` (no lock), one `AskRequirement`
for each required permission, at instants of their own, `Judge` (`decideApproval` or
`cancelApproval`), `Update` (compare-and-set under the append-only trigger of
migration 008), `Commit`. Connections of the two pools are counted. What a permission
check finds is `Authorization!IsPermitted` on the roles assigned at that moment: the
templates of the persona matrix, with the Billing Administrator's limits.

**Ingress.** `Verify`, `CheckRevocation` (and with it the rest of the entry point),
`ReadTenantState`, `ResolveTenantContext`, `Enter`, `Nest`, `Leave`, `EnterPlatform`;
`Tick`, `Revoke` and `TenantChanges` are the surroundings. A job takes the way of a
tenant request. A request without a usable bearer header is refused before the
authenticator is asked, leaves no fact and does not appear. The mechanism that
`validateBaseClaims` compares is the one the JWT verifier copied from the policy, so the
comparison decides nothing. What a credential claims does not depend on the provider it
is verified with: none of the repository's policies sets `tenantClaim` or
`platformRoleClaim`. The sink of facts works: what it throws is swallowed by `record`.

**Audit trail.** A call is a tenant command (`BeginCommand`, `OpenTransaction`,
`WriteRow`, `Record`, `AppendEnvelope`) or an audit query (`BeginRead`,
`OpenTransaction`, `ReadPage`, `Record`), then `CommitCall`, whose answer may be lost, or
`FailCall`. What it writes is staged until then. `bound` is the tenant the adapter bound
the transaction to, perhaps not the one it was asked for; `ReadPage` may be given another
tenant's events. A payload is the depth of its objects and values and whether it names a
tenant; a field's value is whether it is scalar and sensitive. `ClockMoves` in both
directions.

**Cache.** `entries` is the Map in insertion order; every operation is one step, since
none awaits anything. A key is the sequence of its characters, joined part by part,
because whether two addresses can meet in one key is the question; of what
`encodeURIComponent` escapes only ":" is told apart, and the prefix that all keys share is
left out. An address that `tenantScopedKey` refuses is no address of the cache. `written`
and `used` are the reference and are read by nothing else. The clock does not go back.

**Migrations.** `record` is `schema_migration`, `effects` the executions that committed,
each with the names recorded before it; a run goes through its release file by file.
A lost session releases the advisory lock and rolls its transaction back.

## 3. Runs

Every passing run explores its whole state space in less than five minutes with two
TLC workers.

| Run | Instance | Shows |
|---|---|---|
| `DispatcherOrder` | 2 workers, 2 streams, 3 events, 1 attempt, 1 resolution | `NoOvertake`, `HeldLeaseIsLatest`, `PublishedWasHanded` under stale snapshots, skipped locks, crashes, overrun leases and operators |
| `DispatcherLiveness` | 2 workers, 1 stream, 2 events, 2 attempts, 1 resolution | `HandOverBudget`, `SettledIsStable`, and under fairness `EveryEntrySettles` |
| `DispatcherSkip` | as above, 1 attempt | a violation: see section 6 |
| `Pipeline` | 2 relays, 2 workers of one consumer, 2 events, 1 resolution in either queue | `DeliveredWasApplied`; `KeepsPromise`: the pipeline implements `FanOut` |
| `PipelineLiveness` | 2 consumers with different routes, a worker each, one of which sleeps, 1 event of either type | under fairness `EveryEventReaches` |
| `Executor` | 4 attempts, 1 key, 2 payloads, 2 expiries | `ClaimIsExclusive`, `OneEffectPerKey`, `ReplayIsAnOriginal` |
| `ExecutorInFlight` | 2 attempts of one request | a violation: see section 6 |
| `TenantCommands` | 4 attempts, 2 keys, 1 expiry, the lifecycle with two commands for one version | `CommitsTogether`, `AuditIsOneHistory`, `EntryIdsFollowCommits`, `RetryIsNotRefused`, `NoGridlock` |
| `Approvals` | 3 commands, 3 actors with persona roles, 2 policies, 1 role change, pools of 2 and 1 connections | `StatusFollowsDecisions`, `AcknowledgedStands`, `EventsTellVersions`, `NamedApproverDecides`, `NoGridlock` |
| `Ingress` | 2 requests, 5 credentials, 3 providers of one issuer, 2 tenants, 1 revocation, 2 changes of state | `AdmittedWhileAllowed`, `ActsForItsCredential`, `EntryPointsApart`, `FactPerAttempt` |
| `IngressSharedIssuer` | the same | a violation: see section 6 |
| `PlatformParts`, audit | 2 calls of 2 tenants | `EvidenceWithEffect`, `ReadsAreEvidenced` |
| `PlatformParts`, cache | 3 addresses and a refused one in a cache of 2 | `CacheTellsTheTruth` |
| `PlatformParts`, migrations | 3 runs of 4 releases | `SchemaIsItsRecord` |
| `PlatformParts`, roles | 3 commands, 3 actors, 2 roles | `AdministratorRemains`, `LogTellsAssignments`, `LogJustifiesChanges` |
| `PlatformParts`, money | every rounding, allocation and proration over the operands of `MCPlatformParts` | `RoundsOnce`, `AllocatesFairly`, `ProratesConsistently`, each against a definition that does not follow the algorithm |

Dispatcher, executor and roles also check their type invariant. `PlatformParts` explores
five parts that share no state, one at a time: the variable `part` of `MCPlatformParts`
chooses.

Why the bounds are enough:

- *Dispatcher.* A worker that holds an old batch while another one leases, fails and
  dead-letters, and an operator resolves, is the longest chain of causes the
  properties depend on: two workers and one resolution have it. Overtaking takes two
  events of a stream; the second stream shows that streams do not disturb each other.
  One attempt makes the first failure a dead letter; two attempts (`DispatcherLiveness`)
  add retry with backoff and exhaustion by crashes. The order and the fencing are
  proved for all bounds.
- *Pipeline.* Repetition in the outbox, in the deliveries and by a resolution of either
  are together in one run; `MaxResolutions` counts those of both queues, and what a
  second one in the same queue could do is covered by the dispatcher's proofs. The
  liveness run has one worker that sleeps and one that polls, and no resolution.
- *Executor, tenants.* A race, a retry of each side, and a new life of the record after
  its expiry need four attempts.
- *Roles, approvals.* Two commands race; a third comes after the first commit while
  the second still relies on what it read. In `Approvals` one person may stand for both
  sides of the default policy and may lose Finance; the other has Finance up to a limit.
- *Ingress.* Requests meet only in the contexts they pass on, so two suffice. The
  token `old` is past its expiry and within the tolerance, then past both; `mixed` is
  addressed to users' and operators' audiences and has memberships and platform roles;
  `worker` is addressed to users' and workers'. All three providers have one issuer, so
  that nothing but audiences and claims tells the entry points apart.
- *Audit trail.* Calls meet in the clock and in the trail only; a page of one event of
  a trail with one is the smallest that can be foreign. Payloads lie at both sides of the
  depth limit, which is 1 instead of 16. Proved for all bounds.
- *Cache.* Three addresses in two places: one more than fit, two of which differ only in
  where ":" stands and two only in the tenant; and one that would have the key of another
  if its namespace were not refused. Proved for all bounds.
- *Migrations.* Three runs: two that meet and one after them. Releases add a higher or a
  lower name, change a file, or use a name twice. Proved for all bounds.
- *Money.* Three digits and two decimals stand for the precision and scale limits;
  operands lie around ties, signs, zero weights and the limits, and an output scale may
  be beyond the limit. Here the bound is a sample of the inputs; the theorems of section
  5 are about all of them.

`CHECK_DEADLOCK FALSE` stands where attempts are finitely many and the system may
simply be finished; the two `NoGridlock` invariants say what deadlock freedom means
there. `NoCircle`: as long as a command is under way, some command under way does not
wait for a lock or a connection. And `Waits` is all there is to wait for: a command can
take its next statement (`ENABLED`) exactly when it does not wait.
Since each statement moves its command forward and commands have no loops, every
command ends, without any assumption of fairness between commands.

Symmetry sets are used in runs without liveness properties only.

## 4. Fairness

`Dispatcher!Fairness`, and the same for both queues in `EventPipeline`:

- weak fairness of a loop's next pass, of the publisher's answer and of writing the
  outcome down: a loop runs as long as the process does, its caller starts another one
  after a crash, and an awaited call returns or throws;
- strong fairness of leasing with no row locked by others: row locks last for one
  statement, so a loop that keeps trying meets a moment without them, though not a
  lasting one;
- weak fairness of each stored timestamp passing: clocks advance;
- weak fairness of an idle loop's way to sleep, of `start()` answering and of the timer
  `waitFor` sets: timers fire. None of notifications, which may come as late as they
  like.

`IdempotentExecutor!FairSpec`: weak fairness of a claim's next statement, of the work
returning, of completing the claim and of the commit: PostgreSQL answers every statement
that does not wait, and awaited work returns or throws. None of rollbacks, new requests
and expiry.

A crash, a producer or an operator owes nothing. `<>Calm` is a premise of the two
liveness properties and not part of the specification: from some point on no pass
crashes and no lease expires under a pass that holds it. Without it a worker may
crash in every pass just before it writes down what it found, and nothing is settled.

## 5. Proofs

TLAPS proves, for every value of the constants:

| Module | Theorem | States |
|---|---|---|
| `DispatcherProofs` | `TypeCorrect`, `Ordered`, `NothingLost`, `LeasesFenced`, `SettledForGood`, `AttemptsBounded` | `[]TypeOK`, `[]NoOvertake`, `[]PublishedWasHanded`, `[]HeldLeaseIsLatest`, `SettledIsStable`, `[]HandOverBudget` |
| `PipelineProofs` | `DeliveredMeansApplied`, `PipelineKeepsPromise` | `[]DeliveredWasApplied`, `KeepsPromise` (the pipeline implements `FanOut`) |
| `ExecutorProofs` | `TypeCorrect`, `Exclusive`, `ExactlyOnce`, `FaithfulReplay` | `[]TypeOK`, `[]ClaimIsExclusive`, `[]OneEffectPerKey`, `[]ReplayIsAnOriginal` |
| `TenantProofs` | `ImplementsExecutor`, `OneHistory`, `AllOrNothing`, `EntriesInCommitOrder`, `RetriesAreAnswered`, `NobodyWaitsInACircle` | `Executor!Spec`, `[]AuditIsOneHistory`, `[]CommitsTogether`, `EntryIdsFollowCommits`, `RetryIsNotRefused`, `[]NoCircle` |
| `RoleProofs` | `TypeCorrect`, `NeverLockedOut`, `LogIsTrue`, `ChangesJustified` | `[]RoleTypeOK`, `[]AdministratorRemains`, `[]LogTellsAssignments`, `[]LogJustifiesChanges` |
| `ApprovalProofs` | `StatusIsEarned`, `NoLostDecision`, `EventsAreTheHistory`, `OnlyNamedApproversDecide`, `NobodyWaitsInACircle` | `[]StatusFollowsDecisions`, `[]AcknowledgedStands`, `[]EventsTellVersions`, `[]NamedApproverDecides`, `[]NoCircle` |
| `IngressProofs` | `AdmittedOnlyWhileAllowed`, `ActsOnlyForItsCredential`, `EntryPointsStayApart`, `OneFactPerAttempt` | `[]AdmittedWhileAllowed`, `[]ActsForItsCredential`, `[]EntryPointsApart`, `[]FactPerAttempt` |
| `PlatformProofs` | `NoEffectWithoutEvidence`, `NoSilentRead`, `MigrationsOnce` | `[]EvidenceWithEffect`, `[]ReadsAreEvidenced`, `[]SchemaIsItsRecord` |
| `PlatformProofs` | `KeysDistinct`, `CacheIsTruthful` | no two addresses have one key; `[]CacheTellsTheTruth` |
| `PlatformProofs` | `RoundingIsExact`, `AllocationIsFair`, `ProrationIsConsistent` | `[]RoundsOnce`, `[]AllocatesFairly`, `[]ProratesConsistently` |

*Dispatcher.* `NoOvertake` (a row that has been started is the head of its stream or
everything before it is finished) is not inductive: a pass leases on a snapshot that
other passes have outdated. `IndInv` adds that a snapshot's candidates still are heads.
That survives every step because rows are appended at the end with larger ids and a
finished row never changes (`HeadStable`, `NextEvolves`): a head stays a head, so the
stale snapshot may name too few rows and never a wrong one. `PublishedWasHanded` needs,
in addition, that a pass about to mark a row has handed it over. `LeasesFenced` assumes
`DistinctWorkers`, that no two loops run under one worker id: with a shared id the
condition `leased_by = $worker` cannot tell an old lease from a new one.
`HandOverBudget` says nothing of passes that have not handed over yet and so is not
inductive. `BudgetInv` counts them: the hand-overs of an event, plus the passes that may
still hand it over under leases however old, are at most `MaxAttempts` for each
resolution plus the attempts the row has counted since. A lease adds a holder and an
attempt, a hand-over turns a holder into a hand-over, a crash only loses one.

*Pipeline.* The two queues are instances of `Dispatcher`, so `DispatcherProofs` is
instantiated for each, and `IndInv` has its invariant twice. What is added connects the
queues. What was handed over by a relay has all its deliveries, each once (`FannedOut`,
`OneEach`): work on an event starts only after its predecessors are published or
skipped, so the deliveries of a consumer's stream are queued in the order of events,
except those of an event that was skipped and handed over by a late pass all the same
(`InOrder`; the exception is the finding of section 6). What a worker handed over has
been applied (`HandedWasApplied`), and the inbox is the set of what was applied
(`InboxOK`). `PipelineKeepsPromise` then takes the steps in turn: `Produce`, `Consume`
and a skip are the steps of `FanOut`, all others leave what it sees unchanged. When
`Consume` applies an event, every earlier one of its stream that the consumer subscribes
to has a delivery queued before, which is finished: applied or waived.

*Executor.* `IndInv` says that an attempt at work holds its key over a record that is
absent or expired, and that a live record repeats the latest effect. From this follow
that a second attempt cannot be at work, that the number of effects is at most the
number of expiries plus one, and that what is replayed was committed for the same
request.

*Tenants.* `ImplementsExecutor` maps every step to one of the executor, so the executor's
invariant is the first conjunct of this one. `WorkOK` adds what a lifecycle command
knows: what it read without a lock is the tenant or an earlier version of it; once its
compare-and-set has succeeded it holds the row and what it read is the tenant; the
sequence value it drew under that lock is larger than all that are visible. From this
the audit is one chain (`AuditIsOneHistory`), outbox rows become visible in order
(`EntryIdsFollowCommits`), and row, audit, outbox and idempotency record count the same
commits. `RetryIsNotRefused` is the executor's exclusion again: who is at work has found
no live record. `NoCircle` needs `LocksHeld`: who holds an idempotency key has claimed
it and waits for the tenant row at most; who holds the row has done its update and waits
for nothing.

*Roles.* `IndInv` says that a command past `findByCode` holds the role's lock, and that
what the guard counted and the write found is still so: with the lock, no other command
can take away the holder it relies on. `LogTellsAssignments` is inductive with
`ChecksStand`; `LogJustifiesChanges` needs that a command let in was justified by the
log as it was at that moment (`AdmittedJustly`), which later events cannot undo.

*Approvals.* `CommandOK` has the same shape: what was loaded without a lock is the
request or an earlier version, what is about to be written was allowed on what was read,
and after the compare-and-set both are current. `Sound` says of a request what
`StatusFollowsDecisions` does, and that with requirements every approval takes one place
of one of them, so that their number reaches `required` exactly when each requirement
has its count.
`Entitled` carries what the permission checks found from one await to the next.
`NoCircle` goes by exhaustion: who holds the row has only to commit (`RowHeld`); if
nobody does, who has a connection of the grant store waits for nothing; if nobody has
one, who is in a transaction can get one; and if nobody is, there is a connection for
the next transaction. It would fail if permissions were read through the pool the
transactions use.

*Ingress.* `Remembered` says that how things stood when the request came can still be
seen (a revocation stays, the clock only advances, `ACTIVE` is noticed); `Checked` that
what each check found still holds, since it is about claims and the request's own
record. `Activated` is the argument for contexts of other requests: one may be nested
only if it has the identity of the innermost, hence of the first, hence of the request.
`EntryPointsApart` rests on `FactsOK`: whoever was accepted at an entry point was
recognised by its policy and had what it asks for. `EntriesOverlap` compares two entry
points: the operators' wants no membership and the others want one, whatever the issuers
are; a user's and a worker's can only overlap as the property says. The proof assumes
nothing of issuers and audiences.

*Audit trail.* `CallsOK` says what a call has staged at each of its steps, so that COMMIT
publishes a row, its evidence and its envelope of one scope, or a read's evidence with
its answer. `TrailOK` says that only a call that is over has evidence in the trail, which
makes every scope appear once. That a snapshot is safe is a lemma about the policy
(`SnapshotIsSafe`), for any policy `createAuditPolicy` accepts.

*Migrations.* `SchemaIsItsRecord` rests on the advisory lock: who works holds it
(`Locked`), so a name that the SELECT did not find is still absent at the INSERT
(`Absent`) and the primary key refuses nobody. `Progress` says that what a run has behind
it is recorded as it read it, which gives the order (all lower names are behind) and,
with nothing left, the completeness of a finished run.

*Cache.* `KeysDistinct` reads a key from its end: neither an encoded segment nor a
namespace has a ":", so the last one stands before the last segment (`LastColon`), and
what is in front of it is the key up to the part before (`PrefixTellsAddress`). Both this
and the recursion of `Joined` are inductions over the number of parts, written as a set
of numbers that has 0 and every successor (`SetInduction`). `CacheInv` says that the Map
has an entry per key at most, that each is what was last set at its address, and that
they stand in the order in which their addresses were last used (`InOrderOfUse`). With
distinct keys an operation at one address leaves the entries of all others alone. When a
set makes the Map too long by one, the owners of the `MaxEntries` entries behind the
first were all used after the first's (`FirstIsLeastUsed`): that is the excuse the
property asks for, and neither time nor the use of others takes an excuse back
(`StillExcused`).

*Money.* There is one calculation, so the invariant only says that the answer is
`Result(question)` and the work is in the operators. `RoundsOnce`: for a fraction and a
mode exactly one integer satisfies `IsRounded`, and `RoundedQuotient` gives it, first for
naturals, then by magnitude for all signs (`RoundedOnce`); a common factor of dividend
and divisor changes nothing (`RoundedScaled`), so the scales at which the operations
divide do not matter. That the value is unique is what makes the refusals exact.
`ProratesConsistently`: multiplying by days and dividing at the amount's scale rounds
amount times used days over period days (`ProrateGives`), and three values each less
than one unit off, of which the exact ones add up to the amount, are at most two units
off together; in the two modes that round to the nearest each is half a unit off at most
(`RoundedIsNear`), and together they are one. `AllocatesFairly`: the remainders add up to `leftover` times the sum of the
weights and each is smaller than that sum, so fewer units are left over than shares have
a remainder (`LeftoverFits`). Keys differ, hence the sort is a strict order and every
rank from 0 is taken once (`RanksCount`): exactly `leftover` shares get a unit more, all
of them with a remainder (`PartIs`). Exchanging two shares exchanges remainders and keys
and with them the ranks (`PartSwapped`); since exchanges generate all orders, the order
in which shares are named does not matter. Sums and powers of ten are recursive
functions; their equations are solved by `SetInduction`, and what is needed of sums
(scaled, added, compared, with one number replaced, counting a set) follows from `SumIs`:
whatever satisfies the equation is the sum. The provers do not multiply unknowns well, so
the proofs name each product and cite `Commutes`, `Distribute`, `Orders`.

Each inductive invariant was checked by TLC on the instances above before it was proved.

Assumptions, all evaluated by TLC on its instances: at least one attempt, batches of at
least one row, the placeholders `NoWorker` and `NoAttempt` differ from real ids, bounds
are numbers, the actors of a tenant are finitely many, the administrator role is one of
the roles and the first administrator one of the actors, releases are sets of files.
Beyond such types:

- `EventPipeline`: a consumer is routed once and to at least one event type
  (`validatedRoutes` throws otherwise); relays and workers have worker ids of their own.
- `TenantCommands`: provisioning expects version 0 and nothing else does.
- `Approvals`: policies satisfy what `proposeApproval` checks; workloads have scopes of
  the catalog.
- `AuditTrail`: the policy lists no forbidden name (`createAuditPolicy` throws at
  start-up otherwise).
- `TenantCache`: an address consists of sequences of characters, and the escape of ":" is
  none of these; the cache has room for an entry (the constructor throws otherwise).
- `Money`: decimals and the total are within the limits, as every `Decimal` and `Money`
  is; keys of shares can be compared; the mode is one of the four (`assertMode`); output
  scales are any naturals.
- `Ingress`: a job names its tenant; an operator's route asks for a platform permission.

Only model-checked:

- `EveryEntrySettles` and `EveryEventReaches`: liveness under fairness is out of the
  prover's reach;
- the second half of the two `NoGridlock`, that a command which does not wait can take
  its next statement: a statement about `ENABLED`. The first half is `NoCircle`.

## 6. Findings

`DispatcherSkip`: a test of the repository says that skipping a dead letter "never
republishes it". TLC finds otherwise: a worker that stalls between leasing and
publishing still has the event in memory; its lease expires, another worker dead-letters
the event, an operator skips it, and the first worker publishes it. Consumers behind the
PostgreSQL transport are protected from a repetition by their inbox, not from an event
somebody decided to leave out, nor from seeing it after its successors. `KeepsPromise`
allows both for a waived event: it only says that nobody waits for it.

`ExecutorInFlight`: the API documents (`SUB-0013_API_Event_Contracts.md`,
`13-api-specification.md`) promise a concurrent duplicate in flight
`409 request_in_progress` with `Retry-After`. The claim's `INSERT ... ON CONFLICT DO
NOTHING` runs in the command's transaction and waits until the first attempt's ends;
TLC shows a duplicate that waited and was replayed. It cannot be otherwise with this
store: the record and its completion commit together, so no committed record is
`processing` and the executor's branch for it is not reached. `ports.ts` asks for the
wait, so code and port agree and the documents do not; the repetition itself is safe
(`ClaimIsExclusive`, `ReplayIsAnOriginal`), but a client of slow work waits without an
answer, for the store has no bounded window either.

`IngressSharedIssuer`: the authenticator's comment says that "a credential accepted by
one is never accepted by another" entry point. If the users' and the workers' providers
have one issuer, which nothing in the policy port or the schema rules out, a token
addressed to both audiences that names one tenant and has the worker's scopes is
accepted at both: `jwt-verifier.ts` reports the policy's mechanism as the credential's,
so the check of the mechanism cannot tell a worker's token from a user's. What does hold
is `EntryPointsApart`, proved for all providers: operators are apart from both, and the
overlap is confined to such tokens and to the one tenant they name.

## 7. Not modelled

- The loop around `runOnce` and `waitFor`, and `close()` at shutdown: the repository has
  no worker process yet; the models take the loop its comments describe.
- `expireApproval` has no caller; the sweeper is announced for Phase 1 in
  `docs/implementation/phase-0-backlog.md`. Proposing is one step: the id is fresh.
  Approval requests share only the pools. Credit goes to the first requirement in the
  policy's order, so the order of approvers can matter; the model has that.
- `RoleAdministration` takes the outcome of a permission check as a set of roles
  (`AssigningRoles`), since no limit is attached to `tenant:role:assign`. `limitFrom`
  parses stored limits; those of the templates are well-formed.
- The hash of an audit event, filters and cursors of an audit query, names of actions
  and reasons; the patterns of
  an envelope's names.
- The refusal of a missing or malformed `Authorization` header (`bearerCredential`), and
  the checks `issueAuthenticatedPrincipal` repeats on claims the entry point has checked.
- The public `resolveDeadLetter` of `PostgresOutboxStore`, which writes no audit event:
  only tests call it. Operators' resolutions go through `operations.ts`, which does.
- Problems, telemetry, UUIDv7, parsing and printing: stateless conversions without
  ordering. Signatures and keys: a library. Routes' schemas and limits.
- Linters and generators under `tools/`: not part of the running system.

## 8. Plan

Order so far: queue and dispatcher, pipeline, executor, tenants, roles, approvals,
money, ingress; then authorization, listener, audit trail, cache, migrations; then the
proofs, of all safety properties but the half that section 5 names. Next:

1. A worker process, once the repository has one: its loop, shutdown and `close()`.

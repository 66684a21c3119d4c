--------------------------- MODULE TenantCommands ---------------------------
(***************************************************************************)
(* The tenant lifecycle commands of modules/identity-tenant: provision,    *)
(* activate, suspend, reactivate and close one tenant, each run by the     *)
(* idempotent executor as one transaction that also appends the audit      *)
(* event and the outbox event.  The commands read the tenant without a     *)
(* lock and write it with compare-and-set on row_version; entry_id comes   *)
(* from a sequence when the outbox row is inserted, before the commit that *)
(* makes the row visible.                                                  *)
(***************************************************************************)
EXTENDS Naturals, Sequences, FiniteSets

CONSTANTS Attempts, NoAttempt, None, MaxExpiries,
          Keys,        \* Idempotency-Key values
          Commands     \* what may be asked for: see Command

States == {"NONE", "PROVISIONING", "ACTIVE", "SUSPENDED", "CLOSED"}
NoTenant == [state |-> "NONE", version |-> 0]

(* `transitions`; provisioning leads from no row to the first. *)
Transitions ==
  [NONE         |-> {"PROVISIONING"},
   PROVISIONING |-> {"ACTIVE"},
   ACTIVE       |-> {"SUSPENDED", "CLOSED"},
   SUSPENDED    |-> {"ACTIVE", "CLOSED"},
   CLOSED       |-> {}]

(* The command scopes with their target states. *)
Target == [provision |-> "PROVISIONING", activate |-> "ACTIVE", suspend |-> "SUSPENDED",
           reactivate |-> "ACTIVE", close |-> "CLOSED"]

(* The payload is the expected version; provisioning expects no row. *)
Command == [scope : DOMAIN Target, expected : Nat]

ASSUME CommandsAssumption ==
  \A c \in Commands : c \in Command /\ (c.scope = "provision" <=> c.expected = 0)

ASSUME AttemptsAssumption == NoAttempt \notin Attempts
ASSUME ExpiriesAssumption == MaxExpiries \in Nat

RecordKeys == {c.scope : c \in Commands} \X Keys

VARIABLES record, keyLock, attempt, effects, expiries,   \* the executor's
          tenant,      \* the tenant row, committed
          audit,       \* audit_event, in commit order
          outbox,      \* outbox_event, committed
          nextEntry,   \* the sequence behind entry_id
          rowLock,     \* the open transaction that wrote the tenant row
          work         \* how far the work of each attempt's command got

Executor == INSTANCE IdempotentExecutor
  WITH Payloads <- {c.expected : c \in Commands},
       Responses <- [state : States, version : Nat]

executorVars == <<record, keyLock, attempt, effects, expiries>>
vars == <<executorVars, tenant, audit, outbox, nextEntry, rowLock, work>>

(* at: the next statement; read: the tenant the decision was based on;      *)
(* entry: the entry_id of the outbox row.                                   *)
NotStarted == [at |-> "find", read |-> NoTenant, entry |-> 0]

Init ==
  /\ Executor!Init
  /\ tenant = NoTenant
  /\ audit = <<>>
  /\ outbox = {}
  /\ nextEntry = 1
  /\ rowLock = NoAttempt
  /\ work = [a \in Attempts |-> NotStarted]

-----------------------------------------------------------------------------
(* The aggregate *)

(* transitionTenant refuses a stale version, then an illegal transition. *)
Allowed(current, scope, expected) ==
  current.version = expected /\ Target[scope] \in Transitions[current.state]

(* The snapshot transitionTenant and provisionTenant return. *)
Changed(current, scope) == [state |-> Target[scope], version |-> current.version + 1]

Scope(a) == attempt[a].key[1]
AfterWork(a) == Changed(work[a].read, Scope(a))
AtWork(a, statement) == attempt[a].pc = "work" /\ work[a].at = statement

-----------------------------------------------------------------------------
(* One attempt *)

Begin(a, command, key) ==
  /\ Executor!Begin(a, <<command.scope, key>>, command.expected)
  /\ UNCHANGED <<tenant, audit, outbox, nextEntry, rowLock, work>>

Claim(a) ==
  /\ Executor!Claim(a)
  /\ UNCHANGED <<tenant, audit, outbox, nextEntry, rowLock, work>>

(* findById and the domain's decision on what it returns; provisionTenant   *)
(* decided without reading.                                                 *)
FindTenant(a) ==
  LET current == IF Scope(a) = "provision" THEN NoTenant ELSE tenant
  IN  /\ AtWork(a, "find")
      /\ Allowed(current, Scope(a), attempt[a].payload)
      /\ work' = [work EXCEPT ![a].at = "write", ![a].read = current]
      /\ UNCHANGED <<executorVars, tenant, audit, outbox, nextEntry, rowLock>>

(* Mutation: the update has no condition on row_version. *)
WriteTenantUnchecked(a) ==
  /\ AtWork(a, "write")
  /\ rowLock = NoAttempt
  /\ rowLock' = a
  /\ work' = [work EXCEPT ![a].at = "append"]
  /\ UNCHANGED <<executorVars, tenant, audit, outbox, nextEntry>>

(* Mutation: the version is compared without writing, and so locking, the row. *)
WriteTenantWithoutLock(a) ==
  /\ AtWork(a, "write")
  /\ tenant.version = work[a].read.version
  /\ work' = [work EXCEPT ![a].at = "append"]
  /\ UNCHANGED <<executorVars, tenant, audit, outbox, nextEntry, rowLock>>

(* tenants.update, or tenants.insert: waits for an open transaction that    *)
(* wrote the row, then finds the committed row_version unchanged.           *)
WriteTenant(a) ==
  /\ AtWork(a, "write")
  /\ rowLock = NoAttempt
  /\ tenant.version = work[a].read.version
  /\ rowLock' = a
  /\ work' = [work EXCEPT ![a].at = "append"]
  /\ UNCHANGED <<executorVars, tenant, audit, outbox, nextEntry>>

(* Mutation: the outbox row is committed on a connection of its own. *)
AppendEventAtOnce(a) ==
  /\ AtWork(a, "append")
  /\ work' = [work EXCEPT ![a].at = "return", ![a].entry = nextEntry]
  /\ outbox' = outbox \cup {[entry |-> nextEntry, version |-> AfterWork(a).version]}
  /\ nextEntry' = nextEntry + 1
  /\ UNCHANGED <<executorVars, tenant, audit, rowLock>>

(* The audit event and outbox.append, which draws the entry_id. *)
AppendEvent(a) ==
  /\ AtWork(a, "append")
  /\ work' = [work EXCEPT ![a].at = "return", ![a].entry = nextEntry]
  /\ nextEntry' = nextEntry + 1
  /\ UNCHANGED <<executorVars, tenant, audit, outbox, rowLock>>

(* The work returns the changed tenant as the response to store. *)
WorkReturns(a) ==
  /\ AtWork(a, "return")
  /\ Executor!WorkReturns(a, AfterWork(a))
  /\ UNCHANGED <<tenant, audit, outbox, nextEntry, rowLock, work>>

CompleteClaim(a) ==
  /\ Executor!CompleteClaim(a)
  /\ UNCHANGED <<tenant, audit, outbox, nextEntry, rowLock, work>>

(* Mutation: a failed transaction is not rolled back. *)
UnlockedNever(a) == rowLock

Unlocked(a) == IF rowLock = a THEN NoAttempt ELSE rowLock

(* COMMIT. *)
Commit(a) ==
  /\ Executor!Commit(a)
  /\ tenant' = AfterWork(a)
  /\ audit' = Append(audit, [before |-> work[a].read, after |-> AfterWork(a)])
  /\ outbox' = outbox \cup {[entry |-> work[a].entry, version |-> AfterWork(a).version]}
  /\ rowLock' = Unlocked(a)
  /\ UNCHANGED <<nextEntry, work>>

(* tenant_not_found, tenant_version_conflict, invalid_tenant_transition,    *)
(* tenant_already_exists: the command refuses and the transaction rolls     *)
(* back, the claim included.                                                *)
Refuse(a) ==
  /\ \/ /\ AtWork(a, "find")
        /\ Scope(a) # "provision"
        /\ ~Allowed(tenant, Scope(a), attempt[a].payload)
     \/ /\ AtWork(a, "write")
        /\ rowLock = NoAttempt
        /\ tenant.version # work[a].read.version
  /\ Executor!Fail(a)
  /\ UNCHANGED <<tenant, audit, outbox, nextEntry, rowLock, work>>

(* Anything else that ends a transaction early; the sequence behind         *)
(* entry_id is not rolled back.                                             *)
Fail(a) ==
  /\ Executor!Fail(a)
  /\ rowLock' = Unlocked(a)
  /\ UNCHANGED <<tenant, audit, outbox, nextEntry, work>>

Expire(k) ==
  /\ Executor!Expire(k)
  /\ UNCHANGED <<tenant, audit, outbox, nextEntry, rowLock, work>>

-----------------------------------------------------------------------------

Statement(a) ==
  \/ Claim(a)
  \/ FindTenant(a) \/ WriteTenant(a) \/ AppendEvent(a) \/ WorkReturns(a) \/ Refuse(a)
  \/ CompleteClaim(a) \/ Commit(a)

Next ==
  \/ \E a \in Attempts :
       \/ \E command \in Commands, key \in Keys : Begin(a, command, key)
       \/ Statement(a)
       \/ Fail(a)
  \/ \E k \in RecordKeys : Expire(k)

Spec == Init /\ [][Next]_vars

-----------------------------------------------------------------------------
(* Safety *)

(* No lost update: the audit trail is one chain of legal transitions, each  *)
(* starting where the last one ended, and the tenant is where it ends,      *)
(* although every command decides on a row it did not lock.                 *)
AuditIsOneHistory ==
  /\ \A i \in 1 .. Len(audit) :
       /\ audit[i].before = IF i = 1 THEN NoTenant ELSE audit[i - 1].after
       /\ audit[i].after.state \in Transitions[audit[i].before.state]
       /\ audit[i].after.version = i
  /\ tenant = IF audit = <<>> THEN NoTenant ELSE audit[Len(audit)].after

(* All or nothing: the tenant's version, its audit trail, its outbox events *)
(* and its completed idempotency records count the same commits.            *)
CommitsTogether ==
  /\ {o.version : o \in outbox} = 1 .. tenant.version
  /\ Cardinality(outbox) = Len(audit) /\ Len(audit) = tenant.version
  /\ \A k \in RecordKeys : record[k].status = "completed" =>
       record[k].response \in {audit[i].after : i \in 1 .. Len(audit)}

(* 'entry_id follows commit order because producers append after the        *)
(* aggregate's compare-and-set row update' (PostgresOutboxStore): an event  *)
(* becomes visible behind every visible event of the tenant, so a relay     *)
(* that read the stream has not passed it.                                  *)
EntryIdsFollowCommits ==
  [][\A new \in outbox' \ outbox : \A old \in outbox :
       new.entry > old.entry /\ new.version > old.version]_vars

(* A retry of a committed command is answered with its response while the   *)
(* record lives: the version check, which the commit itself made stale,     *)
(* never gets to refuse it.                                                 *)
RetryIsNotRefused ==
  [][\A a \in Attempts : Refuse(a) =>
       record[attempt[a].key].status = "none" \/ record[attempt[a].key].expired]_vars

(* A statement that waits for the transaction that wrote the row of its key *)
(* or the tenant row.                                                       *)
Waits(a) ==
  \/ attempt[a].pc \in {"insert", "replace"} /\ keyLock[attempt[a].key] # NoAttempt
  \/ AtWork(a, "write") /\ rowLock # NoAttempt

OpenAttempts == {a \in Attempts : attempt[a].pc \in Executor!Open}

(* Two commands never wait for each other, since each takes its key before  *)
(* the tenant row.                                                          *)
NoCircle == OpenAttempts # {} => \E a \in OpenAttempts : ~Waits(a)

(* While a command is under way, some command can take its next step: only  *)
(* these waits hold one up, and never all of them.  Every step moves its    *)
(* command on, so every command ends.                                       *)
NoGridlock == NoCircle /\ \A a \in OpenAttempts : ENABLED Statement(a) <=> ~Waits(a)

=============================================================================

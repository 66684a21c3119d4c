---------------------------- MODULE TenantProofs ----------------------------
(***************************************************************************)
(* Proofs about TenantCommands for every number of attempts, keys and      *)
(* commands.  A lifecycle command is the work of an idempotent attempt, so *)
(* every step of TenantCommands is a step or a stutter of the executor and *)
(* what ExecutorProofs shows of the executor holds here.                   *)
(***************************************************************************)
EXTENDS TenantCommands, FiniteSetTheorems, TLAPS

Claims == INSTANCE ExecutorProofs
  WITH Payloads <- {c.expected : c \in Commands},
       Responses <- [state : States, version : Nat]

-----------------------------------------------------------------------------
(* The executor's steps, as the proofs about it name them *)

LEMMA SameClaim ==
  ASSUME NEW a
  PROVE  Executor!Claim(a) <=> Claims!Claim(a)
  BY DEF Executor!Claim, Executor!ClaimInsert, Executor!ClaimReplace, Executor!ClaimExisting,
         Executor!Claimed, Executor!NotClaimed, Executor!ExpiredFor, Executor!KeyOf,
         Claims!Claim, Claims!ClaimInsert, Claims!ClaimReplace, Claims!ClaimExisting,
         Claims!Claimed, Claims!NotClaimed, Claims!ExpiredFor, Claims!KeyOf

LEMMA SameSteps ==
  ASSUME NEW a
  PROVE  /\ \A key, payload : Executor!Begin(a, key, payload) <=> Claims!Begin(a, key, payload)
         /\ \A response : Executor!WorkReturns(a, response) <=> Claims!WorkReturns(a, response)
         /\ Executor!CompleteClaim(a) <=> Claims!CompleteClaim(a)
         /\ Executor!Commit(a) <=> Claims!Commit(a)
         /\ Executor!Fail(a) <=> Claims!Fail(a)
         /\ Executor!Expire(a) <=> Claims!Expire(a)
  BY DEF Executor!Begin, Executor!WorkReturns, Executor!CompleteClaim, Executor!Commit,
         Executor!Fail, Executor!Expire, Executor!KeyOf, Executor!Unlocked, Executor!Open,
         Claims!Begin, Claims!WorkReturns, Claims!CompleteClaim, Claims!Commit,
         Claims!Fail, Claims!Expire, Claims!KeyOf, Claims!Unlocked, Claims!Open

LEMMA SameSpec ==
  /\ Executor!Init <=> Claims!Init
  /\ Executor!Next <=> Claims!Next
  /\ Executor!vars = Claims!vars
  <1>1. Executor!Init <=> Claims!Init
    BY DEF Executor!Init, Claims!Init, Executor!NoRecord, Claims!NoRecord, Executor!Fresh, Claims!Fresh
  <1>2. Executor!vars = Claims!vars
    BY DEF Executor!vars, Claims!vars
  <1>3. Executor!Next <=> Claims!Next
    BY SameClaim, SameSteps DEF Executor!Next, Claims!Next
  <1>. QED BY <1>1, <1>2, <1>3

-----------------------------------------------------------------------------
(* The inductive invariant *)

Snapshot == [state : States, version : Nat]
Statements == {"find", "write", "append", "return"}

TypeOK ==
  /\ tenant \in Snapshot
  /\ audit \in Seq([before : Snapshot, after : Snapshot])
  /\ outbox \subseteq [entry : Nat, version : Nat]
  /\ nextEntry \in Nat
  /\ rowLock \in Attempts \cup {NoAttempt}
  /\ work \in [Attempts -> [at : Statements, read : Snapshot, entry : Nat]]

(* The work of attempt a: it starts where findById is; what it decided on   *)
(* is the tenant or an earlier version of it, from which its transition is  *)
(* legal; once it has written it holds the row, what it read is still the   *)
(* tenant, and the entry_id it drew is behind all that are visible.         *)
WorkOK(a) ==
  LET w == work[a]
  IN  /\ attempt[a].pc \in {"new", "insert", "replace", "existing"} => w.at = "find"
      /\ Claims!Working(a) =>
           /\ w.at # "find" =>
                /\ w.read.version <= tenant.version
                /\ w.read.version = tenant.version => w.read = tenant
                /\ Target[Scope(a)] \in Transitions[w.read.state]
           /\ w.at \in {"append", "return"} => rowLock = a /\ w.read = tenant
           /\ w.at = "return" => w.entry < nextEntry /\ \A o \in outbox : o.entry < w.entry
      /\ attempt[a].pc \in {"complete", "commit"} =>
           w.at = "return" /\ attempt[a].response = AfterWork(a)

(* The outbox rows are the versions of the tenant. *)
OutboxOK ==
  /\ {o.version : o \in outbox} = 1 .. tenant.version
  /\ IsFiniteSet(outbox) /\ Cardinality(outbox) = tenant.version
  /\ \A o \in outbox : o.entry < nextEntry

RecordsAnswer ==
  \A k \in RecordKeys : record[k].status = "completed" =>
    record[k].response \in {audit[i].after : i \in 1 .. Len(audit)}

IndInv ==
  /\ Claims!IndInv /\ TypeOK /\ \A a \in Attempts : WorkOK(a)
  /\ AuditIsOneHistory /\ Len(audit) = tenant.version /\ OutboxOK /\ RecordsAnswer

LEMMA Scopes ==
  ASSUME Claims!IndInv, NEW a \in Attempts, attempt[a].pc # "new"
  PROVE  attempt[a].key \in RecordKeys /\ Scope(a) \in DOMAIN Target /\ Target[Scope(a)] \in States
  <1>1. attempt[a].key \in RecordKeys
    BY DEF Claims!IndInv, Claims!AttemptsOK, Claims!AttemptOK
  <1>2. Scope(a) \in DOMAIN Target
    BY <1>1, CommandsAssumption DEF RecordKeys, Scope, Command
  <1>3. \A s \in DOMAIN Target : Target[s] \in States
    BY DEF Target, States
  <1>. QED BY <1>1, <1>2, <1>3

LEMMA AfterWorkType ==
  ASSUME Claims!IndInv, TypeOK, NEW a \in Attempts, attempt[a].pc # "new"
  PROVE  AfterWork(a) \in Snapshot
  <1>1. work[a].read \in Snapshot
    BY DEF TypeOK
  <1>2. work[a].read.version + 1 \in Nat
    BY <1>1 DEF Snapshot
  <1>. QED BY <1>2, Scopes DEF AfterWork, Changed, Snapshot

LEMMA Types ==
  ASSUME IndInv
  PROVE  /\ nextEntry \in Nat /\ rowLock \in Attempts \cup {NoAttempt}
         /\ work \in [Attempts -> [at : Statements, read : Snapshot, entry : Nat]]
  BY DEF IndInv, TypeOK

(* A step of one attempt, on the executor or on its own work, that commits  *)
(* nothing.                                                                 *)
LEMMA QuietStep ==
  ASSUME IndInv, NEW a \in Attempts, Claims!IndInv', WorkOK(a)',
         UNCHANGED <<record, tenant, audit, outbox>>,
         nextEntry' \in Nat, nextEntry <= nextEntry',
         rowLock' \in Attempts \cup {NoAttempt},
         work' \in [Attempts -> [at : Statements, read : Snapshot, entry : Nat]],
         \A b \in Attempts \ {a} :
           /\ attempt'[b] = attempt[b] /\ work'[b] = work[b]
           /\ rowLock = b => rowLock' = b
  PROVE  IndInv'
  <1>1. TypeOK'
    BY DEF IndInv, TypeOK
  <1>2. ASSUME NEW b \in Attempts \ {a}
        PROVE  WorkOK(b)'
    <2>1. work[b].entry \in Nat /\ nextEntry \in Nat
      BY DEF IndInv, TypeOK
    <2>2. WorkOK(b)
      BY DEF IndInv
    <2>. QED BY <2>1, <2>2 DEF WorkOK, Claims!Working, Scope, AfterWork
  <1>3. OutboxOK'
    BY DEF IndInv, TypeOK, OutboxOK
  <1>4. AuditIsOneHistory' /\ (Len(audit) = tenant.version)'
    BY DEF IndInv, AuditIsOneHistory
  <1>5. RecordsAnswer'
    BY DEF IndInv, RecordsAnswer
  <1>. QED BY <1>1, <1>2, <1>3, <1>4, <1>5 DEF IndInv

-----------------------------------------------------------------------------
(* The executor's part of each step *)

(* An attempt's step on the executor, apart from the commit: the attempt    *)
(* keeps its key, and the others are left alone.                            *)
LEMMA ClaimMoves ==
  ASSUME IndInv, NEW a \in Attempts, Claims!Claim(a)
  PROVE  /\ Claims!IndInv' /\ UNCHANGED record
         /\ attempt'[a].key = attempt[a].key
         /\ attempt[a].pc \in {"insert", "replace", "existing"}
         /\ attempt'[a].pc \notin {"complete", "commit"}
         /\ \A b \in Attempts \ {a} : attempt'[b] = attempt[b]
  <1>1. attempt \in [Attempts -> Claims!Attempt]
    BY DEF IndInv, Claims!IndInv, Claims!TypeOK
  <1>2. Claims!IndInv'
    BY AttemptsAssumption, ExpiriesAssumption, Claims!ClaimStep DEF IndInv
  <1>3. attempt[a].pc \in {"insert", "replace", "existing"} /\ UNCHANGED record
    BY DEF Claims!Claim, Claims!ClaimInsert, Claims!ClaimReplace, Claims!ClaimExisting,
           Claims!Claimed, Claims!NotClaimed
  <1>. DEFINE Moved == /\ attempt'[a].key = attempt[a].key
                       /\ attempt'[a].pc \notin {"complete", "commit"}
                       /\ \A b \in Attempts \ {a} : attempt'[b] = attempt[b]
  <1>4. Moved
    <2>1. CASE Claims!Claimed(a)
      BY <1>1, <2>1 DEF Claims!Claimed, Claims!Attempt
    <2>2. ASSUME NEW pc \in {"replace", "existing", "conflict", "in_progress"}, Claims!NotClaimed(a, pc)
          PROVE  Moved
      BY <1>1, <2>2 DEF Claims!NotClaimed, Claims!Attempt
    <2>3. CASE attempt' = [attempt EXCEPT ![a].pc = "replayed",
                                          ![a].response = record[Claims!KeyOf(a)].response]
      BY <1>1, <2>3 DEF Claims!Attempt
    <2>. QED BY <2>1, <2>2, <2>3 DEF Claims!Claim, Claims!ClaimInsert, Claims!ClaimReplace,
             Claims!ClaimExisting
  <1>. QED BY <1>2, <1>3, <1>4

LEMMA BeginStep ==
  ASSUME IndInv, NEW a \in Attempts, NEW command \in Commands, NEW key \in Keys,
         Begin(a, command, key)
  PROVE  IndInv'
  <1>1. <<command.scope, key>> \in RecordKeys /\ command.expected \in {c.expected : c \in Commands}
    BY DEF RecordKeys
  <1>2. Claims!Begin(a, <<command.scope, key>>, command.expected)
    BY SameSteps DEF Begin
  <1>3. Claims!IndInv'
    BY <1>1, <1>2, AttemptsAssumption, ExpiriesAssumption, Claims!BeginStep DEF IndInv
  <1>4. /\ attempt[a].pc = "new" /\ attempt'[a].pc = "insert" /\ UNCHANGED record
        /\ \A b \in Attempts \ {a} : attempt'[b] = attempt[b]
    BY <1>2 DEF Claims!Begin, IndInv, Claims!IndInv, Claims!TypeOK
  <1>5. WorkOK(a)'
    BY <1>4 DEF IndInv, WorkOK, Claims!Working, Begin
  <1>. QED BY <1>3, <1>4, <1>5, QuietStep, Types DEF Begin

LEMMA ClaimStep ==
  ASSUME IndInv, NEW a \in Attempts, Claim(a)
  PROVE  IndInv'
  <1>1. Claims!Claim(a)
    BY SameClaim DEF Claim
  <1>2. WorkOK(a)'
    BY <1>1, ClaimMoves DEF IndInv, WorkOK, Claims!Working, Claim
  <1>. QED BY <1>1, <1>2, ClaimMoves, QuietStep, Types DEF Claim

(* A step of the command's own work leaves the executor alone. *)
LEMMA WorkStep ==
  ASSUME IndInv, NEW a \in Attempts, attempt[a].pc = "work",
         NEW w \in [at : Statements, read : Snapshot, entry : Nat],
         work' = [work EXCEPT ![a] = w],
         UNCHANGED <<executorVars, tenant, audit, outbox>>,
         nextEntry' \in Nat, nextEntry <= nextEntry',
         rowLock' \in Attempts \cup {NoAttempt},
         \A b \in Attempts \ {a} : rowLock = b => rowLock' = b,
         w.at # "find" => /\ w.read.version <= tenant.version
                          /\ w.read.version = tenant.version => w.read = tenant
                          /\ Target[Scope(a)] \in Transitions[w.read.state],
         w.at \in {"append", "return"} => rowLock' = a /\ w.read = tenant,
         w.at = "return" => w.entry < nextEntry' /\ \A o \in outbox : o.entry < w.entry
  PROVE  IndInv'
  <1>1. work'[a] = w /\ \A b \in Attempts \ {a} : work'[b] = work[b]
    BY DEF IndInv, TypeOK
  <1>2. work' \in [Attempts -> [at : Statements, read : Snapshot, entry : Nat]]
    BY DEF IndInv, TypeOK
  <1>3. UNCHANGED <<record, keyLock, attempt, effects, expiries>>
    BY DEF executorVars
  <1>4. Claims!IndInv'
    BY <1>3, AttemptsAssumption, ExpiriesAssumption, Claims!StepHolds DEF IndInv, Claims!vars
  <1>5. WorkOK(a)'
    BY <1>1, <1>3 DEF WorkOK, Claims!Working, Scope
  <1>. QED BY <1>1, <1>2, <1>3, <1>4, <1>5, QuietStep

LEMMA FindTenantStep ==
  ASSUME IndInv, NEW a \in Attempts, FindTenant(a)
  PROVE  IndInv'
  <1>1. PICK current : current = IF Scope(a) = "provision" THEN NoTenant ELSE tenant
    OBVIOUS
  <1>2. PICK w : w = [work[a] EXCEPT !.at = "write", !.read = current]
    OBVIOUS
  <1>3. tenant \in Snapshot /\ current \in Snapshot /\ work[a] \in [at : Statements, read : Snapshot, entry : Nat]
    BY <1>1 DEF IndInv, TypeOK, NoTenant, Snapshot, States
  <1>4. w \in [at : Statements, read : Snapshot, entry : Nat] /\ w.at = "write" /\ w.read = current
    BY <1>2, <1>3 DEF Statements
  <1>5. work' = [work EXCEPT ![a] = w] /\ attempt[a].pc = "work"
        /\ UNCHANGED <<executorVars, tenant, audit, outbox, nextEntry, rowLock>>
    BY <1>1, <1>2 DEF FindTenant, AtWork
  <1>6. Target[Scope(a)] \in Transitions[current.state]
    BY <1>1 DEF FindTenant, Allowed
  <1>7. current.version <= tenant.version /\ (current.version = tenant.version => current = tenant)
    <2>1. tenant.version \in Nat
      BY <1>3 DEF Snapshot
    <2>2. tenant.version = 0 => tenant = NoTenant
      <3>1. audit \in Seq([before : Snapshot, after : Snapshot]) /\ Len(audit) = tenant.version
        BY DEF IndInv, TypeOK
      <3>2. Len(audit) = 0 => audit = <<>>
        BY <3>1
      <3>. QED BY <3>1, <3>2 DEF IndInv, AuditIsOneHistory
    <2>. QED BY <1>1, <2>1, <2>2 DEF NoTenant
  <1>8. nextEntry' \in Nat /\ nextEntry <= nextEntry' /\ rowLock' = rowLock
        /\ rowLock \in Attempts \cup {NoAttempt}
    BY <1>5, Types
  <1>9. w.at # "find" => /\ w.read.version <= tenant.version
                         /\ w.read.version = tenant.version => w.read = tenant
                         /\ Target[Scope(a)] \in Transitions[w.read.state]
    BY <1>4, <1>6, <1>7
  <1>. QED BY <1>4, <1>5, <1>8, <1>9, WorkStep

LEMMA WriteTenantStep ==
  ASSUME IndInv, NEW a \in Attempts, WriteTenant(a)
  PROVE  IndInv'
  <1>1. PICK w : w = [work[a] EXCEPT !.at = "append"]
    OBVIOUS
  <1>2. work[a] \in [at : Statements, read : Snapshot, entry : Nat]
    BY DEF IndInv, TypeOK
  <1>3. /\ w \in [at : Statements, read : Snapshot, entry : Nat]
        /\ w.at = "append" /\ w.read = work[a].read
    BY <1>1, <1>2 DEF Statements
  <1>4. /\ work' = [work EXCEPT ![a] = w] /\ attempt[a].pc = "work" /\ work[a].at = "write"
        /\ UNCHANGED <<executorVars, tenant, audit, outbox, nextEntry>>
        /\ rowLock = NoAttempt /\ rowLock' = a /\ tenant.version = work[a].read.version
    BY <1>1 DEF WriteTenant, AtWork
  <1>5. WorkOK(a)
    BY DEF IndInv
  <1>6. /\ w.read.version <= tenant.version /\ w.read = tenant
        /\ Target[Scope(a)] \in Transitions[w.read.state]
    BY <1>3, <1>4, <1>5 DEF WorkOK, Claims!Working
  <1>7. nextEntry' \in Nat /\ nextEntry <= nextEntry'
    BY <1>4, Types
  <1>8. \A b \in Attempts \ {a} : rowLock = b => rowLock' = b
    BY <1>4, AttemptsAssumption
  <1>. QED BY <1>3, <1>4, <1>6, <1>7, <1>8, WorkStep

LEMMA AppendEventStep ==
  ASSUME IndInv, NEW a \in Attempts, AppendEvent(a)
  PROVE  IndInv'
  <1>1. PICK w : w = [work[a] EXCEPT !.at = "return", !.entry = nextEntry]
    OBVIOUS
  <1>2. work[a] \in [at : Statements, read : Snapshot, entry : Nat] /\ nextEntry \in Nat
    BY DEF IndInv, TypeOK
  <1>3. /\ w \in [at : Statements, read : Snapshot, entry : Nat]
        /\ w.at = "return" /\ w.read = work[a].read /\ w.entry = nextEntry
    BY <1>1, <1>2 DEF Statements
  <1>4. /\ work' = [work EXCEPT ![a] = w] /\ attempt[a].pc = "work" /\ work[a].at = "append"
        /\ UNCHANGED <<executorVars, tenant, audit, outbox, rowLock>> /\ nextEntry' = nextEntry + 1
    BY <1>1 DEF AppendEvent, AtWork
  <1>5. WorkOK(a) /\ \A o \in outbox : o.entry < nextEntry
    BY DEF IndInv, OutboxOK
  <1>6. /\ w.read.version <= tenant.version /\ w.read = tenant /\ rowLock = a
        /\ Target[Scope(a)] \in Transitions[w.read.state]
    BY <1>3, <1>4, <1>5 DEF WorkOK, Claims!Working
  <1>7. nextEntry' \in Nat /\ nextEntry <= nextEntry' /\ w.entry < nextEntry'
    BY <1>2, <1>3, <1>4
  <1>. QED BY <1>3, <1>4, <1>5, <1>6, <1>7, WorkStep, Types

LEMMA WorkReturnsStep ==
  ASSUME IndInv, NEW a \in Attempts, WorkReturns(a)
  PROVE  IndInv'
  <1>1. Claims!WorkReturns(a, AfterWork(a)) /\ attempt[a].pc = "work" /\ work[a].at = "return"
    BY SameSteps DEF WorkReturns, AtWork
  <1>2. AfterWork(a) \in [state : States, version : Nat]
    BY <1>1, AfterWorkType DEF IndInv, Snapshot
  <1>3. Claims!IndInv'
    BY <1>1, <1>2, AttemptsAssumption, ExpiriesAssumption, Claims!WorkReturnsStep DEF IndInv
  <1>4. attempt[a] \in Claims!Attempt /\ attempt \in [Attempts -> Claims!Attempt]
    BY DEF IndInv, Claims!IndInv, Claims!TypeOK
  <1>5. /\ attempt'[a].pc = "complete" /\ attempt'[a].response = AfterWork(a)
        /\ attempt'[a].key = attempt[a].key /\ UNCHANGED record
        /\ \A b \in Attempts \ {a} : attempt'[b] = attempt[b]
    BY <1>1, <1>4 DEF Claims!WorkReturns, Claims!Attempt
  <1>6. WorkOK(a)'
    BY <1>1, <1>5 DEF IndInv, WorkOK, Claims!Working, WorkReturns, Scope, AfterWork
  <1>. QED BY <1>3, <1>5, <1>6, QuietStep, Types DEF WorkReturns

LEMMA CompleteClaimStep ==
  ASSUME IndInv, NEW a \in Attempts, CompleteClaim(a)
  PROVE  IndInv'
  <1>1. Claims!CompleteClaim(a)
    BY SameSteps DEF CompleteClaim
  <1>2. Claims!IndInv'
    BY <1>1, AttemptsAssumption, ExpiriesAssumption, Claims!CompleteStep DEF IndInv
  <1>3. attempt[a] \in Claims!Attempt /\ attempt \in [Attempts -> Claims!Attempt]
    BY DEF IndInv, Claims!IndInv, Claims!TypeOK
  <1>4. /\ attempt[a].pc = "complete" /\ attempt'[a].pc = "commit"
        /\ attempt'[a].response = attempt[a].response
        /\ attempt'[a].key = attempt[a].key /\ UNCHANGED record
        /\ \A b \in Attempts \ {a} : attempt'[b] = attempt[b]
    BY <1>1, <1>3 DEF Claims!CompleteClaim, Claims!Attempt
  <1>5. WorkOK(a)'
    BY <1>4 DEF IndInv, WorkOK, Claims!Working, CompleteClaim, Scope, AfterWork
  <1>. QED BY <1>2, <1>4, <1>5, QuietStep, Types DEF CompleteClaim

LEMMA FailStep ==
  ASSUME IndInv, NEW a \in Attempts, Executor!Fail(a),
         UNCHANGED <<tenant, audit, outbox, nextEntry, work>>,
         rowLock' = rowLock \/ rowLock' = Unlocked(a)
  PROVE  IndInv'
  <1>1. Claims!Fail(a)
    BY SameSteps
  <1>2. Claims!IndInv'
    BY <1>1, AttemptsAssumption, ExpiriesAssumption, Claims!FailStep DEF IndInv
  <1>3. attempt \in [Attempts -> Claims!Attempt]
    BY DEF IndInv, Claims!IndInv, Claims!TypeOK
  <1>4. attempt'[a].pc = "failed" /\ UNCHANGED record /\ \A b \in Attempts \ {a} : attempt'[b] = attempt[b]
    BY <1>1, <1>3 DEF Claims!Fail, Claims!Attempt
  <1>5. WorkOK(a)'
    BY <1>4 DEF WorkOK, Claims!Working
  <1>. QED BY <1>2, <1>4, <1>5, QuietStep, Types DEF Unlocked

LEMMA ExpireStep ==
  ASSUME IndInv, NEW k \in RecordKeys, Expire(k)
  PROVE  IndInv'
  <1>1. Claims!Expire(k)
    BY SameSteps DEF Expire
  <1>2. Claims!IndInv'
    BY <1>1, AttemptsAssumption, ExpiriesAssumption, Claims!ExpireStep DEF IndInv
  <1>3. record \in [RecordKeys -> Claims!Record]
    BY DEF IndInv, Claims!IndInv, Claims!TypeOK
  <1>4. /\ UNCHANGED attempt
        /\ \A j \in RecordKeys : /\ record'[j].status = record[j].status
                                 /\ record'[j].response = record[j].response
    BY <1>1, <1>3 DEF Claims!Expire, Claims!Record
  <1>5. RecordsAnswer'
    BY <1>4 DEF IndInv, RecordsAnswer, Expire
  <1>6. ASSUME NEW a \in Attempts PROVE WorkOK(a)'
    BY <1>4 DEF IndInv, WorkOK, Claims!Working, Scope, AfterWork, Expire
  <1>7. TypeOK' /\ AuditIsOneHistory' /\ (Len(audit) = tenant.version)'
    BY DEF IndInv, TypeOK, AuditIsOneHistory, Expire
  <1>8. OutboxOK'
    BY DEF IndInv, OutboxOK, Expire
  <1>. QED BY <1>2, <1>5, <1>6, <1>7, <1>8 DEF IndInv

(* What COMMIT finds: the row is this transaction's and is still the one it *)
(* read.                                                                    *)
LEMMA CommitFinds ==
  ASSUME IndInv, NEW a \in Attempts, Commit(a)
  PROVE  /\ Claims!Commit(a) /\ attempt[a].pc = "commit" /\ attempt[a].response = AfterWork(a)
         /\ rowLock = a /\ work[a].read = tenant /\ tenant.version \in Nat
         /\ AfterWork(a) \in Snapshot /\ AfterWork(a).version = tenant.version + 1
         /\ AfterWork(a).state \in Transitions[tenant.state]
         /\ work[a].entry \in Nat /\ work[a].entry < nextEntry
         /\ \A o \in outbox : o.entry < work[a].entry
  <1>1. Claims!Commit(a)
    BY SameSteps DEF Commit
  <1>2. attempt[a].pc = "commit"
    BY <1>1 DEF Claims!Commit
  <1>3. WorkOK(a) /\ work[a].at = "return" /\ attempt[a].response = AfterWork(a)
    BY <1>2 DEF IndInv, WorkOK
  <1>4. rowLock = a /\ work[a].read = tenant
        /\ Target[Scope(a)] \in Transitions[tenant.state]
        /\ work[a].entry < nextEntry /\ \A o \in outbox : o.entry < work[a].entry
    BY <1>2, <1>3 DEF WorkOK, Claims!Working
  <1>5. AfterWork(a) \in Snapshot
    BY <1>2, AfterWorkType DEF IndInv
  <1>6. AfterWork(a).version = tenant.version + 1 /\ AfterWork(a).state = Target[Scope(a)]
    BY <1>4 DEF AfterWork, Changed
  <1>7. tenant.version \in Nat /\ work[a].entry \in Nat
    BY Types DEF IndInv, TypeOK, Snapshot
  <1>. QED BY <1>1, <1>2, <1>3, <1>4, <1>5, <1>6, <1>7

LEMMA CommitStep ==
  ASSUME IndInv, NEW a \in Attempts, Commit(a)
  PROVE  IndInv'
  <1>1. PICK n : n = AfterWork(a)
    OBVIOUS
  <1>2. PICK e : e = [before |-> tenant, after |-> n]
    OBVIOUS
  <1>3. PICK new : new = [entry |-> work[a].entry, version |-> n.version]
    OBVIOUS
  <1>4. /\ tenant' = n /\ audit' = Append(audit, e) /\ outbox' = outbox \cup {new}
        /\ rowLock' = NoAttempt /\ UNCHANGED <<nextEntry, work>>
    BY <1>1, <1>2, <1>3, CommitFinds DEF Commit, Unlocked
  <1>5. /\ n \in Snapshot /\ n.version = tenant.version + 1 /\ tenant.version \in Nat
        /\ n.state \in Transitions[tenant.state]
    BY <1>1, CommitFinds
  <1>6. /\ new \in [entry : Nat, version : Nat] /\ new.version = n.version
        /\ new.entry = work[a].entry /\ new.entry < nextEntry
    BY <1>3, <1>5, CommitFinds
  <1>7. /\ tenant \in Snapshot /\ e \in [before : Snapshot, after : Snapshot]
        /\ e.before = tenant /\ e.after = n
    BY <1>2, <1>5 DEF IndInv, TypeOK
  <1>8. /\ audit \in Seq([before : Snapshot, after : Snapshot]) /\ Len(audit) = tenant.version
        /\ outbox \subseteq [entry : Nat, version : Nat]
        /\ nextEntry \in Nat /\ work \in [Attempts -> [at : Statements, read : Snapshot, entry : Nat]]
    BY DEF IndInv, TypeOK
  <1>9. /\ audit' \in Seq([before : Snapshot, after : Snapshot]) /\ Len(audit') = Len(audit) + 1
        /\ audit'[Len(audit) + 1] = e /\ \A i \in 1 .. Len(audit) : audit'[i] = audit[i]
    BY <1>4, <1>7, <1>8
  <1>10. TypeOK'
    BY <1>4, <1>5, <1>6, <1>8, <1>9 DEF TypeOK
  <1>11. Claims!IndInv'
    BY CommitFinds, AttemptsAssumption, ExpiriesAssumption, Claims!CommitStep DEF IndInv
  <1>12. /\ attempt \in [Attempts -> Claims!Attempt] /\ record \in [RecordKeys -> Claims!Record]
         /\ attempt[a].key \in RecordKeys
    BY CommitFinds, Scopes DEF IndInv, Claims!IndInv, Claims!TypeOK
  <1>13. /\ attempt'[a].pc = "executed" /\ \A b \in Attempts \ {a} : attempt'[b] = attempt[b]
         /\ record'[attempt[a].key].response = n
         /\ \A k \in RecordKeys : k # attempt[a].key => record'[k] = record[k]
    <2>. DEFINE stored == [status |-> attempt[a].wrote, hash |-> attempt[a].payload,
                           response |-> attempt[a].response, expired |-> FALSE]
    <2>1. attempt' = [attempt EXCEPT ![a].pc = "executed"]
          /\ record' = [record EXCEPT ![attempt[a].key] = stored]
      BY CommitFinds DEF Claims!Commit, Claims!KeyOf
    <2>2. stored.response = n
      BY <1>1, CommitFinds
    <2>. HIDE DEF stored
    <2>3. attempt'[a].pc = "executed" /\ \A b \in Attempts \ {a} : attempt'[b] = attempt[b]
      BY <2>1, <1>12 DEF Claims!Attempt
    <2>4. /\ record'[attempt[a].key] = stored
          /\ \A k \in RecordKeys : k # attempt[a].key => record'[k] = record[k]
      BY <2>1, <1>12
    <2>. QED BY <2>2, <2>3, <2>4
  <1>14. ASSUME NEW b \in Attempts PROVE WorkOK(b)'
    <2>1. CASE b = a
      BY <1>13, <2>1 DEF WorkOK, Claims!Working
    <2>2. CASE b # a
      <3>1. WorkOK(b) /\ rowLock # b
        BY <2>2, CommitFinds DEF IndInv
      <3>2. attempt'[b] = attempt[b] /\ work'[b] = work[b]
        BY <2>2, <1>4, <1>13
      <3>3. attempt[b].pc \notin {"complete", "commit"}
        BY <3>1 DEF WorkOK, Claims!Working
      <3>4. work[b].read.version \in Nat
        BY Types DEF Snapshot
      <3>5. Claims!Working(b) /\ work[b].at # "find" =>
              /\ work[b].read.version <= n.version /\ work[b].read.version # n.version
              /\ Target[Scope(b)] \in Transitions[work[b].read.state]
        BY <3>1, <3>4, <1>5 DEF WorkOK
      <3>. QED BY <3>1, <3>2, <3>3, <3>5, <1>4 DEF WorkOK, Claims!Working, Scope
    <2>. QED BY <2>1, <2>2
  <1>15. AuditIsOneHistory' /\ (Len(audit) = tenant.version)'
    <2>1. tenant = IF Len(audit) = 0 THEN NoTenant ELSE audit[Len(audit)].after
      <3>1. (audit = <<>>) <=> (Len(audit) = 0)
        BY <1>8
      <3>. QED BY <3>1 DEF IndInv, AuditIsOneHistory
    <2>2. ASSUME NEW i \in 1 .. Len(audit')
          PROVE  /\ audit'[i].before = IF i = 1 THEN NoTenant ELSE audit'[i - 1].after
                 /\ audit'[i].after.state \in Transitions[audit'[i].before.state]
                 /\ audit'[i].after.version = i
      <3>1. CASE i \in 1 .. Len(audit)
        <4>1. audit'[i] = audit[i] /\ (i # 1 => audit'[i - 1] = audit[i - 1])
          BY <3>1, <1>8, <1>9
        <4>. QED BY <3>1, <4>1 DEF IndInv, AuditIsOneHistory
      <3>2. CASE i = Len(audit) + 1
        <4>1. audit'[i] = e /\ (i # 1 => audit'[i - 1] = audit[Len(audit)]) /\ (i = 1 <=> Len(audit) = 0)
          <5>1. Len(audit) \in Nat
            BY <1>8
          <5>2. (i = 1 <=> Len(audit) = 0) /\ (i # 1 => i - 1 = Len(audit) /\ i - 1 \in 1 .. Len(audit))
            BY <3>2, <5>1
          <5>3. audit'[i] = e
            BY <3>2, <1>8, <1>9
          <5>4. i # 1 => audit'[i - 1] = audit[Len(audit)]
            BY <5>2, <1>8, <1>9
          <5>. QED BY <5>2, <5>3, <5>4
        <4>. QED BY <3>2, <4>1, <2>1, <1>5, <1>7, <1>8
      <3>. QED BY <3>1, <3>2, <1>8, <1>9
    <2>3. Len(audit') = n.version /\ audit' # <<>> /\ audit'[Len(audit')].after = n
      BY <1>5, <1>7, <1>8, <1>9
    <2>. QED BY <2>2, <2>3, <1>4 DEF AuditIsOneHistory
  <1>16. OutboxOK'
    <2>1. new \notin outbox
      <3>1. new.version \notin 1 .. tenant.version
        BY <1>5, <1>6
      <3>. QED BY <3>1 DEF IndInv, OutboxOK
    <2>2. IsFiniteSet(outbox') /\ Cardinality(outbox') = n.version
      BY <2>1, <1>4, <1>5, FS_AddElement DEF IndInv, OutboxOK
    <2>3. {o.version : o \in outbox'} = 1 .. n.version
      <3>1. {o.version : o \in outbox'} = {o.version : o \in outbox} \cup {new.version}
        BY <1>4
      <3>2. 1 .. n.version = (1 .. tenant.version) \cup {n.version}
        BY <1>5
      <3>. QED BY <3>1, <3>2, <1>6 DEF IndInv, OutboxOK
    <2>4. \A o \in outbox' : o.entry < nextEntry
      BY <1>4, <1>6 DEF IndInv, OutboxOK
    <2>. QED BY <2>2, <2>3, <2>4, <1>4 DEF OutboxOK
  <1>17. RecordsAnswer'
    <2>1. Len(audit) + 1 \in 1 .. Len(audit') /\ \A i \in 1 .. Len(audit) : i \in 1 .. Len(audit')
      BY <1>8, <1>9
    <2>2. ASSUME NEW k \in RecordKeys, record'[k].status = "completed"
          PROVE  \E i \in 1 .. Len(audit') : record'[k].response = audit'[i].after
      <3>1. CASE k = attempt[a].key
        BY <3>1, <2>1, <1>7, <1>9, <1>13
      <3>2. CASE k # attempt[a].key
        <4>1. record'[k] = record[k]
          BY <3>2, <1>13
        <4>2. PICK i \in 1 .. Len(audit) : record[k].response = audit[i].after
          BY <4>1, <2>2 DEF IndInv, RecordsAnswer
        <4>3. audit'[i] = audit[i]
          BY <1>9
        <4>. QED BY <4>1, <4>2, <4>3, <2>1
      <3>. QED BY <3>1, <3>2
    <2>. QED BY <2>2 DEF RecordsAnswer
  <1>. QED BY <1>10, <1>11, <1>14, <1>15, <1>16, <1>17 DEF IndInv

LEMMA InitHolds == Init => IndInv
  <1>. SUFFICES ASSUME Init PROVE IndInv
    OBVIOUS
  <1>1. Claims!IndInv
    BY SameSpec, AttemptsAssumption, ExpiriesAssumption, Claims!InitHolds DEF Init
  <1>2. NoTenant \in Snapshot /\ NoTenant.version = 0
    BY DEF NoTenant, Snapshot, States
  <1>3. TypeOK
    <2>1. NotStarted \in [at : Statements, read : Snapshot, entry : Nat]
      BY <1>2 DEF NotStarted, Statements
    <2>. QED BY <1>2, <2>1 DEF Init, TypeOK
  <1>4. ASSUME NEW a \in Attempts PROVE WorkOK(a)
    <2>1. attempt[a].pc = "new" /\ work[a].at = "find"
      BY SameSpec DEF Init, Claims!Init, Claims!Fresh, NotStarted
    <2>. QED BY <2>1 DEF WorkOK, Claims!Working
  <1>5. AuditIsOneHistory /\ Len(audit) = tenant.version
    BY <1>2 DEF Init, AuditIsOneHistory
  <1>6. OutboxOK
    <2>1. {o.version : o \in outbox} = {} /\ 1 .. tenant.version = {}
      BY <1>2 DEF Init
    <2>. QED BY <1>2, <2>1, FS_EmptySet DEF Init, OutboxOK
  <1>7. RecordsAnswer
    BY SameSpec DEF Init, Claims!Init, Claims!NoRecord, RecordsAnswer
  <1>. QED BY <1>1, <1>3, <1>4, <1>5, <1>6, <1>7 DEF IndInv

LEMMA StepHolds == IndInv /\ [Next]_vars => IndInv'
  <1>. SUFFICES ASSUME IndInv, [Next]_vars PROVE IndInv'
    OBVIOUS
  <1>1. ASSUME NEW a \in Attempts, NEW command \in Commands, NEW key \in Keys, Begin(a, command, key)
        PROVE  IndInv'
    BY <1>1, BeginStep
  <1>2. ASSUME NEW a \in Attempts, Statement(a)
        PROVE  IndInv'
    <2>1. CASE Refuse(a)
      BY <2>1, FailStep DEF Refuse
    <2>. QED BY <1>2, <2>1, ClaimStep, FindTenantStep, WriteTenantStep, AppendEventStep,
             WorkReturnsStep, CompleteClaimStep, CommitStep DEF Statement
  <1>3. ASSUME NEW a \in Attempts, Fail(a)
        PROVE  IndInv'
    BY <1>3, FailStep DEF Fail
  <1>4. CASE \E k \in RecordKeys : Expire(k)
    BY <1>4, ExpireStep
  <1>5. CASE UNCHANGED vars
    <2>1. Claims!IndInv'
      BY <1>5, AttemptsAssumption, ExpiriesAssumption, Claims!StepHolds
         DEF IndInv, Claims!vars, vars, executorVars
    <2>2. UNCHANGED <<record, attempt, tenant, audit, outbox, nextEntry, rowLock, work>>
      BY <1>5 DEF vars, executorVars
    <2>3. ASSUME NEW a \in Attempts PROVE WorkOK(a)'
      BY <2>2 DEF IndInv, WorkOK, Claims!Working, Scope, AfterWork
    <2>4. TypeOK' /\ OutboxOK' /\ (Len(audit) = tenant.version)'
      BY <2>2 DEF IndInv, TypeOK, OutboxOK
    <2>5. AuditIsOneHistory'
      BY <2>2 DEF IndInv, AuditIsOneHistory
    <2>6. RecordsAnswer'
      BY <2>2 DEF IndInv, RecordsAnswer
    <2>. QED BY <2>1, <2>3, <2>4, <2>5, <2>6 DEF IndInv
  <1>. QED BY <1>1, <1>2, <1>3, <1>4, <1>5 DEF Next

-----------------------------------------------------------------------------
(* The theorems *)

(* The invariant the properties rest on: a command that has written         *)
(* (tenants.update) holds the row, and what it read without a lock is still *)
(* the tenant.                                                              *)
THEOREM Invariance == Spec => []IndInv
  BY InitHolds, StepHolds, PTL DEF Spec

(* No lost update: for any number of concurrent commands and retries, the   *)
(* audit events form one chain of legal transitions that ends at the tenant.*)
THEOREM OneHistory == Spec => []AuditIsOneHistory
  <1>1. IndInv => AuditIsOneHistory
    BY DEF IndInv
  <1>. QED BY <1>1, Invariance, PTL

(* All or nothing: the tenant's version, the audit events, the outbox rows  *)
(* and the completed records count the same commits, whatever fails.        *)
THEOREM AllOrNothing == Spec => []CommitsTogether
  <1>1. IndInv => CommitsTogether
    BY DEF IndInv, OutboxOK, RecordsAnswer, CommitsTogether
  <1>. QED BY <1>1, Invariance, PTL

(* entry_id, drawn when the row is inserted, follows commit order: the row  *)
(* lock that tenants.update took is held from before the draw to the commit.*)
THEOREM EntriesInCommitOrder == Spec => EntryIdsFollowCommits
  <1>. DEFINE Behind == \A new \in outbox' \ outbox : \A old \in outbox :
                          new.entry > old.entry /\ new.version > old.version
  <1>1. IndInv /\ [Next]_vars => [Behind]_vars
    <2>. SUFFICES ASSUME IndInv, Next PROVE Behind
      OBVIOUS
    <2>1. ASSUME NEW a \in Attempts, Commit(a) PROVE Behind
      <3>1. outbox' = outbox \cup {[entry |-> work[a].entry, version |-> AfterWork(a).version]}
        BY <2>1 DEF Commit
      <3>2. \A old \in outbox : old.entry < work[a].entry /\ old.version \in 1 .. tenant.version
        BY <2>1, CommitFinds DEF IndInv, OutboxOK
      <3>3. \A old \in outbox : old.entry \in Nat /\ old.version \in Nat
        BY DEF IndInv, TypeOK
      <3>. QED BY <2>1, <3>1, <3>2, <3>3, CommitFinds
    <2>2. CASE outbox' = outbox
      BY <2>2
    <2>. QED BY <2>1, <2>2 DEF Next, Statement, Begin, Claim, FindTenant, WriteTenant, AppendEvent,
             WorkReturns, CompleteClaim, Refuse, Fail, Expire
  <1>. QED BY <1>1, Invariance, PTL DEF Spec, EntryIdsFollowCommits

(* The version check never refuses a retry of a command whose record lives: *)
(* such a retry does not get past the claim.                                *)
THEOREM RetriesAreAnswered == Spec => RetryIsNotRefused
  <1>. DEFINE Unanswered == \A a \in Attempts : Refuse(a) =>
                              record[attempt[a].key].status = "none" \/ record[attempt[a].key].expired
  <1>1. IndInv => Unanswered
    BY DEF IndInv, Claims!IndInv, Claims!AttemptsOK, Claims!AttemptOK, Claims!KeyOf, Refuse, AtWork
  <1>. QED BY <1>1, Invariance, PTL DEF Spec, RetryIsNotRefused

(* A lifecycle command is an idempotent command: TenantCommands implements  *)
(* IdempotentExecutor, so one effect per key, exclusive claims and faithful *)
(* replays hold of it too.                                                  *)
THEOREM ImplementsExecutor == Spec => Executor!Spec
  <1>1. Init => Executor!Init
    BY DEF Init
  <1>2. IndInv /\ [Next]_vars => [Executor!Next]_(Executor!vars)
    <2>. SUFFICES ASSUME IndInv, [Next]_vars PROVE [Executor!Next]_(Executor!vars)
      OBVIOUS
    <2>1. ASSUME NEW a \in Attempts, NEW command \in Commands, NEW key \in Keys, Begin(a, command, key)
          PROVE  Executor!Next
      <3>1. <<command.scope, key>> \in RecordKeys /\ command.expected \in {c.expected : c \in Commands}
        BY DEF RecordKeys
      <3>. QED BY <2>1, <3>1 DEF Begin, Executor!Next
    <2>2. ASSUME NEW a \in Attempts, WorkReturns(a)
          PROVE  Executor!Next
      <3>1. AfterWork(a) \in [state : States, version : Nat]
        BY <2>2, AfterWorkType DEF IndInv, Snapshot, WorkReturns, AtWork
      <3>. QED BY <2>2, <3>1 DEF WorkReturns, Executor!Next
    <2>3. ASSUME NEW a \in Attempts,
                 Claim(a) \/ CompleteClaim(a) \/ Commit(a) \/ Refuse(a) \/ Fail(a)
          PROVE  Executor!Next
      BY <2>3 DEF Claim, CompleteClaim, Commit, Refuse, Fail, Executor!Next
    <2>4. CASE \E k \in RecordKeys : Expire(k)
      BY <2>4 DEF Expire, Executor!Next
    <2>5. ASSUME NEW a \in Attempts, FindTenant(a) \/ WriteTenant(a) \/ AppendEvent(a)
          PROVE  UNCHANGED Executor!vars
      BY <2>5 DEF FindTenant, WriteTenant, AppendEvent, executorVars, Executor!vars
    <2>6. CASE UNCHANGED vars
      BY <2>6 DEF vars, executorVars, Executor!vars
    <2>. QED BY <2>1, <2>2, <2>3, <2>4, <2>5, <2>6 DEF Next, Statement
  <1>. QED BY <1>1, <1>2, Invariance, PTL DEF Spec, Executor!Spec

-----------------------------------------------------------------------------
(* Who waits for whom *)

(* A key is held by an attempt that claimed it, the tenant row by one whose *)
(* update is done: neither has anything to wait for but the row.            *)
LocksHeld ==
  /\ \A k \in RecordKeys : keyLock[k] # NoAttempt =>
       keyLock[k] \in Attempts /\ Claims!Working(keyLock[k])
  /\ rowLock # NoAttempt => Claims!Working(rowLock) /\ work[rowLock].at \in {"append", "return"}

(* A step of one attempt that keeps what the others hold. *)
LEMMA LocksKept ==
  ASSUME IndInv, LocksHeld, NEW a \in Attempts,
         \A b \in Attempts \ {a} : attempt'[b] = attempt[b] /\ work'[b] = work[b],
         \A k \in RecordKeys :
           \/ keyLock'[k] = NoAttempt
           \/ keyLock'[k] = keyLock[k] /\ (keyLock[k] = a => attempt'[a].pc \in {"work", "complete", "commit"})
           \/ keyLock'[k] = a /\ attempt'[a].pc \in {"work", "complete", "commit"},
         \/ rowLock' = NoAttempt
         \/ rowLock' = rowLock /\ rowLock # a
         \/ /\ rowLock' = a /\ attempt'[a].pc \in {"work", "complete", "commit"}
            /\ work'[a].at \in {"append", "return"}
  PROVE  LocksHeld'
  <1>1. rowLock \in Attempts \cup {NoAttempt}
    BY Types
  <1>2. ASSUME NEW k \in RecordKeys, keyLock'[k] # NoAttempt
        PROVE  keyLock'[k] \in Attempts /\ attempt'[keyLock'[k]].pc \in {"work", "complete", "commit"}
    BY <1>2 DEF LocksHeld, Claims!Working
  <1>3. rowLock' # NoAttempt =>
          /\ attempt'[rowLock'].pc \in {"work", "complete", "commit"}
          /\ work'[rowLock'].at \in {"append", "return"}
    BY <1>1 DEF LocksHeld, Claims!Working
  <1>. QED BY <1>2, <1>3 DEF LocksHeld, Claims!Working

LEMMA LocksStep ==
  IndInv /\ LocksHeld /\ [Next]_vars => LocksHeld'
  <1>. SUFFICES ASSUME IndInv, LocksHeld, [Next]_vars
                PROVE  LocksHeld'
    OBVIOUS
  <1>1. /\ attempt \in [Attempts -> Claims!Attempt]
        /\ keyLock \in [RecordKeys -> Attempts \cup {NoAttempt}]
        /\ work \in [Attempts -> [at : Statements, read : Snapshot, entry : Nat]]
        /\ rowLock \in Attempts \cup {NoAttempt}
    BY Types DEF IndInv, Claims!IndInv, Claims!TypeOK
  <1>2. \A a \in Attempts : attempt[a].pc # "new" => attempt[a].key \in RecordKeys
    BY Scopes DEF IndInv
  <1>3. \A a \in Attempts : rowLock = a => Claims!Working(a) /\ work[a].at \in {"append", "return"}
    BY AttemptsAssumption DEF LocksHeld
  <1>4. \A a \in Attempts, k \in RecordKeys : keyLock[k] = a => Claims!Working(a)
    BY AttemptsAssumption DEF LocksHeld
  <1>5. ASSUME NEW a \in Attempts, NEW command \in Commands, NEW key \in Keys, Begin(a, command, key)
        PROVE  LocksHeld'
    BY <1>1, <1>3, <1>4, <1>5, LocksKept DEF Begin, Executor!Begin, Claims!Working
  <1>6. ASSUME NEW a \in Attempts, Claim(a)
        PROVE  LocksHeld'
    <2>1. ~Claims!Working(a) /\ rowLock' = rowLock /\ work' = work
      BY <1>6 DEF Claim, Executor!Claim, Executor!ClaimInsert, Executor!ClaimReplace,
                  Executor!ClaimExisting, Claims!Working
    <2>2. CASE Executor!Claimed(a)
      <3>1. attempt[a] \in Claims!Attempt /\ attempt[a].key \in RecordKeys
        BY <1>1, <1>2, <1>6 DEF Claim, Executor!Claim, Executor!ClaimInsert, Executor!ClaimReplace,
                                Executor!ClaimExisting
      <3>2. attempt'[a].pc = "work"
        BY <1>1, <2>2, <3>1 DEF Executor!Claimed, Claims!Attempt
      <3>3. \A b \in Attempts \ {a} : attempt'[b] = attempt[b]
        BY <1>1, <2>2 DEF Executor!Claimed
      <3>4. \A k \in RecordKeys : keyLock'[k] = IF k = attempt[a].key THEN a ELSE keyLock[k]
        BY <1>1, <2>2, <3>1 DEF Executor!Claimed, Executor!KeyOf
      <3>. QED BY <1>3, <1>4, <2>1, <3>2, <3>3, <3>4, LocksKept
    <2>3. CASE keyLock' = keyLock /\ \A b \in Attempts \ {a} : attempt'[b] = attempt[b]
      BY <1>3, <1>4, <2>1, <2>3, LocksKept
    <2>4. Executor!Claimed(a)
          \/ (keyLock' = keyLock /\ \A b \in Attempts \ {a} : attempt'[b] = attempt[b])
      BY <1>1, <1>6 DEF Claim, Executor!Claim, Executor!ClaimInsert, Executor!ClaimReplace,
                        Executor!ClaimExisting, Executor!NotClaimed
    <2>. QED BY <2>2, <2>3, <2>4
  <1>7. ASSUME NEW a \in Attempts, FindTenant(a) \/ WriteTenant(a) \/ AppendEvent(a)
        PROVE  LocksHeld'
    BY <1>1, <1>3, <1>7, LocksKept
       DEF FindTenant, WriteTenant, AppendEvent, AtWork, executorVars, Claims!Working
  <1>8. ASSUME NEW a \in Attempts, WorkReturns(a) \/ CompleteClaim(a)
        PROVE  LocksHeld'
    <2>1. keyLock' = keyLock /\ rowLock' = rowLock /\ work' = work
      BY <1>8 DEF WorkReturns, CompleteClaim, Executor!WorkReturns, Executor!CompleteClaim
    <2>2. attempt'[a].pc \in {"complete", "commit"}
      BY <1>1, <1>8 DEF WorkReturns, CompleteClaim, Executor!WorkReturns, Executor!CompleteClaim,
                        Claims!Attempt
    <2>3. \A b \in Attempts \ {a} : attempt'[b] = attempt[b]
      BY <1>1, <1>8 DEF WorkReturns, CompleteClaim, Executor!WorkReturns, Executor!CompleteClaim
    <2>. QED BY <1>3, <2>1, <2>2, <2>3, LocksKept
  <1>9. ASSUME NEW a \in Attempts, Commit(a) \/ Fail(a)
        PROVE  LocksHeld'
    BY <1>1, <1>9, LocksKept
       DEF Commit, Fail, Unlocked, Executor!Commit, Executor!Fail, Executor!Unlocked
  <1>10. ASSUME NEW a \in Attempts, Refuse(a)
         PROVE  LocksHeld'
    BY <1>1, <1>3, <1>10, LocksKept DEF Refuse, AtWork, Executor!Fail, Executor!Unlocked
  <1>11. CASE (\E k \in RecordKeys : Expire(k)) \/ UNCHANGED vars
    BY <1>11 DEF Expire, Executor!Expire, vars, executorVars, LocksHeld, Claims!Working
  <1>. QED BY <1>5, <1>6, <1>7, <1>8, <1>9, <1>10, <1>11 DEF Next, Statement

(* However many commands run, under however many keys: never do all those   *)
(* under way wait.  Who holds a key waits for the tenant row at most, and   *)
(* who holds the row waits for nothing.                                     *)
THEOREM NobodyWaitsInACircle == Spec => []NoCircle
  <1>1. Init => LocksHeld
    <2>. SUFFICES ASSUME Init PROVE LocksHeld
      OBVIOUS
    <2>1. \A k \in RecordKeys : keyLock[k] = NoAttempt
      BY DEF Init, Executor!Init
    <2>. QED BY <2>1 DEF Init, LocksHeld
  <1>2. IndInv /\ LocksHeld => NoCircle
    <2>. SUFFICES ASSUME IndInv, LocksHeld, NEW a \in OpenAttempts, Waits(a)
                  PROVE  \E b \in OpenAttempts : ~Waits(b)
      BY DEF NoCircle
    <2>1. \A b \in Attempts : Claims!Working(b) => b \in OpenAttempts
      BY DEF OpenAttempts, Executor!Open, Claims!Working
    <2>2. a \in Attempts /\ attempt[a].pc # "new"
      BY DEF OpenAttempts, Executor!Open
    <2>3. CASE rowLock # NoAttempt
      <3>1. rowLock \in OpenAttempts
        BY <2>1, <2>3, Types DEF LocksHeld
      <3>2. ~Waits(rowLock)
        BY <2>3 DEF LocksHeld, Waits, AtWork, Claims!Working
      <3>. QED BY <3>1, <3>2
    <2>4. CASE rowLock = NoAttempt
      <3>1. attempt[a].key \in RecordKeys
        BY <2>2, Scopes DEF IndInv
      <3>2. keyLock[attempt[a].key] # NoAttempt
        BY <2>4 DEF Waits
      <3>3. keyLock[attempt[a].key] \in OpenAttempts /\ Claims!Working(keyLock[attempt[a].key])
        BY <2>1, <3>1, <3>2 DEF LocksHeld
      <3>4. ~Waits(keyLock[attempt[a].key])
        BY <2>4, <3>3 DEF Waits, Claims!Working
      <3>. QED BY <3>3, <3>4
    <2>. QED BY <2>3, <2>4
  <1>. QED BY <1>1, <1>2, LocksStep, Invariance, PTL DEF Spec

=============================================================================

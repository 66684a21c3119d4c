----------------------------- MODULE AuditTrail -----------------------------
(***************************************************************************)
(* What a tenant's handler leaves behind: the tenant command wrapper and   *)
(* the tenant-bound transaction (platform/tenant-context), the audit       *)
(* recorder with its field policy and the self-audited audit reader        *)
(* (platform/audit), and the event envelope (platform/event-envelope).     *)
(*                                                                         *)
(* A call is a command (write a row, record its evidence, append its       *)
(* event) or a read of the audit trail (read a page, record that it was    *)
(* read).  Its identity comes from its context.  Everything it writes is   *)
(* staged in its transaction until COMMIT, whose answer may be lost.  The  *)
(* adapter may bind the session to the wrong tenant, the store may return  *)
(* another tenant's events, any statement may fail, and the clock may be   *)
(* set back.                                                               *)
(***************************************************************************)
EXTENDS Naturals, Sequences, FiniteSets, SequencesExt

CONSTANTS Calls, Tenants, NoTenant,
          Payloads,       \* command inputs and event data
          NoSnapshot,     \* nothing given for `after`
          ForbiddenFields,\* names that look like secrets or card data
          PolicyFields,   \* createAuditPolicy's argument: fields by target type
          Values,         \* what may be recorded: fields with their values
          MaxScanDepth,   \* how deep payloads are looked into (16)
          MaxLimit,       \* the largest page (500)
          Limits,         \* bound: the page sizes asked for
          MaxTime         \* bound: the latest time

(* json: finite numbers, plain objects; identity: some key names a tenant;  *)
(* objects, values: depth of the innermost object and of the innermost      *)
(* value.                                                                   *)
Payload == [json : BOOLEAN, identity : BOOLEAN, objects : Nat, values : Nat]

(* A field's value: whether it is a scalar, holds a secret, was redacted.   *)
FieldValue == [scalar : BOOLEAN, sensitive : BOOLEAN, redacted : BOOLEAN, is : Nat]

ASSUME PayloadsAssumption == Payloads \subseteq Payload
ASSUME ValuesAssumption ==
  \A value \in Values : \A field \in DOMAIN value : value[field] \in FieldValue
ASSUME TenantsAssumption == NoTenant \notin Tenants
ASSUME BoundsAssumption == MaxScanDepth \in Nat /\ MaxLimit \in Nat \ {0} /\ MaxTime \in Nat

VARIABLES rows,    \* the rows commands wrote, committed
          trail,   \* audit_event, committed, in commit order
          sent,    \* the outbox: envelopes, committed
          answers, \* what calls answered with
          call,    \* the calls under way
          time     \* the process's clock

auditVars == <<rows, trail, sent, answers, call, time>>

Idle == [pc |-> "idle"]
Over == [pc |-> "over"]

AuditInit ==
  /\ rows = {}
  /\ trail = <<>>
  /\ sent = {}
  /\ answers = {}
  /\ call = [c \in Calls |-> Idle]
  /\ time = 0

-----------------------------------------------------------------------------
(* Payloads *)

(* Too deep to be looked into counts as naming a tenant. *)
ContainsTenantIdentity(payload) == payload.identity \/ payload.objects > MaxScanDepth

IsJsonCompatible(payload) == payload.json /\ payload.values <= MaxScanDepth

-----------------------------------------------------------------------------
(* The field policy *)

BuiltInFields == [AuditQuery |-> {"action", "result_count"}]

(* createAuditPolicy: the caller's entries come last. *)
Registry ==
  [type \in DOMAIN BuiltInFields \cup DOMAIN PolicyFields |->
     IF type \in DOMAIN PolicyFields THEN PolicyFields[type] ELSE BuiltInFields[type]]

(* It refuses secret-looking names, and the process does not start. *)
ASSUME PolicyAssumption ==
  \A type \in DOMAIN Registry : Registry[type] \cap ForbiddenFields = {}

Redacted(value) ==
  IF value.sensitive THEN [value EXCEPT !.sensitive = FALSE, !.redacted = TRUE] ELSE value

(* Mutation: what is not listed is recorded too. *)
AllFields(type, value) == [field \in DOMAIN value |-> Redacted(value[field])]

(* toSafeSnapshot: listed fields with scalar values, redacted. *)
ListedFields(type, value) ==
  [field \in {f \in Registry[type] \cap DOMAIN value : value[f].scalar} |-> Redacted(value[field])]

SafeSnapshot(type, value) ==
  IF value = NoSnapshot THEN NoSnapshot ELSE ListedFields(type, value)

-----------------------------------------------------------------------------
(* Contexts, evidence, envelopes *)

(* The actor is named after the tenant it acts for; the correlation id      *)
(* after the call.                                                          *)
ScopeOf(c) == [tenant |-> call[c].tenant, correlation |-> c]

(* What is recorded; its hash, which seals it against later alteration, is  *)
(* left out.                                                                *)
Evidence(c, action, occurred, type, snapshot) ==
  [scope |-> ScopeOf(c), action |-> action, occurred |-> occurred, recorded |-> time,
   target |-> type, after |-> snapshot]

(* recordForScope's and buildEventEnvelopeFor's checks. *)
CanRecord(occurred, type, after) ==
  occurred <= time /\ (after = NoSnapshot \/ type \in DOMAIN Registry)
CanEnvelop(payload) == IsJsonCompatible(payload) /\ ~ContainsTenantIdentity(payload)

(* The caller's clock is the one it read before. *)
Envelope(c) == [scope |-> ScopeOf(c), occurred |-> call[c].now, recorded |-> call[c].now]

-----------------------------------------------------------------------------
(* One call *)

CallAt(c, pc) == call[c].pc = pc
Staged == [row |-> FALSE, evidence |-> <<>>, envelopes |-> {}]

(* Nothing of a call that failed is left: its transaction rolls back. *)
EndCall(c) == call' = [call EXCEPT ![c] = Over] /\ UNCHANGED <<rows, trail, sent, answers, time>>

(* defineTenantCommand: without a context, or with a tenant named in the    *)
(* input, the handler does not run.                                         *)
BeginCommand(c, tenant, input, data, target, after) ==
  /\ CallAt(c, "idle")
  /\ call' = [call EXCEPT ![c] =
                IF tenant = NoTenant \/ ContainsTenantIdentity(input) THEN Over
                ELSE [pc |-> "begun", kind |-> "command", tenant |-> tenant, data |-> data,
                      target |-> target, after |-> after, now |-> time,
                      bound |-> NoTenant, staged |-> Staged]]
  /\ UNCHANGED <<rows, trail, sent, answers, time>>

(* queryAudit before its transaction: the context, authorize, the limit.    *)
BeginRead(c, tenant, authorized, limit) ==
  /\ CallAt(c, "idle")
  /\ call' = [call EXCEPT ![c] =
                IF tenant = NoTenant \/ ~authorized \/ limit \notin 1 .. MaxLimit THEN Over
                ELSE [pc |-> "begun", kind |-> "read", tenant |-> tenant, limit |-> limit,
                      bound |-> NoTenant, staged |-> Staged, page |-> <<>>]]
  /\ UNCHANGED <<rows, trail, sent, answers, time>>

(* inTenantTransaction: the adapter's binding is verified. *)
OpenTransaction(c, bound) ==
  /\ CallAt(c, "begun")
  /\ call' = IF bound = call[c].tenant THEN [call EXCEPT ![c].pc = "open", ![c].bound = bound]
             ELSE [call EXCEPT ![c] = Over]
  /\ UNCHANGED <<rows, trail, sent, answers, time>>

(* The command's own write, under the bound tenant. *)
WriteRow(c) ==
  /\ CallAt(c, "open") /\ call[c].kind = "command"
  /\ call' = [call EXCEPT ![c].pc = "worked", ![c].staged.row = TRUE]
  /\ UNCHANGED <<rows, trail, sent, answers, time>>

(* The store's page for a tenant: its first `limit` committed events, or    *)
(* those of anyone when the store leaks.                                    *)
PageOf(tenant, limit, leaks) ==
  LET mine == SelectSeq(trail, LAMBDA e : leaks \/ e.scope.tenant = tenant)
  IN  SubSeq(mine, 1, IF Len(mine) < limit THEN Len(mine) ELSE limit)

(* reads.query, and the check that every event is the tenant's. *)
ReadPage(c, leaks) ==
  LET page == PageOf(call[c].tenant, call[c].limit, leaks)
      foreign == \E i \in DOMAIN page : page[i].scope.tenant # call[c].tenant
  IN  /\ CallAt(c, "open") /\ call[c].kind = "read"
      /\ call' = IF foreign THEN [call EXCEPT ![c] = Over]
                 ELSE [call EXCEPT ![c].pc = "worked", ![c].page = page]
      /\ UNCHANGED <<rows, trail, sent, answers, time>>

(* What the call records: the change, or that the trail was read. *)
EvidenceOf(c) ==
  IF call[c].kind = "command"
  THEN Evidence(c, "changed", call[c].now, call[c].target,
                SafeSnapshot(call[c].target, call[c].after))
  ELSE Evidence(c, "audit.read", time, "AuditQuery",
                ListedFields("AuditQuery",
                  [result_count |-> [scalar |-> TRUE, sensitive |-> FALSE, redacted |-> FALSE,
                                     is |-> Len(call[c].page)]]))

MayRecord(c) ==
  /\ call[c].kind = "command" => CanRecord(call[c].now, call[c].target, call[c].after)
  /\ call[c].tenant = call[c].bound

(* Mutation: a failed append is reported and swallowed. *)
RecordOrGoOn(c, appended) ==
  /\ CallAt(c, "worked")
  /\ call' = IF appended /\ MayRecord(c)
             THEN [call EXCEPT ![c].pc = "recorded", ![c].staged.evidence = <<EvidenceOf(c)>>]
             ELSE [call EXCEPT ![c].pc = "recorded"]
  /\ UNCHANGED <<rows, trail, sent, answers, time>>

(* recordForCurrentContext: refused evidence and a failed append (after     *)
(* onWriteFailure) propagate.                                               *)
Record(c, appended) ==
  /\ CallAt(c, "worked")
  /\ call' = IF appended /\ MayRecord(c)
             THEN [call EXCEPT ![c].pc = "recorded", ![c].staged.evidence = <<EvidenceOf(c)>>]
             ELSE [call EXCEPT ![c] = Over]
  /\ UNCHANGED <<rows, trail, sent, answers, time>>

(* buildEventEnvelope and outbox.append. *)
AppendEnvelope(c) ==
  /\ CallAt(c, "recorded") /\ call[c].kind = "command"
  /\ call' = IF CanEnvelop(call[c].data) /\ call[c].tenant = call[c].bound
             THEN [call EXCEPT ![c].pc = "appended", ![c].staged.envelopes = {Envelope(c)}]
             ELSE [call EXCEPT ![c] = Over]
  /\ UNCHANGED <<rows, trail, sent, answers, time>>

MayCommit(c) == CallAt(c, "appended") \/ (CallAt(c, "recorded") /\ call[c].kind = "read")

(* COMMIT takes effect.  When its answer is lost the call throws all the    *)
(* same; otherwise it answers, a read with its page.                        *)
CommitCall(c, answered) ==
  LET x == call[c]
  IN  /\ MayCommit(c)
      /\ rows' = IF x.staged.row THEN rows \cup {[tenant |-> x.bound, correlation |-> c]} ELSE rows
      /\ trail' = trail \o x.staged.evidence
      /\ sent' = sent \cup x.staged.envelopes
      /\ answers' = IF answered /\ x.kind = "read"
                    THEN answers \cup {[scope |-> ScopeOf(c), page |-> x.page]} ELSE answers
      /\ call' = [call EXCEPT ![c] = Over]
      /\ UNCHANGED time

(* A statement fails, COMMIT included: rollback. *)
FailCall(c) == call[c].pc \notin {"idle", "over"} /\ EndCall(c)

(* The wall clock moves on, or is set back. *)
ClockMoves(t) ==
  /\ t \in {time - 1, time + 1} \cap 0 .. MaxTime
  /\ time' = t
  /\ UNCHANGED <<rows, trail, sent, answers, call>>

-----------------------------------------------------------------------------

AuditNext ==
  \/ \E c \in Calls :
       \/ \E tenant \in Tenants \cup {NoTenant} :
            \/ \E input, data \in Payloads, target \in DOMAIN Registry \cup {"Unregistered"},
                  after \in Values \cup {NoSnapshot} : BeginCommand(c, tenant, input, data, target, after)
            \/ \E authorized \in BOOLEAN, limit \in Limits : BeginRead(c, tenant, authorized, limit)
       \/ \E bound \in Tenants : OpenTransaction(c, bound)
       \/ WriteRow(c)
       \/ \E leaks \in BOOLEAN : ReadPage(c, leaks)
       \/ \E appended \in BOOLEAN : Record(c, appended)
       \/ AppendEnvelope(c)
       \/ \E answered \in BOOLEAN : CommitCall(c, answered)
       \/ FailCall(c)
  \/ \E t \in 0 .. MaxTime : ClockMoves(t)

AuditSpec == AuditInit /\ [][AuditNext]_auditVars

-----------------------------------------------------------------------------
(* Safety *)

Events == Range(trail)

(* 'An audited command without its audit record cannot commit', and nothing *)
(* commits without its command: a row, one audit event and one envelope of  *)
(* the same call go together, under the tenant of the call's context,       *)
(* whichever statement fails, whatever the adapter binds and however the    *)
(* clock is set.  The evidence did not happen after it was recorded and     *)
(* shows listed fields only, secrets redacted.                              *)
EvidenceWithEffect ==
  LET changes == {e \in Events : e.action = "changed"}
      scopes == {e.scope : e \in changes}
  IN  /\ scopes = rows
      /\ scopes = {envelope.scope : envelope \in sent}
      /\ \A i, j \in DOMAIN trail : trail[i].scope = trail[j].scope => i = j
      /\ \A e \in Events :
           /\ e.occurred <= e.recorded
           /\ e.after # NoSnapshot => \A field \in DOMAIN e.after :
                /\ field \in Registry[e.target] \ ForbiddenFields
                /\ e.after[field].scalar /\ ~e.after[field].sensitive

(* 'Bulk reading of audit history cannot happen silently': every page that  *)
(* was answered is in the trail as a read by that call, with its size, and  *)
(* holds only events of the call's tenant.                                  *)
ReadsAreEvidenced ==
  \A answer \in answers :
    /\ \A i \in DOMAIN answer.page : answer.page[i].scope.tenant = answer.scope.tenant
    /\ \E e \in Events :
         /\ e.action = "audit.read" /\ e.scope = answer.scope
         /\ "result_count" \in Registry["AuditQuery"] =>
              e.after.result_count.is = Len(answer.page)

=============================================================================

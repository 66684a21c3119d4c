--------------------------- MODULE PlatformProofs ---------------------------
(***************************************************************************)
(* The audit trail, the database migrations, the tenant cache and money,   *)
(* for any calls, tenants, policies, runs, releases, addresses, capacity,  *)
(* decimals, shares, limits on digits and scale.                           *)
(*                                                                         *)
(* Audit trail: what a call has staged at each of its steps, so that what  *)
(* COMMIT publishes is complete; and only a call that is over is in the    *)
(* trail, so that its evidence is the first of its scope.                  *)
(*                                                                         *)
(* Migrations: only the holder of the advisory lock reads or writes, so    *)
(* what its SELECT found still holds at its COMMIT; and it works through   *)
(* its files in order, so that everything before the current file is       *)
(* recorded.                                                               *)
(*                                                                         *)
(* Cache: a key tells its address, read from its last colon; the Map keeps *)
(* its entries in the order in which they were last used, so that whatever *)
(* stands behind the first entry was used after it.                        *)
(*                                                                         *)
(* Money: each mode allows one value for a fraction, roundedQuotient gives *)
(* it, and a common factor does not change it; what allocate has left over *)
(* is less than the number of shares with a remainder, which are the first *)
(* of its order.                                                           *)
(***************************************************************************)
EXTENDS AuditTrail, TenantCache, Migrations, Money, FiniteSetTheorems, SequenceTheorems, TLAPS

(* The audit trail. *)

CommandFields == {"pc", "kind", "tenant", "data", "target", "after", "now", "bound", "staged"}
ReadFields == {"pc", "kind", "tenant", "limit", "bound", "staged", "page"}
StagedFields == {"row", "evidence", "envelopes"}

ScopeFor(c, x) == [tenant |-> x.tenant, correlation |-> c]

(* Only listed fields, secrets redacted, of a type the policy knows. *)
IsSafe(type, snapshot) ==
  \A field \in DOMAIN snapshot :
    /\ field \in Registry[type] \ ForbiddenFields
    /\ snapshot[field].scalar
    /\ ~snapshot[field].sensitive

(* Evidence as it may be staged. *)
Sound(event) ==
  /\ event.occurred <= event.recorded
  /\ event.after # NoSnapshot => IsSafe(event.target, event.after)

(* Evidence that a page was read says how long it was. *)
Counts(event, page) ==
  "result_count" \in Registry["AuditQuery"] => event.after.result_count.is = Len(page)

OwnPage(tenant, page) == \A i \in DOMAIN page : page[i].scope.tenant = tenant

(* What a command under way has staged, step by step. *)
CommandOK(c, x) ==
  /\ DOMAIN x = CommandFields
  /\ DOMAIN x.staged = StagedFields
  /\ x.kind = "command"
  /\ x.after \in Values \cup {NoSnapshot}
  /\ x.pc \in {"begun", "open", "worked", "recorded", "appended"}
  /\ x.pc # "begun" => x.bound = x.tenant
  /\ x.pc \in {"worked", "recorded", "appended"} => x.staged.row = TRUE
  /\ x.pc \in {"recorded", "appended"} =>
       \E event : /\ x.staged.evidence = <<event>>
                  /\ event.scope = ScopeFor(c, x)
                  /\ event.action = "changed"
                  /\ Sound(event)
  /\ x.pc = "appended" =>
       \E envelope : x.staged.envelopes = {envelope} /\ envelope.scope = ScopeFor(c, x)

(* The same of a read: no row, no envelope. *)
ReadOK(c, x) ==
  /\ DOMAIN x = ReadFields
  /\ DOMAIN x.staged = StagedFields
  /\ x.kind = "read"
  /\ x.pc \in {"begun", "open", "worked", "recorded"}
  /\ x.pc # "begun" => x.bound = x.tenant
  /\ x.staged.row = FALSE
  /\ x.staged.envelopes = {}
  /\ x.pc \in {"worked", "recorded"} => OwnPage(x.tenant, x.page)
  /\ x.pc = "recorded" =>
       \E event : /\ x.staged.evidence = <<event>>
                  /\ event.scope = ScopeFor(c, x)
                  /\ event.action = "audit.read"
                  /\ Sound(event)
                  /\ Counts(event, x.page)

CallOK(c, x) == x = Idle \/ x = Over \/ CommandOK(c, x) \/ ReadOK(c, x)

CallsOK == DOMAIN call = Calls /\ \A c \in Calls : CallOK(c, call[c])

(* Only a call that is over has evidence in the trail. *)
TrailOK ==
  /\ trail \in Seq(Events)
  /\ \A i \in DOMAIN trail :
       /\ trail[i].scope.correlation \in Calls
       /\ call[trail[i].scope.correlation] = Over

AuditInv == time \in Nat /\ CallsOK /\ TrailOK /\ EvidenceWithEffect /\ ReadsAreEvidenced

-----------------------------------------------------------------------------
(* A redacted value keeps its shape and holds no secret. *)
IsRedactable(value) == Redacted(value).scalar = value.scalar /\ ~Redacted(value).sensitive

LEMMA RedactedIsSafe ==
  ASSUME NEW value \in FieldValue
  PROVE  IsRedactable(value)
  BY DEF IsRedactable, Redacted, FieldValue

(* What the policy lets through is safe to record. *)
LEMMA SnapshotIsSafe ==
  ASSUME NEW type \in DOMAIN Registry, NEW value,
         \A field \in DOMAIN value : IsRedactable(value[field])
  PROVE  IsSafe(type, ListedFields(type, value))
<1> DEFINE listed == {f \in Registry[type] \cap DOMAIN value : value[f].scalar}
<1> SUFFICES ASSUME NEW field \in listed
             PROVE  /\ field \in Registry[type] \ ForbiddenFields
                    /\ ListedFields(type, value)[field].scalar
                    /\ ~ListedFields(type, value)[field].sensitive
  BY DEF IsSafe, ListedFields
<1>1. field \in Registry[type] \ ForbiddenFields
  BY PolicyAssumption
<1>2. ListedFields(type, value)[field] = Redacted(value[field])
  BY DEF ListedFields
<1> QED
  BY <1>1, <1>2 DEF IsRedactable

(* The initial state: nothing committed, no call begun. *)
LEMMA AuditInitHolds == AuditInit => AuditInv
<1> SUFFICES ASSUME AuditInit PROVE AuditInv
  OBVIOUS
<1>1. CallsOK
  BY DEF AuditInit, CallsOK, CallOK
<1>2. Events = {}
  BY DEF AuditInit, Events, Range
<1>3. TrailOK
  BY DEF AuditInit, TrailOK
<1>4. EvidenceWithEffect
  BY <1>2 DEF AuditInit, EvidenceWithEffect
<1> QED
  BY <1>1, <1>3, <1>4 DEF AuditInit, AuditInv, ReadsAreEvidenced

(* A step that commits nothing leaves the effects as they are; it has to    *)
(* leave its call in order.                                                 *)
LEMMA QuietStep ==
  ASSUME AuditInv, NEW c \in Calls, NEW x, call[c] # Over, CallOK(c, x),
         call' = [call EXCEPT ![c] = x],
         UNCHANGED <<rows, trail, sent, answers, time>>
  PROVE  AuditInv'
<1>1. CallsOK'
  BY DEF AuditInv, CallsOK
<1>2. Events' = Events
  BY DEF Events, Range
<1>3. TrailOK'
  BY <1>2 DEF AuditInv, TrailOK, CallsOK
<1>4. EvidenceWithEffect'
  BY <1>2 DEF AuditInv, EvidenceWithEffect
<1>5. ReadsAreEvidenced'
  BY <1>2 DEF AuditInv, ReadsAreEvidenced
<1> QED
  BY <1>1, <1>3, <1>4, <1>5 DEF AuditInv

(* A call that ends without COMMIT. *)
LEMMA EndStep ==
  ASSUME AuditInv, NEW c \in Calls, call[c] # Over, EndCall(c)
  PROVE  AuditInv'
  BY QuietStep DEF EndCall, CallOK

-----------------------------------------------------------------------------
(* The steps, one lemma each. *)

(* A command begins with nothing staged. *)
LEMMA BeginCommandKept ==
  ASSUME AuditInv, NEW c \in Calls, NEW tenant, NEW input, NEW data, NEW target,
         NEW after \in Values \cup {NoSnapshot}, BeginCommand(c, tenant, input, data, target, after)
  PROVE  AuditInv'
<1> DEFINE x == [pc |-> "begun", kind |-> "command", tenant |-> tenant, data |-> data,
                 target |-> target, after |-> after, now |-> time,
                 bound |-> NoTenant, staged |-> Staged]
<1>1. call[c] # Over
  BY DEF BeginCommand, CallAt, Over
<1>2. CommandOK(c, x)
  BY DEF CommandOK, Staged, CommandFields, StagedFields
<1>3. \/ call' = [call EXCEPT ![c] = x]
      \/ call' = [call EXCEPT ![c] = Over]
  BY DEF BeginCommand
<1>4. UNCHANGED <<rows, trail, sent, answers, time>>
  BY DEF BeginCommand
<1> HIDE DEF x
<1> QED
  BY <1>1, <1>2, <1>3, <1>4, QuietStep DEF CallOK

(* So does a read. *)
LEMMA BeginReadKept ==
  ASSUME AuditInv, NEW c \in Calls, NEW tenant, NEW authorized, NEW limit,
         BeginRead(c, tenant, authorized, limit)
  PROVE  AuditInv'
<1> DEFINE x == [pc |-> "begun", kind |-> "read", tenant |-> tenant, limit |-> limit,
                 bound |-> NoTenant, staged |-> Staged, page |-> <<>>]
<1>1. call[c] # Over
  BY DEF BeginRead, CallAt, Over
<1>2. ReadOK(c, x)
  BY DEF ReadOK, Staged, ReadFields, StagedFields
<1>3. \/ call' = [call EXCEPT ![c] = x]
      \/ call' = [call EXCEPT ![c] = Over]
  BY DEF BeginRead
<1>4. UNCHANGED <<rows, trail, sent, answers, time>>
  BY DEF BeginRead
<1> HIDE DEF x
<1> QED
  BY <1>1, <1>2, <1>3, <1>4, QuietStep DEF CallOK

(* The transaction is open only when it is bound to the call's tenant. *)
LEMMA OpenTransactionKept ==
  ASSUME AuditInv, NEW c \in Calls, NEW bound, OpenTransaction(c, bound)
  PROVE  AuditInv'
<1> DEFINE x == [call[c] EXCEPT !.pc = "open", !.bound = bound]
<1>1. call[c].pc = "begun" /\ call[c] # Over /\ call[c] # Idle
  BY DEF OpenTransaction, CallAt, Over, Idle
<1>2. CommandOK(c, call[c]) \/ ReadOK(c, call[c])
  BY <1>1 DEF AuditInv, CallsOK, CallOK
<1>3. ASSUME bound = call[c].tenant
      PROVE  CallOK(c, x)
  <2>1. CASE CommandOK(c, call[c])
    <3>1. CommandOK(c, x)
      BY <1>3, <2>1 DEF CommandOK, CommandFields
    <3> QED
      BY <3>1 DEF CallOK
  <2>2. CASE ReadOK(c, call[c])
    <3>1. ReadOK(c, x)
      BY <1>3, <2>2 DEF ReadOK, ReadFields
    <3> QED
      BY <3>1 DEF CallOK
  <2> QED
    BY <1>2, <2>1, <2>2
<1>4. \/ bound = call[c].tenant /\ call' = [call EXCEPT ![c] = x]
      \/ call' = [call EXCEPT ![c] = Over]
  BY DEF OpenTransaction
<1>5. UNCHANGED <<rows, trail, sent, answers, time>>
  BY DEF OpenTransaction
<1> HIDE DEF x
<1> QED
  BY <1>1, <1>3, <1>4, <1>5, QuietStep DEF CallOK

(* The row is staged. *)
LEMMA WriteRowKept ==
  ASSUME AuditInv, NEW c \in Calls, WriteRow(c)
  PROVE  AuditInv'
<1> DEFINE x == [call[c] EXCEPT !.pc = "worked", !.staged.row = TRUE]
<1>1. call[c].pc = "open" /\ call[c].kind = "command" /\ call[c] # Over /\ call[c] # Idle
  BY DEF WriteRow, CallAt, Over, Idle
<1>2. CommandOK(c, call[c])
  BY <1>1 DEF AuditInv, CallsOK, CallOK, ReadOK
<1>3. CommandOK(c, x)
  BY <1>1, <1>2 DEF CommandOK, CommandFields, StagedFields
<1>4. call' = [call EXCEPT ![c] = x]
  BY DEF WriteRow
<1>5. UNCHANGED <<rows, trail, sent, answers, time>>
  BY DEF WriteRow
<1> HIDE DEF x
<1> QED
  BY <1>1, <1>3, <1>4, <1>5, QuietStep DEF CallOK

(* A page is kept only when all of it is the tenant's. *)
LEMMA ReadPageKept ==
  ASSUME AuditInv, NEW c \in Calls, NEW leaks, ReadPage(c, leaks)
  PROVE  AuditInv'
<1>1. PICK page : page = PageOf(call[c].tenant, call[c].limit, leaks)
  OBVIOUS
<1> DEFINE x == [call[c] EXCEPT !.pc = "worked", !.page = page]
<1>2. call[c].pc = "open" /\ call[c].kind = "read" /\ call[c] # Over /\ call[c] # Idle
  BY DEF ReadPage, CallAt, Over, Idle
<1>3. ReadOK(c, call[c])
  BY <1>2 DEF AuditInv, CallsOK, CallOK, CommandOK
<1>4. ASSUME OwnPage(call[c].tenant, page)
      PROVE  ReadOK(c, x)
  BY <1>2, <1>3, <1>4 DEF ReadOK, ReadFields
<1>5. \/ OwnPage(call[c].tenant, page) /\ call' = [call EXCEPT ![c] = x]
      \/ call' = [call EXCEPT ![c] = Over]
  BY <1>1 DEF ReadPage, OwnPage
<1>6. UNCHANGED <<rows, trail, sent, answers, time>>
  BY DEF ReadPage
<1> HIDE DEF x
<1> QED
  BY <1>2, <1>4, <1>5, <1>6, QuietStep DEF CallOK

(* What a command records: its change, under its context, safe. *)
LEMMA CommandEvidence ==
  ASSUME AuditInv, NEW c \in Calls, CommandOK(c, call[c]), MayRecord(c)
  PROVE  /\ EvidenceOf(c).scope = ScopeFor(c, call[c])
         /\ EvidenceOf(c).action = "changed"
         /\ Sound(EvidenceOf(c))
<1>1. PICK event : event = EvidenceOf(c)
  OBVIOUS
<1>2. call[c].kind = "command" /\ call[c].after \in Values \cup {NoSnapshot}
  BY DEF CommandOK
<1>3. CanRecord(call[c].now, call[c].target, call[c].after)
  BY <1>2 DEF MayRecord
<1>4. PICK snapshot : snapshot = SafeSnapshot(call[c].target, call[c].after)
  OBVIOUS
<1>5. event = [scope |-> ScopeFor(c, call[c]), action |-> "changed", occurred |-> call[c].now,
               recorded |-> time, target |-> call[c].target, after |-> snapshot]
  BY <1>1, <1>2, <1>4 DEF EvidenceOf, Evidence, ScopeOf, ScopeFor
<1>6. ASSUME snapshot # NoSnapshot
      PROVE  IsSafe(call[c].target, snapshot)
  <2>1. call[c].after # NoSnapshot /\ snapshot = ListedFields(call[c].target, call[c].after)
    BY <1>4, <1>6 DEF SafeSnapshot
  <2>2. call[c].target \in DOMAIN Registry
    BY <1>3, <2>1 DEF CanRecord
  <2>3. \A field \in DOMAIN call[c].after : IsRedactable(call[c].after[field])
    BY <1>2, <2>1, ValuesAssumption, RedactedIsSafe
  <2> QED
    BY <2>1, <2>2, <2>3, SnapshotIsSafe
<1>7. call[c].now <= time
  BY <1>3 DEF CanRecord
<1> QED
  BY <1>1, <1>5, <1>6, <1>7 DEF Sound

(* What a read records: that it was read, and how much. *)
LEMMA ReadEvidence ==
  ASSUME AuditInv, NEW c \in Calls, ReadOK(c, call[c])
  PROVE  /\ EvidenceOf(c).scope = ScopeFor(c, call[c])
         /\ EvidenceOf(c).action = "audit.read"
         /\ Sound(EvidenceOf(c))
         /\ Counts(EvidenceOf(c), call[c].page)
<1>1. PICK event : event = EvidenceOf(c)
  OBVIOUS
<1>2. PICK size : size = Len(call[c].page)
  OBVIOUS
<1> DEFINE count == [scalar |-> TRUE, sensitive |-> FALSE, redacted |-> FALSE, is |-> size]
           asked == [result_count |-> count]
<1>3. PICK snapshot : snapshot = ListedFields("AuditQuery", asked)
  OBVIOUS
<1>4. call[c].kind = "read"
  BY DEF ReadOK
<1>5. event = [scope |-> ScopeFor(c, call[c]), action |-> "audit.read", occurred |-> time,
               recorded |-> time, target |-> "AuditQuery", after |-> snapshot]
  BY <1>1, <1>2, <1>3, <1>4 DEF EvidenceOf, Evidence, ScopeOf, ScopeFor
<1>6. Redacted(count) = count
  BY DEF Redacted
<1>7. IsSafe("AuditQuery", snapshot)
  <2>1. "AuditQuery" \in DOMAIN Registry
    BY DEF Registry, BuiltInFields
  <2>2. \A field \in DOMAIN asked : IsRedactable(asked[field])
    <3>1. ~count.sensitive
      OBVIOUS
    <3>2. asked["result_count"] = count /\ DOMAIN asked = {"result_count"}
      OBVIOUS
    <3> HIDE DEF asked, count
    <3>3. IsRedactable(count)
      BY <1>6, <3>1 DEF IsRedactable
    <3> QED
      BY <3>2, <3>3
  <2> HIDE DEF asked
  <2> QED
    BY <1>3, <2>1, <2>2, SnapshotIsSafe
<1>8. "result_count" \in Registry["AuditQuery"] => snapshot.result_count.is = size
  <2> SUFFICES ASSUME "result_count" \in Registry["AuditQuery"]
               PROVE  snapshot["result_count"] = count
    OBVIOUS
  <2>1. asked["result_count"] = count /\ DOMAIN asked = {"result_count"}
    OBVIOUS
  <2> QED
    BY <1>3, <1>6, <2>1 DEF ListedFields
<1>9. time <= time
  BY DEF AuditInv
<1> QED
  BY <1>1, <1>2, <1>5, <1>7, <1>8, <1>9 DEF Sound, Counts

(* Evidence is staged, or the call is over. *)
LEMMA RecordKept ==
  ASSUME AuditInv, NEW c \in Calls, NEW appended, Record(c, appended)
  PROVE  AuditInv'
<1>1. PICK event : event = EvidenceOf(c)
  OBVIOUS
<1> DEFINE x == [call[c] EXCEPT !.pc = "recorded", !.staged.evidence = <<event>>]
<1>2. call[c].pc = "worked" /\ call[c] # Over /\ call[c] # Idle
  BY DEF Record, CallAt, Over, Idle
<1>3. CommandOK(c, call[c]) \/ ReadOK(c, call[c])
  BY <1>2 DEF AuditInv, CallsOK, CallOK
<1>4. ASSUME MayRecord(c)
      PROVE  CallOK(c, x)
  <2>1. CASE CommandOK(c, call[c])
    <3>1. event.scope = ScopeFor(c, call[c]) /\ event.action = "changed" /\ Sound(event)
      BY <1>1, <1>4, <2>1, CommandEvidence
    <3>2. ScopeFor(c, x) = ScopeFor(c, call[c])
      BY <2>1 DEF ScopeFor, CommandOK, CommandFields
    <3>3. x.staged.evidence = <<event>>
      BY <2>1 DEF CommandOK, CommandFields, StagedFields
    <3>4. CommandOK(c, x)
      BY <1>2, <2>1, <3>1, <3>2, <3>3 DEF CommandOK, CommandFields, StagedFields
    <3> QED
      BY <3>4 DEF CallOK
  <2>2. CASE ReadOK(c, call[c])
    <3>1. /\ event.scope = ScopeFor(c, call[c]) /\ event.action = "audit.read"
          /\ Sound(event) /\ Counts(event, call[c].page)
      BY <1>1, <2>2, ReadEvidence
    <3>2. ScopeFor(c, x) = ScopeFor(c, call[c]) /\ x.page = call[c].page
      BY <2>2 DEF ScopeFor, ReadOK, ReadFields
    <3>3. x.staged.evidence = <<event>>
      BY <2>2 DEF ReadOK, ReadFields, StagedFields
    <3>4. ReadOK(c, x)
      BY <1>2, <2>2, <3>1, <3>2, <3>3 DEF ReadOK, ReadFields, StagedFields
    <3> QED
      BY <3>4 DEF CallOK
  <2> QED
    BY <1>3, <2>1, <2>2
<1>5. \/ MayRecord(c) /\ call' = [call EXCEPT ![c] = x]
      \/ call' = [call EXCEPT ![c] = Over]
  BY <1>1 DEF Record
<1>6. UNCHANGED <<rows, trail, sent, answers, time>>
  BY DEF Record
<1> HIDE DEF x
<1> QED
  BY <1>2, <1>4, <1>5, <1>6, QuietStep DEF CallOK

(* The envelope is of the same scope as the evidence. *)
LEMMA AppendEnvelopeKept ==
  ASSUME AuditInv, NEW c \in Calls, AppendEnvelope(c)
  PROVE  AuditInv'
<1>1. PICK envelope : envelope = Envelope(c)
  OBVIOUS
<1> DEFINE x == [call[c] EXCEPT !.pc = "appended", !.staged.envelopes = {envelope}]
<1>2. call[c].pc = "recorded" /\ call[c].kind = "command" /\ call[c] # Over /\ call[c] # Idle
  BY DEF AppendEnvelope, CallAt, Over, Idle
<1>3. CommandOK(c, call[c])
  BY <1>2 DEF AuditInv, CallsOK, CallOK, ReadOK
<1>4. envelope.scope = ScopeFor(c, call[c])
  BY <1>1 DEF Envelope, ScopeOf, ScopeFor
<1>5. ScopeFor(c, x) = ScopeFor(c, call[c])
  BY <1>3 DEF ScopeFor, CommandOK, CommandFields
<1>6. x.staged.envelopes = {envelope} /\ x.staged.evidence = call[c].staged.evidence
  BY <1>3 DEF CommandOK, CommandFields, StagedFields
<1>7. CommandOK(c, x)
  BY <1>2, <1>3, <1>4, <1>5, <1>6 DEF CommandOK, CommandFields, StagedFields
<1>8. \/ call' = [call EXCEPT ![c] = x]
      \/ call' = [call EXCEPT ![c] = Over]
  BY <1>1 DEF AppendEnvelope
<1>9. UNCHANGED <<rows, trail, sent, answers, time>>
  BY DEF AppendEnvelope
<1> HIDE DEF x
<1> QED
  BY <1>2, <1>7, <1>8, <1>9, QuietStep DEF CallOK

(* COMMIT: one event more, of a call no event is of yet. *)
LEMMA TrailGrows ==
  ASSUME AuditInv, NEW c \in Calls, NEW event, event.scope.correlation = c, Sound(event),
         call[c] # Over, call' = [call EXCEPT ![c] = Over], trail' = trail \o <<event>>
  PROVE  /\ TrailOK'
         /\ Events' = Events \cup {event}
         /\ \A i, j \in DOMAIN trail' : trail'[i].scope = trail'[j].scope => i = j
         /\ \A e \in Events' : Sound(e)
<1>1. trail \in Seq(Events) /\ Events = {trail[i] : i \in DOMAIN trail}
  BY DEF AuditInv, TrailOK, Events, Range
<1>2. PICK n : n = Len(trail)
  OBVIOUS
<1>3. n \in Nat /\ DOMAIN trail = 1 .. n /\ DOMAIN trail' = 1 .. n + 1 /\ trail'[n + 1] = event
  BY <1>1, <1>2
<1>4. \A i \in 1 .. n : trail'[i] = trail[i]
  BY <1>1, <1>2
<1>5. Events' = {trail'[i] : i \in 1 .. n + 1}
  BY <1>3 DEF Events, Range
<1>6. Events' = Events \cup {event}
  BY <1>1, <1>3, <1>4, <1>5
<1>7. TrailOK'
  <2>1. trail' \in Seq(Events')
    <3>1. trail \in Seq(Events \cup {event}) /\ <<event>> \in Seq(Events \cup {event})
      BY <1>1
    <3> QED
      BY <1>6, <3>1
  <2>2. ASSUME NEW i \in DOMAIN trail'
        PROVE  trail'[i].scope.correlation \in Calls /\ call'[trail'[i].scope.correlation] = Over
    <3>1. CASE i \in 1 .. n
      BY <1>3, <1>4, <3>1 DEF AuditInv, TrailOK, CallsOK
    <3>2. CASE i = n + 1
      BY <1>3, <3>2 DEF AuditInv, CallsOK
    <3> QED
      BY <1>3, <3>1, <3>2
  <2> QED
    BY <2>1, <2>2 DEF TrailOK
<1>8. \A i \in 1 .. n : trail[i].scope # event.scope
  BY <1>3 DEF AuditInv, TrailOK
<1>9. \A i, j \in DOMAIN trail' : trail'[i].scope = trail'[j].scope => i = j
  <2> SUFFICES ASSUME NEW i \in 1 .. n + 1, NEW j \in 1 .. n + 1,
                      trail'[i].scope = trail'[j].scope
               PROVE  i = j
    BY <1>3
  <2>1. \A k, l \in 1 .. n : trail[k].scope = trail[l].scope => k = l
    BY <1>3 DEF AuditInv, EvidenceWithEffect
  <2> QED
    BY <1>3, <1>4, <1>8, <2>1
<1>10. \A e \in Events' : Sound(e)
  BY <1>6 DEF AuditInv, EvidenceWithEffect, Sound, IsSafe
<1> QED
  BY <1>6, <1>7, <1>9, <1>10

(* COMMIT of a command: a row, an event and an envelope of one scope. *)
LEMMA CommitCommandKept ==
  ASSUME AuditInv, NEW c \in Calls, NEW answered, CommitCall(c, answered), CallAt(c, "appended"),
         CommandOK(c, call[c])
  PROVE  AuditInv'
<1>1. PICK scope : scope = ScopeFor(c, call[c])
  OBVIOUS
<1>2. PICK event : /\ call[c].staged.evidence = <<event>> /\ event.scope = scope
                   /\ event.action = "changed" /\ Sound(event)
  BY <1>1 DEF CommandOK, CallAt
<1>3. PICK envelope : call[c].staged.envelopes = {envelope} /\ envelope.scope = scope
  BY <1>1 DEF CommandOK, CallAt
<1>4. scope.correlation = c /\ scope = [tenant |-> call[c].bound, correlation |-> c]
  BY <1>1 DEF ScopeFor, CommandOK, CallAt
<1>5. call[c].kind = "command" /\ call[c].staged.row = TRUE /\ call[c] # Over
  BY DEF CommandOK, CallAt, Over
<1>6. /\ rows' = rows \cup {scope} /\ trail' = trail \o <<event>>
      /\ sent' = sent \cup {envelope} /\ answers' = answers
      /\ call' = [call EXCEPT ![c] = Over] /\ time' = time
  BY <1>2, <1>3, <1>4, <1>5 DEF CommitCall
<1>7. /\ TrailOK' /\ Events' = Events \cup {event}
      /\ \A i, j \in DOMAIN trail' : trail'[i].scope = trail'[j].scope => i = j
      /\ \A e \in Events' : Sound(e)
  BY <1>2, <1>4, <1>5, <1>6, TrailGrows
<1>8. EvidenceWithEffect'
  <2>1. rows = {e.scope : e \in {f \in Events : f.action = "changed"}}
    BY DEF AuditInv, EvidenceWithEffect
  <2>2. rows = {e.scope : e \in sent}
    BY DEF AuditInv, EvidenceWithEffect
  <2>3. rows' = {e.scope : e \in {f \in Events' : f.action = "changed"}}
    BY <1>2, <1>6, <1>7, <2>1
  <2>4. rows' = {e.scope : e \in sent'}
    BY <1>3, <1>6, <2>2
  <2> QED
    BY <1>7, <2>3, <2>4 DEF EvidenceWithEffect, Sound, IsSafe
<1>9. ReadsAreEvidenced'
  BY <1>6, <1>7 DEF AuditInv, ReadsAreEvidenced
<1>10. CallsOK'
  BY <1>6 DEF AuditInv, CallsOK, CallOK
<1> QED
  BY <1>6, <1>7, <1>8, <1>9, <1>10 DEF AuditInv

(* COMMIT of a read: its evidence, and then its answer. *)
LEMMA CommitReadKept ==
  ASSUME AuditInv, NEW c \in Calls, NEW answered, CommitCall(c, answered), CallAt(c, "recorded"),
         ReadOK(c, call[c])
  PROVE  AuditInv'
<1>1. PICK scope : scope = ScopeFor(c, call[c])
  OBVIOUS
<1>2. PICK event : /\ call[c].staged.evidence = <<event>> /\ event.scope = scope
                   /\ event.action = "audit.read" /\ Sound(event) /\ Counts(event, call[c].page)
  BY <1>1 DEF ReadOK, CallAt
<1>3. scope.correlation = c /\ scope.tenant = call[c].tenant /\ ScopeOf(c) = scope
  BY <1>1 DEF ScopeFor, ScopeOf
<1>4. /\ call[c].kind = "read" /\ call[c].staged.row = FALSE /\ call[c].staged.envelopes = {}
      /\ call[c] # Over /\ OwnPage(scope.tenant, call[c].page)
  BY <1>3 DEF ReadOK, CallAt, Over
<1>5. PICK reply : reply = [scope |-> scope, page |-> call[c].page]
  OBVIOUS
<1>6. /\ rows' = rows /\ trail' = trail \o <<event>> /\ sent' = sent
      /\ answers' \subseteq answers \cup {reply}
      /\ call' = [call EXCEPT ![c] = Over] /\ time' = time
  BY <1>2, <1>3, <1>4, <1>5 DEF CommitCall
<1>7. /\ TrailOK' /\ Events' = Events \cup {event}
      /\ \A i, j \in DOMAIN trail' : trail'[i].scope = trail'[j].scope => i = j
      /\ \A e \in Events' : Sound(e)
  BY <1>2, <1>3, <1>4, <1>6, TrailGrows
<1>8. EvidenceWithEffect'
  <2>1. {f \in Events' : f.action = "changed"} = {f \in Events : f.action = "changed"}
    BY <1>2, <1>7
  <2> QED
    BY <1>6, <1>7, <2>1 DEF AuditInv, EvidenceWithEffect, Sound, IsSafe
<1>9. ReadsAreEvidenced'
  <2>1. ASSUME NEW a \in answers
        PROVE  /\ OwnPage(a.scope.tenant, a.page)
               /\ \E e \in Events' : e.action = "audit.read" /\ e.scope = a.scope /\ Counts(e, a.page)
    BY <1>7 DEF AuditInv, ReadsAreEvidenced, OwnPage, Counts
  <2>2. /\ OwnPage(reply.scope.tenant, reply.page)
        /\ event.action = "audit.read" /\ event.scope = reply.scope /\ Counts(event, reply.page)
    BY <1>2, <1>4, <1>5
  <2>3. event \in Events'
    BY <1>7
  <2> QED
    BY <1>6, <2>1, <2>2, <2>3 DEF ReadsAreEvidenced, OwnPage, Counts
<1>10. CallsOK'
  BY <1>6 DEF AuditInv, CallsOK, CallOK
<1> QED
  BY <1>6, <1>7, <1>8, <1>9, <1>10 DEF AuditInv

(* Only a call that has done all its steps commits. *)
LEMMA CommitCallKept ==
  ASSUME AuditInv, NEW c \in Calls, NEW answered, CommitCall(c, answered)
  PROVE  AuditInv'
<1>1. call[c] # Over /\ call[c] # Idle
  BY DEF CommitCall, MayCommit, CallAt, Over, Idle
<1>2. CommandOK(c, call[c]) \/ ReadOK(c, call[c])
  BY <1>1 DEF AuditInv, CallsOK, CallOK
<1>3. CASE CommandOK(c, call[c])
  <2>1. CallAt(c, "appended")
    BY <1>3 DEF CommitCall, MayCommit, CommandOK
  <2> QED
    BY <1>3, <2>1, CommitCommandKept
<1>4. CASE ReadOK(c, call[c])
  <2>1. CallAt(c, "recorded")
    BY <1>4 DEF CommitCall, MayCommit, ReadOK, CallAt
  <2> QED
    BY <1>4, <2>1, CommitReadKept
<1> QED
  BY <1>2, <1>3, <1>4

(* Rollback, and the clock. *)
LEMMA FailCallKept ==
  ASSUME AuditInv, NEW c \in Calls, FailCall(c)
  PROVE  AuditInv'
<1>1. call[c] # Over
  BY DEF FailCall, Over
<1> QED
  BY <1>1, EndStep DEF FailCall

(* Nothing but the clock changes. *)
LEMMA StandsStill ==
  ASSUME AuditInv, time' \in Nat, UNCHANGED <<rows, trail, sent, answers, call>>
  PROVE  AuditInv'
<1>1. Events' = Events
  BY DEF Events, Range
<1>2. CallsOK' /\ TrailOK'
  BY <1>1 DEF AuditInv, CallsOK, TrailOK
<1>3. EvidenceWithEffect' /\ ReadsAreEvidenced'
  BY <1>1 DEF AuditInv, EvidenceWithEffect, ReadsAreEvidenced
<1> QED
  BY <1>2, <1>3 DEF AuditInv

-----------------------------------------------------------------------------

(* The invariant is inductive. *)
LEMMA AuditStepHolds == AuditInv /\ [AuditNext]_auditVars => AuditInv'
<1> SUFFICES ASSUME AuditInv, [AuditNext]_auditVars
             PROVE  AuditInv'
  OBVIOUS
<1>1. CASE UNCHANGED auditVars
  BY <1>1, StandsStill DEF auditVars, AuditInv
<1>2. CASE \E t \in 0 .. MaxTime : ClockMoves(t)
  BY <1>2, StandsStill, BoundsAssumption DEF ClockMoves
<1>3. CASE AuditNext /\ ~ \E t \in 0 .. MaxTime : ClockMoves(t)
  <2>1. PICK c \in Calls :
       \/ \E tenant \in Tenants \cup {NoTenant} :
            \/ \E input, data \in Payloads, target \in DOMAIN Registry \cup {"Unregistered"},
                  after \in Values \cup {NoSnapshot} : BeginCommand(c, tenant, input, data, target, after)
            \/ \E authorized \in BOOLEAN, limit \in Limits : BeginRead(c, tenant, authorized, limit)
       \/ \E bound \in Tenants : OpenTransaction(c, bound)
       \/ WriteRow(c)
       \/ \E leaks \in BOOLEAN : ReadPage(c, leaks)
       \/ \E appended \in BOOLEAN : Record(c, appended)
       \/ AppendEnvelope(c)
       \/ \E answered \in BOOLEAN : CommitCall(c, answered)
       \/ FailCall(c)
    BY <1>3, Zenon DEF AuditNext
  <2> QED
    BY <2>1, BeginCommandKept, BeginReadKept, OpenTransactionKept, WriteRowKept, ReadPageKept,
       RecordKept, AppendEnvelopeKept, CommitCallKept, FailCallKept, Zenon
<1> QED
  BY <1>1, <1>2, <1>3

(* Whichever statement fails, whatever the adapter binds, however the clock *)
(* is set and however many calls interleave: rows, changes in the trail and *)
(* envelopes are of the same calls, and the evidence is safe to keep.       *)
THEOREM NoEffectWithoutEvidence == AuditSpec => []EvidenceWithEffect
<1>1. AuditInv => EvidenceWithEffect
  BY DEF AuditInv
<1> QED
  BY AuditInitHolds, AuditStepHolds, <1>1, PTL DEF AuditSpec

(* No page of the trail is answered without evidence that it was read, and  *)
(* none shows another tenant's events, even when the store returns some.    *)
THEOREM NoSilentRead == AuditSpec => []ReadsAreEvidenced
<1>1. AuditInv => ReadsAreEvidenced
  BY DEF AuditInv
<1> QED
  BY AuditInitHolds, AuditStepHolds, <1>1, PTL DEF AuditSpec

-----------------------------------------------------------------------------
(* The migrations. *)

Places == {"idle", "connected", "done", "duplicate", "changed", "unique", "broken", "crashed"} \cup Working
Applying == {"begun", "executed", "inserted"}
Migrating == {"next"} \cup Applying

MigrationTypeOK ==
  /\ record \subseteq [name : Nat, sum : STRING]
  /\ effects \subseteq [file : File, by : Runs, before : SUBSET Nat]
  /\ lock \in Runs \cup {Nobody}
  /\ run \in [Runs -> [pc : Places, release : SUBSET File, left : SUBSET File]]

(* Who works holds the lock. *)
Locked == \A r \in Runs : run[r].pc \in Working => lock = r

(* What a run has put behind it is recorded; no name is left twice. *)
Progress ==
  \A r \in Runs : run[r].pc \in Migrating \cup {"done"} =>
    /\ run[r].left \subseteq run[r].release
    /\ ~HasDuplicates(run[r].release)
    /\ \A file \in run[r].release \ run[r].left : Row(file) \in record

(* The file being applied has no row yet. *)
Absent ==
  \A r \in Runs : run[r].pc \in Applying =>
    \A file \in run[r].left : IsFirst(file, run[r].left) => \A row \in record : row.name # file.name

(* Nobody applied anything before it started, and a run starts with all of  *)
(* its release.                                                             *)
Started ==
  /\ \A e \in effects : run[e.by].pc # "idle"
  /\ \A r \in Runs : run[r].pc \in {"connected", "locked"} => run[r].left = run[r].release
  /\ \A r \in Runs : run[r].pc = "done" => run[r].left = {}

MigrationInv == MigrationTypeOK /\ Locked /\ Progress /\ Absent /\ Started /\ SchemaIsItsRecord

-----------------------------------------------------------------------------
(* The initial state: an empty database and no run started. *)
LEMMA MigrationInitHolds == MigrationInit => MigrationInv
  BY ReleasesAssumption, NobodyAssumption
  DEF MigrationInit, MigrationInv, MigrationTypeOK, Locked, Progress, Absent, Started,
      SchemaIsItsRecord, Places, Working, Applying, Migrating, RunAt, Row, File

(* What every step keeps: the types.                                        *)
LEMMA TypesKept ==
  ASSUME MigrationTypeOK, MigrationNext
  PROVE  MigrationTypeOK'
<1> USE DEF MigrationTypeOK, Places, Working, File, Row, RunAt, GoTo, Stop
<1>1. PICK r \in Runs :
        \/ \E release \in Releases : Start(r, release)
        \/ TakeLock(r)
        \/ Collect(r)
        \/ \E file \in run[r].left :
             \/ Inspect(r, file)
             \/ InsertRow(r, file)
             \/ \E answered \in BOOLEAN : CommitMigration(r, file, answered)
        \/ Execute(r)
        \/ Break(r)
        \/ Crash(r)
        \/ Finish(r)
  BY DEF MigrationNext
<1>2. CASE \E release \in Releases : Start(r, release)
  BY <1>2, ReleasesAssumption DEF Start
<1>3. CASE TakeLock(r)
  BY <1>3 DEF TakeLock
<1>4. CASE Collect(r)
  BY <1>4 DEF Collect
<1>5. CASE \E file \in run[r].left : Inspect(r, file)
  BY <1>5 DEF Inspect
<1>6. CASE \E file \in run[r].left : InsertRow(r, file)
  BY <1>6 DEF InsertRow
<1>7. CASE \E file \in run[r].left, answered \in BOOLEAN : CommitMigration(r, file, answered)
  <2>1. PICK file \in run[r].left, answered \in BOOLEAN : CommitMigration(r, file, answered)
    BY <1>7
  <2>2. file \in File
    OBVIOUS
  <2>3. NamesOf(record) \in SUBSET Nat
    BY DEF NamesOf
  <2>4. record' \subseteq [name : Nat, sum : STRING]
    BY <2>1, <2>2 DEF CommitMigration
  <2>5. effects' \subseteq [file : File, by : Runs, before : SUBSET Nat]
    BY <2>1, <2>2, <2>3 DEF CommitMigration
  <2> QED
    BY <2>1, <2>4, <2>5 DEF CommitMigration
<1>8. CASE Execute(r)
  BY <1>8 DEF Execute
<1>9. CASE Break(r)
  BY <1>9 DEF Break
<1>10. CASE Crash(r)
  BY <1>10 DEF Crash
<1>11. CASE Finish(r)
  BY <1>11 DEF Finish
<1> QED
  BY <1>1, <1>2, <1>3, <1>4, <1>5, <1>6, <1>7, <1>8, <1>9, <1>10, <1>11

-----------------------------------------------------------------------------
(* The steps, one lemma each. *)

(* A run starts: nothing was applied by it before. *)
LEMMA StartKept ==
  ASSUME MigrationInv, MigrationTypeOK', NEW r \in Runs, NEW release \in Releases, Start(r, release)
  PROVE  MigrationInv'
<1> USE DEF MigrationInv, Start, RunAt, GoTo, Stop
<1>1. Locked'
  BY NobodyAssumption DEF MigrationTypeOK, Locked, Working, Places
<1>2. Progress'
  BY DEF MigrationTypeOK, Locked, Progress, Started, Working, Places, Applying, Migrating
<1>3. Absent'
  BY DEF MigrationTypeOK, Locked, Absent, Working, Places, Applying
<1>4. Started'
  BY DEF MigrationTypeOK, Started, Working, Places
<1>5. SchemaIsItsRecord'
  BY DEF MigrationTypeOK, SchemaIsItsRecord, Progress, Started, Working, Places
<1> QED
  BY <1>1, <1>2, <1>3, <1>4, <1>5

(* The lock goes to a run when no other works. *)
LEMMA TakeLockKept ==
  ASSUME MigrationInv, MigrationTypeOK', NEW r \in Runs, TakeLock(r)
  PROVE  MigrationInv'
<1> USE DEF MigrationInv, TakeLock, RunAt, GoTo, Stop
<1>1. Locked'
  BY NobodyAssumption DEF MigrationTypeOK, Locked, Working, Places
<1>2. Progress'
  BY DEF MigrationTypeOK, Locked, Progress, Started, Working, Places, Applying, Migrating
<1>3. Absent'
  BY DEF MigrationTypeOK, Locked, Absent, Working, Places, Applying
<1>4. Started'
  BY DEF MigrationTypeOK, Started, Working, Places
<1>5. SchemaIsItsRecord'
  BY DEF MigrationTypeOK, SchemaIsItsRecord, Progress, Started, Working, Places
<1> QED
  BY <1>1, <1>2, <1>3, <1>4, <1>5

(* The files are all still to do, and no name is doubled. *)
LEMMA CollectKept ==
  ASSUME MigrationInv, MigrationTypeOK', NEW r \in Runs, Collect(r)
  PROVE  MigrationInv'
<1> USE DEF MigrationInv, Collect, RunAt, GoTo, Stop
<1>1. Locked'
  BY NobodyAssumption DEF MigrationTypeOK, Locked, Working, Places
<1>2. Progress'
  BY DEF MigrationTypeOK, Locked, Progress, Started, Working, Places, Applying, Migrating
<1>3. Absent'
  BY DEF MigrationTypeOK, Locked, Absent, Working, Places, Applying
<1>4. Started'
  BY DEF MigrationTypeOK, Started, Working, Places
<1>5. SchemaIsItsRecord'
  <2>1. \A q \in Runs : /\ run'[q].release = run[q].release
                        /\ run'[q].pc = run[q].pc \/ run'[q].pc \in {"next", "duplicate"}
    BY DEF MigrationTypeOK
  <2>2. effects' = effects /\ record' = record /\ \A e \in effects : e.by \in Runs
    BY DEF MigrationTypeOK
  <2> QED
    BY <2>1, <2>2 DEF SchemaIsItsRecord
<1> QED
  BY <1>1, <1>2, <1>3, <1>4, <1>5

(* A recorded file is behind the run, a changed one stops it, a new one has no row. *)
LEMMA InspectKept ==
  ASSUME MigrationInv, MigrationTypeOK', NEW r \in Runs, NEW file \in run[r].left, Inspect(r, file)
  PROVE  MigrationInv'
<1> USE DEF MigrationInv, Inspect, RunAt, GoTo, Stop
<1>1. Locked'
  BY NobodyAssumption DEF MigrationTypeOK, Locked, Working, Places
<1>2. Progress'
  BY DEF MigrationTypeOK, Locked, Progress, Started, Working, Places, Applying, Migrating
<1>3. Absent'
  <2> SUFFICES ASSUME NEW q \in Runs, run'[q].pc \in Applying,
                      NEW f \in run'[q].left, IsFirst(f, run'[q].left),
                      NEW row \in record
               PROVE  row.name # f.name
    BY DEF Absent
  <2>1. CASE q # r
    BY <2>1 DEF MigrationTypeOK, Absent
  <2>2. CASE q = r
    <3>1. {old \in record : old.name = file.name} = {} /\ run'[r].left = run[r].left
      BY <2>2 DEF MigrationTypeOK, Applying
    <3>2. f \in run[r].left /\ f \in File /\ file \in File
      BY <2>2, <3>1 DEF MigrationTypeOK
    <3>3. f.name <= file.name /\ file.name <= f.name
      BY <2>2, <3>1, <3>2 DEF IsFirst
    <3>4. f.name = file.name
      BY <3>2, <3>3 DEF File
    <3> QED
      BY <3>1, <3>4
  <2> QED
    BY <2>1, <2>2
<1>4. Started'
  BY DEF MigrationTypeOK, Started, Working, Places
<1>5. SchemaIsItsRecord'
  <2>1. run'[r].release = run[r].release /\ file \in run[r].release
    BY DEF MigrationTypeOK, Progress, Migrating
  <2>2. ASSUME run'[r].pc = "changed"
        PROVE  \E row \in record : row.name = file.name /\ row.sum # file.sum
    <3>1. PICK row \in record : row.name = file.name /\ row # Row(file)
      BY <2>2 DEF MigrationTypeOK
    <3> QED
      BY <3>1 DEF MigrationTypeOK, Row
  <2>3. \A q \in Runs : run'[q].release = run[q].release
    BY <2>1 DEF MigrationTypeOK
  <2>4. \A q \in Runs : run'[q].pc = run[q].pc \/ (q = r /\ run'[q].pc \in {"next", "begun", "changed"})
    BY DEF MigrationTypeOK
  <2>5. \A e \in effects : e.by \in Runs
    BY DEF MigrationTypeOK
  <2> QED
    BY <2>1, <2>2, <2>3, <2>4, <2>5 DEF SchemaIsItsRecord
<1> QED
  BY <1>1, <1>2, <1>3, <1>4, <1>5

(* The SQL runs in the transaction only. *)
LEMMA ExecuteKept ==
  ASSUME MigrationInv, MigrationTypeOK', NEW r \in Runs, Execute(r)
  PROVE  MigrationInv'
<1> USE DEF MigrationInv, Execute, RunAt, GoTo, Stop
<1>1. Locked'
  BY NobodyAssumption DEF MigrationTypeOK, Locked, Working, Places
<1>2. Progress'
  BY DEF MigrationTypeOK, Locked, Progress, Started, Working, Places, Applying, Migrating
<1>3. Absent'
  BY DEF MigrationTypeOK, Locked, Absent, Working, Places, Applying
<1>4. Started'
  BY DEF MigrationTypeOK, Started, Working, Places
<1>5. SchemaIsItsRecord'
  BY DEF MigrationTypeOK, SchemaIsItsRecord, Progress, Started, Working, Places
<1> QED
  BY <1>1, <1>2, <1>3, <1>4, <1>5

(* The row of the file is still absent: no unique violation. *)
LEMMA InsertRowKept ==
  ASSUME MigrationInv, MigrationTypeOK', NEW r \in Runs, NEW file \in run[r].left, InsertRow(r, file)
  PROVE  MigrationInv'
<1> USE DEF MigrationInv, InsertRow, RunAt, GoTo, Stop
<1>1. Locked'
  BY NobodyAssumption DEF MigrationTypeOK, Locked, Working, Places
<1>2. Progress'
  BY DEF MigrationTypeOK, Locked, Progress, Started, Working, Places, Applying, Migrating
<1>3. Absent'
  BY DEF MigrationTypeOK, Locked, Absent, Working, Places, Applying
<1>4. Started'
  BY DEF MigrationTypeOK, Started, Working, Places
<1>5. SchemaIsItsRecord'
  <2>1. file.name \notin NamesOf(record)
    BY DEF Absent, Applying, NamesOf
  <2>2. \A q \in Runs : run'[q].release = run[q].release
    BY DEF MigrationTypeOK
  <2>3. \A q \in Runs : run'[q].pc = run[q].pc \/ run'[q].pc = "inserted"
    BY <2>1 DEF MigrationTypeOK
  <2>4. \A e \in effects : e.by \in Runs
    BY DEF MigrationTypeOK
  <2> QED
    BY <2>2, <2>3, <2>4 DEF SchemaIsItsRecord
<1> QED
  BY <1>1, <1>2, <1>3, <1>4, <1>5

(* A failed statement leaves the database as it was. *)
LEMMA BreakKept ==
  ASSUME MigrationInv, MigrationTypeOK', NEW r \in Runs, Break(r)
  PROVE  MigrationInv'
<1> USE DEF MigrationInv, Break, RunAt, GoTo, Stop
<1>1. Locked'
  BY NobodyAssumption DEF MigrationTypeOK, Locked, Working, Places
<1>2. Progress'
  BY DEF MigrationTypeOK, Locked, Progress, Started, Working, Places, Applying, Migrating
<1>3. Absent'
  BY DEF MigrationTypeOK, Locked, Absent, Working, Places, Applying
<1>4. Started'
  BY DEF MigrationTypeOK, Started, Working, Places
<1>5. SchemaIsItsRecord'
  BY DEF MigrationTypeOK, SchemaIsItsRecord, Progress, Started, Working, Places
<1> QED
  BY <1>1, <1>2, <1>3, <1>4, <1>5

(* So does a crash. *)
LEMMA CrashKept ==
  ASSUME MigrationInv, MigrationTypeOK', NEW r \in Runs, Crash(r)
  PROVE  MigrationInv'
<1> USE DEF MigrationInv, Crash, RunAt, GoTo, Stop
<1>1. Locked'
  BY NobodyAssumption DEF MigrationTypeOK, Locked, Working, Places
<1>2. Progress'
  BY DEF MigrationTypeOK, Locked, Progress, Started, Working, Places, Applying, Migrating
<1>3. Absent'
  BY DEF MigrationTypeOK, Locked, Absent, Working, Places, Applying
<1>4. Started'
  BY DEF MigrationTypeOK, Started, Working, Places
<1>5. SchemaIsItsRecord'
  BY DEF MigrationTypeOK, SchemaIsItsRecord, Progress, Started, Working, Places
<1> QED
  BY <1>1, <1>2, <1>3, <1>4, <1>5

(* A run with nothing left has all of its release recorded. *)
LEMMA FinishKept ==
  ASSUME MigrationInv, MigrationTypeOK', NEW r \in Runs, Finish(r)
  PROVE  MigrationInv'
<1> USE DEF MigrationInv, Finish, RunAt, GoTo, Stop
<1>1. Locked'
  BY NobodyAssumption DEF MigrationTypeOK, Locked, Working, Places
<1>2. Progress'
  BY DEF MigrationTypeOK, Locked, Progress, Started, Working, Places, Applying, Migrating
<1>3. Absent'
  BY DEF MigrationTypeOK, Locked, Absent, Working, Places, Applying
<1>4. Started'
  BY DEF MigrationTypeOK, Started, Working, Places
<1>5. SchemaIsItsRecord'
  <2>1. \A file \in run[r].release : Row(file) \in record
    BY DEF Progress, Migrating
  <2>2. \A q \in Runs : run'[q].release = run[q].release
    BY DEF MigrationTypeOK
  <2>3. \A q \in Runs : run'[q].pc = run[q].pc \/ (q = r /\ run'[q].pc = "done")
    BY DEF MigrationTypeOK
  <2>4. \A e \in effects : e.by \in Runs
    BY DEF MigrationTypeOK
  <2> QED
    BY <2>1, <2>2, <2>3, <2>4 DEF SchemaIsItsRecord
<1> QED
  BY <1>1, <1>2, <1>3, <1>4, <1>5

(* COMMIT adds the first row of its name and the execution it stands for;   *)
(* all lower names of the release are recorded by then.                     *)
LEMMA CommitKept ==
  ASSUME MigrationInv, MigrationTypeOK', NEW r \in Runs, NEW file \in run[r].left,
         NEW answered \in BOOLEAN, CommitMigration(r, file, answered)
  PROVE  MigrationInv'
<1> DEFINE execution == [file |-> file, by |-> r, before |-> NamesOf(record)]
<1> USE DEF MigrationInv, CommitMigration, RunAt, GoTo, Stop
<1>1. Locked'
  BY NobodyAssumption DEF MigrationTypeOK, Locked, Working, Places
<1>2. Progress'
  BY DEF MigrationTypeOK, Progress, Places, Working, Applying, Migrating
<1>3. Absent'
  BY DEF MigrationTypeOK, Locked, Absent, Working, Places, Applying
<1>4. Started'
  BY DEF MigrationTypeOK, Started, Working, Places
<1>5. SchemaIsItsRecord'
  <2>1. \A row \in record : row.name # file.name
    BY DEF Absent, Applying
  <2>2. \A q \in Runs : run'[q].release = run[q].release
    BY DEF MigrationTypeOK
  <2>3. \A q \in Runs : run'[q].pc = run[q].pc \/ run'[q].pc \in {"next", "broken"}
    BY DEF MigrationTypeOK
  <2>4. \A e \in effects : e.by \in Runs /\ e.file.name # file.name
    <3> SUFFICES ASSUME NEW e \in effects
                 PROVE  e.by \in Runs /\ e.file.name # file.name
      OBVIOUS
    <3>1. Row(e.file) \in record
      BY DEF SchemaIsItsRecord
    <3>2. Row(e.file).name = e.file.name
      BY DEF Row
    <3> QED
      BY <2>1, <3>1, <3>2 DEF MigrationTypeOK
  <2>5. record' = {Row(e.file) : e \in effects'}
    <3>1. record = {Row(e.file) : e \in effects}
      BY DEF SchemaIsItsRecord
    <3>2. record' = record \cup {Row(file)} /\ effects' = effects \cup {execution}
      OBVIOUS
    <3>3. execution.file = file
      OBVIOUS
    <3> HIDE DEF execution
    <3>4. {Row(e.file) : e \in effects \cup {execution}}
            = {Row(e.file) : e \in effects} \cup {Row(execution.file)}
      OBVIOUS
    <3> QED
      BY <3>1, <3>2, <3>3, <3>4
  <2>6. \A e, f \in effects' : e.file.name = f.file.name => e = f
    BY <2>4 DEF SchemaIsItsRecord
  <2>7. \A other \in run[r].release : other.name < file.name => other.name \in NamesOf(record)
    <3> SUFFICES ASSUME NEW other \in run[r].release, other.name < file.name
                 PROVE  other.name \in NamesOf(record)
      OBVIOUS
    <3>1. other \notin run[r].left
      BY DEF MigrationTypeOK, IsFirst, File
    <3>2. Row(other) \in record
      BY <3>1 DEF Progress, Migrating, Applying
    <3> QED
      BY <3>2 DEF NamesOf, Row
  <2>8. \A e \in effects' : \A other \in run'[e.by].release :
          other.name < e.file.name => other.name \in e.before
    <3>1. \A e \in effects : \A other \in run'[e.by].release :
            other.name < e.file.name => other.name \in e.before
      BY <2>2, <2>4 DEF SchemaIsItsRecord
    <3>2. \A other \in run'[execution.by].release :
            other.name < execution.file.name => other.name \in execution.before
      BY <2>2, <2>7
    <3>3. effects' = effects \cup {execution}
      OBVIOUS
    <3> HIDE DEF execution
    <3> QED
      BY <3>1, <3>2, <3>3
  <2>9. \A q \in Runs :
          /\ RunAt(q, "done")' => \A f \in run'[q].release : Row(f) \in record'
          /\ RunAt(q, "changed")' =>
               \E f \in run'[q].release, row \in record' : row.name = f.name /\ row.sum # f.sum
          /\ ~RunAt(q, "unique")'
    BY <2>2, <2>3 DEF SchemaIsItsRecord
  <2> QED
    BY <2>5, <2>6, <2>8, <2>9 DEF SchemaIsItsRecord
<1> QED
  BY <1>1, <1>2, <1>3, <1>4, <1>5

-----------------------------------------------------------------------------

(* The invariant is inductive. *)
LEMMA MigrationStepHolds == MigrationInv /\ [MigrationNext]_migrationVars => MigrationInv'
<1> SUFFICES ASSUME MigrationInv, [MigrationNext]_migrationVars
             PROVE  MigrationInv'
  OBVIOUS
<1>1. CASE UNCHANGED migrationVars
  BY <1>1 DEF migrationVars, MigrationInv, MigrationTypeOK, Locked, Progress, Absent, Started,
              SchemaIsItsRecord, RunAt
<1>2. CASE MigrationNext
  <2>1. MigrationTypeOK'
    BY <1>2, TypesKept DEF MigrationInv
  <2> QED
    BY <1>2, <2>1, StartKept, TakeLockKept, CollectKept, InspectKept, ExecuteKept, InsertRowKept,
       CommitKept, BreakKept, CrashKept, FinishKept, Zenon DEF MigrationNext
<1> QED
  BY <1>1, <1>2

(* Whatever runs start together, crash or lose an answer: the recorded      *)
(* migrations are the executed ones, each once and in order, and a run is   *)
(* only refused for a changed or doubled file.                              *)
THEOREM MigrationsOnce == MigrationSpec => []SchemaIsItsRecord
<1>1. MigrationInv => SchemaIsItsRecord
  BY DEF MigrationInv
<1> QED
  BY MigrationInitHolds, MigrationStepHolds, <1>1, PTL DEF MigrationSpec

-----------------------------------------------------------------------------
(* The tenant cache.                                                        *)
(*                                                                          *)
(* Keys.  Recursion over the parts of an address and the reading of a key   *)
(* from its end are inductions over numbers, in the form of a set that has  *)
(* 0 and the successor of each of its members.                              *)

LEMMA SetInduction ==
  ASSUME NEW T \in SUBSET Nat, 0 \in T, \A n \in T : n + 1 \in T
  PROVE  T = Nat
<1> DEFINE R == OpToRel(<, Nat)
<1> SUFFICES ASSUME Nat \ T # {} PROVE FALSE
  OBVIOUS
<1>1. \A m, n \in Nat : m < n => <<m, n>> \in R
  BY Zenon DEF OpToRel
<1>2. \E x \in Nat \ T : \A y \in Nat \ T : ~ (<<y, x>> \in R)
  BY WFMin, NatLessThanWellFounded
<1> HIDE DEF R
<1>3. PICK x \in Nat \ T : \A y \in Nat \ T : ~ (<<y, x>> \in R)
  BY <1>2
<1>4. x # 0 /\ x - 1 \in Nat /\ x - 1 < x
  OBVIOUS
<1>5. x - 1 \in T
  BY <1>1, <1>3, <1>4
<1>6. (x - 1) + 1 = x
  BY <1>4
<1> QED
  BY <1>3, <1>5, <1>6

Symbols == Characters \cup {":", "%3A"}
Text == Seq(Symbols)
HasColon(text) == \E i \in 1 .. Len(text) : text[i] = ":"

(* An encoded segment has no ":" and tells the segment. *)
LEMMA EncodedSegment ==
  ASSUME NEW s \in Segment
  PROVE  EncodeSegment(s) \in Text /\ Len(EncodeSegment(s)) = Len(s) /\ ~HasColon(EncodeSegment(s))
<1>1. PICK n : n = Len(s)
  OBVIOUS
<1>2. n \in Nat /\ DOMAIN s = 1 .. n /\ \A i \in 1 .. n : s[i] \in Symbols
  BY <1>1 DEF Segment, Symbols
<1>3. EncodeSegment(s) \in [1 .. n -> Symbols]
  <2>1. \A i \in 1 .. n : (IF s[i] = ":" THEN "%3A" ELSE s[i]) \in Symbols
    BY <1>2 DEF Symbols
  <2>2. EncodeSegment(s) = [i \in 1 .. n |-> IF s[i] = ":" THEN "%3A" ELSE s[i]]
    BY <1>2 DEF EncodeSegment
  <2> QED
    BY <2>1, <2>2
<1>4. EncodeSegment(s) \in Text
  BY <1>2, <1>3 DEF Text
<1>5. Len(EncodeSegment(s)) = n
  BY <1>2, <1>3, <1>4 DEF Text
<1>6. \A i \in 1 .. n : EncodeSegment(s)[i] # ":"
  BY <1>2 DEF EncodeSegment
<1> QED
  BY <1>1, <1>4, <1>5, <1>6 DEF HasColon

LEMMA EncodedDistinct ==
  ASSUME NEW s \in Segment, NEW t \in Segment, EncodeSegment(s) = EncodeSegment(t)
  PROVE  s = t
<1>1. Len(s) = Len(t)
  BY EncodedSegment
<1>2. PICK n : n = Len(s)
  OBVIOUS
<1>3. n \in Nat /\ DOMAIN s = 1 .. n /\ DOMAIN t = 1 .. n
  BY <1>1, <1>2 DEF Segment
<1>4. ASSUME NEW i \in 1 .. n
      PROVE  s[i] = t[i]
  <2>1. s[i] \in Characters /\ t[i] \in Characters
    BY <1>1, <1>2, <1>3 DEF Segment
  <2>2. EncodeSegment(s)[i] = EncodeSegment(t)[i]
    OBVIOUS
  <2>3. /\ EncodeSegment(s)[i] = IF s[i] = ":" THEN "%3A" ELSE s[i]
        /\ EncodeSegment(t)[i] = IF t[i] = ":" THEN "%3A" ELSE t[i]
    BY <1>3 DEF EncodeSegment
  <2> QED
    BY <2>1, <2>2, <2>3, AddressesAssumption
<1> QED
  BY <1>1, <1>2, <1>3, <1>4 DEF Segment

(* Two texts joined with ":". *)
Spells(k, s, t) ==
  /\ k \in Text /\ Len(k) = Len(s) + 1 + Len(t) /\ k[Len(s) + 1] = ":"
  /\ \A i \in 1 .. Len(s) : k[i] = s[i]
  /\ \A i \in 1 .. Len(t) : k[Len(s) + 1 + i] = t[i]

LEMMA WithColon ==
  ASSUME NEW s \in Text, NEW t \in Text
  PROVE  Spells(s \o <<":">> \o t, s, t)
<1>1. PICK c : c = <<":">>
  OBVIOUS
<1>2. c \in Seq(Symbols) /\ Len(c) = 1 /\ c[1] = ":"
  BY <1>1 DEF Symbols
<1>3. PICK u : u = s \o c
  OBVIOUS
<1>4. PICK k : k = u \o t
  OBVIOUS
<1>5. s \in Seq(Symbols) /\ t \in Seq(Symbols) /\ Len(s) \in Nat /\ Len(t) \in Nat
  BY DEF Text
<1>6. /\ u \in Seq(Symbols) /\ Len(u) = Len(s) + Len(c)
      /\ \A i \in 1 .. Len(s) + Len(c) : u[i] = IF i <= Len(s) THEN s[i] ELSE c[i - Len(s)]
  BY <1>2, <1>3, <1>5, ConcatProperties
<1>7. /\ k \in Seq(Symbols) /\ Len(k) = Len(u) + Len(t)
      /\ \A i \in 1 .. Len(u) + Len(t) : k[i] = IF i <= Len(u) THEN u[i] ELSE t[i - Len(u)]
  BY <1>4, <1>5, <1>6, ConcatProperties
<1>8. PICK n, m : n = Len(s) /\ m = Len(t)
  OBVIOUS
<1>9. n \in Nat /\ m \in Nat /\ Len(u) = n + 1 /\ Len(k) = n + 1 + m
  BY <1>2, <1>5, <1>6, <1>7, <1>8
<1>10. \A i \in 1 .. n : k[i] = s[i]
  BY <1>2, <1>6, <1>7, <1>8, <1>9
<1>11. k[n + 1] = ":"
  <2>1. n + 1 \in 1 .. n + 1 /\ ~(n + 1 <= n) /\ (n + 1) - n = 1 /\ n + 1 \in 1 .. (n + 1) + m
    BY <1>9
  <2>2. u[n + 1] = c[1]
    BY <1>2, <1>6, <1>8, <2>1
  <2>3. k[n + 1] = u[n + 1]
    BY <1>7, <1>8, <1>9, <2>1
  <2> QED
    BY <1>2, <2>2, <2>3
<1>12. ASSUME NEW i \in 1 .. m
       PROVE  k[n + 1 + i] = t[i]
  <2>1. n + 1 + i \in 1 .. (n + 1) + m /\ ~(n + 1 + i <= n + 1) /\ (n + 1 + i) - (n + 1) = i
    BY <1>9
  <2> QED
    BY <1>7, <1>8, <1>9, <2>1
<1>13. Spells(k, s, t)
  BY <1>7, <1>8, <1>9, <1>10, <1>11, <1>12 DEF Spells, Text
<1> QED
  BY <1>1, <1>3, <1>4, <1>13

(* A text is read back from its last ":". *)
LEMMA LastColon ==
  ASSUME NEW s \in Text, NEW t \in Text, NEW x \in Text, NEW y \in Text,
         ~HasColon(t), ~HasColon(y), s \o <<":">> \o t = x \o <<":">> \o y
  PROVE  s = x /\ t = y
<1>1. PICK k : k = s \o <<":">> \o t
  OBVIOUS
<1>2. PICK n, m : n = Len(s) /\ m = Len(x)
  OBVIOUS
<1>3. n \in Nat /\ m \in Nat /\ Len(t) \in Nat /\ Len(y) \in Nat
  BY <1>2 DEF Text
<1>4. /\ k \in Text /\ Len(k) = n + 1 + Len(t) /\ k[n + 1] = ":"
      /\ \A i \in 1 .. n : k[i] = s[i]
      /\ \A i \in 1 .. Len(t) : k[n + 1 + i] = t[i]
  <2>1. Spells(k, s, t)
    BY <1>1, WithColon
  <2> QED
    BY <1>2, <2>1 DEF Spells
<1>5. /\ Len(k) = m + 1 + Len(y) /\ k[m + 1] = ":"
      /\ \A i \in 1 .. m : k[i] = x[i]
      /\ \A i \in 1 .. Len(y) : k[m + 1 + i] = y[i]
  <2>1. Spells(k, x, y)
    BY <1>1, WithColon
  <2> QED
    BY <1>2, <2>1 DEF Spells
<1>6. ~(n < m)
  <2> SUFFICES ASSUME n < m PROVE FALSE
    OBVIOUS
  <2>1. m - n \in 1 .. Len(t) /\ n + 1 + (m - n) = m + 1
    BY <1>3, <1>4, <1>5
  <2>2. t[m - n] = k[n + 1 + (m - n)]
    BY <1>4, <2>1
  <2>3. t[m - n] = ":"
    BY <1>5, <2>1, <2>2
  <2> QED
    BY <2>1, <2>3 DEF HasColon
<1>7. ~(m < n)
  <2> SUFFICES ASSUME m < n PROVE FALSE
    OBVIOUS
  <2>1. n - m \in 1 .. Len(y) /\ m + 1 + (n - m) = n + 1
    BY <1>3, <1>4, <1>5
  <2>2. y[n - m] = k[m + 1 + (n - m)]
    BY <1>5, <2>1
  <2>3. y[n - m] = ":"
    BY <1>4, <2>1, <2>2
  <2> QED
    BY <2>1, <2>3 DEF HasColon
<1>8. n = m /\ Len(t) = Len(y)
  BY <1>3, <1>4, <1>5, <1>6, <1>7
<1>9. s = x
  BY <1>2, <1>4, <1>5, <1>8, SeqEqual DEF Text
<1>10. t = y
  BY <1>4, <1>5, <1>8, SeqEqual DEF Text
<1> QED
  BY <1>9, <1>10

(* The equation Joined was defined by has a solution, so Joined solves it.  *)
Extended(address, prefix, n) ==
  IF n = 0 THEN EncodeSegment(address.tenant) \o <<":">> \o address.namespace
  ELSE prefix[n - 1] \o <<":">> \o EncodeSegment(address.parts[n])

LEMMA JoinedUpTo ==
  ASSUME NEW a \in Address
  PROVE  \A m \in Nat : m <= Len(a.parts) =>
           \E g \in [0 .. m -> Text] : \A n \in 0 .. m : g[n] = Extended(a, g, n)
<1> DEFINE Solved(m) == \E g \in [0 .. m -> Text] : \A n \in 0 .. m : g[n] = Extended(a, g, n)
           T == {m \in Nat : m <= Len(a.parts) => Solved(m)}
<1>1. a.tenant \in Segment /\ a.namespace \in Text /\ a.parts \in Seq(Segment)
  BY DEF Address, Text, Segment, Symbols
<1>2. 0 \in T
  <2>1. PICK base : base = EncodeSegment(a.tenant) \o <<":">> \o a.namespace
    OBVIOUS
  <2>2. base \in Text
    BY <1>1, <2>1, EncodedSegment, WithColon DEF Spells
  <2> DEFINE g == [n \in 0 .. 0 |-> base]
  <2>3. g \in [0 .. 0 -> Text] /\ \A n \in 0 .. 0 : g[n] = Extended(a, g, n)
    <3>1. \A n \in 0 .. 0 : n = 0 /\ g[n] = base
      OBVIOUS
    <3>2. g \in [0 .. 0 -> Text]
      BY <2>2
    <3> HIDE DEF g
    <3> QED
      BY <2>1, <3>1, <3>2 DEF Extended
  <2>4. Solved(0)
    BY <2>3
  <2> QED
    BY <2>4
<1>3. ASSUME NEW m \in T
      PROVE  m + 1 \in T
  <2> SUFFICES ASSUME m + 1 <= Len(a.parts) PROVE Solved(m + 1)
    OBVIOUS
  <2>1. Solved(m) /\ m \in Nat
    BY <1>1
  <2>2. PICK g \in [0 .. m -> Text] : \A n \in 0 .. m : g[n] = Extended(a, g, n)
    BY <2>1
  <2>3. PICK part : part = EncodeSegment(a.parts[m + 1])
    OBVIOUS
  <2>4. part \in Text
    BY <1>1, <2>1, <2>3, EncodedSegment
  <2>5. PICK next : next = g[m] \o <<":">> \o part
    OBVIOUS
  <2>6. next \in Text
    BY <2>1, <2>2, <2>4, <2>5, WithColon DEF Spells
  <2> DEFINE h == [n \in 0 .. m + 1 |-> IF n = m + 1 THEN next ELSE g[n]]
  <2>7. h \in [0 .. m + 1 -> Text]
    BY <2>1, <2>2, <2>6
  <2>8. ASSUME NEW n \in 0 .. m + 1
        PROVE  h[n] = Extended(a, h, n)
    <3>1. CASE n = m + 1
      <4>1. h[m] = g[m] /\ n # 0 /\ n - 1 = m
        BY <2>1, <3>1
      <4> QED
        BY <2>3, <2>5, <3>1, <4>1 DEF Extended
    <3>2. CASE n # m + 1
      <4>1. n \in 0 .. m /\ h[n] = g[n] /\ (n # 0 => h[n - 1] = g[n - 1])
        BY <2>1, <3>2
      <4>2. Extended(a, h, n) = Extended(a, g, n)
        BY <4>1 DEF Extended
      <4> QED
        BY <2>2, <4>1, <4>2
    <3> QED
      BY <3>1, <3>2
  <2> HIDE DEF h
  <2> QED
    BY <2>7, <2>8
<1> HIDE DEF Solved
<1>4. T = Nat
  BY <1>2, <1>3, SetInduction
<1> QED
  BY <1>4 DEF Solved

LEMMA JoinedSolves ==
  ASSUME NEW a \in Address
  PROVE  /\ Len(a.parts) \in Nat
         /\ \A n \in 0 .. Len(a.parts) :
              Joined(a)[n] \in Text /\ Joined(a)[n] = Extended(a, Joined(a), n)
<1>1. PICK m : m = Len(a.parts)
  OBVIOUS
<1>2. m \in Nat
  BY <1>1 DEF Address
<1>3. PICK g \in [0 .. m -> Text] : \A n \in 0 .. m : g[n] = Extended(a, g, n)
  BY <1>1, <1>2, JoinedUpTo
<1>4. g = [n \in 0 .. Len(a.parts) |-> Extended(a, g, n)]
  BY <1>1, <1>3
<1>5. Joined(a) = [n \in 0 .. Len(a.parts) |-> Extended(a, Joined(a), n)]
  BY <1>4 DEF Joined, Extended
<1>6. \A n \in 0 .. m : Joined(a)[n] = Extended(a, Joined(a), n)
  BY <1>1, <1>5
<1> DEFINE T == {n \in Nat : n <= m => Joined(a)[n] \in Text}
<1>7. T = Nat
  <2>1. a.tenant \in Segment /\ a.namespace \in Text /\ a.parts \in Seq(Segment)
    BY DEF Address, Text, Segment, Symbols
  <2>2. 0 \in T
    <3>1. 0 \in 0 .. m
      BY <1>2
    <3>2. Joined(a)[0] = Extended(a, Joined(a), 0)
      BY <1>6, <3>1
    <3>3. Joined(a)[0] = EncodeSegment(a.tenant) \o <<":">> \o a.namespace
      BY <3>2 DEF Extended
    <3>4. Joined(a)[0] \in Text
      BY <2>1, <3>3, EncodedSegment, WithColon DEF Spells
    <3> QED
      BY <3>4
  <2>3. ASSUME NEW n \in T
        PROVE  n + 1 \in T
    <3> SUFFICES ASSUME n + 1 <= m PROVE Joined(a)[n + 1] \in Text
      OBVIOUS
    <3>1. n \in Nat /\ Joined(a)[n] \in Text
      BY <1>2
    <3>2. EncodeSegment(a.parts[n + 1]) \in Text
      BY <1>1, <1>2, <2>1, <3>1, EncodedSegment
    <3>3. Joined(a)[n + 1] = Joined(a)[n] \o <<":">> \o EncodeSegment(a.parts[n + 1])
      <4>1. n + 1 \in 0 .. m /\ n + 1 # 0 /\ (n + 1) - 1 = n
        BY <1>2, <3>1
      <4>2. Joined(a)[n + 1] = Extended(a, Joined(a), n + 1)
        BY <1>6, <4>1
      <4> QED
        BY <4>1, <4>2 DEF Extended
    <3> QED
      BY <3>1, <3>2, <3>3, WithColon DEF Spells
  <2> QED
    BY <2>2, <2>3, SetInduction
<1> QED
  BY <1>1, <1>2, <1>6, <1>7

(* What IsAddress checks is enough to read an address back from its key.    *)
Valid == {a \in Addresses : IsAddress(a)}

(* The last ":" of a joined prefix stands before its last segment. *)
Beginning(a, n) == IF n = 0 THEN EncodeSegment(a.tenant) ELSE Joined(a)[n - 1]
Ending(a, n) == IF n = 0 THEN a.namespace ELSE EncodeSegment(a.parts[n])

LEMMA ReadBack ==
  ASSUME NEW a \in Valid, NEW n \in 0 .. Len(a.parts)
  PROVE  /\ Beginning(a, n) \in Text /\ Ending(a, n) \in Text /\ ~HasColon(Ending(a, n))
         /\ Joined(a)[n] = Beginning(a, n) \o <<":">> \o Ending(a, n)
         /\ HasColon(Joined(a)[n])
<1>1. a \in Address /\ Len(a.parts) \in Nat
  BY AddressesAssumption, JoinedSolves DEF Valid
<1>2. a.tenant \in Segment /\ a.namespace \in Segment /\ a.namespace \in Text
      /\ a.parts \in Seq(Segment)
  BY <1>1 DEF Address, Text, Segment, Symbols
<1>3. ~HasColon(a.namespace)
  BY <1>2 DEF Valid, IsAddress, HasColon, Segment
<1>4. Joined(a)[n] = Extended(a, Joined(a), n)
  BY <1>1, JoinedSolves
<1>5. Joined(a)[n] = Beginning(a, n) \o <<":">> \o Ending(a, n)
  BY <1>4 DEF Extended, Beginning, Ending
<1>6. Beginning(a, n) \in Text
  <2>1. CASE n = 0
    BY <1>2, <2>1, EncodedSegment DEF Beginning
  <2>2. CASE n # 0
    <3>1. n - 1 \in 0 .. Len(a.parts)
      BY <1>1, <2>2
    <3> QED
      BY <1>1, <2>2, <3>1, JoinedSolves DEF Beginning
  <2> QED
    BY <2>1, <2>2
<1>7. Ending(a, n) \in Text /\ ~HasColon(Ending(a, n))
  <2>1. CASE n = 0
    BY <1>2, <1>3, <2>1 DEF Ending
  <2>2. CASE n # 0
    <3>1. a.parts[n] \in Segment
      BY <1>1, <1>2, <2>2
    <3> QED
      BY <2>2, <3>1, EncodedSegment DEF Ending
  <2> QED
    BY <2>1, <2>2
<1>8. HasColon(Joined(a)[n])
  <2>1. Spells(Joined(a)[n], Beginning(a, n), Ending(a, n))
    BY <1>5, <1>6, <1>7, WithColon
  <2>2. PICK l, k : l = Len(Beginning(a, n)) /\ k = Len(Ending(a, n))
    OBVIOUS
  <2>3. l \in Nat /\ k \in Nat
    BY <1>6, <1>7, <2>2 DEF Text
  <2>4. l + 1 \in 1 .. Len(Joined(a)[n]) /\ Joined(a)[n][l + 1] = ":"
    BY <2>1, <2>2, <2>3 DEF Spells
  <2> QED
    BY <2>4 DEF HasColon
<1> QED
  BY <1>5, <1>6, <1>7, <1>8

(* Equal up to part n. *)
SameUpTo(a, b, n) ==
  a.tenant = b.tenant /\ a.namespace = b.namespace /\ \A i \in 1 .. n : a.parts[i] = b.parts[i]

LEMMA PrefixTellsAddress ==
  ASSUME NEW a \in Valid, NEW b \in Valid
  PROVE  \A n \in Nat : \A m \in 0 .. Len(b.parts) :
           n <= Len(a.parts) /\ Joined(a)[n] = Joined(b)[m] => n = m /\ SameUpTo(a, b, n)
<1> DEFINE Told(n) == \A m \in 0 .. Len(b.parts) :
             n <= Len(a.parts) /\ Joined(a)[n] = Joined(b)[m] => n = m /\ SameUpTo(a, b, n)
           T == {n \in Nat : Told(n)}
<1>1. a \in Address /\ b \in Address /\ Len(a.parts) \in Nat /\ Len(b.parts) \in Nat
  BY AddressesAssumption, JoinedSolves DEF Valid
<1>2. /\ a.tenant \in Segment /\ b.tenant \in Segment
      /\ a.parts \in Seq(Segment) /\ b.parts \in Seq(Segment)
  BY <1>1 DEF Address
<1>3. ASSUME NEW n \in 0 .. Len(a.parts), NEW m \in 0 .. Len(b.parts), Joined(a)[n] = Joined(b)[m]
      PROVE  Beginning(a, n) = Beginning(b, m) /\ Ending(a, n) = Ending(b, m)
  <2>1. PICK s, x, u, y : /\ s = Beginning(a, n) /\ x = Ending(a, n)
                          /\ u = Beginning(b, m) /\ y = Ending(b, m)
    OBVIOUS
  <2>2. s \in Text /\ x \in Text /\ ~HasColon(x) /\ Joined(a)[n] = s \o <<":">> \o x
    BY <2>1, ReadBack
  <2>3. u \in Text /\ y \in Text /\ ~HasColon(y) /\ Joined(b)[m] = u \o <<":">> \o y
    BY <2>1, ReadBack
  <2>4. s = u /\ x = y
    BY <1>3, <2>2, <2>3, LastColon
  <2> QED
    BY <2>1, <2>4
<1>4. ASSUME NEW n \in 0 .. Len(a.parts), NEW m \in 0 .. Len(b.parts), Joined(a)[n] = Joined(b)[m]
      PROVE  n = 0 <=> m = 0
  <2>1. ~HasColon(EncodeSegment(a.tenant)) /\ ~HasColon(EncodeSegment(b.tenant))
    BY <1>2, EncodedSegment
  <2>2. Beginning(a, n) = Beginning(b, m)
    BY <1>3, <1>4
  <2>3. ~(n = 0 /\ m # 0)
    <3> SUFFICES ASSUME n = 0, m # 0 PROVE FALSE
      OBVIOUS
    <3>1. m - 1 \in 0 .. Len(b.parts)
      BY <1>1
    <3>2. HasColon(Joined(b)[m - 1])
      BY <3>1, ReadBack
    <3> QED
      BY <2>1, <2>2, <3>2 DEF Beginning
  <2>4. ~(m = 0 /\ n # 0)
    <3> SUFFICES ASSUME m = 0, n # 0 PROVE FALSE
      OBVIOUS
    <3>1. n - 1 \in 0 .. Len(a.parts)
      BY <1>1
    <3>2. HasColon(Joined(a)[n - 1])
      BY <3>1, ReadBack
    <3> QED
      BY <2>1, <2>2, <3>2 DEF Beginning
  <2> QED
    BY <2>3, <2>4
<1>5. 0 \in T
  <2> SUFFICES ASSUME NEW m \in 0 .. Len(b.parts), Joined(a)[0] = Joined(b)[m]
               PROVE  0 = m /\ SameUpTo(a, b, 0)
    OBVIOUS
  <2>1. 0 \in 0 .. Len(a.parts)
    BY <1>1
  <2>2. m = 0
    BY <1>4, <2>1
  <2>3. EncodeSegment(a.tenant) = EncodeSegment(b.tenant) /\ a.namespace = b.namespace
    BY <1>3, <2>1, <2>2 DEF Beginning, Ending
  <2> QED
    BY <1>2, <2>2, <2>3, EncodedDistinct DEF SameUpTo
<1>6. ASSUME NEW n \in T
      PROVE  n + 1 \in T
  <2> SUFFICES ASSUME NEW m \in 0 .. Len(b.parts), n + 1 <= Len(a.parts),
                      Joined(a)[n + 1] = Joined(b)[m]
               PROVE  n + 1 = m /\ SameUpTo(a, b, n + 1)
    OBVIOUS
  <2>1. n \in Nat /\ n + 1 \in 0 .. Len(a.parts) /\ n + 1 # 0 /\ (n + 1) - 1 = n
    BY <1>1
  <2>2. m # 0 /\ m \in Nat
    BY <1>1, <1>4, <2>1
  <2>3. Beginning(a, n + 1) = Beginning(b, m) /\ Ending(a, n + 1) = Ending(b, m)
    BY <1>3, <2>1
  <2>4. Joined(a)[n] = Joined(b)[m - 1]
    BY <2>1, <2>2, <2>3 DEF Beginning
  <2>5. EncodeSegment(a.parts[n + 1]) = EncodeSegment(b.parts[m])
    BY <2>1, <2>2, <2>3 DEF Ending
  <2>6. m - 1 \in 0 .. Len(b.parts) /\ n <= Len(a.parts)
    BY <1>1, <2>1, <2>2
  <2>7. Told(n)
    OBVIOUS
  <2>8. n = m - 1 /\ SameUpTo(a, b, n)
    BY <2>4, <2>6, <2>7
  <2>9. n + 1 = m
    BY <2>1, <2>2, <2>8
  <2>10. a.parts[n + 1] = b.parts[n + 1]
    BY <1>1, <1>2, <2>1, <2>5, <2>9, EncodedDistinct
  <2>11. \A i \in 1 .. n + 1 : i \in 1 .. n \/ i = n + 1
    BY <2>1
  <2> QED
    BY <2>8, <2>9, <2>10, <2>11 DEF SameUpTo
<1> HIDE DEF Told
<1>7. T = Nat
  BY <1>5, <1>6, SetInduction
<1> QED
  BY <1>7 DEF Told

(* No two addresses have the same key: 'distinct part lists can never       *)
(* collide after joining', nor can two tenants or two namespaces.           *)
THEOREM KeysDistinct ==
  ASSUME NEW a \in Valid, NEW b \in Valid, TenantScopedKey(a) = TenantScopedKey(b)
  PROVE  a = b
<1>1. a \in Address /\ b \in Address /\ Len(a.parts) \in Nat /\ Len(b.parts) \in Nat
  BY AddressesAssumption, JoinedSolves DEF Valid
<1>2. Joined(a)[Len(a.parts)] = Joined(b)[Len(b.parts)]
  BY DEF TenantScopedKey
<1>3. Len(a.parts) = Len(b.parts) /\ SameUpTo(a, b, Len(a.parts))
  BY <1>1, <1>2, PrefixTellsAddress
<1>4. a.parts = b.parts
  BY <1>1, <1>3, SeqEqual DEF SameUpTo, Address
<1> QED
  BY <1>1, <1>3, <1>4 DEF SameUpTo, Address

-----------------------------------------------------------------------------
(* The Map.  What is left of a sequence when the element at one place is    *)
(* dropped keeps its order.                                                 *)

Drops(w, s, C) ==
  \E p \in [1 .. Len(w) -> (1 .. Len(s)) \ C] :
    /\ \A i \in 1 .. Len(w) : w[i] = s[p[i]]
    /\ \A i, j \in 1 .. Len(w) : i < j => p[i] < p[j]
    /\ \A k \in (1 .. Len(s)) \ C : \E i \in 1 .. Len(w) : p[i] = k

LEMMA DropAt ==
  ASSUME NEW S, NEW s \in Seq(S), NEW k \in 1 .. Len(s)
  PROVE  /\ RemoveAt(s, k) \in Seq(S)
         /\ Len(RemoveAt(s, k)) = Len(s) - 1
         /\ Drops(RemoveAt(s, k), s, {k})
<1>1. PICK n : n = Len(s)
  OBVIOUS
<1>2. n \in Nat /\ k \in 1 .. n /\ \A i \in 1 .. n : s[i] \in S
  BY <1>1
<1>3. PICK x, y : x = SubSeq(s, 1, k - 1) /\ y = SubSeq(s, k + 1, n)
  OBVIOUS
<1>4. x \in Seq(S) /\ Len(x) = k - 1 /\ \A i \in 1 .. k - 1 : x[i] = s[i]
  <2>1. \A i \in 1 .. k - 1 : s[i] \in S
    BY <1>2
  <2>2. /\ SubSeq(s, 1, k - 1) \in Seq(S)
        /\ Len(SubSeq(s, 1, k - 1)) = IF 1 <= k - 1 THEN k - 1 - 1 + 1 ELSE 0
        /\ \A i \in 1 .. k - 1 - 1 + 1 : SubSeq(s, 1, k - 1)[i] = s[1 + i - 1]
    BY <1>2, <2>1, SubSeqProperties
  <2> QED
    BY <1>2, <1>3, <2>2
<1>5. y \in Seq(S) /\ Len(y) = n - k /\ \A i \in 1 .. n - k : y[i] = s[k + i]
  <2>1. \A i \in k + 1 .. n : s[i] \in S
    BY <1>2
  <2>2. /\ SubSeq(s, k + 1, n) \in Seq(S)
        /\ Len(SubSeq(s, k + 1, n)) = IF k + 1 <= n THEN n - (k + 1) + 1 ELSE 0
        /\ \A i \in 1 .. n - (k + 1) + 1 : SubSeq(s, k + 1, n)[i] = s[(k + 1) + i - 1]
    BY <1>2, <2>1, SubSeqProperties
  <2> QED
    BY <1>2, <1>3, <2>2
<1>6. PICK w : w = x \o y
  OBVIOUS
<1>7. w \in Seq(S) /\ Len(w) = n - 1
  <2>1. w \in Seq(S) /\ Len(w) = Len(x) + Len(y)
    BY <1>4, <1>5, <1>6, ConcatProperties
  <2> QED
    BY <1>2, <1>4, <1>5, <2>1
<1>8. ASSUME NEW i \in 1 .. n - 1
      PROVE  w[i] = IF i < k THEN s[i] ELSE s[i + 1]
  <2>1. w[i] = IF i <= Len(x) THEN x[i] ELSE y[i - Len(x)]
    <3>1. i \in 1 .. Len(x) + Len(y)
      BY <1>2, <1>4, <1>5
    <3> QED
      BY <1>4, <1>5, <1>6, <3>1, ConcatProperties
  <2>2. CASE i < k
    BY <1>2, <1>4, <2>1, <2>2
  <2>3. CASE ~(i < k)
    <3>1. ~(i <= Len(x)) /\ i - Len(x) \in 1 .. n - k /\ k + (i - Len(x)) = i + 1
      BY <1>2, <1>4, <2>3
    <3> QED
      BY <1>5, <2>1, <2>3, <3>1
  <2> QED
    BY <2>2, <2>3
<1> DEFINE p == [i \in 1 .. n - 1 |-> IF i < k THEN i ELSE i + 1]
<1>9. p \in [1 .. n - 1 -> (1 .. n) \ {k}]
  BY <1>2
<1>10. \A i \in 1 .. n - 1 : w[i] = s[p[i]]
  BY <1>8
<1>11. \A i, j \in 1 .. n - 1 : i < j => p[i] < p[j]
  BY <1>2
<1>12. ASSUME NEW l \in (1 .. n) \ {k}
       PROVE  \E i \in 1 .. n - 1 : p[i] = l
  <2>1. CASE l < k
    <3>1. l \in 1 .. n - 1 /\ p[l] = l
      BY <1>2, <2>1
    <3> QED
      BY <3>1
  <2>2. CASE ~(l < k)
    <3>1. l - 1 \in 1 .. n - 1 /\ p[l - 1] = l
      BY <1>2, <2>2
    <3> QED
      BY <3>1
  <2> QED
    BY <2>1, <2>2
<1> HIDE DEF p
<1>13. Drops(w, s, {k})
  <2>1. p \in [1 .. Len(w) -> (1 .. Len(s)) \ {k}]
    BY <1>1, <1>7, <1>9
  <2>2. \A i \in 1 .. Len(w) : w[i] = s[p[i]]
    BY <1>7, <1>10
  <2>3. \A i, j \in 1 .. Len(w) : i < j => p[i] < p[j]
    BY <1>7, <1>11
  <2>4. \A l \in (1 .. Len(s)) \ {k} : \E i \in 1 .. Len(w) : p[i] = l
    BY <1>1, <1>7, <1>12
  <2> QED
    BY <2>1, <2>2, <2>3, <2>4, Zenon DEF Drops
<1>14. RemoveAt(s, k) = w
  BY <1>1, <1>3, <1>6 DEF RemoveAt
<1> QED
  BY <1>1, <1>7, <1>13, <1>14

LEMMA DropNone ==
  ASSUME NEW S, NEW s \in Seq(S)
  PROVE  Drops(s, s, {})
<1> DEFINE p == [i \in 1 .. Len(s) |-> i]
<1>1. /\ p \in [1 .. Len(s) -> (1 .. Len(s)) \ {}]
      /\ \A i \in 1 .. Len(s) : p[i] = i
  OBVIOUS
<1> HIDE DEF p
<1> QED
  BY <1>1 DEF Drops

(* The element at the only place in C, if there is one, is dropped. *)
LEMMA DropOne ==
  ASSUME NEW S, NEW s \in Seq(S), NEW C \in SUBSET (1 .. Len(s)), \A i, j \in C : i = j,
         NEW w, w = IF C = {} THEN s ELSE RemoveAt(s, CHOOSE i \in C : TRUE)
  PROVE  /\ w \in Seq(S) /\ Len(w) <= Len(s)
         /\ C # {} => Len(w) = Len(s) - 1
         /\ Drops(w, s, C)
<1>1. CASE C = {}
  BY <1>1, DropNone
<1>2. CASE C # {}
  <2>1. PICK k : k = CHOOSE i \in C : TRUE
    OBVIOUS
  <2>2. k \in C
    BY <1>2, <2>1
  <2>3. C = {k} /\ k \in 1 .. Len(s)
    BY <2>2
  <2>4. w = RemoveAt(s, k)
    BY <1>2, <2>1
  <2>5. /\ RemoveAt(s, k) \in Seq(S)
        /\ Len(RemoveAt(s, k)) = Len(s) - 1
        /\ Drops(RemoveAt(s, k), s, {k})
    BY <2>3, DropAt
  <2>6. Len(w) <= Len(s)
    <3>1. Len(s) \in Nat
      OBVIOUS
    <3> QED
      BY <2>4, <2>5, <3>1
  <2>7. w \in Seq(S) /\ Len(w) = Len(s) - 1 /\ Drops(w, s, C)
    BY <2>3, <2>4, <2>5, Zenon
  <2> QED
    BY <2>6, <2>7
<1> QED
  BY <1>1, <1>2

-----------------------------------------------------------------------------
(* The inductive invariant: its parts are stated of any map m, reference    *)
(* values w and order of use u.                                             *)

Entry == [key : {TenantScopedKey(a) : a \in Valid}, value : CacheValues, expires : Nat \cup {NoTtl}]
Reference == [value : CacheValues \cup {Uncloneable}, expires : Nat \cup {NoTtl}]

InUse(u, a) == \E i \in 1 .. Len(u) : u[i] = a
UsedBefore(u, a, b) == \E i, j \in 1 .. Len(u) : u[i] = a /\ u[j] = b /\ i < j
Distinct(s) == \A i, j \in 1 .. Len(s) : s[i] = s[j] => i = j

OneEntryPerKey(m) == \A i, j \in 1 .. Len(m) : m[i].key = m[j].key => i = j

(* An entry is what was last set at its address, which has been used. *)
Faithful(m, w, u) ==
  \A i \in 1 .. Len(m) : \A a \in Valid :
    m[i].key = TenantScopedKey(a) =>
      [value |-> m[i].value, expires |-> m[i].expires] = w[a] /\ InUse(u, a)

(* The entries are in the order in which they were last used. *)
InOrderOfUse(m, u) ==
  \A i, j \in 1 .. Len(m) : \A a, b \in Valid :
    i < j /\ m[i].key = TenantScopedKey(a) /\ m[j].key = TenantScopedKey(b) => UsedBefore(u, a, b)

Present(m, a) == \E i \in 1 .. Len(m) : m[i].key = TenantScopedKey(a)
UsedAfter(u, a) == {b \in Addresses \ {a} : UsedBefore(u, a, b)}
Lapsed(r, t) == r.expires # NoTtl /\ r.expires <= t

(* What has no entry was never set, deleted, has expired, or was evicted.   *)
Excused(w, u, t, a) ==
  \/ w[a] = Nothing
  \/ Lapsed(w[a], t)
  \/ Cardinality(UsedAfter(u, a)) >= MaxEntries

OnlyEvicted(m, w, u, t) == \A a \in Valid : Present(m, a) \/ Excused(w, u, t, a)

GoodMap(m, w, u) ==
  /\ m \in Seq(Entry)
  /\ OneEntryPerKey(m)
  /\ Faithful(m, w, u)
  /\ InOrderOfUse(m, u)

CacheInv ==
  /\ now \in Nat
  /\ written \in [Addresses -> Reference]
  /\ used \in Seq(Addresses)
  /\ Distinct(used)
  /\ GoodMap(entries, written, used)
  /\ Len(entries) <= MaxEntries
  /\ OnlyEvicted(entries, written, used, now)

(* An address that is used moves to the end. *)
Moves(u, v, a) ==
  /\ InUse(v, a)
  /\ \A b \in Addresses : b # a /\ InUse(u, b) => InUse(v, b)
  /\ \A b \in Addresses : b # a /\ InUse(v, b) => UsedBefore(v, b, a)
  /\ \A b, c \in Addresses : b # a /\ c # a /\ UsedBefore(u, b, c) => UsedBefore(v, b, c)

LEMMA UseMoves ==
  ASSUME used \in Seq(Addresses), Distinct(used), NEW a \in Addresses, Use(a)
  PROVE  used' \in Seq(Addresses) /\ Distinct(used') /\ Moves(used, used', a)
<1>1. PICK C : C = {i \in DOMAIN used : used[i] = a}
  OBVIOUS
<1>2. PICK w : w = IF C = {} THEN used ELSE RemoveAt(used, CHOOSE i \in C : TRUE)
  OBVIOUS
<1>3. used' = Append(w, a)
  BY <1>1, <1>2 DEF Use
<1>4. DOMAIN used = 1 .. Len(used) /\ Len(used) \in Nat
  OBVIOUS
<1>5. C \in SUBSET (1 .. Len(used)) /\ \A i, j \in C : i = j
  BY <1>1, <1>4 DEF Distinct
<1>6. w \in Seq(Addresses) /\ Drops(w, used, C)
  BY <1>2, <1>5, DropOne
<1>7. PICK p \in [1 .. Len(w) -> (1 .. Len(used)) \ C] :
        /\ \A i \in 1 .. Len(w) : w[i] = used[p[i]]
        /\ \A i, j \in 1 .. Len(w) : i < j => p[i] < p[j]
        /\ \A k \in (1 .. Len(used)) \ C : \E i \in 1 .. Len(w) : p[i] = k
  BY <1>6 DEF Drops
<1>8. PICK n : n = Len(w)
  OBVIOUS
<1>9. n \in Nat /\ Len(w) = n
  BY <1>6, <1>8
<1>10. /\ used' \in Seq(Addresses)
       /\ Len(used') = n + 1
       /\ \A i \in 1 .. n : used'[i] = w[i]
       /\ used'[n + 1] = a
  BY <1>3, <1>6, <1>8, AppendProperties
<1>11. \A i \in 1 .. n : used'[i] = used[p[i]] /\ p[i] \in 1 .. Len(used) /\ used[p[i]] # a
  BY <1>1, <1>4, <1>7, <1>9, <1>10
<1>12. ASSUME NEW k \in 1 .. Len(used), used[k] # a
       PROVE  \E i \in 1 .. n : p[i] = k
  BY <1>1, <1>7, <1>9, <1>12
<1>13. \A i, j \in 1 .. n : i < j => p[i] < p[j]
  BY <1>7, <1>9
<1>14. Distinct(used')
  <2> SUFFICES ASSUME NEW i \in 1 .. n + 1, NEW j \in 1 .. n + 1, used'[i] = used'[j], i < j
               PROVE  FALSE
    BY <1>9, <1>10 DEF Distinct
  <2>1. i \in 1 .. n
    BY <1>9
  <2>2. CASE j = n + 1
    BY <1>10, <1>11, <2>1, <2>2
  <2>3. CASE j # n + 1
    <3>1. j \in 1 .. n
      BY <1>9, <2>3
    <3>2. /\ p[i] \in 1 .. Len(used) /\ p[j] \in 1 .. Len(used)
          /\ p[i] < p[j] /\ used[p[i]] = used[p[j]]
      BY <1>11, <1>13, <2>1, <3>1
    <3>3. p[i] = p[j]
      BY <3>2 DEF Distinct
    <3> QED
      BY <1>4, <3>2, <3>3
  <2> QED
    BY <2>2, <2>3
<1>15. n + 1 \in 1 .. Len(used') /\ \A i \in 1 .. n : i \in 1 .. Len(used') /\ i < n + 1
  BY <1>9, <1>10
<1>16. InUse(used', a)
  BY <1>10, <1>15 DEF InUse
<1>17. ASSUME NEW b \in Addresses, b # a, InUse(used, b)
       PROVE  InUse(used', b)
  <2>1. PICK k \in 1 .. Len(used) : used[k] = b
    BY <1>17 DEF InUse
  <2>2. PICK i \in 1 .. n : p[i] = k
    BY <1>12, <1>17, <2>1
  <2>3. used'[i] = b
    BY <1>11, <2>1, <2>2
  <2> QED
    BY <1>15, <2>3 DEF InUse
<1>18. ASSUME NEW b \in Addresses, b # a, InUse(used', b)
       PROVE  UsedBefore(used', b, a)
  <2>1. PICK i \in 1 .. n + 1 : used'[i] = b
    BY <1>10, <1>18 DEF InUse
  <2>2. i \in 1 .. n
    BY <1>9, <1>10, <1>18, <2>1
  <2> QED
    BY <1>10, <1>15, <2>1, <2>2 DEF UsedBefore
<1>19. ASSUME NEW b \in Addresses, NEW c \in Addresses, b # a, c # a, UsedBefore(used, b, c)
       PROVE  UsedBefore(used', b, c)
  <2>1. PICK k \in 1 .. Len(used), l \in 1 .. Len(used) : used[k] = b /\ used[l] = c /\ k < l
    BY <1>19 DEF UsedBefore
  <2>2. PICK i \in 1 .. n : p[i] = k
    BY <1>12, <1>19, <2>1
  <2>3. PICK j \in 1 .. n : p[j] = l
    BY <1>12, <1>19, <2>1
  <2>4. i < j
    <3>1. ~(j < i) /\ i # j
      BY <1>4, <1>13, <2>1, <2>2, <2>3
    <3> QED
      BY <1>9, <3>1
  <2>5. used'[i] = b /\ used'[j] = c
    BY <1>11, <2>1, <2>2, <2>3
  <2> QED
    BY <1>15, <2>4, <2>5 DEF UsedBefore
<1> QED
  BY <1>10, <1>14, <1>16, <1>17, <1>18, <1>19 DEF Moves

(* Removing an entry leaves a good map without it. *)
LEMMA WithoutDrops ==
  ASSUME entries \in Seq(Entry), OneEntryPerKey(entries), NEW key
  PROVE  /\ Without(key) \in Seq(Entry) /\ Len(Without(key)) <= Len(entries)
         /\ IndicesOf(key) # {} => Len(Without(key)) = Len(entries) - 1
         /\ Drops(Without(key), entries, IndicesOf(key))
<1>1. DOMAIN entries = 1 .. Len(entries)
  OBVIOUS
<1>2. IndicesOf(key) \in SUBSET (1 .. Len(entries)) /\ \A i, j \in IndicesOf(key) : i = j
  BY <1>1 DEF IndicesOf, OneEntryPerKey
<1>3. PICK C : C = IndicesOf(key)
  OBVIOUS
<1>4. PICK w : w = Without(key)
  OBVIOUS
<1>5. w = IF C = {} THEN entries ELSE RemoveAt(entries, CHOOSE i \in C : TRUE)
  BY <1>3, <1>4 DEF Without
<1> QED
  BY <1>2, <1>3, <1>4, <1>5, DropOne

LEMMA DroppedIsGood ==
  ASSUME NEW m, NEW w, NEW u, NEW l \in Seq(Entry), NEW C,
         GoodMap(m, w, u), Drops(l, m, C)
  PROVE  /\ GoodMap(l, w, u)
         /\ \A a \in Valid : Present(m, a) =>
              Present(l, a) \/ \E i \in C \cap (1 .. Len(m)) : m[i].key = TenantScopedKey(a)
         /\ \A a \in Valid : Present(l, a) =>
              \E i \in (1 .. Len(m)) \ C : m[i].key = TenantScopedKey(a)
<1>1. PICK p \in [1 .. Len(l) -> (1 .. Len(m)) \ C] :
        /\ \A i \in 1 .. Len(l) : l[i] = m[p[i]]
        /\ \A i, j \in 1 .. Len(l) : i < j => p[i] < p[j]
        /\ \A k \in (1 .. Len(m)) \ C : \E i \in 1 .. Len(l) : p[i] = k
  BY DEF Drops
<1>2. \A i \in 1 .. Len(l) : p[i] \in 1 .. Len(m) /\ p[i] \notin C
  BY <1>1
<1>3. Len(l) \in Nat /\ m \in Seq(Entry) /\ Len(m) \in Nat
  BY DEF GoodMap
<1>4. OneEntryPerKey(l)
  <2> SUFFICES ASSUME NEW i \in 1 .. Len(l), NEW j \in 1 .. Len(l), l[i].key = l[j].key, i < j
               PROVE  FALSE
    BY <1>3 DEF OneEntryPerKey
  <2>1. p[i] = p[j]
    <3>1. p[i] \in 1 .. Len(m) /\ p[j] \in 1 .. Len(m)
      BY <1>2
    <3>2. m[p[i]].key = m[p[j]].key
      <4>1. l[i] = m[p[i]] /\ l[j] = m[p[j]]
        BY <1>1
      <4> QED
        BY <4>1
    <3>3. \A k, n \in 1 .. Len(m) : m[k].key = m[n].key => k = n
      BY DEF GoodMap, OneEntryPerKey
    <3> QED
      BY <3>1, <3>2, <3>3
  <2>2. p[i] < p[j] /\ p[i] \in Nat
    BY <1>1, <1>2, <1>3
  <2> QED
    BY <2>1, <2>2
<1>5. Faithful(l, w, u)
  BY <1>1, <1>2 DEF GoodMap, Faithful
<1>6. InOrderOfUse(l, u)
  BY <1>1, <1>2 DEF GoodMap, InOrderOfUse
<1>7. \A a \in Valid : Present(m, a) =>
        Present(l, a) \/ \E i \in C \cap (1 .. Len(m)) : m[i].key = TenantScopedKey(a)
  BY <1>1 DEF Present
<1>8. \A a \in Valid : Present(l, a) => \E i \in (1 .. Len(m)) \ C : m[i].key = TenantScopedKey(a)
  BY <1>1, <1>2 DEF Present
<1> QED
  BY <1>4, <1>5, <1>6, <1>7, <1>8 DEF GoodMap

LEMMA WithoutIsGood ==
  ASSUME GoodMap(entries, written, used), NEW a \in Valid
  PROVE  LET m == Without(TenantScopedKey(a))
         IN  /\ GoodMap(m, written, used)
             /\ ~Present(m, a)
             /\ Len(m) <= Len(entries)
             /\ Present(entries, a) => Len(m) = Len(entries) - 1
             /\ \A b \in Valid : b # a /\ Present(entries, b) => Present(m, b)
<1>1. PICK key : key = TenantScopedKey(a)
  OBVIOUS
<1>2. PICK m, C : m = Without(key) /\ C = IndicesOf(key)
  OBVIOUS
<1>3. entries \in Seq(Entry) /\ OneEntryPerKey(entries)
  BY DEF GoodMap
<1>4. /\ m \in Seq(Entry) /\ Len(m) <= Len(entries)
      /\ C # {} => Len(m) = Len(entries) - 1
      /\ Drops(m, entries, C)
  BY <1>2, <1>3, WithoutDrops
<1>5. C = {i \in 1 .. Len(entries) : entries[i].key = key}
  BY <1>2, <1>3 DEF IndicesOf
<1>6. /\ GoodMap(m, written, used)
      /\ \A b \in Valid : Present(entries, b) =>
           \/ Present(m, b)
           \/ \E i \in C \cap (1 .. Len(entries)) : entries[i].key = TenantScopedKey(b)
      /\ \A b \in Valid : Present(m, b) =>
           \E i \in (1 .. Len(entries)) \ C : entries[i].key = TenantScopedKey(b)
  BY <1>4, DroppedIsGood
<1>7. ~Present(m, a)
  BY <1>1, <1>5, <1>6
<1>8. Present(entries, a) => C # {}
  BY <1>1, <1>5 DEF Present
<1>9. ASSUME NEW b \in Valid, b # a, Present(entries, b)
      PROVE  Present(m, b)
  <2>1. Present(m, b) \/ \E i \in C \cap (1 .. Len(entries)) : entries[i].key = TenantScopedKey(b)
    BY <1>6, <1>9
  <2>2. TenantScopedKey(b) # key
    BY <1>1, <1>9, KeysDistinct
  <2> QED
    BY <1>5, <2>1, <2>2
<1> QED
  BY <1>1, <1>2, <1>4, <1>6, <1>7, <1>8, <1>9

(* What is set or used at an address without an entry leaves the map good. *)
LEMMA GoodElsewhere ==
  ASSUME NEW m, NEW w, NEW u, NEW x, NEW v, NEW a \in Valid,
         GoodMap(m, w, u), ~Present(m, a),
         \A b \in Valid : b # a => x[b] = w[b],
         v = u \/ Moves(u, v, a)
  PROVE  GoodMap(m, x, v)
<1>1. \A b \in Valid : b \in Addresses
  BY DEF Valid
<1>2. \A i \in 1 .. Len(m) : \A b \in Valid : m[i].key = TenantScopedKey(b) => b # a
  BY DEF Present
<1>3. \A b \in Valid : b # a /\ InUse(u, b) => InUse(v, b)
  BY <1>1, Zenon DEF Moves
<1>4. \A b, c \in Valid : b # a /\ c # a /\ UsedBefore(u, b, c) => UsedBefore(v, b, c)
  BY <1>1, Zenon DEF Moves
<1>5. Faithful(m, x, v)
  BY <1>2, <1>3 DEF GoodMap, Faithful
<1>6. InOrderOfUse(m, v)
  BY <1>2, <1>4 DEF GoodMap, InOrderOfUse
<1> QED
  BY <1>5, <1>6 DEF GoodMap

(* An entry added at the end for the address just used leaves it good too. *)
LEMMA GoodWithAdded ==
  ASSUME NEW m, NEW w, NEW u, NEW a \in Valid, NEW e \in Entry,
         GoodMap(m, w, u), ~Present(m, a),
         e.key = TenantScopedKey(a), [value |-> e.value, expires |-> e.expires] = w[a],
         InUse(u, a), \A b \in Valid : b # a /\ InUse(u, b) => UsedBefore(u, b, a)
  PROVE  /\ GoodMap(Append(m, e), w, u)
         /\ Len(Append(m, e)) = Len(m) + 1
         /\ \A b \in Valid : Present(m, b) \/ b = a => Present(Append(m, e), b)
<1>1. PICK l, n : l = Append(m, e) /\ n = Len(m)
  OBVIOUS
<1>2. m \in Seq(Entry) /\ n \in Nat /\ Len(m) = n
  BY <1>1 DEF GoodMap
<1>3. /\ l \in Seq(Entry)
      /\ Len(l) = n + 1
      /\ \A i \in 1 .. n : l[i] = m[i]
      /\ l[n + 1] = e
  BY <1>1, <1>2, AppendProperties
<1>4. \A i \in 1 .. n : m[i].key # TenantScopedKey(a)
  BY <1>2 DEF Present
<1>5. \A i \in 1 .. n + 1 : i \in 1 .. n \/ i = n + 1
  BY <1>2
<1>6. OneEntryPerKey(l)
  <2> SUFFICES ASSUME NEW i \in 1 .. n + 1, NEW j \in 1 .. n + 1, l[i].key = l[j].key
               PROVE  i = j
    BY <1>3 DEF OneEntryPerKey
  <2>1. CASE i \in 1 .. n /\ j \in 1 .. n
    BY <1>2, <1>3, <2>1 DEF GoodMap, OneEntryPerKey
  <2>2. CASE i = n + 1 \/ j = n + 1
    BY <1>3, <1>4, <1>5, <2>2
  <2> QED
    BY <1>5, <2>1, <2>2
<1>7. Faithful(l, w, u)
  <2> SUFFICES ASSUME NEW i \in 1 .. n + 1, NEW b \in Valid, l[i].key = TenantScopedKey(b)
               PROVE  [value |-> l[i].value, expires |-> l[i].expires] = w[b] /\ InUse(u, b)
    BY <1>3 DEF Faithful
  <2>1. CASE i \in 1 .. n
    BY <1>2, <1>3, <2>1 DEF GoodMap, Faithful
  <2>2. CASE i = n + 1
    <3>1. b = a
      BY <1>3, <2>2, KeysDistinct
    <3> QED
      BY <1>3, <2>2, <3>1
  <2> QED
    BY <1>5, <2>1, <2>2
<1>8. InOrderOfUse(l, u)
  <2> SUFFICES ASSUME NEW i \in 1 .. n + 1, NEW j \in 1 .. n + 1, NEW b \in Valid, NEW c \in Valid,
                      i < j, l[i].key = TenantScopedKey(b), l[j].key = TenantScopedKey(c)
               PROVE  UsedBefore(u, b, c)
    BY <1>3 DEF InOrderOfUse
  <2>1. i \in 1 .. n
    BY <1>2
  <2>2. CASE j \in 1 .. n
    BY <1>2, <1>3, <2>1, <2>2 DEF GoodMap, InOrderOfUse
  <2>3. CASE j = n + 1
    <3>1. c = a
      BY <1>3, <2>3, KeysDistinct
    <3>2. b # a
      BY <1>3, <1>4, <2>1
    <3>3. InUse(u, b)
      BY <1>2, <1>3, <2>1 DEF GoodMap, Faithful
    <3> QED
      BY <3>1, <3>2, <3>3
  <2> QED
    BY <1>5, <2>2, <2>3
<1>9. ASSUME NEW b \in Valid, Present(m, b) \/ b = a
      PROVE  Present(l, b)
  <2>1. CASE Present(m, b)
    <3>1. PICK i \in 1 .. n : m[i].key = TenantScopedKey(b)
      BY <1>2, <2>1 DEF Present
    <3>2. i \in 1 .. n + 1 /\ l[i].key = TenantScopedKey(b)
      BY <1>2, <1>3, <3>1
    <3> QED
      BY <1>3, <3>2 DEF Present
  <2>2. CASE b = a
    <3>1. n + 1 \in 1 .. n + 1 /\ l[n + 1].key = TenantScopedKey(b)
      BY <1>2, <1>3, <2>2
    <3> QED
      BY <1>3, <3>1 DEF Present
  <2> QED
    BY <1>9, <2>1, <2>2
<1> QED
  BY <1>1, <1>3, <1>6, <1>7, <1>8, <1>9 DEF GoodMap

(* Only finitely many addresses have been used. *)
LEMMA FiniteUse ==
  ASSUME NEW u \in Seq(Addresses), NEW a
  PROVE  IsFiniteSet(UsedAfter(u, a)) /\ Cardinality(UsedAfter(u, a)) \in Nat
<1>1. PICK T : T = {u[i] : i \in 1 .. Len(u)}
  OBVIOUS
<1>2. u \in [1 .. Len(u) -> T] /\ \A t \in T : \E i \in 1 .. Len(u) : u[i] = t
  BY <1>1, LenProperties
<1>3. u \in Surjection(1 .. Len(u), T)
  BY <1>2 DEF Surjection
<1>4. IsFiniteSet(1 .. Len(u))
  BY FS_Interval
<1>5. IsFiniteSet(T)
  BY <1>3, <1>4, FS_Surjection
<1>6. UsedAfter(u, a) \in SUBSET T
  BY <1>1 DEF UsedAfter, UsedBefore
<1>7. IsFiniteSet(UsedAfter(u, a))
  BY <1>5, <1>6, FS_Subset
<1> QED
  BY <1>7, FS_CardinalityType

(* The owners of the entries behind the first were all used after its own. *)
LEMMA FirstIsLeastUsed ==
  ASSUME NEW m, NEW w, NEW u \in Seq(Addresses), GoodMap(m, w, u), Len(m) = MaxEntries + 1,
         NEW a \in Valid, m[1].key = TenantScopedKey(a)
  PROVE  Cardinality(UsedAfter(u, a)) >= MaxEntries
<1>1. MaxEntries \in Nat /\ MaxEntries # 0
  BY LimitAssumption
<1>2. m \in Seq(Entry)
  BY DEF GoodMap
<1>3. \A i \in 1 .. MaxEntries : i + 1 \in 1 .. Len(m) /\ 1 < i + 1 /\ 1 \in 1 .. Len(m)
  BY <1>1
<1>4. \A i \in 1 .. MaxEntries : \E b \in Valid : m[i + 1].key = TenantScopedKey(b)
  <2>1. \A i \in 1 .. MaxEntries : m[i + 1] \in Entry
    BY <1>2, <1>3
  <2>2. \A e \in Entry : \E b \in Valid : e.key = TenantScopedKey(b)
    BY DEF Entry
  <2> QED
    BY <2>1, <2>2
<1> DEFINE f == [i \in 1 .. MaxEntries |-> CHOOSE b \in Valid : m[i + 1].key = TenantScopedKey(b)]
<1>5. \A i \in 1 .. MaxEntries : f[i] \in Valid /\ m[i + 1].key = TenantScopedKey(f[i])
  BY <1>4
<1>6. DOMAIN f = 1 .. MaxEntries /\ f = [i \in 1 .. MaxEntries |-> f[i]]
  OBVIOUS
<1> HIDE DEF f
<1>7. \A i \in 1 .. MaxEntries : f[i] \in UsedAfter(u, a)
  <2> SUFFICES ASSUME NEW i \in 1 .. MaxEntries
               PROVE  f[i] \in Addresses /\ f[i] # a /\ UsedBefore(u, a, f[i])
    BY DEF UsedAfter
  <2>1. f[i] \in Addresses
    BY <1>5 DEF Valid
  <2>2. f[i] # a
    <3>1. m[i + 1].key # m[1].key
      <4>1. i + 1 # 1
        BY <1>1
      <4> QED
        BY <1>3, <4>1 DEF GoodMap, OneEntryPerKey
    <3> QED
      BY <1>5, <3>1
  <2>3. UsedBefore(u, a, f[i])
    BY <1>3, <1>5 DEF GoodMap, InOrderOfUse
  <2> QED
    BY <2>1, <2>2, <2>3
<1>8. ASSUME NEW i \in 1 .. MaxEntries, NEW j \in 1 .. MaxEntries, f[i] = f[j]
      PROVE  i = j
  <2>1. m[i + 1].key = m[j + 1].key
    BY <1>5, <1>8
  <2>2. i + 1 = j + 1
    BY <1>3, <2>1 DEF GoodMap, OneEntryPerKey
  <2> QED
    BY <1>1, <2>2
<1>9. f \in Injection(1 .. MaxEntries, UsedAfter(u, a))
  <2>1. f \in [1 .. MaxEntries -> UsedAfter(u, a)]
    BY <1>6, <1>7
  <2>2. IsInjective(f)
    BY <1>6, <1>8 DEF IsInjective
  <2> QED
    BY <2>1, <2>2 DEF Injection
<1>10. Cardinality(1 .. MaxEntries) <= Cardinality(UsedAfter(u, a))
  BY <1>9, FiniteUse, FS_Injection
<1>11. Cardinality(1 .. MaxEntries) = MaxEntries
  BY <1>1, FS_Interval
<1> QED
  BY <1>1, <1>10, <1>11, FiniteUse

(* Eviction leaves a good map; whose entry goes has been out of use for     *)
(* MaxEntries others.                                                       *)
LEMMA EvictIsGood ==
  ASSUME NEW m, NEW w, NEW u \in Seq(Addresses), GoodMap(m, w, u), Len(m) <= MaxEntries + 1
  PROVE  /\ GoodMap(Evict(m), w, u)
         /\ Len(Evict(m)) <= MaxEntries
         /\ \A a \in Valid : Present(m, a) =>
              Present(Evict(m), a) \/ Cardinality(UsedAfter(u, a)) >= MaxEntries
<1>1. MaxEntries \in Nat /\ MaxEntries # 0
  BY LimitAssumption
<1>2. PICK n : n = Len(m)
  OBVIOUS
<1>3. m \in Seq(Entry) /\ n \in Nat /\ Len(m) = n /\ \A i \in 1 .. n : m[i] \in Entry
  BY <1>2 DEF GoodMap
<1>4. CASE n <= MaxEntries
  <2>1. Evict(m) = SubSeq(m, 1, Len(m))
    BY <1>1, <1>3, <1>4 DEF Evict
  <2>2. Evict(m) = m
    BY <1>3, <2>1, SubSeqFull
  <2> QED
    BY <1>2, <1>4, <2>2
<1>5. CASE n = MaxEntries + 1
  <2>1. PICK l : l = SubSeq(m, 2, n)
    OBVIOUS
  <2>2. Evict(m) = l
    <3>1. Len(m) > MaxEntries /\ Len(m) - MaxEntries + 1 = 2
      BY <1>1, <1>3, <1>5
    <3> QED
      BY <1>3, <2>1, <3>1 DEF Evict
  <2>3. /\ SubSeq(m, 2, n) \in Seq(Entry)
        /\ Len(SubSeq(m, 2, n)) = IF 2 <= n THEN n - 2 + 1 ELSE 0
        /\ \A i \in 1 .. n - 2 + 1 : SubSeq(m, 2, n)[i] = m[2 + i - 1]
    <3>1. \A i \in 2 .. n : m[i] \in Entry
      BY <1>3
    <3> QED
      BY <1>3, <3>1, SubSeqProperties
  <2>4. l \in Seq(Entry) /\ Len(l) = MaxEntries /\ \A i \in 1 .. MaxEntries : l[i] = m[i + 1]
    BY <1>1, <1>5, <2>1, <2>3
  <2>5. Drops(l, m, {1})
    <3> DEFINE p == [i \in 1 .. MaxEntries |-> i + 1]
    <3>1. p \in [1 .. MaxEntries -> (1 .. n) \ {1}]
      BY <1>1, <1>5
    <3>2. \A i \in 1 .. MaxEntries : l[i] = m[p[i]]
      BY <2>4
    <3>3. \A i, j \in 1 .. MaxEntries : i < j => p[i] < p[j]
      BY <1>1
    <3>4. ASSUME NEW k \in (1 .. n) \ {1}
          PROVE  \E i \in 1 .. MaxEntries : p[i] = k
      <4>1. k - 1 \in 1 .. MaxEntries /\ p[k - 1] = k
        BY <1>1, <1>5
      <4> QED
        BY <4>1
    <3> HIDE DEF p
    <3>5. p \in [1 .. Len(l) -> (1 .. Len(m)) \ {1}]
      BY <1>3, <2>4, <3>1
    <3>6. \A i \in 1 .. Len(l) : l[i] = m[p[i]]
      BY <2>4, <3>2
    <3>7. \A i, j \in 1 .. Len(l) : i < j => p[i] < p[j]
      BY <2>4, <3>3
    <3>8. \A k \in (1 .. Len(m)) \ {1} : \E i \in 1 .. Len(l) : p[i] = k
      BY <1>3, <2>4, <3>4
    <3> QED
      BY <3>5, <3>6, <3>7, <3>8, Zenon DEF Drops
  <2>6. /\ GoodMap(l, w, u)
        /\ \A a \in Valid : Present(m, a) =>
             Present(l, a) \/ \E i \in {1} \cap (1 .. Len(m)) : m[i].key = TenantScopedKey(a)
    BY <2>4, <2>5, DroppedIsGood
  <2>7. \A a \in Valid : m[1].key = TenantScopedKey(a) => Cardinality(UsedAfter(u, a)) >= MaxEntries
    BY <1>3, <1>5, FirstIsLeastUsed
  <2>8. Len(l) <= MaxEntries
    BY <1>1, <2>4
  <2> QED
    BY <2>2, <2>6, <2>7, <2>8
<1> QED
  BY <1>1, <1>3, <1>4, <1>5

(* An excuse is never taken back: use of others and time only add to it. *)
LEMMA StillExcused ==
  ASSUME NEW w, NEW u, NEW x, NEW v \in Seq(Addresses), NEW t \in Nat, NEW s \in Nat,
         NEW a \in Addresses, NEW b \in Valid, u \in Seq(Addresses),
         Excused(w, u, t, b), w \in [Addresses -> Reference], x[b] = w[b], t <= s,
         v = u \/ (Moves(u, v, a) /\ b # a)
  PROVE  Excused(x, v, s, b)
<1>1. w[b] \in Reference
  BY DEF Valid
<1>2. CASE w[b] = Nothing
  BY <1>2 DEF Excused
<1>3. CASE Lapsed(w[b], t)
  <2>1. w[b].expires \in Nat
    BY <1>1, <1>3 DEF Reference, Lapsed
  <2>2. Lapsed(w[b], s)
    BY <1>3, <2>1 DEF Lapsed
  <2> QED
    BY <2>2 DEF Excused
<1>4. CASE Cardinality(UsedAfter(u, b)) >= MaxEntries
  <2>1. UsedAfter(u, b) \in SUBSET UsedAfter(v, b)
    <3>1. CASE v = u
      BY <3>1
    <3>2. CASE Moves(u, v, a) /\ b # a
      <4> SUFFICES ASSUME NEW c \in Addresses, c # b, UsedBefore(u, b, c)
                   PROVE  UsedBefore(v, b, c)
        BY DEF UsedAfter
      <4>1. InUse(u, b) /\ b \in Addresses
        BY DEF UsedBefore, InUse, Valid
      <4>2. CASE c = a
        BY <3>2, <4>1, <4>2 DEF Moves
      <4>3. CASE c # a
        BY <3>2, <4>1, <4>3 DEF Moves
      <4> QED
        BY <4>2, <4>3
    <3> QED
      BY <3>1, <3>2
  <2>2. Cardinality(UsedAfter(u, b)) <= Cardinality(UsedAfter(v, b))
    BY <2>1, FiniteUse, FS_Subset
  <2>3. Cardinality(UsedAfter(v, b)) >= MaxEntries
    BY <1>4, <2>2, FiniteUse, LimitAssumption
  <2> QED
    BY <2>3 DEF Excused
<1> QED
  BY <1>2, <1>3, <1>4 DEF Excused

-----------------------------------------------------------------------------
(* The operations *)

LEMMA CacheInitially ==
  CacheInit => CacheInv
<1> SUFFICES ASSUME CacheInit PROVE CacheInv
  OBVIOUS
<1> USE DEF CacheInit
<1>1. now \in Nat
  OBVIOUS
<1>2. written \in [Addresses -> Reference]
  BY DEF Reference, Nothing
<1>3. used \in Seq(Addresses) /\ entries \in Seq(Entry) /\ Len(used) = 0 /\ Len(entries) = 0
  BY EmptySeq
<1>4. Distinct(used)
  BY <1>3 DEF Distinct
<1>5. GoodMap(entries, written, used)
  BY <1>3 DEF GoodMap, OneEntryPerKey, Faithful, InOrderOfUse
<1>6. Len(entries) <= MaxEntries
  BY <1>3, LimitAssumption
<1>7. OnlyEvicted(entries, written, used, now)
  BY DEF OnlyEvicted, Excused, Valid
<1> QED
  BY <1>1, <1>2, <1>3, <1>4, <1>5, <1>6, <1>7 DEF CacheInv

(* What every operation at an address does to the others. *)
LEMMA OthersStay ==
  ASSUME CacheInv, NEW a \in Valid, NEW b \in Valid, b # a, now' = now,
         written'[b] = written[b], used' \in Seq(Addresses),
         used' = used \/ Moves(used, used', a)
  PROVE  Present(Without(TenantScopedKey(a)), b) \/ Excused(written', used', now', b)
<1>1. now \in Nat /\ used \in Seq(Addresses) /\ written \in [Addresses -> Reference] /\ now <= now'
  BY DEF CacheInv
<1>2. a \in Addresses
  BY DEF Valid
<1>3. CASE Present(entries, b)
  BY <1>3, WithoutIsGood DEF CacheInv
<1>4. CASE Excused(written, used, now, b)
  <2>1. Excused(written', used', now', b)
    BY <1>1, <1>2, <1>4, StillExcused
  <2> QED
    BY <2>1
<1> QED
  BY <1>3, <1>4 DEF CacheInv, OnlyEvicted

(* The entry of an address goes, for a good reason. *)
LEMMA RemovedStep ==
  ASSUME CacheInv, NEW a \in Valid, now' = now, used' = used,
         entries' = Without(TenantScopedKey(a)),
         written' \in [Addresses -> Reference],
         \A b \in Valid : b # a => written'[b] = written[b],
         Excused(written', used', now', a)
  PROVE  CacheInv'
<1>1. GoodMap(entries, written, used) /\ Len(entries) <= MaxEntries /\ used \in Seq(Addresses)
      /\ Distinct(used) /\ now \in Nat
  BY DEF CacheInv
<1>2. /\ GoodMap(entries', written, used)
      /\ ~Present(entries', a)
      /\ Len(entries') <= Len(entries)
  BY <1>1, WithoutIsGood
<1>3. GoodMap(entries', written', used')
  BY <1>2, GoodElsewhere
<1>4. Len(entries') <= MaxEntries
  <2>1. Len(entries) \in Nat /\ Len(entries') \in Nat
    BY <1>1, <1>2 DEF GoodMap
  <2> QED
    BY <1>1, <1>2, <2>1, LimitAssumption
<1>5. \A b \in Valid : Present(entries', b) \/ Excused(written', used', now', b)
  BY <1>1, OthersStay
<1> QED
  BY <1>1, <1>3, <1>4, <1>5 DEF CacheInv, OnlyEvicted, GoodMap, OneEntryPerKey, Faithful,
     InOrderOfUse, Distinct

(* An entry is put at the end of the map for an address, which is used. *)
LEMMA AddedStep ==
  ASSUME CacheInv, NEW a \in Valid, now' = now, Use(a), NEW e \in Entry,
         written' \in [Addresses -> Reference],
         \A b \in Valid : b # a => written'[b] = written[b],
         e.key = TenantScopedKey(a), [value |-> e.value, expires |-> e.expires] = written'[a],
         entries' = Evict(Append(Without(TenantScopedKey(a)), e))
  PROVE  CacheInv'
<1>1. GoodMap(entries, written, used) /\ Len(entries) <= MaxEntries /\ used \in Seq(Addresses)
      /\ Distinct(used) /\ now \in Nat /\ a \in Addresses
  BY DEF CacheInv, Valid
<1>2. used' \in Seq(Addresses) /\ Distinct(used') /\ Moves(used, used', a)
  BY <1>1, UseMoves
<1>3. PICK m : m = Without(TenantScopedKey(a))
  OBVIOUS
<1>4. GoodMap(m, written, used) /\ ~Present(m, a) /\ Len(m) <= Len(entries)
  BY <1>1, <1>3, WithoutIsGood
<1>5. GoodMap(m, written', used')
  BY <1>2, <1>4, GoodElsewhere
<1>6. InUse(used', a) /\ \A b \in Valid : b # a /\ InUse(used', b) => UsedBefore(used', b, a)
  BY <1>2 DEF Moves, Valid
<1>7. PICK l : l = Append(m, e)
  OBVIOUS
<1>8. /\ GoodMap(l, written', used')
      /\ Len(l) = Len(m) + 1
      /\ \A b \in Valid : Present(m, b) \/ b = a => Present(l, b)
  BY <1>4, <1>5, <1>6, <1>7, GoodWithAdded
<1>9. Len(l) <= MaxEntries + 1
  <2>1. Len(entries) \in Nat /\ Len(m) \in Nat
    BY <1>1, <1>4 DEF GoodMap
  <2> QED
    BY <1>1, <1>4, <1>8, <2>1, LimitAssumption
<1>10. entries' = Evict(l)
  BY <1>3, <1>7
<1>11. /\ GoodMap(entries', written', used')
       /\ Len(entries') <= MaxEntries
       /\ \A b \in Valid : Present(l, b) =>
            Present(entries', b) \/ Cardinality(UsedAfter(used', b)) >= MaxEntries
  BY <1>2, <1>8, <1>9, <1>10, EvictIsGood
<1>12. ASSUME NEW b \in Valid
       PROVE  Present(entries', b) \/ Excused(written', used', now', b)
  <2>1. b = a \/ Present(m, b) \/ Excused(written', used', now', b)
    BY <1>1, <1>2, <1>3, OthersStay
  <2> QED
    BY <1>8, <1>11, <2>1 DEF Excused
<1> QED
  BY <1>1, <1>2, <1>11, <1>12 DEF CacheInv, OnlyEvicted

(* What get does not find is excused already. *)
LEMMA MissIsExcused ==
  ASSUME CacheInv, NEW a \in Valid, Hits(TenantScopedKey(a)) = {}
  PROVE  Excused(written, used, now, a)
<1>1. CASE Present(entries, a)
  <2>1. DOMAIN entries = 1 .. Len(entries)
    BY DEF CacheInv, GoodMap
  <2>2. PICK i \in 1 .. Len(entries) : entries[i].key = TenantScopedKey(a)
    BY <1>1 DEF Present
  <2>3. IsExpired(entries[i])
    BY <2>1, <2>2 DEF Hits, IndicesOf
  <2>4. [value |-> entries[i].value, expires |-> entries[i].expires] = written[a]
    BY <2>2 DEF CacheInv, GoodMap, Faithful
  <2>5. written[a].expires = entries[i].expires
    BY <2>4
  <2> QED
    BY <2>3, <2>5 DEF Excused, Lapsed, IsExpired
<1> QED
  BY <1>1 DEF CacheInv, OnlyEvicted

LEMMA GetStep ==
  ASSUME CacheInv, NEW a \in Addresses, Get(a)
  PROVE  CacheInv'
<1>1. a \in Valid
  BY DEF Get, Valid
<1>2. PICK key : key = TenantScopedKey(a)
  OBVIOUS
<1>3. now' = now /\ written' = written /\ written' \in [Addresses -> Reference]
  BY DEF Get, CacheInv
<1>4. GoodMap(entries, written, used) /\ DOMAIN entries = 1 .. Len(entries)
  BY DEF CacheInv, GoodMap
<1>5. IndicesOf(key) = {i \in 1 .. Len(entries) : entries[i].key = key}
  BY <1>4 DEF IndicesOf
<1>6. CASE Hits(key) = {} /\ entries' = Without(key) /\ UNCHANGED used
  <2>1. Excused(written, used, now, a)
    BY <1>1, <1>2, <1>6, MissIsExcused
  <2> QED
    BY <1>1, <1>2, <1>3, <1>6, <2>1, RemovedStep
<1>7. ASSUME NEW hit \in Hits(key), entries' = Append(Without(key), hit), Use(a)
      PROVE  CacheInv'
  <2>1. PICK i \in 1 .. Len(entries) : hit = entries[i] /\ entries[i].key = key
    BY <1>5 DEF Hits
  <2>2. hit \in Entry /\ hit.key = TenantScopedKey(a)
    BY <1>2, <1>4, <2>1 DEF GoodMap
  <2>3. [value |-> hit.value, expires |-> hit.expires] = written'[a]
    BY <1>1, <1>2, <1>3, <1>4, <2>1 DEF GoodMap, Faithful
  <2>4. Present(entries, a)
    BY <1>2, <2>1 DEF Present
  <2>5. PICK m : m = Without(key)
    OBVIOUS
  <2>6. m \in Seq(Entry) /\ Len(m) = Len(entries) - 1
    BY <1>1, <1>2, <1>4, <2>4, <2>5, WithoutIsGood DEF GoodMap
  <2>7. /\ entries' \in Seq(Entry)
        /\ Len(entries') = Len(m) + 1
    BY <1>7, <2>2, <2>5, <2>6, AppendProperties
  <2>8. Evict(entries') = entries'
    <3>1. Len(entries') <= MaxEntries /\ Len(entries') \in Nat
      <4>1. Len(entries) \in Nat /\ Len(entries) <= MaxEntries
        BY <1>4 DEF CacheInv, GoodMap
      <4> QED
        BY <2>6, <2>7, <4>1
    <3>2. ~(Len(entries') > MaxEntries)
      BY <3>1, LimitAssumption
    <3>3. Evict(entries') = SubSeq(entries', 1, Len(entries'))
      BY <3>2 DEF Evict
    <3> QED
      BY <2>7, <3>3, SubSeqFull
  <2>9. entries' = Evict(Append(Without(TenantScopedKey(a)), hit))
    BY <1>2, <1>7, <2>8
  <2> QED
    BY <1>1, <1>3, <1>7, <2>2, <2>3, <2>9, AddedStep
<1> QED
  BY <1>2, <1>6, <1>7 DEF Get

(* What is forgotten at an address needs no entry. *)
LEMMA ForgottenStep ==
  ASSUME CacheInv, NEW a \in Valid, UNCHANGED <<now, used>>,
         entries' = Without(TenantScopedKey(a)), written' = [written EXCEPT ![a] = Nothing]
  PROVE  CacheInv'
<1>1. written \in [Addresses -> Reference] /\ a \in Addresses /\ \A b \in Valid : b \in Addresses
  BY DEF CacheInv, Valid
<1>2. Nothing \in Reference
  BY DEF Nothing, Reference
<1>3. /\ written' \in [Addresses -> Reference]
      /\ written'[a] = Nothing
      /\ \A b \in Valid : b # a => written'[b] = written[b]
  BY <1>1, <1>2
<1>4. Excused(written', used', now', a)
  BY <1>3 DEF Excused
<1> QED
  BY <1>3, <1>4, RemovedStep

LEMMA SetStep ==
  ASSUME CacheInv, NEW a \in Addresses, NEW value \in CacheValues \cup {Uncloneable},
         NEW ttlSeconds \in Ttls \cup {NoTtl}, Set(a, value, ttlSeconds)
  PROVE  CacheInv'
<1>1. a \in Valid
  BY DEF Set, Valid
<1>2. PICK ttl : ttl = IF ttlSeconds = NoTtl THEN DefaultTtl ELSE ttlSeconds
  OBVIOUS
<1>3. PICK at : at = ExpiresAt(ttl)
  OBVIOUS
<1>4. at \in Nat \cup {NoTtl}
  <2>1. ttl \in Nat \cup {NoTtl} /\ now \in Nat
    BY <1>2, TtlAssumption DEF CacheInv
  <2> QED
    BY <1>3, <2>1 DEF ExpiresAt
<1>5. CASE value = Uncloneable
  <2>1. /\ entries' = Without(TenantScopedKey(a))
        /\ written' = [written EXCEPT ![a] = Nothing]
        /\ UNCHANGED <<now, used>>
    BY <1>5 DEF Set
  <2> QED
    BY <1>1, <2>1, ForgottenStep
<1>6. CASE value # Uncloneable
  <2>1. PICK e, r : /\ e = [key |-> TenantScopedKey(a), value |-> value, expires |-> at]
                    /\ r = [value |-> value, expires |-> at]
    OBVIOUS
  <2>2. /\ entries' = Evict(Append(Without(TenantScopedKey(a)), e))
        /\ written' = [written EXCEPT ![a] = r]
        /\ Use(a)
        /\ now' = now
    BY <1>2, <1>3, <1>6, <2>1 DEF Set
  <2>3. e \in Entry /\ e.key = TenantScopedKey(a) /\ [value |-> e.value, expires |-> e.expires] = r
    BY <1>1, <1>4, <1>6, <2>1 DEF Entry
  <2>4. r \in Reference
    BY <1>4, <2>1 DEF Reference
  <2>5. written \in [Addresses -> Reference] /\ \A b \in Valid : b \in Addresses
    BY DEF CacheInv, Valid
  <2>6. /\ written' \in [Addresses -> Reference]
        /\ written'[a] = r
        /\ \A b \in Valid : b # a => written'[b] = written[b]
    BY <2>2, <2>4, <2>5
  <2> QED
    BY <1>1, <2>2, <2>3, <2>6, AddedStep
<1> QED
  BY <1>5, <1>6

LEMMA DeleteStep ==
  ASSUME CacheInv, NEW a \in Addresses, Delete(a)
  PROVE  CacheInv'
<1>1. a \in Valid
  BY DEF Delete, Valid
<1> QED
  BY <1>1, ForgottenStep DEF Delete

LEMMA TickStep ==
  ASSUME CacheInv, Tick
  PROVE  CacheInv'
<1>1. now' \in Nat /\ now <= now' /\ entries' = entries /\ written' = written /\ used' = used
  BY DEF CacheInv, Tick
<1>2. \A b \in Valid : Present(entries', b) \/ Excused(written', used', now', b)
  <2> SUFFICES ASSUME NEW b \in Valid, Excused(written, used, now, b)
               PROVE  Excused(written', used', now', b)
    BY <1>1 DEF CacheInv, OnlyEvicted
  <2>1. b \in Addresses /\ now \in Nat /\ used \in Seq(Addresses)
        /\ written \in [Addresses -> Reference]
    BY DEF CacheInv, Valid
  <2> QED
    BY <1>1, <2>1, StillExcused
<1> QED
  BY <1>1, <1>2 DEF CacheInv, OnlyEvicted

LEMMA CacheInvStep ==
  CacheInv /\ [CacheNext]_cacheVars => CacheInv'
<1> SUFFICES ASSUME CacheInv, [CacheNext]_cacheVars
             PROVE  CacheInv'
  OBVIOUS
<1>1. CASE \E a \in Addresses : Get(a)
  BY <1>1, GetStep
<1>2. CASE \E a \in Addresses, value \in CacheValues \cup {Uncloneable}, ttl \in Ttls \cup {NoTtl} :
             Set(a, value, ttl)
  BY <1>2, SetStep
<1>3. CASE \E a \in Addresses : Delete(a)
  BY <1>3, DeleteStep
<1>4. CASE Tick
  BY <1>4, TickStep
<1>5. CASE UNCHANGED cacheVars
  BY <1>5 DEF CacheInv, cacheVars
<1> QED
  BY <1>1, <1>2, <1>3, <1>4, <1>5 DEF CacheNext

LEMMA CacheInvTells ==
  CacheInv => CacheTellsTheTruth
<1> SUFFICES ASSUME CacheInv, NEW a \in Valid
             PROVE  LET hits == Hits(TenantScopedKey(a))
                    IN  /\ \A hit \in hits :
                             [value |-> hit.value, expires |-> hit.expires] = written[a]
                        /\ hits = {} =>
                             \/ written[a] = Nothing
                             \/ IsExpired(written[a])
                             \/ Cardinality(UsedSince(a)) >= MaxEntries
  BY DEF CacheInv, CacheTellsTheTruth, Valid
<1>1. DOMAIN entries = 1 .. Len(entries) /\ DOMAIN used = 1 .. Len(used)
  BY DEF CacheInv, GoodMap
<1>2. PICK key : key = TenantScopedKey(a)
  OBVIOUS
<1>3. \A hit \in Hits(key) : \E i \in 1 .. Len(entries) : hit = entries[i] /\ entries[i].key = key
  BY <1>1 DEF Hits, IndicesOf
<1>4. \A hit \in Hits(key) : [value |-> hit.value, expires |-> hit.expires] = written[a]
  BY <1>2, <1>3 DEF CacheInv, GoodMap, Faithful
<1>5. UsedSince(a) = UsedAfter(used, a)
  BY <1>1, Zenon DEF UsedSince, UsedAfter, UsedBefore
<1>6. Hits(key) = {} => Excused(written, used, now, a)
  BY <1>2, MissIsExcused
<1>7. Excused(written, used, now, a) =>
        \/ written[a] = Nothing
        \/ IsExpired(written[a])
        \/ Cardinality(UsedSince(a)) >= MaxEntries
  BY <1>5 DEF Excused, Lapsed, IsExpired
<1> QED
  BY <1>2, <1>4, <1>6, <1>7

(* InMemoryKeyValueStore and TenantScopedCache, for every set of addresses, *)
(* any capacity and times to live: a hit is what was last set at that very  *)
(* address, within its time; a live value is missed only after MaxEntries   *)
(* other addresses were used.                                               *)
THEOREM CacheIsTruthful ==
  CacheSpec => []CacheTellsTheTruth
<1>1. CacheSpec => []CacheInv
  BY CacheInitially, CacheInvStep, PTL DEF CacheSpec
<1> QED
  BY <1>1, CacheInvTells, PTL

-----------------------------------------------------------------------------
(* Money. Products of unknown numbers: what the provers need to know of     *)
(* them, each stated once.                                                  *)

LEMMA MagnitudeFacts ==
  ASSUME NEW n \in Int
  PROVE  /\ Magnitude(n) \in Nat
         /\ n >= 0 => Magnitude(n) = n
         /\ n <= 0 => Magnitude(n) = -n
         /\ Magnitude(-n) = Magnitude(n)
  BY DEF Magnitude

LEMMA DivMod ==
  ASSUME NEW n \in Nat, NEW d \in Nat \ {0}
  PROVE  /\ n \div d \in Nat
         /\ n % d \in 0 .. d - 1
         /\ n = ((n \div d) * d) + (n % d)
  OBVIOUS

LEMMA Distribute ==
  ASSUME NEW a \in Int, NEW b \in Int, NEW c \in Int
  PROVE  (a + b) * c = a * c + b * c /\ (a - b) * c = a * c - b * c
  OBVIOUS

LEMMA Orders ==
  ASSUME NEW a \in Int, NEW b \in Int, NEW f \in Int, f > 0
  PROVE  (a < b <=> a * f < b * f) /\ (a <= b <=> a * f <= b * f) /\ (a = b <=> a * f = b * f)
  OBVIOUS

LEMMA Signs ==
  ASSUME NEW a \in Int, NEW b \in Int
  PROVE  (-a) * b = -(a * b) /\ a * (-b) = -(a * b) /\ (-a) * (-b) = a * b
  OBVIOUS

LEMMA Commutes ==
  ASSUME NEW a \in Int, NEW b \in Int, NEW c \in Int
  PROVE  a * b = b * a /\ (a * b) * c = a * (b * c) /\ a * b \in Int
  OBVIOUS
LEMMA MagnitudeTimes ==
  ASSUME NEW a \in Int, NEW b \in Int
  PROVE  Magnitude(a * b) = Magnitude(a) * Magnitude(b)
  BY Signs DEF Magnitude

(* Whether the magnitude of a quotient is rounded away from zero. *)
Away(n, d, mode) ==
  LET twice == 2 * (n % d)
  IN  /\ twice # 0
      /\ \/ mode = "UP"
         \/ mode = "HALF_UP" /\ twice >= d
         \/ mode = "HALF_EVEN" /\ (twice > d \/ (twice = d /\ (n \div d) % 2 = 1))

(* roundedQuotient works on magnitudes and puts the sign back. *)
LEMMA QuotientOfNaturals ==
  ASSUME NEW n \in Nat, NEW d \in Nat \ {0}, NEW mode \in Modes
  PROVE  /\ RoundedQuotient(n, d, mode) = IF Away(n, d, mode) THEN (n \div d) + 1 ELSE n \div d
         /\ RoundedQuotient(n, d, mode) \in Nat
<1>1. Magnitude(n) = n /\ Magnitude(d) = d
  BY DEF Magnitude
<1>2. ~((n < 0) # (d < 0))
  OBVIOUS
<1>3. RoundedQuotient(n, d, mode) = IF Away(n, d, mode) THEN (n \div d) + 1 ELSE n \div d
  <2> HIDE DEF Modes
  <2> QED BY <1>1, <1>2 DEF RoundedQuotient, Away
<1> QED
  BY <1>3, DivMod

LEMMA QuotientSigns ==
  ASSUME NEW n \in Int, NEW d \in Int \ {0}, NEW mode \in Modes
  PROVE  RoundedQuotient(n, d, mode) =
           IF (n < 0) # (d < 0) THEN -RoundedQuotient(Magnitude(n), Magnitude(d), mode)
           ELSE RoundedQuotient(Magnitude(n), Magnitude(d), mode)
  BY DEF RoundedQuotient, Magnitude

LEMMA Parity ==
  ASSUME NEW n \in Int
  PROVE  (-n) % 2 = n % 2 /\ n % 2 \in {0, 1} /\ (n % 2 = 0 <=> (n + 1) % 2 = 1)
  OBVIOUS

(* What each mode allows. *)
LEMMA RoundedByMode ==
  ASSUME NEW r, NEW n, NEW d
  PROVE  /\ IsRounded(r, n, d, "DOWN") <=>
              /\ Magnitude(r * d - n) < Magnitude(d)
              /\ Magnitude(r) * Magnitude(d) <= Magnitude(n)
         /\ IsRounded(r, n, d, "UP") <=>
              /\ Magnitude(r * d - n) < Magnitude(d)
              /\ Magnitude(r) * Magnitude(d) >= Magnitude(n)
         /\ IsRounded(r, n, d, "HALF_UP") <=>
              /\ 2 * Magnitude(r * d - n) <= Magnitude(d)
              /\ 2 * Magnitude(r * d - n) = Magnitude(d) => Magnitude(r) * Magnitude(d) >= Magnitude(n)
         /\ IsRounded(r, n, d, "HALF_EVEN") <=>
              /\ 2 * Magnitude(r * d - n) <= Magnitude(d)
              /\ 2 * Magnitude(r * d - n) = Magnitude(d) => r % 2 = 0
<1>1. IsRounded(r, n, d, "DOWN") <=>
              /\ Magnitude(r * d - n) < Magnitude(d)
              /\ Magnitude(r) * Magnitude(d) <= Magnitude(n)
  BY Zenon DEF IsRounded
<1>2. IsRounded(r, n, d, "UP") <=>
              /\ Magnitude(r * d - n) < Magnitude(d)
              /\ Magnitude(r) * Magnitude(d) >= Magnitude(n)
  BY Zenon DEF IsRounded
<1>3. IsRounded(r, n, d, "HALF_UP") <=>
              /\ 2 * Magnitude(r * d - n) <= Magnitude(d)
              /\ 2 * Magnitude(r * d - n) = Magnitude(d) => Magnitude(r) * Magnitude(d) >= Magnitude(n)
  BY Zenon DEF IsRounded
<1>4. IsRounded(r, n, d, "HALF_EVEN") <=>
              /\ 2 * Magnitude(r * d - n) <= Magnitude(d)
              /\ 2 * Magnitude(r * d - n) = Magnitude(d) => r % 2 = 0
  BY Zenon DEF IsRounded
<1> QED BY <1>1, <1>2, <1>3, <1>4

(* On naturals, the one value the mode allows is what roundedQuotient gives. *)
LEMMA RoundedNaturals ==
  ASSUME NEW n \in Nat, NEW d \in Nat \ {0}, NEW mode \in Modes, NEW r \in Int
  PROVE  IsRounded(r, n, d, mode) <=> r = RoundedQuotient(n, d, mode)
<1>1. PICK q \in Nat, m \in 0 .. d - 1 : q = n \div d /\ m = n % d /\ n = (q * d) + m
  BY DivMod
<1>2. PICK k \in Int : r = q + k
  <2>1. r = q + (r - q) /\ r - q \in Int
    OBVIOUS
  <2> QED BY <2>1
<1>3. PICK x \in Nat : x = q * d
  <2>1. q * d \in Nat
    OBVIOUS
  <2> QED BY <2>1
<1>4. PICK y \in Int : y = k * d
  BY Commutes
<1>5. r * d = x + y /\ n = x + m
  BY <1>1, <1>2, <1>3, <1>4, Distribute
<1>6. /\ k = 0 => y = 0
      /\ k = 1 => y = d
      /\ k <= -1 => y <= -d
      /\ k >= 2 => y >= 2 * d
  BY <1>4
<1>7. PICK e \in Nat : e = Magnitude(r * d - n) /\ e = IF y >= m THEN y - m ELSE m - y
  <2>1. r * d - n = y - m
    BY <1>5
  <2> QED BY <2>1 DEF Magnitude
<1>8. Magnitude(d) = d /\ Magnitude(n) = n
  BY DEF Magnitude
<1>9. RoundedQuotient(n, d, mode) = IF Away(n, d, mode) THEN q + 1 ELSE q
  BY <1>1, QuotientOfNaturals
<1>10. Away(n, d, mode) <=>
         /\ 2 * m # 0
         /\ \/ mode = "UP"
            \/ mode = "HALF_UP" /\ 2 * m >= d
            \/ mode = "HALF_EVEN" /\ (2 * m > d \/ (2 * m = d /\ q % 2 = 1))
  BY <1>1, Zenon DEF Away
<1>11. mode \in {"DOWN", "UP", "HALF_UP", "HALF_EVEN"}
  BY DEF Modes
<1>12. CASE k \notin {0, 1}
  <2>1. e >= d
    BY <1>4, <1>6, <1>7, <1>12
  <2>2. ~IsRounded(r, n, d, mode)
    BY <1>7, <1>8, <1>11, <2>1, RoundedByMode
  <2>3. r # RoundedQuotient(n, d, mode)
    BY <1>2, <1>9, <1>12
  <2> QED
    BY <2>2, <2>3
<1>13. CASE k \in {0, 1}
  <2>1. r \in Nat /\ Magnitude(r) = r
    BY <1>2, <1>13 DEF Magnitude
  <2>2. e = IF k = 0 THEN m ELSE d - m
    BY <1>6, <1>7, <1>13
  <2>3. Magnitude(r) * Magnitude(d) = IF k = 0 THEN x ELSE x + d
    BY <1>5, <1>6, <1>8, <1>13, <2>1
  <2>4. r % 2 = 0 <=> IF k = 0 THEN q % 2 # 1 ELSE q % 2 = 1
    BY <1>2, <1>13, Parity
  <2>5. r = RoundedQuotient(n, d, mode) <=> (k = 1 <=> Away(n, d, mode))
    BY <1>2, <1>9, <1>13
  <2>6. CASE mode = "DOWN"
    BY <1>5, <1>7, <1>8, <1>10, <1>13, <2>2, <2>3, <2>5, <2>6, RoundedByMode
  <2>7. CASE mode = "UP"
    BY <1>5, <1>7, <1>8, <1>10, <1>13, <2>2, <2>3, <2>5, <2>7, RoundedByMode
  <2>8. CASE mode = "HALF_UP"
    BY <1>5, <1>7, <1>8, <1>10, <1>13, <2>2, <2>3, <2>5, <2>8, RoundedByMode
  <2>9. CASE mode = "HALF_EVEN"
    <3>1. IsRounded(r, n, d, mode) <=> 2 * e <= d /\ (2 * e = d => r % 2 = 0)
      BY <1>7, <1>8, <2>9, RoundedByMode
    <3>2. Away(n, d, mode) <=> 2 * m > d \/ (2 * m = d /\ q % 2 = 1)
      BY <1>10, <2>9
    <3> QED BY <1>13, <2>2, <2>4, <2>5, <3>1, <3>2
  <2> QED
    BY <1>11, <2>6, <2>7, <2>8, <2>9
<1> QED
  BY <1>12, <1>13
(* The sizes in which n / d and r are compared decide, not their signs. *)
LEMMA RoundedBySize ==
  ASSUME NEW mode \in Modes,
         NEW r \in Int, NEW n \in Int, NEW d \in Int,
         NEW r1 \in Int, NEW n1 \in Int, NEW d1 \in Int,
         Magnitude(r1) = Magnitude(r), Magnitude(n1) = Magnitude(n), Magnitude(d1) = Magnitude(d),
         Magnitude(r1 * d1 - n1) = Magnitude(r * d - n)
  PROVE  IsRounded(r1, n1, d1, mode) <=> IsRounded(r, n, d, mode)
<1>1. mode \in {"DOWN", "UP", "HALF_UP", "HALF_EVEN"}
  BY DEF Modes
<1>2. r1 % 2 = r % 2
  BY Parity DEF Magnitude
<1> QED BY <1>1, <1>2, RoundedByMode

(* roundedQuotient gives the value the mode allows, and no other is         *)
(* allowed.                                                                 *)
LEMMA RoundedOnce ==
  ASSUME NEW n \in Int, NEW d \in Int \ {0}, NEW mode \in Modes, NEW r \in Int
  PROVE  IsRounded(r, n, d, mode) <=> r = RoundedQuotient(n, d, mode)
<1>1. PICK s \in Int : s = IF (n < 0) # (d < 0) THEN -r ELSE r
  OBVIOUS
<1>2. Magnitude(n) \in Nat /\ Magnitude(d) \in Nat \ {0}
  BY DEF Magnitude
<1>3. /\ Magnitude(s) = Magnitude(r)
      /\ Magnitude(Magnitude(n)) = Magnitude(n)
      /\ Magnitude(Magnitude(d)) = Magnitude(d)
  BY <1>1, <1>2 DEF Magnitude
<1>4. PICK p \in Int : p = r * d
  BY Commutes
<1>5. s * Magnitude(d) = IF n < 0 THEN -p ELSE p
  BY <1>1, <1>4, Signs DEF Magnitude
<1>6. Magnitude(s * Magnitude(d) - Magnitude(n)) = Magnitude(r * d - n)
  BY <1>4, <1>5 DEF Magnitude
<1>7. IsRounded(s, Magnitude(n), Magnitude(d), mode) <=> IsRounded(r, n, d, mode)
  BY <1>2, <1>3, <1>6, RoundedBySize
<1>8. IsRounded(s, Magnitude(n), Magnitude(d), mode) <=>
        s = RoundedQuotient(Magnitude(n), Magnitude(d), mode)
  BY <1>2, RoundedNaturals
<1>9. RoundedQuotient(Magnitude(n), Magnitude(d), mode) \in Nat
  BY <1>2, QuotientOfNaturals
<1> QED
  BY <1>1, <1>7, <1>8, <1>9, QuotientSigns

LEMMA QuotientIsInteger ==
  ASSUME NEW n \in Int, NEW d \in Int \ {0}, NEW mode \in Modes
  PROVE  /\ RoundedQuotient(n, d, mode) \in Int
         /\ RoundedQuotient(-n, d, mode) = -RoundedQuotient(n, d, mode)
<1>1. Magnitude(n) \in Nat /\ Magnitude(d) \in Nat \ {0} /\ Magnitude(-n) = Magnitude(n)
  BY DEF Magnitude
<1>2. RoundedQuotient(Magnitude(n), Magnitude(d), mode) \in Nat
  BY <1>1, QuotientOfNaturals
<1>3. RoundedQuotient(n, d, mode) \in Int
  BY <1>2, QuotientSigns
<1>4. PICK r \in Int : r = RoundedQuotient(n, d, mode)
  BY <1>3
<1>5. (-r) * d - (-n) = -(r * d - n) /\ r * d - n \in Int
  BY Signs
<1>6. IsRounded(-r, -n, d, mode)
  <2>1. IsRounded(r, n, d, mode)
    BY <1>4, RoundedOnce
  <2>2. Magnitude(-r) = Magnitude(r) /\ Magnitude(-n) = Magnitude(n)
    BY DEF Magnitude
  <2>3. Magnitude((-r) * d - (-n)) = Magnitude(r * d - n)
    BY <1>5 DEF Magnitude
  <2>4. -r \in Int /\ -n \in Int
    OBVIOUS
  <2> HIDE DEF Magnitude
  <2> QED BY <2>1, <2>2, <2>3, <2>4, RoundedBySize
<1> QED
  BY <1>3, <1>4, <1>6, RoundedOnce

(* A common factor does not change what a fraction rounds to. *)
LEMMA RoundedScaled ==
  ASSUME NEW r \in Int, NEW n \in Int, NEW d \in Int, NEW f \in Nat \ {0}, NEW mode \in Modes
  PROVE  IsRounded(r, n * f, d * f, mode) <=> IsRounded(r, n, d, mode)
<1>1. mode \in {"DOWN", "UP", "HALF_UP", "HALF_EVEN"}
  BY DEF Modes
<1>2. PICK e \in Nat, size \in Nat, whole \in Nat, p \in Nat :
        /\ e = Magnitude(r * d - n) /\ size = Magnitude(d) /\ whole = Magnitude(n)
        /\ p = Magnitude(r) * size
  <2>1. r * d - n \in Int /\ Magnitude(r) * Magnitude(d) \in Nat
    BY DEF Magnitude
  <2> QED BY <2>1, MagnitudeFacts
<1>3. Magnitude(f) = f
  BY DEF Magnitude
<1>4. Magnitude(d * f) = size * f /\ Magnitude(n * f) = whole * f
  BY <1>2, <1>3, MagnitudeTimes
<1>5. r * (d * f) - n * f = (r * d - n) * f
  BY Commutes, Distribute
<1>6. Magnitude(r * (d * f) - n * f) = e * f
  BY <1>2, <1>3, <1>5, MagnitudeTimes
<1>7. Magnitude(r) * Magnitude(d * f) = p * f
  BY <1>2, <1>4, MagnitudeFacts, Commutes
<1>8. /\ e * f < size * f <=> e < size
      /\ p * f <= whole * f <=> p <= whole
      /\ p * f >= whole * f <=> p >= whole
      /\ 2 * (e * f) <= size * f <=> 2 * e <= size
      /\ 2 * (e * f) = size * f <=> 2 * e = size
  <2>1. 2 * (e * f) = (2 * e) * f
    BY Commutes
  <2> QED BY <2>1, Orders
<1>9. CASE mode \in {"DOWN", "UP"}
  BY <1>2, <1>4, <1>6, <1>7, <1>8, <1>9, RoundedByMode
<1>10. CASE mode \in {"HALF_UP", "HALF_EVEN"}
  BY <1>2, <1>4, <1>6, <1>7, <1>8, <1>10, RoundedByMode
<1> QED BY <1>1, <1>9, <1>10

LEMMA RoundedExactly ==
  ASSUME NEW r \in Int, NEW d \in Int \ {0}, NEW mode \in Modes
  PROVE  IsRounded(r, r * d, d, mode)
<1>1. mode \in {"DOWN", "UP", "HALF_UP", "HALF_EVEN"}
  BY DEF Modes
<1>2. r * d - r * d = 0 /\ Magnitude(0) = 0 /\ Magnitude(d) \in Nat \ {0}
  BY DEF Magnitude
<1>3. Magnitude(r * d) = Magnitude(r) * Magnitude(d) /\ Magnitude(r * d) \in Nat
  BY MagnitudeTimes, MagnitudeFacts
<1> QED BY <1>1, <1>2, <1>3, RoundedByMode

-----------------------------------------------------------------------------
-----------------------------------------------------------------------------
(* Powers of ten: the equation Pow10 is defined by has one solution. *)
PowersUpTo(m, p) ==
  p \in [0 .. m -> Nat \ {0}] /\ \A n \in 0 .. m : p[n] = IF n = 0 THEN 1 ELSE 10 * p[n - 1]

LEMMA PowersExist ==
  ASSUME NEW m \in Nat
  PROVE  \E p : PowersUpTo(m, p)
<1> DEFINE T == {k \in Nat : \E p : PowersUpTo(k, p)}
<1>1. 0 \in T
  <2>1. PowersUpTo(0, [n \in 0 .. 0 |-> 1])
    BY DEF PowersUpTo
  <2> QED BY <2>1
<1>2. ASSUME NEW k \in T PROVE k + 1 \in T
  <2>1. PICK p : PowersUpTo(k, p)
    OBVIOUS
  <2> DEFINE g == [n \in 0 .. k + 1 |-> IF n = k + 1 THEN 10 * p[k] ELSE p[n]]
  <2>2. g \in [0 .. k + 1 -> Nat \ {0}]
    BY <2>1 DEF PowersUpTo
  <2>3. ASSUME NEW n \in 0 .. k + 1 PROVE g[n] = IF n = 0 THEN 1 ELSE 10 * g[n - 1]
    BY <2>1 DEF PowersUpTo
  <2>4. PowersUpTo(k + 1, g)
    <3> HIDE DEF g
    <3> QED BY <2>2, <2>3 DEF PowersUpTo
  <2> QED BY <2>4
<1> HIDE DEF T
<1>3. T = Nat
  <2>1. T \in SUBSET Nat
    BY DEF T
  <2> QED BY <1>1, <1>2, <2>1, SetInduction
<1> QED BY <1>3 DEF T

LEMMA PowersSame ==
  ASSUME NEW m \in Nat, NEW k \in Nat, NEW p, NEW g, PowersUpTo(m, p), PowersUpTo(k, g)
  PROVE  \A n \in Nat : n <= m /\ n <= k => p[n] = g[n]
<1> DEFINE T == {n \in Nat : n <= m /\ n <= k => p[n] = g[n]}
<1>1. 0 \in T
  BY DEF PowersUpTo
<1>2. ASSUME NEW n \in T PROVE n + 1 \in T
  <2> SUFFICES ASSUME n + 1 <= m, n + 1 <= k PROVE p[n + 1] = g[n + 1]
    OBVIOUS
  <2>1. p[n] = g[n]
    OBVIOUS
  <2>2. n + 1 \in 0 .. m /\ n + 1 \in 0 .. k /\ n + 1 # 0 /\ (n + 1) - 1 = n
    OBVIOUS
  <2>3. p[n + 1] = 10 * p[n] /\ g[n + 1] = 10 * g[n]
    BY <2>2 DEF PowersUpTo
  <2> QED BY <2>1, <2>3
<1>3. T = Nat
  <2>1. T \in SUBSET Nat
    OBVIOUS
  <2> HIDE DEF T
  <2> QED BY <1>1, <1>2, <2>1, SetInduction
<1> QED BY <1>3

LEMMA PowerOf ==
  ASSUME NEW m \in Nat
  PROVE  \E p : PowersUpTo(m, p) /\ Pow10(m) = p[m]
<1>1. PICK g : PowersUpTo(m, g)
  BY PowersExist
<1> DEFINE power == CHOOSE p : p = [n \in 0 .. m |-> IF n = 0 THEN 1 ELSE 10 * p[n - 1]]
<1>2. g = [n \in 0 .. m |-> IF n = 0 THEN 1 ELSE 10 * g[n - 1]]
  BY <1>1 DEF PowersUpTo
<1>3. power = [n \in 0 .. m |-> IF n = 0 THEN 1 ELSE 10 * power[n - 1]]
  BY <1>2
<1>4. Pow10(m) = power[m]
  BY DEF Pow10
<1> HIDE DEF power
<1>5. \A n \in 0 .. m : power[n] = IF n = 0 THEN 1 ELSE 10 * power[n - 1]
  BY <1>3
<1> DEFINE T == {n \in Nat : n <= m => power[n] \in Nat \ {0}}
<1>6. 0 \in T
  BY <1>5
<1>7. ASSUME NEW n \in T PROVE n + 1 \in T
  <2>1. CASE n + 1 <= m
    <3>1. power[n + 1] = 10 * power[n]
      BY <1>5, <2>1
    <3> QED BY <2>1, <3>1
  <2> QED BY <2>1
<1>8. T = Nat
  <2>1. T \in SUBSET Nat
    OBVIOUS
  <2> HIDE DEF T
  <2> QED BY <1>6, <1>7, <2>1, SetInduction
<1>9. power \in [0 .. m -> Nat \ {0}]
  <2>1. DOMAIN power = 0 .. m /\ power = [n \in 0 .. m |-> power[n]]
    BY <1>3
  <2>2. \A n \in 0 .. m : power[n] \in Nat \ {0}
    BY <1>8
  <2> QED BY <2>1, <2>2
<1> QED BY <1>4, <1>5, <1>9 DEF PowersUpTo

LEMMA Powers ==
  /\ Pow10(0) = 1
  /\ \A n \in Nat : Pow10(n) \in Nat \ {0} /\ Pow10(n + 1) = 10 * Pow10(n)
<1>1. PICK z : PowersUpTo(0, z) /\ Pow10(0) = z[0]
  BY PowerOf
<1>2. Pow10(0) = 1
  BY <1>1 DEF PowersUpTo
<1>3. ASSUME NEW n \in Nat
      PROVE  Pow10(n) \in Nat \ {0} /\ Pow10(n + 1) = 10 * Pow10(n)
  <2>1. PICK p : PowersUpTo(n, p) /\ Pow10(n) = p[n]
    BY PowerOf
  <2>2. PICK g : PowersUpTo(n + 1, g) /\ Pow10(n + 1) = g[n + 1]
    BY PowerOf
  <2>3. p[n] = g[n]
    BY <2>1, <2>2, PowersSame
  <2>4. g[n + 1] = 10 * g[n]
    BY <2>2 DEF PowersUpTo
  <2> QED BY <2>1, <2>2, <2>3, <2>4 DEF PowersUpTo
<1> QED BY <1>2, <1>3

LEMMA PowersMultiply ==
  ASSUME NEW a \in Nat, NEW b \in Nat
  PROVE  Pow10(a + b) = Pow10(a) * Pow10(b)
<1> DEFINE T == {n \in Nat : Pow10(a + n) = Pow10(a) * Pow10(n)}
<1>1. 0 \in T
  BY Powers
<1>2. ASSUME NEW n \in T PROVE n + 1 \in T
  <2>1. /\ Pow10(a + (n + 1)) = 10 * Pow10(a + n) /\ Pow10(n + 1) = 10 * Pow10(n)
        /\ Pow10(a) \in Nat /\ Pow10(n) \in Nat /\ Pow10(a + n) = Pow10(a) * Pow10(n)
    <3>1. a + (n + 1) = (a + n) + 1 /\ a + n \in Nat
      OBVIOUS
    <3> QED BY <3>1, Powers
  <2> QED BY <2>1, Commutes
<1>3. T = Nat
  <2>1. T \in SUBSET Nat
    OBVIOUS
  <2> HIDE DEF T
  <2> QED BY <1>1, <1>2, <2>1, SetInduction
<1> QED BY <1>3

-----------------------------------------------------------------------------
-----------------------------------------------------------------------------
(* Rounding *)

(* A Decimal is made within the limits, or refused. *)
LEMMA DecimalMade ==
  ASSUME NEW u \in Int, NEW scale \in Nat
  PROVE  IF scale <= MaxScale /\ Magnitude(u) < Pow10(MaxPrecision)
         THEN /\ Decimal(u, scale) = [units |-> u, scale |-> scale]
              /\ Decimal(u, scale).units = u /\ Decimal(u, scale).scale = scale
              /\ Decimal(u, scale) \notin {Rejected, Unanswered}
         ELSE Decimal(u, scale) = Rejected
<1>1. [units |-> u, scale |-> scale] \notin {Rejected, Unanswered}
  <2>1. "units" \in DOMAIN [units |-> u, scale |-> scale]
    OBVIOUS
  <2>2. "units" \notin DOMAIN Rejected /\ "units" \notin DOMAIN Unanswered
    BY DEF Rejected, Unanswered
  <2> QED BY <2>1, <2>2
<1>2. scale \in 0 .. MaxScale <=> scale <= MaxScale
  BY LimitsAssumption
<1> QED BY <1>1, <1>2 DEF Decimal

(* What RoundsOnce asks of an answer, for the fraction n / d. *)
RoundsTo(a, n, d, scale, mode) ==
  LET largest == Pow10(MaxPrecision) - 1
  IN  IF a = Rejected
      THEN d = 0 \/ scale > MaxScale \/ ~\E r \in -largest .. largest : IsRounded(r, n, d, mode)
      ELSE /\ d # 0 /\ IsRounded(a.units, n, d, mode)
           /\ a.scale = scale /\ Magnitude(a.units) <= largest

LEMMA RoundedAnswer ==
  ASSUME NEW n \in Int, NEW d \in Int \ {0}, NEW scale \in Nat, NEW mode \in Modes, NEW u \in Int,
         IsRounded(u, n, d, mode)
  PROVE  RoundsTo(Decimal(u, scale), n, d, scale, mode)
<1>1. PICK largest \in Int : largest = Pow10(MaxPrecision) - 1
  BY Powers, LimitsAssumption
<1>2. \A r \in -largest .. largest : IsRounded(r, n, d, mode) => r = u
  BY RoundedOnce
<1>3. u \in -largest .. largest <=> Magnitude(u) <= largest
  BY DEF Magnitude
<1>4. Magnitude(u) <= largest <=> Magnitude(u) < Pow10(MaxPrecision)
  BY <1>1, Powers, LimitsAssumption, MagnitudeFacts
<1>5. CASE scale <= MaxScale /\ Magnitude(u) < Pow10(MaxPrecision)
  BY <1>1, <1>4, <1>5, DecimalMade DEF RoundsTo
<1>6. CASE scale > MaxScale \/ ~(Magnitude(u) < Pow10(MaxPrecision))
  <2>1. scale > MaxScale \/ ~\E r \in -largest .. largest : IsRounded(r, n, d, mode)
    BY <1>2, <1>3, <1>4, <1>6
  <2>2. Decimal(u, scale) = Rejected
    BY <1>6, DecimalMade, LimitsAssumption
  <2> QED BY <1>1, <2>1, <2>2 DEF RoundsTo
<1> QED BY <1>5, <1>6, LimitsAssumption

LEMMA DivideRounds ==
  ASSUME NEW x \in [units : Int, scale : Nat], NEW y \in [units : Int, scale : Nat],
         NEW scale \in Nat, NEW mode \in Modes
  PROVE  RoundsTo(Divide(x, y, scale, mode), x.units * Pow10(y.scale + scale),
                  y.units * Pow10(x.scale), scale, mode)
<1>1. Pow10(y.scale + scale) \in Nat \ {0} /\ Pow10(x.scale) \in Nat \ {0}
  BY Powers
<1> DEFINE n == x.units * Pow10(y.scale + scale)
           d == y.units * Pow10(x.scale)
<1>2. n \in Int /\ d \in Int /\ (d = 0 <=> y.units = 0)
  BY <1>1
<1>3. CASE y.units = 0
  BY <1>2, <1>3 DEF Divide, RoundsTo
<1>4. CASE y.units # 0
  <2>1. d \in Int \ {0}
    BY <1>2, <1>4
  <2>2. Divide(x, y, scale, mode) = Decimal(RoundedQuotient(n, d, mode), scale)
    BY <1>4 DEF Divide
  <2> HIDE DEF n, d
  <2>3. RoundedQuotient(n, d, mode) \in Int
    BY <1>2, <2>1, QuotientIsInteger
  <2>4. IsRounded(RoundedQuotient(n, d, mode), n, d, mode)
    BY <1>2, <2>1, <2>3, RoundedOnce
  <2>5. RoundsTo(Divide(x, y, scale, mode), n, d, scale, mode)
    BY <1>2, <2>1, <2>2, <2>3, <2>4, RoundedAnswer
  <2> QED BY <2>5 DEF n, d
<1> QED BY <1>3, <1>4

(* u / 10^from at the scale `to`: exact or rounded, it is u * 10^to / 10^from. *)
LEMMA ShiftRounds ==
  ASSUME NEW u \in Int, NEW from \in Nat, NEW to \in Nat, NEW mode \in Modes,
         NEW a, a = IF to >= from THEN Decimal(u * Pow10(to - from), to)
                    ELSE Decimal(RoundedQuotient(u, Pow10(from - to), mode), to)
  PROVE  RoundsTo(a, u * Pow10(to), Pow10(from), to, mode)
<1>1. Pow10(to) \in Nat \ {0} /\ Pow10(from) \in Nat \ {0}
  BY Powers
<1>2. CASE to >= from
  <2>1. to - from \in Nat /\ (to - from) + from = to
    BY <1>2
  <2>2. Pow10(to) = Pow10(to - from) * Pow10(from) /\ Pow10(to - from) \in Nat
    BY <2>1, Powers, PowersMultiply
  <2>3. u * Pow10(to) = (u * Pow10(to - from)) * Pow10(from) /\ u * Pow10(to - from) \in Int
    BY <1>1, <2>2, Commutes
  <2>4. IsRounded(u * Pow10(to - from), u * Pow10(to), Pow10(from), mode)
    BY <1>1, <2>3, RoundedExactly
  <2>5. u * Pow10(to) \in Int
    BY <1>1
  <2> QED BY <1>1, <1>2, <2>3, <2>4, <2>5, RoundedAnswer
<1>3. CASE ~(to >= from)
  <2>1. from - to \in Nat /\ (from - to) + to = from
    BY <1>3
  <2>2. PICK d \in Nat \ {0} : d = Pow10(from - to) /\ Pow10(from) = d * Pow10(to)
    <3>1. Pow10(from - to) \in Nat \ {0}
      BY <2>1, Powers
    <3>2. Pow10((from - to) + to) = Pow10(from - to) * Pow10(to)
      BY <2>1, PowersMultiply
    <3> QED BY <2>1, <3>1, <3>2
  <2>3. PICK r \in Int : r = RoundedQuotient(u, d, mode)
    BY QuotientIsInteger
  <2>4. IsRounded(r, u, d, mode)
    BY <2>3, RoundedOnce
  <2>5. IsRounded(r, u * Pow10(to), d * Pow10(to), mode)
    <3>1. PICK f \in Nat \ {0} : f = Pow10(to)
      BY <1>1
    <3>2. d \in Int
      OBVIOUS
    <3>3. IsRounded(r, u * f, d * f, mode) <=> IsRounded(r, u, d, mode)
      BY <3>2, RoundedScaled, Zenon
    <3> QED BY <2>4, <3>1, <3>3
  <2>6. a = Decimal(r, to) /\ u * Pow10(to) \in Int /\ Pow10(from) \in Int \ {0}
    BY <1>1, <1>3, <2>2, <2>3
  <2> QED BY <2>2, <2>5, <2>6, RoundedAnswer
<1> QED BY <1>2, <1>3

LEMMA MultiplyRounds ==
  ASSUME NEW x \in [units : Int, scale : Nat], NEW y \in [units : Int, scale : Nat],
         NEW scale \in Nat, NEW mode \in Modes
  PROVE  RoundsTo(Multiply(x, y, scale, mode), x.units * y.units * Pow10(scale),
                  Pow10(x.scale + y.scale), scale, mode)
<1>1. x.units * y.units \in Int /\ x.scale + y.scale \in Nat
  OBVIOUS
<1> QED BY <1>1, ShiftRounds DEF Multiply

LEMMA RoundRounds ==
  ASSUME NEW x \in [units : Int, scale : Nat], NEW scale \in Nat, NEW mode \in Modes
  PROVE  RoundsTo(Round(x, scale, mode), x.units * Pow10(scale), Pow10(x.scale), scale, mode)
  BY ShiftRounds DEF Round, UnitsAt

(* There is one calculation: what is answered is its result. *)
AnswerIsResult == question \in Questions /\ answer \in {Unanswered, Result(question)}

LEMMA OneCalculation == MoneySpec => []AnswerIsResult
<1>1. MoneyInit => AnswerIsResult
  BY DEF MoneyInit, AnswerIsResult
<1>2. AnswerIsResult /\ [MoneyNext]_moneyVars => AnswerIsResult'
  BY DEF AnswerIsResult, MoneyNext, Calculate, moneyVars
<1> QED BY <1>1, <1>2, PTL DEF MoneySpec

(* divide, multiply and round of decimal.ts, for decimals and output scales *)
(* of any size and whatever the limits: the answer is the exact result      *)
(* rounded as the mode says, once; it is refused exactly when no such value *)
(* fits.                                                                    *)
THEOREM RoundingIsExact == MoneySpec => []RoundsOnce
<1>1. AnswerIsResult => RoundsOnce
  <2> SUFFICES ASSUME AnswerIsResult, question.op \in {"divide", "multiply", "round"}, answer # Unanswered
               PROVE  RoundsOnce
    BY DEF RoundsOnce
  <2>1. answer = Result(question) /\ IsQuestion(question)
    BY QuestionsAssumption DEF AnswerIsResult
  <2>2. /\ question.x \in [units : Int, scale : Nat]
        /\ question.op # "round" => question.y \in [units : Int, scale : Nat]
        /\ question.scale \in Nat /\ question.mode \in Modes
    BY <2>1, LimitsAssumption DEF IsQuestion, IsRounding, IsDecimal
  <2>3. CASE question.op = "divide"
    <3>1. answer = Divide(question.x, question.y, question.scale, question.mode)
      BY <2>1, <2>3 DEF Result
    <3>2. RoundsTo(answer, question.x.units * Pow10(question.y.scale + question.scale),
                   question.y.units * Pow10(question.x.scale), question.scale, question.mode)
      BY <2>2, <2>3, <3>1, DivideRounds
    <3> QED BY <2>3, <3>2 DEF RoundsTo, RoundsOnce
  <2>4. CASE question.op = "multiply"
    <3>1. answer = Multiply(question.x, question.y, question.scale, question.mode)
      BY <2>1, <2>4 DEF Result
    <3>2. RoundsTo(answer, question.x.units * question.y.units * Pow10(question.scale),
                   Pow10(question.x.scale + question.y.scale), question.scale, question.mode)
      BY <2>2, <2>4, <3>1, MultiplyRounds
    <3> QED BY <2>4, <3>2 DEF RoundsTo, RoundsOnce
  <2>5. CASE question.op = "round"
    <3>1. answer = Round(question.x, question.scale, question.mode)
      BY <2>1, <2>5 DEF Result
    <3>2. RoundsTo(answer, question.x.units * Pow10(question.scale),
                   Pow10(question.x.scale), question.scale, question.mode)
      BY <2>2, <2>5, <3>1, RoundRounds
    <3> QED BY <2>5, <3>2 DEF RoundsTo, RoundsOnce
  <2> QED BY <2>3, <2>4, <2>5
<1> QED BY <1>1, OneCalculation, PTL

-----------------------------------------------------------------------------
(* Proration *)

(* Rounded to one side, a value is less than one unit away, and rounded to  *)
(* the nearest at most half a unit.                                         *)
LEMMA RoundedIsNear ==
  ASSUME NEW n \in Int, NEW d \in Nat \ {0}, NEW mode \in Modes
  PROVE  /\ RoundedQuotient(n, d, mode) \in Int
         /\ Magnitude(RoundedQuotient(n, d, mode) * d - n) < d
         /\ mode \in {"HALF_UP", "HALF_EVEN"} =>
              2 * Magnitude(RoundedQuotient(n, d, mode) * d - n) <= d
<1>1. d \in Int \ {0} /\ Magnitude(d) = d
  BY DEF Magnitude
<1>2. PICK r \in Int : r = RoundedQuotient(n, d, mode)
  BY <1>1, QuotientIsInteger
<1>3. IsRounded(r, n, d, mode)
  BY <1>1, <1>2, RoundedOnce
<1>4. PICK e \in Nat : e = Magnitude(r * d - n)
  BY MagnitudeFacts, Commutes
<1>5. mode \in {"DOWN", "UP", "HALF_UP", "HALF_EVEN"}
  BY DEF Modes
<1>6. e < d /\ (mode \in {"HALF_UP", "HALF_EVEN"} => 2 * e <= d)
  BY <1>1, <1>3, <1>4, <1>5, RoundedByMode
<1> QED BY <1>2, <1>4, <1>6

Days(interval) == interval.end - interval.start

(* The arguments prorateActualDays and multiply accept. *)
CanProrate(amount, use, period) ==
  /\ period.end > period.start /\ use.end >= use.start
  /\ use.start >= period.start /\ use.end <= period.end
  /\ Days(period) < Pow10(MaxPrecision)
  /\ Magnitude(amount.units * Days(use)) < Pow10(MaxPrecision)

(* The scales cancel: prorating rounds amount * used days / period days. *)
LEMMA ProrateGives ==
  ASSUME NEW amount \in [units : Int, scale : 0 .. MaxScale], NEW use \in Interval,
         NEW period \in Interval, NEW mode \in Modes
  PROVE  Prorate(amount, use, period, mode) =
           IF CanProrate(amount, use, period)
           THEN Decimal(RoundedQuotient(amount.units * Days(use), Days(period), mode), amount.scale)
           ELSE Rejected
<1>1. PICK u \in Int, p \in Int, s \in Nat, limit \in Nat \ {0} :
        u = Days(use) /\ p = Days(period) /\ s = amount.scale /\ limit = Pow10(MaxPrecision)
  <2>1. Days(use) \in Int /\ Days(period) \in Int
    BY DEF Days, Interval
  <2>2. Pow10(MaxPrecision) \in Nat \ {0}
    BY Powers, LimitsAssumption
  <2>3. amount.scale \in Nat
    BY LimitsAssumption
  <2> QED BY <2>1, <2>2, <2>3
<1>2. s <= MaxScale
  BY <1>1, LimitsAssumption
<1> DEFINE valid == /\ period.end > period.start /\ use.end >= use.start
                    /\ use.start >= period.start /\ use.end <= period.end
<1>3. CASE ~valid
  BY <1>3 DEF Prorate, CanProrate, Interval
<1>4. CASE valid
  <2>1. u >= 0 /\ p > 0 /\ u <= p /\ Magnitude(u) = u /\ Magnitude(p) = p
    BY <1>1, <1>4 DEF Days, Interval, Magnitude
  <2>2. CASE ~(p < limit)
    <3>1. Decimal(p, 0) = Rejected
      BY <1>1, <2>1, <2>2, DecimalMade
    <3> QED BY <1>1, <2>2, <3>1 DEF Prorate, CanProrate, Days
  <2>3. CASE p < limit
    <3>1. Decimal(p, 0) = [units |-> p, scale |-> 0] /\ Decimal(p, 0) # Rejected
      BY <1>1, <2>1, <2>3, DecimalMade, LimitsAssumption
    <3>2. Decimal(u, 0) = [units |-> u, scale |-> 0]
      BY <1>1, <2>1, <2>3, DecimalMade, LimitsAssumption
    <3>3. amount.units * u \in Int
      BY Commutes
    <3>4. MultiplyExactly(amount, Decimal(u, 0)) = Decimal(amount.units * u, s)
      BY <1>1, <3>2 DEF MultiplyExactly
    <3>5. CASE ~(Magnitude(amount.units * u) < limit)
      <4>1. MultiplyExactly(amount, Decimal(u, 0)) = Rejected
        BY <1>1, <3>3, <3>4, <3>5, DecimalMade
      <4> QED BY <1>1, <3>5, <4>1 DEF Prorate, CanProrate, Days
    <3>6. CASE Magnitude(amount.units * u) < limit
      <4>1. /\ MultiplyExactly(amount, Decimal(u, 0)) = [units |-> amount.units * u, scale |-> s]
            /\ MultiplyExactly(amount, Decimal(u, 0)) # Rejected
        BY <1>1, <1>2, <3>3, <3>4, <3>6, DecimalMade
      <4>2. PICK r \in Int : r = RoundedQuotient(amount.units * u, p, mode)
        BY <2>1, <3>3, QuotientIsInteger
      <4>3. Divide([units |-> amount.units * u, scale |-> s], [units |-> p, scale |-> 0], s, mode)
              = Decimal(RoundedQuotient((amount.units * u) * Pow10(s), p * Pow10(s), mode), s)
        <5>1. 0 + s = s /\ p # 0
          BY <2>1
        <5> QED BY <5>1 DEF Divide
      <4>4. RoundedQuotient((amount.units * u) * Pow10(s), p * Pow10(s), mode) = r
        <5>1. PICK f \in Nat \ {0}, n \in Int : f = Pow10(s) /\ n = amount.units * u
          BY <3>3, Powers
        <5>2. n * f \in Int /\ p * f \in Int \ {0} /\ p \in Int \ {0}
          BY <2>1
        <5>3. IsRounded(r, n, p, mode)
          BY <4>2, <5>1, <5>2, RoundedOnce
        <5>4. IsRounded(r, n * f, p * f, mode)
          BY <5>3, RoundedScaled
        <5>5. r = RoundedQuotient(n * f, p * f, mode)
          BY <5>2, <5>4, RoundedOnce
        <5> QED BY <5>1, <5>5
      <4>5. MoneyOf(Decimal(r, s), s) = Decimal(r, s)
        <5>1. r * Pow10(s - s) = r
          BY Powers
        <5>2. CASE Magnitude(r) < limit
          <6>1. /\ Decimal(r, s) = [units |-> r, scale |-> s] /\ Decimal(r, s) # Rejected
                /\ Decimal(r, s).units = r /\ Decimal(r, s).scale = s
            BY <1>1, <1>2, <5>2, DecimalMade
          <6> QED BY <5>1, <6>1 DEF MoneyOf, Rescale, UnitsAt
        <5>3. CASE ~(Magnitude(r) < limit)
          <6>1. Decimal(r, s) = Rejected
            BY <1>1, <5>3, DecimalMade
          <6> QED BY <6>1 DEF MoneyOf
        <5> QED BY <5>2, <5>3
      <4>6. CanProrate(amount, use, period)
        BY <1>1, <1>4, <2>3, <3>6 DEF CanProrate
      <4>7. Prorate(amount, use, period, mode) =
              MoneyOf(Divide([units |-> amount.units * u, scale |-> s], [units |-> p, scale |-> 0], s, mode), s)
        <5>1. use.end - use.start = u /\ period.end - period.start = p
          BY <1>1 DEF Days
        <5>2. ~(period.end <= period.start \/ use.end < use.start
                \/ use.start < period.start \/ use.end > period.end)
          BY <1>4 DEF Interval
        <5> QED BY <1>1, <3>1, <4>1, <5>1, <5>2 DEF Prorate
      <4> QED BY <1>1, <4>2, <4>3, <4>4, <4>5, <4>6, <4>7
    <3> QED BY <3>5, <3>6
  <2> QED BY <2>2, <2>3
<1> QED BY <1>3, <1>4

(* prorateActualDays, for every amount, period, use and mode: the whole     *)
(* period costs the amount, a credit undoes its charge, and the three       *)
(* intervals of a period are within one or two minor units of it, as the    *)
(* mode rounds to the nearest or to one side.                               *)
THEOREM ProrationIsConsistent == MoneySpec => []ProratesConsistently
<1>1. AnswerIsResult => ProratesConsistently
  <2> SUFFICES ASSUME AnswerIsResult, Answered("prorate")
               PROVE  ProratesConsistently
    BY DEF ProratesConsistently
  <2> DEFINE amount == question.amount
             use == question.used
             period == question.period
             mode == question.mode
             beforeUse == [start |-> period.start, end |-> use.start]
             afterUse == [start |-> use.end, end |-> period.end]
             credited == [amount EXCEPT !.units = -@]
             Charge(interval) == RoundedQuotient(amount.units * Days(interval), Days(period), mode)
  <2>1. answer = Result(question) /\ IsQuestion(question) /\ question.op = "prorate" /\ answer # Rejected
    BY QuestionsAssumption DEF AnswerIsResult, Answered
  <2>2. /\ amount \in [units : Int, scale : 0 .. MaxScale]
        /\ use \in Interval /\ period \in Interval /\ mode \in Modes
    BY <2>1 DEF IsQuestion, IsDecimal
  <2>3. answer = Prorate(amount, use, period, mode)
    BY <2>1 DEF Result
  <2> HIDE DEF amount, use, period, mode
  <2>4. CanProrate(amount, use, period) /\ answer = Decimal(Charge(use), amount.scale)
    BY <2>1, <2>2, <2>3, ProrateGives
  <2>5. /\ beforeUse \in Interval /\ afterUse \in Interval
        /\ Days(period) \in Nat \ {0}
        /\ Days(use) \in Int /\ Days(beforeUse) \in Int /\ Days(afterUse) \in Int
        /\ Days(beforeUse) + Days(use) + Days(afterUse) = Days(period)
    BY <2>2, <2>4 DEF CanProrate, Interval, Days
  <2>6. amount.scale \in Nat /\ amount.units \in Int
    BY <2>2, LimitsAssumption
  <2>7. \A interval \in Interval : Days(interval) \in Int =>
          /\ Charge(interval) \in Int
          /\ Magnitude(Charge(interval) * Days(period) - amount.units * Days(interval)) < Days(period)
          /\ mode \in {"HALF_UP", "HALF_EVEN"} =>
               2 * Magnitude(Charge(interval) * Days(period) - amount.units * Days(interval)) <= Days(period)
    BY <2>2, <2>5, <2>6, RoundedIsNear, Commutes
  <2>8. Prorate(amount, period, period, mode) \in {amount, Rejected}
    <3>1. IsRounded(amount.units, amount.units * Days(period), Days(period), mode)
      BY <2>2, <2>5, <2>6, RoundedExactly
    <3>2. Charge(period) = amount.units
      <4>1. PICK n \in Int, d \in Int \ {0} : n = amount.units * Days(period) /\ d = Days(period)
        BY <2>5, <2>6, Commutes
      <4>2. RoundedQuotient(n, d, mode) = amount.units
        BY <2>2, <2>6, <3>1, <4>1, RoundedOnce
      <4> QED BY <4>1, <4>2
    <3>3. Prorate(amount, period, period, mode) \in {Decimal(amount.units, amount.scale), Rejected}
      BY <2>2, <3>2, ProrateGives
    <3>4. amount = [units |-> amount.units, scale |-> amount.scale]
      BY <2>2
    <3> QED BY <2>6, <3>3, <3>4, DecimalMade
  <2>9. Prorate(credited, use, period, mode).units = -answer.units
    <3>1. /\ credited \in [units : Int, scale : 0 .. MaxScale]
          /\ credited.units = -amount.units /\ credited.scale = amount.scale
      BY <2>2
    <3>2. PICK n \in Int, d \in Nat \ {0} : n = amount.units * Days(use) /\ d = Days(period)
      BY <2>5, <2>6, Commutes
    <3>3. credited.units * Days(use) = -n
      BY <2>5, <2>6, <3>1, <3>2, Signs
    <3>4. CanProrate(credited, use, period)
      <4>1. Magnitude(credited.units * Days(use)) = Magnitude(amount.units * Days(use))
        BY <3>2, <3>3, MagnitudeFacts
      <4> QED BY <2>4, <4>1 DEF CanProrate
    <3>5. PICK r \in Int : r = RoundedQuotient(n, d, mode) /\ -r = RoundedQuotient(-n, d, mode)
      BY <2>2, QuotientIsInteger
    <3>6. Prorate(credited, use, period, mode) = Decimal(-r, amount.scale)
      BY <2>2, <3>1, <3>2, <3>3, <3>4, <3>5, ProrateGives
    <3>7. answer = Decimal(r, amount.scale)
      BY <2>4, <3>2, <3>5
    <3>8. Magnitude(-r) = Magnitude(r) /\ -r \in Int
      BY MagnitudeFacts
    <3> QED BY <2>1, <2>6, <3>6, <3>7, <3>8, DecimalMade
  <2>10. ASSUME Prorate(amount, beforeUse, period, mode) # Rejected,
                Prorate(amount, afterUse, period, mode) # Rejected
         PROVE  Magnitude(Prorate(amount, beforeUse, period, mode).units + answer.units
                          + Prorate(amount, afterUse, period, mode).units - amount.units)
                  <= (IF mode \in {"HALF_UP", "HALF_EVEN"} THEN 1 ELSE 2)
    <3>1. PICK b \in Int, u \in Int, a \in Int :
            b = Charge(beforeUse) /\ u = Charge(use) /\ a = Charge(afterUse)
      BY <2>2, <2>5, <2>7
    <3>2. /\ Prorate(amount, beforeUse, period, mode).units = b
          /\ answer.units = u
          /\ Prorate(amount, afterUse, period, mode).units = a
      BY <2>1, <2>2, <2>4, <2>5, <2>6, <2>10, <3>1, ProrateGives, DecimalMade
    <3>3. PICK x \in Int, y \in Int, z \in Int, d \in Nat \ {0} :
            x = Days(beforeUse) /\ y = Days(use) /\ z = Days(afterUse) /\ d = Days(period)
      BY <2>5
    <3>4. PICK m \in Int : m = amount.units
      BY <2>6
    <3>5. /\ Magnitude(b * d - m * x) < d /\ Magnitude(u * d - m * y) < d
          /\ Magnitude(a * d - m * z) < d /\ x + y + z = d
          /\ mode \in {"HALF_UP", "HALF_EVEN"} =>
               /\ 2 * Magnitude(b * d - m * x) <= d /\ 2 * Magnitude(u * d - m * y) <= d
               /\ 2 * Magnitude(a * d - m * z) <= d
      BY <2>2, <2>5, <2>7, <3>1, <3>3, <3>4
    <3>6. m * x + m * y + m * z = m * d
      BY <3>5
    <3>7. (b + u + a - m) * d = b * d + u * d + a * d - m * d
      OBVIOUS
    <3>8. /\ (b + u + a - m) * d < 3 * d /\ (b + u + a - m) * d > (-3) * d
          /\ mode \in {"HALF_UP", "HALF_EVEN"} =>
               (b + u + a - m) * d < 2 * d /\ (b + u + a - m) * d > (-2) * d
      <4>1. PICK bd \in Int, ud \in Int, ad \in Int, md \in Int, mx \in Int, my \in Int, mz \in Int :
              /\ bd = b * d /\ ud = u * d /\ ad = a * d /\ md = m * d
              /\ mx = m * x /\ my = m * y /\ mz = m * z
        BY Commutes
      <4>2. /\ bd - mx < d /\ mx - bd < d /\ ud - my < d /\ my - ud < d
            /\ ad - mz < d /\ mz - ad < d
        BY <3>5, <4>1 DEF Magnitude
      <4>3. mode \in {"HALF_UP", "HALF_EVEN"} =>
              /\ 2 * (bd - mx) <= d /\ 2 * (mx - bd) <= d /\ 2 * (ud - my) <= d
              /\ 2 * (my - ud) <= d /\ 2 * (ad - mz) <= d /\ 2 * (mz - ad) <= d
        BY <3>5, <4>1 DEF Magnitude
      <4>4. (b + u + a - m) * d < 3 * d /\ (b + u + a - m) * d > (-3) * d
        BY <3>6, <3>7, <4>1, <4>2
      <4>5. mode \in {"HALF_UP", "HALF_EVEN"} =>
              (b + u + a - m) * d < 2 * d /\ (b + u + a - m) * d > (-2) * d
        BY <3>6, <3>7, <4>1, <4>3
      <4> QED BY <4>4, <4>5
    <3>9. /\ b + u + a - m < 3 /\ b + u + a - m > -3
          /\ mode \in {"HALF_UP", "HALF_EVEN"} => b + u + a - m < 2 /\ b + u + a - m > -2
      BY <3>8, Orders
    <3>10. Magnitude(b + u + a - m) <= (IF mode \in {"HALF_UP", "HALF_EVEN"} THEN 1 ELSE 2)
      BY <3>9 DEF Magnitude
    <3> QED BY <3>2, <3>4, <3>10
  <2> QED BY <2>8, <2>9, <2>10 DEF ProratesConsistently, amount, use, period, mode
<1> QED BY <1>1, OneCalculation, PTL

-----------------------------------------------------------------------------
(* Sums, as functions of how many numbers have been added. *)

Solves(p, m, first, step) ==
  \A n \in 0 .. m : p[n] = IF n = 0 THEN first ELSE step[n][p[n - 1]]

(* Such an equation has a solution up to every bound. *)
LEMMA RecursionSolved ==
  ASSUME NEW X, NEW first \in X, NEW step \in [Nat -> [X -> X]], NEW m \in Nat
  PROVE  \E p \in [0 .. m -> X] : Solves(p, m, first, step)
<1> DEFINE T == {k \in Nat : \E p \in [0 .. k -> X] : Solves(p, k, first, step)}
<1>1. 0 \in T
  <2>1. [n \in 0 .. 0 |-> first] \in [0 .. 0 -> X] /\ Solves([n \in 0 .. 0 |-> first], 0, first, step)
    BY DEF Solves
  <2> QED BY <2>1
<1>2. ASSUME NEW k \in T PROVE k + 1 \in T
  <2>1. PICK p \in [0 .. k -> X] : Solves(p, k, first, step)
    OBVIOUS
  <2> DEFINE g == [n \in 0 .. k + 1 |-> IF n = k + 1 THEN step[k + 1][p[k]] ELSE p[n]]
  <2>2. p[k] \in X /\ k \in Nat
    OBVIOUS
  <2>3. g \in [0 .. k + 1 -> X]
    BY <2>2
  <2>4. ASSUME NEW n \in 0 .. k + 1 PROVE g[n] = IF n = 0 THEN first ELSE step[n][g[n - 1]]
    BY <2>1, <2>2 DEF Solves
  <2>5. Solves(g, k + 1, first, step)
    <3> HIDE DEF g
    <3> QED BY <2>4 DEF Solves
  <2> HIDE DEF g
  <2> QED BY <2>2, <2>3, <2>5
<1>3. T = Nat
  <2>1. T \in SUBSET Nat
    OBVIOUS
  <2> HIDE DEF T
  <2> QED BY <1>1, <1>2, <2>1, SetInduction
<1> QED BY <1>3

(* Induction up to a bound. *)
LEMMA UpTo ==
  ASSUME NEW m \in Nat, NEW S, 0 \in S, \A n \in 0 .. m - 1 : n \in S => n + 1 \in S
  PROVE  0 .. m \subseteq S
<1> DEFINE T == {n \in Nat : n <= m => n \in S}
<1>1. 0 \in T
  OBVIOUS
<1>2. ASSUME NEW n \in T PROVE n + 1 \in T
  OBVIOUS
<1>3. T = Nat
  <2>1. T \in SUBSET Nat
    OBVIOUS
  <2> HIDE DEF T
  <2> QED BY <1>1, <1>2, <2>1, SetInduction
<1> QED BY <1>3

AddsUp(f, g) ==
  \A n \in 0 .. Len(f) : g[n] = IF n = 0 THEN 0 ELSE g[n - 1] + f[n]

(* Sums adds up its numbers. *)
LEMMA SumsAddUp ==
  ASSUME NEW f \in Seq(Int)
  PROVE  AddsUp(f, Sums(f)) /\ Sums(f) \in [0 .. Len(f) -> Int] /\ SumOf(f) \in Int
<1> DEFINE m == Len(f)
           step == [n \in Nat |-> [x \in Int |-> IF n \in 1 .. m THEN x + f[n] ELSE x]]
           sum == CHOOSE g : g = [n \in 0 .. m |-> IF n = 0 THEN 0 ELSE g[n - 1] + f[n]]
<1>1. m \in Nat /\ \A n \in 1 .. m : f[n] \in Int
  OBVIOUS
<1>2. step \in [Nat -> [Int -> Int]]
  BY <1>1
<1>3. PICK g \in [0 .. m -> Int] : Solves(g, m, 0, step)
  <2>1. 0 \in Int
    OBVIOUS
  <2> HIDE DEF m, step
  <2> QED BY <1>1, <1>2, <2>1, RecursionSolved
<1>4. \A n \in 0 .. m : g[n] = IF n = 0 THEN 0 ELSE g[n - 1] + f[n]
  <2> SUFFICES ASSUME NEW n \in 0 .. m PROVE g[n] = IF n = 0 THEN 0 ELSE g[n - 1] + f[n]
    OBVIOUS
  <2>1. CASE n = 0
    BY <1>3, <2>1 DEF Solves
  <2>2. CASE n # 0
    <3>1. n \in 1 .. m /\ n \in Nat /\ n - 1 \in 0 .. m
      BY <1>1, <2>2
    <3>2. g[n - 1] \in Int
      BY <3>1
    <3> QED BY <1>3, <3>1, <3>2 DEF Solves
  <2> QED BY <2>1, <2>2
<1>5. g = [n \in 0 .. m |-> IF n = 0 THEN 0 ELSE g[n - 1] + f[n]]
  <2> HIDE DEF m
  <2> QED BY <1>4
<1>6. sum = [n \in 0 .. m |-> IF n = 0 THEN 0 ELSE sum[n - 1] + f[n]]
  <2> HIDE DEF m
  <2> QED BY <1>5
<1>7. Sums(f) = sum
  BY DEF Sums
<1> HIDE DEF sum, step
<1>8. AddsUp(f, sum)
  BY <1>6 DEF AddsUp
<1>9. 0 .. m \subseteq {n \in Nat : n <= m => sum[n] \in Int}
  <2> DEFINE S == {n \in Nat : n <= m => sum[n] \in Int}
  <2>1. 0 \in S
    BY <1>1, <1>8 DEF AddsUp
  <2>2. ASSUME NEW n \in 0 .. m - 1, n \in S PROVE n + 1 \in S
    <3>1. n + 1 \in 0 .. m /\ n + 1 \in 1 .. m /\ (n + 1) - 1 = n /\ sum[n] \in Int /\ n + 1 # 0
      BY <1>1, <2>2
    <3>2. sum[n + 1] = sum[n] + f[n + 1]
      BY <1>8, <3>1 DEF AddsUp
    <3> QED BY <1>1, <3>1, <3>2
  <2> HIDE DEF S, m
  <2> QED BY <1>1, <2>1, <2>2, UpTo DEF S
<1>10. sum \in [0 .. m -> Int]
  <2>1. \A n \in 0 .. m : sum[n] \in Int
    BY <1>1, <1>9
  <2>2. sum = [n \in 0 .. m |-> sum[n]]
    <3> HIDE DEF m
    <3> QED BY <1>6
  <2> QED BY <2>1, <2>2
<1>11. sum[m] \in Int
  <2>1. m \in 0 .. m
    BY <1>1
  <2> HIDE DEF m
  <2> QED BY <1>10, <2>1
<1> QED BY <1>7, <1>8, <1>10, <1>11 DEF SumOf

(* Whatever adds up as the numbers do is their sum. *)
LEMMA SumIs ==
  ASSUME NEW f \in Seq(Int), NEW g, AddsUp(f, g)
  PROVE  g[Len(f)] = SumOf(f)
<1>1. PICK m \in Nat : m = Len(f)
  OBVIOUS
<1>2. AddsUp(f, Sums(f))
  BY SumsAddUp
<1> DEFINE S == {n \in Nat : n <= m => g[n] = Sums(f)[n]}
<1>3. 0 \in S
  BY <1>1, <1>2 DEF AddsUp
<1>4. ASSUME NEW n \in 0 .. m - 1, n \in S PROVE n + 1 \in S
  <2>1. n + 1 \in 0 .. m /\ n + 1 # 0 /\ (n + 1) - 1 = n /\ g[n] = Sums(f)[n]
    BY <1>4
  <2> QED BY <1>1, <1>2, <2>1 DEF AddsUp
<1>5. 0 .. m \subseteq S
  <2> HIDE DEF S
  <2> QED BY <1>3, <1>4, UpTo
<1> QED BY <1>1, <1>5 DEF SumOf

LEMMA NumbersAre ==
  ASSUME NEW m \in Nat, NEW f \in [1 .. m -> Int]
  PROVE  f \in Seq(Int) /\ Len(f) = m
  OBVIOUS

LEMMA SumScaled ==
  ASSUME NEW m \in Nat, NEW f \in [1 .. m -> Int], NEW c \in Int
  PROVE  SumOf([i \in 1 .. m |-> f[i] * c]) = SumOf(f) * c
<1> DEFINE h == [i \in 1 .. m |-> f[i] * c]
           g == [n \in 0 .. m |-> Sums(f)[n] * c]
<1>1. h \in [1 .. m -> Int]
  BY Commutes
<1>2. f \in Seq(Int) /\ Len(f) = m /\ h \in Seq(Int) /\ Len(h) = m
  BY <1>1, NumbersAre
<1>3. AddsUp(f, Sums(f)) /\ Sums(f) \in [0 .. m -> Int]
  BY <1>2, SumsAddUp
<1>4. ASSUME NEW n \in 0 .. m PROVE g[n] = IF n = 0 THEN 0 ELSE g[n - 1] + h[n]
  <2>1. CASE n = 0
    BY <1>2, <1>3, <2>1 DEF AddsUp
  <2>2. CASE n # 0
    <3>1. n \in 1 .. m /\ n - 1 \in 0 .. m
      BY <2>2
    <3>2. PICK x \in Int, y \in Int : x = Sums(f)[n - 1] /\ y = f[n] /\ Sums(f)[n] = x + y
      <4>1. Sums(f)[n - 1] \in Int /\ f[n] \in Int
        BY <1>3, <3>1
      <4>2. Sums(f)[n] = Sums(f)[n - 1] + f[n]
        BY <1>2, <1>3, <2>2, <3>1 DEF AddsUp
      <4> QED BY <4>1, <4>2
    <3>3. g[n] = (x + y) * c /\ g[n - 1] = x * c /\ h[n] = y * c
      BY <3>1, <3>2
    <3> HIDE DEF g, h
    <3> QED BY <2>2, <3>3, Distribute
  <2> QED BY <2>1, <2>2
<1>5. AddsUp(h, g)
  <2> HIDE DEF h, g
  <2> QED BY <1>2, <1>4 DEF AddsUp
<1>6. g[m] = SumOf(h)
  <2> HIDE DEF h, g
  <2> QED BY <1>2, <1>5, SumIs
<1> QED BY <1>2, <1>6 DEF SumOf

LEMMA SumAdded ==
  ASSUME NEW m \in Nat, NEW f \in [1 .. m -> Int], NEW h \in [1 .. m -> Int]
  PROVE  SumOf([i \in 1 .. m |-> f[i] + h[i]]) = SumOf(f) + SumOf(h)
<1> DEFINE k == [i \in 1 .. m |-> f[i] + h[i]]
           g == [n \in 0 .. m |-> Sums(f)[n] + Sums(h)[n]]
<1>1. k \in [1 .. m -> Int]
  OBVIOUS
<1>2. /\ f \in Seq(Int) /\ Len(f) = m /\ h \in Seq(Int) /\ Len(h) = m
      /\ k \in Seq(Int) /\ Len(k) = m
  BY <1>1, NumbersAre
<1>3. /\ AddsUp(f, Sums(f)) /\ Sums(f) \in [0 .. m -> Int]
      /\ AddsUp(h, Sums(h)) /\ Sums(h) \in [0 .. m -> Int]
  BY <1>2, SumsAddUp
<1>4. ASSUME NEW n \in 0 .. m PROVE g[n] = IF n = 0 THEN 0 ELSE g[n - 1] + k[n]
  <2>1. CASE n = 0
    BY <1>2, <1>3, <2>1 DEF AddsUp
  <2>2. CASE n # 0
    <3>1. n \in 1 .. m /\ n - 1 \in 0 .. m
      BY <2>2
    <3>2. Sums(f)[n] = Sums(f)[n - 1] + f[n] /\ Sums(h)[n] = Sums(h)[n - 1] + h[n]
      BY <1>2, <1>3, <2>2, <3>1 DEF AddsUp
    <3> QED BY <1>3, <2>2, <3>1, <3>2
  <2> QED BY <2>1, <2>2
<1>5. AddsUp(k, g)
  <2> HIDE DEF k, g
  <2> QED BY <1>2, <1>4 DEF AddsUp
<1>6. g[m] = SumOf(k)
  <2> HIDE DEF k, g
  <2> QED BY <1>2, <1>5, SumIs
<1> QED BY <1>2, <1>6 DEF SumOf

LEMMA SumOrdered ==
  ASSUME NEW m \in Nat, NEW f \in [1 .. m -> Int], NEW h \in [1 .. m -> Int],
         \A i \in 1 .. m : f[i] <= h[i]
  PROVE  SumOf(f) <= SumOf(h)
<1>1. f \in Seq(Int) /\ Len(f) = m /\ h \in Seq(Int) /\ Len(h) = m
  BY NumbersAre
<1>2. /\ AddsUp(f, Sums(f)) /\ Sums(f) \in [0 .. m -> Int]
      /\ AddsUp(h, Sums(h)) /\ Sums(h) \in [0 .. m -> Int]
  BY <1>1, SumsAddUp
<1> DEFINE S == {n \in Nat : n <= m => Sums(f)[n] <= Sums(h)[n]}
<1>3. 0 \in S
  BY <1>1, <1>2 DEF AddsUp
<1>4. ASSUME NEW n \in 0 .. m - 1, n \in S PROVE n + 1 \in S
  <2>1. n + 1 \in 1 .. m /\ n + 1 \in 0 .. m /\ n + 1 # 0 /\ (n + 1) - 1 = n /\ n \in 0 .. m
    OBVIOUS
  <2>2. Sums(f)[n + 1] = Sums(f)[n] + f[n + 1] /\ Sums(h)[n + 1] = Sums(h)[n] + h[n + 1]
    BY <1>1, <1>2, <2>1 DEF AddsUp
  <2>3. Sums(f)[n] <= Sums(h)[n] /\ f[n + 1] <= h[n + 1]
    BY <1>4, <2>1
  <2>4. /\ Sums(f)[n] \in Int /\ Sums(h)[n] \in Int /\ f[n + 1] \in Int /\ h[n + 1] \in Int
    BY <1>2, <2>1
  <2>5. Sums(f)[n + 1] <= Sums(h)[n + 1]
    BY <2>2, <2>3, <2>4
  <2> QED BY <2>5
<1>5. 0 .. m \subseteq S
  <2> HIDE DEF S
  <2> QED BY <1>3, <1>4, UpTo
<1> QED BY <1>1, <1>5 DEF SumOf

LEMMA SumReplaced ==
  ASSUME NEW m \in Nat, NEW f \in [1 .. m -> Int], NEW i \in 1 .. m, NEW v \in Int
  PROVE  SumOf([f EXCEPT ![i] = v]) = SumOf(f) - f[i] + v
<1> DEFINE h == [f EXCEPT ![i] = v]
           g == [n \in 0 .. m |-> IF n < i THEN Sums(f)[n] ELSE Sums(f)[n] - f[i] + v]
<1>1. h \in [1 .. m -> Int]
  OBVIOUS
<1>2. f \in Seq(Int) /\ Len(f) = m /\ h \in Seq(Int) /\ Len(h) = m
  BY <1>1, NumbersAre
<1>3. AddsUp(f, Sums(f)) /\ Sums(f) \in [0 .. m -> Int]
  BY <1>2, SumsAddUp
<1>4. ASSUME NEW n \in 0 .. m PROVE g[n] = IF n = 0 THEN 0 ELSE g[n - 1] + h[n]
  <2>1. CASE n = 0
    BY <1>2, <1>3, <2>1 DEF AddsUp
  <2>2. CASE n # 0
    <3>1. n \in 1 .. m /\ n - 1 \in 0 .. m
      BY <2>2
    <3>2. Sums(f)[n] = Sums(f)[n - 1] + f[n]
      BY <1>2, <1>3, <2>2, <3>1 DEF AddsUp
    <3>3. Sums(f)[n - 1] \in Int /\ f[n] \in Int /\ f[i] \in Int
      BY <1>3, <3>1
    <3>4. CASE n < i
      <4>1. g[n] = Sums(f)[n] /\ g[n - 1] = Sums(f)[n - 1] /\ h[n] = f[n]
        BY <3>1, <3>4
      <4> QED BY <2>2, <3>2, <4>1
    <3>5. CASE n = i
      <4>1. g[n] = Sums(f)[n] - f[i] + v /\ g[n - 1] = Sums(f)[n - 1] /\ h[n] = v
        BY <3>1, <3>5
      <4> HIDE DEF g, h
      <4> QED BY <2>2, <3>2, <3>3, <3>5, <4>1
    <3>6. CASE n > i
      <4>1. g[n] = Sums(f)[n] - f[i] + v /\ g[n - 1] = Sums(f)[n - 1] - f[i] + v /\ h[n] = f[n]
        BY <3>1, <3>6
      <4> HIDE DEF g, h
      <4> QED BY <2>2, <3>2, <3>3, <3>6, <4>1
    <3> QED BY <3>4, <3>5, <3>6
  <2> QED BY <2>1, <2>2
<1>5. AddsUp(h, g)
  <2> HIDE DEF h, g
  <2> QED BY <1>2, <1>4 DEF AddsUp
<1>6. g[m] = SumOf(h)
  <2> HIDE DEF h, g
  <2> QED BY <1>2, <1>5, SumIs
<1> QED BY <1>2, <1>6 DEF SumOf

(* How many belong to A. *)
LEMMA SumCounts ==
  ASSUME NEW m \in Nat, NEW A \in SUBSET (1 .. m)
  PROVE  SumOf([i \in 1 .. m |-> IF i \in A THEN 1 ELSE 0]) = Cardinality(A)
<1> DEFINE h == [i \in 1 .. m |-> IF i \in A THEN 1 ELSE 0]
           g == [n \in 0 .. m |-> Cardinality(A \cap (1 .. n))]
<1>1. h \in [1 .. m -> Int]
  OBVIOUS
<1>2. h \in Seq(Int) /\ Len(h) = m
  BY <1>1, NumbersAre
<1>3. ASSUME NEW n \in 0 .. m PROVE g[n] = IF n = 0 THEN 0 ELSE g[n - 1] + h[n]
  <2>1. CASE n = 0
    <3>1. A \cap (1 .. n) = {}
      BY <2>1
    <3> QED BY <2>1, <3>1, FS_EmptySet
  <2>2. CASE n # 0
    <3>1. n \in 1 .. m /\ n - 1 \in 0 .. m /\ n - 1 \in Int
      BY <2>2
    <3>2. IsFiniteSet(1 .. n - 1)
      BY <3>1, FS_Interval
    <3>3. IsFiniteSet(A \cap (1 .. n - 1)) /\ n \notin A \cap (1 .. n - 1)
      <4>1. n \notin 1 .. n - 1
        BY <3>1
      <4>2. IsFiniteSet(A \cap (1 .. n - 1))
        BY <3>2, FS_Intersection, Zenon
      <4> QED BY <4>1, <4>2
    <3>a. g[n] = Cardinality(A \cap (1 .. n)) /\ g[n - 1] = Cardinality(A \cap (1 .. n - 1))
      BY <3>1
    <3>b. h[n] = IF n \in A THEN 1 ELSE 0
      BY <3>1
    <3> HIDE DEF g, h
    <3>4. Cardinality(A \cap (1 .. n - 1)) \in Nat
      BY <3>3, FS_CardinalityType
    <3>5. CASE n \in A
      <4>1. A \cap (1 .. n) = (A \cap (1 .. n - 1)) \cup {n}
        BY <3>1, <3>5
      <4>2. Cardinality(A \cap (1 .. n)) = Cardinality(A \cap (1 .. n - 1)) + 1
        BY <3>3, <4>1, FS_AddElement
      <4> QED BY <2>2, <3>5, <3>a, <3>b, <4>2
    <3>6. CASE n \notin A
      <4>1. A \cap (1 .. n) = A \cap (1 .. n - 1)
        BY <3>1, <3>6
      <4> QED BY <2>2, <3>4, <3>6, <3>a, <3>b, <4>1
    <3> QED BY <3>5, <3>6
  <2> QED BY <2>1, <2>2
<1>4. AddsUp(h, g)
  <2> HIDE DEF h, g
  <2> QED BY <1>2, <1>3 DEF AddsUp
<1>5. g[m] = SumOf(h)
  <2> HIDE DEF h, g
  <2> QED BY <1>2, <1>4, SumIs
<1>6. g[m] = Cardinality(A)
  <2>1. m \in 0 .. m
    OBVIOUS
  <2>2. \A i : i \in A => i \in 1 .. m
    OBVIOUS
  <2>3. A \cap (1 .. m) = A
    BY <2>2, Zenon
  <2> QED BY <2>1, <2>3
<1> QED BY <1>5, <1>6

-----------------------------------------------------------------------------
(* Allocation. The steps of allocate, by name. *)

Base(shares, u, w) == [i \in DOMAIN shares |-> (u * w[i]) \div SumOf(w)]
Remainder(shares, u, w) == [i \in DOMAIN shares |-> (u * w[i]) % SumOf(w)]
Leftover(shares, u, w) == u - SumOf(Base(shares, u, w))
Ahead(shares, rem, i) == {j \in DOMAIN shares : Before(shares, rem, j, i)}
Rank(shares, rem) == [i \in DOMAIN shares |-> Cardinality(Ahead(shares, rem, i))]
Part(shares, u, w) ==
  [i \in DOMAIN shares |->
     IF Rank(shares, Remainder(shares, u, w))[i] < Leftover(shares, u, w)
     THEN Base(shares, u, w)[i] + 1 ELSE Base(shares, u, w)[i]]

(* m shares with different keys *)
Keyed(shares, m) ==
  /\ m \in Nat \ {0} /\ DOMAIN shares = 1 .. m
  /\ \A i \in 1 .. m : shares[i].key \in Int
  /\ \A i, j \in 1 .. m : shares[i].key = shares[j].key => i = j

Weighted(m, u, w) == w \in [1 .. m -> Nat] /\ SumOf(w) \in Nat \ {0} /\ u \in Nat

(* Every share of u divided by the sum of the weights, with its remainder. *)
Divides(m, u, w, base, rem) ==
  \A i \in 1 .. m : rem[i] < SumOf(w) /\ u * w[i] = (base[i] * SumOf(w)) + rem[i]

WithRemainder(m, rem) == {i \in 1 .. m : rem[i] > 0}
RankedBelow(m, rank, n) == {i \in 1 .. m : rank[i] < n}

LEMMA Divided ==
  ASSUME NEW shares, NEW m, NEW u, NEW w, Keyed(shares, m), Weighted(m, u, w)
  PROVE  /\ Base(shares, u, w) \in [1 .. m -> Nat]
         /\ Remainder(shares, u, w) \in [1 .. m -> Nat]
         /\ Divides(m, u, w, Base(shares, u, w), Remainder(shares, u, w))
<1>1. PICK W \in Nat \ {0} : W = SumOf(w)
  BY DEF Weighted
<1>2. \A i \in 1 .. m : u * w[i] \in Nat
  BY DEF Weighted
<1>3. \A i \in 1 .. m : /\ (u * w[i]) \div W \in Nat /\ (u * w[i]) % W \in 0 .. W - 1
                        /\ u * w[i] = (((u * w[i]) \div W) * W) + ((u * w[i]) % W)
  BY <1>2, DivMod
<1>4. /\ Base(shares, u, w) = [i \in 1 .. m |-> (u * w[i]) \div W]
      /\ Remainder(shares, u, w) = [i \in 1 .. m |-> (u * w[i]) % W]
  BY <1>1, Zenon DEF Base, Remainder, Keyed
<1>5. Base(shares, u, w) \in [1 .. m -> Nat]
  BY <1>3, <1>4
<1>6. Remainder(shares, u, w) \in [1 .. m -> Nat]
  <2>1. \A i \in 1 .. m : (u * w[i]) % W \in Nat
    BY <1>3
  <2> QED BY <1>4, <2>1
<1>7. ASSUME NEW i \in 1 .. m
      PROVE  /\ Remainder(shares, u, w)[i] < W
             /\ u * w[i] = (Base(shares, u, w)[i] * W) + Remainder(shares, u, w)[i]
  <2>1. Base(shares, u, w)[i] = (u * w[i]) \div W /\ Remainder(shares, u, w)[i] = (u * w[i]) % W
    BY <1>4
  <2> QED BY <1>3, <2>1
<1> QED BY <1>1, <1>5, <1>6, <1>7 DEF Divides

(* There is less left over than shares whose division had a remainder. *)
LEMMA LeftoverFits ==
  ASSUME NEW shares, NEW m, NEW u, NEW w, Keyed(shares, m), Weighted(m, u, w),
         NEW rem, rem = Remainder(shares, u, w)
  PROVE  /\ Leftover(shares, u, w) \in Nat
         /\ Leftover(shares, u, w) <= Cardinality(WithRemainder(m, rem))
<1>1. PICK W \in Nat \ {0} : W = SumOf(w)
  BY DEF Weighted
<1>2. m \in Nat /\ w \in [1 .. m -> Int] /\ u \in Nat
  BY DEF Weighted, Keyed
<1>3. PICK b \in [1 .. m -> Nat] : b = Base(shares, u, w)
  BY Divided
<1>4. /\ rem \in [1 .. m -> Nat]
      /\ \A i \in 1 .. m : rem[i] < W /\ u * w[i] = (b[i] * W) + rem[i]
  <2>1. rem \in [1 .. m -> Nat] /\ Divides(m, u, w, b, rem)
    BY <1>3, Divided
  <2> QED BY <1>1, <2>1 DEF Divides
<1>5. b \in [1 .. m -> Int] /\ rem \in [1 .. m -> Int]
  BY <1>4
<1> DEFINE bW == [i \in 1 .. m |-> b[i] * W]
           uw == [i \in 1 .. m |-> w[i] * u]
           B == WithRemainder(m, rem)
           one == [i \in 1 .. m |-> IF i \in B THEN 1 ELSE 0]
           most == [i \in 1 .. m |-> one[i] * (W - 1)]
<1>6. bW \in [1 .. m -> Int] /\ one \in [1 .. m -> Int] /\ most \in [1 .. m -> Int]
  BY <1>5, Commutes
<1>7. uw = [i \in 1 .. m |-> bW[i] + rem[i]]
  BY <1>2, <1>4, Commutes
<1>8. SumOf(b) \in Int /\ SumOf(rem) \in Int
  BY <1>2, <1>5, NumbersAre, SumsAddUp
<1>9. SumOf(uw) = W * u
  <2>1. u \in Int
    BY <1>2
  <2> QED BY <1>1, <1>2, <2>1, SumScaled, Zenon
<1>10. SumOf(bW) = SumOf(b) * W
  <2>1. W \in Int
    OBVIOUS
  <2> QED BY <1>2, <1>5, <2>1, SumScaled, Zenon
<1>11. SumOf(uw) = SumOf(bW) + SumOf(rem)
  <2> HIDE DEF uw, bW
  <2> QED BY <1>2, <1>5, <1>6, <1>7, SumAdded
<1>12. PICK L \in Int : L = u - SumOf(b) /\ L * W = SumOf(rem)
  <2>1. (u - SumOf(b)) * W = u * W - SumOf(b) * W
    BY <1>2, <1>8, Distribute
  <2> QED BY <1>2, <1>8, <1>9, <1>10, <1>11, <2>1, Commutes
<1>13. L >= 0
  <2> DEFINE zero == [i \in 1 .. m |-> rem[i] * 0]
  <2>1. SumOf(zero) = 0
    <3>1. 0 \in Int /\ SumOf(rem) * 0 = 0
      BY <1>8
    <3> QED BY <1>2, <1>5, <3>1, SumScaled, Zenon
  <2>2. zero \in [1 .. m -> Int] /\ \A i \in 1 .. m : zero[i] <= rem[i]
    BY <1>4
  <2> HIDE DEF zero
  <2>3. SumOf(rem) >= 0
    BY <1>2, <1>5, <1>8, <2>1, <2>2, SumOrdered
  <2> QED BY <1>12, <2>3
<1>14. SumOf(rem) <= Cardinality(B) * (W - 1)
  <2>1. SumOf(one) = Cardinality(B)
    <3>1. B \in SUBSET (1 .. m)
      BY DEF WithRemainder
    <3> HIDE DEF B
    <3> QED BY <1>2, <3>1, SumCounts
  <2>2. W - 1 \in Int
    OBVIOUS
  <2>3. SumOf(most) = Cardinality(B) * (W - 1)
    <3>1. one \in [1 .. m -> Int] /\ m \in Nat
      BY <1>2, <1>6
    <3> HIDE DEF one
    <3>2. SumOf([i \in 1 .. m |-> one[i] * (W - 1)]) = SumOf(one) * (W - 1)
      BY <2>2, <3>1, SumScaled, Zenon
    <3> QED BY <2>1, <3>2, Zenon
  <2>4. \A i \in 1 .. m : rem[i] <= most[i]
    BY <1>4 DEF WithRemainder
  <2> HIDE DEF most
  <2> QED BY <1>2, <1>5, <1>6, <2>3, <2>4, SumOrdered
<1>15. Cardinality(B) \in Nat
  <2>1. IsFiniteSet(1 .. m)
    BY <1>2, FS_Interval
  <2>2. IsFiniteSet(B)
    BY <2>1, FS_Subset DEF WithRemainder
  <2> QED BY <2>2, FS_CardinalityType
<1>16. L <= Cardinality(B)
  <2> HIDE DEF B
  <2>1. PICK c \in Nat : c = Cardinality(B)
    BY <1>15
  <2>2. c * (W - 1) <= c * W
    OBVIOUS
  <2>3. L * W <= c * W
    BY <1>8, <1>12, <1>14, <2>1, <2>2
  <2>4. L <= c
    BY <2>3, Orders
  <2> QED BY <2>1, <2>4
<1> QED BY <1>3, <1>12, <1>13, <1>16 DEF Leftover

(* The order of the sort *)
LEMMA Sorted ==
  ASSUME NEW shares, NEW m, Keyed(shares, m), NEW rem \in [1 .. m -> Nat]
  PROVE  /\ \A i \in 1 .. m : ~Before(shares, rem, i, i)
         /\ \A i, j, k \in 1 .. m :
              Before(shares, rem, i, j) /\ Before(shares, rem, j, k) => Before(shares, rem, i, k)
         /\ \A i, j \in 1 .. m : i = j \/ Before(shares, rem, i, j) \/ Before(shares, rem, j, i)
  BY DEF Before, Keyed

LEMMA Ranked ==
  ASSUME NEW shares, NEW m, Keyed(shares, m), NEW rem \in [1 .. m -> Nat]
  PROVE  /\ Rank(shares, rem) \in [1 .. m -> 0 .. m - 1]
         /\ \A i, j \in 1 .. m :
              Before(shares, rem, i, j) => Rank(shares, rem)[i] < Rank(shares, rem)[j]
<1>1. m \in Nat \ {0} /\ DOMAIN shares = 1 .. m
  BY DEF Keyed
<1>2. IsFiniteSet(1 .. m) /\ Cardinality(1 .. m) = m
  BY <1>1, FS_Interval
<1>3. \A i \in 1 .. m : Ahead(shares, rem, i) \in SUBSET (1 .. m)
  BY <1>1 DEF Ahead
<1>4. ASSUME NEW i \in 1 .. m
      PROVE  /\ IsFiniteSet(Ahead(shares, rem, i)) /\ Cardinality(Ahead(shares, rem, i)) \in 0 .. m - 1
  <2>1. /\ IsFiniteSet(Ahead(shares, rem, i))
        /\ Cardinality(Ahead(shares, rem, i)) <= Cardinality(1 .. m)
    BY <1>2, <1>3, FS_Subset, Zenon
  <2>2. i \notin Ahead(shares, rem, i)
    BY Sorted DEF Ahead
  <2>3. Cardinality(Ahead(shares, rem, i)) # m
    BY <1>2, <1>3, <2>2, FS_Subset
  <2>4. Cardinality(Ahead(shares, rem, i)) \in Nat
    BY <2>1, FS_CardinalityType
  <2> QED BY <1>1, <1>2, <2>1, <2>3, <2>4
<1>5. Rank(shares, rem) = [i \in 1 .. m |-> Cardinality(Ahead(shares, rem, i))]
  BY <1>1 DEF Rank
<1>6. Rank(shares, rem) \in [1 .. m -> 0 .. m - 1]
  BY <1>4, <1>5
<1>7. ASSUME NEW i \in 1 .. m, NEW j \in 1 .. m, Before(shares, rem, i, j)
      PROVE  Rank(shares, rem)[i] < Rank(shares, rem)[j]
  <2>1. Ahead(shares, rem, i) \subseteq Ahead(shares, rem, j)
    BY <1>1, <1>7, Sorted DEF Ahead
  <2>2. i \in Ahead(shares, rem, j) /\ i \notin Ahead(shares, rem, i)
    BY <1>1, <1>7, Sorted DEF Ahead
  <2>3. /\ Cardinality(Ahead(shares, rem, i)) <= Cardinality(Ahead(shares, rem, j))
        /\ Cardinality(Ahead(shares, rem, i)) # Cardinality(Ahead(shares, rem, j))
    BY <1>4, <2>1, <2>2, FS_Subset
  <2> QED BY <1>4, <1>5, <2>3
<1> QED BY <1>6, <1>7

(* As many shares have a rank below n as n says: ranks are taken once each. *)
LEMMA RanksCount ==
  ASSUME NEW shares, NEW m, Keyed(shares, m), NEW rem \in [1 .. m -> Nat], NEW n \in 0 .. m
  PROVE  Cardinality(RankedBelow(m, Rank(shares, rem), n)) = n
<1>1. m \in Nat \ {0}
  BY DEF Keyed
<1>2. PICK rank \in [1 .. m -> 0 .. m - 1] : rank = Rank(shares, rem)
  BY Ranked
<1>3. \A i, j \in 1 .. m : rank[i] = rank[j] => i = j
  <2> SUFFICES ASSUME NEW i \in 1 .. m, NEW j \in 1 .. m, rank[i] = rank[j], i # j PROVE FALSE
    OBVIOUS
  <2>1. rank[i] < rank[j] \/ rank[j] < rank[i]
    BY <1>2, Ranked, Sorted
  <2> QED BY <2>1
<1>4. rank \in Injection(1 .. m, 0 .. m - 1)
  BY <1>3 DEF Injection, IsInjective
<1>5. /\ IsFiniteSet(1 .. m) /\ Cardinality(1 .. m) = m
      /\ IsFiniteSet(0 .. m - 1) /\ Cardinality(0 .. m - 1) = m
      /\ IsFiniteSet(0 .. n - 1) /\ Cardinality(0 .. n - 1) = n
  <2>1. /\ 0 \in Int /\ 1 \in Int /\ m \in Int /\ m - 1 \in Int /\ n - 1 \in Int
        /\ ~(1 > m) /\ ~(0 > m - 1) /\ (m - 1) - 0 + 1 = m /\ m - 1 + 1 = m
    BY <1>1
  <2>2. /\ IsFiniteSet(1 .. m) /\ Cardinality(1 .. m) = m
        /\ IsFiniteSet(0 .. m - 1) /\ Cardinality(0 .. m - 1) = m
    BY <2>1, FS_Interval
  <2>3. IsFiniteSet(0 .. n - 1) /\ Cardinality(0 .. n - 1) = IF 0 > n - 1 THEN 0 ELSE (n - 1) - 0 + 1
    BY <2>1, FS_Interval
  <2> QED BY <1>1, <2>2, <2>3
<1>6. rank \in Surjection(1 .. m, 0 .. m - 1)
  BY <1>4, <1>5, FS_Injection
<1> DEFINE A == {i \in 1 .. m : rank[i] < n}
           f == [i \in A |-> rank[i]]
<1>7. f \in [A -> 0 .. n - 1]
  BY <1>1
<1>8. f \in Injection(A, 0 .. n - 1)
  BY <1>3, <1>7 DEF Injection, IsInjective
<1>9. f \in Surjection(A, 0 .. n - 1)
  <2> SUFFICES ASSUME NEW x \in 0 .. n - 1 PROVE \E i \in A : f[i] = x
    BY <1>7 DEF Surjection
  <2>1. x \in 0 .. m - 1
    BY <1>1
  <2>2. PICK i \in 1 .. m : rank[i] = x
    BY <1>6, <2>1 DEF Surjection
  <2> QED BY <2>2
<1>10. Cardinality(A) = Cardinality(0 .. n - 1)
  <2> HIDE DEF f, A
  <2> QED BY <1>5, <1>8, <1>9, FS_Injection
<1> QED BY <1>2, <1>5, <1>10 DEF RankedBelow

(* Every share gets its floor, or one unit more if its division had a       *)
(* remainder: whoever ranks below the leftover comes before all without.    *)
LEMMA PartIs ==
  ASSUME NEW shares, NEW m, NEW u, NEW w, Keyed(shares, m), Weighted(m, u, w),
         NEW i \in 1 .. m
  PROVE  /\ Part(shares, u, w)[i] \in Nat
         /\ \/ Part(shares, u, w)[i] = Base(shares, u, w)[i]
            \/ /\ Part(shares, u, w)[i] = Base(shares, u, w)[i] + 1
               /\ Remainder(shares, u, w)[i] > 0
<1>1. PICK b \in [1 .. m -> Nat], rem \in [1 .. m -> Nat] :
        b = Base(shares, u, w) /\ rem = Remainder(shares, u, w)
  BY Divided
<1>2. PICK rank \in [1 .. m -> 0 .. m - 1], L \in Nat :
        rank = Rank(shares, rem) /\ L = Leftover(shares, u, w)
  BY <1>1, Ranked, LeftoverFits
<1>3. m \in Nat \ {0} /\ DOMAIN shares = 1 .. m
  BY DEF Keyed
<1>4. Part(shares, u, w)[i] = IF rank[i] < L THEN b[i] + 1 ELSE b[i]
  BY <1>1, <1>2, <1>3 DEF Part
<1>5. ASSUME rem[i] = 0 PROVE ~(rank[i] < L)
  <2> DEFINE B == WithRemainder(m, rem)
  <2>1. B \subseteq Ahead(shares, rem, i)
    BY <1>3, <1>5 DEF Ahead, Before, WithRemainder
  <2>2. IsFiniteSet(Ahead(shares, rem, i))
    <3>1. IsFiniteSet(1 .. m) /\ Ahead(shares, rem, i) \in SUBSET (1 .. m)
      BY <1>3, FS_Interval DEF Ahead
    <3> QED BY <3>1, FS_Subset, Zenon
  <2>3. Cardinality(B) <= Cardinality(Ahead(shares, rem, i))
    <3> HIDE DEF B
    <3> QED BY <2>1, <2>2, FS_Subset
  <2>4. IsFiniteSet(B)
    <3> HIDE DEF B
    <3> QED BY <2>1, <2>2, FS_Subset
  <2>5. Cardinality(B) \in Nat
    BY <2>4, FS_CardinalityType
  <2>6. rank[i] = Cardinality(Ahead(shares, rem, i))
    BY <1>2, <1>3 DEF Rank
  <2>7. L <= Cardinality(B)
    BY <1>1, <1>2, LeftoverFits
  <2> HIDE DEF B
  <2> QED BY <1>2, <2>3, <2>5, <2>6, <2>7
<1> QED BY <1>1, <1>4, <1>5

(* The units left over go to as many shares, so that nothing is lost. *)
LEMMA PartsAddUp ==
  ASSUME NEW shares, NEW m, NEW u, NEW w, Keyed(shares, m), Weighted(m, u, w)
  PROVE  SumOf(Part(shares, u, w)) = u
<1>1. PICK b \in [1 .. m -> Nat], rem \in [1 .. m -> Nat] :
        b = Base(shares, u, w) /\ rem = Remainder(shares, u, w)
  BY Divided
<1>2. PICK rank \in [1 .. m -> 0 .. m - 1], L \in Nat :
        rank = Rank(shares, rem) /\ L = Leftover(shares, u, w)
  BY <1>1, Ranked, LeftoverFits
<1>3. m \in Nat \ {0} /\ DOMAIN shares = 1 .. m /\ m \in Nat /\ u \in Nat
  BY DEF Keyed, Weighted
<1> DEFINE A == RankedBelow(m, rank, L)
           one == [i \in 1 .. m |-> IF i \in A THEN 1 ELSE 0]
<1>4. b \in [1 .. m -> Int] /\ one \in [1 .. m -> Int]
  OBVIOUS
<1>5. Part(shares, u, w) = [i \in 1 .. m |-> b[i] + one[i]]
  <2>1. Part(shares, u, w) = [i \in 1 .. m |-> IF rank[i] < L THEN b[i] + 1 ELSE b[i]]
    BY <1>1, <1>2, <1>3 DEF Part
  <2>2. \A i \in 1 .. m : (IF rank[i] < L THEN b[i] + 1 ELSE b[i]) = b[i] + one[i]
    BY DEF RankedBelow
  <2> HIDE DEF one
  <2> QED BY <2>1, <2>2
<1>6. SumOf(Part(shares, u, w)) = SumOf(b) + SumOf(one)
  <2> HIDE DEF one
  <2>1. SumOf([i \in 1 .. m |-> b[i] + one[i]]) = SumOf(b) + SumOf(one)
    BY <1>3, <1>4, SumAdded, Zenon
  <2> QED BY <1>5, <2>1, Zenon
<1>7. SumOf(one) = Cardinality(A)
  <2>1. A \in SUBSET (1 .. m)
    BY DEF RankedBelow
  <2> HIDE DEF A
  <2> QED BY <1>3, <2>1, SumCounts, Zenon
<1>8. L <= m
  <2> DEFINE B == WithRemainder(m, rem)
  <2>1. IsFiniteSet(1 .. m) /\ Cardinality(1 .. m) = m /\ B \in SUBSET (1 .. m)
    BY <1>3, FS_Interval DEF WithRemainder
  <2>2. L <= Cardinality(B)
    BY <1>1, <1>2, LeftoverFits
  <2> HIDE DEF B
  <2>3. IsFiniteSet(B) /\ Cardinality(B) <= Cardinality(1 .. m)
    BY <2>1, FS_Subset, Zenon
  <2>4. Cardinality(B) \in Nat
    BY <2>3, FS_CardinalityType
  <2> QED BY <1>3, <2>1, <2>2, <2>3, <2>4
<1>9. Cardinality(A) = L
  <2>1. L \in 0 .. m
    BY <1>3, <1>8
  <2> QED BY <1>2, <2>1, RanksCount
<1>10. SumOf(b) \in Int
  BY <1>3, <1>4, NumbersAre, SumsAddUp
<1>11. L = u - SumOf(b)
  BY <1>1, <1>2 DEF Leftover
<1> HIDE DEF A, one
<1> QED BY <1>3, <1>6, <1>7, <1>9, <1>10, <1>11

(* No part is a unit away from its exact share, and more weight is no less. *)
LEMMA PartsAreFair ==
  ASSUME NEW shares, NEW m, NEW u, NEW w, Keyed(shares, m), Weighted(m, u, w)
  PROVE  /\ \A i \in 1 .. m :
              /\ Magnitude(Part(shares, u, w)[i] * SumOf(w) - u * w[i]) < SumOf(w)
              /\ w[i] = 0 => Part(shares, u, w)[i] = 0
         /\ \A i, j \in 1 .. m : w[i] > w[j] => Part(shares, u, w)[i] >= Part(shares, u, w)[j]
<1>1. PICK b \in [1 .. m -> Nat], rem \in [1 .. m -> Nat], W \in Nat \ {0} :
        b = Base(shares, u, w) /\ rem = Remainder(shares, u, w) /\ W = SumOf(w)
  BY Divided DEF Weighted
<1>2. \A i \in 1 .. m : rem[i] < W /\ u * w[i] = (b[i] * W) + rem[i]
  <2>1. Divides(m, u, w, b, rem)
    BY <1>1, Divided
  <2> QED BY <1>1, <2>1 DEF Divides
<1>3. PICK part : part = Part(shares, u, w)
  OBVIOUS
<1>4. ASSUME NEW i \in 1 .. m
      PROVE  part[i] \in Nat /\ (part[i] = b[i] \/ (part[i] = b[i] + 1 /\ rem[i] > 0))
  <2>1. /\ Part(shares, u, w)[i] \in Nat
        /\ \/ Part(shares, u, w)[i] = Base(shares, u, w)[i]
           \/ /\ Part(shares, u, w)[i] = Base(shares, u, w)[i] + 1
              /\ Remainder(shares, u, w)[i] > 0
    BY PartIs
  <2> QED BY <1>1, <1>3, <2>1, Zenon
<1>5. w \in [1 .. m -> Nat] /\ u \in Nat /\ m \in Nat /\ DOMAIN shares = 1 .. m
  BY DEF Weighted, Keyed
<1>6. ASSUME NEW i \in 1 .. m
      PROVE  Magnitude(part[i] * W - u * w[i]) < W /\ (w[i] = 0 => part[i] = 0)
  <2>1. PICK x \in Nat, r \in Nat, q \in Nat : x = b[i] * W /\ r = rem[i] /\ q = b[i]
    <3>1. b[i] \in Nat /\ rem[i] \in Nat
      BY <1>1
    <3>2. b[i] * W \in Nat
      BY <3>1
    <3> QED BY <3>1, <3>2
  <2>a. PICK p \in Nat : p = part[i] /\ (p = q \/ (p = q + 1 /\ r > 0))
    BY <1>4, <2>1
  <2>b. u * w[i] = x + r /\ r < W
    BY <1>2, <2>1
  <2>c. p * W = x \/ (p * W = x + W /\ r > 0)
    BY <2>1, <2>a, Distribute
  <2>2. /\ part[i] * W = x \/ (part[i] * W = x + W /\ r > 0)
        /\ u * w[i] = x + r /\ r < W
    BY <2>a, <2>b, <2>c
  <2>3. Magnitude(part[i] * W - u * w[i]) < W
    BY <2>2 DEF Magnitude
  <2>4. ASSUME w[i] = 0 PROVE part[i] = 0
    <3>1. x + r = 0
      BY <1>5, <2>2, <2>4
    <3>2. r = 0 /\ q * W = 0
      BY <2>1, <3>1
    <3>3. q = 0
      BY <3>2
    <3> QED BY <2>a, <3>2, <3>3
  <2> QED BY <2>3, <2>4
<1>7. ASSUME NEW i \in 1 .. m, NEW j \in 1 .. m, w[i] > w[j]
      PROVE  part[i] >= part[j]
  <2>1. PICK bi \in Nat, bj \in Nat, ri \in Nat, rj \in Nat, wi \in Nat, wj \in Nat :
          bi = b[i] /\ bj = b[j] /\ ri = rem[i] /\ rj = rem[j] /\ wi = w[i] /\ wj = w[j]
    BY <1>1, <1>5
  <2>2. /\ u * wi = (bi * W) + ri /\ u * wj = (bj * W) + rj /\ ri < W /\ rj < W /\ wi > wj
    BY <1>2, <1>7, <2>1
  <2>3. bi >= bj
    <3>1. u * wi >= u * wj
      BY <1>5, <2>2
    <3>2. bj * W < (bi + 1) * W
      <4>1. PICK y \in Int, z \in Int, s \in Int, t \in Int :
              y = bi * W /\ z = bj * W /\ s = u * wi /\ t = u * wj
        BY <1>5, Commutes
      <4>2. (bi + 1) * W = y + W
        BY <4>1, Distribute
      <4>3. s = y + ri /\ t = z + rj /\ ri < W /\ s >= t
        BY <2>2, <3>1, <4>1
      <4> QED BY <4>1, <4>2, <4>3
    <3>3. bj < bi + 1
      BY <3>2, Orders
    <3> QED BY <3>3
  <2>4. CASE bi > bj
    BY <1>4, <2>1, <2>4
  <2>5. CASE bi = bj
    <3>1. CASE u = 0
      <4>1. ri = 0 /\ rj = 0
        <5>1. bi * W \in Nat /\ bj * W \in Nat /\ u * wi = 0 /\ u * wj = 0
          BY <3>1
        <5> QED BY <2>2, <5>1
      <4>2. part[i] = b[i] /\ part[j] = b[j]
        <5>1. ~(rem[i] > 0) /\ ~(rem[j] > 0)
          BY <2>1, <4>1
        <5> QED BY <1>4, <5>1
      <4>3. part[i] = bi /\ part[j] = bj
        BY <2>1, <4>2
      <4> QED BY <2>5, <4>3
    <3>2. CASE u # 0
      <4>1. u * wi > u * wj
        BY <1>5, <2>2, <3>2
      <4>2. ri > rj
        <5>1. PICK y \in Int : y = bi * W
          BY Commutes
        <5>2. PICK s \in Int, t \in Int : s = u * wi /\ t = u * wj
          BY <1>5, Commutes
        <5>3. s = y + ri /\ t = y + rj /\ s > t
          BY <2>2, <2>5, <4>1, <5>1, <5>2
        <5> QED BY <5>3
      <4>3. Before(shares, rem, i, j)
        BY <2>1, <4>2 DEF Before
      <4>4. PICK rank \in [1 .. m -> 0 .. m - 1], L \in Nat :
              rank = Rank(shares, rem) /\ L = Leftover(shares, u, w)
        BY <1>1, Ranked, LeftoverFits
      <4>5. rank[i] < rank[j]
        BY <4>3, <4>4, Ranked
      <4>6. /\ part[i] = IF rank[i] < L THEN b[i] + 1 ELSE b[i]
            /\ part[j] = IF rank[j] < L THEN b[j] + 1 ELSE b[j]
        BY <1>1, <1>3, <1>5, <4>4 DEF Part
      <4>7. PICK k \in Nat, l \in Nat : k = rank[i] /\ l = rank[j] /\ k < l
        BY <1>5, <4>5
      <4>8. part[i] = (IF k < L THEN bi + 1 ELSE bi) /\ part[j] = (IF l < L THEN bj + 1 ELSE bj)
        BY <2>1, <4>6, <4>7
      <4> QED BY <2>5, <4>7, <4>8
    <3> QED BY <3>1, <3>2
  <2> QED BY <2>3, <2>4, <2>5
<1> QED BY <1>1, <1>3, <1>6, <1>7

LEMMA HasMaximum ==
  ASSUME NEW N \in Nat, NEW S \in SUBSET (0 .. N), S # {}
  PROVE  \E x \in S : \A y \in S : y <= x
<1> DEFINE T == {n \in Nat : \A Z \in SUBSET (0 .. n) : Z # {} => \E x \in Z : \A y \in Z : y <= x}
<1>1. 0 \in T
  <2> SUFFICES ASSUME NEW Z \in SUBSET (0 .. 0), Z # {} PROVE \E x \in Z : \A y \in Z : y <= x
    OBVIOUS
  <2>1. \A y \in Z : y = 0
    OBVIOUS
  <2>2. PICK z \in Z : z = 0
    BY <2>1
  <2>3. \A y \in Z : y <= z
    BY <2>1, <2>2
  <2> QED BY <2>3
<1>2. ASSUME NEW n \in T PROVE n + 1 \in T
  <2> SUFFICES ASSUME NEW Z \in SUBSET (0 .. n + 1), Z # {} PROVE \E x \in Z : \A y \in Z : y <= x
    OBVIOUS
  <2>1. CASE n + 1 \in Z
    BY <2>1
  <2>2. CASE n + 1 \notin Z
    <3>1. Z \in SUBSET (0 .. n)
      BY <2>2
    <3> QED BY <3>1
  <2> QED BY <2>1, <2>2
<1>3. T = Nat
  <2>1. T \in SUBSET Nat
    OBVIOUS
  <2> HIDE DEF T
  <2> QED BY <1>1, <1>2, <2>1, SetInduction
<1>4. N \in T
  <2> HIDE DEF T
  <2> QED BY <1>3
<1> QED BY <1>4

(* allocate brings the weights to their largest scale and checks them       *)
(* first.                                                                   *)
Share == [key : Int, weight : [units : Int, scale : 0 .. MaxScale]]

CommonScale(shares) ==
  CHOOSE s \in {shares[i].weight.scale : i \in DOMAIN shares} :
    \A i \in DOMAIN shares : shares[i].weight.scale <= s
Weights(shares) == [i \in DOMAIN shares |-> UnitsAt(shares[i].weight, CommonScale(shares))]

Refuses(shares) ==
  \/ shares = <<>>
  \/ \E i, j \in DOMAIN shares : i # j /\ shares[i].key = shares[j].key
  \/ \E i \in DOMAIN shares : shares[i].weight.units < 0
  \/ \E i \in DOMAIN shares : Rescale(shares[i].weight, CommonScale(shares)) = Rejected
  \/ \A i \in DOMAIN shares : shares[i].weight.units = 0

Signed(total, shares, part) == [i \in DOMAIN shares |-> IF total < 0 THEN -part[i] ELSE part[i]]

LEMMA AllocateGives ==
  ASSUME NEW total, NEW shares
  PROVE  Allocate(total, shares) =
           IF Refuses(shares) THEN Rejected
           ELSE [parts |-> Signed(total, shares, Part(shares, Magnitude(total), Weights(shares)))]
  BY DEF Allocate, Refuses, Signed, Part, Weights, CommonScale, Rank, Ahead, Remainder, Base, Leftover

LEMMA CommonScaleIs ==
  ASSUME NEW shares \in Seq(Share), shares # <<>>
  PROVE  /\ CommonScale(shares) \in 0 .. MaxScale
         /\ \E i \in DOMAIN shares : CommonScale(shares) = shares[i].weight.scale
         /\ \A i \in DOMAIN shares : shares[i].weight.scale <= CommonScale(shares)
<1> DEFINE S == {shares[i].weight.scale : i \in DOMAIN shares}
<1>1. \A i \in DOMAIN shares : shares[i] \in Share
  OBVIOUS
<1>2. S \in SUBSET (0 .. MaxScale)
  BY <1>1 DEF Share
<1>3. S # {}
  <2>1. 1 \in DOMAIN shares
    OBVIOUS
  <2> QED BY <2>1
<1>4. \E s \in S : \A y \in S : y <= s
  <2> HIDE DEF S
  <2> QED BY <1>2, <1>3, HasMaximum, LimitsAssumption
<1>5. \E s \in S : \A i \in DOMAIN shares : shares[i].weight.scale <= s
  BY <1>4
<1>6. CommonScale(shares) \in S /\ \A i \in DOMAIN shares : shares[i].weight.scale <= CommonScale(shares)
  BY <1>5 DEF CommonScale
<1> QED BY <1>2, <1>6

LEMMA SumPositive ==
  ASSUME NEW m \in Nat, NEW f \in [1 .. m -> Nat], NEW i \in 1 .. m, f[i] > 0
  PROVE  SumOf(f) \in Nat \ {0}
<1> DEFINE one == [k \in 1 .. m |-> IF k \in {i} THEN 1 ELSE 0]
<1>1. {i} \in SUBSET (1 .. m) /\ Cardinality({i}) = 1
  BY FS_Singleton
<1>2. SumOf(one) = 1
  BY <1>1, SumCounts, Zenon
<1>3. f \in [1 .. m -> Int] /\ one \in [1 .. m -> Int] /\ \A k \in 1 .. m : one[k] <= f[k]
  OBVIOUS
<1> HIDE DEF one
<1>4. SumOf(one) <= SumOf(f)
  BY <1>3, SumOrdered
<1>5. SumOf(f) \in Int
  BY <1>3, NumbersAre, SumsAddUp
<1> QED BY <1>2, <1>4, <1>5

(* What allocate does not refuse has different keys and weights to divide   *)
(* by.                                                                      *)
LEMMA SharesWeighted ==
  ASSUME NEW shares \in Seq(Share), ~Refuses(shares), NEW u \in Nat
  PROVE  Keyed(shares, Len(shares)) /\ Weighted(Len(shares), u, Weights(shares))
<1>1. PICK m \in Nat : m = Len(shares) /\ DOMAIN shares = 1 .. m
  OBVIOUS
<1>2. shares # <<>> /\ m # 0
  BY <1>1 DEF Refuses
<1>3. \A i \in 1 .. m : shares[i] \in Share
  BY <1>1
<1>4. Keyed(shares, m)
  BY <1>1, <1>2, <1>3 DEF Keyed, Refuses, Share
<1>5. PICK s \in Nat : s = CommonScale(shares) /\ \A i \in 1 .. m : shares[i].weight.scale <= s
  BY <1>1, <1>2, CommonScaleIs, LimitsAssumption
<1>6. ASSUME NEW i \in 1 .. m
      PROVE  /\ Weights(shares)[i] \in Nat
             /\ shares[i].weight.units # 0 => Weights(shares)[i] > 0
  <2>1. PICK x \in Nat, c \in Nat : x = shares[i].weight.units /\ c = shares[i].weight.scale
    <3>1. shares[i].weight.units \in Int /\ shares[i].weight.scale \in Nat
      BY <1>3, LimitsAssumption DEF Share
    <3>2. ~(shares[i].weight.units < 0)
      BY <1>1 DEF Refuses
    <3> QED BY <3>1, <3>2
  <2>2. s - c \in Nat
    BY <1>5, <2>1
  <2>3. PICK f \in Nat \ {0} : f = Pow10(s - c)
    BY <2>2, Powers
  <2>4. Weights(shares)[i] = x * f
    BY <1>1, <1>5, <2>1, <2>3 DEF Weights, UnitsAt
  <2>5. x * f \in Nat /\ (x # 0 => x * f > 0)
    OBVIOUS
  <2> QED BY <2>1, <2>4, <2>5
<1>7. Weights(shares) \in [1 .. m -> Nat]
  BY <1>1, <1>6 DEF Weights
<1>8. PICK i \in 1 .. m : shares[i].weight.units # 0
  BY <1>1 DEF Refuses
<1>9. SumOf(Weights(shares)) \in Nat \ {0}
  BY <1>6, <1>7, <1>8, SumPositive
<1> QED BY <1>1, <1>4, <1>7, <1>9 DEF Weighted

(* The order in which the shares are named: any order is reached by         *)
(* changing two places at a time.                                           *)

Swap(m, i, j) == [k \in 1 .. m |-> IF k = i THEN j ELSE IF k = j THEN i ELSE k]
Swapped(m, f, i, j) == [k \in 1 .. m |-> f[Swap(m, i, j)[k]]]

LEMMA SwapTwice ==
  ASSUME NEW m \in Nat, NEW i \in 1 .. m, NEW j \in 1 .. m
  PROVE  /\ Swap(m, i, j) \in [1 .. m -> 1 .. m]
         /\ \A k \in 1 .. m : Swap(m, i, j)[Swap(m, i, j)[k]] = k
  BY DEF Swap

LEMMA SumSwapped ==
  ASSUME NEW m \in Nat, NEW f \in [1 .. m -> Int], NEW i \in 1 .. m, NEW j \in 1 .. m
  PROVE  SumOf(Swapped(m, f, i, j)) = SumOf(f)
<1> DEFINE g == [f EXCEPT ![i] = f[j]]
           h == [g EXCEPT ![j] = f[i]]
<1>1. g \in [1 .. m -> Int] /\ f[i] \in Int /\ f[j] \in Int /\ g[j] = f[j]
  OBVIOUS
<1>2. Swapped(m, f, i, j) = h
  BY DEF Swapped, Swap
<1>3. SumOf(g) = SumOf(f) - f[i] + f[j]
  BY <1>1, SumReplaced
<1>4. SumOf(h) = SumOf(g) - g[j] + f[i]
  <2> HIDE DEF g
  <2> QED BY <1>1, SumReplaced
<1>5. SumOf(f) \in Int
  BY NumbersAre, SumsAddUp
<1> HIDE DEF g, h
<1> QED BY <1>1, <1>2, <1>3, <1>4, <1>5

LEMMA KeyedSwapped ==
  ASSUME NEW shares, NEW m, Keyed(shares, m), NEW i \in 1 .. m, NEW j \in 1 .. m
  PROVE  Keyed(Swapped(m, shares, i, j), m)
<1>1. PICK sw \in [1 .. m -> 1 .. m] : sw = Swap(m, i, j) /\ \A k \in 1 .. m : sw[sw[k]] = k
  <2>1. m \in Nat
    BY DEF Keyed
  <2> QED BY <2>1, SwapTwice
<1>2. DOMAIN Swapped(m, shares, i, j) = 1 .. m /\ \A k \in 1 .. m : Swapped(m, shares, i, j)[k] = shares[sw[k]]
  BY <1>1 DEF Swapped
<1>3. \A k \in 1 .. m : Swapped(m, shares, i, j)[k].key \in Int
  BY <1>2 DEF Keyed
<1>4. ASSUME NEW k \in 1 .. m, NEW l \in 1 .. m,
             Swapped(m, shares, i, j)[k].key = Swapped(m, shares, i, j)[l].key
      PROVE  k = l
  <2>1. sw[k] = sw[l]
    <3>1. sw[k] \in 1 .. m /\ sw[l] \in 1 .. m /\ shares[sw[k]].key = shares[sw[l]].key
      BY <1>2, <1>4
    <3> QED BY <3>1 DEF Keyed
  <2> QED BY <1>1, <2>1
<1> QED BY <1>2, <1>3, <1>4 DEF Keyed

(* The ranks depend on remainders and keys only, so the parts move with     *)
(* their shares.                                                            *)
LEMMA PartSwapped ==
  ASSUME NEW shares, NEW m, NEW u, NEW w, Keyed(shares, m), Weighted(m, u, w),
         NEW i \in 1 .. m, NEW j \in 1 .. m
  PROVE  Part(Swapped(m, shares, i, j), u, Swapped(m, w, i, j)) = Swapped(m, Part(shares, u, w), i, j)
<1>1. PICK sw \in [1 .. m -> 1 .. m] : sw = Swap(m, i, j) /\ \A k \in 1 .. m : sw[sw[k]] = k
  <2>1. m \in Nat
    BY DEF Keyed
  <2> QED BY <2>1, SwapTwice
<1>2. PICK shares2, w2 : shares2 = Swapped(m, shares, i, j) /\ w2 = Swapped(m, w, i, j)
  OBVIOUS
<1>3. /\ DOMAIN shares2 = 1 .. m /\ \A k \in 1 .. m : shares2[k] = shares[sw[k]]
      /\ w2 = [k \in 1 .. m |-> w[sw[k]]]
  BY <1>1, <1>2 DEF Swapped
<1>4. m \in Nat /\ DOMAIN shares = 1 .. m /\ w \in [1 .. m -> Nat] /\ w \in [1 .. m -> Int]
  <2>1. m \in Nat /\ DOMAIN shares = 1 .. m
    BY DEF Keyed
  <2>2. w \in [1 .. m -> Nat]
    BY DEF Weighted
  <2> QED BY <2>1, <2>2
<1>5. SumOf(w2) = SumOf(w)
  BY <1>2, <1>4, SumSwapped
<1>6. PICK b \in [1 .. m -> Nat], rem \in [1 .. m -> Nat] :
        b = Base(shares, u, w) /\ rem = Remainder(shares, u, w)
  BY Divided
<1>7. /\ b = [k \in 1 .. m |-> (u * w[k]) \div SumOf(w)]
      /\ rem = [k \in 1 .. m |-> (u * w[k]) % SumOf(w)]
  BY <1>4, <1>6, Zenon DEF Base, Remainder
<1>8. Base(shares2, u, w2) = [k \in 1 .. m |-> b[sw[k]]]
  <2>1. Base(shares2, u, w2) = [k \in 1 .. m |-> (u * w2[k]) \div SumOf(w2)]
    BY <1>3, Zenon DEF Base
  <2>2. \A k \in 1 .. m : (u * w2[k]) \div SumOf(w2) = b[sw[k]]
    <3> SUFFICES ASSUME NEW k \in 1 .. m PROVE (u * w2[k]) \div SumOf(w2) = b[sw[k]]
      OBVIOUS
    <3>1. w2[k] = w[sw[k]] /\ sw[k] \in 1 .. m
      BY <1>3
    <3>2. b[sw[k]] = (u * w[sw[k]]) \div SumOf(w)
      BY <1>7, <3>1
    <3> QED BY <1>5, <3>1, <3>2, Zenon
  <2> QED BY <2>1, <2>2, Zenon
<1>9. Remainder(shares2, u, w2) = [k \in 1 .. m |-> rem[sw[k]]]
  <2>1. Remainder(shares2, u, w2) = [k \in 1 .. m |-> (u * w2[k]) % SumOf(w2)]
    BY <1>3, Zenon DEF Remainder
  <2>2. \A k \in 1 .. m : (u * w2[k]) % SumOf(w2) = rem[sw[k]]
    <3> SUFFICES ASSUME NEW k \in 1 .. m PROVE (u * w2[k]) % SumOf(w2) = rem[sw[k]]
      OBVIOUS
    <3>1. w2[k] = w[sw[k]] /\ sw[k] \in 1 .. m
      BY <1>3
    <3>2. rem[sw[k]] = (u * w[sw[k]]) % SumOf(w)
      BY <1>7, <3>1
    <3> QED BY <1>5, <3>1, <3>2, Zenon
  <2> QED BY <2>1, <2>2, Zenon
<1>10. Leftover(shares2, u, w2) = Leftover(shares, u, w)
  <2>1. Base(shares2, u, w2) = Swapped(m, b, i, j)
    BY <1>1, <1>8, Zenon DEF Swapped
  <2>2. b \in [1 .. m -> Int]
    OBVIOUS
  <2>3. SumOf(Base(shares2, u, w2)) = SumOf(b)
    <3>1. SumOf(Swapped(m, b, i, j)) = SumOf(b)
      BY <1>4, <2>2, SumSwapped, Zenon
    <3> QED BY <2>1, <3>1, Zenon
  <2> QED BY <1>6, <2>3 DEF Leftover
<1>11. PICK rem2 : rem2 = Remainder(shares2, u, w2) /\ \A k \in 1 .. m : rem2[k] = rem[sw[k]]
  BY <1>9
<1>12. ASSUME NEW k \in 1 .. m PROVE Rank(shares2, rem2)[k] = Rank(shares, rem)[sw[k]]
  <2> DEFINE S == Ahead(shares2, rem2, k)
             T == Ahead(shares, rem, sw[k])
             f == [l \in S |-> sw[l]]
  <2>1. \A l \in 1 .. m : Before(shares2, rem2, l, k) <=> Before(shares, rem, sw[l], sw[k])
    BY <1>3, <1>11, Zenon DEF Before
  <2>2. S \subseteq 1 .. m /\ T \subseteq 1 .. m
    BY <1>3, <1>4 DEF Ahead
  <2>3. \A l \in 1 .. m : l \in S <=> sw[l] \in T
    BY <1>3, <1>4, <2>1 DEF Ahead
  <2> HIDE DEF S, T
  <2>4. f \in [S -> T]
    BY <2>2, <2>3
  <2>5. f \in Injection(S, T)
    BY <1>1, <2>2, <2>4 DEF Injection, IsInjective
  <2>6. f \in Surjection(S, T)
    <3> SUFFICES ASSUME NEW x \in T PROVE \E l \in S : f[l] = x
      BY <2>4 DEF Surjection
    <3>1. x \in 1 .. m /\ sw[x] \in 1 .. m /\ sw[sw[x]] = x
      BY <1>1, <2>2
    <3>2. sw[x] \in S
      BY <2>3, <3>1
    <3> QED BY <3>1, <3>2
  <2>7. IsFiniteSet(S)
    <3>1. IsFiniteSet(1 .. m)
      BY <1>4, FS_Interval
    <3> QED BY <2>2, <3>1, FS_Subset
  <2>8. Cardinality(S) = Cardinality(T)
    <3>1. ExistsBijection(S, T)
      <4> HIDE DEF f
      <4> QED BY <2>5, <2>6 DEF ExistsBijection, Bijection
    <3> QED BY <2>7, <3>1, FS_Bijection
  <2> QED BY <1>3, <1>4, <2>8 DEF Rank, S, T
<1>13. PICK rank2, rank, L : rank2 = Rank(shares2, rem2) /\ rank = Rank(shares, rem) /\ L = Leftover(shares, u, w)
  OBVIOUS
<1>14. Part(shares2, u, w2) = [k \in 1 .. m |-> IF rank2[k] < L THEN b[sw[k]] + 1 ELSE b[sw[k]]]
  <2>1. Part(shares2, u, w2) = [k \in 1 .. m |-> IF rank2[k] < L THEN Base(shares2, u, w2)[k] + 1
                                                 ELSE Base(shares2, u, w2)[k]]
    BY <1>3, <1>10, <1>11, <1>13, Zenon DEF Part
  <2>2. \A k \in 1 .. m : Base(shares2, u, w2)[k] = b[sw[k]]
    BY <1>8
  <2> QED BY <2>1, <2>2, Zenon
<1>15. Part(shares, u, w) = [k \in 1 .. m |-> IF rank[k] < L THEN b[k] + 1 ELSE b[k]]
  BY <1>4, <1>6, <1>13, Zenon DEF Part
<1>16. \A k \in 1 .. m : Part(shares2, u, w2)[k] = Part(shares, u, w)[sw[k]]
  <2> SUFFICES ASSUME NEW k \in 1 .. m PROVE Part(shares2, u, w2)[k] = Part(shares, u, w)[sw[k]]
    OBVIOUS
  <2>1. rank2[k] = rank[sw[k]] /\ sw[k] \in 1 .. m
    BY <1>12, <1>13
  <2>2. Part(shares2, u, w2)[k] = IF rank2[k] < L THEN b[sw[k]] + 1 ELSE b[sw[k]]
    BY <1>14
  <2>3. Part(shares, u, w)[sw[k]] = IF rank2[k] < L THEN b[sw[k]] + 1 ELSE b[sw[k]]
    BY <1>15, <2>1
  <2> QED BY <2>2, <2>3, Zenon
<1>17. Swapped(m, Part(shares, u, w), i, j) = [k \in 1 .. m |-> Part(shares, u, w)[sw[k]]]
  BY <1>1 DEF Swapped
<1>18. Part(shares2, u, w2) = [k \in 1 .. m |-> Part(shares2, u, w2)[k]]
  BY <1>14
<1>19. Part(shares2, u, w2) = [k \in 1 .. m |-> Part(shares, u, w)[sw[k]]]
  BY <1>16, <1>18, Zenon
<1> QED BY <1>2, <1>17, <1>19, Zenon

LEMMA WeightsSwapped ==
  ASSUME NEW m \in Nat, NEW i \in 1 .. m, NEW j \in 1 .. m,
         NEW shares \in Seq(Share), ~Refuses(shares), m = Len(shares)
  PROVE  /\ Weights(Swapped(m, shares, i, j)) = Swapped(m, Weights(shares), i, j)
         /\ ~Refuses(Swapped(m, shares, i, j))
<1>1. m \in Nat /\ DOMAIN shares = 1 .. m /\ shares # <<>> /\ m # 0
  BY DEF Refuses
<1>2. PICK sw \in [1 .. m -> 1 .. m] : sw = Swap(m, i, j) /\ \A k \in 1 .. m : sw[sw[k]] = k
  <2>1. Swap(m, i, j) \in [1 .. m -> 1 .. m]
    BY SwapTwice, Zenon
  <2>2. \A k \in 1 .. m : Swap(m, i, j)[Swap(m, i, j)[k]] = k
    BY DEF Swap
  <2> QED BY <2>1, <2>2, Zenon
<1>3. PICK shares2 : shares2 = Swapped(m, shares, i, j)
  OBVIOUS
<1>4. /\ shares2 = [k \in 1 .. m |-> shares[sw[k]]] /\ DOMAIN shares2 = 1 .. m
      /\ \A k \in 1 .. m : shares2[k] = shares[sw[k]] /\ shares[k] = shares2[sw[k]]
  BY <1>2, <1>3 DEF Swapped
<1>5. shares2 \in Seq(Share) /\ shares2 # <<>>
  <2>1. \A k \in 1 .. m : shares[k] \in Share
    BY <1>1
  <2>2. shares2 \in [1 .. m -> Share]
    BY <1>4, <2>1
  <2> QED BY <1>1, <2>2
<1>6. CommonScale(shares2) = CommonScale(shares)
  <2>1. PICK k \in 1 .. m : CommonScale(shares) = shares[k].weight.scale
    BY <1>1, CommonScaleIs
  <2>2. PICK l \in 1 .. m : CommonScale(shares2) = shares2[l].weight.scale
    BY <1>4, <1>5, CommonScaleIs
  <2>3. CommonScale(shares) <= CommonScale(shares2)
    <3>1. shares[k] = shares2[sw[k]] /\ sw[k] \in DOMAIN shares2
      BY <1>4
    <3>2. shares2[sw[k]].weight.scale <= CommonScale(shares2)
      BY <1>5, <3>1, CommonScaleIs
    <3> QED BY <2>1, <3>1, <3>2
  <2>4. CommonScale(shares2) <= CommonScale(shares)
    <3>1. shares2[l] = shares[sw[l]] /\ sw[l] \in DOMAIN shares
      BY <1>1, <1>4
    <3>2. shares[sw[l]].weight.scale <= CommonScale(shares)
      BY <1>1, <3>1, CommonScaleIs
    <3> QED BY <2>2, <3>1, <3>2
  <2>5. CommonScale(shares) \in Int /\ CommonScale(shares2) \in Int
    BY <1>1, <1>5, CommonScaleIs
  <2> QED BY <2>3, <2>4, <2>5
<1>7. Weights(shares2) = Swapped(m, Weights(shares), i, j)
  <2>1. Weights(shares2) = [k \in 1 .. m |-> UnitsAt(shares2[k].weight, CommonScale(shares))]
    BY <1>4, <1>6 DEF Weights
  <2>2. \A k \in 1 .. m : UnitsAt(shares2[k].weight, CommonScale(shares)) = Weights(shares)[sw[k]]
    <3> SUFFICES ASSUME NEW k \in 1 .. m
                 PROVE  UnitsAt(shares2[k].weight, CommonScale(shares)) = Weights(shares)[sw[k]]
      OBVIOUS
    <3>1. sw[k] \in DOMAIN shares /\ shares2[k] = shares[sw[k]]
      BY <1>1, <1>4
    <3> QED BY <3>1 DEF Weights
  <2>3. Weights(shares2) = [k \in 1 .. m |-> Weights(shares)[sw[k]]]
    BY <2>1, <2>2, Zenon
  <2> QED BY <1>2, <2>3, Zenon DEF Swapped
<1>8. ~Refuses(shares2)
  <2>1. \A k, l \in 1 .. m : shares2[k].key = shares2[l].key => k = l
    <3>1. Keyed(shares, m)
      BY SharesWeighted
    <3>2. Keyed(shares2, m)
      BY <1>3, <3>1, KeyedSwapped
    <3> QED BY <3>2 DEF Keyed
  <2>2. \A k \in 1 .. m : ~(shares2[k].weight.units < 0)
    BY <1>1, <1>4 DEF Refuses
  <2>3. \A k \in 1 .. m : Rescale(shares2[k].weight, CommonScale(shares2)) # Rejected
    BY <1>1, <1>4, <1>6 DEF Refuses
  <2>4. \E k \in 1 .. m : shares2[k].weight.units # 0
    <3>1. PICK k \in 1 .. m : shares[k].weight.units # 0
      BY <1>1 DEF Refuses
    <3>2. sw[k] \in 1 .. m /\ shares2[sw[k]] = shares[k]
      BY <1>4
    <3> QED BY <3>1, <3>2
  <2> QED BY <1>4, <1>5, <2>1, <2>2, <2>3, <2>4 DEF Refuses
<1> QED BY <1>3, <1>7, <1>8

(* Two shares that change places change only the places of their parts. *)
IgnoresOrder(total, s, part) ==
  \A i, j \in DOMAIN s :
    LET swap == [k \in DOMAIN s |-> IF k = i THEN j ELSE IF k = j THEN i ELSE k]
        swapped == Allocate(total, [k \in DOMAIN s |-> s[swap[k]]]).parts
    IN  \A k \in DOMAIN s : swapped[k] = part[swap[k]]

(* allocate of money.ts, for every total and any shares: the parts sum      *)
(* exactly to the total, none is a unit or more from its exact share, no    *)
(* weight means no part, a heavier share never gets less, and the order in  *)
(* which the shares are named does not matter.                              *)
THEOREM AllocationIsFair == MoneySpec => []AllocatesFairly
<1>1. AnswerIsResult => AllocatesFairly
  <2> SUFFICES ASSUME AnswerIsResult, Answered("allocate")
               PROVE  AllocatesFairly
    BY DEF AllocatesFairly
  <2>1. PICK total, shares : total = question.total /\ shares = question.shares
    OBVIOUS
  <2>2. answer = Result(question) /\ IsQuestion(question) /\ question.op = "allocate" /\ answer # Rejected
    BY QuestionsAssumption DEF AnswerIsResult, Answered
  <2>3. total \in Int /\ shares \in Seq(Share)
    BY <2>1, <2>2 DEF IsQuestion, Share
  <2>4. answer = Allocate(total, shares)
    BY <2>1, <2>2 DEF Result
  <2>5. PICK m \in Nat, u \in Nat, w \in {Weights(shares)} :
          m = Len(shares) /\ DOMAIN shares = 1 .. m /\ u = Magnitude(total) /\ w = Weights(shares)
    BY <2>3, MagnitudeFacts
  <2>6. PICK p : p = Part(shares, u, w)
    OBVIOUS
  <2>7. PICK part : part = Signed(total, shares, p) /\ part = answer.parts
    BY <2>2, <2>4, <2>5, <2>6, AllocateGives
  <2>8. ~Refuses(shares)
    BY <2>2, <2>4, AllocateGives
  <2>9. Keyed(shares, m) /\ Weighted(m, u, w)
    BY <2>3, <2>5, <2>8, SharesWeighted
  <2>10. p \in [1 .. m -> Nat] /\ part \in [1 .. m -> Int]
         /\ \A i \in 1 .. m : part[i] = IF total < 0 THEN -p[i] ELSE p[i]
    <3>1. \A i \in 1 .. m : p[i] \in Nat
      BY <2>6, <2>9, PartIs
    <3>2. p = [i \in 1 .. m |-> p[i]]
      BY <2>5, <2>6 DEF Part
    <3>3. part = [i \in 1 .. m |-> IF total < 0 THEN -p[i] ELSE p[i]]
      BY <2>5, <2>7 DEF Signed
    <3> QED BY <3>1, <3>2, <3>3
  <2> DEFINE common == [i \in DOMAIN shares |-> UnitsAt(shares[i].weight, MaxScale)]
  <2>11. PICK f \in Nat \ {0} :
           /\ common = [i \in 1 .. m |-> w[i] * f]
           /\ \A i \in 1 .. m : shares[i].weight.units = 0 => w[i] = 0
    <3>1. PICK s \in Nat : s = CommonScale(shares) /\ s <= MaxScale /\ \A i \in 1 .. m : shares[i].weight.scale <= s
      BY <2>3, <2>5, <2>8, CommonScaleIs, LimitsAssumption DEF Refuses
    <3>2. MaxScale - s \in Nat
      BY <3>1, LimitsAssumption
    <3>3. PICK f \in Nat \ {0} : f = Pow10(MaxScale - s)
      BY <3>2, Powers
    <3>4. ASSUME NEW i \in 1 .. m
          PROVE  /\ UnitsAt(shares[i].weight, MaxScale) = w[i] * f
                 /\ shares[i].weight.units = 0 => w[i] = 0
      <4>1. shares[i] \in Share
        BY <2>3, <2>5
      <4>2. PICK x \in Int, c \in Nat : x = shares[i].weight.units /\ c = shares[i].weight.scale
        BY <4>1, LimitsAssumption DEF Share
      <4>3. s - c \in Nat /\ (s - c) + (MaxScale - s) = MaxScale - c
        BY <3>1, <4>2, LimitsAssumption
      <4>4. PICK y \in Nat : y = Pow10(s - c) /\ Pow10(MaxScale - c) = y * f
        BY <3>2, <3>3, <4>3, Powers, PowersMultiply
      <4>5. w[i] = x * y
        BY <2>5, <3>1, <4>2, <4>4 DEF Weights, UnitsAt
      <4>6. UnitsAt(shares[i].weight, MaxScale) = x * (y * f)
        BY <4>2, <4>4 DEF UnitsAt
      <4> QED BY <4>2, <4>5, <4>6, Commutes
    <3>5. common = [i \in 1 .. m |-> w[i] * f]
      BY <2>5, <3>4
    <3> QED BY <3>4, <3>5
  <2>12. PICK W \in Nat \ {0} : W = SumOf(w) /\ SumOf(common) = W * f
    <3>1. SumOf(w) \in Nat \ {0} /\ w \in [1 .. m -> Int] /\ f \in Int
      BY <2>9 DEF Weighted
    <3>2. SumOf([i \in 1 .. m |-> w[i] * f]) = SumOf(w) * f
      BY <3>1, SumScaled, Zenon
    <3> QED BY <2>11, <3>1, <3>2
  <2>13. SumOf(part) = total
    <3>1. SumOf(p) = u
      BY <2>6, <2>9, PartsAddUp
    <3>2. CASE total < 0
      <4>1. part = [i \in 1 .. m |-> p[i] * (-1)]
        BY <2>10, <3>2
      <4>2. p \in [1 .. m -> Int] /\ -1 \in Int
        BY <2>10
      <4>3. SumOf([i \in 1 .. m |-> p[i] * (-1)]) = SumOf(p) * (-1)
        BY <4>2, SumScaled, Zenon
      <4> QED BY <2>3, <2>5, <3>1, <3>2, <4>1, <4>3 DEF Magnitude
    <3>3. CASE ~(total < 0)
      <4>1. part = p
        BY <2>10, <3>3
      <4> QED BY <2>3, <2>5, <3>1, <3>3, <4>1 DEF Magnitude
    <3> QED BY <3>2, <3>3
  <2>14. ASSUME NEW i \in 1 .. m
         PROVE  /\ Magnitude(part[i] * SumOf(common) - total * common[i]) < SumOf(common)
                /\ shares[i].weight.units = 0 => part[i] = 0
                /\ \A j \in 1 .. m : common[i] > common[j] => Magnitude(part[i]) >= Magnitude(part[j])
    <3>1. \A j \in 1 .. m : w[j] \in Nat /\ p[j] \in Nat /\ common[j] = w[j] * f /\ Magnitude(part[j]) = p[j]
      <4>1. \A j \in 1 .. m : w[j] \in Nat /\ p[j] \in Nat /\ common[j] = w[j] * f
        BY <2>9, <2>10, <2>11 DEF Weighted
      <4>2. \A j \in 1 .. m : Magnitude(part[j]) = p[j]
        BY <2>10 DEF Magnitude
      <4> QED BY <4>1, <4>2
    <3>2. /\ Magnitude(p[i] * W - u * w[i]) < W
          /\ w[i] = 0 => p[i] = 0
          /\ \A j \in 1 .. m : w[i] > w[j] => p[i] >= p[j]
      BY <2>6, <2>9, <2>12, PartsAreFair
    <3>3. Magnitude(part[i] * SumOf(common) - total * common[i]) < SumOf(common)
      <4>1. PICK q \in Nat, v \in Nat, a \in Int, e \in Int, t \in Int :
              q = p[i] /\ v = w[i] /\ a = part[i] /\ e = q * W - u * v /\ t = a * W - total * v
        <5>1. PICK q \in Nat, v \in Nat, a \in Int : q = p[i] /\ v = w[i] /\ a = part[i]
          BY <2>10, <3>1
        <5>2. q * W \in Int /\ u * v \in Int /\ a * W \in Int /\ total * v \in Int
          BY <2>3, Commutes
        <5>3. q * W - u * v \in Int /\ a * W - total * v \in Int
          BY <5>2
        <5> QED BY <5>1, <5>3
      <4>2. Magnitude(t) = Magnitude(e)
        <5>1. CASE total < 0
          <6>1. a = -q /\ total = -u
            BY <2>3, <2>5, <2>10, <4>1, <5>1 DEF Magnitude
          <6>2. t = -e
            BY <4>1, <6>1, Signs
          <6> QED BY <6>2 DEF Magnitude
        <5>2. CASE ~(total < 0)
          <6>1. a = q /\ total = u
            BY <2>3, <2>5, <2>10, <4>1, <5>2 DEF Magnitude
          <6> QED BY <4>1, <6>1
        <5> QED BY <5>1, <5>2
      <4>3. a * (W * f) - total * (v * f) = t * f
        <5>1. PICK aw \in Int, tv \in Int : aw = a * W /\ tv = total * v
          BY <2>3, Commutes
        <5>2. aw * f = a * (W * f) /\ tv * f = total * (v * f)
          BY <2>3, <5>1, Commutes
        <5>3. (aw - tv) * f = aw * f - tv * f
          BY Distribute
        <5>4. t = aw - tv
          BY <4>1, <5>1
        <5> QED BY <5>2, <5>3, <5>4
      <4>4. Magnitude(t * f) = Magnitude(e) * f
        BY <4>2, MagnitudeTimes DEF Magnitude
      <4>5. Magnitude(e) < W /\ Magnitude(e) \in Nat
        BY <3>2, <4>1, MagnitudeFacts
      <4>6. Magnitude(e) * f < W * f
        BY <4>5, Orders
      <4> HIDE DEF common
      <4> QED BY <2>12, <3>1, <4>1, <4>3, <4>4, <4>6
    <3>4. shares[i].weight.units = 0 => part[i] = 0
      BY <2>10, <2>11, <3>2
    <3>5. ASSUME NEW j \in 1 .. m, common[i] > common[j]
          PROVE  Magnitude(part[i]) >= Magnitude(part[j])
      <4>1. w[i] > w[j]
        <5> HIDE DEF common
        <5> QED BY <3>1, <3>5, Orders
      <4> QED BY <3>1, <3>2, <4>1
    <3> QED BY <3>3, <3>4, <3>5
  <2>15. ASSUME NEW i \in 1 .. m, NEW j \in 1 .. m, NEW k \in 1 .. m
         PROVE  Allocate(total, Swapped(m, shares, i, j)).parts[k] = part[Swap(m, i, j)[k]]
    <3>1. PICK shares2 : shares2 = Swapped(m, shares, i, j)
      OBVIOUS
    <3>2. PICK l \in 1 .. m : l = Swap(m, i, j)[k]
      BY DEF Swap
    <3>3. ~Refuses(shares2) /\ Weights(shares2) = Swapped(m, w, i, j) /\ DOMAIN shares2 = 1 .. m
      <4>1. /\ Weights(Swapped(m, shares, i, j)) = Swapped(m, Weights(shares), i, j)
            /\ ~Refuses(Swapped(m, shares, i, j))
        <5>1. m = Len(shares)
          BY <2>5
        <5> QED BY <2>3, <2>8, <5>1, WeightsSwapped
      <4>2. DOMAIN Swapped(m, shares, i, j) = 1 .. m
        BY DEF Swapped
      <4> QED BY <2>5, <3>1, <4>1, <4>2, Zenon
    <3>4. Part(shares2, u, Weights(shares2)) = Swapped(m, p, i, j)
      BY <2>6, <2>9, <3>1, <3>3, PartSwapped
    <3>5. Allocate(total, shares2).parts = Signed(total, shares2, Swapped(m, p, i, j))
      BY <2>5, <3>3, <3>4, AllocateGives
    <3>6. Swapped(m, p, i, j)[k] = p[l]
      BY <3>2 DEF Swapped
    <3>7. Allocate(total, shares2).parts[k] = IF total < 0 THEN -p[l] ELSE p[l]
      BY <3>3, <3>5, <3>6 DEF Signed
    <3> QED BY <2>10, <3>1, <3>2, <3>7
  <2>16. /\ SumOf(part) = question.total
         /\ \A i \in 1 .. m :
              /\ Magnitude(part[i] * SumOf(common) - question.total * common[i]) < SumOf(common)
              /\ shares[i].weight.units = 0 => part[i] = 0
              /\ \A j \in 1 .. m : common[i] > common[j] => Magnitude(part[i]) >= Magnitude(part[j])
    <3> HIDE DEF common
    <3> QED BY <2>1, <2>13, <2>14
  <2>17. IgnoresOrder(total, shares, part)
    <3> SUFFICES ASSUME NEW i \in DOMAIN shares, NEW j \in DOMAIN shares
                 PROVE  LET swap == [k \in DOMAIN shares |-> IF k = i THEN j ELSE IF k = j THEN i ELSE k]
                            swapped == Allocate(total, [k \in DOMAIN shares |-> shares[swap[k]]]).parts
                        IN  \A k \in DOMAIN shares : swapped[k] = part[swap[k]]
      BY Zenon DEF IgnoresOrder
    <3> DEFINE swap == [k \in DOMAIN shares |-> IF k = i THEN j ELSE IF k = j THEN i ELSE k]
    <3>1. swap = Swap(m, i, j)
      BY <2>5, Zenon DEF Swap
    <3>2. [k \in DOMAIN shares |-> shares[swap[k]]] = Swapped(m, shares, i, j)
      BY <2>5, <3>1, Zenon DEF Swapped
    <3> HIDE DEF swap
    <3>3. \A k \in 1 .. m : Allocate(total, Swapped(m, shares, i, j)).parts[k] = part[Swap(m, i, j)[k]]
      BY <2>5, <2>15
    <3>4. \A k \in DOMAIN shares :
            Allocate(total, [k2 \in DOMAIN shares |-> shares[swap[k2]]]).parts[k] = part[swap[k]]
      BY <2>1, <2>5, <3>1, <3>2, <3>3, Zenon
    <3> QED BY <3>4, Zenon DEF swap
  <2>18. /\ SumOf(answer.parts) = question.total
         /\ \A i \in DOMAIN question.shares :
              /\ Magnitude(answer.parts[i] * SumOf(common) - question.total * common[i]) < SumOf(common)
              /\ question.shares[i].weight.units = 0 => answer.parts[i] = 0
              /\ \A j \in DOMAIN question.shares :
                   common[i] > common[j] => Magnitude(answer.parts[i]) >= Magnitude(answer.parts[j])
    <3> HIDE DEF common
    <3> QED BY <2>1, <2>5, <2>7, <2>16, Zenon
  <2>19. IgnoresOrder(question.total, question.shares, answer.parts)
    BY <2>1, <2>7, <2>17, Zenon
  <2> QED BY <2>1, <2>18, <2>19, Zenon DEF AllocatesFairly, IgnoresOrder
<1> QED BY <1>1, OneCalculation, PTL

=============================================================================

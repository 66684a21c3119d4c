----------------------------- MODULE Approvals ------------------------------
(***************************************************************************)
(* Maker-checker approvals (modules/audit-governance): one approval        *)
(* request from its proposal to its settlement, decided and cancelled by   *)
(* concurrent commands.  A command asks for its permission on a connection *)
(* of the grant store's pool, then takes a connection of the approval pool *)
(* for its transaction.  There it reads the request without a lock, asks   *)
(* the grant store (again on its own pool) which of the required           *)
(* permissions the approver holds, decides, and writes with compare-and-   *)
(* set under the append-only trigger of migration 008.  Who holds what     *)
(* follows from the roles of the persona matrix (Authorization), which are *)
(* assigned and revoked meanwhile.                                         *)
(*                                                                         *)
(* Requests share nothing but the pools, so one request is modelled.  No   *)
(* code calls expireApproval: a request past its time stays PENDING.       *)
(***************************************************************************)
EXTENDS Authorization, FiniteSets, SequencesExt

CONSTANTS Attempts, NoAttempt,
          Actors,
          Makers,          \* bound: the actors who call propose
          Humans,          \* actors with an interactive principal and MFA
          Policies,        \* what approval_policy may hold for the action
          Targets,         \* action, resource and version governed
          ScopesOf,        \* the scopes of the other actors' credentials
          InitialRoles,    \* <<actor, persona>>: who has which role before
          ChangingRoles,   \* what role changes may assign or revoke
          MaxRoleChanges, GrantPool, ApprovalPool

Decide == "approval:request:decide"
Propose == "approval:request:propose"
Requirement == [permission : PermissionCatalog, count : Nat \ {0}]
Policy == [required : Nat \ {0}, sod : BOOLEAN, requirements : Seq(Requirement)]

(* What proposeApproval demands of a policy. *)
ValidPolicy(p) ==
  /\ p \in Policy
  /\ \A i, j \in DOMAIN p.requirements :
       p.requirements[i].permission = p.requirements[j].permission => i = j

ASSUME PoliciesAssumption == \A p \in Policies : ValidPolicy(p)
ASSUME RolesAssumption ==
  Makers \subseteq Actors /\ InitialRoles \cup ChangingRoles \subseteq Actors \X Personas
ASSUME ScopesAssumption == ScopesOf \in [Actors \ Humans -> SUBSET PermissionCatalog]
ASSUME NoAttemptAssumption == NoAttempt \notin Attempts
ASSUME PoolsAssumption == GrantPool \in Nat \ {0} /\ ApprovalPool \in Nat \ {0}

VARIABLES request,     \* the approval_request row, committed
          rowLock,     \* the open transaction that wrote the row
          assigned,    \* tenant_role_assignment, the active ones, committed
          roleChanges, \* how often they changed
          expired,     \* whether expires_at is past
          attempt,     \* the commands
          events       \* the request's audit and outbox events, in commit order

vars == <<request, rowLock, assigned, roleChanges, expired, attempt, events>>

NoCredit == "none"
Kinds == {"approve", "reject", "cancel"}
Decision == [actor : Actors, decision : {"approve", "reject"}, credit : PermissionCatalog \cup {NoCredit}]
Statuses == {"PENDING", "APPROVED", "REJECTED", "CANCELLED"}
Request == [status : Statuses, version : Nat \ {0}, decisions : Seq(Decision), maker : Actors,
            target : Targets, sod : BOOLEAN, required : Nat, requirements : Seq(Requirement)]
NoRequest == [status |-> "NONE", version |-> 0, decisions |-> <<>>]

(* late: `now` is at or past expires_at; held: the requirement permissions  *)
(* found so far, asked: how many were asked for;                            *)
(* roles: those the actor had at any moment since the command came.         *)
Begun(x, kind, expected, target) ==
  [pc |-> "begun", actor |-> x, kind |-> kind, expected |-> expected, target |-> target,
   late |-> FALSE, read |-> NoRequest, asked |-> 0, held |-> {},
   roles |-> {persona \in Personas : <<x, persona>> \in assigned}]
Idle == [pc |-> "idle"]
Refused == [pc |-> "refused"]
Done(c) == [pc |-> "done", actor |-> c.actor, kind |-> c.kind]

Init ==
  /\ request = NoRequest
  /\ rowLock = NoAttempt
  /\ assigned = InitialRoles
  /\ roleChanges = 0
  /\ expired = FALSE
  /\ attempt = [a \in Attempts |-> Idle]
  /\ events = <<>>

-----------------------------------------------------------------------------
(* domain/approval.ts *)

(* The sum of the requirements' counts: each asks for so many approvals, *)
(* and this is how many <<requirement, approval>> there are.              *)
Places(requirements) ==
  UNION {{i} \X (1 .. requirements[i].count) : i \in DOMAIN requirements}
TotalCount(requirements) == Cardinality(Places(requirements))

Proposed(policy, maker, target) ==
  [status |-> "PENDING", version |-> 1, decisions |-> <<>>, maker |-> maker,
   target |-> target, sod |-> policy.sod, requirements |-> policy.requirements,
   required |-> IF policy.requirements = <<>> THEN policy.required
                ELSE TotalCount(policy.requirements)]

IsPending(r, expected) == r.version = expected /\ r.status = "PENDING"

ApproveEntries(decisions) == {i \in DOMAIN decisions : decisions[i].decision = "approve"}

CreditedCount(decisions, permission) ==
  Cardinality({i \in ApproveEntries(decisions) : decisions[i].credit = permission})

(* The requirements that this decision may count for. *)
Eligible(r, decision, held) ==
  {i \in DOMAIN r.requirements :
     LET needed == r.requirements[i]
     IN  /\ needed.permission \in held
         /\ decision = "approve" => CreditedCount(r.decisions, needed.permission) < needed.count}

IsEligible(r, decision, held) == r.requirements = <<>> \/ Eligible(r, decision, held) # {}

(* The first of them, in policy order. *)
CreditFor(r, decision, held) ==
  IF r.requirements = <<>> THEN NoCredit
  ELSE r.requirements[Min(Eligible(r, decision, held))].permission

(* Mutation: the last approval is not waited for. *)
IsSatisfiedEarly(r, decisions) ==
  IF r.requirements = <<>> THEN Cardinality(ApproveEntries(decisions)) >= r.required - 1
  ELSE \E i \in DOMAIN r.requirements :
         CreditedCount(decisions, r.requirements[i].permission) >= r.requirements[i].count

IsSatisfied(r, decisions) ==
  IF r.requirements = <<>> THEN Cardinality(ApproveEntries(decisions)) >= r.required
  ELSE \A i \in DOMAIN r.requirements :
         CreditedCount(decisions, r.requirements[i].permission) >= r.requirements[i].count

(* The checks of decideApproval and creditFor. *)
MayDecide(r, c) ==
  /\ IsPending(r, c.expected)
  /\ ~c.late
  /\ c.target = r.target
  /\ r.sod => c.actor # r.maker
  /\ \A i \in DOMAIN r.decisions : r.decisions[i].actor # c.actor
  /\ IsEligible(r, c.kind, c.held)

Decided(r, c) ==
  LET decisions == Append(r.decisions, [actor |-> c.actor, decision |-> c.kind,
                                        credit |-> CreditFor(r, c.kind, c.held)])
  IN  [r EXCEPT !.decisions = decisions, !.version = @ + 1,
                !.status = IF c.kind = "reject" THEN "REJECTED"
                           ELSE IF IsSatisfied(r, decisions) THEN "APPROVED" ELSE "PENDING"]

MayCancel(r, c) == IsPending(r, c.expected) /\ c.actor = r.maker

Cancelled(r) == [r EXCEPT !.status = "CANCELLED", !.version = @ + 1]

-----------------------------------------------------------------------------
(* application/authorization.ts, on the roles as they are now *)

(* loadAssignedRoles *)
AssignedRoles(x) == {RoleTemplates[pair[2]] : pair \in {q \in assigned : q[1] = x}}

Principal(x) ==
  IF x \in Humans THEN [kind |-> "interactive"]
  ELSE [kind |-> "workload", scopes |-> ScopesOf[x]]

(* hasPermission as the approvals call it: about no resource in particular, *)
(* in a composition without constraints of the tenant's own.                *)
HasPermission(x, permission) ==
  IsPermitted(Principal(x), AssignedRoles(x), permission, {}, NoAttributes)

-----------------------------------------------------------------------------
(* The connections *)

AskingPcs == {"asking", "crediting"}
TransactionPcs == {"open", "credit", "crediting", "write", "written"}
Running == AskingPcs \cup TransactionPcs \cup {"begun", "admitted"}
Asking == {a \in Attempts : attempt[a].pc \in AskingPcs}
InTransaction == {a \in Attempts : attempt[a].pc \in TransactionPcs}

(* Mutation: the grant store shares the pool of the approvals. *)
SharedConnectionFree == Cardinality(InTransaction) + Cardinality(Asking) < ApprovalPool

GrantConnectionFree == Cardinality(Asking) < GrantPool
ApprovalConnectionFree == Cardinality(InTransaction) < ApprovalPool

-----------------------------------------------------------------------------
(* One command *)

At(a, pc) == attempt[a].pc = pc
Goes(a, pc) == attempt' = [attempt EXCEPT ![a].pc = pc]

(* propose, whose transaction reads the policy and inserts a row nobody     *)
(* else knows the id of: one step.                                          *)
ProposeRequest(x, policy, target) ==
  /\ request = NoRequest
  /\ HasPermission(x, Propose)
  /\ request' = Proposed(policy, x, target)
  /\ events' = <<[version |-> 1, status |-> "PENDING"]>>
  /\ UNCHANGED <<rowLock, assigned, roleChanges, expired, attempt>>

(* A client that has seen version `expected` calls decide or cancel. *)
Begin(a, x, kind, expected, target) ==
  /\ At(a, "idle")
  /\ expected \in 1 .. request.version
  /\ attempt' = [attempt EXCEPT ![a] = Begun(x, kind, expected, target)]
  /\ UNCHANGED <<request, rowLock, assigned, roleChanges, expired, events>>

(* cancel does not ask for requirements. *)
ReadyToDecide(a) ==
  /\ At(a, "credit")
  /\ attempt[a].kind = "cancel" \/ attempt[a].asked = Len(attempt[a].read.requirements)

(* A connection of the grant store. *)
ConnectGrants(a) ==
  /\ GrantConnectionFree
  /\ \/ At(a, "begun") /\ Goes(a, "asking")
     \/ At(a, "credit") /\ ~ReadyToDecide(a) /\ Goes(a, "crediting")
  /\ UNCHANGED <<request, rowLock, assigned, roleChanges, expired, events>>

(* assertPermission, for decide the principal's kind and assurance, and the *)
(* clock, which is not read again.                                          *)
Authorize(a) ==
  LET c == attempt[a]
      allowed == IF c.kind = "cancel" THEN HasPermission(c.actor, Propose)
                 ELSE HasPermission(c.actor, Decide) /\ c.actor \in Humans
  IN  /\ At(a, "asking")
      /\ attempt' = [attempt EXCEPT ![a] =
                       IF allowed THEN [c EXCEPT !.pc = "admitted", !.late = expired] ELSE Refused]
      /\ UNCHANGED <<request, rowLock, assigned, roleChanges, expired, events>>

(* BEGIN on a connection of the approval pool. *)
OpenTransaction(a) ==
  /\ At(a, "admitted")
  /\ ApprovalConnectionFree
  /\ Goes(a, "open")
  /\ UNCHANGED <<request, rowLock, assigned, roleChanges, expired, events>>

(* load: findById takes no lock. *)
Load(a) ==
  /\ At(a, "open")
  /\ attempt' = [attempt EXCEPT ![a].pc = "credit", ![a].read = request]
  /\ UNCHANGED <<request, rowLock, assigned, roleChanges, expired, events>>

(* hasPermission for the next requirement. *)
AskRequirement(a) ==
  LET permission == attempt[a].read.requirements[attempt[a].asked + 1].permission
  IN  /\ At(a, "crediting")
      /\ attempt' = [attempt EXCEPT ![a].pc = "credit", ![a].asked = @ + 1,
                       ![a].held = IF HasPermission(attempt[a].actor, permission)
                                   THEN @ \cup {permission} ELSE @]
      /\ UNCHANGED <<request, rowLock, assigned, roleChanges, expired, events>>

Allowed(c) == IF c.kind = "cancel" THEN MayCancel(c.read, c) ELSE MayDecide(c.read, c)
Result(c) == IF c.kind = "cancel" THEN Cancelled(c.read) ELSE Decided(c.read, c)

(* decideApproval or cancelApproval, on what was read; Result is the row to *)
(* write.                                                                   *)
Judge(a) ==
  /\ ReadyToDecide(a)
  /\ attempt' = IF Allowed(attempt[a])
                THEN [attempt EXCEPT ![a].pc = "write"]
                ELSE [attempt EXCEPT ![a] = Refused]
  /\ UNCHANGED <<request, rowLock, assigned, roleChanges, expired, events>>

(* Mutation: neither the statement nor the trigger looks at row_version. *)
AcceptsAnyVersion(old, new, expected) == old.status = "PENDING"

(* The WHERE of the update and the trigger approval_request_append_only. *)
Accepts(old, new, expected) ==
  /\ old.version = expected
  /\ old.status = "PENDING"
  /\ new.version = old.version + 1
  /\ IsPrefix(old.decisions, new.decisions)

(* approvals.update: waits for an open transaction that wrote the row, then *)
(* looks at the committed row.                                              *)
Update(a) ==
  /\ At(a, "write")
  /\ rowLock = NoAttempt
  /\ IF Accepts(request, Result(attempt[a]), attempt[a].read.version)
     THEN rowLock' = a /\ Goes(a, "written")
     ELSE rowLock' = rowLock /\ attempt' = [attempt EXCEPT ![a] = Refused]
  /\ UNCHANGED <<request, assigned, roleChanges, expired, events>>

Unlocked(a) == IF rowLock = a THEN NoAttempt ELSE rowLock

(* Mutation: the event names the version that was read. *)
RecordRead(a) == [version |-> attempt[a].read.version, status |-> Result(attempt[a]).status]

(* record: the audit and outbox events of the change. *)
Record(a) == [version |-> Result(attempt[a]).version, status |-> Result(attempt[a]).status]

(* record and COMMIT. *)
Commit(a) ==
  /\ At(a, "written")
  /\ request' = Result(attempt[a])
  /\ events' = Append(events, Record(a))
  /\ rowLock' = Unlocked(a)
  /\ attempt' = [attempt EXCEPT ![a] = Done(attempt[a])]
  /\ UNCHANGED <<assigned, roleChanges, expired>>

(* A statement fails or the connection is lost: ROLLBACK and release. *)
Fail(a) ==
  /\ attempt[a].pc \in Running
  /\ attempt' = [attempt EXCEPT ![a] = Refused]
  /\ rowLock' = Unlocked(a)
  /\ UNCHANGED <<request, assigned, roleChanges, expired, events>>

-----------------------------------------------------------------------------
(* The surroundings *)

(* A role change commits (RoleAdministration): x gains or loses a role. *)
RoleChange(x, persona) ==
  /\ roleChanges < MaxRoleChanges
  /\ roleChanges' = roleChanges + 1
  /\ assigned' = IF <<x, persona>> \in assigned THEN assigned \ {<<x, persona>>}
                 ELSE assigned \cup {<<x, persona>>}
  /\ attempt' = [a \in Attempts |->
                   IF attempt[a].pc \in Running /\ attempt[a].actor = x /\ <<x, persona>> \in assigned'
                   THEN [attempt[a] EXCEPT !.roles = @ \cup {persona}]
                   ELSE attempt[a]]
  /\ UNCHANGED <<request, rowLock, expired, events>>

(* expires_at passes. *)
ExpiryPasses ==
  /\ request # NoRequest
  /\ ~expired
  /\ expired' = TRUE
  /\ UNCHANGED <<request, rowLock, assigned, roleChanges, attempt, events>>

-----------------------------------------------------------------------------

Statement(a) ==
  \/ ConnectGrants(a) \/ Authorize(a) \/ OpenTransaction(a) \/ Load(a)
  \/ AskRequirement(a) \/ Judge(a) \/ Update(a) \/ Commit(a)

Next ==
  \/ \E x \in Makers, policy \in Policies, target \in Targets : ProposeRequest(x, policy, target)
  \/ \E a \in Attempts :
       \/ \E x \in Actors, kind \in Kinds, expected \in 1 .. request.version, target \in Targets :
            Begin(a, x, kind, expected, target)
       \/ Statement(a)
       \/ Fail(a)
  \/ \E change \in ChangingRoles : RoleChange(change[1], change[2])
  \/ ExpiryPasses

Spec == Init /\ [][Next]_vars

-----------------------------------------------------------------------------
(* Safety *)

(* A request is APPROVED exactly when enough people approved it: each       *)
(* decision is another person's, under separation of duties not the         *)
(* maker's; every requirement has its count of approvals credited to it and *)
(* none beyond; one rejection settles it; and while it is open the number   *)
(* of approvals is below required_approvals (decideApproval, creditFor).    *)
StatusFollowsDecisions ==
  LET d == request.decisions
      approving == ApproveEntries(d)
  IN  request # NoRequest =>
        /\ \A i, j \in DOMAIN d : d[i].actor = d[j].actor => i = j
        /\ request.sod => \A i \in DOMAIN d : d[i].actor # request.maker
        /\ (request.status = "REJECTED") <=> (approving # DOMAIN d)
        /\ (request.status = "APPROVED") <=> (Cardinality(approving) = request.required)
        /\ Cardinality(approving) <= request.required
        /\ \A i \in DOMAIN request.requirements :
             CreditedCount(d, request.requirements[i].permission) <= request.requirements[i].count

(* A decision or a cancellation that was answered with success stands for   *)
(* good, although commands decide on a row they did not lock.               *)
AcknowledgedStands ==
  \A a \in Attempts : At(a, "done") =>
    IF attempt[a].kind = "cancel" THEN request.status = "CANCELLED"
    ELSE \E i \in DOMAIN request.decisions :
           /\ request.decisions[i].actor = attempt[a].actor
           /\ request.decisions[i].decision = attempt[a].kind

(* 'The decision, audit fact and outbox event commit in one unit of work':  *)
(* the events number the versions of the request without gap or repetition  *)
(* and the last one tells its status.                                       *)
EventsTellVersions ==
  /\ Len(events) = request.version
  /\ \A i \in 1 .. Len(events) :
       /\ events[i].version = i
       /\ events[i].status = IF i = Len(events) THEN request.status ELSE "PENDING"

(* 'Evaluated now, not at proposal time, so a revoked role cannot still     *)
(* approve': whoever decides had, at some moment of this very command, the  *)
(* role of a persona that decides approvals, and for every side it may be   *)
(* credited for the role that stands for that side: a Finance Controller    *)
(* for billing:invoice:finalize 'without a limit', someone from pricing for *)
(* pricing:rate_card:activate.  (Each at a moment of its own: the reads are *)
(* separate and are not repeated.)  A Billing Administrator, whose limit    *)
(* cannot be judged without an amount, never stands for Finance, and no     *)
(* workload decides whatever its scopes.                                    *)
NamedApproverDecides ==
  \A a \in Attempts : attempt[a].pc \in {"write", "written"} /\ attempt[a].kind # "cancel" =>
    LET Had(personas) == attempt[a].roles \cap personas # {}
    IN  /\ Had({"finance_controller", "product_manager"})
        /\ FinalizeInvoice \in attempt[a].held => Had({"finance_controller"})
        /\ ActivatePricing \in attempt[a].held => Had({"product_manager", "pricing_manager"})

(* A statement that waits for a connection of either pool or for the row. *)
Waits(a) ==
  \/ At(a, "begun") /\ ~GrantConnectionFree
  \/ At(a, "credit") /\ ~ReadyToDecide(a) /\ ~GrantConnectionFree
  \/ At(a, "admitted") /\ ~ApprovalConnectionFree
  \/ At(a, "write") /\ rowLock # NoAttempt

UnderWay == {a \in Attempts : attempt[a].pc \in Running}

(* A command in a transaction waits for a second connection, yet never does *)
(* everyone wait for everyone: those it waits for wait for nothing, since   *)
(* the grant store has a pool of its own.                                   *)
NoCircle == UnderWay # {} => \E a \in UnderWay : ~Waits(a)

(* While a command is under way, some command can take its next step: only  *)
(* these waits hold one up, and never all of them.  Every step moves its    *)
(* command on, so every command ends.                                       *)
NoGridlock == NoCircle /\ \A a \in UnderWay : ENABLED Statement(a) <=> ~Waits(a)

=============================================================================

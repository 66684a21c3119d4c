------------------------- MODULE RoleAdministration -------------------------
(***************************************************************************)
(* Role assignment and revocation in one tenant (application/              *)
(* authorization.ts over infrastructure/postgres/security-persistence.ts   *)
(* and grant-store.ts).  A command asks for `tenant:role:assign` in a read *)
(* transaction of its own, then opens the transaction that locks the role, *)
(* guards the last administrator, changes the assignment and appends the   *)
(* audit and outbox events.  Nothing is checked again in between.          *)
(*                                                                         *)
(* Every writer of an assignment holds its role's lock, so the lock of the *)
(* assignment row itself is never waited for and has no variable.          *)
(***************************************************************************)
EXTENDS Naturals, Sequences, FiniteSets

CONSTANTS Attempts, NoAttempt,
          Actors,
          Roles,               \* rows of tenant_role
          Administrator,       \* ADMINISTRATOR_ROLE
          FirstAdministrator,  \* the administrator provisioning assigns
          ActiveRoles,         \* status = 'active'
          AssigningRoles,      \* grant tenant:role:assign, unlimited
          Workloads            \* hold the permission as a scope of their credential

ASSUME RolesAssumption ==
  /\ Administrator \in Roles
  /\ ActiveRoles \subseteq Roles
  /\ AssigningRoles \subseteq Roles

ASSUME ActorsAssumption ==
  /\ FirstAdministrator \in Actors
  /\ Workloads \subseteq Actors
  /\ IsFiniteSet(Actors)

ASSUME AttemptsAssumption == NoAttempt \notin Attempts

VARIABLES assignment,  \* tenant_role_assignment, committed
          roleLock,    \* the open transaction that holds the role row
          attempt,     \* the commands
          log          \* audit_event and outbox_event, in commit order

roleVars == <<assignment, roleLock, attempt, log>>

Statuses == {"none", "active", "revoked"}
Kinds == {"assigned", "revoked"}

(* began: how much of the log there was when the command arrived. *)
Attempt == [pc : {"idle", "begun", "admitted", "locked", "guarded", "changed", "done", "refused"},
            actor : Actors, kind : Kinds, target : Actors, role : Roles, began : Nat]

NoCommand == [pc |-> "idle", actor |-> FirstAdministrator, kind |-> "assigned",
         target |-> FirstAdministrator, role |-> Administrator, began |-> 0]

Change == [by : Actors, kind : Kinds, target : Actors, role : Roles, began : Nat]

InitialStatus(x, r) == IF x = FirstAdministrator /\ r = Administrator THEN "active" ELSE "none"

RoleInit ==
  /\ assignment = [x \in Actors |-> [r \in Roles |-> InitialStatus(x, r)]]
  /\ roleLock = [r \in Roles |-> NoAttempt]
  /\ attempt = [a \in Attempts |-> NoCommand]
  /\ log = <<>>

-----------------------------------------------------------------------------
(* The statements *)

(* Mutation: the lookup forgets assignment.status = 'active'. *)
LoadAnyRoles(x) == {r \in Roles : assignment[x][r] # "none"}

LoadAssignedRoles(x) == {r \in Roles : assignment[x][r] = "active"}

(* hasPermission("tenant:role:assign"): without resource attributes a       *)
(* limited grant fails closed, so AssigningRoles holds unlimited ones only. *)
HasPermission(x) ==
  \/ x \in Workloads
  \/ LoadAssignedRoles(x) \cap AssigningRoles \cap ActiveRoles # {}

(* countActiveHolders *)
Holders(r) == {x \in Actors : assignment[x][r] = "active"}

At(a, pc) == attempt[a].pc = pc
Goes(a, pc) == attempt' = [attempt EXCEPT ![a].pc = pc]

Unlocked(a) == [r \in Roles |-> IF roleLock[r] = a THEN NoAttempt ELSE roleLock[r]]

-----------------------------------------------------------------------------
(* One command *)

(* A principal calls assignRole or revokeRole. *)
Begin(a, x, kind, target, role) ==
  /\ At(a, "idle")
  /\ attempt' = [attempt EXCEPT ![a] = [pc |-> "begun", actor |-> x, kind |-> kind,
                                        target |-> target, role |-> role, began |-> Len(log)]]
  /\ UNCHANGED <<assignment, roleLock, log>>

(* assertPermission, then the refusal to change one's own roles. *)
Authorize(a) ==
  /\ At(a, "begun")
  /\ IF HasPermission(attempt[a].actor) /\ attempt[a].target # attempt[a].actor
     THEN Goes(a, "admitted")
     ELSE Goes(a, "refused")
  /\ UNCHANGED <<assignment, roleLock, log>>

(* Mutation: findByCode without FOR UPDATE. *)
FindRoleUnlocked(a) ==
  /\ At(a, "admitted")
  /\ attempt[a].role \in ActiveRoles
  /\ Goes(a, "locked")
  /\ UNCHANGED <<assignment, roleLock, log>>

(* findByCode: waits for the role's lock and keeps it. *)
FindRole(a) ==
  LET r == attempt[a].role
  IN  /\ At(a, "admitted")
      /\ r \in ActiveRoles
      /\ roleLock[r] = NoAttempt
      /\ roleLock' = [roleLock EXCEPT ![r] = a]
      /\ Goes(a, "locked")
      /\ UNCHANGED <<assignment, log>>

(* role_not_found, once the row could be read. *)
RoleNotFound(a) ==
  /\ At(a, "admitted")
  /\ attempt[a].role \notin ActiveRoles
  /\ roleLock[attempt[a].role] = NoAttempt
  /\ Goes(a, "refused")
  /\ UNCHANGED <<assignment, roleLock, log>>

IsLastAdministrator(a) ==
  /\ attempt[a].kind = "revoked"
  /\ attempt[a].role = Administrator
  /\ Cardinality(Holders(Administrator)) <= 1

(* Decision D3: the guard, before the write looks at the target. *)
GuardLastAdministrator(a) ==
  /\ At(a, "locked")
  /\ ~IsLastAdministrator(a)
  /\ Goes(a, "guarded")
  /\ UNCHANGED <<assignment, roleLock, log>>

(* Mutation: revoking does not look for an active assignment. *)
ChangesAnyRow(a) ==
  attempt[a].kind = "revoked" \/ assignment[attempt[a].target][attempt[a].role] # "active"

(* insert reactivates a revoked row and refuses an active one; remove wants *)
(* an active one.                                                           *)
ChangesOneRow(a) ==
  (attempt[a].kind = "revoked") <=> (assignment[attempt[a].target][attempt[a].role] = "active")

(* insert or remove: the row changes for others at the commit. *)
ChangeAssignment(a) ==
  /\ At(a, "guarded")
  /\ ChangesOneRow(a)
  /\ Goes(a, "changed")
  /\ UNCHANGED <<assignment, roleLock, log>>

(* last_administrator_protected, role_assignment_exists and                 *)
(* role_assignment_not_found roll the transaction back.                     *)
Refuse(a) ==
  /\ \/ At(a, "locked") /\ IsLastAdministrator(a)
     \/ At(a, "guarded") /\ ~ChangesOneRow(a)
  /\ Goes(a, "refused")
  /\ roleLock' = Unlocked(a)
  /\ UNCHANGED <<assignment, log>>

(* Mutation: the kind of the event is stored as the status of the row. *)
StatusAsKind(kind) == kind

StatusAfter(kind) == IF kind = "assigned" THEN "active" ELSE "revoked"

(* The audit and outbox events and COMMIT. *)
Commit(a) ==
  LET c == attempt[a]
  IN  /\ At(a, "changed")
      /\ assignment' = [assignment EXCEPT ![c.target][c.role] = StatusAfter(c.kind)]
      /\ log' = Append(log, [by |-> c.actor, kind |-> c.kind, target |-> c.target,
                             role |-> c.role, began |-> c.began])
      /\ roleLock' = Unlocked(a)
      /\ Goes(a, "done")

(* A statement fails, or the connection is lost: ROLLBACK. *)
Fail(a) ==
  /\ attempt[a].pc \in {"begun", "admitted", "locked", "guarded", "changed"}
  /\ Goes(a, "refused")
  /\ roleLock' = Unlocked(a)
  /\ UNCHANGED <<assignment, log>>

-----------------------------------------------------------------------------

Step(a) ==
  \/ Authorize(a) \/ FindRole(a) \/ RoleNotFound(a) \/ GuardLastAdministrator(a)
  \/ ChangeAssignment(a) \/ Refuse(a) \/ Commit(a) \/ Fail(a)

RoleNext ==
  \E a \in Attempts :
    \/ \E x, target \in Actors, kind \in Kinds, role \in Roles : Begin(a, x, kind, target, role)
    \/ Step(a)

RoleSpec == RoleInit /\ [][RoleNext]_roleVars

-----------------------------------------------------------------------------
(* Properties *)

(* Assignments, locks, commands and the log are well typed. *)
RoleTypeOK ==
  /\ assignment \in [Actors -> [Roles -> Statuses]]
  /\ roleLock \in [Roles -> Attempts \cup {NoAttempt}]
  /\ attempt \in [Attempts -> Attempt]
  /\ log \in Seq(Change)

(* Decision D3, 'nobody may remove the tenant's last administrator, or the  *)
(* tenant is locked out': whatever administrators do to each other at once, *)
(* somebody holds the role.                                                 *)
AdministratorRemains == Holders(Administrator) # {}

(* What the first n events of l say of an actor's assignment to a role. *)
About(l, n, x, r) == {i \in 1 .. n : l[i].target = x /\ l[i].role = r}
Tells(l, n, x, r, status) ==
  LET about == About(l, n, x, r)
  IN  \/ about = {} /\ status = InitialStatus(x, r)
      \/ \E i \in about : (\A j \in about : j <= i) /\ status = StatusAfter(l[i].kind)

(* 'role change, its audit fact and its event commit together': replaying   *)
(* the events gives the table, and no event repeats what was already so.    *)
LogTellsAssignments ==
  /\ \A x \in Actors, r \in Roles : Tells(log, Len(log), x, r, assignment[x][r])
  /\ \A i \in 1 .. Len(log) :
       (log[i].kind = "revoked") <=> Tells(log, i - 1, log[i].target, log[i].role, "active")

Justified(l, n, x, began) ==
  \/ x \in Workloads
  \/ \E m \in began .. n, r \in AssigningRoles \cap ActiveRoles : Tells(l, m, x, r, "active")

(* 'A revoked role stops working on the next command': whoever changed an   *)
(* assignment held the permission, as the log itself tells it, at some      *)
(* moment after the command arrived and before its commit.  (Not more: a    *)
(* role revoked while the command runs still lets it finish.)               *)
LogJustifiesChanges ==
  \A i \in 1 .. Len(log) : Justified(log, i - 1, log[i].by, log[i].began)

-----------------------------------------------------------------------------
(* The inductive invariant *)

(* The role stays locked from findByCode to the end of the transaction. *)
LocksHeld ==
  \A a \in Attempts : attempt[a].pc \in {"locked", "guarded", "changed"} =>
    roleLock[attempt[a].role] = a

(* What the guard and the write found is still so when they are relied on. *)
ChecksStand ==
  \A a \in Attempts :
    /\ /\ attempt[a].pc \in {"guarded", "changed"}
       /\ attempt[a].kind = "revoked" /\ attempt[a].role = Administrator
       => \E x \in Actors \ {attempt[a].target} : assignment[x][Administrator] = "active"
    /\ At(a, "changed") => ChangesOneRow(a)

(* A command that was let in was justified when it was. *)
AdmittedJustly ==
  \A a \in Attempts :
    /\ attempt[a].began <= Len(log)
    /\ attempt[a].pc \in {"admitted", "locked", "guarded", "changed"} =>
         Justified(log, Len(log), attempt[a].actor, attempt[a].began)

IndInv ==
  /\ RoleTypeOK /\ LocksHeld /\ ChecksStand /\ AdmittedJustly
  /\ AdministratorRemains /\ LogTellsAssignments /\ LogJustifiesChanges

=============================================================================

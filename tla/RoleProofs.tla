----------------------------- MODULE RoleProofs -----------------------------
(***************************************************************************)
(* Proofs about RoleAdministration for every number of actors, roles and   *)
(* concurrent commands.                                                    *)
(***************************************************************************)
EXTENDS RoleAdministration, FiniteSetTheorems, TLAPS

-----------------------------------------------------------------------------
(* Counting holders, and reading the log *)

(* A set that countActiveHolders finds to have more than one member has one *)
(* besides any given actor.                                                 *)
LEMMA AnotherMember ==
  ASSUME NEW S, IsFiniteSet(S), ~(Cardinality(S) <= 1), NEW t
  PROVE  \E x \in S : x # t
  <1>1. IsFiniteSet(S \ {t}) /\ Cardinality(S) \in Nat /\ Cardinality(S \ {t}) \in Nat
    BY FS_CardinalityType, FS_RemoveElement
  <1>2. Cardinality(S \ {t}) >= 1
    BY <1>1, FS_RemoveElement
  <1>3. S \ {t} # {}
    BY <1>1, <1>2, FS_EmptySet
  <1>. QED BY <1>3

(* An event appended later does not change what the earlier ones tell. *)
LEMMA TellsKept ==
  ASSUME NEW l \in Seq(Change), NEW e \in Change, NEW n \in 0 .. Len(l), NEW x, NEW r, NEW s
  PROVE  Tells(Append(l, e), n, x, r, s) <=> Tells(l, n, x, r, s)
  <1>1. \A i \in 1 .. n : Append(l, e)[i] = l[i]
    OBVIOUS
  <1>2. About(Append(l, e), n, x, r) = About(l, n, x, r)
    BY <1>1 DEF About
  <1>3. \A i \in About(l, n, x, r) : i \in 1 .. n
    BY DEF About
  <1>. QED BY <1>1, <1>2, <1>3 DEF Tells

(* An appended event tells its own assignment and leaves the others. *)
LEMMA TellsNew ==
  ASSUME NEW l \in Seq(Change), NEW e \in Change, NEW x, NEW r, NEW s,
         IF x = e.target /\ r = e.role THEN s = StatusAfter(e.kind) ELSE Tells(l, Len(l), x, r, s)
  PROVE  Tells(Append(l, e), Len(l) + 1, x, r, s)
  <1>. DEFINE m == Append(l, e)
              n == Len(l)
  <1>1. n \in Nat /\ m[n + 1] = e /\ \A i \in 1 .. n : m[i] = l[i]
    OBVIOUS
  <1>2. CASE x = e.target /\ r = e.role
    <2>1. n + 1 \in About(m, n + 1, x, r)
      BY <1>1, <1>2 DEF About
    <2>2. \A j \in About(m, n + 1, x, r) : j <= n + 1
      BY <1>1 DEF About
    <2>3. s = StatusAfter(m[n + 1].kind)
      BY <1>1, <1>2
    <2>. QED BY <2>1, <2>2, <2>3 DEF Tells
  <1>3. CASE ~(x = e.target /\ r = e.role)
    <2>1. About(m, n + 1, x, r) = About(l, n, x, r)
      BY <1>1, <1>3 DEF About
    <2>2. \A i \in About(l, n, x, r) : m[i] = l[i]
      BY <1>1 DEF About
    <2>3. Tells(l, n, x, r, s)
      BY <1>3
    <2>. QED BY <2>1, <2>2, <2>3 DEF Tells
  <1>. QED BY <1>2, <1>3

(* The log tells one status. *)
LEMMA TellsOne ==
  ASSUME NEW l, NEW n \in Nat, NEW x, NEW r, NEW s, NEW t,
         Tells(l, n, x, r, s), Tells(l, n, x, r, t)
  PROVE  s = t
  <1>1. \A i, j \in About(l, n, x, r) : i <= j /\ j <= i => i = j
    BY DEF About
  <1>. QED BY <1>1 DEF Tells

(* What was justified remains justified. *)
LEMMA JustifiedKept ==
  ASSUME NEW l \in Seq(Change), NEW e \in Change, NEW n \in 0 .. Len(l), NEW x,
         NEW began \in Nat, Justified(l, n, x, began)
  PROVE  /\ Justified(Append(l, e), n, x, began)
         /\ Justified(Append(l, e), n + 1, x, began)
  <1>1. CASE x \in Workloads
    BY <1>1 DEF Justified
  <1>2. CASE x \notin Workloads
    <2>1. PICK m \in began .. n, r \in AssigningRoles \cap ActiveRoles : Tells(l, m, x, r, "active")
      BY <1>2 DEF Justified
    <2>2. m \in 0 .. Len(l) /\ m \in began .. n + 1
      OBVIOUS
    <2>3. Tells(Append(l, e), m, x, r, "active")
      BY <2>1, <2>2, TellsKept
    <2>. QED BY <2>2, <2>3 DEF Justified
  <1>. QED BY <1>1, <1>2

-----------------------------------------------------------------------------
(* The steps, one by one, preserve the inductive invariant *)

(* A transaction that ends leaves the locks of the others alone. *)
LEMMA UnlockedRoles ==
  ASSUME RoleTypeOK, NEW a \in Attempts
  PROVE  /\ Unlocked(a) \in [Roles -> Attempts \cup {NoAttempt}]
         /\ \A r \in Roles : roleLock[r] # a => Unlocked(a)[r] = roleLock[r]
  BY DEF RoleTypeOK, Unlocked

(* A step of command a that leaves the assignments and the log alone        *)
(* preserves the invariant if the command's new state does and the locks of *)
(* the others stay.                                                         *)
LEMMA QuietStep ==
  ASSUME IndInv, NEW a \in Attempts, NEW next \in Attempt,
         attempt' = [attempt EXCEPT ![a] = next],
         UNCHANGED <<assignment, log>>,
         roleLock' \in [Roles -> Attempts \cup {NoAttempt}],
         \A b \in Attempts \ {a} :
           roleLock[attempt[b].role] = b => roleLock'[attempt[b].role] = b,
         next.pc \in {"locked", "guarded", "changed"} => roleLock'[next.role] = a,
         next.pc \in {"guarded", "changed"} /\ next.kind = "revoked" /\ next.role = Administrator =>
           \E x \in Actors \ {next.target} : assignment[x][Administrator] = "active",
         next.pc = "changed" =>
           ((next.kind = "revoked") <=> (assignment[next.target][next.role] = "active")),
         next.began <= Len(log),
         next.pc \in {"admitted", "locked", "guarded", "changed"} =>
           Justified(log, Len(log), next.actor, next.began)
  PROVE  IndInv'
  <1>1. RoleTypeOK'
    BY DEF IndInv, RoleTypeOK
  <1>2. attempt'[a] = next /\ \A b \in Attempts \ {a} : attempt'[b] = attempt[b]
    BY DEF IndInv, RoleTypeOK
  <1>3. LocksHeld'
    BY <1>2 DEF IndInv, LocksHeld
  <1>4. ChecksStand'
    BY <1>2 DEF IndInv, ChecksStand, ChangesOneRow, At
  <1>5. AdmittedJustly'
    BY <1>2 DEF IndInv, AdmittedJustly
  <1>6. AdministratorRemains' /\ LogTellsAssignments' /\ LogJustifiesChanges'
    BY DEF IndInv, AdministratorRemains, Holders, LogTellsAssignments, LogJustifiesChanges
  <1>. QED BY <1>1, <1>3, <1>4, <1>5, <1>6 DEF IndInv

LEMMA BeginStep ==
  ASSUME IndInv, NEW a \in Attempts, NEW x \in Actors, NEW target \in Actors,
         NEW kind \in Kinds, NEW role \in Roles, Begin(a, x, kind, target, role)
  PROVE  IndInv'
  <1>. DEFINE next == [pc |-> "begun", actor |-> x, kind |-> kind, target |-> target,
                       role |-> role, began |-> Len(log)]
  <1>1. Len(log) \in Nat
    BY DEF IndInv, RoleTypeOK
  <1>2. next \in Attempt
    BY <1>1 DEF Attempt
  <1>3. /\ attempt' = [attempt EXCEPT ![a] = next]
        /\ UNCHANGED <<assignment, log, roleLock>>
    BY DEF Begin
  <1>4. roleLock' \in [Roles -> Attempts \cup {NoAttempt}]
    BY <1>3 DEF IndInv, RoleTypeOK
  <1>5. next.pc = "begun" /\ next.began <= Len(log)
    BY <1>1
  <1>. HIDE DEF next
  <1>. QED BY <1>2, <1>3, <1>4, <1>5, QuietStep

(* The state of a command after it moved on. *)
LEMMA MovedOn ==
  ASSUME RoleTypeOK, NEW a \in Attempts, NEW pc, [attempt[a] EXCEPT !.pc = pc] \in Attempt,
         Goes(a, pc)
  PROVE  /\ attempt' = [attempt EXCEPT ![a] = [attempt[a] EXCEPT !.pc = pc]]
         /\ [attempt[a] EXCEPT !.pc = pc].pc = pc
         /\ [attempt[a] EXCEPT !.pc = pc].actor = attempt[a].actor
         /\ [attempt[a] EXCEPT !.pc = pc].kind = attempt[a].kind
         /\ [attempt[a] EXCEPT !.pc = pc].target = attempt[a].target
         /\ [attempt[a] EXCEPT !.pc = pc].role = attempt[a].role
         /\ [attempt[a] EXCEPT !.pc = pc].began = attempt[a].began
  BY DEF RoleTypeOK, Attempt, Goes

(* A refused or failed command gives its lock back. *)
LEMMA EndStep ==
  ASSUME IndInv, NEW a \in Attempts, Goes(a, "refused"),
         roleLock' = Unlocked(a) \/ roleLock' = roleLock, UNCHANGED <<assignment, log>>
  PROVE  IndInv'
  <1>. DEFINE next == [attempt[a] EXCEPT !.pc = "refused"]
  <1>1. next \in Attempt
    BY DEF IndInv, RoleTypeOK, Attempt
  <1>2. /\ attempt' = [attempt EXCEPT ![a] = next]
        /\ next.pc = "refused" /\ next.began = attempt[a].began
    BY <1>1, MovedOn DEF IndInv
  <1>3. roleLock' \in [Roles -> Attempts \cup {NoAttempt}]
    BY UnlockedRoles DEF IndInv, RoleTypeOK
  <1>4. \A b \in Attempts \ {a} : attempt[b].role \in Roles
    BY DEF IndInv, RoleTypeOK, Attempt
  <1>5. \A b \in Attempts \ {a} :
          roleLock[attempt[b].role] = b => roleLock'[attempt[b].role] = b
    BY <1>4, UnlockedRoles DEF IndInv
  <1>6. next.began <= Len(log)
    BY <1>2 DEF IndInv, AdmittedJustly
  <1>. HIDE DEF next
  <1>. QED BY <1>1, <1>2, <1>3, <1>5, <1>6, QuietStep

(* The permission is read from the committed table, which the log tells. *)
LEMMA AuthorizeStep ==
  ASSUME IndInv, NEW a \in Attempts, Authorize(a)
  PROVE  IndInv'
  <1>1. CASE Goes(a, "refused")
    BY <1>1, EndStep DEF Authorize
  <1>2. CASE HasPermission(attempt[a].actor) /\ Goes(a, "admitted")
    <2>. DEFINE next == [attempt[a] EXCEPT !.pc = "admitted"]
    <2>1. next \in Attempt
      BY DEF IndInv, RoleTypeOK, Attempt
    <2>2. /\ attempt' = [attempt EXCEPT ![a] = next] /\ next.pc = "admitted"
          /\ next.actor = attempt[a].actor /\ next.began = attempt[a].began
      BY <1>2, <2>1, MovedOn DEF IndInv
    <2>3. next.began <= Len(log) /\ next.began \in Nat /\ Len(log) \in Nat
      BY <2>1, <2>2 DEF IndInv, AdmittedJustly, RoleTypeOK, Attempt
    <2>4. Justified(log, Len(log), next.actor, next.began)
      <3>1. CASE attempt[a].actor \in Workloads
        BY <2>2, <3>1 DEF Justified
      <3>2. CASE attempt[a].actor \notin Workloads
        <4>1. PICK r \in AssigningRoles \cap ActiveRoles : r \in LoadAssignedRoles(attempt[a].actor)
          BY <1>2, <3>2 DEF HasPermission
        <4>2. r \in Roles /\ assignment[attempt[a].actor][r] = "active"
          BY <4>1 DEF LoadAssignedRoles
        <4>3. attempt[a].actor \in Actors
          BY DEF IndInv, RoleTypeOK, Attempt
        <4>4. Tells(log, Len(log), attempt[a].actor, r, "active")
          BY <4>2, <4>3 DEF IndInv, LogTellsAssignments
        <4>. QED BY <2>2, <2>3, <4>1, <4>4 DEF Justified
      <3>. QED BY <3>1, <3>2
    <2>5. UNCHANGED <<assignment, log, roleLock>>
      BY DEF Authorize
    <2>6. roleLock' \in [Roles -> Attempts \cup {NoAttempt}]
      BY <2>5 DEF IndInv, RoleTypeOK
    <2>. HIDE DEF next
    <2>. QED BY <2>1, <2>2, <2>3, <2>4, <2>5, <2>6, QuietStep
  <1>. QED BY <1>1, <1>2 DEF Authorize

LEMMA FindRoleStep ==
  ASSUME IndInv, NEW a \in Attempts, FindRole(a)
  PROVE  IndInv'
  <1>. DEFINE next == [attempt[a] EXCEPT !.pc = "locked"]
  <1>1. next \in Attempt /\ \A b \in Attempts : attempt[b].role \in Roles
    BY DEF IndInv, RoleTypeOK, Attempt
  <1>2. /\ attempt' = [attempt EXCEPT ![a] = next] /\ next.pc = "locked"
        /\ next.actor = attempt[a].actor /\ next.began = attempt[a].began
        /\ next.role = attempt[a].role
    BY <1>1, MovedOn DEF IndInv, FindRole
  <1>3. next.began <= Len(log) /\ Justified(log, Len(log), next.actor, next.began)
    BY <1>2 DEF IndInv, AdmittedJustly, FindRole, At
  <1>4. /\ roleLock' \in [Roles -> Attempts \cup {NoAttempt}]
        /\ roleLock'[next.role] = a
        /\ \A b \in Attempts \ {a} :
             roleLock[attempt[b].role] = b => roleLock'[attempt[b].role] = b
    BY <1>1, <1>2, AttemptsAssumption DEF IndInv, RoleTypeOK, FindRole
  <1>5. UNCHANGED <<assignment, log>>
    BY DEF FindRole
  <1>. HIDE DEF next
  <1>. QED BY <1>2, <1>3, <1>4, <1>5, <1>1, QuietStep

(* The guard leaves a holder besides the target. *)
LEMMA GuardStep ==
  ASSUME IndInv, NEW a \in Attempts, GuardLastAdministrator(a)
  PROVE  IndInv'
  <1>. DEFINE next == [attempt[a] EXCEPT !.pc = "guarded"]
  <1>1. next \in Attempt
    BY DEF IndInv, RoleTypeOK, Attempt
  <1>2. /\ attempt' = [attempt EXCEPT ![a] = next] /\ next.pc = "guarded"
        /\ next.actor = attempt[a].actor /\ next.began = attempt[a].began
        /\ next.role = attempt[a].role /\ next.kind = attempt[a].kind
        /\ next.target = attempt[a].target
    BY <1>1, MovedOn DEF IndInv, GuardLastAdministrator
  <1>3. UNCHANGED <<assignment, log, roleLock>>
    BY DEF GuardLastAdministrator
  <1>4. next.began <= Len(log) /\ Justified(log, Len(log), next.actor, next.began)
    BY <1>2 DEF IndInv, AdmittedJustly, GuardLastAdministrator, At
  <1>5. roleLock' \in [Roles -> Attempts \cup {NoAttempt}] /\ roleLock'[next.role] = a
    BY <1>2, <1>3 DEF IndInv, RoleTypeOK, LocksHeld, GuardLastAdministrator, At
  <1>6. ASSUME next.kind = "revoked", next.role = Administrator
        PROVE  \E x \in Actors \ {next.target} : assignment[x][Administrator] = "active"
    <2>1. ~(Cardinality(Holders(Administrator)) <= 1)
      BY <1>2, <1>6 DEF GuardLastAdministrator, IsLastAdministrator
    <2>2. IsFiniteSet(Holders(Administrator))
      BY FS_Subset, ActorsAssumption DEF Holders
    <2>3. \E x \in Holders(Administrator) : x # next.target
      BY <2>1, <2>2, AnotherMember
    <2>. QED BY <2>3 DEF Holders
  <1>. HIDE DEF next
  <1>. QED BY <1>1, <1>2, <1>3, <1>4, <1>5, <1>6, QuietStep

LEMMA ChangeStep ==
  ASSUME IndInv, NEW a \in Attempts, ChangeAssignment(a)
  PROVE  IndInv'
  <1>. DEFINE next == [attempt[a] EXCEPT !.pc = "changed"]
  <1>1. next \in Attempt
    BY DEF IndInv, RoleTypeOK, Attempt
  <1>2. /\ attempt' = [attempt EXCEPT ![a] = next] /\ next.pc = "changed"
        /\ next.actor = attempt[a].actor /\ next.began = attempt[a].began
        /\ next.role = attempt[a].role /\ next.kind = attempt[a].kind
        /\ next.target = attempt[a].target
    BY <1>1, MovedOn DEF IndInv, ChangeAssignment
  <1>3. UNCHANGED <<assignment, log, roleLock>>
    BY DEF ChangeAssignment
  <1>4. next.began <= Len(log) /\ Justified(log, Len(log), next.actor, next.began)
    BY <1>2 DEF IndInv, AdmittedJustly, ChangeAssignment, At
  <1>5. roleLock' \in [Roles -> Attempts \cup {NoAttempt}] /\ roleLock'[next.role] = a
    BY <1>2, <1>3 DEF IndInv, RoleTypeOK, LocksHeld, ChangeAssignment, At
  <1>6. next.kind = "revoked" /\ next.role = Administrator =>
          \E x \in Actors \ {next.target} : assignment[x][Administrator] = "active"
    BY <1>2 DEF IndInv, ChecksStand, ChangeAssignment, At
  <1>7. (next.kind = "revoked") <=> (assignment[next.target][next.role] = "active")
    BY <1>2 DEF ChangeAssignment, ChangesOneRow
  <1>. HIDE DEF next
  <1>. QED BY <1>1, <1>2, <1>3, <1>4, <1>5, <1>6, <1>7, QuietStep

(* The one step that changes the table: the lock keeps every other command  *)
(* on this role before its guard, and the log grows by what happened.       *)
LEMMA CommitStep ==
  ASSUME IndInv, NEW a \in Attempts, Commit(a)
  PROVE  IndInv'
  <1>. DEFINE c == attempt[a]
              e == [by |-> c.actor, kind |-> c.kind, target |-> c.target,
                    role |-> c.role, began |-> c.began]
              n == Len(log)
  <1>1. /\ c \in Attempt /\ c.pc = "changed" /\ c.actor \in Actors /\ c.target \in Actors
        /\ c.role \in Roles /\ c.kind \in Kinds /\ c.began \in Nat
        /\ e \in Change /\ log \in Seq(Change) /\ n \in Nat
    BY DEF IndInv, RoleTypeOK, Attempt, Change, Commit, At
  <1>2. /\ log' = Append(log, e) /\ Len(log') = n + 1 /\ log'[n + 1] = e
        /\ \A i \in 1 .. n : log'[i] = log[i]
    BY <1>1 DEF Commit
  <1>3. /\ assignment'[c.target][c.role] = StatusAfter(c.kind)
        /\ \A x \in Actors, r \in Roles :
             ~(x = c.target /\ r = c.role) => assignment'[x][r] = assignment[x][r]
    BY <1>1 DEF IndInv, RoleTypeOK, Commit
  <1>4. /\ attempt'[a].pc = "done" /\ attempt'[a].began = c.began
        /\ \A b \in Attempts \ {a} : attempt'[b] = attempt[b]
    BY <1>1 DEF IndInv, RoleTypeOK, Attempt, Commit, Goes
  <1>5. \A b \in Attempts \ {a} : attempt[b].pc \in {"locked", "guarded", "changed"} =>
          /\ roleLock[attempt[b].role] = b /\ attempt[b].role \in Roles
          /\ attempt[b].role # c.role
    BY <1>1 DEF IndInv, LocksHeld, RoleTypeOK, Attempt
  <1>6. RoleTypeOK'
    <2>1. assignment' \in [Actors -> [Roles -> Statuses]]
      BY <1>1 DEF IndInv, RoleTypeOK, Commit, StatusAfter, Statuses
    <2>2. roleLock' \in [Roles -> Attempts \cup {NoAttempt}]
      BY UnlockedRoles DEF IndInv, Commit
    <2>3. attempt' \in [Attempts -> Attempt]
      BY DEF IndInv, RoleTypeOK, Attempt, Commit, Goes
    <2>4. log' \in Seq(Change)
      BY <1>1, <1>2
    <2>. QED BY <2>1, <2>2, <2>3, <2>4 DEF RoleTypeOK
  <1>7. LocksHeld'
    BY <1>4, <1>5, UnlockedRoles DEF IndInv, LocksHeld, Commit
  <1>8. ChecksStand'
    <2>. SUFFICES ASSUME NEW b \in Attempts
         PROVE  /\ /\ attempt'[b].pc \in {"guarded", "changed"}
                   /\ attempt'[b].kind = "revoked" /\ attempt'[b].role = Administrator
                   => \E x \in Actors \ {attempt'[b].target} :
                        assignment'[x][Administrator] = "active"
                /\ attempt'[b].pc = "changed" =>
                     ((attempt'[b].kind = "revoked")
                        <=> (assignment'[attempt'[b].target][attempt'[b].role] = "active"))
      BY DEF ChecksStand, ChangesOneRow, At
    <2>1. CASE b = a
      BY <1>4, <2>1
    <2>2. CASE b # a
      <3>1. attempt'[b] = attempt[b] /\ attempt[b].target \in Actors
        BY <1>4, <2>2 DEF IndInv, RoleTypeOK, Attempt
      <3>2. CASE attempt[b].pc \in {"guarded", "changed"}
        <4>1. attempt[b].role \in Roles /\ attempt[b].role # c.role
          BY <1>5, <2>2, <3>2
        <4>2. \A x \in Actors : assignment'[x][attempt[b].role] = assignment[x][attempt[b].role]
          BY <1>3, <4>1
        <4>. QED BY <3>1, <3>2, <4>2 DEF IndInv, ChecksStand, ChangesOneRow, At
      <3>. QED BY <3>1, <3>2
    <2>. QED BY <2>1, <2>2
  <1>9. AdmittedJustly'
    <2>. SUFFICES ASSUME NEW b \in Attempts
         PROVE  /\ attempt'[b].began <= Len(log')
                /\ attempt'[b].pc \in {"admitted", "locked", "guarded", "changed"} =>
                     Justified(log', Len(log'), attempt'[b].actor, attempt'[b].began)
      BY DEF AdmittedJustly
    <2>1. attempt[b].began <= n /\ attempt[b].began \in Nat
      BY DEF IndInv, AdmittedJustly, RoleTypeOK, Attempt
    <2>2. CASE b = a
      BY <1>1, <1>2, <1>4, <2>1, <2>2
    <2>3. CASE b # a
      <3>1. attempt'[b] = attempt[b]
        BY <1>4, <2>3
      <3>2. ASSUME attempt[b].pc \in {"admitted", "locked", "guarded", "changed"}
            PROVE  Justified(log', n + 1, attempt[b].actor, attempt[b].began)
        BY <1>1, <1>2, <2>1, <3>2, JustifiedKept DEF IndInv, AdmittedJustly
      <3>. QED BY <1>1, <1>2, <2>1, <3>1, <3>2
    <2>. QED BY <2>2, <2>3
  <1>10. AdministratorRemains'
    <2>1. CASE c.role # Administrator
      BY <1>3, <2>1, RolesAssumption DEF IndInv, AdministratorRemains, Holders
    <2>2. CASE c.role = Administrator /\ c.kind = "assigned"
      BY <1>1, <1>3, <2>2 DEF AdministratorRemains, Holders, StatusAfter
    <2>3. CASE c.role = Administrator /\ c.kind = "revoked"
      BY <1>1, <1>3, <2>3, RolesAssumption
         DEF IndInv, ChecksStand, AdministratorRemains, Holders
    <2>. QED BY <1>1, <2>1, <2>2, <2>3 DEF Kinds
  <1>11. LogTellsAssignments'
    <2>1. ASSUME NEW x \in Actors, NEW r \in Roles
          PROVE  Tells(log', n + 1, x, r, assignment'[x][r])
      <3>1. Tells(log, n, x, r, assignment[x][r])
        BY DEF IndInv, LogTellsAssignments
      <3>2. IF x = e.target /\ r = e.role THEN assignment'[x][r] = StatusAfter(e.kind)
            ELSE Tells(log, Len(log), x, r, assignment'[x][r])
        BY <1>3, <3>1
      <3>. QED BY <1>1, <1>2, <3>2, TellsNew
    <2>2. ASSUME NEW i \in 1 .. n
          PROVE  (log'[i].kind = "revoked")
                   <=> Tells(log', i - 1, log'[i].target, log'[i].role, "active")
      <3>1. i - 1 \in 0 .. Len(log)
        BY <1>1
      <3>2. Tells(log', i - 1, log[i].target, log[i].role, "active")
              <=> Tells(log, i - 1, log[i].target, log[i].role, "active")
        BY <1>1, <1>2, <3>1, TellsKept
      <3>. QED BY <1>2, <3>2 DEF IndInv, LogTellsAssignments
    <2>3. (e.kind = "revoked") <=> Tells(log', n, e.target, e.role, "active")
      <3>1. Tells(log, n, c.target, c.role, assignment[c.target][c.role])
        BY <1>1 DEF IndInv, LogTellsAssignments
      <3>2. Tells(log, n, c.target, c.role, "active") <=> assignment[c.target][c.role] = "active"
        BY <1>1, <3>1, TellsOne
      <3>3. (c.kind = "revoked") <=> (assignment[c.target][c.role] = "active")
        BY <1>1 DEF IndInv, ChecksStand, ChangesOneRow, At
      <3>4. Tells(log', n, c.target, c.role, "active") <=> Tells(log, n, c.target, c.role, "active")
        BY <1>1, <1>2, TellsKept
      <3>. QED BY <3>2, <3>3, <3>4
    <2>. QED BY <1>1, <1>2, <2>1, <2>2, <2>3 DEF LogTellsAssignments
  <1>12. LogJustifiesChanges'
    <2>1. ASSUME NEW i \in 1 .. n
          PROVE  Justified(log', i - 1, log'[i].by, log'[i].began)
      <3>0. log[i] \in Change
        BY <1>1
      <3>1. log[i].began \in Nat /\ i - 1 \in 0 .. Len(log)
        BY <1>1, <3>0 DEF Change
      <3>2. Justified(log, i - 1, log[i].by, log[i].began)
        BY <1>1 DEF IndInv, LogJustifiesChanges
      <3>. QED BY <1>1, <1>2, <3>1, <3>2, JustifiedKept
    <2>2. Justified(log', n, e.by, e.began)
      <3>1. Justified(log, n, c.actor, c.began)
        BY <1>1 DEF IndInv, AdmittedJustly
      <3>. QED BY <1>1, <1>2, <3>1, JustifiedKept
    <2>. QED BY <1>1, <1>2, <2>1, <2>2 DEF LogJustifiesChanges
  <1>. QED BY <1>6, <1>7, <1>8, <1>9, <1>10, <1>11, <1>12 DEF IndInv

-----------------------------------------------------------------------------
(* The theorems *)

LEMMA InitInv == RoleInit => IndInv
  <1>. SUFFICES ASSUME RoleInit PROVE IndInv
    OBVIOUS
  <1>1. RoleTypeOK
    BY RolesAssumption, ActorsAssumption
       DEF RoleInit, RoleTypeOK, Statuses, InitialStatus, Attempt, NoCommand, Kinds
  <1>2. LocksHeld /\ ChecksStand
    BY DEF RoleInit, NoCommand, LocksHeld, ChecksStand, At
  <1>3. AdmittedJustly
    BY DEF RoleInit, NoCommand, AdmittedJustly
  <1>4. AdministratorRemains
    BY RolesAssumption, ActorsAssumption DEF RoleInit, AdministratorRemains, Holders, InitialStatus
  <1>5. \A x \in Actors, r \in Roles : Tells(log, Len(log), x, r, assignment[x][r])
    BY DEF RoleInit, Tells, About
  <1>6. LogTellsAssignments /\ LogJustifiesChanges
    BY <1>5 DEF RoleInit, LogTellsAssignments, LogJustifiesChanges
  <1>. QED BY <1>1, <1>2, <1>3, <1>4, <1>6 DEF IndInv

LEMMA NextInv == IndInv /\ [RoleNext]_roleVars => IndInv'
  <1>. SUFFICES ASSUME IndInv, [RoleNext]_roleVars PROVE IndInv'
    OBVIOUS
  <1>1. CASE UNCHANGED roleVars
    BY <1>1 DEF roleVars, IndInv, RoleTypeOK, LocksHeld, ChecksStand, ChangesOneRow, At, AdmittedJustly,
                AdministratorRemains, Holders, LogTellsAssignments, LogJustifiesChanges
  <1>2. ASSUME NEW a \in Attempts, Step(a)
        PROVE  IndInv'
    <2>1. CASE Authorize(a)
      BY <2>1, AuthorizeStep
    <2>2. CASE FindRole(a)
      BY <2>2, FindRoleStep
    <2>3. CASE RoleNotFound(a)
      BY <2>3, EndStep DEF RoleNotFound
    <2>4. CASE GuardLastAdministrator(a)
      BY <2>4, GuardStep
    <2>5. CASE ChangeAssignment(a)
      BY <2>5, ChangeStep
    <2>6. CASE Refuse(a) \/ Fail(a)
      BY <2>6, EndStep DEF Refuse, Fail
    <2>7. CASE Commit(a)
      BY <2>7, CommitStep
    <2>. QED BY <1>2, <2>1, <2>2, <2>3, <2>4, <2>5, <2>6, <2>7 DEF Step
  <1>. QED BY <1>1, <1>2, BeginStep DEF RoleNext

(* The inductive invariant holds in every reachable state of                *)
(* createRoleAdministration over PostgreSQL.                                *)
THEOREM Invariance == RoleSpec => []IndInv
  BY InitInv, NextInv, PTL DEF RoleSpec

(* Assignments, locks, commands and log are well typed. *)
THEOREM TypeCorrect == RoleSpec => []RoleTypeOK
  <1>1. IndInv => RoleTypeOK
    BY DEF IndInv
  <1>. QED BY <1>1, Invariance, PTL

(* The tenant never loses its last administrator, however many commands     *)
(* race: the role's lock lets nobody pass the guard before the one that     *)
(* passed it has ended.                                                     *)
THEOREM NeverLockedOut == RoleSpec => []AdministratorRemains
  <1>1. IndInv => AdministratorRemains
    BY DEF IndInv
  <1>. QED BY <1>1, Invariance, PTL

(* The audit and outbox events retell the assignments. *)
THEOREM LogIsTrue == RoleSpec => []LogTellsAssignments
  <1>1. IndInv => LogTellsAssignments
    BY DEF IndInv
  <1>. QED BY <1>1, Invariance, PTL

(* Whoever changed an assignment was entitled to during the command. *)
THEOREM ChangesJustified == RoleSpec => []LogJustifiesChanges
  <1>1. IndInv => LogJustifiesChanges
    BY DEF IndInv
  <1>. QED BY <1>1, Invariance, PTL

=============================================================================

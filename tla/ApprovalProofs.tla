--------------------------- MODULE ApprovalProofs ---------------------------
(***************************************************************************)
(* Proofs about Approvals for every number of commands, actors, policies   *)
(* and role changes.                                                       *)
(***************************************************************************)
EXTENDS Approvals, FiniteSetTheorems, TLAPS

-----------------------------------------------------------------------------
(* Counting decisions *)

(* Every nonempty set of numbers has a least one, so `the first unmet one   *)
(* in policy order' of creditFor exists.                                    *)
LEMMA LeastExists ==
  ASSUME NEW T \in SUBSET Nat, T # {}
  PROVE  Min(T) \in T
  <1>. DEFINE R == OpToRel(<, Nat)
  <1>1. \A m, n \in Nat : m < n => <<m, n>> \in R
    BY Zenon DEF OpToRel
  <1>2. \E x \in T : \A y \in T : ~ (<<y, x>> \in R)
    BY WFMin, NatLessThanWellFounded
  <1>. HIDE DEF R
  <1>3. PICK x \in T : \A y \in T : ~ (<<y, x>> \in R)
    BY <1>2
  <1>4. \A y \in T : ~(y < x)
    BY <1>1, <1>3
  <1>5. \A y \in T : x <= y
    BY <1>4
  <1>. QED BY <1>5 DEF Min

LEMMA PlacesFinite ==
  ASSUME NEW q \in Seq(Requirement)
  PROVE  IsFiniteSet(Places(q)) /\ TotalCount(q) \in Nat
  <1>. DEFINE f == [i \in DOMAIN q |-> {i} \X (1 .. q[i].count)]
              Rows == {{i} \X (1 .. q[i].count) : i \in DOMAIN q}
  <1>1. IsFiniteSet(DOMAIN q)
    BY FS_Interval
  <1>2. f \in Surjection(DOMAIN q, Rows)
    BY DEF Surjection
  <1>3. IsFiniteSet(Rows)
    BY <1>1, <1>2, FS_Surjection
  <1>4. ASSUME NEW i \in DOMAIN q
        PROVE  IsFiniteSet({i} \X (1 .. q[i].count))
    <2>1. q[i] \in Requirement
      OBVIOUS
    <2>2. q[i].count \in Nat
      BY <2>1 DEF Requirement
    <2>3. IsFiniteSet({i})
      BY FS_Singleton
    <2>4. IsFiniteSet(1 .. q[i].count)
      BY <2>2, FS_Interval
    <2>. QED BY <2>3, <2>4, FS_Product
  <1>5. \A T \in Rows : IsFiniteSet(T)
    BY <1>4
  <1>6. IsFiniteSet(UNION Rows)
    BY <1>3, <1>5, FS_UNION
  <1>7. IsFiniteSet(Places(q))
    BY <1>6 DEF Places
  <1>. QED BY <1>7, FS_CardinalityType DEF TotalCount

LEMMA PlacesMembers ==
  ASSUME NEW q \in Seq(Requirement), NEW i, NEW n
  PROVE  <<i, n>> \in Places(q) <=> i \in DOMAIN q /\ n \in 1 .. q[i].count
  BY DEF Places

(* The places of a policy that approvals have taken so far. *)
Taken(r) ==
  {place \in Places(r.requirements) :
     place[2] <= CreditedCount(r.decisions, r.requirements[place[1]].permission)}

Credited(d, permission) == {i \in ApproveEntries(d) : d[i].credit = permission}

LEMMA EntriesFinite ==
  ASSUME NEW d \in Seq(Decision), NEW permission
  PROVE  /\ IsFiniteSet(ApproveEntries(d)) /\ Cardinality(ApproveEntries(d)) \in Nat
         /\ IsFiniteSet(Credited(d, permission)) /\ CreditedCount(d, permission) \in Nat
         /\ CreditedCount(d, permission) = Cardinality(Credited(d, permission))
  <1>1. IsFiniteSet(DOMAIN d)
    BY FS_Interval
  <1>2. ApproveEntries(d) \in SUBSET DOMAIN d
    BY DEF ApproveEntries
  <1>3. Credited(d, permission) \in SUBSET DOMAIN d
    BY <1>2 DEF Credited
  <1>4. IsFiniteSet(ApproveEntries(d)) /\ IsFiniteSet(Credited(d, permission))
    BY <1>1, <1>2, <1>3, FS_Subset
  <1>5. CreditedCount(d, permission) = Cardinality(Credited(d, permission))
    BY DEF CreditedCount, Credited
  <1>. QED BY <1>4, <1>5, FS_CardinalityType

(* What one more decision adds to the counts. *)
LEMMA OneMoreDecision ==
  ASSUME NEW d \in Seq(Decision), NEW e \in Decision
  PROVE  LET n == Append(d, e)
         IN  IF e.decision = "approve"
             THEN /\ ApproveEntries(n) = ApproveEntries(d) \cup {Len(d) + 1}
                  /\ Cardinality(ApproveEntries(n)) = Cardinality(ApproveEntries(d)) + 1
                  /\ \A permission : CreditedCount(n, permission) =
                       IF permission = e.credit THEN CreditedCount(d, permission) + 1
                       ELSE CreditedCount(d, permission)
             ELSE /\ ApproveEntries(n) = ApproveEntries(d)
                  /\ \A permission : CreditedCount(n, permission) = CreditedCount(d, permission)
  <1>. DEFINE n == Append(d, e)
              k == Len(d) + 1
  <1>1. /\ n \in Seq(Decision) /\ DOMAIN n = DOMAIN d \cup {k} /\ k \notin DOMAIN d
        /\ n[k] = e /\ \A i \in DOMAIN d : n[i] = d[i]
    OBVIOUS
  <1>. HIDE DEF n, k
  <1>2. CASE e.decision = "approve"
    <2>1. ApproveEntries(n) = ApproveEntries(d) \cup {k} /\ k \notin ApproveEntries(d)
      BY <1>1, <1>2 DEF ApproveEntries
    <2>2. Cardinality(ApproveEntries(n)) = Cardinality(ApproveEntries(d)) + 1
      BY <2>1, EntriesFinite, FS_AddElement
    <2>3. ASSUME NEW permission
          PROVE  CreditedCount(n, permission) =
                   IF permission = e.credit THEN CreditedCount(d, permission) + 1
                   ELSE CreditedCount(d, permission)
      <3>1. k \notin Credited(d, permission)
        BY <2>1 DEF Credited
      <3>2. Credited(n, permission) =
              IF permission = e.credit THEN Credited(d, permission) \cup {k}
              ELSE Credited(d, permission)
        BY <1>1, <2>1 DEF Credited, ApproveEntries
      <3>. QED BY <1>1, <3>1, <3>2, EntriesFinite, FS_AddElement
    <2>. QED BY <1>2, <2>1, <2>2, <2>3 DEF n, k
  <1>3. CASE e.decision # "approve"
    <2>1. ApproveEntries(n) = ApproveEntries(d)
      BY <1>1, <1>3 DEF ApproveEntries
    <2>2. ASSUME NEW permission
          PROVE  CreditedCount(n, permission) = CreditedCount(d, permission)
      <3>1. Credited(n, permission) = Credited(d, permission)
        BY <1>1, <2>1 DEF Credited, ApproveEntries
      <3>. QED BY <1>1, <3>1, EntriesFinite
    <2>. QED BY <1>3, <2>1, <2>2 DEF n
  <1>. QED BY <1>2, <1>3

-----------------------------------------------------------------------------
(* A request, from one version to the next *)

(* StatusFollowsDecisions of any request r. *)
FollowsDecisions(r) ==
  LET d == r.decisions
      approving == ApproveEntries(d)
  IN  /\ \A i, j \in DOMAIN d : d[i].actor = d[j].actor => i = j
      /\ r.sod => \A i \in DOMAIN d : d[i].actor # r.maker
      /\ (r.status = "REJECTED") <=> (approving # DOMAIN d)
      /\ (r.status = "APPROVED") <=> (Cardinality(approving) = r.required)
      /\ Cardinality(approving) <= r.required
      /\ \A i \in DOMAIN r.requirements :
           CreditedCount(d, r.requirements[i].permission) <= r.requirements[i].count

(* Where there are requirements every approval takes one place, which makes *)
(* 'every requirement has its count' and 'the approvals are as many as      *)
(* required' the same.                                                      *)
Sound(r) ==
  /\ FollowsDecisions(r)
  /\ \A i, j \in DOMAIN r.requirements :
       r.requirements[i].permission = r.requirements[j].permission => i = j
  /\ r.requirements # <<>> =>
       /\ r.required = TotalCount(r.requirements)
       /\ Cardinality(Taken(r)) = Cardinality(ApproveEntries(r.decisions))

LEMMA ProposedSound ==
  ASSUME NEW policy \in Policies, NEW x \in Actors, NEW target \in Targets
  PROVE  LET r == Proposed(policy, x, target) IN r \in Request /\ Sound(r)
  <1>. DEFINE r == Proposed(policy, x, target)
              q == policy.requirements
  <1>1. ValidPolicy(policy)
    BY PoliciesAssumption
  <1>2. policy.required \in Nat \ {0} /\ policy.sod \in BOOLEAN /\ q \in Seq(Requirement)
    BY <1>1 DEF ValidPolicy, Policy
  <1>3. /\ r.status = "PENDING" /\ r.version = 1 /\ r.decisions = <<>> /\ r.maker = x
        /\ r.requirements = q
        /\ r.required = IF q = <<>> THEN policy.required ELSE TotalCount(q)
    BY DEF Proposed
  <1>4. TotalCount(q) \in Nat /\ IsFiniteSet(Places(q))
    BY <1>2, PlacesFinite
  <1>5. r \in Request
    BY <1>2, <1>4 DEF Proposed, Request, Statuses
  <1>6. ApproveEntries(r.decisions) = {} /\ DOMAIN r.decisions = {}
    BY <1>3 DEF ApproveEntries
  <1>7. Cardinality(ApproveEntries(r.decisions)) = 0
    BY <1>6, FS_EmptySet
  <1>8. r.required # 0
    <2>1. CASE q = <<>>
      BY <2>1, <1>2, <1>3
    <2>2. CASE q # <<>>
      <3>1. 1 \in DOMAIN q /\ q[1] \in Requirement
        BY <2>2, <1>2
      <3>2. 1 \in 1 .. q[1].count
        BY <3>1 DEF Requirement
      <3>3. <<1, 1>> \in Places(q)
        BY <3>1, <3>2, <1>2, PlacesMembers
      <3>4. TotalCount(q) # 0
        BY <3>3, <1>4, FS_EmptySet DEF TotalCount
      <3>. QED BY <2>2, <3>4, <1>3
    <2>. QED BY <2>1, <2>2
  <1>9. \A permission : CreditedCount(r.decisions, permission) = 0
    <2>1. \A permission : {i \in ApproveEntries(r.decisions) : r.decisions[i].credit = permission} = {}
      BY <1>6
    <2>. QED BY <2>1, FS_EmptySet DEF CreditedCount
  <1>10. FollowsDecisions(r)
    <2>1. r.required \in Nat
      BY <1>2, <1>3, <1>4
    <2>2. ASSUME NEW i \in DOMAIN r.requirements
          PROVE  CreditedCount(r.decisions, r.requirements[i].permission) <= r.requirements[i].count
      <3>1. q[i] \in Requirement
        BY <1>2, <1>3
      <3>2. q[i].count \in Nat
        BY <3>1 DEF Requirement
      <3>. QED BY <3>2, <1>3, <1>9
    <2>. HIDE DEF r
    <2>. QED BY <2>1, <2>2, <1>3, <1>6, <1>7, <1>8 DEF FollowsDecisions
  <1>11. Taken(r) = {}
    <2>1. ASSUME NEW place \in Places(q)
          PROVE  ~(place[2] <= 0)
      <3>1. PICK i \in DOMAIN q : place \in {i} \X (1 .. q[i].count)
        BY DEF Places
      <3>. QED BY <3>1
    <2>. QED BY <2>1, <1>3, <1>9 DEF Taken
  <1>12. Cardinality(Taken(r)) = Cardinality(ApproveEntries(r.decisions))
    BY <1>6, <1>11
  <1>13. \A i, j \in DOMAIN r.requirements :
           r.requirements[i].permission = r.requirements[j].permission => i = j
    BY <1>1, <1>3 DEF ValidPolicy
  <1>. QED BY <1>3, <1>5, <1>10, <1>12, <1>13 DEF Sound

(* The requirement a decision is credited to. *)
LEMMA CreditExists ==
  ASSUME NEW r \in Request, NEW decision, NEW held, r.requirements # <<>>,
         IsEligible(r, decision, held)
  PROVE  \E i \in DOMAIN r.requirements :
           /\ CreditFor(r, decision, held) = r.requirements[i].permission
           /\ decision = "approve" =>
                CreditedCount(r.decisions, r.requirements[i].permission) < r.requirements[i].count
  <1>. DEFINE E == Eligible(r, decision, held)
  <1>1. r.requirements \in Seq(Requirement)
    BY DEF Request
  <1>2. E \in SUBSET Nat /\ E # {}
    BY <1>1 DEF Eligible, IsEligible
  <1>3. Min(E) \in E
    BY <1>2, LeastExists
  <1>. QED BY <1>3 DEF Eligible, CreditFor

(* Commands that decide on a sound request make a sound request of it. *)
LEMMA DecidedSound ==
  ASSUME NEW r \in Request, Sound(r), NEW c, c.kind \in {"approve", "reject"}, c.actor \in Actors,
         MayDecide(r, c)
  PROVE  /\ Decided(r, c) \in Request
         /\ Sound(Decided(r, c))
         /\ Decided(r, c).version = r.version + 1
         /\ \E e \in Decision : /\ e.actor = c.actor /\ e.decision = c.kind
                                /\ Decided(r, c).decisions = Append(r.decisions, e)
  <1>. DEFINE d == r.decisions
              q == r.requirements
              e == [actor |-> c.actor, decision |-> c.kind, credit |-> CreditFor(r, c.kind, c.held)]
              n == Append(d, e)
              status == IF c.kind = "reject" THEN "REJECTED"
                        ELSE IF IsSatisfied(r, n) THEN "APPROVED" ELSE "PENDING"
              s == [r EXCEPT !.decisions = n, !.version = @ + 1, !.status = status]
  <1>1. /\ d \in Seq(Decision) /\ q \in Seq(Requirement) /\ r.required \in Nat
        /\ r.version \in Nat \ {0} /\ r.status = "PENDING"
    BY DEF Request, MayDecide, IsPending
  <1>2. \A i \in DOMAIN q : q[i] \in Requirement /\ q[i].permission \in PermissionCatalog /\ q[i].count \in Nat
    <2>1. \A i \in DOMAIN q : q[i] \in Requirement
      BY <1>1
    <2>. QED BY <2>1 DEF Requirement
  <1>3. e \in Decision /\ e.actor = c.actor /\ e.decision = c.kind
    <2>1. CreditFor(r, c.kind, c.held) \in PermissionCatalog \cup {NoCredit}
      <3>1. CASE q = <<>>
        BY <3>1 DEF CreditFor
      <3>2. CASE q # <<>>
        BY <3>2, <1>2, CreditExists DEF MayDecide
      <3>. QED BY <3>1, <3>2
    <2>. QED BY <2>1 DEF Decision
  <1>4. Decided(r, c) = s
    BY DEF Decided
  <1>. HIDE DEF e
  <1>5. n \in Seq(Decision) /\ DOMAIN n = DOMAIN d \cup {Len(d) + 1} /\ Len(d) + 1 \notin DOMAIN d
        /\ n[Len(d) + 1] = e /\ \A i \in DOMAIN d : n[i] = d[i]
    BY <1>1, <1>3
  <1>. HIDE DEF n
  <1>6. /\ s \in Request /\ s.decisions = n /\ s.version = r.version + 1 /\ s.status = status
        /\ s.requirements = q /\ s.required = r.required /\ s.sod = r.sod /\ s.maker = r.maker
    <2>1. status \in Statuses
      BY DEF Statuses
    <2>2. r.version + 1 \in Nat \ {0}
      BY <1>1
    <2>. HIDE DEF status
    <2>. QED BY <2>1, <2>2, <1>5 DEF Request
  <1>. HIDE DEF s
  <1>7. Cardinality(ApproveEntries(d)) < r.required /\ ApproveEntries(d) = DOMAIN d
        /\ Cardinality(ApproveEntries(d)) \in Nat
    BY <1>1, EntriesFinite DEF Sound, FollowsDecisions
  <1>8. \A i \in DOMAIN q : /\ CreditedCount(d, q[i].permission) \in Nat
                            /\ CreditedCount(n, q[i].permission) \in Nat
                            /\ CreditedCount(d, q[i].permission) <= q[i].count
    BY <1>1, <1>5, EntriesFinite DEF Sound, FollowsDecisions
  <1>9. \A i, j \in DOMAIN n : n[i].actor = n[j].actor => i = j
    BY <1>3, <1>5 DEF Sound, FollowsDecisions, MayDecide
  <1>10. s.sod => \A i \in DOMAIN n : n[i].actor # s.maker
    BY <1>3, <1>5, <1>6 DEF Sound, FollowsDecisions, MayDecide
  <1>11. CASE c.kind = "reject"
    <2>1. ApproveEntries(n) = ApproveEntries(d)
          /\ \A permission : CreditedCount(n, permission) = CreditedCount(d, permission)
      BY <1>1, <1>3, <1>11, OneMoreDecision DEF n
    <2>2. ApproveEntries(n) # DOMAIN n
      BY <2>1, <1>5, <1>7
    <2>3. FollowsDecisions(s)
      BY <2>1, <2>2, <1>6, <1>7, <1>8, <1>9, <1>10, <1>11, <1>1 DEF FollowsDecisions
    <2>4. Taken(s) = Taken(r)
      BY <2>1, <1>6 DEF Taken
    <2>5. Sound(s)
      BY <2>1, <2>3, <2>4, <1>6 DEF Sound
    <2>. QED BY <2>5, <1>3, <1>4, <1>6 DEF n
  <1>12. CASE c.kind = "approve"
    <2>1. /\ ApproveEntries(n) = ApproveEntries(d) \cup {Len(d) + 1}
          /\ Cardinality(ApproveEntries(n)) = Cardinality(ApproveEntries(d)) + 1
          /\ \A permission : CreditedCount(n, permission) =
               IF permission = e.credit THEN CreditedCount(d, permission) + 1
               ELSE CreditedCount(d, permission)
      BY <1>1, <1>3, <1>12, OneMoreDecision DEF n
    <2>2. ApproveEntries(n) = DOMAIN n
      BY <2>1, <1>5, <1>7
    <2>3. CASE q = <<>>
      <3>1. status = IF Cardinality(ApproveEntries(n)) >= r.required THEN "APPROVED" ELSE "PENDING"
        BY <2>3, <1>12 DEF IsSatisfied
      <3>2. DOMAIN q = {}
        BY <2>3
      <3>. HIDE DEF status
      <3>3. FollowsDecisions(s)
        <4>1. Cardinality(ApproveEntries(n)) <= r.required /\ Cardinality(ApproveEntries(n)) \in Nat
          BY <2>1, <1>1, <1>7
        <4>2. s.status = IF Cardinality(ApproveEntries(n)) = r.required THEN "APPROVED" ELSE "PENDING"
          BY <4>1, <3>1, <1>1, <1>6
        <4>. QED BY <4>1, <4>2, <3>2, <2>2, <1>6, <1>9, <1>10 DEF FollowsDecisions
      <3>4. Sound(s)
        BY <3>2, <3>3, <2>3, <1>6 DEF Sound
      <3>. QED BY <3>4, <1>3, <1>4, <1>6 DEF n
    <2>4. CASE q # <<>>
      <3>1. PICK k \in DOMAIN q : e.credit = q[k].permission /\ CreditedCount(d, q[k].permission) < q[k].count
        BY <2>4, <1>12, CreditExists DEF MayDecide, e
      <3>2. \A i \in DOMAIN q : CreditedCount(n, q[i].permission) =
              IF i = k THEN CreditedCount(d, q[i].permission) + 1 ELSE CreditedCount(d, q[i].permission)
        BY <3>1, <2>1 DEF Sound
      <3>3. \A i \in DOMAIN q : CreditedCount(n, q[i].permission) <= q[i].count
        BY <3>1, <3>2, <1>2, <1>8
      <3>. DEFINE new == <<k, CreditedCount(d, q[k].permission) + 1>>
      <3>4. new \in Places(q)
        <4>1. CreditedCount(d, q[k].permission) + 1 \in 1 .. q[k].count
          BY <3>1, <1>2, <1>8
        <4>. QED BY <4>1, <1>1, PlacesMembers
      <3>5. \A place \in Places(q) : /\ place[1] \in DOMAIN q /\ place[2] \in Nat
                                     /\ place[2] <= q[place[1]].count
                                     /\ place = <<place[1], place[2]>>
        BY <1>2 DEF Places
      <3>6. Taken(s) = Taken(r) \cup {new} /\ new \notin Taken(r)
        BY <3>2, <3>4, <3>5, <1>6, <1>8 DEF Taken
      <3>7. IsFiniteSet(Places(q)) /\ Taken(s) \in SUBSET Places(q) /\ Taken(r) \in SUBSET Places(q)
        BY <1>1, <1>6, PlacesFinite DEF Taken
      <3>8. IsFiniteSet(Taken(r)) /\ IsFiniteSet(Taken(s))
        BY <3>7, FS_Subset
      <3>9. Cardinality(Taken(s)) = Cardinality(ApproveEntries(n))
        BY <3>6, <3>8, <2>1, <2>4, FS_AddElement DEF Sound
      <3>10. r.required = Cardinality(Places(q))
        BY <2>4 DEF Sound, TotalCount
      <3>11. IsSatisfied(r, n) <=> Places(q) = Taken(s)
        <4>1. ASSUME IsSatisfied(r, n)
              PROVE  Places(q) = Taken(s)
          BY <4>1, <3>3, <3>5, <1>2, <1>6, <1>8, <2>4 DEF IsSatisfied, Taken
        <4>2. ASSUME Places(q) = Taken(s), NEW i \in DOMAIN q
              PROVE  CreditedCount(n, q[i].permission) >= q[i].count
          <5>1. q[i].count \in 1 .. q[i].count
            BY <1>2 DEF Requirement
          <5>2. <<i, q[i].count>> \in Taken(s)
            BY <4>2, <5>1, <1>1, PlacesMembers
          <5>. QED BY <5>2, <1>2, <1>6, <1>8 DEF Taken
        <4>. QED BY <4>1, <4>2, <2>4 DEF IsSatisfied
      <3>12. IsSatisfied(r, n) <=> Cardinality(ApproveEntries(n)) = r.required
        BY <3>7, <3>9, <3>10, <3>11, FS_Subset
      <3>13. status = IF Cardinality(ApproveEntries(n)) = r.required THEN "APPROVED" ELSE "PENDING"
        BY <3>12, <1>12
      <3>. HIDE DEF status
      <3>14. FollowsDecisions(s)
        <4>1. Cardinality(ApproveEntries(n)) <= r.required /\ Cardinality(ApproveEntries(n)) \in Nat
          BY <2>1, <1>1, <1>7
        <4>2. s.status = IF Cardinality(ApproveEntries(n)) = r.required THEN "APPROVED" ELSE "PENDING"
          BY <4>1, <3>13, <1>1, <1>6
        <4>. QED BY <4>1, <4>2, <3>3, <2>2, <1>6, <1>9, <1>10 DEF FollowsDecisions
      <3>15. Sound(s)
        BY <3>9, <3>14, <1>6 DEF Sound
      <3>. QED BY <3>15, <1>3, <1>4, <1>6 DEF n
    <2>. QED BY <2>3, <2>4
  <1>. QED BY <1>11, <1>12

-----------------------------------------------------------------------------
(* Whose roles grant what *)

(* The grants of the persona matrix that the approvals depend on. *)
LEMMA MatrixGrants ==
  ASSUME NEW g \in PersonaGrants
  PROVE  /\ g.permission = Decide => g.persona \in {"finance_controller", "product_manager"}
         /\ g.permission = FinalizeInvoice =>
              g.persona \in {"finance_controller", "billing_administrator"}
         /\ g.permission = ActivatePricing => g.persona \in {"product_manager", "pricing_manager"}
  BY DEF PersonaGrants, Plain, Limited, Grant, Decide, FinalizeInvoice, ActivatePricing

(* The Billing Administrator's grant to finalize invoices has a limit. *)
LEMMA BillingIsLimited ==
  UpTo10000(FinalizeInvoice) \in LimitsOn(RoleTemplates["billing_administrator"], FinalizeInvoice)
  <1>. DEFINE g == Limited("billing_administrator", FinalizeInvoice)
              persona == "billing_administrator"
  <1>1. g \in PersonaGrants
    BY DEF PersonaGrants, FinalizeInvoice
  <1>2. /\ g.persona = persona /\ g.permission = FinalizeInvoice /\ g.enforcement = "role-limit"
        /\ IsDefaultGrant(g)
    BY DEF Limited, Grant, IsDefaultGrant
  <1>. HIDE DEF g
  <1>3. g \in {h \in DefaultGrants(persona) : h.enforcement = "role-limit"}
    BY <1>1, <1>2 DEF DefaultGrants
  <1>4. persona \in Personas
    BY DEF Personas
  <1>5. UpTo10000(g.permission) \in RoleTemplates[persona].limits
    BY <1>3, <1>4 DEF RoleTemplates
  <1>6. UpTo10000(FinalizeInvoice).permission = FinalizeInvoice
    BY DEF UpTo10000
  <1>. QED BY <1>2, <1>5, <1>6 DEF LimitsOn

(* A person who is granted a permission about no resource in particular has *)
(* now the role of a persona that holds it without a limit.                 *)
LEMMA WhoHasPermission ==
  ASSUME NEW x \in Humans, NEW permission, assigned \subseteq Actors \X Personas,
         HasPermission(x, permission)
  PROVE  \E persona \in Personas :
           /\ <<x, persona>> \in assigned
           /\ permission = Decide => persona \in {"finance_controller", "product_manager"}
           /\ permission = FinalizeInvoice => persona = "finance_controller"
           /\ permission = ActivatePricing => persona \in {"product_manager", "pricing_manager"}
  <1>1. GrantedByRoles(AssignedRoles(x), permission, NoAttributes)
    BY DEF HasPermission, IsPermitted, Principal
  <1>2. PICK pair \in assigned :
          /\ pair[1] = x
          /\ permission \in RoleTemplates[pair[2]].permissions
          /\ ConstraintsSatisfied(LimitsOn(RoleTemplates[pair[2]], permission), NoAttributes)
    BY <1>1 DEF GrantedByRoles, AssignedRoles
  <1>. DEFINE persona == pair[2]
  <1>3. persona \in Personas /\ pair = <<x, persona>>
    BY <1>2
  <1>. HIDE DEF persona
  <1>4. PICK g \in PersonaGrants : g.persona = persona /\ g.permission = permission
    BY <1>2, <1>3 DEF RoleTemplates, DefaultGrants, persona
  <1>5. ~(permission = FinalizeInvoice /\ persona = "billing_administrator")
    <2>1. \A limit \in LimitsOn(RoleTemplates[persona], permission) : FALSE
      BY <1>2 DEF ConstraintsSatisfied, NoAttributes, persona
    <2>. QED BY <2>1, BillingIsLimited
  <1>. QED BY <1>2, <1>3, <1>4, <1>5, MatrixGrants

-----------------------------------------------------------------------------
(* The inductive invariant *)

Command ==
  [pc : Running, actor : Actors, kind : Kinds, expected : Nat, target : Targets,
   late : BOOLEAN, read : Request \cup {NoRequest}, asked : Nat,
   held : SUBSET PermissionCatalog, roles : SUBSET Personas]
Answer == [pc : {"done"}, actor : Actors, kind : Kinds]

TypeOK ==
  /\ request \in Request \cup {NoRequest}
  /\ rowLock \in Attempts \cup {NoAttempt}
  /\ assigned \subseteq Actors \X Personas
  /\ roleChanges \in Nat
  /\ expired \in BOOLEAN
  /\ attempt \in [Attempts -> Command \cup Answer \cup {Idle, Refused}]
  /\ events \in Seq([version : Nat, status : Statuses])

LoadedPcs == {"credit", "crediting", "write", "written"}
AdmittedPcs == LoadedPcs \cup {"admitted", "open"}
Had(c, personas) == c.roles \cap personas # {}

(* What a command that was let in knows about its caller. *)
Entitled(c) ==
  /\ c.actor \in Humans
  /\ Had(c, {"finance_controller", "product_manager"})
  /\ FinalizeInvoice \in c.held => Had(c, {"finance_controller"})
  /\ ActivatePricing \in c.held => Had(c, {"product_manager", "pricing_manager"})

(* A command c of attempt a: it keeps count of the caller's roles; what it  *)
(* read is the request or an earlier version of it; what it is about to     *)
(* write was allowed on what it read; and once it has written, it holds the *)
(* row lock and what it read is still the request.                          *)
CommandOK(a, c) ==
  /\ request # NoRequest
  /\ {persona \in Personas : <<c.actor, persona>> \in assigned} \subseteq c.roles
  /\ c.held # {} => c.pc \in LoadedPcs
  /\ c.pc \in AdmittedPcs /\ c.kind # "cancel" => Entitled(c)
  /\ c.pc \in LoadedPcs =>
       /\ c.read \in Request /\ c.read.version <= request.version
       /\ c.read.version = request.version => c.read = request
  /\ c.pc \in {"write", "written"} => Allowed(c)
  /\ c.pc = "written" => rowLock = a /\ c.read = request

CommandsOK == \A a \in Attempts : attempt[a].pc \in Running => CommandOK(a, attempt[a])
RequestOK == request # NoRequest => Sound(request)

IndInv == TypeOK /\ RequestOK /\ CommandsOK /\ AcknowledgedStands /\ EventsTellVersions

LEMMA AttemptKinds ==
  ASSUME TypeOK, NEW a \in Attempts
  PROVE  /\ attempt[a].pc \in Running => attempt[a] \in Command
         /\ attempt[a].pc = "done" => attempt[a] \in Answer
         /\ attempt[a] \in Command => attempt[a].pc \in Running
  BY DEF TypeOK, Command, Answer, Idle, Refused, Running, AskingPcs, TransactionPcs

(* A step of one command that does not touch the request: it goes on, or is *)
(* answered with an error.                                                  *)
LEMMA QuietStep ==
  ASSUME IndInv, NEW a \in Attempts, NEW n \in Command \cup {Refused},
         attempt' = [attempt EXCEPT ![a] = n],
         UNCHANGED <<request, assigned, roleChanges, expired, events>>,
         rowLock' \in Attempts \cup {NoAttempt},
         \A b \in Attempts \ {a} : attempt[b].pc = "written" => rowLock' = rowLock,
         n \in Command => CommandOK(a, n)'
  PROVE  IndInv'
  <1>1. attempt'[a] = n /\ \A b \in Attempts : b # a => attempt'[b] = attempt[b]
    BY DEF IndInv, TypeOK
  <1>2. TypeOK'
    BY DEF IndInv, TypeOK
  <1>3. RequestOK'
    BY DEF IndInv, RequestOK
  <1>4. CommandsOK'
    <2>. SUFFICES ASSUME NEW b \in Attempts, attempt'[b].pc \in Running
                  PROVE  CommandOK(b, attempt[b])'
      BY DEF CommandsOK
    <2>1. CASE b = a
      <3>1. n \in Command
        BY <2>1, <1>1 DEF Refused, Running, AskingPcs, TransactionPcs
      <3>. QED BY <3>1, <2>1, <1>1 DEF CommandOK
    <2>2. CASE b # a
      BY <2>2, <1>1 DEF IndInv, CommandsOK, CommandOK
    <2>. QED BY <2>1, <2>2
  <1>5. AcknowledgedStands'
    <2>1. n.pc # "done"
      BY DEF Command, Refused, Running, AskingPcs, TransactionPcs
    <2>. QED BY <2>1, <1>1 DEF IndInv, AcknowledgedStands, At
  <1>6. EventsTellVersions'
    BY DEF IndInv, EventsTellVersions
  <1>. QED BY <1>2, <1>3, <1>4, <1>5, <1>6 DEF IndInv

(* A command that only moves to another place of its code. *)
LEMMA MovesOn ==
  ASSUME IndInv, NEW a \in Attempts, NEW pc \in Running, attempt[a].pc \in Running,
         Goes(a, pc), UNCHANGED <<request, assigned, roleChanges, expired, events>>,
         rowLock' \in Attempts \cup {NoAttempt},
         \A b \in Attempts \ {a} : attempt[b].pc = "written" => rowLock' = rowLock,
         pc \in AdmittedPcs => attempt[a].pc \in AdmittedPcs,
         (pc \in LoadedPcs) <=> (attempt[a].pc \in LoadedPcs),
         pc \in {"write", "written"} => Allowed(attempt[a]),
         pc = "written" => rowLock' = a /\ attempt[a].read = request
  PROVE  IndInv'
  <1>. DEFINE c == attempt[a]
              moved == [c EXCEPT !.pc = pc]
  <1>1. c \in Command /\ CommandOK(a, c)
    BY AttemptKinds DEF IndInv, CommandsOK
  <1>. HIDE DEF c
  <1>2. PICK n : n = moved
    OBVIOUS
  <1>3. attempt' = [attempt EXCEPT ![a] = n]
    BY <1>2 DEF Goes, c
  <1>4. /\ n \in Command /\ n.pc = pc /\ n.actor = c.actor /\ n.kind = c.kind /\ n.read = c.read
        /\ n.held = c.held /\ n.roles = c.roles /\ n.expected = c.expected /\ n.late = c.late
        /\ n.target = c.target
    BY <1>2, <1>1 DEF Command
  <1>5. Allowed(n) <=> Allowed(c)
    BY <1>4 DEF Allowed, MayCancel, MayDecide, IsPending, IsEligible, Eligible
  <1>6. CommandOK(a, n)'
    BY <1>1, <1>4, <1>5 DEF CommandOK, Entitled, Had, c
  <1>. QED BY <1>3, <1>4, <1>6, QuietStep

LEMMA RefusedStep ==
  ASSUME IndInv, NEW a \in Attempts, attempt' = [attempt EXCEPT ![a] = Refused],
         UNCHANGED <<request, assigned, roleChanges, expired, events>>,
         rowLock' = rowLock \/ rowLock' = Unlocked(a)
  PROVE  IndInv'
  <1>1. rowLock' \in Attempts \cup {NoAttempt}
    BY DEF IndInv, TypeOK, Unlocked
  <1>2. \A b \in Attempts \ {a} : attempt[b].pc = "written" => rowLock' = rowLock
    BY DEF IndInv, CommandsOK, CommandOK, Unlocked, Running, TransactionPcs
  <1>3. Refused \notin Command
    BY DEF Refused, Command, Running, AskingPcs, TransactionPcs
  <1>. QED BY <1>1, <1>2, <1>3, QuietStep

LEMMA BeginStep ==
  ASSUME IndInv, NEW a \in Attempts, NEW x \in Actors, NEW kind \in Kinds, NEW expected,
         NEW target \in Targets, Begin(a, x, kind, expected, target)
  PROVE  IndInv'
  <1>1. PICK n : n = Begun(x, kind, expected, target)
    OBVIOUS
  <1>2. request # NoRequest /\ expected \in Nat
    <2>1. request.version \in Nat
      BY DEF IndInv, TypeOK, Request, NoRequest
    <2>2. expected \in 1 .. request.version
      BY DEF Begin
    <2>. QED BY <2>1, <2>2 DEF NoRequest
  <1>3. n \in Command
    BY <1>1, <1>2 DEF Begun, Command, Running
  <1>4. /\ n.pc = "begun" /\ n.actor = x /\ n.held = {}
        /\ n.roles = {persona \in Personas : <<x, persona>> \in assigned}
    BY <1>1 DEF Begun
  <1>5. CommandOK(a, n)'
    BY <1>2, <1>4 DEF CommandOK, Begin, LoadedPcs, AdmittedPcs
  <1>6. attempt' = [attempt EXCEPT ![a] = n]
    BY <1>1 DEF Begin
  <1>. QED BY <1>3, <1>5, <1>6, QuietStep DEF Begin, IndInv, TypeOK

LEMMA ConnectGrantsStep ==
  ASSUME IndInv, NEW a \in Attempts, ConnectGrants(a)
  PROVE  IndInv'
  <1>. USE DEF Running, AskingPcs, TransactionPcs, AdmittedPcs, LoadedPcs
  <1>1. CASE At(a, "begun") /\ Goes(a, "asking")
    BY <1>1, MovesOn DEF ConnectGrants, At, IndInv, TypeOK
  <1>2. CASE At(a, "credit") /\ Goes(a, "crediting")
    BY <1>2, MovesOn DEF ConnectGrants, At, IndInv, TypeOK
  <1>. QED BY <1>1, <1>2 DEF ConnectGrants

LEMMA OpenTransactionStep ==
  ASSUME IndInv, NEW a \in Attempts, OpenTransaction(a)
  PROVE  IndInv'
  BY MovesOn DEF OpenTransaction, At, IndInv, TypeOK,
                 Running, AskingPcs, TransactionPcs, AdmittedPcs, LoadedPcs

LEMMA AuthorizeStep ==
  ASSUME IndInv, NEW a \in Attempts, Authorize(a)
  PROVE  IndInv'
  <1>. DEFINE c == attempt[a]
              admitted == [c EXCEPT !.pc = "admitted", !.late = expired]
              allowed == IF c.kind = "cancel" THEN HasPermission(c.actor, Propose)
                         ELSE HasPermission(c.actor, Decide) /\ c.actor \in Humans
  <1>1. c \in Command /\ CommandOK(a, c) /\ c.pc = "asking"
    BY AttemptKinds DEF Authorize, At, IndInv, CommandsOK, Running, AskingPcs
  <1>2. CASE ~allowed
    BY <1>2, RefusedStep DEF Authorize
  <1>3. CASE allowed
    <2>1. PICK n : n = admitted
      OBVIOUS
    <2>2. attempt' = [attempt EXCEPT ![a] = n]
      BY <1>3, <2>1 DEF Authorize
    <2>3. assigned \subseteq Actors \X Personas /\ expired \in BOOLEAN
      BY DEF IndInv, TypeOK
    <2>. HIDE DEF c
    <2>4. /\ n \in Command /\ n.pc = "admitted" /\ n.actor = c.actor /\ n.kind = c.kind
          /\ n.held = c.held /\ n.roles = c.roles
      BY <1>1, <2>1, <2>3 DEF Command, Running
    <2>5. c.held = {}
      BY <1>1 DEF CommandOK, LoadedPcs
    <2>6. ASSUME c.kind # "cancel" PROVE Entitled(n)
      <3>1. PICK persona \in {"finance_controller", "product_manager"} \cap Personas :
              <<c.actor, persona>> \in assigned
        BY <1>3, <2>3, <2>6, WhoHasPermission
      <3>2. persona \in n.roles
        BY <3>1, <2>4, <1>1 DEF CommandOK
      <3>. QED BY <3>1, <3>2, <2>4, <2>5, <2>6, <1>3 DEF Entitled, Had
    <2>7. CommandOK(a, n)'
      BY <1>1, <2>4, <2>5, <2>6 DEF CommandOK, Authorize, LoadedPcs, Entitled, Had
    <2>. QED BY <2>2, <2>4, <2>7, QuietStep DEF Authorize, IndInv, TypeOK
  <1>. QED BY <1>2, <1>3

LEMMA LoadStep ==
  ASSUME IndInv, NEW a \in Attempts, Load(a)
  PROVE  IndInv'
  <1>. DEFINE c == attempt[a]
              loaded == [c EXCEPT !.pc = "credit", !.read = request]
  <1>1. c \in Command /\ CommandOK(a, c) /\ c.pc = "open"
    BY AttemptKinds DEF Load, At, IndInv, CommandsOK, Running, TransactionPcs
  <1>2. PICK n : n = loaded
    OBVIOUS
  <1>3. attempt' = [attempt EXCEPT ![a] = n]
    BY <1>2 DEF Load
  <1>4. request \in Request /\ request.version \in Nat
    BY <1>1 DEF CommandOK, IndInv, TypeOK, Request
  <1>. HIDE DEF c
  <1>5. /\ n \in Command /\ n.pc = "credit" /\ n.actor = c.actor /\ n.kind = c.kind
        /\ n.held = c.held /\ n.roles = c.roles /\ n.read = request
    BY <1>2, <1>1, <1>4 DEF Command, Running, TransactionPcs
  <1>6. CommandOK(a, n)'
    BY <1>1, <1>4, <1>5 DEF CommandOK, Load, LoadedPcs, AdmittedPcs, Entitled, Had
  <1>. QED BY <1>3, <1>5, <1>6, QuietStep DEF Load, IndInv, TypeOK

LEMMA AskRequirementStep ==
  ASSUME IndInv, NEW a \in Attempts, AskRequirement(a)
  PROVE  IndInv'
  <1>. DEFINE c == attempt[a]
              permission == c.read.requirements[c.asked + 1].permission
              held == IF HasPermission(c.actor, permission) THEN c.held \cup {permission} ELSE c.held
              asked == [c EXCEPT !.pc = "credit", !.asked = @ + 1, !.held = held]
  <1>1. c \in Command /\ CommandOK(a, c) /\ c.pc = "crediting"
    BY AttemptKinds DEF AskRequirement, At, IndInv, CommandsOK, Running, AskingPcs
  <1>2. PICK n : n = asked
    OBVIOUS
  <1>3. attempt' = [attempt EXCEPT ![a] = n]
    BY <1>2 DEF AskRequirement
  <1>4. assigned \subseteq Actors \X Personas
    BY DEF IndInv, TypeOK
  <1>. HIDE DEF c, permission
  <1>5. held \in SUBSET PermissionCatalog
    BY <1>1 DEF HasPermission, IsPermitted, Command
  <1>6. ASSUME c.kind # "cancel"
        PROVE  /\ FinalizeInvoice \in held => Had(c, {"finance_controller"})
               /\ ActivatePricing \in held => Had(c, {"product_manager", "pricing_manager"})
    <2>1. Entitled(c)
      BY <1>1, <1>6 DEF CommandOK, AdmittedPcs, LoadedPcs
    <2>2. CASE ~HasPermission(c.actor, permission)
      BY <2>1, <2>2 DEF Entitled
    <2>3. CASE HasPermission(c.actor, permission)
      <3>1. PICK persona \in Personas :
              /\ <<c.actor, persona>> \in assigned
              /\ permission = FinalizeInvoice => persona = "finance_controller"
              /\ permission = ActivatePricing => persona \in {"product_manager", "pricing_manager"}
        BY <2>1, <2>3, <1>4, WhoHasPermission DEF Entitled
      <3>2. persona \in c.roles
        BY <3>1, <1>1 DEF CommandOK
      <3>. QED BY <3>1, <3>2, <2>1, <2>3 DEF Entitled, Had
    <2>. QED BY <2>2, <2>3
  <1>. HIDE DEF held
  <1>7. /\ n \in Command /\ n.pc = "credit" /\ n.actor = c.actor /\ n.kind = c.kind
        /\ n.held = held /\ n.roles = c.roles /\ n.read = c.read
    <2>1. c.asked + 1 \in Nat
      BY <1>1 DEF Command
    <2>. QED BY <1>2, <1>1, <1>5, <2>1 DEF Command, Running, TransactionPcs
  <1>8. CommandOK(a, n)'
    BY <1>1, <1>6, <1>7 DEF CommandOK, AskRequirement, LoadedPcs, AdmittedPcs, Entitled, Had
  <1>. QED BY <1>3, <1>7, <1>8, QuietStep DEF AskRequirement, IndInv, TypeOK

LEMMA JudgeStep ==
  ASSUME IndInv, NEW a \in Attempts, Judge(a)
  PROVE  IndInv'
  <1>1. CASE Allowed(attempt[a])
    <2>1. Goes(a, "write")
      BY <1>1 DEF Judge, Goes
    <2>. QED BY <1>1, <2>1, MovesOn DEF Judge, ReadyToDecide, At, IndInv, TypeOK,
                  Running, AskingPcs, TransactionPcs, AdmittedPcs, LoadedPcs
  <1>2. CASE ~Allowed(attempt[a])
    BY <1>2, RefusedStep DEF Judge
  <1>. QED BY <1>1, <1>2

(* The row lock and the version together: no command has written, and what  *)
(* this one read is still the request.                                      *)
LEMMA UpdateStep ==
  ASSUME IndInv, NEW a \in Attempts, Update(a)
  PROVE  IndInv'
  <1>1. CASE ~Accepts(request, Result(attempt[a]), attempt[a].read.version)
    BY <1>1, RefusedStep DEF Update
  <1>2. CASE Accepts(request, Result(attempt[a]), attempt[a].read.version)
    <2>1. rowLock' = a /\ Goes(a, "written") /\ attempt[a].pc = "write"
      BY <1>2 DEF Update, At
    <2>2. CommandOK(a, attempt[a])
      BY <2>1 DEF IndInv, CommandsOK, Running, TransactionPcs
    <2>3. attempt[a].read = request /\ Allowed(attempt[a])
      BY <2>1, <2>2, <1>2 DEF CommandOK, Accepts, LoadedPcs
    <2>4. \A b \in Attempts : attempt[b].pc # "written"
      BY NoAttemptAssumption DEF Update, IndInv, CommandsOK, CommandOK, Running, TransactionPcs
    <2>. QED BY <2>1, <2>3, <2>4, MovesOn DEF Update, Running, TransactionPcs, AdmittedPcs, LoadedPcs
  <1>. QED BY <1>1, <1>2

LEMMA FailStep ==
  ASSUME IndInv, NEW a \in Attempts, Fail(a)
  PROVE  IndInv'
  BY RefusedStep DEF Fail

LEMMA ResultSound ==
  ASSUME NEW c \in Command, c.read \in Request, Sound(c.read), Allowed(c)
  PROVE  /\ c.read.status = "PENDING"
         /\ Result(c) \in Request /\ Sound(Result(c)) /\ Result(c).version = c.read.version + 1
         /\ IF c.kind = "cancel"
            THEN Result(c).status = "CANCELLED" /\ Result(c).decisions = c.read.decisions
            ELSE \E e \in Decision : /\ e.actor = c.actor /\ e.decision = c.kind
                                     /\ Result(c).decisions = Append(c.read.decisions, e)
  <1>1. CASE c.kind = "cancel"
    <2>. DEFINE r == c.read
                s == [r EXCEPT !.status = "CANCELLED", !.version = @ + 1]
    <2>1. Result(c) = s /\ r.status = "PENDING"
      BY <1>1 DEF Result, Cancelled, Allowed, MayCancel, IsPending
    <2>2. r.version + 1 \in Nat \ {0}
      BY DEF Request
    <2>. HIDE DEF r
    <2>3. /\ s \in Request /\ s.status = "CANCELLED" /\ s.version = r.version + 1
          /\ s.decisions = r.decisions /\ s.requirements = r.requirements
          /\ s.required = r.required /\ s.sod = r.sod /\ s.maker = r.maker
      BY <2>2 DEF Request, Statuses, r
    <2>. HIDE DEF s
    <2>4. FollowsDecisions(s)
      BY <2>1, <2>3 DEF Sound, FollowsDecisions, r
    <2>5. Taken(s) = Taken(r)
      BY <2>3 DEF Taken
    <2>6. Sound(s)
      BY <2>3, <2>4, <2>5 DEF Sound, r
    <2>. QED BY <1>1, <2>1, <2>3, <2>6 DEF r
  <1>2. CASE c.kind # "cancel"
    <2>1. c.kind \in {"approve", "reject"} /\ c.actor \in Actors
      BY <1>2 DEF Command, Kinds
    <2>2. MayDecide(c.read, c) /\ Result(c) = Decided(c.read, c)
      BY <1>2 DEF Allowed, Result
    <2>3. c.read.status = "PENDING"
      BY <2>2 DEF MayDecide, IsPending
    <2>. QED BY <1>2, <2>1, <2>2, <2>3, DecidedSound
  <1>. QED BY <1>1, <1>2

LEMMA CommitStep ==
  ASSUME IndInv, NEW a \in Attempts, Commit(a)
  PROVE  IndInv'
  <1>1. PICK c \in Command : c = attempt[a]
    BY AttemptKinds DEF Commit, At, IndInv, Running, TransactionPcs
  <1>2. CommandOK(a, c) /\ c.pc = "written"
    BY <1>1 DEF Commit, At, IndInv, CommandsOK, Running, TransactionPcs
  <1>3. c.read = request /\ rowLock = a /\ Allowed(c) /\ request \in Request /\ Sound(request)
    BY <1>2 DEF CommandOK, LoadedPcs, IndInv, RequestOK
  <1>4. PICK s : s = Result(c)
    OBVIOUS
  <1>5. /\ request.status = "PENDING"
        /\ s \in Request /\ Sound(s) /\ s.version = request.version + 1
        /\ IF c.kind = "cancel" THEN s.status = "CANCELLED" /\ s.decisions = request.decisions
           ELSE \E e \in Decision : /\ e.actor = c.actor /\ e.decision = c.kind
                                    /\ s.decisions = Append(request.decisions, e)
    BY <1>3, <1>4, ResultSound
  <1>6. /\ request' = s /\ events' = Append(events, [version |-> s.version, status |-> s.status])
        /\ rowLock' = NoAttempt /\ UNCHANGED <<assigned, roleChanges, expired>>
    BY <1>1, <1>3, <1>4 DEF Commit, Record, Unlocked
  <1>7. attempt'[a] = Done(c) /\ \A b \in Attempts : b # a => attempt'[b] = attempt[b]
    BY <1>1 DEF Commit, IndInv, TypeOK
  <1>8. s.version \in Nat /\ request.version \in Nat \ {0} /\ s.status \in Statuses /\ s # NoRequest
    BY <1>3, <1>5 DEF Request, NoRequest, Statuses
  <1>9. Done(c) \in Answer
    BY DEF Done, Answer, Command
  <1>10. TypeOK'
    <2>1. attempt' = [attempt EXCEPT ![a] = Done(c)]
      BY <1>1 DEF Commit
    <2>. QED BY <2>1, <1>5, <1>6, <1>8, <1>9 DEF IndInv, TypeOK
  <1>11. RequestOK'
    BY <1>5, <1>6 DEF RequestOK
  <1>12. CommandsOK'
    <2>. SUFFICES ASSUME NEW b \in Attempts, attempt'[b].pc \in Running
                  PROVE  CommandOK(b, attempt[b])'
      BY DEF CommandsOK
    <2>1. b # a
      BY <1>7 DEF Done, Running, AskingPcs, TransactionPcs
    <2>2. attempt'[b] = attempt[b] /\ CommandOK(b, attempt[b])
      BY <2>1, <1>7 DEF IndInv, CommandsOK
    <2>3. attempt[b].pc # "written"
      BY <2>1, <2>2, <1>3 DEF CommandOK
    <2>4. attempt[b].pc \in LoadedPcs => /\ attempt[b].read \in Request
                                         /\ attempt[b].read.version <= s.version
                                         /\ attempt[b].read.version # s.version
      <3>1. ASSUME attempt[b].pc \in LoadedPcs
            PROVE  attempt[b].read \in Request /\ attempt[b].read.version <= request.version
        BY <3>1, <2>2 DEF CommandOK
      <3>2. ASSUME attempt[b].pc \in LoadedPcs
            PROVE  attempt[b].read.version \in Nat
        BY <3>1, <3>2 DEF Request
      <3>. QED BY <3>1, <3>2, <1>5, <1>8
    <2>. QED BY <2>2, <2>3, <2>4, <1>6, <1>8 DEF CommandOK
  <1>13. AcknowledgedStands'
    <2>. SUFFICES ASSUME NEW b \in Attempts, attempt'[b].pc = "done"
                  PROVE  IF attempt'[b].kind = "cancel" THEN s.status = "CANCELLED"
                         ELSE \E i \in DOMAIN s.decisions :
                                /\ s.decisions[i].actor = attempt'[b].actor
                                /\ s.decisions[i].decision = attempt'[b].kind
      BY <1>6 DEF AcknowledgedStands, At
    <2>1. request.decisions \in Seq(Decision)
      BY <1>3 DEF Request
    <2>2. CASE b = a
      <3>1. attempt'[b].kind = c.kind /\ attempt'[b].actor = c.actor
        BY <2>2, <1>7 DEF Done
      <3>2. CASE c.kind = "cancel"
        BY <3>1, <3>2, <1>5
      <3>3. CASE c.kind # "cancel"
        <4>1. PICK e \in Decision : /\ e.actor = c.actor /\ e.decision = c.kind
                                    /\ s.decisions = Append(request.decisions, e)
          BY <3>3, <1>5
        <4>2. /\ Len(request.decisions) + 1 \in DOMAIN s.decisions
              /\ s.decisions[Len(request.decisions) + 1] = e
          BY <4>1, <2>1
        <4>. QED BY <3>1, <3>3, <4>1, <4>2
      <3>. QED BY <3>2, <3>3
    <2>3. CASE b # a
      <3>1. attempt[b].pc = "done" /\ attempt'[b] = attempt[b]
        BY <2>3, <1>7
      <3>2. attempt[b].kind # "cancel"
        BY <3>1, <1>5 DEF IndInv, AcknowledgedStands, At
      <3>3. PICK i \in DOMAIN request.decisions :
              /\ request.decisions[i].actor = attempt[b].actor
              /\ request.decisions[i].decision = attempt[b].kind
        BY <3>1, <3>2 DEF IndInv, AcknowledgedStands, At
      <3>4. i \in DOMAIN s.decisions /\ s.decisions[i] = request.decisions[i]
        BY <2>1, <1>5
      <3>. QED BY <3>1, <3>2, <3>3, <3>4
    <2>. QED BY <2>2, <2>3
  <1>14. EventsTellVersions'
    <2>1. /\ events \in Seq([version : Nat, status : Statuses]) /\ Len(events) = request.version
          /\ \A i \in 1 .. Len(events) :
               events[i].version = i /\ events[i].status = "PENDING"
      BY <1>5 DEF IndInv, TypeOK, EventsTellVersions
    <2>. DEFINE e == [version |-> s.version, status |-> s.status]
    <2>2. /\ events' = Append(events, e) /\ e \in [version : Nat, status : Statuses]
          /\ e.version = s.version /\ e.status = s.status
      BY <1>6, <1>8
    <2>. HIDE DEF e
    <2>3. /\ Len(events') = Len(events) + 1 /\ events'[Len(events) + 1] = e
          /\ \A i \in 1 .. Len(events) : events'[i] = events[i]
      BY <2>1, <2>2
    <2>4. Len(events') = s.version
      BY <2>1, <2>3, <1>5
    <2>5. \A i \in 1 .. Len(events') :
            /\ events'[i].version = i
            /\ events'[i].status = IF i = Len(events') THEN s.status ELSE "PENDING"
      BY <2>1, <2>2, <2>3, <1>5, <1>8
    <2>. QED BY <2>4, <2>5, <1>6 DEF EventsTellVersions
  <1>. QED BY <1>10, <1>11, <1>12, <1>13, <1>14 DEF IndInv

LEMMA ProposeStep ==
  ASSUME IndInv, NEW x \in Makers, NEW policy \in Policies, NEW target \in Targets,
         ProposeRequest(x, policy, target)
  PROVE  IndInv'
  <1>1. PICK s : s = Proposed(policy, x, target)
    OBVIOUS
  <1>2. x \in Actors
    BY RolesAssumption
  <1>3. s \in Request /\ Sound(s) /\ s.version = 1 /\ s.status = "PENDING" /\ s # NoRequest
    <2>1. s \in Request /\ Sound(s)
      BY <1>1, <1>2, ProposedSound
    <2>2. s.version = 1 /\ s.status = "PENDING"
      BY <1>1 DEF Proposed
    <2>. QED BY <2>1, <2>2 DEF NoRequest
  <1>4. /\ request = NoRequest /\ request' = s
        /\ events' = <<[version |-> 1, status |-> "PENDING"]>>
        /\ UNCHANGED <<rowLock, assigned, roleChanges, expired, attempt>>
    BY <1>1 DEF ProposeRequest
  <1>5. \A a \in Attempts : attempt[a].pc \notin Running
    BY <1>4 DEF IndInv, CommandsOK, CommandOK
  <1>6. \A a \in Attempts : attempt[a].pc # "done"
    BY <1>4 DEF IndInv, AcknowledgedStands, At, NoRequest
  <1>7. TypeOK'
    BY <1>3, <1>4 DEF IndInv, TypeOK, Statuses
  <1>8. RequestOK' /\ CommandsOK' /\ AcknowledgedStands'
    BY <1>3, <1>4, <1>5, <1>6 DEF RequestOK, CommandsOK, AcknowledgedStands, At
  <1>9. EventsTellVersions'
    BY <1>3, <1>4 DEF EventsTellVersions
  <1>. QED BY <1>7, <1>8, <1>9 DEF IndInv

(* A role the caller gains is noted; what it had stays noted. *)
LEMMA RoleChangeStep ==
  ASSUME IndInv, NEW change \in ChangingRoles, RoleChange(change[1], change[2])
  PROVE  IndInv'
  <1>. DEFINE x == change[1]
              persona == change[2]
  <1>1. x \in Actors /\ persona \in Personas
    BY RolesAssumption
  <1>. HIDE DEF x, persona
  <1>2. /\ roleChanges' = roleChanges + 1
        /\ assigned' = IF <<x, persona>> \in assigned THEN assigned \ {<<x, persona>>}
                       ELSE assigned \cup {<<x, persona>>}
        /\ UNCHANGED <<request, rowLock, expired, events>>
    BY DEF RoleChange, x, persona
  <1>3. ASSUME NEW a \in Attempts
        PROVE  \/ attempt'[a] = attempt[a] /\
                  (attempt[a].pc \in Running /\ attempt[a].actor = x => <<x, persona>> \notin assigned')
               \/ /\ attempt[a].pc \in Running
                  /\ attempt'[a] = [attempt[a] EXCEPT !.roles = @ \cup {persona}]
    BY DEF RoleChange, x, persona
  <1>4. ASSUME NEW a \in Attempts, attempt[a].pc \in Running
        PROVE  /\ attempt'[a] \in Command /\ CommandOK(a, attempt[a])'
               /\ attempt'[a].pc = attempt[a].pc
    <2>1. PICK c \in Command : c = attempt[a]
      BY <1>4, AttemptKinds DEF IndInv
    <2>2. CommandOK(a, c)
      BY <2>1, <1>4 DEF IndInv, CommandsOK
    <2>3. CASE attempt'[a] = attempt[a] /\ (c.actor = x => <<x, persona>> \notin assigned')
      BY <2>1, <2>2, <2>3, <1>2 DEF CommandOK
    <2>4. CASE attempt'[a] = [attempt[a] EXCEPT !.roles = @ \cup {persona}]
      <3>1. PICK n : n = [c EXCEPT !.roles = @ \cup {persona}]
        OBVIOUS
      <3>2. /\ n \in Command /\ n.pc = c.pc /\ n.actor = c.actor /\ n.kind = c.kind /\ n.read = c.read
            /\ n.held = c.held /\ n.roles = c.roles \cup {persona} /\ n.expected = c.expected
            /\ n.late = c.late /\ n.target = c.target
        BY <3>1, <1>1 DEF Command
      <3>3. Allowed(n) <=> Allowed(c)
        BY <3>2 DEF Allowed, MayCancel, MayDecide, IsPending, IsEligible, Eligible
      <3>4. Entitled(c) => Entitled(n)
        BY <3>2 DEF Entitled, Had
      <3>5. CommandOK(a, n)'
        BY <3>2, <3>3, <3>4, <2>2, <1>2 DEF CommandOK
      <3>. QED BY <2>1, <2>4, <3>1, <3>2, <3>5
    <2>. QED BY <2>1, <2>3, <2>4, <1>3, <1>4
  <1>5. ASSUME NEW a \in Attempts, attempt[a].pc \notin Running
        PROVE  attempt'[a] = attempt[a]
    BY <1>3, <1>5
  <1>6. TypeOK'
    <2>1. attempt' \in [Attempts -> Command \cup Answer \cup {Idle, Refused}]
      <3>1. attempt' = [a \in Attempts |-> attempt'[a]]
        BY DEF RoleChange
      <3>2. \A a \in Attempts : attempt'[a] \in Command \cup Answer \cup {Idle, Refused}
        BY <1>4, <1>5 DEF IndInv, TypeOK
      <3>. QED BY <3>1, <3>2
    <2>2. assigned' \subseteq Actors \X Personas
      BY <1>1, <1>2 DEF IndInv, TypeOK
    <2>. QED BY <2>1, <2>2, <1>2 DEF IndInv, TypeOK
  <1>7. CommandsOK'
    BY <1>4, <1>5 DEF CommandsOK
  <1>8. AcknowledgedStands'
    <2>1. ASSUME NEW a \in Attempts, attempt'[a].pc = "done"
          PROVE  attempt'[a] = attempt[a]
      <3>1. attempt[a].pc \notin Running
        BY <1>4, <2>1 DEF Running, AskingPcs, TransactionPcs
      <3>. QED BY <3>1, <1>5
    <2>. QED BY <2>1, <1>2 DEF IndInv, AcknowledgedStands, At
  <1>9. RequestOK' /\ EventsTellVersions'
    BY <1>2 DEF IndInv, RequestOK, EventsTellVersions
  <1>. QED BY <1>6, <1>7, <1>8, <1>9 DEF IndInv

LEMMA ExpiryStep ==
  ASSUME IndInv, ExpiryPasses
  PROVE  IndInv'
  BY DEF ExpiryPasses, IndInv, TypeOK, RequestOK, CommandsOK, CommandOK, AcknowledgedStands, At,
         EventsTellVersions

LEMMA InitHolds == Init => IndInv
  <1>. SUFFICES ASSUME Init PROVE IndInv
    OBVIOUS
  <1>1. TypeOK
    <2>1. assigned \subseteq Actors \X Personas
      BY RolesAssumption DEF Init
    <2>2. events \in Seq([version : Nat, status : Statuses])
      BY DEF Init
    <2>. QED BY <2>1, <2>2 DEF Init, TypeOK
  <1>2. RequestOK /\ CommandsOK /\ AcknowledgedStands
    BY DEF Init, RequestOK, CommandsOK, AcknowledgedStands, At, Idle, Running, AskingPcs, TransactionPcs
  <1>3. EventsTellVersions
    BY DEF Init, EventsTellVersions, NoRequest
  <1>. QED BY <1>1, <1>2, <1>3 DEF IndInv

LEMMA StepHolds == IndInv /\ [Next]_vars => IndInv'
  <1>. SUFFICES ASSUME IndInv, [Next]_vars PROVE IndInv'
    OBVIOUS
  <1>1. CASE \E x \in Makers, policy \in Policies, target \in Targets :
               ProposeRequest(x, policy, target)
    BY <1>1, ProposeStep
  <1>2. ASSUME NEW a \in Attempts, NEW x \in Actors, NEW kind \in Kinds,
               NEW expected \in 1 .. request.version, NEW target \in Targets,
               Begin(a, x, kind, expected, target)
        PROVE  IndInv'
    BY <1>2, BeginStep
  <1>3. ASSUME NEW a \in Attempts, Statement(a) \/ Fail(a)
        PROVE  IndInv'
    BY <1>3, ConnectGrantsStep, AuthorizeStep, OpenTransactionStep, LoadStep, AskRequirementStep,
       JudgeStep, UpdateStep, CommitStep, FailStep DEF Statement
  <1>4. CASE \E change \in ChangingRoles : RoleChange(change[1], change[2])
    BY <1>4, RoleChangeStep
  <1>5. CASE ExpiryPasses
    BY <1>5, ExpiryStep
  <1>6. CASE UNCHANGED vars
    BY <1>6 DEF vars, IndInv, TypeOK, RequestOK, CommandsOK, CommandOK, AcknowledgedStands, At,
                EventsTellVersions
  <1>. QED BY <1>1, <1>2, <1>3, <1>4, <1>5, <1>6 DEF Next

-----------------------------------------------------------------------------
(* The theorems *)

(* The invariant the properties rest on: in every reachable state a command *)
(* that has written (approvals.update) holds the row and what it read       *)
(* without a lock is still the request.                                     *)
THEOREM Invariance == Spec => []IndInv
  BY InitHolds, StepHolds, PTL DEF Spec

(* However many commands decide and cancel at once, a request is APPROVED   *)
(* exactly when as many people as required approved it, each once and each  *)
(* for one requirement, REJECTED exactly when someone rejected it, and      *)
(* never by its maker under separation of duties (decideApproval).          *)
THEOREM StatusIsEarned == Spec => []StatusFollowsDecisions
  <1>1. IndInv => StatusFollowsDecisions
    BY DEF IndInv, RequestOK, Sound, FollowsDecisions, StatusFollowsDecisions
  <1>. QED BY <1>1, Invariance, PTL

(* No decision and no cancellation that was answered with success is lost   *)
(* to another command that decided on the same version.                     *)
THEOREM NoLostDecision == Spec => []AcknowledgedStands
  <1>1. IndInv => AcknowledgedStands
    BY DEF IndInv
  <1>. QED BY <1>1, Invariance, PTL

(* The committed events number the versions of the request one by one and   *)
(* the last one tells its status (record, in the transaction of the write). *)
THEOREM EventsAreTheHistory == Spec => []EventsTellVersions
  <1>1. IndInv => EventsTellVersions
    BY DEF IndInv
  <1>. QED BY <1>1, Invariance, PTL

(* Whoever decides had, during this very command, the roles it takes, for   *)
(* every assignment of roles and every change of it; a limited role never   *)
(* stands for Finance, and a workload's scopes never decide.                *)
THEOREM OnlyNamedApproversDecide == Spec => []NamedApproverDecides
  <1>1. IndInv => NamedApproverDecides
    BY DEF IndInv, CommandsOK, CommandOK, NamedApproverDecides, Entitled, Had, AdmittedPcs, LoadedPcs,
           Running, TransactionPcs
  <1>. QED BY <1>1, Invariance, PTL

-----------------------------------------------------------------------------
(* Who waits for whom *)

(* The row is held by a command that wrote it and is about to commit. *)
RowHeld == rowLock # NoAttempt => At(rowLock, "written")

LEMMA RowStep ==
  IndInv /\ RowHeld /\ [Next]_vars => RowHeld'
  <1>. SUFFICES ASSUME IndInv, RowHeld, [Next]_vars
                PROVE  RowHeld'
    OBVIOUS
  <1>1. rowLock \in Attempts \cup {NoAttempt} /\ DOMAIN attempt = Attempts
    BY DEF IndInv, TypeOK
  <1>2. ASSUME NEW a \in Attempts,
               \/ ConnectGrants(a) \/ Authorize(a) \/ OpenTransaction(a) \/ Load(a)
               \/ AskRequirement(a) \/ Judge(a)
        PROVE  RowHeld'
    <2>1. ~At(a, "written") /\ rowLock' = rowLock
      BY <1>2 DEF ConnectGrants, Authorize, OpenTransaction, Load, AskRequirement, Judge, ReadyToDecide, At
    <2>2. \A b \in Attempts \ {a} : attempt'[b] = attempt[b]
      BY <1>1, <1>2 DEF ConnectGrants, Authorize, OpenTransaction, Load, AskRequirement, Judge, Goes
    <2>. QED BY <1>1, <2>1, <2>2 DEF RowHeld, At
  <1>3. ASSUME NEW a \in Attempts, Update(a) \/ Commit(a) \/ Fail(a)
        PROVE  RowHeld'
    <2>1. CASE At(a, "write") /\ rowLock' = a /\ Goes(a, "written")
      <3>1. attempt[a] \in Command
        BY <2>1, AttemptKinds DEF IndInv, At, Running, TransactionPcs
      <3>2. attempt'[a].pc = "written"
        BY <1>1, <2>1, <3>1 DEF Goes, Command
      <3>. QED BY <2>1, <3>2 DEF RowHeld, At
    <2>2. CASE rowLock' = Unlocked(a) /\ \A b \in Attempts \ {a} : attempt'[b] = attempt[b]
      BY <1>1, <2>2 DEF Unlocked, RowHeld, At
    <2>3. CASE Update(a) /\ ~Goes(a, "written")
      BY <2>3 DEF Update, RowHeld
    <2>4. CASE Update(a) /\ Goes(a, "written")
      <3>1. CASE rowLock' = a
        BY <2>1, <2>4, <3>1 DEF Update
      <3>2. CASE rowLock' = rowLock
        BY <2>4, <3>2 DEF Update, RowHeld
      <3>. QED BY <2>4, <3>1, <3>2 DEF Update
    <2>5. CASE Commit(a) \/ Fail(a)
      <3>1. \A b \in Attempts \ {a} : attempt'[b] = attempt[b]
        BY <1>1, <2>5 DEF Commit, Fail
      <3>. QED BY <2>2, <2>5, <3>1 DEF Commit, Fail
    <2>. QED BY <1>3, <2>3, <2>4, <2>5
  <1>4. ASSUME NEW a \in Attempts, NEW x \in Actors, NEW kind \in Kinds,
               NEW expected \in 1 .. request.version, NEW target \in Targets,
               Begin(a, x, kind, expected, target)
        PROVE  RowHeld'
    BY <1>1, <1>4 DEF Begin, RowHeld, At
  <1>5. ASSUME NEW x, NEW persona, RoleChange(x, persona)
        PROVE  RowHeld'
    <2>1. \A a \in Attempts : attempt'[a].pc = attempt[a].pc
      <3>. SUFFICES ASSUME NEW a \in Attempts PROVE attempt'[a].pc = attempt[a].pc
        OBVIOUS
      <3>1. CASE attempt[a].pc \in Running
        <4>1. attempt[a] \in Command
          BY <3>1, AttemptKinds DEF IndInv
        <4>. QED BY <1>5, <4>1 DEF RoleChange, Command
      <3>2. CASE attempt[a].pc \notin Running
        BY <1>5, <3>2 DEF RoleChange
      <3>. QED BY <3>1, <3>2
    <2>. QED BY <1>1, <1>5, <2>1 DEF RoleChange, RowHeld, At
  <1>6. CASE UNCHANGED <<rowLock, attempt>>
    BY <1>6 DEF RowHeld, At
  <1>. QED BY <1>2, <1>3, <1>4, <1>5, <1>6 DEF Next, Statement, vars, ProposeRequest, ExpiryPasses

(* For pools of any size and any number of commands: never do all those     *)
(* under way wait for connections or for the row.  Who has a connection of  *)
(* the grant store waits for nothing; when nobody has one, whoever needs    *)
(* one can have it.                                                         *)
THEOREM NobodyWaitsInACircle == Spec => []NoCircle
  <1>1. Init => RowHeld
    BY DEF Init, RowHeld
  <1>2. IndInv /\ RowHeld => NoCircle
    <2>. SUFFICES ASSUME IndInv, RowHeld, NEW a \in UnderWay, \A b \in UnderWay : Waits(b)
                  PROVE  FALSE
      BY DEF NoCircle
    <2>. USE DEF At
    <2>1. rowLock = NoAttempt
      <3>. SUFFICES ASSUME rowLock # NoAttempt PROVE FALSE
        OBVIOUS
      <3>1. rowLock \in UnderWay /\ ~Waits(rowLock)
        BY DEF IndInv, TypeOK, RowHeld, UnderWay, Running, TransactionPcs, Waits
      <3>. QED BY <3>1
    <2>2. Asking = {}
      <3>. SUFFICES ASSUME NEW b \in Asking PROVE FALSE
        OBVIOUS
      <3>1. b \in UnderWay /\ ~Waits(b)
        BY DEF Asking, AskingPcs, UnderWay, Running, Waits
      <3>. QED BY <3>1
    <2>3. GrantConnectionFree
      BY <2>2, FS_EmptySet, PoolsAssumption DEF GrantConnectionFree
    <2>4. InTransaction = {}
      <3>. SUFFICES ASSUME NEW b \in InTransaction PROVE FALSE
        OBVIOUS
      <3>1. b \in UnderWay /\ ~Waits(b)
        BY <2>1, <2>3 DEF InTransaction, TransactionPcs, UnderWay, Running, Waits
      <3>. QED BY <3>1
    <2>5. ApprovalConnectionFree
      BY <2>4, FS_EmptySet, PoolsAssumption DEF ApprovalConnectionFree
    <2>6. ~Waits(a)
      BY <2>1, <2>3, <2>5 DEF Waits
    <2>. QED BY <2>6
  <1>. QED BY <1>1, <1>2, RowStep, Invariance, PTL DEF Spec

=============================================================================

--------------------------- MODULE IngressProofs ----------------------------
(***************************************************************************)
(* The safety properties of Ingress for any requests, credentials,         *)
(* policies and tenants.  The argument follows a request: what is true of  *)
(* its credential and of its tenant when it comes stays visible (a         *)
(* revocation stays, the clock only advances, an ACTIVE tenant is noticed) *)
(* until a check on the way looks at it; what a check found is about the   *)
(* credential's claims and the request's own record, which nothing         *)
(* changes.  Contexts may be taken over from other requests, but only      *)
(* where they agree with the innermost one, hence with the first.          *)
(***************************************************************************)
EXTENDS Ingress, FiniteSetTheorems, TLAPS

-----------------------------------------------------------------------------
(* The inductive invariant *)

Live ==
  [pc : Running, entry : Entries, credential : Credentials, selector : Tenants \cup {NoTenant},
   body : BOOLEAN, permission : PlatformPermissions \cup {NoPermission}, correlation : Nat,
   tenant : Tenants \cup {NoTenant}, seen : States \cup {"unread"},
   revokedBefore : BOOLEAN, expiredBefore : BOOLEAN, wasActive : BOOLEAN]

Context ==
  [tenant : Tenants \cup {NoTenant}, credential : Credentials, entry : Entries,
   scopes : SUBSET (RequiredScopes \cup PlatformPermissions), correlation : Nat]

AFact == [request : Requests, entry : Entries, credential : Credentials,
          outcome : {"succeeded", "failed"}]

TypeOK ==
  /\ now \in Nat
  /\ revoked \subseteq Credentials
  /\ tenantState \in [Tenants -> States]
  /\ request \in [Requests -> Live \cup {Idle, Refused, Done}]
  /\ contexts \subseteq Context
  /\ active \in [Requests -> Seq(Context)]
  /\ facts \in Seq(AFact)

(* What a verified credential shows of itself, at any later time. *)
Recognised(entry, claims) ==
  /\ Policy[entry].mechanism \in Expected(entry)
  /\ claims.issuer = Policy[entry].issuer
  /\ Audience[entry] \in claims.audiences

Authenticated == {"authenticated", "read", "resolved", "inside"}

(* How things stood when the request came is still to be seen. *)
Remembered(q) ==
  /\ q.revokedBefore => q.credential \in revoked
  /\ q.expiredBefore => Claims[q.credential].expires <= now
  /\ \A t \in Tenants : t = Selected(q) /\ tenantState[t] = "ACTIVE" => q.wasActive

(* What the checks a request has passed found: of the credential, of the    *)
(* tenant, and of both in a request that acts.                              *)
Checked(q) ==
  LET claims == Claims[q.credential] IN
  /\ q.pc # "begun" => Recognised(q.entry, claims)
  /\ q.pc \in Authenticated => Entitled(q.entry, claims) /\ ~q.revokedBefore
  /\ q.pc \in {"read", "resolved"} => q.entry # "platform"
  /\ q.pc \in {"read", "resolved", "inside"} /\ q.entry # "platform" => q.tenant = Selected(q)
  /\ q.pc = "read" /\ q.tenant \in claims.tenants /\ ~q.body /\ q.seen = "ACTIVE" => q.wasActive
  /\ q.pc \in {"resolved", "inside"} => ~q.expiredBefore
  /\ q.pc \in {"resolved", "inside"} /\ q.entry # "platform" => q.tenant \in claims.tenants /\ q.wasActive
  /\ q.pc = "inside" /\ q.entry = "platform" =>
       /\ Audience[q.entry] = PlatformAudience
       /\ q.permission \in PlatformPermissionsFor(claims.roles)

(* The contexts a request has activated are its own identity. *)
Activated(r) ==
  /\ ~Inside(r) \/ request[r].entry = "platform" => active[r] = <<>>
  /\ Inside(r) /\ request[r].entry # "platform" =>
       active[r] # <<>> /\ \A i \in 1 .. Len(active[r]) : SameIdentity(ContextOf(r), active[r][i])

Succeeded(i) == facts[i].outcome = "succeeded"

FactsOK ==
  \A i \in 1 .. Len(facts) : Succeeded(i) =>
    LET claims == Claims[facts[i].credential]
    IN  Recognised(facts[i].entry, claims) /\ Entitled(facts[i].entry, claims)

RequestOK(r) == request[r].pc \in Running => Remembered(request[r]) /\ Checked(request[r])

IndInv ==
  /\ TypeOK
  /\ \A r \in Requests : RequestOK(r)
  /\ \A r \in Requests : Activated(r)
  /\ FactsOK
  /\ FactPerAttempt
-----------------------------------------------------------------------------
(* Operators *)

LEMMA LiveRequest ==
  ASSUME TypeOK, NEW r \in Requests, request[r].pc \in Running
  PROVE  request[r] \in Live
  BY DEF TypeOK, Running, Idle, Refused, Done

LEMMA AtLive ==
  ASSUME TypeOK, NEW r \in Requests, NEW pc \in Running, At(r, pc)
  PROVE  request[r] \in Live /\ request[r].pc = pc
  BY LiveRequest DEF At

(* The selection only looks at the selector and at the credential. *)
LEMMA SelectionIsFixed ==
  ASSUME NEW q, NEW p, p.selector = q.selector, p.credential = q.credential
  PROVE  Selected(p) = Selected(q)
  BY DEF Selected

LEMMA SelectedType ==
  ASSUME NEW q, q.selector \in Tenants \cup {NoTenant}, q.credential \in Credentials
  PROVE  Selected(q) \in Tenants \cup {NoTenant}
  <1>. DEFINE tenants == Claims[q.credential].tenants
  <1>1. CASE q.selector = NoTenant /\ Cardinality(tenants) = 1
    <2>1. tenants # {}
      BY <1>1, FS_EmptySet
    <2>2. tenants \subseteq Tenants
      BY ClaimsAssumption
    <2>3. Selected(q) = CHOOSE t \in tenants : TRUE
      BY <1>1 DEF Selected
    <2>. QED BY <2>1, <2>2, <2>3
  <1>2. CASE ~(q.selector = NoTenant /\ Cardinality(tenants) = 1)
    BY <1>2 DEF Selected
  <1>. QED BY <1>1, <1>2

(* An arrival begins with what it asked for. *)
LEMMA BegunIsLive ==
  ASSUME NEW q \in Arrivals
  PROVE  Begun(q) \in Live
  BY ArrivalsAssumption DEF Begun, Live, Arrival, Running

LEMMA ScopesType ==
  ASSUME NEW entry \in Entries, NEW claims
  PROVE  ScopesOf(entry, claims) \subseteq RequiredScopes \cup PlatformPermissions
  BY DEF ScopesOf, PlatformPermissionsFor, PlatformPermissions, Entries

LEMMA ContextType ==
  ASSUME NEW r, request[r] \in Live
  PROVE  ContextOf(r) \in Context
  <1>1. ScopesOf(request[r].entry, ClaimsOf(r)) \subseteq RequiredScopes \cup PlatformPermissions
    BY ScopesType DEF Live
  <1>. QED BY <1>1 DEF ContextOf, Context, Live

(* A tenant entry point's scopes are within the credential's. *)
LEMMA ScopesAreCut ==
  ASSUME NEW entry \in Entries \ {"platform"}, NEW claims, Entitled(entry, claims)
  PROVE  ScopesOf(entry, claims) \subseteq claims.scopes
  BY DEF ScopesOf, Entitled, Entries

(* What two entry points demand of a credential's tenants excludes each     *)
(* other, unless they are the user's and the worker's.                      *)
LEMMA EntriesOverlap ==
  ASSUME NEW e \in Entries, NEW f \in Entries, e # f, NEW claims,
         Recognised(e, claims), Entitled(e, claims), Recognised(f, claims), Entitled(f, claims)
  PROVE  /\ {e, f} = {"interactive", "workload"}
         /\ Policy["interactive"].issuer = Policy["workload"].issuer
         /\ Audience[e] \in claims.audiences /\ Audience[f] \in claims.audiences
         /\ RequiredScopes \subseteq claims.scopes
         /\ Cardinality(claims.tenants) = 1
  <1>1. \A g \in {e, f} :
          /\ g = "interactive" => claims.tenants # {}
          /\ g = "workload" => Cardinality(claims.tenants) = 1 /\ RequiredScopes \subseteq claims.scopes
          /\ g = "platform" => claims.tenants = {}
    BY DEF Entitled
  <1>2. claims.tenants = {} => Cardinality(claims.tenants) = 0
    BY FS_EmptySet
  <1>3. "platform" \notin {e, f}
    BY <1>1, <1>2 DEF Entries
  <1>4. {e, f} = {"interactive", "workload"}
    BY <1>3 DEF Entries
  <1>. QED BY <1>1, <1>4 DEF Recognised

LEMMA VerifiedIsRecognised ==
  ASSUME NEW entry, NEW claims, Verified(entry, claims)
  PROVE  Recognised(entry, claims)
  BY DEF Verified, Recognised, SignatureHolds, BaseClaimsHold
-----------------------------------------------------------------------------
(* Facts *)

Undecided == {"idle", "begun", "verified"}
Decided == {"authenticated", "read", "resolved", "inside", "done"}

(* A step that leaves the facts alone and brings no request to or from a    *)
(* decision. *)
LEMMA NoFact ==
  ASSUME IndInv, UNCHANGED facts,
         \A s \in Requests :
           \/ request'[s].pc = request[s].pc
           \/ request[s].pc \in Undecided /\ request'[s].pc \in Undecided
           \/ request[s].pc \in Decided /\ request'[s].pc \in Decided \cup {"refused"}
  PROVE  FactsOK' /\ FactPerAttempt'
  <1>1. FactsOK'
    BY DEF IndInv, FactsOK, Succeeded
  <1>2. \A s \in Requests : FactsOf(s)' = FactsOf(s)
    BY DEF FactsOf
  <1>3. ASSUME NEW s \in Requests, NEW i \in FactsOf(s), FactsOf(s) = {i}
        PROVE  Cardinality(FactsOf(s)) = 1
    BY <1>3, FS_Singleton
  <1>4. ASSUME NEW s \in Requests
        PROVE  /\ request[s].pc \in Undecided => FactsOf(s) = {}
               /\ request[s].pc \in Decided =>
                    \E i \in FactsOf(s) : FactsOf(s) = {i} /\ facts[i].outcome = "succeeded"
               /\ request[s].pc = "refused" => Cardinality(FactsOf(s)) = 1
    BY <1>4 DEF IndInv, FactPerAttempt, Undecided, Decided
  <1>5. ASSUME NEW s \in Requests
        PROVE  /\ request'[s].pc \in Undecided => FactsOf(s) = {}
               /\ request'[s].pc \in Decided =>
                    \E i \in FactsOf(s) : FactsOf(s) = {i} /\ facts[i].outcome = "succeeded"
               /\ request'[s].pc = "refused" => Cardinality(FactsOf(s)) = 1
    BY <1>3, <1>4, <1>5 DEF Undecided, Decided
  <1>. QED BY <1>1, <1>2, <1>5 DEF FactPerAttempt, Undecided, Decided

LEMMA FactAdded ==
  ASSUME TypeOK, NEW r \in Requests, request[r] \in Live, NEW outcome \in {"succeeded", "failed"},
         facts' = Append(facts, Fact(r, outcome))
  PROVE  /\ facts' \in Seq(AFact)
         /\ Len(facts') = Len(facts) + 1 /\ Len(facts) \in Nat
         /\ facts'[Len(facts) + 1] = Fact(r, outcome)
         /\ \A i \in 1 .. Len(facts) : facts'[i] = facts[i]
         /\ FactsOf(r)' = FactsOf(r) \cup {Len(facts) + 1}
         /\ \A s \in Requests \ {r} : FactsOf(s)' = FactsOf(s)
  <1>1. Fact(r, outcome) \in AFact
    BY DEF Fact, AFact, Live
  <1>2. facts \in Seq(AFact)
    BY DEF TypeOK
  <1>3. /\ facts' \in Seq(AFact)
        /\ Len(facts') = Len(facts) + 1 /\ Len(facts) \in Nat
        /\ facts'[Len(facts) + 1] = Fact(r, outcome)
        /\ \A i \in 1 .. Len(facts) : facts'[i] = facts[i]
    BY <1>1, <1>2
  <1>4. 1 .. Len(facts') = (1 .. Len(facts)) \cup {Len(facts) + 1}
    BY <1>3
  <1>5. facts'[Len(facts) + 1].request = r
    BY <1>3 DEF Fact
  <1>6. FactsOf(r)' = FactsOf(r) \cup {Len(facts) + 1}
    BY <1>3, <1>4, <1>5 DEF FactsOf
  <1>7. \A s \in Requests \ {r} : FactsOf(s)' = FactsOf(s)
    BY <1>3, <1>4, <1>5 DEF FactsOf
  <1>. QED BY <1>3, <1>6, <1>7

(* A request's authentication ends, one way or the other, with a fact. *)
LEMMA FactOfDecision ==
  ASSUME IndInv, NEW r \in Requests, request[r] \in Live, request[r].pc \in {"begun", "verified"},
         NEW outcome \in {"succeeded", "failed"}, facts' = Append(facts, Fact(r, outcome)),
         request'[r].pc = IF outcome = "succeeded" THEN "authenticated" ELSE "refused",
         outcome = "succeeded" =>
           Recognised(request[r].entry, ClaimsOf(r)) /\ Entitled(request[r].entry, ClaimsOf(r)),
         \A s \in Requests \ {r} : request'[s] = request[s]
  PROVE  FactsOK' /\ FactPerAttempt'
  <1>. DEFINE n == Len(facts) + 1
  <1>1. /\ Len(facts') = n /\ Len(facts) \in Nat
        /\ facts'[n] = Fact(r, outcome)
        /\ \A i \in 1 .. Len(facts) : facts'[i] = facts[i]
        /\ FactsOf(r)' = FactsOf(r) \cup {n}
        /\ \A s \in Requests \ {r} : FactsOf(s)' = FactsOf(s)
    BY FactAdded DEF IndInv
  <1>2. FactsOK'
    <2>. SUFFICES ASSUME NEW i \in 1 .. Len(facts'), facts'[i].outcome = "succeeded"
                  PROVE  /\ Recognised(facts'[i].entry, Claims[facts'[i].credential])
                         /\ Entitled(facts'[i].entry, Claims[facts'[i].credential])
      BY DEF FactsOK, Succeeded
    <2>1. CASE i \in 1 .. Len(facts)
      BY <1>1, <2>1 DEF IndInv, FactsOK, Succeeded
    <2>2. CASE i = n
      BY <1>1, <2>2 DEF Fact, ClaimsOf
    <2>. QED BY <1>1, <2>1, <2>2
  <1>3. FactsOf(r) = {}
    BY DEF IndInv, FactPerAttempt
  <1>4. FactsOf(r)' = {n} /\ Cardinality(FactsOf(r)') = 1
    BY <1>1, <1>3, FS_Singleton
  <1>5. outcome = "succeeded" => facts'[n].outcome = "succeeded"
    BY <1>1 DEF Fact
  <1>6. /\ request'[r].pc \in Undecided => FactsOf(r)' = {}
        /\ request'[r].pc \in Decided =>
             \E i \in FactsOf(r)' : FactsOf(r)' = {i} /\ facts'[i].outcome = "succeeded"
        /\ request'[r].pc = "refused" => Cardinality(FactsOf(r)') = 1
    BY <1>4, <1>5 DEF Undecided, Decided
  <1>7. ASSUME NEW s \in Requests \ {r}
        PROVE  /\ request'[s].pc \in Undecided => FactsOf(s)' = {}
               /\ request'[s].pc \in Decided =>
                    \E i \in FactsOf(s)' : FactsOf(s)' = {i} /\ facts'[i].outcome = "succeeded"
               /\ request'[s].pc = "refused" => Cardinality(FactsOf(s)') = 1
    <2>1. FactsOf(s)' = FactsOf(s) /\ request'[s] = request[s]
      BY <1>1
    <2>2. \A i \in FactsOf(s) : facts'[i] = facts[i]
      BY <1>1 DEF FactsOf
    <2>3. /\ request[s].pc \in Undecided => FactsOf(s) = {}
          /\ request[s].pc \in Decided =>
               \E i \in FactsOf(s) : FactsOf(s) = {i} /\ facts[i].outcome = "succeeded"
          /\ request[s].pc = "refused" => Cardinality(FactsOf(s)) = 1
      BY DEF IndInv, FactPerAttempt, Undecided, Decided
    <2>. QED BY <2>1, <2>2, <2>3
  <1>. QED BY <1>2, <1>6, <1>7 DEF FactPerAttempt, Undecided, Decided

-----------------------------------------------------------------------------
(* Requests *)

(* A step of one request leaves the others as they were. *)
LEMMA OthersStand ==
  ASSUME IndInv, NEW s \in Requests, request'[s] = request[s], active'[s] = active[s],
         revoked \subseteq revoked', now' \in Nat, now <= now', UNCHANGED tenantState
  PROVE  RequestOK(s)' /\ Activated(s)'
  <1>1. Activated(s)'
    BY DEF IndInv, Activated, Inside, At, ContextOf, ClaimsOf, SameIdentity
  <1>2. ASSUME request[s].pc \in Running PROVE Remembered(request[s])' /\ Checked(request[s])'
    <2>1. Remembered(request[s]) /\ Checked(request[s]) /\ request[s] \in Live
      BY <1>2, LiveRequest DEF IndInv, RequestOK
    <2>2. Checked(request[s])'
      BY <2>1 DEF Checked
    <2>3. Claims[request[s].credential].expires \in Nat /\ now \in Nat
      BY <2>1, ClaimsAssumption DEF Live, IndInv, TypeOK
    <2>4. Remembered(request[s])'
      BY <2>1, <2>3 DEF Remembered
    <2>. QED BY <2>2, <2>4
  <1>. QED BY <1>1, <1>2 DEF RequestOK

(* What a request remembers does not depend on how far it is. *)
LEMMA StillRemembered ==
  ASSUME NEW q \in Live, Remembered(q), NEW p,
         p.credential = q.credential, p.selector = q.selector, p.revokedBefore = q.revokedBefore,
         p.expiredBefore = q.expiredBefore, p.wasActive = q.wasActive
  PROVE  Remembered(p)
  BY SelectionIsFixed DEF Remembered
(* What a step of one request has to show. *)
LEMMA OneRequest ==
  ASSUME IndInv, NEW r \in Requests, NEW q \in Live \cup {Idle, Refused, Done},
         request' = [request EXCEPT ![r] = q],
         NEW stack \in Seq(Context), active' = [active EXCEPT ![r] = stack],
         UNCHANGED <<now, revoked, tenantState>>, contexts' \subseteq Context, facts' \in Seq(AFact),
         RequestOK(r)', Activated(r)', FactsOK', FactPerAttempt'
  PROVE  IndInv'
  <1>1. TypeOK'
    BY DEF IndInv, TypeOK
  <1>2. ASSUME NEW s \in Requests, s # r PROVE RequestOK(s)' /\ Activated(s)'
    <2>1. request'[s] = request[s] /\ active'[s] = active[s]
      BY <1>2 DEF IndInv, TypeOK
    <2>2. now' \in Nat /\ now <= now' /\ revoked \subseteq revoked'
      BY DEF IndInv, TypeOK
    <2>. QED BY <2>1, <2>2, OthersStand
  <1>. QED BY <1>1, <1>2 DEF IndInv

(* A request that is refused, or done, has no context left. *)
LEMMA RequestEnds ==
  ASSUME IndInv, NEW r \in Requests, NEW q \in {Refused, Done}, request' = [request EXCEPT ![r] = q],
         active' = [active EXCEPT ![r] = <<>>], UNCHANGED <<now, revoked, tenantState>>,
         contexts' \subseteq Context, facts' \in Seq(AFact), FactsOK', FactPerAttempt'
  PROVE  IndInv'
  <1>1. request'[r] = q /\ active'[r] = <<>> /\ q.pc \in {"refused", "done"}
    BY DEF IndInv, TypeOK, Refused, Done
  <1>2. RequestOK(r)' /\ Activated(r)'
    BY <1>1 DEF RequestOK, Running, Activated, Inside, At
  <1>3. <<>> \in Seq(Context)
    OBVIOUS
  <1>. QED BY <1>2, <1>3, OneRequest

(* Outside a request's work no context is active. *)
LEMMA StackUnchanged ==
  ASSUME IndInv, NEW r \in Requests, ~Inside(r), UNCHANGED active
  PROVE  active[r] = <<>> /\ active' = [active EXCEPT ![r] = <<>>]
  BY DEF IndInv, TypeOK, Activated

LEMMA BeginStep ==
  ASSUME IndInv, NEW r \in Requests, NEW q \in Arrivals, Begin(r, q)
  PROVE  IndInv'
  <1>0. PICK b : b = Begun(q)
    OBVIOUS
  <1>1. b \in Live /\ request' = [request EXCEPT ![r] = b] /\ b.pc = "begun"
    BY <1>0, BegunIsLive DEF Begin, Begun
  <1>2. request[r].pc = "idle"
    BY DEF Begin, At
  <1>3. active[r] = <<>> /\ active' = [active EXCEPT ![r] = <<>>]
    BY <1>2, StackUnchanged DEF Begin, Inside, At
  <1>4. request'[r] = b /\ \A s \in Requests \ {r} : request'[s] = request[s]
    BY <1>1 DEF IndInv, TypeOK
  <1>5. Remembered(b)'
    <2>1. /\ b.revokedBefore = (b.credential \in revoked)
          /\ b.expiredBefore = (Claims[b.credential].expires <= now)
          /\ b.wasActive = \E t \in Tenants : t = Selected(q) /\ tenantState[t] = "ACTIVE"
      BY <1>0 DEF Begun
    <2>2. Selected(b) = Selected(q)
      BY <1>0, SelectionIsFixed DEF Begun
    <2>3. UNCHANGED <<now, revoked, tenantState>>
      BY DEF Begin
    <2>4. Remembered(b)
      BY <2>1, <2>2 DEF Remembered
    <2>. QED BY <2>3, <2>4 DEF Remembered
  <1>6. RequestOK(r)'
    <2>1. Checked(b)
      BY <1>1 DEF Checked, Authenticated
    <2>2. Remembered(request[r])' /\ Checked(request[r])'
      BY <1>4, <1>5, <2>1 DEF Remembered, Checked
    <2>. QED BY <2>2 DEF RequestOK
  <1>7. Activated(r)'
    BY <1>1, <1>3, <1>4 DEF Activated, Inside, At, IndInv, TypeOK
  <1>8. FactsOK' /\ FactPerAttempt'
    BY <1>1, <1>2, <1>4, NoFact DEF Begin, Undecided
  <1>9. /\ UNCHANGED <<now, revoked, tenantState>> /\ contexts' \subseteq Context
        /\ facts' \in Seq(AFact) /\ <<>> \in Seq(Context)
    BY DEF Begin, IndInv, TypeOK
  <1>. QED BY <1>1, <1>3, <1>6, <1>7, <1>8, <1>9, OneRequest
(* A request goes on towards its work. *)
LEMMA Advance ==
  ASSUME IndInv, NEW r \in Requests, request[r].pc \in Running, ~Inside(r),
         NEW q \in Live, request' = [request EXCEPT ![r] = q], q.pc # "inside", Checked(q),
         q.credential = request[r].credential, q.selector = request[r].selector,
         q.revokedBefore = request[r].revokedBefore, q.expiredBefore = request[r].expiredBefore,
         q.wasActive = request[r].wasActive,
         UNCHANGED <<now, revoked, tenantState, active>>, contexts' \subseteq Context,
         facts' \in Seq(AFact), FactsOK', FactPerAttempt'
  PROVE  IndInv'
  <1>1. request'[r] = q
    BY DEF IndInv, TypeOK
  <1>2. active[r] = <<>> /\ active' = [active EXCEPT ![r] = <<>>] /\ <<>> \in Seq(Context)
    BY StackUnchanged
  <1>3. Remembered(q)
    BY LiveRequest, StillRemembered DEF IndInv, RequestOK
  <1>4. RequestOK(r)'
    BY <1>1, <1>3 DEF RequestOK, Remembered, Checked
  <1>5. Activated(r)'
    BY <1>1, <1>2 DEF Activated, Inside, At
  <1>. QED BY <1>2, <1>4, <1>5, OneRequest

LEMMA Reject ==
  ASSUME IndInv, NEW r \in Requests, request[r].pc \in {"begun", "verified"}, RejectCredential(r),
         UNCHANGED <<now, revoked, tenantState, contexts, active>>
  PROVE  IndInv'
  <1>1. request[r] \in Live /\ ~Inside(r)
    BY LiveRequest DEF IndInv, Running, Inside, At
  <1>2. active' = [active EXCEPT ![r] = <<>>]
    BY <1>1, StackUnchanged
  <1>3. /\ request' = [request EXCEPT ![r] = Refused] /\ facts' = Append(facts, Fact(r, "failed"))
        /\ request'[r].pc = "refused" /\ \A s \in Requests \ {r} : request'[s] = request[s]
    BY DEF RejectCredential, IndInv, TypeOK, Refused
  <1>4. FactsOK' /\ FactPerAttempt'
    BY <1>1, <1>3, FactOfDecision
  <1>5. facts' \in Seq(AFact)
    BY <1>1, <1>3, FactAdded DEF IndInv
  <1>6. contexts' \subseteq Context
    BY DEF IndInv, TypeOK
  <1>. QED BY <1>2, <1>3, <1>4, <1>5, <1>6, RequestEnds

LEMMA VerifyStep ==
  ASSUME IndInv, NEW r \in Requests, Verify(r)
  PROVE  IndInv'
  <1>1. request[r] \in Live /\ request[r].pc = "begun" /\ request[r].pc \in Running /\ ~Inside(r)
    BY AtLive DEF Verify, At, Inside, IndInv, Running
  <1>2. CASE Verified(request[r].entry, ClaimsOf(r))
    <2>1. PICK q : q = [request[r] EXCEPT !.pc = "verified"]
      OBVIOUS
    <2>2. request' = [request EXCEPT ![r] = q] /\ UNCHANGED facts
      BY <1>2, <2>1 DEF Verify
    <2>3. /\ q \in Live /\ q.pc = "verified" /\ q.entry = request[r].entry
          /\ q.credential = request[r].credential /\ q.selector = request[r].selector
          /\ q.revokedBefore = request[r].revokedBefore /\ q.expiredBefore = request[r].expiredBefore
          /\ q.wasActive = request[r].wasActive
      BY <1>1, <2>1 DEF Live, Running
    <2>4. Checked(q)
      BY <1>2, <2>3, VerifiedIsRecognised DEF Checked, Authenticated, ClaimsOf
    <2>5. request'[r].pc = "verified" /\ \A s \in Requests \ {r} : request'[s] = request[s]
      BY <2>2, <2>3 DEF IndInv, TypeOK
    <2>6. FactsOK' /\ FactPerAttempt'
      BY <1>1, <2>2, <2>5, NoFact DEF Undecided
    <2>7. UNCHANGED <<now, revoked, tenantState, active>> /\ contexts' \subseteq Context /\ facts' \in Seq(AFact)
      BY <2>2 DEF Verify, IndInv, TypeOK
    <2>. QED BY <1>1, <2>2, <2>3, <2>4, <2>6, <2>7, Advance
  <1>3. CASE ~Verified(request[r].entry, ClaimsOf(r))
    BY <1>1, <1>3, Reject DEF Verify
  <1>. QED BY <1>2, <1>3

LEMMA CheckRevocationStep ==
  ASSUME IndInv, NEW r \in Requests, CheckRevocation(r)
  PROVE  IndInv'
  <1>1. request[r] \in Live /\ request[r].pc = "verified" /\ request[r].pc \in Running /\ ~Inside(r)
    BY AtLive DEF CheckRevocation, At, Inside, IndInv, Running
  <1>. DEFINE Holds == request[r].credential \notin revoked /\ Entitled(request[r].entry, ClaimsOf(r))
  <1>2. CASE Holds
    <2>1. PICK q : q = [request[r] EXCEPT !.pc = "authenticated"]
      OBVIOUS
    <2>2. request' = [request EXCEPT ![r] = q] /\ facts' = Append(facts, Fact(r, "succeeded"))
      BY <1>2, <2>1 DEF CheckRevocation
    <2>3. /\ q \in Live /\ q.pc = "authenticated" /\ q.entry = request[r].entry
          /\ q.credential = request[r].credential /\ q.selector = request[r].selector
          /\ q.revokedBefore = request[r].revokedBefore /\ q.expiredBefore = request[r].expiredBefore
          /\ q.wasActive = request[r].wasActive
      BY <1>1, <2>1 DEF Live, Running
    <2>4. Recognised(request[r].entry, ClaimsOf(r)) /\ ~request[r].revokedBefore
      BY <1>1, <1>2 DEF IndInv, RequestOK, Remembered, Checked, ClaimsOf
    <2>5. Checked(q)
      BY <1>2, <2>3, <2>4 DEF Checked, ClaimsOf
    <2>6. request'[r].pc = "authenticated" /\ \A s \in Requests \ {r} : request'[s] = request[s]
      BY <2>2, <2>3 DEF IndInv, TypeOK
    <2>7. FactsOK' /\ FactPerAttempt'
      BY <1>1, <1>2, <2>2, <2>4, <2>6, FactOfDecision
    <2>8. facts' \in Seq(AFact)
      BY <1>1, <2>2, FactAdded DEF IndInv
    <2>9. UNCHANGED <<now, revoked, tenantState, active>> /\ contexts' \subseteq Context
      BY DEF CheckRevocation, IndInv, TypeOK
    <2>. QED BY <1>1, <2>2, <2>3, <2>5, <2>7, <2>8, <2>9, Advance
  <1>3. CASE ~Holds
    BY <1>1, <1>3, Reject DEF CheckRevocation
  <1>. QED BY <1>2, <1>3

LEMMA AuthenticationErrorStep ==
  ASSUME IndInv, NEW r \in Requests, AuthenticationError(r)
  PROVE  IndInv'
  BY Reject DEF AuthenticationError
(* Refused after its authentication, or done: no fact is due. *)
LEMMA DecidedEnds ==
  ASSUME IndInv, NEW r \in Requests, request[r].pc \in Authenticated, NEW q \in {Refused, Done},
         request' = [request EXCEPT ![r] = q], active' = [active EXCEPT ![r] = <<>>],
         UNCHANGED <<now, revoked, tenantState, facts>>, contexts' \subseteq Context
  PROVE  IndInv'
  <1>1. request'[r].pc \in {"refused", "done"} /\ \A s \in Requests \ {r} : request'[s] = request[s]
    BY DEF IndInv, TypeOK, Refused, Done
  <1>2. FactsOK' /\ FactPerAttempt'
    BY <1>1, NoFact DEF Decided, Authenticated
  <1>3. facts' \in Seq(AFact)
    BY DEF IndInv, TypeOK
  <1>. QED BY <1>2, <1>3, RequestEnds

LEMMA ReadTenantStateStep ==
  ASSUME IndInv, NEW r \in Requests, ReadTenantState(r)
  PROVE  IndInv'
  <1>1. /\ request[r] \in Live /\ request[r].pc = "authenticated" /\ ~Inside(r)
        /\ request[r].pc \in Running /\ request[r].pc \in Authenticated /\ request[r].entry # "platform"
    BY AtLive DEF ReadTenantState, At, Inside, IndInv, Running, Authenticated
  <1>2. UNCHANGED <<now, revoked, tenantState, active, facts>> /\ contexts' \subseteq Context
    BY DEF ReadTenantState, IndInv, TypeOK
  <1>3. PICK tenant : tenant = Selected(request[r])
    OBVIOUS
  <1>4. tenant \in Tenants \cup {NoTenant}
    BY <1>1, <1>3, SelectedType DEF Live
  <1>5. CASE tenant = NoTenant
    <2>1. request' = [request EXCEPT ![r] = Refused]
      BY <1>3, <1>5 DEF ReadTenantState
    <2>2. active' = [active EXCEPT ![r] = <<>>]
      BY <1>1, <1>2, StackUnchanged
    <2>. QED BY <1>1, <1>2, <2>1, <2>2, DecidedEnds
  <1>6. CASE tenant # NoTenant
    <2>0. PICK seen : seen = IF request[r].entry = "workload"
                                \/ (tenant \in ClaimsOf(r).tenants /\ ~request[r].body)
                             THEN tenantState[tenant] ELSE "ACTIVE"
      OBVIOUS
    <2>1. PICK q : q = [request[r] EXCEPT !.pc = "read", !.tenant = tenant, !.seen = seen]
      OBVIOUS
    <2>2. request' = [request EXCEPT ![r] = q]
      BY <1>3, <1>6, <2>0, <2>1 DEF ReadTenantState
    <2>3. seen \in States
      BY <1>4, <1>6, <2>0 DEF IndInv, TypeOK, States
    <2>4. /\ q \in Live /\ q.pc = "read" /\ q.tenant = tenant /\ q.seen = seen /\ q.body = request[r].body
          /\ q.entry = request[r].entry
          /\ q.credential = request[r].credential /\ q.selector = request[r].selector
          /\ q.revokedBefore = request[r].revokedBefore /\ q.expiredBefore = request[r].expiredBefore
          /\ q.wasActive = request[r].wasActive
      BY <1>1, <1>4, <2>1, <2>3 DEF Live, Running
    <2>5. /\ Recognised(request[r].entry, ClaimsOf(r)) /\ Entitled(request[r].entry, ClaimsOf(r))
          /\ ~request[r].revokedBefore
      BY <1>1 DEF IndInv, RequestOK, Checked, ClaimsOf
    <2>6. q.tenant = Selected(q)
      BY <1>3, <2>4, SelectionIsFixed
    <2>7. q.tenant \in Claims[q.credential].tenants /\ ~q.body /\ q.seen = "ACTIVE" => q.wasActive
      <3>1. Remembered(request[r])
        BY <1>1 DEF IndInv, RequestOK
      <3>2. tenantState[tenant] = "ACTIVE" => request[r].wasActive
        BY <1>3, <1>4, <1>6, <3>1 DEF Remembered
      <3>. QED BY <2>0, <2>4, <3>2 DEF ClaimsOf
    <2>8. Checked(q)
      BY <1>1, <2>4, <2>5, <2>6, <2>7 DEF Checked, ClaimsOf
    <2>9. request'[r].pc = "read" /\ \A s \in Requests \ {r} : request'[s] = request[s]
      BY <2>2, <2>4 DEF IndInv, TypeOK
    <2>10. FactsOK' /\ FactPerAttempt'
      BY <1>1, <1>2, <2>9, NoFact DEF Decided
    <2>11. facts' \in Seq(AFact)
      BY <1>2 DEF IndInv, TypeOK
    <2>. QED BY <1>1, <1>2, <2>2, <2>4, <2>8, <2>10, <2>11, Advance
  <1>. QED BY <1>5, <1>6

LEMMA ResolveTenantContextStep ==
  ASSUME IndInv, NEW r \in Requests, ResolveTenantContext(r)
  PROVE  IndInv'
  <1>1. /\ request[r] \in Live /\ request[r].pc = "read" /\ ~Inside(r)
        /\ request[r].pc \in Running /\ request[r].pc \in Authenticated
    BY AtLive DEF ResolveTenantContext, At, Inside, IndInv, Running, Authenticated
  <1>2. UNCHANGED <<now, revoked, tenantState, active, facts>>
    BY DEF ResolveTenantContext
  <1>3. contexts' \subseteq Context
    BY <1>1, ContextType DEF ResolveTenantContext, IndInv, TypeOK
  <1>4. CASE request' = [request EXCEPT ![r] = Refused]
    <2>1. active' = [active EXCEPT ![r] = <<>>]
      BY <1>1, <1>2, StackUnchanged
    <2>. QED BY <1>1, <1>2, <1>3, <1>4, <2>1, DecidedEnds
  <1>5. CASE request' = [request EXCEPT ![r].pc = "resolved"] /\ ~request' = [request EXCEPT ![r] = Refused]
    <2>1. PICK q : q = [request[r] EXCEPT !.pc = "resolved"]
      OBVIOUS
    <2>2. request' = [request EXCEPT ![r] = q]
      BY <1>5, <2>1
    <2>3. /\ IsCurrent(r) /\ ~request[r].body /\ request[r].seen = "ACTIVE"
          /\ request[r].tenant \in ClaimsOf(r).tenants
      BY <1>5 DEF ResolveTenantContext
    <2>4. /\ q \in Live /\ q.pc = "resolved" /\ q.tenant = request[r].tenant
          /\ q.entry = request[r].entry
          /\ q.credential = request[r].credential /\ q.selector = request[r].selector
          /\ q.revokedBefore = request[r].revokedBefore /\ q.expiredBefore = request[r].expiredBefore
          /\ q.wasActive = request[r].wasActive
      BY <1>1, <2>1 DEF Live, Running
    <2>5. /\ Recognised(request[r].entry, ClaimsOf(r)) /\ Entitled(request[r].entry, ClaimsOf(r))
          /\ ~request[r].revokedBefore /\ request[r].entry # "platform"
          /\ request[r].tenant = Selected(request[r]) /\ request[r].wasActive
      BY <1>1, <2>3 DEF IndInv, RequestOK, Checked, ClaimsOf
    <2>6. ~request[r].expiredBefore
      <3>1. Remembered(request[r]) /\ now \in Nat
        BY <1>1 DEF IndInv, RequestOK, TypeOK
      <3>2. ClaimsOf(r).expires \in Nat
        BY <1>1, ClaimsAssumption DEF ClaimsOf, Live
      <3>3. ~(ClaimsOf(r).expires <= now)
        BY <2>3, <3>1, <3>2 DEF IsCurrent
      <3>. QED BY <3>1, <3>3 DEF Remembered, ClaimsOf
    <2>7. q.tenant = Selected(q)
      BY <2>4, <2>5, SelectionIsFixed
    <2>8. Checked(q)
      BY <2>3, <2>4, <2>5, <2>6, <2>7 DEF Checked, ClaimsOf
    <2>9. request'[r].pc = "resolved" /\ \A s \in Requests \ {r} : request'[s] = request[s]
      BY <2>2, <2>4 DEF IndInv, TypeOK
    <2>10. FactsOK' /\ FactPerAttempt'
      BY <1>1, <1>2, <2>9, NoFact DEF Decided
    <2>11. facts' \in Seq(AFact)
      BY <1>2 DEF IndInv, TypeOK
    <2>. QED BY <1>1, <1>2, <1>3, <2>2, <2>4, <2>8, <2>10, <2>11, Advance
  <1>. QED BY <1>4, <1>5 DEF ResolveTenantContext
LEMMA EnterStep ==
  ASSUME IndInv, NEW r \in Requests, Enter(r)
  PROVE  IndInv'
  <1>1. /\ request[r] \in Live /\ request[r].pc = "resolved" /\ request[r].pc \in Running
    BY AtLive DEF Enter, At, IndInv, Running
  <1>2. UNCHANGED <<now, revoked, tenantState, facts>> /\ contexts' \subseteq Context /\ facts' \in Seq(AFact)
    BY DEF Enter, IndInv, TypeOK
  <1>3. PICK q : q = [request[r] EXCEPT !.pc = "inside"]
    OBVIOUS
  <1>4. PICK context : context = ContextOf(r)
    OBVIOUS
  <1>5. context \in Context
    BY <1>1, <1>4, ContextType
  <1>6. request' = [request EXCEPT ![r] = q] /\ active' = [active EXCEPT ![r] = <<context>>]
    BY <1>3, <1>4 DEF Enter
  <1>7. /\ q \in Live /\ q.pc = "inside" /\ q.tenant = request[r].tenant /\ q.correlation = request[r].correlation
        /\ q.entry = request[r].entry
        /\ q.credential = request[r].credential /\ q.selector = request[r].selector
        /\ q.revokedBefore = request[r].revokedBefore /\ q.expiredBefore = request[r].expiredBefore
        /\ q.wasActive = request[r].wasActive
    BY <1>1, <1>3 DEF Live, Running
  <1>8. /\ Remembered(request[r]) /\ Checked(request[r])
    BY <1>1 DEF IndInv, RequestOK
  <1>9. Remembered(q)
    BY <1>1, <1>7, <1>8, StillRemembered
  <1>10. Selected(q) = Selected(request[r])
    BY <1>7, SelectionIsFixed
  <1>11. Checked(q)
    BY <1>1, <1>7, <1>8, <1>10 DEF Checked, Authenticated
  <1>12. /\ request'[r] = q /\ active'[r] = <<context>>
         /\ \A s \in Requests \ {r} : request'[s] = request[s]
    BY <1>6 DEF IndInv, TypeOK
  <1>13. RequestOK(r)'
    BY <1>2, <1>9, <1>11, <1>12 DEF RequestOK, Remembered, Checked
  <1>14. Activated(r)'
    <2>1. q.entry # "platform"
      BY <1>1, <1>7, <1>8 DEF Checked
    <2>2. ContextOf(r)' = context
      BY <1>4, <1>7, <1>12 DEF ContextOf, ClaimsOf
    <2>3. SameIdentity(context, context)
      BY DEF SameIdentity
    <2>4. active'[r] # <<>> /\ \A i \in 1 .. Len(active'[r]) : active'[r][i] = context
      BY <1>12
    <2>. QED BY <1>7, <1>12, <2>1, <2>2, <2>3, <2>4 DEF Activated, Inside, At, SameIdentity
  <1>15. FactsOK' /\ FactPerAttempt'
    BY <1>1, <1>2, <1>7, <1>12, NoFact DEF Decided
  <1>16. <<context>> \in Seq(Context)
    BY <1>5
  <1>. QED BY <1>2, <1>6, <1>7, <1>13, <1>14, <1>15, <1>16, OneRequest

LEMMA EnterPlatformStep ==
  ASSUME IndInv, NEW r \in Requests, EnterPlatform(r)
  PROVE  IndInv'
  <1>1. /\ request[r] \in Live /\ request[r].pc = "authenticated" /\ ~Inside(r)
        /\ request[r].pc \in Running /\ request[r].pc \in Authenticated /\ request[r].entry = "platform"
    BY AtLive DEF EnterPlatform, At, Inside, IndInv, Running, Authenticated
  <1>2. UNCHANGED <<now, revoked, tenantState, facts, active>> /\ contexts' \subseteq Context /\ facts' \in Seq(AFact)
    BY DEF EnterPlatform, IndInv, TypeOK
  <1>3. active[r] = <<>> /\ active' = [active EXCEPT ![r] = <<>>] /\ <<>> \in Seq(Context)
    BY <1>1, <1>2, StackUnchanged
  <1>4. CASE ~(PlatformContextIssued(r) /\ PlatformAllowed(r))
    <2>1. request' = [request EXCEPT ![r] = Refused]
      BY <1>4 DEF EnterPlatform
    <2>. QED BY <1>1, <1>2, <1>3, <2>1, DecidedEnds
  <1>5. CASE PlatformContextIssued(r) /\ PlatformAllowed(r)
    <2>1. PICK q : q = [request[r] EXCEPT !.pc = "inside"]
      OBVIOUS
    <2>2. request' = [request EXCEPT ![r] = q]
      BY <1>5, <2>1 DEF EnterPlatform
    <2>3. /\ q \in Live /\ q.pc = "inside" /\ q.permission = request[r].permission
          /\ q.entry = request[r].entry
        /\ q.credential = request[r].credential /\ q.selector = request[r].selector
        /\ q.revokedBefore = request[r].revokedBefore /\ q.expiredBefore = request[r].expiredBefore
        /\ q.wasActive = request[r].wasActive
      BY <1>1, <2>1 DEF Live, Running
    <2>4. /\ Remembered(request[r]) /\ Checked(request[r])
      BY <1>1 DEF IndInv, RequestOK
    <2>5. Remembered(q)
      BY <1>1, <2>3, <2>4, StillRemembered
    <2>6. ~q.expiredBefore
      <3>1. ClaimsOf(r).expires \in Nat /\ now \in Nat
        BY <1>1, ClaimsAssumption DEF ClaimsOf, Live, IndInv, TypeOK
      <3>2. ~(ClaimsOf(r).expires <= now)
        BY <1>5, <3>1 DEF PlatformContextIssued
      <3>. QED BY <2>3, <2>4, <3>2 DEF Remembered, ClaimsOf
    <2>7. /\ Audience["platform"] = PlatformAudience
          /\ request[r].permission \in PlatformPermissionsFor(ClaimsOf(r).roles)
      BY <1>1, <1>5 DEF PlatformAllowed, ScopesOf
    <2>8. Checked(q)
      BY <1>1, <2>3, <2>4, <2>6, <2>7 DEF Checked, ClaimsOf, Authenticated
    <2>9. request'[r] = q /\ \A s \in Requests \ {r} : request'[s] = request[s]
      BY <2>2 DEF IndInv, TypeOK
    <2>10. RequestOK(r)'
      BY <1>2, <2>5, <2>8, <2>9 DEF RequestOK, Remembered, Checked
    <2>11. Activated(r)'
      BY <1>1, <1>2, <1>3, <2>3, <2>9 DEF Activated
    <2>12. FactsOK' /\ FactPerAttempt'
      BY <1>1, <1>2, <2>3, <2>9, NoFact DEF Decided
    <2>. QED BY <1>2, <1>3, <2>2, <2>3, <2>10, <2>11, <2>12, OneRequest
  <1>. QED BY <1>4, <1>5

(* A request's record is not touched while contexts come and go. *)
LEMMA StackMoves ==
  ASSUME IndInv, NEW r \in Requests, NEW stack \in Seq(Context),
         active' = [active EXCEPT ![r] = stack], Activated(r)',
         UNCHANGED <<now, revoked, tenantState, request, contexts, facts>>
  PROVE  IndInv'
  <1>1. RequestOK(r)'
    BY DEF IndInv, RequestOK, Remembered, Checked
  <1>2. FactsOK' /\ FactPerAttempt'
    BY NoFact
  <1>3. /\ request[r] \in Live \cup {Idle, Refused, Done} /\ request' = [request EXCEPT ![r] = request[r]]
        /\ contexts' \subseteq Context /\ facts' \in Seq(AFact)
    BY DEF IndInv, TypeOK
  <1>. QED BY <1>1, <1>2, <1>3, OneRequest

LEMMA NestStep ==
  ASSUME IndInv, NEW r \in Requests, NEW context \in contexts, Nest(r, context)
  PROVE  IndInv'
  <1>1. Inside(r) /\ active[r] # <<>> /\ SameIdentity(Last(active[r]), context)
    BY DEF Nest, Inside
  <1>2. active[r] \in Seq(Context) /\ context \in Context
    BY DEF IndInv, TypeOK
  <1>3. request[r].entry # "platform"
    BY <1>1 DEF IndInv, Activated
  <1>4. \A i \in 1 .. Len(active[r]) : SameIdentity(ContextOf(r), active[r][i])
    BY <1>1, <1>3 DEF IndInv, Activated
  <1>5. PICK stack : stack = Append(active[r], context)
    OBVIOUS
  <1>6. /\ stack \in Seq(Context) /\ stack # <<>> /\ Len(stack) = Len(active[r]) + 1
        /\ stack[Len(active[r]) + 1] = context
        /\ \A i \in 1 .. Len(active[r]) : stack[i] = active[r][i]
    BY <1>2, <1>5
  <1>7. SameIdentity(ContextOf(r), context)
    <2>1. Len(active[r]) \in 1 .. Len(active[r]) /\ Last(active[r]) = active[r][Len(active[r])]
      BY <1>1, <1>2 DEF Last
    <2>. QED BY <1>1, <1>4, <2>1 DEF SameIdentity
  <1>8. \A i \in 1 .. Len(stack) : SameIdentity(ContextOf(r), stack[i])
    <2>1. Len(active[r]) \in Nat
      BY <1>2
    <2>2. \A i \in 1 .. Len(stack) : i \in 1 .. Len(active[r]) \/ i = Len(active[r]) + 1
      BY <1>6, <2>1
    <2>. QED BY <1>4, <1>6, <1>7, <2>2
  <1>9. /\ active' = [active EXCEPT ![r] = stack]
        /\ UNCHANGED <<now, revoked, tenantState, request, contexts, facts>>
    BY <1>5 DEF Nest
  <1>10. active'[r] = stack
    BY <1>9 DEF IndInv, TypeOK
  <1>11. Activated(r)'
    BY <1>1, <1>3, <1>6, <1>8, <1>9, <1>10 DEF Activated, Inside, At, ContextOf, ClaimsOf, SameIdentity
  <1>. QED BY <1>6, <1>9, <1>11, StackMoves

LEMMA LeaveStep ==
  ASSUME IndInv, NEW r \in Requests, Leave(r)
  PROVE  IndInv'
  <1>1. Inside(r) /\ request[r].pc \in Authenticated
    BY DEF Leave, Inside, At, Authenticated
  <1>2. active[r] \in Seq(Context) /\ Len(active[r]) \in Nat
    BY DEF IndInv, TypeOK
  <1>3. UNCHANGED <<now, revoked, tenantState, contexts, facts>> /\ contexts' \subseteq Context
    BY DEF Leave, IndInv, TypeOK
  <1>4. CASE Len(active[r]) <= 1
    <2>1. request' = [request EXCEPT ![r] = Done]
      BY <1>4 DEF Leave
    <2>2. active' = [active EXCEPT ![r] = <<>>]
      <3>1. active[r] # <<>> => Front(active[r]) = <<>>
        BY <1>2, <1>4 DEF Front
      <3>. QED BY <3>1 DEF Leave
    <2>. QED BY <1>1, <1>3, <2>1, <2>2, DecidedEnds
  <1>5. CASE Len(active[r]) > 1
    <2>1. UNCHANGED request /\ active[r] # <<>>
      BY <1>2, <1>5 DEF Leave
    <2>2. PICK stack : stack = Front(active[r])
      OBVIOUS
    <2>3. /\ stack \in Seq(Context) /\ stack # <<>> /\ Len(stack) = Len(active[r]) - 1
          /\ \A i \in 1 .. Len(stack) : stack[i] = active[r][i]
      <3>1. stack = SubSeq(active[r], 1, Len(active[r]) - 1)
        BY <2>2 DEF Front
      <3>2. \A i \in 1 .. Len(active[r]) - 1 : active[r][i] \in Context
        BY <1>2
      <3>3. stack \in Seq(Context)
        BY <1>2, <3>1, <3>2
      <3>4. Len(stack) = Len(active[r]) - 1
        BY <1>2, <1>5, <3>1
      <3>5. \A i \in 1 .. Len(stack) : stack[i] = active[r][i]
        BY <1>2, <1>5, <3>1, <3>4
      <3>6. stack # <<>>
        BY <1>2, <1>5, <3>4
      <3>. QED BY <3>3, <3>4, <3>5, <3>6
    <2>4. active' = [active EXCEPT ![r] = stack]
      BY <2>1, <2>2 DEF Leave
    <2>5. active'[r] = stack
      BY <2>4 DEF IndInv, TypeOK
    <2>6. request[r].entry # "platform"
      BY <1>1, <2>1 DEF IndInv, Activated
    <2>7. \A i \in 1 .. Len(stack) : SameIdentity(ContextOf(r), stack[i])
      <3>1. \A i \in 1 .. Len(stack) : i \in 1 .. Len(active[r])
        BY <1>2, <2>3
      <3>. QED BY <1>1, <2>3, <2>6, <3>1 DEF IndInv, Activated
    <2>8. Activated(r)'
      BY <1>1, <2>1, <2>3, <2>5, <2>6, <2>7 DEF Activated, Inside, At, ContextOf, ClaimsOf, SameIdentity
    <2>. QED BY <1>3, <2>1, <2>3, <2>4, <2>8, StackMoves
  <1>. QED BY <1>2, <1>4, <1>5

LEMMA FailStep ==
  ASSUME IndInv, NEW r \in Requests, Fail(r)
  PROVE  IndInv'
  <1>1. request[r].pc \in Authenticated /\ contexts' \subseteq Context
    BY DEF Fail, Authenticated, IndInv, TypeOK
  <1>. QED BY <1>1, DecidedEnds DEF Fail
-----------------------------------------------------------------------------
(* The surroundings *)

(* Steps around the requests: what was revoked stays revoked, and time does *)
(* not go back.                                                             *)
LEMMA SurroundingsMove ==
  ASSUME IndInv, now' \in Nat, now <= now', revoked \subseteq revoked', revoked' \subseteq Credentials,
         UNCHANGED <<tenantState, request, contexts, active, facts>>
  PROVE  IndInv'
  <1>1. TypeOK'
    BY DEF IndInv, TypeOK
  <1>2. \A s \in Requests : RequestOK(s)' /\ Activated(s)'
    BY OthersStand
  <1>3. FactsOK' /\ FactPerAttempt'
    BY NoFact
  <1>. QED BY <1>1, <1>2, <1>3 DEF IndInv

LEMMA TenantChangesStep ==
  ASSUME IndInv, NEW t \in Tenants, NEW state \in States, TenantChanges(t, state)
  PROVE  IndInv'
  <1>1. /\ tenantState' = [tenantState EXCEPT ![t] = state]
        /\ UNCHANGED <<now, revoked, contexts, active, facts>>
    BY DEF TenantChanges
  <1>2. ASSUME NEW s \in Requests, request[s].pc \notin Running PROVE request'[s] = request[s]
    BY <1>2 DEF TenantChanges
  <1>3. ASSUME NEW s \in Requests, request[s].pc \in Running
        PROVE  /\ request[s] \in Live /\ request'[s] \in Live
               /\ request'[s].pc = request[s].pc /\ request'[s].entry = request[s].entry
               /\ request'[s].credential = request[s].credential /\ request'[s].selector = request[s].selector
               /\ request'[s].body = request[s].body /\ request'[s].permission = request[s].permission
               /\ request'[s].correlation = request[s].correlation /\ request'[s].tenant = request[s].tenant
               /\ request'[s].seen = request[s].seen /\ request'[s].revokedBefore = request[s].revokedBefore
               /\ request'[s].expiredBefore = request[s].expiredBefore
               /\ (request'[s].wasActive <=>
                     request[s].wasActive \/ (Selected(request[s]) = t /\ state = "ACTIVE"))
    <2>1. request[s] \in Live
      BY <1>3, LiveRequest DEF IndInv
    <2>2. request'[s] = IF Selected(request[s]) = t /\ state = "ACTIVE"
                        THEN [request[s] EXCEPT !.wasActive = TRUE] ELSE request[s]
      BY <1>3 DEF TenantChanges
    <2>3. CASE Selected(request[s]) = t /\ state = "ACTIVE"
      <3>1. PICK x, y : x = request[s] /\ y = request'[s]
        OBVIOUS
      <3>2. x \in Live /\ y = [x EXCEPT !.wasActive = TRUE]
        BY <2>1, <2>2, <2>3, <3>1
      <3>3. /\ y \in Live
            /\ y.pc = x.pc /\ y.entry = x.entry /\ y.credential = x.credential
            /\ y.selector = x.selector /\ y.body = x.body /\ y.permission = x.permission
            /\ y.correlation = x.correlation /\ y.tenant = x.tenant /\ y.seen = x.seen
            /\ y.revokedBefore = x.revokedBefore /\ y.expiredBefore = x.expiredBefore
            /\ y.wasActive
        BY <3>2 DEF Live
      <3>. QED BY <2>3, <3>1, <3>2, <3>3
    <2>4. CASE ~(Selected(request[s]) = t /\ state = "ACTIVE")
      <3>1. request'[s] = request[s]
        BY <2>2, <2>4
      <3>. QED BY <2>1, <2>4, <3>1
    <2>. QED BY <2>3, <2>4
  <1>4. TypeOK'
    <2>1. request' \in [Requests -> Live \cup {Idle, Refused, Done}]
      <3>1. \A s \in Requests : request'[s] \in Live \cup {Idle, Refused, Done}
        BY <1>2, <1>3 DEF IndInv, TypeOK
      <3>2. request' = [s \in Requests |-> request'[s]]
        BY DEF TenantChanges
      <3>. QED BY <3>1, <3>2
    <2>. QED BY <1>1, <2>1 DEF IndInv, TypeOK
  <1>5. ASSUME NEW s \in Requests PROVE RequestOK(s)'
    <2>1. CASE request[s].pc \notin Running
      BY <1>2, <2>1 DEF RequestOK
    <2>2. CASE request[s].pc \in Running
      <3>1. Remembered(request[s]) /\ Checked(request[s])
        BY <2>2 DEF IndInv, RequestOK
      <3>2. PICK q : q = request'[s]
        OBVIOUS
      <3>3. Selected(q) = Selected(request[s])
        BY <1>3, <2>2, <3>2, SelectionIsFixed
      <3>4. Checked(q)
        BY <1>3, <2>2, <3>1, <3>2, <3>3 DEF Checked
      <3>5. \A u \in Tenants : u = Selected(q) /\ tenantState'[u] = "ACTIVE" => q.wasActive
        <4>. SUFFICES ASSUME NEW u \in Tenants, u = Selected(q), tenantState'[u] = "ACTIVE"
                      PROVE  q.wasActive
          OBVIOUS
        <4>1. CASE u = t
          BY <1>1, <1>3, <2>2, <3>2, <3>3, <4>1 DEF IndInv, TypeOK
        <4>2. CASE u # t
          <5>1. tenantState[u] = "ACTIVE"
            BY <1>1, <4>2 DEF IndInv, TypeOK
          <5>2. request[s].wasActive
            BY <3>1, <3>3, <5>1 DEF Remembered
          <5>. QED BY <1>3, <2>2, <3>2, <5>2
        <4>. QED BY <4>1, <4>2
      <3>6. /\ q.revokedBefore => q.credential \in revoked
            /\ q.expiredBefore => Claims[q.credential].expires <= now
        BY <1>3, <2>2, <3>1, <3>2 DEF Remembered
      <3>. QED BY <1>1, <3>2, <3>4, <3>5, <3>6 DEF RequestOK, Remembered, Checked
    <2>. QED BY <2>1, <2>2
  <1>6. ASSUME NEW s \in Requests PROVE Activated(s)'
    <2>1. CASE request[s].pc \notin Running
      BY <1>1, <1>2, <2>1 DEF IndInv, Activated, Inside, At, ContextOf, ClaimsOf, SameIdentity
    <2>2. CASE request[s].pc \in Running
      <3>1. (Inside(s)' <=> Inside(s)) /\ request'[s].entry = request[s].entry
        BY <1>3, <2>2 DEF Inside, At
      <3>2. ContextOf(s)' = ContextOf(s)
        BY <1>3, <2>2 DEF ContextOf, ClaimsOf
      <3>3. Activated(s) /\ active'[s] = active[s]
        BY <1>1 DEF IndInv
      <3>. QED BY <3>1, <3>2, <3>3 DEF Activated, SameIdentity
    <2>. QED BY <2>1, <2>2
  <1>7. FactsOK' /\ FactPerAttempt'
    <2>1. \A s \in Requests : request'[s].pc = request[s].pc
      BY <1>2, <1>3
    <2>. QED BY <1>1, <2>1, NoFact
  <1>. QED BY <1>4, <1>5, <1>6, <1>7 DEF IndInv

-----------------------------------------------------------------------------
(* The theorems *)

LEMMA InitHolds == Init => IndInv
  <1>. SUFFICES ASSUME Init PROVE IndInv
    OBVIOUS
  <1>1. facts = <<>> /\ \A r \in Requests : request[r] = Idle /\ active[r] = <<>>
    BY DEF Init
  <1>2. TypeOK
    <2>1. <<>> \in Seq(Context) /\ <<>> \in Seq(AFact)
      OBVIOUS
    <2>. QED BY <2>1 DEF Init, TypeOK, States
  <1>3. \A r \in Requests : RequestOK(r) /\ Activated(r)
    BY <1>1 DEF RequestOK, Activated, Inside, At, Idle, Running
  <1>4. FactsOK
    BY <1>1 DEF FactsOK
  <1>5. FactPerAttempt
    <2>1. \A r \in Requests : FactsOf(r) = {}
      BY <1>1 DEF FactsOf
    <2>. QED BY <1>1, <2>1 DEF FactPerAttempt, Idle
  <1>. QED BY <1>2, <1>3, <1>4, <1>5 DEF IndInv

LEMMA StepHolds == IndInv /\ [Next]_vars => IndInv'
  <1>. SUFFICES ASSUME IndInv, [Next]_vars PROVE IndInv'
    OBVIOUS
  <1>1. ASSUME NEW r \in Requests, NEW q \in Arrivals, Begin(r, q) PROVE IndInv'
    BY <1>1, BeginStep
  <1>2. ASSUME NEW r \in Requests, Verify(r) PROVE IndInv'
    BY <1>2, VerifyStep
  <1>3. ASSUME NEW r \in Requests, CheckRevocation(r) PROVE IndInv'
    BY <1>3, CheckRevocationStep
  <1>4. ASSUME NEW r \in Requests, AuthenticationError(r) PROVE IndInv'
    BY <1>4, AuthenticationErrorStep
  <1>5. ASSUME NEW r \in Requests, ReadTenantState(r) PROVE IndInv'
    BY <1>5, ReadTenantStateStep
  <1>6. ASSUME NEW r \in Requests, ResolveTenantContext(r) PROVE IndInv'
    BY <1>6, ResolveTenantContextStep
  <1>7. ASSUME NEW r \in Requests, Enter(r) PROVE IndInv'
    BY <1>7, EnterStep
  <1>8. ASSUME NEW r \in Requests, NEW context \in contexts, Nest(r, context) PROVE IndInv'
    BY <1>8, NestStep
  <1>9. ASSUME NEW r \in Requests, Leave(r) PROVE IndInv'
    BY <1>9, LeaveStep
  <1>10. ASSUME NEW r \in Requests, EnterPlatform(r) PROVE IndInv'
    BY <1>10, EnterPlatformStep
  <1>11. ASSUME NEW r \in Requests, Fail(r) PROVE IndInv'
    BY <1>11, FailStep
  <1>12. CASE Tick
    <2>1. now' \in Nat /\ now <= now' /\ revoked' \subseteq Credentials /\ revoked \subseteq revoked'
      BY <1>12 DEF Tick, IndInv, TypeOK
    <2>. QED BY <1>12, <2>1, SurroundingsMove DEF Tick
  <1>13. ASSUME NEW c \in Credentials, Revoke(c) PROVE IndInv'
    <2>1. now' \in Nat /\ now <= now' /\ revoked' \subseteq Credentials /\ revoked \subseteq revoked'
      BY <1>13 DEF Revoke, IndInv, TypeOK
    <2>. QED BY <1>13, <2>1, SurroundingsMove DEF Revoke
  <1>14. ASSUME NEW t \in Tenants, NEW state \in States, TenantChanges(t, state) PROVE IndInv'
    BY <1>14, TenantChangesStep
  <1>15. CASE UNCHANGED vars
    <2>1. now' \in Nat /\ now <= now' /\ revoked' \subseteq Credentials /\ revoked \subseteq revoked'
      BY <1>15 DEF vars, IndInv, TypeOK
    <2>. QED BY <1>15, <2>1, SurroundingsMove DEF vars
  <1>. QED BY <1>1, <1>2, <1>3, <1>4, <1>5, <1>6, <1>7, <1>8, <1>9, <1>10, <1>11, <1>12, <1>13, <1>14, <1>15
          DEF Next

(* What every check on a request's way found stays true of it, in every     *)
(* reachable state: the strengthening the other theorems follow from.       *)
THEOREM Invariance == Spec => []IndInv
  BY InitHolds, StepHolds, PTL DEF Spec

LEMMA AdmissionFollows == IndInv => AdmittedWhileAllowed
  <1>. SUFFICES ASSUME IndInv, NEW r \in Requests, Inside(r)
                PROVE  /\ ~request[r].revokedBefore /\ ~request[r].expiredBefore
                       /\ request[r].entry # "platform" => request[r].wasActive
    BY DEF AdmittedWhileAllowed
  <1>1. request[r].pc = "inside" /\ request[r].pc \in Running
    BY DEF Inside, At, Running
  <1>2. Checked(request[r])
    BY <1>1 DEF IndInv, RequestOK
  <1>. QED BY <1>1, <1>2 DEF Checked, Authenticated

(* No request acts whose credential was revoked or had expired when it      *)
(* came, and none in a tenant that was never ACTIVE since (authenticator,   *)
(* resolveTenantContext, resolvePlatformCommandContext), for any provider's *)
(* clock tolerance.                                                         *)
THEOREM AdmittedOnlyWhileAllowed == Spec => []AdmittedWhileAllowed
  BY Invariance, AdmissionFollows, PTL

LEMMA IdentityFollows == IndInv => ActsForItsCredential
  <1>. SUFFICES ASSUME IndInv, NEW r \in Requests, Inside(r)
                PROVE  IF request[r].entry = "platform"
                       THEN /\ active[r] = <<>>
                            /\ PlatformAudience \in ClaimsOf(r).audiences
                            /\ ClaimsOf(r).tenants = {} /\ ClaimsOf(r).mfa
                            /\ request[r].permission \in PlatformPermissionsFor(ClaimsOf(r).roles)
                       ELSE /\ active[r] # <<>>
                            /\ request[r].tenant \in ClaimsOf(r).tenants
                            /\ \A i \in 1 .. Len(active[r]) :
                                 /\ active[r][i].credential = request[r].credential
                                 /\ active[r][i].tenant = request[r].tenant
                                 /\ active[r][i].scopes \subseteq ClaimsOf(r).scopes
    BY DEF ActsForItsCredential
  <1>1. request[r].pc = "inside" /\ request[r].pc \in Running /\ request[r] \in Live
    BY LiveRequest DEF Inside, At, Running, IndInv
  <1>2. Checked(request[r]) /\ Activated(r)
    BY <1>1 DEF IndInv, RequestOK
  <1>3. Entitled(request[r].entry, ClaimsOf(r)) /\ Recognised(request[r].entry, ClaimsOf(r))
    BY <1>1, <1>2 DEF Checked, Authenticated, ClaimsOf
  <1>4. CASE request[r].entry = "platform"
    <2>1. ClaimsOf(r).tenants = {} /\ ClaimsOf(r).mfa
      BY <1>3, <1>4 DEF Entitled
    <2>2. PlatformAudience \in ClaimsOf(r).audiences
      BY <1>1, <1>2, <1>3, <1>4 DEF Checked, Recognised
    <2>. QED BY <1>1, <1>2, <1>4, <2>1, <2>2 DEF Checked, Activated, ClaimsOf
  <1>5. CASE request[r].entry # "platform"
    <2>1. ScopesOf(request[r].entry, ClaimsOf(r)) \subseteq ClaimsOf(r).scopes
      BY <1>1, <1>3, <1>5, ScopesAreCut DEF Live
    <2>2. request[r].tenant \in ClaimsOf(r).tenants
      BY <1>1, <1>2, <1>5 DEF Checked, ClaimsOf
    <2>3. active[r] # <<>> /\ \A i \in 1 .. Len(active[r]) : SameIdentity(ContextOf(r), active[r][i])
      BY <1>2, <1>5 DEF Activated
    <2>. QED BY <1>5, <2>1, <2>2, <2>3 DEF SameIdentity, ContextOf
  <1>. QED BY <1>4, <1>5

(* Whatever contexts a request activates, those of other requests included  *)
(* (runWithTenantContext), it acts for its own credential, in one tenant    *)
(* the credential names and within its scopes; a platform request acts in   *)
(* no tenant and for an operator who has the role.                          *)
THEOREM ActsOnlyForItsCredential == Spec => []ActsForItsCredential
  BY Invariance, IdentityFollows, PTL

LEMMA EntriesFollow == IndInv => EntryPointsApart
  <1>. SUFFICES ASSUME IndInv, NEW i \in 1 .. Len(facts), NEW j \in 1 .. Len(facts),
                       AcceptedTwice(i, j)
                PROVE  /\ "platform" \notin {facts[i].entry, facts[j].entry}
                       /\ Policy["interactive"].issuer = Policy["workload"].issuer
                       /\ {Audience[e] : e \in {facts[i].entry, facts[j].entry}}
                            \subseteq Claims[facts[i].credential].audiences
                       /\ RequiredScopes \subseteq Claims[facts[i].credential].scopes
                       /\ Cardinality(Claims[facts[i].credential].tenants) = 1
    BY DEF EntryPointsApart
  <1>1. facts[i].entry \in Entries /\ facts[j].entry \in Entries
    <2>1. facts[i] \in AFact /\ facts[j] \in AFact
      BY DEF IndInv, TypeOK
    <2>. QED BY <2>1 DEF AFact
  <1>2. PICK claims : claims = Claims[facts[i].credential]
    OBVIOUS
  <1>3. /\ Recognised(facts[i].entry, claims) /\ Entitled(facts[i].entry, claims)
        /\ Recognised(facts[j].entry, claims) /\ Entitled(facts[j].entry, claims)
        /\ facts[i].entry # facts[j].entry
    BY <1>2 DEF IndInv, FactsOK, Succeeded, AcceptedTwice
  <1>4. /\ {facts[i].entry, facts[j].entry} = {"interactive", "workload"}
        /\ Policy["interactive"].issuer = Policy["workload"].issuer
        /\ Audience[facts[i].entry] \in claims.audiences /\ Audience[facts[j].entry] \in claims.audiences
        /\ RequiredScopes \subseteq claims.scopes /\ Cardinality(claims.tenants) = 1
    BY <1>1, <1>3, EntriesOverlap
  <1>. QED BY <1>2, <1>4

(* However providers share issuers and audiences, no credential is accepted *)
(* both as an operator's and at a tenant entry point, and one is accepted   *)
(* both as a user's and as a worker's only if the two providers have one    *)
(* issuer and it is addressed to both, has the worker's scopes and names    *)
(* one tenant (verify and the three entry points of the authenticator).     *)
THEOREM EntryPointsStayApart == Spec => []EntryPointsApart
  BY Invariance, EntriesFollow, PTL

(* Every authentication that ended left one fact, which tells how it ended  *)
(* (attempt).                                                               *)
THEOREM OneFactPerAttempt == Spec => []FactPerAttempt
  <1>1. IndInv => FactPerAttempt
    BY DEF IndInv
  <1>. QED BY <1>1, Invariance, PTL

=============================================================================

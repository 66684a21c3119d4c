------------------------------ MODULE Ingress -------------------------------
(***************************************************************************)
(* How a request comes to act for a tenant or for the platform: the HTTP   *)
(* ingress (apps/api), the authenticator (modules/identity-tenant) and the *)
(* trusted contexts (platform/tenant-context).  A request authenticates at *)
(* the entry point of its route, the state of the selected tenant is read, *)
(* a context is issued and activated, and work runs under it, possibly     *)
(* activating further contexts.  Each of these awaits, and meanwhile time  *)
(* passes, credentials are revoked and tenants are suspended.              *)
(*                                                                         *)
(* A tenant job (runTenantJob) takes the way of a tenant request with a    *)
(* workload credential; its scheduler, which is not part of the            *)
(* repository, authenticates and reads the tenant's state as the ingress   *)
(* does.                                                                   *)
(***************************************************************************)
EXTENDS Naturals, Sequences, FiniteSets, SequencesExt

CONSTANTS Requests,
          Credentials,
          Claims,            \* what the verifier finds in each credential, with any provider
          Policy,            \* the identity provider of each entry point
          Audience,          \* requiredAudience of each entry point
          PlatformAudience,  \* PLATFORM_AUDIENCE
          RequiredScopes,    \* of a job
          Tenants, NoTenant,
          Arrivals,          \* what may be asked for: see Arrival
          MaxTime, MaxStateChanges, MaxRevocations, MaxNesting   \* bounds

Entries == {"interactive", "workload", "platform"}
PlatformPermissions == {"platform:tenant:provision", "platform:tenant:lifecycle"}
NoPermission == "none"
States == {"ACTIVE", "SUSPENDED", "CLOSED"}
Mechanisms == {"oidc", "saml", "workload_token"}

(* Nothing keeps two providers from having one issuer.                     *)
ASSUME PolicyAssumption ==
  \A e \in Entries : Policy[e].mechanism \in Mechanisms /\ Policy[e].skew \in Nat
ASSUME ClaimsAssumption ==
  \A c \in Credentials : Claims[c].tenants \subseteq Tenants /\ Claims[c].expires \in Nat
ASSUME NoTenantAssumption == NoTenant \notin Tenants

VARIABLES now,          \* the clock
          revoked,      \* credential_revocation, committed
          tenantState,  \* tenant.state, committed
          stateChanges, \* how often a state changed
          request,      \* the requests
          contexts,     \* the tenant contexts issued so far
          active,       \* AsyncLocalStorage: contexts activated in each request
          facts         \* the authentication facts

vars == <<now, revoked, tenantState, stateChanges, request, contexts, active, facts>>

(* body: the body names a tenant; correlation: X-Correlation-Id, chosen by  *)
(* the client.                                                              *)
Arrival == [entry : Entries, credential : Credentials, selector : Tenants \cup {NoTenant},
            body : BOOLEAN, permission : PlatformPermissions \cup {NoPermission}, correlation : Nat]

ASSUME ArrivalsAssumption ==
  \A q \in Arrivals :
    /\ q \in Arrival
    /\ q.entry = "workload" => q.selector # NoTenant /\ ~q.body
    /\ q.entry = "platform" <=> q.permission # NoPermission

(* The header's tenant, or the only membership. *)
Selected(q) ==
  LET tenants == Claims[q.credential].tenants IN
  CASE q.selector # NoTenant -> q.selector
    [] q.selector = NoTenant /\ Cardinality(tenants) = 1 -> CHOOSE t \in tenants : TRUE
    [] OTHER -> NoTenant

(* revokedBefore, expiredBefore: how the credential stood when the request  *)
(* came; wasActive: its tenant was ACTIVE at some moment since.             *)
Begun(q) ==
  [pc |-> "begun", entry |-> q.entry, credential |-> q.credential, selector |-> q.selector,
   body |-> q.body, permission |-> q.permission, correlation |-> q.correlation,
   tenant |-> NoTenant, seen |-> "unread",
   revokedBefore |-> q.credential \in revoked, expiredBefore |-> Claims[q.credential].expires <= now,
   wasActive |-> \E t \in Tenants : t = Selected(q) /\ tenantState[t] = "ACTIVE"]
Running == {"begun", "verified", "authenticated", "read", "resolved", "inside"}
Idle == [pc |-> "idle"]
Refused == [pc |-> "refused"]
Done == [pc |-> "done"]

(* Tenants that are open for business. *)
Init ==
  /\ now = 0
  /\ revoked = {}
  /\ tenantState = [t \in Tenants |-> "ACTIVE"]
  /\ stateChanges = 0
  /\ request = [r \in Requests |-> Idle]
  /\ contexts = {}
  /\ active = [r \in Requests |-> <<>>]
  /\ facts = <<>>

At(r, pc) == request[r].pc = pc
ClaimsOf(r) == Claims[request[r].credential]

-----------------------------------------------------------------------------
(* Authentication *)

(* jwtVerify, of the jose library, with the policy's issuer, audiences and  *)
(* clock tolerance.                                                         *)
SignatureHolds(claims, policy) ==
  /\ policy.mechanism # "saml"
  /\ claims.issuer = policy.issuer
  /\ claims.audiences \cap policy.audiences # {}

(* validateBaseClaims.  The mechanism it compares with the policy's is no   *)
(* claim of the credential: the JWT adapter takes it from the policy.       *)
BaseClaimsHold(claims, policy, audience) ==
  /\ claims.issuer = policy.issuer
  /\ audience \in policy.audiences \cap claims.audiences
  /\ claims.expires + policy.skew > now
  /\ claims.notBefore <= now + policy.skew

Expected(entry) == IF entry = "workload" THEN {"workload_token"} ELSE {"oidc", "saml"}

(* The tenant entry points refuse the platform's audience. *)
Verified(entry, claims) ==
  LET policy == Policy[entry]
  IN  /\ entry # "platform" => Audience[entry] # PlatformAudience
      /\ policy.mechanism \in Expected(entry)
      /\ SignatureHolds(claims, policy)
      /\ BaseClaimsHold(claims, policy, Audience[entry])

(* Mutation: a platform operator's token may name tenants. *)
EntitledAnywhere(entry, claims) ==
  CASE entry = "interactive" -> (Policy[entry].requireMfa => claims.mfa) /\ claims.tenants # {}
    [] entry = "workload" -> /\ Cardinality(claims.tenants) = 1
                             /\ RequiredScopes \subseteq claims.scopes
    [] entry = "platform" -> claims.mfa

(* What each entry point demands beyond a verified credential. *)
Entitled(entry, claims) ==
  LET policy == Policy[entry] IN
  CASE entry = "interactive" -> (policy.requireMfa => claims.mfa) /\ claims.tenants # {}
    [] entry = "workload" ->
         /\ Cardinality(claims.tenants) = 1
         /\ RequiredScopes # {}
         /\ RequiredScopes \subseteq claims.scopes
         /\ claims.scopes \subseteq policy.workloadScopes
    [] entry = "platform" -> claims.tenants = {} /\ claims.mfa

(* platformPermissionsFor: a role the catalog does not know grants nothing. *)
PlatformPermissionsFor(roles) ==
  (IF "platform_tenant_provisioner" \in roles THEN {"platform:tenant:provision"} ELSE {})
  \cup (IF "platform_tenant_lifecycle_operator" \in roles THEN {"platform:tenant:lifecycle"} ELSE {})

(* The scopes of the principal: a worker's are cut to the job's. *)
ScopesOf(entry, claims) ==
  CASE entry = "interactive" -> {}
    [] entry = "workload" -> RequiredScopes
    [] entry = "platform" -> PlatformPermissionsFor(claims.roles)

Fact(r, outcome) ==
  [request |-> r, entry |-> request[r].entry, credential |-> request[r].credential, outcome |-> outcome]

(* attempt: a refusal and its fact. *)
RejectCredential(r) ==
  /\ facts' = Append(facts, Fact(r, "failed"))
  /\ request' = [request EXCEPT ![r] = Refused]

(* A request on a tenant or a platform route, or a job for a tenant.  One   *)
(* without a well-formed Authorization header is answered before any of     *)
(* this, and leaves no fact.                                                *)
Begin(r, q) ==
  /\ At(r, "idle")
  /\ request' = [request EXCEPT ![r] = Begun(q)]
  /\ UNCHANGED <<now, revoked, tenantState, stateChanges, contexts, active, facts>>

(* verify, up to the revocation list. *)
Verify(r) ==
  /\ At(r, "begun")
  /\ IF Verified(request[r].entry, ClaimsOf(r))
     THEN request' = [request EXCEPT ![r].pc = "verified"] /\ UNCHANGED facts
     ELSE RejectCredential(r)
  /\ UNCHANGED <<now, revoked, tenantState, stateChanges, contexts, active>>

(* Mutation: what an entry point demands is refused without a fact. *)
CheckRevocationSilently(r) ==
  /\ At(r, "verified")
  /\ IF request[r].credential \in revoked THEN RejectCredential(r)
     ELSE IF Entitled(request[r].entry, ClaimsOf(r))
     THEN /\ facts' = Append(facts, Fact(r, "succeeded"))
          /\ request' = [request EXCEPT ![r].pc = "authenticated"]
     ELSE request' = [request EXCEPT ![r] = Refused] /\ UNCHANGED facts
  /\ UNCHANGED <<now, revoked, tenantState, stateChanges, contexts, active>>

(* isRevoked, and with its answer the rest of the entry point. *)
CheckRevocation(r) ==
  /\ At(r, "verified")
  /\ IF request[r].credential \notin revoked /\ Entitled(request[r].entry, ClaimsOf(r))
     THEN /\ facts' = Append(facts, Fact(r, "succeeded"))
          /\ request' = [request EXCEPT ![r].pc = "authenticated"]
     ELSE RejectCredential(r)
  /\ UNCHANGED <<now, revoked, tenantState, stateChanges, contexts, active>>

(* The identity provider or the revocation list cannot be reached. *)
AuthenticationError(r) ==
  /\ request[r].pc \in {"begun", "verified"}
  /\ RejectCredential(r)
  /\ UNCHANGED <<now, revoked, tenantState, stateChanges, contexts, active>>

-----------------------------------------------------------------------------
(* Contexts *)

(* Only for a member, and without a tenant in the body, is the state read;  *)
(* a placeholder stands for it otherwise.                                   *)
ReadTenantState(r) ==
  LET tenant == Selected(request[r])
      reads == request[r].entry = "workload" \/ (tenant \in ClaimsOf(r).tenants /\ ~request[r].body)
  IN  /\ At(r, "authenticated")
      /\ request[r].entry # "platform"
      /\ request' = [request EXCEPT ![r] =
           IF tenant = NoTenant THEN Refused
           ELSE [@ EXCEPT !.pc = "read", !.tenant = tenant,
                          !.seen = IF reads THEN tenantState[tenant] ELSE "ACTIVE"]]
      /\ UNCHANGED <<now, revoked, tenantState, stateChanges, contexts, active, facts>>

ContextOf(r) ==
  [tenant |-> request[r].tenant, credential |-> request[r].credential, entry |-> request[r].entry,
   scopes |-> ScopesOf(request[r].entry, ClaimsOf(r)), correlation |-> request[r].correlation]

(* Mutation: a principal is good for as long as it is remembered. *)
IsForever(r) == TRUE

(* assertPrincipalCurrent: without tolerance. *)
IsCurrent(r) == ClaimsOf(r).expires > now

(* runTenantJob: it starts outside any context, as a workload of one tenant. *)
JobHolds(r) == active[r] = <<>> /\ Cardinality(ClaimsOf(r).tenants) = 1

(* resolveTenantContext, for a request or a job. *)
ResolveTenantContext(r) ==
  /\ At(r, "read")
  /\ IF /\ request[r].entry = "workload" => JobHolds(r)
        /\ IsCurrent(r)
        /\ ~request[r].body
        /\ request[r].tenant \in ClaimsOf(r).tenants
        /\ request[r].seen = "ACTIVE"
     THEN /\ contexts' = contexts \cup {ContextOf(r)}
          /\ request' = [request EXCEPT ![r].pc = "resolved"]
     ELSE request' = [request EXCEPT ![r] = Refused] /\ UNCHANGED contexts
  /\ UNCHANGED <<now, revoked, tenantState, stateChanges, active, facts>>

(* Mutation: any context of the same tenant or credential will do. *)
SameTenantOrCredential(x, y) == x.tenant = y.tenant \/ x.credential = y.credential

(* What may not differ between an active context and a nested one. *)
SameIdentity(x, y) ==
  /\ x.tenant = y.tenant
  /\ x.credential = y.credential /\ x.entry = y.entry
  /\ x.correlation = y.correlation
  /\ x.scopes = y.scopes

(* runWithTenantContext at the root of a request. *)
Enter(r) ==
  /\ At(r, "resolved")
  /\ active' = [active EXCEPT ![r] = <<ContextOf(r)>>]
  /\ request' = [request EXCEPT ![r].pc = "inside"]
  /\ UNCHANGED <<now, revoked, tenantState, stateChanges, contexts, facts>>

(* runWithTenantContext under an active context.  A context that differs    *)
(* makes it throw, and changes nothing.                                     *)
Nest(r, context) ==
  /\ At(r, "inside")
  /\ active[r] # <<>>
  /\ Len(active[r]) <= MaxNesting
  /\ SameIdentity(Last(active[r]), context)
  /\ active' = [active EXCEPT ![r] = Append(@, context)]
  /\ UNCHANGED <<now, revoked, tenantState, stateChanges, request, contexts, facts>>

(* The operation ends, and with the outermost the request. *)
Leave(r) ==
  /\ At(r, "inside")
  /\ active' = [active EXCEPT ![r] = IF @ = <<>> THEN @ ELSE Front(@)]
  /\ request' = IF Len(active[r]) <= 1 THEN [request EXCEPT ![r] = Done] ELSE request
  /\ UNCHANGED <<now, revoked, tenantState, stateChanges, contexts, facts>>

(* resolvePlatformCommandContext: without tolerance, too. *)
PlatformContextIssued(r) == ClaimsOf(r).expires > now

(* createPlatformAuthorizer. *)
PlatformAllowed(r) ==
  /\ request[r].permission \in PlatformPermissions
  /\ request[r].entry # "workload" /\ ClaimsOf(r).mfa
  /\ Audience[request[r].entry] = PlatformAudience
  /\ request[r].permission \in ScopesOf(request[r].entry, ClaimsOf(r))

(* A platform route: its context and assertAllowed; no tenant is entered. *)
EnterPlatform(r) ==
  /\ At(r, "authenticated")
  /\ request[r].entry = "platform"
  /\ request' = [request EXCEPT ![r] =
       IF PlatformContextIssued(r) /\ PlatformAllowed(r) THEN [@ EXCEPT !.pc = "inside"] ELSE Refused]
  /\ UNCHANGED <<now, revoked, tenantState, stateChanges, contexts, active, facts>>

(* The body is malformed, the tenant's state cannot be read, or the work    *)
(* throws, which ends what runWithTenantContext activated.                  *)
Fail(r) ==
  /\ request[r].pc \in {"authenticated", "read", "resolved", "inside"}
  /\ request' = [request EXCEPT ![r] = Refused]
  /\ active' = [active EXCEPT ![r] = <<>>]
  /\ UNCHANGED <<now, revoked, tenantState, stateChanges, contexts, facts>>

-----------------------------------------------------------------------------
(* The surroundings *)

Tick ==
  /\ now < MaxTime
  /\ now' = now + 1
  /\ UNCHANGED <<revoked, tenantState, stateChanges, request, contexts, active, facts>>

(* A row is added to credential_revocation. *)
Revoke(c) ==
  /\ c \notin revoked
  /\ Cardinality(revoked) < MaxRevocations
  /\ revoked' = revoked \cup {c}
  /\ UNCHANGED <<now, tenantState, stateChanges, request, contexts, active, facts>>

Successors(state) ==
  CASE state = "ACTIVE" -> {"SUSPENDED", "CLOSED"}
    [] state = "SUSPENDED" -> {"ACTIVE", "CLOSED"}
    [] state = "CLOSED" -> {}

(* A lifecycle command (TenantCommands) commits. *)
TenantChanges(t, state) ==
  /\ stateChanges < MaxStateChanges
  /\ state \in Successors(tenantState[t])
  /\ stateChanges' = stateChanges + 1
  /\ tenantState' = [tenantState EXCEPT ![t] = state]
  /\ request' = [r \in Requests |->
       IF request[r].pc \in Running /\ Selected(request[r]) = t /\ state = "ACTIVE"
       THEN [request[r] EXCEPT !.wasActive = TRUE] ELSE request[r]]
  /\ UNCHANGED <<now, revoked, contexts, active, facts>>

Next ==
  \/ \E r \in Requests :
       \/ \E q \in Arrivals : Begin(r, q)
       \/ Verify(r) \/ CheckRevocation(r) \/ AuthenticationError(r)
       \/ ReadTenantState(r) \/ ResolveTenantContext(r) \/ Enter(r)
       \/ \E context \in contexts : Nest(r, context)
       \/ Leave(r) \/ EnterPlatform(r) \/ Fail(r)
  \/ Tick
  \/ \E c \in Credentials : Revoke(c)
  \/ \E t \in Tenants, state \in States : TenantChanges(t, state)

Spec == Init /\ [][Next]_vars

-----------------------------------------------------------------------------
(* Safety *)

Inside(r) == At(r, "inside")

(* 'Checked on every authentication so revocation affects the next          *)
(* request': no request acts whose credential was revoked, or had expired,  *)
(* when it came, whatever the provider's clock tolerance, and none acts in  *)
(* a tenant that has not been ACTIVE at any moment since it came.           *)
AdmittedWhileAllowed ==
  \A r \in Requests : Inside(r) =>
    /\ ~request[r].revokedBefore
    /\ ~request[r].expiredBefore
    /\ request[r].entry # "platform" => request[r].wasActive

(* Whatever a request activates while it runs, contexts of other requests   *)
(* included, it acts for its own credential, in the one tenant it selected  *)
(* out of those the credential names, within the credential's scopes; and   *)
(* a platform request acts in no tenant, for an operator who has the role.  *)
ActsForItsCredential ==
  \A r \in Requests : Inside(r) =>
    IF request[r].entry = "platform"
    THEN /\ active[r] = <<>>
         /\ PlatformAudience \in ClaimsOf(r).audiences
         /\ ClaimsOf(r).tenants = {} /\ ClaimsOf(r).mfa
         /\ request[r].permission \in PlatformPermissionsFor(ClaimsOf(r).roles)
    ELSE /\ active[r] # <<>>
         /\ request[r].tenant \in ClaimsOf(r).tenants
         /\ \A i \in 1 .. Len(active[r]) :
              /\ active[r][i].credential = request[r].credential
              /\ active[r][i].tenant = request[r].tenant
              /\ active[r][i].scopes \subseteq ClaimsOf(r).scopes

(* The credential of facts i and j was accepted at two entry points. *)
AcceptedTwice(i, j) ==
  /\ facts[i].outcome = "succeeded" /\ facts[j].outcome = "succeeded"
  /\ facts[i].credential = facts[j].credential
  /\ facts[i].entry # facts[j].entry

(* 'Separate entry points with separate audiences': an operator's           *)
(* credential is accepted at no other entry point, nor one of theirs as an  *)
(* operator's, at any time and however providers share issuers; and one     *)
(* that is accepted both as a user's and as a worker's comes from an issuer *)
(* the two providers share, is addressed to both audiences, has all the     *)
(* worker's scopes and names one tenant, where it acts either way.          *)
EntryPointsApart ==
  \A i, j \in 1 .. Len(facts) : AcceptedTwice(i, j) =>
    LET entries == {facts[i].entry, facts[j].entry}
        claims == Claims[facts[i].credential]
    IN  /\ "platform" \notin entries
        /\ Policy["interactive"].issuer = Policy["workload"].issuer
        /\ {Audience[e] : e \in entries} \subseteq claims.audiences
        /\ RequiredScopes \subseteq claims.scopes
        /\ Cardinality(claims.tenants) = 1

(* 'A credential accepted by one is never accepted by another', as the      *)
(* authenticator's documentation has it.  Not so for a user's and a         *)
(* worker's provider of one issuer: see EntryPointsApart.                   *)
OneEntryPoint == \A i, j \in 1 .. Len(facts) : ~AcceptedTwice(i, j)

FactsOf(r) == {i \in 1 .. Len(facts) : facts[i].request = r}

(* 'Receives a security fact for every attempt': one fact and no more for   *)
(* each request whose authentication has ended, and it tells how it ended.  *)
FactPerAttempt ==
  \A r \in Requests :
    /\ request[r].pc \in {"idle", "begun", "verified"} => FactsOf(r) = {}
    /\ request[r].pc \in {"authenticated", "read", "resolved", "inside", "done"} =>
         \E i \in FactsOf(r) : FactsOf(r) = {i} /\ facts[i].outcome = "succeeded"
    /\ request[r].pc = "refused" => Cardinality(FactsOf(r)) = 1

=============================================================================

----------------------------- MODULE MCIngress ------------------------------
(* Instances of Ingress for TLC: providers for users, operators and         *)
(* workloads, of one issuer.                                                *)
EXTENDS Ingress, TLC

CONSTANTS A, B, user, operator, mixed, worker, old

Provider(mechanism, audience) ==
  [issuer |-> "people", mechanism |-> mechanism, audiences |-> {audience}, skew |-> 1,
   requireMfa |-> FALSE, workloadScopes |-> {"purge"}]

MCPolicy ==
  [interactive |-> Provider("oidc", "api"),
   workload    |-> Provider("workload_token", "jobs"),
   platform    |-> Provider("oidc", "platform")]

MCAudience == [interactive |-> "api", workload |-> "jobs", platform |-> "platform"]

Token(audiences, tenants) ==
  [issuer |-> "people", audiences |-> audiences, tenants |-> tenants, mfa |-> TRUE,
   scopes |-> {}, roles |-> {}, expires |-> 1, notBefore |-> 0]

(* A member of two tenants, an operator, somebody whose token is addressed  *)
(* to users and operators, a worker of one tenant whose token is addressed  *)
(* to users as well, and a token within the tolerance.                      *)
MCClaims ==
  (user :> Token({"api"}, {A, B}))
  @@ (operator :> [Token({"api", "platform"}, {}) EXCEPT
                     !.roles = {"platform_tenant_lifecycle_operator"}])
  @@ (mixed :> [Token({"api", "platform"}, {A}) EXCEPT
                  !.roles = {"platform_tenant_provisioner"}])
  @@ (worker :> [Token({"api", "jobs"}, {A}) EXCEPT !.scopes = {"purge"}])
  @@ (old :> [Token({"api"}, {A}) EXCEPT !.expires = 0])

Ask(entry, credential, selector, body, permission) ==
  [entry |-> entry, credential |-> credential, selector |-> selector, body |-> body,
   permission |-> permission, correlation |-> 0]
InTenant(credential, selector) == Ask("interactive", credential, selector, FALSE, NoPermission)
ForPlatform(credential, permission) == Ask("platform", credential, NoTenant, FALSE, permission)
ForJob(credential, tenant) == Ask("workload", credential, tenant, FALSE, NoPermission)

MCArrivals ==
  {InTenant(user, A), InTenant(user, B), InTenant(user, NoTenant),
   Ask("interactive", user, A, TRUE, NoPermission),
   InTenant(operator, A), InTenant(mixed, NoTenant), InTenant(worker, A), InTenant(old, A),
   ForPlatform(operator, "platform:tenant:lifecycle"),
   ForPlatform(operator, "platform:tenant:provision"), ForPlatform(mixed, "platform:tenant:provision"),
   ForJob(worker, A), ForJob(worker, B), ForJob(user, A)}

Symmetry == Permutations(Requests)

=============================================================================

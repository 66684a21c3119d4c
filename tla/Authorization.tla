--------------------------- MODULE Authorization ----------------------------
(***************************************************************************)
(* The tenant authorizer's decisions (modules/identity-tenant): which      *)
(* roles grant which permission for which resource, the limits a role      *)
(* attaches to its own grants, and the role templates and the approval     *)
(* policy a tenant starts with.  Everything here is a function of its      *)
(* arguments; Approvals asks it questions while roles change.              *)
(***************************************************************************)
EXTENDS Integers, Sequences

PermissionCatalog ==
  {"tenant:role:manage", "tenant:role:assign", "approval:request:propose",
   "approval:request:decide", "billing:invoice:preview", "billing:invoice:finalize",
   "pricing:rate_card:activate", "payments:payment:refund", "subscription:change:backdate",
   "collections:case:approve_exception", "portal:subscription:change", "audit:read",
   "outbox:dead_letter:resolve", "foundation:proof:execute"}

-----------------------------------------------------------------------------
(* Constraints on the attributes of a resource *)

(* A ConstraintValue is a number or a string; a constraint may also list    *)
(* several.                                                                 *)
Number(n) == [type |-> "number", is |-> n]
Text(t) == [type |-> "string", is |-> t]
ListOf(values) == [type |-> "array", is |-> values]
Same(v, w) == v.type = w.type /\ v.is = w.is

(* What the caller says of the resource; approvals say nothing. *)
NoAttributes == [attribute \in {} |-> Text("")]

Compares(operator, m, n) ==
  \/ operator = "lt"  /\ m < n
  \/ operator = "lte" /\ m <= n
  \/ operator = "gt"  /\ m > n
  \/ operator = "gte" /\ m >= n

Holds(constraint, actual) ==
  LET expected == constraint.value
  IN  CASE constraint.operator = "eq" -> Same(actual, expected)
        [] constraint.operator = "in" ->
             expected.type = "array" /\ \E v \in expected.is : Same(actual, v)
        [] OTHER -> /\ actual.type = "number" /\ expected.type = "number"
                    /\ Compares(constraint.operator, actual.is, expected.is)

(* Mutation: a limit on an attribute nobody mentioned is passed over. *)
ConstraintsSatisfiedIfKnown(constraints, attributes) ==
  \A constraint \in constraints :
    constraint.attribute \in DOMAIN attributes =>
      Holds(constraint, attributes[constraint.attribute])

(* Fail closed: a missing attribute satisfies nothing. *)
ConstraintsSatisfied(constraints, attributes) ==
  \A constraint \in constraints :
    /\ constraint.attribute \in DOMAIN attributes
    /\ Holds(constraint, attributes[constraint.attribute])

-----------------------------------------------------------------------------
(* Roles *)

EffectivePermissions(roles) ==
  {permission \in PermissionCatalog :
     \E role \in roles : role.status = "active" /\ permission \in role.permissions}

(* A limit narrows only the role it belongs to. *)
LimitsOn(role, permission) == {limit \in role.limits : limit.permission = permission}

GrantedByRoles(roles, permission, attributes) ==
  \E role \in roles :
    /\ role.status = "active"
    /\ permission \in role.permissions
    /\ ConstraintsSatisfied(LimitsOn(role, permission), attributes)

(* hasPermission: a workload's scopes or a person's roles grant; a tenant's *)
(* own constraints can only narrow that.                                    *)
IsPermitted(principal, roles, permission, constraints, attributes) ==
  /\ permission \in PermissionCatalog
  /\ IF principal.kind = "workload" THEN permission \in principal.scopes
     ELSE GrantedByRoles(roles, permission, attributes)
  /\ ConstraintsSatisfied(constraints, attributes)

-----------------------------------------------------------------------------
(* The persona matrix *)

Personas ==
  {"billing_administrator", "pricing_manager", "collections_agent", "customer_support",
   "finance_controller", "revenue_accountant", "sales", "product_manager", "operations",
   "developer", "auditor", "executive"}

(* basis: what backs the grant; condition: whether it carries one;          *)
(* enforcement: how the condition is enforced; decision: the Product        *)
(* Owner's.                                                                 *)
Grant(persona, permission, basis, condition, enforcement, decision) ==
  [persona |-> persona, permission |-> permission, basis |-> basis,
   condition |-> condition, enforcement |-> enforcement, decision |-> decision]

Plain(persona, permission) == Grant(persona, permission, "spec", FALSE, "none", "none")
Limited(persona, permission) == Grant(persona, permission, "spec", TRUE, "role-limit", "none")

PersonaGrants ==
  {Plain("billing_administrator", "billing:invoice:preview"),
   Limited("billing_administrator", "billing:invoice:finalize"),
   Limited("billing_administrator", "payments:payment:refund"),
   Grant("billing_administrator", "approval:request:propose", "inferred", TRUE, "none", "approved"),
   Grant("pricing_manager", "pricing:rate_card:activate", "spec", TRUE, "approval-policy", "none"),
   Plain("pricing_manager", "approval:request:propose")}
  \cup {Plain("finance_controller", permission) :
          permission \in {"billing:invoice:preview", "billing:invoice:finalize",
                          "payments:payment:refund", "subscription:change:backdate",
                          "approval:request:decide", "audit:read"}}
  \cup
  {Grant("finance_controller", "collections:case:approve_exception", "proposed", TRUE, "none", "approved"),
   Plain("product_manager", "approval:request:decide"),
   Grant("product_manager", "pricing:rate_card:activate", "inferred", TRUE, "none", "approved"),
   Plain("auditor", "audit:read"),
   Grant("operations", "outbox:dead_letter:resolve", "proposed", FALSE, "none", "declined")}

IsDefaultGrant(grant) ==
  /\ grant.decision # "declined"
  /\ grant.basis = "spec" \/ grant.decision = "approved"
  /\ ~grant.condition \/ grant.enforcement # "none" \/ grant.decision = "approved"

(* USD_10000, the one limit of the matrix. *)
UpTo10000(permission) ==
  [permission |-> permission, attribute |-> "amount_minor", operator |-> "lte",
   value |-> Number(1000000)]

DefaultGrants(persona) ==
  {grant \in PersonaGrants : grant.persona = persona /\ IsDefaultGrant(grant)}

(* defaultPersonaRoleTemplates, as the active roles stored from them. *)
RoleTemplates ==
  [persona \in Personas |->
     [status |-> "active",
      permissions |-> {grant.permission : grant \in DefaultGrants(persona)},
      limits |-> {UpTo10000(grant.permission) :
                    grant \in {g \in DefaultGrants(persona) : g.enforcement = "role-limit"}}]]

-----------------------------------------------------------------------------
(* DEFAULT_APPROVAL_POLICIES, in the form the approvals read it back. *)

ActivatePricing == "pricing:rate_card:activate"
FinalizeInvoice == "billing:invoice:finalize"

DefaultApprovalPolicy ==
  [required |-> 2, sod |-> TRUE,
   requirements |-> <<[permission |-> ActivatePricing, count |-> 1],
                      [permission |-> FinalizeInvoice, count |-> 1]>>]

=============================================================================

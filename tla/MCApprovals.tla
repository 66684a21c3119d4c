---------------------------- MODULE MCApprovals -----------------------------
(* Instances of Approvals for TLC. *)
EXTENDS Approvals

CONSTANTS bot, p, q

(* A tenant's own policy, and the one every tenant starts with. *)
TwoOfAnyone == [required |-> 2, sod |-> TRUE, requirements |-> <<>>]
BothPolicies == {TwoOfAnyone, DefaultApprovalPolicy}

(* p may stand for either side; q for Product, and for Finance only up to a *)
(* limit.  q may also propose, and then decide nothing.                     *)
Assigned ==
  {<<p, "product_manager">>, <<p, "finance_controller">>,
   <<q, "product_manager">>, <<q, "billing_administrator">>}

(* p may lose Finance while its decision is under way. *)
Changing == {<<p, "finance_controller">>}

(* A workload whose credential names every permission: it may propose and   *)
(* cancel, and never decide.                                                *)
Scopes == [x \in {bot} |-> PermissionCatalog]

Symmetry == Permutations(Attempts)

=============================================================================

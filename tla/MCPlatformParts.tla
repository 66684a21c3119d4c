-------------------------- MODULE MCPlatformParts ---------------------------
(* Five parts that share no state, each explored on its own: the audit      *)
(* trail, the tenant cache, the database migrations, role administration    *)
(* and money.                                                               *)
EXTENDS AuditTrail, TenantCache, Migrations, RoleAdministration, Money, TLC

CONSTANTS A, B, c1, c2, FirstQuestion

VARIABLE part   \* the part that is explored

partVars == <<part, auditVars, cacheVars, migrationVars, roleVars, moneyVars>>

Init ==
  /\ part \in {"audit", "cache", "migrations", "roles", "money"}
  /\ AuditInit
  /\ CacheInit
  /\ MigrationInit
  /\ RoleInit
  /\ \/ part = "money"
     \/ part # "money" /\ question = FirstQuestion
  /\ MoneyInit

Next ==
  /\ UNCHANGED part
  /\ \/ part = "audit" /\ AuditNext /\ UNCHANGED <<cacheVars, migrationVars, roleVars, moneyVars>>
     \/ part = "cache" /\ CacheNext /\ UNCHANGED <<auditVars, migrationVars, roleVars, moneyVars>>
     \/ part = "migrations" /\ MigrationNext /\ UNCHANGED <<auditVars, cacheVars, roleVars, moneyVars>>
     \/ part = "roles" /\ RoleNext /\ UNCHANGED <<auditVars, cacheVars, migrationVars, moneyVars>>
     \/ part = "money" /\ MoneyNext /\ UNCHANGED <<auditVars, cacheVars, migrationVars, roleVars>>

Spec == Init /\ [][Next]_partVars

-----------------------------------------------------------------------------

Tree(identity, objects, values) ==
  [json |-> TRUE, identity |-> identity, objects |-> objects, values |-> values]

(* The deepest that passes, one that names a tenant, one that is too deep.  *)
MCPayloads == {Tree(FALSE, 1, 1), Tree(TRUE, 0, 0), Tree(FALSE, 2, 2)}

MCPolicyFields == [Tenant |-> {"name", "status"}]

Is(scalar, sensitive) == [scalar |-> scalar, sensitive |-> sensitive, redacted |-> FALSE, is |-> 0]

MCValues ==
  {[name |-> Is(TRUE, TRUE), status |-> Is(FALSE, FALSE), api_key |-> Is(TRUE, TRUE)]}

(* Parts that only differ in where ":" stands, the same part of another     *)
(* tenant, and a namespace that would make up the second of them.           *)
MCAddresses ==
  {[tenant |-> <<"t">>, namespace |-> <<"n">>, parts |-> <<<<"a", ":", "b">>>>],
   [tenant |-> <<"t">>, namespace |-> <<"n">>, parts |-> <<<<"a">>, <<"b">>>>],
   [tenant |-> <<"u">>, namespace |-> <<"n">>, parts |-> <<<<"a">>, <<"b">>>>],
   [tenant |-> <<"t">>, namespace |-> <<"n", ":", "a">>, parts |-> <<<<"b">>>>]}

SqlFile(package, name, sum) == [package |-> package, name |-> name, sum |-> sum]

(* A first release; later ones that add a higher and a lower name; one that *)
(* changed a file, one with a name twice.                                   *)
MCReleases ==
  LET one == SqlFile("modules", 1, "x")
  IN  {{one, SqlFile("platform", 2, "x")},
       {SqlFile("platform", 0, "x"), one, SqlFile("platform", 2, "x")},
       {SqlFile("modules", 1, "y"), SqlFile("platform", 2, "x")},
       {one, SqlFile("platform", 1, "y")}}

(* Money: every calculation over small operands. *)
Decimals(limit, scales) == [units : -limit .. limit, scale : scales]

(* Values around the ties of one and two dropped digits, and beyond the limits. *)
Roundings ==
  [op : {"round"}, x : [units : {-999, -155, -150, -145, -105, -5, 0, 4, 5, 15, 25, 50, 99, 150, 995},
                        scale : 0 .. 2],
   scale : 0 .. 3, mode : Modes]
  \cup [op : {"divide", "multiply"}, x : Decimals(15, {0, 1}), y : Decimals(4, {0, 1}),
        scale : 0 .. 1, mode : Modes]

(* Equal and different weights, a fraction, none, one too large, one refused. *)
Weights == {[units |-> 0, scale |-> 0], [units |-> 5, scale |-> 1], [units |-> 2, scale |-> 0],
            [units |-> 200, scale |-> 0], [units |-> -1, scale |-> 0]}
Allocations ==
  [op : {"allocate"}, total : {-4, -1, 0, 1, 2, 5, 7},
   shares : UNION {[1 .. n -> [key : 1 .. 3, weight : Weights]] : n \in 0 .. 3}]

Intervals(days) == [start : 0 .. days, end : 0 .. days]
Prorations ==
  [op : {"prorate"}, amount : [units : {-7, -1, 0, 1, 5, 10, 99}, scale : {0, 1}], used : Intervals(5),
   period : {[start |-> 0, end |-> 4], [start |-> 1, end |-> 4], [start |-> 0, end |-> 5], [start |-> 2, end |-> 2]},
   mode : Modes]

Calculations == Roundings \cup Allocations \cup Prorations

(* The question that stands while another part is explored. *)
MCFirstQuestion == CHOOSE q \in Prorations : TRUE

(* The runs of migrations and the commands of role administration are the   *)
(* same model values: only one of the two moves.                            *)
Symmetry == Permutations({A, B}) \cup Permutations(Calls) \cup Permutations(Runs)

=============================================================================

-------------------------- MODULE MCTenantCommands --------------------------
(* Instances of TenantCommands for TLC. *)
EXTENDS TenantCommands, TLC

Do(scope, expected) == [scope |-> scope, expected |-> expected]

(* A life of the tenant, with two commands competing for version 2. *)
Lifecycle == {Do("provision", 0), Do("activate", 1), Do("suspend", 2), Do("close", 2)}

Symmetry == Permutations(Attempts) \cup Permutations(Keys)

=============================================================================

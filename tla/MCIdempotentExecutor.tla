------------------------ MODULE MCIdempotentExecutor ------------------------
(* Instances of IdempotentExecutor for TLC. *)
EXTENDS IdempotentExecutor, TLC

Symmetry == Permutations(Attempts) \cup Permutations(Payloads) \cup Permutations(Responses)

=============================================================================

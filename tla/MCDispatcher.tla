---------------------------- MODULE MCDispatcher ----------------------------
(* Instances of Dispatcher for TLC: the outbox, whose workers all work on  *)
(* every stream.  A loop is named by its worker.                           *)
EXTENDS Dispatcher, TLC

MCWorkerOf == [r \in Runs |-> r]
MCScopeOf  == [r \in Runs |-> Streams]

(* Neither workers nor streams are told apart. *)
Symmetry == Permutations(Workers) \cup Permutations(Streams)

=============================================================================

-------------------------- MODULE MCEventPipeline ---------------------------
(* Instances of EventPipeline for TLC. *)
EXTENDS EventPipeline, TLC

CONSTANTS c1, c2, t1, t2, w1, w2

(* One consumer of everything, served by one or two workers. *)
OneRoute == <<[consumer |-> c1, eventTypes |-> {t1}]>>
AllServeOne == [w \in DeliveryWorkers |-> c1]

(* Two consumers with a worker each; the second subscribes to one type. *)
TwoRoutes == <<[consumer |-> c1, eventTypes |-> {t1, t2}],
               [consumer |-> c2, eventTypes |-> {t1}]>>
OneEach == (w1 :> c1) @@ (w2 :> c2)

Symmetry == Permutations(Relays) \cup Permutations(DeliveryWorkers)

=============================================================================

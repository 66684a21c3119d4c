------------------------------- MODULE FanOut -------------------------------
(***************************************************************************)
(* What the outbox, the transport and the inbox promise together: every    *)
(* consumer applies the events it subscribes to at most once, and those of *)
(* one stream in the order in which they were produced.  An event that an  *)
(* operator skipped is waived: its successors no longer wait for it.       *)
(***************************************************************************)
EXTENDS Naturals, Sequences, Functions

CONSTANTS Streams, Types, Consumers,
          Subscribes(_, _)   \* Subscribes(consumer, type)

VARIABLES produced,  \* the events, in the order they were committed
          applied,   \* the events each consumer applied, in its order
          waived     \* <<consumer, event>> pairs given up by an operator

vars == <<produced, applied, waived>>

Applied(c) == Range(applied[c])

Init ==
  /\ produced = <<>>
  /\ applied = [c \in Consumers |-> <<>>]
  /\ waived = {}

Produce(stream, type) ==
  /\ produced' = Append(produced, [stream |-> stream, type |-> type])
  /\ UNCHANGED <<applied, waived>>

(* The earlier events consumer c must not be behind on to apply e. *)
Predecessors(c, e) ==
  {d \in 1 .. e - 1 : /\ produced[d].stream = produced[e].stream
                      /\ Subscribes(c, produced[d].type)
                      /\ <<c, d>> \notin waived}

Apply(c, e) ==
  /\ e \in 1 .. Len(produced)
  /\ Subscribes(c, produced[e].type)
  /\ e \notin Applied(c)
  /\ Predecessors(c, e) \subseteq Applied(c)
  /\ applied' = [applied EXCEPT ![c] = Append(@, e)]
  /\ UNCHANGED <<produced, waived>>

(* Skipped for one consumer, or in the outbox and so for all of them. *)
Waive(cs, e) ==
  /\ e \in 1 .. Len(produced)
  /\ waived' = waived \cup (cs \X {e})
  /\ UNCHANGED <<produced, applied>>

Next ==
  \/ \E stream \in Streams, type \in Types : Produce(stream, type)
  \/ \E e \in 1 .. Len(produced) :
       \/ \E c \in Consumers : Apply(c, e)
       \/ \E cs \in SUBSET Consumers : Waive(cs, e)

Spec == Init /\ [][Next]_vars

=============================================================================

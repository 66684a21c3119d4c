-------------------------- MODULE DeliveryListener --------------------------
(***************************************************************************)
(* PostgresDeliveryListener of platform/outbox: it lets a delivery worker  *)
(* that found nothing to do sleep until a delivery for its consumer is     *)
(* committed, or until its timer runs out.  One LISTEN session serves all  *)
(* workers of a process.  The loop around runOnce and waitFor is the       *)
(* caller's: poll, and after an empty pass wait before the next one.       *)
(*                                                                         *)
(* A notification reaches the session some time after the commit that sent *)
(* it, and only if the session listened then.  It wakes whoever waits at   *)
(* that moment and nobody else.  close(), which wakes everyone at shutdown, *)
(* is left out.                                                            *)
(***************************************************************************)
CONSTANTS Sleepers,   \* the workers whose loops wait
          ServedBy    \* the consumer each of them serves

VARIABLES session,    \* the LISTEN session, memoised in #started
          notices,    \* consumers with a notification on its way
          rest        \* where each loop is: polling, past an empty pass, waiting

vars == <<session, notices, rest>>

Sessions == {"listening", "failed"}

Init ==
  /\ session = "none"
  /\ notices = {}
  /\ rest = [w \in Sleepers |-> "awake"]

(* The loop may start a pass. *)
IsAwake(w) == w \in Sleepers => rest[w] = "awake"

(* A pass of w leased nothing.  Between it and waitFor anything may happen. *)
FindsNothing(w) ==
  /\ w \in Sleepers
  /\ rest[w] = "awake"
  /\ rest' = [rest EXCEPT ![w] = "drowsy"]
  /\ UNCHANGED <<session, notices>>

(* waitFor: the first call starts the session.  connect or LISTEN may fail, *)
(* and the rejected promise is kept: every waitFor throws from then on, and *)
(* the loop polls again at once.  With a session the waiter is added and    *)
(* its timer set.                                                           *)
WaitFor(w, started) ==
  /\ rest[w] = "drowsy"
  /\ session' = IF session = "none" THEN started ELSE session
  /\ rest' = [rest EXCEPT ![w] = IF session' = "failed" THEN "awake" ELSE "waiting"]
  /\ UNCHANGED notices

Woken(woken) ==
  rest' = [w \in Sleepers |-> IF w \in woken /\ rest[w] = "waiting" THEN "awake" ELSE rest[w]]

(* pg_notify of the statement that inserted deliveries for these consumers. *)
Notify(consumers) ==
  /\ notices' = IF session = "listening" THEN notices \cup consumers ELSE notices
  /\ UNCHANGED <<session, rest>>

(* The client's notification event: every waiter of the consumer wakes. *)
Notified(c) ==
  /\ c \in notices
  /\ notices' = notices \ {c}
  /\ Woken({w \in Sleepers : ServedBy[w] = c})
  /\ UNCHANGED session

(* Mutation: the timer is cleared as soon as it is set. *)
TimeOutNever(w) == FALSE /\ UNCHANGED vars

(* The timer of waitFor runs out. *)
TimeOut(w) ==
  /\ rest[w] = "waiting"
  /\ Woken({w})
  /\ UNCHANGED <<session, notices>>

=============================================================================

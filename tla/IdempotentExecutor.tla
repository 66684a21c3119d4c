------------------------- MODULE IdempotentExecutor -------------------------
(***************************************************************************)
(* The idempotent executor (platform/idempotency) over its PostgreSQL      *)
(* store, statement by statement at READ COMMITTED.  An attempt is one     *)
(* HTTP request, first try or retry, and one transaction: claim the key,   *)
(* run the command's work, complete the claim, commit.  A transaction that *)
(* claimed a key holds the row until it ends, and a later claim waits.     *)
(*                                                                         *)
(* By itself the module is the command of foundation-proof, whose work     *)
(* inserts a record under an id of the attempt's own, so that nothing but  *)
(* the claim keeps a retry from inserting a second one.                    *)
(***************************************************************************)
EXTENDS Naturals, Sequences

CONSTANTS Attempts,      \* HTTP requests
          NoAttempt,     \* a key nobody holds
          RecordKeys,    \* (tenant, scope, lower-cased Idempotency-Key)
          Payloads,      \* what canonicalRequestHash tells apart
          Responses,     \* stored responses
          None,          \* no payload, no response
          MaxExpiries    \* bound: times the record of a key expires

ASSUME NoAttemptAssumption == NoAttempt \notin Attempts
ASSUME MaxExpiriesAssumption == MaxExpiries \in Nat

VARIABLES record,    \* idempotency_record, committed
          keyLock,   \* the open transaction that wrote the row of a key
          attempt,   \* the attempts and their transactions
          effects,   \* the committed work of each key, in commit order
          expiries   \* history: times the record of a key expired

vars == <<record, keyLock, attempt, effects, expiries>>

Record == [status   : {"none", "processing", "completed"},
           hash     : Payloads \cup {None},
           response : Responses \cup {None},
           expired  : BOOLEAN]
NoRecord == [status |-> "none", hash |-> None, response |-> None, expired |-> FALSE]

Ended == {"executed", "replayed", "conflict", "in_progress", "failed"}
Open  == {"insert", "replace", "existing", "work", "complete", "commit"}

(* sawExpired: the record's expires_at is not after the `now` that was read *)
(* before the transaction began.  wrote: the status in the row this         *)
(* transaction wrote and has not committed.                                 *)
Attempt == [pc         : {"new"} \cup Open \cup Ended,
            key        : RecordKeys \cup {None},
            payload    : Payloads \cup {None},
            sawExpired : BOOLEAN,
            wrote      : {"none", "processing", "completed"},
            response   : Responses \cup {None}]
Fresh == [pc |-> "new", key |-> None, payload |-> None, sawExpired |-> FALSE,
          wrote |-> "none", response |-> None]

Effect == [payload : Payloads, response : Responses]

Init ==
  /\ record = [k \in RecordKeys |-> NoRecord]
  /\ keyLock = [k \in RecordKeys |-> NoAttempt]
  /\ attempt = [a \in Attempts |-> Fresh]
  /\ effects = [k \in RecordKeys |-> <<>>]
  /\ expiries = [k \in RecordKeys |-> 0]

KeyOf(a) == attempt[a].key

(* The end of a transaction gives up what it held. *)
Unlocked(a) == [k \in RecordKeys |-> IF keyLock[k] = a THEN NoAttempt ELSE keyLock[k]]

-----------------------------------------------------------------------------

(* The request is valid and authorized; `now` is read. *)
Begin(a, key, payload) ==
  /\ attempt[a].pc = "new"
  /\ attempt' = [attempt EXCEPT ![a] =
                   [pc |-> "insert", key |-> key, payload |-> payload,
                    sawExpired |-> record[key].expired,
                    wrote |-> "none", response |-> None]]
  /\ UNCHANGED <<record, keyLock, effects, expiries>>

(* The row is this transaction's until it ends. *)
Claimed(a) ==
  /\ attempt' = [attempt EXCEPT ![a].pc = "work", ![a].wrote = "processing"]
  /\ keyLock' = [keyLock EXCEPT ![KeyOf(a)] = a]
  /\ UNCHANGED <<record, effects, expiries>>

NotClaimed(a, next) ==
  /\ attempt' = [attempt EXCEPT ![a].pc = next]
  /\ UNCHANGED <<record, keyLock, effects, expiries>>

(* Mutation: no unique index, so that nothing waits for an open claim. *)
ClaimInsertWithoutWaiting(a) ==
  /\ attempt[a].pc = "insert"
  /\ \/ record[KeyOf(a)].status = "none" /\ Claimed(a)
     \/ record[KeyOf(a)].status # "none" /\ NotClaimed(a, "replace")

(* Mutation: ON CONFLICT DO UPDATE. *)
ClaimInsertOverwriting(a) ==
  attempt[a].pc = "insert" /\ keyLock[KeyOf(a)] = NoAttempt /\ Claimed(a)

(* claim, INSERT ... ON CONFLICT DO NOTHING: waits for an open transaction  *)
(* that wrote the row; inserts unless there is a committed row by then.     *)
ClaimInsert(a) ==
  /\ attempt[a].pc = "insert"
  /\ keyLock[KeyOf(a)] = NoAttempt
  /\ \/ record[KeyOf(a)].status = "none" /\ Claimed(a)
     \/ record[KeyOf(a)].status # "none" /\ NotClaimed(a, "replace")

(* Mutation: the expiry is decided on what was read before waiting. *)
ExpiredForUnchecked(a) == attempt[a].sawExpired

(* claim, UPDATE ... WHERE expires_at <= now: waits as well; a row replaced *)
(* in the meantime has a new expires_at and is left alone.                  *)
ExpiredFor(a) == record[KeyOf(a)].expired /\ attempt[a].sawExpired
ClaimReplace(a) ==
  /\ attempt[a].pc = "replace"
  /\ keyLock[KeyOf(a)] = NoAttempt
  /\ \/ ExpiredFor(a) /\ Claimed(a)
     \/ ~ExpiredFor(a) /\ NotClaimed(a, "existing")

(* Mutation: the request hash is not compared. *)
ClaimExistingAnyPayload(a) ==
  /\ attempt[a].pc = "existing"
  /\ \/ record[KeyOf(a)].status # "completed" /\ NotClaimed(a, "in_progress")
     \/ /\ record[KeyOf(a)].status = "completed"
        /\ attempt' = [attempt EXCEPT ![a].pc = "replayed",
                                      ![a].response = record[KeyOf(a)].response]
        /\ UNCHANGED <<record, keyLock, effects, expiries>>

(* claim, SELECT: the committed row, without waiting.  Another payload is a *)
(* conflict, an unfinished record is in progress, else replay the response. *)
ClaimExisting(a) ==
  LET existing == record[KeyOf(a)]
      same     == existing.hash = attempt[a].payload
  IN  /\ attempt[a].pc = "existing"
      /\ \/ ~same /\ NotClaimed(a, "conflict")
         \/ same /\ existing.status # "completed" /\ NotClaimed(a, "in_progress")
         \/ /\ same /\ existing.status = "completed"
            /\ attempt' = [attempt EXCEPT ![a].pc = "replayed",
                                          ![a].response = existing.response]
            /\ UNCHANGED <<record, keyLock, effects, expiries>>

(* Mutation: the response of the work is not kept. *)
WorkReturnsNothing(a, response) ==
  /\ attempt[a].pc = "work"
  /\ attempt' = [attempt EXCEPT ![a].pc = "complete"]
  /\ UNCHANGED <<record, keyLock, effects, expiries>>

(* work(unitOfWork) returns the response to store. *)
WorkReturns(a, response) ==
  /\ attempt[a].pc = "work"
  /\ attempt' = [attempt EXCEPT ![a].pc = "complete", ![a].response = response]
  /\ UNCHANGED <<record, keyLock, effects, expiries>>

(* complete: the transaction's own row goes from processing to completed. *)
CompleteClaim(a) ==
  /\ attempt[a].pc = "complete"
  /\ attempt[a].wrote = "processing"
  /\ attempt' = [attempt EXCEPT ![a].pc = "commit", ![a].wrote = "completed"]
  /\ UNCHANGED <<record, keyLock, effects, expiries>>

(* COMMIT: the record and the work become visible together. *)
Commit(a) ==
  /\ attempt[a].pc = "commit"
  /\ record' = [record EXCEPT ![KeyOf(a)] =
                  [status |-> attempt[a].wrote, hash |-> attempt[a].payload,
                   response |-> attempt[a].response, expired |-> FALSE]]
  /\ effects' = [effects EXCEPT ![KeyOf(a)] =
                   Append(@, [payload |-> attempt[a].payload,
                              response |-> attempt[a].response])]
  /\ attempt' = [attempt EXCEPT ![a].pc = "executed"]
  /\ keyLock' = Unlocked(a)
  /\ UNCHANGED expiries

(* A check or a statement throws, or the connection or the process is lost: *)
(* ROLLBACK.                                                                *)
Fail(a) ==
  /\ attempt[a].pc \in Open
  /\ attempt' = [attempt EXCEPT ![a].pc = "failed"]
  /\ keyLock' = Unlocked(a)
  /\ UNCHANGED <<record, effects, expiries>>

(* The retention of a committed record ends. *)
Expire(k) ==
  /\ record[k].status # "none" /\ ~record[k].expired
  /\ expiries[k] < MaxExpiries
  /\ record' = [record EXCEPT ![k].expired = TRUE]
  /\ expiries' = [expiries EXCEPT ![k] = @ + 1]
  /\ UNCHANGED <<keyLock, attempt, effects>>

-----------------------------------------------------------------------------

Claim(a) == ClaimInsert(a) \/ ClaimReplace(a) \/ ClaimExisting(a)

Next ==
  \/ \E a \in Attempts :
       \/ \E key \in RecordKeys, payload \in Payloads : Begin(a, key, payload)
       \/ Claim(a)
       \/ \E response \in Responses : WorkReturns(a, response)
       \/ CompleteClaim(a) \/ Commit(a) \/ Fail(a)
  \/ \E k \in RecordKeys : Expire(k)

Spec == Init /\ [][Next]_vars

(* PostgreSQL answers every statement that does not wait, and the work of a *)
(* command returns; a rollback, a new request and an expiry need not occur. *)
FairSpec ==
  /\ Spec
  /\ \A a \in Attempts :
       /\ WF_vars(Claim(a))
       /\ WF_vars(\E response \in Responses : WorkReturns(a, response))
       /\ WF_vars(CompleteClaim(a)) /\ WF_vars(Commit(a))

-----------------------------------------------------------------------------
(* Safety *)

(* The rows, locks, attempts and histories have their types. *)
TypeOK ==
  /\ record \in [RecordKeys -> Record]
  /\ keyLock \in [RecordKeys -> Attempts \cup {NoAttempt}]
  /\ attempt \in [Attempts -> Attempt]
  /\ effects \in [RecordKeys -> Seq(Effect)]
  /\ expiries \in [RecordKeys -> Nat]

(* The work of a command runs for one attempt of its key at a time, and not *)
(* while a live record of the key exists: no retry works beside the attempt *)
(* it repeats, or after its commit.                                         *)
Working(a) == attempt[a].pc \in {"work", "complete", "commit"}
ClaimIsExclusive ==
  \A a \in Attempts : Working(a) =>
    /\ record[KeyOf(a)].status = "none" \/ record[KeyOf(a)].expired
    /\ \A b \in Attempts : Working(b) /\ KeyOf(b) = KeyOf(a) => a = b

(* Exactly-once by key: retries, crashes, lost answers and concurrent       *)
(* attempts commit the work of a key once for each life of its record.      *)
OneEffectPerKey ==
  \A k \in RecordKeys : Len(effects[k]) <= 1 + expiries[k]

Committed(history, payload, response) ==
  \E i \in 1 .. Len(history) : history[i] = [payload |-> payload, response |-> response]

(* A replayed response is one that was committed under the same key for the *)
(* same payload: never a response to a different request, and never one     *)
(* whose work was rolled back.                                              *)
ReplayIsAnOriginal ==
  \A a \in Attempts : attempt[a].pc = "replayed" =>
    Committed(effects[KeyOf(a)], attempt[a].payload, attempt[a].response)

(* 'A concurrent in-flight duplicate' of SUB-0013: the same request under   *)
(* the same key, sent while another attempt is at work for it.              *)
InFlightDuplicate(a) ==
  /\ attempt[a].pc = "insert"
  /\ \E b \in Attempts \ {a} :
       Working(b) /\ KeyOf(b) = KeyOf(a) /\ attempt[b].payload = attempt[a].payload

(* 'A concurrent in-flight duplicate -> 409 request_in_progress with        *)
(* Retry-After': the duplicate is told so in the end, unless it fails.      *)
(* The claim's INSERT waits for the first attempt instead, and the          *)
(* duplicate is then replayed, or works itself.                             *)
DuplicateIsToldToWait ==
  \A a \in Attempts : InFlightDuplicate(a) ~> attempt[a].pc \in {"in_progress", "failed"}

(* The inductive invariant of the proofs: an attempt that was refused the   *)
(* key found a record of it; an attempt at work holds its key, over a       *)
(* record that is absent or expired; a committed record is the latest       *)
(* effect of its key, and every earlier effect has expired.                 *)
AttemptOK(a, at, holder, stored) ==
  /\ at.pc # "new" => at.key \in RecordKeys /\ at.payload \in Payloads
  /\ at.pc \in {"replace", "existing"} => stored.status # "none"
  /\ at.pc \in {"work", "complete", "commit"} =>
       holder = a /\ (stored.status = "none" \/ stored.expired)
  /\ at.pc \in {"complete", "commit"} => at.response \in Responses
  /\ at.pc = "commit" => at.wrote = "completed"
AttemptsOK ==
  \A a \in Attempts : AttemptOK(a, attempt[a], keyLock[KeyOf(a)], record[KeyOf(a)])
RecordsOK ==
  \A k \in RecordKeys :
    /\ record[k].status = "none" => Len(effects[k]) = 0
    /\ record[k].status # "none" =>
         /\ record[k].status = "completed"
         /\ Len(effects[k]) > 0
         /\ effects[k][Len(effects[k])] =
              [payload |-> record[k].hash, response |-> record[k].response]
    /\ record[k].expired => Len(effects[k]) <= expiries[k]

IndInv ==
  TypeOK /\ AttemptsOK /\ RecordsOK /\ OneEffectPerKey /\ ReplayIsAnOriginal

=============================================================================

--------------------------- MODULE ExecutorProofs ---------------------------
(***************************************************************************)
(* Proofs about IdempotentExecutor for every number of attempts, keys,     *)
(* payloads and responses.                                                 *)
(***************************************************************************)
EXTENDS IdempotentExecutor, TLAPS

-----------------------------------------------------------------------------
(* The statements, one by one, preserve the inductive invariant *)

(* A transaction that ends leaves the keys of the others alone. *)
LEMMA UnlockedKeys ==
  ASSUME TypeOK, NEW a \in Attempts
  PROVE  /\ Unlocked(a) \in [RecordKeys -> Attempts \cup {NoAttempt}]
         /\ \A k \in RecordKeys : keyLock[k] # a => Unlocked(a)[k] = keyLock[k]
  BY DEF TypeOK, Unlocked

(* What the invariant says of an attempt that has begun. *)
LEMMA BegunAttempt ==
  ASSUME IndInv, NEW a \in Attempts, attempt[a].pc # "new"
  PROVE  /\ attempt[a] \in Attempt /\ KeyOf(a) \in RecordKeys
         /\ attempt[a].payload \in Payloads
         /\ record[KeyOf(a)] \in Record /\ effects[KeyOf(a)] \in Seq(Effect)
  BY DEF IndInv, TypeOK, AttemptsOK, AttemptOK, KeyOf

(* A step of attempt a that leaves the record and the effects alone         *)
(* preserves the invariant if the attempt's new state does, and if the      *)
(* locks of the others stay.                                                *)
LEMMA StatementStep ==
  ASSUME IndInv, NEW a \in Attempts, NEW next \in Attempt,
         next.pc # "in_progress",
         AttemptOK(a, next, keyLock'[next.key], record[next.key]),
         next.pc = "replayed" =>
           Committed(effects[next.key], next.payload, next.response),
         attempt' = [attempt EXCEPT ![a] = next],
         UNCHANGED <<record, effects, expiries>>,
         keyLock' \in [RecordKeys -> Attempts \cup {NoAttempt}],
         \A b \in Attempts \ {a} : Working(b) => keyLock'[KeyOf(b)] = keyLock[KeyOf(b)]
  PROVE  IndInv'
  <1>1. TypeOK'
    BY DEF IndInv, TypeOK
  <1>2. attempt'[a] = next /\ \A b \in Attempts \ {a} : attempt'[b] = attempt[b]
    BY DEF IndInv, TypeOK
  <1>3. AttemptsOK'
    <2>. SUFFICES ASSUME NEW b \in Attempts
         PROVE  AttemptOK(b, attempt'[b], keyLock'[attempt'[b].key], record[attempt'[b].key])
      BY DEF AttemptsOK, AttemptOK, KeyOf
    <2>1. CASE b = a
      BY <1>2, <2>1
    <2>2. CASE b # a /\ Working(b)
      BY <1>2, <2>2 DEF IndInv, AttemptsOK, KeyOf
    <2>3. CASE b # a /\ ~Working(b)
      BY <1>2, <2>3 DEF IndInv, AttemptsOK, AttemptOK, Working, KeyOf
    <2>. QED BY <2>1, <2>2, <2>3
  <1>4. RecordsOK' /\ OneEffectPerKey'
    BY DEF IndInv, RecordsOK, OneEffectPerKey
  <1>5. ReplayIsAnOriginal'
    BY <1>2 DEF IndInv, ReplayIsAnOriginal, KeyOf
  <1>. QED BY <1>1, <1>3, <1>4, <1>5 DEF IndInv

LEMMA BeginStep ==
  ASSUME IndInv, NEW a \in Attempts, NEW key \in RecordKeys, NEW payload \in Payloads,
         Begin(a, key, payload)
  PROVE  IndInv'
  <1>. DEFINE begun == [pc |-> "insert", key |-> key, payload |-> payload,
                        sawExpired |-> record[key].expired,
                        wrote |-> "none", response |-> None]
  <1>1. begun \in Attempt
    BY DEF IndInv, TypeOK, Record, Attempt, Open
  <1>2. AttemptOK(a, begun, keyLock'[begun.key], record[begun.key])
    BY DEF AttemptOK
  <1>3. begun.pc = "insert" /\ attempt' = [attempt EXCEPT ![a] = begun]
    BY DEF Begin
  <1>. HIDE DEF begun
  <1>. QED BY <1>1, <1>2, <1>3, StatementStep DEF Begin, IndInv, TypeOK

(* Moving an attempt on to a state in which it neither works nor replays. *)
LEMMA MovesOn ==
  ASSUME IndInv, NEW a \in Attempts, attempt[a].pc # "new",
         NEW pc \in {"replace", "existing", "conflict", "failed"},
         pc \in {"replace", "existing"} => record[KeyOf(a)].status # "none",
         attempt' = [attempt EXCEPT ![a].pc = pc],
         UNCHANGED <<record, effects, expiries>>,
         keyLock' \in [RecordKeys -> Attempts \cup {NoAttempt}],
         \A k \in RecordKeys : keyLock[k] # a => keyLock'[k] = keyLock[k]
  PROVE  IndInv'
  <1>. DEFINE next == [attempt[a] EXCEPT !.pc = pc]
  <1>1. /\ next \in Attempt /\ next.pc = pc
        /\ next.key = KeyOf(a) /\ next.payload = attempt[a].payload
    BY BegunAttempt DEF Attempt, Open, Ended, KeyOf
  <1>2. attempt' = [attempt EXCEPT ![a] = next]
    BY DEF IndInv, TypeOK, Attempt
  <1>. HIDE DEF next
  <1>3. AttemptOK(a, next, keyLock'[next.key], record[next.key])
    BY <1>1, BegunAttempt DEF AttemptOK
  <1>4. \A b \in Attempts \ {a} : Working(b) => keyLock'[KeyOf(b)] = keyLock[KeyOf(b)]
    BY DEF IndInv, AttemptsOK, AttemptOK, Working, KeyOf
  <1>. QED BY <1>1, <1>2, <1>3, <1>4, StatementStep

(* Both ways to claim: nobody holds the key, and no live record of it       *)
(* exists.                                                                  *)
LEMMA ClaimedStep ==
  ASSUME IndInv, NEW a \in Attempts, attempt[a].pc # "new", Claimed(a),
         keyLock[KeyOf(a)] = NoAttempt,
         record[KeyOf(a)].status = "none" \/ record[KeyOf(a)].expired
  PROVE  IndInv'
  <1>. DEFINE next == [attempt[a] EXCEPT !.pc = "work", !.wrote = "processing"]
  <1>1. /\ next \in Attempt /\ next.pc = "work"
        /\ next.key = KeyOf(a) /\ next.payload = attempt[a].payload
    BY BegunAttempt DEF Attempt, Open, KeyOf
  <1>2. attempt' = [attempt EXCEPT ![a] = next]
    BY DEF Claimed, IndInv, TypeOK, Attempt
  <1>. HIDE DEF next
  <1>3. /\ keyLock' \in [RecordKeys -> Attempts \cup {NoAttempt}]
        /\ keyLock'[KeyOf(a)] = a
        /\ \A k \in RecordKeys : k # KeyOf(a) => keyLock'[k] = keyLock[k]
    BY BegunAttempt DEF IndInv, TypeOK, Claimed
  <1>4. AttemptOK(a, next, keyLock'[next.key], record[next.key])
    BY <1>1, <1>3, BegunAttempt DEF AttemptOK
  <1>5. ASSUME NEW b \in Attempts \ {a}, Working(b)
        PROVE  keyLock'[KeyOf(b)] = keyLock[KeyOf(b)]
    <2>1. KeyOf(b) \in RecordKeys /\ keyLock[KeyOf(b)] = b
      BY <1>5 DEF IndInv, AttemptsOK, AttemptOK, Working, KeyOf
    <2>. QED BY <1>3, <2>1, NoAttemptAssumption
  <1>. QED BY <1>1, <1>2, <1>3, <1>4, <1>5, StatementStep DEF Claimed

(* A replay: the completed record is the latest effect of its key. *)
LEMMA ReplayStep ==
  ASSUME IndInv, NEW a \in Attempts, attempt[a].pc = "existing",
         record[KeyOf(a)].hash = attempt[a].payload,
         record[KeyOf(a)].status = "completed",
         attempt' = [attempt EXCEPT ![a].pc = "replayed",
                                    ![a].response = record[KeyOf(a)].response],
         UNCHANGED <<record, keyLock, effects, expiries>>
  PROVE  IndInv'
  <1>. DEFINE next == [attempt[a] EXCEPT !.pc = "replayed",
                                         !.response = record[KeyOf(a)].response]
  <1>1. /\ next \in Attempt /\ next.pc = "replayed" /\ next.key = KeyOf(a)
        /\ next.payload = attempt[a].payload /\ next.response = record[KeyOf(a)].response
    BY BegunAttempt DEF Attempt, Record, Ended, KeyOf
  <1>2. attempt' = [attempt EXCEPT ![a] = next]
    BY DEF IndInv, TypeOK, Attempt
  <1>. HIDE DEF next
  <1>3. AttemptOK(a, next, keyLock'[next.key], record[next.key])
    BY <1>1, BegunAttempt DEF AttemptOK
  <1>4. Committed(effects[KeyOf(a)], attempt[a].payload, record[KeyOf(a)].response)
    <2>. DEFINE n == Len(effects[KeyOf(a)])
    <2>1. n > 0 /\ effects[KeyOf(a)][n] =
            [payload |-> record[KeyOf(a)].hash, response |-> record[KeyOf(a)].response]
      BY BegunAttempt DEF IndInv, RecordsOK
    <2>2. n \in 1 .. n
      BY <2>1, BegunAttempt
    <2>. QED BY <2>1, <2>2 DEF Committed
  <1>. QED BY <1>1, <1>2, <1>3, <1>4, StatementStep DEF IndInv, TypeOK

LEMMA ClaimStep ==
  ASSUME IndInv, NEW a \in Attempts, Claim(a)
  PROVE  IndInv'
  <1>1. attempt[a].pc # "new" /\ KeyOf(a) \in RecordKeys
    BY BegunAttempt DEF Claim, ClaimInsert, ClaimReplace, ClaimExisting
  <1>2. ASSUME NEW pc \in {"replace", "existing", "conflict"}, NotClaimed(a, pc),
               record[KeyOf(a)].status # "none"
        PROVE  IndInv'
    BY <1>1, <1>2, MovesOn DEF NotClaimed, IndInv, TypeOK
  <1>3. attempt[a].pc \in {"replace", "existing"} => record[KeyOf(a)].status # "none"
    BY DEF IndInv, AttemptsOK, AttemptOK
  <1>4. CASE ClaimInsert(a)
    BY <1>1, <1>2, <1>4, ClaimedStep DEF ClaimInsert
  <1>5. CASE ClaimReplace(a)
    BY <1>1, <1>2, <1>3, <1>5, ClaimedStep DEF ClaimReplace, ExpiredFor
  <1>6. CASE ClaimExisting(a)
    <2>1. attempt[a].pc = "existing" /\ record[KeyOf(a)].status = "completed"
      BY <1>1, <1>3, <1>6 DEF ClaimExisting, IndInv, RecordsOK
    <2>. QED BY <1>2, <1>3, <1>6, <2>1, ReplayStep DEF ClaimExisting
  <1>. QED BY <1>4, <1>5, <1>6 DEF Claim

LEMMA WorkReturnsStep ==
  ASSUME IndInv, NEW a \in Attempts, NEW response \in Responses, WorkReturns(a, response)
  PROVE  IndInv'
  <1>. DEFINE next == [attempt[a] EXCEPT !.pc = "complete", !.response = response]
  <1>0. attempt[a].pc = "work"
    BY DEF WorkReturns
  <1>1. /\ next \in Attempt /\ next.pc = "complete" /\ next.key = KeyOf(a)
        /\ next.payload = attempt[a].payload /\ next.response = response
    BY <1>0, BegunAttempt DEF Attempt, Open, KeyOf
  <1>2. attempt' = [attempt EXCEPT ![a] = next]
    BY DEF WorkReturns, IndInv, TypeOK, Attempt
  <1>. HIDE DEF next
  <1>3. AttemptOK(a, next, keyLock'[next.key], record[next.key])
    BY <1>0, <1>1 DEF IndInv, AttemptsOK, AttemptOK, WorkReturns, KeyOf
  <1>. QED BY <1>1, <1>2, <1>3, StatementStep DEF WorkReturns, IndInv, TypeOK

LEMMA CompleteStep ==
  ASSUME IndInv, NEW a \in Attempts, CompleteClaim(a)
  PROVE  IndInv'
  <1>. DEFINE next == [attempt[a] EXCEPT !.pc = "commit", !.wrote = "completed"]
  <1>0. attempt[a].pc = "complete"
    BY DEF CompleteClaim
  <1>1. /\ next \in Attempt /\ next.pc = "commit" /\ next.key = KeyOf(a)
        /\ next.payload = attempt[a].payload /\ next.response = attempt[a].response
        /\ next.wrote = "completed"
    BY <1>0, BegunAttempt DEF Attempt, Open, KeyOf
  <1>2. attempt' = [attempt EXCEPT ![a] = next]
    BY DEF CompleteClaim, IndInv, TypeOK, Attempt
  <1>. HIDE DEF next
  <1>3. AttemptOK(a, next, keyLock'[next.key], record[next.key])
    BY <1>0, <1>1 DEF IndInv, AttemptsOK, AttemptOK, CompleteClaim, KeyOf
  <1>. QED BY <1>1, <1>2, <1>3, StatementStep DEF CompleteClaim, IndInv, TypeOK

LEMMA FailStep ==
  ASSUME IndInv, NEW a \in Attempts, Fail(a)
  PROVE  IndInv'
  BY UnlockedKeys, MovesOn DEF Fail, IndInv, Open

(* The commit: only the attempt that holds the key gets here, over a record *)
(* that is absent or expired, so that the effect it adds is the first of    *)
(* the new record's life.                                                   *)
LEMMA CommitStep ==
  ASSUME IndInv, NEW a \in Attempts, Commit(a)
  PROVE  IndInv'
  <1>. DEFINE k == KeyOf(a)
              effect == [payload |-> attempt[a].payload, response |-> attempt[a].response]
              stored == [status |-> attempt[a].wrote, hash |-> attempt[a].payload,
                         response |-> attempt[a].response, expired |-> FALSE]
              next == [attempt[a] EXCEPT !.pc = "executed"]
  <1>1. attempt[a].pc = "commit"
    BY DEF Commit
  <1>2. /\ k \in RecordKeys /\ keyLock[k] = a
        /\ attempt[a].payload \in Payloads /\ attempt[a].response \in Responses
        /\ attempt[a].wrote = "completed"
        /\ record[k].status = "none" \/ record[k].expired
    BY <1>1 DEF IndInv, AttemptsOK, AttemptOK, KeyOf
  <1>3. /\ stored \in Record /\ effect \in Effect
        /\ stored.status = "completed" /\ stored.expired = FALSE
        /\ effect = [payload |-> stored.hash, response |-> stored.response]
    BY <1>2 DEF Record, Effect
  <1>4. /\ next \in Attempt /\ next.pc = "executed" /\ next.key = k
        /\ next.payload = attempt[a].payload
    BY <1>1, BegunAttempt DEF Attempt, Ended, KeyOf
  <1>5. /\ attempt' = [attempt EXCEPT ![a] = next]
        /\ record' = [record EXCEPT ![k] = stored]
        /\ effects' = [effects EXCEPT ![k] = Append(effects[k], effect)]
        /\ keyLock' = Unlocked(a) /\ expiries' = expiries
    BY DEF Commit, IndInv, TypeOK, Attempt
  <1>. HIDE DEF k, effect, stored, next
  <1>6. /\ attempt'[a] = next /\ \A b \in Attempts \ {a} : attempt'[b] = attempt[b]
        /\ record'[k] = stored /\ \A j \in RecordKeys \ {k} : record'[j] = record[j]
        /\ \A j \in RecordKeys \ {k} : effects'[j] = effects[j]
    BY <1>2, <1>5 DEF IndInv, TypeOK
  <1>7. /\ effects[k] \in Seq(Effect) /\ effects'[k] = Append(effects[k], effect)
        /\ effects'[k] \in Seq(Effect)
        /\ Len(effects'[k]) = Len(effects[k]) + 1 /\ Len(effects[k]) \in Nat
        /\ effects'[k][Len(effects[k]) + 1] = effect
        /\ \A i \in 1 .. Len(effects[k]) : effects'[k][i] = effects[k][i]
    BY <1>2, <1>3, <1>5 DEF IndInv, TypeOK
  <1>8. TypeOK'
    <2>1. effects' \in [RecordKeys -> Seq(Effect)]
      BY <1>2, <1>3, <1>5 DEF IndInv, TypeOK
    <2>. QED BY <1>2, <1>3, <1>4, <1>5, <2>1, UnlockedKeys DEF IndInv, TypeOK
  <1>9. AttemptsOK'
    <2>. SUFFICES ASSUME NEW b \in Attempts
         PROVE  AttemptOK(b, attempt'[b], keyLock'[attempt'[b].key], record'[attempt'[b].key])
      BY DEF AttemptsOK, KeyOf
    <2>1. CASE b = a
      BY <1>2, <1>4, <1>6, <2>1 DEF AttemptOK
    <2>2. CASE b # a /\ Working(b)
      <3>1. KeyOf(b) \in RecordKeys /\ keyLock[KeyOf(b)] = b
        BY <2>2 DEF IndInv, AttemptsOK, AttemptOK, Working, KeyOf
      <3>2. KeyOf(b) # k /\ keyLock'[KeyOf(b)] = keyLock[KeyOf(b)]
        BY <1>2, <1>5, <2>2, <3>1, UnlockedKeys DEF IndInv
      <3>. QED BY <1>6, <2>2, <3>1, <3>2 DEF IndInv, AttemptsOK, KeyOf
    <2>3. CASE b # a /\ ~Working(b)
      <3>1. attempt[b].key \in RecordKeys /\ record[attempt[b].key].status # "none"
              => record'[attempt[b].key].status # "none"
        BY <1>3, <1>6
      <3>. QED BY <1>6, <2>3, <3>1 DEF IndInv, AttemptsOK, AttemptOK, Working, KeyOf
    <2>. QED BY <2>1, <2>2, <2>3
  <1>10. Len(effects[k]) <= expiries[k] /\ expiries[k] \in Nat
    <2>1. expiries[k] \in Nat
      BY <1>2 DEF IndInv, TypeOK
    <2>2. Len(effects[k]) = 0 \/ Len(effects[k]) <= expiries[k]
      BY <1>2 DEF IndInv, RecordsOK
    <2>. QED BY <2>1, <2>2
  <1>11. RecordsOK' /\ OneEffectPerKey'
    <2>. SUFFICES ASSUME NEW j \in RecordKeys
         PROVE  /\ record'[j].status = "none" => Len(effects'[j]) = 0
                /\ record'[j].status # "none" =>
                     /\ record'[j].status = "completed"
                     /\ Len(effects'[j]) > 0
                     /\ effects'[j][Len(effects'[j])] =
                          [payload |-> record'[j].hash, response |-> record'[j].response]
                /\ record'[j].expired => Len(effects'[j]) <= expiries[j]
                /\ Len(effects'[j]) <= 1 + expiries[j]
      BY <1>5 DEF RecordsOK, OneEffectPerKey
    <2>1. CASE j = k
      BY <1>3, <1>6, <1>7, <1>10, <2>1
    <2>2. CASE j # k
      BY <1>6, <2>2 DEF IndInv, RecordsOK, OneEffectPerKey
    <2>. QED BY <2>1, <2>2
  <1>12. ASSUME NEW j \in RecordKeys, NEW p, NEW r, Committed(effects[j], p, r)
         PROVE  Committed(effects'[j], p, r)
    BY <1>6, <1>7, <1>12 DEF Committed
  <1>13. ReplayIsAnOriginal'
    <2>1. \A b \in Attempts : attempt[b].pc = "replayed" => KeyOf(b) \in RecordKeys
      BY BegunAttempt
    <2>. QED BY <1>4, <1>6, <1>12, <2>1
           DEF IndInv, ReplayIsAnOriginal, KeyOf
  <1>. QED BY <1>8, <1>9, <1>11, <1>13 DEF IndInv

LEMMA ExpireStep ==
  ASSUME IndInv, NEW k \in RecordKeys, Expire(k)
  PROVE  IndInv'
  <1>. DEFINE stored == [record[k] EXCEPT !.expired = TRUE]
  <1>1. record[k] \in Record /\ expiries[k] \in Nat /\ record[k].status # "none"
    BY DEF IndInv, TypeOK, Expire
  <1>2. /\ stored \in Record /\ stored.status = record[k].status
        /\ stored.hash = record[k].hash /\ stored.response = record[k].response
        /\ stored.expired
    BY <1>1 DEF Record
  <1>3. /\ record' = [record EXCEPT ![k] = stored]
        /\ expiries' = [expiries EXCEPT ![k] = expiries[k] + 1]
        /\ keyLock' = keyLock /\ attempt' = attempt /\ effects' = effects
    BY <1>1 DEF Expire, IndInv, TypeOK, Record
  <1>. HIDE DEF stored
  <1>4. TypeOK'
    BY <1>1, <1>2, <1>3 DEF IndInv, TypeOK
  <1>5. /\ record'[k] = stored /\ \A j \in RecordKeys \ {k} : record'[j] = record[j]
        /\ expiries'[k] = expiries[k] + 1
        /\ \A j \in RecordKeys \ {k} : expiries'[j] = expiries[j]
    BY <1>3 DEF IndInv, TypeOK
  <1>6. AttemptsOK'
    <2>. SUFFICES ASSUME NEW b \in Attempts
         PROVE  AttemptOK(b, attempt[b], keyLock[KeyOf(b)], record'[KeyOf(b)])
      BY <1>3 DEF AttemptsOK, KeyOf
    <2>1. CASE attempt[b].pc # "new" /\ KeyOf(b) = k
      BY <1>2, <1>5, <2>1 DEF IndInv, AttemptsOK, AttemptOK, KeyOf
    <2>2. CASE attempt[b].pc # "new" /\ KeyOf(b) # k
      BY <1>5, <2>2, BegunAttempt DEF IndInv, AttemptsOK
    <2>3. CASE attempt[b].pc = "new"
      BY <2>3 DEF AttemptOK
    <2>. QED BY <2>1, <2>2, <2>3
  <1>7. \A j \in RecordKeys : Len(effects[j]) \in Nat /\ expiries[j] \in Nat
    BY DEF IndInv, TypeOK
  <1>8. OneEffectPerKey'
    BY <1>3, <1>5, <1>7 DEF IndInv, OneEffectPerKey
  <1>9. RecordsOK'
    BY <1>1, <1>2, <1>3, <1>5, <1>7 DEF IndInv, RecordsOK, OneEffectPerKey
  <1>10. ReplayIsAnOriginal'
    BY <1>3 DEF IndInv, ReplayIsAnOriginal, KeyOf
  <1>. QED BY <1>4, <1>6, <1>8, <1>9, <1>10 DEF IndInv

LEMMA InitHolds == Init => IndInv
  <1>. SUFFICES ASSUME Init PROVE IndInv
    OBVIOUS
  <1>1. NoRecord \in Record /\ Fresh \in Attempt /\ <<>> \in Seq(Effect) /\ Len(<<>>) = 0
    BY DEF NoRecord, Record, Fresh, Attempt
  <1>2. NoRecord.status = "none" /\ NoRecord.expired = FALSE /\ Fresh.pc = "new"
    BY DEF NoRecord, Fresh
  <1>3. TypeOK
    BY <1>1 DEF Init, TypeOK
  <1>4. AttemptsOK /\ ReplayIsAnOriginal
    BY <1>2 DEF Init, AttemptsOK, AttemptOK, ReplayIsAnOriginal
  <1>5. RecordsOK /\ OneEffectPerKey
    BY <1>1, <1>2 DEF Init, RecordsOK, OneEffectPerKey
  <1>. QED BY <1>3, <1>4, <1>5 DEF IndInv

LEMMA StepHolds == IndInv /\ [Next]_vars => IndInv'
  <1>. SUFFICES ASSUME IndInv, [Next]_vars PROVE IndInv'
    OBVIOUS
  <1>1. CASE Next
    BY <1>1, BeginStep, ClaimStep, WorkReturnsStep, CompleteStep, CommitStep, FailStep,
       ExpireStep DEF Next
  <1>2. CASE UNCHANGED vars
    BY <1>2 DEF vars, IndInv, TypeOK, AttemptsOK, RecordsOK, OneEffectPerKey,
       ReplayIsAnOriginal, KeyOf
  <1>. QED BY <1>1, <1>2

-----------------------------------------------------------------------------
(* The theorems *)

(* Every state of the executor and its store satisfies the inductive        *)
(* invariant.                                                               *)
THEOREM Invariance == Spec => []IndInv
  BY InitHolds, StepHolds, PTL DEF Spec

(* Type correctness of the records, the locks and the attempts. *)
THEOREM TypeCorrect == Spec => []TypeOK
  BY Invariance, PTL DEF IndInv

(* The claim is exclusive: one attempt at work per key, and only over an    *)
(* absent or expired record, for any number of concurrent retries.          *)
THEOREM Exclusive == Spec => []ClaimIsExclusive
  <1>1. IndInv => ClaimIsExclusive
    BY DEF IndInv, AttemptsOK, AttemptOK, ClaimIsExclusive, Working, KeyOf
  <1>. QED BY <1>1, Invariance, PTL

(* Exactly-once by key: at most one committed effect per life of a record. *)
THEOREM ExactlyOnce == Spec => []OneEffectPerKey
  BY Invariance, PTL DEF IndInv

(* A replayed response was committed for the same key and payload. *)
THEOREM FaithfulReplay == Spec => []ReplayIsAnOriginal
  BY Invariance, PTL DEF IndInv

=============================================================================

------------------------------- MODULE Money --------------------------------
(***************************************************************************)
(* Money arithmetic (platform/money): fixed-point decimals, rounding,      *)
(* allocation and proration.  Pure functions, so the behaviour is one      *)
(* calculation: a question from Questions and its answer.  Parsing and     *)
(* printing are left out; civil dates are day numbers.                     *)
(***************************************************************************)
EXTENDS Integers, Sequences, FiniteSets

CONSTANTS MaxPrecision,  \* MAX_PRECISION, 38 in the code
          MaxScale,      \* MAX_SCALE, 18 in the code
          Questions      \* the calculations asked for

ASSUME LimitsAssumption == MaxPrecision \in Nat \ {0} /\ MaxScale \in Nat

VARIABLES question, answer
moneyVars == <<question, answer>>

Modes == {"HALF_UP", "HALF_EVEN", "DOWN", "UP"}
Rejected == [rejected |-> "calculation_rejected"]
Unanswered == [rejected |-> "unanswered"]

-----------------------------------------------------------------------------
(* decimal.ts *)

Magnitude(n) == IF n < 0 THEN -n ELSE n

Pow10(exponent) ==
  LET power[n \in 0 .. exponent] == IF n = 0 THEN 1 ELSE 10 * power[n - 1]
  IN  power[exponent]

(* Every Decimal is made here: at most MaxPrecision significant digits. *)
Decimal(units, scale) ==
  IF scale \in 0 .. MaxScale /\ Magnitude(units) < Pow10(MaxPrecision)
  THEN [units |-> units, scale |-> scale] ELSE Rejected

UnitsAt(x, scale) == x.units * Pow10(scale - x.scale)

(* Mutation: a tie is rounded up, not away from zero. *)
RoundedQuotientUpward(dividend, divisor, mode) ==
  LET twice == IF divisor < 0 THEN -2 * dividend ELSE 2 * dividend
      d == Magnitude(divisor)
  IN  IF mode = "HALF_UP" THEN (twice + d) \div (2 * d) ELSE dividend \div divisor

(* roundedQuotient works on magnitudes: \div and % are used on naturals only. *)
RoundedQuotient(dividend, divisor, mode) ==
  LET n == Magnitude(dividend)
      d == Magnitude(divisor)
      q == n \div d
      twice == 2 * (n % d)
      away == /\ twice # 0
              /\ \/ mode = "UP"
                 \/ mode = "HALF_UP" /\ twice >= d
                 \/ mode = "HALF_EVEN" /\ (twice > d \/ (twice = d /\ q % 2 = 1))
      quotient == IF away THEN q + 1 ELSE q
  IN  IF (dividend < 0) # (divisor < 0) THEN -quotient ELSE quotient

MultiplyExactly(x, y) == Decimal(x.units * y.units, x.scale + y.scale)

(* multiply with a stated scale and mode. *)
Multiply(x, y, scale, mode) ==
  LET exact == x.scale + y.scale
      product == x.units * y.units
  IN  IF scale >= exact THEN Decimal(product * Pow10(scale - exact), scale)
      ELSE Decimal(RoundedQuotient(product, Pow10(exact - scale), mode), scale)

Divide(x, y, scale, mode) ==
  IF y.units = 0 THEN Rejected
  ELSE Decimal(RoundedQuotient(x.units * Pow10(y.scale + scale), y.units * Pow10(x.scale), mode),
               scale)

Round(x, scale, mode) ==
  IF scale >= x.scale THEN Decimal(UnitsAt(x, scale), scale)
  ELSE Decimal(RoundedQuotient(x.units, Pow10(x.scale - scale), mode), scale)

Rescale(x, scale) ==
  IF scale >= x.scale THEN Decimal(UnitsAt(x, scale), scale)
  ELSE LET divisor == Pow10(x.scale - scale)
       IN  IF Magnitude(x.units) % divisor # 0 THEN Rejected
           ELSE Decimal(RoundedQuotient(x.units, divisor, "DOWN"), scale)

-----------------------------------------------------------------------------
(* money.ts: an amount is a Decimal at its currency's minor units *)

(* Money.of *)
MoneyOf(x, minorUnits) ==
  IF x = Rejected \/ x.scale > minorUnits THEN Rejected ELSE Rescale(x, minorUnits)

(* reduce: what the first n numbers add up to. *)
Sums(numbers) ==
  LET sum[n \in 0 .. Len(numbers)] == IF n = 0 THEN 0 ELSE sum[n - 1] + numbers[n]
  IN  sum
SumOf(numbers) == Sums(numbers)[Len(numbers)]

(* Mutation: ties go to the share that was named first. *)
BeforeInInput(shares, remainder, i, j) ==
  remainder[i] > remainder[j] \/ (remainder[i] = remainder[j] /\ i < j)

(* The sort: larger remainders first, ties by ascending key. *)
Before(shares, remainder, i, j) ==
  \/ remainder[i] > remainder[j]
  \/ remainder[i] = remainder[j] /\ shares[i].key < shares[j].key

(* allocate: minor units of total, shares with keys and weights.  The first *)
(* `leftover` shares of the sorted order get one more unit each.            *)
Allocate(total, shares) ==
  LET scale == CHOOSE s \in {shares[i].weight.scale : i \in DOMAIN shares} :
                 \A i \in DOMAIN shares : shares[i].weight.scale <= s
      weights == [i \in DOMAIN shares |-> UnitsAt(shares[i].weight, scale)]
      weightSum == SumOf(weights)
      units == Magnitude(total)
      base == [i \in DOMAIN shares |-> (units * weights[i]) \div weightSum]
      remainder == [i \in DOMAIN shares |-> (units * weights[i]) % weightSum]
      leftover == units - SumOf(base)
      rank == [i \in DOMAIN shares |->
                 Cardinality({j \in DOMAIN shares : Before(shares, remainder, j, i)})]
      part == [i \in DOMAIN shares |-> IF rank[i] < leftover THEN base[i] + 1 ELSE base[i]]
  IN  IF \/ shares = <<>>
         \/ \E i, j \in DOMAIN shares : i # j /\ shares[i].key = shares[j].key
         \/ \E i \in DOMAIN shares : shares[i].weight.units < 0
         \/ \E i \in DOMAIN shares : Rescale(shares[i].weight, scale) = Rejected
         \/ \A i \in DOMAIN shares : shares[i].weight.units = 0
      THEN Rejected
      ELSE [parts |-> [i \in DOMAIN shares |-> IF total < 0 THEN -part[i] ELSE part[i]]]

-----------------------------------------------------------------------------
(* proration.ts, over day numbers; intervals are half open *)

(* Mutation: the last day of an interval counts as used. *)
ProrateInclusive(amount, used, period, mode) ==
  LET exact == MultiplyExactly(amount, Decimal(used.end + 1 - used.start, 0))
      days == Decimal(period.end - period.start, 0)
  IN  IF \/ period.end <= period.start \/ used.end < used.start
         \/ used.start < period.start \/ used.end > period.end
         \/ days = Rejected \/ exact = Rejected
      THEN Rejected
      ELSE MoneyOf(Divide(exact, days, amount.scale, mode), amount.scale)

(* prorateActualDays *)
Prorate(amount, used, period, mode) ==
  LET exact == MultiplyExactly(amount, Decimal(used.end - used.start, 0))
      days == Decimal(period.end - period.start, 0)
  IN  IF \/ period.end <= period.start \/ used.end < used.start
         \/ used.start < period.start \/ used.end > period.end
         \/ days = Rejected \/ exact = Rejected
      THEN Rejected
      ELSE MoneyOf(Divide(exact, days, amount.scale, mode), amount.scale)

-----------------------------------------------------------------------------
(* One calculation *)

Result(q) ==
  CASE q.op = "divide" -> Divide(q.x, q.y, q.scale, q.mode)
    [] q.op = "multiply" -> Multiply(q.x, q.y, q.scale, q.mode)
    [] q.op = "round" -> Round(q.x, q.scale, q.mode)
    [] q.op = "allocate" -> Allocate(q.total, q.shares)
    [] q.op = "prorate" -> Prorate(q.amount, q.used, q.period, q.mode)

(* What callers can pass: decimals that exist, shares with keys that can be *)
(* compared, dates, and any output scale.                                   *)
IsDecimal(x) == x \in [units : Int, scale : 0 .. MaxScale] /\ Magnitude(x.units) < Pow10(MaxPrecision)
IsRounding(q) == IsDecimal(q.x) /\ q.scale \in Nat /\ q.mode \in Modes
Interval == [start : Int, end : Int]
IsQuestion(q) ==
  \/ q.op = "round" /\ IsRounding(q)
  \/ q.op \in {"divide", "multiply"} /\ IsRounding(q) /\ IsDecimal(q.y)
  \/ /\ q.op = "allocate" /\ q.total \in Int /\ Magnitude(q.total) < Pow10(MaxPrecision)
     /\ q.shares \in Seq([key : Int, weight : [units : Int, scale : 0 .. MaxScale]])
     /\ \A i \in DOMAIN q.shares : IsDecimal(q.shares[i].weight)
  \/ q.op = "prorate" /\ IsDecimal(q.amount) /\ {q.used, q.period} \subseteq Interval /\ q.mode \in Modes

ASSUME QuestionsAssumption == \A q \in Questions : IsQuestion(q)

MoneyInit == question \in Questions /\ answer = Unanswered

Calculate ==
  /\ answer = Unanswered
  /\ answer' = Result(question)
  /\ UNCHANGED question

MoneyNext == Calculate
MoneySpec == MoneyInit /\ [][MoneyNext]_moneyVars

Answered(op) == question.op = op /\ answer \notin {Rejected, Unanswered}

-----------------------------------------------------------------------------
(* Properties *)

(* r is the fraction n / d rounded as the mode says. *)
IsRounded(r, n, d, mode) ==
  LET size == Magnitude(d)
      error == Magnitude(r * d - n)
      outward == Magnitude(r) * size >= Magnitude(n)
  IN  CASE mode = "DOWN" -> error < size /\ Magnitude(r) * size <= Magnitude(n)
        [] mode = "UP" -> error < size /\ outward
        [] mode = "HALF_UP" -> 2 * error <= size /\ (2 * error = size => outward)
        [] mode = "HALF_EVEN" -> 2 * error <= size /\ (2 * error = size => r % 2 = 0)

(* Every operation that rounds returns the one value its mode allows for    *)
(* the exact result, whatever the signs and scales, and refuses it exactly  *)
(* when it has too many digits or decimals or there is none.                *)
RoundsOnce ==
  question.op \in {"divide", "multiply", "round"} /\ answer # Unanswered =>
    LET q == question
        n == CASE q.op = "divide" -> q.x.units * Pow10(q.y.scale + q.scale)
               [] q.op = "multiply" -> q.x.units * q.y.units * Pow10(q.scale)
               [] q.op = "round" -> q.x.units * Pow10(q.scale)
        d == CASE q.op = "divide" -> q.y.units * Pow10(q.x.scale)
               [] q.op = "multiply" -> Pow10(q.x.scale + q.y.scale)
               [] q.op = "round" -> Pow10(q.x.scale)
        largest == Pow10(MaxPrecision) - 1
    IN  IF answer = Rejected
        THEN d = 0 \/ q.scale > MaxScale \/ ~\E r \in -largest .. largest : IsRounded(r, n, d, q.mode)
        ELSE /\ d # 0 /\ IsRounded(answer.units, n, d, q.mode)
             /\ answer.scale = q.scale /\ Magnitude(answer.units) <= largest

(* 'Splits total so the parts sum exactly to the total': nothing is lost,   *)
(* no part is a unit or more away from its exact share, a share of weight   *)
(* zero gets nothing, and a heavier share never gets less; 'the result is   *)
(* in input order and does not depend on it'.                               *)
AllocatesFairly ==
  Answered("allocate") =>
    LET s == question.shares
        part == answer.parts
        common == [i \in DOMAIN s |-> UnitsAt(s[i].weight, MaxScale)]
        sum == SumOf(common)
    IN  /\ SumOf(part) = question.total
        /\ \A i \in DOMAIN s :
             /\ Magnitude(part[i] * sum - question.total * common[i]) < sum
             /\ s[i].weight.units = 0 => part[i] = 0
             /\ \A j \in DOMAIN s :
                  common[i] > common[j] => Magnitude(part[i]) >= Magnitude(part[j])
        /\ \A i, j \in DOMAIN s :
             LET swap == [k \in DOMAIN s |-> IF k = i THEN j ELSE IF k = j THEN i ELSE k]
                 swapped == Allocate(question.total, [k \in DOMAIN s |-> s[swap[k]]]).parts
             IN  \A k \in DOMAIN s : swapped[k] = part[swap[k]]

(* ACTUAL_DAYS proration, 'rounded once to the currency minor unit': the    *)
(* whole period costs the whole amount, crediting an amount undoes charging *)
(* it, and what the three intervals of a period cost adds up to the amount  *)
(* but for one minor unit where a mode rounds to the nearest, and two where *)
(* it rounds to one side.                                                   *)
ProratesConsistently ==
  Answered("prorate") =>
    LET q == question
        whole == Prorate(q.amount, q.period, q.period, q.mode)
        before == Prorate(q.amount, [start |-> q.period.start, end |-> q.used.start], q.period, q.mode)
        after == Prorate(q.amount, [start |-> q.used.end, end |-> q.period.end], q.period, q.mode)
        credit == Prorate([q.amount EXCEPT !.units = -@], q.used, q.period, q.mode)
    IN  /\ whole \in {q.amount, Rejected}
        /\ credit.units = -answer.units
        /\ before # Rejected /\ after # Rejected =>
             Magnitude(before.units + answer.units + after.units - q.amount.units)
               <= (IF q.mode \in {"HALF_UP", "HALF_EVEN"} THEN 1 ELSE 2)

=============================================================================

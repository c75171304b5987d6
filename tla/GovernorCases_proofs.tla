------------------------ MODULE GovernorCases_proofs ------------------------
(***************************************************************************)
(* What every decision of the Governor keeps, for every value of its       *)
(* constants and of its inputs: an approved order is safe and within       *)
(* budget, a worse account is never sized larger, and exposure never       *)
(* unlocks an order.                                                       *)
(***************************************************************************)
EXTENDS GovernorCases, RiskGovernorLemmas

\* The inputs of a call keep their types.
LEMMA CallTyped == Spec => [](case \in Call)
<1>1. Init => case \in Call
  <2> SUFFICES ASSUME Init PROVE case \in Call
    OBVIOUS
  <2>1. PICK s \in Stops, b \in Baselines :
          case = [equity |-> CHOOSE e \in Equities : \A x \in Equities : x <= e,
                  b0 |-> b, openRisk |-> 0, stop |-> s, ks |-> "armed",
                  bias |-> "normal", fresh |-> TRUE,
                  requests |-> 0, trades |-> 0, pendings |-> 0]
    BY DEF Init
  <2>2. (CHOOSE e \in Equities : \A x \in Equities : x <= e) \in Equities
    BY InputAssumption
  <2> QED
    BY <2>1, <2>2, InputAssumption DEF Call, KillSwitchState, Biases
<1>2. case \in Call /\ [Next]_case => (case \in Call)'
  BY DEF Call, Next, EquityFalls, LatchEscalates, RiskOpens, CountersGrow,
         TurnsCautious, GoesStale, Biases
<1> QED
  BY <1>1, <1>2, PTL DEF Spec

\* StopOutNeverFlattens: no order the Governor approves can, when it and all
\* that is open is stopped out at its buffered loss, reach a floor or FLATTEN.
THEOREM ApprovedOrdersAreSafe == Spec => []StopOutNeverFlattens
<1>1. case \in Call => StopOutNeverFlattens
  <2> SUFFICES ASSUME case \in Call, Decision(case).approved
               PROVE  LET d == Decision(case)
                          after == case.equity - d.risk - case.openRisk
                      IN  /\ after > DailyFloor(case.b0) /\ after > OverallFloor
                          /\ DeriveKillswitch(LossUsed(case.b0, after), TRUE) # "flatten"
    BY DEF StopOutNeverFlattens
  <2> DEFINE d == Decision(case)
             loss == d.risk + case.openRisk
  <2>1. /\ case.equity \in Int /\ case.b0 \in Int
        /\ case.openRisk \in Nat /\ case.stop \in Nat
    BY InputAssumption DEF Call
  <2>2. d.risk \in Nat
    BY <2>1, EntryTypes DEF Decision, SignalOf, AccountOf
  <2>3. ChecksPass(SignalOf(case), AccountOf(case), DayOf(case), d.risk)
    BY ApprovedEntry DEF Decision
  <2> HIDE DEF d
  <2>4. /\ FloorOk(case.equity, loss, case.b0)
        /\ Allowed(LossUsed(case.b0, case.equity), loss)
    BY <2>3 DEF ChecksPass, SignalOf, AccountOf, DayOf
  <2>5. loss \in Nat
    BY <2>1, <2>2
  <2>6. case.equity - loss = case.equity - d.risk - case.openRisk
    BY <2>1, <2>2
  <2>7. DeriveKillswitch(LossUsed(case.b0, case.equity - loss), TRUE) # "flatten"
    BY <2>1, <2>4, <2>5, StopOutShortOfFlatten
  <2> QED
    BY <2>4, <2>6, <2>7 DEF FloorOk, d
<1> QED
  BY <1>1, CallTyped, PTL

-----------------------------------------------------------------------------
(* The size of one order.                                                  *)

\* With a lot step of whole hundredths of a lot, rounding to two decimals after
\* the floor to the lot step changes nothing.
LEMMA RoundedAlready ==
  ASSUME NEW milli \in Nat, milli % 10 = 0
  PROVE  RoundLots(milli) = milli
BY DEF RoundLots

LEMMA WholeSteps ==
  ASSUME LotStep % 10 = 0, NEW steps \in Nat
  PROVE  steps * LotStep \in Nat /\ (steps * LotStep) % 10 = 0
<1>1. LotStep \in Nat /\ LotStep = 10 * (LotStep \div 10)
  BY SizingAssumption
<1> DEFINE tens == LotStep \div 10
<1>2. tens \in Nat
  BY <1>1
<1> HIDE DEF tens
<1>3. steps * LotStep = 10 * (steps * tens)
  BY <1>1, <1>2, Z3 DEF tens
<1>4. steps * tens \in Nat
  BY <1>2, ProductType
<1> HIDE <1>1
<1>5. (10 * (steps * tens)) % 10 = 0
  <2> DEFINE n == steps * tens
  <2> HIDE DEF n
  <2>1. n \in Nat => (10 * n) % 10 = 0
    OBVIOUS
  <2> QED BY <1>4, <2>1 DEF n
<1> QED BY <1>3, <1>4, <1>5

\* The lot steps risk no more than the fraction of equity they are sized for.
LEMMA LotsWithinFraction ==
  ASSUME NEW f, f.num \in Nat, f.den \in Nat, f.den > 0,
         NEW e \in Int, NEW denom \in Nat,
         LotsForFraction(f, e, denom) > 0
  PROVE  LotsForFraction(f, e, denom) * (f.den * denom) <= f.num * e
<1> DEFINE steps == LotsForFraction(f, e, denom)
           q == (f.num * e) \div (f.den * denom)
<1>1. denom > 0 /\ f.num > 0
  BY SizingAssumption DEF LotsForFraction
<1>2. f.den * denom \in Nat /\ f.den * denom > 0
  BY <1>1, ProductPositive
<1>3. f.num * e \in Int
  OBVIOUS
<1>4. q \in Int /\ q * (f.den * denom) <= f.num * e
  BY <1>2, <1>3, QuotientBounds
<1>5. steps =
        (IF q < MinSteps THEN 0 ELSE IF q > MaxSteps THEN MaxSteps ELSE q)
  BY <1>1 DEF LotsForFraction
<1>6. steps > 0
  OBVIOUS
<1> HIDE DEF q, steps
<1>7. steps \in Int /\ steps <= q
  BY <1>4, <1>5, <1>6, SizingAssumption
<1>8. steps * (f.den * denom) <= q * (f.den * denom)
  BY <1>2, <1>4, <1>7, ScaleOrder
<1>9. steps * (f.den * denom) \in Int /\ q * (f.den * denom) \in Int
  BY <1>2, <1>4, <1>7
<1>10. steps * (f.den * denom) <= f.num * e
  BY <1>3, <1>4, <1>8, <1>9
<1> QED BY <1>10 DEF steps

\* An approved order, as it is sent, never risks more than the effective fraction
\* of equity, for every lot step the rounding to two decimals can represent.  (A
\* finer lot step may be rounded up past the budget.)
THEOREM SentWithinBudget ==
  ASSUME LotStep % 10 = 0
  PROVE  Spec => []OrderWithinBudget
<1>1. case \in Call => OrderWithinBudget
  <2> SUFFICES ASSUME case \in Call, Decision(case).approved
               PROVE  LET d == Decision(case)
                          f == EffectiveRiskFraction(SignalOf(case), AccountOf(case),
                                                     Killswitch(case))
                      IN  d.lots * Denom(case.stop) * f.den <= f.num * case.equity * LotStep
    BY DEF OrderWithinBudget
  <2> DEFINE d == Decision(case)
             f == EffectiveRiskFraction(SignalOf(case), AccountOf(case), Killswitch(case))
             denom == Denom(case.stop)
             steps == LotsForFraction(f, case.equity, denom)
  <2>1. case.equity \in Int /\ case.stop \in Nat
    BY InputAssumption DEF Call
  <2>2. denom \in Nat
    BY <2>1, DenomType
  <2>3. f.num \in Nat /\ f.den \in Nat /\ f.den > 0
    BY <2>1, FractionType DEF AccountOf
  <2>4. d.lots = RoundLots(steps * LotStep) /\ steps > 0
    BY DEF Decision, EvaluateEntry, Veto, Killswitch, SignalOf, AccountOf
  <2> HIDE DEF f, denom, d
  <2>5. steps \in Nat
    BY <2>1, <2>2, <2>3, LotsType
  <2>6. steps * (f.den * denom) <= f.num * case.equity
    BY <2>1, <2>2, <2>3, <2>4, LotsWithinFraction
  <2> HIDE DEF steps
  <2>7. d.lots = steps * LotStep
    BY <2>4, <2>5, WholeSteps, RoundedAlready
  <2>8. /\ f.den * denom \in Nat /\ steps * (f.den * denom) \in Int
        /\ f.num * case.equity \in Int
    BY <2>1, <2>2, <2>3, <2>5, ProductType
  <2>9. (steps * (f.den * denom)) * LotStep <= (f.num * case.equity) * LotStep
    BY <2>6, <2>8, SizingAssumption, ScaleOrder
  <2>10. (steps * LotStep) * denom * f.den = (steps * (f.den * denom)) * LotStep
    <3>1. steps \in Int /\ LotStep \in Int /\ denom \in Int /\ f.den \in Int
      BY <2>2, <2>3, <2>5, SizingAssumption
    <3>2. PICK a \in Int, b \in Int, c \in Int, q \in Int :
             a = steps /\ b = LotStep /\ c = denom /\ q = f.den
      BY <3>1, Zenon
    <3>3. (a * b) * c * q = (a * (q * c)) * b
      BY Z3
    <3> QED BY <3>2, <3>3, Zenon
  <2> QED BY <2>7, <2>9, <2>10 DEF d, f, denom
<1> QED BY <1>1, CallTyped, PTL

-----------------------------------------------------------------------------
(* Two calls, one worse than the other.                                    *)

\* What a step changes, it makes worse.
LEMMA Worse ==
  ASSUME case \in Call, Next
  PROVE  /\ case' \in Call
         /\ case'.b0 = case.b0 /\ case'.stop = case.stop
         /\ case'.equity <= case.equity
         /\ Severity(case'.ks) >= Severity(case.ks)
         /\ case'.bias \in {case.bias, "cautious"}
         /\ case'.fresh => case.fresh
         /\ case'.openRisk >= case.openRisk /\ case'.requests >= case.requests
         /\ case'.trades >= case.trades /\ case'.pendings >= case.pendings
<1>1. /\ case.equity \in Int /\ case.openRisk \in Nat /\ case.requests \in Nat
      /\ case.trades \in Nat /\ case.pendings \in Nat /\ Severity(case.ks) \in Nat
  BY InputAssumption DEF Call, Severity
<1> USE DEF Call
<1>2. CASE EquityFalls
  BY <1>1, <1>2, InputAssumption DEF EquityFalls
<1>3. CASE LatchEscalates
  BY <1>1, <1>3, InputAssumption DEF LatchEscalates, Severity
<1>4. CASE RiskOpens
  BY <1>1, <1>4, InputAssumption DEF RiskOpens
<1>5. CASE CountersGrow
  BY <1>1, <1>5, InputAssumption DEF CountersGrow
<1>6. CASE TurnsCautious
  BY <1>1, <1>6, InputAssumption DEF TurnsCautious, Biases
<1>7. CASE GoesStale
  <2>1. case' = [case EXCEPT !.fresh = FALSE]
    BY <1>7 DEF GoesStale
  <2>2. case' \in Call /\ case'.fresh = FALSE
    BY <2>1
  <2>3. /\ case'.b0 = case.b0 /\ case'.stop = case.stop /\ case'.equity = case.equity
        /\ case'.ks = case.ks /\ case'.bias = case.bias
        /\ case'.openRisk = case.openRisk /\ case'.requests = case.requests
        /\ case'.trades = case.trades /\ case'.pendings = case.pendings
    BY <2>1
  <2> QED BY <1>1, <2>2, <2>3
<1> QED BY <1>2, <1>3, <1>4, <1>5, <1>6, <1>7 DEF Next

LEMMA KillswitchWorse ==
  ASSUME case \in Call, Next
  PROVE  /\ Killswitch(case) \in KillSwitchState /\ Killswitch(case') \in KillSwitchState
         /\ Severity(Killswitch(case')) >= Severity(Killswitch(case))
<1>1. case' \in Call
  BY Worse
<1>2. \A c \in Call : /\ c.b0 \in Int /\ c.equity \in Int /\ c.ks \in KillSwitchState
                      /\ c.fresh \in BOOLEAN
  BY InputAssumption DEF Call
<1> QED BY <1>1, <1>2, Worse, KillswitchMonotone, LatchKeepsSeverity
        DEF Killswitch, DayOf, AccountOf

\* The divisors of the bias and of the kill-switch tier.
BiasDiv(c) == IF c.bias = "cautious" THEN CautiousDiv ELSE 1
TierDiv(c) == IF Killswitch(c) = "reduce" THEN ReducedDiv ELSE 1
Divisor(c) == 10000 * BiasDiv(c) * TierDiv(c)

FractionOf(c) == EffectiveRiskFraction(SignalOf(c), AccountOf(c), Killswitch(c))

LEMMA FractionIs ==
  ASSUME NEW c \in Call
  PROVE  FractionOf(c) = [num |-> BaseRiskBp * Taper(c.equity).num,
                          den |-> Divisor(c) * Taper(c.equity).den]
<1>1. c.bias # "stand_down"
  BY DEF Call, Biases
<1> QED BY <1>1 DEF FractionOf, EffectiveRiskFraction, SignalOf, AccountOf, Divisor,
                    BiasDiv, TierDiv

LEMMA DivisorType ==
  ASSUME NEW c
  PROVE  Divisor(c) \in Nat /\ Divisor(c) > 0
<1>1. /\ 10000 * BiasDiv(c) \in Nat /\ 10000 * BiasDiv(c) > 0
      /\ TierDiv(c) \in Nat /\ TierDiv(c) > 0
  BY SizingAssumption DEF BiasDiv, TierDiv
<1> QED BY <1>1, ProductPositive DEF Divisor

LEMMA DivisorGrows ==
  ASSUME case \in Call, Next, Killswitch(case') \in {"armed", "reduce"}
  PROVE  Divisor(case) <= Divisor(case')
<1>1. BiasDiv(case) <= BiasDiv(case') /\ BiasDiv(case) \in Nat /\ BiasDiv(case') \in Nat
  BY Worse, SizingAssumption DEF BiasDiv
<1>2. Killswitch(case) = "reduce" => Killswitch(case') = "reduce"
  BY KillswitchWorse DEF Severity
<1>3. TierDiv(case) <= TierDiv(case') /\ TierDiv(case) \in Nat /\ TierDiv(case') \in Nat
  BY <1>2, SizingAssumption DEF TierDiv
<1>4. 10000 * BiasDiv(case) <= 10000 * BiasDiv(case')
  BY <1>1
<1> QED BY <1>1, <1>3, <1>4, ProductOrder DEF Divisor

\* (b n') e' (K n'' D) <= (b n) e (K' d' D), factor by factor.
LEMMA CrossProduct ==
  ASSUME NEW b \in Nat, NEW D \in Nat, NEW K \in Nat, NEW K2 \in Nat, K <= K2,
         NEW e \in Nat, NEW e2 \in Nat, e2 <= e,
         NEW n \in Nat, NEW d \in Nat, NEW n2 \in Nat, NEW d2 \in Nat,
         n2 * d <= n * d2
  PROVE  (b * n2 * e2) * ((K * d) * D) <= (b * n * e) * ((K2 * d2) * D)
<1>1. /\ n2 * d \in Nat /\ n * d2 \in Nat /\ e2 * K \in Nat /\ e * K2 \in Nat
      /\ b * D \in Nat
  BY ProductType
<1>2. e2 * K <= e * K2
  BY ProductOrder
<1>3. (n2 * d) * (e2 * K) <= (n * d2) * (e * K2)
  BY <1>1, <1>2, ProductOrder
<1>4. (n2 * d) * (e2 * K) \in Nat /\ (n * d2) * (e * K2) \in Nat
  BY <1>1, ProductType
<1>5. ((n2 * d) * (e2 * K)) * (b * D) <= ((n * d2) * (e * K2)) * (b * D)
  BY <1>1, <1>3, <1>4, ScaleOrder
<1>6. (b * n2 * e2) * ((K * d) * D) = ((n2 * d) * (e2 * K)) * (b * D)
  BY Z3
<1>7. (b * n * e) * ((K2 * d2) * D) = ((n * d2) * (e * K2)) * (b * D)
  BY Z3
<1> QED BY <1>5, <1>6, <1>7

\* A negative equity buys nothing.
LEMMA NoLotsInDebt ==
  ASSUME NEW f, f.num \in Nat, f.den \in Nat, f.den > 0,
         NEW e \in Int, e < 0, NEW denom \in Nat
  PROVE  LotsForFraction(f, e, denom) = 0
<1> SUFFICES ASSUME LotsForFraction(f, e, denom) > 0 PROVE FALSE
  BY LotsType
<1> DEFINE steps == LotsForFraction(f, e, denom)
<1>1. steps \in Nat /\ steps > 0
  BY LotsType
<1>2. steps * (f.den * denom) <= f.num * e
  BY LotsWithinFraction
<1>3. denom > 0 /\ f.num > 0
  BY SizingAssumption DEF LotsForFraction
<1> HIDE DEF steps
<1>4. f.den * denom \in Nat /\ f.den * denom > 0
  BY <1>3, ProductPositive
<1>5. steps * (f.den * denom) \in Nat /\ steps * (f.den * denom) > 0
  BY <1>1, <1>4, ProductPositive
<1>6. f.num * (0 - e) \in Nat /\ f.num * (0 - e) > 0
  BY <1>3, ProductPositive
<1>7. f.num * e = 0 - f.num * (0 - e)
  BY Z3
<1> QED BY <1>2, <1>5, <1>6, <1>7

\* As equity falls through the taper start and the kill-switch tiers, as the latch
\* escalates or the bias turns cautious, the size never grows: the sizing rule has
\* no jump, whatever its fractions and thresholds are.
THEOREM SizesOnlyShrink == Spec => SizeNeverGrows
<1>1. case \in Call /\ [Next]_case
        => [Killswitch(case') \in {"armed", "reduce"} => Size(case') <= Size(case)]_case
  <2> SUFFICES ASSUME case \in Call, Next, Killswitch(case') \in {"armed", "reduce"}
               PROVE  Size(case') <= Size(case)
    OBVIOUS
  <2> DEFINE f == FractionOf(case)   g == FractionOf(case')
             denom == Denom(case.stop)
             t == Taper(case.equity)   u == Taper(case'.equity)
  <2>1. /\ case' \in Call /\ case'.stop = case.stop /\ case'.equity <= case.equity
        /\ case.equity \in Int /\ case'.equity \in Int /\ case.stop \in Nat
    BY Worse, InputAssumption DEF Call
  <2>2. denom \in Nat
    BY <2>1, DenomType
  <2>3. /\ f.num \in Nat /\ f.den \in Nat /\ f.den > 0
        /\ g.num \in Nat /\ g.den \in Nat /\ g.den > 0
    BY <2>1, FractionType DEF AccountOf, FractionOf
  <2>4. /\ t.num \in Nat /\ t.den \in Nat /\ u.num \in Nat /\ u.den \in Nat
        /\ u.num * t.den <= t.num * u.den
    BY <2>1, TaperType, TaperMonotone
  <2>5. CASE case'.equity >= 0
    <3>1. case'.equity \in Nat /\ case.equity \in Nat
      BY <2>1, <2>5
    <3>2. /\ f = [num |-> BaseRiskBp * t.num, den |-> Divisor(case) * t.den]
          /\ g = [num |-> BaseRiskBp * u.num, den |-> Divisor(case') * u.den]
      BY <2>1, FractionIs
    <3>3. /\ Divisor(case) \in Nat /\ Divisor(case') \in Nat
          /\ Divisor(case) <= Divisor(case')
      BY DivisorType, DivisorGrows
    <3> HIDE DEF t, u, denom, f, g
    <3>4. (BaseRiskBp * u.num * case'.equity) * ((Divisor(case) * t.den) * denom)
            <= (BaseRiskBp * t.num * case.equity) * ((Divisor(case') * u.den) * denom)
      BY <2>1, <2>2, <2>4, <3>1, <3>3, CrossProduct, MoneyAssumption
    <3>5. (g.num * case'.equity) * (f.den * denom)
            <= (f.num * case.equity) * (g.den * denom)
      BY <3>2, <3>4
    <3>6. LotsForFraction(g, case'.equity, denom) <= LotsForFraction(f, case.equity, denom)
      BY <2>1, <2>2, <2>3, <3>5, LotsMonotone
    <3> QED BY <2>1, <3>6 DEF Size, f, g, denom, FractionOf
  <2>6. CASE case'.equity < 0
    <3> HIDE DEF t, u, f, g, denom
    <3>1. LotsForFraction(g, case'.equity, denom) = 0
      BY <2>1, <2>2, <2>3, <2>6, NoLotsInDebt
    <3>2. LotsForFraction(f, case.equity, denom) \in Nat
      BY <2>1, <2>2, <2>3, LotsType
    <3> QED BY <2>1, <3>1, <3>2 DEF Size, f, g, denom, FractionOf
  <2> QED BY <2>1, <2>5, <2>6
<1> QED BY <1>1, CallTyped, PTL DEF Spec, SizeNeverGrows

\* With equity, latch and bias unchanged, more exposure never unlocks an order and
\* never changes its size.
THEOREM ExposureOnlyVetoes == Spec => ExposureNeverUnlocks
<1> DEFINE A == case'.equity = case.equity /\ case'.ks = case.ks /\ case'.bias = case.bias
                => \/ ~Decision(case').approved
                   \/ Decision(case').steps = Decision(case).steps
<1>1. case \in Call /\ [Next]_case => [A]_case
  <2> SUFFICES ASSUME case \in Call, Next, Decision(case').approved,
                      case'.equity = case.equity, case'.ks = case.ks,
                      case'.bias = case.bias
               PROVE  Decision(case').steps = Decision(case).steps
    BY DEF A
  <2> DEFINE steps == Size(case)
             risk == steps * Denom(case.stop)
  <2>1. /\ case' \in Call /\ case'.b0 = case.b0 /\ case'.stop = case.stop
        /\ case'.openRisk >= case.openRisk /\ case'.requests >= case.requests
        /\ case'.trades >= case.trades /\ case'.pendings >= case.pendings
    BY Worse
  <2>2. case'.fresh = TRUE /\ case.fresh = TRUE
    <3>1. case'.fresh /\ (case'.fresh => case.fresh)
      BY Worse, ApprovedEntry DEF Decision, AccountOf
    <3>2. case.fresh \in BOOLEAN /\ case'.fresh \in BOOLEAN
      BY <2>1 DEF Call
    <3> QED BY <3>1, <3>2
  <2>3. /\ AccountOf(case') = AccountOf(case)
        /\ Killswitch(case') = Killswitch(case)
        /\ Size(case') = Size(case)
    <3>1. AccountOf(case') = AccountOf(case)
      BY <2>2 DEF AccountOf
    <3>2. Killswitch(case') = Killswitch(case)
      BY <2>1, <3>1 DEF Killswitch, EffectiveKillswitch, DayOf
    <3>3. FractionOf(case') = FractionOf(case)
      BY <3>1, <3>2 DEF FractionOf, EffectiveRiskFraction, SignalOf
    <3> QED BY <2>1, <3>1, <3>2, <3>3 DEF Size, FractionOf
  <2>4. /\ Decision(case').steps = Size(case') /\ case.stop > 0 /\ Size(case') > 0
        /\ Killswitch(case') \notin {"halted", "flatten"}
        /\ ChecksPass(SignalOf(case'), AccountOf(case'), DayOf(case'),
                      Size(case') * Denom(case'.stop))
    BY <2>1 DEF Decision, EvaluateEntry, Veto, Killswitch, Size, SignalOf, AccountOf
  <2>5. /\ case.openRisk \in Nat /\ case'.openRisk \in Nat /\ case.requests \in Nat
        /\ case'.requests \in Nat /\ case.trades \in Nat /\ case'.trades \in Nat
        /\ case.pendings \in Nat /\ case'.pendings \in Nat
        /\ case.equity \in Int /\ case.b0 \in Int /\ case.stop \in Nat
    BY <2>1, InputAssumption DEF Call
  <2>6. risk \in Nat
    <3>1. Denom(case.stop) \in Nat
      BY <2>5, DenomType
    <3>2. Size(case) \in Nat
      BY <2>5, <3>1, LotsType, FractionType DEF Size, AccountOf
    <3> QED BY <3>1, <3>2, ProductType
  <2> HIDE DEF risk
  <2>7. ChecksPass(SignalOf(case), AccountOf(case), DayOf(case), risk)
    <3>1. ChecksPass(SignalOf(case'), AccountOf(case'), DayOf(case'), risk)
      BY <2>1, <2>3, <2>4 DEF risk
    <3>2. LossUsed(case.b0, case.equity) \in Nat
      BY <2>5 DEF LossUsed, MaxOf
    <3>3. HaltPct * DailyBudget \in Int
      BY MoneyTypes, ThresholdAssumption
    <3>4. MaxConcurrentBp * Scale \in Int
      BY MoneyAssumption
    <3> QED BY <2>1, <2>5, <2>6, <3>1, <3>2, <3>3, <3>4, CapsAssumption, MoneyTypes
            DEF ChecksPass, SignalOf, AccountOf, DayOf, FloorOk, Allowed, DailyFloor,
                ConsistentSize
  <2>8. Decision(case).steps = Size(case)
    BY <2>2, <2>3, <2>4, <2>7 DEF Decision, EvaluateEntry, Veto, Killswitch, Size,
                                SignalOf, AccountOf, risk
  <2> QED BY <2>3, <2>4, <2>8
<1> QED BY <1>1, CallTyped, PTL DEF Spec, ExposureNeverUnlocks
=============================================================================

------------------------- MODULE RiskGovernorLemmas -------------------------
(***************************************************************************)
(* What the Risk Governor's operators return, for every value of the       *)
(* constants: the facts the proofs about GovernorCases and LiveEngine      *)
(* rest on.                                                                *)
(***************************************************************************)
EXTENDS RiskGovernor, TLAPS

\* The money constants of the envelope are integers, the budget positive.
LEMMA MoneyTypes ==
  /\ Initial \in Nat /\ DailyBudget \in Nat /\ DailyBudget > 0
  /\ OverallFloor \in Nat /\ TaperStart \in Int
  BY MoneyAssumption DEF Initial, DailyBudget, OverallFloor, TaperStart

\* The buffered stop is a natural number and no less than the stop itself.
LEMMA DenomType ==
  ASSUME NEW stop \in Nat
  PROVE  Slip(stop) \in Nat /\ Denom(stop) \in Nat /\ Denom(stop) >= stop
  BY MoneyAssumption DEF Slip, Denom

\* The kill-switch only takes the four states; the latch never loses severity.
LEMMA LatchKeepsSeverity ==
  ASSUME NEW day, NEW acct, day.ks \in KillSwitchState
  PROVE  /\ EffectiveKillswitch(day, acct) \in KillSwitchState
         /\ Severity(EffectiveKillswitch(day, acct)) >= Severity(day.ks)
  BY DEF EffectiveKillswitch, DeriveKillswitch, KillSwitchState, Severity

\* Products of positive integers are positive; a quotient of integers by a
\* positive integer is an integer.
LEMMA ProductPositive ==
  ASSUME NEW a \in Nat, NEW b \in Nat, a > 0, b > 0
  PROVE  a * b \in Nat /\ a * b > 0
  BY Z3

LEMMA QuotientType ==
  ASSUME NEW a \in Int, NEW b \in Nat, b > 0
  PROVE  a \div b \in Int
  BY Z3

\* The taper is a fraction with a positive denominator.
LEMMA TaperType ==
  ASSUME NEW equity \in Int
  PROVE  /\ Taper(equity).num \in Nat
         /\ Taper(equity).den \in Nat /\ Taper(equity).den > 0
  BY MoneyTypes DEF Taper, MaxOf

\* So is the effective risk fraction.
LEMMA FractionType ==
  ASSUME NEW sig, NEW acct, NEW ks, acct.equity \in Int
  PROVE  LET f == EffectiveRiskFraction(sig, acct, ks)
         IN  f.num \in Nat /\ f.den \in Nat /\ f.den > 0
<1> DEFINE t == Taper(acct.equity)
           bias == IF sig.bias = "cautious" THEN CautiousDiv ELSE 1
           tier == IF ks = "reduce" THEN ReducedDiv ELSE 1
<1>1. t.num \in Nat /\ t.den \in Nat /\ t.den > 0
  BY TaperType
<1>2. bias \in Nat /\ bias > 0 /\ tier \in Nat /\ tier > 0
  BY SizingAssumption
<1>3. BaseRiskBp * t.num \in Nat
  BY <1>1, MoneyAssumption
<1> HIDE DEF t, bias, tier
<1>4. 10000 * bias \in Nat /\ 10000 * bias > 0
  BY <1>2
<1>5. 10000 * bias * tier \in Nat /\ 10000 * bias * tier > 0
  BY <1>2, <1>4, ProductPositive
<1>6. 10000 * bias * tier * t.den \in Nat /\ 10000 * bias * tier * t.den > 0
  BY <1>1, <1>5, ProductPositive
<1> QED
  BY <1>3, <1>6 DEF EffectiveRiskFraction, t, bias, tier

\* The size is a whole number of lot steps.
LEMMA LotsType ==
  ASSUME NEW f, f.num \in Nat, f.den \in Nat, f.den > 0,
         NEW equity \in Int, NEW denom \in Nat
  PROVE  LotsForFraction(f, equity, denom) \in Nat
<1>1. CASE denom <= 0
  BY <1>1, SizingAssumption DEF LotsForFraction
<1>2. CASE denom > 0
  <2>1. f.den * denom \in Nat /\ f.den * denom > 0
    BY <1>2, ProductPositive
  <2>2. f.num * equity \in Int
    OBVIOUS
  <2>3. (f.num * equity) \div (f.den * denom) \in Int
    BY <2>1, <2>2, QuotientType
  <2> QED
    BY <1>2, <2>3, SizingAssumption DEF LotsForFraction
<1> QED
  BY <1>1, <1>2

\* An approved order has at least one lot step, and its risk is what those lot
\* steps lose at the buffered stop; it passed the floor and the budget check.
LEMMA ApprovedEntry ==
  ASSUME NEW sig, NEW acct, NEW day, EvaluateEntry(sig, acct, day).approved
  PROVE  LET d == EvaluateEntry(sig, acct, day)
         IN  /\ d.risk = d.steps * Denom(sig.stop)
             /\ sig.stop > 0
             /\ acct.fresh
             /\ EffectiveKillswitch(day, acct) \notin {"halted", "flatten"}
             /\ d.steps > 0
             /\ ChecksPass(sig, acct, day, d.risk)
  BY DEF EvaluateEntry, Veto

\* Approved or vetoed, the steps and the risk of a decision are natural numbers.
LEMMA EntryTypes ==
  ASSUME NEW sig, NEW acct, NEW day, acct.equity \in Int, sig.stop \in Nat
  PROVE  LET d == EvaluateEntry(sig, acct, day)
         IN  d.steps \in Nat /\ d.risk \in Nat
<1> DEFINE ks == EffectiveKillswitch(day, acct)
           f == EffectiveRiskFraction(sig, acct, ks)
           steps == LotsForFraction(f, acct.equity, Denom(sig.stop))
<1>1. f.num \in Nat /\ f.den \in Nat /\ f.den > 0
  BY FractionType
<1>2. Denom(sig.stop) \in Nat
  BY DenomType
<1> HIDE DEF f
<1>3. steps \in Nat
  BY <1>1, <1>2, LotsType
<1> HIDE DEF steps, ks
<1>4. steps * Denom(sig.stop) \in Nat
  BY <1>2, <1>3
<1> QED
  BY <1>3, <1>4 DEF EvaluateEntry, Veto, steps, f, ks

\* If the loss of an order is within the allowance and its stop-out above the
\* floors, then after the stop-out the kill-switch is short of FLATTEN.
LEMMA StopOutShortOfFlatten ==
  ASSUME NEW b0 \in Int, NEW equity \in Int, NEW loss \in Nat,
         Allowed(LossUsed(b0, equity), loss)
  PROVE  DeriveKillswitch(LossUsed(b0, equity - loss), TRUE) # "flatten"
<1> DEFINE used == LossUsed(b0, equity)
           after == LossUsed(b0, equity - loss)
<1>1. used \in Nat /\ after \in Nat /\ after <= used + loss
  BY DEF LossUsed, MaxOf
<1>2. HaltPct * DailyBudget < FlattenPct * DailyBudget
  <2>1. (FlattenPct - HaltPct) * DailyBudget > 0
    BY MoneyTypes, ThresholdAssumption, ProductPositive
  <2>2. (FlattenPct - HaltPct) * DailyBudget
          = FlattenPct * DailyBudget - HaltPct * DailyBudget
    BY MoneyTypes, ThresholdAssumption
  <2>3. HaltPct * DailyBudget \in Int /\ FlattenPct * DailyBudget \in Int
    BY MoneyTypes, ThresholdAssumption
  <2> QED
    BY <2>1, <2>2, <2>3
<1>3. 100 * (used + loss) <= HaltPct * DailyBudget
  BY DEF Allowed
<1>4. HaltPct * DailyBudget \in Int /\ FlattenPct * DailyBudget \in Int
  BY MoneyTypes, ThresholdAssumption
<1> HIDE DEF used, after
<1>5. ~(100 * after >= FlattenPct * DailyBudget)
  BY <1>1, <1>2, <1>3, <1>4
<1> QED
  BY <1>5 DEF DeriveKillswitch, Reaches, after

\* Integer division rounds down ...
LEMMA QuotientBounds ==
  ASSUME NEW a \in Int, NEW b \in Nat, b > 0
  PROVE  /\ a \div b \in Int /\ (a \div b) * b <= a /\ a < (a \div b + 1) * b
  BY Z3

\* Factors keep the order.
LEMMA ScaleOrder ==
  ASSUME NEW a \in Int, NEW b \in Int, NEW c \in Nat, a <= b
  PROVE  a * c \in Int /\ b * c \in Int /\ a * c <= b * c
  BY Z3

LEMMA ScaleStrict ==
  ASSUME NEW a \in Int, NEW b \in Int, NEW c \in Nat, a < b, c > 0
  PROVE  a * c < b * c
  BY Z3

\* ... and keeps the order of fractions, compared by their cross products.
LEMMA QuotientMonotone ==
  ASSUME NEW a \in Int, NEW b \in Nat, b > 0, NEW c \in Int, NEW d \in Nat, d > 0,
         a * d <= c * b
  PROVE  a \div b <= c \div d
<1> DEFINE q == a \div b
           r == c \div d
<1>1. q \in Int /\ q * b <= a
  BY QuotientBounds
<1>2. r \in Int /\ c < (r + 1) * d
  BY QuotientBounds
<1> HIDE DEF q, r
<1> SUFFICES ASSUME r + 1 <= q PROVE FALSE
  BY <1>1, <1>2 DEF q, r
<1>3. (r + 1) * b <= q * b /\ (r + 1) * b \in Int /\ q * b \in Int
  BY <1>1, <1>2, ScaleOrder
<1>4. (r + 1) * b <= a
  BY <1>1, <1>3
<1>5. ((r + 1) * b) * d <= a * d
  BY <1>3, <1>4, ScaleOrder
<1>6. (r + 1) * d \in Int
  BY <1>2
<1>7. c * b < ((r + 1) * d) * b
  BY <1>2, <1>6, ScaleStrict
<1>8. ((r + 1) * d) * b = ((r + 1) * b) * d
  BY <1>2, Z3
<1> QED
  BY <1>3, <1>5, <1>6, <1>7, <1>8

LEMMA ProductOrder ==
  ASSUME NEW a \in Nat, NEW b \in Nat, NEW c \in Nat, NEW d \in Nat, a <= b, c <= d
  PROVE  a * c <= b * d
<1>1. a * c <= b * c /\ a * c \in Int /\ b * c \in Int
  BY ScaleOrder
<1>2. c * b <= d * b /\ c * b \in Int /\ d * b \in Int
  BY ScaleOrder
<1>3. b * c = c * b /\ b * d = d * b
  OBVIOUS
<1> QED
  BY <1>1, <1>2, <1>3

LEMMA ProductType ==
  ASSUME NEW a \in Nat, NEW b \in Nat
  PROVE  a * b \in Nat
  BY Z3

\* As the account gets worse, the effective kill-switch never gets milder.
LEMMA KillswitchMonotone ==
  ASSUME NEW day, NEW acct, NEW day2, NEW acct2,
         day.b0 \in Int, acct.equity \in Int, acct2.equity \in Int,
         day.ks \in KillSwitchState, day2.ks \in KillSwitchState,
         day2.b0 = day.b0, acct2.equity <= acct.equity,
         acct.fresh \in BOOLEAN, acct2.fresh \in BOOLEAN, acct2.fresh => acct.fresh,
         Severity(day2.ks) >= Severity(day.ks)
  PROVE  Severity(EffectiveKillswitch(day2, acct2))
           >= Severity(EffectiveKillswitch(day, acct))
<1> DEFINE used == LossUsed(day.b0, acct.equity)
           used2 == LossUsed(day2.b0, acct2.equity)
           derived == DeriveKillswitch(used, acct.fresh)
           derived2 == DeriveKillswitch(used2, acct2.fresh)
<1>1. used \in Nat /\ used2 \in Nat /\ used <= used2
  BY DEF LossUsed, MaxOf
<1>2. \A p \in {FlattenPct, HaltPct, WarnPct} : Reaches(used, p) => Reaches(used2, p)
  <2>1. \A p \in {FlattenPct, HaltPct, WarnPct} : p * DailyBudget \in Int
    BY MoneyTypes, ThresholdAssumption
  <2> HIDE DEF used, used2
  <2> QED
    BY <1>1, <2>1 DEF Reaches
<1> HIDE DEF used, used2
<1>3. /\ derived \in KillSwitchState /\ derived2 \in KillSwitchState
      /\ Severity(derived2) >= Severity(derived)
  BY <1>2 DEF DeriveKillswitch, Severity, KillSwitchState
<1> HIDE DEF derived, derived2
<1>4. \A k \in KillSwitchState : Severity(k) \in 0 .. 3
  BY DEF KillSwitchState, Severity
<1>5. /\ EffectiveKillswitch(day, acct) =
            (IF Severity(day.ks) >= Severity(derived) THEN day.ks ELSE derived)
      /\ EffectiveKillswitch(day2, acct2) =
            (IF Severity(day2.ks) >= Severity(derived2) THEN day2.ks ELSE derived2)
  BY DEF EffectiveKillswitch, derived, derived2, used, used2
<1> QED
  BY <1>3, <1>4, <1>5

\* Nor does the taper grow as equity falls.
LEMMA TaperMonotone ==
  ASSUME NEW e \in Int, NEW e2 \in Int, e2 <= e
  PROVE  Taper(e2).num * Taper(e).den <= Taper(e).num * Taper(e2).den
<1> DEFINE span == TaperStart - OverallFloor
<1>0. TaperStart \in Int /\ OverallFloor \in Int
  BY MoneyTypes
<1>1. CASE e2 >= TaperStart
  BY <1>0, <1>1 DEF Taper
<1>2. CASE e2 < TaperStart /\ (TaperStart <= OverallFloor \/ e2 <= OverallFloor)
  <2>1. Taper(e2) = [num |-> 0, den |-> 1]
    BY <1>0, <1>2 DEF Taper
  <2>2. Taper(e).num \in Nat /\ Taper(e).den \in Nat
    BY TaperType
  <2> QED BY <2>1, <2>2
<1>3. CASE e2 < TaperStart /\ OverallFloor < TaperStart /\ OverallFloor < e2
  <2>1. Taper(e2) = [num |-> e2 - OverallFloor, den |-> span]
    BY <1>0, <1>3 DEF Taper
  <2>2. CASE e >= TaperStart
    <3>1. Taper(e) = [num |-> 1, den |-> 1]
      BY <2>2 DEF Taper
    <3> QED BY <1>0, <1>3, <2>1, <3>1
  <2>3. CASE e < TaperStart
    <3>1. Taper(e) = [num |-> e - OverallFloor, den |-> span]
      BY <1>0, <1>3, <2>3 DEF Taper
    <3>2. span \in Nat /\ e2 - OverallFloor <= e - OverallFloor
      BY <1>0, <1>3
    <3> HIDE DEF span
    <3>3. (e2 - OverallFloor) * span <= (e - OverallFloor) * span
      BY <1>0, <3>2, ScaleOrder
    <3> QED BY <2>1, <3>1, <3>3
  <2> QED BY <1>0, <2>2, <2>3
<1> QED
  BY <1>0, <1>1, <1>2, <1>3

\* The clamps to the broker's lots keep the order.
LEMMA LotsMonotone ==
  ASSUME NEW f, f.num \in Nat, f.den \in Nat, f.den > 0,
         NEW g, g.num \in Nat, g.den \in Nat, g.den > 0,
         NEW e \in Int, NEW e2 \in Int, NEW denom \in Nat,
         g.num = 0 \/ (g.num * e2) * (f.den * denom) <= (f.num * e) * (g.den * denom)
  PROVE  LotsForFraction(g, e2, denom) <= LotsForFraction(f, e, denom)
<1>1. CASE denom = 0
  BY <1>1, SizingAssumption DEF LotsForFraction
<1>2. CASE g.num = 0
  BY <1>2, LotsType DEF LotsForFraction
<1>3. CASE denom > 0 /\ g.num > 0
  <2>1. /\ f.den * denom \in Nat /\ f.den * denom > 0
        /\ g.den * denom \in Nat /\ g.den * denom > 0
    BY <1>3, ProductPositive
  <2>2. f.num * e \in Int /\ g.num * e2 \in Int
    OBVIOUS
  <2> DEFINE q == (f.num * e) \div (f.den * denom)
             r == (g.num * e2) \div (g.den * denom)
  <2>3. r <= q
    <3> DEFINE a == g.num * e2   b == g.den * denom
               c == f.num * e    d == f.den * denom
    <3>1. a * d <= c * b
      BY <1>3
    <3> HIDE DEF a, b, c, d
    <3>2. a \in Int /\ b \in Nat /\ b > 0 /\ c \in Int /\ d \in Nat /\ d > 0
      BY <2>1, <2>2 DEF a, b, c, d
    <3>3. a \div b <= c \div d
      BY <3>1, <3>2, QuotientMonotone
    <3> QED BY <3>3 DEF a, b, c, d
  <2>4. q \in Int /\ r \in Int
    BY <2>1, <2>2, QuotientType
  <2>5. CASE f.num > 0
    <3>1. /\ LotsForFraction(f, e, denom) =
               (IF q < MinSteps THEN 0 ELSE IF q > MaxSteps THEN MaxSteps ELSE q)
          /\ LotsForFraction(g, e2, denom) =
               (IF r < MinSteps THEN 0 ELSE IF r > MaxSteps THEN MaxSteps ELSE r)
      BY <1>3, <2>5 DEF LotsForFraction
    <3> HIDE DEF q, r
    <3> QED BY <2>3, <2>4, <3>1, SizingAssumption
  <2>6. CASE f.num = 0
    <3>1. q = 0
      BY <2>1, <2>6
    <3>2. LotsForFraction(g, e2, denom) = 0
      <4> HIDE DEF q
      <4> QED BY <1>3, <2>3, <2>4, <3>1, SizingAssumption DEF LotsForFraction
    <3> QED BY <3>2, LotsType
  <2> QED BY <2>5, <2>6
<1> QED
  BY <1>1, <1>2, <1>3
=============================================================================

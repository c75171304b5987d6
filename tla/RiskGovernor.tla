---------------------------- MODULE RiskGovernor ----------------------------
(***************************************************************************)
(* The Risk Governor (src/src/risk/governor.py, envelope.py): the pure     *)
(* functions every order passes through.  Nothing here has state; the      *)
(* modules that do (LiveEngine) apply these operators.                     *)
(*                                                                         *)
(* Money is an integer: the unit is 1/Scale of a basis point of the        *)
(* account's initial balance, so that every percentage of the code is      *)
(* exact.  Lots are counted in broker lot steps; `stop' is what one lot    *)
(* step loses when the stop-loss fills at its own price, and the code's    *)
(* denominator sl_pips * pip_value * (1 + buffer) is stop + Slip(stop).    *)
(***************************************************************************)
EXTENDS Integers

CONSTANTS
  Scale,                  \* money units per basis point of the initial balance
  BaseRiskBp,             \* base_risk_fraction, in basis points of equity
  BufferPct,              \* slippage_spread_buffer, percent of the stop distance
  MaxConcurrentBp,        \* max_concurrent_risk_usd_pct, basis points of initial
  MaxTradesPerDay,        \* max_trades_per_day
  MaxConcurrentPendings,  \* max_concurrent_pendings
  RequestSoftCap,         \* request_soft_cap
  CautiousDiv,            \* cautious_size_mult = 1 / CautiousDiv
  ReducedDiv,             \* reduced_size_mult  = 1 / ReducedDiv
  TaperStartBp,           \* overall_taper_start, basis points below initial
  WarnPct, HaltPct, FlattenPct,   \* killswitch thresholds, percent of the budget
  SizeBandPct,            \* size_consistency_band
  StopsLevel,             \* the broker's minimum stop, in money per lot step
  MinSteps, MaxSteps,     \* the broker's min_lot and max_lot, in lot steps
  LotStep                 \* the broker's lot_step, in thousandths of a lot

ASSUME MoneyAssumption ==
  /\ Scale \in Nat \ {0} /\ BaseRiskBp \in Nat /\ BufferPct \in Nat
  /\ MaxConcurrentBp \in Nat /\ TaperStartBp \in Nat /\ StopsLevel \in Nat
ASSUME CapsAssumption ==
  /\ MaxTradesPerDay \in Nat /\ MaxConcurrentPendings \in Nat
  /\ RequestSoftCap \in Nat /\ SizeBandPct \in Nat
ASSUME SizingAssumption ==
  /\ CautiousDiv \in Nat \ {0} /\ ReducedDiv \in Nat \ {0}
  /\ MinSteps \in Nat \ {0} /\ MaxSteps \in Nat /\ MinSteps <= MaxSteps
  /\ LotStep \in Nat \ {0}
ASSUME ThresholdAssumption ==
  /\ WarnPct \in Nat \ {0} /\ HaltPct \in Nat /\ FlattenPct \in Nat
  /\ WarnPct <= HaltPct /\ HaltPct < FlattenPct

-----------------------------------------------------------------------------
(* The loss envelope.                                                      *)

Initial == 10000 * Scale

DailyBudget == 500 * Scale              \* DAILY_LOSS_PCT of initial

OverallFloor == Initial - 1000 * Scale  \* OVERALL_LOSS_PCT of initial

DailyFloor(b0) == b0 - DailyBudget

MaxOf(a, b) == IF a >= b THEN a ELSE b

LossUsed(b0, equity) == MaxOf(0, b0 - equity)

-----------------------------------------------------------------------------
(* The kill-switch: thresholds, and the latch that may only escalate.      *)

KillSwitchState == {"armed", "reduce", "halted", "flatten"}

Severity(k) == IF k = "armed" THEN 0 ELSE IF k = "reduce" THEN 1
               ELSE IF k = "halted" THEN 2 ELSE 3

\* daily_pct_used >= pct / 100
Reaches(used, pct) == 100 * used >= pct * DailyBudget

DeriveKillswitch(used, fresh) ==
  IF ~fresh \/ Reaches(used, FlattenPct) THEN "flatten"
  ELSE IF Reaches(used, HaltPct) THEN "halted"
  ELSE IF Reaches(used, WarnPct) THEN "reduce" ELSE "armed"

EffectiveKillswitch(day, acct) ==
  LET derived == DeriveKillswitch(LossUsed(day.b0, acct.equity), acct.fresh)
  IN  IF Severity(day.ks) >= Severity(derived) THEN day.ks ELSE derived

-----------------------------------------------------------------------------
(* Sizing.  A fraction is a pair num / den.                                *)

Slip(stop) == (BufferPct * stop) \div 100

Denom(stop) == stop + Slip(stop)

TaperStart == Initial - TaperStartBp * Scale

\* Mutant: the fraction is measured from the wrong end of the span.
TaperInverted(equity) ==
  IF equity >= TaperStart THEN [num |-> 1, den |-> 1]
  ELSE [num |-> MaxOf(0, TaperStart - equity), den |-> TaperStart - OverallFloor]

Taper(equity) ==
  IF equity >= TaperStart THEN [num |-> 1, den |-> 1]
  ELSE IF TaperStart <= OverallFloor \/ equity <= OverallFloor
  THEN [num |-> 0, den |-> 1]
  ELSE [num |-> equity - OverallFloor, den |-> TaperStart - OverallFloor]

EffectiveRiskFraction(sig, acct, ks) ==
  LET t == Taper(acct.equity)
      bias == IF sig.bias = "cautious" THEN CautiousDiv ELSE 1
      tier == IF ks = "reduce" THEN ReducedDiv ELSE 1
  IN  [num |-> IF sig.bias = "stand_down" THEN 0 ELSE BaseRiskBp * t.num,
       den |-> 10000 * bias * tier * t.den]

\* Mutant: rounds to the next lot step instead of down.
LotsRoundedUp(f, equity, denom) ==
  IF f.num <= 0 \/ denom <= 0 THEN 0
  ELSE (f.num * equity) \div (f.den * denom) + 1

LotsForFraction(f, equity, denom) ==
  LET steps == IF denom <= 0 THEN 0 ELSE (f.num * equity) \div (f.den * denom)
  IN  IF f.num <= 0 \/ steps < MinSteps THEN 0
      ELSE IF steps > MaxSteps THEN MaxSteps ELSE steps

\* round(lots, 2), on lots counted in thousandths
RoundLots(milli) == 10 * ((milli + 5) \div 10)

-----------------------------------------------------------------------------
(* The checks of _run_checks that an entry must pass, in their order.      *)

FloorOk(equity, loss, b0) ==
  /\ equity - loss > DailyFloor(b0)
  /\ equity - loss > OverallFloor

\* Mutant: the loss already taken today is left out of the allowance.
AllowedFresh(used, loss) == 100 * loss <= HaltPct * DailyBudget

Allowed(used, loss) == 100 * (used + loss) <= HaltPct * DailyBudget

ConsistentSize(risk, median) ==
  \/ median <= 0
  \/ 100 * MaxOf(risk - median, median - risk) <= SizeBandPct * median

\* Mutant: the pendings comparison is turned round, the exposure left out.
ChecksPassSwapped(sig, acct, day, risk) ==
  /\ day.requests < RequestSoftCap /\ day.trades < MaxTradesPerDay
  /\ MaxConcurrentPendings <= sig.pendings + 1
  /\ day.openRisk + risk <= MaxConcurrentBp * Scale
  /\ FloorOk(acct.equity, risk + day.openRisk, day.b0)

ChecksPass(sig, acct, day, risk) ==
  /\ sig.feedOk
  /\ day.requests < RequestSoftCap
  /\ ~sig.news
  /\ ~sig.gap
  /\ ConsistentSize(risk, day.median)
  /\ ~sig.hedge
  /\ ~sig.martingale
  /\ sig.pendings < MaxConcurrentPendings
  /\ day.openRisk + risk <= MaxConcurrentBp * Scale
  /\ day.trades < MaxTradesPerDay
  /\ sig.stop >= StopsLevel
  /\ FloorOk(acct.equity, risk + day.openRisk, day.b0)
  /\ Allowed(LossUsed(day.b0, acct.equity), risk + day.openRisk)

-----------------------------------------------------------------------------
(* The two decisions and the daily reset.                                  *)

Veto == [approved |-> FALSE, downsized |-> FALSE, steps |-> 0,
         lots |-> 0, risk |-> 0]

EvaluateEntry(sig, acct, day) ==
  LET ks    == EffectiveKillswitch(day, acct)
      denom == Denom(sig.stop)
      f     == EffectiveRiskFraction(sig, acct, ks)
      base  == [num |-> BaseRiskBp, den |-> 10000]
      steps == LotsForFraction(f, acct.equity, denom)
      full  == LotsForFraction(base, acct.equity, denom)
  IN  IF /\ acct.fresh
         /\ sig.stop > 0
         /\ ks \notin {"halted", "flatten"}
         /\ steps > 0
         /\ ChecksPass(sig, acct, day, steps * denom)
      THEN [approved |-> TRUE,
            downsized |-> steps < full \/ f.num * base.den < base.num * f.den,
            steps |-> steps, lots |-> RoundLots(steps * LotStep),
            risk |-> steps * denom]
      ELSE Veto

EvaluateManage(riskIncreasing, acct, day) ==
  \/ ~riskIncreasing
  \/ /\ acct.fresh
     /\ EffectiveKillswitch(day, acct) \notin {"halted", "flatten"}
     /\ day.requests < RequestSoftCap

ApplyDailyReset(day, balance, reset) ==
  [day EXCEPT !.b0 = balance, !.requests = 0, !.trades = 0, !.reset = reset,
              !.ks = IF day.ks = "flatten" THEN "flatten" ELSE "armed"]
=============================================================================

--------------------------- MODULE GovernorCases ----------------------------
(***************************************************************************)
(* A walk over the Governor's inputs.  Each state is one call of           *)
(* evaluate_entry; each step makes one input of it worse.  Invariants are  *)
(* claims about one call, action properties compare two calls that differ  *)
(* in one input.                                                           *)
(***************************************************************************)
EXTENDS RiskGovernor

CONSTANTS
  Equities, Baselines, OpenRisks, Stops,   \* sets of money amounts
  Requests, Trades, Pendings               \* sets of counters

ASSUME InputAssumption ==
  /\ Equities \subseteq Int /\ Baselines \subseteq Int
  /\ OpenRisks \subseteq Nat /\ Stops \subseteq Nat
  /\ Requests \subseteq Nat /\ Trades \subseteq Nat /\ Pendings \subseteq Nat
  /\ 0 \in OpenRisks /\ 0 \in Requests /\ 0 \in Trades /\ 0 \in Pendings
  /\ \E e \in Equities : \A x \in Equities : x <= e

VARIABLE case

Biases == {"normal", "cautious"}

Call == [equity: Equities, b0: Baselines, openRisk: OpenRisks, stop: Stops,
         ks: KillSwitchState, bias: Biases, fresh: BOOLEAN,
         requests: Requests, trades: Trades, pendings: Pendings]

\* What the live path passes for the inputs it never computes: decide_entry's
\* defaults, and the recent_risk_usds that no caller fills in.
SignalOf(c) ==
  [stop |-> c.stop, bias |-> c.bias, pendings |-> c.pendings, feedOk |-> TRUE,
   news |-> FALSE, gap |-> FALSE, hedge |-> FALSE, martingale |-> FALSE]

AccountOf(c) == [equity |-> c.equity, fresh |-> c.fresh]

DayOf(c) == [b0 |-> c.b0, openRisk |-> c.openRisk, ks |-> c.ks, median |-> 0,
             requests |-> c.requests, trades |-> c.trades]

Decision(c) == EvaluateEntry(SignalOf(c), AccountOf(c), DayOf(c))

Killswitch(c) == EffectiveKillswitch(DayOf(c), AccountOf(c))

Size(c) == LotsForFraction(
             EffectiveRiskFraction(SignalOf(c), AccountOf(c), Killswitch(c)),
             c.equity, Denom(c.stop))

-----------------------------------------------------------------------------
Init ==
  \E s \in Stops, b \in Baselines :
    case = [equity |-> CHOOSE e \in Equities : \A x \in Equities : x <= e,
            b0 |-> b, openRisk |-> 0, stop |-> s, ks |-> "armed",
            bias |-> "normal", fresh |-> TRUE,
            requests |-> 0, trades |-> 0, pendings |-> 0]

EquityFalls == \E e \in Equities :
  e < case.equity /\ case' = [case EXCEPT !.equity = e]

LatchEscalates == \E k \in KillSwitchState :
  Severity(k) > Severity(case.ks) /\ case' = [case EXCEPT !.ks = k]

RiskOpens == \E r \in OpenRisks :
  r > case.openRisk /\ case' = [case EXCEPT !.openRisk = r]

CountersGrow ==
  \/ \E n \in Requests : n > case.requests /\ case' = [case EXCEPT !.requests = n]
  \/ \E n \in Trades : n > case.trades /\ case' = [case EXCEPT !.trades = n]
  \/ \E n \in Pendings : n > case.pendings /\ case' = [case EXCEPT !.pendings = n]

TurnsCautious == case.bias = "normal" /\ case' = [case EXCEPT !.bias = "cautious"]

GoesStale == case.fresh /\ case' = [case EXCEPT !.fresh = FALSE]

Next == EquityFalls \/ LatchEscalates \/ RiskOpens \/ CountersGrow
          \/ TurnsCautious \/ GoesStale

Spec == Init /\ [][Next]_case

-----------------------------------------------------------------------------
\* governor.py's load-bearing guarantee carried one step further: after an
\* approved order AND everything already open is stopped out at its buffered
\* loss, equity is above both floors and the kill-switch derived from what is
\* left is at most HALTED, so an approved order can never end in a FLATTEN.
StopOutNeverFlattens ==
  LET d == Decision(case)
      after == case.equity - d.risk - case.openRisk
  IN  d.approved =>
        /\ after > DailyFloor(case.b0) /\ after > OverallFloor
        /\ DeriveKillswitch(LossUsed(case.b0, after), TRUE) # "flatten"

\* The order that is sent (lots rounded to two decimals after the floor to the
\* lot step) never risks more than the effective fraction of equity it was
\* sized for, at the buffered stop.
OrderWithinBudget ==
  LET d == Decision(case)
      f == EffectiveRiskFraction(SignalOf(case), AccountOf(case), Killswitch(case))
  IN  d.approved =>
        d.lots * Denom(case.stop) * f.den <= f.num * case.equity * LotStep

\* No jump in the sizing rule: as equity falls through the taper start and the
\* kill-switch tiers, as the latch escalates or the bias turns cautious, the
\* size never grows (while the kill-switch still lets an order be sized).
SizeNeverGrows ==
  [][Killswitch(case') \in {"armed", "reduce"} => Size(case') <= Size(case)]_case

\* With the equity, latch and bias unchanged, more open risk, more requests,
\* more trades or more pendings never turn a veto into an approval and never
\* change the size of an approved order.
ExposureNeverUnlocks ==
  [][/\ case'.equity = case.equity /\ case'.ks = case.ks /\ case'.bias = case.bias
     => \/ ~Decision(case').approved
        \/ Decision(case').steps = Decision(case).steps]_case

=============================================================================

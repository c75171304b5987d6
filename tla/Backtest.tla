------------------------------ MODULE Backtest ------------------------------
(***************************************************************************)
(* The event-driven backtester (src/src/backtest/engine.py) with its cost  *)
(* model (costs.py) and its FTMO tracker (ftmo_sim.py): it replays bars    *)
(* through the Governor's own operators and simulates resting pairs, fills,*)
(* the stop, targets, partials, the break-even move and the trail.         *)
(*                                                                         *)
(* One step is one iteration of run_on_bars.  Prices are points; a bar's   *)
(* prices are multiples of Unit, fills lie costs away from them.  Lots are *)
(* lot steps, dir is 1 for long and -1 for short.  Strategies are what     *)
(* they emit.                                                              *)
(***************************************************************************)
EXTENDS RiskGovernor, Sequences

CONSTANTS
  MaxBar,       \* bars replayed
  WarmupBars,   \* the strategy's warmup
  BarsPerDay,   \* bars in an FTMO day
  Unit, Reach,  \* bar prices are Unit * k for k in -Reach .. Reach
  Value,        \* money per point and lot step
  SlipPts,      \* slippage_pips, in points
  HalfSpread,   \* half of a bar's spread, in points
  Commission,   \* commission per lot step, both sides
  ArmBars,      \* bars from arming to the end of the window
  TrailBars,    \* min_seconds_between_modifies, in bars
  FarTarget     \* the target of a plan without targets, in points

ASSUME BacktestAssumption ==
  /\ MaxBar \in Nat /\ WarmupBars \in Nat /\ BarsPerDay \in Nat \ {0}
  /\ Unit \in Nat \ {0} /\ Reach \in Nat /\ Value \in Nat \ {0}
  /\ SlipPts \in Nat /\ HalfSpread \in Nat /\ Commission \in Nat
  /\ ArmBars \in Nat /\ TrailBars \in Nat \ {0} /\ FarTarget \in Nat

VARIABLES
  i,        \* the index of the next bar
  last,     \* the close of the bar before, while a position is open
  balance,
  day,      \* the DayState
  tracker,  \* the FtmoTracker: its own baseline, breaches, most requests
  pos,      \* the open position
  armed,    \* the resting pair
  booked,   \* history: net result of the finished trades
  trade     \* history: the trade finished last, and how

vars == <<i, last, balance, day, tracker, pos, armed, booked, trade>>

-----------------------------------------------------------------------------
(* Costs, with the sign that hurts.                                        *)

StopFill(dir, level)  == level + dir * SlipPts
EntryFill(dir, price) == price + dir * (HalfSpread + SlipPts)
ExitFill(dir, price)  == price - dir * (HalfSpread + SlipPts)

GrossPnl(dir, entry, exit, lots) == dir * (exit - entry) * Value * lots
Pnl(dir, entry, exit, lots) ==
  GrossPnl(dir, entry, exit, lots) - Commission * lots

-----------------------------------------------------------------------------
(* What strategies emit: a market order at the close, a stop order, or a   *)
(* pair of resting stops, each with an exit plan.  Targets are in Units    *)
(* from the entry, the break-even move and the trail in multiples of R.    *)

NoTrail == [after |-> 0, distance |-> 0, step |-> 0]

Plan(targets, fractions, be, trail) ==
  [targets |-> targets, fractions |-> fractions, be |-> be, trail |-> trail]

StopTrail(after) ==
  [after |-> after, distance |-> 3 * (Unit \div 2), step |-> Unit \div 2]

\* The trail and the break-even move have levers of their own: either may come
\* first, and either may be absent.
Trailing == {Plan(<<>>, <<>>, be, StopTrail(after)) : be \in 0 .. 2, after \in {1, 2}}

Plans == {Plan(<<2>>, <<>>, 0, NoTrail), Plan(<<1, 2>>, <<>>, 0, NoTrail),
          Plan(<<1, 2, 3>>, <<[num |-> 1, den |-> 2]>>, 1, NoTrail)} \union Trailing

Signal(dir, kind, level, sl, plan) ==
  [dir |-> dir, kind |-> kind, level |-> level, sl |-> sl, plan |-> plan]

Entries(close) ==
  {Signal(dir, "stop", dir * Unit, 0, plan) : dir \in {1, -1}, plan \in Plans}
  \union {Signal(dir, "market", close, close - dir * Unit, plan) :
            dir \in {1, -1}, plan \in IF close = 0 THEN Trailing ELSE {}}

ArmSides == {{1}, {-1}, {1, -1}}

NoSide == [sig |-> Signal(0, "stop", 0, 0, Plan(<<>>, <<>>, 0, NoTrail)), lots |-> 0]
NoArm  == [long |-> NoSide, short |-> NoSide, expire |-> 0]

-----------------------------------------------------------------------------
(* Positions.                                                              *)

NoPos == [dir |-> 0, entry |-> 0, init |-> 0, lots |-> 0, sl |-> 0, risk |-> 0,
          tp |-> 0, usd |-> 0, parts |-> <<>>, be |-> 0, trail |-> NoTrail,
          moved |-> FALSE, modified |-> 0, closed |-> 0, pnl |-> 0]

MinOf(a, b) == IF a <= b THEN a ELSE b
Abs(x) == IF x < 0 THEN -x ELSE x

\* An intermediate target is a partial, with an even fraction where the plan
\* names none; the last one is the broker's target.
MakePosition(sig, fill, lots) ==
  LET n     == Len(sig.plan.targets)
      price == [k \in 1 .. n |-> sig.level + sig.dir * Unit * sig.plan.targets[k]]
      part(k) == [price |-> price[k], filled |-> FALSE,
                  frac |-> IF k <= Len(sig.plan.fractions)
                           THEN sig.plan.fractions[k] ELSE [num |-> 1, den |-> n]]
      risk  == Abs(fill - sig.sl)
  IN  [NoPos EXCEPT
         !.dir = sig.dir, !.entry = fill, !.init = lots, !.lots = lots,
         !.sl = sig.sl, !.risk = risk, !.usd = risk * Value * lots,
         !.tp = IF n > 0 THEN price[n] ELSE fill + sig.dir * FarTarget,
         !.parts = [k \in 1 .. n - 1 |-> part(k)],
         !.be = sig.plan.be, !.trail = sig.plan.trail, !.modified = i]

\* A slice is realised.
AddLeg(p, lots, exit) ==
  LET n == MinOf(lots, p.lots)
  IN  [p EXCEPT !.lots = @ - n, !.closed = @ + n,
                !.pnl = @ + Pnl(p.dir, p.entry, exit, n)]

\* round(), which takes a half to the even neighbour.
RoundHalfEven(num, den) ==
  LET q == num \div den  r == 2 * (num % den)
  IN  IF r > den \/ (r = den /\ q % 2 = 1) THEN q + 1 ELSE q

\* Partial k, on a close beyond it: skipped when too small to trade, widened to
\* all that is left when the rest would be.
Partial(p, k, close) ==
  LET t    == p.parts[k]
      lots == MinOf(RoundHalfEven(t.frac.num * p.init, t.frac.den), p.lots)
      done == [p EXCEPT !.parts[k].filled = TRUE]
  IN  IF p.lots = 0 \/ t.filled \/ p.dir * (close - t.price) < 0 THEN p
      ELSE IF lots < MinSteps THEN done
      ELSE AddLeg(done, IF p.lots - lots < MinSteps THEN p.lots ELSE lots,
                  ExitFill(p.dir, close))

Partials(p, close) ==
  LET after[k \in 0 .. Len(p.parts)] ==
        IF k = 0 THEN p ELSE Partial(after[k - 1], k, close)
  IN  after[Len(p.parts)]

\* fav_r_close >= multiple
Favours(p, close, multiple) == p.dir * (close - p.entry) >= multiple * p.risk

\* Mutant: the move is made again on every close beyond its level.
BreakEvenAgain(p, close) ==
  IF p.be > 0 /\ p.risk > 0 /\ Favours(p, close, p.be)
  THEN [p EXCEPT !.sl = p.entry, !.moved = TRUE] ELSE p

BreakEven(p, close) ==
  IF p.be > 0 /\ ~p.moved /\ p.risk > 0 /\ Favours(p, close, p.be)
  THEN [p EXCEPT !.sl = p.entry, !.moved = TRUE] ELSE p

Trail(p, close) ==
  LET candidate == close - p.dir * p.trail.distance
  IN  IF /\ p.trail # NoTrail /\ p.risk > 0 /\ Favours(p, close, p.trail.after)
         /\ i - p.modified >= TrailBars
         /\ p.dir * (candidate - p.sl) >= p.trail.step
      THEN [p EXCEPT !.sl = candidate, !.modified = i] ELSE p

\* _manage_closed_bar without the strategy's own close.
Managed(p, close) ==
  LET q == Partials(p, close)
  IN  IF q.lots = 0 THEN q ELSE Trail(BreakEven(q, close), close)

-----------------------------------------------------------------------------
(* Decisions.  The account the Governor sees has its equity at the balance.*)

Account == [equity |-> balance, fresh |-> TRUE]

Sized(sig, d, pendings) ==
  EvaluateEntry([stop |-> Abs(sig.level - sig.sl) * Value, feedOk |-> TRUE,
                 news |-> FALSE, gap |-> FALSE, hedge |-> FALSE,
                 martingale |-> FALSE, pendings |-> pendings, bias |-> "normal"],
                Account, d)

\* The long leg is sized first, and counts as a pending order for the short one.
BuildArmed(sides, plan, d) ==
  LET sig(dir)  == Signal(dir, "stop", dir * Unit, 0, plan)
      side(dir, pendings) ==
        IF dir \in sides /\ Sized(sig(dir), d, pendings).approved
        THEN [sig |-> sig(dir), lots |-> Sized(sig(dir), d, pendings).steps]
        ELSE NoSide
      long  == side(1, 0)
      short == side(-1, IF long # NoSide THEN 1 ELSE 0)
  IN  IF long = NoSide /\ short = NoSide THEN NoArm
      ELSE [long |-> long, short |-> short, expire |-> i + ArmBars]

Legs(a) == {s \in {a.long, a.short} : s # NoSide}

Touched(a, b) ==
  {s \in Legs(a) : IF s.sig.dir = 1 THEN b.high >= s.sig.level
                                    ELSE b.low <= s.sig.level}

\* Both levels in one bar: the one nearer the open, the long one in a tie.
Chosen(a, b) ==
  IF Touched(a, b) = {a.long, a.short}
  THEN IF Abs(a.long.sig.level - b.open) <= Abs(a.short.sig.level - b.open)
       THEN a.long ELSE a.short
  ELSE CHOOSE s \in Touched(a, b) : TRUE

-----------------------------------------------------------------------------
(* One bar.  `Day' and `Pair' are the day and the armed pair after the     *)
(* reset that the first bar of a day brings.                               *)

Grid == {Unit * k : k \in -Reach .. Reach}

\* The open matters only where the bar touches two levels.
Bars == {b \in [open : Grid, high : Grid, low : Grid, close : Grid] :
           /\ b.low <= b.close /\ b.close <= b.high
           /\ b.open \in IF b.low < 0 /\ 0 < b.high THEN {b.low, 0, b.high} ELSE {b.high}}

NewDay == i > 0 /\ i % BarsPerDay = 0

Day  == IF NewDay THEN ApplyDailyReset(day, balance, i \div BarsPerDay) ELSE day
Pair == IF NewDay THEN NoArm ELSE armed

Tracked(d, equity) ==
  LET b0 == IF NewDay THEN balance ELSE tracker.b0
  IN  [b0 |-> b0,
       breaches |-> tracker.breaches +
         IF equity <= DailyFloor(b0) \/ equity <= OverallFloor THEN 1 ELSE 0,
       requests |-> MaxOf(tracker.requests, d.requests)]

\* The end of an iteration: position p, realised money won, day d, pair a.
BarDone(close, p, won, d, a) ==
  /\ i < MaxBar /\ i' = i + 1
  /\ last' = IF p = NoPos THEN 0 ELSE close
  /\ pos' = p /\ armed' = a /\ day' = d
  /\ balance' = balance + won
  /\ tracker' = Tracked(d, balance + won +
       IF p = NoPos THEN 0 ELSE GrossPnl(p.dir, p.entry, close, p.lots))

\* _finalize, without the statistics.
Closed(p, how) ==
  [how |-> how, init |-> p.init, closed |-> p.closed, usd |-> p.usd, pnl |-> p.pnl]

Released(d, p) == [d EXCEPT !.openRisk = MaxOf(0, @ - p.usd)]

\* p, whose lots are all closed, is a trade.
Finish(b, p, how) ==
  /\ BarDone(b.close, NoPos, p.pnl - pos.pnl, Released(Day, pos), Pair)
  /\ booked' = booked + p.pnl
  /\ trade' = Closed(p, how)

Hold == UNCHANGED <<booked, trade>>

Warmup(close) ==
  /\ i < WarmupBars
  /\ BarDone(close, pos, 0, Day, Pair) /\ Hold

HitsStop(b) == IF pos.dir = 1 THEN b.low <= pos.sl ELSE b.high >= pos.sl
HitsTarget(b) == IF pos.dir = 1 THEN b.high >= pos.tp ELSE b.low <= pos.tp

InPosition == i >= WarmupBars /\ pos # NoPos

StopOut(b) ==
  /\ InPosition /\ HitsStop(b)
  /\ Finish(b, AddLeg(pos, pos.lots, StopFill(-pos.dir, pos.sl)), "sl")

TargetHit(b) ==
  /\ InPosition /\ ~HitsStop(b) /\ HitsTarget(b)
  /\ Finish(b, AddLeg(pos, pos.lots, pos.tp), "tp")

\* Mutant: the strategy's close comes before the broker's stop.
StrategyClosesFirst(b) ==
  /\ InPosition
  /\ Finish(b, AddLeg(pos, pos.lots, ExitFill(pos.dir, b.close)), "manage_close")

\* The strategy's manage() closes.
StrategyCloses(b) ==
  /\ InPosition /\ ~HitsStop(b) /\ ~HitsTarget(b)
  /\ Finish(b, AddLeg(pos, pos.lots, ExitFill(pos.dir, b.close)), "manage_close")

\* Mutant: a trade that ends in a partial is not taken off the open risk.
ManageBarKeepsRisk(b) ==
  /\ InPosition /\ ~HitsStop(b) /\ ~HitsTarget(b)
  /\ LET p == Managed(pos, b.close) IN
       IF p.lots = 0
       THEN /\ BarDone(b.close, NoPos, p.pnl - pos.pnl, Day, Pair)
            /\ booked' = booked + p.pnl /\ trade' = Closed(p, "tp")
       ELSE BarDone(b.close, p, p.pnl - pos.pnl, Day, Pair) /\ Hold

ManageBar(b) ==
  /\ InPosition /\ ~HitsStop(b) /\ ~HitsTarget(b)
  /\ LET p == Managed(pos, b.close) IN
       IF p.lots = 0 THEN Finish(b, p, "tp")
       ELSE BarDone(b.close, p, p.pnl - pos.pnl, Day, Pair) /\ Hold

Flat == i >= WarmupBars /\ pos = NoPos

\* A pair rests until its window ends.  The latch that would drop it as well is
\* never set: run_on_bars does not derive the kill-switch.
Resting == Pair # NoArm /\ i < Pair.expire /\ Day.ks \notin {"halted", "flatten"}

\* Mutant: the other leg goes on resting.
FillKeepsSibling(b) ==
  /\ Flat /\ Resting /\ Touched(Pair, b) # {}
  /\ LET s == Chosen(Pair, b)
         p == MakePosition(s.sig, StopFill(s.sig.dir, s.sig.level), s.lots)
     IN  BarDone(b.close, p, 0, [Day EXCEPT !.openRisk = @ + p.usd, !.trades = @ + 1],
                 [Pair EXCEPT !.long = IF s = @ THEN NoSide ELSE @,
                              !.short = IF s = @ THEN NoSide ELSE @])
  /\ Hold

\* A level is touched: the other leg is gone.  The bar's stop is not looked at.
FillArmed(b) ==
  /\ Flat /\ Resting /\ Touched(Pair, b) # {}
  /\ LET s == Chosen(Pair, b)
         p == MakePosition(s.sig, StopFill(s.sig.dir, s.sig.level), s.lots)
     IN  BarDone(b.close, p, 0, [Day EXCEPT !.openRisk = @ + p.usd, !.trades = @ + 1], NoArm)
  /\ Hold

RestOn(b) ==
  /\ Flat /\ Resting /\ Touched(Pair, b) = {}
  /\ BarDone(b.close, NoPos, 0, Day, Pair) /\ Hold

\* No signal, or one that the Governor vetoes.
NoEntry(close) ==
  /\ Flat /\ ~Resting
  /\ BarDone(close, NoPos, 0, Day, NoArm) /\ Hold

Enter(close) ==
  /\ Flat /\ ~Resting /\ Day.ks \notin {"halted", "flatten"}
  /\ \E sig \in Entries(close) :
       LET dec  == Sized(sig, Day, 0)
           fill == IF sig.kind = "stop" THEN StopFill(sig.dir, sig.level)
                   ELSE EntryFill(sig.dir, sig.level)
           p    == MakePosition(sig, fill, dec.steps)
       IN  /\ dec.approved
           /\ BarDone(close, p, 0, [Day EXCEPT !.requests = @ + 1, !.trades = @ + 1,
                                           !.openRisk = @ + p.usd], NoArm)
  /\ Hold

\* The legs rest from the next bar on.
Arm(close) ==
  /\ Flat /\ ~Resting /\ Day.ks \notin {"halted", "flatten"}
  /\ \E sides \in ArmSides, plan \in Plans :
       LET a == BuildArmed(sides, plan, Day) IN
       /\ a # NoArm
       /\ BarDone(close, NoPos, 0,
            [Day EXCEPT !.requests = @ + (IF a.long = NoSide THEN 0 ELSE 1)
                                       + (IF a.short = NoSide THEN 0 ELSE 1)], a)
  /\ Hold

\* What is open after the last bar is closed at its close.
EndOfData ==
  /\ i = MaxBar /\ pos # NoPos
  /\ LET p == AddLeg(pos, pos.lots, ExitFill(pos.dir, last)) IN
       /\ balance' = balance + p.pnl - pos.pnl
       /\ booked' = booked + p.pnl
       /\ trade' = Closed(p, "eod")
  /\ pos' = NoPos
  /\ UNCHANGED <<i, last, day, tracker, armed>>

-----------------------------------------------------------------------------

Init ==
  /\ i = 0 /\ last = 0 /\ balance = Initial
  /\ day = [b0 |-> Initial, requests |-> 0, ks |-> "armed", openRisk |-> 0,
            trades |-> 0, median |-> 0, reset |-> 0]
  /\ tracker = [b0 |-> Initial, breaches |-> 0, requests |-> 0]
  /\ pos = NoPos /\ armed = NoArm
  /\ booked = 0 /\ trade = Closed(NoPos, "none")

Next ==
  \/ \E close \in Grid : Warmup(close) \/ NoEntry(close) \/ Enter(close) \/ Arm(close)
  \/ \E b \in Bars :
       \/ StopOut(b) \/ TargetHit(b) \/ StrategyCloses(b) \/ ManageBar(b)
       \/ FillArmed(b) \/ RestOn(b)
  \/ EndOfData

Spec == Init /\ [][Next]_vars

-----------------------------------------------------------------------------
(* Properties.                                                             *)

\* The books agree after any sequence of partials, resets and ways to end a trade:
\* the balance is the sum of what trades and partials realised, every lot is closed
\* exactly once and never less than the broker can close is left open, the open risk
\* that the Governor is shown is that of the open position, and the tracker measures
\* breaches from the baseline the Governor sizes by.
BooksBalance ==
  /\ balance = Initial + booked + pos.pnl
  /\ trade.closed = trade.init
  /\ pos # NoPos => pos.lots + pos.closed = pos.init /\ pos.lots >= MinSteps
  /\ trade.how # "eod" => day.openRisk = pos.usd
  /\ tracker.b0 = day.b0

\* A trade loses no more than its risk and its costs, however it ended: the stop
\* is looked at before anything that is decided at the close.  (The last bar's
\* close may lie beyond the stop of a leg that was filled on that bar.)
StopBoundsLoss ==
  trade.how # "eod" =>
    trade.pnl >= -(trade.usd + trade.init *
                     (Value * (HalfSpread + SlipPts) + Commission))

\* A stop retreats at most once in the life of a position, in the step that moves
\* it to break even, and then to no worse a place than the entry.
StopRetreatsOnce ==
  [][pos # NoPos /\ pos'.dir = pos.dir =>
       \/ pos.dir * (pos'.sl - pos.sl) >= 0
       \/ /\ ~pos.moved /\ pos'.moved
          /\ pos.dir * (pos'.sl - pos.entry) >= 0]_vars

\* A position opens only at an equity at which the Governor would still allow
\* it, also when its size was approved bars earlier.
NoFillUnderHalt ==
  [][pos = NoPos /\ pos' # NoPos =>
       EffectiveKillswitch(day', [equity |-> balance, fresh |-> TRUE])
         \notin {"halted", "flatten"}]_vars

=============================================================================

----------------------------- MODULE Statistics -----------------------------
(***************************************************************************)
(* What the research side makes of a list of trades: the metrics, the      *)
(* promotion gates, the walk-forward windows and the verdict               *)
(* (src/src/backtest/metrics.py, gates.py, walkforward.py, validate.py).   *)
(*                                                                         *)
(* Time is counted in hours since a Monday; a day has DayHours of them and *)
(* a month MonthDays days.  A trade is a record with entry and exit (when),*)
(* r (tenths of R) and pnl.                                                *)
(***************************************************************************)
EXTENDS Fractions

CONSTANTS
  DayHours, MonthDays,
  FoldMonths, StubDays,   \* test_months; days a month must have to be no stub
  MinTrades, MinFold, MinLockbox,   \* sample sizes of gates, fold and lockbox
  Significant(_, _)       \* the deflated Sharpe ratio of daily returns, for a
                          \* number of trials, reaches its threshold

ASSUME StatisticsAssumption ==
  /\ {DayHours, MonthDays, FoldMonths, MinFold, MinLockbox} \subseteq Nat \ {0}
  /\ StubDays \in 0 .. MonthDays

TradeRecord == [entry : Nat, exit : Nat, r : Int, pnl : Int]

-----------------------------------------------------------------------------
(* metrics.py.                                                             *)

Rs(trades)   == [k \in DOMAIN trades |-> trades[k].r]
Pnls(trades) == [k \in DOMAIN trades |-> trades[k].pnl]

Expectancy(trades) ==
  IF trades = <<>> THEN Whole(0) ELSE Frac(Total(Rs(trades)), Len(trades))

\* Whether wins / losses >= f; infinite when nothing was lost and something won.
ProfitFactorAtLeast(f, trades) ==
  LET wins   == Total(SelectSeq(Pnls(trades), LAMBDA p : p > 0))
      losses == -Total(SelectSeq(Pnls(trades), LAMBDA p : p < 0))
  IN  IF losses = 0 THEN wins > 0 ELSE Leq(Times(f, losses), Whole(wins))

ExitDay(tr) == tr.exit \div DayHours
Weekday(d)  == d % 7 < 5

ClosedOn(trades, days) == Selected(trades, {tr \in TradeRecord : ExitDay(tr) \in days})

\* One return for each weekday from the first exit to the last, idle days included;
\* what exits on a weekend day is in none.
DailyReturns(trades) ==
  LET days == {ExitDay(trades[k]) : k \in DOMAIN trades}
      span == IF days = {} THEN <<>>
              ELSE Selected([n \in 1 .. Max(days) - Min(days) + 1 |-> Min(days) + n - 1],
                            {d \in Nat : Weekday(d)})
  IN  [n \in DOMAIN span |-> Total(Pnls(ClosedOn(trades, {span[n]})))]

Squares(s) == Total([k \in DOMAIN s |-> s[k] * s[k]])

\* mean / stdev * sqrt(252) >= 1, squared; a series that does not vary has none.
SharpeReached(returns) ==
  LET n == Len(returns)  sum == Total(returns)
      spread == n * Squares(returns) - sum * sum
  IN  n >= 2 /\ sum > 0 /\ spread > 0 /\ n * spread <= 252 * sum * sum * (n - 1)

\* The same with the losing days only, against 1.5; none when no day lost.
SortinoReached(returns) ==
  LET n == Len(returns)  sum == Total(returns)
      down == Squares(SelectSeq(returns, LAMBDA x : x < 0))
  IN  n >= 2 /\ sum > 0 /\ down > 0 /\ 9 * n * down <= 4 * 252 * sum * sum

-----------------------------------------------------------------------------
(* gates.py: evaluate_gates and all_passed, as the backtester calls them.  *)

GatesPassed(trades, breaches, trials) ==
  /\ Leq(Whole(1), Expectancy(trades))
  /\ ProfitFactorAtLeast(Frac(13, 10), trades)
  /\ SharpeReached(DailyReturns(trades)) /\ SortinoReached(DailyReturns(trades))
  /\ Len(trades) >= MinTrades
  /\ Significant(DailyReturns(trades), trials)
  /\ breaches = 0

-----------------------------------------------------------------------------
(* walkforward.py.                                                         *)

\* The first of the month, some months away.
AddMonths(t, n) == (t \div (DayHours * MonthDays) + n) * DayHours * MonthDays

LockboxStart(period, months) == AddMonths(period[2], -months)
HasLockbox(period, months) == months > 0 /\ LockboxStart(period, months) > period[1]
DevEnd(period, months) ==
  IF HasLockbox(period, months) THEN LockboxStart(period, months) ELSE period[2]

\* Mutant: the stub is dropped.
MergeStubDropping(folds) ==
  LET n == Len(folds)  days(f) == (f[2] - f[1]) \div DayHours
  IN  IF n >= 2 /\ days(folds[n]) < FoldMonths * StubDays THEN SubSeq(folds, 1, n - 1)
      ELSE folds

\* A trailing stub is merged into the fold before it.
MergeStub(folds) ==
  LET n == Len(folds)  days(f) == (f[2] - f[1]) \div DayHours
  IN  IF n >= 2 /\ days(folds[n]) < FoldMonths * StubDays
      THEN Append(SubSeq(folds, 1, n - 2), <<folds[n - 1][1], folds[n][2]>>)
      ELSE folds

\* Where a window ends and the next one begins.
Cut(period, n) == IF n = 0 THEN period[1] ELSE AddMonths(period[1], n * FoldMonths)

\* The windows before the lockbox; all but the first begin with a month.
DevFolds(period, months) ==
  LET end == DevEnd(period, months)
      count == Cardinality({n \in 0 .. end : Cut(period, n) < end})
  IN  MergeStub([n \in 1 .. count |-> <<Cut(period, n - 1), Min({Cut(period, n), end})>>])

TradesIn(trades, window) ==
  Selected(trades, {tr \in TradeRecord : window[1] <= tr.entry /\ tr.entry < window[2]})

\* The trades of all folds.
DevTrades(trades, period, months) ==
  LET folds == DevFolds(period, months)
      upto[n \in 0 .. Len(folds)] ==
        IF n = 0 THEN <<>> ELSE upto[n - 1] \o TradesIn(trades, folds[n])
  IN  upto[Len(folds)]

ScoredFolds(trades, period, months) ==
  SelectSeq([n \in DOMAIN DevFolds(period, months) |->
               TradesIn(trades, DevFolds(period, months)[n])],
            LAMBDA f : Len(f) >= MinFold)

\* Mutant: what is compared with half of the whole is the whole.
StitchedCollapseOfAll(trades, period, months) ==
  /\ Less(Whole(0), Expectancy(trades))
  /\ Less(Times(Expectancy(trades), 2), Expectancy(trades))

\* The folds together earn less than half of what all the trades do.
StitchedCollapse(trades, period, months) ==
  /\ Less(Whole(0), Expectancy(trades))
  /\ Less(Times(Expectancy(DevTrades(trades, period, months)), 2), Expectancy(trades))

NoLockbox == [windowed |-> FALSE, trades |-> <<>>]

WalkForward(trades, period, months) ==
  LET scored == ScoredFolds(trades, period, months) IN
  [scored     |-> Len(scored),
   profitable |-> Len(SelectSeq(scored, LAMBDA f : Less(Whole(0), Expectancy(f)))),
   severe     |-> \E n \in DOMAIN scored : Less(Expectancy(scored[n]), Frac(-5, 2)),
   collapse   |-> StitchedCollapse(trades, period, months),
   oos        |-> Expectancy(DevTrades(trades, period, months)),
   lockbox    |-> IF HasLockbox(period, months)
                  THEN [windowed |-> TRUE,
                        trades |-> TradesIn(trades, <<LockboxStart(period, months), period[2]>>)]
                  ELSE NoLockbox]

-----------------------------------------------------------------------------
(* validate.py.                                                            *)

LockboxPasses(box) ==
  ~box.windowed \/ /\ Leq(Whole(1), Expectancy(box.trades))
                   /\ ProfitFactorAtLeast(Frac(13, 10), box.trades)
                   /\ Len(box.trades) >= MinLockbox

\* Sixty percent of the scored folds, rounded up, and at least one.
MajorityNeed(scored) == Max({1, (6 * scored + 9) \div 10})

Verdict(gates, wf) ==
  /\ gates /\ ~wf.collapse /\ ~wf.severe
  /\ wf.profitable >= MajorityNeed(wf.scored)
  /\ LockboxPasses(wf.lockbox)
=============================================================================

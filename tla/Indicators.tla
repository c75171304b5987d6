----------------------------- MODULE Indicators -----------------------------
(***************************************************************************)
(* The indicators of the strategies (src/src/engine/indicators.py): pure   *)
(* functions of the closed bars.  Prices are points.  A bar is a record    *)
(* with high, low, close and volume, the last one is the current one; a    *)
(* direction is 1 or -1.                                                   *)
(***************************************************************************)
EXTENDS Fractions

LastN(s, n) == SubSeq(s, Len(s) - n + 1, Len(s))

Closes(bars) == [k \in 1 .. Len(bars) |-> bars[k].close]
Highs(bars)  == {bars[k].high : k \in 1 .. Len(bars)}
Lows(bars)   == {bars[k].low : k \in 1 .. Len(bars)}

-----------------------------------------------------------------------------

\* Net change over path length: 1 in a trend, near 0 in chop, 0 without movement.
EfficiencyRatio(closes, window) ==
  LET seg  == LastN(closes, window + 1)
      path == Total([k \in 1 .. window |-> AbsOf(seg[k + 1] - seg[k])])
  IN  IF Len(closes) < window + 1 \/ path = 0 THEN Whole(0)
      ELSE Frac(AbsOf(seg[window + 1] - seg[1]), path)

TrueRanges(bars) ==
  [k \in 1 .. Len(bars) - 1 |->
     Max({bars[k + 1].high - bars[k + 1].low,
               AbsOf(bars[k + 1].high - bars[k].close),
               AbsOf(bars[k + 1].low - bars[k].close)})]

\* Seeded with the mean of the first ranges, then smoothed.
WilderAtr(bars, window) ==
  LET trs == TrueRanges(bars)
      smooth(atr, tr) == Frac(atr.num * (window - 1) + tr * atr.den, atr.den * window)
  IN  IF Len(trs) < window THEN Whole(0)
      ELSE FoldLeft(smooth, Frac(Total(SubSeq(trs, 1, window)), window),
                    SubSeq(trs, window + 1, Len(trs)))

PercentileRank(value, series) ==
  IF series = <<>> THEN Frac(1, 2)
  ELSE Frac(Cardinality({k \in 1 .. Len(series) : Leq(Whole(series[k]), value)}),
            Len(series))

\* The mean range of the last bars among the single ranges before them; 1, which
\* blocks, when there is too little history.
CompressionPct(bars, recent, baseline) ==
  LET trs  == TrueRanges(bars)
      mean == Frac(Total(LastN(trs, recent)), recent)
  IN  IF recent <= 0 \/ baseline <= 0 \/ Len(bars) < recent + baseline + 1 THEN Whole(1)
      ELSE PercentileRank(mean, SubSeq(trs, Len(trs) - recent - baseline + 1,
                                       Len(trs) - recent))

\* The last bar's range is strictly the narrowest of the lookback.
IsNarrowRange(bars, lookback) ==
  LET range(k) == bars[k].high - bars[k].low
      n == Len(bars)
  IN  /\ lookback >= 2 /\ n >= lookback
      /\ \A k \in n - lookback + 1 .. n - 1 : range(n) < range(k)

\* Right aligned: the last element is the average at the last bar.
EmaSeries(values, window) ==
  LET smooth(out, v) ==
        LET e == out[Len(out)] IN
        Append(out, Frac(2 * v * e.den + (window - 1) * e.num, e.den * (window + 1)))
  IN  IF window <= 0 \/ Len(values) < window THEN <<>>
      ELSE FoldLeft(smooth, <<Frac(Total(SubSeq(values, 1, window)), window)>>,
                    SubSeq(values, window + 1, Len(values)))

\* The average k bars before the last.
EmaAt(es, k) == es[Len(es) - k]

EmaSlopeSign(values, window, lookback) ==
  LET es == EmaSeries(values, window) IN
  IF window <= 0 \/ lookback < 1 \/ Len(es) <= lookback THEN 0
  ELSE IF Less(EmaAt(es, lookback), EmaAt(es, 0)) THEN 1
  ELSE IF Less(EmaAt(es, 0), EmaAt(es, lookback)) THEN -1 ELSE 0

Beyond(price, level, dir) == dir * (price - level) > 0

\* The last close starts a run beyond the level, one of the first `max'.
SecondEntryBreakout(closes, level, dir, max) ==
  LET starts == {k \in 1 .. Len(closes) :
                   /\ Beyond(closes[k], level, dir)
                   /\ k > 1 => ~Beyond(closes[k - 1], level, dir)}
  IN  Len(closes) \in starts /\ Cardinality(starts) <= max

\* The far side of a bar, seen from a breakout in direction dir.
Pulled(bar, dir) == IF dir = 1 THEN bar.low ELSE bar.high

\* Break, a later bar back at the level, a close beyond it again: the machine of
\* the code, which stops at its first entry.
BreakoutRetest(bars, level, dir) ==
  LET step(m, k) ==
        LET b == bars[k]
            state == IF m.state = "retest" /\ ~Beyond(Pulled(b, dir), level, dir)
                     THEN "armed" ELSE m.state
        IN  IF m.state = "done" THEN m
            ELSE IF state = "break"
            THEN [m EXCEPT !.state = IF Beyond(b.close, level, dir) THEN "retest" ELSE @]
            ELSE IF state = "armed" /\ Beyond(b.close, level, dir)
            THEN [state |-> "done", at |-> k] ELSE [m EXCEPT !.state = state]
  IN  Len(bars) > 0 /\ FoldLeft(step, [state |-> "break", at |-> 0],
                                [k \in 1 .. Len(bars) |-> k]).at = Len(bars)

NoVwap == Frac(0, 0)

\* Typical prices weighted by volume; none without volume.
SessionVwap(bars) ==
  LET weighted == Total([k \in 1 .. Len(bars) |->
                    (bars[k].high + bars[k].low + bars[k].close) * bars[k].volume])
      volume   == Total([k \in 1 .. Len(bars) |-> bars[k].volume])
  IN  IF volume <= 0 THEN NoVwap ELSE Frac(weighted, 3 * volume)
=============================================================================

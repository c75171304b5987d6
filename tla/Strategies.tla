----------------------------- MODULE Strategies -----------------------------
(***************************************************************************)
(* The registered strategies (src/src/engine/strategy*.py, registry.py):   *)
(* deterministic functions of the closed bars and of `now'.                *)
(*                                                                         *)
(* One step is one more closed bar, seen by every strategy, as in a        *)
(* comparison of candidates on the same data; each strategy's last trade   *)
(* goes through its manage().  Time is counted in bars, in London; a bar   *)
(* opens at t, DaySlots of them make a day.  `now' is the bar's open in a  *)
(* backtest and its close in the live loop.  The engine's own reasons for  *)
(* no signal are logged only, and left out.                                *)
(***************************************************************************)
EXTENDS Indicators

CONSTANTS
  DaySlots,                \* bars in a day
  WinStart, WinEnd, OrBars,\* the session, its opening range
  LondonStart, LondonEnd,  \* the session of LondonOpenBreakoutER
  AsianStart, MinAsian,    \* the Asian range, up to the fade window = the session
  DriftEntry, HoldBars,    \* the one bar, and the time box, of LateSessionDrift
  Buffer,                  \* buffer_pips
  MaxOvershoot,            \* max_overshoot_pips, where a configuration sets it
  ErWindow, ErPct,         \* the efficiency-ratio gate
  AtrWindow, AtrFloor, AtrCeiling, AtrLowPct, AtrHighPct,  \* the volatility band
  AtrTenths,               \* atr_mult_sl, in tenths
  Targets,                 \* target_r_multiples
  BreakEvenAfter,          \* move_be_after_r
  Lookback,                \* bars of the trend, pullback and narrow-range lookbacks
  StretchPct,              \* stretch_atr_mult, in percent
  MaxEntries,              \* max_entries_per_side
  NarrowValid,             \* entry_valid_bars of NR7VolatilityBreakout
  TimeStop,                \* time_stop_bars of FollowThrough
  Histories,               \* bars that were there before
  OpeningBars, LaterBars,  \* bars that may come in the opening range, and after it
  Gaps, LastBar            \* bars between two opens; when the feed ends

ASSUME StrategiesAssumption ==
  /\ {DaySlots, WinStart, WinEnd, OrBars, LastBar, ErWindow, AtrWindow} \subseteq Nat
  /\ WinStart + OrBars < WinEnd /\ WinEnd <= DaySlots /\ ErWindow > 0 /\ AtrWindow > 0
  /\ Gaps \subseteq Nat \ {0}

VARIABLES
  bars,    \* the closed bars, oldest first
  live,    \* whether `now' is the live loop's
  fired,   \* history: what each strategy emitted, and when
  trade    \* the open trade of each strategy

vars == <<bars, live, fired, trade>>

Larger(a, b) == IF a >= b THEN a ELSE b

Tod(t) == t % DaySlots
Day(t) == t \div DaySlots

\* The bars b of the day of `now' with from <= time of day < to.
Between(s, now, from, to) ==
  SelectSeq(s, LAMBDA b : Day(b.t) = Day(now) /\ from <= Tod(b.t) /\ Tod(b.t) < to)

Before(s, t) == SelectSeq(s, LAMBDA b : b.t < t)

-----------------------------------------------------------------------------
(* What every evaluate() starts with.                                      *)

WarmupBars(name) ==
  Larger(2 + Larger(ErWindow, AtrWindow),
      CASE name \in {"TrendAlignedORB"} -> 2 * Lookback + 2
        [] name = "TrendPullbackEMA" -> 3 * Lookback + 2
        [] name = "SessionBreakoutERCompression" -> 2 * Lookback + 2
        [] name = "NR7VolatilityBreakout" -> Lookback + 2
        [] OTHER -> 0)

\* Enough history, an increasing sequence, inside the window, not stale.
Usable(name, s, now, from, to) ==
  /\ Len(s) >= WarmupBars(name)
  /\ s[Len(s) - 1].t < Last(s).t
  /\ from <= Tod(now) /\ Tod(now) < to
  /\ 2 * (now - Last(s).t) <= 3

\* _regime: the band by the ATR and by its rank among the last true ranges.
VolState(s) ==
  LET atr == WilderAtr(s, AtrWindow)
      pct == PercentileRank(atr, TrueRanges(s))
  IN  IF atr.num = 0 \/ Less(atr, Whole(AtrFloor)) \/ Less(pct, Frac(AtrLowPct, 100))
      THEN "low"
      ELSE IF Less(Whole(AtrCeiling), atr) \/ Less(Frac(AtrHighPct, 100), pct)
      THEN "high" ELSE "normal"

Efficient(s) == Leq(Frac(ErPct, 100), EfficiencyRatio(Closes(s), ErWindow))

Trending(s) == VolState(s) = "normal" /\ Efficient(s)
Ranging(s) == VolState(s) = "normal" /\ ~Efficient(s)

-----------------------------------------------------------------------------
(* Signals.  The stop lies `dist' from the anchor, target k lies r_k times *)
(* that on the other side of it.                                           *)

Sig(dir, kind, entry, anchor, dist, expire) ==
  [dir |-> dir, kind |-> kind, entry |-> entry, anchor |-> anchor, dist |-> dist,
   expire |-> expire]

NoExpiry == 0

AtrStop(s) ==
  LET atr == WilderAtr(s, AtrWindow) IN Frac(atr.num * AtrTenths, atr.den * 10)

\* Mutant: without the floor that the ATR puts under the distance.
StructureAlone(s, structure) == structure

StopDistance(s, structure) ==
  MaxFrac(structure, AtrStop(s))

Sl(sig)        == Plus(Whole(sig.anchor), Times(sig.dist, -sig.dir))
Target(sig, r) == Plus(Whole(sig.anchor), Times(sig.dist, sig.dir * r))

\* The opening range of a session, widened by the buffer.
RangeOf(s, now, from) == Between(s, now, from, from + OrBars)

Level(range, dir) ==
  IF dir = 1 THEN Max(Highs(range)) + Buffer ELSE Min(Lows(range)) - Buffer

\* The width of the range and one buffer: the structural stop.
RangeStop(range) == Whole(Max(Highs(range)) - Min(Lows(range)) + Buffer)

\* The configuration of the incumbent that sets the overshoot lever, a candidate
\* next to the ones that leave it unset.
Capped == "SessionBreakoutER, capped"

\* Whether the close is no further beyond the level than a cap that is set allows.
WithinCap(name, close, level) == name = Capped => AbsOf(close - level) <= MaxOvershoot

\* Mutant: the bar before the current one is not looked at.
BreakoutSince(name, s, now, from, to, anchored) ==
  LET range == RangeOf(s, now, from)
      last  == Last(s)
      post  == Before(Between(s, now, from + OrBars, to), last.t - 1)
      broke(dir) == \E k \in 1 .. Len(post) : Beyond(post[k].close, Level(range, dir), dir)
  IN  IF \/ ~Usable(name, s, now, from, to) \/ range = <<>>
         \/ Tod(last.t) < from + OrBars \/ ~Trending(s) THEN {}
      ELSE {Sig(dir, "market", last.close,
                IF anchored THEN last.close ELSE Level(range, dir),
                StopDistance(s, RangeStop(range)), NoExpiry) :
            dir \in {d \in {1, -1} :
                       /\ Beyond(last.close, Level(range, d), d) /\ ~broke(d)
                       /\ WithinCap(name, last.close, Level(range, d))}}

\* SessionBreakoutER.evaluate: a close beyond the range, the first of its side, no
\* further than the cap, if one is set.  The exits hang on the level, not on the
\* entry, unless they are `anchored' at the fill.
Breakout(name, s, now, from, to, anchored) ==
  LET range == RangeOf(s, now, from)
      last  == Last(s)
      post  == Before(Between(s, now, from + OrBars, to), last.t)
      broke(dir) == \E k \in 1 .. Len(post) : Beyond(post[k].close, Level(range, dir), dir)
  IN  IF \/ ~Usable(name, s, now, from, to) \/ range = <<>>
         \/ Tod(last.t) < from + OrBars \/ ~Trending(s) THEN {}
      ELSE {Sig(dir, "market", last.close,
                IF anchored THEN last.close ELSE Level(range, dir),
                StopDistance(s, RangeStop(range)), NoExpiry) :
            dir \in {d \in {1, -1} :
                       /\ Beyond(last.close, Level(range, d), d) /\ ~broke(d)
                       /\ WithinCap(name, last.close, Level(range, d))}}

\* The exits hang on the fill.
FillAnchored(s, now) ==
  Breakout("SessionBreakoutERFillAnchored", s, now, WinStart, WinEnd, TRUE)

\* The same rules in the London morning.
LondonOpen(s, now) ==
  Breakout("LondonOpenBreakoutER", s, now, LondonStart, LondonEnd, FALSE)

\* A pair of stops around a range; a side that the market is through cannot rest.
RestingPair(s, range, expire) ==
  {Sig(dir, "stop", Level(range, dir), Level(range, dir),
       StopDistance(s, RangeStop(range)), expire) :
   dir \in {d \in {1, -1} : Beyond(Level(range, d), Last(s).close, d)}}

\* SessionBreakoutERResting: on the last bar of the opening range only.
Resting(s, now) ==
  LET range == RangeOf(s, now, WinStart) IN
  IF \/ ~Usable("SessionBreakoutERResting", s, now, WinStart, WinEnd) \/ range = <<>>
     \/ Tod(Last(s).t) >= WinStart + OrBars
     \/ Tod(Last(s).t) + 1 < WinStart + OrBars \/ ~Trending(s) THEN {}
  ELSE RestingPair(s, range, Day(now) * DaySlots + WinEnd)

\* NR7VolatilityBreakout: around the narrowest bar, whatever the trend; `now' and
\* half a bar more, as the comparison with `now' rounds it.
NarrowRange(s, now) ==
  IF \/ ~Usable("NR7VolatilityBreakout", s, now, WinStart, WinEnd)
     \/ ~IsNarrowRange(s, Lookback) \/ VolState(s) # "normal" THEN {}
  ELSE RestingPair(s, <<Last(s)>>, now + NarrowValid + 1)

\* SessionBreakoutERCompression: only after a quiet morning.
Compression(s, now) ==
  LET pre == SelectSeq(s, LAMBDA b : \/ Day(b.t) < Day(now)
                                     \/ Day(b.t) = Day(now) /\ Tod(b.t) < WinStart)
  IN  IF Leq(CompressionPct(pre, 1, Lookback), Frac(1, 2))
      THEN Breakout("SessionBreakoutERCompression", s, now, WinStart, WinEnd, FALSE)
      ELSE {}

\* TrendAlignedORB: only with the slope of the slow average.
TrendAligned(s, now) ==
  {sig \in Breakout("TrendAlignedORB", s, now, WinStart, WinEnd, FALSE) :
     sig.dir = EmaSlopeSign(Closes(s), Lookback, Lookback)}

\* SecondEntryORB and BreakoutRetestER look at the bars since the opening range,
\* the current one included, long first.
SecondEntry(s, now) ==
  LET range == RangeOf(s, now, WinStart)
      post  == Between(s, now, WinStart + OrBars, WinEnd)
      dirs  == {d \in {1, -1} :
                  SecondEntryBreakout(Closes(post), Level(range, d), d, MaxEntries)}
  IN  IF \/ ~Usable("SecondEntryORB", s, now, WinStart, WinEnd) \/ range = <<>>
         \/ Tod(Last(s).t) < WinStart + OrBars \/ ~Trending(s) \/ dirs = {} THEN {}
      ELSE LET dir == Max(dirs) IN
           {Sig(dir, "market", Level(range, dir), Level(range, dir),
                StopDistance(s, RangeStop(range)), NoExpiry)}

Retest(s, now) ==
  LET range == RangeOf(s, now, WinStart)
      post  == Between(s, now, WinStart + OrBars, WinEnd)
      dirs  == {d \in {1, -1} : BreakoutRetest(post, Level(range, d), d)}
  IN  IF \/ ~Usable("BreakoutRetestER", s, now, WinStart, WinEnd) \/ range = <<>>
         \/ Tod(Last(s).t) < WinStart + OrBars \/ ~Trending(s) \/ dirs = {} THEN {}
      ELSE {Sig(Max(dirs), "market", Last(s).close, Last(s).close, AtrStop(s),
                NoExpiry)}

-----------------------------------------------------------------------------
(* TrendPullbackEMA.                                                       *)

\* One of the bars before the last came back to its average.
Touched(s, es, dir) ==
  \E j \in 1 .. Lookback :
    /\ j < Len(es) /\ j < Len(s)
    /\ LET e == EmaAt(es, j)  p == Whole(Pulled(s[Len(s) - j], dir))
       IN  IF dir = 1 THEN Leq(p, e) ELSE Leq(e, p)

\* The last bar resumes the trend after a touch: 1, -1, or 0 for no resume.
ResumeSide(s) ==
  LET es   == EmaSeries(Closes(s), Lookback)
      last == Last(s)
      prev == s[Len(s) - 1]
      resumes(dir) ==
        /\ EmaSlopeSign(Closes(s), Lookback, Lookback) = dir
        /\ IF dir = 1 THEN Less(EmaAt(es, 0), Whole(last.close)) /\ last.close > prev.high
                      ELSE Less(Whole(last.close), EmaAt(es, 0)) /\ last.close < prev.low
        /\ Touched(s, es, dir)
  IN  IF Len(s) < 2 \/ Len(es) < Lookback + 1 THEN 0
      ELSE IF resumes(1) THEN 1 ELSE IF resumes(-1) THEN -1 ELSE 0

\* An earlier bar of the session that resumed to the same side counts as traded.
\* The stop is beyond the extreme of the lookback.
Pullback(s, now) ==
  LET session == Between(s, now, WinStart, WinEnd)
      side    == ResumeSide(s)
      entry   == Last(s).close
      recent  == LastN(s, IF Len(s) > Lookback THEN Lookback + 1 ELSE Len(s))
      extreme == IF side = 1 THEN Min(Lows(recent)) ELSE Max(Highs(recent))
      already == \E k \in 2 .. Len(s) - 1 :
                   s[k].t >= session[1].t /\ ResumeSide(SubSeq(s, 1, k)) = side
  IN  IF \/ ~Usable("TrendPullbackEMA", s, now, WinStart, WinEnd) \/ ~Trending(s)
         \/ Len(session) < 2 \/ side = 0 \/ already THEN {}
      ELSE {Sig(side, "market", entry, entry,
                StopDistance(s, Whole(side * (entry - extreme))), NoExpiry)}

-----------------------------------------------------------------------------
(* The fades: AsianSweepFade, its RR variant, VWAPStretchReversion.        *)

\* The last bar's extreme on the side from which a fade in direction dir comes.
Wick(bar, dir) == Whole(dir * (bar.close - Pulled(bar, dir)))

\* A wick beyond the range that closes inside it; dir is that of the fade.
Swept(bar, asian, dir) ==
  IF dir = 1 THEN bar.low < Min(Lows(asian)) - Buffer
             ELSE bar.high > Max(Highs(asian)) + Buffer

Inside(bar, asian) ==
  Min(Lows(asian)) < bar.close /\ bar.close < Max(Highs(asian))

\* A sweep of one side only, the first that closed back inside today.
AsianSweep(name, s, now, wickBuffer) ==
  LET asian == Between(s, now, AsianStart, WinStart)
      last  == Last(s)
      prior == Before(Between(s, now, WinStart, WinEnd), last.t)
      dirs  == {d \in {1, -1} : Swept(last, asian, d)}
      faded(d) == \E k \in 1 .. Len(prior) :
                    Swept(prior[k], asian, d) /\ Inside(prior[k], asian)
  IN  IF \/ ~Usable(name, s, now, WinStart, WinEnd) \/ Len(asian) < MinAsian
         \/ ~Ranging(s) \/ Cardinality(dirs) # 1 \/ ~Inside(last, asian) THEN {}
      ELSE {Sig(d, "market", last.close, last.close,
                StopDistance(s, Plus(Wick(last, d), Whole(wickBuffer))), NoExpiry) :
            d \in {d \in dirs : ~faded(d)}}

\* AsianSweepFadeRR: a buffer beyond the wick.
AsianSweepRR(s, now) == AsianSweep("AsianSweepFadeRR", s, now, 1)

\* The close is that part of the ATR away from the mean; dir is that of the fade.
Stretched(bar, vwap, atr, dir) ==
  Leq(Times(atr, StretchPct),
      Times(Plus(Whole(bar.close), Times(vwap, -1)), -100 * dir))

\* A close that stretches away from today's mean, when the bar before it did not.
VwapStretch(s, now) ==
  LET session == Between(s, now, WinStart, WinEnd)
      vwap    == SessionVwap(session)
      atr     == WilderAtr(s, AtrWindow)
      last    == Last(s)
      prev    == s[Len(s) - 1]
      fresh(d) == \/ Between(<<prev>>, now, WinStart, WinEnd) = <<>>
                  \/ ~Stretched(prev, vwap, atr, d)
  IN  IF \/ ~Usable("VWAPStretchReversion", s, now, WinStart, WinEnd)
         \/ session = <<>> \/ vwap = NoVwap \/ ~Ranging(s) THEN {}
      ELSE {Sig(d, "market", last.close, last.close, StopDistance(s, Wick(last, d)),
                NoExpiry) :
            d \in {d \in {1, -1} : Stretched(last, vwap, atr, d) /\ fresh(d)}}

\* LateSessionDrift: long, on the one bar of the day, in the volatility band.
LateDrift(s, now) ==
  IF \/ ~Usable("LateSessionDrift", s, now, DriftEntry, DriftEntry + 1)
     \/ VolState(s) # "normal" THEN {}
  ELSE {Sig(1, "market", Last(s).close, Last(s).close, StopDistance(s, Whole(0)), NoExpiry)}

-----------------------------------------------------------------------------
(* The registry: what the strategy of a name emits.                        *)

Incumbents == {"SessionBreakoutER", "SessionBreakoutERFollowThrough",
               "SessionBreakoutERStructuralExit", Capped}

Candidates == Incumbents \union
  {"SessionBreakoutERFillAnchored", "LondonOpenBreakoutER", "SessionBreakoutERResting",
   "SessionBreakoutERCompression", "TrendAlignedORB", "SecondEntryORB", "BreakoutRetestER",
   "TrendPullbackEMA", "NR7VolatilityBreakout", "AsianSweepFade", "AsianSweepFadeRR",
   "VWAPStretchReversion", "LateSessionDrift"}

Evaluate(name, s, now) ==
  CASE name \in Incumbents -> Breakout(name, s, now, WinStart, WinEnd, FALSE)
    [] name = "SessionBreakoutERFillAnchored" -> FillAnchored(s, now)
    [] name = "LondonOpenBreakoutER" -> LondonOpen(s, now)
    [] name = "SessionBreakoutERResting" -> Resting(s, now)
    [] name = "SessionBreakoutERCompression" -> Compression(s, now)
    [] name = "TrendAlignedORB" -> TrendAligned(s, now)
    [] name = "SecondEntryORB" -> SecondEntry(s, now)
    [] name = "BreakoutRetestER" -> Retest(s, now)
    [] name = "TrendPullbackEMA" -> Pullback(s, now)
    [] name = "NR7VolatilityBreakout" -> NarrowRange(s, now)
    [] name = "AsianSweepFade" -> AsianSweep(name, s, now, 0)
    [] name = "AsianSweepFadeRR" -> AsianSweepRR(s, now)
    [] name = "VWAPStretchReversion" -> VwapStretch(s, now)
    [] name = "LateSessionDrift" -> LateDrift(s, now)

-----------------------------------------------------------------------------
(* manage(): hold, close, or a new stop.                                   *)

NoTrade == [dir |-> 0, entry |-> 0, sl |-> Whole(0), held |-> 0, exit |-> FALSE]

Gain(tr, close) == Whole(tr.dir * (close - tr.entry))
Risk(tr) == LET d == Plus(Whole(tr.entry), Times(tr.sl, -1))
            IN  IF d.num < 0 THEN Times(d, -1) ELSE d

\* Mutant: as soon as there is a stop to move.
BreakEvenAtOnce(tr, close) ==
  IF Risk(tr).num > 0 /\ Less(Times(tr.sl, tr.dir), Whole(tr.dir * tr.entry))
  THEN Whole(tr.entry) ELSE tr.sl

\* SessionBreakoutER.manage: to break-even after so many R.
BreakEvenStop(tr, close) ==
  IF /\ Risk(tr).num > 0
     /\ Leq(Times(Risk(tr), BreakEvenAfter), Gain(tr, close))
     /\ Less(Times(tr.sl, tr.dir), Whole(tr.dir * tr.entry))
  THEN Whole(tr.entry) ELSE tr.sl

\* SessionBreakoutERStructuralExit: the close is back inside today's range.
BackInside(tr, s, now) ==
  LET range == RangeOf(s, now, WinStart)
      close == Last(s).close
  IN  /\ range # <<>>
      /\ IF tr.dir = 1 THEN close < Max(Highs(range)) ELSE close > Min(Lows(range))

\* What manage() is shown of a trade: the live loop's view has no bars_held.
BarsHeldShown == ~live

\* SessionBreakoutERFollowThrough: no progress in time.
NoProgress(tr, s) ==
  /\ BarsHeldShown /\ TimeStop > 0 /\ tr.held >= TimeStop
  /\ Risk(tr).num > 0 /\ Gain(tr, Last(s).close).num < 0

\* LateSessionDrift: the end of the time box, or of the night.
NightOver(tr, now) ==
  BarsHeldShown /\ (tr.held >= HoldBars \/ (tr.held >= 1 /\ Tod(now) < DriftEntry))

\* Whether manage() closes.
ManageCloses(name, tr, s, now) ==
  \/ name = "SessionBreakoutERStructuralExit" /\ BackInside(tr, s, now)
  \/ name = "SessionBreakoutERFollowThrough" /\ NoProgress(tr, s)
  \/ name = "LateSessionDrift" /\ NightOver(tr, now)

Moves(name) == name \notin {"LateSessionDrift", "BreakoutRetestER"}

-----------------------------------------------------------------------------

Now(s, on) == Last(s).t + IF on THEN 1 ELSE 0

\* The broker's stop first, then manage().
Managed(name, tr, s, now) ==
  LET last  == Last(s)
      held  == [tr EXCEPT !.held = @ + 1]
      stopped == IF tr.dir = 1 THEN Leq(Whole(last.low), tr.sl)
                               ELSE Leq(tr.sl, Whole(last.high))
  IN  IF stopped \/ ManageCloses(name, held, s, now) THEN NoTrade
      ELSE IF Moves(name) THEN [held EXCEPT !.sl = BreakEvenStop(tr, last.close)] ELSE held

Opened(sigs) ==
  LET market == {g \in sigs : g.kind = "market"} IN
  IF market = {} THEN NoTrade
  ELSE LET g == CHOOSE g \in market : TRUE IN
       [NoTrade EXCEPT !.dir = g.dir, !.entry = g.entry, !.sl = Sl(g)]

BarCloses(b, gap) ==
  LET s   == Append(bars, [t |-> Last(bars).t + gap, high |-> b.high, low |-> b.low,
                           close |-> b.close, volume |-> b.high - b.low])
      now == Now(s, live)
      new == [n \in Candidates |-> Evaluate(n, s, now)]
  IN  /\ Last(s).t <= LastBar
      /\ bars' = s
      /\ fired' = [n \in Candidates |->
                     fired[n] \union {[t |-> Last(s).t, sig |-> g] : g \in new[n]}]
      /\ trade' = [n \in Candidates |->
                     IF trade[n] = NoTrade THEN Opened(new[n])
                     ELSE Managed(n, trade[n], s, now)]
      /\ UNCHANGED live

Init ==
  /\ bars \in Histories /\ live \in BOOLEAN
  /\ fired = [n \in Candidates |-> {}]
  /\ trade = [n \in Candidates |-> NoTrade]

Next ==
  \E gap \in Gaps :
    \E b \in IF Tod(Last(bars).t + gap) < WinStart + OrBars THEN OpeningBars ELSE LaterBars :
      BarCloses(b, gap)

Spec == Init /\ [][Next]_vars

-----------------------------------------------------------------------------
(* Properties.                                                             *)

OncePerSide == Candidates \ {"SecondEntryORB", "NR7VolatilityBreakout", "VWAPStretchReversion"}

\* The signals of a strategy to one side on the day of signal e.
SameSide(name, e) ==
  {f \in fired[name] : f.sig.dir = e.sig.dir /\ Day(f.t) = Day(e.t)}

\* "one_shot_per_side": a side is entered once a day, also when bars are missing
\* and when the first break fell on a bar that did not trade.  The second entry is
\* "strictly additive" (indicators.py): it never takes the first one away, and never
\* becomes a third.
OneShotPerSide ==
  /\ \A n \in OncePerSide : \A e \in fired[n] : Cardinality(SameSide(n, e)) = 1
  /\ \A e \in fired["SecondEntryORB"] : Cardinality(SameSide("SecondEntryORB", e)) <= MaxEntries
  /\ \A e \in fired["SessionBreakoutER"] :
       \E f \in fired["SecondEntryORB"] : f.t = e.t /\ f.sig.dir = e.sig.dir

Ahead(g) == \A r \in Targets : Less(Whole(g.dir * g.entry), Times(Target(g, r), g.dir))

\* Whatever the bars, the stop lies behind the entry; every target lies ahead of it
\* where the exits hang on the entry or the overshoot of the level is capped; an
\* order that rests is on its side of the market, and its window is still open.
ExitsAroundEntry ==
  \A n \in Candidates : \A e \in fired[n] :
    LET g == e.sig IN
    /\ Less(Times(Sl(g), g.dir), Whole(g.dir * g.entry))
    /\ n = Capped \/ g.anchor = g.entry => Ahead(g)
    /\ g.kind = "stop" =>
         /\ g.expire > e.t + 1
         /\ \A k \in DOMAIN bars : bars[k].t = e.t => Beyond(g.entry, bars[k].close, g.dir)

\* manage() never gives a trade more room, and never leaves a stop through which
\* the market is.
ManageNeverLoosens ==
  [][\A n \in Candidates :
       LET old == trade[n]  new == trade'[n] IN
       old # NoTrade /\ new # NoTrade =>
         /\ Leq(Times(old.sl, old.dir), Times(new.sl, old.dir))
         /\ Leq(Times(new.sl, old.dir), Whole(old.dir * Last(bars').close))]_vars

\* "Close once the position has been held hold_bars bars" (strategy_late_drift.py):
\* the time box holds in the live loop too.
DriftTimeBoxed == trade["LateSessionDrift"].held < HoldBars
=============================================================================

----------------------------- MODULE MarketData -----------------------------
(***************************************************************************)
(* The bars that the research side reads: exported from the terminal and   *)
(* cleaned (src/scripts/mt5_export.py, src/src/data/clean.py).  A bar is   *)
(* a record with t, the hour it opens at, since a Monday, and range, its   *)
(* high less its low.  A timeframe is one hour.                            *)
(***************************************************************************)
EXTENDS Lists, FiniteSets

CONSTANTS
  DayHours,   \* hours in a day
  CloseHour,  \* FX closes on Friday at this hour, and opens on Sunday
  MaxRange    \* max_bar_range_pips

BarRecord == [t : Nat, range : Int]

Times(bars) == {bars[k].t : k \in DOMAIN bars}

\* The last bar of those with the same time.
LastAt(bars, t) ==
  CHOOSE k \in DOMAIN bars : bars[k].t = t /\ \A m \in DOMAIN bars : bars[m].t = t => m <= k

\* The n-th of a set of times.
NthOf(times, n) == CHOOSE t \in times : Cardinality({u \in times : u < t}) = n - 1

\* In order, one bar for each time.
Dedupe(bars) ==
  [n \in 1 .. Cardinality(Times(bars)) |-> bars[LastAt(bars, NthOf(Times(bars), n))]]

IsWeekendClosed(t) ==
  LET weekday == (t \div DayHours) % 7  hour == t % DayHours
  IN  \/ weekday = 5
      \/ weekday = 4 /\ hour >= CloseHour
      \/ weekday = 6 /\ hour < CloseHour

DropWeekend(bars) == Selected(bars, {b \in BarRecord : ~IsWeekendClosed(b.t)})

ClipOutliers(bars) == Selected(bars, {b \in BarRecord : 0 <= b.range /\ b.range <= MaxRange})

\* Mutant: a single missing bar is none.
DetectGapsLong(bars) ==
  {<<bars[k - 1].t, bars[k].t>> :
     k \in {k \in 2 .. Len(bars) : /\ bars[k].t - bars[k - 1].t > 2
                                   /\ ~IsWeekendClosed(bars[k - 1].t + 1)}}

\* More than one and a half bars apart, unless it begins where the weekend does.
DetectGaps(bars) ==
  {<<bars[k - 1].t, bars[k].t>> :
     k \in {k \in 2 .. Len(bars) : /\ 2 * (bars[k].t - bars[k - 1].t) > 3
                                   /\ ~IsWeekendClosed(bars[k - 1].t + 1)}}

CleanBars(bars) ==
  LET unique == Dedupe(bars)  open == DropWeekend(unique)  kept == ClipOutliers(open)
  IN  [bars       |-> kept,
       duplicates |-> Len(bars) - Len(unique),
       weekend    |-> Len(unique) - Len(open),
       outliers   |-> Len(open) - Len(kept),
       gaps       |-> DetectGaps(kept)]

\* What the terminal gives, its clock an offset ahead of UTC.
Export(rates, offset) ==
  CleanBars([k \in DOMAIN rates |-> [rates[k] EXCEPT !.t = @ - offset]])
=============================================================================

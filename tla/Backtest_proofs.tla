--------------------------- MODULE Backtest_proofs ---------------------------
(***************************************************************************)
(* What the backtester keeps for every instrument, cost model and envelope *)
(* and for replays of any length: its books agree, a trade loses no more   *)
(* than its risk and its costs, a stop is taken back once at most and to   *)
(* the entry at worst, and no position opens at an equity at which the     *)
(* Governor would halt.                                                    *)
(*                                                                         *)
(* The partials of a bar are a recursion over the targets of a plan; what  *)
(* they keep is shown by an induction over the set of their indices.       *)
(***************************************************************************)
EXTENDS Backtest, RiskGovernorLemmas, SequenceTheorems, WellFoundedInduction

-----------------------------------------------------------------------------
(* Induction over the naturals, as membership in a set.                    *)

LEMMA LeastOf ==
  ASSUME NEW S, S \subseteq Nat, S # {}
  PROVE  \E x \in S : \A y \in S : x <= y
<1> DEFINE R == {ss \in Nat \X Nat : ss[1] < ss[2]}
<1>1. IsWellFoundedOn(R, Nat)
  BY NatLessThanWellFounded DEF OpToRel
<1>2. \A x, y \in Nat : <<y, x>> \in R <=> y < x
  OBVIOUS
<1> HIDE DEF R
<1>3. PICK x \in S : \A y \in S : ~(<<y, x>> \in R)
  BY <1>1, WFMin
<1>4. ASSUME NEW y \in S PROVE x <= y
  <2>1. x \in Nat /\ y \in Nat /\ ~(y < x)
    BY <1>2, <1>3
  <2> QED BY <2>1
<1> QED BY <1>4

LEMMA UpFromZero ==
  ASSUME NEW S, 0 \in S, \A n \in Nat : n \in S => n + 1 \in S
  PROVE  Nat \subseteq S
<1> SUFFICES ASSUME Nat \ S # {} PROVE FALSE
  OBVIOUS
<1>1. PICK x \in Nat \ S : \A y \in Nat \ S : x <= y
  BY LeastOf
<1>2. x # 0 /\ x - 1 \in Nat /\ x - 1 \in S
  BY <1>1
<1> QED BY <1>1, <1>2

-----------------------------------------------------------------------------
(* Money.                                                                  *)

\* What a lot step may lose from the entry on: the risk, and both fills' costs.
LotLoss(risk) == Value * (risk + HalfSpread + SlipPts) + Commission

LEMMA LotLossType ==
  ASSUME NEW risk \in Nat
  PROVE  LotLoss(risk) \in Nat
<1>1. risk + HalfSpread + SlipPts \in Nat /\ Value \in Nat /\ Commission \in Nat
  BY BacktestAssumption
<1>2. Value * (risk + HalfSpread + SlipPts) \in Nat
  BY <1>1, ProductType
<1> QED BY <1>1, <1>2 DEF LotLoss

\* A leg that leaves within its risk and the costs loses no more than that.
LEMMA LegLoss ==
  ASSUME NEW dir \in {1, -1}, NEW entry \in Int, NEW exit \in Int,
         NEW n \in Nat, NEW risk \in Nat,
         dir * (exit - entry) >= -(risk + HalfSpread + SlipPts)
  PROVE  /\ Pnl(dir, entry, exit, n) \in Int
         /\ Pnl(dir, entry, exit, n) >= -(n * LotLoss(risk))
<1> DEFINE m == dir * (exit - entry)
           most == risk + HalfSpread + SlipPts
<1>1. m \in Int /\ most \in Nat /\ Value \in Nat /\ Commission \in Nat
  BY BacktestAssumption
<1>2. -most <= m
  OBVIOUS
<1>3. Pnl(dir, entry, exit, n) = m * Value * n - Commission * n
  BY DEF Pnl, GrossPnl
<1>4. LotLoss(risk) = Value * most + Commission
  BY DEF LotLoss
<1> HIDE DEF m, most
<1>5. /\ (-most) * Value \in Int /\ m * Value \in Int
      /\ (-most) * Value <= m * Value
  BY <1>1, <1>2, ScaleOrder
<1>6. /\ ((-most) * Value) * n \in Int /\ (m * Value) * n \in Int
      /\ ((-most) * Value) * n <= (m * Value) * n
  BY <1>5, ScaleOrder
<1>7. Commission * n \in Nat
  BY <1>1, ProductType
<1>8. -(n * (Value * most + Commission)) = ((-most) * Value) * n - Commission * n
  BY <1>1, Z3
<1> QED BY <1>3, <1>4, <1>6, <1>7, <1>8

\* Losses add up.
LEMMA LossesAdd ==
  ASSUME NEW a \in Nat, NEW b \in Nat, NEW c \in Nat
  PROVE  /\ a * c \in Nat /\ b * c \in Nat /\ (a + b) * c \in Nat
         /\ (a + b) * c = a * c + b * c
<1>1. (a + b) * c = a * c + b * c
  BY Z3
<1> QED BY <1>1, ProductType

-----------------------------------------------------------------------------
(* Positions.                                                              *)

PosFields == {"dir", "entry", "init", "lots", "sl", "risk", "tp", "usd", "parts",
              "be", "trail", "moved", "modified", "closed", "pnl"}

PartOK(t) ==
  /\ DOMAIN t = {"price", "filled", "frac"}
  /\ t.price \in Int /\ t.frac.num \in Nat /\ t.frac.den \in Nat /\ t.frac.den > 0

\* What no slice of a position changes.
Terms(p) ==
  /\ DOMAIN p = PosFields
  /\ p.dir \in {1, -1} /\ p.entry \in Int /\ p.sl \in Int /\ p.tp \in Int
  /\ p.init \in Nat /\ p.risk \in Nat /\ p.be \in Nat
  /\ p.usd = p.risk * Value * p.init
  /\ p.dir * (p.sl - p.entry) >= -p.risk
  /\ p.dir * (p.tp - p.entry) >= -(HalfSpread + SlipPts)
  /\ p.trail # NoTrail => p.trail.step \in Nat /\ p.trail.distance \in Int

\* What every slice keeps.
Slices(p) ==
  /\ p.lots \in Nat /\ p.closed \in Nat /\ p.lots + p.closed = p.init
  /\ p.lots = 0 \/ p.lots >= MinSteps
  /\ p.pnl \in Int /\ p.pnl >= -(p.closed * LotLoss(p.risk))
  /\ DOMAIN p.parts = 1 .. Len(p.parts) /\ Len(p.parts) \in Nat
  /\ \A k \in 1 .. Len(p.parts) : PartOK(p.parts[k])

PosOK(p) == Terms(p) /\ Slices(p)

\* p and q are the same position, but for the slices taken.
SameTerms(p, q) ==
  /\ DOMAIN q = DOMAIN p
  /\ q.dir = p.dir /\ q.entry = p.entry /\ q.init = p.init /\ q.sl = p.sl
  /\ q.risk = p.risk /\ q.tp = p.tp /\ q.usd = p.usd /\ q.be = p.be
  /\ q.trail = p.trail /\ q.moved = p.moved

LEMMA TermsCarry ==
  ASSUME NEW p, NEW q, Terms(p), SameTerms(p, q)
  PROVE  Terms(q)
BY DEF Terms, SameTerms

\* A slice at a price within the risk and the costs.
LEMMA LegKeeps ==
  ASSUME NEW p, PosOK(p), NEW lots \in Nat, NEW exit \in Int,
         p.dir * (exit - p.entry) >= -(p.risk + HalfSpread + SlipPts),
         p.lots - MinOf(lots, p.lots) = 0 \/ p.lots - MinOf(lots, p.lots) >= MinSteps
  PROVE  /\ PosOK(AddLeg(p, lots, exit)) /\ SameTerms(p, AddLeg(p, lots, exit))
         /\ AddLeg(p, lots, exit).parts = p.parts
         /\ AddLeg(p, lots, exit).lots = p.lots - MinOf(lots, p.lots)
         /\ AddLeg(p, lots, exit).modified = p.modified
<1> DEFINE n == MinOf(lots, p.lots)
           q == AddLeg(p, lots, exit)
           leg == Pnl(p.dir, p.entry, exit, n)
<1>1. n \in Nat /\ n <= p.lots
  BY DEF PosOK, Slices, MinOf
<1>2. /\ p.dir \in {1, -1} /\ p.entry \in Int /\ p.risk \in Nat
      /\ p.lots \in Nat /\ p.closed \in Nat /\ p.pnl \in Int
  BY DEF PosOK, Terms, Slices
<1> HIDE DEF n
<1>3. leg \in Int /\ leg >= -(n * LotLoss(p.risk))
  BY <1>1, <1>2, LegLoss
<1>4. q = [p EXCEPT !.lots = p.lots - n, !.closed = p.closed + n, !.pnl = p.pnl + leg]
  BY DEF AddLeg, n
<1> HIDE DEF leg, q
<1>5. /\ SameTerms(p, q) /\ q.parts = p.parts /\ q.modified = p.modified
      /\ q.lots = p.lots - n /\ q.closed = p.closed + n /\ q.pnl = p.pnl + leg
  BY <1>4 DEF SameTerms, PosOK, Terms, PosFields
<1>6. q.pnl >= -(q.closed * LotLoss(q.risk))
  <2> DEFINE c == LotLoss(p.risk)
  <2>1. c \in Nat
    BY <1>2, LotLossType
  <2>2. p.pnl >= -(p.closed * c)
    BY DEF PosOK, Slices
  <2>3. q.risk = p.risk
    BY <1>5 DEF SameTerms
  <2> HIDE DEF c
  <2>4. /\ p.closed * c \in Nat /\ n * c \in Nat
        /\ (p.closed + n) * c = p.closed * c + n * c
    BY <1>1, <1>2, <2>1, LossesAdd
  <2>5. p.pnl + leg >= -((p.closed + n) * c)
    BY <1>2, <1>3, <2>2, <2>4 DEF c
  <2> QED BY <1>5, <2>3, <2>5 DEF c
<1>7. Terms(q)
  BY <1>5, TermsCarry DEF PosOK
<1>8. Slices(q)
  <2>1. p.lots - n = 0 \/ p.lots - n >= MinSteps
    BY DEF n
  <2>2. p.lots + p.closed = p.init /\ q.init = p.init
    BY <1>5 DEF PosOK, Slices, SameTerms
  <2>3. /\ q.lots \in Nat /\ q.closed \in Nat /\ q.lots + q.closed = q.init
        /\ q.lots = 0 \/ q.lots >= MinSteps
    BY <1>1, <1>2, <1>5, <2>1, <2>2
  <2>4. q.pnl \in Int
    BY <1>2, <1>3, <1>5
  <2>5. /\ DOMAIN q.parts = 1 .. Len(q.parts) /\ Len(q.parts) \in Nat
        /\ \A k \in 1 .. Len(q.parts) : PartOK(q.parts[k])
    BY <1>5 DEF PosOK, Slices
  <2> QED BY <1>6, <2>3, <2>4, <2>5 DEF Slices
<1> QED BY <1>5, <1>7, <1>8 DEF PosOK, q, n

\* The close of a bar that has not touched the stop lies within the risk.
ShortOfStop(p, close) == p.dir * (close - p.entry) >= -p.risk

LEMMA ExitWithin ==
  ASSUME NEW p, Terms(p), NEW close \in Int, ShortOfStop(p, close)
  PROVE  /\ ExitFill(p.dir, close) \in Int
         /\ p.dir * (ExitFill(p.dir, close) - p.entry)
              >= -(p.risk + HalfSpread + SlipPts)
<1>1. /\ p.dir \in {1, -1} /\ p.entry \in Int /\ p.risk \in Nat
      /\ HalfSpread \in Nat /\ SlipPts \in Nat
  BY BacktestAssumption DEF Terms
<1>2. CASE p.dir = 1
  BY <1>1, <1>2 DEF ExitFill, ShortOfStop
<1>3. CASE p.dir = -1
  BY <1>1, <1>3 DEF ExitFill, ShortOfStop
<1> QED BY <1>1, <1>2, <1>3

LEMMA RoundType ==
  ASSUME NEW num \in Nat, NEW den \in Nat, den > 0
  PROVE  RoundHalfEven(num, den) \in Nat
<1>1. num \div den \in Int /\ num \div den >= 0
  <2>1. num \div den \in Int /\ num < (num \div den + 1) * den
    BY QuotientBounds
  <2> DEFINE q == num \div den
  <2> SUFFICES ASSUME q + 1 <= 0 PROVE FALSE
    BY <2>1
  <2> HIDE DEF q
  <2>2. q \in Int /\ num < (q + 1) * den
    BY <2>1 DEF q
  <2>3. (q + 1) * den <= 0 * den /\ (q + 1) * den \in Int
    BY <2>2, ScaleOrder
  <2> QED BY <2>2, <2>3
<1> QED BY <1>1 DEF RoundHalfEven

\* One partial keeps the position, and the number of its targets.
LEMMA PartialKeeps ==
  ASSUME NEW p, PosOK(p), NEW k \in 1 .. Len(p.parts), NEW close \in Int,
         ShortOfStop(p, close)
  PROVE  LET q == Partial(p, k, close)
         IN  PosOK(q) /\ SameTerms(p, q) /\ Len(q.parts) = Len(p.parts)
             /\ q.modified = p.modified
<1> DEFINE t == p.parts[k]
           round == RoundHalfEven(t.frac.num * p.init, t.frac.den)
           lots == MinOf(round, p.lots)
           done == [p EXCEPT !.parts[k].filled = TRUE]
           slice == IF p.lots - lots < MinSteps THEN p.lots ELSE lots
           q == Partial(p, k, close)
<1>1. /\ PartOK(t) /\ p.init \in Nat /\ p.lots \in Nat /\ DOMAIN p = PosFields
      /\ DOMAIN p.parts = 1 .. Len(p.parts) /\ Len(p.parts) \in Nat
  BY DEF PosOK, Terms, Slices
<1>2. lots \in Nat /\ lots <= p.lots
  <2>1. t.frac.num * p.init \in Nat
    BY <1>1, ProductType DEF PartOK
  <2>2. round \in Nat
    BY <1>1, <2>1, RoundType DEF PartOK
  <2> HIDE DEF round
  <2> QED BY <1>1, <2>2 DEF MinOf
<1>3. /\ done.parts = [p.parts EXCEPT ![k].filled = TRUE]
      /\ SameTerms(p, done) /\ done.modified = p.modified
      /\ done.lots = p.lots /\ done.closed = p.closed /\ done.pnl = p.pnl
  BY <1>1 DEF SameTerms, PosFields
<1>4. PosOK(done) /\ Len(done.parts) = Len(p.parts)
  <2> DEFINE ps == [p.parts EXCEPT ![k].filled = TRUE]
  <2>1. DOMAIN ps = 1 .. Len(p.parts)
    BY <1>1
  <2>2. Len(ps) = Len(p.parts)
    BY <1>1, <2>1
  <2>3. \A j \in 1 .. Len(p.parts) : PartOK(ps[j])
    BY <1>1 DEF PosOK, Slices, PartOK
  <2> HIDE DEF ps
  <2>4. Slices(done)
    BY <1>3, <2>1, <2>2, <2>3 DEF PosOK, Slices, SameTerms, ps
  <2>5. Terms(done)
    BY <1>3, TermsCarry DEF PosOK
  <2> QED BY <1>3, <2>2, <2>4, <2>5 DEF PosOK, ps
<1>5. q = p \/ q = done \/ (q = AddLeg(done, slice, ExitFill(p.dir, close)) /\ ~(lots < MinSteps))
  BY DEF Partial
<1>6. CASE q = p
  BY <1>6 DEF SameTerms
<1>7. CASE q = done
  BY <1>3, <1>4, <1>7
<1>8. CASE q = AddLeg(done, slice, ExitFill(p.dir, close)) /\ ~(lots < MinSteps)
  <2>1. ShortOfStop(done, close) /\ done.dir = p.dir
    BY <1>3 DEF SameTerms, ShortOfStop
  <2>2. /\ ExitFill(done.dir, close) \in Int
        /\ done.dir * (ExitFill(done.dir, close) - done.entry)
             >= -(done.risk + HalfSpread + SlipPts)
    BY <1>4, <2>1, ExitWithin DEF PosOK
  <2> HIDE DEF done, lots
  <2>3. slice \in Nat /\ slice <= p.lots /\ (p.lots - slice = 0 \/ p.lots - slice >= MinSteps)
    BY <1>1, <1>2, SizingAssumption
  <2> HIDE DEF slice
  <2>4. done.lots - MinOf(slice, done.lots) = 0 \/ done.lots - MinOf(slice, done.lots) >= MinSteps
    BY <1>1, <1>3, <2>3 DEF MinOf
  <2> DEFINE r == AddLeg(done, slice, ExitFill(done.dir, close))
  <2>5. /\ PosOK(r) /\ SameTerms(done, r) /\ r.parts = done.parts
        /\ r.modified = done.modified
    BY <1>4, <2>2, <2>3, <2>4, LegKeeps
  <2>6. q = r
    BY <1>8, <2>1
  <2> HIDE DEF r, q
  <2>7. SameTerms(p, r)
    BY <1>3, <2>5 DEF SameTerms
  <2> QED BY <1>3, <1>4, <2>5, <2>6, <2>7 DEF q
<1> QED BY <1>5, <1>6, <1>7, <1>8

\* The recursion over the targets.
Chain(p, close, h, n) ==
  h = [k \in 0 .. n |-> IF k = 0 THEN p ELSE Partial(h[k - 1], k, close)]

LEMMA ChainExists ==
  ASSUME NEW p, NEW close
  PROVE  \A n \in Nat : \E h : Chain(p, close, h, n)
<1> DEFINE S == {n \in Nat : \E h : Chain(p, close, h, n)}
<1>1. 0 \in S
  <2>1. Chain(p, close, [k \in 0 .. 0 |-> p], 0)
    BY DEF Chain
  <2> QED BY <2>1
<1>2. ASSUME NEW n \in Nat, n \in S PROVE n + 1 \in S
  <2>1. PICK h : Chain(p, close, h, n)
    BY <1>2
  <2> DEFINE g == [k \in 0 .. n + 1 |->
                     IF k = n + 1 THEN Partial(h[n], n + 1, close) ELSE h[k]]
  <2>2. \A k \in 0 .. n : g[k] = h[k]
    OBVIOUS
  <2>3. \A k \in 0 .. n : h[k] = IF k = 0 THEN p ELSE Partial(h[k - 1], k, close)
    BY <2>1 DEF Chain
  <2>4. g[n + 1] = Partial(g[n], n + 1, close)
    BY <2>2
  <2>5. \A k \in 0 .. n + 1 : g[k] = IF k = 0 THEN p ELSE Partial(g[k - 1], k, close)
    <3> SUFFICES ASSUME NEW k \in 0 .. n + 1
                 PROVE  g[k] = IF k = 0 THEN p ELSE Partial(g[k - 1], k, close)
      OBVIOUS
    <3>1. CASE k = n + 1
      BY <2>4, <3>1
    <3>2. CASE k = 0
      BY <2>2, <2>3, <3>2
    <3>3. CASE k \in 1 .. n
      <4>1. k - 1 \in 0 .. n /\ k \in 0 .. n /\ k # 0
        BY <3>3
      <4>2. g[k] = h[k] /\ g[k - 1] = h[k - 1]
        BY <2>2, <4>1
      <4> HIDE DEF g
      <4> QED BY <2>3, <4>1, <4>2
    <3> QED BY <3>1, <3>2, <3>3
  <2>6. g = [k \in 0 .. n + 1 |-> g[k]]
    OBVIOUS
  <2> HIDE DEF g
  <2>7. Chain(p, close, g, n + 1)
    BY <2>5, <2>6, Zenon DEF Chain
  <2> QED BY <2>7
<1> HIDE DEF S
<1>3. Nat \subseteq S
  BY <1>1, <1>2, UpFromZero
<1> QED BY <1>3 DEF S

\* All the partials of a bar keep the position.
LEMMA PartialsKeep ==
  ASSUME NEW p, PosOK(p), NEW close \in Int, ShortOfStop(p, close)
  PROVE  LET q == Partials(p, close)
         IN  PosOK(q) /\ SameTerms(p, q) /\ q.modified = p.modified
<1> DEFINE len == Len(p.parts)
           after == CHOOSE h : h = [k \in 0 .. len |->
                                      IF k = 0 THEN p ELSE Partial(h[k - 1], k, close)]
<1>1. len \in Nat
  BY DEF PosOK, Slices
<1>2. Chain(p, close, after, len)
  <2>1. \E h : Chain(p, close, h, len)
    BY <1>1, ChainExists
  <2> QED BY <2>1 DEF Chain
<1>3. Partials(p, close) = after[len]
  BY DEF Partials
<1> HIDE DEF after
<1>4. \A k \in 0 .. len : after[k] = IF k = 0 THEN p ELSE Partial(after[k - 1], k, close)
  BY <1>2 DEF Chain
<1> HIDE DEF len
<1> DEFINE Keeps(q) == PosOK(q) /\ SameTerms(p, q) /\ Len(q.parts) = len
                       /\ q.modified = p.modified
           S == {k \in Nat : k <= len => Keeps(after[k])}
<1>5. 0 \in S
  <2>1. after[0] = p
    BY <1>1, <1>4
  <2> QED BY <2>1 DEF SameTerms, len
<1>6. ASSUME NEW k \in Nat, k \in S PROVE k + 1 \in S
  <2> SUFFICES ASSUME k + 1 <= len PROVE Keeps(after[k + 1])
    OBVIOUS
  <2> DEFINE q == after[k]
  <2>1. Keeps(q) /\ k + 1 \in 1 .. len
    BY <1>1, <1>6
  <2>2. after[k + 1] = Partial(q, k + 1, close)
    <3>1. k + 1 \in 0 .. len /\ k + 1 # 0 /\ k + 1 - 1 = k
      BY <1>1
    <3> QED BY <1>4, <3>1
  <2> HIDE DEF q
  <2>3. ShortOfStop(q, close)
    BY <2>1 DEF ShortOfStop, SameTerms
  <2> DEFINE r == Partial(q, k + 1, close)
  <2>4. /\ PosOK(r) /\ SameTerms(q, r) /\ Len(r.parts) = Len(q.parts)
        /\ r.modified = q.modified
    BY <2>1, <2>3, PartialKeeps
  <2> HIDE DEF r
  <2>5. SameTerms(p, r)
    BY <2>1, <2>4 DEF SameTerms
  <2> QED BY <2>1, <2>2, <2>4, <2>5 DEF r
<1> HIDE DEF S
<1>7. Nat \subseteq S
  BY <1>5, <1>6, UpFromZero
<1> QED BY <1>1, <1>3, <1>7 DEF S

-----------------------------------------------------------------------------
(* The stop.                                                               *)

\* The stop stays or is tightened, but for the break-even move: from there it is
\* not behind the entry.
Retreats(p, q) ==
  \/ p.dir * (q.sl - p.sl) >= 0
  \/ p.moved # TRUE /\ q.moved = TRUE /\ p.dir * (q.sl - p.entry) >= 0

\* Break-even and trail: the same slices under a stop that retreats at most once.
LEMMA ManagedKeeps ==
  ASSUME NEW p, PosOK(p), NEW close \in Int, ShortOfStop(p, close), i \in Nat
  PROVE  LET q == Managed(p, close)
         IN  /\ PosOK(q)
             /\ q.dir = p.dir /\ q.init = p.init /\ q.usd = p.usd /\ q.entry = p.entry
             /\ Retreats(p, q)
<1> DEFINE q == Partials(p, close)
           r == BreakEven(q, close)
           s == Trail(r, close)
<1>1. PosOK(q) /\ SameTerms(p, q)
  BY PartialsKeep
<1> HIDE DEF q
<1> USE DEF PosOK, Terms
<1>2. /\ PosOK(r) /\ DOMAIN r = PosFields
      /\ r.dir = p.dir /\ r.init = p.init /\ r.usd = p.usd /\ r.entry = p.entry
      /\ Retreats(p, r)
  <2>1. q.dir = p.dir /\ q.init = p.init /\ q.usd = p.usd /\ q.entry = p.entry /\ q.sl = p.sl
        /\ q.moved = p.moved
    BY <1>1 DEF SameTerms
  <2>2. CASE r = q
    <3>1. p.dir * (q.sl - p.sl) >= 0
      BY <2>1
    <3> HIDE DEF r
    <3> QED BY <1>1, <2>1, <2>2, <3>1 DEF Retreats
  <2>3. CASE r = [q EXCEPT !.sl = q.entry, !.moved = TRUE] /\ q.moved # TRUE
    <3>1. /\ DOMAIN r = PosFields /\ r.sl = q.entry /\ r.moved = TRUE
          /\ r.dir = q.dir /\ r.entry = q.entry /\ r.tp = q.tp /\ r.init = q.init
          /\ r.risk = q.risk /\ r.be = q.be /\ r.usd = q.usd /\ r.trail = q.trail
          /\ r.lots = q.lots /\ r.closed = q.closed /\ r.pnl = q.pnl /\ r.parts = q.parts
      BY <1>1, <2>3 DEF PosFields
    <3>2. Slices(r)
      BY <1>1, <3>1 DEF Slices
    <3>3. p.dir * (r.sl - p.entry) >= 0
      BY <1>1, <2>1, <3>1
    <3>4. Terms(r)
      <4>1. /\ r.dir \in {1, -1} /\ r.sl \in Int /\ r.entry \in Int /\ r.risk \in Nat
            /\ r.sl = r.entry
        BY <1>1, <3>1
      <4>2. r.dir * (r.sl - r.entry) >= -r.risk
        BY <4>1
      <4>3. /\ r.tp \in Int /\ r.init \in Nat /\ r.be \in Nat
            /\ r.usd = r.risk * Value * r.init
            /\ r.dir * (r.tp - r.entry) >= -(HalfSpread + SlipPts)
            /\ r.trail # NoTrail => r.trail.step \in Nat /\ r.trail.distance \in Int
        BY <1>1, <3>1
      <4> HIDE DEF r
      <4> QED BY <3>1, <4>1, <4>2, <4>3, Zenon
    <3> HIDE DEF r
    <3> QED BY <2>1, <2>3, <3>1, <3>2, <3>3, <3>4 DEF Retreats
  <2> QED BY <2>2, <2>3 DEF BreakEven
<1> HIDE DEF r
<1>3. /\ PosOK(s)
      /\ s.dir = p.dir /\ s.init = p.init /\ s.usd = p.usd /\ s.entry = p.entry
      /\ Retreats(p, s)
  <2>1. CASE s = r
    BY <1>2, <2>1
  <2> DEFINE candidate == close - r.dir * r.trail.distance
  <2>2. CASE /\ s = [r EXCEPT !.sl = candidate, !.modified = i]
             /\ r.trail # NoTrail /\ r.dir * (candidate - r.sl) >= r.trail.step
    <3>1. r.trail.step \in Nat /\ r.trail.distance \in Int
      BY <1>2, <2>2
    <3>2. candidate \in Int /\ r.dir * (candidate - r.sl) >= 0
      BY <1>2, <2>2, <3>1
    <3> HIDE DEF candidate
    <3>4. /\ DOMAIN s = PosFields /\ s.sl = candidate /\ s.moved = r.moved
          /\ s.dir = r.dir /\ s.entry = r.entry /\ s.tp = r.tp /\ s.init = r.init
          /\ s.risk = r.risk /\ s.be = r.be /\ s.usd = r.usd /\ s.trail = r.trail
          /\ s.lots = r.lots /\ s.closed = r.closed /\ s.pnl = r.pnl /\ s.parts = r.parts
      BY <1>2, <2>2 DEF PosFields
    <3>5. Slices(s)
      BY <1>2, <3>4 DEF Slices
    <3>6. s.dir * (s.sl - s.entry) >= -s.risk
      <4>1. /\ r.dir \in {1, -1} /\ r.sl \in Int /\ r.entry \in Int /\ r.risk \in Nat
            /\ r.dir * (r.sl - r.entry) >= -r.risk
        BY <1>2
      <4> QED BY <3>2, <3>4, <4>1
    <3>7. Terms(s)
      BY <1>2, <3>2, <3>4, <3>6
    <3>8. Retreats(p, s)
      <4>1. /\ p.dir \in {1, -1} /\ p.sl \in Int /\ p.entry \in Int
            /\ r.sl \in Int /\ r.dir = p.dir
        BY <1>2
      <4>2. CASE p.dir * (r.sl - p.sl) >= 0
        <5>1. p.dir * (s.sl - p.sl) >= 0
          BY <3>2, <3>4, <4>1, <4>2
        <5> QED BY <5>1 DEF Retreats
      <4>3. CASE p.moved # TRUE /\ r.moved = TRUE /\ p.dir * (r.sl - p.entry) >= 0
        <5>1. p.dir * (s.sl - p.entry) >= 0
          BY <3>2, <3>4, <4>1, <4>3
        <5> QED BY <3>4, <4>3, <5>1 DEF Retreats
      <4> QED BY <1>2, <4>2, <4>3 DEF Retreats
    <3> QED BY <1>2, <3>4, <3>5, <3>7, <3>8
  <2> QED BY <2>1, <2>2 DEF Trail
<1> HIDE DEF s
<1>4. q.dir = p.dir /\ q.init = p.init /\ q.usd = p.usd /\ q.entry = p.entry /\ q.sl = p.sl
  BY <1>1 DEF SameTerms
<1>5. p.dir * (q.sl - p.sl) >= 0
  BY <1>4
<1>7. Retreats(p, q)
  BY <1>5 DEF Retreats
<1>6. Managed(p, close) = q \/ Managed(p, close) = s
  BY DEF Managed, q, r, s
<1> QED BY <1>1, <1>3, <1>4, <1>6, <1>7

-----------------------------------------------------------------------------
(* Signals, and the positions they open.                                   *)

PlanOK(plan) ==
  /\ Len(plan.targets) \in Nat /\ \A k \in 1 .. Len(plan.targets) : plan.targets[k] \in Nat
  /\ Len(plan.fractions) \in Nat
  /\ \A k \in 1 .. Len(plan.fractions) :
       LET f == plan.fractions[k] IN f.num \in Nat /\ f.den \in Nat /\ f.den > 0
  /\ plan.be \in Nat
  /\ plan.trail # NoTrail => plan.trail.step \in Nat /\ plan.trail.distance \in Int

SigOK(sig) ==
  /\ sig.dir \in {1, -1} /\ sig.level \in Int /\ sig.sl \in Int
  /\ sig.dir * (sig.level - sig.sl) >= 0
  /\ PlanOK(sig.plan)

LEMMA PlansOK == \A plan \in Plans : PlanOK(plan)
<1>2. ASSUME NEW be \in 0 .. 2, NEW after \in {1, 2}
      PROVE  PlanOK(Plan(<<>>, <<>>, be, StopTrail(after)))
  <2>1. StopTrail(after).step \in Nat /\ StopTrail(after).distance \in Int
    BY BacktestAssumption DEF StopTrail
  <2> QED BY <2>1 DEF PlanOK, Plan
<1>3. \A targets \in {<<2>>, <<1, 2>>} : PlanOK(Plan(targets, <<>>, 0, NoTrail))
  BY DEF PlanOK, Plan
<1>4. PlanOK(Plan(<<1, 2, 3>>, <<[num |-> 1, den |-> 2]>>, 1, NoTrail))
  BY DEF PlanOK, Plan
<1> QED BY <1>2, <1>3, <1>4 DEF Plans, Trailing

LEMMA StopSignalOK ==
  ASSUME NEW dir \in {1, -1}, NEW plan \in Plans
  PROVE  SigOK(Signal(dir, "stop", dir * Unit, 0, plan))
BY PlansOK, BacktestAssumption DEF SigOK, Signal

LEMMA EntriesOK ==
  ASSUME NEW close \in Int, NEW sig \in Entries(close)
  PROVE  SigOK(sig) /\ sig.kind \in {"stop", "market"}
<1>1. CASE sig \in {Signal(dir, "stop", dir * Unit, 0, plan) : dir \in {1, -1}, plan \in Plans}
  BY <1>1, StopSignalOK DEF Signal
<1>2. ASSUME NEW dir \in {1, -1}, NEW plan \in Plans,
             sig = Signal(dir, "market", close, close - dir * Unit, plan)
      PROVE  SigOK(sig) /\ sig.kind \in {"stop", "market"}
  BY <1>2, PlansOK, BacktestAssumption DEF SigOK, Signal
<1>3. CASE sig \in {Signal(dir, "market", close, close - dir * Unit, plan) :
                      dir \in {1, -1}, plan \in IF close = 0 THEN Trailing ELSE {}}
  BY <1>2, <1>3 DEF Plans
<1> QED BY <1>1, <1>3 DEF Entries

LEMMA Distance ==
  ASSUME NEW dir \in {1, -1}, NEW a \in Int, NEW b \in Int, dir * (a - b) >= 0
  PROVE  Abs(a - b) \in Nat /\ dir * (b - a) = -Abs(a - b)
<1>1. CASE dir = 1
  BY <1>1 DEF Abs
<1>2. CASE dir = -1
  BY <1>2 DEF Abs
<1> QED BY <1>1, <1>2

LEMMA PositionOpens ==
  ASSUME NEW sig, SigOK(sig), NEW fill \in Int, NEW lots \in Nat, lots >= MinSteps,
         sig.dir * (fill - sig.level) >= 0,
         sig.dir * (fill - sig.level) <= HalfSpread + SlipPts
  PROVE  LET p == MakePosition(sig, fill, lots)
         IN  PosOK(p) /\ p.pnl = 0 /\ p.lots = lots
<1> DEFINE n == Len(sig.plan.targets)
           price == [k \in 1 .. n |-> sig.level + sig.dir * Unit * sig.plan.targets[k]]
           frac(k) == IF k <= Len(sig.plan.fractions)
                      THEN sig.plan.fractions[k] ELSE [num |-> 1, den |-> n]
           parts == [k \in 1 .. n - 1 |->
                       [price |-> price[k], filled |-> FALSE, frac |-> frac(k)]]
           risk == Abs(fill - sig.sl)
           tp == IF n > 0 THEN price[n] ELSE fill + sig.dir * FarTarget
           p == MakePosition(sig, fill, lots)
<1>1. /\ sig.dir \in {1, -1} /\ sig.level \in Int /\ sig.sl \in Int /\ n \in Nat
      /\ sig.dir * (sig.level - sig.sl) >= 0
      /\ HalfSpread \in Nat /\ SlipPts \in Nat /\ Unit \in Nat /\ FarTarget \in Nat
      /\ Value \in Nat /\ MinSteps > 0
  BY BacktestAssumption, SizingAssumption DEF SigOK, PlanOK
<1>2. /\ risk \in Nat /\ sig.dir * (sig.sl - fill) = -risk
  <2> HIDE DEF n, price, frac, parts, tp, p
  <2>1. sig.dir * (fill - sig.sl) >= 0
    BY <1>1
  <2> QED BY <1>1, <2>1, Distance
<1>3. \A k \in 1 .. n : /\ price[k] \in Int
                        /\ sig.dir * (price[k] - sig.level) >= 0
  <2> SUFFICES ASSUME NEW k \in 1 .. n
               PROVE  price[k] \in Int /\ sig.dir * (price[k] - sig.level) >= 0
    OBVIOUS
  <2> DEFINE far == Unit * sig.plan.targets[k]
  <2>1. sig.plan.targets[k] \in Nat
    BY DEF SigOK, PlanOK
  <2>2. far \in Nat
    BY <1>1, <2>1, ProductType
  <2>3. price[k] = sig.level + sig.dir * far
    BY <1>1, <2>1
  <2> HIDE DEF far, price
  <2> QED BY <1>1, <2>2, <2>3
<1> HIDE DEF n, price
<1>4. tp \in Int /\ sig.dir * (tp - fill) >= -(HalfSpread + SlipPts)
  <2>1. CASE n > 0
    <3> DEFINE last_ == price[n]
    <3>1. n \in 1 .. n
      BY <1>1, <2>1
    <3>2. last_ \in Int /\ sig.dir * (last_ - sig.level) >= 0
      BY <1>3, <3>1
    <3>3. tp = last_
      BY <2>1
    <3> HIDE DEF last_, tp
    <3> QED BY <1>1, <3>2, <3>3
  <2>2. CASE ~(n > 0)
    BY <1>1, <2>2
  <2> QED BY <2>1, <2>2
<1>5. \A k \in 1 .. n - 1 : PartOK(parts[k])
  <2> SUFFICES ASSUME NEW k \in 1 .. n - 1 PROVE PartOK(parts[k])
    OBVIOUS
  <2>1. frac(k).num \in Nat /\ frac(k).den \in Nat /\ frac(k).den > 0
    BY <1>1 DEF SigOK, PlanOK
  <2>2. price[k] \in Int
    <3>1. k \in 1 .. n
      BY <1>1
    <3> QED BY <1>3, <3>1
  <2> HIDE DEF frac
  <2> QED BY <2>1, <2>2 DEF PartOK
<1>6. /\ DOMAIN parts = 1 .. Len(parts) /\ Len(parts) \in Nat
      /\ \A k \in 1 .. Len(parts) : PartOK(parts[k])
  <2>1. CASE n = 0
    <3>1. DOMAIN parts = {} /\ 1 .. n - 1 = 1 .. 0
      BY <2>1
    <3> HIDE DEF parts
    <3>2. Len(parts) = 0
      BY <3>1
    <3> QED BY <3>1, <3>2
  <2>2. CASE n > 0
    <3>1. DOMAIN parts = 1 .. n - 1 /\ n - 1 \in Nat
      BY <1>1, <2>2
    <3>2. Len(parts) = n - 1
      BY <3>1
    <3> HIDE DEF parts
    <3> QED BY <1>5, <3>1, <3>2
  <2>3. n = 0 \/ n > 0
    BY <1>1
  <2> HIDE DEF parts
  <2> QED BY <2>1, <2>2, <2>3
<1>7. p = [NoPos EXCEPT
             !.dir = sig.dir, !.entry = fill, !.init = lots, !.lots = lots,
             !.sl = sig.sl, !.risk = risk, !.usd = risk * Value * lots, !.tp = tp,
             !.parts = parts, !.be = sig.plan.be, !.trail = sig.plan.trail,
             !.modified = i]
  BY DEF MakePosition, n, price
<1> HIDE DEF risk, tp, parts, p, n
<1>8. /\ DOMAIN p = PosFields
      /\ p.dir = sig.dir /\ p.entry = fill /\ p.init = lots /\ p.lots = lots
      /\ p.sl = sig.sl /\ p.risk = risk /\ p.usd = risk * Value * lots /\ p.tp = tp
      /\ p.parts = parts /\ p.be = sig.plan.be /\ p.trail = sig.plan.trail
      /\ p.moved = FALSE /\ p.closed = 0 /\ p.pnl = 0
  BY <1>7 DEF NoPos, PosFields
<1>9. Terms(p)
  <2>1. /\ p.be \in Nat
        /\ p.trail # NoTrail => p.trail.step \in Nat /\ p.trail.distance \in Int
    BY <1>8 DEF SigOK, PlanOK
  <2>2. /\ p.dir \in {1, -1} /\ p.entry \in Int /\ p.sl \in Int /\ p.tp \in Int
        /\ p.init \in Nat /\ p.risk \in Nat /\ p.usd = p.risk * Value * p.init
    BY <1>1, <1>2, <1>4, <1>8
  <2>3. p.dir * (p.sl - p.entry) >= -p.risk
    BY <1>2, <1>8
  <2>4. p.dir * (p.tp - p.entry) >= -(HalfSpread + SlipPts)
    BY <1>4, <1>8
  <2> QED BY <1>8, <2>1, <2>2, <2>3, <2>4, Zenon DEF Terms
<1>10. Slices(p)
  <2>1. LotLoss(p.risk) \in Nat
    BY <1>2, <1>8, LotLossType
  <2>2. p.pnl >= -(p.closed * LotLoss(p.risk))
    BY <1>8, <2>1
  <2> QED BY <1>6, <1>8, <2>2 DEF Slices
<1>11. p.usd \in Nat
  <2>1. risk * Value \in Nat
    BY <1>1, <1>2, ProductType
  <2> QED BY <1>8, <2>1, ProductType
<1>12. p # NoPos
  <2>1. NoPos.dir = 0 /\ p.dir # 0
    BY <1>1, <1>8 DEF NoPos
  <2> QED BY <2>1
<1> QED BY <1>8, <1>9, <1>10, <1>11, <1>12 DEF PosOK, p

LEMMA StopFillCosts ==
  ASSUME NEW dir \in {1, -1}, NEW level \in Int
  PROVE  /\ StopFill(dir, level) \in Int
         /\ dir * (StopFill(dir, level) - level) >= 0
         /\ dir * (StopFill(dir, level) - level) <= HalfSpread + SlipPts
BY BacktestAssumption DEF StopFill

LEMMA EntryFillCosts ==
  ASSUME NEW dir \in {1, -1}, NEW level \in Int
  PROVE  /\ EntryFill(dir, level) \in Int
         /\ dir * (EntryFill(dir, level) - level) >= 0
         /\ dir * (EntryFill(dir, level) - level) <= HalfSpread + SlipPts
BY BacktestAssumption DEF EntryFill

\* No size lies strictly between nothing and the broker's minimum.
LEMMA LotsFloor ==
  ASSUME NEW f, f.num \in Nat, f.den \in Nat, f.den > 0,
         NEW equity \in Int, NEW denom \in Nat
  PROVE  LotsForFraction(f, equity, denom) = 0
         \/ LotsForFraction(f, equity, denom) >= MinSteps
<1> DEFINE steps == (f.num * equity) \div (f.den * denom)
<1>1. CASE denom <= 0
  BY <1>1, SizingAssumption DEF LotsForFraction
<1>2. CASE denom > 0
  <2>1. steps \in Int
    <3>1. f.den * denom \in Nat /\ f.den * denom > 0
      BY <1>2, ProductPositive
    <3>2. f.num * equity \in Int
      OBVIOUS
    <3> QED BY <3>1, <3>2, QuotientType
  <2>2. LotsForFraction(f, equity, denom) =
          IF f.num <= 0 \/ steps < MinSteps THEN 0
          ELSE IF steps > MaxSteps THEN MaxSteps ELSE steps
    BY <1>2 DEF LotsForFraction
  <2> HIDE DEF steps
  <2> QED BY <2>1, <2>2, SizingAssumption
<1> QED BY <1>1, <1>2

\* What the Governor approves is at least the broker's minimum.
LEMMA SizedLots ==
  ASSUME NEW sig, NEW d, NEW pendings, Sized(sig, d, pendings).approved,
         balance \in Int, sig.level \in Int, sig.sl \in Int
  PROVE  /\ Sized(sig, d, pendings).steps \in Nat
         /\ Sized(sig, d, pendings).steps >= MinSteps
         /\ EffectiveKillswitch(d, Account) \notin {"halted", "flatten"}
<1> DEFINE s == [stop |-> Abs(sig.level - sig.sl) * Value, feedOk |-> TRUE,
                 news |-> FALSE, gap |-> FALSE, hedge |-> FALSE,
                 martingale |-> FALSE, pendings |-> pendings, bias |-> "normal"]
           dec == EvaluateEntry(s, Account, d)
<1>1. s.stop \in Nat
  <2>1. Abs(sig.level - sig.sl) \in Nat /\ Value \in Nat
    BY BacktestAssumption DEF Abs
  <2> QED BY <2>1, ProductType
<1> HIDE DEF s
<1>2. Sized(sig, d, pendings) = dec
  BY DEF Sized, s
<1>3. /\ dec.steps > 0 /\ EffectiveKillswitch(d, Account) \notin {"halted", "flatten"}
  BY <1>2, ApprovedEntry
<1>4. dec.steps \in Nat
  BY <1>1, EntryTypes DEF Account
<1>5. dec.steps = 0 \/ dec.steps >= MinSteps
  <2> DEFINE f == EffectiveRiskFraction(s, Account, EffectiveKillswitch(d, Account))
             steps == LotsForFraction(f, balance, Denom(s.stop))
  <2>1. dec.steps \in {0, steps}
    BY DEF EvaluateEntry, Veto, Account
  <2>2. f.num \in Nat /\ f.den \in Nat /\ f.den > 0 /\ Denom(s.stop) \in Nat
    BY <1>1, FractionType, DenomType DEF Account
  <2> HIDE DEF f, dec
  <2>3. steps = 0 \/ steps >= MinSteps
    BY <2>2, LotsFloor
  <2> QED BY <2>1, <2>3
<1> HIDE DEF dec
<1>6. dec.steps >= MinSteps
  BY <1>3, <1>4, <1>5, SizingAssumption
<1> QED BY <1>2, <1>3, <1>4, <1>6

-----------------------------------------------------------------------------
(* The inductive invariant.                                                *)

DayFields == {"b0", "requests", "ks", "openRisk", "trades", "median", "reset"}

Calm(d, equity) ==
  EffectiveKillswitch(d, [equity |-> equity, fresh |-> TRUE]) \notin {"halted", "flatten"}

LegOK(s) == s = NoSide \/ (SigOK(s.sig) /\ s.lots \in Nat /\ s.lots >= MinSteps)

\* A trade is closed in full, and its loss is bounded unless the data ended first.
TradeOK(t) ==
  /\ t.closed = t.init
  /\ t.how # "eod" =>
       t.pnl >= -(t.usd + t.init * (Value * (HalfSpread + SlipPts) + Commission))

OpenOK(p) == PosOK(p) /\ p.lots >= MinSteps

\* An armed pair rests only while the account is flat and where it was sized: no
\* money moves between the arming and the fill, and a new day drops the pair.
ArmedOK(a, p, d, equity) ==
  a = NoArm \/ (p = NoPos /\ Calm(d, equity) /\ LegOK(a.long) /\ LegOK(a.short))

\* The data ends once; until then the open risk is that of the position.
RiskOK(p, d) ==
  \/ trade.how = "eod" /\ p = NoPos /\ i = MaxBar
  \/ trade.how # "eod" /\ d.openRisk = p.usd

BInv ==
  /\ i \in Nat /\ last \in Int /\ balance \in Int /\ booked \in Int
  /\ DOMAIN day = DayFields /\ tracker.b0 = day.b0
  /\ balance = Initial + booked + pos.pnl
  /\ pos = NoPos \/ OpenOK(pos)
  /\ TradeOK(trade)
  /\ RiskOK(pos, day)
  /\ ArmedOK(armed, pos, day, balance)

\* What no step may do: take the stop of the open position back but to break even,
\* or open one where
\* the Governor would halt.
StopHeld == pos # NoPos /\ pos'.dir = pos.dir => Retreats(pos, pos')

OpensCalm == pos = NoPos /\ pos' # NoPos => Calm(day', balance)

Safe == BInv' /\ StopHeld /\ OpensCalm

LEMMA NoPosFacts ==
  NoPos.dir = 0 /\ NoPos.pnl = 0 /\ NoPos.usd = 0 /\ NoPos.sl = 0
BY DEF NoPos

LEMMA OpenFacts ==
  ASSUME NEW p, PosOK(p)
  PROVE  /\ p.dir \in {1, -1} /\ p.pnl \in Int /\ p.usd \in Nat /\ p # NoPos
         /\ p.sl \in Int /\ p.entry \in Int
<1>1. /\ p.dir \in {1, -1} /\ p.pnl \in Int /\ p.sl \in Int /\ p.entry \in Int
      /\ p.risk \in Nat /\ p.init \in Nat /\ p.usd = p.risk * Value * p.init
  BY DEF PosOK, Terms, Slices
<1>2. p.usd \in Nat
  <2>1. p.risk * Value \in Nat
    BY <1>1, ProductType, BacktestAssumption
  <2> QED BY <1>1, <2>1, ProductType
<1>3. p # NoPos
  <2>1. p.dir # NoPos.dir
    BY <1>1, NoPosFacts
  <2> QED BY <2>1
<1> QED BY <1>1, <1>2, <1>3

LEMMA PosTypes ==
  ASSUME BInv
  PROVE  pos.pnl \in Int /\ pos.usd \in Nat /\ (pos # NoPos => armed = NoArm)
BY OpenFacts, NoPosFacts DEF BInv, OpenOK, ArmedOK

LEMMA BarTypes ==
  /\ \A close \in Grid : close \in Int
  /\ \A b \in Bars : /\ b.low \in Int /\ b.high \in Int /\ b.close \in Int
                     /\ b.close \in Grid /\ b.low <= b.close /\ b.close <= b.high
<1>1. \A close \in Grid : close \in Int
  BY BacktestAssumption DEF Grid
<1>2. \A b \in Bars : /\ b.low \in Grid /\ b.high \in Grid /\ b.close \in Grid
                      /\ b.low <= b.close /\ b.close <= b.high
  BY DEF Bars
<1> QED BY <1>1, <1>2

\* A new day takes a new baseline and drops the pair; the open risk stays.
LEMMA DayPair ==
  ASSUME BInv
  PROVE  /\ DOMAIN Day = DayFields
         /\ Day.openRisk = day.openRisk
         /\ Day.b0 = IF NewDay THEN balance ELSE tracker.b0
         /\ Pair # NoArm => Day = day /\ Pair = armed
         /\ ArmedOK(Pair, pos, Day, balance)
<1>1. CASE NewDay
  <2>1. Day = ApplyDailyReset(day, balance, i \div BarsPerDay) /\ Pair = NoArm
    BY <1>1 DEF Day, Pair
  <2>2. DOMAIN Day = DayFields /\ Day.openRisk = day.openRisk /\ Day.b0 = balance
    BY <2>1 DEF ApplyDailyReset, BInv, DayFields
  <2> QED BY <1>1, <2>1, <2>2 DEF ArmedOK
<1>2. CASE ~NewDay
  BY <1>2 DEF Day, Pair, BInv
<1> QED BY <1>1, <1>2

\* The end of an iteration, whatever happened in it.
LEMMA BarKeeps ==
  ASSUME BInv, NEW close \in Int, NEW p, NEW won \in Int, NEW d, NEW a,
         BarDone(close, p, won, d, a),
         DOMAIN d = DayFields, d.b0 = Day.b0, d.openRisk = p.usd,
         p = NoPos \/ OpenOK(p),
         booked' \in Int, balance + won = Initial + booked' + p.pnl,
         TradeOK(trade'), trade'.how # "eod",
         ArmedOK(a, p, d, balance + won)
  PROVE  BInv'
<1>1. /\ i' = i + 1 /\ pos' = p /\ armed' = a /\ day' = d /\ balance' = balance + won
      /\ last' = IF p = NoPos THEN 0 ELSE close
      /\ tracker'.b0 = IF NewDay THEN balance ELSE tracker.b0
  BY DEF BarDone, Tracked
<1>2. /\ i' \in Nat /\ last' \in Int /\ balance' \in Int
  BY <1>1 DEF BInv
<1>3. DOMAIN day' = DayFields /\ tracker'.b0 = day'.b0
  BY <1>1, DayPair
<1>4. balance' = Initial + booked' + pos'.pnl
  BY <1>1
<1>5. pos' = NoPos \/ OpenOK(pos')
  BY <1>1
<1>6. RiskOK(pos, day)'
  BY <1>1 DEF RiskOK
<1>7. ArmedOK(armed', pos', day', balance')
  BY <1>1
<1> QED BY <1>2, <1>3, <1>4, <1>5, <1>6, <1>7, Zenon DEF BInv

\* While bars are left, the data has not ended.
LEMMA Running ==
  ASSUME BInv, i < MaxBar
  PROVE  trade.how # "eod" /\ day.openRisk = pos.usd
BY BacktestAssumption DEF BInv, RiskOK

\* A bar that leaves the money alone.
LEMMA HoldKeeps ==
  ASSUME BInv, NEW close \in Int, NEW p, NEW d, NEW a,
         BarDone(close, p, p.pnl - pos.pnl, d, a), Hold,
         DOMAIN d = DayFields, d.b0 = Day.b0, d.openRisk = p.usd,
         p = NoPos \/ OpenOK(p),
         ArmedOK(a, p, d, balance + (p.pnl - pos.pnl))
  PROVE  BInv'
<1>1. p.pnl \in Int /\ pos.pnl \in Int
  BY OpenFacts, NoPosFacts, PosTypes DEF OpenOK
<1>2. booked' = booked /\ trade' = trade /\ trade.how # "eod"
  BY Running DEF Hold, BarDone
<1>3. /\ p.pnl - pos.pnl \in Int /\ booked' \in Int
      /\ balance + (p.pnl - pos.pnl) = Initial + booked' + p.pnl
  BY <1>1, <1>2, MoneyTypes DEF BInv
<1>4. TradeOK(trade')
  BY <1>2 DEF BInv
<1> QED BY <1>2, <1>3, <1>4, BarKeeps

LEMMA UntouchedHolds ==
  ASSUME BInv, pos' = pos
  PROVE  StopHeld /\ OpensCalm
<1>1. CASE pos = NoPos
  BY <1>1 DEF StopHeld, OpensCalm
<1>2. CASE OpenOK(pos)
  <2>1. pos.dir \in {1, -1} /\ pos.sl \in Int
    BY <1>2, OpenFacts DEF OpenOK
  <2>2. pos.dir * (pos'.sl - pos.sl) >= 0
    BY <2>1
  <2> QED BY <1>2, <2>2, OpenFacts DEF StopHeld, Retreats, OpensCalm, OpenOK
<1> QED BY <1>1, <1>2 DEF BInv

LEMMA WarmupSafe ==
  ASSUME BInv, NEW close \in Grid, Warmup(close)
  PROVE  Safe
<1>1. pos.pnl - pos.pnl = 0 /\ balance + 0 = balance
  BY PosTypes DEF BInv
<1>2. BarDone(close, pos, pos.pnl - pos.pnl, Day, Pair) /\ Hold /\ i < MaxBar
  BY <1>1 DEF Warmup, BarDone
<1>3. BInv'
  BY <1>1, <1>2, HoldKeeps, BarTypes, DayPair, Running DEF BInv
<1>4. pos' = pos
  BY <1>2 DEF BarDone
<1> QED BY <1>3, <1>4, UntouchedHolds DEF Safe

-----------------------------------------------------------------------------
(* The ends of a trade.                                                    *)

LEMMA ClosedBounded ==
  ASSUME NEW p, PosOK(p), p.lots = 0, NEW how
  PROVE  TradeOK(Closed(p, how))
<1>1. /\ p.closed = p.init /\ p.init \in Nat /\ p.risk \in Nat /\ p.pnl \in Int
      /\ p.pnl >= -(p.init * LotLoss(p.risk)) /\ p.usd = p.risk * Value * p.init
  BY DEF PosOK, Terms, Slices
<1> DEFINE costs == HalfSpread + SlipPts
<1>2. costs \in Nat /\ Value \in Nat /\ Commission \in Nat
  BY BacktestAssumption
<1>3. LotLoss(p.risk) = Value * (p.risk + costs) + Commission
  <2>1. p.risk + HalfSpread + SlipPts = p.risk + costs
    BY <1>1, BacktestAssumption
  <2> HIDE DEF costs
  <2> QED BY <2>1 DEF LotLoss
<1> HIDE DEF costs
<1>4. p.init * (Value * (p.risk + costs) + Commission) =
        p.risk * Value * p.init + p.init * (Value * costs + Commission)
  BY <1>1, <1>2, Z3
<1>5. p.pnl >= -(p.usd + p.init * (Value * costs + Commission))
  BY <1>1, <1>3, <1>4
<1> QED BY <1>1, <1>5 DEF TradeOK, Closed, costs

LEMMA FinishSafe ==
  ASSUME BInv, NEW b \in Bars, NEW q, NEW how, how # "eod", pos # NoPos,
         PosOK(q), q.lots = 0, Finish(b, q, how)
  PROVE  Safe
<1> DEFINE d == Released(Day, pos)
<1>1. /\ BarDone(b.close, NoPos, q.pnl - pos.pnl, d, Pair)
      /\ booked' = booked + q.pnl /\ trade' = Closed(q, how) /\ i < MaxBar
  BY DEF Finish, BarDone
<1>2. d.openRisk = 0 /\ d.b0 = Day.b0 /\ DOMAIN d = DayFields
  <2>1. Day.openRisk = pos.usd /\ pos.usd \in Nat
    BY <1>1, DayPair, Running, PosTypes
  <2>2. MaxOf(0, Day.openRisk - pos.usd) = 0
    BY <2>1 DEF MaxOf
  <2> QED BY <2>2, DayPair DEF Released, DayFields
<1>3. Pair = NoArm
  BY DayPair, PosTypes
<1>4. q.pnl \in Int /\ pos.pnl \in Int /\ balance \in Int /\ booked \in Int /\ Initial \in Nat
  BY OpenFacts, PosTypes, MoneyTypes DEF BInv
<1>5. /\ q.pnl - pos.pnl \in Int /\ booked' \in Int
      /\ balance + (q.pnl - pos.pnl) = Initial + booked' + NoPos.pnl
  BY <1>1, <1>4, NoPosFacts DEF BInv
<1>6. TradeOK(trade') /\ trade'.how # "eod"
  BY <1>1, ClosedBounded DEF Closed
<1> HIDE DEF d
<1>7. ArmedOK(Pair, NoPos, d, balance + (q.pnl - pos.pnl))
  BY <1>3 DEF ArmedOK
<1>8. BInv'
  BY <1>1, <1>2, <1>5, <1>6, <1>7, NoPosFacts, BarTypes, BarKeeps
<1>9. pos' = NoPos
  BY <1>1 DEF BarDone
<1> QED BY <1>8, <1>9, OpenFacts, NoPosFacts DEF Safe, StopHeld, OpensCalm, BInv, OpenOK

\* All that is left goes at one price.
LEMMA AllOut ==
  ASSUME BInv, pos # NoPos, NEW exit \in Int,
         pos.dir * (exit - pos.entry) >= -(pos.risk + HalfSpread + SlipPts)
  PROVE  LET q == AddLeg(pos, pos.lots, exit) IN PosOK(q) /\ q.lots = 0
<1>1. PosOK(pos) /\ pos.lots \in Nat
  BY DEF BInv, OpenOK, PosOK, Slices
<1>2. pos.lots - MinOf(pos.lots, pos.lots) = 0
  BY <1>1 DEF MinOf
<1> QED BY <1>1, <1>2, LegKeeps

LEMMA StopOutSafe ==
  ASSUME BInv, NEW b \in Bars, StopOut(b)
  PROVE  Safe
<1> DEFINE exit == StopFill(-pos.dir, pos.sl)
<1>1. pos # NoPos /\ Finish(b, AddLeg(pos, pos.lots, exit), "sl")
  BY DEF StopOut, InPosition
<1>2. exit \in Int /\ pos.dir * (exit - pos.entry) >= -(pos.risk + HalfSpread + SlipPts)
  <2>1. /\ pos.dir \in {1, -1} /\ pos.sl \in Int /\ pos.entry \in Int /\ pos.risk \in Nat
        /\ pos.dir * (pos.sl - pos.entry) >= -pos.risk
    BY <1>1 DEF BInv, OpenOK, PosOK, Terms
  <2> QED BY <2>1, BacktestAssumption DEF StopFill
<1> HIDE DEF exit
<1> QED BY <1>1, <1>2, AllOut, FinishSafe

LEMMA TargetHitSafe ==
  ASSUME BInv, NEW b \in Bars, TargetHit(b)
  PROVE  Safe
<1>1. pos # NoPos /\ Finish(b, AddLeg(pos, pos.lots, pos.tp), "tp")
  BY DEF TargetHit, InPosition
<1>2. pos.tp \in Int /\ pos.dir * (pos.tp - pos.entry) >= -(pos.risk + HalfSpread + SlipPts)
  <2>1. /\ pos.dir \in {1, -1} /\ pos.tp \in Int /\ pos.entry \in Int /\ pos.risk \in Nat
        /\ pos.dir * (pos.tp - pos.entry) >= -(HalfSpread + SlipPts)
    BY <1>1 DEF BInv, OpenOK, PosOK, Terms
  <2> QED BY <2>1, BacktestAssumption
<1> QED BY <1>1, <1>2, AllOut, FinishSafe

\* A bar that has not touched the stop closes on this side of it.
LEMMA ClosesInside ==
  ASSUME BInv, NEW b \in Bars, pos # NoPos, ~HitsStop(b)
  PROVE  PosOK(pos) /\ ShortOfStop(pos, b.close)
<1>1. /\ PosOK(pos) /\ pos.dir \in {1, -1} /\ pos.sl \in Int /\ pos.entry \in Int
      /\ pos.risk \in Nat /\ pos.dir * (pos.sl - pos.entry) >= -pos.risk
  BY DEF BInv, OpenOK, PosOK, Terms
<1>2. /\ b.low \in Int /\ b.high \in Int /\ b.close \in Int
      /\ b.low <= b.close /\ b.close <= b.high
  BY BarTypes
<1>3. CASE pos.dir = 1
  BY <1>1, <1>2, <1>3 DEF HitsStop, ShortOfStop
<1>4. CASE pos.dir = -1
  BY <1>1, <1>2, <1>4 DEF HitsStop, ShortOfStop
<1> QED BY <1>1, <1>3, <1>4

LEMMA StrategyClosesSafe ==
  ASSUME BInv, NEW b \in Bars, StrategyCloses(b)
  PROVE  Safe
<1> DEFINE exit == ExitFill(pos.dir, b.close)
<1>1. /\ pos # NoPos /\ ~HitsStop(b)
      /\ Finish(b, AddLeg(pos, pos.lots, exit), "manage_close")
  BY DEF StrategyCloses, InPosition
<1>2. exit \in Int /\ pos.dir * (exit - pos.entry) >= -(pos.risk + HalfSpread + SlipPts)
  BY <1>1, ClosesInside, BarTypes, ExitWithin DEF PosOK
<1> HIDE DEF exit
<1> QED BY <1>1, <1>2, AllOut, FinishSafe

LEMMA ManageBarSafe ==
  ASSUME BInv, NEW b \in Bars, ManageBar(b)
  PROVE  Safe
<1> DEFINE q == Managed(pos, b.close)
<1>1. /\ pos # NoPos /\ ~HitsStop(b)
      /\ IF q.lots = 0 THEN Finish(b, q, "tp")
         ELSE BarDone(b.close, q, q.pnl - pos.pnl, Day, Pair) /\ Hold
  BY DEF ManageBar, InPosition
<1>2. /\ PosOK(q) /\ q.dir = pos.dir /\ q.usd = pos.usd /\ Retreats(pos, q)
  BY <1>1, ClosesInside, BarTypes, ManagedKeeps DEF BInv
<1> HIDE DEF q
<1>3. CASE q.lots = 0
  BY <1>1, <1>2, <1>3, FinishSafe
<1>4. CASE q.lots # 0
  <2>1. BarDone(b.close, q, q.pnl - pos.pnl, Day, Pair) /\ Hold /\ i < MaxBar
    BY <1>1, <1>4 DEF BarDone
  <2>2. OpenOK(q)
    BY <1>2, <1>4 DEF OpenOK, PosOK, Slices
  <2>3. Pair = NoArm /\ Day.openRisk = q.usd /\ DOMAIN Day = DayFields
    BY <1>1, <1>2, <2>1, DayPair, PosTypes, Running
  <2>4. ArmedOK(Pair, q, Day, balance + (q.pnl - pos.pnl))
    BY <2>3 DEF ArmedOK
  <2>5. BInv'
    BY <2>1, <2>2, <2>3, <2>4, BarTypes, HoldKeeps
  <2>6. pos' = q
    BY <2>1 DEF BarDone
  <2> QED BY <1>1, <1>2, <2>5, <2>6 DEF Safe, StopHeld, OpensCalm
<1> QED BY <1>3, <1>4

-----------------------------------------------------------------------------
(* Flat.                                                                   *)

\* Only the latch and the baseline decide whether the Governor would halt.
LEMMA CalmCarries ==
  ASSUME NEW d, NEW e, NEW equity, d.ks = e.ks, d.b0 = e.b0, Calm(e, equity)
  PROVE  Calm(d, equity)
BY DEF Calm, EffectiveKillswitch

LEMMA FlatSafe ==
  ASSUME BInv, pos = NoPos, NEW close \in Int, NEW p, NEW d, NEW a,
         BarDone(close, p, 0, d, a), Hold,
         DOMAIN d = DayFields, d.b0 = Day.b0, d.openRisk = p.usd, p.pnl = 0,
         p = NoPos \/ (OpenOK(p) /\ Calm(d, balance)),
         ArmedOK(a, p, d, balance)
  PROVE  Safe
<1>1. p.pnl - pos.pnl = 0 /\ balance + 0 = balance
  BY NoPosFacts DEF BInv
<1>2. BInv'
  BY <1>1, HoldKeeps
<1>3. pos' = p /\ day' = d
  BY DEF BarDone
<1> QED BY <1>2, <1>3 DEF Safe, StopHeld, OpensCalm

\* Where no position is open, no risk is.
LEMMA FlatDay ==
  ASSUME BInv, pos = NoPos, i < MaxBar
  PROVE  /\ DOMAIN Day = DayFields /\ Day.openRisk = 0
         /\ ArmedOK(Pair, NoPos, Day, balance)
BY DayPair, Running, NoPosFacts

LEMMA NoEntrySafe ==
  ASSUME BInv, NEW close \in Grid, NoEntry(close)
  PROVE  Safe
<1>1. pos = NoPos /\ BarDone(close, NoPos, 0, Day, NoArm) /\ Hold /\ i < MaxBar
  BY DEF NoEntry, Flat, BarDone
<1>2. ArmedOK(NoArm, NoPos, Day, balance)
  BY DEF ArmedOK
<1> QED BY <1>1, <1>2, FlatDay, FlatSafe, NoPosFacts, BarTypes

LEMMA RestOnSafe ==
  ASSUME BInv, NEW b \in Bars, RestOn(b)
  PROVE  Safe
<1>1. pos = NoPos /\ BarDone(b.close, NoPos, 0, Day, Pair) /\ Hold /\ i < MaxBar
  BY DEF RestOn, Flat, BarDone
<1> QED BY <1>1, FlatDay, FlatSafe, NoPosFacts, BarTypes

\* A position of risk p.usd opens on a day without open risk.
LEMMA OpensSafe ==
  ASSUME BInv, pos = NoPos, NEW close \in Int, NEW p, NEW d,
         BarDone(close, p, 0, d, NoArm), Hold,
         OpenOK(p), p.pnl = 0, Calm(Day, balance),
         d \in {[Day EXCEPT !.openRisk = @ + p.usd, !.trades = @ + 1],
                [Day EXCEPT !.requests = @ + 1, !.trades = @ + 1,
                            !.openRisk = @ + p.usd]}
  PROVE  Safe
<1>1. Day.openRisk = 0 /\ DOMAIN Day = DayFields /\ p.usd \in Nat
  BY FlatDay, OpenFacts DEF BarDone, OpenOK
<1> DEFINE risk == Day.openRisk + p.usd
<1>2. risk = p.usd
  BY <1>1
<1>3. /\ DOMAIN d = DayFields /\ d.b0 = Day.b0 /\ d.ks = Day.ks /\ d.openRisk = risk
  <2>1. d = [Day EXCEPT !.openRisk = risk, !.trades = Day.trades + 1]
        \/ d = [Day EXCEPT !.requests = Day.requests + 1, !.trades = Day.trades + 1,
                           !.openRisk = risk]
    OBVIOUS
  <2> HIDE DEF risk
  <2>2. CASE d = [Day EXCEPT !.openRisk = risk, !.trades = Day.trades + 1]
    BY <1>1, <2>2 DEF DayFields
  <2>3. CASE d = [Day EXCEPT !.requests = Day.requests + 1, !.trades = Day.trades + 1,
                             !.openRisk = risk]
    BY <1>1, <2>3 DEF DayFields
  <2> QED BY <2>1, <2>2, <2>3
<1> HIDE DEF risk
<1>4. Calm(d, balance)
  BY <1>3, CalmCarries
<1>5. ArmedOK(NoArm, p, d, balance)
  BY DEF ArmedOK
<1> QED BY <1>2, <1>3, <1>4, <1>5, FlatSafe

LEMMA FillArmedSafe ==
  ASSUME BInv, NEW b \in Bars, FillArmed(b)
  PROVE  Safe
<1> DEFINE s == Chosen(Pair, b)
           fill == StopFill(s.sig.dir, s.sig.level)
           p == MakePosition(s.sig, fill, s.lots)
           d == [Day EXCEPT !.openRisk = @ + p.usd, !.trades = @ + 1]
<1>1. /\ pos = NoPos /\ Pair # NoArm /\ Touched(Pair, b) # {} /\ i < MaxBar
      /\ BarDone(b.close, p, 0, d, NoArm) /\ Hold
  BY DEF FillArmed, Flat, Resting, BarDone
<1>2. Calm(Day, balance) /\ LegOK(Pair.long) /\ LegOK(Pair.short)
  BY <1>1, FlatDay DEF ArmedOK
<1>3. s \in Legs(Pair)
  <2>1. Touched(Pair, b) \subseteq Legs(Pair)
    BY DEF Touched
  <2>2. s \in Touched(Pair, b)
    BY <1>1 DEF Chosen
  <2> QED BY <2>1, <2>2
<1> HIDE DEF s
<1>4. SigOK(s.sig) /\ s.lots \in Nat /\ s.lots >= MinSteps
  BY <1>2, <1>3 DEF Legs, LegOK
<1>5. s.sig.dir \in {1, -1} /\ s.sig.level \in Int
  BY <1>4 DEF SigOK
<1>6. /\ fill \in Int /\ s.sig.dir * (fill - s.sig.level) >= 0
      /\ s.sig.dir * (fill - s.sig.level) <= HalfSpread + SlipPts
  BY <1>5, StopFillCosts
<1> HIDE DEF fill
<1>7. PosOK(p) /\ p.pnl = 0 /\ p.lots = s.lots
  BY <1>4, <1>6, PositionOpens
<1> HIDE DEF p
<1>8. OpenOK(p)
  BY <1>4, <1>7 DEF OpenOK
<1> QED BY <1>1, <1>2, <1>7, <1>8, BarTypes, OpensSafe

LEMMA EnterSafe ==
  ASSUME BInv, NEW close \in Grid, Enter(close)
  PROVE  Safe
<1>1. PICK sig \in Entries(close) :
        LET dec  == Sized(sig, Day, 0)
            fill == IF sig.kind = "stop" THEN StopFill(sig.dir, sig.level)
                    ELSE EntryFill(sig.dir, sig.level)
            p    == MakePosition(sig, fill, dec.steps)
        IN  /\ dec.approved
            /\ BarDone(close, p, 0, [Day EXCEPT !.requests = @ + 1, !.trades = @ + 1,
                                            !.openRisk = @ + p.usd], NoArm)
  BY DEF Enter
<1> DEFINE lots == Sized(sig, Day, 0).steps
           fill == IF sig.kind = "stop" THEN StopFill(sig.dir, sig.level)
                   ELSE EntryFill(sig.dir, sig.level)
           p == MakePosition(sig, fill, lots)
           d == [Day EXCEPT !.requests = @ + 1, !.trades = @ + 1, !.openRisk = @ + p.usd]
<1>2. /\ Sized(sig, Day, 0).approved /\ BarDone(close, p, 0, d, NoArm)
      /\ pos = NoPos /\ Hold
  BY <1>1 DEF Enter, Flat
<1>3. close \in Int /\ SigOK(sig)
  BY BarTypes, EntriesOK
<1>4. sig.dir \in {1, -1} /\ sig.level \in Int /\ sig.sl \in Int
  BY <1>3 DEF SigOK
<1>5. lots \in Nat /\ lots >= MinSteps /\ Calm(Day, balance)
  BY <1>2, <1>4, SizedLots DEF BInv, Calm, Account
<1>6. /\ fill \in Int /\ sig.dir * (fill - sig.level) >= 0
      /\ sig.dir * (fill - sig.level) <= HalfSpread + SlipPts
  BY <1>4, StopFillCosts, EntryFillCosts
<1> HIDE DEF fill, lots
<1>7. PosOK(p) /\ p.pnl = 0 /\ p.lots = lots
  BY <1>3, <1>5, <1>6, PositionOpens
<1> HIDE DEF p
<1>8. OpenOK(p)
  BY <1>5, <1>7 DEF OpenOK
<1> QED BY <1>2, <1>3, <1>5, <1>7, <1>8, OpensSafe

\* What BuildArmed arms was sized by the Governor, at the equity of this bar.
LEMMA ArmsSized ==
  ASSUME NEW sides, NEW plan \in Plans, NEW d, balance \in Int,
         BuildArmed(sides, plan, d) # NoArm
  PROVE  LET a == BuildArmed(sides, plan, d)
         IN  LegOK(a.long) /\ LegOK(a.short) /\ Calm(d, balance)
<1> DEFINE sig(dir) == Signal(dir, "stop", dir * Unit, 0, plan)
           side(dir, n) == IF dir \in sides /\ Sized(sig(dir), d, n).approved
                           THEN [sig |-> sig(dir), lots |-> Sized(sig(dir), d, n).steps]
                           ELSE NoSide
           long == side(1, 0)
           short == side(-1, IF long # NoSide THEN 1 ELSE 0)
<1>1. ASSUME NEW dir \in {1, -1}, NEW n
      PROVE  side(dir, n) = NoSide \/ (LegOK(side(dir, n)) /\ Calm(d, balance))
  <2>1. SigOK(sig(dir)) /\ sig(dir).level \in Int /\ sig(dir).sl \in Int
    BY StopSignalOK DEF SigOK
  <2> HIDE DEF sig
  <2>2. CASE Sized(sig(dir), d, n).approved
    <3>1. /\ Sized(sig(dir), d, n).steps \in Nat
          /\ Sized(sig(dir), d, n).steps >= MinSteps /\ Calm(d, balance)
      BY <2>1, <2>2, SizedLots DEF Calm, Account
    <3> QED BY <2>1, <3>1 DEF LegOK
  <2>3. CASE ~Sized(sig(dir), d, n).approved
    BY <2>3
  <2> QED BY <2>2, <2>3
<1>2. BuildArmed(sides, plan, d) =
        IF long = NoSide /\ short = NoSide THEN NoArm
        ELSE [long |-> long, short |-> short, expire |-> i + ArmBars]
  BY DEF BuildArmed
<1> HIDE DEF side
<1>3. /\ long = NoSide \/ (LegOK(long) /\ Calm(d, balance))
      /\ short = NoSide \/ (LegOK(short) /\ Calm(d, balance))
  BY <1>1
<1> HIDE DEF long, short
<1> QED BY <1>2, <1>3 DEF LegOK

LEMMA ArmSafe ==
  ASSUME BInv, NEW close \in Grid, Arm(close)
  PROVE  Safe
<1>1. PICK sides \in ArmSides, plan \in Plans :
        LET a == BuildArmed(sides, plan, Day)
        IN  /\ a # NoArm
            /\ BarDone(close, NoPos, 0,
                 [Day EXCEPT !.requests = @ + (IF a.long = NoSide THEN 0 ELSE 1)
                                            + (IF a.short = NoSide THEN 0 ELSE 1)], a)
  BY DEF Arm
<1> DEFINE a == BuildArmed(sides, plan, Day)
           d == [Day EXCEPT !.requests = @ + (IF a.long = NoSide THEN 0 ELSE 1)
                                           + (IF a.short = NoSide THEN 0 ELSE 1)]
<1>2. /\ a # NoArm /\ BarDone(close, NoPos, 0, d, a) /\ pos = NoPos /\ Hold /\ i < MaxBar
  BY <1>1 DEF Arm, Flat, BarDone
<1>3. LegOK(a.long) /\ LegOK(a.short) /\ Calm(Day, balance)
  BY <1>2, ArmsSized DEF BInv
<1> HIDE DEF a
<1>4. DOMAIN d = DayFields /\ d.b0 = Day.b0 /\ d.ks = Day.ks /\ d.openRisk = 0
  BY <1>2, FlatDay DEF DayFields
<1> HIDE DEF d
<1>5. ArmedOK(a, NoPos, d, balance)
  BY <1>3, <1>4, CalmCarries DEF ArmedOK
<1> QED BY <1>2, <1>4, <1>5, FlatSafe, NoPosFacts, BarTypes

LEMMA EndOfDataSafe ==
  ASSUME BInv, EndOfData
  PROVE  Safe
<1> DEFINE exit == ExitFill(pos.dir, last)
           q == AddLeg(pos, pos.lots, exit)
<1>1. /\ i = MaxBar /\ pos # NoPos
      /\ balance' = balance + q.pnl - pos.pnl /\ booked' = booked + q.pnl
      /\ trade' = Closed(q, "eod") /\ pos' = NoPos
      /\ i' = i /\ last' = last /\ day' = day /\ tracker' = tracker /\ armed' = armed
  BY DEF EndOfData
<1>2. /\ PosOK(pos) /\ pos.dir \in {1, -1} /\ pos.entry \in Int /\ pos.pnl \in Int
      /\ pos.lots \in Nat /\ pos.closed \in Nat /\ pos.lots + pos.closed = pos.init
      /\ DOMAIN pos = PosFields
  BY <1>1 DEF BInv, OpenOK, PosOK, Slices, Terms
<1>3. exit \in Int
  BY <1>2, BacktestAssumption DEF BInv, ExitFill
<1> HIDE DEF exit
<1> DEFINE leg == Pnl(pos.dir, pos.entry, exit, pos.lots)
<1>4. leg \in Int
  BY <1>2, <1>3, BacktestAssumption DEF Pnl, GrossPnl
<1>5. q.pnl = pos.pnl + leg /\ q.closed = pos.closed + pos.lots /\ q.init = pos.init
  <2>1. MinOf(pos.lots, pos.lots) = pos.lots
    BY <1>2 DEF MinOf
  <2> HIDE DEF leg
  <2> QED BY <1>2, <2>1 DEF AddLeg, PosFields, leg
<1> HIDE DEF leg, q
<1>6. TradeOK(trade')
  BY <1>1, <1>2, <1>5 DEF TradeOK, Closed
<1>7. RiskOK(pos, day)'
  BY <1>1 DEF RiskOK, Closed
<1>8. armed' = NoArm
  BY <1>1, PosTypes
<1>9. /\ balance' \in Int /\ booked' \in Int /\ balance' = Initial + booked' + pos'.pnl
  BY <1>1, <1>2, <1>4, <1>5, MoneyTypes, NoPosFacts DEF BInv
<1>10. /\ i' \in Nat /\ last' \in Int /\ DOMAIN day' = DayFields /\ tracker'.b0 = day'.b0
  BY <1>1 DEF BInv
<1>11. BInv'
  BY <1>1, <1>6, <1>7, <1>8, <1>9, <1>10 DEF BInv, ArmedOK
<1> QED BY <1>1, <1>2, <1>11, NoPosFacts DEF Safe, StopHeld, OpensCalm

-----------------------------------------------------------------------------
(* The theorems.                                                           *)

LEMMA BInit ==
  ASSUME Init PROVE BInv
<1>1. DOMAIN day = DayFields /\ tracker.b0 = day.b0 /\ day.openRisk = NoPos.usd
  BY NoPosFacts DEF Init, DayFields
<1>2. TradeOK(trade) /\ trade.how # "eod"
  BY BacktestAssumption DEF Init, TradeOK, Closed, NoPos
<1> QED BY <1>1, <1>2, MoneyTypes, NoPosFacts DEF Init, BInv, RiskOK, ArmedOK

LEMMA BNext ==
  ASSUME BInv, [Next]_vars PROVE Safe
<1>1. ASSUME NEW close \in Grid,
             Warmup(close) \/ NoEntry(close) \/ Enter(close) \/ Arm(close)
      PROVE  Safe
  BY <1>1, WarmupSafe, NoEntrySafe, EnterSafe, ArmSafe
<1>2. ASSUME NEW b \in Bars,
             \/ StopOut(b) \/ TargetHit(b) \/ StrategyCloses(b) \/ ManageBar(b)
             \/ FillArmed(b) \/ RestOn(b)
      PROVE  Safe
  BY <1>2, StopOutSafe, TargetHitSafe, StrategyClosesSafe, ManageBarSafe,
     FillArmedSafe, RestOnSafe
<1>3. CASE EndOfData
  BY <1>3, EndOfDataSafe
<1>4. CASE UNCHANGED vars
  <2>1. BInv'
    BY <1>4 DEF vars, BInv, RiskOK
  <2> QED BY <1>4, <2>1, UntouchedHolds DEF vars, Safe
<1> QED BY <1>1, <1>2, <1>3, <1>4, Zenon DEF Next

LEMMA BInvariant == Spec => []BInv
<1>1. BInv /\ [Next]_vars => BInv'
  BY BNext DEF Safe
<1> QED BY <1>1, BInit, PTL DEF Spec

\* The balance is what trades and partials realised, every lot is closed once, and
\* the open risk shown to the Governor is that of the open position: _finalize,
\* _apply_partial and the daily reset, in any order and any number.
THEOREM BooksAgree == Spec => []BooksBalance
<1>1. BInv => BooksBalance
  BY BacktestAssumption DEF BInv, BooksBalance, OpenOK, PosOK, Slices, RiskOK, TradeOK
<1> QED BY <1>1, BInvariant, PTL

\* Stop, target, partial or the strategy's own close: no trade loses more than the
\* risk it was sized by and the costs of its fills.
THEOREM LossWithinRisk == Spec => []StopBoundsLoss
<1>1. BInv => StopBoundsLoss
  BY DEF BInv, StopBoundsLoss, TradeOK
<1> QED BY <1>1, BInvariant, PTL

\* _manage_closed_bar takes a stop back at most once, in the step that moves it to
\* break even, and never behind the entry: whatever the trail of the plan has done.
THEOREM StopsRetreatOnce == Spec => StopRetreatsOnce
<1> DEFINE Act == pos # NoPos /\ pos'.dir = pos.dir =>
                    \/ pos.dir * (pos'.sl - pos.sl) >= 0
                    \/ /\ ~pos.moved /\ pos'.moved
                       /\ pos.dir * (pos'.sl - pos.entry) >= 0
<1>1. BInv /\ [Next]_vars => [StopHeld]_vars
  BY BNext DEF Safe
<1>2. StopHeld => Act
  BY DEF StopHeld, Retreats
<1>3. BInv /\ [Next]_vars => [Act]_vars
  BY <1>1, <1>2
<1> QED BY <1>3, BInvariant, PTL DEF Spec, StopRetreatsOnce

\* run_on_bars never opens, or lets a pair armed bars earlier open, a position at
\* an equity at which the Governor would halt.
THEOREM OpensOnlyUnhalted == Spec => NoFillUnderHalt
<1>1. BInv /\ [Next]_vars => [OpensCalm]_vars
  BY BNext DEF Safe
<1> QED BY <1>1, BInvariant, PTL DEF Spec, NoFillUnderHalt, OpensCalm, Calm
=============================================================================

--------------------------- MODULE Research_proofs ---------------------------
(***************************************************************************)
(* What the improvement loop keeps for every search space, prior, budget,  *)
(* significance test and length of the live record: candidates are judged  *)
(* at no fewer trials than the sweep made, the pipeline judges the config  *)
(* that won around HEAD and touches levers only, what wins has earned      *)
(* before its lockbox, a verdict sees every trade that is not held out,    *)
(* cleaning loses nothing that it does not count, and the drift flag says  *)
(* what the last review saw, outcomes that came late apart.                *)
(***************************************************************************)
EXTENDS Research, FiniteSetTheorems, SequenceTheorems, WellFoundedInduction, TLAPS

-----------------------------------------------------------------------------
(* Induction over the naturals, as membership in a set.                    *)

LEMMA LeastNatural ==
  ASSUME NEW S, S \subseteq Nat, S # {}
  PROVE  \E x \in S : \A y \in S : x <= y
<1> DEFINE R == {ss \in Nat \X Nat : ss[1] < ss[2]}
<1>1. IsWellFoundedOn(R, Nat)
  BY NatLessThanWellFounded DEF OpToRel
<1>2. \A x, y \in Nat : <<y, x>> \in R <=> y < x
  OBVIOUS
<1> HIDE DEF R
<1>3. PICK x \in S : \A y \in S : ~(<<y, x>> \in R)
  BY <1>1, WFMin
<1>4. ASSUME NEW y \in S PROVE x <= y
  <2>1. x \in Nat /\ y \in Nat /\ ~(y < x)
    BY <1>2, <1>3
  <2> QED BY <2>1
<1> QED BY <1>4

LEMMA FromZeroOn ==
  ASSUME NEW S, 0 \in S, \A n \in Nat : n \in S => n + 1 \in S
  PROVE  Nat \subseteq S
<1> SUFFICES ASSUME Nat \ S # {} PROVE FALSE
  OBVIOUS
<1>1. PICK x \in Nat \ S : \A y \in Nat \ S : x <= y
  BY LeastNatural
<1>2. x # 0 /\ x - 1 \in Nat /\ x - 1 \in S
  BY <1>1
<1> QED BY <1>1, <1>2

-----------------------------------------------------------------------------
(* Search spaces are finite.                                               *)

LEMMA MaxOfTwo ==
  ASSUME NEW a \in Int, NEW b \in Int
  PROVE  /\ Max({a, b}) \in {a, b} /\ Max({a, b}) >= a /\ Max({a, b}) >= b
         /\ Min({a, b}) \in {a, b}
<1>1. \E x \in {a, b} : \A y \in {a, b} : x >= y
  BY a >= b \/ b >= a
<1>2. \E x \in {a, b} : \A y \in {a, b} : x <= y
  BY a <= b \/ b <= a
<1> QED BY <1>1, <1>2 DEF Max, Min

LEMMA NearestType ==
  ASSUME NEW n \in Int, NEW d \in Nat, d > 0
  PROVE  Nearest(n, d) \in Int
<1>1. n \div d \in Int
  BY Z3
<1> QED BY <1>1 DEF Nearest

\* What is asked of an axis to be finite; a refined one has no even step.
Bounded(axis) ==
  IF IsRange(axis)
  THEN axis.min \in Int /\ axis.max \in Int /\ axis.step \in Nat /\ axis.step > 0
  ELSE IsFiniteSet(axis.values)

LEMMA AxisFinite ==
  ASSUME NEW axis, Bounded(axis)
  PROVE  IsFiniteSet(AxisValues(axis))
<1>1. CASE IsRange(axis)
  <2> DEFINE top == Nearest(axis.max - axis.min, axis.step)
             f == [n \in 0 .. top |-> axis.min + n * axis.step]
             values == {axis.min + n * axis.step : n \in 0 .. top}
  <2>1. top \in Int
    <3>1. axis.max - axis.min \in Int /\ axis.step \in Nat /\ axis.step > 0
      BY <1>1 DEF Bounded
    <3> QED BY <3>1, NearestType
  <2> HIDE DEF top
  <2>2. IsFiniteSet(0 .. top)
    BY <2>1, FS_Interval
  <2>3. f \in Surjection(0 .. top, values)
    BY DEF Surjection
  <2>4. IsFiniteSet(values)
    BY <2>2, <2>3, FS_Surjection
  <2> QED BY <1>1, <2>4 DEF AxisValues, top
<1>2. CASE ~IsRange(axis)
  BY <1>2 DEF AxisValues, Bounded
<1> QED BY <1>1, <1>2

LEMMA FunctionsFinite ==
  ASSUME NEW D, NEW V, IsFiniteSet(D), IsFiniteSet(V)
  PROVE  IsFiniteSet([D -> V])
<1> DEFINE graph == [c \in [D -> V] |-> {<<d, c[d]>> : d \in D}]
<1>1. IsFiniteSet(SUBSET (D \X V))
  BY FS_Product, FS_SUBSET
<1>2. graph \in [[D -> V] -> SUBSET (D \X V)]
  OBVIOUS
<1>3. ASSUME NEW a \in [D -> V], NEW b \in [D -> V], graph[a] = graph[b]
      PROVE  a = b
  <2>1. ASSUME NEW d \in D PROVE a[d] = b[d]
    <3>1. <<d, a[d]>> \in {<<e, b[e]>> : e \in D}
      BY <1>3
    <3> QED BY <3>1
  <2> QED BY <2>1
<1>4. graph \in Injection([D -> V], SUBSET (D \X V))
  BY <1>2, <1>3 DEF Injection, IsInjective
<1> HIDE DEF graph
<1> QED BY <1>1, <1>4, FS_Injection

LEMMA GridFinite ==
  ASSUME NEW space, IsFiniteSet(DOMAIN space), \A p \in DOMAIN space : Bounded(space[p])
  PROVE  IsFiniteSet(Grid(space))
<1> DEFINE D == DOMAIN space
           f == [p \in D |-> AxisValues(space[p])]
           axes == {AxisValues(space[p]) : p \in D}
<1>1. f \in Surjection(D, axes)
  BY DEF Surjection
<1>2. IsFiniteSet(axes)
  BY <1>1, FS_Surjection
<1>3. \A axis \in axes : IsFiniteSet(axis)
  BY AxisFinite
<1>4. IsFiniteSet(UNION axes)
  BY <1>2, <1>3, FS_UNION
<1>5. IsFiniteSet([D -> UNION axes])
  BY <1>4, FunctionsFinite
<1>6. Grid(space) \subseteq [D -> UNION axes]
  BY DEF Grid
<1> QED BY <1>5, <1>6, FS_Subset

\* A refined space stays in the range, at half the step.
LEMMA RefinedFinite ==
  ASSUME NEW space, IsFiniteSet(DOMAIN space), \A p \in DOMAIN space : AxisOK(space[p]),
         NEW winner \in Grid(space)
  PROVE  IsFiniteSet(Grid(RefineSpace(space, winner)))
<1> DEFINE fine == RefineSpace(space, winner)
<1>1. DOMAIN fine = DOMAIN space
  BY DEF RefineSpace
<1>2. ASSUME NEW p \in DOMAIN space PROVE Bounded(fine[p])
  <2> DEFINE axis == space[p]
  <2>1. AxisOK(axis) /\ winner[p] \in AxisValues(axis)
    BY DEF Grid
  <2>2. CASE IsRange(axis)
    <3> DEFINE lo == Max({axis.min, winner[p] - axis.step})
               hi == Min({axis.max, winner[p] + axis.step})
               half == axis.step \div 2
    <3>1. /\ axis.min \in Int /\ axis.max \in Int /\ axis.step \in Nat /\ axis.step > 0
          /\ axis.step % 2 = 0
      BY <2>1, <2>2 DEF AxisOK
    <3>2. winner[p] \in Int
      <4>1. Nearest(axis.max - axis.min, axis.step) \in Int
        BY <3>1, NearestType
      <4>2. PICK n \in 0 .. Nearest(axis.max - axis.min, axis.step) :
              winner[p] = axis.min + n * axis.step
        BY <2>1, <2>2 DEF AxisValues
      <4>3. n \in Int /\ n * axis.step \in Int
        BY <3>1, <4>1
      <4> QED BY <3>1, <4>2, <4>3
    <3>3. lo \in Int /\ hi \in Int
      <4> DEFINE a == axis.min   b == winner[p] - axis.step
                 c == axis.max   d == winner[p] + axis.step
      <4>1. a \in Int /\ b \in Int /\ c \in Int /\ d \in Int
        BY <3>1, <3>2
      <4>2. lo = Max({a, b}) /\ hi = Min({c, d})
        OBVIOUS
      <4> HIDE DEF a, b, c, d, lo, hi
      <4> QED BY <4>1, <4>2, MaxOfTwo
    <3>4. half \in Nat /\ half > 0
      BY <3>1
    <3>5. fine[p] = [min |-> lo, max |-> hi, step |-> half]
      BY <2>2 DEF RefineSpace
    <3> HIDE DEF lo, hi, half, fine
    <3> QED BY <3>3, <3>4, <3>5 DEF Bounded, IsRange
  <2>3. CASE ~IsRange(axis)
    <3>1. fine[p] = [values |-> {winner[p]}]
      BY <2>3 DEF RefineSpace
    <3> HIDE DEF fine
    <3>2. ~IsRange(fine[p]) /\ fine[p].values = {winner[p]}
      BY <3>1 DEF IsRange
    <3>3. IsFiniteSet({winner[p]})
      BY FS_Singleton
    <3> QED BY <3>2, <3>3 DEF Bounded
  <2> QED BY <2>2, <2>3
<1> HIDE DEF fine
<1> QED BY <1>1, <1>2, GridFinite DEF fine

LEMMA SpaceFinite ==
  ASSUME NEW j \in Jobs
  PROVE  IsFiniteSet(Grid(j.space))
<1>1. IsFiniteSet(DOMAIN j.space) /\ \A p \in DOMAIN j.space : Bounded(j.space[p])
  BY JobsAssumption DEF AxisOK, Bounded
<1> QED BY <1>1, GridFinite

\* However a sweep begins, it is finite and inside the grid.
LEMMA CandidatesFinite ==
  ASSUME NEW j \in Jobs, NEW cs \in Candidates(j)
  PROVE  cs \subseteq Grid(j.space) /\ IsFiniteSet(cs)
<1>1. cs \subseteq Grid(j.space)
  BY DEF Candidates
<1> QED BY <1>1, SpaceFinite, FS_Subset

-----------------------------------------------------------------------------
(* The CUSUM.                                                              *)

Step(rs, n, s) == Max({0, s + 1 - 2 * rs[n]})

\* h is the running sum over the first len results.
Running(rs, h, len) ==
  h = [n \in 0 .. len |-> IF n = 0 THEN 0 ELSE Step(rs, n, h[n - 1])]

LEMMA RunningExists ==
  ASSUME NEW rs
  PROVE  \A len \in Nat : \E h : Running(rs, h, len)
<1> DEFINE S == {len \in Nat : \E h : Running(rs, h, len)}
<1>1. 0 \in S
  <2>1. Running(rs, [n \in 0 .. 0 |-> 0], 0)
    BY DEF Running
  <2> QED BY <2>1
<1>2. ASSUME NEW len \in Nat, len \in S PROVE len + 1 \in S
  <2>1. PICK h : Running(rs, h, len)
    BY <1>2
  <2> DEFINE g == [n \in 0 .. len + 1 |-> IF n = len + 1 THEN Step(rs, n, h[len]) ELSE h[n]]
  <2>2. \A n \in 0 .. len : g[n] = h[n]
    OBVIOUS
  <2>3. \A n \in 0 .. len : h[n] = IF n = 0 THEN 0 ELSE Step(rs, n, h[n - 1])
    BY <2>1 DEF Running
  <2>4. g[len + 1] = Step(rs, len + 1, g[len])
    BY <2>2
  <2>5. ASSUME NEW n \in 0 .. len + 1
        PROVE  g[n] = IF n = 0 THEN 0 ELSE Step(rs, n, g[n - 1])
    <3>1. CASE n = len + 1
      BY <2>4, <3>1
    <3>2. CASE n = 0
      BY <2>2, <2>3, <3>2
    <3>3. CASE n \in 1 .. len
      <4>1. n - 1 \in 0 .. len /\ n \in 0 .. len /\ n # 0
        BY <3>3
      <4>2. g[n] = h[n] /\ g[n - 1] = h[n - 1]
        BY <2>2, <4>1
      <4> HIDE DEF g
      <4> QED BY <2>3, <4>1, <4>2
    <3> QED BY <3>1, <3>2, <3>3
  <2>6. g = [n \in 0 .. len + 1 |-> g[n]]
    OBVIOUS
  <2> HIDE DEF g
  <2>7. Running(rs, g, len + 1)
    BY <2>5, <2>6, Zenon DEF Running
  <2> QED BY <2>7
<1> HIDE DEF S
<1>3. Nat \subseteq S
  BY <1>1, <1>2, FromZeroOn
<1> QED BY <1>3 DEF S

LEMMA RunningType ==
  ASSUME NEW len \in Nat, NEW rs, \A n \in 1 .. len : rs[n] \in Int,
         NEW h, Running(rs, h, len)
  PROVE  \A n \in 0 .. len : h[n] \in Nat
<1> DEFINE S == {n \in Nat : n <= len => h[n] \in Nat}
<1>1. \A n \in 0 .. len : h[n] = IF n = 0 THEN 0 ELSE Step(rs, n, h[n - 1])
  BY DEF Running
<1>2. 0 \in S
  BY <1>1
<1>3. ASSUME NEW n \in Nat, n \in S PROVE n + 1 \in S
  <2> SUFFICES ASSUME n + 1 <= len PROVE h[n + 1] \in Nat
    OBVIOUS
  <2>1. h[n] \in Nat /\ rs[n + 1] \in Int /\ n + 1 \in 0 .. len
    BY <1>3
  <2>2. h[n + 1] = Step(rs, n + 1, h[n])
    BY <1>1, <2>1
  <2> DEFINE x == h[n] + 1 - 2 * rs[n + 1]
  <2>3. x \in Int
    BY <2>1
  <2>4. h[n + 1] = Max({0, x})
    BY <2>2 DEF Step
  <2> HIDE DEF x
  <2>5. 0 \in Int
    OBVIOUS
  <2>6. Max({0, x}) \in {0, x} /\ Max({0, x}) >= 0
    BY <2>3, <2>5, MaxOfTwo, Zenon
  <2> QED BY <2>3, <2>4, <2>6
<1> HIDE DEF S
<1>4. Nat \subseteq S
  BY <1>2, <1>3, FromZeroOn
<1> QED BY <1>4 DEF S

\* Of finitely many sums there is a highest.
LEMMA PeakExists ==
  ASSUME NEW len \in Nat, NEW h, \A n \in 0 .. len : h[n] \in Nat
  PROVE  \E m \in 0 .. len : \A n \in 0 .. len : h[n] <= h[m]
<1> DEFINE S == {k \in Nat : k <= len =>
                   \E m \in 0 .. k : \A n \in 0 .. k : h[n] <= h[m]}
<1>1. 0 \in S
  BY \A n \in 0 .. 0 : n = 0
<1>2. ASSUME NEW k \in Nat, k \in S PROVE k + 1 \in S
  <2> SUFFICES ASSUME k + 1 <= len
               PROVE  \E m \in 0 .. k + 1 : \A n \in 0 .. k + 1 : h[n] <= h[m]
    OBVIOUS
  <2>1. PICK m \in 0 .. k : \A n \in 0 .. k : h[n] <= h[m]
    BY <1>2
  <2>2. h[m] \in Nat /\ h[k + 1] \in Nat /\ \A n \in 0 .. k : h[n] \in Nat
    BY <2>1
  <2>3. \A n \in 0 .. k + 1 : n \in 0 .. k \/ n = k + 1
    OBVIOUS
  <2>4. CASE h[k + 1] <= h[m]
    <3>1. m \in 0 .. k + 1 /\ \A n \in 0 .. k + 1 : h[n] <= h[m]
      BY <2>1, <2>3, <2>4
    <3> QED BY <3>1
  <2>5. CASE h[m] <= h[k + 1]
    <3>1. \A n \in 0 .. k + 1 : h[n] <= h[k + 1]
      BY <2>1, <2>2, <2>3, <2>5
    <3> QED BY <3>1
  <2> QED BY <2>2, <2>4, <2>5
<1> HIDE DEF S
<1>3. Nat \subseteq S
  BY <1>1, <1>2, FromZeroOn
<1> QED BY <1>3 DEF S

\* cusum_low is the highest of the running sums.
LEMMA CusumIsPeak ==
  ASSUME NEW rs, Len(rs) \in Nat, \A n \in 1 .. Len(rs) : rs[n] \in Int
  PROVE  \E h : /\ Running(rs, h, Len(rs)) /\ CusumLow(rs) \in Nat
                /\ \A n \in 0 .. Len(rs) : h[n] \in Nat /\ h[n] <= CusumLow(rs)
                /\ \E m \in 0 .. Len(rs) : CusumLow(rs) = h[m]
<1> DEFINE len == Len(rs)
           sum == CHOOSE h : h = [n \in 0 .. len |->
                                    IF n = 0 THEN 0 ELSE Max({0, h[n - 1] + 1 - 2 * rs[n]})]
           sums == {sum[n] : n \in 0 .. len}
<1>1. Running(rs, sum, len)
  <2>1. \E h : Running(rs, h, len)
    BY RunningExists
  <2> QED BY <2>1 DEF Running, Step
<1>2. CusumLow(rs) = Max(sums)
  BY DEF CusumLow
<1> HIDE DEF sum
<1>3. \A n \in 0 .. len : sum[n] \in Nat
  BY <1>1, RunningType
<1>4. PICK m \in 0 .. len : \A n \in 0 .. len : sum[n] <= sum[m]
  BY <1>3, PeakExists
<1>5. \E x \in sums : \A y \in sums : x >= y
  <2>1. sum[m] \in sums
    BY <1>4
  <2>2. \A y \in sums : sum[m] >= y
    BY <1>3, <1>4
  <2> QED BY <2>1, <2>2
<1>6. Max(sums) \in sums /\ \A y \in sums : Max(sums) >= y
  BY <1>5 DEF Max
<1>7. CusumLow(rs) \in Nat /\ \E k \in 0 .. len : CusumLow(rs) = sum[k]
  BY <1>2, <1>3, <1>6
<1>8. \A n \in 0 .. len : sum[n] <= CusumLow(rs)
  BY <1>2, <1>3, <1>6, <1>7
<1> QED BY <1>1, <1>3, <1>7, <1>8

\* More trades never lower the peak: what drifted has drifted.
LEMMA CusumGrows ==
  ASSUME NEW rs \in Seq(Int), NEW k \in 0 .. Len(rs)
  PROVE  /\ CusumLow(rs) \in Nat /\ CusumLow(SubSeq(rs, 1, k)) \in Nat
         /\ CusumLow(SubSeq(rs, 1, k)) <= CusumLow(rs)
<1> DEFINE pre == SubSeq(rs, 1, k)
<1>1. Len(pre) = k /\ \A n \in 1 .. k : pre[n] = rs[n]
  OBVIOUS
<1>2. /\ Len(rs) \in Nat /\ \A n \in 1 .. Len(rs) : rs[n] \in Int
      /\ Len(pre) \in Nat /\ \A n \in 1 .. Len(pre) : pre[n] \in Int
  BY <1>1
<1> HIDE DEF pre
<1>3. PICK h : /\ Running(rs, h, Len(rs)) /\ CusumLow(rs) \in Nat
               /\ \A n \in 0 .. Len(rs) : h[n] \in Nat /\ h[n] <= CusumLow(rs)
  BY <1>2, CusumIsPeak
<1>4. PICK g : /\ Running(pre, g, k) /\ CusumLow(pre) \in Nat
               /\ \E m \in 0 .. k : CusumLow(pre) = g[m]
  BY <1>1, <1>2, CusumIsPeak
<1>5. \A n \in 0 .. k : g[n] = h[n]
  <2> DEFINE S == {n \in Nat : n <= k => g[n] = h[n]}
  <2>1. \A n \in 0 .. k : g[n] = IF n = 0 THEN 0 ELSE Step(pre, n, g[n - 1])
    BY <1>4 DEF Running
  <2>2. \A n \in 0 .. k : h[n] = IF n = 0 THEN 0 ELSE Step(rs, n, h[n - 1])
    <3>1. \A n \in 0 .. Len(rs) : h[n] = IF n = 0 THEN 0 ELSE Step(rs, n, h[n - 1])
      BY <1>3 DEF Running
    <3> QED BY <1>2, <3>1
  <2>3. 0 \in S
    BY <2>1, <2>2
  <2>4. ASSUME NEW n \in Nat, n \in S PROVE n + 1 \in S
    <3> SUFFICES ASSUME n + 1 <= k PROVE g[n + 1] = h[n + 1]
      OBVIOUS
    <3>1. g[n] = h[n] /\ n + 1 \in 0 .. k /\ n + 1 # 0 /\ n + 1 - 1 = n /\ pre[n + 1] = rs[n + 1]
      BY <1>1, <2>4
    <3>2. g[n + 1] = Step(pre, n + 1, g[n]) /\ h[n + 1] = Step(rs, n + 1, h[n])
      BY <2>1, <2>2, <3>1
    <3> QED BY <3>1, <3>2 DEF Step
  <2> HIDE DEF S
  <2>5. Nat \subseteq S
    BY <2>3, <2>4, FromZeroOn
  <2> QED BY <2>5 DEF S
<1>6. PICK m \in 0 .. k : CusumLow(pre) = g[m]
  BY <1>4
<1>7. m \in 0 .. Len(rs) /\ CusumLow(pre) = h[m]
  BY <1>2, <1>5, <1>6
<1> QED BY <1>3, <1>4, <1>7 DEF pre

-----------------------------------------------------------------------------
(* Functions computed step by step.                                        *)

StaysIn(V, len, step) == \A n \in 1 .. len : \A v \in V : step[<<n, v>>] \in V

Stepped(first, len, step, h) == h[0] = first /\ \A n \in 1 .. len : h[n] = step[<<n, h[n - 1]>>]

\* A function that is computed step by step, from 0 on, has its values in V.
LEMMA StepByStep ==
  ASSUME NEW V, NEW first \in V, NEW len \in Nat, NEW step, StaysIn(V, len, step)
  PROVE  \E h \in [0 .. len -> V] : Stepped(first, len, step, h)
<1> USE DEF StaysIn, Stepped
<1> DEFINE Good(h, k) == Stepped(first, k, step, h)
           S == {k \in Nat : k <= len => \E h \in [0 .. k -> V] : Good(h, k)}
<1>1. 0 \in S
  <2> DEFINE g == [n \in 0 .. 0 |-> first]
  <2>1. g \in [0 .. 0 -> V] /\ g[0] = first
    OBVIOUS
  <2> HIDE DEF g
  <2>2. Good(g, 0)
    BY <2>1
  <2> QED BY <2>1, <2>2
<1>2. ASSUME NEW k \in Nat, k \in S PROVE k + 1 \in S
  <2> SUFFICES ASSUME k + 1 <= len PROVE \E h \in [0 .. k + 1 -> V] : Good(h, k + 1)
    OBVIOUS
  <2>1. PICK h \in [0 .. k -> V] : Good(h, k)
    BY <1>2
  <2> DEFINE g == [n \in 0 .. k + 1 |-> IF n = k + 1 THEN step[<<n, h[k]>>] ELSE h[n]]
  <2>2. h[k] \in V /\ k + 1 \in 1 .. len
    BY <2>1
  <2>3. step[<<k + 1, h[k]>>] \in V
    BY <2>2
  <2>4. g \in [0 .. k + 1 -> V] /\ \A n \in 0 .. k : g[n] = h[n]
    BY <2>1, <2>3
  <2>5. g[k + 1] = step[<<k + 1, g[k]>>]
    BY <2>4
  <2> HIDE DEF g
  <2>6. ASSUME NEW n \in 1 .. k + 1 PROVE g[n] = step[<<n, g[n - 1]>>]
    <3>1. CASE n = k + 1
      BY <2>5, <3>1
    <3>2. CASE n \in 1 .. k
      <4>1. n \in 0 .. k /\ n - 1 \in 0 .. k
        BY <3>2
      <4>2. h[n] = step[<<n, h[n - 1]>>]
        BY <2>1, <3>2
      <4> QED BY <2>4, <4>1, <4>2
    <3> QED BY <3>1, <3>2
  <2>7. g[0] = first
    BY <2>1, <2>4
  <2> QED BY <2>4, <2>6, <2>7
<1> HIDE DEF S
<1>3. len \in S
  BY <1>1, <1>2, FromZeroOn
<1> QED BY <1>3 DEF S

-----------------------------------------------------------------------------
(* Sums.                                                                   *)

\* h holds the sums of the first elements of s.
Sums(s, h) == h = [n \in 0 .. Len(s) |-> IF n = 0 THEN 0 ELSE h[n - 1] + s[n]]

\* Element by element.
LEMMA SumsEach ==
  ASSUME NEW s \in Seq(Int), NEW h
  PROVE  Sums(s, h) <=> /\ h = [n \in 0 .. Len(s) |-> h[n]] /\ h[0] = 0
                        /\ \A n \in 1 .. Len(s) : h[n] = h[n - 1] + s[n]
<1>1. ASSUME Sums(s, h)
      PROVE  /\ h = [n \in 0 .. Len(s) |-> h[n]] /\ h[0] = 0
             /\ \A n \in 1 .. Len(s) : h[n] = h[n - 1] + s[n]
  BY <1>1 DEF Sums
<1>2. ASSUME h = [n \in 0 .. Len(s) |-> h[n]], h[0] = 0,
             \A n \in 1 .. Len(s) : h[n] = h[n - 1] + s[n]
      PROVE  Sums(s, h)
  <2>1. \A n \in 0 .. Len(s) : h[n] = IF n = 0 THEN 0 ELSE h[n - 1] + s[n]
    <3> SUFFICES ASSUME NEW n \in 0 .. Len(s)
                 PROVE  h[n] = IF n = 0 THEN 0 ELSE h[n - 1] + s[n]
      OBVIOUS
    <3>1. CASE n = 0
      BY <1>2, <3>1
    <3>2. CASE n # 0
      <4>1. n \in 1 .. Len(s)
        BY <3>2
      <4>2. h[n] = h[n - 1] + s[n]
        BY <1>2, <4>1, Zenon
      <4> QED BY <3>2, <4>2, Zenon
    <3> QED BY <3>1, <3>2
  <2> QED BY <1>2, <2>1, Zenon DEF Sums
<1> QED BY <1>1, <1>2

LEMMA TotalIsSum ==
  ASSUME NEW s \in Seq(Int)
  PROVE  \E h \in [0 .. Len(s) -> Int] :
           /\ Total(s) = h[Len(s)] /\ h[0] = 0
           /\ \A n \in 1 .. Len(s) : h[n] = h[n - 1] + s[n]
<1> DEFINE len == Len(s)
           step == [p \in (1 .. len) \X Int |-> p[2] + s[p[1]]]
           sum == CHOOSE h : Sums(s, h)
<1>1. len \in Nat /\ \A n \in 1 .. len : s[n] \in Int
  OBVIOUS
<1>2. \A n \in 1 .. len : \A v \in Int : step[<<n, v>>] = v + s[n] /\ step[<<n, v>>] \in Int
  BY <1>1
<1> HIDE DEF step
<1>3. 0 \in Int
  OBVIOUS
<1>4. PICK h \in [0 .. len -> Int] : Stepped(0, len, step, h)
  <2>1. StaysIn(Int, len, step)
    BY <1>2 DEF StaysIn
  <2> HIDE DEF len
  <2> QED BY <1>1, <1>3, <2>1, StepByStep
<1>5. h[0] = 0 /\ \A n \in 1 .. len : h[n] = h[n - 1] + s[n]
  <2>1. \A n \in 1 .. len : h[n - 1] \in Int
    BY <1>1, <1>4
  <2> QED BY <1>2, <1>4, <2>1 DEF Stepped
<1>6. Sums(s, h)
  <2>1. h = [n \in 0 .. len |-> h[n]]
    BY <1>4
  <2> QED BY <1>4, <1>5, <2>1, SumsEach
<1>7. Sums(s, sum)
  BY <1>6
<1>8. Total(s) = sum[len]
  BY DEF Total, Sums
<1> HIDE DEF sum
<1>9. /\ sum = [n \in 0 .. len |-> sum[n]] /\ sum[0] = 0
      /\ \A n \in 1 .. len : sum[n] = sum[n - 1] + s[n]
  BY <1>7, SumsEach
<1>10. sum \in [0 .. len -> Int]
  <2> DEFINE S == {n \in Nat : n <= len => sum[n] \in Int}
  <2>1. 0 \in S
    BY <1>1, <1>9
  <2>2. ASSUME NEW n \in Nat, n \in S PROVE n + 1 \in S
    <3> SUFFICES ASSUME n + 1 <= len PROVE sum[n + 1] \in Int
      OBVIOUS
    <3>1. n + 1 \in 1 .. len /\ n + 1 - 1 = n
      OBVIOUS
    <3>2. sum[n] \in Int /\ s[n + 1] \in Int
      BY <1>1, <2>2, <3>1
    <3>3. \A k \in 1 .. len : sum[k] = sum[k - 1] + s[k]
      BY <1>9
    <3> QED BY <3>1, <3>2, <3>3
  <2> HIDE DEF S
  <2>3. Nat \subseteq S
    BY <2>1, <2>2, FromZeroOn
  <2>4. \A n \in 0 .. len : sum[n] \in Int
    BY <2>3 DEF S
  <2> QED BY <1>9, <2>4
<1> QED BY <1>8, <1>9, <1>10

LEMMA TotalEmpty == Total(<<>>) = 0
<1>1. <<>> \in Seq(Int) /\ Len(<<>>) = 0
  OBVIOUS
<1>2. \E h \in [0 .. 0 -> Int] : Total(<<>>) = h[0] /\ h[0] = 0
  BY <1>1, TotalIsSum
<1> QED BY <1>2

\* A total of integers is one.
LEMMA TotalType ==
  ASSUME NEW s \in Seq(Int)
  PROVE  Total(s) \in Int
<1>1. PICK h \in [0 .. Len(s) -> Int] : Total(s) = h[Len(s)]
  BY TotalIsSum
<1> QED BY <1>1

\* Lists that are the same but for one element, by which their sums differ.
\* A list that differs in one element differs by as much in its total.
LEMMA TotalChange ==
  ASSUME NEW s \in Seq(Int), NEW t \in Seq(Int), NEW m \in 1 .. Len(s), NEW x \in Int,
         Len(t) = Len(s), t[m] = s[m] + x, \A n \in 1 .. Len(s) : n # m => t[n] = s[n]
  PROVE  Total(t) = Total(s) + x
<1> DEFINE len == Len(s)
<1>1. len \in Nat /\ \A n \in 1 .. len : s[n] \in Int
  OBVIOUS
<1>2. PICK h \in [0 .. len -> Int] :
        Total(s) = h[len] /\ h[0] = 0 /\ \A n \in 1 .. len : h[n] = h[n - 1] + s[n]
  BY TotalIsSum
<1>3. PICK g \in [0 .. len -> Int] :
        Total(t) = g[len] /\ g[0] = 0 /\ \A n \in 1 .. len : g[n] = g[n - 1] + t[n]
  <2>1. PICK g \in [0 .. Len(t) -> Int] :
          Total(t) = g[Len(t)] /\ g[0] = 0 /\ \A n \in 1 .. Len(t) : g[n] = g[n - 1] + t[n]
    BY TotalIsSum
  <2> QED BY <2>1
<1> HIDE DEF len
<1> DEFINE S == {n \in Nat : n <= len => g[n] = h[n] + (IF n >= m THEN x ELSE 0)}
<1>4. 0 \in S
  BY <1>1, <1>2, <1>3
<1>5. ASSUME NEW n \in Nat, n \in S PROVE n + 1 \in S
  <2> SUFFICES ASSUME n + 1 <= len
               PROVE  g[n + 1] = h[n + 1] + (IF n + 1 >= m THEN x ELSE 0)
    OBVIOUS
  <2>1. n + 1 \in 1 .. len /\ n \in 0 .. len
    BY <1>1
  <2>2. h[n + 1] = h[n] + s[n + 1]
    BY <1>2, <2>1
  <2>3. g[n + 1] = g[n] + t[n + 1]
    BY <1>3, <2>1
  <2>4. g[n] = h[n] + (IF n >= m THEN x ELSE 0)
    BY <1>5, <2>1
  <2>5. h[n] \in Int /\ g[n] \in Int /\ s[n + 1] \in Int
    BY <1>1, <1>2, <1>3, <2>1
  <2>6. CASE n + 1 = m
    <3>1. t[n + 1] = s[n + 1] + x /\ ~(n >= m)
      BY <2>6
    <3> QED BY <2>2, <2>3, <2>4, <2>5, <2>6, <3>1
  <2>7. CASE n + 1 # m
    <3>1. t[n + 1] = s[n + 1] /\ (n >= m <=> n + 1 >= m)
      BY <2>1, <2>7 DEF len
    <3> QED BY <2>2, <2>3, <2>4, <2>5, <3>1
  <2> QED BY <2>6, <2>7
<1> HIDE DEF S
<1>6. Nat \subseteq S
  BY <1>4, <1>5, FromZeroOn
<1>7. g[len] = h[len] + (IF len >= m THEN x ELSE 0) /\ len >= m
  BY <1>1, <1>6 DEF S, len
<1> QED BY <1>2, <1>3, <1>7

\* One more element adds itself.
LEMMA TotalAppend ==
  ASSUME NEW s \in Seq(Int), NEW x \in Int
  PROVE  Total(Append(s, x)) = Total(s) + x
<1> DEFINE len == Len(s)  t == Append(s, x)
<1>1. /\ len \in Nat /\ t \in Seq(Int) /\ Len(t) = len + 1 /\ t[len + 1] = x
      /\ \A n \in 1 .. len : t[n] = s[n]
  OBVIOUS
<1> HIDE DEF t
<1>2. PICK h \in [0 .. len -> Int] :
        Total(s) = h[len] /\ h[0] = 0 /\ \A n \in 1 .. len : h[n] = h[n - 1] + s[n]
  BY TotalIsSum
<1>3. PICK g \in [0 .. len + 1 -> Int] :
        Total(t) = g[len + 1] /\ g[0] = 0 /\ \A n \in 1 .. len + 1 : g[n] = g[n - 1] + t[n]
  <2>1. PICK g \in [0 .. Len(t) -> Int] :
          Total(t) = g[Len(t)] /\ g[0] = 0 /\ \A n \in 1 .. Len(t) : g[n] = g[n - 1] + t[n]
    BY <1>1, TotalIsSum
  <2> QED BY <1>1, <2>1
<1> HIDE DEF len
<1> DEFINE S == {n \in Nat : n <= len => g[n] = h[n]}
<1>4. 0 \in S
  BY <1>2, <1>3
<1>5. ASSUME NEW n \in Nat, n \in S PROVE n + 1 \in S
  <2> SUFFICES ASSUME n + 1 <= len PROVE g[n + 1] = h[n + 1]
    OBVIOUS
  <2>1. n + 1 \in 1 .. len /\ n + 1 \in 1 .. len + 1
    BY <1>1
  <2>2. h[n + 1] = h[n] + s[n + 1] /\ g[n + 1] = g[n] + t[n + 1]
    BY <1>2, <1>3, <2>1
  <2> QED BY <1>1, <1>5, <2>1, <2>2
<1> HIDE DEF S
<1>6. len \in S
  BY <1>1, <1>4, <1>5, FromZeroOn
<1>7. g[len + 1] = g[len] + x
  <2>1. len + 1 \in 1 .. len + 1 /\ len + 1 - 1 = len
    BY <1>1
  <2> QED BY <1>1, <1>3, <2>1
<1> QED BY <1>2, <1>3, <1>6, <1>7 DEF S, t

\* Induction over lists, as membership in a set.
LEMMA ByAppending ==
  ASSUME NEW T, NEW S, <<>> \in S, \A s \in Seq(T) : \A x \in T : s \in S => Append(s, x) \in S
  PROVE  Seq(T) \subseteq S
<1> DEFINE N == {n \in Nat : \A s \in Seq(T) : Len(s) = n => s \in S}
<1>1. 0 \in N
  <2>1. \A s \in Seq(T) : Len(s) = 0 => s = <<>>
    OBVIOUS
  <2> QED BY <2>1
<1>2. ASSUME NEW n \in Nat, n \in N PROVE n + 1 \in N
  <2> SUFFICES ASSUME NEW s \in Seq(T), Len(s) = n + 1 PROVE s \in S
    OBVIOUS
  <2> DEFINE front == SubSeq(s, 1, n)
  <2>1. front \in Seq(T) /\ Len(front) = n /\ s[n + 1] \in T
    OBVIOUS
  <2>2. s = Append(front, s[n + 1])
    OBVIOUS
  <2>3. front \in S
    BY <1>2, <2>1
  <2> HIDE DEF front
  <2> QED BY <2>1, <2>2, <2>3
<1> HIDE DEF N
<1>3. Nat \subseteq N
  BY <1>1, <1>2, FromZeroOn
<1> QED BY <1>3 DEF N

-----------------------------------------------------------------------------
(* Selections.                                                             *)

\* One more element of s, if it is in S.
Grown(s, S, n, v) == IF s[n] \in S THEN Append(v, s[n]) ELSE v

\* h holds what is selected of the first elements of s.
Selects(s, S, h) == h = [n \in 0 .. Len(s) |-> IF n = 0 THEN <<>> ELSE Grown(s, S, n, h[n - 1])]

SelectedBy(T, s, S, h) ==
  /\ h \in [0 .. Len(s) -> Seq(T)] /\ Selected(s, S) = h[Len(s)] /\ h[0] = <<>>
  /\ \A n \in 1 .. Len(s) : h[n] = Grown(s, S, n, h[n - 1])

\* Element by element.
LEMMA SelectsEach ==
  ASSUME NEW T, NEW s \in Seq(T), NEW S, NEW h
  PROVE  Selects(s, S, h) <=> /\ h = [n \in 0 .. Len(s) |-> h[n]] /\ h[0] = <<>>
                              /\ \A n \in 1 .. Len(s) : h[n] = Grown(s, S, n, h[n - 1])
<1>1. ASSUME Selects(s, S, h)
      PROVE  /\ h = [n \in 0 .. Len(s) |-> h[n]] /\ h[0] = <<>>
             /\ \A n \in 1 .. Len(s) : h[n] = Grown(s, S, n, h[n - 1])
  BY <1>1 DEF Selects
<1>2. ASSUME h = [n \in 0 .. Len(s) |-> h[n]], h[0] = <<>>,
             \A n \in 1 .. Len(s) : h[n] = Grown(s, S, n, h[n - 1])
      PROVE  Selects(s, S, h)
  <2>1. \A n \in 0 .. Len(s) : h[n] = IF n = 0 THEN <<>> ELSE Grown(s, S, n, h[n - 1])
    <3> SUFFICES ASSUME NEW n \in 0 .. Len(s)
                 PROVE  h[n] = IF n = 0 THEN <<>> ELSE Grown(s, S, n, h[n - 1])
      OBVIOUS
    <3>1. CASE n = 0
      BY <1>2, <3>1
    <3>2. CASE n # 0
      <4>1. n \in 1 .. Len(s)
        BY <3>2
      <4>2. h[n] = Grown(s, S, n, h[n - 1])
        BY <1>2, <4>1, Zenon
      <4> QED BY <3>2, <4>2, Zenon
    <3> QED BY <3>1, <3>2
  <2> QED BY <1>2, <2>1, Zenon DEF Selects
<1> QED BY <1>1, <1>2

\* The function that Selected is computed by.
LEMMA SelectedSteps ==
  ASSUME NEW T, NEW s \in Seq(T), NEW S
  PROVE  \E h : SelectedBy(T, s, S, h)
<1> DEFINE len == Len(s)
           step == [p \in (1 .. len) \X Seq(T) |-> Grown(s, S, p[1], p[2])]
           sel == CHOOSE h : Selects(s, S, h)
<1>1. len \in Nat /\ \A n \in 1 .. len : s[n] \in T
  OBVIOUS
<1>2. \A n \in 1 .. len : \A v \in Seq(T) : Grown(s, S, n, v) \in Seq(T)
  BY <1>1 DEF Grown
<1>3. \A n \in 1 .. len : \A v \in Seq(T) : step[<<n, v>>] = Grown(s, S, n, v)
  OBVIOUS
<1> HIDE DEF step
<1>4. <<>> \in Seq(T)
  OBVIOUS
<1>5. PICK h \in [0 .. len -> Seq(T)] : Stepped(<<>>, len, step, h)
  <2>1. StaysIn(Seq(T), len, step)
    BY <1>2, <1>3 DEF StaysIn
  <2> HIDE DEF len
  <2> QED BY <1>1, <1>4, <2>1, StepByStep
<1>6. h[0] = <<>> /\ \A n \in 1 .. len : h[n] = Grown(s, S, n, h[n - 1])
  <2>1. \A n \in 1 .. len : h[n - 1] \in Seq(T)
    BY <1>1, <1>5
  <2> QED BY <1>3, <1>5, <2>1 DEF Stepped
<1>7. Selects(s, S, h)
  <2>1. h = [n \in 0 .. len |-> h[n]]
    BY <1>5
  <2> QED BY <1>6, <2>1, SelectsEach
<1>8. Selects(s, S, sel)
  BY <1>7
<1>9. Selected(s, S) = sel[len]
  BY DEF Selected, Selects, Grown
<1> HIDE DEF sel
<1>10. /\ sel = [n \in 0 .. len |-> sel[n]] /\ sel[0] = <<>>
       /\ \A n \in 1 .. len : sel[n] = Grown(s, S, n, sel[n - 1])
  BY <1>8, SelectsEach
<1>11. sel \in [0 .. len -> Seq(T)]
  <2> DEFINE N == {n \in Nat : n <= len => sel[n] \in Seq(T)}
  <2>1. 0 \in N
    BY <1>1, <1>4, <1>10
  <2>2. ASSUME NEW n \in Nat, n \in N PROVE n + 1 \in N
    <3> SUFFICES ASSUME n + 1 <= len PROVE sel[n + 1] \in Seq(T)
      OBVIOUS
    <3>1. n + 1 \in 1 .. len /\ n + 1 - 1 = n /\ sel[n] \in Seq(T)
      BY <1>1, <2>2
    <3>2. \A k \in 1 .. len : sel[k] = Grown(s, S, k, sel[k - 1])
      BY <1>10
    <3> QED BY <1>2, <3>1, <3>2
  <2> HIDE DEF N
  <2>3. Nat \subseteq N
    BY <2>1, <2>2, FromZeroOn
  <2>4. \A n \in 0 .. len : sel[n] \in Seq(T)
    BY <2>3 DEF N
  <2> QED BY <1>10, <2>4
<1> QED BY <1>9, <1>10, <1>11 DEF SelectedBy

LEMMA SelectedEmpty == ASSUME NEW S PROVE Selected(<<>>, S) = <<>>
<1>1. <<>> \in Seq(Int) /\ Len(<<>>) = 0
  OBVIOUS
<1>2. PICK h : SelectedBy(Int, <<>>, S, h)
  BY <1>1, SelectedSteps
<1> QED BY <1>1, <1>2 DEF SelectedBy

\* One more element is appended, or is left out.
LEMMA SelectedAppend ==
  ASSUME NEW T, NEW s \in Seq(T), NEW x \in T, NEW S
  PROVE  /\ Selected(s, S) \in Seq(T)
         /\ Selected(Append(s, x), S) =
              IF x \in S THEN Append(Selected(s, S), x) ELSE Selected(s, S)
<1> DEFINE len == Len(s)  t == Append(s, x)
<1>1. /\ len \in Nat /\ t \in Seq(T) /\ Len(t) = len + 1 /\ t[len + 1] = x
      /\ \A n \in 1 .. len : t[n] = s[n]
  OBVIOUS
<1> HIDE DEF t
<1>2. PICK h \in [0 .. len -> Seq(T)] :
        /\ Selected(s, S) = h[len] /\ h[0] = <<>>
        /\ \A n \in 1 .. len : h[n] = Grown(s, S, n, h[n - 1])
  <2>1. PICK h : SelectedBy(T, s, S, h)
    BY SelectedSteps
  <2> QED BY <2>1 DEF SelectedBy
<1>3. PICK g \in [0 .. len + 1 -> Seq(T)] :
        /\ Selected(t, S) = g[len + 1] /\ g[0] = <<>>
        /\ \A n \in 1 .. len + 1 : g[n] = Grown(t, S, n, g[n - 1])
  <2>1. PICK g : SelectedBy(T, t, S, g)
    BY <1>1, SelectedSteps
  <2> QED BY <1>1, <2>1 DEF SelectedBy
<1> HIDE DEF len
<1> DEFINE N == {n \in Nat : n <= len => g[n] = h[n]}
<1>4. 0 \in N
  BY <1>2, <1>3
<1>5. ASSUME NEW n \in Nat, n \in N PROVE n + 1 \in N
  <2> SUFFICES ASSUME n + 1 <= len PROVE g[n + 1] = h[n + 1]
    OBVIOUS
  <2>1. n + 1 \in 1 .. len /\ n + 1 \in 1 .. len + 1 /\ n + 1 - 1 = n
    BY <1>1
  <2>2. h[n + 1] = Grown(s, S, n + 1, h[n]) /\ g[n + 1] = Grown(t, S, n + 1, g[n])
    BY <1>2, <1>3, <2>1
  <2>3. t[n + 1] = s[n + 1] /\ g[n] = h[n]
    BY <1>1, <1>5, <2>1
  <2> QED BY <2>2, <2>3 DEF Grown
<1> HIDE DEF N
<1>6. len \in N
  BY <1>1, <1>4, <1>5, FromZeroOn
<1>7. g[len + 1] = Grown(t, S, len + 1, g[len])
  <2>1. len + 1 \in 1 .. len + 1 /\ len + 1 - 1 = len
    BY <1>1
  <2>2. \A n \in 1 .. len + 1 : g[n] = Grown(t, S, n, g[n - 1])
    BY <1>3
  <2>3. PICK n \in 1 .. len + 1 : n = len + 1
    BY <2>1
  <2>4. g[n] = Grown(t, S, n, g[n - 1])
    BY <2>2
  <2>5. n - 1 = len
    BY <1>1, <2>3
  <2> QED BY <2>3, <2>4, <2>5
<1>8. g[len] = Selected(s, S) /\ Selected(s, S) \in Seq(T)
  BY <1>1, <1>2, <1>6 DEF N
<1> QED BY <1>1, <1>3, <1>7, <1>8 DEF Grown, t

\* The elements of an appended list.
LEMMA RangeOfList ==
  /\ Range(<<>>) = {}
  /\ \A T : \A s \in Seq(T) : /\ Range(s) \subseteq T
                              /\ \A x : Range(Append(s, x)) = Range(s) \union {x}
<1>1. Range(<<>>) = {}
  BY DEF Range
<1>2. ASSUME NEW T, NEW s \in Seq(T), NEW x
      PROVE  Range(s) \subseteq T /\ Range(Append(s, x)) = Range(s) \union {x}
  <2>1. DOMAIN s = 1 .. Len(s) /\ Len(s) \in Nat /\ \A n \in 1 .. Len(s) : s[n] \in T
    OBVIOUS
  <2> DEFINE t == Append(s, x)
  <2>2. s \in Seq(T \union {x}) /\ x \in T \union {x}
    BY <2>1
  <2>3. t \in Seq(T \union {x}) /\ Len(t) = Len(s) + 1 /\ t[Len(s) + 1] = x
        /\ \A n \in 1 .. Len(s) : t[n] = s[n]
    BY <2>2
  <2>4. DOMAIN t = 1 .. Len(s) + 1
    BY <2>3
  <2> HIDE DEF t
  <2>5. \A n \in DOMAIN t : t[n] \in Range(s) \union {x}
    <3> SUFFICES ASSUME NEW n \in 1 .. Len(s) + 1 PROVE t[n] \in Range(s) \union {x}
      BY <2>4
    <3>1. CASE n = Len(s) + 1
      BY <2>3, <3>1
    <3>2. CASE n \in 1 .. Len(s)
      BY <2>1, <2>3, <3>2 DEF Range
    <3> QED BY <2>1, <3>1, <3>2
  <2>6. \A y \in Range(s) \union {x} : \E n \in DOMAIN t : t[n] = y
    <3> SUFFICES ASSUME NEW y \in Range(s) \union {x} PROVE \E n \in 1 .. Len(s) + 1 : t[n] = y
      BY <2>4
    <3>1. CASE y = x
      BY <2>1, <2>3, <3>1
    <3>2. CASE y \in Range(s)
      <4>1. PICK n \in 1 .. Len(s) : s[n] = y
        BY <2>1, <3>2 DEF Range
      <4> QED BY <2>1, <2>3, <4>1
    <3> QED BY <3>1, <3>2
  <2>7. Range(t) = Range(s) \union {x}
    BY <2>5, <2>6 DEF Range
  <2> QED BY <2>1, <2>7 DEF Range, t
<1> QED BY <1>1, <1>2

\* A selection has the elements that are in the set, and no others.
LEMMA SelectedRange ==
  ASSUME NEW T, NEW s \in Seq(T), NEW S
  PROVE  Selected(s, S) \in Seq(T) /\ Range(Selected(s, S)) = Range(s) \cap S
<1> DEFINE G == {l \in Seq(T) : /\ Selected(l, S) \in Seq(T)
                                /\ Range(Selected(l, S)) = Range(l) \cap S}
<1>1. <<>> \in G
  <2>1. <<>> \in Seq(T) /\ Selected(<<>>, S) = <<>>
    BY SelectedEmpty
  <2> QED BY <2>1, RangeOfList
<1>2. ASSUME NEW l \in Seq(T), NEW x \in T, l \in G PROVE Append(l, x) \in G
  <2> DEFINE sel == Selected(l, S)
  <2>1. /\ sel \in Seq(T) /\ Range(sel) = Range(l) \cap S
        /\ Selected(Append(l, x), S) = IF x \in S THEN Append(sel, x) ELSE sel
    BY <1>2, SelectedAppend
  <2>2. Range(Append(l, x)) = Range(l) \union {x}
        /\ Range(Append(sel, x)) = Range(sel) \union {x}
    BY <2>1, RangeOfList
  <2>3. Append(l, x) \in Seq(T) /\ Append(sel, x) \in Seq(T)
    BY <2>1
  <2> HIDE DEF sel
  <2> QED BY <2>1, <2>2, <2>3
<1> HIDE DEF G
<1>3. Seq(T) \subseteq G
  <2>1. \A l \in Seq(T) : \A x \in T : l \in G => Append(l, x) \in G
    BY <1>2
  <2> QED BY <1>1, <2>1, ByAppending
<1> QED BY <1>3 DEF G

\* The elements of a list in the order R.
Ordered(s, R) == \A i, j \in 1 .. Len(s) : i < j => <<s[i], s[j]>> \in R

\* An ordered list with one more element.
LEMMA OrderedAppend ==
  ASSUME NEW T, NEW s \in Seq(T), NEW x \in T, NEW R
  PROVE  Ordered(Append(s, x), R) <=> Ordered(s, R) /\ \A y \in Range(s) : <<y, x>> \in R
<1> DEFINE t == Append(s, x)  len == Len(s)
<1>1. /\ len \in Nat /\ Len(t) = len + 1 /\ t[len + 1] = x /\ DOMAIN s = 1 .. len
      /\ \A n \in 1 .. len : t[n] = s[n]
  OBVIOUS
<1> HIDE DEF t
<1>2. ASSUME Ordered(t, R) PROVE Ordered(s, R) /\ \A y \in Range(s) : <<y, x>> \in R
  <2>1. Ordered(s, R)
    BY <1>1, <1>2 DEF Ordered
  <2>2. ASSUME NEW y \in Range(s) PROVE <<y, x>> \in R
    <3>1. PICK n \in 1 .. len : s[n] = y
      BY <1>1 DEF Range
    <3>2. <<t[n], t[len + 1]>> \in R
      BY <1>1, <1>2 DEF Ordered
    <3> QED BY <1>1, <3>1, <3>2
  <2> QED BY <2>1, <2>2
<1>3. ASSUME Ordered(s, R), \A y \in Range(s) : <<y, x>> \in R PROVE Ordered(t, R)
  <2> SUFFICES ASSUME NEW i \in 1 .. len + 1, NEW j \in 1 .. len + 1, i < j
               PROVE  <<t[i], t[j]>> \in R
    BY <1>1 DEF Ordered
  <2>1. i \in 1 .. len /\ t[i] = s[i] /\ s[i] \in Range(s)
    BY <1>1 DEF Range
  <2>2. CASE j = len + 1
    BY <1>1, <1>3, <2>1, <2>2
  <2>3. CASE j \in 1 .. len
    BY <1>1, <1>3, <2>1, <2>3 DEF Ordered
  <2> QED BY <1>1, <2>2, <2>3
<1> QED BY <1>2, <1>3 DEF t

\* A selection keeps the order.
LEMMA SelectedOrder ==
  ASSUME NEW T, NEW s \in Seq(T), NEW S, NEW R, Ordered(s, R)
  PROVE  Ordered(Selected(s, S), R)
<1> DEFINE G == {l \in Seq(T) : Ordered(l, R) => Ordered(Selected(l, S), R)}
<1>1. <<>> \in G
  <2>1. <<>> \in Seq(T) /\ Selected(<<>>, S) = <<>>
    BY SelectedEmpty
  <2> QED BY <2>1
<1>2. ASSUME NEW l \in Seq(T), NEW x \in T, l \in G PROVE Append(l, x) \in G
  <2> DEFINE sel == Selected(l, S)
  <2>1. /\ sel \in Seq(T) /\ Range(sel) \subseteq Range(l)
        /\ Selected(Append(l, x), S) = IF x \in S THEN Append(sel, x) ELSE sel
    BY SelectedAppend, SelectedRange
  <2>2. Ordered(l, R) => Ordered(sel, R)
    BY <1>2
  <2> HIDE DEF sel
  <2>3. ASSUME Ordered(Append(l, x), R) PROVE Ordered(Selected(Append(l, x), S), R)
    <3>1. Ordered(l, R) /\ \A y \in Range(l) : <<y, x>> \in R
      BY <2>3, OrderedAppend
    <3>2. Ordered(sel, R) /\ Ordered(Append(sel, x), R)
      BY <2>1, <2>2, <3>1, OrderedAppend
    <3> QED BY <2>1, <3>2
  <2>4. Append(l, x) \in Seq(T)
    OBVIOUS
  <2> QED BY <2>3, <2>4
<1> HIDE DEF G
<1>3. Seq(T) \subseteq G
  <2>1. \A l \in Seq(T) : \A x \in T : l \in G => Append(l, x) \in G
    BY <1>2
  <2> QED BY <1>1, <2>1, ByAppending
<1> QED BY <1>3 DEF G

-----------------------------------------------------------------------------
(* The daily series.                                                       *)

\* Nothing adds up to nothing.
LEMMA TotalZeros ==
  ASSUME NEW s \in Seq(Int), \A n \in 1 .. Len(s) : s[n] = 0
  PROVE  Total(s) = 0
<1> DEFINE len == Len(s)
<1>1. len \in Nat
  OBVIOUS
<1>2. PICK h \in [0 .. len -> Int] :
        Total(s) = h[len] /\ h[0] = 0 /\ \A n \in 1 .. len : h[n] = h[n - 1] + s[n]
  BY TotalIsSum
<1>3. \A n \in 1 .. len : s[n] = 0
  OBVIOUS
<1> HIDE DEF len
<1> DEFINE N == {n \in Nat : n <= len => h[n] = 0}
<1>4. 0 \in N
  BY <1>2
<1>5. ASSUME NEW n \in Nat, n \in N PROVE n + 1 \in N
  <2> SUFFICES ASSUME n + 1 <= len PROVE h[n + 1] = 0
    OBVIOUS
  <2>1. n + 1 \in 1 .. len /\ n + 1 - 1 = n /\ h[n] = 0
    BY <1>1, <1>5
  <2> QED BY <1>2, <1>3, <2>1
<1> HIDE DEF N
<1>6. len \in N
  BY <1>1, <1>4, <1>5, FromZeroOn
<1> QED BY <1>1, <1>2, <1>6 DEF N

\* What was earned by the trades that closed on some days.
Earned(trades, days) == Total(Pnls(ClosedOn(trades, days)))

LEMMA ExitDayType ==
  ASSUME NEW tr \in TradeRecord
  PROVE  ExitDay(tr) \in Nat
<1>1. tr.exit \in Nat /\ DayHours \in Nat /\ DayHours > 0
  BY StatisticsAssumption DEF TradeRecord
<1>2. \A x, d \in Nat : d > 0 => x \div d \in Nat
  BY Z3
<1> QED BY <1>1, <1>2 DEF ExitDay

LEMMA ClosedOnType ==
  ASSUME NEW trades \in Seq(TradeRecord), NEW days
  PROVE  ClosedOn(trades, days) \in Seq(TradeRecord)
BY SelectedRange DEF ClosedOn

\* One more trade has its own pnl.
LEMMA PnlsAppend ==
  ASSUME NEW l \in Seq(TradeRecord), NEW x \in TradeRecord
  PROVE  Pnls(l) \in Seq(Int) /\ Pnls(Append(l, x)) = Append(Pnls(l), x.pnl)
<1>1. DOMAIN l = 1 .. Len(l) /\ Len(l) \in Nat /\ \A n \in 1 .. Len(l) : l[n].pnl \in Int
  <2>1. DOMAIN l = 1 .. Len(l) /\ Len(l) \in Nat /\ \A n \in 1 .. Len(l) : l[n] \in TradeRecord
    OBVIOUS
  <2>2. \A tr \in TradeRecord : tr.pnl \in Int
    BY DEF TradeRecord
  <2> QED BY <2>1, <2>2
<1>2. x.pnl \in Int
  BY DEF TradeRecord
<1> DEFINE t == Append(l, x)  p == Pnls(l)  q == Pnls(t)
<1>3. /\ DOMAIN t = 1 .. Len(l) + 1 /\ t[Len(l) + 1] = x
      /\ \A n \in 1 .. Len(l) : t[n] = l[n]
  OBVIOUS
<1>4. p = [n \in 1 .. Len(l) |-> l[n].pnl] /\ p \in Seq(Int) /\ Len(p) = Len(l)
  BY <1>1 DEF Pnls
<1> HIDE DEF t
<1>5. q = [n \in 1 .. Len(l) + 1 |-> t[n].pnl]
  BY <1>3 DEF Pnls
<1>6. q \in Seq(Int) /\ Len(q) = Len(l) + 1
  <2>1. \A n \in 1 .. Len(l) + 1 : t[n].pnl \in Int
    <3> SUFFICES ASSUME NEW n \in 1 .. Len(l) + 1 PROVE t[n].pnl \in Int
      OBVIOUS
    <3>1. CASE n = Len(l) + 1
      BY <1>2, <1>3, <3>1
    <3>2. CASE n \in 1 .. Len(l)
      BY <1>1, <1>3, <3>2
    <3> QED BY <1>1, <3>1, <3>2
  <2> QED BY <1>1, <1>5, <2>1
<1>7. Append(p, x.pnl) \in Seq(Int) /\ Len(Append(p, x.pnl)) = Len(l) + 1
  BY <1>2, <1>4
<1>8. \A n \in 1 .. Len(l) + 1 : q[n] = Append(p, x.pnl)[n]
  <2> SUFFICES ASSUME NEW n \in 1 .. Len(l) + 1 PROVE q[n] = Append(p, x.pnl)[n]
    OBVIOUS
  <2>1. q[n] = t[n].pnl
    BY <1>5
  <2>2. CASE n = Len(l) + 1
    <3>1. Append(p, x.pnl)[n] = x.pnl
      BY <1>4, <2>2
    <3> QED BY <1>3, <2>1, <2>2, <3>1
  <2>3. CASE n \in 1 .. Len(l)
    <3>1. Append(p, x.pnl)[n] = p[n] /\ p[n] = l[n].pnl
      BY <1>4, <2>3
    <3> QED BY <1>3, <2>1, <2>3, <3>1
  <2>4. n = Len(l) + 1 \/ n \in 1 .. Len(l)
    BY <1>1
  <2> QED BY <2>2, <2>3, <2>4
<1> HIDE DEF p, q
<1>9. q = Append(p, x.pnl)
  <2>1. \A n \in 1 .. Len(q) : q[n] = Append(p, x.pnl)[n]
    BY <1>6, <1>8
  <2> QED BY <1>6, <1>7, <2>1, SeqEqual
<1> QED BY <1>4, <1>9 DEF p, q, t

\* One more trade counts on the day it closes.
LEMMA EarnedAppend ==
  ASSUME NEW l \in Seq(TradeRecord), NEW x \in TradeRecord, NEW days
  PROVE  /\ Earned(l, days) \in Int
         /\ Earned(Append(l, x), days) =
              Earned(l, days) + (IF ExitDay(x) \in days THEN x.pnl ELSE 0)
<1> DEFINE S == {tr \in TradeRecord : ExitDay(tr) \in days}
           sel == Selected(l, S)
<1>2. Earned(l, days) = Total(Pnls(sel))
      /\ Earned(Append(l, x), days) = Total(Pnls(Selected(Append(l, x), S)))
  BY DEF Earned, ClosedOn
<1>3. x \in S <=> ExitDay(x) \in days
  OBVIOUS
<1> HIDE DEF S
<1>1. /\ sel \in Seq(TradeRecord)
      /\ Selected(Append(l, x), S) = IF x \in S THEN Append(sel, x) ELSE sel
  BY SelectedAppend
<1> HIDE DEF sel
<1>4. Pnls(sel) \in Seq(Int) /\ Pnls(Append(sel, x)) = Append(Pnls(sel), x.pnl) /\ x.pnl \in Int
  BY <1>1, PnlsAppend DEF TradeRecord
<1>5. /\ Total(Pnls(sel)) \in Int
      /\ Total(Append(Pnls(sel), x.pnl)) = Total(Pnls(sel)) + x.pnl
  BY <1>4, TotalType, TotalAppend
<1>6. CASE ExitDay(x) \in days
  <2>1. Selected(Append(l, x), S) = Append(sel, x)
    BY <1>1, <1>3, <1>6
  <2> QED BY <1>2, <1>4, <1>5, <1>6, <2>1
<1>7. CASE ExitDay(x) \notin days
  <2>1. Selected(Append(l, x), S) = sel
    BY <1>1, <1>3, <1>7
  <2> QED BY <1>2, <1>5, <1>7, <2>1
<1> QED BY <1>6, <1>7

LEMMA EarnedNothing ==
  ASSUME NEW days
  PROVE  Earned(<<>>, days) = 0
<1>1. ClosedOn(<<>>, days) = <<>>
  BY SelectedEmpty DEF ClosedOn
<1>2. Pnls(<<>>) = <<>>
  BY DEF Pnls
<1> QED BY <1>1, <1>2, TotalEmpty DEF Earned

Earlier == {p \in Int \X Int : p[1] < p[2]}

Weekdays == {d \in Nat : Weekday(d)}

Series(l, span) == [n \in DOMAIN span |-> Earned(l, {span[n]})]

LEMMA SeriesType ==
  ASSUME NEW l \in Seq(TradeRecord), NEW span \in Seq(Nat)
  PROVE  /\ Series(l, span) \in Seq(Int) /\ Len(Series(l, span)) = Len(span)
         /\ \A n \in 1 .. Len(span) : Series(l, span)[n] = Earned(l, {span[n]})
<1>1. \A days : Earned(l, days) \in Int
  <2>1. \A days : ClosedOn(l, days) \in Seq(TradeRecord)
    BY ClosedOnType
  <2>2. \A s \in Seq(TradeRecord) : Pnls(s) \in Seq(Int)
    <3>1. [entry |-> 0, exit |-> 0, r |-> 0, pnl |-> 0] \in TradeRecord
      BY DEF TradeRecord
    <3> QED BY <3>1, PnlsAppend
  <2> QED BY <2>1, <2>2, TotalType DEF Earned
<1>2. DOMAIN span = 1 .. Len(span) /\ Len(span) \in Nat
  OBVIOUS
<1>3. Series(l, span) = [n \in 1 .. Len(span) |-> Earned(l, {span[n]})]
  BY <1>2 DEF Series
<1> HIDE DEF Series
<1>4. \A n \in 1 .. Len(span) : Series(l, span)[n] = Earned(l, {span[n]})
  BY <1>3
<1>5. Series(l, span) \in Seq(Int) /\ Len(Series(l, span)) = Len(span)
  BY <1>1, <1>2, <1>3
<1> QED BY <1>4, <1>5

\* Every trade that closes on one of the days counts on one day exactly.
LEMMA SeriesTotal ==
  ASSUME NEW span \in Seq(Nat), Ordered(span, Earlier), Range(span) \subseteq Weekdays,
         NEW trades \in Seq(TradeRecord),
         \A tr \in Range(trades) : Weekday(ExitDay(tr)) => ExitDay(tr) \in Range(span)
  PROVE  Total(Series(trades, span)) = Earned(trades, Weekdays)
<1> DEFINE Covered(l) == \A tr \in Range(l) : Weekday(ExitDay(tr)) => ExitDay(tr) \in Range(span)
           G == {l \in Seq(TradeRecord) :
                   Covered(l) => Total(Series(l, span)) = Earned(l, Weekdays)}
<1>1. <<>> \in G
  <2>1. <<>> \in Seq(TradeRecord)
    OBVIOUS
  <2>2. \A n \in 1 .. Len(span) : Series(<<>>, span)[n] = 0
    BY <2>1, SeriesType, EarnedNothing
  <2>3. Series(<<>>, span) \in Seq(Int) /\ Len(Series(<<>>, span)) = Len(span)
    BY <2>1, SeriesType
  <2>4. Total(Series(<<>>, span)) = 0
    BY <2>2, <2>3, TotalZeros
  <2> QED BY <2>1, <2>4, EarnedNothing
<1>2. ASSUME NEW l \in Seq(TradeRecord), NEW x \in TradeRecord, l \in G
      PROVE  Append(l, x) \in G
  <2> DEFINE t == Append(l, x)  s1 == Series(l, span)  s2 == Series(t, span)
             day == ExitDay(x)
  <2>1. t \in Seq(TradeRecord) /\ Range(t) = Range(l) \union {x}
    BY RangeOfList
  <2>2. /\ s1 \in Seq(Int) /\ Len(s1) = Len(span)
        /\ \A n \in 1 .. Len(span) : s1[n] = Earned(l, {span[n]})
    BY SeriesType
  <2>3. /\ s2 \in Seq(Int) /\ Len(s2) = Len(span)
        /\ \A n \in 1 .. Len(span) : s2[n] = Earned(t, {span[n]})
    BY <2>1, SeriesType
  <2>4. \A days : /\ Earned(l, days) \in Int
                  /\ Earned(t, days) = Earned(l, days) + (IF day \in days THEN x.pnl ELSE 0)
    BY EarnedAppend
  <2>5. x.pnl \in Int /\ day \in Nat /\ Len(span) \in Nat
        /\ \A n \in 1 .. Len(span) : span[n] \in Range(span) /\ span[n] \in Nat
    BY ExitDayType DEF TradeRecord, Range
  <2> HIDE DEF s1, s2, t, day
  <2>6. ASSUME Covered(t) PROVE Total(s2) = Earned(t, Weekdays)
    <3>1. Total(s1) = Earned(l, Weekdays)
      BY <1>2, <2>1, <2>6 DEF s1
    <3>2. CASE Weekday(day)
      <4>1. day \in Range(span)
        BY <2>1, <2>6, <3>2 DEF day
      <4>2. PICK m \in 1 .. Len(span) : span[m] = day
        BY <4>1 DEF Range
      <4>3. \A n \in 1 .. Len(span) : n # m => span[n] # day
        <5> SUFFICES ASSUME NEW n \in 1 .. Len(span), n # m PROVE span[n] # day
          OBVIOUS
        <5>1. n < m => span[n] < span[m]
          BY DEF Ordered, Earlier
        <5>2. m < n => span[m] < span[n]
          BY DEF Ordered, Earlier
        <5> QED BY <2>5, <4>2, <5>1, <5>2
      <4>4. s2[m] = s1[m] + x.pnl
        BY <2>2, <2>3, <2>4, <4>2
      <4>5. \A n \in 1 .. Len(span) : n # m => s2[n] = s1[n]
        <5> SUFFICES ASSUME NEW n \in 1 .. Len(span), n # m PROVE s2[n] = s1[n]
          OBVIOUS
        <5>1. day \notin {span[n]}
          BY <4>3
        <5>2. PICK D : D = {span[n]}
          OBVIOUS
        <5>3. Earned(t, D) = Earned(l, D)
          BY <2>4, <5>1, <5>2
        <5> QED BY <2>2, <2>3, <5>2, <5>3
      <4>6. Total(s2) = Total(s1) + x.pnl
        BY <2>2, <2>3, <2>5, <4>4, <4>5, TotalChange
      <4>7. day \in Weekdays
        BY <2>5, <3>2 DEF Weekdays
      <4> QED BY <2>4, <3>1, <4>6, <4>7
    <3>3. CASE ~Weekday(day)
      <4>1. \A n \in 1 .. Len(span) : s2[n] = s1[n]
        <5> SUFFICES ASSUME NEW n \in 1 .. Len(span) PROVE s2[n] = s1[n]
          OBVIOUS
        <5>1. day \notin {span[n]}
          BY <2>5, <3>3 DEF Weekdays
        <5>2. PICK D : D = {span[n]}
          OBVIOUS
        <5>3. Earned(t, D) = Earned(l, D)
          BY <2>4, <5>1, <5>2
        <5> QED BY <2>2, <2>3, <5>2, <5>3
      <4>2. s2 = s1
        BY <2>2, <2>3, <4>1, SeqEqual
      <4>3. day \notin Weekdays
        BY <3>3 DEF Weekdays
      <4> QED BY <2>4, <3>1, <4>2, <4>3
    <3> QED BY <3>2, <3>3
  <2> QED BY <2>1, <2>6 DEF s2, t
<1> HIDE DEF G
<1>3. Seq(TradeRecord) \subseteq G
  <2>1. \A l \in Seq(TradeRecord) : \A x \in TradeRecord : l \in G => Append(l, x) \in G
    BY <1>2
  <2> QED BY <1>1, <2>1, ByAppending
<1> QED BY <1>3 DEF G

\* Min and Max are in a set that is bounded.
LEMMA EndsOf ==
  ASSUME NEW S, S \subseteq Nat, S # {}, NEW bound \in Nat, \A y \in S : y <= bound
  PROVE  /\ Min(S) \in S /\ \A y \in S : Min(S) <= y
         /\ Max(S) \in S /\ \A y \in S : y <= Max(S)
<1>1. \E x \in S : \A y \in S : x <= y
  BY LeastNatural
<1>2. \E x \in S : \A y \in S : x >= y
  <2> DEFINE U == {u \in Nat : \A y \in S : y <= u}
  <2>1. U \subseteq Nat /\ U # {}
    OBVIOUS
  <2>2. PICK u \in U : \A w \in U : u <= w
    BY <2>1, LeastNatural
  <2>3. u \in Nat /\ \A y \in S : y <= u
    OBVIOUS
  <2>4. u \in S
    <3> SUFFICES ASSUME u \notin S PROVE FALSE
      OBVIOUS
    <3>1. \A y \in S : y \in Nat /\ y <= u - 1
      BY <2>3
    <3>2. u - 1 \in Nat
      <4>1. PICK y \in S : TRUE
        OBVIOUS
      <4>2. y \in Nat /\ y <= u - 1
        BY <3>1
      <4> QED BY <2>3, <4>2
    <3>3. u - 1 \in U
      BY <3>1, <3>2
    <3> QED BY <2>2, <2>3, <3>3
  <2> QED BY <2>3, <2>4
<1>3. Min(S) \in S /\ \A y \in S : Min(S) <= y
  BY <1>1 DEF Min
<1>4. Max(S) \in S /\ \A y \in S : Max(S) >= y
  BY <1>2 DEF Max
<1> QED BY <1>3, <1>4

\* The days of the daily series: weekdays, in order, all on which a trade closed.
SpanOf(trades, span) ==
  /\ span \in Seq(Nat) /\ Ordered(span, Earlier) /\ Range(span) \subseteq Weekdays
  /\ \A tr \in Range(trades) : Weekday(ExitDay(tr)) => ExitDay(tr) \in Range(span)

\* daily_returns: the series is one of such days.
LEMMA DailySpan ==
  ASSUME NEW trades \in Seq(TradeRecord)
  PROVE  \E span : SpanOf(trades, span) /\ DailyReturns(trades) = Series(trades, span)
<1> DEFINE days == {ExitDay(trades[k]) : k \in DOMAIN trades}
           all == [n \in 1 .. Max(days) - Min(days) + 1 |-> Min(days) + n - 1]
           span == IF days = {} THEN <<>> ELSE Selected(all, Weekdays)
<1>1. DailyReturns(trades) = Series(trades, span)
  BY DEF DailyReturns, Series, Earned, Weekdays
<1>2. /\ DOMAIN trades = 1 .. Len(trades) /\ Len(trades) \in Nat
      /\ \A n \in 1 .. Len(trades) : ExitDay(trades[n]) \in Nat
  BY ExitDayType
<1>3. days = {ExitDay(tr) : tr \in Range(trades)}
  BY DEF Range
<1>4. CASE days = {}
  <2>1. span = <<>>
    BY <1>4
  <2>2. Range(trades) = {}
    <3> HIDE DEF days
    <3>1. \A tr \in Range(trades) : ExitDay(tr) \in days
      BY <1>3
    <3> QED BY <1>4, <3>1
  <2> HIDE DEF span
  <2>3. Range(span) = {} /\ span \in Seq(Nat) /\ Len(span) = 0
    BY <2>1, RangeOfList
  <2>4. SpanOf(trades, span)
    BY <2>2, <2>3 DEF SpanOf, Ordered
  <2> QED BY <1>1, <2>4
<1>5. CASE days # {}
  <2>1. PICK bound \in Nat : \A y \in days : y <= bound
    <3> DEFINE h == [n \in 0 .. Len(trades) |-> IF n = 0 THEN 0 ELSE ExitDay(trades[n])]
    <3>1. \A n \in 0 .. Len(trades) : h[n] \in Nat
      BY <1>2
    <3>2. \A n \in 1 .. Len(trades) : h[n] = ExitDay(trades[n]) /\ n \in 0 .. Len(trades)
      OBVIOUS
    <3> HIDE DEF h
    <3>3. PICK m \in 0 .. Len(trades) : \A n \in 0 .. Len(trades) : h[n] <= h[m]
      BY <1>2, <3>1, PeakExists
    <3>4. \A n \in 1 .. Len(trades) : ExitDay(trades[n]) <= h[m]
      BY <3>2, <3>3
    <3> QED BY <1>2, <3>1, <3>4
  <2>2. days \subseteq Nat
    BY <1>2
  <2> DEFINE lo == Min(days)  hi == Max(days)
  <2>3. /\ lo \in days /\ hi \in days /\ \A y \in days : lo <= y /\ y <= hi
    <3> HIDE DEF days
    <3> QED BY <1>5, <2>1, <2>2, EndsOf
  <2>4. lo \in Nat /\ hi \in Nat /\ lo <= hi
    BY <2>2, <2>3
  <2>5. all = [n \in 1 .. hi - lo + 1 |-> lo + n - 1]
    OBVIOUS
  <2> HIDE DEF lo, hi, all
  <2>6. /\ all \in Seq(Nat) /\ Len(all) = hi - lo + 1 /\ DOMAIN all = 1 .. hi - lo + 1
        /\ \A n \in 1 .. hi - lo + 1 : all[n] = lo + n - 1
    BY <2>4, <2>5
  <2>7. Ordered(all, Earlier)
    <3> SUFFICES ASSUME NEW i \in 1 .. hi - lo + 1, NEW j \in 1 .. hi - lo + 1, i < j
                 PROVE  <<all[i], all[j]>> \in Earlier
      BY <2>6 DEF Ordered
    <3> QED BY <2>4, <2>6 DEF Earlier
  <2>8. \A d \in lo .. hi : d \in Range(all)
    <3> SUFFICES ASSUME NEW d \in lo .. hi PROVE d \in Range(all)
      OBVIOUS
    <3>1. d - lo + 1 \in 1 .. hi - lo + 1 /\ all[d - lo + 1] = d
      BY <2>4, <2>6
    <3> QED BY <2>6, <3>1 DEF Range
  <2>9. span = Selected(all, Weekdays)
    BY <1>5
  <2> HIDE DEF span
  <2>10. /\ span \in Seq(Nat) /\ Range(span) = Range(all) \cap Weekdays
         /\ Ordered(span, Earlier)
    BY <2>6, <2>7, <2>9, SelectedRange, SelectedOrder
  <2>11. ASSUME NEW tr \in Range(trades), Weekday(ExitDay(tr))
         PROVE  ExitDay(tr) \in Range(span)
    <3>1. ExitDay(tr) \in days
      BY <1>3
    <3>2. ExitDay(tr) \in lo .. hi /\ ExitDay(tr) \in Nat
      BY <2>2, <2>3, <2>4, <3>1
    <3> QED BY <2>8, <2>10, <2>11, <3>2 DEF Weekdays
  <2>12. SpanOf(trades, span)
    BY <2>10, <2>11 DEF SpanOf
  <2> QED BY <1>1, <2>12
<1> QED BY <1>4, <1>5

\* A list has no more different elements than elements.
LEMMA RangeBound ==
  ASSUME NEW T, NEW s \in Seq(T)
  PROVE  IsFiniteSet(Range(s)) /\ Cardinality(Range(s)) \in Nat /\ Cardinality(Range(s)) <= Len(s)
<1>1. DOMAIN s = 1 .. Len(s) /\ Len(s) \in Nat
  OBVIOUS
<1>2. s \in Surjection(1 .. Len(s), Range(s))
  BY <1>1 DEF Surjection, Range
<1>3. IsFiniteSet(1 .. Len(s)) /\ Cardinality(1 .. Len(s)) = Len(s)
  BY <1>1, FS_Interval
<1>4. IsFiniteSet(Range(s)) /\ Cardinality(Range(s)) <= Len(s)
  BY <1>2, <1>3, FS_Surjection
<1> QED BY <1>4, FS_CardinalityType

\* The daily series loses nothing that closes on a weekday, and has every such day.
LEMMA DailyComplete ==
  ASSUME NEW trades \in Seq(TradeRecord)
  PROVE  LET week == ClosedOn(trades, Weekdays) IN
         /\ Total(DailyReturns(trades)) = Total(Pnls(week))
         /\ Len(DailyReturns(trades)) >= Cardinality({ExitDay(week[k]) : k \in DOMAIN week})
<1> DEFINE week == ClosedOn(trades, Weekdays)
           exits == {ExitDay(week[k]) : k \in DOMAIN week}
<1>1. PICK span : SpanOf(trades, span) /\ DailyReturns(trades) = Series(trades, span)
  BY DailySpan
<1>2. span \in Seq(Nat) /\ Len(Series(trades, span)) = Len(span)
  BY <1>1, SeriesType DEF SpanOf
<1>3. Total(Series(trades, span)) = Total(Pnls(week))
  BY <1>1, SeriesTotal DEF SpanOf, Earned
<1>4. exits \subseteq Range(span)
  <2>1. week \in Seq(TradeRecord)
        /\ Range(week) = Range(trades) \cap {tr \in TradeRecord : ExitDay(tr) \in Weekdays}
    BY SelectedRange DEF ClosedOn
  <2>2. \A tr \in Range(week) : tr \in Range(trades) /\ Weekday(ExitDay(tr))
    BY <2>1 DEF Weekdays
  <2>3. \A k \in DOMAIN week : week[k] \in Range(week)
    BY DEF Range
  <2> HIDE DEF week
  <2> QED BY <1>1, <2>2, <2>3 DEF SpanOf
<1>5. /\ IsFiniteSet(Range(span)) /\ Cardinality(Range(span)) \in Nat
      /\ Cardinality(Range(span)) <= Len(span)
  BY <1>2, RangeBound
<1>6. Cardinality(exits) <= Cardinality(Range(span)) /\ Cardinality(exits) \in Nat
  <2> HIDE DEF exits
  <2> QED BY <1>4, <1>5, FS_Subset, FS_CardinalityType
<1> HIDE DEF exits, week
<1>7. Len(span) \in Nat
  BY <1>2
<1>8. Len(Series(trades, span)) >= Cardinality(exits)
  BY <1>2, <1>5, <1>6, <1>7
<1> QED BY <1>1, <1>3, <1>8 DEF exits, week

-----------------------------------------------------------------------------
(* The windows of the walk-forward.                                        *)

Month == DayHours * MonthDays

LEMMA MonthType == Month \in Nat /\ Month > 0
<1>1. DayHours \in Nat /\ DayHours > 0 /\ MonthDays \in Nat /\ MonthDays > 0
  BY StatisticsAssumption
<1>2. \A a, b \in Nat : a > 0 /\ b > 0 => a * b \in Nat /\ a * b > 0
  OBVIOUS
<1> QED BY <1>1, <1>2 DEF Month

LEMMA Division ==
  /\ \A x, d \in Nat : d > 0 => /\ x \div d \in Nat /\ (x \div d) * d <= x
                                /\ x < (x \div d) * d + d
  /\ \A q, d \in Nat : d > 0 => (q * d) \div d = q
<1>1. \A x, d \in Nat : d > 0 => /\ x \div d \in Nat /\ (x \div d) * d <= x
                                 /\ x < (x \div d) * d + d
  BY Z3
<1>2. \A q, d \in Nat : d > 0 => (q * d) \div d = q
  BY Z3
<1> QED BY <1>1, <1>2

\* Months are added in months of the calendar.
LEMMA AddMonthsIs ==
  ASSUME NEW t \in Nat, NEW n \in Int
  PROVE  /\ AddMonths(t, n) = (t \div Month + n) * Month
         /\ t \div Month \in Nat
<1>1. t \div Month \in Nat
  BY MonthType, Division
<1>2. \A x \in Int : x * DayHours * MonthDays = x * Month
  <2>1. DayHours \in Nat /\ MonthDays \in Nat
    BY StatisticsAssumption
  <2> QED BY <2>1 DEF Month
<1>3. AddMonths(t, n) = (t \div Month + n) * DayHours * MonthDays
  BY DEF AddMonths, Month
<1>4. t \div Month + n \in Int
  BY <1>1
<1> HIDE DEF Month
<1> QED BY <1>1, <1>2, <1>3, <1>4

\* The windows follow each other, and all but the first are some whole months long.
LEMMA CutsFollow ==
  ASSUME NEW period, period[1] \in Nat
  PROVE  /\ Cut(period, 0) = period[1]
         /\ \A n \in Nat : /\ Cut(period, n) \in Nat /\ Cut(period, n) < Cut(period, n + 1)
                           /\ Cut(period, n) >= n
         /\ \A n \in Nat \ {0} : /\ Cut(period, n) = AddMonths(Cut(period, n), 0)
                                 /\ Cut(period, n + 1) - Cut(period, n) = FoldMonths * Month
<1> DEFINE c(n) == Cut(period, n)  q == period[1] \div Month  F == FoldMonths
<1>1. F \in Nat /\ F > 0 /\ Month \in Nat /\ Month > 0
  BY StatisticsAssumption, MonthType
<1>2. q \in Nat /\ q * Month <= period[1] /\ period[1] < q * Month + Month
  BY MonthType, Division
<1>3. c(0) = period[1]
  BY DEF Cut
<1>4. \A n \in Nat : n * F \in Nat /\ (q + n * F) * Month \in Nat
  BY <1>1, <1>2
<1>5. \A n \in Nat \ {0} : c(n) = (q + n * F) * Month
  <2> SUFFICES ASSUME NEW n \in Nat \ {0} PROVE c(n) = (q + n * F) * Month
    OBVIOUS
  <2>1. c(n) = AddMonths(period[1], n * F) /\ n * F \in Int
    BY <1>1 DEF Cut
  <2> HIDE DEF q
  <2> QED BY <2>1, AddMonthsIs DEF q
<1> HIDE DEF q, F
<1>6. \A n \in Nat \ {0} : c(n + 1) = c(n) + F * Month
  <2> SUFFICES ASSUME NEW n \in Nat \ {0} PROVE c(n + 1) = c(n) + F * Month
    OBVIOUS
  <2>1. c(n) = (q + n * F) * Month /\ c(n + 1) = (q + (n + 1) * F) * Month
    BY <1>5
  <2>2. (q + (n + 1) * F) * Month = (q + n * F) * Month + F * Month
    BY <1>1, <1>2
  <2> HIDE DEF c
  <2> QED BY <2>1, <2>2
<1>7. F * Month \in Nat /\ F * Month >= Month
  BY <1>1
<1>8. \A n \in Nat : c(n) \in Nat /\ c(n) < c(n + 1)
  <2> SUFFICES ASSUME NEW n \in Nat PROVE c(n) \in Nat /\ c(n) < c(n + 1)
    OBVIOUS
  <2>1. CASE n = 0
    <3>1. c(1) = (q + 1 * F) * Month
      BY <1>5
    <3>2. (q + 1 * F) * Month = q * Month + F * Month /\ q * Month \in Nat
      BY <1>1, <1>2
    <3>3. c(0) < c(1)
      BY <1>1, <1>2, <1>3, <1>7, <3>1, <3>2
    <3> QED BY <1>3, <2>1, <3>3
  <2>2. CASE n # 0
    <3>1. c(n) \in Nat /\ c(n + 1) = c(n) + F * Month
      BY <1>4, <1>5, <1>6, <2>2
    <3> HIDE DEF c
    <3> QED BY <1>1, <1>7, <3>1
  <2> QED BY <2>1, <2>2
<1>9. \A n \in Nat : c(n) >= n
  <2> DEFINE N == {n \in Nat : c(n) >= n}
  <2>1. 0 \in N
    BY <1>3
  <2>2. ASSUME NEW n \in Nat, n \in N PROVE n + 1 \in N
    <3>1. c(n) >= n /\ c(n) < c(n + 1) /\ c(n) \in Nat /\ c(n + 1) \in Nat
      BY <1>8, <2>2
    <3>2. c(n + 1) >= n + 1
      <4> HIDE DEF c
      <4> QED BY <3>1
    <3> QED BY <3>2
  <2> HIDE DEF N
  <2>3. Nat \subseteq N
    BY <2>1, <2>2, FromZeroOn
  <2> QED BY <2>3 DEF N
<1>10. \A n \in Nat \ {0} : c(n) = AddMonths(c(n), 0)
  <2> SUFFICES ASSUME NEW n \in Nat \ {0} PROVE c(n) = AddMonths(c(n), 0)
    OBVIOUS
  <2>1. c(n) = (q + n * F) * Month /\ q + n * F \in Nat /\ c(n) \in Nat
    BY <1>1, <1>2, <1>4, <1>5
  <2>2. c(n) \div Month = q + n * F
    BY <1>1, <2>1, Division
  <2>3. AddMonths(c(n), 0) = (c(n) \div Month + 0) * Month
    BY <2>1, AddMonthsIs
  <2> HIDE DEF c
  <2> QED BY <2>1, <2>2, <2>3
<1>11. \A n \in Nat \ {0} : c(n + 1) - c(n) = F * Month
  <2> SUFFICES ASSUME NEW n \in Nat \ {0} PROVE c(n + 1) - c(n) = F * Month
    OBVIOUS
  <2>1. c(n) \in Nat /\ c(n + 1) = c(n) + F * Month
    BY <1>6, <1>8
  <2> HIDE DEF c
  <2> QED BY <1>7, <2>1
<1> QED BY <1>3, <1>8, <1>9, <1>10, <1>11 DEF F

\* Later windows end later.
LEMMA CutsOrdered ==
  ASSUME NEW period, period[1] \in Nat
  PROVE  \A i, j \in Nat : i < j => Cut(period, i) < Cut(period, j)
<1> DEFINE c(n) == Cut(period, n)
           N == {j \in Nat : \A i \in Nat : i < j => c(i) < c(j)}
<1>1. \A n \in Nat : c(n) \in Nat /\ c(n) < c(n + 1)
  BY CutsFollow
<1> HIDE DEF c
<1>2. 0 \in N
  OBVIOUS
<1>3. ASSUME NEW n \in Nat, n \in N PROVE n + 1 \in N
  <2> SUFFICES ASSUME NEW i \in Nat, i < n + 1 PROVE c(i) < c(n + 1)
    OBVIOUS
  <2>1. CASE i = n
    BY <1>1, <2>1
  <2>2. CASE i < n
    <3>1. c(i) < c(n) /\ c(n) < c(n + 1) /\ c(i) \in Nat /\ c(n) \in Nat /\ c(n + 1) \in Nat
      BY <1>1, <1>3, <2>2
    <3> QED BY <3>1
  <2> QED BY <2>1, <2>2
<1> HIDE DEF N
<1>4. Nat \subseteq N
  BY <1>2, <1>3, FromZeroOn
<1> QED BY <1>4 DEF N, c

\* The windows that begin before the end are the first ones.
LEMMA WindowCount ==
  ASSUME NEW period, period[1] \in Nat, NEW end \in Nat, period[1] < end
  PROVE  \E m \in Nat \ {0} :
           /\ Cardinality({n \in 0 .. end : Cut(period, n) < end}) = m
           /\ \A n \in 0 .. m - 1 : Cut(period, n) < end
           /\ Cut(period, m) >= end
<1> DEFINE c(n) == Cut(period, n)
           S == {n \in Nat : c(n) >= end}
<1>1. /\ c(0) = period[1] /\ \A n \in Nat : c(n) \in Nat /\ c(n) >= n
      /\ \A i, j \in Nat : i < j => c(i) < c(j)
  BY CutsFollow, CutsOrdered
<1> HIDE DEF c
<1>2. end \in S
  BY <1>1
<1>3. PICK m \in S : \A n \in S : m <= n
  BY <1>2, LeastNatural
<1>4. m \in Nat \ {0} /\ m <= end /\ c(m) >= end
  BY <1>1, <1>2, <1>3
<1>5. \A n \in 0 .. m - 1 : c(n) < end
  <2> SUFFICES ASSUME NEW n \in 0 .. m - 1 PROVE c(n) < end
    OBVIOUS
  <2>1. n \in Nat /\ n \notin S
    BY <1>3, <1>4
  <2> QED BY <1>1, <2>1
<1>6. {n \in 0 .. end : c(n) < end} = 0 .. m - 1
  <2>1. ASSUME NEW n \in 0 .. end, c(n) < end PROVE n \in 0 .. m - 1
    <3>1. n \in Nat /\ ~(m < n) /\ m # n
      BY <1>1, <1>4, <2>1
    <3> QED BY <1>4, <3>1
  <2>2. \A n \in 0 .. m - 1 : n \in 0 .. end
    BY <1>4
  <2> QED BY <1>5, <2>1, <2>2
<1>7. Cardinality(0 .. m - 1) = m
  BY <1>4, FS_Interval
<1> QED BY <1>4, <1>5, <1>6, <1>7 DEF c

\* The windows up to an end, the last one cut there.
Tiling(folds, period, end) ==
  /\ folds \in Seq(Nat \X Nat) /\ Len(folds) > 0
  /\ \A n \in 1 .. Len(folds) : folds[n][1] = Cut(period, n - 1)
  /\ \A n \in 1 .. Len(folds) - 1 : folds[n][2] = Cut(period, n)
  /\ folds[Len(folds)][2] = end /\ Cut(period, Len(folds) - 1) < end

Windows(period, end) ==
  LET count == Cardinality({n \in 0 .. end : Cut(period, n) < end})
  IN  [n \in 1 .. count |-> <<Cut(period, n - 1), Min({Cut(period, n), end})>>]

\* make_splits, before the stub is merged: the windows tile the period.
LEMMA WindowsTile ==
  ASSUME NEW period, period[1] \in Nat, NEW end \in Nat, period[1] < end
  PROVE  Tiling(Windows(period, end), period, end)
<1> DEFINE c(n) == Cut(period, n)  f == Windows(period, end)
<1>1. PICK m \in Nat \ {0} : /\ Cardinality({n \in 0 .. end : c(n) < end}) = m
                             /\ \A n \in 0 .. m - 1 : c(n) < end
                             /\ c(m) >= end
  BY WindowCount
<1>2. f = [n \in 1 .. m |-> <<c(n - 1), Min({c(n), end})>>]
  BY <1>1 DEF Windows
<1>3. \A n \in Nat : c(n) \in Nat
  BY CutsFollow
<1> HIDE DEF c, f
<1>4. \A n \in 1 .. m : Min({c(n), end}) = IF n < m THEN c(n) ELSE end
  <2> SUFFICES ASSUME NEW n \in 1 .. m PROVE Min({c(n), end}) = IF n < m THEN c(n) ELSE end
    OBVIOUS
  <2>0. PICK x \in Nat : x = c(n)
    BY <1>3
  <2>8. PICK T : T = {x, end}
    OBVIOUS
  <2>9. PICK y \in Nat : y = end
    OBVIOUS
  <2>1. x = c(n) /\ y = end /\ T = {x, y} /\ x \in Nat /\ y \in Nat
    BY <2>0, <2>8, <2>9
  <2>2. PICK b \in Nat : b = x + y
    BY <2>1
  <2>3. T \subseteq Nat /\ T # {} /\ \A z \in T : z <= b
    BY <2>1, <2>2
  <2>4. Min(T) \in T /\ \A z \in T : Min(T) <= z
    BY <2>3, EndsOf
  <2>5. Min(T) = IF x <= y THEN x ELSE y
    BY <2>1, <2>4
  <2>6. CASE n < m
    <3>1. c(n) < end
      BY <1>1, <2>6
    <3> QED BY <2>1, <2>5, <2>6, <3>1
  <2>7. CASE n = m
    <3>1. c(n) >= end
      BY <1>1, <2>7
    <3> QED BY <2>1, <2>5, <2>7, <3>1
  <2> QED BY <2>6, <2>7
<1>5. \A n \in 1 .. m : f[n] = <<c(n - 1), IF n < m THEN c(n) ELSE end>>
  BY <1>2, <1>4
<1>6. \A n \in 1 .. m : f[n] \in Nat \X Nat
  BY <1>3, <1>5
<1>7. DOMAIN f = 1 .. m /\ f \in Seq(Nat \X Nat) /\ Len(f) = m
  BY <1>2, <1>6
<1>8. /\ \A n \in 1 .. m : f[n][1] = c(n - 1)
      /\ \A n \in 1 .. m - 1 : f[n][2] = c(n)
      /\ f[m][2] = end /\ c(m - 1) < end
  BY <1>1, <1>5
<1>9. Tiling(f, period, end)
  BY <1>7, <1>8 DEF Tiling, c
<1> QED BY <1>9 DEF f

LongEnough == FoldMonths * StubDays * DayHours

\* As long as StubDays a month, and no longer than a whole window.
LEMMA LongEnoughType ==
  /\ LongEnough \in Nat /\ LongEnough <= FoldMonths * Month
  /\ FoldMonths * StubDays \in Nat /\ LongEnough = (FoldMonths * StubDays) * DayHours
<1>1. /\ FoldMonths \in Nat /\ StubDays \in Nat /\ DayHours \in Nat /\ MonthDays \in Nat
      /\ StubDays <= MonthDays
  BY StatisticsAssumption
<1>2. \A a, b, c, d \in Nat : b <= d => a * b * c <= a * (c * d)
  <2> SUFFICES ASSUME NEW a \in Nat, NEW b \in Nat, NEW c \in Nat, NEW d \in Nat, b <= d
               PROVE  a * b * c <= a * (c * d)
    OBVIOUS
  <2>1. PICK e \in Nat : d = b + e
    <3>1. d - b \in Nat /\ d = b + (d - b)
      OBVIOUS
    <3> QED BY <3>1
  <2>2. a * (c * d) = a * b * c + a * (c * e)
    BY <2>1
  <2>3. a * (c * e) \in Nat /\ a * b * c \in Nat
    OBVIOUS
  <2> QED BY <2>2, <2>3
<1>3. \A a, b, c \in Nat : a * b * c \in Nat /\ a * b \in Nat /\ a * b * c = (a * b) * c
  OBVIOUS
<1> QED BY <1>1, <1>2, <1>3 DEF LongEnough, Month

\* A window that is not a stub is long enough.
LEMMA NoStub ==
  ASSUME NEW x \in Nat, ~(x \div DayHours < FoldMonths * StubDays)
  PROVE  x >= LongEnough
<1> DEFINE q == x \div DayHours  K == FoldMonths * StubDays
<1>1. DayHours \in Nat /\ DayHours > 0
  BY StatisticsAssumption
<1>2. q \in Nat /\ q * DayHours <= x
  BY <1>1, Division
<1>3. K \in Nat /\ LongEnough = K * DayHours /\ q >= K
  BY <1>2, LongEnoughType
<1> HIDE DEF q, K
<1>4. q * DayHours >= K * DayHours
  BY <1>1, <1>2, <1>3
<1>5. q * DayHours \in Nat /\ K * DayHours \in Nat
  BY <1>1, <1>2, <1>3
<1> QED BY <1>2, <1>3, <1>4, <1>5

\* Merging a stub keeps the tiling, and leaves none but a lone one.
LEMMA MergedTile ==
  ASSUME NEW period, period[1] \in Nat, NEW end \in Nat,
         NEW folds, Tiling(folds, period, end)
  PROVE  LET g == MergeStub(folds)  n == Len(g) IN
         /\ Tiling(g, period, end)
         /\ n > 1 => g[n][2] - g[n][1] >= LongEnough
<1> DEFINE c(n) == Cut(period, n)  m == Len(folds)  stub == folds[m][2] - folds[m][1]
           g == MergeStub(folds)
<1>1. /\ \A n \in Nat : c(n) \in Nat /\ c(n) < c(n + 1)
      /\ \A n \in Nat \ {0} : c(n + 1) - c(n) = FoldMonths * Month
  BY CutsFollow
<1>2. /\ folds \in Seq(Nat \X Nat) /\ m \in Nat /\ m > 0
      /\ \A n \in 1 .. m : folds[n][1] = c(n - 1)
      /\ \A n \in 1 .. m - 1 : folds[n][2] = c(n)
      /\ folds[m][2] = end /\ c(m - 1) < end
  <2>1. folds \in Seq(Nat \X Nat) /\ m \in Nat /\ m > 0
    BY DEF Tiling
  <2> QED BY <2>1 DEF Tiling
<1>3. stub = end - c(m - 1) /\ c(m - 1) \in Nat /\ stub \in Nat
  <2>1. m - 1 \in Nat /\ m \in 1 .. m
    BY <1>2
  <2>2. c(m - 1) \in Nat /\ folds[m][1] = c(m - 1) /\ folds[m][2] = end /\ c(m - 1) < end
    BY <1>1, <1>2, <2>1
  <2> HIDE DEF c, m
  <2> QED BY <2>2
<1>4. CASE ~(m >= 2 /\ stub \div DayHours < FoldMonths * StubDays)
  <2>1. g = folds
    BY <1>4 DEF MergeStub
  <2>2. m > 1 => stub >= LongEnough
    BY <1>2, <1>3, <1>4, NoStub
  <2> QED BY <2>1, <2>2
<1>5. CASE m >= 2 /\ stub \div DayHours < FoldMonths * StubDays
  <2> DEFINE head2 == SubSeq(folds, 1, m - 2)  merged == <<folds[m - 1][1], folds[m][2]>>
  <2>1. g = Append(head2, merged)
    BY <1>5 DEF MergeStub
  <2>2. merged = <<c(m - 2), end>> /\ merged \in Nat \X Nat
    <3>1. m - 1 \in 1 .. m /\ m - 1 - 1 = m - 2 /\ m - 2 \in Nat
      BY <1>2, <1>5
    <3>2. folds[m - 1][1] = c(m - 2) /\ folds[m][2] = end /\ c(m - 2) \in Nat
      BY <1>1, <1>2, <3>1
    <3> HIDE DEF c, m
    <3> QED BY <3>2
  <2>3. /\ head2 \in Seq(Nat \X Nat) /\ Len(head2) = m - 2
        /\ \A n \in 1 .. m - 2 : head2[n] = folds[n]
    BY <1>2, <1>5, SubSeqProperties
  <2> HIDE DEF head2, merged, g, c, stub
  <2>4. /\ g \in Seq(Nat \X Nat) /\ Len(g) = m - 1 /\ g[m - 1] = merged
        /\ \A n \in 1 .. m - 2 : g[n] = folds[n]
    <3>0. m - 2 \in Nat
      <4>1. m >= 2 /\ m \in Nat
        BY <1>2, <1>5
      <4> HIDE DEF m
      <4> QED BY <4>1
    <3>1. PICK k \in Nat : k = m - 2
      BY <3>0
    <3>2. m - 1 = k + 1
      BY <1>2, <3>1
    <3>3. head2 \in Seq(Nat \X Nat) /\ Len(head2) = k /\ \A n \in 1 .. k : head2[n] = folds[n]
      BY <2>3, <3>1
    <3>4. g \in Seq(Nat \X Nat) /\ Len(g) = k + 1 /\ g[k + 1] = merged
          /\ \A n \in 1 .. k : g[n] = head2[n]
      BY <2>1, <2>2, <3>3
    <3> QED BY <3>1, <3>2, <3>3, <3>4
  <2>5. /\ \A n \in 1 .. m - 1 : g[n][1] = c(n - 1)
        /\ \A n \in 1 .. m - 2 : g[n][2] = c(n)
        /\ g[m - 1][2] = end
    <3>1. g[m - 1][1] = c(m - 2) /\ g[m - 1][2] = end
      BY <2>2, <2>4
    <3>2. \A n \in 1 .. m - 2 : g[n][1] = c(n - 1) /\ g[n][2] = c(n)
      <4> SUFFICES ASSUME NEW n \in 1 .. m - 2 PROVE g[n][1] = c(n - 1) /\ g[n][2] = c(n)
        OBVIOUS
      <4>1. n \in 1 .. m /\ n \in 1 .. m - 1
        BY <1>2
      <4> QED BY <1>2, <2>4, <4>1
    <3>3. \A n \in 1 .. m - 1 : n = m - 1 \/ n \in 1 .. m - 2
      BY <1>2
    <3>4. m - 1 - 1 = m - 2
      BY <1>2
    <3> QED BY <3>1, <3>2, <3>3, <3>4
  <2>6. c(m - 2) < end /\ m - 2 \in Nat
    <3>1. m - 2 \in Nat /\ m - 2 + 1 = m - 1
      BY <1>2, <1>5
    <3>2. c(m - 2) \in Nat /\ c(m - 1) \in Nat /\ c(m - 2) < c(m - 1)
      BY <1>1, <1>3, <3>1
    <3> QED BY <1>2, <3>1, <3>2
  <2>7. Tiling(g, period, end)
    <3>1. Len(g) > 0 /\ Len(g) - 1 = m - 2
      BY <1>2, <1>5, <2>4
    <3> QED BY <2>4, <2>5, <2>6, <3>1 DEF Tiling, c
  <2>8. ASSUME m - 1 > 1 PROVE g[m - 1][2] - g[m - 1][1] >= LongEnough
    <3>1. m - 2 \in Nat \ {0} /\ m - 2 + 1 = m - 1
      <4> HIDE DEF m
      <4> QED BY <1>2, <2>8
    <3>2. c(m - 1) - c(m - 2) = FoldMonths * Month /\ c(m - 2) \in Nat
      BY <1>1, <3>1
    <3>3. g[m - 1][2] - g[m - 1][1] = end - c(m - 2)
      BY <2>2, <2>4
    <3>4. FoldMonths * Month \in Nat /\ LongEnough <= FoldMonths * Month /\ LongEnough \in Nat
      <4>1. FoldMonths \in Nat /\ Month \in Nat
        BY StatisticsAssumption, MonthType
      <4> QED BY <4>1, LongEnoughType
    <3> QED BY <1>2, <1>3, <3>2, <3>3, <3>4
  <2> QED BY <2>4, <2>7, <2>8 DEF g
<1> QED BY <1>4, <1>5

\* The end of the windows is in the period, after its begin.
LEMMA DevEndType ==
  ASSUME NEW period, period[1] \in Nat, period[2] \in Nat, NEW months \in Nat
  PROVE  /\ DevEnd(period, months) \in Nat
         /\ period[1] < period[2] => period[1] < DevEnd(period, months)
<1>1. LockboxStart(period, months) \in Int
  <2>1. LockboxStart(period, months) = (period[2] \div Month + (-months)) * Month
    BY AddMonthsIs DEF LockboxStart
  <2>2. period[2] \div Month \in Nat /\ Month \in Nat
    <3>1. 0 \in Int
      OBVIOUS
    <3> QED BY <3>1, AddMonthsIs, MonthType
  <2>3. \A a, b, d \in Int : (a + b) * d \in Int
    OBVIOUS
  <2>4. -months \in Int
    OBVIOUS
  <2> QED BY <2>1, <2>2, <2>3, <2>4
<1>2. CASE HasLockbox(period, months)
  <2>1. DevEnd(period, months) = LockboxStart(period, months)
        /\ LockboxStart(period, months) > period[1]
    BY <1>2 DEF DevEnd, HasLockbox
  <2> QED BY <1>1, <2>1
<1>3. CASE ~HasLockbox(period, months)
  BY <1>3 DEF DevEnd
<1> QED BY <1>2, <1>3

\* make_splits: the stub of the windows is merged.
LEMMA FoldsAre ==
  ASSUME NEW period, NEW months
  PROVE  DevFolds(period, months) = MergeStub(Windows(period, DevEnd(period, months)))
BY DEF DevFolds, Windows

\* The folds tile the period up to the lockbox.
LEMMA FoldsTile ==
  ASSUME NEW period, period[1] \in Nat, period[2] \in Nat, NEW months \in Nat,
         period[1] < period[2]
  PROVE  LET folds == DevFolds(period, months)  n == Len(folds) IN
         /\ n > 0 /\ folds[1][1] = period[1] /\ folds[n][2] = DevEnd(period, months)
         /\ \A k \in 2 .. n : /\ folds[k][1] = folds[k - 1][2]
                              /\ folds[k][1] = AddMonths(folds[k][1], 0)
         /\ n > 1 => folds[n][2] - folds[n][1] >= FoldMonths * StubDays * DayHours
<1> DEFINE end == DevEnd(period, months)  raw == Windows(period, end)
           folds == DevFolds(period, months)  n == Len(folds)
<1>1. end \in Nat /\ period[1] < end
  BY DevEndType
<1> HIDE DEF end
<1>2. Tiling(raw, period, end)
  BY <1>1, WindowsTile
<1>3. folds = MergeStub(raw)
  BY FoldsAre DEF end
<1> HIDE DEF raw, folds
<1>4. Tiling(folds, period, end) /\ (n > 1 => folds[n][2] - folds[n][1] >= LongEnough)
  BY <1>1, <1>2, <1>3, MergedTile
<1>5. /\ n \in Nat /\ n > 0
      /\ \A k \in 1 .. n : folds[k][1] = Cut(period, k - 1)
      /\ \A k \in 1 .. n - 1 : folds[k][2] = Cut(period, k)
      /\ folds[n][2] = end
  BY <1>4 DEF Tiling
<1>6. folds[1][1] = period[1]
  <2>1. 1 \in 1 .. n /\ 1 - 1 = 0
    BY <1>5
  <2> QED BY <1>5, <2>1, CutsFollow
<1>7. ASSUME NEW k \in 2 .. n
      PROVE  folds[k][1] = folds[k - 1][2] /\ folds[k][1] = AddMonths(folds[k][1], 0)
  <2>1. k \in 1 .. n /\ k - 1 \in 1 .. n - 1 /\ k - 1 \in Nat \ {0}
    BY <1>5
  <2>2. Cut(period, k - 1) = AddMonths(Cut(period, k - 1), 0)
    BY <2>1, CutsFollow
  <2> QED BY <1>5, <2>1, <2>2
<1> QED BY <1>4, <1>5, <1>6, <1>7 DEF end, folds, LongEnough

-----------------------------------------------------------------------------
(* What the folds earn.                                                    *)

\* The folds are a list of windows, also of no period.
LEMMA FoldsAreWindows ==
  ASSUME NEW period, period[1] \in Nat, period[2] \in Nat, NEW months \in Nat
  PROVE  DevFolds(period, months) \in Seq(Nat \X Nat)
<1> DEFINE end == DevEnd(period, months)  raw == Windows(period, end)
<1>1. end \in Nat
  BY DevEndType
<1>2. DevFolds(period, months) = MergeStub(raw)
  BY FoldsAre
<1> HIDE DEF end
<1>3. CASE period[1] < end
  <2>1. Tiling(raw, period, end)
    BY <1>1, <1>3, WindowsTile
  <2> HIDE DEF raw
  <2>2. Tiling(MergeStub(raw), period, end)
    BY <1>1, <2>1, MergedTile
  <2> QED BY <1>2, <2>2 DEF Tiling
<1>4. CASE ~(period[1] < end)
  <2>1. \A n \in Nat : Cut(period, n) >= period[1]
    <3> SUFFICES ASSUME NEW n \in Nat PROVE Cut(period, n) >= period[1]
      OBVIOUS
    <3>1. Cut(period, 0) = period[1]
      BY CutsFollow
    <3>2. n > 0 => Cut(period, 0) < Cut(period, n)
      BY CutsOrdered
    <3>3. Cut(period, n) \in Nat
      BY CutsFollow
    <3> QED BY <3>1, <3>2, <3>3
  <2>2. \A n \in 0 .. end : ~(Cut(period, n) < end)
    <3> SUFFICES ASSUME NEW n \in 0 .. end PROVE ~(Cut(period, n) < end)
      OBVIOUS
    <3>1. n \in Nat
      OBVIOUS
    <3>2. Cut(period, n) >= period[1] /\ Cut(period, n) \in Nat
      BY <2>1, <3>1, CutsFollow
    <3> QED BY <1>1, <1>4, <3>2
  <2>3. {n \in 0 .. end : Cut(period, n) < end} = {}
    BY <2>2
  <2>4. Cardinality({}) = 0
    BY FS_EmptySet
  <2>5. Cardinality({n \in 0 .. end : Cut(period, n) < end}) = 0
    BY <2>3, <2>4
  <2>6. raw = <<>>
    <3> DEFINE K == {n \in 0 .. end : Cut(period, n) < end}
               w(count) == [n \in 1 .. count |-> <<Cut(period, n - 1), Min({Cut(period, n), end})>>]
    <3>1. raw = w(Cardinality(K))
      BY DEF Windows
    <3>2. Cardinality(K) = 0
      BY <2>5
    <3>3. w(0) = <<>>
      OBVIOUS
    <3> HIDE DEF w, K, raw
    <3> QED BY <3>1, <3>2, <3>3
  <2>7. MergeStub(raw) = <<>>
    BY <2>6 DEF MergeStub
  <2> QED BY <1>2, <2>7
<1> QED BY <1>3, <1>4

\* h holds the trades of the first folds.
Joined(trades, folds, n, v) == v \o TradesIn(trades, folds[n])

Joins(trades, folds, h) ==
  h = [n \in 0 .. Len(folds) |-> IF n = 0 THEN <<>> ELSE Joined(trades, folds, n, h[n - 1])]

JoinedUpTo(trades, folds, h) ==
  /\ h[0] = <<>> /\ \A n \in 1 .. Len(folds) : h[n] = Joined(trades, folds, n, h[n - 1])

\* Fold by fold.
LEMMA JoinsEach ==
  ASSUME NEW trades, NEW T, NEW folds \in Seq(T), NEW h
  PROVE  Joins(trades, folds, h) <=> /\ h = [n \in 0 .. Len(folds) |-> h[n]]
                                     /\ JoinedUpTo(trades, folds, h)
<1>1. ASSUME Joins(trades, folds, h)
      PROVE  h = [n \in 0 .. Len(folds) |-> h[n]] /\ JoinedUpTo(trades, folds, h)
  BY <1>1 DEF Joins, JoinedUpTo
<1>2. ASSUME h = [n \in 0 .. Len(folds) |-> h[n]], JoinedUpTo(trades, folds, h)
      PROVE  Joins(trades, folds, h)
  <2>1. \A n \in 0 .. Len(folds) :
          h[n] = IF n = 0 THEN <<>> ELSE Joined(trades, folds, n, h[n - 1])
    <3> SUFFICES ASSUME NEW n \in 0 .. Len(folds)
                 PROVE  h[n] = IF n = 0 THEN <<>> ELSE Joined(trades, folds, n, h[n - 1])
      OBVIOUS
    <3>1. CASE n = 0
      BY <1>2, <3>1 DEF JoinedUpTo
    <3>2. CASE n # 0
      <4>1. n \in 1 .. Len(folds)
        BY <3>2
      <4>2. h[n] = Joined(trades, folds, n, h[n - 1])
        BY <1>2, <4>1, Zenon DEF JoinedUpTo
      <4> QED BY <3>2, <4>2, Zenon
    <3> QED BY <3>1, <3>2
  <2> QED BY <1>2, <2>1, Zenon DEF Joins
<1> QED BY <1>1, <1>2

\* The trades of the folds are trades.
LEMMA DevTradesType ==
  ASSUME NEW trades \in Seq(TradeRecord), NEW period, period[1] \in Nat, period[2] \in Nat,
         NEW months \in Nat
  PROVE  DevTrades(trades, period, months) \in Seq(TradeRecord)
<1> DEFINE folds == DevFolds(period, months)  len == Len(folds)
           step == [p \in (1 .. len) \X Seq(TradeRecord) |-> Joined(trades, folds, p[1], p[2])]
           all == CHOOSE h : Joins(trades, folds, h)
<1>1. folds \in Seq(Nat \X Nat)
  BY FoldsAreWindows
<1>2. DevTrades(trades, period, months) = all[len]
  BY DEF DevTrades, Joins, Joined
<1> HIDE DEF folds
<1>3. len \in Nat
  BY <1>1
<1>4. \A w : TradesIn(trades, w) \in Seq(TradeRecord)
  BY SelectedRange DEF TradesIn
<1>5. \A n \in 1 .. len : \A v \in Seq(TradeRecord) :
        /\ step[<<n, v>>] = Joined(trades, folds, n, v)
        /\ step[<<n, v>>] \in Seq(TradeRecord)
  <2> SUFFICES ASSUME NEW n \in 1 .. len, NEW v \in Seq(TradeRecord)
               PROVE  /\ step[<<n, v>>] = Joined(trades, folds, n, v)
                      /\ step[<<n, v>>] \in Seq(TradeRecord)
    OBVIOUS
  <2>1. step[<<n, v>>] = Joined(trades, folds, n, v)
    OBVIOUS
  <2>2. TradesIn(trades, folds[n]) \in Seq(TradeRecord)
    BY <1>4
  <2>3. Joined(trades, folds, n, v) = v \o TradesIn(trades, folds[n])
    BY DEF Joined
  <2> HIDE DEF step
  <2> QED BY <2>1, <2>2, <2>3
<1> HIDE DEF step
<1>6. PICK h \in [0 .. len -> Seq(TradeRecord)] : Stepped(<<>>, len, step, h)
  <2>1. StaysIn(Seq(TradeRecord), len, step)
    BY <1>5 DEF StaysIn
  <2>2. <<>> \in Seq(TradeRecord)
    OBVIOUS
  <2> HIDE DEF len
  <2> QED BY <1>3, <2>1, <2>2, StepByStep
<1>7. JoinedUpTo(trades, folds, h)
  <2>1. \A n \in 1 .. len : h[n - 1] \in Seq(TradeRecord)
    BY <1>3, <1>6
  <2> QED BY <1>5, <1>6, <2>1 DEF Stepped, JoinedUpTo
<1>8. Joins(trades, folds, h)
  <2>1. h = [n \in 0 .. len |-> h[n]]
    BY <1>6
  <2> QED BY <1>1, <1>7, <2>1, JoinsEach
<1>9. Joins(trades, folds, all)
  BY <1>8
<1> HIDE DEF all
<1>10. JoinedUpTo(trades, folds, all)
  BY <1>1, <1>9, JoinsEach
<1>14. all[0] = <<>> /\ \A n \in 1 .. len : all[n] = Joined(trades, folds, n, all[n - 1])
  BY <1>10, Zenon DEF JoinedUpTo
<1> DEFINE S == {n \in Nat : n <= len => all[n] \in Seq(TradeRecord)}
<1>11. 0 \in S
  <2>1. all[0] \in Seq(TradeRecord)
    BY <1>14
  <2> QED BY <2>1
<1>12. ASSUME NEW n \in Nat, n \in S PROVE n + 1 \in S
  <2> SUFFICES ASSUME n + 1 <= len PROVE all[n + 1] \in Seq(TradeRecord)
    OBVIOUS
  <2>1. n + 1 \in 1 .. len /\ n + 1 - 1 = n
    BY <1>3
  <2>2. all[n] \in Seq(TradeRecord)
    BY <1>3, <1>12, <2>1
  <2>3. all[n + 1] = all[n] \o TradesIn(trades, folds[n + 1])
    <3>1. all[n + 1] = Joined(trades, folds, n + 1, all[n + 1 - 1])
      BY <1>14, <2>1
    <3> QED BY <2>1, <3>1 DEF Joined
  <2> QED BY <1>4, <2>2, <2>3
<1> HIDE DEF S
<1>13. len \in S
  BY <1>3, <1>11, <1>12, FromZeroOn
<1> QED BY <1>2, <1>3, <1>13 DEF S

LEMMA RsType ==
  ASSUME NEW trades \in Seq(TradeRecord)
  PROVE  Rs(trades) \in Seq(Int) /\ Total(Rs(trades)) \in Int
<1>1. /\ DOMAIN trades = 1 .. Len(trades) /\ Len(trades) \in Nat
      /\ \A n \in 1 .. Len(trades) : trades[n] \in TradeRecord
  OBVIOUS
<1>2. \A tr \in TradeRecord : tr.r \in Int
  BY DEF TradeRecord
<1>3. Rs(trades) \in Seq(Int)
  BY <1>1, <1>2 DEF Rs
<1> QED BY <1>3, TotalType

\* An expectancy is a fraction, and the total is above it.
LEMMA ExpectancyIs ==
  ASSUME NEW trades \in Seq(TradeRecord)
  PROVE  \E n \in Int, d \in Nat : /\ d > 0 /\ Expectancy(trades) = Frac(n, d)
                                   /\ n > 0 => n = Total(Rs(trades))
<1>1. CASE trades = <<>>
  <2>1. Expectancy(trades) = Frac(0, 1)
    BY <1>1 DEF Expectancy, Whole
  <2> QED BY <2>1
<1>2. CASE trades # <<>>
  <2>1. Expectancy(trades) = Frac(Total(Rs(trades)), Len(trades))
    BY <1>2 DEF Expectancy
  <2>2. Len(trades) \in Nat /\ Len(trades) > 0
    BY <1>2
  <2> QED BY <2>1, <2>2, RsType
<1> QED BY <1>1, <1>2

\* Where the whole earns, so do the folds of a walk-forward that does not collapse.
LEMMA DevEarned ==
  ASSUME NEW trades \in Seq(TradeRecord), NEW period, period[1] \in Nat, period[2] \in Nat,
         NEW months \in Nat,
         Leq(Whole(1), Expectancy(trades)), ~StitchedCollapse(trades, period, months)
  PROVE  Total(Rs(DevTrades(trades, period, months))) > 0
<1> DEFINE dev == DevTrades(trades, period, months)
<1>1. dev \in Seq(TradeRecord)
  BY DevTradesType
<1>2. \/ ~Less(Whole(0), Expectancy(trades))
      \/ ~Less(Times(Expectancy(dev), 2), Expectancy(trades))
  BY DEF StitchedCollapse
<1> HIDE DEF dev
<1>3. PICK n \in Int, d \in Nat : d > 0 /\ Expectancy(trades) = Frac(n, d)
  BY ExpectancyIs
<1>4. PICK m \in Int, e \in Nat : /\ e > 0 /\ Expectancy(dev) = Frac(m, e)
                                  /\ m > 0 => m = Total(Rs(dev))
  BY <1>1, ExpectancyIs
<1>5. n >= d
  <2>1. ~(n * 1 < 1 * d)
    BY <1>3 DEF Leq, Less, Whole, Frac
  <2> QED BY <2>1
<1>6. Less(Whole(0), Expectancy(trades))
  <2>1. 0 * d < n * 1
    BY <1>3, <1>5
  <2> QED BY <1>3, <2>1 DEF Less, Whole, Frac
<1>7. ~((m * 2) * d < n * e)
  BY <1>2, <1>3, <1>4, <1>6 DEF Less, Times, Frac
<1>8. m > 0
  <2> SUFFICES ASSUME m <= 0 PROVE FALSE
    OBVIOUS
  <2>1. n * e > 0
    BY <1>3, <1>4, <1>5
  <2>2. (m * 2) * d <= 0
    BY <1>3
  <2>3. (m * 2) * d \in Int /\ n * e \in Int
    BY <1>3, <1>4
  <2> QED BY <1>7, <2>1, <2>2, <2>3
<1> QED BY <1>4, <1>8 DEF dev

-----------------------------------------------------------------------------
(* The cleaning of the bars.                                               *)

LEMMA MarketIsOurs ==
  /\ \A s, S : Market!Selected(s, S) = Selected(s, S)
  /\ \A s : Market!Cardinality(s) = Cardinality(s)
<1>1. ASSUME NEW s, NEW S PROVE Market!Selected(s, S) = Selected(s, S)
  BY DEF Market!Selected, Selected
<1>2. ASSUME NEW s PROVE Market!Cardinality(s) = Cardinality(s)
  BY DEF Market!Cardinality, Cardinality
<1> QED BY <1>1, <1>2

Below(T, t) == {u \in T : u < t}

\* In a finite set of times there is an n-th one.
LEMMA NthExists ==
  ASSUME NEW T, T \subseteq Nat, IsFiniteSet(T), NEW bound \in Nat, \A t \in T : t <= bound,
         NEW n \in 1 .. Cardinality(T)
  PROVE  Market!NthOf(T, n) \in T
<1>1. Cardinality(T) \in Nat
  BY FS_CardinalityType
<1>2. ASSUME NEW t PROVE IsFiniteSet(Below(T, t)) /\ Cardinality(Below(T, t)) \in Nat
  <2>1. Below(T, t) \subseteq T
    BY DEF Below
  <2> QED BY <2>1, FS_Subset, FS_CardinalityType
<1> DEFINE S == {t \in T : Cardinality(Below(T, t)) >= n - 1}
<1>3. ASSUME NEW t \in T, NEW U, U \subseteq T, t \in U, \A u \in U : u <= t,
             Below(T, t) \subseteq U, \A u \in U : u # t => u \in Below(T, t)
      PROVE  Cardinality(Below(T, t)) = Cardinality(U) - 1
  <2>1. Below(T, t) = U \ {t}
    <3>1. t \notin Below(T, t)
      BY <1>3 DEF Below
    <3>2. Below(T, t) \subseteq U /\ \A u \in U \ {t} : u \in Below(T, t)
      BY <1>3
    <3> QED BY <3>1, <3>2
  <2>2. IsFiniteSet(U)
    BY <1>3, FS_Subset
  <2> QED BY <1>3, <2>1, <2>2, FS_RemoveElement
<1>4. S # {}
  <2>1. T # {}
    BY <1>1, FS_EmptySet
  <2>2. Max(T) \in T /\ \A t \in T : t <= Max(T)
    BY <2>1, EndsOf
  <2>3. PICK t \in T : \A u \in T : u <= t
    BY <2>2
  <2>4. Cardinality(Below(T, t)) = Cardinality(T) - 1
    <3>1. Below(T, t) \subseteq T /\ \A u \in T : u # t => u \in Below(T, t)
      BY <2>3 DEF Below
    <3> QED BY <1>3, <2>3, <3>1
  <2>5. t \in S
    BY <1>1, <2>4
  <2> QED BY <2>5
<1>5. PICK t \in S : \A u \in S : t <= u
  BY <1>4, LeastNatural
<1>6. Cardinality(Below(T, t)) = n - 1
  <2> SUFFICES ASSUME Cardinality(Below(T, t)) >= n PROVE FALSE
    BY <1>2, <1>5
  <2> DEFINE B == Below(T, t)
  <2>1. B \subseteq Nat /\ B \subseteq T /\ \A u \in B : u < t
    BY DEF Below
  <2>2. B # {}
    <3>1. Cardinality({}) = 0
      BY FS_EmptySet
    <3> HIDE DEF B
    <3>2. B = {} => Cardinality(B) = 0
      BY <3>1
    <3> QED BY <3>2 DEF B
  <2>3. PICK u \in B : \A w \in B : w <= u
    <3>1. \A w \in B : w <= bound
      BY <2>1
    <3> HIDE DEF B
    <3>2. Max(B) \in B /\ \A w \in B : w <= Max(B)
      BY <2>1, <2>2, <3>1, EndsOf
    <3> QED BY <3>2
  <2>4. Cardinality(Below(T, u)) = Cardinality(B) - 1
    <3>1. u \in T /\ Below(T, u) \subseteq B
      <4>1. u \in T /\ u \in Nat /\ t \in Nat /\ u < t
        BY <1>5, <2>1, <2>3
      <4>2. ASSUME NEW w \in T, w < u PROVE w < t
        <5>1. w \in Nat
          BY <4>2
        <5> QED BY <4>1, <4>2, <5>1
      <4> QED BY <4>1, <4>2 DEF Below
    <3>2. \A w \in B : w # u => w \in Below(T, u)
      BY <2>1, <2>3 DEF Below
    <3> HIDE DEF B
    <3> QED BY <1>3, <2>1, <2>3, <3>1, <3>2
  <2>5. u \in S
    BY <1>2, <2>1, <2>3, <2>4
  <2> QED BY <1>5, <2>1, <2>3, <2>5
<1>7. Market!NthOf(T, n) = CHOOSE w \in T : Cardinality(Below(T, w)) = n - 1
  BY MarketIsOurs DEF Market!NthOf, Below
<1> QED BY <1>5, <1>6, <1>7

\* Of those with the same time there is a last bar.
LEMMA LastExists ==
  ASSUME NEW bars \in Seq(Market!BarRecord), NEW t \in Market!Times(bars)
  PROVE  LET k == Market!LastAt(bars, t) IN
         /\ k \in DOMAIN bars /\ bars[k].t = t
         /\ \A m \in DOMAIN bars : bars[m].t = t => m <= k
<1> DEFINE K == {k \in DOMAIN bars : bars[k].t = t}
<1>1. DOMAIN bars = 1 .. Len(bars) /\ Len(bars) \in Nat
  OBVIOUS
<1>2. K \subseteq Nat /\ K # {} /\ \A k \in K : k <= Len(bars)
  BY <1>1 DEF Market!Times
<1>3. Max(K) \in K /\ \A k \in K : k <= Max(K)
  <2> HIDE DEF K
  <2> QED BY <1>1, <1>2, EndsOf
<1>4. \E k \in DOMAIN bars : bars[k].t = t /\ \A m \in DOMAIN bars : bars[m].t = t => m <= k
  <2>1. PICK k : k = Max(K)
    OBVIOUS
  <2> QED BY <1>3, <2>1
<1> QED BY <1>4 DEF Market!LastAt

\* Every bar that is kept is the last with its time.
KeptFrom(bars, b) ==
  \E k \in DOMAIN bars : b = bars[k] /\ \A m \in DOMAIN bars : bars[m].t = b.t => m <= k

\* dedupe_bars: what is kept was there, and is the last with its time.
LEMMA DedupeKeeps ==
  ASSUME NEW bars \in Seq(Market!BarRecord)
  PROVE  /\ Market!Dedupe(bars) \in Seq(Market!BarRecord)
         /\ \A b \in Range(Market!Dedupe(bars)) : KeptFrom(bars, b)
<1> DEFINE T == Market!Times(bars)  card == Cardinality(T)
           f == Market!Dedupe(bars)
<1>1. DOMAIN bars = 1 .. Len(bars) /\ Len(bars) \in Nat
      /\ \A k \in 1 .. Len(bars) : bars[k] \in Market!BarRecord
  OBVIOUS
<1>2. \A b \in Market!BarRecord : b.t \in Nat
  BY DEF Market!BarRecord
<1>3. T \subseteq Nat
  BY <1>1, <1>2 DEF Market!Times
<1>4. IsFiniteSet(T) /\ \E bound \in Nat : \A t \in T : t <= bound
  <2> DEFINE h == [k \in 0 .. Len(bars) |-> IF k = 0 THEN 0 ELSE bars[k].t]
             g == [k \in 1 .. Len(bars) |-> bars[k].t]
  <2>1. g \in Surjection(1 .. Len(bars), T)
    BY <1>1 DEF Surjection, Market!Times
  <2>2. IsFiniteSet(1 .. Len(bars))
    BY <1>1, FS_Interval
  <2>3. IsFiniteSet(T)
    BY <2>1, <2>2, FS_Surjection
  <2>4. \A k \in 0 .. Len(bars) : h[k] \in Nat
    BY <1>1, <1>2
  <2>5. \A k \in 1 .. Len(bars) : h[k] = bars[k].t /\ k \in 0 .. Len(bars)
    OBVIOUS
  <2> HIDE DEF h
  <2>6. PICK m \in 0 .. Len(bars) : \A k \in 0 .. Len(bars) : h[k] <= h[m]
    BY <1>1, <2>4, PeakExists
  <2>7. \A t \in T : t <= h[m]
    BY <1>1, <2>5, <2>6 DEF Market!Times
  <2> QED BY <2>3, <2>4, <2>7
<1>5. card \in Nat
  BY <1>4, FS_CardinalityType
<1> HIDE DEF T
<1>6. \A n \in 1 .. card : Market!NthOf(T, n) \in T
  <2>1. PICK bound \in Nat : \A t \in T : t <= bound
    BY <1>4
  <2> QED BY <1>3, <1>4, <2>1, NthExists
<1>7. f = [n \in 1 .. card |-> bars[Market!LastAt(bars, Market!NthOf(T, n))]]
  BY MarketIsOurs DEF Market!Dedupe, T
<1> HIDE DEF f, card
<1>8. ASSUME NEW n \in 1 .. card
      PROVE  f[n] \in Market!BarRecord /\ KeptFrom(bars, f[n])
  <2>1. PICK t \in T : t = Market!NthOf(T, n)
    BY <1>6
  <2>2. PICK k : k = Market!LastAt(bars, t)
    OBVIOUS
  <2>3. /\ k \in DOMAIN bars /\ bars[k].t = t
        /\ \A m \in DOMAIN bars : bars[m].t = t => m <= k
    BY <2>2, LastExists DEF T
  <2>4. f[n] = bars[k]
    BY <1>7, <2>1, <2>2
  <2> QED BY <1>1, <2>3, <2>4 DEF KeptFrom
<1>9. f \in Seq(Market!BarRecord) /\ DOMAIN f = 1 .. card
  BY <1>5, <1>7, <1>8
<1>10. \A b \in Range(f) : KeptFrom(bars, b)
  BY <1>8, <1>9 DEF Range
<1> QED BY <1>9, <1>10 DEF f

\* What cleaning makes of some bars.
Accounts(bars, d) ==
  /\ d.bars \in Seq(Market!BarRecord)
  /\ Len(bars) = Len(d.bars) + d.duplicates + d.weekend + d.outliers
  /\ \A b \in Range(d.bars) : KeptFrom(bars, b)
  /\ d.gaps = Market!DetectGaps(d.bars)

\* clean_bars: the report counts what is dropped.
LEMMA CleanAccounts ==
  ASSUME NEW bars \in Seq(Market!BarRecord)
  PROVE  Accounts(bars, Market!CleanBars(bars))
<1> DEFINE unique == Market!Dedupe(bars)  open == Market!DropWeekend(unique)
           kept == Market!ClipOutliers(open)  d == Market!CleanBars(bars)
<1>1. d = [bars |-> kept, duplicates |-> Len(bars) - Len(unique),
           weekend |-> Len(unique) - Len(open), outliers |-> Len(open) - Len(kept),
           gaps |-> Market!DetectGaps(kept)]
  BY DEF Market!CleanBars
<1>2. unique \in Seq(Market!BarRecord) /\ \A b \in Range(unique) : KeptFrom(bars, b)
  BY DedupeKeeps
<1> HIDE DEF unique
<1>3. open \in Seq(Market!BarRecord) /\ Range(open) \subseteq Range(unique)
  BY <1>2, SelectedRange, MarketIsOurs DEF Market!DropWeekend
<1> HIDE DEF open
<1>4. kept \in Seq(Market!BarRecord) /\ Range(kept) \subseteq Range(open)
  BY <1>3, SelectedRange, MarketIsOurs DEF Market!ClipOutliers
<1> HIDE DEF kept, d
<1>5. /\ d.bars = kept /\ d.duplicates = Len(bars) - Len(unique)
      /\ d.weekend = Len(unique) - Len(open) /\ d.outliers = Len(open) - Len(kept)
      /\ d.gaps = Market!DetectGaps(kept)
  BY <1>1
<1>6. Len(bars) \in Nat /\ Len(unique) \in Nat /\ Len(open) \in Nat /\ Len(kept) \in Nat
  BY <1>2, <1>3, <1>4
<1>7. Len(bars) = Len(d.bars) + d.duplicates + d.weekend + d.outliers
  BY <1>5, <1>6
<1> QED BY <1>2, <1>3, <1>4, <1>5, <1>7 DEF Accounts, d

Shifted(rates, offset) == [k \in DOMAIN rates |-> [rates[k] EXCEPT !.t = @ - offset]]

\* What the export says of the rates of the terminal.
Exported(rates, offset, d) ==
  /\ d.bars \in Seq(Market!BarRecord)
  /\ Len(rates) = Len(d.bars) + d.duplicates + d.weekend + d.outliers
  /\ \A n \in DOMAIN d.bars : \E k \in DOMAIN rates :
       /\ d.bars[n] = [rates[k] EXCEPT !.t = @ - offset]
       /\ \A m \in DOMAIN rates : rates[m].t = rates[k].t => m <= k
  /\ d.gaps = Market!DetectGaps(d.bars)

\* mt5_export.py: the same, by the terminal's clock.
LEMMA ExportAccounts ==
  ASSUME NEW rates \in Seq(Market!BarRecord), NEW offset \in Int,
         \A k \in DOMAIN rates : rates[k].t - offset \in Nat
  PROVE  Exported(rates, offset, Market!Export(rates, offset))
<1> DEFINE s == Shifted(rates, offset)  d == Market!CleanBars(s)
<1>1. Market!Export(rates, offset) = d
  BY DEF Market!Export, Shifted
<1>2. DOMAIN rates = 1 .. Len(rates) /\ Len(rates) \in Nat
      /\ \A k \in 1 .. Len(rates) : rates[k] \in Market!BarRecord
  OBVIOUS
<1>3. ASSUME NEW k \in 1 .. Len(rates)
      PROVE  /\ s[k] = [rates[k] EXCEPT !.t = @ - offset] /\ s[k] \in Market!BarRecord
             /\ s[k].t = rates[k].t - offset /\ rates[k].t \in Nat
  <2>1. PICK r \in Market!BarRecord : r = rates[k]
    BY <1>2
  <2>2. r.t \in Nat /\ r.t - offset \in Nat
    BY <1>2, <2>1 DEF Market!BarRecord
  <2>3. [r EXCEPT !.t = @ - offset] \in Market!BarRecord
        /\ [r EXCEPT !.t = @ - offset].t = r.t - offset
    <3>1. r.t - offset \in Nat
      BY <2>2
    <3>2. r \in [t : Nat, range : Int]
      BY DEF Market!BarRecord
    <3>3. PICK x \in Nat : x = r.t - offset
      BY <3>1
    <3>4. [r EXCEPT !.t = x] \in [t : Nat, range : Int] /\ [r EXCEPT !.t = x].t = x
      BY <3>2
    <3>5. [r EXCEPT !.t = @ - offset] = [r EXCEPT !.t = x]
      BY <3>2, <3>3
    <3> QED BY <3>3, <3>4, <3>5 DEF Market!BarRecord
  <2>4. s[k] = [rates[k] EXCEPT !.t = @ - offset]
    BY <1>2 DEF Shifted
  <2> QED BY <2>1, <2>2, <2>3, <2>4
<1>4. s \in Seq(Market!BarRecord) /\ Len(s) = Len(rates) /\ DOMAIN s = 1 .. Len(rates)
  <2>1. s = [k \in 1 .. Len(rates) |-> s[k]]
    BY <1>2 DEF Shifted
  <2> HIDE DEF s
  <2>2. \A k \in 1 .. Len(rates) : s[k] \in Market!BarRecord
    BY <1>3
  <2>3. PICK g : g = [k \in 1 .. Len(rates) |-> s[k]]
    OBVIOUS
  <2>4. g \in Seq(Market!BarRecord) /\ Len(g) = Len(rates) /\ DOMAIN g = 1 .. Len(rates)
    BY <1>2, <2>2, <2>3
  <2>5. s = g
    BY <2>1, <2>3
  <2> QED BY <2>4, <2>5
<1> HIDE DEF s
<1>5. Accounts(s, d)
  BY <1>4, CleanAccounts
<1> HIDE DEF d
<1>6. ASSUME NEW n \in DOMAIN d.bars
      PROVE  \E k \in DOMAIN rates :
               /\ d.bars[n] = [rates[k] EXCEPT !.t = @ - offset]
               /\ \A m \in DOMAIN rates : rates[m].t = rates[k].t => m <= k
  <2>1. d.bars[n] \in Range(d.bars)
    BY DEF Range
  <2>2. KeptFrom(s, d.bars[n])
    BY <1>5, <2>1 DEF Accounts
  <2>3. PICK k \in 1 .. Len(rates) :
          d.bars[n] = s[k] /\ \A m \in 1 .. Len(rates) : s[m].t = s[k].t => m <= k
    BY <1>4, <2>2 DEF KeptFrom
  <2>4. ASSUME NEW m \in 1 .. Len(rates), rates[m].t = rates[k].t PROVE m <= k
    BY <1>3, <2>3, <2>4
  <2>5. s[k] = [rates[k] EXCEPT !.t = @ - offset]
    BY <1>3
  <2> QED BY <1>2, <2>3, <2>4, <2>5
<1>7. /\ d.bars \in Seq(Market!BarRecord)
      /\ Len(rates) = Len(d.bars) + d.duplicates + d.weekend + d.outliers
      /\ d.gaps = Market!DetectGaps(d.bars)
  BY <1>4, <1>5 DEF Accounts
<1>8. Exported(rates, offset, d)
  BY <1>6, <1>7, Zenon DEF Exported
<1> QED BY <1>1, <1>8

\* An hour without a bar lies between two bars of the report, or of the weekend.
LEMMA GapsCover ==
  ASSUME NEW bars \in Seq(Market!BarRecord), bars # <<>>,
         NEW t \in bars[1].t .. Last(bars).t
  PROVE  \/ t \in Market!Times(bars)
         \/ \E gap \in Market!DetectGaps(bars) : gap[1] < t /\ t < gap[2]
         \/ \E n \in DOMAIN bars :
              /\ Market!IsWeekendClosed(bars[n].t + 1)
              /\ bars[n].t < t /\ t < bars[n + 1].t
<1> DEFINE len == Len(bars)
<1>1. /\ DOMAIN bars = 1 .. len /\ len \in Nat /\ len > 0
      /\ \A k \in 1 .. len : bars[k] \in Market!BarRecord
  OBVIOUS
<1>2. \A k \in 1 .. len : bars[k].t \in Nat
  BY <1>1 DEF Market!BarRecord
<1>3. Last(bars) = bars[len]
  BY DEF Last
<1>4. bars[1].t <= t /\ t <= bars[len].t /\ t \in Nat
  BY <1>1, <1>2, <1>3
<1> HIDE DEF len
<1> SUFFICES ASSUME t \notin Market!Times(bars)
             PROVE  \/ \E gap \in Market!DetectGaps(bars) : gap[1] < t /\ t < gap[2]
                    \/ \E n \in DOMAIN bars :
                         /\ Market!IsWeekendClosed(bars[n].t + 1)
                         /\ bars[n].t < t /\ t < bars[n + 1].t
  OBVIOUS
<1>5. \A k \in 1 .. len : bars[k].t # t
  BY <1>1 DEF Market!Times
<1> DEFINE K == {k \in 1 .. len : bars[k].t < t}
<1>6. 1 \in K /\ len \notin K /\ K \subseteq Nat /\ \A k \in K : k <= len
  BY <1>1, <1>2, <1>4, <1>5
<1>7. PICK k : k \in K /\ \A m \in K : m <= k
  <2> HIDE DEF K
  <2>1. Max(K) \in K /\ \A m \in K : m <= Max(K)
    BY <1>1, <1>6, EndsOf
  <2> QED BY <2>1
<1>8. /\ k \in 1 .. len /\ k + 1 \in 2 .. len /\ k + 1 \in 1 .. len /\ bars[k].t < t
      /\ k + 1 - 1 = k
  BY <1>1, <1>6, <1>7
<1>9. t < bars[k + 1].t
  <2>1. k + 1 \notin K
    BY <1>7, <1>8
  <2> QED BY <1>2, <1>4, <1>5, <1>8, <2>1
<1>10. CASE Market!IsWeekendClosed(bars[k].t + 1)
  BY <1>1, <1>8, <1>9, <1>10
<1>11. CASE ~Market!IsWeekendClosed(bars[k].t + 1)
  <2> DEFINE gap == <<bars[k].t, bars[k + 1].t>>
  <2>1. 2 * (bars[k + 1].t - bars[k].t) > 3
    <3>1. PICK a, b \in Nat : a = bars[k].t /\ b = bars[k + 1].t
      BY <1>2, <1>8
    <3>2. a < t /\ t < b
      BY <1>8, <1>9, <3>1
    <3>3. 2 * (b - a) > 3
      BY <1>4, <3>2
    <3> QED BY <3>1, <3>3
  <2>2. PICK j : j = k + 1
    OBVIOUS
  <2>3. /\ j \in 2 .. Len(bars) /\ 2 * (bars[j].t - bars[j - 1].t) > 3
        /\ ~Market!IsWeekendClosed(bars[j - 1].t + 1)
        /\ gap = <<bars[j - 1].t, bars[j].t>>
    BY <1>8, <1>11, <2>1, <2>2 DEF len
  <2>4. gap \in Market!DetectGaps(bars)
    BY <2>3 DEF Market!DetectGaps
  <2>5. gap[1] < t /\ t < gap[2]
    BY <1>8, <1>9
  <2> QED BY <2>4, <2>5
<1> QED BY <1>10, <1>11

-----------------------------------------------------------------------------
(* The inductive invariant.                                                *)

Early == {"export", "start", "based"}

\* HEAD moves at most once, and what the optimizer read, if it read HEAD, is that HEAD
\* or the one before, under the strategy of the spec.
HeadInv ==
  /\ head = [version |-> head.version, config |-> head.config]
  /\ head.version \in {1, 2} /\ DOMAIN head.config = Params
  /\ job.dev = <<>> =>
       /\ base.version \in 1 .. head.version
       /\ base.version = head.version =>
            base.config \in {head.config, ApplyOverrides(head.config, job.override)}

\* The trials in force count what was tried and what is still to be tried, and no
\* result of the ranking was judged at fewer.
SweepInv ==
  /\ job \in Jobs /\ IsFiniteSet(tried) /\ IsFiniteSet(todo) /\ trials \in Nat
  /\ phase \in Early => results = {} /\ tried = {} /\ todo = {}
  /\ phase = "coarse" => /\ todo \subseteq Grid(job.space)
                         /\ \A r \in results : r.cand \in Grid(job.space)
  /\ phase \notin Early => Cardinality(tried \union todo) + job.base <= trials
  /\ \A r \in results : r.trials \in Nat /\ r.trials >= trials

\* A proposal is the difference between its winner and the config it was swept around.
ProposalInv ==
  /\ phase = "proposed" => proposal.diff = BuildDiff(base.config, proposal.winner.cand)
  /\ phase # "done" => outcome.status = None
  /\ ProposalReproduces

FlagInv ==
  /\ closed \in Seq(Int) /\ flag.seen \in 0 .. Len(closed)
  /\ flag = [state |-> flag.state, action |-> flag.action, seen |-> flag.seen, late |-> flag.late]
  /\ flag.late \in BOOLEAN /\ flag.action = DriftAction(flag.state).action
  /\ FlagIsCurrent

\* The bars are those of an export, by one clock or the other, and there are some.
DataInv ==
  phase # "export" =>
    data.bars # <<>> /\ \E offset \in job.offsets : Exported(job.rates, offset, data)

\* What the backtester says is one of the books it may say.
BooksInv ==
  /\ \A config \in DOMAIN books : books[config] \in job.books
  /\ \A r \in results : r.book \in job.books

EarnedInv ==
  /\ EarnedBeforeLockbox
  /\ phase = "export" => proposal = NoProposal

RInv == HeadInv /\ SweepInv /\ ProposalInv /\ FlagInv /\ DataInv /\ BooksInv /\ EarnedInv

-----------------------------------------------------------------------------
(* HEAD.                                                                   *)

LEMMA HeadKeeps ==
  ASSUME HeadInv, [Next]_vars
  PROVE  HeadInv'
<1>1. CASE ReadBase
  <2>1. /\ head' = head /\ job' = job
        /\ job.dev = <<>> =>
             base' = [head EXCEPT !.config = ApplyOverrides(head.config, job.override)]
    BY <1>1 DEF ReadBase, Around
  <2>2. PICK v, config : v = head.version /\ config = head.config
    OBVIOUS
  <2>3. head = [version |-> v, config |-> config] /\ v \in {1, 2}
    BY <2>2 DEF HeadInv
  <2>4. job.dev = <<>> => base'.version = v /\ base'.config = ApplyOverrides(config, job.override)
    BY <2>1, <2>2, <2>3
  <2> QED BY <2>1, <2>2, <2>3, <2>4 DEF HeadInv
<1>2. CASE Promoted
  <2>1. /\ head.version = 1 /\ base' = base /\ job' = job
        /\ \E config \in OtherConfigs : head' = [version |-> 2, config |-> config]
    BY <1>2 DEF Promoted, sweep
  <2>2. head' = [version |-> 2, config |-> head'.config] /\ DOMAIN head'.config = Params
    BY <2>1, ResearchAssumption
  <2> QED BY <2>1, <2>2 DEF HeadInv
<1>3. CASE head' = head /\ base' = base /\ job' = job
  BY <1>3 DEF HeadInv
<1>4. ASSUME Next PROVE ReadBase \/ Promoted \/ (head' = head /\ base' = base /\ job' = job)
  BY <1>4 DEF Next, ExportBars, ReadHead, Evaluate, Refine, GiveUp, Propose, Process,
              TradeCloses, Review, sweep
<1>5. CASE UNCHANGED vars
  BY <1>3, <1>5 DEF vars
<1> QED BY <1>1, <1>2, <1>3, <1>4, <1>5

-----------------------------------------------------------------------------
(* The sweep.                                                              *)

LEMMA ReadHeadKeeps ==
  ASSUME SweepInv, ReadHead
  PROVE  SweepInv'
<1>1. /\ phase' = "coarse" /\ job' = job /\ tried' = {} /\ results' = {}
      /\ todo' \in Candidates(job) /\ trials' = Cardinality(todo') + job.base
  BY DEF ReadHead, SweepInv, Early
<1>2. /\ todo' \subseteq Grid(job.space) /\ IsFiniteSet(todo') /\ job.base \in Nat
  BY <1>1, CandidatesFinite, JobsAssumption DEF SweepInv
<1>3. Cardinality(todo') \in Nat /\ tried' \union todo' = todo'
  BY <1>1, <1>2, FS_CardinalityType
<1>4. IsFiniteSet(tried')
  BY <1>1, FS_EmptySet
<1> QED BY <1>1, <1>2, <1>3, <1>4 DEF SweepInv, Early

LEMMA EvaluateKeeps ==
  ASSUME SweepInv, Evaluate
  PROVE  SweepInv'
<1> DEFINE c == CHOOSE c \in todo : TRUE
<1>1. /\ phase \in {"coarse", "fine"} /\ phase' = phase /\ job' = job /\ trials' = trials
      /\ c \in todo /\ tried' = tried \union {c} /\ todo' = todo \ {c}
      /\ \E book : results' = results \union {[cand |-> c, trials |-> trials, book |-> book]}
  BY DEF Evaluate
<1> HIDE DEF c
<1>2. tried' \union todo' = tried \union todo
  BY <1>1
<1>3. IsFiniteSet(tried') /\ IsFiniteSet(todo')
  BY <1>1, FS_AddElement, FS_RemoveElement DEF SweepInv
<1>4. \A r \in results' : r \in results \/ (r.cand = c /\ r.trials = trials)
  BY <1>1
<1>5. phase \notin Early
  BY <1>1 DEF Early
<1>6. \A r \in results' : r.trials \in Nat /\ r.trials >= trials
  BY <1>4 DEF SweepInv
<1>7. phase = "coarse" => /\ todo' \subseteq Grid(job.space)
                          /\ \A r \in results' : r.cand \in Grid(job.space)
  BY <1>1, <1>4 DEF SweepInv
<1> QED BY <1>1, <1>2, <1>3, <1>5, <1>6, <1>7, Zenon DEF SweepInv

\* What the second pass is centred on was in the first.
LEMMA CentreInResults == Centre \subseteq results
BY DEF Centre, Ranked, Best

LEMMA RefineKeeps ==
  ASSUME SweepInv, Refine
  PROVE  SweepInv'
<1>1. PICK r \in Centre :
        LET fine == Fine(r.cand) IN
        /\ phase' = "fine" /\ todo' = fine
        /\ trials' = Cardinality(tried) + Cardinality(fine) + job.base
        /\ results' = IF fine = {} THEN results ELSE {}
  BY DEF Refine
<1> DEFINE fine == Fine(r.cand)
<1>2. /\ phase = "coarse" /\ todo = {} /\ phase' = "fine" /\ todo' = fine
      /\ trials' = Cardinality(tried) + Cardinality(fine) + job.base
      /\ results' = IF fine = {} THEN results ELSE {}
      /\ job' = job /\ tried' = tried
  BY <1>1 DEF Refine
<1>3. /\ job \in Jobs /\ r.cand \in Grid(job.space) /\ IsFiniteSet(tried)
      /\ job.base \in Nat /\ Cardinality(tried) \in Nat
  BY <1>2, CentreInResults, JobsAssumption, FS_CardinalityType DEF SweepInv
<1>4. IsFiniteSet(fine)
  <2>1. IsFiniteSet(Grid(RefineSpace(job.space, r.cand)))
    BY <1>3, RefinedFinite, JobsAssumption
  <2>2. fine \subseteq Grid(RefineSpace(job.space, r.cand))
    BY DEF Fine
  <2> HIDE DEF fine
  <2> QED BY <2>1, <2>2, FS_Subset
<1> HIDE DEF fine
<1>5. Cardinality(fine) \in Nat /\ Cardinality(tried \union fine) \in Nat
      /\ Cardinality(tried \union fine) <= Cardinality(tried) + Cardinality(fine)
  <2>1. /\ IsFiniteSet(tried \union fine) /\ IsFiniteSet(tried \cap fine)
        /\ Cardinality(tried \union fine) =
             Cardinality(tried) + Cardinality(fine) - Cardinality(tried \cap fine)
    BY <1>3, <1>4, FS_Union, FS_Intersection
  <2>2. Cardinality(tried \cap fine) \in Nat /\ Cardinality(fine) \in Nat
        /\ Cardinality(tried \union fine) \in Nat
    BY <1>4, <2>1, FS_CardinalityType
  <2> QED BY <1>3, <2>1, <2>2
<1>6. trials' \in Nat /\ Cardinality(tried' \union todo') + job'.base <= trials'
  BY <1>2, <1>3, <1>5
<1>7. \A s \in results' : s.trials \in Nat /\ s.trials >= trials'
  <2> SUFFICES ASSUME NEW s \in results' PROVE s.trials \in Nat /\ s.trials >= trials'
    OBVIOUS
  <2>1. fine = {} /\ s \in results
    BY <1>2
  <2>2. trials' = Cardinality(tried) + job.base
    BY <1>2, <1>3, <2>1, FS_EmptySet
  <2>3. Cardinality(tried) + job.base <= trials /\ trials \in Nat
    <3>1. tried \union todo = tried /\ phase \notin Early
      BY <1>2 DEF Early
    <3> QED BY <3>1 DEF SweepInv
  <2>4. s.trials \in Nat /\ s.trials >= trials
    BY <2>1 DEF SweepInv
  <2> QED BY <1>3, <2>2, <2>3, <2>4
<1> QED BY <1>2, <1>3, <1>4, <1>6, <1>7 DEF SweepInv, Early

LEMMA SweepKeeps ==
  ASSUME SweepInv, [Next]_vars
  PROVE  SweepInv'
<1>1. CASE ReadHead
  BY <1>1, ReadHeadKeeps
<1>2. CASE Evaluate
  BY <1>2, EvaluateKeeps
<1>3. CASE Refine
  BY <1>3, RefineKeeps
<1>4. CASE /\ job' = job /\ tried' = tried /\ todo' = todo /\ trials' = trials
           /\ results' = results /\ (phase' # "coarse" \/ phase' = phase)
           /\ phase' \in Early <=> phase \in Early
  BY <1>4 DEF SweepInv
<1>5. ASSUME Next
      PROVE  ReadHead \/ Evaluate \/ Refine
             \/ /\ job' = job /\ tried' = tried /\ todo' = todo /\ trials' = trials
                /\ results' = results /\ (phase' # "coarse" \/ phase' = phase)
                /\ phase' \in Early <=> phase \in Early
  <2>1. CASE ExportBars BY <2>1 DEF ExportBars, Early
  <2>2. CASE ReadBase BY <2>2 DEF ReadBase, Early
  <2>3. CASE GiveUp BY <2>3 DEF GiveUp, Swept, Early
  <2>4. CASE Propose BY <2>4 DEF Propose, Swept, Early
  <2>5. CASE Process BY <2>5 DEF Process, sweep, Early
  <2>6. CASE Promoted BY <2>6 DEF Promoted, sweep
  <2>7. CASE TradeCloses BY <2>7 DEF TradeCloses, sweep
  <2>8. CASE Review BY <2>8 DEF Review, sweep
  <2> QED BY <1>5, <2>1, <2>2, <2>3, <2>4, <2>5, <2>6, <2>7, <2>8, Zenon DEF Next
<1>6. CASE UNCHANGED vars
  BY <1>4, <1>6 DEF vars
<1> QED BY <1>1, <1>2, <1>3, <1>4, <1>5, <1>6

-----------------------------------------------------------------------------
(* Proposals.                                                              *)

\* Applying the difference to the config it was taken from gives what won.
LEMMA DiffReproduces ==
  ASSUME NEW config, NEW cand
  PROVE  ApplyOverrides(config, BuildDiff(config, cand)) = ApplyOverrides(config, cand)
<1> DEFINE D == {p \in DOMAIN cand : p \notin DOMAIN config \/ cand[p] # config[p]}
           diff == BuildDiff(config, cand)
<1>1. DOMAIN diff = D /\ \A p \in D : diff[p] = cand[p]
  BY DEF BuildDiff
<1>2. DOMAIN config \union D = DOMAIN config \union DOMAIN cand
  OBVIOUS
<1> HIDE DEF diff
<1>3. ASSUME NEW p \in DOMAIN config \union DOMAIN cand
      PROVE  (IF p \in D THEN diff[p] ELSE config[p]) =
               (IF p \in DOMAIN cand THEN cand[p] ELSE config[p])
  BY <1>1
<1> HIDE DEF D
<1> QED BY <1>1, <1>2, <1>3 DEF ApplyOverrides, diff

LEMMA ProcessKeeps ==
  ASSUME HeadInv, ProposalInv, Process
  PROVE  ProposalInv'
<1>1. /\ phase = "proposed" /\ phase' = "done" /\ base' = base /\ proposal' = proposal
      /\ job' = job
  BY DEF Process, sweep
<1>2. CASE ~Valid(proposal)
  <2>1. outcome' = [status |-> "rejected"]
    BY <1>2 DEF Process
  <2> QED BY <1>1, <2>1 DEF ProposalInv, ProposalReproduces
<1>3. CASE Valid(proposal)
  <2> DEFINE config == ApplyOverrides(head.config, proposal.diff)
  <2>1. outcome'.config = config /\ outcome'.head = head
    BY <1>3 DEF Process
  <2>2. ASSUME job.dev = <<>>, ApplyOverrides(head.config, job.override) = head.config,
               base.version = proposal.parent
        PROVE  config = ApplyOverrides(base.config, proposal.winner.cand)
    <3>1. base.config = head.config
      BY <1>3, <2>2 DEF Valid, HeadInv
    <3>2. proposal.diff = BuildDiff(base.config, proposal.winner.cand)
      BY <1>1 DEF ProposalInv
    <3> QED BY <3>1, <3>2, DiffReproduces
  <2>3. \A p \in Params \ Levers : config[p] = head.config[p]
    <3> SUFFICES ASSUME NEW p \in Params \ Levers PROVE config[p] = head.config[p]
      OBVIOUS
    <3>1. p \in DOMAIN head.config /\ p \notin DOMAIN proposal.diff
      BY <1>3 DEF Valid, HeadInv
    <3> QED BY <3>1 DEF ApplyOverrides
  <2> HIDE DEF config
  <2>4. ProposalReproduces'
    BY <1>1, <2>1, <2>2, <2>3 DEF ProposalReproduces, AroundHead
  <2> QED BY <1>1, <2>4 DEF ProposalInv
<1> QED BY <1>2, <1>3

LEMMA ProposalKeeps ==
  ASSUME HeadInv, ProposalInv, [Next]_vars
  PROVE  ProposalInv'
<1>1. CASE Process
  BY <1>1, ProcessKeeps
<1>2. CASE Propose
  <2>1. PICK r \in Ranked :
          proposal' = [parent |-> parent, diff |-> BuildDiff(base.config, r.cand), winner |-> r]
    BY <1>2 DEF Propose
  <2>2. phase # "done" /\ base' = base /\ outcome' = outcome /\ phase' = "proposed"
    BY <1>2 DEF Propose, Swept
  <2> QED BY <2>1, <2>2 DEF ProposalInv, ProposalReproduces, None
<1>3. CASE phase # "done" /\ phase' # "proposed" /\ outcome' = outcome
  BY <1>3 DEF ProposalInv, ProposalReproduces, None
<1>4. CASE /\ phase' = phase /\ base' = base /\ proposal' = proposal /\ outcome' = outcome
           /\ job' = job
  BY <1>4 DEF ProposalInv, ProposalReproduces, AroundHead
<1>5. ASSUME Next
      PROVE  \/ Process \/ Propose
             \/ phase # "done" /\ phase' # "proposed" /\ outcome' = outcome
             \/ /\ phase' = phase /\ base' = base /\ proposal' = proposal /\ outcome' = outcome
                /\ job' = job
  <2>1. CASE ExportBars BY <2>1 DEF ExportBars
  <2>2. CASE ReadBase BY <2>2 DEF ReadBase
  <2>3. CASE ReadHead BY <2>3 DEF ReadHead
  <2>4. CASE Evaluate BY <2>4 DEF Evaluate
  <2>5. CASE Refine BY <2>5 DEF Refine
  <2>6. CASE GiveUp BY <2>6 DEF GiveUp, Swept
  <2>7. CASE Promoted BY <2>7 DEF Promoted, sweep
  <2>8. CASE TradeCloses BY <2>8 DEF TradeCloses, sweep
  <2>9. CASE Review BY <2>9 DEF Review, sweep
  <2> QED BY <1>5, <2>1, <2>2, <2>3, <2>4, <2>5, <2>6, <2>7, <2>8, <2>9, Zenon DEF Next
<1>6. CASE UNCHANGED vars
  BY <1>4, <1>6 DEF vars
<1> QED BY <1>1, <1>2, <1>3, <1>4, <1>5, <1>6

-----------------------------------------------------------------------------
(* The drift flag.                                                         *)

\* What is put into a list at a place leaves what is before it.
LEMMA InsertType ==
  ASSUME NEW s \in Seq(Int), NEW r \in Int, NEW place \in 1 .. Len(s) + 1
  PROVE  LET t == SubSeq(s, 1, place - 1) \o <<r>> \o SubSeq(s, place, Len(s)) IN
         t \in Seq(Int) /\ Len(t) = Len(s) + 1 /\ \A n \in 1 .. place - 1 : t[n] = s[n]
<1>1. PICK a : a = SubSeq(s, 1, place - 1)
  OBVIOUS
<1>2. a \in Seq(Int) /\ Len(a) = place - 1 /\ \A n \in 1 .. place - 1 : a[n] = s[n]
  BY <1>1
<1>3. PICK c : c = SubSeq(s, place, Len(s))
  OBVIOUS
<1>4. c \in Seq(Int) /\ Len(c) = Len(s) - (place - 1)
  BY <1>3
<1>5. PICK ab : ab = a \o <<r>>
  OBVIOUS
<1>6. ab \in Seq(Int) /\ Len(ab) = place /\ \A n \in 1 .. place - 1 : ab[n] = s[n]
  BY <1>2, <1>5
<1>7. PICK t : t = ab \o c
  OBVIOUS
<1>8. t \in Seq(Int) /\ Len(t) = Len(ab) + Len(c) /\ \A n \in 1 .. Len(ab) : t[n] = ab[n]
  <2>1. /\ ab \o c \in Seq(Int) /\ Len(ab \o c) = Len(ab) + Len(c)
        /\ \A i \in 1 .. Len(ab) + Len(c) :
             (ab \o c)[i] = IF i <= Len(ab) THEN ab[i] ELSE c[i - Len(ab)]
    BY <1>4, <1>6, ConcatProperties, Zenon
  <2>2. Len(ab) \in Nat /\ Len(c) \in Nat
    BY <1>4, <1>6
  <2>3. \A n \in 1 .. Len(ab) : n \in 1 .. Len(ab) + Len(c) /\ n <= Len(ab)
    BY <2>2
  <2> QED BY <1>7, <2>1, <2>3, Zenon
<1>9. Len(t) = Len(s) + 1 /\ \A n \in 1 .. place - 1 : t[n] = s[n]
  BY <1>4, <1>6, <1>8
<1> QED BY <1>1, <1>3, <1>5, <1>7, <1>8, <1>9

LEMMA FlagKeeps ==
  ASSUME FlagInv, [Next]_vars
  PROVE  FlagInv'
<1> DEFINE seen == SubSeq(closed, 1, flag.seen)
<1>1. CASE TradeCloses
  <2>1. PICK r \in LiveRs, place \in 1 .. Len(closed) + 1 :
          /\ closed' = SubSeq(closed, 1, place - 1) \o <<r>> \o SubSeq(closed, place, Len(closed))
          /\ flag' = [flag EXCEPT !.late = @ \/ place <= flag.seen]
    BY <1>1 DEF TradeCloses
  <2>2. /\ closed \in Seq(Int) /\ flag.seen \in 0 .. Len(closed) /\ Len(closed) \in Nat
        /\ r \in Int /\ flag.late \in BOOLEAN /\ flag.action = DriftAction(flag.state).action
    BY <2>1, ResearchAssumption DEF FlagInv
  <2>3. /\ flag'.late = (flag.late \/ place <= flag.seen)
        /\ flag'.state = flag.state /\ flag'.action = flag.action /\ flag'.seen = flag.seen
        /\ flag' = [state |-> flag'.state, action |-> flag'.action, seen |-> flag'.seen,
                    late |-> flag'.late]
    BY <2>1 DEF FlagInv
  <2>4. closed' \in Seq(Int) /\ Len(closed') = Len(closed) + 1
    BY <2>1, <2>2, InsertType
  <2>5. CASE flag.late \/ place <= flag.seen
    <3>1. flag'.late = TRUE /\ FlagIsCurrent'
      BY <2>2, <2>3, <2>5 DEF FlagIsCurrent
    <3>2. flag.seen \in 0 .. Len(closed')
      BY <2>2, <2>4
    <3> HIDE DEF seen
    <3> QED BY <2>2, <2>3, <2>4, <3>1, <3>2 DEF FlagInv
  <2>6. CASE ~flag.late /\ ~(place <= flag.seen)
    <3>1. flag.seen \in 0 .. place - 1 /\ place - 1 \in 0 .. Len(closed)
      BY <2>2, <2>6
    <3>2. SubSeq(closed', 1, flag.seen) = seen
      <4>1. \A n \in 1 .. flag.seen : closed'[n] = closed[n]
        BY <2>1, <2>2, <3>1, InsertType
      <4>2. /\ Len(SubSeq(closed', 1, flag.seen)) = flag.seen /\ Len(seen) = flag.seen
            /\ SubSeq(closed', 1, flag.seen) \in Seq(Int) /\ seen \in Seq(Int)
            /\ \A n \in 1 .. flag.seen : /\ SubSeq(closed', 1, flag.seen)[n] = closed'[n]
                                         /\ seen[n] = closed[n]
        BY <2>2, <2>4
      <4> HIDE DEF seen
      <4>3. PICK a : a = SubSeq(closed', 1, flag.seen)
        OBVIOUS
      <4>4. a \in Seq(Int) /\ Len(a) = Len(seen) /\ \A n \in 1 .. Len(a) : a[n] = seen[n]
        BY <4>1, <4>2, <4>3
      <4> QED BY <4>2, <4>3, <4>4
    <3>3. flag.state = CusumState(seen)
      BY <2>6 DEF FlagInv, FlagIsCurrent
    <3> HIDE DEF seen
    <3>4. FlagIsCurrent'
      BY <2>2, <2>3, <3>2, <3>3 DEF FlagIsCurrent
    <3> QED BY <2>2, <2>3, <2>4, <3>4 DEF FlagInv
  <2> QED BY <2>2, <2>5, <2>6
<1>2. CASE Review
  <2> DEFINE state == CusumState(closed)
  <2>1. /\ closed' = closed
        /\ flag' = [state  |-> IF state = "ok" THEN flag.state ELSE state,
                    action |-> IF state = "ok" THEN flag.action ELSE DriftAction(state).action,
                    seen   |-> Len(closed),
                    late   |-> flag.late /\ state = "ok" /\ flag.state # "ok"]
    BY <1>2 DEF Review
  <2>2. /\ closed \in Seq(Int) /\ flag.seen \in 0 .. Len(closed) /\ flag.late \in BOOLEAN
        /\ flag.action = DriftAction(flag.state).action
    BY DEF FlagInv
  <2>3. SubSeq(closed, 1, Len(closed)) = closed /\ Len(closed) \in 0 .. Len(closed)
    BY <2>2
  <2>4. flag.late \/ flag.state = CusumState(seen)
    BY DEF FlagInv, FlagIsCurrent
  <2>5. state = "ok" => CusumState(seen) = "ok"
    BY <2>2, CusumGrows DEF CusumState
  <2> HIDE DEF state, seen
  <2>6. /\ flag'.seen = Len(closed) /\ flag'.action = DriftAction(flag'.state).action
        /\ flag'.late \in BOOLEAN /\ (flag'.late \/ flag'.state = state)
    BY <2>1, <2>2, <2>4, <2>5
  <2> QED BY <2>1, <2>2, <2>3, <2>6 DEF FlagInv, FlagIsCurrent, state
<1>3. CASE closed' = closed /\ flag' = flag
  BY <1>3 DEF FlagInv, FlagIsCurrent
<1>4. ASSUME Next PROVE TradeCloses \/ Review \/ (closed' = closed /\ flag' = flag)
  BY <1>4 DEF Next, ExportBars, ReadBase, ReadHead, Evaluate, Refine, GiveUp, Propose,
              Process, Promoted
<1>5. CASE UNCHANGED vars
  BY <1>3, <1>5 DEF vars
<1> QED BY <1>1, <1>2, <1>3, <1>4, <1>5

-----------------------------------------------------------------------------
(* The bars.                                                               *)

\* There is a period once there are bars.
LEMMA PeriodType ==
  ASSUME DataInv, phase # "export"
  PROVE  Period[1] \in Nat /\ Period[2] \in Nat
<1>1. data.bars \in Seq(Market!BarRecord) /\ data.bars # <<>>
  BY DEF DataInv, Exported
<1>2. Len(data.bars) \in Nat /\ Len(data.bars) > 0
      /\ data.bars[1] \in Market!BarRecord /\ data.bars[Len(data.bars)] \in Market!BarRecord
  BY <1>1
<1>3. Last(data.bars) = data.bars[Len(data.bars)]
  BY DEF Last
<1> QED BY <1>2, <1>3 DEF Period, Market!BarRecord

LEMMA DataKeeps ==
  ASSUME SweepInv, DataInv, [Next]_vars
  PROVE  DataInv'
<1>1. CASE ExportBars
  <2>1. PICK offset \in job.offsets : data' = Market!Export(job.rates, offset)
    BY <1>1 DEF ExportBars
  <2>2. data'.bars # <<>> /\ job' = job
    BY <1>1 DEF ExportBars
  <2>3. /\ job.rates \in Seq(Market!BarRecord) /\ job.offsets \subseteq Int
        /\ \A k \in DOMAIN job.rates, o \in job.offsets : job.rates[k].t - o \in Nat
    BY JobsAssumption DEF SweepInv
  <2>4. Exported(job.rates, offset, data')
    BY <2>1, <2>3, ExportAccounts
  <2> QED BY <2>1, <2>2, <2>4 DEF DataInv
<1>2. CASE data' = data /\ job' = job /\ (phase' # "export" => phase # "export")
  BY <1>2 DEF DataInv
<1>3. ASSUME Next
      PROVE  \/ ExportBars
             \/ data' = data /\ job' = job /\ (phase' # "export" => phase # "export")
  <2>1. CASE ReadBase BY <2>1 DEF ReadBase
  <2>2. CASE ReadHead BY <2>2 DEF ReadHead
  <2>3. CASE Evaluate BY <2>3 DEF Evaluate
  <2>4. CASE Refine BY <2>4 DEF Refine
  <2>5. CASE GiveUp BY <2>5 DEF GiveUp, Swept
  <2>6. CASE Propose BY <2>6 DEF Propose, Swept
  <2>7. CASE Process BY <2>7 DEF Process, sweep
  <2>8. CASE Promoted BY <2>8 DEF Promoted, sweep
  <2>9. CASE TradeCloses BY <2>9 DEF TradeCloses, sweep
  <2>10. CASE Review BY <2>10 DEF Review, sweep
  <2> QED BY <1>3, <2>1, <2>2, <2>3, <2>4, <2>5, <2>6, <2>7, <2>8, <2>9, <2>10, Zenon DEF Next
<1>4. CASE UNCHANGED vars
  BY <1>2, <1>4 DEF vars
<1> QED BY <1>1, <1>2, <1>3, <1>4

-----------------------------------------------------------------------------
(* The books.                                                              *)

\* A book that was looked up or picked is one of the job.
LEMMA KnownKeeps ==
  ASSUME BooksInv, NEW config, NEW book \in Backtests(config),
         books' = Known(config, book), job' = job
  PROVE  book \in job.books /\ \A c \in DOMAIN books' : books'[c] \in job'.books
<1>1. book \in job.books
  BY DEF Backtests, BooksInv
<1> QED BY <1>1 DEF Known, BooksInv

LEMMA BooksKeep ==
  ASSUME BooksInv, [Next]_vars
  PROVE  BooksInv'
<1>1. CASE Evaluate
  <2> DEFINE c == CHOOSE c \in todo : TRUE  config == ApplyOverrides(base.config, c)
  <2>1. PICK book \in Backtests(config) :
          /\ books' = Known(config, book)
          /\ results' = results \union {[cand |-> c, trials |-> trials, book |-> book]}
    BY <1>1 DEF Evaluate
  <2>2. job' = job
    BY <1>1 DEF Evaluate
  <2> HIDE DEF c, config
  <2>3. book \in job.books /\ \A k \in DOMAIN books' : books'[k] \in job'.books
    BY <2>1, <2>2, KnownKeeps
  <2> QED BY <2>1, <2>2, <2>3 DEF BooksInv
<1>2. CASE Process
  <2>1. job' = job /\ results' = results
    BY <1>2 DEF Process, sweep
  <2>2. CASE books' = books
    BY <2>1, <2>2 DEF BooksInv
  <2>3. CASE books' # books
    <3>1. PICK config, book : book \in Backtests(config) /\ books' = Known(config, book)
      BY <1>2, <2>3 DEF Process
    <3> QED BY <2>1, <3>1, KnownKeeps DEF BooksInv
  <2> QED BY <2>2, <2>3
<1>3. CASE books' = books /\ job' = job /\ results' \subseteq results
  BY <1>3 DEF BooksInv
<1>4. ASSUME Next
      PROVE  Evaluate \/ Process \/ (books' = books /\ job' = job /\ results' \subseteq results)
  <2>1. CASE ExportBars BY <2>1 DEF ExportBars
  <2>2. CASE ReadBase BY <2>2 DEF ReadBase
  <2>3. CASE ReadHead BY <2>3 DEF ReadHead
  <2>4. CASE Refine BY <2>4 DEF Refine
  <2>5. CASE GiveUp BY <2>5 DEF GiveUp
  <2>6. CASE Propose BY <2>6 DEF Propose
  <2>7. CASE Promoted BY <2>7 DEF Promoted, sweep
  <2>8. CASE TradeCloses BY <2>8 DEF TradeCloses, sweep
  <2>9. CASE Review BY <2>9 DEF Review, sweep
  <2> QED BY <1>4, <2>1, <2>2, <2>3, <2>4, <2>5, <2>6, <2>7, <2>8, <2>9, Zenon DEF Next
<1>5. CASE UNCHANGED vars
  BY <1>3, <1>5 DEF vars
<1> QED BY <1>1, <1>2, <1>3, <1>4, <1>5

-----------------------------------------------------------------------------
(* What was earned.                                                        *)

\* What is judged on the gates and on the walk-forward has earned before the lockbox.
LEMMA JudgedEarned ==
  ASSUME SweepInv, DataInv, phase # "export", NEW book \in job.books, NEW months \in Nat,
         Leq(Whole(1), Expectancy(book.trades)),
         ~WalkForward(book.trades, Period, months).collapse
  PROVE  Total(Rs(DevTrades(book.trades, Period, months))) > 0
<1>1. book.trades \in Seq(TradeRecord)
  BY JobsAssumption DEF SweepInv
<1>2. PICK p : p = Period
  OBVIOUS
<1>3. p[1] \in Nat /\ p[2] \in Nat
  BY <1>2, PeriodType
<1>4. ~StitchedCollapse(book.trades, p, months)
  BY <1>2 DEF WalkForward
<1>5. PICK trades : trades = book.trades
  OBVIOUS
<1>6. Total(Rs(DevTrades(trades, p, months))) > 0
  BY <1>1, <1>3, <1>4, <1>5, DevEarned
<1> QED BY <1>2, <1>5, <1>6

LEMMA EarnedKeeps ==
  ASSUME SweepInv, DataInv, BooksInv, EarnedInv, ProposalInv, [Next]_vars
  PROVE  EarnedInv'
<1>1. CASE Propose
  <2>1. PICK r \in Ranked : proposal'.winner = r
    BY <1>1 DEF Propose
  <2>2. /\ phase # "export" /\ phase' = "proposed" /\ outcome' = outcome /\ data' = data
        /\ job' = job
    BY <1>1 DEF Propose, Swept
  <2>3. r \in results /\ Eligible(r)
    BY <2>1 DEF Ranked, Best
  <2>4. r.book \in job.books /\ Leq(Whole(1), Expectancy(r.book.trades))
        /\ ~WalkForward(r.book.trades, Period, job.lockbox).collapse
    BY <2>3 DEF BooksInv, Eligible, GatesPassed, Walk
  <2>5. job.lockbox \in Nat
    BY JobsAssumption DEF SweepInv
  <2>6. Total(Rs(DevTrades(r.book.trades, Period, job.lockbox))) > 0
    BY <2>2, <2>4, <2>5, JudgedEarned
  <2>7. Period' = Period
    BY <2>2 DEF Period
  <2>8. outcome'.status # "passed"
    BY <1>1, <2>2 DEF ProposalInv, None, Propose, Swept
  <2> QED BY <2>1, <2>2, <2>6, <2>7, <2>8 DEF EarnedInv, EarnedBeforeLockbox
<1>2. CASE Process
  <2>1. /\ phase = "proposed" /\ phase' = "done" /\ data' = data /\ job' = job
        /\ proposal' = proposal
    BY <1>2 DEF Process, sweep
  <2>2. Period' = Period
    BY <2>1 DEF Period
  <2>3. ASSUME outcome'.status = "passed"
        PROVE  Total(Rs(DevTrades(outcome'.book.trades, Period, ProposalLockbox))) > 0
    <3>1. Valid(proposal)
      BY <1>2, <2>3 DEF Process
    <3> DEFINE config == ApplyOverrides(head.config, proposal.diff)  count == PriorTrials + 1
    <3>2. PICK book \in Backtests(config) :
            outcome' = [status |-> IF Passes(book, count) THEN "passed" ELSE "failed",
                        config |-> config, head |-> head, book |-> book, count |-> count]
      BY <1>2, <3>1 DEF Process
    <3> HIDE DEF config, count
    <3>3. outcome'.book = book /\ Passes(book, count)
      BY <2>3, <3>2
    <3>4. book \in job.books
      BY <3>2 DEF Backtests, BooksInv
    <3>5. Leq(Whole(1), Expectancy(book.trades))
          /\ ~WalkForward(book.trades, Period, ProposalLockbox).collapse
      BY <3>3 DEF Passes, Verdict, GatesPassed
    <3> QED BY <2>1, <3>3, <3>4, <3>5, JudgedEarned, ResearchAssumption
  <2> QED BY <2>1, <2>2, <2>3 DEF EarnedInv, EarnedBeforeLockbox
<1>3. CASE ExportBars
  <2>1. proposal' = NoProposal /\ outcome'.status # "passed"
    BY <1>3 DEF ExportBars, EarnedInv, ProposalInv, None, NoProposal
  <2>2. phase' # "export"
    BY <1>3 DEF ExportBars
  <2> QED BY <2>1, <2>2 DEF EarnedInv, EarnedBeforeLockbox, NoProposal
<1>4. CASE /\ data' = data /\ job' = job /\ proposal' = proposal /\ outcome' = outcome
           /\ phase' = "export" => phase = "export"
  <2>1. Period' = Period
    BY <1>4 DEF Period
  <2> QED BY <1>4, <2>1 DEF EarnedInv, EarnedBeforeLockbox, NoProposal
<1>5. ASSUME Next
      PROVE  \/ Propose \/ Process \/ ExportBars
             \/ /\ data' = data /\ job' = job /\ proposal' = proposal /\ outcome' = outcome
                /\ phase' = "export" => phase = "export"
  <2>1. CASE ReadBase BY <2>1 DEF ReadBase
  <2>2. CASE ReadHead BY <2>2 DEF ReadHead
  <2>3. CASE Evaluate BY <2>3 DEF Evaluate
  <2>4. CASE Refine BY <2>4 DEF Refine
  <2>5. CASE GiveUp BY <2>5 DEF GiveUp
  <2>6. CASE Promoted BY <2>6 DEF Promoted, sweep
  <2>7. CASE TradeCloses BY <2>7 DEF TradeCloses, sweep
  <2>8. CASE Review BY <2>8 DEF Review, sweep
  <2> QED BY <1>5, <2>1, <2>2, <2>3, <2>4, <2>5, <2>6, <2>7, <2>8, Zenon DEF Next
<1>6. CASE UNCHANGED vars
  BY <1>4, <1>6 DEF vars
<1> QED BY <1>1, <1>2, <1>3, <1>4, <1>5, <1>6

-----------------------------------------------------------------------------
(* The theorems.                                                           *)

LEMMA RInit ==
  ASSUME Init PROVE RInv
<1>1. HeadInv
  BY ResearchAssumption DEF Init, HeadInv
<1>2. SweepInv
  BY FS_EmptySet DEF Init, SweepInv, Early
<1>3. ProposalInv
  BY DEF Init, ProposalInv, ProposalReproduces, None
<1>4. FlagInv
  <2> DEFINE none == SubSeq(closed, 1, flag.seen)
  <2>1. closed = <<>> /\ flag = [state |-> "ok", action |-> "log", seen |-> 0, late |-> FALSE]
    BY DEF Init, NoFlag
  <2>2. closed \in Seq(Int) /\ flag.seen \in 0 .. Len(closed) /\ none = <<>> /\ Len(none) = 0
    BY <2>1
  <2>3. PICK h : /\ Running(none, h, 0)
                 /\ \E m \in 0 .. 0 : CusumLow(none) = h[m]
    <3>1. Len(none) \in Nat /\ \A n \in 1 .. Len(none) : none[n] \in Int
      BY <2>2
    <3> HIDE DEF none
    <3> QED BY <2>2, <3>1, CusumIsPeak
  <2>4. CusumLow(none) = 0
    <3>1. h[0] = 0
      BY <2>3 DEF Running
    <3> QED BY <2>3, <3>1
  <2> HIDE DEF none
  <2>5. CusumState(none) = "ok" /\ DriftAction("ok").action = "log"
    BY <2>4 DEF CusumState, DriftAction
  <2> QED BY <2>1, <2>2, <2>5 DEF FlagInv, FlagIsCurrent, none
<1>5. DataInv /\ BooksInv /\ EarnedInv
  BY DEF Init, DataInv, BooksInv, EarnedInv, EarnedBeforeLockbox, NoProposal, None
<1> QED BY <1>1, <1>2, <1>3, <1>4, <1>5 DEF RInv

LEMMA RInvariant == Spec => []RInv
<1>1. RInv /\ [Next]_vars => RInv'
  BY HeadKeeps, SweepKeeps, ProposalKeeps, FlagKeeps, DataKeeps, BooksKeep, EarnedKeeps DEF RInv
<1> QED BY <1>1, RInit, PTL DEF Spec

\* OptimizerRunner.run: no candidate, of the first pass or of the refinement, is
\* ranked at fewer trials than the sweep has made, on top of what --base-trials says.
THEOREM JudgedAtAllTrials == Spec => []TrialsHonest
<1>1. RInv => TrialsHonest
  <2> SUFFICES ASSUME RInv, NEW r \in results
               PROVE  r.trials >= Cardinality(tried) + job.base
    BY DEF TrialsHonest
  <2>1. phase \notin Early /\ IsFiniteSet(tried) /\ IsFiniteSet(todo) /\ job.base \in Nat
        /\ r.trials \in Nat /\ r.trials >= trials /\ trials \in Nat
        /\ Cardinality(tried \union todo) + job.base <= trials
    BY JobsAssumption DEF RInv, SweepInv
  <2>2. IsFiniteSet(tried \union todo)
    BY <2>1, FS_Union
  <2>3. Cardinality(tried) <= Cardinality(tried \union todo)
    BY <2>2, FS_Subset
  <2>4. Cardinality(tried) \in Nat /\ Cardinality(tried \union todo) \in Nat
    BY <2>1, <2>2, FS_CardinalityType
  <2> QED BY <2>1, <2>3, <2>4
<1> QED BY <1>1, RInvariant, PTL

\* What process_proposal judges is what won the sweep, if that was around HEAD and with
\* the strategy of HEAD, unless HEAD moved between the two reads of the optimizer; and
\* whatever the spec names, it differs from HEAD in levers only.
THEOREM WinnerIsJudged == Spec => []ProposalReproduces
<1>1. RInv => ProposalReproduces
  BY DEF RInv, ProposalInv
<1> QED BY <1>1, RInvariant, PTL

\* review_journal writes drift_flag.json only when there is drift and never removes it:
\* as the peak of cusum_low never falls when trades are added at the end, the file says
\* what its last review saw, unless the outcome of an earlier trade came in late.
THEOREM FlagSaysLastReview == Spec => []FlagIsCurrent
<1>1. RInv => FlagIsCurrent
  BY DEF RInv, FlagInv
<1> QED BY <1>1, RInvariant, PTL

\* walk_forward's collapse test, behind Eligible and Verdict: what is proposed, and what
\* passes, has a positive sum of r over the trades before its lockbox begins.
THEOREM WinnersEarnedBefore == Spec => []EarnedBeforeLockbox
<1>1. RInv => EarnedBeforeLockbox
  BY DEF RInv, EarnedInv
<1> QED BY <1>1, RInvariant, PTL

\* make_splits and daily_returns: every trade that is not held out is in one fold, the
\* folds begin with a month and none but a lone one is a stub, and the daily series has
\* every trade that closes on a weekday.
THEOREM VerdictMissesNothing == Spec => []VerdictSeesAll
<1>1. RInv => VerdictSeesAll
  <2> SUFFICES ASSUME RInv PROVE VerdictSeesAll
    OBVIOUS
  <2>1. ASSUME phase # "export", Period[1] < Period[2]
        PROVE  LET folds == DevFolds(Period, job.lockbox)  n == Len(folds) IN
               /\ n > 0 /\ folds[1][1] = Period[1] /\ folds[n][2] = DevEnd(Period, job.lockbox)
               /\ \A k \in 2 .. n : /\ folds[k][1] = folds[k - 1][2]
                                    /\ folds[k][1] = AddMonths(folds[k][1], 0)
               /\ n > 1 => folds[n][2] - folds[n][1] >= FoldMonths * StubDays * DayHours
    <3>1. Period[1] \in Nat /\ Period[2] \in Nat /\ job.lockbox \in Nat
      BY <2>1, PeriodType, JobsAssumption DEF RInv, SweepInv
    <3>2. PICK p : p = Period
      OBVIOUS
    <3>3. PICK months \in Nat : months = job.lockbox
      BY <3>1
    <3>4. p[1] \in Nat /\ p[2] \in Nat /\ p[1] < p[2]
      BY <2>1, <3>1, <3>2
    <3> QED BY <3>2, <3>3, <3>4, FoldsTile
  <2>2. ASSUME NEW r \in results
        PROVE  LET trades == r.book.trades  returns == DailyReturns(trades)
                   week   == ClosedOn(trades, {d \in Nat : Weekday(d)})
               IN  /\ Total(returns) = Total(Pnls(week))
                   /\ Len(returns) >= Cardinality({ExitDay(week[k]) : k \in DOMAIN week})
    <3>1. PICK trades : trades = r.book.trades
      OBVIOUS
    <3>2. trades \in Seq(TradeRecord)
      BY <3>1, JobsAssumption DEF RInv, SweepInv, BooksInv
    <3> QED BY <3>1, <3>2, DailyComplete DEF Weekdays
  <2> QED BY <2>1, <2>2 DEF VerdictSeesAll
<1> QED BY <1>1, RInvariant, PTL

\* clean_bars: what is dropped is counted, the last export of an hour stays, and an
\* hour of trading without a bar lies in a gap.
THEOREM CleaningLosesNothing == Spec => []CleaningAccounts
<1>1. RInv => CleaningAccounts
  <2> SUFFICES ASSUME RInv, phase # "export" PROVE CleaningAccounts
    BY DEF CleaningAccounts
  <2>1. PICK offset \in job.offsets : Exported(job.rates, offset, data)
    BY DEF RInv, DataInv
  <2>2. Len(job.rates) = Len(data.bars) + data.duplicates + data.weekend + data.outliers
    BY <2>1 DEF Exported
  <2>3. ASSUME NEW n \in DOMAIN data.bars
        PROVE  \E o \in job.offsets, k \in DOMAIN job.rates :
                 /\ data.bars[n] = [job.rates[k] EXCEPT !.t = @ - o]
                 /\ \A m \in DOMAIN job.rates : job.rates[m].t = job.rates[k].t => m <= k
    BY <2>1 DEF Exported
  <2>4. ASSUME NEW t \in Period[1] .. Period[2]
        PROVE  \/ t \in Market!Times(data.bars)
               \/ \E gap \in data.gaps : gap[1] < t /\ t < gap[2]
               \/ \E n \in DOMAIN data.bars :
                    /\ Market!IsWeekendClosed(data.bars[n].t + 1)
                    /\ data.bars[n].t < t /\ t < data.bars[n + 1].t
    <3>1. PICK bars : bars = data.bars
      OBVIOUS
    <3>2. bars \in Seq(Market!BarRecord) /\ bars # <<>> /\ data.gaps = Market!DetectGaps(bars)
      BY <2>1, <3>1 DEF RInv, DataInv, Exported
    <3>3. t \in bars[1].t .. Last(bars).t
      BY <3>1 DEF Period
    <3> QED BY <3>1, <3>2, <3>3, GapsCover
  <2> QED BY <2>2, <2>3, <2>4 DEF CleaningAccounts
<1> QED BY <1>1, RInvariant, PTL
=============================================================================

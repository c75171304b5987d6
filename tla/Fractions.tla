------------------------------ MODULE Fractions ------------------------------
(***************************************************************************)
(* What the code computes in floating point and compares: exact fractions, *)
(* their denominators positive.                                            *)
(***************************************************************************)
EXTENDS Lists, SequencesExt

Frac(n, d) == [num |-> n, den |-> d]
Whole(n)   == Frac(n, 1)

Less(a, b) == a.num * b.den < b.num * a.den
Leq(a, b)  == ~Less(b, a)

Times(a, n) == Frac(a.num * n, a.den)
Plus(a, b)  == Frac(a.num * b.den + b.num * a.den, a.den * b.den)
MaxFrac(a, b) == IF Less(a, b) THEN b ELSE a

AbsOf(x) == IF x < 0 THEN -x ELSE x
=============================================================================

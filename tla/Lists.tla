-------------------------------- MODULE Lists --------------------------------
(***************************************************************************)
(* Sums of and selections from lists, as recursive functions.              *)
(***************************************************************************)
EXTENDS Integers, Sequences

Total(s) ==
  LET upto[n \in 0 .. Len(s)] == IF n = 0 THEN 0 ELSE upto[n - 1] + s[n]
  IN  upto[Len(s)]

\* The elements of s that are in S, in their order.
Selected(s, S) ==
  LET upto[n \in 0 .. Len(s)] ==
        IF n = 0 THEN <<>>
        ELSE IF s[n] \in S THEN Append(upto[n - 1], s[n]) ELSE upto[n - 1]
  IN  upto[Len(s)]
=============================================================================

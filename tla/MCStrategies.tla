---------------------------- MODULE MCStrategies ----------------------------
(***************************************************************************)
(* The strategies on small data: prices 0 .. 3, a day of seven bars, four  *)
(* bars of history (two of the day before, two of the morning).            *)
(***************************************************************************)
EXTENDS Strategies

Shape(low, high, close) == [low |-> low, high |-> high, close |-> close]

At(t, b) == [t |-> t, low |-> b.low, high |-> b.high, close |-> b.close,
             volume |-> b.high - b.low]

Shapes == {b \in [low : 0 .. 3, high : 0 .. 3, close : 0 .. 3] :
             b.low <= b.close /\ b.close <= b.high /\ b.low < b.high}

Opening == {Shape(1, 2, 1), Shape(1, 2, 2), Shape(0, 1, 1)}

Flat2 == Shape(1, 2, 1)
Wide  == Shape(0, 3, 2)

\* A quiet, a wide and a rising past.
Past == {<<At(5, Flat2), At(6, Flat2), At(8, Shape(1, 2, 2)), At(9, Flat2)>>,
         <<At(5, Wide), At(6, Shape(0, 2, 1)), At(8, Wide), At(9, Shape(1, 3, 1))>>,
         <<At(5, Shape(0, 1, 0)), At(6, Shape(0, 1, 1)), At(8, Shape(0, 2, 1)), At(9, Shape(0, 1, 1))>>}
=============================================================================

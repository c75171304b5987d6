----------------------------- MODULE MCResearch -----------------------------
(***************************************************************************)
(* Instances of Research.  A day has two hours and a month three days, so  *)
(* that a quarter of a year is a few trades.                               *)
(***************************************************************************)
EXTENDS Research

\* More trials ask for more profit.
Profitable(returns, count) == Total(returns) >= 2 * count

First  == [er |-> 1, buf |-> 0, risk |-> 1, name |-> "breakout"]
Others == {[First EXCEPT !.er = 2], [First EXCEPT !.buf = 2, !.er = 3]}

Closed == {-9, -3, 5}

Trade(span, r) == [entry |-> span[1], exit |-> span[2], r |-> r, pnl |-> r]

\* The trades of a list of results, 0 for none, at fixed times: one closes on a
\* Sunday, some lie in a lockbox.
At == <<<<2, 3>>, <<8, 13>>, <<15, 16>>, <<20, 21>>, <<28, 29>>>>
Book(rs, breaches) ==
  [trades   |-> [k \in DOMAIN At |-> Trade(At[k], rs[k])],
   breaches |-> breaches]
Without(book) == [book EXCEPT !.trades = SelectSeq(@, LAMBDA tr : tr.r # 0)]
Within(book, period) ==
  [book EXCEPT !.trades =
     SelectSeq(@, LAMBDA tr : period[1] <= tr.entry /\ tr.exit <= period[2])]

AnyBooks == {Without(Book(rs, 0)) : rs \in [1 .. 5 -> {-4, 0, 9}]}
FewBooks == {Book(<<9, -2, 9, -2, 9>>, 0), Book(<<-2, -2, 2, -2, 30>>, 0),
             Book(<<9, -2, 20, 9, -2>>, 0), Book(<<9, -9, 20, 9, 9>>, 1)}

Bar(t) == [t |-> t, range |-> 1]

Job(space, method, prior, objective, period, lockbox, bs, live) ==
  [space |-> space, method |-> method, budget |-> 2, base |-> prior,
   objective |-> objective, lockbox |-> lockbox,
   books |-> {Within(b, period) : b \in bs},
   rates |-> <<Bar(period[1]), Bar(period[2])>>, offsets |-> {0}, live |-> live,
   dev |-> <<>>, override |-> <<>>]

RangeAxis(lo, hi, step) == [min |-> lo, max |-> hi, step |-> step]
One   == "er" :> [values |-> {2}]
Three == "buf" :> RangeAxis(0, 4, 2)
Six   == "er" :> [values |-> {1, 2}] @@ "buf" :> RangeAxis(0, 3, 2)
Risky == "er" :> [values |-> {1, 2}] @@ "risk" :> [values |-> {1, 2}]

\* Hours from a Thursday to a Monday, some of them exported again, or with a bad range.
Rates ==
  {SetToSortSeq({Bar(t) : t \in ts}, LAMBDA a, b : a.t < b.t) \o more :
     ts \in SUBSET {6, 7, 8, 9, 13, 14, 15} \ {{}},
     more \in {<<>>, <<[t |-> 8, range |-> 2]>>, <<[t |-> 7, range |-> 9]>>}}

\* Sweeps of another strategy, or of the one of HEAD, or around a dev YAML.
Named(name) == [Job(One, "grid", 0, "oos", <<1, 32>>, 1, FewBooks, 0)
                  EXCEPT !.override = "name" :> name]
FromYaml == [Job(One, "grid", 0, "oos", <<1, 32>>, 1, FewBooks, 0)
               EXCEPT !.dev = <<[version |-> 0, config |-> [First EXCEPT !.buf = 3]]>>]

AllJobs ==
  {Named("breakout"), Named("fade"), FromYaml} \union
  {Job(One, "grid", 0, "oos", p, months, FewBooks, 0) :
     p \in {<<0, 21>>, <<1, 35>>, <<4, 30>>, <<8, 33>>}, months \in 0 .. 3}
  \union {Job(One, "grid", 0, "oos", p, 1, AnyBooks, 0) : p \in {<<1, 35>>, <<8, 33>>}}
  \union {Job(s, m, n, o, <<1, 32>>, 1, FewBooks, 0) :
     s \in {Three}, m \in {"grid", "random", "coarse_to_fine"}, n \in {0, 1},
     o \in {"oos", "is"}}
  \union {Job(s, m, 0, "oos", <<1, 32>>, 1, FewBooks, 0) :
     s \in {Six, Risky}, m \in {"random"}}
  \union {Job(Risky, "grid", 0, "is", <<1, 32>>, 1, FewBooks, 0),
          Job(Risky, "coarse_to_fine", 0, "oos", <<1, 32>>, 1, FewBooks, 0),
          Job(One, "grid", 0, "oos", <<1, 32>>, 1, {}, 5)}
  \union {[Job(One, "grid", 0, "oos", <<1, 32>>, 1, {}, 0) EXCEPT !.rates = rates, !.offsets = {-1, 0, 1}] :
     rates \in Rates}
=============================================================================

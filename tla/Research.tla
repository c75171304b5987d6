------------------------------ MODULE Research ------------------------------
(***************************************************************************)
(* The improvement loop around the statistics: bars are exported, the      *)
(* optimizer sweeps a space of parameters and writes the best candidate as *)
(* a proposal (src/scripts/optimize.py, src/src/agents/optimizer.py), the  *)
(* pipeline validates it and judges it again on the current HEAD (loop.py, *)
(* proposal.py), and the reviewer watches the live trades for drift        *)
(* (drift.py, src/scripts/review_journal.py).                              *)
(*                                                                         *)
(* A backtest is deterministic: the first one of a config picks its book,  *)
(* the trades and the FTMO breaches, and later ones repeat it.  Values of  *)
(* parameters are whole numbers, the steps of their axes even ones.        *)
(***************************************************************************)
EXTENDS Statistics

CONSTANTS CloseHour, MaxRange
Market == INSTANCE MarketData

CONSTANTS
  Params, Levers, Forbidden, \* parameters; those a proposal may change, and never may
  FirstConfig,               \* the config of HEAD to begin with
  OtherConfigs,              \* configs that somebody else may promote meanwhile
  Jobs,                      \* sweeps: space, method, budget, base (--base-trials),
                             \*   objective, lockbox, books; dev, a dev YAML to sweep
                             \*   around, if any, and override, the strategy the spec
                             \*   names; rates, what the terminal has, and offsets, what
                             \*   its clock is taken for; live, trades reviewed (bound)
  PriorTrials, ProposalLockbox,  \* trials in the ledger; months of process_proposal.py
  LiveRs                     \* r of a live trade, in tenths

ASSUME ResearchAssumption ==
  /\ Levers \subseteq Params /\ Forbidden \subseteq Params /\ Levers \intersect Forbidden = {}
  /\ \A config \in {FirstConfig} \union OtherConfigs : DOMAIN config = Params
  /\ LiveRs \subseteq Int
  /\ ProposalLockbox \in Nat
  /\ CloseHour \in 0 .. DayHours

VARIABLES
  job,      \* the sweep, and the data it is given
  data,     \* the bars exported and cleaned, with their report
  head,     \* HEAD of the config store
  phase,    \* what the optimizer is about to do
  base,     \* the config it sweeps around
  parent,   \* the version it will name as the parent
  todo,     \* candidates still to be evaluated
  trials,   \* the trial count they are judged at
  results,  \* what the ranking is made of
  tried,    \* history: every candidate evaluated
  books,    \* what the backtester says of a config
  proposal, \* the proposal, and its winner
  outcome,  \* what the pipeline made of it
  closed,   \* r of the trades closed live, in the order in which they were opened
  flag      \* drift_flag.json; history: how many trades its review saw, and whether
            \*   one of an earlier place has closed since

sweep == <<job, data, base, parent, todo, trials, results, tried, proposal>>
vars  == <<job, data, head, phase, base, parent, todo, trials, results, tried, books, proposal,
           outcome, closed, flag>>

None == "none"

-----------------------------------------------------------------------------
(* The search space: an axis is a set of values, or a range.               *)

IsRange(axis) == "step" \in DOMAIN axis

\* _frange refuses a step that is not positive; steps are even, for their halves.
AxisOK(axis) ==
  IF IsRange(axis)
  THEN axis.min \in Int /\ axis.max \in Int /\ axis.step \in Nat \ {0} /\ axis.step % 2 = 0
  ELSE IsFiniteSet(axis.values)

ASSUME JobsAssumption ==
  \A j \in Jobs : /\ IsFiniteSet(DOMAIN j.space) /\ \A p \in DOMAIN j.space : AxisOK(j.space[p])
                  /\ {j.base, j.lockbox} \subseteq Nat /\ j.offsets \subseteq Int
                  /\ j.rates \in Seq(Market!BarRecord)
                  /\ \A k \in DOMAIN j.rates, o \in j.offsets : j.rates[k].t - o \in Nat
                  /\ \A book \in j.books : book.trades \in Seq(TradeRecord)

\* n/d to the nearest whole number, a half to the even one.
Nearest(n, d) ==
  LET q == n \div d  left == 2 * (n % d)
  IN  IF left < d \/ (left = d /\ q % 2 = 0) THEN q ELSE q + 1

AxisValues(axis) ==
  IF IsRange(axis)
  THEN {axis.min + n * axis.step : n \in 0 .. Nearest(axis.max - axis.min, axis.step)}
  ELSE axis.values

Grid(space) ==
  {c \in [DOMAIN space -> UNION {AxisValues(space[p]) : p \in DOMAIN space}] :
     \A p \in DOMAIN space : c[p] \in AxisValues(space[p])}

\* Half steps around the winner, inside the range; the other axes are pinned.
RefineSpace(space, winner) ==
  [p \in DOMAIN space |->
     IF IsRange(space[p])
     THEN [min  |-> Max({space[p].min, winner[p] - space[p].step}),
           max  |-> Min({space[p].max, winner[p] + space[p].step}),
           step |-> space[p].step \div 2]
     ELSE [values |-> {winner[p]}]]

\* What a sweep begins with: the grid, or as many of it as the budget allows.
Candidates(j) ==
  IF j.method = "random" /\ Cardinality(Grid(j.space)) > j.budget
  THEN {s \in SUBSET Grid(j.space) : Cardinality(s) = j.budget}
  ELSE {Grid(j.space)}

\* What is named replaces what the config says; apply_diff does the same.
ApplyOverrides(config, candidate) ==
  [p \in DOMAIN config \union DOMAIN candidate |->
     IF p \in DOMAIN candidate THEN candidate[p] ELSE config[p]]

BuildDiff(config, candidate) ==
  [p \in {p \in DOMAIN candidate : p \notin DOMAIN config \/ candidate[p] # config[p]}
     |-> candidate[p]]

-----------------------------------------------------------------------------
(* Ranking.                                                                *)

\* Of the bars that are there.
Period == <<data.bars[1].t, Last(data.bars).t>>

Walk(r) == WalkForward(r.book.trades, Period, job.lockbox)

Eligible(r) ==
  /\ GatesPassed(r.book.trades, r.book.breaches, r.trials)
  /\ ~Walk(r).severe /\ ~Walk(r).collapse

Score(r) == IF job.objective = "oos" THEN Walk(r).oos ELSE Expectancy(r.book.trades)

\* The first of the ranking; which one of equals is left open.
Best(rs) == {r \in rs : \A s \in rs : Leq(Score(s), Score(r))}

Ranked == Best({r \in results : Eligible(r)})

\* coarse_to_fine: what to refine around when nothing is eligible yet.
Centre == IF Ranked # {} THEN Ranked ELSE Best({r \in results : ~Walk(r).severe})

Fine(centre) == Grid(RefineSpace(job.space, centre)) \ tried

-----------------------------------------------------------------------------
(* The optimizer.                                                          *)

Backtests(config) == IF config \in DOMAIN books THEN {books[config]} ELSE job.books

\* The same bars always give the same book.
Known(config, book) ==
  [c \in DOMAIN books \union {config} |-> IF c = config THEN book ELSE books[c]]

NoData == [bars |-> <<>>]

\* mt5_export.py.  Without a tick the clock is taken for UTC, and a tick of before the
\* weekend puts it hours back.
ExportBars ==
  /\ phase = "export" /\ phase' = "start"
  /\ \E offset \in job.offsets : data' = Market!Export(job.rates, offset)
  /\ data'.bars # <<>>
  /\ UNCHANGED <<job, head, base, parent, todo, trials, results, tried, books, proposal,
                 outcome, closed, flag>>

\* What is swept around: HEAD or a dev YAML, under the strategy the spec names.
Around(version) ==
  [version EXCEPT !.config = ApplyOverrides(@, job.override)]

\* resolve_strategy_config, and then the store: HEAD is read twice.
ReadBase ==
  /\ phase = "start" /\ phase' = "based"
  /\ base' = Around(IF job.dev = <<>> THEN head ELSE job.dev[1])
  /\ UNCHANGED <<job, data, head, parent, todo, trials, results, tried, books, proposal,
                 outcome, closed, flag>>

ReadHead ==
  /\ phase = "based" /\ phase' = "coarse"
  /\ parent' = head.version
  /\ todo' \in Candidates(job)
  /\ trials' = Cardinality(todo') + job.base
  /\ UNCHANGED <<job, data, head, base, results, tried, books, proposal, outcome, closed, flag>>

Evaluate ==
  /\ phase \in {"coarse", "fine"} /\ todo # {}
  /\ LET c == CHOOSE c \in todo : TRUE
         config == ApplyOverrides(base.config, c)
     IN  \E book \in Backtests(config) :
           /\ books' = Known(config, book)
           /\ results' = results \union {[cand |-> c, trials |-> trials, book |-> book]}
           /\ tried' = tried \union {c} /\ todo' = todo \ {c}
  /\ UNCHANGED <<job, data, head, phase, base, parent, trials, proposal, outcome, closed, flag>>

\* Mutant: the coarse candidates are forgotten.
RefineFewTrials ==
  /\ phase = "coarse" /\ todo = {} /\ job.method = "coarse_to_fine"
  /\ \E r \in Centre :
       LET fine == Fine(r.cand) IN
       /\ phase' = "fine" /\ todo' = fine
       /\ trials' = Cardinality(fine) + job.base
       /\ results' = IF fine = {} THEN results ELSE {}
  /\ UNCHANGED <<job, data, head, base, parent, tried, books, proposal, outcome, closed, flag>>

\* The second pass replaces the first in the ranking, and is judged at the total.
Refine ==
  /\ phase = "coarse" /\ todo = {} /\ job.method = "coarse_to_fine"
  /\ \E r \in Centre :
       LET fine == Fine(r.cand) IN
       /\ phase' = "fine" /\ todo' = fine
       /\ trials' = Cardinality(tried) + Cardinality(fine) + job.base
       /\ results' = IF fine = {} THEN results ELSE {}
  /\ UNCHANGED <<job, data, head, base, parent, tried, books, proposal, outcome, closed, flag>>

Swept ==
  /\ todo = {}
  /\ phase = "fine" \/ (phase = "coarse" /\ job.method # "coarse_to_fine")

GiveUp ==
  /\ todo = {}
  /\ \/ Swept /\ Ranked = {}
     \/ phase = "coarse" /\ Centre = {}
  /\ phase' = "done"
  /\ UNCHANGED <<job, data, head, base, parent, todo, trials, results, tried, books, proposal,
                 outcome, closed, flag>>

Propose ==
  /\ Swept
  /\ \E r \in Ranked :
       proposal' = [parent |-> parent, diff |-> BuildDiff(base.config, r.cand),
                    winner |-> r]
  /\ phase' = "proposed"
  /\ UNCHANGED <<job, data, head, base, parent, todo, trials, results, tried, books, outcome,
                 closed, flag>>

-----------------------------------------------------------------------------
(* The pipeline, and whoever else promotes.                                *)

\* Mutant: the parent is not looked at.
ValidStale(p) ==
  /\ DOMAIN p.diff # {} /\ DOMAIN p.diff \intersect Forbidden = {} /\ DOMAIN p.diff \subseteq Levers

\* validate_proposal: the parent is HEAD, and the diff touches levers only.
Valid(p) ==
  /\ p.parent = head.version
  /\ DOMAIN p.diff # {}
  /\ DOMAIN p.diff \intersect Forbidden = {} /\ DOMAIN p.diff \subseteq Levers

Passes(book, count) ==
  Verdict(GatesPassed(book.trades, book.breaches, count),
          WalkForward(book.trades, Period, ProposalLockbox))

\* process_proposal: recorded first, judged at the count of the ledger.
Process ==
  /\ phase = "proposed" /\ phase' = "done"
  /\ IF ~Valid(proposal)
     THEN outcome' = [status |-> "rejected"] /\ UNCHANGED books
     ELSE LET config == ApplyOverrides(head.config, proposal.diff)  count == PriorTrials + 1 IN
          \E book \in Backtests(config) :
            /\ books' = Known(config, book)
            /\ outcome' = [status |-> IF Passes(book, count) THEN "passed" ELSE "failed",
                           config |-> config, head |-> head, book |-> book, count |-> count]
  /\ UNCHANGED <<head, closed, flag>> /\ UNCHANGED sweep

\* Once, while the optimizer or a human takes their time.
Promoted ==
  /\ phase # "done" /\ head.version = 1
  /\ \E config \in OtherConfigs : head' = [version |-> 2, config |-> config]
  /\ UNCHANGED <<phase, books, outcome, closed, flag>> /\ UNCHANGED sweep

-----------------------------------------------------------------------------
(* The reviewer.  Half a tenth of R is the unit of the CUSUM: the target   *)
(* of 0.10R less k = 0.05R is one, the thresholds are 0.8R and 1.6R.       *)

\* Mutant: where the sum is now, not where it has been.
CusumNow(rs) == FoldLeft(LAMBDA s, r : Max({0, s + 1 - 2 * r}), 0, rs)

\* cusum_low: the highest the sum of the shortfalls has been.
CusumLow(rs) ==
  LET sum[n \in 0 .. Len(rs)] ==
        IF n = 0 THEN 0 ELSE Max({0, sum[n - 1] + 1 - 2 * rs[n]})
  IN  Max({sum[n] : n \in 0 .. Len(rs)})

CusumState(rs) ==
  IF CusumLow(rs) >= 32 THEN "alarm" ELSE IF CusumLow(rs) >= 16 THEN "warning" ELSE "ok"

DriftAction(state) ==
  CASE state = "alarm" -> [action |-> "reduce_shadow", owner |-> "governor"]
    [] state = "warning" -> [action |-> "flag_retune", owner |-> "researcher"]
    [] OTHER -> [action |-> "log", owner |-> None]

\* An outcome reaches the journal: update_trade patches the row of the trade, which
\* stands where the trade was opened.
TradeCloses ==
  /\ phase = "start" /\ Len(closed) < job.live
  /\ \E r \in LiveRs, place \in 1 .. Len(closed) + 1 :
       /\ closed' = SubSeq(closed, 1, place - 1) \o <<r>> \o SubSeq(closed, place, Len(closed))
       /\ flag' = [flag EXCEPT !.late = @ \/ place <= flag.seen]
  /\ UNCHANGED <<head, phase, books, outcome>> /\ UNCHANGED sweep

\* The flag is written when there is drift, and never removed.
Review ==
  /\ phase = "start" /\ closed # <<>>
  /\ LET state == CusumState(closed) IN
     flag' = [state  |-> IF state = "ok" THEN flag.state ELSE state,
              action |-> IF state = "ok" THEN flag.action ELSE DriftAction(state).action,
              seen   |-> Len(closed),
              late   |-> flag.late /\ state = "ok" /\ flag.state # "ok"]
  /\ UNCHANGED <<head, phase, books, outcome, closed>> /\ UNCHANGED sweep

-----------------------------------------------------------------------------

NoProposal == [parent |-> 0]
NoFlag == [state |-> "ok", action |-> "log", seen |-> 0, late |-> FALSE]

Init ==
  /\ job \in Jobs
  /\ head = [version |-> 1, config |-> FirstConfig] /\ base = head /\ parent = 0
  /\ data = NoData /\ phase = "export" /\ todo = {} /\ trials = 0 /\ results = {} /\ tried = {}
  /\ books = <<>> /\ proposal = NoProposal /\ outcome = [status |-> None]
  /\ closed = <<>> /\ flag = NoFlag

Next ==
  \/ ExportBars \/ ReadBase \/ ReadHead \/ Evaluate \/ Refine \/ GiveUp \/ Propose
  \/ Process \/ Promoted
  \/ TradeCloses \/ Review

Spec == Init /\ [][Next]_vars

-----------------------------------------------------------------------------
(* Properties.                                                             *)

\* "every candidate is judged at a DSR trial_count equal to the sweep size"
\* (optimizer.py): nothing is ranked at fewer trials than the sweep has made so far,
\* on top of those the operator names with --base-trials.
TrialsHonest ==
  \A r \in results : r.trials >= Cardinality(tried) + job.base

\* A candidate that is proposed, or passes, has earned money on the trades before the
\* lockbox began: one that lost on them is refused whatever the held-out months say.
EarnedBeforeLockbox ==
  /\ proposal # NoProposal =>
       Total(Rs(DevTrades(proposal.winner.book.trades, Period, job.lockbox))) > 0
  /\ outcome.status = "passed" =>
       Total(Rs(DevTrades(outcome.book.trades, Period, ProposalLockbox))) > 0

\* The sweep was around HEAD, and the strategy the spec names is the one of HEAD.
AroundHead ==
  job.dev = <<>> /\ ApplyOverrides(outcome.head.config, job.override) = outcome.head.config

\* The config that the pipeline judges is the one that won a sweep around HEAD,
\* whoever promotes in between, as long as the optimizer read one HEAD; and whatever a
\* space names, it differs from HEAD in levers only.
ProposalReproduces ==
  outcome.status \in {"passed", "failed"} =>
    /\ AroundHead /\ base.version = proposal.parent =>
         outcome.config = ApplyOverrides(base.config, proposal.winner.cand)
    /\ \A p \in Params \ Levers : outcome.config[p] = outcome.head.config[p]

\* The windows of the walk-forward tile the period up to the lockbox, all but the
\* first begin with a month, and none but a lone one is a stub: a verdict sees every
\* trade that is not held out.  Nor does the daily series lose anything that exits on
\* a weekday, or a weekday.
VerdictSeesAll ==
  /\ phase # "export" /\ Period[1] < Period[2] =>
       LET folds == DevFolds(Period, job.lockbox)  n == Len(folds) IN
       /\ n > 0 /\ folds[1][1] = Period[1] /\ folds[n][2] = DevEnd(Period, job.lockbox)
       /\ \A k \in 2 .. n : folds[k][1] = folds[k - 1][2] /\ folds[k][1] = AddMonths(folds[k][1], 0)
       /\ n > 1 => folds[n][2] - folds[n][1] >= FoldMonths * StubDays * DayHours
  /\ \A r \in results :
       LET trades == r.book.trades  returns == DailyReturns(trades)
           week   == ClosedOn(trades, {d \in Nat : Weekday(d)})
       IN  /\ Total(returns) = Total(Pnls(week))
           /\ Len(returns) >= Cardinality({ExitDay(week[k]) : k \in DOMAIN week})

\* Cleaning loses nothing that it does not count, and of an hour that was exported
\* twice the later export stays.  "Gaps are surfaced, never interpolated" (clean.py):
\* an hour of trading without a bar lies in a gap of the report, or in one that begins
\* where the weekend does.
CleaningAccounts ==
  phase # "export" =>
    /\ Len(job.rates) = Len(data.bars) + data.duplicates + data.weekend + data.outliers
    /\ \A n \in DOMAIN data.bars : \E offset \in job.offsets, k \in DOMAIN job.rates :
         /\ data.bars[n] = [job.rates[k] EXCEPT !.t = @ - offset]
         /\ \A m \in DOMAIN job.rates : job.rates[m].t = job.rates[k].t => m <= k
    /\ \A t \in Period[1] .. Period[2] :
         \/ Market!IsWeekendClosed(t) \/ t \in Market!Times(data.bars)
         \/ \E gap \in data.gaps : gap[1] < t /\ t < gap[2]
         \/ \E n \in DOMAIN data.bars :
              /\ Market!IsWeekendClosed(data.bars[n].t + 1)
              /\ data.bars[n].t < t /\ t < data.bars[n + 1].t

\* What drift_flag.json says is what its last review saw, although nothing removes it:
\* unless, since a review that found drift, a trade has closed that was opened before
\* one already reviewed.
FlagIsCurrent ==
  LET seen == SubSeq(closed, 1, flag.seen) IN
  \/ flag.late
  \/ /\ flag.state = CusumState(seen)
     /\ flag.action = DriftAction(CusumState(seen)).action
=============================================================================

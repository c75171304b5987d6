# Verification of the EURUSD trading engine

TLA+ models of the trading bot in `src/`, TLC configurations that check them on
small instances, and TLAPS proofs for every value of the constants. Paths below
are relative to the repository (`src/` is its Python package).

## 1. The system

| component | state it keeps | operations | hard behaviour |
|---|---|---|---|
| **Risk Governor** (`src/risk`) | none; reads `AccountState`, `DayState` | `evaluate_entry`, `evaluate_manage`, `effective_killswitch`, `apply_daily_reset` | boundaries of floors, tiers and taper; interplay of thirteen checks |
| **Live engine** (`src/engine/run.py`, `decide.py`) | `_last_bar_ts`, the local `account`, `day`, positions and pendings of one tick | `run`, `_on_tick`, `_load_day_state`, `_manage`, `_flatten_and_halt` | the market moves between any two broker calls; crash and restart at any point; state read, then used after it changed |
| **Execution adapter** (`src/execution`) | none of its own; writes intents | `place`, `_confirm`, `close`, `cancel`, `modify_sl_tp`, `reconcile_on_startup` | persist-before-act, lost answers, dropped order comments, re-quotes, UNKNOWN intents |
| **Broker** (MT5, external) | orders, positions, deals, equity | fills, stop-outs, targets, expiries | asynchronous to the engine; calls fail or are refused |
| **Journal** (`src/journal`) | daily JSONL files, SQLite tables | `append`, `put_day_state`, `open_intents`, rebuild on start | partial tail after a crash, JSONL ahead of SQLite |
| **Manual kill-switch** (`src/ops/killswitch.py`) | the `HALT` file | engage, clear, poll | races with the loop |
| **Config store and promotion** (`src/agents/config_store.py`, `loop.py`, `src/ops/runtime_config.py`) | `vN.json`, `HEAD`, `promotion.lease` | `acquire_lease`, `promote`, `rollback`, resolve | check-then-write between processes |
| **Trial ledger, proposals** (`src/agents/ledger.py`, `proposal.py`) | append-only ledger | `record`, counts, `process_proposal` | budget read before it is debited |
| **Backtest** (`src/backtest/engine.py`, `ftmo_sim.py`, `costs.py`) | armed legs, the open position, its partials and trail, tracker | `run_on_bars` | the order of stop, target, partials, break-even and trail within a bar; must decide as live does |
| **Backtest statistics** (`src/backtest/metrics.py`, `gates.py`, `walkforward.py`, `validate.py`) | none | metrics, gates, windows, verdict | windows and series that drop what a verdict should see |
| **Strategies and indicators** (`src/engine/strategy*.py`, `indicators.py`) | none between bars | `evaluate`, `manage` | pure functions of bars that may be missing, called live and in backtests with another `now` |
| **Optimizer** (`src/agents/optimizer.py`, `scripts/optimize.py`) | candidates, results | sweep, refine, rank, propose | HEAD moves while it sweeps; a base or a strategy other than HEAD's; trial counts; the lockbox |
| **Drift review** (`src/agents/drift.py`, `scripts/review_journal.py`) | `drift_flag.json` | CUSUM, policy | the flag outlives what it was written for |
| **Market data** (`src/data/clean.py`, `scripts/mt5_export.py`) | bar files | export, dedupe, clip, gaps | cleaning makes gaps of its own |
| **Alerts** (`src/ops/alerts.py`, `scripts/sync_r2.py`, `forward_alerts.py`) | a file of each day in three places, the forwarder's marker | append, push, pull, forward | torn lines, failed sends, a death before the marker, midnight |
| watchdog, backup, agent runtimes, research scripts | files | I/O | nothing reads what they keep |

How they interact: the live loop polls the sentinel, reads the account, loads the
persisted day state from the journal, derives the kill-switch through the
Governor and persists it, lists positions and resting orders through the
adapter, and then either manages what is open or lets the strategy propose an
entry that the Governor sizes or vetoes. The adapter writes each intent to the
journal before it calls the broker. Everything the engine keeps in memory is
lost when the process dies; the service manager starts it again. Offline, bars
are exported and cleaned, the optimizer replays them through the same strategies
and the same Governor, and writes its winner as a proposal; the pipeline judges
it again on the current HEAD, and a human approves it into the config store, from
which the live loop reloads at the next session.

What makes each component correct:

- *Governor*: an approved order cannot, together with what is open, be stopped
  out into a floor or a FLATTEN; sizes are within the budget and never grow as
  the account gets worse; the latch only escalates.
- *Live engine*: one position at a time; an order goes out only where its loss, on
  top of what the account has lost meanwhile, stays short of a FLATTEN; no order under
  a latched HALTED or FLATTEN; no more trades than the cap and one per lapse of the
  bookkeeping; a flatten leaves nothing behind and ends in a halt.
- *Execution*: the engine never trades while an intent of it is in doubt. An intent is
  executed at most once only as far as the broker keeps its comment (section 6).
- *Journal*: a restart reproduces what was appended, nothing else.
- *Config store*: HEAD moves from parent to child only, one promotion per
  parent, and the live engine only ever loads a complete promoted version.
- *Ledger*: the trial count never undercounts what was backtested.
- *Backtest*: money and lots add up over any sequence of partials, a stop bounds
  the loss and retreats at most once, to break even, and nothing is filled at an
  equity the Governor would halt at.
- *Strategies*: one entry per side and day whatever bars are missing, exits on
  the right side of the entry, resting orders that can rest, and a `manage` that
  never gives a trade more room.
- *Research*: nothing is ranked at fewer trials than its sweep made, a winner earned
  money before the held-out months, what is judged is what won a sweep around HEAD,
  and no window, series or gap report silently loses data.
- *Alerts*: an alert is repeated only after a death, is passed over only for a
  failed send, a torn line or midnight, and the forwarder always catches up.

## 2. Modules

| module | role |
|---|---|
| `RiskGovernor` | the Governor's pure functions as operators, one per function of `governor.py` |
| `GovernorCases` | a walk over the Governor's inputs, one input made worse per step; its invariants are about one call, its action properties compare two calls |
| `KillSwitch` | the abstract latch that the docstrings of `KillSwitchState`, `effective_killswitch` and `apply_daily_reset` promise |
| `LiveEngine` | the live loop, its broker and its durable state; `KillSwitch` is refined by its persisted day state |
| `ConfigStore` | the versioned store, the promotion pipeline, rollbacks and the engine that loads HEAD |
| `DurableLog` | the abstract log that the docstring of `journal.py` promises |
| `Journal` | the JSONL files, the tables and the process that appends, dies, repairs and rebuilds; it implements `DurableLog` |
| `Backtest` | the replay of bars, on the operators of `RiskGovernor` |
| `Fractions`, `Indicators`, `Strategies` | exact fractions; `indicators.py`; the sixteen registered strategies fed with the same bars |
| `MCStrategies` | small data for `Strategies` |
| `Lists`, `Statistics`, `MarketData` | sums and selections; metrics, gates, windows and verdict; export and cleaning |
| `Research` | the sweep, its proposal, the pipeline's judgement and the drift review, on `Statistics` and `MarketData` |
| `MCResearch` | jobs, books and bars for `Research` |
| `Alerts` | the way of an alert from the VPS to the channel |
| `RiskGovernorLemmas`, `GovernorCases_proofs`, `LiveEngine_proofs`, `ConfigStore_proofs`, `Journal_proofs`, `Backtest_proofs`, `Research_proofs`, `Alerts_proofs` | proofs (section 4) |

### RiskGovernor
Money is an integer. Its unit is `1/Scale` of a basis point of the initial
balance, so the percentages of `config.py` are exact, and fractions are pairs
`num`/`den` compared by cross-multiplication; the model has no rounding where
the code has float rounding, except where the code rounds on purpose (floor to
the lot step, then `round(lots, 2)`). `stop` is the loss of one lot step at the
stop-loss price; the code's `denom` is `Denom(stop)`. Vetoes carry no reason:
which check failed first is not visible, that one failed is.

### LiveEngine
The engine is one process with a program counter `pc`; each step is one broker
call or one journal write of the code, so that everything outside may happen in
between. `tick` holds the local variables of one `_on_tick`, `day` the persisted
`DayState`, `intents` the intent records that are not terminal, `ticket` the
broker's orders and positions, `executed` the client ids that have a position
or a deal.

| step | code |
|---|---|
| `Start`, `Crash` | `run` up to the loop with `reconcile_on_startup`; the process dying |
| `PollHalt`, `IdlePoll`, `StartTick`, `StaleRead` | the top of an iteration: sentinel, no new bar, a new bar with a fresh or a stale account |
| `LoadDay`, `Latch` | `_load_day_state`; `effective_killswitch` persisted |
| `ListPendings`, `Cancel`, `ListPositions`, `Close`, `FlattenDone` | `_flatten_and_halt` |
| `ReadPositions`, `ReadPendings`, `Cancel`, `RefreshRisk` | a bar with a position |
| `ManageHold`, `ManageClose`, `ManageMoveStop`, `BookManage` | `_manage` |
| `DecideNothing`, `DecideEnter`, `DecideArm`, `NoSymbolMeta` | `decide_entry`, `_decide_arm`; `symbol_meta()` raising |
| `Intend`, `AlreadyThere`, `SendAccepted`, `SendRejected`, `RecordSent`, `Confirm`, `Book` | `place` and the booking of its result |
| `NextBar`, `FillPending`, `StopOut`, `TakeProfit`, `ExpirePending`, `SetHalt`, `ClearHalt` | the world |

A strategy is abstracted to what it emits (`EntryKind`): a market entry, a
single stop order, or a resting pair on the first bar of the day; nothing is
always possible. The session is the FTMO day, and `bar` numbers closed bars.
Faults are switched per configuration: `Crashes`, `LostAnswers` (the order was
executed, `order_send` answered `None`), `ReadFails` (a query answers `None`,
read as an empty list), `RejectCloses`, `Gaps` (a loss beyond the buffered
stop), `CommentsLost` (the bars whose orders lose their comment). A client id is told by
the comment and by nothing else, so `place` and the reconciliation see the ids of `Shown`
and `Resting`: those with a comment, less what a failed query hides. `opened` (positions
opened in the day), `lapses` (answers lost, and crashes between `order_send` and the
booking) and `worst` (the severest state a bar derived) are history variables.

### ConfigStore
`Clients` are processes on one directory: `scripts/process_proposal.py --approve`
or an operator's `rollback`. Each takes one step per file operation, and
`write_text` is two, because it empties the file before it fills it. `Kill` ends
a process anywhere and leaves its files as they are. `run[c]` holds the locals
of one run, and `live` the engine's loader, which reads HEAD and the version
file in two steps.

| step | code |
|---|---|
| `Begin`, `OpenStore` | the script starts; `ConfigStore.__init__` with its bootstrap |
| `ReadHead`, `ReadBudget`, `Record`, `Count`, `Candidate`, `Backtest`, `Report` | `process_proposal`, line by line, and the report that reads HEAD again |
| `CheckLease`, `TakeLease`, `Release` | `acquire_lease` (a test, then a write), `release_lease` |
| `Cas`, `Number` | `promote`: the parent is HEAD; the next number |
| `TruncateVersion`, `WriteVersion`, `TruncateHead`, `SetHead` | `_write`, `_set_head` |
| `Rollback` | `rollback`, of a version that has been HEAD |
| `LoadHead`, `LoadVersion`, `LiveRestarts` | `resolve_strategy_config` at a session boundary; a new engine process |

A config is the set of proposals whose diffs were applied to the base config,
which is all that tells an approved config from a merged one. Validation and the
backtest are nondeterministic verdicts. `approved`, `tested`, `lastHead`,
`beenHead` and `raced` are history variables. Three properties are stated for
behaviours in which no two processes were between the choice of a version number
and the write of HEAD at once (`~raced`): the compare-and-swap is not atomic, and
with such a race they do not hold. The others hold whatever races occur.

### Journal
`disk` holds per day file its complete lines, whether a partial line follows, how
many lines an fsync has covered and how many an unsynced repair has rewritten;
`db` the committed tables, `conn` what the open transaction sees. A record is its
key, its day and the fields it sets; the value of a field is the number of its
append, so that later and earlier can be told apart.

| step | code |
|---|---|
| `AppendRecord`, `UpdateTrade` | `append` and `update_trade` with validation behind them |
| `WriteLine`, `WriteShort`, `WriteRaises` | `os.write`: whole, in part, raising |
| `Fsync`, `UpsertCommit`, `FsyncOrUpsertRaises`, `CommitRaises` | the rest of `append`; an exception is logged by the loop, which goes on |
| `Open`, `TruncateTail`, `RewriteFile`, `Rebuild`, `RebuildFails` | `Journal.__init__`: tail repair in two operations, the rebuild in one transaction |
| `NewDay`, `Crash`, `PowerLoss` | the world: a crash may cut the line being written, a power loss takes what no fsync covered |

`skipped` and `damaged` are history variables for the two faults the code has no
answer to, a short `os.write` and a second crash that hits a repair; the
properties exempt exactly what these hit.

### Backtest
One step is one iteration of `run_on_bars`; its disjuncts are the branches of the
loop body in their order.

| step | code |
|---|---|
| `Warmup`, `NoEntry`, `Enter`, `Arm` | a bar with nothing open: too early, no signal or a veto, an entry, a pair armed |
| `FillArmed`, `RestOn` | a resting pair: filled (the nearer leg first, the sibling gone), or not touched |
| `StopOut`, `TargetHit`, `StrategyCloses`, `ManageBar` | a bar with a position: stop before target before the strategy before partials, break-even and trail |
| `EndOfData` | the last bar closes what is open |

The reset of the day (`Day`, `Pair`) and the tracker (`Tracked`) are part of every
step. `booked` and `trade` are history. A strategy is what it emits (`Entries`,
`ArmSides`, `Plans`). `move_be_after_r` and `activate_after_r` are two levers, and a plan
may have either, both in either order, or neither.

### Strategies
One action, `BarCloses`, appends a bar and asks every strategy; `Evaluate` and the
operators it selects are one per class, `BreakEvenStop`, `ManageCloses` and
`Managed` the `manage` methods. `live` switches what the two callers do
differently: `now` is a bar's close in the live loop and its open in a backtest,
and `bars_held` exists only there. The incumbent is there twice, without
`max_overshoot_pips`, as it is configured, and with it (`Capped`). Floating point is replaced by exact
fractions, as every use of a float here is a comparison.

### Research
| step | code |
|---|---|
| `ExportBars` | `mt5_export.py` and `clean_bars` |
| `ReadBase`, `ReadHead` | the two reads of HEAD in `optimize.py` |
| `Evaluate`, `Refine`, `GiveUp`, `Propose` | the sweep, the second pass of `coarse_to_fine`, ranking and `write_proposal` |
| `Process`, `Promoted` | `validate_proposal` and the verdict of the pipeline; somebody else's promotion |
| `TradeCloses`, `Review` | an outcome in the journal; `review_journal.py` |

A backtest is a choice from `books` the first time a config is tried and the same
book afterwards. The deflated Sharpe ratio is the constant `Significant`: a test
of the daily returns that more trials make harder. A job has a base of its own (`dev`)
or none, and may name a strategy (`override`), which is a parameter of a config that
no diff may touch. `TradeCloses` puts an outcome where the trade was opened, as
`update_trade` patches its row; `flag.late` is history, and says that since a review
that found drift a trade closed in front of one already reviewed. (No module of the live
loop calls `update_trade`; the review reads what a journal holds.) Of the four objectives
a sweep may rank by, the two that are expectancies are modelled.

### Alerts
An alert is a number, a line a set of them, so that a torn line and the alert
appended behind it are one unreadable line. `Raise`, `PowerLoss`, `Push`, `Pull`
and the forwarder's `Start`, `Send`, `EmptyMarker`, `WriteMarker` and `Die` are one
file operation or one send each.

## 3. Runs

| run | question | bounds |
|---|---|---|
| `governor_cases` | is every single decision safe, within budget, monotone | 11 equities around every threshold, 2 baselines, 3 open risks, 3 stops, all latches and biases, counters at 0 and at their caps |
| `live_market` | the latch, the daily count and no intent left in doubt, under every fault at once | 3 bars in 2 days, two starts, starting losses of 0 and 40% of the budget, a cap of one trade, gaps, refused closes, lost answers, failed queries, the first bar's comment dropped |
| `live_stale` | one position at a time; an entry sized on an equity that a stop-out has taken away meanwhile | 4 bars in 2 days, two starts, 1% per trade, starting losses of 0, 20% and 30% of the budget, lost answers, the first bar's comment dropped |
| `live_pairs` | resting pairs: concurrent cap, sibling cancellation; a flatten leaves nothing and ends | 2 bars of a day and the first of the next, one start, a crash at any point, legs of 48 bp, an operator touching the sentinel, gaps that take two legs past FLATTEN |
| `config_store` | only approved configs run, HEAD is adopted, honest trial counts, the budget, promotions that undo nothing unseen | 2 processes, 3 proposals, 3 versions, 3 starts, a budget of 1 |
| `journal` | acknowledged records stay, tables are a replay of the files, the files implement the log | 2 days, 3 appends, 2 openings, every fault at every step |
| `backtest` | money, lots and risk add up, the stop bounds the loss and retreats once at most | a day of 6 bars and the first of the next, every bar on a grid of 7 prices, 9 exit plans, market entries, stop entries and pairs |
| `strategies` | one entry per side, stops and resting orders on the right side, targets where a cap or the anchor keeps them there, monotone management | 3 histories, then every bar on 4 prices up to slot 14 with one bar or none missing in between, live and backtest |
| `research` | honest trials, winners that earned before the lockbox, the winner of a sweep around HEAD is what is judged, nothing dropped | sweeps of up to 6 candidates by each method and either expectancy, around HEAD, a dev YAML or another strategy, 4 periods and lockboxes, every result of 5 trades, 381 exports with clock offsets from -1 to 1, 5 live trades that close in any order |
| `alerts` | repeats only by deaths, nothing passed over silently, the forwarder catches up | 4 alerts on 2 days, a power loss, a death |
| `viol_resend` | one position per intent, when the broker drops a comment | 2 bars, two starts, the first bar's comment dropped |
| `viol_drift` | the time box of `LateSessionDrift` in the live loop | the data of `strategies` |

The two `viol_` runs end with a counterexample to what the repository says of itself
(section 6); the others pass.

Why the bounds are enough: a tick of the live loop reads only the durable state
and the broker, so what a longer history can do is reach another such state, and
the configurations start in the interesting ones directly (losses that one trade takes
to a threshold, a daily cap that one trade reaches). Two days are needed for a reset
with something open, two starts for a crash with a decision on either side, three
tickets for a pair and a duplicate. In `live_pairs` the second bar meets
the legs of the first, and the third, the next day's, finds one that has expired; one
start keeps the liveness check small. What a restarted process finds of a pair is
left to the theorems `SiblingsGone` and `HaltedFlat`, which hold for any number of
starts and either kind of entry; `ConcurrentCap` of a pair is not checked across a
restart. `MaxBar`, `MaxStarts` and `Tickets`
are the only bounds on behaviours; the look-back windows of the deal history
(24 and 72 hours) are longer than any of them.

For `ConfigStore`, two processes suffice for every race of two, the third start
is the run that finds what the first two left behind (a rollback, an empty file,
a foreign lease), and three versions let a promotion follow a promotion.
`MaxVersion` and `MaxStarts` are its bounds on behaviours.

For `Journal`, three appends are a record, its update and one that a fault glues
to it, two openings a repair that dies and the one that finds what it left; two
days are what makes the order of the files differ from that of the appends.
`MaxDay`, `MaxAppends` and `MaxOpens` bound behaviours.

For `Backtest`, the risk per trade is large enough that a second loss crosses the
Governor's thresholds, positions are as small as partials can make impossible to
close, and seven bars let a pair rest, fill, move to break-even, trail and meet a
reset. Only `MaxBar` bounds behaviours.

For `Strategies`, each window is two or three bars, which is where its ends can be
off by one; the opening bars are three, as a range is all they make. `LastBar` is
the only bound on behaviours. For `Research`, a day has two hours and a month three days,
so that a quarter, a stub and a lockbox are a handful of trades; its sweeps end by
themselves, and only `live`, the trades that close, is a bound. In `Alerts`
`MaxAlerts`, `MaxLosses` and `MaxDeaths` are.

`CHECK_DEADLOCK FALSE` stands where the process may be down or halted for good
with nothing left to happen, or where a finite feed of bars, a sweep or a list of
alerts is used up.

**Fairness.** `LiveEngine!FairSpec` adds weak fairness of the engine's own steps and of
nothing else: while the process is up its loop keeps running (`run` sleeps and
iterates, every broker call returns). Nothing is assumed of the market, the
operator, or of anyone restarting the process. In `ConfigStore`, weak fairness
of `Loads` alone: each new day is a session boundary, and the poll that notices
it resolves the config without waiting for anybody. Clients may stop anywhere. In
`Alerts`, weak fairness of each `Push` and `Pull` and of the forwarder, which are
scheduled tasks; no send has to succeed, and no death is ruled out.

## 4. Proofs

Assumptions: the named `ASSUME`s of the modules (types and signs of the
constants, `WarnPct <= HaltPct < FlattenPct`, `MinSteps <= MaxSteps`, a finite set of
clients, search spaces that are finite and whose ranges have even steps), which TLC
evaluates on every run. What a theorem assumes beyond them stands in its statement.
Every inductive invariant below was checked by TLC on the run of its module before
it was proved.

*Governor* (`RiskGovernorLemmas`, `GovernorCases_proofs`). The lemmas give the types of
every operator, what an approved order has passed (`ApprovedEntry`), and that a
loss within the allowance keeps the derived kill-switch below FLATTEN
(`StopOutShortOfFlatten`). The inductive invariant is only the type of the call; the
arguments are arithmetic, of products and quotients.

- `ApprovedOrdersAreSafe`: the allowance bounds used plus projected loss by the HALTED
  threshold, which is below FLATTEN's, and the floor check is strict.
- `SentWithinBudget`: the size is floored, and `round(lots, 2)` changes nothing when the lot
  step is a multiple of 0.01, which the theorem assumes: a finer step may be rounded up.
- `SizesOnlyShrink`: the taper is non-decreasing in equity and one at its start, tiers
  and biases only divide, and floors of smaller products are smaller.
- `ExposureOnlyVetoes`: size depends on equity, latch and bias alone, and each check
  that passes with more exposure passes with less.

*Live engine* (`LiveEngine_proofs`).

- `Typed`: `Spec => []TypeOK`, one lemma per step. The numbers are what matters: the day's
  counters, the risk and the sizes the Governor returned.
- `LatchRefines`: `LiveEngine` implements `KillSwitch`. `LatchInv` says that the day a
  tick works on is the persisted one once it was loaded, so that what `Latch` writes is
  the severer of the two.
- `LatchStopsOrders`: `OrderInv` says that the severest state any bar of the day derived
  (`worst`) is persisted, and that what is being placed was approved under a persisted
  state that allows orders; whatever the strategy emits and whichever faults occur.
- `OrdersWithinCount`: with market entries and whatever faults. `CountInv` says that `opened`,
  the positions the day really opened, is at most the persisted count, the order in
  flight and the lapses: nothing but a crash between `order_send` and the booking, or a lost
  answer, hides a position from the count, and each hides one.
- `CapHeld`: with market entries and queries that answer, the only position is one that
  was approved under the cap, so the cap holds even if its risk was never booked.
- `SiblingsGone`, `HaltedFlat`: assuming that queries answer (`~ReadFails`) and that the
  broker obeys requests to cancel and close (`~RejectCloses`). `Covered` says that while
  a flatten or a sibling cancellation works through its list, all that rests, or is
  open, is on the list still to be done; no fill can add to it, as resting orders go first.
- `OnePositionHeld`: for market entries and queries that answer. `Single` says that from the
  moment a tick has read no position until its order is sent there is none.
- `NeverInDoubt`: for market entries and whatever faults, dropped comments and failed queries
  included. `DoubtInv` says that no record names a resting order, so that the
  reconciliation holds on every intent it cannot find, and that in a running process the
  only intent without an outcome is the one being placed. That an intent is executed
  once at most is not a theorem, and is not true (`viol_resend`).

*Config store* (`ConfigStore_proofs`), for any number of clients.

- `ApprovedOnly`: whatever is in a version file, in a client about to write one, or in
  the live engine, is the base config or was approved. Truncated and half-written
  files read as the base config.
- `CountsHonest`: results are known only of recorded hypotheses, the ledger only grows,
  and a client records before it counts. `BudgetNearlyHeld`: `BudgetInv` adds to the ledger
  the trials that were granted and not yet recorded; a client can owe one at most.
- `HeadStaysReadable`, `VersionsIdentify`, `PromotionsReplaceTheirParent`: `StoreInv` says
  what holds around the one client that writes (the version it is about to write
  was never readable, HEAD is the parent it has compared), and `OneWriter` that without a race there
  is only one. A kill leaves an empty version, which the next number passes over.

*Journal* (`Journal_proofs`), for any number of days, appends and openings.

- `AckedStaysDurable`: `DurableInv` says that what is acknowledged and not damaged is
  covered by an fsync, was rewritten by a repair, or is in the repair's copy; that a
  partial line met while a process runs is its own cut; and that a record past its
  fsync is there.
- `JournalImplementsLog`: from the same invariant, each step is a step of `DurableLog` on
  what the files and the repair's copy hold, or leaves that unchanged.
- `AckedIsVisible`, `TablesAreReplay`: `ViewInvariant` adds `ViewInv` to `DurableInv`. The
  number of a record is the value of its fields; a row `Shows` a set of records
  when each of its fields has the highest number of those that set it. The
  argument is in four parts. (1) The lines are `Replayable` file after file: a later line
  never has an older value of a field of the same key (`Before`), although files are in the
  order of days and not of appends; that is where the two sources of a day, the
  clock and the bar, matter. (2) Replaying replayable lines shows them (`RowsShow`),
  and rows that show the same set are equal (`ShowsUnique`). (3) `ConnInv`: `conn` shows the
  stored lines but for `Outside`, those of failed upserts and the record being
  written; `DbInv`: each committed row shows the lines up to a place in the files. (4) Rejects of
  a day are numbered without a gap, so that a number counted from the rows is free.
  A written record is the last of its key (`WrittenInv`), so that its upsert keeps (3). A
  crash drops `conn`, and the next rebuild makes it anew from (1) and (2).

*Backtest* (`Backtest_proofs`), for any instrument, costs, envelope and length. `BInv` says that the
balance is what was booked and what the open position has realised, that its lots, closed
and left, add up, and that its stop and what it has realised stay within its
entry risk. The partials of a bar are a recursion over a plan's targets.

- `BooksAgree`, `LossWithinRisk`: from `BInv`. `StopsRetreatOnce`: the trail never loosens,
  break-even is moved to once, and where the trail had put the stop further, that is
  the one retreat, to the entry. `OpensOnlyUnhalted`: an armed pair rests only while the account is
  flat, so that no money moves between arming and fill, and a new day drops it.

*Research* (`Research_proofs`), for any search space, prior, significance test and live record,
any exported bars and any list of trades.

- `JudgedAtAllTrials`: `SweepInv` says that what is tried and to do never exceeds the
  trials announced; `Refine` counts both passes. On top come the trials that the operator
  types (`--base-trials`, 0 unless given); those of the ledger are not looked up. It
  rests on grids being finite.
- `WinnerIsJudged`: `HeadInv` says that a base read from HEAD is the HEAD of its version, under
  the strategy that the spec names. A base from a YAML, or a strategy that is not HEAD's, is
  outside the property (`AroundHead`; section 6 says what the code does then). The diff of a candidate
  against a config, applied to that config, is the candidate applied to it, and
  validation keeps it within the levers.
- `FlagSaysLastReview`: the peak of the CUSUM over more trades is no lower (`CusumGrows`), so
  that a state that was written and never removed is still the one reached, as long as
  outcomes come in behind those reviewed. One that comes in between can lower the peak, and
  then the flag says what is no longer there, until a review finds drift again
  (`FlagInv`).
- `WinnersEarnedBefore`: `DataInv` says that the bars come from an export and that there are
  some, `BooksInv` that results hold books of the job. What is judged passes the expectancy
  gate, over all trades, and no collapse test, so that the folds have earned half of what
  all trades have (`DevEarned`, for the trades of any windows). The held-out trades still
  count in the gates: what is ranked depends on them (section 6).
- `VerdictMissesNothing`: the windows before the end are the first ones (`WindowCount`), they
  tile (`WindowsTile`), and merging a stub keeps that (`MergedTile`), because a stub is taken
  for shorter than a month is (`StubDays <= MonthDays`). The daily series is a sum over days
  of sums over trades; each trade counts on one day (`SeriesTotal`, by appending trades).
- `CleaningLosesNothing`: a finite set of times has an n-th one (`NthExists`), so that what is
  kept is a list of bars that were there; an hour in none of them lies between the last bar
  before it and the next (`GapsCover`).

*Alerts* (`Alerts_proofs`), for any number of alerts, losses and deaths.

- `SentOnceEach`: `SendInv` says that an alert beyond the marker was sent by runs that died
  only, and that a run is done with, or has still to send, whatever its new marker
  passes; `FilesInv` that without a power loss each copy of a day's file is the first alerts
  of that day without a gap, so that a batch has none either.

Only model-checked, and why:

- Liveness (`FlattenCompletes`, `HeadAdopted`, `CatchesUp`): fairness and `ENABLED` are out of
  the prover's reach.
- `OrderAboveFlatten`: a position that stops out between the read of equity and the order lets
  an entry be sized on equity that is gone. What covers it is the risk persisted for that
  position, which the Governor adds; the run leaves out what breaks that bookkeeping
  otherwise (a refused close is booked as gone, a failed query as flat) and what no
  bookkeeping covers (gaps beyond the buffered stop).
- `ConcurrentCap` with resting pairs: it holds of the configuration, not for every value of
  the constants, as both legs may fill.
- The properties of `Strategies`: of a capped incumbent the targets lie ahead where
  `MaxOvershoot` ends short of the first one, not for all constants. `OneShotPerSide` and `ManageNeverLoosens`
  rest on what `SelectSeq` and the library's folds compute: tlapm has no definition of
  the first and cannot instantiate the induction for the others.

A recursive function is not out of reach: `Backtest_proofs`, `Research_proofs` and
`Journal_proofs` show by an induction over
a set of numbers (`WFMin`) what theirs keep, which is why such recursions are written
as functions in the modules that are proved about, and why `Statistics` and `MarketData`
take sums and selections from `Lists`.

## 5. Not modelled

- `src/ops/watchdog.py`: pure one-liners that no module of the engine calls;
  `backup.py`: copies that nothing reads back; `src/agents/runtime.py`, `specs.py`:
  stubs and prompts. The `probe_*` and `compare_*` scripts print tables.
- The DST arithmetic of the day clock: days are counts of bars.
- Live loop: the health check that delays an iteration, `run_once`, `diagnose`.
  The reload at a session is in `ConfigStore`, the journal an atomic write here and
  a process of its own in `Journal`.
- Adapter: tickets on intents, re-quotes, connection retries, freshness from tick
  advance.
- Journal: the bodies of records beyond their fields, the read-only queries of
  `reader.py`.
- Promotion pipeline: a week's roll-over, the parsing of the file, a config no
  strategy can be built from.
- Strategies: `entry_mode` "stop" of the incumbent, the stand-down and news
  blackout, the reason of a `NoSignal`.
- Alerts: the direct channels and the health ping, whose results nobody reads.
- Statistics: the figures only a report prints (win rate, drawdown); the objectives
  `sharpe` and `profit_factor`, by which a sweep may rank: no property asks which of the
  eligible wins.
- Config store: a rollback to a version that was never HEAD. `rollback` only asks for the
  file; the model lets an operator go back to what has been HEAD.
- Data: `resample.py` has no caller, `store.py` is a Parquet read and write.
- Configuration: loading and validation; its values are constants.

## 6. Where the code and its documentation disagree

Two runs end with a counterexample to what the repository says.

- `viol_resend`: "never open a second position for the same intent" (`adapter.py:191`).
  `place` looks for the client id in comments, which the broker does not reliably keep
  (`adapter.py:9`). An order without its comment is filled and recorded as final, the
  process dies, the position stops out, and the restarted process decides the same bar
  and sends the same intent again.
- `viol_drift`: `LateSessionDrift` promises to close after `hold_bars` bars
  (`strategy_late_drift.py:138`), but the live loop's view of a trade has no `bars_held`, so
  `manage` holds for ever.

The following were met while reading and modelling. The models behave as the code does,
and the properties leave these cases out by name; no run is spent on them.

*Live loop and execution.* "The OCO can never become two positions" (`run.py:220`): both legs
of a pair can fill before the sibling is cancelled on the next closed bar. "One position
at a time" (`run.py:220`): a failed `positions_get` is an empty list (`broker.py:246`), and the
loop opens a second one; `OnePosition` is therefore checked for market entries and
queries that answer. `_decide_arm` measures the distance of an entry to itself
(`decide.py:113`), so a broker with a stops level gets no pair. `open_risk_usd` keeps the
risk of a position the broker closed (`run.py:273`). The idempotency check ignores
resting orders (`adapter.py:194`). The time stop of `FollowThrough` needs `bars_held` as
well and never fires live.

*Config store.* The lease is tested and then written (`config_store.py:74`), so two
proposals can hold it.

*Journal.* The count `os.write` returns is not looked at: a short write leaves half
a line, the next record is glued to it, and the next start cannot parse the file. A
second crash while a tail is repaired loses the file's complete lines, which are
rewritten in place and not synced.

*Backtest.* The bar that fills a resting leg is not checked against its stop
(`engine.py:227`), although the docstring says (`engine.py:12-13`) that a bar
which spans entry and stop counts as a loss. The kill-switch is never derived or latched, and
nothing is flattened. A managed stop is ratcheted, "never loosening" (`EXIT_MODEL.md:31`): the
trail is, but the break-even move sets the stop to the entry wherever the trail had put
it (`engine.py:450`). "Identical to the backtester's entry path" (`decide.py`) does
not hold for `now`, the close of a bar live and its open in a backtest.

*Strategies.* An entry beyond the level has "a CLOSER target" (`strategy.py:258`): without
`max_overshoot_pips`, which `default.yaml` leaves unset, a close may lie beyond the target,
which is then behind the entry; of the incumbent as configured, `ExitsAroundEntry` says
nothing about targets.

*Research.* "The lockbox is NEVER used for ranking" (`optimizer.py:147`): the gates are computed
on all trades, so that a candidate may be eligible by its held-out trades alone. A sweep
of "any registered strategy" writes "the winner as a proposal" (`example.yaml`): the
proposal does not carry the strategy's name, and the pipeline judges its parameters
under the strategy of HEAD; a base from a YAML is not what the diff is applied to
either. `coarse_to_fine` leaves the coarse winner out of the final ranking. The base config and
HEAD are read separately. The trials of a sweep never reach the ledger. A range whose
step does not divide it ends up to half a step beyond its maximum. Without a lockbox the
stitched collapse test cannot fire. A trade on the last bar lies in no window. An
exit on a Sunday is dropped from the daily series. A series without a losing day
fails the Sortino gate. `run_backtest.py` and `optimize.py` hold copies of the verdict.
`mt5_export.py` applies today's clock offset to all history. A gap that begins where
the weekend does is never reported. The live engine journals no outcome, so that the
review sees no trades; `drift_flag.json` is never removed, and the peak of the CUSUM
never recovers.

*Alerts.* "Each alert is sent once" (`forward_alerts.py`): the marker passes sends
that failed and files that arrive after midnight's, and a death before the marker
repeats what was sent.

## 7. Plan

1. (done) `RiskGovernor`, `GovernorCases`, `KillSwitch`, `LiveEngine`,
   `ConfigStore`, and the proofs of section 4.
2. (done) `Journal` as an implementation of `DurableLog`, `Backtest`, `Strategies`,
   `Research` with `Statistics` and `MarketData`, `Alerts`.
3. (done) Proofs of the safety properties and refinements of `LiveEngine`, `ConfigStore`,
   `Journal`, `Backtest`, `Research` and `Alerts` named in section 4.
4. `LiveEngine` with the tickets that intents record and with re-quotes, and with the
   reload at session boundaries joined to `ConfigStore`.

Runs are kept to one per question.

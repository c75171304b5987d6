----------------------------- MODULE ConfigStore ----------------------------
(***************************************************************************)
(* The versioned config store and the promotion pipeline                   *)
(* (src/src/agents/config_store.py, loop.py, ledger.py, run by             *)
(* scripts/process_proposal.py), an operator who rolls back, and the live  *)
(* engine that adopts what HEAD names (src/src/ops/runtime_config.py).     *)
(*                                                                         *)
(* Clients are processes on one directory.  They take one step per file    *)
(* operation; write_text truncates the file before it writes, and a killed *)
(* process leaves its files as they are.  A config is the set of proposals *)
(* whose diffs were applied to the base config; the base config is {}.     *)
(***************************************************************************)
EXTENDS Integers, FiniteSets, FiniteSetsExt

CONSTANTS
  Clients,     \* processes that run a proposal or a rollback
  Proposals,   \* proposal ids
  Nobody,      \* no proposal: a lease file that is absent or empty
  WeeklyCap,   \* trial_budget_per_week
  MaxVersion,  \* bound: version numbers
  MaxStarts    \* bound: how many processes are ever started

ASSUME StoreAssumption ==
  /\ Clients # {} /\ IsFiniteSet(Clients)
  /\ Nobody \notin Proposals
  /\ WeeklyCap \in Nat /\ MaxVersion \in Nat \ {0} /\ MaxStarts \in Nat

VARIABLES
  versions,  \* the files v1.json, v2.json, ...
  head,      \* the number in HEAD; 0: absent or empty
  lease,     \* the proposal id in promotion.lease
  ledger,    \* the proposal ids recorded this week
  run,       \* the clients' program counters and local variables
  live,      \* the live engine: where it is and what it has loaded
  starts,    \* how many processes were started
  approved,  \* history: configs that passed their backtest and were approved
  tested,    \* history: proposals whose backtest has answered
  lastHead,  \* history: the last number HEAD held
  beenHead,  \* history: all numbers HEAD has held
  raced      \* history: two clients were writing the store at the same time

store   == <<versions, head, lease>>
history == <<lastHead, beenHead, raced>>
vars    == <<store, ledger, run, live, starts, approved, tested, history>>

-----------------------------------------------------------------------------
(* Files and processes.                                                    *)

Versions == 1 .. MaxVersion

Absent == [st |-> "absent", parent |-> 0, config |-> {}]
Empty  == [st |-> "empty", parent |-> 0, config |-> {}]

Existing == {v \in Versions : versions[v].st # "absent"}

\* Whether json.loads of the file HEAD names v succeeds.
Readable(v) == v \in Versions /\ versions[v].st = "full"

NoRun == [pc |-> "idle", kind |-> "none", id |-> Nobody, parent |-> 0,
          config |-> {}, new |-> 0, trials |-> 0, seen |-> {}]

\* The static strategy block of default.yaml, which is version 1.
Fallback == [version |-> 1, config |-> {}]

At(c, l)   == run[c].pc = l
Goes(c, l) == run' = [run EXCEPT ![c].pc = l]
Ends(c)    == run' = [run EXCEPT ![c] = NoRun]

Init ==
  /\ versions = [v \in Versions |-> Absent] /\ head = 0
  /\ lease = Nobody /\ ledger = {} /\ starts = 0
  /\ run = [c \in Clients |-> NoRun]
  /\ live = [pc |-> "idle", head |-> 0, version |-> 0, config |-> {}]
  /\ approved = {} /\ tested = {} /\ lastHead = 0 /\ beenHead = {} /\ raced = FALSE

-----------------------------------------------------------------------------
(* process_proposal.py: open the store, check, record, backtest.           *)

\* A researcher proposes knowing every result so far; the same proposal may be
\* run again.
Begin(c) ==
  /\ At(c, "idle") /\ starts < MaxStarts
  /\ starts' = starts + 1
  /\ \E p \in Proposals :
       run' = [run EXCEPT ![c] = [NoRun EXCEPT !.pc = "open", !.id = p,
                                               !.kind = "promote", !.seen = tested]]
  /\ UNCHANGED <<store, ledger, live, approved, tested>>

\* The process dies: its lease and its half-written files stay.
Kill(c) ==
  /\ ~At(c, "idle")
  /\ Ends(c)
  /\ UNCHANGED <<store, ledger, live, starts, approved, tested>>

\* ConfigStore(): a directory without versions is bootstrapped.
OpenStore(c) ==
  /\ At(c, "open")
  /\ IF Existing = {}
     THEN run' = [run EXCEPT ![c].pc = "truncate", ![c].kind = "boot", ![c].new = 1]
     ELSE Goes(c, "head")
  /\ UNCHANGED <<store, ledger, live, starts, approved, tested>>

\* head_version() raises on an empty HEAD; a stale parent or a forbidden lever
\* ends the run.
ReadHead(c) ==
  /\ At(c, "head")
  /\ \/ Ends(c)
     \/ head # 0 /\ run' = [run EXCEPT ![c].pc = "budget", ![c].parent = head]
  /\ UNCHANGED <<store, ledger, live, starts, approved, tested>>

\* Mutant: the last trial of the week is granted twice.
ReadBudgetLate(c) ==
  /\ At(c, "budget")
  /\ IF Cardinality(ledger) <= WeeklyCap THEN Goes(c, "record") ELSE Ends(c)
  /\ UNCHANGED <<store, ledger, live, starts, approved, tested>>

ReadBudget(c) ==
  /\ At(c, "budget")
  /\ IF Cardinality(ledger) < WeeklyCap THEN Goes(c, "record") ELSE Ends(c)
  /\ UNCHANGED <<store, ledger, live, starts, approved, tested>>

\* Mutant: the hypothesis is only recorded with its result.
RecordLater(c) ==
  /\ At(c, "record") /\ Goes(c, "count")
  /\ UNCHANGED <<store, ledger, live, starts, approved, tested>>

\* Recorded before the backtest, pass or fail.
Record(c) ==
  /\ At(c, "record") /\ Goes(c, "count")
  /\ ledger' = ledger \cup {run[c].id}
  /\ UNCHANGED <<store, live, starts, approved, tested>>

Count(c) ==
  /\ At(c, "count")
  /\ run' = [run EXCEPT ![c].pc = "candidate", ![c].trials = Cardinality(ledger)]
  /\ UNCHANGED <<store, ledger, live, starts, approved, tested>>

\* The candidate is the config of the HEAD that was read, with the diff.
Candidate(c) ==
  /\ At(c, "candidate")
  /\ IF Readable(run[c].parent)
     THEN run' = [run EXCEPT ![c].pc = "backtest",
                    ![c].config = versions[run[c].parent].config \cup {run[c].id}]
     ELSE Ends(c)
  /\ UNCHANGED <<store, ledger, live, starts, approved, tested>>

\* The verdict is recorded as well; a run goes on if it passed, was started with
\* --approve, and head_version() for its report did not raise.
Backtest(c) ==
  /\ At(c, "backtest")
  /\ tested' = tested \cup {run[c].id}
  /\ ledger' = ledger \cup {run[c].id}
  /\ \/ Ends(c) /\ UNCHANGED approved
     \/ /\ Goes(c, "report")
        /\ approved' = approved \cup {run[c].config}
  /\ UNCHANGED <<store, live, starts>>

Report(c) ==
  /\ At(c, "report")
  /\ IF head = 0 THEN Ends(c) ELSE Goes(c, "lease")
  /\ UNCHANGED <<store, ledger, live, starts, approved, tested>>

-----------------------------------------------------------------------------
(* approve_and_promote: lease, compare-and-swap, new version, new HEAD.    *)

\* acquire_lease, the test: a lease of this very proposal does not count.
CheckLease(c) ==
  /\ At(c, "lease")
  /\ IF lease \in {Nobody, run[c].id} THEN Goes(c, "take") ELSE Ends(c)
  /\ UNCHANGED <<store, ledger, live, starts, approved, tested>>

\* acquire_lease, the write.  (Truncated it reads as free, as it did before.)
TakeLease(c) ==
  /\ At(c, "take") /\ Goes(c, "cas")
  /\ lease' = run[c].id
  /\ UNCHANGED <<versions, head, ledger, live, starts, approved, tested>>

\* Mutant: the parent is not compared.
CasSkipped(c) ==
  /\ At(c, "cas") /\ Goes(c, "number")
  /\ UNCHANGED <<store, ledger, live, starts, approved, tested>>

\* The parent must still be HEAD; an empty HEAD raises too.
Cas(c) ==
  /\ At(c, "cas")
  /\ Goes(c, IF head = run[c].parent THEN "number" ELSE "abort")
  /\ UNCHANGED <<store, ledger, live, starts, approved, tested>>

\* release_lease deletes the file, whoever holds it.
Release(c) ==
  /\ run[c].pc \in {"abort", "release"} /\ Ends(c)
  /\ lease' = Nobody
  /\ UNCHANGED <<versions, head, ledger, live, starts, approved, tested>>

\* Mutant: the next number after HEAD, not after the newest version.
NumberAfterHead(c) ==
  /\ At(c, "number") /\ head < MaxVersion
  /\ run' = [run EXCEPT ![c].pc = "truncate", ![c].new = head + 1]
  /\ UNCHANGED <<store, ledger, live, starts, approved, tested>>

\* Mutant: HEAD is moved without the version having been written.
NumberOnly(c) ==
  /\ At(c, "number") /\ Max(Existing) < MaxVersion
  /\ run' = [run EXCEPT ![c].pc = "truncatehead", ![c].new = Max(Existing) + 1]
  /\ UNCHANGED <<store, ledger, live, starts, approved, tested>>

\* max_version() + 1
Number(c) ==
  /\ At(c, "number") /\ Max(Existing) < MaxVersion
  /\ run' = [run EXCEPT ![c].pc = "truncate", ![c].new = Max(Existing) + 1]
  /\ UNCHANGED <<store, ledger, live, starts, approved, tested>>

\* _write: the file is emptied ...
TruncateVersion(c) ==
  /\ At(c, "truncate") /\ Goes(c, "write")
  /\ versions' = [versions EXCEPT ![run[c].new] = Empty]
  /\ UNCHANGED <<head, lease, ledger, live, starts, approved, tested>>

\* Mutant: the diff is merged into whatever HEAD names by now.
WriteMerged(c) ==
  /\ At(c, "write") /\ Goes(c, "truncatehead")
  /\ versions' = [versions EXCEPT ![run[c].new] =
       [st |-> "full", parent |-> run[c].parent,
        config |-> IF head = 0 \/ run[c].kind = "boot" THEN run[c].config
                   ELSE versions[head].config \cup {run[c].id}]]
  /\ UNCHANGED <<head, lease, ledger, live, starts, approved, tested>>

\* ... and filled: the base config, or the candidate that was backtested.
WriteVersion(c) ==
  /\ At(c, "write") /\ Goes(c, "truncatehead")
  /\ versions' = [versions EXCEPT ![run[c].new] =
       [st |-> "full", parent |-> run[c].parent, config |-> run[c].config]]
  /\ UNCHANGED <<head, lease, ledger, live, starts, approved, tested>>

\* _set_head: HEAD is emptied, then written; a bootstrap goes on to its proposal.
TruncateHead(c) ==
  /\ At(c, "truncatehead") /\ Goes(c, "sethead")
  /\ head' = 0
  /\ UNCHANGED <<versions, lease, ledger, live, starts, approved, tested>>

SetHead(c) ==
  /\ At(c, "sethead")
  /\ head' = run[c].new
  /\ \/ run[c].kind = "promote" /\ Goes(c, "release")
     \/ run[c].kind = "rollback" /\ Ends(c)
     \/ /\ run[c].kind = "boot"
        /\ run' = [run EXCEPT ![c].pc = "head", ![c].kind = "promote", ![c].new = 0]
  /\ UNCHANGED <<versions, lease, ledger, live, starts, approved, tested>>

\* rollback(v), by an operator who names a version that has been HEAD: no lease,
\* no comparison, only that the file exists.
Rollback(c) ==
  /\ At(c, "idle") /\ starts < MaxStarts
  /\ starts' = starts + 1
  /\ \E v \in beenHead \cap Existing :
       run' = [run EXCEPT ![c] = [NoRun EXCEPT !.pc = "truncatehead",
                                               !.kind = "rollback", !.new = v]]
  /\ UNCHANGED <<store, ledger, live, approved, tested>>

-----------------------------------------------------------------------------
(* The live engine: resolve_strategy_config at a session boundary.         *)

\* Mutant: only a newer version is adopted.
AdoptsNewer(s) ==
  live' = [live EXCEPT !.pc = "idle", !.head = 0,
             !.version = IF s.version > live.version THEN s.version ELSE @,
             !.config = IF s.version > live.version THEN s.config ELSE @]

\* _reload_active_config: the strategy is rebuilt if the version is another one.
Adopts(s) ==
  live' = [live EXCEPT !.pc = "idle", !.head = 0, !.version = s.version,
             !.config = IF s.version = live.version THEN @ ELSE s.config]

\* An absent or empty HEAD falls back to the static strategy.
LoadHead ==
  /\ live.pc = "idle"
  /\ IF head = 0 THEN Adopts(Fallback)
     ELSE live' = [live EXCEPT !.pc = "version", !.head = head]
  /\ UNCHANGED <<store, ledger, run, starts, approved, tested>>

\* So does a version file that cannot be read.
LoadVersion ==
  /\ live.pc = "version"
  /\ IF Readable(live.head)
     THEN Adopts([version |-> live.head, config |-> versions[live.head].config])
     ELSE Adopts(Fallback)
  /\ UNCHANGED <<store, ledger, run, starts, approved, tested>>

\* A restarted engine has no active version, so that its first load is forced.
\* (Dying in the middle of a load leaves the same.)
LiveRestarts ==
  /\ live.pc = "idle"
  /\ live' = [live EXCEPT !.version = 0, !.config = {}]
  /\ UNCHANGED <<store, ledger, run, starts, approved, tested>>

-----------------------------------------------------------------------------
\* From the decision what to write until HEAD is written.
Writing == {"number", "truncate", "write", "truncatehead", "sethead"}

Observed ==
  /\ raced' = (raced \/ Cardinality({c \in Clients : run'[c].pc \in Writing}) > 1)
  /\ lastHead' = IF head' = 0 THEN lastHead ELSE head'
  /\ beenHead' = beenHead \cup ({head'} \ {0})

Client(c) ==
  \/ Begin(c) \/ Kill(c) \/ OpenStore(c) \/ ReadHead(c) \/ ReadBudget(c)
  \/ Record(c) \/ Count(c) \/ Candidate(c) \/ Backtest(c) \/ Report(c)
  \/ CheckLease(c) \/ TakeLease(c) \/ Cas(c) \/ Release(c) \/ Number(c)
  \/ TruncateVersion(c) \/ WriteVersion(c) \/ TruncateHead(c) \/ SetHead(c)
  \/ Rollback(c)

Loads == (LoadHead \/ LoadVersion) /\ Observed

Next ==
  \/ (\E c \in Clients : Client(c)) /\ Observed
  \/ LiveRestarts /\ Observed
  \/ Loads

Spec == Init /\ [][Next]_vars

\* Session boundaries keep coming: a new day begins, and the engine polls.
FairSpec == Spec /\ WF_vars(Loads)

-----------------------------------------------------------------------------
(* Properties.                                                             *)

\* However promotions, rollbacks, kills and loads interleave, the live engine
\* only ever runs the base config or one that was backtested and approved as a
\* whole: "a half-finished or unapproved proposal can never leak".
OnlyApprovedRuns == live.config \in approved \cup {{}}

\* The live engine tells configs apart by their version number; that is sound as
\* long as no two clients write the store at the same time: a number is never
\* used for a second config.
VersionIdentifiesConfig ==
  ~raced /\ Readable(live.version) => live.config = versions[live.version].config

\* HEAD names a version that can be read, wherever a client was killed, as long
\* as no two clients write the store at the same time.
HeadReadable == ~raced /\ head # 0 => Readable(head)

\* A promoted version is a child of the HEAD it replaces, so that a promotion
\* never undoes another one, nor a rollback, it has not seen.
ChildReplacesParent ==
  [][~raced' /\ head' \notin beenHead \cup {0}
       => versions[head'].parent = lastHead]_vars

\* The trial count a backtest is given includes its own hypothesis and every one
\* whose result was known when it was proposed, abandoned and killed runs too.
TrialsCounted ==
  \A c \in Clients : At(c, "backtest")
    => run[c].trials >= Cardinality(run[c].seen \cup {run[c].id})

\* The weekly budget is checked and debited in two steps, so it can be overdrawn,
\* but only by the runs that check it at the same time: one trial each.
BudgetHeld == Cardinality(ledger) <= WeeklyCap + Cardinality(Clients) - 1

\* Once HEAD rests on a version, be it a promotion or a rollback, the live engine
\* comes to run that version.
HeadAdopted ==
  \A v \in Versions : <>[](head = v /\ ~raced) => []<>(live.version = v)

=============================================================================

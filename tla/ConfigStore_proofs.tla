-------------------------- MODULE ConfigStore_proofs ------------------------
(***************************************************************************)
(* What the config store keeps for any number of clients, whatever races   *)
(* and kills occur: the live engine runs approved configs only, every      *)
(* backtest is told of every hypothesis its author knew of, and the weekly *)
(* budget is overdrawn by one trial a client at most.  As long as no two   *)
(* clients write the store at the same time: HEAD names a version that can *)
(* be read, a number stands for one config, and a promotion replaces the   *)
(* version it was compared with.                                           *)
(***************************************************************************)
EXTENDS ConfigStore, FiniteSetTheorems, TLAPS

\* The fields of a client's process and of the live engine.
RunFields  == {"pc", "kind", "id", "parent", "config", "new", "trials", "seen"}
LiveFields == {"pc", "head", "version", "config"}

Shape ==
  /\ DOMAIN versions = Versions
  /\ DOMAIN run = Clients
  /\ \A c \in Clients : DOMAIN run[c] = RunFields
  /\ DOMAIN live = LiveFields

\* The steps of the live engine.
LiveSteps == LoadHead \/ LoadVersion \/ LiveRestarts

LEMMA Steps ==
  ASSUME [Next]_vars
  PROVE  \/ \E c \in Clients : Client(c)
         \/ LiveSteps
         \/ UNCHANGED vars
BY DEF Next, Loads, LiveSteps

-----------------------------------------------------------------------------
(* Approved configs only.                                                  *)

\* The configs the live engine may run.
Safe == approved \cup {{}}

\* Where a client's config has been approved, or is still the base config.
Cleared == {"open", "report", "lease", "take", "cas", "number", "truncate", "write"}

\* The inductive invariant: nothing but a safe config is in a file, in a client
\* that is about to write it, or in the live engine.
SafeInv ==
  /\ Shape
  /\ \A v \in Versions : versions[v].config \in Safe
  /\ \A c \in Clients : run[c].pc \in Cleared => run[c].config \in Safe
  /\ live.config \in Safe

LEMMA SafeInit == Init => SafeInv
BY DEF Init, SafeInv, Shape, RunFields, LiveFields, NoRun, Absent, Safe, Cleared

LEMMA SafeClient ==
  ASSUME SafeInv, NEW c \in Clients, Client(c)
  PROVE  SafeInv'
<1> USE DEF SafeInv, Shape, RunFields, LiveFields, Safe, Cleared, At, Goes, Ends,
            NoRun, store
<1>1. CASE Begin(c)            BY <1>1 DEF Begin
<1>2. CASE Kill(c)             BY <1>2 DEF Kill
<1>3. CASE OpenStore(c)        BY <1>3 DEF OpenStore
<1>4. CASE ReadHead(c)         BY <1>4 DEF ReadHead
<1>5. CASE ReadBudget(c)       BY <1>5 DEF ReadBudget
<1>6. CASE Record(c)           BY <1>6 DEF Record
<1>7. CASE Count(c)            BY <1>7 DEF Count
<1>8. CASE Candidate(c)        BY <1>8 DEF Candidate
<1>9. CASE Backtest(c)         BY <1>9 DEF Backtest
<1>10. CASE Report(c)          BY <1>10 DEF Report
<1>11. CASE CheckLease(c)      BY <1>11 DEF CheckLease
<1>12. CASE TakeLease(c)       BY <1>12 DEF TakeLease
<1>13. CASE Cas(c)             BY <1>13 DEF Cas
<1>14. CASE Release(c)         BY <1>14 DEF Release
<1>15. CASE Number(c)          BY <1>15 DEF Number
<1>16. CASE TruncateVersion(c) BY <1>16 DEF TruncateVersion, Empty
<1>17. CASE WriteVersion(c)    BY <1>17 DEF WriteVersion
<1>18. CASE TruncateHead(c)    BY <1>18 DEF TruncateHead
<1>19. CASE SetHead(c)         BY <1>19 DEF SetHead
<1>20. CASE Rollback(c)        BY <1>20 DEF Rollback
<1> QED BY <1>1, <1>2, <1>3, <1>4, <1>5, <1>6, <1>7, <1>8, <1>9, <1>10, <1>11,
           <1>12, <1>13, <1>14, <1>15, <1>16, <1>17, <1>18, <1>19, <1>20
        DEF Client

LEMMA SafeLive ==
  ASSUME SafeInv, LiveSteps
  PROVE  SafeInv'
<1> USE DEF SafeInv, Shape, LiveFields, Safe, store
<1>1. CASE LoadHead    BY <1>1 DEF LoadHead, Adopts, Fallback
<1>2. CASE LoadVersion BY <1>2 DEF LoadVersion, Adopts, Fallback, Readable
<1>3. CASE LiveRestarts BY <1>3 DEF LiveRestarts
<1> QED BY <1>1, <1>2, <1>3 DEF LiveSteps

\* However promotions, rollbacks, kills and loads interleave, the live engine
\* runs the base config or one that was approved as a whole.
THEOREM ApprovedOnly == Spec => []OnlyApprovedRuns
<1>1. Init => SafeInv
  BY SafeInit
<1>2. SafeInv /\ [Next]_vars => SafeInv'
  <2> SUFFICES ASSUME SafeInv, [Next]_vars PROVE SafeInv'
    OBVIOUS
  <2>1. CASE \E c \in Clients : Client(c)
    BY <2>1, SafeClient
  <2>2. CASE LiveSteps
    BY <2>2, SafeLive
  <2>3. CASE UNCHANGED vars
    BY <2>3 DEF vars, store, SafeInv, Shape, Safe
  <2> QED BY <2>1, <2>2, <2>3, Steps
<1>3. SafeInv => OnlyApprovedRuns
  BY DEF SafeInv, Safe, OnlyApprovedRuns
<1> QED BY <1>1, <1>2, <1>3, PTL DEF Spec

-----------------------------------------------------------------------------
(* Honest trial counts.                                                    *)

\* The inductive invariant: results are only known of recorded hypotheses, the
\* ledger only grows, and a client records before it counts.
Counted(c) ==
  /\ run[c].seen \subseteq ledger
  /\ At(c, "count") => run[c].id \in ledger
  /\ run[c].pc \in {"candidate", "backtest"}
       => run[c].trials >= Cardinality(run[c].seen \cup {run[c].id})

CountInv ==
  /\ Shape
  /\ IsFiniteSet(ledger)
  /\ tested \subseteq ledger
  /\ \A c \in Clients : Counted(c)

LEMMA CountInit == Init => CountInv
BY FS_EmptySet DEF Init, CountInv, Counted, Shape, RunFields, LiveFields, NoRun, At

LEMMA Recorded ==
  ASSUME CountInv, NEW c \in Clients, At(c, "count")
  PROVE  Cardinality(ledger) >= Cardinality(run[c].seen \cup {run[c].id})
<1>1. run[c].seen \cup {run[c].id} \subseteq ledger
  BY DEF CountInv, Counted
<1>2. IsFiniteSet(ledger)
  BY DEF CountInv, Counted
<1>3. Cardinality(run[c].seen \cup {run[c].id}) <= Cardinality(ledger)
  BY <1>1, <1>2, FS_Subset
<1>4. /\ Cardinality(run[c].seen \cup {run[c].id}) \in Nat
      /\ Cardinality(ledger) \in Nat
  BY <1>1, <1>2, FS_Subset, FS_CardinalityType
<1> QED BY <1>3, <1>4

\* A step of a client elsewhere, as seen from client d.
Aside(d) ==
  \/ run'[d] = run[d]
  \/ /\ run'[d].pc \notin {"count", "candidate", "backtest"}
     /\ run'[d].seen \subseteq ledger

\* It disturbs nothing.
LEMMA Elsewhere ==
  ASSUME CountInv, Shape', UNCHANGED <<ledger, tested>>,
         \A d \in Clients : Aside(d)
  PROVE  CountInv'
<1>1. ASSUME NEW d \in Clients PROVE Counted(d)'
  <2>1. CASE run'[d] = run[d]
    BY <2>1 DEF CountInv, Counted, At
  <2>2. CASE run'[d].pc \notin {"count", "candidate", "backtest"} /\ run'[d].seen \subseteq ledger
    BY <2>2 DEF Counted, At
  <2> QED BY <2>1, <2>2 DEF Aside
<1> QED BY <1>1 DEF CountInv

LEMMA CountClient ==
  ASSUME CountInv, NEW c \in Clients, Client(c)
  PROVE  CountInv'
<1> USE DEF CountInv, Shape, RunFields, LiveFields, At, Goes, Ends, NoRun, store
<1>a. run[c].seen \subseteq ledger
  BY DEF Counted
<1>1. CASE Begin(c)
  <2>1. Shape' /\ UNCHANGED <<ledger, tested>>
    BY <1>1 DEF Begin
  <2>2. ASSUME NEW d \in Clients PROVE Aside(d)
    BY <1>a, <1>1 DEF Begin, Aside
  <2> QED BY <2>1, <2>2, Elsewhere
<1>2. CASE Kill(c)
  <2>1. Shape' /\ UNCHANGED <<ledger, tested>>
    BY <1>2 DEF Kill
  <2>2. ASSUME NEW d \in Clients PROVE Aside(d)
    BY <1>a, <1>2 DEF Kill, Aside
  <2> QED BY <2>1, <2>2, Elsewhere
<1>3. CASE OpenStore(c)
  <2>1. Shape' /\ UNCHANGED <<ledger, tested>>
    BY <1>3 DEF OpenStore
  <2>2. ASSUME NEW d \in Clients PROVE Aside(d)
    <3>1. CASE d # c
      BY <1>3, <3>1 DEF OpenStore, Aside
    <3>2. CASE d = c
      BY <1>a, <1>3, <3>2 DEF OpenStore, Aside
    <3> QED BY <3>1, <3>2
  <2> QED BY <2>1, <2>2, Elsewhere
<1>4. CASE ReadHead(c)
  <2>1. Shape' /\ UNCHANGED <<ledger, tested>>
    BY <1>4 DEF ReadHead
  <2>2. ASSUME NEW d \in Clients PROVE Aside(d)
    <3>1. CASE d # c
      BY <1>4, <3>1 DEF ReadHead, Aside
    <3>2. CASE d = c
      BY <1>a, <1>4, <3>2 DEF ReadHead, Aside
    <3> QED BY <3>1, <3>2
  <2> QED BY <2>1, <2>2, Elsewhere
<1>5. CASE ReadBudget(c)
  <2>1. Shape' /\ UNCHANGED <<ledger, tested>>
    BY <1>5 DEF ReadBudget
  <2>2. ASSUME NEW d \in Clients PROVE Aside(d)
    <3>1. CASE d # c
      BY <1>5, <3>1 DEF ReadBudget, Aside
    <3>2. CASE d = c
      BY <1>a, <1>5, <3>2 DEF ReadBudget, Aside
    <3> QED BY <3>1, <3>2
  <2> QED BY <2>1, <2>2, Elsewhere
<1>6. CASE Record(c)
  <2>1. IsFiniteSet(ledger')
    BY <1>6, FS_AddElement DEF Record
  <2>2. Shape' /\ tested' \subseteq ledger' /\ ledger \subseteq ledger'
    BY <1>6 DEF Record
  <2>3. ASSUME NEW d \in Clients PROVE Counted(d)'
    <3>1. /\ run'[d] = IF d = c THEN [run[d] EXCEPT !.pc = "count"] ELSE run[d]
          /\ run[c].id \in ledger'
      BY <1>6 DEF Record
    <3> QED BY <2>2, <3>1 DEF Counted
  <2> QED BY <2>1, <2>2, <2>3
<1>7. CASE Count(c)
  <2>1. Cardinality(ledger) >= Cardinality(run[c].seen \cup {run[c].id})
    BY <1>7, Recorded DEF Count
  <2>2. ASSUME NEW d \in Clients PROVE Counted(d)'
    <3>1. /\ ledger' = ledger
          /\ run'[d] = IF d = c
                       THEN [run[d] EXCEPT !.pc = "candidate",
                                           !.trials = Cardinality(ledger)]
                       ELSE run[d]
      BY <1>7 DEF Count
    <3> QED BY <2>1, <3>1 DEF Counted
  <2> QED BY <1>7, <2>2 DEF Count
<1>8. CASE Candidate(c)
  <2>1. PICK candidate :
          run' = [run EXCEPT ![c].pc = "backtest", ![c].config = candidate]
          \/ run' = [run EXCEPT ![c] = NoRun]
    BY <1>8 DEF Candidate
  <2>2. CASE run' = [run EXCEPT ![c].pc = "backtest", ![c].config = candidate]
    <3>1. UNCHANGED <<ledger, tested, versions, live>> /\ At(c, "candidate")
      BY <1>8 DEF Candidate, store
    <3>2. ASSUME NEW d \in Clients PROVE Counted(d)'
      <4>1. run'[d] = IF d = c THEN [run[d] EXCEPT !.pc = "backtest", !.config = candidate]
                               ELSE run[d]
        BY <2>2
      <4> QED BY <3>1, <4>1 DEF Counted, At
    <3> QED BY <2>2, <3>1, <3>2
  <2>3. CASE run' = [run EXCEPT ![c] = NoRun]
    BY <1>8, <2>3 DEF Candidate, Counted
  <2> QED BY <2>1, <2>2, <2>3
<1>9. CASE Backtest(c)
  <2>1. IsFiniteSet(ledger')
    BY <1>9, FS_AddElement DEF Backtest
  <2>2. Shape' /\ tested' \subseteq ledger' /\ ledger \subseteq ledger'
    BY <1>9 DEF Backtest
  <2>3. ASSUME NEW d \in Clients PROVE Counted(d)'
    <3>1. \/ run'[d] = run[d]
          \/ run'[d] = [run[d] EXCEPT !.pc = "report"]
          \/ run'[d] = NoRun
      BY <1>9 DEF Backtest
    <3>2. CASE run'[d] = run[d]
      BY <2>2, <3>2 DEF Counted
    <3>3. CASE run'[d] = [run[d] EXCEPT !.pc = "report"]
      BY <2>2, <3>3 DEF Counted
    <3>4. CASE run'[d] = NoRun
      BY <3>4 DEF Counted
    <3> QED BY <3>1, <3>2, <3>3, <3>4
  <2> QED BY <2>1, <2>2, <2>3
<1>10. CASE Report(c)
  <2>1. Shape' /\ UNCHANGED <<ledger, tested>>
    BY <1>10 DEF Report
  <2>2. ASSUME NEW d \in Clients PROVE Aside(d)
    BY <1>a, <1>10 DEF Report, Aside
  <2> QED BY <2>1, <2>2, Elsewhere
<1>11. CASE CheckLease(c)
  <2>1. Shape' /\ UNCHANGED <<ledger, tested>>
    BY <1>11 DEF CheckLease
  <2>2. ASSUME NEW d \in Clients PROVE Aside(d)
    <3>1. CASE d # c
      BY <1>11, <3>1 DEF CheckLease, Aside
    <3>2. CASE d = c
      BY <1>a, <1>11, <3>2 DEF CheckLease, Aside
    <3> QED BY <3>1, <3>2
  <2> QED BY <2>1, <2>2, Elsewhere
<1>12. CASE TakeLease(c)
  <2>1. Shape' /\ UNCHANGED <<ledger, tested>>
    BY <1>12 DEF TakeLease
  <2>2. ASSUME NEW d \in Clients PROVE Aside(d)
    BY <1>a, <1>12 DEF TakeLease, Aside
  <2> QED BY <2>1, <2>2, Elsewhere
<1>13. CASE Cas(c)
  <2>1. Shape' /\ UNCHANGED <<ledger, tested>>
    BY <1>13 DEF Cas
  <2>2. ASSUME NEW d \in Clients PROVE Aside(d)
    <3>1. CASE d # c
      BY <1>13, <3>1 DEF Cas, Aside
    <3>2. CASE d = c
      BY <1>a, <1>13, <3>2 DEF Cas, Aside
    <3> QED BY <3>1, <3>2
  <2> QED BY <2>1, <2>2, Elsewhere
<1>14. CASE Release(c)
  <2>1. Shape' /\ UNCHANGED <<ledger, tested>>
    BY <1>14 DEF Release
  <2>2. ASSUME NEW d \in Clients PROVE Aside(d)
    BY <1>a, <1>14 DEF Release, Aside
  <2> QED BY <2>1, <2>2, Elsewhere
<1>15. CASE Number(c)
  <2>1. Shape' /\ UNCHANGED <<ledger, tested>>
    BY <1>15 DEF Number
  <2>2. ASSUME NEW d \in Clients PROVE Aside(d)
    BY <1>a, <1>15 DEF Number, Aside
  <2> QED BY <2>1, <2>2, Elsewhere
<1>16. CASE TruncateVersion(c)
  <2>1. Shape' /\ UNCHANGED <<ledger, tested>>
    BY <1>16 DEF TruncateVersion
  <2>2. ASSUME NEW d \in Clients PROVE Aside(d)
    BY <1>a, <1>16 DEF TruncateVersion, Aside
  <2> QED BY <2>1, <2>2, Elsewhere
<1>17. CASE WriteVersion(c)
  <2>1. Shape' /\ UNCHANGED <<ledger, tested>>
    BY <1>17 DEF WriteVersion
  <2>2. ASSUME NEW d \in Clients PROVE Aside(d)
    BY <1>a, <1>17 DEF WriteVersion, Aside
  <2> QED BY <2>1, <2>2, Elsewhere
<1>18. CASE TruncateHead(c)
  <2>1. Shape' /\ UNCHANGED <<ledger, tested>>
    BY <1>18 DEF TruncateHead
  <2>2. ASSUME NEW d \in Clients PROVE Aside(d)
    BY <1>a, <1>18 DEF TruncateHead, Aside
  <2> QED BY <2>1, <2>2, Elsewhere
<1>19. CASE SetHead(c)
  <2>1. Shape' /\ UNCHANGED <<ledger, tested>>
    BY <1>19 DEF SetHead
  <2>2. ASSUME NEW d \in Clients PROVE Aside(d)
    <3>1. CASE d # c
      BY <1>19, <3>1 DEF SetHead, Aside
    <3>2. CASE d = c
      BY <1>a, <1>19, <3>2 DEF SetHead, Aside
    <3> QED BY <3>1, <3>2
  <2> QED BY <2>1, <2>2, Elsewhere
<1>20. CASE Rollback(c)
  <2>1. Shape' /\ UNCHANGED <<ledger, tested>>
    BY <1>20 DEF Rollback
  <2>2. ASSUME NEW d \in Clients PROVE Aside(d)
    BY <1>a, <1>20 DEF Rollback, Aside
  <2> QED BY <2>1, <2>2, Elsewhere
<1> QED BY <1>1, <1>2, <1>3, <1>4, <1>5, <1>6, <1>7, <1>8, <1>9, <1>10, <1>11,
           <1>12, <1>13, <1>14, <1>15, <1>16, <1>17, <1>18, <1>19, <1>20
        DEF Client

LEMMA CountLive ==
  ASSUME CountInv, LiveSteps \/ UNCHANGED vars
  PROVE  CountInv'
<1>1. UNCHANGED <<versions, run, ledger, tested>> /\ DOMAIN live' = DOMAIN live
  BY DEF LiveSteps, LoadHead, LoadVersion, LiveRestarts, Adopts, Fallback, store,
         vars, CountInv, Shape, LiveFields
<1> QED BY <1>1 DEF CountInv, Shape, Counted, At

\* The trial count a backtest is given includes its own hypothesis and every one
\* whose result was known when it was proposed, for any number of processes.
THEOREM CountsHonest == Spec => []TrialsCounted
<1>1. Init => CountInv
  BY CountInit
<1>2. CountInv /\ [Next]_vars => CountInv'
  <2> SUFFICES ASSUME CountInv, [Next]_vars PROVE CountInv'
    OBVIOUS
  <2>1. CASE \E c \in Clients : Client(c)
    BY <2>1, CountClient
  <2>2. CASE LiveSteps \/ UNCHANGED vars
    BY <2>2, CountLive
  <2> QED BY <2>1, <2>2, Steps
<1>3. CountInv => TrialsCounted
  BY DEF CountInv, Counted, TrialsCounted, At
<1> QED BY <1>1, <1>2, <1>3, PTL DEF Spec

-----------------------------------------------------------------------------
(* The weekly budget.                                                      *)

\* The clients that have passed the budget check and not yet debited it.
Granted == {c \in Clients : At(c, "record")}

\* The inductive invariant: every trial granted and not yet recorded is paid for
\* by a client, and a backtest is recorded under a hypothesis that already is.
BudgetInv ==
  /\ CountInv
  /\ \A c \in Clients :
       run[c].pc \in {"candidate", "backtest"} => run[c].id \in ledger
  /\ Cardinality(ledger) + Cardinality(Granted)
       <= WeeklyCap + Cardinality(Clients) - 1

LEMMA GrantedFinite ==
  /\ Cardinality(Clients) \in Nat /\ Cardinality(Clients) > 0
  /\ IsFiniteSet(Granted) /\ Cardinality(Granted) \in Nat
  /\ Cardinality(Granted) <= Cardinality(Clients)
<1>1. Granted \subseteq Clients /\ IsFiniteSet(Clients) /\ Clients # {}
  BY StoreAssumption DEF Granted
<1> QED BY <1>1, FS_Subset, FS_CardinalityType, FS_EmptySet

LEMMA BudgetInit == Init => BudgetInv
<1> SUFFICES ASSUME Init PROVE BudgetInv
  OBVIOUS
<1>1. Granted = {} /\ ledger = {}
  BY DEF Init, Granted, At, NoRun
<1>2. Cardinality(ledger) = 0 /\ Cardinality(Granted) = 0
  BY <1>1, FS_EmptySet
<1>3. WeeklyCap \in Nat
  BY StoreAssumption
<1>4. \A c \in Clients : run[c].pc = "idle"
  BY DEF Init, NoRun
<1> QED BY <1>2, <1>3, <1>4, GrantedFinite, CountInit DEF BudgetInv

\* A step that grants nothing and records nothing keeps the balance.
LEMMA Ungranted ==
  ASSUME BudgetInv, UNCHANGED ledger, Granted' \subseteq Granted
  PROVE  Cardinality(ledger') + Cardinality(Granted')
           <= WeeklyCap + Cardinality(Clients) - 1
<1>1. Cardinality(Granted') <= Cardinality(Granted) /\ Cardinality(Granted') \in Nat
  BY GrantedFinite, FS_Subset, FS_CardinalityType
<1>2. Cardinality(ledger') \in Nat /\ Cardinality(ledger') = Cardinality(ledger)
  BY FS_CardinalityType DEF BudgetInv, CountInv
<1> QED BY <1>1, <1>2, GrantedFinite, StoreAssumption DEF BudgetInv

LEMMA BudgetGrant ==
  ASSUME BudgetInv, NEW c \in Clients, ReadBudget(c)
  PROVE  Cardinality(ledger') + Cardinality(Granted')
           <= WeeklyCap + Cardinality(Clients) - 1
<1>1. CASE Cardinality(ledger) < WeeklyCap
  <2>1. ledger' = ledger
    BY DEF ReadBudget, store
  <2>2. Cardinality(Granted') \in Nat /\ Cardinality(Granted') <= Cardinality(Clients)
    <3>1. Granted' \subseteq Clients /\ IsFiniteSet(Clients)
      BY StoreAssumption DEF Granted
    <3> QED BY <3>1, FS_Subset, FS_CardinalityType
  <2>3. Cardinality(ledger) \in Nat
    BY FS_CardinalityType DEF BudgetInv, CountInv
  <2> QED BY <1>1, <2>1, <2>2, <2>3, GrantedFinite, StoreAssumption
<1>2. CASE ~(Cardinality(ledger) < WeeklyCap)
  <2>1. ledger' = ledger /\ Ends(c)
    BY <1>2 DEF ReadBudget, store
  <2>2. Granted' \subseteq Granted
    BY <2>1 DEF Granted, At, Ends, NoRun, BudgetInv, CountInv, Shape
  <2> QED BY <2>1, <2>2, Ungranted
<1> QED BY <1>1, <1>2

LEMMA BudgetDebit ==
  ASSUME BudgetInv, NEW c \in Clients, Record(c)
  PROVE  Cardinality(ledger') + Cardinality(Granted')
           <= WeeklyCap + Cardinality(Clients) - 1
<1>1. Granted' = Granted \ {c} /\ c \in Granted
  BY DEF Record, Granted, At, Goes, BudgetInv, CountInv, Shape
<1>2. Cardinality(Granted') = Cardinality(Granted) - 1
  BY <1>1, GrantedFinite, FS_RemoveElement
<1>3. /\ Cardinality(ledger) \in Nat /\ Cardinality(ledger') \in Nat
      /\ Cardinality(ledger') <= Cardinality(ledger) + 1
  <2>1. IsFiniteSet(ledger) /\ ledger' = ledger \cup {run[c].id}
    BY DEF Record, BudgetInv, CountInv
  <2>2. Cardinality(ledger) \in Nat
    BY <2>1, FS_CardinalityType
  <2>3. Cardinality(ledger') = IF run[c].id \in ledger THEN Cardinality(ledger)
                              ELSE Cardinality(ledger) + 1
    BY <2>1, FS_AddElement
  <2> QED BY <2>2, <2>3
<1> QED BY <1>2, <1>3, GrantedFinite, StoreAssumption DEF BudgetInv

\* A client that is not between the check of the budget and its backtest, or that
\* stays where it is.
Quiet(d) ==
  \/ run'[d] = run[d]
  \/ run'[d].pc \notin {"record", "candidate", "backtest"}

\* Its steps keep the invariant.
LEMMA QuietStep ==
  ASSUME BudgetInv, CountInv', UNCHANGED ledger, \A d \in Clients : Quiet(d)
  PROVE  BudgetInv'
<1>1. Granted' \subseteq Granted
  BY DEF Granted, At, Quiet
<1>2. \A d \in Clients :
        run'[d].pc \in {"candidate", "backtest"} => run'[d].id \in ledger'
  BY DEF Quiet, BudgetInv
<1> QED BY <1>1, <1>2, Ungranted DEF BudgetInv

LEMMA BudgetClient ==
  ASSUME BudgetInv, NEW c \in Clients, Client(c)
  PROVE  BudgetInv'
<1>a. CountInv'
  BY CountClient DEF BudgetInv
<1>b. DOMAIN run = Clients /\ \A d \in Clients : DOMAIN run[d] = RunFields
  BY DEF BudgetInv, CountInv, Shape
<1> USE DEF At, Goes, Ends, NoRun, store, RunFields
<1>1. CASE Begin(c)
  <2>1. UNCHANGED ledger /\ \A d \in Clients : Quiet(d)
    BY <1>b, <1>1 DEF Begin, Quiet
  <2> QED BY <1>a, <2>1, QuietStep
<1>2. CASE Kill(c)
  <2>1. UNCHANGED ledger /\ \A d \in Clients : Quiet(d)
    BY <1>b, <1>2 DEF Kill, Quiet
  <2> QED BY <1>a, <2>1, QuietStep
<1>3. CASE OpenStore(c)
  <2>1. UNCHANGED ledger /\ \A d \in Clients : Quiet(d)
    BY <1>b, <1>3 DEF OpenStore, Quiet
  <2> QED BY <1>a, <2>1, QuietStep
<1>4. CASE ReadHead(c)
  <2>1. UNCHANGED ledger /\ \A d \in Clients : Quiet(d)
    BY <1>b, <1>4 DEF ReadHead, Quiet
  <2> QED BY <1>a, <2>1, QuietStep
<1>5. CASE ReadBudget(c)
  <2>1. UNCHANGED ledger /\ \A d \in Clients :
          run'[d] = run[d] \/ run'[d].pc \in {"record", "idle"}
    BY <1>b, <1>5 DEF ReadBudget
  <2>2. \A d \in Clients :
          run'[d].pc \in {"candidate", "backtest"} => run'[d].id \in ledger'
    BY <2>1 DEF BudgetInv
  <2> QED BY <1>a, <1>5, <2>2, BudgetGrant DEF BudgetInv
<1>6. CASE Record(c)
  <2>1. ledger \subseteq ledger' /\ \A d \in Clients :
          run'[d] = run[d] \/ run'[d].pc = "count"
    BY <1>b, <1>6 DEF Record
  <2>2. \A d \in Clients :
          run'[d].pc \in {"candidate", "backtest"} => run'[d].id \in ledger'
    BY <2>1 DEF BudgetInv
  <2> QED BY <1>a, <1>6, <2>2, BudgetDebit DEF BudgetInv
<1>7. CASE Count(c)
  <2>1. run[c].id \in ledger /\ run[c].pc # "record"
    BY <1>7 DEF Count, BudgetInv, CountInv, Counted
  <2>2. UNCHANGED ledger /\ \A d \in Clients :
          \/ run'[d] = run[d]
          \/ run'[d].pc = "idle"
          \/ d = c /\ run'[d].id = run[d].id /\ run'[d].pc \in {"candidate", "backtest"}
    BY <1>b, <1>7 DEF Count
  <2>3. Granted' \subseteq Granted
    BY <2>2 DEF Granted
  <2>4. \A d \in Clients :
          run'[d].pc \in {"candidate", "backtest"} => run'[d].id \in ledger'
    BY <2>1, <2>2 DEF BudgetInv
  <2> QED BY <1>a, <2>2, <2>3, <2>4, Ungranted DEF BudgetInv
<1>8. CASE Candidate(c)
  <2>1. run[c].id \in ledger /\ run[c].pc # "record"
    BY <1>8 DEF Candidate, BudgetInv, CountInv, Counted
  <2>2. UNCHANGED ledger /\ \A d \in Clients :
          \/ run'[d] = run[d]
          \/ run'[d].pc = "idle"
          \/ d = c /\ run'[d].id = run[d].id /\ run'[d].pc \in {"candidate", "backtest"}
    BY <1>b, <1>8 DEF Candidate
  <2>3. Granted' \subseteq Granted
    BY <2>2 DEF Granted
  <2>4. \A d \in Clients :
          run'[d].pc \in {"candidate", "backtest"} => run'[d].id \in ledger'
    BY <2>1, <2>2 DEF BudgetInv
  <2> QED BY <1>a, <2>2, <2>3, <2>4, Ungranted DEF BudgetInv
<1>9. CASE Backtest(c)
  <2>1. ledger' = ledger
    BY <1>9 DEF Backtest, BudgetInv
  <2>2. \A d \in Clients : Quiet(d)
    BY <1>b, <1>9 DEF Backtest, Quiet
  <2> QED BY <1>a, <2>1, <2>2, QuietStep
<1>10. CASE Report(c)
  <2>1. UNCHANGED ledger /\ \A d \in Clients : Quiet(d)
    BY <1>b, <1>10 DEF Report, Quiet
  <2> QED BY <1>a, <2>1, QuietStep
<1>11. CASE CheckLease(c)
  <2>1. UNCHANGED ledger /\ \A d \in Clients : Quiet(d)
    BY <1>b, <1>11 DEF CheckLease, Quiet
  <2> QED BY <1>a, <2>1, QuietStep
<1>12. CASE TakeLease(c)
  <2>1. UNCHANGED ledger /\ \A d \in Clients : Quiet(d)
    BY <1>b, <1>12 DEF TakeLease, Quiet
  <2> QED BY <1>a, <2>1, QuietStep
<1>13. CASE Cas(c)
  <2>1. UNCHANGED ledger /\ \A d \in Clients : Quiet(d)
    BY <1>b, <1>13 DEF Cas, Quiet
  <2> QED BY <1>a, <2>1, QuietStep
<1>14. CASE Release(c)
  <2>1. UNCHANGED ledger /\ \A d \in Clients : Quiet(d)
    BY <1>b, <1>14 DEF Release, Quiet
  <2> QED BY <1>a, <2>1, QuietStep
<1>15. CASE Number(c)
  <2>1. UNCHANGED ledger /\ \A d \in Clients : Quiet(d)
    BY <1>b, <1>15 DEF Number, Quiet
  <2> QED BY <1>a, <2>1, QuietStep
<1>16. CASE TruncateVersion(c)
  <2>1. UNCHANGED ledger /\ \A d \in Clients : Quiet(d)
    BY <1>b, <1>16 DEF TruncateVersion, Quiet
  <2> QED BY <1>a, <2>1, QuietStep
<1>17. CASE WriteVersion(c)
  <2>1. UNCHANGED ledger /\ \A d \in Clients : Quiet(d)
    BY <1>b, <1>17 DEF WriteVersion, Quiet
  <2> QED BY <1>a, <2>1, QuietStep
<1>18. CASE TruncateHead(c)
  <2>1. UNCHANGED ledger /\ \A d \in Clients : Quiet(d)
    BY <1>b, <1>18 DEF TruncateHead, Quiet
  <2> QED BY <1>a, <2>1, QuietStep
<1>19. CASE SetHead(c)
  <2>1. UNCHANGED ledger /\ \A d \in Clients : Quiet(d)
    BY <1>b, <1>19 DEF SetHead, Quiet
  <2> QED BY <1>a, <2>1, QuietStep
<1>20. CASE Rollback(c)
  <2>1. UNCHANGED ledger /\ \A d \in Clients : Quiet(d)
    BY <1>b, <1>20 DEF Rollback, Quiet
  <2> QED BY <1>a, <2>1, QuietStep
<1> QED BY <1>1, <1>2, <1>3, <1>4, <1>5, <1>6, <1>7, <1>8, <1>9, <1>10, <1>11,
           <1>12, <1>13, <1>14, <1>15, <1>16, <1>17, <1>18, <1>19, <1>20
        DEF Client

\* The weekly budget is overdrawn by no more than one trial for each further
\* process that checks it at the same time, for any number of processes.
THEOREM BudgetNearlyHeld == Spec => []BudgetHeld
<1>1. Init => BudgetInv
  BY BudgetInit
<1>2. BudgetInv /\ [Next]_vars => BudgetInv'
  <2> SUFFICES ASSUME BudgetInv, [Next]_vars PROVE BudgetInv'
    OBVIOUS
  <2>1. CASE \E c \in Clients : Client(c)
    BY <2>1, BudgetClient
  <2>2. CASE LiveSteps \/ UNCHANGED vars
    <3>1. UNCHANGED <<run, ledger, tested>>
      BY <2>2 DEF LiveSteps, LoadHead, LoadVersion, LiveRestarts, vars
    <3>2. CountInv'
      BY <2>2, CountLive DEF BudgetInv
    <3> QED BY <3>1, <3>2, QuietStep DEF Quiet
  <2> QED BY <2>1, <2>2, Steps
<1>3. BudgetInv => BudgetHeld
  <2> SUFFICES ASSUME BudgetInv PROVE BudgetHeld
    OBVIOUS
  <2>1. Cardinality(ledger) \in Nat
    BY FS_CardinalityType DEF BudgetInv, CountInv
  <2> QED BY <2>1, GrantedFinite, StoreAssumption DEF BudgetInv, BudgetHeld
<1> QED BY <1>1, <1>2, <1>3, PTL DEF Spec

-----------------------------------------------------------------------------
(* The store as long as no two clients write it at the same time.          *)

\* What a client knows by itself, before it writes the store.
Local(c) ==
  /\ run[c].pc \in {"open", "head", "cas"} => run[c].kind = "promote"
  /\ At(c, "open") => run[c].parent = 0 /\ run[c].config = {}
  /\ run[c].pc \in {"budget", "record", "count", "candidate", "backtest", "report",
                    "lease", "take", "cas"}
       => run[c].kind = "promote" /\ run[c].parent # 0

Fresh(v, st) == v \in Versions /\ versions[v].st = st

\* What holds of the store around the one client that writes it: a promotion
\* replaces the parent it has compared, a bootstrap finds no version, a rollback
\* names a version that has been HEAD; the version a client is about to write
\* has never been readable.
Alone(c) == run[c].pc \in Writing =>
  /\ run[c].kind \in {"promote", "boot", "rollback"}
  /\ At(c, "number") => run[c].kind = "promote"
  /\ run[c].kind = "promote" =>
       /\ run[c].parent \in beenHead /\ lastHead = run[c].parent
       /\ ~At(c, "sethead") => head = run[c].parent
       /\ run[c].pc \in {"truncate", "write"} => run[c].new # 1
  /\ run[c].kind = "boot" =>
       /\ beenHead = {} /\ run[c].new = 1
       /\ run[c].parent = 0 /\ run[c].config = {}
  /\ run[c].kind = "rollback" =>
       run[c].pc \in {"truncatehead", "sethead"} /\ run[c].new \in beenHead
  /\ At(c, "truncate") => Fresh(run[c].new, "absent")
  /\ At(c, "write") => Fresh(run[c].new, "empty")
  /\ run[c].pc \in {"truncatehead", "sethead"} /\ run[c].kind # "rollback" =>
       Readable(run[c].new) /\ versions[run[c].new].parent = run[c].parent

\* HEAD only ever names a version that has been written, and version 1 is the
\* base config.
HeadOK ==
  /\ \A v \in beenHead : Readable(v)
  /\ head # 0 => head \in beenHead /\ lastHead = head
  /\ beenHead = {} => lastHead = 0
  /\ Readable(1) => versions[1].config = {}

\* What the live engine has loaded is in the file of its version, or the
\* fallback.
LiveOK ==
  \/ live.version = 0
  \/ live.version = 1 /\ live.config = {}
  \/ Readable(live.version) /\ live.config = versions[live.version].config

OneWriter == \A c, d \in Clients :
               run[c].pc \in Writing /\ run[d].pc \in Writing => c = d

\* The inductive invariant.
StoreInv ==
  /\ Shape
  /\ \A c \in Clients : Local(c)
  /\ ~raced => OneWriter /\ HeadOK /\ LiveOK /\ \A c \in Clients : Alone(c)

-----------------------------------------------------------------------------
(* max_version(): the newest version exists.                               *)

LEMMA Newest ==
  ASSUME Existing # {}
  PROVE  Max(Existing) \in Existing /\ \A v \in Existing : v <= Max(Existing)
<1> DEFINE R == {ss \in Nat \X Nat : ss[1] < ss[2]}
           Gaps == {MaxVersion - v : v \in Existing}
<1>1. IsWellFoundedOn(R, Nat)
  BY NatLessThanWellFounded DEF OpToRel
<1>2. \A x, y \in Nat : <<y, x>> \in R <=> y < x
  OBVIOUS
<1>3. Gaps \subseteq Nat /\ Gaps # {} /\ Existing \subseteq Int
  BY StoreAssumption DEF Existing, Versions
<1> HIDE DEF R, Gaps
<1>4. PICK x \in Gaps : \A y \in Gaps : ~(<<y, x>> \in R)
  BY <1>1, <1>3, WFMin
<1>5. PICK v \in Existing : x = MaxVersion - v
  BY DEF Gaps
<1>6. ASSUME NEW w \in Existing PROVE w <= v
  <2>1. MaxVersion - w \in Gaps
    BY DEF Gaps
  <2>2. ~(MaxVersion - w < x)
    BY <1>2, <1>3, <1>4, <2>1
  <2> QED BY <1>3, <1>5, <2>2, StoreAssumption
<1> QED BY <1>5, <1>6 DEF Max

LEMMA StoreInit == Init => StoreInv
BY DEF Init, StoreInv, Shape, RunFields, LiveFields, NoRun, Absent, Local, OneWriter,
       HeadOK, LiveOK, Alone, Writing, At, Readable

\* Two clients that are writing after a step have raced.
LEMMA Single ==
  ASSUME Observed, ~raced'
  PROVE  ~raced /\ OneWriter'
<1> DEFINE W == {c \in Clients : run'[c].pc \in Writing}
<1>1. ~raced /\ ~(Cardinality(W) > 1)
  BY DEF Observed
<1>2. ASSUME NEW c \in W, NEW d \in W PROVE c = d
  <2>1. IsFiniteSet(W)
    BY StoreAssumption, FS_Subset
  <2>2. Cardinality(W) \in Nat /\ Cardinality(W \ {c}) = Cardinality(W) - 1
    BY <2>1, FS_CardinalityType, FS_RemoveElement
  <2>3. IsFiniteSet(W \ {c}) /\ Cardinality(W \ {c}) \in Nat
    BY <2>1, FS_Subset, FS_CardinalityType
  <2>4. Cardinality(W \ {c}) = 0
    BY <1>1, <2>2, <2>3
  <2> QED BY <2>3, <2>4, FS_EmptySet
<1> QED BY <1>1, <1>2 DEF OneWriter

\* A step that leaves HEAD alone leaves its history alone.
LEMMA HeadKept ==
  ASSUME HeadOK, Observed, UNCHANGED head
  PROVE  UNCHANGED <<lastHead, beenHead>>
BY DEF HeadOK, Observed

\* The store is as it was, and no client begins to write it.
LEMMA StoreAside ==
  ASSUME HeadOK, LiveOK, \A c \in Clients : Alone(c),
         Observed, UNCHANGED <<versions, head, live>>,
         \A d \in Clients : run'[d] = run[d] \/ run'[d].pc \notin Writing
  PROVE  HeadOK' /\ LiveOK' /\ \A c \in Clients : Alone(c)'
<1>1. UNCHANGED <<lastHead, beenHead>>
  BY HeadKept
<1>2. HeadOK' /\ LiveOK'
  BY <1>1 DEF HeadOK, LiveOK, Readable
<1>3. ASSUME NEW c \in Clients PROVE Alone(c)'
  <2>1. CASE run'[c] = run[c]
    BY <1>1, <2>1 DEF Alone, At, Fresh, Readable
  <2>2. CASE run'[c].pc \notin Writing
    BY <2>2 DEF Alone
  <2> QED BY <2>1, <2>2
<1> QED BY <1>2, <1>3

LEMMA LocalClient ==
  ASSUME StoreInv, NEW c \in Clients, Client(c)
  PROVE  Shape' /\ \A d \in Clients : Local(d)'
<1> USE DEF StoreInv, Shape, RunFields, LiveFields, Local, At, Goes, Ends, NoRun, store
<1>1. CASE Begin(c)            BY <1>1 DEF Begin
<1>2. CASE Kill(c)             BY <1>2 DEF Kill
<1>3. CASE OpenStore(c)        BY <1>3 DEF OpenStore
<1>4. CASE ReadHead(c)         BY <1>4 DEF ReadHead
<1>5. CASE ReadBudget(c)       BY <1>5 DEF ReadBudget
<1>6. CASE Record(c)           BY <1>6 DEF Record
<1>7. CASE Count(c)            BY <1>7 DEF Count
<1>8. CASE Candidate(c)        BY <1>8 DEF Candidate
<1>9. CASE Backtest(c)         BY <1>9 DEF Backtest
<1>10. CASE Report(c)          BY <1>10 DEF Report
<1>11. CASE CheckLease(c)      BY <1>11 DEF CheckLease
<1>12. CASE TakeLease(c)       BY <1>12 DEF TakeLease
<1>13. CASE Cas(c)             BY <1>13 DEF Cas
<1>14. CASE Release(c)         BY <1>14 DEF Release
<1>15. CASE Number(c)          BY <1>15 DEF Number
<1>16. CASE TruncateVersion(c) BY <1>16 DEF TruncateVersion
<1>17. CASE WriteVersion(c)    BY <1>17 DEF WriteVersion
<1>18. CASE TruncateHead(c)    BY <1>18 DEF TruncateHead
<1>19. CASE SetHead(c)         BY <1>19 DEF SetHead
<1>20. CASE Rollback(c)        BY <1>20 DEF Rollback
<1> QED BY <1>1, <1>2, <1>3, <1>4, <1>5, <1>6, <1>7, <1>8, <1>9, <1>10, <1>11,
           <1>12, <1>13, <1>14, <1>15, <1>16, <1>17, <1>18, <1>19, <1>20
        DEF Client

\* The store around one step of client c, told of the others: after it they do not
\* write, so that nothing needs to hold for them.
LEMMA OnlyWriter ==
  ASSUME OneWriter', NEW c \in Clients, run'[c].pc \in Writing, Alone(c)'
  PROVE  \A d \in Clients : Alone(d)'
<1>1. ASSUME NEW d \in Clients, d # c PROVE run'[d].pc \notin Writing
  BY <1>1 DEF OneWriter
<1> QED BY <1>1 DEF Alone

\* The store of a directory that one client at most writes.
Quietly == Shape /\ HeadOK /\ LiveOK /\ \A c \in Clients : Local(c) /\ Alone(c)
QuietlyNext == HeadOK' /\ LiveOK' /\ \A c \in Clients : Alone(c)'

LEMMA StoreOpen ==
  ASSUME Quietly, NEW c \in Clients, OpenStore(c), Observed, OneWriter'
  PROVE  QuietlyNext
<1> USE DEF Quietly, QuietlyNext, Shape, RunFields, At
<1>1. UNCHANGED <<versions, head, live>> /\ UNCHANGED <<lastHead, beenHead>>
  BY HeadKept DEF OpenStore, store
<1>2. CASE Existing = {}
  <2>1. run' = [run EXCEPT ![c].pc = "truncate", ![c].kind = "boot", ![c].new = 1]
    BY <1>2 DEF OpenStore
  <2>2. \A v : ~Readable(v)
    BY <1>2 DEF Existing, Readable
  <2>3. beenHead = {} /\ Fresh(1, "absent")
    BY <1>2, <2>2, StoreAssumption DEF HeadOK, Existing, Fresh, Versions
  <2>4. run[c].parent = 0 /\ run[c].config = {}
    BY DEF OpenStore, Local
  <2>5. Alone(c)' /\ run'[c].pc \in Writing
    BY <1>1, <2>1, <2>3, <2>4 DEF Alone, Writing, Fresh
  <2>6. HeadOK' /\ LiveOK'
    BY <1>1 DEF HeadOK, LiveOK, Readable
  <2> QED BY <2>5, <2>6, OnlyWriter
<1>3. CASE Existing # {}
  <2>1. \A d \in Clients : run'[d] = run[d] \/ run'[d].pc \notin Writing
    BY <1>3 DEF OpenStore, Goes, Writing
  <2> QED BY <1>1, <2>1, StoreAside
<1> QED BY <1>2, <1>3

LEMMA StoreCas ==
  ASSUME Quietly, NEW c \in Clients, Cas(c), Observed, OneWriter'
  PROVE  QuietlyNext
<1> USE DEF Quietly, QuietlyNext, Shape, RunFields, At
<1>1. UNCHANGED <<versions, head, live>> /\ UNCHANGED <<lastHead, beenHead>>
  BY HeadKept DEF Cas, store
<1>2. CASE head = run[c].parent
  <2>1. run' = [run EXCEPT ![c].pc = "number"]
    BY <1>2 DEF Cas, Goes
  <2>2. run[c].kind = "promote" /\ run[c].parent # 0
    BY DEF Cas, Local
  <2>3. Alone(c)' /\ run'[c].pc \in Writing
    BY <1>1, <1>2, <2>1, <2>2 DEF Alone, Writing, HeadOK
  <2>4. HeadOK' /\ LiveOK'
    BY <1>1 DEF HeadOK, LiveOK, Readable
  <2> QED BY <2>3, <2>4, OnlyWriter
<1>3. CASE head # run[c].parent
  <2>1. \A d \in Clients : run'[d] = run[d] \/ run'[d].pc \notin Writing
    BY <1>3 DEF Cas, Goes, Writing
  <2> QED BY <1>1, <2>1, StoreAside
<1> QED BY <1>2, <1>3

LEMMA StoreNumber ==
  ASSUME Quietly, NEW c \in Clients, Number(c), Observed, OneWriter'
  PROVE  QuietlyNext
<1> USE DEF Quietly, QuietlyNext, Shape, RunFields, At
<1>1. UNCHANGED <<versions, head, live>> /\ UNCHANGED <<lastHead, beenHead>>
  BY HeadKept DEF Number, store
<1>2. /\ run[c].kind = "promote" /\ run[c].parent \in beenHead
      /\ lastHead = run[c].parent /\ head = run[c].parent
  BY DEF Alone, Writing, Number
<1>3. run[c].parent \in Existing
  BY <1>2 DEF HeadOK, Readable, Existing
<1>4. Max(Existing) \in Existing /\ \A v \in Existing : v <= Max(Existing)
  BY <1>3, Newest
<1>5. Max(Existing) \in 1 .. MaxVersion
  BY <1>4 DEF Existing, Versions
<1> DEFINE n == Max(Existing) + 1
<1>6. run' = [run EXCEPT ![c].pc = "truncate", ![c].new = n] /\ Max(Existing) < MaxVersion
  BY DEF Number
<1>7. n \in Versions /\ n # 1 /\ n \notin Existing
  BY <1>4, <1>5, <1>6, StoreAssumption DEF Versions
<1>8. Fresh(n, "absent")
  BY <1>7 DEF Fresh, Existing
<1> HIDE DEF n
<1>9. Alone(c)' /\ run'[c].pc \in Writing
  BY <1>1, <1>2, <1>6, <1>7, <1>8 DEF Alone, Writing, Fresh
<1>10. HeadOK' /\ LiveOK'
  BY <1>1 DEF HeadOK, LiveOK, Readable
<1> QED BY <1>9, <1>10, OnlyWriter

LEMMA StoreTruncate ==
  ASSUME Quietly, NEW c \in Clients, TruncateVersion(c), Observed, OneWriter'
  PROVE  QuietlyNext
<1> USE DEF Quietly, QuietlyNext, Shape, RunFields, At
<1>1. UNCHANGED <<head, live>> /\ UNCHANGED <<lastHead, beenHead>>
  BY HeadKept DEF TruncateVersion, store
<1>2. Fresh(run[c].new, "absent") /\ run[c].pc = "truncate"
  BY DEF Alone, Writing, TruncateVersion
<1>3. /\ versions' = [versions EXCEPT ![run[c].new] = Empty]
      /\ run' = [run EXCEPT ![c].pc = "write"]
  BY DEF TruncateVersion, Goes
<1>4. \A v : Readable(v) => Readable(v)' /\ versions'[v] = versions[v]
  BY <1>2, <1>3 DEF Readable, Fresh
<1>5. \A v : Readable(v)' => Readable(v)
  BY <1>2, <1>3 DEF Readable, Fresh, Empty
<1>6. HeadOK' /\ LiveOK'
  BY <1>1, <1>4, <1>5 DEF HeadOK, LiveOK
<1>7. Alone(c)' /\ run'[c].pc \in Writing
  BY <1>1, <1>2, <1>3 DEF Alone, Writing, Fresh, Empty
<1> QED BY <1>6, <1>7, OnlyWriter

LEMMA StoreWrite ==
  ASSUME Quietly, NEW c \in Clients, WriteVersion(c), Observed, OneWriter'
  PROVE  QuietlyNext
<1> USE DEF Quietly, QuietlyNext, Shape, RunFields, At
<1>1. UNCHANGED <<head, live>> /\ UNCHANGED <<lastHead, beenHead>>
  BY HeadKept DEF WriteVersion, store
<1> DEFINE n == run[c].new
<1>2. Fresh(n, "empty") /\ run[c].pc = "write"
  BY DEF Alone, Writing, WriteVersion
<1>3. /\ versions' = [versions EXCEPT ![n] =
             [st |-> "full", parent |-> run[c].parent, config |-> run[c].config]]
      /\ run' = [run EXCEPT ![c].pc = "truncatehead"]
  BY DEF WriteVersion, Goes
<1>4. /\ \A v : Readable(v) => Readable(v)' /\ versions'[v] = versions[v]
      /\ \A v : Readable(v)' => Readable(v) \/ v = n
      /\ ~Readable(n)
  BY <1>2, <1>3 DEF Readable, Fresh
<1>5. n = 1 => run[c].config = {}
  BY <1>2 DEF Alone, Writing
<1>6. versions'[n].config = run[c].config
  BY <1>2, <1>3 DEF Fresh
<1>7. HeadOK' /\ LiveOK'
  BY <1>1, <1>4, <1>5, <1>6 DEF HeadOK, LiveOK
<1>8. Alone(c)' /\ run'[c].pc \in Writing
  BY <1>1, <1>2, <1>3 DEF Alone, Writing, Fresh, Readable
<1> QED BY <1>7, <1>8, OnlyWriter

LEMMA StoreClears ==
  ASSUME Quietly, NEW c \in Clients, TruncateHead(c), Observed, OneWriter'
  PROVE  QuietlyNext
<1> USE DEF Quietly, QuietlyNext, Shape, RunFields, At
<1>1. UNCHANGED <<versions, live, lastHead, beenHead>> /\ head' = 0
  BY DEF TruncateHead, Observed
<1>2. run' = [run EXCEPT ![c].pc = "sethead"] /\ run[c].pc = "truncatehead"
  BY DEF TruncateHead, Goes
<1>3. HeadOK' /\ LiveOK'
  BY <1>1 DEF HeadOK, LiveOK, Readable
<1>4. Alone(c)' /\ run'[c].pc \in Writing
  BY <1>1, <1>2 DEF Alone, Writing, Fresh, Readable
<1> QED BY <1>3, <1>4, OnlyWriter

\* The version a client makes HEAD can be read; if HEAD never named it, it is a
\* child of the version HEAD named last.
LEMMA NewHead ==
  ASSUME Quietly, NEW c \in Clients, SetHead(c)
  PROVE  /\ Readable(run[c].new) /\ run[c].new # 0
         /\ run[c].new \notin beenHead => versions[run[c].new].parent = lastHead
<1>1. run[c].pc = "sethead" /\ Alone(c) /\ HeadOK
  BY DEF Quietly, SetHead, At
<1>2. CASE run[c].kind = "rollback"
  BY <1>1, <1>2 DEF Alone, Writing, HeadOK, Readable, Versions
<1>3. CASE run[c].kind # "rollback"
  BY <1>1, <1>3 DEF Alone, Writing, HeadOK, Readable, Versions, At
<1> QED BY <1>2, <1>3

LEMMA StoreSetHead ==
  ASSUME Quietly, NEW c \in Clients, SetHead(c), Observed, OneWriter, OneWriter'
  PROVE  QuietlyNext
<1> USE DEF Quietly, QuietlyNext, Shape, RunFields, At
<1>1. /\ UNCHANGED <<versions, live>> /\ head' = run[c].new
      /\ run[c].pc = "sethead"
  BY DEF SetHead
<1>2. lastHead' = head' /\ beenHead' = beenHead \cup {head'}
  BY <1>1, NewHead DEF Observed
<1>3. HeadOK' /\ LiveOK'
  BY <1>1, <1>2, NewHead DEF HeadOK, LiveOK, Readable
<1>4. ASSUME NEW d \in Clients PROVE run'[d].pc \notin Writing
  <2>1. CASE d = c
    BY <2>1 DEF SetHead, Goes, Ends, NoRun, Writing
  <2>2. CASE d # c
    BY <1>1, <2>2 DEF SetHead, Goes, Ends, NoRun, Writing, OneWriter
  <2> QED BY <2>1, <2>2
<1> QED BY <1>3, <1>4 DEF Alone

LEMMA StoreRollback ==
  ASSUME Quietly, NEW c \in Clients, Rollback(c), Observed, OneWriter'
  PROVE  QuietlyNext
<1> USE DEF Quietly, QuietlyNext, Shape, RunFields, At
<1>1. UNCHANGED <<versions, head, live>> /\ UNCHANGED <<lastHead, beenHead>>
  BY HeadKept DEF Rollback, store
<1>2. PICK v \in beenHead \cap Existing :
        run' = [run EXCEPT ![c] = [NoRun EXCEPT !.pc = "truncatehead",
                                                !.kind = "rollback", !.new = v]]
  BY DEF Rollback
<1>3. Alone(c)' /\ run'[c].pc \in Writing
  BY <1>1, <1>2 DEF Alone, Writing, NoRun
<1>4. HeadOK' /\ LiveOK'
  BY <1>1 DEF HeadOK, LiveOK, Readable
<1> QED BY <1>3, <1>4, OnlyWriter

\* Every other step of a client leaves the versions and HEAD alone, and starts no
\* writing.
LEMMA StoreClient ==
  ASSUME Quietly, NEW c \in Clients, Client(c), Observed, OneWriter, OneWriter'
  PROVE  QuietlyNext
<1>1. CASE \/ Begin(c) \/ Kill(c) \/ ReadHead(c) \/ ReadBudget(c) \/ Record(c)
           \/ Count(c) \/ Candidate(c) \/ Backtest(c) \/ Report(c)
           \/ CheckLease(c) \/ TakeLease(c) \/ Release(c)
  <2>1. UNCHANGED <<versions, head, live>>
    BY <1>1 DEF Begin, Kill, ReadHead, ReadBudget, Record, Count, Candidate, Backtest,
                Report, CheckLease, TakeLease, Release, store
  <2>2. ASSUME NEW d \in Clients PROVE run'[d] = run[d] \/ run'[d].pc \notin Writing
    <3> USE DEF Quietly, Shape, RunFields, At, Goes, Ends, NoRun, Writing
    <3>1. CASE Begin(c)
      BY <3>1 DEF Begin
    <3>2. CASE Kill(c) \/ ReadBudget(c)
      BY <3>2 DEF Kill, ReadBudget
    <3>3. CASE ReadHead(c)
      BY <3>3 DEF ReadHead
    <3>4. CASE Record(c) \/ Count(c) \/ Candidate(c) \/ Backtest(c)
      BY <3>4 DEF Record, Count, Candidate, Backtest
    <3>5. CASE Report(c) \/ CheckLease(c) \/ TakeLease(c) \/ Release(c)
      BY <3>5 DEF Report, CheckLease, TakeLease, Release
    <3> QED BY <1>1, <3>1, <3>2, <3>3, <3>4, <3>5
  <2> QED BY <2>1, <2>2, StoreAside DEF Quietly, QuietlyNext
<1> QED BY <1>1, StoreOpen, StoreCas, StoreNumber, StoreTruncate, StoreWrite,
           StoreClears, StoreSetHead, StoreRollback DEF Client

LEMMA StoreLive ==
  ASSUME Quietly, LiveSteps, Observed
  PROVE  QuietlyNext
<1> USE DEF Quietly, QuietlyNext
<1>1. UNCHANGED <<versions, head, run>> /\ UNCHANGED <<lastHead, beenHead>>
  BY HeadKept DEF LiveSteps, LoadHead, LoadVersion, LiveRestarts, store
<1>2. HeadOK' /\ \A c \in Clients : Alone(c)'
  BY <1>1 DEF HeadOK, Alone, At, Fresh, Readable
<1>3. LiveOK'
  <2> USE DEF Shape, LiveFields, LiveOK, HeadOK, Adopts, Fallback, Readable
  <2>1. CASE LoadHead     BY <1>1, <2>1 DEF LoadHead
  <2>2. CASE LoadVersion  BY <1>1, <2>2 DEF LoadVersion
  <2>3. CASE LiveRestarts BY <1>1, <2>3 DEF LiveRestarts
  <2> QED BY <2>1, <2>2, <2>3 DEF LiveSteps
<1> QED BY <1>2, <1>3

\* Every step watches the files and the writers.
LEMMA Watched ==
  ASSUME Next
  PROVE  Observed /\ ((\E c \in Clients : Client(c)) \/ LiveSteps)
BY DEF Next, Loads, LiveSteps

LEMMA StoreStep ==
  ASSUME StoreInv, [Next]_vars
  PROVE  StoreInv'
<1>1. CASE Next
  <2>1. Shape' /\ \A c \in Clients : Local(c)'
    <3>1. CASE \E c \in Clients : Client(c)
      BY <3>1, LocalClient
    <3>2. CASE LiveSteps
      <4>1. UNCHANGED <<versions, run>> /\ DOMAIN live' = DOMAIN live
        BY <3>2 DEF LiveSteps, LoadHead, LoadVersion, LiveRestarts, Adopts, Fallback, store,
                    StoreInv, Shape, LiveFields
      <4> QED BY <4>1 DEF StoreInv, Shape, Local, At
    <3> QED BY <1>1, <3>1, <3>2, Watched
  <2>2. ASSUME ~raced' PROVE OneWriter' /\ QuietlyNext
    <3>1. Observed /\ ~raced /\ OneWriter'
      BY <1>1, <2>2, Watched, Single
    <3>2. Quietly /\ OneWriter
      BY <3>1 DEF StoreInv, Quietly
    <3> QED BY <1>1, <3>1, <3>2, Watched, StoreClient, StoreLive
  <2> QED BY <2>1, <2>2 DEF StoreInv, QuietlyNext
<1>2. CASE UNCHANGED vars
  BY <1>2 DEF vars, store, history, StoreInv, Shape, Local, OneWriter, HeadOK, LiveOK,
              Alone, At, Fresh, Readable
<1> QED BY <1>1, <1>2

LEMMA StoreInvariant == Spec => []StoreInv
BY StoreInit, StoreStep, PTL DEF Spec

\* Whatever number of clients there is and wherever they are killed, HEAD names a
\* version that can be read, unless two have written the store at the same time.
THEOREM HeadStaysReadable == Spec => []HeadReadable
<1>1. StoreInv => HeadReadable
  BY DEF StoreInv, HeadOK, HeadReadable
<1> QED BY <1>1, StoreInvariant, PTL

\* A version number stands for one config, so that the live engine, which compares
\* numbers only, runs what its version's file holds.
THEOREM VersionsIdentify == Spec => []VersionIdentifiesConfig
<1>1. StoreInv => VersionIdentifiesConfig
  <2> SUFFICES ASSUME StoreInv, ~raced, Readable(live.version)
               PROVE  live.config = versions[live.version].config
    BY DEF VersionIdentifiesConfig
  <2>1. live.version # 0
    BY StoreAssumption DEF Readable, Versions
  <2> QED BY <2>1 DEF StoreInv, HeadOK, LiveOK
<1> QED BY <1>1, StoreInvariant, PTL

\* A promotion replaces the version it was compared with and backtested on.
THEOREM PromotionsReplaceTheirParent == Spec => ChildReplacesParent
<1> DEFINE Kept == ~raced' /\ head' \notin beenHead \cup {0}
                     => versions[head'].parent = lastHead
<1>1. StoreInv /\ [Next]_vars => [Kept]_vars
  <2> SUFFICES ASSUME StoreInv, Next, ~raced', head' \notin beenHead \cup {0}
               PROVE  versions[head'].parent = lastHead
    BY DEF Kept
  <2>1. Observed /\ ~raced
    BY Watched, Single
  <2>2. Quietly
    BY <2>1 DEF StoreInv, Quietly
  <2>3. head' # head
    BY <2>2 DEF Quietly, HeadOK
  <2>4. PICK c \in Clients : Client(c)
    BY <2>3, Watched DEF LiveSteps, LoadHead, LoadVersion, LiveRestarts, store
  <2>5. SetHead(c)
    BY <2>3, <2>4 DEF Client, Begin, Kill, OpenStore, ReadHead, ReadBudget, Record, Count,
         Candidate, Backtest, Report, CheckLease, TakeLease, Cas, Release, Number,
         TruncateVersion, WriteVersion, TruncateHead, Rollback, store
  <2> QED BY <2>2, <2>5, NewHead DEF SetHead
<1> QED BY <1>1, StoreInvariant, PTL DEF Spec, ChildReplacesParent
=============================================================================

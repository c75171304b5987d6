------------------------- MODULE LiveEngine_proofs --------------------------
(***************************************************************************)
(* Theorems about LiveEngine, for every value of its constants: types, the *)
(* latch that the persisted kill-switch refines and that stops orders,     *)
(* flatten and sibling cancellation that leave nothing behind, one         *)
(* position at a time and its risk within the cap, no intent left in       *)
(* doubt, the daily count and what can overdraw it.  Each names the faults *)
(* it excludes.                                                            *)
(***************************************************************************)
EXTENDS LiveEngine, RiskGovernorLemmas, FiniteSetTheorems, SequenceTheorems

-----------------------------------------------------------------------------
(* Types.                                                                  *)

\* Days are numbered from 1; day 0 is the day of no bar.
LEMMA DayOfType ==
  ASSUME NEW b \in Nat
  PROVE  DayOf(b) \in Nat /\ (b > 0 => DayOf(b) > 0)
<1>1. BarsPerDay \in Nat /\ BarsPerDay > 0
  BY ClockAssumption
<1>2. (b - 1) \div BarsPerDay \in Int /\ (b - 1) \div BarsPerDay >= -1
  BY <1>1, Z3
<1>3. b > 0 => (b - 1) \div BarsPerDay >= 0
  BY <1>1, Z3
<1> QED
  BY <1>2, <1>3 DEF DayOf

\* What the broker's side contributes is a natural number.
LEMMA OpenTypes ==
  ASSUME TypeOK
  PROVE  /\ \A t \in Tickets : /\ Stop(t) \in Nat /\ Worst(t) \in Nat /\ Win(t) \in Nat
         /\ OpenStop \in Nat /\ OpenWorst \in Nat /\ OpenWin \in Nat
         /\ OpenTickets \subseteq Tickets /\ PendingTickets \subseteq Tickets
<1>1. \A t \in Tickets : Stop(t) \in Nat /\ Worst(t) \in Nat /\ Win(t) \in Nat
  BY DEF TypeOK, TicketType, Stop, Worst, Win
<1>2. 1 \in Tickets /\ 2 \in Tickets /\ 3 \in Tickets
  BY DEF Tickets
<1> QED
  BY <1>1, <1>2 DEF OpenStop, OpenWorst, OpenWin, OpenTickets, PendingTickets

\* A field of the day state, of a tick or of a ticket may take any value of its
\* type.
LEMMA DayUpdates ==
  ASSUME NEW d \in DayType, NEW n \in Nat
  PROVE  /\ \A k \in KillSwitchState : [d EXCEPT !.ks = k] \in DayType
         /\ [d EXCEPT !.requests = n] \in DayType
         /\ [d EXCEPT !.openRisk = n] \in DayType
         /\ [d EXCEPT !.trades = n] \in DayType
         /\ \A m \in Nat : [d EXCEPT !.requests = n, !.openRisk = m] \in DayType
         /\ \A m, l \in Nat :
              [d EXCEPT !.requests = n, !.trades = m, !.openRisk = l] \in DayType
         /\ \A b \in Int : [d EXCEPT !.b0 = b, !.reset = n] \in DayType
         /\ \A b \in Int, m \in Nat :
              [d EXCEPT !.b0 = b, !.trades = m, !.reset = n] \in DayType
  BY DEF DayType

LEMMA TickUpdates ==
  ASSUME NEW k \in TickType
  PROVE  /\ \A s \in SUBSET Tickets : [k EXCEPT !.pos = s] \in TickType
         /\ \A s \in SUBSET Tickets : [k EXCEPT !.pend = s] \in TickType
         /\ \A n \in Nat : [k EXCEPT !.live = n] \in TickType
         /\ \A n \in Nat : [k EXCEPT !.sent = n] \in TickType
         /\ \A n \in Nat : [k EXCEPT !.accrue = n] \in TickType
         /\ \A n \in Nat : [k EXCEPT !.bar = n] \in TickType
         /\ \A e \in Int : [k EXCEPT !.equity = e] \in TickType
         /\ \A e \in Int : [k EXCEPT !.balance = e] \in TickType
         /\ \A b \in BOOLEAN : [k EXCEPT !.filled = b] \in TickType
         /\ \A q \in Seq(LegType) : [k EXCEPT !.legs = q] \in TickType
         /\ \A l \in LegType : [k EXCEPT !.leg = l] \in TickType
  BY DEF TickType

\* NoTick, NoDay and Free are of their types.
LEMMA EmptyTypes == NoTick \in TickType /\ NoDay \in DayType /\ Free \in TicketType
<1>1. <<0, "none">> \in ClientIds
  BY DEF ClientIds
<1>2. NoLeg \in LegType /\ Free \in TicketType
  BY <1>1 DEF NoLeg, LegType, Free, TicketType
<1>3. NoTick \in TickType
  BY <1>2 DEF NoTick, TickType
<1>4. NoDay \in DayType
  BY DEF NoDay, DayType, KillSwitchState
<1> QED
  BY <1>2, <1>3, <1>4

LEMMA InitTyped == Init => TypeOK
<1> SUFFICES ASSUME Init PROVE TypeOK
  OBVIOUS
<1>1. PICK b \in StartBalances, l \in InitialLosses, n \in InitialTrades :
        /\ balance = b - l /\ opened = n
        /\ day \in {NoDay, [NoDay EXCEPT !.b0 = b, !.trades = n, !.reset = 1]}
  BY DEF Init
<1>2. b \in Nat /\ l \in Nat /\ n \in Nat
  BY MarketAssumption
<1>3. [NoDay EXCEPT !.b0 = b, !.trades = n, !.reset = 1] \in DayType
  <2>1. NoDay \in DayType /\ b \in Int
    BY <1>2, EmptyTypes
  <2> QED
    BY <1>2, <2>1 DEF DayType
<1>4. /\ bar = 1 /\ ticket = [t \in Tickets |-> Free] /\ executed = {}
      /\ intents = {} /\ halt = FALSE /\ worst = "armed" /\ pc = "off"
      /\ lastBar = 0 /\ tick = NoTick /\ starts = 0 /\ lapses = 0
  BY DEF Init
<1>5. ticket \in [Tickets -> TicketType] /\ tick \in TickType /\ day \in DayType
  BY <1>1, <1>3, <1>4, EmptyTypes
<1>6. pc \in Locations /\ worst \in KillSwitchState
  BY <1>4 DEF Locations, KillSwitchState
<1>7. bar \in Nat /\ balance \in Int /\ opened \in Nat /\ starts \in Nat /\ lastBar \in Nat
      /\ lapses \in Nat
  BY <1>1, <1>2, <1>4
<1>8. /\ executed \subseteq ClientIds /\ halt \in BOOLEAN
      /\ intents \subseteq [id: ClientIds, kind: {"market", "stop", "lost"}]
  BY <1>4
<1> QED
  BY <1>5, <1>6, <1>7, <1>8 DEF TypeOK

\* What a step may write into the day state, the tick and the tickets.
LEMMA SeverestTyped ==
  ASSUME NEW u, NEW f, NEW k \in KillSwitchState
  PROVE  /\ DeriveKillswitch(u, f) \in KillSwitchState
         /\ Severer(k, DeriveKillswitch(u, f)) \in KillSwitchState
  BY DEF DeriveKillswitch, Severer, KillSwitchState

LEMMA ResetTyped ==
  ASSUME NEW d \in DayType, NEW b \in Int, NEW r \in Nat
  PROVE  /\ ApplyDailyReset(d, b, r) \in DayType
         /\ [NoDay EXCEPT !.b0 = b, !.reset = r] \in DayType
<1>1. NoDay \in DayType
  BY EmptyTypes
<1> QED
  BY <1>1 DEF ApplyDailyReset, DayType, KillSwitchState

LEMMA EquityReadsTyped ==
  ASSUME TypeOK
  PROVE  \A e \in EquityReads : e \in Int
<1>1. OpenWin \in Nat /\ OpenWorst \in Nat /\ balance \in Int
  BY OpenTypes DEF TypeOK
<1>2. \A g \in Gaps : g \in Nat
  BY MarketAssumption
<1> QED
  BY <1>1, <1>2 DEF EquityReads

LEMMA OrderTyped ==
  ASSUME TypeOK
  PROVE  NewOrder \in TicketType /\ Opens(NewOrder) \in TicketType
<1>1. tick.leg.steps \in Nat /\ tick.leg.id \in ClientIds /\ tick.bar \in Nat
  BY DEF TypeOK, TickType, LegType
<1>2. StepStop \in Nat /\ Slip(StepStop) \in Nat
  BY MarketAssumption, DenomType
<1>3. tick.leg.steps * StepStop \in Nat /\ tick.leg.steps * Slip(StepStop) \in Nat
  BY <1>1, <1>2
<1>4. DayOf(tick.bar) \in Nat
  BY <1>1, DayOfType
<1>5. NewOrder \in TicketType
  BY <1>1, <1>3, <1>4 DEF NewOrder, TicketType
<1>6. ASSUME NEW t \in TicketType PROVE Opens(t) \in TicketType
  BY DEF Opens, TicketType
<1> QED
  BY <1>5, <1>6

LEMMA LegTyped ==
  ASSUME TypeOK, NEW n, NEW side \in {"one", "long", "short"}
  PROVE  LET d == EvaluateEntry(Signal(n), Account, day)
         IN  /\ d.risk \in Nat
             /\ [id |-> <<tick.bar, side>>, steps |-> d.steps] \in LegType
<1> DEFINE d == EvaluateEntry(Signal(n), Account, day)
<1>1. Account.equity \in Int /\ tick.bar \in Nat
  BY DEF TypeOK, TickType, Account
<1>2. Signal(n).stop \in Nat
  BY MarketAssumption DEF Signal
<1>3. d.steps \in Nat /\ d.risk \in Nat
  BY <1>1, <1>2, EntryTypes
<1>4. <<tick.bar, side>> \in ClientIds
  BY <1>1 DEF ClientIds
<1> HIDE DEF d
<1>5. [id |-> <<tick.bar, side>>, steps |-> d.steps] \in LegType
  BY <1>3, <1>4 DEF LegType
<1> QED
  BY <1>3, <1>5 DEF d

LEMMA ArmLegsTyped ==
  ASSUME TypeOK, NEW sides
  PROVE  ArmLegs(sides) \in Seq(LegType)
<1> DEFINE leg(side, n) ==
        LET d == EvaluateEntry(Signal(n), Account, day)
        IN  IF side \in sides /\ (d.approved /\ ArmDistance >= StopsLevel)
            THEN <<[id |-> <<tick.bar, side>>, steps |-> d.steps]>> ELSE <<>>
<1>1. ASSUME NEW n, NEW side \in {"one", "long", "short"}
      PROVE  leg(side, n) \in Seq(LegType)
  <2> DEFINE l == [id |-> <<tick.bar, side>>,
                   steps |-> EvaluateEntry(Signal(n), Account, day).steps]
  <2>1. l \in LegType
    BY <1>1, LegTyped
  <2>2. leg(side, n) = <<l>> \/ leg(side, n) = <<>>
    OBVIOUS
  <2> HIDE DEF l
  <2>3. <<l>> \in Seq(LegType) /\ <<>> \in Seq(LegType)
    BY <2>1
  <2> HIDE DEF leg
  <2> QED
    BY <2>2, <2>3
<1>2. ArmLegs(sides) = leg("long", 0) \o leg("short", Len(leg("long", 0)))
  BY DEF ArmLegs
<1> HIDE DEF leg
<1>3. leg("long", 0) \in Seq(LegType) /\ leg("short", Len(leg("long", 0))) \in Seq(LegType)
  BY <1>1
<1> QED
  BY <1>2, <1>3

LEMMA StartStopTyped ==
  TypeOK /\ (Start \/ Crash \/ PollHalt \/ IdlePoll \/ StartTick \/ StaleRead) => TypeOK'
<1> SUFFICES ASSUME TypeOK, Start \/ Crash \/ PollHalt \/ IdlePoll \/ StartTick \/ StaleRead
             PROVE  TypeOK'
  OBVIOUS
<1> USE EmptyTypes DEF TypeOK, Locations, market, broker, durable, process
<1>1. CASE Start
  <2>1. \A found, resting :
          Reconciled(found, resting) \subseteq [id: ClientIds, kind: {"market", "stop", "lost"}]
    BY DEF Reconciled
  <2> QED
    BY <1>1, <2>1 DEF Start
<1>2. CASE Crash \/ PollHalt
  BY <1>2 DEF Crash, PollHalt
<1>3. CASE IdlePoll
  BY <1>3 DEF IdlePoll, vars
<1>4. CASE StaleRead
  BY <1>4 DEF StaleRead
<1>5. CASE StartTick
  <2>1. PICK e \in EquityReads :
          tick' = [NoTick EXCEPT !.bar = bar, !.equity = e, !.balance = balance]
    BY <1>5 DEF StartTick
  <2>2. e \in Int
    BY EquityReadsTyped
  <2>3. tick' \in TickType
    BY <2>1, <2>2 DEF TickType
  <2> QED
    BY <1>5, <2>3 DEF StartTick
<1> QED
  BY <1>1, <1>2, <1>3, <1>4, <1>5

LEMMA DayTyped ==
  TypeOK /\ (LoadDay \/ Latch) => TypeOK'
<1> SUFFICES ASSUME TypeOK, LoadDay \/ Latch PROVE TypeOK'
  OBVIOUS
<1> USE DEF TypeOK, Locations, market, broker, durable, process
<1>1. tick.balance \in Int /\ tick.bar \in Nat /\ DayOf(tick.bar) \in Nat
  BY DayOfType DEF TickType
<1>2. CASE LoadDay
  <2>1. day' \in DayType
    BY <1>1, <1>2, ResetTyped DEF LoadDay
  <2>2. opened' \in Nat /\ worst' \in KillSwitchState
    BY <1>2 DEF LoadDay, KillSwitchState
  <2> QED
    BY <1>2, <2>1, <2>2 DEF LoadDay
<1>3. CASE Latch
  <2>1. day' \in DayType
    BY <1>3, LatchKeepsSeverity, DayUpdates DEF Latch, DayType
  <2>2. worst' \in KillSwitchState
    BY <1>3, SeverestTyped DEF Latch
  <2> QED
    BY <1>3, <2>1, <2>2 DEF Latch
<1> QED
  BY <1>2, <1>3

LEMMA FlattenTyped ==
  TypeOK /\ (ListPendings \/ ListPositions \/ FlattenDone) => TypeOK'
<1> SUFFICES ASSUME TypeOK, ListPendings \/ ListPositions \/ FlattenDone PROVE TypeOK'
  OBVIOUS
<1> USE DEF TypeOK, Locations, market, broker, durable, process
<1>1. CASE ListPendings
  <2>1. PICK q \in Reads(PendingTickets) : tick' = [tick EXCEPT !.pend = q]
    BY <1>1 DEF ListPendings
  <2>2. q \in SUBSET Tickets
    BY OpenTypes DEF Reads
  <2>3. tick' \in TickType
    BY <2>1, <2>2 DEF TickType
  <2> QED
    BY <1>1, <2>3 DEF ListPendings
<1>2. CASE ListPositions
  <2>1. PICK q \in Reads(OpenTickets) : tick' = [tick EXCEPT !.pos = q]
    BY <1>2 DEF ListPositions
  <2>2. q \in SUBSET Tickets
    BY OpenTypes DEF Reads
  <2>3. tick' \in TickType
    BY <2>1, <2>2 DEF TickType
  <2> QED
    BY <1>2, <2>3 DEF ListPositions
<1>3. CASE FlattenDone
  BY <1>3, EmptyTypes DEF FlattenDone
<1> QED
  BY <1>1, <1>2, <1>3

LEMMA TicketTyped ==
  ASSUME TypeOK, NEW t \in Tickets, Cancel(t) \/ Close(t) \/ ManageClose(t) \/ ManageMoveStop(t)
  PROVE  TypeOK'
<1> USE DEF TypeOK, Locations, market, broker, durable, process
<1>1. /\ [ticket EXCEPT ![t] = Free] \in [Tickets -> TicketType]
      /\ [ticket EXCEPT ![t].stop = 0] \in [Tickets -> TicketType]
  BY EmptyTypes DEF TicketType
<1>2. /\ tick.pend \in SUBSET Tickets /\ tick.pos \in SUBSET Tickets
      /\ tick.sent + 1 \in Nat
  BY DEF TickType
<1>3. \A b \in CloseResults(t) : b \in Int
  BY OpenTypes DEF CloseResults
<1>4. CASE Cancel(t)
  <2>1. ticket' \in [Tickets -> TicketType]
    BY <1>1, <1>4 DEF Cancel
  <2>2. tick' \in TickType
    BY <1>2, <1>4 DEF Cancel, TickType
  <2> QED
    BY <1>4, <2>1, <2>2 DEF Cancel
<1>5. CASE Close(t)
  <2>1. ticket' \in [Tickets -> TicketType] /\ balance' \in Int
    BY <1>1, <1>3, <1>5 DEF Close
  <2>2. tick' \in TickType
    BY <1>2, <1>5, TickUpdates DEF Close
  <2> QED
    BY <1>5, <2>1, <2>2 DEF Close
<1>6. CASE ManageClose(t)
  <2>1. ticket' \in [Tickets -> TicketType] /\ balance' \in Int
    BY <1>1, <1>3, <1>6 DEF ManageClose
  <2>2. tick' \in TickType
    BY <1>6, TickUpdates DEF ManageClose
  <2> QED
    BY <1>6, <2>1, <2>2 DEF ManageClose
<1>7. CASE ManageMoveStop(t)
  <2>1. ticket' \in [Tickets -> TicketType]
    BY <1>1, <1>7 DEF ManageMoveStop
  <2> QED
    BY <1>7, <2>1 DEF ManageMoveStop
<1> QED
  BY <1>4, <1>5, <1>6, <1>7

LEMMA BarTyped ==
  TypeOK /\ (ReadPositions \/ ReadPendings \/ NoSymbolMeta \/ RefreshRisk \/ ManageHold
             \/ BookManage \/ DecideNothing) => TypeOK'
<1> SUFFICES ASSUME TypeOK, ReadPositions \/ ReadPendings \/ NoSymbolMeta \/ RefreshRisk
                              \/ ManageHold \/ BookManage \/ DecideNothing
             PROVE  TypeOK'
  OBVIOUS
<1> USE DEF TypeOK, Locations, market, broker, durable, process
<1>1. day.requests + 1 \in Nat /\ day.requests + tick.sent \in Nat /\ tick.live \in Nat
  BY DEF DayType, TickType
<1>2. CASE ReadPositions
  <2>1. PICK q \in Reads(OpenTickets) :
          tick' = [tick EXCEPT !.pos = q, !.live = IF q = {} THEN 0 ELSE OpenStop]
    BY <1>2 DEF ReadPositions
  <2>2. q \in SUBSET Tickets /\ OpenStop \in Nat
    BY OpenTypes DEF Reads
  <2>3. tick' \in TickType
    BY <2>1, <2>2 DEF TickType
  <2> QED
    BY <1>2, <2>3 DEF ReadPositions
<1>3. CASE ReadPendings
  <2>1. tick' \in TickType
    <3>1. PICK s \in Reads(PendingTickets) : tick' = [tick EXCEPT !.pend = s]
      BY <1>3 DEF ReadPendings
    <3>2. s \in SUBSET Tickets
      BY <3>1, OpenTypes DEF Reads
    <3> QED
      BY <3>1, <3>2 DEF TickType
  <2> QED
    BY <1>3, <2>1 DEF ReadPendings
<1>4. CASE NoSymbolMeta \/ ManageHold \/ DecideNothing
  BY <1>4, EmptyTypes DEF NoSymbolMeta, ManageHold, DecideNothing
<1>5. CASE RefreshRisk
  <2>1. day' \in DayType
    BY <1>1, <1>5, DayUpdates DEF RefreshRisk
  <2> QED
    BY <1>5, <2>1 DEF RefreshRisk
<1>6. CASE BookManage
  <2>1. day' \in DayType
    BY <1>1, <1>6, DayUpdates DEF BookManage
  <2> QED
    BY <1>6, <2>1, EmptyTypes DEF BookManage
<1> QED
  BY <1>2, <1>3, <1>4, <1>5, <1>6

LEMMA EntryTyped ==
  TypeOK /\ (DecideEnter \/ DecideArm \/ Intend \/ AlreadyThere \/ SendRejected) => TypeOK'
<1> SUFFICES ASSUME TypeOK,
                    DecideEnter \/ DecideArm \/ Intend \/ AlreadyThere \/ SendRejected
             PROVE  TypeOK'
  OBVIOUS
<1> USE DEF TypeOK, Locations, market, broker, durable, process
<1>1. CASE DecideEnter
  <2> DEFINE n == Cardinality(tick.pend)
             d == EvaluateEntry(Signal(n), Account, day)
             l == [id |-> <<tick.bar, "one">>, steps |-> d.steps]
  <2>1. d.risk \in Nat /\ l \in LegType
    BY LegTyped
  <2>2. tick' = [tick EXCEPT !.accrue = d.risk, !.legs = <<l>>]
    BY <1>1 DEF DecideEnter
  <2> HIDE DEF d, l
  <2>3. <<l>> \in Seq(LegType)
    BY <2>1
  <2>4. tick' \in TickType
    BY <2>1, <2>2, <2>3 DEF TickType
  <2> QED
    BY <1>1, <2>4 DEF DecideEnter
<1>2. CASE DecideArm
  <2>1. tick' \in TickType
    BY <1>2, ArmLegsTyped, TickUpdates DEF DecideArm
  <2> QED
    BY <1>2, <2>1 DEF DecideArm
<1>3. CASE Intend
  <2> DEFINE l == Head(tick.legs)
             kd == IF EntryKind = "market" THEN "market" ELSE "stop"
  <2>1. /\ tick' = [tick EXCEPT !.leg = l, !.legs = Tail(tick.legs), !.sent = tick.sent + 1]
        /\ intents' = {i \in intents : i.id # l.id} \cup {[id |-> l.id, kind |-> kd]}
    BY <1>3 DEF Intend
  <2>2. tick.legs \in Seq(LegType) /\ tick.legs # <<>> /\ tick.sent + 1 \in Nat
    BY <1>3 DEF Intend, TickType
  <2>3. l \in LegType /\ Tail(tick.legs) \in Seq(LegType)
    BY <2>2
  <2> HIDE DEF l
  <2>4. tick' \in TickType
    BY <2>1, <2>2, <2>3 DEF TickType
  <2>5. intents' \subseteq [id: ClientIds, kind: {"market", "stop", "lost"}]
    BY <2>1, <2>3 DEF LegType
  <2> QED
    BY <1>3, <2>4, <2>5 DEF Intend
<1>4. CASE AlreadyThere
  BY <1>4, TickUpdates DEF AlreadyThere
<1>5. CASE SendRejected
  BY <1>5, TickUpdates DEF SendRejected
<1> QED
  BY <1>1, <1>2, <1>3, <1>4, <1>5

LEMMA SendTyped ==
  TypeOK /\ (SendAccepted \/ RecordSent \/ Confirm \/ Book) => TypeOK'
<1> SUFFICES ASSUME TypeOK, SendAccepted \/ RecordSent \/ Confirm \/ Book PROVE TypeOK'
  OBVIOUS
<1> USE DEF TypeOK, Locations, market, broker, durable, process
<1>1. tick.leg.id \in ClientIds
  BY DEF TickType, LegType
<1>2. CASE SendAccepted
  <2>1. ticket' \in [Tickets -> TicketType]
    BY <1>2, OrderTyped DEF SendAccepted, FreeTickets
  <2>2. executed' \subseteq ClientIds /\ opened' \in Nat
    BY <1>1, <1>2 DEF SendAccepted
  <2>3. tick' \in TickType
    BY <1>2, TickUpdates DEF SendAccepted
  <2> QED
    BY <1>2, <2>1, <2>2, <2>3 DEF SendAccepted
<1>3. CASE RecordSent
  BY <1>1, <1>3 DEF RecordSent
<1>4. CASE Confirm
  BY <1>4 DEF Confirm
<1>5. CASE Book
  <2>1. /\ day.requests + tick.sent \in Nat /\ day.trades + 1 \in Nat
        /\ day.openRisk + tick.accrue \in Nat
    BY DEF DayType, TickType
  <2>2. day' \in DayType
    BY <1>5, <2>1, DayUpdates DEF Book
  <2> QED
    BY <1>5, <2>2, EmptyTypes DEF Book
<1> QED
  BY <1>2, <1>3, <1>4, <1>5

LEMMA WorldTyped == TypeOK /\ World => TypeOK'
<1> SUFFICES ASSUME TypeOK, World PROVE TypeOK'
  OBVIOUS
<1> USE DEF TypeOK, Locations, market, broker, durable, process
<1>1. CASE NextBar \/ SetHalt \/ ClearHalt
  <2>1. CASE NextBar
    BY <2>1 DEF NextBar
  <2>2. CASE SetHalt \/ ClearHalt
    BY <2>2 DEF SetHalt, ClearHalt
  <2> QED
    BY <1>1, <2>1, <2>2
<1>2. ASSUME NEW t \in Tickets, FillPending(t) PROVE TypeOK'
  <2>1. Opens(ticket[t]) \in TicketType /\ ticket[t].id \in ClientIds
    BY DEF Opens, TicketType
  <2>2. ticket' \in [Tickets -> TicketType]
    BY <1>2, <2>1 DEF FillPending
  <2>3. executed' \subseteq ClientIds /\ opened' \in Nat
    BY <1>2, <2>1 DEF FillPending
  <2> QED
    BY <1>2, <2>2, <2>3 DEF FillPending
<1>3. ASSUME NEW t \in Tickets, StopOut(t) \/ TakeProfit(t) \/ ExpirePending(t) PROVE TypeOK'
  <2>1. [ticket EXCEPT ![t] = Free] \in [Tickets -> TicketType]
    BY EmptyTypes
  <2>2. ticket[t].stop \in Nat /\ ticket[t].slip \in Nat /\ ticket[t].win \in Nat
    BY DEF TicketType
  <2>3. \A g \in Gaps : g \in Nat
    BY MarketAssumption
  <2>4. balance' \in Int
    BY <1>3, <2>2, <2>3 DEF StopOut, TakeProfit, ExpirePending
  <2> QED
    BY <1>3, <2>1, <2>4 DEF StopOut, TakeProfit, ExpirePending
<1> QED
  BY <1>1, <1>2, <1>3 DEF World

LEMMA StepTyped == TypeOK /\ [Next]_vars => TypeOK'
<1>1. TypeOK /\ UNCHANGED vars => TypeOK'
  BY DEF TypeOK, vars, market, broker, durable, process
<1>2. TypeOK /\ Engine => TypeOK'
  BY StartStopTyped, DayTyped, FlattenTyped, TicketTyped, BarTyped, EntryTyped, SendTyped
     DEF Engine
<1> QED
  BY <1>1, <1>2, StartStopTyped, WorldTyped DEF Next

\* TypeOK, whatever the strategy emits and whichever faults occur.
THEOREM Typed == Spec => []TypeOK
  BY InitTyped, StepTyped, PTL DEF Spec

-----------------------------------------------------------------------------
(* The persisted kill-switch implements KillSwitch.                        *)

\* The inductive invariant of the refinement: a tick is about a bar, what is
\* latched is a row that exists, and the row that does not exist is ARMED.
LatchInv ==
  /\ TypeOK
  /\ bar > 0
  /\ pc = "load" => tick.bar > 0
  /\ pc = "latch" => day.reset > 0
  /\ day.reset = 0 => day.ks = "armed"

LEMMA LatchInit == Init => LatchInv /\ KS!Init
<1> SUFFICES ASSUME Init PROVE LatchInv /\ KS!Init
  OBVIOUS
<1>1. TypeOK
  BY InitTyped
<1>2. bar > 0 /\ pc = "off" /\ day.ks = "armed"
  <2>1. PICK b \in StartBalances, n \in InitialTrades :
          day \in {NoDay, [NoDay EXCEPT !.b0 = b, !.trades = n, !.reset = 1]}
    BY DEF Init
  <2>2. day.ks = "armed"
    <3>1. NoDay \in DayType /\ NoDay.ks = "armed"
      BY EmptyTypes DEF NoDay
    <3> QED
      BY <2>1, <3>1 DEF DayType
  <2>3. bar = 1 /\ pc = "off"
    BY DEF Init
  <2> QED
    BY <2>2, <2>3
<1>3. KS!Init
  BY <1>1 DEF TypeOK, DayType, KS!Init, KS!States, KillSwitchState
<1> QED
  BY <1>1, <1>2, <1>3 DEF LatchInv

\* What a step that is neither LoadDay nor Latch leaves alone.
Unlatching ==
  /\ day'.ks = day.ks /\ day'.reset = day.reset
  /\ bar' >= bar
  /\ pc' = "load" => (pc = "load" /\ tick' = tick) \/ tick'.bar = bar
  /\ pc' = "latch" => pc = "latch"

LEMMA OthersUnlatching ==
  ASSUME TypeOK, [Next]_vars, ~LoadDay, ~Latch
  PROVE  Unlatching
<1> USE DEF Unlatching, market, broker, durable, process
<1>0. bar \in Nat /\ day \in DayType /\ tick \in TickType
  BY DEF TypeOK
<1>1. CASE UNCHANGED vars
  BY <1>0, <1>1 DEF vars
<1>2. CASE Start \/ Crash \/ PollHalt \/ StaleRead \/ IdlePoll
  BY <1>0, <1>2 DEF Start, Crash, PollHalt, StaleRead, IdlePoll, vars, Running
<1>3. CASE StartTick
  <2>1. tick'.bar = bar
    BY <1>3 DEF StartTick, NoTick
  <2> QED
    BY <1>0, <1>3, <2>1 DEF StartTick
<1>4. CASE ListPendings \/ ListPositions \/ FlattenDone
  BY <1>0, <1>4 DEF ListPendings, ListPositions, FlattenDone
<1>5. CASE ReadPositions \/ ReadPendings \/ NoSymbolMeta \/ ManageHold \/ DecideNothing
  <2>1. day' = day /\ bar' = bar
    BY <1>5 DEF ReadPositions, ReadPendings, NoSymbolMeta, ManageHold, DecideNothing
  <2>2. pc' \in {"pendings", "siblings", "decide", "loop"}
    BY <1>5 DEF ReadPositions, ReadPendings, NoSymbolMeta, ManageHold, DecideNothing
  <2> QED
    BY <1>0, <2>1, <2>2
<1>6. CASE RefreshRisk \/ BookManage \/ Book
  <2>1. day'.ks = day.ks /\ day'.reset = day.reset
    BY <1>0, <1>6 DEF RefreshRisk, BookManage, Book, DayType
  <2>2. bar' = bar /\ pc' \in {"loop", "manage"}
    BY <1>6 DEF RefreshRisk, BookManage, Book
  <2> QED
    BY <1>0, <2>1, <2>2
<1>7. CASE DecideEnter \/ DecideArm \/ Intend \/ AlreadyThere
  <2>1. day' = day /\ bar' = bar
    BY <1>7 DEF DecideEnter, DecideArm, Intend, AlreadyThere
  <2>2. pc' \in {"place", "send", "confirm"}
    BY <1>7 DEF DecideEnter, DecideArm, Intend, AlreadyThere
  <2> QED
    BY <1>0, <2>1, <2>2
<1>8. CASE SendAccepted \/ SendRejected \/ RecordSent \/ Confirm
  <2>1. day' = day /\ bar' = bar
    BY <1>8 DEF SendAccepted, SendRejected, RecordSent, Confirm
  <2>2. pc' \in {"sent", "confirm", "book", "place"}
    BY <1>8 DEF SendAccepted, SendRejected, RecordSent, Confirm
  <2> QED
    BY <1>0, <2>1, <2>2
<1>9. ASSUME NEW t \in Tickets, Cancel(t) \/ Close(t) \/ ManageClose(t) \/ ManageMoveStop(t)
      PROVE  Unlatching
  <2>1. day' = day /\ bar' = bar
    BY <1>9 DEF Cancel, Close, ManageClose, ManageMoveStop
  <2>2. (pc' = pc /\ pc \notin {"load", "latch"}) \/ pc' = "bookmanage"
    BY <1>9 DEF Cancel, Close, ManageClose, ManageMoveStop
  <2> QED
    BY <1>0, <2>1, <2>2
<1>10. CASE NextBar \/ SetHalt \/ ClearHalt
  BY <1>0, <1>10 DEF NextBar, SetHalt, ClearHalt
<1>11. ASSUME NEW t \in Tickets,
              FillPending(t) \/ StopOut(t) \/ TakeProfit(t) \/ ExpirePending(t)
       PROVE  Unlatching
  BY <1>0, <1>11 DEF FillPending, StopOut, TakeProfit, ExpirePending
<1> QED
  BY <1>1, <1>2, <1>3, <1>4, <1>5, <1>6, <1>7, <1>8, <1>9, <1>10, <1>11
     DEF Next, Engine, World

LEMMA LatchStep ==
  LatchInv /\ [Next]_vars => LatchInv' /\ [KS!Next]_<<day.ks, day.reset>>
<1> SUFFICES ASSUME LatchInv, [Next]_vars
             PROVE  LatchInv' /\ [KS!Next]_<<day.ks, day.reset>>
  OBVIOUS
<1>1. TypeOK /\ TypeOK'
  BY StepTyped DEF LatchInv
<1>2. day \in DayType /\ day' \in DayType /\ bar \in Nat /\ bar' \in Nat
  BY <1>1 DEF TypeOK
<1>3. CASE ~LoadDay /\ ~Latch
  <2>1. Unlatching
    BY <1>1, <1>3, OthersUnlatching
  <2> QED
    BY <1>1, <1>2, <2>1 DEF LatchInv, Unlatching
<1>4. CASE LoadDay
  <2> DEFINE today == DayOf(tick.bar)
  <2>1. today \in Nat /\ today > 0 /\ bar' = bar /\ pc' = "latch"
    BY <1>1, <1>4, DayOfType DEF LatchInv, TypeOK, TickType, LoadDay, market
  <2>2. CASE day.reset = 0
    <3>1. day'.reset = today /\ day'.ks = "armed" /\ day.ks = "armed"
      BY <1>4, <2>2 DEF LoadDay, NoDay, LatchInv
    <3>2. KS!NewDay
      BY <2>1, <2>2, <3>1 DEF KS!NewDay
    <3> QED
      BY <1>1, <2>1, <3>1, <3>2 DEF LatchInv, KS!Next
  <2>3. CASE day.reset # 0 /\ today > day.reset
    <3>1. /\ day'.reset = today
          /\ day'.ks = IF day.ks = "flatten" THEN "flatten" ELSE "armed"
      BY <1>2, <1>4, <2>3 DEF LoadDay, ApplyDailyReset, DayType
    <3>2. KS!NewDay
      BY <2>1, <2>3, <3>1 DEF KS!NewDay
    <3> QED
      BY <1>1, <2>1, <3>1, <3>2 DEF LatchInv, KS!Next
  <2>4. CASE day.reset # 0 /\ ~(today > day.reset)
    <3>1. day' = day /\ day.reset \in Nat
      BY <1>2, <1>4, <2>4 DEF LoadDay, DayType
    <3> QED
      BY <1>1, <2>1, <2>4, <3>1 DEF LatchInv
  <2> QED
    BY <2>2, <2>3, <2>4
<1>5. CASE Latch
  <2> DEFINE k == EffectiveKillswitch(day, Account)
  <2>1. day'.ks = k /\ day'.reset = day.reset /\ day.reset > 0
    BY <1>2, <1>5 DEF Latch, LatchInv, DayType
  <2>2. k \in KillSwitchState
    BY <1>2, LatchKeepsSeverity DEF DayType
  <2>3. k = day.ks \/ Severity(k) > Severity(day.ks)
    BY DEF EffectiveKillswitch, Severity
  <2> HIDE DEF k
  <2>4. [KS!Next]_<<day.ks, day.reset>>
    BY <2>1, <2>2, <2>3
       DEF KS!Next, KS!Escalate, KS!Rank, KS!States, Severity, KillSwitchState
  <2>5. bar' = bar /\ pc' \notin {"load", "latch"}
    BY <1>5 DEF Latch, market
  <2> QED
    BY <1>1, <1>2, <2>1, <2>4, <2>5 DEF LatchInv
<1> QED
  BY <1>3, <1>4, <1>5

\* Within a day the persisted kill-switch only escalates, a new day clears it
\* once, FLATTEN is never cleared, whatever crashes, restarts or gets lost.
THEOREM LatchRefines == Spec => KillSwitchImplemented
<1>1. Spec => []LatchInv
  BY LatchInit, LatchStep, PTL DEF Spec
<1> QED
  BY <1>1, LatchInit, LatchStep, PTL DEF Spec, KillSwitchImplemented, KS!Spec

-----------------------------------------------------------------------------
(* Nothing is left behind: the flatten and the cancellation of siblings.   *)

\* The inductive invariant of both: a list of resting orders, once read, covers
\* all that rest, because orders may fill or expire but only `send' adds one;
\* and when nothing rests, a list of positions covers all that are open.
Covered ==
  /\ TypeOK
  /\ pc \in {"cancelling", "siblings"} => PendingTickets \subseteq tick.pend
  /\ pc = "manage" => PendingTickets = {}
  /\ pc = "closing" => PendingTickets = {} /\ OpenTickets \subseteq tick.pos
  /\ pc = "halted" => PendingTickets = {} /\ OpenTickets = {}

\* What the market does: orders fill, expire, positions close; none appears.
MarketMoves ==
  /\ PendingTickets' \subseteq PendingTickets
  /\ OpenTickets' \subseteq OpenTickets \cup PendingTickets
  /\ pc' = pc /\ tick' = tick

LEMMA WorldMoves ==
  ASSUME TypeOK, World
  PROVE  MarketMoves
<1> USE DEF MarketMoves, market, broker, durable, process, OpenTickets, PendingTickets
<1>0. ticket \in [Tickets -> TicketType]
  BY DEF TypeOK
<1>1. CASE NextBar \/ SetHalt \/ ClearHalt
  <2>1. ticket' = ticket /\ pc' = pc /\ tick' = tick
    BY <1>1 DEF NextBar, SetHalt, ClearHalt
  <2> QED
    BY <2>1
<1>2. ASSUME NEW t \in Tickets, FillPending(t) PROVE MarketMoves
  <2>1. /\ ticket' = [ticket EXCEPT ![t] = Opens(ticket[t])] /\ ticket[t].st = "pending"
        /\ pc' = pc /\ tick' = tick
    BY <1>2 DEF FillPending
  <2>2. Opens(ticket[t]).st = "open"
    BY <1>0 DEF Opens, TicketType
  <2> QED
    BY <1>0, <2>1, <2>2
<1>3. ASSUME NEW t \in Tickets, StopOut(t) \/ TakeProfit(t) \/ ExpirePending(t)
      PROVE  MarketMoves
  <2>1. ticket' = [ticket EXCEPT ![t] = Free] /\ pc' = pc /\ tick' = tick
    BY <1>3 DEF StopOut, TakeProfit, ExpirePending
  <2>2. Free.st = "free"
    BY DEF Free
  <2> QED
    BY <1>0, <2>1, <2>2
<1> QED
  BY <1>1, <1>2, <1>3 DEF World

LEMMA CoveredInit == Init => Covered
<1> SUFFICES ASSUME Init PROVE Covered
  OBVIOUS
<1>1. TypeOK /\ pc = "off"
  BY InitTyped DEF Init
<1> QED
  BY <1>1 DEF Covered

\* Where a query answers and a request is obeyed, each list read covers what it
\* lists, and each cancel and each close removes what it names.
LEMMA CoveredStep ==
  ASSUME ~ReadFails, ~RejectCloses, Covered, [Next]_vars
  PROVE  Covered'
<1>1. TypeOK /\ TypeOK'
  BY StepTyped DEF Covered
<1>2. ticket \in [Tickets -> TicketType] /\ tick \in TickType
  BY <1>1 DEF TypeOK
<1>3. (\A s : Reads(s) = {s}) /\ Accepts = {TRUE}
  BY DEF Reads, Accepts
<1>4. Free.st = "free"
  BY DEF Free
<1>5. ASSUME ticket' = ticket PROVE PendingTickets' = PendingTickets /\ OpenTickets' = OpenTickets
  BY <1>5 DEF PendingTickets, OpenTickets
<1>6. CASE UNCHANGED vars
  BY <1>1, <1>5, <1>6 DEF Covered, vars, process, broker
<1>7. CASE World
  <2>1. MarketMoves
    BY <1>1, <1>7, WorldMoves
  <2> QED
    BY <1>1, <2>1 DEF Covered, MarketMoves
<1>8. CASE ListPendings
  <2>1. tick' = [tick EXCEPT !.pend = PendingTickets] /\ pc' = "cancelling" /\ ticket' = ticket
    BY <1>3, <1>8 DEF ListPendings, broker
  <2>2. tick'.pend = PendingTickets
    BY <1>2, <2>1 DEF TickType
  <2> QED
    BY <1>1, <1>5, <2>1, <2>2 DEF Covered
<1>9. CASE ListPositions
  <2>1. tick' = [tick EXCEPT !.pos = OpenTickets] /\ pc' = "closing" /\ ticket' = ticket
    BY <1>3, <1>9 DEF ListPositions, broker
  <2>2. tick'.pos = OpenTickets
    BY <1>2, <2>1 DEF TickType
  <2>3. PendingTickets = {}
    BY <1>9 DEF ListPositions, Covered
  <2> QED
    BY <1>1, <1>5, <2>1, <2>2, <2>3 DEF Covered
<1>10. CASE FlattenDone
  <2>1. PendingTickets = {} /\ OpenTickets = {}
    BY <1>10 DEF FlattenDone, Covered
  <2>2. ticket' = ticket /\ pc' \in {"halted", "loop"}
    BY <1>10 DEF FlattenDone, broker
  <2> QED
    BY <1>1, <1>5, <2>1, <2>2 DEF Covered
<1>11. ASSUME NEW t \in Tickets, Cancel(t) PROVE Covered'
  <2>1. /\ ticket' = IF ticket[t].st = "pending" THEN [ticket EXCEPT ![t] = Free] ELSE ticket
        /\ pc' = pc /\ pc \in {"cancelling", "siblings"}
        /\ tick' = [tick EXCEPT !.pend = tick.pend \ {t}, !.sent = tick.sent + 1]
    BY <1>3, <1>11 DEF Cancel
  <2>2. tick'.pend = tick.pend \ {t}
    BY <1>2, <2>1 DEF TickType
  <2>3. PendingTickets' = PendingTickets \ {t}
    BY <1>2, <1>4, <2>1 DEF PendingTickets
  <2> QED
    BY <1>1, <2>1, <2>2, <2>3 DEF Covered
<1>12. ASSUME NEW t \in Tickets, Close(t) PROVE Covered'
  <2>1. /\ ticket' = IF ticket[t].st = "open" THEN [ticket EXCEPT ![t] = Free] ELSE ticket
        /\ pc' = pc /\ pc = "closing"
        /\ tick' = [tick EXCEPT !.pos = tick.pos \ {t}]
    BY <1>3, <1>12 DEF Close, durable
  <2>2. tick'.pos = tick.pos \ {t}
    BY <1>2, <2>1 DEF TickType
  <2>3. OpenTickets' = OpenTickets \ {t} /\ PendingTickets' \subseteq PendingTickets
    BY <1>2, <1>4, <2>1 DEF PendingTickets, OpenTickets
  <2> QED
    BY <1>1, <2>1, <2>2, <2>3 DEF Covered
<1>13. CASE ReadPendings
  <2>1. tick' = [tick EXCEPT !.pend = PendingTickets] /\ ticket' = ticket
        /\ pc' \in {"siblings", "decide"}
    BY <1>3, <1>13 DEF ReadPendings, broker
  <2>2. tick'.pend = PendingTickets
    BY <1>2, <2>1 DEF TickType
  <2> QED
    BY <1>1, <1>5, <2>1, <2>2 DEF Covered
<1>14. CASE RefreshRisk
  <2>1. PendingTickets = {} /\ ticket' = ticket /\ pc' = "manage"
    BY <1>14 DEF RefreshRisk, Covered, broker
  <2> QED
    BY <1>1, <1>5, <2>1 DEF Covered
<1>15. CASE Start \/ Crash \/ PollHalt \/ StartTick \/ LoadDay \/ Latch \/ ReadPositions
  BY <1>1, <1>15 DEF Start, Crash, PollHalt, StartTick, LoadDay, Latch, ReadPositions, Covered
<1>16. CASE IdlePoll \/ StaleRead
  BY <1>1, <1>16 DEF IdlePoll, StaleRead, Covered, vars, process
<1>17. CASE NoSymbolMeta \/ ManageHold \/ BookManage \/ DecideNothing \/ DecideEnter \/ DecideArm
  <2>1. pc' \in {"loop", "place"}
    BY <1>17 DEF NoSymbolMeta, ManageHold, BookManage, DecideNothing, DecideEnter, DecideArm
  <2> QED
    BY <1>1, <2>1 DEF Covered
<1>18. CASE Intend \/ AlreadyThere \/ SendAccepted \/ SendRejected \/ RecordSent \/ Confirm \/ Book
  <2>1. pc' \in {"send", "sent", "confirm", "place", "book", "loop"}
    BY <1>18 DEF Intend, AlreadyThere, SendAccepted, SendRejected, RecordSent, Confirm, Book
  <2> QED
    BY <1>1, <2>1 DEF Covered
<1>19. ASSUME NEW t \in Tickets, ManageClose(t) \/ ManageMoveStop(t) PROVE Covered'
  <2>1. pc' = "bookmanage"
    BY <1>19 DEF ManageClose, ManageMoveStop
  <2> QED
    BY <1>1, <2>1 DEF Covered
<1> QED
  BY <1>6, <1>7, <1>8, <1>9, <1>10, <1>11, <1>12, <1>13, <1>14, <1>15, <1>16, <1>17,
     <1>18, <1>19 DEF Next, Engine

LEMMA AlwaysCovered ==
  ASSUME ~ReadFails, ~RejectCloses
  PROVE  Spec => []Covered
<1>1. Covered /\ [Next]_vars => Covered'
  BY CoveredStep
<1> QED
  BY <1>1, CoveredInit, PTL DEF Spec

\* When a bar gets to manage a position, no order of ours rests, although legs
\* may fill while their siblings are being cancelled.
THEOREM SiblingsGone ==
  ASSUME ~ReadFails, ~RejectCloses
  PROVE  Spec => []SiblingsCancelled
<1>1. Covered => SiblingsCancelled
  BY DEF Covered, SiblingsCancelled
<1> QED
  BY <1>1, AlwaysCovered, PTL

\* After a sentinel the process returns with nothing open and nothing resting.
THEOREM HaltedFlat ==
  ASSUME ~ReadFails, ~RejectCloses
  PROVE  Spec => []HaltedMeansFlat
<1>1. Covered => HaltedMeansFlat
  BY DEF Covered, HaltedMeansFlat
<1> QED
  BY <1>1, AlwaysCovered, PTL

-----------------------------------------------------------------------------
(* Market entries: one position, and one execution per intent.             *)

\* The inductive invariant: with market entries nothing ever rests, so that a
\* position opens only by an order being sent; an order is on its way only from
\* a bar that listed no position, and it is the only order of that bar.
Single ==
  /\ TypeOK
  /\ PendingTickets = {}
  /\ \A t, u \in OpenTickets : t = u
  /\ pc = "pendings" /\ tick.pos = {} => OpenTickets = {}
  /\ pc \in {"decide", "send"} => OpenTickets = {}
  /\ pc = "place" => OpenTickets = {} /\ Len(tick.legs) = 1
  /\ pc \in {"send", "sent", "confirm"} => tick.legs = <<>>

LEMMA SingleInit == Init => Single
<1> SUFFICES ASSUME Init PROVE Single
  OBVIOUS
<1>1. TypeOK /\ pc = "off" /\ ticket = [t \in Tickets |-> Free] /\ Free.st = "free"
  BY InitTyped DEF Init, Free
<1>2. PendingTickets = {} /\ OpenTickets = {}
  BY <1>1 DEF PendingTickets, OpenTickets
<1> QED
  BY <1>1, <1>2 DEF Single

\* A bar sends its order into an account without a position, and that order is
\* then the only one.
LEMMA SendOpensOne ==
  ASSUME EntryKind = "market", Single, SendAccepted
  PROVE  /\ PendingTickets' = {}
         /\ \A t, u \in OpenTickets' : t = u
         /\ tick'.legs = <<>>
<1>1. ticket \in [Tickets -> TicketType] /\ tick \in TickType
  BY DEF Single, TypeOK
<1>2. OpenTickets = {} /\ PendingTickets = {} /\ tick.legs = <<>>
  BY DEF Single, SendAccepted
<1>3. PICK t \in FreeTickets : ticket' = [ticket EXCEPT ![t] = Opens(NewOrder)]
  BY DEF SendAccepted
<1>4. Opens(NewOrder).st = "open" /\ t \in Tickets
  BY <1>3 DEF Opens, NewOrder, FreeTickets
<1>5. OpenTickets' = {t} /\ PendingTickets' = {}
  BY <1>1, <1>2, <1>3, <1>4 DEF OpenTickets, PendingTickets
<1>6. tick'.legs = tick.legs
  BY <1>1 DEF SendAccepted, TickType
<1> QED
  BY <1>2, <1>5, <1>6

LEMMA SingleStep ==
  ASSUME EntryKind = "market", ~ReadFails, Single, [Next]_vars
  PROVE  Single'
<1>1. TypeOK /\ TypeOK'
  BY StepTyped DEF Single
<1>2. ticket \in [Tickets -> TicketType] /\ tick \in TickType
  BY <1>1 DEF TypeOK
<1>3. \A s : Reads(s) = {s}
  BY DEF Reads
<1>4. Free.st = "free"
  BY DEF Free
<1>5. ASSUME ticket' = ticket PROVE PendingTickets' = PendingTickets /\ OpenTickets' = OpenTickets
  BY <1>5 DEF PendingTickets, OpenTickets
<1>6. CASE UNCHANGED vars
  BY <1>1, <1>5, <1>6 DEF Single, vars, process, broker
<1>7. CASE World
  <2>1. MarketMoves
    BY <1>1, <1>7, WorldMoves
  <2>2. PendingTickets' = {} /\ OpenTickets' \subseteq OpenTickets
    BY <2>1 DEF MarketMoves, Single
  <2> QED
    BY <1>1, <2>1, <2>2 DEF Single, MarketMoves
<1>8. CASE ReadPositions
  <2>1. PICK q \in Reads(OpenTickets) :
          tick' = [tick EXCEPT !.pos = q, !.live = IF q = {} THEN 0 ELSE OpenStop]
    BY <1>8 DEF ReadPositions
  <2>2. tick'.pos = OpenTickets
    BY <1>2, <1>3, <2>1 DEF TickType
  <2>3. pc' = "pendings" /\ ticket' = ticket
    BY <1>8 DEF ReadPositions, broker
  <2> QED
    BY <1>1, <1>5, <2>2, <2>3 DEF Single
<1>9. CASE ReadPendings
  <2>1. pc = "pendings" /\ ticket' = ticket
        /\ pc' = IF tick.pos # {} THEN "siblings" ELSE "decide"
    BY <1>9 DEF ReadPendings, broker
  <2> QED
    BY <1>1, <1>5, <2>1 DEF Single
<1>10. CASE DecideEnter
  <2> DEFINE d == EvaluateEntry(Signal(Cardinality(tick.pend)), Account, day)
             l == [id |-> <<tick.bar, "one">>, steps |-> d.steps]
  <2>1. tick' = [tick EXCEPT !.accrue = d.risk, !.legs = <<l>>]
    BY <1>10 DEF DecideEnter
  <2>2. pc = "decide" /\ pc' = "place" /\ ticket' = ticket
    BY <1>10 DEF DecideEnter, broker
  <2> HIDE DEF d, l
  <2>3. tick'.legs = <<l>>
    BY <1>2, <2>1 DEF TickType
  <2>4. Len(tick'.legs) = 1
    BY <2>3
  <2> QED
    BY <1>1, <1>5, <2>2, <2>4 DEF Single
<1>11. CASE DecideArm
  BY <1>11 DEF DecideArm
<1>12. CASE Intend
  <2>1. /\ pc = "place" /\ pc' = "send" /\ ticket' = ticket
        /\ tick' = [tick EXCEPT !.leg = Head(tick.legs), !.legs = Tail(tick.legs),
                                !.sent = tick.sent + 1]
    BY <1>12 DEF Intend, broker
  <2>2. tick.legs \in Seq(LegType) /\ Len(tick.legs) = 1
    BY <1>2, <2>1 DEF Single, TickType
  <2>3. Tail(tick.legs) = <<>>
    <3>1. tick.legs # <<>>
      BY <1>12 DEF Intend
    <3>2. Tail(tick.legs) \in Seq(LegType) /\ Len(Tail(tick.legs)) = 0
      BY <2>2, <3>1, HeadTailProperties
    <3> QED
      BY <3>2, EmptySeq
  <2>4. tick'.legs = <<>>
    BY <1>2, <2>1, <2>3 DEF TickType
  <2> QED
    BY <1>1, <1>5, <2>1, <2>4 DEF Single
<1>13. CASE AlreadyThere \/ SendRejected
  <2>1. tick' = [tick EXCEPT !.filled = TRUE] \/ tick' = [tick EXCEPT !.filled = FALSE]
    BY <1>13 DEF AlreadyThere, SendRejected
  <2>2. tick'.legs = tick.legs
    BY <1>2, <2>1 DEF TickType
  <2>3. pc = "send" /\ pc' \in {"sent", "confirm"} /\ ticket' = ticket
    BY <1>13 DEF AlreadyThere, SendRejected, broker
  <2> QED
    BY <1>1, <1>5, <2>2, <2>3 DEF Single
<1>14. CASE SendAccepted
  <2>1. pc' = "sent"
    BY <1>14 DEF SendAccepted
  <2> QED
    BY <1>1, <1>14, <2>1, SendOpensOne DEF Single
<1>15. CASE RecordSent \/ Confirm
  <2>1. /\ ticket' = ticket /\ tick' = tick /\ pc \in {"sent", "confirm"}
        /\ pc' \in {"confirm", "book", "place"}
        /\ pc' = "place" => tick.legs # <<>>
    BY <1>15 DEF RecordSent, Confirm, broker
  <2> QED
    BY <1>1, <1>5, <2>1 DEF Single
<1>16. ASSUME NEW t \in Tickets, Cancel(t) \/ Close(t) \/ ManageClose(t) \/ ManageMoveStop(t)
       PROVE  Single'
  <2>1. /\ \/ ticket' = ticket
           \/ ticket' = [ticket EXCEPT ![t] = Free]
           \/ ticket[t].st = "open" /\ ticket' = [ticket EXCEPT ![t].stop = 0]
    BY <1>16 DEF Cancel, Close, ManageClose, ManageMoveStop
  <2>2. PendingTickets' = {} /\ OpenTickets' \subseteq OpenTickets
    BY <1>2, <1>4, <2>1 DEF Single, PendingTickets, OpenTickets, TicketType
  <2>3. pc' \in {"cancelling", "siblings", "closing", "bookmanage"}
    BY <1>16 DEF Cancel, Close, ManageClose, ManageMoveStop
  <2> QED
    BY <1>1, <2>2, <2>3 DEF Single
<1>17. CASE Start \/ Crash \/ PollHalt \/ StartTick \/ LoadDay
  <2>1. ticket' = ticket /\ pc' \in {"off", "loop", "flatten", "load", "latch"}
    BY <1>17 DEF Start, Crash, PollHalt, StartTick, LoadDay, broker
  <2> QED
    BY <1>1, <1>5, <2>1 DEF Single
<1>18. CASE Latch \/ ListPendings \/ ListPositions \/ FlattenDone
  <2>1. /\ ticket' = ticket
        /\ pc' \in {"flatten", "positions", "cancelling", "closing", "halted", "loop"}
    BY <1>18 DEF Latch, ListPendings, ListPositions, FlattenDone, broker
  <2> QED
    BY <1>1, <1>5, <2>1 DEF Single
<1>19. CASE NoSymbolMeta \/ RefreshRisk \/ ManageHold \/ BookManage \/ DecideNothing \/ Book
  <2>1. ticket' = ticket /\ pc' \in {"loop", "manage"}
    BY <1>19 DEF NoSymbolMeta, RefreshRisk, ManageHold, BookManage, DecideNothing, Book, broker
  <2> QED
    BY <1>1, <1>5, <2>1 DEF Single
<1>20. CASE IdlePoll \/ StaleRead
  BY <1>1, <1>5, <1>20 DEF IdlePoll, StaleRead, Single, vars, process, broker
<1> QED
  BY <1>6, <1>7, <1>8, <1>9, <1>10, <1>11, <1>12, <1>13, <1>14, <1>15, <1>16, <1>17,
     <1>18, <1>19, <1>20 DEF Next, Engine

LEMMA AlwaysSingle ==
  ASSUME EntryKind = "market", ~ReadFails
  PROVE  Spec => []Single
<1>1. Single /\ [Next]_vars => Single'
  BY SingleStep
<1> QED
  BY <1>1, SingleInit, PTL DEF Spec

\* With market entries the account never holds two positions, whatever closes
\* between two reads, whichever answers are lost and wherever the process dies.
THEOREM OnePositionHeld ==
  ASSUME EntryKind = "market", ~ReadFails
  PROVE  Spec => []OnePosition
<1>1. Single => OnePosition
  <2> SUFFICES ASSUME Single PROVE OnePosition
    OBVIOUS
  <2>1. CASE OpenTickets = {}
    BY <2>1, FS_EmptySet DEF OnePosition
  <2>2. CASE OpenTickets # {}
    <3>1. PICK t : OpenTickets = {t}
      BY <2>2 DEF Single
    <3>2. Cardinality(OpenTickets) = 1
      BY <3>1, FS_Singleton
    <3> QED
      BY <3>2 DEF OnePosition
  <2> QED
    BY <2>1, <2>2
<1> QED
  BY <1>1, AlwaysSingle, PTL

\* With market entries nothing ever rests, even if reads fail, so that only an
\* order being sent can open a position.
NothingRests == TypeOK /\ PendingTickets = {}

\* A step opens a position only by sending an order.
LEMMA OnlySendOpens ==
  ASSUME EntryKind = "market", NothingRests, [Next]_vars, NEW t \in Tickets
  PROVE  /\ ticket'[t].st # "pending"
         /\ ticket'[t].st = "open" /\ ticket[t].st # "open"
              => SendAccepted /\ ticket'[t].id = tick.leg.id
<1> DEFINE Kept == /\ ticket'[t].st # "pending"
                   /\ ticket'[t].st = "open" => ticket[t].st = "open"
<1>1. ticket \in [Tickets -> TicketType] /\ ticket[t].st # "pending"
  BY DEF NothingRests, TypeOK, PendingTickets
<1>2. Free.st = "free"
  BY DEF Free
<1>3. CASE SendAccepted
  <2>1. PICK u \in FreeTickets : ticket' = [ticket EXCEPT ![u] = Opens(NewOrder)]
    BY <1>3 DEF SendAccepted
  <2>2. /\ Opens(NewOrder).st = "open" /\ Opens(NewOrder).id = tick.leg.id
        /\ u \in Tickets
    BY <2>1 DEF Opens, NewOrder, FreeTickets
  <2> QED
    BY <1>1, <1>3, <2>1, <2>2
<1>4. ASSUME NEW u \in Tickets, Cancel(u) \/ Close(u) \/ ManageClose(u) \/ ManageMoveStop(u)
      PROVE  Kept
  <2>1. \/ ticket' = ticket
        \/ ticket' = [ticket EXCEPT ![u] = Free]
        \/ ticket[u].st = "open" /\ ticket' = [ticket EXCEPT ![u].stop = 0]
    BY <1>4 DEF Cancel, Close, ManageClose, ManageMoveStop
  <2>2. CASE u # t \/ ticket' = ticket
    BY <1>1, <2>1, <2>2
  <2>3. CASE u = t /\ ticket' = [ticket EXCEPT ![u] = Free]
    BY <1>1, <1>2, <2>3
  <2>4. CASE u = t /\ ticket[u].st = "open" /\ ticket' = [ticket EXCEPT ![u].stop = 0]
    <3>1. ticket[t] \in TicketType /\ ticket'[t] = [ticket[t] EXCEPT !.stop = 0]
      BY <1>1, <2>4
    <3>2. ticket'[t].st = ticket[t].st
      BY <3>1 DEF TicketType
    <3> QED
      BY <2>4, <3>2
  <2> QED
    BY <2>1, <2>2, <2>3, <2>4
<1>5. ASSUME World PROVE Kept
  <2>1. MarketMoves
    BY <1>5, WorldMoves DEF NothingRests
  <2> QED
    BY <2>1 DEF MarketMoves, NothingRests, OpenTickets, PendingTickets
<1>6. CASE UNCHANGED vars
  BY <1>1, <1>6 DEF vars, broker
<1>7. CASE Start \/ Crash \/ PollHalt \/ StartTick \/ StaleRead \/ LoadDay \/ Latch
  <2>1. ticket' = ticket
    BY <1>7 DEF Start, Crash, PollHalt, StartTick, StaleRead, LoadDay, Latch, broker
  <2> QED
    BY <1>1, <2>1
<1>8. CASE ListPendings \/ ListPositions \/ FlattenDone \/ ReadPositions \/ ReadPendings
  <2>1. ticket' = ticket
    BY <1>8 DEF ListPendings, ListPositions, FlattenDone, ReadPositions, ReadPendings, broker
  <2> QED
    BY <1>1, <2>1
<1>9. CASE NoSymbolMeta \/ RefreshRisk \/ ManageHold \/ BookManage \/ DecideNothing \/ Book
  <2>1. ticket' = ticket
    BY <1>9 DEF NoSymbolMeta, RefreshRisk, ManageHold, BookManage, DecideNothing, Book, broker
  <2> QED
    BY <1>1, <2>1
<1>10. CASE DecideEnter \/ DecideArm \/ Intend \/ AlreadyThere \/ SendRejected
  <2>1. ticket' = ticket
    BY <1>10 DEF DecideEnter, DecideArm, Intend, AlreadyThere, SendRejected, broker
  <2> QED
    BY <1>1, <2>1
<1>11. CASE RecordSent \/ Confirm \/ IdlePoll
  <2>1. ticket' = ticket
    BY <1>11 DEF RecordSent, Confirm, IdlePoll, vars, broker
  <2> QED
    BY <1>1, <2>1
<1> QED
  BY <1>1, <1>3, <1>4, <1>5, <1>6, <1>7, <1>8, <1>9, <1>10, <1>11 DEF Next, Engine

LEMMA NothingRestsStep ==
  ASSUME EntryKind = "market", NothingRests, [Next]_vars
  PROVE  NothingRests'
<1>1. \A t \in Tickets : ticket'[t].st # "pending"
  BY OnlySendOpens
<1>2. TypeOK'
  BY StepTyped DEF NothingRests
<1> QED
  BY <1>1, <1>2 DEF NothingRests, PendingTickets

-----------------------------------------------------------------------------
(* Nothing in doubt.                                                       *)

\* The inductive invariant: with market entries no record names a resting order,
\* so that reconciliation can only find an intent executed or hold.
DoubtInv ==
  /\ TypeOK
  /\ \A i \in intents : i.kind # "stop"
  /\ NothingInDoubt

Sending == {"send", "sent", "confirm"}

LEMMA DoubtInit == Init => DoubtInv
<1> SUFFICES ASSUME Init PROVE DoubtInv
  OBVIOUS
<1>1. TypeOK /\ intents = {}
  BY InitTyped DEF Init
<1> QED
  BY <1>1 DEF DoubtInv, NothingInDoubt

\* The steps that touch neither the intents nor a placement.
LEMMA OthersDoubtless ==
  ASSUME Engine \/ World \/ UNCHANGED vars, ~Intend, ~RecordSent, ~Confirm,
         ~AlreadyThere, ~SendAccepted, ~SendRejected
  PROVE  /\ intents' = intents
         /\ \/ pc \notin Sending \/ (pc' = pc /\ tick' = tick)
         /\ Running' => Running
<1> DEFINE Goal == /\ intents' = intents
                   /\ \/ pc \notin Sending \/ (pc' = pc /\ tick' = tick)
                   /\ Running' => Running
<1> USE DEF Sending, Running, durable, process
<1>1. CASE PollHalt \/ IdlePoll \/ StartTick \/ StaleRead \/ LoadDay \/ Latch
  BY <1>1, Zenon DEF PollHalt, IdlePoll, StartTick, StaleRead, LoadDay, Latch, vars
<1>2. CASE ListPendings \/ ListPositions \/ FlattenDone \/ ReadPositions \/ ReadPendings
  BY <1>2, Zenon DEF ListPendings, ListPositions, FlattenDone, ReadPositions, ReadPendings
<1>3. CASE NoSymbolMeta \/ RefreshRisk \/ ManageHold \/ BookManage \/ DecideNothing
  BY <1>3, Zenon DEF NoSymbolMeta, RefreshRisk, ManageHold, BookManage, DecideNothing
<1>4. CASE DecideEnter \/ DecideArm \/ Book
  BY <1>4, Zenon DEF DecideEnter, DecideArm, Book
<1>5. ASSUME NEW t \in Tickets, Cancel(t) \/ Close(t) \/ ManageClose(t) \/ ManageMoveStop(t)
      PROVE  Goal
  BY <1>5, Zenon DEF Cancel, Close, ManageClose, ManageMoveStop
<1>6. CASE NextBar \/ SetHalt \/ ClearHalt \/ UNCHANGED vars
  BY <1>6, Zenon DEF NextBar, SetHalt, ClearHalt, vars
<1>7. ASSUME NEW t \in Tickets, FillPending(t) \/ StopOut(t) \/ TakeProfit(t) \/ ExpirePending(t)
      PROVE  Goal
  BY <1>7, Zenon DEF FillPending, StopOut, TakeProfit, ExpirePending
<1> QED
  BY <1>1, <1>2, <1>3, <1>4, <1>5, <1>6, <1>7, Zenon DEF Engine, World

LEMMA DoubtStep ==
  ASSUME EntryKind = "market", DoubtInv, [Next]_vars
  PROVE  DoubtInv'
<1>1. TypeOK /\ TypeOK' /\ tick \in TickType
  BY StepTyped DEF DoubtInv, TypeOK
<1>2. (\A i \in intents : i.kind # "stop") /\ NothingInDoubt
  BY DEF DoubtInv
<1>3. CASE Start
  <2>1. PICK found \in Shown, resting \in Resting :
          /\ intents' = Reconciled(found, resting)
          /\ pc' = IF \E i \in intents : Ambiguous(i, found) THEN "off" ELSE "loop"
    BY <1>3 DEF Start
  <2>2. \A j \in intents' : j.kind = "lost"
    BY <2>1 DEF Reconciled
  <2>3. Running' => intents' = {}
    <3>1. SUFFICES ASSUME Running', NEW j \in intents' PROVE FALSE
      OBVIOUS
    <3>2. ~\E i \in intents : Ambiguous(i, found)
      BY <2>1, <3>1 DEF Running
    <3>3. PICK i \in intents : Unresolved(i, found, resting)
      BY <2>1, <3>1 DEF Reconciled
    <3>4. Ambiguous(i, found)
      BY <1>2, <3>3 DEF Unresolved, Ambiguous
    <3> QED
      BY <3>2, <3>4
  <2> QED
    BY <1>1, <2>2, <2>3 DEF DoubtInv, NothingInDoubt
<1>4. CASE Crash
  <2>1. intents' = intents /\ pc' = "off"
    BY <1>4 DEF Crash, durable
  <2> QED
    BY <1>1, <1>2, <2>1 DEF DoubtInv, NothingInDoubt, Running
<1>5. CASE Intend
  <2>1. /\ pc = "place" /\ pc' = "send" /\ tick'.leg = Head(tick.legs)
        /\ intents' = {i \in intents : i.id # Head(tick.legs).id} \cup
                        {[id |-> Head(tick.legs).id, kind |-> "market"]}
    BY <1>1, <1>5 DEF Intend, TickType
  <2>2. intents = {}
    BY <1>2, <2>1 DEF NothingInDoubt, Running
  <2>3. \A i \in intents' : i.kind = "market" /\ i.id = tick'.leg.id
    BY <2>1, <2>2
  <2> QED
    BY <1>1, <2>1, <2>3 DEF DoubtInv, NothingInDoubt
<1>6. CASE AlreadyThere \/ SendAccepted \/ SendRejected
  <2>1. /\ pc = "send" /\ pc' \in {"sent", "confirm"} /\ intents' = intents
        /\ \E f : tick' = [tick EXCEPT !.filled = f]
    BY <1>6, Zenon DEF AlreadyThere, SendAccepted, SendRejected, durable
  <2>2. tick'.leg = tick.leg
    BY <1>1, <2>1 DEF TickType
  <2> QED
    BY <1>1, <1>2, <2>1, <2>2 DEF DoubtInv, NothingInDoubt, Running
<1>7. CASE RecordSent
  <2>1. /\ pc = "sent" /\ pc' = "confirm" /\ tick' = tick
        /\ intents' = {i \in intents : i.id # tick.leg.id} \cup
                        {[id |-> tick.leg.id, kind |-> "lost"]}
    BY <1>7 DEF RecordSent
  <2>2. \A i \in intents' : i.kind # "stop" /\ i.id = tick.leg.id
    BY <1>2, <2>1 DEF NothingInDoubt, Running
  <2> QED
    BY <1>1, <2>1, <2>2 DEF DoubtInv, NothingInDoubt
<1>8. CASE Confirm
  <2>1. pc = "confirm" /\ intents' = {i \in intents : i.id # tick.leg.id}
    BY <1>8 DEF Confirm
  <2>2. intents' = {}
    BY <1>2, <2>1 DEF NothingInDoubt, Running
  <2> QED
    BY <1>1, <2>2 DEF DoubtInv, NothingInDoubt
<1>9. CASE /\ Engine \/ World \/ UNCHANGED vars
           /\ ~(Intend \/ RecordSent \/ Confirm)
           /\ ~(AlreadyThere \/ SendAccepted \/ SendRejected)
  <2>1. /\ intents' = intents
        /\ pc \notin Sending \/ (pc' = pc /\ tick' = tick)
        /\ Running' => Running
    BY <1>9, OthersDoubtless
  <2> QED
    BY <1>1, <1>2, <2>1 DEF DoubtInv, NothingInDoubt, Sending
<1> QED
  BY <1>3, <1>4, <1>5, <1>6, <1>7, <1>8, <1>9 DEF Next

\* With market entries and whatever faults, broker comments included, a running
\* process has no intent without an outcome but the one it is placing: ambiguity
\* keeps it from trading (reconcile_on_startup's flatten_required).
THEOREM NeverInDoubt ==
  ASSUME EntryKind = "market"
  PROVE  Spec => []NothingInDoubt
<1>1. Init => DoubtInv
  BY DoubtInit
<1>2. DoubtInv /\ [Next]_vars => DoubtInv'
  BY DoubtStep
<1>3. DoubtInv => NothingInDoubt
  BY DEF DoubtInv
<1> QED
  BY <1>1, <1>2, <1>3, PTL DEF Spec

-----------------------------------------------------------------------------
(* No order under a latched kill-switch or past the day's count.           *)

\* Where the engine is between an approval and the end of its placements.
Placing == {"place", "send", "sent", "confirm"}

\* The severest state any tick derived is persisted, and what was approved was
\* approved under a persisted state that allows orders.
OrderInv ==
  /\ LatchInv
  /\ Severity(worst) <= Severity(day.ks)
  /\ pc \in Placing => Severity(day.ks) < Severity("halted")

\* A ticket leaves the state "free" only when an order is sent.
LEMMA OnlySendOrders ==
  ASSUME TypeOK, [Next]_vars, NEW t \in Tickets, ticket[t].st = "free", ~SendAccepted
  PROVE  ticket'[t].st = "free"
<1>1. ticket \in [Tickets -> TicketType]
  BY DEF TypeOK
<1>2. Free.st = "free"
  BY DEF Free
<1>3. ASSUME NEW u \in Tickets, Cancel(u) \/ Close(u) \/ ManageClose(u) \/ ManageMoveStop(u)
      PROVE  ticket'[t].st = "free"
  <2>1. \/ ticket' = ticket
        \/ ticket' = [ticket EXCEPT ![u] = Free]
        \/ ticket[u].st = "open" /\ ticket' = [ticket EXCEPT ![u].stop = 0]
    BY <1>3 DEF Cancel, Close, ManageClose, ManageMoveStop
  <2> QED
    BY <1>1, <1>2, <2>1
<1>4. ASSUME NEW u \in Tickets,
             FillPending(u) \/ StopOut(u) \/ TakeProfit(u) \/ ExpirePending(u)
      PROVE  ticket'[t].st = "free"
  <2>1. /\ ticket[u].st # "free"
        /\ ticket' = [ticket EXCEPT ![u] = Opens(ticket[u])]
             \/ ticket' = [ticket EXCEPT ![u] = Free]
    BY <1>4 DEF FillPending, StopOut, TakeProfit, ExpirePending
  <2> QED
    BY <1>1, <1>2, <2>1
<1>5. CASE UNCHANGED vars \/ IdlePoll \/ Start \/ Crash \/ PollHalt \/ StartTick \/ StaleRead
  <2>1. UNCHANGED ticket
    BY <1>5, Zenon DEF vars, IdlePoll, Start, Crash, PollHalt, StartTick, StaleRead, broker
  <2> QED
    BY <2>1
<1>6. CASE LoadDay \/ Latch \/ ListPendings \/ ListPositions \/ FlattenDone
  BY <1>6 DEF LoadDay, Latch, ListPendings, ListPositions, FlattenDone, broker
<1>7. CASE ReadPositions \/ ReadPendings \/ NoSymbolMeta \/ RefreshRisk \/ ManageHold \/ BookManage
  <2>1. UNCHANGED broker
    BY <1>7, Zenon DEF ReadPositions, ReadPendings, NoSymbolMeta, RefreshRisk, ManageHold, BookManage
  <2> QED
    BY <2>1 DEF broker
<1>8. CASE DecideNothing \/ DecideEnter \/ DecideArm \/ Intend \/ AlreadyThere
  BY <1>8 DEF DecideNothing, DecideEnter, DecideArm, Intend, AlreadyThere, broker
<1>9. CASE SendRejected \/ RecordSent \/ Confirm \/ Book \/ NextBar \/ SetHalt \/ ClearHalt
  BY <1>9 DEF SendRejected, RecordSent, Confirm, Book, NextBar, SetHalt, ClearHalt, broker
<1> QED
  BY <1>3, <1>4, <1>5, <1>6, <1>7, <1>8, <1>9 DEF Next, Engine, World

\* Only the latch and the reset touch the severest state, and only an approval
\* starts a placement.
LEMMA OnlyDecideStarts ==
  ASSUME [Next]_vars, ~LoadDay, ~Latch, ~DecideEnter, ~DecideArm
  PROVE  worst' = worst /\ (pc' \in Placing => pc \in Placing)
<1> USE DEF Placing, durable, process
<1>1. CASE UNCHANGED vars \/ IdlePoll \/ Start \/ Crash \/ PollHalt \/ StartTick \/ StaleRead
  <2>1. CASE UNCHANGED vars \/ IdlePoll \/ StaleRead
    BY <2>1 DEF vars, IdlePoll, StaleRead
  <2>2. CASE Start \/ Crash \/ PollHalt \/ StartTick
    BY <2>2, Zenon DEF Start, Crash, PollHalt, StartTick
  <2> QED
    BY <1>1, <2>1, <2>2
<1>2. CASE ListPendings \/ ListPositions \/ FlattenDone
  BY <1>2 DEF ListPendings, ListPositions, FlattenDone
<1>3. CASE ReadPositions \/ ReadPendings \/ NoSymbolMeta \/ RefreshRisk \/ ManageHold \/ BookManage
  <2>1. CASE ReadPositions \/ ReadPendings \/ NoSymbolMeta
    BY <2>1, Zenon DEF ReadPositions, ReadPendings, NoSymbolMeta
  <2>2. CASE RefreshRisk \/ ManageHold \/ BookManage
    BY <2>2 DEF RefreshRisk, ManageHold, BookManage
  <2> QED
    BY <1>3, <2>1, <2>2
<1>4. CASE DecideNothing \/ Intend \/ AlreadyThere \/ SendAccepted
  BY <1>4 DEF DecideNothing, Intend, AlreadyThere, SendAccepted
<1>5. CASE SendRejected \/ RecordSent \/ Confirm \/ Book \/ NextBar \/ SetHalt \/ ClearHalt
  BY <1>5 DEF SendRejected, RecordSent, Confirm, Book, NextBar, SetHalt, ClearHalt
<1>6. ASSUME NEW t \in Tickets, Cancel(t) \/ Close(t) \/ ManageClose(t) \/ ManageMoveStop(t)
      PROVE  worst' = worst /\ (pc' \in Placing => pc \in Placing)
  BY <1>6 DEF Cancel, Close, ManageClose, ManageMoveStop
<1>7. ASSUME NEW t \in Tickets,
             FillPending(t) \/ StopOut(t) \/ TakeProfit(t) \/ ExpirePending(t)
      PROVE  worst' = worst /\ (pc' \in Placing => pc \in Placing)
  BY <1>7 DEF FillPending, StopOut, TakeProfit, ExpirePending
<1> QED
  BY <1>1, <1>2, <1>3, <1>4, <1>5, <1>6, <1>7 DEF Next, Engine, World

\* What is placed was approved, alone or as a leg of a pair, under a persisted
\* kill-switch short of HALTED.
LEMMA ApprovedUnlatched ==
  ASSUME TypeOK, NEW n, EvaluateEntry(Signal(n), Account, day).approved
  PROVE  Severity(day.ks) < Severity("halted")
<1>1. EffectiveKillswitch(day, Account) \notin {"halted", "flatten"}
  BY ApprovedEntry
<1>2. /\ day.ks \in KillSwitchState
      /\ EffectiveKillswitch(day, Account) \in KillSwitchState
      /\ Severity(EffectiveKillswitch(day, Account)) >= Severity(day.ks)
  BY LatchKeepsSeverity DEF TypeOK, DayType
<1> QED
  BY <1>1, <1>2 DEF KillSwitchState, Severity

LEMMA ArmedUnlatched ==
  ASSUME TypeOK, DecideArm
  PROVE  Severity(day.ks) < Severity("halted")
<1>1. PICK sides \in SUBSET {"long", "short"} : ArmLegs(sides) # <<>>
  BY DEF DecideArm
<1> DEFINE leg(side, n) ==
        LET d == EvaluateEntry(Signal(n), Account, day)
        IN  IF side \in sides /\ (d.approved /\ ArmDistance >= StopsLevel)
            THEN <<[id |-> <<tick.bar, side>>, steps |-> d.steps]>> ELSE <<>>
<1>2. ArmLegs(sides) = leg("long", 0) \o leg("short", Len(leg("long", 0)))
  BY DEF ArmLegs
<1>3. \E n, side : leg(side, n) # <<>>
  <2> HIDE DEF leg
  <2> SUFFICES ASSUME \A n, side : leg(side, n) = <<>> PROVE FALSE
    OBVIOUS
  <2>1. ArmLegs(sides) = <<>> \o <<>>
    BY <1>2
  <2> QED
    BY <1>1, <2>1
<1>4. \E n : EvaluateEntry(Signal(n), Account, day).approved
  BY <1>3
<1> QED
  BY <1>4, ApprovedUnlatched

LEMMA SeverityRange ==
  ASSUME NEW k \in KillSwitchState
  PROVE  Severity(k) \in 0 .. 3 /\ (Severity(k) = 0 => k = "armed")
         /\ (Severity(k) = 3 => k = "flatten")
  BY DEF KillSwitchState, Severity

LEMMA OrderInit == Init => OrderInv
<1> SUFFICES ASSUME Init PROVE OrderInv
  OBVIOUS
<1>1. LatchInv
  BY LatchInit
<1>2. worst = "armed" /\ pc = "off"
  BY DEF Init
<1>3. Severity(day.ks) \in 0 .. 3
  BY <1>1, SeverityRange DEF LatchInv, TypeOK, DayType
<1> QED
  BY <1>1, <1>2, <1>3 DEF OrderInv, Placing, Severity

LEMMA OrderStep == OrderInv /\ [Next]_vars => OrderInv'
<1> SUFFICES ASSUME OrderInv, [Next]_vars PROVE OrderInv'
  OBVIOUS
<1>1. LatchInv /\ LatchInv' /\ TypeOK /\ TypeOK'
  BY LatchStep DEF OrderInv, LatchInv
<1>2. /\ day \in DayType /\ day' \in DayType
      /\ worst \in KillSwitchState /\ worst' \in KillSwitchState
      /\ day.ks \in KillSwitchState /\ day'.ks \in KillSwitchState
  BY <1>1 DEF TypeOK, DayType
<1>3. CASE ~LoadDay /\ ~Latch
  <2>1. day'.ks = day.ks
    BY <1>1, <1>3, OthersUnlatching DEF Unlatching
  <2>2. CASE ~DecideEnter /\ ~DecideArm
    BY <1>1, <1>3, <2>1, <2>2, OnlyDecideStarts DEF OrderInv
  <2>3. CASE DecideEnter \/ DecideArm
    <3>1. worst' = worst
      BY <2>3, Zenon DEF DecideEnter, DecideArm, durable
    <3>2. Severity(day.ks) < Severity("halted")
      <4>1. DecideEnter => EvaluateEntry(Signal(Cardinality(tick.pend)), Account, day).approved
        BY DEF DecideEnter
      <4> QED
        BY <1>1, <2>3, <4>1, ApprovedUnlatched, ArmedUnlatched
    <3> QED
      BY <1>1, <2>1, <3>1, <3>2 DEF OrderInv
  <2> QED
    BY <2>2, <2>3
<1>4. CASE LoadDay
  <2>1. pc' = "latch"
    BY <1>4 DEF LoadDay
  <2>2. Severity(worst') <= Severity(day'.ks)
    <3>1. CASE day.reset = 0
      <4>1. worst' = worst /\ day'.ks = "armed" /\ day.ks = "armed"
        BY <1>1, <1>4, <3>1 DEF LoadDay, NoDay, LatchInv
      <4> QED
        BY <4>1 DEF OrderInv
    <3>2. CASE day.reset # 0 /\ DayOf(tick.bar) > day.reset
      <4>1. /\ worst' = IF worst = "flatten" THEN "flatten" ELSE "armed"
            /\ day'.ks = IF day.ks = "flatten" THEN "flatten" ELSE "armed"
        BY <1>2, <1>4, <3>2 DEF LoadDay, ApplyDailyReset, DayType
      <4> QED
        BY <1>2, <4>1 DEF OrderInv, Severity, KillSwitchState
    <3>3. CASE day.reset # 0 /\ ~(DayOf(tick.bar) > day.reset)
      BY <1>4, <3>3 DEF LoadDay, OrderInv
    <3> QED
      BY <3>1, <3>2, <3>3
  <2> QED
    BY <1>1, <2>1, <2>2 DEF OrderInv, Placing
<1>5. CASE Latch
  <2> DEFINE derived == DeriveKillswitch(LossUsed(day.b0, tick.equity), TRUE)
  <2>1. worst' = Severer(worst, derived)
        /\ day'.ks = IF Severity(day.ks) >= Severity(derived) THEN day.ks ELSE derived
    BY <1>2, <1>5 DEF Latch, EffectiveKillswitch, Account, DayType
  <2>2. derived \in KillSwitchState
    BY DEF DeriveKillswitch, KillSwitchState
  <2>3. pc' \notin Placing
    BY <1>5 DEF Latch, Placing
  <2> HIDE DEF derived
  <2>4. Severity(worst') <= Severity(day'.ks)
    BY <1>2, <2>1, <2>2, SeverityRange DEF OrderInv, Severer
  <2> QED
    BY <1>1, <2>3, <2>4 DEF OrderInv
<1> QED
  BY <1>3, <1>4, <1>5

LEMMA AlwaysOrdered == Spec => []OrderInv
  BY OrderInit, OrderStep, PTL DEF Spec

\* Once a bar of the day has read an equity that calls for HALTED or FLATTEN no
\* order is sent until the daily reset, nor after a FLATTEN ever, whatever the
\* strategy emits and whatever crashes, restarts, fails or gets lost.
THEOREM LatchStopsOrders ==
  Spec => [][(\E t \in Tickets : ticket[t].st = "free" /\ ticket'[t].st # "free")
               => Severity(worst) < Severity("halted")]_vars
<1>1. OrderInv /\ [Next]_vars
        => [(\E t \in Tickets : ticket[t].st = "free" /\ ticket'[t].st # "free")
               => Severity(worst) < Severity("halted")]_vars
  <2> SUFFICES ASSUME OrderInv, [Next]_vars,
                      NEW t \in Tickets, ticket[t].st = "free", ticket'[t].st # "free"
               PROVE  Severity(worst) < Severity("halted")
    OBVIOUS
  <2>1. SendAccepted
    BY OnlySendOrders DEF OrderInv, LatchInv
  <2>2. Severity(day.ks) < Severity("halted")
    BY <2>1 DEF OrderInv, SendAccepted, Placing
  <2>3. Severity(worst) \in 0 .. 3 /\ Severity(day.ks) \in 0 .. 3
    BY SeverityRange DEF OrderInv, LatchInv, TypeOK, DayType
  <2> QED
    BY <2>2, <2>3 DEF OrderInv, Severity
<1> QED
  BY <1>1, AlwaysOrdered, PTL DEF Spec

\* The inductive invariant of the daily count: with market entries, what was opened
\* since the reset is what the day state counts, one more from the moment the order
\* was filled until it is booked, and one more for each lapse.
Dated == Placing \union {"latch", "positions", "pendings", "decide", "book"}

Unbooked == IF pc \in {"sent", "confirm", "book"} /\ tick.filled THEN 1 ELSE 0

CountInv ==
  /\ OrderInv
  /\ PendingTickets = {}
  /\ day.reset = 0 => opened = 0
  /\ pc \in Dated => day.reset > 0
  /\ opened <= day.trades + Unbooked + lapses
  /\ pc \in {"place", "send"} => day.trades < MaxTradesPerDay
  /\ pc = "place" => Len(tick.legs) = 1
  /\ pc \in {"send", "sent", "confirm"} => tick.legs = <<>>

\* A step outside a placement that leaves the count and the day's date alone.
Uncounted ==
  /\ opened' = opened /\ lapses' = lapses
  /\ day'.trades = day.trades /\ day'.reset = day.reset
  /\ pc' \in Dated => pc \in Dated
  /\ pc \notin {"place", "send", "sent", "confirm", "book"}
  /\ pc' \notin {"place", "send", "sent", "confirm", "book"}

LEMMA CountInit == Init => CountInv
<1> SUFFICES ASSUME Init PROVE CountInv
  OBVIOUS
<1>1. OrderInv /\ PendingTickets = {} /\ pc = "off"
  <2>1. OrderInv /\ Single
    BY OrderInit, SingleInit
  <2>2. pc = "off"
    BY DEF Init
  <2> QED
    BY <2>1, <2>2 DEF Single
<1>2. PICK b \in StartBalances, l \in InitialLosses, n \in InitialTrades :
        /\ opened = n
        /\ day \in {NoDay, [NoDay EXCEPT !.b0 = b, !.trades = n, !.reset = 1]}
        /\ day.reset = 0 => l = 0 /\ n = 0
  BY Zenon DEF Init
<1>3. n \in Nat /\ NoDay \in DayType /\ NoDay.reset = 0 /\ NoDay.trades = 0
  BY EmptyTypes, MarketAssumption DEF NoDay
<1>4. (day.reset = 0 => opened = 0) /\ opened <= day.trades + 0 + 0
  <2>1. CASE day = NoDay
    BY <1>2, <1>3, <2>1
  <2>2. CASE day = [NoDay EXCEPT !.b0 = b, !.trades = n, !.reset = 1]
    <3>1. day.trades = n /\ day.reset = 1
      BY <1>3, <2>2 DEF DayType
    <3> QED
      BY <1>2, <1>3, <3>1
  <2> QED
    BY <1>2, <2>1, <2>2
<1>5. Unbooked = 0 /\ pc \notin Dated /\ lapses = 0
  BY <1>1 DEF Unbooked, Dated, Placing, Init
<1> QED
  BY <1>1, <1>4, <1>5 DEF CountInv

LEMMA UncountedStep ==
  ASSUME CountInv, OrderInv', PendingTickets' = {}, Uncounted
  PROVE  CountInv'
<1>1. opened \in Nat /\ lapses \in Nat /\ day \in DayType /\ day' \in DayType
  BY DEF CountInv, OrderInv, LatchInv, TypeOK
<1>2. opened <= day.trades + lapses
  BY <1>1 DEF CountInv, Unbooked, DayType, Uncounted
<1>3. opened' <= day'.trades + Unbooked' + lapses'
  BY <1>1, <1>2 DEF Uncounted, Unbooked, DayType
<1> QED
  BY <1>3 DEF CountInv, Uncounted

\* The steps outside a placement.
LEMMA OthersUncounted ==
  ASSUME TypeOK, Engine \/ Start, pc \notin {"load", "place", "send", "sent", "confirm", "book"},
         ~DecideEnter, ~DecideArm
  PROVE  Uncounted
<1> USE DEF Uncounted, Dated, Placing
<1>0. day \in DayType
  BY DEF TypeOK
<1>1. CASE Start
  <2>1. UNCHANGED <<broker, day>> /\ pc' \in {"off", "loop"}
    BY <1>1, Zenon DEF Start
  <2> QED
    BY <2>1 DEF broker
<1>2. CASE PollHalt \/ StartTick \/ StaleRead \/ IdlePoll
  <2>1. UNCHANGED <<broker, day>> /\ pc' \in {"flatten", "load", "loop"}
    BY <1>2, Zenon DEF PollHalt, StartTick, StaleRead, IdlePoll, vars, durable, process
  <2> QED
    BY <2>1 DEF broker
<1>3. CASE Latch
  <2>1. UNCHANGED broker /\ pc = "latch" /\ pc' \in {"flatten", "positions"}
        /\ day' = [day EXCEPT !.ks = EffectiveKillswitch(day, Account)]
    BY <1>3, Zenon DEF Latch
  <2> QED
    BY <1>0, <2>1 DEF broker, DayType
<1>4. CASE ListPendings \/ ListPositions \/ FlattenDone
  <2>1. UNCHANGED <<broker, day>> /\ pc' \in {"cancelling", "closing", "halted", "loop"}
    BY <1>4, Zenon DEF ListPendings, ListPositions, FlattenDone, durable
  <2> QED
    BY <2>1 DEF broker
<1>5. CASE ReadPositions \/ ReadPendings
  <2>1. UNCHANGED <<broker, day>> /\ pc \in {"positions", "pendings"}
        /\ pc' \in {"pendings", "siblings", "decide"}
    BY <1>5, Zenon DEF ReadPositions, ReadPendings, durable
  <2> QED
    BY <2>1 DEF broker
<1>6. CASE NoSymbolMeta \/ ManageHold \/ DecideNothing
  <2>1. UNCHANGED <<broker, day>> /\ pc' = "loop"
    BY <1>6, Zenon DEF NoSymbolMeta, ManageHold, DecideNothing, durable
  <2> QED
    BY <2>1 DEF broker
<1>7. CASE RefreshRisk \/ BookManage
  <2>1. UNCHANGED broker /\ pc' \in {"manage", "loop"}
        /\ \E n, r : day' = [day EXCEPT !.requests = n, !.openRisk = r]
    BY <1>7, Zenon DEF RefreshRisk, BookManage
  <2> QED
    BY <1>0, <2>1 DEF broker, DayType
<1>8. ASSUME NEW t \in Tickets, Cancel(t) \/ Close(t) \/ ManageClose(t) \/ ManageMoveStop(t)
      PROVE  Uncounted
  <2>1. /\ opened' = opened /\ lapses' = lapses /\ UNCHANGED durable
        /\ (pc' = pc /\ pc \in {"cancelling", "siblings", "closing"}) \/ pc' = "bookmanage"
    BY <1>8, Zenon DEF Cancel, Close, ManageClose, ManageMoveStop
  <2> QED
    BY <2>1 DEF durable
<1>9. CASE LoadDay \/ Intend \/ AlreadyThere \/ SendAccepted \/ SendRejected \/ RecordSent
           \/ Confirm \/ Book
  BY <1>9 DEF LoadDay, Intend, AlreadyThere, SendAccepted, SendRejected, RecordSent, Confirm, Book
<1> QED
  BY <1>1, <1>2, <1>3, <1>4, <1>5, <1>6, <1>7, <1>8, <1>9 DEF Engine

\* The steps of a placement.
LEMMA PlacingSteps ==
  ASSUME Engine \/ Start, pc \in {"load", "place", "send", "sent", "confirm", "book"}
  PROVE  LoadDay \/ Intend \/ AlreadyThere \/ SendAccepted \/ SendRejected \/ RecordSent
           \/ Confirm \/ Book
<1>1. ~(Start \/ PollHalt \/ IdlePoll \/ StartTick \/ StaleRead \/ Latch)
  BY Zenon DEF Start, Running, PollHalt, IdlePoll, StartTick, StaleRead, Latch
<1>2. ~(ListPendings \/ ListPositions \/ FlattenDone \/ ReadPositions \/ ReadPendings)
  BY Zenon DEF ListPendings, ListPositions, FlattenDone, ReadPositions, ReadPendings
<1>3. ~(NoSymbolMeta \/ RefreshRisk \/ ManageHold \/ BookManage \/ DecideNothing
          \/ DecideEnter \/ DecideArm)
  BY Zenon DEF NoSymbolMeta, RefreshRisk, ManageHold, BookManage, DecideNothing, DecideEnter,
     DecideArm
<1>4. ~\E t \in Tickets : Cancel(t) \/ Close(t) \/ ManageClose(t) \/ ManageMoveStop(t)
  BY Zenon DEF Cancel, Close, ManageClose, ManageMoveStop
<1> QED
  BY <1>1, <1>2, <1>3, <1>4 DEF Engine

LEMMA CountStep ==
  ASSUME EntryKind = "market", CountInv, [Next]_vars
  PROVE  CountInv'
<1>1. OrderInv /\ OrderInv' /\ TypeOK /\ TypeOK'
  BY OrderStep DEF CountInv, OrderInv, LatchInv
<1>2. PendingTickets = {} /\ PendingTickets' = {}
  BY <1>1, NothingRestsStep DEF CountInv, NothingRests
<1>3. /\ day \in DayType /\ tick \in TickType /\ day' \in DayType /\ tick' \in TickType
      /\ opened \in Nat /\ opened' \in Nat /\ lapses \in Nat /\ lapses' \in Nat
      /\ day.trades \in Nat /\ day'.trades \in Nat
  BY <1>1 DEF TypeOK, DayType
<1>4. /\ opened <= day.trades + 1 + lapses
      /\ Unbooked = 0 => opened <= day.trades + lapses
  BY <1>3 DEF CountInv, Unbooked
<1>5. CASE World \/ UNCHANGED vars
  <2>1. UNCHANGED <<opened, lapses, day, process>>
    <3>1. ASSUME NEW t \in Tickets, FillPending(t) PROVE FALSE
      BY <1>2, <3>1 DEF FillPending, PendingTickets
    <3>2. CASE NextBar \/ SetHalt \/ ClearHalt \/ UNCHANGED vars
      BY <3>2 DEF NextBar, SetHalt, ClearHalt, vars, broker, durable
    <3>3. ASSUME NEW t \in Tickets, StopOut(t) \/ TakeProfit(t) \/ ExpirePending(t)
          PROVE  UNCHANGED <<opened, lapses, day, process>>
      BY <3>3 DEF StopOut, TakeProfit, ExpirePending, durable
    <3> QED
      BY <1>5, <3>1, <3>2, <3>3 DEF World
  <2> QED
    BY <1>1, <1>2, <2>1 DEF CountInv, Unbooked, process
<1>6. CASE (Engine \/ Start) /\ pc \notin {"load", "place", "send", "sent", "confirm", "book"}
           /\ ~DecideEnter
  <2>1. ~DecideArm
    BY DEF DecideArm
  <2> QED
    BY <1>1, <1>2, <1>6, <2>1, OthersUncounted, UncountedStep
<1>7. CASE LoadDay
  <2>1. pc = "load" /\ pc' = "latch" /\ Unbooked = 0 /\ Unbooked' = 0
    BY <1>7 DEF LoadDay, Unbooked
  <2>2. DayOf(tick.bar) \in Nat /\ DayOf(tick.bar) > 0
    BY <1>1, <2>1, DayOfType DEF OrderInv, LatchInv, TypeOK, TickType
  <2>3. opened' <= day'.trades + lapses' /\ day'.reset > 0
    <3>1. CASE day.reset = 0
      <4>1. day'.reset = DayOf(tick.bar) /\ opened' = opened
        BY <1>7, <3>1 DEF LoadDay, NoDay
      <4> QED
        BY <1>3, <2>2, <3>1, <4>1 DEF CountInv
    <3>2. CASE day.reset # 0 /\ DayOf(tick.bar) > day.reset
      <4>1. opened' = 0 /\ day' = ApplyDailyReset(day, tick.balance, DayOf(tick.bar))
        BY <1>7, <3>2 DEF LoadDay
      <4>2. day'.reset = DayOf(tick.bar)
        BY <1>3, <4>1 DEF ApplyDailyReset, DayType
      <4> QED
        BY <1>3, <2>2, <4>1, <4>2
    <3>3. CASE day.reset # 0 /\ ~(DayOf(tick.bar) > day.reset)
      <4>1. opened' = opened /\ lapses' = lapses /\ day' = day /\ day.reset \in Nat
        BY <1>3, <1>7, <3>3 DEF LoadDay, DayType
      <4> QED
        BY <1>4, <2>1, <3>3, <4>1
    <3> QED
      BY <3>1, <3>2, <3>3
  <2> QED
    BY <1>1, <1>2, <1>3, <2>1, <2>3 DEF CountInv
<1>8. CASE DecideEnter
  <2> DEFINE d == EvaluateEntry(Signal(Cardinality(tick.pend)), Account, day)
             l == [id |-> <<tick.bar, "one">>, steps |-> d.steps]
  <2>1. /\ tick' = [tick EXCEPT !.accrue = d.risk, !.legs = <<l>>]
        /\ pc = "decide" /\ pc' = "place" /\ UNCHANGED <<broker, durable>>
    BY <1>8 DEF DecideEnter
  <2>2. day.trades < MaxTradesPerDay
    <3>1. d.approved
      BY <1>8 DEF DecideEnter
    <3> QED
      BY <3>1, ApprovedEntry DEF ChecksPass
  <2> HIDE DEF d, l
  <2>3. Len(tick'.legs) = 1
    BY <1>3, <2>1 DEF TickType
  <2> QED
    BY <1>1, <1>2, <1>3, <1>4, <2>1, <2>2, <2>3
       DEF CountInv, Unbooked, broker, durable, Dated
<1>9. CASE Intend
  <2>1. /\ pc = "place" /\ pc' = "send" /\ UNCHANGED <<broker, day>> /\ tick.legs # <<>>
        /\ tick' = [tick EXCEPT !.leg = Head(tick.legs), !.legs = Tail(tick.legs),
                                !.sent = tick.sent + 1]
    BY <1>9 DEF Intend
  <2>2. tick.legs \in Seq(LegType) /\ Len(tick.legs) = 1
    BY <1>3, <2>1 DEF CountInv, TickType
  <2>3. Tail(tick.legs) = <<>>
    <3>1. Tail(tick.legs) \in Seq(LegType) /\ Len(Tail(tick.legs)) = 0
      BY <2>1, <2>2, HeadTailProperties
    <3> QED
      BY <3>1, EmptySeq
  <2>4. tick'.legs = <<>>
    BY <1>3, <2>1, <2>3 DEF TickType
  <2> QED
    BY <1>1, <1>2, <1>3, <1>4, <2>1, <2>4 DEF CountInv, Unbooked, broker, Dated, Placing
<1>10. CASE AlreadyThere \/ SendRejected
  <2>1. /\ pc = "send" /\ pc' \in {"sent", "confirm"} /\ UNCHANGED <<broker, durable>>
        /\ \E f : tick' = [tick EXCEPT !.filled = f]
    BY <1>10, Zenon DEF AlreadyThere, SendRejected
  <2>2. tick'.legs = tick.legs
    BY <1>3, <2>1 DEF TickType
  <2>3. Unbooked = 0 /\ Unbooked' \in {0, 1}
    BY <2>1 DEF Unbooked
  <2>4. opened' <= day'.trades + Unbooked' + lapses'
    BY <1>3, <1>4, <2>1, <2>3 DEF broker, durable
  <2> QED
    BY <1>1, <1>2, <2>1, <2>2, <2>4 DEF CountInv, broker, durable, Dated, Placing
<1>11. CASE SendAccepted
  <2>1. PICK lost \in {FALSE} \cup IF LostAnswers THEN {TRUE} ELSE {} :
          /\ tick' = [tick EXCEPT !.filled = ~lost]
          /\ lapses' = IF lost THEN lapses + 1 ELSE lapses
    BY <1>11, Zenon DEF SendAccepted
  <2>2. pc = "send" /\ pc' = "sent" /\ day' = day /\ opened' = opened + 1
    BY <1>11 DEF SendAccepted, durable
  <2>3. tick'.legs = tick.legs /\ tick'.filled = ~lost
    BY <1>3, <2>1 DEF TickType
  <2>4. Unbooked = 0
    BY <2>2 DEF Unbooked
  <2>5. opened' <= day'.trades + Unbooked' + lapses'
    <3>1. CASE lost
      <4>1. lapses' = lapses + 1 /\ Unbooked' = 0
        BY <2>1, <2>3, <3>1, Zenon DEF Unbooked
      <4> QED
        BY <1>3, <1>4, <2>2, <2>4, <4>1
    <3>2. CASE ~lost
      <4>1. lapses' = lapses /\ Unbooked' = 1
        BY <2>1, <2>2, <2>3, <3>2, Zenon DEF Unbooked
      <4> QED
        BY <1>3, <1>4, <2>2, <2>4, <4>1
    <3> QED
      BY <3>1, <3>2
  <2> QED
    BY <1>1, <1>2, <2>2, <2>3, <2>5 DEF CountInv, Dated, Placing
<1>12. CASE RecordSent
  <2>1. pc = "sent" /\ pc' = "confirm" /\ UNCHANGED <<broker, day, tick>>
    BY <1>12 DEF RecordSent
  <2> QED
    BY <1>1, <1>2, <2>1 DEF CountInv, Unbooked, broker, Dated, Placing
<1>13. CASE Confirm
  <2>1. /\ pc = "confirm" /\ UNCHANGED <<broker, day, tick>>
        /\ pc' = IF tick.legs = <<>> THEN "book" ELSE "place"
    BY <1>13 DEF Confirm
  <2>2. pc' = "book"
    BY <2>1 DEF CountInv
  <2> QED
    BY <1>1, <1>2, <2>1, <2>2 DEF CountInv, Unbooked, broker, Dated, Placing
<1>14. CASE Book
  <2>1. pc = "book" /\ pc' = "loop" /\ UNCHANGED broker
    BY <1>14 DEF Book
  <2>2. /\ day'.trades = day.trades + Unbooked /\ day'.reset = day.reset
    BY <1>3, <1>14 DEF Book, DayType, Unbooked
  <2> QED
    BY <1>1, <1>2, <1>3, <2>1, <2>2 DEF CountInv, Unbooked, broker, Dated, Placing
<1>15. CASE Crash
  <2>1. /\ pc' = "off" /\ UNCHANGED <<ticket, opened, day>>
        /\ lapses' = IF pc \in Booking THEN lapses + 1 ELSE lapses
    BY <1>15 DEF Crash, durable
  <2>2. Unbooked' = 0 /\ Unbooked + lapses <= lapses'
    BY <1>3, <2>1 DEF Unbooked, Booking
  <2>3. opened' <= day'.trades + Unbooked' + lapses'
    BY <1>3, <1>4, <2>1, <2>2 DEF CountInv, Unbooked
  <2> QED
    BY <1>1, <1>2, <2>1, <2>3 DEF CountInv, Dated, Placing
<1> QED
  <2>1. CASE pc \in {"load", "place", "send", "sent", "confirm", "book"} /\ (Engine \/ Start)
    BY <1>7, <1>9, <1>10, <1>11, <1>12, <1>13, <1>14, <2>1, PlacingSteps
  <2> QED
    BY <1>5, <1>6, <1>8, <1>15, <2>1 DEF Next

\* With market entries and whatever faults, no order is sent under a latched HALTED
\* or FLATTEN, nor once the day has opened max_trades_per_day positions and one more
\* for each lapse: a crash between order_send and the booking, or a lost answer.
THEOREM OrdersWithinCount ==
  ASSUME EntryKind = "market"
  PROVE  Spec => NoOrderUnderLatch
<1> DEFINE Ordered == \E t \in Tickets : ticket[t].st = "free" /\ ticket'[t].st # "free"
<1>1. CountInv /\ [Next]_vars => CountInv'
  BY CountStep
<1>2. CountInv /\ [Next]_vars => [Ordered => opened < MaxTradesPerDay + lapses]_vars
  <2> SUFFICES ASSUME CountInv, [Next]_vars,
                      NEW t \in Tickets, ticket[t].st = "free", ticket'[t].st # "free"
               PROVE  opened < MaxTradesPerDay + lapses
    OBVIOUS
  <2>1. SendAccepted /\ pc = "send"
    BY OnlySendOrders DEF CountInv, OrderInv, LatchInv, SendAccepted
  <2>2. opened \in Nat /\ lapses \in Nat /\ day.trades \in Nat /\ MaxTradesPerDay \in Nat
    BY CapsAssumption DEF CountInv, OrderInv, LatchInv, TypeOK, DayType
  <2>3. opened <= day.trades + 0 + lapses /\ day.trades < MaxTradesPerDay
    BY <2>1 DEF CountInv, Unbooked
  <2> QED
    BY <2>2, <2>3
<1>3. [Ordered => Severity(worst) < Severity("halted")]_vars
        /\ [Ordered => opened < MaxTradesPerDay + lapses]_vars
        => [Ordered => Severity(worst) < Severity("halted")
                        /\ opened < MaxTradesPerDay + lapses]_vars
  OBVIOUS
<1>4. Spec => [][Ordered => Severity(worst) < Severity("halted")]_vars
  BY LatchStopsOrders
<1> QED
  BY <1>1, <1>2, <1>3, <1>4, CountInit, PTL DEF Spec, NoOrderUnderLatch

-----------------------------------------------------------------------------
(* The concurrent-risk cap.                                                *)

\* The inductive invariant: one position at a time, and what a leg risks at its
\* buffered stop, and what the position risks, was approved under the cap.
Cap == MaxConcurrentBp * Scale

LegRisk(leg) == leg.steps * StepStop + leg.steps * Slip(StepStop)

CapInv ==
  /\ Single
  /\ \A t \in Tickets : ticket[t].st = "open" => ticket[t].stop + ticket[t].slip <= Cap
  /\ pc = "place" => LegRisk(tick.legs[1]) <= Cap
  /\ pc = "send" => LegRisk(tick.leg) <= Cap

\* A placement begins with an approval, and goes on leg by leg.
LEMMA PlacementBegins ==
  ASSUME [Next]_vars, pc' \in {"place", "send"},
         ~DecideEnter, ~DecideArm, ~Intend, ~Confirm
  PROVE  pc' = pc /\ tick' = tick
<1> USE DEF process
<1>1. CASE UNCHANGED vars \/ IdlePoll \/ World
  BY <1>1, Zenon DEF vars, IdlePoll, World, NextBar, SetHalt, ClearHalt,
     FillPending, StopOut, TakeProfit, ExpirePending
<1>2. ~(Start \/ Crash \/ PollHalt \/ StartTick \/ LoadDay \/ Latch)
  BY Zenon DEF Start, Crash, PollHalt, StartTick, LoadDay, Latch
<1>3. ~(ListPendings \/ ListPositions \/ FlattenDone \/ ReadPositions \/ ReadPendings)
  BY Zenon DEF ListPendings, ListPositions, FlattenDone, ReadPositions, ReadPendings
<1>4. ~(NoSymbolMeta \/ RefreshRisk \/ ManageHold \/ BookManage \/ DecideNothing \/ StaleRead)
  BY Zenon DEF NoSymbolMeta, RefreshRisk, ManageHold, BookManage, DecideNothing, StaleRead
<1>5. ~(AlreadyThere \/ SendAccepted \/ SendRejected \/ RecordSent \/ Book)
  BY Zenon DEF AlreadyThere, SendAccepted, SendRejected, RecordSent, Book
<1>6. ~\E t \in Tickets : Cancel(t) \/ Close(t) \/ ManageClose(t) \/ ManageMoveStop(t)
  BY Zenon DEF Cancel, Close, ManageClose, ManageMoveStop
<1> QED
  BY <1>1, <1>2, <1>3, <1>4, <1>5, <1>6 DEF Next, Engine

\* A position is opened by the order that is sent; nothing raises what it risks.
LEMMA RiskOnlyFalls ==
  ASSUME Single, [Next]_vars, ~SendAccepted, NEW t \in Tickets, ticket'[t].st = "open"
  PROVE  /\ ticket[t].st = "open"
         /\ ticket'[t].stop + ticket'[t].slip <= ticket[t].stop + ticket[t].slip
<1>1. ticket \in [Tickets -> TicketType] /\ ticket[t] \in TicketType /\ ticket[t].st # "pending"
  BY DEF Single, TypeOK, PendingTickets
<1>2. Free.st = "free"
  BY DEF Free
<1> DEFINE Goal == /\ ticket[t].st = "open"
                   /\ ticket'[t].stop + ticket'[t].slip <= ticket[t].stop + ticket[t].slip
<1>3. ASSUME ticket' = ticket PROVE Goal
  BY <1>1, <1>3 DEF TicketType
<1>4. ASSUME NEW u \in Tickets, \/ ticket' = [ticket EXCEPT ![u] = Free]
                                \/ ticket' = [ticket EXCEPT ![u].stop = 0]
      PROVE  Goal
  <2>1. CASE u # t
    BY <1>1, <1>4, <2>1 DEF TicketType
  <2>2. CASE u = t /\ ticket' = [ticket EXCEPT ![u] = Free]
    BY <1>1, <1>2, <2>2
  <2>3. CASE u = t /\ ticket' = [ticket EXCEPT ![u].stop = 0]
    <3>1. ticket'[t] = [ticket[t] EXCEPT !.stop = 0]
      BY <1>1, <2>3
    <3>2. /\ ticket'[t].st = ticket[t].st /\ ticket'[t].stop = 0
          /\ ticket'[t].slip = ticket[t].slip
          /\ ticket[t].stop \in Nat /\ ticket[t].slip \in Nat
      BY <1>1, <3>1 DEF TicketType
    <3> QED
      BY <3>2
  <2> QED
    BY <1>4, <2>1, <2>2, <2>3
<1>5. ASSUME NEW u \in Tickets, \/ Cancel(u) \/ Close(u) \/ ManageClose(u) \/ ManageMoveStop(u)
                                \/ StopOut(u) \/ TakeProfit(u) \/ ExpirePending(u)
      PROVE  Goal
  <2>1. \/ ticket' = ticket
        \/ ticket' = [ticket EXCEPT ![u] = Free]
        \/ ticket' = [ticket EXCEPT ![u].stop = 0]
    BY <1>5, Zenon DEF Cancel, Close, ManageClose, ManageMoveStop, StopOut, TakeProfit,
       ExpirePending
  <2> QED
    BY <1>3, <1>4, <2>1
<1>6. ASSUME NEW u \in Tickets, FillPending(u) PROVE FALSE
  BY <1>6 DEF FillPending, Single, PendingTickets
<1>7. CASE UNCHANGED ticket
  BY <1>3, <1>7
<1>8. UNCHANGED ticket \/ LoadDay \/ World
        \/ \E u \in Tickets : Cancel(u) \/ Close(u) \/ ManageClose(u) \/ ManageMoveStop(u)
  <2>1. UNCHANGED vars \/ IdlePoll \/ Start \/ Crash \/ PollHalt \/ StartTick \/ StaleRead \/ Latch
          => UNCHANGED ticket
    BY Zenon DEF vars, IdlePoll, Start, Crash, PollHalt, StartTick, StaleRead, Latch, broker
  <2>2. ListPendings \/ ListPositions \/ FlattenDone \/ ReadPositions \/ ReadPendings
          => UNCHANGED ticket
    BY Zenon DEF ListPendings, ListPositions, FlattenDone, ReadPositions, ReadPendings, broker
  <2>3. NoSymbolMeta \/ RefreshRisk \/ ManageHold \/ BookManage \/ DecideNothing
          => UNCHANGED ticket
    BY Zenon DEF NoSymbolMeta, RefreshRisk, ManageHold, BookManage, DecideNothing, broker
  <2>4. DecideEnter \/ DecideArm \/ Intend \/ AlreadyThere => UNCHANGED ticket
    BY Zenon DEF DecideEnter, DecideArm, Intend, AlreadyThere, broker
  <2>5. SendRejected \/ RecordSent \/ Confirm \/ Book => UNCHANGED ticket
    BY Zenon DEF SendRejected, RecordSent, Confirm, Book, broker
  <2> QED
    BY <2>1, <2>2, <2>3, <2>4, <2>5 DEF Next, Engine
<1>9. CASE LoadDay
  BY <1>3, <1>9 DEF LoadDay
<1>10. CASE NextBar \/ SetHalt \/ ClearHalt
  BY <1>3, <1>10 DEF NextBar, SetHalt, ClearHalt, broker
<1> QED
  BY <1>5, <1>6, <1>7, <1>8, <1>9, <1>10 DEF World

LEMMA CapInit == Init => CapInv
<1> SUFFICES ASSUME Init PROVE CapInv
  OBVIOUS
<1>1. Single
  BY SingleInit
<1>2. pc = "off" /\ \A t \in Tickets : ticket[t].st = "free"
  BY DEF Init, Free
<1> QED
  BY <1>1, <1>2 DEF CapInv

\* What an approved order risks at its buffered stop is within the cap.
LEMMA ApprovedUnderCap ==
  ASSUME TypeOK, NEW n, EvaluateEntry(Signal(n), Account, day).approved,
         NEW i
  PROVE  LegRisk([id |-> i, steps |-> EvaluateEntry(Signal(n), Account, day).steps]) <= Cap
<1> DEFINE d == EvaluateEntry(Signal(n), Account, day)
<1>1. d.risk = d.steps * Denom(Signal(n).stop) /\ ChecksPass(Signal(n), Account, day, d.risk)
  BY ApprovedEntry
<1>2. Signal(n).stop = StepStop /\ StepStop \in Nat /\ Slip(StepStop) \in Nat
  BY MarketAssumption, DenomType DEF Signal
<1>3. d.steps \in Nat /\ d.risk \in Nat
  BY <1>2, EntryTypes DEF TypeOK, TickType, Account
<1>4. day.openRisk \in Nat /\ Cap \in Nat
  BY MoneyAssumption DEF TypeOK, DayType, Cap
<1> HIDE DEF d
<1>5. d.risk <= Cap
  <2>1. day.openRisk + d.risk <= MaxConcurrentBp * Scale
    BY <1>1 DEF ChecksPass
  <2> QED
    BY <1>3, <1>4, <2>1 DEF Cap
<1>6. d.risk = d.steps * StepStop + d.steps * Slip(StepStop)
  <2>1. d.risk = d.steps * (StepStop + Slip(StepStop))
    BY <1>1, <1>2 DEF Denom
  <2> QED
    BY <1>2, <1>3, <2>1
<1> QED
  BY <1>5, <1>6 DEF LegRisk, d

LEMMA CapStep ==
  ASSUME EntryKind = "market", ~ReadFails, CapInv, [Next]_vars
  PROVE  CapInv'
<1>1. Single /\ Single' /\ TypeOK /\ TypeOK'
  BY SingleStep DEF CapInv, Single
<1>2. tick \in TickType /\ ticket \in [Tickets -> TicketType] /\ ticket' \in [Tickets -> TicketType]
  BY <1>1 DEF TypeOK
<1>3. Cap \in Nat
  BY MoneyAssumption DEF Cap
<1>4. \A t \in Tickets : ticket'[t].st = "open" => ticket'[t].stop + ticket'[t].slip <= Cap
  <2> SUFFICES ASSUME NEW t \in Tickets, ticket'[t].st = "open"
               PROVE  ticket'[t].stop + ticket'[t].slip <= Cap
    OBVIOUS
  <2>0. /\ ticket[t].stop \in Nat /\ ticket[t].slip \in Nat
        /\ ticket'[t].stop \in Nat /\ ticket'[t].slip \in Nat
    BY <1>2 DEF TicketType
  <2>1. CASE ~SendAccepted
    <3>1. /\ ticket[t].st = "open"
          /\ ticket'[t].stop + ticket'[t].slip <= ticket[t].stop + ticket[t].slip
      BY <1>1, <2>1, RiskOnlyFalls
    <3> QED
      BY <1>3, <2>0, <3>1 DEF CapInv
  <2>2. CASE SendAccepted
    <3>1. PICK u \in FreeTickets : ticket' = [ticket EXCEPT ![u] = Opens(NewOrder)]
      BY <2>2 DEF SendAccepted
    <3>2. u \in Tickets /\ pc = "send" /\ OpenTickets = {}
      BY <1>1, <2>2, <3>1 DEF FreeTickets, SendAccepted, Single
    <3>3. t = u
      BY <1>2, <3>1, <3>2 DEF OpenTickets
    <3>4. /\ ticket'[t].stop = tick.leg.steps * StepStop
          /\ ticket'[t].slip = tick.leg.steps * Slip(StepStop)
      BY <1>2, <3>1, <3>2, <3>3 DEF Opens, NewOrder
    <3> QED
      BY <3>2, <3>4 DEF CapInv, LegRisk
  <2> QED
    BY <2>1, <2>2
<1>5. CASE DecideEnter
  <2> DEFINE d == EvaluateEntry(Signal(Cardinality(tick.pend)), Account, day)
             l == [id |-> <<tick.bar, "one">>, steps |-> d.steps]
  <2>1. /\ tick' = [tick EXCEPT !.accrue = d.risk, !.legs = <<l>>] /\ d.approved
        /\ pc' = "place"
    BY <1>5 DEF DecideEnter
  <2>2. LegRisk(l) <= Cap
    BY <1>1, <2>1, ApprovedUnderCap
  <2> HIDE DEF d, l
  <2>3. tick'.legs[1] = l
    BY <1>2, <2>1 DEF TickType
  <2> QED
    BY <1>1, <1>4, <2>1, <2>2, <2>3 DEF CapInv
<1>6. CASE Intend
  <2>1. /\ pc = "place" /\ pc' = "send" /\ tick.legs # <<>>
        /\ tick' = [tick EXCEPT !.leg = Head(tick.legs), !.legs = Tail(tick.legs),
                                !.sent = tick.sent + 1]
    BY <1>6 DEF Intend
  <2>2. tick'.leg = tick.legs[1]
    BY <1>2, <2>1 DEF TickType
  <2> QED
    BY <1>1, <1>4, <2>1, <2>2 DEF CapInv
<1>7. CASE Confirm
  <2>1. pc' = "book"
    BY <1>1, <1>7 DEF Confirm, Single
  <2> QED
    BY <1>1, <1>4, <2>1 DEF CapInv
<1>8. CASE ~DecideEnter /\ ~Intend /\ ~Confirm
  <2>1. ~DecideArm
    BY DEF DecideArm
  <2>2. pc' \in {"place", "send"} => pc' = pc /\ tick' = tick
    BY <1>8, <2>1, PlacementBegins
  <2> QED
    BY <1>1, <1>4, <2>2 DEF CapInv
<1> QED
  BY <1>5, <1>6, <1>7, <1>8

\* With market entries the loss at risk at once stays within
\* max_concurrent_risk_usd_pct, for every configuration, even if the process
\* died before it booked the open risk: the only position is one that was
\* approved under the cap.
THEOREM CapHeld ==
  ASSUME EntryKind = "market", ~ReadFails
  PROVE  Spec => []ConcurrentCap
<1>1. CapInv /\ [Next]_vars => CapInv'
  BY CapStep
<1>2. CapInv => ConcurrentCap
  <2> SUFFICES ASSUME CapInv PROVE ConcurrentCap
    OBVIOUS
  <2>1. Cap \in Nat /\ ticket \in [Tickets -> TicketType] /\ Tickets = {1, 2, 3}
    BY MoneyAssumption DEF CapInv, Single, TypeOK, Cap, Tickets
  <2>2. \A t \in Tickets : Worst(t) \in Nat /\ Worst(t) <= Cap
                           /\ (ticket[t].st # "open" => Worst(t) = 0)
    BY <2>1 DEF CapInv, Worst, TicketType
  <2>3. \A t, u \in Tickets : t # u => Worst(t) = 0 \/ Worst(u) = 0
    BY <2>2 DEF CapInv, Single, OpenTickets
  <2> QED
    BY <2>1, <2>2, <2>3 DEF ConcurrentCap, OpenWorst, Cap
<1> QED
  BY <1>1, <1>2, CapInit, PTL DEF Spec

=============================================================================

----------------------------- MODULE LiveEngine -----------------------------
(***************************************************************************)
(* The live loop (src/src/engine/run.py with decide.py and the adapter's   *)
(* place / close / cancel), the broker it trades through, the persisted    *)
(* day state and the HALT sentinel.                                        *)
(*                                                                         *)
(* The engine is one process that takes one step per broker call or        *)
(* journal write; between two of its steps the market fills, stops out and *)
(* expires orders, bars close, midnight passes, an operator creates or     *)
(* deletes the sentinel, and the process may die.                          *)
(***************************************************************************)
EXTENDS RiskGovernor, FiniteSets, Sequences

CONSTANTS
  EntryKind,        \* what the strategy emits: "market", "stop" or "arm"
  BarsPerDay,       \* closed bars per FTMO day
  MaxBar,           \* bound: the last bar of a behaviour
  StepStop,         \* what one lot step loses at the stop-loss price
  InitialLosses,    \* today's realized loss when the behaviour starts
  InitialTrades,    \* trades_opened_today when the behaviour starts
  StartBalances,    \* balance_0000 of the day the behaviour starts in
  Gaps,             \* losses beyond the buffered stop (0: none)
  Sentinel,         \* BOOLEAN: an operator may create and delete HALT
  Crashes,          \* BOOLEAN: the process may die at any step
  MaxStarts,        \* bound: how often the process is started
  LostAnswers,      \* BOOLEAN: an order may be accepted and its answer lost
  CommentsLost,     \* bars on which the broker drops our order comment
  ReadFails,        \* BOOLEAN: a query to the broker may fail (read as [])
  RejectCloses      \* BOOLEAN: the broker may refuse a close, a cancel, a new SL

ASSUME ClockAssumption == BarsPerDay \in Nat \ {0} /\ MaxBar \in Nat /\ MaxStarts \in Nat
ASSUME MarketAssumption ==
  /\ StepStop \in Nat /\ Gaps \subseteq Nat
  /\ StartBalances \subseteq Nat /\ InitialLosses \subseteq Nat
  /\ InitialTrades \subseteq Nat /\ CommentsLost \subseteq Nat
ASSUME KindAssumption == EntryKind \in {"market", "stop", "arm"}
ASSUME FaultAssumption ==
  {Sentinel, Crashes, LostAnswers, ReadFails, RejectCloses} \subseteq BOOLEAN

VARIABLES
  bar,        \* the number of the last closed bar: the clock
  balance,    \* the account's balance
  ticket,     \* the broker's orders and positions
  executed,   \* client ids that have a position or a deal
  day,        \* the persisted day state (reset = 0: no row yet)
  intents,    \* persisted intents that are not terminal
  halt,       \* the HALT sentinel exists
  pc,         \* where the engine process is
  starts,     \* how often the process was started
  lastBar,    \* _last_bar_ts, lost on a restart
  tick,       \* the local variables of one _on_tick or _flatten_and_halt
  opened,     \* history: positions opened since the day state was last reset
  lapses,     \* history: answers lost since then, and crashes before the booking
  worst       \* history: the severest state any tick derived since then

market  == <<bar, balance>>
broker  == <<ticket, executed, opened, lapses>>
durable == <<day, intents, halt, worst>>
process == <<pc, starts, lastBar, tick>>
vars    == <<market, broker, durable, process>>

-----------------------------------------------------------------------------
(* The broker's side.  A ticket is a resting order, an open position, or   *)
(* free; three of them are enough for every mode (bound).                  *)

Tickets == 1 .. 3

Free == [st |-> "free", stop |-> 0, slip |-> 0, win |-> 0, exp |-> 0,
         id |-> <<0, "none">>]

OpenTickets    == {t \in Tickets : ticket[t].st = "open"}
PendingTickets == {t \in Tickets : ticket[t].st = "pending"}
FreeTickets    == {t \in Tickets : ticket[t].st = "free"}

Stop(t)  == IF ticket[t].st = "open" THEN ticket[t].stop ELSE 0
Worst(t) == IF ticket[t].st = "open" THEN ticket[t].stop + ticket[t].slip ELSE 0
Win(t)   == IF ticket[t].st = "open" THEN ticket[t].win ELSE 0

OpenStop  == Stop(1) + Stop(2) + Stop(3)
OpenWorst == Worst(1) + Worst(2) + Worst(3)
OpenWin   == Win(1) + Win(2) + Win(3)

\* Equity lies between the buffered stop-losses (or a gap beyond them) and the
\* 1R targets of what is open.
EquityReads ==
  IF OpenTickets = {} THEN {balance}
  ELSE {balance, balance + OpenWin} \cup {balance - OpenWorst - g : g \in Gaps}

DayOf(b) == ((b - 1) \div BarsPerDay) + 1

Expired(t) == ticket[t].exp # 0 /\ DayOf(bar) > ticket[t].exp

Opens(t) == [t EXCEPT !.st = "open", !.exp = 0]

-----------------------------------------------------------------------------
(* The engine's local state.                                               *)

NoLeg == [id |-> <<0, "none">>, steps |-> 0]

NoTick == [bar |-> 0, equity |-> 0, balance |-> 0, pos |-> {}, pend |-> {},
           live |-> 0, legs |-> <<>>, leg |-> NoLeg, filled |-> FALSE,
           sent |-> 0, accrue |-> 0]

NoDay == [b0 |-> 0, requests |-> 0, ks |-> "armed", openRisk |-> 0,
          trades |-> 0, reset |-> 0, median |-> 0]

Account == [equity |-> tick.equity, fresh |-> TRUE]

\* The signal decide_entry hands to the Governor: live passes defaults for
\* everything but the pendings count.
Signal(pendings) ==
  [stop |-> StepStop, bias |-> "normal", pendings |-> pendings, feedOk |-> TRUE,
   news |-> FALSE, gap |-> FALSE, hedge |-> FALSE, martingale |-> FALSE]

Running == pc \notin {"off", "halted"}

Init ==
  /\ bar = 1
  /\ ticket = [t \in Tickets |-> Free]
  /\ \E b \in StartBalances, l \in InitialLosses, n \in InitialTrades :
       /\ b - l > OverallFloor /\ b - l > DailyFloor(b)
       /\ balance = b - l
       /\ opened = n
       /\ day \in {NoDay, [NoDay EXCEPT !.b0 = b, !.trades = n, !.reset = 1]}
       /\ day.reset = 0 => l = 0 /\ n = 0
  /\ executed = {} /\ lapses = 0 /\ intents = {} /\ halt = FALSE /\ worst = "armed"
  /\ pc = "off" /\ starts = 0 /\ lastBar = 0 /\ tick = NoTick

-----------------------------------------------------------------------------
(* Starting, stopping and polling.                                         *)

\* The broker dropped the comment, by which alone a client id is told, or kept it.
Tagged(id) == id[1] \notin CommentsLost

\* positions_get / orders_get: a failed call answers None, read as [].
Reads(s) == {s} \cup IF ReadFails THEN {{}} ELSE {}

\* The client ids that positions_get and history_deals_get show between them:
\* both answered or the deals did, only the positions did, neither did.
Shown ==
  LET all == {id \in executed : Tagged(id)}
  IN  {all} \cup
      IF ReadFails THEN {{}, all \cap {ticket[t].id : t \in OpenTickets}} ELSE {}

\* Those that orders_get shows.
Resting == Reads({id \in {ticket[t].id : t \in PendingTickets} : Tagged(id)})

\* Mutant: only a record that still names its order kind is held on.
AmbiguousIfNamed(i, found) == i.id \notin found /\ i.kind = "market"

\* reconcile_on_startup, intent by intent (src/src/execution/logic.py).  The
\* status it writes replaces the record, and with it the order kind.
Ambiguous(i, found) == i.id \notin found /\ i.kind # "stop"

Unresolved(i, found, resting) ==
  i.id \notin found /\ (i.kind = "stop" => i.id \in resting)

Reconciled(found, resting) ==
  {[id |-> i.id, kind |-> "lost"] : i \in {j \in intents : Unresolved(j, found, resting)}}

\* run(): connect and reconcile, then enter the loop, or, with
\* flatten_required, return without trading.
Start ==
  /\ ~Running /\ starts < MaxStarts
  /\ starts' = starts + 1
  /\ \E found \in Shown, resting \in Resting :
       /\ intents' = Reconciled(found, resting)
       /\ pc' = IF \E i \in intents : Ambiguous(i, found) THEN "off" ELSE "loop"
  /\ lastBar' = 0 /\ tick' = NoTick
  /\ UNCHANGED <<market, broker, day, halt, worst>>

\* Between order_send and the write of the day state a crash loses the booking.
Booking == {"sent", "confirm", "book"}

Crash ==
  /\ Crashes /\ Running
  /\ pc' = "off" /\ lastBar' = 0 /\ tick' = NoTick
  /\ lapses' = IF pc \in Booking THEN lapses + 1 ELSE lapses
  /\ UNCHANGED <<market, ticket, executed, opened, durable, starts>>

\* The sentinel is read at the top of every iteration, before anything else.
PollHalt ==
  /\ pc = "loop" /\ halt
  /\ pc' = "flatten" /\ tick' = NoTick
  /\ UNCHANGED <<market, broker, durable, starts, lastBar>>

\* A new closed bar: it is marked as seen, then the account is read.
StartTick ==
  /\ pc = "loop" /\ ~halt /\ bar > lastBar
  /\ lastBar' = bar
  /\ \E e \in EquityReads :
       tick' = [NoTick EXCEPT !.bar = bar, !.equity = e, !.balance = balance]
  /\ pc' = "load"
  /\ UNCHANGED <<market, broker, durable, starts>>

\* No bar has closed since the last one acted on.
IdlePoll == pc = "loop" /\ ~halt /\ bar <= lastBar /\ UNCHANGED vars

\* The account read is stale: the engine holds, and this bar is gone.
StaleRead ==
  /\ pc = "loop" /\ ~halt /\ bar > lastBar
  /\ lastBar' = bar
  /\ UNCHANGED <<market, broker, durable, pc, starts, tick>>

-----------------------------------------------------------------------------
(* The day state: load or reset it, then latch the kill-switch.            *)

\* Mutant: the reset is not limited to a new day.
LoadDayAlways ==
  /\ pc = "load"
  /\ day' = ApplyDailyReset(day, tick.balance, DayOf(tick.bar))
  /\ opened' = 0 /\ lapses' = 0 /\ worst' = "armed"
  /\ pc' = "latch"
  /\ UNCHANGED <<market, ticket, executed, intents, halt, starts, lastBar, tick>>

\* _load_day_state, persisting the row it creates or resets.
LoadDay ==
  /\ pc = "load"
  /\ LET today == DayOf(tick.bar)
     IN  IF day.reset = 0
         THEN /\ day' = [NoDay EXCEPT !.b0 = tick.balance, !.reset = today]
              /\ UNCHANGED <<opened, lapses, worst>>
         ELSE IF today > day.reset
         THEN /\ day' = ApplyDailyReset(day, tick.balance, today)
              /\ opened' = 0 /\ lapses' = 0
              /\ worst' = IF worst = "flatten" THEN "flatten" ELSE "armed"
         ELSE UNCHANGED <<day, opened, lapses, worst>>
  /\ pc' = "latch"
  /\ UNCHANGED <<market, ticket, executed, intents, halt, starts, lastBar, tick>>

Severer(j, k) == IF Severity(j) >= Severity(k) THEN j ELSE k

\* Mutant: the escalated state is used for this bar but not persisted.
LatchForgets ==
  /\ pc = "latch"
  /\ worst' = Severer(worst, DeriveKillswitch(LossUsed(day.b0, tick.equity), TRUE))
  /\ pc' = IF EffectiveKillswitch(day, Account) = "flatten"
           THEN "flatten" ELSE "positions"
  /\ UNCHANGED <<market, broker, day, intents, halt, starts, lastBar, tick>>

\* An escalation is persisted before anything acts on it.
Latch ==
  /\ pc = "latch"
  /\ day' = [day EXCEPT !.ks = EffectiveKillswitch(day, Account)]
  /\ worst' = Severer(worst, DeriveKillswitch(LossUsed(day.b0, tick.equity), TRUE))
  /\ pc' = IF day'.ks = "flatten" THEN "flatten" ELSE "positions"
  /\ UNCHANGED <<market, broker, intents, halt, starts, lastBar, tick>>

-----------------------------------------------------------------------------
(* Flatten: cancel what rests, then close what is open, each from a list   *)
(* read before.                                                            *)

\* order_send may refuse a close, a cancel or a new stop.
Accepts == {TRUE} \cup IF RejectCloses THEN {FALSE} ELSE {}

\* Mutant: positions are listed and closed while the orders still rest.
ListPendingsSkipped ==
  /\ pc = "flatten"
  /\ tick' = [tick EXCEPT !.pend = {}]
  /\ pc' = "cancelling"
  /\ UNCHANGED <<market, broker, durable, starts, lastBar>>

ListPendings ==
  /\ pc = "flatten"
  /\ \E s \in Reads(PendingTickets) : tick' = [tick EXCEPT !.pend = s]
  /\ pc' = "cancelling"
  /\ UNCHANGED <<market, broker, durable, starts, lastBar>>

\* cancel(ticket): it removes the order only if it still rests.
Cancel(t) ==
  /\ pc \in {"cancelling", "siblings"} /\ t \in tick.pend
  /\ \E ok \in Accepts :
       ticket' = IF ok /\ ticket[t].st = "pending"
                 THEN [ticket EXCEPT ![t] = Free] ELSE ticket
  /\ tick' = [tick EXCEPT !.pend = @ \ {t}, !.sent = @ + 1]
  /\ UNCHANGED <<market, executed, opened, lapses, durable, pc, starts, lastBar>>

ListPositions ==
  /\ pc = "cancelling" /\ tick.pend = {}
  /\ \E s \in Reads(OpenTickets) : tick' = [tick EXCEPT !.pos = s]
  /\ pc' = "closing"
  /\ UNCHANGED <<market, broker, durable, starts, lastBar>>

\* What a close of t can leave of the balance: anything its stop-loss and its
\* target allow.
CloseResults(t) == {balance - Worst(t), balance + Win(t)}

Close(t) ==
  /\ pc = "closing" /\ t \in tick.pos
  /\ tick' = [tick EXCEPT !.pos = @ \ {t}]
  /\ \E ok \in Accepts :
       IF ok /\ ticket[t].st = "open"
       THEN /\ balance' \in CloseResults(t)
            /\ ticket' = [ticket EXCEPT ![t] = Free]
       ELSE UNCHANGED <<balance, ticket>>
  /\ UNCHANGED <<bar, executed, opened, lapses, durable, pc, starts, lastBar>>

\* Mutant: the process does not return after a sentinel.
FlattenResumes ==
  /\ pc = "closing" /\ tick.pos = {}
  /\ pc' = "loop" /\ halt' = TRUE
  /\ tick' = NoTick
  /\ UNCHANGED <<market, broker, day, intents, worst, starts, lastBar>>

\* After a sentinel the process returns; after a governor FLATTEN it writes
\* the sentinel and goes on to find it.
FlattenDone ==
  /\ pc = "closing" /\ tick.pos = {}
  /\ IF tick.bar = 0 THEN pc' = "halted" /\ halt' = halt
     ELSE pc' = "loop" /\ halt' = TRUE
  /\ tick' = NoTick
  /\ UNCHANGED <<market, broker, day, intents, worst, starts, lastBar>>

-----------------------------------------------------------------------------
(* One bar with a position: cancel the siblings, refresh the open risk,    *)
(* manage one position.                                                    *)

\* Mutant: an empty list takes the persisted open risk down at once.
ReadPositionsResets ==
  /\ pc = "positions"
  /\ \E s \in Reads(OpenTickets) :
       /\ tick' = [tick EXCEPT !.pos = s, !.live = IF s = {} THEN 0 ELSE OpenStop]
       /\ day' = IF s = {} THEN [day EXCEPT !.openRisk = 0] ELSE day
  /\ pc' = "pendings"
  /\ UNCHANGED <<market, broker, intents, halt, worst, starts, lastBar>>

ReadPositions ==
  /\ pc = "positions"
  /\ \E s \in Reads(OpenTickets) :
       tick' = [tick EXCEPT !.pos = s, !.live = IF s = {} THEN 0 ELSE OpenStop]
  /\ pc' = "pendings"
  /\ UNCHANGED <<market, broker, durable, starts, lastBar>>

\* Mutant: an open position does not stop the entry path.
ReadPendingsBlind ==
  /\ pc = "pendings"
  /\ \E s \in Reads(PendingTickets) : tick' = [tick EXCEPT !.pend = s]
  /\ pc' = "decide"
  /\ UNCHANGED <<market, broker, durable, starts, lastBar>>

\* Mutant: a leg that filled does not make the bar look for its sibling.
ReadPendingsOnlyFlat ==
  /\ pc = "pendings"
  /\ \E s \in Reads(PendingTickets) :
       tick' = [tick EXCEPT !.pend = IF tick.pos = {} THEN s ELSE {}]
  /\ pc' = IF tick.pos # {} THEN "siblings" ELSE "decide"
  /\ UNCHANGED <<market, broker, durable, starts, lastBar>>

ReadPendings ==
  /\ pc = "pendings"
  /\ \E s \in Reads(PendingTickets) : tick' = [tick EXCEPT !.pend = s]
  /\ pc' = IF tick.pos # {} THEN "siblings" ELSE "decide"
  /\ UNCHANGED <<market, broker, durable, starts, lastBar>>

\* symbol_meta() raises: the loop catches it and the rest of the bar is lost.
NoSymbolMeta ==
  /\ pc = "decide" \/ (pc = "siblings" /\ tick.pend = {})
  /\ pc' = "loop" /\ tick' = NoTick
  /\ UNCHANGED <<market, broker, durable, starts, lastBar>>

RefreshRisk ==
  /\ pc = "siblings" /\ tick.pend = {}
  /\ day' = [day EXCEPT !.requests = @ + tick.sent, !.openRisk = tick.live]
  /\ pc' = "manage"
  /\ UNCHANGED <<market, broker, intents, halt, worst, starts, lastBar, tick>>

ManageHold ==
  /\ pc = "manage"
  /\ pc' = "loop" /\ tick' = NoTick
  /\ UNCHANGED <<market, broker, durable, starts, lastBar>>

\* Mutant: the position's buffered risk is subtracted instead.
ManageCloseSubtracts(t) ==
  /\ pc = "manage" /\ t \in tick.pos
  /\ tick' = [tick EXCEPT !.live = @ - Worst(t)]
  /\ pc' = "bookmanage"
  /\ UNCHANGED <<market, broker, durable, starts, lastBar>>

\* The strategy exits: close(), whatever its result, books the risk as gone.
ManageClose(t) ==
  /\ pc = "manage" /\ t \in tick.pos
  /\ tick' = [tick EXCEPT !.live = 0]
  /\ pc' = "bookmanage"
  /\ \E ok \in Accepts :
       IF ok /\ ticket[t].st = "open"
       THEN /\ balance' \in CloseResults(t)
            /\ ticket' = [ticket EXCEPT ![t] = Free]
       ELSE UNCHANGED <<balance, ticket>>
  /\ UNCHANGED <<bar, executed, opened, lapses, durable, starts, lastBar>>

\* The strategy moves the stop to break-even.
ManageMoveStop(t) ==
  /\ pc = "manage" /\ t \in tick.pos
  /\ \E ok \in Accepts :
       ticket' = IF ok /\ ticket[t].st = "open"
                 THEN [ticket EXCEPT ![t].stop = 0] ELSE ticket
  /\ pc' = "bookmanage"
  /\ UNCHANGED <<market, executed, opened, lapses, durable, starts, lastBar, tick>>

BookManage ==
  /\ pc = "bookmanage"
  /\ day' = [day EXCEPT !.requests = @ + 1, !.openRisk = tick.live]
  /\ pc' = "loop" /\ tick' = NoTick
  /\ UNCHANGED <<market, broker, intents, halt, worst, starts, lastBar>>

-----------------------------------------------------------------------------
(* One bar without a position: decide, place each leg, book.               *)

DecideNothing ==
  /\ pc = "decide"
  /\ pc' = "loop" /\ tick' = NoTick
  /\ UNCHANGED <<market, broker, durable, starts, lastBar>>

\* decide_entry: a signal the Governor approved, as one intent.
DecideEnter ==
  /\ pc = "decide" /\ EntryKind # "arm"
  /\ LET d == EvaluateEntry(Signal(Cardinality(tick.pend)), Account, day)
     IN  /\ d.approved
         /\ tick' = [tick EXCEPT !.accrue = d.risk,
              !.legs = <<[id |-> <<tick.bar, "one">>, steps |-> d.steps]>>]
  /\ pc' = "place"
  /\ UNCHANGED <<market, broker, durable, starts, lastBar>>

\* _decide_arm: each side against the same day state, the second with one
\* pending more.  A side nearer to the reference price than the broker's stops
\* level is dropped, and live the reference price is the side's own entry price:
\* their distance is 0.
ArmDistance == 0

ArmLegs(sides) ==
  LET rests(d) == d.approved /\ ArmDistance >= StopsLevel
      leg(side, n) ==
        LET d == EvaluateEntry(Signal(n), Account, day)
        IN  IF side \in sides /\ rests(d)
            THEN <<[id |-> <<tick.bar, side>>, steps |-> d.steps]>> ELSE <<>>
      long == leg("long", 0)
  IN  long \o leg("short", Len(long))

\* The bar that ends the opening range, unless price is through a level already;
\* placed only when no order of ours rests.
DecideArm ==
  /\ pc = "decide" /\ EntryKind = "arm"
  /\ (tick.bar - 1) % BarsPerDay = 0
  /\ tick.pend = {}
  /\ \E sides \in SUBSET {"long", "short"} :
       /\ ArmLegs(sides) # <<>>
       /\ tick' = [tick EXCEPT !.legs = ArmLegs(sides)]
  /\ pc' = "place"
  /\ UNCHANGED <<market, broker, durable, starts, lastBar>>

\* place(), first write: INTENDED replaces any record of the same client id.
Intend ==
  /\ pc = "place" /\ tick.legs # <<>>
  /\ LET leg == Head(tick.legs)
     IN  /\ tick' = [tick EXCEPT !.leg = leg, !.legs = Tail(@), !.sent = @ + 1]
         /\ intents' = {i \in intents : i.id # leg.id} \cup
              {[id |-> leg.id, kind |-> IF EntryKind = "market" THEN "market" ELSE "stop"]}
  /\ pc' = "send"
  /\ UNCHANGED <<market, broker, day, halt, worst, starts, lastBar>>

\* place(), idempotency: a position or deal of this client id, told by its
\* comment, makes the intent FILLED and nothing is sent.
AlreadyThere ==
  /\ pc = "send"
  /\ \E found \in Shown : tick.leg.id \in found
  /\ tick' = [tick EXCEPT !.filled = TRUE]
  /\ pc' = "confirm"
  /\ UNCHANGED <<market, broker, durable, starts, lastBar>>

\* No answer shows it, and the order is sent.
Resends == \E found \in Shown : tick.leg.id \notin found

NewOrder ==
  [st |-> "pending", stop |-> tick.leg.steps * StepStop,
   slip |-> tick.leg.steps * Slip(StepStop), win |-> tick.leg.steps * StepStop,
   exp |-> IF EntryKind = "arm" THEN DayOf(tick.bar) ELSE 0, id |-> tick.leg.id]

\* order_send takes the order: a market order becomes a position, a stop
\* order rests.  The answer is DONE, or lost.
SendAccepted ==
  /\ pc = "send" /\ Resends
  /\ \E t \in FreeTickets :
       /\ \A u \in FreeTickets : t <= u
       /\ ticket' = [ticket EXCEPT ![t] =
                       IF EntryKind = "market" THEN Opens(NewOrder) ELSE NewOrder]
  /\ IF EntryKind = "market"
     THEN executed' = executed \cup {tick.leg.id} /\ opened' = opened + 1
     ELSE UNCHANGED <<executed, opened>>
  /\ \E lost \in {FALSE} \cup IF LostAnswers THEN {TRUE} ELSE {} :
       /\ tick' = [tick EXCEPT !.filled = ~lost]
       /\ lapses' = IF lost THEN lapses + 1 ELSE lapses
  /\ pc' = "sent"
  /\ UNCHANGED <<market, durable, starts, lastBar>>

SendRejected ==
  /\ pc = "send" /\ Resends
  /\ tick' = [tick EXCEPT !.filled = FALSE]
  /\ pc' = "sent"
  /\ UNCHANGED <<market, broker, durable, starts, lastBar>>

\* The SENT write: the new record does not carry the order kind.
RecordSent ==
  /\ pc = "sent"
  /\ intents' = {i \in intents : i.id # tick.leg.id} \cup
                  {[id |-> tick.leg.id, kind |-> "lost"]}
  /\ pc' = "confirm"
  /\ UNCHANGED <<market, broker, day, halt, worst, starts, lastBar, tick>>

\* _confirm, or the REJECTED write: either way the intent is terminal.
Confirm ==
  /\ pc = "confirm"
  /\ intents' = {i \in intents : i.id # tick.leg.id}
  /\ pc' = IF tick.legs = <<>> THEN "book" ELSE "place"
  /\ UNCHANGED <<market, broker, day, halt, worst, starts, lastBar, tick>>

\* An entry counts as a trade, and its risk as open, when it was filled; an
\* armed pair only costs its requests.
Book ==
  /\ pc = "book"
  /\ day' = IF EntryKind # "arm" /\ tick.filled
            THEN [day EXCEPT !.requests = @ + tick.sent, !.trades = @ + 1,
                             !.openRisk = @ + tick.accrue]
            ELSE [day EXCEPT !.requests = @ + tick.sent]
  /\ pc' = "loop" /\ tick' = NoTick
  /\ UNCHANGED <<market, broker, intents, halt, worst, starts, lastBar>>

-----------------------------------------------------------------------------
(* The world: bars close, orders fill, stop out and expire, an operator    *)
(* touches the sentinel.                                                   *)

NextBar ==
  /\ bar < MaxBar
  /\ bar' = bar + 1
  /\ UNCHANGED <<balance, broker, durable, process>>

FillPending(t) ==
  /\ ticket[t].st = "pending" /\ ~Expired(t)
  /\ ticket' = [ticket EXCEPT ![t] = Opens(ticket[t])]
  /\ executed' = executed \cup {ticket[t].id}
  /\ opened' = opened + 1
  /\ UNCHANGED <<market, lapses, durable, process>>

StopOut(t) ==
  /\ ticket[t].st = "open"
  /\ \E s \in {0, ticket[t].slip}, g \in Gaps :
       balance' = balance - ticket[t].stop - s - g
  /\ ticket' = [ticket EXCEPT ![t] = Free]
  /\ UNCHANGED <<bar, executed, opened, lapses, durable, process>>

TakeProfit(t) ==
  /\ ticket[t].st = "open"
  /\ balance' = balance + ticket[t].win
  /\ ticket' = [ticket EXCEPT ![t] = Free]
  /\ UNCHANGED <<bar, executed, opened, lapses, durable, process>>

ExpirePending(t) ==
  /\ ticket[t].st = "pending" /\ Expired(t)
  /\ ticket' = [ticket EXCEPT ![t] = Free]
  /\ UNCHANGED <<market, executed, opened, lapses, durable, process>>

SetHalt ==
  /\ Sentinel /\ ~halt /\ halt' = TRUE
  /\ UNCHANGED <<market, broker, day, intents, worst, process>>

ClearHalt ==
  /\ Sentinel /\ halt /\ halt' = FALSE
  /\ UNCHANGED <<market, broker, day, intents, worst, process>>

-----------------------------------------------------------------------------
\* A step of the running process.
Engine ==
  \/ PollHalt \/ IdlePoll \/ StartTick \/ StaleRead \/ LoadDay \/ Latch
  \/ ListPendings \/ ListPositions \/ FlattenDone
  \/ ReadPositions \/ ReadPendings \/ NoSymbolMeta
  \/ RefreshRisk \/ ManageHold \/ BookManage
  \/ DecideNothing \/ DecideEnter \/ DecideArm
  \/ Intend \/ AlreadyThere \/ SendAccepted \/ SendRejected \/ RecordSent
  \/ Confirm \/ Book
  \/ \E t \in Tickets : Cancel(t) \/ Close(t) \/ ManageClose(t) \/ ManageMoveStop(t)

World ==
  \/ NextBar \/ SetHalt \/ ClearHalt
  \/ \E t \in Tickets : FillPending(t) \/ StopOut(t) \/ TakeProfit(t) \/ ExpirePending(t)

Next == Start \/ Crash \/ Engine \/ World

Spec == Init /\ [][Next]_vars

\* The process keeps running while it is up; nobody has to restart it.
FairSpec == Spec /\ WF_vars(Engine)

-----------------------------------------------------------------------------
(* Properties.                                                             *)

\* A client id: the bar it was decided on and the side of the pair.
ClientIds == Nat \X {"none", "one", "long", "short"}

TicketType == [st: {"free", "pending", "open"}, stop: Nat, slip: Nat, win: Nat,
               exp: Nat, id: ClientIds]
LegType == [id: ClientIds, steps: Nat]
TickType == [bar: Nat, equity: Int, balance: Int, pos: SUBSET Tickets,
             pend: SUBSET Tickets, live: Nat, legs: Seq(LegType), leg: LegType,
             filled: BOOLEAN, sent: Nat, accrue: Nat]
DayType == [b0: Int, requests: Nat, ks: KillSwitchState, openRisk: Nat,
            trades: Nat, reset: Nat, median: {0}]
Locations == {"off", "halted", "loop", "load", "latch", "flatten", "cancelling",
              "closing", "positions", "pendings", "siblings", "manage",
              "bookmanage", "decide", "place", "send", "sent",
              "confirm", "book"}

\* Every variable holds a value the program could hold.
TypeOK ==
  /\ bar \in Nat /\ balance \in Int
  /\ ticket \in [Tickets -> TicketType]
  /\ executed \subseteq ClientIds
  /\ day \in DayType /\ tick \in TickType
  /\ intents \subseteq [id: ClientIds, kind: {"market", "stop", "lost"}]
  /\ halt \in BOOLEAN /\ pc \in Locations /\ starts \in Nat /\ lastBar \in Nat
  /\ opened \in Nat /\ lapses \in Nat /\ worst \in KillSwitchState

\* One position at a time (_on_tick's rule): with market entries, whatever
\* closes between two reads, no order is sent while a position is open.
OnePosition == Cardinality(OpenTickets) <= 1

\* The loop reads equity before it lists the positions, so that an entry may be
\* sized on an equity that a vanished position's stop has since taken away.  The
\* risk persisted for it still counts: when a market order goes out, its loss on
\* top of the account as it is leaves the day short of the FLATTEN threshold.  A
\* lapse loses the persisted risk of one position, and costs one trade's risk.
OrderAboveFlatten ==
  [][(\E t \in Tickets : ticket[t].st = "free" /\ ticket'[t].st = "open")
       => LET forgotten == lapses * BaseRiskBp * Scale
          IN  ~Reaches(LossUsed(day.b0, balance - OpenWorst' + forgotten), FlattenPct)]_vars

\* HALTED and FLATTEN latch: once any bar of the day has read such an equity, no
\* order is sent until the daily reset, however far equity recovers.  Nor once the
\* day has opened max_trades_per_day positions and one for each lapse: a crash
\* between order_send and the booking, or a lost answer, hides at most one trade.
NoOrderUnderLatch ==
  [][(\E t \in Tickets : ticket[t].st = "free" /\ ticket'[t].st # "free")
       => Severity(worst) < Severity("halted") /\ opened < MaxTradesPerDay + lapses]_vars

\* Ambiguity resolves to hold: with market entries a running process has no
\* intent without an outcome but the one it is placing, whatever the broker kept
\* of the comments, wherever the process died and whichever queries failed.
NothingInDoubt ==
  \A i \in intents : Running => pc \in {"send", "sent", "confirm"} /\ i.id = tick.leg.id

\* The crown jewel of specs/07 and the idempotency of place(): an intent becomes
\* a position at most once.
NoDuplicateExecution ==
  [][\A t \in Tickets : ticket'[t].st = "open" /\ ticket[t].st # "open"
       => ticket'[t].id \notin executed]_vars

\* Whatever the order in which the legs of a pair fill, the loss at risk at once
\* stays within max_concurrent_risk_usd_pct, although no leg counts as open
\* risk when its sibling is sized.
ConcurrentCap == OpenWorst <= MaxConcurrentBp * Scale

\* When a bar gets to manage a position nothing of ours rests any more: every
\* sibling was cancelled, expired or has itself become a position.
SiblingsCancelled == pc = "manage" => PendingTickets = {}

\* The process returns from a sentinel only with nothing resting and nothing
\* open, although orders may fill while it cancels and closes.
HaltedMeansFlat == pc = "halted" => OpenTickets = {} /\ PendingTickets = {}

\* A flatten, or a sentinel found by the loop, ends in a halt, unless the
\* process dies or an operator deletes the sentinel.
FlattenCompletes ==
  (pc = "flatten" \/ (pc = "loop" /\ halt))
    ~> (pc \in {"halted", "off"} \/ (pc = "loop" /\ ~halt))

KS == INSTANCE KillSwitch WITH ks <- day.ks, since <- day.reset

\* The persisted kill-switch implements the latch of KillSwitch, crashes,
\* lost bars and restarts included.
KillSwitchImplemented == KS!Spec
=============================================================================

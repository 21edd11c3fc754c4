------------------------------- MODULE Kernel -------------------------------
(***************************************************************************)
(* EngineKernel: one instrument's order book, position ledger and step.    *)
(*                                                                         *)
(* Between two steps (`phase` = "observe") the strategy submits, cancels,  *)
(* modifies and links orders and asks for closes; the caller then steps    *)
(* the kernel with the event it observed.  One step is the sequence of     *)
(* phases of step_inner, each an action; no strategy action can come       *)
(* between them, exactly as no Python code runs inside a step.             *)
(*                                                                         *)
(* Prices, cash and fees are abstracted: which order a bar reaches, which  *)
(* position's stop or target it hits, and whether an entry can be funded   *)
(* are chosen nondeterministically.  Quantities are whole lots' worth of   *)
(* units.                                                                  *)
(***************************************************************************)
EXTENDS Orders, FiniteSets

CONSTANTS
  Configs   \* the configurations of a run, by name

\* What a run fixes before its first event.
Config ==
  [ \* BacktestConfig, RiskGate, InstrumentSpec and the kernel's builder
   hedging: BOOLEAN,         \* PositionPolicy::Independent rather than Net
   nextBarOpen: BOOLEAN,     \* FillTiming::NextBarOpen
   partialFills: BOOLEAN,    \* partial_fills
   mayPassOver: BOOLEAN,     \* fill_prob_limit < 1 or queue_fill_model
   usesMargin: BOOLEAN,      \* AccountMode::Margin with a maintenance rate
   liquidates: BOOLEAN,      \* liquidate_on_margin_call
   maxPositions: Nat,        \* max_positions, 0 for unlimited
   drawdownGate: BOOLEAN,    \* max_drawdown_pct is set
   lotSize: Nat \ {0},       \* units per lot
   latency: Nat,             \* order_latency_ns
   activation: Nat,          \* activation_ns
   expiry: Nat,              \* expiration_ns
   direction: {"Long", "Short"},  \* the kernel's `direction`, of signal entries
   \* what the strategy and the market may do
   modes: SUBSET {"Bar", "Trade", "Quote"},
   templates: SUBSET Template,  \* the orders the strategy submits
   signals: BOOLEAN,         \* it uses enter() and close_position()
   crossInstrument: BOOLEAN, \* it submits from another instrument's event
   lateChildren: BOOLEAN,    \* it submits a child after its parent filled
   ocoLinks: BOOLEAN,        \* it calls link_oco
   newUnits: SUBSET (Nat \ {0}),  \* quantities modify_order may set
   stops: BOOLEAN,           \* positions may carry a stop or a target
   closes: BOOLEAN,          \* it calls request_close
   cancels: BOOLEAN,         \* it cancels orders
   volumes: SUBSET Nat,      \* sizes of a trade print
   fracUnits: SUBSET Nat,    \* what a capital fraction may resolve to, 0 included
   \* bounds
   maxOrders: Nat, maxIdx: Nat, maxNow: Nat]

ASSUME ConfigAssumption == \A c \in DOMAIN Configs : Configs[c] \in Config

VARIABLES
  run,         \* the name of the configuration, chosen at the start
  orders,      \* OrderEngine::orders, by engine id
  nextId,      \* OrderEngine::next_id
  positions,   \* PositionLedger::open, by position id (opening order = id order)
  nextPos,     \* PositionLedger::next_position_id
  idx,         \* ordinal of the event being observed
  now,         \* its timestamp
  phase,       \* where the step stands; "observe" between steps
  bar,         \* the event's kind and volume, and the strategy's signals
  verdicts,    \* outcomes of the match pass not applied yet
  sweep,       \* market orders the sweep has still to fill
  deferred,    \* signal intents stashed for the next bar's open
  closes,      \* pending_closes
  halted,      \* MarginBook halt
  riskHalted   \* RiskGate halt

stepVars == <<bar, verdicts, sweep>>
gateVars == <<halted, riskHalted>>
bookVars == <<orders, nextId>>
ledgerVars == <<positions, nextPos>>
clockVars == <<idx, now>>
vars == <<run, bookVars, ledgerVars, clockVars, phase, stepVars, deferred, closes, gateVars>>

Hedging         == Configs[run].hedging
NextBarOpen     == Configs[run].nextBarOpen
PartialFills    == Configs[run].partialFills
MayPassOver     == Configs[run].mayPassOver
UsesMargin      == Configs[run].usesMargin
Liquidates      == Configs[run].liquidates
MaxPositions    == Configs[run].maxPositions
DrawdownGate    == Configs[run].drawdownGate
LotSize         == Configs[run].lotSize
Latency         == Configs[run].latency
ActivationTs    == Configs[run].activation
ExpiryTs        == Configs[run].expiry
SignalDirection == Configs[run].direction
Modes           == Configs[run].modes
Templates       == Configs[run].templates
Signals         == Configs[run].signals
CrossInstrument == Configs[run].crossInstrument
LateChildren    == Configs[run].lateChildren
OcoLinks        == Configs[run].ocoLinks
NewUnits        == Configs[run].newUnits
Stops           == Configs[run].stops
Closes          == Configs[run].closes
Cancels         == Configs[run].cancels
Volumes         == Configs[run].volumes
FracUnits       == Configs[run].fracUnits
MaxOrders       == Configs[run].maxOrders
MaxIdx          == Configs[run].maxIdx
MaxNow          == Configs[run].maxNow

NoBar == [mode |-> "None", volume |-> 0, entry |-> FALSE, exit |-> FALSE]
NoIntent == [entry |-> FALSE, exit |-> FALSE]

Init ==
  /\ run \in DOMAIN Configs
  /\ orders = [i \in {} |-> i] /\ nextId = 0
  /\ positions = [p \in {} |-> p] /\ nextPos = 0
  /\ idx = 0 /\ now = 0
  /\ phase = "observe" /\ bar = NoBar
  /\ verdicts = [i \in {} |-> "none"] /\ sweep = {}
  /\ deferred = NoIntent /\ closes = {}
  /\ halted = FALSE /\ riskHalted = FALSE

-----------------------------------------------------------------------------
(* The ledger: ledger.rs *)

Flat == DOMAIN positions = {}

\* The lowest id of a set: submission order, opening order.
Earliest(S) == CHOOSE i \in S : \A j \in S : i <= j

\* PositionLedger::first
FirstPosition == Earliest(DOMAIN positions)

Without(f, S) == [p \in DOMAIN f \ S |-> f[p]]

DirectionOf(o) == IF o.side = "Buy" THEN "Long" ELSE "Short"

\* PositionLedger::open_position.
Opened(ledger, direction, size) ==
  [p \in DOMAIN ledger \cup {nextPos} |->
     IF p = nextPos
     THEN [direction |-> direction, size |-> size, entryOrder |-> NoOrder]
     ELSE ledger[p]]

\* An order-path open names the order on the FIRST position of the ledger.
OpenedBy(order, direction, size) ==
  LET ledger == Opened(positions, direction, size)
  IN  [ledger EXCEPT ![Earliest(DOMAIN ledger)].entryOrder = order]

\* close_at of each position of S.
Closed(S) == Without(positions, S)

\* settle_expiry and liquidate_all close the whole ledger.
Emptied == Closed(DOMAIN positions)

MutReduced(p, slice) == [positions EXCEPT ![p].size = @ - slice]

\* reduce_at: a slice at or above the size closes the position whole.
Reduced(p, slice) ==
  IF slice >= positions[p].size
  THEN Closed({p})
  ELSE [positions EXCEPT ![p].size = @ - slice]

\* add_at
Added(p, size) == [positions EXCEPT ![p].size = @ + size]

\* What a capital fraction may buy: try_enter and open_at, zero if nothing.
Affordable == FracUnits \ {0}
MayBuyNothing == 0 \in FracUnits

\* The lot rounding of open_at and add_at.
Lots(units) == (units \div LotSize) * LotSize

MutRiskRefuses == riskHalted

\* gating_open_count of a kernel on its own.
OpenCount == Cardinality(DOMAIN positions)

\* RiskGate::check_entry
RiskRefuses ==
  \/ riskHalted
  \/ MaxPositions > 0 /\ OpenCount >= MaxPositions

\* The gates an order-path open passes after the position checks.
GateRefuses == halted \/ RiskRefuses

MutSignalBarred == now < ActivationTs

\* The two refusals of a signal entry that end the step at once.
SignalBarred == now < ActivationTs \/ halted

-----------------------------------------------------------------------------
(* Between steps: the strategy's commands *)

Rests(t) == t.kind # "Market" \/ t.tif \in AtPhase

\* submit_order_full; submission_idx stamps an order placed from another
\* instrument's event with the last event this kernel saw.
Submit(t, parent, stamp) ==
  /\ phase = "observe" /\ nextId < MaxOrders
  /\ parent \in DOMAIN orders \cup {NoOrder}
  /\ parent # NoOrder => LateChildren \/ IsLive(orders[parent])
  /\ \/ stamp = idx
     \/ CrossInstrument /\ stamp = (IF idx = 0 THEN 0 ELSE idx - 1)
  /\ LET plain == [side |-> t.side, qty |-> t.qty, units |-> t.units,
                   kind |-> t.kind, tif |-> t.tif, expire |-> t.expire,
                   postOnly |-> t.postOnly, reduceOnly |-> t.reduceOnly,
                   status |-> "Submitted", submittedIdx |-> stamp,
                   submittedTs |-> now, arrivalTs |-> now + Latency, parent |-> parent, oco |-> NoOrder,
                   filled |-> 0, faulted |-> FALSE, notices |-> <<>>,
                   fillIdx |-> -1]
         order == IF Rests(t) /\ parent = NoOrder THEN Acknowledged(plain) ELSE plain
     IN  orders' = [i \in DOMAIN orders \cup {nextId} |->
                      IF i = nextId THEN order ELSE orders[i]]
  /\ nextId' = nextId + 1
  /\ UNCHANGED <<run, ledgerVars, clockVars, phase, stepVars, deferred, closes, gateVars>>

\* link_oco: the group is named by its lowest id; any order may be named.
LinkOco(group) ==
  /\ phase = "observe" /\ OcoLinks
  /\ group \subseteq DOMAIN orders /\ Cardinality(group) >= 2
  /\ orders' = [i \in DOMAIN orders |->
                  IF i \in group THEN [orders[i] EXCEPT !.oco = Earliest(group)]
                  ELSE orders[i]]
  /\ UNCHANGED <<run, nextId, ledgerVars, clockVars, phase, stepVars, deferred, closes, gateVars>>

\* cancel_order and cancel_all_orders.
Cancel(ids) ==
  /\ phase = "observe" /\ Cancels
  /\ \E i \in ids : IsLive(orders[i])
  /\ orders' = [i \in DOMAIN orders |->
                  IF i \in ids THEN CancelWorking(orders[i]) ELSE orders[i]]
  /\ UNCHANGED <<run, nextId, ledgerVars, clockVars, phase, stepVars, deferred, closes, gateVars>>

\* OrderEngine::modify of the quantity (prices are abstracted).
Modify(i, units) ==
  /\ phase = "observe" /\ i \in DOMAIN orders
  /\ IsLive(orders[i])
  /\ orders[i].kind \notin {"Market", "MarketToLimit", "TrailingStopMarket",
                            "TrailingStopLimit"}
  /\ orders' = [orders EXCEPT ![i].units = units, ![i].qty = "Units"]
  /\ UNCHANGED <<run, nextId, ledgerVars, clockVars, phase, stepVars, deferred, closes, gateVars>>

\* request_close
RequestClose(p) ==
  /\ phase = "observe" /\ Closes /\ p \in DOMAIN positions \ closes
  /\ closes' = closes \cup {p}
  /\ UNCHANGED <<run, bookVars, ledgerVars, clockVars, phase, stepVars, deferred, gateVars>>

\* observe_equity: the drawdown switch trips and never resets.
ObserveEquity ==
  /\ phase = "observe" /\ DrawdownGate /\ ~riskHalted
  /\ riskHalted' = TRUE
  /\ UNCHANGED <<run, bookVars, ledgerVars, clockVars, phase, stepVars, deferred, closes, halted>>

\* halt_margin: the portfolio account's margin call reaches this kernel.
HaltMargin ==
  /\ phase = "observe" /\ UsesMargin /\ ~halted
  /\ halted' = TRUE
  /\ UNCHANGED <<run, bookVars, ledgerVars, clockVars, phase, stepVars, deferred, closes, riskHalted>>

\* The next event's ordinal and timestamp, which never goes back.
Advance ==
  /\ idx' = idx + 1
  /\ now' \in {t \in now..(now + 1) : t <= MaxNow}

\* step_quote, step_depth: the ordinal moves on and nothing is simulated.
StepQuote ==
  /\ phase = "observe" /\ "Quote" \in Modes /\ idx < MaxIdx
  /\ Advance
  /\ UNCHANGED <<run, bookVars, ledgerVars, phase, stepVars, deferred, closes, gateVars>>

\* step and step_trade enter step_inner with the strategy's signals.
BeginStep(mode, volume, entry, exit) ==
  /\ phase = "observe" /\ idx < MaxIdx
  /\ mode \in Modes \ {"Quote"}
  /\ volume \in (IF mode = "Trade" THEN Volumes ELSE {0})
  /\ (entry \/ exit) => Signals
  /\ bar' = [mode |-> mode, volume |-> volume, entry |-> entry, exit |-> exit]
  /\ phase' = "expiry"
  /\ UNCHANGED <<run, bookVars, ledgerVars, clockVars, verdicts, sweep, deferred, closes, gateVars>>

-----------------------------------------------------------------------------
(* The step: step_inner, phase by phase *)

Defers == NextBarOpen /\ bar.mode = "Bar"

\* The step returns and the driver moves to the next event.
FinishStep ==
  /\ phase' = "observe" /\ bar' = NoBar
  /\ Advance

\* Past expiry: every position settles, every working order dies, and the
\* rest of the step is skipped.
SettleExpiry ==
  /\ phase = "expiry" /\ now >= ExpiryTs
  /\ deferred' = NoIntent
  /\ positions' = Emptied
  /\ orders' = [i \in DOMAIN orders |-> CancelWorking(orders[i])]
  /\ FinishStep
  /\ UNCHANGED <<run, nextId, nextPos, verdicts, sweep, closes, gateVars>>

\* Intents the previous bar stashed fill at this bar's open: exits, then the
\* entry, whose gates run now.
FillIntents ==
  /\ phase = "expiry" /\ now < ExpiryTs
  /\ phase' = "exits"
  /\ LET due      == bar.mode = "Bar"
         exits    == due /\ deferred.exit
         kept     == IF exits THEN Emptied ELSE positions
         mayEnter == /\ due /\ deferred.entry /\ DOMAIN kept = {}
                     /\ ~SignalBarred /\ ~riskHalted
     IN  /\ deferred' = IF due THEN NoIntent ELSE deferred
         /\ \/ /\ positions' = kept
               /\ mayEnter => MayBuyNothing
               /\ UNCHANGED nextPos
            \/ \E size \in Affordable :
                 /\ mayEnter
                 /\ positions' = Opened(kept, SignalDirection, size)
                 /\ nextPos' = nextPos + 1
  /\ UNCHANGED <<run, bookVars, clockVars, stepVars, closes, gateVars>>

\* try_exit_position: the stops and targets the event reaches.
MayHit(hit) == hit \subseteq DOMAIN positions /\ (hit # {} => Stops)

\* Protective exits of the positions the bar hits, the signal exit, then the
\* closes the strategy asked for.
Exits(hit) ==
  /\ phase = "exits"
  /\ MayHit(hit)
  /\ LET signalled == IF bar.exit /\ ~Defers THEN DOMAIN positions ELSE {}
     IN  positions' = Closed(hit \cup signalled \cup closes)
  /\ closes' = {}
  /\ deferred' = IF Defers /\ bar.exit THEN [deferred EXCEPT !.exit = TRUE] ELSE deferred
  /\ phase' = "margin"
  /\ UNCHANGED <<run, bookVars, nextPos, clockVars, stepVars, gateVars>>

\* Maintenance: a breach halts entries for good and may liquidate.
MarginCheck(breach) ==
  /\ phase = "margin"
  /\ breach => UsesMargin /\ ~Flat /\ ~halted
  /\ halted' = (halted \/ breach)
  /\ positions' = IF breach /\ Liquidates THEN Emptied ELSE positions
  /\ phase' = "match"
  /\ UNCHANGED <<run, bookVars, nextPos, clockVars, stepVars, deferred, closes, riskHalted>>

\* match_bar and match_trade: one pass over the book, nothing filled yet.  A
\* print has no range, so a limit it reaches is one it crosses.
Match(reach) ==
  /\ phase = "match"
  /\ \A i \in DOMAIN orders :
       /\ ~Visible(orders[i], idx, now, bar.mode) => reach[i] = "away"
       /\ reach[i] = "cross" => orders[i].postOnly
       /\ bar.mode = "Trade" /\ orders[i].postOnly => reach[i] # "touch"
  /\ LET parents == [i \in DOMAIN orders |-> orders[i].status]
     IN  verdicts' = [i \in DOMAIN orders |->
                        Verdict(orders[i], parents, idx, now, bar.mode, reach[i])]
  /\ orders' = [i \in DOMAIN orders |-> AfterVerdict(orders[i], verdicts'[i])]
  /\ phase' = "apply"
  /\ UNCHANGED <<run, nextId, ledgerVars, clockVars, bar, sweep, deferred, closes, gateVars>>

\* Outcomes are applied one by one: expiries, then the rest by submission.
Pending == {i \in DOMAIN verdicts : verdicts[i] # "none"}

Due(i) ==
  /\ phase = "apply" /\ i \in Pending
  /\ \A j \in Pending :
       \/ verdicts[i] = "expire" /\ (verdicts[j] = "expire" => i <= j)
       \/ verdicts[i] # "expire" /\ verdicts[j] # "expire" /\ i <= j

Announced == [trigger |-> "Triggered", expire |-> "Expired",
              cancel |-> "Canceled", reject |-> "Rejected"]

\* apply_match_outcome of anything but a fill only emits the event.
AnnounceVerdict(i) ==
  /\ Due(i) /\ verdicts[i] # "fill"
  /\ orders' = [orders EXCEPT ![i] = Note(@, Announced[verdicts[i]])]
  /\ verdicts' = [verdicts EXCEPT ![i] = "none"]
  /\ UNCHANGED <<run, nextId, ledgerVars, clockVars, phase, bar, sweep, deferred, closes, gateVars>>

EndMatch ==
  /\ phase = "apply" /\ Pending = {}
  /\ phase' = "signal"
  /\ UNCHANGED <<run, bookVars, ledgerVars, clockVars, stepVars, deferred, closes, gateVars>>

\* A signal entry: stashed under deferral, refused (BarredEntry: an instrument not
\* yet active or a halt ends the step here, before the market sweep), or opened.
StashEntry ==
  /\ phase = "signal" /\ Defers /\ bar.entry
  /\ deferred' = [deferred EXCEPT !.entry = TRUE]
  /\ phase' = "sweeping"
  /\ UNCHANGED <<run, bookVars, ledgerVars, clockVars, stepVars, closes, gateVars>>

MutTriesEntry == ~Defers /\ bar.entry

TriesEntry == ~Defers /\ bar.entry /\ Flat

BarredEntry ==
  /\ phase = "signal" /\ TriesEntry /\ SignalBarred
  /\ FinishStep
  /\ UNCHANGED <<run, bookVars, ledgerVars, verdicts, sweep, deferred, closes, gateVars>>

EnterOnSignal(size) ==
  /\ phase = "signal" /\ TriesEntry /\ ~SignalBarred /\ ~RiskRefuses
  /\ positions' = Opened(positions, SignalDirection, size)
  /\ nextPos' = nextPos + 1
  /\ phase' = "sweeping"
  /\ UNCHANGED <<run, bookVars, clockVars, stepVars, deferred, closes, gateVars>>

NoEntry ==
  /\ phase = "signal"
  /\ ~(Defers /\ bar.entry)
  /\ TriesEntry => ~SignalBarred /\ (RiskRefuses \/ MayBuyNothing)
  /\ phase' = "sweeping"
  /\ UNCHANGED <<run, bookVars, ledgerVars, clockVars, stepVars, deferred, closes, gateVars>>

MutSwept(o) ==
  /\ PlainMarket(o) /\ IsLive(o)
  /\ o.submittedIdx = idx

\* The market orders this step fills.
Swept(o) ==
  /\ PlainMarket(o) /\ IsLive(o)
  /\ IF Defers THEN o.submittedIdx < idx
     ELSE IF bar.mode = "Trade"
     THEN o.submittedIdx <= idx /\ now >= o.arrivalTs
     ELSE o.submittedIdx = idx

MutStartSweep ==
  /\ phase = "sweeping"
  /\ sweep' = {i \in DOMAIN orders : Swept(orders[i])}
  /\ phase' = "sweep"
  /\ UNCHANGED <<run, bookVars, ledgerVars, clockVars, bar, verdicts, deferred, closes, gateVars>>

\* Under deferral this bar's market orders are acknowledged and wait.
StartSweep ==
  /\ phase = "sweeping"
  /\ orders' = [i \in DOMAIN orders |->
                  IF Defers /\ PlainMarket(orders[i]) /\ IsLive(orders[i])
                       /\ orders[i].submittedIdx = idx
                  THEN Acknowledged(orders[i]) ELSE orders[i]]
  /\ sweep' = {i \in DOMAIN orders : Swept(orders[i])}
  /\ phase' = "sweep"
  /\ UNCHANGED <<run, nextId, ledgerVars, clockVars, bar, verdicts, deferred, closes, gateVars>>

EndStep ==
  /\ phase = "sweep" /\ sweep = {}
  /\ FinishStep
  /\ UNCHANGED <<run, bookVars, ledgerVars, verdicts, sweep, deferred, closes, gateVars>>

-----------------------------------------------------------------------------
(* Filling one order: apply_match_outcome of a fill *)

\* The matched order whose turn it is, or the next one of the sweep.
FillTurn(i) ==
  \/ Due(i) /\ verdicts[i] = "fill"
  \/ phase = "sweep" /\ i \in sweep /\ \A j \in sweep : i <= j

\* The sweep acknowledges a fresh market order just before filling it.
Presented(i) ==
  IF phase = "sweep" /\ ~Defers /\ orders[i].status = "Submitted"
  THEN Acknowledged(orders[i]) ELSE orders[i]

IsLimitFill(o) == o.kind = "Limit" \/ (o.kind = "StopLimit" /\ LimitLive(o))

\* slice_of: a print fills at most its own size.
Slice(units) ==
  IF PartialFills /\ bar.mode = "Trade" /\ bar.volume > 0 /\ bar.volume < units
  THEN bar.volume ELSE units

\* The order's side is against the open position's.
Opposed(o) == ~Flat /\ positions[FirstPosition].direction # DirectionOf(o)

\* Whether the fill opens (or adds) rather than closes.
Opens(o) == Hedging \/ (~o.reduceOnly /\ ~Opposed(o))

\* A later slice of the order named on the first position adds to it.
AddsTo(i) == ~Flat /\ positions[FirstPosition].entryOrder = i

MutWantedUncapped(o) ==
  IF Opens(o) \/ o.qty = "Units" THEN o.units - o.filled
  ELSE positions[FirstPosition].size

Wanted(o) ==
  IF Opens(o) THEN o.units - o.filled
  ELSE LET held == positions[FirstPosition].size IN
       IF o.qty = "Units" /\ o.units - o.filled < held THEN o.units - o.filled ELSE held

MutNoRoom(o, i) == ~Hedging /\ ~Flat /\ ~AddsTo(i)

\* An opening fill with no place to go: a reduce-only order under hedging, or
\* a second entry under netting.
NoRoom(o, i) == o.reduceOnly \/ (~Hedging /\ ~Flat /\ ~AddsTo(i))

\* An opening fill adds a slice to the order's own position, or opens a
\* position past the gates, or is refused outright.
Adding(o, i) == Opens(o) /\ ~NoRoom(o, i) /\ AddsTo(i) /\ o.qty = "Units"

Opening(o, i) ==
  /\ Opens(o) /\ ~NoRoom(o, i) /\ ~Adding(o, i)
  /\ ~GateRefuses /\ o.qty # "FullPosition" /\ (Hedging \/ Flat)

Closing(o) == ~Opens(o) /\ ~Flat

\* Where the fill computes a slice of units; a capital fraction is not sliced.
Sized(o, i) == Adding(o, i) \/ (Opening(o, i) /\ o.qty = "Units") \/ Closing(o)

PassedOver(o) == IsLimitFill(o) /\ MayPassOver
NothingWanted(o, i) == Sized(o, i) /\ Slice(Wanted(o)) <= 0
TooSmall(o, i) ==
  /\ Sized(o, i) /\ o.tif = "Fok"
  /\ 0 < Slice(Wanted(o)) /\ Slice(Wanted(o)) < Wanted(o)
Trades(o, i) == ~NothingWanted(o, i) /\ ~TooSmall(o, i)

FillFrame(i) ==
  /\ verdicts' = [verdicts EXCEPT ![i] = "none"]
  /\ sweep' = sweep \ {i}
  /\ UNCHANGED <<run, nextId, clockVars, phase, bar, deferred, closes, gateVars>>

Book(i) == [orders EXCEPT ![i] = Presented(i)]

\* A limit the fill model passes over, or an order with nothing left to want.
LeaveWorking(i) ==
  /\ FillTurn(i)
  /\ PassedOver(Presented(i)) \/ NothingWanted(Presented(i), i)
  /\ orders' = Book(i)
  /\ FillFrame(i) /\ UNCHANGED ledgerVars

\* Refused: no gate lets it through, or the money does not reach.
RefuseFill(i) ==
  /\ FillTurn(i)
  /\ LET o == Presented(i) IN
     \/ ~Adding(o, i) /\ ~Opening(o, i) /\ ~Closing(o)
     \/ Adding(o, i) /\ Trades(o, i)
     \/ Opening(o, i) /\ o.qty = "Units" /\ Trades(o, i)
     \/ Opening(o, i) /\ o.qty = "CapitalFrac" /\ MayBuyNothing
  /\ orders' = [orders EXCEPT ![i] = Refused(Presented(i))]
  /\ FillFrame(i) /\ UNCHANGED ledgerVars

\* Fill-or-kill on a print too small for it.
KillFill(i) ==
  /\ FillTurn(i) /\ TooSmall(Presented(i), i)
  /\ orders' = [orders EXCEPT ![i] = CancelRemainder(Presented(i))]
  /\ FillFrame(i) /\ UNCHANGED ledgerVars

AddFill(i) ==
  /\ FillTurn(i)
  /\ LET o    == Presented(i)
         size == Lots(Slice(Wanted(o)))
     IN  /\ Adding(o, i) /\ Trades(o, i) /\ size > 0
         /\ positions' = Added(FirstPosition, size)
         /\ orders' = RecordFill(Book(i), i, size, o.units, idx)
  /\ FillFrame(i) /\ UNCHANGED nextPos

OpenFill(i) ==
  /\ FillTurn(i)
  /\ LET o == Presented(i) IN
     /\ Opening(o, i) /\ Trades(o, i)
     /\ \E size \in (IF o.qty = "Units" THEN {Lots(Slice(Wanted(o)))} ELSE Affordable) :
          /\ size > 0
          /\ positions' = OpenedBy(i, DirectionOf(o), size)
          /\ orders' = RecordFill(Book(i), i, size,
                                  IF o.qty = "Units" THEN o.units ELSE size, idx)
  /\ nextPos' = nextPos + 1
  /\ FillFrame(i)

CloseFill(i) ==
  /\ FillTurn(i)
  /\ LET o         == Presented(i)
         held      == positions[FirstPosition].size
         size      == Slice(Wanted(o))
         requested == IF o.qty = "Units" /\ o.units < o.filled + held THEN o.units
                      ELSE IF o.qty = "Units" THEN o.filled + held ELSE held
     IN  /\ Closing(o) /\ Trades(o, i)
         /\ positions' = Reduced(FirstPosition, size)
         /\ orders' = RecordFill(Book(i), i, size, requested, idx)
  /\ FillFrame(i) /\ UNCHANGED nextPos

FillOrder(i) ==
  \/ LeaveWorking(i) \/ RefuseFill(i) \/ KillFill(i)
  \/ AddFill(i) \/ OpenFill(i) \/ CloseFill(i)

-----------------------------------------------------------------------------
Strategy ==
  \/ \E t \in Templates, parent \in DOMAIN orders \cup {NoOrder}, stamp \in 0..idx :
       Submit(t, parent, stamp)
  \/ \E group \in SUBSET DOMAIN orders : LinkOco(group)
  \/ \E i \in DOMAIN orders : Cancel({i})
  \/ Cancel(DOMAIN orders)
  \/ \E i \in DOMAIN orders, units \in NewUnits : Modify(i, units)
  \/ \E p \in DOMAIN positions : RequestClose(p)
  \/ ObserveEquity
  \/ HaltMargin

StartEvent ==
  \/ StepQuote
  \/ \E mode \in Modes, volume \in Volumes \cup {0}, entry, exit \in BOOLEAN :
       BeginStep(mode, volume, entry, exit)

Step ==
  \/ SettleExpiry
  \/ FillIntents
  \/ \E hit \in SUBSET DOMAIN positions : Exits(hit)
  \/ \E breach \in BOOLEAN : MarginCheck(breach)
  \/ \E reach \in [DOMAIN orders -> Reaches] : Match(reach)
  \/ \E i \in DOMAIN orders : AnnounceVerdict(i) \/ FillOrder(i)
  \/ EndMatch
  \/ StashEntry
  \/ BarredEntry
  \/ \E size \in Affordable : EnterOnSignal(size)
  \/ NoEntry
  \/ StartSweep
  \/ EndStep

Market == StartEvent \/ Step

Next == Strategy \/ Market

\* The driver's loop never stops in the middle of a step and feeds events to
\* the end of the data; what the strategy does is its own choice.
Fairness == WF_vars(Market)

Spec == Init /\ [][Next]_vars /\ Fairness
=============================================================================

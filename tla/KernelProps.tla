---------------------------- MODULE KernelProps ----------------------------
(***************************************************************************)
(* What the order book and the ledger of one kernel promise a strategy.    *)
(***************************************************************************)
EXTENDS Kernel, Functions

Position ==
  [direction: {"Long", "Short"}, size: Nat \ {0}, entryOrder: Nat \cup {NoOrder}]

Phases == {"observe", "expiry", "exits", "margin", "match", "apply", "signal",
           "sweeping", "sweep"}

\* The book's ids are dense and a child names an earlier order.
BookOK ==
  /\ nextId \in 0..MaxOrders
  /\ orders \in [0..(nextId - 1) -> Order]
  /\ \A i \in DOMAIN orders : orders[i].parent # NoOrder => orders[i].parent < i

\* An open position is never empty.
LedgerOK ==
  /\ nextPos \in Nat
  /\ DOMAIN positions \subseteq 0..(nextPos - 1)
  /\ \A p \in DOMAIN positions : positions[p] \in Position
  /\ closes \subseteq 0..(nextPos - 1)

ClockOK == idx \in 0..MaxIdx /\ now \in 0..MaxNow

StepOK ==
  /\ phase \in Phases
  /\ bar \in [mode: {"None", "Bar", "Trade"}, volume: Nat, entry: BOOLEAN, exit: BOOLEAN]
  /\ DOMAIN verdicts \subseteq DOMAIN orders
  /\ \A i \in DOMAIN verdicts : verdicts[i] \in Verdicts
  /\ sweep \subseteq DOMAIN orders
  /\ deferred \in [entry: BOOLEAN, exit: BOOLEAN]

\* The state has the shape the code's structs give it; every id a record names
\* is an id of the engine.
TypeOK ==
  /\ run \in DOMAIN Configs
  /\ BookOK /\ LedgerOK /\ ClockOK /\ StepOK
  /\ halted \in BOOLEAN /\ riskHalted \in BOOLEAN

-----------------------------------------------------------------------------
(* Safety *)

\* Net policy: however orders, signals, deferred intents and closes interleave,
\* the ledger never holds two positions (PositionLedger, PositionPolicy::Net).
OneNetPosition == ~Hedging => \A p, q \in DOMAIN positions : p = q

\* The gate of max_positions holds whichever path opens, and for all of them
\* together.
WithinMaxPositions ==
  MaxPositions > 0 => Cardinality(DOMAIN positions) <= MaxPositions

\* Where only orders trade, the open positions are the net of the orders'
\* fills: no slice is booked on an order and not on the ledger, or twice.
OnlyOrdersTrade ==
  ~Stops /\ ~Closes /\ ~Signals /\ ~Liquidates /\ ExpiryTs > MaxNow

\* Every slice goes to a position of its order's own side, or reduces one of the
\* other.  Under netting a reduce-only order closes whatever is open, so it must
\* oppose what the others open; under hedging a later slice is added to the oldest
\* position, whose side must then be everyone's.
SidesAgree ==
  \A t, u \in Templates :
    IF Hedging THEN t.side = u.side ELSE t.reduceOnly /\ ~u.reduceOnly => t.side # u.side

Signed(positive, amount) == IF positive THEN amount ELSE -amount
Exposure(p) == Signed(positions[p].direction = "Long", positions[p].size)
NetFill(i) == Signed(orders[i].side = "Buy", orders[i].filled)
PositionIsNetOfFills ==
  OnlyOrdersTrade /\ SidesAgree =>
    SumFunction([p \in DOMAIN positions |-> Exposure(p)])
      = SumFunction([i \in DOMAIN orders |-> NetFill(i)])

\* No order trades on an event the strategy had already seen when it placed it:
\* resting orders and children fill on a later event, market orders no earlier
\* than their own (same-bar timing), and later under next-bar-open.
NoLookahead ==
  \A i \in DOMAIN orders :
    LET o == orders[i] IN
    o.fillIdx # -1 =>
      IF PlainMarket(o) /\ ~(NextBarOpen /\ Modes = {"Bar"})
      THEN o.fillIdx >= o.submittedIdx
      ELSE o.fillIdx > o.submittedIdx

\* Every order is acknowledged before it may fill: no child is placed after its
\* parent filled, and where market orders wait for the next open each meets the
\* sweep of its own bar, which acknowledges it.  (A quote, a print or another
\* instrument's event under deferral lets one miss that sweep; it then fills, and
\* its status stays "Submitted".)
Acknowledging ==
  ~LateChildren /\ (NextBarOpen => Modes = {"Bar"} /\ ~CrossInstrument)

\* One-triggers-other: while its parent has not filled, a child does nothing
\* but wait or be canceled.  (A linked parent may fill after it was canceled.)
ChildWaitsForParent ==
  Acknowledging =>
    \A i \in DOMAIN orders :
      LET o == orders[i] IN
      o.parent # NoOrder /\ orders[o.parent].oco = NoOrder
        /\ orders[o.parent].status # "Filled"
      => o.status \in {"Submitted", "Canceled"} /\ o.filled = 0

\* The orders whose whole life follows the lifecycle.  A linked order may be filled
\* after its cancellation (see CanceledNeverTrades), and a market order that the
\* book finds past its date before any sweep acknowledged it is asked to expire.
FollowsLifecycle(o) ==
  Acknowledging /\ o.oco = NoOrder /\ ~(PlainMarket(o) /\ o.tif \in {"Day", "Gtd"})

\* The events a strategy is sent for an order tell its story and end with it:
\* the last one names the status the order is left in between two steps, and
\* nothing follows a cancellation, an expiry or a rejection.
FinalNotices == {"Canceled", "Expired", "Rejected"}
LastNotice(o) == o.notices[Len(o.notices)]
NoticesTellStatus ==
  phase = "observe" =>
    \A i \in DOMAIN orders :
      LET o == orders[i] IN
      FollowsLifecycle(o) =>
      /\ \A k \in 1..(Len(o.notices) - 1) : o.notices[k] \notin FinalNotices
      /\ IF o.status = "Submitted" THEN o.notices = <<>>
         ELSE /\ o.notices # <<>>
              /\ LastNotice(o) =
                   IF o.status = "PartiallyFilled" THEN "Filled" ELSE o.status

\* Order::transition is never asked for an illegal move of such an order.
NoIllegalMove ==
  \A i \in DOMAIN orders : FollowsLifecycle(orders[i]) => ~orders[i].faulted

\* What a strategy is told of an order and what the order went through agree.
OrdersTellTheirStory == NoticesTellStatus /\ NoIllegalMove

\* The strategy asks for whole lots: an odd lot leaves a remainder that works on,
\* no units at all an order that never wants anything.
WholeLots ==
  /\ \A t \in Templates : t.qty = "Units" => t.units > 0 /\ Lots(t.units) = t.units
  /\ \A units \in NewUnits : Lots(units) = units

\* An order that is resized has not traded: on bars a fill is whole, and ends an
\* order that was acknowledged.  (A partly filled one may be given fewer units than
\* it has filled.)
ResizedUntraded == NewUnits = {} \/ (Modes = {"Bar"} /\ WholeLots /\ Acknowledging)

\* Slices never add up to more than the order asked for.
FilledWithinRequest ==
  ResizedUntraded =>
    \A i \in DOMAIN orders :
      orders[i].qty = "Units" => orders[i].filled <= orders[i].units

\* No signal entry is refused before the sweep of its step.
NeverBarred == Signals => ActivationTs = 0 /\ ~UsesMargin

\* Same-bar timing, on bars: a market order placed while bar i was observed is
\* settled (filled or refused) by the end of bar i's step.  One routed from
\* another instrument's event is not, nor one whose step a refused entry ends.
SameBar ==
  /\ Modes = {"Bar"} /\ ~NextBarOpen /\ ~CrossInstrument
  /\ NeverBarred /\ WholeLots
MarketSettlesOnItsBar ==
  SameBar =>
    \A i \in DOMAIN orders :
      PlainMarket(orders[i]) /\ orders[i].submittedIdx < idx => ~IsLive(orders[i])

\* On bars, IOC and FOK orders of the book do not outlive their evaluation bar;
\* a two-stage order is evaluated again once its trigger fired.
EvaluatedOnce == Modes = {"Bar"} /\ ~MayPassOver /\ WholeLots
OneShotLivesOneBar ==
  EvaluatedOnce /\ phase = "observe" =>
    \A i \in DOMAIN orders :
      LET o == orders[i] IN
      /\ o.tif \in OneShot /\ ~PlainMarket(o) /\ o.parent = NoOrder
      /\ o.status # "Triggered"
      /\ o.submittedIdx + 1 < idx
      => ~IsLive(o)

PastDate(o) ==
  \/ o.tif = "Gtd" /\ now >= o.expire
  \/ o.tif = "Day" /\ TradingDate(now) > TradingDate(o.submittedTs)

\* A dated order that has met an event past its date works no more; one still
\* in flight to the venue has not met it, and a market order that no sweep has
\* acknowledged cannot expire.
LapsedOrderIsDead ==
  phase \in {"apply", "signal", "sweeping"} =>
    \A i \in DOMAIN orders :
      LET o == orders[i] IN
      /\ o.parent = NoOrder /\ o.submittedIdx < idx /\ PastDate(o)
      /\ bar.mode = "Trade" => now >= o.arrivalTs
      /\ o.status # "Submitted"
      => ~IsLive(o)

\* On prints a market order at the venue is worked by the next sweep, also one
\* routed from another instrument's event and stamped with an event already
\* stepped (on bars it is not, see the notes of the README).
RoutedOrderWorks ==
  phase = "sweep" /\ bar.mode = "Trade" =>
    \A i \in DOMAIN orders :
      LET o == orders[i] IN
      PlainMarket(o) /\ o.status = "Submitted" /\ now >= o.arrivalTs => i \in sweep

\* No order outlives the event that should have been its last.
OrdersEndInTime ==
  /\ MarketSettlesOnItsBar
  /\ OneShotLivesOneBar
  /\ LapsedOrderIsDead
  /\ RoutedOrderWorks

\* A slice is booked on its order and on the ledger, once each, and never past
\* what the order asked for.
FillsAddUp == PositionIsNetOfFills /\ FilledWithinRequest

\* An order named as a position's entry is on the position's side.
EntryOrderMatchesSide ==
  \A p \in DOMAIN positions :
    LET entry == positions[p].entryOrder IN
    entry # NoOrder => DirectionOf(orders[entry]) = positions[p].direction

-----------------------------------------------------------------------------
(* Action properties *)

\* A finished order that is not linked to another stays finished, and what it
\* traded never changes (for linked ones, see CanceledNeverTrades below).
EndedOrdersStayEnded ==
  [][\A i \in DOMAIN orders :
       orders[i].status \in Terminal /\ orders[i].oco = NoOrder =>
         /\ orders'[i].status = orders[i].status
         /\ orders'[i].filled = orders[i].filled]_vars

\* A reduce-only order that trades opens no position and enlarges none.
ReduceOnlyNeverOpens ==
  [][\A i \in DOMAIN orders :
       orders[i].reduceOnly /\ orders'[i].filled > orders[i].filled =>
         \A p \in DOMAIN positions' :
           p \in DOMAIN positions /\ positions'[p].size <= positions[p].size]_vars

\* The step that completes a member of a one-cancels-other group leaves no
\* sibling working.
FillCancelsSiblings ==
  [][\A i, j \in DOMAIN orders :
       /\ orders[i].status # "Filled" /\ orders'[i].status = "Filled"
       /\ i # j /\ orders[i].oco # NoOrder /\ orders[j].oco = orders[i].oco
       => orders'[j].status \in Terminal]_vars

\* After a margin call, a drawdown halt or the contract's expiry no position
\* opens, whichever path asks: signal, deferred intent, matched or swept order.
HaltStopsOpens ==
  [][halted \/ riskHalted \/ now >= ExpiryTs =>
       DOMAIN positions' \subseteq DOMAIN positions]_vars

-----------------------------------------------------------------------------
(* Liveness *)

OrderIds == UNION {0..(Configs[c].maxOrders - 1) : c \in DOMAIN Configs}

\* A child whose parent died is canceled once the book meets two more bars.
OrphansDie ==
  \A i \in OrderIds :
    (/\ i \in DOMAIN orders /\ orders[i].parent # NoOrder
     /\ orders[orders[i].parent].status \in Terminal \ {"Filled"}
     /\ phase = "observe" /\ idx + 1 < MaxIdx)
      ~> (i \in DOMAIN orders /\ ~IsLive(orders[i]))

\* Under next-bar-open a market order is settled once another bar comes.
DeferredMarketSettles ==
  \A i \in OrderIds :
    (/\ NextBarOpen /\ i \in DOMAIN orders /\ PlainMarket(orders[i])
     /\ phase = "observe" /\ idx + 1 < MaxIdx)
      ~> (i \in DOMAIN orders /\ ~IsLive(orders[i]))

\* What nobody cancels still ends: deferred market orders and orphaned children.
OrdersSettle == DeferredMarketSettles /\ OrphansDie

-----------------------------------------------------------------------------
(* What the sources say and the code does not always do *)

\* order.rs: "when any member fills, working siblings are canceled": a canceled
\* order trades no more.
CanceledNeverTrades ==
  [][\A i \in DOMAIN orders :
       orders[i].status = "Canceled" => orders'[i].filled = orders[i].filled]_vars
=============================================================================

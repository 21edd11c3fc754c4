------------------------------- MODULE Spreads -------------------------------
(***************************************************************************)
(* The option spread simulator (strategies/spreads.rs): a structure of      *)
(* signed legs, each with its own expiry.  One action is one bar: mark,     *)
(* settle the legs that expired, exit, enter, record the equity.            *)
(***************************************************************************)
EXTENDS Signals, Costs, Functions

CONSTANTS
  Plans,        \* [nextOpen, opens, fees, cash, legs, expiry, maxLoss, target, clock, squareoff]:
                \* legs, expiry (bars) and clock sequences; 0 for no expiry, limit or squareoff
  Bars,         \* [open, value, entry, exit]: opening premiums and values, one per leg
  MaxBars       \* bound: bars

VARIABLES plan, book

None == [legs |-> <<>>]
Holds(b) == b.spread # None
Units(leg) == leg.quantity * leg.lot
OverLegs(s, Op(_)) == SumFunction([k \in DOMAIN s.legs |-> Op(k)])

\* A bar is known by its number; a leg expires at the bar plan.expiry names.
Expired(k, bar) == plan.expiry[k] > 0 /\ bar >= plan.expiry[k]

\* squareoff_flags: the first bar of a day at or after the squareoff time.
Squareoff(bar) ==
  /\ plan.squareoff > 0
  /\ plan.clock[bar].minute >= plan.squareoff
  /\ \A i \in 1..bar - 1 : plan.clock[i].day = plan.clock[bar].day => plan.clock[i].minute < plan.squareoff

-----------------------------------------------------------------------------
(* Legs *)

LegPnL(leg) == Units(leg) * (leg.premium - leg.entry)
OpenPnL(leg) == IF leg.settled THEN 0 ELSE LegPnL(leg)
Unrealized(s) == OverLegs(s, LAMBDA k : OpenPnL(s.legs[k]))
AllSettled(s) == \A k \in DOMAIN s.legs : s.legs[k].settled

Repriced(s, premiums) ==
  [s EXCEPT !.legs = [k \in DOMAIN @ |->
     IF @[k].settled THEN @[k] ELSE [@[k] EXCEPT !.premium = premiums[k]]]]

\* A plausible slip: a leg that expired settles again on every later bar.
MutDue(s, bar) == {k \in DOMAIN s.legs : Expired(k, bar)}

\* settle_expired_legs: every expired leg once; what it made goes to cash.
Due(s, bar) == {k \in DOMAIN s.legs : ~s.legs[k].settled /\ Expired(k, bar)}
Settled(b, bar) ==
  LET due == Due(b.spread, bar)
      credit == SumFunction([k \in due |-> LegPnL(b.spread.legs[k])])
      legs == [k \in DOMAIN b.spread.legs |-> [b.spread.legs[k] EXCEPT !.settled = @ \/ k \in due]]
  IN [b EXCEPT !.cash = @ + credit, !.spread.realized = @ + credit, !.spread.legs = legs]

\* calculate_side: each leg an order of its own; an empty leg places none, and a
\* settled one is never traded out.
SideFee(s, isEntry) ==
  LET Traded(leg) == leg.quantity # 0 /\ (isEntry \/ ~leg.settled)
      LegFee(leg) == FeeOfSide(plan.fees, Size(IF isEntry THEN leg.entry ELSE leg.premium), Units(leg),
                               IF leg.quantity > 0 THEN "Long" ELSE "Short", isEntry)
  IN OverLegs(s, LAMBDA k : IF Traded(s.legs[k]) THEN LegFee(s.legs[k]) ELSE 0)

-----------------------------------------------------------------------------
(* Exits and entries *)

LossHit(pnl) == plan.maxLoss > 0 /\ pnl < -plan.maxLoss
TargetHit(pnl) == plan.target > 0 /\ pnl > plan.target

Reason(s, exit, bar, pnl) ==
  CASE AllSettled(s)                                   -> "Settlement"
    [] ~AllSettled(s) /\ exit                           -> "Signal"
    [] ~AllSettled(s) /\ ~exit /\ Squareoff(bar)        -> "Squareoff"
    [] ~AllSettled(s) /\ ~exit /\ ~Squareoff(bar)       -> IF LossHit(pnl) THEN "StopLoss" ELSE "TakeProfit"

\* emit_trade: the record covers the settled legs too; cash gets the rest.
Recorded(b, s, reason) ==
  LET exitFees == IF reason = "Settlement" THEN 0 ELSE SideFee(s, FALSE) IN
  [b EXCEPT !.cash = @ + Unrealized(s) - exitFees,
            !.booked = @ + s.realized + Unrealized(s) - s.fees - exitFees,
            !.reasons = @ \cup {reason},
            !.spread = None]

Exited(b, exit, bar, opens) ==
  LET s == b.spread
      pnl == Unrealized(s)
      leaves == exit \/ AllSettled(s) \/ Squareoff(bar) \/ LossHit(pnl) \/ TargetHit(pnl)
      signal == exit /\ ~AllSettled(s)
      priced == IF signal /\ plan.nextOpen /\ plan.opens THEN Repriced(s, opens) ELSE s
  IN IF ~leaves THEN b ELSE Recorded(b, priced, Reason(s, exit, bar, Unrealized(priced)))

Opened(b, premiums) ==
  LET fresh == [legs |-> [k \in DOMAIN plan.legs |->
                            [quantity |-> plan.legs[k].quantity, lot |-> plan.legs[k].lot,
                             entry |-> premiums[k], premium |-> premiums[k], settled |-> FALSE]],
                realized |-> 0, fees |-> 0]
      fees == SideFee(fresh, TRUE)
  IN [b EXCEPT !.cash = @ - fees, !.spread = [fresh EXCEPT !.fees = fees]]

Decided(bar) == [enter |-> bar.entry, leave |-> bar.exit]
Acts(b, bar) == IF plan.nextOpen THEN b.due ELSE Decided(bar)

Left(b, bar, now) ==
  IF ~Holds(b) THEN b
  ELSE Exited(Settled([b EXCEPT !.spread = Repriced(@, bar.value)], now), Acts(b, bar).leave, now, bar.open)

FillPremiums(bar) == IF plan.nextOpen /\ plan.opens THEN bar.open ELSE bar.value
MayOpen(now) == ~Squareoff(now) /\ \A k \in DOMAIN plan.legs : ~Expired(k, now)
Entered(b, bar, enters, now) ==
  IF enters /\ ~Holds(b) /\ MayOpen(now) THEN Opened(b, FillPremiums(bar)) ELSE b
Seen(b, bar, now) ==
  [b EXCEPT !.curve = b.cash + (IF Holds(b) THEN Unrealized(b.spread) ELSE 0),
            !.due = Decided(bar), !.bar = now]

OnBar(b, bar) == Seen(Entered(Left(b, bar, b.bar + 1), bar, Acts(b, bar).enter, b.bar + 1), bar, b.bar + 1)

Init ==
  /\ plan \in Plans
  /\ book = [bar |-> 0, due |-> NoDecision, cash |-> plan.cash, curve |-> plan.cash, spread |-> None,
             booked |-> 0, reasons |-> {}, ended |-> FALSE]

Bar(bar) ==
  /\ ~book.ended /\ book.bar < MaxBars
  /\ book' = OnBar(book, bar)
  /\ UNCHANGED plan

\* The sweep after the last bar records a trade and pays for it; the curve's last
\* point stays.
Finish ==
  /\ ~book.ended /\ book.bar > 0
  /\ LET closed == IF Holds(book) THEN Recorded(book, book.spread, "EndOfData") ELSE book
     IN book' = [closed EXCEPT !.ended = TRUE]
  /\ UNCHANGED plan

Next == (\E bar \in Bars : Bar(bar)) \/ Finish

-----------------------------------------------------------------------------
(* The account is its capital plus what the records report: a leg settled at *)
(* its own expiry is credited once, whenever the rest of the structure      *)
(* closes, and its fees are charged once per side.                         *)
BooksBalance ==
  /\ ~Holds(book) => book.cash = plan.cash + book.booked
  /\ Holds(book) => book.cash = plan.cash + book.booked + book.spread.realized - book.spread.fees

(* A leg settles once, at the premium of its own expiry: what the structure  *)
(* has realized is exactly what its settled legs made, for as long as it    *)
(* is held.                                                                *)
LegsSettleOnce ==
  Holds(book) =>
    LET settled == {k \in DOMAIN book.spread.legs : book.spread.legs[k].settled}
    IN book.spread.realized = SumFunction([k \in settled |-> LegPnL(book.spread.legs[k])])

(* A structure holding an expired contract is never opened, nor one at the   *)
(* squareoff: whatever is held after a bar was legal to hold on it.          *)
HeldLegally ==
  Holds(book) =>
    /\ ~Squareoff(book.bar)
    /\ ~AllSettled(book.spread)
    /\ \A k \in DOMAIN book.spread.legs : Expired(k, book.bar) = book.spread.legs[k].settled

(* Under the next-bar-open timing with opening premiums, what a bar opens    *)
(* does not depend on the values the bar closes with.                      *)
DecidedBeforeFilled ==
  plan.nextOpen /\ plan.opens /\ ~book.ended /\ ~Holds(book) /\ book.bar < MaxBars =>
    \A open \in {x.open : x \in Bars} : Cardinality({OnBar(book, y).spread : y \in {y \in Bars : y.open = open}}) = 1
=============================================================================

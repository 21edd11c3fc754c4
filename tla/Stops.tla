-------------------------------- MODULE Stops --------------------------------
(***************************************************************************)
(* One position and its protective levels, priced: the exit path of the     *)
(* kernel (portfolio/kernel.rs), the position it watches                     *)
(* (portfolio/ledger.rs), and beside it the stop calculators of stops/,    *)
(* driven over the same bars as their trait asks: `calculate_stop` at the   *)
(* entry, `update_stop` on every bar the position survives.  One action is   *)
(* one bar.                                                                *)
(***************************************************************************)
EXTENDS Fills

CONSTANTS
  Plans,        \* [nextOpen, direction, margin, fill, stop, target, terms, adaptive, slippage, limitSlip, fees, rate, lot, cash]
  Bars,         \* [open, high, low, close, volume, atr, at, entry, exit]: `at` overrides the stop
  MaxBars       \* bound: bars

VARIABLES plan, book

None == [size |-> 0]
Holds(b) == b.position.size > 0
Long == plan.direction = "Long"

\* The calculators driven beside the kernel.
Ladder == {"Fixed", "Atr", "Trailing", "Step", "Points", "Chandelier"}

Value(price, size) == price * size
Charge(price, size, isEntry) == FeeOfSide(plan.fees, price, size, plan.direction, isEntry)

-----------------------------------------------------------------------------
(* The position *)

\* stop_and_target: the configuration's levels for a position at `entry`.
StopAt(entry, atr) ==
  CASE plan.stop \in {"Fixed", "Trailing"} -> BelowBy(plan.terms.percent, entry, plan.direction)
    [] plan.stop = "Atr" /\ atr > 0 -> entry - Multiplier(plan.direction) * plan.terms.multiple * atr
    [] OTHER -> NoPrice
TargetAt(entry, stop, atr) ==
  CASE plan.target = "Fixed" -> BelowBy(-plan.terms.reward, entry, plan.direction)
    [] plan.target = "Atr" /\ atr > 0 -> entry + Multiplier(plan.direction) * plan.terms.multiple * atr
    [] plan.target = "RiskReward" /\ stop # NoPrice ->
         entry + Multiplier(plan.direction) * Size(entry - stop) * plan.terms.ratio
    [] OTHER -> NoPrice

\* open_at, sized to fit the free capital; an entry of no units is rejected.
Sized(cash, price) ==
  LET each == price * ((IF plan.margin = 0 THEN 1000 ELSE plan.margin) + plan.rate)
  IN IF each <= 0 THEN 0 ELSE Lots((1000 * cash) \div each, plan.lot)

Fresh(bar, price, size, intent) ==
  LET chosen == StopAt(price, intent.atr)
  IN [size |-> size, entry |-> price, fees |-> Charge(price, size, TRUE),
      stop |-> IF intent.at # NoPrice THEN intent.at ELSE chosen,
      target |-> TargetAt(price, chosen, intent.atr), high |-> price, low |-> price,
      bar |-> bar, first |-> intent.atr, atr |-> intent.atr, steady |-> TRUE,
      own |-> intent.at # NoPrice,
      ladder |-> [k \in Ladder |-> FirstStop(k, plan.terms, price, plan.direction, intent.atr)],
      sar |-> SarInit(plan.terms, price, plan.direction)]

Opened(b, raw, volume, intent) ==
  LET price == Traded(plan.slippage, raw, volume, plan.direction, TRUE)
      size == Sized(b.cash, price)
      paid == IF plan.margin = 0 THEN Value(price, size) ELSE 0
  IN IF size <= 0 THEN b
     ELSE [b EXCEPT !.cash = @ - Charge(price, size, TRUE) - paid,
                    !.position = Fresh(b.bar, price, size, intent)]

\* create_trade: both sides' fees come out of the record.
PnL(position, price) ==
  (price - position.entry) * position.size * Multiplier(plan.direction)
  - position.fees - Charge(price, position.size, FALSE)

\* close_at and credit_close: a margin account books the profit it has not paid for yet.
Closed(b, raw, volume, reason) ==
  LET price == Traded(plan.slippage, raw, volume, plan.direction, FALSE)
      position == b.position
      credit == IF plan.margin = 0 THEN Value(price, position.size) - Charge(price, position.size, FALSE)
                ELSE PnL(position, price) + position.fees
  IN [b EXCEPT !.cash = @ + credit, !.booked = @ + PnL(position, price), !.position = None,
               !.last = [reason |-> reason, raw |-> raw, stop |-> position.stop, bar |-> b.bar]]

\* update_extremes
Seen(b, bar) ==
  IF ~Holds(b) THEN b
  ELSE [b EXCEPT !.position.high = GreaterOf(@, bar.high), !.position.low = LesserOf(@, bar.low)]

-----------------------------------------------------------------------------
(* The exit path *)

StopHit(position, bar) ==
  /\ position.stop # NoPrice
  /\ IF Long THEN bar.low <= position.stop ELSE bar.high >= position.stop
TargetHit(position, bar) ==
  /\ position.target # NoPrice
  /\ IF Long THEN bar.high >= position.target ELSE bar.low <= position.target

\* The level the assumed path visits first: a falling bar sees its high first.
TargetFirst(position, bar) ==
  /\ plan.adaptive /\ StopHit(position, bar) /\ TargetHit(position, bar)
  /\ IF Long THEN bar.close < bar.open ELSE bar.close >= bar.open

Exited(b, bar, signal) ==
  LET position == b.position
      buys == Buys(plan.direction, FALSE)
      AtTarget == Closed(b, LimitFill(position.target, bar, buys, plan.limitSlip), bar.volume, "TakeProfit")
  IN CASE ~Holds(b) -> b
       [] Holds(b) /\ TargetFirst(position, bar) -> AtTarget
       [] Holds(b) /\ ~TargetFirst(position, bar) /\ StopHit(position, bar) ->
            Closed(b, StopFill(position.stop, bar, buys), bar.volume, "StopLoss")
       [] Holds(b) /\ ~StopHit(position, bar) /\ TargetHit(position, bar) -> AtTarget
       [] Holds(b) /\ ~StopHit(position, bar) /\ ~TargetHit(position, bar) /\ signal ->
            Closed(b, PriceOf(plan.fill, bar, buys), bar.volume, "Signal")
       [] OTHER -> b

\* update_trailing_stop, for a position that survived the bar.
Trailed(b) ==
  LET position == b.position
      extreme == IF Long THEN position.high ELSE position.low
      proposed == BelowBy(plan.terms.percent, extreme, plan.direction)
  IN IF ~Holds(b) \/ plan.stop # "Trailing" THEN b
     ELSE [b EXCEPT !.position.stop =
             CASE @ = NoPrice -> proposed
               [] @ # NoPrice /\ Long  -> IF proposed > @ THEN proposed ELSE @
               [] @ # NoPrice /\ ~Long -> IF proposed < @ THEN proposed ELSE @]

\* The calculators see the bars the position survives.
Followed(b, bar) ==
  IF ~Holds(b) THEN b
  ELSE [b EXCEPT
    !.position.ladder = [k \in Ladder |-> NextStop(k, plan.terms, @[k], bar, plan.direction)],
    !.position.sar = SarNext(plan.terms, @, bar, plan.direction),
    !.position.steady = @ /\ bar.atr = b.position.atr,
    !.position.atr = bar.atr]

Managed(b, bar, signal) == Followed(Trailed(Exited(Seen(b, bar), bar, signal)), bar)

-----------------------------------------------------------------------------
NoIntent == [entry |-> FALSE, exit |-> FALSE, atr |-> 0, at |-> NoPrice]
Intent(bar) == [entry |-> bar.entry, exit |-> bar.exit,
                atr |-> IF bar.entry THEN bar.atr ELSE 0, at |-> IF bar.entry THEN bar.at ELSE NoPrice]

Entered(b, bar, intent) ==
  IF intent.entry /\ ~Holds(b)
  THEN Opened(b, PriceOf(plan.fill, bar, Buys(plan.direction, TRUE)), bar.volume, intent) ELSE b

\* The intents of the bar before, filled at this bar's open.
Left(b, bar) ==
  IF b.due.exit /\ Holds(b)
  THEN Closed(b, PriceOf(plan.fill, bar, Buys(plan.direction, FALSE)), bar.volume, "Signal") ELSE b
DueFilled(b, bar) == Entered(Left(b, bar), bar, b.due)

\* The order of a bar: an order due fills before the levels are checked, a signal after.
Passed(b, bar) ==
  IF plan.nextOpen
  THEN [Managed(DueFilled(b, bar), bar, FALSE) EXCEPT !.due = Intent(bar)]
  ELSE Entered(Managed(b, bar, bar.exit), bar, Intent(bar))

OnBar(b, bar) == [Passed(b, bar) EXCEPT !.bar = @ + 1]

NoExit == [reason |-> "None"]

Init ==
  /\ plan \in Plans
  /\ book = [bar |-> 0, cash |-> plan.cash, booked |-> 0, position |-> None, due |-> NoIntent, last |-> NoExit]

Bar(bar) ==
  /\ book.bar < MaxBars
  /\ book' = OnBar(book, bar)
  /\ UNCHANGED plan

Next == \E bar \in Bars : Bar(bar)

-----------------------------------------------------------------------------
(* A long's stop is tighter the higher it is, a short's the lower. *)
Tighter(old, new) == new = TighterStop(old, new, plan.direction)

\* The bar keeps the position the book holds.
Kept(next) == Holds(book) /\ Holds(next) /\ next.position.bar = book.position.bar

Tightens(bar, next) ==
  Kept(next) =>
    /\ Tighter(book.position.stop, next.position.stop)
    /\ \A k \in Ladder : Tighter(book.position.ladder[k], next.position.ladder[k])
    /\ ~StopHit(book.position, bar) /\ ~TargetHit(book.position, bar)

(* While one position is held, no bar loosens its stop, or a stop of any     *)
(* calculator driven beside it, and no bar that touched the stop or the      *)
(* target standing before it leaves the position open.                      *)
StopsOnlyTighten == \A bar \in Bars : Tightens(bar, OnBar(book, bar))

(* The kernel's own levels and the calculators agree on every bar, from the  *)
(* entry on, unless the entry brought its own stop; a chandelier kept from    *)
(* bar to bar is the one read off the extremes while the range stands still. *)
LevelsAgree ==
  Holds(book) =>
    LET p == book.position IN
      /\ plan.stop \in Ladder /\ ~p.own => p.stop = p.ladder[plan.stop]
      /\ ~p.own => p.target = FirstTarget(plan.target, plan.terms, p.entry,
                               FirstStop(plan.stop, plan.terms, p.entry, plan.direction, p.first),
                               plan.direction, p.first)
      /\ p.steady => p.ladder["Chandelier"] = Chandelier(plan.terms, p.high, p.low, plan.direction, p.atr)

Follows(bar, next) ==
  Kept(next) =>
    LET old == book.position.sar.level
        new == next.position.sar.level
    IN IF Long THEN new <= bar.low /\ new >= LesserOf(old, bar.low)
       ELSE new >= bar.high /\ new <= GreaterOf(old, bar.high)

(* The parabolic stop stays on the holder's side of every bar it follows     *)
(* and never backs off further than that bar pushes it.                     *)
ParabolicFollows == \A bar \in Bars : Follows(bar, OnBar(book, bar))

\* What of a bar a stop may depend on: its open, its volume, its reach against the holder.
Threat(bar) == <<bar.open, bar.volume, IF Long THEN bar.low ELSE bar.high>>
StoppedBy(exit) == IF exit.reason = "StopLoss" /\ exit.bar = book.bar THEN exit ELSE NoExit

(* What stops a position, and at what price, is settled before the bar:      *)
(* bars that open alike and reach as far against the holder stop it alike,   *)
(* however far they run the other way and wherever they close.              *)
StopsLookBack ==
  ~plan.adaptive =>
    \A threat \in {Threat(x) : x \in Bars} :
      Cardinality({StoppedBy(OnBar(book, y).last) : y \in {y \in Bars : Threat(y) = threat}}) = 1

(* The account is the capital and the records; a position held is what was   *)
(* paid for it.  A short is bought back, so it takes a margin account.        *)
BooksBalance ==
  LET p == book.position
      spent == IF ~Holds(book) THEN 0
               ELSE p.fees + (IF plan.margin = 0 THEN Value(p.entry, p.size) ELSE 0)
  IN plan.margin > 0 \/ Long => book.cash + spent = plan.cash + book.booked
=============================================================================

------------------------------- MODULE Basket -------------------------------
(***************************************************************************)
(* The basket simulator (strategies/basket.rs): several instruments bought *)
(* and sold together on synchronised signals, each at its own price.  One  *)
(* action is one bar of its loop; Finish is what runs after the last bar.   *)
(* Under the next-bar-open timing the cleaned signals move one bar forward, *)
(* so a bar carries out what the bar before it decided.                    *)
(***************************************************************************)
EXTENDS Signals, Costs, Functions

CONSTANTS
  Plans,        \* [nextOpen, sync, direction, fees, weights, caps, lots, cash]
  Bars,         \* joint bars: [open, close, entry, exit], one entry per instrument
  MaxBars       \* bound: bars

VARIABLES plan, book

Legs == DOMAIN plan.weights
Flat == [size |-> 0, price |-> 0]
Open(b) == {i \in Legs : b.held[i].size > 0}
Over(S, Op(_)) == SumFunction([i \in S |-> Op(i)])

FillPrices(bar) == IF plan.nextOpen THEN bar.open ELSE bar.close

\* What the bar carries out, and what it decides for the next one.
Decided(b, bar) ==
  LET clean == Cleaned(b.count, 1, SyncEntry(plan.sync, bar.entry), SyncExit(plan.sync, bar.exit))
  IN [clean |-> clean, count |-> CountAfter(b.count, 1, clean)]
Acts(b, bar) == IF plan.nextOpen THEN b.due ELSE Decided(b, bar).clean

\* calculate_sizes_with_configs: the cash split by weight, capped, in lots.
SizeOf(cash, price, i) ==
  LET weights == Over(Legs, LAMBDA j : plan.weights[j])
      share == (cash * plan.weights[i]) \div weights
      allotted == IF plan.caps[i] > 0 THEN LesserOf(plan.caps[i], share) ELSE share
  IN IF weights = 0 \/ price <= 0 THEN 0 ELSE Lots(allotted \div price, plan.lots[i])

FeeOn(price, size) == Fee(plan.fees, price, size, plan.direction)

\* What a trade record reports of a leg closed at `price`.
PnL(leg, price) ==
  (price - leg.price) * leg.size * Multiplier(plan.direction) - FeeOn(price, leg.size)

Closed(b, at) ==
  [b EXCEPT !.cash = @ + Over(Open(b), LAMBDA i : at[i] * b.held[i].size - FeeOn(at[i], b.held[i].size)),
            !.booked = @ + Over(Open(b), LAMBDA i : PnL(b.held[i], at[i])),
            !.held = [i \in Legs |-> Flat]]

Opened(b, at) ==
  LET Bought(i) == SizeOf(b.cash, at[i], i)
      legs == {i \in Legs : Bought(i) > 0}
  IN [b EXCEPT !.cash = @ - Over(legs, LAMBDA i : at[i] * Bought(i) + FeeOn(at[i], Bought(i))),
               !.paid = @ + Over(legs, LAMBDA i : FeeOn(at[i], Bought(i))),
               !.held = [i \in Legs |-> IF i \in legs THEN [size |-> Bought(i), price |-> at[i]] ELSE Flat]]

Marked(b, bar) ==
  [b EXCEPT !.curve = b.cash + Over(Open(b), LAMBDA i : b.held[i].size * bar.close[i])]

Left(b, bar) == IF Acts(b, bar).leave THEN Closed(b, FillPrices(bar)) ELSE b
Entered(b, bar, enters) == IF enters /\ Open(b) = {} THEN Opened(b, FillPrices(bar)) ELSE b
Seen(b, bar, decided) ==
  [b EXCEPT !.count = decided.count, !.due = decided.clean, !.bar = @ + 1, !.last = bar.close]

OnBar(b, bar) == Seen(Marked(Entered(Left(b, bar), bar, Acts(b, bar).enter), bar), bar, Decided(b, bar))

Init ==
  /\ plan \in Plans
  /\ book = [bar |-> 0, count |-> 0, due |-> NoDecision, cash |-> plan.cash, curve |-> plan.cash,
             held |-> [i \in Legs |-> Flat], booked |-> 0, paid |-> 0, owed |-> 0,
             last |-> [i \in Legs |-> 0], ended |-> FALSE]

Bar(bar) ==
  /\ ~book.ended /\ book.bar < MaxBars
  /\ book' = OnBar(book, bar)
  /\ UNCHANGED plan

\* What is still held is recorded as closed at the last close; neither the cash
\* nor the curve follows.
Finish ==
  /\ ~book.ended /\ book.bar > 0
  /\ LET Price(i) == book.last[i] IN
     book' = [book EXCEPT !.booked = @ + Over(Open(book), LAMBDA i : PnL(book.held[i], Price(i))),
                          !.owed = Over(Open(book), LAMBDA i : FeeOn(Price(i), book.held[i].size)),
                          !.held = [i \in Legs |-> Flat],
                          !.ended = TRUE]
  /\ UNCHANGED plan

Next == (\E bar \in Bars : Bar(bar)) \/ Finish

-----------------------------------------------------------------------------
(* A long basket's cash and curve are its capital plus what the records     *)
(* report, less the entry fees the records leave out; after the last bar    *)
(* the curve also lacks the fees of the closing records.                   *)
BooksBalance ==
  plan.direction = "Long" =>
    /\ ~book.ended => book.cash = plan.cash + book.booked - book.paid
                                  - Over(Open(book), LAMBDA i : book.held[i].size * book.held[i].price)
    /\ book.ended => book.curve = plan.cash + book.booked - book.paid + book.owed

Dealt(b) == <<b.held, b.cash, b.booked>>

(* Under the next-bar-open timing nothing a bar fills depends on its closes *)
(* or on the signals computed from them.                                   *)
DecidedBeforeFilled ==
  plan.nextOpen /\ ~book.ended =>
    \A open \in {x.open : x \in Bars} : Cardinality({Dealt(OnBar(book, y)) : y \in {y \in Bars : y.open = open}}) = 1
=============================================================================

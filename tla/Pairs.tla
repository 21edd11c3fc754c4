-------------------------------- MODULE Pairs --------------------------------
(***************************************************************************)
(* The pairs simulator (strategies/pairs.rs): one leg long, the other      *)
(* short, the second sized by a hedge ratio that is fixed or regressed over *)
(* the closes up to the bar that decided.  One action is one bar.           *)
(***************************************************************************)
EXTENDS Signals, Costs, SequencesExt

CONSTANTS
  Plans,        \* [nextOpen, direction, fees, cash, hedge, dynamic, lookback]
  Bars,         \* joint bars: [open, close, entry, exit], prices of both legs
  MaxBars       \* bound: bars

VARIABLES plan, book

None == [size |-> <<0, 0>>, price |-> <<0, 0>>]
InPair(b) == b.pair # None
Directions == IF plan.direction = "Long" THEN <<"Long", "Short">> ELSE <<"Short", "Long">>
BothLegs(Op(_)) == Op(1) + Op(2)

FillPrice(bar) == IF plan.nextOpen THEN bar.open ELSE bar.close

Decided(b, bar) ==
  LET clean == Cleaned(b.count, 1, bar.entry, bar.exit)
  IN [clean |-> clean, count |-> CountAfter(b.count, 1, clean)]
Acts(b, bar) == IF plan.nextOpen THEN b.due ELSE Decided(b, bar).clean

-----------------------------------------------------------------------------
(* The hedge ratio, a fraction [n, d] *)

\* Least squares of the first leg on the second, kept within 1/10 and 10.
Regressed(closes) ==
  LET n == Len(closes)
      x(k) == closes[k][2]
      y(k) == closes[k][1]
      Sum(Op(_)) == SumFunction([k \in 1..n |-> Op(k)])
      num == n * Sum(LAMBDA k : x(k) * y(k)) - Sum(x) * Sum(y)
      den == n * Sum(LAMBDA k : x(k) * x(k)) - Sum(x) * Sum(x)
  IN IF n < 2 \/ den = 0 THEN plan.hedge
     ELSE CASE 10 * num < den -> [n |-> 1, d |-> 10]
            [] num > 10 * den -> [n |-> 10, d |-> 1]
            [] OTHER          -> [n |-> num, d |-> den]

\* A plausible slip: the regression sees the bar it fills on.
MutWindow(b, bar) == Append(b.closes, bar.close)

\* The closes the deciding bar had seen.
Window(b, bar) == IF plan.nextOpen THEN b.closes ELSE Append(b.closes, bar.close)

HedgeRatio(b, bar) ==
  LET seen == Window(b, bar)
      decided == Len(seen) - 1
  IN IF plan.dynamic /\ decided >= plan.lookback
     THEN Regressed(SubSeq(seen, decided - plan.lookback + 1, decided + 1))
     ELSE plan.hedge

-----------------------------------------------------------------------------
FeesOn(pair, price) ==
  BothLegs(LAMBDA k : Fee(plan.fees, price[k], pair.size[k], Directions[k]))

GrossPnL(pair, price) ==
  BothLegs(LAMBDA k : (price[k] - pair.price[k]) * pair.size[k] * Multiplier(Directions[k]))

Value(pair, price) == BothLegs(LAMBDA k : pair.size[k] * price[k])

\* close_position and the cash it returns: both legs come back at their price,
\* and each is a record with half the profit.
Closed(b, at) ==
  [b EXCEPT !.cash = @ + Value(b.pair, at) - FeesOn(b.pair, at),
            !.booked = @ + GrossPnL(b.pair, at) - FeesOn(b.pair, at),
            !.records = @ + 2,
            !.pair = None]

\* Half the cash to the first leg, the hedge's share of it to the second.
Sized(cash, at, ratio) ==
  LET half == cash \div 2
  IN [price |-> at, size |-> <<half \div at[1], (half * ratio.n) \div (ratio.d * at[2])>>]

Opened(b, at, ratio) ==
  LET pair == Sized(b.cash, at, ratio) IN
  [b EXCEPT !.cash = @ - Value(pair, at) - FeesOn(pair, at),
            !.paid = @ + FeesOn(pair, at),
            !.pair = pair]

\* The mark: what both legs cost, and their profit with the short leg's sign.
Mark(pair, price) == Value(pair, pair.price) + GrossPnL(pair, price)

Left(b, bar) == IF Acts(b, bar).leave /\ InPair(b) THEN Closed(b, FillPrice(bar)) ELSE b
Entered(b, bar, enters) == IF enters /\ ~InPair(b) THEN Opened(b, FillPrice(bar), HedgeRatio(b, bar)) ELSE b
Seen(b, bar, decided) ==
  [b EXCEPT !.curve = b.cash + Mark(b.pair, bar.close), !.count = decided.count, !.due = decided.clean,
            !.closes = Append(@, bar.close)]

OnBar(b, bar) == Seen(Entered(Left(b, bar), bar, Acts(b, bar).enter), bar, Decided(b, bar))

Init ==
  /\ plan \in Plans
  /\ book = [count |-> 0, due |-> NoDecision, cash |-> plan.cash, curve |-> plan.cash, pair |-> None,
             booked |-> 0, records |-> 0, paid |-> 0, closes |-> <<>>, ended |-> FALSE]

Bar(bar) ==
  /\ ~book.ended /\ Len(book.closes) < MaxBars
  /\ book' = OnBar(book, bar)
  /\ UNCHANGED plan

\* One record for the whole pair; cash and curve stay.
Finish ==
  /\ ~book.ended /\ book.closes # <<>>
  /\ LET at == Last(book.closes)
         closed == [book EXCEPT !.booked = @ + GrossPnL(book.pair, at) - FeesOn(book.pair, at),
                                !.records = @ + 1,
                                !.pair = None]
     IN book' = [(IF InPair(book) THEN closed ELSE book) EXCEPT !.ended = TRUE]
  /\ UNCHANGED plan

Next == (\E bar \in Bars : Bar(bar)) \/ Finish

-----------------------------------------------------------------------------
(* The comment on the mark (pairs.rs:230, "value is long leg - short leg +   *)
(* cash equivalent") and the records agree: once the pair is closed, what   *)
(* the curve gained is the profit the records report, less the entry fees.  *)
CurveIsProfit ==
  book.pair = None /\ ~book.ended => book.curve = plan.cash + book.booked - book.paid

(* While the first pair is open the curve is the capital less its entry fees *)
(* and its profit at the last closes, with the short leg's sign reversed:     *)
(* what the entry takes from the cash the mark gives back.                  *)
MarkIsProfit ==
  InPair(book) /\ book.records = 0 =>
    book.curve = plan.cash - book.paid + GrossPnL(book.pair, Last(book.closes))

Dealt(b) == <<b.pair, b.cash, b.booked>>

(* Under the next-bar-open timing neither the fills nor the hedge ratio a   *)
(* bar uses depend on that bar's own closes or signals.                    *)
DecidedBeforeFilled ==
  plan.nextOpen /\ ~book.ended =>
    \A open \in {x.open : x \in Bars} : Cardinality({Dealt(OnBar(book, y)) : y \in {y \in Bars : y.open = open}}) = 1
=============================================================================

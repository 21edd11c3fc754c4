------------------------------- MODULE Rebalance -------------------------------
(***************************************************************************)
(* Following a series of target weights (portfolio/rebalance.rs): the book  *)
(* is held, and traded back to target on a calendar or when it has drifted   *)
(* out of a band, every leg paying its itemized charges and every asset sold *)
(* a flat one.  One action is one date.                                    *)
(*                                                                         *)
(* Weights are hundredths.  A trade is of whole units, where the code's are  *)
(* fractions; the inputs the code refuses (holes, short or oversubscribed   *)
(* targets) are not among the ones enumerated.                             *)
(***************************************************************************)
EXTENDS Costs, Functions

CONSTANTS
  Plans,        \* [policy, minTrade, schedule, dp, cash]; a policy is [every] or [band]
  Dates,        \* [prices, targets], a sequence each
  MaxDates      \* bound: dates

VARIABLES plan, book

Assets == DOMAIN book.units
SumOver(S, F(_)) == SumFunction([a \in S |-> F(a)])
SumOf(F(_)) == SumOver(Assets, F)

Value(b, prices) == SumOf(LAMBDA a : b.units[a] * prices[a])
EquityOf(b, prices) == b.cash + Value(b, prices)

\* Twice the one-way turnover to target, times the equity and a hundred.
Drift(b, date) ==
  SumOf(LAMBDA a : Size(100 * b.units[a] * date.prices[a]
                        - date.targets[a] * EquityOf(b, date.prices)))

\* The first date always trades.
Due(b, date) ==
  IF "every" \in DOMAIN plan.policy THEN b.date % plan.policy.every = 0
  ELSE b.date = 0 \/ Drift(b, date) > 2 * plan.policy.band * EquityOf(b, date.prices)

\* What an asset lacks of its target, and the whole units of it.
Lacks(b, date, a, equity) == (date.targets[a] * equity) \div 100 - b.units[a] * date.prices[a]
Whole(value, price) == IF value < 0 THEN -((-value) \div price) ELSE value \div price

Trade(b, date, a, lacks) == IF Size(lacks) < plan.minTrade THEN 0 ELSE Whole(lacks, date.prices[a])

\* One asset's leg: a buy is a long entry, a sale a long exit.
Leg(value) ==
  LET charges == Charges(plan.schedule, Size(value), "Long", value > 0)
  IN [traded |-> Size(value), brokerage |-> charges.brokerage,
      regulatory |-> Total(charges) - charges.brokerage, sold |-> value < 0]

Settled(b, date, trades, legs) ==
  LET traded == {a \in Assets : trades[a] # 0}
      dp == plan.dp * Cardinality({a \in traded : legs[a].sold})
      regulatory == SumOver(traded, LAMBDA a : legs[a].regulatory)
      brokerage == SumOver(traded, LAMBDA a : legs[a].brokerage)
  IN [b EXCEPT
        !.units = [a \in Assets |-> @[a] + trades[a]],
        !.cash = @ - SumOf(LAMBDA a : trades[a] * date.prices[a]) - dp - regulatory - brokerage,
        !.dp = dp, !.regulatory = regulatory, !.brokerage = brokerage,
        !.turnover = SumOver(traded, LAMBDA a : legs[a].traded),
        !.costs = @ + dp + regulatory + brokerage,
        !.trades = @ + Cardinality(traded),
        !.rebalances = @ + (IF traded = {} THEN 0 ELSE 1)]

Rebalanced(b, date, trades) ==
  Settled(b, date, trades, [a \in Assets |-> Leg(trades[a] * date.prices[a])])

Traded(b, date, equity) ==
  Rebalanced(b, date, [a \in Assets |-> Trade(b, date, a, Lacks(b, date, a, equity))])

\* The figures of a date that does not trade.
Quiet(b) == [b EXCEPT !.dp = 0, !.regulatory = 0, !.brokerage = 0, !.turnover = 0]

Marked(b, before, date) ==
  [b EXCEPT !.gains = @ + SumOf(LAMBDA a : before.units[a] * (date.prices[a] - before.prices[a])),
            !.equity = EquityOf(b, date.prices), !.prices = date.prices, !.date = @ + 1]

OnDate(b, date) ==
  Marked(IF Due(b, date) THEN Traded(Quiet(b), date, EquityOf(b, date.prices)) ELSE Quiet(b), b, date)

Init ==
  /\ plan \in Plans
  /\ book = [units |-> <<0, 0>>, cash |-> plan.cash, prices |-> <<0, 0>>, equity |-> plan.cash,
             gains |-> 0, dp |-> 0, regulatory |-> 0, brokerage |-> 0, turnover |-> 0, costs |-> 0,
             trades |-> 0, rebalances |-> 0, date |-> 0]

Next ==
  /\ book.date < MaxDates
  /\ \E date \in Dates : book' = OnDate(book, date)
  /\ UNCHANGED plan

-----------------------------------------------------------------------------
(* Properties *)

(* The curve is the capital, what the prices made of the units held over     *)
(* them, and every cost reported date by date.                             *)
BooksBalance == book.equity = plan.cash + book.gains - book.costs

(* Nothing is sold that is not held. *)
NothingShort == \A a \in Assets : book.units[a] >= 0

(* Whatever the next date brings, it leaves every asset on its target, within *)
(* a unit, unless the policy keeps the book or the trade is too small; the    *)
(* book never borrows more than the date's costs and the sales it skipped as *)
(* too small; and a date no sale happens on pays no flat charge.            *)
TargetsMet ==
  \A date \in Dates :
    LET equity == EquityOf(book, date.prices)
        after == OnDate(book, date)
        Short(a) == (date.targets[a] * equity) \div 100 - after.units[a] * date.prices[a]
        sold == {a \in Assets : after.units[a] < book.units[a]}
    IN /\ Due(book, date) =>
            /\ \A a \in Assets : Size(Short(a)) < GreaterOf(date.prices[a], plan.minTrade)
            /\ after.cash >= -(after.costs - book.costs)
                             - SumOf(LAMBDA a : GreaterOf(0, -Short(a)))
       /\ ~Due(book, date) => after.units = book.units /\ after.cash = book.cash
       /\ after.dp = plan.dp * Cardinality(sold)
=============================================================================

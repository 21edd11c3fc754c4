-------------------------------- MODULE Groups --------------------------------
(***************************************************************************)
(* Option legs that hedge each other: one kernel per option under one        *)
(* margin account, whose sold legs lock a deposit and are re-priced as a     *)
(* group (portfolio/option_groups.rs) after every event                     *)
(* (EventSession::regroup_option_margin).  One action is one event.          *)
(*                                                                         *)
(* Every kernel is netting and deposit-modelled; a leg keeps its cost, the   *)
(* premium times its size.  Rates are thousandths of the strike.  Fees,      *)
(* drawdown halts and what else a step does are in Session and Kernel.       *)
(***************************************************************************)
EXTENDS Integers, Sequences, FiniteSets, FiniteSetsExt

CONSTANTS
  Plans,        \* [options, span, exposure, leverage, cash, liquidates, expiry, spot]; an
                \* option is [strike, call, key], its key the underlying and the expiry
  Premiums,     \* what an option may trade at
  MaxSize, MaxEvents   \* bounds: contracts of a leg, events

VARIABLES plan, book

Least(S) == Min(S \cup {0})
NonNegative(x) == IF x > 0 THEN x ELSE 0
Ids == DOMAIN plan.options
Flat == [size |-> 0, long |-> TRUE, cost |-> 0]
Open(b, i) == b.held[i].size > 0
Sold(b, i) == Open(b, i) /\ ~b.held[i].long
SumOver(S, F(_)) == MapThenSumSet(F, S)

-----------------------------------------------------------------------------
(* The group requirement *)

Notional(b, i) == plan.options[i].strike * b.held[i].size
Deposit(strike, size) == ((plan.span + plan.exposure) * strike * size) \div 1000

Intrinsic(option, spot) ==
  NonNegative(IF option.call THEN spot - option.strike ELSE option.strike - spot)

Payoff(b, legs, spot) ==
  SumOver(legs, LAMBDA i : (IF b.held[i].long THEN 1 ELSE -1) * b.held[i].size
                           * Intrinsic(plan.options[i], spot))

\* The payoff is linear between strikes: zero, the strikes and a far spot will do.
Kinks(legs) ==
  LET strikes == {plan.options[i].strike : i \in legs}
  IN strikes \cup {0, 2 * Max(strikes) + 1}
WorstLoss(b, legs) == -Least({Payoff(b, legs, spot) : spot \in Kinks(legs)})

Contracts(b, legs, call, long) ==
  SumOver({i \in legs : plan.options[i].call = call /\ b.held[i].long = long}, LAMBDA i : b.held[i].size)
Uncovered(b, legs) ==
  \E call \in BOOLEAN : Contracts(b, legs, call, FALSE) > Contracts(b, legs, call, TRUE)

\* A lone leg keeps its full deposit; a group nets what it collected.
NetPremium(b, legs) ==
  IF Cardinality(legs) < 2 THEN 0
  ELSE SumOver(legs, LAMBDA i : IF b.held[i].long THEN -b.held[i].cost ELSE b.held[i].cost)

Scenario(b, legs) ==
  LET sold == {i \in legs : Sold(b, i)} IN
  (IF Uncovered(b, legs) THEN (plan.span * Max({Notional(b, i) : i \in sold})) \div 1000
   ELSE WorstLoss(b, legs))
  + SumOver(sold, LAMBDA i : (plan.exposure * Notional(b, i)) \div 1000)
  - NetPremium(b, legs)

\* group_requirement, of legs one of which is sold
Requirement(b, legs) ==
  LET floor == IF Uncovered(b, legs) THEN 0 ELSE WorstLoss(b, legs) - NetPremium(b, legs)
  IN Max({0, floor, Scenario(b, legs)})

\* apportion: by what each sold leg would carry alone, evenly where none would
\* carry anything.
OwnDeposit(b, i) == Deposit(plan.options[i].strike, b.held[i].size)
Shares(b, sold, total) ==
  LET all == SumOver(sold, LAMBDA j : OwnDeposit(b, j))
  IN [i \in sold |-> IF all > 0 THEN (total * OwnDeposit(b, i)) \div all
                      ELSE total \div Cardinality(sold)]

Keys == {plan.options[i].key : i \in Ids}
Legs(b, key) == {i \in Ids : Open(b, i) /\ plan.options[i].key = key}
SoldLegs(b, key) == {i \in Legs(b, key) : Sold(b, i)}

\* What the sold legs of a group lock.
Priced(b, legs, sold) ==
  IF sold = {} THEN <<>> ELSE Shares(b, sold, Requirement(b, legs))

\* MarginBook::set_locked over the legs, and the account told of the change.
Relocked(b, locks) ==
  [b EXCEPT !.locks = [i \in Ids |-> IF i \in DOMAIN locks THEN locks[i] ELSE @[i]],
            !.locked = @ + SumOver(DOMAIN locks, LAMBDA i : locks[i] - b.locks[i])]

\* regroup_option_margin: the sold legs of every group.
Regrouped(b) ==
  FoldSet(LAMBDA key, c : Relocked(c, Priced(c, Legs(c, key), SoldLegs(c, key))), b, Keys)

-----------------------------------------------------------------------------
(* A kernel's step *)

\* entry_funding: a deposit for a sold option, the account's rate for a bought one.
Funding(i, long, size, price) ==
  IF long THEN (price * size) \div plan.leverage ELSE Deposit(plan.options[i].strike, size)

\* Unlocked capital: the balance less every kernel's locks, the stepping one's
\* as they stand.
FreeCapital(b) == b.balance - SumOver(Ids, LAMBDA i : b.locks[i])

Unrealized(b, i, price) ==
  LET leg == b.held[i] IN
  IF leg.long THEN price * leg.size - leg.cost ELSE leg.cost - price * leg.size

\* credit_close: what the leg made goes to cash, its lock goes.
Closed(b, i, price) ==
  [b EXCEPT !.balance = @ + Unrealized(b, i, price), !.booked = @ + Unrealized(b, i, price),
            !.held[i] = Flat, !.locks[i] = 0]

\* open_at and add_at: an explicit number of contracts, refused when it does not fit.
Bought(b, i, long, size, price) ==
  LET need == Funding(i, long, size, price) IN
  IF need > FreeCapital(b) THEN b
  ELSE [b EXCEPT !.held[i] = [size |-> @.size + size, long |-> long, cost |-> @.cost + price * size],
                 !.locks[i] = @ + need]

\* reduce_at, of one contract: the slice leaves with its part of the cost and the lock.
Reduced(b, i, price) ==
  LET leg == b.held[i]
      slice == leg.cost \div leg.size
      made == IF leg.long THEN price - slice ELSE slice - price
  IN IF leg.size = 1 THEN Closed(b, i, price)
     ELSE [b EXCEPT !.balance = @ + made, !.booked = @ + made,
                    !.held[i] = [leg EXCEPT !.size = leg.size - 1, !.cost = leg.cost - slice],
                    !.locks[i] = (@ * (leg.size - 1)) \div leg.size]

\* maintenance_requirement: a sold leg keeps its lock, a bought one half its rate.
Maintenance(b, i, price) ==
  CASE Sold(b, i) -> b.locks[i]
    [] Open(b, i) /\ b.held[i].long /\ plan.leverage > 1 -> (price * b.held[i].size) \div (2 * plan.leverage)
    [] OTHER -> 0

\* The margin check of step_inner: the lent balance less the other kernels' locks.
KernelCheck(b, i, price) ==
  LET needs == Maintenance(b, i, price)
      equity == b.balance - SumOver(Ids \ {i}, LAMBDA j : b.locks[j]) + Unrealized(b, i, price)
  IN IF ~b.halted /\ needs > 0 /\ equity < needs
     THEN [(IF plan.liquidates THEN Closed(b, i, price) ELSE b) EXCEPT !.halted = TRUE]
     ELSE b

Expired(b) == b.event >= plan.expiry

\* settle_expiry: at the intrinsic value against the underlying.
SettledAt(b, i) == IF Open(b, i) THEN Closed(b, i, Intrinsic(plan.options[i], plan.spot)) ELSE b

\* step_inner: exits, the margin check, then the order it fills.
Exited(b, i, price, order) == IF order.kind = "close" /\ Open(b, i) THEN Closed(b, i, price) ELSE b
Filled(b, i, price, order) ==
  CASE order.kind = "open" /\ ~b.halted /\ ~Open(b, i) -> Bought(b, i, order.long, order.size, price)
    [] order.kind = "add" /\ Open(b, i) -> Bought(b, i, b.held[i].long, 1, price)
    [] order.kind = "reduce" /\ Open(b, i) -> Reduced(b, i, price)
    [] OTHER -> b
Stepped(b, i, price, order) ==
  IF Expired(b) THEN SettledAt(b, i)
  ELSE Filled(KernelCheck(Exited(b, i, price, order), i, price), i, price, order)

-----------------------------------------------------------------------------
(* The event *)

\* The locks a step moved reach the shared account, then the groups are priced.
Drained(before, after, i) == Regrouped([after EXCEPT !.locked = @ + after.locks[i] - before.locks[i]])

Marked(b) == {i \in Ids : b.last[i] > 0}
Equity(b) == b.balance + SumOver(Marked(b), LAMBDA i : Unrealized(b, i, b.last[i]))
Required(b) == SumOver(Marked(b), LAMBDA i : Maintenance(b, i, b.last[i]))

\* The liquidation loop, one kernel after another at its own last mark.
SoldOut(b) ==
  LET made == SumOver(Marked(b), LAMBDA i : Unrealized(b, i, b.last[i]))
      freed == SumOver(Marked(b), LAMBDA i : b.locks[i])
  IN [b EXCEPT !.balance = @ + made, !.booked = @ + made, !.locked = @ - freed,
               !.held = [i \in Ids |-> IF i \in Marked(b) THEN Flat ELSE @[i]],
               !.locks = [i \in Ids |-> IF i \in Marked(b) THEN 0 ELSE @[i]]]

PortfolioCheck(b) ==
  IF ~b.halted /\ Required(b) > 0 /\ Equity(b) < Required(b)
  THEN [(IF plan.liquidates THEN SoldOut(b) ELSE b) EXCEPT !.halted = TRUE]
  ELSE b

Applied(b, i, price, order) ==
  PortfolioCheck([Drained(b, Stepped(b, i, price, order), i) EXCEPT !.last[i] = price, !.event = @ + 1])

Orders ==
  {[kind |-> k] : k \in {"none", "close", "add", "reduce"}}
  \cup {[kind |-> "open", long |-> l, size |-> s] : l \in BOOLEAN, s \in 1..MaxSize}
\* Orders that come to nothing are the same as none.
Sensible(b, i, order) ==
  CASE order.kind = "open" -> ~Open(b, i)
    [] order.kind = "add"  -> Open(b, i) /\ b.held[i].size < MaxSize
    [] order.kind = "none" -> TRUE
    [] OTHER               -> Open(b, i)

Init ==
  /\ plan \in Plans
  /\ book = [held |-> [i \in DOMAIN plan.options |-> Flat], locks |-> [i \in DOMAIN plan.options |-> 0],
             balance |-> plan.cash, locked |-> 0, last |-> [i \in DOMAIN plan.options |-> 0],
             halted |-> FALSE, booked |-> 0, event |-> 0]

Event(i, price, order) ==
  /\ book.event < MaxEvents
  /\ Sensible(book, i, order)
  /\ book' = Applied(book, i, price, order)
  /\ UNCHANGED plan

Next == \E i \in Ids, price \in Premiums, order \in Orders : Event(i, price, order)

-----------------------------------------------------------------------------
(* Properties *)

(* The account mirrors the kernels' locks and the profit booked; the sold    *)
(* legs of a group lock what the legs it holds now require, whatever         *)
(* happened before, to within the rounding of their shares; a bought leg     *)
(* locks what it cost (session.rs:regroup_option_margin).                    *)
GroupsArePriced ==
  /\ book.balance = plan.cash + book.booked
  /\ book.locked = SumOver(Ids, LAMBDA i : book.locks[i])
  /\ \A i \in Ids : ~Sold(book, i) /\ plan.leverage = 1 => book.locks[i] = book.held[i].cost
  /\ \A key \in Keys :
       LET sold == SoldLegs(book, key)
           short == Requirement(book, Legs(book, key)) - SumOver(sold, LAMBDA i : book.locks[i])
       IN sold # {} => short \in 0..Cardinality(sold)

(* The kinks are enough: no spot anywhere loses a group more than the worst  *)
(* loss found at them, unless it is short of calls; and what a covered group *)
(* locks and has collected pays that loss at expiry (option_groups.rs:12-16).*)
WorstIsWorst ==
  \A key \in Keys :
    LET legs == Legs(book, key) IN
    SoldLegs(book, key) # {} =>
      /\ \A spot \in 0..2 * Max(Kinks(legs)) :
           spot <= Max(Kinks(legs)) \/ ~Uncovered(book, legs) =>
             Payoff(book, legs, spot) >= -WorstLoss(book, legs)
      /\ ~Uncovered(book, legs) =>
           Requirement(book, legs) >= WorstLoss(book, legs) - NetPremium(book, legs)
=============================================================================

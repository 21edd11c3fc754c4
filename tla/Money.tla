------------------------------- MODULE Money --------------------------------
(***************************************************************************)
(* The money one kernel moves: what opening, adding to, reducing and       *)
(* closing a position do to its cash and to the margin it locks.           *)
(*                                                                         *)
(* A kernel is a record: the cash it is lent for the step, its positions   *)
(* and its locked margin by position id, and its two halts.  A position    *)
(* keeps its size, its cost (average entry times size) and the entry fees  *)
(* it has paid and not yet put into a trade.  `leverage` is 0 in a cash    *)
(* account.  Fees are a charge per unit; the contract multiplier is 1.     *)
(***************************************************************************)
EXTENDS Integers, FiniteSets, Functions

NewKernel ==
  [cash |-> 0, positions |-> [p \in {} |-> p], locks |-> [p \in {} |-> p],
   nextId |-> 0, called |-> FALSE, riskHalted |-> FALSE]

\* MarginBook::total_locked
TotalLocked(k) == SumFunction(k.locks)

\* EngineKernel::free_capital; a cash account locks nothing.
Free(k) == k.cash - TotalLocked(k)

OpenCount(k) == Cardinality(DOMAIN k.positions)

With(f, p, v) == [q \in DOMAIN f \cup {p} |-> IF q = p THEN v ELSE f[q]]
Without(f, p) == [q \in DOMAIN f \ {p} |-> f[q]]

\* Initial margin of a notional value: the account's rate is 1 / leverage.
Initial(value, leverage) == value \div leverage

\* What a purchase takes out of free capital, fees apart.
Funding(value, leverage) == IF leverage = 0 THEN value ELSE Initial(value, leverage)

\* Gross profit of a holding marked at a price.
Gross(p, price) == IF p.long THEN price * p.units - p.cost ELSE p.cost - price * p.units

\* Ledger and account side of adopt_position and open_at: cash pays the whole
\* value, margin locks its initial share.
Opened(k, position, leverage) ==
  LET id == k.nextId IN
  [k EXCEPT
     !.positions = With(@, id, position),
     !.nextId = @ + 1,
     !.cash = @ - position.fees - (IF leverage = 0 THEN position.cost ELSE 0),
     !.locks = IF leverage = 0 THEN @ ELSE With(@, id, Initial(position.cost, leverage))]

\* add_at: a slice of an order joins the position the order opened.
Added(k, id, price, units, fee, leverage) ==
  [k EXCEPT
     !.positions[id].units = @ + units,
     !.positions[id].cost  = @ + price * units,
     !.positions[id].fees  = @ + fee * units,
     !.cash = @ - fee * units - (IF leverage = 0 THEN price * units ELSE 0),
     !.locks = IF leverage = 0 THEN @
               ELSE [k.locks EXCEPT ![id] = k.locks[id] + Initial(price * units, leverage)]]

\* The part of a position that leaves with `units` of it (reduce_position).
Slice(p, units) ==
  [long |-> p.long, units |-> units,
   cost |-> (p.cost * units) \div p.units, fees |-> (p.fees * units) \div p.units]

Rest(p, slice) ==
  [p EXCEPT !.units = @ - slice.units, !.cost = @ - slice.cost, !.fees = @ - slice.fees]

\* create_trade: the profit a trade record books.
Pnl(slice, price, exitFees) == Gross(slice, price) - slice.fees - exitFees

\* Mutant: the entry fees, debited when the position opened, are charged again.
MutCredit(slice, price, exitFees, leverage) ==
  IF leverage = 0 THEN price * slice.units - exitFees ELSE Pnl(slice, price, exitFees)

\* credit_close: entry fees were debited at entry, so they are added back.
Credit(slice, price, exitFees, leverage) ==
  IF leverage = 0 THEN price * slice.units - exitFees
  ELSE Pnl(slice, price, exitFees) + slice.fees

\* close_at and credit_close
Closed(k, id, price, fee, leverage) ==
  LET p == k.positions[id] IN
  [k EXCEPT !.positions = Without(@, id),
            !.locks = Without(@, id),
            !.cash = @ + Credit(p, price, fee * p.units, leverage)]

\* reduce_at: the slice releases its share of the lock.
Reduced(k, id, units, price, fee, leverage) ==
  LET slice == Slice(k.positions[id], units) IN
  [k EXCEPT !.positions[id] = Rest(@, slice),
            !.locks = IF leverage = 0 THEN @
                      ELSE [k.locks EXCEPT ![id] =
                              k.locks[id] - (k.locks[id] * units) \div k.positions[id].units],
            !.cash = @ + Credit(slice, price, fee * units, leverage)]

\* EngineKernel::position_value and unrealized_value
Value(k, price) ==
  SumFunction([p \in DOMAIN k.positions |-> price * k.positions[p].units])
Unrealized(k, price) ==
  SumFunction([p \in DOMAIN k.positions |-> Gross(k.positions[p], price)])

\* maintenance_requirement: half the initial rate; a fully funded account needs none.
Maintenance(k, price, leverage) ==
  IF leverage <= 1 THEN 0
  ELSE SumFunction([p \in DOMAIN k.positions |->
                      (price * k.positions[p].units) \div (2 * leverage)])

\* liquidate_all and finalize_all: every position goes at one price.
Emptied(k) == [k EXCEPT !.positions = [p \in {} |-> p], !.locks = [p \in {} |-> p]]
Proceeds(k, price, fee, leverage) ==
  SumFunction([p \in DOMAIN k.positions |->
                 Credit(k.positions[p], price, fee * k.positions[p].units, leverage)])
Profits(k, price, fee) ==
  SumFunction([p \in DOMAIN k.positions |->
                 Pnl(k.positions[p], price, fee * k.positions[p].units)])
=============================================================================

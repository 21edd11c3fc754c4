------------------------------- MODULE Session ------------------------------
(***************************************************************************)
(* EventSession as the owner of the money: one shared account, one kernel  *)
(* per instrument, and one event at a time.                                *)
(*                                                                         *)
(* An applied event lends the portfolio's free capital to its kernel,      *)
(* steps it, takes back what it moved, samples equity, and may halt or     *)
(* liquidate the whole portfolio.  What the orders and signals of a step   *)
(* do in which case is module Kernel's subject; here a step is any         *)
(* sequence of the money operations it is made of, with the margin check   *)
(* at its place between exits and orders.  Prices, units and fees are      *)
(* small numbers.  Quotes and snapshots move no money and are left out,    *)
(* and so are option groups and expiry.                                    *)
(***************************************************************************)
EXTENDS Money

CONSTANTS
  Configs,      \* the configurations of a run, by name
  Instruments,  \* the instruments, in the order they were added
  Prices        \* what a bar may close or fill at

\* What a run fixes before its first event.
Config ==
  [leverage: Nat,            \* AccountMode: 0 for Cash, else Margin's leverage
   capital: Nat,             \* initial_capital
   fee: Nat,                 \* the fee model's charge per unit
   sizedFee: Nat,            \* config.fees, what the sizing of an entry allows for it
   hedging: BOOLEAN,         \* PositionPolicy::Independent
   maxPositions: Nat,        \* max_positions, 0 for none
   drawdown: Nat,            \* max_drawdown_pct, 0 for none
   liquidates: BOOLEAN,      \* liquidate_on_margin_call
   sides: SUBSET BOOLEAN,    \* the directions the strategy trades, TRUE for long
   adopts: BOOLEAN,          \* it starts on positions already held
   openUnits: SUBSET (Nat \ {0}),
   \* bounds
   maxUnits: Nat, maxEvents: Nat, maxMoves: Nat]

ASSUME ConfigAssumption == \A c \in DOMAIN Configs : Configs[c] \in Config
ASSUME PriceAssumption == Prices \subseteq Nat \ {0}
ASSUME InstrumentAssumption == IsFiniteSet(Instruments)

VARIABLES
  run,        \* the name of the configuration, chosen at the start
  account,    \* SharedAccount: balance, locked, halted
  kernels,    \* EventSession::kernels, by instrument
  lastClose,  \* last_close, 0 for None
  step,       \* the event being applied, and what apply_current holds meanwhile
  samples,    \* length of equity_curve
  equity,     \* its last sample
  peak,       \* peak_equity
  booked,     \* profit of all trades recorded so far
  calls,      \* margin calls reported so far
  moves,      \* money operations so far, to bound a run
  finished    \* the session was consumed by finish

vars == <<run, account, kernels, lastClose, step, samples, equity, peak, booked,
          calls, moves, finished>>

Leverage     == Configs[run].leverage
Capital      == Configs[run].capital
Fee          == Configs[run].fee
SizedFee     == Configs[run].sizedFee
Hedging      == Configs[run].hedging
MaxPositions == Configs[run].maxPositions
Drawdown     == Configs[run].drawdown
Liquidates   == Configs[run].liquidates
Sides        == Configs[run].sides
Adopts       == Configs[run].adopts
OpenUnits    == Configs[run].openUnits
MaxUnits     == Configs[run].maxUnits
MaxEvents    == Configs[run].maxEvents
MaxMoves     == Configs[run].maxMoves

None == 0
Idle == [phase |-> "idle"]
Between == step.phase = "idle" /\ ~finished

Init ==
  /\ run \in DOMAIN Configs
  /\ account = [balance |-> Configs[run].capital, locked |-> 0, halted |-> FALSE]
  /\ kernels = [i \in Instruments |-> NewKernel]
  /\ lastClose = [i \in Instruments |-> None]
  /\ step = Idle
  /\ samples = 0 /\ equity = 0 /\ peak = Configs[run].capital
  /\ booked = 0 /\ calls = 0 /\ moves = 0 /\ finished = FALSE

-----------------------------------------------------------------------------
(* Lending and draining *)

\* Mutant: the whole balance, as in a cash account.
MutLent(i) == account.balance

\* What kernel i is lent: the balance less what the other kernels have locked.
Lent(i) == account.balance - (account.locked - TotalLocked(kernels[i]))

\* SharedAccount::reconcile
Reconciled(a, cash, locked) == [a EXCEPT !.balance = @ + cash, !.locked = @ + locked]

\* The account after a kernel that was lent `injected` and had `locked` locked.
Drained(a, k, injected, locked) ==
  Reconciled(a, k.cash - injected, TotalLocked(k) - locked)

PortfolioCount == SumFunction([i \in Instruments |-> OpenCount(kernels[i])])

\* set_external_open_count: what the gate of kernel i will count for the whole event.
ExternalCount(i) == PortfolioCount

Printed(closes) == {i \in Instruments : closes[i] # None}

\* Equity of the portfolio at the last closes; an instrument without one counts nothing.
Equity(a, ks, closes) ==
  a.balance + SumFunction([i \in Printed(closes) |->
    IF Leverage = 0 THEN Value(ks[i], closes[i]) ELSE Unrealized(ks[i], closes[i])])

Required(ks, closes) ==
  SumFunction([i \in Printed(closes) |-> Maintenance(ks[i], closes[i], Leverage)])

\* adopt_position: before the first sample only, long only, not under leverage.
Adopt(i, price, units) ==
  /\ Between /\ Adopts /\ samples = 0 /\ moves < MaxMoves
  /\ Leverage <= 1
  /\ Hedging \/ OpenCount(kernels[i]) = 0
  /\ LET lent == [kernels[i] EXCEPT !.cash = Lent(i)]
         held == [long |-> TRUE, units |-> units, cost |-> price * units, fees |-> 0]
         k    == Opened(lent, held, Leverage)
     IN  /\ account' = Drained(account, k, lent.cash, TotalLocked(lent))
         /\ kernels' = [kernels EXCEPT ![i] = [k EXCEPT !.cash = 0]]
  /\ moves' = moves + 1
  /\ UNCHANGED <<run, lastClose, step, samples, equity, peak, booked, calls, finished>>

\* apply_current up to the kernel's step; the event is a bar or a print.
BeginStep(i, close) ==
  /\ Between /\ samples < MaxEvents
  /\ step' = [phase |-> "exits", at |-> i, close |-> close, injected |-> Lent(i),
              locked |-> TotalLocked(kernels[i]), external |-> ExternalCount(i),
              called |-> FALSE, pnl |-> 0]
  /\ kernels' = [kernels EXCEPT ![i].cash = Lent(i)]
  /\ UNCHANGED <<run, account, lastClose, samples, equity, peak, booked, calls, moves,
                 finished>>

-----------------------------------------------------------------------------
(* The kernel's step, as far as money goes *)

Stepping == step.phase \in {"exits", "orders"}
Current == kernels[step.at]

Moved(k, pnl) ==
  /\ moves < MaxMoves /\ moves' = moves + 1
  /\ kernels' = [kernels EXCEPT ![step.at] = k]
  /\ step' = [step EXCEPT !.pnl = @ + pnl]
  /\ UNCHANGED <<run, account, lastClose, samples, equity, peak, booked, calls, finished>>

\* The gates every opening passes: both halts, and the cap on the count taken
\* when the event began.
MayOpen ==
  /\ ~Current.called /\ ~Current.riskHalted
  /\ MaxPositions > 0 => step.external < MaxPositions
  /\ Hedging \/ OpenCount(Current) = 0

Fits(value, fees) == Funding(value, Leverage) + fees <= Free(Current)

\* open_at, once it has its units: the fee model's charge is taken whatever the
\* units were reckoned with.
Open(long, price, units) ==
  /\ MayOpen
  /\ Moved(Opened(Current, [long |-> long, units |-> units, cost |-> price * units,
                            fees |-> Fee * units], Leverage), 0)

\* An order for a number of units is refused when they do not fit.
OpenOrdered(long, price, units) ==
  /\ step.phase = "orders"
  /\ Fits(price * units, Fee * units)
  /\ Open(long, price, units)

\* A signal, a deferred intent (before the margin check, on a flat ledger) or an
\* order for a fraction of the capital, at most the whole: the units are what the
\* free capital pays for at the configured rate, rounded down to lots, and nothing
\* is asked about what they are charged.
OpenSized(long, price, units) ==
  /\ Stepping
  /\ step.phase = "exits" => OpenCount(Current) = 0
  /\ Fits(price * units, SizedFee * units)
  /\ Open(long, price, units)

\* add_at: the next slice of a partly filled entry; no gate is asked again.
Add(id, price) ==
  /\ step.phase = "orders"
  /\ Current.positions[id].units < MaxUnits
  /\ Fits(price, Fee)
  /\ Moved(Added(Current, id, price, 1, Fee, Leverage), 0)

\* close_at
Close(id, price) ==
  /\ Stepping
  /\ LET p == Current.positions[id] IN
     Moved(Closed(Current, id, price, Fee, Leverage), Pnl(p, price, Fee * p.units))

\* reduce_at, of less than the whole position.
Reduce(id, price) ==
  /\ step.phase = "orders"
  /\ Current.positions[id].units > 1
  /\ Moved(Reduced(Current, id, 1, price, Fee, Leverage),
           Pnl(Slice(Current.positions[id], 1), price, Fee))

\* The margin check of step_inner, on the kernel's own slice of the portfolio.
MarginCheck ==
  /\ step.phase = "exits"
  /\ LET k        == Current
         required == Maintenance(k, step.close, Leverage)
         breach   == /\ OpenCount(k) > 0 /\ ~k.called /\ required > 0
                     /\ k.cash + Unrealized(k, step.close) < required
         sold     == [Emptied(k) EXCEPT
                        !.cash = @ + Proceeds(k, step.close, Fee, Leverage)]
         after    == IF breach /\ Liquidates THEN sold ELSE k
     IN  /\ kernels' = [kernels EXCEPT ![step.at] = [after EXCEPT !.called = after.called \/ breach]]
         /\ step' = [step EXCEPT
                       !.phase = "orders", !.called = breach,
                       !.pnl = @ + IF breach /\ Liquidates
                                   THEN Profits(k, step.close, Fee) ELSE 0]
  /\ UNCHANGED <<run, account, lastClose, samples, equity, peak, booked, calls, moves,
                 finished>>

-----------------------------------------------------------------------------
(* After the kernel's step *)

\* Mutant: a kernel's own call halts that kernel and the account only.
MutHaltAll(ks) == ks

\* halt_all for a margin call
HaltAll(ks) == [i \in Instruments |-> [ks[i] EXCEPT !.called = TRUE]]

\* Every instrument that has printed sells out at its last close, through the
\* shared account (the liquidation loop of apply_current, and finish).
SoldOut(ks, closes) ==
  [i \in Instruments |-> IF closes[i] = None THEN ks[i] ELSE Emptied(ks[i])]

Settled(a, ks, closes, fee) ==
  Reconciled(a,
    SumFunction([i \in Printed(closes) |-> Proceeds(ks[i], closes[i], fee, Leverage)]),
    -SumFunction([i \in Printed(closes) |-> TotalLocked(ks[i])]))

SoldProfit(ks, closes, fee) ==
  SumFunction([i \in Printed(closes) |-> Profits(ks[i], closes[i], fee)])

\* RiskGate::on_equity
Trips(sample, top) ==
  Drawdown > 0 /\ top > 0 /\ (top - sample) * 100 >= Drawdown * top

\* Mutant: only the kernel of this event is told the equity.
MutObserve(ks, sample, top) ==
  [ks EXCEPT ![step.at].riskHalted = @ \/ Trips(sample, top)]

\* observe_equity on every kernel
Observe(ks, sample, top) ==
  [i \in Instruments |-> [ks[i] EXCEPT !.riskHalted = @ \/ Trips(sample, top)]]

\* Mutant: it asks again after the account has halted.
MutBreaches(halted, ks, closes, sample) ==
  Leverage > 0 /\ Required(ks, closes) > 0 /\ sample < Required(ks, closes)

\* Mutant: only the instrument of this event needs maintaining.
MutOwnBreaches(halted, ks, closes, sample) ==
  LET required == Maintenance(ks[step.at], step.close, Leverage) IN
  Leverage > 0 /\ ~halted /\ required > 0 /\ sample < required

\* Portfolio maintenance
Breaches(halted, ks, closes, sample) ==
  LET required == Required(ks, closes) IN
  Leverage > 0 /\ ~halted /\ required > 0 /\ sample < required

\* apply_current from the drain to its end.
EndStep ==
  /\ step.phase = "orders"
  /\ LET drained == Drained(account, Current, step.injected, step.locked)
         idle    == [kernels EXCEPT ![step.at].cash = 0]
         ks      == IF step.called THEN HaltAll(idle) ELSE idle
         halted  == account.halted \/ step.called
         closes  == [lastClose EXCEPT ![step.at] = step.close]
         sample  == Equity(drained, ks, closes)
         top     == IF sample > peak THEN sample ELSE peak
         breach  == Breaches(halted, ks, closes, sample)
         sells   == breach /\ Liquidates
         called  == IF breach THEN HaltAll(ks) ELSE ks
         sold    == IF sells THEN SoldOut(called, closes) ELSE called
         final   == Observe(sold, sample, top)
         tripped == /\ \A i \in Instruments : ~sold[i].riskHalted
                    /\ \E i \in Instruments : final[i].riskHalted
     IN  /\ account' = [IF sells THEN Settled(drained, called, closes, Fee) ELSE drained
                          EXCEPT !.halted = halted \/ breach \/ tripped]
         /\ kernels' = final
         /\ lastClose' = closes
         /\ equity' = sample /\ peak' = top
         /\ booked' = booked + step.pnl + IF sells THEN SoldProfit(called, closes, Fee) ELSE 0
         /\ calls' = calls + (IF step.called THEN 1 ELSE 0) + (IF breach THEN 1 ELSE 0)
  /\ samples' = samples + 1
  /\ step' = Idle
  /\ UNCHANGED <<run, moves, finished>>

\* finish: marked out at the last closes, at no charge.
Finish ==
  /\ Between
  /\ account' = Settled(account, kernels, lastClose, 0)
  /\ kernels' = SoldOut(kernels, lastClose)
  /\ booked' = booked + SoldProfit(kernels, lastClose, 0)
  /\ equity' = IF samples > 0 THEN account'.balance ELSE equity
  /\ lastClose' = [i \in Instruments |-> None]
  /\ finished' = TRUE
  /\ UNCHANGED <<run, step, samples, peak, calls, moves>>

KernelStep ==
  \/ \E long \in Sides, price \in Prices, units \in OpenUnits :
       OpenOrdered(long, price, units) \/ OpenSized(long, price, units)
  \/ Stepping /\ \E id \in DOMAIN Current.positions, price \in Prices :
       Add(id, price) \/ Close(id, price) \/ Reduce(id, price)
  \/ MarginCheck

Next ==
  \/ \E i \in Instruments, price \in Prices :
       \/ \E units \in OpenUnits : Adopt(i, price, units)
       \/ BeginStep(i, price)
  \/ KernelStep
  \/ EndStep
  \/ Finish

Spec == Init /\ [][Next]_vars
-----------------------------------------------------------------------------
\* Every part of the state has its type; only a step in progress holds cash.
TypeOK ==
  /\ run \in DOMAIN Configs
  /\ account \in [balance: Int, locked: Nat, halted: BOOLEAN]
  /\ lastClose \in [Instruments -> Prices \cup {None}]
  /\ \A i \in Instruments :
       /\ kernels[i].cash \in Int
       /\ \A id \in DOMAIN kernels[i].positions :
            kernels[i].positions[id] \in
              [long: BOOLEAN, units: Nat \ {0}, cost: Nat, fees: Nat]
  /\ step.phase \in {"idle", "exits", "orders"}
  /\ Stepping => step.at \in Instruments /\ step.close \in Prices
  /\ samples \in 0..MaxEvents /\ moves \in 0..MaxMoves

\* What the open positions of a kernel have taken out of the balance.
EntryFees(k) == SumFunction([id \in DOMAIN k.positions |-> k.positions[id].fees])
Cost(k) == SumFunction([id \in DOMAIN k.positions |-> k.positions[id].cost])
TakenOut(k) == EntryFees(k) + IF Leverage = 0 THEN Cost(k) ELSE 0

\* Between events the shared account mirrors the kernels' margin books, which
\* lock for the open positions and nothing else, and no kernel keeps any cash
\* (the lend and drain of apply_current, adopt_position, finish).
LocksMirrored ==
  step.phase = "idle" =>
    /\ account.locked = SumFunction([i \in Instruments |-> TotalLocked(kernels[i])])
    /\ \A i \in Instruments :
         /\ kernels[i].cash = 0
         /\ DOMAIN kernels[i].locks = IF Leverage = 0 THEN {} ELSE DOMAIN kernels[i].positions

\* A cash account goes long only: there the code values a short like a long.
LongInCash == Leverage = 0 => Sides \subseteq {TRUE}

\* Money is neither made nor lost between the trade records and the account:
\* the balance is the capital, plus what the trades booked, less the entry fees
\* of what is still open, and in a cash account less its cost.  Over any number
\* of slices, reductions, liquidations and instruments (credit_close, reduce_at,
\* add_at, finalize_all).
MoneyAccounted ==
  LongInCash /\ step.phase = "idle" =>
    account.balance =
      Capital + booked - SumFunction([i \in Instruments |-> TakenOut(kernels[i])])

\* Until something is liquidated, the equity sampled between events is the
\* capital and what was won or lost since, at the marks seen so far.  (In a cash
\* account a holding adopted before its instrument printed is not yet counted.)
EquityReadsCapitalPlusUnrealized ==
  (/\ LongInCash /\ Between /\ samples > 0 /\ calls = 0
   /\ \A i \in Instruments \ Printed(lastClose) : DOMAIN kernels[i].positions = {})
  => equity = Capital + booked
       + SumFunction([i \in Printed(lastClose) |-> Unrealized(kernels[i], lastClose[i])])
       - SumFunction([i \in Instruments |-> EntryFees(kernels[i])])

\* The account, the kernels' books and the trade records tell one story.
LedgersAgree == TypeOK /\ LocksMirrored /\ MoneyAccounted /\ EquityReadsCapitalPlusUnrealized

PortfolioFree ==
  account.balance + (IF Stepping THEN Current.cash - step.injected ELSE 0)
    - SumFunction([i \in Instruments |-> TotalLocked(kernels[i])])

UnitsAt(k) == SumFunction([id \in DOMAIN k.positions |-> k.positions[id].units])

Grows == \E i \in Instruments : UnitsAt(kernels'[i]) > UnitsAt(kernels[i])
OrderedEntry ==
  \E long \in Sides, price \in Prices, units \in OpenUnits : OpenOrdered(long, price, units)
SizedEntry(units) == \E long \in Sides, price \in Prices : OpenSized(long, price, units)

\* What the charge on a unit takes that the sizing did not allow for.
Unreckoned == IF Fee > SizedFee THEN Fee - SizedFee ELSE 0

\* What grows in a step is paid for by what the whole portfolio has free, although
\* the kernel sees only what it was lent.  An order for units, and the slices that
\* add to it, are paid with their fees (open_at, add_at).  An entry sized by the
\* free capital is paid too, but for the part of its fees that the configured rate
\* does not cover: where the fee model charges more than config.fees, as an itemized
\* fee_segment can, free capital ends below zero by at most that.
OpensWithinFree ==
  /\ OrderedEntry \/ (Stepping /\ Grows /\ \A units \in OpenUnits : ~SizedEntry(units))
       => PortfolioFree' >= 0
  /\ \A units \in OpenUnits : SizedEntry(units) => PortfolioFree' >= -(Unreckoned * units)

\* max_positions is the portfolio's: no more positions are ever open.  (Under
\* hedging two openings of one event may pass it; adoptions ask no gate.)
WithinPortfolioCap ==
  MaxPositions > 0 /\ ~Hedging /\ ~Adopts => PortfolioCount <= MaxPositions

\* What an instrument may spend, and how many positions there may be, is the
\* portfolio's to say.
SpendsWithinMeans == [][OpensWithinFree /\ WithinPortfolioCap']_vars

\* Halts reach everyone: between events the kernels agree on both, and the
\* account is halted exactly when they are (halt_all, observe_equity).
HaltIsShared ==
  step.phase = "idle" =>
    \A i \in Instruments :
      /\ \A j \in Instruments : /\ kernels[i].called = kernels[j].called
                                /\ kernels[i].riskHalted = kernels[j].riskHalted
      /\ account.halted = (kernels[i].called \/ kernels[i].riskHalted)

\* Once the account is halted no instrument opens anything, whichever of them
\* met the limit.
HaltStopsEveryInstrument ==
  [][account.halted => \A i \in Instruments : kernels'[i].nextId = kernels[i].nextId]_vars

\* A margin call is reported once, by a kernel or by the portfolio.
CallFiresOnce == calls <= 1

\* A portfolio that holds positions, and whose equity is below the sum of its
\* instruments' requirements, has had its margin call, unless the drawdown switch
\* halted the account before, after which nobody asks (apply_current).
BreachIsCalled ==
  LET required == Required(kernels, lastClose) IN
  (/\ Between /\ samples > 0 /\ Leverage > 0
   /\ \A i \in Instruments : ~kernels[i].riskHalted
   /\ required > 0 /\ Equity(account, kernels, lastClose) < required)
  => calls > 0
=============================================================================

# A TLA+ development of the raptorbt engine

This directory holds TLA+ modules that model raptorbt (`src/src`, a Rust
backtesting engine with Python bindings, and `src/python`, the strategy drivers
over it), the TLC configurations that check them on small instances, and proofs
that TLAPS checks for every value of the constants. `PROJECT.json` lists,
machine-readably, what this file explains: components, runs, the source lines
every definition stands for, the hazards, and the theorems.

## 1. The system

| component | state it keeps | operations | how it meets the others |
|---|---|---|---|
| typed order (`execution/orders/order.rs`) | status, filled quantity, flags, parent, OCO group | `transition` | owned by the order engine |
| order engine (`execution/orders/matching.rs`) | orders by id, next id, OCO groups | submit, modify, cancel, cancel all, link, one match pass over a bar or a print | called by the kernel; returns *outcomes*, which the kernel applies later |
| kernel (`portfolio/kernel.rs`, `kernel_orders.rs`) | position ledger, risk gate, margin book, deferred intents, pending closes, the order engine | `step`, `step_trade`, `step_quote`, `step_depth`, and the strategy's commands between steps | borrows cash from the session around each step |
| ledger (`portfolio/ledger.rs`) | open positions in opening order, their levels | open, add, reduce, close | under netting one position, under hedging several |
| risk gate (`portfolio/risk.rs`) | latch of the drawdown switch | `check_entry`, `observe_equity` | asked before every opening |
| margin book, shared account (`accounts/mod.rs`) | locks by position; balance, locked total, halt | lock, release, re-lock; reconcile, halt | the session moves every kernel's cash and locks into the shared account |
| option groups (`portfolio/option_groups.rs`) | none; reads every kernel's open option leg | requirement of a group, its shares | the session re-locks every sold leg after every event |
| event feed (`data/feed.rs`) | one cursor per stream, a heap of stream heads | `add_stream`, `next` | the session seals its schedule with it |
| session (`portfolio/session.rs`) | schedule and cursor, kernels, shared account, last mark per instrument | seal, push, `apply_current`, `adopt_position`, `finish` | drives the kernels |
| execution schedules (`execution/algos.rs`) | slices and their release times | spawn, release, cancel | submits child orders to the order engine |
| queue model, depth (`execution/queue.rs`, `data/book.rs`) | quantity ahead of a resting limit, traded volume, the book's levels | on quote, on depth, on print | may leave a limit unfilled |
| aggregators (`data/aggregate.rs`, `flow_bars.rs`, `renko.rs`) | the open window, flow sums, the last brick | push, flush | feed bars to strategies |
| session tracker (`core/session.rs`) | current day, range, square-off flag | `update` | tells intraday strategies start, square-off and end |
| Python drivers (`python/raptorbt/strategy`) | command and intent queues, order cache, clocks, id map | run loops, command routing, dispatch | call the bindings, which call the session |
| signals (`signals/*`) | the state of a left-to-right pass | clean, synchronise, combine, align | arrays in, arrays out; used by the array simulators |
| stops (`stops/*`), fills (`execution/fill.rs`, `slippage.rs`) | trailing extremes | initial stop, update; price of a fill | levels carried by positions |
| fees (`execution/fees.rs`, `indian_costs.rs`) | none | charge of one side | every simulator |
| array runner (`portfolio/runner.rs`, `engine.rs`), metrics (`metrics/*`) | curve, returns, drawdowns, trades; streaming accumulators | one bar, one trade, finish, report | drives one kernel over arrays |
| array simulators (`strategies/*`) | positions, cash, curve, trades | one pass over the bars | own their accounts; the pool drives kernels |
| rebalancing (`portfolio/rebalance.rs`) | units, cash, costs | one pass over the dates | stands alone |
| bindings, indicators, allocation, optimisation | floating-point series | pure | not modelled |

### What is hard about it

Nothing in the engine runs concurrently in the sense of threads. What makes it
hard is *order*: one step of the kernel lets nine sources touch one ledger
(expiry, two deferred intents, stops, a signal exit, requested closes, a margin
liquidation, matched orders, a signal entry, the market sweep), the match pass
decides for the whole book before anything is applied, fills may come in slices
that leave an order half-done over several events, contingencies (children,
one-cancels-other) fire in the middle of that list, and latching halts may trip
between the moment something is decided and the moment it is done. The
strategy, an arbitrary program, issues any command between any two events, and
the Python drivers put three queues between its handlers and the engine. A unit
test fixes one order of these things. The properties below quantify over all of
them.

The simulators over arrays are sequential, and hard in another way: the same
trade is written into cash, into a curve and into records by different lines;
signals decided on one bar may be filled on the next; several rules may want to
end a position on the same bar; and many figures are computed twice, in one pass
and over the whole series. There the properties reconcile the copies, over every
short series of bars. The hazards are listed line by line in `PROJECT.json`.

### What makes each part correct

* *Orders*: the lifecycle never moves illegally; an ended order stays ended; the
  events reported to the strategy tell the status the order is really in.
* *Matching*: no order trades on what its strategy had already seen; children
  wait for their parent and die with it; IOC/FOK orders are evaluated once;
  dated orders die at their date; a market order is settled on its bar.
* *Ledger*: one position under netting; a cap on positions whichever path opens;
  reduce-only orders only reduce; positions are the net of the orders' fills.
* *Execution schedules*: the slices carve the size without loss; they keep the
  interval and skip nothing; a stopped schedule is quiet; completion comes once.
* *Gates*: after a halt or expiry nothing opens.
* *Feed*: events come out in `(timestamp, phase, stream, sequence)` order, each
  exactly once.
* *Session*: cash and locks are conserved over lending and draining; halts reach
  every kernel; the portfolio cap counts every instrument.
* *Option groups*: what the sold legs of a group lock is what the legs held now
  require, whatever happened before; the worst loss found at the strikes is the
  worst anywhere.
* *Drivers*: a fill is told once; the cache agrees with the engine whenever no
  event is waiting; timers beat at each due event, in order; a bracket reaches
  the engine whole; an order goes to the instrument it was asked for.
* *Market data*: bars partition their tape, cut where their threshold is met and
  no later, and never read beyond their stamp; what is ahead in the queue only
  shrinks; a day has one session.
* *Simulators*: the account reconciles with the records; a fill deferred to the
  next open owes nothing to the bar it happens on; positions keep to their
  limits, stops only tighten; reports agree with each other.

## 2. The modules

| module | models | role |
|---|---|---|
| `Orders` | `order.rs`, one order's verdict in `matching.rs`, booking a fill and its contingencies in `kernel_orders.rs` | pure operators |
| `Kernel` | one `EngineKernel` and its strategy: state, one action per command and per phase of `step_inner` | the specification |
| `KernelProps` | — | type invariant, safety, action and liveness properties |
| `MCKernel` | — | model values of the kernel's runs |
| `OrderedDelivery` | — | abstract: whatever is delivered is the least of what is left |
| `EventFeed` | `data/feed.rs`: streams, cursors, the heap of stream heads | the k-way merge, shown to implement `OrderedDelivery` |
| `Schedule`, `MCSchedule` | `session.rs` up to the kernels: attaching, sealing, pushing, ordinals, the cursor | composes the feed |
| `Money` | what opening, adding, reducing and closing move: `kernel.rs`, `ledger.rs`, `accounts/mod.rs` | pure operators on one kernel's cash, positions and locks |
| `Session`, `MCSession` | `session.rs` around the kernels: lending, draining, equity, halts, margin calls, liquidation, adoption, the finish | composes several kernels over one account |
| `Twap`, `MCTwap` | `algos.rs` and the calls of `kernel_orders.rs` around it | composes the registry of schedules with `Kernel` |
| `Driver`, `MCDriver` | the run loops, the clock, the cache and the command queues of `python/raptorbt/strategy` | composes a strategy, a runner and an abstract engine |
| `Bars` | `aggregate.rs`, `flow_bars.rs`, `renko.rs` | thirteen builders fed by one tape |
| `Queue` | `queue.rs` over `book.rs`, as the kernel drives them | resting limits in the queue |
| `TradingDay` | `core/session.rs` | the session tracker over days with gaps |
| `MCMarketData` | — | the three above as parts of one state space |
| `Signals` | `signals/*`, the combination of `strategies/multi.rs` | pure operators, one bar at a time |
| `Costs`, `Fills` | fees, charges, lots; fill prices, slippage, limit and stop fills, the calculators of `stops/` | pure operators |
| `Basket`, `Pairs`, `Options`, `Spreads`, `TickSim` | `strategies/basket.rs`, `pairs.rs`, `options.rs`, `spreads.rs`, `tick.rs` | one array simulator each |
| `Pool` | `strategies/portfolio.rs` | several kernels spending one cash pool |
| `Stops` | one position of the kernel, priced, with its levels; beside it the calculators of `stops/` | the exit path |
| `Metrics`, `Reports` | `metrics/*`, the figures of `engine.rs`; the bookkeeping of `runner.rs` | operators; a run and its reports |
| `Desk` | `strategies/multi.rs`, the array operators of `signals/*` | several strategies on one instrument |
| `Groups` | `option_groups.rs` and `EventSession::regroup_option_margin` | option legs margined together |
| `Rebalance` | `portfolio/rebalance.rs` | following target weights |
| `Simulators`, `MCSimulators` | — | the eleven above as parts of one state space, and what their plans and bars are assumed to be; values for TLC |
| `Sums` | — | lemmas about sums over finite sets |
| `KernelProofs` (with `Twap`), `FeedProofs`, `SessionProofs`, `DriverProofs`, `MarketProofs`, `SimulatorProofs`, `LimitProofs` | — | lemmas and theorems |

### How `Kernel` corresponds to the code

A kernel is *between steps* when `phase = "observe"`. There the strategy's
commands are actions: `Submit` (`submit_order_full`), `LinkOco`, `Cancel`,
`Modify`, `RequestClose`; and so are the two things the caller may do to a
kernel: `ObserveEquity` (the drawdown switch) and `HaltMargin` (the portfolio's
margin call). `BeginStep` enters `step_inner`; from there each phase of that
function is an action, taken in its order:

`expiry` (`SettleExpiry` or `FillIntents`) → `exits` (`Exits`) → `margin`
(`MarginCheck`) → `match` (`Match`) → `apply` (`AnnounceVerdict`, `FillOrder`,
`EndMatch`) → `signal` (`StashEntry`, `BarredEntry`, `EnterOnSignal`, `NoEntry`)
→ `sweeping` (`StartSweep`) → `sweep` (`FillOrder`, `EndStep`) → `observe`.

The phases are separate actions so that a property can be stated about the
middle of a step, not because anything interleaves there: no strategy action is
enabled outside `observe`, as no Python runs inside a step.

`Match` computes the verdict of every order against the book *as it stood*, and
applies the transitions the book makes itself; `verdicts` then holds what is
still to be applied, in the code's order (expiries first, then by submission).
`FillOrder` is `apply_match_outcome` of a fill, cut into its exits:
`LeaveWorking` (passed over by the fill model, or nothing wanted), `RefuseFill`,
`KillFill` (fill-or-kill on a short print), `AddFill`, `OpenFill`, `CloseFill`.

What is abstracted:

* *Prices.* Where an order's price stands against the event is a choice:
  `away`, `touch` or `cross`; likewise which position's stop is hit (`Exits`),
  whether equity breaches maintenance (`MarginCheck`) and whether an entry can
  be funded. Every order of prices the code could meet is one of the choices.
* *Quantities* are small natural numbers; lot rounding (`Lots`) and the slicing
  by the print's size (`Slice`) are kept.
* *A capital fraction* resolves to any of `FracUnits`, zero included.
* *Fees, slippage, profit, trade records, the queue model and the limit fill
  probability*: the last two may pass over a limit (`PassedOver`; `Queue` has the
  queue model itself), the others change no control (`Stops` has them priced).
* *Three history fields* of an order (`faulted`, `notices`, `fillIdx`) record
  what properties speak about; no guard reads them.

### How `Schedule` and `EventFeed` correspond to the code

`EventFeed` is `EventFeed::next`: the first call primes the heap with the head of
each stream (`Ready`), and `PopNext` takes the least entry and pulls the same
stream again.
`Schedule` attaches arrays (`SetOne`, `SetTicks`), adds them to a feed in the
order of `seal` (bars, then prints and quotes per instrument, then depth), gives
every popped event the next ordinal of its instrument (`SealNext`), and then lets
the driver apply entries (`Apply`) while live ones arrive behind them (`Push`).
The loop of `seal` is cut into its turns so that the merge can be watched. A push
before the seal seals first in the code; it is the action `Seal` followed by
`Push`. Live timestamps are left out, because a pushed entry goes to the end
whatever its time; arrays attached after the seal, which the code never reads,
are left out too.

### How `Session` and `Money` correspond to the code

`BeginStep` is `apply_current` up to the kernel's step: it lends the kernel the
balance less what the *other* kernels have locked and freezes the portfolio's
open count. Between it and `EndStep` the stepping kernel does any sequence of
`Open`, `Add`, `Close` and `Reduce` (which of them a step does, and when, is
`Kernel`'s subject), with `MarginCheck` between exits and orders. `EndStep` is
the rest of `apply_current`: drain, escalate the kernel's own call, take the
close, sample equity, look for a breach of the portfolio, liquidate, show the
equity to every drawdown switch. `Adopt` and `Finish` are `adopt_position` and
`finish`. The liquidation loop lends and drains kernel by kernel; as what a close
credits does not depend on the cash it finds, the model adds the proceeds up.

Prices are 8 or 16, so that an initial rate of a half, a maintenance rate of a
quarter and the halves of a position are exact; fees are one per unit each way.
`Open` is the end of `open_at`: it charges what the fee model charges (`Fee`) and asks
nothing. Two ways lead to it. `OpenOrdered` is an order for units, refused unless its
cost and charge fit (`kernel.rs:1550`). `OpenSized` is a signal, a deferred intent or
an order for a fraction: its units are any number that the free capital pays for at
the configured rate (`SizedFee`, `config.fees`), and what they are then charged is not
asked about. The two rates differ where an itemized `fee_segment` replaces the flat one,
and then free capital may end below zero (section 5). A fraction is at most one:
orders are refused otherwise (`strategy_bindings.rs:685`), intents documented so (`intents.py:17`);
a `modify` to a larger one, which nothing refuses (`strategy_bindings.rs:33`), is left out.

Left out: option groups (`Groups`), expiry, per-instrument capital caps, quotes and
snapshots (they move no money). Shorts are traded on margin
only: a cash account values a short like a long, the historical model its own
comments describe (`accounts/mod.rs:8`), and money is not accounted for there.

### How `Twap` corresponds to the code

A schedule is no order: it is a plan, kept in a registry beside the book, whose
slices the kernel submits as ordinary market orders. Between steps the strategy
registers one (`SubmitTwap`, with `AlgoEngine::submit`'s refusals as its guard)
or stops one (`CancelTwap`, `cancel_algo`, which also cancels the slices it has
working). In the `sweeping` phase of a step, before `StartSweep`,
`ReleaseSlices` is `release_algo_slices`: every due schedule gives one slice, in
the order of registration, and finished or stopped schedules are drained with
their `AlgoCompleted` event. Everything else a kernel does is `KernelStep`, a
step of `Kernel` that leaves the registry alone. A step that ends before the
release phase (`BarredEntry` is the case) releases nothing.

Units are natural numbers, and `Cut` rounds down where the code's floats round:
what matters is that slices are differences of neighbouring cuts. `planned`,
`stopped`, `completed` and `chances` are history that no guard reads.

### How `Driver` corresponds to the code

A run loop takes the scheduled events one by one (`NextEvent`), and treats each
in stages, which `agenda` lists: the clock's due points, the least first
(`OnTimeEvent`), the
composite bars and the data handler (`OnData`), the queued commands one at a
time (`ApplyCommand`), the engine's step, and the dispatch of the step's events
one at a time (`DispatchEvent`), each folded into the cache before its handler
runs. A print may complete a primary bar, whose handler and commands come first;
a quote drains commands but no intents. `Handler` is whatever one call of a
handler may do: nothing, queue an order, a bracket, a cancel or an intent, set an
alert or a timer. A handler never reaches the engine: that is the point of the
queues, and what the properties are about.

The engine is abstract: between `ApplyCommand` and `EndStep` any of its orders
may fill, in part or whole, be rejected or die with its parent, signals and
stops may open and close, and each leaves the events `kernel_orders.rs` gives
for it, in its order. `queued` is what commands left pending in a kernel, which
`apply_current` returns at that instrument's next event. `fills`, `fired` and
`routed` are history.

### How `Bars`, `Queue` and `TradingDay` correspond to the code

`Bars` pushes one record at a time (`PushRecord`) into every builder at once, so
that all read the same tape, and may flush them (`Flush`). A builder is
`window`, `partial` bar, sums of signed flow, and Renko's level and pending
bricks; what it emits is kept with the last record the bar may depend on. A day
has two timestamps; the civil calendar is computed as `civil_from_days` does,
and the properties recompute it from leap years.

`Queue` is the kernel's side of the model: `RestLimit`, `MoveLimit`, `StepQuote`,
`StepDepth` and `StepPrint`. A print that reaches a limit joins the estimate with
its volume and takes the verdict `Judged`; an order without an estimate falls to
the fill probability, which is a choice.

`TradingDay` handles each bar with its neighbours' timestamps (`Update`), days of
ten minutes, gaps from one minute to more than a day.

### How the simulators correspond to the code

Each simulator is one loop over arrays; its action `Bar` (`Tick`, `Event`, one
date) is one turn of that loop, whole, with the order of the code's statements
kept as a chain of named operators from book to book, and `Finish` is what runs
after the last bar. `plan` is the configuration, `book` the account, positions
and records. Money and prices are integers, rates are thousandths rounded down,
quantities whole units or lots: the properties compare sums the code forms in two
places, and both places round alike. Under next-bar-open timing the code shifts
whole arrays of cleaned signals by one bar; as cleaning reads them left to right,
the model carries what a bar decided in `due`.

* `Basket`, `Pairs`, `Options`, `Spreads`: mark, exit, enter, record, in the order
  of each loop; `Pairs` regresses its hedge ratio over the closes its window
  holds; `Spreads` settles each leg at its own expiry and squares off by the clock.
* `TickSim`: stop, target, deadline, signal; entries at the ask, exits at the bid.
* `Pool`: `ExitPhase` steps the kernels that hold a position, `EntryPhase` lends a
  budget to each flat kernel whose signals enter, then the pool is marked and its
  drawdown halt latched.
* `Stops`: one position over its bars as the kernel prices it: extremes, stop or
  target (the adaptive path chooses when both are touched), trailing, deferred
  intents. The calculators of `stops/` are driven over the same bars as their
  trait asks, `calculate_stop` at the entry and `update_stop` at every bar.
* `Reports`: what the runner keeps of every bar, the accumulators of `metrics/`
  beside it, and the reports both make. What the kernel did on a bar is a sample.
  Means are kept as sums, squared deviations multiplied by their count, ratios as
  their two parts: what agrees here agrees up to the last square root and factor.
* `Desk`: the combined account and an account per strategy over the same votes;
  the cleaner of long and short signals; the array operators on the bars so far.
* `Groups`: an event is one kernel's step on one option leg (open, reduce, close,
  settle, its own margin check), the drain, the regrouping, the portfolio's check
  and liquidation. Orders that come to nothing are not enumerated beside the empty
  one (`Sensible`).
* `Rebalance`: a date marks the book, asks the policy, and trades every asset to
  its target.

### Configurations

A configuration (`Config`, `Runs`, `plan`) is what a run of the program fixes
before its first event, plus what the strategy is allowed to use. A model starts
by choosing one of them, so one run of TLC covers several scenarios; the proofs
hold for every set of configurations. `MCMarketData` and `Simulators` put
modules that share nothing beside each other: `part` says which one a behavior
explores, and the run's properties are conjunctions over the parts.

## 3. The runs

| run | parts | checks |
|---|---|---|
| `KernelOrders` | resting, hedged, linked, settling on bars; sliced, dated on prints | `TypeOK`; `WithinMaxPositions`; `OrdersTellTheirStory` (the notices tell the status, no illegal move); `OrdersEndInTime` (market orders settle on their bar, IOC and FOK live one, dated orders die, routed ones work); `FillsAddUp` (positions are the net of the fills, within the request); `ChildWaitsForParent`; `EndedOrdersStayEnded`; `FillCancelsSiblings`; `ReduceOnlyNeverOpens` |
| `KernelTiming` | signalled, deferred, settling | `OneNetPosition`; `NoLookahead`; `HaltStopsOpens`; `OrdersSettle` (liveness: deferred market orders and orphans end) |
| `Schedule` | two instruments, eight streams or fewer, two pushes | `ScheduleIsWhole` (nothing lost or doubled by the seal, bars after their ticks, ordinals count); `RoutedOrderMeetsNextPrint`; `DeliversInOrder` (refinement); `EverythingApplied` (liveness) |
| `Session` | cash, leveraged, riding, funded, capped | `LedgersAgree` (types, locks mirrored, money accounted for, equity is capital plus unrealized); `HaltIsShared`; `CallFiresOnce`; `BreachIsCalled`; `SpendsWithinMeans` (orders for units and added slices within what is free, sized entries within it but for fees their sizing leaves out, the portfolio's cap); `HaltStopsEveryInstrument` |
| `Twap` | spread, waiting, printed | `PlanIsKept` (types, slices add up, completion told once, slices settle on their bar); `SlicesKeepPace`; `StoppedTwapIsQuiet` |
| `Driver` | clocked, interleaved, printed | `FillsToldOnce`; `CacheMirrorsEngine`; `ClockKeepsTime`; `BracketsStayWhole`; `DataHandlersRouteHome` |
| `MarketData` | bars, queue, day | `BarsAreRight` (bars partition the tape, thresholds are tight, bricks track the price); `NoBarLooksAhead`; `OneSessionADay`; `QueuePlaceHolds` (the earlier order is ahead, what is ahead only shrinks) |
| `Simulators` | basket, pairs, options, spreads, ticks, pool, stops, reports, desk, groups, rebalance | `BooksBalance` (accounts reconcile with records); `DecidedBeforeFilled`; `HeldWithinLimits`; `FiguresAgree` (what one pass accumulates and the reports, combined signals, group prices, targets); `HaltOpensNothing` |
| `OcoBothLegs`, `HedgedSlices`, `HookRouting`, `PairsCurve` | one each | disagreements between what the sources say and what the code does (section 5) |

A property of `Simulators` is the conjunction, over the parts, of what each
module says of its own account: its comment there lists them, and each module
states its own before its last line.

Bounds of the kernel's runs: `maxOrders` (1 to 3), `maxIdx` (3 or 4 events),
`maxNow` (timestamps 0 to 3), `volumes` and `units` up to 2. Three orders are a
parent with two linked legs, the largest group the contingencies relate. An
order needs at most three events to run its course (placed, triggered, filled),
a sliced one two prints after the one it was placed on, and a deferred intent one
more. Timestamps that may repeat or advance reach both sides of each date, of the
latency and of the activation and expiry instants. `DayLength` is 2 units and
`TzOffset` 1, so the trading date rolls over inside a run and not at a multiple
of the day. Runs stop when the data does, so deadlock is not checked. No symmetry
is used: ids are submission order and matter. `lateChildren` (a child of a parent
that has filled) is never enabled: such a child leaves the lifecycle, see
section 5.

`Schedule` runs two instruments with streams of up to two events at times 0 and
1: ties within a stream, between streams, between instruments and between phases
all occur. `Session` runs two instruments for three events and three money
operations (`maxEvents`, `maxMoves`): an opening on each and one that closes,
reduces or adds are enough for every interplay the properties speak of, since
each relates the account to at most one stepping kernel and the rest. The rate entries
are sized with is what they are charged (*leveraged*, *riding*), less (*funded*, and none
at all in *cash*) or more (*capped*).

`Twap` runs up to two schedules of two or three slices over four or five events.
*Spread* has two at once under hedging, with signals that end a step before the
release; *waiting* defers their fills to the next open, where they may be
stopped, canceled or expire; *printed* fills slices in parts while quotes and an
order of the strategy's own pass between them, and unwinds with a reduce-only
schedule. Totals of 5 in 3, 4 in 3, 5 in 2 and 3 in 2 slices do not divide
evenly; timestamps that repeat or jump put events inside and beyond an interval.
`SlicesSettle` has the premise `WholeSlices` (every slice of every plan is a
number of whole lots, which the three configurations satisfy): the remainder of an
odd lot is refused on bars and stays working.

`Driver` runs tapes of three or four events of two instruments: what a handler
queues at the first is applied at once or at the second, told at the second or at
the third, and a bracket's child is treated one event after its parent. The
clocked tape jumps from 2 to 4 over points of a timer of period 1, the others
carry two orders, a cancel and two intents; handlers may be called more often,
their commands are what is counted.

`MarketData` feeds thirteen builders four records of one of four tapes (prints,
prints of which some tell their direction, finer bars, records up to a year apart from New Year's Eve on, so
that months, years and a leap day are crossed), two resting limits four market
events under quotes alone or quotes and depth of one level (`BookDepth`), and the
tracker four bars with gaps of 1 to 13 minutes in days of ten. Four records
complete a threshold and leave a rest; two orders at one price are all that
`EarlierIsAhead` compares. That a day is squared off once is asked where the
square-off time is not before the opening, as every configuration of the session's
times has it: otherwise a bar before the opening already triggers it, and the start
of the session resets the trigger.

`Simulators` runs three bars (basket, pairs, pool, stops), four (options,
reports, desk), five (spreads, over two days and two expiries), six ticks, four
events on two or three option legs, and three dates of two assets. A position
decided on one bar, filled on the next and ended on a third needs three; a
reversal, a second trade after the cooldown or a spread whose legs expire apart
need the others' fourth and fifth.

*Fairness.* `Schedule` assumes `WF_vars(Driver)`: the driver seals and applies
entries as long as there are any: the run loops of `portfolio_runner.py` and
`tick_runner.py` apply the current entry until `session.current()` is `None`.
`Kernel` assumes `WF_vars(Market)`: once an event is there the driver steps the
kernel and a step runs to its end. The code justifies it: `step_inner` is a
terminating function, and the drivers loop over the schedule to its last event.
Nothing is assumed of the strategy. The liveness properties carry the premise
that enough events are left (`idx + 1 < MaxIdx`); without data nothing is
promised and nothing happens. `DeferredMarketSettles` says that under
next-bar-open a market order is settled once another bar comes; `OrphansDie` that
a child whose parent died is canceled. The other modules make no promise of
progress: their loops are over finite arrays.

## 4. The proofs

TLAPS checks, from `ConfigAssumption` (every configuration is a record of the
right types), `ClockAssumption` (a day has a positive length, the offset is a
natural number), `NoOrderAssumption` (the "none" id is no id) and, for the
drivers, `RunsAssumption` (every run is a record of the right types whose tape
goes forward in time), for the feed `StreamAssumption` (the arrays a stream may hold are sorted, as
`add_stream` asserts), for the schedule `ScheduleAssumption` (instruments are
indices from one to their number, a natural number bounds the pushes), for the session
its own `ConfigAssumption`, `PriceAssumption` (prices are positive) and
`InstrumentAssumption` (instruments are finitely many), for execution schedules
`PlanAssumption` (plans are records of the right types), for the session tracker
`DayAssumption` (times are natural numbers, a day has a positive length, a bar's open
lies within its range), for the queue `QueueAssumption` (prices and sizes are
natural numbers, an order asks for something, "unknown" is no size) and for the bars
`BarsAssumption` (records are integers, a boundary's size is positive, as
`BarSpec::new` and `resolved_brick` insist) and, for its look-ahead, `TapeAssumption`
(the records of a tape come in time order, as the binding asks) and for the simulators the
assumptions of `Simulators` (a plan has a fee model of `FeeModel`, its money and the bars' are
integers, prices that divide are positive, instruments and legs finitely many;
`TimingAssumption`: the next-open timing fills at the open, as `FillPrice::for_timing`
has it; for the limits also: a structure has a leg, a stop and a target of a tick are at
least a unit of money off its price, a pool's rates are at most the whole, a low is the
lowest price of its bar and stops set below it are still prices) only:

* `TypesHold` — `Spec => []TypeOK`. The invariant is `TypeInv`, which adds
  that a step in progress has an event left to finish with
  (`phase # "observe" => idx < MaxIdx`): without it the clock could leave its
  bound. The work is in the fills, whose slices must be positive numbers:
  `SlicePositive`, `RecordFillOrders`.
* `NetHoldsOnePosition` — under netting at most one position. The argument:
  a step opens nothing, or has passed what `MayOpen` states (`OnlyGatedOpens`,
  one case per action); then the ledger is the new position alone.
* `CapHolds` — `max_positions`, from the same lemma and the cardinality of
  finite sets.
* `HaltsHold` — nothing opens after a halt or the expiry. The strengthening is
  `ExpiryInv`: past the expiry phase a step runs on an unexpired instrument.
* `EndIsFinal`, `NoOrderLooksAhead` — from `TurnInv`: an order the match pass or
  the sweep has picked is of an earlier event (or a market order swept on its
  own event outside deferral), and unless it is linked it is live until its
  turn comes. Linked orders have to be excepted; that is the first finding.
* `ReduceOnlyReduces` — only the filled order's quantity grows in a fill, a
  reduce-only order can only take `CloseFill`, and that shrinks or removes the
  first position.
* `LegsEndTogether` (`FillCancelsSiblings`) — only a slice that completes an order
  gives it the status `Filled`, and `AfterFill` then goes over every order that is
  still working, whatever is pending for it.
* `LivesAreOrdered` — the strengthening `LifeInv` of the two theorems that follow.
  `HeardInv`: whatever may trade has been announced (what rests, the children let
  loose, the market orders that wait for the next open), the match pass fills nothing
  else and no market order, and the sweep takes market orders only.
  `StoryInv`: the notices tell the status of every order, except that an order whose
  outcome waits to be announced has already moved while its strategy does not know.
  `ChildInv`: the child of an order that has not filled is waiting or was canceled.
* `StoryIsTold` (`OrdersTellTheirStory`), `ChildrenWait` (`ChildWaitsForParent`).
  Both are stated under `Acknowledging` and of orders that follow the lifecycle
  (`FollowsLifecycle`); section 5 says which orders leave it and how the code lets
  them. Without `HeardInv` an order could trade out of `Submitted`, and neither
  property would survive the fill.
* `StoppedStaysQuiet`, `PaceHolds` — of schedules composed with any kernel
  behaviour, for any plans and any clock. They rest on `SchedulesHold`, whose
  `PaceInv` says of each working schedule that its next release lies an interval
  past every slice it has released, and that it is ahead of the last chance only
  because a slice was released less than an interval before. The first half
  keeps slices apart when the next one comes; the second is what makes "nothing
  due was passed over" inductive, as the registry alone forgets why a release
  time is what it is. `RegistryInv` ties registry, orders and history together.
  Of the kernel only `KernelKeepsOrders` and `TimeMovesOn` are needed: no step of
  it drops an order, changes when it was placed or revives an ended one, and its
  clock never goes back.
* `PlansAreKept` (`PlanIsKept`) — a schedule releases exactly what its plan cuts, is
  told complete once, and its slices do not trail. `CarveInv`: the units out are the cut
  of the plan after the slices released, and each slice is a plain market order of fixed
  units, which nothing resizes: that is what keeps the sum. That every slice asks for
  something needs the arithmetic of `Cut` (`DivBounds`, `DivMonotone`, `ModBounds`,
  `ModMonotone` of `Sums`). `SettleInv` follows a slice through its step: a live one is
  of this step and still to be swept, or waits for the next open and then is in the
  sweep; it rests on `TurnInv` and on what the match pass may pick. It needs `WholeSlices`.

* `FeedImplementsMerge` — the k-way merge implements `OrderedDelivery` for any
  number of sorted streams. The strengthening says that the heap holds exactly
  the next event of every stream that has one left: then the least of the heap
  is the least of everything left, because a stream is sorted. Without it a
  stream missing from the heap would be overtaken. `FeedStaysInOrder` follows.
* `ScheduleHolds` — the strengthening `ScheduleInv` of a session's schedule, for any
  number of instruments and any sorted arrays. `FeedWhole`: the merge is in order and
  every event it was given waits in a stream or was returned (`Conserved`); `Merged`:
  the attached part of the schedule is what the feed has returned; `Numbered`: the
  ordinal of an entry counts the events of its instrument up to it; `Staged`: nothing
  is registered before the seal, nothing pushed or applied before its end, and the
  feed is empty from then on; `Seen`: what an instrument last saw is an applied entry.
  It starts from `SealedOnce`: the loops of `seal` register every array that was
  attached once, and nothing else.
* `SchedulesAreWhole` (`ScheduleIsWhole`), `RoutedOrdersWork`
  (`RoutedOrderMeetsNextPrint`), `ScheduleImplementsMerge` (`DeliversInOrder`) follow.
  That nothing is lost needs all of the strengthening: what is in the schedule is
  known through the feed, and that the feed is empty in the end only through its heap.
* `OrdersEnd` (`OrdersEndInTime`) — no order outlives the event that should be its
  last. The two parts about dates and routed orders are inductive as they stand; the
  others need `EndInv`. `EntryInv`: entries come with signals only and halts with
  margin only, so where `NeverBarred` holds every step reaches its sweep.
  `WholeInv`: on bars a working order for whole lots has traded nothing, so a fill ends
  it (`WholeFillEnds`). `MarketInv`: a working market order was placed at the event in
  hand and, once the sweep began, is still in it.
  `OneShotInv` gives the age a working order may have in each phase, or that the match
  pass has decided to fill it and has not yet come to it. The premises are what the
  code makes it depend on: a refused entry ends a step before its sweep
  (`NeverBarred`), a routed order misses the sweep on bars (`SameBar`), an odd lot
  leaves a remainder that stays working (`WholeLots`), and the fill model may pass an
  order over (`EvaluatedOnce`). Section 5 lists what happens without them.
* `FillsNetOut` (`FillsAddUp`) — no order is filled beyond its request, nothing is
  resized while it may trade, and, where only orders trade, the signed sum of the
  positions is the signed sum of the fills. The strengthening is `SliceInv`. A slice
  moves one position and one order by the same signed amount (`FillMovesLedger`), and
  all other actions move neither (`NetStays`). That the amounts are the same needs to
  know that a slice joins a position of its own side and closes one of the other:
  every order has the side of its template (`SidesInv`), every position the side of
  an order that may open one (`HeldInv`), and signals, exits, requests to close and
  the expiry, which move positions without an order, are off (`QuietInv`). What
  adds over a finite set is module `Sums`: the sum is a fold by a function chosen to
  solve a recursive equation, so it is shown first that a solution exists and that all
  agree (`SolutionExists`, `SolutionsAgree`), then that a sum gains what its function
  gains (`SumExtends`, `SumChanges`, `SumAdds`). The library's induction
  principles take an operator as a parameter and cannot be used here; in their place
  stands `SmallestSet`: a claim that fails for some subset of a finite set fails
  for a smallest one.
* `HaltsAgree` — the strengthening of the session's halts (`HaltInv`): all
  kernels agree on both halts and with the account at every point, except that a
  kernel which has just called is *ahead* until its event ends, and then no call
  was reported before. `HaltsAreShared`, `OneMarginCall` and `HaltsStopEveryone`
  follow: for any number of instruments, any prices and any configuration.
* `BooksAreKept` — the strengthening of the session's money (`LedgerInv`), at every
  point of an event and not only between events, since it is in the middle that cash is
  in two places. `Books`: each kernel's ledger and locks are sound, and only the
  stepping one holds cash. `Lending`: what it was lent is the balance less what the others
  have locked, and the account's lock total lags behind by what the step has changed.
  `Accounted`: the balance with what the step has moved so far is the capital and what
  the trades booked, less what is still out. `Counted`: under netting the open count
  given to the gate covers all the other kernels. Totals over all kernels and
  all positions change in one place at a time: `SumChanges`, `SumAdds`, `SumOnPart`,
  `SumGrows` of `Sums`.
* `MoneyAgrees` (`LedgersAgree`), `MeansAreKept` (`SpendsWithinMeans`) — from it. A kernel is
  asked only whether *its* cash suffices; that this is what the whole portfolio has free is
  `Lending`, and that the portfolio's cap holds although each gate sees a count taken
  before the step is `Counted`. `OrderedPays` is the case of an order for units, whose
  charge is in what it was asked. `SizedPays` is that of an entry sized by the capital: it
  passed with the fees of its sizing, so it ends short by no more than the difference,
  `Unreckoned` on each unit. `GrowthIsFunded` puts them together with the slices that are
  added, and shows that nothing else grows.
* `CallsAreMade` (`BreachIsCalled`) — a breach at a sample has its call. From `HaltInv`: a
  kernel that was called and is not ahead was reported, so the sample that finds a
  breach either makes the call or comes after it.

* `DriverTypes` — the drivers' state keeps its shape, for any tape, any number of
  instruments and clients' orders.
* `RoutesHome` (`DataHandlersRouteHome`) — what a data or time handler asked for
  reaches the instrument it was asked at. `RoutesInv`: a queued command of such a
  handler was asked at the event in hand, and a draining of the queue is still to
  come on the agenda. Without the second half it could be left for the next event,
  which is what happens to requests of event hooks (`HookRouting`).
* `BracketsHold` (`BracketsStayWhole`) — `BracketsInv`: a bracket's child stands
  right behind its parent in the command queue, so the two are drained one
  after the other, and a child whose parent has been drained heads the queue.
* `FillsAreTold` (`FillsToldOnce`) — `FillsInv`: the fills told and the position
  events still in the step's list make up the fills done, where a position event
  whose order event has just been told is not counted again; an order's fill has
  its position event right behind it (`Paired`); and what commands leave queued in
  a kernel tells of no fill. The count alone is not inductive, since dispatching
  takes the two events of a fill one at a time.
* `ClocksKeepTime` (`ClockKeepsTime`) — `ClockInv`: all that is scheduled is ahead of
  the clock, all that was handled is behind it, and what is still due at this
  event lies between: not beyond the event, and behind every point handled before
  it. The property says the first two, in which nothing would keep a point still due
  from coming out of turn.
* `CacheMirrors` (`CacheMirrorsEngine`) — the cache agrees with the engine whenever
  no event is waiting. `MirrorInv` says of every order (but one submitted after its parent
  filled, as the property), at any point, that the *last word* on it agrees with
  the engine: the last of the step's events that names it, else the last of its
  kernel's queued notices, else the cache.
  It needs `LinkInv` (the id map and the engine's orders agree, a child works on
  its parent's instrument), so that a parent's end, which cancels its children,
  is told at the instrument where they are, and `ClientsInv` (the ids given out are
  the first ones, and a queued order has one that neither the engine nor another
  queued order has), so that no order is overwritten by a later one.

* `DayHasOneSession` (`OneSessionADay`) — for any hours, offset and square-off time, and
  bars at any distance. `DayInv`: the tracker knows the day of its session and its range
  (`Follows`), a session that is on has its next bar on the same day (`EndsInTime`), and
  what was told of each bar was right (`TellsRight`). The tracker looks one bar ahead to
  end a session, so the invariant speaks of a tape on which one bar may not be handled
  yet. Days follow each other, so what is before the newest bar and not of its day is of
  no later bar's day (`Earlier`).
* `PlacesHold` (`QueuePlaceHolds`) — of a resting limit and one that came to its price
  later, the earlier is in line when the later is, with no more ahead of it (`InLine`).
  Alone this does not survive the later order's joining, whose estimate is what is
  displayed then, while the earlier joined another book: `WithinDisplay` says that nobody
  has more ahead than is displayed. A quote keeps it by capping every estimate alike. A
  snapshot does not cap, so that part holds under quotes alone; that what is ahead
  only shrinks holds under both.
* `BarsAreKept` (`BarsAreRight`) — for any tape, any boundary and any calendar. `BarsHold`
  says of each builder, before the flush, four things. `Whole`: its bars and what it
  holds are consecutive digests of the tape (open of the first record, close of the last,
  extremes and volume of all), so a record is in exactly one; a digest grows by one record
  as `Absorb` grows a partial bar (`DigestGrows`). `Dated`: a window is open exactly
  while something is held. `Told` and `Tight`: the sums and the count of a threshold builder are
  the tape's over the stretch since its last bar and not yet due, each bar was due and
  was not a record earlier; and the sign and the close remembered are those of the last
  record that set them, which the property finds on the tape by itself (`NextSign`,
  `NextTraded`). `Gridded`: the grid is within a brick of the price, and the next brick
  opens where the last closed unless its burst was cut off at the maximum (`GridGoesOn`).
  The remembered sign is what makes the strengthening necessary: it outlives bars, so
  what a bar holds does not determine when the next is due. After the flush `Ended`
  remains.
* `BarsLookBack` (`NoBarLooksAhead`) — for every tape in time order (`TapeAssumption`). It
  rests on the arithmetic of the civil calendar, which is proved for every day of every year
  against the calendar's own rules (365 days, the leap years, the lengths of the months):
  `CodeKnowsFirst` says that `days_from_civil` is the first of the month, `CodeKnowsMonth`
  that `civil_from_days` names the month a day lies in. Both count years from March,
  so `FirstFromMarch` and `MarchFollows` bring the calendar there; `EraYear` and
  `MonthSinceMarch` bound the divisions that find year and month. `WindowsEnd` follows:
  a record lies before the end of a window exactly if its own window is that one or an
  earlier one, by the calendar as by the code. The invariant `TimeHolds` says that the tape is in
  order, that bars handed out are of one window and parted from what is behind them (`Parted`),
  and that what a builder holds is of the window it has open (`Opened`).

* `FillsAreDecidedFirst` (`DecidedBeforeFilled`) — for the basket, the pairs, the options,
  the spreads and the priced stops, whatever the bars. The property compares two bars that
  agree in what a fill may know (the open, and for an option its opening premium), and
  the proof follows both through the statements of a step: the exits, entries and marks
  give the same positions, cash and records. The hedge ratio is the delicate one, since the window it
  is regressed over must end before the bar. A stop knows more, the open, the volume and
  how far the bar reached against the holder, and its price still depends on that alone:
  which of stop and target is taken does not depend on how far the bar ran the other
  way. `Shaped` gives the books their fields and says that the last exit is of an earlier
  bar (`Earlier`), so that an exit found on this bar is of this bar.
* `HaltIsFinal` (`HaltOpensNothing`) — for any number of instruments. A kernel that was asked to
  leave has no entry waiting (`Kernel`), so the position it holds after a bar is the one it
  held before; the entry phase takes the instruments by turns, and the proof goes up
  their number: once halted, a turn is a refusal and leaves every kernel as it was.
* `AccountsReconcile` (`BooksBalance`) — one balance equation for each of the seven simulators
  that keep an account, whatever the fee model, of which only that it gives a number matters
  (`FeeIsInt`). Between two bars part of the money is in the open positions, so the
  equation has a term for what they cost and every statement of a step is shown to
  keep it: `BasketHeld` and `PoolHeld` with a sum over what is held, in which one
  instrument changes at a time (`SumChanges`; a turn of the pool lends a kernel its budget and
  takes back cash, position and profit, `Settles`); `OptionHeld`, `StopHeld` with the one
  position's premium or price and its fee; `SpreadHeld` with what the settled legs
  of the structure have realized; `RebalanceHeld` with the units at their last prices, where a
  date's gain is the marks' difference (`PricesMark`). `PairHeld` says it of the first pair
  only, as the property does: the exit credits the short leg like the long one
  (section 5). Its hedge ratio is a fraction whose denominator, a regression's, has
  to be positive: `SquaresSpread` shows that n times the sum of squares is never less
  than the square of the sum, by induction up to n. The premises are the property's: a
  short needs a margin account for its sale to be money owed, and the pool's
  records are complete when it fills at the close.
* `LimitsHold` (`HeldWithinLimits`) — five simulators, each with a strengthening of its own.
  `SpreadLegal`: what a structure has realized is what its settled legs made, and a leg is
  settled exactly once its expiry has come. `TickHeld`: a position is opened a cooldown
  after the last record, and its stop and target lie on their own sides of it (`Bracketed`).
  `PoolLimited`: the cash is a natural number at every turn and not only between
  bars; a sale never costs more than it brings (`SaleFunds`), and a purchase never more
  than the budget it is sized by (`PurchaseFunds`), which is where the pool's fee has to be
  the percentage it reckons with; `AccSafe` counts what is held against the number the
  gate is given, by induction up the turns of a bar. `DeskKept` unfolds what the operators fold over their
  arrays: as the library's folds are recursive functions chosen by their equation,
  `FoldSolved` and `FoldIsUnique` show that there is one solution, and `PositionsRead` reads
  it as "a bar that enters, and none since that leaves" (`Opens`). `LevelHeld`: the levels of the position
  agree with the calculators' at the extremes seen so far (`Levelled`), which is what each
  bar needs of the one before; that a stop never turns up on the wrong side needs a price
  to be a positive number and a low to be the lowest.

`TurnInv`, `TypeInv`, `LifeInv`, `RegistryInv`, `PaceInv`, `CarveInv`, `SettleInv`, `HaltInv`,
`LedgerInv`, `DayInv`, `QueueInv`, `BarsHold`, `TimeHolds` and the invariants of the drivers were model-checked on the
runs' configurations as well. Three of them came out differently than they were first
written, which is how the premises `WholeSlices` and `MarketOpen <= SquareoffMinute`
were found, and that an order the queue let through in part keeps its exception when a
later print fills it by luck.

Only model-checked: the liveness properties `OrdersSettle` and `EverythingApplied`
(fairness and `ENABLED` are out of the prover's reach), and `FiguresAgree`: its two
sides fold over a curve or a list of trades, or one of them is the worst of a piecewise linear
loss over all prices, and the proof would be an induction over data; that a rebalanced
book sells nothing it does not hold rests on its equity staying positive, which the
bars of the run do and arbitrary prices need not.

## 5. What the sources say and the code does not do

Four are runs that expect a violation; the quotes are in `PROJECT.json`.

* `OcoBothLegs` — one bar that reaches both legs of a one-cancels-other pair
  fills both: outcomes are computed first and applied without a second look.
* `HedgedSlices` — under hedging the entry order is recorded on the oldest
  position rather than on the one it opened.
* `HookRouting` — an order queued in an event hook waits for the next event,
  which may be another instrument's, and goes there.
* `PairsCurve` — at a pair's signal exit the short leg is credited like the long
  one, so the curve leaves what the mark and the records say.

The rest was met while modelling, is kept here for the reader of the code, and is
modelled as the code has it unless said otherwise.

*Kernel and orders.* On bars, a market order routed from another instrument's
event carries an earlier ordinal and the sweep, which asks for equality
(`kernel.rs:1206`), never takes it. A refused signal entry returns from the step
(`kernel.rs:1126`) before slices are released and market orders are swept, so the
market orders of that event are never filled either. A child submitted after its
parent filled stays `Submitted` (`matching.rs:300`) and trades out of that status,
which the lifecycle refuses (not enabled in the runs). `modify` may return false
after a part of the change was applied (`matching.rs:151`). The second leg of a
bracket may be canceled and then reported rejected when both are reached; a market
order whose date has passed may still be swept; a full-position close on prints
takes a slice and is then complete; an IOC order the fill model passes over stays
working; an odd-lot remainder is refused on bars; a child of an IOC parent that was
partly filled and then canceled is canceled, although its parent opened a position.

Some orders leave the lifecycle of `order.rs`, and `FollowsLifecycle` and
`Acknowledging` except them. Under next-bar-open a market order that missed the
sweep of its own bar (routed from another instrument, placed at a quote, or in
flight past a print) is swept later (`kernel.rs:1199`) without an acknowledgement and
trades out of `Submitted`, although the comment there (`kernel.rs:1211`) says it was
acknowledged on its submission bar. A plain market order with a date that lapses
while it is `Submitted` is asked to expire, which the lifecycle refuses; it is
reported expired and may still be swept. A leg that fills after its cancellation
activates its children while its own status is `Canceled`. And `modify` may set the
units of an order below what it has filled.

Under netting a reduce-only order is routed to the closing branch whatever side is
open (`kernel_orders.rs:454`), so one on the position's own side closes it: hence the
premise `SidesAgree` of `PositionIsNetOfFills`. Under hedging the later slices of an
entry join the oldest position (the second finding), on whichever side that is: there
the premise is that all orders are on one side. On bars a fill ends an order, unless
it trades out of `Submitted` as a late child does, and then it can still be resized:
`ResizedUntraded` has the premise `Acknowledging` for it.

*Schedules.* Under netting, the default, the position that a schedule's first slice
opens bars every later slice (`kernel_orders.rs:488`): the schedule completes and
all but the first of its orders were rejected. Later slices of one order add to its
position before the gates are asked (`kernel_orders.rs:499`). `cancel_algo` returns
false for a schedule whose last slice is out and leaves its slices working, although
its comment (`kernel_orders.rs:91`) says it cancels the slices it has working. No
strategy method stops a schedule; the portfolio and tick runners know no schedules
and send one as a single market order (`portfolio_runner.py:246`), and the single
runner ignores a cancel of its id.

*Session.* The comment at `kernel.rs:1548` says "Capital-fraction sizing fits by
construction". It does at the rate it is sized with, `config.fees`; where a `fee_segment`
is set the fee model charges an itemized schedule instead (`types.rs:586`), and nobody asks
again: a signal, a deferred intent or a fractional order may leave free capital below
zero by what the charge exceeds that rate. `SpendsWithinMeans` bounds it by just that
(`Unreckoned`), and the pool of `strategies/portfolio.rs`, whose kernels size the same way, can
be overdrawn in the same manner; `Pool` has the percentage only, so `PoolHolds` is about
accounts charged at it.

In a cash account an adopted holding leaves the balance at once and
enters equity only when its own instrument prints (`session.rs:500`): a sample
between falls by the whole cost, and the drawdown switch sees it. After a drawdown
halt nothing is called or liquidated, however low equity goes (`session.rs:731`).
Under hedging two openings of one event pass the portfolio's cap, whose count was
taken before the event. A kernel's own margin check compares its requirement with
equity less the other instruments' locks, so it may call while the portfolio is
above the sum of requirements; such a call liquidates that instrument only, and the
portfolio's check is then switched off. Arrays attached after the seal are never
read (`session.rs:239`).

*Option groups.* A group may lock more than the deposits of its sold legs: the debit
of its bought legs is added to the requirement while their premium is itself locked,
where the module says grouping frees capital (`option_groups.rs:22`). Closing the
wing of a spread makes the short leg naked again and may leave free capital
negative. The finite worst loss of an uncovered put structure is not a floor,
although the module comment says the result never drops below it
(`option_groups.rs:14`). Legs of one expiry settle kernel by kernel, so a hedge
settled first leaves the short priced naked within the same instant, and that may
trip a margin call; after the portfolio's liquidation nothing is regrouped.

*Drivers.* A timer set in `on_start` with its default start counts from clock 0. A
child queued in a hook and drained at another instrument's event raises; the
commands of the last event's hooks are lost. The cache shows partly filled orders
as filled. Events of other instruments that a session liquidates are dispatched
under the current symbol.

*Market data.* The tick runner does not drain Renko's pending bricks for primary
bars; Renko drops the volume of records that complete no brick; `sign_of` returns
early for known flow without remembering the sign; `drive_tick_events` drops the
signed size. Depth snapshots do not tighten queue estimates; a limit moved away and
back with no print between keeps its place, and an order the queue let through may
queue again at the same price when the book deepens before its next slice. A day
whose last bar comes before the square-off time is never squared off.

*Simulators.* `squareoff_flags` marks the first bar at or after the time only
(`session.rs:413`), so a spread entered later that day is held overnight. Weights
of the multi-strategy mode are normalised, so a majority of them is the most they
reach. `multi.rs:186` says "Exit when any strategy wants to exit (conservative)",
but the cleaner ignores that exit when another strategy's entry comes on the same
bar. Basket and pair records omit entry fees and charge exits as entries; closes at
the end of data update neither cash nor curve, and a pair ends as one record where a
signal exit leaves two. The last point of a spread's curve is not updated by its
final close. `Contracts(n)` never looks at cash. The tick simulator drops an entry
on the last tick and fills stops at the stop through gaps. Under next-bar-open the
pool fills a deferred entry at the bar of the next cleaned entry
(`strategies/portfolio.rs:198`), and leaves a position stopped out on its entry bar
out of the records.

*Exits.* The adaptive path fills the target even if the bar gapped through the stop
at its open; a target fills at its level though the bar gapped beyond it.
`StepTrailingStop` ignores its steps (`trailing.rs:187`), and the activation
threshold of `TrailingStop` does nothing. The kernel uses none of the calculators of
`stops/`.

*Reports.* The streaming Sortino divides by n−1, the batch one by n, so they differ by
the root of n/(n−1) (`OneReturnFewer` states it); with one
positive return one is infinite and the other 0; an omega with neither gains nor
losses is 0 in one and 1 in the other. The accumulator counts flat bars into a
drawdown's duration and trades left open into the expectancy, the engine does not;
the engine counts them into the longest streak of wins and not into the wins. The
"longest drawdown in wall-clock seconds" is the longest in bars, read in seconds
(`engine.rs:517`). `merge` ignores equity and trades unless one side is empty. The
recomputed drawdown curve starts at its own first point, not at the capital. Bars
twelve to twenty-three hours apart annualize to 252, daily ones to 365. Rebalancing
to weights that sum to one leaves cash at minus the costs, and sells skipped as too
small are financed by an overdraft.

## 6. The plan

1. **Done**: `Orders`, `Kernel` and their properties and proofs.
2. **Done**: `OrderedDelivery`, `EventFeed`, `Schedule`; the refinement and the
   wholeness of the schedule checked and proved.
3. **Done**: `Money`, `Session`; the theorems about halts and about money; `Groups`.
4. **Done**: `Twap` with its invariant and theorems; `Queue`, where places are proved to hold.
5. **Done**: `Driver` and the proofs of its five properties.
6. **Done**: `Bars` and `TradingDay` with their theorems, `Signals`, `Stops`, `Metrics` and the
   simulators.
7. **Done**: the calendar's arithmetic and the look-ahead of `Bars` for every boundary.
8. **Done**: the proofs about the simulators: timing, reconciliation, the halt and the limits.
   Left to TLC are the figures computed twice (`FiguresAgree`) and what needs fairness.

### Not modelled

* *Indicators, covariance, optimisation, sampling* (`indicators/*`,
  `portfolio/optimize.rs` and its neighbours): series in floating point, whose
  correctness is numerical and not a matter of states.
* *PyO3 bindings* (`src/src/python`): they convert arguments; the control they add
  is modelled with the drivers.
* *Capital allocation* (`portfolio/allocation.rs`): the basket keeps an allocator
  and never asks it. *`PositionManager`* (`portfolio/position.rs`): an earlier
  ledger nothing uses.
* Of modelled parts: what a run's configuration is assembled from, the loading of
  data and the accessors of a strategy's context, the book's imbalance figures, and
  of a report the system quality number, the payoff ratio and the recovery time of a
  drawdown. Prices in `Kernel` are choices and `Stops` prices one position: no
  module prices the whole step.

------------------------------ MODULE Simulators ------------------------------
(***************************************************************************)
(* The array simulators as parts of one state space.  They share nothing;  *)
(* `part` picks the one a behavior explores, and `plan` and `book` are its *)
(* configuration and its state.                                            *)
(***************************************************************************)
EXTENDS Integers, Sequences, FiniteSets, Costs

CONSTANTS
  BasketPlans, BasketBars, PairPlans, PairBars, OptionPlans, OptionBars, SpreadPlans, SpreadBars,
  TickPlans, Ticks, PoolPlans, PoolBars, StopPlans, StopBars, RunSamples, RunEnds, Capital,
  DeskPlans, DeskBars, GroupPlans, Premiums, MaxSize, RebalancePlans, RebalanceDates,
  MaxBars       \* bounds, by part: bars, ticks, events or dates; MaxSize bounds a leg's contracts

VARIABLES part, plan, book

vars == <<part, plan, book>>

-----------------------------------------------------------------------------
Basket == INSTANCE Basket WITH Plans <- BasketPlans, Bars <- BasketBars, MaxBars <- MaxBars.basket
Pairs == INSTANCE Pairs WITH Plans <- PairPlans, Bars <- PairBars, MaxBars <- MaxBars.pairs
Options == INSTANCE Options WITH Plans <- OptionPlans, Bars <- OptionBars, MaxBars <- MaxBars.options
Spreads == INSTANCE Spreads WITH Plans <- SpreadPlans, Bars <- SpreadBars, MaxBars <- MaxBars.spreads
TickSim == INSTANCE TickSim WITH Plans <- TickPlans, Ticks <- Ticks, MaxTicks <- MaxBars.ticks
Pool == INSTANCE Pool WITH Plans <- PoolPlans, Bars <- PoolBars, MaxBars <- MaxBars.pool
Stops == INSTANCE Stops WITH Plans <- StopPlans, Bars <- StopBars, MaxBars <- MaxBars.stops
Reports == INSTANCE Reports WITH Capital <- Capital, Samples <- RunSamples, LastTrades <- RunEnds, MaxBars <- MaxBars.reports
Desk == INSTANCE Desk WITH Plans <- DeskPlans, Bars <- DeskBars, MaxBars <- MaxBars.desk
Groups == INSTANCE Groups WITH Plans <- GroupPlans, Premiums <- Premiums, MaxSize <- MaxSize, MaxEvents <- MaxBars.groups
Rebalance == INSTANCE Rebalance WITH Plans <- RebalancePlans, Dates <- RebalanceDates, MaxDates <- MaxBars.rebalance

-----------------------------------------------------------------------------
(* What the configurations and the bars are. *)

\* FillPrice::for_timing (execution/fill.rs): the next-open timing prices at the open.
ASSUME TimingAssumption == \A p \in StopPlans : p.nextOpen => p.fill = "Open"

\* Money is a number, a price at least one unit of it; a lot is of one unit or more.
ASSUME BasketAssumption ==
  /\ \A p \in BasketPlans :
       /\ p.fees \in FeeModels /\ p.cash \in Int /\ IsFiniteSet(DOMAIN p.weights)
       /\ \A i \in DOMAIN p.weights : {p.weights[i], p.caps[i], p.lots[i]} \subseteq Nat
       /\ \A x \in BasketBars : \A i \in DOMAIN p.weights : x.open[i] \in Int /\ x.close[i] \in Int

ASSUME PairAssumption ==
  /\ \A p \in PairPlans :
       p.fees \in FeeModels /\ p.cash \in Int /\ p.lookback \in Nat /\ p.hedge \in [n : Int, d : Nat \ {0}]
  /\ \A x \in PairBars : {x.open, x.close} \subseteq [1..2 -> Nat \ {0}]

ASSUME OptionAssumption ==
  /\ \A p \in OptionPlans :
       /\ p.fees \in FeeModels /\ p.cash \in Int /\ p.lot \in Nat \ {0}
       /\ p.sizing \in [kind : {"Contracts", "Notional", "Percent"}, n : Nat]
  /\ \A x \in OptionBars : x.open \in Int /\ x.value \in Int

ASSUME SpreadAssumption ==
  /\ \A p \in SpreadPlans :
       /\ p.fees \in FeeModels /\ p.cash \in Int /\ IsFiniteSet(DOMAIN p.legs)
       /\ \A k \in DOMAIN p.legs : p.legs[k].quantity \in Int /\ p.legs[k].lot \in Int
       /\ \A x \in SpreadBars : \A k \in DOMAIN p.legs : x.open[k] \in Int /\ x.value[k] \in Int

\* The pool trades a list of instruments.
ASSUME PoolAssumption ==
  /\ \A p \in PoolPlans :
       /\ {p.names, p.rate, p.maxPositions} \subseteq Nat /\ {p.cash, p.stop} \subseteq Int
       /\ p.allocation \in {"Full", "EqualWeight"}
       /\ \A x \in PoolBars : \A n \in 1..p.names :
            {x[n].open, x[n].low} \subseteq Int /\ x[n].close \in Nat \ {0}

ASSUME StopAssumption ==
  /\ \A p \in StopPlans :
       /\ p.fees \in FeeModels /\ p.slippage \in Stops!SlippageModels /\ p.fill \in Stops!PriceKinds
       /\ p.direction \in {"Long", "Short"} /\ p.margin \in Nat
       /\ {p.cash, p.rate, p.lot, p.limitSlip} \subseteq Int
       /\ {p.terms.percent, p.terms.reward, p.terms.multiple, p.terms.ratio} \subseteq Int
  /\ \A x \in StopBars : {x.open, x.high, x.low, x.close, x.volume, x.atr, x.at} \subseteq Int

\* What the limits of a simulator rest on.  A structure has a leg.
ASSUME StructureAssumption ==
  \A p \in SpreadPlans : DOMAIN p.legs # {} /\ \A k \in DOMAIN p.legs : p.expiry[k] \in Int

\* A stop and a target are off the price they are of, if only by one unit of it.
ASSUME TickAssumption ==
  /\ \A p \in TickPlans :
       /\ {p.cooldown, p.quantity, p.lot} \subseteq Nat /\ p.maxTrades \in Nat \ {0}
       /\ {p.stop, p.target, p.slippage} \subseteq Int
       /\ \A x \in Ticks :
            TickSim!Ask(x) > 0 => Portion(p.stop, TickSim!Ask(x)) > 0 /\ Portion(p.target, TickSim!Ask(x)) > 0
  /\ \A x \in Ticks : {x.ltp, x.bid, x.ask} \subseteq Int

\* Neither a stop nor a fee takes more than the price it is a part of.
ASSUME PoolLimitAssumption ==
  \A p \in PoolPlans :
    /\ p.cash \in Nat /\ \A r \in {p.rate, p.stop} : r \in Nat /\ r <= 1000
    /\ \A x \in PoolBars : \A n \in 1..p.names : x[n].open \in Nat \ {0}

\* StopConfig and TargetConfig (core/types.rs).  A low is a bar's lowest price, and
\* a range stop set below it is still a price.
ASSUME LevelAssumption ==
  /\ \A p \in StopPlans :
       /\ p.stop \in {"None", "Fixed", "Atr", "Trailing"} /\ p.target \in {"None", "Fixed", "Atr", "RiskReward"}
       /\ p.rate \in Nat /\ \A f \in {"rate", "points"} \cap DOMAIN p.slippage : p.slippage[f] \in Nat
       /\ p.terms.percent \in Nat /\ p.terms.percent <= 1000
       /\ {p.terms.speed, p.terms.fastest, p.terms.step, p.terms.multiple} \subseteq Nat /\ p.terms.points \in Int
       /\ \A x, y \in StopBars : p.terms.multiple * x.atr < y.low
  /\ \A x \in StopBars : x.low \in Nat \ {0} /\ \A price \in {x.open, x.close, x.high} : x.low <= price

ASSUME DeskAssumption ==
  /\ \A p \in DeskPlans : p.max \in Nat \ {0} /\ p.gates.cooldown \in Nat
  /\ \A x \in DeskBars : {x.long, x.short} \subseteq [enter : BOOLEAN, leave : BOOLEAN]

ASSUME RebalanceAssumption ==
  /\ \A p \in RebalancePlans : p.schedule \in Rates /\ {p.cash, p.minTrade, p.dp} \subseteq Int
  /\ \A x \in RebalanceDates :
       \A a \in 1..2 : x.prices[a] \in Nat \ {0} /\ x.targets[a] \in Int

-----------------------------------------------------------------------------
Init ==
  \/ part = "basket" /\ Basket!Init
  \/ part = "pairs" /\ Pairs!Init
  \/ part = "options" /\ Options!Init
  \/ part = "spreads" /\ Spreads!Init
  \/ part = "ticks" /\ TickSim!Init
  \/ part = "pool" /\ Pool!Init
  \/ part = "stops" /\ Stops!Init
  \/ part = "reports" /\ Reports!Init
  \/ part = "desk" /\ Desk!Init
  \/ part = "groups" /\ Groups!Init
  \/ part = "rebalance" /\ Rebalance!Init

Next ==
  \/ part = "basket" /\ Basket!Next /\ UNCHANGED part
  \/ part = "pairs" /\ Pairs!Next /\ UNCHANGED part
  \/ part = "options" /\ Options!Next /\ UNCHANGED part
  \/ part = "spreads" /\ Spreads!Next /\ UNCHANGED part
  \/ part = "ticks" /\ TickSim!Next /\ UNCHANGED part
  \/ part = "pool" /\ Pool!Next /\ UNCHANGED part
  \/ part = "stops" /\ Stops!Next /\ UNCHANGED part
  \/ part = "reports" /\ Reports!Next /\ UNCHANGED part
  \/ part = "desk" /\ Desk!Next /\ UNCHANGED part
  \/ part = "groups" /\ Groups!Next /\ UNCHANGED part
  \/ part = "rebalance" /\ Rebalance!Next /\ UNCHANGED part

Spec == Init /\ [][Next]_vars

In(name, P) == part = name => P

-----------------------------------------------------------------------------
(* Every simulator's account reconciles with the records it hands out.      *)
BooksBalance ==
  /\ In("basket", Basket!BooksBalance)
  /\ In("pairs", Pairs!MarkIsProfit)
  /\ In("options", Options!BooksBalance)
  /\ In("spreads", Spreads!BooksBalance)
  /\ In("pool", Pool!BooksBalance)
  /\ In("stops", Stops!BooksBalance)
  /\ In("rebalance", Rebalance!BooksBalance)

(* Under the next-bar-open timing no fill sees the bar it is filled on, and *)
(* under any timing a stop's price owes nothing to how far the bar then ran.*)
DecidedBeforeFilled ==
  /\ In("basket", Basket!DecidedBeforeFilled)
  /\ In("pairs", Pairs!DecidedBeforeFilled)
  /\ In("options", Options!DecidedBeforeFilled)
  /\ In("spreads", Spreads!DecidedBeforeFilled)
  /\ In("stops", Stops!StopsLookBack)

(* What is held is held within its limits: expiries, squareoffs, stops,     *)
(* deadlines, cooldowns, the shared pool and its position limit; a stop only *)
(* tightens, and a position has one side.                                   *)
HeldWithinLimits ==
  /\ In("spreads", Spreads!HeldLegally /\ Spreads!LegsSettleOnce)
  /\ In("ticks", TickSim!TradesKeepApart /\ TickSim!NothingLeftOpen)
  /\ In("pool", Pool!PoolHolds)
  /\ In("stops", Stops!StopsOnlyTighten /\ Stops!LevelsAgree /\ Stops!ParabolicFollows)
  /\ In("desk", Desk!OneSideAtATime /\ Desk!OppositeExitsOnlyClose /\ Desk!EntriesAlternate)
  /\ In("desk", Desk!CooldownKept)

(* Every figure computed twice is computed alike: what one pass accumulates  *)
(* and what the curve and the list of trades give, the combined signals and  *)
(* the strategies they combine, what a group of options has locked and what  *)
(* its legs now require, what a rebalanced book holds and its targets.      *)
FiguresAgree ==
  /\ In("reports", Reports!ReportsAgree)
  /\ In("desk", Desk!UnanimityCarries /\ Desk!ModesAreOrdered)
  /\ In("groups", Groups!GroupsArePriced /\ Groups!WorstIsWorst)
  /\ In("rebalance", Rebalance!TargetsMet /\ Rebalance!NothingShort)

(* Once the pool's drawdown halt is latched no instrument opens a position. *)
HaltOpensNothing == [][part = "pool" => Pool!HaltHolds(book')]_vars

(* A pair's curve agrees with its records ("value is long leg - short leg +   *)
(* cash equivalent", pairs.rs:230).  It does not: the exit credits the short *)
(* leg like the long one.                                                   *)
CurveIsProfit == In("pairs", Pairs!CurveIsProfit)
=============================================================================

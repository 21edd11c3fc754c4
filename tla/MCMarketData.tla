---------------------------- MODULE MCMarketData ----------------------------
(***************************************************************************)
(* Model values for the market data run: bar builders, the queue of resting *)
(* limits and the session tracker, three parts that share nothing.  `part`  *)
(* picks the one a behavior explores.                                      *)
(***************************************************************************)
EXTENDS Bars, Queue, TradingDay

VARIABLE part

-----------------------------------------------------------------------------
(* Tapes *)

Trade(gap, price, volume, signed) ==
  [gap |-> gap, open |-> price, high |-> price, low |-> price, close |-> price,
   volume |-> volume, signed |-> signed]

FinerBar(gap, open, high, low, close, volume) ==
  [gap |-> gap, open |-> open, high |-> high, low |-> low, close |-> close,
   volume |-> volume, signed |-> 0]

\* Prints of unknown and of known direction, finer bars, and records far apart.
Tapes ==
  [prints  |-> {Trade(v, p, v, 0) : p \in {1, 2, 7}, v \in {0, 2}},
   flow    |-> {Trade(1, 2, v, d * v) : v \in {1, 2}, d \in {-1, 1}}
               \cup {Trade(1, 1, 1, 0), Trade(1, 3, 2, -2)},
   finer   |-> {FinerBar(1, 2, 3, 1, 2, 1), FinerBar(3, 3, 5, 3, 4, 2), FinerBar(1, 4, 4, 0, 1, 0)},
   spaced  |-> {Trade(g, 2, 1, 0) : g \in {1, 2, 58, 62, 730}}]

Spec1(unit, step) == [unit |-> unit, step |-> step, drained |-> TRUE]

SomeSpecs ==
  {Spec1("Time", 2), Spec1("Month", 1), Spec1("Month", 5), Spec1("Year", 1),
   Spec1("Tick", 2), Spec1("Volume", 3), Spec1("Value", 5), Spec1("Renko", 2),
   Spec1("TickImbalance", 2), Spec1("TickRuns", 2), Spec1("VolumeImbalance", 3),
   Spec1("VolumeRuns", 3), Spec1("ValueRuns", 6)}

\* 2023-12-31, two timestamps a day.
NewYearsEve == 2 * 19722

TwoPrices == 1..2
OneAndThree == {1, 3}
TwoVenues == {[carries |-> {"quote"}, partialFills |-> FALSE],
              [carries |-> {"quote", "depth"}, partialFills |-> TRUE]}

\* Days of ten minutes, open from 2 to 8, squared off at 6.
SomeGaps == {1, 2, 4, 9, 13}
TwoRanges == {[open |-> 2, high |-> 3, low |-> 2], [open |-> 2, high |-> 2, low |-> 1]}

-----------------------------------------------------------------------------
vars == <<part, barVars, queueVars, dayVars>>

Init ==
  /\ part \in {"bars", "queue", "day"}
  /\ BarsInit /\ QueueInit /\ DayInit
  /\ part # "bars" => feed = "spaced"
  /\ part # "queue" => ~venue.partialFills

Next ==
  /\ \/ part = "bars" /\ BarsNext /\ UNCHANGED <<queueVars, dayVars>>
     \/ part = "queue" /\ QueueNext /\ UNCHANGED <<barVars, dayVars>>
     \/ part = "day" /\ DayNext /\ UNCHANGED <<barVars, queueVars>>
  /\ UNCHANGED part

Spec == Init /\ [][Next]_vars
=============================================================================

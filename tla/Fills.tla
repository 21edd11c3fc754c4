-------------------------------- MODULE Fills --------------------------------
(***************************************************************************)
(* What a fill costs: the price table (execution/fill.rs), slippage         *)
(* (execution/slippage.rs), limit and stop fills against a bar, and the      *)
(* stop and target calculators that stand beside the kernel (stops/).       *)
(* Prices are integers, rates thousandths rounded down, 0 stands for None.  *)
(***************************************************************************)
EXTENDS Costs

NoPrice == 0

PriceKinds == {"Close", "Open", "Average", "Typical", "Vwap", "Worst", "Best"}

\* get_price: `Vwap` is the typical price, the extremes depend on the side.
PriceOf(kind, bar, buys) ==
  CASE kind = "Close"               -> bar.close
    [] kind = "Open"                -> bar.open
    [] kind = "Average"             -> (bar.open + bar.high + bar.low + bar.close) \div 4
    [] kind \in {"Typical", "Vwap"} -> (bar.high + bar.low + bar.close) \div 3
    [] kind = "Worst"               -> IF buys THEN bar.high ELSE bar.low
    [] kind = "Best"                -> IF buys THEN bar.low ELSE bar.high

SlippageModels ==
  [kind : {"None"}] \cup [kind : {"Percentage"}, rate : Int] \cup [kind : {"Fixed", "SpreadBased"}, points : Int]
  \cup [kind : {"VolumeBased"}, points : Int, rate : Nat]

\* calculate: the size of the adverse move.
Slippage(model, price, volume) ==
  CASE model.kind = "None"        -> 0
    [] model.kind = "Percentage"  -> Portion(model.rate, price)
    [] model.kind = "Fixed"       -> model.points
    [] model.kind = "SpreadBased" -> model.points
    [] model.kind = "VolumeBased" ->
         IF volume > 0 THEN (1000 * model.points) \div (1000 + volume * model.rate) ELSE model.points

\* apply: the price after slippage.
Traded(model, price, volume, direction, isEntry) ==
  Slipped(price, Slippage(model, price, volume), direction, isEntry)

LimitReached(limit, bar, buys) == IF buys THEN bar.low <= limit ELSE bar.high >= limit
StopTriggered(stop, bar, buys) == IF buys THEN bar.high >= stop ELSE bar.low <= stop

\* A limit slips against the trader; it never improves on the limit.
LimitFill(limit, bar, buys, slip) ==
  CASE ~LimitReached(limit, bar, buys) -> NoPrice
    [] LimitReached(limit, bar, buys) /\ buys  -> limit + Portion(slip, limit)
    [] LimitReached(limit, bar, buys) /\ ~buys -> limit - Portion(slip, limit)

\* A stop fills at its price, or at the open of a bar that gapped through it.
StopFill(stop, bar, buys) ==
  CASE ~StopTriggered(stop, bar, buys) -> NoPrice
    [] StopTriggered(stop, bar, buys) /\ buys  -> GreaterOf(bar.open, stop)
    [] StopTriggered(stop, bar, buys) /\ ~buys -> LesserOf(bar.open, stop)

-----------------------------------------------------------------------------
(* Levels.  `Against` moves a price against a holder, `InFavor` with it.     *)

Against(price, distance, direction) == price - Multiplier(direction) * distance
InFavor(price, distance, direction) == price + Multiplier(direction) * distance
BelowBy(rate, price, direction) == Portion(1000 - Multiplier(direction) * rate, price)

\* The tighter of two stops; any stop is tighter than none.
TighterStop(old, new, direction) ==
  CASE old = NoPrice -> new
    [] old # NoPrice /\ direction = "Long"  -> GreaterOf(old, new)
    [] old # NoPrice /\ direction = "Short" -> LesserOf(old, new)

\* calculate_stop: where each calculator starts.  Without a range (its warmup)
\* the range stops set nothing.
FirstStop(kind, terms, entry, direction, atr) ==
  CASE kind \in {"Fixed", "Trailing", "Step"} -> BelowBy(terms.percent, entry, direction)
    [] kind = "Points"                        -> Against(entry, terms.points, direction)
    [] kind \in {"Atr", "Chandelier"}         ->
         IF atr > 0 THEN Against(entry, terms.multiple * atr, direction) ELSE NoPrice
    [] OTHER                                  -> NoPrice

\* update_stop: the trailing calculators follow the bar's own extreme.
NextStop(kind, terms, current, bar, direction) ==
  LET extreme == IF direction = "Long" THEN bar.high ELSE bar.low IN
  CASE kind \in {"Trailing", "Step"} ->
         TighterStop(current, BelowBy(terms.percent, extreme, direction), direction)
    [] kind = "Points" -> TighterStop(current, Against(extreme, terms.points, direction), direction)
    [] kind = "Chandelier" /\ bar.atr > 0 ->
         TighterStop(current, Against(extreme, terms.multiple * bar.atr, direction), direction)
    [] OTHER -> current

\* calculate_target
FirstTarget(kind, terms, entry, stop, direction, atr) ==
  CASE kind = "Fixed" -> Portion(1000 + Multiplier(direction) * terms.reward, entry)
    [] kind = "Atr" /\ atr > 0 -> InFavor(entry, terms.multiple * atr, direction)
    [] kind = "RiskReward" /\ stop # NoPrice -> InFavor(entry, terms.ratio * Size(entry - stop), direction)
    [] OTHER -> NoPrice

\* ChandelierExit::stop_level: from the extremes since the entry and the range now.
Chandelier(terms, high, low, direction, atr) ==
  LET extreme == IF direction = "Long" THEN high ELSE low
  IN IF atr > 0 THEN Against(extreme, terms.multiple * atr, direction) ELSE NoPrice

(* ParabolicStop: [level, extreme, speed].                                  *)
SarInit(terms, entry, direction) ==
  [level |-> BelowBy(10, entry, direction), extreme |-> entry, speed |-> terms.speed]

\* update_sar: a new extreme speeds it up, and it never crosses the bar.
SarNext(terms, sar, bar, direction) ==
  LET fresh == IF direction = "Long" THEN bar.high > sar.extreme ELSE bar.low < sar.extreme
      speed == IF fresh THEN LesserOf(sar.speed + terms.step, terms.fastest) ELSE sar.speed
      extreme == IF ~fresh THEN sar.extreme ELSE IF direction = "Long" THEN bar.high ELSE bar.low
      moved == sar.level + Portion(speed, extreme - sar.level)
  IN [level |-> IF direction = "Long" THEN LesserOf(moved, bar.low) ELSE GreaterOf(moved, bar.high),
      extreme |-> extreme, speed |-> speed]
=============================================================================

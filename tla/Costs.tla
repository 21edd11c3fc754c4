-------------------------------- MODULE Costs --------------------------------
(***************************************************************************)
(* What a trade pays: the fee models (execution/fees.rs), the itemized     *)
(* charges of one side (execution/indian_costs.rs), slippage                *)
(* (execution/slippage.rs) and whole lots (core/types.rs).  Money is an     *)
(* integer; a rate is a number of thousandths, rounded down.               *)
(***************************************************************************)
EXTENDS Integers, Sequences, FiniteSets

Portion(rate, value) == (rate * value) \div 1000
Size(n) == IF n < 0 THEN -n ELSE n
LesserOf(a, b) == IF a < b THEN a ELSE b
GreaterOf(a, b) == IF a > b THEN a ELSE b
Multiplier(direction) == IF direction = "Long" THEN 1 ELSE -1

\* A long entry buys and a long exit sells; a short is the reverse.
Buys(direction, isEntry) == (direction = "Long") = isEntry

-----------------------------------------------------------------------------
(* Itemized charges: a schedule is [flat, rate, stt, sttOn, exchange,      *)
(* stamp, gst].                                                            *)

\* A percentage schedule caps brokerage at the flat amount.
Brokerage(schedule, value) ==
  IF schedule.rate > 0 THEN LesserOf(Portion(schedule.rate, value), schedule.flat) ELSE schedule.flat

\* Transaction tax lands on the sell (or on both sides), stamp duty on the buy,
\* and GST on brokerage and exchange charges only.
Charges(schedule, value, direction, isEntry) ==
  LET buys == Buys(direction, isEntry)
      brokerage == Brokerage(schedule, value)
      exchange == Portion(schedule.exchange, value)
      taxed == schedule.sttOn = "Both" \/ (schedule.sttOn = "Sell" /\ ~buys)
  IN [brokerage |-> brokerage,
      stt       |-> IF taxed THEN Portion(schedule.stt, value) ELSE 0,
      exchange  |-> exchange,
      stamp     |-> IF buys THEN Portion(schedule.stamp, value) ELSE 0,
      gst       |-> Portion(schedule.gst, brokerage + exchange)]

Total(charges) == charges.brokerage + charges.stt + charges.exchange + charges.stamp + charges.gst

-----------------------------------------------------------------------------
(* Fee models *)

Rates == [flat : Int, rate : Int, stt : Int, sttOn : STRING, exchange : Int, stamp : Int, gst : Int]
FeeModels ==
  [kind : {"None"}] \cup [kind : {"Percentage"}, rate : Int] \cup [kind : {"Fixed", "PerShare"}, amount : Int]
  \cup [kind : {"Tiered"}, tiers : Seq([from : Int, rate : Int])]
  \cup [kind : {"Custom"}, base : Int, amount : Int] \cup [kind : {"Itemized"}, schedule : Rates]

\* The rate of the last tier reached, tiers in ascending order.
TierRate(tiers, value) ==
  LET reached == {i \in DOMAIN tiers : \A j \in 1..i : value >= tiers[j].from}
  IN IF reached = {} THEN 0 ELSE tiers[Cardinality(reached)].rate

\* One side of a trade, entry and exit told apart.
FeeOfSide(model, price, size, direction, isEntry) ==
  LET value == price * Size(size) IN
  CASE model.kind = "None"       -> 0
    [] model.kind = "Percentage" -> Portion(model.rate, value)
    [] model.kind = "Fixed"      -> model.amount
    [] model.kind = "PerShare"   -> Size(size) * model.amount
    [] model.kind = "Tiered"     -> Portion(TierRate(model.tiers, value), value)
    [] model.kind = "Custom"     -> model.base + Size(size) * model.amount
    [] model.kind = "Itemized"   -> Total(Charges(model.schedule, value, direction, isEntry))

\* The model the older simulators call: every side charged as an entry.
Fee(model, price, size, direction) == FeeOfSide(model, price, size, direction, TRUE)

-----------------------------------------------------------------------------
(* Sizes and prices *)

\* Whole lots; without a lot size the model keeps whole units.
Lots(raw, lot) == IF lot > 0 THEN (raw \div lot) * lot ELSE raw

\* A buyer pays more and a seller receives less.
Slipped(price, slippage, direction, isEntry) ==
  IF Buys(direction, isEntry) THEN price + slippage ELSE price - slippage
=============================================================================

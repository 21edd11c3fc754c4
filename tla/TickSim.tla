------------------------------- MODULE TickSim -------------------------------
(***************************************************************************)
(* The tick simulator (strategies/tick.rs): one long position at a time,    *)
(* bought at the ask and sold at the bid, at its stop or at its target,     *)
(* with a deadline and a cooldown between trades.  One action is one tick.  *)
(***************************************************************************)
EXTENDS Costs

CONSTANTS
  Plans,        \* [stop, target, slippage (thousandths), hold, cooldown, maxTrades,
                \*  quantity, lot, fees]
  Ticks,        \* [gap, ltp, bid, ask, entry, exit]; 0 for no bid or ask
  MaxTicks      \* bound: ticks

VARIABLES plan, book

None == [price |-> 0]
Holds(b) == b.position # None
Contracts == plan.quantity * plan.lot

Bid(tick) == IF tick.bid > 0 THEN tick.bid ELSE tick.ltp
Ask(tick) == IF tick.ask > 0 THEN tick.ask ELSE tick.ltp
Under(price, thousandths) == price - Portion(thousandths, price)
Over(price, thousandths) == price + Portion(thousandths, price)

\* What closes the position at a tick, the stop before everything else.
Reason(p, now, tick, last) ==
  CASE tick.ltp <= p.stop -> "StopLoss"
    [] tick.ltp > p.stop /\ tick.ltp >= p.target -> "TakeProfit"
    [] tick.ltp > p.stop /\ tick.ltp < p.target ->
         CASE plan.hold > 0 /\ now - p.since >= plan.hold -> "TimeExit"
           [] ~(plan.hold > 0 /\ now - p.since >= plan.hold) /\ tick.exit -> "Signal"
           [] OTHER -> IF last THEN "EndOfData" ELSE "None"

ExitPrice(p, tick, reason) ==
  Under(CASE reason = "StopLoss"   -> p.stop
          [] reason = "TakeProfit" -> p.target
          [] OTHER                 -> Bid(tick), plan.slippage)

Charge(price, isEntry) == FeeOfSide(plan.fees, price, Contracts, "Long", isEntry)

Exited(b, now, tick, reason) ==
  LET price == ExitPrice(b.position, tick, reason) IN
  [b EXCEPT !.trades = Append(@, [opened |-> b.position.at, closed |-> b.tick, reason |-> reason,
                                  gross |-> (price - b.position.price) * Contracts,
                                  fees |-> b.position.fees + Charge(price, FALSE)]),
            !.position = None,
            !.cooldown = b.tick + plan.cooldown]

Entered(b, now, tick) ==
  LET price == Over(Ask(tick), plan.slippage) IN
  [b EXCEPT !.position = [price |-> price, at |-> b.tick, since |-> now, fees |-> Charge(price, TRUE),
                          stop |-> Under(price, plan.stop), target |-> Over(price, plan.target)]]

OnTick(b, tick, last) ==
  LET now == b.clock + tick.gap
      reason == Reason(b.position, now, tick, last)
      done == CASE Holds(b) /\ reason # "None" -> Exited(b, now, tick, reason)
                [] ~Holds(b) /\ b.tick >= b.cooldown /\ tick.entry /\ Ask(tick) > 0 ->
                     Entered(b, now, tick)
                [] OTHER -> b
      capped == Holds(b) /\ reason # "None" /\ Len(done.trades) >= plan.maxTrades
  IN [done EXCEPT !.clock = now, !.tick = @ + 1, !.ended = last \/ capped]

Init ==
  /\ plan \in Plans
  /\ book = [tick |-> 0, clock |-> 0, position |-> None, cooldown |-> 0, trades |-> <<>>,
             ended |-> plan.quantity * plan.lot = 0]

Tick(tick, last) ==
  /\ ~book.ended /\ book.tick < MaxTicks
  /\ book' = OnTick(book, tick, last)
  /\ UNCHANGED plan

Next == \E tick \in Ticks, last \in BOOLEAN : Tick(tick, last)

-----------------------------------------------------------------------------
(* Trades do not overlap, keep the cooldown between them and never exceed   *)
(* the cap; one that stopped out loses, one that reached its target gains,   *)
(* before costs and slippage.                                              *)
TradesKeepApart ==
  /\ Len(book.trades) <= plan.maxTrades
  /\ \A k \in 1..Len(book.trades) :
       LET t == book.trades[k] IN
       /\ t.opened < t.closed
       /\ k > 1 => t.opened >= book.trades[k - 1].closed + GreaterOf(plan.cooldown, 1)
       /\ plan.slippage = 0 => /\ t.reason = "StopLoss" => t.gross < 0
                               /\ t.reason = "TakeProfit" => t.gross > 0

(* A run that ends holds nothing, but for a position opened on its very     *)
(* last tick, which no record tells of.                                    *)
NothingLeftOpen ==
  book.ended /\ Holds(book) => book.position.at = book.tick - 1
=============================================================================

----------------------------- MODULE MCSimulators -----------------------------
(***************************************************************************)
(* Model values for the array simulators of Simulators.                    *)
(***************************************************************************)
EXTENDS Simulators

-----------------------------------------------------------------------------
(* Fee models *)

Free == [kind |-> "None"]
FiveADeal == [kind |-> "Fixed", amount |-> 5]
OneASize == [kind |-> "PerShare", amount |-> 1]
TwoTiers == [kind |-> "Tiered", tiers |-> <<[from |-> 0, rate |-> 50], [from |-> 60, rate |-> 20]>>]
Itemized == [kind |-> "Itemized",
             schedule |-> [flat |-> 3, rate |-> 20, stt |-> 40, sttOn |-> "Sell", exchange |-> 10,
                           stamp |-> 30, gst |-> 180]]
Delivery == [kind |-> "Itemized",
             schedule |-> [flat |-> 0, rate |-> 0, stt |-> 40, sttOn |-> "Both", exchange |-> 10,
                           stamp |-> 30, gst |-> 180]]
BaseAndSize == [kind |-> "Custom", base |-> 2, amount |-> 1]

-----------------------------------------------------------------------------
(* Baskets and pairs: joint bars of two instruments *)

Both == <<TRUE, TRUE>>
One == <<TRUE, FALSE>>
Neither == <<FALSE, FALSE>>
JointPrices == {<<10, 12>>, <<12, 9>>}

MCBasketBars ==
  {[open |-> o, close |-> c, entry |-> e[1], exit |-> e[2]] :
     o \in JointPrices, c \in JointPrices,
     e \in {<<Both, Neither>>, <<One, Neither>>, <<Neither, One>>, <<Neither, Both>>, <<Both, Both>>}}

MCBasketPlans ==
  {[nextOpen |-> n, sync |-> [mode |-> s, min |-> 0], direction |-> "Long", fees |-> f.fees, cash |-> 100,
    weights |-> f.weights, caps |-> f.caps, lots |-> f.lots] :
     n \in BOOLEAN, s \in {"All", "Any", "Majority", "Master"},
     f \in {[fees |-> TwoTiers, weights |-> <<1, 1>>, caps |-> <<0, 0>>, lots |-> <<0, 2>>],
            [fees |-> OneASize, weights |-> <<3, 1>>, caps |-> <<40, 0>>, lots |-> <<0, 0>>]}}

MCPairBars ==
  {[open |-> o, close |-> c, entry |-> e, exit |-> x] :
     o \in JointPrices, c \in JointPrices \cup {<<14, 10>>}, e \in BOOLEAN, x \in BOOLEAN}

MCPairPlans ==
  {[nextOpen |-> n, direction |-> d, fees |-> f, cash |-> 120, hedge |-> [n |-> 1, d |-> 2],
    dynamic |-> h > 0, lookback |-> h] :
     n \in BOOLEAN, d \in {"Long", "Short"}, f \in {OneASize, Delivery}, h \in {0, 1}}

-----------------------------------------------------------------------------
(* Options and spreads *)

MCOptionBars ==
  {[spot |-> p[1], open |-> p[2], value |-> p[3], entry |-> e, exit |-> x] :
     p \in {<<101, 5, 5>>, <<126, 7, 6>>, <<126, 5, 0>>, <<99, 0, 7>>}, e \in BOOLEAN, x \in BOOLEAN}

MCOptionPlans ==
  {[nextOpen |-> t[1], opens |-> t[2], direction |-> "Long", fees |-> f, cash |-> 100, lot |-> 3,
    sizing |-> s[1], call |-> s[2], strike |-> s[3], interval |-> 50] :
     t \in {<<FALSE, FALSE>>, <<TRUE, FALSE>>, <<TRUE, TRUE>>}, f \in {Itemized, BaseAndSize},
     s \in {<<[kind |-> "Contracts", n |-> 10], TRUE, [kind |-> "Otm", n |-> 1]>>,
            <<[kind |-> "Percent", n |-> 500], FALSE, [kind |-> "Itm", n |-> 1]>>,
            <<[kind |-> "Percent", n |-> 900], TRUE, [kind |-> "Atm", n |-> 0]>>,
            <<[kind |-> "Notional", n |-> 40], FALSE, [kind |-> "Percent", n |-> 100]>>}}

MCSpreadBars ==
  {[open |-> o, value |-> v, entry |-> s[1], exit |-> s[2]] :
     o \in {<<8, 6>>, <<4, 6>>}, v \in {<<8, 6>>, <<4, 5>>, <<14, 6>>},
     s \in {<<TRUE, FALSE>>, <<FALSE, FALSE>>, <<FALSE, TRUE>>}}

Leg(quantity) == [quantity |-> quantity, lot |-> 2]

\* Two days of bars; the squareoff is at minute 5.
TwoDays == <<[day |-> 1, minute |-> 2], [day |-> 1, minute |-> 5], [day |-> 1, minute |-> 7],
             [day |-> 2, minute |-> 3], [day |-> 2, minute |-> 6]>>

MCSpreadPlans ==
  {[nextOpen |-> t[1], opens |-> t[2], fees |-> f, cash |-> 100, legs |-> <<Leg(-1), Leg(1)>>,
    expiry |-> l.expiry, maxLoss |-> l.loss, target |-> l.target, clock |-> TwoDays, squareoff |-> l.at] :
     t \in {<<FALSE, FALSE>>, <<TRUE, FALSE>>, <<TRUE, TRUE>>}, f \in {FiveADeal, Itemized},
     l \in {[expiry |-> <<2, 4>>, loss |-> 0, target |-> 0, at |-> 0],
            [expiry |-> <<3, 3>>, loss |-> 4, target |-> 6, at |-> 0],
            [expiry |-> <<0, 0>>, loss |-> 10, target |-> 3, at |-> 5]}}

-----------------------------------------------------------------------------
(* Ticks and the pool *)

MCTicks ==
  {[gap |-> g, ltp |-> p[1], bid |-> p[2], ask |-> p[3], entry |-> s[1], exit |-> s[2]] :
     g \in {1, 4}, p \in {<<100, 99, 101>>, <<88, 87, 0>>, <<115, 0, 116>>},
     s \in {<<TRUE, FALSE>>, <<FALSE, TRUE>>, <<FALSE, FALSE>>}}

MCTickPlans ==
  {[stop |-> 100, target |-> 120, slippage |-> s, hold |-> h, cooldown |-> c, maxTrades |-> 2,
    quantity |-> 1, lot |-> 2, fees |-> Itemized] :
     s \in {0, 10}, h \in {0, 5}, c \in {0, 2}}

MCPoolBars ==
  LET OneBar == {[open |-> p[1], low |-> p[2], close |-> p[3], entry |-> s[1], exit |-> s[2]] :
                   p \in {<<10, 10, 10>>, <<10, 7, 8>>, <<12, 11, 13>>},
                   s \in {<<TRUE, FALSE>>, <<FALSE, TRUE>>, <<FALSE, FALSE>>}}
  IN [1..2 -> OneBar]

MCPoolPlans ==
  {[nextOpen |-> n, allocation |-> l[1], maxPositions |-> l[2], maxDrawdown |-> l[3], stop |-> l[4], rate |-> 100,
    cash |-> 100, names |-> 2] :
     n \in BOOLEAN,
     l \in {<<"Full", 0, 20, 0>>, <<"Full", 1, 20, 200>>, <<"Full", 0, 0, 200>>,
            <<"EqualWeight", 0, 20, 200>>, <<"EqualWeight", 1, 0, 0>>}}

-----------------------------------------------------------------------------
(* Protective levels *)

StopShapes ==
  {[open |-> p[1], high |-> p[2], low |-> p[3], close |-> p[4], volume |-> p[5], atr |-> p[6], at |-> p[7]] :
     p \in {<<100, 101, 99, 100, 0, 0, 0>>, <<100, 112, 99, 110, 10, 3, 0>>, <<100, 112, 88, 90, 10, 3, 96>>,
            <<108, 118, 90, 112, 10, 4, 0>>, <<108, 112, 90, 95, 10, 3, 0>>, <<88, 92, 86, 90, 10, 4, 0>>}}

MCStopBars ==
  {[open |-> p.open, high |-> p.high, low |-> p.low, close |-> p.close, volume |-> p.volume, atr |-> p.atr,
    at |-> p.at, entry |-> s[1], exit |-> s[2]] :
     p \in StopShapes, s \in {<<TRUE, FALSE>>, <<FALSE, FALSE>>, <<FALSE, TRUE>>}}

Terms == [percent |-> 50, points |-> 6, multiple |-> 2, reward |-> 80, ratio |-> 2,
          speed |-> 100, step |-> 100, fastest |-> 200]
OnePercent == [kind |-> "Percentage", rate |-> 10]
NoSlip == [kind |-> "None"]
VolumeSlip == [kind |-> "VolumeBased", points |-> 2, rate |-> 100]

MCStopPlans ==
  {[nextOpen |-> t[1], direction |-> d[1], margin |-> d[2], fill |-> t[2], stop |-> l[1], target |-> l[2],
    terms |-> Terms, adaptive |-> l[3], slippage |-> l[4], limitSlip |-> l[5], fees |-> OnePercent, rate |-> 10,
    lot |-> 2, cash |-> 1000] :
     t \in {<<FALSE, "Close">>, <<TRUE, "Open">>, <<FALSE, "Worst">>},
     d \in {<<"Long", 0>>, <<"Short", 500>>},
     l \in {<<"Trailing", "None", FALSE, NoSlip, 0>>,
            <<"Trailing", "Fixed", TRUE, VolumeSlip, 10>>,
            <<"Fixed", "RiskReward", FALSE, NoSlip, 0>>,
            <<"Atr", "Atr", FALSE, VolumeSlip, 0>>}}

-----------------------------------------------------------------------------
(* Reports: what the kernel hands the runner on a bar *)

Trade(pnl, ret, held, reason, long) ==
  [pnl |-> pnl, ret |-> ret, held |-> held, reason |-> reason, long |-> long,
   entry |-> 10, exit |-> 12, size |-> 2]

MCRunSamples ==
  {[equity |-> s[1], gap |-> s[2], trades |-> s[3]] :
     s \in {<<80, 1, <<>>>>, <<100, 1, <<>>>>, <<110, 5, <<>>>>,
            <<80, 5, <<Trade(-7, -30, 2, "StopLoss", TRUE)>>>>, <<95, 1, <<Trade(12, 50, 1, "Signal", FALSE)>>>>,
            <<100, 1, <<Trade(0, 0, 1, "Signal", TRUE)>>>>, <<110, 1, <<Trade(5, 20, 3, "TakeProfit", TRUE)>>>>,
            <<120, 8, <<Trade(-3, -10, 1, "Settlement", FALSE)>>>>}}

MCRunEnds == {<<>>, <<Trade(4, 10, 2, "EndOfData", TRUE)>>, <<Trade(-4, -20, 2, "EndOfData", FALSE)>>}

-----------------------------------------------------------------------------
(* Several strategies on one instrument *)

Quiet == [enter |-> FALSE, leave |-> FALSE]
Enter == [enter |-> TRUE, leave |-> FALSE]
Leave == [enter |-> FALSE, leave |-> TRUE]
OneTick(spread, flow, ret) == [spread |-> spread, flow |-> flow, warm |-> ret # 0, ret |-> ret]

MCDeskBars ==
  {[price |-> b[1], votes |-> b[2], leaves |-> b[3], long |-> b[4], short |-> b[5], tick |-> b[6]] :
     b \in {<<10, <<TRUE, TRUE>>, <<FALSE, FALSE>>, Enter, Quiet, OneTick(1, 5, 3)>>,
            <<12, <<TRUE, FALSE>>, <<FALSE, FALSE>>, Enter, Leave, OneTick(1, 5, -3)>>,
            <<9, <<FALSE, TRUE>>, <<TRUE, FALSE>>, Leave, Enter, OneTick(4, 5, 3)>>,
            <<12, <<FALSE, FALSE>>, <<TRUE, TRUE>>, Leave, Quiet, OneTick(1, 2, 3)>>,
            <<9, <<TRUE, TRUE>>, <<TRUE, TRUE>>, Quiet, Enter, OneTick(1, 5, 0)>>,
            <<10, <<FALSE, FALSE>>, <<FALSE, FALSE>>, Enter, Enter, OneTick(1, 5, 1)>>}}

MCDeskPlans ==
  {[mode |-> m[1], names |-> 2, weights |-> m[2], cash |-> 100, max |-> g[1],
    gates |-> [spread |-> 2, flow |-> g[2], ret |-> g[3], up |-> g[4], cooldown |-> g[5]]] :
     m \in {<<"Any", <<>>>>, <<"All", <<>>>>, <<"Majority", <<>>>>, <<"Weighted", <<3, 1>>>>, <<"Weighted", <<0, 1>>>>},
     g \in {<<1, 0, 0, TRUE, 0>>, <<2, 3, 2, TRUE, 1>>, <<1, 3, 2, FALSE, 2>>}}

-----------------------------------------------------------------------------
(* Option groups: a spread with a wing, a straddle, a condor of one expiry,   *)
(* and legs of two expiries; strikes that make every rate exact, and a put    *)
(* spread whose sold leg no rate weighs.                                    *)

Call(strike, key) == [strike |-> strike, call |-> TRUE, key |-> key]
Put(strike, key) == [strike |-> strike, call |-> FALSE, key |-> key]

GroupPlan(options, cash, liquidates, expiry) ==
  [options |-> options, span |-> 500, exposure |-> 250, leverage |-> 1, cash |-> cash,
   liquidates |-> liquidates, expiry |-> expiry, spot |-> 5]

Winged == <<Put(8, 1), Put(4, 1), Call(8, 1)>>
Calendar == <<Call(4, 1), Call(8, 1), Call(8, 2)>>

MCGroupPlans ==
  {GroupPlan(Winged, 12, TRUE, 9), GroupPlan(Winged, 30, FALSE, 3), GroupPlan(Calendar, 18, FALSE, 9),
   GroupPlan(Calendar, 12, TRUE, 3),
   [GroupPlan(<<Put(8, 1), Put(4, 1)>>, 20, TRUE, 9) EXCEPT !.span = 0, !.leverage = 2],
   [GroupPlan(<<Put(8, 1), Put(4, 1)>>, 20, TRUE, 9) EXCEPT !.span = 0, !.exposure = 0]}

-----------------------------------------------------------------------------
(* Rebalancing: targets that sell one asset for the other, all, or none.     *)

MCRebalancePlans ==
  {[policy |-> p, minTrade |-> m, schedule |-> Itemized.schedule, dp |-> 3, cash |-> 200] :
     p \in {[every |-> 1], [every |-> 2], [band |-> 10], [band |-> 40]}, m \in {0, 25}}
MCRebalanceDates ==
  {[prices |-> p, targets |-> t] : p \in {<<10, 20>>, <<13, 20>>, <<10, 7>>}, t \in {<<50, 50>>, <<100, 0>>, <<0, 30>>, <<45, 50>>}}

-----------------------------------------------------------------------------
\* How many bars, ticks, events or dates a behavior has.
MCMaxBars == [basket |-> 3, pairs |-> 3, options |-> 4, spreads |-> 5, ticks |-> 6, pool |-> 3, stops |-> 3,
              reports |-> 4, desk |-> 4, groups |-> 4, rebalance |-> 3]
MCPremiums == {2, 6}
MCMaxSize == 2
MCCapital == 100
=============================================================================

------------------------------ MODULE MCKernel ------------------------------
(***************************************************************************)
(* Model values for the runs of the kernel: the order shapes each scenario *)
(* lets the strategy submit.                                               *)
(***************************************************************************)
EXTENDS KernelProps

Shape(side, kind, qty, units, tif) ==
  [side |-> side, qty |-> qty, units |-> units, kind |-> kind, tif |-> tif,
   expire |-> 0, postOnly |-> FALSE, reduceOnly |-> FALSE]

Reducing(t) == [t EXCEPT !.reduceOnly = TRUE]
PostOnly(t) == [t EXCEPT !.postOnly = TRUE]
Until(t, ts) == [t EXCEPT !.tif = "Gtd", !.expire = ts]

LimitEntry  == Shape("Buy", "Limit", "Units", 2, "Gtc")
MarketEntry == Shape("Buy", "Market", "Units", 1, "Gtc")
StopLeg     == Reducing(Shape("Sell", "StopMarket", "FullPosition", 0, "Gtc"))

\* A bar run of one netted instrument on a cash account, and nothing optional.
Plain ==
  [hedging |-> FALSE, nextBarOpen |-> FALSE, partialFills |-> FALSE,
   mayPassOver |-> FALSE, usesMargin |-> FALSE, liquidates |-> FALSE,
   maxPositions |-> 0, drawdownGate |-> FALSE, lotSize |-> 1, latency |-> 0,
   activation |-> 0, expiry |-> 99, direction |-> "Long",
   modes |-> {"Bar"}, templates |-> {MarketEntry}, signals |-> FALSE,
   crossInstrument |-> FALSE, lateChildren |-> FALSE, ocoLinks |-> FALSE,
   newUnits |-> {}, stops |-> FALSE, closes |-> FALSE, cancels |-> FALSE,
   volumes |-> {}, fracUnits |-> {1}, maxOrders |-> 2, maxIdx |-> 3, maxNow |-> 0]

\* Stops, cancels and children beside a market and a post-only limit entry.
Resting ==
  [Plain EXCEPT !.stops = TRUE, !.cancels = TRUE, !.maxOrders = 3,
     !.templates = {MarketEntry, StopLeg, PostOnly(LimitEntry),
                    Shape("Sell", "StopLimit", "CapitalFrac", 0, "Ioc")}]

\* Signals beside orders, with both halts.
Signalled ==
  [Plain EXCEPT !.signals = TRUE, !.usesMargin = TRUE, !.drawdownGate = TRUE,
     !.activation = 1, !.fracUnits = {0, 1}, !.maxNow = 1,
     !.maxOrders = 1,
     !.templates = {MarketEntry, Shape("Sell", "Limit", "CapitalFrac", 0, "Gtc")}]

\* Signals under next-bar-open, with halts, liquidation and expiry.
Deferred ==
  [Plain EXCEPT !.nextBarOpen = TRUE, !.signals = TRUE, !.usesMargin = TRUE,
     !.liquidates = TRUE, !.drawdownGate = TRUE, !.activation = 1, !.expiry = 3,
     !.fracUnits = {0, 1}, !.maxOrders = 1, !.maxIdx = 4, !.maxNow = 3,
     !.templates = {MarketEntry, Shape("Sell", "Market", "Units", 1, "AtClose")}]

\* Coexisting positions, their cap and requested closes.
Hedged ==
  [Plain EXCEPT !.hedging = TRUE, !.maxPositions = 2, !.closes = TRUE,
     !.maxOrders = 3,
     !.templates = {MarketEntry, Shape("Sell", "Limit", "Units", 2, "Gtc"),
                    Reducing(Shape("Sell", "StopMarket", "Units", 1, "Gtc"))}]

\* One-cancels-other groups of limits, modified and passed over.
Linked ==
  [Plain EXCEPT !.ocoLinks = TRUE, !.mayPassOver = TRUE, !.newUnits = {2},
     !.templates = {Shape("Buy", "Limit", "Units", 1, "Gtc"),
                    Shape("Sell", "Limit", "Units", 1, "Gtc")}]

\* Partial fills across prints and quotes, orders from another instrument.
Sliced ==
  [Plain EXCEPT !.modes = {"Trade", "Quote"}, !.partialFills = TRUE,
     !.volumes = {1, 2}, !.crossInstrument = TRUE, !.maxIdx = 4,
     !.templates = {LimitEntry, Shape("Buy", "Market", "Units", 2, "Ioc"),
                    Shape("Buy", "Limit", "Units", 2, "Fok"),
                    Reducing(Shape("Sell", "Limit", "Units", 2, "Gtc"))}]

\* Dated and if-touched orders in flight to the venue.
Dated ==
  [Plain EXCEPT !.modes = {"Trade"}, !.volumes = {1}, !.latency = 1, !.maxIdx = 4,
     !.maxNow = 3,
     !.templates = {Until(LimitEntry, 2), Shape("Sell", "StopMarket", "Units", 1, "Day"),
                    Shape("Buy", "LimitIfTouched", "Units", 1, "Gtc"),
                    Shape("Buy", "MarketToLimit", "Units", 1, "Ioc")}]

\* Market orders and children under next-bar-open: their story and their end.
Settling ==
  [Plain EXCEPT !.nextBarOpen = TRUE, !.cancels = TRUE, !.fracUnits = {0, 1},
     !.templates = {MarketEntry, Shape("Sell", "Market", "CapitalFrac", 0, "Gtc"),
                    Shape("Sell", "Market", "Units", 1, "AtClose"), StopLeg}]

OrderRuns  == [resting |-> Resting, hedged |-> Hedged, linked |-> Linked,
               sliced |-> Sliced, dated |-> Dated, settling |-> Settling]
TimingRuns == [signalled |-> Signalled, deferred |-> Deferred, settling |-> Settling]

-----------------------------------------------------------------------------
(* Configurations of the runs that refute what the sources say *)

LinkedRun == [linked |-> Linked]

HedgedRun ==
  [hedged |-> [Plain EXCEPT !.modes = {"Trade"}, !.volumes = {1},
                 !.partialFills = TRUE, !.hedging = TRUE,
                 !.templates = {MarketEntry, Shape("Sell", "Limit", "Units", 2, "Gtc")}]]
=============================================================================

------------------------------- MODULE MCTwap -------------------------------
(***************************************************************************)
(* Model values for the runs of the execution schedules.                   *)
(***************************************************************************)
EXTENDS MCKernel, Twap

Buying(total, slices, every) ==
  [side |-> "Buy", reduceOnly |-> FALSE, total |-> total, slices |-> slices, every |-> every]

Unwinding(total, slices, every) ==
  [side |-> "Sell", reduceOnly |-> TRUE, total |-> total, slices |-> slices, every |-> every]

\* Two schedules side by side on bars, coexisting positions, signals that may
\* end a step before the release.
Spread ==
  [Plain EXCEPT !.hedging = TRUE, !.templates = {}, !.maxIdx = 4, !.maxNow = 3,
     !.signals = TRUE, !.activation = 1, !.maxOrders = 6]

\* Slices waiting for the next bar's open, stopped, canceled or expired.
Waiting ==
  [Plain EXCEPT !.nextBarOpen = TRUE, !.templates = {}, !.cancels = TRUE, !.expiry = 3,
     !.maxOrders = 6, !.maxIdx = 4, !.maxNow = 3]

\* Slices filled in parts by prints, time passing over quotes between them.
Printed ==
  [Plain EXCEPT !.modes = {"Trade", "Quote"}, !.partialFills = TRUE, !.volumes = {1, 2},
     !.templates = {MarketEntry}, !.maxOrders = 3, !.maxIdx = 5, !.maxNow = 4]

TwapRuns == [spread |-> Spread, waiting |-> Waiting, printed |-> Printed]

TwapPlans ==
  [spread  |-> [menu |-> {Buying(5, 3, 1), Buying(2, 0, 1)}, max |-> 2, orders |-> 0],
   waiting |-> [menu |-> {Buying(4, 3, 1), Buying(3, 2, 2)}, max |-> 2, orders |-> 0],
   printed |-> [menu |-> {Buying(5, 2, 1), Unwinding(3, 2, 1)}, max |-> 1, orders |-> 1]]
=============================================================================

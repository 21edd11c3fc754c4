\* Signals at once or at the next bar's open: halts, deferral and what must happen.
SPECIFICATION Spec
CONSTANTS
  NoOrder = NoOrder
  DayLength = 2
  TzOffset = 1
  Configs <- TimingRuns
INVARIANTS
  OneNetPosition
  NoLookahead
PROPERTIES
  HaltStopsOpens
  OrdersSettle
\* the run ends when the data does
CHECK_DEADLOCK FALSE

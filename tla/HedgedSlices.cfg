\* Partial fills of an order under the hedging policy.
SPECIFICATION Spec
CONSTANTS
  NoOrder = NoOrder
  DayLength = 2
  TzOffset = 1
  Configs <- HedgedRun
INVARIANTS
  EntryOrderMatchesSide
\* the run ends when the data does
CHECK_DEADLOCK FALSE

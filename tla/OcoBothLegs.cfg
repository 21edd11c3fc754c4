\* Both members of a one-cancels-other pair reached by one bar.
SPECIFICATION Spec
CONSTANTS
  NoOrder = NoOrder
  DayLength = 2
  TzOffset = 1
  Configs <- LinkedRun
PROPERTIES
  CanceledNeverTrades
\* the run ends when the data does
CHECK_DEADLOCK FALSE

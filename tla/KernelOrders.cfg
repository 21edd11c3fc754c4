\* The life of orders: resting, hedged and linked on bars, sliced and dated on prints.
SPECIFICATION Spec
CONSTANTS
  NoOrder = NoOrder
  DayLength = 2
  TzOffset = 1
  Configs <- OrderRuns
INVARIANTS
  TypeOK
  WithinMaxPositions
  OrdersTellTheirStory
  OrdersEndInTime
  FillsAddUp
  ChildWaitsForParent
PROPERTIES
  EndedOrdersStayEnded
  FillCancelsSiblings
  ReduceOnlyNeverOpens
\* the run ends when the data does
CHECK_DEADLOCK FALSE

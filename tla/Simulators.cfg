\* The array simulators, one part of the state space each.
CONSTANTS
  BasketPlans <- MCBasketPlans
  BasketBars <- MCBasketBars
  PairPlans <- MCPairPlans
  PairBars <- MCPairBars
  OptionPlans <- MCOptionPlans
  OptionBars <- MCOptionBars
  SpreadPlans <- MCSpreadPlans
  SpreadBars <- MCSpreadBars
  TickPlans <- MCTickPlans
  Ticks <- MCTicks
  PoolPlans <- MCPoolPlans
  PoolBars <- MCPoolBars
  StopPlans <- MCStopPlans
  StopBars <- MCStopBars
  RunSamples <- MCRunSamples
  RunEnds <- MCRunEnds
  Capital <- MCCapital
  DeskPlans <- MCDeskPlans
  DeskBars <- MCDeskBars
  GroupPlans <- MCGroupPlans
  Premiums <- MCPremiums
  MaxSize <- MCMaxSize
  RebalancePlans <- MCRebalancePlans
  RebalanceDates <- MCRebalanceDates
  MaxBars <- MCMaxBars
SPECIFICATION Spec
INVARIANTS
  BooksBalance
  DecidedBeforeFilled
  HeldWithinLimits
  FiguresAgree
PROPERTIES
  HaltOpensNothing
\* every simulator stops when its data does
CHECK_DEADLOCK FALSE

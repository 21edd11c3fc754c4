\* The pairs simulator's curve against its records.
CONSTANTS
  BasketPlans <- MCBasketPlans
  BasketBars <- MCBasketBars
  PairPlans <- MCPairPlans
  PairBars <- MCPairBars
  OptionPlans <- MCOptionPlans
  OptionBars <- MCOptionBars
  SpreadPlans <- MCSpreadPlans
  SpreadBars <- MCSpreadBars
  TickPlans <- MCTickPlans
  Ticks <- MCTicks
  PoolPlans <- MCPoolPlans
  PoolBars <- MCPoolBars
  StopPlans <- MCStopPlans
  StopBars <- MCStopBars
  RunSamples <- MCRunSamples
  RunEnds <- MCRunEnds
  Capital <- MCCapital
  DeskPlans <- MCDeskPlans
  DeskBars <- MCDeskBars
  GroupPlans <- MCGroupPlans
  Premiums <- MCPremiums
  MaxSize <- MCMaxSize
  RebalancePlans <- MCRebalancePlans
  RebalanceDates <- MCRebalanceDates
  MaxBars <- MCMaxBars
SPECIFICATION Spec
INVARIANTS
  CurveIsProfit
CHECK_DEADLOCK FALSE

\* One shared account over two instruments, in five ways of funding.
SPECIFICATION Spec
CONSTANTS
  Configs <- Portfolios
  Instruments <- TwoInstruments
  Prices <- HalfOrDouble
INVARIANTS
  LedgersAgree
  HaltIsShared
  CallFiresOnce
  BreachIsCalled
PROPERTIES
  SpendsWithinMeans
  HaltStopsEveryInstrument
\* a finished session does nothing
CHECK_DEADLOCK FALSE

\* Bars from four kinds of tape, resting limits in the queue, trading days.
SPECIFICATION Spec
CONSTANTS
  Feeds <- Tapes
  Specs <- SomeSpecs
  Epoch <- NewYearsEve
  DayLength = 2
  Align = 1
  MaxBricks = 2
  MaxRecords = 4
  None = None
  Prices <- TwoPrices
  Sizes <- OneAndThree
  Units = {2}
  BookDepth = 1
  Venues <- TwoVenues
  MaxLimits = 2
  MaxFeed = 4
  Unsized = Unsized
  Unknown = Unknown
  MarketOpen = 2
  MarketClose = 8
  SquareoffBefore = 2
  Offset = 3
  DayMinutes = 10
  Gaps <- SomeGaps
  Ranges <- TwoRanges
  MaxBars = 4
INVARIANTS
  BarsAreRight
  NoBarLooksAhead
  OneSessionADay
PROPERTIES
  QueuePlaceHolds
\* every part stops at its bounds
CHECK_DEADLOCK FALSE

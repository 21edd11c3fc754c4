\* Attached arrays merged into the schedule, live events behind them.
SPECIFICATION Spec
CONSTANTS
  Instruments <- TwoInstruments
  Streams <- SmallStreams
  MaxStreams = 8
  MaxPushes = 2
INVARIANTS
  ScheduleIsWhole
  RoutedOrderMeetsNextPrint
PROPERTIES
  DeliversInOrder
  EverythingApplied
\* the run ends when the feed does
CHECK_DEADLOCK FALSE

\* Schedules beside one kernel: at once, deferred, and over prints.
SPECIFICATION TwapSpec
CONSTANTS
  NoOrder = NoOrder
  DayLength = 2
  TzOffset = 1
  Configs <- TwapRuns
  Plans <- TwapPlans
INVARIANTS
  PlanIsKept
  SlicesKeepPace
  StoppedTwapIsQuiet
\* the run ends when the data does
CHECK_DEADLOCK FALSE

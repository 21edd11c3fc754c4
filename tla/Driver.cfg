\* Timers over leaping clocks, bars of two instruments, prints among quotes.
SPECIFICATION Spec
CONSTANTS
  Symbols <- Two
  Runs <- MCRuns
  NoTime <- Never
INVARIANTS
  FillsToldOnce
  CacheMirrorsEngine
  ClockKeepsTime
  BracketsStayWhole
  DataHandlersRouteHome
\* the run ends with the tape, or with an error the runner raises
CHECK_DEADLOCK FALSE

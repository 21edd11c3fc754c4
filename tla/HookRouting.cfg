\* A hook's order after one instrument's event, drained at the other's.
SPECIFICATION Spec
CONSTANTS
  Symbols <- Two
  Runs <- RoutedRuns
  NoTime <- Never
INVARIANT HandlersRouteHome
CHECK_DEADLOCK FALSE

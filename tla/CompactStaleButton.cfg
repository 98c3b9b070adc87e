\* A refresh timer that fires in delete mode.
SPECIFICATION Spec
CONSTANTS
  Keys = {1, 2}
  Detail = "recently"
  MaxAlerts = 1
  MaxPosted = 3
INVARIANT DeleteButtonHasRows
\* A trapped program stops.
CHECK_DEADLOCK FALSE

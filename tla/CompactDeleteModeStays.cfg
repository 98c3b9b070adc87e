\* The view model after a deletion.
SPECIFICATION Spec
CONSTANTS
  Keys = {1, 2}
  Detail = "recently"
  MaxAlerts = 1
  MaxPosted = 3
INVARIANT DeleteModeIsReset
\* A trapped program stops.
CHECK_DEADLOCK FALSE

\* The tab that sorts its rows: three rows, one confirmation, with a fair main
\* queue for the liveness of the refresh control.
SPECIFICATION FairSpec
CONSTANTS
  Keys = {1, 2, 3}
  Detail = "download"
  MaxAlerts = 1
  MaxPosted = 4
INVARIANT RefreshCanEnd
PROPERTIES AsManyDeleted RefreshEnds
\* A trapped program stops.
CHECK_DEADLOCK FALSE

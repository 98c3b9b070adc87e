\* A tab whose table has the order of the store: three rows, two confirmations.
SPECIFICATION Spec
CONSTANTS
  Keys = {1, 2, 3}
  Detail = "recently"
  MaxAlerts = 2
  MaxPosted = 3
INVARIANTS TypeOK NoDetailInDeleteMode AllSelectedImpliesChecked CrashNeedsRefreshOrRace
PROPERTY ConfirmedIsDeleted
\* A trapped program stops.
CHECK_DEADLOCK FALSE

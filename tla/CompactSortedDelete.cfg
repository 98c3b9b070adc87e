\* A deletion in the sorted tab.
SPECIFICATION Spec
CONSTANTS
  Keys = {1, 2}
  Detail = "download"
  MaxAlerts = 1
  MaxPosted = 3
PROPERTY ConfirmedIsDeleted
\* A trapped program stops.
CHECK_DEADLOCK FALSE

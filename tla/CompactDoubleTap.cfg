\* Two taps on the delete button.
SPECIFICATION Spec
CONSTANTS
  Keys = {1, 2}
  Detail = "recently"
  MaxAlerts = 2
  MaxPosted = 3
PROPERTY OnlyConfirmedIsDeleted
\* A trapped program stops.
CHECK_DEADLOCK FALSE

\* The screens of the main list: two openings of the countdown, three items to
\* pick from, two events that start and stop while the clock goes on.
SPECIFICATION Spec
CONSTANTS
  MaxValue = 4
  Reach = 1
  LastItem = 2
  CountFrom = 3
  MaxOpenings = 2
  Dates = {1, 3}
  Horizon = 3
  MaxEvents = 2
  MaxPosted = 3
INVARIANTS TypeOK RangeCanWiden SettledOnDevice PickerSettles SpinsOnlyAfterFailure
PROPERTIES OnlyTouchedThumbMoves FollowsDevice NoNumberIsSkipped CountEnds EachEventOnce GroupedAndSorted
\* A trapped program stops.
CHECK_DEADLOCK FALSE

SPECIFICATION Spec
CONSTANTS
  e1 = e1
  e2 = e2
  e3 = e3
  Events = {e1, e2, e3}
  StampsOf <- Stamps
  Clock <- Clocks
  Hour = 2
  Months <- MonthsOf3
  MonthStart <- StartOf3
  Ranges = {"24h", "7d", "30d", "90d", "12m"}
  MaxLimit = 2
  Limits = {0, 1, 3}
  None = None
CHECK_DEADLOCK FALSE
INVARIANTS TypeOK CountsAgree PagesMissOnlyCursors

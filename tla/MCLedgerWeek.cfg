CONSTANTS
  Order = {s1}
  Buys = {}
  Lot = 1
  Owned = 1
  NoOrder = NoOrder
  SessionNights <- MCSessionNights
SPECIFICATION WeekSpec
PROPERTIES TwoRunsSettle
CHECK_DEADLOCK FALSE

CONSTANTS
  Order = {b, s}
  Buys = {b}
  Lot = 2
  Owned = 1
  NoOrder = NoOrder
SPECIFICATION Spec
INVARIANTS TypeOK NeverMoreThanFilled OneRowPerOrder
CHECK_DEADLOCK FALSE

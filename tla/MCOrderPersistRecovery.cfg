CONSTANTS
  tickA = tickA
  tickB = tickB
  Order = {t1, t2}
  TraderOrder = {t1, t2}
  OtherOrder = {}
  Ticker = {tickA, tickB}
  TickerOf <- MCTickerOf
  Owner <- MCOwner
  Elsewhere = {tickA}
  NoOrder = NoOrder
SPECIFICATION RecoverySpec
PROPERTIES EveryFillRecorded
CHECK_DEADLOCK FALSE

CONSTANTS
  tickA = tickA
  tickB = tickB
  Order = {r1, r2, t1}
  TraderOrder = {t1}
  OtherOrder = {}
  Ticker = {tickA, tickB}
  TickerOf <- MCTickerOf
  Owner <- MCOwner
  Elsewhere = {}
  NoOrder = NoOrder
SYMMETRY Symmetry
SPECIFICATION Spec
INVARIANTS TypeOK RiskWriteAhead JournalTruthful FlagsAfterPersist LockEvidence OneSellLockPerTicker
PROPERTIES NoSellUnderLock LockReleasedOnceRecorded ImplementsDurableSell
CHECK_DEADLOCK FALSE

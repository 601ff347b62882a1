CONSTANTS
  Ticker = {a}
  FlagTTL = 1
  PartialDays = 1
  PeriodDays = 2
  MaxDay = 3
  NoTicker = NoTicker
  Torn = Torn
SPECIFICATION Spec
INVARIANTS TypeOK OnceUnlessUnflagged RebuyBlockedUnlessStale
CHECK_DEADLOCK FALSE

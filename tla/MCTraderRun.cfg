CONSTANTS
    a = a
    b = b
    Ticker = {a, b}
    Starts <- MCStarts
    Plans <- MCPlans
    Reserve = 1
    Dear = 1
    MaxEvents = 1
    Tries = 2
    MaxShares = 2
    MinOrder = 1
SPECIFICATION Spec
CHECK_DEADLOCK FALSE
INVARIANTS TypeOK OversellOnlyRaced SalesRecordedHappened BuyLimits BoughtAsPlanned

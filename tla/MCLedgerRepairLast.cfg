CONSTANTS
    Quotes = {3}
    BuyPrices = {2, 3}
    SellPrices = {4}
    BuyShares = {2}
    SellShares = {1, 2}
    LastDay = 2
    MaxOrders = 4
    MaxOpen = 1
    MaxOdd = 1
SPECIFICATION RepairSpec
INVARIANTS
    RecordedAgainstLastBuy
CHECK_DEADLOCK FALSE

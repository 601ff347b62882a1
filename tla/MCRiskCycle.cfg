SPECIFICATION FairSpec
CONSTANTS
    a = a
    b = b
    Ticker = {a, b}
    Average = 1140
    CrashPrice = 900
    Prices <- MCPrices
    Core <- MCCore
    Begin <- MCBegin
    MaxFaults = 1
INVARIANT TypeOK
PROPERTIES YoungKept EmergencyActed

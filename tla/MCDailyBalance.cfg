CONSTANTS
    Begin = 6
    End = 7
    Olds <- MCOlds
    MaxOps = 1
SPECIFICATION Spec
CHECK_DEADLOCK FALSE
INVARIANTS TypeOK OneDate
PROPERTY BalancesKept

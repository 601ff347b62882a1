CONSTANTS
  Stocks = 3
  Issuers = {i1, i2}
  Sectors = {s1, s2}
  Config <- MCConfig
SYMMETRY IssuersAndSectors
SPECIFICATION Spec
INVARIANTS TypeOK BestList AccountedFor ReasonTrue
CHECK_DEADLOCK FALSE

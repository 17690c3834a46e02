SPECIFICATION Spec
CONSTANTS
  Entities = {"keyword", "query"}
  Kind <- MCKind
  BidLevel = "KEYWORD"
  MaxBidChange = 15
  MaxShare = 30
  MassPause = 1
  BigChange = 14
  Workers = {w1, w2}
  Statistics <- MCStatistics
  Spending <- MCSpending
  Budget = 100
  Target = 100
  FirstModes = {"FULL", "ASSIST"}
  FirstBid = 20
  HumanBids = {30}
  Window = 1
  Day = 2
  LastTick = 2
  MaxFaults = 1
INVARIANT WrittenOnce
INVARIANT AskedOnce
PROPERTY WindowHeld
CHECK_DEADLOCK FALSE
SYMMETRY Symmetry
CONSTRAINTS Overlap Later

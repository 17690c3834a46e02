SPECIFICATION Spec
CONSTANTS Ids = {"e1", "e2", "e3"} PageLimit = 2 PageServed = 1 MaxMoves = 4 MaxFaults = 1
PROPERTIES LiveIsKept HalfStays RowsHeal
CHECK_DEADLOCK FALSE

SPECIFICATION Spec
CONSTANTS
    Jobs = {"j1", "j2", "j3", "j4"}
    MaxConcurrent = 2
    Attempts = 2
    Reserve = 3
    Cost = 2
    ErrorCost = 1
    Hourly = 3
    Daily = 6
    MaxFaults = 0
CHECK_DEADLOCK FALSE
PROPERTY UnitsReturn

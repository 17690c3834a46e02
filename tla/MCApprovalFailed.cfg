CONSTANTS
    Cards = {c1}
    Presses = {p1}
    Crons = {r1}
    NoCard = NoCard
    TTL = 2
    StuckAfter = 1
    MaxClock = 3
    MaxFaults = 1
SPECIFICATION Spec
INVARIANT FailedMeansUntouched

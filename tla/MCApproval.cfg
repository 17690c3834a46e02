CONSTANTS
    Cards = {c1}
    Presses = {p1, p2}
    Crons = {r1, r2}
    NoCard = NoCard
    TTL = 1
    StuckAfter = 1
    MaxClock = 2
    MaxFaults = 0
SPECIFICATION Spec
SYMMETRY Symmetry
INVARIANTS
    OnceOnly
    ToldOnce
    CardAgreesWithRow
PROPERTY ImplementsLifecycle

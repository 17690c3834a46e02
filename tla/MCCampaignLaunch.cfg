CONSTANTS
    Launches = {l1, l2}
    Appliers = {w1, w2}
    Cards = {c1, c2, c3}
    Slots = {s1, s2}
    NoCard = NoCard
    NoPlan = NoPlan
    MaxAsks = 2
    MaxGeneration = 1
    MaxEdits = 1
    MaxFaults = 1
SPECIFICATION Spec
SYMMETRY Symmetry
INVARIANTS
    OnePerAsk
    CreatedIsRemembered
    BlockedForAReason
CHECK_DEADLOCK FALSE

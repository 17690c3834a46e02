CONSTANTS
  c1 = c1
  c2 = c2
  Recipients <- MCRecipients
  Cabinets <- MCCabinets
  Kinds = {"daily", "weekly"}
  Length <- MCLength
  LastTick = 3
  MaxFaults = 1
  Noise = {2}
  Lookback = 2
  BurstWindow = 1
  Threshold = 2
  MaxGroups = 3
  MaxPerRun = 2
  Cooldown = 3
  LongCooldown = 4
  SpendInterval = 3
  AlertDay = 2
  MaxRows = 2
  SpendStates <- MCSpendStates
SPECIFICATION Spec
INVARIANTS OneText Answered SilenceIsEarned Heard
CONSTRAINT OneRun
CHECK_DEADLOCK FALSE

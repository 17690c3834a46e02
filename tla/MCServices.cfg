SPECIFICATION Spec
CHECK_DEADLOCK FALSE
CONSTANTS
    Handlers = {"h1", "h2"}
    Messages <- MCMessages
    Turns <- MCTurns
    OldBriefs <- MCOldBriefs
    MaxQuestions = 3
    LandingUrlAttempts = 1
    MaxMessages = 3
    HandConfig <- MCHandConfig
    Grounds = {"g1"}
    Window = 2
    LastTick = 5
    TestAds = {"a1", "a2", "a3"}
    VariantOf <- MCVariantOf
    Outcomes <- MCOutcomes
    MinImpressions = 10
    MinExpected = 1
    CriticalZ2 <- MCCriticalZ2
    MinLiftPct = 10
    MaxCollectingDays = 2
    LastDay = 2
    Processes = {"worker", "server"}
    Requests <- MCRequests
    TokenLimit = 2
    Ttl = 4
    Margin = 2
    Remint = 2
    MaxMinted = 3
    LastTokenTick = 3
    Inputs <- MCInputs
    YandexFields = {"accessToken", "refreshToken", "expiresAt", "clientLogin", "useOperatorUnits"}
    Passes = {"p1", "p2"}
    MaxTokens = 4
    MaxCommands = 4
    Jobs = {"j1", "j2", "j3", "j4", "j5"}
    MaxConcurrent = 2
    Attempts = 2
    Reserve = 11
    Cost = 2
    ErrorCost = 1
    Hourly = 3
    Daily = 13
    Runs = {"r1", "r2"}
    Prompts = {"p1"}
    MonthlyLimit = 2
    ModelAttempts = 2
    RepairAttempts = 1
    MaxRows = 4
    Campaigns = {"c1", "c2"}
    MaxStarts = 3
    MaxFaults = 1
INVARIANTS
    InterviewIsHonest
    SilenceIsFounded
    GroupStaysOn
    TokensLast
    ReserveHolds
    SuccessesAreCharged
    OneModelAtRest
    AnswersAreWhole
    PlansAreWhole
    VerdictsAreFounded
PROPERTY HandStays

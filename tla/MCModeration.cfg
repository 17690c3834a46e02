CONSTANTS
    Ads = 1
    Channels = {"yandex", "vk"}
    Runs = {w1}
    Syncs = {}
    NoJob = NoJob
    MaxRetries = 2
    MaxRepairs = 1
    MaxMissing = 1
    LastBanner = 2
    MaxFaults = 1
SPECIFICATION FairSpec
INVARIANTS
    AttemptsCounted
    OneLetter
PROPERTIES
    ClaimIsGivenUp
    LostRowIsArchived
    DeadEndIsHandedOver

CONSTANTS
    Ads = 1
    Channels = {"vk"}
    Runs = {w1}
    Syncs = {s1}
    NoJob = NoJob
    MaxRetries = 1
    MaxRepairs = 1
    MaxMissing = 1
    LastBanner = 1
    MaxFaults = 0
SPECIFICATION FairSpec
INVARIANTS
    BannerIsKnown
PROPERTIES
    LeftBehindIsArchived

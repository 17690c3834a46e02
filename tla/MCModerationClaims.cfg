CONSTANTS
    Ads = 1
    Channels = {"yandex", "vk"}
    Runs = {w1, w2}
    Syncs = {s1}
    NoJob = NoJob
    MaxRetries = 2
    MaxRepairs = 1
    MaxMissing = 1
    LastBanner = 1
    MaxFaults = 0
SPECIFICATION Spec
SYMMETRY Symmetry
INVARIANTS
    OneRewriter

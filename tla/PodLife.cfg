CONSTANTS
    FirstLineWithin = 1
    SilenceLimit = 2
    StartAttempts = 2
    WaitTimeouts = {0, 1}
    MaxLines = 2
    MaxCuts = 1
    MaxClock = 15
    m1 = m1
    m2 = m2
    Models = {m1, m2}
    Served <- MCServed
    Persist = FALSE
    HealthTimeout = 1
    MaxLog = 1
    MaxTwice = 1
    dc1 = dc1
    dc2 = dc2
    Sites = {dc1, dc2}
    Region <- MCRegion
    GigaBytes <- MCGigaBytes
    small = small
    Flavor = {small}
    FlavorRam <- MCFlavorRam
    MaxRounds = 2
    MaxHours = 1
    MaxLost = 1
    Suites <- MCSuites
    Deployments <- MCDeployments
    ServedLens <- MCServedLens
    Tokenizers <- MCTokenizers
    Schema <- MCSchema
    JsonValues <- MCJsonValues
    Checks <- MCChecks
SPECIFICATION Spec
INVARIANTS AbandonedWhenSilent KeptOnce VerdictIsTheModels WeightsAsRecorded StorageIsPaid NeedleFillsContext
PROPERTY PodEnds

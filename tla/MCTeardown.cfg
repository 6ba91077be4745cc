SPECIFICATION FairSpec
CONSTANTS
    MaxInt = 3
    Unavailable = Unavailable
    vllm = vllm
    m1 = m1
    m2 = m2
    r1 = r1
    r2 = r2
    shared1 = shared1
    shared2 = shared2
    Engines <- MCEngines
    Models <- OneModel
    Runtimes <- OneRuntime
    SharedClaims <- NoClaims
    OwnClaim = OwnClaim
    NoCache = NoCache
    Managed = Managed
    NoAutoscaling = NoAutoscaling
    None = None
    DefaultScaleUp = 1
    DefaultScaleDown = 2
    Working <- OneRuntime
    BackoffLimit = 1
    Specs <- TeardownSpecs
    FirstSpecs <- TeardownSpecs
    Depths = {0}
    MaxEdits = 0
    MaxDeletes = 1
    MaxLosses = 0
    MaxDrifts = 0
    MaxFaults = 1
    MaxTime = 1
    WarmFails = TRUE
    Prompt = {"dep"}
INVARIANTS
    NoLeftovers
PROPERTIES
    TeardownCompletes
CHECK_DEADLOCK FALSE

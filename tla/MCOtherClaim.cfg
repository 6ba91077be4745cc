SPECIFICATION Spec
CONSTANTS
    MaxInt = 3
    Unavailable = Unavailable
    vllm = vllm
    m1 = m1
    m2 = m2
    r1 = r1
    r2 = r2
    shared1 = shared1
    shared2 = shared2
    Engines <- MCEngines
    Models <- OneModel
    Runtimes <- OneRuntime
    SharedClaims <- BothClaims
    OwnClaim = OwnClaim
    NoCache = NoCache
    Managed = Managed
    NoAutoscaling = NoAutoscaling
    None = None
    DefaultScaleUp = 1
    DefaultScaleDown = 2
    Working <- OneRuntime
    BackoffLimit = 0
    Specs <- ClaimSpecs
    FirstSpecs <- ClaimSpecs
    Depths = {0}
    MaxEdits = 1
    MaxDeletes = 0
    MaxLosses = 0
    MaxDrifts = 0
    MaxFaults = 0
    MaxTime = 1
    WarmFails = FALSE
    Prompt = {"md", "jobs", "dep", "pods"}
INVARIANTS
    ServeOnlyCachedWeights
CHECK_DEADLOCK FALSE

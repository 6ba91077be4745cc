SPECIFICATION FairLoopSpec
CONSTANTS
    MaxInt = 15
    Unavailable = Unavailable
    DefaultScaleUp = 1
    DefaultScaleDown = 2
    p1 = p1
    p2 = p2
    Policies <- OrderedPolicies
    Pods <- MCPods
    Metrics = {0, 1000, 2000}
    Sizes = {0, 4}
    Quiet = 2
    Settling = 7
    MaxLost = 1
    MaxTime = 11
INVARIANTS
    LoopTypeOK
    RateBounded
PROPERTIES
    MovesTowardsNeed
    NoGrowthWhileCold
    Converges
CHECK_DEADLOCK FALSE

SPECIFICATION FairLoopSpec
CONSTANTS
    MaxInt = 15
    Unavailable = Unavailable
    DefaultScaleUp = 1
    DefaultScaleDown = 2
    p1 = p1
    p2 = p2
    Policies <- IdlePolicies
    Pods <- MCPods
    Metrics = {0, 1000}
    Sizes = {1, 2}
    Quiet = 1
    Settling = 7
    MaxLost = 0
    MaxTime = 6
PROPERTIES
    ReachesZero
CHECK_DEADLOCK FALSE

SPECIFICATION FairPodSpec
CONSTANTS
    LoadTimeouts <- MCLoadTimeouts
    BootTimes <- MCBootTimes
    LoadTimes <- MCLoadTimes
    MaxAge = 70
    MaxHangs = 2
INVARIANTS
    TrafficOnlyWhenLoaded
    HungServerIsCutOff
PROPERTIES
    LoadTimeGranted
    EventuallyTakesTraffic

CONSTANTS
    Keys = {k1, k2}
    Families = {f1}
    Family <- OneFamily
    Capacity <- CapacityOfTwo
    Window <- WindowOfTwo
    Safety <- SafetyOfOne
    Threads = {t1, t2, t3, t4}
    Key <- SplitKey
    Cost <- MixedCost
    Retries = 1
    Delays = {1, 3}
    Lateness = 0
SPECIFICATION FairSpec
INVARIANTS
    TypeOK
    RollingWindow
    PausesRespected
    NoOversleep
PROPERTIES
    EveryRequestEnds

SPECIFICATION Spec
CONSTANTS
    MjdEpoch = 10
    Floor = 2
    Nsigma = 3
    Psd = 3
    Pad = 2
    Edge = 3
    Fir = 1
    Cluster = 2
    MaxTriggers = 2
    Threshold = 3
    Step = 2
    Valid <- MCValid
    Delay <- MCDelay
    Cases <- MCCases
INVARIANTS
    SearchIsWhole
    WindowHoldsFit
    OnlineIsTrue
    ScoreIsHonest
CHECK_DEADLOCK FALSE

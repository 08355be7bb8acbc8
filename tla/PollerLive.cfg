\* Two APs, one of which refuses every connection; jobs that are not spooled;
\* a removal that may fail and an outage.
SPECIFICATION FairSpec
CONSTANTS
    Jobs <- MCJobs
    ClusterOf <- TwoClusters
    ApOf <- TwoAps
    DefaultAp = ospool
    Staging = {j2}
    NoCallback = {}
    NotPost = {}
    Spooled = FALSE
    ConnectFaulty = {igwn}
    QueryFaulty = {}
    HistoryFaulty = {}
    Resumes = FALSE
    ActMayFail = TRUE
    RetrieveMayFail = FALSE
    DeleteMayFail = FALSE
    AnswersLost = TRUE
    RehydrateMayFail = FALSE
    HistoryRotates = FALSE
    WindowEnds = FALSE
    MaxOutages = 1
    MaxCrashes = 0
    j1 = j1
    j2 = j2
    c1 = c1
    c2 = c2
    ospool = ospool
    igwn = igwn
INVARIANTS
    FailureIsTrue
PROPERTIES
    EveryFinishedIsHeard
    FinishedIsCleaned

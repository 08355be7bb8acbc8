\* The AP of one job connects and then raises on the query.
SPECIFICATION FairSpec
CONSTANTS
    Jobs <- MCJobs
    ClusterOf <- TwoClusters
    ApOf <- TwoAps
    DefaultAp = ospool
    Staging = {}
    NoCallback = {}
    NotPost = {}
    Spooled = TRUE
    ConnectFaulty = {}
    QueryFaulty = {igwn}
    HistoryFaulty = {}
    Resumes = FALSE
    ActMayFail = FALSE
    RetrieveMayFail = FALSE
    DeleteMayFail = FALSE
    AnswersLost = FALSE
    RehydrateMayFail = FALSE
    HistoryRotates = FALSE
    WindowEnds = FALSE
    MaxOutages = 0
    MaxCrashes = 0
    j1 = j1
    j2 = j2
    c1 = c1
    c2 = c2
    ospool = ospool
    igwn = igwn
PROPERTIES
    EveryFinishedIsHeard

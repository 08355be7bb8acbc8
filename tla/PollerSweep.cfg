\* A batch of two jobs, one with staged products; one outage, a schedd that may raise.
SPECIFICATION Spec
CONSTANTS
    Jobs <- MCJobs
    ClusterOf <- OneCluster
    ApOf <- OneAp
    DefaultAp = ospool
    Staging = {j1}
    NoCallback = {}
    NotPost = {}
    Spooled = TRUE
    ConnectFaulty = {}
    QueryFaulty = {ospool}
    HistoryFaulty = {}
    Resumes = TRUE
    ActMayFail = FALSE
    RetrieveMayFail = TRUE
    DeleteMayFail = TRUE
    AnswersLost = TRUE
    RehydrateMayFail = TRUE
    HistoryRotates = TRUE
    WindowEnds = TRUE
    MaxOutages = 1
    MaxCrashes = 0
    j1 = j1
    j2 = j2
    c1 = c1
    c2 = c2
    ospool = ospool
    igwn = igwn
INVARIANTS
    TypeOK
    ClosedIsReported
    SilentOnceAnswered
    SuccessIsTrue
    InputsKept
PROPERTIES
    ImplementsJobLedger

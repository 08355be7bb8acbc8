\* Two jobs on an AP each, the one of igwn without a callback URL, and two restarts at
\* any moment; at ospool queries and history calls that raise now and then, and a
\* history that forgets.
SPECIFICATION FairSpec
CONSTANTS
    Jobs <- MCJobs
    ClusterOf <- TwoClusters
    ApOf <- ApEach
    DefaultAp = ospool
    Staging = {j1, j2}
    NoCallback = {j2}
    NotPost = {}
    Spooled = TRUE
    ConnectFaulty = {}
    QueryFaulty = {ospool}
    HistoryFaulty = {ospool}
    Resumes = TRUE
    ActMayFail = FALSE
    RetrieveMayFail = FALSE
    DeleteMayFail = TRUE
    AnswersLost = TRUE
    RehydrateMayFail = FALSE
    HistoryRotates = TRUE
    WindowEnds = FALSE
    MaxOutages = 0
    MaxCrashes = 2
    j1 = j1
    j2 = j2
    c1 = c1
    c2 = c2
    ospool = ospool
    igwn = igwn
INVARIANTS
    LeftIsNoted
    QueueIsKnown
\* After a restart JOBS may stay empty, and then a poll changes nothing.
CHECK_DEADLOCK FALSE
PROPERTIES
    OpenIsHeard

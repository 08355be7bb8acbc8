\* One request on each route, with two jobs at a time: only the global cap,
\* which a job from before the restart may already count against.
SPECIFICATION Spec
CONSTANTS
    Requests <- MixedRequests
    NoRequest = NoRequest
    NoResource = NoResource
    AnalysisOf <- BatchAnalysis
    ResourceOf <- BatchResource
    WrapperOf <- MixedWrapper
    SignatureOf <- BatchSignature
    Invalid = {}
    Malformed = {}
    Faulty = {r2, r3}
    Unreachable = {r3}
    Lingering = {}
    Inherited = {r5}
    BatchEnabled = TRUE
    IgwnWrappers <- MixedIgwn
    MaxTotal = 2
    MaxPerAnalysis = 0
    MaxPerResource = 0
    MaxWaiting = 4
    MaxBatch = 2
    SubmitWorkers = 1
    AlmaWorkers = 1
    r1 = r1
    r2 = r2
    r3 = r3
    r4 = r4
    r5 = r5
    src1 = src1
    src2 = src2
INVARIANTS
    OnePlace
    SubmittingAccounts
    NothingDropped
    OldestFirst
\* Everything sent may be settled, or the plugin stopped: the system may really stop.
CHECK_DEADLOCK FALSE

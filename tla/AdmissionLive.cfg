\* Fair scheduling with one worker in each pool, one job of an analysis at a time,
\* an ALMA submit that may never return, and a shutdown.
SPECIFICATION FairSpec
CONSTANTS
    Requests <- LiveRequests
    NoRequest = NoRequest
    NoResource = NoResource
    AnalysisOf <- LiveAnalysis
    ResourceOf <- LiveResource
    WrapperOf <- LiveWrapper
    SignatureOf <- LiveSignature
    Invalid = {r4}
    Malformed = {}
    Faulty = {r2}
    Unreachable = {r2}
    Lingering = {}
    Inherited = {}
    BatchEnabled = TRUE
    IgwnWrappers = {"pygrb"}
    MaxTotal = 0
    MaxPerAnalysis = 1
    MaxPerResource = 0
    MaxWaiting = 4
    MaxBatch = 2
    SubmitWorkers = 1
    AlmaWorkers = 1
    r1 = r1
    r2 = r2
    r3 = r3
    r4 = r4
    r5 = r5
    src1 = src1
    src2 = src2
PROPERTIES
    EveryAcceptedIsSettled
    OthersSettleDespiteAlma
\* Everything sent may be settled, or the plugin stopped: the system may really stop.
CHECK_DEADLOCK FALSE

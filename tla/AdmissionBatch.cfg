\* Batch mode: every request is batchable, at most two jobs in flight, one of a source.
SPECIFICATION Spec
CONSTANTS
    Requests <- FourRequests
    NoRequest = NoRequest
    NoResource = NoResource
    AnalysisOf <- BatchAnalysis
    ResourceOf <- BatchResource
    WrapperOf <- BatchWrapper
    SignatureOf <- BatchSignature
    Invalid = {}
    Malformed = {}
    Faulty = {r2}
    Unreachable = {r2}
    Lingering = {}
    Inherited = {}
    BatchEnabled = TRUE
    IgwnWrappers = {}
    MaxTotal = 3
    MaxPerAnalysis = 2
    MaxPerResource = 1
    MaxWaiting = 2
    MaxBatch = 2
    SubmitWorkers = 1
    AlmaWorkers = 1
    r1 = r1
    r2 = r2
    r3 = r3
    r4 = r4
    r5 = r5
    src1 = src1
    src2 = src2
INVARIANTS
    TypeOK
    EachOnce
    CapsHold
PROPERTIES
    ImplementsLedger
\* Everything sent may be settled, or the plugin stopped: the system may really stop.
CHECK_DEADLOCK FALSE

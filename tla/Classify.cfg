SPECIFICATION Spec
CONSTANTS
    Width = 2
    MaxSep = 2
    PhaseMax = 2
    MinDetections = 3
    MinRows = 3
    MinPerBand = 1
    Retries = 3
    Features <- MCFeatures
    Classes <- MCClasses
    Labelled = {1}
    Cases <- MCCases
INVARIANTS
    HostIsTrue
    ClassIsEarned
CHECK_DEADLOCK FALSE

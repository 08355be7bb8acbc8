SPECIFICATION FairSpec
CONSTANTS
    Jobs = {j1}
    Grouped = {j1}
    Models = {m1, m2}
    Kernels = {k1, k2}
    Spooled = TRUE
    HasUrl = TRUE
    MayDie = TRUE
    MayRefuse = TRUE
    MaxRuns = 2
    MaxOutages = 2
    MaxCrashes = 1
INVARIANTS
    BundlesAreTrue
PROPERTIES
    DeliveryKeeps
    Answered
CHECK_DEADLOCK FALSE

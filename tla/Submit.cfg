\* Pairs of requests on both paths, under four configurations.
SPECIFICATION Spec
CONSTANTS
    Configs <- PassConfigs
    Items <- PassItems
    MaxRequests = 2
    Spelling <- Lower
INVARIANTS
    RecordIsTrue
    BatchIsSingle
    ExplicitWins
    RunsAsMeant
\* A behaviour ends with its last request submitted.
CHECK_DEADLOCK FALSE

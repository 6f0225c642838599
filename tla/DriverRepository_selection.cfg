SPECIFICATION Spec
CONSTANTS
    Versions = {1, 2, 3, 4}
    Retired = {4}
    Releases <- MCReleases
    MaxOps = 3
    MaxStops = 2
    MaxFaults = 1
CHECK_DEADLOCK FALSE
INVARIANTS
    RecordsAgree
    OnlySoundArtifactsRun
    GoingBackStays
PROPERTIES
    FailedUpdateRestores

SPECIFICATION SourceSpec
CONSTANTS
    s1 = s1
    s2 = s2
    Stems = {s1}
    Contents = {1, 2}
    MaxGenerations = 3
    MaxChanges = 3
    MaxFailures = 1
    MaxCrashes = 1
    MaxLosses = 1
    MaxFaults = 2
INVARIANTS
    RebuildRestoresPackages
PROPERTIES
    FinishedSyncAgrees

SPECIFICATION AnalysisSpec
CONSTANTS
    Worlds <- MCWorlds
    Plans <- MCPlans
    Retries = {r1}
    MaxDepth = 2
    MaxFiles = 6
    MaxBytes = 6
    MaxSingle = 2
    MaxRatio = 2
    MaxNested = 2
    MaxJobs = 2
    MaxKills = 1
CHECK_DEADLOCK FALSE
INVARIANTS
    ProvenanceHolds
PROPERTIES
    FinalJobsStand

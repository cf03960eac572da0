SPECIFICATION FairSpec
CONSTANTS
    w1 = w1
    w2 = w2
    i1 = i1
    i2 = i2
    Workers = {w1}
    May <- OneOperator
    Images = {i1, i2}
    Repeats = 2
    RequireMatch = TRUE
    MalwareProfile = TRUE
    MaxCrashes = 2
INVARIANTS
    ReadsFollowProfile
    CompleteHasEvidence
PROPERTIES
    RecordStands
    CapturedRunEnds

SPECIFICATION FairSpec
CONSTANTS
    w1 = w1
    w2 = w2
    f1 = f1
    None = None
    Dead = Dead
    Watchers = {w1, w2}
    Crews = {{w1}, {w1, w2}}
    Files = {f1}
    Policies = {"LEAVE", "MOVE", "DELETE"}
    LateWrites = {"LEAVE", "MOVE"}
    MaxRetries = 2
    MaxVersions = 2
    MaxFailures = 4
    MaxCrashes = 2
INVARIANTS
    ClaimIsExclusive
    OneOccurrencePerVersion
    LetGoIsArchived
    RetriesBounded
PROPERTIES
    EveryFileSettles

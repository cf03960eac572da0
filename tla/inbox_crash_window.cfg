SPECIFICATION Spec
CONSTANTS
    w1 = w1
    w2 = w2
    f1 = f1
    None = None
    Dead = Dead
    Watchers = {w1}
    Crews = {{w1}}
    Files = {f1}
    Policies = {"LEAVE"}
    LateWrites = {}
    MaxRetries = 2
    MaxVersions = 1
    MaxFailures = 0
    MaxCrashes = 1
INVARIANTS
    NoSecondOccurrence

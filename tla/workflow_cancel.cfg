SPECIFICATION Spec
CONSTANTS
    w1 = w1
    w2 = w2
    i1 = i1
    i2 = i2
    Workers = {w1, w2}
    May <- WithCanceller
    Images = {i1, i2}
    Repeats = 1
    RequireMatch = FALSE
    MalwareProfile = TRUE
    MaxCrashes = 0
PROPERTIES
    CancelStopsSteps

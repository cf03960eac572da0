SPECIFICATION Spec
CONSTANTS
    Operators = {"p1"}
    Definitions <- MCDefinitions
    Packages = {"pack"}
    PayloadOf <- MCPayloadOf
    Sets = {"s"}
    Contents = {"x", "y"}
    Objects = {"o1", "o2"}
    FileOf <- MCFileOf
    MaxGenerations = 2
    MaxCrashes = 1
    MaxLosses = 1
    MaxTouches = 1
CHECK_DEADLOCK FALSE
INVARIANTS
    DefinitionsHold
    DeliveredIsExact
PROPERTIES
    SetGenerationsImmutable

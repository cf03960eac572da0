SPECIFICATION Spec
CONSTANTS
    Operators = {"p1"}
    Definitions = {}
    Packages = {}
    PayloadOf <- MCPayloadOf
    Sets = {"a:b", "a_b"}
    Contents = {"x", "y"}
    Objects = {"o1"}
    FileOf <- MCFileOf
    MaxGenerations = 2
    MaxCrashes = 0
    MaxLosses = 0
    MaxTouches = 0
PROPERTIES
    SetGenerationsImmutable

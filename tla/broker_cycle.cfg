SPECIFICATION Spec
CONSTANTS
    Operators = {"p1"}
    Definitions <- MCDefinitions
    Packages = {}
    PayloadOf <- MCPayloadOf
    Sets = {}
    Contents = {}
    Objects = {}
    FileOf <- MCFileOf
    MaxGenerations = 1
    MaxCrashes = 0
    MaxLosses = 1
    MaxTouches = 0
INVARIANTS
    DependenciesAcyclic

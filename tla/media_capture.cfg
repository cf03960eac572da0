SPECIFICATION MediaSpec
CONSTANTS
    m1 = m1
    e1 = e1
    e2 = e2
    o1 = o1
    o2 = o2
    Media = {m1}
    Editors = {e1, e2}
    MaxEntries = 3
    MaxCuts = 1
    Adapters = {"block", "optical", "flux"}
    Images = {"i1", "i2"}
    MaxJobs = 2
    MaxSessions = 1
    MaxKills = 1
    Objects = {o1, o2}
    Claims <- Asked
    Definitions <- Works
    Products = {"identity", "fixity", "containment"}
    Operators = {e1, e2}
    Crews = {{e1}, {e1, e2}}
    MaxCommands = 3
    MaxEvidence = 1
    MaxStops = 1
CHECK_DEADLOCK FALSE
INVARIANTS
    ListedHistoryIsChained
    CaptureRecordsAgree
    RelationshipsHold
    ListedProductsAgree

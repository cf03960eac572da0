SPECIFICATION MediaSpec
CONSTANTS
    m1 = m1
    e1 = e1
    e2 = e2
    o1 = o1
    o2 = o2
    Media = {m1}
    Editors = {e1, e2}
    MaxEntries = 1
    MaxCuts = 1
    Adapters = {"block", "optical", "flux"}
    Images = {"i1", "i2"}
    MaxJobs = 1
    MaxSessions = 1
    MaxKills = 0
    Objects = {o1, o2}
    Claims <- Asked
    Definitions <- Works
    Products = {"identity"}
    Operators = {e1}
    Crews = {{e1}}
    MaxCommands = 1
    MaxEvidence = 1
    MaxStops = 0
CHECK_DEADLOCK FALSE
PROPERTIES
    PromptInterruptIsMarked

SPECIFICATION FairSpec
CONSTANTS
    p1 = p1
    p2 = p2
    r1 = r1
    r2 = r2
    j1 = j1
    NoFile = NoFile
    NoJob = NoJob
    NoRequest = NoRequest
    Processes = {p1, p2}
    Crews = {{p1}, {p1, p2}}
    Requests = {r1, r2}
    JobIds = {j1}
    Scanners = 2
    MaxFaults = 1
    MaxResets = 1
INVARIANTS
    ImportedHasEvidence
    JobsAreNotShared
    IndexLagsOnlyWhenCut
PROPERTIES
    RequestEnds

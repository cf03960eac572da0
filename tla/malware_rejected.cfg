SPECIFICATION Spec
CONSTANTS
    p1 = p1
    p2 = p2
    r1 = r1
    r2 = r2
    j1 = j1
    NoFile = NoFile
    NoJob = NoJob
    NoRequest = NoRequest
    Processes = {p1, p2}
    Crews = {{p1, p2}}
    Requests = {r1}
    JobIds = {j1}
    Scanners = 1
    MaxFaults = 0
    MaxResets = 0
INVARIANTS
    RejectedAttachesNothing

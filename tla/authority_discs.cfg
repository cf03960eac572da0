SPECIFICATION EvidenceSpec
CONSTANTS
    o1 = o1
    o2 = o2
    t1 = t1
    t2 = t2
    bad = bad
    list = list
    discs = discs
    sheet = sheet
    Roms = {o1, o2}
    Dats = {t1, t2, bad, list, discs, sheet}
    IdOrder <- DatOrder
    KindOf <- Kinds
    Contents <- Files
    Zipped = {t1, bad}
    Members <- Selection
    Plain = {sheet}
    Torn = {}
    Weak <- WeakHash
    Asked = {o2}
    MaxImports = 2
    Targets = {o1}
    Engines = {"clamav", "yara", "tos"}
    Ready = {"clamav", "yara"}
    AdapterOf <- Adapters
    Endings <- ProgramEndings
    MaxScans = 3
INVARIANTS
    DiscsAreDisposable

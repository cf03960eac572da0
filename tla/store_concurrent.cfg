SPECIFICATION Spec
CONSTANTS
    Rebuilders = {r1}
    Contents = {c1, c2}
    None = None
    Calls = {t1, t2, t3}
    Overlap = TRUE
SYMMETRY Symmetry
INVARIANTS
    TypeOK
    MasterMatchesKey
    RowBackedByFiles
PROPERTIES
    CommittedManifestStable
    ReturnedIngestSurvivesRebuild

SPECIFICATION FairSpec
CONSTANTS
    Items = {1, 2}
    Changing = {1}
    Size <- Sizes
    Retries = 1
    Checks = {"size", "sha256"}
    MaxStops = 2
    MaxByHand = 1
INVARIANTS
    TransferExact
    ItemsAccountedFor
PROPERTIES
    JobEnds

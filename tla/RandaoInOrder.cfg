CONSTANTS
    Node = {n1, n2}
    Label = {la, lb}
    FirstBeacon = 1
    Lookback = 1
    ParentFirst = TRUE
    MaxHeight = 4
    MaxBlocks = 4
SPECIFICATION FairSpec
INVARIANTS
    TypeOK
    MemoMatchesChain
    NoHonestBlockRefused
    OnlyProvenBlocksAccepted
    SeedAgreement
PROPERTY ProvenBlocksArrive
CHECK_DEADLOCK FALSE

CONSTANTS
    Node = {n1, n2}
    Label = {la, lb}
    FirstBeacon = 1
    Lookback = 1
    ParentFirst = FALSE
    MaxHeight = 3
    MaxBlocks = 3
SYMMETRY Symmetry
SPECIFICATION Spec
INVARIANT NoHonestBlockRefused
CHECK_DEADLOCK FALSE

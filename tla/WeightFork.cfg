\* Two nodes on two branches judge each other's blocks.
SPECIFICATION Spec

CONSTANTS
    Node = {n1, n2}
    Registered = {}
    Networks <- Steady
    MaxHeight = 3
    MaxRestarts = 0

INVARIANT
    VerdictIsShared

CHECK_DEADLOCK FALSE

\* Three nodes, a fork in the block that confirms the first weight.
SPECIFICATION Spec

CONSTANTS
    Node = {n1, n2, n3}
    Registered = {}
    Networks <- Steady
    MaxHeight = 2
    MaxRestarts = 0

INVARIANT
    SomebodyEntitled

SYMMETRY Symmetric

CHECK_DEADLOCK FALSE

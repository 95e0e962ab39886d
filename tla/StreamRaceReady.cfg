CONSTANTS
    n1 = n1
    n2 = n2
    Node <- MCNode
    Admin <- TwoAdmins
    MaxFailures = 2
    Patience = 1
    MaxGlitches = 0
    MaxRestarts = 0
    MaxReorgs = 0
    MaxFaults = 0
SPECIFICATION FairSpec
CHECK_DEADLOCK FALSE
PROPERTY EveryoneReady

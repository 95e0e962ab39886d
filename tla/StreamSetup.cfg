CONSTANTS
    n1 = n1
    n2 = n2
    Node <- MCNode
    Admin <- OneAdmin
    MaxFailures = 2
    Patience = 1
    MaxGlitches = 1
    MaxRestarts = 1
    MaxReorgs = 1
    MaxFaults = 2
SPECIFICATION FairSpec
CHECK_DEADLOCK FALSE
INVARIANT TypeOK
 
INVARIANT NameIsUnique
 
PROPERTY SubmittedBecomesVisible

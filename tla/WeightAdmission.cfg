\* Two nodes through the bootstrap: forks of three blocks, data in any order,
\* one restart.
SPECIFICATION FairSpec

CONSTANTS
    Node = {n1, n2}
    Registered = {}
    Networks <- Bootstraps
    MaxHeight = 3
    MaxRestarts = 1

INVARIANTS
    TypeOK
    ActivationIsFinal

PROPERTY
    OwnBranchNeverRefused
    BootstrapAdvances
    ImplementsBlockTree

\* The chain ends at MaxHeight.
CHECK_DEADLOCK FALSE

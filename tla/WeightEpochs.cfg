\* Epochs 1 and 2 close, the second buried at height 4; one restart or
\* reorganisation and one new input.
SPECIFICATION FairSpec

CONSTANTS
    Treasury = "treasury"
    Kappa = 2
    LambdaNum = 1
    LambdaDen = 2
    UMax = 12
    EpochLength = 2
    Margin = 1
    Node = {"n1", "n2"}
    Skewed = {"n2"}
    InitialChains <- Histories
    InputItems <- NewInputs
    MaxHeight = 5
    MaxFaults = 1
    MaxInputs = 1

INVARIANTS
    TypeOK
    
    RegisteredWeightStands
    SaldoIsBalancePlusReturned

PROPERTIES
    BuriedBlocksAreFinal
    EveryNodeCatchesUp

\* The chain ends at MaxHeight.
CHECK_DEADLOCK FALSE

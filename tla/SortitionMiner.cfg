SPECIFICATION FirstSeenFairSpec
CONSTANTS
    n1 = n1
    n2 = n2
    Node <- MCNode
    Offset <- SameClock
    Score <- MCScore
    Delay <- MCDelay
    Policies <- Either
    Drift = 4
    Horizon = 2
    MaxHeight = 2
    MaxStops = 1
    MaxPauses = 1
    MaxFaults = 1
INVARIANT TypeOK
INVARIANT OneProposalPerHeight
INVARIANT NoBlockTooEarly
INVARIANT SameBlocksSameTip
PROPERTY FirstSeenAdvances
PROPERTY ImplementsBlockTree
CHECK_DEADLOCK FALSE

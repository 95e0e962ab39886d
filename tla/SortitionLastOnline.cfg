SPECIFICATION FairSpec
CONSTANTS
    n1 = n1
    n2 = n2
    Node <- MCNode
    Offset <- SameClock
    Score <- MCScore
    Delay <- MCDelay
    Policies <- TieBreak
    Drift = 4
    Horizon = 2
    MaxHeight = 2
    MaxStops = 1
    MaxPauses = 0
    MaxFaults = 1
PROPERTY ChainAdvances
CHECK_DEADLOCK FALSE

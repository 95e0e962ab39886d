\* Three heights, one side block, one offence and one report.
SPECIFICATION Spec

CONSTANTS
    Node = {"x", "v", "n"}
    Validator <- MCValidator
    Faulty = {"x"}
    Luck <- MCLuck
    InitialWeight <- MCInitial
    LaterWeight <- MCLater
    Reweighting = 3
    Points <- MCPoints
    MuNum = 1
    MuDen = 2
    MMax = 4
    EpochLength = 1
    MaxHeight = 3
    MaxSides = 1
    MaxOffences = 1
    MaxReports = 1

INVARIANTS
    TypeOK
    
    ExclusionEnds
    
    CorrectionComesLater

PROPERTY
    RefusedOnlyForMissingEvidence

\* The main branch ends at MaxHeight.
CHECK_DEADLOCK FALSE

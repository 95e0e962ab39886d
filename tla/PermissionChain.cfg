\* Eight blocks on four branches, of which four arrive, one grant submitted and
\* two crashes.  With setupfirstblocks = 1 only the genesis block is set-up; mine
\* needs the votes of all the admins, admin those of half.
SPECIFICATION Spec

CONSTANTS
    Address <- MCAddress
    Root = "a"
    Setup = 1
    Need <- MCNeed
    Diversity = 3
    Gran = 4
    Forever = 9
    Universe <- MCUniverse
    Grants <- MCGrants
    MaxArrivals = 4
    MaxTxs = 1
    MaxCrashes = 2

INVARIANTS
    TypeOK
    
    PrecheckAgrees
    CountsAreExact
    ConsensusHonoured
    RefusedOnlyForStaleRows

\* Arrivals, submissions and crashes run out.
CHECK_DEADLOCK FALSE

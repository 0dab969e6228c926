SPECIFICATION FairSpec
CONSTANTS
    None = None
    Call = {c1}
    Ttl = 1
    Grace = 1
    MaxTime = 2
    MaxLeases = 2
INVARIANTS
    
    
    
    HeartbeatsRun
PROPERTIES
    BanReachesApp
    StartEnds

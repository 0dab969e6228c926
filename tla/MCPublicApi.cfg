SPECIFICATION ApiSpec
CONSTANTS
    None = None
    Key = {k1, k2}
    Route = {k1, k2}
    RouteOf <- EachItsOwn
    MaxServed = 2
    Nonce = {n1}
    Stamp = {1, 3}
    Limit = 2
    RateWindow = 2
    Skew = 2
    Retention = 2
    MaxTime = 4
    MaxHits = 3
SYMMETRY Symmetry
INVARIANTS
    RateBounded
    NoFalseReplay
    MetricsCountServed
    
PROPERTIES
    ReplayedOnlyLate

SPECIFICATION FairSpec
CONSTANTS
    None = None
    Worker = {w1, w2}
    LicenseId = {l1, l2}
    MaxCards = 2
INVARIANTS
    OneLicensePerKey
    CardNamesLicense
    LateNeverRedeems
    RemovedForGood
PROPERTIES
    ImplementsKeyLife
    RedemptionEnds

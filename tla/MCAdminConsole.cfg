SPECIFICATION FairSpec
CONSTANTS
    Task = {t1, t2}
    Item = {i1, i2}
    Audited = {i1}
    MaxWrites = 2
INVARIANTS
    MaskHolds
    TrailComplete
PROPERTIES
    ShownKeepsUp
    SpinnerEnds

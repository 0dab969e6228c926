SPECIFICATION Spec
CONSTANTS
    None = None
    Worker = {w1, w2}
    Device = {d1}
    Request = {r1, r2}
    MaxUnbinds = 2
    Code = {c1}
    NoPackage = NoPackage
    MaxFiles = 2
    Lifetime = 1
    MaxClock = 1
    MaxStarts = 2
SYMMETRY Symmetry
INVARIANTS
    ApprovalsCounted
    SetBackStays
    ImportsCurrent

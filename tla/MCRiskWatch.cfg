SPECIFICATION Spec
CONSTANTS
    None = None
    Worker = {w1, w2}
    Device = {d1}
    Ip = {i1, i2, i3}
    Policies <- MCPolicies
    Versions <- MCVersions
    Day = 1
    Hour = 1
    ActivationThreshold = 1
    IpThreshold = 1
    HeartbeatThreshold = 2
    UnbindThreshold = 2
    MaxTime = 2
    MaxRows = 3
SYMMETRY Symmetry
INVARIANTS
    BindingsNoticed
    HeartbeatsNoticed
    UnbindsNoticed
    OldVersionStopped

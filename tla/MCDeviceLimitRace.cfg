SPECIFICATION Spec
CONSTANTS
    None = None
    Worker = {w1, w2}
    License = {l1}
    DeviceCode = {d1, d2}
    LeaseId = {k1, k2, k3}
    MaxDevices = 1
    MaxConcurrency = 1
    BindingPolicy = "deny_new"
    LeaseTtl = 1
    LicenseExpiry = 2
    MaxTime = 0
    MaxGrants = 0
SYMMETRY Symmetry
INVARIANTS
    DeviceLimitStrict

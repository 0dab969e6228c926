SPECIFICATION Spec
CONSTANTS
    None = None
    Worker = {w1}
    License = {l1}
    DeviceCode = {d1, d2}
    LeaseId = {k1, k2}
    MaxDevices = 1
    MaxConcurrency = 1
    BindingPolicy = "deny_new"
    LeaseTtl = 1
    LicenseExpiry = 2
    MaxTime = 2
    MaxGrants = 0
SYMMETRY Symmetry
INVARIANTS
    RemovedDeviceNotRenewed

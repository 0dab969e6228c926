SPECIFICATION Spec
CONSTANTS
    None = None
    Worker = {w1}
    License = {l1, l2}
    DeviceCode = {d1, d2, d3}
    LeaseId = {k1, k2}
    MaxDevices = 2
    MaxConcurrency = 1
    BindingPolicy = "kick_oldest"
    LeaseTtl = 1
    LicenseExpiry = 2
    MaxTime = 0
    MaxGrants = 1
SYMMETRY Symmetry
INVARIANTS
    LeaseOwner
    DeviceLimit
    ConcurrencyLimit
    LeasesPerDevice
    

    

SPECIFICATION FairSpec
CONSTANTS
    None = None
    Worker = {w1, w2}
    License = {l1}
    DeviceCode = {d1}
    LeaseId = {k1, k2}
    MaxDevices = 1
    MaxConcurrency = 1
    BindingPolicy = "deny_new"
    LeaseTtl = 1
    LicenseExpiry = 1
    MaxTime = 1
    MaxGrants = 1
INVARIANTS
    NoLateService
PROPERTIES
    DeadLeaseStaysDead
    EveryRequestAnswered

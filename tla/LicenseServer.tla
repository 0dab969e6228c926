--------------------------- MODULE LicenseServer ---------------------------
(***************************************************************************)
(* The request handlers of server/src/license, device and lease, run       *)
(* concurrently against one PostgreSQL database.  NestJS runs a handler    *)
(* until it awaits a Prisma call; Prisma runs each call of these handlers  *)
(* as a transaction of its own.  So an action of this module is one        *)
(* database call with the code up to the next one, and calls of different  *)
(* requests interleave freely.                                             *)
(*                                                                         *)
(* Left out: the audit and risk tables (no handler here reads them back    *)
(* into a decision), the redemption of a card key by an unknown licence    *)
(* key, and requests refused before the first database call.               *)
(***************************************************************************)
EXTENDS Integers, FiniteSets

CONSTANTS
    Worker,          \* requests the server works on at the same time
    License,         \* licence rows
    DeviceCode,      \* device codes clients send (unique in the device table)
    LeaseId,         \* lease rows that may be created; bounds the leases ever issued
    None,            \* null
    MaxDevices,      \* plan.maxDevices, or the licence's override
    MaxConcurrency,  \* plan.maxConcurrency, or the override; 0 means no limit
    BindingPolicy,   \* "deny_new" or "kick_oldest"
    LeaseTtl,        \* LEASE_TTL_MINUTES
    LicenseExpiry,   \* license.expireAt
    MaxTime,         \* bound on the clock
    MaxGrants        \* bound on reactivations by administrators, per licence

ASSUME WorkerAssumption == IsFiniteSet(Worker) /\ Worker # {}
ASSUME RowAssumption == IsFiniteSet(DeviceCode) /\ IsFiniteSet(LeaseId)
ASSUME NoneAssumption == None \notin License \union DeviceCode \union LeaseId
ASSUME LimitAssumption == MaxDevices \in Nat /\ MaxConcurrency \in Nat
ASSUME PolicyAssumption == BindingPolicy \in {"deny_new", "kick_oldest"}
ASSUME TimeAssumption == LeaseTtl \in Nat \ {0} /\ LicenseExpiry \in Nat /\ MaxTime \in Nat
ASSUME GrantAssumption == MaxGrants \in Nat

VARIABLES
    licenses,   \* status of the licence row, its product and its plan
    devices,    \* device row by code; status "none" while there is no row
    leases,     \* lease row by id; status "none" while there is no row
    now,        \* the server's clock
    req,        \* what each worker is doing
    granted     \* history: devices administrators set back to active, per licence

vars == <<licenses, devices, leases, now, req, granted>>
-----------------------------------------------------------------------------
(* Rows *)

\* Licence "banned" stands for every refusal ensureValidLicenseRecord makes of
\* a status: banned, inactive, suspended, expired, product or plan inactive.
\* Device "removed" stands for removed and banned, which no handler treats
\* differently.  Only the error code tells them apart.
LicenseStatus == {"active", "banned"}
DeviceStatus == {"active", "removed"}
LeaseStatus == {"active", "expired", "revoked"}

DeviceRow == [status : DeviceStatus \union {"none"}, license : License \union {None}, lastSeen : Nat]
LeaseRow == [status : LeaseStatus \union {"none"}, license : License \union {None},
             device : DeviceCode \union {None}, expireAt : Nat]

NoDevice == [status |-> "none", license |-> None, lastSeen |-> 0]
NoLease == [status |-> "none", license |-> None, device |-> None, expireAt |-> 0]

\* ensureValidLicenseRecord for the product the request names.
Valid(l) == licenses[l] = "active" /\ LicenseExpiry > now

\* The rows every step of a request leaves alone unless it says otherwise.
ReadOnly == UNCHANGED <<licenses, devices, leases, now, granted>>

\* Fault: a removed device is taken for a new one.
FaultKnown(d) == devices[d].status = "active"
Known(d) == devices[d].status # "none"

ActiveDevices(l) == {d \in DeviceCode : devices[d].status = "active" /\ devices[d].license = l}

LiveLeases(d) == {k \in LeaseId : leases[k].status = "active" /\ leases[k].device = d}

\* The devices enforceConcurrencyLimit finds holding a lease of l.
Holders(l) ==
    {d \in DeviceCode : /\ devices[d].status = "active"
                        /\ \E k \in LiveLeases(d) : leases[k].license = l /\ leases[k].expireAt > now}

\* orderBy lastSeenAt asc: any of the devices seen longest ago.
Oldest(S) == {d \in S : \A e \in S : devices[d].lastSeen <= devices[e].lastSeen}

\* Fault: off by one.
FaultDevicesFull(l) == Cardinality(ActiveDevices(l)) > MaxDevices
FaultLeasesFull(l) == Cardinality(Holders(l)) > MaxConcurrency
DevicesFull(l) == Cardinality(ActiveDevices(l)) >= MaxDevices
LeasesFull(l) == Cardinality(Holders(l)) >= MaxConcurrency

\* Fault: nothing is revoked.
FaultRevokedFor(d) == leases
\* updateMany where deviceId = d and status = active, set revoked.
RevokedFor(d) ==
    [k \in LeaseId |-> IF k \in LiveLeases(d) THEN [leases[k] EXCEPT !.status = "revoked"] ELSE leases[k]]

\* Fault: the device row is deleted.
FaultSetDeviceStatus(d, s) == devices' = [devices EXCEPT ![d] = NoDevice]
SetDeviceStatus(d, s) == devices' = [devices EXCEPT ![d].status = s]
SetLastSeen(d) == devices' = [devices EXCEPT ![d].lastSeen = now]
SetLeaseStatus(k, s) == leases' = [leases EXCEPT ![k].status = s]
-----------------------------------------------------------------------------
(* Requests.  pc names the next database call.  Two fields are history:     *)
(* late: the licence has been unusable ever since the request arrived;      *)
(* gone: the device has been removed or banned ever since it arrived.       *)

Idle == [op |-> "none", pc |-> "idle", license |-> None, device |-> None,
         lease |-> None, victim |-> None, late |-> FALSE, gone |-> FALSE]

Calls == {"idle", "act_license", "act_device", "act_touch", "act_count", "act_oldest", "act_kick",
          "act_kickLeases", "act_create", "act_stamp", "iss_revoke", "iss_enforce", "iss_kick",
          "iss_create", "lease", "lease_expire", "hb_license", "hb_touch", "hb_revoke", "ver_license",
          "ver_device", "ver_ok", "dea_license", "dea_device", "dea_remove", "dea_leases"}

Request == [op : {"none", "activate", "heartbeat", "verify", "deactivate"}, pc : Calls,
            license : License \union {None}, device : DeviceCode \union {None},
            lease : LeaseId \union {None}, victim : DeviceCode \union {None},
            late : BOOLEAN, gone : BOOLEAN]

FirstCall(op) == CASE op = "activate" -> "act_license"
                   [] op = "deactivate" -> "dea_license"
                   [] OTHER -> "lease"

Begin(w, op, l, d, k) ==
    /\ req[w] = Idle
    /\ req' = [req EXCEPT ![w] =
                 [op |-> op, pc |-> FirstCall(op), license |-> l, device |-> d, lease |-> k, victim |-> None,
                  late |-> ~Valid(l), gone |-> devices[d].status = "removed"]]
    /\ ReadOnly

At(w, pc) == req[w].pc = pc
\* Fault: a heartbeat trusts its lease and does not look at the licence.
FaultAccepted(w) == req[w].op = "heartbeat" \/ Valid(req[w].license)
Accepted(w) == Valid(req[w].license)
DeviceActive(w) == devices[req[w].device].status = "active"
\* Fault: a device of any licence will do.
FaultDeviceOfLicense(w) == TRUE
DeviceOfLicense(w) == devices[req[w].device].license = req[w].license
Goto(w, pc) == req' = [req EXCEPT ![w].pc = pc]
Pick(w, d, pc) == req' = [req EXCEPT ![w] = [@ EXCEPT !.pc = pc, !.victim = d]]
Answer(w) == req' = [req EXCEPT ![w] = Idle]
\* Fault: a refusal is never sent.
FaultGotoIf(ok, w, pc) == ok /\ Goto(w, pc)
GotoIf(ok, w, pc) == IF ok THEN Goto(w, pc) ELSE Answer(w)
Check(w, at, ok, pc) == At(w, at) /\ GotoIf(ok, w, pc) /\ ReadOnly

\* Bound on leases: a request that may issue one arrives while a row is left for it.
Issuing == {w \in Worker : req[w].op \in {"activate", "heartbeat"}}
LeaseLeft == Cardinality({k \in LeaseId : leases[k].status = "none"}) > Cardinality(Issuing)

\* A licence key stands for its licence, a signed token for its lease row: it
\* carries the row's license and device, which no update ever changes.
Tokens == {k \in LeaseId : leases[k].status # "none"}

BeginActivate(w) ==
    /\ LeaseLeft
    /\ \E l \in License, d \in DeviceCode : Begin(w, "activate", l, d, None)

BeginHeartbeat(w) ==
    /\ LeaseLeft
    /\ \E k \in Tokens, d \in DeviceCode : Begin(w, "heartbeat", leases[k].license, d, k)

BeginVerify(w) ==
    \E k \in Tokens, d \in DeviceCode : Begin(w, "verify", leases[k].license, d, k)

BeginDeactivate(w) ==
    \E l \in License, d \in DeviceCode : Begin(w, "deactivate", l, d, None)
-----------------------------------------------------------------------------
(* ActivationService.activate and DeviceService.getOrCreateDevice *)

ActLicense(w) == Check(w, "act_license", Accepted(w), "act_device")

ActDevice(w) ==
    /\ At(w, "act_device")
    /\ \/ ~Known(req[w].device) /\ Goto(w, "act_count")
       \/ Known(req[w].device) /\ GotoIf(DeviceActive(w) /\ DeviceOfLicense(w), w, "act_touch")
    /\ ReadOnly

ActTouch(w) ==
    /\ At(w, "act_touch")
    /\ SetLastSeen(req[w].device)
    /\ Goto(w, "iss_revoke")
    /\ UNCHANGED <<licenses, leases, now, granted>>

ActCount(w) ==
    /\ At(w, "act_count")
    /\ \/ ~DevicesFull(req[w].license) /\ Goto(w, "act_create")
       \/ DevicesFull(req[w].license) /\ GotoIf(BindingPolicy = "kick_oldest", w, "act_oldest")
    /\ ReadOnly

ActOldest(w) ==
    LET bound == ActiveDevices(req[w].license) IN
    /\ At(w, "act_oldest")
    /\ \/ bound = {} /\ Answer(w)
       \/ \E d \in Oldest(bound) : Pick(w, d, "act_kick")
    /\ ReadOnly

ActKick(w) ==
    /\ At(w, "act_kick")
    /\ SetDeviceStatus(req[w].victim, "removed")
    /\ Goto(w, "act_kickLeases")
    /\ UNCHANGED <<licenses, leases, now, granted>>

ActKickLeases(w) ==
    /\ At(w, "act_kickLeases")
    /\ leases' = RevokedFor(req[w].victim)
    /\ Goto(w, "act_create")
    /\ UNCHANGED <<licenses, devices, now, granted>>

\* deviceCode is unique: the second of two creations fails the whole request.
ActCreate(w) ==
    LET d == req[w].device IN
    /\ At(w, "act_create")
    /\ \/ /\ ~Known(d)
          /\ devices' = [devices EXCEPT ![d] = [status |-> "active", license |-> req[w].license, lastSeen |-> now]]
          /\ Goto(w, "iss_revoke")
       \/ Known(d) /\ Answer(w) /\ UNCHANGED devices
    /\ UNCHANGED <<licenses, leases, now, granted>>

\* activateAt and the audit row are written and the version policy is read:
\* columns and tables no handler here decides by.
ActStamp(w) == At(w, "act_stamp") /\ Answer(w) /\ ReadOnly
-----------------------------------------------------------------------------
(* LeaseService.issue and enforceConcurrencyLimit *)

IssRevoke(w) ==
    /\ At(w, "iss_revoke")
    /\ leases' = RevokedFor(req[w].device)
    /\ Goto(w, IF MaxConcurrency > 0 THEN "iss_enforce" ELSE "iss_create")
    /\ UNCHANGED <<licenses, devices, now, granted>>

IssEnforce(w) ==
    LET l == req[w].license IN
    /\ At(w, "iss_enforce")
    /\ \/ ~LeasesFull(l) /\ Goto(w, "iss_create")
       \/ LeasesFull(l) /\ BindingPolicy = "deny_new" /\ Answer(w)
       \/ /\ LeasesFull(l) /\ BindingPolicy = "kick_oldest"
          /\ \E d \in Oldest(Holders(l)) : Pick(w, d, "iss_kick")
    /\ ReadOnly

IssKick(w) ==
    /\ At(w, "iss_kick")
    /\ leases' = RevokedFor(req[w].victim)
    /\ Goto(w, "iss_create")
    /\ UNCHANGED <<licenses, devices, now, granted>>

\* For a heartbeat the audit and risk rows follow, and the answer.
IssCreate(w) ==
    /\ At(w, "iss_create")
    /\ \E k \in LeaseId :
          /\ leases[k].status = "none"
          /\ leases' = [leases EXCEPT ![k] = [status |-> "active", license |-> req[w].license,
                                              device |-> req[w].device, expireAt |-> now + LeaseTtl]]
    /\ GotoIf(req[w].op = "activate", w, "act_stamp")
    /\ UNCHANGED <<licenses, devices, now, granted>>
-----------------------------------------------------------------------------
(* LeaseService.validate, then VerifyHeartbeatService.heartbeat or verify *)

ReadLease(w) ==
    LET row == leases[req[w].lease]
        ours == row.status = "active" /\ row.device = req[w].device
    IN
    /\ At(w, "lease")
    /\ \/ ~ours /\ Answer(w)
       \/ ours /\ row.expireAt <= now /\ Goto(w, "lease_expire")
       \/ ours /\ row.expireAt > now /\ Goto(w, IF req[w].op = "heartbeat" THEN "hb_license" ELSE "ver_license")
    /\ ReadOnly

ExpireLease(w) ==
    /\ At(w, "lease_expire")
    /\ SetLeaseStatus(req[w].lease, "expired")
    /\ Answer(w)
    /\ UNCHANGED <<licenses, devices, now, granted>>

\* ensureAllowed, after the licence, refuses the versions the product's newest
\* policy excludes: either outcome is possible.
HbLicense(w) ==
    /\ At(w, "hb_license")
    /\ \/ Accepted(w) /\ Goto(w, "hb_touch")
       \/ Answer(w)
    /\ ReadOnly

HbTouch(w) ==
    /\ At(w, "hb_touch")
    /\ SetLastSeen(req[w].device)
    /\ Goto(w, "hb_revoke")
    /\ UNCHANGED <<licenses, leases, now, granted>>

\* Fault: the lease that was read is prolonged instead of replaced.
FaultHbRevoke(w) ==
    /\ At(w, "hb_revoke")
    /\ leases' = [leases EXCEPT ![req[w].lease].status = "active", ![req[w].lease].expireAt = now + LeaseTtl]
    /\ Answer(w)
    /\ UNCHANGED <<licenses, devices, now, granted>>

HbRevoke(w) ==
    /\ At(w, "hb_revoke")
    /\ SetLeaseStatus(req[w].lease, "revoked")
    /\ Goto(w, "iss_revoke")
    /\ UNCHANGED <<licenses, devices, now, granted>>

VerLicense(w) == Check(w, "ver_license", Accepted(w), "ver_device")

\* findActiveByCode, then ensureAllowed as in HbLicense.
VerDevice(w) ==
    /\ At(w, "ver_device")
    /\ \/ DeviceActive(w) /\ Goto(w, "ver_ok")
       \/ Answer(w)
    /\ ReadOnly

\* Everything was accepted: the audit row is written, the client answered OK.
VerOk(w) == At(w, "ver_ok") /\ Answer(w) /\ ReadOnly
-----------------------------------------------------------------------------
(* VerifyHeartbeatService.deactivate *)

DeaLicense(w) == Check(w, "dea_license", Accepted(w), "dea_device")
DeaDevice(w) == Check(w, "dea_device", DeviceActive(w) /\ DeviceOfLicense(w), "dea_remove")

DeaRemove(w) ==
    /\ At(w, "dea_remove")
    /\ SetDeviceStatus(req[w].device, "removed")
    /\ Goto(w, "dea_leases")
    /\ UNCHANGED <<licenses, leases, now, granted>>

DeaLeases(w) ==
    /\ At(w, "dea_leases")
    /\ leases' = RevokedFor(req[w].device)
    /\ Answer(w)
    /\ UNCHANGED <<licenses, devices, now, granted>>
-----------------------------------------------------------------------------
(* Administrators, the clock, failures *)

\* PUT licenses/:id/status, or a change of the product or plan status.
AdminSetLicense(l, s) ==
    /\ licenses[l] # s
    /\ licenses' = [licenses EXCEPT ![l] = s]
    /\ req' = [w \in Worker |->
                 [req[w] EXCEPT !.late = @ /\ ~(req[w].license = l /\ s = "active" /\ LicenseExpiry > now)]]
    /\ UNCHANGED <<devices, leases, now, granted>>

\* PUT devices/:id/status takes any status; approving an unbind request sets
\* "removed".  Neither touches leases or looks at the limits.
AdminSetDevice(d, s) ==
    /\ devices[d].status \notin {"none", s}
    /\ SetDeviceStatus(d, s)
    /\ IF s = "active"
         THEN /\ granted[devices[d].license] < MaxGrants
              /\ granted' = [granted EXCEPT ![devices[d].license] = @ + 1]
              /\ req' = [w \in Worker |-> [req[w] EXCEPT !.gone = @ /\ req[w].device # d]]
         ELSE UNCHANGED <<granted, req>>
    /\ UNCHANGED <<licenses, leases, now>>

Tick ==
    /\ now < MaxTime
    /\ now' = now + 1
    /\ UNCHANGED <<licenses, devices, leases, req, granted>>

\* A database call fails, or the process stops: what was done stays done.
Fail(w) ==
    /\ req[w] # Idle
    /\ Answer(w)
    /\ ReadOnly
-----------------------------------------------------------------------------
Init ==
    /\ licenses = [l \in License |-> "active"]
    /\ devices = [d \in DeviceCode |-> NoDevice]
    /\ leases = [k \in LeaseId |-> NoLease]
    /\ now = 0
    /\ req = [w \in Worker |-> Idle]
    /\ granted = [l \in License |-> 0]

Arrive(w) == BeginActivate(w) \/ BeginHeartbeat(w) \/ BeginVerify(w) \/ BeginDeactivate(w)

Step(w) ==
    \/ ActLicense(w) \/ ActDevice(w) \/ ActTouch(w) \/ ActCount(w) \/ ActOldest(w)
    \/ ActKick(w) \/ ActKickLeases(w) \/ ActCreate(w) \/ ActStamp(w)
    \/ IssRevoke(w) \/ IssEnforce(w) \/ IssKick(w) \/ IssCreate(w)
    \/ ReadLease(w) \/ ExpireLease(w)
    \/ HbLicense(w) \/ HbTouch(w) \/ HbRevoke(w)
    \/ VerLicense(w) \/ VerDevice(w) \/ VerOk(w)
    \/ DeaLicense(w) \/ DeaDevice(w) \/ DeaRemove(w) \/ DeaLeases(w)

Next ==
    \/ \E w \in Worker : Arrive(w) \/ Step(w) \/ Fail(w)
    \/ \E l \in License, s \in LicenseStatus : AdminSetLicense(l, s)
    \/ \E d \in DeviceCode, s \in DeviceStatus : AdminSetDevice(d, s)
    \/ Tick

Spec == Init /\ [][Next]_vars

\* The event loop returns to every handler whose database call has completed.
FairSpec == Spec /\ \A w \in Worker : WF_vars(Step(w))
-----------------------------------------------------------------------------
(* Correctness *)

\* Every row and every request in flight is one the code can produce.
TypeOK ==
    /\ licenses \in [License -> LicenseStatus]
    /\ devices \in [DeviceCode -> DeviceRow]
    /\ leases \in [LeaseId -> LeaseRow]
    /\ now \in 0 .. MaxTime
    /\ req \in [Worker -> Request]
    /\ granted \in [License -> 0 .. MaxGrants]

\* A lease belongs to the licence its device is bound to, although a request
\* names licence, device and token independently (activation.service.ts,
\* device.service.ts:28, lease.service.ts:68).
LeaseOwner ==
    \A k \in LeaseId : leases[k].status # "none" =>
        /\ devices[leases[k].device].status # "none"
        /\ devices[leases[k].device].license = leases[k].license

\* The count in getOrCreateDevice and the creation are two database calls, so
\* the device limit of deny_new can be overrun, but never by more than the
\* other requests in flight and what administrators gave back.  A server that
\* works on one request at a time keeps the limit, under either policy.
DeviceLimit ==
    (BindingPolicy = "deny_new" \/ Cardinality(Worker) = 1) =>
        \A l \in License :
            Cardinality(ActiveDevices(l)) <= MaxDevices + granted[l] + Cardinality(Worker) - 1

\* The same for the devices holding an unexpired lease and enforceConcurrencyLimit.
ConcurrencyLimit ==
    MaxConcurrency > 0 /\ (BindingPolicy = "deny_new" \/ Cardinality(Worker) = 1) =>
        \A l \in License :
            Cardinality(Holders(l)) <= MaxConcurrency + granted[l] + Cardinality(Worker) - 1

\* issue revokes the device's leases in one call and creates one in another:
\* a device never holds more active leases than there are requests in flight,
\* and one only if requests do not overlap.
LeasesPerDevice == \A d \in DeviceCode : Cardinality(LiveLeases(d)) <= Cardinality(Worker)

\* No request that arrived after its licence was banned, disabled or expired
\* gets past the licence check, whatever is in flight at the time of the ban
\* (02 development plan, 7.1: after a ban the next verification fails).
LateNeverServed ==
    \A w \in Worker : req[w].late =>
        req[w].pc \in {"act_license", "lease", "lease_expire", "hb_license", "ver_license", "dea_license"}

\* No activation, verification or deactivation that arrived after its device
\* was removed or banned gets past the device check (same document: after a
\* removal the next verification fails).  Heartbeats are the exception.
GoneNeverServed ==
    \A w \in Worker : req[w].gone /\ req[w].op # "heartbeat" =>
        req[w].pc \in {"act_license", "act_device", "lease", "lease_expire", "ver_license", "ver_device",
                       "dea_license", "dea_device"}

\* Both: what became unusable before a request arrived is not served to it.
NoLateService == LateNeverServed /\ GoneNeverServed

\* With one request at a time, a device is kicked only for a device that then
\* gets the seat (getOrCreateDevice kicks before it creates).
KickGivesSeat ==
    Cardinality(Worker) = 1 =>
        \A w \in Worker : req[w].pc \in {"act_kick", "act_kickLeases", "act_create"} =>
            devices[req[w].device].status = "none"

\* A lease that was revoked or has expired is never active again, whichever
\* handlers still hold what they read of it.
DeadLeaseStaysDead ==
    [][\A k \in LeaseId : leases[k].status \in {"expired", "revoked"} =>
           leases'[k].status \in {"expired", "revoked"}]_vars

\* The device table keeps the promises of SeatPool, with room for the requests
\* that may pass the count together.
Pool == INSTANCE SeatPool WITH
    Capacity <- MaxDevices + Cardinality(Worker) - 1,
    owner <- [d \in DeviceCode |-> devices[d].license],
    seated <- {d \in DeviceCode : devices[d].status = "active"}
ImplementsSeatPool == Pool!PoolSpec

\* Every request is answered.
EveryRequestAnswered == \A w \in Worker : req[w] # Idle ~> req[w] = Idle

\* What tests and documents of the repository expect and the code does not do.

\* "rejects activation when the active device limit is reached".
DeviceLimitStrict ==
    \A l \in License : Cardinality(ActiveDevices(l)) <= MaxDevices + granted[l]

\* After the removal of a device its client is refused.
RemovedDeviceNotRenewed == \A w \in Worker : req[w].gone => req[w].pc # "iss_create"
=============================================================================

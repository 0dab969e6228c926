----------------------- MODULE LicenseServerProofs -----------------------
(***************************************************************************)
(* What holds of LicenseServer for every value of its constants.           *)
(***************************************************************************)
EXTENDS LicenseServer, FiniteSetTheorems, TLAPS

\* A request that moves to another call, or is answered, stays a request.
LEMMA GotoType ==
    ASSUME req \in [Worker -> Request], NEW w \in Worker, NEW pc \in Calls, Goto(w, pc)
    PROVE  req' \in [Worker -> Request]
  BY DEF Goto, Request

LEMMA IdleType == Idle \in Request
  BY DEF Idle, Request, Calls

LEMMA AnswerType ==
    ASSUME req \in [Worker -> Request], NEW w \in Worker, Answer(w)
    PROVE  req' \in [Worker -> Request]
  BY IdleType DEF Answer

LEMMA GotoIfType ==
    ASSUME req \in [Worker -> Request], NEW w \in Worker, NEW pc \in Calls, NEW ok, GotoIf(ok, w, pc)
    PROVE  req' \in [Worker -> Request]
  BY GotoType, AnswerType DEF GotoIf

LEMMA CheckType ==
    ASSUME TypeOK, NEW w \in Worker, NEW at, NEW ok, NEW pc \in Calls, Check(w, at, ok, pc)
    PROVE  TypeOK'
  BY GotoIfType DEF Check, TypeOK, ReadOnly

LEMMA BeginType ==
    ASSUME TypeOK, NEW w \in Worker, NEW op \in {"activate", "heartbeat", "verify", "deactivate"},
           NEW l \in License \union {None}, NEW d \in DeviceCode, NEW k \in LeaseId \union {None},
           Begin(w, op, l, d, k)
    PROVE  TypeOK'
<1>1. FirstCall(op) \in Calls
  BY DEF FirstCall, Calls
<1>2. Valid(l) \in BOOLEAN /\ (devices[d].status = "removed") \in BOOLEAN
  BY DEF Valid
<1>3. req' \in [Worker -> Request]
  BY <1>1, <1>2 DEF Begin, Request, TypeOK
<1> QED BY <1>3 DEF Begin, ReadOnly, TypeOK

\* The writes of the handlers keep the types of the rows.
LEMMA RevokedForType ==
    ASSUME TypeOK, NEW d, leases' = RevokedFor(d)
    PROVE  leases' \in [LeaseId -> LeaseRow]
  BY DEF TypeOK, RevokedFor, LeaseRow, LeaseStatus

LEMMA SetDeviceStatusType ==
    ASSUME TypeOK, NEW d, NEW s \in DeviceStatus, SetDeviceStatus(d, s)
    PROVE  devices' \in [DeviceCode -> DeviceRow]
  BY DEF TypeOK, SetDeviceStatus, DeviceRow

LEMMA SetLastSeenType ==
    ASSUME TypeOK, NEW d, SetLastSeen(d)
    PROVE  devices' \in [DeviceCode -> DeviceRow]
<1>1. now \in Nat
  BY TimeAssumption DEF TypeOK
<1> QED BY <1>1 DEF TypeOK, SetLastSeen, DeviceRow

LEMMA SetLeaseStatusType ==
    ASSUME TypeOK, NEW k, NEW s \in LeaseStatus, SetLeaseStatus(k, s)
    PROVE  leases' \in [LeaseId -> LeaseRow]
  BY DEF TypeOK, SetLeaseStatus, LeaseRow

\* A request that is told which device to kick stays a request.
LEMMA PickVictimType ==
    ASSUME TypeOK, NEW w \in Worker, NEW pc \in Calls, NEW d \in DeviceCode, Pick(w, d, pc)
    PROVE  req' \in [Worker -> Request]
<1>1. [req[w] EXCEPT !.pc = pc, !.victim = d] \in Request
  BY DEF TypeOK, Request
<1> QED BY <1>1 DEF TypeOK, Pick

\* Every step of a request keeps the types.
LEMMA StepType ==
    ASSUME TypeOK, NEW w \in Worker, Step(w)
    PROVE  TypeOK'
<1> USE TimeAssumption, LimitAssumption
<1>1. CASE ActLicense(w)
  BY <1>1, CheckType DEF ActLicense, Calls
<1>2. CASE ActDevice(w)
  BY <1>2, GotoType, GotoIfType, AnswerType DEF ActDevice, Calls, TypeOK, ReadOnly
<1>3. CASE ActTouch(w)
  BY <1>3, GotoType, SetLastSeenType DEF ActTouch, Calls, TypeOK
<1>4. CASE ActCount(w)
  BY <1>4, GotoType, GotoIfType, AnswerType DEF ActCount, Calls, TypeOK, ReadOnly
<1>5. CASE ActOldest(w)
  BY <1>5, GotoType, AnswerType, PickVictimType DEF ActOldest, Calls, TypeOK, ReadOnly, Oldest, ActiveDevices, Holders
<1>6. CASE ActKick(w)
  BY <1>6, GotoType, SetDeviceStatusType DEF ActKick, DeviceStatus, Calls, TypeOK
<1>7. CASE ActKickLeases(w)
  BY <1>7, GotoType, AnswerType, RevokedForType DEF ActKickLeases, Calls, TypeOK
<1>8. CASE ActCreate(w)
  BY <1>8, GotoType, AnswerType DEF ActCreate, DeviceRow, DeviceStatus, Calls, TypeOK, Request
<1>9. CASE ActStamp(w)
  BY <1>9, GotoType, GotoIfType, AnswerType DEF ActStamp, Calls, TypeOK, ReadOnly
<1>10. CASE IssRevoke(w)
  BY <1>10, GotoType, AnswerType, RevokedForType DEF IssRevoke, Calls, TypeOK
<1>11. CASE IssEnforce(w)
  BY <1>11, GotoType, AnswerType, PickVictimType DEF IssEnforce, Calls, TypeOK, ReadOnly, Oldest, ActiveDevices, Holders
<1>12. CASE IssKick(w)
  BY <1>12, GotoType, AnswerType, RevokedForType DEF IssKick, Calls, TypeOK
<1>13. CASE IssCreate(w)
  BY <1>13, GotoIfType DEF IssCreate, LeaseRow, LeaseStatus, Calls, TypeOK, Request
<1>14. CASE ReadLease(w)
  BY <1>14, GotoType, GotoIfType, AnswerType DEF ReadLease, Calls, TypeOK, ReadOnly
<1>15. CASE ExpireLease(w)
  BY <1>15, GotoType, AnswerType, SetLeaseStatusType DEF ExpireLease, LeaseStatus, Calls, TypeOK
<1>16. CASE HbLicense(w)
  BY <1>16, GotoType, GotoIfType, AnswerType DEF HbLicense, Calls, TypeOK, ReadOnly
<1>17. CASE HbTouch(w)
  BY <1>17, GotoType, SetLastSeenType DEF HbTouch, Calls, TypeOK
<1>18. CASE HbRevoke(w)
  BY <1>18, GotoType, AnswerType, SetLeaseStatusType DEF HbRevoke, LeaseStatus, Calls, TypeOK
<1>19. CASE VerLicense(w)
  BY <1>19, CheckType DEF VerLicense, Calls
<1>20. CASE VerDevice(w)
  BY <1>20, GotoType, GotoIfType, AnswerType DEF VerDevice, Calls, TypeOK, ReadOnly
<1>21. CASE VerOk(w)
  BY <1>21, GotoType, GotoIfType, AnswerType DEF VerOk, Calls, TypeOK, ReadOnly
<1>22. CASE DeaLicense(w)
  BY <1>22, CheckType DEF DeaLicense, Calls
<1>23. CASE DeaDevice(w)
  BY <1>23, CheckType DEF DeaDevice, Calls
<1>24. CASE DeaRemove(w)
  BY <1>24, GotoType, SetDeviceStatusType DEF DeaRemove, DeviceStatus, Calls, TypeOK
<1>25. CASE DeaLeases(w)
  BY <1>25, GotoType, AnswerType, RevokedForType DEF DeaLeases, Calls, TypeOK
<1> QED BY <1>1, <1>2, <1>3, <1>4, <1>5, <1>6, <1>7, <1>8, <1>9, <1>10, <1>11, <1>12, <1>13, <1>14, <1>15, <1>16, <1>17, <1>18, <1>19, <1>20, <1>21, <1>22, <1>23, <1>24, <1>25 DEF Step

LEMMA ArriveType ==
    ASSUME TypeOK, NEW w \in Worker, Arrive(w)
    PROVE  TypeOK'
<1>1. CASE BeginActivate(w)
  BY <1>1, BeginType DEF BeginActivate
<1>2. CASE BeginHeartbeat(w)
  BY <1>2, BeginType DEF BeginHeartbeat, Tokens, TypeOK, LeaseRow
<1>3. CASE BeginVerify(w)
  BY <1>3, BeginType DEF BeginVerify, Tokens, TypeOK, LeaseRow
<1>4. CASE BeginDeactivate(w)
  BY <1>4, BeginType DEF BeginDeactivate
<1> QED BY <1>1, <1>2, <1>3, <1>4 DEF Arrive

\* Every row and every request is one the code can produce: TypeOK is inductive.
THEOREM TypeCorrect == Spec => []TypeOK
<1>1. Init => TypeOK
  BY IdleType, GrantAssumption, TimeAssumption DEF Init, TypeOK, DeviceRow, LeaseRow, NoDevice, NoLease, LicenseStatus, DeviceStatus, LeaseStatus
<1>2. TypeOK /\ [Next]_vars => TypeOK'
  <2> SUFFICES ASSUME TypeOK, [Next]_vars PROVE TypeOK'
    OBVIOUS
  <2>1. ASSUME NEW w \in Worker, Arrive(w) PROVE TypeOK'
    BY <2>1, ArriveType
  <2>2. ASSUME NEW w \in Worker, Step(w) PROVE TypeOK'
    BY <2>2, StepType
  <2>3. ASSUME NEW w \in Worker, Fail(w) PROVE TypeOK'
    BY <2>3, AnswerType DEF Fail, ReadOnly, TypeOK
  <2>4. ASSUME NEW l \in License, NEW s \in LicenseStatus, AdminSetLicense(l, s) PROVE TypeOK'
    BY <2>4 DEF AdminSetLicense, TypeOK, Request
  <2>5. ASSUME NEW d \in DeviceCode, NEW s \in DeviceStatus, AdminSetDevice(d, s) PROVE TypeOK'
    <3>1. devices' \in [DeviceCode -> DeviceRow]
      BY <2>5, SetDeviceStatusType DEF AdminSetDevice
    <3>2. req' \in [Worker -> Request]
      <4>1. CASE s = "active"
        <5>1. \A w \in Worker : (req[w].gone /\ req[w].device # d) \in BOOLEAN
          OBVIOUS
        <5>2. \A w \in Worker : [req[w] EXCEPT !.gone = @ /\ req[w].device # d] \in Request
          BY <5>1 DEF TypeOK, Request
        <5> QED BY <2>5, <4>1, <5>2 DEF AdminSetDevice
      <4>2. CASE s # "active"
        BY <2>5, <4>2 DEF AdminSetDevice, TypeOK
      <4> QED BY <4>1, <4>2
    <3>3. granted' \in [License -> 0 .. MaxGrants]
      BY <2>5, GrantAssumption DEF AdminSetDevice, TypeOK
    <3> QED BY <2>5, <3>1, <3>2, <3>3 DEF AdminSetDevice, TypeOK
  <2>6. CASE Tick
    BY <2>6, TimeAssumption DEF Tick, TypeOK
  <2>7. CASE UNCHANGED vars
    BY <2>7 DEF vars, TypeOK
  <2> QED BY <2>1, <2>2, <2>3, <2>4, <2>5, <2>6, <2>7 DEF Next
<1> QED BY <1>1, <1>2, PTL DEF Spec

-----------------------------------------------------------------------------
(* Which steps let a request into a set C of calls.  Calm(C): none, and the *)
(* requests that stay in C keep their licence and device.                   *)

Calm(C) ==
    \A v \in Worker : req'[v].pc \in C =>
        /\ req[v].pc \in C
        /\ req'[v].license = req[v].license
        /\ req'[v].device = req[v].device

LEMMA GotoCalm ==
    ASSUME TypeOK, NEW C, NEW w \in Worker, NEW pc \in Calls, Goto(w, pc), pc \in C => req[w].pc \in C
    PROVE  Calm(C)
  BY DEF TypeOK, Request, Goto, Calm

LEMMA PickCalm ==
    ASSUME TypeOK, NEW C, NEW w \in Worker, NEW pc \in Calls, NEW d, Pick(w, d, pc), pc \in C => req[w].pc \in C
    PROVE  Calm(C)
  BY DEF TypeOK, Request, Pick, Calm

LEMMA AnswerCalm ==
    ASSUME TypeOK, NEW C, NEW w \in Worker, Answer(w), "idle" \notin C
    PROVE  Calm(C)
  BY DEF TypeOK, Request, Answer, Idle, Calm

LEMMA GotoIfCalm ==
    ASSUME TypeOK, NEW C, NEW w \in Worker, NEW pc \in Calls, NEW ok, GotoIf(ok, w, pc),
           "idle" \notin C, pc \in C => req[w].pc \in C
    PROVE  Calm(C)
  BY GotoCalm, AnswerCalm DEF GotoIf

\* Requests arrive outside C when C holds no first call.
LEMMA ArriveCalm ==
    ASSUME TypeOK, NEW C, {"act_license", "dea_license", "lease"} \cap C = {}, NEW w \in Worker, Arrive(w)
    PROVE  Calm(C)
<1>1. ASSUME NEW op \in {"activate", "heartbeat", "verify", "deactivate"}, NEW l, NEW d, NEW k, Begin(w, op, l, d, k)
      PROVE  Calm(C)
  <2>1. FirstCall(op) \notin C
    BY DEF FirstCall
  <2>2. req'[w].pc = FirstCall(op) /\ \A v \in Worker : v # w => req'[v] = req[v]
    BY <1>1 DEF Begin, TypeOK
  <2> QED BY <2>1, <2>2 DEF Calm
<1> QED BY <1>1 DEF Arrive, BeginActivate, BeginHeartbeat, BeginVerify, BeginDeactivate

\* Administrators move no request.
LEMMA AdminCalm ==
    ASSUME TypeOK, NEW C,
           \/ \E l \in License, s \in LicenseStatus : AdminSetLicense(l, s)
           \/ \E d \in DeviceCode, s \in DeviceStatus : AdminSetDevice(d, s)
    PROVE  Calm(C)
<1>1. \A v \in Worker : req'[v].pc = req[v].pc /\ req'[v].license = req[v].license /\ req'[v].device = req[v].device
  BY DEF AdminSetLicense, AdminSetDevice, TypeOK, Request
<1> QED BY <1>1 DEF Calm

\* Only IssRevoke lets a request among those that are about to create a lease.
LeasingCalls == {"iss_enforce", "iss_kick", "iss_create"}

LEMMA LeasingCalm ==
    ASSUME TypeOK, NEW w \in Worker, Step(w), ~IssRevoke(w)
    PROVE  Calm(LeasingCalls)
<1> DEFINE C == LeasingCalls
<1>1. "idle" \notin C
  BY DEF LeasingCalls
<1>2. CASE ActLicense(w) \/ ActDevice(w) \/ ActTouch(w) \/ ActCount(w) \/ ActOldest(w) \/ ActKick(w)
  BY <1>1, <1>2, GotoCalm, GotoIfCalm, AnswerCalm, PickCalm
     DEF ActLicense, ActDevice, ActTouch, ActCount, ActOldest, ActKick, Check, LeasingCalls, Calls
<1>3. CASE ActKickLeases(w) \/ ActCreate(w) \/ ActStamp(w) \/ ReadLease(w) \/ ExpireLease(w)
  BY <1>1, <1>3, GotoCalm, GotoIfCalm, AnswerCalm
     DEF ActKickLeases, ActCreate, ActStamp, ReadLease, ExpireLease, LeasingCalls, Calls
<1>4. CASE IssEnforce(w) \/ IssKick(w) \/ IssCreate(w)
  BY <1>1, <1>4, GotoCalm, GotoIfCalm, AnswerCalm, PickCalm
     DEF IssEnforce, IssKick, IssCreate, At, LeasingCalls, Calls
<1>5. CASE HbLicense(w) \/ HbTouch(w) \/ HbRevoke(w) \/ VerLicense(w) \/ VerDevice(w) \/ VerOk(w)
  BY <1>1, <1>5, GotoCalm, GotoIfCalm, AnswerCalm
     DEF HbLicense, HbTouch, HbRevoke, VerLicense, VerDevice, VerOk, Check, LeasingCalls, Calls
<1>6. CASE DeaLicense(w) \/ DeaDevice(w) \/ DeaRemove(w) \/ DeaLeases(w)
  BY <1>1, <1>6, GotoCalm, GotoIfCalm, AnswerCalm
     DEF DeaLicense, DeaDevice, DeaRemove, DeaLeases, Check, LeasingCalls, Calls
<1> QED BY <1>2, <1>3, <1>4, <1>5, <1>6 DEF Step

-----------------------------------------------------------------------------
(* Leases per device *)

\* Counting a set that gained at most one element, or lost one.
LEMMA OneMore ==
    ASSUME NEW S, IsFiniteSet(S), NEW x, NEW T, T \subseteq S \union {x}
    PROVE  Cardinality(T) \in Nat /\ Cardinality(T) <= Cardinality(S) + 1
<1>1. /\ IsFiniteSet(S \union {x})
      /\ Cardinality(S \union {x}) = IF x \in S THEN Cardinality(S) ELSE Cardinality(S) + 1
  BY FS_AddElement
<1>2. Cardinality(S) \in Nat
  BY FS_CardinalityType
<1>3. Cardinality(T) <= Cardinality(S \union {x}) /\ Cardinality(T) \in Nat
  BY <1>1, FS_Subset, FS_CardinalityType
<1> QED BY <1>1, <1>2, <1>3

LEMMA OneLess ==
    ASSUME NEW S, IsFiniteSet(S), NEW x \in S, NEW T, T \subseteq S \ {x}
    PROVE  Cardinality(T) \in Nat /\ Cardinality(T) <= Cardinality(S) - 1
<1>1. IsFiniteSet(S \ {x}) /\ Cardinality(S \ {x}) = Cardinality(S) - 1
  BY FS_RemoveElement
<1>2. Cardinality(T) <= Cardinality(S \ {x}) /\ Cardinality(T) \in Nat
  BY <1>1, FS_Subset, FS_CardinalityType
<1> QED BY <1>1, <1>2

\* Only IssCreate makes a lease active.
LEMMA LeasesOnlyEnd ==
    ASSUME TypeOK, NEW w \in Worker, Step(w), ~IssCreate(w)
    PROVE  \A k \in LeaseId : leases'[k].status = "active" => leases'[k] = leases[k]
<1>1. CASE UNCHANGED leases
  BY <1>1
<1>2. ASSUME NEW d, leases' = RevokedFor(d)
      PROVE  \A k \in LeaseId : leases'[k].status = "active" => leases'[k] = leases[k]
  BY <1>2 DEF TypeOK, RevokedFor, LeaseRow
<1>3. ASSUME NEW k \in LeaseId \union {None}, NEW s \in {"expired", "revoked"}, SetLeaseStatus(k, s)
      PROVE  \A i \in LeaseId : leases'[i].status = "active" => leases'[i] = leases[i]
  BY <1>3 DEF TypeOK, SetLeaseStatus, LeaseRow
<1>4. CASE ActKickLeases(w) \/ IssRevoke(w) \/ IssKick(w) \/ DeaLeases(w)
  BY <1>2, <1>4 DEF ActKickLeases, IssRevoke, IssKick, DeaLeases
<1>5. CASE ExpireLease(w) \/ HbRevoke(w)
  BY <1>3, <1>5 DEF ExpireLease, HbRevoke, TypeOK, Request
<1> QED BY <1>1, <1>4, <1>5
        DEF Step, Check, ReadOnly, ActLicense, ActDevice, ActTouch, ActCount, ActOldest, ActKick, ActCreate, ActStamp,
            IssEnforce, ReadLease, HbLicense, HbTouch, VerLicense, VerDevice, VerOk, DeaLicense, DeaDevice, DeaRemove

\* The requests past IssRevoke that will create a lease for d unless they fail.
LeasingFor(d) == {w \in Worker : req[w].pc \in LeasingCalls /\ req[w].device = d}

\* The inductive form of LeasesPerDevice: IssRevoke leaves no active lease of
\* the device, so leases and the requests about to create one share |Worker| places.
LeasesAndLeasing ==
    \A d \in DeviceCode : Cardinality(LiveLeases(d)) + Cardinality(LeasingFor(d)) <= Cardinality(Worker)

LEMMA LeasingFinite ==
    ASSUME NEW d
    PROVE  /\ IsFiniteSet(LiveLeases(d)) /\ Cardinality(LiveLeases(d)) \in Nat
           /\ IsFiniteSet(LeasingFor(d)) /\ Cardinality(LeasingFor(d)) \in Nat
           /\ Cardinality(LeasingFor(d)) <= Cardinality(Worker)
           /\ Cardinality(Worker) \in Nat \ {0}
<1>1. LiveLeases(d) \subseteq LeaseId /\ LeasingFor(d) \subseteq Worker
  BY DEF LiveLeases, LeasingFor
<1>2. Cardinality(Worker) \in Nat \ {0}
  BY WorkerAssumption, FS_CardinalityType, FS_EmptySet
<1> QED BY <1>1, <1>2, WorkerAssumption, RowAssumption, FS_Subset, FS_CardinalityType

\* Fewer active leases and fewer requests about to create one keep the bound.
LEMMA LeasingShrinks ==
    ASSUME NEW d, LiveLeases(d)' \subseteq LiveLeases(d), LeasingFor(d)' \subseteq LeasingFor(d),
           Cardinality(LiveLeases(d)) + Cardinality(LeasingFor(d)) <= Cardinality(Worker)
    PROVE  Cardinality(LiveLeases(d)') + Cardinality(LeasingFor(d)') <= Cardinality(Worker)
<1>1. /\ Cardinality(LiveLeases(d)') <= Cardinality(LiveLeases(d))
      /\ Cardinality(LeasingFor(d)') <= Cardinality(LeasingFor(d))
      /\ Cardinality(LiveLeases(d)') \in Nat /\ Cardinality(LeasingFor(d)') \in Nat
  BY LeasingFinite, FS_Subset, FS_CardinalityType
<1> QED BY <1>1, LeasingFinite

LEMMA LeasingStep ==
    ASSUME TypeOK, LeasesAndLeasing, NEW w \in Worker, Step(w)
    PROVE  LeasesAndLeasing'
<1> SUFFICES ASSUME NEW d \in DeviceCode
             PROVE  Cardinality(LiveLeases(d)') + Cardinality(LeasingFor(d)') <= Cardinality(Worker)
  BY DEF LeasesAndLeasing
<1> USE DEF LeasesAndLeasing
<1>1. ASSUME Calm(LeasingCalls) PROVE LeasingFor(d)' \subseteq LeasingFor(d)
  BY <1>1 DEF Calm, LeasingFor
<1>2. ASSUME ~IssCreate(w) PROVE LiveLeases(d)' \subseteq LiveLeases(d)
  BY <1>2, LeasesOnlyEnd DEF LiveLeases
<1>3. CASE IssRevoke(w)
  <2>1. CASE req[w].device = d
    <3>1. LiveLeases(d)' = {}
      BY <1>3, <2>1 DEF IssRevoke, RevokedFor, LiveLeases, TypeOK, LeaseRow
    <3>2. Cardinality(LeasingFor(d)') <= Cardinality(Worker) /\ Cardinality(LeasingFor(d)') \in Nat
      <4>1. LeasingFor(d)' \subseteq Worker
        BY DEF LeasingFor
      <4> QED BY <4>1, WorkerAssumption, FS_Subset, FS_CardinalityType
    <3> QED BY <3>1, <3>2, FS_EmptySet, LeasingFinite
  <2>2. CASE req[w].device # d
    <3>1. LeasingFor(d)' \subseteq LeasingFor(d)
      BY <1>3, <2>2 DEF IssRevoke, Goto, LeasingFor, TypeOK, Request
    <3>2. LiveLeases(d)' \subseteq LiveLeases(d)
      BY <1>2, <1>3 DEF IssRevoke, IssCreate, At
    <3> QED BY <3>1, <3>2, LeasingShrinks
  <2> QED BY <2>1, <2>2
<1>4. CASE IssCreate(w)
  <2>1. Calm(LeasingCalls)
    BY <1>4, LeasingCalm DEF IssRevoke, IssCreate, At
  <2>2. CASE req[w].device = d
    <3>1. PICK k \in LeaseId : LiveLeases(d)' = LiveLeases(d) \union {k}
      BY <1>4, <2>2 DEF IssCreate, LiveLeases, TypeOK, LeaseRow
    <3>2. Cardinality(LiveLeases(d)') <= Cardinality(LiveLeases(d)) + 1 /\ Cardinality(LiveLeases(d)') \in Nat
      BY <3>1, LeasingFinite, OneMore
    <3>3. w \in LeasingFor(d) /\ w \notin LeasingFor(d)'
      BY <1>4, <2>2 DEF IssCreate, At, GotoIf, Goto, Answer, Idle, LeasingFor, LeasingCalls, TypeOK, Request
    <3>4. LeasingFor(d)' \subseteq LeasingFor(d) \ {w}
      BY <1>1, <2>1, <3>3
    <3>5. Cardinality(LeasingFor(d)') <= Cardinality(LeasingFor(d)) - 1 /\ Cardinality(LeasingFor(d)') \in Nat
      BY <3>3, <3>4, LeasingFinite, OneLess
    <3> QED BY <3>2, <3>5, LeasingFinite
  <2>3. CASE req[w].device # d
    <3>1. LiveLeases(d)' \subseteq LiveLeases(d)
      BY <1>4, <2>3 DEF IssCreate, LiveLeases, TypeOK, LeaseRow
    <3> QED BY <1>1, <2>1, <3>1, LeasingShrinks
  <2> QED BY <2>2, <2>3
<1>5. CASE ~IssRevoke(w) /\ ~IssCreate(w)
  BY <1>1, <1>2, <1>5, LeasingCalm, LeasingShrinks
<1> QED BY <1>3, <1>4, <1>5

\* A device holds at most as many active leases as requests are in flight.
THEOREM LeasesPerDeviceBound == Spec => []LeasesPerDevice
<1>1. Init => LeasesAndLeasing
  <2> SUFFICES ASSUME Init, NEW d \in DeviceCode
               PROVE  Cardinality(LiveLeases(d)) + Cardinality(LeasingFor(d)) <= Cardinality(Worker)
    BY DEF LeasesAndLeasing
  <2>1. LiveLeases(d) = {} /\ LeasingFor(d) = {}
    BY DEF Init, NoLease, Idle, LiveLeases, LeasingFor, LeasingCalls
  <2> QED BY <2>1, FS_EmptySet, LeasingFinite
<1>2. TypeOK /\ LeasesAndLeasing /\ [Next]_vars => LeasesAndLeasing'
  <2> SUFFICES ASSUME TypeOK, LeasesAndLeasing, [Next]_vars PROVE LeasesAndLeasing'
    OBVIOUS
  <2>1. ASSUME UNCHANGED leases, Calm(LeasingCalls) PROVE LeasesAndLeasing'
    <3> SUFFICES ASSUME NEW d \in DeviceCode
                 PROVE  Cardinality(LiveLeases(d)') + Cardinality(LeasingFor(d)') <= Cardinality(Worker)
      BY DEF LeasesAndLeasing
    <3>1. LiveLeases(d)' \subseteq LiveLeases(d) /\ LeasingFor(d)' \subseteq LeasingFor(d)
      BY <2>1 DEF LiveLeases, LeasingFor, Calm
    <3> QED BY <3>1, LeasingShrinks DEF LeasesAndLeasing
  <2>2. CASE \E w \in Worker : Step(w)
    BY <2>2, LeasingStep
  <2>3. CASE \E w \in Worker : Arrive(w)
    <3>1. {"act_license", "dea_license", "lease"} \cap LeasingCalls = {}
      BY DEF LeasingCalls
    <3> QED BY <2>1, <2>3, <3>1, ArriveCalm
            DEF Arrive, BeginActivate, BeginHeartbeat, BeginVerify, BeginDeactivate, Begin, ReadOnly
  <2>4. CASE \E w \in Worker : Fail(w)
    BY <2>1, <2>4, AnswerCalm DEF Fail, ReadOnly, LeasingCalls
  <2>5. CASE \/ \E l \in License, s \in LicenseStatus : AdminSetLicense(l, s)
             \/ \E d \in DeviceCode, s \in DeviceStatus : AdminSetDevice(d, s)
    BY <2>1, <2>5, AdminCalm DEF AdminSetLicense, AdminSetDevice
  <2>6. CASE Tick \/ UNCHANGED vars
    BY <2>1, <2>6 DEF Tick, vars, Calm
  <2> QED BY <2>2, <2>3, <2>4, <2>5, <2>6 DEF Next
<1>3. LeasesAndLeasing => LeasesPerDevice
  BY LeasingFinite DEF LeasesAndLeasing, LeasesPerDevice
<1> QED BY <1>1, <1>2, <1>3, TypeCorrect, PTL DEF Spec

-----------------------------------------------------------------------------
(* Devices per licence, under deny_new *)

KickCalls == {"act_oldest", "act_kick", "act_kickLeases"}

\* deny_new never looks for a device to kick.
NoKick == \A w \in Worker : req[w].pc \notin KickCalls

\* The requests that passed the count of licence l and will create a device.
BindingFor(l) == {w \in Worker : req[w].pc = "act_create" /\ req[w].license = l}

\* The inductive form of DeviceLimit: a request passes the count only while a
\* seat is free, so the devices and the requests about to create one share the
\* seats and one more place for each other request in flight.
SeatsAndBinding ==
    \A l \in License :
        Cardinality(ActiveDevices(l)) + Cardinality(BindingFor(l)) <= MaxDevices + granted[l] + Cardinality(Worker) - 1

LEMMA BindingFinite ==
    ASSUME NEW l
    PROVE  /\ IsFiniteSet(ActiveDevices(l)) /\ Cardinality(ActiveDevices(l)) \in Nat
           /\ IsFiniteSet(BindingFor(l)) /\ Cardinality(BindingFor(l)) \in Nat
           /\ Cardinality(BindingFor(l)) <= Cardinality(Worker)
           /\ Cardinality(Worker) \in Nat \ {0}
<1>1. ActiveDevices(l) \subseteq DeviceCode /\ BindingFor(l) \subseteq Worker
  BY DEF ActiveDevices, BindingFor
<1>2. Cardinality(Worker) \in Nat \ {0}
  BY WorkerAssumption, FS_CardinalityType, FS_EmptySet
<1> QED BY <1>1, <1>2, WorkerAssumption, RowAssumption, FS_Subset, FS_CardinalityType

LEMMA BindingShrinks ==
    ASSUME NEW l, NEW n \in Int, ActiveDevices(l)' \subseteq ActiveDevices(l), BindingFor(l)' \subseteq BindingFor(l),
           Cardinality(ActiveDevices(l)) + Cardinality(BindingFor(l)) <= n
    PROVE  Cardinality(ActiveDevices(l)') + Cardinality(BindingFor(l)') <= n
<1>1. /\ Cardinality(ActiveDevices(l)') <= Cardinality(ActiveDevices(l))
      /\ Cardinality(BindingFor(l)') <= Cardinality(BindingFor(l))
      /\ Cardinality(ActiveDevices(l)') \in Nat /\ Cardinality(BindingFor(l)') \in Nat
  BY BindingFinite, FS_Subset, FS_CardinalityType
<1> QED BY <1>1, BindingFinite

\* Under deny_new only ActCount lets a request among those about to create a
\* device, and none among those that kick one.
LEMMA BindingCalm ==
    ASSUME TypeOK, BindingPolicy = "deny_new", NoKick, NEW w \in Worker, Step(w)
    PROVE  /\ Calm(KickCalls)
           /\ ~ActCount(w) => Calm({"act_create"})
<1> DEFINE K == KickCalls
           C == {"act_create"}
<1>1. "idle" \notin K /\ "idle" \notin C
  BY DEF KickCalls
<1>2. CASE ActLicense(w) \/ ActDevice(w) \/ ActTouch(w) \/ ActCreate(w) \/ ActStamp(w)
  BY <1>1, <1>2, GotoCalm, GotoIfCalm, AnswerCalm
     DEF ActLicense, ActDevice, ActTouch, ActCreate, ActStamp, Check, KickCalls, Calls
<1>3. CASE ActCount(w)
  <2>1. ActCount(w) => Calm(K)
    BY <1>1, <1>3, GotoCalm, AnswerCalm DEF ActCount, GotoIf, KickCalls, Calls
  <2> QED BY <1>3, <2>1
<1>4. CASE ActOldest(w) \/ ActKick(w) \/ ActKickLeases(w)
  BY <1>4 DEF NoKick, ActOldest, ActKick, ActKickLeases, At, KickCalls
<1>5. CASE IssRevoke(w) \/ IssEnforce(w) \/ IssKick(w) \/ IssCreate(w)
  <2>1. Calm(K)
    BY <1>1, <1>5, GotoCalm, GotoIfCalm, AnswerCalm, PickCalm
       DEF IssRevoke, IssEnforce, IssKick, IssCreate, KickCalls, Calls
  <2>2. Calm(C)
    BY <1>1, <1>5, GotoCalm, GotoIfCalm, AnswerCalm, PickCalm
       DEF IssRevoke, IssEnforce, IssKick, IssCreate, Calls
  <2> QED BY <2>1, <2>2
<1>6. CASE ReadLease(w) \/ ExpireLease(w)
  BY <1>1, <1>6, GotoCalm, AnswerCalm DEF ReadLease, ExpireLease, KickCalls, Calls
<1>7. CASE HbLicense(w) \/ HbTouch(w) \/ HbRevoke(w) \/ VerLicense(w) \/ VerDevice(w) \/ VerOk(w)
  BY <1>1, <1>7, GotoCalm, GotoIfCalm, AnswerCalm
     DEF HbLicense, HbTouch, HbRevoke, VerLicense, VerDevice, VerOk, Check, KickCalls, Calls
<1>8. CASE DeaLicense(w) \/ DeaDevice(w) \/ DeaRemove(w) \/ DeaLeases(w)
  BY <1>1, <1>8, GotoCalm, GotoIfCalm, AnswerCalm
     DEF DeaLicense, DeaDevice, DeaRemove, DeaLeases, Check, KickCalls, Calls
<1> QED BY <1>2, <1>3, <1>4, <1>5, <1>6, <1>7, <1>8 DEF Step

\* Only ActCreate makes a device active.
LEMMA DevicesOnlyLeave ==
    ASSUME TypeOK, NEW w \in Worker, Step(w), ~ActCreate(w)
    PROVE  \A d \in DeviceCode : /\ devices'[d].license = devices[d].license
                                 /\ devices'[d].status = "active" => devices[d].status = "active"
<1>1. CASE UNCHANGED devices
  BY <1>1
<1>2. ASSUME NEW c, SetDeviceStatus(c, "removed") \/ SetLastSeen(c)
      PROVE  \A d \in DeviceCode : /\ devices'[d].license = devices[d].license
                                   /\ devices'[d].status = "active" => devices[d].status = "active"
  BY <1>2 DEF TypeOK, DeviceRow, SetDeviceStatus, SetLastSeen
<1>3. CASE ActTouch(w) \/ ActKick(w) \/ HbTouch(w) \/ DeaRemove(w)
  BY <1>2, <1>3 DEF ActTouch, ActKick, HbTouch, DeaRemove
<1> QED BY <1>1, <1>3
        DEF Step, Check, ReadOnly, ActLicense, ActDevice, ActCount, ActOldest, ActKickLeases, ActStamp,
            IssRevoke, IssEnforce, IssKick, IssCreate, ReadLease, ExpireLease, HbLicense, HbRevoke,
            VerLicense, VerDevice, VerOk, DeaLicense, DeaDevice, DeaLeases

LEMMA BindingStep ==
    ASSUME TypeOK, BindingPolicy = "deny_new", NoKick, SeatsAndBinding, NEW w \in Worker, Step(w)
    PROVE  SeatsAndBinding'
<1> DEFINE Room(l) == MaxDevices + granted[l] + Cardinality(Worker) - 1
<1>0. UNCHANGED granted
  BY DEF Step, Check, ReadOnly, ActLicense, ActDevice, ActTouch, ActCount, ActOldest, ActKick, ActKickLeases, ActCreate,
         ActStamp, IssRevoke, IssEnforce, IssKick, IssCreate, ReadLease, ExpireLease, HbLicense, HbTouch, HbRevoke,
         VerLicense, VerDevice, VerOk, DeaLicense, DeaDevice, DeaRemove, DeaLeases
<1> SUFFICES ASSUME NEW l \in License
             PROVE  Cardinality(ActiveDevices(l)') + Cardinality(BindingFor(l)') <= Room(l)
  BY <1>0 DEF SeatsAndBinding
<1>1. Cardinality(ActiveDevices(l)) + Cardinality(BindingFor(l)) <= Room(l) /\ Room(l) \in Int /\ granted[l] \in Nat
  BY BindingFinite, LimitAssumption, GrantAssumption DEF SeatsAndBinding, TypeOK
<1> HIDE DEF Room
<1>2. ASSUME ~ActCount(w) PROVE BindingFor(l)' \subseteq BindingFor(l)
  BY <1>2, BindingCalm DEF Calm, BindingFor
<1>3. ASSUME ~ActCreate(w) PROVE ActiveDevices(l)' \subseteq ActiveDevices(l)
  BY <1>3, DevicesOnlyLeave DEF ActiveDevices
<1>4. CASE ActCount(w)
  <2>1. ActiveDevices(l)' = ActiveDevices(l)
    BY <1>4 DEF ActCount, ReadOnly, ActiveDevices
  <2>2. CASE req[w].license = l /\ ~DevicesFull(l)
    <3>1. Cardinality(BindingFor(l)') <= Cardinality(Worker) /\ Cardinality(BindingFor(l)') \in Nat
      <4>1. BindingFor(l)' \subseteq Worker
        BY DEF BindingFor
      <4> QED BY <4>1, WorkerAssumption, FS_Subset, FS_CardinalityType
    <3>2. Cardinality(ActiveDevices(l)) <= MaxDevices - 1
      BY <2>2, BindingFinite, LimitAssumption DEF DevicesFull
    <3> QED BY <1>1, <2>1, <3>1, <3>2, BindingFinite, LimitAssumption DEF Room
  <2>3. CASE ~(req[w].license = l /\ ~DevicesFull(l))
    <3>1. BindingFor(l)' \subseteq BindingFor(l)
      BY <1>4, <2>3 DEF ActCount, GotoIf, Goto, Answer, Idle, BindingFor, TypeOK, Request
    <3> QED BY <1>1, <2>1, <3>1, BindingShrinks
  <2> QED BY <2>2, <2>3
<1>5. CASE ActCreate(w)
  <2>1. BindingFor(l)' \subseteq BindingFor(l)
    BY <1>2, <1>5 DEF ActCount, ActCreate, At
  <2>2. CASE req[w].license = l /\ ~Known(req[w].device)
    <3>1. \E d \in DeviceCode \union {None} : ActiveDevices(l)' \subseteq ActiveDevices(l) \union {d}
      BY <1>5, <2>2 DEF ActCreate, ActiveDevices, TypeOK, DeviceRow, Request
    <3>2. Cardinality(ActiveDevices(l)') <= Cardinality(ActiveDevices(l)) + 1 /\ Cardinality(ActiveDevices(l)') \in Nat
      BY <3>1, BindingFinite, OneMore
    <3>3. w \in BindingFor(l) /\ w \notin BindingFor(l)'
      BY <1>5, <2>2 DEF ActCreate, At, Goto, BindingFor, TypeOK, Request
    <3>4. Cardinality(BindingFor(l)') <= Cardinality(BindingFor(l)) - 1 /\ Cardinality(BindingFor(l)') \in Nat
      <4>1. BindingFor(l)' \subseteq BindingFor(l) \ {w}
        BY <2>1, <3>3
      <4> QED BY <3>3, <4>1, BindingFinite, OneLess
    <3> QED BY <1>1, <3>2, <3>4, BindingFinite
  <2>3. CASE ~(req[w].license = l /\ ~Known(req[w].device))
    <3>1. ActiveDevices(l)' \subseteq ActiveDevices(l)
      BY <1>5, <2>3 DEF ActCreate, Known, ActiveDevices, TypeOK, DeviceRow
    <3> QED BY <1>1, <2>1, <3>1, BindingShrinks
  <2> QED BY <2>2, <2>3
<1>6. CASE ~ActCount(w) /\ ~ActCreate(w)
  BY <1>1, <1>2, <1>3, <1>6, BindingShrinks
<1> QED BY <1>4, <1>5, <1>6

\* Giving a device back adds at most the one seat it records.
LEMMA RestoreStep ==
    ASSUME TypeOK, SeatsAndBinding, NEW d \in DeviceCode, NEW s \in DeviceStatus, AdminSetDevice(d, s)
    PROVE  SeatsAndBinding'
<1> SUFFICES ASSUME NEW l \in License
             PROVE  Cardinality(ActiveDevices(l)') + Cardinality(BindingFor(l)')
                      <= MaxDevices + granted'[l] + Cardinality(Worker) - 1
  BY DEF SeatsAndBinding
<1>1. /\ Cardinality(ActiveDevices(l)) + Cardinality(BindingFor(l)) <= MaxDevices + granted[l] + Cardinality(Worker) - 1
      /\ granted[l] \in Nat /\ MaxDevices + granted[l] + Cardinality(Worker) - 1 \in Int
  BY BindingFinite, LimitAssumption, GrantAssumption DEF SeatsAndBinding, TypeOK
<1>2. Calm({"act_create"})
  BY AdminCalm
<1>3. BindingFor(l)' \subseteq BindingFor(l)
  BY <1>2 DEF Calm, BindingFor
<1>4. CASE s = "active" /\ devices[d].license = l
  <2>1. granted'[l] = granted[l] + 1
    BY <1>4 DEF AdminSetDevice, TypeOK
  <2>2. ActiveDevices(l)' \subseteq ActiveDevices(l) \union {d}
    BY DEF AdminSetDevice, SetDeviceStatus, ActiveDevices, TypeOK, DeviceRow
  <2>3. Cardinality(ActiveDevices(l)') <= Cardinality(ActiveDevices(l)) + 1 /\ Cardinality(ActiveDevices(l)') \in Nat
    BY <2>2, BindingFinite, OneMore
  <2>5. Cardinality(BindingFor(l)') <= Cardinality(BindingFor(l)) /\ Cardinality(BindingFor(l)') \in Nat
    BY <1>3, BindingFinite, FS_Subset, FS_CardinalityType
  <2> QED BY <1>1, <2>1, <2>3, <2>5, BindingFinite, LimitAssumption
<1>5. CASE ~(s = "active" /\ devices[d].license = l)
  <2>1. ActiveDevices(l)' \subseteq ActiveDevices(l)
    BY <1>5 DEF AdminSetDevice, SetDeviceStatus, ActiveDevices, TypeOK, DeviceRow
  <2>2. granted'[l] = granted[l]
    BY <1>5 DEF AdminSetDevice, TypeOK
  <2> QED BY <1>1, <1>3, <2>1, <2>2, BindingShrinks
<1> QED BY <1>4, <1>5

\* Under deny_new the devices and the requests past the count share the seats.
LEMMA SeatsShared ==
    ASSUME BindingPolicy = "deny_new"
    PROVE  Spec => [](NoKick /\ SeatsAndBinding)
<1> DEFINE Inv == NoKick /\ SeatsAndBinding
<1>1. Init => Inv
  <2> SUFFICES ASSUME Init PROVE Inv
    OBVIOUS
  <2>1. NoKick
    BY DEF Init, NoKick, Idle, KickCalls
  <2>2. ASSUME NEW l \in License
        PROVE  Cardinality(ActiveDevices(l)) + Cardinality(BindingFor(l)) <= MaxDevices + granted[l] + Cardinality(Worker) - 1
    <3>1. ActiveDevices(l) = {} /\ BindingFor(l) = {} /\ granted[l] = 0
      BY DEF Init, NoDevice, Idle, ActiveDevices, BindingFor
    <3> QED BY <3>1, FS_EmptySet, BindingFinite, LimitAssumption
  <2> QED BY <2>1, <2>2 DEF SeatsAndBinding
<1>2. TypeOK /\ Inv /\ [Next]_vars => Inv'
  <2> SUFFICES ASSUME TypeOK, Inv, [Next]_vars PROVE Inv'
    OBVIOUS
  <2>1. ASSUME Calm(KickCalls) PROVE NoKick'
    BY <2>1 DEF Calm, NoKick
  <2>2. ASSUME UNCHANGED <<devices, granted>>, Calm({"act_create"}) PROVE SeatsAndBinding'
    <3> SUFFICES ASSUME NEW l \in License
                 PROVE  Cardinality(ActiveDevices(l)') + Cardinality(BindingFor(l)')
                          <= MaxDevices + granted[l] + Cardinality(Worker) - 1
      BY <2>2 DEF SeatsAndBinding
    <3>1. ActiveDevices(l)' \subseteq ActiveDevices(l) /\ BindingFor(l)' \subseteq BindingFor(l)
      BY <2>2 DEF ActiveDevices, BindingFor, Calm
    <3>2. MaxDevices + granted[l] + Cardinality(Worker) - 1 \in Int
      BY BindingFinite, LimitAssumption, GrantAssumption DEF TypeOK
    <3> QED BY <3>1, <3>2, BindingShrinks DEF SeatsAndBinding
  <2>3. CASE \E w \in Worker : Step(w)
    BY <2>1, <2>3, BindingStep, BindingCalm
  <2>4. CASE \E w \in Worker : Arrive(w)
    <3>1. {"act_license", "dea_license", "lease"} \cap KickCalls = {}
          /\ {"act_license", "dea_license", "lease"} \cap {"act_create"} = {}
      BY DEF KickCalls
    <3>2. Calm(KickCalls) /\ Calm({"act_create"})
      BY <2>4, <3>1, ArriveCalm
    <3> QED BY <2>1, <2>2, <2>4, <3>2
            DEF Arrive, BeginActivate, BeginHeartbeat, BeginVerify, BeginDeactivate, Begin, ReadOnly
  <2>5. CASE \E w \in Worker : Fail(w)
    BY <2>1, <2>2, <2>5, AnswerCalm DEF Fail, ReadOnly, KickCalls
  <2>6. CASE \E l \in License, s \in LicenseStatus : AdminSetLicense(l, s)
    BY <2>1, <2>2, <2>6, AdminCalm DEF AdminSetLicense
  <2>7. CASE \E d \in DeviceCode, s \in DeviceStatus : AdminSetDevice(d, s)
    BY <2>1, <2>7, AdminCalm, RestoreStep
  <2>8. CASE Tick \/ UNCHANGED vars
    BY <2>1, <2>2, <2>8 DEF Tick, vars, Calm
  <2> QED BY <2>3, <2>4, <2>5, <2>6, <2>7, <2>8 DEF Next
<1> QED BY <1>1, <1>2, TypeCorrect, PTL DEF Spec

\* Under deny_new a licence never has more active devices than its limit, what
\* administrators gave back, and the other requests in flight.
THEOREM DeviceLimitDenyNew ==
    ASSUME BindingPolicy = "deny_new"
    PROVE  Spec => []DeviceLimit
<1>1. TypeOK /\ SeatsAndBinding => DeviceLimit
  BY BindingFinite, LimitAssumption, GrantAssumption DEF SeatsAndBinding, DeviceLimit, TypeOK
<1> QED BY <1>1, SeatsShared, TypeCorrect, PTL

-----------------------------------------------------------------------------
(* Requests that arrive too late *)

\* A step of a request leaves the licences, the clock and the other requests
\* alone, and answers the request or keeps all of it but pc and victim.
LEMMA StepFrame ==
    ASSUME TypeOK, NEW w \in Worker, Step(w)
    PROVE  /\ UNCHANGED <<licenses, now, granted>>
           /\ \A v \in Worker \ {w} : req'[v] = req[v]
           /\ \/ req'[w] = Idle
              \/ /\ req'[w].op = req[w].op /\ req'[w].lease = req[w].lease
                 /\ req'[w].license = req[w].license /\ req'[w].device = req[w].device
                 /\ req'[w].late = req[w].late /\ req'[w].gone = req[w].gone
<1> DEFINE Same == /\ \A v \in Worker \ {w} : req'[v] = req[v]
                   /\ \/ req'[w] = Idle
                      \/ /\ req'[w].op = req[w].op /\ req'[w].lease = req[w].lease
                         /\ req'[w].license = req[w].license /\ req'[w].device = req[w].device
                         /\ req'[w].late = req[w].late /\ req'[w].gone = req[w].gone
<1>1. UNCHANGED <<licenses, now, granted>>
  BY DEF Step, Check, ReadOnly, ActLicense, ActDevice, ActTouch, ActCount, ActOldest, ActKick, ActKickLeases, ActCreate,
         ActStamp, IssRevoke, IssEnforce, IssKick, IssCreate, ReadLease, ExpireLease, HbLicense, HbTouch, HbRevoke,
         VerLicense, VerDevice, VerOk, DeaLicense, DeaDevice, DeaRemove, DeaLeases
<1>2. ASSUME NEW pc \in Calls, NEW d, NEW ok, Goto(w, pc) \/ Answer(w) \/ GotoIf(ok, w, pc) \/ Pick(w, d, pc) PROVE Same
  BY <1>2 DEF Goto, Answer, GotoIf, Pick, TypeOK, Request
<1>3. \E pc \in Calls, d \in DeviceCode \union {None}, ok \in BOOLEAN :
         Goto(w, pc) \/ Answer(w) \/ GotoIf(ok, w, pc) \/ Pick(w, d, pc)
  <2>1. (\E pc \in Calls : Goto(w, pc) \/ Answer(w)) \/ (\E pc \in Calls, d \in DeviceCode : Pick(w, d, pc))
    BY DEF Step, Check, GotoIf, ActLicense, ActDevice, ActTouch, ActCount, ActOldest, ActKick, ActKickLeases, ActCreate,
         ActStamp, IssRevoke, IssEnforce, IssKick, IssCreate, ReadLease, ExpireLease, HbLicense, HbTouch, HbRevoke,
         VerLicense, VerDevice, VerOk, DeaLicense, DeaDevice, DeaRemove, DeaLeases, Calls,
         Oldest, ActiveDevices, Holders
  <2> QED BY <2>1
<1> QED BY <1>1, <1>2, <1>3

LateCalls == {"act_license", "lease", "lease_expire", "hb_license", "ver_license", "dea_license"}
GoneCalls == {"act_license", "act_device", "lease", "lease_expire", "ver_license", "ver_device",
              "dea_license", "dea_device"}

\* The inductive form of LateNeverServed: late is what its name says.
LateInv == \A w \in Worker : req[w].late => ~Valid(req[w].license) /\ req[w].pc \in LateCalls

\* The inductive form of GoneNeverServed.
GoneInv ==
    \A w \in Worker : req[w].gone =>
        /\ req[w].device \in DeviceCode /\ devices[req[w].device].status = "removed"
        /\ req[w].op # "heartbeat" => req[w].pc \in GoneCalls

LEMMA LateStep ==
    ASSUME TypeOK, LateInv, NEW w \in Worker, Step(w)
    PROVE  LateInv'
<1>1. ASSUME NEW v \in Worker, v # w, req'[v].late
      PROVE  ~Valid(req[v].license)' /\ req'[v].pc \in LateCalls
  BY <1>1, StepFrame DEF LateInv, Valid
<1>2. ASSUME req'[w].late
      PROVE  ~Valid(req[w].license)' /\ req'[w].pc \in LateCalls
  <2>1. req[w].late /\ req'[w].license = req[w].license /\ req'[w] # Idle
    BY <1>2, StepFrame DEF Idle
  <2>2. ~Valid(req[w].license) /\ req[w].pc \in LateCalls
    BY <2>1 DEF LateInv
  <2>3. ~Answer(w)
    BY <2>1 DEF Answer, TypeOK
  <2>4. req'[w].pc \in LateCalls
    <3>1. CASE ActLicense(w) \/ VerLicense(w) \/ DeaLicense(w) \/ HbLicense(w) \/ ExpireLease(w)
      BY <2>2, <2>3, <3>1 DEF ActLicense, VerLicense, DeaLicense, HbLicense, ExpireLease, Check, GotoIf, Accepted
    <3>2. CASE ReadLease(w)
      BY <2>3, <3>2 DEF ReadLease, Goto, LateCalls, TypeOK, Request
    <3>3. req[w].pc \notin LateCalls
          \/ ActLicense(w) \/ VerLicense(w) \/ DeaLicense(w) \/ HbLicense(w) \/ ExpireLease(w) \/ ReadLease(w)
      BY DEF Step, At, Check, ActDevice, ActTouch, ActCount, ActOldest, ActKick, ActKickLeases, ActCreate, ActStamp,
             IssRevoke, IssEnforce, IssKick, IssCreate, HbTouch, HbRevoke, VerDevice, VerOk, DeaDevice, DeaRemove,
             DeaLeases, LateCalls
    <3> QED BY <2>2, <3>1, <3>2, <3>3
  <2> QED BY <2>1, <2>2, <2>4, StepFrame DEF Valid
<1> QED BY <1>1, <1>2 DEF LateInv

LEMMA GoneStep ==
    ASSUME TypeOK, GoneInv, NEW w \in Worker, Step(w)
    PROVE  GoneInv'
<1>1. ASSUME NEW d \in DeviceCode, devices[d].status = "removed" PROVE devices'[d].status = "removed"
  <2>1. CASE UNCHANGED devices
    BY <1>1, <2>1
  <2>2. CASE ActTouch(w) \/ ActKick(w) \/ ActCreate(w) \/ HbTouch(w) \/ DeaRemove(w)
    BY <1>1, <2>2 DEF ActTouch, ActKick, ActCreate, HbTouch, DeaRemove, SetDeviceStatus, SetLastSeen, Known, TypeOK, DeviceRow
  <2> QED BY <2>1, <2>2
          DEF Step, Check, ReadOnly, ActLicense, ActDevice, ActCount, ActOldest, ActKickLeases, ActStamp,
              IssRevoke, IssEnforce, IssKick, IssCreate, ReadLease, ExpireLease, HbLicense, HbRevoke,
              VerLicense, VerDevice, VerOk, DeaLicense, DeaDevice, DeaLeases
<1>2. ASSUME NEW v \in Worker, req'[v].gone
      PROVE  /\ req[v].gone /\ req'[v].device = req[v].device /\ req'[v].op = req[v].op
             /\ v = w => req'[v] # Idle
  BY <1>2, StepFrame DEF Idle
<1>3. ASSUME req'[w].gone, req[w].op # "heartbeat" PROVE req'[w].pc \in GoneCalls
  <2>1. devices[req[w].device].status = "removed" /\ req[w].pc \in GoneCalls /\ ~Answer(w)
    BY <1>2, <1>3 DEF GoneInv, Answer, TypeOK
  <2>2. CASE ActDevice(w) \/ VerDevice(w) \/ DeaDevice(w) \/ ExpireLease(w)
    BY <2>1, <2>2 DEF ActDevice, VerDevice, DeaDevice, ExpireLease, Check, GotoIf, Known, DeviceActive
  <2>3. CASE ActLicense(w) \/ VerLicense(w) \/ DeaLicense(w)
    BY <2>1, <2>3 DEF ActLicense, VerLicense, DeaLicense, Check, GotoIf, Goto, GoneCalls, TypeOK, Request
  <2>4. CASE ReadLease(w)
    BY <1>3, <2>1, <2>4 DEF ReadLease, Goto, GoneCalls, TypeOK, Request
  <2>5. req[w].pc \notin GoneCalls
        \/ ActDevice(w) \/ VerDevice(w) \/ DeaDevice(w) \/ ExpireLease(w)
        \/ ActLicense(w) \/ VerLicense(w) \/ DeaLicense(w) \/ ReadLease(w)
    BY DEF Step, At, Check, ActTouch, ActCount, ActOldest, ActKick, ActKickLeases, ActCreate, ActStamp,
           IssRevoke, IssEnforce, IssKick, IssCreate, HbLicense, HbTouch, HbRevoke, VerOk, DeaRemove,
           DeaLeases, GoneCalls
  <2> QED BY <2>1, <2>2, <2>3, <2>4, <2>5
<1>4. ASSUME NEW v \in Worker, v # w, req'[v].gone, req[v].op # "heartbeat" PROVE req'[v].pc \in GoneCalls
  BY <1>4, StepFrame DEF GoneInv
<1> QED BY <1>1, <1>2, <1>3, <1>4 DEF GoneInv

LEMMA ArriveLateGone ==
    ASSUME TypeOK, LateInv, GoneInv, NEW w \in Worker, Arrive(w)
    PROVE  LateInv' /\ GoneInv'
<1>1. ASSUME NEW op \in {"activate", "heartbeat", "verify", "deactivate"}, NEW l, NEW d \in DeviceCode, NEW k, Begin(w, op, l, d, k)
      PROVE  LateInv' /\ GoneInv'
  <2>1. FirstCall(op) \in LateCalls \cap GoneCalls
    BY DEF FirstCall, LateCalls, GoneCalls
  <2>2. UNCHANGED <<licenses, devices, now>> /\ \A v \in Worker : v # w => req'[v] = req[v]
    BY <1>1 DEF Begin, ReadOnly, TypeOK
  <2>3. req'[w] = [op |-> op, pc |-> FirstCall(op), license |-> l, device |-> d, lease |-> k, victim |-> None,
                   late |-> ~Valid(l), gone |-> devices[d].status = "removed"]
    BY <1>1 DEF Begin, TypeOK
  <2>4. /\ req'[w].license = l /\ req'[w].device = d /\ req'[w].op = op /\ req'[w].pc = FirstCall(op)
        /\ req'[w].late = ~Valid(l) /\ req'[w].gone = (devices[d].status = "removed")
    BY <2>3
  <2>5. Valid(l)' = Valid(l)
    BY <2>2 DEF Valid
  <2>6. LateInv'
    <3>1. ASSUME NEW v \in Worker, v # w, req'[v].late
          PROVE  ~Valid(req[v].license)' /\ req'[v].pc \in LateCalls
      BY <2>2, <3>1 DEF LateInv, Valid
    <3>2. ASSUME req'[w].late PROVE ~Valid(req[w].license)' /\ req'[w].pc \in LateCalls
      <4>1. ~Valid(l)'
        BY <2>4, <2>5, <3>2
      <4> QED BY <2>1, <2>4, <4>1 DEF Valid
    <3> QED BY <3>1, <3>2 DEF LateInv
  <2>7. GoneInv'
    <3>1. ASSUME NEW v \in Worker, v # w, req'[v].gone
          PROVE  /\ req'[v].device \in DeviceCode /\ devices'[req'[v].device].status = "removed"
                 /\ req'[v].op # "heartbeat" => req'[v].pc \in GoneCalls
      BY <2>2, <3>1 DEF GoneInv
    <3>2. ASSUME req'[w].gone
          PROVE  /\ req'[w].device \in DeviceCode /\ devices'[req'[w].device].status = "removed"
                 /\ req'[w].op # "heartbeat" => req'[w].pc \in GoneCalls
      BY <2>1, <2>2, <2>4, <3>2
    <3> QED BY <3>1, <3>2 DEF GoneInv
  <2> QED BY <2>6, <2>7
<1> QED BY <1>1 DEF Arrive, BeginActivate, BeginHeartbeat, BeginVerify, BeginDeactivate

\* The requests that arrive after a ban, or after the removal of their device,
\* never get past the check, for any number of licences, devices and requests.
THEOREM LateRequestsRefused == Spec => [](LateNeverServed /\ GoneNeverServed)
<1>1. Init => LateInv /\ GoneInv
  BY DEF Init, LateInv, GoneInv, Idle
<1>2. TypeOK /\ LateInv /\ GoneInv /\ [Next]_vars => LateInv' /\ GoneInv'
  <2> SUFFICES ASSUME TypeOK, LateInv, GoneInv, [Next]_vars PROVE LateInv' /\ GoneInv'
    OBVIOUS
  <2>1. CASE \E w \in Worker : Step(w)
    BY <2>1, LateStep, GoneStep
  <2>2. CASE \E w \in Worker : Arrive(w)
    BY <2>2, ArriveLateGone
  <2>3. CASE \E w \in Worker : Fail(w)
    BY <2>3 DEF Fail, Answer, Idle, ReadOnly, LateInv, GoneInv, Valid, TypeOK
  <2>4. ASSUME NEW l \in License, NEW s \in LicenseStatus, AdminSetLicense(l, s) PROVE LateInv' /\ GoneInv'
    <3>1. \A w \in Worker :
             /\ req'[w].pc = req[w].pc /\ req'[w].op = req[w].op /\ req'[w].gone = req[w].gone
             /\ req'[w].license = req[w].license /\ req'[w].device = req[w].device
             /\ req'[w].late <=> req[w].late /\ ~(req[w].license = l /\ s = "active" /\ LicenseExpiry > now)
      BY <2>4 DEF AdminSetLicense, TypeOK, Request
    <3>2. UNCHANGED <<devices, now>> /\ licenses' = [licenses EXCEPT ![l] = s]
      BY <2>4 DEF AdminSetLicense
    <3>3. GoneInv'
      BY <3>1, <3>2 DEF GoneInv
    <3>4. LateInv'
      BY <3>1, <3>2 DEF LateInv, Valid, TypeOK
    <3> QED BY <3>3, <3>4
  <2>5. ASSUME NEW d \in DeviceCode, NEW s \in DeviceStatus, AdminSetDevice(d, s) PROVE LateInv' /\ GoneInv'
    <3>1. \A w \in Worker :
             /\ req'[w].pc = req[w].pc /\ req'[w].op = req[w].op /\ req'[w].late = req[w].late
             /\ req'[w].license = req[w].license /\ req'[w].device = req[w].device
             /\ req'[w].gone => req[w].gone /\ ~(s = "active" /\ req[w].device = d)
      <4>1. CASE s = "active"
        <5>1. \A w \in Worker : req'[w] = [req[w] EXCEPT !.gone = req[w].gone /\ req[w].device # d]
          BY <2>5, <4>1 DEF AdminSetDevice
        <5>2. ASSUME NEW w \in Worker
              PROVE  /\ req'[w].pc = req[w].pc /\ req'[w].op = req[w].op /\ req'[w].late = req[w].late
                     /\ req'[w].license = req[w].license /\ req'[w].device = req[w].device
                     /\ req'[w].gone => req[w].gone /\ req[w].device # d
          <6> DEFINE still == req[w].gone /\ req[w].device # d
          <6>1. req[w] \in Request /\ req'[w] = [req[w] EXCEPT !.gone = still]
            BY <5>1 DEF TypeOK
          <6> HIDE DEF still
          <6>2. /\ req'[w].pc = req[w].pc /\ req'[w].op = req[w].op /\ req'[w].late = req[w].late
                /\ req'[w].license = req[w].license /\ req'[w].device = req[w].device
                /\ req'[w].gone = still
            BY <6>1 DEF Request
          <6> QED BY <6>2 DEF still
        <5> QED BY <5>2
      <4>2. CASE s # "active"
        BY <2>5, <4>2 DEF AdminSetDevice
      <4> QED BY <4>1, <4>2
    <3>2. UNCHANGED <<licenses, now>> /\ devices' = [devices EXCEPT ![d].status = s]
      BY <2>5 DEF AdminSetDevice, SetDeviceStatus
    <3>3. LateInv'
      BY <3>1, <3>2 DEF LateInv, Valid
    <3>4. GoneInv'
      BY <3>1, <3>2 DEF GoneInv, TypeOK, DeviceRow, DeviceStatus
    <3> QED BY <3>3, <3>4
  <2>6. CASE Tick \/ UNCHANGED vars
    BY <2>6, TimeAssumption DEF Tick, vars, LateInv, GoneInv, Valid, TypeOK
  <2> QED BY <2>1, <2>2, <2>3, <2>4, <2>5, <2>6 DEF Next
<1>3. LateInv /\ GoneInv => LateNeverServed /\ GoneNeverServed
  BY DEF LateInv, GoneInv, LateCalls, GoneCalls, LateNeverServed, GoneNeverServed
<1> QED BY <1>1, <1>2, <1>3, TypeCorrect, PTL DEF Spec

-----------------------------------------------------------------------------
(* Whose lease it is *)

\* Device d has a row, bound to licence l.
Bound(l, d) == d \in DeviceCode /\ devices[d].status # "none" /\ devices[d].license = l

\* LeaseOwner in the words of the proof.
LeasesBound == \A k \in LeaseId : leases[k].status # "none" => Bound(leases[k].license, leases[k].device)

\* The calls a lease token leads through, and those made once the device is
\* known to be bound to the licence of the request.
TokenCalls == {"lease", "lease_expire", "hb_license", "hb_touch", "hb_revoke"}
BoundCalls == {"act_touch", "iss_revoke", "iss_enforce", "iss_kick", "iss_create",
               "hb_license", "hb_touch", "hb_revoke"}

\* The lease row the token of w names.
Token(w) ==
    /\ req[w].lease \in LeaseId
    /\ leases[req[w].lease].status # "none"
    /\ leases[req[w].lease].license = req[w].license

\* What each request has made sure of on its way to iss_create.
RequestBound(w) ==
    /\ req[w].pc # "idle" => req[w].device \in DeviceCode
    /\ req[w].pc \in TokenCalls => Token(w)
    /\ req[w].pc \in BoundCalls => Bound(req[w].license, req[w].device)

\* The inductive form of LeaseOwner.
OwnerInv == LeasesBound /\ \A w \in Worker : RequestBound(w)

-----------------------------------------------------------------------------
\* No step takes a device from its licence, and none deletes a row.
LEMMA BoundStays ==
    ASSUME TypeOK, NEW w \in Worker, Step(w), NEW l, NEW d, Bound(l, d)
    PROVE  Bound(l, d)'
<1>1. CASE ActCreate(w)
  BY <1>1 DEF ActCreate, Known, Bound, TypeOK
<1>2. CASE ~ActCreate(w)
  <2>1. CASE UNCHANGED devices
    BY <2>1 DEF Bound
  <2>2. CASE ActTouch(w) \/ ActKick(w) \/ HbTouch(w) \/ DeaRemove(w)
    BY <2>2 DEF ActTouch, ActKick, HbTouch, DeaRemove, SetDeviceStatus, SetLastSeen, Bound, TypeOK, DeviceRow
  <2> QED BY <1>2, <2>1, <2>2
          DEF Step, Check, ReadOnly, ActLicense, ActDevice, ActCount, ActOldest, ActKickLeases, ActStamp,
              IssRevoke, IssEnforce, IssKick, IssCreate, ReadLease, ExpireLease, HbLicense, HbRevoke,
              VerLicense, VerDevice, VerOk, DeaLicense, DeaDevice, DeaLeases
<1> QED BY <1>1, <1>2

\* A lease row keeps its licence and device, and is not deleted; new rows come
\* from IssCreate only.
LEMMA RowsStay ==
    ASSUME TypeOK, OwnerInv, NEW w \in Worker, Step(w), NEW k \in LeaseId
    PROVE  /\ leases[k].status # "none" =>
                /\ leases'[k].status # "none"
                /\ leases'[k].license = leases[k].license /\ leases'[k].device = leases[k].device
           /\ leases[k].status = "none" /\ leases'[k].status # "none" =>
                /\ IssCreate(w)
                /\ leases'[k].license = req[w].license /\ leases'[k].device = req[w].device
<1>1. CASE UNCHANGED leases
  BY <1>1
<1>2. ASSUME NEW d, leases' = RevokedFor(d)
      PROVE  /\ leases'[k].license = leases[k].license /\ leases'[k].device = leases[k].device
             /\ leases'[k].status = "none" <=> leases[k].status = "none"
  BY <1>2 DEF TypeOK, RevokedFor, LiveLeases, LeaseRow
<1>3. CASE ActKickLeases(w) \/ IssRevoke(w) \/ IssKick(w) \/ DeaLeases(w)
  BY <1>2, <1>3 DEF ActKickLeases, IssRevoke, IssKick, DeaLeases
<1>4. CASE ExpireLease(w) \/ HbRevoke(w)
  <2>1. PICK s \in {"expired", "revoked"} : SetLeaseStatus(req[w].lease, s)
    BY <1>4 DEF ExpireLease, HbRevoke
  <2>2. Token(w)
    BY <1>4 DEF ExpireLease, HbRevoke, At, OwnerInv, RequestBound, TokenCalls
  <2> QED BY <2>1, <2>2 DEF SetLeaseStatus, Token, TypeOK, LeaseRow
<1>5. CASE IssCreate(w)
  <2>1. PICK i \in LeaseId :
           /\ leases[i].status = "none"
           /\ leases' = [leases EXCEPT ![i] = [status |-> "active", license |-> req[w].license,
                                              device |-> req[w].device, expireAt |-> now + LeaseTtl]]
    BY <1>5 DEF IssCreate
  <2>2. CASE k = i
    BY <1>5, <2>1, <2>2 DEF TypeOK
  <2>3. CASE k # i
    BY <2>1, <2>3 DEF TypeOK
  <2> QED BY <2>2, <2>3
<1> QED BY <1>1, <1>3, <1>4, <1>5
        DEF Step, Check, ReadOnly, ActLicense, ActDevice, ActTouch, ActCount, ActOldest, ActKick, ActCreate, ActStamp,
            IssEnforce, ReadLease, HbLicense, HbTouch, VerLicense, VerDevice, VerOk, DeaLicense, DeaDevice, DeaRemove

\* Where a request is after a step that does not answer it.
LEMMA Moved ==
    ASSUME TypeOK, NEW w \in Worker, NEW pc, Goto(w, pc) \/ \E d \in DeviceCode : Pick(w, d, pc)
    PROVE  req'[w].pc = pc
<1>1. CASE Goto(w, pc)
  BY <1>1 DEF Goto, TypeOK, Request
<1>2. ASSUME NEW d, Pick(w, d, pc) PROVE req'[w].pc = pc
  <2>1. req'[w] = [req[w] EXCEPT !.pc = pc, !.victim = d]
    BY <1>2 DEF Pick, TypeOK
  <2> QED BY <2>1 DEF TypeOK, Request
<1> QED BY <1>1, <1>2

\* How a request gets among the token calls and the bound calls.
LEMMA OwnerSteps ==
    ASSUME TypeOK, OwnerInv, NEW w \in Worker, Step(w), req'[w] # Idle
    PROVE  /\ req[w].pc # "idle"
           /\ req'[w].pc \in TokenCalls => req[w].pc \in TokenCalls
           /\ req'[w].pc \in BoundCalls => Bound(req[w].license, req[w].device)'
<1>1. ~Answer(w)
  BY DEF Answer, TypeOK
<1>2. CASE ActLicense(w) \/ VerLicense(w) \/ DeaLicense(w) \/ DeaDevice(w)
  BY <1>1, <1>2 DEF ActLicense, VerLicense, DeaLicense, DeaDevice, Check, At, GotoIf, Goto,
                    TokenCalls, BoundCalls, TypeOK, Request
<1>3. CASE ActDevice(w)
  BY <1>1, <1>3, BoundStays DEF ActDevice, At, GotoIf, Goto, Known, DeviceOfLicense, Bound, OwnerInv, RequestBound,
                    TokenCalls, BoundCalls, TypeOK, Request
<1>4. CASE ActTouch(w) \/ IssRevoke(w) \/ IssEnforce(w) \/ IssKick(w) \/ IssCreate(w)
  <2>1. Bound(req[w].license, req[w].device)
    BY <1>4 DEF ActTouch, IssRevoke, IssEnforce, IssKick, IssCreate, At, OwnerInv, RequestBound, BoundCalls
  <2>2. req'[w].license = req[w].license /\ req'[w].device = req[w].device
    BY StepFrame
  <2>3. req'[w].pc \in {"iss_revoke", "iss_enforce", "iss_kick", "iss_create", "act_stamp"}
    BY <1>1, <1>4, Moved DEF ActTouch, IssRevoke, IssEnforce, IssKick, IssCreate, GotoIf, Oldest, Holders
  <2>4. req[w].pc # "idle"
    BY <1>4 DEF ActTouch, IssRevoke, IssEnforce, IssKick, IssCreate, At
  <2> QED BY <2>1, <2>2, <2>3, <2>4, BoundStays DEF Bound, TokenCalls
<1>5. CASE ActCount(w) \/ ActOldest(w) \/ ActKick(w) \/ ActKickLeases(w) \/ ActStamp(w)
  <2>1. req'[w].pc \in {"act_create", "act_oldest", "act_kick", "act_kickLeases"}
    BY <1>1, <1>5, Moved DEF ActCount, ActOldest, ActKick, ActKickLeases, ActStamp, GotoIf, Oldest, ActiveDevices
  <2>2. req[w].pc # "idle"
    BY <1>5 DEF ActCount, ActOldest, ActKick, ActKickLeases, ActStamp, At
  <2> QED BY <2>1, <2>2 DEF TokenCalls, BoundCalls
<1>6. CASE ActCreate(w)
  BY <1>1, <1>6 DEF ActCreate, At, Goto, Known, Bound, OwnerInv, RequestBound,
                    TokenCalls, BoundCalls, TypeOK, Request, DeviceRow
<1>7. CASE ReadLease(w)
  <2>1. Token(w) /\ req[w].pc = "lease"
    BY <1>7 DEF ReadLease, At, OwnerInv, RequestBound, TokenCalls
  <2>2. req'[w].pc \in BoundCalls => leases[req[w].lease].device = req[w].device
    BY <1>1, <1>7 DEF ReadLease, Goto, BoundCalls, TypeOK, Request
  <2>3. Bound(leases[req[w].lease].license, leases[req[w].lease].device)
    BY <2>1 DEF Token, OwnerInv, LeasesBound
  <2>5. req'[w].pc \in BoundCalls => Bound(req[w].license, req[w].device)
    BY <2>1, <2>2, <2>3 DEF Token
  <2>6. UNCHANGED devices
    BY <1>7 DEF ReadLease, ReadOnly
  <2>7. req'[w].license = req[w].license /\ req'[w].device = req[w].device
    BY StepFrame
  <2> QED BY <2>1, <2>5, <2>6, <2>7 DEF Bound, TokenCalls
<1>8. CASE ExpireLease(w) \/ VerDevice(w) \/ VerOk(w) \/ DeaRemove(w) \/ DeaLeases(w)
  BY <1>1, <1>8 DEF ExpireLease, VerDevice, VerOk, DeaRemove, DeaLeases, At, Goto,
                    TokenCalls, BoundCalls, TypeOK, Request
<1>9. CASE HbLicense(w) \/ HbTouch(w) \/ HbRevoke(w)
  <2>1. req[w].pc \in TokenCalls \cap BoundCalls
    BY <1>9 DEF HbLicense, HbTouch, HbRevoke, At, TokenCalls, BoundCalls
  <2>2. Bound(req[w].license, req[w].device)
    BY <2>1 DEF OwnerInv, RequestBound
  <2>3. req'[w].license = req[w].license /\ req'[w].device = req[w].device
    BY StepFrame
  <2> QED BY <2>1, <2>2, <2>3, BoundStays DEF Bound, TokenCalls
<1> QED BY <1>2, <1>3, <1>4, <1>5, <1>6, <1>7, <1>8, <1>9 DEF Step

LEMMA OwnerStep ==
    ASSUME TypeOK, OwnerInv, NEW w \in Worker, Step(w)
    PROVE  OwnerInv'
<1>1. LeasesBound'
  <2> SUFFICES ASSUME NEW k \in LeaseId, leases'[k].status # "none"
               PROVE  Bound(leases[k].license, leases[k].device)'
    BY DEF LeasesBound
  <2>1. CASE leases[k].status # "none"
    <3>1. Bound(leases[k].license, leases[k].device)
      BY <2>1 DEF OwnerInv, LeasesBound
    <3>2. leases'[k].license = leases[k].license /\ leases'[k].device = leases[k].device
      BY <2>1, RowsStay
    <3> QED BY <3>1, <3>2, BoundStays DEF Bound
  <2>2. CASE leases[k].status = "none"
    <3>1. /\ IssCreate(w)
          /\ leases'[k].license = req[w].license /\ leases'[k].device = req[w].device
      BY <2>2, RowsStay
    <3>2. Bound(req[w].license, req[w].device) /\ UNCHANGED devices
      BY <3>1 DEF IssCreate, At, OwnerInv, RequestBound, BoundCalls
    <3> QED BY <3>1, <3>2 DEF Bound
  <2> QED BY <2>1, <2>2
<1>2. ASSUME NEW v \in Worker, Token(v), req'[v].lease = req[v].lease, req'[v].license = req[v].license
      PROVE  Token(v)'
  BY <1>2, RowsStay DEF Token
<1>3. ASSUME NEW v \in Worker, v # w PROVE RequestBound(v)'
  <2>1. req'[v] = req[v] /\ RequestBound(v)
    BY <1>3, StepFrame DEF OwnerInv
  <2> QED BY <1>2, <2>1, BoundStays DEF RequestBound, Bound
<1>4. RequestBound(w)'
  <2>1. CASE req'[w] = Idle
    BY <2>1 DEF RequestBound, Idle, TokenCalls, BoundCalls
  <2>2. CASE req'[w] # Idle
    <3>1. req'[w].lease = req[w].lease /\ req'[w].license = req[w].license /\ req'[w].device = req[w].device
      BY <2>2, StepFrame
    <3>2. /\ req[w].pc # "idle"
          /\ req'[w].pc \in TokenCalls => req[w].pc \in TokenCalls
          /\ req'[w].pc \in BoundCalls => Bound(req[w].license, req[w].device)'
      BY <2>2, OwnerSteps
    <3>3. RequestBound(w)
      BY DEF OwnerInv
    <3> QED BY <1>2, <3>1, <3>2, <3>3 DEF RequestBound
  <2> QED BY <2>1, <2>2
<1> QED BY <1>1, <1>3, <1>4 DEF OwnerInv

LEMMA OwnerArrive ==
    ASSUME TypeOK, OwnerInv, NEW w \in Worker, Arrive(w)
    PROVE  OwnerInv'
<1>1. ASSUME NEW op \in {"activate", "heartbeat", "verify", "deactivate"}, NEW l, NEW d \in DeviceCode, NEW k,
             Begin(w, op, l, d, k),
             op \in {"heartbeat", "verify"} => k \in Tokens /\ l = leases[k].license
      PROVE  OwnerInv'
  <2>1. UNCHANGED <<devices, leases>> /\ \A v \in Worker : v # w => req'[v] = req[v]
    BY <1>1 DEF Begin, ReadOnly, TypeOK
  <2>2. /\ req'[w].pc = FirstCall(op) /\ req'[w].license = l /\ req'[w].device = d /\ req'[w].lease = k
    BY <1>1 DEF Begin, TypeOK
  <2>3. FirstCall(op) \notin BoundCalls /\ (FirstCall(op) \in TokenCalls => op \in {"heartbeat", "verify"})
    BY DEF FirstCall, BoundCalls, TokenCalls
  <2>4. RequestBound(w)'
    BY <1>1, <2>1, <2>2, <2>3 DEF RequestBound, Token, Tokens
  <2>5. ASSUME NEW v \in Worker, v # w PROVE RequestBound(v)'
    BY <2>1, <2>5 DEF OwnerInv, RequestBound, Token, Bound
  <2>6. LeasesBound'
    BY <2>1 DEF OwnerInv, LeasesBound, Bound
  <2> QED BY <2>4, <2>5, <2>6 DEF OwnerInv
<1> QED BY <1>1 DEF Arrive, BeginActivate, BeginHeartbeat, BeginVerify, BeginDeactivate

\* Neither administrators nor failures nor the clock change whose a row is.
LEMMA OwnerElse ==
    ASSUME TypeOK, OwnerInv,
           \/ \E w \in Worker : Fail(w)
           \/ \E l \in License, s \in LicenseStatus : AdminSetLicense(l, s)
           \/ \E d \in DeviceCode, s \in DeviceStatus : AdminSetDevice(d, s)
           \/ Tick \/ UNCHANGED vars
    PROVE  OwnerInv'
<1>1. UNCHANGED leases
  BY DEF Fail, ReadOnly, AdminSetLicense, AdminSetDevice, Tick, vars
<1>2. ASSUME NEW l, NEW d, Bound(l, d) PROVE Bound(l, d)'
  BY <1>2 DEF Fail, ReadOnly, AdminSetLicense, AdminSetDevice, SetDeviceStatus, DeviceStatus, Tick, vars, Bound, TypeOK, DeviceRow
<1>3. ASSUME NEW w \in Worker
      PROVE  \/ req'[w] = Idle
             \/ /\ req'[w].pc = req[w].pc /\ req'[w].lease = req[w].lease
                /\ req'[w].license = req[w].license /\ req'[w].device = req[w].device
  <2>1. CASE \E v \in Worker : Fail(v)
    BY <2>1 DEF Fail, Answer, TypeOK
  <2>2. CASE \/ \E l \in License, s \in LicenseStatus : AdminSetLicense(l, s)
             \/ \E d \in DeviceCode, s \in DeviceStatus : AdminSetDevice(d, s)
    BY <2>2 DEF AdminSetLicense, AdminSetDevice, TypeOK, Request
  <2>3. CASE Tick \/ UNCHANGED vars
    BY <2>3 DEF Tick, vars
  <2> QED BY <2>1, <2>2, <2>3
<1>4. LeasesBound'
  BY <1>1, <1>2 DEF OwnerInv, LeasesBound, Bound
<1>5. ASSUME NEW w \in Worker PROVE RequestBound(w)'
  <2>1. CASE req'[w] = Idle
    BY <2>1 DEF RequestBound, Idle, TokenCalls, BoundCalls
  <2>2. CASE /\ req'[w].pc = req[w].pc /\ req'[w].lease = req[w].lease
             /\ req'[w].license = req[w].license /\ req'[w].device = req[w].device
    BY <1>1, <1>2, <2>2 DEF OwnerInv, RequestBound, Token, Bound
  <2> QED BY <1>3, <2>1, <2>2
<1> QED BY <1>4, <1>5 DEF OwnerInv

THEOREM OwnerInductive == Spec => []OwnerInv
<1>1. Init => OwnerInv
  BY DEF Init, NoLease, Idle, OwnerInv, LeasesBound, RequestBound, TokenCalls, BoundCalls
<1>2. TypeOK /\ OwnerInv /\ [Next]_vars => OwnerInv'
  BY OwnerStep, OwnerArrive, OwnerElse DEF Next
<1> QED BY <1>1, <1>2, TypeCorrect, PTL DEF Spec

\* A lease belongs to the licence its device is bound to, for any number of
\* licences, devices and overlapping requests.
THEOREM LeasesOwned == Spec => []LeaseOwner
<1>1. OwnerInv => LeaseOwner
  BY DEF OwnerInv, LeasesBound, Bound, LeaseOwner
<1> QED BY <1>1, OwnerInductive, PTL

-----------------------------------------------------------------------------
(* Devices that hold a lease, under deny_new *)

\* deny_new never looks for a holder to kick.
NoIssKick == \A w \in Worker : req[w].pc # "iss_kick"

\* The requests that passed enforceConcurrencyLimit for l and will create a lease.
CreatingFor(l) == {w \in Worker : req[w].pc = "iss_create" /\ req[w].license = l}

\* The inductive form of ConcurrencyLimit, as SeatsAndBinding is of DeviceLimit.
HoldersAndCreating ==
    \A l \in License :
        Cardinality(Holders(l)) + Cardinality(CreatingFor(l)) <= MaxConcurrency + granted[l] + Cardinality(Worker) - 1

LEMMA CreatingFinite ==
    ASSUME NEW l
    PROVE  /\ IsFiniteSet(Holders(l)) /\ Cardinality(Holders(l)) \in Nat
           /\ IsFiniteSet(CreatingFor(l)) /\ Cardinality(CreatingFor(l)) \in Nat
           /\ Cardinality(CreatingFor(l)) <= Cardinality(Worker)
           /\ Cardinality(Worker) \in Nat \ {0}
<1>1. Holders(l) \subseteq DeviceCode /\ CreatingFor(l) \subseteq Worker
  BY DEF Holders, CreatingFor
<1>2. Cardinality(Worker) \in Nat \ {0}
  BY WorkerAssumption, FS_CardinalityType, FS_EmptySet
<1> QED BY <1>1, <1>2, WorkerAssumption, RowAssumption, FS_Subset, FS_CardinalityType

LEMMA CreatingShrinks ==
    ASSUME NEW l, NEW n \in Int, Holders(l)' \subseteq Holders(l), CreatingFor(l)' \subseteq CreatingFor(l),
           Cardinality(Holders(l)) + Cardinality(CreatingFor(l)) <= n
    PROVE  Cardinality(Holders(l)') + Cardinality(CreatingFor(l)') <= n
<1>1. /\ Cardinality(Holders(l)') <= Cardinality(Holders(l))
      /\ Cardinality(CreatingFor(l)') <= Cardinality(CreatingFor(l))
      /\ Cardinality(Holders(l)') \in Nat /\ Cardinality(CreatingFor(l)') \in Nat
  BY CreatingFinite, FS_Subset, FS_CardinalityType
<1> QED BY <1>1, CreatingFinite

\* Under deny_new with a limit only IssEnforce lets a request among those about
\* to create a lease.
LEMMA CreatingCalm ==
    ASSUME TypeOK, BindingPolicy = "deny_new", MaxConcurrency > 0, NoIssKick, NEW w \in Worker, Step(w)
    PROVE  NoIssKick' /\ (~IssEnforce(w) => Calm({"iss_create"}))
<1> DEFINE C == {"iss_create"}
           K == {"iss_kick"}
<1>1. "idle" \notin C /\ "idle" \notin K
  OBVIOUS
<1>2. Calm(K) => NoIssKick'
  BY DEF Calm, NoIssKick
<1>3. CASE ActLicense(w) \/ ActDevice(w) \/ ActTouch(w) \/ ActCount(w) \/ ActOldest(w) \/ ActKick(w)
  BY <1>1, <1>2, <1>3, GotoCalm, GotoIfCalm, AnswerCalm, PickCalm
     DEF ActLicense, ActDevice, ActTouch, ActCount, ActOldest, ActKick, Check, Calls
<1>4. CASE ActKickLeases(w) \/ ActCreate(w) \/ ActStamp(w) \/ ReadLease(w) \/ ExpireLease(w)
  BY <1>1, <1>2, <1>4, GotoCalm, GotoIfCalm, AnswerCalm
     DEF ActKickLeases, ActCreate, ActStamp, ReadLease, ExpireLease, Calls
<1>5. CASE IssRevoke(w)
  <2>1. Goto(w, "iss_enforce")
    BY <1>5, LimitAssumption DEF IssRevoke
  <2> QED BY <1>1, <1>2, <2>1, GotoCalm DEF Calls
<1>6. CASE IssEnforce(w)
  <2>1. Calm(K)
    BY <1>1, <1>6, GotoCalm, AnswerCalm DEF IssEnforce, Calls
  <2> QED BY <1>2, <1>6, <2>1
<1>7. CASE IssKick(w)
  BY <1>7 DEF IssKick, At, NoIssKick
<1>8. CASE IssCreate(w)
  BY <1>1, <1>2, <1>8, GotoIfCalm DEF IssCreate, Calls
<1>9. CASE HbLicense(w) \/ HbTouch(w) \/ HbRevoke(w) \/ VerLicense(w) \/ VerDevice(w) \/ VerOk(w)
  BY <1>1, <1>2, <1>9, GotoCalm, GotoIfCalm, AnswerCalm
     DEF HbLicense, HbTouch, HbRevoke, VerLicense, VerDevice, VerOk, Check, Calls
<1>10. CASE DeaLicense(w) \/ DeaDevice(w) \/ DeaRemove(w) \/ DeaLeases(w)
  BY <1>1, <1>2, <1>10, GotoCalm, GotoIfCalm, AnswerCalm
     DEF DeaLicense, DeaDevice, DeaRemove, DeaLeases, Check, Calls
<1> QED BY <1>3, <1>4, <1>5, <1>6, <1>7, <1>8, <1>9, <1>10 DEF Step

\* Only IssCreate gives a device a lease to hold: a device bound anew has none.
LEMMA HoldersOnlyLeave ==
    ASSUME TypeOK, OwnerInv, NEW w \in Worker, Step(w), ~IssCreate(w), NEW l
    PROVE  Holders(l)' \subseteq Holders(l)
<1>1. \A d \in DeviceCode : LiveLeases(d)' \subseteq LiveLeases(d)
  BY LeasesOnlyEnd DEF LiveLeases
<1>2. \A k \in LeaseId : leases'[k].status = "active" => leases'[k] = leases[k]
  BY LeasesOnlyEnd
<1>3. ASSUME NEW d \in DeviceCode, NEW k \in LiveLeases(d) PROVE devices'[d].status = "active" => devices[d].status = "active"
  <2>1. Bound(leases[k].license, d)
    BY <1>3 DEF OwnerInv, LeasesBound, LiveLeases
  <2>2. CASE ActCreate(w)
    BY <2>1, <2>2 DEF ActCreate, Known, Bound, TypeOK
  <2>3. CASE ~ActCreate(w)
    BY <2>3, DevicesOnlyLeave
  <2> QED BY <2>2, <2>3
<1>4. now' = now
  BY StepFrame
<1> QED BY <1>1, <1>2, <1>3, <1>4 DEF Holders, LiveLeases

LEMMA CreatingStep ==
    ASSUME TypeOK, OwnerInv, BindingPolicy = "deny_new", MaxConcurrency > 0, NoIssKick, HoldersAndCreating,
           NEW w \in Worker, Step(w)
    PROVE  HoldersAndCreating'
<1> DEFINE Room(l) == MaxConcurrency + granted[l] + Cardinality(Worker) - 1
<1>0. UNCHANGED granted
  BY StepFrame
<1> SUFFICES ASSUME NEW l \in License
             PROVE  Cardinality(Holders(l)') + Cardinality(CreatingFor(l)') <= Room(l)
  BY <1>0 DEF HoldersAndCreating
<1>1. Cardinality(Holders(l)) + Cardinality(CreatingFor(l)) <= Room(l) /\ Room(l) \in Int /\ granted[l] \in Nat
  BY CreatingFinite, LimitAssumption, GrantAssumption DEF HoldersAndCreating, TypeOK
<1> HIDE DEF Room
<1>2. ASSUME ~IssEnforce(w) PROVE CreatingFor(l)' \subseteq CreatingFor(l)
  BY <1>2, CreatingCalm DEF Calm, CreatingFor
<1>3. CASE IssEnforce(w)
  <2>1. Holders(l)' \subseteq Holders(l)
    BY <1>3, HoldersOnlyLeave DEF IssEnforce, IssCreate, At
  <2>2. CASE req[w].license = l /\ ~LeasesFull(l)
    <3>1. Cardinality(CreatingFor(l)') <= Cardinality(Worker) /\ Cardinality(CreatingFor(l)') \in Nat
      <4>1. CreatingFor(l)' \subseteq Worker
        BY DEF CreatingFor
      <4> QED BY <4>1, WorkerAssumption, FS_Subset, FS_CardinalityType
    <3>2. Cardinality(Holders(l)) <= MaxConcurrency - 1
      BY <2>2, CreatingFinite, LimitAssumption DEF LeasesFull
    <3>3. Cardinality(Holders(l)') <= Cardinality(Holders(l)) /\ Cardinality(Holders(l)') \in Nat
      BY <2>1, CreatingFinite, FS_Subset, FS_CardinalityType
    <3> QED BY <1>1, <3>1, <3>2, <3>3, CreatingFinite, LimitAssumption DEF Room
  <2>3. CASE ~(req[w].license = l /\ ~LeasesFull(l))
    <3>1. CreatingFor(l)' \subseteq CreatingFor(l)
      BY <1>3, <2>3 DEF IssEnforce, Goto, Answer, Idle, CreatingFor, TypeOK, Request
    <3> QED BY <1>1, <2>1, <3>1, CreatingShrinks
  <2> QED BY <2>2, <2>3
<1>4. CASE IssCreate(w)
  <2>1. CreatingFor(l)' \subseteq CreatingFor(l)
    BY <1>2, <1>4 DEF IssEnforce, IssCreate, At
  <2>2. PICK k \in LeaseId :
           /\ leases[k].status = "none"
           /\ leases' = [leases EXCEPT ![k] = [status |-> "active", license |-> req[w].license,
                                              device |-> req[w].device, expireAt |-> now + LeaseTtl]]
    BY <1>4 DEF IssCreate
  <2>3. leases'[k].license = req[w].license /\ leases'[k].device = req[w].device
    BY <2>2 DEF TypeOK
  <2>4. \A i \in LeaseId : i # k => leases'[i] = leases[i]
    BY <2>2 DEF TypeOK
  <2>5. UNCHANGED <<devices, now>>
    BY <1>4 DEF IssCreate
  <2>6. CASE req[w].license = l
    <3>1. Holders(l)' \subseteq Holders(l) \union {req[w].device}
      BY <2>3, <2>4, <2>5 DEF Holders, LiveLeases
    <3>2. Cardinality(Holders(l)') <= Cardinality(Holders(l)) + 1 /\ Cardinality(Holders(l)') \in Nat
      BY <3>1, CreatingFinite, OneMore
    <3>3. w \in CreatingFor(l) /\ w \notin CreatingFor(l)'
      BY <1>4, <2>6 DEF IssCreate, At, GotoIf, Goto, Answer, Idle, CreatingFor, TypeOK, Request
    <3>4. CreatingFor(l)' \subseteq CreatingFor(l) \ {w}
      BY <2>1, <3>3
    <3>5. Cardinality(CreatingFor(l)') <= Cardinality(CreatingFor(l)) - 1 /\ Cardinality(CreatingFor(l)') \in Nat
      BY <3>3, <3>4, CreatingFinite, OneLess
    <3> QED BY <1>1, <3>2, <3>5, CreatingFinite
  <2>7. CASE req[w].license # l
    <3>1. Holders(l)' \subseteq Holders(l)
      BY <2>3, <2>4, <2>5, <2>7 DEF Holders, LiveLeases
    <3> QED BY <1>1, <2>1, <3>1, CreatingShrinks
  <2> QED BY <2>6, <2>7
<1>5. CASE ~IssEnforce(w) /\ ~IssCreate(w)
  BY <1>1, <1>2, <1>5, HoldersOnlyLeave, CreatingShrinks
<1> QED BY <1>3, <1>4, <1>5

\* A device given back holds the leases it still has, under its own licence.
LEMMA GiveBackStep ==
    ASSUME TypeOK, OwnerInv, HoldersAndCreating, NEW d \in DeviceCode, NEW s \in DeviceStatus, AdminSetDevice(d, s)
    PROVE  HoldersAndCreating'
<1> SUFFICES ASSUME NEW l \in License
             PROVE  Cardinality(Holders(l)') + Cardinality(CreatingFor(l)')
                      <= MaxConcurrency + granted'[l] + Cardinality(Worker) - 1
  BY DEF HoldersAndCreating
<1>1. /\ Cardinality(Holders(l)) + Cardinality(CreatingFor(l)) <= MaxConcurrency + granted[l] + Cardinality(Worker) - 1
      /\ granted[l] \in Nat /\ MaxConcurrency + granted[l] + Cardinality(Worker) - 1 \in Int
  BY CreatingFinite, LimitAssumption, GrantAssumption DEF HoldersAndCreating, TypeOK
<1>2. Calm({"iss_create"})
  BY AdminCalm
<1>3. CreatingFor(l)' \subseteq CreatingFor(l)
  BY <1>2 DEF Calm, CreatingFor
<1>4. UNCHANGED <<leases, now>>
  BY DEF AdminSetDevice
<1>5. CASE s = "active" /\ devices[d].license = l
  <2>1. granted'[l] = granted[l] + 1
    BY <1>5 DEF AdminSetDevice, TypeOK
  <2>2. Holders(l)' \subseteq Holders(l) \union {d}
    BY <1>4 DEF AdminSetDevice, SetDeviceStatus, Holders, LiveLeases, TypeOK, DeviceRow
  <2>3. Cardinality(Holders(l)') <= Cardinality(Holders(l)) + 1 /\ Cardinality(Holders(l)') \in Nat
    BY <2>2, CreatingFinite, OneMore
  <2>4. Cardinality(CreatingFor(l)') <= Cardinality(CreatingFor(l)) /\ Cardinality(CreatingFor(l)') \in Nat
    BY <1>3, CreatingFinite, FS_Subset, FS_CardinalityType
  <2> QED BY <1>1, <2>1, <2>3, <2>4, CreatingFinite, LimitAssumption
<1>6. CASE ~(s = "active" /\ devices[d].license = l)
  <2>1. \A k \in LiveLeases(d) : leases[k].license = devices[d].license
    BY DEF OwnerInv, LeasesBound, Bound, LiveLeases
  <2>2. Holders(l)' \subseteq Holders(l)
    BY <1>4, <1>6, <2>1 DEF AdminSetDevice, SetDeviceStatus, Holders, LiveLeases, TypeOK, DeviceRow
  <2>3. granted'[l] = granted[l]
    BY <1>6 DEF AdminSetDevice, TypeOK
  <2> QED BY <1>1, <1>3, <2>2, <2>3, CreatingShrinks
<1> QED BY <1>5, <1>6

\* Under deny_new the devices of a licence that hold a lease exceed the
\* concurrency limit by at most the other requests in flight and the devices
\* administrators gave back.
THEOREM ConcurrencyDenyNew ==
    ASSUME BindingPolicy = "deny_new", MaxConcurrency > 0
    PROVE  Spec => []ConcurrencyLimit
<1> DEFINE Inv == NoIssKick /\ HoldersAndCreating
<1>1. Init => Inv
  <2> SUFFICES ASSUME Init PROVE Inv
    OBVIOUS
  <2>1. NoIssKick
    BY DEF Init, NoIssKick, Idle
  <2>2. ASSUME NEW l \in License
        PROVE  Cardinality(Holders(l)) + Cardinality(CreatingFor(l)) <= MaxConcurrency + granted[l] + Cardinality(Worker) - 1
    <3>1. Holders(l) = {} /\ CreatingFor(l) = {} /\ granted[l] = 0
      BY <2>1 DEF Init, NoDevice, Idle, Holders, CreatingFor
    <3> QED BY <3>1, FS_EmptySet, CreatingFinite, LimitAssumption
  <2> QED BY <2>1, <2>2 DEF HoldersAndCreating
<1>2. TypeOK /\ OwnerInv /\ Inv /\ [Next]_vars => Inv'
  <2> SUFFICES ASSUME TypeOK, OwnerInv, Inv, [Next]_vars PROVE Inv'
    OBVIOUS
  <2>1. ASSUME Calm({"iss_kick"}) PROVE NoIssKick'
    BY <2>1 DEF Calm, NoIssKick
  <2>2. ASSUME UNCHANGED granted, Calm({"iss_create"}), \A l \in License : Holders(l)' \subseteq Holders(l)
        PROVE  HoldersAndCreating'
    <3> SUFFICES ASSUME NEW l \in License
                 PROVE  Cardinality(Holders(l)') + Cardinality(CreatingFor(l)')
                          <= MaxConcurrency + granted[l] + Cardinality(Worker) - 1
      BY <2>2 DEF HoldersAndCreating
    <3>1. CreatingFor(l)' \subseteq CreatingFor(l)
      BY <2>2 DEF CreatingFor, Calm
    <3>2. MaxConcurrency + granted[l] + Cardinality(Worker) - 1 \in Int
      <4>1. granted[l] \in Nat
        BY GrantAssumption DEF TypeOK
      <4>2. Cardinality(Worker) \in Nat
        BY CreatingFinite
      <4> QED BY <4>1, <4>2, LimitAssumption
    <3> QED BY <2>2, <3>1, <3>2, CreatingShrinks DEF HoldersAndCreating
  <2>3. CASE \E w \in Worker : Step(w)
    BY <2>3, CreatingStep, CreatingCalm
  <2>4. CASE \E w \in Worker : Arrive(w)
    <3>1. Calm({"iss_kick"}) /\ Calm({"iss_create"})
      BY <2>4, ArriveCalm
    <3>2. UNCHANGED <<devices, leases, now, granted>>
      BY <2>4 DEF Arrive, BeginActivate, BeginHeartbeat, BeginVerify, BeginDeactivate, Begin, ReadOnly
    <3> QED BY <2>1, <2>2, <3>1, <3>2 DEF Holders, LiveLeases
  <2>5. CASE \E w \in Worker : Fail(w)
    BY <2>1, <2>2, <2>5, AnswerCalm DEF Fail, ReadOnly, Holders, LiveLeases
  <2>6. CASE \E l \in License, s \in LicenseStatus : AdminSetLicense(l, s)
    <3>1. Calm({"iss_kick"}) /\ Calm({"iss_create"})
      BY <2>6, AdminCalm
    <3>2. UNCHANGED <<devices, leases, now, granted>>
      BY <2>6 DEF AdminSetLicense
    <3> QED BY <2>1, <2>2, <3>1, <3>2 DEF Holders, LiveLeases
  <2>7. CASE \E d \in DeviceCode, s \in DeviceStatus : AdminSetDevice(d, s)
    BY <2>1, <2>7, AdminCalm, GiveBackStep
  <2>8. CASE Tick \/ UNCHANGED vars
    <3>1. \A l \in License : Holders(l)' \subseteq Holders(l)
      BY <2>8, TimeAssumption DEF Tick, vars, Holders, LiveLeases, TypeOK, LeaseRow
    <3> QED BY <2>1, <2>2, <2>8, <3>1 DEF Tick, vars, Calm
  <2> QED BY <2>3, <2>4, <2>5, <2>6, <2>7, <2>8 DEF Next
<1>3. TypeOK /\ Inv => ConcurrencyLimit
  BY CreatingFinite, LimitAssumption, GrantAssumption DEF HoldersAndCreating, ConcurrencyLimit, TypeOK
<1> QED BY <1>1, <1>2, <1>3, TypeCorrect, OwnerInductive, PTL DEF Spec

-----------------------------------------------------------------------------
(* Kicks of a server that works on one request at a time *)

\* The calls of getOrCreateDevice for a device code without a row.
SeatCalls == {"act_count", "act_oldest", "act_kick", "act_kickLeases", "act_create"}

\* The inductive form of KickGivesSeat: the device has no row from the first of
\* these calls on, and the device to kick has one.
SeatInv ==
    \A w \in Worker : req[w].pc \in SeatCalls =>
        /\ devices[req[w].device].status = "none"
        /\ req[w].pc = "act_kick" => devices[req[w].victim].status # "none"

\* How a request gets among the seat calls.
LEMMA SeatSteps ==
    ASSUME TypeOK, SeatInv, NEW w \in Worker, Step(w), req'[w].pc \in SeatCalls
    PROVE  /\ devices'[req[w].device].status = "none"
           /\ req'[w].pc = "act_kick" => devices'[req'[w].victim].status # "none"
<1>1. ~Answer(w)
  BY DEF Answer, Idle, SeatCalls, TypeOK
<1>2. CASE ActDevice(w)
  BY <1>1, <1>2, Moved DEF ActDevice, GotoIf, ReadOnly, Known, SeatCalls
<1>3. CASE ActCount(w)
  BY <1>1, <1>3, Moved DEF ActCount, At, GotoIf, ReadOnly, SeatInv, SeatCalls
<1>4. CASE ActOldest(w)
  <2>1. PICK d \in ActiveDevices(req[w].license) : Pick(w, d, "act_kick")
    BY <1>1, <1>4 DEF ActOldest, Oldest
  <2>2. req'[w].victim = d
    <3>1. req'[w] = [req[w] EXCEPT !.pc = "act_kick", !.victim = d]
      BY <2>1 DEF Pick, TypeOK
    <3> QED BY <3>1 DEF TypeOK, Request
  <2>3. devices[d].status = "active"
    BY <2>1 DEF ActiveDevices
  <2> QED BY <1>4, <2>2, <2>3 DEF ActOldest, At, ReadOnly, SeatInv, SeatCalls
<1>5. CASE ActKick(w)
  <2>1. devices[req[w].device].status = "none" /\ devices[req[w].victim].status # "none"
    BY <1>5 DEF ActKick, At, SeatInv, SeatCalls
  <2>2. devices'[req[w].device] = devices[req[w].device]
    BY <1>5, <2>1 DEF ActKick, SetDeviceStatus, TypeOK
  <2> QED BY <1>5, <2>1, <2>2, Moved DEF ActKick
<1>6. CASE ActKickLeases(w)
  BY <1>6, Moved DEF ActKickLeases, At, SeatInv, SeatCalls
<1>7. CASE ~(ActDevice(w) \/ ActCount(w) \/ ActOldest(w) \/ ActKick(w) \/ ActKickLeases(w))
  <2>1. Calm(SeatCalls)
    <3>1. "idle" \notin SeatCalls
      BY DEF SeatCalls
    <3>2. CASE ActLicense(w) \/ ActTouch(w) \/ ActCreate(w) \/ ActStamp(w) \/ ReadLease(w) \/ ExpireLease(w)
      BY <3>1, <3>2, GotoCalm, GotoIfCalm, AnswerCalm
         DEF ActLicense, ActTouch, ActCreate, ActStamp, ReadLease, ExpireLease, Check, SeatCalls, Calls
    <3>3. CASE IssRevoke(w) \/ IssEnforce(w) \/ IssKick(w) \/ IssCreate(w)
      BY <3>1, <3>3, GotoCalm, GotoIfCalm, AnswerCalm, PickCalm
         DEF IssRevoke, IssEnforce, IssKick, IssCreate, SeatCalls, Calls
    <3>4. CASE HbLicense(w) \/ HbTouch(w) \/ HbRevoke(w) \/ VerLicense(w) \/ VerDevice(w) \/ VerOk(w)
      BY <3>1, <3>4, GotoCalm, GotoIfCalm, AnswerCalm
         DEF HbLicense, HbTouch, HbRevoke, VerLicense, VerDevice, VerOk, Check, SeatCalls, Calls
    <3>5. CASE DeaLicense(w) \/ DeaDevice(w) \/ DeaRemove(w) \/ DeaLeases(w)
      BY <3>1, <3>5, GotoCalm, GotoIfCalm, AnswerCalm
         DEF DeaLicense, DeaDevice, DeaRemove, DeaLeases, Check, SeatCalls, Calls
    <3> QED BY <1>7, <3>2, <3>3, <3>4, <3>5 DEF Step
  <2>2. ~(ActTouch(w) \/ ActCreate(w) \/ IssRevoke(w) \/ IssEnforce(w) \/ IssKick(w) \/ IssCreate(w))
    BY <1>1, Moved DEF ActTouch, ActCreate, IssRevoke, IssEnforce, IssKick, IssCreate, GotoIf, SeatCalls, Oldest, Holders
  <2>3. req[w].pc \in SeatCalls
    BY <2>1 DEF Calm
  <2>4. FALSE
    BY <1>7, <2>2, <2>3
       DEF Step, At, Check, ActLicense, ActStamp, ReadLease, ExpireLease, HbLicense, HbTouch, HbRevoke,
           VerLicense, VerDevice, VerOk, DeaLicense, DeaDevice, DeaRemove, DeaLeases, SeatCalls
  <2> QED BY <2>4
<1> QED BY <1>2, <1>3, <1>4, <1>5, <1>6, <1>7

\* When requests do not overlap, a device is only kicked for a device that then
\* gets its seat, whatever administrators do meanwhile.
THEOREM KicksGiveSeats == Spec => []KickGivesSeat
<1>1. CASE Cardinality(Worker) # 1
  <2>1. KickGivesSeat
    BY <1>1 DEF KickGivesSeat
  <2> QED BY <2>1, PTL
<1>2. CASE Cardinality(Worker) = 1
  <2>1. PICK u : Worker = {u}
    BY <1>2, WorkerAssumption, FS_Singleton
  <2>2. Init => SeatInv
    BY DEF Init, Idle, SeatInv, SeatCalls
  <2>3. TypeOK /\ SeatInv /\ [Next]_vars => SeatInv'
    <3> SUFFICES ASSUME TypeOK, SeatInv, [Next]_vars PROVE SeatInv'
      OBVIOUS
    <3>1. ASSUME NEW w \in Worker, Step(w) PROVE SeatInv'
      <4>1. \A v \in Worker : v = w
        BY <2>1
      <4>2. req'[w].pc \in SeatCalls => req'[w].device = req[w].device
        BY <3>1, StepFrame DEF Idle, SeatCalls
      <4> QED BY <3>1, <4>1, <4>2, SeatSteps DEF SeatInv
    <3>2. ASSUME UNCHANGED devices, \A w \in Worker : req'[w].pc \in SeatCalls => req'[w] = req[w] PROVE SeatInv'
      BY <3>2 DEF SeatInv
    <3>3. ASSUME NEW w \in Worker, Arrive(w) PROVE SeatInv'
      <4>1. ASSUME NEW op \in {"activate", "heartbeat", "verify", "deactivate"}, NEW l, NEW d, NEW k, Begin(w, op, l, d, k)
            PROVE  SeatInv'
        <5>1. req'[w].pc = FirstCall(op) /\ FirstCall(op) \notin SeatCalls /\ UNCHANGED devices
          BY <4>1 DEF Begin, ReadOnly, FirstCall, SeatCalls, TypeOK
        <5> QED BY <2>1, <5>1 DEF SeatInv
      <4> QED BY <3>3, <4>1 DEF Arrive, BeginActivate, BeginHeartbeat, BeginVerify, BeginDeactivate
    <3>4. ASSUME NEW w \in Worker, Fail(w) PROVE SeatInv'
      BY <2>1, <3>4 DEF Fail, Answer, Idle, ReadOnly, SeatInv, SeatCalls, TypeOK
    <3>5. ASSUME NEW l \in License, NEW s \in LicenseStatus, AdminSetLicense(l, s) PROVE SeatInv'
      <4>1. \A w \in Worker : /\ req'[w].pc = req[w].pc
                               /\ req'[w].device = req[w].device /\ req'[w].victim = req[w].victim
        BY <3>5 DEF AdminSetLicense, TypeOK, Request
      <4> QED BY <3>5, <4>1 DEF AdminSetLicense, SeatInv
    <3>6. ASSUME NEW d \in DeviceCode, NEW s \in DeviceStatus, AdminSetDevice(d, s) PROVE SeatInv'
      <4>1. \A w \in Worker : /\ req'[w].pc = req[w].pc
                               /\ req'[w].device = req[w].device /\ req'[w].victim = req[w].victim
        BY <3>6 DEF AdminSetDevice, TypeOK, Request
      <4>2. devices[d].status # "none" /\ s # "none" /\ devices' = [devices EXCEPT ![d].status = s]
        BY <3>6 DEF AdminSetDevice, SetDeviceStatus, DeviceStatus
      <4>3. ASSUME NEW c, devices[c].status = "none" PROVE devices'[c] = devices[c]
        BY <4>2, <4>3 DEF TypeOK
      <4>4. devices'[d].status # "none"
        BY <4>2 DEF TypeOK, DeviceRow
      <4>5. ASSUME NEW c, devices[c].status # "none" PROVE devices'[c].status # "none"
        BY <4>2, <4>4, <4>5 DEF TypeOK
      <4> QED BY <4>1, <4>3, <4>5 DEF SeatInv
    <3>7. CASE Tick \/ UNCHANGED vars
      BY <3>7 DEF Tick, vars, SeatInv
    <3> QED BY <3>1, <3>3, <3>4, <3>5, <3>6, <3>7 DEF Next
  <2>4. SeatInv => KickGivesSeat
    BY DEF SeatInv, SeatCalls, KickGivesSeat
  <2> QED BY <2>2, <2>3, <2>4, TypeCorrect, PTL DEF Spec
<1> QED BY <1>1, <1>2

\* No request that arrived after its licence became unusable passes the licence
\* check; none but a heartbeat that arrived after its device was removed passes
\* the device check.
THEOREM NoLateServed == Spec => []NoLateService
  BY LateRequestsRefused, PTL DEF NoLateService

-----------------------------------------------------------------------------
(* Leases end for good *)

\* A lease row that is revoked or expired is not touched again, or revoked once more.
LEMMA DeadStep ==
    ASSUME TypeOK, [Next]_vars, NEW k \in LeaseId, leases[k].status \in {"expired", "revoked"}
    PROVE  leases'[k].status \in {"expired", "revoked"}
<1>1. ASSUME NEW w \in Worker, Step(w) PROVE leases'[k].status \in {"expired", "revoked"}
  <2>1. CASE UNCHANGED leases
    BY <2>1
  <2>2. CASE ActKickLeases(w) \/ IssRevoke(w) \/ IssKick(w) \/ DeaLeases(w)
    BY <2>2 DEF ActKickLeases, IssRevoke, IssKick, DeaLeases, RevokedFor, LiveLeases
  <2>3. CASE ExpireLease(w) \/ HbRevoke(w)
    BY <2>3 DEF ExpireLease, HbRevoke, SetLeaseStatus, TypeOK, LeaseRow
  <2>4. CASE IssCreate(w)
    BY <2>4 DEF IssCreate, TypeOK
  <2> QED BY <1>1, <2>1, <2>2, <2>3, <2>4
          DEF Step, Check, ReadOnly, ActLicense, ActDevice, ActTouch, ActCount, ActOldest, ActKick, ActCreate, ActStamp,
              IssEnforce, ReadLease, HbLicense, HbTouch, VerLicense, VerDevice, VerOk, DeaLicense, DeaDevice, DeaRemove
<1>2. CASE ~\E w \in Worker : Step(w)
  BY <1>2 DEF Next, vars, Arrive, BeginActivate, BeginHeartbeat, BeginVerify, BeginDeactivate, Begin, ReadOnly,
              Fail, AdminSetLicense, AdminSetDevice, Tick
<1> QED BY <1>1, <1>2

\* A revoked or expired lease is never active again: no handler writes back the
\* row it read, and a creation takes a row of its own.
THEOREM DeadLeasesStayDead == Spec => DeadLeaseStaysDead
<1>1. TypeOK /\ [Next]_vars =>
         [\A k \in LeaseId : leases[k].status \in {"expired", "revoked"} =>
             leases'[k].status \in {"expired", "revoked"}]_vars
  BY DeadStep
<1> QED BY <1>1, TypeCorrect, PTL DEF Spec, DeadLeaseStaysDead

-----------------------------------------------------------------------------
(* Who owns what *)

\* A device row belongs to a licence, and no row to none; a request under way
\* names a licence, and the device it is about to remove has a row.
Owned ==
    /\ \A d \in DeviceCode : IF devices[d].status = "none" THEN devices[d].license = None
                                                           ELSE devices[d].license \in License
    /\ \A w \in Worker :
          /\ req[w].pc # "idle" => req[w].license \in License
          /\ req[w].pc = "act_kick" => devices[req[w].victim].status # "none"
          /\ req[w].pc = "dea_remove" => devices[req[w].device].status # "none"

\* No handler deletes a device row, or gives it to another licence.
LEMMA DeviceRowsStay ==
    ASSUME TypeOK, Owned, NEW w \in Worker, Step(w), NEW d
    PROVE  /\ devices[d].status # "none" => devices'[d].status # "none"
           /\ d \in DeviceCode => IF devices'[d].status = "none" THEN devices'[d].license = None
                                                                 ELSE devices'[d].license \in License
<1>1. CASE UNCHANGED devices
  BY <1>1 DEF Owned
<1>2. CASE ActCreate(w)
  <2>1. req[w].license \in License
    BY <1>2 DEF ActCreate, At, Owned
  <2>2. CASE UNCHANGED devices
    BY <2>2 DEF Owned
  <2>3. CASE /\ devices[req[w].device].status = "none"
             /\ devices' = [devices EXCEPT ![req[w].device] =
                              [status |-> "active", license |-> req[w].license, lastSeen |-> now]]
    <3>1. CASE d = req[w].device /\ d \in DeviceCode
      BY <2>1, <2>3, <3>1 DEF TypeOK
    <3>2. CASE d # req[w].device \/ d \notin DeviceCode
      BY <2>3, <3>2 DEF Owned, TypeOK
    <3> QED BY <3>1, <3>2
  <2> QED BY <1>2, <2>2, <2>3 DEF ActCreate, Known
<1>3. CASE ActTouch(w) \/ HbTouch(w)
  <2>1. devices' = [devices EXCEPT ![req[w].device].lastSeen = now]
    BY <1>3 DEF ActTouch, HbTouch, SetLastSeen
  <2>2. (devices'[d].status = devices[d].status /\ devices'[d].license = devices[d].license) \/ devices'[d] = devices[d]
    BY <2>1 DEF TypeOK, DeviceRow
  <2> QED BY <2>2 DEF Owned
<1>4. ASSUME NEW c, SetDeviceStatus(c, "removed"), devices[c].status # "none"
      PROVE  /\ devices[d].status # "none" => devices'[d].status # "none"
             /\ d \in DeviceCode => IF devices'[d].status = "none" THEN devices'[d].license = None
                                                                   ELSE devices'[d].license \in License
  BY <1>4 DEF SetDeviceStatus, Owned, TypeOK, DeviceRow
<1>5. CASE ActKick(w) \/ DeaRemove(w)
  BY <1>4, <1>5 DEF ActKick, DeaRemove, At, Owned
<1> QED BY <1>1, <1>2, <1>3, <1>5
        DEF Step, Check, ReadOnly, ActLicense, ActDevice, ActCount, ActOldest, ActKickLeases, ActStamp,
            IssRevoke, IssEnforce, IssKick, IssCreate, ReadLease, ExpireLease, HbLicense, HbRevoke,
            VerLicense, VerDevice, VerOk, DeaLicense, DeaDevice, DeaLeases

\* A request gets to the removal of a device only from the call that found it.
LEMMA RemovalEntry ==
    ASSUME TypeOK, NEW w \in Worker, Step(w), ~ActOldest(w), ~DeaDevice(w)
    PROVE  req'[w].pc \notin {"act_kick", "dea_remove"}
<1> DEFINE C == {"act_kick", "dea_remove"}
<1>1. "idle" \notin C
  OBVIOUS
<1>2. CASE ActLicense(w) \/ ActDevice(w) \/ ActTouch(w) \/ ActCount(w) \/ ActKick(w) \/ ActKickLeases(w)
  BY <1>2, Moved DEF ActLicense, ActDevice, ActTouch, ActCount, ActKick, ActKickLeases, Check, GotoIf, Answer, Idle, TypeOK
<1>3. CASE ActCreate(w) \/ ActStamp(w) \/ IssRevoke(w) \/ IssEnforce(w) \/ IssKick(w) \/ IssCreate(w)
  <2>1. Answer(w) => req'[w].pc = "idle"
    BY DEF Answer, Idle, TypeOK
  <2> QED BY <1>3, <2>1, Moved DEF ActCreate, ActStamp, IssRevoke, IssEnforce, IssKick, IssCreate, GotoIf, Oldest, Holders
<1>4. CASE ReadLease(w) \/ ExpireLease(w) \/ HbLicense(w) \/ HbTouch(w) \/ HbRevoke(w)
  BY <1>4, Moved DEF ReadLease, ExpireLease, HbLicense, HbTouch, HbRevoke, GotoIf, Answer, Idle, TypeOK
<1>5. CASE VerLicense(w) \/ VerDevice(w) \/ VerOk(w) \/ DeaLicense(w) \/ DeaRemove(w) \/ DeaLeases(w)
  BY <1>5, Moved DEF VerLicense, VerDevice, VerOk, DeaLicense, DeaRemove, DeaLeases, Check, GotoIf, Answer, Idle, TypeOK
<1> QED BY <1>2, <1>3, <1>4, <1>5 DEF Step

LEMMA OwnedStep ==
    ASSUME TypeOK, OwnerInv, Owned, NEW w \in Worker, Step(w)
    PROVE  Owned'
<1>1. ASSUME NEW v \in Worker, v # w
      PROVE  /\ req'[v] = req[v]
             /\ req'[v].pc = "act_kick" => devices'[req'[v].victim].status # "none"
             /\ req'[v].pc = "dea_remove" => devices'[req'[v].device].status # "none"
  BY <1>1, StepFrame, DeviceRowsStay DEF Owned
<1>2. ASSUME req'[w].pc # "idle" PROVE req'[w].license \in License
  <2>1. req'[w] # Idle
    BY <1>2 DEF Idle
  <2> QED BY <2>1, StepFrame, OwnerSteps DEF Owned
<1>3. CASE ActOldest(w)
  <2>1. UNCHANGED devices /\ (Answer(w) \/ \E d \in ActiveDevices(req[w].license) : Pick(w, d, "act_kick"))
    BY <1>3 DEF ActOldest, ReadOnly, Oldest
  <2>2. CASE Answer(w)
    BY <1>1, <1>2, <2>1, <2>2, DeviceRowsStay DEF Answer, Idle, Owned, TypeOK
  <2>3. ASSUME NEW d \in ActiveDevices(req[w].license), Pick(w, d, "act_kick") PROVE Owned'
    <3>1. req'[w] = [req[w] EXCEPT !.pc = "act_kick", !.victim = d]
      BY <2>3 DEF Pick, TypeOK
    <3>2. req'[w].pc = "act_kick" /\ req'[w].victim = d
      BY <3>1 DEF TypeOK, Request
    <3>3. devices'[d].status # "none"
      BY <2>1, <2>3 DEF ActiveDevices
    <3> QED BY <1>1, <1>2, <3>2, <3>3, DeviceRowsStay DEF Owned
  <2> QED BY <2>1, <2>2, <2>3
<1>4. CASE DeaDevice(w)
  <2>1. UNCHANGED devices
    BY <1>4 DEF DeaDevice, Check, ReadOnly
  <2>4. Answer(w) \/ (DeviceActive(w) /\ Goto(w, "dea_remove"))
    BY <1>4 DEF DeaDevice, Check, GotoIf
  <2>2. CASE Answer(w)
    BY <1>1, <1>2, <2>1, <2>2, DeviceRowsStay DEF Answer, Idle, Owned, TypeOK
  <2>3. CASE DeviceActive(w) /\ Goto(w, "dea_remove")
    <3>1. req'[w].pc = "dea_remove" /\ req'[w].device = req[w].device
      BY <2>3 DEF Goto, TypeOK, Request
    <3> QED BY <1>1, <1>2, <2>1, <2>3, <3>1, DeviceRowsStay DEF Owned, DeviceActive
  <2> QED BY <2>2, <2>3, <2>4
<1>5. CASE ~ActOldest(w) /\ ~DeaDevice(w)
  BY <1>1, <1>2, <1>5, RemovalEntry, DeviceRowsStay DEF Owned
<1> QED BY <1>3, <1>4, <1>5

LEMMA OwnedElse ==
    ASSUME TypeOK, OwnerInv, Owned, [Next]_vars, ~\E w \in Worker : Step(w)
    PROVE  Owned'
<1>1. ASSUME NEW w \in Worker, Arrive(w) PROVE Owned'
  <2>1. ASSUME NEW op \in {"activate", "heartbeat", "verify", "deactivate"}, NEW l \in License, NEW d, NEW k, Begin(w, op, l, d, k)
        PROVE  Owned'
    <3>1. UNCHANGED devices /\ \A v \in Worker : v # w => req'[v] = req[v]
      BY <2>1 DEF Begin, ReadOnly, TypeOK
    <3>2. req'[w].pc = FirstCall(op) /\ req'[w].license = l
      BY <2>1 DEF Begin, TypeOK
    <3> QED BY <3>1, <3>2 DEF FirstCall, Owned
  <2>2. \A k \in Tokens : leases[k].license \in License
    BY DEF Tokens, OwnerInv, LeasesBound, Bound, Owned
  <2> QED BY <1>1, <2>1, <2>2 DEF Arrive, BeginActivate, BeginHeartbeat, BeginVerify, BeginDeactivate
<1>2. ASSUME NEW w \in Worker, Fail(w) PROVE Owned'
  BY <1>2 DEF Fail, Answer, Idle, ReadOnly, Owned, TypeOK
<1>3. ASSUME NEW l \in License, NEW s \in LicenseStatus, AdminSetLicense(l, s) PROVE Owned'
  <2>1. \A w \in Worker : /\ req'[w].pc = req[w].pc /\ req'[w].license = req[w].license
                          /\ req'[w].device = req[w].device /\ req'[w].victim = req[w].victim
    BY <1>3 DEF AdminSetLicense, TypeOK, Request
  <2> QED BY <1>3, <2>1 DEF AdminSetLicense, Owned
<1>4. ASSUME NEW d \in DeviceCode, NEW s \in DeviceStatus, AdminSetDevice(d, s) PROVE Owned'
  <2>1. \A w \in Worker : /\ req'[w].pc = req[w].pc /\ req'[w].license = req[w].license
                          /\ req'[w].device = req[w].device /\ req'[w].victim = req[w].victim
    BY <1>4 DEF AdminSetDevice, TypeOK, Request
  <2>2. devices[d].status # "none" /\ s # "none" /\ devices' = [devices EXCEPT ![d].status = s]
    BY <1>4 DEF AdminSetDevice, SetDeviceStatus, DeviceStatus
  <2>3. devices'[d].status # "none" /\ devices'[d].license = devices[d].license
    BY <2>2 DEF TypeOK, DeviceRow
  <2>4. \A c : c # d => devices'[c] = devices[c]
    BY <2>2 DEF TypeOK
  <2> QED BY <2>1, <2>2, <2>3, <2>4 DEF Owned
<1>5. CASE Tick \/ UNCHANGED vars
  BY <1>5 DEF Tick, vars, Owned
<1> QED BY <1>1, <1>2, <1>3, <1>4, <1>5 DEF Next

LEMMA OwnedInductive == Spec => []Owned
<1>1. Init => Owned
  BY NoneAssumption DEF Init, Owned, NoDevice, Idle
<1>2. TypeOK /\ OwnerInv /\ Owned /\ [Next]_vars => Owned'
  BY OwnedStep, OwnedElse
<1> QED BY <1>1, <1>2, TypeCorrect, OwnerInductive, PTL DEF Spec

-----------------------------------------------------------------------------
(* One request at a time, kicking or not *)

\* A request gets past the count, or to the kick of a device, from there only.
TakingCalls == {"act_kick", "act_kickLeases", "act_create"}

LEMMA TakingEntry ==
    ASSUME TypeOK, NEW w \in Worker, Step(w), req'[w].pc \in TakingCalls
    PROVE  ActCount(w) \/ ActOldest(w) \/ ActKick(w) \/ ActKickLeases(w)
<1>1. ~Answer(w)
  BY DEF Answer, Idle, TakingCalls, TypeOK
<1>2. ~(ActLicense(w) \/ ActDevice(w) \/ ActTouch(w) \/ ActCreate(w) \/ ActStamp(w) \/ IssRevoke(w))
  BY <1>1, Moved DEF ActLicense, ActDevice, ActTouch, ActCreate, ActStamp, IssRevoke, Check, GotoIf, TakingCalls
<1>3. ~(IssEnforce(w) \/ IssKick(w) \/ IssCreate(w) \/ ReadLease(w) \/ ExpireLease(w) \/ HbLicense(w))
  BY <1>1, Moved DEF IssEnforce, IssKick, IssCreate, ReadLease, ExpireLease, HbLicense, GotoIf, TakingCalls, Oldest, Holders
<1>4. ~(HbTouch(w) \/ HbRevoke(w) \/ VerLicense(w) \/ VerDevice(w) \/ VerOk(w))
  BY <1>1, Moved DEF HbTouch, HbRevoke, VerLicense, VerDevice, VerOk, Check, GotoIf, TakingCalls
<1>5. ~(DeaLicense(w) \/ DeaDevice(w) \/ DeaRemove(w) \/ DeaLeases(w))
  BY <1>1, Moved DEF DeaLicense, DeaDevice, DeaRemove, DeaLeases, Check, GotoIf, TakingCalls
<1> QED BY <1>2, <1>3, <1>4, <1>5 DEF Step

\* A request that takes a seat has left one free for it: the device it kicks no
\* longer counts.
SeatFree(w) ==
    LET l == req[w].license IN
    /\ req[w].pc \in {"act_kickLeases", "act_create"} => Cardinality(ActiveDevices(l)) <= MaxDevices + granted[l] - 1
    /\ req[w].pc = "act_kick" => Cardinality(ActiveDevices(l) \ {req[w].victim}) <= MaxDevices + granted[l] - 1

\* The inductive form of DeviceLimit for one request at a time, under either policy.
SeatsAlone ==
    /\ \A l \in License : Cardinality(ActiveDevices(l)) <= MaxDevices + granted[l]
    /\ \A w \in Worker : SeatFree(w)

LEMMA SmallerSet ==
    ASSUME NEW S, IsFiniteSet(S), NEW T, T \subseteq S
    PROVE  Cardinality(T) \in Nat /\ Cardinality(T) <= Cardinality(S)
  BY FS_Subset, FS_CardinalityType

\* A step that lets devices leave only, and no request take a seat, keeps the seats.
LEMMA SeatsLeft ==
    ASSUME TypeOK, Owned, SeatsAlone, \A l \in License : ActiveDevices(l)' \subseteq ActiveDevices(l), UNCHANGED granted,
           \A w \in Worker : req'[w].pc \in TakingCalls =>
              req'[w].pc = req[w].pc /\ req'[w].license = req[w].license /\ req'[w].victim = req[w].victim
    PROVE  SeatsAlone'
<1>1. ASSUME NEW l \in License
      PROVE  /\ Cardinality(ActiveDevices(l)') <= Cardinality(ActiveDevices(l)) /\ Cardinality(ActiveDevices(l)') \in Nat
             /\ granted[l] \in Nat /\ Cardinality(ActiveDevices(l)) \in Nat
  <2>1. granted[l] \in Nat
    BY GrantAssumption DEF TypeOK
  <2> QED BY <2>1, BindingFinite, SmallerSet
<1>2. ASSUME NEW l \in License, NEW d
      PROVE  /\ Cardinality(ActiveDevices(l)' \ {d}) <= Cardinality(ActiveDevices(l) \ {d})
             /\ Cardinality(ActiveDevices(l)' \ {d}) \in Nat /\ Cardinality(ActiveDevices(l) \ {d}) \in Nat
  <2>1. IsFiniteSet(ActiveDevices(l) \ {d}) /\ ActiveDevices(l)' \ {d} \subseteq ActiveDevices(l) \ {d}
    BY BindingFinite, FS_Subset
  <2> QED BY <2>1, SmallerSet, FS_CardinalityType
<1>3. \A l \in License : Cardinality(ActiveDevices(l)') <= MaxDevices + granted[l]
  BY <1>1, LimitAssumption DEF SeatsAlone
<1>4. ASSUME NEW w \in Worker PROVE SeatFree(w)'
  <2>1. CASE req'[w].pc \in TakingCalls
    <3>1. SeatFree(w) /\ req[w].license \in License
      BY <2>1 DEF SeatsAlone, Owned, TakingCalls
    <3>2. PICK l \in License : l = req[w].license
      BY <3>1
    <3>3. ActiveDevices(req[w].license) = ActiveDevices(l) /\ ActiveDevices(req[w].license)' = ActiveDevices(l)'
      BY <2>1, <3>2 DEF ActiveDevices
    <3>4. req'[w].pc = req[w].pc /\ req'[w].license = l /\ req'[w].victim = req[w].victim /\ granted'[l] = granted[l]
      BY <2>1, <3>2
    <3>5. /\ req'[w].pc \in {"act_kickLeases", "act_create"} => Cardinality(ActiveDevices(l)') <= MaxDevices + granted'[l] - 1
          /\ req'[w].pc = "act_kick" =>
               Cardinality(ActiveDevices(l)' \ {req'[w].victim}) <= MaxDevices + granted'[l] - 1
      <4>1. /\ req[w].pc \in {"act_kickLeases", "act_create"} => Cardinality(ActiveDevices(l)) <= MaxDevices + granted[l] - 1
            /\ req[w].pc = "act_kick" =>
                 Cardinality(ActiveDevices(l) \ {req[w].victim}) <= MaxDevices + granted[l] - 1
        BY <3>1, <3>2, <3>3 DEF SeatFree
      <4>2. PICK v : v = req[w].victim
        OBVIOUS
      <4>3. req'[w].pc \in {"act_kickLeases", "act_create"} => Cardinality(ActiveDevices(l)') <= MaxDevices + granted'[l] - 1
        BY <1>1, <3>4, <4>1, LimitAssumption
      <4>4. CASE req'[w].pc = "act_kick"
        <5>1. Cardinality(ActiveDevices(l) \ {v}) <= MaxDevices + granted[l] - 1
          BY <3>4, <4>1, <4>2, <4>4
        <5>2. Cardinality(ActiveDevices(l)' \ {v}) <= Cardinality(ActiveDevices(l) \ {v})
              /\ Cardinality(ActiveDevices(l)' \ {v}) \in Nat /\ Cardinality(ActiveDevices(l) \ {v}) \in Nat
          BY <1>2
        <5>3. granted[l] \in Nat
          BY <1>1
        <5>4. Cardinality(ActiveDevices(l)' \ {v}) <= MaxDevices + granted[l] - 1
          BY <5>1, <5>2, <5>3, LimitAssumption
        <5> QED BY <3>4, <4>2, <4>4, <5>4
      <4> QED BY <4>3, <4>4
    <3> QED BY <3>2, <3>3, <3>4, <3>5 DEF SeatFree
  <2>2. CASE req'[w].pc \notin TakingCalls
    BY <2>2 DEF SeatFree, TakingCalls
  <2> QED BY <2>1, <2>2
<1> QED BY <1>3, <1>4 DEF SeatsAlone

\* The steps of the only request keep a seat for it.
LEMMA AloneStep ==
    ASSUME TypeOK, Owned, NEW w \in Worker, Worker = {w}, Step(w), SeatsAlone
    PROVE  SeatsAlone'
<1>1. UNCHANGED granted
  BY StepFrame
<1>2. ASSUME NEW l \in License
      PROVE  /\ granted[l] \in Nat /\ Cardinality(ActiveDevices(l)) \in Nat
             /\ Cardinality(ActiveDevices(l)) <= MaxDevices + granted[l]
  <2>1. granted[l] \in Nat
    BY GrantAssumption DEF TypeOK
  <2> QED BY <2>1, BindingFinite DEF SeatsAlone
<1>3. CASE req'[w].pc \notin TakingCalls /\ ~ActCreate(w)
  <2>1. \A l \in License : ActiveDevices(l)' \subseteq ActiveDevices(l)
    BY <1>3, DevicesOnlyLeave DEF ActiveDevices
  <2> QED BY <1>1, <1>3, <2>1, SeatsLeft
<1>4. CASE ActCreate(w)
  <2>1. req'[w].pc \notin TakingCalls /\ req[w].pc = "act_create" /\ req[w].license \in License
    BY <1>4, TakingEntry DEF ActCreate, ActCount, ActOldest, ActKick, ActKickLeases, At, Owned
  <2>2. PICK l \in License : l = req[w].license
    BY <2>1
  <2>3. Cardinality(ActiveDevices(l)) <= MaxDevices + granted[l] - 1
    BY <2>1, <2>2 DEF SeatsAlone, SeatFree
  <2>4. \E d \in DeviceCode \union {None} : ActiveDevices(l)' \subseteq ActiveDevices(l) \union {d}
    BY <1>4 DEF ActCreate, ActiveDevices, TypeOK, DeviceRow, Request
  <2>5. Cardinality(ActiveDevices(l)') <= Cardinality(ActiveDevices(l)) + 1 /\ Cardinality(ActiveDevices(l)') \in Nat
    BY <2>4, BindingFinite, OneMore
  <2>6. Cardinality(ActiveDevices(l)') <= MaxDevices + granted'[l]
    BY <1>1, <1>2, <2>3, <2>5, LimitAssumption
  <2>7. ASSUME NEW m \in License, m # l PROVE Cardinality(ActiveDevices(m)') <= MaxDevices + granted'[m]
    <3>1. ActiveDevices(m)' \subseteq ActiveDevices(m)
      BY <1>4, <2>2, <2>7 DEF ActCreate, ActiveDevices, TypeOK, DeviceRow
    <3>2. Cardinality(ActiveDevices(m)') <= Cardinality(ActiveDevices(m)) /\ Cardinality(ActiveDevices(m)') \in Nat
      BY <3>1, BindingFinite, SmallerSet
    <3> QED BY <1>1, <1>2, <3>2, LimitAssumption
  <2> QED BY <2>1, <2>6, <2>7 DEF SeatsAlone, SeatFree, TakingCalls
<1>5. CASE req'[w].pc \in TakingCalls
  <2>1. ~Answer(w) /\ req'[w] # Idle
    BY <1>5 DEF Answer, Idle, TakingCalls, TypeOK
  <2>2. ActCount(w) \/ ActOldest(w) \/ ActKick(w) \/ ActKickLeases(w)
    BY <1>5, TakingEntry
  <2>3. req'[w].license = req[w].license /\ req[w].license \in License
    BY <2>1, <2>2, StepFrame DEF ActCount, ActOldest, ActKick, ActKickLeases, At, Owned
  <2>4. PICK l \in License : l = req[w].license
    BY <2>3
  <2>5. \A m \in License : ActiveDevices(m)' \subseteq ActiveDevices(m)
    <3>1. ~ActCreate(w)
      BY <2>2 DEF ActCreate, ActCount, ActOldest, ActKick, ActKickLeases, At
    <3> QED BY <3>1, DevicesOnlyLeave DEF ActiveDevices
  <2>6. ASSUME NEW m \in License PROVE Cardinality(ActiveDevices(m)') <= MaxDevices + granted'[m]
    <3>1. Cardinality(ActiveDevices(m)') <= Cardinality(ActiveDevices(m)) /\ Cardinality(ActiveDevices(m)') \in Nat
      BY <2>5, BindingFinite, SmallerSet
    <3> QED BY <1>1, <1>2, <3>1, LimitAssumption
  <2>7. SUFFICES /\ req'[w].pc \in {"act_kickLeases", "act_create"} => Cardinality(ActiveDevices(l)') <= MaxDevices + granted[l] - 1
                 /\ req'[w].pc = "act_kick" => Cardinality(ActiveDevices(l)' \ {req'[w].victim}) <= MaxDevices + granted[l] - 1
    <3>1. ActiveDevices(req[w].license)' = ActiveDevices(l)'
      BY <2>3, <2>4 DEF ActiveDevices
    <3> QED BY <1>1, <2>3, <2>4, <2>6, <3>1 DEF SeatsAlone, SeatFree
  <2>8. CASE ActCount(w)
    <3>1. ActiveDevices(l)' = ActiveDevices(l)
      BY <2>8 DEF ActCount, ReadOnly, ActiveDevices
    <3>2. req'[w].pc \in {"act_create", "act_oldest"} /\ (req'[w].pc = "act_create" => ~DevicesFull(l))
      BY <2>1, <2>4, <2>8, Moved DEF ActCount, GotoIf
    <3>3. ~DevicesFull(l) => Cardinality(ActiveDevices(l)) <= MaxDevices + granted[l] - 1
      BY <1>2, LimitAssumption DEF DevicesFull
    <3> QED BY <3>1, <3>2, <3>3
  <2>9. CASE ActOldest(w)
    <3>1. PICK d \in ActiveDevices(l) : Pick(w, d, "act_kick")
      BY <2>1, <2>4, <2>9 DEF ActOldest, Oldest
    <3>2. req'[w] = [req[w] EXCEPT !.pc = "act_kick", !.victim = d]
      BY <3>1 DEF Pick, TypeOK
    <3>3. req'[w].pc = "act_kick" /\ req'[w].victim = d
      BY <3>2 DEF TypeOK, Request
    <3>4. ActiveDevices(l)' = ActiveDevices(l)
      BY <2>9 DEF ActOldest, ReadOnly, ActiveDevices
    <3>5. Cardinality(ActiveDevices(l) \ {d}) \in Nat /\ Cardinality(ActiveDevices(l) \ {d}) <= Cardinality(ActiveDevices(l)) - 1
      BY <3>1, BindingFinite, OneLess
    <3>6. Cardinality(ActiveDevices(l) \ {d}) <= MaxDevices + granted[l] - 1
      BY <1>2, <3>5, LimitAssumption
    <3> QED BY <3>3, <3>4, <3>6
  <2>10. CASE ActKick(w)
    <3>1. req[w].pc = "act_kick" /\ req'[w].pc = "act_kickLeases"
      BY <2>10, Moved DEF ActKick, At
    <3>2. PICK v : v = req[w].victim
      OBVIOUS
    <3>3. Cardinality(ActiveDevices(l) \ {v}) <= MaxDevices + granted[l] - 1
      BY <2>4, <3>1, <3>2 DEF SeatsAlone, SeatFree
    <3>4. ActiveDevices(l)' \subseteq ActiveDevices(l) \ {v}
      BY <2>10, <3>2 DEF ActKick, SetDeviceStatus, ActiveDevices, TypeOK, DeviceRow
    <3>5. IsFiniteSet(ActiveDevices(l) \ {v}) /\ Cardinality(ActiveDevices(l) \ {v}) \in Nat
      BY BindingFinite, FS_Subset, FS_CardinalityType
    <3>6. Cardinality(ActiveDevices(l)') <= Cardinality(ActiveDevices(l) \ {v}) /\ Cardinality(ActiveDevices(l)') \in Nat
      BY <3>4, <3>5, SmallerSet
    <3>7. Cardinality(ActiveDevices(l)') <= MaxDevices + granted[l] - 1
      BY <1>2, <3>3, <3>5, <3>6, LimitAssumption
    <3> QED BY <3>1, <3>7
  <2>11. CASE ActKickLeases(w)
    <3>1. req[w].pc = "act_kickLeases" /\ req'[w].pc = "act_create"
      BY <2>11, Moved DEF ActKickLeases, At
    <3>2. ActiveDevices(l)' = ActiveDevices(l)
      BY <2>11 DEF ActKickLeases, ActiveDevices
    <3> QED BY <2>4, <3>1, <3>2 DEF SeatsAlone, SeatFree
  <2> QED BY <2>2, <2>8, <2>9, <2>10, <2>11
<1> QED BY <1>3, <1>4, <1>5

\* A device given back adds the seat it records to both counts.
LEMMA AloneRestore ==
    ASSUME TypeOK, NEW d \in DeviceCode, NEW s \in DeviceStatus, AdminSetDevice(d, s),
           NEW l \in License, NEW X, NEW n \in Int, Cardinality(ActiveDevices(l) \ X) <= n + granted[l]
    PROVE  Cardinality(ActiveDevices(l)' \ X) <= n + granted'[l]
<1>1. granted[l] \in Nat
  BY GrantAssumption DEF TypeOK
<1>2. IsFiniteSet(ActiveDevices(l) \ X) /\ Cardinality(ActiveDevices(l) \ X) \in Nat
  BY BindingFinite, FS_Subset, FS_CardinalityType
<1>3. CASE s = "active" /\ devices[d].license = l
  <2>1. granted'[l] = granted[l] + 1
    BY <1>3 DEF AdminSetDevice, TypeOK
  <2>2. ActiveDevices(l)' \ X \subseteq (ActiveDevices(l) \ X) \union {d}
    BY DEF AdminSetDevice, SetDeviceStatus, ActiveDevices, TypeOK, DeviceRow
  <2>3. Cardinality(ActiveDevices(l)' \ X) <= Cardinality(ActiveDevices(l) \ X) + 1 /\ Cardinality(ActiveDevices(l)' \ X) \in Nat
    BY <1>2, <2>2, OneMore
  <2> QED BY <1>1, <1>2, <2>1, <2>3
<1>4. CASE ~(s = "active" /\ devices[d].license = l)
  <2>1. granted'[l] = granted[l]
    BY <1>4 DEF AdminSetDevice, TypeOK
  <2>2. ActiveDevices(l)' \ X \subseteq ActiveDevices(l) \ X
    BY <1>4 DEF AdminSetDevice, SetDeviceStatus, ActiveDevices, TypeOK, DeviceRow
  <2>3. Cardinality(ActiveDevices(l)' \ X) <= Cardinality(ActiveDevices(l) \ X) /\ Cardinality(ActiveDevices(l)' \ X) \in Nat
    BY <1>2, <2>2, SmallerSet
  <2> QED BY <1>1, <1>2, <2>1, <2>3
<1> QED BY <1>3, <1>4

LEMMA AloneElse ==
    ASSUME TypeOK, Owned, SeatsAlone, [Next]_vars, ~\E w \in Worker : Step(w)
    PROVE  SeatsAlone'
<1>1. ASSUME UNCHANGED <<devices, granted>>,
             \A w \in Worker : req'[w].pc \in TakingCalls =>
                req'[w].pc = req[w].pc /\ req'[w].license = req[w].license /\ req'[w].victim = req[w].victim
      PROVE  SeatsAlone'
  BY <1>1, SeatsLeft DEF ActiveDevices
<1>2. ASSUME NEW w \in Worker, Arrive(w) PROVE SeatsAlone'
  <2>1. ASSUME NEW op \in {"activate", "heartbeat", "verify", "deactivate"}, NEW l, NEW d, NEW k, Begin(w, op, l, d, k)
        PROVE  SeatsAlone'
    <3>1. UNCHANGED <<devices, granted>> /\ \A v \in Worker : v # w => req'[v] = req[v]
      BY <2>1 DEF Begin, ReadOnly, TypeOK
    <3>2. req'[w].pc = FirstCall(op) /\ FirstCall(op) \notin TakingCalls
      BY <2>1 DEF Begin, TypeOK, FirstCall, TakingCalls
    <3> QED BY <1>1, <3>1, <3>2
  <2> QED BY <1>2, <2>1 DEF Arrive, BeginActivate, BeginHeartbeat, BeginVerify, BeginDeactivate
<1>3. ASSUME NEW w \in Worker, Fail(w) PROVE SeatsAlone'
  BY <1>1, <1>3 DEF Fail, Answer, Idle, ReadOnly, TakingCalls, TypeOK
<1>4. ASSUME NEW l \in License, NEW s \in LicenseStatus, AdminSetLicense(l, s) PROVE SeatsAlone'
  <2>1. \A w \in Worker : req'[w].pc = req[w].pc /\ req'[w].license = req[w].license /\ req'[w].victim = req[w].victim
    BY <1>4 DEF AdminSetLicense, TypeOK, Request
  <2> QED BY <1>1, <1>4, <2>1 DEF AdminSetLicense
<1>5. ASSUME NEW d \in DeviceCode, NEW s \in DeviceStatus, AdminSetDevice(d, s) PROVE SeatsAlone'
  <2>1. \A w \in Worker : req'[w].pc = req[w].pc /\ req'[w].license = req[w].license /\ req'[w].victim = req[w].victim
    BY <1>5 DEF AdminSetDevice, TypeOK, Request
  <2>0. ASSUME NEW l \in License, NEW X, NEW n \in Int, Cardinality(ActiveDevices(l) \ X) <= n + granted[l]
        PROVE  Cardinality(ActiveDevices(l)' \ X) <= n + granted'[l]
    BY <1>5, <2>0, AloneRestore
  <2>2. ASSUME NEW l \in License PROVE Cardinality(ActiveDevices(l)') <= MaxDevices + granted'[l]
    <3>1. PICK X : X = {}
      OBVIOUS
    <3>2. PICK n \in Int : n = MaxDevices
      BY LimitAssumption
    <3>3. ActiveDevices(l) = ActiveDevices(l) \ X /\ ActiveDevices(l)' = ActiveDevices(l)' \ X
      BY <3>1
    <3>4. Cardinality(ActiveDevices(l) \ X) <= n + granted[l]
      BY <3>2, <3>3 DEF SeatsAlone
    <3>5. Cardinality(ActiveDevices(l)' \ X) <= n + granted'[l]
      BY <2>0, <3>4
    <3> QED BY <3>2, <3>3, <3>5
  <2>3. ASSUME NEW w \in Worker, req[w].pc \in TakingCalls PROVE SeatFree(w)'
    <3>1. PICK l \in License : l = req[w].license
      BY <2>3 DEF Owned, TakingCalls
    <3>2. PICK X : X = IF req[w].pc = "act_kick" THEN {req[w].victim} ELSE {}
      OBVIOUS
    <3>3. PICK n \in Int : n = MaxDevices - 1
      BY LimitAssumption
    <3>4. granted[l] \in Nat /\ granted'[l] \in Nat
      BY <1>5, GrantAssumption DEF TypeOK, AdminSetDevice
    <3>5. Cardinality(ActiveDevices(l) \ X) <= MaxDevices + granted[l] - 1
      <4>1. CASE req[w].pc = "act_kick"
        BY <3>1, <3>2, <4>1 DEF SeatsAlone, SeatFree
      <4>2. CASE req[w].pc # "act_kick"
        <5>1. ActiveDevices(l) \ X = ActiveDevices(l)
          BY <3>2, <4>2
        <5> QED BY <2>3, <3>1, <4>2, <5>1 DEF SeatsAlone, SeatFree, TakingCalls
      <4> QED BY <4>1, <4>2
    <3>6. Cardinality(ActiveDevices(l) \ X) <= n + granted[l]
      BY <3>3, <3>4, <3>5, LimitAssumption
    <3>7. Cardinality(ActiveDevices(l)' \ X) <= n + granted'[l]
      BY <2>0, <3>6
    <3>8. Cardinality(ActiveDevices(l)' \ X) <= MaxDevices + granted'[l] - 1
      BY <3>3, <3>4, <3>7, LimitAssumption
    <3>9. CASE req[w].pc = "act_kick"
      BY <2>1, <3>1, <3>2, <3>8, <3>9 DEF SeatFree, ActiveDevices
    <3>10. CASE req[w].pc # "act_kick"
      <4>1. ActiveDevices(l)' \ X = ActiveDevices(l)'
        BY <3>2, <3>10
      <4> QED BY <2>1, <3>1, <3>8, <3>10, <4>1 DEF SeatFree, ActiveDevices
    <3> QED BY <3>9, <3>10
  <2>4. ASSUME NEW w \in Worker, req[w].pc \notin TakingCalls PROVE SeatFree(w)'
    BY <2>1, <2>4 DEF SeatFree, TakingCalls
  <2> QED BY <2>2, <2>3, <2>4 DEF SeatsAlone
<1>6. CASE Tick \/ UNCHANGED vars
  BY <1>1, <1>6 DEF Tick, vars
<1> QED BY <1>2, <1>3, <1>4, <1>5, <1>6 DEF Next

\* A server that works on one request at a time keeps a seat for it.
LEMMA SeatsKept ==
    ASSUME Cardinality(Worker) = 1
    PROVE  Spec => []SeatsAlone
<1>1. PICK u : Worker = {u}
  BY WorkerAssumption, FS_Singleton
<1>2. Init => SeatsAlone
  <2> SUFFICES ASSUME Init PROVE SeatsAlone
    OBVIOUS
  <2>1. ASSUME NEW l \in License PROVE Cardinality(ActiveDevices(l)) <= MaxDevices + granted[l]
    <3>1. ActiveDevices(l) = {} /\ granted[l] = 0
      BY DEF Init, NoDevice, ActiveDevices
    <3> QED BY <3>1, FS_EmptySet, LimitAssumption
  <2> QED BY <2>1 DEF Init, Idle, SeatsAlone, SeatFree
<1>3. TypeOK /\ Owned /\ SeatsAlone /\ [Next]_vars => SeatsAlone'
  BY <1>1, AloneStep, AloneElse
<1> QED BY <1>2, <1>3, TypeCorrect, OwnedInductive, PTL DEF Spec

\* The devices of a licence exceed its limit by at most the other requests in
\* flight and what administrators gave back; a server that works on one request
\* at a time keeps the limit under either policy.
THEOREM DeviceLimitHolds == Spec => []DeviceLimit
<1>1. CASE BindingPolicy = "deny_new"
  BY <1>1, DeviceLimitDenyNew
<1>2. CASE Cardinality(Worker) = 1
  <2>1. TypeOK /\ SeatsAlone => DeviceLimit
    <3> SUFFICES ASSUME TypeOK, SeatsAlone, NEW l \in License
                 PROVE  Cardinality(ActiveDevices(l)) <= MaxDevices + granted[l] + Cardinality(Worker) - 1
      BY DEF DeviceLimit
    <3>1. Cardinality(ActiveDevices(l)) <= MaxDevices + granted[l] /\ granted[l] \in Nat
      BY GrantAssumption DEF SeatsAlone, TypeOK
    <3> QED BY <1>2, <3>1, LimitAssumption, BindingFinite
  <2> QED BY <1>2, <2>1, SeatsKept, TypeCorrect, PTL
<1>3. CASE BindingPolicy # "deny_new" /\ Cardinality(Worker) # 1
  <2>1. DeviceLimit
    BY <1>3 DEF DeviceLimit
  <2> QED BY <2>1, PTL
<1> QED BY <1>1, <1>2, <1>3

-----------------------------------------------------------------------------
(* Leases of one request at a time, kicking or not *)

\* The calls between the concurrency check and the creation of the lease.
HoldCalls == {"iss_kick", "iss_create"}

\* The device that is about to lose its leases.
Kicked(w) == IF req[w].pc = "iss_kick" THEN {req[w].victim} ELSE {}

\* A request past the concurrency check has left room for the lease it creates.
HoldFree(w) ==
    req[w].pc \in HoldCalls =>
        Cardinality(Holders(req[w].license) \ Kicked(w)) <= MaxConcurrency + granted[req[w].license] - 1

\* The inductive form of ConcurrencyLimit for one request at a time, under either policy.
HoldersAlone ==
    /\ \A l \in License : Cardinality(Holders(l)) <= MaxConcurrency + granted[l]
    /\ \A w \in Worker : HoldFree(w)

\* With a limit, only IssEnforce and IssKick let a request among these calls.
LEMMA HoldEntry ==
    ASSUME TypeOK, MaxConcurrency > 0, NEW w \in Worker, Step(w), req'[w].pc \in HoldCalls
    PROVE  IssEnforce(w) \/ IssKick(w)
<1>1. ~Answer(w)
  BY DEF Answer, Idle, HoldCalls, TypeOK
<1>2. ~(ActLicense(w) \/ ActDevice(w) \/ ActTouch(w) \/ ActCount(w) \/ ActOldest(w) \/ ActKick(w))
  BY <1>1, Moved DEF ActLicense, ActDevice, ActTouch, ActCount, ActOldest, ActKick, Check, GotoIf, HoldCalls, Oldest, ActiveDevices
<1>3. ~(ActKickLeases(w) \/ ActCreate(w) \/ ActStamp(w) \/ IssCreate(w) \/ ReadLease(w) \/ ExpireLease(w))
  BY <1>1, Moved DEF ActKickLeases, ActCreate, ActStamp, IssCreate, ReadLease, ExpireLease, GotoIf, HoldCalls
<1>4. ~IssRevoke(w)
  BY <1>1, Moved DEF IssRevoke, HoldCalls
<1>5. ~(HbLicense(w) \/ HbTouch(w) \/ HbRevoke(w) \/ VerLicense(w) \/ VerDevice(w) \/ VerOk(w))
  BY <1>1, Moved DEF HbLicense, HbTouch, HbRevoke, VerLicense, VerDevice, VerOk, Check, GotoIf, HoldCalls
<1>6. ~(DeaLicense(w) \/ DeaDevice(w) \/ DeaRemove(w) \/ DeaLeases(w))
  BY <1>1, Moved DEF DeaLicense, DeaDevice, DeaRemove, DeaLeases, Check, GotoIf, HoldCalls
<1> QED BY <1>2, <1>3, <1>4, <1>5, <1>6 DEF Step

\* Fewer holders, counted without any set X, keep any bound.
LEMMA HoldersShrink ==
    ASSUME TypeOK, NEW l \in License, UNCHANGED granted, NEW X, NEW Y, Holders(l)' \ Y \subseteq Holders(l) \ X,
           NEW n \in Int, Cardinality(Holders(l) \ X) <= n + granted[l]
    PROVE  Cardinality(Holders(l)' \ Y) <= n + granted'[l]
<1>1. granted[l] \in Nat
  BY GrantAssumption DEF TypeOK
<1>2. IsFiniteSet(Holders(l) \ X) /\ Cardinality(Holders(l) \ X) \in Nat
  BY CreatingFinite, FS_Subset, FS_CardinalityType
<1>3. Cardinality(Holders(l)' \ Y) <= Cardinality(Holders(l) \ X) /\ Cardinality(Holders(l)' \ Y) \in Nat
  BY <1>2, SmallerSet
<1> QED BY <1>1, <1>2, <1>3

\* A device given back adds the one place it records.
LEMMA HoldersRestore ==
    ASSUME TypeOK, OwnerInv, NEW d \in DeviceCode, NEW s \in DeviceStatus, AdminSetDevice(d, s),
           NEW l \in License, NEW X, NEW n \in Int, Cardinality(Holders(l) \ X) <= n + granted[l]
    PROVE  Cardinality(Holders(l)' \ X) <= n + granted'[l]
<1>1. granted[l] \in Nat /\ UNCHANGED <<leases, now>>
  BY GrantAssumption DEF TypeOK, AdminSetDevice
<1>2. IsFiniteSet(Holders(l) \ X) /\ Cardinality(Holders(l) \ X) \in Nat
  BY CreatingFinite, FS_Subset, FS_CardinalityType
<1>3. CASE s = "active" /\ devices[d].license = l
  <2>1. granted'[l] = granted[l] + 1
    BY <1>3 DEF AdminSetDevice, TypeOK
  <2>2. Holders(l)' \ X \subseteq (Holders(l) \ X) \union {d}
    BY <1>1 DEF AdminSetDevice, SetDeviceStatus, Holders, LiveLeases, TypeOK, DeviceRow
  <2>3. Cardinality(Holders(l)' \ X) <= Cardinality(Holders(l) \ X) + 1 /\ Cardinality(Holders(l)' \ X) \in Nat
    BY <1>2, <2>2, OneMore
  <2> QED BY <1>1, <1>2, <2>1, <2>3
<1>4. CASE ~(s = "active" /\ devices[d].license = l)
  <2>1. UNCHANGED granted \/ granted'[l] = granted[l]
    BY <1>4 DEF AdminSetDevice, TypeOK
  <2>2. \A k \in LiveLeases(d) : leases[k].license = devices[d].license
    BY DEF OwnerInv, LeasesBound, Bound, LiveLeases
  <2>3. Holders(l)' \ X \subseteq Holders(l) \ X
    BY <1>1, <1>4, <2>2 DEF AdminSetDevice, SetDeviceStatus, Holders, LiveLeases, TypeOK, DeviceRow
  <2>4. Cardinality(Holders(l)' \ X) <= Cardinality(Holders(l) \ X) /\ Cardinality(Holders(l)' \ X) \in Nat
    BY <1>2, <2>3, SmallerSet
  <2> QED BY <1>1, <1>2, <2>1, <2>4
<1> QED BY <1>3, <1>4

\* A step that keeps every such bound, and lets no request past the check, keeps the limit.
LEMMA HoldersKept ==
    ASSUME TypeOK, Owned, HoldersAlone,
           \A l \in License, n \in Int : \A X : Cardinality(Holders(l) \ X) <= n + granted[l] =>
              Cardinality(Holders(l)' \ X) <= n + granted'[l],
           \A l \in License : granted[l] \in Nat /\ granted'[l] \in Nat,
           \A w \in Worker : req'[w].pc \in HoldCalls =>
              req'[w].pc = req[w].pc /\ req'[w].license = req[w].license /\ req'[w].victim = req[w].victim
    PROVE  HoldersAlone'
<1>1. ASSUME NEW l \in License PROVE Cardinality(Holders(l)') <= MaxConcurrency + granted'[l]
  <2>1. PICK X : X = {}
    OBVIOUS
  <2>2. PICK n \in Int : n = MaxConcurrency
    BY LimitAssumption
  <2>3. Holders(l) = Holders(l) \ X /\ Holders(l)' = Holders(l)' \ X
    BY <2>1
  <2>4. Cardinality(Holders(l) \ X) <= n + granted[l]
    BY <2>2, <2>3 DEF HoldersAlone
  <2>5. Cardinality(Holders(l)' \ X) <= n + granted'[l]
    BY <2>4
  <2> QED BY <2>2, <2>3, <2>5
<1>2. ASSUME NEW w \in Worker, req'[w].pc \in HoldCalls PROVE HoldFree(w)'
  <2>0. req'[w].pc = req[w].pc /\ req'[w].license = req[w].license /\ req'[w].victim = req[w].victim
    BY <1>2
  <2>1. PICK l \in License : l = req[w].license
    BY <1>2, <2>0 DEF Owned, HoldCalls
  <2>2. PICK X : X = Kicked(w)
    OBVIOUS
  <2>3. PICK n \in Int : n = MaxConcurrency - 1
    BY LimitAssumption
  <2>4. granted[l] \in Nat /\ granted'[l] \in Nat
    OBVIOUS
  <2>5. Cardinality(Holders(l) \ X) <= MaxConcurrency + granted[l] - 1
    BY <1>2, <2>0, <2>1, <2>2 DEF HoldersAlone, HoldFree
  <2>6. Cardinality(Holders(l) \ X) <= n + granted[l]
    BY <2>3, <2>4, <2>5, LimitAssumption
  <2>7. Cardinality(Holders(l)' \ X) <= n + granted'[l]
    BY <2>6
  <2>8. Cardinality(Holders(l)' \ X) <= MaxConcurrency + granted'[l] - 1
    BY <2>3, <2>4, <2>7, LimitAssumption
  <2>9. Kicked(w)' = X /\ Holders(req[w].license)' = Holders(l)' /\ req'[w].license = l
    BY <2>0, <2>1, <2>2 DEF Kicked, Holders
  <2> QED BY <2>8, <2>9 DEF HoldFree
<1>3. ASSUME NEW w \in Worker, req'[w].pc \notin HoldCalls PROVE HoldFree(w)'
  BY <1>3 DEF HoldFree
<1> QED BY <1>1, <1>2, <1>3 DEF HoldersAlone

\* The steps of the only request leave room for the lease it creates.
LEMMA HoldStep ==
    ASSUME TypeOK, Owned, OwnerInv, MaxConcurrency > 0, NEW w \in Worker, Worker = {w}, Step(w), HoldersAlone
    PROVE  HoldersAlone'
<1>1. UNCHANGED granted /\ \A l \in License : granted[l] \in Nat
  BY StepFrame, GrantAssumption DEF TypeOK
<1>2. ASSUME NEW l \in License, ~IssCreate(w) PROVE Holders(l)' \subseteq Holders(l)
  BY <1>2, HoldersOnlyLeave
<1>3. CASE req'[w].pc \notin HoldCalls /\ ~IssCreate(w)
  <2>1. ASSUME NEW l \in License, NEW n \in Int, NEW X, Cardinality(Holders(l) \ X) <= n + granted[l]
        PROVE  Cardinality(Holders(l)' \ X) <= n + granted'[l]
    <3>1. Holders(l)' \ X \subseteq Holders(l) \ X
      BY <1>2, <1>3
    <3> QED BY <1>1, <2>1, <3>1, HoldersShrink
  <2> QED BY <1>1, <1>3, <2>1, HoldersKept
<1>4. CASE IssCreate(w)
  <2>1. req'[w].pc \notin HoldCalls /\ req[w].pc = "iss_create" /\ req[w].license \in License
    BY <1>4, HoldEntry DEF IssCreate, IssEnforce, IssKick, At, Owned
  <2>2. PICK k \in LeaseId :
           leases' = [leases EXCEPT ![k] = [status |-> "active", license |-> req[w].license,
                                            device |-> req[w].device, expireAt |-> now + LeaseTtl]]
    BY <1>4 DEF IssCreate
  <2>3. leases'[k].license = req[w].license /\ leases'[k].device = req[w].device
    BY <2>2 DEF TypeOK
  <2>4. \A i \in LeaseId : i # k => leases'[i] = leases[i]
    BY <2>2 DEF TypeOK
  <2>5. UNCHANGED <<devices, now>>
    BY <1>4 DEF IssCreate
  <2>6. ASSUME NEW l \in License PROVE Cardinality(Holders(l)') <= MaxConcurrency + granted'[l]
    <3>1. Cardinality(Holders(l)) \in Nat /\ Cardinality(Holders(l)) <= MaxConcurrency + granted[l]
      BY CreatingFinite DEF HoldersAlone
    <3>2. CASE l = req[w].license
      <4>1. Kicked(w) = {} /\ HoldFree(w)
        BY <2>1 DEF Kicked, HoldersAlone
      <4>2. Holders(req[w].license) \ Kicked(w) = Holders(l)
        BY <3>2, <4>1
      <4>3. Cardinality(Holders(l)) <= MaxConcurrency + granted[l] - 1
        BY <2>1, <3>2, <4>1, <4>2 DEF HoldFree, HoldCalls
      <4>4. Holders(l)' \subseteq Holders(l) \union {req[w].device}
        BY <2>3, <2>4, <2>5 DEF Holders, LiveLeases
      <4>5. Cardinality(Holders(l)') <= Cardinality(Holders(l)) + 1 /\ Cardinality(Holders(l)') \in Nat
        BY <4>4, CreatingFinite, OneMore
      <4> QED BY <1>1, <3>1, <4>3, <4>5, LimitAssumption
    <3>3. CASE l # req[w].license
      <4>1. Holders(l)' \subseteq Holders(l)
        BY <2>3, <2>4, <2>5, <3>3 DEF Holders, LiveLeases
      <4>2. Cardinality(Holders(l)') <= Cardinality(Holders(l)) /\ Cardinality(Holders(l)') \in Nat
        BY <4>1, CreatingFinite, SmallerSet
      <4> QED BY <1>1, <3>1, <4>2, LimitAssumption
    <3> QED BY <3>2, <3>3
  <2> QED BY <2>1, <2>6 DEF HoldersAlone, HoldFree
<1>5. CASE req'[w].pc \in HoldCalls
  <2>1. ~Answer(w) /\ req'[w] # Idle
    BY <1>5 DEF Answer, Idle, HoldCalls, TypeOK
  <2>2. IssEnforce(w) \/ IssKick(w)
    BY <1>5, HoldEntry
  <2>3. req'[w].license = req[w].license /\ req[w].license \in License
    BY <2>1, <2>2, StepFrame DEF IssEnforce, IssKick, At, Owned
  <2>4. PICK l \in License : l = req[w].license
    BY <2>3
  <2>5. ASSUME NEW m \in License PROVE Holders(m)' \subseteq Holders(m)
    BY <1>2, <2>2 DEF IssEnforce, IssKick, IssCreate, At
  <2>6. ASSUME NEW m \in License PROVE Cardinality(Holders(m)') <= MaxConcurrency + granted'[m]
    <3>1. Cardinality(Holders(m)') <= Cardinality(Holders(m)) /\ Cardinality(Holders(m)') \in Nat /\ Cardinality(Holders(m)) \in Nat
      BY <2>5, CreatingFinite, SmallerSet
    <3> QED BY <1>1, <3>1, LimitAssumption DEF HoldersAlone
  <2>7. SUFFICES Cardinality(Holders(l)' \ Kicked(w)') <= MaxConcurrency + granted[l] - 1
    <3>1. Holders(req[w].license)' = Holders(l)' /\ req'[w].license = l
      BY <2>3, <2>4 DEF Holders
    <3> QED BY <1>1, <2>6, <3>1 DEF HoldersAlone, HoldFree
  <2>8. CASE IssEnforce(w)
    <3>1. Holders(l)' = Holders(l)
      BY <2>8 DEF IssEnforce, ReadOnly, Holders, LiveLeases
    <3>2. Cardinality(Holders(l)) \in Nat /\ Cardinality(Holders(l)) <= MaxConcurrency + granted[l]
      BY CreatingFinite DEF HoldersAlone
    <3>3. CASE ~LeasesFull(l) /\ Goto(w, "iss_create")
      <4>1. Kicked(w)' = {}
        BY <3>3, Moved DEF Kicked
      <4>2. Holders(l)' \ Kicked(w)' = Holders(l)
        BY <3>1, <4>1
      <4>3. Cardinality(Holders(l)) <= MaxConcurrency + granted[l] - 1
        BY <1>1, <3>2, <3>3, LimitAssumption DEF LeasesFull
      <4> QED BY <4>2, <4>3
    <3>4. ASSUME NEW d \in Holders(l), Pick(w, d, "iss_kick")
          PROVE  Cardinality(Holders(l)' \ Kicked(w)') <= MaxConcurrency + granted[l] - 1
      <4>1. req'[w] = [req[w] EXCEPT !.pc = "iss_kick", !.victim = d]
        BY <3>4 DEF Pick, TypeOK
      <4>2. Kicked(w)' = {d}
        BY <4>1 DEF TypeOK, Request, Kicked
      <4>3. Cardinality(Holders(l) \ {d}) \in Nat /\ Cardinality(Holders(l) \ {d}) <= Cardinality(Holders(l)) - 1
        BY <3>4, CreatingFinite, OneLess
      <4>4. Cardinality(Holders(l) \ {d}) <= MaxConcurrency + granted[l] - 1
        BY <1>1, <3>2, <4>3, LimitAssumption
      <4> QED BY <3>1, <4>2, <4>4
    <3> QED BY <2>1, <2>4, <2>8, <3>3, <3>4 DEF IssEnforce, Oldest
  <2>9. CASE IssKick(w)
    <3>1. req[w].pc = "iss_kick" /\ Kicked(w)' = {} /\ HoldFree(w)
      BY <2>9, Moved DEF IssKick, At, Kicked, HoldersAlone
    <3>2. PICK v : v = req[w].victim
      OBVIOUS
    <3>3. Kicked(w) = {v}
      BY <3>1, <3>2 DEF Kicked
    <3>4. Cardinality(Holders(l) \ {v}) <= MaxConcurrency + granted[l] - 1
      BY <2>4, <3>1, <3>3 DEF HoldFree, HoldCalls
    <3>5. LiveLeases(v)' = {}
      BY <2>9, <3>2 DEF IssKick, RevokedFor, LiveLeases, TypeOK, LeaseRow
    <3>6. v \notin Holders(l)'
      BY <3>5 DEF Holders
    <3>7. Holders(l)' \ Kicked(w)' \subseteq Holders(l) \ {v}
      BY <2>5, <3>1, <3>6
    <3>8. IsFiniteSet(Holders(l) \ {v}) /\ Cardinality(Holders(l) \ {v}) \in Nat
      BY CreatingFinite, FS_Subset, FS_CardinalityType
    <3>9. Cardinality(Holders(l)' \ Kicked(w)') <= Cardinality(Holders(l) \ {v})
          /\ Cardinality(Holders(l)' \ Kicked(w)') \in Nat
      BY <3>7, <3>8, SmallerSet
    <3> QED BY <1>1, <3>4, <3>8, <3>9, LimitAssumption
  <2> QED BY <2>2, <2>8, <2>9
<1> QED BY <1>3, <1>4, <1>5

LEMMA HoldElse ==
    ASSUME TypeOK, Owned, OwnerInv, HoldersAlone, [Next]_vars, ~\E w \in Worker : Step(w)
    PROVE  HoldersAlone'
<1>0. \A l \in License : granted[l] \in Nat
  BY GrantAssumption DEF TypeOK
<1>1. ASSUME UNCHANGED granted, \A l \in License : Holders(l)' \subseteq Holders(l),
             \A w \in Worker : req'[w].pc \in HoldCalls =>
                req'[w].pc = req[w].pc /\ req'[w].license = req[w].license /\ req'[w].victim = req[w].victim
      PROVE  HoldersAlone'
  <2>1. ASSUME NEW l \in License, NEW n \in Int, NEW X, Cardinality(Holders(l) \ X) <= n + granted[l]
        PROVE  Cardinality(Holders(l)' \ X) <= n + granted'[l]
    <3>1. Holders(l)' \ X \subseteq Holders(l) \ X
      BY <1>1
    <3> QED BY <1>1, <2>1, <3>1, HoldersShrink
  <2> QED BY <1>0, <1>1, <2>1, HoldersKept
<1>2. ASSUME NEW w \in Worker, Arrive(w) PROVE HoldersAlone'
  <2>1. ASSUME NEW op \in {"activate", "heartbeat", "verify", "deactivate"}, NEW l, NEW d, NEW k, Begin(w, op, l, d, k)
        PROVE  HoldersAlone'
    <3>1. UNCHANGED <<devices, leases, now, granted>> /\ \A v \in Worker : v # w => req'[v] = req[v]
      BY <2>1 DEF Begin, ReadOnly, TypeOK
    <3>2. req'[w].pc = FirstCall(op) /\ FirstCall(op) \notin HoldCalls
      BY <2>1 DEF Begin, TypeOK, FirstCall, HoldCalls
    <3>3. \A m \in License : Holders(m)' \subseteq Holders(m)
      BY <3>1 DEF Holders, LiveLeases
    <3> QED BY <1>1, <3>1, <3>2, <3>3
  <2> QED BY <1>2, <2>1 DEF Arrive, BeginActivate, BeginHeartbeat, BeginVerify, BeginDeactivate
<1>3. ASSUME NEW w \in Worker, Fail(w) PROVE HoldersAlone'
  <2>1. UNCHANGED <<devices, leases, now, granted>>
    BY <1>3 DEF Fail, ReadOnly
  <2>2. \A m \in License : Holders(m)' \subseteq Holders(m)
    BY <2>1 DEF Holders, LiveLeases
  <2> QED BY <1>1, <1>3, <2>1, <2>2 DEF Fail, Answer, Idle, HoldCalls, TypeOK
<1>4. ASSUME NEW l \in License, NEW s \in LicenseStatus, AdminSetLicense(l, s) PROVE HoldersAlone'
  <2>1. \A w \in Worker : req'[w].pc = req[w].pc /\ req'[w].license = req[w].license /\ req'[w].victim = req[w].victim
    BY <1>4 DEF AdminSetLicense, TypeOK, Request
  <2>2. UNCHANGED <<devices, leases, now, granted>>
    BY <1>4 DEF AdminSetLicense
  <2>3. \A m \in License : Holders(m)' \subseteq Holders(m)
    BY <2>2 DEF Holders, LiveLeases
  <2> QED BY <1>1, <2>1, <2>2, <2>3
<1>5. ASSUME NEW d \in DeviceCode, NEW s \in DeviceStatus, AdminSetDevice(d, s) PROVE HoldersAlone'
  <2>1. \A w \in Worker : req'[w].pc = req[w].pc /\ req'[w].license = req[w].license /\ req'[w].victim = req[w].victim
    BY <1>5 DEF AdminSetDevice, TypeOK, Request
  <2>2. \A l \in License : granted'[l] \in Nat
    BY <1>5, <1>0 DEF AdminSetDevice, TypeOK
  <2>3. ASSUME NEW l \in License, NEW n \in Int, NEW X, Cardinality(Holders(l) \ X) <= n + granted[l]
        PROVE  Cardinality(Holders(l)' \ X) <= n + granted'[l]
    BY <1>5, <2>3, HoldersRestore
  <2> QED BY <1>0, <2>1, <2>2, <2>3, HoldersKept
<1>6. CASE Tick \/ UNCHANGED vars
  <2>1. \A l \in License : Holders(l)' \subseteq Holders(l)
    BY <1>6, TimeAssumption DEF Tick, vars, Holders, LiveLeases, TypeOK, LeaseRow
  <2> QED BY <1>1, <1>6, <2>1 DEF Tick, vars
<1> QED BY <1>2, <1>3, <1>4, <1>5, <1>6 DEF Next

\* The devices of a licence that hold a lease exceed the concurrency limit by at
\* most the other requests in flight and what administrators gave back; a server
\* that works on one request at a time keeps the limit under either policy.
THEOREM ConcurrencyLimitHolds == Spec => []ConcurrencyLimit
<1>1. CASE BindingPolicy = "deny_new" /\ MaxConcurrency > 0
  BY <1>1, ConcurrencyDenyNew
<1>2. CASE Cardinality(Worker) = 1 /\ MaxConcurrency > 0
  <2>1. PICK u : Worker = {u}
    BY <1>2, WorkerAssumption, FS_Singleton
  <2>2. Init => HoldersAlone
    <3> SUFFICES ASSUME Init PROVE HoldersAlone
      OBVIOUS
    <3>1. ASSUME NEW l \in License PROVE Cardinality(Holders(l)) <= MaxConcurrency + granted[l]
      <4>1. Holders(l) = {} /\ granted[l] = 0
        BY DEF Init, NoDevice, Holders
      <4> QED BY <4>1, FS_EmptySet, LimitAssumption
    <3> QED BY <3>1 DEF Init, Idle, HoldersAlone, HoldFree, HoldCalls
  <2>3. TypeOK /\ Owned /\ OwnerInv /\ HoldersAlone /\ [Next]_vars => HoldersAlone'
    BY <1>2, <2>1, HoldStep, HoldElse
  <2>4. TypeOK /\ HoldersAlone => ConcurrencyLimit
    <3> SUFFICES ASSUME TypeOK, HoldersAlone, NEW l \in License
                 PROVE  Cardinality(Holders(l)) <= MaxConcurrency + granted[l] + Cardinality(Worker) - 1
      BY DEF ConcurrencyLimit
    <3>1. Cardinality(Holders(l)) <= MaxConcurrency + granted[l] /\ granted[l] \in Nat
      BY GrantAssumption DEF HoldersAlone, TypeOK
    <3> QED BY <1>2, <3>1, LimitAssumption, CreatingFinite
  <2> QED BY <2>2, <2>3, <2>4, TypeCorrect, OwnedInductive, OwnerInductive, PTL DEF Spec
<1>3. CASE ~(MaxConcurrency > 0 /\ (BindingPolicy = "deny_new" \/ Cardinality(Worker) = 1))
  <2>1. ConcurrencyLimit
    BY <1>3 DEF ConcurrencyLimit
  <2> QED BY <2>1, PTL
<1> QED BY <1>1, <1>2, <1>3

-----------------------------------------------------------------------------
(* The device table implements SeatPool *)

\* A request that is about to create a device finds room for it.
RoomToBind ==
    \A w \in Worker : req[w].pc = "act_create" =>
        Cardinality(ActiveDevices(req[w].license)) < MaxDevices + Cardinality(Worker) - 1 + granted[req[w].license]

\* Under deny_new the request itself is one of those that share the seats; a
\* server that works on one request at a time keeps a seat for it.
LEMMA RoomKept ==
    ASSUME BindingPolicy = "deny_new" \/ Cardinality(Worker) = 1
    PROVE  Spec => []RoomToBind
<1>1. CASE BindingPolicy = "deny_new"
  <2>1. TypeOK /\ Owned /\ SeatsAndBinding => RoomToBind
    <3> SUFFICES ASSUME TypeOK, Owned, SeatsAndBinding, NEW w \in Worker, req[w].pc = "act_create"
                 PROVE  Cardinality(ActiveDevices(req[w].license))
                          < MaxDevices + Cardinality(Worker) - 1 + granted[req[w].license]
      BY DEF RoomToBind
    <3>1. PICK l \in License : l = req[w].license
      BY DEF Owned
    <3>2. w \in BindingFor(l)
      BY <3>1 DEF BindingFor
    <3>3. Cardinality(BindingFor(l)) # 0
      BY <3>2, BindingFinite, FS_EmptySet
    <3>4. granted[l] \in Nat
      BY GrantAssumption DEF TypeOK
    <3>5. Cardinality(ActiveDevices(l)) + Cardinality(BindingFor(l)) <= MaxDevices + granted[l] + Cardinality(Worker) - 1
      BY DEF SeatsAndBinding
    <3>6. Cardinality(ActiveDevices(l)) \in Nat /\ Cardinality(BindingFor(l)) \in Nat \ {0} /\ Cardinality(Worker) \in Nat
      BY <3>3, BindingFinite
    <3>7. Cardinality(ActiveDevices(l)) < MaxDevices + Cardinality(Worker) - 1 + granted[l]
      BY <3>4, <3>5, <3>6, LimitAssumption
    <3> QED BY <3>1, <3>7
  <2> QED BY <1>1, <2>1, SeatsShared, TypeCorrect, OwnedInductive, PTL
<1>2. CASE Cardinality(Worker) = 1
  <2>1. TypeOK /\ Owned /\ SeatsAlone => RoomToBind
    <3> SUFFICES ASSUME TypeOK, Owned, SeatsAlone, NEW w \in Worker, req[w].pc = "act_create"
                 PROVE  Cardinality(ActiveDevices(req[w].license))
                          < MaxDevices + Cardinality(Worker) - 1 + granted[req[w].license]
      BY DEF RoomToBind
    <3>1. PICK l \in License : l = req[w].license
      BY DEF Owned
    <3>2. Cardinality(ActiveDevices(l)) <= MaxDevices + granted[l] - 1
      BY <3>1 DEF SeatsAlone, SeatFree
    <3>3. granted[l] \in Nat
      BY GrantAssumption DEF TypeOK
    <3>4. Cardinality(ActiveDevices(l)) < MaxDevices + Cardinality(Worker) - 1 + granted[l]
      BY <1>2, <3>2, <3>3, BindingFinite, LimitAssumption
    <3> QED BY <3>1, <3>4
  <2> QED BY <1>2, <2>1, SeatsKept, TypeCorrect, OwnedInductive, PTL
<1> QED BY <1>1, <1>2

\* The seats of SeatPool are the active devices.
LEMMA PoolSeats ==
    ASSUME NEW l
    PROVE  Pool!Seats(l) = ActiveDevices(l)
  BY DEF Pool!Seats, ActiveDevices

\* The cardinality SeatPool counts by is the one of this module.
LEMMA PoolCounts ==
    ASSUME NEW S
    PROVE  Pool!Cardinality(S) = Cardinality(S)
  BY DEF Pool!Cardinality, Cardinality

\* Owners and seats, and the seats given back, are all of the device table that SeatPool sees.
LEMMA PoolStutter ==
    ASSUME \A d \in DeviceCode : /\ devices'[d].license = devices[d].license
                                 /\ devices'[d].status = "active" <=> devices[d].status = "active",
           UNCHANGED granted
    PROVE  UNCHANGED Pool!poolVars
  BY DEF Pool!poolVars

LEMMA PoolRelease ==
    ASSUME TypeOK, NEW d \in DeviceCode, devices[d].status = "active", UNCHANGED granted,
           devices' = [devices EXCEPT ![d].status = "removed"]
    PROVE  Pool!Release(d)
<1>1. devices'[d].status = "removed" /\ devices'[d].license = devices[d].license
  BY DEF TypeOK, DeviceRow
<1>2. \A c \in DeviceCode : c # d => devices'[c] = devices[c]
  BY DEF TypeOK
<1> QED BY <1>1, <1>2 DEF Pool!Release

\* Every step of a request is a binding, a release or a stutter.
LEMMA PoolStep ==
    ASSUME TypeOK, Owned, RoomToBind, NEW w \in Worker, Step(w)
    PROVE  [Pool!PoolNext]_Pool!poolVars
<1>1. UNCHANGED granted
  BY StepFrame
<1>2. CASE UNCHANGED devices
  BY <1>1, <1>2, PoolStutter
<1>3. CASE ActTouch(w) \/ HbTouch(w)
  <2>1. devices' = [devices EXCEPT ![req[w].device].lastSeen = now]
    BY <1>3 DEF ActTouch, HbTouch, SetLastSeen
  <2>2. \A d \in DeviceCode : devices'[d].license = devices[d].license /\ devices'[d].status = devices[d].status
    BY <2>1 DEF TypeOK, DeviceRow
  <2> QED BY <1>1, <2>2, PoolStutter
<1>4. ASSUME NEW c, SetDeviceStatus(c, "removed"), devices[c].status # "none"
      PROVE  [Pool!PoolNext]_Pool!poolVars
  <2>1. CASE c \in DeviceCode /\ devices[c].status = "active"
    BY <1>1, <1>4, <2>1, PoolRelease DEF SetDeviceStatus, Pool!PoolNext
  <2>2. CASE ~(c \in DeviceCode /\ devices[c].status = "active")
    <3>1. \A d \in DeviceCode : /\ devices'[d].license = devices[d].license
                                /\ devices'[d].status = "active" <=> devices[d].status = "active"
      BY <1>4, <2>2 DEF SetDeviceStatus, TypeOK, DeviceRow
    <3> QED BY <1>1, <3>1, PoolStutter
  <2> QED BY <2>1, <2>2
<1>5. CASE ActKick(w) \/ DeaRemove(w)
  BY <1>4, <1>5 DEF ActKick, DeaRemove, At, Owned
<1>6. CASE ActCreate(w) /\ ~UNCHANGED devices
  <2>1. PICK d : d = req[w].device
    OBVIOUS
  <2>2. PICK l \in License : l = req[w].license
    BY <1>6 DEF ActCreate, At, Owned
  <2>3. devices[d].status = "none" /\ devices' = [devices EXCEPT ![d] = [status |-> "active", license |-> l, lastSeen |-> now]]
    BY <1>6, <2>1, <2>2 DEF ActCreate, Known
  <2>4. d \in DeviceCode
    BY <1>6, <2>3 DEF TypeOK
  <2>5. devices[d].license = None
    BY <2>3, <2>4 DEF Owned
  <2>6. Pool!Cardinality(Pool!Seats(l)) < MaxDevices + Cardinality(Worker) - 1 + granted[l]
    <3>1. Cardinality(ActiveDevices(l)) < MaxDevices + Cardinality(Worker) - 1 + granted[l]
      BY <1>6, <2>2 DEF ActCreate, At, RoomToBind
    <3> QED BY <3>1, PoolSeats, PoolCounts
  <2>7. devices'[d].license = l /\ devices'[d].status = "active" /\ \A c \in DeviceCode : c # d => devices'[c] = devices[c]
    BY <2>3, <2>4 DEF TypeOK
  <2>8. [c \in DeviceCode |-> devices'[c].license] = [[c \in DeviceCode |-> devices[c].license] EXCEPT ![d] = l]
    BY <2>4, <2>7
  <2>9. {c \in DeviceCode : devices'[c].status = "active"} = {c \in DeviceCode : devices[c].status = "active"} \union {d}
    BY <2>4, <2>7
  <2>10. Pool!Bind(l, d)
    BY <1>1, <2>4, <2>5, <2>6, <2>8, <2>9 DEF Pool!Bind
  <2> QED BY <2>4, <2>10 DEF Pool!PoolNext
<1> QED BY <1>2, <1>3, <1>5, <1>6
        DEF Step, Check, ReadOnly, ActLicense, ActDevice, ActCount, ActOldest, ActKickLeases, ActStamp,
            IssRevoke, IssEnforce, IssKick, IssCreate, ReadLease, ExpireLease, HbLicense, HbRevoke,
            VerLicense, VerDevice, VerOk, DeaLicense, DeaDevice, DeaLeases

\* An administrator restores a device or releases it.
LEMMA PoolAdmin ==
    ASSUME TypeOK, Owned, NEW d \in DeviceCode, NEW s \in DeviceStatus, AdminSetDevice(d, s)
    PROVE  [Pool!PoolNext]_Pool!poolVars
<1>1. devices[d].status # "none" /\ devices[d].status # s /\ devices' = [devices EXCEPT ![d].status = s]
  BY DEF AdminSetDevice, SetDeviceStatus
<1>2. devices[d].license \in License
  BY <1>1 DEF Owned
<1>3. CASE s = "active"
  <2>1. devices'[d].license = devices[d].license /\ devices'[d].status = "active"
        /\ \A c \in DeviceCode : c # d => devices'[c] = devices[c]
    BY <1>1, <1>3 DEF TypeOK, DeviceRow
  <2>2. granted' = [granted EXCEPT ![devices[d].license] = @ + 1]
    BY <1>3 DEF AdminSetDevice
  <2>3. Pool!Restore(d)
    BY <1>1, <1>2, <1>3, <2>1, <2>2, NoneAssumption DEF Pool!Restore
  <2> QED BY <2>3 DEF Pool!PoolNext
<1>4. CASE s # "active"
  <2>1. s = "removed" /\ UNCHANGED granted
    BY <1>4 DEF AdminSetDevice, DeviceStatus
  <2>2. devices[d].status = "active"
    BY <1>1, <2>1 DEF TypeOK, DeviceRow, DeviceStatus
  <2> QED BY <1>1, <2>1, <2>2, PoolRelease DEF Pool!PoolNext
<1> QED BY <1>3, <1>4

\* The device table keeps the promises of SeatPool: a code is bound once, to one
\* licence, while that licence has room, and keeps its owner; only an
\* administrator gives a seat back.
THEOREM DevicesImplementSeatPool ==
    ASSUME BindingPolicy = "deny_new" \/ Cardinality(Worker) = 1
    PROVE  Spec => ImplementsSeatPool
<1>1. Init => Pool!PoolInit
  BY DEF Init, NoDevice, Pool!PoolInit
<1>2. TypeOK /\ Owned /\ RoomToBind /\ [Next]_vars => [Pool!PoolNext]_Pool!poolVars
  <2> SUFFICES ASSUME TypeOK, Owned, RoomToBind, [Next]_vars PROVE [Pool!PoolNext]_Pool!poolVars
    OBVIOUS
  <2>1. CASE UNCHANGED <<devices, granted>>
    BY <2>1, PoolStutter
  <2>2. CASE \E w \in Worker : Step(w)
    BY <2>2, PoolStep
  <2>3. CASE \E d \in DeviceCode, s \in DeviceStatus : AdminSetDevice(d, s)
    BY <2>3, PoolAdmin
  <2> QED BY <2>1, <2>2, <2>3
          DEF Next, vars, Arrive, BeginActivate, BeginHeartbeat, BeginVerify, BeginDeactivate, Begin, ReadOnly,
              Fail, AdminSetLicense, Tick
<1>3. Spec => [](TypeOK /\ Owned /\ RoomToBind)
  BY TypeCorrect, OwnedInductive, RoomKept, PTL
<1> QED BY <1>1, <1>2, <1>3, PTL DEF Spec, ImplementsSeatPool, Pool!PoolSpec
=============================================================================

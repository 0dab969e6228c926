-------------------------- MODULE RiskWatchProofs --------------------------
(***************************************************************************)
(* Proofs about RiskWatch: the version comparison computes the order it is *)
(* meant to, and no window fills up without an event, for any number of    *)
(* requests, thresholds and windows.                                       *)
(***************************************************************************)
EXTENDS RiskWatch, FiniteSetTheorems, WellFoundedInduction, TLAPS

\* A non-empty set of natural numbers has a least element.
LEMMA LeastNumber ==
    ASSUME NEW D \in SUBSET Nat, D # {}
    PROVE  \E i \in D : \A j \in D : i <= j
<1> DEFINE R == {p \in Nat \X Nat : p[1] < p[2]}
<1>1. IsWellFoundedOn(R, Nat)
  BY NatLessThanWellFounded DEF OpToRel
<1>2. PICK i \in D : \A j \in D : <<j, i>> \notin R
  <2> HIDE DEF R
  <2> QED
    BY <1>1, WFMin
<1>3. ASSUME NEW j \in D
      PROVE  i <= j
  <2>1. <<j, i>> \in Nat \X Nat /\ <<j, i>>[1] = j /\ <<j, i>>[2] = i
    OBVIOUS
  <2>2. ~(j < i)
    BY <1>2, <2>1
  <2> QED
    BY <2>2
<1> QED
  BY <1>3

\* Parts of versions are numbers.
LEMMA PartNumber ==
    ASSUME NEW v \in Version, NEW i \in Nat
    PROVE  Part(v, i) \in Nat
BY DEF Part, Version, Parts, NaN

\* compareVersion decides the order versions are meant to have.
LEMMA CompareDecides ==
    ASSUME NEW l \in Version, NEW r \in Version
    PROVE  compareVersion(l, r) < 0 <=> Precedes(l, r)
<1> DEFINE n == Larger(Len(l), Len(r))
           D == Differing(l, r)
           first == CHOOSE i \in D : \A j \in D : i <= j
<1>1. n \in Nat /\ D \in SUBSET Nat /\ D \subseteq 1 .. n
  BY DEF Larger, Version, Differing
<1>2. \A i \in Nat : Part(l, i) \in Nat /\ Part(r, i) \in Nat
  BY PartNumber
<1>3. CASE D = {}
  <2>1. \A i \in 1 .. n : Part(l, i) = Part(r, i)
    BY <1>3 DEF Differing
  <2> QED
    BY <1>1, <1>2, <1>3, <2>1 DEF compareVersion, Precedes
<1>4. CASE D # {}
  <2>1. first \in D /\ \A j \in D : first <= j
    BY <1>1, <1>4, LeastNumber
  <2>2. compareVersion(l, r) = Part(l, first) - Part(r, first)
    BY <1>4 DEF compareVersion
  <2>3. Part(l, first) # Part(r, first) /\ first \in 1 .. n
    BY <2>1 DEF Differing
  <2>4. \A j \in 1 .. n : Part(l, j) # Part(r, j) => j \in D
    BY DEF Differing
  <2> HIDE DEF first, D, n
  <2>5. \A j \in 1 .. first - 1 : Part(l, j) = Part(r, j)
    BY <1>1, <2>1, <2>3, <2>4
  <2>6. ASSUME Part(l, first) < Part(r, first)
        PROVE  Precedes(l, r)
    BY <2>3, <2>5, <2>6 DEF Precedes, n
  <2>7. ASSUME Precedes(l, r)
        PROVE  Part(l, first) < Part(r, first)
    <3>1. PICK i \in 1 .. n : Part(l, i) < Part(r, i) /\ \A j \in 1 .. i - 1 : Part(l, j) = Part(r, j)
      BY <2>7 DEF Precedes, n
    <3>2. i \in D /\ first <= i
      BY <1>1, <1>2, <2>1, <2>4, <3>1
    <3>3. first = i
      BY <1>1, <2>3, <3>1, <3>2
    <3> QED
      BY <3>1, <3>3
  <2>8. first \in Nat
    BY <1>1, <2>3
  <2> QED
    BY <1>2, <2>2, <2>6, <2>7, <2>8
<1> QED
  BY <1>3, <1>4

\* The order is one: a version precedes no other that precedes it, and of two
\* versions that differ in a part one precedes the other.
THEOREM VersionsOrdered ==
    ASSUME NEW l \in Version, NEW r \in Version
    PROVE  /\ compareVersion(l, r) < 0 => ~(compareVersion(r, l) < 0)
           /\ Differing(l, r) # {} => compareVersion(l, r) < 0 \/ compareVersion(r, l) < 0
<1>1. Differing(l, r) = Differing(r, l)
  BY DEF Differing, Larger, Version
<1>2. \A i \in Nat : Part(l, i) \in Nat /\ Part(r, i) \in Nat
  BY PartNumber
<1>3. Differing(l, r) \in SUBSET Nat
  BY DEF Differing, Larger, Version
<1> DEFINE first == CHOOSE i \in Differing(l, r) : \A j \in Differing(l, r) : i <= j
<1>4. CASE Differing(l, r) = {}
  BY <1>1, <1>4 DEF compareVersion
<1>5. CASE Differing(l, r) # {}
  <2>1. first \in Differing(l, r)
    BY <1>3, <1>5, LeastNumber
  <2>2. Part(l, first) # Part(r, first)
    BY <2>1 DEF Differing
  <2>3. /\ compareVersion(l, r) = Part(l, first) - Part(r, first)
        /\ compareVersion(r, l) = Part(r, first) - Part(l, first)
    BY <1>1, <1>5 DEF compareVersion
  <2>4. first \in Nat
    BY <1>3, <2>1
  <2> HIDE DEF first
  <2> QED
    BY <1>2, <2>2, <2>3, <2>4
<1> QED
  BY <1>4, <1>5
-----------------------------------------------------------------------------
(* Type correctness, and the facts about rows and requests the rest needs. *)

\* Requests name a device or a version where their next call needs one.
Addressed ==
    \A w \in Worker :
        /\ req[w].pc \in {"hb_version", "hb_log", "hb_count", "hb_event", "dea_remove", "dea_inspect", "dea_event"}
              => req[w].device \in Device
        /\ req[w] # Idle => req[w].pc # "idle"

\* Nothing is dated in the future, and tables can be counted.
Timely ==
    /\ \A r \in activations \union heartbeats \union events : r.at <= now
    /\ IsFiniteSet(activations) /\ IsFiniteSet(heartbeats)

Base == WatchTypeOK /\ Addressed /\ Timely

LEMMA IdleRequest == Idle \in Request /\ Idle.pc = "idle" /\ Idle.old = FALSE
BY DEF Idle, Request, Version, Parts

\* A step of one request that puts it at another call.
LEMMA GotoKeeps ==
    ASSUME req \in [Worker -> Request], Addressed, NEW w \in Worker, NEW pc, Goto(w, pc),
           pc \in {"act_event", "act_ips", "act_ipEvent", "act_bind", "act_log",
                   "hb_log", "hb_event", "dea_inspect", "dea_event"},
           pc \in {"hb_log", "hb_event", "dea_inspect", "dea_event"} => req[w].device \in Device
    PROVE  req' \in [Worker -> Request] /\ Addressed'
<1>1. req' = [req EXCEPT ![w].pc = pc]
  BY DEF Goto
<1>2. req'[w] = [req[w] EXCEPT !.pc = pc] /\ req[w] \in Request
  BY <1>1
<1>3. req'[w] \in Request /\ req'[w].pc = pc /\ req'[w].device = req[w].device
  BY <1>2 DEF Request
<1>4. \A x \in Worker : x # w => req'[x] = req[x]
  BY <1>1
<1>5. req' \in [Worker -> Request]
  BY <1>1, <1>3, <1>4
<1> QED
  BY <1>3, <1>4, <1>5, IdleRequest DEF Addressed

LEMMA AnswerKeeps ==
    ASSUME req \in [Worker -> Request], Addressed, NEW w \in Worker, Answer(w)
    PROVE  req' \in [Worker -> Request] /\ Addressed'
BY IdleRequest DEF Answer, Addressed

LEMMA UnboundTyped ==
    ASSUME devices \in [Device -> DeviceRow], NEW d \in Device
    PROVE  Unbound(d) \in [Device -> DeviceRow]
BY DEF Unbound, DeviceRow

LEMMA RaiseKeeps ==
    ASSUME Base, NEW type \in EventType, NEW d \in Device \union {None}, Raise(type, d)
    PROVE  events' \subseteq Event /\ \A e \in events' : e.at <= now
BY DEF Base, WatchTypeOK, Timely, Raise, Event

\* What Timely needs of a step that changes neither log nor clock.
LEMMA TimelyKept ==
    ASSUME Base, UNCHANGED <<now, activations, heartbeats>>, \A e \in events' : e.at <= now
    PROVE  Timely'
BY DEF Base, Timely

LEMMA BaseInit == Init => Base
BY IdleRequest, FS_EmptySet, WindowAssumption DEF Init, Base, WatchTypeOK, Addressed, Timely, DeviceRow

LEMMA ArriveBase ==
    ASSUME Base, NEW w \in Worker, BeginActivate(w) \/ BeginHeartbeat(w) \/ BeginDeactivate(w)
    PROVE  Base'
<1>1. req \in [Worker -> Request] /\ Addressed
  BY DEF Base, WatchTypeOK
<1>2. ASSUME NEW q \in Request, Arrive(w, q), Kept, q.pc # "idle",
             q.pc # "act_count" => q.device \in Device
      PROVE  Base'
  <2>1. req' = [req EXCEPT ![w] = q]
    BY <1>2 DEF Arrive
  <2>2. req' \in [Worker -> Request] /\ Addressed'
    BY <1>1, <1>2, <2>1 DEF Addressed
  <2> QED
    BY <1>2, <2>2 DEF Kept, Base, WatchTypeOK, Timely
<1>3. CASE BeginActivate(w)
  <2>1. PICK i \in Ip \union {None} :
           Arrive(w, [Idle EXCEPT !.op = "activate", !.pc = "act_count", !.ip = i])
    BY <1>3 DEF BeginActivate
  <2> DEFINE q == [Idle EXCEPT !.op = "activate", !.pc = "act_count", !.ip = i]
  <2>2. q \in Request /\ q.pc = "act_count"
    BY IdleRequest DEF Idle, Request
  <2> HIDE DEF q
  <2> QED
    BY <1>2, <1>3, <2>1, <2>2 DEF q, BeginActivate
<1>4. CASE BeginHeartbeat(w)
  <2>1. PICK d \in Device, v \in Versions :
           Arrive(w, [Idle EXCEPT !.op = "heartbeat", !.pc = "hb_version", !.device = d,
                                  !.version = v, !.old = TooOld(policy, v)])
    BY <1>4 DEF BeginHeartbeat
  <2> DEFINE o == TooOld(policy, v)
             q == [Idle EXCEPT !.op = "heartbeat", !.pc = "hb_version", !.device = d, !.version = v, !.old = o]
  <2>2. o \in BOOLEAN
    BY DEF TooOld, Precedes
  <2> HIDE DEF o
  <2>3. q \in Request /\ q.pc = "hb_version" /\ q.device = d
    BY <2>2, VersionAssumption DEF Idle, Request
  <2>4. Arrive(w, q)
    BY <2>1 DEF o
  <2> HIDE DEF q
  <2> QED
    BY <1>2, <1>4, <2>3, <2>4 DEF BeginHeartbeat
<1>5. CASE BeginDeactivate(w)
  <2>1. PICK d \in Device :
           Arrive(w, [Idle EXCEPT !.op = "deactivate", !.pc = "dea_remove", !.device = d]) /\ Kept
    BY <1>5 DEF BeginDeactivate
  <2> DEFINE q == [Idle EXCEPT !.op = "deactivate", !.pc = "dea_remove", !.device = d]
  <2>2. q \in Request /\ q.pc = "dea_remove" /\ q.device = d
    BY IdleRequest DEF Idle, Request
  <2> HIDE DEF q
  <2> QED
    BY <1>2, <2>1, <2>2 DEF q
<1> QED
  BY <1>3, <1>4, <1>5

LEMMA ActivateBase ==
    ASSUME Base, NEW w \in Worker,
           ActCount(w) \/ ActEvent(w) \/ ActIps(w) \/ ActIpEvent(w) \/ ActBind(w) \/ ActLog(w)
    PROVE  Base'
<1>1. req \in [Worker -> Request] /\ Addressed
  BY DEF Base, WatchTypeOK
<1>2. CASE ActCount(w) \/ ActIps(w)
  <2>1. req' \in [Worker -> Request] /\ Addressed'
    BY <1>1, <1>2, GotoKeeps DEF ActCount, ActIps
  <2> QED
    BY <1>2, <2>1 DEF ActCount, ActIps, Kept, Base, WatchTypeOK, Timely
<1>3. CASE ActEvent(w) \/ ActIpEvent(w)
  <2>1. req' \in [Worker -> Request] /\ Addressed'
    BY <1>1, <1>3, GotoKeeps DEF ActEvent, ActIpEvent
  <2>2. events' \subseteq Event /\ \A e \in events' : e.at <= now
    BY <1>3, RaiseKeeps DEF ActEvent, ActIpEvent, EventType
  <2>3. Timely'
    BY <1>3, <2>2, TimelyKept DEF ActEvent, ActIpEvent
  <2> QED
    BY <1>3, <2>1, <2>2, <2>3 DEF ActEvent, ActIpEvent, Base, WatchTypeOK
<1>4. CASE ActBind(w)
  <2>1. req' \in [Worker -> Request] /\ Addressed'
    BY <1>1, <1>4, GotoKeeps DEF ActBind
  <2>2. devices' \in [Device -> DeviceRow]
    BY <1>4, UnboundTyped DEF ActBind, Base, WatchTypeOK
  <2> QED
    BY <1>4, <2>1, <2>2 DEF ActBind, Base, WatchTypeOK, Timely
<1>5. CASE ActLog(w)
  <2> DEFINE id == Cardinality(activations) + 1
             row == [id |-> id, at |-> now, ip |-> req[w].ip]
  <2>1. req' \in [Worker -> Request] /\ Addressed'
    BY <1>1, <1>5, AnswerKeeps DEF ActLog
  <2>2. id \in Nat /\ now \in Nat /\ req[w].ip \in Ip \union {None}
    BY <1>1, FS_CardinalityType DEF Base, WatchTypeOK, Timely, Request
  <2>3. row \in Activation /\ row.at = now
    BY <2>2 DEF Activation
  <2>4. activations' = activations \union {row}
    BY <1>5 DEF ActLog
  <2> HIDE DEF row
  <2>5. IsFiniteSet(activations')
    BY <2>4, FS_AddElement DEF Base, Timely
  <2> QED
    BY <1>5, <2>1, <2>2, <2>3, <2>4, <2>5 DEF ActLog, Base, WatchTypeOK, Timely
<1> QED
  BY <1>2, <1>3, <1>4, <1>5

\* The completed inspection changes a field no clock reads.
LEMMA InspectedKeeps ==
    ASSUME Base, NEW w \in Worker, Inspected(w), now' = now
    PROVE  /\ heartbeats' \subseteq Heartbeat /\ IsFiniteSet(heartbeats')
           /\ \A r \in heartbeats' : r.at <= now
           /\ req' \in [Worker -> Request] /\ Addressed'
<1> DEFINE f == [r \in heartbeats |->
                    IF r.id = req[w].row /\ r.device = req[w].device THEN [r EXCEPT !.seen = now] ELSE r]
<1>1. heartbeats' = {f[r] : r \in heartbeats}
  BY DEF Inspected
<1>2. IsFiniteSet(heartbeats')
  <2>1. IsFiniteSet(heartbeats)
    BY DEF Base, Timely
  <2>2. f \in Surjection(heartbeats, heartbeats')
    BY <1>1 DEF Surjection
  <2> QED
    BY <2>1, <2>2, FS_Surjection
<1>3. \A r \in heartbeats : f[r] \in Heartbeat /\ f[r].at = r.at
  BY DEF Base, WatchTypeOK, Heartbeat
<1>4. \A r \in heartbeats : r.at <= now
  BY DEF Base, Timely
<1>5. heartbeats' \subseteq Heartbeat /\ \A r \in heartbeats' : r.at <= now
  <2> HIDE DEF f
  <2> QED
    BY <1>1, <1>3, <1>4
<1>6. req' \in [Worker -> Request] /\ Addressed'
  BY AnswerKeeps DEF Inspected, Base, WatchTypeOK
<1> QED
  BY <1>2, <1>5, <1>6

LEMMA HeartbeatBase ==
    ASSUME Base, NEW w \in Worker, HbVersion(w) \/ HbLog(w) \/ HbCount(w) \/ HbEvent(w)
    PROVE  Base'
<1>1. req \in [Worker -> Request] /\ Addressed
  BY DEF Base, WatchTypeOK
<1>2. CASE HbVersion(w)
  <2>1. req' \in [Worker -> Request] /\ Addressed'
    BY <1>1, <1>2, GotoKeeps, AnswerKeeps DEF HbVersion, At, Addressed
  <2> QED
    BY <1>2, <2>1 DEF HbVersion, Kept, Base, WatchTypeOK, Timely
<1>3. CASE HbLog(w)
  <2> DEFINE id == Cardinality(heartbeats) + 1
             row == [id |-> id, at |-> now, device |-> req[w].device, seen |-> Never]
  <2>1. id \in Nat /\ now \in Nat /\ req[w].device \in Device
    BY <1>1, <1>3, FS_CardinalityType DEF HbLog, At, Addressed, Base, WatchTypeOK, Timely
  <2>2. row \in Heartbeat /\ row.at = now
    BY <2>1 DEF Heartbeat
  <2>3. heartbeats' = heartbeats \union {row}
    BY <1>3 DEF HbLog
  <2>4. req' = [req EXCEPT ![w] = [@ EXCEPT !.pc = "hb_count", !.row = id]]
    BY <1>3 DEF HbLog
  <2> HIDE DEF row, id
  <2>5. IsFiniteSet(heartbeats')
    BY <2>3, FS_AddElement DEF Base, Timely
  <2>6. req'[w] \in Request /\ req'[w].pc = "hb_count" /\ req'[w].device \in Device
    BY <1>1, <2>1, <2>4 DEF Request
  <2>7. req' \in [Worker -> Request] /\ Addressed'
    BY <1>1, <2>4, <2>6, IdleRequest DEF Addressed
  <2> QED
    BY <1>3, <2>1, <2>2, <2>3, <2>5, <2>7 DEF HbLog, Base, WatchTypeOK, Timely
<1>4. CASE HbCount(w)
  <2>1. CASE Goto(w, "hb_event") /\ UNCHANGED heartbeats
    <3>1. req' \in [Worker -> Request] /\ Addressed'
      BY <1>1, <1>4, <2>1, GotoKeeps DEF HbCount, At, Addressed
    <3> QED
      BY <1>4, <2>1, <3>1 DEF HbCount, Base, WatchTypeOK, Timely
  <2>2. CASE Inspected(w)
    BY <1>4, <2>2, InspectedKeeps DEF HbCount, Base, WatchTypeOK, Timely
  <2> QED
    BY <1>4, <2>1, <2>2 DEF HbCount
<1>5. CASE HbEvent(w)
  <2>1. req[w].device \in Device
    BY <1>1, <1>5 DEF HbEvent, At, Addressed
  <2>2. events' \subseteq Event /\ \A e \in events' : e.at <= now
    BY <1>5, <2>1, RaiseKeeps DEF HbEvent, EventType
  <2>3. Inspected(w) /\ UNCHANGED <<now, policy, devices, activations, left>>
    BY <1>5 DEF HbEvent
  <2> QED
    BY <2>2, <2>3, InspectedKeeps DEF Base, WatchTypeOK, Timely
<1> QED
  BY <1>2, <1>3, <1>4, <1>5

LEMMA DeactivateBase ==
    ASSUME Base, NEW w \in Worker, DeaRemove(w) \/ DeaInspect(w) \/ DeaEvent(w) \/ Fail(w)
    PROVE  Base'
<1>1. req \in [Worker -> Request] /\ Addressed
  BY DEF Base, WatchTypeOK
<1>2. CASE DeaRemove(w)
  <2>1. req[w].device \in Device
    BY <1>1, <1>2 DEF DeaRemove, At, Addressed
  <2>2. req' \in [Worker -> Request] /\ Addressed'
    BY <1>1, <1>2, <2>1, GotoKeeps DEF DeaRemove
  <2>3. devices' \in [Device -> DeviceRow]
    BY <1>2, <2>1, UnboundTyped DEF DeaRemove, Base, WatchTypeOK
  <2> QED
    BY <1>2, <2>2, <2>3 DEF DeaRemove, Base, WatchTypeOK, Timely
<1>3. ASSUME Left(w), req[w].device \in Device
      PROVE  left' \in [Device -> Nat] /\ req' \in [Worker -> Request] /\ Addressed'
  BY <1>1, <1>3, AnswerKeeps DEF Left, Base, WatchTypeOK
<1>4. CASE DeaInspect(w)
  <2>1. req[w].device \in Device
    BY <1>1, <1>4 DEF DeaInspect, At, Addressed
  <2>2. left' \in [Device -> Nat] /\ req' \in [Worker -> Request] /\ Addressed'
    <3>1. CASE Left(w)
      BY <1>3, <2>1, <3>1
    <3>2. CASE Goto(w, "dea_event") /\ UNCHANGED left
      BY <1>1, <2>1, <3>2, GotoKeeps DEF Base, WatchTypeOK
    <3> QED
      BY <1>4, <3>1, <3>2 DEF DeaInspect
  <2> QED
    BY <1>4, <2>2 DEF DeaInspect, Base, WatchTypeOK, Timely
<1>5. CASE DeaEvent(w)
  <2>1. req[w].device \in Device
    BY <1>1, <1>5 DEF DeaEvent, At, Addressed
  <2>2. events' \subseteq Event /\ \A e \in events' : e.at <= now
    BY <1>5, <2>1, RaiseKeeps DEF DeaEvent, EventType
  <2>3. left' \in [Device -> Nat] /\ req' \in [Worker -> Request] /\ Addressed'
    BY <1>3, <1>5, <2>1 DEF DeaEvent
  <2> QED
    BY <1>5, <2>2, <2>3 DEF DeaEvent, Base, WatchTypeOK, Timely
<1>6. CASE Fail(w)
  BY <1>1, <1>6, AnswerKeeps DEF Fail, Kept, Base, WatchTypeOK, Timely
<1> QED
  BY <1>2, <1>4, <1>5, <1>6

\* A new policy changes nothing of a request but its history.
LEMMA PublishKeeps ==
    ASSUME Base, NEW p \in Policies, Publish(p), NEW w \in Worker
    PROVE  /\ req'[w] \in Request
           /\ req'[w].pc = req[w].pc /\ req'[w].op = req[w].op /\ req'[w].device = req[w].device
           /\ req'[w].ip = req[w].ip /\ req'[w].version = req[w].version
           /\ req'[w].old <=> req[w].old /\ TooOld(p, req[w].version)
           /\ req'[w] # Idle => req[w] # Idle
<1> DEFINE o == req[w].old /\ TooOld(p, req[w].version)
<1>1. req'[w] = [req[w] EXCEPT !.old = o]
  BY DEF Publish
<1>2. req[w] \in Request /\ req[w].old \in BOOLEAN /\ o \in BOOLEAN
  BY DEF Base, WatchTypeOK, Request, TooOld, Precedes
<1>3. (o <=> req[w].old /\ TooOld(p, req[w].version)) /\ (o => req[w].old)
  OBVIOUS
<1> HIDE DEF o
<1>4. /\ req'[w] \in Request /\ req'[w].old = o
      /\ req'[w].pc = req[w].pc /\ req'[w].op = req[w].op /\ req'[w].device = req[w].device
      /\ req'[w].ip = req[w].ip /\ req'[w].version = req[w].version
  BY <1>1, <1>2 DEF Request
<1>5. ASSUME req[w] = Idle
      PROVE  req'[w] = Idle
  <2>1. o = FALSE
    BY <1>2, <1>3, <1>5, IdleRequest
  <2>2. [Idle EXCEPT !.old = FALSE] = Idle
    <3>1. \A q \in Request : [q EXCEPT !.old = q.old] = q
      BY DEF Request
    <3> QED
      BY <3>1, IdleRequest
  <2> QED
    BY <1>1, <1>5, <2>1, <2>2
<1> QED
  BY <1>3, <1>4, <1>5

LEMMA OutsideBase ==
    ASSUME Base,
           \/ \E p \in Policies : Publish(p)
           \/ \E d \in Device : ApproveUnbind(d) \/ \E s \in {"active", "removed"} : AdminSetDevice(d, s)
           \/ Tick
           \/ UNCHANGED vars
    PROVE  Base'
<1>1. ASSUME NEW p \in Policies, Publish(p)
      PROVE  Base'
  <2>1. \A w \in Worker : req'[w] \in Request
    BY <1>1, PublishKeeps
  <2>2. req' = [w \in Worker |-> req'[w]]
    BY <1>1 DEF Publish
  <2>3. req' \in [Worker -> Request]
    BY <2>1, <2>2
  <2>4. Addressed'
    BY <1>1, PublishKeeps DEF Addressed, Base
  <2> QED
    BY <1>1, <2>3, <2>4 DEF Publish, Base, WatchTypeOK, Timely
<1>2. ASSUME NEW d \in Device, ApproveUnbind(d)
      PROVE  Base'
  <2>1. devices' \in [Device -> DeviceRow]
    BY <1>2, UnboundTyped DEF ApproveUnbind, Base, WatchTypeOK
  <2> QED
    BY <1>2, <2>1 DEF ApproveUnbind, Base, WatchTypeOK, Timely, Addressed
<1>3. ASSUME NEW d \in Device, NEW s \in {"active", "removed"}, AdminSetDevice(d, s)
      PROVE  Base'
  <2>1. devices' \in [Device -> DeviceRow]
    BY <1>3 DEF AdminSetDevice, Base, WatchTypeOK, DeviceRow
  <2> QED
    BY <1>3, <2>1 DEF AdminSetDevice, Base, WatchTypeOK, Timely, Addressed
<1>4. CASE Tick
  <2>1. now' \in 0 .. MaxTime /\ now <= now'
    BY <1>4, WindowAssumption DEF Tick, Base, WatchTypeOK
  <2>2. \A r \in activations \union heartbeats \union events : r.at \in Nat
    BY DEF Base, WatchTypeOK, Activation, Heartbeat, Event
  <2>3. \A r \in activations \union heartbeats \union events : r.at <= now'
    BY <2>1, <2>2 DEF Base, WatchTypeOK, Timely
  <2> QED
    BY <1>4, <2>1, <2>3 DEF Tick, Base, WatchTypeOK, Timely, Addressed
<1>5. CASE UNCHANGED vars
  BY <1>5 DEF vars, Base, WatchTypeOK, Timely, Addressed
<1> QED
  BY <1>1, <1>2, <1>3, <1>4, <1>5

\* Rows, events and requests stay well formed (activation, heartbeat and
\* deactivation handlers with RiskService and AuditService).
LEMMA BaseStep == Base /\ [Next]_vars => Base'
BY ArriveBase, ActivateBase, HeartbeatBase, DeactivateBase, OutsideBase DEF Next, Step

THEOREM BaseHolds == Spec => []Base
BY BaseInit, BaseStep, PTL DEF Spec

THEOREM WatchTypeCorrect == Spec => []WatchTypeOK
<1>1. Base => WatchTypeOK
  BY DEF Base
<1> QED
  BY <1>1, BaseHolds, PTL
-----------------------------------------------------------------------------
(* No window fills up with activations unnoticed.                          *)

\* The requests past the count that have not logged their activation yet; they
\* matter to windows that are still open.
Past == {w \in Worker : req[w].pc \in {"act_ips", "act_ipEvent", "act_bind", "act_log"}}
Open(s) == s + Day >= now
Coming(s) == IF Open(s) THEN Past ELSE {}
Most == ActivationThreshold - 1 + Cardinality(Worker)

\* The inductive form of ActivationsNoticed.
ActivationsCounted ==
    \A s \in Nat : \/ Raised("activation_frequency", None, s, s + Day)
                   \/ Cardinality(Within(activations, s, s + Day)) + Cardinality(Coming(s)) <= Most

\* At most one element more.
LEMMA OneMore ==
    ASSUME NEW S, NEW T, NEW x, IsFiniteSet(S), T \subseteq S \union {x}
    PROVE  IsFiniteSet(T) /\ Cardinality(T) \in Nat /\ Cardinality(T) <= Cardinality(S) + 1
<1>1. /\ IsFiniteSet(S \union {x})
      /\ Cardinality(S \union {x}) = IF x \in S THEN Cardinality(S) ELSE Cardinality(S) + 1
  BY FS_AddElement
<1>2. Cardinality(S) \in Nat
  BY FS_CardinalityType
<1>3. Cardinality(T) <= Cardinality(S \union {x}) /\ IsFiniteSet(T) /\ Cardinality(T) \in Nat
  BY <1>1, FS_Subset, FS_CardinalityType
<1> QED
  BY <1>1, <1>2, <1>3

LEMMA CountsFinite ==
    ASSUME Base, NEW s \in Nat
    PROVE  /\ IsFiniteSet(Within(activations, s, s + Day)) /\ Cardinality(Within(activations, s, s + Day)) \in Nat
           /\ IsFiniteSet(Coming(s)) /\ Cardinality(Coming(s)) \in Nat
           /\ IsFiniteSet(Past) /\ Cardinality(Past) \in Nat /\ Cardinality(Past) <= Cardinality(Worker)
           /\ Cardinality(Worker) \in Nat /\ Most \in Nat /\ Cardinality(Worker) <= Most
           /\ now \in Nat /\ Day \in Nat
<1>1. Within(activations, s, s + Day) \subseteq activations /\ IsFiniteSet(activations)
  BY DEF Within, Base, Timely
<1>2. Past \subseteq Worker /\ Coming(s) \subseteq Worker
  BY DEF Past, Coming
<1>3. Cardinality(Worker) \in Nat
  BY SenderAssumption, FS_CardinalityType
<1>4. ActivationThreshold \in Nat \ {0}
  BY ThresholdAssumption
<1>5. now \in Nat /\ Day \in Nat
  BY WindowAssumption DEF Base, WatchTypeOK
<1> QED
  BY <1>1, <1>2, <1>3, <1>4, <1>5, SenderAssumption, FS_Subset, FS_CardinalityType DEF Most

\* Events are not forgotten.
LEMMA RaisedStays ==
    ASSUME NEW type, NEW d, NEW from, NEW to, events \subseteq events', Raised(type, d, from, to)
    PROVE  Raised(type, d, from, to)'
BY DEF Raised, Within

\* A step that logs nothing and lets no further request past the count.
LEMMA QuietActivations ==
    ASSUME Base, Base', ActivationsCounted, activations' = activations, Past' \subseteq Past,
           events \subseteq events', now <= now'
    PROVE  ActivationsCounted'
<1> SUFFICES ASSUME NEW s \in Nat,
                    ~ Raised("activation_frequency", None, s, s + Day)'
             PROVE  Cardinality(Within(activations, s, s + Day)') + Cardinality(Coming(s)') <= Most
  BY DEF ActivationsCounted, Most
<1>1. Cardinality(Within(activations, s, s + Day)) + Cardinality(Coming(s)) <= Most
  BY RaisedStays DEF ActivationsCounted
<1>2. Within(activations, s, s + Day)' = Within(activations, s, s + Day)
  BY DEF Within
<1>3. now \in Nat /\ now' \in Nat /\ Day \in Nat
  BY CountsFinite, WindowAssumption DEF Base, WatchTypeOK
<1>4. Coming(s)' \subseteq Coming(s)
  BY <1>3 DEF Coming, Open
<1>5. Cardinality(Coming(s)') <= Cardinality(Coming(s)) /\ Cardinality(Coming(s)') \in Nat
  BY <1>4, CountsFinite, FS_Subset, FS_CardinalityType
<1> QED
  BY <1>1, <1>2, <1>5, CountsFinite

\* A step whose request gets past the count, below the threshold or with an event.
LEMMA CountedActivation ==
    ASSUME Base, Base', ActivationsCounted, UNCHANGED <<now, activations>>, events \subseteq events',
           \/ Cardinality(RecentActivations) < ActivationThreshold
           \/ Raise("activation_frequency", None)
    PROVE  ActivationsCounted'
<1> SUFFICES ASSUME NEW s \in Nat,
                    ~ Raised("activation_frequency", None, s, s + Day)'
             PROVE  Cardinality(Within(activations, s, s + Day)') + Cardinality(Coming(s)') <= Most
  BY DEF ActivationsCounted, Most
<1> DEFINE N == Within(activations, s, s + Day)
<1>1. N' = N
  BY DEF Within
<1>2. Cardinality(Past') \in Nat /\ Cardinality(Past') <= Cardinality(Worker)
  <2>1. Past' \subseteq Worker
    BY DEF Past
  <2> QED
    BY <2>1, SenderAssumption, FS_Subset, FS_CardinalityType
<1>3. CASE ~ Open(s)
  <2>1. Coming(s)' = {} /\ Coming(s) = {}
    BY <1>3 DEF Coming, Open
  <2>2. Cardinality(N) + Cardinality(Coming(s)) <= Most
    BY RaisedStays DEF ActivationsCounted
  <2> QED
    BY <1>1, <2>1, <2>2
<1>4. CASE Open(s) /\ s > now
  <2>1. N = {}
    BY <1>4, CountsFinite DEF Within, Base, Timely, WatchTypeOK, Activation
  <2>2. Coming(s)' = Past'
    BY <1>4 DEF Coming, Open
  <2>3. Cardinality(N') = 0
    BY <1>1, <2>1, FS_EmptySet
  <2> QED
    BY <1>2, <2>2, <2>3, CountsFinite
<1>5. CASE Open(s) /\ s <= now
  <2>1. Coming(s)' = Past'
    BY <1>5 DEF Coming, Open
  <2>2. ~ Raise("activation_frequency", None)
    <3> SUFFICES ASSUME Raise("activation_frequency", None)
                 PROVE  FALSE
      OBVIOUS
    <3> DEFINE e == [type |-> "activation_frequency", at |-> now, device |-> None]
    <3>1. e \in events'
      BY DEF Raise
    <3>2. s <= now /\ now <= s + Day
      BY <1>5, CountsFinite DEF Open
    <3>3. e \in Within(events, s, s + Day)'
      BY <3>1, <3>2 DEF Within
    <3> QED
      BY <3>3 DEF Raised
  <2>3. Cardinality(RecentActivations) < ActivationThreshold
    BY <2>2
  <2>4. N \subseteq RecentActivations
    <3> SUFFICES ASSUME NEW r \in N
                 PROVE  r \in RecentActivations
      OBVIOUS
    <3>1. r \in activations /\ s <= r.at /\ r.at <= now /\ r.at \in Nat
      BY DEF Within, Base, Timely, WatchTypeOK, Activation
    <3>2. now - Day <= r.at
      BY <1>5, <3>1, CountsFinite DEF Open
    <3> QED
      BY <3>1, <3>2 DEF RecentActivations, Within
  <2>5. IsFiniteSet(RecentActivations)
    <3>1. RecentActivations \subseteq activations /\ IsFiniteSet(activations)
      BY DEF RecentActivations, Within, Base, Timely
    <3> QED
      BY <3>1, FS_Subset
  <2>6. Cardinality(N) <= Cardinality(RecentActivations) /\ Cardinality(RecentActivations) \in Nat
    BY <2>4, <2>5, FS_Subset, FS_CardinalityType
  <2>7. ActivationThreshold \in Nat
    BY ThresholdAssumption
  <2> QED
    BY <1>1, <1>2, <2>1, <2>3, <2>6, <2>7, CountsFinite DEF Most
<1>6. s > now \/ s <= now
  BY CountsFinite
<1> QED
  BY <1>3, <1>4, <1>5, <1>6

\* The row is written of a request that was past the count.
LEMMA LoggedActivation ==
    ASSUME Base, Base', ActivationsCounted, NEW w \in Worker, ActLog(w)
    PROVE  ActivationsCounted'
<1> SUFFICES ASSUME NEW s \in Nat,
                    ~ Raised("activation_frequency", None, s, s + Day)'
             PROVE  Cardinality(Within(activations, s, s + Day)') + Cardinality(Coming(s)') <= Most
  BY DEF ActivationsCounted, Most
<1> DEFINE N == Within(activations, s, s + Day)
           row == [id |-> Cardinality(activations) + 1, at |-> now, ip |-> req[w].ip]
<1>1. activations' = activations \union {row} /\ row.at = now
  BY DEF ActLog
<1>2. Cardinality(N) + Cardinality(Coming(s)) <= Most
  BY RaisedStays DEF ActivationsCounted, ActLog
<1>3. UNCHANGED <<now, events>> /\ w \in Past
  BY DEF ActLog, At, Past
<1>4. Past' \subseteq Past \ {w}
  BY IdleRequest DEF ActLog, Answer, Past, Base, WatchTypeOK
<1> HIDE DEF row
<1>5. CASE ~ Open(s)
  <2>1. N' = N
    BY <1>1, <1>3, <1>5, CountsFinite DEF Within, Open
  <2>2. Coming(s)' = Coming(s)
    BY <1>3, <1>5 DEF Coming, Open
  <2> QED
    BY <1>2, <2>1, <2>2
<1>6. CASE Open(s)
  <2>1. Coming(s) = Past /\ Coming(s)' = Past'
    BY <1>3, <1>6 DEF Coming, Open
  <2>2. Cardinality(Past') <= Cardinality(Past) - 1 /\ Cardinality(Past') \in Nat
    <3>1. IsFiniteSet(Past \ {w}) /\ Cardinality(Past \ {w}) = Cardinality(Past) - 1
      BY <1>3, CountsFinite, FS_RemoveElement
    <3> QED
      BY <1>4, <3>1, FS_Subset, FS_CardinalityType
  <2>3. Cardinality(N') <= Cardinality(N) + 1 /\ Cardinality(N') \in Nat
    <3>1. N' \subseteq N \union {row}
      BY <1>1 DEF Within
    <3>2. IsFiniteSet(N) /\ Cardinality(N) \in Nat
      BY CountsFinite
    <3> QED
      BY <3>1, <3>2, OneMore
  <2> QED
    BY <1>2, <2>1, <2>2, <2>3, CountsFinite
<1> QED
  BY <1>5, <1>6

\* Where a request may be after a step, in terms of where it was.
LEMMA ArriveMoves ==
    ASSUME Base, NEW w \in Worker, BeginActivate(w) \/ BeginHeartbeat(w) \/ BeginDeactivate(w)
    PROVE  /\ Kept
           /\ req'[w].pc \in {"act_count", "hb_version", "dea_remove"}
           /\ req[w] = Idle /\ \A x \in Worker : x # w => req'[x] = req[x]
BY DEF BeginActivate, BeginHeartbeat, BeginDeactivate, Arrive, Idle, Base, WatchTypeOK

LEMMA GotoMoves ==
    ASSUME Base, NEW w \in Worker, NEW pc, Goto(w, pc)
    PROVE  /\ req'[w].pc = pc /\ req'[w].device = req[w].device /\ req'[w].ip = req[w].ip
           /\ req'[w].old = req[w].old /\ req'[w].version = req[w].version
           /\ \A x \in Worker : x # w => req'[x] = req[x]
<1>1. req[w] \in Request
  BY DEF Base, WatchTypeOK
<1>2. req'[w] = [req[w] EXCEPT !.pc = pc] /\ \A x \in Worker : x # w => req'[x] = req[x]
  BY DEF Goto, Base, WatchTypeOK
<1>3. /\ req'[w].pc = pc /\ req'[w].device = req[w].device /\ req'[w].ip = req[w].ip
      /\ req'[w].old = req[w].old /\ req'[w].version = req[w].version
  BY <1>1, <1>2 DEF Request
<1> QED
  BY <1>2, <1>3

LEMMA AnswerMoves ==
    ASSUME Base, NEW w \in Worker, Answer(w)
    PROVE  req'[w] = Idle /\ \A x \in Worker : x # w => req'[x] = req[x]
BY DEF Answer, Base, WatchTypeOK

\* The steps of no activation: none gets past the count, none is logged.
Outside ==
    \/ \E w \in Worker :
          \/ BeginActivate(w) \/ BeginHeartbeat(w) \/ BeginDeactivate(w)
          \/ HbVersion(w) \/ HbLog(w) \/ HbCount(w) \/ HbEvent(w)
          \/ DeaRemove(w) \/ DeaInspect(w) \/ DeaEvent(w) \/ Fail(w)
    \/ \E p \in Policies : Publish(p)
    \/ \E d \in Device : ApproveUnbind(d) \/ \E s \in {"active", "removed"} : AdminSetDevice(d, s)
    \/ Tick
    \/ UNCHANGED vars

ActCalls == {"act_ips", "act_ipEvent", "act_bind", "act_log"}

\* Requests keep address and version on their way, but for those answered.
LEMMA OutsideMoves ==
    ASSUME Base, Outside
    PROVE  /\ activations' = activations /\ events \subseteq events' /\ now <= now'
           /\ \A x \in Worker : req'[x].pc \in ActCalls =>
                 req[x].pc = req'[x].pc /\ req'[x].ip = req[x].ip
<1> USE DEF ActCalls
<1>1. now \in Nat
  BY WindowAssumption DEF Base, WatchTypeOK
<1>2. ASSUME NEW w \in Worker, BeginActivate(w) \/ BeginHeartbeat(w) \/ BeginDeactivate(w)
      PROVE  /\ activations' = activations /\ events \subseteq events' /\ now <= now'
             /\ \A x \in Worker : req'[x].pc \in ActCalls =>
                   req[x].pc = req'[x].pc /\ req'[x].ip = req[x].ip
  BY <1>1, <1>2, ArriveMoves DEF Kept
<1>3. ASSUME NEW w \in Worker, UNCHANGED <<now, activations>>, events \subseteq events',
             \/ Answer(w)
             \/ Goto(w, "hb_log") \/ Goto(w, "hb_event") \/ Goto(w, "dea_inspect") \/ Goto(w, "dea_event")
      PROVE  /\ activations' = activations /\ events \subseteq events' /\ now <= now'
             /\ \A x \in Worker : req'[x].pc \in ActCalls =>
                   req[x].pc = req'[x].pc /\ req'[x].ip = req[x].ip
  BY <1>1, <1>3, GotoMoves, AnswerMoves, IdleRequest
<1>4. ASSUME NEW w \in Worker,
             HbVersion(w) \/ HbCount(w) \/ HbEvent(w) \/ DeaRemove(w) \/ DeaInspect(w) \/ DeaEvent(w) \/ Fail(w)
      PROVE  /\ activations' = activations /\ events \subseteq events' /\ now <= now'
             /\ \A x \in Worker : req'[x].pc \in ActCalls =>
                   req[x].pc = req'[x].pc /\ req'[x].ip = req[x].ip
  <2>1. UNCHANGED <<now, activations>> /\ events \subseteq events'
    BY <1>4 DEF HbVersion, HbCount, HbEvent, DeaRemove, DeaInspect, DeaEvent, Fail, Kept, Raise
  <2>2. \/ Answer(w)
        \/ Goto(w, "hb_log") \/ Goto(w, "hb_event") \/ Goto(w, "dea_inspect") \/ Goto(w, "dea_event")
    BY <1>4 DEF HbVersion, HbCount, HbEvent, DeaRemove, DeaInspect, DeaEvent, Fail, Inspected, Left
  <2> QED
    BY <1>3, <2>1, <2>2
<1>5. ASSUME NEW w \in Worker, HbLog(w)
      PROVE  /\ activations' = activations /\ events \subseteq events' /\ now <= now'
             /\ \A x \in Worker : req'[x].pc \in ActCalls =>
                   req[x].pc = req'[x].pc /\ req'[x].ip = req[x].ip
  BY <1>1, <1>5 DEF HbLog, Base, WatchTypeOK, Request
<1>6. ASSUME NEW p \in Policies, Publish(p)
      PROVE  /\ activations' = activations /\ events \subseteq events' /\ now <= now'
             /\ \A x \in Worker : req'[x].pc \in ActCalls =>
                   req[x].pc = req'[x].pc /\ req'[x].ip = req[x].ip
  <2>1. UNCHANGED <<now, activations, events>>
    BY <1>6 DEF Publish
  <2> QED
    BY <1>1, <1>6, <2>1, PublishKeeps
<1>7. CASE \/ \E d \in Device : ApproveUnbind(d) \/ \E s \in {"active", "removed"} : AdminSetDevice(d, s)
           \/ Tick
           \/ UNCHANGED vars
  BY <1>1, <1>7 DEF ApproveUnbind, AdminSetDevice, Tick, vars
<1> QED
  BY <1>2, <1>4, <1>5, <1>6, <1>7 DEF Outside

LEMMA ActivationsStep ==
    ASSUME Base, Base', ActivationsCounted, [Next]_vars
    PROVE  ActivationsCounted'
<1>1. CASE Outside
  <2>1. Past' \subseteq Past
    BY <1>1, OutsideMoves DEF Past, ActCalls
  <2> QED
    BY <1>1, <2>1, OutsideMoves, QuietActivations
<1>2. ASSUME NEW w \in Worker, ActCount(w)
      PROVE  ActivationsCounted'
  <2>1. UNCHANGED <<now, activations, events>>
    BY <1>2 DEF ActCount, Kept
  <2>2. CASE Cardinality(RecentActivations) < ActivationThreshold
    BY <2>1, <2>2, CountedActivation
  <2>3. CASE ~ (Cardinality(RecentActivations) < ActivationThreshold)
    <3>1. RecentActivations \subseteq activations /\ IsFiniteSet(activations)
      BY DEF RecentActivations, Within, Base, Timely
    <3>2. Cardinality(RecentActivations) \in Nat /\ ActivationThreshold \in Nat
      BY <3>1, FS_Subset, FS_CardinalityType, ThresholdAssumption
    <3>3. Goto(w, "act_event")
      BY <1>2, <2>3, <3>2 DEF ActCount
    <3>4. Past' \subseteq Past
      BY <3>3, GotoMoves DEF Past
    <3>5. now <= now'
      BY <2>1, WindowAssumption DEF Base, WatchTypeOK
    <3> QED
      BY <2>1, <3>4, <3>5, QuietActivations
  <2> QED
    BY <2>2, <2>3
<1>3. ASSUME NEW w \in Worker, ActEvent(w)
      PROVE  ActivationsCounted'
  BY <1>3, CountedActivation DEF ActEvent, Raise
<1>4. ASSUME NEW w \in Worker, ActIps(w) \/ ActIpEvent(w) \/ ActBind(w)
      PROVE  ActivationsCounted'
  <2>1. req[w].pc \in {"act_ips", "act_ipEvent", "act_bind"}
        /\ (Goto(w, "act_ipEvent") \/ Goto(w, "act_bind") \/ Goto(w, "act_log"))
    BY <1>4 DEF ActIps, ActIpEvent, ActBind, At
  <2>2. Past' \subseteq Past
    BY <2>1, GotoMoves DEF Past
  <2>3. activations' = activations /\ events \subseteq events' /\ now' = now
    BY <1>4 DEF ActIps, ActIpEvent, ActBind, Kept, Raise
  <2>4. now <= now'
    BY <2>3, WindowAssumption DEF Base, WatchTypeOK
  <2> QED
    BY <2>2, <2>3, <2>4, QuietActivations
<1>5. ASSUME NEW w \in Worker, ActLog(w)
      PROVE  ActivationsCounted'
  BY <1>5, LoggedActivation
<1> QED
  BY <1>1, <1>2, <1>3, <1>4, <1>5 DEF Next, Step, Outside

\* A window that holds as many activations as the threshold and the requests
\* in flight together holds an event (inspectActivationAttempt).
THEOREM FrequencyNoticed == Spec => []ActivationsNoticed
<1>1. ASSUME Base, Init
      PROVE  ActivationsCounted
  <2> SUFFICES ASSUME NEW s \in Nat
               PROVE  Cardinality(Within(activations, s, s + Day)) + Cardinality(Coming(s)) <= Most
    BY DEF ActivationsCounted
  <2>1. Within(activations, s, s + Day) = {} /\ Coming(s) = {}
    BY <1>1, IdleRequest DEF Init, Within, Coming, Past
  <2>2. Cardinality(Within(activations, s, s + Day)) = 0 /\ Cardinality(Coming(s)) = 0
    BY <2>1, FS_EmptySet
  <2> QED
    BY <1>1, <2>2, CountsFinite
<1>2. ASSUME Base, ActivationsCounted
      PROVE  ActivationsNoticed
  <2> SUFFICES ASSUME NEW s \in 0 .. now, ~ Raised("activation_frequency", None, s, s + Day)
               PROVE  ~ (Cardinality(Within(activations, s, s + Day)) >= ActivationThreshold + Cardinality(Worker))
    BY DEF ActivationsNoticed
  <2>1. s \in Nat
    OBVIOUS
  <2>2. Cardinality(Within(activations, s, s + Day)) + Cardinality(Coming(s)) <= Most
    BY <1>2, <2>1 DEF ActivationsCounted
  <2>3. ActivationThreshold \in Nat
    BY ThresholdAssumption
  <2> QED
    BY <1>2, <2>1, <2>2, <2>3, CountsFinite DEF Most
<1>3. Init => ActivationsCounted
  BY <1>1, BaseInit
<1>4. Base /\ ActivationsCounted /\ [Next]_vars => ActivationsCounted'
  BY BaseStep, ActivationsStep
<1> QED
  BY <1>2, <1>3, <1>4, BaseHolds, PTL DEF Spec
-----------------------------------------------------------------------------
(* The same for the addresses activations come from.                       *)

\* The addresses of requests past their inspection.
Bound == {w \in Worker : req[w].pc \in {"act_bind", "act_log"}}
Carried(s) == IF Open(s) THEN {req[w].ip : w \in Bound} \ {None} ELSE {}
MostIps == IpThreshold - 1 + Cardinality(Worker)

SwitchesCounted ==
    \A s \in Nat : \/ Raised("ip_switching", None, s, s + Day)
                   \/ Cardinality(Ips(Within(activations, s, s + Day)) \union Carried(s)) <= MostIps

\* A set has no more images than elements.
LEMMA Images ==
    ASSUME NEW S, NEW f, f \in [S -> {f[x] : x \in S}], IsFiniteSet(S)
    PROVE  /\ IsFiniteSet({f[x] : x \in S}) /\ Cardinality({f[x] : x \in S}) <= Cardinality(S)
           /\ Cardinality({f[x] : x \in S}) \in Nat /\ Cardinality(S) \in Nat
<1>1. f \in Surjection(S, {f[x] : x \in S})
  BY DEF Surjection
<1> QED
  BY <1>1, FS_Surjection, FS_CardinalityType

LEMMA IpsFinite ==
    ASSUME Base, NEW rows \in SUBSET activations
    PROVE  IsFiniteSet(Ips(rows)) /\ Cardinality(Ips(rows)) \in Nat
<1> DEFINE f == [r \in rows |-> r.ip]
<1>1. IsFiniteSet(rows)
  BY FS_Subset DEF Base, Timely
<1>2. IsFiniteSet({f[r] : r \in rows})
  <2>1. f \in [rows -> {f[r] : r \in rows}]
    OBVIOUS
  <2> HIDE DEF f
  <2> QED
    BY <1>1, <2>1, Images
<1>3. Ips(rows) \subseteq {f[r] : r \in rows}
  BY DEF Ips
<1> QED
  BY <1>2, <1>3, FS_Subset, FS_CardinalityType

LEMMA CarriedFinite ==
    ASSUME NEW s
    PROVE  /\ IsFiniteSet(Carried(s)) /\ Cardinality(Carried(s)) \in Nat
           /\ Cardinality(Carried(s)) <= Cardinality(Worker) /\ Cardinality(Worker) \in Nat
<1> DEFINE f == [w \in Bound |-> req[w].ip]
<1>1. IsFiniteSet(Bound) /\ Cardinality(Bound) <= Cardinality(Worker) /\ Cardinality(Worker) \in Nat
  <2>1. Bound \subseteq Worker
    BY DEF Bound
  <2> QED
    BY <2>1, SenderAssumption, FS_Subset, FS_CardinalityType
<1>2. /\ IsFiniteSet({f[w] : w \in Bound}) /\ Cardinality({f[w] : w \in Bound}) <= Cardinality(Bound)
      /\ Cardinality({f[w] : w \in Bound}) \in Nat /\ Cardinality(Bound) \in Nat
  <2>1. f \in [Bound -> {f[w] : w \in Bound}]
    OBVIOUS
  <2> HIDE DEF f
  <2> QED
    BY <1>1, <2>1, Images
<1>3. Carried(s) \subseteq {f[w] : w \in Bound}
  BY DEF Carried
<1> HIDE DEF f
<1>4. IsFiniteSet(Carried(s)) /\ Cardinality(Carried(s)) \in Nat
      /\ Cardinality(Carried(s)) <= Cardinality({f[w] : w \in Bound})
  BY <1>2, <1>3, FS_Subset, FS_CardinalityType
<1> QED
  BY <1>1, <1>2, <1>4

\* A step that only takes addresses from a window or moves them into it.
LEMMA QuietSwitches ==
    ASSUME Base, SwitchesCounted, events \subseteq events',
           \A s \in Nat : Ips(Within(activations, s, s + Day))' \union Carried(s)'
                             \subseteq Ips(Within(activations, s, s + Day)) \union Carried(s)
    PROVE  SwitchesCounted'
<1> SUFFICES ASSUME NEW s \in Nat,
                    ~ Raised("ip_switching", None, s, s + Day)'
             PROVE  Cardinality(Ips(Within(activations, s, s + Day))' \union Carried(s)') <= MostIps
  BY DEF SwitchesCounted, MostIps
<1> DEFINE A == Ips(Within(activations, s, s + Day)) \union Carried(s)
           B == Ips(Within(activations, s, s + Day))' \union Carried(s)'
<1>1. Cardinality(A) <= MostIps
  BY RaisedStays DEF SwitchesCounted
<1>2. IsFiniteSet(A)
  <2>1. Within(activations, s, s + Day) \in SUBSET activations
    BY DEF Within
  <2> QED
    BY <2>1, IpsFinite, CarriedFinite, FS_Union
<1>3. B \subseteq A
  OBVIOUS
<1>4. MostIps \in Int
  BY CarriedFinite, ThresholdAssumption DEF MostIps
<1> HIDE DEF A, B
<1>5. Cardinality(B) <= Cardinality(A) /\ Cardinality(B) \in Nat /\ Cardinality(A) \in Nat
  BY <1>2, <1>3, FS_Subset, FS_CardinalityType
<1>6. Cardinality(B) <= MostIps
  BY <1>1, <1>4, <1>5
<1> QED
  BY <1>6 DEF B

\* A step whose request gets past the inspection of the addresses.
LEMMA CountedSwitches ==
    ASSUME Base, Base', SwitchesCounted, UNCHANGED <<now, activations>>, events \subseteq events',
           \/ Cardinality(Ips(RecentActivations)) < IpThreshold
           \/ Raise("ip_switching", None)
    PROVE  SwitchesCounted'
<1> SUFFICES ASSUME NEW s \in Nat,
                    ~ Raised("ip_switching", None, s, s + Day)'
             PROVE  Cardinality(Ips(Within(activations, s, s + Day))' \union Carried(s)') <= MostIps
  BY DEF SwitchesCounted, MostIps
<1> DEFINE N == Within(activations, s, s + Day)
<1>1. N' = N /\ Ips(N)' = Ips(N) /\ N \in SUBSET activations
  BY DEF Within, Ips
<1>2. /\ IsFiniteSet(Carried(s)') /\ Cardinality(Carried(s)') \in Nat
      /\ Cardinality(Carried(s)') <= Cardinality(Worker) /\ Cardinality(Worker) \in Nat
  <2> DEFINE f == [w \in Bound' |-> req'[w].ip]
  <2>1. IsFiniteSet(Bound') /\ Cardinality(Bound') <= Cardinality(Worker) /\ Cardinality(Worker) \in Nat
    <3>1. Bound' \subseteq Worker
      BY DEF Bound
    <3> QED
      BY <3>1, SenderAssumption, FS_Subset, FS_CardinalityType
  <2>2. /\ IsFiniteSet({f[w] : w \in Bound'}) /\ Cardinality({f[w] : w \in Bound'}) <= Cardinality(Bound')
        /\ Cardinality({f[w] : w \in Bound'}) \in Nat /\ Cardinality(Bound') \in Nat
    <3>1. f \in [Bound' -> {f[w] : w \in Bound'}]
      OBVIOUS
    <3> HIDE DEF f
    <3> QED
      BY <2>1, <3>1, Images
  <2>3. Carried(s)' \subseteq {f[w] : w \in Bound'}
    BY DEF Carried
  <2> HIDE DEF f
  <2>4. IsFiniteSet(Carried(s)') /\ Cardinality(Carried(s)') \in Nat
        /\ Cardinality(Carried(s)') <= Cardinality({f[w] : w \in Bound'})
    BY <2>2, <2>3, FS_Subset, FS_CardinalityType
  <2> QED
    BY <2>1, <2>2, <2>4
<1>3. IpThreshold \in Nat \ {0}
  BY ThresholdAssumption
<1>4. IsFiniteSet(Ips(N)) /\ Cardinality(Ips(N)) \in Nat
  BY <1>1, IpsFinite
<1>5. CASE ~ Open(s)
  <2>1. Carried(s)' = {} /\ Carried(s) = {}
    BY <1>5 DEF Carried, Open
  <2>2. Cardinality(Ips(N) \union Carried(s)) <= MostIps
    BY RaisedStays DEF SwitchesCounted
  <2> QED
    BY <1>1, <2>1, <2>2
<1>6. ASSUME Cardinality(Ips(N)) <= IpThreshold - 1
      PROVE  Cardinality(Ips(N)' \union Carried(s)') <= MostIps
  <2> DEFINE C == Carried(s)'
             I == Ips(N)
  <2> HIDE DEF C, I, N
  <2>1. /\ IsFiniteSet(I) /\ IsFiniteSet(C) /\ Cardinality(I) \in Nat /\ Cardinality(C) \in Nat
        /\ Cardinality(I) <= IpThreshold - 1 /\ Cardinality(C) <= Cardinality(Worker)
        /\ Cardinality(Worker) \in Nat
    BY <1>2, <1>4, <1>6 DEF C, I
  <2>2. /\ Cardinality(I \intersect C) \in Nat
        /\ Cardinality(I \union C) = Cardinality(I) + Cardinality(C) - Cardinality(I \intersect C)
    BY <2>1, FS_Union, FS_Intersection, FS_CardinalityType
  <2>3. Cardinality(I \union C) <= MostIps
    BY <1>3, <2>1, <2>2 DEF MostIps
  <2> QED
    BY <1>1, <2>3 DEF C, I
<1>7. CASE Open(s) /\ s > now
  <2>1. Ips(N) = {}
    BY <1>7, CountsFinite DEF Ips, Within, Base, Timely, WatchTypeOK, Activation
  <2>2. Cardinality(Ips(N)) = 0
    BY <2>1, FS_EmptySet
  <2> QED
    BY <1>3, <1>6, <2>2
<1>8. CASE Open(s) /\ s <= now
  <2>1. ~ Raise("ip_switching", None)
    <3> SUFFICES ASSUME Raise("ip_switching", None)
                 PROVE  FALSE
      OBVIOUS
    <3> DEFINE e == [type |-> "ip_switching", at |-> now, device |-> None]
    <3>1. e \in events'
      BY DEF Raise
    <3>2. s <= now /\ now <= s + Day
      BY <1>8, CountsFinite DEF Open
    <3>3. e \in Within(events, s, s + Day)'
      BY <3>1, <3>2 DEF Within
    <3> QED
      BY <3>3 DEF Raised
  <2>2. N \subseteq RecentActivations /\ RecentActivations \in SUBSET activations
    <3> SUFFICES ASSUME NEW r \in N
                 PROVE  r \in RecentActivations
      BY DEF RecentActivations, Within
    <3>1. r \in activations /\ s <= r.at /\ r.at <= now /\ r.at \in Nat
      BY DEF Within, Base, Timely, WatchTypeOK, Activation
    <3>2. now - Day <= r.at
      BY <1>8, <3>1, CountsFinite DEF Open
    <3> QED
      BY <3>1, <3>2 DEF RecentActivations, Within
  <2>3. Ips(N) \subseteq Ips(RecentActivations)
    BY <2>2 DEF Ips
  <2>4. Cardinality(Ips(N)) <= Cardinality(Ips(RecentActivations))
        /\ Cardinality(Ips(RecentActivations)) \in Nat
    BY <2>2, <2>3, IpsFinite, FS_Subset
  <2>5. Cardinality(Ips(N)) <= IpThreshold - 1
    BY <1>3, <1>4, <2>1, <2>4
  <2> QED
    BY <1>6, <2>5
<1>9. s > now \/ s <= now
  BY CountsFinite
<1> QED
  BY <1>5, <1>7, <1>8, <1>9

LEMMA SwitchesStep ==
    ASSUME Base, Base', SwitchesCounted, [Next]_vars
    PROVE  SwitchesCounted'
<1>1. now \in Nat /\ now' \in Nat /\ Day \in Nat
  BY WindowAssumption DEF Base, WatchTypeOK
<1>2. ASSUME activations' = activations, events \subseteq events', now <= now',
             \A x \in Worker : req'[x].pc \in {"act_bind", "act_log"} =>
                (req[x].pc \in {"act_bind", "act_log"} /\ req'[x].ip = req[x].ip) \/ req'[x].ip = None
      PROVE  SwitchesCounted'
  <2>1. ASSUME NEW s \in Nat
        PROVE  Ips(Within(activations, s, s + Day))' \union Carried(s)'
                  \subseteq Ips(Within(activations, s, s + Day)) \union Carried(s)
    <3>1. Ips(Within(activations, s, s + Day))' = Ips(Within(activations, s, s + Day))
      BY <1>2 DEF Ips, Within
    <3>2. Open(s)' => Open(s)
      BY <1>1, <1>2 DEF Open
    <3>3. Carried(s)' \subseteq Carried(s)
      BY <1>2, <3>2 DEF Carried, Bound
    <3> QED
      BY <3>1, <3>3
  <2> QED
    BY <1>2, <2>1, QuietSwitches
<1>3. CASE Outside
  BY <1>2, <1>3, OutsideMoves DEF ActCalls
<1>4. ASSUME NEW w \in Worker, ActCount(w) \/ ActEvent(w)
      PROVE  SwitchesCounted'
  <2>1. Goto(w, "act_event") \/ Goto(w, "act_ips")
    BY <1>4 DEF ActCount, ActEvent
  <2>2. activations' = activations /\ events \subseteq events' /\ now' = now
    BY <1>4 DEF ActCount, ActEvent, Kept, Raise
  <2> QED
    BY <1>1, <1>2, <2>1, <2>2, GotoMoves
<1>5. ASSUME NEW w \in Worker, ActIps(w)
      PROVE  SwitchesCounted'
  <2>1. UNCHANGED <<now, activations, events>>
    BY <1>5 DEF ActIps, Kept
  <2>2. CASE req[w].ip = None
    <3>1. Goto(w, "act_bind")
      BY <1>5, <2>2 DEF ActIps
    <3>2. req'[w].ip = None
      BY <2>2, <3>1, GotoMoves
    <3> QED
      BY <1>1, <1>2, <2>1, <3>1, <3>2, GotoMoves
  <2>3. CASE req[w].ip # None /\ Cardinality(Ips(RecentActivations)) >= IpThreshold
    <3>1. Goto(w, "act_ipEvent")
      BY <1>5, <2>3 DEF ActIps
    <3> QED
      BY <1>1, <1>2, <2>1, <3>1, GotoMoves
  <2>4. CASE Cardinality(Ips(RecentActivations)) < IpThreshold
    BY <2>1, <2>4, CountedSwitches
  <2>5. Cardinality(Ips(RecentActivations)) \in Nat /\ IpThreshold \in Nat
    <3>1. RecentActivations \in SUBSET activations
      BY DEF RecentActivations, Within
    <3> QED
      BY <3>1, IpsFinite, ThresholdAssumption
  <2> QED
    BY <2>2, <2>3, <2>4, <2>5
<1>6. ASSUME NEW w \in Worker, ActIpEvent(w)
      PROVE  SwitchesCounted'
  BY <1>6, CountedSwitches DEF ActIpEvent, Raise
<1>7. ASSUME NEW w \in Worker, ActBind(w)
      PROVE  SwitchesCounted'
  <2>1. Goto(w, "act_log") /\ req[w].pc = "act_bind"
    BY <1>7 DEF ActBind, At
  <2>2. activations' = activations /\ events' = events /\ now' = now
    BY <1>7 DEF ActBind
  <2> QED
    BY <1>1, <1>2, <2>1, <2>2, GotoMoves
<1>8. ASSUME NEW w \in Worker, ActLog(w)
      PROVE  SwitchesCounted'
  <2> DEFINE row == [id |-> Cardinality(activations) + 1, at |-> now, ip |-> req[w].ip]
  <2>1. activations' = activations \union {row} /\ row.at = now /\ row.ip = req[w].ip
    BY <1>8 DEF ActLog
  <2>2. UNCHANGED <<now, events>> /\ w \in Bound
    BY <1>8 DEF ActLog, At, Bound
  <2>3. Bound' \subseteq Bound /\ \A x \in Bound' : req'[x].ip = req[x].ip
    BY <1>8, AnswerMoves, IdleRequest DEF ActLog, Bound
  <2> HIDE DEF row
  <2>4. ASSUME NEW s \in Nat
        PROVE  Ips(Within(activations, s, s + Day))' \union Carried(s)'
                  \subseteq Ips(Within(activations, s, s + Day)) \union Carried(s)
    <3>1. Carried(s)' \subseteq Carried(s)
      BY <2>2, <2>3 DEF Carried, Open
    <3>2. row \in Within(activations, s, s + Day)' => req[w].ip \in Carried(s) \union {None}
      BY <1>1, <2>1, <2>2 DEF Within, Carried, Open
    <3>3. \A r \in Within(activations, s, s + Day)' : r \in Within(activations, s, s + Day) \/ r = row
      BY <2>1 DEF Within
    <3>4. Ips(Within(activations, s, s + Day))' \subseteq Ips(Within(activations, s, s + Day)) \union Carried(s)
      BY <2>1, <3>2, <3>3 DEF Ips
    <3> QED
      BY <3>1, <3>4
  <2> QED
    BY <2>2, <2>4, QuietSwitches
<1> QED
  BY <1>3, <1>4, <1>5, <1>6, <1>7, <1>8 DEF Next, Step, Outside

\* The same for the addresses activations come from (ip_switching).
THEOREM SwitchingNoticed == Spec => []SwitchesNoticed
<1>1. ASSUME Base, Init
      PROVE  SwitchesCounted
  <2> SUFFICES ASSUME NEW s \in Nat
               PROVE  Cardinality(Ips(Within(activations, s, s + Day)) \union Carried(s)) <= MostIps
    BY DEF SwitchesCounted
  <2>1. Ips(Within(activations, s, s + Day)) \union Carried(s) = {}
    BY <1>1, IdleRequest DEF Init, Ips, Within, Carried, Bound
  <2>2. Cardinality(Ips(Within(activations, s, s + Day)) \union Carried(s)) = 0
    BY <2>1, FS_EmptySet
  <2>3. IpThreshold \in Nat \ {0} /\ Cardinality(Worker) \in Nat
    BY ThresholdAssumption, CarriedFinite
  <2> QED
    BY <2>2, <2>3 DEF MostIps
<1>2. ASSUME Base, SwitchesCounted
      PROVE  SwitchesNoticed
  <2> SUFFICES ASSUME NEW s \in 0 .. now, ~ Raised("ip_switching", None, s, s + Day)
               PROVE  ~ (Cardinality(Ips(Within(activations, s, s + Day))) >= IpThreshold + Cardinality(Worker))
    BY DEF SwitchesNoticed
  <2> DEFINE I == Ips(Within(activations, s, s + Day))
             A == I \union Carried(s)
  <2>1. s \in Nat /\ Within(activations, s, s + Day) \in SUBSET activations
    BY DEF Within
  <2>2. Cardinality(A) <= MostIps
    BY <1>2, <2>1 DEF SwitchesCounted
  <2>3. IsFiniteSet(I) /\ IsFiniteSet(Carried(s)) /\ Cardinality(Worker) \in Nat
    BY <1>2, <2>1, IpsFinite, CarriedFinite
  <2>4. IsFiniteSet(A) /\ I \subseteq A
    BY <2>3, FS_Union
  <2> HIDE DEF I, A
  <2>5. Cardinality(I) <= Cardinality(A) /\ Cardinality(I) \in Nat /\ Cardinality(A) \in Nat
    BY <2>4, FS_Subset, FS_CardinalityType
  <2>6. IpThreshold \in Nat
    BY ThresholdAssumption
  <2>7. ~ (Cardinality(I) >= IpThreshold + Cardinality(Worker))
    BY <2>2, <2>3, <2>5, <2>6 DEF MostIps
  <2> QED
    BY <2>7 DEF I
<1>3. Init => SwitchesCounted
  BY <1>1, BaseInit
<1>4. Base /\ SwitchesCounted /\ [Next]_vars => SwitchesCounted'
  BY BaseStep, SwitchesStep
<1> QED
  BY <1>2, <1>3, <1>4, BaseHolds, PTL DEF Spec
-----------------------------------------------------------------------------
(* Heartbeats, unbinds and versions.                                       *)

\* Neither too many activations nor too many addresses go unnoticed
\* (inspectActivation).
THEOREM BindingNoticed == Spec => []BindingsNoticed
BY FrequencyNoticed, SwitchingNoticed, PTL DEF BindingsNoticed

\* The heartbeats of d in the window from s whose inspection ended in it.
Seen(d, s) == {r \in Within(heartbeats, s, s + Hour) : r.device = d /\ r.seen # Never /\ r.seen <= s + Hour}

HeartbeatsCounted ==
    \A s \in Nat, d \in Device :
        \/ Raised("heartbeat_frequency", d, s, s + Hour)
        \/ Cardinality(Seen(d, s)) <= HeartbeatThreshold - 1

LEMMA SeenFinite ==
    ASSUME Base, NEW s \in Nat, NEW d
    PROVE  /\ IsFiniteSet(Seen(d, s)) /\ Cardinality(Seen(d, s)) \in Nat
           /\ HeartbeatThreshold \in Nat \ {0} /\ now \in Nat /\ Hour \in Nat
<1>1. Seen(d, s) \subseteq heartbeats /\ IsFiniteSet(heartbeats)
  BY DEF Seen, Within, Base, Timely
<1> QED
  BY <1>1, FS_Subset, FS_CardinalityType, ThresholdAssumption, WindowAssumption DEF Base, WatchTypeOK

LEMMA QuietHeartbeats ==
    ASSUME Base, HeartbeatsCounted, events \subseteq events',
           \A s \in Nat, d \in Device : Seen(d, s)' \subseteq Seen(d, s)
    PROVE  HeartbeatsCounted'
<1> SUFFICES ASSUME NEW s \in Nat, NEW d \in Device,
                    ~ Raised("heartbeat_frequency", d, s, s + Hour)'
             PROVE  Cardinality(Seen(d, s)') <= HeartbeatThreshold - 1
  BY DEF HeartbeatsCounted
<1>1. Cardinality(Seen(d, s)) <= HeartbeatThreshold - 1
  BY RaisedStays DEF HeartbeatsCounted
<1>2. Cardinality(Seen(d, s)') <= Cardinality(Seen(d, s)) /\ Cardinality(Seen(d, s)') \in Nat
  BY SeenFinite, FS_Subset, FS_CardinalityType
<1> QED
  BY <1>1, <1>2, SeenFinite

\* The inspection of a heartbeat ends, below the threshold or with an event.
LEMMA InspectedHeartbeat ==
    ASSUME Base, Base', HeartbeatsCounted, NEW w \in Worker, req[w].device \in Device,
           Inspected(w), now' = now, events \subseteq events',
           \/ Cardinality(RecentHeartbeats(req[w].device)) < HeartbeatThreshold
           \/ Raise("heartbeat_frequency", req[w].device)
    PROVE  HeartbeatsCounted'
<1> SUFFICES ASSUME NEW s \in Nat, NEW d \in Device,
                    ~ Raised("heartbeat_frequency", d, s, s + Hour)'
             PROVE  Cardinality(Seen(d, s)') <= HeartbeatThreshold - 1
  BY DEF HeartbeatsCounted
<1> DEFINE f == [r \in heartbeats |->
                    IF r.id = req[w].row /\ r.device = req[w].device THEN [r EXCEPT !.seen = now] ELSE r]
           R == RecentHeartbeats(d)
<1>1. heartbeats' = {f[r] : r \in heartbeats}
  BY DEF Inspected
<1>2. \A r \in heartbeats :
         /\ f[r].at = r.at /\ f[r].device = r.device /\ r.at \in Nat /\ r.at <= now
         /\ f[r] = r \/ (f[r].seen = now /\ r.device = req[w].device)
  BY DEF Base, WatchTypeOK, Timely, Heartbeat
<1>3. Cardinality(Seen(d, s)) <= HeartbeatThreshold - 1
  BY RaisedStays DEF HeartbeatsCounted
<1> HIDE DEF f
<1>4. CASE d # req[w].device \/ now > s + Hour \/ s > now
  <2>1. Seen(d, s)' \subseteq Seen(d, s)
    <3> SUFFICES ASSUME NEW q \in Seen(d, s)'
                 PROVE  q \in Seen(d, s)
      OBVIOUS
    <3>1. q \in heartbeats' /\ s <= q.at /\ q.at <= s + Hour /\ q.device = d /\ q.seen # Never /\ q.seen <= s + Hour
      BY DEF Seen, Within
    <3>2. PICK r \in heartbeats : q = f[r]
      BY <1>1, <3>1
    <3>3. q = r
      BY <1>2, <1>4, <3>1, <3>2, SeenFinite
    <3> QED
      BY <3>1, <3>3 DEF Seen, Within
  <2>2. Cardinality(Seen(d, s)') <= Cardinality(Seen(d, s)) /\ Cardinality(Seen(d, s)') \in Nat
    BY <2>1, SeenFinite, FS_Subset, FS_CardinalityType
  <2> QED
    BY <1>3, <2>2, SeenFinite
<1>5. CASE d = req[w].device /\ s <= now /\ now <= s + Hour
  <2>1. ~ Raise("heartbeat_frequency", req[w].device)
    <3> SUFFICES ASSUME Raise("heartbeat_frequency", req[w].device)
                 PROVE  FALSE
      OBVIOUS
    <3> DEFINE e == [type |-> "heartbeat_frequency", at |-> now, device |-> req[w].device]
    <3>1. e \in events'
      BY DEF Raise
    <3>2. e \in Within(events, s, s + Hour)'
      BY <1>5, <3>1 DEF Within
    <3> QED
      BY <1>5, <3>2 DEF Raised
  <2>2. Cardinality(R) < HeartbeatThreshold
    BY <1>5, <2>1
  <2>3. R \subseteq heartbeats /\ IsFiniteSet(R) /\ Cardinality(R) \in Nat
    <3>1. R \subseteq heartbeats /\ IsFiniteSet(heartbeats)
      BY DEF RecentHeartbeats, Within, Base, Timely
    <3> QED
      BY <3>1, FS_Subset, FS_CardinalityType
  <2> DEFINE g == [r \in R |-> f[r]]
  <2>4. Seen(d, s)' \subseteq {g[r] : r \in R}
    <3> SUFFICES ASSUME NEW q \in Seen(d, s)'
                 PROVE  \E r \in R : q = f[r]
      OBVIOUS
    <3>1. q \in heartbeats' /\ s <= q.at /\ q.device = d
      BY DEF Seen, Within
    <3>2. PICK r \in heartbeats : q = f[r]
      BY <1>1, <3>1
    <3>3. now - Hour <= r.at /\ r.at <= now /\ r.device = d
      BY <1>2, <1>5, <3>1, <3>2, SeenFinite
    <3>4. r \in R
      BY <3>3 DEF RecentHeartbeats, Within
    <3> QED
      BY <3>2, <3>4
  <2>5. g \in [R -> {g[r] : r \in R}]
    OBVIOUS
  <2> HIDE DEF g, R
  <2>6. /\ IsFiniteSet({g[r] : r \in R}) /\ Cardinality({g[r] : r \in R}) <= Cardinality(R)
        /\ Cardinality({g[r] : r \in R}) \in Nat
    BY <2>3, <2>5, Images
  <2>7. Cardinality(Seen(d, s)') <= Cardinality({g[r] : r \in R}) /\ Cardinality(Seen(d, s)') \in Nat
    BY <2>4, <2>6, FS_Subset, FS_CardinalityType
  <2> QED
    BY <2>2, <2>3, <2>6, <2>7, SeenFinite
<1>6. s > now \/ now > s + Hour \/ (s <= now /\ now <= s + Hour)
  BY SeenFinite
<1> QED
  BY <1>4, <1>5, <1>6

LEMMA HeartbeatsStep ==
    ASSUME Base, Base', HeartbeatsCounted, [Next]_vars
    PROVE  HeartbeatsCounted'
<1>1. ASSUME UNCHANGED heartbeats, events \subseteq events'
      PROVE  HeartbeatsCounted'
  <2>1. \A s \in Nat, d \in Device : Seen(d, s)' = Seen(d, s)
    BY <1>1 DEF Seen, Within
  <2> QED
    BY <1>1, <2>1, QuietHeartbeats
<1>2. ASSUME NEW w \in Worker, HbLog(w)
      PROVE  HeartbeatsCounted'
  <2> DEFINE row == [id |-> Cardinality(heartbeats) + 1, at |-> now, device |-> req[w].device, seen |-> Never]
  <2>1. heartbeats' = heartbeats \union {row} /\ events' = events /\ row.seen = Never
    BY <1>2 DEF HbLog
  <2> HIDE DEF row
  <2>2. \A s \in Nat, d \in Device : Seen(d, s)' \subseteq Seen(d, s)
    BY <2>1 DEF Seen, Within
  <2> QED
    BY <2>1, <2>2, QuietHeartbeats
<1>3. ASSUME NEW w \in Worker, HbCount(w)
      PROVE  HeartbeatsCounted'
  <2>1. req[w].device \in Device
    BY <1>3 DEF HbCount, At, Addressed, Base
  <2>2. now' = now /\ events' = events
    BY <1>3 DEF HbCount
  <2>3. CASE UNCHANGED heartbeats
    BY <1>1, <2>2, <2>3
  <2>4. CASE Cardinality(RecentHeartbeats(req[w].device)) < HeartbeatThreshold /\ Inspected(w)
    BY <2>1, <2>2, <2>4, InspectedHeartbeat
  <2> QED
    BY <1>3, <2>3, <2>4 DEF HbCount
<1>4. ASSUME NEW w \in Worker, HbEvent(w)
      PROVE  HeartbeatsCounted'
  <2>1. req[w].device \in Device
    BY <1>4 DEF HbEvent, At, Addressed, Base
  <2> QED
    BY <1>4, <2>1, InspectedHeartbeat DEF HbEvent, Raise
<1>5. ASSUME NEW w \in Worker,
             \/ BeginActivate(w) \/ BeginHeartbeat(w) \/ BeginDeactivate(w)
             \/ ActCount(w) \/ ActEvent(w) \/ ActIps(w) \/ ActIpEvent(w) \/ ActBind(w) \/ ActLog(w)
             \/ HbVersion(w) \/ DeaRemove(w) \/ DeaInspect(w) \/ DeaEvent(w) \/ Fail(w)
      PROVE  HeartbeatsCounted'
  <2>1. UNCHANGED heartbeats /\ events \subseteq events'
    BY <1>5, ArriveMoves
       DEF ActCount, ActEvent, ActIps, ActIpEvent, ActBind, ActLog, HbVersion,
           DeaRemove, DeaInspect, DeaEvent, Fail, Kept, Raise
  <2> QED
    BY <1>1, <2>1
<1>6. CASE \/ \E p \in Policies : Publish(p)
           \/ \E d \in Device : ApproveUnbind(d) \/ \E s \in {"active", "removed"} : AdminSetDevice(d, s)
           \/ Tick
           \/ UNCHANGED vars
  <2>1. UNCHANGED heartbeats /\ events \subseteq events'
    BY <1>6 DEF Publish, ApproveUnbind, AdminSetDevice, Tick, vars
  <2> QED
    BY <1>1, <2>1
<1> QED
  BY <1>2, <1>3, <1>4, <1>5, <1>6 DEF Next, Step

\* A window whose heartbeats reach the threshold holds an event, but for those
\* whose inspection failed or ended later (inspectHeartbeat).
THEOREM RushNoticed == Spec => []HeartbeatsNoticed
<1>1. ASSUME Base, Init
      PROVE  HeartbeatsCounted
  <2> SUFFICES ASSUME NEW s \in Nat, NEW d \in Device
               PROVE  Cardinality(Seen(d, s)) <= HeartbeatThreshold - 1
    BY DEF HeartbeatsCounted
  <2>1. Seen(d, s) = {}
    BY <1>1 DEF Init, Seen, Within
  <2>2. Cardinality(Seen(d, s)) = 0
    BY <2>1, FS_EmptySet
  <2> QED
    BY <1>1, <2>2, SeenFinite
<1>2. ASSUME Base, HeartbeatsCounted
      PROVE  HeartbeatsNoticed
  <2> SUFFICES ASSUME NEW s \in 0 .. now, NEW d \in Device,
                      ~ Raised("heartbeat_frequency", d, s, s + Hour)
               PROVE  ~ (Cardinality(Seen(d, s)) >= HeartbeatThreshold)
    BY DEF HeartbeatsNoticed, Seen
  <2>1. s \in Nat
    OBVIOUS
  <2>2. Cardinality(Seen(d, s)) <= HeartbeatThreshold - 1
    BY <1>2, <2>1 DEF HeartbeatsCounted
  <2> QED
    BY <1>2, <2>1, <2>2, SeenFinite
<1>3. Init => HeartbeatsCounted
  BY <1>1, BaseInit
<1>4. Base /\ HeartbeatsCounted /\ [Next]_vars => HeartbeatsCounted'
  BY BaseStep, HeartbeatsStep
<1> QED
  BY <1>2, <1>3, <1>4, BaseHolds, PTL DEF Spec

\* A late version waits at the check, and the policy in force excludes it.
OldWaits == \A w \in Worker : req[w].old => req[w].pc = "hb_version" /\ TooOld(policy, req[w].version)

LEMMA OldStep ==
    ASSUME Base, Base', OldWaits, [Next]_vars
    PROVE  OldWaits'
<1> USE DEF OldWaits
<1>1. ASSUME NEW w \in Worker, policy' = policy, Answer(w)
      PROVE  OldWaits'
  BY <1>1, AnswerMoves, IdleRequest
<1>2. ASSUME NEW w \in Worker, policy' = policy, NEW pc, Goto(w, pc), ~ req[w].old
      PROVE  OldWaits'
  BY <1>2, GotoMoves
<1>3. ASSUME NEW w \in Worker, BeginActivate(w) \/ BeginHeartbeat(w) \/ BeginDeactivate(w)
      PROVE  OldWaits'
  <2>1. policy' = policy /\ \A x \in Worker : x # w => req'[x] = req[x]
    BY <1>3, ArriveMoves DEF Kept
  <2>2. req'[w].old => req'[w].pc = "hb_version" /\ TooOld(policy, req'[w].version)
    <3>1. CASE BeginActivate(w) \/ BeginDeactivate(w)
      BY <3>1 DEF BeginActivate, BeginDeactivate, Arrive, Idle, Base, WatchTypeOK
    <3>2. CASE BeginHeartbeat(w)
      <4>1. PICK d \in Device, v \in Versions :
               Arrive(w, [Idle EXCEPT !.op = "heartbeat", !.pc = "hb_version", !.device = d,
                                      !.version = v, !.old = TooOld(policy, v)])
        BY <3>2 DEF BeginHeartbeat
      <4> DEFINE o == TooOld(policy, v)
      <4>2. req'[w] = [Idle EXCEPT !.op = "heartbeat", !.pc = "hb_version", !.device = d,
                                   !.version = v, !.old = o]
        BY <4>1 DEF Arrive, Base, WatchTypeOK
      <4>3. o => TooOld(policy, v)
        OBVIOUS
      <4> HIDE DEF o
      <4>4. req'[w].old = o /\ req'[w].pc = "hb_version" /\ req'[w].version = v
        BY <4>2 DEF Idle
      <4> QED
        BY <4>3, <4>4
    <3> QED
      BY <1>3, <3>1, <3>2
  <2> QED
    BY <2>1, <2>2
<1>4. ASSUME NEW w \in Worker, HbVersion(w)
      PROVE  OldWaits'
  <2>1. policy' = policy /\ At(w, "hb_version")
    BY <1>4 DEF HbVersion, Kept
  <2>2. CASE Answer(w)
    BY <1>1, <2>1, <2>2
  <2>3. CASE ensureAllowed(policy, req[w].version) /\ Goto(w, "hb_log")
    <3>1. policy.min \in Version /\ req[w].version \in Version
      BY VersionAssumption DEF Base, WatchTypeOK, Request
    <3>2. ~ TooOld(policy, req[w].version)
      BY <2>3, <3>1, CompareDecides DEF ensureAllowed, TooOld
    <3>3. ~ req[w].old
      BY <3>2
    <3> QED
      BY <1>2, <2>1, <2>3, <3>3
  <2> QED
    BY <1>4, <2>2, <2>3 DEF HbVersion
<1>5. ASSUME NEW w \in Worker,
             \/ ActCount(w) \/ ActEvent(w) \/ ActIps(w) \/ ActIpEvent(w) \/ ActBind(w) \/ ActLog(w)
             \/ HbCount(w) \/ HbEvent(w)
             \/ DeaRemove(w) \/ DeaInspect(w) \/ DeaEvent(w) \/ Fail(w)
      PROVE  OldWaits'
  <2>1. policy' = policy
    BY <1>5 DEF ActCount, ActEvent, ActIps, ActIpEvent, ActBind, ActLog, HbCount, HbEvent,
                DeaRemove, DeaInspect, DeaEvent, Fail, Kept
  <2>2. CASE Answer(w)
    BY <1>1, <2>1, <2>2
  <2>3. CASE ~ Answer(w)
    <3>1. ~ req[w].old
      BY <1>5, <2>3 DEF ActCount, ActEvent, ActIps, ActIpEvent, ActBind, ActLog, HbCount, HbEvent,
                        DeaRemove, DeaInspect, DeaEvent, Fail, At
    <3>2. \E pc \in {"act_event", "act_ips", "act_ipEvent", "act_bind", "act_log", "hb_event",
                     "dea_inspect", "dea_event"} : Goto(w, pc)
      BY <1>5, <2>3 DEF ActCount, ActEvent, ActIps, ActIpEvent, ActBind, ActLog, HbCount, HbEvent,
                        DeaRemove, DeaInspect, DeaEvent, Fail, Inspected, Left
    <3> QED
      BY <1>2, <2>1, <3>1, <3>2
  <2> QED
    BY <2>2, <2>3
<1>6. ASSUME NEW w \in Worker, HbLog(w)
      PROVE  OldWaits'
  <2>1. ~ req[w].old /\ policy' = policy
    BY <1>6 DEF HbLog, At
  <2>2. ~ req'[w].old /\ \A x \in Worker : x # w => req'[x] = req[x]
    BY <1>6, <2>1 DEF HbLog, Base, WatchTypeOK, Request
  <2> QED
    BY <2>1, <2>2
<1>7. ASSUME NEW p \in Policies, Publish(p)
      PROVE  OldWaits'
  BY <1>7, PublishKeeps DEF Publish
<1>8. CASE \/ \E d \in Device : ApproveUnbind(d) \/ \E s \in {"active", "removed"} : AdminSetDevice(d, s)
           \/ Tick
           \/ UNCHANGED vars
  BY <1>8 DEF ApproveUnbind, AdminSetDevice, Tick, vars
<1> QED
  BY <1>3, <1>4, <1>5, <1>6, <1>7, <1>8 DEF Next, Step

\* No heartbeat is logged of a version the forced policy has excluded since
\* the heartbeat arrived (ensureAllowed).
THEOREM OldVersionsWait == Spec => []OldVersionStopped
<1>1. Init => OldWaits
  BY IdleRequest DEF Init, OldWaits
<1>2. Base /\ OldWaits /\ [Next]_vars => OldWaits'
  BY BaseStep, OldStep
<1>3. OldWaits => OldVersionStopped
  BY DEF OldWaits, OldVersionStopped
<1> QED
  BY <1>1, <1>2, <1>3, BaseHolds, PTL DEF Spec
-----------------------------------------------------------------------------
(* Deactivations *)

\* The deactivations of d between the removal and the end of the inspection.
Leaving(d) == {w \in Worker : req[w].pc \in {"dea_inspect", "dea_event"} /\ req[w].device = d}

\* The inductive form of UnbindsNoticed: the counter has counted whoever was
\* answered and whoever will be, so the last of them to read it reads enough.
UnbindsCounted ==
    \A d \in Device :
        /\ left[d] + Cardinality(Leaving(d)) <= devices[d].unbindCount
        /\ Raised("unbind_frequency", d, 0, now) \/ left[d] < UnbindThreshold

LEMMA LeavingFinite ==
    ASSUME Base, NEW d \in Device
    PROVE  /\ IsFiniteSet(Leaving(d)) /\ Cardinality(Leaving(d)) \in Nat
           /\ left[d] \in Nat /\ devices[d].unbindCount \in Nat
           /\ UnbindThreshold \in Nat /\ now \in Nat
<1>1. Leaving(d) \subseteq Worker
  BY DEF Leaving
<1> QED
  BY <1>1, SenderAssumption, FS_Subset, FS_CardinalityType, ThresholdAssumption
     DEF Base, WatchTypeOK, DeviceRow

\* A step that answers no deactivation and removes none.
LEMMA QuietUnbinds ==
    ASSUME Base, Base', UnbindsCounted, left' = left, events \subseteq events', now <= now',
           \A d \in Device : /\ devices[d].unbindCount <= devices'[d].unbindCount
                             /\ Leaving(d)' \subseteq Leaving(d)
    PROVE  UnbindsCounted'
<1> SUFFICES ASSUME NEW d \in Device
             PROVE  /\ left'[d] + Cardinality(Leaving(d)') <= devices'[d].unbindCount
                    /\ Raised("unbind_frequency", d, 0, now)' \/ left'[d] < UnbindThreshold
  BY DEF UnbindsCounted
<1>1. /\ left[d] + Cardinality(Leaving(d)) <= devices[d].unbindCount
      /\ Raised("unbind_frequency", d, 0, now) \/ left[d] < UnbindThreshold
  BY DEF UnbindsCounted
<1>2. Cardinality(Leaving(d)') <= Cardinality(Leaving(d)) /\ Cardinality(Leaving(d)') \in Nat
  BY LeavingFinite, FS_Subset, FS_CardinalityType
<1>3. devices'[d].unbindCount \in Nat /\ now' \in Nat
  BY WindowAssumption DEF Base, WatchTypeOK, DeviceRow
<1>4. left'[d] + Cardinality(Leaving(d)') <= devices'[d].unbindCount
  BY <1>1, <1>2, <1>3, LeavingFinite
<1>5. Raised("unbind_frequency", d, 0, now) => Raised("unbind_frequency", d, 0, now)'
  <2>1. ASSUME NEW e \in Within(events, 0, now)
        PROVE  e \in Within(events', 0, now')
    <3>1. e \in events' /\ 0 <= e.at /\ e.at <= now /\ e.at \in Nat
      BY DEF Within, Base, WatchTypeOK, Event
    <3> QED
      BY <1>3, <3>1, LeavingFinite DEF Within
  <2> QED
    BY <2>1 DEF Raised
<1> QED
  BY <1>1, <1>4, <1>5

\* A device is removed, and a request goes on to the inspection of it.
LEMMA RemovedUnbinds ==
    ASSUME Base, Base', UnbindsCounted, NEW w \in Worker, DeaRemove(w)
    PROVE  UnbindsCounted'
<1>1. /\ req[w].pc = "dea_remove" /\ req[w].device \in Device
      /\ UNCHANGED <<now, events, left>> /\ devices' = Unbound(req[w].device)
  BY DEF DeaRemove, At, Base, Addressed
<1>2. /\ req'[w].pc = "dea_inspect" /\ req'[w].device = req[w].device
      /\ \A x \in Worker : x # w => req'[x] = req[x]
  BY GotoMoves DEF DeaRemove
<1> SUFFICES ASSUME NEW d \in Device
             PROVE  left[d] + Cardinality(Leaving(d)') <= devices'[d].unbindCount
  BY <1>1 DEF UnbindsCounted, Raised, Within
<1>3. left[d] + Cardinality(Leaving(d)) <= devices[d].unbindCount
  BY DEF UnbindsCounted
<1>4. CASE d = req[w].device
  <2>1. Leaving(d)' \subseteq Leaving(d) \union {w}
    BY <1>2 DEF Leaving
  <2>2. Cardinality(Leaving(d)') <= Cardinality(Leaving(d)) + 1 /\ Cardinality(Leaving(d)') \in Nat
    BY <2>1, LeavingFinite, OneMore
  <2>3. devices'[d].unbindCount = devices[d].unbindCount + 1
    BY <1>1, <1>4 DEF Unbound, Base, WatchTypeOK, DeviceRow
  <2> QED
    BY <1>3, <2>2, <2>3, LeavingFinite
<1>5. CASE d # req[w].device
  <2>1. Leaving(d)' = Leaving(d)
    BY <1>1, <1>2, <1>5 DEF Leaving
  <2>2. devices'[d] = devices[d]
    BY <1>1, <1>5 DEF Unbound, Base, WatchTypeOK
  <2> QED
    BY <1>3, <2>1, <2>2
<1> QED
  BY <1>4, <1>5

\* A deactivation is answered, below the threshold or with an event.
LEMMA LeftUnbinds ==
    ASSUME Base, Base', UnbindsCounted, NEW w \in Worker,
           req[w].pc \in {"dea_inspect", "dea_event"}, Left(w),
           UNCHANGED <<now, devices>>, events \subseteq events',
           \/ devices[req[w].device].unbindCount < UnbindThreshold
           \/ Raise("unbind_frequency", req[w].device)
    PROVE  UnbindsCounted'
<1>1. req[w].device \in Device
  BY DEF Base, Addressed
<1>2. req'[w] = Idle /\ \A x \in Worker : x # w => req'[x] = req[x]
  BY AnswerMoves DEF Left
<1> SUFFICES ASSUME NEW d \in Device
             PROVE  /\ left'[d] + Cardinality(Leaving(d)') <= devices[d].unbindCount
                    /\ Raised("unbind_frequency", d, 0, now)' \/ left'[d] < UnbindThreshold
  BY DEF UnbindsCounted
<1>3. /\ left[d] + Cardinality(Leaving(d)) <= devices[d].unbindCount
      /\ Raised("unbind_frequency", d, 0, now) \/ left[d] < UnbindThreshold
  BY DEF UnbindsCounted
<1>4. Raised("unbind_frequency", d, 0, now) => Raised("unbind_frequency", d, 0, now)'
  BY DEF Raised, Within
<1>5. CASE d = req[w].device
  <2>1. left'[d] = left[d] + 1
    BY <1>5 DEF Left, Base, WatchTypeOK
  <2>2. w \in Leaving(d) /\ Leaving(d)' = Leaving(d) \ {w}
    BY <1>2, <1>5, IdleRequest DEF Leaving
  <2>3. Cardinality(Leaving(d)') = Cardinality(Leaving(d)) - 1
    BY <2>2, LeavingFinite, FS_RemoveElement
  <2>4. left'[d] + Cardinality(Leaving(d)') <= devices[d].unbindCount
    BY <1>3, <2>1, <2>3, LeavingFinite
  <2>5. CASE devices[d].unbindCount < UnbindThreshold
    <3>1. Cardinality(Leaving(d)') \in Nat
      BY <2>2, LeavingFinite, FS_Subset, FS_CardinalityType
    <3> QED
      BY <2>1, <2>4, <2>5, <3>1, LeavingFinite
  <2>6. CASE Raise("unbind_frequency", d)
    <3> DEFINE e == [type |-> "unbind_frequency", at |-> now, device |-> d]
    <3>1. e \in events' /\ 0 <= e.at /\ e.at <= now' /\ e.type = "unbind_frequency" /\ e.device = d
      BY <2>6, LeavingFinite DEF Raise
    <3> HIDE DEF e
    <3> QED
      BY <2>4, <3>1 DEF Raised, Within
  <2> QED
    BY <1>5, <2>5, <2>4, <2>6
<1>6. CASE d # req[w].device
  <2>1. left'[d] = left[d]
    BY <1>1, <1>6 DEF Left, Base, WatchTypeOK
  <2>2. Leaving(d)' = Leaving(d)
    BY <1>2, <1>6, IdleRequest DEF Leaving
  <2> QED
    BY <1>3, <1>4, <2>1, <2>2
<1> QED
  BY <1>5, <1>6

LEMMA UnbindsStep ==
    ASSUME Base, Base', UnbindsCounted, [Next]_vars
    PROVE  UnbindsCounted'
<1>1. now \in Nat /\ \A d \in Device : devices[d].unbindCount \in Nat
  BY LeavingFinite, WindowAssumption DEF Base, WatchTypeOK, DeviceRow
<1>2. \A d \in Device : \A c \in Device : devices[c].unbindCount <= Unbound(d)[c].unbindCount
  BY <1>1 DEF Unbound, Base, WatchTypeOK, DeviceRow
<1>3. ASSUME NEW w \in Worker, left' = left, events \subseteq events', now' = now,
             devices' = devices \/ \E d \in Device : devices' = Unbound(d),
             \A x \in Worker : x # w => req'[x] = req[x],
             req'[w].pc \notin {"dea_inspect", "dea_event"}
                \/ (req[w].pc \in {"dea_inspect", "dea_event"} /\ req'[w].device = req[w].device)
      PROVE  UnbindsCounted'
  <2>1. \A d \in Device : devices[d].unbindCount <= devices'[d].unbindCount
    BY <1>1, <1>2, <1>3
  <2>2. \A d \in Device : Leaving(d)' \subseteq Leaving(d)
    BY <1>3 DEF Leaving
  <2>3. now <= now'
    BY <1>1, <1>3
  <2> QED
    BY <1>3, <2>1, <2>2, <2>3, QuietUnbinds
<1>4. ASSUME NEW w \in Worker, BeginActivate(w) \/ BeginHeartbeat(w) \/ BeginDeactivate(w)
      PROVE  UnbindsCounted'
  BY <1>3, <1>4, ArriveMoves DEF Kept
<1>5. ASSUME NEW w \in Worker,
             \/ ActCount(w) \/ ActEvent(w) \/ ActIps(w) \/ ActIpEvent(w) \/ ActBind(w) \/ ActLog(w)
             \/ HbVersion(w) \/ HbCount(w) \/ HbEvent(w) \/ Fail(w)
      PROVE  UnbindsCounted'
  <2>1. /\ left' = left /\ events \subseteq events' /\ now' = now
        /\ devices' = devices \/ \E d \in Device : devices' = Unbound(d)
    BY <1>5 DEF ActCount, ActEvent, ActIps, ActIpEvent, ActBind, ActLog, HbVersion, HbCount, HbEvent,
                Fail, Kept, Raise
  <2>2. Answer(w) \/ \E pc \in {"act_event", "act_ips", "act_ipEvent", "act_bind", "act_log",
                                "hb_log", "hb_event"} : Goto(w, pc)
    BY <1>5 DEF ActCount, ActEvent, ActIps, ActIpEvent, ActBind, ActLog, HbVersion, HbCount, HbEvent,
                Fail, Inspected
  <2>3. /\ req'[w].pc \notin {"dea_inspect", "dea_event"}
        /\ \A x \in Worker : x # w => req'[x] = req[x]
    BY <2>2, GotoMoves, AnswerMoves, IdleRequest
  <2> QED
    BY <1>3, <2>1, <2>3
<1>6. ASSUME NEW w \in Worker, HbLog(w)
      PROVE  UnbindsCounted'
  <2>1. left' = left /\ events' = events /\ now' = now /\ devices' = devices
    BY <1>6 DEF HbLog
  <2>2. req'[w].pc = "hb_count" /\ \A x \in Worker : x # w => req'[x] = req[x]
    BY <1>6 DEF HbLog, Base, WatchTypeOK, Request
  <2> QED
    BY <1>3, <2>1, <2>2
<1>7. ASSUME NEW w \in Worker, DeaRemove(w)
      PROVE  UnbindsCounted'
  BY <1>7, RemovedUnbinds
<1>8. ASSUME NEW w \in Worker, DeaInspect(w)
      PROVE  UnbindsCounted'
  <2>1. req[w].pc = "dea_inspect" /\ UNCHANGED <<now, devices, events>>
    BY <1>8 DEF DeaInspect, At
  <2>2. CASE Goto(w, "dea_event") /\ UNCHANGED left
    BY <1>3, <2>1, <2>2, GotoMoves
  <2>3. CASE devices[req[w].device].unbindCount < UnbindThreshold /\ Left(w)
    BY <2>1, <2>3, LeftUnbinds
  <2> QED
    BY <1>8, <2>2, <2>3 DEF DeaInspect
<1>9. ASSUME NEW w \in Worker, DeaEvent(w)
      PROVE  UnbindsCounted'
  BY <1>9, LeftUnbinds DEF DeaEvent, At, Raise
<1>10. ASSUME NEW p \in Policies, Publish(p)
       PROVE  UnbindsCounted'
  <2>1. left' = left /\ events' = events /\ now' = now /\ devices' = devices
    BY <1>10 DEF Publish
  <2>2. \A d \in Device : Leaving(d)' \subseteq Leaving(d)
    BY <1>10, PublishKeeps DEF Leaving
  <2> QED
    BY <1>1, <2>1, <2>2, QuietUnbinds
<1>11. CASE \/ \E d \in Device : ApproveUnbind(d) \/ \E s \in {"active", "removed"} : AdminSetDevice(d, s)
            \/ Tick
            \/ UNCHANGED vars
  <2>1. left' = left /\ events' = events /\ req' = req /\ now <= now'
    BY <1>1, <1>11 DEF ApproveUnbind, AdminSetDevice, Tick, vars
  <2>2. \A d \in Device : Leaving(d)' = Leaving(d)
    BY <2>1 DEF Leaving
  <2>3. \A d \in Device : devices[d].unbindCount <= devices'[d].unbindCount
    <3>1. ASSUME NEW d \in Device, ApproveUnbind(d)
          PROVE  \A c \in Device : devices[c].unbindCount <= devices'[c].unbindCount
      BY <1>2, <3>1 DEF ApproveUnbind
    <3>2. ASSUME NEW d \in Device, NEW s, AdminSetDevice(d, s)
          PROVE  \A c \in Device : devices[c].unbindCount <= devices'[c].unbindCount
      BY <1>1, <3>2 DEF AdminSetDevice, Base, WatchTypeOK, DeviceRow
    <3>3. CASE devices' = devices
      BY <1>1, <3>3
    <3> QED
      BY <1>11, <3>1, <3>2, <3>3 DEF Tick, vars
  <2> QED
    BY <2>1, <2>2, <2>3, QuietUnbinds
<1> QED
  BY <1>4, <1>5, <1>6, <1>7, <1>8, <1>9, <1>10, <1>11 DEF Next, Step

\* A device deactivated as often as the threshold has an event, however the
\* deactivations overlapped and whatever else wrote its row (inspectDeactivate).
THEOREM UnbindingNoticed == Spec => []UnbindsNoticed
<1>1. ASSUME Base, Init
      PROVE  UnbindsCounted
  <2> SUFFICES ASSUME NEW d \in Device
               PROVE  /\ left[d] + Cardinality(Leaving(d)) <= devices[d].unbindCount
                      /\ left[d] < UnbindThreshold
    BY DEF UnbindsCounted
  <2>1. Leaving(d) = {}
    BY <1>1, IdleRequest DEF Init, Leaving
  <2>2. Cardinality(Leaving(d)) = 0
    BY <2>1, FS_EmptySet
  <2> QED
    BY <1>1, <2>2, ThresholdAssumption DEF Init
<1>2. ASSUME Base, UnbindsCounted
      PROVE  UnbindsNoticed
  <2> SUFFICES ASSUME NEW d \in Device, left[d] >= UnbindThreshold
               PROVE  Raised("unbind_frequency", d, 0, now)
    BY DEF UnbindsNoticed
  <2>1. Raised("unbind_frequency", d, 0, now) \/ left[d] < UnbindThreshold
    BY <1>2 DEF UnbindsCounted
  <2> QED
    BY <1>2, <2>1, LeavingFinite
<1>3. Init => UnbindsCounted
  BY <1>1, BaseInit
<1>4. Base /\ UnbindsCounted /\ [Next]_vars => UnbindsCounted'
  BY BaseStep, UnbindsStep
<1> QED
  BY <1>2, <1>3, <1>4, BaseHolds, PTL DEF Spec
=============================================================================

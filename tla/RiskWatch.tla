------------------------------ MODULE RiskWatch ------------------------------
(***************************************************************************)
(* What the handlers of one licence write down and what RiskService makes  *)
(* of it: the activation log, the heartbeat log, the counters of unbound   *)
(* devices, and the risk events raised when one of them passes a           *)
(* threshold; and the version policy a heartbeat has to satisfy.  As in    *)
(* LicenseServer an action is one database call, and calls of different    *)
(* requests interleave.                                                    *)
(*                                                                         *)
(* The licence, device and lease checks of the handlers are the subject of *)
(* LicenseServer: here a request they refuse ends in Fail.  Events decided *)
(* by a request alone (fingerprint_changed, invalid_version) are left out, *)
(* and so are the rows of verifications, which nothing counts.             *)
(***************************************************************************)
EXTENDS VersionRules, FiniteSets

CONSTANTS
    Worker,               \* requests the server works on at the same time
    Device,               \* device rows of the licence
    Ip,                   \* client addresses
    None,                 \* null
    Policies,             \* version policies administrators publish: [min, force]
    Versions,             \* versions of the applications that send heartbeats
    Day,                  \* the window of activations, 24 hours
    Hour,                 \* the window of heartbeats, 1 hour
    ActivationThreshold,  \* 10
    IpThreshold,          \* 3
    HeartbeatThreshold,   \* 120
    UnbindThreshold,      \* 3
    MaxTime,              \* bound on the clock
    MaxRows               \* bound on log rows and unbinds together

ASSUME SenderAssumption == IsFiniteSet(Worker) /\ Worker # {} /\ None \notin Ip \union Device
ASSUME VersionAssumption ==
    /\ Versions \subseteq Version
    /\ Policies \subseteq [min : Version, force : BOOLEAN]
ASSUME WindowAssumption == Day \in Nat /\ Hour \in Nat /\ MaxTime \in Nat
ASSUME ThresholdAssumption ==
    {ActivationThreshold, IpThreshold, HeartbeatThreshold, UnbindThreshold} \subseteq Nat \ {0}
ASSUME CountAssumption == MaxRows \in Nat

VARIABLES
    now,          \* the clock of server and database
    policy,       \* the product's version policy with the highest id
    devices,      \* status and unbindCount of the device rows
    activations,  \* activation_logs
    heartbeats,   \* heartbeat_logs, actionType "heartbeat"
    events,       \* risk_events
    req,          \* what each worker is doing
    left          \* history: deactivations that were answered, per device

vars == <<now, policy, devices, activations, heartbeats, events, req, left>>
-----------------------------------------------------------------------------
(* Rows.  Ids are given out in order.  seen is history: when the inspection *)
(* of a heartbeat was completed, Never while it was not.                    *)

Never == -1
DeviceRow == [status : {"active", "removed"}, unbindCount : Nat]
Activation == [id : Nat, at : Nat, ip : Ip \union {None}]
Heartbeat == [id : Nat, at : Nat, device : Device, seen : Nat \union {Never}]
EventType == {"activation_frequency", "ip_switching", "heartbeat_frequency", "unbind_frequency"}
Event == [type : EventType, at : Nat, device : Device \union {None}]

Within(rows, from, to) == {r \in rows : from <= r.at /\ r.at <= to}

\* The rows created since a window ago, as the inspections count them.
RecentActivations == Within(activations, now - Day, now)
RecentHeartbeats(d) == {r \in Within(heartbeats, now - Hour, now) : r.device = d}
Ips(rows) == {r.ip : r \in rows} \ {None}

Raise(type, d) == events' = events \union {[type |-> type, at |-> now, device |-> d]}

\* Fault: the status alone is changed.
FaultUnbound(d) == [devices EXCEPT ![d].status = "removed"]
Unbound(d) == [devices EXCEPT ![d] = [status |-> "removed", unbindCount |-> @.unbindCount + 1]]
-----------------------------------------------------------------------------
(* Requests.  old is history: ever since the request arrived the policy in  *)
(* force has been one its version falls short of.                           *)

Idle == [op |-> "none", pc |-> "idle", device |-> None, ip |-> None, version |-> <<>>,
         row |-> 0, old |-> FALSE]

Request == [op : {"none", "activate", "heartbeat", "deactivate"},
            pc : {"idle", "act_count", "act_event", "act_ips", "act_ipEvent", "act_bind", "act_log",
                  "hb_version", "hb_log", "hb_count", "hb_event",
                  "dea_remove", "dea_inspect", "dea_event"},
            device : Device \union {None}, ip : Ip \union {None}, version : Version,
            row : Nat, old : BOOLEAN]

TooOld(p, v) == p.force /\ Precedes(v, p.min)

At(w, pc) == req[w].pc = pc
Goto(w, pc) == req' = [req EXCEPT ![w].pc = pc]
Answer(w) == req' = [req EXCEPT ![w] = Idle]
Arrive(w, q) == req[w] = Idle /\ req' = [req EXCEPT ![w] = q]

\* Bound on the runs: a request arrives, a device is unbound
\* otherwise, while there is room.
Room(d) == Cardinality(activations) + Cardinality(heartbeats) + devices[d].unbindCount
              + Cardinality({w \in Worker : req[w] # Idle}) < MaxRows
Kept == UNCHANGED <<now, policy, devices, activations, heartbeats, events, left>>

BeginActivate(w) ==
    /\ \A d \in Device : Room(d)
    /\ \E i \in Ip \union {None} :
          Arrive(w, [Idle EXCEPT !.op = "activate", !.pc = "act_count", !.ip = i])
    /\ Kept

BeginHeartbeat(w) ==
    /\ \E d \in Device, v \in Versions :
        /\ Room(d)
        /\ Arrive(w, [Idle EXCEPT !.op = "heartbeat", !.pc = "hb_version", !.device = d,
                                 !.version = v, !.old = TooOld(policy, v)])
    /\ Kept

\* findActiveByCode has found the device.
BeginDeactivate(w) ==
    \E d \in Device :
        /\ devices[d].status = "active" /\ Room(d)
        /\ Arrive(w, [Idle EXCEPT !.op = "deactivate", !.pc = "dea_remove", !.device = d])
        /\ Kept
-----------------------------------------------------------------------------
(* ActivationService.activate and inspectActivationAttempt *)

\* Fault: off by one.
FaultActCount(w) ==
    /\ At(w, "act_count")
    /\ Goto(w, IF Cardinality(RecentActivations) > ActivationThreshold THEN "act_event" ELSE "act_ips")
    /\ Kept

ActCount(w) ==
    /\ At(w, "act_count")
    /\ Goto(w, IF Cardinality(RecentActivations) >= ActivationThreshold THEN "act_event" ELSE "act_ips")
    /\ Kept

ActEvent(w) ==
    /\ At(w, "act_event")
    /\ Raise("activation_frequency", None)
    /\ Goto(w, "act_ips")
    /\ UNCHANGED <<now, policy, devices, activations, heartbeats, left>>

ActIps(w) ==
    /\ At(w, "act_ips")
    /\ Goto(w, IF req[w].ip # None /\ Cardinality(Ips(RecentActivations)) >= IpThreshold
               THEN "act_ipEvent" ELSE "act_bind")
    /\ Kept

ActIpEvent(w) ==
    /\ At(w, "act_ipEvent")
    /\ Raise("ip_switching", None)
    /\ Goto(w, "act_bind")
    /\ UNCHANGED <<now, policy, devices, activations, heartbeats, left>>

\* getOrCreateDevice and issue, of which only the kick of another device
\* touches what is modelled here.
ActBind(w) ==
    /\ At(w, "act_bind")
    /\ \/ UNCHANGED devices
       \/ \E d \in Device : /\ devices[d].status = "active" /\ Room(d)
                            /\ devices' = Unbound(d)
    /\ Goto(w, "act_log")
    /\ UNCHANGED <<now, policy, activations, heartbeats, events, left>>

ActLog(w) ==
    /\ At(w, "act_log")
    /\ activations' = activations \union
          {[id |-> Cardinality(activations) + 1, at |-> now, ip |-> req[w].ip]}
    /\ Answer(w)
    /\ UNCHANGED <<now, policy, devices, heartbeats, events, left>>
-----------------------------------------------------------------------------
(* VerifyHeartbeatService.heartbeat and inspectHeartbeat *)

HbVersion(w) ==
    /\ At(w, "hb_version")
    /\ IF ensureAllowed(policy, req[w].version) THEN Goto(w, "hb_log") ELSE Answer(w)
    /\ Kept

HbLog(w) ==
    LET id == Cardinality(heartbeats) + 1 IN
    /\ At(w, "hb_log")
    /\ heartbeats' = heartbeats \union {[id |-> id, at |-> now, device |-> req[w].device, seen |-> Never]}
    /\ req' = [req EXCEPT ![w] = [@ EXCEPT !.pc = "hb_count", !.row = id]]
    /\ UNCHANGED <<now, policy, devices, activations, events, left>>

\* The inspection of w's own row ends, as does the handler.
Inspected(w) ==
    /\ heartbeats' = {IF r.id = req[w].row /\ r.device = req[w].device THEN [r EXCEPT !.seen = now] ELSE r :
                         r \in heartbeats}
    /\ Answer(w)

\* Fault: the row just written is not counted.
FaultHbCount(w) ==
    /\ At(w, "hb_count")
    /\ \/ /\ Cardinality(RecentHeartbeats(req[w].device)) > HeartbeatThreshold
          /\ Goto(w, "hb_event") /\ UNCHANGED heartbeats
       \/ Cardinality(RecentHeartbeats(req[w].device)) <= HeartbeatThreshold /\ Inspected(w)
    /\ UNCHANGED <<now, policy, devices, activations, events, left>>

HbCount(w) ==
    /\ At(w, "hb_count")
    /\ \/ /\ Cardinality(RecentHeartbeats(req[w].device)) >= HeartbeatThreshold
          /\ Goto(w, "hb_event") /\ UNCHANGED heartbeats
       \/ Cardinality(RecentHeartbeats(req[w].device)) < HeartbeatThreshold /\ Inspected(w)
    /\ UNCHANGED <<now, policy, devices, activations, events, left>>

HbEvent(w) ==
    /\ At(w, "hb_event")
    /\ Raise("heartbeat_frequency", req[w].device)
    /\ Inspected(w)
    /\ UNCHANGED <<now, policy, devices, activations, left>>
-----------------------------------------------------------------------------
(* VerifyHeartbeatService.deactivate and inspectDeactivate *)

DeaRemove(w) ==
    /\ At(w, "dea_remove")
    /\ devices' = Unbound(req[w].device)
    /\ Goto(w, "dea_inspect")
    /\ UNCHANGED <<now, policy, activations, heartbeats, events, left>>

Left(w) == left' = [left EXCEPT ![req[w].device] = @ + 1] /\ Answer(w)

DeaInspect(w) ==
    /\ At(w, "dea_inspect")
    /\ \/ devices[req[w].device].unbindCount >= UnbindThreshold /\ Goto(w, "dea_event") /\ UNCHANGED left
       \/ devices[req[w].device].unbindCount < UnbindThreshold /\ Left(w)
    /\ UNCHANGED <<now, policy, devices, activations, heartbeats, events>>

DeaEvent(w) ==
    /\ At(w, "dea_event")
    /\ Raise("unbind_frequency", req[w].device)
    /\ Left(w)
    /\ UNCHANGED <<now, policy, devices, activations, heartbeats>>
-----------------------------------------------------------------------------
(* Administrators, the clock, failures *)

\* A new policy, or a change of the newest one.
Publish(p) ==
    /\ policy # p
    /\ policy' = p
    /\ req' = [w \in Worker |-> [req[w] EXCEPT !.old = @ /\ TooOld(p, req[w].version)]]
    /\ UNCHANGED <<now, devices, activations, heartbeats, events, left>>

AdminSetDevice(d, s) ==
    /\ devices[d].status # s
    /\ devices' = [devices EXCEPT ![d].status = s]
    /\ UNCHANGED <<now, policy, activations, heartbeats, events, req, left>>

\* The approval of an unbind request, whatever the device's status.
ApproveUnbind(d) ==
    /\ Room(d)
    /\ devices' = Unbound(d)
    /\ UNCHANGED <<now, policy, activations, heartbeats, events, req, left>>

Tick ==
    /\ now < MaxTime
    /\ now' = now + 1
    /\ UNCHANGED <<policy, devices, activations, heartbeats, events, req, left>>

\* A check refuses the request, a database call fails, the process stops.
Fail(w) == req[w] # Idle /\ Answer(w) /\ Kept
-----------------------------------------------------------------------------
Init ==
    /\ now = 0
    /\ policy \in Policies
    /\ devices = [d \in Device |-> [status |-> "active", unbindCount |-> 0]]
    /\ activations = {}
    /\ heartbeats = {}
    /\ events = {}
    /\ req = [w \in Worker |-> Idle]
    /\ left = [d \in Device |-> 0]

Step(w) ==
    \/ BeginActivate(w) \/ BeginHeartbeat(w) \/ BeginDeactivate(w)
    \/ ActCount(w) \/ ActEvent(w) \/ ActIps(w) \/ ActIpEvent(w) \/ ActBind(w) \/ ActLog(w)
    \/ HbVersion(w) \/ HbLog(w) \/ HbCount(w) \/ HbEvent(w)
    \/ DeaRemove(w) \/ DeaInspect(w) \/ DeaEvent(w)
    \/ Fail(w)

Next ==
    \/ \E w \in Worker : Step(w)
    \/ \E p \in Policies : Publish(p)
    \/ \E d \in Device : ApproveUnbind(d) \/ \E s \in {"active", "removed"} : AdminSetDevice(d, s)
    \/ Tick

Spec == Init /\ [][Next]_vars
-----------------------------------------------------------------------------
(* Correctness *)

\* Rows, events and requests are ones the handlers can write.
WatchTypeOK ==
    /\ now \in 0 .. MaxTime
    /\ policy \in Policies
    /\ devices \in [Device -> DeviceRow]
    /\ activations \subseteq Activation
    /\ heartbeats \subseteq Heartbeat
    /\ events \subseteq Event
    /\ req \in [Worker -> Request]
    /\ left \in [Device -> Nat]

Raised(type, d, from, to) == \E e \in Within(events, from, to) : e.type = type /\ e.device = d

\* Activations are counted before and logged after the device was bound, so
\* overlapping ones miss each other; but a window that holds as many as the
\* threshold and the requests in flight together holds an event too.
ActivationsNoticed ==
    \A s \in 0 .. now :
        Cardinality(Within(activations, s, s + Day)) >= ActivationThreshold + Cardinality(Worker)
            => Raised("activation_frequency", None, s, s + Day)

\* The same for the addresses activations come from.
SwitchesNoticed ==
    \A s \in 0 .. now :
        Cardinality(Ips(Within(activations, s, s + Day))) >= IpThreshold + Cardinality(Worker)
            => Raised("ip_switching", None, s, s + Day)

\* Both: too many activations of a licence, or from too many places, do not go
\* unnoticed however they overlap (inspectActivation).
BindingsNoticed == ActivationsNoticed /\ SwitchesNoticed

\* Heartbeats are logged before they are counted: a window in which the
\* threshold is reached by heartbeats whose inspection also ended in it holds
\* an event, so only failing or dragging handlers escape.
HeartbeatsNoticed ==
    \A s \in 0 .. now, d \in Device :
        Cardinality({r \in Within(heartbeats, s, s + Hour) :
                        r.device = d /\ r.seen # Never /\ r.seen <= s + Hour}) >= HeartbeatThreshold
            => Raised("heartbeat_frequency", d, s, s + Hour)

\* A device that was deactivated as often as the threshold says has an event,
\* whatever else removed or restored it in between, and however the
\* deactivations overlapped.
UnbindsNoticed ==
    \A d \in Device : left[d] >= UnbindThreshold => Raised("unbind_frequency", d, 0, now)

\* No heartbeat is logged of an application whose version the forced policy
\* excluded when it arrived and ever since (03 deployment guide, 4.5).
OldVersionStopped == \A w \in Worker : req[w].old => req[w].pc = "hb_version"
=============================================================================

---------------------------- MODULE UnbindRequests ----------------------------
(***************************************************************************)
(* Requests to unbind a device (server/src/admin/p2/p2.controller.ts):     *)
(* clients and administrators open them, administrators review them, any   *)
(* number of times, and an approval removes the device.  A review is two   *)
(* database calls, outside a transaction.                                  *)
(*                                                                         *)
(* Left out: the licence a request names (no decision reads it), requests  *)
(* refused before anything changes, and the audit rows (AdminConsole).     *)
(***************************************************************************)
EXTENDS Integers, FiniteSets

CONSTANTS
    Worker,      \* reviews the server works on at the same time
    Device,      \* device rows
    Request,     \* rows of unbind requests
    None,        \* null
    MaxUnbinds   \* bound on a device's unbind counter

ASSUME UnbindAssumption ==
    IsFiniteSet(Request) /\ MaxUnbinds \in Nat /\ None \notin Worker \union Device \union Request

VARIABLES
    device,      \* status and unbindCount of the device rows, "gone" once deleted
    request,     \* status and device of the request rows, "none" while there is no row
    review,      \* what each worker is doing
    due,         \* history: requests with an approval stored that has not reached the device
    kept         \* history: devices set back to active and not approved for removal since

unbindVars == <<device, request, review, due, kept>>
-----------------------------------------------------------------------------
Reviewing == [step : {"idle", "store", "strike"}, request : Request \union {None},
              verdict : {"none", "approved", "rejected"}]
Idle == [step |-> "idle", request |-> None, verdict |-> "none"]

Rows(status) == {r \in Request : request[r].status = status}

\* Reviews that have stored an approval for d and have yet to remove it.
Striking(d) == {w \in Worker : review[w].step = "strike" /\ request[review[w].request].device = d}

\* Fault: the counter is not raised.
FaultRemoved(d) == [status |-> "removed", unbinds |-> device[d].unbinds]
\* status = removed, unbindCount increment 1.
Removed(d) == [status |-> "removed", unbinds |-> device[d].unbinds + 1]

\* By licence key and device code, or by an administrator with both ids.
Open(d) ==
    /\ device[d].status # "gone"
    /\ \E r \in Rows("none") : request' = [request EXCEPT ![r] = [status |-> "pending", device |-> d]]
    /\ UNCHANGED <<device, review, due, kept>>

\* The row as it is now is read for the audit only.
BeginReview(w, r, verdict) ==
    /\ review[w] = Idle
    /\ request[r].status # "none"
    /\ review' = [review EXCEPT ![w] = [step |-> "store", request |-> r, verdict |-> verdict]]
    /\ UNCHANGED <<device, request, due, kept>>

\* Fault: the device is removed whatever the verdict.
FaultStrikes(w) == TRUE
Strikes(w) == review[w].verdict = "approved"

\* A row deleted meanwhile makes the update, and with it the review, fail.
StoreVerdict(w) ==
    LET r == review[w].request IN
    /\ review[w].step = "store"
    /\ \/ /\ request[r].status # "none"
          /\ request' = [request EXCEPT ![r].status = review[w].verdict]
          /\ review' = [review EXCEPT ![w] = IF Strikes(w) THEN [@ EXCEPT !.step = "strike"] ELSE Idle]
          /\ IF review[w].verdict = "approved"
             THEN due' = due \union {r} /\ kept' = kept \ {request[r].device}
             ELSE UNCHANGED <<due, kept>>
       \/ /\ request[r].status = "none"
          /\ review' = [review EXCEPT ![w] = Idle]
          /\ UNCHANGED <<request, due, kept>>
    /\ UNCHANGED device

\* A device deleted meanwhile (or the bound) makes the update fail.
Strike(w) ==
    LET d == request[review[w].request].device IN
    /\ review[w].step = "strike"
    /\ IF d # None /\ device[d].unbinds < MaxUnbinds
       THEN device' = [device EXCEPT ![d] = Removed(d)] /\ due' = due \ {review[w].request}
       ELSE UNCHANGED <<device, due>>
    /\ review' = [review EXCEPT ![w] = Idle]
    /\ UNCHANGED <<request, kept>>

\* A call is rejected or the process stops: what was stored stays stored.
BreakOff(w) ==
    /\ review[w] # Idle
    /\ review' = [review EXCEPT ![w] = Idle]
    /\ UNCHANGED <<device, request, due, kept>>

\* DeviceService.remove, and the kick of the oldest device.
Leave(d) ==
    /\ device[d].status = "active" /\ device[d].unbinds < MaxUnbinds
    /\ device' = [device EXCEPT ![d] = Removed(d)]
    /\ kept' = kept \ {d}
    /\ UNCHANGED <<request, review, due>>

\* PUT devices/:id/status; removed stands for banned, too.
SetDevice(d, status) ==
    /\ device[d].status \notin {"gone", status}
    /\ device' = [device EXCEPT ![d].status = status]
    /\ kept' = IF status = "active" /\ Striking(d) = {} THEN kept \union {d} ELSE kept \ {d}
    /\ UNCHANGED <<request, review, due>>

\* The product is deleted: one transaction takes requests and devices.
DeleteRows ==
    /\ device' = [d \in Device |-> [status |-> "gone", unbinds |-> 0]]
    /\ request' = [r \in Request |-> [status |-> "none", device |-> None]]
    /\ due' = {} /\ kept' = {}
    /\ UNCHANGED review

UnbindInit ==
    /\ device = [d \in Device |-> [status |-> "active", unbinds |-> 0]]
    /\ request = [r \in Request |-> [status |-> "none", device |-> None]]
    /\ review = [w \in Worker |-> Idle]
    /\ due = {} /\ kept = {}

UnbindNext ==
    \/ \E w \in Worker, r \in Request, verdict \in {"approved", "rejected"} : BeginReview(w, r, verdict)
    \/ \E w \in Worker : StoreVerdict(w) \/ Strike(w) \/ BreakOff(w)
    \/ \E d \in Device : Open(d) \/ Leave(d) \/ \E status \in {"active", "removed"} : SetDevice(d, status)
-----------------------------------------------------------------------------
(* Correctness *)

\* Rows and reviews are in states the code can produce.
UnbindTypeOK ==
    /\ device \in [Device -> [status : {"active", "removed", "gone"}, unbinds : 0 .. MaxUnbinds]]
    /\ request \in [Request -> [status : {"none", "pending", "approved", "rejected"}, device : Device \union {None}]]
    /\ review \in [Worker -> Reviewing]
    /\ due \subseteq Request /\ kept \subseteq Device

\* The unbind counter, which the risk inspection reads, misses no approval that
\* reached the device, however many are reviewed at once and whatever is
\* decided about them later (increment 1 in reviewDeviceUnbindRequest).
ApprovalsCounted ==
    \A d \in Device :
        device[d].unbinds >= Cardinality({r \in Rows("approved") \ due : request[r].device = d})

\* A device an administrator set back to active is taken away again only by an
\* approval stored since, or one that was already on its way to the device:
\* old approvals and rejections, reviewed late or twice, do not strike again.
SetBackStays == \A d \in kept : device[d].status = "active"
=============================================================================

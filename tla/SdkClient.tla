------------------------------ MODULE SdkClient ------------------------------
(***************************************************************************)
(* One Electron client (sdk-electron/src: LicenseClient, its heartbeat     *)
(* scheduler, lease verifier, feature gate and cache file) and what the    *)
(* licence server knows of its device.  Calls are asynchronous: the client *)
(* goes on while they are under way, requests and answers can be lost,     *)
(* answers can overtake each other, and the process can end at any time.   *)
(*                                                                         *)
(* The application around the client decides when it is called and what    *)
(* becomes of the timer afterwards (DemoApp): the actions after which an   *)
(* application starts or stops the heartbeats leave timer to it.           *)
(*                                                                         *)
(* Of the server only the outcome of a request counts, so a request is     *)
(* served in one step; LicenseServer has the steps in between.  The binding *)
(* policy is deny_new: no other client revokes this device's lease.  Left  *)
(* out: what a request that outlives its client process does later, and a  *)
(* cache file that cannot be deleted.                                      *)
(***************************************************************************)
EXTENDS Integers, FiniteSets

CONSTANTS
    Call,        \* API calls the client may have under way at the same time
    None,        \* null
    Ttl,         \* lifetime of a lease
    Grace,       \* graceHours
    MaxTime,     \* bound on the clock
    MaxLeases    \* bound on the leases the server issues to the device

ASSUME SdkAssumption ==
    /\ Ttl \in Nat \ {0} /\ Grace \in Nat /\ MaxTime \in Nat /\ MaxLeases \in Nat
    /\ None \notin [id : Nat, expireAt : Nat]

VARIABLES
    \* the server
    license,     \* status of the licence
    device,      \* status of the device row, "none" while there is no row
    lease,       \* the device's active lease row, or None
    issued,      \* leases issued so far; numbers them
    now,         \* the clock
    \* the client
    cache,       \* the lease in the cache file, or None
    status,      \* LicenseClient.state.status
    gate,        \* does the feature gate hold the licence's features?
    timer,       \* is the heartbeat timer set?
    call,        \* the calls under way
    \* history
    missed,      \* since the last activation an answer about the lease did not reach the cache
    shown,       \* a verification answered LICENSE_BANNED; the licence has been banned ever since
    left         \* deactivate has succeeded and no activation was started since

server == <<license, device, lease, issued>>
client == <<cache, status, gate, timer>>
history == <<missed, shown, left>>
-----------------------------------------------------------------------------
Lease == [id : 1 .. MaxLeases, expireAt : 0 .. MaxTime + Ttl]
Status == {"inactive", "active", "grace", "expired", "banned", "device-removed", "network-error", "invalid"}

\* REFUSED stands for the codes every caller treats alike: FORCE_UPGRADE_REQUIRED,
\* RATE_LIMITED, DEVICE_LIMIT_REACHED, a failing server, and for activate and
\* deactivate, which only throw, any refusal.
Code == {"none", "OK", "NETWORK_ERROR", "LEASE_INVALID", "LEASE_EXPIRED", "LICENSE_BANNED", "DEVICE_REMOVED", "REFUSED"}

\* The codes after which the scheduler gives up.
Final == {"LICENSE_BANNED", "DEVICE_REMOVED", "LEASE_EXPIRED", "LEASE_INVALID"}

mapCodeToState(code) ==
    CASE code = "LICENSE_BANNED" -> "banned"
      [] code = "LEASE_EXPIRED"  -> "expired"
      [] code = "DEVICE_REMOVED" -> "device-removed"
      [] code = "NETWORK_ERROR"  -> "network-error"
      [] OTHER                   -> "invalid"

\* A call: sent holds the cached lease it was made with, local what the lease
\* verifier said of it; code and answer are the server's.
Idle == [op |-> "none", step |-> "idle", sent |-> None, local |-> "none", code |-> "none", answer |-> None]
CallRecord == [op : {"none", "activate", "verify", "heartbeat", "deactivate"},
               step : {"idle", "sent", "answered"}, sent : Lease \union {None},
               local : {"none", "missing", "valid", "grace", "expired"}, code : Code, answer : Lease \union {None}]

\* LeaseVerifier.check
check ==
    IF cache = None THEN "missing"
    ELSE IF cache.expireAt > now THEN "valid"
    ELSE IF cache.expireAt + Grace > now THEN "grace"
    ELSE "expired"
Send(c, op) ==
    /\ call[c] = Idle
    /\ call' = [call EXCEPT ![c] = [Idle EXCEPT !.op = op, !.step = "sent", !.sent = cache, !.local = check]]

Sent(c, op) == call[c].op = op /\ call[c].step = "sent"
Received(c, op, codes) == call[c].op = op /\ call[c].step = "answered" /\ call[c].code \in codes
Refusals == Code \ {"none", "OK"}

Reply(c, code, answer) ==
    call' = [call EXCEPT ![c] = [@ EXCEPT !.step = "answered", !.code = code, !.answer = answer]]

Finish(c) == call' = [call EXCEPT ![c] = Idle]
Free(c) == call[c] = Idle /\ UNCHANGED call

-----------------------------------------------------------------------------
(* The client calls *)

\* activate up to its call; nothing changes before the answer.
Activate(c) ==
    /\ Send(c, "activate")
    /\ left' = FALSE
    /\ UNCHANGED <<server, now, client, missed, shown>>

\* verifyOnStartup up to its call: without a usable cached lease it answers by
\* itself, and leaves the feature gate alone (which Launch has just set).
Verify(c) ==
    /\ \/ /\ check \in {"valid", "grace"}
          /\ Send(c, "verify")
          /\ UNCHANGED status
       \/ /\ check \in {"missing", "expired"}
          /\ Free(c)
          /\ status' = IF check = "missing" THEN "inactive" ELSE "expired"
    /\ UNCHANGED <<server, now, cache, history>>

\* The timer fires.
Tick(c) ==
    /\ timer
    /\ \/ /\ cache # None
          /\ Send(c, "heartbeat")
          /\ UNCHANGED <<status, timer>>
       \/ /\ cache = None
          /\ Free(c)
          /\ timer' = FALSE
          /\ status' = "inactive"
    /\ UNCHANGED <<server, now, cache, gate, history>>

\* Fault: the gate keeps the features.
FaultForget ==
    /\ cache' = None
    /\ status' = "inactive"
    /\ UNCHANGED gate

\* The end of deactivate: store.clear, empty feature gate, state inactive.
Forget ==
    /\ cache' = None
    /\ status' = "inactive"
    /\ gate' = FALSE

Deactivate(c) ==
    \/ /\ cache # None
       /\ Send(c, "deactivate")
       /\ UNCHANGED <<server, now, cache, status, gate, history>>
    \/ /\ cache = None
       /\ Free(c)
       /\ Forget
       /\ left' = TRUE
       /\ UNCHANGED <<server, now, missed, shown>>

-----------------------------------------------------------------------------
(* The server answers *)

NewLease == [id |-> issued + 1, expireAt |-> now + Ttl]

\* The device's leases are revoked and a new one is issued.
Issue(c) ==
    /\ issued < MaxLeases
    /\ issued' = issued + 1
    /\ lease' = NewLease
    /\ Reply(c, "OK", NewLease)

Refuse(c, code) == Reply(c, code, None) /\ UNCHANGED server

\* What validate and the licence check answer to a lease token.
TokenCode(l) ==
    IF lease # l THEN "LEASE_INVALID"
    ELSE IF l.expireAt <= now THEN "LEASE_EXPIRED"
    ELSE IF license = "banned" THEN "LICENSE_BANNED"
    ELSE "OK"

\* A lease that validate finds expired is marked so.
RefuseToken(c, code) ==
    /\ Reply(c, code, None)
    /\ lease' = IF code = "LEASE_EXPIRED" THEN None ELSE lease
    /\ UNCHANGED <<license, device, issued>>

ServeActivate(c) ==
    /\ Sent(c, "activate")
    /\ \/ license = "active" /\ device # "removed" /\ device' = "active" /\ Issue(c) /\ UNCHANGED license
       \/ Refuse(c, "REFUSED")
    /\ UNCHANGED <<now, client, history>>

ServeVerify(c) ==
    LET code == TokenCode(call[c].sent) IN
    /\ Sent(c, "verify")
    /\ \/ code # "OK" /\ RefuseToken(c, code)
       \/ code = "OK" /\ device = "removed" /\ Refuse(c, "DEVICE_REMOVED")
       \/ code = "OK" /\ device = "active" /\ Reply(c, "OK", call[c].sent) /\ UNCHANGED server
       \/ code = "OK" /\ device = "active" /\ Refuse(c, "REFUSED")
    /\ UNCHANGED <<now, client, history>>

\* Fault: the licence is not looked at.
FaultServeHeartbeat(c) ==
    LET code == TokenCode(call[c].sent) IN
    /\ Sent(c, "heartbeat")
    /\ \/ code \notin {"OK", "LICENSE_BANNED"} /\ RefuseToken(c, code)
       \/ code \in {"OK", "LICENSE_BANNED"} /\ Issue(c) /\ UNCHANGED <<license, device>>
    /\ UNCHANGED <<now, client, history>>

\* The heartbeat does not look at the device row.
ServeHeartbeat(c) ==
    LET code == TokenCode(call[c].sent) IN
    /\ Sent(c, "heartbeat")
    /\ \/ code # "OK" /\ RefuseToken(c, code)
       \/ code = "OK" /\ Issue(c) /\ UNCHANGED <<license, device>>
       \/ code = "OK" /\ Refuse(c, "REFUSED")
    /\ UNCHANGED <<now, client, history>>

ServeDeactivate(c) ==
    /\ Sent(c, "deactivate")
    /\ \/ /\ license = "active" /\ device = "active"
          /\ device' = "removed"
          /\ lease' = None
          /\ Reply(c, "OK", None)
          /\ UNCHANGED <<license, issued>>
       \/ Refuse(c, "REFUSED")
    /\ UNCHANGED <<now, client, history>>

Serve(c) == ServeActivate(c) \/ ServeVerify(c) \/ ServeHeartbeat(c) \/ ServeDeactivate(c)

\* The answer of c told the client of a change of its lease.
Committed(c) == call[c].code = "OK" /\ call[c].op \in {"activate", "heartbeat", "deactivate"}

\* The request or its answer is lost (fetch fails, its body cannot be read), or
\* the server fails before or after it has changed its tables.
Lose(c) ==
    /\ \/ call[c].step = "sent"
       \/ call[c].step = "answered" /\ call[c].code \notin {"NETWORK_ERROR", "REFUSED"}
    /\ \E code \in {"NETWORK_ERROR", "REFUSED"} : Reply(c, code, None)
    /\ missed' = (missed \/ Committed(c))
    /\ UNCHANGED <<server, now, client, shown, left>>
-----------------------------------------------------------------------------
(* The client receives *)

\* Fault: the new lease is not written to the cache file.
FaultAdopt(c) ==
    /\ status' = "active"
    /\ gate' = TRUE
    /\ UNCHANGED cache

\* store.write, featureGate.update and state active, with the lease of c.
Adopt(c) ==
    /\ cache' = call[c].answer
    /\ gate' = TRUE
    /\ status' = "active"

Activated(c) ==
    /\ Received(c, "activate", {"OK"})
    /\ Adopt(c)
    /\ missed' = FALSE
    /\ Finish(c)
    /\ UNCHANGED <<server, now, shown, left>>

\* activate and deactivate throw, and change nothing: the application's handler
\* throws with them.
Thrown(c) ==
    /\ Received(c, "activate", Refusals) \/ Received(c, "deactivate", Refusals)
    /\ Finish(c)
    /\ UNCHANGED <<server, now, client, history>>

\* The cache is written as it was read before the call.
Verified(c) ==
    /\ Received(c, "verify", {"OK"})
    /\ cache' = call[c].sent
    /\ gate' = TRUE
    /\ status' = IF call[c].local = "grace" THEN "grace" ELSE "active"
    /\ Finish(c)
    /\ UNCHANGED <<server, now, history>>

\* The state a failed verification shows: the grace period bridges the network only.
Fallback(c, code) == IF code = "NETWORK_ERROR" /\ call[c].local = "grace" THEN "grace" ELSE mapCodeToState(code)

VerifyFailed(c) ==
    LET code == call[c].code IN
    /\ Received(c, "verify", Refusals)
    /\ status' = Fallback(c, code)
    /\ shown' = (shown \/ (code = "LICENSE_BANNED" /\ license = "banned"))
    /\ Finish(c)
    /\ UNCHANGED <<server, now, cache, gate, missed, left>>

Renewed(c) ==
    /\ Received(c, "heartbeat", {"OK"})
    /\ Adopt(c)
    /\ Finish(c)
    /\ UNCHANGED <<server, now, timer, history>>

\* Fault: the error is swallowed.
FaultHeartbeatFailed(c) ==
    /\ Received(c, "heartbeat", Refusals)
    /\ Finish(c)
    /\ UNCHANGED <<server, now, client, history>>

HeartbeatFailed(c) ==
    /\ Received(c, "heartbeat", Refusals)
    /\ timer' = (timer /\ call[c].code \notin Final)
    /\ status' = mapCodeToState(call[c].code)
    /\ Finish(c)
    /\ UNCHANGED <<server, now, cache, gate, history>>

Deactivated(c) ==
    /\ Received(c, "deactivate", {"OK"})
    /\ Forget
    /\ left' = TRUE
    /\ Finish(c)
    /\ UNCHANGED <<server, now, missed, shown>>

\* LicenseStore.write fails and leaves the old cache file or an unreadable one:
\* activate throws, verify and heartbeat report the error like any other.
WriteFails(c, op) ==
    /\ Received(c, op, {"OK"})
    /\ cache' \in {cache, None}
    /\ \/ op = "activate" /\ UNCHANGED status
       \/ op = "verify" /\ \E code \in {"NETWORK_ERROR", "REFUSED"} : status' = Fallback(c, code)
       \/ op = "heartbeat" /\ status' \in {"invalid", "network-error"}
    /\ missed' = TRUE
    /\ Finish(c)
    /\ UNCHANGED <<server, now, gate, shown, left>>
-----------------------------------------------------------------------------
(* Around them *)

\* The process ends, with whatever is under way.
Stop ==
    /\ call' = [c \in Call |-> Idle]
    /\ status' = "inactive"
    /\ gate' = FALSE
    /\ timer' = FALSE
    /\ missed' = (missed \/ \E c \in Call : Committed(c))
    /\ shown' = FALSE
    /\ UNCHANGED <<server, now, cache, left>>

AdminLicense ==
    /\ license' = IF license = "active" THEN "banned" ELSE "active"
    /\ shown' = FALSE
    /\ UNCHANGED <<device, lease, issued, now, client, call, missed, left>>

\* The device is removed or banned, or set back; leases stay as they are.
AdminDevice ==
    /\ device # "none"
    /\ device' = IF device = "active" THEN "removed" ELSE "active"
    /\ UNCHANGED <<license, lease, issued, now, client, call, history>>

TimePasses ==
    /\ now < MaxTime
    /\ now' = now + 1
    /\ UNCHANGED <<server, client, call, history>>
-----------------------------------------------------------------------------
ClientInit ==
    /\ license = "active" /\ device = "none" /\ lease = None /\ issued = 0 /\ now = 0
    /\ cache = None /\ status = "inactive" /\ gate = FALSE /\ timer = FALSE
    /\ call = [c \in Call |-> Idle]
    /\ missed = FALSE /\ shown = FALSE /\ left = FALSE

\* What goes on without the application.
Background ==
    \/ \E c \in Call : \/ Tick(c) \/ Serve(c) \/ Lose(c) \/ Renewed(c) \/ HeartbeatFailed(c)
                       \/ WriteFails(c, "heartbeat") /\ UNCHANGED timer
    \/ AdminLicense \/ AdminDevice \/ TimePasses
-----------------------------------------------------------------------------
(* Correctness, of a client that makes one call at a time: Call = {c}.       *)

\* Client, server and calls are in states the code can produce.
ClientTypeOK ==
    /\ license \in {"active", "banned"} /\ device \in {"none", "active", "removed"}
    /\ lease \in Lease \union {None} /\ issued \in 0 .. MaxLeases /\ now \in 0 .. MaxTime
    /\ cache \in Lease \union {None} /\ status \in Status /\ gate \in BOOLEAN /\ timer \in BOOLEAN
    /\ call \in [Call -> CallRecord]
    /\ missed \in BOOLEAN /\ shown \in BOOLEAN /\ left \in BOOLEAN

\* The cached lease is the one the server honours, across restarts, refusals
\* and removals, unless the answer that would have told the client of a newer
\* one was lost or could not be stored: then only a new activation brings the two
\* together again, since the server revoked the old lease (heartbeat revokes
\* before it issues) and the scheduler stops for good at LEASE_INVALID.
CacheAgrees ==
    (\A c \in Call : call[c] = Idle) /\ ~missed =>
        \/ cache = lease
        \/ cache # None /\ lease = None /\ cache.expireAt <= now

\* A client that showed a ban is not active again while the ban lasts
\* (04 checklist, 2.8: after a ban the client shows banned or unusable).
BanShown == shown => status # "active"

\* After a deactivation the client holds no lease and grants no feature, across
\* restarts and heartbeats, until the user activates again (LicenseClient.deactivate).
DeactivatedStaysOut == left => cache = None /\ ~gate /\ status = "inactive"
=============================================================================

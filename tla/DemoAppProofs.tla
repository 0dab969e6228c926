---------------------------- MODULE DemoAppProofs ----------------------------
(***************************************************************************)
(* Theorems about DemoApp and the client in it, for a client that makes    *)
(* one call at a time: Call = {c}.  They hold for every lifetime of a      *)
(* lease, every grace period and any number of leases.                     *)
(*                                                                         *)
(* What the safety properties say between two calls depends on the call    *)
(* under way, so the invariant says what each call knows: of the cache     *)
(* file it was made with, of the lease it brings, of the timer.            *)
(***************************************************************************)
EXTENDS DemoApp, TLAPS

USE SdkAssumption
-----------------------------------------------------------------------------
WindowsOK ==
    /\ on \in BOOLEAN /\ boot \in Call \union {None} /\ main \in BOOLEAN
    /\ window \in BOOLEAN /\ stopped \in BOOLEAN

AppTypeOK == ClientTypeOK /\ WindowsOK

\* A call has an answer with a code once it is answered, and not before.
Shaped(d) ==
    /\ call[d].step = "idle" <=> call[d] = Idle
    /\ call[d].op = "none" <=> call[d] = Idle
    /\ call[d].step = "answered" <=> call[d].code # "none"

\* The cache file is as it was when the call was made; an activation needs none.
FromCache(d) == call[d].op \in {"verify", "heartbeat", "deactivate"} => call[d].sent = cache /\ cache # None

\* What CacheAgrees says of a client that waits for nothing.
Agrees == cache = lease \/ (cache # None /\ lease = None /\ cache.expireAt <= now)

\* The answer that changed the lease brings it; before and after, both sides agree.
Brings(d) ==
    /\ Committed(d) => lease = call[d].answer
    /\ Committed(d) /\ call[d].op = "deactivate" => lease = None
    /\ Committed(d) /\ call[d].op # "deactivate" => lease # None
    /\ ~Committed(d) /\ ~missed => Agrees

\* A heartbeat under way was sent by a timer nobody but the user has stopped since.
Beats(d) == call[d].op = "heartbeat" => timer \/ stopped

CallsOK == \A d \in Call : Shaped(d) /\ FromCache(d) /\ Brings(d) /\ Beats(d)

\* After a deactivation nothing is under way; while a ban is shown it lasts and
\* nothing is answered OK; a process that does not run has no state.
LeftOK == left => DeactivatedStaysOut /\ \A d \in Call : call[d] = Idle
ShownOK == shown => status # "active" /\ license = "banned" /\ \A d \in Call : call[d].code # "OK"
OffOK == ~on => status = "inactive" /\ ~timer /\ \A d \in Call : call[d] = Idle

AppInv == AppTypeOK /\ CallsOK /\ LeftOK /\ ShownOK /\ OffOK /\ HeartbeatsRun

LEMMA LeaseNotNone == ASSUME NEW l \in Lease PROVE l # None /\ l.id \in Nat /\ l.expireAt \in Nat
  BY DEF Lease

LEMMA IdleRecord == Idle \in CallRecord
  BY DEF Idle, CallRecord, Code

LEMMA AppInvInit == Init => AppInv
<1> SUFFICES ASSUME Init PROVE AppInv
  OBVIOUS
<1>1. \A d \in Call : call[d] = Idle
  BY DEF Init, ClientInit
<1>2. AppTypeOK
  <2>1. call \in [Call -> CallRecord]
    BY IdleRecord DEF Init, ClientInit
  <2>2. ClientTypeOK
    <3>1. 0 \in 0 .. MaxLeases /\ 0 \in 0 .. MaxTime
      OBVIOUS
    <3> QED BY <2>1, <3>1, Zenon DEF Init, ClientInit, ClientTypeOK, Status
  <2> QED BY <2>2 DEF Init, AppTypeOK, WindowsOK
<1>3. CallsOK
  BY <1>1 DEF Init, ClientInit, CallsOK, Shaped, FromCache, Brings, Beats, Committed, Agrees, Idle
<1> QED BY <1>1, <1>2, <1>3 DEF AppInv, LeftOK, ShownOK, OffOK, DeactivatedStaysOut, HeartbeatsRun, isUsableStatus, Init, ClientInit, Idle
-----------------------------------------------------------------------------
(* The steps, by what becomes of the call. *)

\* An action that changes no call.
LEMMA NoCallChanges ==
    ASSUME NEW c, Call = {c}, AppInv, UNCHANGED call,
           \/ ClickStart \/ ClickStop \/ ClickOpen \/ CloseLicense \/ CloseMain \/ Reopen
           \/ AdminLicense /\ UNCHANGED app
           \/ AdminDevice /\ UNCHANGED app
           \/ TimePasses /\ UNCHANGED app
           \/ UNCHANGED vars
    PROVE  AppInv'
<1> USE DEF AppInv, server, client, history, app, vars
<1>1. AppTypeOK'
  <2>1. ASSUME AdminLicense PROVE ClientTypeOK'
    BY <2>1 DEF AppTypeOK, ClientTypeOK, AdminLicense
  <2>2. ASSUME AdminDevice PROVE ClientTypeOK'
    BY <2>2 DEF AppTypeOK, ClientTypeOK, AdminDevice
  <2>3. ASSUME TimePasses PROVE ClientTypeOK'
    BY <2>3 DEF AppTypeOK, ClientTypeOK, TimePasses
  <2>4. ASSUME UNCHANGED <<server, now, cache, status, gate, call, history>>, timer' \in BOOLEAN PROVE ClientTypeOK'
    BY <2>4 DEF AppTypeOK, ClientTypeOK
  <2>5. ClientTypeOK'
    <3>1. timer \in BOOLEAN
      BY DEF AppTypeOK, ClientTypeOK
    <3> QED BY <2>1, <2>2, <2>3, <2>4, <3>1 DEF ClickStart, ClickStop, ClickOpen, CloseLicense, CloseMain, Reopen, Started
  <2>6. WindowsOK'
    BY DEF AppTypeOK, WindowsOK, ClickStart, ClickStop, ClickOpen, CloseLicense, CloseMain, Reopen, Started
  <2> QED BY <2>5, <2>6 DEF AppTypeOK
<1>2. UNCHANGED <<cache, lease, missed, status, gate, left>> /\ now' >= now /\ (timer \/ stopped => timer' \/ stopped')
  BY DEF AppTypeOK, ClientTypeOK, ClickStart, ClickStop, ClickOpen, CloseLicense, CloseMain, Reopen,
         AdminLicense, AdminDevice, TimePasses, Started
<1>3. CallsOK'
  <2>1. Agrees => Agrees'
    <3>1. now \in Nat /\ now' \in Nat /\ (cache # None => cache.expireAt \in Nat)
      BY <1>1, LeaseNotNone DEF AppTypeOK, ClientTypeOK
    <3> QED BY <1>2, <3>1 DEF Agrees
  <2> QED BY <1>2, <2>1 DEF CallsOK, Shaped, FromCache, Brings, Beats, Committed
<1>4. LeftOK' /\ HeartbeatsRun'
  BY <1>2 DEF LeftOK, DeactivatedStaysOut, HeartbeatsRun
<1>5. ShownOK'
  BY <1>2 DEF ShownOK, ClickStart, ClickStop, ClickOpen, CloseLicense, CloseMain, Reopen,
         AdminLicense, AdminDevice, TimePasses, Started
<1>6. OffOK'
  BY <1>2 DEF OffOK, Clickable, ClickStart, ClickStop, ClickOpen, CloseLicense, CloseMain, Reopen,
         AdminLicense, AdminDevice, TimePasses, Started
<1> QED BY <1>1, <1>3, <1>4, <1>5, <1>6

\* The call is made.
LEMMA Sends ==
    ASSUME NEW c, Call = {c}, AppInv, NEW op \in {"activate", "verify", "heartbeat", "deactivate"},
           Send(c, op)
    PROVE  /\ call[c] = Idle
           /\ call' \in [Call -> CallRecord]
           /\ call'[c].op = op /\ call'[c].step = "sent" /\ call'[c].sent = cache /\ call'[c].code = "none"
           /\ call'[c] # Idle
<1>1. check \in {"missing", "valid", "grace", "expired"}
  BY DEF check
<1>2. call'[c] = [Idle EXCEPT !.op = op, !.step = "sent", !.sent = cache, !.local = check] /\ call[c] = Idle
  BY DEF Send, AppInv, AppTypeOK, ClientTypeOK
<1>3. [Idle EXCEPT !.op = op, !.step = "sent", !.sent = cache, !.local = check] \in CallRecord
  BY <1>1 DEF Idle, CallRecord, Code, AppInv, AppTypeOK, ClientTypeOK
<1> QED BY <1>2, <1>3 DEF Send, Idle, AppInv, AppTypeOK, ClientTypeOK

\* The call has ended, or nothing was under way.
LEMMA Ends ==
    ASSUME NEW c, Call = {c}, AppInv, Finish(c) \/ call' = [d \in Call |-> Idle]
    PROVE  call' \in [Call -> CallRecord] /\ call'[c] = Idle
  BY IdleRecord DEF Finish, AppInv, AppTypeOK, ClientTypeOK
\* The buttons, the start and the timer, when they make a call.
LEMMA CallMade ==
    ASSUME NEW c, Call = {c}, AppInv,
           \/ SubmitKey(c)
           \/ ClickVerify(c) \/ ClickDeactivate(c) \/ Launch(c)
           \/ Tick(c) /\ UNCHANGED app,
           call'[c] # Idle
    PROVE  AppInv'
<1> USE DEF AppInv, server, client, history, app
<1>1. PICK op \in {"activate", "verify", "heartbeat", "deactivate"} :
          /\ Send(c, op)
          /\ op # "activate" => cache # None
          /\ op = "heartbeat" => timer
  BY DEF SubmitKey, Activate, ClickVerify, Verify, ClickDeactivate, Deactivate, Launch, Tick, Free, check
<1>2. /\ call[c] = Idle /\ call' \in [Call -> CallRecord]
      /\ call'[c].op = op /\ call'[c].step = "sent" /\ call'[c].sent = cache /\ call'[c].code = "none"
  BY <1>1, Sends
<1>3. /\ UNCHANGED <<license, device, lease, issued, now, cache, status, missed, shown, timer>>
      /\ left' = FALSE \/ (left' = left /\ cache # None)
      /\ gate' = gate \/ gate' = (cache # None)
      /\ on' = TRUE /\ (stopped' = stopped \/ (~on /\ stopped' = FALSE))
      /\ boot' \in {boot, c, None} /\ window' \in {window, TRUE, FALSE} /\ main' \in {main, TRUE}
  <2>1. CASE SubmitKey(c)
    BY <2>1 DEF SubmitKey, Activate, AppTypeOK, WindowsOK
  <2>2. CASE ClickVerify(c)
    BY <2>2, <1>2, Zenon DEF ClickVerify, Verify, Clickable, Free, check, AppTypeOK, WindowsOK
  <2>3. CASE ClickDeactivate(c)
    <3>1. UNCHANGED <<server, now, cache, status, gate, history, app>> /\ cache # None /\ on
      BY <2>3, <1>2 DEF ClickDeactivate, Deactivate, Clickable, Free
    <3>2. timer' = (timer /\ TRUE) /\ timer \in BOOLEAN
      BY <2>3 DEF ClickDeactivate, AppTypeOK, ClientTypeOK
    <3>3. timer' = timer
      BY <3>2
    <3> QED BY <3>1, <3>3 DEF AppTypeOK, WindowsOK
  <2>4. CASE Launch(c)
    BY <2>4, <1>2 DEF Launch, Verify, Free, check
  <2>5. CASE Tick(c) /\ UNCHANGED app
    BY <2>5, <1>2 DEF Tick, Free, AppTypeOK, WindowsOK, OffOK
  <2> QED BY <2>1, <2>2, <2>3, <2>4, <2>5
<1>4. AppTypeOK'
  <2>1. ClientTypeOK'
    <3>1. left' \in BOOLEAN /\ gate' \in BOOLEAN
      BY <1>3 DEF AppTypeOK, ClientTypeOK
    <3> QED BY <1>2, <1>3, <3>1 DEF AppTypeOK, ClientTypeOK
  <2>2. WindowsOK'
    BY <1>3 DEF AppTypeOK, WindowsOK
  <2> QED BY <2>1, <2>2 DEF AppTypeOK
<1>5. CallsOK'
  <2>1. Agrees' <=> Agrees
    BY <1>3 DEF Agrees
  <2>2. ~missed => Agrees
    BY <1>2 DEF CallsOK, Brings, Committed, Idle
  <2>3. op = "heartbeat" => timer'
    BY <1>1, <1>3
  <2> QED BY <1>1, <1>2, <1>3, <2>1, <2>2, <2>3 DEF CallsOK, Shaped, FromCache, Brings, Beats, Committed, Idle
<1>6. LeftOK'
  BY <1>3 DEF LeftOK, DeactivatedStaysOut
<1>7. ShownOK' /\ OffOK'
  BY <1>2, <1>3 DEF ShownOK, OffOK
<1>8. HeartbeatsRun'
  BY <1>3 DEF HeartbeatsRun, OffOK, isUsableStatus
<1> QED BY <1>4, <1>5, <1>6, <1>7, <1>8

\* What the buttons, the start and the timer do without a call.
LEMMA NoCallNeeded ==
    ASSUME NEW c, Call = {c}, AppInv,
           \/ ClickVerify(c) \/ ClickDeactivate(c) \/ Launch(c)
           \/ Tick(c) /\ UNCHANGED app,
           call'[c] = Idle
    PROVE  AppInv'
<1> USE DEF AppInv, server, client, history, app
<1>1. call[c] = Idle /\ call' = call
  BY Sends DEF ClickVerify, Verify, ClickDeactivate, Deactivate, Launch, Tick, Free
<1>2. /\ UNCHANGED <<license, device, lease, issued, now, missed, shown>>
      /\ cache' = cache
      /\ status' \in {"inactive", "expired"}
      /\ cache = None => status' = "inactive"
      /\ timer' \in BOOLEAN /\ (~timer => ~timer')
      /\ on' \in BOOLEAN /\ boot' \in {boot, None} /\ main' \in BOOLEAN /\ window' \in BOOLEAN /\ stopped' \in BOOLEAN
      /\ gate' \in BOOLEAN /\ (cache = None /\ ~gate => ~gate')
      /\ left' = left \/ (cache = None /\ ~gate' /\ left' = TRUE)
      /\ on'
  <2>0. \A op \in {"activate", "verify", "heartbeat", "deactivate"} : ~Send(c, op)
    BY Sends
  <2>2. CASE ClickVerify(c)
    BY <2>2, <2>0 DEF ClickVerify, Verify, Clickable, check, AppTypeOK, ClientTypeOK, WindowsOK
  <2>3. CASE ClickDeactivate(c)
    BY <2>3, <2>0, <1>1 DEF ClickDeactivate, Deactivate, Forget, Clickable, AppTypeOK, ClientTypeOK, WindowsOK
  <2>4. CASE Launch(c)
    BY <2>4, <2>0, <1>1 DEF Launch, Verify, check, AppTypeOK, ClientTypeOK, WindowsOK
  <2>5. CASE Tick(c) /\ UNCHANGED app
    BY <2>5, <2>0 DEF Tick, AppTypeOK, ClientTypeOK, WindowsOK, OffOK
  <2> QED BY <2>2, <2>3, <2>4, <2>5
<1>3. AppTypeOK'
  <2>1. ClientTypeOK'
    <3>1. left' \in BOOLEAN /\ status' \in Status
      BY <1>2 DEF AppTypeOK, ClientTypeOK, Status
    <3> QED BY <1>1, <1>2, <3>1 DEF AppTypeOK, ClientTypeOK
  <2>2. WindowsOK'
    BY <1>2 DEF AppTypeOK, WindowsOK
  <2> QED BY <2>1, <2>2 DEF AppTypeOK
<1>4. CallsOK'
  BY <1>1, <1>2 DEF CallsOK, Shaped, FromCache, Brings, Beats, Committed, Agrees, Idle
<1>5. LeftOK' /\ ShownOK' /\ OffOK' /\ HeartbeatsRun'
  BY <1>1, <1>2 DEF LeftOK, DeactivatedStaysOut, ShownOK, OffOK, HeartbeatsRun, isUsableStatus, Idle
<1> QED BY <1>3, <1>4, <1>5
-----------------------------------------------------------------------------
(* The server answers, and the network loses. *)

\* What an answer is, whoever gave it.
LEMMA Replied ==
    ASSUME NEW c, Call = {c}, AppInv, call[c] # Idle,
           NEW code \in Code \ {"none"}, NEW answer \in Lease \union {None}, Reply(c, code, answer)
    PROVE  /\ call' \in [Call -> CallRecord]
           /\ call'[c] = [call[c] EXCEPT !.step = "answered", !.code = code, !.answer = answer]
           /\ call'[c].op = call[c].op /\ call'[c].sent = call[c].sent /\ call'[c].step = "answered"
           /\ call'[c].code = code /\ call'[c].answer = answer
           /\ call'[c] # Idle /\ call[c].op # "none"
<1>1. call[c] \in CallRecord /\ call[c].op # "none"
  BY DEF AppInv, AppTypeOK, ClientTypeOK, CallsOK, Shaped
<1>2. call'[c] = [call[c] EXCEPT !.step = "answered", !.code = code, !.answer = answer]
  BY DEF Reply, AppInv, AppTypeOK, ClientTypeOK
<1>3. call'[c] \in CallRecord
  BY <1>1, <1>2 DEF CallRecord
<1> QED BY <1>1, <1>2, <1>3 DEF Reply, CallRecord, Idle, AppInv, AppTypeOK, ClientTypeOK

\* An answer keeps the invariant if it says what became of the lease.
LEMMA AnswerKeeps ==
    ASSUME NEW c, Call = {c}, AppInv, call[c] # Idle,
           NEW code \in Code \ {"none"}, NEW answer \in Lease \union {None}, Reply(c, code, answer),
           UNCHANGED <<now, client, shown, left, app>>,
           ClientTypeOK', license' = license,
           code = "OK" => license = "active" /\ ~shown,
           Brings(c)'
    PROVE  AppInv'
<1> USE DEF AppInv, client, app
<1>0. /\ call'[c].op = call[c].op /\ call'[c].sent = call[c].sent /\ call'[c].step = "answered"
      /\ call'[c].code = code /\ call'[c] # Idle /\ call[c].op # "none"
  BY Replied
<1>1. CallsOK'
  <2>1. Shaped(c)'
    BY <1>0 DEF Shaped, Idle
  <2>2. FromCache(c)'
    BY <1>0 DEF CallsOK, FromCache
  <2>3. Beats(c)'
    BY <1>0 DEF CallsOK, Beats
  <2> QED BY <2>1, <2>2, <2>3 DEF CallsOK
<1>2. AppTypeOK'
  BY DEF AppTypeOK, WindowsOK
<1>3. ~left /\ on
  BY DEF LeftOK, OffOK
<1>4. LeftOK' /\ OffOK'
  BY <1>3 DEF LeftOK, OffOK
<1>5. ShownOK'
  BY <1>0 DEF ShownOK
<1>6. HeartbeatsRun'
  BY DEF HeartbeatsRun
<1> QED BY <1>1, <1>2, <1>4, <1>5, <1>6
\* A refusal leaves the tables alone, or clears the lease the client knows to be expired.
LEMMA Refusing ==
    ASSUME NEW c, Call = {c}, AppInv, call[c].step = "sent", NEW code \in Refusals, Reply(c, code, None),
           UNCHANGED <<license, device, issued, now, client, history, app>>,
           \/ lease' = lease
           \/ lease' = None /\ cache # None /\ lease = cache /\ cache.expireAt <= now
    PROVE  AppInv'
<1>1. call[c] # Idle /\ ~Committed(c) /\ code \in Code \ {"none"} /\ code # "OK"
  BY DEF Refusals, AppInv, CallsOK, Shaped, Committed, Idle
<1>2. call' \in [Call -> CallRecord] /\ call'[c].code = code /\ call'[c].op = call[c].op
  BY <1>1, Replied
<1>3. ClientTypeOK'
  <2>1. lease' \in Lease \union {None}
    BY DEF AppInv, AppTypeOK, ClientTypeOK
  <2> QED BY <1>2, <2>1 DEF AppInv, AppTypeOK, ClientTypeOK, client, history
<1>4. Brings(c)'
  BY <1>1, <1>2 DEF Brings, Committed, Agrees, AppInv, CallsOK, client, history
<1> QED BY <1>1, <1>3, <1>4, AnswerKeeps DEF history

\* A new lease is numbered within the bound.
LEMMA Issuing ==
    ASSUME AppInv, NEW c, Issue(c)
    PROVE  issued' \in 0 .. MaxLeases /\ NewLease \in Lease /\ lease' = NewLease
<1>1. issued \in Nat /\ issued < MaxLeases /\ now \in 0 .. MaxTime /\ issued' = issued + 1 /\ lease' = NewLease
  BY DEF Issue, AppInv, AppTypeOK, ClientTypeOK
<1>2. issued + 1 \in 1 .. MaxLeases /\ now + Ttl \in 0 .. MaxTime + Ttl
  BY <1>1
<1> QED BY <1>1, <1>2 DEF NewLease, Lease

LEMMA ServeKeeps ==
    ASSUME NEW c, Call = {c}, AppInv, Serve(c), UNCHANGED app
    PROVE  AppInv'
<1> DEFINE l == call[c].sent
<1>1. /\ call[c].step = "sent" /\ call[c] # Idle
      /\ call[c].op # "activate" => l = cache /\ cache # None /\ cache \in Lease
      /\ UNCHANGED <<now, client, history>>
  BY DEF Serve, ServeActivate, ServeVerify, ServeHeartbeat, ServeDeactivate, Sent, Idle,
         AppInv, AppTypeOK, ClientTypeOK, CallsOK, FromCache, Shaped, CallRecord
<1>2. ASSUME NEW code \in Refusals, Refuse(c, code) PROVE AppInv'
  BY <1>1, <1>2, Refusing DEF Refuse, server
<1>3. ASSUME call[c].op # "activate", TokenCode(l) # "OK", RefuseToken(c, TokenCode(l)) PROVE AppInv'
  <2>1. TokenCode(l) \in Refusals
    BY <1>3 DEF TokenCode, Refusals, Code
  <2>2. TokenCode(l) = "LEASE_EXPIRED" => lease = cache /\ cache.expireAt <= now
    BY <1>1, <1>3 DEF TokenCode
  <2> QED BY <1>1, <1>3, <2>1, <2>2, Refusing DEF RefuseToken
<1>4. ASSUME license = "active", Issue(c), license' = license, device' \in {"none", "active", "removed"},
             call[c].op \in {"activate", "heartbeat"}
      PROVE  AppInv'
  <2>1. NewLease \in Lease /\ Reply(c, "OK", NewLease) /\ "OK" \in Code \ {"none"} /\ NewLease # None
    BY <1>4, Issuing, LeaseNotNone DEF Issue, Code
  <2>2. call' \in [Call -> CallRecord] /\ call'[c].code = "OK" /\ call'[c].op = call[c].op /\ call'[c].answer = NewLease
    <3>1. NewLease \in Lease \union {None}
      BY <2>1
    <3> HIDE DEF l
    <3> QED BY <1>1, <2>1, <3>1, Replied
  <2>3. ClientTypeOK'
    BY <1>1, <1>4, <2>2, Issuing DEF AppInv, AppTypeOK, ClientTypeOK, client, history
  <2>4. Brings(c)'
    BY <1>4, <2>1, <2>2, Issuing DEF Brings, Committed
  <2>5. ~shown
    BY <1>4 DEF AppInv, ShownOK
  <2> QED BY <1>1, <1>4, <2>1, <2>3, <2>4, <2>5, AnswerKeeps DEF history
<1>5. CASE ServeActivate(c)
  BY <1>2, <1>4, <1>5 DEF ServeActivate, Sent, Refusals, Code
<1>6. CASE ServeHeartbeat(c)
  <2>1. TokenCode(l) = "OK" => license = "active"
    BY <1>6 DEF TokenCode, AppInv, AppTypeOK, ClientTypeOK
  <2> QED BY <1>2, <1>3, <1>4, <1>6, <2>1 DEF ServeHeartbeat, Sent, Refusals, Code, AppInv, AppTypeOK, ClientTypeOK
<1>7. CASE ServeVerify(c)
  <2>1. ASSUME TokenCode(l) = "OK", Reply(c, "OK", l), UNCHANGED server PROVE AppInv'
    <3>1. license = "active" /\ lease = cache /\ ~shown /\ call[c].op = "verify"
      BY <1>1, <1>7, <2>1 DEF ServeVerify, Sent, TokenCode, AppInv, AppTypeOK, ClientTypeOK, ShownOK
    <3>2. "OK" \in Code \ {"none"} /\ l \in Lease \union {None}
      BY <1>1, <3>1 DEF Code
    <3>3. call' \in [Call -> CallRecord] /\ call'[c].code = "OK" /\ call'[c].op = "verify"
      BY <1>1, <2>1, <3>1, <3>2, Replied
    <3>4. ClientTypeOK'
      BY <1>1, <2>1, <3>3 DEF AppInv, AppTypeOK, ClientTypeOK, client, history, server
    <3>5. Brings(c)'
      BY <1>1, <2>1, <3>1, <3>3 DEF Brings, Committed, Agrees, client, server
    <3> QED BY <1>1, <2>1, <3>1, <3>2, <3>4, <3>5, AnswerKeeps DEF history, server
  <2> QED BY <1>2, <1>3, <1>7, <2>1 DEF ServeVerify, Sent, Refusals, Code
<1>8. CASE ServeDeactivate(c)
  <2>1. ASSUME license = "active", device' = "removed", lease' = None, Reply(c, "OK", None), UNCHANGED <<license, issued>>
        PROVE  AppInv'
    <3>1. "OK" \in Code \ {"none"} /\ call[c].op = "deactivate" /\ ~shown
      BY <1>8, <2>1 DEF Code, ServeDeactivate, Sent, AppInv, ShownOK
    <3>2. call' \in [Call -> CallRecord] /\ call'[c].code = "OK" /\ call'[c].op = "deactivate" /\ call'[c].answer = None
      <4>1. None \in Lease \union {None}
        OBVIOUS
      <4>2. call[c] # Idle /\ Reply(c, "OK", None)
        BY <1>1, <2>1
      <4>3. /\ call' \in [Call -> CallRecord] /\ call'[c].code = "OK"
            /\ call'[c].op = call[c].op /\ call'[c].answer = None
        BY <3>1, <4>1, <4>2, Replied
      <4> QED BY <3>1, <4>3
    <3>3. ClientTypeOK'
      BY <1>1, <2>1, <3>2 DEF AppInv, AppTypeOK, ClientTypeOK, client, history
    <3>4. Brings(c)'
      BY <2>1, <3>2 DEF Brings, Committed
    <3> QED BY <1>1, <2>1, <3>1, <3>3, <3>4, AnswerKeeps DEF history
  <2> QED BY <1>2, <1>8, <2>1 DEF ServeDeactivate, Refusals, Code
<1> QED BY <1>5, <1>6, <1>7, <1>8 DEF Serve

LEMMA LoseKeeps ==
    ASSUME NEW c, Call = {c}, AppInv, Lose(c), UNCHANGED app
    PROVE  AppInv'
<1>1. PICK code \in {"NETWORK_ERROR", "REFUSED"} : Reply(c, code, None)
  BY DEF Lose
<1>2. call[c] # Idle /\ code \in Code \ {"none"} /\ code # "OK"
  BY <1>1 DEF Lose, Code, Idle
<1>3. call' \in [Call -> CallRecord] /\ call'[c].code = code
  BY <1>1, <1>2, Replied
<1>4. missed' = (missed \/ Committed(c)) /\ missed' \in BOOLEAN
  BY DEF Lose, Committed, AppInv, AppTypeOK, ClientTypeOK
<1>5. ClientTypeOK'
  BY <1>3, <1>4 DEF Lose, server, client, AppInv, AppTypeOK, ClientTypeOK
<1>6. Brings(c)'
  BY <1>2, <1>3, <1>4 DEF Brings, Committed, Agrees, AppInv, CallsOK, Lose, server, client
<1> QED BY <1>1, <1>2, <1>5, <1>6, AnswerKeeps DEF Lose, server
-----------------------------------------------------------------------------
(* The client receives. *)

\* After the end of a call the client waits for nothing, and both sides agree
\* again unless an answer was missed.
LEMMA EndKeeps ==
    ASSUME NEW c, Call = {c}, AppInv, call[c] # Idle,
           Finish(c) \/ call' = [d \in Call |-> Idle],
           UNCHANGED <<server, now>>,
           cache' \in Lease \union {None}, status' \in Status, gate' \in BOOLEAN, timer' \in BOOLEAN,
           missed' \in BOOLEAN, shown' \in BOOLEAN, left' \in BOOLEAN, WindowsOK',
           ~missed' => Agrees',
           LeftOK', HeartbeatsRun', on' \/ (status' = "inactive" /\ ~timer'),
           shown' => status' # "active" /\ license = "banned"
    PROVE  AppInv'
<1>1. call' \in [Call -> CallRecord] /\ call'[c] = Idle
  BY Ends
<1>2. CallsOK'
  BY <1>1 DEF CallsOK, Shaped, FromCache, Brings, Beats, Committed, Idle
<1>3. AppTypeOK'
  BY <1>1 DEF AppInv, AppTypeOK, ClientTypeOK, server
<1>4. ShownOK' /\ OffOK'
  BY <1>1 DEF ShownOK, OffOK, server, Idle
<1> QED BY <1>2, <1>3, <1>4 DEF AppInv

\* What is known of a call that has been answered.
LEMMA Answered ==
    ASSUME NEW c, Call = {c}, AppInv, call[c].step = "answered"
    PROVE  /\ call[c] # Idle /\ on /\ ~left
           /\ call[c].sent \in Lease \union {None} /\ call[c].answer \in Lease \union {None}
           /\ call[c].op \in {"verify", "heartbeat", "deactivate"} => call[c].sent = cache /\ cache # None
           /\ call[c].code = "OK" => ~shown
           /\ call[c].op = "heartbeat" => timer \/ stopped
           /\ WindowsOK /\ missed \in BOOLEAN /\ shown \in BOOLEAN /\ left \in BOOLEAN
           /\ timer \in BOOLEAN /\ gate \in BOOLEAN /\ cache \in Lease \union {None} /\ status \in Status
  BY DEF AppInv, AppTypeOK, ClientTypeOK, WindowsOK, CallsOK, Shaped, FromCache, Beats, LeftOK, ShownOK, OffOK,
         CallRecord, Idle

LEMMA StatusShown ==
    ASSUME NEW code, NEW c
    PROVE  /\ mapCodeToState(code) \in Status \ {"active", "grace"}
           /\ Fallback(c, code) \in Status \ {"active"}
  BY DEF mapCodeToState, Fallback, Status

LEMMA ActivatedKeeps ==
    ASSUME NEW c, Call = {c}, AppInv, AppActivated(c)
    PROVE  AppInv'
<1> USE DEF AppActivated, Activated, Adopt, Received, Started
<1>1. call[c].step = "answered" /\ call[c].code = "OK" /\ call[c].op = "activate"
  OBVIOUS
<1>2. Agrees'
  BY <1>1 DEF Agrees, Brings, Committed, AppInv, CallsOK, server
<1>3. WindowsOK'
  BY Answered DEF WindowsOK
<1>4. LeftOK' /\ HeartbeatsRun'
  BY Answered DEF LeftOK, HeartbeatsRun
<1> QED BY <1>1, <1>2, <1>3, <1>4, Answered, EndKeeps DEF Status, WindowsOK

LEMMA DeactivatedKeeps ==
    ASSUME NEW c, Call = {c}, AppInv, AppDeactivated(c)
    PROVE  AppInv'
<1> USE DEF AppDeactivated, Deactivated, Forget, Received, app
<1>1. call[c].step = "answered" /\ call[c].code = "OK" /\ call[c].op = "deactivate"
  OBVIOUS
<1>2. Agrees'
  BY <1>1 DEF Agrees, Brings, Committed, AppInv, CallsOK, server
<1>3. WindowsOK' /\ on'
  BY <1>1, Answered DEF WindowsOK
<1>4. LeftOK'
  BY <1>1, Ends DEF LeftOK, DeactivatedStaysOut
<1>5. HeartbeatsRun'
  BY DEF HeartbeatsRun, isUsableStatus
<1> QED BY <1>1, <1>2, <1>3, <1>4, <1>5, Answered, EndKeeps DEF Status

LEMMA ThrownKeeps ==
    ASSUME NEW c, Call = {c}, AppInv, AppThrown(c)
    PROVE  AppInv'
<1>1. CASE Thrown(c) /\ UNCHANGED app
  <2>1. call[c].step = "answered" /\ ~Committed(c)
    BY <1>1 DEF Thrown, Received, Refusals, Committed
  <2>2. UNCHANGED <<server, now, cache, status, gate, timer, missed, shown, left, on, boot, main, window, stopped>> /\ Finish(c)
    BY <1>1 DEF Thrown, client, history, app
  <2>3. ~missed' => Agrees'
    BY <2>1, <2>2 DEF Agrees, Brings, AppInv, CallsOK, server
  <2>4. WindowsOK' /\ on'
    BY <2>1, <2>2, Answered DEF WindowsOK
  <2>5. LeftOK' /\ HeartbeatsRun'
    BY <2>1, <2>2, Answered DEF LeftOK, HeartbeatsRun, AppInv
  <2> QED BY <2>1, <2>2, <2>3, <2>4, <2>5, Answered, EndKeeps DEF AppInv, ShownOK
<1>2. CASE WriteFails(c, "activate") /\ UNCHANGED <<timer, app>>
  <2>1. call[c].step = "answered" /\ call[c].code = "OK"
    BY <1>2 DEF WriteFails, Received
  <2>2. /\ UNCHANGED <<server, now, status, gate, timer, shown, left, on, boot, main, window, stopped>> /\ Finish(c)
        /\ cache' \in {cache, None} /\ missed' = TRUE
    BY <1>2 DEF WriteFails, app
  <2>3. WindowsOK' /\ on'
    BY <2>1, <2>2, Answered DEF WindowsOK
  <2>4. LeftOK' /\ HeartbeatsRun'
    BY <2>1, <2>2, Answered DEF LeftOK, HeartbeatsRun, AppInv
  <2> QED BY <2>1, <2>2, <2>3, <2>4, Answered, EndKeeps
<1> QED BY <1>1, <1>2 DEF AppThrown
\* The end of a verification: a usable client gets its heartbeats.
LEMMA AfterVerifyKeeps ==
    ASSUME NEW c, Call = {c}, AppInv, call[c].step = "answered", AfterVerify(c), status' \in Status
    PROVE  timer' \in BOOLEAN /\ WindowsOK' /\ on' /\ HeartbeatsRun'
<1>1. /\ WindowsOK /\ on /\ timer \in BOOLEAN
  BY Answered
<1>2. CASE isUsableStatus(status')
  <2>1. timer' = TRUE /\ stopped' = FALSE /\ boot' \in {boot, None} /\ UNCHANGED <<window, on, main>>
    BY <1>2 DEF AfterVerify, Started
  <2> QED BY <1>1, <2>1 DEF WindowsOK, HeartbeatsRun
<1>3. CASE ~isUsableStatus(status')
  <2>1. window' \in BOOLEAN /\ boot' \in {boot, None} /\ UNCHANGED <<timer, stopped, on, main>>
    BY <1>3 DEF AfterVerify, Ask
  <2> QED BY <1>1, <1>3, <2>1 DEF WindowsOK, HeartbeatsRun, isUsableStatus
<1> QED BY <1>2, <1>3

LEMMA VerifiedKeeps ==
    ASSUME NEW c, Call = {c}, AppInv, AppVerified(c)
    PROVE  AppInv'
<1>1. CASE Verified(c) /\ AfterVerify(c)
  <2>1. /\ call[c].step = "answered" /\ call[c].op = "verify" /\ call[c].code = "OK" /\ ~Committed(c) /\ Finish(c)
        /\ cache' = call[c].sent /\ gate' = TRUE /\ status' \in {"grace", "active"}
        /\ UNCHANGED <<server, now, missed, shown, left>>
    BY <1>1 DEF Verified, Received, Committed, history
  <2>2. cache' = cache /\ ~shown /\ ~left
    BY <2>1, Answered
  <2>3. ~missed' => Agrees'
    BY <2>1, <2>2 DEF Agrees, Brings, AppInv, CallsOK, server
  <2>4. status' \in Status /\ LeftOK'
    BY <2>1, <2>2 DEF Status, LeftOK
  <2>5. timer' \in BOOLEAN /\ WindowsOK' /\ on' /\ HeartbeatsRun'
    BY <1>1, <2>1, <2>4, AfterVerifyKeeps
  <2> QED BY <2>1, <2>2, <2>3, <2>4, <2>5, Answered, EndKeeps
<1>2. CASE VerifyFailed(c) /\ AfterVerify(c)
  <2>1. /\ call[c].step = "answered" /\ call[c].op = "verify" /\ ~Committed(c) /\ Finish(c)
        /\ status' = Fallback(c, call[c].code)
        /\ shown' = (shown \/ (call[c].code = "LICENSE_BANNED" /\ license = "banned"))
        /\ UNCHANGED <<server, now, cache, gate, missed, left>>
    BY <1>2 DEF VerifyFailed, Received, Refusals, Committed
  <2>2. status' \in Status \ {"active"} /\ ~left
    BY <2>1, StatusShown, Answered
  <2>3. ~missed' => Agrees'
    BY <2>1 DEF Agrees, Brings, AppInv, CallsOK, server
  <2>4. shown' \in BOOLEAN /\ (shown' => license = "banned") /\ LeftOK'
    BY <2>1, <2>2, Answered DEF LeftOK, AppInv, ShownOK
  <2>5. timer' \in BOOLEAN /\ WindowsOK' /\ on' /\ HeartbeatsRun'
    BY <1>2, <2>1, <2>2, AfterVerifyKeeps
  <2> QED BY <2>1, <2>2, <2>3, <2>4, <2>5, Answered, EndKeeps
<1>3. CASE WriteFails(c, "verify") /\ AfterVerify(c)
  <2>1. /\ call[c].step = "answered" /\ call[c].code = "OK" /\ Finish(c) /\ missed' = TRUE
        /\ cache' \in {cache, None}
        /\ \E code \in {"NETWORK_ERROR", "REFUSED"} : status' = Fallback(c, code)
        /\ UNCHANGED <<server, now, gate, shown, left>>
    BY <1>3 DEF WriteFails, Received
  <2>2. status' \in Status /\ ~left /\ ~shown /\ LeftOK'
    BY <2>1, StatusShown, Answered DEF LeftOK
  <2>3. timer' \in BOOLEAN /\ WindowsOK' /\ on' /\ HeartbeatsRun'
    BY <1>3, <2>1, <2>2, AfterVerifyKeeps
  <2> QED BY <2>1, <2>2, <2>3, Answered, EndKeeps
<1> QED BY <1>1, <1>2, <1>3 DEF AppVerified

LEMMA HeartbeatKeeps ==
    ASSUME NEW c, Call = {c}, AppInv, UNCHANGED app,
           Renewed(c) \/ HeartbeatFailed(c) \/ (WriteFails(c, "heartbeat") /\ UNCHANGED timer)
    PROVE  AppInv'
<1>1. call[c].step = "answered" /\ call[c].op = "heartbeat"
  BY DEF Renewed, HeartbeatFailed, WriteFails, Received
<1>2. WindowsOK' /\ on' /\ LeftOK' /\ UNCHANGED <<stopped, left>>
  BY <1>1, Answered DEF WindowsOK, app, LeftOK, Renewed, HeartbeatFailed, WriteFails, history
<1>3. CASE Renewed(c)
  <2>1. /\ call[c].code = "OK" /\ Committed(c) /\ Finish(c)
        /\ cache' = call[c].answer /\ gate' = TRUE /\ status' = "active"
        /\ UNCHANGED <<server, now, timer, missed, shown>>
    BY <1>3 DEF Renewed, Received, Committed, Adopt, history
  <2>2. Agrees' /\ HeartbeatsRun' /\ status' \in Status
    BY <1>1, <1>2, <2>1, Answered DEF Agrees, Brings, AppInv, CallsOK, server, HeartbeatsRun, Status
  <2> QED BY <1>1, <1>2, <2>1, <2>2, Answered, EndKeeps
<1>4. CASE HeartbeatFailed(c)
  <2>1. /\ ~Committed(c) /\ Finish(c) /\ timer' \in BOOLEAN
        /\ status' \in Status \ {"active", "grace"}
        /\ UNCHANGED <<server, now, cache, gate, missed, shown>>
    BY <1>4, StatusShown, Answered DEF HeartbeatFailed, Received, Refusals, Committed, history
  <2>2. (~missed' => Agrees') /\ HeartbeatsRun'
    BY <1>1, <2>1 DEF Agrees, Brings, AppInv, CallsOK, server, HeartbeatsRun, isUsableStatus
  <2> QED BY <1>1, <1>2, <2>1, <2>2, Answered, EndKeeps DEF AppInv, ShownOK
<1>5. CASE WriteFails(c, "heartbeat") /\ UNCHANGED timer
  <2>1. /\ Finish(c) /\ missed' = TRUE /\ cache' \in {cache, None} /\ status' \in {"invalid", "network-error"}
        /\ call[c].code = "OK" /\ UNCHANGED <<server, now, gate, shown, timer>>
    BY <1>5 DEF WriteFails, Received
  <2>2. HeartbeatsRun' /\ status' \in Status
    BY <2>1 DEF HeartbeatsRun, isUsableStatus, Status
  <2> QED BY <1>1, <1>2, <2>1, <2>2, Answered, EndKeeps
<1> QED BY <1>3, <1>4, <1>5

LEMMA QuitKeeps ==
    ASSUME NEW c, Call = {c}, AppInv, Quit
    PROVE  AppInv'
<1>1. /\ call' = [d \in Call |-> Idle] /\ status' = "inactive" /\ gate' = FALSE /\ timer' = FALSE /\ shown' = FALSE
      /\ missed' = (missed \/ Committed(c)) /\ UNCHANGED <<server, now, cache, left>>
      /\ on' = FALSE /\ boot' = None /\ main' = FALSE /\ window' = FALSE /\ stopped' = FALSE
  BY DEF Quit, Stop
<1>2. call'[c] = Idle /\ call' \in [Call -> CallRecord]
  BY <1>1, Ends
<1>3. missed' \in BOOLEAN /\ (~missed' => ~missed /\ ~Committed(c))
  BY <1>1 DEF Committed, AppInv, AppTypeOK, ClientTypeOK
<1>4. ~missed' => Agrees'
  BY <1>1, <1>3 DEF Agrees, Brings, AppInv, CallsOK, server
<1>5. CallsOK'
  BY <1>2, <1>4 DEF CallsOK, Shaped, FromCache, Brings, Beats, Committed, Idle
<1>6. ClientTypeOK'
  BY <1>1, <1>2, <1>3 DEF AppInv, AppTypeOK, ClientTypeOK, server, Status
<1>7. WindowsOK' /\ LeftOK' /\ ShownOK' /\ OffOK' /\ HeartbeatsRun'
  BY <1>1, <1>2 DEF WindowsOK, AppInv, LeftOK, DeactivatedStaysOut, ShownOK, OffOK, HeartbeatsRun, isUsableStatus
<1> QED BY <1>5, <1>6, <1>7 DEF AppInv, AppTypeOK
-----------------------------------------------------------------------------
(* The theorems *)

LEMMA AppInvNext ==
    ASSUME NEW c, Call = {c}
    PROVE  AppInv /\ [Next]_vars => AppInv'
<1> SUFFICES ASSUME AppInv, [Next]_vars PROVE AppInv'
  OBVIOUS
<1>1. CASE Launch(c) \/ ClickVerify(c) \/ ClickDeactivate(c) \/ SubmitKey(c) \/ (Tick(c) /\ UNCHANGED app)
  <2>1. SubmitKey(c) => call'[c] # Idle
    BY Sends DEF SubmitKey, Activate
  <2> QED BY <1>1, <2>1, CallMade, NoCallNeeded
<1>2. CASE Continue(c)
  BY <1>2, ActivatedKeeps, DeactivatedKeeps, VerifiedKeeps, ThrownKeeps DEF Continue
<1>3. CASE (Serve(c) \/ Lose(c)) /\ UNCHANGED app
  BY <1>3, ServeKeeps, LoseKeeps
<1>4. CASE /\ Renewed(c) \/ HeartbeatFailed(c) \/ (WriteFails(c, "heartbeat") /\ UNCHANGED timer)
           /\ UNCHANGED app
  BY <1>4, HeartbeatKeeps
<1>5. CASE \/ ClickStart \/ ClickStop \/ ClickOpen \/ CloseLicense \/ CloseMain \/ Reopen
           \/ (AdminLicense \/ AdminDevice \/ TimePasses) /\ UNCHANGED app
           \/ UNCHANGED vars
  <2>1. UNCHANGED call
    BY <1>5 DEF ClickStart, ClickStop, ClickOpen, CloseLicense, CloseMain, Reopen, AdminLicense, AdminDevice, TimePasses, vars
  <2> QED BY <1>5, <2>1, NoCallChanges
<1>6. CASE Quit
  BY <1>6, QuitKeeps
<1> QED BY <1>1, <1>2, <1>3, <1>4, <1>5, <1>6 DEF Next, Background

LEMMA AppInvariant ==
    ASSUME NEW c, Call = {c}
    PROVE  Spec => []AppInv
  BY AppInvInit, AppInvNext, PTL DEF Spec

\* Client, server, calls and windows are well formed (SdkClient, DemoApp).
THEOREM AppTypeCorrect ==
    ASSUME NEW c, Call = {c}
    PROVE  Spec => []ClientTypeOK
<1>1. AppInv => ClientTypeOK
  BY DEF AppInv, AppTypeOK
<1> QED BY <1>1, AppInvariant, PTL

\* Between two calls the cache file and the server agree on the lease, unless an
\* answer was missed (heartbeat-scheduler.ts, license-client.ts, license-store.ts).
THEOREM CacheAndServerAgree ==
    ASSUME NEW c, Call = {c}
    PROVE  Spec => []CacheAgrees
<1>1. AppInv => CacheAgrees
  BY DEF AppInv, CallsOK, Brings, Committed, Idle, Agrees, CacheAgrees
<1> QED BY <1>1, AppInvariant, PTL

\* While a ban lasts that was shown, the client is not active (verifyOnStartup and
\* the heartbeats apply only answers that came after it).
THEOREM ShownBanStays ==
    ASSUME NEW c, Call = {c}
    PROVE  Spec => []BanShown
<1>1. AppInv => BanShown
  BY DEF AppInv, ShownOK, BanShown
<1> QED BY <1>1, AppInvariant, PTL

\* A deactivated client has no lease and no features until it is activated again.
THEOREM DeactivationStays ==
    ASSUME NEW c, Call = {c}
    PROVE  Spec => []DeactivatedStaysOut
<1>1. AppInv => DeactivatedStaysOut
  BY DEF AppInv, LeftOK, DeactivatedStaysOut
<1> QED BY <1>1, AppInvariant, PTL

\* A usable client heartbeats, unless its user stopped that (main.ts).
THEOREM UsableHeartbeats ==
    ASSUME NEW c, Call = {c}
    PROVE  Spec => []HeartbeatsRun
<1>1. AppInv => HeartbeatsRun
  BY DEF AppInv
<1> QED BY <1>1, AppInvariant, PTL
=============================================================================

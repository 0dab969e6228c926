------------------------------- MODULE DemoApp -------------------------------
(***************************************************************************)
(* The demo application (demo-electron/src: main.ts, preload.ts and        *)
(* renderer.ts, license-ui/src) around the client of SdkClient: its start, *)
(* its two windows and the buttons in them.  A handler of main.ts goes on  *)
(* in the same turn in which the client's promise settles, so what it does *)
(* then belongs to the same step.                                          *)
(*                                                                         *)
(* The licence window is modal: while it is open the main window takes no  *)
(* clicks.  Left out: windows whose page cannot be loaded, and what the    *)
(* renderer draws, a copy of the state its last button answered.           *)
(***************************************************************************)
EXTENDS SdkClient

VARIABLES
    on,        \* is the process running?
    boot,      \* the call of the verification at the start, None once it has ended
    main,      \* is there a main window?
    window,    \* is there a licence window?
    stopped    \* history: the heartbeats were stopped by the user and not started since

app == <<on, boot, main, window, stopped>>
vars == <<server, now, client, call, history, app>>
-----------------------------------------------------------------------------
isUsableStatus(s) == s \in {"active", "grace"}

\* Fault: a usable client is left without heartbeats.
FaultStarted == UNCHANGED <<timer, stopped>>
Started == timer' = TRUE /\ stopped' = FALSE

\* Fault: start and verification are taken for the same.
FaultAsk(c) == UNCHANGED window
\* Only the start asks for a key; a licence window needs the main window as its parent.
Ask(c) == window' = (window \/ (boot = c /\ main))

\* The end of a verification; the one at the start may be it.
AfterVerify(c) ==
    /\ boot' = IF boot = c THEN None ELSE boot
    /\ IF isUsableStatus(status') THEN Started /\ UNCHANGED window
                                  ELSE Ask(c) /\ UNCHANGED <<timer, stopped>>
    /\ UNCHANGED <<on, main>>

\* bootstrap: the client reads its cache file, the main window opens, and
\* verifyOnStartup begins, or ends if it needs no call.
Launch(c) ==
    /\ ~on
    /\ on' = TRUE /\ main' = TRUE /\ stopped' = FALSE
    /\ gate' = (cache # None)
    /\ Verify(c)
    /\ IF call'[c] = Idle THEN boot' = None /\ window' = TRUE ELSE boot' = c /\ window' = FALSE
    /\ UNCHANGED timer

\* The buttons of the main window.
Clickable == on /\ main /\ ~window

ClickVerify(c) ==
    /\ Clickable
    /\ Verify(c)
    /\ UNCHANGED <<gate, timer, app>>

ClickStart ==
    /\ Clickable
    /\ Started
    /\ UNCHANGED <<server, now, cache, status, gate, call, history, on, boot, main, window>>

ClickStop ==
    /\ Clickable
    /\ timer' = FALSE /\ stopped' = TRUE
    /\ UNCHANGED <<server, now, cache, status, gate, call, history, on, boot, main, window>>

ClickDeactivate(c) ==
    /\ Clickable
    /\ Deactivate(c)
    /\ timer' = (timer /\ call'[c] # Idle)
    /\ UNCHANGED app

ClickOpen ==
    /\ Clickable
    /\ window' = TRUE
    /\ UNCHANGED <<server, now, client, call, history, on, boot, main, stopped>>

\* The licence window.
SubmitKey(c) ==
    /\ on /\ window
    /\ Activate(c)
    /\ UNCHANGED app

CloseLicense ==
    /\ window
    /\ window' = FALSE
    /\ UNCHANGED <<server, now, client, call, history, on, boot, main, stopped>>

\* The handlers go on.
AppActivated(c) ==
    /\ Activated(c)
    /\ Started
    /\ window' = FALSE
    /\ UNCHANGED <<on, boot, main>>

AppDeactivated(c) ==
    /\ Deactivated(c)
    /\ timer' = FALSE
    /\ UNCHANGED app

AppVerified(c) ==
    \/ Verified(c) /\ AfterVerify(c)
    \/ VerifyFailed(c) /\ AfterVerify(c)
    \/ WriteFails(c, "verify") /\ AfterVerify(c)

AppThrown(c) ==
    \/ Thrown(c) /\ UNCHANGED app
    \/ WriteFails(c, "activate") /\ UNCHANGED <<timer, app>>

Continue(c) == AppActivated(c) \/ AppDeactivated(c) \/ AppVerified(c) \/ AppThrown(c)

\* The user closes the main window, and the licence window with it: the process
\* quits, or on macOS goes on without heartbeats.
CloseMain ==
    /\ on /\ main
    /\ main' = FALSE /\ window' = FALSE
    /\ timer' = FALSE /\ stopped' = TRUE
    /\ UNCHANGED <<server, now, cache, status, gate, call, history, on, boot>>

\* The dock icon: a main window, and nothing else of bootstrap.
Reopen ==
    /\ on /\ ~main
    /\ main' = TRUE
    /\ UNCHANGED <<server, now, client, call, history, on, boot, window, stopped>>

Quit ==
    /\ on
    /\ Stop
    /\ on' = FALSE /\ boot' = None /\ main' = FALSE /\ window' = FALSE /\ stopped' = FALSE

-----------------------------------------------------------------------------
Init == ClientInit /\ on = FALSE /\ boot = None /\ main = FALSE /\ window = FALSE /\ stopped = FALSE

Next ==
    \/ \E c \in Call : Launch(c) \/ ClickVerify(c) \/ ClickDeactivate(c) \/ SubmitKey(c) \/ Continue(c)
    \/ ClickStart \/ ClickStop \/ ClickOpen \/ CloseLicense \/ CloseMain \/ Reopen \/ Quit
    \/ Background /\ UNCHANGED app

Spec == Init /\ [][Next]_vars

\* setInterval goes on firing, whatever else the client is doing, and every
\* call comes to an end: fetch fails sooner or later when no answer comes.  The
\* handler of an ended call goes on.
FairSpec ==
    /\ Spec
    /\ SF_vars((\E c \in Call : Tick(c)) /\ UNCHANGED app)
    /\ \A c \in Call :
          /\ WF_vars((Serve(c) \/ Lose(c)) /\ UNCHANGED app)
          /\ WF_vars(Continue(c) \/ ((Renewed(c) \/ HeartbeatFailed(c)) /\ UNCHANGED app))
-----------------------------------------------------------------------------
(* Correctness, with one call at a time. *)

\* While the application shows a usable licence its heartbeats run, unless the
\* user stopped them or closed the last window: every way to get there starts them,
\* and every error that stops them shows.
HeartbeatsRun == isUsableStatus(status) => timer \/ stopped

\* A ban reaches the application by itself, whatever the network does, unless the
\* heartbeats were stopped by the user or the process ends.
BanReachesApp ==
    (license = "banned" /\ isUsableStatus(status)) ~> (~isUsableStatus(status) \/ license = "active" \/ stopped)

\* A start ends with heartbeats or with a window to enter a key in
\* (04 checklist, 2.1 and 2.5), unless the user closes the windows or stops the heartbeats.
StartEnds == boot # None ~> timer \/ window \/ ~on \/ ~main \/ stopped
=============================================================================

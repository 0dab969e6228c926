---------------------------- MODULE AdminConsole ----------------------------
(***************************************************************************)
(* The administrators' page (admin/src/App.vue, api.ts) and the handlers   *)
(* it calls: an operation of the page sends its calls all at once, waits   *)
(* for all of them and loads every table again; a handler writes the row   *)
(* and then the audit row, in a database call each.  Answers get lost,     *)
(* calls fail half way, and calls nobody waits for any more go on.         *)
(*                                                                         *)
(* A row of a table is known by how often it was written; what is written  *)
(* does not matter here.  Left out: the forms, what an audit row says of   *)
(* the row before the change, the rows requests of clients write, the      *)
(* default plan a new card key may bring along, and the table of accounts, *)
(* which stays empty when it cannot be loaded.                             *)
(* AdminAccess has the accounts themselves.                                *)
(***************************************************************************)
EXTENDS Integers, FiniteSets

CONSTANTS
    Task,       \* operations of the page under way at the same time
    Item,       \* rows, one for each table
    Audited,    \* those whose handlers write audit rows: not products and plans
    MaxWrites   \* bound on the writes

ASSUME ConsoleAssumption ==
    /\ IsFiniteSet(Task) /\ IsFiniteSet(Item)
    /\ Audited \subseteq Item
    /\ MaxWrites \in Nat

VARIABLES
    \* the server
    rows,      \* is the row there, and how often was it written?
    trail,     \* audit_logs: the writes that are written down, as <<item, number>>
    due,       \* the account has to change its password
    \* the page
    signedIn,  \* the token, in localStorage and in the page
    asked,     \* passwordChangeRequired: the page shows the password form only
    loading,
    shown,     \* the rows the tables show
    task,      \* the operations under way, and calls they left behind
    \* history
    crowded,   \* something was begun past the mask, and there has been something under way since
    unlogged   \* writes whose handler failed before the audit row

server == <<rows, trail, unlogged>>
page == <<signedIn, asked, loading, shown, crowded>>
vars == <<server, due, page, task>>
-----------------------------------------------------------------------------
(* Rows, and operations of the page with their calls *)

Row == [here : BOOLEAN, writes : Nat]
NoRow == [here |-> FALSE, writes |-> 0]
Nothing == [i \in Item |-> NoRow]

\* wrote is the number of the write a call has made; list is what the calls of the reload have answered, for the items listed.
Rest == [op |-> "none", step |-> "over", call |-> [i \in Item |-> "none"],
         wrote |-> [i \in Item |-> 0],
         list |-> Nothing, listed |-> {}]

Changes == {"create", "update", "delete"}
Operation == [op : Changes \union {"none", "refresh", "login", "password"},
              step : {"over", "calls", "served", "reload", "refused"},
              call : [Item -> {"none", "write", "audit", "done", "failed"}],
              wrote : [Item -> Nat], list : [Item -> Row], listed : SUBSET Item]

Items(t) == {i \in Item : task[t].call[i] # "none"}
Pending(t) == {i \in Item : task[t].call[i] \in {"write", "audit"}}
UnderWay == {t \in Task : task[t].step # "over"}
Free(t) == t \notin UnderWay /\ Pending(t) = {}

\* Bound on the runs: the writes made, asked for and to be asked for.
Room(I) == Cardinality({w \in Item \X (1 .. MaxWrites) : w[2] <= rows[w[1]].writes})
             + Cardinality({c \in Task \X Item : task[c[1]].call[c[2]] = "write"})
             + Cardinality(I) <= MaxWrites
-----------------------------------------------------------------------------
(* The handlers.  The guard refuses every call of an account that has to    *)
(* change its password: such a call ends in HandlerFail, as does one that   *)
(* meets no row, or one too many, and one whose database call fails.        *)

At(t, i, pc) == task[t].call[i] = pc
Goto(t, i, pc) == task' = [task EXCEPT ![t].call[i] = pc]

\* The removal of a card key writes no audit row.
Logged(t, i) == i \in Audited /\ task[t].op # "delete"

\* Fault: the answer does not wait for the audit row.
FaultHandlerWrite(t, i) ==
    /\ At(t, i, "write") /\ ~due
    /\ rows[i].here = (task[t].op # "create")
    /\ rows' = [rows EXCEPT ![i] = [here |-> task[t].op # "delete", writes |-> @.writes + 1]]
    /\ task' = [task EXCEPT ![t].call[i] = "done", ![t].wrote[i] = rows[i].writes + 1]
    /\ UNCHANGED <<trail, unlogged, due, page>>

HandlerWrite(t, i) ==
    /\ At(t, i, "write") /\ ~due
    /\ rows[i].here = (task[t].op # "create")
    /\ rows' = [rows EXCEPT ![i] = [here |-> task[t].op # "delete", writes |-> @.writes + 1]]
    /\ task' = [task EXCEPT ![t].call[i] = IF Logged(t, i) THEN "audit" ELSE "done",
                            ![t].wrote[i] = rows[i].writes + 1]
    /\ UNCHANGED <<trail, unlogged, due, page>>

HandlerAudit(t, i) ==
    /\ At(t, i, "audit")
    /\ trail' = trail \union {<<i, task[t].wrote[i]>>}
    /\ Goto(t, i, "done")
    /\ UNCHANGED <<rows, unlogged, due, page>>

HandlerFail(t, i) ==
    /\ i \in Pending(t)
    /\ Goto(t, i, "failed")
    /\ unlogged' = unlogged \union {<<i, n>> : n \in {task[t].wrote[i]} \ {0}}
    /\ UNCHANGED <<rows, trail, due, page>>

\* The password is changed, for whoever waits for it.
ServePassword(t) ==
    /\ task[t].op = "password" /\ task[t].step = "calls"
    /\ due' = FALSE
    /\ task' = [task EXCEPT ![t].step = "served"]
    /\ UNCHANGED <<server, page>>

\* One of the lists of a reload is read, each at a moment of its own.
ListRead(t, i) ==
    /\ task[t].step = "reload" /\ i \notin task[t].listed /\ ~due
    /\ task' = [task EXCEPT ![t].list[i] = rows[i], ![t].listed = @ \union {i}]
    /\ UNCHANGED <<server, due, page>>
-----------------------------------------------------------------------------
(* Operations begin.  While loading is set the buttons of the two forms are *)
(* disabled and the panels masked, which keeps the pointer from them, but   *)
(* not the keyboard, nor either from the editor of a product (App.vue:1046),*)
(* from refresh and log out.                                                *)

Begin(t, op, step, call) ==
    /\ Free(t)
    /\ task' = [task EXCEPT ![t] = [Rest EXCEPT !.op = op, !.step = step, !.call = call]]
    /\ loading' = TRUE

NoCall == [i \in Item |-> "none"]

\* A change of a row, or of several: batchBanLicenses, batchDisableCardKeys,
\* submitCardKey.  The rows to change are among those shown.
BeginChange(t) ==
    /\ signedIn /\ ~asked
    /\ \E op \in Changes, I \in SUBSET Item \ {{}} :
        /\ Room(I)
        /\ op = "delete" => Cardinality(I) = 1
        /\ op # "create" => \A i \in I : shown[i].here
        /\ Begin(t, op, "calls", [i \in Item |-> IF i \in I THEN "write" ELSE "none"])
    /\ crowded' = (crowded \/ loading)
    /\ UNCHANGED <<server, due, signedIn, asked, shown>>

BeginRefresh(t) ==
    /\ signedIn /\ ~asked
    /\ Begin(t, "refresh", "reload", NoCall)
    /\ crowded' = (crowded \/ loading)
    /\ UNCHANGED <<server, due, signedIn, asked, shown>>

BeginLogin(t) ==
    /\ ~signedIn /\ ~loading
    /\ Begin(t, "login", "calls", NoCall)
    /\ UNCHANGED <<server, due, signedIn, asked, shown, crowded>>

BeginPassword(t) ==
    /\ signedIn /\ asked /\ ~loading
    /\ Begin(t, "password", "calls", NoCall)
    /\ UNCHANGED <<server, due, signedIn, asked, shown, crowded>>
-----------------------------------------------------------------------------
(* Operations go on and end *)

\* refreshAll within an operation: without a token every list is refused.
Reload(t, token) ==
    /\ task' = [task EXCEPT ![t].step = IF token THEN "reload" ELSE "refused"]
    /\ loading' = TRUE

\* What is left of an operation: the calls nobody waits for.
Left(t) == IF Pending(t) = {} THEN Rest
           ELSE [task[t] EXCEPT !.step = "over", !.list = Nothing, !.listed = {}]

\* Fault: the spinner is left on.
FaultFinish(t) ==
    /\ task' = [task EXCEPT ![t] = Left(t)]
    /\ crowded' = (crowded /\ UnderWay # {t})
    /\ UNCHANGED loading

Finish(t) ==
    /\ task' = [task EXCEPT ![t] = Left(t)]
    /\ loading' = FALSE
    /\ crowded' = (crowded /\ UnderWay # {t})

\* Fault: the answers are not awaited.
FaultAcceptChange(t) ==
    /\ task[t].op \in Changes /\ task[t].step = "calls"
    /\ Reload(t, signedIn)
    /\ UNCHANGED <<server, due, signedIn, asked, shown, crowded>>

AcceptChange(t) ==
    /\ task[t].op \in Changes /\ task[t].step = "calls"
    /\ \A i \in Items(t) : At(t, i, "done")
    /\ Reload(t, signedIn)
    /\ UNCHANGED <<server, due, signedIn, asked, shown, crowded>>

\* Served and answered in one step.
AcceptLogin(t) ==
    /\ task[t].op = "login" /\ task[t].step = "calls"
    /\ signedIn' = TRUE /\ asked' = due
    /\ IF due THEN Finish(t) ELSE Reload(t, TRUE) /\ UNCHANGED crowded
    /\ UNCHANGED <<server, due, shown>>

AcceptPassword(t) ==
    /\ task[t].op = "password" /\ task[t].step = "served"
    /\ asked' = FALSE
    /\ Reload(t, signedIn)
    /\ UNCHANGED <<server, due, signedIn, shown, crowded>>

AcceptReload(t) ==
    /\ task[t].step = "reload" /\ task[t].listed = Item
    /\ shown' = task[t].list
    /\ Finish(t)
    /\ UNCHANGED <<server, due, signedIn, asked>>

\* One call that fails ends the operation, whatever becomes of the others;
\* a reload that fails says so, and the change before it is still a success.
GiveUp(t) ==
    /\ Finish(t)
    /\ UNCHANGED <<server, due, signedIn, asked, shown>>

Reject(t) ==
    /\ \/ task[t].step = "calls" /\ \E i \in Item : At(t, i, "failed")
       \/ task[t].step = "reload" /\ due
       \/ task[t].step = "refused"
    /\ GiveUp(t)

\* A call or its answer is lost, or the database fails.
Lose(t) == t \in UnderWay /\ GiveUp(t)

LogOut ==
    /\ signedIn
    /\ signedIn' = FALSE /\ asked' = FALSE
    /\ UNCHANGED <<server, due, loading, shown, crowded, task>>

\* The page is loaded anew: onMounted finds the token, not what else there was.
Mount(t) ==
    /\ Pending(t) = {}
    /\ task' = [u \in Task |->
                  IF u = t /\ signedIn THEN [Rest EXCEPT !.op = "refresh", !.step = "reload"]
                  ELSE Left(u)]
    /\ loading' = signedIn /\ asked' = FALSE /\ shown' = Nothing /\ crowded' = FALSE
    /\ UNCHANGED <<server, due, signedIn>>
-----------------------------------------------------------------------------
Init ==
    /\ rows = Nothing /\ trail = {} /\ unlogged = {}
    /\ due \in BOOLEAN
    /\ signedIn = FALSE /\ asked = FALSE /\ loading = FALSE
    /\ shown = Nothing /\ crowded = FALSE
    /\ task = [t \in Task |-> Rest]

Handle(t, i) == HandlerWrite(t, i) \/ HandlerAudit(t, i) \/ HandlerFail(t, i)

Settle(t) ==
    \/ ServePassword(t) \/ \E i \in Item : ListRead(t, i)
    \/ AcceptChange(t) \/ AcceptLogin(t) \/ AcceptPassword(t) \/ AcceptReload(t) \/ Reject(t)

Next ==
    \/ \E t \in Task :
        \/ BeginChange(t) \/ BeginRefresh(t) \/ BeginLogin(t) \/ BeginPassword(t)
        \/ \E i \in Item : Handle(t, i)
        \/ Settle(t) \/ Lose(t) \/ Mount(t)
    \/ LogOut

Spec == Init /\ [][Next]_vars

\* The server works on what it was sent, and what it answers arrives or is
\* reported lost.
FairSpec == Spec /\ \A t \in Task : WF_vars(Settle(t)) /\ \A i \in Item : WF_vars(Handle(t, i))
-----------------------------------------------------------------------------
(* Correctness *)

\* Rows, what the tables show of them, and operations are well formed.
TypeOK ==
    /\ rows \in [Item -> Row] /\ shown \in [Item -> Row]
    /\ trail \subseteq Item \X Nat /\ unlogged \subseteq Item \X Nat
    /\ {due, signedIn, asked, loading, crowded} \subseteq BOOLEAN
    /\ task \in [Task -> Operation]

\* The mask is up exactly while something is under way, so that the pointer
\* begins nothing else, unless something was begun past it: then the first to
\* end takes the mask from the others (App.vue's only flag).
MaskHolds ==
    /\ loading => UnderWay # {}
    /\ ~crowded => Cardinality(UnderWay) <= 1 /\ (UnderWay # {} => loading)

\* After a change that succeeded the tables show it, or something later; and
\* what they show never goes back, unless something was begun past the mask.
ShownKeepsUp ==
    [][\A t \in Task : AcceptReload(t) =>
           \A i \in Item : /\ shown'[i].writes >= task[t].wrote[i]
                           /\ ~crowded => shown'[i].writes >= shown[i].writes]_vars

\* A row whose handler writes audit rows is as the trail says, or its handler
\* is about to say so, or has failed; and a change reported as a success is in
\* the trail (02 development plan, 7.2: high-risk operations are audited).
TrailComplete ==
    /\ \A i \in Audited : rows[i].here =>
          \/ <<i, rows[i].writes>> \in trail \union unlogged
          \/ \E t \in Task : At(t, i, "audit") /\ task[t].wrote[i] = rows[i].writes
    /\ \A t \in Task : task[t].step \in {"reload", "refused"} =>
          \A i \in Items(t) : Logged(t, i) => <<i, task[t].wrote[i]>> \in trail

\* The page does not stay masked, unless it is loaded anew for ever: whichever
\* call fails, and whoever waits for it, the mask is taken away.
SpinnerEnds == <>[][\A t \in Task : ~Mount(t)]_vars => (loading ~> ~loading)
=============================================================================

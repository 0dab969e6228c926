---------------------------- MODULE AdminAccess ----------------------------
(***************************************************************************)
(* Administrators' accounts: login, the guard before every request of the  *)
(* administration API, the change of one's password, and the management    *)
(* of accounts by super administrators (server/src/admin/auth, admins).    *)
(*                                                                         *)
(* A token is signed and carries the account's id; whatever else it        *)
(* carries the guard reads again from the account.  A handler may be       *)
(* interrupted at every await: a database call, or a password hash.  The   *)
(* look-up before an update of status or role only feeds the audit log.    *)
(***************************************************************************)
EXTENDS Integers, FiniteSets

CONSTANTS
    Worker,    \* requests the server works on at the same time
    Admin,     \* accounts
    Seeded,    \* the account prisma/seed.ts creates
    Password,  \* passwords in use
    None       \* null

ASSUME AccountAssumption ==
    /\ Seeded \in Admin
    /\ None \notin Admin \union Password

VARIABLES
    admins,  \* the admins table, by account
    tokens,  \* accounts with an unexpired token
    req      \* what each worker is doing

vars == <<admins, tokens, req>>
-----------------------------------------------------------------------------
Role == {"super_admin", "operator", "viewer"}

\* changed: passwordChangedAt is set.
Account == [status : {"active", "disabled"}, role : Role, password : Password, changed : BOOLEAN]
NoRow == [status |-> "none", role |-> "viewer", password |-> None, changed |-> FALSE]

\* Accounts that can manage accounts.
Supers == {a \in Admin : admins[a].status = "active" /\ admins[a].role = "super_admin"}

\* "operate" is every other write of the administration API, "read" its GETs.
Managing == {"create", "status", "role"}
Op == {"change", "operate", "read"} \union Managing

\* The roles a handler is open to: AdminRoles, or else by HTTP method.
Roles(op) ==
    CASE op \in Managing -> {"super_admin"}
      [] op = "operate" -> {"super_admin", "operator"}
      [] OTHER -> Role

\* Who sends the request and the password it presents; the account it is about
\* and the new status, role or password are chosen where they are first used.
\* once (history): what it asks for has been permitted at some moment since it
\* arrived.
Idle == [op |-> "none", pc |-> "idle", actor |-> None, old |-> None, once |-> FALSE]
Request == [op : Op \union {"login", "none"}, pc : {"idle", "guard", "find", "write"}, actor : Admin \union {None},
            old : Password \union {None}, once : BOOLEAN]

\* What the accounts in rows permit.
Permitted(rows, r) ==
    LET row == rows[r.actor] IN
    /\ row.status = "active"
    /\ r.op \in {"login", "change"} => row.password = r.old
    /\ r.op \notin {"login", "change"} => row.changed /\ row.role \in Roles(r.op)

At(w, pc) == req[w].pc = pc
Goto(w, pc) == req' = [req EXCEPT ![w].pc = pc]
Answer(w) == req' = [req EXCEPT ![w] = Idle]

\* The account of a worker's request becomes row; all requests are looked at
\* again, and the worker's own is answered.
Store(w, a, row) ==
    /\ admins' = [admins EXCEPT ![a] = row]
    /\ req' = [x \in Worker |->
                 IF x = w THEN Idle
                 ELSE [req[x] EXCEPT !.once = @ \/ (req[x] # Idle /\ Permitted(admins', req[x]))]]
    /\ UNCHANGED tokens

Begin(w, r) == req' = [req EXCEPT ![w] = [r EXCEPT !.once = Permitted(admins, r)]]
-----------------------------------------------------------------------------
(* Login and tokens *)

ArriveLogin(w) ==
    /\ req[w] = Idle
    /\ \E a \in Admin, p \in Password :
          Begin(w, [Idle EXCEPT !.op = "login", !.pc = "find", !.actor = a, !.old = p])
    /\ UNCHANGED <<admins, tokens>>

\* AuthService.login up to the comparison; the hash it compares is the one just read.
Login(w) ==
    /\ At(w, "find") /\ req[w].op = "login"
    /\ LET row == admins[req[w].actor] IN
          IF row.status = "active" /\ row.password = req[w].old THEN Goto(w, "write") ELSE Answer(w)
    /\ UNCHANGED <<admins, tokens>>

\* ... and from there on: the token is signed although the account may have changed.
Sign(w) ==
    /\ At(w, "write") /\ req[w].op = "login"
    /\ tokens' = tokens \union {req[w].actor}
    /\ Answer(w)
    /\ UNCHANGED admins

\* The token of an account expires.
Expire(a) ==
    /\ a \in tokens
    /\ tokens' = tokens \ {a}
    /\ UNCHANGED <<admins, req>>
-----------------------------------------------------------------------------
(* Requests with a token *)

Arrive(w) ==
    /\ req[w] = Idle
    /\ \E op \in Op, a \in tokens :
       \E p \in IF op = "change" THEN Password ELSE {None} :
          Begin(w, [op |-> op, pc |-> "guard", actor |-> a, old |-> p, once |-> FALSE])
    /\ UNCHANGED <<admins, tokens>>

\* Fault: whether the password was changed is not looked at.
FaultAdmitted(r) ==
    LET row == admins[r.actor] IN row.status = "active" /\ row.role \in Roles(r.op)
\* Fault: an account without a role the handler is open to passes.
FaultRoleAdmitted(r) ==
    LET row == admins[r.actor] IN row.status = "active" /\ (row.changed \/ r.op = "change")
Admitted(r) ==
    LET row == admins[r.actor] IN
    /\ row.status = "active"
    /\ row.changed \/ r.op = "change"
    /\ row.role \in Roles(r.op)

\* AdminAuthGuard.canActivate
Guard(w) ==
    /\ At(w, "guard")
    /\ \/ ~Admitted(req[w]) /\ Answer(w)
       \/ Admitted(req[w]) /\ Goto(w, IF req[w].op = "change" THEN "find" ELSE "write")
    /\ UNCHANGED <<admins, tokens>>

\* Handlers that leave the accounts alone.
Other(w) ==
    /\ At(w, "write") /\ req[w].op \in {"operate", "read"}
    /\ Answer(w)
    /\ UNCHANGED <<admins, tokens>>

\* AuthService.changePassword: look-up and comparison, ...
ChangeFind(w) ==
    /\ At(w, "find") /\ req[w].op = "change"
    /\ LET row == admins[req[w].actor] IN
          IF row.status = "active" /\ row.password = req[w].old THEN Goto(w, "write") ELSE Answer(w)
    /\ UNCHANGED <<admins, tokens>>

\* Fault: the row read before, an active account, is written back whole.
FaultChangeWrite(w) ==
    /\ At(w, "write") /\ req[w].op = "change"
    /\ \E p \in Password :
          Store(w, req[w].actor, [admins[req[w].actor] EXCEPT !.password = p, !.changed = TRUE, !.status = "active"])
\* ... and, the new hash computed, the update: of the password alone.
ChangeWrite(w) ==
    /\ At(w, "write") /\ req[w].op = "change"
    /\ \E p \in Password :
          Store(w, req[w].actor, [admins[req[w].actor] EXCEPT !.password = p, !.changed = TRUE])

\* The request is about an account that does not exist, or does already.
Refused(w, op, a, exists) ==
    /\ At(w, "write") /\ req[w].op = op
    /\ (admins[a] # NoRow) = exists
    /\ Answer(w)
    /\ UNCHANGED <<admins, tokens>>

\* AdminsController.create: fails when the username is taken.
Create(w, a) ==
    \/ Refused(w, "create", a, TRUE)
    \/ /\ At(w, "write") /\ req[w].op = "create"
       /\ admins[a] = NoRow
       /\ \E p \in Password, r \in Role :
             Store(w, a, [status |-> "active", role |-> r, password |-> p, changed |-> FALSE])

\* updateStatus: also one's own, also the last super administrator's.
UpdateStatus(w, a) ==
    \/ Refused(w, "status", a, FALSE)
    \/ /\ At(w, "write") /\ req[w].op = "status"
       /\ admins[a] # NoRow
       /\ \E s \in {"active", "disabled"} : Store(w, a, [admins[a] EXCEPT !.status = s])

\* updateRole
UpdateRole(w, a) ==
    \/ Refused(w, "role", a, FALSE)
    \/ /\ At(w, "write") /\ req[w].op = "role"
       /\ admins[a] # NoRow
       /\ \E r \in Role : Store(w, a, [admins[a] EXCEPT !.role = r])

\* A call fails, or the process stops: the request is lost.
Fail(w) ==
    /\ req[w] # Idle
    /\ Answer(w)
    /\ UNCHANGED <<admins, tokens>>
-----------------------------------------------------------------------------
\* seed.ts: one super administrator, whose password counts as changed when the
\* deployment chose it.
Init ==
    /\ \E p \in Password, c \in BOOLEAN :
          admins = [a \in Admin |-> IF a = Seeded THEN [status |-> "active", role |-> "super_admin", password |-> p, changed |-> c]
                                    ELSE NoRow]
    /\ tokens = {}
    /\ req = [w \in Worker |-> Idle]

Handle(w) ==
    \/ Login(w) \/ Sign(w) \/ Guard(w) \/ Other(w)
    \/ ChangeFind(w) \/ ChangeWrite(w)
    \/ \E a \in Admin : Create(w, a) \/ UpdateStatus(w, a) \/ UpdateRole(w, a)

Next ==
    \/ \E w \in Worker : ArriveLogin(w) \/ Arrive(w) \/ Handle(w) \/ Fail(w)
    \/ \E a \in Admin : Expire(a)

Spec == Init /\ [][Next]_vars
-----------------------------------------------------------------------------
(* Correctness *)

\* Accounts, tokens and requests are ones the code produces.
AdminTypeOK ==
    /\ admins \in [Admin -> Account \union {NoRow}]
    /\ tokens \subseteq Admin
    /\ req \in [Worker -> Request]

\* Nothing is done for a request that its sender was at no moment since it
\* arrived entitled to: a token signed before the account was disabled or
\* demoted, or a password since replaced, is worth nothing (the guard and the
\* handlers read the account again), and only requests under way can still act.
LateAdminRefused == \A w \in Worker : At(w, "write") => req[w].once

\* Whoever uses the administration API has chosen his password: with the one an
\* account was seeded or created with nothing but its change gets past the guard
\* (README.md:193, the default password has to be changed).
PasswordFirst ==
    \A w \in Worker : At(w, "write") /\ req[w].op \notin {"login", "change"} => admins[req[w].actor].changed

\* Requests of super administrators that the guard has let pass.
UnderWay == {w \in Worker : At(w, "write") /\ req[w].op \in Managing}

\* Accounts cannot be managed again once there is no super administrator and no
\* request of one under way: no token, password change or other account brings
\* one back, so that disabling or demoting the last one is final.
LockoutIsFinal == [][Supers = {} /\ UnderWay = {} => Supers' = {} /\ UnderWay' = {}]_vars
=============================================================================

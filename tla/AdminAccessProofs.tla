------------------------ MODULE AdminAccessProofs ------------------------
(***************************************************************************)
(* Proofs about AdminAccess: the accounts are well formed, no request acts *)
(* that was never permitted, passwords are changed first, and a lockout is *)
(* final, for any number of accounts, passwords and requests.              *)
(***************************************************************************)
EXTENDS AdminAccess, TLAPS

\* Of a request under way somebody is the sender, logins meet no guard, and the
\* account of a request that got past it exists.
SenderKnown ==
    \A w \in Worker :
        /\ req[w].pc # "idle" => req[w].actor \in Admin
        /\ req[w].pc = "guard" => req[w].op # "login"
        /\ req[w].pc = "write" => admins[req[w].actor] # NoRow

\* What is permitted now has been permitted at some moment.
Noted == \A w \in Worker : req[w].pc # "idle" /\ Permitted(admins, req[w]) => req[w].once

IInv == AdminTypeOK /\ SenderKnown /\ Noted /\ LateAdminRefused /\ PasswordFirst

\* Nothing but sender, operation and presented password decides.
LEMMA PermittedSame ==
    ASSUME NEW rows, NEW q, NEW r, q.actor = r.actor, q.op = r.op, q.old = r.old
    PROVE  Permitted(rows, q) <=> Permitted(rows, r)
BY DEF Permitted

\* The effect of Store on each part of the invariant, for an account whose
\* changed mark is not taken back.
LEMMA StoreKeeps ==
    ASSUME IInv, NEW w \in Worker, NEW a \in Admin, NEW row \in Account,
           admins[a].changed => row.changed,
           Store(w, a, row)
    PROVE  IInv'
<1> USE AccountAssumption
<1>1. /\ admins \in [Admin -> Account \union {NoRow}]
      /\ req \in [Worker -> Request]
      /\ tokens \subseteq Admin
  BY DEF IInv, AdminTypeOK
<1>2. Idle \in Request
  BY DEF Idle, Request
<1>3. admins' = [admins EXCEPT ![a] = row] /\ admins' \in [Admin -> Account \union {NoRow}]
  BY <1>1 DEF Store
<1>4. req'[w] = Idle /\ req'[w].pc = "idle"
  BY DEF Store, Idle
<1>5. ASSUME NEW x \in Worker, x # w
      PROVE  /\ req'[x] \in Request
             /\ req'[x].pc = req[x].pc /\ req'[x].op = req[x].op /\ req'[x].actor = req[x].actor
             /\ req'[x].old = req[x].old
             /\ req[x].once => req'[x].once
             /\ req[x] # Idle /\ Permitted(admins', req[x]) => req'[x].once
  <2> DEFINE P == Permitted(admins', req[x])
             o == req[x].once \/ (req[x] # Idle /\ P)
  <2>1. req[x] \in Request /\ req[x].once \in BOOLEAN
    BY <1>1 DEF Request
  <2>2. req'[x] = [req[x] EXCEPT !.once = o]
    BY <1>5 DEF Store
  <2>3. o \in BOOLEAN /\ (req[x].once => o) /\ (req[x] # Idle /\ P => o)
    BY <2>1
  <2> HIDE DEF o
  <2>4. /\ req'[x] \in Request /\ req'[x].once = o
        /\ req'[x].pc = req[x].pc /\ req'[x].op = req[x].op /\ req'[x].actor = req[x].actor
        /\ req'[x].old = req[x].old
    <3> HIDE DEF P
    <3> QED
      BY <2>1, <2>2, <2>3 DEF Request
  <2> QED
    BY <2>3, <2>4
<1>6. req' \in [Worker -> Request]
  <2>1. \A x \in Worker : req'[x] \in Request
    BY <1>2, <1>4, <1>5
  <2>2. req' = [x \in Worker |-> req'[x]]
    BY DEF Store
  <2> QED
    BY <2>1, <2>2
<1>7. \A b \in Admin : (admins[b].changed => admins'[b].changed) /\ (admins[b] # NoRow => admins'[b] # NoRow)
  BY <1>1, <1>3 DEF Account, NoRow
<1>8. AdminTypeOK'
  BY <1>1, <1>3, <1>6 DEF AdminTypeOK, Store
<1>9. SenderKnown'
  BY <1>4, <1>5, <1>7 DEF IInv, SenderKnown
<1>10. LateAdminRefused'
  BY <1>4, <1>5 DEF IInv, LateAdminRefused, At
<1>11. PasswordFirst'
  BY <1>4, <1>5, <1>7 DEF IInv, PasswordFirst, SenderKnown, At
<1>12. Noted'
  <2> SUFFICES ASSUME NEW x \in Worker, req'[x].pc # "idle", Permitted(admins', req'[x])
               PROVE  req'[x].once
    BY DEF Noted
  <2>1. x # w
    BY <1>4
  <2>2. req[x] # Idle
    BY <1>5, <2>1 DEF Idle
  <2>3. Permitted(admins', req[x])
    BY <1>5, <2>1, PermittedSame
  <2> QED
    BY <1>5, <2>1, <2>2, <2>3
<1> QED
  BY <1>8, <1>9, <1>10, <1>11, <1>12 DEF IInv

\* The effect of a step of one request that leaves the accounts alone.
LEMMA RequestKeeps ==
    ASSUME IInv, NEW w \in Worker, NEW r \in Request,
           req' = [req EXCEPT ![w] = r], admins' = admins, tokens' \subseteq Admin,
           r.pc # "idle" => r.actor \in Admin /\ (Permitted(admins, r) => r.once),
           r.pc = "guard" => r.op # "login",
           r.pc = "write" => r.once /\ admins[r.actor] # NoRow,
           r.pc = "write" /\ r.op \notin {"login", "change"} => admins[r.actor].changed
    PROVE  IInv'
<1>1. req \in [Worker -> Request]
  BY DEF IInv, AdminTypeOK
<1>2. \A x \in Worker : req'[x] = IF x = w THEN r ELSE req[x]
  BY <1>1
<1>3. AdminTypeOK'
  BY <1>1 DEF IInv, AdminTypeOK
<1>4. SenderKnown'
  BY <1>2 DEF IInv, SenderKnown
<1>5. Noted'
  BY <1>2 DEF IInv, Noted, Permitted
<1>6. LateAdminRefused' /\ PasswordFirst'
  BY <1>2 DEF IInv, LateAdminRefused, PasswordFirst, At
<1> QED
  BY <1>3, <1>4, <1>5, <1>6 DEF IInv

\* The initial accounts satisfy the invariant.
LEMMA InitInvariant == Init => IInv
BY AccountAssumption
   DEF Init, IInv, AdminTypeOK, SenderKnown, Noted, LateAdminRefused, PasswordFirst, At, Account, NoRow, Role, Idle, Request

\* An answered request leaves nothing behind.
LEMMA AnswerKeeps ==
    ASSUME IInv, NEW w \in Worker, Answer(w), admins' = admins, tokens' \subseteq Admin
    PROVE  IInv'
<1>1. Idle \in Request /\ Idle.pc = "idle"
  BY DEF Idle, Request
<1> QED
  BY <1>1, RequestKeeps DEF Answer

\* A request goes on to its next part.
LEMMA GotoKeeps ==
    ASSUME IInv, NEW w \in Worker, NEW pc \in {"find", "write"}, req[w].pc # "idle", Goto(w, pc), UNCHANGED <<admins, tokens>>,
           pc = "write" => req[w].once /\ admins[req[w].actor] # NoRow,
           pc = "write" /\ req[w].op \notin {"login", "change"} => admins[req[w].actor].changed
    PROVE  IInv'
<1> DEFINE r == [req[w] EXCEPT !.pc = pc]
<1>1. req \in [Worker -> Request] /\ tokens \subseteq Admin
  BY DEF IInv, AdminTypeOK
<1>2. r \in Request /\ r.pc = pc /\ r.op = req[w].op /\ r.actor = req[w].actor /\ r.old = req[w].old /\ r.once = req[w].once
  BY <1>1 DEF Request
<1>3. req' = [req EXCEPT ![w] = r]
  BY <1>1 DEF Goto
<1>4. Permitted(admins, r) <=> Permitted(admins, req[w])
  BY <1>2, PermittedSame
<1>5. r.actor \in Admin /\ (Permitted(admins, r) => r.once)
  BY <1>2, <1>4 DEF IInv, SenderKnown, Noted
<1> HIDE DEF r
<1> QED
  BY <1>1, <1>2, <1>3, <1>5, RequestKeeps

\* Every step keeps the invariant.
LEMMA NextInvariant == IInv /\ [Next]_vars => IInv'
<1> SUFFICES ASSUME IInv, [Next]_vars PROVE IInv'
  OBVIOUS
<1> USE AccountAssumption
<1>1. /\ admins \in [Admin -> Account \union {NoRow}]
      /\ req \in [Worker -> Request]
      /\ tokens \subseteq Admin
  BY DEF IInv, AdminTypeOK
<1>2. CASE UNCHANGED vars
  BY <1>2 DEF vars, IInv, AdminTypeOK, SenderKnown, Noted, LateAdminRefused, PasswordFirst, At, Permitted
<1>3. ASSUME NEW w \in Worker, ArriveLogin(w) PROVE IInv'
  <2>1. PICK a \in Admin, p \in Password :
           Begin(w, [Idle EXCEPT !.op = "login", !.pc = "find", !.actor = a, !.old = p])
    BY <1>3 DEF ArriveLogin
  <2> DEFINE q == [Idle EXCEPT !.op = "login", !.pc = "find", !.actor = a, !.old = p]
  <2> DEFINE r == [q EXCEPT !.once = Permitted(admins, q)]
  <2>2. Permitted(admins, q) \in BOOLEAN
    BY DEF Permitted
  <2>3. r \in Request /\ r.pc = "find" /\ r.actor = a /\ (Permitted(admins, q) => r.once)
    BY <2>2 DEF Idle, Request
  <2>5. Permitted(admins, r) <=> Permitted(admins, q)
    <3>1. r.actor = q.actor /\ r.op = q.op /\ r.old = q.old
      BY DEF Idle
    <3> HIDE DEF r, q
    <3> QED
      BY <3>1, PermittedSame
  <2>4. req' = [req EXCEPT ![w] = r] /\ admins' = admins /\ tokens' = tokens
    BY <1>3, <2>1 DEF Begin, ArriveLogin
  <2> HIDE DEF r, q
  <2> QED
    BY <1>1, <2>3, <2>4, <2>5, RequestKeeps
<1>4. ASSUME NEW w \in Worker, Arrive(w) PROVE IInv'
  <2>1. PICK op \in Op, a \in tokens : \E p \in IF op = "change" THEN Password ELSE {None} :
           Begin(w, [op |-> op, pc |-> "guard", actor |-> a, old |-> p, once |-> FALSE])
    BY <1>4 DEF Arrive
  <2>2. PICK p \in Password \union {None} :
           Begin(w, [op |-> op, pc |-> "guard", actor |-> a, old |-> p, once |-> FALSE])
    BY <2>1
  <2> DEFINE q == [op |-> op, pc |-> "guard", actor |-> a, old |-> p, once |-> FALSE]
  <2> DEFINE r == [q EXCEPT !.once = Permitted(admins, q)]
  <2>3. Permitted(admins, q) \in BOOLEAN
    BY DEF Permitted
  <2>4. r \in Request /\ r.pc = "guard" /\ r.actor \in Admin /\ r.op # "login" /\ (Permitted(admins, q) => r.once)
    BY <1>1, <2>3 DEF Request, Op, Managing
  <2>6. Permitted(admins, r) <=> Permitted(admins, q)
    BY PermittedSame
  <2>5. req' = [req EXCEPT ![w] = r] /\ admins' = admins /\ tokens' = tokens
    BY <1>4, <2>2 DEF Begin, Arrive
  <2> HIDE DEF r
  <2> QED
    BY <1>1, <2>4, <2>5, <2>6, RequestKeeps
<1>5. ASSUME NEW w \in Worker, Login(w) \/ ChangeFind(w) PROVE IInv'
  <2>1. CASE Answer(w) /\ UNCHANGED <<admins, tokens>>
    BY <1>1, <2>1, AnswerKeeps
  <2>2. CASE Goto(w, "write") /\ admins[req[w].actor].status = "active" /\ admins[req[w].actor].password = req[w].old
    <3>1. Permitted(admins, req[w])
      BY <1>5, <2>2 DEF Permitted, Login, ChangeFind
    <3>2. req[w].once /\ req[w].actor \in Admin /\ admins[req[w].actor] # NoRow
      BY <1>5, <2>2, <3>1 DEF IInv, Noted, SenderKnown, Login, ChangeFind, At, NoRow
    <3> QED
      BY <1>1, <1>5, <2>2, <3>2, GotoKeeps DEF Login, ChangeFind, Goto, At
  <2> QED
    BY <1>5, <2>1, <2>2 DEF Login, ChangeFind
<1>6. ASSUME NEW w \in Worker, Guard(w) PROVE IInv'
  <2>1. CASE Answer(w)
    BY <1>1, <1>6, <2>1, AnswerKeeps DEF Guard
  <2>2. CASE Admitted(req[w]) /\ req[w].op = "change" /\ Goto(w, "find")
    BY <1>6, <2>2, GotoKeeps DEF Guard, At
  <2>3. CASE Admitted(req[w]) /\ req[w].op # "change" /\ Goto(w, "write")
    <3>1. req[w].op # "login" /\ req[w].actor \in Admin
      BY <1>6 DEF Guard, At, IInv, SenderKnown
    <3>2. Permitted(admins, req[w]) /\ admins[req[w].actor].changed /\ admins[req[w].actor] # NoRow
      BY <2>3, <3>1 DEF Permitted, Admitted, NoRow
    <3>3. req[w].once
      BY <1>6, <3>2 DEF IInv, Noted, Guard, At
    <3> QED
      BY <1>6, <2>3, <3>2, <3>3, GotoKeeps DEF Guard, At
  <2> QED
    BY <1>6, <2>1, <2>2, <2>3 DEF Guard
<1>7. ASSUME NEW w \in Worker, Sign(w) \/ Other(w) \/ Fail(w) PROVE IInv'
  <2>1. Answer(w) /\ admins' = admins
    BY <1>7 DEF Sign, Other, Fail
  <2>2. tokens' \subseteq Admin
    BY <1>1, <1>7 DEF Sign, Other, Fail, At, IInv, SenderKnown
  <2> QED
    BY <2>1, <2>2, AnswerKeeps
<1>8. ASSUME NEW w \in Worker, NEW op, NEW a \in Admin, NEW e \in BOOLEAN, Refused(w, op, a, e) PROVE IInv'
  BY <1>1, <1>8, AnswerKeeps DEF Refused
<1>9. ASSUME NEW w \in Worker, ChangeWrite(w) PROVE IInv'
  <2>1. PICK p \in Password : Store(w, req[w].actor, [admins[req[w].actor] EXCEPT !.password = p, !.changed = TRUE])
    BY <1>9 DEF ChangeWrite
  <2>2. req[w].actor \in Admin /\ admins[req[w].actor] # NoRow
    BY <1>9 DEF ChangeWrite, At, IInv, SenderKnown
  <2> DEFINE row == [admins[req[w].actor] EXCEPT !.password = p, !.changed = TRUE]
  <2>4. row \in Account /\ row.changed
    BY <1>1, <2>2 DEF Account
  <2> HIDE DEF row
  <2> QED
    BY <2>1, <2>2, <2>4, StoreKeeps DEF row
<1>10. ASSUME NEW w \in Worker, NEW a \in Admin, Create(w, a) PROVE IInv'
  <2>1. CASE Refused(w, "create", a, TRUE)
    BY <1>8, <2>1
  <2>2. ASSUME NEW p \in Password, NEW r \in Role, admins[a] = NoRow,
               Store(w, a, [status |-> "active", role |-> r, password |-> p, changed |-> FALSE])
        PROVE  IInv'
    <3> DEFINE row == [status |-> "active", role |-> r, password |-> p, changed |-> FALSE]
    <3>1. row \in Account /\ ~admins[a].changed
      BY <2>2 DEF Account, NoRow
    <3> HIDE DEF row
    <3> QED
      BY <2>2, <3>1, StoreKeeps DEF row
  <2> QED
    BY <1>10, <2>1, <2>2 DEF Create
<1>11. ASSUME NEW w \in Worker, NEW a \in Admin, UpdateStatus(w, a) PROVE IInv'
  <2>1. CASE Refused(w, "status", a, FALSE)
    BY <1>8, <2>1
  <2>2. ASSUME NEW s \in {"active", "disabled"}, admins[a] # NoRow, Store(w, a, [admins[a] EXCEPT !.status = s])
        PROVE  IInv'
    <3>1. admins[a] \in Account
      BY <1>1, <2>2
    <3>2. /\ [admins[a] EXCEPT !.status = s] \in Account
          /\ admins[a].changed => [admins[a] EXCEPT !.status = s].changed
      BY <2>2, <3>1 DEF Account
    <3> QED
      BY <2>2, <3>2, StoreKeeps
  <2> QED
    BY <1>11, <2>1, <2>2 DEF UpdateStatus
<1>12. ASSUME NEW w \in Worker, NEW a \in Admin, UpdateRole(w, a) PROVE IInv'
  <2>1. CASE Refused(w, "role", a, FALSE)
    BY <1>8, <2>1
  <2>2. ASSUME NEW r \in Role, admins[a] # NoRow, Store(w, a, [admins[a] EXCEPT !.role = r])
        PROVE  IInv'
    <3>1. admins[a] \in Account
      BY <1>1, <2>2
    <3>2. /\ [admins[a] EXCEPT !.role = r] \in Account
          /\ admins[a].changed => [admins[a] EXCEPT !.role = r].changed
      BY <2>2, <3>1 DEF Account
    <3> QED
      BY <2>2, <3>2, StoreKeeps
  <2> QED
    BY <1>12, <2>1, <2>2 DEF UpdateRole
<1>13. ASSUME NEW a \in Admin, Expire(a) PROVE IInv'
  BY <1>1, <1>13 DEF Expire, IInv, AdminTypeOK, SenderKnown, Noted, Permitted, LateAdminRefused, PasswordFirst, At
<1> QED
  BY <1>2, <1>3, <1>4, <1>5, <1>6, <1>7, <1>9, <1>10, <1>11, <1>12, <1>13 DEF Next, Handle

LEMMA Invariant == Spec => []IInv
BY InitInvariant, NextInvariant, PTL DEF Spec

\* The accounts, tokens and requests are always ones the code produces.
THEOREM AdminTypeCorrect == Spec => []AdminTypeOK
<1>1. IInv => AdminTypeOK
  BY DEF IInv
<1> QED
  BY <1>1, Invariant, PTL

\* No request acts that its sender was at no moment entitled to: however many
\* tokens, accounts and requests there are, a disabled or demoted administrator
\* gets at most done what the guard had let pass before.
THEOREM LateRefused == Spec => []LateAdminRefused
<1>1. IInv => LateAdminRefused
  BY DEF IInv
<1> QED
  BY <1>1, Invariant, PTL

\* With the password of its creation nobody uses the administration API.
THEOREM PasswordIsChosenFirst == Spec => []PasswordFirst
<1>1. IInv => PasswordFirst
  BY DEF IInv
<1> QED
  BY <1>1, Invariant, PTL

\* In a lockout no request to manage accounts is or comes past the guard, and
\* what else is stored leaves status and role alone.
LEMMA LockoutKept ==
    ASSUME IInv, Supers = {}, UnderWay = {}, Next
    PROVE  Supers' = {} /\ UnderWay' = {}
<1>1. /\ admins \in [Admin -> Account \union {NoRow}]
      /\ req \in [Worker -> Request]
  BY DEF IInv, AdminTypeOK
<1>2. ASSUME NEW w \in Worker, NEW r, r.pc = "write" => r.op \notin Managing, req' = [req EXCEPT ![w] = r], admins' = admins
      PROVE  Supers' = {} /\ UnderWay' = {}
  BY <1>1, <1>2 DEF Supers, UnderWay, At
<1>3. ASSUME NEW w \in Worker, Answer(w), admins' = admins
      PROVE  Supers' = {} /\ UnderWay' = {}
  BY <1>2, <1>3 DEF Answer, Idle
<1>4. ASSUME NEW w \in Worker, NEW pc, Goto(w, pc), req[w].op \notin Managing, admins' = admins
      PROVE  Supers' = {} /\ UnderWay' = {}
  <2> DEFINE r == [req[w] EXCEPT !.pc = pc]
  <2>1. req' = [req EXCEPT ![w] = r] /\ r.op = req[w].op
    BY <1>1, <1>4 DEF Goto, Request
  <2> HIDE DEF r
  <2> QED
    BY <1>2, <1>4, <2>1
<1>5. ASSUME NEW w \in Worker, ArriveLogin(w) PROVE Supers' = {} /\ UnderWay' = {}
  <2>1. PICK a \in Admin, p \in Password :
           Begin(w, [Idle EXCEPT !.op = "login", !.pc = "find", !.actor = a, !.old = p])
    BY <1>5 DEF ArriveLogin
  <2> DEFINE q == [Idle EXCEPT !.op = "login", !.pc = "find", !.actor = a, !.old = p]
  <2>2. [q EXCEPT !.once = Permitted(admins, q)].pc = "find"
    BY DEF Idle
  <2> QED
    BY <1>2, <1>5, <2>1, <2>2 DEF Begin, ArriveLogin
<1>6. ASSUME NEW w \in Worker, Arrive(w) PROVE Supers' = {} /\ UnderWay' = {}
  <2>1. PICK op \in Op, a \in tokens : \E p \in IF op = "change" THEN Password ELSE {None} :
           Begin(w, [op |-> op, pc |-> "guard", actor |-> a, old |-> p, once |-> FALSE])
    BY <1>6 DEF Arrive
  <2>2. PICK p : Begin(w, [op |-> op, pc |-> "guard", actor |-> a, old |-> p, once |-> FALSE])
    BY <2>1
  <2> DEFINE q == [op |-> op, pc |-> "guard", actor |-> a, old |-> p, once |-> FALSE]
  <2>3. [q EXCEPT !.once = Permitted(admins, q)].pc = "guard"
    OBVIOUS
  <2> QED
    BY <1>2, <1>6, <2>2, <2>3 DEF Begin, Arrive
<1>7. ASSUME NEW w \in Worker, Login(w) \/ ChangeFind(w) \/ Sign(w) \/ Other(w) \/ Fail(w)
      PROVE  Supers' = {} /\ UnderWay' = {}
  <2>1. admins' = admins /\ (Answer(w) \/ (Goto(w, "write") /\ req[w].op \in {"login", "change"}))
    BY <1>7 DEF Login, ChangeFind, Sign, Other, Fail
  <2> QED
    BY <1>3, <1>4, <2>1 DEF Managing
<1>8. ASSUME NEW w \in Worker, Guard(w) PROVE Supers' = {} /\ UnderWay' = {}
  <2>1. CASE Answer(w)
    BY <1>3, <1>8, <2>1 DEF Guard
  <2>2. CASE Admitted(req[w]) /\ Goto(w, IF req[w].op = "change" THEN "find" ELSE "write")
    <3>1. req[w].actor \in Admin
      BY <1>8 DEF Guard, At, IInv, SenderKnown
    <3>2. req[w].op \notin Managing
      <4> SUFFICES ASSUME req[w].op \in Managing PROVE FALSE
        OBVIOUS
      <4>1. Roles(req[w].op) = {"super_admin"}
        BY DEF Roles, Managing
      <4>2. admins[req[w].actor].status = "active" /\ admins[req[w].actor].role = "super_admin"
        BY <2>2, <4>1 DEF Admitted
      <4> QED
        BY <3>1, <4>2 DEF Supers
    <3> QED
      BY <1>4, <1>8, <2>2, <3>2 DEF Guard
  <2> QED
    BY <1>8, <2>1, <2>2 DEF Guard
<1>9. ASSUME NEW w \in Worker, ChangeWrite(w) PROVE Supers' = {} /\ UnderWay' = {}
  <2>1. PICK p \in Password : Store(w, req[w].actor, [admins[req[w].actor] EXCEPT !.password = p, !.changed = TRUE])
    BY <1>9 DEF ChangeWrite
  <2>2. req[w].actor \in Admin /\ admins[req[w].actor] \in Account
    BY <1>1, <1>9 DEF ChangeWrite, At, IInv, SenderKnown
  <2>3. \A a \in Admin : admins'[a].status = admins[a].status /\ admins'[a].role = admins[a].role
    BY <1>1, <2>1, <2>2 DEF Store, Account
  <2>4. \A x \in Worker : req'[x].pc = "write" => req[x].pc = "write" /\ req'[x].op = req[x].op
    <3> SUFFICES ASSUME NEW x \in Worker PROVE req'[x].pc = "write" => req[x].pc = "write" /\ req'[x].op = req[x].op
      OBVIOUS
    <3> DEFINE o == req[x].once \/ (req[x] # Idle /\ Permitted(admins', req[x]))
    <3>1. req'[x] = IF x = w THEN Idle ELSE [req[x] EXCEPT !.once = o]
      BY <2>1 DEF Store
    <3> HIDE DEF o
    <3> QED
      BY <1>1, <3>1 DEF Idle, Request
  <2> QED
    BY <2>3, <2>4 DEF Supers, UnderWay, At
<1>10. ASSUME NEW w \in Worker, NEW a \in Admin, Create(w, a) \/ UpdateStatus(w, a) \/ UpdateRole(w, a)
       PROVE  Supers' = {} /\ UnderWay' = {}
  BY <1>10 DEF Create, UpdateStatus, UpdateRole, Refused, UnderWay, Managing, At
<1>11. ASSUME NEW a \in Admin, Expire(a) PROVE Supers' = {} /\ UnderWay' = {}
  BY <1>11 DEF Expire, Supers, UnderWay, At
<1> QED
  BY <1>5, <1>6, <1>7, <1>8, <1>9, <1>10, <1>11 DEF Next, Handle

\* Once nobody can manage accounts, nobody ever can again.
THEOREM LockoutForGood == Spec => LockoutIsFinal
<1>1. IInv /\ Next => (Supers = {} /\ UnderWay = {} => Supers' = {} /\ UnderWay' = {})
  BY LockoutKept
<1> QED
  BY <1>1, Invariant, PTL DEF Spec, LockoutIsFinal
=============================================================================

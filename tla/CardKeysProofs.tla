-------------------------- MODULE CardKeysProofs --------------------------
(***************************************************************************)
(* What holds of CardKeys for every number of requests and licence ids and *)
(* every number of card rows.                                              *)
(***************************************************************************)
EXTENDS CardKeys, FiniteSetTheorems, TLAPS

\* At most one transaction holds a licence it has not committed, and none when
\* a committed licence has the hash.
Uncommitted ==
    /\ \A w \in Worker : req[w].inserted # None <=> req[w].pc \in {"tx_mark", "tx_commit"}
    /\ \A v, w \in Worker : req[v].inserted # None /\ req[w].inserted # None => v = w
    /\ \A w \in Worker : req[w].inserted # None => licenses = {} /\ product # "gone"

\* Row ids were handed out; the row a transaction has marked is still there.
Rows ==
    /\ card.id <= created
    /\ \A w \in Worker :
          /\ req[w].pc \in {"tx_read", "tx_insert", "tx_mark", "tx_commit"} => req[w].row \in 1 .. created
          /\ req[w].pc = "tx_commit" => card.id = req[w].row
    /\ \A l \in licenses : l.card # None => l.card <= created

\* One committed licence, and every answer is of it, while there is a product.
Served ==
    /\ \A l, m \in licenses : l = m
    /\ \A a, b \in answers : a = b
    /\ product # "gone" => \A a \in answers : \E l \in licenses : l.id = a

\* A late request has not passed the first look at the card.
Lates == \A w \in Worker : req[w].late => req[w].pc \in {"find", "read"} /\ ~Redeemable

Gone == product = "gone" => licenses = {} /\ card = NoCard

CardInv == CardTypeOK /\ Uncommitted /\ Rows /\ Served /\ Lates /\ Gone /\ CardNamesLicense

\* How a request changes in a step of a worker.
LEMMA Moves ==
    ASSUME CardInv, NEW w \in Worker, Arrive(w) \/ Step(w) \/ Fail(w)
    PROVE  /\ req' = [req EXCEPT ![w] = req'[w]]
           /\ req'[w] \in Request
           /\ \A v \in Worker \ {w} : req'[v] = req[v]
           /\ UNCHANGED <<product, created, removal>>
           /\ (Step(w) /\ ~TxCommit(w)) \/ Arrive(w) \/ Fail(w) => UNCHANGED <<card, licenses>>
<1> USE CardAssumption DEF CardInv, CardTypeOK
<1>1. Idle \in Request /\ card.id \in 0 .. MaxCards /\ req[w] \in Request
  BY DEF Idle, Request, NoCard, CardRow
<1>2. UNCHANGED <<product, created, removal>> /\ ((Step(w) /\ ~TxCommit(w)) \/ Arrive(w) \/ Fail(w) => UNCHANGED <<card, licenses>>)
  BY DEF Arrive, Step, Fail, Find, Read, TxRead, TxInsert, TxMark, TxCommit, tables
<1>3. PICK r \in Request : req' = [req EXCEPT ![w] = r]
  <2>1. CASE Arrive(w)
    <3>1. Redeemable \in BOOLEAN
      BY DEF Redeemable
    <3> DEFINE r == [Idle EXCEPT !.pc = "find", !.late = ~Redeemable]
    <3>2. r \in Request
      BY <1>1, <3>1 DEF Request
    <3> QED BY <2>1, <3>2 DEF Arrive
  <2>2. CASE req' = [req EXCEPT ![w] = Idle]
    BY <1>1, <2>2
  <2>3. ASSUME NEW pc \in {"read", "tx_insert", "tx_commit"}, Goto(w, pc)
        PROVE  \E r \in Request : req' = [req EXCEPT ![w] = r]
    <3> DEFINE r == [req[w] EXCEPT !.pc = pc]
    <3>1. r \in Request
      BY <1>1 DEF Request
    <3> QED BY <2>3, <3>1 DEF Goto
  <2>4. CASE req' = [req EXCEPT ![w] = [@ EXCEPT !.pc = "tx_read", !.row = card.id]]
    <3> DEFINE r == [req[w] EXCEPT !.pc = "tx_read", !.row = card.id]
    <3>1. r \in Request
      BY <1>1 DEF Request
    <3> QED BY <2>4, <3>1
  <2>5. ASSUME NEW l \in LicenseId, req' = [req EXCEPT ![w] = [@ EXCEPT !.pc = "tx_mark", !.inserted = l, !.usable = Sellable]]
        PROVE  \E r \in Request : req' = [req EXCEPT ![w] = r]
    <3> DEFINE r == [req[w] EXCEPT !.pc = "tx_mark", !.inserted = l, !.usable = Sellable]
    <3>1. r \in Request
      BY <1>1 DEF Request, Sellable
    <3> QED BY <2>5, <3>1
  <2> QED BY <2>1, <2>2, <2>3, <2>4, <2>5
          DEF Step, Fail, Find, Read, TxRead, TxInsert, TxMark, TxCommit, Refuse, Serve
<1> QED BY <1>2, <1>3

\* What each step of a request asks for and does to it.
LEMMA Outcomes ==
    ASSUME CardInv, NEW w \in Worker, Arrive(w) \/ Step(w) \/ Fail(w)
    PROVE  LET old == req[w]
               new == req'[w]
           IN
           \/ new.pc = "idle" /\ new.inserted = None /\ ~new.late
           \/ new.pc = "find" /\ new.inserted = None /\ (new.late => ~Redeemable)
           \/ old.pc = "find" /\ new.pc = "read" /\ new.inserted = old.inserted /\ new.late = old.late
           \/ /\ old.pc = "read" /\ new.pc = "tx_read" /\ new.inserted = old.inserted /\ new.late = old.late
              /\ Redeemable /\ new.row = card.id
           \/ /\ old.pc = "tx_read" /\ new.pc = "tx_insert" /\ new.inserted = old.inserted /\ new.late = old.late
              /\ new.row = old.row
           \/ /\ old.pc = "tx_insert" /\ new.pc = "tx_mark" /\ new.inserted # None /\ new.late = old.late
              /\ new.row = old.row /\ Inserting = {} /\ licenses = {} /\ product # "gone"
           \/ /\ old.pc = "tx_mark" /\ new.pc = "tx_commit" /\ new.inserted = old.inserted /\ new.late = old.late
              /\ new.row = old.row /\ card.id = old.row
<1> USE CardAssumption DEF CardInv, CardTypeOK, At
<1>1. CASE req'[w] = Idle
  BY <1>1 DEF Idle
<1>2. CASE Arrive(w)
  BY <1>2 DEF Arrive, Idle
<1>3. CASE Find(w)
  BY <1>1, <1>3 DEF Find, Goto, Serve, Request
<1>4. CASE Read(w)
  <2>1. CASE req' = [req EXCEPT ![w] = [@ EXCEPT !.pc = "tx_read", !.row = card.id]] /\ Sellable /\ Unspent
    BY <1>4, <2>1 DEF Read, Sellable, Redeemable, Request
  <2>2. (Refuse(w) \/ Serve(w, card.license, Sellable)) => req' = [req EXCEPT ![w] = Idle]
    BY DEF Refuse, Serve
  <2>3. CASE req' = [req EXCEPT ![w] = Idle]
    BY <1>1, <2>3
  <2> QED BY <1>4, <2>1, <2>2, <2>3 DEF Read
<1>5. CASE TxRead(w)
  BY <1>1, <1>5 DEF TxRead, Refuse, Goto, Serve, Request
<1>6. CASE TxInsert(w)
  <2>1. ASSUME NEW l \in LicenseId,
               req' = [req EXCEPT ![w] = [@ EXCEPT !.pc = "tx_mark", !.inserted = l, !.usable = Sellable]]
        PROVE  req'[w].pc = "tx_mark" /\ req'[w].inserted # None /\ req'[w].late = req[w].late /\ req'[w].row = req[w].row
    BY <2>1 DEF Request
  <2>2. \/ req' = [req EXCEPT ![w] = Idle]
        \/ /\ Inserting = {} /\ licenses = {} /\ product # "gone"
           /\ \E l \in LicenseId :
                 req' = [req EXCEPT ![w] = [@ EXCEPT !.pc = "tx_mark", !.inserted = l, !.usable = Sellable]]
    BY <1>6 DEF TxInsert, Refuse, Duplicate
  <2>3. req[w].pc = "tx_insert"
    BY <1>6 DEF TxInsert
  <2> QED BY <1>1, <2>1, <2>2, <2>3
<1>7. CASE TxMark(w)
  BY <1>1, <1>7 DEF TxMark, Refuse, Goto, Request
<1>8. CASE TxCommit(w) \/ Fail(w)
  BY <1>1, <1>8 DEF TxCommit, Fail, Refuse, Serve
<1> QED BY <1>2, <1>3, <1>4, <1>5, <1>6, <1>7, <1>8 DEF Step

\* What a commit finds and does.
LEMMA Commits ==
    ASSUME CardInv, NEW w \in Worker, TxCommit(w)
    PROVE  /\ req[w].inserted \in LicenseId /\ req[w].row \in 1 .. created
           /\ card \in CardRow /\ card.id = req[w].row /\ card' \in CardRow /\ card'.id = card.id
           /\ card'.license = req[w].inserted /\ card'.status = "redeemed"
           /\ licenses = {} /\ product # "gone" /\ answers = {}
           /\ licenses' = {[id |-> req[w].inserted, card |-> req[w].row]}
           /\ answers' \subseteq {req[w].inserted}
           /\ req'[w] = Idle
<1> USE CardAssumption DEF CardInv, CardTypeOK, TxCommit, At
<1>1. req[w] \in Request /\ req[w].inserted # None /\ req[w].row \in 1 .. created /\ card.id = req[w].row
  BY DEF Uncommitted, Rows
<1>2. req[w].inserted \in LicenseId /\ licenses = {} /\ product # "gone"
  BY <1>1 DEF Request, Uncommitted
<1>3. card \in CardRow
  BY <1>1 DEF NoCard
<1>4. answers = {}
  BY <1>2 DEF Served
<1>5. card' = [card EXCEPT !.status = "redeemed", !.license = req[w].inserted]
  OBVIOUS
<1>6. card' \in CardRow /\ card'.id = card.id /\ card'.license = req[w].inserted /\ card'.status = "redeemed"
  BY <1>2, <1>3, <1>5 DEF CardRow, CardStatus
<1>7. licenses' = {[id |-> req[w].inserted, card |-> req[w].row]} /\ answers' \subseteq {req[w].inserted} /\ req'[w] = Idle
  BY <1>2, <1>4 DEF Serve
<1> QED BY <1>1, <1>2, <1>3, <1>4, <1>6, <1>7

\* What a request that is served without a commit is served with.
LEMMA Serves ==
    ASSUME CardInv, NEW w \in Worker, Arrive(w) \/ (Step(w) /\ ~TxCommit(w)) \/ Fail(w)
    PROVE  answers' = answers \/ \E l \in licenses : answers' = answers \union {l.id}
<1> USE DEF CardInv, Serve, Refuse
<1>1. card.license # None => \E l \in licenses : l.id = card.license
  BY DEF CardNamesLicense
<1>2. CASE Find(w)
  BY <1>2 DEF Find
<1>3. CASE Read(w) \/ TxRead(w)
  BY <1>1, <1>3 DEF Read, TxRead
<1>4. CASE Arrive(w) \/ Fail(w) \/ TxInsert(w) \/ TxMark(w)
  BY <1>4 DEF Arrive, Fail, TxInsert, TxMark
<1> QED BY <1>2, <1>3, <1>4 DEF Step

\* Requests keep the invariant.
LEMMA RequestStep ==
    ASSUME CardInv, NEW w \in Worker, Arrive(w) \/ Step(w) \/ Fail(w)
    PROVE  CardInv'
<1> USE CardAssumption DEF CardInv
<1>1. CASE TxCommit(w)
  <2>1. CardTypeOK'
    BY <1>1, Moves, Commits DEF CardTypeOK, License
  <2>2. Uncommitted'
    BY <1>1, Moves, Commits DEF Uncommitted, Idle
  <2>3. Rows'
    BY <1>1, Moves, Commits DEF Rows, Idle, CardTypeOK, Uncommitted
  <2>4. Served'
    <3> DEFINE l == [id |-> req[w].inserted, card |-> req[w].row]
    <3>1. l.id = req[w].inserted /\ licenses' = {l} /\ answers' \subseteq {l.id}
      BY <1>1, Commits
    <3> HIDE DEF l
    <3> QED BY <3>1 DEF Served
  <2>5. Lates'
    BY <1>1, Moves, Commits DEF Lates, Idle, Redeemable, Unspent
  <2>6. Gone' /\ CardNamesLicense'
    BY <1>1, Moves, Commits DEF Gone, CardNamesLicense
  <2> QED BY <2>1, <2>2, <2>3, <2>4, <2>5, <2>6
<1>2. CASE ~TxCommit(w)
  <2>1. UNCHANGED <<product, card, licenses, created, removal>>
    BY <1>2, Moves
  <2>2. answers' = answers \/ \E l \in licenses : answers' = answers \union {l.id}
    BY <1>2, Serves
  <2>3. CardTypeOK'
    BY <2>1, <2>2, Moves DEF CardTypeOK, License
  <2>4. Uncommitted'
    BY <2>1, Moves, Outcomes DEF Uncommitted, Inserting
  <2>5. Rows'
    BY <2>1, Moves, Outcomes DEF Rows, Redeemable, Unspent, NoCard, CardRow, CardTypeOK
  <2>6. Served'
    BY <2>1, <2>2 DEF Served, Gone
  <2>7. Lates'
    BY <2>1, Moves, Outcomes DEF Lates, Redeemable, Unspent
  <2>8. Gone' /\ CardNamesLicense'
    BY <2>1 DEF Gone, CardNamesLicense
  <2> QED BY <2>3, <2>4, <2>5, <2>6, <2>7, <2>8
<1> QED BY <1>1, <1>2

\* When administrators make the card redeemable no request stays late.
LEMMA Reconsidered ==
    ASSUME CardInv, Reconsider
    PROVE  /\ req' \in [Worker -> Request]
           /\ \A w \in Worker :
                 /\ req'[w].pc = req[w].pc /\ req'[w].row = req[w].row /\ req'[w].inserted = req[w].inserted
                 /\ req'[w].late => req[w].late /\ ~Redeemable'
<1> USE DEF CardInv, CardTypeOK, Reconsider
<1>1. Redeemable' \in BOOLEAN
  BY DEF Redeemable
<1>2. ASSUME NEW w \in Worker
      PROVE  /\ req'[w] \in Request
             /\ req'[w].pc = req[w].pc /\ req'[w].row = req[w].row /\ req'[w].inserted = req[w].inserted
             /\ req'[w].late => req[w].late /\ ~Redeemable'
  BY <1>1 DEF Request
<1> QED BY <1>2

\* A change of the card or the product by an administrator keeps what is said
\* of requests.
LEMMA RequestsKept ==
    ASSUME CardInv, Reconsider, UNCHANGED <<licenses, removal, answers>>, product' # "gone", created' >= created,
           product # "gone", created' \in Nat, \A w \in Worker : req[w].pc = "tx_commit" => card'.id = card.id
    PROVE  Uncommitted' /\ Lates' /\ Served' /\ Gone' /\
           (\A w \in Worker :
              /\ req'[w].pc \in {"tx_read", "tx_insert", "tx_mark", "tx_commit"} => req'[w].row \in 1 .. created'
              /\ req'[w].pc = "tx_commit" => card'.id = req'[w].row)
<1> USE DEF CardInv
<1>1. Uncommitted' /\ Served' /\ Gone'
  BY Reconsidered DEF Uncommitted, Served, Gone
<1>2. Lates'
  BY Reconsidered DEF Lates
<1>3. created \in Nat
  BY CardAssumption DEF CardTypeOK
<1> QED BY <1>1, <1>2, <1>3, Reconsidered DEF Rows

\* Administrators keep the invariant.
LEMMA AdminStep ==
    ASSUME CardInv,
           \/ \E s \in CardStatus : CreateCard(s) \/ SetCardStatus(s)
           \/ DeleteCard \/ SetProduct
           \/ \E l \in LicenseId : CreateLicense(l)
    PROVE  CardInv'
<1> USE CardAssumption DEF CardInv
<1>1. card.id \in 0 .. created /\ created \in 0 .. MaxCards /\ (card # NoCard => card \in CardRow /\ product # "gone")
  BY DEF CardTypeOK, Rows, NoCard, CardRow, Gone
<1>2. ASSUME NEW s \in CardStatus, CreateCard(s) PROVE CardInv'
  <2>1. /\ card' = [id |-> created + 1, status |-> s, license |-> None] /\ created' = created + 1 /\ created < MaxCards
        /\ card = NoCard /\ product # "gone" /\ Reconsider /\ UNCHANGED <<product, licenses, removal, answers>>
    BY <1>2 DEF CreateCard
  <2>2. \A w \in Worker : req[w].pc # "tx_commit"
    BY <2>1 DEF Rows, NoCard
  <2>3. card' \in CardRow /\ card'.id = created + 1 /\ card'.license = None
    BY <1>1, <2>1 DEF CardRow
  <2>4. \A l \in licenses : l.card # None => l.card \in 1 .. created
    BY DEF Rows, CardTypeOK, License
  <2>5. CardTypeOK'
    BY <1>1, <2>1, <2>3, Reconsidered DEF CardTypeOK
  <2>6. Rows' /\ CardNamesLicense'
    BY <1>1, <2>1, <2>2, <2>3, <2>4, RequestsKept DEF Rows, CardNamesLicense
  <2> QED BY <1>1, <2>1, <2>2, <2>5, <2>6, RequestsKept
<1>3. ASSUME NEW s \in CardStatus, SetCardStatus(s) PROVE CardInv'
  <2>1. card' = [card EXCEPT !.status = s] /\ card \in CardRow /\ product # "gone" /\ Reconsider
        /\ UNCHANGED <<product, licenses, created, removal, answers>>
    BY <1>1, <1>3 DEF SetCardStatus
  <2>2. card' \in CardRow /\ card'.id = card.id /\ card'.license = card.license
    BY <2>1 DEF CardRow
  <2>3. CardTypeOK'
    BY <2>1, <2>2, Reconsidered DEF CardTypeOK
  <2>4. Rows' /\ CardNamesLicense'
    BY <1>1, <2>1, <2>2, RequestsKept DEF Rows, CardNamesLicense
  <2> QED BY <1>1, <2>1, <2>2, <2>3, <2>4, RequestsKept
<1>4. CASE DeleteCard
  <2>1. card' = NoCard /\ ~CardLocked /\ UNCHANGED <<product, licenses, created, req, removal, answers>>
    BY <1>4 DEF DeleteCard
  <2>2. \A w \in Worker : req[w].pc # "tx_commit"
    BY <2>1 DEF CardLocked
  <2>3. card'.id = 0 /\ card'.license = None /\ card'.status = "none"
    BY <2>1 DEF NoCard
  <2>4. CardTypeOK' /\ Uncommitted' /\ Served' /\ Gone'
    BY <2>1 DEF CardTypeOK, Uncommitted, Served, Gone
  <2>5. Rows' /\ Lates'
    BY <1>1, <2>1, <2>2, <2>3 DEF Rows, Lates, Redeemable, Unspent
  <2>6. CardNamesLicense'
    BY <2>1, <2>3 DEF CardNamesLicense, CardTypeOK, License
  <2> QED BY <2>4, <2>5, <2>6
<1>5. CASE SetProduct
  <2>1. product # "gone" /\ product' \in {"active", "disabled"} /\ Reconsider
        /\ UNCHANGED <<card, licenses, created, removal, answers>>
    BY <1>5 DEF SetProduct
  <2>2. CardTypeOK'
    BY <2>1, Reconsidered DEF CardTypeOK
  <2>3. Rows' /\ CardNamesLicense'
    BY <1>1, <2>1, RequestsKept DEF Rows, CardNamesLicense
  <2> QED BY <1>1, <2>1, <2>2, <2>3, RequestsKept
<1>6. ASSUME NEW l \in LicenseId, CreateLicense(l) PROVE CardInv'
  <2> DEFINE m == [id |-> l, card |-> None]
  <2>1. m \in License /\ m.id = l /\ m.card = None
    BY DEF License
  <2>2. licenses' = {m} /\ licenses = {} /\ Inserting = {} /\ product # "gone"
        /\ UNCHANGED <<product, card, created, req, removal, answers>>
    BY <1>6 DEF CreateLicense
  <2> HIDE DEF m
  <2>3. CardTypeOK'
    BY <2>1, <2>2 DEF CardTypeOK
  <2>4. Uncommitted' /\ Rows' /\ Served' /\ Lates' /\ Gone'
    BY <2>1, <2>2 DEF Uncommitted, Inserting, Rows, Served, Lates, Gone, Redeemable, Unspent
  <2>5. CardNamesLicense'
    BY <1>1, <2>1, <2>2 DEF CardNamesLicense
  <2> QED BY <2>3, <2>4, <2>5
<1> QED BY <1>2, <1>3, <1>4, <1>5, <1>6

\* The removal keeps the invariant.
LEMMA RemovalStep ==
    ASSUME CardInv, RemoveFind \/ RemoveRows \/ RemoveProduct \/ AbortRemoval
    PROVE  CardInv'
<1> USE CardAssumption DEF CardInv
<1>1. card.id \in 0 .. MaxCards
  BY DEF CardTypeOK, NoCard, CardRow
<1>2. ASSUME UNCHANGED <<product, card, licenses, created, req, answers>>, CardTypeOK' PROVE CardInv'
  BY <1>2 DEF Uncommitted, Rows, Served, Lates, Gone, CardNamesLicense, Redeemable, Unspent
<1>3. CASE RemoveFind
  BY <1>2, <1>3 DEF RemoveFind, CardTypeOK, tables
<1>4. CASE RemoveRows
  BY <1>1, <1>2, <1>4 DEF RemoveRows, CardTypeOK, tables
<1>5. NoRemoval \in [pc : {"idle", "found", "deleted"}, found : SUBSET License, row : 0 .. MaxCards]
  BY DEF NoRemoval
<1>6. CASE AbortRemoval
  BY <1>2, <1>5, <1>6 DEF AbortRemoval, CardTypeOK, tables
<1>7. CASE RemoveProduct
  <2>1. CASE Referenced
    BY <1>2, <1>5, <1>7, <2>1 DEF RemoveProduct, CardTypeOK, tables
  <2>2. CASE ~Referenced
    <3>1. product' = "gone" /\ licenses' = {} /\ card' = NoCard /\ Inserting = {} /\ removal' = NoRemoval
          /\ UNCHANGED <<created, req, answers>>
      BY <1>7, <2>2 DEF RemoveProduct, Referenced
    <3>2. card'.id = 0 /\ card'.license = None /\ card'.status = "none"
      BY <3>1 DEF NoCard
    <3>3. CardTypeOK'
      BY <1>5, <3>1 DEF CardTypeOK
    <3>4. \A w \in Worker : req[w].inserted = None /\ req[w].pc # "tx_commit"
      BY <3>1 DEF Inserting, Uncommitted
    <3>5. Uncommitted' /\ Rows' /\ Served' /\ Lates' /\ Gone' /\ CardNamesLicense'
      BY <3>1, <3>2, <3>4 DEF Uncommitted, Rows, Served, Lates, Gone, CardNamesLicense, Redeemable, CardTypeOK
    <3> QED BY <3>3, <3>5
  <2> QED BY <2>1, <2>2
<1> QED BY <1>3, <1>4, <1>6, <1>7

LEMMA CardInvariant == Spec => []CardInv
<1>1. Init => CardInv
  BY CardAssumption DEF Init, CardInv, CardTypeOK, Uncommitted, Rows, Served, Lates, Gone, CardNamesLicense,
        Idle, Request, NoCard, NoRemoval
<1>2. CardInv /\ [Next]_vars => CardInv'
  <2> SUFFICES ASSUME CardInv, [Next]_vars PROVE CardInv'
    OBVIOUS
  <2>1. CASE UNCHANGED vars
    BY <2>1 DEF vars, CardInv, CardTypeOK, Uncommitted, Rows, Served, Lates, Gone, CardNamesLicense, Redeemable, Unspent
  <2>2. CASE BreakDeadlock
    BY <2>2, RequestStep, RemovalStep DEF BreakDeadlock
  <2> QED BY <2>1, <2>2, RequestStep, AdminStep, RemovalStep DEF Next
<1> QED BY <1>1, <1>2, PTL DEF Spec

\* Every row and request is well formed.
THEOREM CardTypeCorrect == Spec => []CardTypeOK
<1>1. CardInv => CardTypeOK
  BY DEF CardInv
<1> QED BY <1>1, CardInvariant, PTL

\* One key, one licence, whichever requests redeem it at once
\* (LicenseService.redeemCardKey).
THEOREM OneLicense == Spec => []OneLicensePerKey
<1>1. CardInv => OneLicensePerKey
  <2> SUFFICES ASSUME CardInv PROVE OneLicensePerKey
    OBVIOUS
  <2> DEFINE S == answers \union {l.id : l \in licenses}
  <2>1. \A a, b \in S : a = b
    BY DEF CardInv, Served, Gone
  <2> HIDE DEF S
  <2>2. CASE S = {}
    BY <2>2, FS_EmptySet DEF S, OneLicensePerKey
  <2>3. CASE S # {}
    <3>1. PICK a : S = {a}
      BY <2>1, <2>3
    <3>2. Cardinality(S) = 1
      BY <3>1, FS_Singleton
    <3> QED BY <3>2 DEF S, OneLicensePerKey
  <2> QED BY <2>2, <2>3
<1> QED BY <1>1, CardInvariant, PTL

\* No redemption is ever half done.
THEOREM WholeRedemptions == Spec => []CardNamesLicense
<1>1. CardInv => CardNamesLicense
  BY DEF CardInv
<1> QED BY <1>1, CardInvariant, PTL

\* A request that arrived at a card that cannot be redeemed makes no licence.
THEOREM LateNeverRedeemed == Spec => []LateNeverRedeems
<1>1. CardInv => LateNeverRedeems
  BY DEF CardInv, Lates, Uncommitted, LateNeverRedeems
<1> QED BY <1>1, CardInvariant, PTL

\* A removed product leaves neither card nor licence, and no redemption under
\* way brings one back.
THEOREM CleanRemoval == Spec => []RemovedForGood
<1>1. CardInv => RemovedForGood
  BY DEF CardInv, Gone, Uncommitted, Inserting, RemovedForGood
<1> QED BY <1>1, CardInvariant, PTL
-----------------------------------------------------------------------------
(* A key implements KeyLife *)

\* The abstract step of a step that changes neither licences nor answers and
\* leaves the product removed, or not.
LEMMA KeyRests ==
    ASSUME UNCHANGED <<licenses, answers>>, product' = "gone" <=> product = "gone"
    PROVE  UNCHANGED Key!keyVars
<1>1. {l.id : l \in licenses'} = {l.id : l \in licenses}
  OBVIOUS
<1>2. (product' = "gone") = (product = "gone")
  OBVIOUS
<1> QED BY <1>1, <1>2 DEF Key!keyVars

\* Who is served gets the licence of the key.
LEMMA KeyServes ==
    ASSUME CardInv, NEW w \in Worker, NEW l \in licenses, NEW usable, Serve(w, l.id, usable),
           UNCHANGED <<licenses, product>>
    PROVE  [Key!KeyNext]_Key!keyVars
<1>1. l.id \in LicenseId /\ l.id \in {m.id : m \in licenses}
  BY DEF CardInv, CardTypeOK, License
<1>2. CASE answers' = answers
  BY <1>2, KeyRests
<1>3. CASE answers' = answers \union {l.id}
  <2>1. Key!Use(l.id)
    BY <1>1, <1>3 DEF Key!Use
  <2> QED BY <1>1, <2>1 DEF Key!KeyNext
<1> QED BY <1>2, <1>3 DEF Serve

LEMMA KeyIssued ==
    ASSUME NEW l \in License, licenses = {}, licenses' = {l}, product # "gone", product' = product,
           answers' \in {answers, answers \union {l.id}}
    PROVE  [Key!KeyNext]_Key!keyVars
<1>1. {m.id : m \in licenses} = {} /\ {m.id : m \in licenses'} = {l.id} /\ l.id \in LicenseId
  BY DEF License
<1>2. Key!Issue(l.id)
  BY <1>1 DEF Key!Issue
<1> QED BY <1>1, <1>2 DEF Key!KeyNext

LEMMA KeyStep == CardInv /\ [Next]_vars => [Key!KeyNext]_Key!keyVars
<1> SUFFICES ASSUME CardInv, [Next]_vars PROVE [Key!KeyNext]_Key!keyVars
  OBVIOUS
<1>1. ASSUME NEW w \in Worker, Find(w) PROVE [Key!KeyNext]_Key!keyVars
  <2>1. CASE \E l \in licenses : Serve(w, l.id, Sellable)
    BY <1>1, <2>1, KeyServes DEF Find, tables
  <2>2. CASE licenses = {} /\ Goto(w, "read") /\ UNCHANGED answers
    BY <1>1, <2>2, KeyRests DEF Find, tables
  <2> QED BY <1>1, <2>1, <2>2 DEF Find
<1>2. ASSUME NEW w \in Worker, Read(w) \/ TxRead(w) PROVE [Key!KeyNext]_Key!keyVars
  <2>1. CASE card.license # None /\ Serve(w, card.license, Sellable)
    <3>1. PICK l \in licenses : l = [id |-> card.license, card |-> card.id]
      BY <2>1 DEF CardInv, CardNamesLicense
    <3>2. Serve(w, l.id, Sellable)
      BY <2>1, <3>1
    <3> QED BY <1>2, <3>2, KeyServes DEF Read, TxRead, tables
  <2>2. CASE UNCHANGED answers
    BY <1>2, <2>2, KeyRests DEF Read, TxRead, tables
  <2> QED BY <1>2, <2>1, <2>2 DEF Read, TxRead, Refuse
<1>3. ASSUME NEW w \in Worker, Arrive(w) \/ TxInsert(w) \/ TxMark(w) \/ Fail(w) PROVE [Key!KeyNext]_Key!keyVars
  BY <1>3, KeyRests DEF Arrive, TxInsert, TxMark, Fail, Refuse, Goto, tables
\* A transaction that commits found no licence and keeps others from making one.
<1>4. ASSUME NEW w \in Worker, TxCommit(w) PROVE [Key!KeyNext]_Key!keyVars
  <2>1. PICK l : l = [id |-> req[w].inserted, card |-> req[w].row]
    OBVIOUS
  <2>2. req[w].inserted \in LicenseId /\ req[w].row \in 1 .. MaxCards /\ licenses = {} /\ product # "gone"
    BY <1>4, CardAssumption DEF TxCommit, At, CardInv, CardTypeOK, Uncommitted, Rows, Request
  <2>3. l \in License
    BY <2>1, <2>2 DEF License
  <2>4. licenses' = {l} /\ product' = product /\ answers' \in {answers, answers \union {l.id}}
    BY <1>4, <2>1, <2>2 DEF TxCommit, Serve
  <2> QED BY <2>2, <2>3, <2>4, KeyIssued
<1>5. ASSUME NEW s \in CardStatus, CreateCard(s) \/ SetCardStatus(s) PROVE [Key!KeyNext]_Key!keyVars
  BY <1>5, KeyRests DEF CreateCard, SetCardStatus
<1>6. CASE DeleteCard \/ SetProduct
  BY <1>6, KeyRests DEF DeleteCard, SetProduct
<1>7. ASSUME NEW l \in LicenseId, CreateLicense(l) PROVE [Key!KeyNext]_Key!keyVars
  <2>1. PICK m : m = [id |-> l, card |-> None]
    OBVIOUS
  <2>2. m \in License
    BY <2>1 DEF License
  <2> QED BY <1>7, <2>1, <2>2, KeyIssued DEF CreateLicense
<1>8. CASE RemoveFind \/ RemoveRows \/ AbortRemoval
  BY <1>8, KeyRests DEF RemoveFind, RemoveRows, AbortRemoval, tables
<1>9. CASE RemoveProduct
  <2>1. CASE UNCHANGED tables
    BY <1>9, <2>1, KeyRests DEF RemoveProduct, tables
  <2>2. CASE ~Referenced /\ product' = "gone" /\ licenses' = licenses \ removal.found
    <3>1. licenses' = {} /\ answers' = answers
      BY <1>9, <2>2 DEF Referenced, RemoveProduct
    <3>2. CASE product = "gone"
      <4>1. licenses' = licenses
        BY <3>1, <3>2 DEF CardInv, Gone
      <4> QED BY <2>2, <3>1, <3>2, <4>1, KeyRests
    <3>3. CASE product # "gone"
      <4>1. {m.id : m \in licenses'} = {}
        BY <3>1
      <4>2. Key!Die
        BY <2>2, <3>1, <3>3, <4>1 DEF Key!Die
      <4> QED BY <4>2 DEF Key!KeyNext
    <3> QED BY <3>2, <3>3
  <2> QED BY <1>9, <2>1, <2>2 DEF RemoveProduct
<1>10. CASE BreakDeadlock
  BY <1>3, <1>8, <1>10 DEF BreakDeadlock
<1>11. CASE UNCHANGED vars
  BY <1>11, KeyRests DEF vars
<1> QED BY <1>1, <1>2, <1>3, <1>4, <1>5, <1>6, <1>7, <1>8, <1>9, <1>10, <1>11 DEF Next, Step

\* Whatever requests, administrators and the removal of the product do between
\* each other, the key behaves like one that gets its licence in one step
\* (LicenseService.redeemCardKey, ProductsController.remove).
THEOREM KeyImplementsLife == Spec => ImplementsKeyLife
<1>1. Init => Key!KeyInit
  BY DEF Init, Key!KeyInit
<1> QED BY <1>1, KeyStep, CardInvariant, PTL DEF Spec, ImplementsKeyLife, Key!KeySpec
=============================================================================

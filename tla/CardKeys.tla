----------------------------- MODULE CardKeys -----------------------------
(***************************************************************************)
(* One card key: its redemption by LicenseService.validateLicense, the     *)
(* administrators' operations on it, and the removal of its product.       *)
(*                                                                         *)
(* A redemption ends in an interactive transaction of several database     *)
(* calls, and so does the removal.  PostgreSQL runs them READ COMMITTED:   *)
(* a call sees what is committed; a written row stays locked until its     *)
(* transaction ends; an insertion waits for an uncommitted one of the same *)
(* key, and so does the deletion of a row that an uncommitted row refers   *)
(* to.  An action is one call with the code up to the next.                *)
(***************************************************************************)
EXTENDS Integers, FiniteSets

CONSTANTS
    Worker,     \* requests the server works on at the same time
    LicenseId,  \* ids of licence rows
    None,       \* null
    MaxCards    \* bound on the card rows ever created for the key

ASSUME CardAssumption == MaxCards \in Nat /\ None \notin LicenseId \union Nat

VARIABLES
    product,   \* "active", "disabled" (or its plan), or "gone" once removed
    card,      \* the committed card_keys row of the key
    licenses,  \* the committed licence rows whose hash is the key's
    created,   \* card rows created so far; numbers them
    req,       \* what each worker is doing
    removal,   \* the removal of the product under way
    answers    \* history: licences that requests with the key were let use

vars == <<product, card, licenses, created, req, removal, answers>>
tables == <<product, card, licenses, created>>
-----------------------------------------------------------------------------
CardStatus == {"unused", "issued", "redeemed", "disabled"}

\* A licence made by an administrator for a key of his choice has card None.
License == [id : LicenseId, card : (1 .. MaxCards) \union {None}]
CardRow == [id : 1 .. MaxCards, status : CardStatus, license : LicenseId \union {None}]
NoCard == [id |-> 0, status |-> "none", license |-> None]

\* row: the id of the card as first read; inserted: the licence this worker's
\* transaction has inserted; usable: product and plan were active then;
\* late (history): the card could not be redeemed ever since the request arrived.
Idle == [pc |-> "idle", row |-> 0, inserted |-> None, usable |-> FALSE, late |-> FALSE]
Request == [pc : {"idle", "find", "read", "tx_read", "tx_insert", "tx_mark", "tx_commit"}, row : 0 .. MaxCards,
            inserted : LicenseId \union {None}, usable : BOOLEAN, late : BOOLEAN]

NoRemoval == [pc |-> "idle", found |-> {}, row |-> 0]

\* Fault: the status of the product is not looked at.
FaultSellable == TRUE
Sellable == product = "active"
Unspent == card.status \in {"unused", "issued"}
Redeemable == product = "active" /\ Unspent

\* Transactions that others have to wait for.
Inserting == {w \in Worker : req[w].inserted # None}
CardLocked == removal.pc = "deleted" \/ \E w \in Worker : req[w].pc = "tx_commit"

At(w, pc) == req[w].pc = pc
Goto(w, pc) == req' = [req EXCEPT ![w].pc = pc]

\* The request is refused, or fails; a transaction it had begun is rolled back.
Refuse(w) == req' = [req EXCEPT ![w] = Idle] /\ UNCHANGED answers

\* ensureValidLicenseRecord, then the licence is used.
Serve(w, l, usable) ==
    /\ req' = [req EXCEPT ![w] = Idle]
    /\ answers' = IF usable THEN answers \union {l} ELSE answers
-----------------------------------------------------------------------------
(* validateLicense and redeemCardKey *)

Arrive(w) ==
    /\ req[w] = Idle
    /\ req' = [req EXCEPT ![w] = [Idle EXCEPT !.pc = "find", !.late = ~Redeemable]]
    /\ UNCHANGED <<tables, removal, answers>>

\* findLicenseByKey
Find(w) ==
    /\ At(w, "find")
    /\ \/ licenses = {} /\ Goto(w, "read") /\ UNCHANGED answers
       \/ \E l \in licenses : Serve(w, l.id, Sellable)
    /\ UNCHANGED <<tables, removal>>

\* redeemCardKey, before the transaction.
Read(w) ==
    /\ At(w, "read")
    /\ \/ card.license # None /\ Serve(w, card.license, Sellable)
       \/ card.license = None /\ ~(Sellable /\ Unspent) /\ Refuse(w)
       \/ /\ card.license = None /\ Sellable /\ Unspent
          /\ req' = [req EXCEPT ![w] = [@ EXCEPT !.pc = "tx_read", !.row = card.id]]
          /\ UNCHANGED answers
    /\ UNCHANGED <<tables, removal>>

TxRead(w) ==
    /\ At(w, "tx_read")
    /\ \/ card.license # None /\ Serve(w, card.license, Sellable)
       \/ card.license = None /\ ~Unspent /\ Refuse(w)
       \/ card.license = None /\ Unspent /\ Goto(w, "tx_insert") /\ UNCHANGED answers
    /\ UNCHANGED <<tables, removal>>

\* Fault: the key's hash is not unique.
FaultDuplicate == FALSE
Duplicate == licenses # {}

\* Fault: the licence is committed at once.
FaultTxInsert(w) ==
    /\ At(w, "tx_insert")
    /\ Inserting = {}
    /\ \/ (Duplicate \/ product = "gone") /\ Refuse(w) /\ UNCHANGED licenses
       \/ /\ ~Duplicate /\ product # "gone"
          /\ \E l \in LicenseId :
                /\ req' = [req EXCEPT ![w] = [@ EXCEPT !.pc = "tx_mark", !.inserted = l, !.usable = Sellable]]
                /\ licenses' = licenses \union {[id |-> l, card |-> req[w].row]}
          /\ UNCHANGED answers
    /\ UNCHANGED <<product, card, created, removal>>

\* tx.license.create: waits for another worker's licence of the same hash.
TxInsert(w) ==
    /\ At(w, "tx_insert")
    /\ Inserting = {}
    /\ \/ (Duplicate \/ product = "gone") /\ Refuse(w)
       \/ /\ ~Duplicate /\ product # "gone"
          /\ \E l \in LicenseId :
                /\ \A m \in licenses : m.id # l
                /\ req' = [req EXCEPT ![w] = [@ EXCEPT !.pc = "tx_mark", !.inserted = l, !.usable = Sellable]]
          /\ UNCHANGED answers
    /\ UNCHANGED <<tables, removal>>

\* Fault: the error of the update is swallowed inside the transaction.
FaultTxMark(w) ==
    /\ At(w, "tx_mark")
    /\ ~CardLocked
    /\ IF card.id # req[w].row THEN UNCHANGED req ELSE Goto(w, "tx_commit")
    /\ UNCHANGED <<tables, removal, answers>>

\* tx.cardKey.update by the id first read: fails when that row has been deleted.
TxMark(w) ==
    /\ At(w, "tx_mark")
    /\ ~CardLocked
    /\ \/ card.id # req[w].row /\ Refuse(w)
       \/ card.id = req[w].row /\ Goto(w, "tx_commit") /\ UNCHANGED answers
    /\ UNCHANGED <<tables, removal>>

TxCommit(w) ==
    LET l == req[w].inserted IN
    /\ At(w, "tx_commit")
    /\ licenses' = licenses \union {[id |-> l, card |-> req[w].row]}
    /\ card' = [card EXCEPT !.status = "redeemed", !.license = l]
    /\ Serve(w, l, req[w].usable)
    /\ UNCHANGED <<product, created, removal>>

\* A call fails, a transaction times out, or the process stops.
Fail(w) ==
    /\ req[w] # Idle
    /\ Refuse(w)
    /\ UNCHANGED <<tables, removal>>
-----------------------------------------------------------------------------
(* Administrators *)

\* A request is no longer late once the card can be redeemed.
Reconsider == req' = [w \in Worker |-> [req[w] EXCEPT !.late = @ /\ ~Redeemable']]

CreateCard(s) ==
    /\ card = NoCard
    /\ product # "gone" /\ created < MaxCards
    /\ created' = created + 1
    /\ card' = [id |-> created + 1, status |-> s, license |-> None]
    /\ UNCHANGED <<product, licenses, removal, answers>>
    /\ Reconsider

\* PUT card-keys/:id/status takes any status, whatever the card was.
SetCardStatus(s) ==
    /\ card # NoCard /\ ~CardLocked
    /\ card.status # s
    /\ card' = [card EXCEPT !.status = s]
    /\ UNCHANGED <<product, licenses, created, removal, answers>>
    /\ Reconsider

DeleteCard ==
    /\ card # NoCard /\ ~CardLocked
    /\ card' = NoCard
    /\ UNCHANGED <<product, licenses, created, req, removal, answers>>

\* The status of the product, or of the card's plan.
SetProduct ==
    /\ product # "gone"
    /\ product' = IF product = "active" THEN "disabled" ELSE "active"
    /\ UNCHANGED <<card, licenses, created, removal, answers>>
    /\ Reconsider

\* POST admin/licenses with the key as its licenseKey.
CreateLicense(l) ==
    /\ product # "gone" /\ licenses = {} /\ Inserting = {}
    /\ licenses' = {[id |-> l, card |-> None]}
    /\ UNCHANGED <<product, card, created, req, removal, answers>>

\* ProductsController.remove, a transaction: the licences are looked up, ...
RemoveFind ==
    /\ product # "gone" /\ removal = NoRemoval
    /\ removal' = [pc |-> "found", found |-> licenses, row |-> 0]
    /\ UNCHANGED <<tables, req, answers>>

\* Fault: the removal is no transaction, licences are gone at once.
FaultRemoveRows ==
    /\ removal.pc = "found" /\ ~CardLocked
    /\ removal' = [removal EXCEPT !.pc = "deleted", !.row = card.id]
    /\ licenses' = licenses \ removal.found
    /\ UNCHANGED <<product, card, created, req, answers>>

\* ... the cards of the product deleted, then the licences looked up before, ...
RemoveRows ==
    /\ removal.pc = "found" /\ ~CardLocked
    /\ removal' = [removal EXCEPT !.pc = "deleted", !.row = card.id]
    /\ UNCHANGED <<tables, req, answers>>

\* Fault: no foreign key protects the product.
FaultReferenced == FALSE
\* Rows the transaction has not deleted refer to the product.
Referenced == ~(licenses \subseteq removal.found) \/ card.id # removal.row

\* ... and last the product itself, which fails as long as a row refers to it.
RemoveProduct ==
    /\ removal.pc = "deleted" /\ Inserting = {}
    /\ \/ Referenced /\ UNCHANGED tables
       \/ /\ ~Referenced
          /\ product' = "gone"
          /\ licenses' = licenses \ removal.found
          /\ card' = IF card.id = removal.row THEN NoCard ELSE card
          /\ UNCHANGED created
    /\ removal' = NoRemoval
    /\ UNCHANGED <<req, answers>>

AbortRemoval ==
    /\ removal # NoRemoval
    /\ removal' = NoRemoval
    /\ UNCHANGED <<tables, req, answers>>

\* A redemption that has inserted its licence and waits for the card row, and a
\* removal that has deleted that row and waits for the product: one is aborted.
BreakDeadlock ==
    /\ removal.pc = "deleted"
    /\ \E w \in Worker : At(w, "tx_mark") /\ (Fail(w) \/ AbortRemoval)
-----------------------------------------------------------------------------
Init ==
    /\ product = "active" /\ card = NoCard /\ licenses = {} /\ created = 0
    /\ req = [w \in Worker |-> Idle]
    /\ removal = NoRemoval /\ answers = {}

Step(w) == Find(w) \/ Read(w) \/ TxRead(w) \/ TxInsert(w) \/ TxMark(w) \/ TxCommit(w)

Next ==
    \/ \E w \in Worker : Arrive(w) \/ Step(w) \/ Fail(w)
    \/ \E s \in CardStatus : CreateCard(s) \/ SetCardStatus(s)
    \/ DeleteCard \/ SetProduct
    \/ \E l \in LicenseId : CreateLicense(l)
    \/ RemoveFind \/ RemoveRows \/ RemoveProduct \/ AbortRemoval
    \/ BreakDeadlock

Spec == Init /\ [][Next]_vars

\* PostgreSQL serves those who wait for a lock in turn and breaks deadlocks.
FairSpec == Spec /\ (\A w \in Worker : SF_vars(Step(w))) /\ WF_vars(BreakDeadlock)
-----------------------------------------------------------------------------
(* Correctness *)

\* Rows, requests and the removal are ones the code produces.
CardTypeOK ==
    /\ product \in {"active", "disabled", "gone"}
    /\ card \in CardRow \union {NoCard}
    /\ licenses \subseteq License
    /\ created \in 0 .. MaxCards
    /\ req \in [Worker -> Request]
    /\ removal \in [pc : {"idle", "found", "deleted"}, found : SUBSET License, row : 0 .. MaxCards]
    /\ answers \subseteq LicenseId

\* Every request ever served with the key got the same licence: overlapping
\* redemptions, re-created cards and administrators make no second one
\* (redeemCardKey reads the card again and the hash is unique).
OneLicensePerKey == Cardinality(answers \union {l.id : l \in licenses}) <= 1

\* A card names the licence made of it, and a licence made of a card that still
\* exists is named by it: no crash comes between the two (the transaction).
CardNamesLicense ==
    /\ card.license # None => [id |-> card.license, card |-> card.id] \in licenses
    /\ \A l \in licenses : l.card = card.id => card.license = l.id

\* A request that arrived when the card was disabled, spent or missing, or its
\* product or plan disabled, makes no licence unless that is taken back: only a
\* redemption under way can spend a card after it was disabled.
LateNeverRedeems == \A w \in Worker : req[w].late => req[w].inserted = None

\* Nothing of a removed product is left, or comes back, although its removal
\* deletes only what it looked up before (products.controller.ts:44).
RemovedForGood ==
    product = "gone" => licenses = {} /\ card = NoCard /\ Inserting = {}

\* Behind its transactions and locks a key keeps the promises of KeyLife: its
\* licence appears in one step, once, and stays until the product goes
\* (redeemCardKey, ProductsController.remove).
Key == INSTANCE KeyLife WITH
    issued <- {l.id : l \in licenses},
    used <- answers,
    dead <- product = "gone"
ImplementsKeyLife == Key!KeySpec

\* Every request with the key is answered, whatever it has to wait for.
RedemptionEnds == \A w \in Worker : req[w] # Idle ~> req[w] = Idle
=============================================================================

--------------------------- MODULE BackOfficeProofs ---------------------------
(***************************************************************************)
(* Theorems about BackOffice, for any number of reviews, devices, requests *)
(* and packages, every lifetime and every combination of configured keys.  *)
(*                                                                         *)
(* Each invariant speaks of one of the two parts, so a step of the other   *)
(* part, which leaves its variables alone, needs no argument; only the     *)
(* deletion of a product changes both.                                     *)
(***************************************************************************)
EXTENDS BackOffice, FiniteSetTheorems, TLAPS

USE UnbindAssumption, PackageAssumption
-----------------------------------------------------------------------------
(* Unbind requests *)

\* A review under way has a request and a verdict; if its row is gone, so is
\* every device: rows go only with the product.
ReviewsPlaced ==
    \A w \in Worker : review[w].step # "idle" =>
        /\ review[w].request \in Request
        /\ review[w].verdict \in {"approved", "rejected"}
        /\ request[review[w].request].status = "none" => \A d \in Device : device[d].status = "gone"

\* No device an administrator set back has an approval on its way to it.
KeptUnstruck ==
    \A d \in kept : device[d].status = "active" /\ Striking(d) = {}

\* A request's device has its row: both go together.
RequestsHeld ==
    \A r \in Request : request[r].device # None => device[request[r].device].status # "gone"

UnbindInv == UnbindTypeOK /\ ReviewsPlaced /\ KeptUnstruck /\ RequestsHeld

LEMMA UnbindInvInit == UnbindInit => UnbindInv
  BY DEF UnbindInit, UnbindInv, UnbindTypeOK, ReviewsPlaced, KeptUnstruck, RequestsHeld, Idle, Reviewing

LEMMA OpenKeeps ==
    ASSUME UnbindInv, NEW d \in Device, Open(d)
    PROVE  UnbindInv'
<1>1. PICK r \in Rows("none") : request' = [request EXCEPT ![r] = [status |-> "pending", device |-> d]]
  BY DEF Open
<1>2. r \in Request /\ request[r].status = "none"
  BY <1>1 DEF Rows
<1>3. UnbindTypeOK'
  BY <1>1, <1>2 DEF Open, UnbindInv, UnbindTypeOK, Reviewing
\* The row taken is nobody's: had a review it, no device would be left to open it for.
<1>4. \A w \in Worker : review[w].step # "idle" => review[w].request \in Request /\ review[w].request # r
  BY <1>2 DEF Open, UnbindInv, ReviewsPlaced
<1>5. ReviewsPlaced'
  BY <1>1, <1>2, <1>4 DEF Open, UnbindInv, UnbindTypeOK, ReviewsPlaced
<1>6. KeptUnstruck'
  BY <1>1, <1>2, <1>4 DEF Open, UnbindInv, UnbindTypeOK, KeptUnstruck, Striking
<1>7. RequestsHeld'
  BY <1>1, <1>2 DEF Open, UnbindInv, UnbindTypeOK, RequestsHeld
<1> QED BY <1>3, <1>5, <1>6, <1>7 DEF UnbindInv

LEMMA BeginReviewKeeps ==
    ASSUME UnbindInv, NEW w \in Worker, NEW r \in Request, NEW verdict \in {"approved", "rejected"},
           BeginReview(w, r, verdict)
    PROVE  UnbindInv'
  BY DEF BeginReview, UnbindInv, UnbindTypeOK, ReviewsPlaced, KeptUnstruck, RequestsHeld, Striking, Reviewing, Idle

LEMMA StoreVerdictKeeps ==
    ASSUME UnbindInv, NEW w \in Worker, StoreVerdict(w)
    PROVE  UnbindInv'
<1> DEFINE r == review[w].request
<1>1. r \in Request /\ review[w].verdict \in {"approved", "rejected"} /\ review[w].step = "store"
  BY DEF StoreVerdict, UnbindInv, ReviewsPlaced
<1>2. CASE request[r].status # "none"
  <2>1. /\ request' = [request EXCEPT ![r].status = review[w].verdict]
        /\ review' = [review EXCEPT ![w] = IF Strikes(w) THEN [@ EXCEPT !.step = "strike"] ELSE Idle]
        /\ IF review[w].verdict = "approved"
           THEN due' = due \union {r} /\ kept' = kept \ {request[r].device}
           ELSE UNCHANGED <<due, kept>>
        /\ UNCHANGED device
    BY <1>2 DEF StoreVerdict
  <2>2. UnbindTypeOK'
    BY <1>1, <2>1 DEF UnbindInv, UnbindTypeOK, Reviewing, Idle
  <2>3. \A q \in Request : request'[q].device = request[q].device /\ (request'[q].status = "none" <=> request[q].status = "none")
    BY <1>1, <1>2, <2>1 DEF UnbindInv, UnbindTypeOK
  <2>4. ReviewsPlaced'
    BY <1>1, <2>1, <2>3 DEF UnbindInv, UnbindTypeOK, ReviewsPlaced, Reviewing, Idle
  <2>5. \A d \in kept' : d \in kept /\ Striking(d)' \subseteq Striking(d)
    BY <1>1, <2>1, <2>3 DEF UnbindInv, UnbindTypeOK, ReviewsPlaced, Striking, Strikes, Reviewing, Idle
  <2> QED BY <2>1, <2>2, <2>3, <2>4, <2>5 DEF UnbindInv, KeptUnstruck, RequestsHeld
<1>3. CASE request[r].status = "none"
  BY <1>1, <1>3 DEF StoreVerdict, UnbindInv, UnbindTypeOK, ReviewsPlaced, KeptUnstruck, RequestsHeld, Striking, Reviewing, Idle
<1> QED BY <1>2, <1>3

LEMMA StrikeKeeps ==
    ASSUME UnbindInv, NEW w \in Worker, Strike(w)
    PROVE  UnbindInv'
<1> DEFINE d == request[review[w].request].device
<1>1. review[w].request \in Request /\ review[w].step = "strike"
  BY DEF Strike, UnbindInv, ReviewsPlaced
<1>2. d \in Device \union {None}
  BY <1>1 DEF UnbindInv, UnbindTypeOK
<1>3. d # None => d \notin kept
  BY <1>1 DEF UnbindInv, KeptUnstruck, Striking
<1>4. /\ \/ device' = device /\ due' = due
         \/ /\ d \in Device /\ device[d].unbinds < MaxUnbinds
            /\ device' = [device EXCEPT ![d] = Removed(d)] /\ due' = due \ {review[w].request}
      /\ review' = [review EXCEPT ![w] = Idle]
      /\ UNCHANGED <<request, kept>>
  BY <1>2 DEF Strike
<1>5. UnbindTypeOK'
  <2>1. device' \in [Device -> [status : {"active", "removed", "gone"}, unbinds : 0 .. MaxUnbinds]]
    BY <1>4 DEF Removed, UnbindInv, UnbindTypeOK
  <2>2. review' \in [Worker -> Reviewing] /\ due' \subseteq Request
    BY <1>4 DEF UnbindInv, UnbindTypeOK, Reviewing, Idle
  <2> QED BY <1>4, <2>1, <2>2 DEF UnbindInv, UnbindTypeOK
\* Where every device is gone no request is left to strike one.
<1>6. ReviewsPlaced'
  <2>1. \A e \in Device : device[e].status = "gone" /\ e # d => device'[e].status = "gone"
    BY <1>4 DEF UnbindInv, UnbindTypeOK
  <2>2. SUFFICES ASSUME NEW v \in Worker, review'[v].step # "idle"
                 PROVE  /\ review'[v].request \in Request
                        /\ review'[v].verdict \in {"approved", "rejected"}
                        /\ request'[review'[v].request].status = "none" => \A e \in Device : device'[e].status = "gone"
    BY DEF ReviewsPlaced
  <2>3. v # w /\ review'[v] = review[v] /\ request' = request
    BY <1>4, <2>2 DEF UnbindInv, UnbindTypeOK, Idle
  <2>4. d \in Device => device[d].status # "gone"
    BY <1>1 DEF UnbindInv, RequestsHeld
  <2>5. request'[review'[v].request].status = "none" => \A e \in Device : device'[e].status = "gone"
    BY <1>4, <2>1, <2>2, <2>3, <2>4 DEF UnbindInv, ReviewsPlaced
  <2> QED BY <2>2, <2>3, <2>5 DEF UnbindInv, ReviewsPlaced
<1>7. KeptUnstruck'
  BY <1>3, <1>4 DEF Removed, UnbindInv, UnbindTypeOK, KeptUnstruck, Striking, Reviewing, Idle
<1>8. RequestsHeld'
  BY <1>4 DEF Removed, UnbindInv, UnbindTypeOK, RequestsHeld
<1> QED BY <1>5, <1>6, <1>7, <1>8 DEF UnbindInv

LEMMA OthersKeepUnbind ==
    ASSUME UnbindInv,
           \/ \E w \in Worker : BreakOff(w)
           \/ \E d \in Device : Leave(d) \/ \E status \in {"active", "removed"} : SetDevice(d, status)
           \/ DeleteRows
           \/ UNCHANGED unbindVars
    PROVE  UnbindInv'
<1>1. ASSUME NEW w \in Worker, BreakOff(w) PROVE UnbindInv'
  BY <1>1 DEF BreakOff, UnbindInv, UnbindTypeOK, ReviewsPlaced, KeptUnstruck, RequestsHeld, Striking, Reviewing, Idle
<1>2. ASSUME NEW d \in Device, Leave(d) PROVE UnbindInv'
  <2>1. UnbindTypeOK'
    BY <1>2 DEF Leave, Removed, UnbindInv, UnbindTypeOK, Reviewing
  <2>2. ReviewsPlaced'
    BY <1>2 DEF Leave, Removed, UnbindInv, UnbindTypeOK, Reviewing, ReviewsPlaced
  <2>3. KeptUnstruck'
    BY <1>2 DEF Leave, Removed, UnbindInv, UnbindTypeOK, Reviewing, KeptUnstruck, Striking
  <2>4. RequestsHeld'
    BY <1>2 DEF Leave, Removed, UnbindInv, UnbindTypeOK, Reviewing, RequestsHeld
  <2> QED BY <2>1, <2>2, <2>3, <2>4 DEF UnbindInv
<1>3. ASSUME NEW d \in Device, NEW status \in {"active", "removed"}, SetDevice(d, status) PROVE UnbindInv'
  <2>1. UnbindTypeOK'
    BY <1>3 DEF SetDevice, UnbindInv, UnbindTypeOK, Reviewing
  <2>2. ReviewsPlaced'
    BY <1>3 DEF SetDevice, UnbindInv, UnbindTypeOK, Reviewing, ReviewsPlaced
  <2>3. KeptUnstruck'
    BY <1>3 DEF SetDevice, UnbindInv, UnbindTypeOK, Reviewing, KeptUnstruck, Striking
  <2>4. RequestsHeld'
    BY <1>3 DEF SetDevice, UnbindInv, UnbindTypeOK, Reviewing, RequestsHeld
  <2> QED BY <2>1, <2>2, <2>3, <2>4 DEF UnbindInv
<1>4. ASSUME DeleteRows PROVE UnbindInv'
  <2>1. UnbindTypeOK'
    BY <1>4 DEF DeleteRows, UnbindInv, UnbindTypeOK
  <2>2. ReviewsPlaced'
    BY <1>4 DEF DeleteRows, UnbindInv, UnbindTypeOK, ReviewsPlaced
  <2>3. KeptUnstruck'
    BY <1>4 DEF DeleteRows, UnbindInv, UnbindTypeOK, KeptUnstruck, Striking, Reviewing
  <2>4. RequestsHeld'
    BY <1>4 DEF DeleteRows, UnbindInv, UnbindTypeOK, RequestsHeld
  <2> QED BY <2>1, <2>2, <2>3, <2>4 DEF UnbindInv
<1>5. ASSUME UNCHANGED unbindVars PROVE UnbindInv'
  BY <1>5 DEF unbindVars, UnbindInv, UnbindTypeOK, ReviewsPlaced, KeptUnstruck, RequestsHeld, Striking
<1> QED BY <1>1, <1>2, <1>3, <1>4, <1>5

\* Approved requests for d that have reached it.
Reached(d) == {r \in Rows("approved") \ due : request[r].device = d}

LEMMA ReachedFinite ==
    ASSUME NEW d \in Device
    PROVE  Reached(d) \in SUBSET Request /\ IsFiniteSet(Reached(d)) /\ Cardinality(Reached(d)) \in Nat
<1>1. Reached(d) \subseteq Request
  BY DEF Reached, Rows
<1> QED BY <1>1, FS_Subset, FS_CardinalityType

\* A set of requests that has not grown, or by one element with the counter
\* raised, is still within the counter.
LEMMA WithinCounter ==
    ASSUME NEW R, NEW S, NEW m \in Nat, NEW n \in Nat, IsFiniteSet(R), m >= Cardinality(R),
           \/ S \subseteq R /\ n >= m
           \/ (\E r : S \subseteq R \union {r}) /\ n = m + 1
    PROVE  n >= Cardinality(S)
<1>1. CASE S \subseteq R /\ n >= m
  <2>1. IsFiniteSet(S) /\ Cardinality(S) <= Cardinality(R) /\ Cardinality(S) \in Nat /\ Cardinality(R) \in Nat
    BY <1>1, FS_Subset, FS_CardinalityType
  <2> QED BY <1>1, <2>1
<1>2. ASSUME NEW r, S \subseteq R \union {r}, n = m + 1 PROVE n >= Cardinality(S)
  <2>1. IsFiniteSet(R \union {r}) /\ Cardinality(R \union {r}) \in {Cardinality(R), Cardinality(R) + 1}
    BY FS_AddElement
  <2>2. Cardinality(S) <= Cardinality(R \union {r}) /\ Cardinality(S) \in Nat /\ Cardinality(R) \in Nat
    BY <1>2, <2>1, FS_Subset, FS_CardinalityType
  <2> QED BY <1>2, <2>1, <2>2
<1> QED BY <1>1, <1>2

\* What each step does to the requests that reached d, and to its counter.
LEMMA ReachedGrows ==
    ASSUME UnbindInv, NEW d \in Device,
           UnbindNext \/ UNCHANGED unbindVars \/ DeleteRows
    PROVE  \/ Reached(d)' = {}
           \/ Reached(d)' \subseteq Reached(d) /\ device'[d].unbinds >= device[d].unbinds
           \/ /\ \E r : Reached(d)' \subseteq Reached(d) \union {r}
              /\ device'[d].unbinds = device[d].unbinds + 1
<1> DEFINE Same == Reached(d)' \subseteq Reached(d) /\ device'[d].unbinds >= device[d].unbinds
<1>1. device[d].unbinds \in Nat
  BY DEF UnbindInv, UnbindTypeOK
<1>2. ASSUME NEW e \in Device, Open(e) PROVE Same
  <2>1. PICK r \in Rows("none") : request' = [request EXCEPT ![r] = [status |-> "pending", device |-> e]]
    BY <1>2 DEF Open
  <2> QED BY <1>1, <1>2, <2>1 DEF Open, Reached, Rows, UnbindInv, UnbindTypeOK
<1>3. ASSUME NEW w \in Worker, StoreVerdict(w) PROVE Same
  <2> DEFINE r == review[w].request
  <2>1. r \in Request /\ review[w].verdict \in {"approved", "rejected"}
    BY <1>3 DEF StoreVerdict, UnbindInv, ReviewsPlaced
  <2>2. CASE request[r].status = "none"
    BY <1>1, <1>3, <2>2 DEF StoreVerdict, Reached, Rows
  <2>3. CASE request[r].status # "none"
    <3>1. /\ request' = [request EXCEPT ![r].status = review[w].verdict]
          /\ IF review[w].verdict = "approved" THEN due' = due \union {r} ELSE due' = due
          /\ device' = device
      BY <1>3, <2>3 DEF StoreVerdict
    <3> QED BY <1>1, <2>1, <3>1 DEF Reached, Rows, UnbindInv, UnbindTypeOK
  <2> QED BY <2>2, <2>3
<1>4. ASSUME NEW w \in Worker, Strike(w)
      PROVE  \/ Same
             \/ /\ \E r : Reached(d)' \subseteq Reached(d) \union {r}
                /\ device'[d].unbinds = device[d].unbinds + 1
  <2> DEFINE r == review[w].request
             e == request[r].device
  <2>1. r \in Request /\ e \in Device \union {None}
    BY <1>4 DEF Strike, UnbindInv, UnbindTypeOK, ReviewsPlaced
  <2>2. CASE UNCHANGED <<device, due>>
    BY <1>1, <1>4, <2>2 DEF Strike, Reached, Rows
  <2>3. CASE e \in Device /\ device' = [device EXCEPT ![e] = Removed(e)] /\ due' = due \ {r}
    <3>1. device' [e].unbinds = device[e].unbinds + 1
      BY <2>3 DEF Removed, UnbindInv, UnbindTypeOK
    <3>2. d # e => Same
      BY <1>1, <1>4, <2>1, <2>3 DEF Strike, Reached, Rows, UnbindInv, UnbindTypeOK
    <3>3. Reached(d)' \subseteq Reached(d) \union {r}
      BY <1>4, <2>1, <2>3 DEF Strike, Reached, Rows
    <3> QED BY <3>1, <3>2, <3>3
  <2> QED BY <1>4, <2>1, <2>2, <2>3 DEF Strike
<1>5. ASSUME NEW e \in Device, Leave(e) PROVE Same
  BY <1>1, <1>5 DEF Leave, Removed, Reached, Rows, UnbindInv, UnbindTypeOK
<1>6. ASSUME NEW e \in Device, NEW status \in {"active", "removed"}, SetDevice(e, status) PROVE Same
  BY <1>1, <1>6 DEF SetDevice, Reached, Rows, UnbindInv, UnbindTypeOK
<1>7. ASSUME UNCHANGED <<device, request, due>> PROVE Same
  BY <1>1, <1>7 DEF Reached, Rows
<1>8. ASSUME DeleteRows PROVE Reached(d)' = {}
  BY <1>8 DEF DeleteRows, Reached, Rows
<1> QED BY <1>2, <1>3, <1>4, <1>5, <1>6, <1>7, <1>8 DEF UnbindNext, BeginReview, BreakOff, unbindVars

LEMMA CountedKept ==
    ASSUME UnbindInv, UnbindInv', ApprovalsCounted, UnbindNext \/ UNCHANGED unbindVars \/ DeleteRows
    PROVE  ApprovalsCounted'
<1> SUFFICES ASSUME NEW d \in Device PROVE device'[d].unbinds >= Cardinality(Reached(d)')
  BY DEF ApprovalsCounted, Reached
<1>1. device[d].unbinds \in Nat /\ device'[d].unbinds \in Nat /\ device[d].unbinds >= Cardinality(Reached(d))
  BY DEF UnbindInv, UnbindTypeOK, ApprovalsCounted, Reached
<1>2. CASE Reached(d)' = {}
  BY <1>1, <1>2, FS_EmptySet
<1>3. CASE Reached(d)' # {}
  BY <1>1, <1>3, ReachedGrows, ReachedFinite, WithinCounter
<1> QED BY <1>2, <1>3
-----------------------------------------------------------------------------
(* Offline packages *)

\* In production nothing is signed but with the environment's pair.
ConfigOK ==
    /\ config \in [production : BOOLEAN, keys : SUBSET {"private", "public"}]
    /\ config.production /\ files # <<>> => config.keys = {"private", "public"}
    /\ config.production => \A n \in 1 .. Len(files) : files[n].signature.pair = 0

\* Every file holds its own payload, signed under its code.
FilesSigned ==
    \A n \in 1 .. Len(files) :
        files[n].payload = n /\ files[n].signature.payload = n /\ files[n].signature.code = files[n].code

\* A file is the last one issued under its code.
Last(fs, n) == \A m \in n + 1 .. Len(fs) : fs[m].code # fs[n].code

\* A row is that of the last file issued under its code.
RowsOfLast ==
    \A code \in Code : packages[code] # NoPackage =>
        \E n \in 1 .. Len(files) :
            /\ files[n].code = code /\ Last(files, n)
            /\ packages[code].payload = n
            /\ packages[code].signature = files[n].signature
            /\ packages[code].expireAt = files[n].expireAt

OfflineInv == OfflineTypeOK /\ ConfigOK /\ FilesSigned /\ RowsOfLast /\ ImportsCurrent

LEMMA OfflineInvInit == OfflineInit => OfflineInv
  BY DEF OfflineInit, OfflineInv, OfflineTypeOK, ConfigOK, FilesSigned, RowsOfLast,
         ImportsCurrent, ImportedIsCurrent, CurrentIsImported, NoImport

LEMMA CreateKeeps ==
    ASSUME OfflineInv, NEW code \in Code, NEW whole \in BOOLEAN, CreateOfflinePackage(code, whole)
    PROVE  OfflineInv'
<1> DEFINE n == Len(files) + 1
           s == signOfflinePackage(code, n, whole)
           row == [status |-> "active", payload |-> n, signature |-> s, expireAt |-> clock + Lifetime]
           file == [code |-> code, payload |-> n, signature |-> s, expireAt |-> clock + Lifetime]
<1>1. /\ assertOfflineSigningConfigured /\ packages[code] = NoPackage /\ n <= MaxFiles
      /\ packages' = [packages EXCEPT ![code] = row]
      /\ files' = Append(files, file)
      /\ import' = NoImport
      /\ UNCHANGED <<config, start, clock>>
  BY DEF CreateOfflinePackage
<1>2. Len(files) \in Nat /\ files \in Seq(File)
  BY DEF OfflineInv, OfflineTypeOK
<1>3. s \in Signature /\ s.payload = n /\ s.code = code
  <2>1. n \in 1 .. MaxFiles
    BY <1>1, <1>2
  <2>2. Pair("private") \in 0 .. MaxStarts
    BY DEF Pair, OfflineInv, OfflineTypeOK
  <2> QED BY <2>1, <2>2 DEF signOfflinePackage, Signature
<1>4. row \in Row /\ file \in File
  BY <1>1, <1>2, <1>3 DEF Row, File, OfflineInv, OfflineTypeOK
<1>5. /\ files' \in Seq(File) /\ Len(files') = n
      /\ \A m \in 1 .. Len(files) : files'[m] = files[m]
      /\ files'[n] = file
  BY <1>1, <1>2, <1>4
<1>6. OfflineTypeOK'
  BY <1>1, <1>4, <1>5 DEF OfflineInv, OfflineTypeOK, NoImport
<1>7. ConfigOK'
  <2>1. config.production => s.pair = 0
    BY <1>1 DEF assertOfflineSigningConfigured, signOfflinePackage, Pair
  <2> QED BY <1>1, <1>2, <1>5, <2>1 DEF OfflineInv, ConfigOK, assertOfflineSigningConfigured
<1>8. FilesSigned'
  BY <1>2, <1>3, <1>5 DEF OfflineInv, FilesSigned
<1>9. RowsOfLast'
  <2>1. SUFFICES ASSUME NEW c \in Code, packages'[c] # NoPackage
                 PROVE  \E m \in 1 .. Len(files') :
                            /\ files'[m].code = c /\ Last(files', m)
                            /\ packages'[c].payload = m
                            /\ packages'[c].signature = files'[m].signature
                            /\ packages'[c].expireAt = files'[m].expireAt
    BY DEF RowsOfLast
  <2>2. CASE c = code
    <3>1. packages'[c] = row
      BY <1>1, <2>2 DEF OfflineInv, OfflineTypeOK
    <3>2. n \in 1 .. Len(files') /\ n + 1 .. Len(files') = {}
      BY <1>2, <1>5
    <3>3. Last(files', n)
      BY <3>2 DEF Last
    <3>4. row.payload = n /\ row.signature = s /\ row.expireAt = clock + Lifetime
      OBVIOUS
    <3>5. files'[n].code = c /\ files'[n].signature = s /\ files'[n].expireAt = clock + Lifetime
      BY <1>5, <2>2
    <3> HIDE DEF n, s, row, file
    <3> QED BY <3>1, <3>2, <3>3, <3>4, <3>5
  <2>3. CASE c # code
    <3>1. packages'[c] = packages[c]
      BY <1>1, <2>3 DEF OfflineInv, OfflineTypeOK
    <3>2. PICK m \in 1 .. Len(files) :
              /\ files[m].code = c /\ Last(files, m)
              /\ packages[c].payload = m
              /\ packages[c].signature = files[m].signature
              /\ packages[c].expireAt = files[m].expireAt
      BY <2>1, <3>1 DEF OfflineInv, RowsOfLast
    <3>3. Last(files', m)
      BY <1>2, <1>5, <2>3, <3>2 DEF Last
    <3> QED BY <1>2, <1>5, <3>1, <3>2, <3>3
  <2> QED BY <2>2, <2>3
<1>10. ImportsCurrent'
  BY <1>1 DEF ImportsCurrent, ImportedIsCurrent, CurrentIsImported, NoImport
<1> QED BY <1>6, <1>7, <1>8, <1>9, <1>10 DEF OfflineInv

LEMMA ImportKeeps ==
    ASSUME OfflineInv, NEW n \in 1 .. Len(files), NEW given \in BOOLEAN, ImportPackage(n, given)
    PROVE  OfflineInv'
<1> DEFINE f == files[n]
           row == packages[f.code]
<1>1. /\ import' = [file |-> n, given |-> given, answer |-> Answer(f, given), current |-> Current(n)]
      /\ UNCHANGED <<config, start, clock, packages, files>>
  BY DEF ImportPackage
<1>2. Len(files) \in Nat /\ f \in File /\ f.code \in Code /\ n \in Nat
  <2>1. files \in Seq(File)
    BY DEF OfflineInv, OfflineTypeOK
  <2>2. f \in File
    BY <2>1
  <2> QED BY <2>1, <2>2 DEF File
<1>3. f.payload = n /\ f.signature.payload = n /\ f.signature.code = f.code
  BY DEF OfflineInv, FilesSigned
<1>4. ConfigOK' /\ FilesSigned' /\ RowsOfLast'
  BY <1>1 DEF OfflineInv, ConfigOK, FilesSigned, RowsOfLast, Last
<1>5. OfflineTypeOK'
  <2>1. Answer(f, given) \in {"OK", "LEASE_INVALID", "LEASE_EXPIRED", "UNAUTHORIZED"} /\ Current(n) \in BOOLEAN
    BY DEF Answer, Current
  <2> QED BY <1>1, <1>2, <2>1 DEF OfflineInv, OfflineTypeOK
\* The row, if any, is that of one file, the last of its code.
<1>6. ASSUME row # NoPackage
      PROVE  \E m \in 1 .. Len(files) :
                 /\ files[m].code = f.code /\ Last(files, m)
                 /\ row.payload = m /\ row.signature = files[m].signature /\ row.expireAt = files[m].expireAt
                 /\ files[m].signature.payload = m
  BY <1>2, <1>6 DEF OfflineInv, RowsOfLast, FilesSigned
<1>7. ASSUME Answer(f, given) = "OK" PROVE Current(n)
  <2>1. row # NoPackage /\ row.status = "active" /\ row.expireAt > clock /\ row.signature = f.signature
    BY <1>7 DEF Answer, Usable, SameSignature
  <2> QED BY <1>3, <1>6, <2>1 DEF Current, Last
<1>8. ASSUME Current(n), f.signature.whole, config.production \/ SameKeys(n)
      PROVE  Answer(f, given) = "OK"
  <2>1. row # NoPackage /\ row.status = "active" /\ f.expireAt > clock /\ Last(files, n)
    BY <1>8 DEF Current, Last
  <2>2. row.payload = n /\ row.signature = f.signature /\ row.expireAt = f.expireAt
    <3>1. PICK m \in 1 .. Len(files) :
              /\ files[m].code = f.code /\ Last(files, m)
              /\ row.payload = m /\ row.signature = files[m].signature /\ row.expireAt = files[m].expireAt
      BY <1>6, <2>1
    <3>2. m = n
      BY <1>2, <2>1, <3>1 DEF Last
    <3> QED BY <3>1, <3>2
  <2>3. f.signature.pair = Pair("public")
    BY <1>1, <1>2, <1>8 DEF SameKeys, OfflineInv, ConfigOK, OfflineTypeOK, Pair
  <2> QED BY <1>3, <1>8, <2>1, <2>2, <2>3 DEF Answer, Usable, SameSignature, verifyOfflinePackage
<1>9. ImportsCurrent'
  BY <1>1, <1>7, <1>8 DEF ImportsCurrent, ImportedIsCurrent, CurrentIsImported, SameKeys, Pair
<1> QED BY <1>4, <1>5, <1>9 DEF OfflineInv

LEMMA OthersKeepOffline ==
    ASSUME OfflineInv,
           \/ \E code \in Code, status \in {"active", "revoked"} : UpdateOfflinePackageStatus(code, status)
           \/ RestartServer \/ ClockTick \/ DeletePackages
           \/ UNCHANGED offlineVars
    PROVE  OfflineInv'
<1>1. ASSUME NEW code \in Code, NEW status \in {"active", "revoked"}, UpdateOfflinePackageStatus(code, status)
      PROVE  OfflineInv'
  <2>1. /\ packages[code] # NoPackage /\ packages[code] \in Row
        /\ packages' = [packages EXCEPT ![code].status = status]
        /\ import' = NoImport /\ UNCHANGED <<config, start, clock, files>>
    BY <1>1 DEF UpdateOfflinePackageStatus, OfflineInv, OfflineTypeOK
  <2>2. OfflineTypeOK'
    BY <2>1 DEF OfflineInv, OfflineTypeOK, Row, NoImport
  <2>3. \A c \in Code : packages'[c] # NoPackage =>
            /\ packages[c] # NoPackage
            /\ packages'[c].payload = packages[c].payload /\ packages'[c].signature = packages[c].signature
            /\ packages'[c].expireAt = packages[c].expireAt
    BY <2>1 DEF OfflineInv, OfflineTypeOK, Row
  <2>4. RowsOfLast'
    BY <2>1, <2>3 DEF OfflineInv, RowsOfLast, Last
  <2> QED BY <2>1, <2>2, <2>4 DEF OfflineInv, ConfigOK, FilesSigned, ImportsCurrent, ImportedIsCurrent, CurrentIsImported, NoImport
<1>2. ASSUME RestartServer \/ ClockTick PROVE OfflineInv'
  <2>1. /\ import' = NoImport /\ UNCHANGED <<config, packages, files>>
        /\ start' \in 1 .. MaxStarts /\ clock' \in 0 .. MaxClock
    BY <1>2 DEF RestartServer, ClockTick, OfflineInv, OfflineTypeOK
  <2>2. OfflineTypeOK'
    BY <2>1 DEF OfflineInv, OfflineTypeOK, NoImport
  <2> QED BY <2>1, <2>2 DEF OfflineInv, ConfigOK, FilesSigned, RowsOfLast, Last,
                            ImportsCurrent, ImportedIsCurrent, CurrentIsImported, NoImport
<1>3. ASSUME DeletePackages PROVE OfflineInv'
  BY <1>3 DEF DeletePackages, OfflineInv, OfflineTypeOK, ConfigOK, FilesSigned, RowsOfLast, Last,
              ImportsCurrent, ImportedIsCurrent, CurrentIsImported, NoImport
<1>4. ASSUME UNCHANGED offlineVars PROVE OfflineInv'
  BY <1>4 DEF offlineVars, OfflineInv, OfflineTypeOK, ConfigOK, FilesSigned, RowsOfLast, Last,
              ImportsCurrent, ImportedIsCurrent, CurrentIsImported, SameKeys, Pair
<1> QED BY <1>1, <1>2, <1>3, <1>4
-----------------------------------------------------------------------------
(* The theorems *)

BackOfficeInv == UnbindInv /\ OfflineInv /\ ApprovalsCounted

LEMMA BackOfficeInvInit == Init => BackOfficeInv
<1> SUFFICES ASSUME Init PROVE BackOfficeInv
  OBVIOUS
<1>1. UnbindInv /\ OfflineInv
  BY UnbindInvInit, OfflineInvInit DEF Init
<1>2. ASSUME NEW d \in Device PROVE Reached(d) = {}
  BY DEF Init, UnbindInit, Reached, Rows
<1>3. ApprovalsCounted
  <2> SUFFICES ASSUME NEW d \in Device PROVE device[d].unbinds >= Cardinality(Reached(d))
    BY DEF ApprovalsCounted, Reached
  <2>1. device[d].unbinds = 0
    BY DEF Init, UnbindInit
  <2>2. Cardinality(Reached(d)) = 0
    BY <1>2, FS_EmptySet
  <2> QED BY <2>1, <2>2
<1> QED BY <1>1, <1>3 DEF BackOfficeInv

LEMMA BackOfficeInvNext == BackOfficeInv /\ [Next]_vars => BackOfficeInv'
<1> SUFFICES ASSUME BackOfficeInv, [Next]_vars PROVE BackOfficeInv'
  OBVIOUS
<1>1. UnbindNext \/ UNCHANGED unbindVars \/ DeleteRows
  BY DEF Next, DeleteProduct, vars
<1>2. OfflineNext \/ UNCHANGED offlineVars \/ DeletePackages
  BY DEF Next, DeleteProduct, vars
<1>3. UnbindInv'
  <2>1. ASSUME UnbindNext PROVE UnbindInv'
    BY <2>1, OpenKeeps, BeginReviewKeeps, StoreVerdictKeeps, StrikeKeeps, OthersKeepUnbind
       DEF BackOfficeInv, UnbindNext
  <2> QED BY <1>1, <2>1, OthersKeepUnbind DEF BackOfficeInv
<1>4. OfflineInv'
  <2>1. ASSUME OfflineNext PROVE OfflineInv'
    BY <2>1, CreateKeeps, ImportKeeps, OthersKeepOffline DEF BackOfficeInv, OfflineNext
  <2> QED BY <1>2, <2>1, OthersKeepOffline DEF BackOfficeInv
<1>5. ApprovalsCounted'
  BY <1>1, <1>3, CountedKept DEF BackOfficeInv
<1> QED BY <1>3, <1>4, <1>5 DEF BackOfficeInv

LEMMA BackOfficeInvariant == Spec => []BackOfficeInv
  BY BackOfficeInvInit, BackOfficeInvNext, PTL DEF Spec

\* Rows, reviews, packages and answers are well formed (the types of
\* UnbindRequests and OfflinePackages).
THEOREM BackOfficeTypeCorrect == Spec => [](UnbindTypeOK /\ OfflineTypeOK)
<1>1. BackOfficeInv => UnbindTypeOK /\ OfflineTypeOK
  BY DEF BackOfficeInv, UnbindInv, OfflineInv
<1> QED BY <1>1, BackOfficeInvariant, PTL

\* The unbind counter misses no approval that reached the device, for any number
\* of reviews at once (reviewDeviceUnbindRequest).
THEOREM NoApprovalLost == Spec => []ApprovalsCounted
<1>1. BackOfficeInv => ApprovalsCounted
  BY DEF BackOfficeInv
<1> QED BY <1>1, BackOfficeInvariant, PTL

\* Old approvals and rejections never take a device that was set back to active
\* since, for any number of requests and reviews (reviewDeviceUnbindRequest).
THEOREM OldApprovalsSpent == Spec => []SetBackStays
<1>1. BackOfficeInv => SetBackStays
  BY DEF BackOfficeInv, UnbindInv, KeptUnstruck, SetBackStays
<1> QED BY <1>1, BackOfficeInvariant, PTL

\* importPackage accepts current files and no others, whatever was issued,
\* revoked, deleted and restarted before.
THEOREM OnlyCurrentImports == Spec => []ImportsCurrent
<1>1. BackOfficeInv => ImportsCurrent
  BY DEF BackOfficeInv, OfflineInv
<1> QED BY <1>1, BackOfficeInvariant, PTL
=============================================================================

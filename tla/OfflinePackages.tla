--------------------------- MODULE OfflinePackages ---------------------------
(***************************************************************************)
(* Offline packages: administrators issue, revoke and restore them         *)
(* (server/src/admin/p2/p2.controller.ts), clients import the files they   *)
(* were given, and license/offline-signature.ts signs and verifies with    *)
(* Ed25519 keys from the environment or, outside production, with a pair   *)
(* each process makes for itself when it starts.                           *)
(*                                                                         *)
(* Each handler decides and writes with one database call that matters, so *)
(* it is one step.  The licence of a package is read and never decided by. *)
(***************************************************************************)
EXTENDS Integers, Sequences

CONSTANTS
    Code,          \* package codes (unique)
    NoPackage,     \* no row with this code
    MaxFiles,      \* bound on the packages ever issued
    Lifetime,      \* how far ahead the expireAt of a package lies when it is issued
    MaxClock,      \* bound on the clock
    MaxStarts      \* bound on the starts of the server

ASSUME PackageAssumption == MaxFiles \in Nat /\ Lifetime \in Nat \ {0} /\ MaxClock \in Nat /\ MaxStarts \in Nat \ {0}

VARIABLES
    config,        \* which keys the environment has, and whether this is production
    start,         \* starts of the server so far; numbers its own pairs of keys
    clock,         \* the server's clock
    packages,      \* the row of each code, or NoPackage
    files,         \* the files clients were given, in the order of issue
    import         \* the last import: its file, the answer, and whether it deserved it

offlineVars == <<config, start, clock, packages, files, import>>
-----------------------------------------------------------------------------
\* A payload is known by the issue it was made in; whole says that none of its
\* keys is undefined.  A signature covers code and payload: as text, in which an
\* undefined key appears, while the column and the answer leave it out.
Signature == [code : Code, payload : 1 .. MaxFiles, whole : BOOLEAN, pair : 0 .. MaxStarts]
File == [code : Code, payload : 1 .. MaxFiles, signature : Signature, expireAt : 0 .. MaxClock + Lifetime]
Row == [status : {"active", "revoked"}, payload : 1 .. MaxFiles, signature : Signature, expireAt : 0 .. MaxClock + Lifetime]

NoImport == [file |-> 0, given |-> FALSE, answer |-> "none", current |-> FALSE]

\* The pair used for the private or the public half: 0 is the environment's.
Pair(half) == IF half \in config.keys THEN 0 ELSE start

assertOfflineSigningConfigured == config.production => config.keys = {"private", "public"}

signOfflinePackage(code, payload, whole) ==
    [code |-> code, payload |-> payload, whole |-> whole, pair |-> Pair("private")]

\* The payload to verify went through JSON: an undefined key is no longer in it.
verifyOfflinePackage(code, payload, s) ==
    s.code = code /\ s.payload = payload /\ s.whole /\ s.pair = Pair("public")

\* The payload is the one given, with no undefined key, or the default one, whose
\* deviceId is undefined unless the package is bound to a device.
CreateOfflinePackage(code, whole) ==
    LET n == Len(files) + 1
        s == signOfflinePackage(code, n, whole)
    IN
    /\ assertOfflineSigningConfigured
    /\ packages[code] = NoPackage
    /\ n <= MaxFiles
    /\ packages' = [packages EXCEPT ![code] = [status |-> "active", payload |-> n, signature |-> s, expireAt |-> clock + Lifetime]]
    /\ files' = Append(files, [code |-> code, payload |-> n, signature |-> s, expireAt |-> clock + Lifetime])
    /\ import' = NoImport
    /\ UNCHANGED <<config, start, clock>>

UpdateOfflinePackageStatus(code, status) ==
    /\ packages[code] # NoPackage
    /\ packages[code].status # status
    /\ packages' = [packages EXCEPT ![code].status = status]
    /\ import' = NoImport
    /\ UNCHANGED <<config, start, clock, files>>

\* Fault: any genuine signature will do, not only that of the row.
FaultSameSignature(row, s) == TRUE
SameSignature(row, s) == row.signature = s

Usable(row) == row.status = "active" /\ row.expireAt > clock

\* What the import of a file answers, with its own payload or the row's.
Answer(f, given) ==
    LET row == packages[f.code] IN
    IF row = NoPackage THEN "LEASE_INVALID"
    ELSE IF ~Usable(row) THEN IF row.status = "active" THEN "LEASE_EXPIRED" ELSE "LEASE_INVALID"
    ELSE IF /\ SameSignature(row, f.signature)
            /\ verifyOfflinePackage(f.code, IF given THEN f.payload ELSE row.payload, f.signature)
         THEN "OK" ELSE "UNAUTHORIZED"

\* The file is the one issued last under its code and may be used: what the
\* administrators meant, whatever the handler looks at.
Current(n) ==
    /\ packages[files[n].code] # NoPackage
    /\ packages[files[n].code].status = "active"
    /\ files[n].expireAt > clock
    /\ \A m \in n + 1 .. Len(files) : files[m].code # files[n].code

\* A client sends a file it was given, old ones included.
ImportPackage(n, given) ==
    /\ import' = [file |-> n, given |-> given, answer |-> Answer(files[n], given), current |-> Current(n)]
    /\ UNCHANGED <<config, start, clock, packages, files>>

\* The product is deleted: its packages go, and their codes are free again.
DeletePackages ==
    /\ packages' = [code \in Code |-> NoPackage]
    /\ import' = NoImport
    /\ UNCHANGED <<config, start, clock, files>>

RestartServer ==
    /\ start < MaxStarts
    /\ start' = start + 1
    /\ import' = NoImport
    /\ UNCHANGED <<config, clock, packages, files>>

ClockTick ==
    /\ clock < MaxClock
    /\ clock' = clock + 1
    /\ import' = NoImport
    /\ UNCHANGED <<config, start, packages, files>>

OfflineInit ==
    /\ config \in [production : BOOLEAN, keys : SUBSET {"private", "public"}]
    /\ start = 1 /\ clock = 0
    /\ packages = [code \in Code |-> NoPackage]
    /\ files = <<>>
    /\ import = NoImport

OfflineNext ==
    \/ \E code \in Code : \/ \E whole \in BOOLEAN : CreateOfflinePackage(code, whole)
                          \/ \E status \in {"active", "revoked"} : UpdateOfflinePackageStatus(code, status)
    \/ \E n \in 1 .. Len(files), given \in BOOLEAN : ImportPackage(n, given)
    \/ RestartServer \/ ClockTick
-----------------------------------------------------------------------------
(* Correctness *)

\* Rows, files and the last answer are in states the code can produce.
OfflineTypeOK ==
    /\ start \in 1 .. MaxStarts /\ clock \in 0 .. MaxClock
    /\ packages \in [Code -> Row \union {NoPackage}]
    /\ files \in Seq(File) /\ Len(files) <= MaxFiles
    /\ import \in [file : 0 .. MaxFiles, given : BOOLEAN, current : BOOLEAN,
                   answer : {"none", "OK", "LEASE_INVALID", "LEASE_EXPIRED", "UNAUTHORIZED"}]

\* Only the file issued last under its code is imported, while it is neither
\* revoked nor expired: not one from before its product was deleted and its code
\* given out again, nor its payload under the new signature (importPackage).
ImportedIsCurrent == import.answer = "OK" => import.current

\* The keys are those the file was signed with: of the environment, or of a
\* server that has not been started again.
SameKeys(n) == files[n].signature.pair = Pair("public")

\* A current file is imported as long as the keys are the same, in production
\* always: revoking and restoring it, other packages and restarts do it no harm.  It
\* must have been signed without undefined keys (see EveryFileImports).
CurrentIsImported ==
    /\ import.current
    /\ files[import.file].signature.whole
    /\ config.production \/ SameKeys(import.file)
    => import.answer = "OK"

\* Together: OK is the answer to current files, and to them alone.
ImportsCurrent == ImportedIsCurrent /\ CurrentIsImported

\* Every current file is imported as long as the keys are the same
\* (01-已完成开发文档.md:70: issuing, revoking, restoring, signature and expiry).
EveryFileImports == import.current /\ SameKeys(import.file) => import.answer = "OK"
=============================================================================

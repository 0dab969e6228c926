------------------------------ MODULE SdkCalls ------------------------------
(***************************************************************************)
(* The calls the three SDKs make and what the server makes of them before  *)
(* a handler runs: the secret it looks up, the canonical text it signs     *)
(* again, the fields its DTOs require.                                     *)
(*                                                                         *)
(* Client and server sign the text of the JSON body, each with code of its *)
(* own, so a call is understood only if both write the same text: the same *)
(* fields in the same order, strings spelled the same way.  An object is   *)
(* the set of its fields, and whether they stand in the order of their     *)
(* names; the fields users fill in hold text of one class.  The HMAC is    *)
(* equal exactly when the texts are.                                       *)
(***************************************************************************)
EXTENDS Integers, SequencesExt

Sdk == {"electron", "cpp", "dotnet"}
Op == {"activate", "verify", "heartbeat", "deactivate", "policy"}

\* What a text holds: ASCII letters only; a backslash or line break; a double
\* quote; a character outside ASCII.
Text == {"plain", "short", "quote", "wide"}

\* Server: no secrets configured in development, none in production, or secrets
\* for the versions its clients have.
Signing == {"off", "missing", "on"}
-----------------------------------------------------------------------------
\* The place of a field in the order of the names.
Rank(field) ==
    CASE field = "appVersion"      -> 1
      [] field = "device"          -> 2
      [] field = "deviceCode"      -> 3
      [] field = "deviceName"      -> 4
      [] field = "fingerprintHash" -> 5
      [] field = "hardwareSummary" -> 6
      [] field = "leaseToken"      -> 7
      [] field = "licenseKey"      -> 8
      [] field = "osType"          -> 9
      [] field = "osVersion"       -> 10
      [] field = "productCode"     -> 11
      [] field = "runtime"         -> 12

\* stableStringify and Canonicalize: the fields of an object by name.
InOrder(fields) == [fields |-> fields, sorted |-> TRUE]

\* An object written field by field.
Written(names) ==
    [fields |-> ToSet(names),
     sorted |-> \A i, j \in DOMAIN names : i < j => Rank(names[i]) < Rank(names[j])]

LeaseFields == {"productCode", "leaseToken", "deviceCode", "appVersion"}
DeviceFields == {"deviceCode", "fingerprintHash", "deviceName", "osType", "osVersion", "appVersion"}

\* The C++ client has no JSON library: it writes its fields one by one.
CppBody(op) ==
    CASE op = "activate"   -> <<"device", "licenseKey", "productCode">>
      [] op = "verify"     -> <<"appVersion", "deviceCode", "leaseToken", "productCode">>
      [] op = "heartbeat"  -> <<"appVersion", "deviceCode", "leaseToken", "productCode", "runtime">>
      [] op = "deactivate" -> <<"deviceCode", "licenseKey", "productCode">>
      [] op = "policy"     -> <<>>

CppDevice == <<"appVersion", "deviceCode", "deviceName", "fingerprintHash", "hardwareSummary", "osType", "osVersion">>

\* The objects the other two clients hand to their serialiser.
Fields(sdk, op) ==
    CASE op = "activate"   -> {"productCode", "licenseKey", "device"}
      [] op = "verify"     -> LeaseFields
      [] op = "heartbeat"  -> LeaseFields \union (IF sdk = "electron" THEN {"runtime"} ELSE {})
      [] op = "deactivate" -> {"productCode", "licenseKey", "deviceCode"}
                              \union (IF sdk = "electron" THEN {"appVersion"} ELSE {})
      [] op = "policy"     -> {}

\* How a string of text t is spelled: JSON.stringify and jsonEscape escape with
\* a backslash only what must be; .NET writes quotes and all but ASCII as \uXXXX.
JsSpelling(t) == IF t \in {"short", "quote"} THEN "backslash" ELSE "raw"

\* Fault: quotes, backslashes and line breaks are not escaped.
FaultCppSpelling(t) == "raw"
CppSpelling(t) == IF t \in {"short", "quote"} THEN "backslash" ELSE "raw"
DotnetSpelling(t) == CASE t = "plain" -> "raw" [] t = "short" -> "backslash" [] OTHER -> "unicode"

\* What the client signs.
SignedText(sdk, op, t) ==
    CASE sdk = "electron" ->
           [body |-> InOrder(Fields(sdk, op)),
            device |-> InOrder(DeviceFields \union {"hardwareSummary"}), spelling |-> JsSpelling(t)]
      [] sdk = "cpp" ->
           [body |-> Written(CppBody(op)), device |-> Written(CppDevice), spelling |-> CppSpelling(t)]
      [] sdk = "dotnet" ->
           [body |-> InOrder(Fields(sdk, op)),
            device |-> InOrder(DeviceFields), spelling |-> DotnetSpelling(t)]

\* The fields of a call that reach the server, the query of a GET with them.
Sent(sdk, op) ==
    IF op = "policy" THEN {"productCode"} \union (IF sdk = "electron" THEN {"appVersion"} ELSE {})
    ELSE SignedText(sdk, op, "plain").body.fields

SentDevice(sdk, op) == IF op = "activate" THEN SignedText(sdk, op, "plain").device.fields ELSE {}
-----------------------------------------------------------------------------
\* readPublicApiSigningSecret: a secret is found by product and version, which
\* an activation carries in its device.
SecretFound(sdk, op) ==
    /\ "productCode" \in Sent(sdk, op)
    /\ "appVersion" \in Sent(sdk, op) \union SentDevice(sdk, op)

\* What the server signs again: the fields it parsed.
ServerText(sdk, op, t) ==
    [body |-> InOrder(IF op = "policy" THEN {} ELSE Sent(sdk, op)),
     device |-> InOrder(SignedText(sdk, op, t).device.fields), spelling |-> JsSpelling(t)]

\* The DTOs: what a handler's input must have.
Required(op) ==
    CASE op = "activate"              -> {"productCode", "licenseKey", "device"}
      [] op \in {"verify", "heartbeat"} -> LeaseFields
      [] op = "deactivate"            -> {"productCode", "licenseKey", "deviceCode", "appVersion"}
      [] op = "policy"                -> {}

Valid(sdk, op) ==
    /\ Required(op) \subseteq Sent(sdk, op)
    /\ op = "activate" => DeviceFields \subseteq SentDevice(sdk, op)

\* What a call is answered before its handler runs, HANDLED if that runs.  The
\* guard stands before the validation.  A client signs when it has a secret,
\* which is when the server has one for it.
Answer(signing, sdk, op, t) ==
    CASE signing = "missing" -> "INTERNAL_ERROR"
      [] signing = "on" /\ ~SecretFound(sdk, op) -> "UNAUTHORIZED"
      [] signing = "on" /\ SignedText(sdk, op, t) # ServerText(sdk, op, t) -> "UNAUTHORIZED"
      [] signing # "missing" /\ ~Valid(sdk, op) -> "BAD_REQUEST"
      [] OTHER -> "HANDLED"
-----------------------------------------------------------------------------
Call == [signing : {"off", "on"}, sdk : Sdk, op : Op, text : Text]

\* The calls that reach their handlers.
Understood == {c \in Call : Answer(c.signing, c.sdk, c.op, c.text) = "HANDLED"}

\* The calls that are meant to: every one of the Electron SDK; the C++ client's
\* activations, verifications and heartbeats; the .NET client's, too, where
\* nothing is signed or no text holds quotes or anything outside ASCII.
Supported ==
    {c \in Call :
        \/ c.sdk = "electron"
        \/ /\ c.op \in {"activate", "verify", "heartbeat"}
           /\ c.sdk = "cpp" \/ c.signing = "off" \/ c.text \in {"plain", "short"}}

AllUnderstood == Supported \subseteq Understood
=============================================================================

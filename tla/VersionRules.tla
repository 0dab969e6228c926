---------------------------- MODULE VersionRules ----------------------------
(***************************************************************************)
(* compareVersion and ensureAllowed of server/src/version/version.service. *)
(* A version string is the sequence of its parts between dots.  A part that*)
(* Number() cannot read, such as the last one of "1.2.3-beta", is NaN.     *)
(***************************************************************************)
EXTENDS Integers, Sequences

NaN == -1
Parts == Nat \union {NaN}
Version == Seq(Parts)

Larger(m, n) == IF m >= n THEN m ELSE n

\* (Number(value) || 0) ?? 0
Part(v, i) == IF i \in DOMAIN v /\ v[i] # NaN THEN v[i] ELSE 0

\* Fault: only the parts both versions have are compared.
FaultDiffering(l, r) == {i \in DOMAIN l \intersect DOMAIN r : Part(l, i) # Part(r, i)}
Differing(l, r) == {i \in 1 .. Larger(Len(l), Len(r)) : Part(l, i) # Part(r, i)}

compareVersion(l, r) ==
    LET D == Differing(l, r)
        first == CHOOSE i \in D : \A j \in D : i <= j
    IN IF D = {} THEN 0 ELSE Part(l, first) - Part(r, first)

ensureAllowed(policy, v) == ~(policy.force /\ compareVersion(v, policy.min) < 0)

\* The order versions are meant to have, independent of how it is computed.
Precedes(l, r) ==
    \E i \in 1 .. Larger(Len(l), Len(r)) :
        /\ Part(l, i) < Part(r, i)
        /\ \A j \in 1 .. i - 1 : Part(l, j) = Part(r, j)
=============================================================================

---------------------------- MODULE MCPublicApi ----------------------------
(***************************************************************************)
(* PublicApi with its RequestGuards on small instances.                    *)
(***************************************************************************)
EXTENDS PublicApi, TLC

\* Each key is a route of its own.
EachItsOwn == [k \in Key |-> k]

\* Keys, and with them their routes, are interchangeable.
Symmetry == Permutations(Key)
=============================================================================

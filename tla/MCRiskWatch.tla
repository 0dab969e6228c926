---------------------------- MODULE MCRiskWatch ----------------------------
(***************************************************************************)
(* RiskWatch on small instances.                                           *)
(***************************************************************************)
EXTENDS RiskWatch, TLC

\* A policy that is not forced, and one that excludes version 1 and not 1.1.
MCPolicies == {[min |-> <<1>>, force |-> FALSE], [min |-> <<1, 1>>, force |-> TRUE]}
MCVersions == {<<1>>, <<1, 1>>}

Symmetry == Permutations(Worker) \union Permutations(Ip)
=============================================================================

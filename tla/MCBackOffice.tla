----------------------------- MODULE MCBackOffice -----------------------------
(* BackOffice on small instances. *)
EXTENDS BackOffice, TLC

Symmetry == Permutations(Worker) \union Permutations(Request) \union Permutations(Device)
=============================================================================

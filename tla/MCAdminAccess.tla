--------------------------- MODULE MCAdminAccess ---------------------------
(***************************************************************************)
(* AdminAccess on small instances.                                         *)
(***************************************************************************)
EXTENDS AdminAccess, TLC

\* Workers are interchangeable, and so are the accounts made by administrators.
Symmetry == Permutations(Worker) \union Permutations(Admin \ {Seeded}) \union Permutations(Password)
=============================================================================

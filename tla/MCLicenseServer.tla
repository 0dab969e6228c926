-------------------------- MODULE MCLicenseServer --------------------------
(***************************************************************************)
(* LicenseServer on small instances.                                       *)
(***************************************************************************)
EXTENDS LicenseServer, TLC

\* Rows, codes and workers are interchangeable: no action distinguishes them.
Symmetry ==
    Permutations(Worker) \union Permutations(License)
        \union Permutations(DeviceCode) \union Permutations(LeaseId)
=============================================================================

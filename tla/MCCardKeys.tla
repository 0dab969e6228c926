---------------------------- MODULE MCCardKeys ----------------------------
(***************************************************************************)
(* CardKeys on small instances.                                            *)
(***************************************************************************)
EXTENDS CardKeys, TLC
=============================================================================

------------------------------ MODULE KeyLife -------------------------------
(***************************************************************************)
(* What a card key promises, without requests, transactions or card rows:  *)
(* one licence is issued for it, in one step and at most once; whoever     *)
(* presents the key uses that licence; when its product is removed the     *)
(* licence goes with it and the key yields nothing again.                  *)
(***************************************************************************)

CONSTANT LicenseId   \* ids of licence rows

VARIABLES issued,    \* the licence of the key: one id, or none
          used,      \* the licences that were used with the key
          dead       \* the product has been removed

keyVars == <<issued, used, dead>>

KeyInit == issued = {} /\ used = {} /\ dead = FALSE

\* By a redemption, which uses the licence, or by an administrator.
Issue(l) ==
    /\ ~dead
    /\ issued = {}
    /\ issued' = {l}
    /\ used' \in {used, used \union {l}}
    /\ UNCHANGED dead

Use(l) ==
    /\ l \in issued
    /\ used' = used \union {l}
    /\ UNCHANGED <<issued, dead>>

Die ==
    /\ ~dead
    /\ dead' = TRUE
    /\ issued' = {}
    /\ UNCHANGED used

KeyNext == (\E l \in LicenseId : Issue(l) \/ Use(l)) \/ Die

KeySpec == KeyInit /\ [][KeyNext]_keyVars
=============================================================================

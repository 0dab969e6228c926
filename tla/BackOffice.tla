------------------------------ MODULE BackOffice ------------------------------
(***************************************************************************)
(* The two parts of server/src/admin/p2/p2.controller.ts that clients take *)
(* part in: requests to unbind a device, and offline packages.  They meet  *)
(* where a product is deleted: the transaction of products.controller.ts   *)
(* takes the rows of both, under whatever the handlers are doing.          *)
(***************************************************************************)
EXTENDS UnbindRequests, OfflinePackages

vars == <<unbindVars, offlineVars>>

\* DELETE products/:id, one transaction; of this product, later of one that has
\* packages under the same codes.
DeleteProduct == DeleteRows /\ DeletePackages

Init == UnbindInit /\ OfflineInit

Next ==
    \/ UnbindNext /\ UNCHANGED offlineVars
    \/ OfflineNext /\ UNCHANGED unbindVars
    \/ DeleteProduct

Spec == Init /\ [][Next]_vars
=============================================================================

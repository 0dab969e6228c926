--------------------------- MODULE MCAdminConsole ---------------------------
(***************************************************************************)
(* AdminConsole on small instances.                                        *)
(***************************************************************************)
EXTENDS AdminConsole
=============================================================================

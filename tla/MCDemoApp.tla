------------------------------ MODULE MCDemoApp ------------------------------
(* DemoApp on small instances. *)
EXTENDS DemoApp
=============================================================================

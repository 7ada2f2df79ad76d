----------------------------- MODULE MCNetwork -----------------------------
(* Network on the small instance that its configuration gives.             *)
EXTENDS Network

=============================================================================

-------------------------------- MODULE MCPage --------------------------------
(* A small instance of Page for TLC. *)
EXTENDS Page
=============================================================================

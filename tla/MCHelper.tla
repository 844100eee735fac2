------------------------------ MODULE MCHelper ------------------------------
(* The instance of Helper that TLC checks. *)
EXTENDS Helper
=============================================================================

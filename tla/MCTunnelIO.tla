----------------------------- MODULE MCTunnelIO -----------------------------
(* Instances of TunnelIO for TLC; the bounds are in the .cfg files. *)
EXTENDS TunnelIO
=============================================================================

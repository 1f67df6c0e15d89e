------------------------------ MODULE MCBridge ------------------------------
(* The instance of Bridge for TLC; its values are in the configuration. *)
EXTENDS Bridge
=============================================================================

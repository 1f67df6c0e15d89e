------------------------------ MODULE MCSession ------------------------------
(* Instances of Session for TLC; the bounds are given in the .cfg files. *)
EXTENDS Session
=============================================================================

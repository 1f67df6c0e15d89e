---------------------------- MODULE MCHostedTier ----------------------------
(* The instance of HostedTier for TLC; its bounds are in the configurations. *)
EXTENDS HostedTier, TLC

\* Requests are interchangeable: nothing is owed to any of them.
AnyRequest == Permutations(Request)
=============================================================================

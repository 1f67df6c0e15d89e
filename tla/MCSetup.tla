------------------------------ MODULE MCSetup ------------------------------
(* The instance of Setup for TLC: its runs, and its settings, are alike. *)
EXTENDS Setup, TLC

Alike == Permutations(Process) \cup Permutations(Setting)
=============================================================================

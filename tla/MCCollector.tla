----------------------------- MODULE MCCollector -----------------------------
(* The instance of Collector for TLC; the other values are given in the .cfg   *)
(* file.  The outside is restricted to what makes discovery work: there is     *)
(* room for two accounts, 2 and 3 are configured when the process starts, and  *)
(* then either 1, the oldest, enrols and evicts 3, or 2 is given a second      *)
(* configuration, withdrawn and chosen again, as often as it likes.            *)
EXTENDS Collector

SecondChanges == [a \in Account |-> IF a = 2 THEN 2 ELSE 1]

Enrolled == [a \in Account |-> IF a = 1 THEN None ELSE 1]

Outside ==
  \/ config[2] = 1 /\ Configure(1)
  \/ config[1] = None /\ (Configure(2) \/ (config[2] = 2 /\ Withdraw(2)))
  \/ Stop

RestrictedInit == Init /\ config = Enrolled /\ db = Enrolled

\* The steps of the process, all of Collector's.
Inside ==
  \/ \E t \in Task : TaskStep(t)
  \/ AdmitNext \/ AdmissionEnds
  \/ DiscoveryStep

\* No second slot is ever used (OneTaskPerAccount): fairness of the first ones is
\* enough, and less than FairSpec assumes.
RestrictedSpec ==
  /\ RestrictedInit
  /\ [][Outside \/ Inside]_vars
  /\ \A a \in Account : TaskFairness(<<a, 1>>)
  /\ LoopFairness
=============================================================================

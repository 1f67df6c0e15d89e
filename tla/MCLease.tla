------------------------------- MODULE MCLease -------------------------------
(* Instances of Lease for TLC: deployments of the same program. *)
EXTENDS Lease

CONSTANTS p1, p2, p3, b1, b2, b3, probe

ThreeProcesses == {p1, p2, p3}
Backends == {b1, b2, b3, probe}

\* The direct endpoint: a backend for each connection.
DirectRoute ==
  [p \in Process |-> CASE p = p1 -> {b1} [] p = p2 -> {b2} [] p = p3 -> {b3}]

\* p3 is behind session multiplexing, which puts both its connections on one backend.
MixedProbe == [p \in Process |-> IF p = p3 THEN {b3} ELSE {probe}]

\* Two processes on the direct endpoint, or one and a misconfigured one: the third
\* has failed to connect and ended before the others start.
MCInit ==
  \E ended \in {p2, p3} :
    /\ pc = [p \in Process |-> IF p = ended THEN "exited" ELSE "off"]
    /\ status = [p \in Process |-> IF p = ended THEN "failed" ELSE "none"]
    /\ conn = [p \in Process |-> "none"]
    /\ checking = [p \in Process |-> "no"]
    /\ signalled = [p \in Process |-> FALSE]
    /\ lost = [p \in Process |-> FALSE]
    /\ failed = [p \in Process |-> FALSE]
    /\ locker = NoBackend
    /\ depth = 0

\* Less fairness than FairSpec: p3 owes no step beyond the check that refuses it.
MCSpec ==
  /\ MCInit /\ [][Next]_vars
  /\ \A p \in {p1, p2} : ProcessFairness(p)
  /\ WF_vars(CheckPasses(p3) \/ CheckRefuses(p3))
  /\ WF_vars(TakingFails(p3) /\ conn[p3] = "broken")
  /\ \A p \in Process : WF_vars(SocketTimesOut(p))
=============================================================================

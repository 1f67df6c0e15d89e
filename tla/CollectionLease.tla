--------------------------- MODULE CollectionLease ---------------------------
(***************************************************************************)
(* What the collection lease promises, without Postgres, heartbeats or     *)
(* sockets: at most one process owns the lease, only a process that was    *)
(* given the lease collects, and a process may go on collecting after its  *)
(* ownership has lapsed -- it is told later, never at that instant.  The   *)
(* module Lease (collector/src/lease.ts and supervise.ts) implements it.   *)
(***************************************************************************)
EXTENDS FiniteSets

CONSTANTS
  Process,      \* runs of the collector program
  NoOwner       \* the lease is free

VARIABLES
  owner,        \* the process the lease belongs to, or NoOwner
  lapsed,       \* processes that were granted the lease, have lost it, and still act
  collectors    \* processes with account sessions open

leaseVars == <<owner, lapsed, collectors>>

Init ==
  /\ owner = NoOwner
  /\ lapsed = {}
  /\ collectors = {}

Acquire(p) ==
  /\ owner = NoOwner
  /\ p \notin lapsed \cup collectors
  /\ owner' = p
  /\ UNCHANGED <<lapsed, collectors>>

\* A grant may be acted upon after it has lapsed: the answer was on its way.
Begin(p) ==
  /\ p = owner \/ p \in lapsed
  /\ p \notin collectors
  /\ collectors' = collectors \cup {p}
  /\ UNCHANGED <<owner, lapsed>>

Lapse(p) ==
  /\ owner = p
  /\ owner' = NoOwner
  /\ lapsed' = lapsed \cup {p}
  /\ UNCHANGED collectors

End(p) ==
  /\ p \in collectors
  /\ collectors' = collectors \ {p}
  /\ lapsed' \in {lapsed, lapsed \ {p}}
  /\ UNCHANGED owner

Forget(p) ==
  /\ p \in lapsed \ collectors
  /\ lapsed' = lapsed \ {p}
  /\ UNCHANGED <<owner, collectors>>

Release(p) ==
  /\ owner = p
  /\ p \notin collectors
  /\ owner' = NoOwner
  /\ UNCHANGED <<lapsed, collectors>>

Next == \E p \in Process :
  \/ Acquire(p) \/ Begin(p) \/ Lapse(p)
  \/ End(p) \/ Forget(p) \/ Release(p)

Spec == Init /\ [][Next]_leaseVars

-----------------------------------------------------------------------------

\* Two processes collect together only while one of them has lost the lease and
\* does not know it (lease.ts:2 and supervise.ts:57, put exactly).
ExclusiveUnlessLapsed ==
  \A p, q \in collectors \ lapsed : p = q
=============================================================================

----------------------------- MODULE LeaseProofs -----------------------------
(* Theorems about Lease, for any number of processes and any deployment. *)
EXTENDS Lease, FiniteSetTheorems, TLAPS

-----------------------------------------------------------------------------
(* Types.  The depth of the lock has to be counted along with it. *)

LockCounted ==
  \/ locker = NoBackend /\ depth = 0
  \/ locker \in Backend /\ depth \in Nat \ {0}

TypeInv == TypeOK /\ LockCounted

\* Freeing a lock keeps it counted.
LEMMA FreeLockCounted ==
  ASSUME LockCounted, NEW p \in Process, FreeLockOf(p)
  PROVE  LockCounted'
  BY DEF LockCounted, FreeLockOf, lockVars

\* Every step keeps the type invariant; the lock is taken and given back by
\* four operations only.
LEMMA TypeStep == TypeInv /\ [Next]_vars => TypeInv'
<1> SUFFICES ASSUME TypeInv, [Next]_vars PROVE TypeInv'
  OBVIOUS
<1> USE RoutesAreBackends DEF TypeInv, TypeOK, processVars, Goto, Exit, ExitStatus
<1>1. CASE UNCHANGED vars
  BY <1>1 DEF vars, LockCounted
<1>2. ASSUME NEW p \in Process, Taking(p) PROVE TypeInv'
  <2>1. CASE LockGranted(p)
    BY <2>1 DEF LockGranted, LockCounted
  <2>2. CASE Start(p) \/ CheckPasses(p) \/ CheckRefuses(p) \/ LockTaken(p)
               \/ Poll(p) \/ StandbyStops(p) \/ TakingFails(p) \/ Hold(p)
    BY <2>2 DEF Start, CheckPasses, CheckRefuses, LockTaken, Poll, StandbyStops,
                TakingFails, Hold, lockVars, LockCounted
  <2> QED BY <1>2, <2>1, <2>2 DEF Taking
<1>3. ASSUME NEW p \in Process, Heartbeat(p) PROVE TypeInv'
  BY <1>3 DEF Heartbeat, HeartbeatTick, HeartbeatQuery, HeartbeatReply,
              HeartbeatThrows, HeartbeatTimesOut, Lose, Collecting, lockVars,
              LockCounted
<1>4. ASSUME NEW p \in Process, Releasing(p) PROVE TypeInv'
  <2>1. CASE Unlock(p)
    BY <2>1 DEF Unlock, LockCounted, lockVars
  <2>2. CASE Disconnect(p)
    <3>1. LockCounted'
      BY <2>2, FreeLockCounted DEF Disconnect
    <3> QED BY <2>2, <3>1 DEF Disconnect, LockCounted
  <2>3. CASE StopCollecting(p) \/ DiscoveryFails(p) \/ SessionsClosed(p)
               \/ GiveUpRelease(p)
    BY <2>3 DEF StopCollecting, DiscoveryFails, SessionsClosed, GiveUpRelease,
                lockVars, LockCounted
  <2> QED BY <1>4, <2>1, <2>2, <2>3 DEF Releasing
<1>5. ASSUME NEW p \in Process, Outside(p) PROVE TypeInv'
  <2>1. CASE SessionDrops(p) \/ SessionExpires(p) \/ SessionReaped(p)
    <3>1. LockCounted'
      BY <2>1, FreeLockCounted
      DEF SessionDrops, SessionExpires, SessionReaped, lockVars, LockCounted
    <3> QED
      BY <2>1, <3>1 DEF SessionDrops, SessionExpires, SessionReaped, LockCounted
  <2>2. CASE Signal(p) \/ Crash(p) \/ SocketTimesOut(p)
    BY <2>2 DEF Signal, Crash, SocketTimesOut, lockVars, LockCounted
  <2> QED BY <1>5, <2>1, <2>2 DEF Outside
<1> QED BY <1>1, <1>2, <1>3, <1>4, <1>5 DEF Next

LEMMA TypeInvariant == Spec => []TypeInv
<1>1. Init => TypeInv
  BY RoutesAreBackends DEF Init, TypeInv, TypeOK, LockCounted
<1> QED BY <1>1, TypeStep, PTL DEF Spec

\* Every variable keeps its type; the depth does because the lock is counted.
THEOREM TypeCorrect == Spec => []TypeOK
<1>1. TypeInv => TypeOK
  BY DEF TypeInv
<1> QED BY <1>1, TypeInvariant, PTL

-----------------------------------------------------------------------------
(* Exclusion, on a direct endpoint.                                          *)

\* No backend runs the statements of two lease connections, and the value that
\* stands for a free lock is no backend.
LEMMA DirectRoutesAreDisjoint ==
  ASSUME DirectEndpoint, NEW p \in Process, NEW q \in Process, NEW b \in Route[p],
         NEW c \in Route[q], b = c
  PROVE  p = q /\ b # NoBackend
  BY RoutesAreBackends DEF DirectEndpoint, Dedicated

\* Every step keeps the lock over the process that acts on it.  Whoever takes or
\* frees the lock is either that process or finds somebody else's backend on it.
LEMMA CoverStep ==
  ASSUME DirectEndpoint, TypeInv, LockCoversCollection, [Next]_vars
  PROVE  LockCoversCollection'
<1> SUFFICES ASSUME NEW q \in Process,
                    pc'[q] \in {"granted", "collecting", "closing", "releasing"},
                    conn'[q] = "open"
             PROVE  locker' \in Route[q]
  BY DEF LockCoversCollection, Holds
<1> DEFINE Covered == pc[q] \in {"granted", "collecting", "closing", "releasing"}
                        /\ conn[q] = "open" => locker \in Route[q]
<1>0. Covered
  BY DEF LockCoversCollection, Holds
<1> USE DEF TypeInv, TypeOK, processVars, lockVars, Goto, Exit
<1>1. CASE UNCHANGED vars
  BY <1>0, <1>1 DEF vars
<1>2. ASSUME NEW p \in Process, Taking(p) PROVE locker' \in Route[q]
  <2>1. CASE LockGranted(p)
    <3>1. PICK b \in Route[p] : locker \in {NoBackend, b} /\ locker' = b
      BY <2>1 DEF LockGranted
    <3>2. CASE p = q
      BY <3>1, <3>2
    <3>3. CASE p # q
      <4>1. locker \in Route[q]
        BY <1>0, <2>1, <3>3 DEF LockGranted
      <4> QED BY <3>1, <3>3, <4>1, DirectRoutesAreDisjoint
    <3> QED BY <3>2, <3>3
  <2>2. CASE Start(p) \/ CheckPasses(p) \/ CheckRefuses(p) \/ LockTaken(p)
               \/ Poll(p) \/ StandbyStops(p) \/ TakingFails(p) \/ Hold(p)
    BY <1>0, <2>2 DEF Start, CheckPasses, CheckRefuses, LockTaken, Poll,
                      StandbyStops, TakingFails, Hold
  <2> QED BY <1>2, <2>1, <2>2 DEF Taking
<1>3. ASSUME NEW p \in Process, Heartbeat(p) PROVE locker' \in Route[q]
  BY <1>0, <1>3 DEF Heartbeat, HeartbeatTick, HeartbeatQuery, HeartbeatReply,
                    HeartbeatThrows, HeartbeatTimesOut
<1>4. ASSUME NEW p \in Process, FreeLockOf(p), p # q, locker \in Route[q]
      PROVE  locker' \in Route[q]
  BY <1>4, DirectRoutesAreDisjoint DEF FreeLockOf, Holds
<1>5. ASSUME NEW p \in Process, Releasing(p) PROVE locker' \in Route[q]
  <2>1. CASE Unlock(p)
    <3>1. p # q /\ locker \in Route[q]
      BY <1>0, <2>1 DEF Unlock
    <3> QED BY <2>1, <3>1, DirectRoutesAreDisjoint DEF Unlock
  <2>2. CASE Disconnect(p)
    BY <1>0, <1>4, <2>2 DEF Disconnect
  <2>3. CASE StopCollecting(p) \/ DiscoveryFails(p) \/ SessionsClosed(p)
               \/ GiveUpRelease(p)
    BY <1>0, <2>3 DEF StopCollecting, DiscoveryFails, SessionsClosed, GiveUpRelease
  <2> QED BY <1>5, <2>1, <2>2, <2>3 DEF Releasing
<1>6. ASSUME NEW p \in Process, Outside(p) PROVE locker' \in Route[q]
  <2>1. CASE SessionDrops(p) \/ SessionExpires(p) \/ SessionReaped(p)
    <3>1. p # q /\ locker \in Route[q]
      BY <1>0, <2>1 DEF SessionDrops, SessionExpires, SessionReaped
    <3> QED BY <1>4, <2>1, <3>1 DEF SessionDrops, SessionExpires, SessionReaped
  <2>2. CASE Signal(p) \/ Crash(p) \/ SocketTimesOut(p)
    BY <1>0, <2>2 DEF Signal, Crash, SocketTimesOut
  <2> QED BY <1>6, <2>1, <2>2 DEF Outside
<1> QED BY <1>1, <1>2, <1>3, <1>5, <1>6 DEF Next

\* On a direct endpoint the lock covers everything done in its name, for any
\* number of processes and any interleaving of crashes, drops and releases.
THEOREM LockCovers ==
  ASSUME DirectEndpoint
  PROVE  Spec => []LockCoversCollection
<1>1. Init => TypeInv /\ LockCoversCollection
  BY RoutesAreBackends DEF Init, TypeInv, TypeOK, LockCounted, LockCoversCollection
<1>2. TypeInv /\ LockCoversCollection /\ [Next]_vars
        => (TypeInv /\ LockCoversCollection)'
  BY TypeStep, CoverStep
<1> QED BY <1>1, <1>2, PTL DEF Spec

\* Two processes collect together only while one has lost its connection: two
\* covered ones would have two backends on one lock.
THEOREM OverlapAfterLoss ==
  ASSUME DirectEndpoint
  PROVE  Spec => []OverlapOnlyAfterLoss
<1>1. LockCoversCollection => OverlapOnlyAfterLoss
  BY DirectRoutesAreDisjoint
  DEF LockCoversCollection, OverlapOnlyAfterLoss, Collecting, Holds
<1> QED BY <1>1, LockCovers, PTL

\* Collecting begins with the lock held and nothing telling the process to stop.
THEOREM BeginsGranted ==
  ASSUME DirectEndpoint
  PROVE  Spec => CollectionBeginsGranted
<1>1. ASSUME TypeInv, LockCoversCollection, [Next]_vars, NEW p \in Process,
             ~ Collecting(p), Collecting(p)'
      PROVE  ~ Stopping(p) /\ (conn[p] = "open" => Holds(p))
  <2> USE <1>1 DEF TypeInv, TypeOK, Collecting
  <2>1. Hold(p)
    <3> USE DEF Goto, Exit
    <3>1. ~ UNCHANGED pc
      OBVIOUS
    <3>2. PICK q \in Process : Taking(q) \/ Heartbeat(q) \/ Releasing(q) \/ Outside(q)
      BY <3>1 DEF Next, vars
    <3>3. ~ Heartbeat(q)
      BY <3>1 DEF Heartbeat, HeartbeatTick, HeartbeatQuery, HeartbeatReply,
                  HeartbeatThrows, HeartbeatTimesOut
    <3>4. ~ Releasing(q)
      BY DEF Releasing, StopCollecting, DiscoveryFails, SessionsClosed, Unlock,
             Disconnect, GiveUpRelease
    <3>5. ~ Outside(q)
      BY DEF Outside, Signal, Crash, SessionDrops, SessionExpires, SocketTimesOut,
             SessionReaped
    <3>6. Taking(q) => Hold(q) /\ p = q
      BY DEF Taking, Start, CheckPasses, CheckRefuses, LockGranted, LockTaken, Poll,
             StandbyStops, TakingFails, Hold
    <3> QED BY <3>2, <3>3, <3>4, <3>5, <3>6
  <2> QED BY <2>1 DEF Hold, Goto, LockCoversCollection
<1>2. TypeInv /\ LockCoversCollection /\ [Next]_vars
        => [\A p \in Process :
              ~ Collecting(p) /\ Collecting(p)' =>
                ~ Stopping(p) /\ (conn[p] = "open" => Holds(p))]_vars
  BY <1>1
<1>3. Spec => []TypeInv
  BY TypeInvariant
<1> QED BY <1>2, <1>3, LockCovers, PTL DEF Spec, CollectionBeginsGranted

-----------------------------------------------------------------------------
(* How a process ends, on any endpoint.                                      *)

\* supervise is past collecting only for a reason its exit status can name ...
ReasonKept ==
  \A p \in Process :
    /\ lost[p] => pc[p] \in {"collecting", "closing", "releasing",
                             "disconnecting", "exited"}
    /\ pc[p] \in {"closing", "releasing", "disconnecting"}
         => failed[p] \/ signalled[p] \/ lost[p]

\* ... and a status is given once, at the end.
StatusAtTheEnd ==
  \A p \in Process : status[p] = "clean" => pc[p] = "exited"

ExitInv == ReasonKept /\ StatusAtTheEnd /\ CleanExitWasAsked

LEMMA ExitStep ==
  ASSUME TypeInv, ExitInv, [Next]_vars
  PROVE  ExitInv'
<1> SUFFICES ASSUME NEW q \in Process
    PROVE /\ lost'[q] => pc'[q] \in {"collecting", "closing", "releasing",
                                     "disconnecting", "exited"}
          /\ pc'[q] \in {"closing", "releasing", "disconnecting"}
               => failed'[q] \/ signalled'[q] \/ lost'[q]
          /\ status'[q] = "clean" => /\ pc'[q] = "exited"
                                     /\ signalled'[q] /\ ~ lost'[q]
  BY DEF ExitInv, ReasonKept, StatusAtTheEnd, CleanExitWasAsked
<1> USE DEF TypeInv, TypeOK, ExitInv, ReasonKept, StatusAtTheEnd,
            CleanExitWasAsked, processVars, Goto, Exit, ExitStatus, Stopping
<1>1. CASE UNCHANGED vars
  BY <1>1 DEF vars
<1>2. ASSUME NEW p \in Process, Taking(p) PROVE ExitInv'
  BY <1>2 DEF Taking, Start, CheckPasses, CheckRefuses, LockGranted, LockTaken,
              Poll, StandbyStops, TakingFails, Hold
<1>3. ASSUME NEW p \in Process, Heartbeat(p) PROVE ExitInv'
  BY <1>3 DEF Heartbeat, HeartbeatTick, HeartbeatQuery, HeartbeatReply,
              HeartbeatThrows, HeartbeatTimesOut, Lose, Collecting
<1>4. ASSUME NEW p \in Process, Releasing(p) PROVE ExitInv'
  BY <1>4 DEF Releasing, StopCollecting, DiscoveryFails, SessionsClosed, Unlock,
              Disconnect, GiveUpRelease
<1>5. ASSUME NEW p \in Process, Outside(p) PROVE ExitInv'
  BY <1>5 DEF Outside, Signal, Crash, SessionDrops, SessionExpires,
              SocketTimesOut, SessionReaped
<1> QED BY <1>1, <1>2, <1>3, <1>4, <1>5 DEF Next

\* No loss, failure, crash or refusal is reported as a clean end.
THEOREM CleanExit == Spec => []CleanExitWasAsked
<1>1. Init => ExitInv
  BY DEF Init, ExitInv, ReasonKept, StatusAtTheEnd, CleanExitWasAsked
<1>2. TypeInv /\ ExitInv /\ [Next]_vars => ExitInv'
  BY ExitStep
<1>3. ExitInv => CleanExitWasAsked
  BY DEF ExitInv
<1> QED BY <1>1, <1>2, <1>3, TypeInvariant, PTL DEF Spec

-----------------------------------------------------------------------------
(* Deployments: a pooler that multiplexes, and a direct endpoint that never   *)
(* drops a session.                                                           *)

\* Every statement of both connections lands on the same backend.
Multiplexed(p) == Route[p] = ProbeRoute[p] /\ Cardinality(Route[p]) = 1

RefusedByCheck ==
  \A p \in Process : Multiplexed(p) => pc[p] \in {"off", "checking", "exited"}

LEMMA CheckRefusesMultiplexed ==
  ASSUME NEW p \in Process, Multiplexed(p)
  PROVE  ~ CheckPasses(p)
<1>1. IsFiniteSet(Route[p])
  BY RoutesAreBackends, FS_Subset
<1>2. PICK b : Route[p] = {b}
  BY <1>1, FS_Singleton DEF Multiplexed
<1> QED BY <1>2 DEF CheckPasses, SessionLooksReal, Multiplexed

LEMMA RefusedStep ==
  ASSUME TypeInv, RefusedByCheck, [Next]_vars
  PROVE  RefusedByCheck'
<1> SUFFICES ASSUME NEW q \in Process, Multiplexed(q)
             PROVE  pc'[q] \in {"off", "checking", "exited"}
  BY DEF RefusedByCheck
<1>0. pc[q] \in {"off", "checking", "exited"}
  BY DEF RefusedByCheck
<1> USE DEF TypeInv, TypeOK, processVars, Goto, Exit
<1>1. CASE UNCHANGED vars
  BY <1>0, <1>1 DEF vars
<1>2. ASSUME NEW p \in Process, Taking(p) PROVE pc'[q] \in {"off", "checking", "exited"}
  <2>1. CASE CheckPasses(p)
    BY <1>0, <2>1, CheckRefusesMultiplexed DEF CheckPasses
  <2>2. CASE ~ CheckPasses(p)
    BY <1>0, <1>2, <2>2 DEF Taking, Start, CheckRefuses, LockGranted, LockTaken,
                            Poll, StandbyStops, TakingFails, Hold
  <2> QED BY <2>1, <2>2
<1>3. ASSUME NEW p \in Process, Heartbeat(p) PROVE pc'[q] \in {"off", "checking", "exited"}
  BY <1>0, <1>3 DEF Heartbeat, HeartbeatTick, HeartbeatQuery, HeartbeatReply,
                    HeartbeatThrows, HeartbeatTimesOut
<1>4. ASSUME NEW p \in Process, Releasing(p) PROVE pc'[q] \in {"off", "checking", "exited"}
  BY <1>0, <1>4 DEF Releasing, StopCollecting, DiscoveryFails, SessionsClosed,
                    Unlock, Disconnect, GiveUpRelease
<1>5. ASSUME NEW p \in Process, Outside(p) PROVE pc'[q] \in {"off", "checking", "exited"}
  BY <1>0, <1>5 DEF Outside, Signal, Crash, SessionDrops, SessionExpires,
                    SocketTimesOut, SessionReaped
<1> QED BY <1>1, <1>2, <1>3, <1>4, <1>5 DEF Next

\* Behind session multiplexing nobody collects, whatever else goes on there.
THEOREM MultiplexedRefused == Spec => []MultiplexedNeverCollects
<1>1. Init => RefusedByCheck
  BY DEF Init, RefusedByCheck
<1>2. TypeInv /\ RefusedByCheck /\ [Next]_vars => RefusedByCheck'
  BY RefusedStep
<1>3. RefusedByCheck => MultiplexedNeverCollects
  BY DEF RefusedByCheck, MultiplexedNeverCollects, Multiplexed, Collecting
<1> QED BY <1>1, <1>2, <1>3, TypeInvariant, PTL DEF Spec

\* Without drops the connection of a process that collects is open.
Connected ==
  /\ \A p \in Process : conn[p] \in {"none", "open"}
  /\ \A p \in Process :
       pc[p] \in {"checking", "trying", "granted", "collecting", "closing"}
         => conn[p] = "open"

LEMMA ConnectedStep ==
  ASSUME ~ SessionsMayDrop, TypeInv, Connected, [Next]_vars
  PROVE  Connected'
<1> SUFFICES ASSUME NEW q \in Process
    PROVE /\ conn'[q] \in {"none", "open"}
          /\ pc'[q] \in {"checking", "trying", "granted", "collecting", "closing"}
               => conn'[q] = "open"
  BY DEF Connected
<1> USE DEF TypeInv, TypeOK, Connected, processVars, Goto, Exit
<1>1. CASE UNCHANGED vars
  BY <1>1 DEF vars
<1>2. ASSUME NEW p \in Process, Taking(p) PROVE Connected'
  BY <1>2 DEF Taking, Start, CheckPasses, CheckRefuses, LockGranted, LockTaken,
              Poll, StandbyStops, TakingFails, Hold
<1>3. ASSUME NEW p \in Process, Heartbeat(p) PROVE Connected'
  BY <1>3 DEF Heartbeat, HeartbeatTick, HeartbeatQuery, HeartbeatReply,
              HeartbeatThrows, HeartbeatTimesOut
<1>4. ASSUME NEW p \in Process, Releasing(p) PROVE Connected'
  BY <1>4 DEF Releasing, StopCollecting, DiscoveryFails, SessionsClosed, Unlock,
              Disconnect, GiveUpRelease
<1>5. ASSUME NEW p \in Process, Outside(p) PROVE Connected'
  BY <1>5 DEF Outside, Signal, Crash, SessionDrops, SessionExpires,
              SocketTimesOut, SessionReaped
<1> QED BY <1>1, <1>2, <1>3, <1>4, <1>5 DEF Next

\* As long as sessions do not drop there is one collector: crashes, signals,
\* failed discoveries and abandoned releases do not make a second.
THEOREM OneCollector ==
  ASSUME DirectEndpoint, ~ SessionsMayDrop
  PROVE  Spec => []NeverTwoCollectors
<1>1. Init => Connected
  BY DEF Init, Connected
<1>2. TypeInv /\ Connected /\ [Next]_vars => Connected'
  BY ConnectedStep
<1>3. Connected /\ LockCoversCollection => NeverTwoCollectors
  BY DirectRoutesAreDisjoint
  DEF Connected, LockCoversCollection, NeverTwoCollectors, Collecting, Holds
<1> QED BY <1>1, <1>2, <1>3, TypeInvariant, LockCovers, PTL DEF Spec

-----------------------------------------------------------------------------
(* On a direct endpoint Lease implements CollectionLease: the owner is the   *)
(* process whose backend holds the lock.                                     *)

\* A process has the lock only from its grant on: it never asks for a lock it
\* already has, so the lock does not become re-entrant.
HeldSinceGrant ==
  \A p \in Process : Holds(p) => pc[p] \notin {"off", "checking", "trying", "standby"}

LEMMA HeldStep ==
  ASSUME DirectEndpoint, TypeInv, HeldSinceGrant, [Next]_vars
  PROVE  HeldSinceGrant'
<1> SUFFICES ASSUME NEW q \in Process, locker' \in Route[q]
             PROVE  pc'[q] \notin {"off", "checking", "trying", "standby"}
  BY DEF HeldSinceGrant, Holds
<1> DEFINE Goal == pc'[q] \notin {"off", "checking", "trying", "standby"}
<1>0. locker \in Route[q] => pc[q] \notin {"off", "checking", "trying", "standby"}
  BY DEF HeldSinceGrant, Holds
<1>a. NoBackend \notin Route[q]
  BY RoutesAreBackends
<1> USE DEF TypeInv, TypeOK, processVars, lockVars, Goto, Exit
<1>1. CASE UNCHANGED vars
  BY <1>0, <1>1 DEF vars
<1>2. ASSUME NEW p \in Process, Taking(p) PROVE Goal
  <2>1. CASE LockGranted(p)
    <3>1. PICK b \in Route[p] : locker' = b
      BY <2>1 DEF LockGranted
    <3>2. p = q
      BY <3>1, DirectRoutesAreDisjoint
    <3> QED BY <2>1, <3>2 DEF LockGranted
  <2>2. CASE LockTaken(p)
    <3>1. PICK b \in Route[p] : locker \notin {NoBackend, b}
      BY <2>2 DEF LockTaken
    <3>2. p # q
      BY <1>0, <2>2 DEF LockTaken
    <3> QED BY <1>0, <2>2, <3>2 DEF LockTaken
  <2>3. CASE Start(p) \/ CheckPasses(p) \/ CheckRefuses(p)
               \/ Poll(p) \/ StandbyStops(p) \/ TakingFails(p) \/ Hold(p)
    BY <1>0, <2>3 DEF Start, CheckPasses, CheckRefuses, Poll, StandbyStops,
                      TakingFails, Hold
  <2> QED BY <1>2, <2>1, <2>2, <2>3 DEF Taking
<1>3. ASSUME NEW p \in Process, Heartbeat(p) PROVE Goal
  BY <1>0, <1>3 DEF Heartbeat, HeartbeatTick, HeartbeatQuery, HeartbeatReply,
                    HeartbeatThrows, HeartbeatTimesOut
<1>4. ASSUME NEW p \in Process, Releasing(p) PROVE Goal
  BY <1>0, <1>a, <1>4
  DEF Releasing, StopCollecting, DiscoveryFails, SessionsClosed, Unlock,
      Disconnect, GiveUpRelease, FreeLockOf
<1>5. ASSUME NEW p \in Process, Outside(p) PROVE Goal
  BY <1>0, <1>a, <1>5
  DEF Outside, Signal, Crash, SessionDrops, SessionExpires, SocketTimesOut,
      SessionReaped, FreeLockOf
<1> QED BY <1>1, <1>2, <1>3, <1>4, <1>5 DEF Next

-----------------------------------------------------------------------------
(* The refinement mapping. *)

LEMMA OwnerIs ==
  ASSUME DirectEndpoint, NEW p \in Process, NEW b \in Route[p]
  PROVE  OwnerAt(b) = p
BY DirectRoutesAreDisjoint DEF OwnerAt

LEMMA FreeHasNoOwner == OwnerAt(NoBackend) = NoBackend
BY RoutesAreBackends DEF OwnerAt

PromiseStep == [Promise!Next]_(Promise!leaseVars)

\* p moves on, the lock stays: it begins or ends collecting, forgets a lease
\* it has lost, or does nothing the promise speaks of.
LEMMA MoveMaps ==
  ASSUME DirectEndpoint, TypeInv, NEW p \in Process, UNCHANGED lockVars,
         NEW l, pc' = [pc EXCEPT ![p] = l],
         ~ (pc[p] \notin {"granted", "collecting", "closing", "releasing"}
              /\ l \in {"granted", "collecting", "closing", "releasing"}),
         l \in {"collecting", "closing"} => pc[p] \in {"granted", "collecting", "closing"}
  PROVE  PromiseStep
<1> USE DEF TypeInv, TypeOK
<1>1. OwnerAt(locker)' = OwnerAt(locker)
  BY DEF OwnerAt, lockVars
<1>2. \A q \in Process : Holds(q)' = Holds(q)
  BY DEF Holds, lockVars
<1>3. Collectors' = IF l \in {"collecting", "closing"} THEN Collectors \cup {p}
                                                       ELSE Collectors \ {p}
  BY DEF Collectors, Collecting
<1>4. Lapsed' = IF l \in {"granted", "collecting", "closing", "releasing"}
                THEN Lapsed ELSE Lapsed \ {p}
  BY <1>2 DEF Lapsed, Acting
<1>5. CASE l \in {"collecting", "closing"}
  <2>1. Holds(p) => OwnerAt(locker) = p
    BY OwnerIs DEF Holds
  <2>2. p \in Lapsed \/ OwnerAt(locker) = p
    BY <1>5, <2>1 DEF Lapsed, Acting
  <2>3. CASE p \in Collectors
    BY <1>1, <1>3, <1>4, <1>5, <2>3 DEF PromiseStep, Promise!leaseVars
  <2>4. CASE p \notin Collectors
    <3>1. Promise!Begin(p)
      BY <1>1, <1>3, <1>4, <1>5, <2>2, <2>4 DEF Promise!Begin
    <3> QED BY <3>1 DEF PromiseStep, Promise!Next
  <2> QED BY <2>3, <2>4
<1>6. CASE l \notin {"collecting", "closing"}
  <2>1. CASE p \in Collectors
    <3>1. Promise!End(p)
      BY <1>1, <1>3, <1>4, <1>6, <2>1 DEF Promise!End
    <3> QED BY <3>1 DEF PromiseStep, Promise!Next
  <2>2. CASE p \notin Collectors /\ p \in Lapsed /\ Lapsed' # Lapsed
    <3>1. Promise!Forget(p)
      BY <1>1, <1>3, <1>4, <1>6, <2>2 DEF Promise!Forget
    <3> QED BY <3>1 DEF PromiseStep, Promise!Next
  <2>3. CASE p \notin Collectors /\ (p \notin Lapsed \/ Lapsed' = Lapsed)
    BY <1>1, <1>3, <1>4, <1>6, <2>3 DEF PromiseStep, Promise!leaseVars
  <2> QED BY <2>1, <2>2, <2>3
<1> QED BY <1>5, <1>6

\* Nothing the promise speaks of changes.
LEMMA StutterMaps ==
  ASSUME UNCHANGED <<pc, locker>>
  PROVE  PromiseStep
BY DEF PromiseStep, Promise!leaseVars, OwnerAt, Lapsed, Acting, Holds, Collectors,
       Collecting

\* p's session ends: its lease lapses if it still acts on it, else it is released.
LEMMA FreeMaps ==
  ASSUME DirectEndpoint, TypeInv, NEW p \in Process, Holds(p), locker' = NoBackend,
         \/ UNCHANGED pc
         \/ ~ Collecting(p) /\ pc' \in {[pc EXCEPT ![p] = "disconnecting"],
                                        [pc EXCEPT ![p] = "exited"]}
  PROVE  PromiseStep
<1> USE DEF TypeInv, TypeOK
<1>1. OwnerAt(locker) = p
  BY OwnerIs DEF Holds
<1>2. OwnerAt(locker)' = NoBackend
  <2>1. OwnerAt(locker') = NoBackend
    BY FreeHasNoOwner
  <2> QED BY <2>1 DEF OwnerAt
<1>3. Collectors' = Collectors
  BY DEF Collectors, Collecting
<1>4. \A q \in Process : ~ Holds(q)' /\ (Holds(q) => q = p)
  BY RoutesAreBackends, DirectRoutesAreDisjoint DEF Holds
<1>5. CASE Acting(p)'
  <2>1. Lapsed' = Lapsed \cup {p}
    BY <1>4, <1>5 DEF Lapsed, Acting
  <2>2. Promise!Lapse(p)
    BY <1>1, <1>2, <1>3, <2>1 DEF Promise!Lapse
  <2> QED BY <2>2 DEF PromiseStep, Promise!Next
<1>6. CASE ~ Acting(p)'
  <2>1. Lapsed' = Lapsed
    BY <1>4, <1>6 DEF Lapsed, Acting
  <2>2. p \notin Collectors
    BY <1>6 DEF Collectors, Collecting, Acting
  <2>3. Promise!Release(p)
    BY <1>1, <1>2, <1>3, <2>1, <2>2 DEF Promise!Release
  <2> QED BY <2>3 DEF PromiseStep, Promise!Next
<1> QED BY <1>5, <1>6

\* A lock taken more than once stays held over an unlock: p moves on with it.
LEMMA RetakenMaps ==
  ASSUME DirectEndpoint, TypeInv, NEW p \in Process, Holds(p), UNCHANGED locker,
         pc[p] = "releasing", pc' = [pc EXCEPT ![p] = "disconnecting"]
  PROVE  PromiseStep
<1> USE DEF TypeInv, TypeOK
<1>1. OwnerAt(locker)' = OwnerAt(locker)
  BY DEF OwnerAt
<1>2. Lapsed' = Lapsed /\ Collectors' = Collectors
  BY DEF Lapsed, Acting, Holds, Collectors, Collecting
<1> QED BY <1>1, <1>2 DEF PromiseStep, Promise!leaseVars

\* The grant is the one step that takes the lock.
LEMMA GrantMaps ==
  ASSUME DirectEndpoint, TypeInv, HeldSinceGrant, NEW p \in Process, LockGranted(p)
  PROVE  PromiseStep
<1> USE DEF TypeInv, TypeOK
<1>1. PICK b \in Route[p] : locker \in {NoBackend, b} /\ locker' = b
  BY DEF LockGranted
<1>2. locker = NoBackend
  BY <1>1 DEF HeldSinceGrant, Holds, LockGranted
<1>3. OwnerAt(locker) = NoBackend
  BY <1>2, FreeHasNoOwner
<1>4. OwnerAt(locker)' = p
  <2>1. OwnerAt(locker') = p
    BY <1>1, OwnerIs
  <2> QED BY <2>1 DEF OwnerAt
<1>5. \A q \in Process : ~ Holds(q) /\ (Holds(q)' <=> q = p)
  BY <1>1, <1>2, RoutesAreBackends, DirectRoutesAreDisjoint DEF Holds
<1>6. Lapsed' = Lapsed /\ Collectors' = Collectors /\ p \notin Lapsed \cup Collectors
  BY <1>5 DEF Lapsed, Acting, Collectors, Collecting, LockGranted, Goto
<1>7. Promise!Acquire(p)
  BY <1>3, <1>4, <1>6 DEF Promise!Acquire
<1> QED BY <1>7 DEF PromiseStep, Promise!Next

\* Every step of the program is a step of the promise, or none.
LEMMA StepMaps ==
  ASSUME DirectEndpoint, TypeInv, HeldSinceGrant, LockCoversCollection, [Next]_vars
  PROVE  PromiseStep
<1> USE DEF processVars, lockVars, Goto, Exit
<1>1. CASE UNCHANGED vars
  BY <1>1, StutterMaps DEF vars
<1>2. ASSUME NEW p \in Process, Taking(p) PROVE PromiseStep
  <2>1. CASE LockGranted(p)
    BY <2>1, GrantMaps
  <2>2. CASE Start(p) \/ CheckPasses(p) \/ CheckRefuses(p) \/ LockTaken(p)
               \/ Poll(p) \/ StandbyStops(p) \/ TakingFails(p)
    BY <2>2, MoveMaps DEF Start, CheckPasses, CheckRefuses, LockTaken, Poll,
                          StandbyStops, TakingFails
  <2>3. CASE Hold(p)
    <3>1. CASE Stopping(p)
      BY <2>3, <3>1, MoveMaps DEF Hold
    <3>2. CASE ~ Stopping(p)
      BY <2>3, <3>2, MoveMaps DEF Hold
    <3> QED BY <3>1, <3>2
  <2> QED BY <1>2, <2>1, <2>2, <2>3 DEF Taking
<1>3. ASSUME NEW p \in Process, Heartbeat(p) PROVE PromiseStep
  BY <1>3, StutterMaps
  DEF Heartbeat, HeartbeatTick, HeartbeatQuery, HeartbeatReply, HeartbeatThrows,
      HeartbeatTimesOut
<1>4. ASSUME NEW p \in Process, Releasing(p) PROVE PromiseStep
  <2>1. CASE StopCollecting(p) \/ DiscoveryFails(p) \/ SessionsClosed(p)
               \/ GiveUpRelease(p)
    BY <2>1, MoveMaps DEF StopCollecting, DiscoveryFails, SessionsClosed,
                          GiveUpRelease
  <2>2. CASE Unlock(p)
    <3>1. Holds(p)
      BY <2>2 DEF Unlock, LockCoversCollection
    <3>2. CASE locker' = NoBackend
      BY <2>2, <3>1, <3>2, FreeMaps DEF Unlock, Collecting
    <3>3. CASE locker' # NoBackend
      \* Only the depth could tell this unlock apart.
      <4>1. locker' = locker
        BY <2>2, <3>3 DEF Unlock
      <4> QED BY <2>2, <3>1, <4>1, RetakenMaps DEF Unlock
    <3> QED BY <3>2, <3>3
  <2>3. CASE Disconnect(p)
    <3>1. CASE Holds(p) /\ Dedicated(p)
      BY <2>3, <3>1, FreeMaps DEF Disconnect, FreeLockOf, Collecting
    <3>2. CASE ~ (Holds(p) /\ Dedicated(p))
      BY <2>3, <3>2, MoveMaps DEF Disconnect, FreeLockOf
    <3> QED BY <3>1, <3>2
  <2> QED BY <1>4, <2>1, <2>2, <2>3 DEF Releasing
<1>5. ASSUME NEW p \in Process, Outside(p) PROVE PromiseStep
  <2>1. CASE SessionDrops(p) \/ SessionExpires(p) \/ SessionReaped(p)
    <3>1. UNCHANGED pc
      BY <2>1 DEF SessionDrops, SessionExpires, SessionReaped
    <3>2. CASE Holds(p) /\ locker' = NoBackend
      BY <3>1, <3>2, FreeMaps
    <3>3. CASE UNCHANGED locker
      BY <3>1, <3>3, StutterMaps
    <3> QED BY <2>1, <3>2, <3>3
            DEF SessionDrops, SessionExpires, SessionReaped, FreeLockOf
  <2>2. CASE Signal(p) \/ SocketTimesOut(p)
    BY <2>2, StutterMaps DEF Signal, SocketTimesOut
  <2>3. CASE Crash(p)
    BY <2>3, MoveMaps DEF Crash
  <2> QED BY <1>5, <2>1, <2>2, <2>3 DEF Outside
<1> QED BY <1>1, <1>2, <1>3, <1>4, <1>5 DEF Next

\* The lease implements its promise: at most one owner, collecting only on a
\* grant, an overlap only with a process whose lease has lapsed.
THEOREM Implements ==
  ASSUME DirectEndpoint
  PROVE  Spec => ImplementsCollectionLease
<1>1. Init => HeldSinceGrant
  BY RoutesAreBackends DEF Init, HeldSinceGrant, Holds
<1>2. DirectEndpoint /\ TypeInv /\ HeldSinceGrant /\ [Next]_vars => HeldSinceGrant'
  BY HeldStep
<1>3. Init => Promise!Init
  BY FreeHasNoOwner
  DEF Init, Promise!Init, Lapsed, Acting, Collectors, Collecting
<1>4. DirectEndpoint /\ TypeInv /\ HeldSinceGrant /\ LockCoversCollection /\ [Next]_vars
        => [Promise!Next]_(Promise!leaseVars)
  BY StepMaps DEF PromiseStep
<1> QED BY <1>1, <1>2, <1>3, <1>4, TypeInvariant, LockCovers, PTL
        DEF Spec, ImplementsCollectionLease, Promise!Spec

\* Whoever collects owns the lease or has lost it.
LawfulCollection ==
  /\ Collectors \subseteq Process
  /\ Collectors \subseteq Lapsed \cup {OwnerAt(locker)}

\* The promise alone keeps two collectors apart unless one has lapsed.
LEMMA PromiseExcludes == Promise!Spec => []Promise!ExclusiveUnlessLapsed
<1>1. Promise!Init => LawfulCollection
  BY DEF Promise!Init, LawfulCollection
<1>2. LawfulCollection /\ [Promise!Next]_(Promise!leaseVars) => LawfulCollection'
  <2> SUFFICES ASSUME LawfulCollection, [Promise!Next]_(Promise!leaseVars)
               PROVE  LawfulCollection'
    OBVIOUS
  <2> USE RoutesAreBackends DEF LawfulCollection
  <2>1. CASE UNCHANGED Promise!leaseVars
    BY <2>1 DEF Promise!leaseVars
  <2>2. ASSUME NEW p \in Process, Promise!Acquire(p) PROVE LawfulCollection'
    BY <2>2 DEF Promise!Acquire
  <2>3. ASSUME NEW p \in Process, Promise!Begin(p) PROVE LawfulCollection'
    BY <2>3 DEF Promise!Begin
  <2>4. ASSUME NEW p \in Process, Promise!Lapse(p) \/ Promise!End(p) \/ Promise!Forget(p)
        PROVE  LawfulCollection'
    BY <2>4 DEF Promise!Lapse, Promise!End, Promise!Forget
  <2>5. ASSUME NEW p \in Process, Promise!Release(p) PROVE LawfulCollection'
    BY <2>5 DEF Promise!Release
  <2> QED BY <2>1, <2>2, <2>3, <2>4, <2>5 DEF Promise!Next
<1>3. LawfulCollection => Promise!ExclusiveUnlessLapsed
  BY DEF LawfulCollection, Promise!ExclusiveUnlessLapsed
<1> QED BY <1>1, <1>2, <1>3, PTL DEF Promise!Spec

\* Two processes collect together only while one of them has lost the lease and
\* does not know it (lease.ts:2 and supervise.ts:57, put exactly).
THEOREM Exclusive ==
  ASSUME DirectEndpoint
  PROVE  Spec => []Promise!ExclusiveUnlessLapsed
  BY Implements, PromiseExcludes, PTL DEF ImplementsCollectionLease
=============================================================================

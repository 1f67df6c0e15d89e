-------------------------------- MODULE Lease --------------------------------
(***************************************************************************)
(* The single-holder lease of the collector: collector/src/lease.ts, run   *)
(* by collector/src/supervise.ts inside the process that                   *)
(* collector/src/index.ts sets up.                                         *)
(*                                                                         *)
(* A member of Process is one run of the program; a container that is      *)
(* restarted is a new member.  Postgres is seen through the session-level  *)
(* advisory lock: the lock belongs to a backend, and Route says which      *)
(* backends may execute the statements of a process's lease connection.    *)
(* On a direct endpoint that is one backend of its own; behind a pooler it *)
(* is not, which is what checkSessionIsReal measures.                      *)
(*                                                                         *)
(* Collecting itself (collectAll) is one state here; modules Collector and *)
(* Session open it up.                                                     *)
(***************************************************************************)
EXTENDS Naturals, FiniteSets

CONSTANTS
  Process,      \* runs of the collector program
  Backend,      \* Postgres backends
  Route,        \* Route[p]: backends that may run a statement of p's lease connection
  ProbeRoute,   \* ProbeRoute[p]: the same for the second, short-lived connection
  NoBackend,    \* the advisory lock is free
  SessionsMayDrop  \* whether Postgres or the network may end a live session

ASSUME RoutesAreBackends ==
  /\ Route \in [Process -> SUBSET Backend]
  /\ ProbeRoute \in [Process -> SUBSET Backend]
  /\ IsFiniteSet(Backend)
  /\ NoBackend \notin Backend \cup Process
  /\ SessionsMayDrop \in BOOLEAN

VARIABLES
  pc,           \* where supervise is, per process
  conn,         \* the lease connection, as far as it still works
  checking,     \* the heartbeat query: "no", "asked", or answered "mine" / "gone"
  signalled,    \* SIGTERM or SIGINT was delivered
  lost,         \* lostReason # null: onLost was called
  failed,       \* collectAll threw
  status,       \* the exit status of a process that has ended
  locker,       \* the backend that holds COLLECTOR_LOCK_KEY, or NoBackend
  depth         \* how many times it has taken it: the lock is re-entrant

vars == <<pc, conn, checking, signalled, lost, failed, status, locker, depth>>
processVars == <<signalled, lost, failed>>
lockVars == <<locker, depth>>

\* A session on a backend of its own: ending it frees the lock it holds.
Dedicated(p) ==
  /\ Cardinality(Route[p]) = 1
  /\ \A q \in Process : ProbeRoute[q] \cap Route[p] = {}
  /\ \A q \in Process \ {p} : Route[q] \cap Route[p] = {}

Holds(p) == locker \in Route[p]
Collecting(p) == pc[p] \in {"collecting", "closing"}
Stopping(p) == signalled[p] \/ lost[p]

TypeOK ==
  /\ pc \in [Process -> {"off", "checking", "trying", "granted", "standby",
                         "collecting", "closing", "releasing", "disconnecting",
                         "exited"}]
  /\ conn \in [Process -> {"none", "open", "silent", "broken"}]
  /\ checking \in [Process -> {"no", "asked", "mine", "gone"}]
  /\ signalled \in [Process -> BOOLEAN]
  /\ lost \in [Process -> BOOLEAN]
  /\ failed \in [Process -> BOOLEAN]
  /\ status \in [Process -> {"none", "clean", "lease_lost", "config",
                             "failed", "killed"}]
  /\ locker \in Backend \cup {NoBackend}
  /\ depth \in Nat

Init ==
  /\ pc = [p \in Process |-> "off"]
  /\ conn = [p \in Process |-> "none"]
  /\ checking = [p \in Process |-> "no"]
  /\ signalled = [p \in Process |-> FALSE]
  /\ lost = [p \in Process |-> FALSE]
  /\ failed = [p \in Process |-> FALSE]
  /\ status = [p \in Process |-> "none"]
  /\ locker = NoBackend
  /\ depth = 0

-----------------------------------------------------------------------------
(* Helpers: a move of supervise, the end of a process, the end of a session. *)

Goto(p, label) == pc' = [pc EXCEPT ![p] = label]

Exit(p, code) ==
  /\ pc' = [pc EXCEPT ![p] = "exited"]
  /\ status' = [status EXCEPT ![p] = code]
  /\ checking' = [checking EXCEPT ![p] = "no"]

\* Mutant: the loss is forgotten by the time supervise returns.
ExitStatusForgetsLoss(p) == IF failed[p] THEN "failed" ELSE "clean"

\* supervise's return value, and main's catch for what it throws.
ExitStatus(p) ==
  IF failed[p] THEN "failed" ELSE IF lost[p] THEN "lease_lost" ELSE "clean"

FreeLockOf(p) ==
  IF Dedicated(p) /\ Holds(p)
  THEN locker' = NoBackend /\ depth' = 0
  ELSE UNCHANGED lockVars

-----------------------------------------------------------------------------
(* Taking the lease. *)

\* supervise's first takeLease: the lease connection is opened.
Start(p) ==
  /\ pc[p] = "off"
  /\ Goto(p, "checking")
  /\ conn' = [conn EXCEPT ![p] = "open"]
  /\ UNCHANGED <<checking, status, processVars, lockVars>>

\* Mutant: the second connection is never compared.
SessionLooksRealUnprobed(first, second, other) == first = second

\* Two pids on one connection and a third on another tell a session from a pool.
SessionLooksReal(first, second, other) == first = second /\ other # first

CheckPasses(p) ==
  /\ pc[p] = "checking"
  /\ conn[p] = "open"
  /\ \E first, second \in Route[p], other \in ProbeRoute[p] :
       SessionLooksReal(first, second, other)
  /\ Goto(p, "trying")
  /\ UNCHANGED <<conn, checking, status, processVars, lockVars>>

CheckRefuses(p) ==
  /\ pc[p] = "checking"
  /\ conn[p] = "open"
  /\ \E first, second \in Route[p], other \in ProbeRoute[p] :
       ~ SessionLooksReal(first, second, other)
  /\ Exit(p, "config")
  /\ conn' = [conn EXCEPT ![p] = "none"]
  /\ UNCHANGED <<processVars, lockVars>>

\* pg_try_advisory_lock succeeds; its answer is on the way to the process.
LockGranted(p) ==
  /\ pc[p] = "trying"
  /\ conn[p] = "open"
  /\ \E b \in Route[p] :
       /\ locker \in {NoBackend, b}
       /\ locker' = b
       /\ depth' = depth + 1
  /\ Goto(p, "granted")
  /\ UNCHANGED <<conn, checking, status, processVars>>

\* Mutant: the answer of pg_try_advisory_lock is not looked at.
LockTakenUnread(p) ==
  /\ pc[p] = "trying"
  /\ conn[p] = "open"
  /\ \E b \in Route[p] : locker \notin {NoBackend, b}
  /\ Goto(p, "granted")
  /\ UNCHANGED <<conn, checking, status, processVars, lockVars>>

\* pg_try_advisory_lock fails; the connection is closed and supervise waits.
LockTaken(p) ==
  /\ pc[p] = "trying"
  /\ conn[p] = "open"
  /\ \E b \in Route[p] : locker \notin {NoBackend, b}
  /\ Goto(p, "standby")
  /\ conn' = [conn EXCEPT ![p] = "none"]
  /\ UNCHANGED <<checking, status, processVars, lockVars>>

\* Mutant: the stopping check in the standby loop is inverted.
PollInverted(p) ==
  /\ pc[p] = "standby"
  /\ signalled[p]
  /\ Goto(p, "checking")
  /\ conn' = [conn EXCEPT ![p] = "open"]
  /\ UNCHANGED <<checking, status, processVars, lockVars>>

\* The standby's sleep is over: ask again, on a fresh connection.
Poll(p) ==
  /\ pc[p] = "standby"
  /\ ~ signalled[p]
  /\ Goto(p, "checking")
  /\ conn' = [conn EXCEPT ![p] = "open"]
  /\ UNCHANGED <<checking, status, processVars, lockVars>>

\* Signalled while waiting its turn.
StandbyStops(p) ==
  /\ pc[p] = "standby"
  /\ signalled[p]
  /\ Exit(p, "clean")
  /\ UNCHANGED <<conn, processVars, lockVars>>

\* connect() or a query rejects before the lease is reported held: supervise
\* throws and main exits.  The connection is left to the operating system.
TakingFails(p) ==
  /\ pc[p] \in {"checking", "trying", "granted"}
  /\ conn[p] # "silent"
  /\ Exit(p, "failed")
  /\ UNCHANGED <<conn, processVars, lockVars>>

\* takeLease returns "held"; collectAll starts unless the process is stopping.
Hold(p) ==
  /\ pc[p] = "granted"
  /\ Goto(p, IF Stopping(p) THEN "releasing" ELSE "collecting")
  /\ UNCHANGED <<conn, checking, status, processVars, lockVars>>

-----------------------------------------------------------------------------
(* The heartbeat: one question at a time, asked while the lease is held.   *)

\* The interval runs from the grant until the loss is reported or the release.
Beating(p) == Collecting(p) /\ ~ lost[p]

HeartbeatTick(p) ==
  /\ Beating(p)
  /\ checking[p] = "no"
  /\ checking' = [checking EXCEPT ![p] = "asked"]
  /\ UNCHANGED <<pc, conn, status, processVars, lockVars>>

\* Postgres answers whether the asking backend is the one holding the lock.
HeartbeatQuery(p) ==
  /\ checking[p] = "asked"
  /\ conn[p] = "open"
  /\ \E b \in Route[p] :
       checking' = [checking EXCEPT ![p] = IF locker = b THEN "mine" ELSE "gone"]
  /\ UNCHANGED <<pc, conn, status, processVars, lockVars>>

\* lose(): reported once, and not after the release has begun.
Lose(p) == lost' = [lost EXCEPT ![p] = @ \/ Collecting(p)]

HeartbeatReply(p) ==
  /\ checking[p] \in {"mine", "gone"}
  /\ checking' = [checking EXCEPT ![p] = "no"]
  /\ IF checking[p] = "gone" THEN Lose(p) ELSE UNCHANGED lost
  /\ UNCHANGED <<pc, conn, status, signalled, failed, lockVars>>

\* Mutant: the heartbeat's catch swallows the error.
HeartbeatThrowsSwallowed(p) ==
  /\ checking[p] # "no"
  /\ conn[p] = "broken"
  /\ checking' = [checking EXCEPT ![p] = "no"]
  /\ UNCHANGED <<pc, conn, status, processVars, lockVars>>

\* The query throws: over a connection that has failed ...
HeartbeatThrows(p) ==
  /\ checking[p] # "no"
  /\ conn[p] = "broken"
  /\ checking' = [checking EXCEPT ![p] = "no"]
  /\ Lose(p)
  /\ UNCHANGED <<pc, conn, status, signalled, failed, lockVars>>

\* ... or because statement_timeout cancelled it on one that works.
HeartbeatTimesOut(p) ==
  /\ checking[p] = "asked"
  /\ conn[p] = "open"
  /\ checking' = [checking EXCEPT ![p] = "no"]
  /\ Lose(p)
  /\ UNCHANGED <<pc, conn, status, signalled, failed, lockVars>>

-----------------------------------------------------------------------------
(* Stopping and giving the lease back. *)

Signal(p) ==
  /\ pc[p] \notin {"off", "exited"}
  /\ ~ signalled[p]
  /\ signalled' = [signalled EXCEPT ![p] = TRUE]
  /\ UNCHANGED <<pc, conn, checking, status, lost, failed, lockVars>>

\* Mutant: the lease is given back before the sessions are closed.
StopCollectingUnlocked(p) ==
  /\ pc[p] = "collecting"
  /\ Stopping(p)
  /\ Goto(p, "closing")
  /\ FreeLockOf(p)
  /\ UNCHANGED <<conn, checking, status, processVars>>

\* collectAll leaves its loop: told to stop, or discovery threw.
StopCollecting(p) ==
  /\ pc[p] = "collecting"
  /\ Stopping(p)
  /\ Goto(p, "closing")
  /\ UNCHANGED <<conn, checking, status, processVars, lockVars>>

DiscoveryFails(p) ==
  /\ pc[p] = "collecting"
  /\ Goto(p, "closing")
  /\ failed' = [failed EXCEPT ![p] = TRUE]
  /\ UNCHANGED <<conn, checking, status, signalled, lost, lockVars>>

\* Every account session has ended; release() stops the heartbeat.
SessionsClosed(p) ==
  /\ pc[p] = "closing"
  /\ Goto(p, "releasing")
  /\ UNCHANGED <<conn, checking, status, processVars, lockVars>>

\* pg_advisory_unlock, queued behind a heartbeat already sent.
Unlock(p) ==
  /\ pc[p] = "releasing"
  /\ conn[p] = "open"
  /\ checking[p] # "asked"
  /\ \E b \in Route[p] :
       IF locker = b
       THEN /\ depth' = depth - 1
            /\ locker' = IF depth = 1 THEN NoBackend ELSE locker
       ELSE UNCHANGED lockVars
  /\ Goto(p, "disconnecting")
  /\ UNCHANGED <<conn, checking, status, processVars>>

Disconnect(p) ==
  /\ pc[p] = "disconnecting"
  /\ conn[p] = "open"
  /\ Exit(p, ExitStatus(p))
  /\ conn' = [conn EXCEPT ![p] = "none"]
  /\ FreeLockOf(p)
  /\ UNCHANGED processVars

\* Mutant: the release waits for its connection without a bound.
GiveUpReleaseUnbounded(p) ==
  /\ pc[p] \in {"releasing", "disconnecting"}
  /\ conn[p] = "open"
  /\ Exit(p, ExitStatus(p))
  /\ UNCHANGED <<conn, processVars, lockVars>>

\* RELEASE_BOUND_MS passed, or the unlock or the close threw: exit regardless.
GiveUpRelease(p) ==
  /\ pc[p] \in {"releasing", "disconnecting"}
  /\ Exit(p, ExitStatus(p))
  /\ UNCHANGED <<conn, processVars, lockVars>>

-----------------------------------------------------------------------------
(* What happens to a process and to its session from outside. *)

Crash(p) ==
  /\ pc[p] \notin {"off", "exited"}
  /\ Exit(p, "killed")
  /\ UNCHANGED <<conn, processVars, lockVars>>

\* The connection of a live process fails.  The process may get an error on its
\* socket ("broken") or nothing at all ("silent"); Postgres may have ended the
\* session and freed its lock, or may still believe in it.
SessionDrops(p) ==
  /\ SessionsMayDrop
  /\ pc[p] # "exited"
  /\ conn[p] = "open"
  /\ \E after \in {"silent", "broken"} : conn' = [conn EXCEPT ![p] = after]
  /\ FreeLockOf(p) \/ UNCHANGED lockVars
  /\ UNCHANGED <<pc, checking, status, processVars>>

\* Postgres gives up on a session whose connection has failed.
SessionExpires(p) ==
  /\ conn[p] \in {"silent", "broken"}
  /\ Holds(p)
  /\ Dedicated(p)
  /\ FreeLockOf(p)
  /\ UNCHANGED <<pc, conn, checking, status, processVars>>

\* TCP stops retransmitting: a silent connection turns into an error.
SocketTimesOut(p) ==
  /\ conn[p] = "silent"
  /\ conn' = [conn EXCEPT ![p] = "broken"]
  /\ UNCHANGED <<pc, checking, status, processVars, lockVars>>

\* Postgres notices that an ended process's socket is closed.
SessionReaped(p) ==
  /\ pc[p] = "exited"
  /\ conn[p] = "open"
  /\ conn' = [conn EXCEPT ![p] = "none"]
  /\ FreeLockOf(p)
  /\ UNCHANGED <<pc, checking, status, processVars>>

-----------------------------------------------------------------------------

Taking(p) ==
  \/ Start(p) \/ CheckPasses(p) \/ CheckRefuses(p)
  \/ LockGranted(p) \/ LockTaken(p) \/ Poll(p) \/ StandbyStops(p)
  \/ TakingFails(p) \/ Hold(p)

Heartbeat(p) ==
  \/ HeartbeatTick(p) \/ HeartbeatQuery(p) \/ HeartbeatReply(p)
  \/ HeartbeatThrows(p) \/ HeartbeatTimesOut(p)

Releasing(p) ==
  \/ StopCollecting(p) \/ DiscoveryFails(p) \/ SessionsClosed(p)
  \/ Unlock(p) \/ Disconnect(p) \/ GiveUpRelease(p)

Outside(p) ==
  \/ Signal(p) \/ Crash(p)
  \/ SessionDrops(p) \/ SessionExpires(p)
  \/ SocketTimesOut(p) \/ SessionReaped(p)

Next == \E p \in Process : Taking(p) \/ Heartbeat(p) \/ Releasing(p) \/ Outside(p)

Spec == Init /\ [][Next]_vars

\* The next step of supervise, or the error in its place.
Advances(p) ==
  \/ CheckPasses(p) \/ CheckRefuses(p) \/ LockGranted(p) \/ LockTaken(p)
  \/ TakingFails(p) /\ conn[p] = "broken"
  \/ Poll(p) \/ StandbyStops(p) \/ Hold(p)
  \/ StopCollecting(p) \/ SessionsClosed(p) \/ GiveUpRelease(p)

\* A running process takes its next step, a live server answers, and an ended
\* process's socket is reaped.  Signals, crashes, failures and drops owe nothing.
ProcessFairness(p) ==
  /\ WF_vars(Advances(p))
  /\ WF_vars(HeartbeatTick(p) \/ HeartbeatQuery(p) \/ HeartbeatReply(p) \/ HeartbeatThrows(p))
  /\ WF_vars(SessionExpires(p) \/ SessionReaped(p))

\* A silent socket fails in the end: the operating system's own time limit.
FairSpec ==
  /\ Spec
  /\ \A p \in Process : ProcessFairness(p) /\ WF_vars(SocketTimesOut(p))

-----------------------------------------------------------------------------
(* Properties. *)

\* A deployment on the direct endpoint: every session has a backend of its own.
DirectEndpoint == \A p \in Process : Dedicated(p)

\* While its lease connection works, a process that acts on the lease holds the
\* lock: the unlock comes after the last session has ended, and nobody else's
\* grant, release, crash or reaping can take it away.
LockCoversCollection ==
  \A p \in Process :
    pc[p] \in {"granted", "collecting", "closing", "releasing"} /\ conn[p] = "open"
      => Holds(p)

\* Two processes collect at once only while one of them has lost its connection:
\* the overlap supervise's onLost exists to end.
OverlapOnlyAfterLoss ==
  \A p, q \in Process :
    p # q /\ Collecting(p) /\ Collecting(q)
      => conn[p] # "open" \/ conn[q] # "open"

\* A process exits clean only if it was asked to stop and never lost the lease:
\* any other end has a status the documented on-failure policy restarts.
CleanExitWasAsked ==
  \A p \in Process : status[p] = "clean" => signalled[p] /\ ~ lost[p]

\* Sessions are opened only by the process whose connection just took the lock
\* and only if nothing had told it to stop (supervise.ts: "Nothing reads an
\* account before the lease is held").
CollectionBeginsGranted ==
  [][\A p \in Process :
       ~ Collecting(p) /\ Collecting(p)' =>
         ~ Stopping(p) /\ (conn[p] = "open" => Holds(p))]_vars

\* A process whose connections are all put on one backend never collects: the
\* check refuses it before it takes a lock that would not exclude anybody.
MultiplexedNeverCollects ==
  \A p \in Process : Route[p] = ProbeRoute[p] /\ Cardinality(Route[p]) = 1
    => ~ Collecting(p)

\* lease.ts:2, "so two collectors never collect the same accounts".
NeverTwoCollectors ==
  \A p, q \in Process : Collecting(p) /\ Collecting(q) => p = q

\* A process whose lease connection has failed stops collecting: the heartbeat
\* notices, onLost stops the process and the sessions are closed.
LossStopsCollection ==
  \A p \in Process :
    Collecting(p) /\ conn[p] \in {"silent", "broken"} ~> ~ Collecting(p)

\* A standby takes over, or ends, once every other process has ended -- whether
\* the holder unlocked, gave up, crashed or was killed with its lock held.
StandbyTakesOver ==
  \A p \in Process :
    pc[p] = "standby" /\ (\A q \in Process \ {p} : pc[q] = "exited")
      ~> pc[p] \in {"collecting", "exited"}

\* A process told to stop ends, however its lease connection behaves.
StopEnds == \A p \in Process : Stopping(p) ~> pc[p] = "exited"

-----------------------------------------------------------------------------
(* What the lease promises (CollectionLease), on a direct endpoint. *)

\* The process whose session is on a backend.
OwnerAt(b) ==
  IF \E p \in Process : b \in Route[p]
  THEN CHOOSE p \in Process : b \in Route[p]
  ELSE NoBackend

Acting(p) == pc[p] \in {"granted", "collecting", "closing", "releasing"}

\* Processes that act on a lease they no longer have.
Lapsed == {p \in Process : Acting(p) /\ ~ Holds(p)}

Collectors == {p \in Process : Collecting(p)}

Promise == INSTANCE CollectionLease WITH
  NoOwner <- NoBackend,
  owner <- OwnerAt(locker),
  lapsed <- Lapsed,
  collectors <- Collectors

ImplementsCollectionLease == Promise!Spec
=============================================================================

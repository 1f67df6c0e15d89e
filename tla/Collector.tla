------------------------------ MODULE Collector ------------------------------
(***************************************************************************)
(* What one collector process does while it holds the lease: collectAll of *)
(* collector/src/run.ts -- discovery, reconciliation, staggered admission, *)
(* the handshake gate and the shutdown -- over the account loops           *)
(* (collectAccount) it starts.                                             *)
(*                                                                         *)
(* An account's configuration is a number: accountConfigurationFingerprint *)
(* distinguishes configurations and nothing else is asked of it.  A task   *)
(* is one call of collectAccount; its slot only tells two calls for the    *)
(* same account apart, should there ever be two.  The rendering done by a  *)
(* live session is module Session, the process around it module Lease.     *)
(***************************************************************************)
EXTENDS Naturals, Sequences, FiniteSets

CONSTANTS
  Account,      \* accounts, numbered in the order they were created
  MaxAccounts,  \* options.maxAccounts
  Concurrency,  \* options.handshakeConcurrency
  MaxConfig     \* bound: MaxConfig[a] configurations of account a

ASSUME CollectorAssumption ==
  /\ Account \subseteq Nat /\ IsFiniteSet(Account)
  /\ MaxAccounts \in Nat
  /\ Concurrency \in Nat \ {0}
  /\ MaxConfig \in [Account -> Nat \ {0}]

Slot == {1, 2}
Task == Account \X Slot
Config == UNION {1 .. MaxConfig[a] : a \in Account}
None == 0

VARIABLES
  config,       \* the newest configuration of each account, or None
  db,           \* the one collectableAccounts would return, or None
  refused,      \* the configuration a task last reported as refused
  stopping,     \* ports.stopping(), and the promise ports.stopped
  halting,      \* collectAll's own flag; gate.close() comes with it
  discovery,    \* where collectAll's loop is
  selected,     \* the accounts last read, with their configuration
  closing,      \* tasks whose end the loop is awaiting
  queue,        \* admissionQueue
  queuedById,   \* the configuration queued for an account, or None
  admission,    \* the admission loop: "none", "stagger" or "ending"
  sessions,     \* the slot of an account's task in the map `sessions`, or None
  task,         \* the account loops
  gateActive,   \* the gate's count of permits given out
  gateWaiting   \* the gate's queue

dbVars == <<config, db, refused>>
queueVars == <<queue, queuedById, admission>>
gateVars == <<gateActive, gateWaiting>>
taskVars == <<sessions, task, gateVars>>
loopVars == <<stopping, halting, discovery, selected>>
vars == <<dbVars, loopVars, closing, queueVars, taskVars>>

NoTask == [phase |-> "none", config |-> None, stop |-> FALSE, permit |-> FALSE]

Phase == {"none", "starting", "waiting", "handshake",
          "marking", "connecting", "live", "backoff"}
TaskState == [phase : Phase, config : Config \cup {None}, stop : BOOLEAN, permit : BOOLEAN]
Queued == [account : Account, config : Config]

TypeOK ==
  /\ config \in [Account -> Config \cup {None}]
  /\ db \in [Account -> Config \cup {None}]
  /\ refused \in [Account -> Config \cup {None}]
  /\ stopping \in BOOLEAN /\ halting \in BOOLEAN
  /\ discovery \in {"reading", "answered", "closing", "sleeping",
                    "finishing", "draining", "returned"}
  /\ selected \in [Account -> Config \cup {None}]
  /\ closing \subseteq Task
  /\ queue \in Seq(Queued)
  /\ queuedById \in [Account -> Config \cup {None}]
  /\ admission \in {"none", "stagger", "ending"}
  /\ sessions \in [Account -> Slot \cup {None}]
  /\ task \in [Task -> TaskState]
  /\ gateActive \in Nat
  /\ gateWaiting \in Seq(Task)

\* A process finds some accounts configured, and perhaps withdrawn, when it starts.
Init ==
  /\ config \in [Account -> Config \cup {None}]
  /\ \A a \in Account : config[a] <= MaxConfig[a]
  /\ db \in [Account -> Config \cup {None}]
  /\ \A a \in Account : db[a] \in {None, config[a]}
  /\ refused = [a \in Account |-> None]
  /\ stopping = FALSE /\ halting = FALSE
  /\ discovery = "reading"
  /\ selected = [a \in Account |-> None]
  /\ closing = {}
  /\ queue = <<>>
  /\ queuedById = [a \in Account |-> None]
  /\ admission = "none"
  /\ sessions = [a \in Account |-> None]
  /\ task = [t \in Task |-> NoTask]
  /\ gateActive = 0
  /\ gateWaiting = <<>>

Active(t) == task[t].phase # "none"
InMap(t) == sessions[t[1]] = t[2]
TaskStopping(t) == halting \/ stopping \/ task[t].stop

-----------------------------------------------------------------------------
(* The rest of the system: enrolment, re-authentication, deletion, signals. *)

\* A new or changed configuration, or the same one chosen again.
Configure(a) ==
  /\ \/ /\ config[a] < MaxConfig[a]
        /\ config' = [config EXCEPT ![a] = @ + 1]
     \/ /\ db[a] = None
        /\ config[a] # refused[a]
        /\ UNCHANGED config
  /\ db' = [db EXCEPT ![a] = config'[a]]
  /\ UNCHANGED <<refused, loopVars, closing, queueVars, taskVars>>

\* Deleted, its printers cleared, or flagged by the cron.
Withdraw(a) ==
  /\ db[a] # None
  /\ db' = [db EXCEPT ![a] = None]
  /\ UNCHANGED <<config, refused, loopVars, closing, queueVars, taskVars>>

Stop ==
  /\ ~ stopping
  /\ stopping' = TRUE
  /\ UNCHANGED <<dbVars, halting, discovery, selected, closing, queueVars, taskVars>>

-----------------------------------------------------------------------------
(* The handshake gate. *)

Smaller(m, n) == IF m <= n THEN m ELSE n

\* dispatch: permits go to those who have waited longest.
Dispatch(active, waiting, tasks) ==
  LET n == IF halting THEN 0 ELSE Smaller(Concurrency - active, Len(waiting))
      next == {waiting[i] : i \in 1 .. n} IN
  /\ gateActive' = active + n
  /\ gateWaiting' = SubSeq(waiting, n + 1, Len(waiting))
  /\ task' = [t \in Task |->
                IF t \in next
                THEN [tasks[t] EXCEPT !.phase = "handshake", !.permit = TRUE]
                ELSE tasks[t]]

\* Mutant: a released permit is not handed on.
ReleaseToNobody(t, after) ==
  /\ task' = [task EXCEPT ![t] = after]
  /\ gateActive' = IF task[t].permit THEN gateActive - 1 ELSE gateActive
  /\ UNCHANGED gateWaiting

\* releasePermit: once per permit, whatever path the account loop takes.
ReleaseTo(t, after) ==
  IF task[t].permit
  THEN Dispatch(gateActive - 1, gateWaiting, [task EXCEPT ![t] = after])
  ELSE /\ task' = [task EXCEPT ![t] = after]
       /\ UNCHANGED gateVars

\* Mutant: an ended task stays in the map.
EndStaysInMap(t) ==
  /\ ReleaseTo(t, NoTask)
  /\ UNCHANGED sessions
  /\ closing' = closing \ {t}

\* collectAccount returns: its `finally` gives the permit back, startSession's
\* takes the task out of the map, and whoever awaited `done` goes on.
End(t) ==
  /\ ReleaseTo(t, NoTask)
  /\ sessions' = IF InMap(t) THEN [sessions EXCEPT ![t[1]] = None] ELSE sessions
  /\ closing' = closing \ {t}

Become(t, phase) == [task[t] EXCEPT !.phase = phase]

-----------------------------------------------------------------------------
(* The account loop. *)

Acquire(t) ==
  /\ task[t].phase = "starting"
  /\ ~ TaskStopping(t)
  /\ Dispatch(gateActive, Append(gateWaiting, t),
              [task EXCEPT ![t] = Become(t, "waiting")])
  /\ UNCHANGED <<dbVars, loopVars, closing, queueVars, sessions>>

\* Every await of the handshake is followed by a look at stopping().
StopsEarly(t) ==
  /\ task[t].phase \in {"starting", "handshake", "backoff"}
  /\ TaskStopping(t)
  /\ End(t)
  /\ UNCHANGED <<dbVars, loopVars, queueVars>>

\* openToken throws: retrying cannot help, but nothing is recorded either.
Unopenable(t) ==
  /\ task[t].phase = "handshake"
  /\ End(t)
  /\ UNCHANGED <<dbVars, loopVars, queueVars>>

\* The cloud refuses the token, or the broker refuses the session.
Refused(t) ==
  /\ task[t].phase \in {"handshake", "connecting"}
  /\ task' = [task EXCEPT ![t] = Become(t, "marking")]
  /\ UNCHANGED <<dbVars, loopVars, closing, queueVars, sessions, gateVars>>

\* markReauthRequired has flagged the account, and the loop returns.
Marked(t) ==
  /\ task[t].phase = "marking"
  /\ db' = [db EXCEPT ![t[1]] = None]
  /\ refused' = [refused EXCEPT ![t[1]] = task[t].config]
  /\ End(t)
  /\ UNCHANGED <<config, loopVars, queueVars>>

\* markReauthRequired throws; startSession contains it.
MarkFails(t) ==
  /\ task[t].phase = "marking"
  /\ End(t)
  /\ UNCHANGED <<dbVars, loopVars, queueVars>>

\* The preference, the baseline poll, the connection or the live session fails.
Fails(t) ==
  /\ task[t].phase \in {"handshake", "connecting", "live"}
  /\ ReleaseTo(t, [Become(t, "backoff") EXCEPT !.permit = FALSE])
  /\ UNCHANGED <<dbVars, loopVars, closing, queueVars, sessions>>

\* The baseline is read: runAccountSession connects to the broker.
Connects(t) ==
  /\ task[t].phase = "handshake"
  /\ ~ TaskStopping(t)
  /\ task' = [task EXCEPT ![t] = Become(t, "connecting")]
  /\ UNCHANGED <<dbVars, loopVars, closing, queueVars, sessions, gateVars>>

\* onSubscribed gives the permit back; the session stays.
Subscribed(t) ==
  /\ task[t].phase = "connecting"
  /\ ReleaseTo(t, [Become(t, "live") EXCEPT !.permit = FALSE])
  /\ UNCHANGED <<dbVars, loopVars, closing, queueVars, sessions>>

BackoffOver(t) ==
  /\ task[t].phase = "backoff"
  /\ ~ TaskStopping(t)
  /\ task' = [task EXCEPT ![t] = Become(t, "starting")]
  /\ UNCHANGED <<dbVars, loopVars, closing, queueVars, sessions, gateVars>>

-----------------------------------------------------------------------------
(* Admission: accounts leave the queue one at a time, a stagger apart. *)

FreeSlot(a) == IF Active(<<a, 1>>) THEN 2 ELSE 1

\* startSession
StartTask(a, c) ==
  /\ task' = [task EXCEPT ![<<a, FreeSlot(a)>>] =
                [phase |-> "starting", config |-> c, stop |-> FALSE, permit |-> FALSE]]
  /\ sessions' = [sessions EXCEPT ![a] = FreeSlot(a)]

\* Take the head of the queue; the loop then waits, or leaves an empty queue.
AdmitHead(waiting, byId) ==
  LET head == Head(waiting)
      current == byId[head.account] = head.config IN
  /\ queue' = Tail(waiting)
  /\ queuedById' = IF current THEN [byId EXCEPT ![head.account] = None] ELSE byId
  /\ admission' = IF Len(waiting) > 1 THEN "stagger" ELSE "ending"
  /\ IF current /\ sessions[head.account] = None
     THEN StartTask(head.account, head.config)
     ELSE UNCHANGED <<sessions, task>>
  /\ UNCHANGED gateVars

\* startAdmission: the first account is admitted at once.
StartAdmission(waiting, byId) ==
  IF admission # "none" \/ halting \/ stopping \/ waiting = <<>>
  THEN /\ queue' = waiting
       /\ queuedById' = byId
       /\ admission' = IF admission = "none" /\ ~ halting /\ ~ stopping
                       THEN "ending" ELSE admission
       /\ UNCHANGED taskVars
  ELSE AdmitHead(waiting, byId)

AdmitNext ==
  /\ admission = "stagger"
  /\ IF halting \/ stopping \/ queue = <<>>
     THEN /\ admission' = "ending"
          /\ UNCHANGED <<queue, queuedById, taskVars>>
     ELSE AdmitHead(queue, queuedById)
  /\ UNCHANGED <<dbVars, loopVars, closing>>

\* The loop's `finally`: what was queued since the loop left starts another.
AdmissionEnds ==
  /\ admission = "ending"
  /\ IF queue = <<>> \/ halting \/ stopping
     THEN admission' = "none" /\ UNCHANGED <<queue, queuedById, taskVars>>
     ELSE AdmitHead(queue, queuedById)
  /\ UNCHANGED <<dbVars, loopVars, closing>>

-----------------------------------------------------------------------------
(* Discovery. *)

\* collectableAccounts returns the oldest MaxAccounts collectable accounts ...
Collectable(a) ==
  /\ db[a] # None
  /\ Cardinality({b \in Account : b < a /\ db[b] # None}) < MaxAccounts

\* ... each with its configuration.
Wanted(a) == IF Collectable(a) THEN db[a] ELSE None

Read ==
  /\ discovery = "reading"
  /\ discovery' = "answered"
  /\ selected' = [a \in Account |-> Wanted(a)]
  /\ UNCHANGED <<dbVars, stopping, halting, closing, queueVars, taskVars>>

\* The sequence that lists S in ascending order (a set with one member).
Ascending(S) ==
  {s \in [1 .. Cardinality(S) -> S] :
     \A i, j \in DOMAIN s : i < j => s[i] < s[j]}

\* Queued work that no longer matches what was read is dropped, the rest keeps
\* its order.
DropQueued ==
  /\ LET current == {i \in DOMAIN queue :
                       queue[i].config = selected[queue[i].account]} IN
     \E kept \in Ascending(current) :
       queue' = [i \in DOMAIN kept |-> queue[kept[i]]]
  /\ queuedById' = [a \in Account |->
                      IF queuedById[a] = selected[a] THEN queuedById[a] ELSE None]

\* Sessions that no longer match what was read.
Stale == {t \in Task : InMap(t) /\ task[t].config # selected[t[1]]}

StopTasks(stale) ==
  task' = [t \in Task |-> IF t \in stale THEN [task[t] EXCEPT !.stop = TRUE] ELSE task[t]]

\* Mutant: stopped sessions leave the map at once and are not awaited.
ReconcileUnawaited ==
  /\ discovery = "answered"
  /\ discovery' = "closing"
  /\ DropQueued
  /\ StopTasks(Stale)
  /\ closing' = {}
  /\ sessions' = [a \in Account |->
                    IF <<a, sessions[a]>> \in Stale THEN None ELSE sessions[a]]
  /\ UNCHANGED <<dbVars, stopping, halting, selected, admission, gateVars>>

\* Mutant: sessions of accounts no longer selected are left alone.
ReconcileKeepsEvicted ==
  /\ discovery = "answered"
  /\ discovery' = "closing"
  /\ DropQueued
  /\ closing' = {t \in Stale : selected[t[1]] # None}
  /\ StopTasks(closing')
  /\ UNCHANGED <<dbVars, stopping, halting, selected, admission, sessions, gateVars>>

\* Mutant: queued work is not compared with what was read.
ReconcileKeepsQueue ==
  /\ discovery = "answered"
  /\ discovery' = "closing"
  /\ closing' = Stale
  /\ StopTasks(Stale)
  /\ UNCHANGED <<dbVars, stopping, halting, selected, queueVars, sessions, gateVars>>

\* Mutant: a stale session is awaited without being told to stop.
ReconcileUnstopped ==
  /\ discovery = "answered"
  /\ discovery' = "closing"
  /\ DropQueued
  /\ closing' = Stale
  /\ UNCHANGED <<dbVars, stopping, halting, selected, admission, taskVars>>

\* Drop queued work and stop sessions that no longer match what was read.
Reconcile ==
  /\ discovery = "answered"
  /\ discovery' = "closing"
  /\ DropQueued
  /\ closing' = Stale
  /\ StopTasks(Stale)
  /\ UNCHANGED <<dbVars, stopping, halting, selected, admission, sessions, gateVars>>

\* Every stopped session has ended: queue what is selected and neither live nor
\* queued already.
Requeue ==
  /\ discovery = "closing"
  /\ closing = {}
  /\ discovery' = "sleeping"
  /\ LET missing == {a \in Account :
                       /\ selected[a] # None
                       /\ sessions[a] # None
                            => task[<<a, sessions[a]>>].config # selected[a]
                       /\ queuedById[a] # selected[a]} IN
     \E order \in Ascending(missing) :
       StartAdmission(
         queue \o [i \in DOMAIN order |->
                     [account |-> order[i], config |-> selected[order[i]]]],
         [a \in Account |-> IF a \in missing THEN selected[a] ELSE queuedById[a]])
  /\ UNCHANGED <<dbVars, stopping, halting, selected, closing>>

Rediscover ==
  /\ discovery = "sleeping"
  /\ ~ stopping
  /\ discovery' = "reading"
  /\ UNCHANGED <<dbVars, stopping, halting, selected, closing, queueVars, taskVars>>

\* Mutant: those waiting at the gate are left there.
FinishLeavesWaiting ==
  /\ discovery' = "finishing"
  /\ halting' = TRUE
  /\ queue' = <<>>
  /\ queuedById' = [a \in Account |-> None]
  /\ task' = [t \in Task |-> [task[t] EXCEPT !.stop = @ \/ InMap(t)]]
  /\ UNCHANGED <<dbVars, stopping, selected, closing, admission, sessions, gateVars>>

\* The `finally` of collectAll: the loop was stopped, or the read threw.
Finish ==
  /\ discovery' = "finishing"
  /\ halting' = TRUE
  /\ queue' = <<>>
  /\ queuedById' = [a \in Account |-> None]
  /\ gateWaiting' = <<>>
  /\ task' = [t \in Task |->
                [task[t] EXCEPT
                   !.stop = @ \/ InMap(t),
                   !.phase = IF @ = "waiting" THEN "handshake" ELSE @]]
  /\ UNCHANGED <<dbVars, stopping, selected, closing, admission, sessions, gateActive>>

LeaveLoop == discovery = "sleeping" /\ stopping /\ Finish
ReadFails == discovery = "reading" /\ Finish

\* Mutant: the ends of the sessions are not awaited.
AwaitAdmissionOnly ==
  /\ discovery = "finishing"
  /\ admission = "none"
  /\ discovery' = "draining"
  /\ UNCHANGED <<dbVars, stopping, halting, selected, closing, queueVars, taskVars>>

AwaitAdmission ==
  /\ discovery = "finishing"
  /\ admission = "none"
  /\ discovery' = "draining"
  /\ closing' = {t \in Task : InMap(t)}
  /\ UNCHANGED <<dbVars, stopping, halting, selected, queueVars, taskVars>>

Return ==
  /\ discovery = "draining"
  /\ closing = {}
  /\ discovery' = "returned"
  /\ UNCHANGED <<dbVars, stopping, halting, selected, closing, queueVars, taskVars>>

-----------------------------------------------------------------------------

TaskStep(t) ==
  \/ Acquire(t) \/ StopsEarly(t) \/ Unopenable(t) \/ Refused(t)
  \/ Marked(t) \/ MarkFails(t) \/ Fails(t)
  \/ Connects(t) \/ Subscribed(t) \/ BackoffOver(t)

DiscoveryStep ==
  \/ Read \/ Reconcile \/ Requeue \/ Rediscover
  \/ LeaveLoop \/ ReadFails \/ AwaitAdmission \/ Return

Next ==
  \/ \E a \in Account : Configure(a) \/ Withdraw(a)
  \/ Stop
  \/ \E t \in Task : TaskStep(t)
  \/ AdmitNext \/ AdmissionEnds
  \/ DiscoveryStep

Spec == Init /\ [][Next]_vars

\* Every request made in a handshake has a time limit, timers fire and a session
\* told to stop is closed.  A live session owes nothing, nor does the outside.
TaskFairness(t) == WF_vars((task[t].phase = "live" => TaskStopping(t)) /\ TaskStep(t))

LoopFairness == WF_vars(AdmitNext \/ AdmissionEnds) /\ WF_vars(DiscoveryStep)

FairSpec == Spec /\ (\A t \in Task : TaskFairness(t)) /\ LoopFairness

-----------------------------------------------------------------------------
(* Properties. *)

\* Two account loops never run for one account, whatever is reconfigured, ended
\* or re-admitted meanwhile (run.ts:427, "preventing two MQTT connections from
\* overlapping on one account").
OneTaskPerAccount ==
  \A t, u \in Task : Active(t) /\ Active(u) /\ t[1] = u[1] => t = u

\* Live and queued accounts together never exceed maxAccounts, also while an
\* eviction is still being awaited.
CapacityRespected ==
  Cardinality({a \in Account : sessions[a] # None \/ queuedById[a] # None})
    <= MaxAccounts

\* The gate's count is the number of permits held, none is lost or returned
\* twice on any path through the account loop, and nobody waits while one is free.
GateAccounts ==
  /\ gateActive = Cardinality({t \in Task : task[t].permit})
  /\ gateWaiting # <<>> /\ ~ halting => gateActive = Concurrency

\* Once an answer has been reconciled, whatever is queued or running has the
\* configuration read last, or has been told to stop.
OnlyCurrentConfigurations ==
  discovery # "answered" /\ ~ halting =>
    /\ \A i \in DOMAIN queue : queue[i].config = selected[queue[i].account]
    /\ \A t \in Task : Active(t) => task[t].stop \/ task[t].config = selected[t[1]]

\* When collectAll returns nothing it started is left running: the lease may be
\* given back.
ReturnedIsQuiet ==
  discovery = "returned" => \A t \in Task : ~ Active(t)

\* An account loop for a, with configuration c.
Runs(a, c) == \E s \in Slot : Active(<<a, s>>) /\ task[<<a, s>>].config = c

\* An account that is collectable and within the ceiling is collected with its
\* current configuration, unless it ceases to be or the process ends.
CollectableIsCollected ==
  \A a \in Account :
    Wanted(a) # None ~>
      Wanted(a) = None \/ Runs(a, Wanted(a)) \/ stopping \/ halting

\* A session whose account was given another configuration, was withdrawn, or was
\* pushed over the ceiling by an older account ends, unless that is undone.
StaleIsStopped ==
  \A a \in Account : \A c \in 1 .. MaxConfig[a] :
    Runs(a, c) /\ Wanted(a) # c ~> ~ Runs(a, c) \/ Wanted(a) = c

\* Stopping the process, or a failed read, ends every account loop and
\* collectAll returns -- also with loops waiting at the gate or backing off.
StopReturns == stopping \/ halting ~> discovery = "returned"
=============================================================================

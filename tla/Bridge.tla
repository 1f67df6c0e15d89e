------------------------------- MODULE Bridge -------------------------------
(***************************************************************************)
(* The bridge (bridge/src/bridge/run.ts): the push loop and the telemetry  *)
(* loop, which share the merged view and the signal to stop.  The view is  *)
(* its comparable body; how it comes about is in Display, and what an MQTT *)
(* session does between its two ends is in MqttClient.                     *)
(***************************************************************************)
EXTENDS PushScheduler

CONSTANTS
  Body,     \* the bodies a view can have
  TooLarge  \* those that exceed maxPayloadBytes, even with one printer

ASSUME BodiesAssumption == TooLarge \subseteq Body /\ Nothing \notin Body

VARIABLES
  view,       \* the coordinator and the cloud's status, as a body
  scheduler,  \* the scheduler's state
  push,       \* where the push loop is
  now,        \* how long ago it read the clock
  candidate,  \* the body being pushed
  rested,     \* it has slept for CYCLE_MS
  refused,    \* the push of this cycle was not accepted
  live,       \* where the telemetry loop is
  stopping,   \* stopping.signal.aborted
  returned    \* whether runBridge has returned, and how

loop == <<push, now, candidate, rested>>
vars == <<view, scheduler, loop, refused, live, stopping, returned>>

TypeOK ==
  /\ view \in Body
  /\ scheduler \in [recent : SUBSET (0 .. Hour + MaxDelay), body : Body \cup {Nothing},
                    age : 0 .. Heartbeat + MaxDelay]
  /\ push \in {"starting", "polling", "pushing", "sleeping", "done", "failed"}
  /\ now \in 0 .. MaxDelay
  /\ candidate \in Body \cup {Nothing}
  /\ rested \in BOOLEAN /\ refused \in BOOLEAN /\ stopping \in BOOLEAN
  /\ live \in {"starting", "opening", "closing", "watching", "waiting", "ended"}
  /\ returned \in {"no", "resolved", "rejected"}

Init ==
  /\ view \in Body
  /\ scheduler = emptySchedulerState
  /\ push = "starting" /\ live = "starting"
  /\ now = 0 /\ candidate = Nothing /\ rested = FALSE
  /\ refused = FALSE /\ stopping = FALSE /\ returned = "no"

-----------------------------------------------------------------------------
(* The push loop. *)

\* Mutant: without the finally.
LeavesLoopAlone(how) ==
  /\ push' = how
  /\ stopping' = stopping
  /\ now' = 0 /\ candidate' = Nothing /\ rested' = FALSE

\* finally: the telemetry loop is stopped as well.
LeavesLoop(how) ==
  /\ push' = how
  /\ stopping' = TRUE
  /\ now' = 0 /\ candidate' = Nothing /\ rested' = FALSE

Polls ==
  /\ push' = "polling" /\ refused' = FALSE
  /\ now' = 0 /\ candidate' = Nothing /\ rested' = FALSE
  /\ UNCHANGED stopping

Sleeps ==
  /\ push' = "sleeping"
  /\ now' = 0 /\ candidate' = Nothing /\ rested' = FALSE
  /\ UNCHANGED stopping

\* The MQTT username is known or not; both loops start, in that order.
Starts ==
  /\ push = "starting"
  /\ IF stopping THEN live' = "ended" /\ LeavesLoop("done")
     ELSE live' \in {"opening", "ended"} /\ Polls
  /\ refused' = FALSE
  /\ UNCHANGED <<view, scheduler, returned>>

\* pollCloud answers, whatever it answers the payload is built and considered.
PollAnswers ==
  /\ push = "polling"
  /\ ~ stopping
  /\ \E body \in Body :
       /\ view' = body
       /\ \/ /\ decide(scheduler, body, body \notin TooLarge, now)
             /\ push' = "pushing" /\ candidate' = body
             /\ UNCHANGED <<now, rested, stopping>>
          \/ /\ ~ decide(scheduler, body, body \notin TooLarge, now)
             /\ Sleeps
  /\ UNCHANGED <<scheduler, refused, live, returned>>

\* Mutant: only the time is remembered of a push.
PushAcceptedUnread ==
  /\ push = "pushing"
  /\ scheduler' = recordPush(scheduler, scheduler.body, now)
  /\ refused' = FALSE
  /\ IF stopping THEN LeavesLoop("done") ELSE Sleeps
  /\ UNCHANGED <<view, live, returned>>

\* TRMNL accepts: the push counts from the time the poll began.
PushAccepted ==
  /\ push = "pushing"
  /\ scheduler' = recordPush(scheduler, candidate, now)
  /\ refused' = FALSE
  /\ IF stopping THEN LeavesLoop("done") ELSE Sleeps
  /\ UNCHANGED <<view, live, returned>>

\* It refuses, or does not answer in time: nothing is recorded.
PushRefused ==
  /\ push = "pushing"
  /\ refused' = TRUE
  /\ IF stopping THEN LeavesLoop("done") ELSE Sleeps
  /\ UNCHANGED <<view, scheduler, live, returned>>

Wakes ==
  /\ push = "sleeping"
  /\ rested /\ ~ stopping
  /\ Polls
  /\ UNCHANGED <<view, scheduler, live, returned>>

\* After the poll and in the sleep the loop looks at the signal.
LoopStops ==
  /\ push \in {"polling", "sleeping"}
  /\ stopping
  /\ LeavesLoop("done")
  /\ UNCHANGED <<view, scheduler, refused, live, returned>>

\* A dependency throws.
LoopThrows ==
  /\ push \in {"polling", "pushing"}
  /\ LeavesLoop("failed")
  /\ UNCHANGED <<view, scheduler, refused, live, returned>>

-----------------------------------------------------------------------------
(* The telemetry loop. *)

loopsAlone == <<view, scheduler, loop, refused, stopping, returned>>

\* A stream that opens after the stop is closed again, which is awaited.
Opens ==
  /\ live = "opening"
  /\ live' = IF stopping THEN "closing" ELSE "watching"
  /\ UNCHANGED loopsAlone

Closes ==
  /\ live = "closing"
  /\ live' = "ended"
  /\ UNCHANGED loopsAlone

OpenFails ==
  /\ live = "opening"
  /\ live' = IF stopping THEN "ended" ELSE "waiting"
  /\ UNCHANGED loopsAlone

\* A report changes the view, or does not.
Observes ==
  /\ live = "watching"
  /\ view' \in Body \ {view}
  /\ UNCHANGED <<scheduler, loop, refused, live, stopping, returned>>

\* The session has ended: retried, unless rejected or told to stop.
SessionEnds ==
  /\ live = "watching"
  /\ \/ live' = "ended"
     \/ ~ stopping /\ live' = "waiting"
  /\ UNCHANGED loopsAlone

\* The backoff is over, or cut short.
Retries ==
  /\ live = "waiting"
  /\ live' = IF stopping THEN "ended" ELSE "opening"
  /\ UNCHANGED loopsAlone

-----------------------------------------------------------------------------

\* options.until.
Stop ==
  /\ ~ stopping
  /\ stopping' = TRUE
  /\ UNCHANGED <<view, scheduler, loop, refused, live, returned>>

\* Promise.all: both loops have ended, or the push loop has thrown.
Returns ==
  /\ returned = "no"
  /\ \/ push = "done" /\ live = "ended" /\ returned' = "resolved"
     \/ push = "failed" /\ returned' = "rejected"
  /\ UNCHANGED <<view, scheduler, loop, refused, live, stopping>>

\* One unit of time; requests have time limits.
Tick ==
  /\ push \notin {"starting", "done", "failed"}
  /\ \/ push = "sleeping" /\ rested' = TRUE /\ UNCHANGED now
     \/ push # "sleeping" /\ now < MaxDelay /\ now' = now + 1 /\ UNCHANGED rested
  /\ scheduler' = Older(scheduler)
  /\ UNCHANGED <<view, push, candidate, refused, live, stopping, returned>>

LoopStep ==
  \/ Starts \/ PollAnswers \/ PushAccepted \/ PushRefused \/ Wakes \/ LoopStops
  \/ LoopThrows

LiveStep == Opens \/ OpenFails \/ Closes \/ SessionEnds \/ Retries

Next == LoopStep \/ LiveStep \/ Observes \/ Stop \/ Returns \/ Tick

Spec == Init /\ [][Next]_vars

\* Running code continues, requests and handshakes have time limits, time passes,
\* and a session that is told to stop ends (StopEnds of MqttClient), as does an
\* unused stream that is closed.  No stop is owed, nor that TRMNL accepts; a live session may last for ever.
FairSpec ==
  /\ Spec
  /\ WF_vars(LoopStep) /\ WF_vars(Tick) /\ WF_vars(Returns)
  /\ WF_vars(Opens \/ OpenFails) /\ WF_vars(Closes) /\ WF_vars(Retries)
  /\ WF_vars(stopping /\ SessionEnds)

-----------------------------------------------------------------------------
(* Properties. *)

\* scheduler.ts: the pushes of the bridge keep to the allowance, though each is
\* recorded only when TRMNL has answered, with the time at which its poll began.
Budget == INSTANCE PushBudget WITH spent <- scheduler.recent
KeepsBudget == Budget!Spec

\* A body that can be sent and stays is what TRMNL has in the end, in spite of the
\* rate limit, unless it refuses it or the bridge stops.
ViewIsShown ==
  \A body \in Body \ TooLarge :
    view = body ~> scheduler.body = body \/ view # body \/ refused \/ stopping

\* An unchanged display has its timestamp renewed for ever.
HeartbeatIsSent ==
  scheduler.body # Nothing /\ scheduler.age >= Heartbeat /\ view \notin TooLarge
    ~> scheduler.age < Heartbeat \/ view \in TooLarge \/ refused \/ stopping

\* A stop, and the failure of the push loop, end both loops and runBridge: "a
\* failed push loop must not strand the MQTT socket either" (run.ts:241).
BridgeEnds ==
  stopping \/ push = "failed" ~> /\ push \in {"done", "failed"} /\ live = "ended"
                                 /\ returned # "no"
=============================================================================

------------------------------- MODULE Session -------------------------------
(***************************************************************************)
(* The rendering side of one account's live sessions:                      *)
(* runAccountSession of collector/src/session.ts, with the part of         *)
(* collector/src/run.ts that opens the next session on the same account.   *)
(*                                                                         *)
(* Observations are numbered in the order they are made, so a number       *)
(* stands for everything known up to it: `seen` is what the coordinator    *)
(* has accumulated, a write carries the number it rendered, and `row` is   *)
(* the number stored in the account's row of the table screens.            *)
(***************************************************************************)
EXTENDS Naturals, FiniteSets

CONSTANTS
  MaxReports,   \* bound: observations made in all
  MaxSessions   \* bound: sessions opened, one after the other

ASSUME BoundsAreNat == MaxReports \in Nat /\ MaxSessions \in Nat \ {0}

VARIABLES
  phase,        \* where runAccountSession is
  session,      \* which session of the account is the current one
  stop,         \* its `stopped` promise: "no", or resolved by whom
  reports,      \* observations made so far
  seen,         \* the newest observation this session's coordinator holds
  rendered,     \* the newest one this session took a snapshot of
  pending,      \* a render is owed
  timer,        \* cancelDelayedRender # null
  recent,       \* less than RENDER_COALESCE_MS since lastRenderAt
  writing,      \* writing # null
  awaited,      \* the final flush is waiting for that write
  inflight,     \* writeScreen calls sent and not answered
  row           \* the stored screen

sessionVars == <<phase, session, stop>>
coordinatorVars == <<reports, seen>>
renderVars == <<rendered, pending, timer, recent, writing>>
storeVars == <<inflight, row>>
vars == <<sessionVars, coordinatorVars, renderVars, awaited, storeVars>>

Version == 0 .. MaxReports
Write == [session : 1 .. MaxSessions, version : Version]

TypeOK ==
  /\ phase \in {"starting", "connecting", "connected", "baseline", "live",
                "flushing", "lastwrite", "over"}
  /\ session \in 1 .. MaxSessions
  /\ stop \in {"no", "session", "process"}
  /\ reports \in Version /\ seen \in Version /\ rendered \in Version
  /\ pending \in BOOLEAN /\ timer \in BOOLEAN /\ recent \in BOOLEAN
  /\ writing \in BOOLEAN /\ awaited \in BOOLEAN
  /\ inflight \subseteq Write
  /\ row \in Version

halted == stop # "no"

Init ==
  /\ phase = "starting" /\ session = 1 /\ stop = "no"
  /\ reports = 0 /\ seen = 0
  /\ rendered = 0 /\ pending = FALSE /\ timer = FALSE
  /\ recent = FALSE /\ writing = FALSE
  /\ awaited = FALSE
  /\ inflight = {} /\ row = 0

-----------------------------------------------------------------------------
(* The effects of the session's local functions on renderVars and inflight; *)
(* `rest` is what remains in flight before a new write is sent.             *)

\* Mutant: no second look at the fence just before the write.
RenderUnfenced(version, sent, rest) ==
  /\ pending' = FALSE
  /\ recent' = TRUE
  /\ rendered' = version
  /\ inflight' = IF sent
                 THEN rest \cup {[session |-> session, version |-> version]}
                 ELSE rest

\* render: take a snapshot; write it unless it is too large (then `sent` is
\* false) or the session is halted.
Render(version, sent, rest) ==
  /\ pending' = FALSE
  /\ recent' = TRUE
  /\ rendered' = version
  /\ sent => ~ halted
  /\ inflight' = IF sent
                 THEN rest \cup {[session |-> session, version |-> version]}
                 ELSE rest

\* beginRender, once its own guards have passed.
BeginRender(version, rest) ==
  \E sent \in BOOLEAN :
    /\ Render(version, sent, rest)
    /\ timer' = FALSE
    /\ writing' = sent

\* scheduleRender with no write under way: now, or when the window has passed.
ScheduleIdle(version, rest) ==
  \/ /\ ~ halted /\ ~ recent
     /\ BeginRender(version, rest)
  \/ /\ ~ halted /\ recent
     /\ pending' = TRUE
     /\ timer' = TRUE
     /\ writing' = FALSE
     /\ inflight' = rest
     /\ UNCHANGED <<recent, rendered>>
  \/ /\ halted
     /\ writing' = FALSE
     /\ inflight' = rest
     /\ UNCHANGED <<recent, rendered, pending, timer>>

-----------------------------------------------------------------------------
(* Opening the session. *)

\* An account already told to stop is not connected.
Begin ==
  /\ phase = "starting"
  /\ phase' = IF halted THEN "over" ELSE "connecting"
  /\ UNCHANGED <<session, stop, coordinatorVars, renderVars, awaited, storeVars>>

ConnectFails ==
  /\ phase = "connecting"
  /\ phase' = "over"
  /\ UNCHANGED <<session, stop, coordinatorVars, renderVars, awaited, storeVars>>

\* The stream is open; the coordinator starts from what HTTP said, if anything.
Connected ==
  /\ phase = "connecting"
  /\ \/ /\ halted
        /\ phase' = "over"
        /\ UNCHANGED coordinatorVars
     \/ /\ ~ halted
        /\ phase' = "connected"
        /\ \/ UNCHANGED coordinatorVars
           \/ /\ reports < MaxReports
              /\ reports' = reports + 1
              /\ seen' = reports + 1
  /\ UNCHANGED <<session, stop, renderVars, awaited, storeVars>>

\* The baseline render is awaited before MQTT is watched; it does not go
\* through beginRender, so `writing` stays null.
BaselineRender ==
  /\ phase = "connected"
  /\ IF seen = 0
     THEN phase' = "live" /\ UNCHANGED <<renderVars, inflight>>
     ELSE \E sent \in BOOLEAN :
            /\ Render(seen, sent, inflight)
            /\ phase' = IF sent THEN "baseline" ELSE "live"
            /\ UNCHANGED <<timer, writing>>
  /\ UNCHANGED <<session, stop, coordinatorVars, awaited, row>>

-----------------------------------------------------------------------------
(* The live session. *)

\* Mutant: a report that arrives during a write is not noted.
ScheduleForgets(version) ==
  \/ /\ writing
     /\ UNCHANGED <<renderVars, inflight>>
  \/ /\ ~ writing
     /\ ScheduleIdle(version, inflight)

\* Mutant: a report does not look whether a write is under way.
ScheduleConcurrently(version) == ScheduleIdle(version, inflight)

\* scheduleRender while a write is under way only leaves a note.
Schedule(version) ==
  \/ /\ writing
     /\ pending' = TRUE
     /\ UNCHANGED <<rendered, timer, recent, writing, inflight>>
  \/ /\ ~ writing
     /\ ScheduleIdle(version, inflight)

\* onObservation; after a halt it does nothing.
Report ==
  /\ phase = "live"
  /\ ~ halted
  /\ reports < MaxReports
  /\ reports' = reports + 1
  /\ seen' = reports + 1
  /\ Schedule(reports + 1)
  /\ UNCHANGED <<sessionVars, awaited, row>>

\* RENDER_COALESCE_MS go by.
WindowPasses ==
  /\ recent
  /\ recent' = FALSE
  /\ UNCHANGED <<sessionVars, coordinatorVars, rendered, pending, timer, writing,
                 awaited, storeVars>>

\* The delayed render; beginRender leaves it alone if a write is under way.
TimerFires ==
  /\ timer
  /\ ~ recent
  /\ IF ~ halted /\ pending /\ ~ writing
     THEN BeginRender(seen, inflight)
     ELSE /\ timer' = FALSE
          /\ UNCHANGED <<rendered, pending, recent, writing, inflight>>
  /\ UNCHANGED <<sessionVars, coordinatorVars, awaited, row>>

-----------------------------------------------------------------------------
(* A write is answered: stored or failed, both end the same way. *)

\* The `finally` of beginRender: writing is null again and what is pending is
\* scheduled.
AfterWrite(rest) ==
  IF pending
  THEN ScheduleIdle(seen, rest)
  ELSE /\ writing' = FALSE
       /\ inflight' = rest
       /\ UNCHANGED <<rendered, pending, timer, recent>>

WriteSettles(w) ==
  /\ w \in inflight
  /\ row' \in {row, w.version}
  /\ LET rest == inflight \ {w}
         current == w.session = session IN
     /\ phase' = CASE current /\ phase = "baseline" -> "live"
                   [] current /\ phase = "lastwrite" -> "over"
                   [] OTHER -> phase
     /\ awaited' = (awaited /\ ~ current)
     /\ IF current /\ writing
        THEN AfterWrite(rest)
        ELSE inflight' = rest /\ UNCHANGED renderVars
  /\ UNCHANGED <<session, stop, coordinatorVars>>

-----------------------------------------------------------------------------
(* The end of the session. *)

\* Mutant: the flush is for a pending render only.
EndsUnflushed ==
  /\ phase = "live"
  /\ phase' = "over"
  /\ timer' = FALSE
  /\ UNCHANGED <<session, stop, coordinatorVars, rendered, pending, recent,
                 writing, awaited, storeVars>>

\* `end` resolves.  An ordinary end with something unwritten goes on to flush;
\* after a halt nothing is flushed and nothing is waited for.
Ends ==
  /\ phase = "live"
  /\ IF ~ halted /\ (pending \/ writing)
     THEN /\ phase' = "flushing"
          /\ timer' = FALSE
          /\ awaited' = writing
     ELSE /\ phase' = "over"
          /\ UNCHANGED <<timer, awaited>>
  /\ UNCHANGED <<session, stop, coordinatorVars, rendered, pending, recent,
                 writing, storeVars>>

\* The broker, the network or the idle watchdog ends it ...
BrokerEnds == ~ halted /\ Ends

\* Mutant: stop() is never called for the `stopped` promise.
CallerEndsUnhooked == FALSE

\* ... or stop(), which the `stopped` promise calls, closes it.
CallerEnds == halted /\ Ends

\* After `await writing`: one more render if one is still pending.
Flush ==
  /\ phase = "flushing"
  /\ ~ awaited
  /\ timer' = FALSE
  /\ IF pending
     THEN \E sent \in BOOLEAN :
            /\ Render(seen, sent, inflight)
            /\ phase' = IF sent THEN "lastwrite" ELSE "over"
     ELSE /\ phase' = "over"
          /\ UNCHANGED <<rendered, pending, recent, inflight>>
  /\ UNCHANGED <<session, stop, coordinatorVars, writing, awaited, row>>

\* The `stopped` promise resolves: the fence closes and the timer is cancelled.
Halt(by) ==
  /\ stop # by /\ stop # "process"
  /\ stop' = by
  /\ pending' = FALSE
  /\ timer' = FALSE
  /\ UNCHANGED <<phase, session, coordinatorVars, rendered, recent, writing,
                 awaited, storeVars>>

\* The next session on the account has state of its own.
NextSession ==
  /\ phase = "over"
  /\ session < MaxSessions
  /\ session' = session + 1
  /\ phase' = "starting"
  /\ seen' = 0 /\ rendered' = 0
  /\ pending' = FALSE /\ timer' = FALSE /\ recent' = FALSE
  /\ writing' = FALSE /\ awaited' = FALSE
  /\ UNCHANGED <<reports, storeVars>>

\* collectAccount opens another after its backoff.
Reconnect == ~ halted /\ NextSession /\ UNCHANGED stop

\* collectAll stopped this one and admits its replacement.
Replace == stop = "session" /\ NextSession /\ stop' = "no"

-----------------------------------------------------------------------------

Next ==
  \/ Begin \/ ConnectFails \/ Connected \/ BaselineRender
  \/ Report \/ WindowPasses \/ TimerFires
  \/ \E w \in inflight : WriteSettles(w)
  \/ BrokerEnds \/ CallerEnds \/ Flush
  \/ \E by \in {"session", "process"} : Halt(by)
  \/ Reconnect \/ Replace

Spec == Init /\ [][Next]_vars

\* Code that is running continues, timers fire, the database answers, and a
\* stopped stream closes.  Nobody owes a report, an end, a halt or a session.
FairSpec ==
  /\ Spec
  /\ WF_vars(Begin)
  /\ WF_vars(Connected \/ ConnectFails)
  /\ WF_vars(BaselineRender)
  /\ WF_vars(WindowPasses)
  /\ WF_vars(TimerFires)
  /\ WF_vars(\E w \in inflight : WriteSettles(w))
  /\ WF_vars(CallerEnds)
  /\ WF_vars(Flush)

-----------------------------------------------------------------------------
(* Properties. *)

\* "No write begins after it" (session.ts:145): once the session is halted the
\* writes in flight can only settle, on every path that renders.
NoWriteBeginsHalted == [][halted => inflight' \subseteq inflight]_vars

\* A step that ends a session with a write of its own still under way.
LeavesWriteBehind ==
  phase # "over" /\ phase' = "over" /\ \E w \in inflight' : w.session = session

\* "The bound is at most one further row" (session.ts:145): the stored screen goes
\* back to an older one only when a write that an earlier session left behind is
\* answered; within a session screens are stored in the order of what they show.
\* A session leaves a write behind in two cases only: it was halted, or a report
\* was pending when the write that the flush awaited was answered and its `finally`
\* (session.ts:188) began another, which is `writing' and not the one awaited.
OnlyLeftBehindTurnsBack ==
  [][/\ row' < row => \E w \in inflight \ inflight' : w.session < session
     /\ LeavesWriteBehind => halted \/ (phase = "flushing" /\ writing /\ ~ awaited)]_vars

\* A session never has two writes to its row under way, so they cannot settle in
\* the wrong order.
OneWritePerSession ==
  \A w1, w2 \in inflight : w1.session = w2.session => w1 = w2

\* A render that is owed is always carried by something: a write whose finally
\* will look, a timer, or the flush.
PendingIsCarried == pending => timer \/ writing \/ phase = "flushing"

\* A session that was not halted ends only after its newest observation was
\* rendered (session.ts:263, "does not discard the newest state").
NewestIsRendered == phase = "over" /\ ~ halted => rendered = seen

\* No delayed render survives its session.
NoTimerAfterEnd == timer => phase \in {"live", "flushing"}

\* Whatever a live session has observed is rendered without waiting for another
\* report, unless the session is halted.
ObservedIsRendered ==
  \A n \in 1 .. MaxReports, s \in 1 .. MaxSessions :
    session = s /\ seen >= n ~> rendered >= n \/ halted \/ session # s

\* A halted session ends although the broker would hold it open.
HaltEndsSession == \A s \in 1 .. MaxSessions :
  halted /\ session = s ~> phase = "over" \/ session # s
=============================================================================

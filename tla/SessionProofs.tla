---------------------------- MODULE SessionProofs ----------------------------
(* Theorems about Session, for any number of observations and sessions.      *)
EXTENDS Session, TLAPS

-----------------------------------------------------------------------------
(* The inductive invariant, in parts.                                        *)

\* A write under way is from this session or an earlier one, and this session
\* knows of its own: through `writing`, or because it is awaiting it.
WritesAreKnown ==
  \A w \in inflight :
    /\ w.session <= session
    /\ w.session = session => writing \/ phase \in {"baseline", "lastwrite", "over"}

\* After the fence nothing is owed and no timer runs.
FenceIsClear == halted => ~ pending /\ ~ timer

\* A timer runs only for a render that is owed.
TimerIsOwed == timer => pending

\* beginRender's write is watched, then awaited, and may outlive the session.
\* Once it is not awaited a flush that owes a render finds no write under way.
WriteIsWatched ==
  /\ writing => phase \in {"live", "flushing", "over"}
  /\ awaited => writing /\ phase = "flushing"
  /\ phase = "flushing" /\ pending /\ writing => awaited

\* Nothing is rendered or owed before the baseline, nor owed after the end.
NothingOwedOutside ==
  /\ phase \in {"starting", "connecting"} => seen = 0 /\ rendered = 0 /\ ~ pending
  /\ phase = "connected" => rendered = 0 /\ ~ pending
  /\ phase \in {"baseline", "lastwrite"} => rendered = seen /\ ~ pending /\ ~ writing
  /\ phase = "over" => ~ pending

\* What has been observed and not rendered is owed.
UnrenderedIsOwed ==
  phase \in {"live", "flushing"} /\ ~ halted /\ rendered # seen => pending

IInv ==
  /\ TypeOK
  /\ WritesAreKnown
  /\ OneWritePerSession
  /\ FenceIsClear
  /\ TimerIsOwed
  /\ PendingIsCarried
  /\ NoTimerAfterEnd
  /\ WriteIsWatched
  /\ NothingOwedOutside
  /\ UnrenderedIsOwed
  /\ NewestIsRendered

LEMMA InitIInv == Init => IInv
<1> SUFFICES ASSUME Init PROVE IInv
  OBVIOUS
<1> USE BoundsAreNat DEF Init
<1>0. 0 \in Version /\ 1 \in 1 .. MaxSessions
  BY DEF Version
<1>1. TypeOK
  BY <1>0 DEF TypeOK
<1> QED
  BY <1>1
  DEF IInv, WritesAreKnown, OneWritePerSession, FenceIsClear, TimerIsOwed, PendingIsCarried,
      NoTimerAfterEnd, WriteIsWatched, NothingOwedOutside, UnrenderedIsOwed,
      NewestIsRendered, halted

\* The types of a step that may send a write.
LEMMA RenderTypes ==
  ASSUME NEW version \in Version, NEW sent \in BOOLEAN,
         NEW rest \in SUBSET Write, session \in 1 .. MaxSessions,
         Render(version, sent, rest)
  PROVE  /\ pending' \in BOOLEAN /\ recent' \in BOOLEAN /\ rendered' \in Version
         /\ inflight' \subseteq Write
<1>1. [session |-> session, version |-> version] \in Write
  BY DEF Write
<1> QED BY <1>1 DEF Render

LEMMA ScheduleTypes ==
  ASSUME TypeOK, NEW version \in Version, NEW rest \in SUBSET Write,
         ScheduleIdle(version, rest)
  PROVE  /\ pending' \in BOOLEAN /\ recent' \in BOOLEAN /\ rendered' \in Version
         /\ timer' \in BOOLEAN /\ writing' \in BOOLEAN
         /\ inflight' \subseteq Write
<1>1. CASE BeginRender(version, rest)
  BY <1>1, RenderTypes DEF TypeOK, BeginRender
<1>2. CASE ~ BeginRender(version, rest)
  BY <1>2 DEF TypeOK, ScheduleIdle
<1> QED BY <1>1, <1>2

LEMMA TypeStep == TypeOK /\ [Next]_vars => TypeOK'
<1> SUFFICES ASSUME TypeOK, [Next]_vars PROVE TypeOK'
  OBVIOUS
<1> USE BoundsAreNat DEF TypeOK, sessionVars, coordinatorVars, renderVars, storeVars
<1>1. CASE UNCHANGED vars
  BY <1>1 DEF vars
<1>2. CASE Begin \/ ConnectFails \/ Connected
  BY <1>2 DEF Begin, ConnectFails, Connected, Version
<1>3. CASE BaselineRender
  <2>1. CASE seen = 0
    BY <1>3, <2>1 DEF BaselineRender
  <2>2. CASE seen # 0
    BY <1>3, <2>2, RenderTypes DEF BaselineRender
  <2> QED BY <2>1, <2>2
<1>4. CASE Report
  <2>1. reports + 1 \in Version
    BY <1>4 DEF Report, Version
  <2>2. CASE writing
    BY <1>4, <2>1, <2>2 DEF Report, Schedule
  <2>3. CASE ~ writing
    BY <1>4, <2>1, <2>3, ScheduleTypes DEF Report, Schedule
  <2> QED BY <2>2, <2>3
<1>5. CASE WindowPasses
  BY <1>5 DEF WindowPasses
<1>6. CASE TimerFires
  <2>1. CASE ~ halted /\ pending /\ ~ writing
    BY <1>6, <2>1, RenderTypes DEF TimerFires, BeginRender
  <2>2. CASE ~ (~ halted /\ pending /\ ~ writing)
    BY <1>6, <2>2 DEF TimerFires
  <2> QED BY <2>1, <2>2
<1>7. ASSUME NEW w \in inflight, WriteSettles(w) PROVE TypeOK'
  <2>1. w.version \in Version /\ inflight \ {w} \in SUBSET Write
    BY DEF Write
  <2>2. row' \in Version /\ phase' \in {phase, "live", "over"} /\ awaited' \in BOOLEAN
    BY <1>7, <2>1 DEF WriteSettles
  <2>3. CASE ScheduleIdle(seen, inflight \ {w})
    BY <1>7, <2>1, <2>2, <2>3, ScheduleTypes DEF WriteSettles
  <2>4. CASE ~ ScheduleIdle(seen, inflight \ {w})
    BY <1>7, <2>1, <2>2, <2>4 DEF WriteSettles, AfterWrite
  <2> QED BY <2>3, <2>4
<1>8. CASE BrokerEnds \/ CallerEnds
  BY <1>8 DEF BrokerEnds, CallerEnds, Ends
<1>9. CASE Flush
  <2>1. CASE pending
    BY <1>9, <2>1, RenderTypes DEF Flush
  <2>2. CASE ~ pending
    BY <1>9, <2>2 DEF Flush
  <2> QED BY <2>1, <2>2
<1>10. ASSUME NEW by \in {"session", "process"}, Halt(by) PROVE TypeOK'
  BY <1>10 DEF Halt
<1>11. CASE Reconnect \/ Replace
  <2>1. 0 \in Version
    BY DEF Version
  <2>2. session' \in 1 .. MaxSessions
    BY <1>11 DEF Reconnect, Replace, NextSession
  <2> QED BY <1>11, <2>1, <2>2 DEF Reconnect, Replace, NextSession
<1> QED BY <1>1, <1>2, <1>3, <1>4, <1>5, <1>6, <1>7, <1>8, <1>9, <1>10, <1>11
        DEF Next

\* Every variable keeps its type; no write and no snapshot is ahead of what was
\* observed.
THEOREM TypeCorrect == Spec => []TypeOK
<1>1. Init => TypeOK
  BY InitIInv DEF IInv
<1> QED BY <1>1, TypeStep, PTL DEF Spec

\* Every step keeps the invariant.
LEMMA StepIInv == IInv /\ [Next]_vars => IInv'
<1> SUFFICES ASSUME IInv, [Next]_vars PROVE IInv'
  OBVIOUS
<1>a. TypeOK'
  BY TypeStep DEF IInv
<1>b. session \in Nat /\ \A w \in inflight : w.session \in Nat
  BY BoundsAreNat DEF IInv, TypeOK, Write
<1> USE <1>a, <1>b
    DEF IInv, WritesAreKnown, OneWritePerSession, FenceIsClear, TimerIsOwed,
        PendingIsCarried, NoTimerAfterEnd, WriteIsWatched, NothingOwedOutside,
        UnrenderedIsOwed, NewestIsRendered, halted,
        sessionVars, coordinatorVars, renderVars, storeVars
<1>1. CASE UNCHANGED vars
  BY <1>1 DEF vars
<1>2. CASE Begin \/ ConnectFails \/ Connected
  BY <1>2 DEF Begin, ConnectFails, Connected
<1>3. CASE BaselineRender
  BY <1>3 DEF BaselineRender, Render
<1>4. CASE Report
  BY <1>4 DEF Report, Schedule, ScheduleIdle, BeginRender, Render
<1>5. CASE WindowPasses
  BY <1>5 DEF WindowPasses
<1>6. CASE TimerFires
  <2>1. CASE ~ halted /\ pending /\ ~ writing
    BY <1>6, <2>1 DEF TimerFires, BeginRender, Render
  <2>2. CASE ~ (~ halted /\ pending /\ ~ writing)
    BY <1>6, <2>2 DEF TimerFires
  <2> QED BY <2>1, <2>2
<1>7. ASSUME NEW w \in inflight, WriteSettles(w) PROVE IInv'
  <2> USE <1>7 DEF WriteSettles
  <2>1. CASE w.session = session /\ writing
    \* The write is beginRender's own: its `finally` runs.
    <3>1. phase \in {"live", "flushing", "over"} /\ phase' = phase /\ ~ awaited'
      BY <2>1
    <3>2. \A v \in inflight \ {w} : v.session # session
      BY <2>1
    <3>3. CASE ~ pending
      BY <2>1, <3>1, <3>2, <3>3 DEF AfterWrite
    <3>4. CASE pending /\ ~ recent
      <4>1. PICK sent \in BOOLEAN :
              /\ Render(seen, sent, inflight \ {w})
              /\ timer' = FALSE
              /\ writing' = sent
        BY <2>1, <3>4 DEF AfterWrite, ScheduleIdle, BeginRender
      <4>2. CASE sent = TRUE
        BY <2>1, <3>1, <3>2, <3>4, <4>1, <4>2 DEF Render
      <4>3. CASE sent = FALSE
        BY <2>1, <3>1, <3>2, <3>4, <4>1, <4>3 DEF Render
      <4> QED BY <4>2, <4>3
    <3>5. CASE pending /\ recent
      BY <2>1, <3>1, <3>2, <3>5 DEF AfterWrite, ScheduleIdle
    <3> QED BY <3>3, <3>4, <3>5
  <2>2. CASE ~ (w.session = session /\ writing)
    BY <2>2
  <2> QED BY <2>1, <2>2
<1>8. CASE BrokerEnds \/ CallerEnds
  <2>1. CASE ~ halted /\ (pending \/ writing)
    <3>1. writing \in BOOLEAN
      BY DEF TypeOK
    <3>2. CASE writing = TRUE
      BY <1>8, <2>1, <3>2 DEF BrokerEnds, CallerEnds, Ends
    <3>3. CASE writing = FALSE
      BY <1>8, <2>1, <3>3 DEF BrokerEnds, CallerEnds, Ends
    <3> QED BY <3>1, <3>2, <3>3
  <2>2. CASE ~ (~ halted /\ (pending \/ writing))
    BY <1>8, <2>2 DEF BrokerEnds, CallerEnds, Ends
  <2> QED BY <2>1, <2>2
<1>9. CASE Flush
  BY <1>9 DEF Flush, Render
<1>10. ASSUME NEW by \in {"session", "process"}, Halt(by) PROVE IInv'
  BY <1>10 DEF Halt
<1>11. CASE Reconnect \/ Replace
  BY <1>11 DEF Reconnect, Replace, NextSession
<1> QED BY <1>1, <1>2, <1>3, <1>4, <1>5, <1>6, <1>7, <1>8, <1>9, <1>10, <1>11
        DEF Next

-----------------------------------------------------------------------------
(* The theorems. *)

LEMMA Invariant == Spec => []IInv
  BY InitIInv, StepIInv, PTL DEF Spec

\* A session's writes are sent one at a time, on every path that renders.
THEOREM OneWrite == Spec => []OneWritePerSession
<1>1. IInv => OneWritePerSession
  BY DEF IInv
<1> QED BY <1>1, Invariant, PTL

\* No render that is owed is left without a write, a timer or a flush to do it.
THEOREM PendingCarried == Spec => []PendingIsCarried
<1>1. IInv => PendingIsCarried
  BY DEF IInv
<1> QED BY <1>1, Invariant, PTL

\* An ordinary end never discards an observation.
THEOREM NewestRendered == Spec => []NewestIsRendered
<1>1. IInv => NewestIsRendered
  BY DEF IInv
<1> QED BY <1>1, Invariant, PTL

\* No timer outlives its session.
THEOREM TimerEnds == Spec => []NoTimerAfterEnd
<1>1. IInv => NoTimerAfterEnd
  BY DEF IInv
<1> QED BY <1>1, Invariant, PTL

\* Once a session is halted it sends no write: a timer that was due, a write
\* that settles, the baseline and the flush all find the fence closed.
THEOREM FenceHolds == Spec => NoWriteBeginsHalted
<1>1. ASSUME IInv, [Next]_vars, halted PROVE inflight' \subseteq inflight
  <2> USE <1>1 DEF IInv, FenceIsClear, sessionVars, coordinatorVars, renderVars,
                   storeVars, Render, BeginRender, ScheduleIdle
  <2>1. CASE \/ UNCHANGED vars \/ Begin \/ ConnectFails \/ Connected \/ WindowPasses
             \/ BrokerEnds \/ CallerEnds \/ Reconnect \/ Replace
             \/ \E by \in {"session", "process"} : Halt(by)
    BY <2>1 DEF vars, Begin, ConnectFails, Connected, WindowPasses, BrokerEnds,
                CallerEnds, Ends, Halt, Reconnect, Replace, NextSession
  <2>2. CASE BaselineRender \/ Report \/ TimerFires \/ Flush
    BY <2>2 DEF BaselineRender, Report, TimerFires, Flush
  <2>3. ASSUME NEW w \in inflight, WriteSettles(w) PROVE inflight' \subseteq inflight
    BY <2>3 DEF WriteSettles, AfterWrite
  <2> QED BY <2>1, <2>2, <2>3 DEF Next
<1>2. IInv /\ [Next]_vars => [halted => inflight' \subseteq inflight]_vars
  BY <1>1
<1> QED BY <1>2, Invariant, PTL DEF Spec, NoWriteBeginsHalted

-----------------------------------------------------------------------------
(* The order in which screens are stored. *)

\* A coordinator holds nothing or the newest observation, and the newest if a
\* render is owed; nothing stored or under way is ahead of it.
Newest ==
  /\ seen \in {0, reports} /\ (pending => seen = reports)
  /\ row <= reports /\ \A w \in inflight : w.version <= reports

\* A write of this session is behind neither the row nor another write.
InOrder ==
  \A w \in inflight : w.session = session =>
    /\ row <= w.version
    /\ \A v \in inflight : v.version <= w.version

Stored == Newest /\ InOrder

\* A render of the newest observation, after which the writes in `rest`, none of this
\* session, are still under way.
LEMMA RenderInOrder ==
  ASSUME NEW sent \in BOOLEAN, NEW rest, Render(reports', sent, rest),
         reports' \in Nat, row' <= reports', session' = session,
         \A w \in rest : w.version <= reports' /\ w.session # session
  PROVE  InOrder' /\ \A w \in inflight' : w.version <= reports'
<1> DEFINE new == [session |-> session, version |-> reports']
<1>1. inflight' \subseteq rest \cup {new}
  BY DEF Render
<1>2. new.session = session /\ new.version = reports'
  OBVIOUS
<1> HIDE DEF new
<1>3. \A w \in inflight' : w.version <= reports'
  BY <1>1, <1>2
<1>4. ASSUME NEW w \in inflight', w.session = session PROVE w.version = reports'
  BY <1>1, <1>2, <1>4
<1> QED BY <1>3, <1>4 DEF InOrder

\* Writes settle and nothing is rendered.
LEMMA SettlesInOrder ==
  ASSUME InOrder, inflight' \subseteq inflight, session' = session,
         \/ row' = row
         \/ \E w \in inflight : row' = w.version
  PROVE  InOrder'
  BY DEF InOrder

\* scheduleRender, with no write of this session under way.
LEMMA ScheduleInOrder ==
  ASSUME NEW rest, ScheduleIdle(reports', rest),
         reports' \in Nat, row' <= reports', session' = session,
         \A w \in rest : w.version <= reports' /\ w.session # session
  PROVE  InOrder' /\ \A w \in inflight' : w.version <= reports'
<1>1. CASE BeginRender(reports', rest)
  BY <1>1, RenderInOrder DEF BeginRender
<1>2. CASE ~ BeginRender(reports', rest)
  BY <1>2 DEF ScheduleIdle, InOrder
<1> QED BY <1>1, <1>2

LEMMA StepStored == IInv /\ Stored /\ [Next]_vars => Stored'
<1> SUFFICES ASSUME IInv, Stored, [Next]_vars PROVE Stored'
  OBVIOUS
<1>a. /\ IInv' /\ TypeOK /\ TypeOK'
      /\ reports \in Nat /\ reports' \in Nat /\ row \in Nat /\ row' \in Nat
      /\ session \in Nat /\ \A w \in inflight : w.version \in Nat /\ w.session \in Nat
  <2>1. IInv' /\ TypeOK /\ TypeOK'
    BY StepIInv, TypeStep DEF IInv
  <2> QED BY <2>1, BoundsAreNat DEF TypeOK, Version, Write
<1>b. \A w \in inflight : w.session = session =>
         writing \/ phase \in {"baseline", "lastwrite", "over"}
  BY DEF IInv, WritesAreKnown
<1> USE <1>a DEF Stored, Newest, sessionVars, coordinatorVars, renderVars, storeVars
<1>1. CASE \/ UNCHANGED vars \/ Begin \/ ConnectFails \/ WindowPasses
           \/ BrokerEnds \/ CallerEnds
           \/ \E by \in {"session", "process"} : Halt(by)
  BY <1>1 DEF vars, Begin, ConnectFails, WindowPasses, BrokerEnds, CallerEnds, Ends, Halt,
              InOrder
<1>2. CASE Connected
  BY <1>2 DEF Connected, InOrder, IInv, NothingOwedOutside
<1>3. CASE BaselineRender
  <2>1. CASE seen = 0
    BY <1>3, <2>1 DEF BaselineRender, InOrder
  <2>2. CASE seen # 0
    <3>1. \A w \in inflight : w.session # session
      BY <1>3, <1>b DEF BaselineRender, IInv, WriteIsWatched
    <3>2. PICK sent \in BOOLEAN : Render(reports', sent, inflight)
      BY <1>3, <2>2 DEF BaselineRender
    <3>3. InOrder' /\ \A w \in inflight' : w.version <= reports'
      BY <1>3, <3>1, <3>2, RenderInOrder DEF BaselineRender
    <3> QED BY <1>3, <3>2, <3>3 DEF BaselineRender, Render
  <2> QED BY <2>1, <2>2
<1>4. CASE Report
  <2>1. /\ reports' = reports + 1 /\ seen' = reports' /\ session' = session
        /\ row' = row /\ row' <= reports' /\ \A w \in inflight : w.version <= reports'
    BY <1>4 DEF Report
  <2>2. CASE writing
    BY <1>4, <2>1, <2>2 DEF Report, Schedule, InOrder
  <2>3. CASE ~ writing
    <3>1. \A w \in inflight : w.session # session
      BY <1>4, <1>b, <2>3 DEF Report
    <3>2. ScheduleIdle(reports', inflight)
      BY <1>4, <2>1, <2>3 DEF Report, Schedule
    <3> QED BY <2>1, <3>1, <3>2, ScheduleInOrder
  <2> QED BY <2>2, <2>3
<1>5. CASE TimerFires
  <2>1. CASE ~ halted /\ pending /\ ~ writing
    <3>1. \A w \in inflight : w.session # session
      BY <1>5, <1>b, <2>1 DEF TimerFires, IInv, NoTimerAfterEnd
    <3>2. PICK sent \in BOOLEAN : Render(reports', sent, inflight)
      BY <1>5, <2>1 DEF TimerFires, BeginRender
    <3>3. InOrder' /\ \A w \in inflight' : w.version <= reports'
      BY <1>5, <3>1, <3>2, RenderInOrder DEF TimerFires
    <3> QED BY <1>5, <3>2, <3>3 DEF TimerFires, Render
  <2>2. CASE ~ (~ halted /\ pending /\ ~ writing)
    BY <1>5, <2>2 DEF TimerFires, InOrder
  <2> QED BY <2>1, <2>2
<1>6. ASSUME NEW w \in inflight, WriteSettles(w) PROVE Stored'
  <2>1. /\ session' = session /\ reports' = reports /\ seen' = seen
        /\ row' \in {row, w.version} /\ row' <= reports'
        /\ \A v \in inflight \ {w} : v.version <= reports'
    BY <1>6 DEF WriteSettles
  <2>2. CASE w.session = session /\ writing /\ pending
    <3>1. \A v \in inflight \ {w} : v.session # session
      BY <2>2 DEF IInv, OneWritePerSession
    <3>2. ScheduleIdle(reports', inflight \ {w})
      BY <1>6, <2>1, <2>2 DEF WriteSettles, AfterWrite
    <3>3. pending' => pending
      BY <2>2
    <3> QED BY <2>1, <3>1, <3>2, <3>3, ScheduleInOrder
  <2>3. CASE ~ (w.session = session /\ writing /\ pending)
    <3>1. inflight' \subseteq inflight /\ pending' = pending
      BY <1>6, <2>3 DEF WriteSettles, AfterWrite
    <3> QED BY <2>1, <3>1, SettlesInOrder
  <2> QED BY <2>2, <2>3
<1>7. CASE Flush
  <2>1. CASE pending
    <3>1. \A w \in inflight : w.session # session
      BY <1>7, <1>b, <2>1 DEF Flush, IInv, WriteIsWatched
    <3>2. PICK sent \in BOOLEAN : Render(reports', sent, inflight)
      BY <1>7, <2>1 DEF Flush
    <3>3. InOrder' /\ \A w \in inflight' : w.version <= reports'
      BY <1>7, <3>1, <3>2, RenderInOrder DEF Flush
    <3> QED BY <1>7, <3>2, <3>3 DEF Flush, Render
  <2>2. CASE ~ pending
    BY <1>7, <2>2 DEF Flush, InOrder
  <2> QED BY <2>1, <2>2
<1>8. CASE Reconnect \/ Replace
  \* Nothing under way is of the new session.
  <2>1. /\ session' = session + 1 /\ inflight' = inflight /\ row' = row
        /\ seen' = 0 /\ ~ pending' /\ reports' = reports
    BY <1>8 DEF Reconnect, Replace, NextSession
  <2>2. \A w \in inflight : w.session # session'
    BY <2>1 DEF IInv, WritesAreKnown
  <2> QED BY <2>1, <2>2 DEF InOrder
<1> QED BY <1>1, <1>2, <1>3, <1>4, <1>5, <1>6, <1>7, <1>8 DEF Next

\* A session that ends with a write of its own under way was halted, or the flush has
\* awaited a write and found another begun by the finally of the first.
LEMMA LeavesBehind ==
  ASSUME IInv, [Next]_vars, LeavesWriteBehind
  PROVE  halted \/ (phase = "flushing" /\ writing /\ ~ awaited)
<1> USE DEF LeavesWriteBehind, sessionVars, coordinatorVars, renderVars, storeVars
<1>a. /\ \A w \in inflight : w.session = session =>
           writing \/ phase \in {"baseline", "lastwrite", "over"}
      /\ \A v, w \in inflight : v.session = w.session => v = w
      /\ writing => phase \in {"live", "flushing", "over"}
      /\ phase = "flushing" /\ pending /\ writing => awaited
  BY DEF IInv, WritesAreKnown, OneWritePerSession, WriteIsWatched
<1>1. CASE Begin \/ ConnectFails \/ Connected
  BY <1>1, <1>a DEF Begin, ConnectFails, Connected
<1>2. CASE \/ UNCHANGED vars \/ BaselineRender \/ Report \/ WindowPasses \/ TimerFires
           \/ Reconnect \/ Replace \/ \E by \in {"session", "process"} : Halt(by)
  BY <1>2 DEF vars, BaselineRender, Report, WindowPasses, TimerFires, Reconnect, Replace,
              NextSession, Halt
<1>3. ASSUME NEW w \in inflight, WriteSettles(w) PROVE FALSE
  \* Only the answer of the last write ends a session, and no other is under way.
  <2>1. w.session = session /\ phase = "lastwrite" /\ ~ writing
    BY <1>3, <1>a DEF WriteSettles
  <2>2. inflight' = inflight \ {w} /\ session' = session
    BY <1>3, <2>1 DEF WriteSettles
  <2> QED BY <2>1, <2>2, <1>a
<1>4. CASE BrokerEnds \/ CallerEnds
  BY <1>4, <1>a DEF BrokerEnds, CallerEnds, Ends
<1>5. CASE Flush
  <2>1. CASE pending
    BY <1>5, <2>1, <1>a DEF Flush, Render
  <2>2. CASE ~ pending
    BY <1>5, <2>2, <1>a DEF Flush
  <2> QED BY <2>1, <2>2
<1> QED BY <1>1, <1>2, <1>3, <1>4, <1>5 DEF Next

\* session.ts:145: the screen goes back only with a write that an earlier session left
\* behind, and a session leaves one behind only if it was halted or if its flush did
\* not await the write that the awaited one's finally began, however writes, reports,
\* halts and ends are interleaved.
THEOREM TurnsBack == Spec => OnlyLeftBehindTurnsBack
<1>1. Init => Stored
  BY BoundsAreNat DEF Init, Stored, Newest, InOrder
<1>2. ASSUME IInv, Stored, [Next]_vars, row' < row
      PROVE  \E w \in inflight \ inflight' : w.session < session
  <2>0. row \in Nat
    BY <1>2, BoundsAreNat DEF IInv, TypeOK, Version
  <2>a. row' # row
    BY <1>2, <2>0
  <2>b. ~ \/ UNCHANGED vars \/ Begin \/ ConnectFails \/ Connected \/ BaselineRender
          \/ Report \/ WindowPasses \/ TimerFires
    BY <2>a DEF vars, storeVars, Begin, ConnectFails, Connected, BaselineRender, Report,
                WindowPasses, TimerFires
  <2>c. ~ \/ BrokerEnds \/ CallerEnds \/ Flush \/ Reconnect \/ Replace
          \/ \E by \in {"session", "process"} : Halt(by)
    BY <2>a DEF storeVars, BrokerEnds, CallerEnds, Ends, Flush, Halt, Reconnect, Replace,
                NextSession
  <2>1. PICK w \in inflight : WriteSettles(w)
    BY <1>2, <2>b, <2>c DEF Next
  <2>2. row' = w.version
    BY <1>2, <2>0, <2>1 DEF WriteSettles
  <2>3. /\ session \in Nat /\ w.session \in Nat /\ w.session <= session
        /\ w.version \in Nat
    <3>1. w \in Write /\ session \in Nat
      BY <1>2, BoundsAreNat DEF IInv, TypeOK
    <3>2. w.session <= session
      BY <1>2 DEF IInv, WritesAreKnown
    <3> QED BY <3>1, <3>2, BoundsAreNat DEF Write, Version
  <2>4. w.session # session
    BY <1>2, <2>0, <2>2, <2>3 DEF Stored, InOrder
  <2>5. inflight' = inflight \ {w}
    BY <2>1, <2>4 DEF WriteSettles
  <2> QED BY <2>3, <2>4, <2>5
<1>3. IInv /\ Stored /\ [Next]_vars =>
        [/\ row' < row => \E w \in inflight \ inflight' : w.session < session
         /\ LeavesWriteBehind => halted \/ (phase = "flushing" /\ writing /\ ~ awaited)]_vars
  BY <1>2, LeavesBehind
<1> QED BY <1>1, <1>3, StepStored, Invariant, PTL DEF Spec, OnlyLeftBehindTurnsBack
=============================================================================

--------------------------- MODULE PushScheduler ---------------------------
(***************************************************************************)
(* The policy of bridge/src/push/scheduler.ts.  Its state is kept by age:  *)
(* recentPushes and lastPushedAt are the ages of those times, and `now' is *)
(* a delay, how long ago the clock was read.  A body is what comparableBody*)
(* leaves of it: everything but updated_at.                                *)
(***************************************************************************)
EXTENDS Naturals, FiniteSets

CONSTANTS
  Hour,       \* HOUR_MS
  Heartbeat,  \* DEFAULT_HEARTBEAT_MS
  MaxPushes,  \* maxPushesPerHour
  MaxDelay    \* how long after reading the clock a push can be over

ASSUME SchedulerAssumption ==
  /\ Hour \in Nat \ {0} /\ MaxPushes \in Nat \ {0}
  /\ Heartbeat \in Nat \ {0} /\ MaxDelay \in Nat

Nothing == "nothing"

emptySchedulerState == [recent |-> {}, body |-> Nothing, age |-> 0]

InWindow(state, now) == {a \in state.recent : a < Hour + now}

\* Mutant: one push more than the hour allows.
RateLimitedLate(state, now) ==
  Cardinality(InWindow(state, now)) > MaxPushes

\* rateLimitDelay: not if the hour is full, nor sooner than an even share of it.
RateLimited(state, now) ==
  \/ Cardinality(InWindow(state, now)) >= MaxPushes
  \/ \E a \in InWindow(state, now) : a <= now \/ (a - now) * MaxPushes < Hour

HeartbeatDue(state, now) == state.age >= Heartbeat + now

\* Mutant: an unchanged body is never sent again.
WorthwhileChanged(state, body, now) == state.body # body

\* decide, for a body that may be sent: only a change or a heartbeat is worth a push.
Worthwhile(state, body, now) == state.body # body \/ HeartbeatDue(state, now)

decide(state, body, sendable, now) ==
  sendable /\ Worthwhile(state, body, now) /\ ~ RateLimited(state, now)

recordPush(state, body, now) ==
  [recent |-> InWindow(state, now) \cup {now}, body |-> body, age |-> now]

\* Time passes.  Ages beyond every limit stay there.
Older(state) ==
  [state EXCEPT !.recent = {a + 1 : a \in {b \in @ : b < Hour + MaxDelay}},
                !.age = IF @ < Heartbeat + MaxDelay THEN @ + 1 ELSE @]
=============================================================================

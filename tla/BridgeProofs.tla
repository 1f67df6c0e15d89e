---------------------------- MODULE BridgeProofs ----------------------------
(***************************************************************************)
(* The bridge keeps to its push budget, for every allowance, hour and      *)
(* heartbeat, and for every length of a poll.                              *)
(***************************************************************************)
EXTENDS Bridge, FiniteSetTheorems, TLAPS

-----------------------------------------------------------------------------
(* The inductive invariant, in parts. *)

Recent == scheduler.recent

AgesTyped ==
  /\ Recent \subseteq 0 .. Hour + MaxDelay
  /\ now \in 0 .. MaxDelay

\* A push under way is due by the clock its decision was taken with, however long
\* TRMNL takes to answer.
Due(recent, delay) ==
  LET earlier == {a \in recent : a < Hour + delay} IN
  /\ Cardinality(earlier) < MaxPushes
  /\ \A a \in earlier : a > delay /\ (a - delay) * MaxPushes >= Hour

PushIsDue == push = "pushing" => Due(Recent, now)

Allowed == Cardinality({a \in Recent : a < Hour}) <= MaxPushes

\* The scheduler's state is a record.
SchedulerTyped == scheduler = [recent |-> scheduler.recent, body |-> scheduler.body,
                               age |-> scheduler.age]

IInv == SchedulerTyped /\ AgesTyped /\ PushIsDue /\ Allowed

-----------------------------------------------------------------------------
(* Sets of ages. *)

Shift(S) == {a + 1 : a \in S}

LEMMA AgesFinite ==
  ASSUME NEW S, NEW n \in Nat, S \subseteq 0 .. n
  PROVE  IsFiniteSet(S) /\ Cardinality(S) \in Nat
<1>1. IsFiniteSet(0 .. n)
  BY FS_Interval
<1>2. IsFiniteSet(S)
  BY <1>1, FS_Subset
<1> QED BY <1>2, FS_CardinalityType

LEMMA LimitNat == Hour + MaxDelay \in Nat
BY SchedulerAssumption

\* Time passing does not multiply ages.
LEMMA ShiftCard ==
  ASSUME NEW S, S \subseteq Nat, IsFiniteSet(S)
  PROVE  IsFiniteSet(Shift(S)) /\ Cardinality(Shift(S)) <= Cardinality(S)
<1> DEFINE f == [a \in S |-> a + 1]
<1>1. f \in Surjection(S, Shift(S))
  <2>1. f \in [S -> Shift(S)]
    BY DEF Shift
  <2>2. \A t \in Shift(S) : \E a \in S : f[a] = t
    BY DEF Shift
  <2> QED BY <2>1, <2>2 DEF Surjection
<1> QED BY <1>1, FS_Surjection

\* What is due stays due while the answer is awaited.
LEMMA DueLater ==
  ASSUME NEW recent, recent \subseteq 0 .. Hour + MaxDelay,
         NEW delay \in 0 .. MaxDelay, delay < MaxDelay, Due(recent, delay)
  PROVE  Due(Shift({b \in recent : b < Hour + MaxDelay}), delay + 1)
<1> USE SchedulerAssumption
<1> DEFINE earlier == {a \in recent : a < Hour + delay}
           later == Shift({b \in recent : b < Hour + MaxDelay})
           window == {a \in later : a < Hour + (delay + 1)}
<1>1. window = Shift(earlier)
  <2>1. ASSUME NEW a \in window PROVE a \in Shift(earlier)
    <3>1. PICK b \in recent : a = b + 1 /\ b < Hour + MaxDelay
      BY <2>1 DEF Shift
    <3>2. b \in earlier
      BY <2>1, <3>1
    <3> QED BY <3>1, <3>2 DEF Shift
  <2>2. ASSUME NEW a \in Shift(earlier) PROVE a \in window
    <3>1. PICK b \in earlier : a = b + 1
      BY <2>2 DEF Shift
    <3>2. b < Hour + MaxDelay /\ a < Hour + (delay + 1)
      BY <3>1
    <3> QED BY <3>1, <3>2 DEF Shift
  <2> QED BY <2>1, <2>2
<1>2. earlier \subseteq 0 .. Hour + MaxDelay
  OBVIOUS
<1>3. IsFiniteSet(earlier) /\ Cardinality(earlier) \in Nat /\ earlier \subseteq Nat
  BY <1>2, LimitNat, AgesFinite
<1>4. Cardinality(window) \in Nat /\ Cardinality(window) <= Cardinality(earlier)
  BY <1>1, <1>3, ShiftCard, FS_CardinalityType
<1>5. Cardinality(window) < MaxPushes
  BY <1>3, <1>4 DEF Due
<1>6. ASSUME NEW a \in window
      PROVE a > delay + 1 /\ (a - (delay + 1)) * MaxPushes >= Hour
  <2>1. PICK b \in earlier : a = b + 1
    BY <1>1, <1>6 DEF Shift
  <2>2. b > delay /\ (b - delay) * MaxPushes >= Hour
    BY <2>1 DEF Due
  <2>3. b \in Nat /\ delay \in Nat /\ a - (delay + 1) = b - delay
    BY <2>1
  <2> QED BY <2>1, <2>2, <2>3
<1> QED BY <1>5, <1>6 DEF Due

\* The hour never sees more than the allowance: by a push,
LEMMA AllowedByPush ==
  ASSUME NEW recent, recent \subseteq 0 .. Hour + MaxDelay,
         NEW delay \in 0 .. MaxDelay, Due(recent, delay)
  PROVE  LET earlier == {a \in recent : a < Hour + delay} IN
         Cardinality({a \in earlier \cup {delay} : a < Hour}) <= MaxPushes
<1> USE SchedulerAssumption
<1> DEFINE earlier == {a \in recent : a < Hour + delay}
           more == earlier \cup {delay}
<1>1. IsFiniteSet(earlier) /\ Cardinality(earlier) \in Nat
  <2>1. earlier \subseteq 0 .. Hour + MaxDelay
    OBVIOUS
  <2> QED BY <2>1, LimitNat, AgesFinite
<1>2. IsFiniteSet(more) /\ Cardinality(more) <= Cardinality(earlier) + 1
      /\ Cardinality(more) \in Nat
  <2>1. IsFiniteSet(more)
        /\ Cardinality(more) = IF delay \in earlier THEN Cardinality(earlier)
                               ELSE Cardinality(earlier) + 1
    BY <1>1, FS_AddElement
  <2> QED BY <1>1, <2>1
<1>3. Cardinality({a \in more : a < Hour}) <= Cardinality(more)
      /\ Cardinality({a \in more : a < Hour}) \in Nat
  <2>1. {a \in more : a < Hour} \in SUBSET more
    OBVIOUS
  <2>2. IsFiniteSet({a \in more : a < Hour})
        /\ Cardinality({a \in more : a < Hour}) <= Cardinality(more)
    BY <1>2, <2>1, FS_Subset
  <2> QED BY <2>2, FS_CardinalityType
<1>4. Cardinality(earlier) < MaxPushes
  BY DEF Due
<1> QED BY <1>1, <1>2, <1>3, <1>4

\* and by time passing.
LEMMA AllowedLater ==
  ASSUME NEW recent, recent \subseteq 0 .. Hour + MaxDelay,
         Cardinality({a \in recent : a < Hour}) <= MaxPushes
  PROVE  Cardinality({a \in Shift({b \in recent : b < Hour + MaxDelay}) : a < Hour})
           <= MaxPushes
<1> USE SchedulerAssumption
<1> DEFINE young == {a \in recent : a < Hour}
           after == {a \in Shift({b \in recent : b < Hour + MaxDelay}) : a < Hour}
<1>1. IsFiniteSet(young) /\ Cardinality(young) \in Nat /\ young \subseteq Nat
  <2>1. young \subseteq 0 .. Hour + MaxDelay
    OBVIOUS
  <2> QED BY <2>1, LimitNat, AgesFinite
<1>2. IsFiniteSet(Shift(young)) /\ Cardinality(Shift(young)) <= Cardinality(young)
  BY <1>1, ShiftCard
<1>3. after \in SUBSET Shift(young)
  <2> SUFFICES ASSUME NEW a \in after PROVE a \in Shift(young)
    OBVIOUS
  <2>1. PICK b \in recent : a = b + 1
    BY DEF Shift
  <2>2. b \in young
    BY <2>1
  <2> QED BY <2>1, <2>2 DEF Shift
<1>4. IsFiniteSet(after) /\ Cardinality(after) <= Cardinality(Shift(young))
  BY <1>2, <1>3, FS_Subset
<1> QED BY <1>1, <1>2, <1>4, FS_CardinalityType

-----------------------------------------------------------------------------
(* The steps. *)

LEMMA InitIInv == Init => IInv
<1> SUFFICES ASSUME Init PROVE IInv
  OBVIOUS
<1> USE SchedulerAssumption
<1>1. scheduler = [recent |-> {}, body |-> Nothing, age |-> 0]
  BY DEF Init, emptySchedulerState
<1>2. SchedulerTyped /\ Recent = {}
  BY <1>1 DEF SchedulerTyped, Recent
<1>3. AgesTyped
  BY <1>2 DEF AgesTyped, Init
<1>4. Allowed
  <2>1. {a \in Recent : a < Hour} = {}
    BY <1>2
  <2> QED BY <2>1, FS_EmptySet DEF Allowed
<1>5. PushIsDue
  BY DEF PushIsDue, Init
<1> QED BY <1>2, <1>3, <1>4, <1>5 DEF IInv

\* Every step but three leaves the scheduler and the clock of a push alone.
LEMMA Unmoved ==
  ASSUME IInv, UNCHANGED scheduler, now' \in 0 .. MaxDelay,
         push' = "pushing" => Due(Recent, now')
  PROVE  IInv'
BY DEF IInv, SchedulerTyped, AgesTyped, PushIsDue, Allowed, Recent

\* A decision to push finds the push due.
LEMMA DecidedIsDue ==
  ASSUME IInv, NEW body, NEW sendable, decide(scheduler, body, sendable, now)
  PROVE  Due(Recent, now)
<1> USE SchedulerAssumption
<1> DEFINE earlier == {a \in Recent : a < Hour + now}
<1>1. earlier = InWindow(scheduler, now)
  BY DEF Recent, InWindow
<1>2. Cardinality(earlier) \in Nat
  <2>1. earlier \subseteq 0 .. Hour + MaxDelay
    BY DEF IInv, AgesTyped
  <2> QED BY <2>1, LimitNat, AgesFinite
<1>3. ~ (Cardinality(earlier) >= MaxPushes)
  BY <1>1 DEF decide, RateLimited
<1>4. ASSUME NEW a \in earlier PROVE a > now /\ (a - now) * MaxPushes >= Hour
  <2>1. ~ (a <= now) /\ ~ ((a - now) * MaxPushes < Hour)
    BY <1>1, <1>4 DEF decide, RateLimited
  <2>2. a \in Nat /\ now \in Nat /\ (a - now) * MaxPushes \in Int
    BY <1>4 DEF IInv, AgesTyped
  <2> QED BY <2>1, <2>2
<1> QED BY <1>2, <1>3, <1>4 DEF Due

LEMMA AcceptedKeeps ==
  ASSUME IInv, PushAccepted
  PROVE  IInv' /\ Budget!Push(now)
<1> USE SchedulerAssumption
<1> DEFINE earlier == {a \in Recent : a < Hour + now}
<1>1. Due(Recent, now)
  BY DEF IInv, PushIsDue, PushAccepted
<1>2. scheduler' = [recent |-> earlier \cup {now}, body |-> candidate, age |-> now]
  BY DEF PushAccepted, recordPush, InWindow, Recent
<1>3. SchedulerTyped' /\ Recent' = earlier \cup {now}
  BY <1>2 DEF SchedulerTyped, Recent
<1>4. now' = 0 /\ push' # "pushing"
  BY DEF PushAccepted, LeavesLoop, Sleeps
<1>5. AgesTyped'
  <2>1. now \in 0 .. MaxDelay /\ earlier \subseteq 0 .. Hour + MaxDelay
    BY DEF IInv, AgesTyped
  <2>2. now \in 0 .. Hour + MaxDelay /\ 0 \in 0 .. MaxDelay
    BY <2>1
  <2>3. Recent' \subseteq 0 .. Hour + MaxDelay
    BY <1>3, <2>1, <2>2
  <2> QED BY <1>4, <2>2, <2>3 DEF AgesTyped
<1>6. Allowed'
  BY <1>1, <1>3, AllowedByPush DEF IInv, AgesTyped, Allowed
<1>7. PushIsDue'
  BY <1>4 DEF PushIsDue
<1>8. Budget!Push(now)
  BY <1>1, <1>3 DEF Due, Recent, Budget!Push, Budget!Cardinality, Cardinality
<1> QED BY <1>3, <1>5, <1>6, <1>7, <1>8 DEF IInv

LEMMA TickKeeps ==
  ASSUME IInv, Tick
  PROVE  IInv' /\ Budget!Age
<1> USE SchedulerAssumption
<1>1. scheduler' = Older(scheduler)
  BY DEF Tick
<1>2. Recent' = Shift({b \in Recent : b < Hour + MaxDelay}) /\ SchedulerTyped'
  <2> DEFINE aged == IF scheduler.age < Heartbeat + MaxDelay THEN scheduler.age + 1
                     ELSE scheduler.age
             shifted == {a + 1 : a \in {b \in scheduler.recent : b < Hour + MaxDelay}}
  <2>0. scheduler = [recent |-> scheduler.recent, body |-> scheduler.body,
                     age |-> scheduler.age]
    BY DEF IInv, SchedulerTyped
  <2>1. scheduler' = [recent |-> shifted, body |-> scheduler.body, age |-> aged]
    BY <1>1, <2>0 DEF Older
  <2>2. scheduler'.recent = shifted /\ SchedulerTyped'
    BY <2>1 DEF SchedulerTyped
  <2> QED BY <2>2 DEF Recent, Shift
<1>3. now' \in 0 .. MaxDelay /\ push' = push
  BY DEF Tick, IInv, AgesTyped
<1>4. AgesTyped'
  BY <1>2, <1>3 DEF IInv, AgesTyped, Shift
<1>5. Allowed'
  BY <1>2, AllowedLater DEF IInv, AgesTyped, Allowed
<1>6. PushIsDue'
  <2> SUFFICES ASSUME push' = "pushing" PROVE Due(Recent, now)'
    BY DEF PushIsDue
  <2>1. now < MaxDelay /\ now' = now + 1
    BY <1>3 DEF Tick
  <2>2. Due(Shift({b \in Recent : b < Hour + MaxDelay}), now + 1)
    BY <1>3, <2>1, DueLater DEF IInv, AgesTyped, PushIsDue
  <2> QED BY <1>2, <2>1, <2>2 DEF Due
<1>7. Budget!Age
  BY <1>2 DEF Recent, Shift, Budget!Age
<1> QED BY <1>2, <1>4, <1>5, <1>6, <1>7 DEF IInv

LEMMA Step ==
  ASSUME IInv, [Next]_vars
  PROVE  IInv' /\ [Budget!Next]_Recent
<1> USE SchedulerAssumption
<1>1. CASE PushAccepted
  BY <1>1, AcceptedKeeps DEF Budget!Next, IInv, AgesTyped
<1>2. CASE Tick
  BY <1>2, TickKeeps DEF Budget!Next
<1>3. CASE PollAnswers
  <2>1. UNCHANGED scheduler /\ now' \in 0 .. MaxDelay
    BY <1>3 DEF PollAnswers, Sleeps, IInv, AgesTyped
  <2>2. ASSUME push' = "pushing" PROVE Due(Recent, now')
    <3>1. PICK body \in Body : decide(scheduler, body, body \notin TooLarge, now)
                               /\ now' = now
      BY <1>3, <2>2 DEF PollAnswers, Sleeps
    <3> QED BY <3>1, DecidedIsDue
  <2> QED BY <2>1, <2>2, Unmoved DEF Recent
<1>4. CASE Starts \/ PushRefused \/ Wakes \/ LoopStops \/ LoopThrows
  <2>1. UNCHANGED scheduler /\ now' = 0 /\ push' # "pushing"
    BY <1>4 DEF Starts, PushRefused, Wakes, LoopStops, LoopThrows, LeavesLoop, Polls, Sleeps
  <2> QED BY <2>1, Unmoved DEF Recent
<1>5. CASE LiveStep \/ Observes \/ Stop \/ Returns \/ UNCHANGED vars
  <2>1. UNCHANGED <<scheduler, now, push>>
    BY <1>5 DEF LiveStep, Opens, OpenFails, Closes, SessionEnds, Retries, Observes, Stop, Returns,
                loopsAlone, loop, vars
  <2> QED BY <2>1, Unmoved DEF Recent, IInv, AgesTyped, PushIsDue
<1> QED BY <1>1, <1>2, <1>3, <1>4, <1>5 DEF Next, LoopStep

-----------------------------------------------------------------------------

\* The bridge implements the push budget.
THEOREM Implements == Spec => KeepsBudget
<1>1. Init => IInv /\ Budget!Init
  BY InitIInv DEF Init, emptySchedulerState, Budget!Init
<1>2. IInv /\ [Next]_vars => IInv' /\ [Budget!Next]_(scheduler.recent)
  BY Step DEF Recent
<1> QED BY <1>1, <1>2, PTL DEF Spec, KeepsBudget, Budget!Spec

\* In no hour do more pushes come to pass than the user allowed.
THEOREM WithinHour == Spec => []Budget!WithinAllowance
<1>1. IInv /\ [Next]_vars => IInv'
  BY Step
<1>2. IInv => Budget!WithinAllowance
  BY DEF IInv, Allowed, Recent, Budget!WithinAllowance, Budget!Cardinality, Cardinality
<1> QED BY InitIInv, <1>1, <1>2, PTL DEF Spec
=============================================================================

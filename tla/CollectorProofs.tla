--------------------------- MODULE CollectorProofs ---------------------------
(* Theorems about Collector, for any accounts and any limits. *)
EXTENDS Collector, FiniteSetTheorems, SequenceTheorems, TLAPS

-----------------------------------------------------------------------------
(* The inductive invariant, in named parts. *)

\* The map `sessions` holds exactly the account loops that run: a loop enters it
\* when it starts and leaves it when it ends.
MapIsExact == \A t \in Task : Active(t) <=> InMap(t)

\* A loop that runs was started with a configuration.
LoopsConfigured == \A t \in Task : Active(t) => task[t].config # None

\* Only a loop in its handshake holds a permit.
PermitPhases ==
  \A t \in Task :
    task[t].permit => task[t].phase \in {"handshake", "marking", "connecting"}

\* The gate's queue holds loops that wait, each of them once.
WaitersWait ==
  /\ \A i \in DOMAIN gateWaiting : task[gateWaiting[i]].phase = "waiting"
  /\ \A i, j \in DOMAIN gateWaiting : gateWaiting[i] = gateWaiting[j] => i = j

\* No more permits than allowed; whoever waits, waits for one that is out, and
\* nobody waits once the gate is closed.
GateIsFull ==
  /\ gateActive <= Concurrency
  /\ gateWaiting # <<>> => ~ halting /\ gateActive = Concurrency

Holders == {t \in Task : task[t].permit}

PermitsCounted == gateActive = Cardinality(Holders)

\* collectAll's flag is set in its `finally` and nowhere else.
HaltsInFinally == halting <=> discovery \in {"finishing", "draining", "returned"}

Selected == {a \in Account : selected[a] # None}

\* What was read obeys the limit of the query.
SelectedWithin == Cardinality(Selected) <= MaxAccounts

\* While the ends of stopped sessions are awaited, whatever else is in the map
\* or queued has the configuration that was read.
ReconciledWhileClosing ==
  discovery = "closing" =>
    /\ \A a \in Account : queuedById[a] \in {None, selected[a]}
    /\ \A t \in Task : InMap(t) => t \in closing \/ task[t].config = selected[t[1]]

\* The last wait is for every loop that still runs.
DrainsAll == discovery = "draining" => \A t \in Task : Active(t) => t \in closing


-----------------------------------------------------------------------------
(* Lemmas about the model's operators. *)

LEMMA TaskIsPair ==
  /\ \A t \in Task : t[1] \in Account /\ t[2] \in Slot /\ t = <<t[1], t[2]>>
  /\ \A a \in Account, s \in Slot : /\ <<a, s>> \in Task
                                    /\ <<a, s>>[1] = a /\ <<a, s>>[2] = s
  BY DEF Task

LEMMA NoneIsNoSlot == None \notin Slot /\ 1 \in Slot
  BY DEF None, Slot

LEMMA NoneIsNoConfig == None \notin Config
  BY CollectorAssumption DEF None, Config

LEMMA FiniteTasks == IsFiniteSet(Task)
<1>1. Slot = 1 .. 2
  BY DEF Slot
<1>2. 1 \in Int /\ 2 \in Int
  OBVIOUS
<1>3. IsFiniteSet(1 .. 2)
  BY <1>2, FS_Interval, Zenon
<1> QED BY <1>1, <1>3, CollectorAssumption, FS_Product DEF Task

\* A set of waiting numbers listed in order is a sequence of them.
LEMMA AscendingIsSeq ==
  ASSUME NEW S, IsFiniteSet(S), NEW s \in Ascending(S)
  PROVE  /\ s \in Seq(S)
         /\ DOMAIN s = 1 .. Len(s)
         /\ \A i \in DOMAIN s : s[i] \in S
<1>1. Cardinality(S) \in Nat
  BY FS_CardinalityType
<1>2. s \in [1 .. Cardinality(S) -> S]
  BY DEF Ascending
<1> QED BY <1>1, <1>2

\* Of any numbers, those that have fewer than M below them are at most M.
LEMMA OldestWithin ==
  ASSUME NEW E \in SUBSET Nat, IsFiniteSet(E), NEW M \in Nat
  PROVE  Cardinality({a \in E : Cardinality({b \in E : b < a}) < M}) <= M
<1> DEFINE Below(a) == {b \in E : b < a}
           S == {a \in E : Cardinality(Below(a)) < M}
           rank == [a \in S |-> Cardinality(Below(a))]
<1>1. ASSUME NEW a \in E PROVE Cardinality(Below(a)) \in Nat /\ IsFiniteSet(Below(a))
  BY FS_Subset, FS_CardinalityType
<1>2. ASSUME NEW a \in E, NEW b \in E, a < b
      PROVE  Cardinality(Below(a)) < Cardinality(Below(b))
  <2>1. Below(a) \subseteq Below(b) /\ a \in Below(b) /\ a \notin Below(a)
    <3> HIDE DEF S, rank
    <3>1. a \in Nat /\ b \in Nat /\ \A c \in E : c \in Nat
      OBVIOUS
    <3>2. \A c \in E : c < a => c < b
      BY <1>2, <3>1
    <3>3. ~ (a < a)
      BY <3>1
    <3> QED BY <1>2, <3>2, <3>3
  <2>2. Cardinality(Below(a)) <= Cardinality(Below(b))
        /\ Cardinality(Below(a)) # Cardinality(Below(b))
    BY <1>1, <2>1, FS_Subset
  <2> QED BY <1>1, <2>2
<1>3. rank \in Injection(S, 0 .. M - 1)
  <2>1. ASSUME NEW a \in S PROVE Cardinality(Below(a)) \in 0 .. M - 1
    <3>1. Cardinality(Below(a)) \in Nat /\ Cardinality(Below(a)) < M
      BY <1>1
    <3> HIDE DEF Below
    <3> QED BY <3>1
  <2>2. ASSUME NEW a \in S, NEW b \in S, rank[a] = rank[b] PROVE a = b
    <3>1. a \in E /\ b \in E /\ a \in Nat /\ b \in Nat
      OBVIOUS
    <3>2. Cardinality(Below(a)) = Cardinality(Below(b))
      BY <2>2
    <3>3. Cardinality(Below(a)) \in Nat
      BY <1>1, <3>1
    <3> HIDE DEF Below
    <3> QED BY <1>2, <3>1, <3>2, <3>3
  <2> QED BY <2>1, <2>2 DEF Injection, IsInjective
<1>4. IsFiniteSet(0 .. M - 1) /\ Cardinality(0 .. M - 1) = M
  BY FS_Interval
<1> HIDE DEF S, rank
<1>5. Cardinality(S) <= M
  BY <1>3, <1>4, FS_Injection
<1> QED BY <1>5 DEF S

-----------------------------------------------------------------------------
(* The handshake gate. *)

Granted(r) == [r EXCEPT !.phase = "handshake", !.permit = TRUE]

\* Nothing to give, nobody to give it to, or closed.
LEMMA DispatchNone ==
  ASSUME NEW active \in Nat, NEW waiting \in Seq(Task),
         NEW tasks \in [Task -> TaskState], active <= Concurrency,
         halting \/ active = Concurrency \/ waiting = <<>>,
         Dispatch(active, waiting, tasks)
  PROVE  gateActive' = active /\ gateWaiting' = waiting /\ task' = tasks
<1> DEFINE n == IF halting THEN 0 ELSE Smaller(Concurrency - active, Len(waiting))
<1>1. n = 0
  BY CollectorAssumption, EmptySeq DEF Smaller
<1>2. /\ gateActive' = active + n
      /\ gateWaiting' = SubSeq(waiting, n + 1, Len(waiting))
      /\ task' = [t \in Task |-> IF t \in {waiting[i] : i \in 1 .. n}
                                 THEN Granted(tasks[t]) ELSE tasks[t]]
  BY DEF Dispatch, Granted
<1> HIDE DEF n
<1>3. SubSeq(waiting, 1, Len(waiting)) = waiting
  BY SubSeqFull
<1>4. {waiting[i] : i \in 1 .. n} = {}
  BY <1>1
<1> QED BY <1>1, <1>2, <1>3, <1>4

\* One permit is free or one loop waits: the one that waits longest is served.
LEMMA DispatchOne ==
  ASSUME NEW active \in Nat, NEW waiting \in Seq(Task),
         NEW tasks \in [Task -> TaskState],
         ~ halting, waiting # <<>>, active < Concurrency,
         active + 1 = Concurrency \/ Len(waiting) = 1,
         Dispatch(active, waiting, tasks)
  PROVE  /\ gateActive' = active + 1
         /\ gateWaiting' = Tail(waiting)
         /\ waiting[1] \in Task
         /\ task' = [tasks EXCEPT ![waiting[1]] = Granted(@)]
<1> DEFINE n == IF halting THEN 0 ELSE Smaller(Concurrency - active, Len(waiting))
<1>1. Len(waiting) \in Nat \ {0}
  BY EmptySeq
<1>2. n = 1
  <2>1. Concurrency - active \in Nat \ {0}
    BY CollectorAssumption
  <2>2. Concurrency - active = 1 \/ Len(waiting) = 1
    BY CollectorAssumption
  <2>3. \A k, m \in Nat \ {0} : k = 1 \/ m = 1 => Smaller(k, m) = 1
    BY DEF Smaller
  <2>4. Smaller(Concurrency - active, Len(waiting)) = 1
    BY <1>1, <2>1, <2>2, <2>3
  <2> QED BY <2>4
<1>3. /\ gateActive' = active + n
      /\ gateWaiting' = SubSeq(waiting, n + 1, Len(waiting))
      /\ task' = [t \in Task |-> IF t \in {waiting[i] : i \in 1 .. n}
                                 THEN Granted(tasks[t]) ELSE tasks[t]]
  BY DEF Dispatch, Granted
<1> HIDE DEF n
<1>4. Tail(waiting) = SubSeq(waiting, 2, Len(waiting))
  BY TailIsSubSeq
<1>5. {waiting[i] : i \in 1 .. n} = {waiting[1]} /\ waiting[1] \in Task
  BY <1>1, <1>2, ElementOfSeq
<1>6. gateActive' = active + 1 /\ gateWaiting' = Tail(waiting)
  BY <1>2, <1>3, <1>4
<1>7. task' = [tasks EXCEPT ![waiting[1]] = Granted(@)]
  BY <1>3, <1>5
<1> QED BY <1>5, <1>6, <1>7

GateTyped ==
  /\ task \in [Task -> TaskState]
  /\ gateActive \in Nat
  /\ gateWaiting \in Seq(Task)

Gate == GateTyped /\ PermitPhases /\ WaitersWait /\ GateIsFull /\ PermitsCounted

\* What a step of another loop or of the gate leaves of a loop.
SameLoop(u) ==
  /\ task'[u].config = task[u].config
  /\ task'[u].stop = task[u].stop
  /\ task'[u].phase = "none" <=> task[u].phase = "none"

LEMMA HoldersFinite ==
  /\ IsFiniteSet(Holders)
  /\ Cardinality(Holders) \in Nat
  BY FiniteTasks, FS_Subset, FS_CardinalityType DEF Holders

\* A step that leaves the gate alone, takes no loop out of its queue and moves no
\* permit.
LEMMA GateUnmoved ==
  ASSUME Gate, UNCHANGED <<gateActive, gateWaiting, halting>>,
         task' \in [Task -> TaskState],
         \A u \in Task :
           /\ task'[u].permit = task[u].permit
           /\ task[u].phase = "waiting" => task'[u].phase = "waiting"
           /\ task'[u].permit => task'[u].phase \in {"handshake", "marking", "connecting"}
  PROVE  Gate'
<1> USE DEF Gate, GateTyped
<1>1. Holders' = Holders
  BY DEF Holders
<1>2. WaitersWait'
  <2>1. \A i \in DOMAIN gateWaiting : gateWaiting[i] \in Task
    BY LenProperties, ElementOfSeq
  <2> QED BY <2>1 DEF WaitersWait
<1> QED BY <1>1, <1>2 DEF PermitPhases, GateIsFull, PermitsCounted

\* Giving a permit back keeps the gate's accounts, whether it is handed on or not,
\* and touches no other loop but the one it is handed to.
LEMMA ReleaseKeepsGate ==
  ASSUME Gate, UNCHANGED halting, NEW t \in Task, NEW after \in TaskState,
         task[t].phase # "waiting", ~ after.permit, ReleaseTo(t, after)
  PROVE  /\ Gate'
         /\ task'[t] = after
         /\ \A u \in Task \ {t} : SameLoop(u)
<1> DEFINE freed == [task EXCEPT ![t] = after]
<1>0. /\ task \in [Task -> TaskState] /\ gateActive \in Nat /\ gateWaiting \in Seq(Task)
      /\ freed \in [Task -> TaskState]
  BY DEF Gate, GateTyped
<1>1. CASE ~ task[t].permit
  <2>1. task' = freed /\ UNCHANGED <<gateActive, gateWaiting>>
    BY <1>1 DEF ReleaseTo, gateVars
  <2>2. \A u \in Task :
           /\ task'[u].permit = task[u].permit
           /\ task[u].phase = "waiting" => task'[u].phase = "waiting"
           /\ task'[u].permit => task'[u].phase \in {"handshake", "marking", "connecting"}
    BY <1>0, <1>1, <2>1 DEF Gate, PermitPhases, TaskState
  <2>3. Gate'
    BY <1>0, <2>1, <2>2, GateUnmoved
  <2> QED BY <1>0, <2>1, <2>3 DEF SameLoop
<1>2. CASE task[t].permit
  <2>1. t \in Holders /\ gateActive = Cardinality(Holders)
    BY <1>2 DEF Holders, Gate, PermitsCounted
  <2>2. /\ Cardinality(Holders \ {t}) = gateActive - 1
        /\ IsFiniteSet(Holders \ {t})
        /\ gateActive - 1 \in Nat
    <3>1. IsFiniteSet(Holders \ {t}) /\ Cardinality(Holders \ {t}) = Cardinality(Holders) - 1
      BY <2>1, HoldersFinite, FS_RemoveElement
    <3>2. Cardinality(Holders \ {t}) \in Nat
      BY <3>1, FS_CardinalityType
    <3> QED BY <2>1, <3>1, <3>2
  <2>3. gateActive <= Concurrency /\ Concurrency \in Nat
    BY CollectorAssumption DEF Gate, GateIsFull
  <2>4. Dispatch(gateActive - 1, gateWaiting, freed)
    BY <1>2 DEF ReleaseTo
  <2>5. /\ gateActive - 1 <= Concurrency /\ gateActive - 1 < Concurrency
         /\ (gateActive - 1) + 1 = gateActive
    BY <1>0, <2>3
  <2>6. CASE gateWaiting = <<>>
    <3>1. gateActive' = gateActive - 1 /\ gateWaiting' = <<>> /\ task' = freed
      <4> HIDE DEF freed
      <4> QED BY <1>0, <2>2, <2>4, <2>5, <2>6, DispatchNone
    <3>2. Holders' = Holders \ {t}
      BY <1>0, <3>1 DEF Holders
    <3>3. GateTyped'
      BY <1>0, <2>2, <3>1 DEF GateTyped
    <3>4. PermitPhases'
      BY <1>0, <3>1 DEF PermitPhases, Gate
    <3>5. WaitersWait' /\ GateIsFull' /\ PermitsCounted'
      BY <2>2, <2>3, <3>1, <3>2, <1>0 DEF WaitersWait, GateIsFull, PermitsCounted
    <3> QED BY <1>0, <3>1, <3>3, <3>4, <3>5 DEF Gate, SameLoop
  <2>7. CASE gateWaiting # <<>>
    <3> DEFINE w == gateWaiting[1]
    <3>1. ~ halting /\ gateActive = Concurrency
      BY <2>7 DEF Gate, GateIsFull
    <3>2. /\ gateActive' = gateActive
          /\ gateWaiting' = Tail(gateWaiting)
          /\ w \in Task
          /\ task' = [freed EXCEPT ![w] = Granted(@)]
      <4>1. (gateActive - 1) + 1 = Concurrency
        BY <2>5, <3>1
      <4> HIDE DEF freed
      <4> QED BY <1>0, <2>2, <2>4, <2>5, <2>7, <3>1, <4>1, DispatchOne
    <3>3. /\ Len(gateWaiting) \in Nat \ {0}
          /\ DOMAIN gateWaiting = 1 .. Len(gateWaiting)
          /\ 1 \in DOMAIN gateWaiting
      BY <1>0, <2>7, EmptySeq, LenProperties
    <3>4. task[w].phase = "waiting" /\ w # t /\ ~ task[w].permit
      BY <3>2, <3>3 DEF Gate, WaitersWait, PermitPhases
    <3>5. /\ gateWaiting' \in Seq(Task)
          /\ DOMAIN gateWaiting' = 1 .. Len(gateWaiting) - 1
          /\ \A i \in DOMAIN gateWaiting' : /\ gateWaiting'[i] = gateWaiting[i + 1]
                                            /\ i + 1 \in DOMAIN gateWaiting
                                            /\ gateWaiting'[i] \in Task
      BY <1>0, <2>7, <3>2, <3>3, HeadTailProperties, LenProperties, ElementOfSeq
    <3>6. /\ task' \in [Task -> TaskState]
          /\ task'[t] = after /\ task'[w] = Granted(task[w])
          /\ \A u \in Task \ {t, w} : task'[u] = task[u]
          /\ Granted(task[w]).permit /\ Granted(task[w]).phase = "handshake"
      BY <1>0, <3>2, <3>4 DEF Granted, TaskState, Phase
    <3>7. Holders' = (Holders \ {t}) \cup {w}
      BY <3>2, <3>4, <3>6 DEF Holders
    <3>8. PermitsCounted'
      <4>1. w \notin Holders \ {t}
        BY <3>4 DEF Holders
      <4>2. Cardinality((Holders \ {t}) \cup {w}) = Cardinality(Holders \ {t}) + 1
        BY <2>2, <4>1, FS_AddElement
      <4> HIDE DEF w
      <4> QED BY <2>2, <2>5, <3>2, <3>7, <4>2 DEF PermitsCounted
    <3>9. WaitersWait'
      <4>1. ASSUME NEW i \in DOMAIN gateWaiting'
            PROVE  task'[gateWaiting'[i]].phase = "waiting"
        <5>1. /\ gateWaiting'[i] = gateWaiting[i + 1] /\ i + 1 \in DOMAIN gateWaiting
              /\ i + 1 # 1
          BY <3>3, <3>5
        <5>2. gateWaiting'[i] # w /\ task[gateWaiting'[i]].phase = "waiting"
          BY <3>3, <5>1 DEF Gate, WaitersWait
        <5>3. gateWaiting'[i] \in Task \ {t, w}
          BY <3>5, <5>2
        <5> QED BY <3>6, <5>2, <5>3
      <4>2. \A i, j \in DOMAIN gateWaiting' : gateWaiting'[i] = gateWaiting'[j] => i = j
        <5>1. \A i, j \in DOMAIN gateWaiting : gateWaiting[i] = gateWaiting[j] => i = j
          BY DEF Gate, WaitersWait
        <5> QED BY <3>3, <3>5, <5>1
      <4> QED BY <4>1, <4>2 DEF WaitersWait
    <3>10. PermitPhases'
      <4>1. \A u \in Task :
              task[u].permit => task[u].phase \in {"handshake", "marking", "connecting"}
        BY DEF Gate, PermitPhases
      <4> QED BY <3>6, <4>1 DEF PermitPhases
    <3>11. GateTyped' /\ GateIsFull'
      BY <1>0, <2>3, <3>1, <3>2, <3>5, <3>6 DEF GateTyped, GateIsFull
    <3>12. \A u \in Task \ {t} : SameLoop(u)
      <4>1. SameLoop(w)
        BY <1>0, <3>2, <3>4, <3>6 DEF SameLoop, Granted, TaskState
      <4> QED BY <3>6, <4>1 DEF SameLoop
    <3> QED BY <3>6, <3>8, <3>9, <3>10, <3>11, <3>12 DEF Gate
  <2> QED BY <2>6, <2>7
<1> QED BY <1>1, <1>2

\* Asking for a permit: given at once, or the loop waits behind the others.
LEMMA AcquireKeepsGate ==
  ASSUME Gate, ~ halting, UNCHANGED halting, NEW t \in Task,
         task[t].phase = "starting",
         Dispatch(gateActive, Append(gateWaiting, t),
                  [task EXCEPT ![t] = Become(t, "waiting")])
  PROVE  /\ Gate'
         /\ \A u \in Task : SameLoop(u)
<1> DEFINE asked == [task EXCEPT ![t] = Become(t, "waiting")]
           line == Append(gateWaiting, t)
<1>0. Dispatch(gateActive, line, asked)
  OBVIOUS
<1>1. /\ task \in [Task -> TaskState] /\ gateActive \in Nat /\ gateWaiting \in Seq(Task)
      /\ asked \in [Task -> TaskState] /\ line \in Seq(Task) /\ line # <<>>
      /\ Concurrency \in Nat /\ gateActive <= Concurrency
  <2>1. task \in [Task -> TaskState] /\ gateActive \in Nat /\ gateWaiting \in Seq(Task)
    BY DEF Gate, GateTyped
  <2>2. asked \in [Task -> TaskState]
    BY <2>1 DEF Become, TaskState, Phase
  <2>3. line \in Seq(Task) /\ line # <<>>
    BY <2>1, AppendProperties
  <2> QED BY <2>1, <2>2, <2>3, CollectorAssumption DEF Gate, GateIsFull
<1>2. /\ asked[t].phase = "waiting" /\ ~ asked[t].permit
      /\ asked[t].config = task[t].config /\ asked[t].stop = task[t].stop
      /\ ~ task[t].permit
      /\ \A u \in Task \ {t} : asked[u] = task[u]
  BY <1>1 DEF Become, TaskState, Gate, PermitPhases
<1>3. /\ \A i \in DOMAIN gateWaiting : gateWaiting[i] \in Task \ {t}
      /\ Len(gateWaiting) \in Nat /\ DOMAIN gateWaiting = 1 .. Len(gateWaiting)
  BY <1>1, LenProperties, ElementOfSeq DEF Gate, WaitersWait
<1>4. CASE gateActive = Concurrency
  <2>1. gateActive' = gateActive /\ gateWaiting' = line /\ task' = asked
    <3> HIDE DEF asked, line
    <3> QED BY <1>0, <1>1, <1>4, DispatchNone
  <2>2. /\ DOMAIN line = 1 .. Len(gateWaiting) + 1
        /\ \A i \in DOMAIN gateWaiting : line[i] = gateWaiting[i]
        /\ line[Len(gateWaiting) + 1] = t
    BY <1>1, <1>3, AppendProperties, LenProperties
  <2>3. WaitersWait'
    <3> HIDE DEF line, asked
    <3>1. \A i \in DOMAIN line : task'[line[i]].phase = "waiting"
      BY <1>2, <1>3, <2>1, <2>2 DEF Gate, WaitersWait
    <3>2. \A i, j \in DOMAIN line : line[i] = line[j] => i = j
      BY <1>3, <2>2 DEF Gate, WaitersWait
    <3> QED BY <2>1, <3>1, <3>2 DEF WaitersWait
  <2>4. Holders' = Holders
    BY <1>2, <2>1 DEF Holders
  <2>5. PermitPhases'
    BY <1>2, <2>1 DEF Gate, PermitPhases
  <2>6. GateTyped' /\ GateIsFull' /\ PermitsCounted'
    BY <1>1, <1>4, <2>1, <2>4 DEF Gate, GateTyped, GateIsFull, PermitsCounted
  <2>7. \A u \in Task : SameLoop(u)
    BY <1>2, <2>1 DEF SameLoop
  <2> QED BY <2>3, <2>5, <2>6, <2>7 DEF Gate
<1>5. CASE gateActive # Concurrency
  <2>1. gateWaiting = <<>> /\ gateActive < Concurrency
    BY <1>1, <1>5 DEF Gate, GateIsFull
  <2>2. Len(line) = 1 /\ line[1] = t
    BY <1>1, <2>1, AppendProperties, EmptySeq
  <2>3. /\ gateActive' = gateActive + 1 /\ gateWaiting' = Tail(line)
        /\ task' = [asked EXCEPT ![t] = Granted(@)]
    <3> HIDE DEF asked, line
    <3> QED BY <1>0, <1>1, <2>1, <2>2, DispatchOne
  <2>4. gateWaiting' = <<>>
    BY <1>1, <2>2, <2>3, HeadTailProperties, EmptySeq
  <2>5. /\ task' \in [Task -> TaskState]
        /\ task'[t].phase = "handshake" /\ task'[t].permit
        /\ task'[t].config = task[t].config /\ task'[t].stop = task[t].stop
        /\ \A u \in Task \ {t} : task'[u] = task[u]
    BY <1>1, <1>2, <2>3 DEF Granted, TaskState, Phase
  <2>6. Holders' = Holders \cup {t} /\ t \notin Holders
    BY <1>2, <2>5 DEF Holders
  <2>7. PermitsCounted'
    BY <1>1, <2>3, <2>6, HoldersFinite, FS_AddElement DEF Gate, PermitsCounted
  <2>8. PermitPhases'
    BY <2>5 DEF Gate, PermitPhases
  <2>9. GateTyped' /\ GateIsFull' /\ WaitersWait'
    BY <1>1, <2>1, <2>3, <2>4, <2>5, EmptySeq DEF GateTyped, GateIsFull, WaitersWait
  <2>10. \A u \in Task : SameLoop(u)
    BY <2>5 DEF SameLoop
  <2> QED BY <2>7, <2>8, <2>9, <2>10 DEF Gate
<1> QED BY <1>4, <1>5

-----------------------------------------------------------------------------
(* What the steps of an account loop and of admission do to the rest. *)

\* The loop goes on, at another place or the same.
GoesOn ==
  /\ \A u \in Task : SameLoop(u)
  /\ UNCHANGED <<sessions, closing>>

\* The loop of t returns, and only that one.
Ends(t) ==
  /\ task'[t].phase = "none"
  /\ \A u \in Task \ {t} : SameLoop(u)
  /\ sessions' = IF InMap(t) THEN [sessions EXCEPT ![t[1]] = None] ELSE sessions
  /\ closing' = closing \ {t}

DataTyped ==
  /\ config \in [Account -> Config \cup {None}]
  /\ db \in [Account -> Config \cup {None}]
  /\ refused \in [Account -> Config \cup {None}]

\* Every step of an account loop keeps the gate's accounts, on all its paths.
LEMMA TaskStepEffect ==
  ASSUME TypeOK, Gate, NEW t \in Task, TaskStep(t)
  PROVE  /\ Gate'
         /\ DataTyped'
         /\ UNCHANGED <<loopVars, queueVars>>
         /\ Active(t)
         /\ GoesOn \/ Ends(t)
<1>0. /\ task \in [Task -> TaskState] /\ NoTask \in TaskState
      /\ DataTyped /\ t[1] \in Account
  BY TaskIsPair DEF TypeOK, NoTask, TaskState, Phase, DataTyped
<1>1. ASSUME End(t), UNCHANGED loopVars, task[t].phase # "waiting"
      PROVE  Gate' /\ Ends(t)
  <2>1. ReleaseTo(t, NoTask) /\ UNCHANGED halting
    BY <1>1 DEF End, loopVars
  <2>2. ~ NoTask.permit /\ NoTask.phase = "none"
    BY DEF NoTask
  <2>3. Gate' /\ task'[t] = NoTask /\ \A u \in Task \ {t} : SameLoop(u)
    BY <1>0, <1>1, <2>1, <2>2, ReleaseKeepsGate
  <2> QED BY <1>1, <2>2, <2>3 DEF End, Ends
<1>2. ASSUME NEW phase \in {"backoff", "live"}, UNCHANGED <<loopVars, sessions, closing>>,
             task[t].phase \in {"handshake", "connecting", "live"},
             ReleaseTo(t, [Become(t, phase) EXCEPT !.permit = FALSE])
      PROVE  Gate' /\ GoesOn
  <2> DEFINE after == [Become(t, phase) EXCEPT !.permit = FALSE]
  <2>1. /\ after \in TaskState /\ ~ after.permit /\ after.phase = phase
        /\ after.config = task[t].config /\ after.stop = task[t].stop
    BY <1>0 DEF Become, TaskState, Phase
  <2>2. UNCHANGED halting /\ task[t].phase # "waiting" /\ ReleaseTo(t, after)
    BY <1>2 DEF loopVars
  <2> HIDE DEF after
  <2>3. Gate' /\ task'[t] = after /\ \A u \in Task \ {t} : SameLoop(u)
    BY <2>1, <2>2, ReleaseKeepsGate
  <2>4. SameLoop(t)
    BY <1>2, <2>1, <2>3 DEF SameLoop
  <2> QED BY <1>2, <2>3, <2>4 DEF GoesOn
<1>3. ASSUME NEW phase \in {"marking", "connecting", "starting"},
             UNCHANGED <<loopVars, sessions, closing, gateVars>>,
             task[t].phase \in {"handshake", "connecting", "backoff"},
             phase = "starting" => task[t].phase = "backoff",
             task' = [task EXCEPT ![t] = Become(t, phase)]
      PROVE  Gate' /\ GoesOn
  <2>1. /\ task' \in [Task -> TaskState]
        /\ task'[t].phase = phase /\ task'[t].permit = task[t].permit
        /\ task'[t].config = task[t].config /\ task'[t].stop = task[t].stop
        /\ \A u \in Task \ {t} : task'[u] = task[u]
    BY <1>0, <1>3 DEF Become, TaskState, Phase
  <2>2. \A u \in Task :
          task[u].permit => task[u].phase \in {"handshake", "marking", "connecting"}
    BY DEF Gate, PermitPhases
  <2>3. Gate'
    <3>1. \A u \in Task :
            /\ task'[u].permit = task[u].permit
            /\ task[u].phase = "waiting" => task'[u].phase = "waiting"
            /\ task'[u].permit => task'[u].phase \in {"handshake", "marking", "connecting"}
      BY <1>3, <2>1, <2>2
    <3> QED BY <1>3, <2>1, <3>1, GateUnmoved DEF gateVars, loopVars
  <2>4. \A u \in Task : SameLoop(u)
    BY <1>3, <2>1 DEF SameLoop
  <2> QED BY <1>3, <2>3, <2>4 DEF GoesOn
<1>4. CASE Acquire(t)
  <2>1. ~ halting /\ UNCHANGED halting
    BY <1>4 DEF Acquire, TaskStopping, loopVars
  <2>2. Gate' /\ \A u \in Task : SameLoop(u)
    BY <1>4, <2>1, AcquireKeepsGate DEF Acquire
  <2> QED BY <1>0, <1>4, <2>2 DEF Acquire, GoesOn, Active, DataTyped, dbVars
<1>5. CASE StopsEarly(t) \/ Unopenable(t) \/ MarkFails(t)
  <2>1. Gate' /\ Ends(t)
    BY <1>1, <1>5 DEF StopsEarly, Unopenable, MarkFails
  <2> QED BY <1>0, <1>5, <2>1 DEF StopsEarly, Unopenable, MarkFails, Active, DataTyped, dbVars
<1>6. CASE Marked(t)
  <2>1. Gate' /\ Ends(t)
    BY <1>1, <1>6 DEF Marked
  <2>2. task[t].config \in Config \cup {None}
    BY <1>0 DEF TaskState
  <2>3. DataTyped'
    BY <1>0, <1>6, <2>2 DEF Marked, DataTyped
  <2> QED BY <1>6, <2>1, <2>3 DEF Marked, Active
<1>7. CASE Fails(t) \/ Subscribed(t)
  <2>1. Gate' /\ GoesOn
    BY <1>2, <1>7 DEF Fails, Subscribed
  <2> QED BY <1>0, <1>7, <2>1 DEF Fails, Subscribed, Active, DataTyped, dbVars
<1>8. CASE Refused(t) \/ Connects(t) \/ BackoffOver(t)
  <2>1. Gate' /\ GoesOn
    BY <1>3, <1>8 DEF Refused, Connects, BackoffOver
  <2> QED BY <1>0, <1>8, <2>1 DEF Refused, Connects, BackoffOver, Active, DataTyped, dbVars
<1> QED BY <1>4, <1>5, <1>6, <1>7, <1>8 DEF TaskStep

QueueTyped ==
  /\ queue \in Seq(Queued)
  /\ queuedById \in [Account -> Config \cup {None}]
  /\ admission \in {"none", "stagger", "ending"}

\* Account a is taken from the queue and has no loop: it is given one.
Starts(a, byId) ==
  /\ sessions[a] = None
  /\ byId[a] # None /\ queuedById'[a] = None
  /\ sessions' = [sessions EXCEPT ![a] = 1]
  /\ task'[<<a, 1>>].phase = "starting"
  /\ task'[<<a, 1>>].config = byId[a]
  /\ \A u \in Task \ {<<a, 1>>} : task'[u] = task[u]

\* What one turn of the admission loop over a queue and its index does at most.
Admits(waiting, byId) ==
  /\ \A i \in DOMAIN queue' : \E j \in DOMAIN waiting : queue'[i] = waiting[j]
  /\ \A a \in Account : queuedById'[a] \in {None, byId[a]}
  /\ \/ UNCHANGED <<sessions, task>>
     \/ \E a \in Account :
          /\ Starts(a, byId)
          /\ \E j \in DOMAIN waiting :
               waiting[j].account = a /\ waiting[j].config = byId[a]

LEMMA AdmitHeadEffect ==
  ASSUME TypeOK, MapIsExact, Gate, UNCHANGED halting,
         NEW waiting \in Seq(Queued), waiting # <<>>,
         NEW byId \in [Account -> Config \cup {None}],
         AdmitHead(waiting, byId)
  PROVE  Gate' /\ QueueTyped' /\ Admits(waiting, byId)
<1> DEFINE head == Head(waiting)
           a == head.account
           c == head.config
           current == byId[a] = c
<1>1. /\ head \in Queued /\ a \in Account /\ c \in Config /\ c # None
      /\ 1 \in DOMAIN waiting /\ waiting[1] = head
      /\ Tail(waiting) \in Seq(Queued)
      /\ \A i \in DOMAIN Tail(waiting) : /\ Tail(waiting)[i] = waiting[i + 1]
                                         /\ i + 1 \in DOMAIN waiting
  <2>1. Len(waiting) \in Nat \ {0} /\ DOMAIN waiting = 1 .. Len(waiting)
    BY EmptySeq, LenProperties
  <2>2. /\ head \in Queued /\ Tail(waiting) \in Seq(Queued)
        /\ Len(Tail(waiting)) = Len(waiting) - 1
        /\ \A i \in 1 .. Len(Tail(waiting)) : Tail(waiting)[i] = waiting[i + 1]
    BY HeadTailProperties
  <2>3. DOMAIN Tail(waiting) = 1 .. Len(waiting) - 1
    BY <2>2, LenProperties
  <2>4. head = waiting[1]
    OBVIOUS
  <2> QED BY <2>1, <2>2, <2>3, <2>4, NoneIsNoConfig DEF Queued
<1>2. /\ queue' = Tail(waiting)
      /\ queuedById' = IF current THEN [byId EXCEPT ![a] = None] ELSE byId
      /\ admission' = IF Len(waiting) > 1 THEN "stagger" ELSE "ending"
      /\ IF current /\ sessions[a] = None
         THEN StartTask(a, c)
         ELSE UNCHANGED <<sessions, task>>
      /\ UNCHANGED gateVars
  BY DEF AdmitHead
<1> HIDE DEF head
<1>3. QueueTyped'
  BY <1>1, <1>2 DEF QueueTyped
<1>4. \A i \in DOMAIN queue' : \E j \in DOMAIN waiting : queue'[i] = waiting[j]
  BY <1>1, <1>2
<1>5. \A b \in Account : queuedById'[b] \in {None, byId[b]}
  BY <1>1, <1>2
<1>6. CASE ~ (current /\ sessions[a] = None)
  <2>1. UNCHANGED <<sessions, task, gateVars>>
    BY <1>2, <1>6
  <2>2. Gate'
    BY <2>1 DEF Gate, GateTyped, PermitPhases, WaitersWait, GateIsFull, PermitsCounted,
                Holders, gateVars
  <2> QED BY <1>3, <1>4, <1>5, <2>1, <2>2 DEF Admits
<1>7. CASE current /\ sessions[a] = None
  <2>1. StartTask(a, c) /\ UNCHANGED gateVars
    BY <1>2, <1>7
  <2>2. task \in [Task -> TaskState]
    BY DEF TypeOK
  <2>3. <<a, 1>> \in Task /\ ~ Active(<<a, 1>>)
    BY <1>1, <1>7, TaskIsPair, NoneIsNoSlot DEF MapIsExact, InMap
  <2>4. FreeSlot(a) = 1
    BY <2>3 DEF FreeSlot
  <2>5. /\ sessions' = [sessions EXCEPT ![a] = 1]
        /\ task' = [task EXCEPT ![<<a, 1>>] =
                      [phase |-> "starting", config |-> c, stop |-> FALSE, permit |-> FALSE]]
    BY <2>1, <2>4 DEF StartTask
  <2>6. /\ task' \in [Task -> TaskState]
        /\ task'[<<a, 1>>].phase = "starting" /\ task'[<<a, 1>>].config = c
        /\ ~ task'[<<a, 1>>].permit
        /\ \A u \in Task \ {<<a, 1>>} : task'[u] = task[u]
    BY <1>1, <2>2, <2>3, <2>5 DEF TaskState, Phase
  <2>7. ~ task[<<a, 1>>].permit /\ task[<<a, 1>>].phase # "waiting"
    BY <2>2, <2>3 DEF Active, Gate, PermitPhases
  <2>8. Gate'
    <3>1. \A u \in Task :
            /\ task'[u].permit = task[u].permit
            /\ task[u].phase = "waiting" => task'[u].phase = "waiting"
            /\ task'[u].permit => task'[u].phase \in {"handshake", "marking", "connecting"}
      BY <2>2, <2>6, <2>7 DEF Gate, PermitPhases, TaskState
    <3> QED BY <2>1, <2>6, <3>1, GateUnmoved DEF gateVars
  <2>9. queuedById'[a] = None /\ byId[a] = c
    BY <1>1, <1>2, <1>7
  <2>10. Starts(a, byId)
    BY <1>1, <1>7, <2>5, <2>6, <2>9 DEF Starts
  <2> QED BY <1>1, <1>3, <1>4, <1>5, <2>8, <2>9, <2>10 DEF Admits
<1> QED BY <1>6, <1>7

\* The loop may also have nothing to do, or be stopped.
LEMMA StartAdmissionEffect ==
  ASSUME TypeOK, MapIsExact, Gate, UNCHANGED halting,
         NEW waiting \in Seq(Queued),
         NEW byId \in [Account -> Config \cup {None}],
         StartAdmission(waiting, byId)
  PROVE  Gate' /\ QueueTyped' /\ Admits(waiting, byId)
<1>1. CASE admission # "none" \/ halting \/ stopping \/ waiting = <<>>
  <2>1. /\ queue' = waiting /\ queuedById' = byId
        /\ admission' \in {"ending", admission}
        /\ UNCHANGED taskVars
    BY <1>1 DEF StartAdmission
  <2>2. Gate'
    BY <2>1 DEF Gate, GateTyped, PermitPhases, WaitersWait, GateIsFull, PermitsCounted,
                Holders, gateVars, taskVars
  <2>3. QueueTyped'
    BY <2>1 DEF TypeOK, QueueTyped
  <2>4. Admits(waiting, byId)
    BY <2>1 DEF Admits, taskVars
  <2> QED BY <2>2, <2>3, <2>4
<1>2. CASE ~ (admission # "none" \/ halting \/ stopping \/ waiting = <<>>)
  <2>1. AdmitHead(waiting, byId) /\ waiting # <<>>
    BY <1>2 DEF StartAdmission
  <2> QED BY <2>1, AdmitHeadEffect
<1> QED BY <1>1, <1>2

-----------------------------------------------------------------------------
(* Every step keeps the inductive invariant. *)

IInv ==
  /\ TypeOK
  /\ MapIsExact /\ LoopsConfigured
  /\ Gate
  /\ HaltsInFinally
  /\ SelectedWithin /\ ReconciledWhileClosing
  /\ CapacityRespected /\ OnlyCurrentConfigurations
  /\ DrainsAll /\ ReturnedIsQuiet

\* Accounts with a loop or a place in the queue.
Taken(byId) == {a \in Account : sessions[a] # None \/ byId[a] # None}

LEMMA TakenFinite ==
  ASSUME NEW S \in SUBSET Account
  PROVE  IsFiniteSet(S) /\ Cardinality(S) \in Nat
  BY CollectorAssumption, FS_Subset, FS_CardinalityType

\* Fewer accounts are within the limit where more were.
LEMMA WithinShrinks ==
  ASSUME NEW T \in SUBSET Account, NEW S \in SUBSET T, Cardinality(T) <= MaxAccounts
  PROVE  Cardinality(S) <= MaxAccounts
<1>1. /\ IsFiniteSet(T) /\ Cardinality(T) \in Nat
      /\ IsFiniteSet(S) /\ Cardinality(S) \in Nat
  BY TakenFinite
<1>2. Cardinality(S) <= Cardinality(T)
  BY <1>1, FS_Subset
<1> QED BY <1>1, <1>2, CollectorAssumption

LEMMA CapacityIsOfTaken == CapacityRespected <=> Cardinality(Taken(queuedById)) <= MaxAccounts
  BY DEF CapacityRespected, Taken

\* Admission moves accounts from the queue to the map, and adds none.
LEMMA AdmitsKeepsMap ==
  ASSUME TypeOK, MapIsExact, NEW waiting,
         NEW byId \in [Account -> Config \cup {None}], Admits(waiting, byId)
  PROVE  /\ MapIsExact'
         /\ Taken(queuedById)' \subseteq Taken(byId)
<1>1. /\ task \in [Task -> TaskState] /\ sessions \in [Account -> Slot \cup {None}]
      /\ \A a \in Account : queuedById'[a] \in {None, byId[a]}
  BY DEF TypeOK, Admits
<1>2. CASE UNCHANGED <<sessions, task>>
  BY <1>1, <1>2 DEF MapIsExact, Active, InMap, Taken
<1>3. ASSUME NEW a \in Account, Starts(a, byId)
      PROVE  MapIsExact' /\ Taken(queuedById)' \subseteq Taken(byId)
  <2>1. /\ sessions[a] = None /\ byId[a] # None
        /\ sessions' = [sessions EXCEPT ![a] = 1]
        /\ task'[<<a, 1>>].phase = "starting"
        /\ \A u \in Task \ {<<a, 1>>} : task'[u] = task[u]
    BY <1>3 DEF Starts
  <2>2. Taken(queuedById)' \subseteq Taken(byId)
    BY <1>1, <2>1 DEF Taken
  <2>3. ASSUME NEW u \in Task PROVE (task'[u].phase # "none") <=> (sessions'[u[1]] = u[2])
    <3>1. u[1] \in Account /\ u[2] \in Slot /\ u = <<u[1], u[2]>> /\ u[2] # None
      BY TaskIsPair, NoneIsNoSlot
    <3>2. (task[u].phase # "none") <=> (sessions[u[1]] = u[2])
      BY DEF MapIsExact, Active, InMap
    <3>3. CASE u[1] # a
      BY <1>1, <2>1, <3>1, <3>2, <3>3
    <3>4. CASE u[1] = a
      BY <1>1, <2>1, <3>1, <3>2, <3>4
    <3> QED BY <3>3, <3>4
  <2> QED BY <2>2, <2>3 DEF MapIsExact, Active, InMap
<1> QED BY <1>2, <1>3 DEF Admits

LEMMA AdmitsKeepsConfigured ==
  ASSUME LoopsConfigured, NEW waiting, NEW byId, Admits(waiting, byId)
  PROVE  LoopsConfigured'
<1>1. CASE UNCHANGED <<sessions, task>>
  BY <1>1 DEF LoopsConfigured, Active
<1>2. ASSUME NEW a \in Account, Starts(a, byId) PROVE LoopsConfigured'
  BY <1>2 DEF LoopsConfigured, Active, Starts
<1> QED BY <1>1, <1>2 DEF Admits

Current(waiting) ==
  /\ \A i \in DOMAIN waiting : waiting[i].config = selected[waiting[i].account]
  /\ \A t \in Task : Active(t) => task[t].stop \/ task[t].config = selected[t[1]]

\* What is admitted has the configuration it was queued with.
LEMMA AdmitsKeepsCurrent ==
  ASSUME TypeOK, NEW waiting, NEW byId, Admits(waiting, byId), UNCHANGED selected,
         Current(waiting)
  PROVE  Current(queue)'
<1>1. \A i \in DOMAIN queue' : queue'[i].config = selected[queue'[i].account]
  BY DEF Current, Admits
<1>2. CASE UNCHANGED <<sessions, task>>
  BY <1>1, <1>2 DEF Current, Active
<1>3. ASSUME NEW a \in Account, Starts(a, byId), NEW j \in DOMAIN waiting,
             waiting[j].account = a, waiting[j].config = byId[a]
      PROVE  Current(queue)'
  <2>1. byId[a] = selected[a]
    BY <1>3 DEF Current
  <2>2. task'[<<a, 1>>].config = selected[<<a, 1>>[1]]
    BY <1>3, <2>1, TaskIsPair, NoneIsNoSlot DEF Starts
  <2>3. \A u \in Task \ {<<a, 1>>} : task'[u] = task[u]
    BY <1>3 DEF Starts
  <2> QED BY <1>1, <2>2, <2>3 DEF Current, Active
<1> QED BY <1>2, <1>3 DEF Admits

Reconciled(byId) ==
  /\ \A a \in Account : byId[a] \in {None, selected[a]}
  /\ \A t \in Task : InMap(t) => t \in closing \/ task[t].config = selected[t[1]]

LEMMA AdmitsKeepsReconciled ==
  ASSUME TypeOK, NEW waiting, NEW byId, Admits(waiting, byId),
         UNCHANGED <<selected, closing>>, Reconciled(byId)
  PROVE  Reconciled(queuedById)'
<1>1. \A a \in Account : queuedById'[a] \in {None, selected[a]}
  BY DEF Admits, Reconciled
<1>2. CASE UNCHANGED <<sessions, task>>
  BY <1>1, <1>2 DEF Reconciled, InMap
<1>3. ASSUME NEW a \in Account, Starts(a, byId) PROVE Reconciled(queuedById)'
  <2>1. /\ sessions \in [Account -> Slot \cup {None}]
        /\ sessions' = [sessions EXCEPT ![a] = 1]
        /\ byId[a] = selected[a]
        /\ task'[<<a, 1>>].config = byId[a]
        /\ \A u \in Task \ {<<a, 1>>} : task'[u] = task[u]
    BY <1>3 DEF TypeOK, Starts, Reconciled
  <2>2. ASSUME NEW u \in Task, sessions'[u[1]] = u[2]
        PROVE  u \in closing \/ task'[u].config = selected[u[1]]
    <3>1. u[1] \in Account /\ u[2] \in Slot /\ u = <<u[1], u[2]>>
      BY TaskIsPair
    <3>2. CASE u[1] = a
      BY <2>1, <2>2, <3>1, <3>2
    <3>3. CASE u[1] # a
      BY <2>1, <2>2, <3>1, <3>3 DEF Reconciled, InMap
    <3> QED BY <3>2, <3>3
  <2> QED BY <1>1, <1>3, <2>2 DEF Reconciled, InMap
<1> QED BY <1>2, <1>3 DEF Admits

LEMMA TypesFromParts ==
  ASSUME DataTyped', QueueTyped', GateTyped',
         stopping' \in BOOLEAN, halting' \in BOOLEAN,
         discovery' \in {"reading", "answered", "closing", "sleeping",
                         "finishing", "draining", "returned"},
         selected' \in [Account -> Config \cup {None}],
         closing' \subseteq Task,
         sessions' \in [Account -> Slot \cup {None}]
  PROVE  TypeOK'
  BY DEF TypeOK, DataTyped, QueueTyped, GateTyped

LEMMA SessionsTyped ==
  ASSUME TypeOK
  PROVE  /\ \A byId \in [Account -> Config \cup {None}], a \in Account :
              Starts(a, byId) => sessions' \in [Account -> Slot \cup {None}]
         /\ \A t \in Task : Ends(t) => sessions' \in [Account -> Slot \cup {None}]
<1>1. sessions \in [Account -> Slot \cup {None}]
  BY DEF TypeOK
<1> QED BY <1>1, NoneIsNoSlot, TaskIsPair DEF Starts, Ends

LEMMA CurrentIsProperty ==
  OnlyCurrentConfigurations <=> (discovery # "answered" /\ ~ halting => Current(queue))
  BY DEF OnlyCurrentConfigurations, Current

LEMMA ReconciledIsPart ==
  ReconciledWhileClosing <=> (discovery = "closing" => Reconciled(queuedById))
  BY DEF ReconciledWhileClosing, Reconciled

\* An admission step over the queue as it is: all is kept.
LEMMA AdmitsKeeps ==
  ASSUME IInv, Gate', QueueTyped', Admits(queue, queuedById), ~ halting,
         UNCHANGED <<dbVars, loopVars, closing>>
  PROVE  IInv'
<1>1. TypeOK /\ MapIsExact /\ queuedById \in [Account -> Config \cup {None}]
  BY DEF IInv, TypeOK
<1>2. MapIsExact' /\ Taken(queuedById)' \subseteq Taken(queuedById)
  BY <1>1, AdmitsKeepsMap
<1>3. CapacityRespected'
  <2>1. Taken(queuedById) \subseteq Account
    BY DEF Taken
  <2> QED BY <1>2, <2>1, CapacityIsOfTaken, WithinShrinks DEF IInv, CapacityRespected, Taken
<1>4. OnlyCurrentConfigurations'
  <2>1. CASE discovery # "answered"
    <3>1. Current(queue)
      BY <2>1, CurrentIsProperty DEF IInv
    <3>2. Current(queue)'
      BY <1>1, <3>1, AdmitsKeepsCurrent DEF loopVars
    <3> QED BY <3>2 DEF OnlyCurrentConfigurations, Current
  <2>2. CASE discovery = "answered"
    BY <2>2 DEF OnlyCurrentConfigurations, loopVars
  <2> QED BY <2>1, <2>2
<1>5. ReconciledWhileClosing'
  <2>1. CASE discovery = "closing"
    <3>1. Reconciled(queuedById)
      BY <2>1, ReconciledIsPart DEF IInv
    <3>2. Reconciled(queuedById)'
      BY <1>1, <3>1, AdmitsKeepsReconciled DEF loopVars
    <3> QED BY <3>2 DEF ReconciledWhileClosing, Reconciled
  <2>2. CASE discovery # "closing"
    BY <2>2 DEF ReconciledWhileClosing, loopVars
  <2> QED BY <2>1, <2>2
<1>6. TypeOK'
  <2>1. sessions' \in [Account -> Slot \cup {None}]
    BY <1>1, SessionsTyped DEF TypeOK, Admits
  <2>2. DataTyped' /\ GateTyped'
    BY DEF IInv, TypeOK, DataTyped, Gate, dbVars
  <2> QED BY <1>1, <2>1, <2>2, TypesFromParts DEF TypeOK, loopVars
<1>7. /\ HaltsInFinally' /\ SelectedWithin'
      /\ discovery \notin {"finishing", "draining", "returned"}
  BY DEF IInv, HaltsInFinally, SelectedWithin, Selected, loopVars
<1>8. DrainsAll' /\ ReturnedIsQuiet'
  BY <1>7 DEF DrainsAll, ReturnedIsQuiet, loopVars
<1>9. LoopsConfigured'
  BY AdmitsKeepsConfigured DEF IInv
<1> QED BY <1>2, <1>3, <1>4, <1>5, <1>6, <1>7, <1>8, <1>9 DEF IInv

\* Steps that touch no loop, no queue and not the map.
LEMMA IdleKeeps ==
  ASSUME IInv, DataTyped', UNCHANGED <<queue, queuedById, taskVars>>,
         admission' \in {"none", "stagger", "ending"}, stopping' \in BOOLEAN,
         UNCHANGED <<halting, selected>>,
         \/ UNCHANGED <<discovery, closing>>
         \/ /\ discovery = "sleeping" /\ discovery' = "reading"
            /\ UNCHANGED closing
         \/ /\ discovery = "finishing" /\ discovery' = "draining"
            /\ closing' = {t \in Task : InMap(t)}
         \/ /\ discovery = "draining" /\ discovery' = "returned"
            /\ closing = {} /\ UNCHANGED closing
  PROVE  IInv'
<1>1. TypeOK /\ MapIsExact /\ Gate
  BY DEF IInv
<1>2. Gate' /\ MapIsExact' /\ LoopsConfigured'
  BY DEF IInv, Gate, GateTyped, PermitPhases, WaitersWait, GateIsFull, PermitsCounted,
         Holders, MapIsExact, LoopsConfigured, Active, InMap, taskVars, gateVars
<1>3. TypeOK'
  BY <1>1 DEF TypeOK, DataTyped, taskVars, gateVars
<1>4. HaltsInFinally' /\ SelectedWithin' /\ CapacityRespected'
  BY DEF IInv, HaltsInFinally, SelectedWithin, Selected, CapacityRespected, taskVars
<1>5. OnlyCurrentConfigurations'
  BY DEF IInv, OnlyCurrentConfigurations, HaltsInFinally, Active, taskVars
<1>6. ReconciledWhileClosing'
  BY DEF IInv, ReconciledWhileClosing, InMap, taskVars
<1>7. DrainsAll' /\ ReturnedIsQuiet'
  BY <1>1 DEF IInv, DrainsAll, ReturnedIsQuiet, MapIsExact, Active, InMap, taskVars
<1> QED BY <1>2, <1>3, <1>4, <1>5, <1>6, <1>7 DEF IInv

LEMMA AdmissionStep == IInv /\ (AdmitNext \/ AdmissionEnds) => IInv'
<1> SUFFICES ASSUME IInv, AdmitNext \/ AdmissionEnds PROVE IInv'
  OBVIOUS
<1>1. /\ queue \in Seq(Queued) /\ queuedById \in [Account -> Config \cup {None}]
      /\ DataTyped /\ stopping \in BOOLEAN
  BY DEF IInv, TypeOK, DataTyped
<1>2. UNCHANGED <<dbVars, loopVars, closing>>
  BY DEF AdmitNext, AdmissionEnds
<1>3. CASE halting \/ stopping \/ queue = <<>>
  <2>1. admission' \in {"none", "ending"} /\ UNCHANGED <<queue, queuedById, taskVars>>
    BY <1>3 DEF AdmitNext, AdmissionEnds
  <2> QED BY <1>1, <1>2, <2>1, IdleKeeps DEF DataTyped, dbVars, loopVars
<1>4. CASE ~ (halting \/ stopping \/ queue = <<>>)
  <2>1. AdmitHead(queue, queuedById)
    BY <1>4 DEF AdmitNext, AdmissionEnds
  <2>2. Gate' /\ QueueTyped' /\ Admits(queue, queuedById)
    BY <1>1, <1>2, <1>4, <2>1, AdmitHeadEffect DEF IInv, loopVars
  <2> QED BY <1>2, <1>4, <2>2, AdmitsKeeps
<1> QED BY <1>3, <1>4

LEMMA OutsideStep ==
  IInv /\ (Stop \/ \E a \in Account : Configure(a) \/ Withdraw(a)) => IInv'
<1> SUFFICES ASSUME IInv, Stop \/ \E a \in Account : Configure(a) \/ Withdraw(a)
             PROVE  IInv'
  OBVIOUS
<1>1. DataTyped /\ stopping \in BOOLEAN /\ admission \in {"none", "stagger", "ending"}
  BY DEF IInv, TypeOK, DataTyped
<1>2. CASE Stop
  BY <1>1, <1>2, IdleKeeps DEF Stop, DataTyped, dbVars, queueVars
<1>3. ASSUME NEW a \in Account, Configure(a) PROVE IInv'
  <2>1. config' \in [Account -> Config \cup {None}]
    <3>1. CASE config' = [config EXCEPT ![a] = @ + 1] /\ config[a] < MaxConfig[a]
      <4>1. config[a] \in Nat /\ MaxConfig[a] \in Nat
        BY <1>1, CollectorAssumption DEF DataTyped, Config, None
      <4>2. config[a] + 1 \in 1 .. MaxConfig[a]
        BY <3>1, <4>1
      <4>3. config[a] + 1 \in Config
        BY <4>2 DEF Config
      <4> QED BY <1>1, <3>1, <4>3 DEF DataTyped
    <3>2. CASE UNCHANGED config
      BY <1>1, <3>2 DEF DataTyped
    <3> QED BY <1>3, <3>1, <3>2 DEF Configure
  <2>2. DataTyped'
    BY <1>1, <1>3, <2>1 DEF Configure, DataTyped
  <2> QED BY <1>1, <1>3, <2>2, IdleKeeps DEF Configure, loopVars, queueVars
<1>4. ASSUME NEW a \in Account, Withdraw(a) PROVE IInv'
  <2>1. DataTyped'
    BY <1>1, <1>4 DEF Withdraw, DataTyped
  <2> QED BY <1>1, <1>4, <2>1, IdleKeeps DEF Withdraw, loopVars, queueVars
<1> QED BY <1>2, <1>3, <1>4

LEMMA WaitingSteps == IInv /\ (Rediscover \/ AwaitAdmission \/ Return) => IInv'
<1> SUFFICES ASSUME IInv, Rediscover \/ AwaitAdmission \/ Return PROVE IInv'
  OBVIOUS
<1>1. DataTyped /\ stopping \in BOOLEAN /\ admission \in {"none", "stagger", "ending"}
  BY DEF IInv, TypeOK, DataTyped
<1> QED BY <1>1, IdleKeeps
        DEF Rediscover, AwaitAdmission, Return, DataTyped, dbVars, queueVars

\* An account loop that goes on or returns.
LEMMA TaskStepKeeps == IInv /\ (\E t \in Task : TaskStep(t)) => IInv'
<1> SUFFICES ASSUME IInv, NEW t \in Task, TaskStep(t) PROVE IInv'
  OBVIOUS
<1>1. /\ TypeOK /\ Gate /\ MapIsExact
      /\ sessions \in [Account -> Slot \cup {None}] /\ closing \subseteq Task
  BY DEF IInv, TypeOK
<1>2. /\ Gate' /\ DataTyped' /\ UNCHANGED <<loopVars, queueVars>>
      /\ Active(t) /\ (GoesOn \/ Ends(t))
  BY <1>1, TaskStepEffect
<1>3. /\ sessions' \in [Account -> Slot \cup {None}] /\ closing' \subseteq closing
      /\ \A a \in Account : sessions'[a] \in {None, sessions[a]}
  <2>1. CASE GoesOn
    BY <1>1, <2>1 DEF GoesOn
  <2>2. CASE Ends(t)
    BY <1>1, <2>2, TaskIsPair DEF Ends
  <2> QED BY <1>2, <2>1, <2>2
<1>4. TypeOK'
  <2>1. QueueTyped' /\ GateTyped'
    BY <1>1, <1>2 DEF TypeOK, QueueTyped, Gate, queueVars
  <2> QED BY <1>1, <1>2, <1>3, <2>1, TypesFromParts DEF TypeOK, loopVars
\* What still runs ran before, as it was.
<1>5. \A u \in Task : task'[u].phase # "none" => SameLoop(u) /\ Active(u)
  <2>1. CASE GoesOn
    BY <2>1 DEF GoesOn, SameLoop, Active
  <2>2. CASE Ends(t)
    BY <2>2 DEF Ends, SameLoop, Active
  <2> QED BY <1>2, <2>1, <2>2
<1>6. MapIsExact'
  <2>1. CASE GoesOn
    BY <1>1, <2>1 DEF GoesOn, SameLoop, MapIsExact, Active, InMap
  <2>2. CASE Ends(t)
    <3>1. /\ sessions' = [sessions EXCEPT ![t[1]] = None] /\ sessions[t[1]] = t[2]
          /\ t[1] \in Account /\ t = <<t[1], t[2]>>
      BY <1>1, <1>2, <2>2, TaskIsPair DEF Ends, MapIsExact, InMap
    <3>2. ASSUME NEW u \in Task PROVE (task'[u].phase # "none") <=> (sessions'[u[1]] = u[2])
      <4>1. /\ u[1] \in Account /\ u[2] \in Slot /\ u = <<u[1], u[2]>> /\ u[2] # None
            /\ (task[u].phase # "none") <=> (sessions[u[1]] = u[2])
        BY <1>1, TaskIsPair, NoneIsNoSlot DEF MapIsExact, Active, InMap
      <4>2. CASE u = t
        BY <1>1, <2>2, <3>1, <4>1, <4>2 DEF Ends
      <4>3. CASE u # t /\ u[1] = t[1]
        BY <1>1, <2>2, <3>1, <4>1, <4>3 DEF Ends, SameLoop
      <4>4. CASE u[1] # t[1]
        BY <1>1, <2>2, <3>1, <4>1, <4>4 DEF Ends, SameLoop
      <4> QED BY <4>2, <4>3, <4>4
    <3> QED BY <3>2 DEF MapIsExact, Active, InMap
  <2> QED BY <1>2, <2>1, <2>2
<1>7. HaltsInFinally' /\ SelectedWithin'
  BY <1>2 DEF IInv, HaltsInFinally, SelectedWithin, Selected, loopVars
<1>8. CapacityRespected'
  <2>1. Taken(queuedById)' \subseteq Taken(queuedById) /\ Taken(queuedById) \subseteq Account
    BY <1>2, <1>3 DEF Taken, queueVars
  <2> QED BY <2>1, WithinShrinks DEF IInv, CapacityRespected, Taken
<1>9. OnlyCurrentConfigurations'
  BY <1>2, <1>5
  DEF IInv, OnlyCurrentConfigurations, Active, SameLoop, loopVars, queueVars
<1>10. ReconciledWhileClosing'
  <2> SUFFICES ASSUME discovery = "closing" PROVE ReconciledWhileClosing'
    BY <1>2 DEF ReconciledWhileClosing, loopVars
  <2>1. \A a \in Account : queuedById'[a] \in {None, selected'[a]}
    BY <1>2 DEF IInv, ReconciledWhileClosing, loopVars, queueVars
  <2>2. ASSUME NEW u \in Task, InMap(u)'
        PROVE  u \in closing' \/ task'[u].config = selected'[u[1]]
    <3>1. task'[u].phase # "none"
      BY <1>6, <2>2 DEF MapIsExact, Active
    <3>2. SameLoop(u) /\ InMap(u)
      BY <1>1, <1>5, <3>1 DEF MapIsExact
    <3>3. u \in closing \/ task[u].config = selected[u[1]]
      BY <3>2 DEF IInv, ReconciledWhileClosing
    <3>4. u \in closing => u \in closing'
      BY <1>2, <3>1 DEF GoesOn, Ends
    <3> QED BY <1>2, <3>2, <3>3, <3>4 DEF SameLoop, loopVars
  <2> QED BY <2>1, <2>2 DEF ReconciledWhileClosing
<1>11. DrainsAll'
  <2> SUFFICES ASSUME discovery = "draining", NEW u \in Task, Active(u)'
               PROVE  u \in closing'
    BY <1>2 DEF DrainsAll, loopVars
  <2>1. Active(u) /\ u \in closing
    BY <1>5 DEF Active, IInv, DrainsAll
  <2> QED BY <1>2, <2>1 DEF GoesOn, Ends, Active
<1>12. ReturnedIsQuiet'
  BY <1>2, <1>5 DEF IInv, ReturnedIsQuiet, Active, loopVars
<1>13. LoopsConfigured'
  BY <1>5 DEF IInv, LoopsConfigured, Active, SameLoop
<1> QED BY <1>2, <1>4, <1>6, <1>7, <1>8, <1>9, <1>10, <1>11, <1>12, <1>13 DEF IInv

\* collectableAccounts: what is read obeys the limit.
LEMMA ReadStep == IInv /\ Read => IInv'
<1> SUFFICES ASSUME IInv, Read PROVE IInv'
  OBVIOUS
<1>1. TypeOK /\ discovery = "reading" /\ discovery' = "answered"
  BY DEF IInv, Read
<1>2. selected' \in [Account -> Config \cup {None}]
  BY <1>1 DEF Read, Wanted, TypeOK
<1>3. SelectedWithin'
  <2> DEFINE eligible == {a \in Account : db[a] # None}
             oldest == {a \in eligible : Cardinality({b \in eligible : b < a}) < MaxAccounts}
  <2>1. eligible \in SUBSET Nat /\ IsFiniteSet(eligible) /\ oldest \in SUBSET Account
    BY CollectorAssumption, TakenFinite
  <2>2. Cardinality(oldest) <= MaxAccounts
    BY <2>1, CollectorAssumption, OldestWithin
  <2>3. Selected' \in SUBSET oldest
    <3>1. ASSUME NEW a \in Account, Collectable(a) PROVE a \in oldest
      <4>1. {b \in Account : b < a /\ db[b] # None} = {b \in eligible : b < a}
        OBVIOUS
      <4> QED BY <3>1, <4>1 DEF Collectable
    <3>2. ASSUME NEW a \in Account, Wanted(a) # None PROVE Collectable(a)
      BY <3>2 DEF Wanted
    <3> HIDE DEF oldest
    <3> QED BY <3>1, <3>2 DEF Read, Selected
  <2> QED BY <2>1, <2>2, <2>3, WithinShrinks DEF SelectedWithin
<1>4. TypeOK'
  BY <1>1, <1>2 DEF Read, TypeOK, dbVars, queueVars, taskVars, gateVars
<1>5. Gate' /\ MapIsExact' /\ LoopsConfigured'
  BY DEF IInv, Read, Gate, GateTyped, PermitPhases, WaitersWait, GateIsFull, PermitsCounted,
         Holders, MapIsExact, LoopsConfigured, Active, InMap, taskVars, gateVars
<1>6. CapacityRespected'
  BY DEF IInv, Read, CapacityRespected, queueVars, taskVars
<1>7. HaltsInFinally'
  BY <1>1 DEF IInv, Read, HaltsInFinally
<1>8. ReconciledWhileClosing' /\ OnlyCurrentConfigurations' /\ DrainsAll' /\ ReturnedIsQuiet'
  BY <1>1 DEF ReconciledWhileClosing, OnlyCurrentConfigurations, DrainsAll, ReturnedIsQuiet
<1> QED BY <1>3, <1>4, <1>5, <1>6, <1>7, <1>8 DEF IInv

\* What is dropped and stopped is what does not match.
LEMMA ReconcileStep == IInv /\ Reconcile => IInv'
<1> SUFFICES ASSUME IInv, Reconcile PROVE IInv'
  OBVIOUS
<1>1. /\ TypeOK /\ Gate /\ MapIsExact
      /\ discovery = "answered" /\ discovery' = "closing"
      /\ task \in [Task -> TaskState] /\ queue \in Seq(Queued)
      /\ queuedById \in [Account -> Config \cup {None}]
  BY DEF IInv, Reconcile, TypeOK
<1>2. /\ DropQueued /\ StopTasks(Stale) /\ closing' = Stale
      /\ UNCHANGED <<dbVars, stopping, halting, selected, admission, sessions, gateVars>>
  BY DEF Reconcile
<1>3. /\ task' \in [Task -> TaskState]
      /\ \A u \in Task : /\ task'[u].phase = task[u].phase
                         /\ task'[u].permit = task[u].permit
                         /\ task'[u].config = task[u].config
                         /\ task'[u].stop = (task[u].stop \/ u \in Stale)
  BY <1>1, <1>2 DEF StopTasks, TaskState
<1>4. Gate'
  BY <1>1, <1>2, <1>3, GateUnmoved DEF Gate, PermitPhases, gateVars
<1>5. MapIsExact' /\ LoopsConfigured'
  BY <1>1, <1>2, <1>3 DEF IInv, MapIsExact, LoopsConfigured, Active, InMap
<1>6. /\ queue' \in Seq(Queued)
      /\ \A i \in DOMAIN queue' : queue'[i].config = selected[queue'[i].account]
  <2> DEFINE current == {i \in DOMAIN queue : queue[i].config = selected[queue[i].account]}
  <2>1. PICK kept \in Ascending(current) : queue' = [i \in DOMAIN kept |-> queue[kept[i]]]
    BY <1>2 DEF DropQueued
  <2>2. IsFiniteSet(current) /\ \A i \in DOMAIN queue : queue[i] \in Queued
    <3>1. DOMAIN queue = 1 .. Len(queue) /\ Len(queue) \in Nat
      BY <1>1, LenProperties
    <3>2. IsFiniteSet(1 .. Len(queue))
      <4>1. 1 \in Int /\ Len(queue) \in Int
        BY <3>1
      <4> QED BY <4>1, FS_Interval, Zenon
    <3> QED BY <1>1, <3>1, <3>2, FS_Subset, ElementOfSeq
  <2> HIDE DEF current
  <2>3. /\ DOMAIN kept = 1 .. Len(kept) /\ Len(kept) \in Nat
        /\ \A i \in DOMAIN kept : kept[i] \in current
    BY <2>2, AscendingIsSeq, LenProperties
  <2>4. \A i \in DOMAIN kept : /\ queue[kept[i]] \in Queued
                               /\ queue[kept[i]].config = selected[queue[kept[i]].account]
    BY <2>2, <2>3 DEF current
  <2> QED BY <2>1, <2>3, <2>4
<1>7. /\ queuedById' \in [Account -> Config \cup {None}]
      /\ \A a \in Account : queuedById'[a] \in {None, selected[a]} /\ queuedById'[a] \in {None, queuedById[a]}
  BY <1>1, <1>2 DEF DropQueued
<1>8. TypeOK'
  BY <1>1, <1>2, <1>3, <1>6, <1>7 DEF TypeOK, Stale, dbVars, gateVars
<1>9. HaltsInFinally' /\ SelectedWithin'
  BY <1>1, <1>2 DEF IInv, HaltsInFinally, SelectedWithin, Selected
<1>10. ReconciledWhileClosing'
  BY <1>2, <1>3, <1>7 DEF ReconciledWhileClosing, InMap, Stale
<1>11. CapacityRespected'
  <2>1. Taken(queuedById)' \subseteq Taken(queuedById) /\ Taken(queuedById) \subseteq Account
    BY <1>2, <1>7 DEF Taken
  <2> QED BY <2>1, WithinShrinks DEF IInv, CapacityRespected, Taken
<1>12. OnlyCurrentConfigurations'
  <2>1. \A u \in Task : Active(u)' => task'[u].stop \/ task'[u].config = selected[u[1]]
    BY <1>1, <1>3 DEF MapIsExact, Active, Stale
  <2> QED BY <1>2, <1>6, <2>1 DEF OnlyCurrentConfigurations
<1>13. DrainsAll' /\ ReturnedIsQuiet'
  BY <1>1 DEF DrainsAll, ReturnedIsQuiet
<1> QED BY <1>4, <1>5, <1>8, <1>9, <1>10, <1>11, <1>12, <1>13 DEF IInv

\* Every stopped session has ended: what runs or is queued is what was read.
LEMMA RequeueStep == IInv /\ Requeue => IInv'
<1> SUFFICES ASSUME IInv, Requeue PROVE IInv'
  OBVIOUS
<1> DEFINE missing == {a \in Account :
                         /\ selected[a] # None
                         /\ sessions[a] # None
                              => task[<<a, sessions[a]>>].config # selected[a]
                         /\ queuedById[a] # selected[a]}
           byId == [a \in Account |-> IF a \in missing THEN selected[a] ELSE queuedById[a]]
           Item(a) == [account |-> a, config |-> selected[a]]
<1>1. /\ TypeOK /\ Gate /\ MapIsExact /\ LoopsConfigured
      /\ discovery = "closing" /\ discovery' = "sleeping" /\ closing = {}
      /\ UNCHANGED <<dbVars, stopping, halting, selected, closing>>
      /\ queue \in Seq(Queued) /\ selected \in [Account -> Config \cup {None}]
      /\ queuedById \in [Account -> Config \cup {None}]
      /\ sessions \in [Account -> Slot \cup {None}]
      /\ stopping \in BOOLEAN /\ halting \in BOOLEAN /\ DataTyped
  BY DEF IInv, Requeue, TypeOK, DataTyped
<1>2. ~ halting /\ Current(queue) /\ Reconciled(queuedById)
  <2>1. ~ halting
    BY <1>1 DEF IInv, HaltsInFinally
  <2> QED BY <1>1, <2>1, CurrentIsProperty, ReconciledIsPart DEF IInv
<1>3. PICK order \in Ascending(missing) :
        StartAdmission(queue \o [i \in DOMAIN order |-> Item(order[i])], byId)
  BY DEF Requeue
<1> DEFINE added == [i \in DOMAIN order |-> Item(order[i])]
           waiting == queue \o added
<1>4. /\ missing \in SUBSET Account
      /\ \A a \in missing : selected[a] # None /\ Item(a) \in Queued
  BY <1>1 DEF Queued
<1>5. byId \in [Account -> Config \cup {None}]
  BY <1>1
<1> HIDE DEF missing
<1>6. /\ added \in Seq(Queued) /\ Len(added) \in Nat /\ DOMAIN added = 1 .. Len(added)
      /\ \A i \in DOMAIN added : added[i].config = selected[added[i].account]
  <2>1. /\ DOMAIN order = 1 .. Len(order) /\ Len(order) \in Nat
        /\ \A i \in DOMAIN order : order[i] \in missing
    BY <1>4, TakenFinite, AscendingIsSeq, LenProperties
  <2>2. \A i \in DOMAIN order : Item(order[i]) \in Queued
    BY <1>4, <2>1
  <2>3. added \in Seq(Queued)
    <3> HIDE DEF Item
    <3> QED BY <2>1, <2>2
  <2>4. Len(added) \in Nat /\ DOMAIN added = 1 .. Len(added)
    BY <2>3, LenProperties
  <2> QED BY <2>3, <2>4
<1> HIDE DEF added
<1>7. /\ waiting \in Seq(Queued)
      /\ \A i \in DOMAIN waiting : \/ \E j \in DOMAIN queue : waiting[i] = queue[j]
                                   \/ \E j \in DOMAIN added : waiting[i] = added[j]
  <2>1. Len(queue) \in Nat /\ DOMAIN queue = 1 .. Len(queue)
    BY <1>1, LenProperties
  <2>2. /\ waiting \in Seq(Queued) /\ Len(waiting) = Len(queue) + Len(added)
        /\ \A i \in 1 .. Len(queue) + Len(added) :
             waiting[i] = IF i <= Len(queue) THEN queue[i] ELSE added[i - Len(queue)]
    BY <1>1, <1>6, ConcatProperties
  <2>3. DOMAIN waiting = 1 .. Len(queue) + Len(added)
    BY <2>2, LenProperties
  <2> HIDE DEF waiting
  <2>4. ASSUME NEW i \in DOMAIN waiting
        PROVE  \/ \E j \in DOMAIN queue : waiting[i] = queue[j]
               \/ \E j \in DOMAIN added : waiting[i] = added[j]
    <3>1. CASE i <= Len(queue)
      BY <2>1, <2>2, <2>3, <3>1
    <3>2. CASE ~ (i <= Len(queue))
      <4>1. i - Len(queue) \in DOMAIN added
        BY <1>6, <2>1, <2>3, <3>2
      <4> QED BY <2>2, <2>3, <3>2, <4>1
    <3> QED BY <3>1, <3>2
  <2> QED BY <2>2, <2>4
<1>8. StartAdmission(waiting, byId)
  BY <1>3 DEF added
<1> HIDE DEF waiting
<1>9. Current(waiting)
  BY <1>2, <1>6, <1>7 DEF Current
<1>10. Taken(byId) \in SUBSET Selected /\ Selected \in SUBSET Account
  <2>1. ASSUME NEW a \in Account, sessions[a] # None PROVE selected[a] # None
    <3>1. <<a, sessions[a]>> \in Task /\ InMap(<<a, sessions[a]>>)
      BY <1>1, <2>1, TaskIsPair DEF InMap
    <3>2. task[<<a, sessions[a]>>].config = selected[a]
      BY <1>1, <1>2, <3>1 DEF Reconciled
    <3> QED BY <1>1, <3>1, <3>2 DEF MapIsExact, LoopsConfigured
  <2>2. ASSUME NEW a \in Account, byId[a] # None PROVE selected[a] # None
    BY <1>2, <1>4, <2>2 DEF Reconciled
  <2> HIDE DEF byId
  <2> QED BY <2>1, <2>2 DEF Taken, Selected
<1> HIDE DEF byId
<1>11. Gate' /\ QueueTyped' /\ Admits(waiting, byId)
  BY <1>1, <1>5, <1>7, <1>8, StartAdmissionEffect
<1>12. MapIsExact' /\ Taken(queuedById)' \subseteq Taken(byId)
  BY <1>1, <1>5, <1>11, AdmitsKeepsMap
<1>13. CapacityRespected'
  <2>1. Taken(queuedById)' \in SUBSET Selected
    BY <1>10, <1>12
  <2>2. Cardinality(Taken(queuedById)') <= MaxAccounts
    BY <1>10, <2>1, WithinShrinks DEF IInv, SelectedWithin
  <2> QED BY <2>2 DEF CapacityRespected, Taken
<1>14. OnlyCurrentConfigurations'
  <2>1. Current(queue)'
    BY <1>1, <1>9, <1>11, AdmitsKeepsCurrent
  <2> QED BY <2>1 DEF OnlyCurrentConfigurations, Current
<1>15. LoopsConfigured'
  BY <1>1, <1>11, AdmitsKeepsConfigured
<1>16. TypeOK'
  <2>1. sessions' \in [Account -> Slot \cup {None}]
    BY <1>1, <1>5, <1>11, SessionsTyped DEF Admits
  <2>2. DataTyped' /\ GateTyped'
    BY <1>1, <1>11 DEF DataTyped, Gate, dbVars
  <2> QED BY <1>1, <1>11, <2>1, <2>2, TypesFromParts
<1>17. HaltsInFinally' /\ SelectedWithin'
  BY <1>1, <1>2 DEF IInv, HaltsInFinally, SelectedWithin, Selected
<1>18. ReconciledWhileClosing' /\ DrainsAll' /\ ReturnedIsQuiet'
  BY <1>1 DEF ReconciledWhileClosing, DrainsAll, ReturnedIsQuiet
<1> QED BY <1>11, <1>12, <1>13, <1>14, <1>15, <1>16, <1>17, <1>18 DEF IInv

\* The `finally` of collectAll empties the queues and tells every loop to stop.
LEMMA FinishStep ==
  IInv /\ (LeaveLoop \/ ReadFails) => IInv'
<1> SUFFICES ASSUME IInv, LeaveLoop \/ ReadFails PROVE IInv'
  OBVIOUS
<1>1. /\ TypeOK /\ Gate /\ MapIsExact /\ LoopsConfigured /\ Finish
      /\ task \in [Task -> TaskState]
  BY DEF IInv, TypeOK, LeaveLoop, ReadFails
<1>2. /\ discovery' = "finishing" /\ halting' = TRUE
      /\ queue' = <<>> /\ queuedById' = [a \in Account |-> None] /\ gateWaiting' = <<>>
      /\ UNCHANGED <<dbVars, stopping, selected, closing, admission, sessions, gateActive>>
  BY <1>1 DEF Finish
<1>3. /\ task' \in [Task -> TaskState]
      /\ \A u \in Task :
           /\ task'[u].phase = IF task[u].phase = "waiting" THEN "handshake" ELSE task[u].phase
           /\ task'[u].permit = task[u].permit
           /\ task'[u].config = task[u].config
  <2>1. task' = [t \in Task |->
                  [task[t] EXCEPT
                     !.stop = @ \/ InMap(t),
                     !.phase = IF @ = "waiting" THEN "handshake" ELSE @]]
    BY <1>1 DEF Finish
  <2>2. \A t \in Task : InMap(t) \in BOOLEAN
    BY DEF InMap
  <2> QED BY <1>1, <2>1, <2>2 DEF TaskState, Phase
<1>4. Gate'
  <2>1. Holders' = Holders
    BY <1>3 DEF Holders
  <2>2. GateTyped' /\ WaitersWait' /\ GateIsFull' /\ PermitsCounted'
    BY <1>1, <1>2, <1>3, <2>1, EmptySeq
    DEF Gate, GateTyped, WaitersWait, GateIsFull, PermitsCounted
  <2>3. PermitPhases'
    BY <1>1, <1>3 DEF Gate, PermitPhases
  <2> QED BY <2>2, <2>3 DEF Gate
<1>5. MapIsExact' /\ LoopsConfigured'
  BY <1>1, <1>2, <1>3 DEF MapIsExact, LoopsConfigured, Active, InMap
<1>6. TypeOK'
  <2>1. DataTyped' /\ GateTyped'
    BY <1>1, <1>2, <1>4 DEF TypeOK, DataTyped, Gate, dbVars
  <2>2. QueueTyped'
    BY <1>1, <1>2, EmptySeq DEF TypeOK, QueueTyped
  <2> QED BY <1>1, <1>2, <2>1, <2>2, TypesFromParts DEF TypeOK
<1>7. HaltsInFinally' /\ SelectedWithin'
  BY <1>2 DEF IInv, HaltsInFinally, SelectedWithin, Selected
<1>8. CapacityRespected'
  <2>1. Taken(queuedById)' \subseteq Taken(queuedById) /\ Taken(queuedById) \subseteq Account
    BY <1>2 DEF Taken
  <2> QED BY <2>1, WithinShrinks DEF IInv, CapacityRespected, Taken
<1>9. ReconciledWhileClosing' /\ OnlyCurrentConfigurations' /\ DrainsAll' /\ ReturnedIsQuiet'
  BY <1>2 DEF ReconciledWhileClosing, OnlyCurrentConfigurations, DrainsAll, ReturnedIsQuiet
<1> QED BY <1>4, <1>5, <1>6, <1>7, <1>8, <1>9 DEF IInv

LEMMA InitKeeps == Init => IInv
<1> SUFFICES ASSUME Init PROVE IInv
  OBVIOUS
<1>1. \A t \in Task : task[t] = NoTask /\ sessions[t[1]] = None
  BY TaskIsPair DEF Init
<1>2. TypeOK
  BY EmptySeq DEF Init, TypeOK, NoTask, TaskState, Phase
<1>3. MapIsExact /\ LoopsConfigured
  BY <1>1, TaskIsPair, NoneIsNoSlot DEF MapIsExact, LoopsConfigured, Active, InMap, NoTask
<1>4. Gate
  <2>1. Holders = {}
    BY <1>1 DEF Holders, NoTask
  <2>2. PermitsCounted
    BY <2>1, FS_EmptySet DEF Init, PermitsCounted
  <2>3. GateTyped
    BY <1>2 DEF TypeOK, GateTyped
  <2> QED BY <1>1, <2>2, <2>3, CollectorAssumption
          DEF Init, Gate, PermitPhases, WaitersWait, GateIsFull, NoTask
<1>5. SelectedWithin /\ CapacityRespected
  <2>1. /\ Selected = {}
        /\ {a \in Account : sessions[a] # None \/ queuedById[a] # None} = {}
    BY DEF Init, Selected
  <2> QED BY <2>1, FS_EmptySet, CollectorAssumption DEF SelectedWithin, CapacityRespected
<1>6. OnlyCurrentConfigurations
  BY <1>1 DEF Init, OnlyCurrentConfigurations, Active, NoTask
<1>7. HaltsInFinally /\ ReconciledWhileClosing /\ DrainsAll /\ ReturnedIsQuiet
  BY DEF Init, HaltsInFinally, ReconciledWhileClosing, DrainsAll, ReturnedIsQuiet
<1> QED BY <1>2, <1>3, <1>4, <1>5, <1>6, <1>7 DEF IInv

LEMMA StepKeeps == IInv /\ [Next]_vars => IInv'
<1> SUFFICES ASSUME IInv, [Next]_vars PROVE IInv'
  OBVIOUS
<1>1. CASE UNCHANGED vars
  <2>1. DataTyped' /\ stopping \in BOOLEAN /\ admission \in {"none", "stagger", "ending"}
    BY <1>1 DEF IInv, TypeOK, DataTyped, vars, dbVars
  <2> QED BY <1>1, <2>1, IdleKeeps DEF vars, loopVars, queueVars
<1>2. CASE Next
  BY <1>2, OutsideStep, TaskStepKeeps, AdmissionStep, ReadStep, ReconcileStep,
     RequeueStep, WaitingSteps, FinishStep DEF Next, DiscoveryStep
<1> QED BY <1>1, <1>2

-----------------------------------------------------------------------------
(* The theorems. *)

\* The inductive invariant holds: among it, every value stays of its type.
THEOREM Invariant == Spec => []IInv
  BY InitKeeps, StepKeeps, PTL DEF Spec

\* The map `sessions` is the guard it is said to be: two loops never run for one
\* account (run.ts:427).
THEOREM OneTask == Spec => []OneTaskPerAccount
<1>1. IInv => OneTaskPerAccount
  <2> SUFFICES ASSUME IInv, NEW t \in Task, NEW u \in Task,
                      Active(t), Active(u), t[1] = u[1]
               PROVE  t = u
    BY DEF OneTaskPerAccount
  <2>1. sessions[t[1]] = t[2] /\ sessions[u[1]] = u[2]
    BY DEF IInv, MapIsExact, InMap
  <2> QED BY <2>1, TaskIsPair
<1> QED BY <1>1, Invariant, PTL

\* However accounts come and go between two reads, those live or queued stay
\* within options.maxAccounts.
THEOREM Capacity == Spec => []CapacityRespected
<1>1. IInv => CapacityRespected
  BY DEF IInv
<1> QED BY <1>1, Invariant, PTL

\* No permit of the gate is lost or given back twice, none is left unused while a
\* loop waits, and never more are out than handshakeConcurrency allows.
THEOREM GateIsRight ==
  Spec => [](GateAccounts /\ Cardinality({t \in Task : task[t].permit}) <= Concurrency)
<1>1. IInv => GateAccounts /\ Cardinality({t \in Task : task[t].permit}) <= Concurrency
  BY DEF IInv, Gate, GateIsFull, PermitsCounted, Holders, GateAccounts
<1> QED BY <1>1, Invariant, PTL

\* Between two reads only what was read last is queued or runs on untold.
THEOREM OnlyCurrent == Spec => []OnlyCurrentConfigurations
<1>1. IInv => OnlyCurrentConfigurations
  BY DEF IInv
<1> QED BY <1>1, Invariant, PTL

\* collectAll returns when all it started has ended.
THEOREM Quiet == Spec => []ReturnedIsQuiet
<1>1. IInv => ReturnedIsQuiet
  BY DEF IInv
<1> QED BY <1>1, Invariant, PTL

\* Once collectAll is in its `finally` no account loop starts any more: neither the
\* admission loop nor a reconciliation under way admits another.
THEOREM NothingStartsHalted ==
  Spec => [][halting => \A t \in Task : Active(t)' => Active(t)]_vars
<1>1. IInv /\ [Next]_vars => [halting => \A t \in Task : Active(t)' => Active(t)]_vars
  <2> SUFFICES ASSUME IInv, Next, halting, NEW u \in Task, task'[u].phase # "none"
               PROVE  Active(u)
    BY DEF Active
  <2>1. TypeOK /\ Gate /\ discovery \in {"finishing", "draining", "returned"}
    BY DEF IInv, HaltsInFinally
  <2>2. CASE UNCHANGED task
    BY <2>2 DEF Active
  <2>3. ASSUME NEW t \in Task, TaskStep(t) PROVE Active(u)
    <3>1. Active(t) /\ (GoesOn \/ Ends(t))
      BY <2>1, <2>3, TaskStepEffect
    <3> QED BY <3>1 DEF GoesOn, Ends, SameLoop, Active
  <2>4. CASE AdmitNext \/ AdmissionEnds
    BY <2>2, <2>4 DEF AdmitNext, AdmissionEnds, taskVars
  <2>5. CASE DiscoveryStep
    BY <2>1, <2>2, <2>5
    DEF DiscoveryStep, Read, Reconcile, Requeue, Rediscover, LeaveLoop, ReadFails,
        AwaitAdmission, Return, taskVars
  <2>6. CASE Stop \/ \E a \in Account : Configure(a) \/ Withdraw(a)
    BY <2>2, <2>6 DEF Stop, Configure, Withdraw, taskVars
  <2> QED BY <2>3, <2>4, <2>5, <2>6 DEF Next
<1> QED BY <1>1, Invariant, PTL DEF Spec
=============================================================================

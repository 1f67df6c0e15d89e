---------------------------- MODULE PushBudget ----------------------------
(***************************************************************************)
(* What the push scheduler promises the bridge's user: of the decisions to *)
(* push that came to a push, no more than MaxPushes in any hour, and none  *)
(* sooner after another than an even share of the hour.  A decision is     *)
(* known by its age; an hour is Hour units.                                *)
(***************************************************************************)
EXTENDS Naturals, FiniteSets

CONSTANTS
  Hour,       \* HOUR_MS
  MaxPushes,  \* maxPushesPerHour
  MaxDelay    \* how long after the decision a push can be over

VARIABLE spent  \* ages of the decisions

Init == spent = {}

\* The decision was taken `delay' ago, when those in `spent' were younger.
Push(delay) ==
  LET earlier == {a \in spent : a < Hour + delay} IN
  /\ Cardinality(earlier) < MaxPushes
  /\ \A a \in earlier : a > delay /\ (a - delay) * MaxPushes >= Hour
  /\ spent' = earlier \cup {delay}

\* Time passes; what is long past is forgotten.
Age == spent' = {a + 1 : a \in {b \in spent : b < Hour + MaxDelay}}

Next == Age \/ \E delay \in 0 .. MaxDelay : Push(delay)

Spec == Init /\ [][Next]_spent

\* At any time, the hour before it has seen no more than MaxPushes decisions.
WithinAllowance == Cardinality({a \in spent : a < Hour}) <= MaxPushes
===========================================================================

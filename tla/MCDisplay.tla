------------------------------ MODULE MCDisplay ------------------------------
(* The instances of Display for TLC. *)
EXTENDS Display

Fields == {"online", "state", "detail"}

\* A P1 printer reports what changed, and never whether it is online.  An entry
\* of either endpoint always says that, /bind perhaps the outcome of the last job,
\* /print a progress.  FreshnessIsTrue needs this: an entry with a progress only
\* can be turned down as a whole.
Partial == {[detail |-> Given], [state |-> "FINISH", detail |-> Given]}
Bound == {[online |-> Given, state |-> "FAILED"]}
Progress == {[online |-> Given, detail |-> Given]}

ASSUME InstanceAssumption == OnlineIsCoarse
=============================================================================

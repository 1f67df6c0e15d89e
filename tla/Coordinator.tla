---------------------------- MODULE Coordinator ----------------------------
(***************************************************************************)
(* How what two sources say about one printer becomes one record           *)
(* (packages/core/src/telemetry/coordinator/merge.ts).  A record has an    *)
(* entry for each field: its value, the source it came from and when it    *)
(* was received.  Fields are the leaves of PrinterState; which of them a   *)
(* source ever mentions is up to its normaliser.                           *)
(***************************************************************************)
EXTENDS Integers

CONSTANTS
  Field,            \* leaves of PrinterState
  AuthorityWindow,  \* AUTHORITY_WINDOW_MS
  StaleAfter        \* STALE_AFTER_MS

ASSUME WindowsAssumption == AuthorityWindow \in Nat /\ StaleAfter \in Nat

Provider == {"cloud-http", "cloud-mqtt"}

RANK == [p \in Provider |-> IF p = "cloud-mqtt" THEN 2 ELSE 1]

\* A field nobody has mentioned; its value is null, or the state "unknown".
Unheard == [value |-> "unknown", from |-> "none", at |-> 0]

unknownPrinterState == [f \in Field |-> Unheard]

\* Mutant: the boundary of the window belongs to the coarser source.
admitsEarly(existing, from, at) ==
  existing.from # "none" =>
    \/ RANK[from] >= RANK[existing.from]
    \/ at - existing.at >= AuthorityWindow

\* May what `from' says, received at `at', replace what is there?
admits(existing, from, at) ==
  \/ existing.from = "none"
  \/ /\ existing.from # "none"
     /\ \/ RANK[from] > RANK[existing.from]
        \/ RANK[from] = RANK[existing.from] /\ at >= existing.at
        \/ RANK[from] < RANK[existing.from] /\ at - existing.at > AuthorityWindow

\* An observation is [from, at, fields], where fields is a function on the
\* fields that it mentions.  A field it does not mention stays as it is.
accept(record, observation) ==
  [f \in Field |->
     IF /\ f \in DOMAIN observation.fields
        /\ admits(record[f], observation.from, observation.at)
     THEN [value |-> observation.fields[f], from |-> observation.from,
           at |-> observation.at]
     ELSE record[f]]

\* Mutant: one field that is old makes the printer stale.
staleAtOldest(record, now) ==
  \/ \A f \in Field : record[f].from = "none"
  \/ \E f \in Field : record[f].from # "none" /\ now - record[f].at > StaleAfter

\* freshestAt and the comparison of snapshotsFor.
staleAt(record, now) ==
  \A f \in Field : record[f].from # "none" => now - record[f].at > StaleAfter
=============================================================================

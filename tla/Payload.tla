------------------------------ MODULE Payload ------------------------------
(***************************************************************************)
(* buildWebhookPayload: what of some snapshots fits a ceiling              *)
(* (packages/core/src/telemetry/push/payload.ts).  A snapshot is what the  *)
(* order and the size depend on: the printer's place by name and key, its  *)
(* state, and which of the three classes of optional detail it has.        *)
(***************************************************************************)
EXTENDS Normalize, Integers, Sequences, FiniteSetsExt

CONSTANTS
  MAX_PRINTERS_SHOWN,
  EnvelopeBytes,  \* a body without printers
  PrinterBytes,   \* a printer without optional detail
  DetailBytes,    \* one class of detail of one printer
  NullBytes       \* the same with null for a value

ASSUME BytesAssumption ==
  /\ MAX_PRINTERS_SHOWN \in Nat \ {0}
  /\ EnvelopeBytes \in Nat /\ PrinterBytes \in Nat
  /\ DetailBytes \in Nat /\ NullBytes \in Nat

STATE_PRIORITY ==
  [s \in DisplayState |->
     CASE s = "printing" -> 0 [] s = "paused" -> 1 [] s = "preparing" -> 2
       [] s = "finished" -> 3 [] s = "failed" -> 4 [] s = "idle" -> 5
       [] s = "offline" -> 6  [] s = "unknown" -> 7]

\* The classes of optional detail.
Class == {"stage", "target", "current"}

STATES_WITH_PRINT_METRICS == {"printing", "paused", "preparing", "finished", "failed"}

\* compareSnapshots.
Precedes(left, right) ==
  \/ STATE_PRIORITY[left.state] < STATE_PRIORITY[right.state]
  \/ left.state = right.state /\ left.key < right.key

\* The snapshots in that order.
Ordered(snapshots) ==
  CHOOSE s \in [1 .. Cardinality(snapshots) -> snapshots] :
    \A i, j \in DOMAIN s : i < j => Precedes(s[i], s[j])

\* toWebhookPrinter: the stage of a printer that is not printing is left out.
toWebhookPrinter(snapshot) ==
  [key |-> snapshot.key, state |-> snapshot.state,
   detail |-> IF snapshot.state \in STATES_WITH_PRINT_METRICS
              THEN snapshot.detail ELSE snapshot.detail \ {"stage"}]

\* The detail that each of these printers still has without some classes of it.
Details(printers, removed) ==
  {d \in (DOMAIN printers) \X Class : d[2] \in printers[d[1]].detail \ removed}

\* serialize: how many bytes these printers take without some classes of detail.
Bytes(printers, removed) ==
  EnvelopeBytes + PrinterBytes * Len(printers)
    + DetailBytes * Cardinality(Details(printers, removed))

\* Mutant: without looking at the size again.
ShedAnyway(printers, removed, class, maxBytes) == removed \cup {class}

\* One class of detail goes from every printer, if that can help.
Shed(printers, removed, class, maxBytes) ==
  IF /\ Bytes(printers, removed) > maxBytes
     /\ \E k \in DOMAIN printers : class \in printers[k].detail
  THEN removed \cup {class} ELSE removed

\* Printers go one at a time, the last is never dropped.
Kept(printers, removed, maxBytes) ==
  IF printers = <<>> THEN 0
  ELSE Max({1} \cup {n \in DOMAIN printers :
              Bytes(SubSeq(printers, 1, n), removed) <= maxBytes})

\* Printers with null for the detail of some classes.
Without(printers, removed) ==
  [k \in DOMAIN printers |-> [printers[k] EXCEPT !.detail = @ \ removed]]

\* The result for a set of snapshots.
buildWebhookPayload(snapshots, maxBytes) ==
  LET ordered == Ordered(snapshots)
      room == IF Len(ordered) < MAX_PRINTERS_SHOWN THEN Len(ordered)
              ELSE MAX_PRINTERS_SHOWN
      printers == [k \in 1 .. room |-> toWebhookPrinter(ordered[k])]
      one == Shed(printers, {}, "stage", maxBytes)
      two == Shed(printers, one, "target", maxBytes)
      three == Shed(printers, two, "current", maxBytes)
      shown == SubSeq(printers, 1, Kept(printers, three, maxBytes))
      bytes == Bytes(shown, three) IN
  [printers |-> Without(shown, three),
   hidden |-> Cardinality(snapshots) - Len(shown),
   bytes |-> bytes, sendable |-> bytes <= maxBytes]

\* pushPayload is given the body, not `serialized', and writes its nulls.
WireBytes(result) ==
  result.bytes
    + NullBytes * Cardinality({d \in (DOMAIN result.printers) \X Class :
                                 d[2] \notin result.printers[d[1]].detail})
=============================================================================

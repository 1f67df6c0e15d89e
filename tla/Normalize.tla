----------------------------- MODULE Normalize -----------------------------
(***************************************************************************)
(* What a payload of either source says of a printer                       *)
(* (packages/core/src/telemetry/normalize).  A payload is a function on    *)
(* the fields it has a key for: "state" for the state, whose value is a    *)
(* token without its case and blanks, "online" for what is said of the     *)
(* printer as such, "detail" for the rest.  Of those, values are not kept. *)
(***************************************************************************)

DisplayState == {"printing", "paused", "preparing", "finished", "failed", "idle",
                 "offline", "unknown"}

Given == "given"

LIVE_STATE_BY_TOKEN ==
  [IDLE |-> "idle", PREPARE |-> "preparing", RUNNING |-> "printing", PAUSE |-> "paused",
   FINISH |-> "finished", FAILED |-> "failed", SLICING |-> "preparing",
   OFFLINE |-> "offline", PAUSED |-> "paused", FINISHED |-> "finished",
   SUCCESS |-> "finished", FAILURE |-> "failed"]

TERMINAL_TASK_TOKENS == {"SUCCESS", "FINISH", "FINISHED", "FAILED", "FAILURE"}

\* The live gcode_state; a token that is empty or not known says "unknown".
toDisplayState(token) ==
  IF token \in DOMAIN LIVE_STATE_BY_TOKEN THEN LIVE_STATE_BY_TOKEN[token] ELSE "unknown"

\* Mutant: the outcome of the last job read as if it were live.
fromTaskStatusAsLive(token) == toDisplayState(token)

\* print_status and task_status are the outcome of the last job.
fromTaskStatus(token) ==
  IF token \in TERMINAL_TASK_TOKENS THEN "idle" ELSE toDisplayState(token)

\* A key that is absent or malformed is not mentioned.
parseReport(raw) ==
  [f \in DOMAIN raw |-> IF f = "state" THEN toDisplayState(raw[f]) ELSE Given]

parseBindReport(raw) ==
  [f \in DOMAIN raw |-> IF f = "state" THEN fromTaskStatus(raw[f]) ELSE Given]

parseCurrentPrint(raw) ==
  [f \in DOMAIN raw |-> IF f = "state" THEN fromTaskStatus(raw[f]) ELSE Given]
=============================================================================

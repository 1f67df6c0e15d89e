------------------------------ MODULE EnvFile ------------------------------
(***************************************************************************)
(* bridge/.env as bridge/src/setup/config.ts reads and writes it.  A text  *)
(* is, for each key, the values of the lines that set it, in their order:  *)
(* how the lines of different keys are mixed, and the comments between     *)
(* them, is layout.  The token and the hint of whose it is, which are      *)
(* written together, are one key, account; the settings that only the      *)
(* wizard writes -- region, printers, ceilings, log level -- are another.  *)
(***************************************************************************)
EXTENDS Naturals, Sequences

CONSTANT Setting  \* proper values; of several keys, they belong together

Empty == ""           \* a key without a value, which is no setting
Mangled == "mangled"  \* a value the schema refuses under its key

ASSUME SettingAssumption == Empty \notin Setting /\ Mangled \notin Setting

Value == Setting \cup {Empty, Mangled}
Key == {"account", "webhook", "printers"}
Text == [Key -> Seq(Value)]
Config == [Key -> Value]

\* Of several lines with one key the last one counts.  It strips a layer of quotes
\* that no writer adds: no URL, token, serial or hint has one of its own.
parseEnv(text) ==
  [k \in Key |-> IF text[k] = <<>> THEN Empty ELSE text[k][Len(text[k])]]

\* Mutant: the file is written anew, with the patched keys alone.
patchEnvAlone(text, patch) ==
  [k \in Key |-> IF k \in DOMAIN patch THEN <<patch[k]>> ELSE <<>>]

\* The first line with a key is rewritten, or one is appended.
patchEnv(text, patch) ==
  [k \in Key |->
     IF k \notin DOMAIN patch THEN text[k]
     ELSE IF text[k] = <<>> THEN <<patch[k]>>
     ELSE [text[k] EXCEPT ![1] = patch[k]]]

serializeEnv(config) == [k \in Key |-> <<config[k]>>]

\* configFromEnv, validateConfig: the keys something is wrong with.  There may be
\* no webhook, but not no account or no printer.
problems(env) ==
  {k \in Key : env[k] = Mangled} \cup {k \in {"account", "printers"} : env[k] = Empty}

canPush(env) == env["webhook"] # Empty
=============================================================================

------------------------------- MODULE Setup -------------------------------
(***************************************************************************)
(* The commands that share bridge/.env: the wizard, reauth, webhook and    *)
(* doctor of bridge/src/setup, and the start of the bridge                 *)
(* (bridge/src/index.ts).  A member of Process is one run of one of them,  *)
(* with a temporary file of its own; several may run at once, and the file *)
(* is edited by hand beside them.  What is asked on the terminal one after *)
(* the other, with nothing in between that others can see, is one step.    *)
(***************************************************************************)
EXTENDS EnvFile, CloudLogin

CONSTANTS
  Process,   \* runs of a command
  NoFile,    \* the contents of a file that does not exist
  Torn,      \* the contents of a file that is being written
  MaxEdits   \* bound on the edits by hand

ASSUME SetupAssumption ==
  /\ NoFile \notin Text /\ Torn \notin Text /\ NoFile # Torn
  /\ MaxEdits \in Nat

VARIABLES
  file,      \* bridge/.env
  tmp,       \* tmp[p]: bridge/.env.tmp-<pid>
  at,        \* what a run waits for or is about to do, or how it has ended
  command,   \* the command it runs
  text,      \* the text it has read, later the text it writes
  answer,    \* what it was told, by key
  login,     \* its login state machine
  sound,     \* loaded.ok of runWebhook
  stale,     \* history: the file has changed since text was read
  meant,     \* history: what each key was last set to on purpose
  undone,    \* history: keys that a stale text has brought back to something else
  edits      \* edits by hand so far

runVars == <<at, command, answer, login, sound>>
diskVars == <<file, tmp, text, stale, meant, undone, edits>>
setupVars == <<runVars, diskVars>>

Command == {"setup", "reauth", "webhook", "doctor", "start"}

\* Where a run waits for an answer, of its user or of a server.
Awaiting == {"ask", "choose", "request", "code", "verify", "devices", "trmnl", "url",
             "test", "checking"}
Saving == {"writing", "flushing", "renaming"}

\* Exit status 0, 1 or 130; killed; or a login that is out of step, which is a 1 too.
Ending == {"done", "failed", "cancelled", "killed", "stalled"}

NoAnswer == [k \in Key |-> Empty]

SetupTypeOK ==
  /\ file \in Text \cup {NoFile}
  /\ tmp \in [Process -> Text \cup {NoFile, Torn}]
  /\ at \in [Process -> {"off", "loading", "running", "closing"} \cup Awaiting \cup Saving \cup Ending]
  /\ command \in [Process -> Command]
  /\ text \in [Process -> Text \cup {NoFile}]
  /\ answer \in [Process -> Config]
  /\ sound \in [Process -> BOOLEAN] /\ stale \in [Process -> BOOLEAN]
  /\ meant \in Config /\ undone \subseteq Key
  /\ edits \in 0 .. MaxEdits

\* There is no file yet, or one that the wizard has written.
SetupInit ==
  /\ file \in {NoFile} \cup
       {serializeEnv([account |-> s, webhook |-> w, printers |-> s]) :
          s \in Setting, w \in Setting \cup {Empty}}
  /\ meant = IF file = NoFile THEN NoAnswer ELSE parseEnv(file)
  /\ undone = {}
  /\ tmp = [p \in Process |-> NoFile] /\ text = [p \in Process |-> NoFile]
  /\ at = [p \in Process |-> "off"]
  /\ command \in [Process -> Command]
  /\ answer = [p \in Process |-> NoAnswer] /\ login = [p \in Process |-> NoLogin]
  /\ sound = [p \in Process |-> FALSE] /\ stale = [p \in Process |-> FALSE]
  /\ edits = 0

\* The keys that a command sets.
Sets(c) ==
  CASE c = "setup" -> Key
    [] c = "reauth" -> {"account"}
    [] c = "webhook" -> {"webhook"}
    [] OTHER -> {}

-----------------------------------------------------------------------------
(* A run goes on, or ends and its memory with it. *)

Moves(p, label) == at' = [at EXCEPT ![p] = label]

Keeps == UNCHANGED <<command, answer, login, sound>>

\* What it has read is the file, and fresh.
Reads(p) ==
  /\ text' = [text EXCEPT ![p] = file]
  /\ stale' = [stale EXCEPT ![p] = FALSE]
  /\ UNCHANGED <<file, tmp, meant, undone, edits>>

Forgets(p) ==
  /\ answer' = [answer EXCEPT ![p] = NoAnswer]
  /\ login' = [login EXCEPT ![p] = NoLogin]
  /\ sound' = [sound EXCEPT ![p] = FALSE]
  /\ text' = [text EXCEPT ![p] = NoFile]
  /\ stale' = [stale EXCEPT ![p] = FALSE]
  /\ UNCHANGED command

Ends(p, how) ==
  /\ Moves(p, how)
  /\ Forgets(p)
  /\ UNCHANGED <<file, tmp, meant, undone, edits>>

-----------------------------------------------------------------------------
(* The commands begin. *)

Begins(p, c) == at[p] = "off" /\ command[p] = c

Missing == file = NoFile
Usable == ~ Missing /\ problems(parseEnv(file)) = {}

\* The wizard asks before it goes on to replace a file.
BeginsSetup(p) ==
  /\ Begins(p, "setup")
  /\ Moves(p, IF Missing THEN "choose" ELSE "ask")
  /\ Keeps /\ UNCHANGED diskVars

Replaces(p) ==
  /\ at[p] = "ask"
  /\ Moves(p, "choose")
  /\ Keeps /\ UNCHANGED diskVars

\* reauth reads the text that it will patch, and once more to see whether it is valid.
BeginsReauth(p) ==
  /\ Begins(p, "reauth")
  /\ \/ Missing /\ Ends(p, "failed")
     \/ ~ Missing /\ Moves(p, "loading") /\ Reads(p) /\ Keeps

LoadsConfig(p) ==
  /\ at[p] = "loading"
  /\ \/ ~ Usable /\ Ends(p, "failed")
     \/ Usable /\ Moves(p, "choose") /\ Keeps /\ UNCHANGED diskVars

\* A file with problems is good enough to have its webhook set.
BeginsWebhook(p) ==
  /\ Begins(p, "webhook")
  /\ \/ Missing /\ Ends(p, "failed")
     \/ /\ ~ Missing
        /\ Moves(p, "url")
        /\ sound' = [sound EXCEPT ![p] = Usable]
        /\ UNCHANGED <<command, answer, login, diskVars>>

BeginsDoctor(p) ==
  /\ Begins(p, "doctor")
  /\ \/ ~ Usable /\ Ends(p, "failed")
     \/ Usable /\ Moves(p, "checking") /\ Reads(p) /\ Keeps

\* checkCloud and checkTrmnl; without a webhook the second one fails.
Examines(p) ==
  /\ at[p] = "checking"
  /\ \/ Ends(p, "failed")
     \/ canPush(parseEnv(text[p])) /\ Ends(p, "done")

\* pnpm start: the bridge runs with the configuration read here until it stops.
BeginsBridge(p) ==
  /\ Begins(p, "start")
  /\ \/ ~ (Usable /\ canPush(parseEnv(file))) /\ Ends(p, "failed")
     \/ /\ Usable /\ canPush(parseEnv(file))
        /\ Moves(p, "running") /\ Keeps /\ UNCHANGED diskVars

StopsBridge(p) ==
  /\ at[p] = "running"
  /\ Ends(p, "done")

-----------------------------------------------------------------------------
(* Signing in. *)

\* From then on the token is tried.
HasToken(p, token) ==
  /\ answer' = [answer EXCEPT ![p]["account"] = token]
  /\ Moves(p, "verify")
  /\ UNCHANGED <<command, sound, diskVars>>

PastesToken(p) ==
  /\ at[p] = "choose"
  /\ \E token \in Setting : HasToken(p, token)
  /\ UNCHANGED login

SignsIn(p) ==
  /\ at[p] = "choose"
  /\ login' = [login EXCEPT ![p] = beginPasswordLogin]
  /\ Moves(p, "request")
  /\ UNCHANGED <<command, answer, sound, diskVars>>

\* The loop of interactiveLogin acts on a transition.
Drives(p, transition) ==
  \/ /\ transition.phase = "authenticated"
     /\ HasToken(p, transition.token)
     /\ login' = [login EXCEPT ![p] = NoLogin]
  \/ /\ transition.phase = "failed"
     /\ Ends(p, IF transition.failure = "unexpected-event" THEN "stalled" ELSE "failed")
  \/ /\ transition.phase \notin {"authenticated", "failed"}
     /\ transition.request # "none"
     /\ login' = [login EXCEPT ![p] = transition]
     /\ Moves(p, "request")
     /\ UNCHANGED <<command, answer, sound, diskVars>>

\* The cloud may answer with a token that contains white space.
Response == [token : Setting \cup {NoToken, Mangled}, loginType : LoginTypes]

LoginAnswers(p) ==
  /\ at[p] = "request"
  /\ login[p].phase \in {"await-login-result", "await-code-login-result"}
  /\ \E response \in Response :
       Drives(p, advance(login[p].phase, "login-result", response))

\* Any other request is a side effect, and what comes next is the prompt.
CodeIsSent(p) ==
  /\ at[p] = "request"
  /\ login[p].phase \notin {"await-login-result", "await-code-login-result"}
  /\ \/ login[p].prompt /\ Moves(p, "code") /\ Keeps /\ UNCHANGED diskVars
     \/ ~ login[p].prompt /\ Ends(p, "stalled")

CodeIsGiven(p) ==
  /\ at[p] = "code"
  /\ Drives(p, advance(login[p].phase, "email-code", NoResponse))

\* describeCloudError, wherever the cloud was asked something.
CloudRefuses(p) ==
  /\ at[p] \in {"request", "verify", "devices"}
  /\ Ends(p, "failed")

-----------------------------------------------------------------------------
(* Saving. *)

\* Synchronous code has a text to write.
Saves(p, written) ==
  /\ Moves(p, "writing")
  /\ text' = [text EXCEPT ![p] = written]
  /\ UNCHANGED <<file, tmp, meant, undone, edits, command, login, sound>>

\* The cloud accepts the token: the wizard goes on to the printers ...
TokenWorks(p) ==
  /\ at[p] = "verify" /\ command[p] = "setup"
  /\ Moves(p, "devices")
  /\ Keeps /\ UNCHANGED diskVars

\* ... and reauth patches the text that it read when it began, unless the token
\* has a line break in it.
TokenIsPatched(p) ==
  /\ at[p] = "verify" /\ command[p] = "reauth"
  /\ \/ /\ Saves(p, patchEnv(text[p], [k \in {"account"} |-> answer[p][k]]))
        /\ UNCHANGED <<answer, stale>>
     \/ answer[p]["account"] = Mangled /\ Ends(p, "failed")

\* Some of the account's printers are chosen; or it has none.
PrintersChosen(p) ==
  /\ at[p] = "devices"
  /\ \/ /\ \E printers \in Setting :
             /\ answer[p]["account"] \in Setting => printers = answer[p]["account"]
             /\ answer' = [answer EXCEPT ![p]["printers"] = printers]
        /\ Moves(p, "trmnl")
        /\ UNCHANGED <<command, login, sound, diskVars>>
     \/ Ends(p, "failed")

\* The last questions of the wizard, with a webhook or none; a test payload may be
\* sent, whatever comes of it.  The answers are put through the schema.
WizardSaves(p) ==
  /\ at[p] = "trmnl"
  /\ \E webhook \in Setting \cup {Empty} :
       LET config == [answer[p] EXCEPT !["webhook"] = webhook] IN
       \/ /\ problems(config) = {}
          /\ answer' = [answer EXCEPT ![p] = config]
          /\ Saves(p, serializeEnv(config))
          /\ UNCHANGED stale
       \/ problems(config) # {} /\ Ends(p, "failed")

\* webhook reads the file again when it has been given the address.
UrlIsGiven(p) ==
  /\ at[p] = "url"
  /\ \/ Missing /\ Ends(p, "failed")
     \/ /\ ~ Missing
        /\ \E webhook \in Setting :
             /\ answer' = [answer EXCEPT ![p]["webhook"] = webhook]
             /\ Saves(p, patchEnv(file, [k \in {"webhook"} |-> webhook]))
        /\ stale' = [stale EXCEPT ![p] = FALSE]

\* The file becomes something else: texts that were read before are stale.
FileBecomes(new) ==
  /\ file' = new
  /\ stale' = [p \in Process |-> stale[p] \/ text[p] # NoFile]

\* writeConfigText: the temporary file is begun, is whole, and takes the place of
\* the file.
Writes(p) ==
  /\ at[p] = "writing"
  /\ tmp' = [tmp EXCEPT ![p] = Torn]
  /\ Moves(p, "flushing")
  /\ Keeps /\ UNCHANGED <<file, text, stale, meant, undone, edits>>

Flushes(p) ==
  /\ at[p] = "flushing"
  /\ tmp' = [tmp EXCEPT ![p] = text[p]]
  /\ Moves(p, "renaming")
  /\ Keeps /\ UNCHANGED <<file, text, stale, meant, undone, edits>>

\* A stale text brings back what it has of the other keys.
Renames(p) ==
  /\ at[p] = "renaming"
  /\ FileBecomes(tmp[p])
  /\ tmp' = [tmp EXCEPT ![p] = NoFile]
  /\ meant' = [k \in Key |-> IF k \in Sets(command[p]) THEN answer[p][k] ELSE meant[k]]
  /\ undone' = {k \in Key \ Sets(command[p]) :
                  IF stale[p] THEN parseEnv(tmp[p])[k] # meant[k] ELSE k \in undone}
  /\ Moves(p, IF sound[p] THEN "test" ELSE "closing")
  /\ Keeps /\ UNCHANGED <<text, edits>>

\* Any of the calls throws; a temporary file is removed.
WriteFails(p) ==
  /\ at[p] \in Saving
  /\ tmp' = [tmp EXCEPT ![p] = NoFile]
  /\ Moves(p, "failed") /\ Forgets(p)
  /\ UNCHANGED <<file, meant, undone, edits>>

\* webhook sends a test payload if the file was valid when it began, and asked to;
\* the others have said what they had to.
Concludes(p) ==
  /\ at[p] \in {"test", "closing"}
  /\ Ends(p, "done")

-----------------------------------------------------------------------------
(* From outside. *)

\* Ctrl-C, an empty password, or too many invalid answers; only where the run waits.
Cancels(p) ==
  /\ at[p] \in Awaiting
  /\ Ends(p, "cancelled")

Killed(p) ==
  /\ at[p] \notin {"off"} \cup Ending
  /\ Ends(p, "killed")

Edited(new, saying, settled) ==
  /\ ~ Missing /\ edits < MaxEdits
  /\ FileBecomes(new)
  /\ meant' = saying
  /\ undone' = undone \ settled
  /\ edits' = edits + 1
  /\ UNCHANGED <<tmp, text, runVars>>

\* The line that counts is changed, or one is added, and either is meant.
HandChange(k, value) ==
  /\ file # NoFile /\ file[k] # <<>>
  /\ Edited([file EXCEPT ![k][Len(file[k])] = value], [meant EXCEPT ![k] = value], {k})

HandAppend(k, value) ==
  Edited([file EXCEPT ![k] = Append(@, value)], [meant EXCEPT ![k] = value], {k})

HandDelete == Edited(NoFile, NoAnswer, Key)

-----------------------------------------------------------------------------

Beginning(p) ==
  \/ BeginsSetup(p) \/ BeginsReauth(p) \/ BeginsWebhook(p) \/ BeginsDoctor(p)
  \/ BeginsBridge(p)

Continues(p) ==
  \/ LoadsConfig(p) \/ Replaces(p) \/ PastesToken(p) \/ SignsIn(p) \/ LoginAnswers(p) \/ CodeIsSent(p)
  \/ CodeIsGiven(p) \/ CloudRefuses(p) \/ TokenWorks(p) \/ TokenIsPatched(p)
  \/ PrintersChosen(p) \/ WizardSaves(p) \/ UrlIsGiven(p) \/ Writes(p) \/ Flushes(p)
  \/ Renames(p) \/ WriteFails(p) \/ Concludes(p) \/ Examines(p)

RunStep(p) ==
  Beginning(p) \/ Continues(p) \/ StopsBridge(p) \/ Cancels(p) \/ Killed(p)

HandStep ==
  \/ HandDelete
  \/ \E k \in Key, value \in Value : HandChange(k, value) \/ HandAppend(k, value)

SetupNext == HandStep \/ \E p \in Process : RunStep(p)

SetupSpec == SetupInit /\ [][SetupNext]_setupVars

-----------------------------------------------------------------------------
(* Properties. *)

\* store.ts:4, "a reader either sees the old file or the complete new one": with
\* runs that overlap, fail and are killed at every step the file is never a part of a
\* text, and says of a key what it was last set to on purpose, whatever the other
\* commands rewrote meanwhile.  Two cases are excepted because there it does not: a
\* key with several lines, of which patchEnv rewrites the first and parseEnv reads the
\* last, and a key that a command brought back when it put a text in place that was
\* stale by then (reauth.ts:74), until it is set again.
SettingsSurvive ==
  file # NoFile =>
    /\ file # Torn
    /\ \A k \in Key \ undone : Len(file[k]) <= 1 => parseEnv(file)[k] = meant[k]

\* The loop that drives the login never gives the machine an event that it does not
\* expect, and is never left without a request and a prompt.
NeverOutOfStep ==
  \A p \in Process : at[p] # "stalled"

\* How far a run has got; a login has three requests at most.
Rank(label, phase) ==
  CASE label = "off" -> 14
    [] label \in {"loading", "ask"} -> 13
    [] label = "choose" -> 12
    [] label = "request" /\ phase = "await-login-result" -> 11
    [] label = "request" /\ phase = "await-email-code" -> 10
    [] label = "code" -> 9
    [] label = "request" /\ phase = "await-code-login-result" -> 8
    [] label = "verify" -> 7
    [] label = "devices" -> 6
    [] label \in {"trmnl", "url"} -> 5
    [] label = "writing" -> 4
    [] label = "flushing" -> 3
    [] label = "renaming" -> 2
    [] label \in {"checking", "running", "test", "closing"} -> 1
    [] OTHER -> 0

Left(p) == Rank(at[p], login[p].phase)

\* No command goes round in circles, whatever its user and the cloud answer: each
\* of its steps brings it closer to its end, so a code is asked for once, and one
\* that is refused ends the login (auth.ts:158).
RunsAreShort ==
  [][\A p \in Process : <<at[p], login[p]>>' # <<at[p], login[p]>> => Left(p)' < Left(p)]_setupVars
=============================================================================

---------------------------- MODULE SetupProofs ----------------------------
(***************************************************************************)
(* However many commands overlap, fail and are killed, and whatever is     *)
(* edited by hand beside them, bridge/.env says what it was last set to,   *)
(* but for keys with several lines and keys that a stale text has undone.  *)
(***************************************************************************)
EXTENDS Setup, SequenceTheorems, TLAPS

-----------------------------------------------------------------------------
(* Texts. *)

\* A key with one line at most has a value, and this is it.
Says(content, k, value) == Len(content[k]) <= 1 => parseEnv(content)[k] = value

LEMMA ParsedIsConfig ==
  ASSUME NEW content \in Text
  PROVE  parseEnv(content) \in Config
<1> SUFFICES ASSUME NEW k \in Key PROVE parseEnv(content)[k] \in Value
  BY DEF parseEnv, Config
<1>1. content[k] \in Seq(Value)
  BY DEF Text
<1>2. content[k] # <<>> => content[k][Len(content[k])] \in Value
  BY <1>1
<1> QED BY <1>2 DEF parseEnv, Value

LEMMA SerializedIsText ==
  ASSUME NEW config \in Config
  PROVE  /\ serializeEnv(config) \in Text
         /\ \A k \in Key : Says(serializeEnv(config), k, config[k])
<1>1. \A k \in Key : <<config[k]>> \in Seq(Value)
  BY DEF Config
<1>2. serializeEnv(config) \in Text
  BY <1>1 DEF serializeEnv, Text
<1>3. \A k \in Key : Says(serializeEnv(config), k, config[k])
  BY DEF serializeEnv, Says, parseEnv
<1> QED BY <1>2, <1>3

LEMMA SaysFirst ==
  ASSUME NEW content, NEW k \in Key, content[k] \in Seq(Value), content[k] # <<>>
  PROVE  Says(content, k, content[k][1])
<1>0. Len(content[k]) \in Nat \ {0}
  BY EmptySeq
<1>a. \A n \in Nat \ {0} : n <= 1 => n = 1
  OBVIOUS
<1>1. Len(content[k]) <= 1 => Len(content[k]) = 1
  BY <1>0, <1>a
<1> QED BY <1>1 DEF Says, parseEnv

\* A patch sets its keys and leaves the others as they were.
LEMMA PatchedIsText ==
  ASSUME NEW content \in Text, NEW K \in SUBSET Key, NEW patch \in [K -> Value]
  PROVE  /\ patchEnv(content, patch) \in Text
         /\ \A k \in K : Says(patchEnv(content, patch), k, patch[k])
         /\ \A k \in Key \ K : patchEnv(content, patch)[k] = content[k]
<1> DEFINE new == patchEnv(content, patch)
<1>1. ASSUME NEW k \in Key
      PROVE  /\ new[k] \in Seq(Value)
             /\ k \in K => Says(new, k, patch[k])
             /\ k \notin K => new[k] = content[k]
  <2>1. content[k] \in Seq(Value)
    BY DEF Text
  <2>2. CASE k \notin K
    BY <2>1, <2>2 DEF patchEnv
  <2>3. CASE k \in K
    <3>1. patch[k] \in Value
      BY <2>3
    <3>2. new[k] = IF content[k] = <<>> THEN <<patch[k]>>
                                        ELSE [content[k] EXCEPT ![1] = patch[k]]
      BY <2>3 DEF patchEnv
    <3>3. new[k] \in Seq(Value) /\ new[k] # <<>> /\ new[k][1] = patch[k]
      <4>1. CASE content[k] = <<>>
        BY <3>1, <3>2, <4>1
      <4>2. CASE content[k] # <<>>
        BY <2>1, <3>1, <3>2, <4>2
      <4> QED BY <4>1, <4>2
    <3>4. Says(new, k, patch[k])
      <4> HIDE DEF new
      <4> QED BY <3>3, SaysFirst
    <3> QED BY <2>3, <3>3, <3>4
  <2> QED BY <2>2, <2>3
<1>2. new \in Text
  BY <1>1 DEF patchEnv, Text
<1> QED BY <1>1, <1>2

\* What a text says of a key depends on the lines of that key alone.
LEMMA SaysByLines ==
  ASSUME NEW a, NEW b, NEW k \in Key, NEW value, a[k] = b[k], Says(a, k, value)
  PROVE  Says(b, k, value)
BY DEF Says, parseEnv

-----------------------------------------------------------------------------
(* Types. *)

LEMMA AdvanceToken ==
  ASSUME NEW phase, NEW event, NEW response, response.token \in Value
  PROVE  advance(phase, event, response).token \in Value
<1>1. NoToken \in Value
  BY DEF Value, NoToken, Empty
<1> QED BY <1>1 DEF advance, afterFirstLogin, Authenticated, AwaitsCode, Transition, fail

\* What a run does to its own memory and to its temporary file keeps the types.
LEMMA EndsTyped ==
  ASSUME SetupTypeOK, NEW p \in Process, NEW how \in Ending, Ends(p, how)
  PROVE  SetupTypeOK'
BY DEF SetupTypeOK, Ends, Moves, Forgets, NoAnswer, Config, Value

LEMMA HasTokenTyped ==
  ASSUME SetupTypeOK, NEW p \in Process, NEW token \in Value, HasToken(p, token)
  PROVE  SetupTypeOK'
<1>1. answer' \in [Process -> Config]
  BY DEF HasToken, SetupTypeOK, Config
<1> QED BY <1>1 DEF SetupTypeOK, HasToken, Moves, Awaiting, diskVars

\* The steps that a run takes on its own.
Plain(p) ==
  /\ \E label \in Awaiting \cup Saving \cup {"running", "closing"} : Moves(p, label)
  /\ UNCHANGED <<file, tmp, meant, undone, edits, command, answer, text, stale>>

LEMMA PlainTyped ==
  ASSUME SetupTypeOK, NEW p \in Process, Plain(p), sound' \in [Process -> BOOLEAN]
  PROVE  SetupTypeOK'
BY DEF SetupTypeOK, Plain, Moves

\* A text that is read or made up is written down.
LEMMA TextTyped ==
  ASSUME SetupTypeOK, NEW p \in Process, NEW label \in {"loading"} \cup Awaiting \cup Saving,
         Moves(p, label), NEW new \in Text, text' = [text EXCEPT ![p] = new],
         NEW config \in Config, answer' = [answer EXCEPT ![p] = config],
         stale' \in {stale, [stale EXCEPT ![p] = FALSE]},
         UNCHANGED <<file, tmp, meant, undone, edits, command, sound>>
  PROVE  SetupTypeOK'
BY DEF SetupTypeOK, Moves

-----------------------------------------------------------------------------
(* The inductive invariant. *)

\* Where reauth holds the text that it will patch.
Holding == {"loading", "choose", "request", "code", "verify"}

ReadInv(p) ==
  command[p] = "reauth" /\ at[p] \in Holding =>
    text[p] \in Text /\ (~ stale[p] => text[p] = file)

\* What is about to be written has the answers, and otherwise what the file has.
DraftInv(p) ==
  at[p] \in Saving =>
    /\ text[p] \in Text
    /\ \A k \in Sets(command[p]) : Says(text[p], k, answer[p][k])
    /\ ~ stale[p] => \A k \in Key \ Sets(command[p]) : file # NoFile /\ text[p][k] = file[k]

WholeInv(p) == at[p] = "renaming" => tmp[p] = text[p]

\* Only the wizard asks for printers, and only webhook for the address alone.
StageInv(p) ==
  /\ at[p] \in {"ask", "devices", "trmnl"} => command[p] = "setup"
  /\ at[p] = "url" => command[p] = "webhook"

RunInv(p) == ReadInv(p) /\ DraftInv(p) /\ WholeInv(p) /\ StageInv(p)

Current == file # NoFile => \A k \in Key \ undone : Says(file, k, meant[k])

IInv == SetupTypeOK /\ Current /\ \A p \in Process : RunInv(p)

LEMMA SetsKeys ==
  ASSUME NEW c
  PROVE  Sets(c) \in SUBSET Key
BY DEF Sets, Key

\* A run with a draft has its answers and the text that it patched.
LEMMA SavesTyped ==
  ASSUME SetupTypeOK, NEW p \in Process, NEW new \in Text, Saves(p, new),
         NEW config \in Config, answer' = [answer EXCEPT ![p] = config],
         stale' \in {stale, [stale EXCEPT ![p] = FALSE]}
  PROVE  SetupTypeOK'
BY TextTyped DEF Saves, Saving

LEMMA PatchDrafts ==
  ASSUME SetupTypeOK, NEW p \in Process, NEW base \in Text, NEW c \in Command,
         NEW config \in Config,
         Saves(p, patchEnv(base, [k \in Sets(c) |-> config[k]])),
         answer' = [answer EXCEPT ![p] = config], command[p] = c,
         stale' \in {stale, [stale EXCEPT ![p] = FALSE]},
         ~ stale'[p] => base = file
  PROVE  SetupTypeOK' /\ RunInv(p)'
<1> DEFINE new == patchEnv(base, [k \in Sets(c) |-> config[k]])
<1>1. Sets(c) \in SUBSET Key /\ [k \in Sets(c) |-> config[k]] \in [Sets(c) -> Value]
  BY SetsKeys DEF Config
<1>2. /\ new \in Text
      /\ \A k \in Sets(c) : Says(new, k, config[k])
      /\ \A k \in Key \ Sets(c) : new[k] = base[k]
  BY <1>1, PatchedIsText
<1> HIDE DEF new
<1>3. SetupTypeOK'
  BY <1>2, SavesTyped DEF new
<1>4. at'[p] = "writing" /\ text'[p] = new /\ answer'[p] = config /\ command'[p] = c
      /\ file' = file
  BY DEF Saves, Moves, SetupTypeOK, new
<1>5. file = base => file # NoFile
  BY SetupAssumption
<1>6. DraftInv(p)'
  BY <1>2, <1>4, <1>5 DEF DraftInv, Says
<1> QED BY <1>3, <1>4, <1>6 DEF RunInv, ReadInv, WholeInv, StageInv, Holding

LEMMA WizardDrafts ==
  ASSUME SetupTypeOK, NEW p \in Process, NEW config \in Config, command[p] = "setup",
         Saves(p, serializeEnv(config)),
         answer' = [answer EXCEPT ![p] = config], UNCHANGED stale
  PROVE  SetupTypeOK' /\ RunInv(p)'
<1> DEFINE new == serializeEnv(config)
<1>1. new \in Text /\ \A k \in Key : Says(new, k, config[k])
  BY SerializedIsText
<1> HIDE DEF new
<1>2. SetupTypeOK'
  BY <1>1, SavesTyped DEF new
<1>3. at'[p] = "writing" /\ text'[p] = new /\ answer'[p] = config /\ command'[p] = "setup"
  BY DEF Saves, Moves, SetupTypeOK, new
<1>4. Sets("setup") = Key
  BY DEF Sets
<1>5. DraftInv(p)'
  BY <1>1, <1>3, <1>4 DEF DraftInv, Says
<1> QED BY <1>2, <1>3, <1>5 DEF RunInv, ReadInv, WholeInv, StageInv, Holding

-----------------------------------------------------------------------------
(* Every step keeps it. *)

\* What a run does to itself does not concern the others while the file stays.
LEMMA OthersKeep ==
  ASSUME NEW p \in Process, RunInv(p), UNCHANGED <<file, command>>,
         at'[p] = at[p], text'[p] = text[p], answer'[p] = answer[p],
         stale'[p] = stale[p], tmp'[p] = tmp[p]
  PROVE  RunInv(p)'
BY DEF RunInv, ReadInv, DraftInv, WholeInv, StageInv

LEMMA EndsKeeps ==
  ASSUME IInv, NEW p \in Process, NEW how \in Ending, Ends(p, how)
  PROVE  SetupTypeOK' /\ RunInv(p)'
<1>1. SetupTypeOK'
  BY EndsTyped DEF IInv
<1>2. at'[p] \in Ending
  BY DEF Ends, Moves, IInv, SetupTypeOK
<1> QED BY <1>1, <1>2
        DEF RunInv, ReadInv, DraftInv, WholeInv, StageInv, Holding, Saving, Ending

\* A step between two questions, neither of which is one of reauth after the other.
LEMMA PlainKeeps ==
  ASSUME IInv, NEW p \in Process, NEW label \in Awaiting \cup {"running", "closing"},
         Moves(p, label), UNCHANGED <<file, tmp, meant, undone, edits, command, answer, text, stale>>,
         sound' \in [Process -> BOOLEAN],
         label \in Holding => command[p] # "reauth" \/ at[p] \in Holding,
         label \in {"ask", "devices", "trmnl"} => command[p] = "setup",
         label = "url" => command[p] = "webhook"
  PROVE  SetupTypeOK' /\ RunInv(p)'
<1>1. SetupTypeOK'
  BY PlainTyped DEF IInv, Plain
<1>2. at'[p] = label
  BY DEF Moves, IInv, SetupTypeOK
<1> QED BY <1>1, <1>2
        DEF IInv, RunInv, ReadInv, DraftInv, WholeInv, StageInv, Holding, Saving, Awaiting

\* A run that has read the file, and goes on.
LEMMA ReadsKeeps ==
  ASSUME IInv, NEW p \in Process, NEW label \in {"loading", "checking"}, ~ Missing, Moves(p, label),
         Reads(p), Keeps
  PROVE  SetupTypeOK' /\ RunInv(p)'
<1>1. file \in Text
  BY DEF Missing, IInv, SetupTypeOK
<1>2. answer' = [answer EXCEPT ![p] = answer[p]] /\ answer[p] \in Config
  BY DEF Keeps, IInv, SetupTypeOK
<1>3. SetupTypeOK'
  BY <1>1, <1>2, TextTyped DEF Reads, Keeps, IInv, Awaiting
<1>4. at'[p] = label /\ text'[p] = file /\ file' = file
  BY DEF Moves, Reads, IInv, SetupTypeOK
<1> QED BY <1>1, <1>3, <1>4
        DEF RunInv, ReadInv, DraftInv, WholeInv, StageInv, Holding, Saving

LEMMA BeginningKeeps ==
  ASSUME IInv, NEW p \in Process, Beginning(p)
  PROVE  SetupTypeOK' /\ RunInv(p)'
<1>1. CASE BeginsSetup(p)
  BY <1>1, PlainKeeps
  DEF BeginsSetup, Begins, Keeps, diskVars, Holding, Awaiting, IInv, SetupTypeOK
<1>2. CASE \E how \in Ending : Ends(p, how)
  BY <1>2, EndsKeeps
<1>3. CASE /\ ~ Missing /\ Reads(p) /\ Keeps
           /\ \E label \in {"loading", "checking"} : Moves(p, label)
  BY <1>3, ReadsKeeps
<1>4. CASE /\ command[p] = "webhook" /\ Moves(p, "url")
           /\ sound' = [sound EXCEPT ![p] = Usable]
           /\ UNCHANGED <<command, answer, login, diskVars>>
  <2>1. Usable \in BOOLEAN
    BY DEF Usable, Missing
  <2>2. sound' \in [Process -> BOOLEAN]
    BY <1>4, <2>1 DEF IInv, SetupTypeOK
  <2> QED BY <1>4, <2>2, PlainKeeps DEF diskVars, Holding, Awaiting
<1>5. CASE Moves(p, "running") /\ Keeps /\ UNCHANGED diskVars
  BY <1>5, PlainKeeps DEF Keeps, diskVars, Holding, IInv, SetupTypeOK
<1> QED BY <1>1, <1>2, <1>3, <1>4, <1>5
        DEF Beginning, BeginsReauth, BeginsWebhook, BeginsDoctor, BeginsBridge, Begins,
            Usable, Ending

\* A token in hand: reauth still has the text it read.
LEMMA HasTokenKeeps ==
  ASSUME IInv, NEW p \in Process, at[p] \in Holding, NEW token \in Value, HasToken(p, token)
  PROVE  SetupTypeOK' /\ RunInv(p)'
<1>1. SetupTypeOK'
  BY HasTokenTyped DEF IInv
<1>2. at'[p] = "verify" /\ UNCHANGED diskVars /\ UNCHANGED command
  BY DEF HasToken, Moves, IInv, SetupTypeOK
<1> QED BY <1>1, <1>2
        DEF IInv, RunInv, ReadInv, DraftInv, WholeInv, StageInv, Holding, Saving, diskVars

LEMMA DrivesKeeps ==
  ASSUME IInv, NEW p \in Process, at[p] \in Holding, NEW transition,
         transition.token \in Value, Drives(p, transition)
  PROVE  SetupTypeOK' /\ RunInv(p)'
<1>1. CASE HasToken(p, transition.token)
  BY <1>1, HasTokenKeeps DEF Holding
<1>2. CASE \E how \in Ending : Ends(p, how)
  BY <1>2, EndsKeeps
<1>3. CASE Moves(p, "request") /\ UNCHANGED <<command, answer, sound, diskVars>>
  BY <1>3, PlainKeeps DEF diskVars, Holding, Awaiting, IInv, SetupTypeOK
<1> QED BY <1>1, <1>2, <1>3 DEF Drives, Ending

LEMMA SigningInKeeps ==
  ASSUME IInv, NEW p \in Process,
         \/ LoadsConfig(p) \/ Replaces(p) \/ PastesToken(p) \/ SignsIn(p) \/ LoginAnswers(p)
         \/ CodeIsSent(p) \/ CodeIsGiven(p) \/ CloudRefuses(p) \/ TokenWorks(p)
  PROVE  SetupTypeOK' /\ RunInv(p)'
<1>1. CASE \E how \in Ending : Ends(p, how)
  BY <1>1, EndsKeeps
<1>2. CASE Replaces(p) \/ (LoadsConfig(p) /\ ~ Ends(p, "failed"))
  BY <1>2, PlainKeeps
  DEF Replaces, LoadsConfig, Keeps, diskVars, Holding, Awaiting, IInv, SetupTypeOK, RunInv, StageInv
<1>3. CASE PastesToken(p)
  BY <1>3, HasTokenKeeps DEF PastesToken, Value, Holding
<1>4. CASE \/ SignsIn(p)
           \/ CodeIsSent(p) /\ Moves(p, "code") /\ Keeps /\ UNCHANGED diskVars
  BY <1>4, PlainKeeps
  DEF SignsIn, CodeIsSent, Keeps, diskVars, Holding, Awaiting, IInv, SetupTypeOK
<1>5. CASE LoginAnswers(p) \/ CodeIsGiven(p)
  <2>1. \A response \in Response : response.token \in Value
    BY DEF Response, Value, NoToken, Empty
  <2>2. NoResponse.token \in Value
    BY DEF NoResponse, Value, NoToken, Empty
  <2> QED BY <1>5, <2>1, <2>2, AdvanceToken, DrivesKeeps
          DEF LoginAnswers, CodeIsGiven, Holding
<1>6. CASE TokenWorks(p)
  BY <1>6, PlainKeeps
  DEF TokenWorks, Keeps, diskVars, Holding, Awaiting, IInv, SetupTypeOK
<1>7. CodeIsSent(p) \/ CloudRefuses(p) \/ (LoadsConfig(p) /\ Ends(p, "failed")) =>
        \/ \E how \in Ending : Ends(p, how)
        \/ CodeIsSent(p) /\ Moves(p, "code") /\ Keeps /\ UNCHANGED diskVars
  BY DEF CodeIsSent, CloudRefuses, Ending
<1> QED BY <1>1, <1>2, <1>3, <1>4, <1>5, <1>6, <1>7

LEMMA PrintersKeep ==
  ASSUME IInv, NEW p \in Process, PrintersChosen(p)
  PROVE  SetupTypeOK' /\ RunInv(p)'
<1>1. CASE \E how \in Ending : Ends(p, how)
  BY <1>1, EndsKeeps
<1>2. CASE ~ \E how \in Ending : Ends(p, how)
  <2>1. PICK printers \in Setting : answer' = [answer EXCEPT ![p]["printers"] = printers]
    BY <1>2 DEF PrintersChosen, Ending
  <2>2. Moves(p, "trmnl") /\ UNCHANGED <<command, login, sound, diskVars>> /\ at[p] = "devices"
    BY <1>2 DEF PrintersChosen, Ending
  <2>3. answer' \in [Process -> Config]
    BY <2>1 DEF IInv, SetupTypeOK, Config, Value
  <2>4. SetupTypeOK'
    BY <2>2, <2>3 DEF IInv, SetupTypeOK, Moves, Awaiting, diskVars
  <2>5. at'[p] = "trmnl"
    BY <2>2 DEF Moves, IInv, SetupTypeOK
  <2> QED BY <2>2, <2>4, <2>5
          DEF IInv, RunInv, ReadInv, DraftInv, WholeInv, StageInv, Holding, Saving
<1> QED BY <1>1, <1>2

LEMMA SavingKeeps ==
  ASSUME IInv, NEW p \in Process, TokenIsPatched(p) \/ WizardSaves(p) \/ UrlIsGiven(p)
  PROVE  SetupTypeOK' /\ RunInv(p)'
<1>1. CASE \E how \in Ending : Ends(p, how)
  BY <1>1, EndsKeeps
<1>2. CASE TokenIsPatched(p) /\ ~ \E how \in Ending : Ends(p, how)
  <2>1. answer' = [answer EXCEPT ![p] = answer[p]] /\ answer[p] \in Config
    BY <1>2 DEF TokenIsPatched, Ending, IInv, SetupTypeOK
  <2>2. text[p] \in Text /\ (~ stale[p] => text[p] = file) /\ command[p] = "reauth"
    BY <1>2 DEF TokenIsPatched, IInv, RunInv, ReadInv, Holding
  <2>3. Saves(p, patchEnv(text[p], [k \in Sets("reauth") |-> answer[p][k]])) /\ UNCHANGED stale
    BY <1>2 DEF TokenIsPatched, Ending, Sets
  <2> QED BY <2>1, <2>2, <2>3, PatchDrafts DEF IInv, Command
<1>3. CASE WizardSaves(p) /\ ~ \E how \in Ending : Ends(p, how)
  <2>1. PICK webhook \in Setting \cup {Empty} :
          /\ answer' = [answer EXCEPT ![p] = [answer[p] EXCEPT !["webhook"] = webhook]]
          /\ Saves(p, serializeEnv([answer[p] EXCEPT !["webhook"] = webhook]))
          /\ UNCHANGED stale
    BY <1>3 DEF WizardSaves, Ending
  <2>2. [answer[p] EXCEPT !["webhook"] = webhook] \in Config
    BY DEF IInv, SetupTypeOK, Config, Value
  <2>3. command[p] = "setup"
    BY <1>3 DEF WizardSaves, IInv, RunInv, StageInv
  <2> QED BY <2>1, <2>2, <2>3, WizardDrafts DEF IInv
<1>4. CASE UrlIsGiven(p) /\ ~ \E how \in Ending : Ends(p, how)
  <2>1. PICK webhook \in Setting :
          /\ answer' = [answer EXCEPT ![p]["webhook"] = webhook]
          /\ Saves(p, patchEnv(file, [k \in {"webhook"} |-> webhook]))
    BY <1>4 DEF UrlIsGiven, Ending
  <2> DEFINE config == [answer[p] EXCEPT !["webhook"] = webhook]
  <2>2. answer' = [answer EXCEPT ![p] = config] /\ config \in Config
    BY <2>1 DEF IInv, SetupTypeOK, Config, Value
  <2>3. Sets("webhook") = {"webhook"} /\ config["webhook"] = webhook
    BY DEF Sets, IInv, SetupTypeOK, Config, Key
  <2>4. [k \in Sets("webhook") |-> config[k]] = [k \in {"webhook"} |-> webhook]
    BY <2>3
  <2>5. file \in Text /\ command[p] = "webhook" /\ stale' = [stale EXCEPT ![p] = FALSE]
    BY <1>4 DEF UrlIsGiven, Missing, Ending, IInv, SetupTypeOK, RunInv, StageInv
  <2> QED BY <2>1, <2>2, <2>4, <2>5, PatchDrafts DEF IInv, Command
<1> QED BY <1>1, <1>2, <1>3, <1>4

\* The temporary file is begun, and then has the whole text.
LEMMA WritingKeeps ==
  ASSUME IInv, NEW p \in Process, Writes(p) \/ Flushes(p)
  PROVE  SetupTypeOK' /\ RunInv(p)'
<1>1. /\ UNCHANGED <<file, text, stale, meant, undone, edits, command, answer, login, sound>>
      /\ at[p] \in Saving /\ at' = [at EXCEPT ![p] = at'[p]]
      /\ at'[p] \in {"flushing", "renaming"}
      /\ tmp' = [tmp EXCEPT ![p] = tmp'[p]] /\ tmp'[p] \in {Torn, text[p]}
      /\ at'[p] = "renaming" => tmp'[p] = text[p]
  BY DEF Writes, Flushes, Keeps, Moves, Saving, IInv, SetupTypeOK
<1>2. SetupTypeOK'
  BY <1>1 DEF IInv, SetupTypeOK, Saving
<1>3. StageInv(p)'
  BY <1>1 DEF StageInv
<1>4. ReadInv(p)' /\ WholeInv(p)'
  BY <1>1 DEF ReadInv, WholeInv, Holding
<1>5. DraftInv(p)'
  BY <1>1 DEF IInv, RunInv, DraftInv
<1> QED BY <1>2, <1>3, <1>4, <1>5 DEF RunInv

LEMMA FailingKeeps ==
  ASSUME IInv, NEW p \in Process, WriteFails(p)
  PROVE  SetupTypeOK' /\ RunInv(p)'
<1>1. SetupTypeOK'
  BY DEF WriteFails, Moves, Forgets, NoAnswer, Config, Value, IInv, SetupTypeOK, Ending
<1>2. at'[p] = "failed"
  BY DEF WriteFails, Moves, IInv, SetupTypeOK
<1> QED BY <1>1, <1>2 DEF RunInv, ReadInv, DraftInv, WholeInv, StageInv, Holding, Saving

\* A run touches nothing of the others, and only a rename touches the file.
Same(q) ==
  /\ at'[q] = at[q] /\ text'[q] = text[q] /\ answer'[q] = answer[q]
  /\ stale'[q] = stale[q] /\ tmp'[q] = tmp[q]

LEMMA UntouchedByEnd ==
  ASSUME SetupTypeOK, NEW p \in Process, NEW how, Ends(p, how)
  PROVE  UNCHANGED <<file, meant, undone, command>> /\ \A q \in Process \ {p} : Same(q)
BY DEF Same, SetupTypeOK, Ends, Moves, Forgets

LEMMA UntouchedByDriving ==
  ASSUME SetupTypeOK, NEW p \in Process, NEW transition, Drives(p, transition)
  PROVE  UNCHANGED <<file, meant, undone, command>> /\ \A q \in Process \ {p} : Same(q)
BY UntouchedByEnd DEF Same, SetupTypeOK, Drives, HasToken, Moves, diskVars

LEMMA UntouchedByRun ==
  ASSUME SetupTypeOK, NEW p \in Process, RunStep(p), ~ Renames(p)
  PROVE  UNCHANGED <<file, meant, undone, command>> /\ \A q \in Process \ {p} : Same(q)
<1>1. CASE \E how : Ends(p, how)
  BY <1>1, UntouchedByEnd
<1>2. CASE \E transition : Drives(p, transition)
  BY <1>2, UntouchedByDriving
<1>3. CASE \/ BeginsSetup(p) \/ Replaces(p) \/ SignsIn(p) \/ TokenWorks(p)
           \/ \E label : Moves(p, label) /\ UNCHANGED <<command, answer, diskVars>>
  BY <1>3 DEF Same, SetupTypeOK, Moves, Keeps, BeginsSetup, Replaces, SignsIn, TokenWorks,
              diskVars
<1>4. CASE Beginning(p)
  <2>1. \/ \E how : Ends(p, how)
        \/ BeginsSetup(p)
        \/ \E label : Moves(p, label) /\ UNCHANGED <<command, answer, diskVars>>
        \/ \E label : Moves(p, label) /\ Reads(p) /\ Keeps
    BY <1>4 DEF Beginning, BeginsReauth, BeginsWebhook, BeginsDoctor, BeginsBridge, Keeps
  <2>2. CASE \E label : Moves(p, label) /\ Reads(p) /\ Keeps
    BY <2>2 DEF Same, SetupTypeOK, Moves, Reads, Keeps
  <2> QED BY <1>1, <1>3, <2>1, <2>2
<1>5. CASE PastesToken(p)
  BY <1>5 DEF PastesToken, HasToken, Same, SetupTypeOK, Moves, diskVars
<1>6. CASE LoginAnswers(p) \/ CodeIsGiven(p)
  BY <1>2, <1>6 DEF LoginAnswers, CodeIsGiven
<1>7. CASE LoadsConfig(p) \/ CodeIsSent(p) \/ CloudRefuses(p) \/ Concludes(p)
           \/ Examines(p) \/ StopsBridge(p) \/ Cancels(p) \/ Killed(p)
  BY <1>1, <1>3, <1>7 DEF LoadsConfig, CodeIsSent, CloudRefuses, Concludes, Examines, StopsBridge,
                         Cancels, Killed, Keeps
<1>8. CASE PrintersChosen(p) \/ TokenIsPatched(p) \/ WizardSaves(p) \/ UrlIsGiven(p)
  <2>1. CASE /\ \E label : Moves(p, label)
             /\ UNCHANGED <<file, tmp, meant, undone, command>>
             /\ text' = [text EXCEPT ![p] = text'[p]]
             /\ answer' = [answer EXCEPT ![p] = answer'[p]]
             /\ stale' = [stale EXCEPT ![p] = stale'[p]]
    BY <2>1 DEF Same, SetupTypeOK, Moves
  <2> QED BY <1>1, <1>8, <2>1
          DEF PrintersChosen, TokenIsPatched, WizardSaves, UrlIsGiven, Saves, diskVars,
              SetupTypeOK
<1>9. CASE Writes(p) \/ Flushes(p) \/ WriteFails(p)
  BY <1>9 DEF Writes, Flushes, WriteFails, Same, SetupTypeOK, Moves, Keeps, Forgets
<1> QED BY <1>3, <1>4, <1>5, <1>6, <1>7, <1>8, <1>9 DEF RunStep, Continues

\* Of the steps that leave the file alone none disturbs another run.
LEMMA SteppingKeeps ==
  ASSUME IInv, NEW p \in Process, RunStep(p), ~ Renames(p)
  PROVE  IInv'
<1>1. SetupTypeOK' /\ RunInv(p)'
  <2>1. CASE \E how \in Ending : Ends(p, how)
    BY <2>1, EndsKeeps
  <2>2. Concludes(p) \/ Examines(p) \/ StopsBridge(p) \/ Cancels(p) \/ Killed(p) =>
          \E how \in Ending : Ends(p, how)
    BY DEF Concludes, Examines, StopsBridge, Cancels, Killed, Ending
  <2> QED BY <2>1, <2>2, BeginningKeeps, SigningInKeeps, PrintersKeep, SavingKeeps,
             WritingKeeps, FailingKeeps
          DEF RunStep, Continues
<1>2. UNCHANGED <<file, meant, undone, command>> /\ \A q \in Process \ {p} : Same(q)
  BY UntouchedByRun DEF IInv
<1>3. ASSUME NEW q \in Process PROVE RunInv(q)'
  <2>1. CASE q = p
    BY <1>1, <2>1
  <2>2. CASE q # p
    BY <1>2, <2>2, OthersKeep DEF Same, IInv
  <2> QED BY <2>1, <2>2
<1>4. Current'
  BY <1>2 DEF IInv, Current, Says
<1> QED BY <1>1, <1>3, <1>4 DEF IInv

\* A text that another run has read is stale from now on, and nothing is known of
\* it but that it is one.
LEMMA OthersAreStale ==
  ASSUME IInv, NEW q \in Process, NEW new, FileBecomes(new), command' = command,
         at'[q] = at[q], text'[q] = text[q], answer'[q] = answer[q], tmp'[q] = tmp[q]
  PROVE  RunInv(q)'
<1>1. text[q] \in Text => stale'[q]
  BY SetupAssumption DEF FileBecomes
<1> QED BY <1>1 DEF IInv, RunInv, ReadInv, DraftInv, WholeInv, StageInv

\* The text that a run puts in place has its answers; of the other keys it says what
\* the file said, or it is stale and they are undone where it says something else.
LEMMA RenamedSays ==
  ASSUME IInv, NEW p \in Process, Renames(p)
  PROVE  /\ text[p] \in Text /\ file' = text[p] /\ meant' \in Config /\ undone' \subseteq Key
         /\ \A k \in Key \ undone' : Says(text[p], k, meant'[k])
<1>1. at[p] = "renaming" /\ tmp[p] = text[p] /\ DraftInv(p) /\ command[p] \in Command
  BY DEF Renames, IInv, RunInv, WholeInv, SetupTypeOK
<1>2. text[p] \in Text /\ file' = text[p]
  BY <1>1 DEF DraftInv, Saving, Renames, FileBecomes
<1>3. /\ meant' = [k \in Key |-> IF k \in Sets(command[p]) THEN answer[p][k] ELSE meant[k]]
      /\ undone' = {k \in Key \ Sets(command[p]) :
                      IF stale[p] THEN parseEnv(text[p])[k] # meant[k] ELSE k \in undone}
  BY <1>1 DEF Renames
<1>4. meant' \in Config /\ undone' \subseteq Key
  <2>1. answer[p] \in Config /\ meant \in Config
    BY DEF IInv, SetupTypeOK
  <2> QED BY <1>3, <2>1 DEF Config
<1>5. ASSUME NEW k \in Key \ undone' PROVE Says(text[p], k, meant'[k])
  <2>1. CASE k \in Sets(command[p])
    BY <1>1, <1>3, <2>1 DEF DraftInv, Saving
  <2>2. CASE k \notin Sets(command[p]) /\ stale[p]
    BY <1>3, <1>5, <2>2 DEF Says
  <2>3. CASE k \notin Sets(command[p]) /\ ~ stale[p]
    <3>1. file # NoFile /\ text[p][k] = file[k] /\ k \notin undone
      BY <1>1, <1>3, <1>5, <2>3 DEF DraftInv, Saving
    <3>2. Says(file, k, meant[k])
      BY <3>1 DEF IInv, Current
    <3>3. Says(text[p], k, meant[k])
      BY <3>1, <3>2, SaysByLines
    <3> QED BY <1>3, <2>3, <3>3
  <2> QED BY <2>1, <2>2, <2>3
<1> QED BY <1>2, <1>4, <1>5

LEMMA RenamingKeeps ==
  ASSUME IInv, NEW p \in Process, Renames(p)
  PROVE  IInv'
<1>1. /\ text[p] \in Text /\ file' = text[p] /\ meant' \in Config /\ undone' \subseteq Key
      /\ \A k \in Key \ undone' : Says(text[p], k, meant'[k])
  BY RenamedSays
<1>2. at' = [at EXCEPT ![p] = at'[p]] /\ at'[p] \in {"test", "closing"}
  BY DEF Renames, Moves, IInv, SetupTypeOK
<1>3. FileBecomes(tmp[p]) /\ tmp' = [tmp EXCEPT ![p] = NoFile]
      /\ UNCHANGED <<text, edits, command, answer, sound>>
  BY DEF Renames, Keeps
<1>4. SetupTypeOK'
  <2>1. stale' \in [Process -> BOOLEAN]
    BY <1>3 DEF FileBecomes, IInv, SetupTypeOK
  <2> QED BY <1>1, <1>2, <1>3, <2>1 DEF IInv, SetupTypeOK, Awaiting
<1>5. Current'
  BY <1>1 DEF Current, Says
<1>6. RunInv(p)'
  BY <1>2 DEF RunInv, ReadInv, DraftInv, WholeInv, StageInv, Holding, Saving
<1>7. ASSUME NEW q \in Process, q # p PROVE RunInv(q)'
  <2>1. at'[q] = at[q] /\ tmp'[q] = tmp[q]
    BY <1>2, <1>3, <1>7 DEF IInv, SetupTypeOK
  <2> QED BY <1>3, <2>1, OthersAreStale
<1> QED BY <1>4, <1>5, <1>6, <1>7 DEF IInv

\* An edit by hand, given that the new text says what was meant.
LEMMA EditedKeeps ==
  ASSUME IInv, NEW new \in Text \cup {NoFile}, NEW saying \in Config, NEW settled,
         Edited(new, saying, settled),
         new # NoFile => \A k \in Key \ (undone \ settled) : Says(new, k, saying[k])
  PROVE  IInv'
<1>1. FileBecomes(new) /\ file' = new /\ meant' = saying /\ edits' \in 0 .. MaxEdits
      /\ undone' = undone \ settled
      /\ UNCHANGED <<tmp, text, at, command, answer, sound>>
  <2>1. edits \in 0 .. MaxEdits /\ edits < MaxEdits /\ edits' = edits + 1 /\ MaxEdits \in Nat
    BY SetupAssumption DEF Edited, IInv, SetupTypeOK
  <2>2. edits' \in 0 .. MaxEdits
    BY <2>1
  <2> QED BY <2>2 DEF Edited, FileBecomes, runVars
<1>2. SetupTypeOK'
  <2>1. stale' \in [Process -> BOOLEAN]
    BY <1>1 DEF FileBecomes, IInv, SetupTypeOK
  <2> QED BY <1>1, <2>1 DEF IInv, SetupTypeOK
<1>3. Current'
  BY <1>1 DEF Current, Says
<1>4. \A q \in Process : RunInv(q)'
  BY <1>1, OthersAreStale
<1> QED BY <1>2, <1>3, <1>4 DEF IInv

\* The lines of one key are edited, of which the last says what is meant.
LEMMA LineKeeps ==
  ASSUME IInv, NEW k \in Key, NEW value \in Value, NEW lines \in Seq(Value),
         file # NoFile, Len(lines) <= 1 => lines # <<>> /\ lines[Len(lines)] = value,
         Edited([file EXCEPT ![k] = lines], [meant EXCEPT ![k] = value], {k})
  PROVE  IInv'
<1> DEFINE new == [file EXCEPT ![k] = lines]
           saying == [meant EXCEPT ![k] = value]
<1>1. file \in Text /\ meant \in Config
  BY DEF IInv, SetupTypeOK
<1>2. new \in Text /\ saying \in Config
  BY <1>1 DEF Text, Config
<1>3. ASSUME NEW other \in Key \ (undone \ {k}) PROVE Says(new, other, saying[other])
  <2>1. CASE other = k
    <3>1. new[k] = lines /\ saying[k] = value
      BY <1>1 DEF Text, Config
    <3> HIDE DEF new, saying
    <3> QED BY <2>1, <3>1 DEF Says, parseEnv
  <2>2. CASE other # k
    <3>1. new[other] = file[other] /\ saying[other] = meant[other]
      BY <1>1, <2>2 DEF Text, Config
    <3>2. Says(file, other, meant[other])
      BY <1>3, <2>2 DEF IInv, Current
    <3> HIDE DEF new, saying
    <3> QED BY <3>1, <3>2, SaysByLines
  <2> QED BY <2>1, <2>2
<1> HIDE DEF new, saying
<1> QED BY <1>2, <1>3, EditedKeeps DEF new, saying

LEMMA HandKeeps ==
  ASSUME IInv, HandStep
  PROVE  IInv'
<1>1. CASE HandDelete
  <2>1. NoAnswer \in Config
    BY DEF NoAnswer, Config, Value
  <2> QED BY <1>1, <2>1, EditedKeeps DEF HandDelete
<1>2. ASSUME NEW k \in Key, NEW value \in Value, HandChange(k, value)
      PROVE  IInv'
  <2> DEFINE lines == [file[k] EXCEPT ![Len(file[k])] = value]
  <2>1. file # NoFile /\ file[k] \in Seq(Value) /\ file[k] # <<>>
    BY <1>2 DEF HandChange, IInv, SetupTypeOK, Text
  <2>2. Len(file[k]) \in Nat \ {0}
    BY <2>1, EmptySeq
  <2>3. lines \in Seq(Value) /\ lines # <<>> /\ lines[Len(lines)] = value
    BY <2>1, <2>2
  <2>4. Edited([file EXCEPT ![k] = lines], [meant EXCEPT ![k] = value], {k})
    BY <1>2 DEF HandChange
  <2> HIDE DEF lines
  <2> QED BY <2>1, <2>3, <2>4, LineKeeps
<1>3. ASSUME NEW k \in Key, NEW value \in Value, HandAppend(k, value)
      PROVE  IInv'
  <2> DEFINE lines == Append(file[k], value)
  <2>1. file # NoFile /\ file[k] \in Seq(Value)
    BY <1>3 DEF HandAppend, Edited, Missing, IInv, SetupTypeOK, Text
  <2>2. lines \in Seq(Value) /\ lines # <<>> /\ lines[Len(lines)] = value
    BY <2>1
  <2>3. Edited([file EXCEPT ![k] = lines], [meant EXCEPT ![k] = value], {k})
    BY <1>3 DEF HandAppend
  <2> HIDE DEF lines
  <2> QED BY <2>1, <2>2, <2>3, LineKeeps
<1> QED BY <1>1, <1>2, <1>3 DEF HandStep

LEMMA BeginsSound ==
  ASSUME SetupInit
  PROVE  IInv
<1>1. NoAnswer \in Config
  BY DEF NoAnswer, Config, Value
<1>2. CASE file = NoFile
  <2>1. SetupTypeOK
    BY <1>1, <1>2, SetupAssumption DEF SetupInit, SetupTypeOK
  <2> QED BY <1>2, <2>1
          DEF SetupInit, IInv, Current, RunInv, ReadInv, DraftInv, WholeInv, StageInv,
              Holding, Saving
<1>3. CASE file # NoFile
  <2>1. PICK s \in Setting, w \in Setting \cup {Empty} :
          file = serializeEnv([account |-> s, webhook |-> w, printers |-> s])
    BY <1>3 DEF SetupInit
  <2>2. [account |-> s, webhook |-> w, printers |-> s] \in Config
    BY DEF Config, Key, Value
  <2>3. file \in Text
    BY <2>1, <2>2, SerializedIsText
  <2>4. meant = parseEnv(file) /\ meant \in Config
    BY <1>3, <2>3, ParsedIsConfig DEF SetupInit
  <2>5. SetupTypeOK
    BY <1>1, <2>3, <2>4, SetupAssumption DEF SetupInit, SetupTypeOK
  <2> QED BY <2>4, <2>5
          DEF SetupInit, IInv, Current, Says, RunInv, ReadInv, DraftInv, WholeInv, StageInv,
              Holding, Saving
<1> QED BY <1>2, <1>3

LEMMA NextSound ==
  ASSUME IInv, [SetupNext]_setupVars
  PROVE  IInv'
<1>1. CASE SetupNext
  BY <1>1, SteppingKeeps, RenamingKeeps, HandKeeps DEF SetupNext
<1>2. CASE UNCHANGED setupVars
  BY <1>2 DEF setupVars, runVars, diskVars, IInv, SetupTypeOK, Current, Says, RunInv,
              ReadInv, DraftInv, WholeInv, StageInv
<1> QED BY <1>1, <1>2

\* The invariant is one of every behaviour.
LEMMA SetupSound == SetupSpec => []IInv
<1>1. SetupInit => IInv
  BY BeginsSound
<1>2. IInv /\ [SetupNext]_setupVars => IInv'
  BY NextSound
<1> QED BY <1>1, <1>2, PTL DEF SetupSpec

\* Type correctness; in particular nothing but a whole text is ever in bridge/.env.
THEOREM TypeCorrect == SetupSpec => []SetupTypeOK
<1>1. IInv => SetupTypeOK
  BY DEF IInv
<1> QED BY <1>1, SetupSound, PTL

\* store.ts:4 and config.ts:181-203: whatever overlaps, fails and is killed, the file is
\* a whole text, and a key with one line at most has the value that it was last given on
\* purpose, unless a text that was stale when it was put in place has undone that.
THEOREM Survival == SetupSpec => []SettingsSurvive
<1>1. IInv => SettingsSurvive
  BY SetupAssumption DEF IInv, SetupTypeOK, Current, Says, SettingsSurvive
<1> QED BY <1>1, SetupSound, PTL

-----------------------------------------------------------------------------
(* The login, and how far a run has got. *)

Answered == Transition("await-code-login-result", "login", FALSE, NoToken)
Machine == {NoLogin, beginPasswordLogin, AwaitsCode, Answered}
Label == {"off", "loading", "running", "closing"} \cup Awaiting \cup Saving \cup (Ending \ {"stalled"})

\* Where the machine stands while a run signs in.
LoginInv(p) ==
  /\ at[p] = "request" => login[p] # NoLogin
  /\ at[p] = "code" => login[p] = AwaitsCode

LInv ==
  /\ at \in [Process -> Label]
  /\ login \in [Process -> Machine]
  /\ \A p \in Process : LoginInv(p)

\* A run moves on, its machine with it, and the others stay.
Advances(p) ==
  /\ at' = [at EXCEPT ![p] = at'[p]] /\ at'[p] \in Label
  /\ login' = [login EXCEPT ![p] = login'[p]] /\ login'[p] \in Machine
  /\ LoginInv(p)'
  /\ Left(p)' < Left(p)

LEMMA AdvancesKeeps ==
  ASSUME LInv, NEW p \in Process, Advances(p)
  PROVE  /\ LInv'
         /\ \A q \in Process \ {p} : at'[q] = at[q] /\ login'[q] = login[q]
<1>1. \A q \in Process \ {p} : at'[q] = at[q] /\ login'[q] = login[q]
  BY DEF LInv, Advances
<1>2. at' \in [Process -> Label] /\ login' \in [Process -> Machine]
  BY DEF LInv, Advances
<1> QED BY <1>1, <1>2 DEF LInv, Advances, LoginInv

LEMMA MachinesDiffer ==
  /\ beginPasswordLogin # NoLogin /\ AwaitsCode # NoLogin /\ Answered # NoLogin
  /\ beginPasswordLogin.phase = "await-login-result"
  /\ AwaitsCode.phase = "await-email-code" /\ AwaitsCode.prompt
  /\ AwaitsCode.request = "send-code"
  /\ Answered.phase = "await-code-login-result" /\ Answered.request = "login"
BY DEF beginPasswordLogin, NoLogin, AwaitsCode, Answered, Transition

\* The ranks.
LEMMA Ranks ==
  ASSUME NEW phase
  PROVE  /\ Rank("off", phase) = 14
         /\ Rank("loading", phase) = 13 /\ Rank("ask", phase) = 13
         /\ Rank("choose", phase) = 12
         /\ Rank("code", phase) = 9
         /\ Rank("verify", phase) = 7
         /\ Rank("devices", phase) = 6
         /\ Rank("trmnl", phase) = 5
         /\ Rank("url", phase) = 5
         /\ Rank("writing", phase) = 4
         /\ Rank("flushing", phase) = 3
         /\ Rank("renaming", phase) = 2
         /\ Rank("checking", phase) = 1
         /\ Rank("running", phase) = 1
         /\ Rank("test", phase) = 1
         /\ Rank("closing", phase) = 1
         /\ \A how \in Ending : Rank(how, phase) = 0
BY DEF Rank, Ending

LEMMA RequestRanks ==
  /\ Rank("request", "await-login-result") = 11
  /\ Rank("request", "await-email-code") = 10
  /\ Rank("request", "await-code-login-result") = 8
BY DEF Rank

LEMMA EndsLower ==
  ASSUME LInv, NEW p \in Process, NEW how \in Ending \ {"stalled"}, Ends(p, how),
         at[p] \notin Ending
  PROVE  Advances(p)
<1>1. at' = [at EXCEPT ![p] = how] /\ login' = [login EXCEPT ![p] = NoLogin]
  BY DEF Ends, Moves, Forgets
<1>2. at'[p] = how /\ login'[p] = NoLogin
  BY <1>1 DEF LInv
<1>3. Left(p)' = 0
  BY <1>2, Ranks DEF Left
<1>4. Left(p) > 0
  <2>1. CASE at[p] = "request"
    <3>1. login[p] \in {beginPasswordLogin, AwaitsCode, Answered}
      BY <2>1 DEF LInv, LoginInv, Machine
    <3> QED BY <2>1, <3>1, RequestRanks, MachinesDiffer DEF Left
  <2>2. CASE at[p] # "request"
    BY <2>2, Ranks DEF Left, LInv, Label, Awaiting, Saving
  <2> QED BY <2>1, <2>2
<1>5. LoginInv(p)'
  BY <1>2 DEF LoginInv, Ending
<1>6. Left(p)' < Left(p)
  BY <1>3, <1>4
<1> QED BY <1>1, <1>2, <1>5, <1>6 DEF Advances, Machine, Label

\* A run moves on to a label of a lower rank and keeps its machine, or begins anew.
LEMMA MovesLower ==
  ASSUME LInv, NEW p \in Process, NEW label \in Label \ {"request", "code"}, Moves(p, label),
         login' \in {login, [login EXCEPT ![p] = NoLogin]},
         \/ at[p] = "off" /\ label \in {"loading", "ask", "choose", "url", "checking", "running"}
         \/ at[p] \in {"loading", "ask"} /\ label = "choose"
         \/ at[p] \in {"choose", "request", "code"} /\ label = "verify"
         \/ at[p] = "verify" /\ label \in {"devices", "writing"}
         \/ at[p] = "devices" /\ label = "trmnl"
         \/ at[p] \in {"trmnl", "url"} /\ label = "writing"
         \/ at[p] = "writing" /\ label = "flushing"
         \/ at[p] = "flushing" /\ label = "renaming"
         \/ at[p] = "renaming" /\ label \in {"test", "closing"}
  PROVE  Advances(p)
<1>1. at' = [at EXCEPT ![p] = label] /\ at'[p] = label
  BY DEF Moves, LInv
<1>2. login' = [login EXCEPT ![p] = login'[p]] /\ login'[p] \in Machine
  BY DEF LInv, Machine
<1>3. LoginInv(p)'
  BY <1>1 DEF LoginInv
<1>4. Left(p)' < Left(p)
  <2>1. CASE at[p] = "request"
    <3>1. login[p] \in {beginPasswordLogin, AwaitsCode, Answered}
      BY <2>1 DEF LInv, LoginInv, Machine
    <3>2. Left(p) \in {8, 10, 11}
      BY <2>1, <3>1, RequestRanks, MachinesDiffer DEF Left
    <3>3. Left(p)' = 7
      BY <1>1, <2>1, Ranks DEF Left
    <3> QED BY <3>2, <3>3
  <2>2. CASE at[p] # "request"
    BY <1>1, <2>2, Ranks DEF Left
  <2> QED BY <2>1, <2>2
<1> QED BY <1>1, <1>2, <1>3, <1>4 DEF Advances

\* The three transitions that lead to a request, and the question for the code.
LEMMA RequestLower ==
  ASSUME LInv, NEW p \in Process, NEW machine \in Machine, NEW label \in {"request", "code"},
         Moves(p, label), login' = [login EXCEPT ![p] = machine],
         \/ at[p] = "choose" /\ label = "request" /\ machine = beginPasswordLogin
         \/ at[p] = "request" /\ login[p] = beginPasswordLogin /\ label = "request"
              /\ machine = AwaitsCode
         \/ at[p] = "request" /\ login[p] = AwaitsCode /\ label = "code"
              /\ machine = AwaitsCode
         \/ at[p] = "code" /\ label = "request" /\ machine = Answered
  PROVE  Advances(p)
<1>1. at' = [at EXCEPT ![p] = label] /\ at'[p] = label /\ login'[p] = machine
  BY DEF Moves, LInv
<1>2. LoginInv(p)'
  BY <1>1, MachinesDiffer DEF LoginInv
<1>3. Left(p)' < Left(p)
  BY <1>1, RequestRanks, Ranks, MachinesDiffer DEF Left
<1>4. login' = [login EXCEPT ![p] = login'[p]] /\ login'[p] \in Machine /\ at'[p] \in Label
  BY <1>1 DEF Label, Awaiting
<1> QED BY <1>1, <1>2, <1>3, <1>4 DEF Advances

\* The machine is driven with the events that it expects, and no others.
LEMMA DrivesLower ==
  ASSUME LInv, NEW p \in Process, LoginAnswers(p) \/ CodeIsGiven(p)
  PROVE  Advances(p)
<1>1. CASE CodeIsGiven(p)
  <2>1. at[p] = "code" /\ login[p] = AwaitsCode
    BY <1>1 DEF CodeIsGiven, LInv, LoginInv
  <2>2. advance(login[p].phase, "email-code", NoResponse) = Answered
    BY <2>1, MachinesDiffer DEF advance, Answered
  <2>3. Moves(p, "request") /\ login' = [login EXCEPT ![p] = Answered]
    BY <1>1, <2>2, MachinesDiffer DEF CodeIsGiven, Drives
  <2> QED BY <2>1, <2>3, RequestLower DEF Machine
<1>2. CASE LoginAnswers(p)
  <2>1. PICK response \in Response :
          Drives(p, advance(login[p].phase, "login-result", response))
    BY <1>2 DEF LoginAnswers
  <2>2. at[p] = "request" /\ login[p] \in {beginPasswordLogin, Answered}
    BY <1>2, MachinesDiffer DEF LoginAnswers, LInv, LoginInv, Machine
  <2> DEFINE transition == advance(login[p].phase, "login-result", response)
  <2>3. \/ transition.phase = "authenticated"
        \/ transition.phase = "failed" /\ transition.failure # "unexpected-event"
        \/ transition = AwaitsCode /\ login[p] = beginPasswordLogin
    BY <2>2, MachinesDiffer
       DEF advance, afterFirstLogin, Authenticated, fail, Transition
  <2> HIDE DEF transition
  <2>4. CASE transition.phase = "authenticated"
    <3>1. Moves(p, "verify") /\ login' = [login EXCEPT ![p] = NoLogin]
      BY <2>1, <2>4 DEF Drives, HasToken, transition
    <3> QED BY <2>2, <3>1, MovesLower DEF Label, Awaiting
  <2>5. CASE transition.phase = "failed" /\ transition.failure # "unexpected-event"
    <3>1. Ends(p, "failed")
      BY <2>1, <2>5 DEF Drives, transition
    <3> QED BY <2>2, <3>1, EndsLower DEF Ending
  <2>6. CASE transition = AwaitsCode /\ login[p] = beginPasswordLogin
    <3>1. Moves(p, "request") /\ login' = [login EXCEPT ![p] = AwaitsCode]
      BY <2>1, <2>6, MachinesDiffer DEF Drives, transition
    <3> QED BY <2>2, <2>6, <3>1, RequestLower DEF Machine
  <2> QED BY <2>3, <2>4, <2>5, <2>6
<1> QED BY <1>1, <1>2

LEMMA StepLower ==
  ASSUME LInv, NEW p \in Process, RunStep(p)
  PROVE  Advances(p)
<1>1. CASE at[p] \notin Ending /\ \E how \in Ending \ {"stalled"} : Ends(p, how)
  BY <1>1, EndsLower
<1>2. CASE Beginning(p)
  <2>1. CASE at[p] = "off" /\ login' = login
             /\ \E label \in {"loading", "ask", "choose", "url", "checking", "running"} : Moves(p, label)
    BY <2>1, MovesLower DEF Label, Awaiting
  <2> QED BY <1>1, <1>2, <2>1
          DEF Beginning, BeginsSetup, BeginsReauth, BeginsWebhook, BeginsDoctor,
              BeginsBridge, Begins, Keeps, Ending
<1>3. CASE SignsIn(p)
  BY <1>3, RequestLower DEF SignsIn, Machine
<1>4. CASE LoginAnswers(p) \/ CodeIsGiven(p)
  BY <1>4, DrivesLower
<1>5. CASE CodeIsSent(p)
  <2>1. at[p] = "request" /\ login[p] = AwaitsCode
    BY <1>5, MachinesDiffer DEF CodeIsSent, LInv, LoginInv, Machine
  <2>2. Moves(p, "code") /\ login' = login
    BY <1>5, <2>1, MachinesDiffer DEF CodeIsSent, Keeps
  <2>3. login' = [login EXCEPT ![p] = AwaitsCode]
    BY <2>1, <2>2 DEF LInv
  <2> QED BY <2>1, <2>2, <2>3, RequestLower DEF Machine
<1>6. CASE \/ LoadsConfig(p) /\ Ends(p, "failed")
           \/ CloudRefuses(p) \/ Concludes(p) \/ Examines(p) \/ StopsBridge(p) \/ Cancels(p)
           \/ Killed(p)
  BY <1>1, <1>6
     DEF LoadsConfig, CloudRefuses, Concludes, Examines, StopsBridge, Cancels, Killed, Ending, Awaiting
<1>7. CASE (LoadsConfig(p) /\ ~ Ends(p, "failed")) \/ Replaces(p) \/ PastesToken(p) \/ TokenWorks(p)
  BY <1>7, MovesLower
     DEF LoadsConfig, Replaces, PastesToken, HasToken, TokenWorks, Keeps, Label, Awaiting
<1>8. CASE TokenIsPatched(p) \/ PrintersChosen(p) \/ WizardSaves(p) \/ UrlIsGiven(p)
  <2>1. CASE /\ login' = login
             /\ \/ at[p] = "verify" /\ Moves(p, "writing")
                \/ at[p] = "devices" /\ Moves(p, "trmnl")
                \/ at[p] \in {"trmnl", "url"} /\ Moves(p, "writing")
    BY <2>1, MovesLower DEF Label, Awaiting, Saving
  <2> QED BY <1>1, <1>8, <2>1
          DEF TokenIsPatched, PrintersChosen, WizardSaves, UrlIsGiven, Saves, Ending
<1>9. CASE Writes(p) \/ Flushes(p) \/ Renames(p)
  BY <1>9, MovesLower DEF Writes, Flushes, Renames, Keeps, Label, Awaiting, Saving
<1>10. CASE WriteFails(p)
  <2>1. at' = [at EXCEPT ![p] = "failed"] /\ login' = [login EXCEPT ![p] = NoLogin]
        /\ at[p] \in Saving
    BY <1>10 DEF WriteFails, Moves, Forgets
  <2>2. at'[p] = "failed" /\ login'[p] = NoLogin
    BY <2>1 DEF LInv
  <2>3. Left(p)' = 0 /\ Left(p) > 0
    BY <2>1, <2>2, Ranks DEF Left, Saving, Ending
  <2>4. Left(p)' < Left(p)
    BY <2>3
  <2> QED BY <2>1, <2>2, <2>4 DEF Advances, LoginInv, Label, Machine, Ending
<1> QED BY <1>2, <1>3, <1>4, <1>5, <1>6, <1>7, <1>8, <1>9, <1>10 DEF RunStep, Continues

\* The part of a step that a run and its login have.
LoginStep ==
  \A p \in Process : <<at[p], login[p]>>' # <<at[p], login[p]>> => Left(p)' < Left(p)

LEMMA NextLower ==
  ASSUME LInv, [SetupNext]_setupVars
  PROVE  LInv' /\ LoginStep
<1>1. CASE HandStep \/ UNCHANGED setupVars
  <2>1. UNCHANGED <<at, login>>
    BY <1>1 DEF HandStep, HandDelete, HandChange, HandAppend, Edited, setupVars, runVars
  <2> QED BY <2>1 DEF LInv, LoginInv, LoginStep
<1>2. ASSUME NEW p \in Process, RunStep(p)
      PROVE  LInv' /\ LoginStep
  BY <1>2, StepLower, AdvancesKeeps DEF Advances, LoginStep
<1> QED BY <1>1, <1>2 DEF SetupNext

LEMMA LoginSound == SetupSpec => [][LoginStep]_setupVars /\ []LInv
<1>1. SetupInit => LInv
  BY DEF SetupInit, LInv, LoginInv, Label, Machine
<1>2. LInv /\ [SetupNext]_setupVars => LInv' /\ LoginStep
  BY NextLower
<1> QED BY <1>1, <1>2, PTL DEF SetupSpec

\* cloud-session.ts:138-175 and auth.ts:143-173: the loop and the machine that it
\* drives never lose step, so the errors for that case are never raised.
THEOREM InStep == SetupSpec => []NeverOutOfStep
<1>1. LInv => NeverOutOfStep
  BY DEF LInv, Label, NeverOutOfStep, Awaiting, Saving, Ending
<1> QED BY <1>1, LoginSound, PTL

\* auth.ts:158: every step of a command brings it nearer to its end, at most 14 steps
\* away, however many other commands there are.
THEOREM ShortRuns == SetupSpec => RunsAreShort
<1>1. SetupSpec => [][LoginStep]_setupVars
  BY LoginSound, PTL
<1> QED BY <1>1 DEF LoginStep, RunsAreShort
=============================================================================

----------------------------- MODULE HostedTier -----------------------------
(***************************************************************************)
(* The hosted tier: the tables accounts, screens and trmnl_installations,  *)
(* and everything of the Worker that writes them -- the cron's batches     *)
(* (hosted/src/cycle.ts), TRMNL's install and uninstall (trmnl.ts) and the *)
(* setup page's requests (routes.ts).  There are no transactions: every    *)
(* statement of store-neon.ts is a step of its own, and requests and cron  *)
(* invocations interleave between statements and die between them.         *)
(*                                                                         *)
(* An installation is one TRMNL access token; its row comes and goes once. *)
(* A Bambu token is the region it was minted in.  A screen is what it says *)
(* about its writer and age, the only things dueAccounts looks at.  The    *)
(* collector appears by its writes: what it does itself is in Collector.   *)
(***************************************************************************)
EXTENDS Naturals, Sequences, FiniteSets

CONSTANTS
  Install,     \* installations (access tokens TRMNL hands out)
  Settled,     \* bound: those set up before, that make no requests any more
  Request,     \* requests served at the same time
  Cron,        \* cron invocations running at the same time
  BatchLimit,  \* MAX_ACCOUNTS_PER_CYCLE
  MaxId        \* bound: account ids ever generated

ASSUME HostedAssumption ==
  /\ Settled \subseteq Install /\ IsFiniteSet(Settled)
  /\ BatchLimit \in Nat \ {0}
  /\ MaxId \in Nat /\ MaxId >= Cardinality(Settled)
  /\ 0 \notin Install

Region == {"global", "china"}
Id == 1 .. MaxId
None == 0
Placeholder == "placeholder"

VARIABLES
  install,  \* row of trmnl_installations: "new", "present" or "removed"
  link,     \* its account_id, or None
  account,  \* rows of accounts
  serviced, \* the accounts whose last_serviced_at is not null
  nextId,   \* the next fresh account id
  screen,   \* rows of screens: "none", "live" (the collector's, younger than
            \* DEFER_TO_RENDER_WITHIN_MS) or "stale"
  turn,     \* the ids of accounts, ORDER BY last_serviced_at, created_at, id
  request,  \* requests under way
  cron      \* the accounts a cron invocation has yet to service

queue == <<serviced, turn>>
rows == <<install, link, account, nextId, screen, queue>>
vars == <<rows, request, cron>>

NoAccount == [owner |-> None, region |-> "none", token |-> "none",
              flagged |-> FALSE, printers |-> FALSE]
Idle == [phase |-> "none", install |-> None, region |-> None, account |-> None]

Row == [owner : Install, region : Region, token : Region \cup {Placeholder},
        flagged : BOOLEAN, printers : BOOLEAN]

Exists(a) == account[a] # NoAccount
Owned(i) == {a \in Id : Exists(a) /\ account[a].owner = i}

\* Where a request is: before the read of its account, or before the statement
\* it is named for.
Phase == {"create", "session", "printers", "deletion", "signin", "token", "list",
          "link", "delete", "cascade", "remove"}

TypeOK ==
  /\ install \in [Install -> {"new", "present", "removed"}]
  /\ link \in [Install -> Id \cup {None}]
  /\ account \in [Id -> Row \cup {NoAccount}]
  /\ nextId \in 1 .. MaxId + 1
  /\ screen \in [Id -> {"none", "live", "stale"}]
  /\ turn \in Seq(Id)
  /\ {turn[k] : k \in DOMAIN turn} = {a \in Id : Exists(a)}
  /\ serviced \subseteq {a \in Id : Exists(a)}
  /\ DOMAIN request = Request
  /\ \A r \in Request : request[r] # Idle =>
       request[r] \in [phase : Phase, install : Install, region : Region,
                       account : Id \cup {None}]
  /\ cron \in [Cron -> Seq(Id)]

\* The settled installations have the first accounts, waiting for their turn.
First == 1 .. Cardinality(Settled)

Init ==
  \E owner \in [First -> Settled] :
    /\ \A a, b \in First : owner[a] = owner[b] => a = b
    /\ \A i \in Settled : \E a \in First : owner[a] = i
    /\ install = [i \in Install |-> IF i \in Settled THEN "present" ELSE "new"]
    /\ link = [i \in Install |->
                IF i \in Settled THEN CHOOSE a \in First : owner[a] = i ELSE None]
    /\ account = [a \in Id |->
         IF a \in First
         THEN [owner |-> owner[a], region |-> "global", token |-> "global",
               flagged |-> FALSE, printers |-> TRUE]
         ELSE NoAccount]
    /\ nextId = Cardinality(Settled) + 1
    /\ screen = [a \in Id |-> "none"]
    /\ serviced = {}
    /\ turn = [a \in First |-> a]
    /\ request = [r \in Request |-> Idle]
    /\ cron = [c \in Cron |-> <<>>]

-----------------------------------------------------------------------------
(* Statements of the store. *)

\* deleteAccount: the screen goes by cascade, the link is set to null.
DeleteAccount(a) ==
  /\ account' = [account EXCEPT ![a] = NoAccount]
  /\ screen' = [screen EXCEPT ![a] = "none"]
  /\ serviced' = serviced \ {a}
  /\ turn' = SelectSeq(turn, LAMBDA b : b # a)
  /\ link' = [i \in Install |-> IF link[i] = a THEN None ELSE link[i]]

\* An UPDATE of accounts that finds no row changes nothing.
UpdateAccount(a, row) ==
  account' = IF Exists(a) THEN [account EXCEPT ![a] = row] ELSE account

\* Mutant: a screen is stored for whoever asks (no foreign key).
WriteScreenAnyway(a, kind) == screen' = [screen EXCEPT ![a] = kind]

\* writeScreen: an upsert, which fails when the account has gone.
WriteScreen(a, kind) ==
  screen' = IF Exists(a) THEN [screen EXCEPT ![a] = kind] ELSE screen

\* Never serviced accounts come first, the older before the younger.
Enqueued(a) ==
  SelectSeq(turn, LAMBDA b : b \notin serviced) \o <<a>>
    \o SelectSeq(turn, LAMBDA b : b \in serviced)

-----------------------------------------------------------------------------
(* Requests: the first read, the reads of identify, the writes. *)

Done(r) == request' = [request EXCEPT ![r] = Idle]

\* On to the next statement, about account a.
Goes(r, phase, a) ==
  request' = [request EXCEPT ![r] =
    [phase |-> phase, install |-> @.install, region |-> @.region, account |-> a]]

Begin(r, phase, i, g) ==
  request' = [request EXCEPT ![r] =
    [phase |-> phase, install |-> i, region |-> g, account |-> link[i]]]

\* A request of the setup page reads its installation; one that finds none is
\* refused there.
SetupRequest(r, phase, i, g) ==
  /\ request[r] = Idle
  /\ install[i] = "present"
  /\ Begin(r, phase, i, g)
  /\ UNCHANGED <<rows, cron>>

\* uninstall: what it deletes is the account linked at this moment.
UninstallRequest(r, i) ==
  /\ request[r] = Idle
  /\ install[i] = "present"
  /\ Begin(r, IF link[i] = None THEN "remove" ELSE "cascade", i, "global")
  /\ UNCHANGED <<rows, cron>>

\* install: a token already handed to us ends at its page.
InstallRequest(r, i) ==
  /\ request[r] = Idle
  /\ install[i] = "new"
  /\ Begin(r, "create", i, "global")
  /\ UNCHANGED <<rows, cron>>

\* createInstallation; the second of two presses violates the unique tag.
Creates(r) ==
  /\ request[r].phase = "create"
  /\ LET i == request[r].install IN
     install' = IF install[i] = "new" THEN [install EXCEPT ![i] = "present"] ELSE install
  /\ Done(r)
  /\ UNCHANGED <<link, account, nextId, screen, queue, cron>>

\* identify: the linked account, or else the one with the owner tag.
Identified(i, linked) ==
  IF linked # None THEN (IF Exists(linked) THEN linked ELSE None)
  ELSE IF Owned(i) = {} THEN None ELSE CHOOSE a \in Owned(i) : TRUE

\* postPrinters, deleteAccount: the account is read; without one they end.
Identifies(r) ==
  /\ request[r].phase \in {"printers", "deletion"}
  /\ LET a == Identified(request[r].install, request[r].account) IN
     \/ a = None /\ Done(r)
     \/ a # None /\ request[r].phase = "printers" /\ Goes(r, "list", a)
     \/ a # None /\ request[r].phase = "deletion" /\ Goes(r, "delete", a)
  /\ UNCHANGED <<rows, cron>>

\* postSession: likewise, but a sign-in for the other region is refused.
IdentifiesForSignIn(r) ==
  /\ request[r].phase = "session"
  /\ LET a == Identified(request[r].install, request[r].account)
         refused == a # None /\ account[a].region # request[r].region IN
     \/ refused /\ Done(r)
     \/ ~ refused /\ a = None /\ Goes(r, "signin", None)
     \/ ~ refused /\ a # None /\ Goes(r, "token", a)
  /\ UNCHANGED <<rows, cron>>

\* Mutant: an insert that finds the owner tag taken goes on with that account.
InsertsOrFinds(r) ==
  /\ request[r].phase = "signin"
  /\ nextId <= MaxId
  /\ LET q == request[r] IN
     IF Owned(q.install) # {}
     THEN /\ Goes(r, "token", CHOOSE a \in Owned(q.install) : TRUE)
          /\ UNCHANGED <<account, turn, nextId>>
     ELSE /\ account' = [account EXCEPT ![nextId] =
               [owner |-> q.install, region |-> q.region, token |-> Placeholder,
                flagged |-> FALSE, printers |-> FALSE]]
          /\ turn' = Enqueued(nextId)
          /\ nextId' = nextId + 1
          /\ Goes(r, "token", nextId)
  /\ UNCHANGED <<install, link, screen, serviced, cron>>

\* Mutant: owner tags are not unique.
InsertsAgain(r) ==
  /\ request[r].phase = "signin"
  /\ nextId <= MaxId
  /\ LET q == request[r] IN
     /\ account' = [account EXCEPT ![nextId] =
          [owner |-> q.install, region |-> q.region, token |-> Placeholder,
           flagged |-> FALSE, printers |-> FALSE]]
     /\ turn' = Enqueued(nextId)
     /\ nextId' = nextId + 1
     /\ Goes(r, "token", nextId)
  /\ UNCHANGED <<install, link, screen, serviced, cron>>

\* completeSignIn has answered, createFor: an account with a placeholder for a
\* token; a second one for the same installation violates the unique owner tag
\* and fails the request.
Inserts(r) ==
  /\ request[r].phase = "signin"
  /\ nextId <= MaxId
  /\ LET q == request[r] IN
     \/ /\ Owned(q.install) = {}
        /\ account' = [account EXCEPT ![nextId] =
             [owner |-> q.install, region |-> q.region, token |-> Placeholder,
              flagged |-> FALSE, printers |-> FALSE]]
        /\ turn' = Enqueued(nextId)
        /\ nextId' = nextId + 1
        /\ Goes(r, "token", nextId)
     \/ /\ Owned(q.install) # {}
        /\ Done(r)
        /\ UNCHANGED <<account, turn, nextId>>
  /\ UNCHANGED <<install, link, screen, serviced, cron>>

\* replaceToken, after completeSignIn or createFor; it also clears the flag.
StoresToken(r) ==
  /\ request[r].phase = "token"
  /\ LET q == request[r] IN
     UpdateAccount(q.account, [account[q.account] EXCEPT !.token = q.region,
                                                         !.flagged = FALSE])
  /\ Done(r)
  /\ UNCHANGED <<install, link, nextId, screen, queue, cron>>

\* listForAccount: the token that was read is refused.
Marks(r) ==
  /\ request[r].phase = "list"
  /\ LET a == request[r].account IN
     UpdateAccount(a, [account[a] EXCEPT !.flagged = TRUE])
  /\ Done(r)
  /\ UNCHANGED <<install, link, nextId, screen, queue, cron>>

\* The list cannot be had, which says nothing of the token, or the choice is too
\* long or names a printer that is not on the list.
TurnsAway(r) ==
  /\ request[r].phase = "list"
  /\ Done(r)
  /\ UNCHANGED <<rows, cron>>

\* The choice stands: replacePrinters.
Chooses(r) ==
  /\ request[r].phase = "list"
  /\ LET a == request[r].account IN
     UpdateAccount(a, [account[a] EXCEPT !.printers = TRUE])
  /\ Goes(r, "link", request[r].account)
  /\ UNCHANGED <<install, link, nextId, screen, queue, cron>>

\* linkInstallationAccount, which fails when the account has gone meanwhile.
Links(r) ==
  /\ request[r].phase = "link"
  /\ LET q == request[r] IN
     link' = IF install[q.install] = "present" /\ Exists(q.account)
             THEN [link EXCEPT ![q.install] = q.account] ELSE link
  /\ Done(r)
  /\ UNCHANGED <<install, account, nextId, screen, queue, cron>>

\* deleteAccount of routes.ts, and the first statement of uninstall.
Deletes(r) ==
  /\ request[r].phase \in {"delete", "cascade"}
  /\ DeleteAccount(request[r].account)
  /\ \/ request[r].phase = "delete" /\ Done(r)
     \/ request[r].phase = "cascade" /\ Goes(r, "remove", None)
  /\ UNCHANGED <<install, nextId, cron>>

\* The last statement of uninstall.
Removes(r) ==
  /\ request[r].phase = "remove"
  /\ install' = [install EXCEPT ![request[r].install] = "removed"]
  /\ link' = [link EXCEPT ![request[r].install] = None]
  /\ Done(r)
  /\ UNCHANGED <<account, nextId, screen, queue, cron>>

\* A sign-in that fails, a statement that throws, a Worker that dies.
Dies(r) ==
  /\ request[r] # Idle
  /\ Done(r)
  /\ UNCHANGED <<rows, cron>>

-----------------------------------------------------------------------------
(* The cron. *)

Prefix(s) == SubSeq(s, 1, IF Len(s) < BatchLimit THEN Len(s) ELSE BatchLimit)
Unflagged == SelectSeq(turn, LAMBDA a : ~ account[a].flagged)
Member(s) == {s[k] : k \in DOMAIN s}

\* Mutant: an account something fresher has rendered keeps its turn.
ClaimsOnlyStale(c) ==
  /\ cron[c] = <<>>
  /\ Unflagged # <<>>
  /\ LET due == Prefix(Unflagged)
         stale == SelectSeq(due, LAMBDA a : screen[a] # "live") IN
     /\ turn' = SelectSeq(turn, LAMBDA a : a \notin Member(stale)) \o stale
     /\ serviced' = serviced \cup Member(stale)
     /\ cron' = [cron EXCEPT ![c] = stale]
  /\ UNCHANGED <<install, link, account, nextId, screen, request>>

\* dueAccounts: those serviced longest ago take their turn; of them, the ones
\* something fresher has rendered are left alone.
Claims(c) ==
  /\ cron[c] = <<>>
  /\ Unflagged # <<>>
  /\ LET due == Prefix(Unflagged) IN
     /\ turn' = SelectSeq(turn, LAMBDA a : a \notin Member(due)) \o due
     /\ serviced' = serviced \cup Member(due)
     /\ cron' = [cron EXCEPT ![c] = SelectSeq(due, LAMBDA a : screen[a] # "live")]
  /\ UNCHANGED <<install, link, account, nextId, screen, request>>

\* On to the next account of the batch.
NextOf(c) == cron' = [cron EXCEPT ![c] = Tail(@)]

\* runCycle: the cloud refuses the token.
MarksRefused(c) ==
  /\ cron[c] # <<>>
  /\ LET a == Head(cron[c]) IN UpdateAccount(a, [account[a] EXCEPT !.flagged = TRUE])
  /\ NextOf(c)
  /\ UNCHANGED <<install, link, nextId, screen, queue, request>>

\* runCycle: anything else is rendered and stored, however old the claim is.
WritesScreen(c) ==
  /\ cron[c] # <<>>
  /\ WriteScreen(Head(cron[c]), "stale")
  /\ NextOf(c)
  /\ UNCHANGED <<install, link, account, nextId, queue, request>>

\* The token does not open, the poll throws, the payload is too large or the
\* statement fails: the failure is contained and the batch goes on.
FailsOne(c) ==
  /\ cron[c] # <<>>
  /\ NextOf(c)
  /\ UNCHANGED <<rows, request>>

\* The isolate is killed; the rest of the batch has had its turn.
Killed(c) ==
  /\ cron[c] # <<>>
  /\ cron' = [cron EXCEPT ![c] = <<>>]
  /\ UNCHANGED <<rows, request>>

-----------------------------------------------------------------------------
(* The collector's writes, and time. *)

CollectorWrites(a) ==
  /\ Exists(a)
  /\ account[a].printers
  /\ screen[a] # "live"
  /\ WriteScreen(a, "live")
  /\ UNCHANGED <<install, link, account, nextId, queue, request, cron>>

Ages(a) ==
  /\ screen[a] = "live"
  /\ screen' = [screen EXCEPT ![a] = "stale"]
  /\ UNCHANGED <<install, link, account, nextId, queue, request, cron>>

-----------------------------------------------------------------------------

Arrives(r) ==
  \E i \in Install \ Settled :
    \/ \E g \in Region : SetupRequest(r, "session", i, g)
    \/ \E phase \in {"printers", "deletion"} : SetupRequest(r, phase, i, "global")
    \/ UninstallRequest(r, i)
    \/ InstallRequest(r, i)

RequestStep(r) ==
  \/ Arrives(r) \/ Creates(r) \/ Identifies(r) \/ IdentifiesForSignIn(r)
  \/ Inserts(r) \/ StoresToken(r) \/ Marks(r) \/ Chooses(r) \/ Links(r)
  \/ TurnsAway(r) \/ Deletes(r) \/ Removes(r) \/ Dies(r)

CycleStep(c) == MarksRefused(c) \/ WritesScreen(c) \/ FailsOne(c) \/ Killed(c)

Next ==
  \/ \E r \in Request : RequestStep(r)
  \/ \E c \in Cron : Claims(c) \/ CycleStep(c)
  \/ \E a \in Id : CollectorWrites(a) \/ Ages(a)

Spec == Init /\ [][Next]_vars

\* The cron is triggered every five minutes and a cycle comes to an end, if only
\* by its request timeouts.  No request, write or success is owed.
FairSpec ==
  /\ Spec
  /\ \A c \in Cron : WF_vars(Claims(c)) /\ WF_vars(CycleStep(c))

-----------------------------------------------------------------------------
(* Properties. *)

\* routes.ts:261-263, "an account whose token was minted somewhere it will never be
\* presented": whatever sign-ins for both regions overlap, with each other and
\* with deletions, an account keeps a token of its own region.
TokenOfRegion ==
  \A a \in Id : Exists(a) => account[a].token \in {Placeholder, account[a].region}

\* An account of an installation is the one its requests find, also while the
\* link is being written, after a deletion, and with two sign-ins under way:
\* nobody is locked out of the account they have.
AccountIsReachable ==
  \A a \in Id : Exists(a) /\ install[account[a].owner] = "present" =>
    Identified(account[a].owner, link[account[a].owner]) = a

\* Deletion deletes: neither a cycle nor a request that began before leaves a
\* screen or a link to an account that is gone.
DeletionIsComplete ==
  \A a \in Id : ~ Exists(a) => screen[a] = "none" /\ \A i \in Install : link[i] # a

\* store.ts, "does not sit at the front of the queue starving everything behind
\* it": an account nothing else renders gets its cycle, whatever the collector
\* does for the others and however cycles fail.
StaleIsServiced ==
  \A a \in Id :
    Exists(a) /\ ~ account[a].flagged /\ screen[a] # "live"
      ~> \/ \E c \in Cron : a \in Member(cron[c])
         \/ ~ Exists(a) \/ account[a].flagged \/ screen[a] = "live"

\* trmnl.ts:242-245, "never an orphaned credential": with no request under way,
\* a token is kept only for an installation that is there.
NoOrphanedCredential ==
  (\A r \in Request : request[r] = Idle) =>
    \A a \in Id : Exists(a) => install[account[a].owner] = "present"
=============================================================================

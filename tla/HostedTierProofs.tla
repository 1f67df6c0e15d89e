-------------------------- MODULE HostedTierProofs --------------------------
(***************************************************************************)
(* What the hosted tier keeps, for any number of installations, requests   *)
(* and cron invocations: tokens match regions, accounts are reachable and  *)
(* deletions are complete.  The order of the queue plays no part here.     *)
(***************************************************************************)
EXTENDS HostedTier, FiniteSetTheorems, TLAPS

-----------------------------------------------------------------------------
(* The invariant, in parts. *)

RowsTyped ==
  /\ account \in [Id -> Row \cup {NoAccount}]
  /\ link \in [Install -> Id \cup {None}]
  /\ nextId \in Nat \ {0}
  /\ \A a \in Id : Exists(a) => a < nextId

Asks(r) == request[r] # Idle

RequestsTyped ==
  /\ DOMAIN request = Request
  /\ \A r \in Request : Asks(r) =>
       /\ request[r] \in [phase : Phase, install : Install, region : Region,
                          account : Id \cup {None}]
       /\ request[r].account < nextId
       /\ request[r].phase \in {"token", "list", "link", "delete", "cascade"}
            => request[r].account # None

\* One account an installation, as owner tags are unique.
OwnersDiffer ==
  \A a, b \in Id : Exists(a) /\ Exists(b) /\ account[a].owner = account[b].owner => a = b

\* A link leads to an account of its own installation.
LinksOwn ==
  \A i \in Install : link[i] # None =>
    Exists(link[i]) /\ account[link[i]].owner = i

\* What a request found belongs to its installation, as long as it is there.
RequestsOwn ==
  \A r \in Request : Asks(r) /\ request[r].account # None =>
    (Exists(request[r].account) =>
       account[request[r].account].owner = request[r].install)

\* A token about to be stored was minted in the account's region.
TokensFit ==
  \A r \in Request : Asks(r) /\ request[r].phase = "token" =>
    (Exists(request[r].account) =>
       account[request[r].account].region = request[r].region)

ScreensOwn == screen \in [Id -> {"none", "live", "stale"}]
              /\ \A a \in Id : ~ Exists(a) => screen[a] = "none"

Rows == RowsTyped /\ OwnersDiffer /\ LinksOwn /\ TokenOfRegion
Requests == RequestsTyped /\ RequestsOwn /\ TokensFit
IInv == Rows /\ Requests /\ ScreensOwn

-----------------------------------------------------------------------------

LEMMA Nothing == None \notin Id /\ NoAccount \notin Row
BY HostedAssumption DEF None, Id, NoAccount, Row

LEMMA RowFields ==
  ASSUME NEW row \in Row
  PROVE  /\ row.owner \in Install /\ row.region \in Region
         /\ row # NoAccount
         /\ \A g \in Region : [row EXCEPT !.token = g, !.flagged = FALSE] \in Row
         /\ [row EXCEPT !.flagged = TRUE] \in Row
         /\ [row EXCEPT !.printers = TRUE] \in Row
BY Nothing DEF Row

LEMMA InitInvariant == Init => IInv
<1> SUFFICES ASSUME Init PROVE IInv
  OBVIOUS
<1>1. PICK owner \in [First -> Settled] :
    /\ \A a, b \in First : owner[a] = owner[b] => a = b
    /\ \A i \in Settled : \E a \in First : owner[a] = i
    /\ link = [i \in Install |->
                IF i \in Settled THEN CHOOSE a \in First : owner[a] = i ELSE None]
    /\ account = [a \in Id |->
         IF a \in First
         THEN [owner |-> owner[a], region |-> "global", token |-> "global",
               flagged |-> FALSE, printers |-> TRUE]
         ELSE NoAccount]
    /\ nextId = Cardinality(Settled) + 1
    /\ screen = [a \in Id |-> "none"]
    /\ request = [r \in Request |-> Idle]
  BY DEF Init
<1>2. Cardinality(Settled) \in Nat /\ Settled \subseteq Install /\ First \subseteq Id
  BY HostedAssumption, FS_CardinalityType DEF First, Id
<1>3. \A a \in First : [owner |-> owner[a], region |-> "global", token |-> "global",
                        flagged |-> FALSE, printers |-> TRUE] \in Row
  BY <1>1, <1>2 DEF Row, Region
<1>4. \A i \in Settled : link[i] \in First /\ owner[link[i]] = i
  BY <1>1, <1>2
<1>5. \A a \in Id : Exists(a) => a \in First /\ account[a].owner = owner[a]
  BY <1>1 DEF Exists
<1>6. \A a \in First : Exists(a) /\ account[a].owner = owner[a]
  BY <1>1, <1>2, <1>3, Nothing DEF Exists
<1>7. RowsTyped
  <2>1. account \in [Id -> Row \cup {NoAccount}]
    BY <1>1, <1>3
  <2>2. link \in [Install -> Id \cup {None}]
    BY <1>1, <1>2, <1>4
  <2>3. \A a \in Id : Exists(a) => a < nextId
    BY <1>1, <1>2, <1>5 DEF First, Id
  <2> QED
    BY <1>1, <1>2, <2>1, <2>2, <2>3 DEF RowsTyped
<1>8. OwnersDiffer
  BY <1>1, <1>5 DEF OwnersDiffer
<1>9. LinksOwn
  BY <1>1, <1>2, <1>4, <1>6 DEF LinksOwn
<1>10. TokenOfRegion
  BY <1>1, <1>5 DEF TokenOfRegion
<1>11. Requests
  BY <1>1 DEF Requests, RequestsTyped, RequestsOwn, TokensFit, Asks
<1>12. ScreensOwn
  BY <1>1 DEF ScreensOwn
<1> QED
  BY <1>7, <1>8, <1>9, <1>10, <1>11, <1>12 DEF IInv, Rows

-----------------------------------------------------------------------------
(* What the statements do to the rows. *)

\* The accounts there are after a step were there before, or are new, and keep
\* their owner and their region.
AccountsKept ==
  /\ nextId' \in Nat /\ nextId <= nextId'
  /\ \A a \in Id : Exists(a)' /\ a < nextId =>
       /\ Exists(a)
       /\ account'[a].owner = account[a].owner
       /\ account'[a].region = account[a].region

\* An UPDATE that leaves owner and region alone, and a token that fits.
LEMMA UpdateKeeps ==
  ASSUME Rows, ScreensOwn, NEW a, NEW row, UpdateAccount(a, row),
         a \in Id /\ Exists(a) =>
           /\ row \in Row
           /\ row.owner = account[a].owner /\ row.region = account[a].region
           /\ row.token \in {Placeholder, row.region},
         UNCHANGED <<link, nextId, screen>>
  PROVE  Rows' /\ ScreensOwn' /\ AccountsKept
<1>1. CASE a \in Id /\ Exists(a)
  <2>1. account' = [account EXCEPT ![a] = row]
    BY <1>1 DEF UpdateAccount
  <2>2. row # NoAccount
    BY <1>1, Nothing
  <2>3. \A b \in Id : /\ Exists(b)' <=> Exists(b)
                      /\ account'[b].owner = account[b].owner
                      /\ account'[b].region = account[b].region
    BY <1>1, <2>1, <2>2 DEF Rows, RowsTyped, Exists
  <2>4. RowsTyped'
    BY <1>1, <2>1, <2>3 DEF Rows, RowsTyped
  <2>5. OwnersDiffer'
    BY <2>3 DEF Rows, OwnersDiffer
  <2>6. LinksOwn'
    BY <2>3 DEF Rows, RowsTyped, LinksOwn
  <2>7. TokenOfRegion'
    BY <1>1, <2>1, <2>3 DEF Rows, RowsTyped, TokenOfRegion
  <2>8. ScreensOwn' /\ AccountsKept
    BY <2>3 DEF Rows, RowsTyped, ScreensOwn, AccountsKept
  <2> QED
    BY <2>4, <2>5, <2>6, <2>7, <2>8 DEF Rows
<1>2. CASE ~ (a \in Id /\ Exists(a))
  <2>1. account' = account
    BY <1>2 DEF UpdateAccount, Rows, RowsTyped
  <2> QED
    BY <2>1 DEF Rows, RowsTyped, OwnersDiffer, LinksOwn, TokenOfRegion, Exists,
                ScreensOwn, AccountsKept
<1> QED
  BY <1>1, <1>2

LEMMA DeleteKeeps ==
  ASSUME Rows, ScreensOwn, NEW a \in Id, DeleteAccount(a), UNCHANGED nextId
  PROVE  Rows' /\ ScreensOwn' /\ AccountsKept
<1>1. \A b \in Id : /\ Exists(b)' <=> (Exists(b) /\ b # a)
                    /\ b # a => account'[b] = account[b]
  BY DEF DeleteAccount, Rows, RowsTyped, Exists
<1>2. RowsTyped'
  <2>1. account' \in [Id -> Row \cup {NoAccount}]
    BY DEF DeleteAccount, Rows, RowsTyped
  <2>2. link' \in [Install -> Id \cup {None}]
    BY DEF DeleteAccount, Rows, RowsTyped
  <2> QED
    BY <1>1, <2>1, <2>2 DEF Rows, RowsTyped
<1>3. OwnersDiffer' /\ TokenOfRegion'
  BY <1>1 DEF Rows, OwnersDiffer, TokenOfRegion
<1>4. LinksOwn'
  BY <1>1 DEF Rows, RowsTyped, LinksOwn, DeleteAccount
<1>5. ScreensOwn' /\ AccountsKept
  BY <1>1 DEF ScreensOwn, DeleteAccount, AccountsKept, Rows, RowsTyped
<1> QED
  BY <1>2, <1>3, <1>4, <1>5 DEF Rows

LEMMA RowsUnchanged ==
  ASSUME Rows, UNCHANGED <<account, link, nextId>>
  PROVE  Rows' /\ AccountsKept
BY DEF Rows, RowsTyped, OwnersDiffer, LinksOwn, TokenOfRegion, Exists, AccountsKept

LEMMA ScreensUnchanged ==
  ASSUME ScreensOwn, UNCHANGED <<account, screen>>
  PROVE  ScreensOwn'
BY DEF ScreensOwn, Exists

LEMMA WriteKeeps ==
  ASSUME Rows, ScreensOwn, NEW a, NEW kind \in {"live", "stale"}, WriteScreen(a, kind),
         UNCHANGED account
  PROVE  ScreensOwn'
BY DEF ScreensOwn, WriteScreen, Exists

\* Requests that end, and those that wait, hold what they held.
LEMMA RequestsWait ==
  ASSUME Rows, Requests, AccountsKept,
         request' = request \/ \E r \in Request : request' = [request EXCEPT ![r] = Idle]
  PROVE  Requests'
<1>1. DOMAIN request' = Request
  BY DEF Requests, RequestsTyped
<1>2. \A r \in Request : Asks(r)' => Asks(r) /\ request'[r] = request[r]
  BY DEF Asks, Requests, RequestsTyped
<1>3. \A a \in Id \cup {None} : a < nextId => a < nextId'
  BY HostedAssumption DEF Rows, RowsTyped, AccountsKept, Id, None
<1>4. RequestsTyped'
  BY <1>1, <1>2, <1>3 DEF Requests, RequestsTyped
<1>5. RequestsOwn' /\ TokensFit'
  BY <1>2, Nothing DEF Requests, RequestsTyped, RequestsOwn, TokensFit, AccountsKept
<1> QED
  BY <1>4, <1>5 DEF Requests

\* A request that goes on holds what the step gave it.
LEMMA RequestMoves ==
  ASSUME Rows, Requests, AccountsKept, NEW r \in Request, NEW q,
         request' = [request EXCEPT ![r] = q],
         q \in [phase : Phase, install : Install, region : Region,
                account : Id \cup {None}],
         q.account < nextId',
         q.phase \in {"token", "list", "link", "delete", "cascade"} => q.account # None,
         q.account # None /\ Exists(q.account)' =>
           account'[q.account].owner = q.install,
         q.phase = "token" /\ Exists(q.account)' =>
           account'[q.account].region = q.region
  PROVE  Requests'
<1>1. DOMAIN request' = Request /\ request'[r] = q
  BY DEF Requests, RequestsTyped
<1>2. \A s \in Request \ {r} : /\ Asks(s)' <=> Asks(s)
                               /\ request'[s] = request[s]
  BY DEF Asks, Requests, RequestsTyped
<1>3. \A a \in Id \cup {None} : a < nextId => a < nextId'
  BY HostedAssumption DEF Rows, RowsTyped, AccountsKept, Id, None
<1>4. RequestsTyped'
  BY <1>1, <1>2, <1>3 DEF Requests, RequestsTyped
<1>5. RequestsOwn'
  BY <1>1, <1>2, Nothing DEF Requests, RequestsTyped, RequestsOwn, AccountsKept
<1>6. TokensFit'
  BY <1>1, <1>2, Nothing DEF Requests, RequestsTyped, TokensFit, AccountsKept
<1> QED
  BY <1>4, <1>5, <1>6 DEF Requests

\* What identify returns is the installation's own account, or None.
LEMMA FoundIsOwn ==
  ASSUME IInv, NEW r \in Request, Asks(r),
         NEW a, a = Identified(request[r].install, request[r].account)
  PROVE  /\ a \in Id \cup {None} /\ a < nextId
         /\ a # None => /\ Exists(a) /\ account[a].owner = request[r].install
                       /\ a \in Id
<1>1. request[r].account \in Id \cup {None} /\ request[r].install \in Install
  BY DEF IInv, Requests, RequestsTyped
<1>2. CASE request[r].account # None /\ Exists(request[r].account)
  <2>1. a = request[r].account /\ a \in Id
    BY <1>1, <1>2 DEF Identified
  <2> QED
    BY <1>2, <2>1 DEF IInv, Requests, RequestsOwn, RequestsTyped
<1>3. CASE request[r].account # None /\ ~ Exists(request[r].account)
  BY <1>3 DEF Identified, IInv, Rows, RowsTyped, None
<1>4. CASE request[r].account = None /\ Owned(request[r].install) = {}
  BY <1>4 DEF Identified, IInv, Rows, RowsTyped, None
<1>5. CASE request[r].account = None /\ Owned(request[r].install) # {}
  <2>1. a \in Owned(request[r].install)
    BY <1>5 DEF Identified
  <2>2. a \in Id /\ Exists(a) /\ account[a].owner = request[r].install
    BY <2>1 DEF Owned
  <2> QED
    BY <2>2 DEF IInv, Rows, RowsTyped
<1> QED
  BY <1>2, <1>3, <1>4, <1>5

-----------------------------------------------------------------------------
(* The steps. *)

LEMMA ReadingSteps ==
  ASSUME IInv, NEW r \in Request,
         Arrives(r) \/ Identifies(r) \/ IdentifiesForSignIn(r) \/ TurnsAway(r) \/ Dies(r)
  PROVE  IInv'
<1>1. UNCHANGED <<account, link, nextId, screen>>
  BY DEF Arrives, SetupRequest, UninstallRequest, InstallRequest, Identifies,
         IdentifiesForSignIn, TurnsAway, Dies, rows
<1>2. Rows' /\ AccountsKept /\ ScreensOwn'
  BY <1>1, RowsUnchanged, ScreensUnchanged DEF IInv
<1>3. ASSUME NEW phase \in Phase, NEW i \in Install, NEW g \in Region,
             Begin(r, phase, i, g),
             phase \notin {"token", "list", "link", "delete", "cascade"}
               \/ (phase = "cascade" /\ link[i] # None)
      PROVE  Requests'
  <2> PICK q : q = [phase |-> phase, install |-> i, region |-> g, account |-> link[i]]
    OBVIOUS
  <2>1. link[i] \in Id \cup {None} /\ link[i] < nextId'
    BY <1>1 DEF IInv, Rows, RowsTyped, LinksOwn, None
  <2>3. q \in [phase : Phase, install : Install, region : Region,
               account : Id \cup {None}]
    BY <2>1
  <2>4. request' = [request EXCEPT ![r] = q]
    BY <1>3 DEF Begin
  <2>5. q.phase = phase /\ q.account = link[i] /\ q.install = i
    OBVIOUS
  <2>6. q.phase # "token"
    BY <1>3
  <2>7. q.phase \in {"token", "list", "link", "delete", "cascade"} => q.account # None
    BY <1>3
  <2>8. q.account # None /\ Exists(q.account)' => account'[q.account].owner = q.install
    BY <1>1, <2>5 DEF IInv, Rows, LinksOwn
  <2>9. q.account < nextId'
    BY <1>3, <2>1, <2>5
  <2> QED
    BY <1>2, <2>3, <2>4, <2>6, <2>7, <2>8, <2>9, RequestMoves DEF IInv
<1>4. ASSUME Arrives(r) PROVE Requests'
  <2>1. "global" \in Region /\ {"session", "printers", "deletion", "remove",
                                "cascade", "create"} \subseteq Phase
    BY DEF Region, Phase
  <2>2. PICK i \in Install \ Settled :
          \/ \E g \in Region : SetupRequest(r, "session", i, g)
          \/ \E phase \in {"printers", "deletion"} : SetupRequest(r, phase, i, "global")
          \/ UninstallRequest(r, i)
          \/ InstallRequest(r, i)
    BY <1>4 DEF Arrives
  <2>3. CASE \E g \in Region : SetupRequest(r, "session", i, g)
    <3>1. PICK g \in Region : Begin(r, "session", i, g)
      BY <2>3 DEF SetupRequest
    <3> QED BY <1>3, <2>1, <3>1
  <2>4. CASE \E phase \in {"printers", "deletion"} : SetupRequest(r, phase, i, "global")
    <3>1. PICK phase \in {"printers", "deletion"} : Begin(r, phase, i, "global")
      BY <2>4 DEF SetupRequest
    <3> QED BY <1>3, <2>1, <3>1
  <2>5. CASE UninstallRequest(r, i)
    <3>1. CASE link[i] = None
      BY <1>3, <2>1, <2>5, <3>1 DEF UninstallRequest
    <3>2. CASE link[i] # None
      BY <1>3, <2>1, <2>5, <3>2 DEF UninstallRequest
    <3> QED BY <3>1, <3>2
  <2>6. CASE InstallRequest(r, i)
    BY <1>3, <2>1, <2>6 DEF InstallRequest
  <2> QED
    BY <2>2, <2>3, <2>4, <2>5, <2>6
<1>5. ASSUME NEW phase \in Phase, NEW a, Asks(r), Goes(r, phase, a),
             a = None \/ a = Identified(request[r].install, request[r].account),
             phase \in {"token", "list", "link", "delete", "cascade"} => a # None,
             phase = "token" => account[a].region = request[r].region
      PROVE  Requests'
  <2> PICK q : q = [phase |-> phase, install |-> request[r].install,
                    region |-> request[r].region, account |-> a]
    OBVIOUS
  <2>1. request' = [request EXCEPT ![r] = q]
    BY <1>5 DEF Goes, IInv, Requests, RequestsTyped
  <2>2. /\ a \in Id \cup {None} /\ a < nextId
        /\ a # None => Exists(a) /\ account[a].owner = request[r].install
    BY <1>5, FoundIsOwn DEF IInv, Rows, RowsTyped, None
  <2>3. q \in [phase : Phase, install : Install, region : Region,
               account : Id \cup {None}]
    BY <1>5, <2>2 DEF IInv, Requests, RequestsTyped
  <2>4. /\ q.phase = phase /\ q.account = a /\ q.install = request[r].install
        /\ q.region = request[r].region
    OBVIOUS
  <2>5. q.account # None /\ Exists(q.account)' => account'[q.account].owner = q.install
    BY <1>1, <2>2, <2>4
  <2>6. q.phase = "token" /\ Exists(q.account)' => account'[q.account].region = q.region
    BY <1>1, <1>5, <2>4
  <2>7. q.account < nextId'
    BY <1>1, <1>5, <2>2, <2>4
  <2>8. q.phase \in {"token", "list", "link", "delete", "cascade"} => q.account # None
    BY <1>5, <2>4
  <2> QED
    BY <1>2, <2>1, <2>3, <2>5, <2>6, <2>7, <2>8, RequestMoves DEF IInv
<1>6. Done(r) => Requests'
  BY <1>2, RequestsWait DEF Done, IInv
<1>7. CASE Identifies(r)
  <2>1. Asks(r)
    BY <1>7 DEF Identifies, Asks, Idle
  <2> PICK a : a = Identified(request[r].install, request[r].account)
    OBVIOUS
  <2>2. \/ Done(r) \/ (a # None /\ Goes(r, "list", a))
        \/ (a # None /\ Goes(r, "delete", a))
    BY <1>7 DEF Identifies
  <2>3. {"list", "delete", "signin", "token"} \subseteq Phase
    BY DEF Phase
  <2>4. Requests'
    BY <1>5, <1>6, <2>1, <2>2, <2>3
  <2> QED
    BY <1>2, <2>4 DEF IInv
<1>8. CASE IdentifiesForSignIn(r)
  <2>1. Asks(r)
    BY <1>8 DEF IdentifiesForSignIn, Asks, Idle
  <2> PICK a : a = Identified(request[r].install, request[r].account)
    OBVIOUS
  <2>2. \/ Done(r) \/ Goes(r, "signin", None)
        \/ (a # None /\ account[a].region = request[r].region /\ Goes(r, "token", a))
    BY <1>8 DEF IdentifiesForSignIn
  <2>3. {"list", "delete", "signin", "token"} \subseteq Phase
    BY DEF Phase
  <2>4. Requests'
    BY <1>5, <1>6, <2>1, <2>2, <2>3
  <2> QED
    BY <1>2, <2>4 DEF IInv
<1>9. CASE TurnsAway(r) \/ Dies(r)
  BY <1>2, <1>6, <1>9 DEF TurnsAway, Dies, IInv
<1> QED
  BY <1>2, <1>4, <1>7, <1>8, <1>9 DEF IInv

LEMMA InsertSteps ==
  ASSUME IInv, NEW r \in Request, Inserts(r)
  PROVE  IInv'
<1>1. /\ Asks(r) /\ nextId \in Id
      /\ request[r].install \in Install /\ request[r].region \in Region
  BY DEF Inserts, Asks, Idle, IInv, Rows, RowsTyped, Requests, RequestsTyped, Id
<1>2. CASE Done(r) /\ UNCHANGED <<account, nextId>>
  <2>1. UNCHANGED <<account, link, nextId, screen>>
    BY <1>2 DEF Inserts
  <2>2. Rows' /\ AccountsKept /\ ScreensOwn'
    BY <2>1, RowsUnchanged, ScreensUnchanged DEF IInv
  <2>3. Requests'
    BY <1>2, <2>2, RequestsWait DEF Done, IInv
  <2> QED
    BY <2>2, <2>3 DEF IInv
<1>3. CASE Owned(request[r].install) = {} /\ ~ UNCHANGED nextId
  <2> PICK n : n = nextId
    OBVIOUS
  <2> PICK row : row = [owner |-> request[r].install, region |-> request[r].region,
                        token |-> Placeholder, flagged |-> FALSE, printers |-> FALSE]
    OBVIOUS
  <2>1. /\ account' = [account EXCEPT ![n] = row] /\ nextId' = n + 1
        /\ Goes(r, "token", n) /\ UNCHANGED <<link, screen>>
    BY <1>3 DEF Inserts
  <2>2. /\ row \in Row /\ row # NoAccount
        /\ row.owner = request[r].install /\ row.region = request[r].region
        /\ row.token = Placeholder
    <3>1. row \in Row
      BY <1>1 DEF Row
    <3>2. row # NoAccount
      BY <3>1, Nothing
    <3> QED
      BY <3>1, <3>2
  <2>3. ~ Exists(n) /\ n \in Id /\ n # None /\ n \in Nat
    BY <1>1, Nothing DEF IInv, Rows, RowsTyped
  <2>4. account'[n] = row /\ \A b \in Id : b # n => account'[b] = account[b]
    BY <2>1, <2>3 DEF IInv, Rows, RowsTyped
  <2>5. \A b \in Id : Exists(b)' <=> (Exists(b) \/ b = n)
    BY <2>2, <2>3, <2>4 DEF Exists
  <2>6. \A b \in Id : Exists(b) => account[b].owner # request[r].install
    BY <1>3 DEF Owned
  <2>7. RowsTyped'
    <3>1. account' \in [Id -> Row \cup {NoAccount}]
      BY <2>1, <2>2 DEF IInv, Rows, RowsTyped
    <3>2. \A b \in Id : Exists(b)' => b < nextId'
      BY <2>1, <2>3, <2>5 DEF IInv, Rows, RowsTyped, Id
    <3> QED
      BY <2>1, <2>3, <3>1, <3>2 DEF IInv, Rows, RowsTyped
  <2>8. OwnersDiffer'
    BY <2>2, <2>4, <2>5, <2>6 DEF IInv, Rows, OwnersDiffer
  <2>9. LinksOwn'
    <3>1. \A i \in Install : link[i] # None => link[i] \in Id /\ link[i] # n
      BY <2>3 DEF IInv, Rows, RowsTyped, LinksOwn
    <3> QED
      BY <2>1, <2>4, <2>5, <3>1 DEF IInv, Rows, LinksOwn
  <2>10. TokenOfRegion'
    BY <2>2, <2>4, <2>5 DEF IInv, Rows, TokenOfRegion
  <2>11. ScreensOwn'
    BY <2>1, <2>5 DEF IInv, ScreensOwn
  <2>12. AccountsKept
    BY <2>1, <2>3, <2>4, <2>5 DEF AccountsKept, IInv, Rows, RowsTyped, Id
  <2> PICK q : q = [phase |-> "token", install |-> request[r].install,
                    region |-> request[r].region, account |-> n]
    OBVIOUS
  <2>13. request' = [request EXCEPT ![r] = q]
    BY <2>1 DEF Goes, IInv, Requests, RequestsTyped
  <2>14. /\ q \in [phase : Phase, install : Install, region : Region,
                   account : Id \cup {None}]
         /\ q.account = n /\ q.install = row.owner /\ q.region = row.region
    BY <1>1, <2>2, <2>3 DEF Phase
  <2>15. q.account < nextId' /\ q.account # None
    BY <2>1, <2>3, <2>14
  <2>16. account'[q.account].owner = q.install /\ account'[q.account].region = q.region
    BY <2>4, <2>14
  <2>17. Requests'
    BY <2>12, <2>13, <2>14, <2>15, <2>16, RequestMoves DEF IInv
  <2> QED
    BY <2>7, <2>8, <2>9, <2>10, <2>11, <2>17 DEF IInv, Rows
<1>4. nextId' = nextId + 1 => ~ UNCHANGED nextId
  BY DEF IInv, Rows, RowsTyped
<1> QED
  BY <1>2, <1>3, <1>4 DEF Inserts

LEMMA WritingSteps ==
  ASSUME IInv, NEW r \in Request,
         Creates(r) \/ StoresToken(r) \/ Marks(r) \/ Chooses(r) \/ Links(r)
           \/ Deletes(r) \/ Removes(r)
  PROVE  IInv'
<1>1. Asks(r)
  BY DEF Creates, StoresToken, Marks, Chooses, Links, Deletes, Removes, Asks, Idle
<1> PICK q : q = request[r]
  OBVIOUS
<1>2. /\ q.install \in Install /\ q.region \in Region
      /\ q.account \in Id \cup {None} /\ q.account < nextId
      /\ q.phase \in {"token", "list", "link", "delete", "cascade"} => q.account \in Id
  BY <1>1 DEF IInv, Requests, RequestsTyped
<1>3. Exists(q.account) /\ q.account \in Id =>
        /\ account[q.account] \in Row
        /\ account[q.account].token \in {Placeholder, account[q.account].region}
        /\ account[q.account].owner = q.install
        /\ q.phase = "token" => account[q.account].region = q.region
  BY <1>1, Nothing DEF IInv, Rows, RowsTyped, Exists, TokenOfRegion, Requests,
     RequestsOwn, TokensFit
<1>4. ASSUME Rows', AccountsKept, ScreensOwn', Done(r) PROVE IInv'
  BY <1>4, RequestsWait DEF Done, IInv
<1>5. ASSUME NEW row, UpdateAccount(q.account, row), UNCHANGED <<link, nextId, screen>>,
             q.account \in Id,
             Exists(q.account) =>
               /\ row \in Row
               /\ row.owner = account[q.account].owner
               /\ row.region = account[q.account].region
               /\ row.token \in {Placeholder, row.region}
      PROVE  Rows' /\ ScreensOwn' /\ AccountsKept
  BY <1>5, UpdateKeeps DEF IInv
<1>6. CASE Creates(r)
  <2>1. Rows' /\ AccountsKept /\ ScreensOwn'
    BY <1>6, RowsUnchanged, ScreensUnchanged DEF Creates, IInv
  <2> QED
    BY <1>4, <1>6, <2>1 DEF Creates
<1>7. CASE StoresToken(r)
  <2> PICK row : row = [account[q.account] EXCEPT !.token = q.region, !.flagged = FALSE]
    OBVIOUS
  <2>1. q.phase = "token" /\ UpdateAccount(q.account, row)
    BY <1>7 DEF StoresToken
  <2>2. Exists(q.account) =>
          /\ row \in Row
          /\ row.owner = account[q.account].owner
          /\ row.region = account[q.account].region
          /\ row.token = q.region
    BY <1>2, <1>3, <2>1 DEF Row
  <2>3. Rows' /\ ScreensOwn' /\ AccountsKept
    BY <1>2, <1>3, <1>5, <1>7, <2>1, <2>2 DEF StoresToken
  <2> QED
    BY <1>4, <1>7, <2>3 DEF StoresToken
<1>8. CASE Marks(r)
  <2> PICK row : row = [account[q.account] EXCEPT !.flagged = TRUE]
    OBVIOUS
  <2>1. q.phase = "list" /\ UpdateAccount(q.account, row)
    BY <1>8 DEF Marks
  <2>2. Exists(q.account) =>
          /\ row \in Row
          /\ row.owner = account[q.account].owner
          /\ row.region = account[q.account].region
          /\ row.token = account[q.account].token
    BY <1>2, <1>3, <2>1 DEF Row
  <2>3. Rows' /\ ScreensOwn' /\ AccountsKept
    BY <1>2, <1>3, <1>5, <1>8, <2>1, <2>2 DEF Marks
  <2> QED
    BY <1>4, <1>8, <2>3 DEF Marks
<1>9. CASE Chooses(r)
  <2> PICK row : row = [account[q.account] EXCEPT !.printers = TRUE]
    OBVIOUS
  <2>1. q.phase = "list" /\ UpdateAccount(q.account, row) /\ Goes(r, "link", q.account)
    BY <1>9 DEF Chooses
  <2>2. Exists(q.account) =>
          /\ row \in Row
          /\ row.owner = account[q.account].owner
          /\ row.region = account[q.account].region
          /\ row.token = account[q.account].token
    BY <1>2, <1>3, <2>1 DEF Row
  <2>3. Rows' /\ ScreensOwn' /\ AccountsKept
    BY <1>2, <1>3, <1>5, <1>9, <2>1, <2>2 DEF Chooses
  <2> PICK p : p = [phase |-> "link", install |-> q.install, region |-> q.region,
                    account |-> q.account]
    OBVIOUS
  <2>4. request' = [request EXCEPT ![r] = p]
    BY <2>1 DEF Goes, IInv, Requests, RequestsTyped
  <2>5. /\ p \in [phase : Phase, install : Install, region : Region,
                  account : Id \cup {None}]
        /\ p.account = q.account /\ p.install = q.install /\ p.phase = "link"
    BY <1>2 DEF Phase
  <2>6. nextId' = nextId /\ q.account \in Id
    BY <1>2, <1>9, <2>1 DEF Chooses
  <2>7. p.account # None /\ p.account < nextId'
    BY <1>2, <2>5, <2>6, Nothing
  <2>8. Exists(p.account)' => account'[p.account].owner = p.install
    BY <1>2, <1>3, <2>3, <2>5, <2>6 DEF AccountsKept
  <2>9. Requests'
    BY <2>3, <2>4, <2>5, <2>7, <2>8, RequestMoves DEF IInv
  <2> QED
    BY <2>3, <2>9 DEF IInv
<1>10. CASE Links(r)
  <2>1. /\ UNCHANGED <<account, nextId, screen>> /\ Done(r) /\ q.account \in Id
        /\ link' = IF install[q.install] = "present" /\ Exists(q.account)
                   THEN [link EXCEPT ![q.install] = q.account] ELSE link
    BY <1>2, <1>10 DEF Links
  <2>2. link' \in [Install -> Id \cup {None}]
    BY <2>1 DEF IInv, Rows, RowsTyped
  <2>3. RowsTyped' /\ OwnersDiffer' /\ TokenOfRegion' /\ AccountsKept
    BY <2>1, <2>2 DEF IInv, Rows, RowsTyped, OwnersDiffer, TokenOfRegion, Exists,
                      AccountsKept
  <2>4. LinksOwn'
    BY <1>2, <1>3, <2>1 DEF IInv, Rows, RowsTyped, LinksOwn, Exists
  <2>5. ScreensOwn'
    BY <2>1, ScreensUnchanged DEF IInv
  <2> QED
    BY <1>4, <2>1, <2>3, <2>4, <2>5 DEF Rows
<1>11. CASE Deletes(r)
  <2>1. /\ q.account \in Id /\ DeleteAccount(q.account) /\ UNCHANGED nextId
        /\ Done(r) \/ Goes(r, "remove", None)
    BY <1>2, <1>11 DEF Deletes
  <2>2. Rows' /\ ScreensOwn' /\ AccountsKept
    BY <2>1, DeleteKeeps DEF IInv
  <2>3. CASE Goes(r, "remove", None)
    <3> PICK p : p = [phase |-> "remove", install |-> q.install, region |-> q.region,
                      account |-> None]
      OBVIOUS
    <3>1. request' = [request EXCEPT ![r] = p]
      BY <2>3 DEF Goes, IInv, Requests, RequestsTyped
    <3>2. /\ p \in [phase : Phase, install : Install, region : Region,
                    account : Id \cup {None}]
          /\ p.account = None /\ p.phase = "remove"
      BY <1>2 DEF Phase
    <3>3. p.account < nextId'
      BY <2>1, <3>2 DEF IInv, Rows, RowsTyped, None
    <3>4. Requests'
      BY <2>2, <3>1, <3>2, <3>3, RequestMoves DEF IInv
    <3> QED
      BY <2>2, <3>4 DEF IInv
  <2> QED
    BY <1>4, <2>1, <2>2, <2>3
<1>12. CASE Removes(r)
  <2>1. /\ UNCHANGED <<account, nextId, screen>> /\ Done(r)
        /\ link' = [link EXCEPT ![q.install] = None]
    BY <1>12 DEF Removes
  <2>2. RowsTyped' /\ OwnersDiffer' /\ TokenOfRegion' /\ AccountsKept /\ LinksOwn'
    BY <1>2, <2>1 DEF IInv, Rows, RowsTyped, OwnersDiffer, TokenOfRegion, Exists,
                      AccountsKept, LinksOwn
  <2>3. ScreensOwn'
    BY <2>1, ScreensUnchanged DEF IInv
  <2> QED
    BY <1>4, <2>1, <2>2, <2>3 DEF Rows
<1> QED
  BY <1>6, <1>7, <1>8, <1>9, <1>10, <1>11, <1>12

LEMMA CronSteps ==
  ASSUME IInv, NEW c \in Cron, Claims(c) \/ CycleStep(c)
  PROVE  IInv'
<1>1. request' = request
  BY DEF Claims, CycleStep, MarksRefused, WritesScreen, FailsOne, Killed
<1>2. ASSUME Rows', AccountsKept, ScreensOwn' PROVE IInv'
  BY <1>1, <1>2, RequestsWait DEF IInv
<1>3. CASE MarksRefused(c)
  <2> PICK a : a = Head(cron[c])
    OBVIOUS
  <2> PICK row : row = [account[a] EXCEPT !.flagged = TRUE]
    OBVIOUS
  <2>1. UpdateAccount(a, row) /\ UNCHANGED <<link, nextId, screen>>
    BY <1>3 DEF MarksRefused
  <2>2. a \in Id /\ Exists(a) =>
          /\ account[a] \in Row
          /\ account[a].token \in {Placeholder, account[a].region}
    BY DEF IInv, Rows, RowsTyped, Exists, TokenOfRegion
  <2>3. a \in Id /\ Exists(a) =>
          /\ row \in Row
          /\ row.owner = account[a].owner /\ row.region = account[a].region
          /\ row.token = account[a].token
    BY <2>2 DEF Row
  <2>4. Rows' /\ ScreensOwn' /\ AccountsKept
    BY <2>1, <2>2, <2>3, UpdateKeeps DEF IInv
  <2> QED
    BY <1>2, <2>4
<1>4. CASE WritesScreen(c)
  <2> PICK a : a = Head(cron[c])
    OBVIOUS
  <2>1. WriteScreen(a, "stale") /\ UNCHANGED <<account, link, nextId>>
    BY <1>4 DEF WritesScreen
  <2>2. Rows' /\ AccountsKept /\ ScreensOwn'
    BY <2>1, RowsUnchanged, WriteKeeps DEF IInv
  <2> QED
    BY <1>2, <2>2
<1>5. CASE Claims(c) \/ FailsOne(c) \/ Killed(c)
  <2>1. UNCHANGED <<account, link, nextId, screen>>
    BY <1>5 DEF Claims, FailsOne, Killed, rows
  <2> QED
    BY <1>2, <2>1, RowsUnchanged, ScreensUnchanged DEF IInv
<1> QED
  BY <1>3, <1>4, <1>5 DEF CycleStep

LEMMA CollectorSteps ==
  ASSUME IInv, NEW a \in Id, CollectorWrites(a) \/ Ages(a)
  PROVE  IInv'
<1>1. UNCHANGED <<account, link, nextId, request>>
  BY DEF CollectorWrites, Ages
<1>2. Rows' /\ AccountsKept
  BY <1>1, RowsUnchanged DEF IInv
<1>3. ScreensOwn'
  <2>1. CASE CollectorWrites(a)
    BY <1>1, <2>1, WriteKeeps DEF CollectorWrites, IInv
  <2>2. CASE Ages(a)
    BY <1>1, <2>2 DEF Ages, IInv, ScreensOwn, Exists
  <2> QED
    BY <2>1, <2>2
<1>4. Requests'
  BY <1>1, <1>2, RequestsWait DEF IInv
<1> QED
  BY <1>2, <1>3, <1>4 DEF IInv

LEMMA StutterStep ==
  ASSUME IInv, UNCHANGED vars
  PROVE  IInv'
<1>1. UNCHANGED <<account, link, nextId, screen, request>>
  BY DEF vars, rows
<1>2. Rows' /\ AccountsKept /\ ScreensOwn'
  BY <1>1, RowsUnchanged, ScreensUnchanged DEF IInv
<1> QED
  BY <1>1, <1>2, RequestsWait DEF IInv

\* Everything the invariant names holds in every reachable state.
THEOREM Invariant == Spec => []IInv
<1>1. IInv /\ [Next]_vars => IInv'
  <2> SUFFICES ASSUME IInv, [Next]_vars PROVE IInv'
    OBVIOUS
  <2>1. CASE \E r \in Request : RequestStep(r)
    BY <2>1, ReadingSteps, InsertSteps, WritingSteps DEF RequestStep
  <2>2. CASE \E c \in Cron : Claims(c) \/ CycleStep(c)
    BY <2>2, CronSteps
  <2>3. CASE \E a \in Id : CollectorWrites(a) \/ Ages(a)
    BY <2>3, CollectorSteps
  <2>4. CASE UNCHANGED vars
    BY <2>4, StutterStep
  <2> QED
    BY <2>1, <2>2, <2>3, <2>4 DEF Next
<1> QED
  BY <1>1, InitInvariant, PTL DEF Spec

-----------------------------------------------------------------------------
(* The theorems. *)

\* routes.ts: a token was minted in the region of its account, however sign-ins,
\* deletions and deaths of requests interleave.
THEOREM TokenFitsRegion == Spec => []TokenOfRegion
<1>1. IInv => TokenOfRegion
  BY DEF IInv, Rows
<1> QED
  BY <1>1, Invariant, PTL

\* routes.ts: identify finds the account an installation has.
THEOREM Reachable == Spec => []AccountIsReachable
<1>1. IInv => AccountIsReachable
  <2> SUFFICES ASSUME IInv, NEW a \in Id, Exists(a)
               PROVE  Identified(account[a].owner, link[account[a].owner]) = a
    BY DEF AccountIsReachable
  <2> PICK i : i = account[a].owner
    OBVIOUS
  <2>1. i \in Install
    BY Nothing DEF IInv, Rows, RowsTyped, Exists, Row
  <2>2. \A b \in Id : Exists(b) /\ account[b].owner = i => b = a
    BY DEF IInv, Rows, OwnersDiffer
  <2>3. CASE link[i] # None
    <3>1. Exists(link[i]) /\ link[i] \in Id /\ account[link[i]].owner = i
      BY <2>1, <2>3 DEF IInv, Rows, RowsTyped, LinksOwn
    <3> QED
      BY <2>2, <2>3, <3>1 DEF Identified
  <2>4. CASE link[i] = None
    <3>1. Owned(i) = {a}
      BY <2>2 DEF Owned
    <3> QED
      BY <2>4, <3>1 DEF Identified
  <2> QED
    BY <2>3, <2>4
<1> QED
  BY <1>1, Invariant, PTL

\* routes.ts, trmnl.ts: what was deleted leaves neither a screen nor a link.
THEOREM Deleted == Spec => []DeletionIsComplete
<1>1. IInv => DeletionIsComplete
  BY Nothing DEF IInv, Rows, LinksOwn, ScreensOwn, DeletionIsComplete
<1> QED
  BY <1>1, Invariant, PTL
=============================================================================

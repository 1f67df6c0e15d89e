# Formal models of trmnl-bambulab

TLA+ models of the display pipeline for Bambu printers, checked with TLC on
small instances and, where a theorem is listed, proved with TLAPS for every
value of the constants.

## 1. The system

| Component | Source | State it keeps | Operations | Hard behaviour |
|---|---|---|---|---|
| Collection lease | `collector/src/lease.ts`, `supervise.ts`, `index.ts` | advisory lock in Postgres, heartbeat slot, stop and loss flags | check, take, heartbeat, lose, release, standby poll, exit | two processes, silent connections, pooled databases, crashes |
| Account session | `collector/src/session.ts` | coordinator, `pending`, `writing`, the coalescing timer, the fence `halted` | connect, baseline render, observe, schedule, write, end, flush, halt | writes and halts interleave on one row |
| Collector supervisor | `collector/src/run.ts` | map of sessions, admission queue, handshake gate, stop promises | discover, reconcile, admit, acquire, release, back off, shut down | stale discovery answers, permits, replacement of sessions |
| Hosted store | `packages/core/src/hosted/store-neon.ts` | accounts, installs, screens | reads and single-statement writes | no transactions between statements |
| MQTT client | `packages/core/src/telemetry/mqtt/*` | subscription, stop and timer state | handshake, pump, ping, stop | half-open sockets, refusals, deadlines |
| Hosted cron and worker | `hosted/src/cycle.ts`, `worker.ts` | none between cycles | poll due accounts, render, write | races the collector for a row |
| TRMNL and account routes | `hosted/src/trmnl.ts`, `routes.ts`, `enrol.ts` | installs, enrolment challenges | install, uninstall, markup, session, printers | order of independent requests |
| Coordinator | `packages/core/src/telemetry/coordinator/merge.ts` | per-field values and their source | accept, snapshot | reordered observations of two sources |
| Payload builder | `packages/core/src/telemetry/push/payload.ts` | none | build under a byte ceiling | order of shedding |
| Bridge | `bridge/src/bridge/run.ts` | merged telemetry, the stop signal | push loop (poll, decide, push, sleep), telemetry loop | two loops, slow polls and pushes, throws and stops |
| Push scheduler | `bridge/src/push/scheduler.ts` | sliding window of pushes | decide, record | boundaries of the window |
| Setup commands | `bridge/src/setup/*`, `config.ts`, `store.ts`, `auth.ts` of the core | `bridge/.env`, a temporary file and a login machine per run | wizard, reauth, webhook, doctor, start of the bridge | runs that overlap, kills in the middle of a write, texts read long before they are written |
| Pages, markup, scripts | `hosted/public`, `hosted/src/markup.ts`, `src/`, `scripts/` | none | presentation | none |

How they interact. The cron and the collector read `accounts` and write the
same `screens` rows; the routes write `accounts` and `installs`. A collector
process first takes the lease, then `collectAll` discovers accounts and starts
one `collectAccount` loop each, whose `runAccountSession` watches MQTT and
writes the account's row. Every wait observes one stop promise: a signal, the
loss of the lease, the end of `collectAll`, or the eviction of that account.
The bridge is a separate, self-hosted program over the same core package: its
push loop polls the cloud, merges the answer with what MQTT sessions reported,
builds a body, and asks the scheduler whether it is worth one of the hour's
pushes to TRMNL. Its configuration is `bridge/.env`, which the setup commands and an
editor write and which is read once, when the bridge starts.

What makes each part correct:

* lease: nobody collects without a grant; the lock covers what is done in its
  name; an overlap exists only while a lost lease has not been noticed; every
  stop and every loss ends in an exit whose status says so;
* session: no write after the fence, the screens of one session are stored in their
  order and only a write that an earlier one left behind turns the row back, the newest
  state is never forgotten, nothing but such a write outlives the session;
* supervisor: one loop per account, the ceiling and the handshake limit hold,
  what runs is what was read last, shutdown is complete;
* MQTT client: a healthy subscription is left alone, a handshake, a silence and a
  stop come to an end, the end says what happened;
* hosted tier: a token belongs to its account's region, an account can be reached
  and deleted, a deletion leaves nothing, no account starves another;
* coordinator and payload: the merge does not depend on the order of arrival, what
  is called stale is stale, the body is the first that fits and hides the idle first;
* bridge: the allowance holds although pushes are counted late, a change and a
  heartbeat get through, the two loops end together;
* setup: the file is never half written, whatever overlaps or is killed; a key with one
  line says what it was last set to unless a text read before that was put in place
  since; the login and the loop that drives it stay in step; no command goes round in
  circles.

## 2. Modules

| Module | Models | Extends / composes |
|---|---|---|
| `CollectionLease` | the abstract lease: owner, lapsed processes, collectors | |
| `Lease` | `lease.ts`, `supervise.ts`, `index.ts` over Postgres backends | instantiates `CollectionLease` as `Promise` |
| `Session` | `runAccountSession` and its successor on the same row | |
| `Collector` | `collectAll`, the handshake gate, `collectAccount` | |
| `Subscription` | what a session promises its callers: reports, one announcement, one end | |
| `MqttClient` | `MqttSession` of `client.ts` over the stream of `transport-node.ts` | instantiates `Subscription` as `Promise` |
| `HostedTier` | the three tables and all that writes them: `cycle.ts`, `trmnl.ts`, `routes.ts` over `store-neon.ts` | |
| `Coordinator` | `merge.ts`: a record of entries by field, `admits`, `accept`, staleness | |
| `Normalize` | `telemetry/normalize`: what a payload mentions, and its state by the meaning of its source | |
| `Payload` | `payload.ts`: order, cut and shedding under a ceiling | extends `Normalize` |
| `Display` | live reports and slow polls into a record, the record into a body | extends `Coordinator`, `Payload` |
| `PushBudget` | what the scheduler promises: pushes per hour and their spacing | |
| `PushScheduler` | `scheduler.ts` over the ages of pushes | |
| `Bridge` | `run.ts`: push loop, telemetry loop, stop | extends `PushScheduler`, instantiates `PushBudget` as `Budget` |
| `EnvFile` | `config.ts`: a text of settings, what it parses to, patching and serialising | |
| `CloudLogin` | `auth.ts`: the login as a machine of phases, without I/O | |
| `Setup` | the commands over `bridge/.env`: `wizard.ts`, `reauth.ts`, `webhook.ts`, `flow.ts`, `cloud-session.ts`, `store.ts` | extends `EnvFile`, `CloudLogin` |
| `MCLease`, `MCSession`, `MCCollector`, `MCMqttClient`, `MCHostedTier`, `MCDisplay`, `MCBridge`, `MCSetup` | instances for TLC | each extends its component |
| `LeaseProofs`, `SessionProofs`, `CollectorProofs`, `MqttClientProofs`, `HostedTierProofs`, `BridgeProofs`, `DisplayProofs`, `SetupProofs` | theorems | each extends its component |

Each module also defines mutated forms of some operations ("Mutant: ..."): the
change a plausible bug would make. They are used by no specification; replacing
the operation by its mutant must break the property named in `PROJECT.json`.

### Lease

A member of `Process` is one run of the program; a container that is restarted
is another member. `pc` is the position in `supervise`: `checking` and `trying`
are the two halves of `takeLease`, `granted` is the time between Postgres
granting the lock and `collectAll` starting, `closing` is `collectAll` ending
its sessions, `releasing` and `disconnecting` are the two halves of `release`.
`checking[p]` is the one heartbeat slot. Postgres is `locker` (the backend that
holds the lock) and `depth` (advisory locks are re-entrant).

`Route[p]` and `ProbeRoute[p]` say which backends may execute the statements of
a process's two connections. `DirectRoute` gives every connection a backend of
its own, `MixedProbe` puts the three probes of the third process on one backend
(session multiplexing).
`Dedicated(p)` is the condition under which ending the session frees the lock.

A connection that fails is `broken` (the process gets an error) or `silent` (it
gets nothing); in both cases Postgres may have freed the lock already or still
believe in the session (`SessionDrops`, then `SessionExpires`). `SocketTimesOut`
is the operating system giving up on a silent socket.

Left out: the environment and key parsing of `main`, and the log.

### Session

Observations are numbered as they are made, so one number stands for everything
accumulated: `seen` is the coordinator's, `rendered` the last snapshot's, a
write carries the number it rendered, `row` is what the database stores. A
write is one step from sent to answered, because whether the row changed or the
statement failed makes no difference to the code (both run the same `finally`).
`recent` says that less than `RENDER_COALESCE_MS` passed since `lastRenderAt`.
`LeavesWriteBehind` is a step that ends a session with a write of its own under way:
after a halt, which awaits nothing, or after a flush that awaited one write while the
`finally` of that write began another (`session.ts:188`).

A render either sends a write or returns early (too large, or halted); the
model allows the early return at any time, so the size of payloads is not
modelled. Promise reactions run before the next task, so the resolution of
`stopped`, the setting of `halted`, the clearing of `pending` and the
cancellation of the timer are one action (`Halt`); `stop()` closing the stream
is `CallerEnds`, any time later. `NextSession` is either `collectAccount`
reconnecting (`Reconnect`) or `collectAll` admitting a replacement (`Replace`);
writes of the earlier session may still be under way.

### Collector

An account's configuration is a number: the fingerprint is only ever compared.
`db` is what `collectableAccounts` would answer, `selected` what it last did.
A task is one call of `collectAccount`; two slots per account exist so that two
calls for one account could be seen if they happened. The account loop's phases
are the stretches between its awaits: `starting`, `waiting` at the gate,
`handshake` (token, preference, baseline poll), `connecting` to the broker until
subscribed, `live`, `backoff`, and `marking` while `markReauthRequired` is under
way. `admission = "ending"` is the time between the admission loop leaving and
its `finally` running.

`Wanted(a)` is the configuration with which account `a` ought to be collected, `None`
for one that is not configured, is flagged, or has `MaxAccounts` collectable ones
before it: what `StaleIsStopped` calls changed, withdrawn and evicted are the three ways in
which it differs from a running loop's. Initially any accounts may be configured.
`MCCollector` restricts the outside and nothing inside (`RestrictedSpec`): the oldest
account may enrol late and so evict another, and the second be reconfigured,
withdrawn and chosen again, without end.

Left out: the length of delays, the number of failures behind a backoff, and
the log. Failed reads end `collectAll`, as in the code.

### MqttClient

One `MqttSession`: `run` is what `run()` awaits (the write of CONNECT or of
SUBSCRIBE, a packet, or its own `stop()` after a refusal), `stopped` is
`stopping` together with who called `stop()` first, so `inboundIdleTimedOut` is
`stopped = "idle"`. `closing` is how far that call has come. A packet is its
kind; `detail` is the refusal a `rejected` end names.

The stream is a Node socket, and two facts about it matter: `read()` is the
socket, so iterating ends only when the broker has closed its side and
everything received has been read; `close()` is `end()` and waits for the
socket's `close` event, which needs just that. The socket, the network and the
broker are external: the broker answers CONNECT and SUBSCRIBE once, publishes,
answers pings, leaves, sends something unexpected, or falls silent, as one that
has forgotten the session (`mute`, it still answers a close) or as one that
cannot be reached (`lost`). The TLS handshake is before the first state.

`Session` sees this component as `BrokerEnds` and `CallerEnds`, `Collector` as
`Subscribed`, `Refused` and `Fails`; `Subscription` states what all of them use.

### HostedTier

There are no transactions, so every statement of `store-neon.ts` is an action of
its own, and requests and cron invocations interleave between statements and die
between them (`Dies`, `Killed`). `install`, `link`, `account` and `screen` are
the rows; the unique tags and foreign keys of the schema are in the statements
that could violate them. `turn` is the order in which `dueAccounts` would take
accounts, and `serviced` says which of them have a `last_serviced_at`, because
one that has none comes first. A screen is its writer and age, the only things
`dueAccounts` looks at; `Ages` is `DEFER_TO_RENDER_WITHIN_MS` passing.

A request is where it stands between its statements: `phase` is the statement
that comes next and `account` what its earlier reads found. `session` to `token`
is `postSession`, `printers` to `link` is `postPrinters`, `deletion` to `delete`
is `deleteAccount`, `cascade` and `remove` are the two statements of `uninstall`,
`create` the one of `install`; `TurnsAway` is a choice of printers that cannot be
made. The sign-in with the cloud is the step between
`session` and `signin`, where anything else may happen. A claim is one action:
`dueAccounts` is one UPDATE, which stamps all it takes and returns those that
nothing fresher has rendered; the writes come afterwards, one account at a time.
The collector appears by its writes alone (`CollectorWrites`), any time.

Installations in `Settled` have an account from the start and make no requests:
they are there for the queue. An access token's row comes and goes once.

Left out: the routes that write nothing of these tables (markup, manage page,
account reading), the management tokens and rate limits, and the enrolment
challenge.

### Display

A record has an entry for each leaf of `PrinterState`: a value, the source and
`receivedAt`. Branches are flattened, as `admits` is asked leaf by leaf under a
dotted path. A payload is a function on the fields it mentions (`Normalize`): the
state keeps its token, `online` stands for what is said of the printer as such and
`detail` for the rest, whose values are not kept. `gcode_state` is live and read by
`toDisplayState`; `print_status` and `task_status` are the outcome of the last job
and read by `fromTaskStatus`. The history `said` keeps when each source last mentioned a field, taken or not: it is what
`LastWord`, the reference for the merge, is about.

A poll's observations carry the `now` at which it began (`polling`), and are
accepted when it ends; reports may come in between (`PollStarts`, `PollEnds`,
`Report`). A poll asks two endpoints, either of which can fail or leave a printer
out (`Silence`), and accepts what `/bind` says before what `/print` does.
`Reports`, `Binds` and `Prints` are the payloads looked at: a report says what
changed and never whether the printer is online, an entry of an endpoint always
does. `FreshnessIsTrue` rests on that: an answer that mentions only what a live
report mentioned within the window would be turned down as a whole and leave no
trace of having been heard. The schemas make `online` optional, so it is the cloud
that has to keep this up: it is the hypothesis `OnlineIsCoarse`, which the theorem
names and the instance satisfies. `Tick` is a poll cycle; `AUTHORITY_WINDOW_MS` and
`STALE_AFTER_MS` are two and three of them, in the run one each.

`Payload` keeps of a snapshot its place by name and key, its state and which of
the three classes of detail it has. Sizes are constants per printer and per class
(`PrinterBytes`, `DetailBytes`); that a count of hidden printers can take one
more digit is left out. `Ordered` is the one listing of the printers in the order
of the comparator, and a size is a sum over classes and over the printers that
still have them. `WireBytes` is what `pushPayload` sends.

The collector's sessions and the cron use the same two modules; `Session` has
observation numbers in their place.

### Bridge

The view is the comparable body that the coordinator's snapshots would give now;
how it comes about is `Display`'s. `push` and `live` are where the two loops are.
The scheduler's times are kept as ages, and `now` as how long ago the loop read
the clock, because `decide` and `recordPush` get the time at which the poll
began, however late the push is answered: `Tick` ages everything. Ages stop
counting beyond every limit they are compared with.

`PollAnswers` is everything from the answer to the decision, which nothing can
interrupt. A push is accepted, refused or times out (`PushAccepted`,
`PushRefused`); anything that throws is `LoopThrows`, whose `finally` is
`LeavesLoop`. The telemetry loop's session is `watching`, and its end is
`SessionEnds`: retried, or final when rejected (`isRetryable`). `Returns` is
`Promise.all`, which does not wait for the telemetry loop if the push loop threw.
`KeepsBudget` counts as the scheduler does: a push that TRMNL took and did not answer
in time is recorded by nobody, so TRMNL may have counted more. `Closes` is the end of
an unused stream's `close()`, which is awaited (`run.ts:278`).

Left out: the lengths of the backoff, the start without a webhook, a username
that takes long, and the log.

### Setup

A member of `Process` is one run of one command, and its temporary file is its own
because `store.ts` names it after the process. A text is, for each key, the values
of the lines that set it, in their order; settings that are always written together
are one key (`account`: the token and the hint of whose it is; `printers`: all that
the wizard alone writes). Where `at` is in `Awaiting` the run waits for its user or
for a server, so anything may happen to the file meanwhile; what is asked of the
user one after the other, with nothing in between that others can see, is one step.
`Writes`, `Flushes` and `Renames` are the calls of `writeConfigText`; a kill between
them leaves a temporary file. reauth reads the file twice at its beginning, for the
text it will patch and for whether it is valid (`reauth.ts:30`, `:31`), and another
process may rename in between (`BeginsReauth`, `LoadsConfig`).

`Drives` is the loop of `interactiveLogin` acting on a transition of `CloudLogin`;
the errors it throws when a machine leaves it nothing to do are the ending
`stalled`. `sound` is `loaded.ok` of `runWebhook`, which decides about the test
payload at the end.

Three histories: `meant` is what each key was last set to on purpose, by a command
that sets it or by hand; `stale` says that the file changed since a run read its
text. A stale text that is put in place brings back what it has of the keys that its
command does not set: those that so differ from what was meant are `undone`, until
they are set again. Of them, and of keys with several lines, `SettingsSurvive` says
nothing, because there the code does not keep them (section 7).

`parseEnv` strips a layer of quotes that no writer adds. No value that the commands
write has one of its own (the URL is checked, tokens, serials and hints have none), so
reading back what was written changes nothing; a value quoted by hand is the value.

Left out: questions whose answers change nothing here, masking, the wording of
errors, the shape of an address, and the hint of a pasted token.

## 3. Runs

| Run | Bounds | Shows |
|---|---|---|
| `lease` | 2 of 3 processes: two on the direct endpoint, or one and a third behind session multiplexing; crashes, drops, silence | what the lock covers, how processes end, the refinement of `CollectionLease`; the check of backends refuses the third; a loss ends collection, a standby takes over, a stop ends |
| `session` | 5 observations, 3 sessions | every order of reports, timer, writes, halts and ends; what may turn the stored screen back, and when a write is left behind; every observation is rendered, a halt ends the session |
| `collector` | 3 accounts, ceiling 2, 1 permit; account 2 has two configurations, account 1 may enrol late | discovery, eviction, admission, gate, shutdown; a collectable account is collected, a changed, withdrawn or evicted one stopped, a stop returns |
| `mqtt` | idle limit 3 (the code's), 2 reports, 2 packets unread | a broker that answers, refuses, falls silent, leaves or misbehaves; the refinement of `Subscription` |
| `hosted` | 1 installation with requests and 1 settled, 2 requests at a time, 3 account ids, batches of 2 | sign-ins, choices, deletions, uninstalls and cycles interleaved statement by statement |
| `hosted_turns` | 1 request at a time, 2 account ids, batches of 1 | every stale account gets its cycle |
| `display` | 3 printers, 2 of them known to the sources, 3 fields, 2 cycles, polls of up to 1, ceilings 2, 5, 6 and 9 | the merge against its reference, staleness against what was said, a finished job against a live word for it, the body against the documented order |
| `setup` | 2 runs of any commands, 2 values per key, 1 edit by hand | what the file says of keys with one line that were not undone, after every order of questions, writes, failures, kills and edits; the login and its loop in step; a rank that every step of a run lowers |
| `bridge` | an hour of 12 units with 3 pushes, heartbeat after 6, polls and pushes of up to 1; 3 bodies, one too large | the refinement of `PushBudget`; changes and heartbeats get through, everything ends |

Runs that end in a violation show where the repository says more than the code
does:

| Run | Says | What happens |
|---|---|---|
| `hosted_orphan` | `trmnl.ts:242` | uninstall deletes the linked account; one that signed in without choosing printers is not linked, and its token stays |
| `display_quiet` | `merge.ts:21`, `:48` | the window of authority is measured from the report that last had the field, not from the last time its source said anything: a printer that goes on reporting other fields has this one replaced by the cloud's coarser value |
| `display_wire` | `SECURITY.md:375`, `payload.ts:33` | a body is measured without its nulls and pushed with them (`run.ts:212`), so a shed or unknown detail still takes its place, and a body that was sendable can be too large for TRMNL, every cycle |

Why the bounds are enough. Two processes give a holder and a standby; locks, flags and connections are per process, and the theorems
cover any number. Five observations fill a write, a note during it, a timer, a
flush and one more; three sessions let a write outlive two. Two accounts fill
the gate (one permit) and the queue; the third, the oldest, enters by evicting the
youngest, so the ceiling is met while a loop ends; and the two configurations of the
second account, and its withdrawals, make replacements while another competes for the
permit. What the restricted outside leaves out, `CollectorProofs` covers for safety:
its theorems are about `Spec`, where any account does anything at any time. For MQTT, two reports
and two unread packets are enough for a report behind a report, a refusal with a
report behind it, and a pong that races the idle clock. In the hosted tier two
requests of one installation are what can disagree about its account (two for
different installations touch different rows), three ids let the account be
deleted and made anew while a settled one is queued behind it. Batches of one
make an account wait for another's turn. For the display, two cycles let a
poll begin before, and end after, a report that its window depends on, on both
sides of the window and of staleness; three printers for two places make one
hidden, one that is never mentioned is ordered among them, and the ceilings lie
below every body, on the boundary of a class, on that of a printer and above all
bodies. The bridge's hour has three pushes at a spacing of four units, so that
the spacing, the hour and the heartbeat bite at different times; a delay of one
makes the counted and the real order of a tick and a push differ. Two
runs are one that reads and one that writes meanwhile, each of any command; two
values tell what was set from what was there, and the edit makes a text stale, a
key double or the file missing (with two edits the check takes more than five
minutes; `SetupProofs` covers any number). `MaxReports`,
`MaxBuffered`, `MaxSessions`, `MaxConfig` (a bound per account), `MaxId`,
`MaxTime` and `MaxEdits` cap counters the code does not cap; `PollLimit` and `MaxDelay` are the
time limits of requests. The run `hosted` uses the symmetry of requests, and `setup`
that of runs and of values; no liveness property is checked with either, and no
definition chooses among them.
Deadlock is not checked: processes exit, commands end, sessions are over, `collectAll` and
`runBridge` return, and the display's clock ends.

## 4. Fairness

`Lease`: a running process takes its next step, a live server answers, Postgres
reaps ended and failed sessions, the release bound fires, and a silent socket
fails in the end (the run owes the multiplexed third process less than `FairSpec`
does, its check and its exit): that limit is the operating system's, as the server's
`statement_timeout` cannot answer over a connection that delivers nothing, and
without it `LossStopsCollection` fails. Signals, crashes,
drops and failures owe nothing. `Session`: running code continues, timers fire,
the database answers, a stopped stream closes; nobody owes a report or an end.
`MqttClient`: running code continues, both timers fire, a broker that can be
reached closes once the client has, and the operating system gives up on a peer
that cannot; the broker owes no answer. `Collector`: every account loop for
itself, the admission loop and the discovery loop go on, because every request of a
handshake has a time limit, timers fire, and a session told to stop ends (which is
`HaltEndsSession` of `Session`); the outside owes nothing and a live session may last
for ever. The run assumes as much of the first slot of each account only, the other
being never used. `HostedTier`: the
platform triggers the cron every five minutes and a cycle ends, by success,
failure or being killed; no request, write or success is owed. `Bridge`: running
code continues, time passes, requests and handshakes have time limits, a session
told to stop ends (`StopEnds` of `MqttClient`) and a stream that is closed unused
does; no stop, report or acceptance by TRMNL is owed, and a live session
may last for ever. `Setup` states none: its runs wait for a user, who owes nothing,
so that they are short is a rank that falls (`RunsAreShort`) and not a liveness
property. No strong fairness is used.

## 5. Proofs

Assumptions are the named ASSUMEs of the modules (`RoutesAreBackends`,
`BoundsAreNat`, `CollectorAssumption`, `ClientAssumption`, `SchedulerAssumption`, `BodiesAssumption`,
`WindowsAssumption`, `BytesAssumption`, `DisplayAssumption`, `SettingAssumption`,
`SetupAssumption`); the theorems
on exclusion also assume `DirectEndpoint`, as the deployment guide demands, and `Exclusive` that `NoOwner` is no process.
`FreshnessIsHeard` assumes `OnlineIsCoarse`, which TLC evaluates as `MCDisplay`'s
`InstanceAssumption`.

* `LeaseProofs`. `TypeCorrect` counts the depth of the lock along with it
  (`LockCounted`). `LockCovers`: a process that acts on the lease over a working
  connection has its backend on the lock. It is inductive by itself because on a
  direct endpoint no two processes share a backend, so whoever takes, gives back
  or frees the lock is that process or finds another's backend on it.
  `OverlapAfterLoss` (of two collecting processes one has lost its connection)
  and `BeginsGranted` follow. `CleanExit` needs the reason of
  an end to be kept while the process winds down (`ReasonKept`).
  `MultiplexedRefused` needs only that three samples of one backend are equal.
  `OneCollector` adds that without drops a collecting process is connected.
  For `Implements` the owner is the process whose backend holds the lock; a
  process has lapsed when it acts without holding it. `HeldSinceGrant` (nobody
  asks for a lock it already has) makes the grant an `Acquire`; the other steps
  fall into moves with the lock unchanged, and the freeing of the lock.
  `Exclusive` is about the abstract lease alone, whose invariant is
  `LawfulCollection`.
* `SessionProofs`. One inductive invariant `IInv` of named parts, for any number
  of observations and sessions. The part that carries the rest is
  `WriteIsWatched`: a flush that owes a render finds no write under way, which is
  what keeps the flush's own write from being a second one. `FenceHolds` is an
  action property: no step sends a write once the session is halted. `TurnsBack` has
  two parts. That the row goes back only with a write of an earlier session needs in
  addition that what is rendered is the newest observation (`Newest`) and that nothing
  under way is newer than a write of the current session (`InOrder`). That such a write
  was left by a halt, or by a flush whose awaited write began another in its `finally`,
  is `LeavesBehind`, from `WriteIsWatched` and from a session having one write at most.
* `CollectorProofs`, for any accounts, configurations and limits. One invariant
  `IInv`, in parts by what they are about:
  * the map of sessions: `MapIsExact` (it holds exactly the loops that run) and
    `LoopsConfigured`. A loop is started only for an id that is not in the map, so
    `OneTaskPerAccount` follows from the map being a function of the id;
  * the gate: `PermitsCounted` (the counter is the number of loops that hold a
    permit), `PermitPhases` (only a handshake holds one), `WaitersWait` (whoever
    queues is waiting, once) and `GateIsFull` (whoever waits, waits for permits that
    are all out, and nobody waits at a closed gate). A permit handed to the head of
    the queue leaves the counter alone, and that is right only because the head
    holds none yet;
  * the discovery loop: `SelectedWithin` (no more accounts than the
    query's limit; `OldestWithin` counts those with fewer than `MaxAccounts` older ones),
    `ReconciledWhileClosing` (whatever is queued, or in the map and not among those
    being awaited, has the configuration that was read), from which
    `OnlyCurrentConfigurations` and `CapacityRespected` are preserved when the wait ends;
  * the end: `HaltsInFinally` and `DrainsAll` give `ReturnedIsQuiet`, and that no
    loop starts once collection is halted (`NothingStartsHalted`).

  What is kept of the queue and what is added to it are listed by `Ascending`, of
  positions and of account ids; the proof needs only that it lists members
  (`AscendingIsSeq`). TLC checked `IInv` on the collector run's instance first.
* `MqttClientProofs`. `SubscriptionKept` needs that the deadline is disarmed in
  every live subscription (`TimersAreWatched`) and that the idle clock never runs
  ahead of the broker's silence while nothing is unread (`IdleIsSilence`).
  `Implements` needs that a broker which refused has not also granted
  (`AnswersAreFinal`) and that a refusal is kept until the end (`EndsAreKept`).
* `HostedTierProofs`. `IInv` is `Rows /\ Requests /\ ScreensOwn`. An account's
  owner and region never change while its row exists and ids are not reused, so
  what a request read about its account stays true however late it writes:
  `RequestsOwn` and `TokensFit` survive a deletion by other requests because the
  id they hold names nothing then. `TokenFitsRegion`, `Reachable` and `Deleted`
  follow for any number of installations, requests, accounts and cron
  invocations. The order of the queue is no part of it.
* `BridgeProofs`. `Implements` needs `PushIsDue`: a push under way is still within
  the allowance by the clock its decision was taken with, although time has passed
  since. Ages and the delay grow together, so `Due` is preserved by a tick
  (`ShiftCard`: ageing does not multiply pushes; those in the hour before `now`
  are the shifted ones). `WithinHour` follows for any hour, allowance and delay.
* `DisplayProofs`. `MergeIsReference` is by cases on who holds an entry: a live
  report always takes it (`LiveTakes`), a poll exactly when the reference says so
  (`CoarseTakes`). It needs that nothing was said after now and that no poll ended
  before one that has been merged (`NotAhead`; the two answers of one poll count
  as one, `AcceptedTwice`): without it two polls could overlap
  and the older answer be refused. One push loop awaits its polls, so they do not.
  `FinishedOnLiveWord` adds that no entry of the coarse source is finished or failed
  (`CoarseIsLasting`), since `fromTaskStatus` never yields either.
  `FreshnessIsHeard`: a screen is stale by the newest time of any entry of the record,
  and that must tell when anything was last said. A live report is always taken. An
  answer of a poll need not be, field by field; but one that says whether the printer is online, which
  no report does, is taken in that field (`OnlineHeard`), so its time is kept.
  `FirstThatFitsIsShown`: what is shown is the first of the bodies, in the order in
  which detail is given up, that is within the ceiling, or the last of them. The
  comparator is a strict total order (`Order`), so the sorted listing exists and is
  the only one (`Enumeration`, by the number of snapshots up to each; `OrderedIs`);
  each shedding step leaves out what the reference leaves out (`Sheds`); keeping a
  body when it fits and shedding on when it does not is taking the first that fits
  (`KeptAll`, `KeptSome`). That sizes shrink along the way is not needed. All of it
  needs that a record's state is always one with a place in the order (`StateShown`).
* `SetupProofs`, for any number of runs, values and edits. `Survival` rests on the
  life of a text between its reading and its rename: what reauth read
  is a text of the file (`ReadInv`); a text to be written has the answers of its
  command and, unless it is stale, what the file says of the other keys
  (`DraftInv`); what is flushed is that text whole (`WholeInv`). A rename by one run
  makes the others' texts stale, which is why `stale` is part of the state; the rename
  of a stale text adds to `undone` the keys it brings back. The theorem is silent about
  those and about keys with several lines, as the property is.
  `InStep` and `ShortRuns` need where the machine can be while a run is at a label
  (`Machine`, `Label`): the loop gives it the only event that phase takes.

`OverlapAfterLoss`, `BeginsGranted`, `OneCollector`, `OneWrite`, `PendingCarried`, `TimerEnds`,
`WithinHour`, `NothingStartsHalted` and `Exclusive` have no run of their own: they follow from what the
runs check, or are steps on the way there.

Every invariant and every action property that a passing run checks is a theorem.
Checked by TLC only: liveness, since fairness and ENABLED are outside the prover's
reach (`LossStopsCollection`, `StandbyTakesOver`, `StopEnds`, `ObservedIsRendered`,
`HaltEndsSession`, `CollectableIsCollected`, `StaleIsStopped`, `StopReturns`,
`HandshakeEnds`, `SilenceEnds`, `StaleIsServiced`, `ViewIsShown`, `HeartbeatIsSent`,
`BridgeEnds`), and the three disagreements of section 3. The type invariants of `Lease`,
`Collector`, `Session`, `MqttClient`, `Display` and `Setup` are theorems and those the proofs need of
`HostedTier` and `Bridge` parts of their `IInv`; no run lists them.

## 6. Not modelled

The values of fields other than the state, HMS codes, formatting, markup, pages and
the wording of the setup dialogue have no state the properties above speak of. So
has encryption itself; the rotation of its keys has (see section 7), and is not
modelled yet. Of the hosted tier, management tokens, enrolment challenges and rate
limits are not modelled. The remaining components are planned (section 8).

## 7. Findings

The three runs of section 3 that end in a violation are listed as findings in
`PROJECT.json`. The models led to these as well, for which there is no property to
keep; most are listed as hazards with a note:

* `session.ts:266`: a halted session returns with a write under way, which may
  land after its replacement's baseline, although `run.ts:425` calls it fully
  awaited. So may one of a session that the broker ended: the flush awaits one write,
  whose `finally` (`:188`) begins the next at once if a report is pending and
  `RENDER_COALESCE_MS` have passed, and nobody awaits that one; the comment at `:269`
  thinks of a delayed follow-up only. The next render repairs the row, and
  `OnlyLeftBehindTurnsBack` says that nothing else can turn it back.
* `cycle.ts:106`: the cron compares ages when it claims and writes later, over
  what the collector stored in between, although `docs/COLLECTOR.md:64` says it
  writes only over a stale payload.
* `client.ts:218`: on a partly refused subscription the only reader of the socket
  awaits its close, which a report behind the SUBACK holds up. The next ping, up to
  half a keep-alive period later, is a write after the end, which makes Node destroy
  the socket (`Tick`); without it `StopEnds` and `HandshakeEnds` would fail, and until
  it the caller does not hear that it was refused.
* `client.ts:192`: CONNACK 3, "the broker is unavailable", ends a session as
  `rejected`, which nobody retries.
* `run.ts:214` of the collector: a replaced token can be flagged for its
  predecessor.
* `run.ts:130` of the bridge: the pushes of the last hour are forgotten by a restart.
* `reauth.ts:74`: reauth patches the text that it read before the sign-in, and so
  undoes what webhook or an editor saved meanwhile, although its head (`:5-7`) says
  that everything but the token is carried over unchanged.
* `config.ts:200`: of two lines with one key `patchEnv` rewrites the first and
  `parseEnv` reads the last; a reauth of such a file reports success and changes
  nothing that counts.
* `index.ts:68`: "Cancelled. Nothing was written." is also said of a webhook command
  cancelled at its last question, after the address has been saved; and
  `flow.ts:299` says "The configuration is still saved" before the wizard saves it.
* `config.ts:99`, `reauth.ts:33`: a file whose token is refused by the schema cannot
  be repaired by the command that replaces tokens.
* `README.md:110` documents a command, `setup printers`, that does not exist.
* `hosted/README.md:145` allows an old key to be deleted once no row carries it. The
  tags by which installations and owners are found are made under the current key,
  and rows keep those they were made with (`trmnl.ts:114`), so after the deletion
  TRMNL's requests for older installations find none.

None of the tests in the repository contradicts the models.

## 8. Plan

1. `Lease`, `Session`, `Collector` with their theorems (done).
2. `MqttClient` with its theorems (done, except packet reassembly as functions
   over bounded inputs).
3. `HostedTier` with its theorems (done).
4. `Coordinator`, `Payload`, `Display` with the theorems about the merge,
   the time shown and the body sent (done).
5. `PushScheduler` and `Bridge` against `PushBudget`, with its theorems (done).
6. `EnvFile`, `CloudLogin` and `Setup` with their theorems (done).
7. The rotation of keys: which tags and tokens are still found, by hosted and
   collector, between the steps of a rotation.
8. Packets: reassembly of MQTT frames across chunks, as a function over bounded
   inputs against a parser that sees the whole stream.
9. The enrolment challenge, management tokens and limits as part of `HostedTier`.

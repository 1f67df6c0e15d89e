------------------------------ MODULE Display ------------------------------
(***************************************************************************)
(* What a display is shown of its printers, between the two sources of the *)
(* bridge (and of a collector session) and a body that fits a ceiling: the *)
(* coordinator applied to live reports and to polls that take a while, and *)
(* the payload built from its snapshots.  Time is a number of poll cycles. *)
(***************************************************************************)
EXTENDS Coordinator, Payload

CONSTANTS
  Printer,    \* the printers the user chose, in the order of their names
  Reporting,  \* those of them that the sources know
  Reports,    \* payloads of an MQTT report
  Binds,      \* entries of /bind for a printer
  Prints,     \* entries of /print for a printer
  PollLimit,  \* how long a poll can take: its request timeouts
  MaxTime,    \* bound
  Ceilings    \* the values of maxPayloadBytes looked at

ASSUME DisplayAssumption ==
  /\ {"state", "online", "detail"} \subseteq Field
  /\ PollLimit \in Nat /\ MaxTime \in Nat
  /\ Printer \subseteq Nat /\ IsFiniteSet(Printer)
  /\ Reporting \subseteq Printer /\ Ceilings \subseteq Nat

Never == -1

VARIABLES
  clock,
  record,   \* coordinator.printers
  polling,  \* `now' of the poll under way, or Never
  said      \* history: when each source last mentioned each field of a printer

vars == <<clock, record, polling, said>>

Entry == [value : DisplayState \cup {Given}, from : Provider, at : 0 .. MaxTime]

TypeOK ==
  /\ clock \in 0 .. MaxTime
  /\ record \in [Printer -> [Field -> Entry \cup {Unheard}]]
  /\ polling \in 0 .. MaxTime \cup {Never}
  /\ said \in [Printer -> [Provider -> [Field -> 0 .. MaxTime \cup {Never}]]]

Init ==
  /\ clock = 0
  /\ record = [p \in Printer |-> unknownPrinterState]
  /\ polling = Never
  /\ said = [p \in Printer |-> [s \in Provider |-> [f \in Field |-> Never]]]

Observation(from, at, fields) == [from |-> from, at |-> at, fields |-> fields]

\* A printer that an endpoint does not list, or an endpoint that fails.
Silence == <<>>

-----------------------------------------------------------------------------

\* onReport of watchCloudMqtt; a report that says nothing is no observation.
Report(p) ==
  \E raw \in Reports \ {Silence} :
    /\ record' = [record EXCEPT ![p] =
         accept(@, Observation("cloud-mqtt", clock, parseReport(raw)))]
    /\ said' = [said EXCEPT ![p]["cloud-mqtt"] =
         [f \in Field |-> IF f \in DOMAIN raw THEN clock ELSE @[f]]]
    /\ UNCHANGED <<clock, polling>>

\* The push loop takes `now' and calls pollCloud.
PollStarts ==
  /\ polling = Never
  /\ polling' = clock
  /\ UNCHANGED <<clock, record, said>>

Listing(entries) ==
  {answer \in [Printer -> entries \cup {Silence}] :
     \A p \in Printer \ Reporting : answer[p] = Silence}

\* What the poll says of p, which is first what /bind and then what /print does;
\* every observation carries the time at which the poll started.
Polled(p, bind, print) ==
  accept(accept(record[p], Observation("cloud-http", polling, parseBindReport(bind))),
         Observation("cloud-http", polling, parseCurrentPrint(print)))

PollEnds ==
  /\ polling # Never
  /\ \E bind \in Listing(Binds), print \in Listing(Prints) :
       /\ record' = [p \in Printer |-> Polled(p, bind[p], print[p])]
       /\ said' = [p \in Printer |-> [said[p] EXCEPT !["cloud-http"] =
            [f \in Field |-> IF f \in DOMAIN bind[p] \cup DOMAIN print[p]
                             THEN polling ELSE @[f]]]]
  /\ polling' = Never
  /\ UNCHANGED clock

Tick ==
  /\ clock < MaxTime
  /\ polling = Never \/ clock - polling < PollLimit
  /\ clock' = clock + 1
  /\ UNCHANGED <<record, polling, said>>

Next == (\E p \in Reporting : Report(p)) \/ PollStarts \/ PollEnds \/ Tick

Spec == Init /\ [][Next]_vars

\* snapshotsFor: a printer nobody has mentioned has a snapshot as well.
Snapshot(p) ==
  [key |-> p, state |-> record[p]["state"].value,
   detail |-> IF record[p]["detail"].from = "none" THEN {}
              ELSE Class]

Shown(maxBytes) == buildWebhookPayload({Snapshot(p) : p \in Printer}, maxBytes)

-----------------------------------------------------------------------------
(* Properties. *)

\* What the cloud has to keep up, for a printer that was heard of not to be shown
\* as stale: an entry of either endpoint says whether the printer is online, which
\* no report does.  The schemas of the entries make it optional.
OnlineIsCoarse ==
  /\ \A raw \in Reports : "online" \notin DOMAIN raw
  /\ \A entry \in Binds \cup Prints : "online" \in DOMAIN entry

\* The reference for `admits' (merge.ts:105): the last word of the live source about a
\* field holds, unless the other has spoken of that field more than a window later.
\* It must come out whatever the order in which reports and the answers of slow polls
\* are applied.  The window is counted for each field by itself, as the code does;
\* what merge.ts says of it is OnlySilenceYields.
LastWord(live, coarse) ==
  IF live # Never /\ (coarse # Never => coarse - live <= AuthorityWindow)
  THEN <<"cloud-mqtt", live>>
  ELSE IF coarse # Never THEN <<"cloud-http", coarse>> ELSE <<"none", 0>>

LastWordKept ==
  \A p \in Printer, f \in Field :
    <<record[p][f].from, record[p][f].at>> =
      LastWord(said[p]["cloud-mqtt"][f], said[p]["cloud-http"][f])

\* merge.ts:21-23 and 47-51, "the last time that source said anything": the cloud
\* replaces a live value only once MQTT has said nothing at all of the printer for
\* longer than the window, also nothing of other fields.
OnlySilenceYields ==
  [][\A p \in Printer, f \in Field :
       record[p][f].from = "cloud-mqtt" /\ record'[p][f].from = "cloud-http" =>
         \A g \in Field :
           LET heard == said[p]["cloud-mqtt"][g] IN
           heard # Never => record'[p][f].at - heard > AuthorityWindow]_vars

\* A display says it is stale exactly when neither source has said anything of
\* the printer for STALE_AFTER_MS, though much of what they say is turned down.
FreshnessIsTrue ==
  \A p \in Printer :
    staleAt(record[p], clock) <=>
      \A s \in Provider, f \in Field :
        said[p][s][f] # Never => clock - said[p][s][f] > StaleAfter

\* state.ts:19-20, "why an idle printer once rendered as `Finished' forever": only a
\* live report makes a printer finished or failed, and only while its word holds.
FinishedIsLive ==
  \A p \in Printer :
    record[p]["state"].value \in {"finished", "failed"} =>
      LET live == said[p]["cloud-mqtt"]["state"]
          coarse == said[p]["cloud-http"]["state"] IN
      live # Never /\ (coarse # Never => coarse - live <= AuthorityWindow)

\* The reference for payload.ts: the bodies in its documented order (all; no stage;
\* no targets; no temperatures; one printer less at a time), and the first of them
\* that fits, or the last if none does.
Classes == <<"stage", "target", "current">>

All(snapshots) ==
  [k \in 1 .. Min({MAX_PRINTERS_SHOWN, Cardinality(snapshots)}) |->
     toWebhookPrinter(Ordered(snapshots)[k])]
Removed(i) == {Classes[k] : k \in 1 .. Min({i, 3})}
Body(printers, i) == SubSeq(printers, 1, Len(printers) - Max({0, i - 3}))

Fits(printers, maxBytes) ==
  {i \in 0 .. 2 + Len(printers) : Bytes(Body(printers, i), Removed(i)) <= maxBytes}
Choice(printers, maxBytes) ==
  IF Fits(printers, maxBytes) = {} THEN 2 + Len(printers) ELSE Min(Fits(printers, maxBytes))

Seen(result) == {result.printers[k].key : k \in DOMAIN result.printers}

\* What is shown is that body.  Every printer is shown or counted as hidden, and
\* none is hidden while one with less to tell is shown.
FirstThatFits ==
  \A maxBytes \in Ceilings :
    LET all == All({Snapshot(p) : p \in Printer})
        i == Choice(all, maxBytes)
        shown == Shown(maxBytes)
        seen == Seen(shown) IN
    /\ shown.printers = Without(Body(all, i), Removed(i))
    /\ Cardinality(seen) + shown.hidden = Cardinality(Printer)
    /\ \A p \in seen, q \in Printer \ seen :
         STATE_PRIORITY[Snapshot(p).state] <= STATE_PRIORITY[Snapshot(q).state]

\* SECURITY.md:375, "the bridge's TRMNL webhook spacing and payload ceiling [...]
\* respect TRMNL's limits": what the bridge sends of a body that was measured as
\* sendable does not exceed the ceiling it was measured against.
SentWithinCeiling ==
  \A maxBytes \in Ceilings :
    Shown(maxBytes).sendable => WireBytes(Shown(maxBytes)) <= maxBytes
=============================================================================

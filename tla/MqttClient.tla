------------------------------ MODULE MqttClient ------------------------------
(***************************************************************************)
(* One subscribe-only MQTT session, packages/core/src/telemetry/mqtt:      *)
(* MqttSession of client.ts (run, pump, stop, the handshake deadline and   *)
(* the keep-alive clock) over the TLS stream of transport-node.ts, with    *)
(* the socket and the broker it talks to.                                  *)
(*                                                                         *)
(* The stream's read() is the socket itself: it ends only when the broker  *)
(* has closed its side and everything received was read, and close() half- *)
(* closes and then waits for just that.                                    *)
(***************************************************************************)
EXTENDS Naturals, Sequences

CONSTANTS
  InboundIdleChecks,  \* INBOUND_IDLE_CHECKS of client.ts
  MaxReports,         \* bound: reports the broker publishes
  MaxBuffered         \* bound: packets received and not read

ASSUME ClientAssumption ==
  InboundIdleChecks \in Nat /\ MaxReports \in Nat /\ MaxBuffered \in Nat \ {0}

VARIABLES
  run,          \* what run() is awaiting
  ending,       \* the reason it resolved with, "none" before
  detail,       \* the packet a refusal was read from, "none" before
  subscribed,
  stopped,      \* who called stop() first; "no" is stopping = FALSE
  closing,      \* how far that call of stop() has come
  timers,       \* armed timers
  idleChecks,   \* inboundIdleChecks
  inbound,      \* packets received and not read
  eof,          \* the broker has closed its side
  socket,       \* "open", "errored" or "destroyed"
  wire,         \* what the client has sent
  broker,       \* what the broker does next
  unanswered,   \* keep-alive periods since the broker last sent anything
  published,    \* reports sent by the broker
  delivered     \* reports handed to onReport

clientVars == <<run, ending, detail, subscribed, delivered>>
stopVars == <<stopped, closing>>
clockVars == <<timers, idleChecks>>
socketVars == <<inbound, eof, socket, wire>>
brokerVars == <<broker, unanswered, published>>
vars == <<clientVars, stopVars, clockVars, socketVars, brokerVars>>

Refusals == {"unauthorized", "unavailable", "refused"}
Packets == Refusals \cup {"accepted", "granted", "publish", "pingresp", "unexpected"}

TypeOK ==
  /\ run \in {"connecting", "reading", "subscribing", "refusing", "ended"}
  /\ ending \in {"none", "closed-by-broker", "closed-by-caller", "rejected", "failed"}
  /\ detail \in Refusals \cup {"none"}
  /\ subscribed \in BOOLEAN
  /\ stopped \in {"no", "caller", "deadline", "idle", "refusal"}
  /\ closing \in {"no", "disconnecting", "closing", "closed"}
  /\ timers \subseteq {"deadline", "keepAlive"}
  /\ idleChecks \in 0 .. InboundIdleChecks + 1
  /\ inbound \in Seq(Packets)
  /\ eof \in BOOLEAN /\ socket \in {"open", "errored", "destroyed"}
  /\ wire \subseteq {"CONNECT", "SUBSCRIBE", "DISCONNECT", "FIN"}
  /\ broker \in {"awaitingConnect", "connected", "serving", "refusing",
                 "mute", "lost", "left"}
  /\ unanswered \in 0 .. InboundIdleChecks + 1
  /\ published \in 0 .. MaxReports /\ delivered \in Nat

Init ==
  /\ run = "connecting" /\ ending = "none" /\ detail = "none"
  /\ subscribed = FALSE /\ delivered = 0
  /\ stopped = "no" /\ closing = "no"
  /\ timers = {} /\ idleChecks = 0
  /\ inbound = <<>> /\ eof = FALSE /\ socket = "open" /\ wire = {}
  /\ broker = "awaitingConnect" /\ unanswered = 0 /\ published = 0

-----------------------------------------------------------------------------
(* stop(): only the first call does anything.                              *)

Stop(who) ==
  IF stopped = "no"
  THEN stopped' = who /\ closing' = "disconnecting"
  ELSE UNCHANGED stopVars

CallerStops ==
  /\ run # "ended" /\ stopped = "no"
  /\ Stop("caller")
  /\ UNCHANGED <<clientVars, clockVars, socketVars, brokerVars>>

\* Mutant: close() is skipped.
DisconnectSentOnly ==
  /\ closing = "disconnecting" /\ run # "connecting"
  /\ \/ socket = "open" /\ closing' = "closing" /\ wire' = wire \cup {"DISCONNECT"}
     \/ socket # "open" /\ closing' = "closed" /\ UNCHANGED wire
  /\ UNCHANGED <<clientVars, stopped, clockVars, inbound, eof, socket, brokerVars>>

\* The write of DISCONNECT settles, after that of CONNECT; a failure of it is
\* ignored, and close() half-closes a socket that is not destroyed.
DisconnectSent ==
  /\ closing = "disconnecting" /\ run # "connecting"
  /\ \/ socket = "open" /\ closing' = "closing" /\ wire' = wire \cup {"DISCONNECT", "FIN"}
     \/ socket # "open" /\ closing' = "closed" /\ UNCHANGED wire
  /\ UNCHANGED <<clientVars, stopped, clockVars, inbound, eof, socket, brokerVars>>

Closed ==
  /\ closing = "closing" /\ socket # "open"
  /\ closing' = "closed"
  /\ UNCHANGED <<clientVars, stopped, clockVars, socketVars, brokerVars>>

-----------------------------------------------------------------------------
(* run() and pump().                                                       *)

\* Leaving the loop cancels the timers, and the iterator destroys the socket.
End(reason) ==
  /\ run' = "ended" /\ ending' = reason
  /\ timers' = {}
  /\ socket' = IF socket = "open" THEN "destroyed" ELSE socket
  /\ UNCHANGED <<subscribed, delivered, idleChecks, eof, wire>>

\* Mutant: the handshake has no deadline.
ConnectSentPatiently ==
  /\ run = "connecting" /\ socket = "open"
  /\ run' = "reading"
  /\ wire' = wire \cup {"CONNECT"}
  /\ UNCHANGED <<ending, detail, subscribed, delivered, stopVars, clockVars,
                 inbound, eof, socket, brokerVars>>

ConnectSent ==
  /\ run = "connecting" /\ socket = "open"
  /\ run' = "reading"
  /\ wire' = wire \cup {"CONNECT"}
  /\ timers' = {"deadline"}
  /\ UNCHANGED <<ending, detail, subscribed, delivered, stopVars, idleChecks,
                 inbound, eof, socket, brokerVars>>

ConnectFails ==
  /\ run = "connecting" /\ socket # "open"
  /\ End("failed")
  /\ UNCHANGED <<detail, stopVars, inbound, brokerVars>>

Reads(packets) ==
  /\ run = "reading" /\ socket = "open"
  /\ inbound # <<>> /\ Head(inbound) \in packets

\* Taking the next packet resets the idle clock of a live subscription.
Received ==
  /\ inbound' = Tail(inbound)
  /\ idleChecks' = IF subscribed THEN 0 ELSE idleChecks

\* After close() has ended the socket a write fails at once.
Accepted ==
  /\ Reads({"accepted"}) /\ "FIN" \notin wire
  /\ Received
  /\ run' = "subscribing"
  /\ UNCHANGED <<ending, detail, subscribed, delivered, stopVars, timers,
                 eof, socket, wire, brokerVars>>

AcceptedTooLate ==
  /\ Reads({"accepted"}) /\ "FIN" \in wire
  /\ inbound' = Tail(inbound)
  /\ End("failed")
  /\ UNCHANGED <<detail, stopVars, brokerVars>>

SubscribeSent ==
  /\ run = "subscribing" /\ socket = "open"
  /\ run' = "reading"
  /\ wire' = wire \cup {"SUBSCRIBE"}
  /\ timers' = timers \cup {"keepAlive"}
  /\ UNCHANGED <<ending, detail, subscribed, delivered, stopVars, idleChecks,
                 inbound, eof, socket, brokerVars>>

SubscribeFails ==
  /\ run = "subscribing" /\ socket # "open"
  /\ End("failed")
  /\ UNCHANGED <<detail, stopVars, inbound, brokerVars>>

\* Mutant: the deadline is left to the finally of run().
GrantedUnderDeadline ==
  /\ Reads({"granted"})
  /\ Received
  /\ subscribed' = TRUE
  /\ UNCHANGED <<run, ending, detail, delivered, stopVars, timers, eof, socket, wire,
                 brokerVars>>

Granted ==
  /\ Reads({"granted"})
  /\ Received
  /\ subscribed' = TRUE
  /\ timers' = timers \ {"deadline"}
  /\ UNCHANGED <<run, ending, detail, delivered, stopVars, eof, socket, wire, brokerVars>>

\* A refusal is answered with stop() before it is reported; the packets that
\* came in the same chunk are dropped.
Refused ==
  /\ Reads(Refusals)
  /\ detail' = Head(inbound)
  /\ \E chunk \in 1 .. Len(inbound) :
       inbound' = SubSeq(inbound, chunk + 1, Len(inbound))
  /\ Stop("refusal")
  /\ IF stopped = "no"
     THEN /\ run' = "refusing"
          /\ UNCHANGED <<ending, subscribed, delivered, clockVars, eof, socket, wire>>
     ELSE End("rejected")
  /\ UNCHANGED brokerVars

\* Mutant: the caller is not told that the broker refused.
RefusalForgotten ==
  /\ run = "refusing" /\ closing = "closed"
  /\ End("closed-by-broker")
  /\ UNCHANGED <<detail, stopVars, inbound, brokerVars>>

RefusalReported ==
  /\ run = "refusing" /\ closing = "closed"
  /\ End("rejected")
  /\ UNCHANGED <<detail, stopVars, inbound, brokerVars>>

Report ==
  /\ Reads({"publish"})
  /\ Received
  /\ delivered' = delivered + 1
  /\ UNCHANGED <<run, ending, detail, subscribed, stopVars, timers, eof, socket, wire,
                 brokerVars>>

Ponged ==
  /\ Reads({"pingresp"})
  /\ Received
  /\ UNCHANGED <<clientVars, stopVars, timers, eof, socket, wire, brokerVars>>

\* A packet of another type, or a malformed one.
ProtocolError ==
  /\ Reads({"unexpected"})
  /\ inbound' = Tail(inbound)
  /\ End("failed")
  /\ UNCHANGED <<detail, stopVars, brokerVars>>

StreamFails ==
  /\ run = "reading" /\ socket = "errored"
  /\ End("failed")
  /\ UNCHANGED <<detail, stopVars, inbound, brokerVars>>

StreamEnds ==
  /\ run = "reading" /\ socket # "errored" /\ eof /\ inbound = <<>>
  /\ End(CASE stopped = "idle" -> "failed"
           [] stopped = "no" -> "closed-by-broker"
           [] OTHER -> "closed-by-caller")
  /\ UNCHANGED <<detail, stopVars, inbound, brokerVars>>

-----------------------------------------------------------------------------
(* The timers.                                                             *)

DeadlineFires ==
  /\ "deadline" \in timers
  /\ timers' = timers \ {"deadline"}
  /\ Stop("deadline")
  /\ UNCHANGED <<clientVars, idleChecks, socketVars, brokerVars>>

\* Mutant: the clock only pings.
TickUncounted ==
  /\ "keepAlive" \in timers
  /\ unanswered' = IF unanswered > InboundIdleChecks THEN unanswered ELSE unanswered + 1
  /\ socket' = IF "FIN" \in wire /\ socket = "open" THEN "errored" ELSE socket
  /\ UNCHANGED <<clientVars, stopVars, clockVars, inbound, eof, wire, broker, published>>

\* The keep-alive clock sends a ping and counts.  A ping after close() has ended
\* the socket is a write after the end, which destroys it.
Tick ==
  /\ "keepAlive" \in timers
  /\ unanswered' = IF unanswered > InboundIdleChecks THEN unanswered ELSE unanswered + 1
  /\ socket' = IF "FIN" \in wire /\ socket = "open" THEN "errored" ELSE socket
  /\ IF subscribed /\ stopped = "no"
     THEN /\ idleChecks' = idleChecks + 1
          /\ IF idleChecks' > InboundIdleChecks THEN Stop("idle") ELSE UNCHANGED stopVars
     ELSE UNCHANGED <<idleChecks, stopVars>>
  /\ UNCHANGED <<clientVars, timers, inbound, eof, wire, broker, published>>

-----------------------------------------------------------------------------
(* The socket and the broker.                                              *)

\* Both sides have ended and nothing is left to read: the socket is destroyed.
SocketCloses ==
  /\ socket = "open" /\ eof /\ inbound = <<>>
  /\ socket' = "destroyed"
  /\ UNCHANGED <<clientVars, stopVars, clockVars, inbound, eof, wire, brokerVars>>

ConnectionFails ==
  /\ socket = "open"
  /\ socket' = "errored"
  /\ UNCHANGED <<clientVars, stopVars, clockVars, inbound, eof, wire, brokerVars>>

\* The operating system gives up on a peer that acknowledges nothing.
SocketTimesOut == broker = "lost" /\ ConnectionFails

BrokerSends(packet, next) ==
  /\ socket = "open" /\ Len(inbound) < MaxBuffered
  /\ inbound' = Append(inbound, packet)
  /\ broker' = next
  /\ unanswered' = 0
  /\ UNCHANGED <<clientVars, stopVars, clockVars, eof, socket, wire>>

AnswerConnect ==
  /\ broker = "awaitingConnect" /\ "CONNECT" \in wire
  /\ \E answer \in {"accepted", "unauthorized", "unavailable"} :
       BrokerSends(answer, IF answer = "accepted" THEN "connected" ELSE "refusing")
  /\ UNCHANGED published

\* A SUBACK may refuse some topics and grant the others.
AnswerSubscribe ==
  /\ broker = "connected" /\ "SUBSCRIBE" \in wire
  /\ \E answer \in {"granted", "refused"}, next \in {"serving", "refusing"} :
       /\ answer = "granted" => next = "serving"
       /\ BrokerSends(answer, next)
  /\ UNCHANGED published

Publish ==
  /\ broker = "serving" /\ published < MaxReports
  /\ BrokerSends("publish", broker)
  /\ published' = published + 1

AnswerPing ==
  /\ broker \in {"connected", "serving"} /\ unanswered > 0
  /\ BrokerSends("pingresp", broker)
  /\ UNCHANGED published

Misbehave ==
  /\ broker \in {"connected", "serving"}
  /\ BrokerSends("unexpected", "refusing")
  /\ UNCHANGED published

Leave ==
  /\ broker \notin {"lost", "left"}
  /\ eof' = TRUE
  /\ broker' = "left"
  /\ UNCHANGED <<clientVars, stopVars, clockVars, inbound, socket, wire,
                 unanswered, published>>

\* A broker that can be reached closes its side once the client has.
LeaveWhenAsked == "FIN" \in wire /\ Leave

\* The broker sends nothing more: it has forgotten the session, or is cut off.
FallSilent ==
  /\ broker \notin {"lost", "left", "mute"}
  /\ broker' \in {"mute", "lost"}
  /\ UNCHANGED <<clientVars, stopVars, clockVars, socketVars, unanswered, published>>

-----------------------------------------------------------------------------

Pump ==
  \/ ConnectSent \/ ConnectFails
  \/ Accepted \/ AcceptedTooLate \/ SubscribeSent \/ SubscribeFails
  \/ Granted \/ Refused \/ RefusalReported
  \/ Report \/ Ponged \/ ProtocolError
  \/ StreamFails \/ StreamEnds

Stopping == DisconnectSent \/ Closed

Broker ==
  \/ AnswerConnect \/ AnswerSubscribe \/ Publish \/ AnswerPing \/ Misbehave
  \/ Leave \/ FallSilent

Next ==
  \/ CallerStops \/ Stopping \/ Pump
  \/ DeadlineFires \/ Tick
  \/ SocketCloses \/ ConnectionFails
  \/ Broker

Spec == Init /\ [][Next]_vars

\* Running code continues, timers fire, the operating system closes sockets and
\* gives up on a lost peer, a broker that is reached answers a close.
FairSpec ==
  /\ Spec
  /\ WF_vars(Pump) /\ WF_vars(Stopping)
  /\ WF_vars(DeadlineFires) /\ WF_vars(Tick)
  /\ WF_vars(SocketCloses) /\ WF_vars(SocketTimesOut) /\ WF_vars(LeaveWhenAsked)

-----------------------------------------------------------------------------
(* Properties.                                                             *)

\* A live subscription is ended only by its caller or after the broker has let
\* InboundIdleChecks keep-alive periods pass without a word (client.ts:148: a
\* deadline left armed "tore down every healthy connection at twenty seconds").
SubscribedIsKept ==
  [][subscribed /\ stopped = "no" /\ stopped' # "no"
       => \/ stopped' = "caller"
          \/ unanswered >= InboundIdleChecks
          \/ inbound # <<>>]_vars

\* What the account session, the collector and the bridge rely on.
Promise == INSTANCE Subscription WITH
  stage <- IF run = "ended" THEN "over" ELSE IF subscribed THEN "live" ELSE "opening",
  refused <- detail # "none"

\* The client behaves as its promise, Subscription.tla, says.
ImplementsSubscription == Promise!Spec

\* A handshake comes to an answer or to an end, whatever the broker does
\* (client.ts:74: "a broker that accepts the TCP connection and then says
\* nothing is a real failure mode").
HandshakeEnds == run = "reading" ~> (subscribed \/ run = "ended")

\* A silent subscription ends, so that its caller can reconnect (client.ts:100).
SilenceEnds == (subscribed /\ broker \in {"mute", "lost"}) ~> run = "ended"

\* stop() ends the session, whoever calls it and whenever.  In pump it is awaited by
\* the only reader (client.ts:218), and unread packets keep the socket from ending:
\* there it takes a ping to break the wait.
StopEnds == stopped # "no" ~> run = "ended"
=============================================================================

--------------------------- MODULE MqttClientProofs ---------------------------
(* Theorems about MqttClient, for any idle limit and any number of reports.   *)
EXTENDS MqttClient, TLAPS

-----------------------------------------------------------------------------
(* What is received and not read.                                             *)

Elements(s) == {s[i] : i \in DOMAIN s}
Unread == Elements(inbound)

\* Reading a packet, or a chunk of them, leaves some of what was unread.
LEMMA TailOfUnread ==
  ASSUME NEW s \in Seq(Packets), s # <<>>
  PROVE  /\ Tail(s) \in Seq(Packets) /\ Elements(Tail(s)) \subseteq Elements(s)
         /\ Head(s) \in Elements(s)
  BY DEF Elements

\* The same for the rest of a chunk.
LEMMA RestOfUnread ==
  ASSUME NEW s \in Seq(Packets), NEW n \in 1 .. Len(s)
  PROVE  /\ SubSeq(s, n + 1, Len(s)) \in Seq(Packets)
         /\ Elements(SubSeq(s, n + 1, Len(s))) \subseteq Elements(s)
<1> DEFINE r == SubSeq(s, n + 1, Len(s))
<1>1. /\ r \in Seq(Packets) /\ DOMAIN r = 1 .. Len(r) /\ Len(r) = Len(s) - n
      /\ \A i \in 1 .. Len(r) : r[i] = s[n + i]
  OBVIOUS
<1>2. ASSUME NEW i \in DOMAIN r PROVE r[i] \in Elements(s)
  <2>1. n + i \in DOMAIN s
    BY <1>1
  <2> QED BY <1>1, <2>1 DEF Elements
<1> QED BY <1>1, <1>2 DEF Elements

\* A packet received is unread, behind the others.
LEMMA UnreadWithPacket ==
  ASSUME NEW s \in Seq(Packets), NEW p \in Packets
  PROVE  /\ Append(s, p) \in Seq(Packets) /\ Append(s, p) # <<>>
         /\ Elements(Append(s, p)) \subseteq Elements(s) \cup {p}
<1>1. /\ Append(s, p) \in Seq(Packets) /\ Append(s, p) # <<>>
      /\ DOMAIN Append(s, p) = 1 .. Len(s) + 1
      /\ Append(s, p)[Len(s) + 1] = p
      /\ \A i \in 1 .. Len(s) : Append(s, p)[i] = s[i]
  OBVIOUS
<1> QED BY <1>1 DEF Elements
-----------------------------------------------------------------------------
(* The inductive invariant, in parts.                                         *)

\* Timers run only while run() is in its loop, and the deadline only until the
\* subscription is live.
TimersAreWatched ==
  /\ run \in {"connecting", "ended"} => timers = {}
  /\ run = "connecting" => ~ subscribed
  /\ subscribed => "deadline" \notin timers

\* The idle clock runs for a live subscription, never past the limit while
\* nothing was stopped, and never ahead of the broker's silence.
IdleIsSilence ==
  /\ ~ subscribed => idleChecks = 0
  /\ stopped = "no" => idleChecks <= InboundIdleChecks
  /\ run # "ended" /\ stopped = "no" /\ inbound = <<>> => idleChecks <= unanswered

\* The broker answers once: a refusal excludes a live subscription.
AnswersAreFinal ==
  /\ broker = "awaitingConnect" => inbound = <<>> /\ ~ subscribed
  /\ broker = "connected" => ~ subscribed /\ Unread \subseteq {"accepted", "pingresp"}
  /\ Unread \cap Refusals # {} => ~ subscribed /\ "granted" \notin Unread

\* The end is where its reason is, and a refusal is kept until it.
EndsAreKept ==
  /\ ending = "none" <=> run # "ended"
  /\ run = "refusing" => detail # "none"
  /\ detail # "none" => run \in {"refusing", "ended"}
  /\ run = "ended" => (ending = "rejected" <=> detail # "none")

IInv == TypeOK /\ TimersAreWatched /\ IdleIsSilence /\ AnswersAreFinal /\ EndsAreKept

\* Every step keeps the types.
LEMMA TypeStep == ASSUME TypeOK, IdleIsSilence, [Next]_vars PROVE TypeOK'
<1> USE ClientAssumption
<1>1. ASSUME CallerStops PROVE TypeOK'
  BY <1>1 DEF TypeOK, Refusals, Packets, CallerStops, Stop, clientVars, clockVars, socketVars, brokerVars
<1>2. ASSUME DisconnectSent PROVE TypeOK'
  <2>1. wire' \subseteq {"CONNECT", "SUBSCRIBE", "DISCONNECT", "FIN"}
    BY <1>2 DEF TypeOK, DisconnectSent
  <2>2. closing' \in {"no", "disconnecting", "closing", "closed"}
    BY <1>2 DEF DisconnectSent
  <2> QED
    BY <1>2, <2>1, <2>2 DEF TypeOK, DisconnectSent, clientVars, clockVars, brokerVars
<1>3. ASSUME Closed PROVE TypeOK'
  BY <1>3 DEF TypeOK, Refusals, Packets, Closed, clientVars, clockVars, socketVars, brokerVars
<1>4. ASSUME ConnectSent PROVE TypeOK'
  BY <1>4 DEF TypeOK, Refusals, Packets, ConnectSent, stopVars, brokerVars
<1>5. ASSUME ConnectFails PROVE TypeOK'
  BY <1>5 DEF TypeOK, Refusals, Packets, ConnectFails, End, stopVars, brokerVars
<1>6. ASSUME Accepted PROVE TypeOK'
  BY <1>6, TailOfUnread DEF TypeOK, Refusals, Packets, Accepted, Reads, Received, stopVars, brokerVars
<1>7. ASSUME AcceptedTooLate PROVE TypeOK'
  BY <1>7, TailOfUnread DEF TypeOK, Refusals, Packets, AcceptedTooLate, Reads, End, stopVars, brokerVars
<1>8. ASSUME SubscribeSent PROVE TypeOK'
  BY <1>8 DEF TypeOK, Refusals, Packets, SubscribeSent, stopVars, brokerVars
<1>9. ASSUME SubscribeFails PROVE TypeOK'
  BY <1>9 DEF TypeOK, Refusals, Packets, SubscribeFails, End, stopVars, brokerVars
<1>10. ASSUME Granted PROVE TypeOK'
  BY <1>10, TailOfUnread DEF TypeOK, Refusals, Packets, Granted, Reads, Received, stopVars, brokerVars
<1>11. ASSUME Refused PROVE TypeOK'
  <2>1. inbound' \in Seq(Packets)
    BY <1>11, RestOfUnread DEF TypeOK, Refused, Reads
  <2>2. detail' \in Refusals
    BY <1>11 DEF Refused, Reads
  <2>3. /\ stopped' \in {"no", "caller", "deadline", "idle", "refusal"}
        /\ closing' \in {"no", "disconnecting", "closing", "closed"}
    BY <1>11 DEF TypeOK, Refused, Stop, stopVars
  <2>4. CASE stopped = "no"
    BY <1>11, <2>1, <2>2, <2>3, <2>4 DEF TypeOK, Refused, clockVars, brokerVars
  <2>5. CASE stopped # "no"
    BY <1>11, <2>1, <2>2, <2>3, <2>5 DEF TypeOK, Refused, End, brokerVars
  <2> QED
    BY <2>4, <2>5
<1>12. ASSUME RefusalReported PROVE TypeOK'
  BY <1>12 DEF TypeOK, Refusals, Packets, RefusalReported, End, stopVars, brokerVars
<1>13. ASSUME Report PROVE TypeOK'
  BY <1>13, TailOfUnread DEF TypeOK, Refusals, Packets, Report, Reads, Received, stopVars, brokerVars
<1>14. ASSUME Ponged PROVE TypeOK'
  BY <1>14, TailOfUnread DEF TypeOK, Refusals, Packets, Ponged, Reads, Received, clientVars, stopVars, brokerVars
<1>15. ASSUME ProtocolError PROVE TypeOK'
  BY <1>15, TailOfUnread DEF TypeOK, Refusals, Packets, ProtocolError, Reads, End, stopVars, brokerVars
<1>16. ASSUME StreamFails PROVE TypeOK'
  BY <1>16 DEF TypeOK, Refusals, Packets, StreamFails, End, stopVars, brokerVars
<1>17. ASSUME StreamEnds PROVE TypeOK'
  BY <1>17 DEF TypeOK, Refusals, Packets, StreamEnds, End, stopVars, brokerVars
<1>18. ASSUME DeadlineFires PROVE TypeOK'
  BY <1>18 DEF TypeOK, Refusals, Packets, DeadlineFires, Stop, stopVars, clientVars, socketVars, brokerVars
<1>19. ASSUME Tick PROVE TypeOK'
  <2>1. unanswered' \in 0 .. InboundIdleChecks + 1
    BY <1>19 DEF TypeOK, Tick
  <2>2. idleChecks' \in 0 .. InboundIdleChecks + 1
    BY <1>19 DEF TypeOK, IdleIsSilence, Tick
  <2>3. /\ stopped' \in {"no", "caller", "deadline", "idle", "refusal"}
        /\ closing' \in {"no", "disconnecting", "closing", "closed"}
    BY <1>19 DEF TypeOK, Tick, Stop, stopVars
  <2> QED
    BY <1>19, <2>1, <2>2, <2>3 DEF TypeOK, Tick, clientVars, socketVars
<1>20. ASSUME SocketCloses PROVE TypeOK'
  BY <1>20 DEF TypeOK, Refusals, Packets, SocketCloses, clientVars, stopVars, clockVars, brokerVars
<1>21. ASSUME ConnectionFails PROVE TypeOK'
  BY <1>21 DEF TypeOK, Refusals, Packets, ConnectionFails, clientVars, stopVars, clockVars, brokerVars
<1>22. ASSUME AnswerConnect PROVE TypeOK'
  BY <1>22, UnreadWithPacket DEF TypeOK, Refusals, Packets, AnswerConnect, BrokerSends, clientVars, stopVars, clockVars
<1>23. ASSUME AnswerSubscribe PROVE TypeOK'
  BY <1>23, UnreadWithPacket DEF TypeOK, Refusals, Packets, AnswerSubscribe, BrokerSends, clientVars, stopVars, clockVars
<1>24. ASSUME Publish PROVE TypeOK'
  BY <1>24, UnreadWithPacket DEF TypeOK, Refusals, Packets, Publish, BrokerSends, clientVars, stopVars, clockVars
<1>25. ASSUME AnswerPing PROVE TypeOK'
  BY <1>25, UnreadWithPacket DEF TypeOK, Refusals, Packets, AnswerPing, BrokerSends, clientVars, stopVars, clockVars
<1>26. ASSUME Misbehave PROVE TypeOK'
  BY <1>26, UnreadWithPacket DEF TypeOK, Refusals, Packets, Misbehave, BrokerSends, clientVars, stopVars, clockVars
<1>27. ASSUME Leave PROVE TypeOK'
  BY <1>27 DEF TypeOK, Refusals, Packets, Leave, clientVars, stopVars, clockVars
<1>28. ASSUME FallSilent PROVE TypeOK'
  BY <1>28 DEF TypeOK, Refusals, Packets, FallSilent, clientVars, stopVars, clockVars, socketVars
<1>29. ASSUME UNCHANGED vars PROVE TypeOK'
  BY <1>29 DEF TypeOK, Refusals, Packets, vars, clientVars, stopVars, clockVars, socketVars, brokerVars
<1> QED
  BY <1>1, <1>2, <1>3, <1>4, <1>5, <1>6, <1>7, <1>8, <1>9, <1>10, <1>11, <1>12, <1>13, <1>14, <1>15, <1>16, <1>17, <1>18, <1>19, <1>20, <1>21, <1>22, <1>23, <1>24, <1>25, <1>26, <1>27, <1>28, <1>29 DEF Next, Pump, Stopping, Broker

\* Every step keeps the timers watched.
LEMMA TimersStep == ASSUME TypeOK, TimersAreWatched, [Next]_vars PROVE TimersAreWatched'
<1> USE ClientAssumption
<1>1. ASSUME CallerStops PROVE TimersAreWatched'
  BY <1>1 DEF TypeOK, TimersAreWatched, CallerStops, Stop, clientVars, clockVars, socketVars, brokerVars
<1>2. ASSUME DisconnectSent PROVE TimersAreWatched'
  BY <1>2 DEF TypeOK, TimersAreWatched, DisconnectSent, clientVars, clockVars, brokerVars
<1>3. ASSUME Closed PROVE TimersAreWatched'
  BY <1>3 DEF TypeOK, TimersAreWatched, Closed, clientVars, clockVars, socketVars, brokerVars
<1>4. ASSUME ConnectSent PROVE TimersAreWatched'
  BY <1>4 DEF TypeOK, TimersAreWatched, ConnectSent, stopVars, brokerVars
<1>5. ASSUME ConnectFails PROVE TimersAreWatched'
  BY <1>5 DEF TypeOK, TimersAreWatched, ConnectFails, End, stopVars, brokerVars
<1>6. ASSUME Accepted PROVE TimersAreWatched'
  BY <1>6, TailOfUnread DEF TypeOK, TimersAreWatched, Accepted, Reads, Received, stopVars, brokerVars
<1>7. ASSUME AcceptedTooLate PROVE TimersAreWatched'
  BY <1>7, TailOfUnread DEF TypeOK, TimersAreWatched, AcceptedTooLate, Reads, End, stopVars, brokerVars
<1>8. ASSUME SubscribeSent PROVE TimersAreWatched'
  BY <1>8 DEF TypeOK, TimersAreWatched, SubscribeSent, stopVars, brokerVars
<1>9. ASSUME SubscribeFails PROVE TimersAreWatched'
  BY <1>9 DEF TypeOK, TimersAreWatched, SubscribeFails, End, stopVars, brokerVars
<1>10. ASSUME Granted PROVE TimersAreWatched'
  BY <1>10, TailOfUnread DEF TypeOK, TimersAreWatched, Granted, Reads, Received, stopVars, brokerVars
<1>11. ASSUME Refused PROVE TimersAreWatched'
  BY <1>11, TailOfUnread, RestOfUnread DEF TypeOK, TimersAreWatched, Refused, Reads, Stop, End, stopVars, clockVars, brokerVars
<1>12. ASSUME RefusalReported PROVE TimersAreWatched'
  BY <1>12 DEF TypeOK, TimersAreWatched, RefusalReported, End, stopVars, brokerVars
<1>13. ASSUME Report PROVE TimersAreWatched'
  BY <1>13, TailOfUnread DEF TypeOK, TimersAreWatched, Report, Reads, Received, stopVars, brokerVars
<1>14. ASSUME Ponged PROVE TimersAreWatched'
  BY <1>14, TailOfUnread DEF TypeOK, TimersAreWatched, Ponged, Reads, Received, clientVars, stopVars, brokerVars
<1>15. ASSUME ProtocolError PROVE TimersAreWatched'
  BY <1>15, TailOfUnread DEF TypeOK, TimersAreWatched, ProtocolError, Reads, End, stopVars, brokerVars
<1>16. ASSUME StreamFails PROVE TimersAreWatched'
  BY <1>16 DEF TypeOK, TimersAreWatched, StreamFails, End, stopVars, brokerVars
<1>17. ASSUME StreamEnds PROVE TimersAreWatched'
  BY <1>17 DEF TypeOK, TimersAreWatched, StreamEnds, End, stopVars, brokerVars
<1>18. ASSUME DeadlineFires PROVE TimersAreWatched'
  BY <1>18 DEF TypeOK, TimersAreWatched, DeadlineFires, Stop, stopVars, clientVars, socketVars, brokerVars
<1>19. ASSUME Tick PROVE TimersAreWatched'
  BY <1>19 DEF TypeOK, TimersAreWatched, Tick, Stop, stopVars, clientVars, socketVars
<1>20. ASSUME SocketCloses PROVE TimersAreWatched'
  BY <1>20 DEF TypeOK, TimersAreWatched, SocketCloses, clientVars, stopVars, clockVars, brokerVars
<1>21. ASSUME ConnectionFails PROVE TimersAreWatched'
  BY <1>21 DEF TypeOK, TimersAreWatched, ConnectionFails, clientVars, stopVars, clockVars, brokerVars
<1>22. ASSUME AnswerConnect PROVE TimersAreWatched'
  BY <1>22, UnreadWithPacket DEF TypeOK, TimersAreWatched, AnswerConnect, BrokerSends, clientVars, stopVars, clockVars
<1>23. ASSUME AnswerSubscribe PROVE TimersAreWatched'
  BY <1>23, UnreadWithPacket DEF TypeOK, TimersAreWatched, AnswerSubscribe, BrokerSends, clientVars, stopVars, clockVars
<1>24. ASSUME Publish PROVE TimersAreWatched'
  BY <1>24, UnreadWithPacket DEF TypeOK, TimersAreWatched, Publish, BrokerSends, clientVars, stopVars, clockVars
<1>25. ASSUME AnswerPing PROVE TimersAreWatched'
  BY <1>25, UnreadWithPacket DEF TypeOK, TimersAreWatched, AnswerPing, BrokerSends, clientVars, stopVars, clockVars
<1>26. ASSUME Misbehave PROVE TimersAreWatched'
  BY <1>26, UnreadWithPacket DEF TypeOK, TimersAreWatched, Misbehave, BrokerSends, clientVars, stopVars, clockVars
<1>27. ASSUME Leave PROVE TimersAreWatched'
  BY <1>27 DEF TypeOK, TimersAreWatched, Leave, clientVars, stopVars, clockVars
<1>28. ASSUME FallSilent PROVE TimersAreWatched'
  BY <1>28 DEF TypeOK, TimersAreWatched, FallSilent, clientVars, stopVars, clockVars, socketVars
<1>29. ASSUME UNCHANGED vars PROVE TimersAreWatched'
  BY <1>29 DEF TypeOK, TimersAreWatched, vars, clientVars, stopVars, clockVars, socketVars, brokerVars
<1> QED
  BY <1>1, <1>2, <1>3, <1>4, <1>5, <1>6, <1>7, <1>8, <1>9, <1>10, <1>11, <1>12, <1>13, <1>14, <1>15, <1>16, <1>17, <1>18, <1>19, <1>20, <1>21, <1>22, <1>23, <1>24, <1>25, <1>26, <1>27, <1>28, <1>29 DEF Next, Pump, Stopping, Broker

\* Every step keeps the idle clock behind the silence.
LEMMA IdleStep == ASSUME TypeOK, IdleIsSilence, [Next]_vars PROVE IdleIsSilence'
<1> USE ClientAssumption
<1>1. ASSUME CallerStops PROVE IdleIsSilence'
  BY <1>1 DEF TypeOK, IdleIsSilence, CallerStops, Stop, clientVars, clockVars, socketVars, brokerVars
<1>2. ASSUME DisconnectSent PROVE IdleIsSilence'
  BY <1>2 DEF TypeOK, IdleIsSilence, DisconnectSent, clientVars, clockVars, brokerVars
<1>3. ASSUME Closed PROVE IdleIsSilence'
  BY <1>3 DEF TypeOK, IdleIsSilence, Closed, clientVars, clockVars, socketVars, brokerVars
<1>4. ASSUME ConnectSent PROVE IdleIsSilence'
  BY <1>4 DEF TypeOK, IdleIsSilence, ConnectSent, stopVars, brokerVars
<1>5. ASSUME ConnectFails PROVE IdleIsSilence'
  BY <1>5 DEF TypeOK, IdleIsSilence, ConnectFails, End, stopVars, brokerVars
<1>6. ASSUME Accepted PROVE IdleIsSilence'
  BY <1>6, TailOfUnread DEF TypeOK, IdleIsSilence, Accepted, Reads, Received, stopVars, brokerVars
<1>7. ASSUME AcceptedTooLate PROVE IdleIsSilence'
  BY <1>7, TailOfUnread DEF TypeOK, IdleIsSilence, AcceptedTooLate, Reads, End, stopVars, brokerVars
<1>8. ASSUME SubscribeSent PROVE IdleIsSilence'
  BY <1>8 DEF TypeOK, IdleIsSilence, SubscribeSent, stopVars, brokerVars
<1>9. ASSUME SubscribeFails PROVE IdleIsSilence'
  BY <1>9 DEF TypeOK, IdleIsSilence, SubscribeFails, End, stopVars, brokerVars
<1>10. ASSUME Granted PROVE IdleIsSilence'
  BY <1>10, TailOfUnread DEF TypeOK, IdleIsSilence, Granted, Reads, Received, stopVars, brokerVars
<1>11. ASSUME Refused PROVE IdleIsSilence'
  BY <1>11, TailOfUnread, RestOfUnread DEF TypeOK, IdleIsSilence, Refused, Reads, Stop, End, stopVars, clockVars, brokerVars
<1>12. ASSUME RefusalReported PROVE IdleIsSilence'
  BY <1>12 DEF TypeOK, IdleIsSilence, RefusalReported, End, stopVars, brokerVars
<1>13. ASSUME Report PROVE IdleIsSilence'
  BY <1>13, TailOfUnread DEF TypeOK, IdleIsSilence, Report, Reads, Received, stopVars, brokerVars
<1>14. ASSUME Ponged PROVE IdleIsSilence'
  BY <1>14, TailOfUnread DEF TypeOK, IdleIsSilence, Ponged, Reads, Received, clientVars, stopVars, brokerVars
<1>15. ASSUME ProtocolError PROVE IdleIsSilence'
  BY <1>15, TailOfUnread DEF TypeOK, IdleIsSilence, ProtocolError, Reads, End, stopVars, brokerVars
<1>16. ASSUME StreamFails PROVE IdleIsSilence'
  BY <1>16 DEF TypeOK, IdleIsSilence, StreamFails, End, stopVars, brokerVars
<1>17. ASSUME StreamEnds PROVE IdleIsSilence'
  BY <1>17 DEF TypeOK, IdleIsSilence, StreamEnds, End, stopVars, brokerVars
<1>18. ASSUME DeadlineFires PROVE IdleIsSilence'
  BY <1>18 DEF TypeOK, IdleIsSilence, DeadlineFires, Stop, stopVars, clientVars, socketVars, brokerVars
<1>19. ASSUME Tick PROVE IdleIsSilence'
  BY <1>19 DEF TypeOK, IdleIsSilence, Tick, Stop, stopVars, clientVars, socketVars
<1>20. ASSUME SocketCloses PROVE IdleIsSilence'
  BY <1>20 DEF TypeOK, IdleIsSilence, SocketCloses, clientVars, stopVars, clockVars, brokerVars
<1>21. ASSUME ConnectionFails PROVE IdleIsSilence'
  BY <1>21 DEF TypeOK, IdleIsSilence, ConnectionFails, clientVars, stopVars, clockVars, brokerVars
<1>22. ASSUME AnswerConnect PROVE IdleIsSilence'
  BY <1>22, UnreadWithPacket DEF TypeOK, IdleIsSilence, AnswerConnect, BrokerSends, clientVars, stopVars, clockVars
<1>23. ASSUME AnswerSubscribe PROVE IdleIsSilence'
  BY <1>23, UnreadWithPacket DEF TypeOK, IdleIsSilence, AnswerSubscribe, BrokerSends, clientVars, stopVars, clockVars
<1>24. ASSUME Publish PROVE IdleIsSilence'
  BY <1>24, UnreadWithPacket DEF TypeOK, IdleIsSilence, Publish, BrokerSends, clientVars, stopVars, clockVars
<1>25. ASSUME AnswerPing PROVE IdleIsSilence'
  BY <1>25, UnreadWithPacket DEF TypeOK, IdleIsSilence, AnswerPing, BrokerSends, clientVars, stopVars, clockVars
<1>26. ASSUME Misbehave PROVE IdleIsSilence'
  BY <1>26, UnreadWithPacket DEF TypeOK, IdleIsSilence, Misbehave, BrokerSends, clientVars, stopVars, clockVars
<1>27. ASSUME Leave PROVE IdleIsSilence'
  BY <1>27 DEF TypeOK, IdleIsSilence, Leave, clientVars, stopVars, clockVars
<1>28. ASSUME FallSilent PROVE IdleIsSilence'
  BY <1>28 DEF TypeOK, IdleIsSilence, FallSilent, clientVars, stopVars, clockVars, socketVars
<1>29. ASSUME UNCHANGED vars PROVE IdleIsSilence'
  BY <1>29 DEF TypeOK, IdleIsSilence, vars, clientVars, stopVars, clockVars, socketVars, brokerVars
<1> QED
  BY <1>1, <1>2, <1>3, <1>4, <1>5, <1>6, <1>7, <1>8, <1>9, <1>10, <1>11, <1>12, <1>13, <1>14, <1>15, <1>16, <1>17, <1>18, <1>19, <1>20, <1>21, <1>22, <1>23, <1>24, <1>25, <1>26, <1>27, <1>28, <1>29 DEF Next, Pump, Stopping, Broker

\* Every step keeps the broker's answers final.
LEMMA AnswersStep == ASSUME TypeOK, AnswersAreFinal, [Next]_vars PROVE AnswersAreFinal'
<1> USE ClientAssumption
<1>1. ASSUME CallerStops PROVE AnswersAreFinal'
  BY <1>1 DEF TypeOK, AnswersAreFinal, Unread, Refusals, Packets, CallerStops, Stop, clientVars, clockVars, socketVars, brokerVars
<1>2. ASSUME DisconnectSent PROVE AnswersAreFinal'
  BY <1>2 DEF TypeOK, AnswersAreFinal, Unread, Refusals, Packets, DisconnectSent, clientVars, clockVars, brokerVars
<1>3. ASSUME Closed PROVE AnswersAreFinal'
  BY <1>3 DEF TypeOK, AnswersAreFinal, Unread, Refusals, Packets, Closed, clientVars, clockVars, socketVars, brokerVars
<1>4. ASSUME ConnectSent PROVE AnswersAreFinal'
  BY <1>4 DEF TypeOK, AnswersAreFinal, Unread, Refusals, Packets, ConnectSent, stopVars, brokerVars
<1>5. ASSUME ConnectFails PROVE AnswersAreFinal'
  BY <1>5 DEF TypeOK, AnswersAreFinal, Unread, Refusals, Packets, ConnectFails, End, stopVars, brokerVars
<1>6. ASSUME Accepted PROVE AnswersAreFinal'
  BY <1>6, TailOfUnread DEF TypeOK, AnswersAreFinal, Unread, Refusals, Packets, Accepted, Reads, Received, stopVars, brokerVars
<1>7. ASSUME AcceptedTooLate PROVE AnswersAreFinal'
  BY <1>7, TailOfUnread DEF TypeOK, AnswersAreFinal, Unread, Refusals, Packets, AcceptedTooLate, Reads, End, stopVars, brokerVars
<1>8. ASSUME SubscribeSent PROVE AnswersAreFinal'
  BY <1>8 DEF TypeOK, AnswersAreFinal, Unread, Refusals, Packets, SubscribeSent, stopVars, brokerVars
<1>9. ASSUME SubscribeFails PROVE AnswersAreFinal'
  BY <1>9 DEF TypeOK, AnswersAreFinal, Unread, Refusals, Packets, SubscribeFails, End, stopVars, brokerVars
<1>10. ASSUME Granted PROVE AnswersAreFinal'
  BY <1>10, TailOfUnread DEF TypeOK, AnswersAreFinal, Unread, Refusals, Packets, Granted, Reads, Received, stopVars, brokerVars
<1>11. ASSUME Refused PROVE AnswersAreFinal'
  BY <1>11, TailOfUnread, RestOfUnread DEF TypeOK, AnswersAreFinal, Unread, Refusals, Packets, Refused, Reads, Stop, End, stopVars, clockVars, brokerVars
<1>12. ASSUME RefusalReported PROVE AnswersAreFinal'
  BY <1>12 DEF TypeOK, AnswersAreFinal, Unread, Refusals, Packets, RefusalReported, End, stopVars, brokerVars
<1>13. ASSUME Report PROVE AnswersAreFinal'
  BY <1>13, TailOfUnread DEF TypeOK, AnswersAreFinal, Unread, Refusals, Packets, Report, Reads, Received, stopVars, brokerVars
<1>14. ASSUME Ponged PROVE AnswersAreFinal'
  BY <1>14, TailOfUnread DEF TypeOK, AnswersAreFinal, Unread, Refusals, Packets, Ponged, Reads, Received, clientVars, stopVars, brokerVars
<1>15. ASSUME ProtocolError PROVE AnswersAreFinal'
  BY <1>15, TailOfUnread DEF TypeOK, AnswersAreFinal, Unread, Refusals, Packets, ProtocolError, Reads, End, stopVars, brokerVars
<1>16. ASSUME StreamFails PROVE AnswersAreFinal'
  BY <1>16 DEF TypeOK, AnswersAreFinal, Unread, Refusals, Packets, StreamFails, End, stopVars, brokerVars
<1>17. ASSUME StreamEnds PROVE AnswersAreFinal'
  BY <1>17 DEF TypeOK, AnswersAreFinal, Unread, Refusals, Packets, StreamEnds, End, stopVars, brokerVars
<1>18. ASSUME DeadlineFires PROVE AnswersAreFinal'
  BY <1>18 DEF TypeOK, AnswersAreFinal, Unread, Refusals, Packets, DeadlineFires, Stop, stopVars, clientVars, socketVars, brokerVars
<1>19. ASSUME Tick PROVE AnswersAreFinal'
  BY <1>19 DEF TypeOK, AnswersAreFinal, Unread, Refusals, Packets, Tick, Stop, stopVars, clientVars, socketVars
<1>20. ASSUME SocketCloses PROVE AnswersAreFinal'
  BY <1>20 DEF TypeOK, AnswersAreFinal, Unread, Refusals, Packets, SocketCloses, clientVars, stopVars, clockVars, brokerVars
<1>21. ASSUME ConnectionFails PROVE AnswersAreFinal'
  BY <1>21 DEF TypeOK, AnswersAreFinal, Unread, Refusals, Packets, ConnectionFails, clientVars, stopVars, clockVars, brokerVars
<1>22. ASSUME AnswerConnect PROVE AnswersAreFinal'
  <2>1. PICK answer \in {"accepted", "unauthorized", "unavailable"} :
          BrokerSends(answer, IF answer = "accepted" THEN "connected" ELSE "refusing")
    BY <1>22 DEF AnswerConnect
  <2>2. ~ subscribed /\ Unread = {}
    BY <1>22 DEF AnswersAreFinal, AnswerConnect, Unread, Elements
  <2>3. Unread' \subseteq {answer}
    BY <2>1, <2>2, UnreadWithPacket DEF TypeOK, BrokerSends, Unread, Packets, Refusals
  <2> QED
    BY <2>1, <2>2, <2>3 DEF AnswersAreFinal, BrokerSends, Refusals, clientVars
<1>23. ASSUME AnswerSubscribe PROVE AnswersAreFinal'
  BY <1>23, UnreadWithPacket DEF TypeOK, AnswersAreFinal, Unread, Refusals, Packets, AnswerSubscribe, BrokerSends, clientVars, stopVars, clockVars
<1>24. ASSUME Publish PROVE AnswersAreFinal'
  BY <1>24, UnreadWithPacket DEF TypeOK, AnswersAreFinal, Unread, Refusals, Packets, Publish, BrokerSends, clientVars, stopVars, clockVars
<1>25. ASSUME AnswerPing PROVE AnswersAreFinal'
  BY <1>25, UnreadWithPacket DEF TypeOK, AnswersAreFinal, Unread, Refusals, Packets, AnswerPing, BrokerSends, clientVars, stopVars, clockVars
<1>26. ASSUME Misbehave PROVE AnswersAreFinal'
  BY <1>26, UnreadWithPacket DEF TypeOK, AnswersAreFinal, Unread, Refusals, Packets, Misbehave, BrokerSends, clientVars, stopVars, clockVars
<1>27. ASSUME Leave PROVE AnswersAreFinal'
  BY <1>27 DEF TypeOK, AnswersAreFinal, Unread, Refusals, Packets, Leave, clientVars, stopVars, clockVars
<1>28. ASSUME FallSilent PROVE AnswersAreFinal'
  BY <1>28 DEF TypeOK, AnswersAreFinal, Unread, Refusals, Packets, FallSilent, clientVars, stopVars, clockVars, socketVars
<1>29. ASSUME UNCHANGED vars PROVE AnswersAreFinal'
  BY <1>29 DEF TypeOK, AnswersAreFinal, Unread, Refusals, Packets, vars, clientVars, stopVars, clockVars, socketVars, brokerVars
<1> QED
  BY <1>1, <1>2, <1>3, <1>4, <1>5, <1>6, <1>7, <1>8, <1>9, <1>10, <1>11, <1>12, <1>13, <1>14, <1>15, <1>16, <1>17, <1>18, <1>19, <1>20, <1>21, <1>22, <1>23, <1>24, <1>25, <1>26, <1>27, <1>28, <1>29 DEF Next, Pump, Stopping, Broker

\* Every step keeps an end with its reason.
LEMMA EndsStep == ASSUME TypeOK, EndsAreKept, [Next]_vars PROVE EndsAreKept'
<1> USE ClientAssumption
<1>1. ASSUME CallerStops PROVE EndsAreKept'
  BY <1>1 DEF TypeOK, EndsAreKept, Refusals, CallerStops, Stop, clientVars, clockVars, socketVars, brokerVars
<1>2. ASSUME DisconnectSent PROVE EndsAreKept'
  BY <1>2 DEF TypeOK, EndsAreKept, Refusals, DisconnectSent, clientVars, clockVars, brokerVars
<1>3. ASSUME Closed PROVE EndsAreKept'
  BY <1>3 DEF TypeOK, EndsAreKept, Refusals, Closed, clientVars, clockVars, socketVars, brokerVars
<1>4. ASSUME ConnectSent PROVE EndsAreKept'
  BY <1>4 DEF TypeOK, EndsAreKept, Refusals, ConnectSent, stopVars, brokerVars
<1>5. ASSUME ConnectFails PROVE EndsAreKept'
  BY <1>5 DEF TypeOK, EndsAreKept, Refusals, ConnectFails, End, stopVars, brokerVars
<1>6. ASSUME Accepted PROVE EndsAreKept'
  BY <1>6, TailOfUnread DEF TypeOK, EndsAreKept, Refusals, Accepted, Reads, Received, stopVars, brokerVars
<1>7. ASSUME AcceptedTooLate PROVE EndsAreKept'
  BY <1>7, TailOfUnread DEF TypeOK, EndsAreKept, Refusals, AcceptedTooLate, Reads, End, stopVars, brokerVars
<1>8. ASSUME SubscribeSent PROVE EndsAreKept'
  BY <1>8 DEF TypeOK, EndsAreKept, Refusals, SubscribeSent, stopVars, brokerVars
<1>9. ASSUME SubscribeFails PROVE EndsAreKept'
  BY <1>9 DEF TypeOK, EndsAreKept, Refusals, SubscribeFails, End, stopVars, brokerVars
<1>10. ASSUME Granted PROVE EndsAreKept'
  BY <1>10, TailOfUnread DEF TypeOK, EndsAreKept, Refusals, Granted, Reads, Received, stopVars, brokerVars
<1>11. ASSUME Refused PROVE EndsAreKept'
  BY <1>11, TailOfUnread, RestOfUnread DEF TypeOK, EndsAreKept, Refusals, Refused, Reads, Stop, End, stopVars, clockVars, brokerVars
<1>12. ASSUME RefusalReported PROVE EndsAreKept'
  BY <1>12 DEF TypeOK, EndsAreKept, Refusals, RefusalReported, End, stopVars, brokerVars
<1>13. ASSUME Report PROVE EndsAreKept'
  BY <1>13, TailOfUnread DEF TypeOK, EndsAreKept, Refusals, Report, Reads, Received, stopVars, brokerVars
<1>14. ASSUME Ponged PROVE EndsAreKept'
  BY <1>14, TailOfUnread DEF TypeOK, EndsAreKept, Refusals, Ponged, Reads, Received, clientVars, stopVars, brokerVars
<1>15. ASSUME ProtocolError PROVE EndsAreKept'
  BY <1>15, TailOfUnread DEF TypeOK, EndsAreKept, Refusals, ProtocolError, Reads, End, stopVars, brokerVars
<1>16. ASSUME StreamFails PROVE EndsAreKept'
  BY <1>16 DEF TypeOK, EndsAreKept, Refusals, StreamFails, End, stopVars, brokerVars
<1>17. ASSUME StreamEnds PROVE EndsAreKept'
  BY <1>17 DEF TypeOK, EndsAreKept, Refusals, StreamEnds, End, stopVars, brokerVars
<1>18. ASSUME DeadlineFires PROVE EndsAreKept'
  BY <1>18 DEF TypeOK, EndsAreKept, Refusals, DeadlineFires, Stop, stopVars, clientVars, socketVars, brokerVars
<1>19. ASSUME Tick PROVE EndsAreKept'
  BY <1>19 DEF TypeOK, EndsAreKept, Refusals, Tick, Stop, stopVars, clientVars, socketVars
<1>20. ASSUME SocketCloses PROVE EndsAreKept'
  BY <1>20 DEF TypeOK, EndsAreKept, Refusals, SocketCloses, clientVars, stopVars, clockVars, brokerVars
<1>21. ASSUME ConnectionFails PROVE EndsAreKept'
  BY <1>21 DEF TypeOK, EndsAreKept, Refusals, ConnectionFails, clientVars, stopVars, clockVars, brokerVars
<1>22. ASSUME AnswerConnect PROVE EndsAreKept'
  BY <1>22, UnreadWithPacket DEF TypeOK, EndsAreKept, Refusals, AnswerConnect, BrokerSends, clientVars, stopVars, clockVars
<1>23. ASSUME AnswerSubscribe PROVE EndsAreKept'
  BY <1>23, UnreadWithPacket DEF TypeOK, EndsAreKept, Refusals, AnswerSubscribe, BrokerSends, clientVars, stopVars, clockVars
<1>24. ASSUME Publish PROVE EndsAreKept'
  BY <1>24, UnreadWithPacket DEF TypeOK, EndsAreKept, Refusals, Publish, BrokerSends, clientVars, stopVars, clockVars
<1>25. ASSUME AnswerPing PROVE EndsAreKept'
  BY <1>25, UnreadWithPacket DEF TypeOK, EndsAreKept, Refusals, AnswerPing, BrokerSends, clientVars, stopVars, clockVars
<1>26. ASSUME Misbehave PROVE EndsAreKept'
  BY <1>26, UnreadWithPacket DEF TypeOK, EndsAreKept, Refusals, Misbehave, BrokerSends, clientVars, stopVars, clockVars
<1>27. ASSUME Leave PROVE EndsAreKept'
  BY <1>27 DEF TypeOK, EndsAreKept, Refusals, Leave, clientVars, stopVars, clockVars
<1>28. ASSUME FallSilent PROVE EndsAreKept'
  BY <1>28 DEF TypeOK, EndsAreKept, Refusals, FallSilent, clientVars, stopVars, clockVars, socketVars
<1>29. ASSUME UNCHANGED vars PROVE EndsAreKept'
  BY <1>29 DEF TypeOK, EndsAreKept, Refusals, vars, clientVars, stopVars, clockVars, socketVars, brokerVars
<1> QED
  BY <1>1, <1>2, <1>3, <1>4, <1>5, <1>6, <1>7, <1>8, <1>9, <1>10, <1>11, <1>12, <1>13, <1>14, <1>15, <1>16, <1>17, <1>18, <1>19, <1>20, <1>21, <1>22, <1>23, <1>24, <1>25, <1>26, <1>27, <1>28, <1>29 DEF Next, Pump, Stopping, Broker

\* The parts together are inductive.
LEMMA IInvHolds == Spec => []IInv
<1>1. Init => IInv
  <2> SUFFICES ASSUME Init PROVE IInv
    OBVIOUS
  <2>1. /\ 0 \in 0 .. InboundIdleChecks + 1 /\ 0 \in 0 .. MaxReports
        /\ <<>> \in Seq(Packets)
    BY ClientAssumption
  <2>2. TypeOK
    BY <2>1 DEF Init, TypeOK
  <2> QED
    BY <2>2, ClientAssumption
    DEF Init, IInv, TimersAreWatched, IdleIsSilence, AnswersAreFinal, EndsAreKept,
        Unread, Elements
<1>2. IInv /\ [Next]_vars => IInv'
  BY TypeStep, TimersStep, IdleStep, AnswersStep, EndsStep DEF IInv
<1> QED
  BY <1>1, <1>2, PTL DEF Spec

\* The types of the client, its socket and the broker.
THEOREM TypeCorrect == Spec => []TypeOK
<1>1. IInv => TypeOK
  BY DEF IInv
<1> QED
  BY IInvHolds, <1>1, PTL

\* A live subscription is stopped only by its caller, or behind a broker silent
\* for the whole idle limit: never by the deadline of the handshake.
THEOREM SubscriptionKept == Spec => SubscribedIsKept
<1> DEFINE Excuse == \/ stopped' = "caller"
                     \/ unanswered >= InboundIdleChecks
                     \/ inbound # <<>>
<1>1. ASSUME IInv, Next, subscribed, stopped = "no", stopped' # "no"
      PROVE  Excuse
  <2>1. CASE CallerStops
    BY <1>1, <2>1 DEF CallerStops, Stop
  <2>2. CASE Stopping
    BY <1>1, <2>2 DEF Stopping, DisconnectSent, Closed, stopVars
  <2>3. CASE Refused
    BY <2>3 DEF Refused, Reads
  <2>4. CASE Pump /\ ~ Refused
    BY <1>1, <2>4 DEF Pump, ConnectSent, ConnectFails, Accepted, AcceptedTooLate,
       SubscribeSent, SubscribeFails, Granted, RefusalReported, Report, Ponged,
       ProtocolError, StreamFails, StreamEnds, stopVars
  <2>5. CASE DeadlineFires
    BY <1>1, <2>5 DEF IInv, TimersAreWatched, DeadlineFires
  <2>6. CASE Tick
    <3>1. run # "ended" /\ idleChecks \in Nat /\ unanswered \in Nat
      BY <1>1, <2>6 DEF IInv, TypeOK, TimersAreWatched, Tick
    <3>2. idleChecks + 1 > InboundIdleChecks
      BY <1>1, <2>6 DEF Tick, stopVars
    <3> QED
      BY <1>1, <3>1, <3>2, ClientAssumption DEF IInv, IdleIsSilence
  <2>7. CASE SocketCloses \/ ConnectionFails \/ Broker
    BY <1>1, <2>7 DEF SocketCloses, ConnectionFails, Broker, AnswerConnect, AnswerSubscribe,
       Publish, AnswerPing, Misbehave, BrokerSends, Leave, FallSilent, stopVars
  <2> QED
    BY <1>1, <2>1, <2>2, <2>3, <2>4, <2>5, <2>6, <2>7 DEF Next
<1>2. IInv /\ [Next]_vars
        => [subscribed /\ stopped = "no" /\ stopped' # "no" => Excuse]_vars
  BY <1>1 DEF vars, stopVars
<1> QED
  BY IInvHolds, <1>2, PTL DEF Spec, SubscribedIsKept

-----------------------------------------------------------------------------
(* MqttClient implements Subscription.                                        *)

\* Every way out of run() is the End of the promise.
LEMMA EndImplements ==
  ASSUME IInv, NEW reason \in Promise!Reasons, End(reason), run # "ended",
         reason = "rejected" <=> detail' # "none",
         detail' = detail \/ (~ subscribed /\ detail' # "none")
  PROVE  Promise!End
  BY DEF End, Promise!End, IInv, TypeOK

\* In particular every end of a session that was not refused.
LEMMA PlainEndImplements ==
  ASSUME IInv, run # "ended", detail = "none", UNCHANGED detail,
         NEW reason \in {"closed-by-broker", "closed-by-caller", "failed"}, End(reason)
  PROVE  Promise!End
  BY DEF End, Promise!End, Promise!Reasons

\* A step that touches none of the promise's variables stutters.
LEMMA Stutters ==
  ASSUME UNCHANGED clientVars
  PROVE  UNCHANGED Promise!subscriptionVars
  BY DEF clientVars, Promise!subscriptionVars

\* Every step of the client is one of the promise, or changes nothing of it.
LEMMA StepImplements ==
  ASSUME IInv, [Next]_vars
  PROVE  [Promise!Next]_(Promise!subscriptionVars)
<1> USE DEF Promise!Next, Promise!Reasons
<1>1. ASSUME CallerStops \/ Stopping \/ DeadlineFires \/ Tick \/ SocketCloses
             \/ ConnectionFails \/ Broker \/ Ponged \/ UNCHANGED vars
      PROVE  UNCHANGED clientVars
  BY <1>1 DEF CallerStops, Stopping, DisconnectSent, Closed, DeadlineFires, Tick, SocketCloses,
     ConnectionFails, Broker, AnswerConnect, AnswerSubscribe, Publish, AnswerPing, Misbehave,
     BrokerSends, Leave, FallSilent, Ponged, vars
<1>2. ASSUME ConnectSent \/ Accepted \/ SubscribeSent
      PROVE  UNCHANGED Promise!subscriptionVars
  BY <1>2 DEF ConnectSent, Accepted, SubscribeSent, Reads, Promise!subscriptionVars
<1>3. ASSUME Granted
      PROVE  Promise!Announce \/ UNCHANGED Promise!subscriptionVars
  BY <1>3 DEF Granted, Reads, IInv, TypeOK, EndsAreKept, Promise!Announce,
     Promise!subscriptionVars
<1>4. ASSUME Report
      PROVE  Promise!Deliver
  BY <1>4 DEF Report, Reads, IInv, EndsAreKept, Promise!Deliver
<1>5. ASSUME Refused
      PROVE  Promise!Refuse \/ Promise!End
  <2>1. /\ ~ subscribed /\ detail = "none" /\ detail' \in Refusals
        /\ run # "ended"
    BY <1>5, TailOfUnread
    DEF Refused, Reads, IInv, TypeOK, AnswersAreFinal, EndsAreKept, Unread
  <2>2. CASE stopped = "no"
    BY <1>5, <2>1, <2>2 DEF Refused, Refusals, Promise!Refuse
  <2>3. CASE stopped # "no"
    BY <1>5, <2>1, <2>3, EndImplements DEF Refused, Refusals
  <2> QED
    BY <2>2, <2>3
<1>6. ASSUME RefusalReported
      PROVE  Promise!End
  BY <1>6, EndImplements DEF RefusalReported, IInv, EndsAreKept
<1>7. ASSUME ConnectFails \/ SubscribeFails \/ AcceptedTooLate \/ ProtocolError \/ StreamFails
      PROVE  Promise!End
  <2>1. End("failed") /\ UNCHANGED detail /\ run \notin {"refusing", "ended"}
    BY <1>7
    DEF ConnectFails, SubscribeFails, AcceptedTooLate, ProtocolError, StreamFails, Reads
  <2>2. detail = "none"
    BY <2>1 DEF IInv, EndsAreKept
  <2> QED
    BY <2>1, <2>2, PlainEndImplements
<1>8. ASSUME StreamEnds
      PROVE  Promise!End
  <2>1. PICK reason \in {"failed", "closed-by-broker", "closed-by-caller"} : End(reason)
    <3>1. CASE stopped = "idle"
      BY <1>8, <3>1, Zenon DEF StreamEnds
    <3>2. CASE stopped = "no"
      BY <1>8, <3>2, Zenon DEF StreamEnds
    <3>3. CASE stopped \notin {"idle", "no"}
      BY <1>8, <3>3, Zenon DEF StreamEnds
    <3> QED
      BY <3>1, <3>2, <3>3
  <2>2. detail' = detail /\ detail = "none" /\ run # "ended"
    BY <1>8 DEF StreamEnds, IInv, EndsAreKept
  <2> QED
    BY <2>1, <2>2, PlainEndImplements
<1> QED
  BY <1>1, <1>2, <1>3, <1>4, <1>5, <1>6, <1>7, <1>8, Stutters DEF Next, Pump

\* Reports until one end, one announcement before it, and "rejected" exactly
\* for a broker that refused: what the callers of watchCloudMqtt rely on.
THEOREM Implements == Spec => ImplementsSubscription
<1>1. Init => Promise!Init
  BY DEF Init, Promise!Init
<1> QED
  BY <1>1, StepImplements, IInvHolds, PTL DEF Spec, ImplementsSubscription, Promise!Spec
=============================================================================

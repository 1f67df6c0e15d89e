----------------------------- MODULE Subscription -----------------------------
(***************************************************************************)
(* What watchCloudMqtt promises its callers (the account session of the    *)
(* collector and the telemetry loop of the bridge): reports may arrive     *)
(* until the one end, the subscription is announced at most once and       *)
(* before the end, and "rejected" is said only of a broker that refused.   *)
(* The module MqttClient implements it.                                    *)
(***************************************************************************)
EXTENDS Naturals

VARIABLES
  stage,        \* "opening", "live" after onSubscribed, "over" after the end
  ending,       \* the reason of the SessionEnd, "none" before it
  refused,      \* the broker refused the connection or a subscription
  delivered     \* calls of onReport

subscriptionVars == <<stage, ending, refused, delivered>>

Reasons == {"closed-by-broker", "closed-by-caller", "rejected", "failed"}

Init ==
  /\ stage = "opening" /\ ending = "none"
  /\ refused = FALSE
  /\ delivered = 0

Announce ==
  /\ stage = "opening" /\ ~refused
  /\ stage' = "live"
  /\ UNCHANGED <<ending, refused, delivered>>

Deliver ==
  /\ stage # "over" /\ ~refused
  /\ delivered' = delivered + 1
  /\ UNCHANGED <<stage, ending, refused>>

Refuse ==
  /\ stage = "opening" /\ ~refused
  /\ refused' = TRUE
  /\ UNCHANGED <<stage, ending, delivered>>

End ==
  /\ stage # "over"
  /\ stage' = "over"
  /\ refused' \in IF stage = "opening" THEN {refused, TRUE} ELSE {refused}
  /\ ending' \in Reasons
  /\ ending' = "rejected" <=> refused'
  /\ UNCHANGED delivered

Next == Announce \/ Deliver \/ Refuse \/ End

Spec == Init /\ [][Next]_subscriptionVars
=============================================================================

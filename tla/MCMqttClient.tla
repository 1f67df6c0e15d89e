----------------------------- MODULE MCMqttClient -----------------------------
(* The instance of MqttClient for TLC; its bounds are in the configurations. *)
EXTENDS MqttClient
=============================================================================

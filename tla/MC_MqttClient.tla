---------------------------- MODULE MC_MqttClient ----------------------------
(***************************************************************************)
(* Finite instance of MqttClient: two brokers that fail independently, and *)
(* attempts counted until well past the longest delay.                     *)
(***************************************************************************)
EXTENDS MqttClient

CONSTANTS primary, backup

MCBroker == {primary, backup}
=============================================================================

---------------------------- MODULE MCMqttSession ----------------------------
(***************************************************************************)
(* Instances of MqttSession for TLC. The topics stand for the kinds that   *)
(* have a handler: with a response (Query) and without (Register/Response).*)
(***************************************************************************)
EXTENDS MqttSession
=============================================================================

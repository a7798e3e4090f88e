----------------------------- MODULE MCMqttClient -----------------------------
(* Two topics of QoS 2, whose identifiers wrap, and messages from the broker  *)
(* with each kind of payload.                                                 *)
EXTENDS MqttClient

MCQos == [t \in Topics |-> 2]
MCReceived == {[qos |-> 2, payload |-> "whole"], [qos |-> 2, payload |-> "late"],
               [qos |-> 2, payload |-> "empty"], [qos |-> 1, payload |-> "part"]}
=============================================================================

--------------------------- MODULE MCMqttSnClient ---------------------------
(***************************************************************************)
(* An instance of MqttSnClient for TLC: a topic that is published, one     *)
(* that is subscribed to, and the first one again as a subscription, so    *)
(* that two entries have the same topic id.                                *)
(***************************************************************************)
EXTENDS MqttSnClient

MCTopicId == [i \in Topics |-> IF i = 1 THEN 12 ELSE 11]
=============================================================================

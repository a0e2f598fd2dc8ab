------------------------ MODULE MC_MqttConfiguration ------------------------
(* Instantiation of MqttConfiguration for TLC: every setter, every         *)
(* allocation failure, and two setter calls, so that a second call of a   *)
(* group can follow a first one, or a failed one, while a reconnect runs.  *)
EXTENDS MqttConfiguration

MC_AllGroups == AllGroups
MC_AllFaults == {"topic_copy", "payload_copy", "login_copy", "proxy_new"}
MC_NoFaults == {}
MC_MaxCalls == 2
=============================================================================

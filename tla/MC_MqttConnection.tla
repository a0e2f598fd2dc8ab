------------------------- MODULE MC_MqttConnection -------------------------
(* Instantiation of MqttConnection for TLC: three publish operations and  *)
(* two packet ids, so that every id can be in use at once, allocation     *)
(* wraps around and reuses freed ids, and "no free id" is refused.        *)
EXTENDS MqttConnection

CONSTANTS o1, o2, o3

MC_Ops == {o1, o2, o3}
MC_MaxPacketId == 2

\* One operation: enough for the lifecycle and liveness runs.
MC_OneOp == {o1}

\* Without an operation timeout; with one (the timeout-and-reuse runs).
MC_NoTimeouts == {FALSE}
MC_AllTimeouts == BOOLEAN
MC_Timeout == {TRUE}

\* A connect whose TLS options fail to copy leaves the connection stuck in
\* CONNECTING with no channel, and a later release then stops every step
\* (a deadlock TLC would report in every run); the runs explore the other
\* outcomes.
MC_ConnectPaths == ConnectOutcomes \ {"tls_fail"}

MC_Symmetry == Permutations(MC_Ops)
=============================================================================

----------------------- MODULE MC_MqttSubscriptions -----------------------
(* Instantiation of MqttSubscriptions for TLC.  Three requests over two   *)
(* filters let a subscribe, a second subscribe or unsubscribe of the same *)
(* filter and a resubscribe interleave; one transport loss makes every    *)
(* kind of request resend or be cancelled.                                *)
EXTENDS MqttSubscriptions, TLC

CONSTANTS r1, r2, r3, f1, f2

MC_Reqs == {r1, r2, r3}
MC_Filters == {f1, f2}
MC_TwoReqs == {r1, r2}
MC_OneFilter == {f1}

MC_AllKinds == {"sub", "multi", "local", "unsub", "resub"}
MC_Resub == {"sub", "resub"}

MC_AllFaults == {"alloc", "encode", "handoff", "timer"}
MC_Encode == {"encode"}

MC_AnySession == {TRUE, FALSE}
MC_Persistent == {FALSE}

MC_Symmetry == Permutations(MC_Reqs) \cup Permutations(MC_Filters)
=============================================================================

------------------------ MODULE MC_ReconnectBackoff ------------------------
(* Instantiation of ReconnectBackoff for TLC.  Four-bit integers stand   *)
(* for the code's 64-bit seconds: with bounds <<1, 15>> the backoff climbs *)
(* 1, 2, 4, 8, 15, and doubling 8 or 15 would wrap without the guard.  The *)
(* user may also configure <<3, 7>>: an odd max_sec is where the guard's   *)
(* comparison with max_sec / 2 could be off by one, and switching bounds   *)
(* while CONNECTED leaves current_sec above the new max_sec.               *)
EXTENDS ReconnectBackoff

MC_W == 4
MC_Bounds == {<<1, 15>>, <<3, 7>>}

\* Every s_mqtt_client_connect call starts a channel, or may also fail at
\* once.
MC_Started == {"started"}
MC_AnyOutcome == {"started", "sync_fail"}
=============================================================================

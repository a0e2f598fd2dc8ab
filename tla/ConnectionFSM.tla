---------------------------- MODULE ConnectionFSM ----------------------------
(***************************************************************************)
(* The connection state machine as spec.md section 4.4 tables it, with the *)
(* bound transport slot of section 3.  Three variables:                    *)
(*   state        one of the five ConnectionStates;                        *)
(*   interrupted  the connection was lost after a CONNACK and has not yet  *)
(*                resumed or been stopped: a CONNECTING in this mode is a  *)
(*                reconnect attempt ("error path loops back to             *)
(*                RECONNECTING"), one outside it is the user's connect     *)
(*                (failure: DISCONNECTED);                                 *)
(*   bound        the transport slot is installed.                         *)
(* The slot is installed only by "transport up" while CONNECTING and must  *)
(* be gone before DISCONNECTED or RECONNECTING is entered, so it is never  *)
(* present outside CONNECTING, CONNECTED and DISCONNECTING.  MqttConnection*)
(* is shown to implement this module.                                      *)
(***************************************************************************)

VARIABLES state, interrupted, bound

vars == <<state, interrupted, bound>>

\* DISCONNECTED --user connect--> CONNECTING
UserConnect ==
  /\ state = "DISCONNECTED"
  /\ state' = "CONNECTING"
  /\ UNCHANGED <<interrupted, bound>>

\* CONNECTING --transport up--> CONNECTING: the handler is installed.
TransportUp ==
  /\ state = "CONNECTING"
  /\ bound' = TRUE
  /\ UNCHANGED <<state, interrupted>>

\* The transport goes down; the state follows in a later step.
TransportDown ==
  /\ bound' = FALSE
  /\ UNCHANGED <<state, interrupted>>

\* CONNECTING --CONNACK ok--> CONNECTED (on_resumed when interrupted).
ConnackOk ==
  /\ state = "CONNECTING"
  /\ state' = "CONNECTED"
  /\ interrupted' = FALSE
  /\ UNCHANGED bound

\* CONNECTING --failure, timeout or shutdown--> DISCONNECTED for the user's
\* connect, RECONNECTING for a reconnect attempt; the slot goes with it.
ConnectFailed ==
  /\ state = "CONNECTING"
  /\ state' = IF interrupted THEN "RECONNECTING" ELSE "DISCONNECTED"
  /\ bound' = FALSE
  /\ UNCHANGED interrupted

\* CONNECTED --transport shutdown--> RECONNECTING
Interrupted ==
  /\ state = "CONNECTED"
  /\ state' = "RECONNECTING"
  /\ interrupted' = TRUE
  /\ bound' = FALSE

\* RECONNECTING --backoff fires--> CONNECTING
Reconnect ==
  /\ state = "RECONNECTING"
  /\ state' = "CONNECTING"
  /\ UNCHANGED <<interrupted, bound>>

\* CONNECTING, CONNECTED, RECONNECTING --user disconnect--> DISCONNECTING
UserDisconnect ==
  /\ state \in {"CONNECTING", "CONNECTED", "RECONNECTING"}
  /\ state' = "DISCONNECTING"
  /\ interrupted' = FALSE
  /\ UNCHANGED bound

\* DISCONNECTING --transport down--> DISCONNECTED
Disconnected ==
  /\ state = "DISCONNECTING"
  /\ ~bound
  /\ state' = "DISCONNECTED"
  /\ UNCHANGED <<interrupted, bound>>

Init == state = "DISCONNECTED" /\ interrupted = FALSE /\ bound = FALSE

Next ==
  \/ UserConnect \/ TransportUp \/ TransportDown \/ ConnackOk
  \/ ConnectFailed \/ Interrupted \/ Reconnect \/ UserDisconnect
  \/ Disconnected

Spec == Init /\ [][Next]_vars
=============================================================================

------------------------- MODULE MqttConfiguration -------------------------
(***************************************************************************)
(* The configuration setters of aws_mqtt_client_connection (client.c) and  *)
(* the event-loop code that reads what they write.                         *)
(*                                                                         *)
(* A setter takes the lock only to check the state                         *)
(* (s_check_connection_state_for_configuration, or the on_any_publish      *)
(* check), then stores its fields one by one with the lock released;       *)
(* set_http_proxy_options and use_websockets check nothing.  The event-loop thread reads     *)
(* those fields when it builds CONNECT (s_mqtt_client_init), when the      *)
(* websocket path calls the handshake transformer and validator, when it   *)
(* calls                                                                   *)
(* on_interrupted / on_resumed / on_any_publish, and when                  *)
(* s_mqtt_client_connect picks the proxy.  The connection FSM is reduced   *)
(* to what moves the readers: MqttConnection models the rest of it.        *)
(*                                                                         *)
(* A field holds the number of the setter call that stored it (0 for the   *)
(* value connection_new leaves, NULL where it is a pointer; Freed for a    *)
(* pointer whose object was destroyed).  One user thread makes the calls.  *)
(***************************************************************************)
EXTENDS Integers, Sequences

CONSTANTS
  Groups,      \* the setters enabled: "will", "login", "interruption",
               \* "any_publish", "proxy", "websockets"
  Faults,      \* allocation failures: "topic_copy", "payload_copy",
               \* "login_copy", "proxy_new"
  MaxCalls     \* bound on setter calls

AllGroups == {"will", "login", "interruption", "any_publish", "proxy", "websockets"}
ASSUME Groups \subseteq AllGroups /\ MaxCalls \in Nat
ASSUME Faults \subseteq {"topic_copy", "payload_copy", "login_copy", "proxy_new"}

\* The fields of each group, in the order the setter stores them.
Fields == [will         |-> <<"qos/retain", "topic", "payload">>,
           login        |-> <<"username", "password">>,
           interruption |-> <<"on_interrupted", "on_interrupted_ud",
                             "on_resumed", "on_resumed_ud">>,
           any_publish  |-> <<"on_any_publish", "on_any_publish_ud">>,
           proxy        |-> <<"http_proxy_config">>,
           websockets   |-> <<"handshake_transformer", "handshake_transformer_ud",
                             "handshake_validator", "handshake_validator_ud",
                             "enabled">>]

\* The steps of each setter after its gate (a step stores one field, or
\* for the proxy destroys the old config, NULLs it, makes the new one).
Steps == [will |-> 3, login |-> 2, interruption |-> 4, any_publish |-> 2, proxy |-> 3,
          websockets |-> 5]

Freed == -1
Tags == 0..MaxCalls

\* What the event loop reads: the group, the fields, and the position of
\* the field whose being non-NULL makes the code use the others.
Readers == [connect_will   |-> [g |-> "will", f |-> <<1, 2, 3>>, key |-> 2],
            connect_login  |-> [g |-> "login", f |-> <<1, 2>>, key |-> 1],
            on_interrupted |-> [g |-> "interruption", f |-> <<1, 2>>, key |-> 1],
            on_resumed     |-> [g |-> "interruption", f |-> <<3, 4>>, key |-> 1],
            on_any_publish |-> [g |-> "any_publish", f |-> <<1, 2>>, key |-> 1],
            proxy          |-> [g |-> "proxy", f |-> <<1>>, key |-> 1],
            ws_transform   |-> [g |-> "websockets", f |-> <<1, 2>>, key |-> 1],
            ws_validate    |-> [g |-> "websockets", f |-> <<3, 4>>, key |-> 1]]
NoRead == [vals |-> <<>>, want |-> Freed]
Idle == [g |-> "none", tag |-> 0, next |-> 0]

VARIABLES
  state,     \* synced_data.state
  chan,      \* "NONE" | "SETUP" | "WS_SETUP" | "UP": the channel of the
             \* current attempt; WS_SETUP for a websocket being set up
  task,      \* the reconnect task is scheduled
  cfg,       \* group -> field values
  user,      \* the setter the user thread is in, its call number, next store
  calls,     \* setter calls made so far
  last,      \* ghost: group -> [tag, status] of its latest setter call
  reads      \* reader -> [vals read, want: the tag a settled setter promises]

vars == <<state, chan, task, cfg, user, calls, last, reads>>
conn_vars == <<state, chan, task>>

-----------------------------------------------------------------------------
(* The event loop's reads.                                                 *)

\* The latest setter call of g returned success and none has begun since:
\* its values are what g holds.  Otherwise nothing is promised.
Promised(g) == IF last[g].status = "ok" THEN last[g].tag ELSE Freed

Read(r) ==
  [vals |-> [i \in DOMAIN Readers[r].f |-> cfg[Readers[r].g][Readers[r].f[i]]],
   want |-> Promised(Readers[r].g)]

ReadAll(rs) == reads' = [r \in DOMAIN reads |-> IF r \in rs THEN Read(r) ELSE reads[r]]

\* A read is used by the code when its key pointer is not NULL.
Used(r) == reads[r] # NoRead /\ reads[r].vals[Readers[r].key] # 0

-----------------------------------------------------------------------------
(* The user thread: the setters.                                           *)

\* s_check_connection_state_for_configuration: DISCONNECTED or CONNECTED;
\* set_on_any_publish_handler refuses only CONNECTED; set_http_proxy_options
\* and use_websockets check nothing.  A refused call returns INVALID_STATE
\* and changes nothing.
Gate(g) ==
  CASE g = "any_publish" -> state # "CONNECTED"
    [] g \in {"proxy", "websockets"} -> TRUE
    [] OTHER             -> state \in {"DISCONNECTED", "CONNECTED"}

SetBegin(g) ==
  /\ user = Idle /\ calls < MaxCalls
  /\ Gate(g)
  /\ user' = [g |-> g, tag |-> calls + 1, next |-> 1]
  /\ calls' = calls + 1
  /\ last' = [last EXCEPT ![g] = [tag |-> calls + 1, status |-> "busy"]]
  /\ UNCHANGED <<conn_vars, cfg, reads>>

Store(i, v) == cfg' = [cfg EXCEPT ![user.g][i] = v]
Step(n) == user' = [user EXCEPT !.next = n] /\ UNCHANGED last
Return(status) ==
  /\ user' = Idle
  /\ last' = [last EXCEPT ![user.g].status = status]

\* aws_mqtt_client_connection_set_will, after the gate: the topic is copied
\* (may fail: nothing changed), qos and retain are stored, the payload is
\* copied (may fail: ERROR with qos and retain already stored), and the
\* copies are swapped in, topic first.
set_will ==
  /\ user.g = "will"
  /\ \/ user.next = 1 /\ "topic_copy" \in Faults /\ Return("failed") /\ UNCHANGED cfg
     \/ user.next = 1 /\ Store(1, user.tag) /\ Step(2)
     \/ user.next = 2 /\ "payload_copy" \in Faults /\ Return("failed") /\ UNCHANGED cfg
     \/ user.next = 2 /\ Store(2, user.tag) /\ Step(3)
     \/ user.next = 3 /\ Store(3, user.tag) /\ Return("ok")
  /\ UNCHANGED <<conn_vars, calls, reads>>

\* Defect variant (mutation test of SettledSettingIsRead): the swap puts
\* the new username in place and keeps the old password.
set_login_keep_password ==
  /\ user.g = "login"
  /\ \/ user.next = 1 /\ "login_copy" \in Faults /\ Return("failed") /\ UNCHANGED cfg
     \/ user.next = 1 /\ Store(1, user.tag) /\ Step(2)
     \/ user.next = 2 /\ UNCHANGED cfg /\ Return("ok")
  /\ UNCHANGED <<conn_vars, calls, reads>>

\* aws_mqtt_client_connection_set_login, after the gate: username and
\* password are copied (either may fail: nothing changed), then swapped in.
set_login ==
  /\ user.g = "login"
  /\ \/ user.next = 1 /\ "login_copy" \in Faults /\ Return("failed") /\ UNCHANGED cfg
     \/ user.next = 1 /\ Store(1, user.tag) /\ Step(2)
     \/ user.next = 2 /\ Store(2, user.tag) /\ Return("ok")
  /\ UNCHANGED <<conn_vars, calls, reads>>

\* aws_mqtt_client_connection_set_connection_interruption_handlers:
\* on_interrupted, its user data, on_resumed, its user data.
set_connection_interruption_handlers ==
  /\ user.g = "interruption"
  /\ Store(user.next, user.tag)
  /\ IF user.next < 4 THEN Step(user.next + 1) ELSE Return("ok")
  /\ UNCHANGED <<conn_vars, calls, reads>>

\* aws_mqtt_client_connection_set_on_any_publish_handler: the handler,
\* then its user data.
set_on_any_publish_handler ==
  /\ user.g = "any_publish"
  /\ Store(user.next, user.tag)
  /\ IF user.next < 2 THEN Step(user.next + 1) ELSE Return("ok")
  /\ UNCHANGED <<conn_vars, calls, reads>>

\* aws_mqtt_client_connection_set_http_proxy_options: an existing config
\* is destroyed and then set to NULL, and a new one is made, which may
\* fail and leave NULL behind.
set_http_proxy_options ==
  /\ user.g = "proxy"
  /\ \/ user.next = 1 /\ cfg.proxy[1] # 0 /\ Store(1, Freed) /\ Step(2)
     \/ user.next = 1 /\ cfg.proxy[1] = 0 /\ Step(3) /\ UNCHANGED cfg
     \/ user.next = 2 /\ Store(1, 0) /\ Step(3)
     \/ user.next = 3 /\ "proxy_new" \in Faults /\ Return("failed") /\ UNCHANGED cfg
     \/ user.next = 3 /\ Store(1, user.tag) /\ Return("ok")
  /\ UNCHANGED <<conn_vars, calls, reads>>

\* aws_mqtt_client_connection_use_websockets: the transformer, its user
\* data, the validator, its user data, then enabled = true.
use_websockets ==
  /\ user.g = "websockets"
  /\ Store(user.next, user.tag)
  /\ IF user.next < 5 THEN Step(user.next + 1) ELSE Return("ok")
  /\ UNCHANGED <<conn_vars, calls, reads>>

SetStep ==
  \/ set_will
  \/ set_login
  \/ set_connection_interruption_handlers
  \/ set_on_any_publish_handler
  \/ set_http_proxy_options
  \/ use_websockets

-----------------------------------------------------------------------------
(* The connection, as far as it moves the readers.                        *)

\* s_websocket_connect builds the handshake request and hands it to the
\* handshake transformer with its user data; the transform's completion
\* (called directly when there is no transformer) reads http_proxy_config
\* and starts the websocket.
s_websocket_connect == ReadAll({"ws_transform", "proxy"})

\* s_mqtt_client_connect reads websocket.enabled and starts either the
\* websocket or a socket channel, whose bootstrap reads http_proxy_config.
s_mqtt_client_connect ==
  IF cfg.websockets[5] # 0
  THEN chan' = "WS_SETUP" /\ s_websocket_connect
  ELSE chan' = "SETUP" /\ ReadAll({"proxy"})

\* aws_mqtt_client_connection_connect from the user thread: CONNECTING,
\* then s_mqtt_client_connect.
Connect ==
  /\ user = Idle /\ state = "DISCONNECTED"
  /\ state' = "CONNECTING"
  /\ s_mqtt_client_connect
  /\ UNCHANGED <<task, cfg, user, calls, last>>

\* aws_mqtt_client_connection_disconnect: CONNECTED or RECONNECTING become
\* DISCONNECTING; an open channel is shut down (ChannelShutdown).
Disconnect ==
  /\ user = Idle /\ state \in {"CONNECTED", "RECONNECTING"}
  /\ state' = "DISCONNECTING"
  /\ UNCHANGED <<chan, task, cfg, user, calls, last, reads>>

\* s_on_websocket_setup, before it calls s_mqtt_client_init: the user's
\* handshake validator, if set, is called with its user data.
s_on_websocket_setup == IF chan = "WS_SETUP" THEN {"ws_validate"} ELSE {}

\* s_mqtt_client_init once the channel is up: a DISCONNECTING connection is
\* shut down again; otherwise CONNECT is built from client_id, the will
\* (if will.topic is set) and the credentials (if username is set) and sent.
s_mqtt_client_init ==
  /\ chan \in {"SETUP", "WS_SETUP"}
  /\ chan' = "UP"
  /\ IF state = "DISCONNECTING"
       THEN ReadAll(s_on_websocket_setup)
       ELSE ReadAll(s_on_websocket_setup \cup {"connect_will", "connect_login"})
  /\ UNCHANGED <<state, task, cfg, user, calls, last>>

\* CONNACK (client_channel_handler.c, spec 4.2): CONNECTED; a resumed
\* connection calls on_resumed with its user data.
Connack ==
  /\ chan = "UP" /\ state \in {"CONNECTING", "RECONNECTING"}
  /\ state' = "CONNECTED"
  /\ IF state = "RECONNECTING" THEN ReadAll({"on_resumed"}) ELSE UNCHANGED reads
  /\ UNCHANGED <<chan, task, cfg, user, calls, last>>

\* A PUBLISH from the broker that no subscription takes goes to
\* on_any_publish with its user data (client_channel_handler.c, spec 4.4).
InboundPublish ==
  /\ chan = "UP" /\ state = "CONNECTED"
  /\ ReadAll({"on_any_publish"})
  /\ UNCHANGED <<state, chan, task, cfg, user, calls, last>>

\* s_mqtt_client_shutdown, for a lost channel or one the connection shut
\* down itself: CONNECTED calls on_interrupted and schedules the reconnect
\* task, RECONNECTING reschedules it, CONNECTING and DISCONNECTING end in
\* DISCONNECTED.
s_mqtt_client_shutdown ==
  /\ chan # "NONE"
  /\ chan' = "NONE"
  /\ CASE state = "CONNECTED" ->
            state' = "RECONNECTING" /\ task' = TRUE /\ ReadAll({"on_interrupted"})
       [] state = "RECONNECTING" ->
            task' = TRUE /\ UNCHANGED <<state, reads>>
       [] OTHER ->
            state' = "DISCONNECTED" /\ UNCHANGED <<task, reads>>
  /\ UNCHANGED <<cfg, user, calls, last>>

\* s_attempt_reconnect: the task runs s_mqtt_client_connect (the state is
\* not read).  If that fails synchronously the task is scheduled again and
\* nothing here changes.
s_attempt_reconnect ==
  /\ task /\ chan = "NONE"
  /\ \/ task' = FALSE /\ s_mqtt_client_connect
     \/ UNCHANGED <<chan, task, reads>>
  /\ UNCHANGED <<state, cfg, user, calls, last>>

-----------------------------------------------------------------------------

Init ==
  /\ state = "DISCONNECTED"
  /\ chan = "NONE"
  /\ task = FALSE
  /\ cfg = [g \in AllGroups |-> [i \in DOMAIN Fields[g] |-> 0]]
  /\ user = Idle
  /\ calls = 0
  /\ last = [g \in AllGroups |-> [tag |-> 0, status |-> "ok"]]
  /\ reads = [r \in DOMAIN Readers |-> NoRead]

Next ==
  \/ \E g \in Groups : SetBegin(g)
  \/ SetStep
  \/ Connect
  \/ Disconnect
  \/ s_mqtt_client_init
  \/ Connack
  \/ InboundPublish
  \/ s_mqtt_client_shutdown
  \/ s_attempt_reconnect

Spec == Init /\ [][Next]_vars

-----------------------------------------------------------------------------
(* Properties.                                                             *)

\* Once a setter has returned success, and until the next setter call of
\* the same group begins, everything the event loop reads of that group
\* (the will and credentials in CONNECT, the handler and its user data, the
\* proxy config) is exactly what that call stored.
SettledSettingIsRead ==
  \A r \in DOMAIN Readers :
    reads[r].want # Freed =>
      reads[r].vals = [i \in DOMAIN Readers[r].f |-> reads[r].want]

\* Spec 3 and 5: configuration may change only in DISCONNECTED or
\* CONNECTED, so that a connect in progress never sees it half-made: every
\* CONNECT, callback invocation and proxy lookup uses fields stored by one
\* setter call, and never a destroyed proxy config.
ReadsSeeOneSetting ==
  \A r \in DOMAIN Readers :
    Used(r) => \A i, j \in DOMAIN reads[r].vals :
                 reads[r].vals[i] = reads[r].vals[j] /\ reads[r].vals[i] # Freed
====

--------------------------- MODULE MqttConnection ---------------------------
(***************************************************************************)
(* One aws_mqtt_client_connection of aws-c-mqtt (src/source/client.c):     *)
(* the five-state connection lifecycle, the request tracker (pending list, *)
(* channel task queue, ongoing list, outstanding-requests table, 16-bit    *)
(* packet ids), PUBLISH at QoS 0 and 1 with its operation timeout, the     *)
(* CONNACK and PINGRESP timers, the reconnect task, clean-session          *)
(* cancellation and the reference count that ends in destroy_final.       *)
(*                                                                         *)
(* Two threads touch the connection: user threads (connect, disconnect,    *)
(* publish, release) and the event-loop thread of the channel (setup and   *)
(* shutdown callbacks, channel tasks, timers).  Each action is one         *)
(* critical section or one callback; s_mqtt_client_shutdown drops the lock *)
(* between its sections, so it is split into the steps sh.pc names.        *)
(*                                                                         *)
(* The transport (aws-c-io channel) and the broker are the environment:    *)
(* channel setup may fail, an established channel may be torn down at any  *)
(* time, and the broker answers CONNECT, PUBLISH and PINGREQ or stays      *)
(* silent.  Code outside src/ (client_channel_handler.c: request creation, *)
(* the outgoing task, CONNACK/PUBACK/PINGRESP handling, keep-alive) is     *)
(* modelled from the specification.                                        *)
(***************************************************************************)
EXTENDS Integers, Sequences, FiniteSets, TLC

CONSTANTS
  Ops,          \* identities of user operations (one publish call each)
  MaxPacketId,  \* largest packet id; 65535 in the code (uint16_t)
  NoOp          \* model value: "no request" in the outstanding table

ASSUME MaxPacketId \in Nat \ {0}
ASSUME NoOp \notin Ops

\* Timeouts: the operation-timeout settings offered to connect (set or
\* not).  PingEnabled: whether keep-alive PINGREQs fall due within a run;
\* the code always has a keep-alive (1200 s by default), but a PINGRESP
\* timeout only shuts the channel down, which TransportDrop also does, so
\* runs about requests may leave pings out.
\* ConnectPaths: the outcomes of connect (ConnectOutcomes) a run explores.
\* ClientRelease: whether the user releases its aws_mqtt_client reference
\* within a run; MaxUserRefs: how many connection references the user may
\* hold at once through aws_mqtt_client_connection_acquire.  Runs about
\* requests keep both small: neither touches a request.
\* Websockets: aws_mqtt_client_connection_use_websockets was called, so
\* every connect and reconnect goes through s_websocket_connect.
CONSTANTS Timeouts, PingEnabled, ConnectPaths, ClientRelease, MaxUserRefs,
          Websockets
ASSUME Timeouts \subseteq BOOLEAN /\ PingEnabled \in BOOLEAN /\ ClientRelease \in BOOLEAN
ASSUME Websockets \in BOOLEAN
ASSUME MaxUserRefs \in Nat \ {0}

States == {"DISCONNECTED", "CONNECTING", "CONNECTED", "RECONNECTING", "DISCONNECTING"}

\* The channel of the connection as the aws-c-io bootstrap reports it.
\*   NONE     no channel;  SETUP   bootstrap started, setup callback pending;
\*   UP       channel set up;  CLOSING  aws_channel_shutdown in progress.
ChanStates == {"NONE", "SETUP", "UP", "CLOSING"}

Kinds == {"QOS0", "QOS1"}
\* Callback counters are ghost variables; a count of 2 already shows a
\* second invocation, so they saturate there.
CallCap == 2

VARIABLES
  state,            \* synced_data.state
  slot,             \* connection->slot != NULL
  chan,             \* the channel, one of ChanStates
  connect_out,      \* CONNECT sent on the channel, no CONNACK yet
  connack_timer,    \* s_connack_received_timeout task scheduled
  ping_timer,       \* s_pingresp_received_timeout task scheduled
  ping_out,         \* PINGREQ sent on the channel, no PINGRESP yet
  waiting_on_ping_response,
  reconnect_task,   \* reconnect_task->task scheduled on an event loop
  clean_session,
  op_timeout,       \* operation_timeout_ns != UINT64_MAX
  ref_count,
  user_refs,        \* references the user holds (connection_new, acquire)
  final_disconnect, \* on_disconnect replaced by s_on_final_disconnect
  destroy_calls,    \* how often s_mqtt_client_connection_destroy_final ran
  disc_impl,        \* a user disconnect left the lock, mqtt_disconnect_impl to go
  client_refs,      \* client->ref_count of the aws_mqtt_client the connection uses
  user_client,      \* the user still holds its client reference
  pending,          \* synced_data.pending_requests_list
  queued,           \* outgoing tasks scheduled on the channel, FIFO
  ongoing,          \* thread_data.ongoing_requests_list
  outstanding,      \* synced_data.outstanding_requests_table: id -> op
  last_id,          \* last packet id handed out
  kind, packet_id, initiated,
  timer,            \* op -> "none" | "linked" | "orphan": request_timeout_task_arg
  wire,             \* QoS 1 PUBLISH packets the broker has and not yet acked
  sh,               \* progress of s_mqtt_client_shutdown
  issued,           \* ghost: accepted operations in submission order
  completions,      \* ghost: completion callbacks per operation
  conn_cb,          \* ghost: on_connection_complete calls since connect
  disc_owed,        \* ghost: a user disconnect waits for on_disconnect
  disc_cb           \* ghost: on_disconnect calls since that disconnect

conn_vars == <<state, slot, chan, connect_out, connack_timer, ping_timer, ping_out,
               waiting_on_ping_response, reconnect_task, clean_session, op_timeout>>
life_vars == <<ref_count, user_refs, final_disconnect, destroy_calls, disc_impl,
               client_refs, user_client>>
req_vars  == <<pending, queued, ongoing, outstanding, last_id, kind, packet_id,
               initiated, timer, wire>>
ghost_vars == <<issued, completions, conn_cb, disc_owed, disc_cb>>
vars == <<conn_vars, life_vars, req_vars, sh, ghost_vars>>

Ids == 1..MaxPacketId
Elems(s) == {s[i] : i \in DOMAIN s}
Live == Elems(pending) \cup Elems(queued) \cup Elems(ongoing) \cup Elems(sh.cancelling)
Bump(n) == IF n < CallCap THEN n + 1 ELSE n

-----------------------------------------------------------------------------
(* Request bookkeeping (client_channel_handler.c, from the specification).  *)

\* Packet-id allocation: walk forward from the last id handed out, wrapping
\* past 0, and take the first id not in the outstanding table.
FreeIds == {p \in Ids : outstanding[p] = NoOp}

NextId ==
  LET start == IF last_id >= MaxPacketId THEN 1 ELSE last_id + 1
      dist(p) == (p - start) % MaxPacketId
  IN  CHOOSE p \in FreeIds : \A q \in FreeIds : dist(p) <= dist(q)

\* Defect variant (mutation test of TimeoutTargetsOwner): completion
\* leaves request_timeout_wrapper pointing at the timeout task.
CompleteDropKeepLink(S, gone) ==
  /\ completions' = [o \in Ops |-> IF o \in S THEN Bump(completions[o])
                                            ELSE completions[o]]
  /\ timer' = [o \in Ops |-> IF o \in gone THEN "none" ELSE timer[o]]

\* Invoke the completion callbacks of the operations in S (the error code
\* each gets is named at the call; no property tells codes apart).
\* s_publish_complete also breaks the link to a pending timeout task, so
\* that task runs later as a no-op; the timeout tasks of the operations in
\* gone are the ones being run or cancelled in this step and are freed.
CompleteDrop(S, gone) ==
  /\ completions' = [o \in Ops |-> IF o \in S THEN Bump(completions[o])
                                            ELSE completions[o]]
  /\ timer' = [o \in Ops |-> IF o \in gone THEN "none"
                            ELSE IF o \in S /\ timer[o] = "linked"
                            THEN "orphan" ELSE timer[o]]

Complete(S) == CompleteDrop(S, {})

\* Remove requests from the outstanding table and return them to the pool.
Untrack(S) ==
  outstanding' = [p \in Ids |-> IF outstanding[p] \in S THEN NoOp ELSE outstanding[p]]

Without(s, S) == SelectSeq(s, LAMBDA o : o \notin S)

\* Defect variant (mutation test of RequestTrackingConsistent): the
\* completed request is not unlinked from the ongoing list.
RequestCompleteDropKeepListed(S, gone) ==
  /\ CompleteDrop(S, gone)
  /\ Untrack(S)
  /\ pending' = Without(pending, S)
  /\ queued' = Without(queued, S)
  /\ UNCHANGED ongoing

\* mqtt_request_complete: callback, then out of its list and the table.
RequestCompleteDrop(S, gone) ==
  /\ CompleteDrop(S, gone)
  /\ Untrack(S)
  /\ pending' = Without(pending, S)
  /\ queued' = Without(queued, S)
  /\ ongoing' = Without(ongoing, S)

RequestComplete(S) == RequestCompleteDrop(S, {})

\* aws_channel_shutdown on the connection's channel.
ShutdownChannel == chan' = IF chan = "UP" THEN "CLOSING" ELSE chan

-----------------------------------------------------------------------------
(* The aws_mqtt_client the connection was made from: a reference count.  *)
(* aws_mqtt_client_new starts it at one for the user; the connection      *)
(* takes one of its own and uses connection->client->bootstrap on every   *)
(* connect and reconnect; at zero s_aws_mqtt_client_destroy frees it.     *)

ClientRefsAtNew == 1

\* Defect variant (mutation test of ClientOutlivesConnection): the
\* connection stores the client pointer without taking a reference.
ClientAcquireMissing(n) == n

aws_mqtt_client_acquire(n) == n + 1

aws_mqtt_client_release(n) == n - 1

\* The user's aws_mqtt_client_release, allowed at any time after the
\* connection was made.
UserReleaseClient ==
  /\ ClientRelease
  /\ user_client
  /\ user_client' = FALSE
  /\ client_refs' = aws_mqtt_client_release(client_refs)
  /\ UNCHANGED <<conn_vars, ref_count, user_refs, final_disconnect, destroy_calls,
                 disc_impl, req_vars, sh, ghost_vars>>

-----------------------------------------------------------------------------
(* Lifecycle end: s_mqtt_client_connection_start_destroy, destroy_final.   *)

\* Defect variant (mutation test of ExactlyOnceAtDestroy): destroy_final
\* frees the pending requests without calling their callbacks.
DestroyFinalSilent ==
  /\ destroy_calls' = Bump(destroy_calls)
  /\ client_refs' = aws_mqtt_client_release(client_refs)
  /\ UNCHANGED <<completions, timer>>
  /\ Untrack(Elems(pending))
  /\ pending' = <<>>

\* s_mqtt_client_connection_destroy_final: pending requests complete with
\* CONNECTION_DESTROYED and the connection is freed.
DestroyFinal ==
  /\ destroy_calls' = Bump(destroy_calls)
  /\ client_refs' = aws_mqtt_client_release(client_refs)
  /\ Complete(Elems(pending))   \* CONNECTION_DESTROYED
  /\ Untrack(Elems(pending))
  /\ pending' = <<>>

\* Releasing a reference; the last one runs start_destroy.  A connection
\* that is not DISCONNECTED is first disconnected, and destroyed from
\* s_on_final_disconnect once the channel is gone.
Release(prev_state) ==
  /\ ref_count' = ref_count - 1
  /\ IF ref_count' # 0
       THEN UNCHANGED <<final_disconnect, destroy_calls, client_refs, completions,
                        timer, outstanding, pending, state, chan>>
     ELSE IF prev_state # "DISCONNECTED"
       THEN /\ final_disconnect' = TRUE
            /\ state' = "DISCONNECTING"
            /\ IF slot /\ prev_state # "DISCONNECTING"
                 THEN ShutdownChannel ELSE UNCHANGED chan
            /\ UNCHANGED <<destroy_calls, client_refs, completions, timer,
                           outstanding, pending>>
       ELSE /\ DestroyFinal
            /\ UNCHANGED <<final_disconnect, state, chan>>

-----------------------------------------------------------------------------
(* User-thread entry points.                                               *)

\* aws_mqtt_client_connection_connect followed by s_mqtt_client_connect.
\* Only from DISCONNECTED, which becomes CONNECTING at once; the settings
\* are stored.  How far the call gets (outcome):
\*   "tls_fail"   copying the TLS options fails: returns without restoring
\*                DISCONNECTED;
\*   "early_fail" server name or client id copy fails: DISCONNECTED again;
\*   "sync_fail"  a clean session has failed every pending request of the
\*                previous session, the pin is taken and, as the bootstrap
\*                refuses, released: DISCONNECTED again;
\*   "started"    as sync_fail, but the bootstrap starts a channel.
ConnectOutcomes == {"tls_fail", "early_fail", "sync_fail", "started"}
ASSUME ConnectPaths \subseteq ConnectOutcomes

\* Defect variant (mutation test of CompletionAtMostOnce): the callbacks
\* of the previous session's requests run, but the requests stay pending
\* and in the table.
ConnectCancelKeepRequests(cancel) ==
  /\ Complete(cancel)
  /\ UNCHANGED <<outstanding, pending>>

\* Clean session: the pending list is swapped out under the lock, each
\* callback runs with CANCELLED_FOR_CLEAN_SESSION, then the requests leave
\* the table and go back to the pool.
ConnectCancel(cancel) ==
  /\ Complete(cancel)
  /\ Untrack(cancel)
  /\ pending' = Without(pending, cancel)

\* Defect variants: the pin is not released when the bootstrap refuses
\* (mutation test of TypeOK); the pin is never taken (of NoUseAfterDestroy).
ConnectPinLeak(outcome) ==
  ref_count' = IF outcome \in {"started", "sync_fail"} THEN ref_count + 1 ELSE ref_count
ConnectNoPin(outcome) == ref_count' = ref_count

\* aws_mqtt_client_connection_acquire before s_mqtt_client_connect, and the
\* release that undoes it when the bootstrap refuses.
ConnectPin(outcome) ==
  ref_count' = IF outcome = "started" THEN ref_count + 1 ELSE ref_count

Connect(clean, timeout, outcome) ==
  LET cancel == IF clean /\ outcome \in {"sync_fail", "started"}
                  THEN Elems(pending) ELSE {}
  IN
  /\ user_refs > 0
  /\ state = "DISCONNECTED"
  /\ clean_session' = clean
  /\ op_timeout' = timeout
  /\ ConnectCancel(cancel)
  /\ conn_cb' = 0
  /\ state' = IF outcome \in {"started", "tls_fail"} THEN "CONNECTING"
                                                     ELSE "DISCONNECTED"
  /\ ConnectPin(outcome)
  /\ chan' = IF outcome = "started" THEN "SETUP" ELSE chan
  /\ UNCHANGED <<slot, connect_out, connack_timer, ping_timer, ping_out,
                 waiting_on_ping_response, reconnect_task, user_refs,
                 user_client, client_refs, final_disconnect, destroy_calls, queued, ongoing, last_id,
                 kind, packet_id, initiated, wire, sh, issued, disc_owed, disc_cb,
                 disc_impl>>

\* aws_mqtt_client_connection_disconnect, critical section: only from
\* CONNECTED or RECONNECTING, the state becomes DISCONNECTING.
Disconnect ==
  /\ user_refs > 0
  /\ ~disc_impl
  /\ state \in {"CONNECTED", "RECONNECTING"}
  /\ state' = "DISCONNECTING"
  /\ disc_impl' = TRUE
  /\ disc_owed' = TRUE
  /\ disc_cb' = 0
  /\ UNCHANGED <<slot, chan, connect_out, connack_timer, ping_timer, ping_out,
                 waiting_on_ping_response, reconnect_task, clean_session,
                 op_timeout, ref_count, user_refs, user_client, client_refs,
                 final_disconnect,
                 destroy_calls, req_vars, sh, issued, completions, conn_cb>>

\* After the unlock, mqtt_disconnect_impl reads connection->slot without the
\* lock: a slot still installed has its channel shut down; one the event
\* loop has meanwhile taken away leaves it to the next channel setup or to
\* the shutdown already under way.
DisconnectImpl ==
  /\ disc_impl
  /\ disc_impl' = FALSE
  /\ IF slot THEN ShutdownChannel ELSE UNCHANGED chan
  /\ UNCHANGED <<state, slot, connect_out, connack_timer, ping_timer, ping_out,
                 waiting_on_ping_response, reconnect_task, clean_session,
                 op_timeout, ref_count, user_refs, user_client, client_refs,
                 final_disconnect,
                 destroy_calls, req_vars, sh, ghost_vars>>

\* aws_mqtt_client_connection_publish and mqtt_create_request.  QoS 0 is
\* created with no_retry, which is refused unless CONNECTED; so is any
\* request when every packet id is in use.  Otherwise the request gets a
\* packet id and an outgoing task when CONNECTED, the pending list if not.
Publish(o, k) ==
  /\ user_refs > 0
  /\ kind[o] = "NONE"
  /\ kind' = [kind EXCEPT ![o] = k]
  /\ IF (k = "QOS0" /\ state # "CONNECTED") \/ FreeIds = {}
       THEN UNCHANGED <<pending, queued, outstanding, last_id, packet_id, issued>>
       ELSE LET p == NextId IN
            /\ outstanding' = [outstanding EXCEPT ![p] = o]
            /\ packet_id' = [packet_id EXCEPT ![o] = p]
            /\ last_id' = p
            /\ issued' = Append(issued, o)
            /\ IF state = "CONNECTED"
                 THEN queued' = Append(queued, o) /\ UNCHANGED pending
                 ELSE pending' = Append(pending, o) /\ UNCHANGED queued
  /\ UNCHANGED <<conn_vars, life_vars, ongoing, initiated, timer, wire, sh,
                 completions, conn_cb, disc_owed, disc_cb>>

\* aws_mqtt_client_connection_acquire by the user, who must hold a
\* reference to make the call.
UserAcquire ==
  /\ user_refs > 0
  /\ user_refs < MaxUserRefs
  /\ user_refs' = user_refs + 1
  /\ ref_count' = ref_count + 1
  /\ UNCHANGED <<conn_vars, final_disconnect, destroy_calls, disc_impl,
                 client_refs, user_client, req_vars, sh, ghost_vars>>

\* aws_mqtt_client_connection_release by the user.
UserRelease ==
  /\ user_refs > 0
  /\ ~disc_impl
  /\ user_refs' = user_refs - 1
  /\ Release(state)
  /\ UNCHANGED <<slot, connect_out, connack_timer, ping_timer, ping_out,
                 waiting_on_ping_response, reconnect_task, clean_session,
                 op_timeout, queued, ongoing, last_id, kind, packet_id,
                 initiated, wire, sh, issued, conn_cb, disc_owed, disc_cb,
                 disc_impl, user_client>>

-----------------------------------------------------------------------------
(* Channel setup and shutdown callbacks (event-loop thread).               *)

\* s_mqtt_client_init with a channel.  A user disconnect that came first
\* shuts the new channel down; otherwise the slot is created and installed,
\* the CONNACK timer armed and CONNECT sent.  A failure at any of these
\* (step is where the path stops) goes to handle_error, which reports it
\* to on_connection_complete and shuts the channel down.
InitSteps == {"no_slot", "no_handler", "no_timer", "no_connect", "sent"}

\* Defect variant (mutation test of DisconnectCompletes): setup does not
\* look for a disconnect requested while reconnecting.
s_mqtt_client_init_ignoring_disconnect(step) ==
  /\ chan = "SETUP"
  /\ slot' = (step # "no_slot")
  /\ connack_timer' = (step \in {"no_connect", "sent"})
  /\ chan' = IF step = "sent" THEN "UP" ELSE "CLOSING"
  /\ connect_out' = (step = "sent")
  /\ conn_cb' = IF step = "sent" THEN conn_cb ELSE Bump(conn_cb)
  /\ UNCHANGED <<state, ping_timer, ping_out, waiting_on_ping_response,
                 reconnect_task, clean_session, op_timeout, life_vars,
                 req_vars, sh, issued, completions, disc_owed, disc_cb>>

s_mqtt_client_init(step) ==
  /\ chan = "SETUP"
  /\ IF state = "DISCONNECTING"
       THEN /\ chan' = "CLOSING"
            /\ UNCHANGED <<slot, connect_out, connack_timer, conn_cb>>
       ELSE /\ slot' = (step # "no_slot")
            /\ connack_timer' = (step \in {"no_connect", "sent"})
            /\ chan' = IF step = "sent" THEN "UP" ELSE "CLOSING"
            /\ connect_out' = (step = "sent")
            /\ conn_cb' = IF step = "sent" THEN conn_cb ELSE Bump(conn_cb)
  /\ UNCHANGED <<state, ping_timer, ping_out, waiting_on_ping_response,
                 reconnect_task, clean_session, op_timeout, life_vars,
                 req_vars, sh, issued, completions, disc_owed, disc_cb>>

\* s_on_websocket_setup with a websocket that cannot be converted to a
\* mid-channel handler, or whose handshake response the user's validator
\* rejects: the channel is shut down and s_mqtt_client_init never runs, so
\* neither its DISCONNECTING check nor handle_error's report happens; the
\* websocket's shutdown callback (s_on_websocket_shutdown) later runs
\* s_mqtt_client_shutdown.  A websocket that fails to connect, or a
\* transform that completes with an error, reaches s_mqtt_client_init with
\* the error (SetupFailed); an accepted one reaches it with the channel.
s_on_websocket_setup_rejected ==
  /\ Websockets
  /\ chan = "SETUP"
  /\ chan' = "CLOSING"
  /\ UNCHANGED <<state, slot, connect_out, connack_timer, ping_timer, ping_out,
                 waiting_on_ping_response, reconnect_task, clean_session,
                 op_timeout, life_vars, req_vars, sh, ghost_vars>>

\* First critical section of s_mqtt_client_shutdown, entered with the
\* pending list as it is once the channel's tasks are cancelled.  A clean
\* session fails ongoing and pending requests (callbacks outside the lock,
\* table removal in the next section); otherwise ongoing requests join the
\* back of the pending list.  CONNECTED becomes RECONNECTING; the slot goes.
ShutdownBegin(pend, dropped) ==
  LET cancelling == IF clean_session THEN ongoing \o pend ELSE <<>>
  IN
  /\ sh.pc = "idle"
  /\ pending' = IF clean_session THEN <<>> ELSE pend \o ongoing
  /\ ongoing' = <<>>
  /\ state' = IF state = "CONNECTED" THEN "RECONNECTING" ELSE state
  /\ slot' = FALSE
  /\ chan' = "NONE"
  /\ sh' = [pc |-> "release", prev |-> state, cancelling |-> cancelling]
  \* dropped: NOT_CONNECTED; cancelling: CANCELLED_FOR_CLEAN_SESSION
  /\ CompleteDrop(dropped \cup Elems(cancelling), Ops)

\* Setup failed: s_mqtt_client_init(error) calls s_mqtt_client_shutdown.
SetupFailed ==
  /\ chan = "SETUP"
  /\ ShutdownBegin(pending, {})
  /\ UNCHANGED <<connect_out, connack_timer, ping_timer, ping_out,
                 waiting_on_ping_response, reconnect_task, clean_session,
                 op_timeout, life_vars, queued, outstanding, last_id, kind,
                 packet_id, initiated, wire, issued, conn_cb, disc_owed, disc_cb>>

\* The channel finished shutting down.  aws-c-io cancels the channel's
\* tasks first: every timer, and every outgoing task whose send never ran
\* (a retryable request goes back to the pending list, a QoS 0 one fails
\* with NOT_CONNECTED); then the bootstrap calls s_mqtt_client_shutdown.
ChannelShutdownComplete ==
  LET dropped == {o \in Elems(queued) : kind[o] = "QOS0"}
  IN
  /\ chan = "CLOSING"
  /\ ShutdownBegin(pending \o Without(queued, dropped),
                   dropped)
  /\ queued' = <<>>
  /\ Untrack(dropped)
  /\ wire' = {}
  /\ connect_out' = FALSE
  /\ connack_timer' = FALSE
  /\ ping_timer' = FALSE
  /\ ping_out' = FALSE
  /\ UNCHANGED <<waiting_on_ping_response, reconnect_task, clean_session,
                 op_timeout, life_vars, last_id, kind, packet_id, initiated,
                 issued, conn_cb, disc_owed, disc_cb>>

\* Second section: cancelled requests leave the table.  A failed reconnect
\* attempt schedules the next one; an interrupted connection goes on to
\* on_interrupted; a failed connect or finished disconnect is DISCONNECTED.
s_mqtt_client_shutdown_release ==
  /\ sh.pc = "release"
  /\ Untrack(Elems(sh.cancelling))
  /\ \/ /\ sh.prev = "RECONNECTING"
        /\ reconnect_task' = TRUE
        /\ sh' = [sh EXCEPT !.pc = "idle", !.cancelling = <<>>]
        /\ UNCHANGED state
     \/ /\ sh.prev = "CONNECTED"
        /\ sh' = [sh EXCEPT !.pc = "interrupted", !.cancelling = <<>>]
        /\ UNCHANGED <<state, reconnect_task>>
     \/ /\ sh.prev \in {"CONNECTING", "DISCONNECTING"}
        /\ state' = "DISCONNECTED"
        /\ sh' = [sh EXCEPT !.pc = "final", !.cancelling = <<>>]
        /\ UNCHANGED reconnect_task
  /\ UNCHANGED <<slot, chan, connect_out, connack_timer, ping_timer, ping_out,
                 waiting_on_ping_response, clean_session, op_timeout,
                 life_vars, pending, queued, ongoing, last_id, kind, packet_id,
                 initiated, timer, wire, ghost_vars>>

\* After on_interrupted: a disconnect the user issued meanwhile (maybe from
\* inside on_interrupted) stops the reconnect; otherwise it is scheduled.
s_mqtt_client_shutdown_interrupted ==
  /\ sh.pc = "interrupted"
  /\ IF state = "DISCONNECTING"
       THEN /\ state' = "DISCONNECTED"
            /\ sh' = [sh EXCEPT !.pc = "final"]
            /\ UNCHANGED reconnect_task
       ELSE /\ reconnect_task' = TRUE
            /\ sh' = [sh EXCEPT !.pc = "idle"]
            /\ UNCHANGED state
  /\ UNCHANGED <<slot, chan, connect_out, connack_timer, ping_timer, ping_out,
                 waiting_on_ping_response, clean_session, op_timeout,
                 life_vars, req_vars, ghost_vars>>

\* Outside the lock once DISCONNECTED: on_disconnect or the failed
\* on_connection_complete, then the pin taken by connect is released.
s_mqtt_client_shutdown_final ==
  /\ sh.pc = "final"
  /\ sh' = [sh EXCEPT !.pc = "idle"]
  /\ IF final_disconnect /\ sh.prev # "CONNECTING"
       THEN \* on_disconnect is s_on_final_disconnect: destroy, then release
            /\ DestroyFinal
            /\ ref_count' = ref_count - 1
            /\ UNCHANGED <<state, chan, final_disconnect, conn_cb, disc_owed, disc_cb>>
       ELSE /\ IF sh.prev = "CONNECTING"
                 THEN conn_cb' = Bump(conn_cb) /\ UNCHANGED <<disc_owed, disc_cb>>
                 ELSE /\ disc_cb' = Bump(disc_cb)
                      /\ disc_owed' = FALSE
                      /\ UNCHANGED conn_cb
            /\ Release(state)
  /\ UNCHANGED <<slot, connect_out, connack_timer, ping_timer, ping_out,
                 waiting_on_ping_response, reconnect_task, clean_session,
                 op_timeout, user_refs, user_client, queued, ongoing, last_id, kind,
                 packet_id, initiated, wire, issued, disc_impl>>

\* s_attempt_reconnect: the backoff is computed (ReconnectBackoff models
\* it) and s_mqtt_client_connect is called; state is not read.  Either it
\* starts a new channel, or it fails synchronously and the task is
\* scheduled again for next_attempt_ms, which at this abstraction (no
\* clock, no backoff) leaves the state as it was.
s_attempt_reconnect ==
  /\ reconnect_task
  /\ \/ /\ reconnect_task' = FALSE
        /\ chan' = "SETUP"
     \/ UNCHANGED <<reconnect_task, chan>>
  /\ UNCHANGED <<state, slot, connect_out, connack_timer, ping_timer, ping_out,
                 waiting_on_ping_response, clean_session, op_timeout,
                 life_vars, req_vars, sh, ghost_vars>>

-----------------------------------------------------------------------------
(* Channel tasks: sending PUBLISH and its operation timeout.               *)

\* The outgoing task runs send(packet_id, is_first_attempt) of the request
\* at the head of the channel's queue and acts on what it returns.
Outgoing(o) ==
  /\ queued # <<>>
  /\ o = Head(queued)
  /\ chan \in {"UP", "CLOSING"}
  /\ initiated' = [initiated EXCEPT ![o] = TRUE]

\* s_publish_send returns COMPLETE: a QoS 0 PUBLISH was written.
PublishSendComplete(o) ==
  /\ Outgoing(o)
  /\ kind[o] = "QOS0"
  /\ RequestComplete({o})   \* SUCCESS
  /\ UNCHANGED wire

\* s_publish_send returns ERROR before anything is written (no message
\* from the pool, encoding fails), or a QoS 0 write is refused.
PublishSendError(o) ==
  /\ Outgoing(o)
  /\ RequestComplete({o})   \* ERROR
  /\ UNCHANGED wire

\* s_publish_send returns ONGOING for QoS 1.  If the write is refused
\* nothing is sent and no timeout is armed; if it goes through, the
\* PUBLISH reaches the broker and, with an operation timeout configured,
\* a timeout task is linked to the request.  The header is encoded by
\* aws_mqtt_packet_publish_init with dup = !is_first_attempt only on the
\* first attempt, and a resend reuses it.
PublishSendOngoing(o, written) ==
  /\ Outgoing(o)
  /\ kind[o] = "QOS1"
  /\ queued' = Tail(queued)
  /\ ongoing' = Append(ongoing, o)
  /\ wire' = IF written
               THEN wire \cup {[id |-> packet_id[o], op |-> o,
                                first |-> ~initiated[o], dup |-> FALSE]}
               ELSE wire
  /\ timer' = IF written /\ op_timeout THEN [timer EXCEPT ![o] = "linked"] ELSE timer
  /\ UNCHANGED <<pending, outstanding, completions>>

\* The QoS 1 PUBLISH was written but s_schedule_timeout_task fails:
\* ERROR, although the broker has the packet.
PublishTimeoutAllocFails(o) ==
  /\ Outgoing(o)
  /\ kind[o] = "QOS1"
  /\ op_timeout
  /\ wire' = wire \cup {[id |-> packet_id[o], op |-> o,
                         first |-> ~initiated[o], dup |-> FALSE]}
  /\ RequestComplete({o})   \* ERROR

PublishSend ==
  /\ \E o \in Ops :
       \/ PublishSendComplete(o)
       \/ PublishSendError(o)
       \/ \E written \in BOOLEAN : PublishSendOngoing(o, written)
       \/ PublishTimeoutAllocFails(o)
  /\ UNCHANGED <<conn_vars, life_vars, last_id, kind, packet_id, sh, issued,
                 conn_cb, disc_owed, disc_cb>>

\* s_request_timeout run while its back pointer is set: the request with
\* its packet id completes with TIMEOUT (s_publish_complete clears the
\* pointers) and the task is freed.
s_request_timeout(o) ==
  LET r == outstanding[packet_id[o]]
  IN
  /\ timer[o] = "linked"
  /\ chan \in {"UP", "CLOSING"}
  /\ IF r # NoOp THEN RequestCompleteDrop({r}, {o})   \* TIMEOUT
                 ELSE /\ timer' = [timer EXCEPT ![o] = "none"]
                      /\ UNCHANGED <<completions, outstanding, pending,
                                     queued, ongoing>>
  /\ UNCHANGED <<conn_vars, life_vars, last_id, kind, packet_id, initiated,
                 wire, sh, issued, conn_cb, disc_owed, disc_cb>>

\* s_request_timeout after the request completed: the back pointer is
\* NULL, so the task only frees itself.
s_request_timeout_orphan(o) ==
  /\ timer[o] = "orphan"
  /\ chan \in {"UP", "CLOSING"}
  /\ timer' = [timer EXCEPT ![o] = "none"]
  /\ UNCHANGED <<conn_vars, life_vars, pending, queued, ongoing, outstanding,
                 last_id, kind, packet_id, initiated, wire, sh, ghost_vars>>

-----------------------------------------------------------------------------
(* Keep-alive and the CONNACK timer.                                       *)

\* Keep-alive sends PINGREQ while CONNECTED (s_pingreq_send).  Keep-alive
\* is asserted longer than the ping timeout at connect, so the previous
\* PINGRESP timer has run.  After the write the flag is set; the timer task
\* may fail to allocate, leaving the flag set with no timer.
s_pingreq_send(armed) ==
  /\ PingEnabled
  /\ state = "CONNECTED"
  /\ chan = "UP"
  /\ ~ping_timer
  /\ ping_out' = TRUE
  /\ waiting_on_ping_response' = TRUE
  /\ ping_timer' = armed
  /\ UNCHANGED <<state, slot, chan, connect_out, connack_timer, reconnect_task,
                 clean_session, op_timeout, life_vars, req_vars, sh, ghost_vars>>

\* s_pingresp_received_timeout: still waiting means the broker is gone.
s_pingresp_received_timeout ==
  /\ ping_timer
  /\ chan \in {"UP", "CLOSING"}
  /\ ping_timer' = FALSE
  /\ IF waiting_on_ping_response
       THEN waiting_on_ping_response' = FALSE /\ ShutdownChannel
       ELSE UNCHANGED <<waiting_on_ping_response, chan>>
  /\ UNCHANGED <<state, slot, connect_out, connack_timer, ping_out,
                 reconnect_task, clean_session, op_timeout, life_vars,
                 req_vars, sh, ghost_vars>>

\* s_connack_received_timeout: no CONNACK yet while (RE)CONNECTING.
s_connack_received_timeout ==
  /\ connack_timer
  /\ chan \in {"UP", "CLOSING"}
  /\ connack_timer' = FALSE
  /\ IF state \in {"CONNECTING", "RECONNECTING"} THEN ShutdownChannel
                                                 ELSE UNCHANGED chan
  /\ UNCHANGED <<state, slot, connect_out, ping_timer, ping_out,
                 waiting_on_ping_response, reconnect_task, clean_session,
                 op_timeout, life_vars, req_vars, sh, ghost_vars>>

-----------------------------------------------------------------------------
(* The broker and the transport (client_channel_handler.c and aws-c-io,     *)
(* from the specification).                                                 *)

\* Defect variant (mutation test of RefinesConnectionFSM): the CONNACK
\* handler does not look for a disconnect the user made meanwhile.
Connack_ignoring_disconnect(accepted) ==
  /\ connect_out
  /\ chan \in {"UP", "CLOSING"}
  /\ connect_out' = FALSE
  /\ IF accepted
       THEN /\ state' = "CONNECTED"
            /\ queued' = queued \o pending
            /\ pending' = <<>>
            /\ conn_cb' = IF state = "CONNECTING" THEN Bump(conn_cb) ELSE conn_cb
            /\ UNCHANGED chan
       ELSE /\ ShutdownChannel
            /\ UNCHANGED <<state, pending, queued, conn_cb>>
  /\ UNCHANGED <<slot, connack_timer, ping_timer, ping_out, waiting_on_ping_response,
                 reconnect_task, clean_session, op_timeout, life_vars, ongoing,
                 outstanding, last_id, kind, packet_id, initiated, timer, wire,
                 sh, issued, completions, disc_owed, disc_cb>>

\* CONNACK.  Ignored once the user disconnected.  Accepted: CONNECTED, and
\* every pending request gets an outgoing task on the channel; a first
\* connect reports to on_connection_complete (a reconnect to on_resumed).
\* Refused: the channel is shut down.  Bytes read before a shutdown
\* completes are still handled, hence CLOSING.
Connack(accepted) ==
  /\ connect_out
  /\ chan \in {"UP", "CLOSING"}
  /\ connect_out' = FALSE
  /\ IF state = "DISCONNECTING"
       THEN UNCHANGED <<state, chan, pending, queued, conn_cb>>
     ELSE IF accepted
       THEN /\ state' = "CONNECTED"
            /\ queued' = queued \o pending
            /\ pending' = <<>>
            /\ conn_cb' = IF state = "CONNECTING" THEN Bump(conn_cb) ELSE conn_cb
            /\ UNCHANGED chan
       ELSE /\ ShutdownChannel
            /\ UNCHANGED <<state, pending, queued, conn_cb>>
  /\ UNCHANGED <<slot, connack_timer, ping_timer, ping_out, waiting_on_ping_response,
                 reconnect_task, clean_session, op_timeout, life_vars, ongoing,
                 outstanding, last_id, kind, packet_id, initiated, timer, wire,
                 sh, issued, completions, disc_owed, disc_cb>>

\* PUBACK for a PUBLISH the broker has: mqtt_request_complete with SUCCESS
\* on whatever request the table holds under that packet id.
Puback(m) ==
  LET r == outstanding[m.id]
  IN
  /\ chan \in {"UP", "CLOSING"}
  /\ wire' = wire \ {m}
  /\ IF r # NoOp THEN RequestComplete({r})   \* SUCCESS
                 ELSE UNCHANGED <<completions, timer, outstanding,
                                  pending, queued, ongoing>>
  /\ UNCHANGED <<conn_vars, life_vars, last_id, kind, packet_id, initiated,
                 sh, issued, conn_cb, disc_owed, disc_cb>>

\* PINGRESP clears waiting_on_ping_response.
Pingresp ==
  /\ ping_out
  /\ chan \in {"UP", "CLOSING"}
  /\ ping_out' = FALSE
  /\ waiting_on_ping_response' = FALSE
  /\ UNCHANGED <<state, slot, chan, connect_out, connack_timer, ping_timer,
                 reconnect_task, clean_session, op_timeout, life_vars,
                 req_vars, sh, ghost_vars>>

\* The network fails: aws-c-io shuts the channel down.
TransportDrop ==
  /\ chan = "UP"
  /\ chan' = "CLOSING"
  /\ UNCHANGED <<state, slot, connect_out, connack_timer, ping_timer, ping_out,
                 waiting_on_ping_response, reconnect_task, clean_session,
                 op_timeout, life_vars, req_vars, sh, ghost_vars>>

\* The connection memory is gone; nothing can take a step.
Terminated ==
  /\ destroy_calls >= 1
  /\ UNCHANGED vars

-----------------------------------------------------------------------------

Init ==
  /\ state = "DISCONNECTED"
  /\ slot = FALSE
  /\ chan = "NONE"
  /\ connect_out = FALSE
  /\ connack_timer = FALSE
  /\ ping_timer = FALSE
  /\ ping_out = FALSE
  /\ waiting_on_ping_response = FALSE
  /\ reconnect_task = FALSE
  /\ clean_session = FALSE
  /\ op_timeout = FALSE
  /\ ref_count = 1
  /\ user_refs = 1
  /\ client_refs = aws_mqtt_client_acquire(ClientRefsAtNew)
  /\ user_client = TRUE
  /\ disc_impl = FALSE
  /\ final_disconnect = FALSE
  /\ destroy_calls = 0
  /\ pending = <<>>
  /\ queued = <<>>
  /\ ongoing = <<>>
  /\ outstanding = [p \in Ids |-> NoOp]
  /\ last_id = 0
  /\ kind = [o \in Ops |-> "NONE"]
  /\ packet_id = [o \in Ops |-> 0]
  /\ initiated = [o \in Ops |-> FALSE]
  /\ timer = [o \in Ops |-> "none"]
  /\ wire = {}
  /\ sh = [pc |-> "idle", prev |-> "DISCONNECTED", cancelling |-> <<>>]
  /\ issued = <<>>
  /\ completions = [o \in Ops |-> 0]
  /\ conn_cb = 0
  /\ disc_owed = FALSE
  /\ disc_cb = 0

UserStep ==
  \/ \E clean \in BOOLEAN, t \in Timeouts, out \in ConnectPaths :
       Connect(clean, t, out)
  \/ Disconnect
  \/ DisconnectImpl
  \/ \E o \in Ops, k \in Kinds : Publish(o, k)
  \/ UserAcquire
  \/ UserRelease
  \/ UserReleaseClient

ChannelSetup ==
  \/ \E step \in InitSteps : s_mqtt_client_init(step)
  \/ SetupFailed
  \/ s_on_websocket_setup_rejected

ShutdownSteps ==
  \/ ChannelShutdownComplete
  \/ s_mqtt_client_shutdown_release
  \/ s_mqtt_client_shutdown_interrupted
  \/ s_mqtt_client_shutdown_final

Timers ==
  \/ \E o \in Ops : s_request_timeout(o) \/ s_request_timeout_orphan(o)
  \/ s_pingresp_received_timeout
  \/ s_connack_received_timeout

Broker ==
  \/ \E accepted \in BOOLEAN : Connack(accepted)
  \/ \E m \in wire : Puback(m)
  \/ Pingresp
  \/ \E armed \in BOOLEAN : s_pingreq_send(armed)

Next ==
  \/ UserStep
  \/ ChannelSetup
  \/ ShutdownSteps
  \/ s_attempt_reconnect
  \/ PublishSend
  \/ Timers
  \/ Broker
  \/ TransportDrop
  \/ Terminated

\* The event loop runs every scheduled task and callback: weak fairness on
\* channel setup, the shutdown sequence, the channel tasks and the timers.
\* A user thread inside disconnect returns from it.  Users, the broker and
\* the network owe nothing else.  The reconnect task runs too, but each
\* run may fail synchronously and leave everything as it was, so nothing
\* obliges a reconnect to ever start a channel: no fairness on
\* s_attempt_reconnect.
Spec ==
  /\ Init /\ [][Next]_vars
  /\ WF_vars(ChannelSetup)
  /\ WF_vars(ShutdownSteps)
  /\ WF_vars(Timers)
  /\ WF_vars(PublishSend)
  /\ WF_vars(DisconnectImpl)

-----------------------------------------------------------------------------
(* Properties.                                                             *)

TypeOK ==
  /\ state \in States
  /\ chan \in ChanStates
  /\ {slot, connect_out, connack_timer, ping_timer, ping_out, reconnect_task,
      waiting_on_ping_response, clean_session, op_timeout,
      final_disconnect, disc_owed, disc_impl} \subseteq BOOLEAN
  /\ user_refs \in 0..MaxUserRefs /\ ref_count \in 0..MaxUserRefs + 2
  /\ destroy_calls \in 0..CallCap
  /\ client_refs \in 0..2 /\ user_client \in BOOLEAN
  /\ \A l \in {pending, queued, ongoing, sh.cancelling} : l \in Seq(Ops)
  /\ outstanding \in [Ids -> Ops \cup {NoOp}]
  /\ last_id \in 0..MaxPacketId
  /\ kind \in [Ops -> Kinds \cup {"NONE"}]
  /\ packet_id \in [Ops -> 0..MaxPacketId]
  /\ timer \in [Ops -> {"none", "linked", "orphan"}]
  /\ wire \subseteq [id : Ids, op : Ops, first : BOOLEAN, dup : BOOLEAN]
  /\ sh.pc \in {"idle", "release", "interrupted", "final"} /\ sh.prev \in States
  /\ completions \in [Ops -> 0..CallCap]
  /\ {conn_cb, disc_cb} \subseteq 0..CallCap

\* Every completion callback of a request fires at most once, whichever of
\* PUBACK, operation timeout, a failed send, clean-session cancellation,
\* channel teardown or destroy_final reaches it.
CompletionAtMostOnce == \A o \in Ops : completions[o] <= 1

\* The outstanding table and the lists agree (mqtt_create_request,
\* mqtt_request_complete, s_mqtt_client_shutdown): a request is in exactly
\* one of pending, the channel queue, ongoing or the clean-session cancel
\* batch; those are exactly the requests in the table, under their own
\* packet id; and only the cancel batch has fired its callback while still
\* tracked.
RequestTrackingConsistent ==
  /\ {outstanding[p] : p \in Ids} \ {NoOp} = Live
  /\ \A o \in Live : outstanding[packet_id[o]] = o
  /\ Len(pending) + Len(queued) + Len(ongoing) + Len(sh.cancelling) = Cardinality(Live)
  /\ \A o \in Live \ Elems(sh.cancelling) : completions[o] = 0

\* The request_timeout_wrapper link: while a timeout task still points at
\* its request (s_request_timeout will complete packet_id), that packet id
\* belongs to this very request, still awaiting its PUBACK.
TimeoutTargetsOwner ==
  \A o \in Ops : timer[o] = "linked" =>
    /\ outstanding[packet_id[o]] = o
    /\ o \in Elems(ongoing)

\* Every PUBLISH the broker may still acknowledge carries the packet id of
\* the request it was sent for, so a PUBACK (mqtt_request_complete by
\* packet id) completes the request that was published, not another.
AckTargetsOwnRequest ==
  \A m \in wire : outstanding[m.id] \in {NoOp, m.op}

\* After s_mqtt_client_connection_destroy_final nothing refers to the
\* connection: no channel, slot, timer, reconnect task or shutdown step is
\* left to run, no request is tracked, and destroy ran once.
NoUseAfterDestroy ==
  destroy_calls >= 1 =>
    /\ destroy_calls = 1 /\ ref_count = 0
    /\ chan = "NONE" /\ ~slot /\ ~reconnect_task /\ sh.pc = "idle"
    /\ \A o \in Ops : timer[o] = "none"
    /\ Live = {} /\ \A p \in Ids : outstanding[p] = NoOp

\* The client's reference count is exactly its holders: the user until
\* aws_mqtt_client_release, the connection until destroy_final.  So the
\* client (and the bootstrap every reconnect reads through it) is never
\* freed while the connection can still run, whenever the user lets go of
\* it, and is freed once both are done.
ClientOutlivesConnection ==
  client_refs = (IF user_client THEN 1 ELSE 0) + (IF destroy_calls = 0 THEN 1 ELSE 0)

\* Once destroyed, every request ever accepted by publish has had its
\* completion callback (with CONNECTION_DESTROYED if nothing else came).
ExactlyOnceAtDestroy ==
  destroy_calls >= 1 => \A o \in Elems(issued) : completions[o] = 1

\* on_connection_complete fires once per connect call.
ConnectCallbackOnce == conn_cb <= 1

\* A PUBLISH written again after its first attempt has DUP set.
RetransmissionMarkedDup == \A m \in wire : ~m.first => m.dup

\* A disconnect accepted by aws_mqtt_client_connection_disconnect is
\* eventually answered by on_disconnect, provided the network does not
\* refuse every reconnect attempt synchronously: a reconnect task that
\* stays scheduled eventually starts a channel.  (When every attempt fails
\* at once, s_attempt_reconnect reschedules forever without reading the
\* state, and the disconnect never completes: the disconnect_settles run.)
DisconnectCompletes ==
  WF_vars(s_attempt_reconnect) => (disc_owed ~> ~disc_owed)


\* Position of an accepted operation in submission order.
Submitted(o) == CHOOSE i \in DOMAIN issued : issued[i] = o

\* Spec section 5 ordering: QoS 1 requests that survive a disconnect are
\* sent again in the order they were submitted.  The order in which the
\* outstanding QoS 1 requests will (again) reach the broker is the ongoing
\* list, then the channel queue, then the pending list; s_mqtt_client_shutdown
\* puts the ongoing list behind the pending one.
ResendInSubmissionOrder ==
  LET s == SelectSeq(ongoing \o queued \o pending, LAMBDA o : kind[o] = "QOS1")
  IN \A i, j \in DOMAIN s : i < j => Submitted(s[i]) < Submitted(s[j])

-----------------------------------------------------------------------------
(* Refinement of the section 4.4 state machine.  The code stays in         *)
(* RECONNECTING while a reconnect attempt sets up a channel (it installs   *)
(* the slot there, line 452): that attempt is the table's CONNECTING of a  *)
(* reconnect, and RECONNECTING proper is the wait for the reconnect task.  *)

FSMState == IF state = "RECONNECTING" /\ chan # "NONE" THEN "CONNECTING" ELSE state

FSM == INSTANCE ConnectionFSM WITH state <- FSMState,
                                   interrupted <- (state = "RECONNECTING"),
                                   bound <- slot

\* Every state change the connection makes (user calls, channel callbacks,
\* CONNACK, the last release) is a transition of the section 4.4 table: a
\* first connect that fails ends DISCONNECTED, a CONNACK racing a user
\* disconnect never reopens the connection, and the slot exists only in
\* CONNECTING, CONNECTED and DISCONNECTING.
RefinesConnectionFSM == FSM!Spec

=============================================================================

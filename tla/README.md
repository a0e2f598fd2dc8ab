# TLA+ models of aws-c-mqtt's client connection

This directory holds TLA+ models of the MQTT 3.1.1 client connection in
`src/source/client.c`. It has the modules, the TLC configurations that check
them, and `PROJECT.json`. That file lists the components, the runs, the
mutation tests, the map from each definition to the source lines it models,
the findings and the hazards.

## 1. The system

A `struct aws_mqtt_client_connection` is shared by two kinds of thread:

- **User threads** call `connect`, `disconnect`, `publish`, `subscribe`,
  `unsubscribe`, `ping`, the configuration setters and `release`.
- **The event-loop thread** of the connection's aws-c-io channel runs the
  bootstrap's setup and shutdown callbacks (`s_mqtt_client_init` and
  `s_mqtt_client_shutdown`). It also runs the channel tasks (the outgoing
  request tasks), the timers (CONNACK, PINGRESP and operation timeout) and
  the reconnect task.

The state they share is `synced_data`: the state, the pending-request list,
the outstanding-request table and the request pool. It is guarded by one
mutex. The user-facing callbacks run outside that lock, and
`s_mqtt_client_shutdown` drops and retakes the lock between its sections.

### Inventory

| Component (spec §2) | State in the code | Operations that change it | Interacts with |
|---|---|---|---|
| ConnectionFSM | `synced_data.state`, `slot`, `reconnect_task`, callbacks, `clean_session` | `connect` (1371), `s_mqtt_client_connect` (1569), `disconnect` (1640), `s_mqtt_client_init` (418), `s_mqtt_client_shutdown` (192), `s_connack_received_timeout` (393), CONNACK handling (outside src/) | every other component |
| RequestTable | `pending_requests_list`, `outstanding_requests_table`, `requests_pool`, `packet_id`, `thread_data.ongoing_requests_list` | `mqtt_create_request` and `mqtt_request_complete` (outside src/), clean-session cancel (1495), shutdown moves (223) | OperationEngine, TimerSet |
| TimerSet | `request_timeout_wrapper` pair (back pointer and forward pointer), CONNACK and PINGRESP tasks | `s_schedule_timeout_task` (127), `s_request_timeout` (102), `s_publish_complete` (2827) | RequestTable, channel |
| OperationEngine | per-request args: topic, payload, QoS, `is_first_attempt` | `publish` (2856), `s_publish_send` (2734), subscribe and unsubscribe families | TopicTree, RequestTable |
| KeepAlive/Reconnect | `waiting_on_ping_response`, `reconnect_timeouts` | `s_pingreq_send` (2946), `s_pingresp_received_timeout` (2930), `s_attempt_reconnect` (594) | ConnectionFSM |
| Lifecycle | `ref_count`, `on_disconnect` | `acquire`/`release` (875), `start_destroy` (743), `s_on_final_disconnect` (737), `destroy_final` (671) | ConnectionFSM |
| TopicTree | `thread_data.subscriptions` (topic_tree.c, outside src/) | subscribe, unsubscribe and resubscribe sends (1715, 2481, 2265), their complete callbacks, inbound PUBLISH | OperationEngine |
| Configuration setters | `will`, `username`/`password`, interruption and any-publish handlers, `http_proxy_config`, `reconnect_timeouts` | `set_will` (913), `set_login` (978), `set_reconnect_timeout` (1031), `set_connection_interruption_handlers` (1052), `set_on_any_publish_handler` (1074), `set_http_proxy_options` (1126) | ConnectionFSM (the state gate), the event loop that reads the fields |
| Websocket set-up | `websocket.enabled`, handshake transformer and validator with their user data, `handshake_request` | `use_websockets` (1108), `s_websocket_connect` (1224), `s_websocket_handshake_transform_complete` (1273), `s_on_websocket_setup` (1154), `s_on_websocket_shutdown` (1142) | ConnectionFSM (it replaces the socket bootstrap's setup and shutdown callbacks), Configuration setters |
| Client object | `aws_mqtt_client` reference count and bootstrap | `aws_mqtt_client_new` (159), `acquire`/`release` (177, 185) | Lifecycle (the connection holds a reference) |

### Hard behaviours

These are the behaviours a model checker reaches and a unit test hardly
does. Each is listed in `PROJECT.json` under `hazards`, at its line.

- Interleaving of a user call with the shutdown callback between its
  critical sections. An example is a connect between lines 353 and 376.
- A timeout racing the PUBACK, with the pointer pair cleared on each side.
- Packet-id reuse after a request completes before the broker answered,
  through a timeout or through a timer that could not be allocated.
- Requests moved from ongoing back to pending on transport loss, then
  resent, and cancelled outright by a clean-session connect.
- Disconnect during a reconnect and disconnect from `on_interrupted`.
- The pin that connect takes on the reference count, and destruction
  through `s_on_final_disconnect`.
- The reference counts of `subscribe_task_topic` objects, shared between a
  subscribe request and the topic tree, across send failures, retries after
  a transport loss, and a later subscribe displacing the tree's terminal.
- The reconnect backoff: 64-bit doubling with an overflow guard, a reset
  timer, and a reconnect task that reschedules itself without looking at
  the connection state.
- Configuration setters that check the state under the lock and then store
  their fields one by one without it, while the event loop reads them.
- A user disconnect whose second half (`mqtt_disconnect_impl`, line 1671)
  reads the slot without the lock, racing the channel shutdown.
- The order in which surviving requests are resent after a transport loss
  (line 223).
- A websocket handshake that is rejected after the websocket is up: the
  channel is shut down without `s_mqtt_client_init` ever running (line
  1188), so the shutdown callback alone must finish the connect, the
  reconnect or a pending disconnect.

## 2. Modules

| Module | Models | Kind |
|---|---|---|
| `MqttConnection.tla` | ConnectionFSM, RequestTable, TimerSet, publish, KeepAlive, reconnect task, Lifecycle, client object | detailed |
| `ConnectionFSM.tla` | the transition table of spec §4.4 with the bound slot of spec §3 | abstract |
| `MqttSubscriptions.tla` | subscribe, subscribe_multiple, subscribe_local, unsubscribe, resubscribe; topic tree; task-topic reference counts | detailed |
| `MqttConfiguration.tla` | the configuration setters and the event-loop code that reads what they store | detailed |
| `ReconnectBackoff.tla` | the reconnect loop as the backoff and the clock see it; `set_reconnect_timeout` | detailed |
| `BackoffPolicy.tla` | the backoff policy of spec §4.6 in unbounded arithmetic | abstract |
| `MC_*.tla` | constants, model values and symmetry sets for TLC | instantiation |

### `MqttConnection.tla`: the connection engine

This one module covers the ConnectionFSM, RequestTable, TimerSet, the
publish part of the OperationEngine, KeepAlive, the reconnect task, the
Lifecycle and the client object. They share one lock and one object, so
splitting them into modules would only duplicate their state.

**State.** Each variable is commented with the field it stands for.

- `chan` abstracts the aws-c-io channel to four states: none, being set
  up, up, or shutting down.
- The request tracker keeps the code's four places: `pending`, `queued`
  (scheduled outgoing channel tasks), `ongoing` and `outstanding` (id → op).
  It also keeps per-operation `kind`, `packet_id`, `initiated` (the
  inverse of `is_first_attempt`) and `timer`. `timer` is one of `none`,
  `linked` (both pointers set) or `orphan` (the timeout task is scheduled
  and its back pointer is nulled).
- `wire` is the set of QoS 1 PUBLISHes the broker has and has not yet
  acknowledged, with the id and DUP flag each went out with.
- `sh` is the program counter of `s_mqtt_client_shutdown` and the list of
  requests it is cancelling.
- `disc_impl` marks a user thread that has left disconnect's critical
  section and has yet to run `mqtt_disconnect_impl`.
- `client_refs` and `user_client` are the `aws_mqtt_client` reference
  count and whether the user still holds its reference.
- The ghosts `issued` (accepted operations in submission order),
  `completions`, `conn_cb`, `disc_owed` and `disc_cb` count what the user
  observes.

**Actions.** There is one action per critical section or callback, named
after the C function where there is one.

- `s_mqtt_client_shutdown` is split where it unlocks: `ShutdownBegin` is
  CS1 plus the cancel callbacks. Then come `_release` (lines 286–316),
  `_interrupted` (317–349) and `_final` (350–384).
- `disconnect` is split the same way: `Disconnect` is the critical
  section (DISCONNECTING), `DisconnectImpl` the unlocked
  `mqtt_disconnect_impl`, which shuts the channel down only if it still
  finds a slot.
- Every return path of `s_publish_send` is its own action: COMPLETE,
  ERROR, ONGOING after a write, and the timer allocation failure.
- `s_mqtt_client_init` takes its failure point as a parameter.
- With `Websockets = TRUE` (`use_websockets` was called), channel set-up
  has a third way besides `s_mqtt_client_init` and `SetupFailed`:
  `s_on_websocket_setup_rejected`, a handshake that cannot be converted or
  that the validator rejects. It shuts the channel down without running
  `s_mqtt_client_init`. A failed websocket connect or transform reaches
  `s_mqtt_client_init` with an error, which is `SetupFailed`.
- `connect` takes its outcome as a parameter: TLS copy failure, an early
  copy failure, a synchronous bootstrap failure, or a started bootstrap.
- `s_attempt_reconnect` has both outcomes of its `s_mqtt_client_connect`
  call: a started channel, or a synchronous failure that schedules the
  task again (lines 630–637). Without a clock or a backoff in this module
  the failure leaves every variable as it was, so it is a stuttering step.
- `s_request_timeout` and `s_request_timeout_orphan` are the two ways the
  timeout task runs: with its request still linked, or after completion
  nulled the back pointer.
- `UserAcquire` and `UserRelease` are the user's
  `aws_mqtt_client_connection_acquire` and `_release`; `user_refs` counts
  the references the user holds.
- `UserReleaseClient` is the user's `aws_mqtt_client_release`. The
  connection takes its reference in `Init` (`aws_mqtt_client_connection_new`,
  line 794) and drops it in `DestroyFinal` (line 731).

**Refinement.** `ConnectionFSM` is spec §4.4's table as a state machine
with three variables: the state, whether the connection was interrupted
(a CONNECTING in that mode is a reconnect attempt, whose failure returns
to RECONNECTING), and whether the slot is bound. The slot is installed
only by "transport up" in CONNECTING and is gone before DISCONNECTED or
RECONNECTING. The code stays in RECONNECTING while a reconnect attempt
sets up its channel and installs the slot there (line 452). The mapping
therefore reads RECONNECTING with a channel as the table's CONNECTING:
`FSMState`, with `interrupted <- (state = "RECONNECTING")` and
`bound <- slot`. The property `RefinesConnectionFSM` checks it.

**Modelled from the specification.** Code outside `src/`
(`client_channel_handler.c`) is modelled from `spec.md` and marked
`spec_modelled` in the map. This covers request creation and completion,
the outgoing task, CONNACK, PUBACK and PINGRESP handling, and the channel
cancelling its tasks at shutdown. The last is aws-c-io behaviour: the
channel's tasks are cancelled before the shutdown callback runs. Timers
are cancelled without running, a cancelled QoS 0 task completes with
NOT_CONNECTED, and a cancelled retryable task goes back to pending.

**Abstracted.** Topics, payloads and error codes are left out; the only
distinction kept is completed versus not completed. Packet ids range over
`1..MaxPacketId` and wrap like the 16-bit counter. Time is left out: a
timer may fire whenever it is scheduled.

### `MqttSubscriptions.tla`: subscriptions and the topic tree

**State.** A request `r` has a `kind` (the API call that created it), its
`filters` and `topics` (the `subscribe_task_topic` objects its
`task_arg->topics` lists). A topic object is `<<request, filter,
generation>>`; a resubscribe builds a new generation on each send attempt,
as `s_resubscribe_send` does. `refs` and `cleaned` count each object's
`ref_count` and the runs of `s_task_topic_clean_up`. `tree` maps a filter
to the terminal object the topic tree holds for it. `pending` and
`ongoing` are the request engine's lists; `online`, `clean`, `broker` and
`drops` are the connection as the subscription code sees it.

**Actions.**

- The user calls (`Subscribe`, `SubscribeMultiple`, `SubscribeLocal`,
  `Unsubscribe`, `Resubscribe`) create a request through `Create`, which
  takes one reference on each new topic object.
- `SubscribeSend`, `SubscribeLocalSend`, `UnsubscribeSend` and
  `ResubscribeSend` are the send callbacks, each with every return path.
  The failure points `alloc`, `encode`, `handoff` and `timer` form the
  constant set `Faults`, so a run chooses which of them can happen.
  A send that inserts into the tree acquires the tree's reference on the
  first attempt and releases the terminal it displaces.
- `Settle` is the common end of a send or an ack. ONGOING appends to the
  ongoing list. COMPLETE or ERROR runs the complete callback that
  `mqtt_create_request` was given for the request's kind
  (`CompleteReleases`): `s_subscribe_single_complete`,
  `s_subscribe_complete` (multi), `s_subscribe_local_complete`,
  `s_resubscribe_complete` or `s_unsubscribe_complete`. Each of the first
  four drops the reference of every object in its topic list; the
  unsubscribe callback holds none. Objects whose count reaches zero are
  cleaned up. A clean-session transport loss runs the same callbacks.
- `Ack` (SUBACK/UNSUBACK, spec-modelled), `UnsubscribeTimeout` (the
  UNSUBSCRIBE timer, with `UnlinkTimeout` nulling the pointer on
  completion), `TransportDrop` (clean session cancels everything,
  otherwise ongoing goes back to pending) and `Reconnect`.

The topic tree (`topic_tree.c`, outside `src/`) is modelled from spec §4.1
as a map from filter to terminal: `Inserted` and `Displaced` are its insert
transaction. Wildcard matching is not modelled.

### `MqttConfiguration.tla`: the setters against the event loop

A setter takes the lock only to check the state. It then stores its fields
one by one with the lock released:

- `set_will`: qos/retain, then topic, then payload;
- `set_login`: username, then password;
- the interruption handlers: four fields;
- `set_on_any_publish_handler`: handler, then user data.

- `use_websockets`: transformer, its user data, validator, its user
  data, then `enabled`.

`set_http_proxy_options` checks nothing: it destroys the old config, sets
it to NULL, and makes the new one. `use_websockets` checks nothing either.

**State.** `cfg` maps each group to its fields. A field holds the number
of the setter call that stored it. 0 means the value `connection_new`
leaves (NULL for pointers), and `Freed` (-1) is a destroyed proxy config.
`user` is the setter the one user thread is in and its next store.
`state`, `chan` and `task` are the connection reduced to what moves the
readers. The ghosts are:

- `last`: the latest call of each group and whether it returned success;
- `reads`: what each reader last saw and what a settled setter promised.

**Readers.**

- CONNECT's will and login, read by `s_mqtt_client_init`;
- `on_interrupted`, from `s_mqtt_client_shutdown`;
- `on_resumed`, after a reconnect's CONNACK;
- `on_any_publish`, on an inbound PUBLISH;
- the proxy config, from `s_mqtt_client_connect` on connect and on every
  reconnect (on the websocket path, from the transform's completion);
- the handshake transformer and its user data, from `s_websocket_connect`
  when `s_mqtt_client_connect` finds `enabled` set;
- the handshake validator and its user data, from `s_on_websocket_setup`
  (the channel is then `WS_SETUP`).

The reconnect task runs `s_mqtt_client_connect`, or fails synchronously
and is scheduled again, which changes nothing this module keeps. The
module checks no type invariant: every field it has is typed by how the
setters are written, so such an invariant would say nothing about the code.

Each reader reads all its fields in one step, since the event loop holds
no lock either. `Gate` is the state check, with the
`set_on_any_publish_handler` variant that refuses only CONNECTED. The
allocation failures `topic_copy`, `payload_copy`, `login_copy` and
`proxy_new` are the constant `Faults`.

### `ReconnectBackoff.tla` and `BackoffPolicy.tla`: the backoff

`ReconnectBackoff` keeps the connection state, a four-state channel, the
`reconnect_timeouts` (`min_sec`, `max_sec`, `current_sec`), and the
seconds left until `next_attempt_ms`, `next_attempt_reset_timer_ns` and the
reconnect task's run time. The integers are `W` bits wide; `Double` is the
guarded doubling of line 618 taken modulo `2^W`. `s_attempt_reconnect`
covers lines 594–641 including the synchronous-failure reschedule;
`ChannelDown` covers the two places in `s_mqtt_client_shutdown` that
schedule the task. `Tick` advances time by one second. Ghosts record the
gap between two attempts and the backoff the first of them promised.

`BackoffPolicy` is the abstract specification: the backoff doubles up to
`max` with no wrap-around, resets to `min`, or changes with the bounds, and
nothing else changes it. `ReconnectBackoff` implements it under the
refinement mapping `backoff <- current_sec, lo <- min_sec, hi <- max_sec`
(`Policy == INSTANCE BackoffPolicy WITH ...`, checked as the property
`RefinesBackoffPolicy`).

## 3. Runs

| Run | cfg | Expect | What it shows |
|---|---|---|---|
| core | `MC_MqttConnection.cfg` | pass | With 3 ops, 2 ids and a finite operation timeout: each request completes at most once; every tracked request sits in exactly one place and owns its id; there is no step after destroy; destroy completes every request; a timeout task only completes the request it was armed for, also when it races the PUBACK. Every state change is a transition of the §4.4 table, and the slot exists only in CONNECTING, CONNECTED and DISCONNECTING (reading a reconnect attempt as CONNECTING). |
| disconnect_liveness | `MC_Liveness.cfg` | pass | Provided a reconnect task that stays scheduled eventually starts a channel (the hypothesis `WF_vars(s_attempt_reconnect)` of `DisconnectCompletes`), every accepted disconnect gets `on_disconnect`. Without that hypothesis it fails, as disconnect_settles shows. This includes a disconnect during a reconnect, one from `on_interrupted`, and one whose unlocked slot read races the shutdown. Pings are on. The user may release its client at any point; the client's count is exactly its holders, so it outlives the connection. |
| backoff | `MC_ReconnectBackoff.cfg` | pass | With 4-bit integers the backoff never wraps and refines `BackoffPolicy`. Two attempts are never closer than the backoff the first promised. A connection in RECONNECTING keeps trying (`ReconnectKeepsTrying`): the task is rescheduled after a failed attempt, even when the broker never answers and connects fail at once. Without the CONNACK timeout this fails. |
| subscriptions | `MC_MqttSubscriptions.cfg` | pass | With 3 requests of every kind, 2 filters, every fault, either session and one transport loss: no topic object is cleaned up twice, or cleaned up while the tree or a live request still holds it. |
| configuration | `MC_MqttConfiguration.cfg` | pass | With every setter, every allocation failure and two setter calls racing connects, reconnects, CONNACKs and inbound PUBLISHes: once a setter has returned success, the event loop reads exactly what it stored, until the next call of that setter. |
| connect_callback_once | `MC_ConnectCallbackOnce.cfg` | violation | A `s_mqtt_client_init` failure calls `on_connection_complete` in `handle_error` and again from the shutdown callback. |
| retransmission_dup | `MC_RetransmissionDup.cfg` | violation | A resent QoS 1 PUBLISH has DUP=0, because the header is built once with `dup = !is_first_attempt`. |
| ack_after_timeout | `MC_AckAfterTimeout.cfg` | violation | A timed-out or timer-failed request's id is reused, and the old PUBACK completes the new request. |
| resend_order | `MC_ResendOrder.cfg` | violation | A QoS 1 PUBLISH still queued on the channel at a transport loss goes back to pending ahead of an earlier one already written, since line 223 appends the ongoing list behind. After the reconnect the later one is sent first (spec §5 says submission order). |
| disconnect_settles | `MC_DisconnectSettles.cfg` | violation | A disconnect while RECONNECTING, with `s_mqtt_client_connect` failing synchronously, reschedules the reconnect task for ever (lines 631–637 do not read the state). |
| topic_leak | `MC_TopicLeak.cfg` | violation | A subscribe whose encoding fails keeps the references it acquired for the tree, so its topic objects are never cleaned up. |
| config_race | `MC_ConfigRace.cfg` | violation | A setter stores after its state check released the lock. A handler set while CONNECTING is called, after CONNACK, with the previous user data. A login set while CONNECTED goes half-replaced into a reconnect's CONNECT. A reconnect reads a proxy config the setter is destroying. |

Each property of a passing run has a mutation test in `PROJECT.json`. Each
test replaces a mapped definition with a plausible defect, and TLC must
then find the property violated. The defects are:

- connect forgets or leaks its pin;
- a clean session fires the callbacks but keeps the requests;
- completion forgets to unlist the request, or keeps the timeout link;
- destroy does not cancel what is left;
- init ignores a disconnect that came during setup;
- the CONNACK handler ignores a concurrent disconnect;
- the connection stores the client without acquiring it;
- the reconnect task is rescheduled at once, or at the reset timer;
- the doubling loses its overflow guard;
- the complete callback releases twice;
- the tree insert forgets to acquire;
- `set_login` keeps the old password;
- the interruption setter stores one field too many.

### Bounds

- Three operations and two packet ids are the smallest setting in which a
  freed id is reused by a different request while a third is in flight.
  Two QoS 1 operations already give the resend-order violation.
- The liveness run uses one operation. Its questions are about the FSM and
  the lifecycle, and fairness checking with three operations is far too
  large. The client release and a second user reference
  (`MaxUserRefs = 2`) are only in that run: they touch no request, and in
  the core run they would double the state space.
- `Websockets = TRUE` in the core and liveness runs. The websocket set-up
  outcomes include every outcome of the socket bootstrap, so those runs
  cover both transports. The violation runs use sockets.
- `CallCap` bounds the callback counters at 2, since a count of 2 already
  violates the at-most-once properties.
- Subscriptions: three requests over two filters let two subscribes
  displace each other in the tree while a third request (an unsubscribe or
  resubscribe) is in flight. `MaxDrops = 1` gives one transport loss, so
  every request can be resent once, and `Gens` has two generations.
- Configuration: `MaxCalls = 2` lets a second call of a group follow a
  first, or a failed, one while a reconnect is in progress. All six
  groups and all four faults are enabled.
- Backoff: `W = 4` makes 15 the largest value, so the doubling reaches the
  guard (`8 > 15 div 2`) and, without it, wraps (`16 % 16 = 0`). With
  `<<1,15>>` the backoff runs 1, 2, 4, 8, 15; with `<<3,7>>` it runs 3, 6,
  7, so the clamp is reached from below max as well as by the guard, and
  switching between the two pairs leaves `current_sec` above the new max.

### Fairness

- `MqttConnection`: weak fairness on the event loop: channel setup, the
  shutdown sequence, the timers and the outgoing channel tasks. aws-c-io
  runs every scheduled task and callback. There is also weak fairness on
  `DisconnectImpl`: a user thread that is inside `disconnect` returns from
  it. The reconnect task also runs, but each run may fail synchronously
  without changing anything here. Weak fairness on `s_attempt_reconnect`
  would therefore force the network to let a connect start some time.
  The spec does not assume that; `DisconnectCompletes` states it as the
  hypothesis of an implication.
- `MqttSubscriptions`: weak fairness on each request's send task, on the
  UNSUBSCRIBE timeout task and on reconnection.
- `ReconnectBackoff`: weak fairness on `s_attempt_reconnect`, `ChannelUp`,
  the connection's own shutdowns and `Tick` (time passes). The CONNACK timeout and the
  reschedule in `s_mqtt_client_shutdown` are event-loop tasks, so these
  fairness conditions are what `ReconnectKeepsTrying` rests on.
- `MqttConfiguration`: no fairness. Its runs check safety only.

Users, the broker and the network owe nothing in any module, so a silent
broker is allowed. The subscription runs set `CHECK_DEADLOCK FALSE`: each
request is issued once, so the model stops when every request is done, and
a SUBSCRIBE whose SUBACK never comes waits for ever (there is no SUBSCRIBE
timer).

## 4. Known divergences not checked by a run

These came up while modelling. Each is listed in `PROJECT.json` as a
hazard at its line, with a note. At most twelve runs are kept, and these
are single calls or short sequences a unit test reaches directly:

- `connect` returns an error after a TLS-options copy failure with the
  state still CONNECTING (line 1457). The connection can then never
  connect, disconnect or be destroyed. The runs leave the `tls_fail`
  outcome out, because the stuck connection deadlocks every run.
- `s_subscribe_send` commits its tree transaction although the channel
  refused the SUBSCRIBE (line 1789). A clean-session loss likewise leaves
  committed but unacknowledged filters (line 220).
- `resubscribe_existing_topics` sends local-only filters to the broker
  (line 2303).
- Releasing the last user reference while connected never destroys the
  connection, because connect's pin keeps the count at 1 (line 1543).
- The first reconnect attempt after a long connection is scheduled for a
  `next_attempt_ms` already in the past (line 343).
- `min_sec = 0` makes the backoff stay 0 (line 618).
- No timer is armed for SUBSCRIBE (line 1799).
- The UNSUBSCRIBE is written before its timer is allocated (line 2544).
- A resubscribe resend builds new topic objects and leaks the old ones,
  and its packet refers to tree-owned strings (line 2272).
- `set_will` stores qos and retain before the payload copy that can fail
  (line 948). `set_http_proxy_options` destroys the old proxy before
  making the new one (line 1136). A failed call therefore leaves a mixed
  will or no proxy. These paths are modelled (the `payload_copy` and
  `proxy_new` faults), but `SettledSettingIsRead` promises nothing after
  a failed call.

## 5. Not modelled

- **Topic matching and inbound PUBLISH dispatch**: the tree is a map from
  filter to terminal; wildcards are not modelled.
- **The ping's packet id.** `s_pingreq_send` goes through
  `mqtt_create_request` and takes a packet id. The model does not give it
  one, so pings never compete with publishes for ids.
- **Payload chunking** in `s_publish_send`: a write split across several
  messages, and the unchecked NULL message at 2802.
- **The websocket handshake request** (building it, its headers, its
  release), the stubs compiled without `AWS_MQTT_WITH_WEBSOCKETS`
  (lines 1329–1365), and the copying of TLS options. They are I/O set-up
  whose only effect on the engine is the connect outcome `MqttConnection`
  already has.
- **The request pool** and the bootstrap the client holds. They are
  allocation only.
- **The test-only accessors** of the outstanding table (lines 2677–2732).

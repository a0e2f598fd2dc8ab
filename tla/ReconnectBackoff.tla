--------------------------- MODULE ReconnectBackoff ---------------------------
(***************************************************************************)
(* The reconnect loop of aws_mqtt_client_connection (client.c) as the      *)
(* backoff and the clock see it: s_attempt_reconnect with its overflow     *)
(* guard and its rescheduling on a synchronous bootstrap failure, the two  *)
(* places in s_mqtt_client_shutdown that schedule the reconnect task at    *)
(* next_attempt_ms, the reset timer that disconnect zeroes, the            *)
(* set_reconnect_timeout setter, and the reset to min_sec that the CONNACK *)
(* handler (client_channel_handler.c, modelled from spec.md 4.6) performs  *)
(* once a connection outlived next_attempt_reset_timer_ns.                 *)
(*                                                                         *)
(* Time is counted in whole seconds (the code converts seconds to ns) and  *)
(* kept relative to now: next_attempt, reset_in and due_in are the seconds *)
(* left until next_attempt_ms, next_attempt_reset_timer_ns and the task's  *)
(* run time, 0 once they have passed.  The integers are W bits wide (64 in *)
(* the code) so that the guard against overflow in the doubling matters.   *)
(* Requests, pings and the channel's internals are MqttConnection's.       *)
(***************************************************************************)
EXTENDS Naturals

CONSTANTS
  W,            \* width of current_sec / max_sec in bits (uint64_t: 64)
  Bounds,       \* <<min_timeout, max_timeout>> pairs passed to the setter
  Outcomes      \* results of s_mqtt_client_connect in s_attempt_reconnect

Modulus == 2^W
ResetSlack == 10     \* the 10000000000 ns added to the reset timer
ASSUME W \in Nat \ {0} /\ Bounds \subseteq (0..Modulus-1) \X (0..Modulus-1)
ASSUME Outcomes \subseteq {"started", "sync_fail"} /\ Outcomes # {}

VARIABLES
  state,         \* synced_data.state
  chan,          \* "NONE" | "SETUP" (bootstrap started) | "UP" (CONNECT sent)
  min_sec, max_sec, current_sec,   \* reconnect_timeouts
  next_attempt,  \* next_attempt_ms, seconds from now
  reset_in,      \* next_attempt_reset_timer_ns, seconds from now
  task,          \* reconnect_task->task scheduled on an event loop
  due_in,        \* seconds until the scheduled task runs
  since,         \* ghost: seconds since the last attempt (capped)
  promised,      \* ghost: backoff the latest attempt promised to wait
  owed,          \* ghost: what the attempt before it had promised
  last_gap       \* ghost: seconds between those two attempts

vars == <<state, chan, min_sec, max_sec, current_sec, next_attempt, reset_in,
          task, due_in, since, promised, owed, last_gap>>
ghosts == <<since, promised, owed, last_gap>>

Cap == Modulus - 1 + ResetSlack
Dec(x) == IF x > 0 THEN x - 1 ELSE 0

-----------------------------------------------------------------------------

\* aws_mqtt_client_connection_connect reaching s_mqtt_client_connect; its
\* early failures leave the backoff alone (MqttConnection models them).
Connect ==
  /\ state = "DISCONNECTED"
  /\ state' = "CONNECTING"
  /\ chan' = "SETUP"
  /\ UNCHANGED <<min_sec, max_sec, current_sec, next_attempt, reset_in, task,
                 due_in, ghosts>>

\* aws_mqtt_client_connection_set_reconnect_timeout: only in DISCONNECTED
\* or CONNECTED (s_check_connection_state_for_configuration); current_sec
\* is left as it is.
SetReconnectTimeout(b) ==
  /\ state \in {"DISCONNECTED", "CONNECTED"}
  /\ min_sec' = b[1]
  /\ max_sec' = b[2]
  /\ UNCHANGED <<state, chan, current_sec, next_attempt, reset_in, task,
                 due_in, ghosts>>

\* aws_mqtt_client_connection_disconnect: CONNECTED or RECONNECTING become
\* DISCONNECTING and next_attempt_reset_timer_ns is zeroed.  A channel is
\* shut down (ShutdownOwn); a scheduled reconnect task is left alone.
Disconnect ==
  /\ state \in {"CONNECTED", "RECONNECTING"}
  /\ state' = "DISCONNECTING"
  /\ reset_in' = 0
  /\ UNCHANGED <<chan, min_sec, max_sec, current_sec, next_attempt, task,
                 due_in, ghosts>>

\* Defect variant (mutation test of ReattemptNotBeforeBackoff): a failed
\* synchronous connect is retried on the next event-loop tick.
RescheduleNow(wait) == 0

\* Defect variant (mutation test of TypeOK): the task is scheduled for
\* next_attempt_reset_timer_ns (10 s more) instead of next_attempt_ms.
RescheduleAtResetTimer(wait) == wait + ResetSlack

\* The reconnect task is scheduled for next_attempt_ms.
Reschedule(wait) == wait

\* Defect variant (mutation test of RefinesBackoffPolicy): the doubling
\* without the check against max_sec / 2, so it wraps at 2^W.
DoubleUnguarded(c, m) == (2 * c) % Modulus

\* "Check before multiplying to avoid potential overflow".
Double(c, m) == IF c > m \div 2 THEN m ELSE (2 * c) % Modulus

\* s_attempt_reconnect, run when the task is due.  next_attempt_ms is now
\* plus the current backoff, the backoff doubles up to max_sec, the reset
\* timer is now + 10 s + the new backoff, and s_mqtt_client_connect starts
\* a channel or fails at once, in which case the task is rescheduled for
\* next_attempt_ms.  The connection state is not read.
s_attempt_reconnect ==
  /\ task /\ due_in = 0
  /\ next_attempt' = current_sec
  /\ current_sec' = Double(current_sec, max_sec)
  /\ reset_in' = ResetSlack + current_sec'
  /\ \E out \in Outcomes :
       IF out = "started"
         THEN chan' = "SETUP" /\ task' = FALSE /\ UNCHANGED due_in
         ELSE task' = TRUE /\ due_in' = Reschedule(current_sec) /\ UNCHANGED chan
  /\ since' = 0
  /\ promised' = current_sec
  /\ owed' = promised
  /\ last_gap' = since
  /\ UNCHANGED <<state, min_sec, max_sec>>

\* s_mqtt_client_init: the bootstrap set the channel up and CONNECT went
\* out (a DISCONNECTING connection is shut down again: ShutdownOwn).
ChannelUp ==
  /\ chan = "SETUP"
  /\ chan' = "UP"
  /\ UNCHANGED <<state, min_sec, max_sec, current_sec, next_attempt, reset_in,
                 task, due_in, ghosts>>

\* The CONNACK handler (client_channel_handler.c, from spec.md 4.6):
\* CONNECTING or RECONNECTING become CONNECTED, and if the reset timer has
\* passed the backoff goes back to min_sec.
Connack ==
  /\ chan = "UP"
  /\ state \in {"CONNECTING", "RECONNECTING"}
  /\ state' = "CONNECTED"
  /\ current_sec' = IF reset_in = 0 THEN min_sec ELSE current_sec
  /\ UNCHANGED <<chan, min_sec, max_sec, next_attempt, reset_in, task, due_in,
                 ghosts>>

\* s_mqtt_client_shutdown as the reconnect loop sees it: a failed
\* reconnect attempt (prev RECONNECTING) and an interrupted connection
\* (prev CONNECTED) schedule the task for next_attempt_ms, as it was last
\* computed; CONNECTING and DISCONNECTING end in DISCONNECTED.
ChannelDown ==
  /\ chan # "NONE"
  /\ chan' = "NONE"
  /\ CASE state = "CONNECTED" ->
            /\ state' = "RECONNECTING"
            /\ task' = TRUE /\ due_in' = Reschedule(next_attempt)
       [] state = "RECONNECTING" ->
            /\ task' = TRUE /\ due_in' = Reschedule(next_attempt)
            /\ UNCHANGED state
       [] OTHER ->
            /\ state' = "DISCONNECTED"
            /\ UNCHANGED <<task, due_in>>
  /\ UNCHANGED <<min_sec, max_sec, current_sec, next_attempt, reset_in, since,
                 promised, owed, last_gap>>

\* Defect variant (mutation test of ReconnectKeepsTrying): no CONNACK
\* timeout, so only a disconnect shuts the channel down.
ShutdownOwnNoConnackTimeout ==
  /\ state = "DISCONNECTING"
  /\ ChannelDown

\* The shutdowns the connection starts itself: on a disconnect, and the
\* CONNACK timeout of a channel that is up but not yet CONNECTED.
ShutdownOwn ==
  /\ \/ state = "DISCONNECTING"
     \/ chan = "UP" /\ state \in {"CONNECTING", "RECONNECTING"}
  /\ ChannelDown

\* A second passes.  A connection still CONNECTED when the reset timer
\* runs out has persisted long enough: the backoff goes back to min_sec.
Tick ==
  /\ \/ task /\ due_in > 0
     \/ next_attempt > 0 \/ reset_in > 0
  /\ due_in' = Dec(due_in)
  /\ next_attempt' = Dec(next_attempt)
  /\ reset_in' = Dec(reset_in)
  /\ current_sec' = IF state = "CONNECTED" /\ reset_in = 1 THEN min_sec
                    ELSE current_sec
  /\ since' = IF since < Cap THEN since + 1 ELSE Cap
  /\ UNCHANGED <<state, chan, min_sec, max_sec, task, promised, owed, last_gap>>

-----------------------------------------------------------------------------

Init ==
  /\ state = "DISCONNECTED"
  /\ chan = "NONE"
  /\ \E b \in Bounds : min_sec = b[1] /\ max_sec = b[2]
  /\ current_sec = 0                   \* calloc
  /\ next_attempt = 0 /\ reset_in = 0
  /\ task = FALSE /\ due_in = 0
  /\ since = Cap /\ promised = 0 /\ owed = 0 /\ last_gap = Cap

Next ==
  \/ Connect
  \/ \E b \in Bounds : SetReconnectTimeout(b)
  \/ Disconnect
  \/ s_attempt_reconnect
  \/ ChannelUp
  \/ Connack
  \/ ChannelDown
  \/ Tick

\* The event loop runs due tasks and bootstrap callbacks, the connection's
\* own shutdowns complete, and time passes.  Users, the broker and the
\* network owe nothing.
Spec ==
  /\ Init /\ [][Next]_vars
  /\ WF_vars(s_attempt_reconnect)
  /\ WF_vars(ChannelUp)
  /\ WF_vars(ShutdownOwn)
  /\ WF_vars(Tick)

-----------------------------------------------------------------------------
(* Properties.                                                             *)

TypeOK ==
  /\ state \in {"DISCONNECTED", "CONNECTING", "CONNECTED", "RECONNECTING",
                "DISCONNECTING"}
  /\ chan \in {"NONE", "SETUP", "UP"}
  /\ {min_sec, max_sec, current_sec, next_attempt} \subseteq 0..Modulus-1
  /\ reset_in \in 0..Cap /\ due_in \in 0..Modulus-1
  /\ task \in BOOLEAN

\* The backoff s_attempt_reconnect computes, the reset and the setter
\* together implement spec 4.6's policy in unbounded arithmetic: doubling
\* up to max_sec with no wrap-around, reset to min_sec, and no other change.
Policy == INSTANCE BackoffPolicy WITH backoff <- current_sec, lo <- min_sec,
                                     hi <- max_sec
RefinesBackoffPolicy == Policy!Spec

\* Two reconnect attempts are never closer together than the backoff the
\* first of them computed next_attempt_ms from, whichever way that attempt
\* failed (at once, or through the shutdown callback later).
ReattemptNotBeforeBackoff == last_gap >= owed

\* While the connection waits to reconnect, a new attempt is always made
\* eventually: a channel whose CONNACK never comes is shut down by the
\* CONNACK timeout, the shutdown of a failed attempt (prev RECONNECTING)
\* reschedules the task for next_attempt_ms, a synchronous connect failure
\* reschedules it from s_attempt_reconnect, and the task runs once that
\* time has come.  The broker and the network may refuse every attempt.
ReconnectKeepsTrying ==
  state = "RECONNECTING" ~> (since = 0 \/ state # "RECONNECTING")

\* A disconnect is always carried through to DISCONNECTED, also when it
\* comes while the connection is waiting to reconnect.
DisconnectSettles == state = "DISCONNECTING" ~> state = "DISCONNECTED"
=============================================================================

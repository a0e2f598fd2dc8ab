-------------------------- MODULE MqttSubscriptions --------------------------
(***************************************************************************)
(* The subscription operations of src/source/client.c: subscribe,          *)
(* subscribe_multiple, subscribe_local, unsubscribe and                    *)
(* resubscribe_existing_topics, their send and complete callbacks, the     *)
(* topic tree they mutate and the reference counts of the                  *)
(* subscribe_task_topic objects that the requests and the tree share.      *)
(*                                                                         *)
(* The request engine (mqtt_create_request, the outgoing task, SUBACK and  *)
(* UNSUBACK handling) and the topic tree live outside src/ and are         *)
(* modelled from spec.md, at the level MqttConnection models them: a FIFO  *)
(* pending list, an ongoing list, completion with a status, and on         *)
(* transport loss either cancel-all (clean session) or ongoing moved back  *)
(* to pending.  A topic object is <<request, filter, generation>>: a       *)
(* resubscribe builds a new generation of objects on every send attempt.   *)
(***************************************************************************)
EXTENDS Naturals, Sequences, FiniteSets, SequencesExt

CONSTANTS
  Reqs,        \* the requests users may issue, one operation each
  Filters,     \* topic filters
  Kinds,       \* the API calls enabled: "sub", "multi", "local", "unsub", "resub"
  Faults,      \* send failure points: "alloc", "encode", "handoff", "timer"
  Sessions,    \* the clean_session values the connection may use
  TimeoutOn,   \* whether operation_timeout_ns is finite
  MaxDrops     \* bound on transport losses

ASSUME Kinds \subseteq {"sub", "multi", "local", "unsub", "resub"}
ASSUME Faults \subseteq {"alloc", "encode", "handoff", "timer"}
ASSUME Sessions \subseteq BOOLEAN /\ Sessions # {}
ASSUME TimeoutOn \in BOOLEAN /\ MaxDrops \in Nat

Gens == 1..(MaxDrops + 1)         \* a request is sent at most once per connection
Obj == Reqs \X Filters \X Gens    \* subscribe_task_topic objects
NoObj == <<>>                     \* an empty terminal of the topic tree

VARIABLES
  kind,          \* request -> the API call that created it, or "none"
  filters,       \* request -> its topic filters (task_arg->topics / filter)
  topics,        \* request -> the task_topic objects its task_arg->topics lists
  pending,       \* synced_data.pending_requests_list, in order
  ongoing,       \* thread_data.ongoing_requests_list, in order
  done,          \* requests whose complete callback has run
  result,        \* request -> "ok" | "error" once done
  attempts,      \* request -> number of send attempts
  tree_updated,  \* task_arg->tree_updated
  is_local,      \* unsubscribe_task_arg->is_local
  packet,        \* resubscribe: the tree objects its encoded SUBSCRIBE names
  timer,         \* unsubscribe: timeout_wrapper linked to a scheduled timeout
  tree,          \* thread_data.subscriptions: filter -> terminal object
  refs,          \* object -> ref_count
  cleaned,       \* object -> number of s_task_topic_clean_up runs
  online,        \* the channel is up (CONNECTED)
  clean,         \* connection->clean_session
  broker,        \* requests whose packet the broker holds on this connection
  drops          \* transport losses so far

vars == <<kind, filters, topics, pending, ongoing, done, result, attempts,
          tree_updated, is_local, packet, timer, tree, refs, cleaned, online,
          clean, broker, drops>>

Issued == {r \in Reqs : kind[r] # "none"}
Live == Issued \ done
TreeObjs == {tree[f] : f \in Filters} \ {NoObj}
Held == TreeObjs \cup UNION {topics[r] : r \in Live}
OwnerOf(o) == o[1]

\* Mutant of Released: a release that drops two references.
ReleasedTwice(rf, S) == [o \in Obj |-> IF o \in S THEN rf[o] - 2 ELSE rf[o]]

\* s_task_topic_release on each object of S, and the objects it frees.
Released(rf, S) == [o \in Obj |-> IF o \in S THEN rf[o] - 1 ELSE rf[o]]
Freed(rf, S) == {o \in S : rf[o] = 1}
Bumped(cl, F) == [o \in Obj |-> IF o \in F THEN cl[o] + 1 ELSE cl[o]]

\* Mutant of Acquired: the insert loop forgets to take the tree's reference.
AcquiredNone(rf, S) == rf

\* aws_ref_count_acquire after a successful tree insert.
Acquired(rf, S) == [o \in Obj |-> IF o \in S THEN rf[o] + 1 ELSE rf[o]]

\* The objects a batch of tree inserts displaces: the tree releases the
\* terminal it overwrites.
Displaced(objs) == {tree[o[2]] : o \in objs} \ ({NoObj} \cup objs)
Inserted(objs) == [f \in Filters |->
                     IF \E o \in objs : o[2] = f
                     THEN CHOOSE o \in objs : o[2] = f ELSE tree[f]]

Init ==
  /\ kind = [r \in Reqs |-> "none"]
  /\ filters = [r \in Reqs |-> {}]
  /\ topics = [r \in Reqs |-> {}]
  /\ pending = <<>> /\ ongoing = <<>>
  /\ done = {}
  /\ result = [r \in Reqs |-> "none"]
  /\ attempts = [r \in Reqs |-> 0]
  /\ tree_updated = [r \in Reqs |-> FALSE]
  /\ is_local = [r \in Reqs |-> FALSE]
  /\ packet = [r \in Reqs |-> {}]
  /\ timer = [r \in Reqs |-> FALSE]
  /\ tree = [f \in Filters |-> NoObj]
  /\ refs = [o \in Obj |-> 0]
  /\ cleaned = [o \in Obj |-> 0]
  /\ online = TRUE
  /\ clean \in Sessions
  /\ broker = {} /\ drops = 0

(***************************************************************************)
(* User calls.  Each validates the filter, allocates its task arg and      *)
(* task_topic objects (ref_count 1, owned by the request) and calls        *)
(* mqtt_create_request, which appends the request to the pending list.     *)
(* The early returns (invalid filter, allocation failure) change nothing.  *)
(***************************************************************************)
Create(r, k, fs, objs) ==
  /\ kind[r] = "none"
  /\ k \in Kinds
  /\ kind' = [kind EXCEPT ![r] = k]
  /\ filters' = [filters EXCEPT ![r] = fs]
  /\ topics' = [topics EXCEPT ![r] = objs]
  /\ refs' = [o \in Obj |-> IF o \in objs THEN 1 ELSE refs[o]]
  /\ pending' = Append(pending, r)
  /\ UNCHANGED <<ongoing, done, result, attempts, tree_updated, is_local,
                 packet, timer, tree, cleaned, online, clean, broker, drops>>

Subscribe(r, f) == Create(r, "sub", {f}, {<<r, f, 1>>})

SubscribeMultiple(r, fs) ==
  fs # {} /\ Create(r, "multi", fs, {<<r, f, 1>> : f \in fs})

SubscribeLocal(r, f) == Create(r, "local", {f}, {<<r, f, 1>>})

Unsubscribe(r, f) == Create(r, "unsub", {f}, {})

Resubscribe(r) == Create(r, "resub", {}, {})

(***************************************************************************)
(* The request engine's handling of a send callback's return value, and   *)
(* of completion (spec 4.2, 4.5): ONGOING puts the request on the ongoing *)
(* list; COMPLETE and ERROR complete it, and its complete callback        *)
(* (s_subscribe_complete, s_subscribe_single_complete,                    *)
(* s_subscribe_local_complete, s_resubscribe_complete) releases every     *)
(* object its topic list holds.  rf, cl and tp are the reference counts,  *)
(* cleanups and topic lists as the send left them.                        *)
(***************************************************************************)
s_subscribe_complete(tp, r) == tp[r]         \* subscribe_multiple
s_subscribe_single_complete(tp, r) == tp[r]  \* subscribe: its one topic
s_subscribe_local_complete(tp, r) == tp[r]   \* subscribe_local
s_resubscribe_complete(tp, r) == tp[r]       \* none when the list is empty

\* The complete callback mqtt_create_request was given for the request's
\* kind; s_unsubscribe_complete holds no topic object.
CompleteReleases(tp, r) ==
  CASE kind[r] = "multi" -> s_subscribe_complete(tp, r)
    [] kind[r] = "sub"   -> s_subscribe_single_complete(tp, r)
    [] kind[r] = "local" -> s_subscribe_local_complete(tp, r)
    [] kind[r] = "resub" -> s_resubscribe_complete(tp, r)
    [] OTHER             -> {}

Settle(r, st, rf, cl, tp) ==
  LET fin == st # "ONGOING"
      rel == IF fin THEN CompleteReleases(tp, r) ELSE {}
  IN /\ ongoing' = IF fin THEN Remove(ongoing, r) ELSE Append(ongoing, r)
     /\ done' = IF fin THEN done \cup {r} ELSE done
     /\ result' = IF fin
                  THEN [result EXCEPT ![r] = IF st = "COMPLETE" THEN "ok" ELSE "error"]
                  ELSE result
     /\ refs' = Released(rf, rel)
     /\ cleaned' = Bumped(cl, Freed(rf, rel))
     /\ topics' = tp

\* The outgoing task runs the send callback of the request at the head of
\* the pending list, on the event loop, while the channel is up.
SendBegins(r) ==
  /\ online /\ pending # <<>> /\ Head(pending) = r
  /\ pending' = Tail(pending)
  /\ attempts' = [attempts EXCEPT ![r] = @ + 1]

\* aws_channel_slot_send_message succeeded (ok) or failed.
Handoff(r, ok) ==
  /\ broker' = IF ok THEN broker \cup {r} ELSE broker

HandoffOutcomes == {TRUE} \cup (IF "handoff" \in Faults THEN {FALSE} ELSE {})

\* s_subscribe_send, for subscribe and subscribe_multiple.  The first
\* attempt stages a tree insert per filter and acquires each object; a
\* failure after the loop rolls the transaction back and returns ERROR.
\* A failed hand-off still commits and returns ONGOING (lines 1789-1796).
SubscribeSend(r) ==
  LET objs == topics[r]
      first == ~tree_updated[r]
      withRefs == Acquired(refs, objs)
      gone == Displaced(objs)
  IN
  /\ kind[r] \in {"sub", "multi"}
  /\ SendBegins(r)
  /\ \/ /\ "alloc" \in Faults /\ attempts[r] = 0
        /\ Settle(r, "ERROR", refs, cleaned, topics)
        /\ UNCHANGED <<tree, tree_updated, broker>>
     \/ /\ "encode" \in Faults
        /\ Settle(r, "ERROR", IF first THEN withRefs ELSE refs, cleaned, topics)
        /\ UNCHANGED <<tree, tree_updated, broker>>
     \/ /\ \E ok \in HandoffOutcomes : Handoff(r, ok)
        /\ IF first
           THEN /\ tree' = Inserted(objs)
                /\ tree_updated' = [tree_updated EXCEPT ![r] = TRUE]
                /\ Settle(r, "ONGOING", Released(withRefs, gone),
                          Bumped(cleaned, Freed(withRefs, gone)), topics)
           ELSE /\ UNCHANGED <<tree, tree_updated>>
                /\ Settle(r, "ONGOING", refs, cleaned, topics)
  /\ UNCHANGED <<kind, filters, is_local, packet, timer, online, clean, drops>>

\* s_subscribe_local_send: a direct tree insert, then COMPLETE.
SubscribeLocalSend(r) ==
  LET objs == topics[r]
      withRefs == Acquired(refs, objs)
      gone == Displaced(objs)
  IN
  /\ kind[r] = "local"
  /\ SendBegins(r)
  /\ \/ /\ "alloc" \in Faults
        /\ Settle(r, "ERROR", refs, cleaned, topics)
        /\ UNCHANGED tree
     \/ /\ tree' = Inserted(objs)
        /\ Settle(r, "COMPLETE", Released(withRefs, gone),
                  Bumped(cleaned, Freed(withRefs, gone)), topics)
  /\ UNCHANGED <<kind, filters, tree_updated, is_local, packet, timer, online,
                 clean, broker, drops>>

\* s_schedule_timeout_task and the mutual links set after it (2542-2553).
Armed(r) == [timer EXCEPT ![r] = TRUE]

\* s_unsubscribe_send.  The first attempt stages the removal and learns
\* from the removed object whether it was local; a local one commits and
\* completes without a packet.  Otherwise a failure before or at the
\* hand-off rolls back and returns ERROR; a failure to allocate the timeout
\* after the hand-off returns ERROR with the removal neither committed nor
\* rolled back (line 2544); success arms the timeout and commits.
UnsubscribeSend(r) ==
  LET f == CHOOSE x \in filters[r] : TRUE
      removed == tree[f]
      first == ~tree_updated[r]
      loc == IF first THEN removed # NoObj /\ kind[OwnerOf(removed)] = "local"
             ELSE is_local[r]
      gone == IF first /\ removed # NoObj THEN {removed} ELSE {}
      commitTree == IF first THEN [tree EXCEPT ![f] = NoObj] ELSE tree
  IN
  /\ kind[r] = "unsub"
  /\ SendBegins(r)
  /\ is_local' = [is_local EXCEPT ![r] = loc]
  /\ \/ /\ loc
        /\ tree' = commitTree
        /\ tree_updated' = [tree_updated EXCEPT ![r] = TRUE]
        /\ Settle(r, "COMPLETE", Released(refs, gone),
                  Bumped(cleaned, Freed(refs, gone)), topics)
        /\ UNCHANGED <<timer, broker>>
     \/ /\ ~loc
        /\ \/ "alloc" \in Faults /\ attempts[r] = 0
           \/ "encode" \in Faults
           \/ "handoff" \in Faults
        /\ Settle(r, "ERROR", refs, cleaned, topics)
        /\ UNCHANGED <<tree, tree_updated, timer, broker>>
     \/ /\ ~loc /\ "timer" \in Faults
        /\ Handoff(r, TRUE)
        /\ Settle(r, "ERROR", refs, cleaned, topics)
        /\ UNCHANGED <<tree, tree_updated, timer>>
     \/ /\ ~loc
        /\ Handoff(r, TRUE)
        /\ timer' = Armed(r)
        /\ tree' = commitTree
        /\ tree_updated' = [tree_updated EXCEPT ![r] = TRUE]
        /\ Settle(r, "ONGOING", Released(refs, gone),
                  Bumped(cleaned, Freed(refs, gone)), topics)
  /\ UNCHANGED <<kind, filters, packet, online, clean, drops>>

\* s_resubscribe_send.  Every attempt re-initialises task_arg->topics and
\* fills it from the tree through s_reconnect_resub_iterator, whose
\* objects start at ref_count 1; the list of an earlier attempt is
\* dropped.  The packet is built only on the first attempt; a resend
\* re-sends it.
ResubscribeSend(r) ==
  LET held == {f \in Filters : tree[f] # NoObj}
      fresh == {<<r, f, attempts[r] + 1>> : f \in held}
      withFresh == [o \in Obj |-> IF o \in fresh THEN 1 ELSE refs[o]]
      listed == [topics EXCEPT ![r] = fresh]
      names == IF attempts[r] = 0 THEN {tree[f] : f \in held} ELSE packet[r]
  IN
  /\ kind[r] = "resub"
  /\ SendBegins(r)
  /\ \/ /\ "alloc" \in Faults
        /\ Settle(r, "ERROR", refs, cleaned, [topics EXCEPT ![r] = {}])
        /\ UNCHANGED <<packet, broker>>
     \/ /\ held = {}
        /\ Settle(r, "COMPLETE", refs, cleaned, [topics EXCEPT ![r] = {}])
        /\ UNCHANGED <<packet, broker>>
     \/ /\ held # {} /\ "encode" \in Faults
        /\ Settle(r, "ERROR", withFresh, cleaned, listed)
        /\ UNCHANGED <<packet, broker>>
     \/ /\ held # {}
        /\ \E ok \in HandoffOutcomes : Handoff(r, ok)
        /\ packet' = [packet EXCEPT ![r] = names]
        /\ Settle(r, "ONGOING", withFresh, cleaned, listed)
  /\ UNCHANGED <<kind, filters, tree_updated, is_local, timer, tree, online,
                 clean, drops>>

\* s_unsubscribe_complete follows the forward pointer and clears the
\* timeout's back pointer, so a later timeout is a no-op.
UnlinkTimeout(r) == [timer EXCEPT ![r] = FALSE]

\* SUBACK or UNSUBACK for a request the broker received (spec 4.5); the
\* complete callback runs with success, and s_unsubscribe_complete unlinks
\* the timeout.
Ack(r) ==
  /\ online /\ r \in broker /\ r \in Range(ongoing)
  /\ broker' = broker \ {r}
  /\ timer' = UnlinkTimeout(r)
  /\ Settle(r, "COMPLETE", refs, cleaned, topics)
  /\ UNCHANGED <<kind, filters, pending, attempts, tree_updated, is_local,
                 packet, tree, online, clean, drops>>

\* s_request_timeout: the unsubscribe's timeout fires while still linked
\* and completes the request with AWS_ERROR_MQTT_TIMEOUT.
UnsubscribeTimeout(r) ==
  /\ TimeoutOn /\ timer[r]
  /\ timer' = UnlinkTimeout(r)
  /\ Settle(r, "ERROR", refs, cleaned, topics)
  /\ UNCHANGED <<kind, filters, pending, attempts, tree_updated, is_local,
                 packet, tree, online, clean, broker, drops>>

\* The transport is lost: s_mqtt_client_shutdown cancels the channel's
\* timeout tasks, then either cancels the ongoing and pending requests
\* (clean session) or moves the ongoing list to the back of the pending
\* list (lines 209-224).
TransportDrop ==
  LET cancel == Range(ongoing) \cup Range(pending)
      rel == UNION {CompleteReleases(topics, r) : r \in cancel}
  IN
  /\ online /\ drops < MaxDrops
  /\ online' = FALSE
  /\ drops' = drops + 1
  /\ broker' = {}
  /\ timer' = [r \in Reqs |-> FALSE]
  /\ IF clean
     THEN /\ pending' = <<>> /\ ongoing' = <<>>
          /\ done' = done \cup cancel
          /\ result' = [r \in Reqs |-> IF r \in cancel THEN "error" ELSE result[r]]
          /\ refs' = Released(refs, rel)
          /\ cleaned' = Bumped(cleaned, Freed(refs, rel))
     ELSE /\ pending' = pending \o ongoing /\ ongoing' = <<>>
          /\ UNCHANGED <<done, result, refs, cleaned>>
  /\ UNCHANGED <<kind, filters, topics, attempts, tree_updated, is_local,
                 packet, tree, clean>>

\* The reconnect task brings a new channel up.
Reconnect ==
  /\ ~online
  /\ online' = TRUE
  /\ UNCHANGED <<kind, filters, topics, pending, ongoing, done, result,
                 attempts, tree_updated, is_local, packet, timer, tree, refs,
                 cleaned, clean, broker, drops>>

UserCall ==
  \E r \in Reqs :
    \/ \E f \in Filters : Subscribe(r, f) \/ SubscribeLocal(r, f) \/ Unsubscribe(r, f)
    \/ \E fs \in SUBSET Filters : SubscribeMultiple(r, fs)
    \/ Resubscribe(r)

Send(r) ==
  SubscribeSend(r) \/ SubscribeLocalSend(r) \/ UnsubscribeSend(r) \/ ResubscribeSend(r)

Next ==
  \/ UserCall
  \/ \E r \in Reqs : Send(r) \/ Ack(r) \/ UnsubscribeTimeout(r)
  \/ TransportDrop
  \/ Reconnect

\* The event loop runs every scheduled task: the outgoing task, the
\* timeout task and the reconnect task.  The broker and the network owe
\* nothing.
Spec ==
  /\ Init /\ [][Next]_vars
  /\ \A r \in Reqs : WF_vars(Send(r)) /\ WF_vars(UnsubscribeTimeout(r))
  /\ WF_vars(Reconnect)

-----------------------------------------------------------------------------
(* Properties *)

TypeOK ==
  /\ kind \in [Reqs -> Kinds \cup {"none"}]
  /\ filters \in [Reqs -> SUBSET Filters]
  /\ topics \in [Reqs -> SUBSET Obj]
  /\ pending \in Seq(Reqs) /\ ongoing \in Seq(Reqs)
  /\ done \subseteq Issued
  /\ result \in [Reqs -> {"none", "ok", "error"}]
  /\ attempts \in [Reqs -> 0..(MaxDrops + 1)]
  /\ tree_updated \in [Reqs -> BOOLEAN] /\ is_local \in [Reqs -> BOOLEAN]
  /\ packet \in [Reqs -> SUBSET Obj]
  /\ timer \in [Reqs -> BOOLEAN]
  /\ tree \in [Filters -> Obj \cup {NoObj}]
  /\ refs \in [Obj -> Nat] /\ cleaned \in [Obj -> Nat]
  /\ online \in BOOLEAN /\ clean \in BOOLEAN
  /\ broker \subseteq Issued /\ drops \in 0..MaxDrops

\* No use after free of a subscribe_task_topic: an object the topic tree
\* or a live request still points to has not been cleaned up (its
\* on_cleanup has not run and its memory is not released), and no object
\* is cleaned up twice.  Breaking it takes a subscribe's send, its
\* completion and the tree's release (unsubscribe, a displacing insert)
\* in some order.
NoUseAfterCleanup ==
  \A o \in Obj : cleaned[o] <= 1 /\ (o \in Held => cleaned[o] = 0)

\* No leaked subscribe_task_topic: an object with a reference left is held
\* by the tree or by a live request, so its on_cleanup will eventually run.
NoLeakedTopics ==
  \A o \in Obj : refs[o] > 0 => o \in Held
====

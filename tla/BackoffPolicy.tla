---------------------------- MODULE BackoffPolicy ----------------------------
(***************************************************************************)
(* The reconnect backoff as spec.md section 4.6 states it, in unbounded    *)
(* arithmetic: each reconnect attempt doubles the backoff up to max_sec, a *)
(* connection that stayed up resets it to min_sec, and the user may set    *)
(* new bounds.  Nothing else changes the backoff.  ReconnectBackoff        *)
(* implements this with 64-bit (here W-bit) integers and an overflow guard.*)
(***************************************************************************)
EXTENDS Naturals

CONSTANT Bounds     \* the <<min, max>> pairs the user may configure

VARIABLES backoff, lo, hi

Doubled(b, h) == IF 2 * b < h THEN 2 * b ELSE h

Init == backoff = 0 /\ \E b \in Bounds : lo = b[1] /\ hi = b[2]

Configure == \E b \in Bounds : lo' = b[1] /\ hi' = b[2] /\ UNCHANGED backoff

Attempt == backoff' = Doubled(backoff, hi) /\ UNCHANGED <<lo, hi>>

Reset == backoff' = lo /\ UNCHANGED <<lo, hi>>

Next == Configure \/ Attempt \/ Reset

Spec == Init /\ [][Next]_<<backoff, lo, hi>>
=============================================================================

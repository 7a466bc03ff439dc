-------------------------- MODULE MetricsCollector --------------------------
(***************************************************************************)
(* One CachedMetric of the collector (collector/metrics.py) and what each  *)
(* method of QueryMetricsCollector does to it.  A method runs under the    *)
(* entry's lock, so to every other actor it is one indivisible change.     *)
(*                                                                         *)
(* Abstractions: a result (`rows`) is the tick of the run that produced    *)
(* it, 0 standing for None, plus whether it is the empty list; messages,   *)
(* durations and wall-clock times are left out; a list of failed nodes, a  *)
(* waiting reason and an invalid reason are present or not.                *)
(***************************************************************************)
EXTENDS Naturals

None == 0

AvailabilityErrors == {"NoLiveNodes", "ConnectionNotReady", "NodesUnreachable"}
ErrorTypes == AvailabilityErrors \cup {"QueryError", "InvalidResult"}
NoError == "None"

Entry ==
    [ rows : Nat, empty : BOOLEAN, tick_ts : Nat,
      up : BOOLEAN, expired : BOOLEAN, consecutive_failures : Nat,
      last_error : ErrorTypes \cup {NoError}, inflight : Nat,
      behind : BOOLEAN,                  \* last_skip_ts >= last_success_ts
      failed_nodes : BOOLEAN, waiting_reason : BOOLEAN, invalid_reason : BOOLEAN ]

NewEntry(invalid) ==
    [ rows |-> None, empty |-> FALSE, tick_ts |-> 0,
      up |-> FALSE, expired |-> FALSE, consecutive_failures |-> 0,
      last_error |-> NoError, inflight |-> 0, behind |-> FALSE,
      failed_nodes |-> FALSE, waiting_reason |-> FALSE, invalid_reason |-> invalid ]

(* Wrong variants of the definitions below, put in their place to see the   *)
(* properties fail.                                                         *)
Updated_AnyTick(e, tick, empty, failed) ==       \* older ticks overwrite newer ones
    [e EXCEPT !.tick_ts = tick, !.rows = tick, !.empty = empty, !.up = TRUE,
              !.expired = FALSE, !.consecutive_failures = 0, !.behind = FALSE,
              !.failed_nodes = failed, !.waiting_reason = FALSE]
Updated_KeepsFailures(e, tick, empty, failed) == \* a success does not reset the count
    IF tick < e.tick_ts
    THEN e
    ELSE [e EXCEPT !.tick_ts = tick, !.rows = tick, !.empty = empty,
                   !.up = TRUE, !.expired = FALSE]
DecInflight_NoFloor(e) == [e EXCEPT !.inflight = @ - 1]
Fail_Early(e, type, failed, limit) ==            \* expires one failure too soon
    [e EXCEPT !.up = FALSE, !.consecutive_failures = @ + 1, !.last_error = type,
              !.waiting_reason = FALSE, !.failed_nodes = failed,
              !.expired = @ \/ e.consecutive_failures + 2 >= limit]

\* A key that has an entry keeps its runtime state; only the spec part changes.
Registered(e, invalid) == [e EXCEPT !.invalid_reason = invalid]

\* The results of an older tick are discarded whole.
Updated(e, tick, empty, failed) ==
    IF tick < e.tick_ts
    THEN e
    ELSE [e EXCEPT !.tick_ts = tick, !.rows = tick, !.empty = empty,
                   !.up = TRUE, !.expired = FALSE, !.consecutive_failures = 0,
                   !.behind = FALSE,
                   !.failed_nodes = failed, !.waiting_reason = FALSE]

\* `failed` is what failed_nodes becomes: its old value when None was passed.
MarkFailure(e, type, failed) ==
    [e EXCEPT !.up = FALSE, !.consecutive_failures = @ + 1,
              !.last_error = type, !.waiting_reason = FALSE,
              !.failed_nodes = failed]

Expire(e) == [e EXCEPT !.expired = TRUE, !.up = FALSE]

MarkWaiting(e) == [e EXCEPT !.waiting_reason = TRUE]

RecordSkip(e) == [e EXCEPT !.behind = TRUE]

IncInflight(e) == [e EXCEPT !.inflight = @ + 1]

DecInflight(e) == [e EXCEPT !.inflight = IF @ = 0 THEN 0 ELSE @ - 1]

\* handlers/query.py `_fail`: record the failure, then expire the entry once it
\* has failed `limit` times in a row.
Fail(e, type, failed, limit) ==
    LET f == MarkFailure(e, type, failed)
    IN  IF f.consecutive_failures >= limit THEN Expire(f) ELSE f

\* collect(): the entries whose rows become series of the user's metric, and the
\* value of the query_up sample every entry has.
Exports(e) == ~e.invalid_reason /\ ~e.expired /\ e.rows # None /\ ~e.empty
UpSample(e) == e.up /\ ~e.invalid_reason
=============================================================================

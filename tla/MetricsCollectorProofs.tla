----------------------- MODULE MetricsCollectorProofs -----------------------
(***************************************************************************)
(* Lemmas about MetricsCollector: what each method returns, for any entry. *)
(* The proofs about the modules that use the entry cite them.              *)
(***************************************************************************)
EXTENDS MetricsCollector, TLAPS

-----------------------------------------------------------------------------
(* What the methods return is an entry.                                      *)

LEMMA NewEntryType == ASSUME NEW b \in BOOLEAN PROVE NewEntry(b) \in Entry
BY DEF NewEntry, Entry, None, NoError

LEMMA RegisteredType ==
    ASSUME NEW e \in Entry, NEW b \in BOOLEAN PROVE Registered(e, b) \in Entry
BY DEF Registered, Entry

LEMMA UpdatedType ==
    ASSUME NEW e \in Entry, NEW n \in Nat, NEW b \in BOOLEAN, NEW c \in BOOLEAN
    PROVE  Updated(e, n, b, c) \in Entry
BY DEF Updated, Entry

LEMMA MarkFailureType ==
    ASSUME NEW e \in Entry, NEW type \in ErrorTypes, NEW b \in BOOLEAN
    PROVE  MarkFailure(e, type, b) \in Entry
<1>1. ASSUME NEW n \in Nat
      PROVE  [e EXCEPT !.up = FALSE, !.consecutive_failures = n, !.last_error = type,
                       !.waiting_reason = FALSE, !.failed_nodes = b] \in Entry
  BY DEF Entry
<1>2. e.consecutive_failures + 1 \in Nat
  BY DEF Entry
<1>3. QED
  BY <1>1, <1>2 DEF MarkFailure

LEMMA FailType ==
    ASSUME NEW e \in Entry, NEW type \in ErrorTypes, NEW b \in BOOLEAN, NEW limit \in Nat
    PROVE  Fail(e, type, b, limit) \in Entry
<1>1. ASSUME NEW f \in Entry PROVE Expire(f) \in Entry
  BY DEF Expire, Entry
<1>2. QED
  BY <1>1, MarkFailureType DEF Fail

LEMMA SlotTypes ==
    ASSUME NEW e \in Entry
    PROVE  /\ MarkWaiting(e) \in Entry
           /\ RecordSkip(e) \in Entry
           /\ IncInflight(e) \in Entry
           /\ DecInflight(e) \in Entry
<1>1. MarkWaiting(e) \in Entry /\ RecordSkip(e) \in Entry
  BY DEF MarkWaiting, RecordSkip, Entry
<1>2. IncInflight(e) \in Entry /\ DecInflight(e) \in Entry
  BY DEF IncInflight, DecInflight, Entry
<1>3. QED BY <1>1, <1>2

-----------------------------------------------------------------------------
(* What the methods leave in it.                                             *)

LEMMA NewEntryFields ==
    ASSUME NEW b \in BOOLEAN,
           NEW f, f = NewEntry(b)
    PROVE  /\ f.rows = 0 /\ ~f.empty /\ f.tick_ts = 0
           /\ ~f.up /\ ~f.expired /\ f.consecutive_failures = 0
           /\ f.last_error = NoError /\ f.inflight = 0 /\ ~f.behind
           /\ ~f.failed_nodes /\ ~f.waiting_reason /\ (f.invalid_reason <=> b)
BY DEF NewEntry, None

\* The results of runs, which only the end of a run changes.
SameRuns(e, f) ==
    /\ f.rows = e.rows /\ (f.empty <=> e.empty) /\ f.tick_ts = e.tick_ts
    /\ (f.up <=> e.up) /\ (f.expired <=> e.expired)
    /\ f.consecutive_failures = e.consecutive_failures
    /\ f.last_error = e.last_error /\ (f.failed_nodes <=> e.failed_nodes)

LEMMA RegisteredFields ==
    ASSUME NEW e \in Entry, NEW b \in BOOLEAN
    PROVE  SameRuns(e, Registered(e, b)) /\ (Registered(e, b).invalid_reason <=> b)
BY DEF Registered, SameRuns, Entry

LEMMA SlotFields ==
    ASSUME NEW e \in Entry
    PROVE  /\ SameRuns(e, MarkWaiting(e)) /\ MarkWaiting(e).inflight = e.inflight
           /\ SameRuns(e, RecordSkip(e)) /\ RecordSkip(e).inflight = e.inflight
           /\ SameRuns(e, IncInflight(e)) /\ SameRuns(e, DecInflight(e))
BY DEF MarkWaiting, RecordSkip, IncInflight, DecInflight, SameRuns, Entry

LEMMA UpdatedFields ==
    ASSUME NEW e \in Entry, NEW n \in Nat, NEW b \in BOOLEAN, NEW c \in BOOLEAN,
           NEW f, f = Updated(e, n, b, c)
    PROVE  \/ n < e.tick_ts /\ f = e
           \/ /\ ~(n < e.tick_ts)
              /\ f.rows = n /\ f.tick_ts = n /\ (f.empty <=> b)
              /\ f.up /\ ~f.expired /\ f.consecutive_failures = 0
              /\ f.last_error = e.last_error /\ (f.failed_nodes <=> c)
              /\ f.inflight = e.inflight /\ (f.invalid_reason <=> e.invalid_reason)
BY DEF Updated, Entry

LEMMA MarkFailureFields ==
    ASSUME NEW e \in Entry, NEW type \in ErrorTypes, NEW b \in BOOLEAN,
           NEW f, f = MarkFailure(e, type, b)
    PROVE  /\ f.rows = e.rows /\ (f.empty <=> e.empty) /\ f.tick_ts = e.tick_ts
           /\ ~f.up /\ (f.expired <=> e.expired)
           /\ f.consecutive_failures = e.consecutive_failures + 1
           /\ f.last_error = type /\ (f.failed_nodes <=> b)
           /\ f.inflight = e.inflight /\ (f.invalid_reason <=> e.invalid_reason)
BY DEF MarkFailure, Entry

LEMMA ExpireFields ==
    ASSUME NEW e \in Entry,
           NEW f, f = Expire(e)
    PROVE  /\ f \in Entry
           /\ f.rows = e.rows /\ (f.empty <=> e.empty) /\ f.tick_ts = e.tick_ts
           /\ ~f.up /\ f.expired
           /\ f.consecutive_failures = e.consecutive_failures
           /\ f.last_error = e.last_error /\ (f.failed_nodes <=> e.failed_nodes)
           /\ f.inflight = e.inflight /\ (f.invalid_reason <=> e.invalid_reason)
BY DEF Expire, Entry

LEMMA FailFields ==
    ASSUME NEW e \in Entry, NEW type \in ErrorTypes, NEW b \in BOOLEAN, NEW limit \in Nat,
           NEW g, g = Fail(e, type, b, limit)
    PROVE  /\ g.rows = e.rows /\ (g.empty <=> e.empty) /\ g.tick_ts = e.tick_ts
           /\ ~g.up
           /\ (g.expired <=> e.expired \/ e.consecutive_failures + 1 >= limit)
           /\ g.consecutive_failures = e.consecutive_failures + 1
           /\ g.last_error = type /\ (g.failed_nodes <=> b)
           /\ g.inflight = e.inflight /\ (g.invalid_reason <=> e.invalid_reason)
<1> DEFINE f == MarkFailure(e, type, b)
<1>1. f \in Entry
  BY MarkFailureType
<1>2. g = IF f.consecutive_failures >= limit THEN Expire(f) ELSE f
  BY DEF Fail
<1>3. /\ f.rows = e.rows /\ (f.empty <=> e.empty) /\ f.tick_ts = e.tick_ts
      /\ ~f.up /\ (f.expired <=> e.expired)
      /\ f.consecutive_failures = e.consecutive_failures + 1
      /\ f.last_error = type /\ (f.failed_nodes <=> b)
      /\ f.inflight = e.inflight /\ (f.invalid_reason <=> e.invalid_reason)
  BY MarkFailureFields
<1> HIDE DEF f
<1>4. e.expired \in BOOLEAN
  BY DEF Entry
<1>5. CASE f.consecutive_failures >= limit
  BY <1>1, <1>2, <1>3, <1>4, <1>5, ExpireFields DEF f
<1>6. CASE ~(f.consecutive_failures >= limit)
  BY <1>2, <1>3, <1>4, <1>6 DEF f
<1>7. QED BY <1>5, <1>6

LEMMA FailureLemma ==
    ASSUME NEW e \in Entry, NEW type \in ErrorTypes, NEW b \in BOOLEAN, NEW limit \in Nat
    PROVE  LET f == MarkFailure(e, type, b)
               g == Fail(e, type, b, limit)
           IN  /\ f.rows = e.rows /\ f.tick_ts = e.tick_ts /\ f.up = FALSE
               /\ f.expired = e.expired
               /\ f.consecutive_failures = e.consecutive_failures + 1
               /\ g.rows = e.rows /\ g.tick_ts = e.tick_ts /\ g.up = FALSE
               /\ g.expired = (e.expired \/ e.consecutive_failures + 1 >= limit)
               /\ g.consecutive_failures = e.consecutive_failures + 1
<1> DEFINE f == MarkFailure(e, type, b)
           g == Fail(e, type, b, limit)
<1>1. /\ f \in Entry
      /\ f.rows = e.rows /\ f.tick_ts = e.tick_ts /\ f.up = FALSE
      /\ f.expired = e.expired
      /\ f.consecutive_failures = e.consecutive_failures + 1
  BY MarkFailureType DEF MarkFailure, Entry
<1>2. ASSUME NEW h \in Entry
      PROVE  /\ Expire(h).rows = h.rows /\ Expire(h).tick_ts = h.tick_ts
             /\ Expire(h).up = FALSE /\ Expire(h).expired = TRUE
             /\ Expire(h).consecutive_failures = h.consecutive_failures
  BY DEF Expire, Entry
<1>3. g = IF f.consecutive_failures >= limit THEN Expire(f) ELSE f
  BY DEF Fail
<1> HIDE DEF f, g
<1>4. e.expired \in BOOLEAN
  BY DEF Entry
<1>5. CASE f.consecutive_failures >= limit
  BY <1>1, <1>2, <1>3, <1>4, <1>5 DEF f, g
<1>6. CASE ~(f.consecutive_failures >= limit)
  BY <1>1, <1>3, <1>4, <1>6 DEF f, g
<1>7. QED BY <1>5, <1>6
=============================================================================

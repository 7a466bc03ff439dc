--------------------------- MODULE QueryScheduler ---------------------------
(***************************************************************************)
(* The ClickHouseQuery path of the operator (handlers/query.py) over the   *)
(* collector's entries: kopf's create/update/delete handlers, one          *)
(* scheduling daemon per resource, the fire-and-forget execution tasks it  *)
(* spawns and their done callbacks, the connection a run looks up, and the *)
(* cancellation of runs when the operator exits.                           *)
(*                                                                         *)
(* All of it runs on one asyncio loop: what happens between two awaits is  *)
(* one action.  A tick has no await before its sleep; a run awaits only    *)
(* inside the connection, so it starts (RunStarts, RunNotFound), answers   *)
(* (RunSucceeds, RunFails) and, one loop iteration later, its callbacks    *)
(* run (RunDone).  Ticks are stamped by loop.time(), which only grows: the *)
(* variable `clock` is the latest stamp, and names the run it spawned.     *)
(***************************************************************************)
EXTENDS MetricsCollector, FiniteSets

CONSTANTS
    Keys,            \* "namespace/name" of the resources
    Specs,           \* the specs users apply: records [max, kind, valid]
    Errors,          \* the errors that queries end with
    ExpireAfter,     \* PROMCH_EXPIRE_AFTER_FAILURES
    MaxTick,         \* bound: ticks that spawn a run
    MaxUid,          \* bound: times one name is created
    Peering,         \* kopf: TRUE if another replica may take over for a while
    EarlyRecreate    \* user: TRUE if a name is reused while old runs are alive

Kinds == {"data", "system"}
Spec0 == [max : Nat \ {0}, kind : Kinds, valid : BOOLEAN]
RunIds == 1..MaxTick

ASSUME SpecsAssumption == Specs # {} /\ Specs \subseteq Spec0
ASSUME ErrorsAssumption == Errors \subseteq ErrorTypes \ {"ConnectionNotReady"}
ASSUME LimitsAssumption == /\ ExpireAfter \in Nat \ {0}
                           /\ MaxTick \in Nat
                           /\ MaxUid \in Nat
ASSUME SwitchesAssumption == Peering \in BOOLEAN /\ EarlyRecreate \in BOOLEAN

VARIABLES
    registered,  \* the keys of collector._entries
    entry,       \* their CachedMetric; a blank one for the other keys
    life,        \* the resource in Kubernetes
    uid,         \* how many resources of that name there have been
    spec,        \* the resource's spec, which a daemon's kwarg follows live
    owed,        \* the handler kopf has yet to run for the resource
    daemon,      \* is a query_scheduler running for the resource?
    conn,        \* what get_connection returns: nothing, not ready, ready
    clock,       \* stamp of the last tick that spawned a run
    stage,       \* where each execution task is
    owner,       \* whose run it is: [key, uid, kind], fixed when spawned
    exiting,     \* kopf is shutting the operator down
    cleaned,     \* the cleanup handler has run
    paused,      \* another replica leads: no daemon, no handler, no event here
    delivered    \* history: the runs whose update() reached the entry

vars == << registered, entry, life, uid, spec, owed, daemon, conn, clock,
           stage, owner, exiting, cleaned, paused, delivered >>

resourceVars == << life, uid, spec, owed >>
runVars == << clock, stage, owner >>
operatorVars == << conn, exiting, cleaned, paused >>

Owner == [key : Keys, uid : 0..MaxUid, kind : Kinds]
Nobody == [key |-> "", uid |-> 0, kind |-> "data"]
Stages == {"unused", "created", "querying", "done", "gone"}

Alive(r) == stage[r] \in {"created", "querying", "done"}  \* it is in _pending
Pending(k) == {r \in RunIds : Alive(r) /\ owner[r].key = k}

\* Every method of the collector is a no-op on a key without an entry.
Change(k, e) == IF k \in registered THEN [entry EXCEPT ![k] = e] ELSE entry

Inflight(k) == IF k \in registered THEN entry[k].inflight ELSE 0
Invalid(k) == k \in registered /\ entry[k].invalid_reason

Init ==
    /\ registered = {}
    /\ entry = [k \in Keys |-> NewEntry(FALSE)]
    /\ life = [k \in Keys |-> "absent"]
    /\ uid = [k \in Keys |-> 0]
    /\ spec = [k \in Keys |-> CHOOSE s \in Specs : TRUE]
    /\ owed = [k \in Keys |-> "none"]
    /\ daemon = [k \in Keys |-> FALSE]
    /\ conn = "absent"
    /\ clock = 0
    /\ stage = [r \in RunIds |-> "unused"]
    /\ owner = [r \in RunIds |-> Nobody]
    /\ exiting = FALSE
    /\ cleaned = FALSE
    /\ paused = FALSE
    /\ delivered = [k \in Keys |-> {}]

-----------------------------------------------------------------------------
(* Wrong variants of the actions below, put in their place to see the        *)
(* properties fail.                                                          *)

HandleRegister_Fresh(k) ==       \* an edit replaces the entry, slots and all
    /\ owed[k] = "register" /\ ~paused
    /\ registered' = registered \cup {k}
    /\ entry' = [entry EXCEPT ![k] = NewEntry(~spec[k].valid)]
    /\ owed' = [owed EXCEPT ![k] = "none"]
    /\ UNCHANGED << life, uid, spec, daemon, runVars, operatorVars, delivered >>

RunStarts_WhenReady(r) ==        \* a run waits for a connection being rebuilt
    /\ stage[r] = "created" /\ conn = "ready"
    /\ stage' = [stage EXCEPT ![r] = "querying"]
    /\ UNCHANGED << registered, entry, resourceVars, daemon, clock, owner,
                    operatorVars, delivered >>

RunDone_KeepsSlot(r) ==          \* the second done callback is missing
    /\ stage[r] = "done"
    /\ stage' = [stage EXCEPT ![r] = "gone"]
    /\ UNCHANGED << registered, entry, resourceVars, daemon, clock, owner,
                    operatorVars, delivered >>

CancelPending_NotStarted ==      \* cancels only the runs that have not started
    /\ exiting /\ ~cleaned
    /\ \A k \in Keys : ~daemon[k]
    /\ cleaned' = TRUE
    /\ stage' = [r \in RunIds |-> IF stage[r] = "created" THEN "done" ELSE stage[r]]
    /\ UNCHANGED << registered, entry, resourceVars, daemon, conn, clock, owner,
                    exiting, paused, delivered >>

-----------------------------------------------------------------------------
(* The user and kopf: resources, their handlers, their daemons (external).   *)

Create(k, s) ==
    /\ life[k] = "absent" /\ ~exiting
    /\ uid[k] < MaxUid
    /\ EarlyRecreate \/ Pending(k) = {}
    /\ life' = [life EXCEPT ![k] = "present"]
    /\ uid' = [uid EXCEPT ![k] = @ + 1]
    /\ spec' = [spec EXCEPT ![k] = s]
    /\ owed' = [owed EXCEPT ![k] = "register"]
    /\ UNCHANGED << registered, entry, daemon, runVars, operatorVars, delivered >>

Edit(k, s) ==
    /\ life[k] = "present" /\ ~exiting
    /\ s # spec[k]
    /\ spec' = [spec EXCEPT ![k] = s]
    /\ owed' = [owed EXCEPT ![k] = "register"]
    /\ UNCHANGED << registered, entry, life, uid, daemon, runVars, operatorVars, delivered >>

Delete(k) ==
    /\ life[k] = "present" /\ ~exiting
    /\ life' = [life EXCEPT ![k] = "deleting"]
    /\ owed' = [owed EXCEPT ![k] = "deregister"]
    /\ UNCHANGED << registered, entry, uid, spec, daemon, runVars, operatorVars, delivered >>

\* The finalizer goes once the delete handler has run and the daemon has stopped.
\* During a pause the other replica's do it, and this one never hears of it.
Gone(k) ==
    /\ life[k] = "deleting" /\ ~daemon[k]
    /\ owed[k] = "none" \/ paused
    /\ life' = [life EXCEPT ![k] = "absent"]
    /\ owed' = [owed EXCEPT ![k] = "none"]
    /\ UNCHANGED << registered, entry, uid, spec, daemon, runVars, operatorVars, delivered >>

\* kopf spawns a daemon before it runs the handlers of the same event, and ends it
\* after them: neither waits for the other.
StartDaemon(k) ==
    /\ life[k] = "present" /\ ~daemon[k] /\ ~exiting /\ ~paused
    /\ daemon' = [daemon EXCEPT ![k] = TRUE]
    /\ UNCHANGED << registered, entry, resourceVars, runVars, operatorVars, delivered >>

\* `stopped` is set; the daemon is in its sleep, which ends, and so does the loop.
StopDaemon(k) ==
    /\ daemon[k]
    /\ life[k] = "deleting" \/ exiting \/ paused
    /\ daemon' = [daemon EXCEPT ![k] = FALSE]
    /\ UNCHANGED << registered, entry, resourceVars, runVars, operatorVars, delivered >>

Exit ==
    /\ ~exiting
    /\ exiting' = TRUE
    /\ UNCHANGED << registered, entry, resourceVars, daemon, conn, runVars, cleaned,
                    paused, delivered >>

\* Another replica takes over, or has gone.  Then kopf lists the resources afresh:
\* `register` runs for each, unless its edit was handled elsewhere meanwhile.
Pause ==
    /\ Peering /\ ~paused /\ ~exiting
    /\ paused' = TRUE
    /\ UNCHANGED << registered, entry, resourceVars, daemon, runVars, conn, exiting,
                    cleaned, delivered >>

Resume ==
    /\ paused /\ ~exiting
    /\ paused' = FALSE
    /\ \E elsewhere \in SUBSET registered :
          owed' = [k \in Keys |->
                     IF life[k] # "present" THEN owed[k]
                     ELSE IF k \in elsewhere THEN "none" ELSE "register"]
    /\ UNCHANGED << registered, entry, life, uid, spec, daemon, runVars, conn, exiting,
                    cleaned, delivered >>

-----------------------------------------------------------------------------
(* The handlers of the resource.                                             *)

\* register: the on.create / on.resume / on.update handler.
HandleRegister(k) ==
    /\ owed[k] = "register" /\ ~paused
    /\ registered' = registered \cup {k}
    /\ entry' = [entry EXCEPT ![k] =
                   IF k \in registered THEN Registered(@, ~spec[k].valid)
                                       ELSE NewEntry(~spec[k].valid)]
    /\ owed' = [owed EXCEPT ![k] = "none"]
    /\ UNCHANGED << life, uid, spec, daemon, runVars, operatorVars, delivered >>

\* deregister: the on.delete handler.
HandleDelete(k) ==
    /\ owed[k] = "deregister" /\ ~paused
    /\ registered' = registered \ {k}
    /\ entry' = [entry EXCEPT ![k] = NewEntry(FALSE)]
    /\ owed' = [owed EXCEPT ![k] = "none"]
    /\ delivered' = [delivered EXCEPT ![k] = {}]
    /\ UNCHANGED << life, uid, spec, daemon, runVars, operatorVars >>

-----------------------------------------------------------------------------
(* One iteration of _run_scheduler.  An invalid query only sleeps.           *)

TickWaits(k) ==
    /\ daemon[k] /\ ~Invalid(k)
    /\ conn # "ready"
    /\ entry' = Change(k, MarkWaiting(entry[k]))
    /\ UNCHANGED << registered, resourceVars, daemon, runVars, operatorVars, delivered >>

TickSkips(k) ==
    /\ daemon[k] /\ ~Invalid(k)
    /\ conn = "ready" /\ Inflight(k) >= spec[k].max
    /\ entry' = Change(k, RecordSkip(entry[k]))
    /\ UNCHANGED << registered, resourceVars, daemon, runVars, operatorVars, delivered >>

TickSpawns(k) ==
    /\ daemon[k] /\ ~Invalid(k)
    /\ conn = "ready" /\ Inflight(k) < spec[k].max
    /\ clock < MaxTick
    /\ clock' = clock + 1
    /\ entry' = Change(k, IncInflight(entry[k]))
    /\ stage' = [stage EXCEPT ![clock + 1] = "created"]
    /\ owner' = [owner EXCEPT ![clock + 1] =
                   [key |-> k, uid |-> uid[k], kind |-> spec[k].kind]]
    /\ UNCHANGED << registered, resourceVars, daemon, operatorVars, delivered >>

-----------------------------------------------------------------------------
(* An execution task (_execute) and its done callbacks.                      *)

RunStarts(r) ==
    /\ stage[r] = "created" /\ conn # "absent"
    /\ stage' = [stage EXCEPT ![r] = "querying"]
    /\ UNCHANGED << registered, entry, resourceVars, daemon, clock, owner,
                    operatorVars, delivered >>

\* The connection was deleted or is being rebuilt: mark_failure, not _fail.
RunNotFound(r) ==
    LET k == owner[r].key IN
    /\ stage[r] = "created" /\ conn = "absent"
    /\ stage' = [stage EXCEPT ![r] = "done"]
    /\ entry' = Change(k, MarkFailure(entry[k], "ConnectionNotReady", entry[k].failed_nodes))
    /\ UNCHANGED << registered, resourceVars, daemon, clock, owner, operatorVars, delivered >>

\* A system query answers with rows and maybe with nodes that failed; without
\* any row it is a success only if no node failed.
RunSucceeds(r, empty, failed) ==
    LET k == owner[r].key IN
    /\ stage[r] = "querying"
    /\ failed => owner[r].kind = "system" /\ ~empty
    /\ stage' = [stage EXCEPT ![r] = "done"]
    /\ entry' = Change(k, Updated(entry[k], r, empty, failed))
    /\ delivered' = IF k \in registered THEN [delivered EXCEPT ![k] = @ \cup {r}]
                                        ELSE delivered
    /\ UNCHANGED << registered, resourceVars, daemon, clock, owner, operatorVars >>

\* failed_nodes is passed on for a system query without a live node, from the
\* connection that is registered by then, and in no other case.
FailedNodesAfter(r, type) ==
    \/ entry[owner[r].key].failed_nodes
    \/ type = "NoLiveNodes" /\ owner[r].kind = "system" /\ conn # "absent"

RunFails(r, type) ==
    LET k == owner[r].key IN
    /\ stage[r] = "querying"
    /\ type = "NodesUnreachable" => owner[r].kind = "system"
    /\ stage' = [stage EXCEPT ![r] = "done"]
    /\ entry' = Change(k, Fail(entry[k], type, FailedNodesAfter(r, type), ExpireAfter))
    /\ UNCHANGED << registered, resourceVars, daemon, clock, owner, operatorVars, delivered >>

\* The done callbacks: leave _pending and give the slot back.
RunDone(r) ==
    LET k == owner[r].key IN
    /\ stage[r] = "done"
    /\ stage' = [stage EXCEPT ![r] = "gone"]
    /\ entry' = Change(k, DecInflight(entry[k]))
    /\ UNCHANGED << registered, resourceVars, daemon, clock, owner, operatorVars, delivered >>

\* The cleanup handler; kopf runs it when the daemons have stopped.  A cancelled
\* run ends at its await and records nothing.
CancelPending ==
    /\ exiting /\ ~cleaned
    /\ \A k \in Keys : ~daemon[k]
    /\ cleaned' = TRUE
    /\ stage' = [r \in RunIds |-> IF Alive(r) THEN "done" ELSE stage[r]]
    /\ UNCHANGED << registered, entry, resourceVars, daemon, conn, clock, owner,
                    exiting, paused, delivered >>

-----------------------------------------------------------------------------
(* What handlers/connection.py does to the registry that runs look up.       *)

ConnBuilt ==
    /\ conn = "absent" /\ ~exiting
    /\ conn' = "warming"
    /\ UNCHANGED << registered, entry, resourceVars, daemon, runVars, exiting,
                    cleaned, paused, delivered >>

\* The first discovery or liveness pass ended, whatever it found.
ConnReady ==
    /\ conn = "warming"
    /\ conn' = "ready"
    /\ UNCHANGED << registered, entry, resourceVars, daemon, runVars, exiting,
                    cleaned, paused, delivered >>

\* Deleted, or popped by an update that is about to rebuild it.
ConnDropped ==
    /\ conn # "absent"
    /\ conn' = "absent"
    /\ UNCHANGED << registered, entry, resourceVars, daemon, runVars, exiting,
                    cleaned, paused, delivered >>

-----------------------------------------------------------------------------
ResourceStep ==
    \E k \in Keys :
        \/ \E s \in Specs : Create(k, s) \/ Edit(k, s)
        \/ Delete(k) \/ Gone(k) \/ StartDaemon(k) \/ StopDaemon(k)

HandlerStep == \E k \in Keys : HandleRegister(k) \/ HandleDelete(k)

TickStep == \E k \in Keys : TickWaits(k) \/ TickSkips(k) \/ TickSpawns(k)

Answers(r) ==
    \/ \E empty, failed \in BOOLEAN : RunSucceeds(r, empty, failed)
    \/ \E type \in Errors : RunFails(r, type)

RunStep == \E r \in RunIds : RunStarts(r) \/ RunNotFound(r) \/ Answers(r) \/ RunDone(r)

OperatorStep == Exit \/ Pause \/ Resume \/ CancelPending \/ ConnBuilt \/ ConnReady \/ ConnDropped

Next == ResourceStep \/ HandlerStep \/ TickStep \/ RunStep \/ OperatorStep

Spec == Init /\ [][Next]_vars

-----------------------------------------------------------------------------
(* Fairness.  asyncio runs every ready task and callback; kopf stops daemons *)
(* and runs the cleanup handler.  That ClickHouse answers is not assumed.    *)
LoopFairness ==
    /\ \A k \in Keys : WF_vars(StopDaemon(k))
    /\ \A r \in RunIds : WF_vars(RunStarts(r) \/ RunNotFound(r)) /\ WF_vars(RunDone(r))
    /\ WF_vars(CancelPending)

LoopSpec == Spec /\ LoopFairness

-----------------------------------------------------------------------------
(* Properties.                                                               *)

TypeOK ==
    /\ registered \subseteq Keys
    /\ entry \in [Keys -> Entry]
    /\ life \in [Keys -> {"absent", "present", "deleting"}]
    /\ uid \in [Keys -> 0..MaxUid]
    /\ spec \in [Keys -> Specs]
    /\ owed \in [Keys -> {"none", "register", "deregister"}]
    /\ daemon \in [Keys -> BOOLEAN]
    /\ conn \in {"absent", "warming", "ready"}
    /\ clock \in 0..MaxTick
    /\ stage \in [RunIds -> Stages]
    /\ owner \in [RunIds -> Owner \cup {Nobody}]
    /\ exiting \in BOOLEAN /\ cleaned \in BOOLEAN /\ paused \in BOOLEAN
    /\ delivered \in [Keys -> SUBSET RunIds]

\* A slot an entry counts as taken belongs to a run of that key that is still
\* alive, so its done callback will give it back: whatever the order of handler,
\* daemon and run, and however often a name is reused, ticks are never skipped on
\* account of runs that are over.
NoPhantomSlots == \A k \in registered : entry[k].inflight <= Cardinality(Pending(k))

\* up, expired and the failure count of an entry tell one story: it is up exactly
\* when it has rows and no failure since, and expired only down, after at least
\* ExpireAfter failures.
HealthCoherent == \A k \in registered :
    /\ entry[k].up <=> entry[k].rows # None /\ entry[k].consecutive_failures = 0
    /\ entry[k].expired => ~entry[k].up /\ entry[k].consecutive_failures >= ExpireAfter

\* The rows of an entry are those of the latest tick among all the runs that have
\* delivered to it, in whatever order they finished.
CacheIsNewest == \A k \in registered :
    IF delivered[k] = {}
    THEN entry[k].rows = None
    ELSE entry[k].rows \in delivered[k] /\ \A r \in delivered[k] : r <= entry[k].rows

\* As long as an entry exists it forgets no slot: the tasks that run without being
\* counted (spawned before `register`, or by a former resource) never get more.  An
\* edit, a pause or a late done callback never lets a tick exceed the limit further.
SlotsKept ==
    [][\A k \in registered \cap registered' :
         Cardinality(Pending(k)') + entry[k].inflight
            <= Cardinality(Pending(k)) + entry'[k].inflight]_vars

\* README, query_key: what is exported under a name is the result of the resource
\* that has it.  Once a run of that resource has delivered, no run of a deleted one
\* that ends late puts its rows in their place.
OwnRowsStay == \A k \in registered :
    (\E r \in delivered[k] : owner[r].uid = uid[k]) => owner[entry[k].rows].uid = uid[k]

\* An execution that was spawned gives its slot back, unless ClickHouse never answers
\* it: nothing but the answer holds up a run, neither its connection nor its callbacks.
SlotsReleased == \A r \in RunIds :
    stage[r] = "created" ~> (stage[r] = "gone" \/ [](stage[r] = "querying"))

\* Once kopf shuts down, every daemon stops and every run ends, even if ClickHouse
\* never answers: what cancel_pending is for.
DrainedOnExit == exiting ~> \A k \in Keys : ~daemon[k] /\ Pending(k) = {}

\* The entries implement the feed their readers are promised.
Shown(k) == IF k \in registered /\ Exports(entry[k]) THEN entry[k].rows ELSE None

Feed == INSTANCE QueryFeed WITH
            Queries <- Keys, Results <- RunIds, Limit <- ExpireAfter,
            known <- registered,
            fails <- [k \in Keys |-> entry[k].consecutive_failures],
            shown <- [k \in Keys |-> Shown(k)]

ImplementsFeed == Feed!FeedSpec

-----------------------------------------------------------------------------
(* What documents and comments say and the code does not do.                 *)

\* AGENT.md: "tick_ts ordering discards a slow older run overwriting a newer
\* one".  A run older than the rows in the cache leaves the entry's health alone.
StaleRunsKeepHealth ==
    [][\A r \in RunIds :
         LET k == owner[r].key IN
         stage[r] = "querying" /\ stage'[r] = "done" /\ ~cleaned'
            /\ k \in registered /\ r < entry[k].tick_ts
         => entry'[k].up = entry[k].up]_vars

\* README, PROMCH_EXPIRE_AFTER_FAILURES: consecutive failures before a metric is
\* removed.  An entry that has failed that often in a row is expired.
ExpiredAfterLimit == \A k \in registered :
    entry[k].consecutive_failures >= ExpireAfter => entry[k].expired

\* AGENT.md: runs are "overlapping up to `maxConcurrent`".  The runs of one resource,
\* counted as tasks and not as the entry counts them, never grow beyond the limit.
OwnPending(k) == {r \in Pending(k) : owner[r].uid = uid[k]}

OverlapBounded ==
    [][\A k \in Keys : Cardinality(OwnPending(k)') > Cardinality(OwnPending(k))
            => Cardinality(OwnPending(k)') <= spec[k].max]_vars

\* README, query_inflight: "Executions currently running".
SlotsExact == \A k \in registered : entry[k].inflight = Cardinality(Pending(k))

\* README, query_key: the rows exported under a key were produced by a run of the
\* resource that now has that name, not by one of a deleted resource.
OwnRows == \A k \in registered : entry[k].rows # None => owner[entry[k].rows].uid = uid[k]

\* query_status.py: AllNodesResponding "is what actually flips on a node outage".
\* A system query that found all nodes unreachable leaves a list of failed nodes.
AllDownReported == \A k \in registered :
    ~entry[k].up /\ entry[k].last_error = "NodesUnreachable" => entry[k].failed_nodes
=============================================================================

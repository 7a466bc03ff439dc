# A TLA+ model of prometheus-ch-exporter

The operator runs SQL queries, declared as Kubernetes resources, on ClickHouse
clusters, also declared as resources, and exports the results on `/metrics`. This
directory holds TLA+ modules that model its core, the TLC configurations that check
them on small instances, and proofs, checked by TLAPS, of what holds for every
instance. Paths below are relative to the repository's package, `src/promch/`.

## 1. The system

Everything but the scrape runs on one asyncio loop: between two awaits a task is
alone, at an await anything may happen. The `/metrics` server reads the collector
from another thread, under the entries' locks. kopf calls the handlers, one at a time
per resource, and runs one daemon and the timers per resource beside them.

| Component | State it keeps | Operations |
|---|---|---|
| Collector (`collector/metrics.py`) | one `CachedMetric` per `namespace/name`: rows, `tick_ts`, `up`, `expired`, failure count, slots in flight, reasons | `register`, `unregister`, `update`, `mark_failure`, `expire`, `mark_waiting`, `inc_inflight`, `dec_inflight`, `record_skip`, `collect` |
| Query scheduler (`handlers/query.py`) | `_pending` tasks; kopf's daemons | handlers `register`, `deregister`; daemon ticks; `_execute`; done callbacks; `cancel_pending` |
| Status reflection (`handlers/query.py`, `handlers/query_status.py`) | `.status` of the resource | `status_reflector`, `derive_status` |
| Node (`clickhouse/node.py`) | its client, the client lock, `alive` | `query`, `ping`, `close`, `_ensure_client`, `_drop_client` |
| Topology (`clickhouse/topology.py`) | the nodes, `in_cluster`, `last_discovery` | `health_tick`, `refresh_topology`, `pick_one_live`, `all_live` |
| Connection (`clickhouse/connection.py`) | discovery lock, `ready` | `execute_data_query`, `execute_system_query`, `refresh`, `recheck`, `rediscover`, `close` |
| Connection registry (`handlers/connection.py`) | `_connections` | create, update, delete and cleanup handlers; two timers |
| Leadership (`leadership.py`, `peering.py`) | the active flag | `mark_active`, `mark_standby`, `note_daemon_stopped` |
| Secret reader (`k8s_secrets.py`) | none | `read_secret` |
| Configuration (`config.py`), entry point | none after startup | |

How they interact: a daemon's tick looks up the connection and, if it is ready and the
query has a free slot, spawns `_execute`, which nobody awaits. The task calls the
connection; the connection asks its topology for live nodes and calls them; every call
may mark its node alive or dead, and the registry's timers do the same in passes under
the discovery lock. The task writes its outcome to the collector, by key, and one loop
iteration later a callback gives the slot back, by key. Scrapes and the status
reflector read the entries.

What is hard to get right, and what correctness means there (where the code falls short
of it, section 3 says so):

* *Runs overlap, finish in any order and outlive their resource.* An entry holds the
  newest result; its health agrees with its history; slots are neither lost nor given
  back twice; the limit holds; rows belong to the resource whose name they carry.
* *A node's client is shared by tasks that fail at different times.* It is created
  once, replaced when it fails, closed by somebody, and never by somebody else.
* *The pool changes under the queries that use it.* Failover ends and gives up only
  with reason; a fan-out accounts for every node; discovery converges to the cluster.
* *A connection is built across an await, shared, replaced and closed.* It is built
  once, found by whoever looks for it, closed when nobody else will, never used for
  discovery after that, and an edit of its resource takes effect.
* *A page is read in another thread, entry by entry.* It is one the format allows, and
  what it shows of one query belongs together.
* *A status is derived from the entry and from itself.* It fits together although it is
  patched field by field, and tells of the entry once that stops changing.
* *Replicas infer their role from what happens to their daemons.* In the end exactly one
  exports, whoever crashed or was upgraded, and it exports its own results.
* *Shutdown.* Daemons stop, runs are cancelled, nothing is waited for without bound.

## 2. The modules

| Module | Models |
|---|---|
| `MetricsCollector` | an entry and what each collector method does to it (pure operators) |
| `QueryScheduler` | kopf's handlers and daemons, ticks, execution tasks, callbacks, exit, over the entries of `MetricsCollector` |
| `QueryFeed` | abstract: what a reader of `/metrics` is promised about one query |
| `NodeClient` | one node, its client and its liveness, used by many tasks |
| `ClickHouseConnection` | the pool of nodes, discovery passes, data queries and fan-outs |
| `ConnectionRegistry` | the handlers of one connection resource, its timers, Secret reads, the queue at the discovery lock, queries, exit |
| `ConnectionView` | abstract: what queries see of their connection |
| `StatusReflection` | the status of one query, over an entry of `MetricsCollector` |
| `Exposition` | a scrape beside the loop, over entries of `MetricsCollector` |
| `Leadership` | replicas of the operator under peering |
| `QuerySchedulerProofs`, `NodeClientProofs`, `ClickHouseConnectionProofs`, `ConnectionRegistryProofs`, `StatusReflectionProofs`, `ExpositionProofs`, `LeadershipProofs` | theorems about the module named, and their proofs |
| `MetricsCollectorProofs` | lemmas about the entry's methods: what each returns and leaves alone; the three modules that use entries cite them |
| `MC...` of each | constants for TLC |

Definitions named `D_Something` are wrong variants of `D`: with one of them in D's
place a property must fail, which shows that the property depends on that code.

### `MetricsCollector` and `QueryScheduler`

`entry[k]` is the `CachedMetric` of key `k`, `registered` the keys of `_entries`. A
method of the collector runs under the entry's lock and touches one entry, so it is one
operator on a record. A result is represented by the stamp of the tick that produced
it, plus whether it is the empty list: that is all that ordering, ownership and export
depend on. `inflight`, `up`, `expired`, `consecutive_failures`, `tick_ts` are the
fields of those names; `behind` stands for the comparison of the two timestamps the
status is derived from.

| Actions | Code |
|---|---|
| `HandleRegister`, `HandleDelete` | `register`, `deregister` |
| `TickWaits`, `TickSkips`, `TickSpawns` | one iteration of `_run_scheduler`; an invalid query only sleeps |
| `RunStarts`, `RunNotFound`, `RunSucceeds`, `RunFails` | `_execute` up to its await, and from there to its end |
| `RunDone` | the done callbacks |
| `CancelPending` | the cleanup handler |
| `ConnBuilt`, `ConnReady`, `ConnDropped` | what the connection handlers do to the registry a run looks up |
| `Create`, `Edit`, `Delete`, `Gone`, `StartDaemon`, `StopDaemon`, `Pause`, `Resume`, `Exit` | the user and kopf (external) |

kopf is modelled from how the code relies on it: a deleted resource stays until its
delete handler has run and its daemon has stopped; a daemon's `spec` follows the
resource; the cleanup handlers run when the daemons have ended. Nothing makes a daemon
wait for `register`, or end before `deregister`: it may tick before the one and after
the other, in every run and every theorem. With `Peering`, another replica may lead for
a while (`paused`): daemons stop for `OPERATOR_PAUSING`, no handler runs, a deletion is
completed elsewhere and missed here, so that its entry stays; when the operator resumes,
`register` runs for the resources found then, unless their change was handled elsewhere.
`EarlyRecreate` lets a name be used again while runs of the deleted resource are alive.

`SlotsKept` says that the tasks that run uncounted never get more as long as the entry
exists, and `OwnRowsStay` that rows of a deleted resource's run never replace those of the resource that
has the name. The stronger `SlotsExact`, `OverlapBounded` and `OwnRows` are not true of
the code (section 3).

`QueryFeed` says: a query that is known shows nothing or the newest result delivered,
failures never replace it and take it away only at the limit, a new query starts empty.
`ImplementsFeed` maps the entries to it (`Feed`): `shown` is what `collect()` exports.

### `NodeClient`

Tasks stand at one of the node's awaits (`pc`): for the lock, the factory, the call,
the close of a dropped client, the close in `close()`; `mine` is the client the task
has in its local variable, `client` is `_client`. `passive` is the
liveness mode, fixed for a connection. The *keeper* is whoever holds the
discovery lock and pings, asks for the topology and evicts. The driver is external:
a session breaks when its server is lost; on a broken session a query fails while a
ping may succeed, as `_drop_client`'s comment reports; a call on a closed session may
fail in either way. Whether `ping()` raises or returns False is a constant
(`PingRaises`), because the code relies on the former and the client protocol declares
the latter. Idle eviction and the end of the connection are `CloseStarts`/`CloseEnds`; a connection
that ends without a client has nothing to await.

### `ClickHouseConnection`

A node is reduced to `alive`; a call on it answers, is refused or fails at any time.
`pass` is the discovery pass that holds the lock, with one stage per await: the pings
(in parallel), the question for the members, the ping of each new member, then the
reconciliation, host by host, with the close of those removed. `q[t]` holds the locals
of a query: the nodes tried or asked, the calls not over, the rows that arrived. A data
query whose node failed first marks it down and closes its client (`DataFailed`), and
looks for another node after that await (`FailsOver`), in the pool as it is by then.
A call whose node was removed from the pool no longer marks anything (`gone`): in the
code it marks a `Node` object nobody looks at. When a node refuses a fan-out, the query
fails at once and its other calls go on. `through` and `missing` only record, for the
properties, which nodes were alive, or expected and dead, since a query started.
`members` and `up` are the cluster itself; a server outside it knows nothing of it, so a
seed that is no member answers with an empty list. `Outages` are the servers that may become
unreachable; with `Faults` a reachable one may fail any call, too.

### `ConnectionRegistry`

`registry` is what `_connections` holds for the resource, `conns` every connection ever
built, `task` what each task awaits: a Secret (`read`), the discovery lock for a `pass` or
to `close`, the `patch` kopf sends when the handler returned. `conns[c].queue` is the
discovery lock of `c` with those who wait for it, first come, first served.
`EnsureConnection` is `_ensure_connection` up to its await and `SecretRead` the rest of
it; `PopAndClose` is the pop and the close of an update or a deletion.

A spec is a version, a Secret belongs to each. What a pass finds on the nodes is the
matter of `ClickHouseConnection`; here a pass only holds the lock. kopf is external: one
change handler at a time, with the spec as it was when the change was taken up; timers
are tasks of their own; a change counts as a creation until one handler succeeded
(`handled`), even if the spec was edited meanwhile (`EarlyEdits`). At the exit all tasks are cancelled, and then
`CleanUp` closes what is registered.

`ConnectionView` says: a connection warms up before it is ready, does not go back except by
being dropped, and gets ready if it is not. That is what `ConnBuilt`, `ConnReady` and
`ConnDropped` of `QueryScheduler` take for granted, and `ImplementsView` shows that the
registry keeps to it: the two models fit together.

| Actions | Code |
|---|---|
| `TakeUp` | `on_connection_present`, `on_connection_update` |
| `TakeUpDeletion`, `Closed` | `on_connection_delete`, `ClickHouseConnection.close` |
| `TimerStarts` | `on_connection_recheck`, `on_connection_topology` |
| `SecretRead`, `SecretFails`, `PassEnds`, `Patched` | what these share, await by await |
| `QueryStarts`, `QueryCalls`, `QueryEnds` | a run that uses the connection it looked up |
| `ExitStarts`, `CleanUp` | cancellation, `on_operator_cleanup` |
| `Apply`, `Delete` | the user (external) |

### `StatusReflection`

`e` is the entry, `stored` the `.status` at the API server, `seen` the one kopf hands to
the reflector. `Phase`, `Conditions`, `InvalidStatus` and `ValidStatus` are the parts of
`derive_status`; a derived status is a record of the fields it names, and `Patched`
changes those that differ from `seen` and leaves the rest. The entry changes in every way the collector's methods can
change it, in any order; which orders a scheduler makes of them is not the status's
concern. `young` says whether `last_error_ttl` has not passed. kopf waits for its own patch before it calls a
handler again (the comment at `handlers/connection.py:94` relies on that), so `Reflect`
patches and sees the patch in one step; `LaggingSpec` drops that (`status_torn`). `Restart` forgets the entry
and keeps the status. Absent and empty fields are one value, as `get` and the API server's pruning of
nulls make them; messages, durations, `skippedTicks` and transition times are left out.

### `Exposition`

The scraper's thread takes the steps of `collect()`: `Gate` (the flag, once), `Snapshot`
(the dict of entries under the global lock), `ReadEntry` (one entry under its lock), and
when all are read `Page` is what it answers, a set of families. Between them the loop
registers, edits, removes and updates: an entry is an object that outlives its removal
from the dict while the scrape holds it, and a new entry of the same key is another one.
A failure is two steps, since `mark_failure` and `expire` take the lock one after the
other and a scrape may come between. A name is its base with the number of prefixes. A
result has, for every valuation of its label columns, as many rows as its query makes
(`copies`), each of which is a sample of its own (`nth`): label sets collide if they can.

### `Leadership`

`flag[r]` is `leadership._active` of replica `r`, `daemons[r]` the queries whose daemon
runs there, `pausing[r]` and `deleting[r]` those told to stop and why; `cache[r][q]` tells
results of this term from those of a former one. kopf's peering is external: a replica
pauses while a slot of equal or higher priority is listed, resumes when there is none and
lists the queries afresh; a crashed replica's slot expires later. Whether it waits with
that for daemons that are still stopping is the constant `SlowStops`. A registration and
the start of the daemon are one step, since both follow the same listing. `caught`
records, for the properties, whether a pause found a flag with no daemon to clear it.

## 3. The runs

All instances are checked exhaustively: `tlc -config <run>.cfg <MC module>`.

| Run | Question | Instance |
|---|---|---|
| `scheduler_churn` | Do entries stay coherent and newest, implement the feed, and keep to their resource's own results once it has delivered, in any order of handlers and daemons, through pauses and with names reused? | one key, 3 ticks, 2 resources of the name, limit 2, expiry after 2 failures, pauses |
| `scheduler_ends` | Is no slot forgotten through edits and misconfiguration, does nothing but the answer hold up a run, and does the operator drain although ClickHouse never answers? | system query, made invalid and valid again, 2 ticks, one resource |
| `client_shared` | One client at a time, none leaked, operations that end, liveness that follows the server? | 2 callers and the keeper, 4 sessions, both liveness modes, eviction and closing, outages |
| `conn_queries` | Does a data query make its attempts, not one more, and give up earlier only with reason, and does a fan-out tell the truth of the nodes that did not change meanwhile? | 3 hosts, one seed, one host joins and leaves, calls that fail at will, an outage, 1 failover, one query at a time of either type |
| `conn_settles` | Do queries end, and does the pool converge to the cluster? | 2 hosts, one joins and leaves, the seed is a member or drifted, calls that fail at will, failovers unlimited |
| `registry_edits` | Is every connection tracked, none used for discovery after its close, and do an edit and its status take effect? | both timers, a query, 2 versions of the spec, a Secret read that fails, deletion, exit |
| `replicas_failover` | Is a paused replica silent, does one that runs daemons export, and is there one leader in the end, with results of its own? | 2 replicas, 2 queries, 2 edits, 2 exits or crashes |
| `status_follows` | Does the status fit together at any time, tell of the entry in the end, forget old errors, and fall silent? | expiry after 2 failures, errors of both kinds, restarts, edits, skipped ticks and a connection that is waited for |
| `scrape_pages` | Is every page well-formed, up to equal rows of one result, and what it shows of a query of one moment? | 2 queries that share a metric name, 4 specs (one with each row twice), 2 ticks, one change of the loop during the scrape |

Why the bounds are enough. Keys do not interact: an action reads and writes the entry,
the runs and the daemon of one key, so one key shows what any number would. Three ticks
give every order of an older, a middle and a newest run, two resources of a name the
overlap of a run with its successor, and a limit of two failures lets one fail without
expiry. Two callers give a call that fails late on a client the other has replaced;
sessions are reused when nobody refers to them, so one more than there are tasks never
runs out. Queries do not interact except through the pool, whose every change the pass
and the faults make anyway, so one at a time is enough; a task that was refused a
fan-out waits for its other calls before its next query, which only bounds the calls in
flight. Three hosts give a query a node that fails, one that stays and one that joins or
leaves; convergence was also checked with three and outages of all of them (`conn_pool.cfg`,
without queries). `PoolConverges` has the seeds in the shape that the cluster keeps, since a seed
outside it can empty the pool for good (`drifted_seed`): the shapes before it need not
have them, and the pool recovers from what a drifted seed did. Nor can all members be said
to stay alive, since a late failure marks any of them dead; it says that none is dead for
ever.

For the registry, two versions give an update with everything that may be under way on
the old connection; `registry_timers` adds a third and lets a deleted resource come back (invariants only).
Which timer runs does not matter to it, but that two tasks race for the Secret does. Two replicas give every pair
of a leader and a standby; `replicas_three` checks three. A status needs one successful
tick to tell "never succeeded" from "succeeded", and two failures for a failure before
expiry.
For a page, one change during the scrape already falls between any two of its steps;
`scrape_overlaps` allows two and three entries at a time, `scrape_one_query` has the specs and results that are
refused. In `Exposition` failures are counted to the limit, since more of them change nothing.

`CHECK_DEADLOCK FALSE` is set where the system may really stop: in the scheduler ticks are
bounded and the operator may exit, and replicas and queries may all stay as they are. The
registry's configurations that end in a violation have it, too, since a resource that is
gone for good leaves nothing to do.

Fairness. In `QueryScheduler`, asyncio runs every ready task and callback and kopf stops
daemons and runs the cleanup (`LoopFairness`); that ClickHouse answers is not assumed,
since a run has no timeout of its own: `SlotsReleased` says that nothing else holds a
run up. In `NodeClient`, tasks proceed because the driver has timeouts, a waiter is
granted a lock that is free again and again (asyncio's lock is first come, first
served), and the recheck timer ticks. Nothing is assumed of callers. In
`ClickHouseConnection`, passes and calls end and both timers tick, and a reachable server
does not fail every ping (strong fairness of `PingAnswered`); that a server is up, stays a
member, or answers discovery again and again, is a premise of the property and not an assumption. In
`ConnectionRegistry`, kopf takes up changes, repeats failed handlers and starts the timers,
and what a handler awaits arrives: the API server's answer has a timeout, passes end since
the driver's calls do, and the discovery lock is first come, first served; how often a
Secret read may fail is bounded. In `StatusReflection`, the reflector ticks, a watch-event
arrives and time passes; that the entry stops changing is the premise of each property. In
`Leadership`, Kubernetes restarts replicas, slots of dead ones expire (kopf's keep-alive
has a lifetime), and kopf pauses, resumes, starts and stops daemons as the peering object
and the queries say; a run succeeds in the end, which only the part of `EventuallyOne` needs that speaks
of results.

### What the code does differently from what it says

Each of these properties is found violated under the configuration beside it, and quotes
the document or comment it comes from. The first three are among the project's runs; the
others are kept beside them and run with the same command. A configuration that stands
in several lines checks one of their properties and names the others at its end, to be
put in its place.

| Configuration | Module | Property | What happens |
|---|---|---|---|
| `stale_failure` | `MCQueryScheduler` | `StaleRunsKeepHealth` | a slow older run that fails turns `query_up` to 0 after a newer success (`AGENT.md:112`) |
| `ping_ignored` | `MCNodeClient` | `DeadWhenDown` | a ping that returns False marks the node alive (`clickhouse/types.py:81`) |
| `uncounted_runs` | `MCQueryScheduler` | `OverlapBounded` | a run spawned before `register` is not counted, and the resource exceeds `maxConcurrent` (`AGENT.md:90`) |
| `uncounted_runs` | `MCQueryScheduler` | `SlotsExact` | and `query_inflight` does not show it (`README.md:213`) |
| `drifted_seed` | `MCClickHouseConnection` | `MembersStay` | a seed outside the cluster, asked for the members, empties the pool (`topology.py:3`) |
| `reused_names` | `MCQueryScheduler` | `OwnRows` | rows of a deleted resource's run are exported under the new resource's `query_key`, until it has delivered (`README.md:199`); with `Peering` also if the name is not reused early, since a deletion missed during a pause leaves its entry |
| `failure_reports` | `MCQueryScheduler` | `ExpiredAfterLimit` | failures for want of a connection count but never expire the metric (`README.md:257`) |
| `failure_reports` | `MCQueryScheduler` | `AllDownReported` | a fan-out that failed everywhere reports no failed node (`query_status.py:238`) |
| `client_races` | `MCNodeClient` | `NoFlapping` | a late failure on an old client drops its healthy replacement, whose users then fail, and so on (`node.py:80`) |
| `client_races` | `MCNodeClient` | `NoneLeakedByEviction` | idle eviction forgets a client created while it awaited the old one's close (`node.py:50`) |
| `client_after_close` | `MCNodeClient` | `NothingOpenAfterClose` | a query on a closed connection opens a client that nothing closes (`connection.py:207`) |
| `conn_divergences` | `MCClickHouseConnection` | `NodeErrorsContained` | the last `NodeConnectionError` is raised to the scheduler (`AGENT.md:69`) |
| `conn_divergences` | `MCClickHouseConnection` | `WholeCluster` | a member revived during a fan-out is neither asked nor reported (`connection.py:113`) |
| `conn_divergences` | `MCClickHouseConnection` | `NoSpuriousNoLive` | a first `rediscover()` makes the connection ready with every node still dead (`connection.py:54`) |
| `registry_races` | `MCConnectionRegistry` | `SpecTakesEffect` | an edit before the create handler first succeeded is handled as a creation, finds the old connection registered, and is lost (`handlers/connection.py:174`) |
| `registry_recreated` | `MCConnectionRegistry` | `SpecTakesEffect` | the same for a resource created anew that finds the connection of the deleted one |
| `registry_races` | `MCConnectionRegistry` | `CredentialsMatch` | a timer that read the former Secret during an edit registers a connection of the new spec with the old credentials (`README.md:97`) |
| `registry_races` | `MCConnectionRegistry` | `GoneIsGone` | a timer that reads the Secret during a deletion registers a connection that nobody will close before the exit |
| `registry_races` | `MCConnectionRegistry` | `NothingReopened` | a query outlives the close of its connection and opens a client there (`handlers/connection.py:229`) |
| `status_leftovers` | `MCStatusReflection` | `FixedIsValid` | `invalidReason` and `Valid = False` outlive the edit that fixes the query (`query_status.py:198`) |
| `status_leftovers` | `MCStatusReflection` | `AlwaysQuiet` | an invalid query with a former error emits an Event at every reflection (`handlers/query.py:315`) |
| `status_torn` | `MCStatusReflection` | `Coherent` | without `Prompt`: fields are compared with a status that lags behind the reflector's own patches, so a phase is stored with another state's conditions |
| `scrape_label_clash` | `MCExposition` | `LabelsAlwaysKept` | a static label is blank or replaced where another query of that metric name has a column of that name (`AGENT.md:76`) |
| `scrape_same_rows` | `MCExposition` | `SeriesUnique` | rows of a result that differ in nothing but their value are exported as one series twice (`collector/metrics.py:27`) |
| `scrape_system_name` | `MCExposition` | `FamiliesUnique` | a user metric named as a system family gives two families of one name (`collector/metrics.py:376`) |
| `replicas_terms` | `MCLeadership` | `SoonOne` | a leader whose last query was deleted keeps its flag when it is paused, and two replicas report to lead (`README.md:315`) |
| `replicas_terms` | `MCLeadership` | `OwnTermOnly` | a replica that leads again exports results of its former term until its first run (`README.md:273`) |
| `replicas_terms` | `MCLeadership` | `NoGhosts` | and those of queries deleted in the meantime, for good |
| `replicas_slow_stop` | `MCLeadership` | `ActiveExports` | with `SlowStops`: a daemon of the former term that stops late clears the flag of the leader (`leadership.py:54`) |

Further configurations that pass and only enlarge an instance: `conn_pool`,
`registry_timers`, `replicas_three`, `scrape_overlaps`, `scrape_one_query`.

## 4. The proofs

Every safety invariant and action property that a run checks is also a theorem; what is
left to TLC is liveness. A proof follows one pattern: an inductive invariant that is
stronger than the property, one lemma per action that says it is kept, and a temporal
step at the end. The invariants were checked by TLC before they were proved.

`QuerySchedulerProofs` (for every set of keys, specs and errors, every limit, any
number of ticks and reuses of a name, both settings of `Peering` and `EarlyRecreate`):

* `TypeCorrect`: `Spec => []TypeOK`.
* `HealthIsCoherent`, `CacheHoldsNewest`: `HealthCoherent` and `CacheIsNewest`. Neither
  is inductive. The proof strengthens them to `EntryInv`, which ties `tick_ts`, `rows`
  and the results delivered together, for keys without an entry too (they hold a blank
  one), and to `FreshRuns`: a run that can still deliver has not delivered, and no run
  has a stamp above the clock. Without the latter a second delivery of one tick could
  not be excluded.
* `SlotsAreReal`: `NoPhantomSlots`. Its core is a counting argument: the tasks of a key
  are a finite set, a tick adds a fresh one together with a slot, a callback removes one
  together with a slot, and the floor at zero in `dec_inflight` keeps the inequality
  when a foreign run returns a slot.
* `SchedulerImplementsFeed`: `Spec => Feed!FeedSpec`, from the invariants above: each
  action maps to one action of the feed or to a stutter.
* `SlotsAreKept`: `SlotsKept`, from the same count seen step by step: a new task comes
  with a slot if there is an entry, and a slot goes only with a task, except at the floor.
* `OwnRowsWin`: `OwnRowsStay`. A run of the resource that has the name is stamped later than
  all runs of those that had it before (`Stamps`: stamps grow with the number of the
  resource, and no owner is of a resource yet to come); since the newest stamp wins,
  `CacheHoldsNewest` does the rest.

`NodeClientProofs` (for every number of callers and sessions, both liveness modes, and
every setting of the switches):

* `TypeCorrect`: `Spec => []TypeOK`, including that a client in use is never None.
* `OneConnects`: `OneConnect`, inductive with the types: a task connects only after it
  saw no client with the lock free, and nobody else can set one while it holds the lock.
* `NothingLeaks`: `NoClientLeaked`, which speaks of nodes that are pinged actively while
  their connection is not closed. It needs `OneConnect` and `NeverClosing` (no task is in
  `close()` by then); `client_races` shows that the premise cannot be dropped.

`ClickHouseConnectionProofs` (for every set of hosts, seeds and memberships, any number
of queries and any failover limit):

* `TypesHold`: `Spec => []TypeOK`. That what is alive is in the pool needs two facts:
  `PassOwns`, that a pass reconciles only when all of its calls are over, and
  `CallsTracked`, that the calls of a query are on nodes of the pool, except those
  marked `gone`.
* `FailoverIsExact`: `FailoverExact`, and `FanOutIsTruthful`: `FanOutTruthful`. Both come
  from an invariant of each query's locals. Of a data query (`SoundData`): it makes one call
  at a time; a node that was tried, or removed, is not among those alive all the while;
  and its attempts, the one under way included, are at most one more than its failovers.
  Of a fan-out (`SoundFan`): a node alive all the while is one it asked and has rows
  from, or waits for; an expected node down all the while is none it asked. Each step
  of a pass, of another query and of the cluster must keep these, which is where the
  marks of calls whose node left the pool matter.

`ConnectionRegistryProofs` (for every set of timers, any number of edits and failing
Secret reads, every setting of the switches):

* `TypesHold`: `Spec => []TypeOK`. Even that needs the lines at the locks: a task that
  gives a lock back takes itself off a line, which therefore must not be empty.
* `NothingIsLost`: `AllTracked`, and `PassesBeforeClose`: `NoPassAfterClose`. The
  inductive invariant `IInv` has `InLine`: the tasks that wait at a lock are exactly those
  in its line, each once (`Lined`, kept by joining at the end, `Enters`, and by leaving at
  the head, `Leaves`); the one who closes is the change handler, stands at the end, and
  what it closes is no longer registered, so that nobody joins behind it; what is closed
  has an empty line and is not registered. `Locals` says that who is to build a connection
  has a spec and a Secret for it, `Exiting` that every task is cancelled before the
  cleanup runs.
* `ViewIsSafe`: each step of the registry is a step of `ConnectionView` or leaves what
  queries see as it is. That a connection gets ready, the other half of `ImplementsView`,
  is liveness and left to TLC.

`StatusReflectionProofs` (for every set of errors, every limit and any number of ticks
and failures):

* `TypesHold`: `TypeOK`, with and without lagging patches.
* `StatusIsCoherent`: `Prompt /\ Spec => []Coherent`. A coherent status comes from an
  entry whose parts agree (`Linked`: down with an error, or expired, means that it has
  failed since it was up, and up means that it has not), laid over the status that is
  stored; `seen = stored` is what `Prompt` grants and what `status_torn` does without.

`ExpositionProofs` (for every set of keys, specs and label values, every number of
entries, of ticks and of steps of the loop during a scrape):

* `TypesHold`: `Spec => []TypeOK`.
* `PagesAreWellFormed`: `NoSystemNames /\ Spec => []WellFormed`. The premise, that no
  valid query is named as one of the exporter's own families, is one the code does not
  check, and `scrape_system_name` shows the page without it.
* `SeriesAreTold`: `SingleRows /\ Spec => []SeriesUnique`. The premise, that no result has
  two rows with equal labels, is not checked either, and `scrape_same_rows` shows two
  samples of one series without it.
* `SeriesKeepTheirLabels`: `LabelsKept`; `PagesTellOneMoment`: `PageCoherent`.

  All come from one invariant of the state (`IInv`) and from lemmas about `Page`. The
  invariant says that each key is read once and none without the leader flag
  (`ReadsOnce`); that rows are of the tick that is the last success and what is up has
  rows and is not expired (`Shows`), which a failure keeps between its two steps, too;
  that no stored column is `query_key` (`Stored`); and that an entry, edited or not,
  knows whether its spec is valid (`Judged`), so that no exported query has a static
  label of that name. Then `query_key` tells the queries of a family apart, and their
  columns the rows of a query.

`LeadershipProofs` (for every set of replicas, priorities and queries):

* `TypesHold`: `Spec => []TypeOK`.
* `PausedAreSilent`: `PausedSilent`. Inductive only with `Running` (a daemon told to stop
  runs; a replica that is down has none and no flag) and `AllPausing` (a paused replica has
  told all of its daemons to stop): the last daemon to stop then clears the flag, and none
  starts to set it.
* `ActivesExport`: `~SlowStops /\ Spec => []ActiveExports`, from `SActive`: without late
  stops, a replica that is not paused has no daemon that was told to pause, so that only
  deletions stop daemons there. `replicas_slow_stop` shows that the premise is needed.

The constants' assumptions are those named in the modules; of `Exposition` it is assumed,
too, that there is some spec and some label value. Only model-checked: what speaks of
fairness, which is beyond the prover (`SlotsReleased`, `DrainedOnExit`, `AliveAgain`,
`DeadWhenDown`, `OperationsEnd`, `PoolConverges`, `QueriesEnd`, `SpecTakesEffect`,
`StatusCatchesUp`, the fairness of `ImplementsView`, `StatusFollows`, `ErrorAgesOut`,
`ValidIsQuiet`, `EventuallyOne`).

## 5. Not modelled, and what comes next

Not modelled for good: configuration and the entry point (read once, no behaviour over
time), the text of messages, durations and wall-clock timestamps, the driver's internals,
the numeric contract of results (`build_rows`: a result is acceptable or not), the decoding
of Secrets and the HTTP request for one, the hash behind the priorities (its collisions,
which would pause every replica, are a constant one could set), Helm and Docker. kopf,
asyncio and Kubernetes are modelled from how the code uses them.

Plan, in order:

1. The safety halves of liveness properties, where they have one worth a proof: what a
   status tells right after a reflection (`Told`), and that a pass leaves the pool with
   the members that answered.
2. `OperationsEnd` of `NodeClient` and `QueriesEnd` of `ClickHouseConnection` rest on a
   measure that each step of a task lowers; that it does is an action property.

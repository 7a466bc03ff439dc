----------------------------- MODULE Exposition -----------------------------
(***************************************************************************)
(* What a scrape of /metrics shows (collect() of collector/metrics.py, the *)
(* names and labels of handlers/query_status.py): the scraper's thread     *)
(* looks at the leader flag, takes a snapshot of the entries, reads one    *)
(* after the other under its lock and merges those of one metric name into *)
(* a family, while the loop's thread goes on to register, edit and remove  *)
(* queries and to store their results.                                     *)
(*                                                                         *)
(* Abstractions: a name is its base and how often the prefix leads it; the *)
(* values of a result are the tick of its run, and it has as many rows for *)
(* each valuation of its label columns as its query makes; help texts,     *)
(* durations and counters are left out.  The entry and its operations are  *)
(* MetricsCollector's.                                                     *)
(*                                                                         *)
(* A definition named D_Something is a wrong variant of D, put in its      *)
(* place to see a property fail.                                           *)
(***************************************************************************)
EXTENDS MetricsCollector, Sequences

CONSTANTS
    Keys,        \* "<namespace>/<name>" of the queries
    Specs,       \* what a query's spec may be
    Values,      \* label values
    Prefixed,    \* there is a metric_prefix
    Limit,       \* expire_after_failures
    MaxEntries,  \* bound: entries that exist or are still read at a time
    MaxTicks,    \* bound
    MaxOverlap   \* bound: steps of the loop during a scrape

QueryKey == "query_key"
NodeLabel == "clickhouse_node"
Blank == ""

ASSUME SpecsAssumption ==
    /\ Specs # {}
    /\ \A s \in Specs :
          /\ s.copies \in Nat \ {0}                \* rows of a result with the same labels
          /\ s.lead \in Nat /\ s.policy \in {"skip", "append", "fail"} /\ s.type \in {"data", "system"}
          /\ \A l \in DOMAIN s.labels : s.labels[l] \in Values
ASSUME ValuesAssumption == Values # {} /\ Blank \notin Values /\ Keys \cap Values = {}
ASSUME BoundsAssumption == Prefixed \in BOOLEAN /\ {Limit, MaxEntries, MaxTicks, MaxOverlap} \subseteq Nat

VARIABLES
    entries,  \* _entries: the object of each key; 0: none
    objects,  \* the CachedMetrics: spec, state, and columns and copies of the rows
    owed,     \* the key whose failure is marked and whose expiry is to be decided
    scrape,   \* the scrape: how far it is, what it saw of the flag, what it has to read
    reads,    \* the reads of the scrape
    overlap   \* steps of the loop during the scrape

vars == << entries, objects, owed, scrape, reads, overlap >>

NoKey == "none"
NoObject == [spec |-> CHOOSE s \in Specs : TRUE, e |-> NewEntry(FALSE), columns |-> {},
             copies |-> 1]
NoScrape == [pc |-> "idle", leader |-> FALSE, todo |-> [k \in {} |-> 0]]

Init ==
    /\ entries = [k \in Keys |-> 0] /\ owed = NoKey
    /\ objects = [o \in 1..MaxEntries |-> NoObject]
    /\ scrape = NoScrape /\ reads = {} /\ overlap = 0

(* ---- resolve_metric, build_rows --------------------------------------- *)

SystemName(base) == [base |-> base, lead |-> IF Prefixed THEN 1 ELSE 0]

ReservedLabelNames(type) == {QueryKey} \cup (IF type = "system" THEN {NodeLabel} ELSE {})

\* apply_prefix, where it does not raise.
ApplyPrefix(s) ==
    [base |-> s.base,
     lead |-> IF Prefixed /\ (s.lead = 0 \/ s.policy = "append") THEN s.lead + 1 ELSE s.lead]

InvalidReason(s) ==
    \/ DOMAIN s.labels \cap ReservedLabelNames(s.type) # {}
    \/ Prefixed /\ s.lead > 0 /\ s.policy = "fail"

\* The connection labels the rows of a system query with their node, and refuses rows
\* that have such a column; build_rows refuses the reserved query_key.
RowsValid(s) == QueryKey \notin s.columns /\ (s.type = "system" => NodeLabel \notin s.columns)
RowColumns(s) == s.columns \cup (IF s.type = "system" THEN {NodeLabel} ELSE {})

(* ---- the loop's thread -------------------------------------------------- *)

\* A handler or a task that does not await leaves nothing half done: only the scraper
\* sees a failure before it is decided whether it expires the entry.
LoopRuns ==
    /\ scrape.pc # "done" /\ overlap < MaxOverlap
    /\ overlap' = IF scrape.pc = "idle" THEN 0 ELSE overlap + 1
    /\ UNCHANGED << scrape, reads >>
Loop == owed = NoKey /\ LoopRuns

\* An object lives while an entry or the scrape holds it.
Held(ents, sc, rs) ==
    {ents[k] : k \in Keys} \cup {sc.todo[k] : k \in DOMAIN sc.todo} \cup {r.obj : r \in rs}
Collected(held) == [o \in DOMAIN objects |-> IF o \in held THEN objects[o] ELSE NoObject]

\* register(): a new entry, or an edit in place that keeps the runtime state.
Register(k, s) ==
    /\ Loop
    /\ IF entries[k] = 0
       THEN LET free == DOMAIN objects \ Held(entries, scrape, reads)
                o == CHOOSE o \in free : \A x \in free : o <= x
            IN  /\ free # {}
                /\ entries' = [entries EXCEPT ![k] = o]
                /\ objects' = [objects EXCEPT ![o] = [spec |-> s, e |-> NewEntry(InvalidReason(s)),
                                                      columns |-> {}, copies |-> 1]]
       ELSE /\ objects' = [objects EXCEPT ![entries[k]].spec = s,
                                          ![entries[k]].e = Registered(@, InvalidReason(s))]
            /\ UNCHANGED entries
    /\ UNCHANGED owed

Unregister(k) ==
    /\ Loop /\ entries[k] # 0
    /\ entries' = [entries EXCEPT ![k] = 0]
    /\ objects' = Collected(Held(entries', scrape, reads))
    /\ UNCHANGED owed

\* A run of tick `tick` ends with rows; runs end in any order.
RowsArrive(k, tick, empty) ==
    /\ Loop /\ entries[k] # 0
    /\ LET o == objects[entries[k]]
           f == Updated(o.e, tick, empty, FALSE)
           late == tick < o.e.tick_ts
       IN  /\ RowsValid(o.spec)
           /\ objects' = [objects EXCEPT
                 ![entries[k]] = [o EXCEPT !.e = f,
                                     !.columns = IF late THEN @ ELSE RowColumns(o.spec),
                                     !.copies = IF late THEN @ ELSE o.spec.copies]]
    /\ UNCHANGED << entries, owed >>

\* _fail: mark_failure ...
FailureMarked(k) ==
    /\ Loop /\ entries[k] # 0
    /\ objects[entries[k]].e.consecutive_failures < Limit
    /\ objects' = [objects EXCEPT ![entries[k]].e = MarkFailure(@, "QueryError", FALSE)]
    /\ owed' = k
    /\ UNCHANGED entries

\* ... then expire(), under the entry's lock once more.
FailureDecided ==
    /\ owed # NoKey /\ owed' = NoKey /\ LoopRuns
    /\ objects' = [objects EXCEPT ![entries[owed]].e =
                      IF @.consecutive_failures >= Limit THEN Expire(@) ELSE @]
    /\ UNCHANGED entries

(* ---- the scraper's thread ------------------------------------------------ *)

Scraper == UNCHANGED << entries, objects, owed >>

Gate_Open ==                           \* a standby replica shows its queries, too
    /\ scrape.pc = "idle"
    /\ \E active \in BOOLEAN : scrape' = [NoScrape EXCEPT !.pc = "snapshot", !.leader = active]
    /\ Scraper /\ UNCHANGED << reads, overlap >>

\* The leader flag, which may change at any time, is looked at once: for the gauge and
\* for the gate.
Gate ==
    /\ scrape.pc = "idle"
    /\ \E active \in BOOLEAN :
          scrape' = [NoScrape EXCEPT !.pc = IF active THEN "snapshot" ELSE "done", !.leader = active]
    /\ Scraper /\ UNCHANGED << reads, overlap >>

Snapshot_Unfiltered ==                 \* keys without an entry, too
    /\ scrape.pc = "snapshot"
    /\ scrape' = [scrape EXCEPT !.pc = "read", !.todo = entries]
    /\ Scraper /\ UNCHANGED << reads, overlap >>

\* The entries, under the global lock.  Its objects may be removed or edited later.
Snapshot ==
    /\ scrape.pc = "snapshot"
    /\ scrape' = [scrape EXCEPT !.pc = "read",
                                !.todo = [k \in {x \in Keys : entries[x] # 0} |-> entries[k]]]
    /\ Scraper /\ UNCHANGED << reads, overlap >>

\* One entry, under its lock.
ReadOf(k, o) == [key |-> k, obj |-> o, spec |-> objects[o].spec, e |-> objects[o].e,
                 columns |-> objects[o].columns, copies |-> objects[o].copies]

ReadEntry(k) ==
    /\ scrape.pc = "read" /\ k \in DOMAIN scrape.todo
    /\ reads' = reads \cup {ReadOf(k, scrape.todo[k])}
    /\ scrape' = [scrape EXCEPT !.todo = [x \in DOMAIN @ \ {k} |-> @[x]]]
    /\ Scraper /\ UNCHANGED overlap

(* Families are sets of samples; `of` tells where a sample comes from, `nth`    *)
(* the rows of a result with the same labels apart.                             *)

\* The rows themselves were taken along with the rest of the entry.
RowsRead_Late(r) == objects[r.obj].e.rows        \* looks at the entry again, without its lock
RowsRead(r) == r.e.rows

Grouped == {r \in reads : Exports(r.e)}
Name(r) == ApplyPrefix(r.spec)

Groups_PerEntry == {{r} : r \in Grouped}         \* a family for each query
Groups == {{r \in Grouped : Name(r) = n} : n \in {Name(r) : r \in Grouped}}

StaticKeys_OfOne(group) == DOMAIN (CHOOSE r \in group : TRUE).spec.labels
StaticKeys(group) == UNION {DOMAIN r.spec.labels : r \in group}
DynamicKeys(group) == UNION {r.columns : r \in group}

LabelsOf_NoKey(r, row, group) ==       \* query_key is no label of user metrics
    [l \in StaticKeys(group) \cup DynamicKeys(group) |->
        IF l \in DynamicKeys(group) THEN IF l \in DOMAIN row THEN row[l] ELSE Blank
        ELSE IF l \in DOMAIN r.spec.labels THEN r.spec.labels[l] ELSE Blank]

\* Where a label is both, the dynamic one comes last and wins.
LabelsOf(r, row, group) ==
    [l \in StaticKeys(group) \cup DynamicKeys(group) \cup {QueryKey} |->
        IF l = QueryKey THEN r.key
        ELSE IF l \in DynamicKeys(group) THEN IF l \in DOMAIN row THEN row[l] ELSE Blank
        ELSE IF l \in DOMAIN r.spec.labels THEN r.spec.labels[l] ELSE Blank]

Sample(r, row, i, group) ==
    [labels |-> LabelsOf(r, row, group), value |-> RowsRead(r), of |-> << r.key, row >>, nth |-> i]

\* One for every row, whether or not another has the same labels.
Samples(r, group) == {Sample(r, row, i, group) : row \in [r.columns -> Values], i \in 1..r.copies}

UserFamily(group) == [name |-> Name(CHOOSE r \in group : TRUE), group |-> {r.key : r \in group},
                      samples |-> UNION {Samples(r, group) : r \in group}]

SystemFamily(base, samples) == [name |-> SystemName(base), group |-> {}, samples |-> samples]
KeySample(r, value) == [labels |-> [l \in {QueryKey} |-> r.key], value |-> value, of |-> << r.key >>]

UpFamily == SystemFamily("query_up", {KeySample(r, IF UpSample(r.e) THEN 1 ELSE 0) : r \in reads})
SuccessFamily ==
    SystemFamily("query_last_success_timestamp_seconds",
                 {KeySample(r, r.e.tick_ts) : r \in {x \in reads : ~x.e.invalid_reason /\ x.e.rows # None}})
LeaderFamily ==
    SystemFamily("leader", {[labels |-> [l \in {} |-> Blank], value |-> IF scrape.leader THEN 1 ELSE 0,
                             of |-> << >>]})

\* What the scrape answers once every entry is read; families without samples are left out.
Page == {LeaderFamily} \cup {f \in {UpFamily, SuccessFamily} : f.samples # {}}
                       \cup {UserFamily(group) : group \in Groups}

Answer ==
    /\ scrape.pc = "read" /\ DOMAIN scrape.todo = {}
    /\ scrape' = [scrape EXCEPT !.pc = "done"]
    /\ Scraper /\ UNCHANGED << reads, overlap >>

\* The page is written; the objects that were removed are gone with it.
Over ==
    /\ scrape.pc = "done"
    /\ scrape' = NoScrape /\ reads' = {} /\ overlap' = 0
    /\ objects' = Collected(Held(entries, NoScrape, {}))
    /\ UNCHANGED << entries, owed >>

Next ==
    \/ \E k \in Keys, s \in Specs : Register(k, s)
    \/ \E k \in Keys : Unregister(k) \/ FailureMarked(k) \/ ReadEntry(k)
    \/ \E k \in Keys, tick \in 1..MaxTicks, empty \in BOOLEAN : RowsArrive(k, tick, empty)
    \/ FailureDecided \/ Gate \/ Snapshot \/ Answer \/ Over

Spec == Init /\ [][Next]_vars

(* ---- properties ---------------------------------------------------------- *)

Answered == scrape.pc = "done"

TypeOK ==
    /\ entries \in [Keys -> 0..MaxEntries] /\ owed \in Keys \cup {NoKey}
    /\ \A o \in DOMAIN objects :
          objects[o].spec \in Specs /\ objects[o].e \in Entry
          /\ objects[o].e.tick_ts <= MaxTicks /\ objects[o].e.consecutive_failures <= Limit
    /\ scrape.pc \in {"idle", "snapshot", "read", "done"} /\ scrape.leader \in BOOLEAN
    /\ \A k \in DOMAIN scrape.todo : scrape.todo[k] \in DOMAIN objects

\* collect(): "exactly one family per unique name", however many queries share it; and
\* merging them makes no two samples one series: those that are come from rows of one
\* result that are equal in every column, never from two queries, whatever metric name,
\* static labels, columns and rows they share.
FamiliesUnique == Answered => \A f, g \in Page : f.name = g.name => f = g
SeriesOwned ==
    Answered => \A f \in Page : \A x, y \in f.samples :
       x.labels = y.labels => x.of = y.of /\ x.value = y.value
WellFormed == FamiliesUnique /\ SeriesOwned

Label(x, l) == IF l \in DOMAIN x.labels THEN x.labels[l] ELSE Blank

\* Every user series carries the static labels of its query, and those of the row, where
\* no label is static for one query and a column of another with the same metric name.
LabelsKept ==
    Answered => \A group \in Groups : StaticKeys(group) \cap DynamicKeys(group) = {} =>
       \A r \in group : \A x \in UserFamily(group).samples : x.of[1] = r.key =>
          /\ Label(x, QueryKey) = r.key
          /\ \A l \in DOMAIN r.spec.labels : Label(x, l) = r.spec.labels[l]
          /\ \A l \in r.columns : Label(x, l) = x.of[2][l]

Sampled(f, k) == {x \in f.samples : Len(x.of) > 0 /\ x.of[1] = k}
Users == {UserFamily(group) : group \in Groups}

\* The samples of one query on a page tell of one and the same moment: a query that is
\* up shows the rows it has, their time is the last success, an invalid one only that it is
\* down; and a page that says it is not the leader's shows no query.
PageCoherent ==
    Answered =>
       /\ ~scrape.leader => Page = {LeaderFamily}
       /\ \A r \in reads :
             LET series == UNION {Sampled(f, r.key) : f \in Users}
                 success == Sampled(SuccessFamily, r.key)
             IN  /\ UpSample(r.e) /\ ~r.e.empty => series # {}
                 /\ \A x \in series : \A y \in success : x.value = y.value
                 /\ series # {} => success # {}
                 /\ r.e.invalid_reason => series \cup success = {}

(* ---- false of the code ------------------------------------------------------ *)

\* AGENT.md:77: static labels are part of every series.  They are blank or replaced where
\* a query of the same metric name has a column of that name.
LabelsAlwaysKept ==
    Answered => \A group \in Groups : \A r \in group :
       \A x \in UserFamily(group).samples : x.of[1] = r.key =>
          \A l \in DOMAIN r.spec.labels : Label(x, l) = r.spec.labels[l]

\* metrics.py:27: a row is one time series.  Rows of a result that differ in nothing but
\* their value are one series twice: build_rows does not refuse them.
SeriesUnique ==
    Answered => \A f \in Page : \A x, y \in f.samples : x.labels = y.labels => x = y
=============================================================================

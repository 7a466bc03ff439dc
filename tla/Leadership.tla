----------------------------- MODULE Leadership -----------------------------
(***************************************************************************)
(* Replicas of the operator under peering: the flag that lets collect()    *)
(* export business series (leadership.py), set when a query daemon starts  *)
(* and cleared when one is stopped because the replica is paused, and the  *)
(* cached results it gates, in a system of replicas that boot, exit and    *)
(* crash.                                                                  *)
(*                                                                         *)
(* External: kopf.  A replica is paused while the peering object lists a   *)
(* peer of its priority or a higher one, as far as it has seen; a pause    *)
(* stops all its daemons, and resuming lists the queries afresh and starts *)
(* a daemon for each.  A paused replica hears nothing of deletions.  The   *)
(* slot of a replica that crashed stays listed until it expires.           *)
(*                                                                         *)
(* A definition named D_Something is a wrong variant of D, put in its      *)
(* place to see a property fail.                                           *)
(***************************************************************************)
EXTENDS Naturals, FiniteSets

CONSTANTS
    Replicas,
    Prio,         \* priority_from_pod_name of each
    Queries,      \* every ClickHouseQuery there may be
    Peering,      \* peering_enabled; without it there is one replica
    SlowStops,    \* a replica may resume while daemons of its former term still stop
    MaxEdits,     \* bound: queries created and deleted
    MaxFailures   \* bound: replicas that exit or crash

ASSUME ReplicasAssumption == Prio \in [Replicas -> Nat]
ASSUME ScopeAssumption == {Peering, SlowStops} \subseteq BOOLEAN
ASSUME BoundsAssumption == {MaxEdits, MaxFailures} \subseteq Nat

VARIABLES
    queries,   \* the queries at the API server
    listed,    \* the replicas whose slot in the peering object is live
    up,        \* the replicas that run
    paused,    \* per replica: kopf found a peer to yield to
    daemons,   \* per replica: queries whose daemon runs
    pausing,   \* per replica: daemons told OPERATOR_PAUSING
    deleting,  \* per replica: daemons told RESOURCE_DELETED
    flag,      \* per replica: leadership._active
    cache,     \* per replica and query: what the collector holds
    caught,    \* per replica: its last pause found it with a daemon, or with no flag
    edits, failures

world == << queries, listed, up, edits, failures >>
replica == << paused, daemons, pausing, deleting, flag, cache, caught >>
vars == << world, replica >>

\* "empty": registered, but no rows; "old": rows of a former term.
Cached == {"absent", "empty", "fresh", "old"}

Init ==
    /\ queries \in SUBSET Queries
    /\ listed = {} /\ up = {} /\ edits = 0 /\ failures = 0
    /\ paused = [r \in Replicas |-> FALSE]
    /\ flag = [r \in Replicas |-> FALSE] /\ caught = [r \in Replicas |-> TRUE]
    /\ daemons = [r \in Replicas |-> {}]
    /\ pausing = [r \in Replicas |-> {}] /\ deleting = [r \in Replicas |-> {}]
    /\ cache = [r \in Replicas |-> [q \in Queries |-> "absent"]]

\* The replica that r has to yield to is listed.
Outranked(r) == \E p \in listed \ {r} : Prio[p] >= Prio[r]

(* ---- the replica's process ------------------------------------------- *)

Booted_Active(r) == TRUE               \* startup() does not mark it standby

\* import and startup(): the flag is set by default, and cleared under peering.
Booted(r) == ~Peering

Boot(r) ==
    /\ r \notin up /\ up' = up \cup {r} /\ listed' = listed \cup {r}
    /\ \E p \in {FALSE, Peering /\ Outranked(r)} : paused' = [paused EXCEPT ![r] = p]
    /\ flag' = [flag EXCEPT ![r] = Booted(r)]
    /\ cache' = [cache EXCEPT ![r] = [q \in Queries |-> "absent"]]
    /\ caught' = [caught EXCEPT ![r] = TRUE]
    /\ UNCHANGED << queries, daemons, pausing, deleting, edits, failures >>

\* An exit withdraws the slot, a crash leaves it behind.
Down(r) ==
    /\ r \in up /\ failures < MaxFailures
    /\ up' = up \ {r} /\ failures' = failures + 1
    /\ listed' \in {listed, listed \ {r}}
    /\ flag' = [flag EXCEPT ![r] = FALSE]
    /\ daemons' = [daemons EXCEPT ![r] = {}]
    /\ pausing' = [pausing EXCEPT ![r] = {}] /\ deleting' = [deleting EXCEPT ![r] = {}]
    /\ UNCHANGED << queries, paused, cache, caught, edits >>

Expire(r) ==
    /\ r \in listed \ up /\ listed' = listed \ {r}
    /\ UNCHANGED << queries, up, edits, failures, replica >>

(* ---- pause and resume ------------------------------------------------ *)

Pause(r) ==
    /\ Peering /\ r \in up /\ ~paused[r] /\ Outranked(r)
    /\ paused' = [paused EXCEPT ![r] = TRUE]
    /\ pausing' = [pausing EXCEPT ![r] = daemons[r]]
    /\ caught' = [caught EXCEPT ![r] = daemons[r] # {} \/ ~flag[r]]
    /\ UNCHANGED << world, daemons, deleting, flag, cache >>

\* The rows of the former term stay in the cache.
Resume(r) ==
    /\ r \in up /\ paused[r] /\ ~Outranked(r)
    /\ SlowStops \/ pausing[r] = {}
    /\ paused' = [paused EXCEPT ![r] = FALSE]
    /\ cache' = [cache EXCEPT ![r] =
                    [q \in Queries |-> IF @[q] = "fresh" THEN "old" ELSE @[q]]]
    /\ UNCHANGED << world, daemons, pausing, deleting, flag, caught >>

(* ---- queries and their daemons --------------------------------------- *)

Create(q) ==
    /\ edits < MaxEdits /\ edits' = edits + 1
    /\ q \notin queries /\ \A r \in Replicas : q \notin daemons[r]
    /\ queries' = queries \cup {q}
    /\ UNCHANGED << listed, up, failures, replica >>

Delete(q) ==
    /\ edits < MaxEdits /\ edits' = edits + 1
    /\ q \in queries /\ queries' = queries \ {q}
    /\ UNCHANGED << listed, up, failures, replica >>

\* register() and the start of the daemon, which marks the replica active.
DaemonStarts(r, q) ==
    /\ r \in up /\ ~paused[r] /\ q \in queries \ daemons[r]
    /\ daemons' = [daemons EXCEPT ![r] = @ \cup {q}]
    /\ flag' = [flag EXCEPT ![r] = TRUE]
    /\ cache' = [cache EXCEPT ![r][q] = IF @ = "absent" THEN "empty" ELSE @]
    /\ UNCHANGED << world, paused, pausing, deleting, caught >>

\* deregister(), and its daemon is told to stop.
Deregister(r, q) ==
    /\ r \in up /\ ~paused[r] /\ q \in daemons[r] \ (queries \cup deleting[r])
    /\ deleting' = [deleting EXCEPT ![r] = @ \cup {q}]
    /\ cache' = [cache EXCEPT ![r][q] = "absent"]
    /\ UNCHANGED << world, paused, daemons, pausing, flag, caught >>

NoteDaemonStopped_Never(r, q) == flag[r]        \* no reason clears it
NoteDaemonStopped_Always(r, q) == FALSE         \* a deletion clears it, too

\* note_daemon_stopped: only a pause clears the flag.
NoteDaemonStopped(r, q) == IF q \in pausing[r] THEN FALSE ELSE flag[r]

DaemonStops(r, q) ==
    /\ q \in pausing[r] \cup deleting[r]
    /\ flag' = [flag EXCEPT ![r] = NoteDaemonStopped(r, q)]
    /\ daemons' = [daemons EXCEPT ![r] = @ \ {q}]
    /\ pausing' = [pausing EXCEPT ![r] = @ \ {q}]
    /\ deleting' = [deleting EXCEPT ![r] = @ \ {q}]
    /\ UNCHANGED << world, paused, cache, caught >>

RowsArrive_Recreates(r, q) ==          \* a missing entry is created anew
    /\ q \in daemons[r] /\ ~paused[r]
    /\ cache' = [cache EXCEPT ![r][q] = "fresh"]
    /\ UNCHANGED << world, paused, daemons, pausing, deleting, flag, caught >>

\* A run that a daemon started succeeds; one of a deleted query finds no entry.
RowsArrive(r, q) ==
    /\ q \in daemons[r] /\ ~paused[r] /\ cache[r][q] \in {"empty", "old"}
    /\ cache' = [cache EXCEPT ![r][q] = "fresh"]
    /\ UNCHANGED << world, paused, daemons, pausing, deleting, flag, caught >>

Kopf(r) == Pause(r) \/ Resume(r)
Daemon(r, q) == DaemonStarts(r, q) \/ Deregister(r, q) \/ DaemonStops(r, q) \/ RowsArrive(r, q)

Next ==
    \/ \E r \in Replicas : Boot(r) \/ Down(r) \/ Expire(r) \/ Kopf(r)
    \/ \E q \in Queries : Create(q) \/ Delete(q)
    \/ \E r \in Replicas, q \in Queries : Daemon(r, q)

\* Kubernetes restarts replicas, slots expire, and kopf sees what changed.
Fairness ==
    /\ \A r \in Replicas : WF_vars(Boot(r)) /\ WF_vars(Expire(r)) /\ WF_vars(Kopf(r))
    /\ \A r \in Replicas, q \in Queries :
          WF_vars(DaemonStarts(r, q)) /\ WF_vars(Deregister(r, q))
          /\ WF_vars(DaemonStops(r, q)) /\ WF_vars(RowsArrive(r, q))

Spec == Init /\ [][Next]_vars /\ Fairness

(* ---- properties ------------------------------------------------------ *)

TypeOK ==
    /\ queries \subseteq Queries /\ listed \subseteq Replicas /\ up \subseteq Replicas
    /\ edits \in 0..MaxEdits /\ failures \in 0..MaxFailures
    /\ paused \in [Replicas -> BOOLEAN] /\ flag \in [Replicas -> BOOLEAN]
    /\ caught \in [Replicas -> BOOLEAN]
    /\ daemons \in [Replicas -> SUBSET Queries]
    /\ pausing \in [Replicas -> SUBSET Queries] /\ deleting \in [Replicas -> SUBSET Queries]
    /\ cache \in [Replicas -> [Queries -> Cached]]
    /\ \A r \in Replicas : \A q \in deleting[r] : cache[r][q] = "absent"

\* leadership.py:3: a replica that was paused exports nothing once its daemons have
\* stopped, unless the pause found it active without any daemon.
PausedSilent ==
    \A r \in up : paused[r] /\ caught[r] /\ daemons[r] = {} => ~flag[r]

\* What note_daemon_stopped leaves alone: whoever runs a daemon that was not told to
\* pause exports, whatever other daemons were deleted meanwhile.
ActiveExports ==
    \A r \in up : ~paused[r] /\ daemons[r] \ pausing[r] # {} => flag[r]

Leader(r) == r \in up /\ \A p \in up \ {r} : Prio[p] < Prio[r]

\* README.md, High availability: once replicas and queries stay as they are and there
\* is a query, exactly the replica of the highest priority exports, and it exports
\* results of its own term for every query.
OneServes ==
    \A r \in Replicas : flag[r] <=> Leader(r)
FreshlyServed ==
    \A r \in Replicas, q \in queries : Leader(r) => cache[r][q] = "fresh"
EventuallyOne ==
    <>[](queries # {} /\ up # {} /\ \A r \in up : caught[r]) => <>[](OneServes /\ FreshlyServed)

(* ---- false of the code ----------------------------------------------- *)

\* README.md:315: exactly one pod reports 1 while there is a query.  A leader whose
\* last query was deleted keeps its flag, and no daemon is there to clear it.
SoonOne == <>[](queries # {} /\ up # {}) => <>[]OneServes

\* A deleted query is exported no more.  A replica that was paused during the deletion
\* has its entry still when it leads again.
NoGhosts ==
    \A r \in up, q \in Queries \ queries :
       flag[r] /\ ~paused[r] /\ q \notin daemons[r] => cache[r][q] = "absent"

\* README.md:273: a demoted replica "stops serving its stale cache".  It resumes with
\* it: the flag is set before the first query of the new term has run.
OwnTermOnly == \A r \in up, q \in Queries : flag[r] /\ ~paused[r] => cache[r][q] # "old"
=============================================================================

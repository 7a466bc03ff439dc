------------------------ MODULE ClickHouseConnection ------------------------
(***************************************************************************)
(* One ClickHouse cluster behind its facade (clickhouse/connection.py) and *)
(* the pool of nodes (clickhouse/topology.py): discovery passes, which the *)
(* discovery lock serializes, run while data queries fail over from node   *)
(* to node and system queries fan out to all of them.                      *)
(*                                                                         *)
(* A node is what NodeClient makes of it: alive or not, and a call on it   *)
(* answers and marks it alive, is refused by the server and changes        *)
(* nothing, or fails and marks it dead.  Calls end in any order.           *)
(*                                                                         *)
(* A definition named D_Something is a wrong variant of D, put in its      *)
(* place to see a property fail.                                           *)
(***************************************************************************)
EXTENDS Naturals, FiniteSets

CONSTANTS
    Hosts,          \* every host there is
    Seeds,          \* spec.seed_hosts
    Memberships,    \* the memberships the cluster goes through
    Queries,        \* tasks that run one query after the other
    MaxFailovers,   \* spec.max_failovers; Cardinality(Hosts) for None
    Passive,        \* liveness_mode = "passive"
    Faults,         \* a reachable server may fail a call
    Outages,        \* the servers that become unreachable and come back
    NoHost

ASSUME HostsAssumption ==
    /\ IsFiniteSet(Hosts) /\ NoHost \notin Hosts
    /\ Seeds \subseteq Hosts /\ Seeds # {} /\ Outages \subseteq Hosts
    /\ Memberships \subseteq SUBSET Hosts /\ Memberships # {}
ASSUME LimitsAssumption == MaxFailovers \in Nat /\ {Passive, Faults} \subseteq BOOLEAN

VARIABLES
    tracked,     \* the keys of _nodes
    alive,       \* tracked nodes with alive set
    in_cluster,  \* tracked nodes with in_cluster set
    discovered,  \* last_discovery is not None
    ready,       \* _ready
    pass,        \* the discovery pass: its kind and what it awaits
    todo,        \* hosts it has yet to add or to reconcile
    pinging,     \* hosts it is pinging
    asked,       \* the node it asked for system.clusters
    answer,      \* the members it was told
    q,           \* per query: its locals, its calls and how it ended
    members,     \* what system.clusters holds by now
    up,          \* reachable servers
    through,     \* per running query: nodes alive ever since it started
    missing      \* per running query: expected nodes dead ever since it started

pool == << tracked, alive, in_cluster, discovered >>
passing == << ready, pass, todo, pinging, asked, answer >>
world == << members, up >>
watched == << through, missing >>
vars == << pool, passing, q, world, watched >>

Kinds == {"refresh", "recheck", "rediscover"}
Stages == {"idle", "ping", "ask", "add", "reconcile"}
Outcomes == {"idle", "running", "rows", "query_error", "node_error", "no_live"}

\* kind: "data" or "system"; tried: hosts that failed; left: calls not over; nodes,
\* got: the nodes of a fan-out and those whose rows arrived; gone: calls whose Node
\* left the pool; failed: the failed_nodes of the result.
Idle == [kind |-> "data", outcome |-> "idle", tried |-> {}, left |-> {}, nodes |-> {}, got |-> {},
         gone |-> {}, failed |-> {}]

Init ==
    /\ tracked = Seeds /\ alive = {} /\ in_cluster = {} /\ discovered = FALSE
    /\ ready = FALSE
    /\ pass = [kind |-> "refresh", stage |-> "idle"]
    /\ todo = {} /\ pinging = {} /\ asked = NoHost /\ answer = {}
    /\ q = [t \in Queries |-> Idle]
    /\ members \in Memberships
    /\ up \in {Hosts \ down : down \in SUBSET Outages}
    /\ through = [t \in Queries |-> {}] /\ missing = [t \in Queries |-> {}]

Running(t) == q[t].outcome = "running"

\* A task starts a query when the calls of its last one are over, too.
Free(t) == ~Running(t) /\ q[t].left = {}

\* Members that are down; before the first discovery every node counts as one.
DownMembers == {h \in tracked \ alive : h \in in_cluster \/ ~discovered}

-----------------------------------------------------------------------------
(* Discovery passes: refresh(), recheck() and rediscover().                  *)

Finish == /\ ready' = TRUE
          /\ pass' = [pass EXCEPT !.stage = "idle"]
          /\ todo' = {} /\ pinging' = {} /\ asked' = NoHost /\ answer' = {}

\* refresh_topology asks one live node for the members, if there is one.
Ask(kind) ==
    IF alive = {}
    THEN Finish
    ELSE /\ pass' = [kind |-> kind, stage |-> "ask"]
         /\ asked' \in alive
         /\ UNCHANGED << ready, todo, pinging, answer >>

\* The lock is free; passes that wait for it come in any order.
StartPass(kind) ==
    /\ pass.stage = "idle"
    /\ IF kind = "rediscover"
       THEN Ask(kind)
       ELSE /\ pass' = [kind |-> kind, stage |-> "ping"]
            /\ pinging' = IF Passive THEN tracked \ alive ELSE tracked
            /\ UNCHANGED << ready, todo, asked, answer >>
    /\ UNCHANGED << pool, q, world >>

PingOver(h) ==
    /\ h \in pinging
    /\ pinging' = pinging \ {h}
    /\ UNCHANGED << tracked, in_cluster, discovered, ready, pass, todo, asked, answer, q, world >>

PingAnswered(h) == h \in up /\ alive' = alive \cup {h} /\ PingOver(h)
PingFails(h) == (h \notin up \/ Faults) /\ alive' = alive \ {h} /\ PingOver(h)

PingsDone ==
    /\ pass.stage = "ping" /\ pinging = {}
    /\ IF pass.kind = "recheck" THEN Finish ELSE Ask(pass.kind)
    /\ UNCHANGED << pool, q, world >>

\* A server outside the cluster does not know it.
Told(h) == IF h \in members THEN members ELSE {}

DiscoveryAnswered ==
    /\ pass.stage = "ask" /\ asked \in up
    /\ answer' = Told(asked)
    /\ alive' = alive \cup {asked}
    /\ pass' = [pass EXCEPT !.stage = "add"]
    /\ todo' = answer' \ tracked
    /\ asked' = NoHost
    /\ UNCHANGED << tracked, in_cluster, discovered, ready, pinging, q, world >>

\* The call failed, or the server refused it: the pass ends with what there is.
DiscoveryFails ==
    /\ pass.stage = "ask"
    /\ \/ (asked \notin up \/ Faults) /\ alive' = alive \ {asked}
       \/ asked \in up /\ Faults /\ UNCHANGED alive
    /\ Finish
    /\ UNCHANGED << tracked, in_cluster, discovered, q, world >>

\* New members join one by one, each pinged before the next.
AddMember(h) ==
    /\ pass.stage = "add" /\ pinging = {} /\ h \in todo
    /\ tracked' = tracked \cup {h}
    /\ in_cluster' = in_cluster \cup {h}
    /\ todo' = todo \ {h}
    /\ pinging' = {h}
    /\ UNCHANGED << alive, discovered, ready, pass, asked, answer, q, world >>

AddsDone ==
    /\ pass.stage = "add" /\ pinging = {} /\ todo = {}
    /\ pass' = [pass EXCEPT !.stage = "reconcile"]
    /\ todo' = tracked
    /\ UNCHANGED << pool, ready, pinging, asked, answer, q, world >>

\* Wrong variant.
Reconcile_KeepsFlag(h) ==       \* a tracked node that joins the cluster is not flagged
    /\ pass.stage = "reconcile" /\ h \in todo
    /\ todo' = todo \ {h}
    /\ in_cluster' = in_cluster \ ({h} \ answer)
    /\ IF h \in answer \cup Seeds
       THEN UNCHANGED << tracked, alive, q >>
       ELSE /\ tracked' = tracked \ {h}
            /\ alive' = alive \ {h}
            /\ q' = [t \in Queries |-> [q[t] EXCEPT !.gone = @ \cup (q[t].left \cap {h})]]
    /\ UNCHANGED << discovered, ready, pass, pinging, asked, answer, world >>

\* A seed is never dropped; any other node that is no member is closed and removed,
\* and what its last calls report no longer matters to the pool.
Reconcile(h) ==
    /\ pass.stage = "reconcile" /\ h \in todo
    /\ todo' = todo \ {h}
    /\ in_cluster' = IF h \in answer THEN in_cluster \cup {h} ELSE in_cluster \ {h}
    /\ IF h \in answer \cup Seeds
       THEN UNCHANGED << tracked, alive, q >>
       ELSE /\ tracked' = tracked \ {h}
            /\ alive' = alive \ {h}
            /\ q' = [t \in Queries |-> [q[t] EXCEPT !.gone = @ \cup (q[t].left \cap {h})]]
    /\ UNCHANGED << discovered, ready, pass, pinging, asked, answer, world >>

PassDone ==
    /\ pass.stage = "reconcile" /\ todo = {}
    /\ discovered' = TRUE
    /\ Finish
    /\ UNCHANGED << tracked, alive, in_cluster, q, world >>

-----------------------------------------------------------------------------
(* Calls on nodes, by queries of both types.                                 *)

\* Wrong variant.
Marks_ByHost(t, h, live) ==       \* a call marks whichever Node has that host by now
    alive' = IF live THEN alive \cup {h} ELSE alive \ {h}

Marks(t, h, live) ==
    IF h \in q[t].gone THEN UNCHANGED alive
    ELSE alive' = IF live THEN alive \cup {h} ELSE alive \ {h}

Answers(t, h) == h \in q[t].left /\ h \in up /\ Marks(t, h, TRUE)
Fails(t, h) ==
    /\ h \in q[t].left
    /\ h \notin up \/ Faults \/ h \in q[t].gone
    /\ Marks(t, h, FALSE)
Refuses(t, h) == h \in q[t].left /\ h \in up /\ UNCHANGED alive

CallOver(t, h) == [q[t] EXCEPT !.left = @ \ {h}, !.gone = @ \ {h}]
Only == UNCHANGED << tracked, in_cluster, discovered, passing, world >>

(* execute_data_query: any live node; on failure another one, not yet tried. *)

Choice(r, S) == IF S = {} THEN {[r EXCEPT !.outcome = IF r.tried = {} THEN "no_live" ELSE "node_error"]}
                ELSE {[r EXCEPT !.outcome = "running", !.left = {h}] : h \in S}

StartData(t) ==
    /\ Free(t)
    /\ \E r \in Choice(Idle, alive) : q' = [q EXCEPT ![t] = r]
    /\ UNCHANGED alive /\ Only

DataAnswered(t, h) ==
    /\ q[t].kind = "data" /\ Answers(t, h)
    /\ q' = [q EXCEPT ![t] = [CallOver(t, h) EXCEPT !.outcome = "rows"]]
    /\ Only

DataRefused(t, h) ==
    /\ q[t].kind = "data" /\ Refuses(t, h)
    /\ q' = [q EXCEPT ![t] = [CallOver(t, h) EXCEPT !.outcome = "query_error"]]
    /\ Only

\* The node is marked down, then its client is closed: an await.
DataFailed(t, h) ==
    /\ q[t].kind = "data" /\ Fails(t, h)
    /\ q' = [q EXCEPT ![t] = [CallOver(t, h) EXCEPT !.tried = @ \cup {h}]]
    /\ Only

Closed(t) == q[t].kind = "data" /\ Running(t) /\ q[t].left = {}

\* Wrong variants.
FailsOver_OneLess(t) ==           \* >= where the code has >
    /\ Closed(t)
    /\ \E r \in IF Cardinality(q[t].tried) >= MaxFailovers
              THEN {[q[t] EXCEPT !.outcome = "node_error"]}
              ELSE Choice(q[t], alive \ q[t].tried) :
          q' = [q EXCEPT ![t] = r]
    /\ UNCHANGED alive /\ Only
FailsOver_OneMore(t) ==           \* the first attempt does not count
    /\ Closed(t)
    /\ \E r \in IF Cardinality(q[t].tried) > MaxFailovers + 1
              THEN {[q[t] EXCEPT !.outcome = "node_error"]}
              ELSE Choice(q[t], alive \ q[t].tried) :
          q' = [q EXCEPT ![t] = r]
    /\ UNCHANGED alive /\ Only
FailsOver_Forgets(t) ==           \* a node that failed may be tried again
    /\ Closed(t)
    /\ \E r \in Choice([q[t] EXCEPT !.tried = {}], alive) : q' = [q EXCEPT ![t] = r]
    /\ UNCHANGED alive /\ Only

\* The limit, then any node alive by then that this query has not tried.
FailsOver(t) ==
    /\ Closed(t)
    /\ \E r \in IF Cardinality(q[t].tried) > MaxFailovers
              THEN {[q[t] EXCEPT !.outcome = "node_error"]}
              ELSE Choice(q[t], alive \ q[t].tried) :
          q' = [q EXCEPT ![t] = r]
    /\ UNCHANGED alive /\ Only

(* execute_system_query: every live node at once.  An error of the server    *)
(* fails the query; the calls still out go on.                               *)

StartSystem(t) ==
    /\ Free(t)
    /\ LET new == [Idle EXCEPT !.kind = "system"]
       IN q' = [q EXCEPT ![t] = IF alive = {} THEN [new EXCEPT !.outcome = "no_live"]
                                ELSE [new EXCEPT !.outcome = "running",
                                                 !.nodes = alive, !.left = alive]]
    /\ UNCHANGED alive /\ Only

SystemAnswered(t, h) ==
    /\ q[t].kind = "system" /\ Answers(t, h)
    /\ q' = [q EXCEPT ![t] = [CallOver(t, h) EXCEPT !.got = @ \cup {h}]]
    /\ Only

SystemRefused(t, h) ==
    /\ q[t].kind = "system" /\ Refuses(t, h)
    /\ q' = [q EXCEPT ![t] = [CallOver(t, h) EXCEPT !.outcome = "query_error"]]
    /\ Only

\* Wrong variant.
SystemFailed_KeepsAlive(t, h) ==  \* the failing node is not marked down
    /\ q[t].kind = "system" /\ h \in q[t].left /\ (h \notin up \/ Faults)
    /\ q' = [q EXCEPT ![t] = CallOver(t, h)]
    /\ UNCHANGED alive /\ Only

SystemFailed(t, h) ==
    /\ q[t].kind = "system" /\ Fails(t, h)
    /\ q' = [q EXCEPT ![t] = CallOver(t, h)]
    /\ Only

\* Wrong variant.
SystemDone_OmitsDown(t) ==        \* members that were not asked are left out
    /\ q[t].kind = "system" /\ Running(t) /\ q[t].left = {}
    /\ q' = [q EXCEPT ![t].outcome = "rows", ![t].failed = q[t].nodes \ q[t].got]
    /\ UNCHANGED alive /\ Only

\* All calls are over: the rows, and the nodes that failed or are down by now.
SystemDone(t) ==
    /\ q[t].kind = "system" /\ Running(t) /\ q[t].left = {}
    /\ q' = [q EXCEPT ![t].outcome = "rows",
                      ![t].failed = (q[t].nodes \ q[t].got) \cup DownMembers]
    /\ UNCHANGED alive /\ Only

\* Some row has a column named like the node label.
SystemReserved(t) ==
    /\ q[t].kind = "system" /\ Running(t) /\ q[t].left = {} /\ q[t].got # {}
    /\ q' = [q EXCEPT ![t].outcome = "query_error"]
    /\ UNCHANGED alive /\ Only

-----------------------------------------------------------------------------
(* The cluster.                                                              *)

Moves == /\ members' \in Memberships \ {members}
         /\ UNCHANGED << pool, passing, q, up >>

Changes(h) == /\ h \in Outages
              /\ up' = IF h \in up THEN up \ {h} ELSE up \cup {h}
              /\ UNCHANGED << pool, passing, q, members >>

-----------------------------------------------------------------------------
Pass == \/ \E h \in Hosts : PingAnswered(h) \/ PingFails(h) \/ AddMember(h) \/ Reconcile(h)
        \/ PingsDone \/ DiscoveryAnswered \/ DiscoveryFails \/ AddsDone \/ PassDone

Call(t) ==
    \/ \E h \in Hosts :
          \/ DataAnswered(t, h) \/ DataRefused(t, h) \/ DataFailed(t, h)
          \/ SystemAnswered(t, h) \/ SystemRefused(t, h) \/ SystemFailed(t, h)
    \/ FailsOver(t) \/ SystemDone(t) \/ SystemReserved(t)

Step == \/ \E kind \in Kinds : StartPass(kind)
        \/ Pass
        \/ \E t \in Queries : StartData(t) \/ StartSystem(t) \/ Call(t)
        \/ Moves \/ \E h \in Hosts : Changes(h)

\* What the properties remember of a query's time.
Watching ==
    LET Keep(old, t, new) == IF Running(t) THEN old[t] \cap new ELSE new
    IN /\ through' = [t \in Queries |-> Keep(through, t, alive')]
       /\ missing' = [t \in Queries |-> Keep(missing, t, DownMembers')]

Next == Step /\ Watching

Spec == Init /\ [][Next]_vars

\* Passes and calls end (the driver has timeouts), the timers tick, and a server that is
\* reachable does not fail every ping.
Fairness == /\ WF_vars(Pass /\ Watching)
            /\ \A h \in Hosts : SF_vars(PingAnswered(h) /\ Watching)
            /\ \A t \in Queries : WF_vars(Call(t) /\ Watching)
            /\ \A kind \in Kinds \ {"refresh"} : SF_vars(StartPass(kind) /\ Watching)

FairSpec == Spec /\ Fairness

-----------------------------------------------------------------------------
(* Properties.                                                               *)

TypeOK ==
    /\ Seeds \subseteq tracked /\ tracked \subseteq Hosts
    /\ alive \subseteq tracked /\ in_cluster \subseteq tracked
    /\ discovered \in BOOLEAN /\ ready \in BOOLEAN
    /\ pass \in [kind : Kinds, stage : Stages]
    /\ todo \subseteq Hosts /\ pinging \subseteq tracked /\ answer \subseteq Hosts
    /\ asked \in tracked \cup {NoHost}
    /\ q \in [Queries -> [kind : {"data", "system"}, outcome : Outcomes,
                          tried : SUBSET Hosts, left : SUBSET Hosts,
                          nodes : SUBSET Hosts, got : SUBSET Hosts, gone : SUBSET Hosts,
                          failed : SUBSET Hosts]]
    /\ members \in Memberships /\ up \subseteq Hosts

\* execute_data_query: a query never makes more attempts than its failovers allow, and
\* fails for want of nodes only if it made them all or no node was alive all the while.
FailoverExact == [][\A t \in Queries :
    Running(t) /\ q[t].kind = "data" =>
        /\ Cardinality(q'[t].tried \cup q'[t].left) <= MaxFailovers + 1
        /\ q'[t].outcome = "node_error" =>
              through'[t] = {} \/ Cardinality(q'[t].tried) = MaxFailovers + 1]_vars

\* execute_system_query: a fan-out tells the truth of the nodes that did not change while
\* it ran.  One alive all the time has its rows in the result and is not said to have
\* failed; an expected one down all the time is said to have failed and has no rows.
FanOutTruthful == [][\A t \in Queries :
    Running(t) /\ q[t].kind = "system" /\ q'[t].outcome = "rows" =>
        /\ through'[t] \subseteq q'[t].got \ q'[t].failed
        /\ missing'[t] \subseteq q'[t].failed \ q'[t].got]_vars

\* Every query ends: failover cannot go round in circles however nodes come and go.
QueriesEnd == \A t \in Queries : Running(t) ~> ~Running(t)

\* Once the cluster keeps a shape that has the seeds in it, its servers stay reachable and
\* discovery is answered again and again, the pool settles on the members, whatever it
\* held before (seeds that were no members included) and whichever calls still fail; and
\* no member is given up for ever.
PoolConverges == \A M \in Memberships :
    /\ Seeds \subseteq M
    /\ <>[](members = M /\ up = Hosts)
    /\ []<>(pass.stage = "add")
    => /\ <>[](tracked = M /\ in_cluster = M)
       /\ \A h \in M : []<>(h \in alive)

\* AGENT.md: NodeConnectionError never escapes the connection.
NodeErrorsContained == \A t \in Queries : q[t].outcome # "node_error"

\* connection.py: a system query should reflect the whole cluster.
WholeCluster == [][\A t \in Queries :
    Running(t) /\ q[t].kind = "system" /\ q'[t].outcome = "rows" => in_cluster \subseteq q'[t].got \cup q'[t].failed]_vars

\* connection.py: waiting for `ready` avoids a spurious NoLiveNodes after a restart.
NoSpuriousNoLive == [][\A t \in Queries :
    ready /\ up = Hosts /\ ~Running(t) => q'[t].outcome # "no_live"]_vars

\* topology.py: a node that is still a cluster member stays in the pool.
MembersStay == [][\A h \in Hosts : h \in tracked /\ h \in members => h \in tracked']_vars
=============================================================================

---------------------- MODULE ClickHouseConnectionProofs ----------------------
(***************************************************************************)
(* Proofs about ClickHouseConnection: its types, that a data query makes   *)
(* no attempt too few or too many, and that a fan-out tells the truth of   *)
(* the nodes that stay as they were, for any hosts, memberships, queries,  *)
(* outages and failover limit.                                             *)
(***************************************************************************)
EXTENDS ClickHouseConnection, FiniteSetTheorems, TLAPS

Calls == [kind : {"data", "system"}, outcome : Outcomes,
          tried : SUBSET Hosts, left : SUBSET Hosts,
          nodes : SUBSET Hosts, got : SUBSET Hosts, gone : SUBSET Hosts,
          failed : SUBSET Hosts]

\* The node that is asked is let go before the pool changes, and a reconciliation looks
\* at nodes of the pool only, none of which is still being pinged.
PassOwns ==
    /\ pass.stage \in {"add", "reconcile"} => asked = NoHost
    /\ pass.stage = "reconcile" => pinging = {} /\ todo \subseteq tracked

\* A call is on a node of the pool unless the node was removed from it.
CallsTracked == \A t \in Queries : q[t].left \ q[t].gone \subseteq tracked

\* A data query has one call at a time, which ends it or is over before the next; what a
\* running query tried, or saw removed, is none of the nodes alive all the while; what it
\* tried and tries now is within the limit.
SoundData(r, live) ==
    /\ r.kind = "data" => /\ \A a, b \in r.left : a = b
                          /\ r.outcome # "running" => r.left = {}
    /\ r.outcome = "running" =>
          /\ live \cap (r.tried \cup r.gone) = {}
          /\ r.kind = "data" => Cardinality(r.tried \cup r.left) <= MaxFailovers + 1
\* A fan-out has the rows of only the nodes it asked, none of which was down all the
\* while, and has or awaits those of every node alive all the while.
SoundFan(r, live, down) ==
    r.kind = "system" /\ r.outcome = "running" =>
        /\ r.left \cup r.got \subseteq r.nodes
        /\ live \subseteq r.left \cup r.got
        /\ down \cap r.nodes = {}
AllSound == \A t \in Queries : /\ SoundData(q[t], through[t])
                               /\ SoundFan(q[t], through[t], missing[t])

IInv == TypeOK /\ PassOwns /\ CallsTracked
QInv == IInv /\ AllSound

-----------------------------------------------------------------------------
(* The calls of a query.                                                     *)

LEMMA IdleType == Idle \in Calls
BY DEF Idle, Calls, Outcomes

LEMMA CallOverType ==
    ASSUME q \in [Queries -> Calls], NEW t \in Queries, NEW h
    PROVE  /\ CallOver(t, h) \in Calls
           /\ CallOver(t, h).left = q[t].left \ {h}
           /\ CallOver(t, h).gone = q[t].gone \ {h}
           /\ CallOver(t, h).tried = q[t].tried
           /\ CallOver(t, h).outcome = q[t].outcome
           /\ CallOver(t, h).kind = q[t].kind
BY DEF CallOver, Calls

LEMMA ChoiceType ==
    ASSUME NEW r \in Calls, NEW S \in SUBSET Hosts, NEW s \in Choice(r, S)
    PROVE  /\ s \in Calls /\ s.kind = r.kind /\ s.tried = r.tried /\ s.gone = r.gone
           /\ \/ S = {} /\ s.left = r.left
                 /\ s.outcome = (IF r.tried = {} THEN "no_live" ELSE "node_error")
              \/ s.outcome = "running" /\ s.left \subseteq S
<1>1. CASE S = {}
  BY <1>1 DEF Choice, Calls, Outcomes
<1>2. CASE S # {}
  <2>1. PICK h \in S : s = [r EXCEPT !.outcome = "running", !.left = {h}]
    BY <1>2 DEF Choice
  <2>2. QED BY <2>1 DEF Calls, Outcomes
<1>3. QED BY <1>1, <1>2

\* A query's step changes its own calls only; what it marks alive is in the pool.
LEMMA MarksPool ==
    ASSUME TypeOK, CallsTracked, NEW t \in Queries, NEW h \in q[t].left, NEW b \in BOOLEAN,
           Marks(t, h, b)
    PROVE  alive' \subseteq tracked
BY DEF Marks, TypeOK, CallsTracked

LEMMA QueryStep ==
    ASSUME IInv, Only, alive' \subseteq tracked,
           NEW t \in Queries, NEW r \in Calls, q' = [q EXCEPT ![t] = r],
           r.left \ r.gone \subseteq tracked
    PROVE  IInv'
<1>1. q \in [Queries -> Calls]
  BY DEF IInv, TypeOK, Calls
<1>2. q' \in [Queries -> Calls] /\ \A u \in Queries : q'[u] = IF u = t THEN r ELSE q[u]
  BY <1>1
<1>3. TypeOK'
  BY <1>2 DEF IInv, TypeOK, Only, passing, world, Calls
<1>4. PassOwns'
  BY DEF IInv, PassOwns, Only, passing
<1>5. CallsTracked'
  BY <1>2 DEF IInv, CallsTracked, Only
<1>6. QED BY <1>3, <1>4, <1>5 DEF IInv

-----------------------------------------------------------------------------
(* The types.                                                                *)

LEMMA InitIInv == Init => IInv
<1> SUFFICES ASSUME Init PROVE IInv
  OBVIOUS
<1>1. q \in [Queries -> Calls]
  BY IdleType DEF Init
<1>2. TypeOK
  <2>1. up \subseteq Hosts /\ tracked \subseteq Hosts
    BY HostsAssumption DEF Init
  <2>2. /\ tracked = Seeds /\ alive = {} /\ in_cluster = {} /\ discovered = FALSE /\ ready = FALSE
        /\ pass = [kind |-> "refresh", stage |-> "idle"]
        /\ todo = {} /\ pinging = {} /\ asked = NoHost /\ answer = {} /\ members \in Memberships
    BY DEF Init
  <2>3. pass \in [kind : Kinds, stage : Stages]
    BY <2>2 DEF Kinds, Stages
  <2>4. QED BY <1>1, <2>1, <2>2, <2>3 DEF TypeOK, Calls
<1>3. PassOwns /\ CallsTracked
  BY DEF Init, PassOwns, CallsTracked, Idle
<1>4. QED BY <1>2, <1>3 DEF IInv

\* A step of a discovery pass that leaves the queries and the cluster alone.
LEMMA StartsPass ==
    ASSUME IInv, NEW kind \in Kinds, StartPass(kind) PROVE IInv'
<1> USE DEF IInv, TypeOK, PassOwns, CallsTracked, pool, world, Kinds, Stages
<1>1. CASE kind = "rediscover" /\ alive = {}
  BY <1>1 DEF StartPass, Ask, Finish
<1>2. CASE kind = "rediscover" /\ alive # {}
  BY <1>2 DEF StartPass, Ask
<1>3. CASE kind # "rediscover"
  BY <1>3 DEF StartPass
<1>4. QED BY <1>1, <1>2, <1>3

LEMMA PassStep == ASSUME IInv, Pass PROVE IInv'
<1> USE DEF IInv, TypeOK, PassOwns, CallsTracked, pool, world, Kinds, Stages
<1>1. ASSUME NEW h \in Hosts, PingAnswered(h) \/ PingFails(h) PROVE IInv'
  BY <1>1 DEF PingAnswered, PingFails, PingOver
<1>2. ASSUME NEW h \in Hosts, AddMember(h) PROVE IInv'
  BY <1>2 DEF AddMember
<1>3. ASSUME NEW h \in Hosts, Reconcile(h) PROVE IInv'
  <2>1. CASE h \in answer \cup Seeds
    BY <1>3, <2>1 DEF Reconcile
  <2>2. CASE h \notin answer \cup Seeds
    <3>1. q \in [Queries -> Calls]
      BY DEF Calls
    <3>2. q' = [t \in Queries |-> [q[t] EXCEPT !.gone = @ \cup (q[t].left \cap {h})]]
      BY <1>3, <2>2 DEF Reconcile
    <3>3. ASSUME NEW t \in Queries
          PROVE  /\ q'[t] \in Calls /\ q'[t].left = q[t].left
                 /\ q'[t].gone = q[t].gone \cup (q[t].left \cap {h})
      <4>1. q[t] \in Calls
        BY <3>1
      <4>2. QED BY <4>1, <3>2 DEF Calls
    <3>4. q' \in [Queries -> Calls]
      BY <3>2, <3>3
    <3>5. CallsTracked'
      BY <1>3, <2>2, <3>3 DEF Reconcile
    <3>6. TypeOK'
      BY <1>3, <2>2, <3>4 DEF Reconcile, Calls
    <3>7. PassOwns'
      BY <1>3, <2>2 DEF Reconcile
    <3>8. QED BY <3>5, <3>6, <3>7
  <2>3. QED BY <2>1, <2>2
<1>4. CASE PingsDone
  <2>1. CASE pass.kind = "recheck" \/ alive = {}
    BY <1>4, <2>1 DEF PingsDone, Ask, Finish
  <2>2. CASE pass.kind # "recheck" /\ alive # {}
    BY <1>4, <2>2 DEF PingsDone, Ask
  <2>3. QED BY <2>1, <2>2
<1>5. CASE DiscoveryAnswered
  BY <1>5, HostsAssumption DEF DiscoveryAnswered, Told
<1>6. CASE DiscoveryFails
  BY <1>6 DEF DiscoveryFails, Finish
<1>7. CASE AddsDone
  BY <1>7 DEF AddsDone
<1>8. CASE PassDone
  BY <1>8 DEF PassDone, Finish
<1>9. QED
  BY <1>1, <1>2, <1>3, <1>4, <1>5, <1>6, <1>7, <1>8 DEF Pass

LEMMA CallStep == ASSUME IInv, NEW t \in Queries, Call(t) PROVE IInv'
<1>1. /\ q \in [Queries -> Calls] /\ alive \subseteq tracked /\ tracked \subseteq Hosts
      /\ q[t].left \ q[t].gone \subseteq tracked
  BY DEF IInv, TypeOK, Calls, CallsTracked
<1>2. q[t] \in Calls
  BY <1>1
<1>3. ASSUME NEW h, Answers(t, h) PROVE alive' \subseteq tracked
  BY <1>3, MarksPool DEF Answers, IInv
<1>4. ASSUME NEW h, Fails(t, h) PROVE alive' \subseteq tracked
  BY <1>4, MarksPool DEF Fails, IInv
<1>5. ASSUME NEW h, Refuses(t, h) PROVE alive' \subseteq tracked
  BY <1>1, <1>5 DEF Refuses
<1>6. ASSUME NEW h PROVE CallOver(t, h).left \ CallOver(t, h).gone \subseteq tracked
  BY <1>1, CallOverType
<1>7. ASSUME NEW h, NEW o \in Outcomes
      PROVE  /\ [CallOver(t, h) EXCEPT !.outcome = o] \in Calls
             /\ [CallOver(t, h) EXCEPT !.outcome = o].left = CallOver(t, h).left
             /\ [CallOver(t, h) EXCEPT !.outcome = o].gone = CallOver(t, h).gone
  <2>1. CallOver(t, h) \in Calls
    BY <1>1, CallOverType
  <2>2. QED BY <2>1 DEF Calls
<1>8. ASSUME NEW h \in Hosts, DataAnswered(t, h) PROVE IInv'
  <2> DEFINE r == [CallOver(t, h) EXCEPT !.outcome = "rows"]
  <2>1. r \in Calls /\ r.left \ r.gone \subseteq tracked
    BY <1>6, <1>7 DEF Outcomes
  <2>2. q' = [q EXCEPT ![t] = r] /\ Only /\ alive' \subseteq tracked
    BY <1>3, <1>8 DEF DataAnswered
  <2> HIDE DEF r
  <2>3. QED BY <2>1, <2>2, QueryStep
<1>9. ASSUME NEW h \in Hosts, DataRefused(t, h) \/ SystemRefused(t, h) PROVE IInv'
  <2> DEFINE r == [CallOver(t, h) EXCEPT !.outcome = "query_error"]
  <2>1. r \in Calls /\ r.left \ r.gone \subseteq tracked
    BY <1>6, <1>7 DEF Outcomes
  <2>2. q' = [q EXCEPT ![t] = r] /\ Only /\ alive' \subseteq tracked
    BY <1>5, <1>9 DEF DataRefused, SystemRefused
  <2> HIDE DEF r
  <2>3. QED BY <2>1, <2>2, QueryStep
<1>10. ASSUME NEW h \in Hosts, DataFailed(t, h) PROVE IInv'
  <2> DEFINE r == [CallOver(t, h) EXCEPT !.tried = @ \cup {h}]
  <2>1. /\ r \in Calls /\ r.left = CallOver(t, h).left /\ r.gone = CallOver(t, h).gone
    <3>1. CallOver(t, h) \in Calls
      BY <1>1, CallOverType
    <3>2. QED BY <3>1 DEF Calls
  <2>2. r.left \ r.gone \subseteq tracked
    BY <2>1, <1>6
  <2>3. q' = [q EXCEPT ![t] = r] /\ Only /\ alive' \subseteq tracked
    BY <1>4, <1>10 DEF DataFailed
  <2> HIDE DEF r
  <2>4. QED BY <2>1, <2>2, <2>3, QueryStep
<1>11. ASSUME NEW h \in Hosts, SystemAnswered(t, h) PROVE IInv'
  <2> DEFINE r == [CallOver(t, h) EXCEPT !.got = @ \cup {h}]
  <2>1. /\ r \in Calls /\ r.left = CallOver(t, h).left /\ r.gone = CallOver(t, h).gone
    <3>1. CallOver(t, h) \in Calls
      BY <1>1, CallOverType
    <3>2. QED BY <3>1 DEF Calls
  <2>2. r.left \ r.gone \subseteq tracked
    BY <2>1, <1>6
  <2>3. q' = [q EXCEPT ![t] = r] /\ Only /\ alive' \subseteq tracked
    BY <1>3, <1>11 DEF SystemAnswered
  <2> HIDE DEF r
  <2>4. QED BY <2>1, <2>2, <2>3, QueryStep
<1>12. ASSUME NEW h \in Hosts, SystemFailed(t, h) PROVE IInv'
  BY <1>1, <1>4, <1>6, <1>12, CallOverType, QueryStep DEF SystemFailed
<1>13. ASSUME SystemDone(t) \/ SystemReserved(t) PROVE IInv'
  <2>1. PICK r \in {[q[t] EXCEPT !.outcome = "rows",
                                 !.failed = (q[t].nodes \ q[t].got) \cup DownMembers],
                    [q[t] EXCEPT !.outcome = "query_error"]} :
           q' = [q EXCEPT ![t] = r]
    BY <1>1, <1>13 DEF SystemDone, SystemReserved
  <2>2. DownMembers \subseteq Hosts
    BY <1>1 DEF DownMembers
  <2>3. r \in Calls /\ r.left = q[t].left /\ r.gone = q[t].gone
    BY <1>2, <2>1, <2>2 DEF Calls, Outcomes
  <2>4. Only /\ alive' \subseteq tracked
    BY <1>1, <1>13 DEF SystemDone, SystemReserved
  <2>5. QED BY <1>1, <2>1, <2>3, <2>4, QueryStep
<1>14. ASSUME FailsOver(t) PROVE IInv'
  <2>1. PICK r \in {[q[t] EXCEPT !.outcome = "node_error"]} \cup Choice(q[t], alive \ q[t].tried) :
           q' = [q EXCEPT ![t] = r]
    BY <1>14 DEF FailsOver
  <2>2. r \in Calls /\ r.gone = q[t].gone /\ (r.left = q[t].left \/ r.left \subseteq alive)
    <3>1. CASE r = [q[t] EXCEPT !.outcome = "node_error"]
      BY <1>2, <3>1 DEF Calls, Outcomes
    <3>2. CASE r \in Choice(q[t], alive \ q[t].tried)
      BY <1>1, <1>2, <3>2, ChoiceType
    <3>3. QED BY <2>1, <3>1, <3>2
  <2>3. Only /\ alive' \subseteq tracked
    BY <1>1, <1>14 DEF FailsOver
  <2>4. QED BY <1>1, <2>1, <2>2, <2>3, QueryStep
<1>15. QED
  BY <1>8, <1>9, <1>10, <1>11, <1>12, <1>13, <1>14 DEF Call

LEMMA StartStep == ASSUME IInv, NEW t \in Queries, StartData(t) \/ StartSystem(t) PROVE IInv'
<1>1. alive \subseteq tracked /\ tracked \subseteq Hosts
  BY DEF IInv, TypeOK
<1>2. /\ Idle \in Calls /\ Idle.left = {} /\ Idle.gone = {}
  BY IdleType DEF Idle
<1>3. Only /\ alive' \subseteq tracked
  BY <1>1 DEF StartData, StartSystem
<1>4. CASE StartData(t)
  <2>1. PICK r \in Choice(Idle, alive) : q' = [q EXCEPT ![t] = r]
    BY <1>4 DEF StartData
  <2>2. r \in Calls /\ r.left \subseteq alive
    BY <1>1, <1>2, ChoiceType
  <2>3. QED BY <1>1, <1>3, <2>1, <2>2, QueryStep
<1>5. CASE StartSystem(t)
  <2>1. PICK r \in {[[Idle EXCEPT !.kind = "system"] EXCEPT !.outcome = "no_live"],
                    [[Idle EXCEPT !.kind = "system"] EXCEPT !.outcome = "running",
                                                            !.nodes = alive, !.left = alive]} :
           q' = [q EXCEPT ![t] = r]
    BY <1>5 DEF StartSystem
  <2>2. r \in Calls /\ r.left \subseteq alive
    BY <1>1, <1>2, <2>1 DEF Calls, Outcomes
  <2>3. QED BY <1>1, <1>3, <2>1, <2>2, QueryStep
<1>6. QED BY <1>4, <1>5

LEMMA StepIInv == IInv /\ [Next]_vars => IInv'
<1> SUFFICES ASSUME IInv, [Next]_vars PROVE IInv'
  OBVIOUS
<1>1. CASE UNCHANGED vars
  BY <1>1 DEF IInv, TypeOK, PassOwns, CallsTracked, vars, pool, passing, world
<1>2. CASE Moves \/ \E h \in Hosts : Changes(h)
  BY <1>2 DEF IInv, TypeOK, PassOwns, CallsTracked, Moves, Changes, pool, passing
<1>3. QED
  BY <1>1, <1>2, StartsPass, PassStep, StartStep, CallStep DEF Next, Step

-----------------------------------------------------------------------------
(* Failover and fan-out.                                                     *)

LEMMA Watched ==
    ASSUME Watching, NEW t \in Queries
    PROVE  /\ through'[t] = IF Running(t) THEN through[t] \cap alive' ELSE alive'
           /\ missing'[t] = IF Running(t) THEN missing[t] \cap DownMembers' ELSE DownMembers'
BY DEF Watching

\* A node that a call failed on is dead, or was removed while the query ran.
LEMMA FailedIsDead ==
    ASSUME QInv, NEW t \in Queries, NEW h, Running(t), Fails(t, h)
    PROVE  h \notin through[t] \cap alive'
<1>1. SoundData(q[t], through[t])
  BY DEF QInv, AllSound
<1>2. QED BY <1>1 DEF Fails, Marks, SoundData, Running

LEMMA StartSound ==
    ASSUME IInv, NEW t \in Queries, StartData(t) \/ StartSystem(t)
    PROVE  SoundData(q'[t], alive') /\ SoundFan(q'[t], alive', DownMembers')
<1>1. q \in [Queries -> Calls] /\ alive \subseteq Hosts /\ alive' = alive
  BY DEF IInv, TypeOK, Calls, StartData, StartSystem
<1>2. /\ Idle \in Calls /\ Idle.left = {} /\ Idle.gone = {} /\ Idle.tried = {}
      /\ Idle.kind = "data" /\ Idle.got = {}
  BY IdleType DEF Idle
<1>3. CASE StartData(t)
  <2>1. PICK r \in Choice(Idle, alive) : q'[t] = r
    BY <1>1, <1>3 DEF StartData
  <2>2. /\ r.tried = {} /\ r.gone = {} /\ r.kind = "data"
        /\ \/ r.left = {} /\ r.outcome # "running"
           \/ r.outcome = "running" /\ \E h : r.left = {h}
    <3>1. CASE alive = {}
      BY <1>2, <3>1, <2>1 DEF Choice, Calls
    <3>2. CASE alive # {}
      <4>1. PICK h \in alive : r = [Idle EXCEPT !.outcome = "running", !.left = {h}]
        BY <3>2, <2>1 DEF Choice
      <4>2. QED BY <1>2, <4>1 DEF Calls
    <3>3. QED BY <3>1, <3>2
  <2>3. \A h : r.left = {h} => Cardinality(r.tried \cup r.left) <= MaxFailovers + 1
    <3>1. ASSUME NEW h, r.left = {h}
          PROVE  Cardinality(r.tried \cup r.left) = 1
      BY <2>2, <3>1, FS_Singleton
    <3>2. 1 <= MaxFailovers + 1
      BY LimitsAssumption
    <3>3. QED BY <3>1, <3>2
  <2>4. QED BY <2>1, <2>2, <2>3 DEF SoundData, SoundFan
<1>4. CASE StartSystem(t)
  <2>1. /\ q'[t].kind = "system" /\ q'[t].tried = {} /\ q'[t].gone = {}
        /\ q'[t].outcome = "running" =>
              q'[t].nodes = alive /\ q'[t].left = alive /\ q'[t].got = {}
    BY <1>1, <1>2, <1>4 DEF StartSystem, Calls
  <2>2. DownMembers' \cap alive' = {}
    BY DEF DownMembers
  <2>3. QED BY <1>1, <2>1, <2>2 DEF SoundData, SoundFan
<1>5. QED BY <1>3, <1>4

\* What a failed attempt leaves: it tried what it tried or was trying.
LEMMA FailedSound ==
    ASSUME QInv, Watching, NEW t \in Queries, NEW h \in Hosts, DataFailed(t, h)
    PROVE  /\ SoundData(q'[t], through'[t]) /\ q'[t].kind = "data"
           /\ Cardinality(q'[t].tried \cup q'[t].left) <= MaxFailovers + 1
           /\ q'[t].outcome = "running"
<1>1. q \in [Queries -> Calls] /\ SoundData(q[t], through[t])
  BY DEF QInv, AllSound, IInv, TypeOK, Calls
<1>2. /\ q[t] \in Calls /\ q[t].kind = "data" /\ h \in q[t].left /\ Fails(t, h)
  BY <1>1 DEF DataFailed, Fails
<1>3. Running(t) /\ q[t].left = {h}
  BY <1>1, <1>2 DEF SoundData, Running, Calls
<1>4. /\ through[t] \cap (q[t].tried \cup q[t].gone) = {}
      /\ Cardinality(q[t].tried \cup q[t].left) <= MaxFailovers + 1
  BY <1>1, <1>2, <1>3 DEF SoundData, Running
<1>5. through'[t] \subseteq through[t] /\ h \notin through'[t]
  BY <1>2, <1>3, Watched, FailedIsDead
<1>6. /\ q'[t].tried = q[t].tried \cup {h} /\ q'[t].gone = q[t].gone \ {h}
      /\ q'[t].kind = "data" /\ q'[t].left = {} /\ q'[t].outcome = "running"
  <2>1. CallOver(t, h) \in Calls
    BY <1>1, CallOverType
  <2>2. q'[t] = [CallOver(t, h) EXCEPT !.tried = @ \cup {h}]
    BY <1>1 DEF DataFailed
  <2>3. /\ q'[t].tried = CallOver(t, h).tried \cup {h} /\ q'[t].gone = CallOver(t, h).gone
        /\ q'[t].kind = CallOver(t, h).kind /\ q'[t].left = CallOver(t, h).left
        /\ q'[t].outcome = CallOver(t, h).outcome
    BY <2>1, <2>2 DEF Calls
  <2>4. QED BY <1>1, <1>2, <1>3, <2>3, CallOverType DEF Running
<1>7. q'[t].tried \cup q'[t].left = q[t].tried \cup q[t].left
  BY <1>3, <1>6
<1>8. through'[t] \cap (q'[t].tried \cup q'[t].gone) = {}
  BY <1>4, <1>5, <1>6
<1>9. QED BY <1>4, <1>6, <1>7, <1>8 DEF SoundData

\* What a failover leaves, and when it fails the query.
LEMMA FailoverSound ==
    ASSUME QInv, Watching, NEW t \in Queries, FailsOver(t)
    PROVE  /\ SoundData(q'[t], through'[t]) /\ q'[t].kind = "data"
           /\ Cardinality(q'[t].tried \cup q'[t].left) <= MaxFailovers + 1
           /\ q'[t].outcome = "node_error" =>
                 through'[t] = {} \/ Cardinality(q'[t].tried) = MaxFailovers + 1
<1> DEFINE r == q[t]
<1>1. q \in [Queries -> Calls] /\ SoundData(r, through[t])
  BY DEF QInv, AllSound, IInv, TypeOK, Calls
<1>2. /\ r \in Calls /\ r.kind = "data" /\ r.outcome = "running" /\ r.left = {} /\ Running(t)
      /\ alive' = alive
  BY <1>1 DEF FailsOver, Closed, Running
<1>3. through'[t] \subseteq alive /\ through'[t] \cap (r.tried \cup r.gone) = {}
  BY <1>1, <1>2, Watched DEF SoundData
<1>4. r.tried \cup r.left = r.tried
  BY <1>2
<1>5. /\ Cardinality(r.tried) \in Nat /\ Cardinality(r.tried) <= MaxFailovers + 1
      /\ IsFiniteSet(r.tried)
  <2>1. IsFiniteSet(r.tried)
    BY <1>2, HostsAssumption, FS_Subset DEF Calls
  <2>2. QED BY <1>1, <1>2, <1>4, <2>1, FS_CardinalityType DEF SoundData
<1>6. \/ /\ Cardinality(r.tried) > MaxFailovers
         /\ q'[t] = [r EXCEPT !.outcome = "node_error"]
      \/ /\ ~(Cardinality(r.tried) > MaxFailovers)
         /\ q'[t] \in Choice(r, alive \ r.tried)
  BY <1>1 DEF FailsOver
<1> HIDE DEF r
<1>7. CASE Cardinality(r.tried) > MaxFailovers
  <2>1. /\ q'[t].kind = "data" /\ q'[t].left = {} /\ q'[t].outcome = "node_error"
        /\ q'[t].tried = r.tried
    BY <1>2, <1>6, <1>7 DEF Calls
  <2>2. Cardinality(r.tried) = MaxFailovers + 1
    BY <1>5, <1>7, LimitsAssumption
  <2>3. q'[t].tried \cup q'[t].left = r.tried
    BY <2>1
  <2>4. QED BY <1>5, <2>1, <2>2, <2>3 DEF SoundData
<1>8. CASE ~(Cardinality(r.tried) > MaxFailovers)
  <2>1. CASE alive \ r.tried = {}
    <3>1. q'[t] = [r EXCEPT !.outcome = IF r.tried = {} THEN "no_live" ELSE "node_error"]
      BY <1>6, <1>8, <2>1 DEF Choice
    <3>2. /\ q'[t].kind = "data" /\ q'[t].left = {} /\ q'[t].outcome # "running"
          /\ q'[t].tried = r.tried
      BY <1>2, <3>1 DEF Calls
    <3>3. through'[t] = {} /\ q'[t].tried \cup q'[t].left = r.tried
      BY <1>3, <2>1, <3>2
    <3>4. QED BY <1>5, <3>2, <3>3 DEF SoundData
  <2>2. CASE alive \ r.tried # {}
    <3>1. PICK x \in alive \ r.tried : q'[t] = [r EXCEPT !.outcome = "running", !.left = {x}]
      BY <1>6, <1>8, <2>2 DEF Choice
    <3>2. /\ q'[t].kind = "data" /\ q'[t].left = {x} /\ q'[t].outcome = "running"
          /\ q'[t].tried = r.tried /\ q'[t].gone = r.gone
      BY <1>2, <3>1 DEF Calls
    <3>3. Cardinality(r.tried \cup {x}) = Cardinality(r.tried) + 1
      BY <1>5, <3>1, FS_AddElement
    <3>4. Cardinality(q'[t].tried \cup q'[t].left) <= MaxFailovers + 1
      <4>1. Cardinality(r.tried) + 1 <= MaxFailovers + 1
        BY <1>5, <1>8, LimitsAssumption
      <4>2. QED BY <3>2, <3>3, <4>1
    <3>5. QED BY <1>3, <3>2, <3>4 DEF SoundData
  <2>3. QED BY <2>1, <2>2
<1>9. QED BY <1>7, <1>8

\* A call that ends a data query leaves what it tried.
LEMMA DataEndSound ==
    ASSUME QInv, NEW t \in Queries, NEW h \in Hosts, NEW live,
           DataAnswered(t, h) \/ DataRefused(t, h)
    PROVE  /\ SoundData(q'[t], live) /\ q'[t].kind = "data"
           /\ Cardinality(q'[t].tried \cup q'[t].left) <= MaxFailovers + 1
           /\ q'[t].outcome \in {"rows", "query_error"}
<1>1. q \in [Queries -> Calls] /\ SoundData(q[t], through[t])
  BY DEF QInv, AllSound, IInv, TypeOK, Calls
<1>2. /\ q[t] \in Calls /\ q[t].kind = "data" /\ h \in q[t].left
  BY <1>1 DEF DataAnswered, DataRefused, Answers, Refuses
<1>3. /\ q[t].outcome = "running" /\ q[t].left = {h}
      /\ Cardinality(q[t].tried \cup {h}) <= MaxFailovers + 1
  BY <1>1, <1>2 DEF SoundData
<1>4. PICK o \in {"rows", "query_error"} : q'[t] = [CallOver(t, h) EXCEPT !.outcome = o]
  BY <1>1 DEF DataAnswered, DataRefused
<1>5. /\ q'[t].kind = "data" /\ q'[t].left = {} /\ q'[t].tried = q[t].tried
      /\ q'[t].outcome = o
  <2>1. CallOver(t, h) \in Calls
    BY <1>1, CallOverType
  <2>2. /\ q'[t].kind = CallOver(t, h).kind /\ q'[t].left = CallOver(t, h).left
        /\ q'[t].tried = CallOver(t, h).tried /\ q'[t].outcome = o
    BY <1>4, <2>1 DEF Calls
  <2>3. QED BY <1>1, <1>2, <1>3, <2>2, CallOverType
<1>6. Cardinality(q[t].tried) <= MaxFailovers + 1
  <2>1. IsFiniteSet(q[t].tried \cup {h})
    BY <1>2, HostsAssumption, FS_Subset DEF Calls
  <2>2. /\ Cardinality(q[t].tried) <= Cardinality(q[t].tried \cup {h})
        /\ Cardinality(q[t].tried) \in Nat /\ Cardinality(q[t].tried \cup {h}) \in Nat
    <3>1. IsFiniteSet(q[t].tried)
      BY <1>2, HostsAssumption, FS_Subset DEF Calls
    <3>2. QED BY <2>1, <3>1, FS_Subset, FS_CardinalityType
  <2>3. \A m, n \in Nat : m <= n /\ n <= MaxFailovers + 1 => m <= MaxFailovers + 1
    BY LimitsAssumption
  <2>4. QED BY <1>3, <2>2, <2>3
<1>7. q'[t].tried \cup q'[t].left = q[t].tried
  BY <1>5
<1>8. QED BY <1>5, <1>6, <1>7 DEF SoundData

\* A call of a fan-out that goes on: its node has answered or is dead.
LEMMA FanSound ==
    ASSUME QInv, Watching, NEW t \in Queries, NEW h \in Hosts,
           SystemAnswered(t, h) \/ SystemFailed(t, h)
    PROVE  /\ SoundData(q'[t], through'[t]) /\ SoundFan(q'[t], through'[t], missing'[t])
           /\ q'[t].kind = "system" /\ q'[t].outcome = q[t].outcome
<1>1. /\ q \in [Queries -> Calls] /\ SoundData(q[t], through[t])
      /\ SoundFan(q[t], through[t], missing[t])
  BY DEF QInv, AllSound, IInv, TypeOK, Calls
<1>2. q[t].kind = "system" /\ h \in q[t].left
  BY DEF SystemAnswered, SystemFailed, Answers, Fails
<1>3. \/ q'[t] = [CallOver(t, h) EXCEPT !.got = @ \cup {h}] /\ SystemAnswered(t, h)
      \/ q'[t] = CallOver(t, h) /\ SystemFailed(t, h)
  BY <1>1 DEF SystemAnswered, SystemFailed
<1>4. /\ q'[t].kind = "system" /\ q'[t].outcome = q[t].outcome
      /\ q'[t].tried = q[t].tried /\ q'[t].gone = q[t].gone \ {h}
      /\ q'[t].left = q[t].left \ {h} /\ q'[t].nodes = q[t].nodes
      /\ \/ q'[t].got = q[t].got \cup {h}
         \/ q'[t].got = q[t].got /\ SystemFailed(t, h)
  <2>1. /\ CallOver(t, h) \in Calls
        /\ CallOver(t, h).nodes = q[t].nodes /\ CallOver(t, h).got = q[t].got
    <3>1. q[t] \in Calls
      BY <1>1
    <3>2. CallOver(t, h).nodes = q[t].nodes /\ CallOver(t, h).got = q[t].got
      BY <3>1 DEF CallOver, Calls
    <3>3. QED BY <1>1, <3>2, CallOverType
  <2>2. /\ q'[t].kind = CallOver(t, h).kind /\ q'[t].outcome = CallOver(t, h).outcome
        /\ q'[t].tried = CallOver(t, h).tried /\ q'[t].gone = CallOver(t, h).gone
        /\ q'[t].left = CallOver(t, h).left /\ q'[t].nodes = CallOver(t, h).nodes
        /\ \/ q'[t].got = CallOver(t, h).got \cup {h}
           \/ q'[t].got = CallOver(t, h).got /\ SystemFailed(t, h)
    BY <1>3, <2>1 DEF Calls
  <2>3. QED BY <1>1, <1>2, <2>1, <2>2, CallOverType
<1>5. CASE ~Running(t)
  BY <1>4, <1>5 DEF SoundData, SoundFan, Running
<1>6. CASE Running(t)
  <2>1. through'[t] = through[t] \cap alive' /\ missing'[t] \subseteq missing[t]
    BY <1>6, Watched
  <2>2. SystemFailed(t, h) => h \notin through'[t]
    BY <1>6, <2>1, FailedIsDead DEF SystemFailed
  <2>3. /\ q[t].left \cup q[t].got \subseteq q[t].nodes
        /\ through[t] \subseteq q[t].left \cup q[t].got
        /\ missing[t] \cap q[t].nodes = {}
    BY <1>1, <1>2, <1>6 DEF SoundFan, Running
  <2>4. SoundFan(q'[t], through'[t], missing'[t])
    BY <1>2, <1>4, <2>1, <2>2, <2>3 DEF SoundFan
  <2>5. SoundData(q'[t], through'[t])
    BY <1>1, <1>4, <1>6, <2>1 DEF SoundData, Running
  <2>6. QED BY <1>4, <2>4, <2>5
<1>7. QED BY <1>5, <1>6

\* The end of a fan-out: what it says of the nodes that stayed as they were.
LEMMA FanEnds ==
    ASSUME QInv, Watching, NEW t \in Queries,
           SystemDone(t) \/ SystemReserved(t) \/ \E h \in Hosts : SystemRefused(t, h)
    PROVE  /\ q'[t].kind = "system" /\ q'[t].outcome \in {"rows", "query_error"}
           /\ q'[t].outcome = "rows" =>
                 /\ through'[t] \subseteq q'[t].got \ q'[t].failed
                 /\ missing'[t] \subseteq q'[t].failed \ q'[t].got
<1>1. q \in [Queries -> Calls] /\ SoundFan(q[t], through[t], missing[t])
  BY DEF QInv, AllSound, IInv, TypeOK, Calls
<1>2. q[t] \in Calls
  BY <1>1
<1>3. CASE SystemDone(t)
  <2>1. Running(t) /\ q[t].kind = "system" /\ q[t].left = {} /\ alive' = alive
    BY <1>3 DEF SystemDone
  <2>2. /\ q'[t].failed = (q[t].nodes \ q[t].got) \cup DownMembers /\ q'[t].got = q[t].got
        /\ q'[t].kind = "system" /\ q'[t].outcome = "rows"
    <3>1. q'[t] = [q[t] EXCEPT !.outcome = "rows",
                               !.failed = (q[t].nodes \ q[t].got) \cup DownMembers]
      BY <1>1, <1>3 DEF SystemDone
    <3>2. QED BY <1>2, <2>1, <3>1 DEF Calls
  <2>3. DownMembers' = DownMembers /\ DownMembers \cap alive = {}
    BY <1>3 DEF SystemDone, Only, DownMembers
  <2>4. /\ through'[t] = through[t] \cap alive
        /\ missing'[t] = missing[t] \cap DownMembers
    BY <2>1, <2>3, Watched
  <2>5. /\ q[t].got \subseteq q[t].nodes /\ through[t] \subseteq q[t].got
        /\ missing[t] \cap q[t].nodes = {}
    BY <1>1, <2>1 DEF SoundFan, Running
  <2>6. QED BY <2>2, <2>3, <2>4, <2>5
<1>4. CASE SystemReserved(t)
  BY <1>1, <1>2, <1>4 DEF SystemReserved, Calls
<1>5. CASE \E h \in Hosts : SystemRefused(t, h)
  <2>1. PICK h \in Hosts : SystemRefused(t, h)
    BY <1>5
  <2>2. /\ CallOver(t, h) \in Calls /\ CallOver(t, h).kind = "system"
        /\ q'[t] = [CallOver(t, h) EXCEPT !.outcome = "query_error"]
    BY <1>1, <2>1, CallOverType DEF SystemRefused
  <2>3. QED BY <2>2 DEF Calls
<1>6. QED BY <1>3, <1>4, <1>5

\* Whoever takes a step, a query that is not his goes on as it was, or a node of it is
\* removed from the pool.
LEMMA OthersKeep ==
    ASSUME IInv, NEW t \in Queries, Step, ~(StartData(t) \/ StartSystem(t) \/ Call(t))
    PROVE  /\ q'[t].kind = q[t].kind /\ q'[t].outcome = q[t].outcome
           /\ q'[t].left = q[t].left /\ q'[t].tried = q[t].tried
           /\ q'[t].nodes = q[t].nodes /\ q'[t].got = q[t].got
           /\ q'[t].gone \cap alive' \subseteq q[t].gone
<1>1. q \in [Queries -> Calls] /\ q[t] \in Calls
  BY DEF IInv, TypeOK, Calls
<1>2. CASE q'[t] = q[t]
  BY <1>2
<1>3. ASSUME NEW h \in Hosts, Reconcile(h), q'[t] # q[t]
      PROVE  /\ q'[t].kind = q[t].kind /\ q'[t].outcome = q[t].outcome
             /\ q'[t].left = q[t].left /\ q'[t].tried = q[t].tried
             /\ q'[t].nodes = q[t].nodes /\ q'[t].got = q[t].got
             /\ q'[t].gone \cap alive' \subseteq q[t].gone
  <2>1. /\ q' = [u \in Queries |-> [q[u] EXCEPT !.gone = @ \cup (q[u].left \cap {h})]]
        /\ h \notin alive'
    BY <1>3 DEF Reconcile
  <2>2. QED BY <1>1, <2>1 DEF Calls
<1>4. ASSUME NEW u \in Queries, u # t, StartData(u) \/ StartSystem(u) \/ Call(u)
      PROVE  q'[t] = q[t]
  BY <1>1, <1>4 DEF StartData, StartSystem, Call, DataAnswered, DataRefused, DataFailed, FailsOver,
     SystemAnswered, SystemRefused, SystemFailed, SystemDone, SystemReserved
<1>5. ASSUME ~(\E h \in Hosts : Reconcile(h)), Pass \/ \E kind \in Kinds : StartPass(kind)
      PROVE  q' = q
  BY <1>5 DEF Pass, PingAnswered, PingFails, PingOver, AddMember, PingsDone, DiscoveryAnswered,
     DiscoveryFails, AddsDone, PassDone, StartPass
<1>6. Moves \/ (\E h \in Hosts : Changes(h)) => q' = q
  BY DEF Moves, Changes
<1>7. QED BY <1>2, <1>3, <1>4, <1>5, <1>6 DEF Step

LEMMA OthersSound ==
    ASSUME QInv, Watching, NEW t \in Queries, Step,
           ~(StartData(t) \/ StartSystem(t) \/ Call(t))
    PROVE  SoundData(q'[t], through'[t]) /\ SoundFan(q'[t], through'[t], missing'[t])
<1>1. /\ SoundData(q[t], through[t]) /\ SoundFan(q[t], through[t], missing[t]) /\ IInv
  BY DEF QInv, AllSound
<1>2. Running(t) => /\ through'[t] = through[t] \cap alive'
                    /\ missing'[t] \subseteq missing[t]
  BY Watched
<1>3. SoundData(q'[t], through'[t])
  BY <1>1, <1>2, OthersKeep DEF SoundData, Running
<1>4. SoundFan(q'[t], through'[t], missing'[t])
  BY <1>1, <1>2, OthersKeep DEF SoundFan, Running
<1>5. QED BY <1>3, <1>4

\* One step of one query, whoever takes it.
LEMMA QuerySound ==
    ASSUME QInv, Next, NEW t \in Queries
    PROVE  /\ SoundData(q'[t], through'[t]) /\ SoundFan(q'[t], through'[t], missing'[t])
           /\ Running(t) /\ q[t].kind = "data" =>
                /\ Cardinality(q'[t].tried \cup q'[t].left) <= MaxFailovers + 1
                /\ q'[t].outcome = "node_error" =>
                      through'[t] = {} \/ Cardinality(q'[t].tried) = MaxFailovers + 1
           /\ Running(t) /\ q[t].kind = "system" /\ q'[t].outcome = "rows" =>
                /\ through'[t] \subseteq q'[t].got \ q'[t].failed
                /\ missing'[t] \subseteq q'[t].failed \ q'[t].got
<1>1. IInv /\ Step /\ Watching
  BY DEF QInv, Next
<1>2. CASE StartData(t) \/ StartSystem(t)
  <2>1. ~Running(t)
    BY <1>2 DEF StartData, StartSystem, Free
  <2>2. through'[t] = alive' /\ missing'[t] = DownMembers'
    BY <1>1, <2>1, Watched
  <2>3. SoundData(q'[t], alive') /\ SoundFan(q'[t], alive', DownMembers')
    BY <1>1, <1>2, StartSound
  <2>4. QED BY <2>1, <2>2, <2>3
<1>3. CASE \E h \in Hosts : DataAnswered(t, h) \/ DataRefused(t, h)
  <2>1. q[t].kind = "data"
    BY <1>3 DEF DataAnswered, DataRefused
  <2>2. QED BY <1>3, <2>1, DataEndSound DEF SoundFan
<1>4. CASE \E h \in Hosts : DataFailed(t, h)
  <2>1. q[t].kind = "data"
    BY <1>4 DEF DataFailed
  <2>2. QED BY <1>1, <1>4, <2>1, FailedSound DEF SoundFan
<1>5. CASE FailsOver(t)
  <2>1. q[t].kind = "data"
    BY <1>5 DEF FailsOver, Closed
  <2>2. QED BY <1>1, <1>5, <2>1, FailoverSound DEF SoundFan
<1>6. CASE \E h \in Hosts : SystemAnswered(t, h) \/ SystemFailed(t, h)
  <2>1. q[t].kind = "system"
    BY <1>6 DEF SystemAnswered, SystemFailed
  <2>2. Running(t) => q'[t].outcome # "rows"
    BY <1>1, <1>6, FanSound DEF Running
  <2>3. QED BY <1>1, <1>6, <2>1, <2>2, FanSound
<1>7. CASE SystemDone(t) \/ SystemReserved(t) \/ \E h \in Hosts : SystemRefused(t, h)
  <2>1. q[t].kind = "system"
    BY <1>7 DEF SystemDone, SystemReserved, SystemRefused
  <2>2. QED BY <1>1, <1>7, <2>1, FanEnds DEF SoundData, SoundFan
<1>8. CASE ~(StartData(t) \/ StartSystem(t) \/ Call(t))
  <2>1. SoundData(q'[t], through'[t]) /\ SoundFan(q'[t], through'[t], missing'[t])
    BY <1>1, <1>8, OthersSound
  <2>2. q'[t].kind = q[t].kind /\ q'[t].outcome = q[t].outcome
    BY <1>1, <1>8, OthersKeep
  <2>3. QED BY <2>1, <2>2, OthersKeep, <1>1, <1>8 DEF SoundData, Running
<1>9. QED BY <1>2, <1>3, <1>4, <1>5, <1>6, <1>7, <1>8 DEF Call

LEMMA InitQInv == Init => QInv
<1> SUFFICES ASSUME Init PROVE QInv
  OBVIOUS
<1>1. IInv
  BY InitIInv
<1>2. AllSound
  BY DEF Init, AllSound, SoundData, SoundFan, Idle
<1>3. QED BY <1>1, <1>2 DEF QInv

LEMMA StepQInv == QInv /\ [Next]_vars => QInv'
<1> SUFFICES ASSUME QInv, [Next]_vars PROVE QInv'
  OBVIOUS
<1>1. IInv'
  BY StepIInv DEF QInv
<1>2. CASE Next
  BY <1>1, <1>2, QuerySound DEF QInv, AllSound
<1>3. CASE UNCHANGED vars
  <2>1. q' = q /\ through' = through /\ missing' = missing
    BY <1>3 DEF vars, watched
  <2>2. QED BY <1>1, <2>1 DEF QInv, AllSound
<1>4. QED BY <1>2, <1>3

-----------------------------------------------------------------------------
(* The theorems.                                                             *)

\* The pool holds the seeds and nodes of known hosts, only nodes of the pool are alive or
\* members, and a call marks none that was removed from it meanwhile.
THEOREM TypesHold == Spec => []TypeOK
<1>1. IInv => TypeOK
  BY DEF IInv
<1>2. QED
  BY InitIInv, StepIInv, <1>1, PTL DEF Spec

\* execute_data_query: a query makes no more attempts than its failovers allow, and gives
\* up for want of nodes only when it made them all or no node was alive all the time it
\* ran, however the passes changed the pool meanwhile.
THEOREM FailoverIsExact == Spec => FailoverExact
<1>1. QInv /\ [Next]_vars =>
        [\A t \in Queries : Running(t) /\ q[t].kind = "data" =>
            /\ Cardinality(q'[t].tried \cup q'[t].left) <= MaxFailovers + 1
            /\ q'[t].outcome = "node_error" =>
                  through'[t] = {} \/ Cardinality(q'[t].tried) = MaxFailovers + 1]_vars
  BY QuerySound
<1>2. QED
  BY InitQInv, StepQInv, <1>1, PTL DEF Spec, FailoverExact

\* execute_system_query: whatever fails, joins, leaves or comes back while it fans out,
\* the result has the rows of every node alive all the time and reports every expected
\* one that was down all the time.
THEOREM FanOutIsTruthful == Spec => FanOutTruthful
<1>1. QInv /\ [Next]_vars =>
        [\A t \in Queries : Running(t) /\ q[t].kind = "system" /\ q'[t].outcome = "rows" =>
            /\ through'[t] \subseteq q'[t].got \ q'[t].failed
            /\ missing'[t] \subseteq q'[t].failed \ q'[t].got]_vars
  BY QuerySound
<1>2. QED
  BY InitQInv, StepQInv, <1>1, PTL DEF Spec, FanOutTruthful
=============================================================================

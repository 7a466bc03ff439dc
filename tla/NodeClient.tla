----------------------------- MODULE NodeClient -----------------------------
(***************************************************************************)
(* One cluster node as the operator sees it (clickhouse/node.py): the      *)
(* client it creates lazily, shares among all its users, drops when it     *)
(* fails and closes, and its belief in the node's liveness.                *)
(*                                                                         *)
(* Users are asyncio tasks that interleave at awaits only: for the lock,   *)
(* the factory, the client's call and the client's close.  Callers run     *)
(* query(); the keeper, which holds the connection's discovery lock, runs  *)
(* ping(), close() and the discovery query one after the other, so a node  *)
(* has one keeper.  Sessions stand for the driver's clients; what the      *)
(* driver does is external, read off how the code uses it.                 *)
(***************************************************************************)
EXTENDS Naturals

CONSTANTS
    Callers,     \* tasks that query the node
    Keeper,      \* the task that holds the discovery lock
    Sessions,    \* the driver's client objects, numbered
    Nobody,      \* the client lock is free
    PingRaises,  \* the driver's ping() raises when the server is unreachable
    Shuts        \* the connection may be closed: deleted or rebuilt

Tasks == Callers \cup {Keeper}
NoSession == 0  \* `_client` is None

ASSUME TasksAssumption == Keeper \notin Callers /\ Nobody \notin Tasks
ASSUME SessionsAssumption == Sessions \subseteq Nat \ {0}
ASSUME SwitchesAssumption == PingRaises \in BOOLEAN /\ Shuts \in BOOLEAN

VARIABLES
    client,   \* self._client
    alive,    \* self.alive
    lock,     \* holder of _client_lock
    pc,       \* the await each task is at
    pinging,  \* the keeper is in ping(), not in query() or close()
    mine,     \* the client object it has in hand
    session,  \* "free", "good", or "broken" by an outage, per session
    up,       \* the server is reachable
    shut,     \* ClickHouseConnection.close has been called
    passive   \* liveness_mode = "passive", fixed by the connection's spec

vars == << client, alive, lock, pc, pinging, mine, session, up, shut, passive >>

Points == {"idle", "picked", "wait", "connect", "call", "drop", "closing"}

Init ==
    /\ client = NoSession
    /\ alive = FALSE
    /\ lock = Nobody
    /\ pc = [t \in Tasks |-> "idle"]
    /\ pinging = FALSE
    /\ mine = [t \in Tasks |-> NoSession]
    /\ session = [s \in Sessions |-> "free"]
    /\ up \in BOOLEAN
    /\ shut = FALSE
    /\ passive \in BOOLEAN

Open(s) == session[s] # "free"
Works(s) == s # NoSession /\ session[s] = "good" /\ up

To(t, point, s) == pc' = [pc EXCEPT ![t] = point] /\ mine' = [mine EXCEPT ![t] = s]
End(t) == To(t, "idle", NoSession)

\* The call a task is at is the client's ping.
Pings(t) == t = Keeper /\ pinging

\* A new driver object: the first that neither the node nor a task refers to stands
\* for any other.
Unused(s) == s # client /\ \A t \in Tasks : mine[t] # s
New(s) == Unused(s) /\ \A r \in Sessions : Unused(r) => s <= r

-----------------------------------------------------------------------------
(* _ensure_client, up to its first await.  An asyncio lock is granted in     *)
(* order, so a newcomer queues behind those that wait.                       *)
Ensure(t) ==
    IF client # NoSession
    THEN To(t, "call", client) /\ UNCHANGED lock
    ELSE IF lock = Nobody /\ \A u \in Tasks : pc[u] # "wait"
         THEN lock' = t /\ To(t, "connect", NoSession)
         ELSE To(t, "wait", NoSession) /\ UNCHANGED lock

-----------------------------------------------------------------------------
(* Wrong variants of the actions below, put in their place to see the        *)
(* properties fail.                                                          *)

Granted_NoRecheck(t) ==          \* connects without another look at the client
    /\ pc[t] = "wait" /\ lock = Nobody
    /\ lock' = t /\ To(t, "connect", NoSession)
    /\ UNCHANGED << client, alive, pinging, session, up, shut, passive >>
StartPing_DeadOnly(t) ==         \* only dead nodes are pinged, whatever the mode
    /\ t = Keeper /\ pc[t] = "idle" /\ ~shut /\ ~alive
    /\ pinging' = TRUE
    /\ Ensure(t)
    /\ UNCHANGED << client, alive, session, up, shut, passive >>
ConnectFails_KeepsLock(t) ==     \* the lock is not released when the factory raises
    /\ pc[t] = "connect" /\ ~up
    /\ alive' = FALSE
    /\ End(t)
    /\ UNCHANGED << client, lock, pinging, session, up, shut, passive >>
CallFails_KeepsClient(t) ==      \* a failed client is not dropped
    /\ pc[t] = "call" /\ ~Works(mine[t])
    /\ Pings(t) => PingRaises
    /\ alive' = FALSE
    /\ End(t)
    /\ UNCHANGED << client, lock, pinging, session, up, shut, passive >>
CallFails_NeverCloses(t) ==      \* a failed client is dropped but not closed
    /\ pc[t] = "call" /\ ~Works(mine[t])
    /\ Pings(t) => PingRaises
    /\ alive' = FALSE
    /\ client' = NoSession
    /\ End(t)
    /\ UNCHANGED << lock, pinging, session, up, shut, passive >>
CloseStarts_NoCheck(t) ==        \* closes without looking whether there is a client
    /\ t = Keeper /\ pc[t] = "idle" /\ ~shut
    /\ \/ passive /\ alive /\ shut' = shut
       \/ Shuts /\ shut' = TRUE
    /\ pinging' = FALSE
    /\ To(t, "closing", client)
    /\ UNCHANGED << client, alive, lock, session, up, passive >>

\* all_live() or pick_one_live() chose the node; the query starts now or, in a
\* fan-out, when the loop gets to its task.
Pick(t) ==
    /\ t \in Callers /\ pc[t] = "idle" /\ alive
    /\ To(t, "picked", NoSession)
    /\ UNCHANGED << client, alive, lock, pinging, session, up, shut, passive >>

StartQuery(t) ==
    /\ pc[t] = "picked"
    /\ Ensure(t)
    /\ UNCHANGED << client, alive, pinging, session, up, shut, passive >>

\* check_all pings every node, recheck_dead the dead ones.
StartPing(t) ==
    /\ t = Keeper /\ pc[t] = "idle" /\ ~shut
    /\ passive => ~alive
    /\ pinging' = TRUE
    /\ Ensure(t)
    /\ UNCHANGED << client, alive, session, up, shut, passive >>

\* refresh_topology asks one live node.
StartDiscovery(t) ==
    /\ t = Keeper /\ pc[t] = "idle" /\ ~shut /\ alive
    /\ pinging' = FALSE
    /\ Ensure(t)
    /\ UNCHANGED << client, alive, session, up, shut, passive >>

\* The lock is free again: look at the client once more before connecting.
Granted(t) ==
    /\ pc[t] = "wait" /\ lock = Nobody
    /\ IF client # NoSession
       THEN To(t, "call", client) /\ UNCHANGED lock
       ELSE lock' = t /\ To(t, "connect", NoSession)
    /\ UNCHANGED << client, alive, pinging, session, up, shut, passive >>

Connected(t, s) ==
    /\ pc[t] = "connect" /\ up
    /\ New(s)
    /\ session' = [session EXCEPT ![s] = "good"]
    /\ client' = s
    /\ lock' = Nobody
    /\ To(t, "call", s)
    /\ UNCHANGED << alive, pinging, up, shut, passive >>

\* The factory raised: the node is down, and there is no client to drop.
ConnectFails(t) ==
    /\ pc[t] = "connect" /\ ~up
    /\ alive' = FALSE
    /\ lock' = Nobody
    /\ End(t)
    /\ UNCHANGED << client, pinging, session, up, shut, passive >>

-----------------------------------------------------------------------------
(* The call itself.                                                          *)

\* A pooled connection that an outage broke may satisfy a ping but not a query.
\* Where the driver's ping() does not raise, its result is ignored.
CallSucceeds(t) ==
    /\ pc[t] = "call"
    /\ \/ Works(mine[t])
       \/ Pings(t) /\ (PingRaises => up /\ session[mine[t]] = "broken")
    /\ alive' = TRUE
    /\ End(t)
    /\ UNCHANGED << client, lock, pinging, session, up, shut, passive >>

\* NodeQueryError, or the driver's complaint about a client closed meanwhile.
CallErrs(t) ==
    /\ pc[t] = "call" /\ ~Pings(t)
    /\ Works(mine[t]) \/ ~Open(mine[t])
    /\ End(t)
    /\ UNCHANGED << client, alive, lock, pinging, session, up, shut, passive >>

\* _mark_down, then _drop_client: whatever the node's client is by now is
\* discarded and closed.
CallFails(t) ==
    /\ pc[t] = "call" /\ ~Works(mine[t])
    /\ Pings(t) => PingRaises
    /\ alive' = FALSE
    /\ client' = NoSession
    /\ IF client = NoSession THEN End(t) ELSE To(t, "drop", client)
    /\ UNCHANGED << lock, pinging, session, up, shut, passive >>

Dropped(t) ==
    /\ pc[t] = "drop"
    /\ session' = [session EXCEPT ![mine[t]] = "free"]
    /\ End(t)
    /\ UNCHANGED << client, alive, lock, pinging, up, shut, passive >>

-----------------------------------------------------------------------------
(* close(): idle eviction in passive mode, and the end of the connection.    *)

\* A node without a client has nothing to close.
CloseStarts(t) ==
    /\ t = Keeper /\ pc[t] = "idle" /\ ~shut
    /\ \/ passive /\ alive /\ client # NoSession /\ shut' = shut
       \/ Shuts /\ shut' = TRUE
    /\ pinging' = FALSE
    /\ IF client = NoSession THEN End(t) ELSE To(t, "closing", client)
    /\ UNCHANGED << client, alive, lock, session, up, passive >>

\* `_client` is cleared after the await, whatever it is by then.
CloseEnds(t) ==
    /\ pc[t] = "closing"
    /\ session' = [session EXCEPT ![mine[t]] = "free"]
    /\ client' = NoSession
    /\ End(t)
    /\ UNCHANGED << alive, lock, pinging, up, shut, passive >>

-----------------------------------------------------------------------------
(* The server.                                                               *)

Outage ==
    /\ up
    /\ up' = FALSE
    /\ session' = [s \in Sessions |-> IF session[s] = "good" THEN "broken" ELSE session[s]]
    /\ UNCHANGED << client, alive, lock, pc, pinging, mine, shut, passive >>

Restored ==
    /\ ~up
    /\ up' = TRUE
    /\ UNCHANGED << client, alive, lock, pc, pinging, mine, session, shut, passive >>

-----------------------------------------------------------------------------
Starts(t) == Pick(t) \/ StartDiscovery(t) \/ CloseStarts(t)

\* What the event loop or the driver brings to its end.
Proceeds(t) ==
    \/ StartQuery(t) \/ Granted(t) \/ ConnectFails(t)
    \/ \E s \in Sessions : Connected(t, s)
    \/ CallSucceeds(t) \/ CallErrs(t) \/ CallFails(t)
    \/ Dropped(t) \/ CloseEnds(t)

Next == Outage \/ Restored \/ \E t \in Tasks : Starts(t) \/ StartPing(t) \/ Proceeds(t)

Spec == Init /\ [][Next]_vars

\* Tasks proceed (the driver has timeouts), the lock is fair, and the recheck
\* timer pings again and again.
Fairness == /\ \A t \in Tasks : WF_vars(Proceeds(t)) /\ SF_vars(Granted(t))
            /\ SF_vars(StartPing(Keeper))

FairSpec == Spec /\ Fairness

-----------------------------------------------------------------------------
(* Properties.                                                               *)

TypeOK ==
    /\ client \in Sessions \cup {NoSession}
    /\ {alive, up, shut, pinging, passive} \subseteq BOOLEAN
    /\ lock \in Tasks \cup {Nobody}
    /\ pc \in [Tasks -> Points]
    /\ \A t \in Tasks : pc[t] \in {"call", "drop", "closing"} => mine[t] # NoSession
    /\ mine \in [Tasks -> Sessions \cup {NoSession}]
    /\ session \in [Sessions -> {"free", "good", "broken"}]

\* node.py: the lock "prevents duplicate (leaked) clients".  While a task is at the
\* factory it is the only one, holds the lock, and the node has no client that the
\* new one would overwrite.
OneConnect == \A t \in Tasks :
    pc[t] = "connect" => lock = t /\ client = NoSession

\* node.py, handlers/connection.py: no client is leaked.  Unless close() was called,
\* every open client is the node's, or a task is about to close it.
Held(s) == s = client \/ \E t \in Tasks : pc[t] \in {"drop", "closing"} /\ mine[t] = s

NoClientLeaked == ~passive /\ ~shut => \A s \in Sessions : Open(s) => Held(s)

\* The same with idle eviction.
NoneLeakedByEviction == ~shut => \A s \in Sessions : Open(s) => Held(s)

\* A connection that was closed and whose queries are over holds no client.
NothingOpenAfterClose ==
    shut /\ (\A t \in Tasks : pc[t] = "idle") => \A s \in Sessions : ~Open(s)

\* In the long run the belief follows the server.  A server that stays reachable is
\* found alive again and again, clients broken by an outage being replaced; one that
\* stays unreachable is marked dead for good, if it is pinged actively.
AliveAgain == <>[](up /\ ~shut) => []<>alive
DeadWhenDown == <>[](~up /\ ~shut /\ ~passive) => <>[]~alive

\* node.py: a failed client is dropped lest the node be "flapping up/down": a server
\* that stays reachable becomes alive for good.
NoFlapping == <>[](up /\ ~shut) => <>[]alive

\* Every operation ends: no task keeps the client lock or waits for it forever.
OperationsEnd == \A t \in Tasks : pc[t] # "idle" ~> pc[t] = "idle"
=============================================================================

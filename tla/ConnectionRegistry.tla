------------------------- MODULE ConnectionRegistry -------------------------
(***************************************************************************)
(* The handlers of one connection resource (handlers/connection.py): the   *)
(* registry that holds its ClickHouseConnection, the Secret read before    *)
(* one is built, discovery passes and closes queued at its discovery lock, *)
(* and queries that keep the connection they looked up.                    *)
(*                                                                         *)
(* A spec is its version; version v refers to Secret v.  A pass opens a    *)
(* session to each node, whatever kind it is: what it finds there is       *)
(* ClickHouseConnection's matter.  A spec without authSecretRef is a read  *)
(* that nothing interrupts.                                                *)
(*                                                                         *)
(* External: kopf runs the change handlers of a resource one at a time,    *)
(* each with the spec as it was when the change was taken up; its timers   *)
(* are tasks of their own that see the spec taken up last, start no call   *)
(* once the deletion was taken up, but finish the one they are in.  The    *)
(* asyncio lock is granted in the order in which it was asked for.         *)
(*                                                                         *)
(* A definition named D_Something is a wrong variant of D, put in its      *)
(* place to see a property fail.                                           *)
(***************************************************************************)
EXTENDS Naturals, Sequences

CONSTANTS
    Timers,      \* on_connection_recheck, on_connection_topology
    MaxVersion,  \* bound: specs that are applied
    MaxFaults,   \* bound: Secret reads that fail
    EarlyEdits,  \* the spec may be edited before its first handler succeeded
    Recreates,   \* a deleted resource may be created anew
    Exits        \* the operator may exit

Change == "change"
Query == "query"
Tasks == Timers \cup {Change, Query}

ASSUME TimersAssumption == Timers # {} /\ Change \notin Timers /\ Query \notin Timers
ASSUME BoundsAssumption == MaxVersion \in Nat \ {0} /\ MaxFaults \in Nat
ASSUME ScopeAssumption == {EarlyEdits, Recreates, Exits} \subseteq BOOLEAN

VARIABLES
    spec,      \* the version at the API server; 0: no such resource
    applied,   \* versions applied so far
    seen,      \* the version kopf took up last
    watched,   \* kopf starts timer calls: the resource is there, as far as it knows
    handled,   \* the version whose change handler succeeded; 0: none
    registry,  \* _connections: the registered connection; 0: none
    conns,     \* every connection built
    task,      \* what each task awaits
    status,    \* the connection whose snapshot .status holds; 0: none
    faults,
    exit       \* "no", "stopping" (every task is cancelled), "over"

world == << spec, applied >>
kopf == << seen, watched, handled >>
vars == << world, kopf, registry, conns, task, status, faults, exit >>

\* pc: "read" a Secret, queued for a "pass" or to "close", a "patch" or a "call".
Idle == [pc |-> "idle", ver |-> 0, cred |-> 0, conn |-> 0]

\* queue: the tasks at the discovery lock, its holder first; ready: a pass has ended;
\* dropped: its close was cut short at the exit; reopened: a call was made on it after
\* it was closed.
NewConn(v, cred) ==
    [spec |-> v, cred |-> cred, queue |-> << >>, ready |-> FALSE, closed |-> FALSE,
     dropped |-> FALSE, reopened |-> FALSE]

Init ==
    /\ spec = 0 /\ applied = 0 /\ faults = 0 /\ exit = "no"
    /\ seen = 0 /\ watched = FALSE /\ handled = 0
    /\ registry = 0 /\ conns = << >> /\ status = 0
    /\ task = [t \in Tasks |-> Idle]

Holds(t) == task[t].conn # 0 /\ Head(conns[task[t].conn].queue) = t

Enqueue(cs, c, t) == [cs EXCEPT ![c].queue = Append(@, t)]
Released(c) == [conns EXCEPT ![c].queue = Tail(@)]

\* Task t, with the locals r, queues for its pass on connection c: from the look at
\* the registry to the lock nothing is awaited.
Join(t, r, c, cs) ==
    /\ task' = [task EXCEPT ![t] = [r EXCEPT !.pc = "pass", !.conn = c]]
    /\ conns' = Enqueue(cs, c, t)

\* _ensure_connection up to its await; a registered connection is a hit.
EnsureConnection(t, r, cs) ==
    IF registry # 0
    THEN Join(t, r, registry, cs)
    ELSE /\ task' = [task EXCEPT ![t] = [r EXCEPT !.pc = "read", !.conn = 0]]
         /\ conns' = cs

(* ---- the resource -------------------------------------------------- *)

\* Created or edited.  A resource is only gone when its timers' calls ended.
Apply ==
    /\ exit = "no" /\ applied < MaxVersion
    /\ IF spec # 0
       THEN EarlyEdits \/ handled # 0
       ELSE /\ Recreates \/ applied = 0
            /\ ~watched /\ handled = 0 /\ \A t \in Timers \cup {Change} : task[t].pc = "idle"
    /\ spec' = applied + 1 /\ applied' = applied + 1
    /\ UNCHANGED << kopf, registry, conns, task, status, faults, exit >>

Delete ==
    /\ exit = "no" /\ spec # 0
    /\ spec' = 0 /\ status' = 0
    /\ UNCHANGED << applied, kopf, registry, conns, task, faults, exit >>

(* ---- the change handlers -------------------------------------------- *)

PopAndClose_NotPopped(r) ==            \* closes it, but leaves it registered
    /\ registry' = registry
    /\ task' = [task EXCEPT ![Change] = [r EXCEPT !.pc = "close", !.conn = registry]]
    /\ conns' = Enqueue(conns, registry, Change)

\* _connections.pop; the popped connection is closed when its lock is free.
PopAndClose(r) ==
    /\ registry' = 0
    /\ task' = [task EXCEPT ![Change] = [r EXCEPT !.pc = "close", !.conn = registry]]
    /\ conns' = Enqueue(conns, registry, Change)

TakeUp_KeepsConnection ==              \* an update looks the connection up, too
    /\ exit = "no" /\ task[Change].pc = "idle"
    /\ spec # 0 /\ spec # handled
    /\ seen' = spec /\ watched' = TRUE
    /\ EnsureConnection(Change, [Idle EXCEPT !.ver = spec, !.cred = spec], conns)
    /\ UNCHANGED << world, handled, registry, status, faults, exit >>

\* The first version is created (or resumed), a later one is an update: once more
\* for each attempt that failed.
TakeUp ==
    /\ exit = "no" /\ task[Change].pc = "idle"
    /\ spec # 0 /\ spec # handled
    /\ seen' = spec /\ watched' = TRUE
    /\ LET r == [Idle EXCEPT !.ver = spec, !.cred = spec]
       IN  IF handled # 0 /\ registry # 0
           THEN PopAndClose(r)
           ELSE EnsureConnection(Change, r, conns) /\ UNCHANGED registry
    /\ UNCHANGED << world, handled, status, faults, exit >>

TakeUpDeletion ==
    /\ exit = "no" /\ task[Change].pc = "idle"
    /\ spec = 0 /\ watched
    /\ watched' = FALSE
    /\ IF registry # 0
       THEN PopAndClose(Idle) /\ UNCHANGED handled
       ELSE handled' = 0 /\ UNCHANGED << registry, task, conns >>
    /\ UNCHANGED << world, seen, status, faults, exit >>

\* close() got the lock, and gives it back.  An update goes on; a deletion is over.
Closed ==
    /\ task[Change].pc = "close" /\ Holds(Change)
    /\ LET c == task[Change].conn
           cs == [Released(c) EXCEPT ![c].closed = TRUE]
       IN  IF task[Change].ver # 0
           THEN EnsureConnection(Change, task[Change], cs) /\ UNCHANGED handled
           ELSE task' = [task EXCEPT ![Change] = Idle] /\ conns' = cs /\ handled' = 0
    /\ UNCHANGED << world, seen, watched, registry, status, faults, exit >>

(* ---- what timers and change handlers share ---------------------------- *)

TimerStarts(t) ==
    /\ exit = "no" /\ watched /\ task[t].pc = "idle"
    /\ EnsureConnection(t, [Idle EXCEPT !.cred = seen], conns)
    /\ UNCHANGED << world, kopf, registry, status, faults, exit >>

SecretRead_NoRecheck(t) ==             \* builds without a second look
    /\ task[t].pc = "read"
    /\ LET v == IF t = Change THEN task[t].ver ELSE seen
           c == Len(conns) + 1
       IN  registry' = c /\ Join(t, task[t], c, Append(conns, NewConn(v, task[t].cred)))
    /\ UNCHANGED << world, kopf, status, faults, exit >>

SecretRead_NoSpec(t) ==                \* a timer has no spec left when it builds
    /\ task[t].pc = "read"
    /\ IF registry # 0
       THEN Join(t, task[t], registry, conns) /\ UNCHANGED registry
       ELSE LET c == Len(conns) + 1
            IN  /\ registry' = c
                /\ Join(t, task[t], c, Append(conns, NewConn(task[t].ver, task[t].cred)))
    /\ UNCHANGED << world, kopf, status, faults, exit >>

\* The Secret is read: the registry is looked at again, and only if it is still
\* empty a connection is built, from the rest of the spec as the task sees it now.
SecretRead(t) ==
    /\ task[t].pc = "read"
    /\ IF registry # 0
       THEN Join(t, task[t], registry, conns) /\ UNCHANGED registry
       ELSE LET v == IF t = Change THEN task[t].ver ELSE seen
                c == Len(conns) + 1
            IN  registry' = c /\ Join(t, task[t], c, Append(conns, NewConn(v, task[t].cred)))
    /\ UNCHANGED << world, kopf, status, faults, exit >>

\* No such Secret, no such key in it, or no answer: the handler is run again later.
SecretFails(t) ==
    /\ task[t].pc = "read" /\ faults < MaxFaults
    /\ faults' = faults + 1
    /\ task' = [task EXCEPT ![t] = Idle]
    /\ UNCHANGED << world, kopf, registry, conns, status, exit >>

PassEnds_KeepsLock(t) ==               \* the lock is never given back
    /\ task[t].pc = "pass" /\ Holds(t)
    /\ task' = [task EXCEPT ![t].pc = "patch"]
    /\ UNCHANGED << world, kopf, registry, conns, status, faults, exit >>

\* The pass ran under the lock, took its snapshot there and made the connection ready.
PassEnds(t) ==
    /\ task[t].pc = "pass" /\ Holds(t)
    /\ conns' = [Released(task[t].conn) EXCEPT ![task[t].conn].ready = TRUE]
    /\ task' = [task EXCEPT ![t].pc = "patch"]
    /\ UNCHANGED << world, kopf, registry, status, faults, exit >>

\* The handler returned and kopf sends its patch.
Patched(t) ==
    /\ task[t].pc = "patch"
    /\ status' = IF spec # 0 THEN task[t].conn ELSE status
    /\ handled' = IF t = Change THEN task[t].ver ELSE handled
    /\ task' = [task EXCEPT ![t] = Idle]
    /\ UNCHANGED << world, seen, watched, registry, conns, faults, exit >>

(* ---- queries, and the end --------------------------------------------- *)

\* A query run looks its connection up once and makes its calls on it.
QueryStarts ==
    /\ exit = "no" /\ task[Query].pc = "idle" /\ registry # 0
    /\ task' = [task EXCEPT ![Query] = [Idle EXCEPT !.pc = "call", !.conn = registry]]
    /\ UNCHANGED << world, kopf, registry, conns, status, faults, exit >>

\* A node without a client opens one for the call.
QueryCalls ==
    /\ task[Query].pc = "call" /\ conns[task[Query].conn].closed
    /\ conns' = [conns EXCEPT ![task[Query].conn].reopened = TRUE]
    /\ UNCHANGED << world, kopf, registry, task, status, faults, exit >>

QueryEnds ==
    /\ task[Query].pc = "call"
    /\ task' = [task EXCEPT ![Query] = Idle]
    /\ UNCHANGED << world, kopf, registry, conns, status, faults, exit >>

\* Every task is cancelled, which leaves the lock, too.
ExitStarts ==
    /\ Exits /\ exit = "no" /\ exit' = "stopping"
    /\ task' = [t \in Tasks |-> Idle]
    /\ conns' = [c \in DOMAIN conns |->
                    [conns[c] EXCEPT !.queue = << >>,
                                     !.dropped = task[Change].pc = "close" /\ task[Change].conn = c]]
    /\ watched' = FALSE
    /\ UNCHANGED << world, seen, handled, registry, status, faults >>

CleanUp_Forgets ==                     \* clears the registry before it lists it
    /\ exit = "stopping" /\ exit' = "over"
    /\ registry' = 0
    /\ UNCHANGED << world, kopf, conns, task, status, faults >>

\* on_operator_cleanup; a close that hangs is given up after _CLEANUP_TIMEOUT.
CleanUp ==
    /\ exit = "stopping" /\ exit' = "over"
    /\ registry' = 0
    /\ \E hangs \in BOOLEAN :
          conns' = [c \in DOMAIN conns |->
                       IF c = registry
                       THEN [conns[c] EXCEPT !.closed = ~hangs, !.dropped = hangs]
                       ELSE conns[c]]
    /\ UNCHANGED << world, kopf, task, status, faults >>

Over == exit = "over" /\ UNCHANGED vars

TaskStep(t) == SecretRead(t) \/ SecretFails(t) \/ PassEnds(t) \/ Patched(t)

Next ==
    \/ Apply \/ Delete \/ TakeUp \/ TakeUpDeletion \/ Closed
    \/ \E t \in Timers : TimerStarts(t)
    \/ \E t \in Tasks : TaskStep(t)
    \/ QueryStarts \/ QueryCalls \/ QueryEnds
    \/ ExitStarts \/ CleanUp \/ Over

\* Changes are taken up, timers come round, and what a task awaits arrives (a failing
\* Secret read, too: MaxFaults says how often).
Fairness ==
    /\ WF_vars(TakeUp) /\ WF_vars(TakeUpDeletion) /\ WF_vars(Closed) /\ WF_vars(CleanUp)
    /\ \A t \in Timers : WF_vars(TimerStarts(t))
    /\ \A t \in Timers \cup {Change} : WF_vars(TaskStep(t))

Spec == Init /\ [][Next]_vars /\ Fairness

(* ---- properties ------------------------------------------------------ *)

TypeOK ==
    /\ spec \in 0..MaxVersion /\ applied \in 0..MaxVersion /\ seen \in 0..MaxVersion
    /\ handled \in 0..MaxVersion /\ watched \in BOOLEAN /\ faults \in 0..MaxFaults
    /\ exit \in {"no", "stopping", "over"}
    /\ registry \in 0..Len(conns) /\ status \in 0..Len(conns)
    /\ conns \in Seq([spec : 1..MaxVersion, cred : 1..MaxVersion, queue : Seq(Tasks),
                      ready : BOOLEAN, closed : BOOLEAN, dropped : BOOLEAN, reopened : BOOLEAN])
    /\ task \in [Tasks -> [pc : {"idle", "read", "pass", "patch", "close", "call"},
                           ver : 0..MaxVersion, cred : 0..MaxVersion, conn : 0..Len(conns)]]

\* No connection gets lost with its sessions (the comment above _connections): one
\* that is built is registered, closed, being closed by the handler that popped it,
\* or its close was cut short by the exit.
AllTracked ==
    \A c \in DOMAIN conns :
       \/ conns[c].closed \/ conns[c].dropped \/ c = registry
       \/ task[Change].pc = "close" /\ task[Change].conn = c

\* No discovery pass runs on a connection that was closed, where it would open
\* sessions that nobody closes (close(): "never close nodes while a refresh is
\* mid-flight"): who is in the lock's queue came before the one who closes.
NoPassAfterClose ==
    \A t \in Timers \cup {Change} : task[t].pc = "pass" => ~conns[task[t].conn].closed

\* on_connection_update: edits take effect without a restart.  While the resource
\* stays as it is, the registered connection is in the end one of its current spec.
SpecTakesEffect ==
    \A v \in 1..MaxVersion :
       <>[](spec = v /\ exit = "no") =>
          <>[](registry # 0 /\ conns[registry].spec = v)

\* In the end .status tells of the registered connection, whatever passes on former
\* connections were still to end and to be patched.
StatusCatchesUp ==
    <>[](spec # 0 /\ exit = "no") => <>[](registry # 0 /\ status = registry)

\* What queries see of the resource's connection.
ConnSeen ==
    IF registry = 0 THEN "absent" ELSE IF conns[registry].ready THEN "ready" ELSE "warming"

\* The registry gives the queries the view that QueryScheduler assumes: a connection
\* they found ready does not turn into one that warms up, although several tasks build,
\* replace and drop connections, and one that warms up gets ready if it is not dropped.
View == INSTANCE ConnectionView WITH conn <- ConnSeen
ImplementsView == View!ViewSpec

(* ---- false of the code ------------------------------------------------- *)

\* README.md:97: the credentials of a connection are those of the Secret that its
\* spec refers to.  A timer that read the former Secret builds with the new spec.
CredentialsMatch == \A c \in DOMAIN conns : conns[c].cred = conns[c].spec

\* A deleted resource leaves no connection behind.  A timer that was reading the
\* Secret while the connection was popped registers one.
GoneIsGone ==
    spec = 0 /\ ~watched /\ handled = 0 /\ (\A t \in Tasks : task[t].pc = "idle") => registry = 0

\* on_operator_cleanup: no sessions leak.  A query that outlives the close of its
\* connection opens a client there.
NothingReopened == \A c \in DOMAIN conns : ~conns[c].reopened
=============================================================================

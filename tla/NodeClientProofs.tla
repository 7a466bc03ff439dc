-------------------------- MODULE NodeClientProofs --------------------------
(***************************************************************************)
(* What holds of a node's client for any number of callers and sessions.   *)
(*                                                                         *)
(* OneConnect is inductive together with the types: the lock is taken only *)
(* where the client is seen to be None, and while it is held nobody else   *)
(* can set a client.  NoClientLeaked needs OneConnect (a new client        *)
(* overwrites none) and that no task is in close().                        *)
(***************************************************************************)
EXTENDS NodeClient, TLAPS

\* A step of a task is one of these.
LEMMA TaskSteps ==
    ASSUME NEW t \in Tasks, Starts(t) \/ StartPing(t) \/ Proceeds(t)
    PROVE  \/ Pick(t) \/ StartDiscovery(t) \/ CloseStarts(t) \/ StartPing(t)
           \/ StartQuery(t) \/ Granted(t) \/ ConnectFails(t)
           \/ \E s \in Sessions : Connected(t, s)
           \/ CallSucceeds(t) \/ CallErrs(t) \/ CallFails(t)
           \/ Dropped(t) \/ CloseEnds(t)
  BY DEF Starts, Proceeds

-----------------------------------------------------------------------------
(* Types.                                                                    *)

InHand == \A t \in Tasks : pc[t] \in {"call", "drop", "closing"} => mine[t] # NoSession

\* Moving one task to a point, with a session in hand where the point needs one.
LEMMA ToType ==
    ASSUME TypeOK, NEW t \in Tasks, NEW p \in Points,
           NEW s \in Sessions \cup {NoSession}, To(t, p, s),
           p \in {"call", "drop", "closing"} => s # NoSession
    PROVE  /\ pc' \in [Tasks -> Points]
           /\ mine' \in [Tasks -> Sessions \cup {NoSession}]
           /\ InHand'
  BY DEF TypeOK, To, InHand

LEMMA EnsureType ==
    ASSUME TypeOK, NEW t \in Tasks, Ensure(t)
    PROVE  /\ pc' \in [Tasks -> Points]
           /\ mine' \in [Tasks -> Sessions \cup {NoSession}]
           /\ InHand'
           /\ lock' \in Tasks \cup {Nobody}
  <1>1. /\ client \in Sessions \cup {NoSession} /\ lock \in Tasks \cup {Nobody}
        /\ {"call", "connect", "wait"} \subseteq Points
    BY DEF TypeOK, Points
  <1>2. CASE client # NoSession
    BY <1>1, <1>2, ToType DEF Ensure
  <1>3. CASE client = NoSession
    BY <1>1, <1>3, ToType DEF Ensure
  <1> QED BY <1>2, <1>3

LEMMA TypeStep ==
    ASSUME TypeOK, [Next]_vars
    PROVE  TypeOK'
  <1> USE SessionsAssumption
  <1>0. {"idle", "picked", "call", "connect", "drop", "closing"} \subseteq Points
    BY DEF Points
  <1>1. CASE UNCHANGED vars
    BY <1>1 DEF TypeOK, vars
  <1>2. CASE Outage
    BY <1>2 DEF TypeOK, Outage
  <1>3. CASE Restored
    BY <1>3 DEF TypeOK, Restored
  <1>4. ASSUME NEW t \in Tasks, Starts(t) \/ StartPing(t) \/ Proceeds(t)
        PROVE  TypeOK'
    <2>1. CASE Pick(t)
      BY <2>1, <1>0, ToType DEF TypeOK, Pick, InHand
    <2>2. CASE StartDiscovery(t)
      BY <2>2, EnsureType DEF TypeOK, StartDiscovery, InHand
    <2>3. CASE CloseStarts(t)
      <3>1. client \in Sessions \cup {NoSession}
        BY DEF TypeOK
      <3>2. /\ pc' \in [Tasks -> Points]
            /\ mine' \in [Tasks -> Sessions \cup {NoSession}]
            /\ InHand'
        <4>1. CASE client # NoSession
          BY <4>1, <2>3, <3>1, <1>0, ToType DEF CloseStarts
        <4>2. CASE client = NoSession
          BY <4>2, <2>3, <1>0, ToType DEF CloseStarts, End
        <4> QED BY <4>1, <4>2
      <3> QED BY <2>3, <3>2 DEF TypeOK, CloseStarts, InHand
    <2>4. CASE StartPing(t)
      BY <2>4, EnsureType DEF TypeOK, StartPing, InHand
    <2>5. CASE StartQuery(t)
      BY <2>5, EnsureType DEF TypeOK, StartQuery, InHand
    <2>6. CASE Granted(t)
      <3>1. client \in Sessions \cup {NoSession}
        BY DEF TypeOK
      <3>2. /\ pc' \in [Tasks -> Points]
            /\ mine' \in [Tasks -> Sessions \cup {NoSession}]
            /\ InHand'
            /\ lock' \in Tasks \cup {Nobody}
        <4>1. CASE client # NoSession
          BY <4>1, <2>6, <3>1, <1>0, ToType DEF Granted, TypeOK
        <4>2. CASE client = NoSession
          BY <4>2, <2>6, <3>1, <1>0, ToType DEF Granted, TypeOK
        <4> QED BY <4>1, <4>2
      <3> QED BY <2>6, <3>2 DEF TypeOK, Granted, InHand
    <2>7. CASE ConnectFails(t)
      BY <2>7, <1>0, ToType DEF TypeOK, ConnectFails, End, InHand
    <2>8. ASSUME NEW s \in Sessions, Connected(t, s)
          PROVE  TypeOK'
      <3>1. To(t, "call", s) /\ s # NoSession
        BY <2>8 DEF Connected, NoSession
      <3>2. /\ pc' \in [Tasks -> Points]
            /\ mine' \in [Tasks -> Sessions \cup {NoSession}]
            /\ InHand'
        BY <3>1, <1>0, ToType
      <3> QED BY <2>8, <3>2 DEF TypeOK, Connected, InHand
    <2>9. CASE CallSucceeds(t)
      BY <2>9, <1>0, ToType DEF TypeOK, CallSucceeds, End, InHand
    <2>10. CASE CallErrs(t)
      BY <2>10, <1>0, ToType DEF TypeOK, CallErrs, End, InHand
    <2>11. CASE CallFails(t)
      <3>1. client \in Sessions \cup {NoSession}
        BY DEF TypeOK
      <3>2. /\ pc' \in [Tasks -> Points]
            /\ mine' \in [Tasks -> Sessions \cup {NoSession}]
            /\ InHand'
        <4>1. CASE client # NoSession
          BY <4>1, <2>11, <3>1, <1>0, ToType DEF CallFails
        <4>2. CASE client = NoSession
          BY <4>2, <2>11, <1>0, ToType DEF CallFails, End
        <4> QED BY <4>1, <4>2
      <3> QED BY <2>11, <3>2 DEF TypeOK, CallFails, InHand
    <2>12. CASE Dropped(t)
      BY <2>12, <1>0, ToType DEF TypeOK, Dropped, End, InHand
    <2>13. CASE CloseEnds(t)
      BY <2>13, <1>0, ToType DEF TypeOK, CloseEnds, End, InHand
    <2> QED BY <1>4, <2>1, <2>2, <2>3, <2>4, <2>5, <2>6, <2>7, <2>8, <2>9, <2>10,
               <2>11, <2>12, <2>13, TaskSteps
  <1> QED BY <1>1, <1>2, <1>3, <1>4 DEF Next

LEMMA TypeInit ==
    ASSUME Init PROVE TypeOK
  BY DEF Init, TypeOK, Points

\* Every variable of a node keeps its type, and a task that calls, drops or closes
\* a client has one in hand, in every behaviour of node.py's model.
THEOREM TypeCorrect == Spec => []TypeOK
  BY TypeInit, TypeStep, PTL DEF Spec

-----------------------------------------------------------------------------
(* At most one task connects, and only where there is no client.             *)

LEMMA ConnectInit ==
    ASSUME Init PROVE OneConnect
  BY DEF Init, OneConnect

LEMMA ConnectStep ==
    ASSUME TypeOK, OneConnect, [Next]_vars
    PROVE  OneConnect'
  <1> USE TasksAssumption
  <1>1. CASE UNCHANGED vars
    BY <1>1 DEF OneConnect, vars
  <1>2. CASE Outage \/ Restored
    BY <1>2 DEF OneConnect, Outage, Restored
  <1>3. ASSUME NEW t \in Tasks, Starts(t) \/ StartPing(t) \/ Proceeds(t)
        PROVE  OneConnect'
    \* A free lock means that nobody is connecting.
    <2>0. lock = Nobody => \A u \in Tasks : pc[u] # "connect"
      BY DEF OneConnect, Tasks
    <2>1. ASSUME Ensure(t), UNCHANGED client
          PROVE  OneConnect'
      <3>1. CASE client # NoSession
        BY <2>1, <3>1 DEF Ensure, To, OneConnect, TypeOK
      <3>2. CASE client = NoSession /\ lock' = t /\ lock = Nobody
        BY <2>0, <2>1, <3>2 DEF Ensure, To, OneConnect, TypeOK
      <3>3. CASE client = NoSession /\ ~(lock' = t /\ lock = Nobody)
        BY <2>1, <3>3 DEF Ensure, To, OneConnect, TypeOK
      <3> QED BY <3>1, <3>2, <3>3
    <2>2. CASE Pick(t)
      BY <2>2 DEF Pick, To, OneConnect, TypeOK
    <2>3. CASE StartDiscovery(t) \/ StartPing(t) \/ StartQuery(t)
      BY <2>1, <2>3 DEF StartDiscovery, StartPing, StartQuery
    <2>4. CASE CloseStarts(t)
      BY <2>4 DEF CloseStarts, End, To, OneConnect, TypeOK
    <2>5. CASE Granted(t)
      <3>1. CASE client # NoSession
        BY <2>5, <3>1 DEF Granted, To, OneConnect, TypeOK
      <3>2. CASE client = NoSession
        BY <2>0, <2>5, <3>2 DEF Granted, To, OneConnect, TypeOK
      <3> QED BY <3>1, <3>2
    <2>6. CASE ConnectFails(t) \/ \E s \in Sessions : Connected(t, s)
      <3>1. \A u \in Tasks \ {t} : pc[u] # "connect"
        BY <2>6 DEF ConnectFails, Connected, OneConnect
      <3>2. \A u \in Tasks : pc'[u] # "connect"
        BY <2>6, <3>1 DEF ConnectFails, Connected, End, To, TypeOK
      <3> QED BY <3>2 DEF OneConnect
    <2>7. CASE CallSucceeds(t) \/ CallErrs(t) \/ Dropped(t)
      BY <2>7 DEF CallSucceeds, CallErrs, Dropped, End, To, OneConnect, TypeOK
    <2>8. CASE CallFails(t)
      BY <2>8 DEF CallFails, End, To, OneConnect, TypeOK
    <2>9. CASE CloseEnds(t)
      BY <2>9 DEF CloseEnds, End, To, OneConnect, TypeOK
    <2> QED BY <1>3, <2>2, <2>3, <2>4, <2>5, <2>6, <2>7, <2>8, <2>9, TaskSteps
  <1> QED BY <1>1, <1>2, <1>3 DEF Next

\* The lock and the second look at the client keep two tasks from connecting at
\* once and a new client from overwriting one that is open.
THEOREM OneConnects == Spec => []OneConnect
  BY TypeCorrect, ConnectInit, ConnectStep, PTL DEF Spec

-----------------------------------------------------------------------------
(* Nothing leaks where nothing is closed but failed clients.                 *)

Unclosed == ~passive /\ ~shut
NeverClosing == Unclosed => \A t \in Tasks : pc[t] # "closing"

LEMMA UnclosedBefore ==
    ASSUME [Next]_vars, Unclosed' PROVE Unclosed
  <1>1. ASSUME NEW t \in Tasks, Starts(t) \/ StartPing(t) \/ Proceeds(t)
        PROVE  passive' = passive /\ (shut => shut')
    BY <1>1, TaskSteps DEF Pick, StartDiscovery, CloseStarts, StartPing, StartQuery, Granted,
        ConnectFails, Connected, CallSucceeds, CallErrs, CallFails, Dropped, CloseEnds
  <1>2. CASE Outage \/ Restored
    BY <1>2 DEF Outage, Restored, Unclosed
  <1>3. CASE UNCHANGED vars
    BY <1>3 DEF vars, Unclosed
  <1> QED BY <1>1, <1>2, <1>3 DEF Next, Unclosed

LEMMA NeverClosingStep ==
    ASSUME TypeOK, NeverClosing, [Next]_vars
    PROVE  NeverClosing'
  <1> SUFFICES ASSUME Unclosed, Unclosed' PROVE NeverClosing'
    BY UnclosedBefore DEF NeverClosing
  <1>1. CASE UNCHANGED vars
    BY <1>1 DEF NeverClosing, vars
  <1>2. CASE Outage \/ Restored
    BY <1>2 DEF NeverClosing, Outage, Restored
  <1>3. ASSUME NEW t \in Tasks, Starts(t) \/ StartPing(t) \/ Proceeds(t)
        PROVE  NeverClosing'
    <2>1. ASSUME NEW p \in Points \ {"closing"}, NEW s, To(t, p, s)
          PROVE  NeverClosing'
      BY <2>1 DEF To, NeverClosing, TypeOK
    <2>2. {"idle", "picked", "wait", "call", "connect", "drop"} \subseteq Points \ {"closing"}
      BY DEF Points
    <2>3. Ensure(t) => NeverClosing'
      BY <2>1, <2>2 DEF Ensure
    <2>4. ~CloseStarts(t)
      BY DEF CloseStarts, Unclosed
    <2>5. Pick(t) \/ StartDiscovery(t) \/ StartPing(t) \/ StartQuery(t) => NeverClosing'
      BY <2>1, <2>2, <2>3 DEF Pick, StartDiscovery, StartPing, StartQuery
    <2>6. Granted(t) \/ ConnectFails(t) => NeverClosing'
      BY <2>1, <2>2 DEF Granted, ConnectFails, End
    <2>7. ASSUME NEW s \in Sessions, Connected(t, s) PROVE NeverClosing'
      BY <2>1, <2>2, <2>7 DEF Connected
    <2>8. CallSucceeds(t) \/ CallErrs(t) \/ CallFails(t) => NeverClosing'
      BY <2>1, <2>2 DEF CallSucceeds, CallErrs, CallFails, End
    <2>9. Dropped(t) \/ CloseEnds(t) => NeverClosing'
      BY <2>1, <2>2 DEF Dropped, CloseEnds, End
    <2> QED BY <1>3, <2>4, <2>5, <2>6, <2>7, <2>8, <2>9, TaskSteps
  <1> QED BY <1>1, <1>2, <1>3 DEF Next

LEMMA LeakStep ==
    ASSUME TypeOK, OneConnect, NeverClosing, NoClientLeaked, [Next]_vars
    PROVE  NoClientLeaked'
  <1> SUFFICES ASSUME Unclosed, Unclosed' PROVE NoClientLeaked'
    BY UnclosedBefore DEF NoClientLeaked, Unclosed
  <1>0. \A s \in Sessions : Open(s) => Held(s)
    BY DEF NoClientLeaked, Unclosed
  <1> USE SessionsAssumption
  <1>1. CASE UNCHANGED vars
    BY <1>0, <1>1 DEF NoClientLeaked, Held, Open, vars
  <1>2. CASE Outage \/ Restored
    BY <1>0, <1>2 DEF NoClientLeaked, Held, Open, Outage, Restored, TypeOK
  <1>3. ASSUME NEW t \in Tasks, Starts(t) \/ StartPing(t) \/ Proceeds(t)
        PROVE  NoClientLeaked'
    \* A task that is not dropping may move on while client and sessions stay.
    <2>1. ASSUME pc[t] # "drop", UNCHANGED << client, session >>,
                 \A u \in Tasks \ {t} : pc'[u] = pc[u] /\ mine'[u] = mine[u]
          PROVE  NoClientLeaked'
      <3>1. pc[t] \notin {"drop", "closing"}
        BY <2>1 DEF NeverClosing
      <3>2. ASSUME NEW x \in Sessions, Open(x)'
            PROVE  Held(x)'
        <4>1. Held(x)
          BY <1>0, <2>1, <3>2 DEF Open
        <4> QED BY <2>1, <3>1, <4>1 DEF Held
      <3> QED BY <3>2 DEF NoClientLeaked
    <2>2. ASSUME NEW p, NEW s, To(t, p, s)
          PROVE  \A u \in Tasks \ {t} : pc'[u] = pc[u] /\ mine'[u] = mine[u]
      BY <2>2 DEF To, TypeOK
    <2>3. ASSUME Ensure(t), pc[t] # "drop", UNCHANGED << client, session >>
          PROVE  NoClientLeaked'
      BY <2>1, <2>2, <2>3 DEF Ensure
    <2>4. CASE Pick(t) \/ CloseStarts(t)
      BY <2>1, <2>2, <2>4 DEF Pick, CloseStarts, End
    <2>5. CASE StartDiscovery(t) \/ StartPing(t) \/ StartQuery(t)
      BY <2>3, <2>5 DEF StartDiscovery, StartPing, StartQuery
    <2>6. CASE Granted(t) \/ ConnectFails(t)
      BY <2>1, <2>2, <2>6 DEF Granted, ConnectFails, End
    <2>7. ASSUME NEW s \in Sessions, Connected(t, s)
          PROVE  NoClientLeaked'
      <3>1. client = NoSession /\ client' = s /\ session' = [session EXCEPT ![s] = "good"]
        BY <2>7 DEF Connected, OneConnect
      <3>2. ASSUME NEW x \in Sessions, x # s, Open(x)'
            PROVE  Held(x)'
        <4>1. Open(x)
          BY <3>1, <3>2 DEF Open, TypeOK
        <4>0. x # client
          BY <3>1 DEF NoSession
        <4>2. PICK u \in Tasks : pc[u] \in {"drop", "closing"} /\ mine[u] = x
          BY <4>1, <4>0, <1>0 DEF Held
        <4>3. u # t
          BY <2>7, <4>2 DEF Connected
        <4>4. pc'[u] = pc[u] /\ mine'[u] = mine[u]
          BY <2>2, <2>7, <4>3 DEF Connected
        <4> QED BY <4>2, <4>4 DEF Held
      <3>3. Held(s)'
        BY <3>1 DEF Held
      <3> QED BY <3>2, <3>3 DEF NoClientLeaked
    <2>8. CASE CallSucceeds(t) \/ CallErrs(t)
      BY <2>1, <2>2, <2>8 DEF CallSucceeds, CallErrs, End
    <2>9. CASE CallFails(t)
      <3>1. ASSUME NEW x \in Sessions, Open(x)'
            PROVE  Held(x)'
        <4>1. Open(x)
          BY <2>9, <3>1 DEF Open, CallFails
        <4>2. CASE x = client
          BY <2>9, <4>2 DEF Held, CallFails, To, TypeOK
        <4>3. CASE x # client
          <5>1. PICK u \in Tasks : pc[u] \in {"drop", "closing"} /\ mine[u] = x
            BY <4>1, <4>3, <1>0 DEF Held
          <5>2. pc'[u] = pc[u] /\ mine'[u] = mine[u]
            BY <2>2, <2>9, <5>1 DEF CallFails, End
          <5> QED BY <5>1, <5>2 DEF Held
        <4> QED BY <4>2, <4>3
      <3> QED BY <3>1 DEF NoClientLeaked
    <2>10. CASE Dropped(t)
      <3>1. ASSUME NEW x \in Sessions, Open(x)'
            PROVE  Held(x)'
        <4>1. Open(x) /\ x # mine[t]
          BY <2>10, <3>1 DEF Open, Dropped, TypeOK
        <4>2. CASE x = client
          BY <2>10, <4>2 DEF Held, Dropped
        <4>3. CASE x # client
          <5>1. PICK u \in Tasks : pc[u] \in {"drop", "closing"} /\ mine[u] = x
            BY <4>1, <4>3, <1>0 DEF Held
          <5>2. pc'[u] = pc[u] /\ mine'[u] = mine[u]
            BY <2>2, <2>10, <4>1, <5>1 DEF Dropped, End
          <5> QED BY <5>1, <5>2 DEF Held
        <4> QED BY <4>2, <4>3
      <3> QED BY <3>1 DEF NoClientLeaked
    <2>11. ~CloseEnds(t)
      BY DEF CloseEnds, NeverClosing, Unclosed
    <2> QED BY <1>3, <2>4, <2>5, <2>6, <2>7, <2>8, <2>9, <2>10, <2>11, TaskSteps
  <1> QED BY <1>1, <1>2, <1>3 DEF Next

\* A node that is pinged actively never loses track of an open client until its
\* connection is closed: every one is its own or about to be closed.
THEOREM NothingLeaks == Spec => []NoClientLeaked
  <1>1. Init => NeverClosing /\ NoClientLeaked
    BY DEF Init, NeverClosing, NoClientLeaked, Open
  <1>2. TypeOK /\ NeverClosing /\ [Next]_vars => NeverClosing'
    BY NeverClosingStep
  <1>3. TypeOK /\ OneConnect /\ NeverClosing /\ NoClientLeaked /\ [Next]_vars
            => NoClientLeaked'
    BY LeakStep
  <1> QED BY <1>1, <1>2, <1>3, TypeCorrect, OneConnects, PTL DEF Spec
=============================================================================

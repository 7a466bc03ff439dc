----------------------- MODULE ConnectionRegistryProofs -----------------------
(***************************************************************************)
(* Proofs about ConnectionRegistry: its types, that no connection is lost, *)
(* that none is used for a discovery pass after its close, and that        *)
(* queries see of it what ConnectionView says, for any timers and bounds.  *)
(***************************************************************************)
EXTENDS ConnectionRegistry, TLAPS

(* ---- lines at locks --------------------------------------------------- *)

\* Where each task waits (0: nowhere), and who waits in each line.
Lined(W, Q, T) ==
    /\ W \in [T -> Nat] /\ 0 \notin DOMAIN Q
    /\ \A c \in DOMAIN Q : Q[c] \in Seq(T)
    /\ \A t \in T : W[t] # 0 => /\ W[t] \in DOMAIN Q
                                /\ \E i \in 1..Len(Q[W[t]]) : Q[W[t]][i] = t
    /\ \A c \in DOMAIN Q : \A i \in 1..Len(Q[c]) : W[Q[c][i]] = c
    /\ \A c \in DOMAIN Q : \A i, j \in 1..Len(Q[c]) : Q[c][i] = Q[c][j] => i = j

LEMMA Enters ==
  ASSUME NEW T, NEW W, NEW Q, Lined(W, Q, T), NEW t \in T, W[t] = 0,
         NEW c \in DOMAIN Q, c \in Nat
  PROVE  Lined([W EXCEPT ![t] = c], [Q EXCEPT ![c] = Append(@, t)], T)
<1> DEFINE V == [W EXCEPT ![t] = c]
           R == [Q EXCEPT ![c] = Append(@, t)]
<1>0. /\ W \in [T -> Nat] /\ c # 0 /\ 0 \notin DOMAIN Q /\ Q[c] \in Seq(T)
      /\ DOMAIN R = DOMAIN Q /\ R[c] = Append(Q[c], t) /\ \A d \in DOMAIN Q : d # c => R[d] = Q[d]
      /\ V \in [T -> Nat] /\ V[t] = c /\ \A s \in T : s # t => V[s] = W[s]
  BY DEF Lined
<1>1. /\ Len(R[c]) = Len(Q[c]) + 1 /\ R[c][Len(Q[c]) + 1] = t
      /\ \A i \in 1..Len(Q[c]) : R[c][i] = Q[c][i]
      /\ Len(Q[c]) \in Nat /\ R[c] \in Seq(T)
  BY <1>0
<1>2. \A i \in 1..Len(Q[c]) : Q[c][i] # t
  BY DEF Lined
<1>3. \A d \in DOMAIN R : R[d] \in Seq(T)
  BY <1>0, <1>1 DEF Lined
<1>4. ASSUME NEW s \in T, V[s] # 0
      PROVE  /\ V[s] \in DOMAIN R
             /\ \E i \in 1..Len(R[V[s]]) : R[V[s]][i] = s
  <2>1. CASE s = t
    BY <2>1, <1>0, <1>1
  <2>2. CASE s # t
    <3>1. W[s] # 0 /\ V[s] = W[s] /\ W[s] \in DOMAIN Q
      BY <2>2, <1>4, <1>0 DEF Lined
    <3>2. PICK i \in 1..Len(Q[W[s]]) : Q[W[s]][i] = s
      BY <3>1 DEF Lined
    <3>3. i \in 1..Len(R[W[s]]) /\ R[W[s]][i] = s
      BY <3>1, <3>2, <1>0, <1>1
    <3> QED
      BY <3>1, <3>3, <1>0
  <2> QED
    BY <2>1, <2>2
<1>5. ASSUME NEW d \in DOMAIN R, NEW i \in 1..Len(R[d]) PROVE V[R[d][i]] = d
  <2>1. CASE d = c /\ i = Len(Q[c]) + 1
    BY <2>1, <1>0, <1>1
  <2>2. CASE d = c /\ i # Len(Q[c]) + 1
    <3>1. i \in 1..Len(Q[c]) /\ R[d][i] = Q[c][i] /\ Q[c][i] # t /\ Q[c][i] \in T
      BY <2>2, <1>1, <1>2, <1>0
    <3> QED
      BY <3>1, <2>2, <1>0 DEF Lined
  <2>3. CASE d # c
    <3>1. R[d] = Q[d] /\ i \in 1..Len(Q[d]) /\ Q[d] \in Seq(T) /\ W[Q[d][i]] = d
      BY <2>3, <1>0, <1>5 DEF Lined
    <3>2. Q[d][i] \in T
      BY <3>1
    <3>3. Q[d][i] # t
      BY <3>1 DEF Lined
    <3> QED
      BY <3>1, <3>2, <3>3, <1>0, <2>3
  <2> QED
    BY <2>1, <2>2, <2>3
<1>6. ASSUME NEW d \in DOMAIN R, NEW i \in 1..Len(R[d]), NEW j \in 1..Len(R[d]), R[d][i] = R[d][j]
      PROVE  i = j
  <2>1. CASE d = c
    <3>1. CASE i = Len(Q[c]) + 1 \/ j = Len(Q[c]) + 1
      BY <3>1, <2>1, <1>1, <1>2, <1>6
    <3>2. CASE i \in 1..Len(Q[c]) /\ j \in 1..Len(Q[c])
      BY <3>2, <2>1, <1>1, <1>0, <1>6 DEF Lined
    <3> QED
      BY <3>1, <3>2, <2>1, <1>1
  <2>2. CASE d # c
    BY <2>2, <1>0, <1>6 DEF Lined
  <2> QED
    BY <2>1, <2>2
<1> QED
  BY <1>0, <1>3, <1>4, <1>5, <1>6 DEF Lined

LEMMA Leaves ==
  ASSUME NEW T, NEW W, NEW Q, Lined(W, Q, T), NEW t \in T, NEW c \in DOMAIN Q,
         W[t] = c, Head(Q[c]) = t
  PROVE  /\ Q[c] # << >>
         /\ Lined([W EXCEPT ![t] = 0], [Q EXCEPT ![c] = Tail(@)], T)
<1> DEFINE V == [W EXCEPT ![t] = 0]
           R == [Q EXCEPT ![c] = Tail(@)]
<1>1. PICK n \in 1..Len(Q[c]) : Q[c][n] = t
  BY DEF Lined
<1>2. /\ c \in DOMAIN Q /\ 0 \notin DOMAIN Q /\ Q[c] \in Seq(T) /\ Len(Q[c]) \in Nat /\ Len(Q[c]) > 0
  BY <1>1 DEF Lined
<1>3. Q[c] # << >> /\ Q[c][1] = t
  BY <1>2
<1>4. /\ Tail(Q[c]) \in Seq(T) /\ Len(Tail(Q[c])) = Len(Q[c]) - 1
      /\ \A i \in 1..(Len(Q[c]) - 1) : Tail(Q[c])[i] = Q[c][i + 1]
  BY <1>2, <1>3
<1>5. /\ W \in [T -> Nat] /\ V \in [T -> Nat] /\ V[t] = 0 /\ \A s \in T : s # t => V[s] = W[s]
      /\ DOMAIN R = DOMAIN Q /\ R[c] = Tail(Q[c]) /\ \A d \in DOMAIN Q : d # c => R[d] = Q[d]
  BY <1>2 DEF Lined
<1>6. \A i \in 1..Len(Q[c]) : Q[c][i] = t => i = 1
  BY <1>2, <1>3 DEF Lined
<1> HIDE DEF V, R
<1>7. ASSUME NEW d \in DOMAIN R PROVE R[d] \in Seq(T)
  <2>1. CASE d = c
    BY <2>1, <1>4, <1>5
  <2>2. CASE d # c
    BY <2>2, <1>5 DEF Lined
  <2> QED
    BY <2>1, <2>2
<1>8. ASSUME NEW s \in T, V[s] # 0
      PROVE  /\ V[s] \in DOMAIN R
             /\ \E i \in 1..Len(R[V[s]]) : R[V[s]][i] = s
  <2>1. s # t /\ V[s] = W[s] /\ W[s] # 0 /\ W[s] \in DOMAIN Q
    BY <1>8, <1>5 DEF Lined
  <2>2. PICK i \in 1..Len(Q[W[s]]) : Q[W[s]][i] = s
    BY <2>1 DEF Lined
  <2>3. CASE W[s] = c
    <3>1. i # 1 /\ i - 1 \in 1..(Len(Q[c]) - 1) /\ Tail(Q[c])[i - 1] = s
      BY <2>1, <2>2, <2>3, <1>2, <1>3, <1>4
    <3>2. V[s] = c /\ i - 1 \in 1..Len(R[c]) /\ R[c][i - 1] = s
      BY <3>1, <2>1, <2>3, <1>4, <1>5
    <3> QED
      BY <3>2, <2>1, <2>3, <1>5
  <2>4. CASE W[s] # c
    BY <2>1, <2>2, <2>4, <1>5
  <2> QED
    BY <2>3, <2>4
<1>9. ASSUME NEW d \in DOMAIN R, NEW i \in 1..Len(R[d]) PROVE V[R[d][i]] = d
  <2>1. CASE d = c
    <3>1. i + 1 \in 1..Len(Q[c]) /\ R[d][i] = Q[c][i + 1]
      BY <2>1, <1>2, <1>4, <1>5
    <3>2. Q[c][i + 1] \in T /\ Q[c][i + 1] # t /\ W[Q[c][i + 1]] = c
      BY <3>1, <1>2, <1>6 DEF Lined
    <3> QED
      BY <3>1, <3>2, <2>1, <1>5
  <2>2. CASE d # c
    <3>1. R[d] = Q[d] /\ i \in 1..Len(Q[d]) /\ Q[d] \in Seq(T) /\ W[Q[d][i]] = d
      BY <2>2, <1>5, <1>9 DEF Lined
    <3>2. Q[d][i] \in T /\ Q[d][i] # t
      BY <3>1, <2>2
    <3> QED
      BY <3>1, <3>2, <1>5
  <2> QED
    BY <2>1, <2>2
<1>10. ASSUME NEW d \in DOMAIN R, NEW i \in 1..Len(R[d]), NEW j \in 1..Len(R[d]), R[d][i] = R[d][j]
       PROVE  i = j
  <2>1. CASE d = c
    <3>1. /\ i + 1 \in 1..Len(Q[c]) /\ R[d][i] = Q[c][i + 1]
          /\ j + 1 \in 1..Len(Q[c]) /\ R[d][j] = Q[c][j + 1]
      BY <2>1, <1>2, <1>4, <1>5
    <3>2. \A a, b \in 1..Len(Q[c]) : Q[c][a] = Q[c][b] => a = b
      BY DEF Lined
    <3>3. Q[c][i + 1] = Q[c][j + 1]
      BY <3>1, <1>10
    <3>4. i + 1 = j + 1
      BY ONLY <3>1, <3>2, <3>3
    <3>5. i \in Nat /\ j \in Nat
      BY <2>1, <1>4, <1>5
    <3> QED
      BY ONLY <3>4, <3>5
  <2>2. CASE d # c
    <3>1. d \in DOMAIN Q /\ R[d] = Q[d]
      BY <2>2, <1>5
    <3>2. \A a, b \in 1..Len(Q[d]) : Q[d][a] = Q[d][b] => a = b
      BY <3>1 DEF Lined
    <3> QED
      BY <3>1, <3>2, <1>10
  <2> QED
    BY <2>1, <2>2
<1>11. Lined(V, R, T)
  BY <1>2, <1>5, <1>7, <1>8, <1>9, <1>10 DEF Lined
<1> QED
  BY <1>3, <1>11 DEF V, R

(* ---- tasks, connections and the registry -------------------------------- *)

TaskRec == [pc : {"idle", "read", "pass", "patch", "close", "call"},
            ver : 0..MaxVersion, cred : 0..MaxVersion, conn : Nat]
ConnRec == [spec : 1..MaxVersion, cred : 1..MaxVersion, queue : Seq(Tasks), ready : BOOLEAN,
            closed : BOOLEAN, dropped : BOOLEAN, reopened : BOOLEAN]

Waiting == {"pass", "close"}
At(r) == IF r.pc \in Waiting THEN r.conn ELSE 0
Where(tk) == [t \in Tasks |-> At(tk[t])]
Lines(cs) == [c \in DOMAIN cs |-> cs[c].queue]
Rear(q) == q[Len(q)]

\* Of tasks tk, connections cs and the registered one, reg: their types.
Typed(tk, cs, reg) ==
    /\ tk \in [Tasks -> TaskRec] /\ cs \in Seq(ConnRec) /\ reg \in 0..Len(cs)
    /\ \A t \in Tasks : tk[t].conn \in 0..Len(cs)

\* Who waits is in line; the one who closes is the change handler, it comes last, and
\* what it closes is not registered; what is closed has an empty line.
InLine(tk, cs, reg) ==
    /\ \A t \in Tasks : /\ tk[t].pc \in Waiting => tk[t].conn # 0
                        /\ tk[t].pc = "close" => t = Change
    /\ Lined(Where(tk), Lines(cs), Tasks)
    /\ tk[Change].pc = "close" =>
          tk[Change].conn # reg /\ Rear(cs[tk[Change].conn].queue) = Change
    /\ reg # 0 => ~cs[reg].closed
    /\ \A c \in 1..Len(cs) : cs[c].closed => cs[c].queue = << >>

LEMMA Replaced ==
  ASSUME NEW S, NEW cs \in Seq(S), NEW c \in 1..Len(cs), NEW x \in S
  PROVE  /\ [cs EXCEPT ![c] = x] \in Seq(S) /\ Len([cs EXCEPT ![c] = x]) = Len(cs)
         /\ [cs EXCEPT ![c] = x][c] = x
         /\ \A d \in 1..Len(cs) : d # c => [cs EXCEPT ![c] = x][d] = cs[d]
  OBVIOUS

LEMMA Enqueued ==
  ASSUME NEW cs \in Seq(ConnRec), NEW c \in 1..Len(cs), NEW t \in Tasks
  PROVE  /\ Enqueue(cs, c, t) \in Seq(ConnRec) /\ Len(Enqueue(cs, c, t)) = Len(cs)
         /\ \A d \in 1..Len(cs) : d # c => Enqueue(cs, c, t)[d] = cs[d]
         /\ Enqueue(cs, c, t)[c] \in ConnRec /\ Enqueue(cs, c, t)[c].queue = Append(cs[c].queue, t)
         /\ Enqueue(cs, c, t)[c].closed = cs[c].closed
         /\ Enqueue(cs, c, t)[c].ready = cs[c].ready
         /\ Enqueue(cs, c, t)[c].dropped = cs[c].dropped
         /\ Lines(Enqueue(cs, c, t)) = [Lines(cs) EXCEPT ![c] = Append(@, t)]
<1> DEFINE x == [cs[c] EXCEPT !.queue = Append(@, t)]
<1>0. cs[c] \in ConnRec
  OBVIOUS
<1>1. cs[c].queue \in Seq(Tasks)
  BY <1>0 DEF ConnRec
<1>2. Append(cs[c].queue, t) \in Seq(Tasks)
  BY <1>1
<1>3. /\ x \in ConnRec /\ x.queue = Append(cs[c].queue, t)
      /\ x.closed = cs[c].closed /\ x.ready = cs[c].ready /\ x.dropped = cs[c].dropped
  BY <1>0, <1>1, <1>2 DEF ConnRec
<1>4. Enqueue(cs, c, t) = [cs EXCEPT ![c] = x]
  BY DEF Enqueue
<1> HIDE DEF x
<1>5. /\ [cs EXCEPT ![c] = x] \in Seq(ConnRec) /\ Len([cs EXCEPT ![c] = x]) = Len(cs)
      /\ [cs EXCEPT ![c] = x][c] = x
      /\ \A d \in 1..Len(cs) : d # c => [cs EXCEPT ![c] = x][d] = cs[d]
  BY ONLY <1>3, Replaced, cs \in Seq(ConnRec), c \in 1..Len(cs)
<1>6. Lines([cs EXCEPT ![c] = x]) = [Lines(cs) EXCEPT ![c] = Append(@, t)]
  BY <1>3 DEF Lines
<1> QED
  BY <1>3, <1>4, <1>5, <1>6

LEMMA WhereOne ==
  ASSUME NEW tk \in [Tasks -> TaskRec], NEW t \in Tasks, NEW r \in TaskRec
  PROVE  /\ Where([tk EXCEPT ![t] = r]) = [Where(tk) EXCEPT ![t] = At(r)]
         /\ [tk EXCEPT ![t] = r] \in [Tasks -> TaskRec]
         /\ [tk EXCEPT ![t] = r][t] = r
         /\ \A s \in Tasks : s # t => [tk EXCEPT ![t] = r][s] = tk[s]
  BY DEF Where

LEMMA Joins ==
  ASSUME NEW tk, NEW cs, NEW reg, Typed(tk, cs, reg), InLine(tk, cs, reg), reg # 0,
         NEW t \in Tasks, tk[t].pc \notin Waiting,
         NEW r \in TaskRec, r.pc = "pass", r.conn = reg
  PROVE  /\ Typed([tk EXCEPT ![t] = r], Enqueue(cs, reg, t), reg)
         /\ InLine([tk EXCEPT ![t] = r], Enqueue(cs, reg, t), reg)
<1> DEFINE uk == [tk EXCEPT ![t] = r]
           ds == Enqueue(cs, reg, t)
<1>1. tk \in [Tasks -> TaskRec] /\ cs \in Seq(ConnRec) /\ reg \in 1..Len(cs)
  BY DEF Typed
<1>2. /\ ds \in Seq(ConnRec) /\ Len(ds) = Len(cs)
      /\ \A d \in 1..Len(cs) : d # reg => ds[d] = cs[d]
      /\ ds[reg].queue = Append(cs[reg].queue, t) /\ ds[reg].closed = cs[reg].closed
      /\ Lines(ds) = [Lines(cs) EXCEPT ![reg] = Append(@, t)]
  BY <1>1, Enqueued
<1>3. /\ Where(uk) = [Where(tk) EXCEPT ![t] = reg] /\ uk \in [Tasks -> TaskRec]
      /\ uk[t] = r /\ \A s \in Tasks : s # t => uk[s] = tk[s]
  BY <1>1, WhereOne DEF At, Waiting
<1> HIDE DEF uk, ds
<1>4. Typed(uk, ds, reg)
  BY <1>1, <1>2, <1>3 DEF Typed
<1>5. Lined(Where(uk), Lines(ds), Tasks)
  <2>1. Where(tk)[t] = 0 /\ reg \in DOMAIN Lines(cs) /\ reg \in Nat
    BY <1>1 DEF Where, Lines, At
  <2>2. Lined(Where(tk), Lines(cs), Tasks)
    BY DEF InLine
  <2>3. Lined([Where(tk) EXCEPT ![t] = reg], [Lines(cs) EXCEPT ![reg] = Append(@, t)], Tasks)
    BY <2>1, <2>2, Enters
  <2> QED
    BY <2>3, <1>2, <1>3
<1>6. ASSUME uk[Change].pc = "close"
      PROVE  uk[Change].conn # reg /\ Rear(ds[uk[Change].conn].queue) = Change
  <2>1. Change \in Tasks /\ Change # t
    BY <1>6, <1>3 DEF Tasks
  <2>2. tk[Change].pc = "close" /\ uk[Change].conn = tk[Change].conn
    BY <2>1, <1>6, <1>3
  <2>3. tk[Change].conn # reg /\ tk[Change].conn \in 1..Len(cs)
    BY <2>1, <2>2 DEF InLine, Typed, Waiting
  <2> QED
    BY <2>2, <2>3, <1>2 DEF InLine
<1>7. ~ds[reg].closed
  BY <1>1, <1>2 DEF InLine
<1>8. \A c \in 1..Len(ds) : ds[c].closed => ds[c].queue = << >>
  BY <1>2, <1>7 DEF InLine
<1>9. \A s \in Tasks : /\ uk[s].pc \in Waiting => uk[s].conn # 0
                      /\ uk[s].pc = "close" => s = Change
  BY <1>3 DEF InLine
<1> QED
  BY <1>4, <1>5, <1>6, <1>7, <1>8, <1>9 DEF InLine, uk, ds

\* The change handler unregisters a connection and asks for its lock to close it.
LEMMA Pops ==
  ASSUME NEW tk, NEW cs, NEW reg, Typed(tk, cs, reg), InLine(tk, cs, reg), reg # 0,
         tk[Change].pc \notin Waiting,
         NEW r \in TaskRec, r.pc = "close", r.conn = reg
  PROVE  /\ Typed([tk EXCEPT ![Change] = r], Enqueue(cs, reg, Change), 0)
         /\ InLine([tk EXCEPT ![Change] = r], Enqueue(cs, reg, Change), 0)
<1> DEFINE uk == [tk EXCEPT ![Change] = r]
           ds == Enqueue(cs, reg, Change)
<1>1. /\ tk \in [Tasks -> TaskRec] /\ cs \in Seq(ConnRec) /\ reg \in 1..Len(cs)
      /\ Change \in Tasks
  BY DEF Typed, Tasks
<1>2. /\ ds \in Seq(ConnRec) /\ Len(ds) = Len(cs)
      /\ \A d \in 1..Len(cs) : d # reg => ds[d] = cs[d]
      /\ ds[reg].queue = Append(cs[reg].queue, Change) /\ ds[reg].closed = cs[reg].closed
      /\ Lines(ds) = [Lines(cs) EXCEPT ![reg] = Append(@, Change)]
  BY <1>1, Enqueued
<1>3. /\ Where(uk) = [Where(tk) EXCEPT ![Change] = reg] /\ uk \in [Tasks -> TaskRec]
      /\ uk[Change] = r /\ \A s \in Tasks : s # Change => uk[s] = tk[s]
  BY <1>1, WhereOne DEF At, Waiting
<1> HIDE DEF uk, ds
<1>4. Typed(uk, ds, 0)
  BY <1>1, <1>2, <1>3 DEF Typed
<1>5. Lined(Where(uk), Lines(ds), Tasks)
  <2>1. Where(tk)[Change] = 0 /\ reg \in DOMAIN Lines(cs) /\ reg \in Nat
    BY <1>1 DEF Where, Lines, At
  <2>2. Lined(Where(tk), Lines(cs), Tasks)
    BY DEF InLine
  <2>3. Lined([Where(tk) EXCEPT ![Change] = reg], [Lines(cs) EXCEPT ![reg] = Append(@, Change)], Tasks)
    BY <1>1, <2>1, <2>2, Enters
  <2> QED
    BY <2>3, <1>2, <1>3
<1>6. uk[Change].conn # 0 /\ Rear(ds[uk[Change].conn].queue) = Change
  <2>1. cs[reg] \in ConnRec
    BY <1>1
  <2>2. cs[reg].queue \in Seq(Tasks)
    BY <2>1 DEF ConnRec
  <2>3. Rear(Append(cs[reg].queue, Change)) = Change
    BY <1>1, <2>2 DEF Rear
  <2> QED
    BY <2>3, <1>2, <1>3
<1>7. ~ds[reg].closed
  BY <1>1, <1>2 DEF InLine
<1>8. \A c \in 1..Len(ds) : ds[c].closed => ds[c].queue = << >>
  BY <1>2, <1>7 DEF InLine
<1>9. \A s \in Tasks : /\ uk[s].pc \in Waiting => uk[s].conn # 0
                      /\ uk[s].pc = "close" => s = Change
  BY <1>1, <1>3 DEF InLine
<1> QED
  BY <1>4, <1>5, <1>6, <1>8, <1>9 DEF InLine, uk, ds

\* A task that does not wait does something else that is no waiting.
LEMMA Rests ==
  ASSUME NEW tk, NEW cs, NEW reg, Typed(tk, cs, reg), InLine(tk, cs, reg),
         NEW t \in Tasks, tk[t].pc \notin Waiting,
         NEW r \in TaskRec, r.pc \notin Waiting, r.conn \in 0..Len(cs)
  PROVE  /\ Typed([tk EXCEPT ![t] = r], cs, reg)
         /\ InLine([tk EXCEPT ![t] = r], cs, reg)
<1> DEFINE uk == [tk EXCEPT ![t] = r]
<1>1. tk \in [Tasks -> TaskRec]
  BY DEF Typed
<1>2. /\ Where(uk) = [Where(tk) EXCEPT ![t] = 0] /\ uk \in [Tasks -> TaskRec]
      /\ uk[t] = r /\ \A s \in Tasks : s # t => uk[s] = tk[s]
  BY <1>1, WhereOne DEF At
<1> HIDE DEF uk
<1>3. Where(uk) = Where(tk)
  <2>1. Where(tk)[t] = 0
    BY DEF Where, At
  <2> QED
    BY <2>1, <1>2 DEF Where
<1>4. Typed(uk, cs, reg)
  BY <1>1, <1>2 DEF Typed
<1>5. uk[Change].pc = "close" => tk[Change].pc = "close" /\ uk[Change].conn = tk[Change].conn
  BY <1>1, <1>2 DEF Tasks, Waiting
<1> QED
  BY <1>2, <1>3, <1>4, <1>5 DEF InLine, uk, Waiting

\* A connection is built and registered where there was none.
LEMMA Builds ==
  ASSUME NEW tk, NEW cs, Typed(tk, cs, 0), InLine(tk, cs, 0),
         NEW x \in ConnRec, x.queue = << >>, ~x.closed
  PROVE  /\ Typed(tk, Append(cs, x), Len(cs) + 1)
         /\ InLine(tk, Append(cs, x), Len(cs) + 1)
<1> DEFINE ds == Append(cs, x)
           n == Len(cs) + 1
<1>1. tk \in [Tasks -> TaskRec] /\ cs \in Seq(ConnRec) /\ \A t \in Tasks : tk[t].conn \in 0..Len(cs)
  BY DEF Typed
<1>2. /\ ds \in Seq(ConnRec) /\ Len(ds) = n /\ ds[n] = x /\ \A c \in 1..Len(cs) : ds[c] = cs[c]
      /\ n \in Nat /\ n # 0 /\ \A c \in 1..Len(ds) : c = n \/ c \in 1..Len(cs)
      /\ Len(cs) \in Nat /\ DOMAIN ds = 1..n /\ DOMAIN cs = 1..Len(cs) /\ n \notin 1..Len(cs)
  BY <1>1
<1> HIDE DEF ds, n
<1>3. Typed(tk, ds, n)
  BY <1>1, <1>2 DEF Typed
<1>4. Lined(Where(tk), Lines(ds), Tasks)
  <2> DEFINE W == Where(tk)  Q == Lines(cs)  R == Lines(ds)
  <2>1. Lined(W, Q, Tasks)
    BY DEF InLine
  <2>2. /\ DOMAIN Q = 1..Len(cs) /\ DOMAIN R = 1..n /\ R[n] = << >>
        /\ \A c \in 1..Len(cs) : R[c] = Q[c]
    BY <1>2 DEF Lines
  <2> HIDE DEF W, Q, R
  <2>3. \A c \in DOMAIN R : c = n \/ c \in DOMAIN Q
    BY <2>2, <1>2
  <2>4. 0 \notin DOMAIN R /\ \A c \in DOMAIN R : R[c] \in Seq(Tasks)
    <3>1. 0 \notin DOMAIN R /\ << >> \in Seq(Tasks)
      BY <2>2, <1>2
    <3>2. \A c \in DOMAIN Q : Q[c] \in Seq(Tasks)
      BY <2>1 DEF Lined
    <3> QED
      BY <3>1, <3>2, <2>2, <2>3
  <2>5. \A t \in Tasks : W[t] # 0 => /\ W[t] \in DOMAIN R
                                     /\ \E i \in 1..Len(R[W[t]]) : R[W[t]][i] = t
    BY <2>1, <2>2, <1>2 DEF Lined
  <2>6. \A c \in DOMAIN R : \A i \in 1..Len(R[c]) : W[R[c][i]] = c
    BY <2>1, <2>2, <2>3 DEF Lined
  <2>7. \A c \in DOMAIN R : \A i, j \in 1..Len(R[c]) : R[c][i] = R[c][j] => i = j
    BY <2>1, <2>2, <2>3 DEF Lined
  <2>8. Lined(W, R, Tasks)
    BY <2>1, <2>4, <2>5, <2>6, <2>7 DEF Lined
  <2> QED
    BY <2>8 DEF W, R
<1>5. ASSUME tk[Change].pc = "close"
      PROVE  tk[Change].conn # n /\ Rear(ds[tk[Change].conn].queue) = Change
  <2>1. tk[Change].conn \in 1..Len(cs)
    BY <1>1, <1>2, <1>5 DEF InLine, Waiting, Tasks
  <2> QED
    BY <2>1, <1>2, <1>5 DEF InLine
<1>6. \A c \in 1..Len(ds) : ds[c].closed => ds[c].queue = << >>
  BY <1>2 DEF InLine
<1>7. Typed(tk, ds, n) /\ InLine(tk, ds, n)
  BY <1>2, <1>3, <1>4, <1>5, <1>6 DEF InLine
<1> QED
  BY <1>7 DEF ds, n

\* Who holds a lock gives it back, and marks the connection: a pass makes it ready,
\* a close, which was the last in line, closes it.
LEMMA Departs ==
  ASSUME NEW tk, NEW cs, NEW reg, Typed(tk, cs, reg), InLine(tk, cs, reg),
         NEW t \in Tasks, NEW c, c = tk[t].conn, tk[t].pc \in Waiting, Head(cs[c].queue) = t,
         NEW x \in ConnRec, x.queue = Tail(cs[c].queue),
         \/ tk[t].pc = "pass" /\ x.closed = cs[c].closed
         \/ tk[t].pc = "close" /\ x.closed,
         NEW r \in TaskRec, r.pc \notin Waiting, r.conn \in 0..Len(cs)
  PROVE  /\ cs[c].queue # << >>
         /\ Typed([tk EXCEPT ![t] = r], [cs EXCEPT ![c] = x], reg)
         /\ InLine([tk EXCEPT ![t] = r], [cs EXCEPT ![c] = x], reg)
<1> DEFINE uk == [tk EXCEPT ![t] = r]
           ds == [cs EXCEPT ![c] = x]
           q == cs[c].queue
<1>1. /\ tk \in [Tasks -> TaskRec] /\ cs \in Seq(ConnRec) /\ c \in 1..Len(cs)
      /\ DOMAIN cs = 1..Len(cs) /\ Len(cs) \in Nat
      /\ tk[t].pc = "close" => t = Change
  BY DEF Typed, InLine
<1>2. /\ ds \in Seq(ConnRec) /\ Len(ds) = Len(cs) /\ ds[c] = x
      /\ \A d \in 1..Len(cs) : d # c => ds[d] = cs[d]
  BY <1>1, Replaced
<1>3. /\ Where(uk) = [Where(tk) EXCEPT ![t] = 0] /\ uk \in [Tasks -> TaskRec]
      /\ uk[t] = r /\ \A s \in Tasks : s # t => uk[s] = tk[s]
  BY <1>1, WhereOne DEF At
<1>4. Lines(ds) = [Lines(cs) EXCEPT ![c] = Tail(@)]
  BY <1>1 DEF Lines
<1> HIDE DEF uk, ds
<1>5. cs[c] \in ConnRec
  BY <1>1
<1>6. q \in Seq(Tasks)
  BY <1>5 DEF ConnRec
<1>q. cs[c].queue = q /\ x.queue = Tail(q) /\ Head(q) = t
  OBVIOUS
<1> HIDE DEF q
<1>7. /\ q # << >>
      /\ Lined(Where(uk), Lines(ds), Tasks)
  <2>1. Where(tk)[t] = c /\ c \in DOMAIN Lines(cs) /\ Lines(cs)[c] = q
    BY <1>1, <1>q DEF Where, Lines, At
  <2>2. Lined(Where(tk), Lines(cs), Tasks)
    BY DEF InLine
  <2>3. /\ Lines(cs)[c] # << >>
        /\ Lined([Where(tk) EXCEPT ![t] = 0], [Lines(cs) EXCEPT ![c] = Tail(@)], Tasks)
    BY <2>1, <2>2, <1>q, Leaves
  <2> QED
    BY <2>1, <2>3, <1>3, <1>4
<1>8. /\ Len(q) \in Nat \ {0} /\ q[1] = t /\ Len(Tail(q)) = Len(q) - 1
      /\ \A i \in 1..(Len(q) - 1) : Tail(q)[i] = q[i + 1]
  BY <1>6, <1>7, <1>q
<1>9. Typed(uk, ds, reg)
  BY <1>1, <1>2, <1>3 DEF Typed
<1>10. ASSUME uk[Change].pc = "close"
       PROVE  uk[Change].conn # reg /\ Rear(ds[uk[Change].conn].queue) = Change
  <2>1. Change \in Tasks /\ Change # t
    BY <1>10, <1>3 DEF Tasks, Waiting
  <2>2. /\ tk[Change].pc = "close" /\ uk[Change].conn = tk[Change].conn
        /\ tk[Change].conn # reg /\ Rear(cs[tk[Change].conn].queue) = Change
    BY <2>1, <1>10, <1>3 DEF InLine
  <2>3. tk[Change].conn \in 1..Len(cs)
    BY <2>1, <2>2, <1>1 DEF InLine, Typed, Waiting
  <2>4. CASE tk[Change].conn # c
    BY <2>2, <2>3, <2>4, <1>2
  <2>5. CASE tk[Change].conn = c
    <3>0. Len(q) \in Nat \ {0}
      BY <1>8
    <3>1. q[Len(q)] = Change
      BY <2>2, <2>5, <1>q DEF Rear
    <3>2. Len(q) # 1
      BY <3>1, <2>1, <1>8
    <3>3. Len(q) - 1 \in 1..(Len(q) - 1) /\ (Len(q) - 1) + 1 = Len(q)
      <4>1. \A m \in Nat \ {0} : m # 1 => m - 1 \in 1..(m - 1) /\ (m - 1) + 1 = m
        OBVIOUS
      <4> QED
        BY <4>1, <3>0, <3>2
    <3>4. Tail(q)[Len(q) - 1] = q[(Len(q) - 1) + 1]
      BY <3>3, <1>8
    <3>5. Rear(Tail(q)) = Change
      BY <3>1, <3>3, <3>4, <1>8 DEF Rear
    <3> QED
      BY <3>5, <2>2, <2>5, <1>2, <1>q
  <2> QED
    BY <2>4, <2>5
<1>11. tk[t].pc = "close" => c # reg /\ Tail(q) = << >>
  <2>1. SUFFICES ASSUME tk[t].pc = "close" PROVE c # reg /\ Tail(q) = << >>
    OBVIOUS
  <2>2. t = Change /\ c # reg /\ q[Len(q)] = Change
    BY <2>1, <1>1, <1>q DEF InLine, Rear
  <2>3. Lines(cs)[c] = q /\ c \in DOMAIN Lines(cs)
    BY <1>1, <1>q DEF Lines
  <2>4. \A d \in DOMAIN Lines(cs) : \A i, j \in 1..Len(Lines(cs)[d]) :
           Lines(cs)[d][i] = Lines(cs)[d][j] => i = j
    BY DEF InLine, Lined
  <2>4a. \A i, j \in 1..Len(q) : q[i] = q[j] => i = j
    BY ONLY <2>3, <2>4
  <2>4b. 1 \in 1..Len(q) /\ Len(q) \in 1..Len(q) /\ q[1] = q[Len(q)]
    BY <2>2, <1>8
  <2>5. Len(q) = 1
    BY ONLY <2>4a, <2>4b
  <2>6. Tail(q) \in Seq(Tasks) /\ Len(Tail(q)) = 0
    BY <2>5, <1>6, <1>7, <1>8
  <2>7. Tail(q) = << >>
    <3>1. \A p \in Seq(Tasks) : Len(p) = 0 => p = << >>
      OBVIOUS
    <3> QED
      BY <3>1, <2>6
  <2> QED
    BY <2>2, <2>7
<1>12. reg # 0 => ~ds[reg].closed
  BY <1>1, <1>2, <1>11 DEF InLine, Typed
<1>13. \A d \in 1..Len(ds) : ds[d].closed => ds[d].queue = << >>
  <2>1. tk[t].pc = "pass" => ~cs[c].closed
    BY <1>1, <1>7, <1>q DEF InLine
  <2>2. ds[c].closed => ds[c].queue = << >>
    BY <2>1, <1>2, <1>11, <1>q
  <2> QED
    BY <2>2, <1>2 DEF InLine
<1>14. \A s \in Tasks : /\ uk[s].pc \in Waiting => uk[s].conn # 0
                        /\ uk[s].pc = "close" => s = Change
  BY <1>3 DEF InLine, Waiting
<1> QED
  <2>1. InLine(uk, ds, reg)
    <3>1. uk[Change].pc = "close" =>
            uk[Change].conn # reg /\ Rear(ds[uk[Change].conn].queue) = Change
      BY <1>10
    <3> QED
      BY <3>1, <1>7, <1>12, <1>13, <1>14 DEF InLine
  <2> QED
    BY <2>1, <1>7, <1>9, <1>q DEF uk, ds

(* ---- the inductive invariant ---------------------------------------------- *)

Bounds ==
    /\ spec \in 0..MaxVersion /\ applied \in 0..MaxVersion /\ seen \in 0..MaxVersion
    /\ handled \in 0..MaxVersion /\ watched \in BOOLEAN /\ faults \in 0..MaxFaults
    /\ exit \in {"no", "stopping", "over"}

Shown == status \in 0..Len(conns)

\* What task t knows, its locals being r and sn the spec taken up last: who is to build
\* a connection has the spec and the Secret for it.
Local(t, r, sn) ==
    /\ r.pc = "read" => r.cred # 0 /\ sn # 0 /\ (t = Change => r.ver # 0)
    /\ r.pc = "close" /\ r.ver # 0 => r.cred # 0 /\ sn # 0
    /\ r.pc = "call" => r.conn # 0

Locals ==
    /\ watched => seen # 0
    /\ \A t \in Tasks : Local(t, task[t], seen)

Exiting ==
    /\ exit = "no" => \A c \in 1..Len(conns) : ~conns[c].dropped
    /\ exit # "no" => ~watched /\ task = [t \in Tasks |-> Idle]

IInv ==
    /\ Bounds /\ Shown /\ Typed(task, conns, registry) /\ InLine(task, conns, registry)
    /\ Locals /\ Exiting /\ AllTracked

LEMMA IdleType == Idle \in TaskRec /\ Idle.pc \notin Waiting /\ Idle.pc = "idle" /\ Idle.conn = 0
                  /\ \A t, sn : Local(t, Idle, sn)
  BY BoundsAssumption DEF Idle, TaskRec, Waiting, Local

LEMMA InvInit == Init => IInv
<1> SUFFICES ASSUME Init PROVE IInv
  OBVIOUS
<1>1. /\ task = [t \in Tasks |-> Idle] /\ conns = << >> /\ registry = 0 /\ status = 0
      /\ spec = 0 /\ applied = 0 /\ faults = 0 /\ exit = "no" /\ seen = 0 /\ watched = FALSE
      /\ handled = 0
  BY DEF Init
<1>2. conns \in Seq(ConnRec) /\ Len(conns) = 0 /\ DOMAIN conns = {} /\ 1..Len(conns) = {}
  BY <1>1
<1>3. \A t \in Tasks : task[t] = Idle
  BY <1>1
<1>4. Typed(task, conns, registry)
  BY <1>1, <1>2, <1>3, IdleType DEF Typed
<1>5. Lined(Where(task), Lines(conns), Tasks)
  <2>1. Where(task) = [t \in Tasks |-> 0]
    BY <1>3, IdleType DEF Where, At
  <2>2. DOMAIN Lines(conns) = {}
    BY <1>2 DEF Lines
  <2> QED
    BY <2>1, <2>2 DEF Lined
<1>6. InLine(task, conns, registry)
  BY <1>1, <1>2, <1>3, <1>5, IdleType DEF InLine, Tasks
<1>7. Bounds
  <2>1. 0 \in 0..MaxVersion /\ 0 \in 0..MaxFaults
    BY <1>2, BoundsAssumption
  <2> QED
    BY <2>1, <1>1 DEF Bounds
<1>8. Locals
  BY <1>1, <1>3, IdleType DEF Locals
<1>9. Exiting /\ AllTracked /\ Shown
  BY <1>1, <1>2 DEF Exiting, AllTracked, Shown
<1> QED
  BY <1>4, <1>6, <1>7, <1>8, <1>9 DEF IInv

\* A task that waits for nothing at a lock changes its own locals only.
LEMMA OwnStep ==
  ASSUME IInv, Bounds', status' \in 0..Len(conns), NEW t \in Tasks, task[t].pc \notin Waiting,
         NEW r \in TaskRec, r.pc \notin Waiting, r.conn \in 0..Len(conns),
         Local(t, r, seen'), task' = [task EXCEPT ![t] = r],
         UNCHANGED << registry, conns >>, exit = "no", exit' = "no",
         seen # 0 => seen' # 0, watched' => seen' # 0
  PROVE  IInv'
<1>1. /\ Typed(task', conns', registry') /\ InLine(task', conns', registry')
      /\ Typed(task, conns, registry) /\ InLine(task, conns, registry)
  BY Rests DEF IInv
<1>2. /\ task'[t] = r /\ \A s \in Tasks : s # t => task'[s] = task[s]
  BY <1>1 DEF Typed
<1>3. Locals'
  BY <1>2 DEF IInv, Locals, Local
<1>4. Exiting' /\ Shown'
  BY DEF IInv, Exiting, Shown
<1>5. task[Change].pc = "close" => task'[Change] = task[Change]
  BY <1>2 DEF Waiting, Tasks
<1>6. AllTracked'
  BY <1>5 DEF IInv, AllTracked
<1> QED
  BY <1>1, <1>3, <1>4, <1>6 DEF IInv

\* EnsureConnection of a task that waits at no lock, and of the change handler that
\* just left one.
LEMMA Ensured ==
  ASSUME NEW t \in Tasks, NEW r \in TaskRec, NEW cs,
         NEW tk, tk[t].pc \notin Waiting, \A x : [tk EXCEPT ![t] = x] = [task EXCEPT ![t] = x],
         task \in [Tasks -> TaskRec], Typed(tk, cs, registry), InLine(tk, cs, registry),
         EnsureConnection(t, r, cs)
  PROVE  /\ Typed(task', conns', registry) /\ InLine(task', conns', registry)
         /\ Len(conns') = Len(cs)
         /\ \A c \in 1..Len(cs) : /\ conns'[c].closed = cs[c].closed
                                  /\ conns'[c].dropped = cs[c].dropped
                                  /\ conns'[c].ready = cs[c].ready
         /\ \A s \in Tasks : s # t => task'[s] = task[s]
         /\ task'[t].pc \in {"read", "pass"} /\ task'[t].ver = r.ver /\ task'[t].cred = r.cred
<1>1. tk \in [Tasks -> TaskRec] /\ cs \in Seq(ConnRec) /\ registry \in 0..Len(cs)
  BY DEF Typed
<1>2. CASE registry # 0
  <2> DEFINE x == [r EXCEPT !.pc = "pass", !.conn = registry]
  <2>1. x \in TaskRec /\ x.pc = "pass" /\ x.conn = registry /\ x.ver = r.ver /\ x.cred = r.cred
    <3>1. registry \in Nat
      BY <1>1
    <3> QED
      BY <3>1 DEF TaskRec
  <2>2. task' = [task EXCEPT ![t] = x] /\ conns' = Enqueue(cs, registry, t)
    BY <1>2 DEF EnsureConnection, Join
  <2> HIDE DEF x
  <2>3. Typed(task', conns', registry) /\ InLine(task', conns', registry)
    <3>1. /\ Typed([tk EXCEPT ![t] = x], Enqueue(cs, registry, t), registry)
          /\ InLine([tk EXCEPT ![t] = x], Enqueue(cs, registry, t), registry)
      BY <1>2, <2>1, Joins
    <3> QED
      BY <3>1, <2>2
  <2>4. /\ Len(conns') = Len(cs)
        /\ \A c \in 1..Len(cs) : /\ conns'[c].closed = cs[c].closed
                                 /\ conns'[c].dropped = cs[c].dropped
                                 /\ conns'[c].ready = cs[c].ready
    <3>1. registry \in 1..Len(cs)
      BY <1>1, <1>2
    <3> QED
      BY <3>1, <1>1, <2>2, Enqueued
  <2> QED
    BY <2>1, <2>2, <2>3, <2>4
<1>3. CASE registry = 0
  <2> DEFINE x == [r EXCEPT !.pc = "read", !.conn = 0]
  <2>1. x \in TaskRec /\ x.pc = "read" /\ x.conn = 0 /\ x.ver = r.ver /\ x.cred = r.cred
    BY DEF TaskRec
  <2>2. task' = [task EXCEPT ![t] = x] /\ conns' = cs
    BY <1>3 DEF EnsureConnection
  <2> HIDE DEF x
  <2>3. x.pc \notin Waiting /\ x.conn \in 0..Len(cs)
    BY <1>1, <2>1 DEF Waiting
  <2>4. Typed(task', conns', registry) /\ InLine(task', conns', registry)
    <3>1. /\ Typed([tk EXCEPT ![t] = x], cs, registry)
          /\ InLine([tk EXCEPT ![t] = x], cs, registry)
      BY <1>1, <2>1, <2>3, Rests
    <3> QED
      BY <3>1, <1>1, <2>2
  <2> QED
    BY <2>1, <2>2, <2>4
<1> QED
  BY <1>2, <1>3

\* Nothing happens to tasks and connections.
LEMMA WorldStep ==
  ASSUME IInv, Bounds', status' \in 0..Len(conns), UNCHANGED << task, conns, registry, seen, exit >>,
         watched' => watched
  PROVE  IInv'
<1>1. Typed(task, conns, registry)' /\ InLine(task, conns, registry)'
  BY DEF IInv
<1>2. Locals' /\ Exiting' /\ AllTracked' /\ Shown'
  BY DEF IInv, Locals, Exiting, AllTracked, Shown
<1> QED
  BY <1>1, <1>2 DEF IInv

\* A task looks for its connection, and queues for it or reads the Secret.
LEMMA EnsureStep ==
  ASSUME IInv, Bounds', NEW t \in Tasks, task[t].pc \notin Waiting, NEW r \in TaskRec,
         EnsureConnection(t, r, conns), UNCHANGED << registry, status >>, exit = "no", exit' = "no",
         r.cred # 0, seen' # 0, t = Change => r.ver # 0
  PROVE  IInv'
<1>1. /\ task \in [Tasks -> TaskRec] /\ task[t] \in TaskRec
      /\ Typed(task, conns, registry) /\ InLine(task, conns, registry)
      /\ DOMAIN conns = 1..Len(conns)
  BY DEF IInv, Typed
<1>2. /\ Typed(task', conns', registry) /\ InLine(task', conns', registry)
      /\ Len(conns') = Len(conns)
      /\ \A c \in 1..Len(conns) : /\ conns'[c].closed = conns[c].closed
                                  /\ conns'[c].dropped = conns[c].dropped
      /\ \A s \in Tasks : s # t => task'[s] = task[s]
      /\ task'[t].pc \in {"read", "pass"} /\ task'[t].ver = r.ver /\ task'[t].cred = r.cred
  BY <1>1, Ensured
<1>3. Locals'
  BY <1>2 DEF IInv, Locals, Local
<1>4. Exiting' /\ Shown'
  BY <1>2 DEF IInv, Exiting, Shown
<1>5. task[Change].pc = "close" => task'[Change] = task[Change]
  BY <1>2 DEF Waiting, Tasks
<1>6. DOMAIN conns' = DOMAIN conns
  BY <1>1, <1>2 DEF Typed
<1>7. AllTracked'
  BY <1>1, <1>2, <1>5, <1>6 DEF IInv, AllTracked
<1> QED
  BY <1>2, <1>3, <1>4, <1>7 DEF IInv

\* The registered connection is popped, to be closed.
LEMMA PopStep ==
  ASSUME IInv, Bounds', task[Change].pc = "idle", registry # 0, NEW r \in TaskRec, PopAndClose(r),
         UNCHANGED status, exit = "no", exit' = "no", seen' # 0, r.ver # 0 => r.cred # 0,
         r.conn = 0
  PROVE  IInv'
<1>1. /\ task \in [Tasks -> TaskRec] /\ conns \in Seq(ConnRec) /\ registry \in 1..Len(conns)
      /\ Typed(task, conns, registry) /\ InLine(task, conns, registry)
      /\ Change \in Tasks /\ DOMAIN conns = 1..Len(conns)
  BY DEF IInv, Typed, Tasks
<1> DEFINE x == [r EXCEPT !.pc = "close", !.conn = registry]
<1>2. x \in TaskRec /\ x.pc = "close" /\ x.conn = registry /\ x.ver = r.ver /\ x.cred = r.cred
  <2>1. registry \in Nat
    BY <1>1
  <2> QED
    BY <2>1 DEF TaskRec
<1>3. /\ task' = [task EXCEPT ![Change] = x] /\ conns' = Enqueue(conns, registry, Change)
      /\ registry' = 0
  BY DEF PopAndClose
<1> HIDE DEF x
<1>4. /\ Typed(task', conns', registry') /\ InLine(task', conns', registry')
  <2>1. task[Change].pc \notin Waiting
    BY DEF Waiting
  <2> QED
    BY <1>1, <1>2, <1>3, <2>1, Pops
<1>5. /\ task'[Change] = x /\ \A s \in Tasks : s # Change => task'[s] = task[s]
  BY <1>1, <1>3
<1>6. /\ Len(conns') = Len(conns) /\ DOMAIN conns' = 1..Len(conns)
      /\ \A c \in 1..Len(conns) : /\ conns'[c].closed = conns[c].closed
                                  /\ conns'[c].dropped = conns[c].dropped
  <2>1. conns' \in Seq(ConnRec)
    BY <1>4 DEF Typed
  <2>2. /\ Len(conns') = Len(conns)
        /\ \A c \in 1..Len(conns) : c # registry => conns'[c] = conns[c]
        /\ conns'[registry].closed = conns[registry].closed
        /\ conns'[registry].dropped = conns[registry].dropped
    BY ONLY <1>1, <1>3, Enqueued
  <2> QED
    BY <1>1, <2>1, <2>2
<1>7. Locals'
  BY <1>2, <1>5 DEF IInv, Locals, Local
<1>8. Exiting' /\ Shown'
  BY <1>6 DEF IInv, Exiting, Shown
<1>9. AllTracked'
  BY <1>1, <1>2, <1>3, <1>5, <1>6 DEF IInv, AllTracked
<1> QED
  BY <1>4, <1>7, <1>8, <1>9 DEF IInv

\* The Secret is read: the connection that another task registered meanwhile is joined,
\* or one is built.
LEMMA ReadStep ==
  ASSUME IInv, NEW t \in Tasks, SecretRead(t)
  PROVE  IInv'
<1>1. /\ task \in [Tasks -> TaskRec] /\ task[t] \in TaskRec /\ conns \in Seq(ConnRec)
      /\ registry \in 0..Len(conns) /\ Len(conns) \in Nat
      /\ Typed(task, conns, registry) /\ InLine(task, conns, registry)
      /\ DOMAIN conns = 1..Len(conns) /\ task[t].pc = "read" /\ task[t].pc \notin Waiting
      /\ Local(t, task[t], seen) /\ Bounds /\ Bounds'
      /\ UNCHANGED << seen, watched, status, exit >>
  BY DEF IInv, Typed, Locals, SecretRead, Waiting, Bounds, world, kopf
<1>2. exit = "no"
  BY <1>1, IdleType DEF IInv, Exiting, Bounds
<1>3. CASE registry # 0
  <2> DEFINE x == [task[t] EXCEPT !.pc = "pass", !.conn = registry]
  <2>1. x \in TaskRec /\ x.pc = "pass" /\ x.conn = registry
    <3>1. registry \in Nat
      BY <1>1
    <3> QED
      BY <3>1, <1>1 DEF TaskRec
  <2>2. /\ task' = [task EXCEPT ![t] = x] /\ conns' = Enqueue(conns, registry, t)
        /\ registry' = registry
    BY <1>3 DEF SecretRead, Join
  <2> HIDE DEF x
  <2>3. Typed(task', conns', registry') /\ InLine(task', conns', registry')
    BY <1>1, <1>3, <2>1, <2>2, Joins
  <2>4. /\ Len(conns') = Len(conns) /\ DOMAIN conns' = 1..Len(conns)
        /\ \A c \in 1..Len(conns) : /\ conns'[c].closed = conns[c].closed
                                    /\ conns'[c].dropped = conns[c].dropped
    <3>1. registry \in 1..Len(conns) /\ conns' \in Seq(ConnRec)
      BY <1>1, <1>3, <2>3 DEF Typed
    <3> QED
      BY <3>1, <1>1, <2>2, Enqueued
  <2>5. task'[t] = x /\ \A s \in Tasks : s # t => task'[s] = task[s]
    BY <1>1, <2>2
  <2>6. Locals'
    BY <1>1, <2>1, <2>5 DEF IInv, Locals, Local
  <2>7. Exiting' /\ Shown'
    BY <1>1, <1>2, <2>4 DEF IInv, Exiting, Shown
  <2>8. AllTracked'
    <3>1. task[Change].pc = "close" => task'[Change] = task[Change]
      BY <1>1, <2>5 DEF Tasks
    <3> QED
      BY <3>1, <1>1, <2>2, <2>4 DEF IInv, AllTracked
  <2> QED
    BY <1>1, <2>3, <2>6, <2>7, <2>8 DEF IInv
<1>4. CASE registry = 0
  <2> DEFINE v == IF t = Change THEN task[t].ver ELSE seen
             y == NewConn(v, task[t].cred)
             cs == Append(conns, y)
             n == Len(conns) + 1
             x == [task[t] EXCEPT !.pc = "pass", !.conn = n]
  <2>1. /\ y \in ConnRec /\ y.queue = << >> /\ ~y.closed /\ ~y.dropped
    <3>1. v \in 1..MaxVersion /\ task[t].cred \in 1..MaxVersion
      BY <1>1, BoundsAssumption DEF Local, Bounds, TaskRec
    <3> HIDE DEF v
    <3> QED
      BY <3>1 DEF NewConn, ConnRec
  <2>2. x \in TaskRec /\ x.pc = "pass" /\ x.conn = n
    <3>1. n \in Nat
      BY <1>1
    <3> HIDE DEF n
    <3> QED
      BY <3>1, <1>1 DEF TaskRec
  <2>3. task' = [task EXCEPT ![t] = x] /\ conns' = Enqueue(cs, n, t) /\ registry' = n
    BY <1>4 DEF SecretRead, Join
  <2> HIDE DEF y, v, x
  <2>4. /\ cs \in Seq(ConnRec) /\ Len(cs) = n /\ n \in 1..n /\ n # 0 /\ cs[n] = y
        /\ \A c \in 1..Len(conns) : cs[c] = conns[c] /\ c \in 1..n
        /\ \A c \in 1..n : c = n \/ c \in 1..Len(conns)
    BY <1>1, <2>1
  <2>5. Typed(task, cs, n) /\ InLine(task, cs, n)
    BY <1>1, <1>4, <2>1, Builds
  <2> HIDE DEF cs, n
  <2>6. Typed(task', conns', registry') /\ InLine(task', conns', registry')
    BY <1>1, <2>2, <2>3, <2>4, <2>5, Joins
  <2>7. /\ Len(conns') = n /\ DOMAIN conns' = 1..n
        /\ \A c \in 1..n : /\ conns'[c].closed = cs[c].closed
                           /\ conns'[c].dropped = cs[c].dropped
    <3>1. conns' \in Seq(ConnRec)
      BY <2>6 DEF Typed
    <3> QED
      BY <3>1, <2>3, <2>4, Enqueued
  <2>8. task'[t] = x /\ \A s \in Tasks : s # t => task'[s] = task[s]
    BY <1>1, <2>3
  <2>9. Locals'
    BY <1>1, <2>2, <2>8 DEF IInv, Locals, Local
  <2>10. Exiting'
    BY <1>1, <1>2, <2>1, <2>4, <2>7 DEF IInv, Exiting
  <2>11. Shown'
    <3>1. status \in 0..Len(conns) /\ Len(conns) + 1 = n
      BY DEF IInv, Shown, n
    <3> QED
      BY <3>1, <1>1, <2>7 DEF Shown
  <2>12. AllTracked'
    <3>1. task[Change].pc = "close" => task'[Change] = task[Change]
      BY <1>1, <2>8 DEF Tasks
    <3> QED
      BY <3>1, <1>1, <1>4, <2>3, <2>4, <2>7 DEF IInv, AllTracked
  <2> QED
    BY <1>1, <2>6, <2>9, <2>10, <2>11, <2>12 DEF IInv
<1> QED
  BY <1>3, <1>4

\* What a connection is after a step that takes the head off its line.
LEMMA Marked ==
  ASSUME NEW y \in ConnRec, NEW q \in Seq(Tasks)
  PROVE  /\ [[y EXCEPT !.queue = q] EXCEPT !.closed = TRUE] \in ConnRec
         /\ [[y EXCEPT !.queue = q] EXCEPT !.closed = TRUE].queue = q
         /\ [[y EXCEPT !.queue = q] EXCEPT !.closed = TRUE].closed
         /\ [[y EXCEPT !.queue = q] EXCEPT !.closed = TRUE].dropped = y.dropped
         /\ [[y EXCEPT !.queue = q] EXCEPT !.ready = TRUE] \in ConnRec
         /\ [[y EXCEPT !.queue = q] EXCEPT !.ready = TRUE].queue = q
         /\ [[y EXCEPT !.queue = q] EXCEPT !.ready = TRUE].closed = y.closed
         /\ [[y EXCEPT !.queue = q] EXCEPT !.ready = TRUE].dropped = y.dropped
         /\ [[y EXCEPT !.queue = q] EXCEPT !.ready = TRUE].ready
  BY DEF ConnRec

\* Who waits at a lock is in its line, which is not empty.
LEMMA InFront ==
  ASSUME IInv, NEW t \in Tasks, task[t].pc \in Waiting, Holds(t)
  PROVE  /\ task[t].conn \in 1..Len(conns) /\ Head(conns[task[t].conn].queue) = t
         /\ conns[task[t].conn] \in ConnRec
         /\ Tail(conns[task[t].conn].queue) \in Seq(Tasks)
<1> DEFINE c == task[t].conn  q == conns[c].queue
<1>1. /\ conns \in Seq(ConnRec) /\ c \in 1..Len(conns) /\ Head(q) = t
      /\ Lined(Where(task), Lines(conns), Tasks) /\ DOMAIN conns = 1..Len(conns)
  BY DEF IInv, Typed, InLine, Holds
<1>2. Where(task)[t] = c /\ c # 0 /\ Lines(conns)[c] = q
  BY <1>1 DEF Where, At, Lines
<1>3. PICK i \in 1..Len(q) : q[i] = t
  BY <1>1, <1>2 DEF Lined
<1>4. conns[c] \in ConnRec
  BY <1>1
<1>5. q \in Seq(Tasks)
  BY <1>4 DEF ConnRec
<1> HIDE DEF q
<1>6. q # << >>
  BY <1>3
<1>7. Tail(q) \in Seq(Tasks)
  BY <1>5, <1>6
<1> QED
  BY <1>1, <1>4, <1>7 DEF q

LEMMA PassStep ==
  ASSUME IInv, NEW t \in Tasks, PassEnds(t)
  PROVE  IInv'
<1> DEFINE c == task[t].conn
           x == [[conns[c] EXCEPT !.queue = Tail(@)] EXCEPT !.ready = TRUE]
           r == [task[t] EXCEPT !.pc = "patch"]
<1>1. /\ task \in [Tasks -> TaskRec] /\ task[t] \in TaskRec /\ conns \in Seq(ConnRec)
      /\ Typed(task, conns, registry) /\ InLine(task, conns, registry)
      /\ DOMAIN conns = 1..Len(conns) /\ task[t].pc = "pass" /\ task[t].pc \in Waiting
      /\ Holds(t) /\ Bounds /\ Bounds'
      /\ UNCHANGED << seen, watched, status, exit, registry >>
  BY DEF IInv, Typed, PassEnds, Waiting, Bounds, world, kopf
<1>2. exit = "no"
  BY <1>1, IdleType DEF IInv, Exiting, Bounds
<1>3. /\ c \in 1..Len(conns) /\ Head(conns[c].queue) = t /\ conns[c] \in ConnRec
      /\ Tail(conns[c].queue) \in Seq(Tasks)
  BY <1>1, InFront
<1>4. /\ x \in ConnRec /\ x.queue = Tail(conns[c].queue) /\ x.closed = conns[c].closed
      /\ x.dropped = conns[c].dropped
  BY <1>3, Marked
<1>5. /\ r \in TaskRec /\ r.pc = "patch" /\ r.pc \notin Waiting /\ r.conn = c
  BY <1>1 DEF TaskRec, Waiting
<1>6. conns' = [conns EXCEPT ![c] = x] /\ task' = [task EXCEPT ![t] = r]
  BY <1>1, <1>3 DEF PassEnds, Released
<1> HIDE DEF x, r
<1>7. r.conn \in 0..Len(conns)
  BY <1>3, <1>5
<1>8. Typed(task', conns', registry') /\ InLine(task', conns', registry')
  BY <1>1, <1>3, <1>4, <1>5, <1>6, <1>7, Departs
<1>9. /\ Len(conns') = Len(conns) /\ DOMAIN conns' = 1..Len(conns)
      /\ \A d \in 1..Len(conns) : /\ conns'[d].closed = conns[d].closed
                                  /\ conns'[d].dropped = conns[d].dropped
  BY <1>1, <1>3, <1>4, <1>6
<1>10. task'[t] = r /\ \A s \in Tasks : s # t => task'[s] = task[s]
  BY <1>1, <1>6
<1>11. Locals'
  BY <1>1, <1>5, <1>10 DEF IInv, Locals, Local
<1>12. Exiting' /\ Shown'
  BY <1>1, <1>2, <1>9 DEF IInv, Exiting, Shown
<1>13. AllTracked'
  <2>1. task[Change].pc = "close" => task'[Change] = task[Change]
    BY <1>1, <1>10 DEF Tasks
  <2> QED
    BY <2>1, <1>1, <1>9 DEF IInv, AllTracked
<1> QED
  BY <1>1, <1>8, <1>11, <1>12, <1>13 DEF IInv

LEMMA ClosedStep ==
  ASSUME IInv, Closed
  PROVE  IInv'
<1> DEFINE c == task[Change].conn
           x == [[conns[c] EXCEPT !.queue = Tail(@)] EXCEPT !.closed = TRUE]
           cs == [conns EXCEPT ![c] = x]
<1>1. /\ task \in [Tasks -> TaskRec] /\ task[Change] \in TaskRec /\ conns \in Seq(ConnRec)
      /\ Typed(task, conns, registry) /\ InLine(task, conns, registry)
      /\ DOMAIN conns = 1..Len(conns) /\ task[Change].pc = "close" /\ task[Change].pc \in Waiting
      /\ Holds(Change) /\ Change \in Tasks /\ Local(Change, task[Change], seen)
      /\ UNCHANGED << seen, watched, status, exit, registry, faults, spec, applied >>
  BY DEF IInv, Typed, Closed, Waiting, Tasks, Locals, world
<1>2. exit = "no"
  BY <1>1, IdleType DEF IInv, Exiting, Bounds
<1>3. /\ c \in 1..Len(conns) /\ Head(conns[c].queue) = Change /\ conns[c] \in ConnRec
      /\ Tail(conns[c].queue) \in Seq(Tasks)
  BY <1>1, InFront
<1>4. /\ x \in ConnRec /\ x.queue = Tail(conns[c].queue) /\ x.closed
      /\ x.dropped = conns[c].dropped
  BY <1>3, Marked
<1>5. [Released(c) EXCEPT ![c].closed = TRUE] = cs
  BY <1>1, <1>3 DEF Released
<1> HIDE DEF x
<1>6. /\ Len(cs) = Len(conns) /\ cs \in Seq(ConnRec)
      /\ \A d \in 1..Len(conns) : d # c => cs[d] = conns[d]
      /\ cs[c].closed /\ \A d \in 1..Len(conns) : cs[d].dropped = conns[d].dropped
  BY <1>1, <1>3, <1>4
<1>7. /\ Typed([task EXCEPT ![Change] = Idle], cs, registry)
      /\ InLine([task EXCEPT ![Change] = Idle], cs, registry)
  <2>1. Idle.conn \in 0..Len(conns)
    BY <1>1, IdleType
  <2> QED
    BY <2>1, <1>1, <1>3, <1>4, IdleType, Departs
<1> HIDE DEF cs
<1>8. CASE task[Change].ver # 0
  <2>1. EnsureConnection(Change, task[Change], cs) /\ handled' = handled
    BY <1>5, <1>8 DEF Closed
  <2>2. /\ Typed(task', conns', registry) /\ InLine(task', conns', registry)
        /\ Len(conns') = Len(cs)
        /\ \A d \in 1..Len(cs) : /\ conns'[d].closed = cs[d].closed
                                 /\ conns'[d].dropped = cs[d].dropped
        /\ \A s \in Tasks : s # Change => task'[s] = task[s]
        /\ task'[Change].pc \in {"read", "pass"}
        /\ task'[Change].ver = task[Change].ver /\ task'[Change].cred = task[Change].cred
    <3> DEFINE tk == [task EXCEPT ![Change] = Idle]
    <3>1. tk[Change].pc \notin Waiting /\ \A y : [tk EXCEPT ![Change] = y] = [task EXCEPT ![Change] = y]
      BY <1>1, IdleType
    <3>2. Typed(tk, cs, registry) /\ InLine(tk, cs, registry)
      BY <1>7
    <3> HIDE DEF tk
    <3> QED
      BY <1>1, <2>1, <3>1, <3>2, Ensured
  <2>3. Locals'
    BY <1>1, <1>8, <2>2 DEF IInv, Locals, Local
  <2>4. Exiting' /\ Shown' /\ Bounds'
    BY <1>1, <1>2, <1>6, <2>1, <2>2 DEF IInv, Exiting, Shown, Bounds
  <2>5. AllTracked'
    <3>1. DOMAIN conns' = 1..Len(conns)
      BY <1>6, <2>2 DEF Typed
    <3> QED
      BY <3>1, <1>1, <1>3, <1>6, <2>2 DEF IInv, AllTracked
  <2> QED
    BY <1>1, <2>2, <2>3, <2>4, <2>5 DEF IInv
<1>9. CASE task[Change].ver = 0
  <2>1. task' = [task EXCEPT ![Change] = Idle] /\ conns' = cs /\ handled' = 0
    BY <1>5, <1>9 DEF Closed
  <2>2. task'[Change] = Idle /\ \A s \in Tasks : s # Change => task'[s] = task[s]
    BY <1>1, <2>1
  <2>3. Locals'
    BY <1>1, <2>2, IdleType DEF IInv, Locals
  <2>4. Exiting' /\ Shown'
    BY <1>1, <1>2, <1>6, <2>1 DEF IInv, Exiting, Shown
  <2>5. Bounds'
    <3>1. 0 \in 0..MaxVersion
      BY BoundsAssumption
    <3> QED
      BY <3>1, <1>1, <2>1 DEF IInv, Bounds
  <2>6. AllTracked'
    BY <1>1, <1>3, <1>6, <2>1, <2>2 DEF IInv, AllTracked
  <2> QED
    BY <1>1, <1>7, <2>1, <2>3, <2>4, <2>5, <2>6 DEF IInv
<1> QED
  BY <1>8, <1>9

LEMMA CallStep ==
  ASSUME IInv, QueryCalls
  PROVE  IInv'
<1> DEFINE c == task[Query].conn
           x == [conns[c] EXCEPT !.reopened = TRUE]
<1>1. /\ conns \in Seq(ConnRec) /\ c \in 1..Len(conns) /\ DOMAIN conns = 1..Len(conns)
      /\ Typed(task, conns, registry) /\ InLine(task, conns, registry)
      /\ UNCHANGED << task, seen, watched, status, exit, registry >> /\ Bounds'
  <2>1. task[Query].conn # 0 /\ Query \in Tasks
    BY DEF IInv, Locals, Local, QueryCalls, Tasks
  <2> QED
    BY <2>1 DEF IInv, Typed, QueryCalls, Bounds, world, kopf
<1>2. conns[c] \in ConnRec
  BY <1>1
<1>3. /\ x \in ConnRec /\ x.queue = conns[c].queue /\ x.closed = conns[c].closed
      /\ x.dropped = conns[c].dropped
  BY <1>2 DEF ConnRec
<1>4. conns' = [conns EXCEPT ![c] = x]
  BY <1>1 DEF QueryCalls
<1> HIDE DEF x
<1>5. /\ Len(conns') = Len(conns) /\ DOMAIN conns' = 1..Len(conns) /\ conns' \in Seq(ConnRec)
      /\ \A d \in 1..Len(conns) : /\ conns'[d].closed = conns[d].closed
                                  /\ conns'[d].dropped = conns[d].dropped
                                  /\ conns'[d].queue = conns[d].queue
  BY <1>1, <1>3, <1>4
<1>6. Lines(conns') = Lines(conns)
  BY <1>1, <1>5 DEF Lines
<1>7. Typed(task', conns', registry')
  BY <1>1, <1>5 DEF Typed
<1>8. InLine(task', conns', registry')
  <2>1. task[Change].pc = "close" => task[Change].conn \in 1..Len(conns)
    BY <1>1 DEF InLine, Typed, Waiting, Tasks
  <2>2. registry # 0 => registry \in 1..Len(conns)
    BY <1>1 DEF Typed
  <2> QED
    BY <2>1, <2>2, <1>1, <1>5, <1>6 DEF InLine
<1>9. Locals' /\ Exiting' /\ Shown' /\ AllTracked'
  BY <1>1, <1>5 DEF IInv, Locals, Exiting, Shown, AllTracked
<1> QED
  BY <1>1, <1>7, <1>8, <1>9 DEF IInv

\* A sequence whose elements are replaced one by one.
LEMMA Mapped ==
  ASSUME NEW S, NEW cs \in Seq(S), NEW f, f = [c \in DOMAIN cs |-> f[c]],
         \A c \in 1..Len(cs) : f[c] \in S
  PROVE  f \in Seq(S) /\ Len(f) = Len(cs) /\ DOMAIN f = 1..Len(cs)
<1>1. Len(cs) \in Nat /\ DOMAIN cs = 1..Len(cs)
  OBVIOUS
<1>2. f \in [1..Len(cs) -> S]
  BY <1>1
<1>3. \A n \in Nat : f \in [1..n -> S] => f \in Seq(S) /\ Len(f) = n
  OBVIOUS
<1> QED
  BY <1>1, <1>2, <1>3

LEMMA ExitStep ==
  ASSUME IInv, ExitStarts
  PROVE  IInv'
<1>1. /\ conns \in Seq(ConnRec) /\ DOMAIN conns = 1..Len(conns)
      /\ registry \in 0..Len(conns) /\ InLine(task, conns, registry)
      /\ UNCHANGED << seen, status, registry >> /\ exit = "no" /\ exit' = "stopping" /\ ~watched'
      /\ task' = [t \in Tasks |-> Idle]
  <2>1. conns \in Seq(ConnRec) /\ registry \in 0..Len(conns) /\ InLine(task, conns, registry)
    BY DEF IInv, Typed
  <2>2. /\ UNCHANGED << seen, status, registry >> /\ exit = "no" /\ exit' = "stopping"
        /\ task' = [t \in Tasks |-> Idle] /\ watched' = FALSE
    BY DEF ExitStarts
  <2> QED
    BY <2>1, <2>2
<1>2. \A t \in Tasks : task'[t] = Idle
  BY <1>1
<1> DEFINE d(c) == task[Change].pc = "close" /\ task[Change].conn = c
<1>3. /\ conns' = [c \in DOMAIN conns |-> [conns[c] EXCEPT !.queue = << >>, !.dropped = d(c)]]
  BY DEF ExitStarts
<1>4. ASSUME NEW c \in 1..Len(conns)
      PROVE  /\ conns'[c] \in ConnRec /\ conns'[c].queue = << >>
             /\ conns'[c].closed = conns[c].closed /\ (conns'[c].dropped <=> d(c))
  <2>1. conns[c] \in ConnRec /\ << >> \in Seq(Tasks) /\ d(c) \in BOOLEAN
    BY <1>1, <1>4
  <2>2. conns'[c] = [conns[c] EXCEPT !.queue = << >>, !.dropped = d(c)]
    BY <1>1, <1>3, <1>4
  <2> HIDE DEF d
  <2> QED
    BY <2>1, <2>2 DEF ConnRec
<1>5. conns' \in Seq(ConnRec) /\ Len(conns') = Len(conns) /\ DOMAIN conns' = 1..Len(conns)
  <2>1. conns' = [c \in DOMAIN conns |-> conns'[c]]
    BY <1>3
  <2> QED
    BY <2>1, <1>1, <1>4, Mapped
<1> HIDE DEF d
<1>6. Typed(task', conns', registry')
  BY <1>1, <1>2, <1>5, IdleType DEF Typed
<1>7. Lined(Where(task'), Lines(conns'), Tasks)
  <2>1. Where(task') = [t \in Tasks |-> 0]
    BY <1>2, IdleType DEF Where, At
  <2>2. /\ DOMAIN Lines(conns') = 1..Len(conns)
        /\ \A c \in 1..Len(conns) : Lines(conns')[c] = << >>
    BY <1>4, <1>5 DEF Lines
  <2>3. 0 \notin 1..Len(conns) /\ << >> \in Seq(Tasks) /\ 1..Len(<< >>) = {}
    BY <1>1
  <2> DEFINE W == Where(task')  Q == Lines(conns')
  <2>4. /\ W \in [Tasks -> Nat] /\ DOMAIN Q = 1..Len(conns) /\ \A t \in Tasks : W[t] = 0
        /\ \A c \in 1..Len(conns) : Q[c] = << >>
    BY <2>1, <2>2
  <2> HIDE DEF W, Q
  <2>5. Lined(W, Q, Tasks)
    BY <2>3, <2>4 DEF Lined
  <2> QED
    BY <2>5 DEF W, Q
<1>8. InLine(task', conns', registry')
  <2>1. \A t \in Tasks : task'[t].pc \notin Waiting /\ task'[t].pc # "close"
    BY <1>2, IdleType
  <2>2. registry # 0 => ~conns'[registry].closed
    BY <1>1, <1>4 DEF InLine
  <2>3. Change \in Tasks
    BY DEF Tasks
  <2> QED
    BY <1>1, <1>4, <1>5, <1>7, <2>1, <2>2, <2>3 DEF InLine
<1>9. Locals'
  BY <1>1, <1>2, IdleType DEF Locals
<1>10. Exiting' /\ Shown'
  BY <1>1, <1>5 DEF IInv, Exiting, Shown
<1>11. Bounds'
  BY <1>1 DEF IInv, Bounds, ExitStarts, world
<1>12. AllTracked'
  <2>1. ASSUME NEW c \in 1..Len(conns) PROVE conns'[c].closed \/ conns'[c].dropped \/ c = registry
    <3>1. ~conns[c].dropped
      BY <1>1, <2>1 DEF IInv, Exiting
    <3> QED
      BY <3>1, <1>1, <1>4 DEF IInv, AllTracked, d
  <2> QED
    BY <2>1, <1>1, <1>5 DEF AllTracked
<1> QED
  BY <1>6, <1>8, <1>9, <1>10, <1>11, <1>12 DEF IInv

LEMMA CleanStep ==
  ASSUME IInv, CleanUp
  PROVE  IInv'
<1>1. /\ conns \in Seq(ConnRec) /\ DOMAIN conns = 1..Len(conns) /\ Len(conns) \in Nat
      /\ Lined(Where(task), Lines(conns), Tasks)
      /\ UNCHANGED << task, seen, watched, status >> /\ exit = "stopping" /\ exit' = "over"
      /\ registry' = 0 /\ ~watched /\ task = [t \in Tasks |-> Idle]
  <2>1. conns \in Seq(ConnRec) /\ Lined(Where(task), Lines(conns), Tasks)
    BY DEF IInv, Typed, InLine
  <2>2. /\ UNCHANGED << task, seen, watched, status >> /\ exit = "stopping" /\ exit' = "over"
        /\ registry' = 0
    BY DEF CleanUp, kopf
  <2>3. ~watched /\ task = [t \in Tasks |-> Idle]
    BY <2>2 DEF IInv, Exiting
  <2> QED
    BY <2>1, <2>2, <2>3
<1>2. \A t \in Tasks : task[t] = Idle
  BY <1>1
<1>3. PICK hangs \in BOOLEAN :
         conns' = [c \in DOMAIN conns |->
                      IF c = registry THEN [conns[c] EXCEPT !.closed = ~hangs, !.dropped = hangs]
                                      ELSE conns[c]]
  BY DEF CleanUp
<1>4. ASSUME NEW c \in 1..Len(conns)
      PROVE  /\ conns'[c] \in ConnRec /\ conns'[c].queue = conns[c].queue
             /\ c = registry => conns'[c].closed \/ conns'[c].dropped
             /\ c # registry => conns'[c] = conns[c]
  <2>1. conns[c] \in ConnRec
    BY <1>1, <1>4
  <2>2. CASE c = registry
    <3>1. conns'[c] = [conns[c] EXCEPT !.closed = ~hangs, !.dropped = hangs]
      BY <1>1, <1>3, <2>2
    <3> QED
      BY <2>1, <2>2, <3>1 DEF ConnRec
  <2>3. CASE c # registry
    BY <1>1, <1>3, <2>1, <2>3
  <2> QED
    BY <2>2, <2>3
<1>5. conns' \in Seq(ConnRec) /\ Len(conns') = Len(conns) /\ DOMAIN conns' = 1..Len(conns)
  <2>1. conns' = [c \in DOMAIN conns |-> conns'[c]]
    BY <1>3
  <2> QED
    BY <2>1, <1>1, <1>4, Mapped
<1>6. Typed(task', conns', registry')
  BY <1>1, <1>2, <1>5, IdleType DEF IInv, Typed
<1>7. ASSUME NEW c \in 1..Len(conns) PROVE conns[c].queue = << >>
  <2>1. Lines(conns)[c] = conns[c].queue /\ c \in DOMAIN Lines(conns)
    BY <1>1, <1>7 DEF Lines
  <2>2. conns[c].queue \in Seq(Tasks)
    BY <2>1, <1>1 DEF Lined
  <2>3. \A i \in 1..Len(conns[c].queue) : FALSE
    <3>1. ASSUME NEW i \in 1..Len(conns[c].queue) PROVE FALSE
      <4>1. Where(task)[conns[c].queue[i]] = c /\ conns[c].queue[i] \in Tasks
        BY <2>1, <2>2, <1>1 DEF Lined
      <4>2. Where(task)[conns[c].queue[i]] = 0
        BY <4>1, <1>2, IdleType DEF Where, At
      <4> QED
        BY <4>1, <4>2
    <3> QED
      BY <3>1
  <2>4. \A q \in Seq(Tasks) : (\A i \in 1..Len(q) : FALSE) => q = << >>
    OBVIOUS
  <2> QED
    BY <2>2, <2>3, <2>4
<1>8. InLine(task', conns', registry')
  <2>1. \A t \in Tasks : task[t].pc \notin Waiting /\ task[t].pc # "close"
    BY <1>2, IdleType
  <2>2. Lines(conns') = Lines(conns) /\ Change \in Tasks
    BY <1>1, <1>4, <1>5 DEF Lines, Tasks
  <2> QED
    BY <1>1, <1>4, <1>5, <1>7, <2>1, <2>2 DEF InLine
<1>9. Locals'
  BY <1>1 DEF IInv, Locals
<1>10. Exiting' /\ Shown'
  BY <1>1, <1>5 DEF IInv, Exiting, Shown
<1>11. Bounds'
  BY <1>1 DEF IInv, Bounds, CleanUp, world, kopf
<1>12. AllTracked'
  BY <1>1, <1>2, <1>4, <1>5, IdleType DEF IInv, AllTracked
<1> QED
  BY <1>6, <1>8, <1>9, <1>10, <1>11, <1>12 DEF IInv

LEMMA InvNext == IInv /\ [Next]_vars => IInv'
<1> SUFFICES ASSUME IInv, [Next]_vars PROVE IInv'
  OBVIOUS
<1>1. /\ Bounds /\ Shown /\ Typed(task, conns, registry) /\ task \in [Tasks -> TaskRec]
      /\ \A t \in Tasks : task[t] \in TaskRec /\ Local(t, task[t], seen)
      /\ \A t \in Tasks : task[t].pc # "idle" => exit = "no"
      /\ \A t \in Tasks : task[t].conn \in 0..Len(conns)
      /\ Change \in Tasks /\ Query \in Tasks /\ Timers \subseteq Tasks
  BY IdleType DEF IInv, Typed, Locals, Exiting, Bounds, Tasks
<1>2. CASE Apply
  <2>1. applied + 1 \in 0..MaxVersion
    BY <1>1, <1>2, BoundsAssumption DEF Apply, Bounds
  <2>2. /\ spec' = applied + 1 /\ applied' = applied + 1
        /\ UNCHANGED << kopf, registry, conns, task, status, faults, exit >>
    BY <1>2 DEF Apply
  <2>3. Bounds' /\ status' \in 0..Len(conns)
    BY <1>1, <2>1, <2>2 DEF Bounds, Shown, kopf
  <2> QED
    BY <2>2, <2>3, WorldStep DEF kopf
<1>3. CASE Delete
  <2>1. /\ spec' = 0 /\ status' = 0
        /\ UNCHANGED << applied, kopf, registry, conns, task, faults, exit >>
    BY <1>3 DEF Delete
  <2>2. 0 \in 0..MaxVersion /\ 0 \in 0..Len(conns)
    BY <1>1, BoundsAssumption DEF Typed
  <2>3. Bounds' /\ status' \in 0..Len(conns)
    BY <1>1, <2>1, <2>2 DEF Bounds, kopf
  <2> QED
    BY <2>1, <2>3, WorldStep DEF kopf
<1>4. CASE TakeUp
  <2> DEFINE r == [Idle EXCEPT !.ver = spec, !.cred = spec]
  <2>1. /\ exit = "no" /\ task[Change].pc = "idle" /\ task[Change].pc \notin Waiting /\ spec # 0
        /\ seen' = spec /\ watched' = TRUE
        /\ UNCHANGED << spec, applied, handled, status, faults, exit >>
        /\ \/ registry # 0 /\ PopAndClose(r)
           \/ EnsureConnection(Change, r, conns) /\ UNCHANGED registry
    BY <1>4 DEF TakeUp, world, Waiting
  <2>2. r \in TaskRec /\ r.ver = spec /\ r.cred = spec /\ r.conn = 0
    <3>1. spec \in 0..MaxVersion
      BY <1>1 DEF Bounds
    <3> QED
      BY <3>1 DEF Idle, TaskRec
  <2> HIDE DEF r
  <2>3. Bounds'
    BY <1>1, <2>1 DEF Bounds
  <2>4. CASE registry # 0 /\ PopAndClose(r)
    BY <2>1, <2>2, <2>3, <2>4, PopStep
  <2>5. CASE EnsureConnection(Change, r, conns) /\ UNCHANGED registry
    BY <1>1, <2>1, <2>2, <2>3, <2>5, EnsureStep
  <2> QED
    BY <2>1, <2>4, <2>5
<1>5. CASE TakeUpDeletion
  <2>1. /\ exit = "no" /\ task[Change].pc = "idle" /\ watched /\ ~watched' /\ watched' \in BOOLEAN
        /\ UNCHANGED << spec, applied, seen, status, faults, exit >>
        /\ \/ registry # 0 /\ PopAndClose(Idle) /\ UNCHANGED handled
           \/ handled' = 0 /\ UNCHANGED << registry, task, conns >>
    BY <1>5 DEF TakeUpDeletion, world
  <2>2. Bounds' /\ seen' # 0
    <3>1. 0 \in 0..MaxVersion /\ handled' \in {0, handled} /\ seen # 0
      BY <2>1, BoundsAssumption DEF IInv, Locals
    <3> QED
      BY <1>1, <2>1, <3>1 DEF Bounds
  <2>3. CASE registry # 0 /\ PopAndClose(Idle) /\ UNCHANGED handled
    <3>1. Idle \in TaskRec /\ Idle.conn = 0 /\ Idle.ver = 0
      BY IdleType DEF Idle
    <3> QED
      BY <2>1, <2>2, <2>3, <3>1, PopStep
  <2>4. CASE handled' = 0 /\ UNCHANGED << registry, task, conns >>
    BY <1>1, <2>1, <2>2, <2>4, WorldStep DEF Shown
  <2> QED
    BY <2>1, <2>3, <2>4
<1>6. CASE Closed
  BY <1>6, ClosedStep
<1>7. ASSUME NEW t \in Timers, TimerStarts(t) PROVE IInv'
  <2> DEFINE r == [Idle EXCEPT !.cred = seen]
  <2>1. /\ exit = "no" /\ task[t].pc = "idle" /\ task[t].pc \notin Waiting /\ watched
        /\ EnsureConnection(t, r, conns) /\ t \in Tasks
        /\ UNCHANGED << spec, applied, seen, watched, handled, registry, status, faults, exit >>
    BY <1>1, <1>7 DEF TimerStarts, world, kopf, Waiting
  <2>2. r \in TaskRec /\ r.cred = seen
    <3>1. seen \in 0..MaxVersion
      BY <1>1 DEF Bounds
    <3> QED
      BY <3>1, BoundsAssumption DEF Idle, TaskRec
  <2> HIDE DEF r
  <2>3. Bounds' /\ seen # 0 /\ t # Change
    BY <1>1, <1>7, <2>1, TimersAssumption DEF Bounds, IInv, Locals
  <2> QED
    BY <2>1, <2>2, <2>3, EnsureStep
<1>8. ASSUME NEW t \in Tasks, SecretRead(t) PROVE IInv'
  BY <1>8, ReadStep
<1>9. ASSUME NEW t \in Tasks, SecretFails(t) PROVE IInv'
  <2>1. /\ task[t].pc = "read" /\ task[t].pc \notin Waiting /\ task' = [task EXCEPT ![t] = Idle]
        /\ faults < MaxFaults /\ faults' = faults + 1
        /\ UNCHANGED << spec, applied, seen, watched, handled, registry, conns, status, exit >>
    BY <1>9 DEF SecretFails, world, kopf, Waiting
  <2>2. faults' \in 0..MaxFaults
    BY <1>1, <2>1, BoundsAssumption DEF Bounds
  <2>3. Bounds' /\ status' \in 0..Len(conns) /\ exit = "no" /\ Idle.conn \in 0..Len(conns)
        /\ (watched' => seen' # 0)
    BY <1>1, <2>1, <2>2, IdleType DEF Bounds, Shown, Typed, IInv, Locals
  <2> QED
    BY <2>1, <2>3, IdleType, OwnStep
<1>10. ASSUME NEW t \in Tasks, PassEnds(t) PROVE IInv'
  BY <1>10, PassStep
<1>11. ASSUME NEW t \in Tasks, Patched(t) PROVE IInv'
  <2>1. /\ task[t].pc = "patch" /\ task[t].pc \notin Waiting /\ task' = [task EXCEPT ![t] = Idle]
        /\ status' \in {status, task[t].conn} /\ handled' \in {handled, task[t].ver}
        /\ UNCHANGED << spec, applied, seen, watched, registry, conns, faults, exit >>
    BY <1>11 DEF Patched, world, Waiting
  <2>2. task[t].ver \in 0..MaxVersion
    BY <1>1 DEF TaskRec
  <2>3. Bounds' /\ status' \in 0..Len(conns) /\ exit = "no" /\ Idle.conn \in 0..Len(conns)
        /\ (watched' => seen' # 0)
    BY <1>1, <2>1, <2>2, IdleType DEF Bounds, Shown, Typed, IInv, Locals
  <2> QED
    BY <2>1, <2>3, IdleType, OwnStep
<1>12. CASE QueryStarts
  <2> DEFINE r == [Idle EXCEPT !.pc = "call", !.conn = registry]
  <2>1. /\ exit = "no" /\ task[Query].pc = "idle" /\ task[Query].pc \notin Waiting /\ registry # 0
        /\ task' = [task EXCEPT ![Query] = r]
        /\ UNCHANGED << spec, applied, seen, watched, handled, registry, conns, status, faults, exit >>
    BY <1>12 DEF QueryStarts, world, kopf, Waiting
  <2>2. registry \in 0..Len(conns) /\ registry \in Nat
    BY <1>1 DEF Typed
  <2>3. r \in TaskRec /\ r.pc = "call" /\ r.conn = registry
    <3>1. 0 \in 0..MaxVersion
      BY BoundsAssumption
    <3> QED
      BY <2>2, <3>1 DEF Idle, TaskRec
  <2> HIDE DEF r
  <2>4. r.pc \notin Waiting /\ Local(Query, r, seen')
    BY <2>1, <2>3 DEF Waiting, Local
  <2>5. Bounds' /\ status' \in 0..Len(conns) /\ (watched' => seen' # 0)
    BY <1>1, <2>1 DEF Bounds, Shown, IInv, Locals
  <2> QED
    BY <1>1, <2>1, <2>2, <2>3, <2>4, <2>5, OwnStep
<1>13. CASE QueryCalls
  BY <1>13, CallStep
<1>14. CASE QueryEnds
  <2>1. /\ task[Query].pc = "call" /\ task[Query].pc \notin Waiting
        /\ task' = [task EXCEPT ![Query] = Idle]
        /\ UNCHANGED << spec, applied, seen, watched, handled, registry, conns, status, faults, exit >>
    BY <1>14 DEF QueryEnds, world, kopf, Waiting
  <2>2. Bounds' /\ status' \in 0..Len(conns) /\ exit = "no" /\ Idle.conn \in 0..Len(conns)
        /\ (watched' => seen' # 0)
    BY <1>1, <2>1, IdleType DEF Bounds, Shown, Typed, IInv, Locals
  <2> QED
    BY <1>1, <2>1, <2>2, IdleType, OwnStep
<1>15. CASE ExitStarts
  BY <1>15, ExitStep
<1>16. CASE CleanUp
  BY <1>16, CleanStep
<1>17. CASE UNCHANGED vars
  <2>1. UNCHANGED << spec, applied, seen, watched, handled, registry, conns, task, status, faults, exit >>
    BY <1>17 DEF vars, world, kopf
  <2> QED
    BY <1>1, <2>1, WorldStep DEF Bounds, Shown
<1> QED
  BY <1>2, <1>3, <1>4, <1>5, <1>6, <1>7, <1>8, <1>9, <1>10, <1>11, <1>12, <1>13, <1>14, <1>15,
     <1>16, <1>17 DEF Next, TaskStep, Over

(* ---- the theorems ------------------------------------------------------------ *)

LEMMA Inductive == Spec => []IInv
<1>1. Init => IInv
  BY InvInit
<1>2. IInv /\ [Next]_vars => IInv'
  BY InvNext
<1> QED
  BY <1>1, <1>2, PTL DEF Spec

\* The types of every variable, whatever the timers and however many edits.
THEOREM TypesHold == Spec => []TypeOK
<1>1. IInv => TypeOK
  <2> SUFFICES ASSUME IInv PROVE TypeOK
    OBVIOUS
  <2>1. \A t \in Tasks : task[t] \in [pc : {"idle", "read", "pass", "patch", "close", "call"},
                                      ver : 0..MaxVersion, cred : 0..MaxVersion, conn : 0..Len(conns)]
    <3>1. \A t \in Tasks : task[t] \in TaskRec /\ task[t].conn \in 0..Len(conns)
      BY DEF IInv, Typed
    <3> QED
      BY <3>1 DEF TaskRec
  <2>2. task = [t \in Tasks |-> task[t]]
    BY DEF IInv, Typed
  <2>3. conns \in Seq([spec : 1..MaxVersion, cred : 1..MaxVersion, queue : Seq(Tasks),
                       ready : BOOLEAN, closed : BOOLEAN, dropped : BOOLEAN, reopened : BOOLEAN])
        /\ registry \in 0..Len(conns)
    BY DEF IInv, Typed, ConnRec
  <2> QED
    BY <2>1, <2>2, <2>3 DEF IInv, Bounds, Shown, TypeOK
<1> QED
  BY <1>1, Inductive, PTL

\* No connection gets lost with its sessions: it is registered, closed, about to be
\* closed by the handler that popped it, or the operator is exiting.
THEOREM NothingIsLost == Spec => []AllTracked
<1>1. IInv => AllTracked
  BY DEF IInv
<1> QED
  BY <1>1, Inductive, PTL

\* No discovery pass runs on a connection that was closed: who has its turn at the lock
\* came before the one who closes, who is the last that ever asks for it.
THEOREM PassesBeforeClose == Spec => []NoPassAfterClose
<1>1. IInv => NoPassAfterClose
  <2> SUFFICES ASSUME IInv, NEW t \in Timers \cup {Change}, task[t].pc = "pass"
               PROVE  ~conns[task[t].conn].closed
    BY DEF NoPassAfterClose
  <2> DEFINE c == task[t].conn
  <2>1. /\ t \in Tasks /\ c \in 1..Len(conns) /\ Lined(Where(task), Lines(conns), Tasks)
        /\ conns \in Seq(ConnRec) /\ (conns[c].closed => conns[c].queue = << >>)
    BY DEF Tasks, Waiting, IInv, Typed, InLine
  <2>2. Where(task)[t] = c /\ c # 0 /\ Lines(conns)[c] = conns[c].queue
    BY <2>1 DEF Where, At, Waiting, Lines
  <2>3. PICK i \in 1..Len(conns[c].queue) : conns[c].queue[i] = t
    BY <2>1, <2>2 DEF Lined
  <2>4. conns[c].queue # << >>
    BY <2>3
  <2> QED
    BY <2>1, <2>4
<1> QED
  BY <1>1, Inductive, PTL

\* Where registry and readiness stay as they were, the view does not change.
LEMMA SameView ==
  ASSUME IInv, registry' = registry,
         \A c \in 1..Len(conns) : conns'[c].ready = conns[c].ready
  PROVE  ConnSeen' = ConnSeen
  BY DEF IInv, Typed, ConnSeen

LEMMA EnsureKeepsView ==
  ASSUME IInv, NEW t \in Tasks, task[t].pc \notin Waiting, NEW r \in TaskRec,
         EnsureConnection(t, r, conns), registry' = registry
  PROVE  ConnSeen' = ConnSeen
<1>1. /\ task \in [Tasks -> TaskRec] /\ Typed(task, conns, registry) /\ InLine(task, conns, registry)
  BY DEF IInv, Typed
<1>2. \A c \in 1..Len(conns) : conns'[c].ready = conns[c].ready
  BY <1>1, Ensured
<1> QED
  BY <1>2, SameView

LEMMA PopDrops ==
  ASSUME registry # 0, NEW r, PopAndClose(r)
  PROVE  View!Dropped
  BY DEF PopAndClose, View!Dropped, ConnSeen

LEMMA ViewStep == IInv /\ [Next]_vars => [View!ViewNext]_ConnSeen
<1> SUFFICES ASSUME IInv, [Next]_vars PROVE [View!ViewNext]_ConnSeen
  OBVIOUS
<1>1. /\ Typed(task, conns, registry) /\ conns \in Seq(ConnRec) /\ registry \in 0..Len(conns)
      /\ DOMAIN conns = 1..Len(conns) /\ Len(conns) \in Nat /\ Change \in Tasks /\ Query \in Tasks
      /\ spec \in 0..MaxVersion /\ seen \in 0..MaxVersion
  BY DEF IInv, Typed, Bounds, Tasks
<1>2. CASE UNCHANGED << registry, conns >>
  BY <1>2 DEF ConnSeen
<1>3. CASE TakeUp
  <2> DEFINE r == [Idle EXCEPT !.ver = spec, !.cred = spec]
  <2>1. CASE registry # 0 /\ PopAndClose(r)
    BY <2>1, PopDrops DEF View!ViewNext
  <2>2. CASE EnsureConnection(Change, r, conns) /\ registry' = registry
    <3>1. r \in TaskRec
      BY <1>1, IdleType DEF TaskRec, Idle
    <3> QED
      BY <1>1, <1>3, <2>2, <3>1, EnsureKeepsView DEF TakeUp, Waiting
  <2> QED
    BY <1>3, <2>1, <2>2 DEF TakeUp
<1>4. CASE TakeUpDeletion
  BY <1>2, <1>4, PopDrops DEF TakeUpDeletion, View!ViewNext
<1>5. CASE Closed
  <2> DEFINE c == task[Change].conn
             x == [[conns[c] EXCEPT !.queue = Tail(@)] EXCEPT !.closed = TRUE]
             cs == [conns EXCEPT ![c] = x]
  <2>1. /\ c \in 1..Len(conns) /\ conns[c] \in ConnRec /\ Tail(conns[c].queue) \in Seq(Tasks)
        /\ registry' = registry
    BY <1>1, <1>5, InFront DEF Closed, Waiting
  <2>2. x.ready = conns[c].ready
    BY <2>1 DEF ConnRec
  <2>3. [Released(c) EXCEPT ![c].closed = TRUE] = cs
    BY <1>1, <2>1 DEF Released
  <2> HIDE DEF x
  <2>4. Len(cs) = Len(conns) /\ \A d \in 1..Len(conns) : cs[d].ready = conns[d].ready
    BY <1>1, <2>1, <2>2
  <2> HIDE DEF cs
  <2>5. CASE conns' = cs
    BY <2>1, <2>4, <2>5, SameView
  <2>6. CASE EnsureConnection(Change, task[Change], cs)
    <3>1. conns' \in {cs, Enqueue(cs, registry, Change)}
      BY <2>6 DEF EnsureConnection, Join
    <3>2. \A d \in 1..Len(cs) : Enqueue(cs, registry, Change)[d].ready = cs[d].ready
      BY DEF Enqueue
    <3> QED
      BY <2>1, <2>4, <3>1, <3>2, SameView
  <2> QED
    BY <1>5, <2>3, <2>5, <2>6 DEF Closed
<1>6. ASSUME NEW t \in Timers, TimerStarts(t) PROVE ConnSeen' = ConnSeen
  <2> DEFINE r == [Idle EXCEPT !.cred = seen]
  <2>1. r \in TaskRec
    BY <1>1, IdleType DEF TaskRec, Idle
  <2> QED
    BY <1>6, <2>1, EnsureKeepsView DEF TimerStarts, Waiting, Tasks
<1>7. ASSUME NEW t \in Tasks, SecretRead(t) PROVE [View!ViewNext]_ConnSeen
  <2>1. CASE registry # 0
    <3>1. conns' = Enqueue(conns, registry, t) /\ registry' = registry
      BY <1>7, <2>1 DEF SecretRead, Join
    <3>2. \A d \in 1..Len(conns) : conns'[d].ready = conns[d].ready
      <4>1. registry \in 1..Len(conns)
        BY <1>1, <2>1
      <4> QED
        <5>1. \A d \in 1..Len(conns) : d # registry => conns'[d] = conns[d]
          BY <1>1, <3>1, <4>1 DEF Enqueue
        <5>2. conns'[registry].ready = conns[registry].ready
          BY ONLY <1>1, <1>7, <3>1, <4>1, Enqueued
        <5> QED
          BY <5>1, <5>2
    <3> QED
      BY <3>1, <3>2, SameView
  <2>2. CASE registry = 0
    <3> DEFINE v == IF t = Change THEN task[t].ver ELSE seen
               y == NewConn(v, task[t].cred)
               cs == Append(conns, y)
               n == Len(conns) + 1
    <3>1. conns' = Enqueue(cs, n, t) /\ registry' = n
      BY <1>7, <2>2 DEF SecretRead, Join
    <3>2. y.ready = FALSE
      BY DEF NewConn
    <3> HIDE DEF y
    <3>3. cs[n] = y /\ n \in DOMAIN cs /\ n # 0
      BY <1>1
    <3> HIDE DEF cs, n
    <3>4. Enqueue(cs, n, t)[n].ready = y.ready
      <4>1. Enqueue(cs, n, t)[n] = [y EXCEPT !.queue = Append(@, t)]
        BY <3>3 DEF Enqueue
      <4>2. \A q : [y EXCEPT !.queue = q].ready = y.ready
        BY DEF y, NewConn
      <4> QED
        BY <4>1, <4>2
    <3>5. ConnSeen = "absent" /\ ConnSeen' = "warming"
      BY <2>2, <3>1, <3>2, <3>3, <3>4 DEF ConnSeen
    <3> QED
      BY <3>5 DEF View!ViewNext, View!Built
  <2> QED
    BY <2>1, <2>2
<1>8. ASSUME NEW t \in Tasks, PassEnds(t) PROVE [View!ViewNext]_ConnSeen
  <2> DEFINE c == task[t].conn
             x == [[conns[c] EXCEPT !.queue = Tail(@)] EXCEPT !.ready = TRUE]
  <2>1. /\ c \in 1..Len(conns) /\ conns[c] \in ConnRec /\ Tail(conns[c].queue) \in Seq(Tasks)
        /\ registry' = registry
    BY <1>8, InFront DEF PassEnds, Waiting
  <2>2. x.ready
    BY <2>1, Marked
  <2>3. conns' = [conns EXCEPT ![c] = x]
    BY <1>1, <1>8, <2>1 DEF PassEnds, Released
  <2> HIDE DEF x
  <2>4. CASE registry = c /\ ~conns[c].ready
    <3>1. ConnSeen = "warming" /\ ConnSeen' = "ready"
      BY <1>1, <2>1, <2>2, <2>3, <2>4 DEF ConnSeen
    <3> QED
      BY <3>1 DEF View!ViewNext, View!Ready
  <2>5. CASE registry # c \/ conns[c].ready
    BY <1>1, <2>1, <2>2, <2>3, <2>5 DEF ConnSeen
  <2> QED
    BY <2>4, <2>5
<1>9. CASE QueryCalls
  <2>1. \A c \in 1..Len(conns) : conns'[c].ready = conns[c].ready
    BY <1>1, <1>9 DEF QueryCalls
  <2> QED
    BY <1>9, <2>1, SameView DEF QueryCalls
<1>10. CASE ExitStarts
  <2>1. ASSUME NEW c \in 1..Len(conns) PROVE conns'[c].ready = conns[c].ready
    <3> DEFINE d == task[Change].pc = "close" /\ task[Change].conn = c
    <3>1. conns' = [e \in DOMAIN conns |->
                      [conns[e] EXCEPT !.queue = << >>,
                                       !.dropped = task[Change].pc = "close" /\ task[Change].conn = e]]
      BY <1>10 DEF ExitStarts
    <3>2. conns[c] \in ConnRec /\ c \in DOMAIN conns
      BY <1>1, <2>1
    <3>3. conns'[c] = [conns[c] EXCEPT !.queue = << >>, !.dropped = d]
      BY <3>1, <3>2
    <3> HIDE DEF d
    <3> QED
      BY <3>2, <3>3 DEF ConnRec
  <2> QED
    BY <1>10, <2>1, SameView DEF ExitStarts
<1>11. CASE CleanUp
  BY <1>11 DEF CleanUp, ConnSeen, View!ViewNext, View!Dropped
<1>12. ASSUME NEW t \in Tasks, SecretFails(t) \/ Patched(t) PROVE UNCHANGED << registry, conns >>
  BY <1>12 DEF SecretFails, Patched
<1>13. Apply \/ Delete \/ QueryStarts \/ QueryEnds \/ UNCHANGED vars => UNCHANGED << registry, conns >>
  BY DEF Apply, Delete, QueryStarts, QueryEnds, vars
<1> QED
  BY <1>2, <1>3, <1>4, <1>5, <1>6, <1>7, <1>8, <1>9, <1>10, <1>11, <1>12, <1>13
     DEF Next, TaskStep, Over

\* What the queries see of the connection is what ConnectionView allows (its safety):
\* built by whichever task gets there first, ready once, dropped, and never back from
\* ready to warming up.
THEOREM ViewIsSafe == Spec => View!ViewInit /\ [][View!ViewNext]_ConnSeen
<1>1. Init => View!ViewInit
  BY DEF Init, View!ViewInit, ConnSeen
<1>2. IInv /\ [Next]_vars => [View!ViewNext]_ConnSeen
  BY ViewStep
<1> QED
  BY <1>1, <1>2, Inductive, PTL DEF Spec
=============================================================================

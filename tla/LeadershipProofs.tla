-------------------------- MODULE LeadershipProofs --------------------------
(***************************************************************************)
(* Proofs about Leadership: its types, that a replica which was paused     *)
(* while it ran a daemon falls silent, and that one whose daemons run      *)
(* exports, for any replicas, priorities, queries and bounds.              *)
(***************************************************************************)
EXTENDS Leadership, TLAPS

\* A daemon that is told to stop runs, and a replica that is down has neither daemons
\* nor a flag.
Running ==
    \A r \in Replicas :
       /\ pausing[r] \subseteq daemons[r] /\ deleting[r] \subseteq daemons[r]
       /\ r \notin up => daemons[r] = {} /\ ~flag[r]

\* A paused replica stops every daemon it has.
AllPausing == \A r \in up : paused[r] => daemons[r] = pausing[r]

IInv == TypeOK /\ Running /\ AllPausing /\ PausedSilent

\* Resuming finds the daemons of the former term stopped: a replica that is not paused
\* stops daemons only because their queries are deleted.
SActive == \A r \in up : ~paused[r] => pausing[r] = {}

LEMMA InitIInv == Init => IInv
  BY ReplicasAssumption, BoundsAssumption
  DEF Init, IInv, TypeOK, Running, AllPausing, PausedSilent, Cached

LEMMA StepTypeOK == IInv /\ [Next]_vars => TypeOK'
<1> SUFFICES ASSUME IInv, [Next]_vars PROVE TypeOK'
  OBVIOUS
<1> USE ReplicasAssumption, ScopeAssumption, BoundsAssumption DEF IInv, TypeOK, Running, Cached
<1>1. ASSUME NEW r \in Replicas, Boot(r) PROVE TypeOK'
  BY <1>1 DEF Boot, Booted, Outranked
<1>2. ASSUME NEW r \in Replicas, Down(r) PROVE TypeOK'
  BY <1>2 DEF Down
<1>3. ASSUME NEW r \in Replicas, Expire(r) PROVE TypeOK'
  BY <1>3 DEF Expire, replica
<1>4. ASSUME NEW r \in Replicas, Pause(r) PROVE TypeOK'
  BY <1>4 DEF Pause, world
<1>5. ASSUME NEW r \in Replicas, Resume(r) PROVE TypeOK'
  BY <1>5 DEF Resume, world
<1>6. ASSUME NEW q \in Queries, Create(q) PROVE TypeOK'
  BY <1>6 DEF Create, replica
<1>7. ASSUME NEW q \in Queries, Delete(q) PROVE TypeOK'
  BY <1>7 DEF Delete, replica
<1>8. ASSUME NEW r \in Replicas, NEW q \in Queries, DaemonStarts(r, q) PROVE TypeOK'
  BY <1>8 DEF DaemonStarts, world
<1>9. ASSUME NEW r \in Replicas, NEW q \in Queries, Deregister(r, q) PROVE TypeOK'
  BY <1>9 DEF Deregister, world
<1>10. ASSUME NEW r \in Replicas, NEW q \in Queries, DaemonStops(r, q) PROVE TypeOK'
  BY <1>10 DEF DaemonStops, NoteDaemonStopped, world
<1>11. ASSUME NEW r \in Replicas, NEW q \in Queries, RowsArrive(r, q) PROVE TypeOK'
  BY <1>11 DEF RowsArrive, world
<1>12. CASE UNCHANGED vars
  BY <1>12 DEF vars, world, replica
<1> QED
  BY <1>1, <1>2, <1>3, <1>4, <1>5, <1>6, <1>7, <1>8, <1>9, <1>10, <1>11, <1>12
  DEF Next, Kopf, Daemon

LEMMA StepIInv == IInv /\ [Next]_vars => IInv'
<1> SUFFICES ASSUME IInv, [Next]_vars PROVE (Running /\ AllPausing /\ PausedSilent)'
  BY StepTypeOK DEF IInv
<1> USE ScopeAssumption DEF IInv, TypeOK, Running, AllPausing, PausedSilent
<1>1. ASSUME NEW r \in Replicas, Boot(r) PROVE (Running /\ AllPausing /\ PausedSilent)'
  <2>1. PICK p \in {FALSE, Peering /\ Outranked(r)} : paused' = [paused EXCEPT ![r] = p]
    BY <1>1 DEF Boot
  <2>2. paused'[r] => Peering
    BY <2>1
  <2>3. r \notin up /\ up' = up \cup {r} /\ daemons[r] = {} /\ pausing[r] = {}
    BY <1>1 DEF Boot
  <2>4. flag' = [flag EXCEPT ![r] = ~Peering] /\ UNCHANGED << daemons, pausing, deleting >>
    BY <1>1 DEF Boot, Booted
  <2>5. \A x \in Replicas \ {r} : paused'[x] = paused[x] /\ caught'[x] = caught[x]
    BY <1>1, <2>1 DEF Boot
  <2>6. Running' /\ AllPausing'
    BY <2>3, <2>4, <2>5
  <2>7. PausedSilent'
    BY <2>2, <2>3, <2>4, <2>5
  <2> QED
    BY <2>6, <2>7
<1>2. ASSUME NEW r \in Replicas, Down(r) PROVE (Running /\ AllPausing /\ PausedSilent)'
  BY <1>2 DEF Down
<1>3. ASSUME NEW r \in Replicas, Expire(r) PROVE (Running /\ AllPausing /\ PausedSilent)'
  BY <1>3 DEF Expire, replica
<1>4. ASSUME NEW r \in Replicas, Pause(r) PROVE (Running /\ AllPausing /\ PausedSilent)'
  BY <1>4 DEF Pause, world
<1>5. ASSUME NEW r \in Replicas, Resume(r) PROVE (Running /\ AllPausing /\ PausedSilent)'
  BY <1>5 DEF Resume, world
<1>6. ASSUME NEW q \in Queries, Create(q) PROVE (Running /\ AllPausing /\ PausedSilent)'
  BY <1>6 DEF Create, replica
<1>7. ASSUME NEW q \in Queries, Delete(q) PROVE (Running /\ AllPausing /\ PausedSilent)'
  BY <1>7 DEF Delete, replica
<1>8. ASSUME NEW r \in Replicas, NEW q \in Queries, DaemonStarts(r, q)
      PROVE (Running /\ AllPausing /\ PausedSilent)'
  BY <1>8 DEF DaemonStarts, world
<1>9. ASSUME NEW r \in Replicas, NEW q \in Queries, Deregister(r, q)
      PROVE (Running /\ AllPausing /\ PausedSilent)'
  BY <1>9 DEF Deregister, world
<1>10. ASSUME NEW r \in Replicas, NEW q \in Queries, DaemonStops(r, q)
       PROVE (Running /\ AllPausing /\ PausedSilent)'
  BY <1>10 DEF DaemonStops, NoteDaemonStopped, world
<1>11. ASSUME NEW r \in Replicas, NEW q \in Queries, RowsArrive(r, q)
       PROVE (Running /\ AllPausing /\ PausedSilent)'
  BY <1>11 DEF RowsArrive, world
<1>12. CASE UNCHANGED vars
  BY <1>12 DEF vars, world, replica
<1> QED
  BY <1>1, <1>2, <1>3, <1>4, <1>5, <1>6, <1>7, <1>8, <1>9, <1>10, <1>11, <1>12
  DEF Next, Kopf, Daemon

LEMMA StepActive ==
  ASSUME ~SlowStops, IInv, SActive, ActiveExports, [Next]_vars
  PROVE  (SActive /\ ActiveExports)'
<1> USE DEF IInv, TypeOK, Running, AllPausing, SActive, ActiveExports
<1>1. ASSUME NEW r \in Replicas, Boot(r) PROVE (SActive /\ ActiveExports)'
  BY <1>1 DEF Boot
<1>2. ASSUME NEW r \in Replicas, Down(r) PROVE (SActive /\ ActiveExports)'
  BY <1>2 DEF Down
<1>3. ASSUME NEW r \in Replicas, Expire(r) PROVE (SActive /\ ActiveExports)'
  BY <1>3 DEF Expire, replica
<1>4. ASSUME NEW r \in Replicas, Pause(r) PROVE (SActive /\ ActiveExports)'
  BY <1>4 DEF Pause, world
<1>5. ASSUME NEW r \in Replicas, Resume(r) PROVE (SActive /\ ActiveExports)'
  BY <1>5 DEF Resume, world
<1>6. ASSUME NEW q \in Queries, Create(q) PROVE (SActive /\ ActiveExports)'
  BY <1>6 DEF Create, replica
<1>7. ASSUME NEW q \in Queries, Delete(q) PROVE (SActive /\ ActiveExports)'
  BY <1>7 DEF Delete, replica
<1>8. ASSUME NEW r \in Replicas, NEW q \in Queries, DaemonStarts(r, q)
      PROVE (SActive /\ ActiveExports)'
  BY <1>8 DEF DaemonStarts, world
<1>9. ASSUME NEW r \in Replicas, NEW q \in Queries, Deregister(r, q)
      PROVE (SActive /\ ActiveExports)'
  BY <1>9 DEF Deregister, world
<1>10. ASSUME NEW r \in Replicas, NEW q \in Queries, DaemonStops(r, q)
       PROVE (SActive /\ ActiveExports)'
  BY <1>10 DEF DaemonStops, NoteDaemonStopped, world
<1>11. ASSUME NEW r \in Replicas, NEW q \in Queries, RowsArrive(r, q)
       PROVE (SActive /\ ActiveExports)'
  BY <1>11 DEF RowsArrive, world
<1>12. CASE UNCHANGED vars
  BY <1>12 DEF vars, world, replica
<1> QED
  BY <1>1, <1>2, <1>3, <1>4, <1>5, <1>6, <1>7, <1>8, <1>9, <1>10, <1>11, <1>12
  DEF Next, Kopf, Daemon

\* The flag, the daemons and the cache of every replica keep their types (leadership.py,
\* the entries of collector/metrics.py).
THEOREM TypesHold == Spec => []TypeOK
<1>1. IInv => TypeOK
  BY DEF IInv
<1> QED
  BY InitIInv, StepIInv, <1>1, PTL DEF Spec

\* A replica that is paused while it runs a daemon exports nothing once its daemons have
\* stopped, whatever boots, crashes, is created or deleted meanwhile.
THEOREM PausedAreSilent == Spec => []PausedSilent
<1>1. IInv => PausedSilent
  BY DEF IInv
<1> QED
  BY InitIInv, StepIInv, <1>1, PTL DEF Spec

\* No deletion takes the flag from a replica that runs other daemons, as long as daemons
\* stop before the replica resumes.
THEOREM ActivesExport == ~SlowStops /\ Spec => []ActiveExports
<1> SUFFICES ASSUME ~SlowStops PROVE Spec => []ActiveExports
  OBVIOUS
<1> DEFINE J == IInv /\ SActive /\ ActiveExports
<1>1. Init => J
  BY InitIInv DEF Init, SActive, ActiveExports
<1>2. J /\ [Next]_vars => J'
  BY StepIInv, StepActive
<1>3. J => ActiveExports
  OBVIOUS
<1> HIDE DEF J
<1> QED
  BY <1>1, <1>2, <1>3, PTL DEF Spec
=============================================================================

------------------------ MODULE QuerySchedulerProofs ------------------------
(***************************************************************************)
(* Proofs about QueryScheduler, for every set of keys and specs, every     *)
(* expiry limit and every bound, with and without pauses, whether or not a *)
(* name is used again while runs of its former resource are alive.         *)
(***************************************************************************)
EXTENDS QueryScheduler, MetricsCollectorProofs, FiniteSetTheorems

LEMMA ChangeType ==
    ASSUME registered \subseteq Keys, entry \in [Keys -> Entry],
           NEW k, NEW e, k \in registered => e \in Entry
    PROVE  Change(k, e) \in [Keys -> Entry]
BY DEF Change

-----------------------------------------------------------------------------
(* Type correctness.                                                         *)

LEMMA InitTypeOK == Init => TypeOK
<1> SUFFICES ASSUME Init PROVE TypeOK
  OBVIOUS
<1>1. NewEntry(FALSE) \in Entry
  BY NewEntryType
<1>2. (CHOOSE s \in Specs : TRUE) \in Specs
  BY SpecsAssumption
<1>3. entry \in [Keys -> Entry] /\ spec \in [Keys -> Specs]
  BY <1>1, <1>2 DEF Init
<1>4. uid \in [Keys -> 0..MaxUid] /\ clock \in 0..MaxTick
  BY LimitsAssumption DEF Init
<1>5. stage \in [RunIds -> Stages] /\ owner \in [RunIds -> Owner \cup {Nobody}]
  BY DEF Init, Stages
<1>6. QED
  BY <1>3, <1>4, <1>5 DEF Init, TypeOK

LEMMA NextTypeOK == TypeOK /\ [Next]_vars => TypeOK'
<1> SUFFICES ASSUME TypeOK, [Next]_vars PROVE TypeOK'
  OBVIOUS
<1> USE DEF TypeOK, resourceVars, runVars, operatorVars
<1>1. ASSUME NEW k \in Keys, NEW s \in Specs, Create(k, s) \/ Edit(k, s) PROVE TypeOK'
  BY <1>1, LimitsAssumption DEF Create, Edit
<1>2. ASSUME NEW k \in Keys,
             Delete(k) \/ Gone(k) \/ StartDaemon(k) \/ StopDaemon(k)
      PROVE  TypeOK'
  BY <1>2 DEF Delete, Gone, StartDaemon, StopDaemon
<1>3. ASSUME NEW k \in Keys, HandleRegister(k) PROVE TypeOK'
  <2>1. spec[k].valid \in BOOLEAN
    BY SpecsAssumption DEF Spec0
  <2>2. /\ NewEntry(~spec[k].valid) \in Entry
        /\ Registered(entry[k], ~spec[k].valid) \in Entry
    BY <2>1, NewEntryType, RegisteredType
  <2>3. QED
    BY <1>3, <2>2 DEF HandleRegister
<1>4. ASSUME NEW k \in Keys, HandleDelete(k) PROVE TypeOK'
  <2>1. NewEntry(FALSE) \in Entry
    BY NewEntryType
  <2>2. QED
    BY <1>4, <2>1 DEF HandleDelete
<1>5. ASSUME NEW k \in Keys, TickWaits(k) \/ TickSkips(k) PROVE TypeOK'
  <2>1. MarkWaiting(entry[k]) \in Entry /\ RecordSkip(entry[k]) \in Entry
    BY SlotTypes
  <2>2. entry' \in [Keys -> Entry]
    BY <1>5, <2>1, ChangeType DEF TickWaits, TickSkips
  <2>3. QED
    BY <1>5, <2>2 DEF TickWaits, TickSkips
<1>6. ASSUME NEW k \in Keys, TickSpawns(k) PROVE TypeOK'
  <2>1. IncInflight(entry[k]) \in Entry
    BY SlotTypes
  <2>2. entry' \in [Keys -> Entry]
    BY <1>6, <2>1, ChangeType DEF TickSpawns
  <2>3. clock + 1 \in RunIds /\ clock' \in 0..MaxTick
    BY <1>6, LimitsAssumption DEF TickSpawns, RunIds
  <2>4. [key |-> k, uid |-> uid[k], kind |-> spec[k].kind] \in Owner
    BY SpecsAssumption DEF Owner, Spec0
  <2>5. QED
    BY <1>6, <2>2, <2>3, <2>4 DEF TickSpawns, Stages
<1>7. ASSUME NEW r \in RunIds, RunStarts(r) PROVE TypeOK'
  BY <1>7 DEF RunStarts, Stages
<1>8. ASSUME NEW r \in RunIds, RunNotFound(r) PROVE TypeOK'
  <2> DEFINE k == owner[r].key
             e == MarkFailure(entry[k], "ConnectionNotReady", entry[k].failed_nodes)
  <2>1. k \in registered => entry[k].failed_nodes \in BOOLEAN
    BY DEF Entry
  <2>2. k \in registered => e \in Entry
    BY <2>1, MarkFailureType DEF ErrorTypes, AvailabilityErrors
  <2>3. entry' \in [Keys -> Entry]
    BY <1>8, <2>2, ChangeType DEF RunNotFound
  <2>4. QED
    BY <1>8, <2>3 DEF RunNotFound, Stages
<1>9. ASSUME NEW r \in RunIds, NEW empty \in BOOLEAN, NEW failed \in BOOLEAN,
             RunSucceeds(r, empty, failed)
      PROVE  TypeOK'
  <2> DEFINE k == owner[r].key
  <2>1. k \in registered => Updated(entry[k], r, empty, failed) \in Entry
    BY UpdatedType DEF RunIds
  <2>2. entry' \in [Keys -> Entry]
    BY <1>9, <2>1, ChangeType DEF RunSucceeds
  <2>3. delivered' \in [Keys -> SUBSET RunIds]
    BY <1>9 DEF RunSucceeds
  <2>4. QED
    BY <1>9, <2>2, <2>3 DEF RunSucceeds, Stages
<1>10. ASSUME NEW r \in RunIds, NEW type \in Errors, RunFails(r, type) PROVE TypeOK'
  <2> DEFINE k == owner[r].key
  <2>1. k \in registered => FailedNodesAfter(r, type) \in BOOLEAN
    BY DEF FailedNodesAfter, Entry
  <2>2. k \in registered
            => Fail(entry[k], type, FailedNodesAfter(r, type), ExpireAfter) \in Entry
    BY <2>1, FailType, LimitsAssumption, ErrorsAssumption
  <2>3. entry' \in [Keys -> Entry]
    BY <1>10, <2>2, ChangeType DEF RunFails
  <2>4. QED
    BY <1>10, <2>3 DEF RunFails, Stages
<1>11. ASSUME NEW r \in RunIds, RunDone(r) PROVE TypeOK'
  <2> DEFINE k == owner[r].key
  <2>1. k \in registered => DecInflight(entry[k]) \in Entry
    BY SlotTypes
  <2>2. entry' \in [Keys -> Entry]
    BY <1>11, <2>1, ChangeType DEF RunDone
  <2>3. QED
    BY <1>11, <2>2 DEF RunDone, Stages
<1>12. ASSUME OperatorStep PROVE TypeOK'
  BY <1>12 DEF OperatorStep, Exit, Pause, Resume, CancelPending, ConnBuilt, ConnReady, ConnDropped, Stages
<1>13. CASE UNCHANGED vars
  BY <1>13 DEF vars
<1>14. QED
  BY <1>1, <1>2, <1>3, <1>4, <1>5, <1>6, <1>7, <1>8, <1>9, <1>10, <1>11, <1>12, <1>13
     DEF Next, ResourceStep, HandlerStep, TickStep, RunStep, Answers

\* Every variable keeps its type, so no method is ever applied to a key without
\* an entry and no run has a stamp beyond the bound.
THEOREM TypeCorrect == Spec => []TypeOK
<1>1. QED BY InitTypeOK, NextTypeOK, PTL DEF Spec

-----------------------------------------------------------------------------
(* The health of an entry and the order of its results.                      *)

Coherent(e) ==
    /\ e.up <=> e.rows # None /\ e.consecutive_failures = 0
    /\ e.expired => ~e.up /\ e.consecutive_failures >= ExpireAfter
    /\ e.tick_ts = e.rows

Newest(e, S) ==
    IF S = {} THEN e.rows = None ELSE e.rows \in S /\ \A r \in S : r <= e.rows

\* What the invariants need to be inductive: the stamp of the rows is the tick
\* they came from, a key without an entry has a blank one, and a run has delivered
\* only if it is over, so no run delivers twice.
EntryInv ==
    /\ \A k \in registered : Coherent(entry[k])
    /\ \A k \in Keys : Newest(entry[k], delivered[k])
    /\ \A k \in Keys : \A r \in delivered[k] : stage[r] \in {"done", "gone"}
    /\ \A k \in Keys \ registered : entry[k] = NewEntry(FALSE) /\ delivered[k] = {}

\* Same result and same health.
SameFeed(e, f) ==
    /\ f.rows = e.rows /\ f.tick_ts = e.tick_ts /\ f.up = e.up
    /\ f.expired = e.expired /\ f.consecutive_failures = e.consecutive_failures

LEMMA SameFeedLemma ==
    ASSUME NEW e \in Entry, NEW b \in BOOLEAN
    PROVE  /\ SameFeed(e, Registered(e, b))
           /\ SameFeed(e, MarkWaiting(e))
           /\ SameFeed(e, RecordSkip(e))
           /\ SameFeed(e, IncInflight(e))
           /\ SameFeed(e, DecInflight(e))
BY DEF SameFeed, Registered, MarkWaiting, RecordSkip, IncInflight, DecInflight, Entry

LEMMA SameFeedKeeps ==
    ASSUME NEW e, NEW f, SameFeed(e, f), NEW S
    PROVE  /\ Coherent(e) => Coherent(f)
           /\ Newest(e, S) => Newest(f, S)
BY DEF SameFeed, Coherent, Newest

LEMMA NewEntryLemma ==
    ASSUME NEW b \in BOOLEAN
    PROVE  Coherent(NewEntry(b)) /\ Newest(NewEntry(b), {})
BY DEF NewEntry, Coherent, Newest, None

LEMMA FailureKeeps ==
    ASSUME NEW e \in Entry, NEW type \in ErrorTypes, NEW b \in BOOLEAN, Coherent(e)
    PROVE  Coherent(MarkFailure(e, type, b)) /\ Coherent(Fail(e, type, b, ExpireAfter))
<1>1. /\ e.consecutive_failures \in Nat
      /\ e.consecutive_failures + 1 # 0
      /\ e.consecutive_failures >= ExpireAfter => e.consecutive_failures + 1 >= ExpireAfter
  BY LimitsAssumption DEF Entry
<1>2. /\ e.expired => e.consecutive_failures >= ExpireAfter
      /\ e.tick_ts = e.rows
  BY DEF Coherent
<1>3. ASSUME NEW f, f.rows = e.rows, f.tick_ts = e.tick_ts, f.up = FALSE,
             f.consecutive_failures = e.consecutive_failures + 1,
             f.expired => e.consecutive_failures + 1 >= ExpireAfter
      PROVE  Coherent(f)
  BY <1>1, <1>2, <1>3 DEF Coherent
<1> DEFINE f == MarkFailure(e, type, b)
           g == Fail(e, type, b, ExpireAfter)
<1>4. /\ f.rows = e.rows /\ f.tick_ts = e.tick_ts /\ f.up = FALSE
      /\ f.expired = e.expired
      /\ f.consecutive_failures = e.consecutive_failures + 1
      /\ g.rows = e.rows /\ g.tick_ts = e.tick_ts /\ g.up = FALSE
      /\ g.expired = (e.expired \/ e.consecutive_failures + 1 >= ExpireAfter)
      /\ g.consecutive_failures = e.consecutive_failures + 1
  <2>1. ExpireAfter \in Nat
    BY LimitsAssumption
  <2>2. QED BY <2>1, FailureLemma
<1> HIDE DEF f, g
<1>5. f.expired => e.consecutive_failures + 1 >= ExpireAfter
  BY <1>1, <1>2, <1>4
<1>6. g.expired => e.consecutive_failures + 1 >= ExpireAfter
  BY <1>1, <1>2, <1>4
<1>7. Coherent(f) /\ Coherent(g)
  BY <1>3, <1>4, <1>5, <1>6
<1>8. QED BY <1>7 DEF f, g

LEMMA UpdatedLemma ==
    ASSUME NEW e \in Entry, NEW n \in Nat \ {0}, NEW b \in BOOLEAN, NEW c \in BOOLEAN,
           NEW S \in SUBSET Nat, Coherent(e), Newest(e, S)
    PROVE  /\ Coherent(Updated(e, n, b, c))
           /\ Newest(Updated(e, n, b, c), S \cup {n})
<1>1. CASE n < e.tick_ts
  <2>1. S # {} /\ n <= e.rows /\ Updated(e, n, b, c) = e
    BY <1>1 DEF Coherent, Newest, None, Updated, Entry
  <2>2. QED
    BY <2>1 DEF Newest
<1>2. CASE ~(n < e.tick_ts)
  <2> DEFINE f == Updated(e, n, b, c)
  <2>1. /\ f.rows = n /\ f.tick_ts = n /\ f.up = TRUE /\ f.expired = FALSE
        /\ f.consecutive_failures = 0
    BY <1>2 DEF Updated, Entry
  <2>2. e.rows <= n
    BY <1>2 DEF Coherent, Entry
  <2>3. \A r \in S \cup {n} : r <= n
    BY <2>2 DEF Newest, Entry
  <2> HIDE DEF f
  <2>4. Newest(f, S \cup {n})
    BY <2>1, <2>3 DEF Newest
  <2>5. Coherent(f)
    BY <2>1 DEF Coherent, None
  <2>6. QED
    BY <2>4, <2>5 DEF f
<1>3. QED BY <1>1, <1>2

\* A run beyond the last stamp has not been spawned.
FreshRuns == \A r \in RunIds : clock < r => stage[r] = "unused"

LEMMA InitFreshRuns == Init => FreshRuns
BY DEF Init, FreshRuns

LEMMA NextFreshRuns == TypeOK /\ FreshRuns /\ [Next]_vars => FreshRuns'
<1> SUFFICES ASSUME TypeOK, FreshRuns, [Next]_vars PROVE FreshRuns'
  OBVIOUS
<1> USE DEF FreshRuns, TypeOK, RunIds, runVars
<1>1. CASE ResourceStep \/ HandlerStep
  BY <1>1 DEF ResourceStep, HandlerStep, Create, Edit, Delete, Gone, StartDaemon,
              StopDaemon, HandleRegister, HandleDelete
<1>2. ASSUME NEW k \in Keys, TickWaits(k) \/ TickSkips(k) \/ TickSpawns(k) PROVE FreshRuns'
  <2>1. CASE TickWaits(k) \/ TickSkips(k)
    BY <2>1 DEF TickWaits, TickSkips
  <2>2. CASE TickSpawns(k)
    <3>1. clock \in Int /\ clock' = clock + 1
          /\ stage' = [stage EXCEPT ![clock + 1] = "created"]
      BY <2>2, LimitsAssumption DEF TickSpawns
    <3>2. QED BY <3>1
  <2>3. QED BY <1>2, <2>1, <2>2
<1>3. ASSUME NEW r \in RunIds, RunStarts(r) \/ RunNotFound(r) \/ Answers(r) \/ RunDone(r)
      PROVE  FreshRuns'
  BY <1>3 DEF RunStarts, RunNotFound, Answers, RunSucceeds, RunFails, RunDone
<1>4. CASE OperatorStep
  BY <1>4 DEF OperatorStep, Exit, Pause, Resume, CancelPending, ConnBuilt, ConnReady, ConnDropped, Alive
<1>5. CASE UNCHANGED vars
  BY <1>5 DEF vars
<1>6. QED
  BY <1>1, <1>2, <1>3, <1>4, <1>5 DEF Next, TickStep, RunStep

LEMMA InitEntryInv == Init => EntryInv
<1> SUFFICES ASSUME Init PROVE EntryInv
  OBVIOUS
<1>1. Newest(NewEntry(FALSE), {})
  BY NewEntryLemma
<1>2. /\ registered = {} /\ entry = [k \in Keys |-> NewEntry(FALSE)]
      /\ delivered = [k \in Keys |-> {}]
  BY DEF Init
<1>3. QED BY <1>1, <1>2 DEF EntryInv

\* A step that leaves the results and the health of the entry of k as they are.
LEMMA QuietStep ==
    ASSUME TypeOK, TypeOK', EntryInv, registered' = registered, delivered' = delivered,
           \A k \in Keys : SameFeed(entry[k], entry'[k]),
           \A k \in Keys \ registered : entry'[k] = entry[k],
           \A r \in RunIds : stage[r] \in {"done", "gone"} => stage'[r] \in {"done", "gone"}
    PROVE  EntryInv'
<1> USE DEF EntryInv, TypeOK
<1>1. \A k \in registered : Coherent(entry[k])'
  BY SameFeedKeeps
<1>2. \A k \in Keys : Newest(entry[k], delivered[k])'
  BY SameFeedKeeps
<1>3. \A k \in Keys : \A r \in delivered'[k] : stage'[r] \in {"done", "gone"}
  OBVIOUS
<1>4. \A k \in Keys \ registered' : entry'[k] = NewEntry(FALSE) /\ delivered'[k] = {}
  OBVIOUS
<1>5. QED BY <1>1, <1>2, <1>3, <1>4

LEMMA NextEntryInv == TypeOK /\ TypeOK' /\ FreshRuns /\ EntryInv /\ [Next]_vars => EntryInv'
<1> SUFFICES ASSUME TypeOK, TypeOK', FreshRuns, EntryInv, [Next]_vars PROVE EntryInv'
  OBVIOUS
<1> USE DEF resourceVars, runVars, operatorVars
<1> DEFINE Quiet == UNCHANGED << registered, entry, delivered >>
<1>1. ASSUME Quiet,
             \A r \in RunIds : stage[r] \in {"done", "gone"} => stage'[r] \in {"done", "gone"}
      PROVE  EntryInv'
  BY <1>1, QuietStep DEF SameFeed
<1>2. ASSUME NEW k \in Keys, NEW s \in Specs, Create(k, s) \/ Edit(k, s) PROVE EntryInv'
  BY <1>1, <1>2 DEF Create, Edit
<1>3. ASSUME NEW k \in Keys,
             Delete(k) \/ Gone(k) \/ StartDaemon(k) \/ StopDaemon(k)
      PROVE  EntryInv'
  BY <1>1, <1>3 DEF Delete, Gone, StartDaemon, StopDaemon
<1>4. ASSUME NEW k \in Keys, HandleRegister(k) PROVE EntryInv'
  <2>1. spec[k].valid \in BOOLEAN
    BY SpecsAssumption DEF Spec0, TypeOK
  <2>2. CASE k \in registered
    <3>1. entry' = [entry EXCEPT ![k] = Registered(entry[k], ~spec[k].valid)]
      BY <1>4, <2>2 DEF HandleRegister, TypeOK
    <3>2. SameFeed(entry[k], Registered(entry[k], ~spec[k].valid))
      BY <2>1, SameFeedLemma DEF TypeOK
    <3>3. \A q \in Keys : SameFeed(entry[q], entry'[q])
      BY <3>1, <3>2 DEF TypeOK, SameFeed
    <3>4. QED
      BY <1>4, <2>2, <3>1, <3>3, QuietStep DEF HandleRegister, TypeOK
  <2>3. CASE k \notin registered
    <3>1. entry' = [entry EXCEPT ![k] = NewEntry(~spec[k].valid)]
      BY <1>4, <2>3 DEF HandleRegister, TypeOK
    <3>2. Coherent(entry'[k]) /\ Newest(entry'[k], {})
      BY <2>1, <3>1, NewEntryLemma DEF TypeOK
    <3>3. /\ registered' = registered \cup {k} /\ stage' = stage /\ delivered' = delivered
          /\ delivered[k] = {}
      BY <1>4, <2>3 DEF HandleRegister, EntryInv
    <3>4. \A q \in registered' : Coherent(entry'[q])
      BY <3>1, <3>2, <3>3 DEF EntryInv, TypeOK
    <3>5. \A q \in Keys : Newest(entry'[q], delivered'[q])
      BY <3>1, <3>2, <3>3 DEF EntryInv, TypeOK
    <3>6. \A q \in Keys \ registered' : entry'[q] = NewEntry(FALSE) /\ delivered'[q] = {}
      BY <3>1, <3>3 DEF EntryInv, TypeOK
    <3>7. QED
      BY <3>3, <3>4, <3>5, <3>6 DEF EntryInv
  <2>4. QED BY <2>2, <2>3
<1>5. ASSUME NEW k \in Keys, HandleDelete(k) PROVE EntryInv'
  <2>1. Newest(NewEntry(FALSE), {})
    BY NewEntryLemma
  <2>2. entry' = [entry EXCEPT ![k] = NewEntry(FALSE)]
        /\ delivered' = [delivered EXCEPT ![k] = {}]
        /\ registered' = registered \ {k} /\ stage' = stage
    BY <1>5 DEF HandleDelete
  <2>3. QED
    BY <2>1, <2>2 DEF TypeOK, EntryInv
<1>6. ASSUME NEW k, NEW e, registered' = registered, delivered' = delivered,
             entry' = Change(k, e), k \in registered => SameFeed(entry[k], e),
             \A r \in RunIds : stage[r] \in {"done", "gone"} => stage'[r] \in {"done", "gone"}
      PROVE  EntryInv'
  <2>1. \A q \in Keys : SameFeed(entry[q], entry'[q])
    BY <1>6 DEF Change, TypeOK, SameFeed
  <2>2. \A q \in Keys \ registered : entry'[q] = entry[q]
    BY <1>6 DEF Change, TypeOK
  <2>3. QED
    BY <1>6, <2>1, <2>2, QuietStep
<1>7. ASSUME NEW k \in Keys, TickWaits(k) \/ TickSkips(k) PROVE EntryInv'
  <2>1. SameFeed(entry[k], MarkWaiting(entry[k])) /\ SameFeed(entry[k], RecordSkip(entry[k]))
    BY SameFeedLemma DEF TypeOK
  <2>2. QED
    BY <1>6, <1>7, <2>1 DEF TickWaits, TickSkips
<1>8. ASSUME NEW k \in Keys, TickSpawns(k) PROVE EntryInv'
  <2>1. SameFeed(entry[k], IncInflight(entry[k]))
    BY SameFeedLemma DEF TypeOK
  <2>2. \A r \in RunIds : stage[r] \in {"done", "gone"} => stage'[r] \in {"done", "gone"}
    <3>1. clock + 1 \in RunIds /\ stage[clock + 1] = "unused"
      BY <1>8, LimitsAssumption DEF TickSpawns, TypeOK, FreshRuns, RunIds
    <3>2. QED
      BY <1>8, <3>1 DEF TickSpawns, TypeOK
  <2>3. QED
    BY <1>6, <1>8, <2>1, <2>2 DEF TickSpawns
<1>9. ASSUME NEW r \in RunIds, RunStarts(r) PROVE EntryInv'
  BY <1>1, <1>9 DEF RunStarts, TypeOK
<1>10. ASSUME NEW r \in RunIds, NEW k, NEW e, k = owner[r].key,
              stage[r] \in {"created", "querying"},
              stage' = [stage EXCEPT ![r] = "done"],
              registered' = registered, delivered' = delivered, entry' = Change(k, e),
              k \in registered => Coherent(e) /\ e.rows = entry[k].rows
       PROVE  EntryInv'
  <2>1. CASE k \in registered
    <3>1. k \in Keys /\ entry' = [entry EXCEPT ![k] = e]
      BY <1>10, <2>1 DEF Change, TypeOK
    <3>2. Newest(e, delivered[k])
      BY <1>10, <2>1, <3>1 DEF EntryInv, Newest
    <3>3. \A q \in registered' : Coherent(entry'[q])
      BY <1>10, <2>1, <3>1 DEF EntryInv, TypeOK
    <3>4. \A q \in Keys : Newest(entry'[q], delivered'[q])
      BY <1>10, <3>1, <3>2 DEF EntryInv, TypeOK
    <3>5. \A q \in Keys : \A p \in delivered'[q] : stage'[p] \in {"done", "gone"}
      BY <1>10 DEF EntryInv, TypeOK
    <3>6. \A q \in Keys \ registered' : entry'[q] = NewEntry(FALSE) /\ delivered'[q] = {}
      BY <1>10, <2>1, <3>1 DEF EntryInv, TypeOK
    <3>7. QED
      BY <3>3, <3>4, <3>5, <3>6 DEF EntryInv
  <2>2. CASE k \notin registered
    BY <1>10, <2>2 DEF EntryInv, TypeOK, Change
  <2>3. QED BY <2>1, <2>2
<1>11. ASSUME NEW r \in RunIds, RunNotFound(r) PROVE EntryInv'
  <2> DEFINE k == owner[r].key
             e == MarkFailure(entry[k], "ConnectionNotReady", entry[k].failed_nodes)
  <2>1. ASSUME k \in registered PROVE Coherent(e) /\ e.rows = entry[k].rows
    <3>1. /\ entry[k] \in Entry /\ entry[k].failed_nodes \in BOOLEAN
          /\ Coherent(entry[k]) /\ "ConnectionNotReady" \in ErrorTypes
      BY <2>1 DEF TypeOK, Entry, EntryInv, ErrorTypes, AvailabilityErrors
    <3>2. Coherent(e)
      BY <3>1, FailureKeeps
    <3>3. e.rows = entry[k].rows
      BY <3>1, FailureLemma, LimitsAssumption
    <3>4. QED BY <3>2, <3>3
  <2>2. QED
    BY <1>10, <1>11, <2>1 DEF RunNotFound
<1>12. ASSUME NEW r \in RunIds, NEW type \in Errors, RunFails(r, type) PROVE EntryInv'
  <2> DEFINE k == owner[r].key
             e == Fail(entry[k], type, FailedNodesAfter(r, type), ExpireAfter)
  <2>1. ASSUME k \in registered PROVE Coherent(e) /\ e.rows = entry[k].rows
    <3>1. /\ entry[k] \in Entry /\ FailedNodesAfter(r, type) \in BOOLEAN
          /\ Coherent(entry[k]) /\ type \in ErrorTypes /\ ExpireAfter \in Nat
      BY <2>1, ErrorsAssumption, LimitsAssumption
         DEF TypeOK, Entry, EntryInv, FailedNodesAfter
    <3>2. Coherent(e)
      BY <3>1, FailureKeeps
    <3>3. e.rows = entry[k].rows
      BY <3>1, FailureLemma
    <3>4. QED BY <3>2, <3>3
  <2>2. QED
    BY <1>10, <1>12, <2>1 DEF RunFails
<1>13. ASSUME NEW r \in RunIds, NEW empty \in BOOLEAN, NEW failed \in BOOLEAN,
              RunSucceeds(r, empty, failed)
       PROVE  EntryInv'
  <2> DEFINE k == owner[r].key
             e == Updated(entry[k], r, empty, failed)
  <2>1. CASE k \in registered
    <3>1. /\ k \in Keys /\ entry' = [entry EXCEPT ![k] = e]
          /\ delivered' = [delivered EXCEPT ![k] = delivered[k] \cup {r}]
          /\ stage' = [stage EXCEPT ![r] = "done"] /\ registered' = registered
          /\ stage[r] = "querying"
      BY <1>13, <2>1 DEF RunSucceeds, Change, TypeOK
    <3>2. /\ entry[k] \in Entry /\ r \in Nat \ {0} /\ delivered[k] \in SUBSET Nat
          /\ Coherent(entry[k]) /\ Newest(entry[k], delivered[k])
      BY <2>1, <3>1 DEF TypeOK, EntryInv, RunIds
    <3>3. Coherent(e) /\ Newest(e, delivered[k] \cup {r})
      BY <3>2, UpdatedLemma
    <3> HIDE DEF e, k
    <3>4. QED
      BY <2>1, <3>1, <3>3 DEF EntryInv, TypeOK
  <2>2. CASE k \notin registered
    BY <1>13, <2>2 DEF RunSucceeds, EntryInv, TypeOK, Change
  <2>3. QED BY <2>1, <2>2
<1>14. ASSUME NEW r \in RunIds, RunDone(r) PROVE EntryInv'
  <2>1. owner[r].key \in registered
            => SameFeed(entry[owner[r].key], DecInflight(entry[owner[r].key]))
    BY SameFeedLemma DEF TypeOK
  <2>2. QED
    BY <1>6, <1>14, <2>1 DEF RunDone, TypeOK
<1>15. ASSUME OperatorStep PROVE EntryInv'
  BY <1>1, <1>15 DEF OperatorStep, Exit, Pause, Resume, CancelPending, ConnBuilt, ConnReady,
                     ConnDropped, Alive, TypeOK
<1>16. CASE UNCHANGED vars
  BY <1>1, <1>16 DEF vars
<1>17. QED
  BY <1>2, <1>3, <1>4, <1>5, <1>7, <1>8, <1>9, <1>11, <1>12, <1>13, <1>14, <1>15, <1>16
     DEF Next, ResourceStep, HandlerStep, TickStep, RunStep, Answers

LEMMA SpecEntryInv == Spec => [](TypeOK /\ FreshRuns /\ EntryInv)
<1>1. QED
  BY InitTypeOK, NextTypeOK, InitFreshRuns, NextFreshRuns, InitEntryInv, NextEntryInv,
     PTL DEF Spec

\* up, expired and the failure count of every entry agree, after any sequence of
\* runs that finish in any order, edits, deletions and re-creations.
THEOREM HealthIsCoherent == Spec => []HealthCoherent
<1>1. EntryInv => HealthCoherent
  BY DEF EntryInv, Coherent, HealthCoherent
<1>2. QED BY <1>1, SpecEntryInv, PTL

\* An entry holds the result of the latest tick that delivered to it.
THEOREM CacheHoldsNewest == Spec => []CacheIsNewest
<1>1. TypeOK /\ EntryInv => CacheIsNewest
  BY DEF EntryInv, Newest, CacheIsNewest, TypeOK
<1>2. QED BY <1>1, SpecEntryInv, PTL

-----------------------------------------------------------------------------
(* Slots.                                                                    *)

LEMMA PendingFinite ==
    ASSUME NEW k
    PROVE  /\ IsFiniteSet(Pending(k)) /\ Cardinality(Pending(k)) \in Nat
           /\ IsFiniteSet(Pending(k))'
<1>1. IsFiniteSet(RunIds)
  BY FS_Interval, LimitsAssumption DEF RunIds
<1>2. Pending(k) \subseteq RunIds /\ Pending(k)' \subseteq RunIds
  BY DEF Pending
<1>3. QED BY <1>1, <1>2, FS_Subset, FS_CardinalityType

LEMMA InflightLemma ==
    ASSUME NEW e \in Entry, NEW b \in BOOLEAN, NEW c \in BOOLEAN, NEW n \in Nat,
           NEW type \in ErrorTypes, NEW limit \in Nat
    PROVE  /\ Registered(e, b).inflight = e.inflight
           /\ MarkWaiting(e).inflight = e.inflight
           /\ RecordSkip(e).inflight = e.inflight
           /\ Updated(e, n, b, c).inflight = e.inflight
           /\ MarkFailure(e, type, b).inflight = e.inflight
           /\ Fail(e, type, b, limit).inflight = e.inflight
           /\ IncInflight(e).inflight = e.inflight + 1
           /\ DecInflight(e).inflight = IF e.inflight = 0 THEN 0 ELSE e.inflight - 1
<1>1. /\ Registered(e, b).inflight = e.inflight
      /\ MarkWaiting(e).inflight = e.inflight
      /\ RecordSkip(e).inflight = e.inflight
      /\ Updated(e, n, b, c).inflight = e.inflight
  BY DEF Registered, MarkWaiting, RecordSkip, Updated, Entry
<1>2. MarkFailure(e, type, b).inflight = e.inflight
  BY DEF MarkFailure, Entry
<1>3. ASSUME NEW f \in Entry PROVE Expire(f).inflight = f.inflight
  BY DEF Expire, Entry
<1>4. Fail(e, type, b, limit).inflight = e.inflight
  BY <1>2, <1>3, MarkFailureType DEF Fail
<1>5. /\ IncInflight(e).inflight = e.inflight + 1
      /\ DecInflight(e).inflight = IF e.inflight = 0 THEN 0 ELSE e.inflight - 1
  BY DEF IncInflight, DecInflight, Entry
<1>6. QED BY <1>1, <1>2, <1>4, <1>5

\* What a step does to the slots that the entries count, and to the runs that hold them.
SlotsMove ==
    \A k \in registered' :
       \/ /\ k \in registered
          /\ Pending(k)' = Pending(k)
          /\ entry'[k].inflight = entry[k].inflight
       \/ /\ k \in registered
          /\ Cardinality(Pending(k)') = Cardinality(Pending(k)) + 1
          /\ entry'[k].inflight = entry[k].inflight + 1
       \/ /\ k \in registered
          /\ Cardinality(Pending(k)') = Cardinality(Pending(k)) - 1
          /\ entry'[k].inflight = IF entry[k].inflight = 0 THEN 0 ELSE entry[k].inflight - 1
       \/ k \notin registered /\ Pending(k)' = Pending(k) /\ entry'[k].inflight = 0

\* Steps that neither spawn nor finish a task and count no slot.
LEMMA SlotsUntouched ==
    ASSUME TypeOK, registered' \subseteq registered,
           \A k \in registered' : entry'[k].inflight = entry[k].inflight,
           \A k \in Keys : Pending(k)' = Pending(k)
    PROVE  SlotsMove
BY DEF SlotsMove, TypeOK

LEMMA NextSlotsMove == TypeOK /\ FreshRuns /\ [Next]_vars => SlotsMove
<1> SUFFICES ASSUME TypeOK, FreshRuns, [Next]_vars PROVE SlotsMove
  OBVIOUS
<1> USE DEF resourceVars, runVars, operatorVars
<1>1. ASSUME NEW k \in Keys, NEW s \in Specs,
             \/ Create(k, s) \/ Edit(k, s) \/ Delete(k) \/ Gone(k)
             \/ StartDaemon(k) \/ StopDaemon(k)
      PROVE  SlotsMove
  BY <1>1, SlotsUntouched DEF Create, Edit, Delete, Gone, StartDaemon, StopDaemon, Pending, Alive
<1>2. ASSUME NEW k \in Keys, HandleRegister(k) PROVE SlotsMove
  <2>1. \A q \in Keys : Pending(q)' = Pending(q)
    BY <1>2 DEF HandleRegister, Pending, Alive
  <2>2. spec[k].valid \in BOOLEAN
    BY SpecsAssumption DEF Spec0, TypeOK
  <2>3. CASE k \in registered
    <3>1. \A q \in registered' : entry'[q].inflight = entry[q].inflight
      BY <1>2, <2>2, <2>3, InflightLemma DEF HandleRegister, TypeOK, Registered, Entry
    <3>2. QED
      BY <1>2, <2>1, <2>3, <3>1, SlotsUntouched DEF HandleRegister
  <2>4. CASE k \notin registered
    <3>1. entry'[k].inflight = 0 /\ \A q \in registered : entry'[q] = entry[q]
      BY <1>2, <2>4 DEF HandleRegister, TypeOK, NewEntry
    <3>2. QED
      BY <1>2, <2>1, <3>1, PendingFinite DEF HandleRegister, SlotsMove, TypeOK
  <2>5. QED BY <2>3, <2>4
<1>3. ASSUME NEW k \in Keys, HandleDelete(k) PROVE SlotsMove
  BY <1>3, SlotsUntouched DEF HandleDelete, Pending, Alive, TypeOK
<1>4. ASSUME NEW k, NEW e, registered' = registered, entry' = Change(k, e),
             k \in registered => e.inflight = entry[k].inflight,
             \A q \in Keys : Pending(q)' = Pending(q)
      PROVE  SlotsMove
  BY <1>4, SlotsUntouched DEF Change, TypeOK
<1>5. ASSUME NEW k \in Keys, TickWaits(k) \/ TickSkips(k) PROVE SlotsMove
  <2>1. /\ MarkWaiting(entry[k]).inflight = entry[k].inflight
        /\ RecordSkip(entry[k]).inflight = entry[k].inflight
    BY DEF MarkWaiting, RecordSkip, TypeOK, Entry
  <2>2. \A q \in Keys : Pending(q)' = Pending(q)
    BY <1>5 DEF TickWaits, TickSkips, Pending, Alive
  <2>3. QED
    BY <1>4, <1>5, <2>1, <2>2 DEF TickWaits, TickSkips
<1>6. ASSUME NEW k \in Keys, TickSpawns(k) PROVE SlotsMove
  <2> DEFINE r == clock + 1
  <2>1. r \in RunIds /\ stage[r] = "unused"
    BY <1>6, LimitsAssumption DEF TickSpawns, TypeOK, FreshRuns, RunIds
  <2>2. /\ stage' = [stage EXCEPT ![r] = "created"]
        /\ owner' = [owner EXCEPT ![r] = [key |-> k, uid |-> uid[k], kind |-> spec[k].kind]]
        /\ registered' = registered /\ entry' = Change(k, IncInflight(entry[k]))
    BY <1>6 DEF TickSpawns
  <2> HIDE DEF r
  <2>3. \A q \in Keys \ {k} : Pending(q)' = Pending(q)
    BY <2>1, <2>2 DEF Pending, Alive, TypeOK
  <2>4. Pending(k)' = Pending(k) \cup {r} /\ r \notin Pending(k)
    BY <2>1, <2>2 DEF Pending, Alive, TypeOK
  <2>5. Cardinality(Pending(k)') = Cardinality(Pending(k)) + 1
    BY <2>4, PendingFinite, FS_AddElement
  <2>6. k \in registered => IncInflight(entry[k]).inflight = entry[k].inflight + 1
    BY DEF IncInflight, TypeOK, Entry
  <2>7. ASSUME k \in registered PROVE entry'[k].inflight = entry[k].inflight + 1
    BY <2>2, <2>6, <2>7 DEF Change, TypeOK
  <2>8. ASSUME NEW q \in registered, q # k PROVE entry'[q] = entry[q]
    BY <2>2, <2>8 DEF Change, TypeOK
  <2>9. QED BY <2>2, <2>3, <2>5, <2>7, <2>8 DEF SlotsMove, TypeOK
<1>7. ASSUME NEW r \in RunIds, Alive(r), Alive(r)', owner' = owner,
             \A p \in RunIds \ {r} : stage'[p] = stage[p]
      PROVE  \A q \in Keys : Pending(q)' = Pending(q)
  BY <1>7 DEF Pending, Alive
<1>8. ASSUME NEW r \in RunIds, RunStarts(r) PROVE SlotsMove
  <2>1. \A q \in Keys : Pending(q)' = Pending(q)
    BY <1>7, <1>8 DEF RunStarts, Alive, TypeOK
  <2>2. QED BY <1>8, <2>1, SlotsUntouched DEF RunStarts
<1>9. ASSUME NEW r \in RunIds, RunNotFound(r) PROVE SlotsMove
  <2> DEFINE k == owner[r].key
             e == MarkFailure(entry[k], "ConnectionNotReady", entry[k].failed_nodes)
  <2>1. \A q \in Keys : Pending(q)' = Pending(q)
    BY <1>7, <1>9 DEF RunNotFound, Alive, TypeOK
  <2>2. k \in registered => e.inflight = entry[k].inflight
    BY DEF MarkFailure, TypeOK, Entry
  <2>3. QED BY <1>4, <1>9, <2>1, <2>2 DEF RunNotFound
<1>10. ASSUME NEW r \in RunIds, NEW empty \in BOOLEAN, NEW failed \in BOOLEAN,
              RunSucceeds(r, empty, failed)
       PROVE  SlotsMove
  <2>1. \A q \in Keys : Pending(q)' = Pending(q)
    BY <1>7, <1>10 DEF RunSucceeds, Alive, TypeOK
  <2>2. owner[r].key \in registered
            => Updated(entry[owner[r].key], r, empty, failed).inflight
                    = entry[owner[r].key].inflight
    BY DEF Updated, TypeOK, Entry
  <2>3. QED BY <1>4, <1>10, <2>1, <2>2 DEF RunSucceeds
<1>11. ASSUME NEW r \in RunIds, NEW type \in Errors, RunFails(r, type) PROVE SlotsMove
  <2> DEFINE k == owner[r].key
             e == Fail(entry[k], type, FailedNodesAfter(r, type), ExpireAfter)
  <2>1. \A q \in Keys : Pending(q)' = Pending(q)
    BY <1>7, <1>11 DEF RunFails, Alive, TypeOK
  <2>2. ASSUME k \in registered PROVE e.inflight = entry[k].inflight
    <3>1. /\ entry[k] \in Entry /\ type \in ErrorTypes /\ ExpireAfter \in Nat
          /\ FailedNodesAfter(r, type) \in BOOLEAN
      BY <2>2, ErrorsAssumption, LimitsAssumption DEF TypeOK, FailedNodesAfter, Entry
    <3>2. QED BY <3>1, InflightLemma
  <2>3. QED BY <1>4, <1>11, <2>1, <2>2 DEF RunFails
<1>12. ASSUME NEW r \in RunIds, RunDone(r), NEW k, k = owner[r].key PROVE SlotsMove
  <2>1. /\ stage[r] = "done" /\ stage' = [stage EXCEPT ![r] = "gone"] /\ owner' = owner
        /\ registered' = registered /\ entry' = Change(k, DecInflight(entry[k]))
    BY <1>12 DEF RunDone
  <2>2. \A q \in Keys \ {k} : Pending(q)' = Pending(q)
    BY <1>12, <2>1 DEF Pending, Alive, TypeOK
  <2>3. Pending(k)' = Pending(k) \ {r} /\ r \in Pending(k)
    BY <1>12, <2>1 DEF Pending, Alive, TypeOK
  <2>4. Cardinality(Pending(k)') = Cardinality(Pending(k)) - 1
    BY <2>3, PendingFinite, FS_RemoveElement
  <2>5. ASSUME k \in registered
        PROVE  entry'[k].inflight = IF entry[k].inflight = 0 THEN 0 ELSE entry[k].inflight - 1
    BY <2>1, <2>5 DEF Change, DecInflight, TypeOK, Entry
  <2>6. ASSUME NEW q \in registered, q # k PROVE entry'[q] = entry[q]
    BY <2>1, <2>6 DEF Change, TypeOK
  <2>7. QED BY <2>1, <2>2, <2>4, <2>5, <2>6 DEF SlotsMove, TypeOK
<1>13. ASSUME OperatorStep PROVE SlotsMove
  <2>1. \A q \in Keys : Pending(q)' = Pending(q)
    BY <1>13 DEF OperatorStep, Exit, Pause, Resume, CancelPending, ConnBuilt, ConnReady, ConnDropped,
                 Pending, Alive
  <2>2. QED
    BY <1>13, <2>1, SlotsUntouched
       DEF OperatorStep, Exit, Pause, Resume, CancelPending, ConnBuilt, ConnReady, ConnDropped
<1>14. CASE UNCHANGED vars
  BY <1>14, SlotsUntouched DEF vars, Pending, Alive
<1>15. QED
  BY <1>1, <1>2, <1>3, <1>5, <1>6, <1>8, <1>9, <1>10, <1>11, <1>12, <1>13, <1>14,
     SpecsAssumption
     DEF Next, ResourceStep, HandlerStep, TickStep, RunStep, Answers

LEMMA NextNoPhantomSlots ==
    TypeOK /\ TypeOK' /\ FreshRuns /\ NoPhantomSlots /\ [Next]_vars => NoPhantomSlots'
<1> SUFFICES ASSUME TypeOK, TypeOK', FreshRuns, NoPhantomSlots, [Next]_vars,
                    NEW k \in registered'
             PROVE  entry'[k].inflight <= Cardinality(Pending(k)')
  BY DEF NoPhantomSlots
<1> DEFINE i == entry[k].inflight
           j == entry'[k].inflight
           c == Cardinality(Pending(k))
           d == Cardinality(Pending(k)')
<1>1. j \in Nat /\ c \in Nat /\ d \in Nat
  <2>1. IsFiniteSet(Pending(k)')
    BY PendingFinite
  <2>2. QED BY <2>1, PendingFinite, FS_CardinalityType DEF TypeOK, Entry
<1>2. k \in registered => i \in Nat /\ i <= c
  BY DEF TypeOK, Entry, NoPhantomSlots
<1>3. \/ k \in registered /\ d = c /\ j = i
      \/ k \in registered /\ d = c + 1 /\ j = i + 1
      \/ k \in registered /\ d = c - 1 /\ j = IF i = 0 THEN 0 ELSE i - 1
      \/ j = 0
  BY NextSlotsMove DEF SlotsMove
<1> HIDE DEF i, j, c, d
<1>4. j <= d
  BY <1>1, <1>2, <1>3
<1>5. QED BY <1>4 DEF j, d

\* No tick is ever skipped on account of runs that are over: a counted slot is
\* matched by a task whose done callback has yet to run.
THEOREM SlotsAreReal == Spec => []NoPhantomSlots
<1>1. Init => NoPhantomSlots
  BY DEF Init, NoPhantomSlots
<1>2. QED
  BY <1>1, InitTypeOK, NextTypeOK, InitFreshRuns, NextFreshRuns, NextNoPhantomSlots,
     PTL DEF Spec

\* The tasks that an entry does not count never get more while the entry exists.
THEOREM SlotsAreKept == Spec => SlotsKept
<1> DEFINE Kept == \A k \in registered \cap registered' :
                      Cardinality(Pending(k)') + entry[k].inflight
                         <= Cardinality(Pending(k)) + entry'[k].inflight
<1>1. TypeOK /\ TypeOK' /\ FreshRuns /\ [Next]_vars => [Kept]_vars
  <2> SUFFICES ASSUME TypeOK, TypeOK', FreshRuns, [Next]_vars,
                      NEW k \in registered \cap registered'
               PROVE  Cardinality(Pending(k)') + entry[k].inflight
                         <= Cardinality(Pending(k)) + entry'[k].inflight
    OBVIOUS
  <2> DEFINE i == entry[k].inflight
             j == entry'[k].inflight
             c == Cardinality(Pending(k))
             d == Cardinality(Pending(k)')
  <2>1. i \in Nat /\ j \in Nat /\ c \in Nat /\ d \in Nat
    <3>1. IsFiniteSet(Pending(k)')
      BY PendingFinite
    <3>2. QED BY <3>1, PendingFinite, FS_CardinalityType DEF TypeOK, Entry
  <2>2. \/ d = c /\ j = i
        \/ d = c + 1 /\ j = i + 1
        \/ d = c - 1 /\ j = IF i = 0 THEN 0 ELSE i - 1
    BY NextSlotsMove DEF SlotsMove
  <2> HIDE DEF i, j, c, d
  <2>3. d + i <= c + j
    BY <2>1, <2>2
  <2>4. QED BY <2>3 DEF i, j, c, d
<1>2. QED
  BY <1>1, InitTypeOK, NextTypeOK, InitFreshRuns, NextFreshRuns, PTL DEF Spec, SlotsKept

-----------------------------------------------------------------------------
(* The entries implement the feed.                                           *)

\* What the mapping reads of an entry.
SameExport(e, f) == SameFeed(e, f) /\ f.empty = e.empty /\ f.invalid_reason = e.invalid_reason

LEMMA SameExportLemma ==
    ASSUME NEW e \in Entry
    PROVE  /\ SameExport(e, e)
           /\ SameExport(e, MarkWaiting(e))
           /\ SameExport(e, RecordSkip(e))
           /\ SameExport(e, IncInflight(e))
           /\ SameExport(e, DecInflight(e))
BY DEF SameExport, SameFeed, MarkWaiting, RecordSkip, IncInflight, DecInflight, Entry

\* A failure keeps what an entry exports until it expires it.
LEMMA FailureExport ==
    ASSUME NEW e \in Entry, NEW type \in ErrorTypes, NEW b \in BOOLEAN, NEW limit \in Nat
    PROVE  /\ (Exports(MarkFailure(e, type, b)) <=> Exports(e))
           /\ \/ (Exports(Fail(e, type, b, limit)) <=> Exports(e))
              \/ /\ ~Exports(Fail(e, type, b, limit))
                 /\ e.consecutive_failures + 1 >= limit
<1> DEFINE f == MarkFailure(e, type, b)
<1>1. /\ f.rows = e.rows /\ f.expired = e.expired /\ f.empty = e.empty
      /\ f.invalid_reason = e.invalid_reason /\ f \in Entry
      /\ f.consecutive_failures = e.consecutive_failures + 1
  BY MarkFailureType DEF MarkFailure, Entry
<1>2. ASSUME NEW g \in Entry PROVE ~Exports(Expire(g))
  BY DEF Exports, Expire, Entry
<1>3. Fail(e, type, b, limit) = IF f.consecutive_failures >= limit THEN Expire(f) ELSE f
  BY DEF Fail
<1> HIDE DEF f
<1>4. Exports(f) <=> Exports(e)
  BY <1>1 DEF Exports
<1>5. CASE f.consecutive_failures >= limit
  BY <1>1, <1>2, <1>3, <1>4, <1>5 DEF f
<1>6. CASE ~(f.consecutive_failures >= limit)
  BY <1>3, <1>4, <1>6 DEF f
<1>7. QED BY <1>5, <1>6

fails == [k \in Keys |-> entry[k].consecutive_failures]
shown == [k \in Keys |-> Shown(k)]

LEMMA FeedStutters ==
    ASSUME TypeOK, TypeOK', registered' = registered, delivered' = delivered,
           \A k \in Keys : SameExport(entry[k], entry'[k])
    PROVE  UNCHANGED Feed!feedVars
<1>1. fails' = fails
  BY DEF fails, SameExport, SameFeed
<1>2. \A k \in Keys : Shown(k)' = Shown(k)
  BY DEF Shown, SameExport, SameFeed, Exports
<1>3. shown' = shown
  BY <1>2 DEF shown
<1>4. QED BY <1>1, <1>3 DEF Feed!feedVars, fails, shown

LEMMA FeedStep ==
    TypeOK /\ TypeOK' /\ EntryInv /\ EntryInv' /\ [Next]_vars
        => [Feed!FeedNext]_(Feed!feedVars)
<1> SUFFICES ASSUME TypeOK, TypeOK', EntryInv, EntryInv', [Next]_vars
             PROVE  [Feed!FeedNext]_(Feed!feedVars)
  OBVIOUS
<1> USE DEF resourceVars, runVars, operatorVars
<1>1. ASSUME UNCHANGED << registered, entry, delivered >> PROVE UNCHANGED Feed!feedVars
  BY <1>1, FeedStutters, SameExportLemma DEF TypeOK
<1>2. CASE ResourceStep
  BY <1>1, <1>2 DEF ResourceStep, Create, Edit, Delete, Gone, StartDaemon, StopDaemon
<1>3. CASE OperatorStep
  BY <1>1, <1>3 DEF OperatorStep, Exit, Pause, Resume, CancelPending, ConnBuilt, ConnReady, ConnDropped
<1>4. ASSUME NEW k \in Keys, HandleRegister(k) PROVE Feed!FeedNext
  <2>0. spec[k].valid \in BOOLEAN
    BY SpecsAssumption DEF Spec0, TypeOK
  <2>1. CASE k \in registered
    <3> DEFINE e == Registered(entry[k], ~spec[k].valid)
    <3>1. entry' = [entry EXCEPT ![k] = e] /\ registered' = registered /\ delivered' = delivered
      BY <1>4, <2>1 DEF HandleRegister, TypeOK
    <3>2. SameFeed(entry[k], e)
      BY <2>0, SameFeedLemma DEF TypeOK
    <3> HIDE DEF e
    <3>3. fails' = fails
      BY <3>1, <3>2 DEF fails, SameFeed, TypeOK
    <3>4. Shown(k)' \in {None, entry[k].rows}
      BY <2>1, <3>1, <3>2 DEF Shown, SameFeed, TypeOK
    <3>5. shown' = [shown EXCEPT ![k] = Shown(k)']
      BY <3>1 DEF shown, Shown, TypeOK
    <3>6. \/ Shown(k)' = None
          \/ Shown(k)' \in delivered[k] /\ \A r \in delivered[k] : r <= Shown(k)'
      BY <3>4 DEF EntryInv, Newest
    <3>7. Feed!Edit(k)
      BY <2>1, <3>1, <3>3, <3>5, <3>6
         DEF Feed!Edit, Feed!Nothing, Feed!IsNewest, None, fails, shown
    <3>8. QED BY <3>7 DEF Feed!FeedNext
  <2>2. CASE k \notin registered
    <3> DEFINE e == NewEntry(~spec[k].valid)
    <3>1. entry' = [entry EXCEPT ![k] = e] /\ registered' = registered \cup {k}
          /\ delivered' = delivered
      BY <1>4, <2>2 DEF HandleRegister, TypeOK
    <3>2. entry[k].consecutive_failures = 0
      BY <2>2 DEF EntryInv, NewEntry
    <3>3. e.consecutive_failures = 0 /\ e.rows = None
      BY DEF NewEntry
    <3> HIDE DEF e
    <3>4. fails' = fails
      BY <3>1, <3>2, <3>3 DEF fails, TypeOK
    <3>5. \A q \in Keys : Shown(q)' = Shown(q)
      BY <2>2, <3>1, <3>3 DEF Shown, TypeOK
    <3>6. shown' = shown
      BY <3>5 DEF shown
    <3>7. Feed!Add(k)
      BY <2>2, <3>1, <3>4, <3>6 DEF Feed!Add, fails, shown
    <3>8. QED BY <3>7 DEF Feed!FeedNext
  <2>3. QED BY <2>1, <2>2
<1>5. ASSUME NEW k \in Keys, HandleDelete(k)
      PROVE  Feed!FeedNext \/ UNCHANGED Feed!feedVars
  <2>1. /\ registered' = registered \ {k} /\ entry' = [entry EXCEPT ![k] = NewEntry(FALSE)]
        /\ delivered' = [delivered EXCEPT ![k] = {}]
    BY <1>5 DEF HandleDelete
  <2>2. NewEntry(FALSE).consecutive_failures = 0
    BY DEF NewEntry
  <2>3. CASE k \in registered
    <3>1. fails' = [fails EXCEPT ![k] = 0]
      BY <2>1, <2>2 DEF fails, TypeOK
    <3>2. shown' = [shown EXCEPT ![k] = None]
      BY <2>1 DEF shown, Shown, TypeOK
    <3>3. Feed!Drop(k)
      BY <2>1, <2>3, <3>1, <3>2 DEF Feed!Drop, Feed!Nothing, None, fails, shown
    <3>4. QED BY <3>3 DEF Feed!FeedNext
  <2>4. CASE k \notin registered
    <3>1. entry[k] = NewEntry(FALSE) /\ delivered[k] = {}
      BY <2>4 DEF EntryInv
    <3>2. registered' = registered /\ entry' = entry /\ delivered' = delivered
      BY <2>1, <2>4, <3>1 DEF TypeOK
    <3>3. QED BY <1>1, <3>2
  <2>5. QED BY <2>3, <2>4
<1>6. ASSUME NEW k, NEW e, registered' = registered, delivered' = delivered,
             entry' = Change(k, e), k \in registered => SameExport(entry[k], e)
      PROVE  UNCHANGED Feed!feedVars
  <2>1. \A q \in Keys : SameExport(entry[q], entry'[q])
    BY <1>6, SameExportLemma DEF Change, TypeOK
  <2>2. QED BY <1>6, <2>1, FeedStutters
<1>7. ASSUME NEW k \in Keys, TickWaits(k) \/ TickSkips(k) \/ TickSpawns(k)
      PROVE  UNCHANGED Feed!feedVars
  <2>1. /\ SameExport(entry[k], MarkWaiting(entry[k]))
        /\ SameExport(entry[k], RecordSkip(entry[k]))
        /\ SameExport(entry[k], IncInflight(entry[k]))
    BY SameExportLemma DEF TypeOK
  <2>2. QED BY <1>6, <1>7, <2>1 DEF TickWaits, TickSkips, TickSpawns
<1>8. ASSUME NEW r \in RunIds, RunStarts(r) PROVE UNCHANGED Feed!feedVars
  BY <1>1, <1>8 DEF RunStarts
<1>9. ASSUME NEW r \in RunIds, RunDone(r) PROVE UNCHANGED Feed!feedVars
  <2>1. owner[r].key \in registered
            => SameExport(entry[owner[r].key], DecInflight(entry[owner[r].key]))
    BY SameExportLemma DEF TypeOK
  <2>2. QED BY <1>6, <1>9, <2>1 DEF RunDone
<1>10. ASSUME NEW k, NEW e, registered' = registered, delivered' = delivered,
              entry' = Change(k, e),
              k \in registered =>
                 /\ e.rows = entry[k].rows
                 /\ e.consecutive_failures = entry[k].consecutive_failures + 1
                 /\ \/ (Exports(e) <=> Exports(entry[k]))
                    \/ ~Exports(e) /\ entry[k].consecutive_failures + 1 >= ExpireAfter
       PROVE  Feed!FeedNext \/ UNCHANGED Feed!feedVars
  <2>1. CASE k \notin registered
    BY <1>1, <1>10, <2>1 DEF Change
  <2>2. CASE k \in registered
    <3>1. k \in Keys /\ entry' = [entry EXCEPT ![k] = e]
      BY <1>10, <2>2 DEF Change, TypeOK
    <3>2. fails' = [fails EXCEPT ![k] = fails[k] + 1] /\ fails'[k] = fails[k] + 1
          /\ fails[k] = entry[k].consecutive_failures
      BY <1>10, <2>2, <3>1 DEF fails, TypeOK
    <3>3. shown' = [shown EXCEPT ![k] = Shown(k)']
      BY <1>10, <3>1 DEF shown, Shown, TypeOK
    <3>4. \/ Shown(k)' = Shown(k)
          \/ Shown(k)' = None /\ fails'[k] >= ExpireAfter
      <4>1. entry'[k] = e /\ registered' = registered
        BY <1>10, <3>1 DEF TypeOK
      <4>2. Shown(k) = IF Exports(entry[k]) THEN entry[k].rows ELSE None
        BY <2>2 DEF Shown
      <4>3. Shown(k)' = IF Exports(e) THEN e.rows ELSE None
        BY <2>2, <4>1 DEF Shown
      <4>4. QED BY <1>10, <2>2, <3>2, <4>2, <4>3
    <3>5. \/ shown' = shown
          \/ shown' = [shown EXCEPT ![k] = None] /\ fails'[k] >= ExpireAfter
      BY <3>1, <3>3, <3>4 DEF shown
    <3>6. Feed!Fail(k)
      BY <1>10, <2>2, <3>2, <3>5 DEF Feed!Fail, Feed!Nothing, None, fails, shown
    <3>7. QED BY <3>1, <3>6 DEF Feed!FeedNext
  <2>3. QED BY <2>1, <2>2
<1>11. ASSUME NEW r \in RunIds, RunNotFound(r)
       PROVE  Feed!FeedNext \/ UNCHANGED Feed!feedVars
  <2> DEFINE k == owner[r].key
             e == MarkFailure(entry[k], "ConnectionNotReady", entry[k].failed_nodes)
  <2>1. ASSUME k \in registered
        PROVE  /\ e.rows = entry[k].rows
               /\ e.consecutive_failures = entry[k].consecutive_failures + 1
               /\ (Exports(e) <=> Exports(entry[k]))
    <3>1. /\ entry[k] \in Entry /\ entry[k].failed_nodes \in BOOLEAN
          /\ "ConnectionNotReady" \in ErrorTypes /\ ExpireAfter \in Nat
      BY <2>1, LimitsAssumption DEF TypeOK, Entry, ErrorTypes, AvailabilityErrors
    <3>2. e.rows = entry[k].rows
      BY <3>1, FailureLemma
    <3>3. e.consecutive_failures = entry[k].consecutive_failures + 1
      BY <3>1, FailureLemma
    <3>4. QED BY <3>1, <3>2, <3>3, FailureExport
  <2>2. QED BY <1>10, <1>11, <2>1 DEF RunNotFound
<1>12. ASSUME NEW r \in RunIds, NEW type \in Errors, RunFails(r, type)
       PROVE  Feed!FeedNext \/ UNCHANGED Feed!feedVars
  <2> DEFINE k == owner[r].key
             e == Fail(entry[k], type, FailedNodesAfter(r, type), ExpireAfter)
  <2>1. ASSUME k \in registered
        PROVE  /\ e.rows = entry[k].rows
               /\ e.consecutive_failures = entry[k].consecutive_failures + 1
               /\ \/ (Exports(e) <=> Exports(entry[k]))
                  \/ ~Exports(e) /\ entry[k].consecutive_failures + 1 >= ExpireAfter
    <3>1. /\ entry[k] \in Entry /\ FailedNodesAfter(r, type) \in BOOLEAN
          /\ type \in ErrorTypes /\ ExpireAfter \in Nat
      BY <2>1, ErrorsAssumption, LimitsAssumption DEF TypeOK, Entry, FailedNodesAfter
    <3>2. e.rows = entry[k].rows
      BY <3>1, FailureLemma
    <3>3. e.consecutive_failures = entry[k].consecutive_failures + 1
      BY <3>1, FailureLemma
    <3>4. QED BY <3>1, <3>2, <3>3, FailureExport
  <2>2. QED BY <1>10, <1>12, <2>1 DEF RunFails
<1>13. ASSUME NEW r \in RunIds, NEW empty \in BOOLEAN, NEW failed \in BOOLEAN,
              RunSucceeds(r, empty, failed), NEW k, k = owner[r].key
       PROVE  Feed!FeedNext \/ UNCHANGED Feed!feedVars
  <2> DEFINE e == Updated(entry[k], r, empty, failed)
  <2>1. CASE k \notin registered
    BY <1>1, <1>13, <2>1 DEF RunSucceeds, Change
  <2>2. CASE k \in registered
    <3>1. /\ k \in Keys /\ registered' = registered /\ entry' = [entry EXCEPT ![k] = e]
          /\ delivered' = [delivered EXCEPT ![k] = delivered[k] \cup {r}]
          /\ stage[r] = "querying"
      BY <1>13, <2>2 DEF RunSucceeds, Change, TypeOK
    <3>2. /\ r \notin delivered[k] /\ entry[k] \in Entry /\ r \in Nat \ {0}
          /\ Newest(entry[k], delivered[k]) /\ entry[k].tick_ts = entry[k].rows
          /\ delivered[k] \subseteq RunIds
      <4>1. r \notin delivered[k]
        BY <3>1 DEF EntryInv
      <4>2. r \in Nat \ {0}
        BY DEF RunIds
      <4>3. Coherent(entry[k]) /\ Newest(entry[k], delivered[k])
        BY <2>2, <3>1 DEF EntryInv
      <4>4. entry[k] \in Entry /\ delivered[k] \subseteq RunIds
        BY <3>1 DEF TypeOK
      <4>5. QED BY <4>1, <4>2, <4>3, <4>4 DEF Coherent
    <3>3. CASE r < entry[k].tick_ts
      <4>1. e = entry[k]
        BY <3>3 DEF Updated
      <4>2. entry' = entry
        BY <3>1, <4>1 DEF TypeOK
      <4>3. fails' = fails /\ shown' = shown
        BY <3>1, <4>2 DEF fails, shown, Shown
      <4>4. ~(\A m \in delivered[k] \cup {r} : m <= r)
        BY <3>2, <3>3 DEF Newest, None, Entry
      <4>5. Feed!Deliver(k, r)
        BY <2>2, <3>1, <3>2, <4>3, <4>4 DEF Feed!Deliver, Feed!IsNewest, fails, shown, TypeOK
      <4>6. QED BY <3>1, <4>5 DEF Feed!FeedNext
    <3>4. CASE ~(r < entry[k].tick_ts)
      <4>1. e.rows = r /\ e.consecutive_failures = 0
        BY <3>2, <3>4 DEF Updated, Entry
      <4> HIDE DEF e
      <4>2. \A m \in delivered[k] \cup {r} : m <= r
        BY <3>2, <3>4 DEF Newest, None, Entry, RunIds
      <4>3. fails' = [fails EXCEPT ![k] = 0]
        BY <3>1, <4>1 DEF fails, TypeOK
      <4>4. shown' = [shown EXCEPT ![k] = Shown(k)'] /\ Shown(k)' \in {r, None}
        <5>1. shown' = [shown EXCEPT ![k] = Shown(k)']
          BY <3>1 DEF shown, Shown, TypeOK
        <5>2. entry'[k] = e
          BY <3>1 DEF TypeOK
        <5>3. QED BY <4>1, <5>1, <5>2 DEF Shown
      <4>5. Feed!Deliver(k, r)
        BY <2>2, <3>1, <3>2, <4>2, <4>3, <4>4
           DEF Feed!Deliver, Feed!IsNewest, Feed!Nothing, None, fails, shown, TypeOK
      <4>6. QED BY <3>1, <4>5 DEF Feed!FeedNext
    <3>5. QED BY <3>3, <3>4
  <2>3. QED BY <2>1, <2>2
<1>14. CASE UNCHANGED vars
  BY <1>1, <1>14 DEF vars
<1>15. QED
  BY <1>2, <1>3, <1>4, <1>5, <1>7, <1>8, <1>9, <1>11, <1>12, <1>13, <1>14
     DEF Next, HandlerStep, TickStep, RunStep, Answers

\* Every behaviour of handlers, daemons and runs is one of the feed: /metrics
\* shows nothing or the newest result, and withdraws it only for failures in a row.
THEOREM SchedulerImplementsFeed == Spec => ImplementsFeed
<1>1. Init => Feed!FeedInit
  BY DEF Init, Feed!FeedInit, Feed!Nothing, None, NewEntry, Shown
<1>2. QED
  BY <1>1, FeedStep, SpecEntryInv, PTL DEF ImplementsFeed, Feed!FeedSpec, Spec

-----------------------------------------------------------------------------
(* Whose rows an entry holds.                                                *)

\* Stamps grow with the resources of a name: a later tick is never one of a former
\* resource, and a result is delivered under the name of the resource that asked for it.
Stamps ==
    /\ \A r \in RunIds : stage[r] # "unused"
          => owner[r] \in Owner /\ owner[r].uid <= uid[owner[r].key]
    /\ \A r, s \in RunIds :
          /\ stage[r] # "unused" /\ stage[s] # "unused"
          /\ owner[r].key = owner[s].key
          /\ r < s
          => owner[r].uid <= owner[s].uid
    /\ \A k \in Keys : \A r \in delivered[k] : owner[r].key = k

LEMMA InitStamps == Init => Stamps
BY DEF Init, Stamps

LEMMA NextStamps ==
    TypeOK /\ TypeOK' /\ FreshRuns /\ EntryInv /\ Stamps /\ [Next]_vars => Stamps'
<1> SUFFICES ASSUME TypeOK, TypeOK', FreshRuns, EntryInv, Stamps, [Next]_vars PROVE Stamps'
  OBVIOUS
<1> USE DEF resourceVars, runVars, operatorVars
<1>1. ASSUME owner' = owner,
             \A r \in RunIds : stage'[r] # "unused" => stage[r] # "unused",
             \A k \in Keys : uid[k] <= uid'[k],
             \A k \in Keys : \A r \in delivered'[k] : r \in delivered[k] \/ owner[r].key = k
      PROVE  Stamps'
  <2>1. ASSUME NEW r \in RunIds, stage'[r] # "unused"
        PROVE  owner'[r] \in Owner /\ owner'[r].uid <= uid'[owner'[r].key]
    <3>1. owner[r] \in Owner /\ owner[r].uid <= uid[owner[r].key]
      BY <1>1, <2>1 DEF Stamps
    <3>2. owner[r].key \in Keys /\ owner[r].uid \in Int
      BY <3>1, LimitsAssumption DEF Owner
    <3>3. uid[owner[r].key] \in Int /\ uid'[owner[r].key] \in Int
      BY <3>2, LimitsAssumption DEF TypeOK
    <3>4. QED BY <1>1, <3>1, <3>2, <3>3
  <2>2. QED BY <1>1, <2>1 DEF Stamps
<1>2. ASSUME UNCHANGED << owner, stage, uid, delivered >> PROVE Stamps'
  BY <1>1, <1>2, LimitsAssumption DEF TypeOK
<1>3. ASSUME NEW k \in Keys, NEW s \in Specs, Create(k, s) PROVE Stamps'
  <2>1. \A q \in Keys : uid[q] <= uid'[q]
    BY <1>3, LimitsAssumption DEF Create, TypeOK
  <2>2. QED BY <1>1, <1>3, <2>1 DEF Create
<1>4. ASSUME NEW k \in Keys, NEW s \in Specs,
             \/ Edit(k, s) \/ Delete(k) \/ Gone(k) \/ StartDaemon(k) \/ StopDaemon(k)
             \/ HandleRegister(k) \/ TickWaits(k) \/ TickSkips(k)
      PROVE  Stamps'
  BY <1>2, <1>4 DEF Edit, Delete, Gone, StartDaemon, StopDaemon, HandleRegister, TickWaits,
     TickSkips
<1>5. \A k \in Keys : uid[k] <= uid[k]
  BY LimitsAssumption DEF TypeOK
<1>6. ASSUME NEW k \in Keys, HandleDelete(k) PROVE Stamps'
  BY <1>1, <1>5, <1>6 DEF HandleDelete, TypeOK
<1>7. ASSUME NEW k \in Keys, TickSpawns(k) PROVE Stamps'
  <2> DEFINE n == clock + 1
             o == [key |-> k, uid |-> uid[k], kind |-> spec[k].kind]
  <2>1. /\ n \in RunIds /\ stage[n] = "unused" /\ n \in Int
        /\ \A r \in RunIds : stage[r] # "unused" => r < n
    BY <1>7, LimitsAssumption DEF TickSpawns, TypeOK, FreshRuns, RunIds
  <2>2. /\ stage' = [stage EXCEPT ![n] = "created"] /\ owner' = [owner EXCEPT ![n] = o]
        /\ delivered' = delivered /\ uid' = uid
    BY <1>7 DEF TickSpawns
  <2>3. o \in Owner /\ o.key = k /\ o.uid = uid[k] /\ uid[k] <= uid[k]
    BY <1>5, SpecsAssumption DEF Owner, Spec0, TypeOK
  <2> HIDE DEF n, o
  <2>4. owner'[n] = o /\ \A r \in RunIds : r # n => owner'[r] = owner[r] /\ stage'[r] = stage[r]
    BY <2>1, <2>2 DEF TypeOK
  <2>5. \A r \in RunIds : stage'[r] # "unused"
            => owner'[r] \in Owner /\ owner'[r].uid <= uid'[owner'[r].key]
    BY <2>2, <2>3, <2>4 DEF Stamps
  <2>6. ASSUME NEW r \in RunIds, NEW s \in RunIds, stage'[r] # "unused", stage'[s] # "unused",
               owner'[r].key = owner'[s].key, r < s
        PROVE  owner'[r].uid <= owner'[s].uid
    <3>1. r # n
      BY <2>1, <2>4, <2>6 DEF RunIds
    <3>2. CASE s = n
      BY <2>3, <2>4, <2>6, <3>1, <3>2 DEF Stamps
    <3>3. CASE s # n
      BY <2>4, <2>6, <3>1, <3>3 DEF Stamps
    <3>4. QED BY <3>2, <3>3
  <2>7. ASSUME NEW q \in Keys, NEW r \in delivered'[q] PROVE owner'[r].key = q
    <3>1. r \in delivered[q] /\ r \in RunIds /\ r # n
      BY <2>1, <2>2, <2>7 DEF EntryInv, TypeOK
    <3>2. QED BY <2>4, <3>1 DEF Stamps
  <2>8. QED BY <2>5, <2>6, <2>7 DEF Stamps
<1>8. ASSUME NEW r \in RunIds, NEW k, k = owner[r].key,
             \/ RunStarts(r) \/ RunNotFound(r) \/ Answers(r) \/ RunDone(r)
      PROVE  Stamps'
  <2>1. /\ owner' = owner /\ uid' = uid /\ stage[r] # "unused"
        /\ \E x \in Stages : stage' = [stage EXCEPT ![r] = x]
        /\ delivered' = delivered \/ delivered' = [delivered EXCEPT ![k] = @ \cup {r}]
    BY <1>8 DEF RunStarts, RunNotFound, Answers, RunSucceeds, RunFails, RunDone, Stages
  <2>2. \A p \in RunIds : stage'[p] # "unused" => stage[p] # "unused"
    BY <2>1 DEF TypeOK
  <2>3. \A q \in Keys : \A p \in delivered'[q] : p \in delivered[q] \/ owner[p].key = q
    BY <1>8, <2>1 DEF TypeOK
  <2>4. QED BY <1>1, <1>5, <2>1, <2>2, <2>3
<1>9. CASE OperatorStep
  <2>1. /\ owner' = owner /\ uid' = uid /\ delivered' = delivered
        /\ \A p \in RunIds : stage'[p] # "unused" => stage[p] # "unused"
    BY <1>9 DEF OperatorStep, Exit, Pause, Resume, CancelPending, ConnBuilt, ConnReady,
       ConnDropped, Alive
  <2>2. QED BY <1>1, <1>5, <2>1
<1>10. CASE UNCHANGED vars
  BY <1>2, <1>10 DEF vars
<1>11. QED
  BY <1>3, <1>4, <1>6, <1>7, <1>8, <1>9, <1>10, SpecsAssumption
     DEF Next, ResourceStep, HandlerStep, TickStep, RunStep

\* A late result of a deleted resource never takes the place of one of the resource that
\* has the name now.
THEOREM OwnRowsWin == Spec => []OwnRowsStay
<1>1. TypeOK /\ EntryInv /\ Stamps => OwnRowsStay
  <2> SUFFICES ASSUME TypeOK, EntryInv, Stamps, NEW k \in registered,
                      NEW r \in delivered[k], owner[r].uid = uid[k]
               PROVE  owner[entry[k].rows].uid = uid[k]
    BY DEF OwnRowsStay
  <2> DEFINE m == entry[k].rows
  <2>1. k \in Keys /\ m \in delivered[k] /\ r <= m
    BY DEF TypeOK, EntryInv, Newest
  <2>2. /\ r \in RunIds /\ m \in RunIds /\ stage[r] # "unused" /\ stage[m] # "unused"
        /\ owner[r].key = k /\ owner[m].key = k
    BY <2>1 DEF TypeOK, EntryInv, Stamps
  <2> HIDE DEF m
  <2>3. owner[m] \in Owner /\ owner[m].uid <= uid[k]
    BY <2>2 DEF Stamps
  <2>4. owner[m].uid \in Int /\ uid[k] \in Int
    BY <2>1, <2>3, LimitsAssumption DEF Owner, TypeOK
  <2>5. CASE r = m
    BY <2>5 DEF m
  <2>6. CASE r < m
    <3>1. uid[k] <= owner[m].uid
      BY <2>2, <2>6 DEF Stamps
    <3>2. QED BY <2>3, <2>4, <3>1 DEF m
  <2>7. QED BY <2>1, <2>2, <2>5, <2>6 DEF RunIds
<1>2. QED
  BY <1>1, SpecEntryInv, NextTypeOK, InitStamps, NextStamps, PTL DEF Spec
=============================================================================

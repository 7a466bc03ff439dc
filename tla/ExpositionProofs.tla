-------------------------- MODULE ExpositionProofs --------------------------
(***************************************************************************)
(* Proofs about Exposition: its types, and that every page is well formed, *)
(* keeps the labels of its series and tells of each query as of one        *)
(* moment, for any queries, specs, label values and bounds.                *)
(***************************************************************************)
EXTENDS Exposition, MetricsCollectorProofs, WellFoundedInduction

Objects == 1..MaxEntries
SpecColumns == UNION {s.columns : s \in Specs}
Columns == SpecColumns \cup {NodeLabel}

Copies == {1} \cup {s.copies : s \in Specs}
Object == [spec : Specs, e : Entry, columns : SUBSET Columns, copies : Copies]
Todos == UNION {[S -> Objects] : S \in SUBSET Keys}
Scrape == [pc : {"idle", "snapshot", "read", "done"}, leader : BOOLEAN, todo : Todos]
Read == [key : Keys, obj : Objects, spec : Specs, e : Entry, columns : SUBSET Columns,
         copies : Copies]

\* What a page shows of an entry: rows of the tick that is its last success, and those of a
\* query that is up.
Shows(f) ==
    /\ f.tick_ts <= MaxTicks /\ f.consecutive_failures <= Limit
    /\ f.rows = f.tick_ts
    /\ f.up => f.rows # None /\ ~f.expired

\* No column that was stored is the reserved label; the entry knows whether its spec is valid.
Stored(x) == Shows(x.e) /\ QueryKey \notin x.columns
Judged(x) == x.e.invalid_reason <=> InvalidReason(x.spec)

Typed ==
    /\ entries \in [Keys -> 0..MaxEntries] /\ owed \in Keys \cup {NoKey}
    /\ objects \in [Objects -> Object] /\ scrape \in Scrape /\ reads \subseteq Read
    /\ \A o \in Objects : Stored(objects[o])

\* An object that an entry or the scrape holds has been registered.
HeldJudged ==
    /\ \A k \in Keys : entries[k] # 0 => Judged(objects[entries[k]])
    /\ \A k \in DOMAIN scrape.todo : Judged(objects[scrape.todo[k]])

\* Each key is read once, and none without the leader flag.
ReadsOnce ==
    /\ \A r \in reads : Stored(r) /\ Judged(r) /\ r.key \notin DOMAIN scrape.todo
    /\ \A r, s \in reads : r.key = s.key => r = s
    /\ scrape.pc \in {"idle", "snapshot"} => reads = {}
    /\ scrape.pc \in {"snapshot", "read"} => scrape.leader
    /\ ~scrape.leader => reads = {}

IInv == Typed /\ HeldJudged /\ ReadsOnce
-----------------------------------------------------------------------------
(* The entry.                                                                *)

LEMMA NewEntryShows == ASSUME NEW b \in BOOLEAN PROVE Shows(NewEntry(b))
BY NewEntryFields, BoundsAssumption DEF Shows, None

LEMMA RegisteredShows ==
    ASSUME NEW a \in Entry, Shows(a), NEW b \in BOOLEAN PROVE Shows(Registered(a, b))
BY RegisteredFields DEF SameRuns, Shows

LEMMA UpdatedShows ==
    ASSUME NEW a \in Entry, Shows(a), NEW n \in 1..MaxTicks, NEW b \in BOOLEAN, NEW c \in BOOLEAN
    PROVE  /\ Shows(Updated(a, n, b, c))
           /\ Updated(a, n, b, c).invalid_reason <=> a.invalid_reason
<1> DEFINE f == Updated(a, n, b, c)
<1>1. n \in Nat /\ n # 0 /\ n <= MaxTicks /\ 0 <= Limit
  BY BoundsAssumption
<1>2. \/ f = a
      \/ /\ f.rows = n /\ f.tick_ts = n /\ ~f.expired /\ f.consecutive_failures = 0
         /\ (f.invalid_reason <=> a.invalid_reason)
  BY <1>1, UpdatedFields
<1> HIDE DEF f
<1>3. Shows(f) /\ (f.invalid_reason <=> a.invalid_reason)
  BY <1>1, <1>2 DEF Shows, None
<1>4. QED BY <1>3 DEF f

LEMMA FailureShows ==
    ASSUME NEW a \in Entry, Shows(a), a.consecutive_failures < Limit, NEW b \in BOOLEAN
    PROVE  /\ Shows(MarkFailure(a, "QueryError", b))
           /\ MarkFailure(a, "QueryError", b).invalid_reason <=> a.invalid_reason
<1> DEFINE f == MarkFailure(a, "QueryError", b)
<1>1. "QueryError" \in ErrorTypes
  BY DEF ErrorTypes
<1>2. /\ f.rows = a.rows /\ f.tick_ts = a.tick_ts /\ ~f.up
      /\ f.consecutive_failures = a.consecutive_failures + 1
      /\ (f.invalid_reason <=> a.invalid_reason)
  BY <1>1, MarkFailureFields
<1>3. a.consecutive_failures + 1 <= Limit
  BY BoundsAssumption DEF Entry
<1> HIDE DEF f
<1>4. Shows(f) /\ (f.invalid_reason <=> a.invalid_reason)
  BY <1>2, <1>3 DEF Shows
<1>5. QED BY <1>4 DEF f

LEMMA ExpireShows ==
    ASSUME NEW a \in Entry, Shows(a)
    PROVE  Shows(Expire(a)) /\ (Expire(a).invalid_reason <=> a.invalid_reason)
BY ExpireFields DEF Shows

LEMMA JudgmentType == ASSUME NEW s PROVE InvalidReason(s) \in BOOLEAN
BY DEF InvalidReason

-----------------------------------------------------------------------------
(* The objects.                                                              *)

\* Some object is the first of those that are free.
LEMMA LeastExists ==
    ASSUME NEW S \in SUBSET Nat, S # {}
    PROVE  \E o \in S : \A x \in S : o <= x
<1>1. \E o \in S : \A x \in S : ~(<< x, o >> \in OpToRel(<, Nat))
  BY NatLessThanWellFounded, WFMin
<1>2. \A x, o \in S : ~(<< x, o >> \in OpToRel(<, Nat)) => o <= x
  BY DEF OpToRel
<1>3. QED BY <1>1, <1>2

LEMMA NoObjectStored == NoObject \in Object /\ Stored(NoObject)
<1>1. NewEntry(FALSE) \in Entry /\ Shows(NewEntry(FALSE))
  BY NewEntryType, NewEntryShows
<1>2. (CHOOSE s \in Specs : TRUE) \in Specs
  BY SpecsAssumption
<1>3. QED BY <1>1, <1>2 DEF NoObject, Object, Stored, Copies

\* Objects that nobody holds are cleared, the others stay.
LEMMA CollectedObjects ==
    ASSUME Typed, NEW held
    PROVE  /\ Collected(held) \in [Objects -> Object]
           /\ \A o \in Objects : Stored(Collected(held)[o])
           /\ \A o \in Objects : o \in held => Collected(held)[o] = objects[o]
BY NoObjectStored DEF Collected, Typed

LEMMA RowColumnsType ==
    ASSUME NEW s \in Specs, RowsValid(s)
    PROVE  RowColumns(s) \in SUBSET Columns /\ QueryKey \notin RowColumns(s)
<1>1. QueryKey # NodeLabel
  BY DEF QueryKey, NodeLabel
<1>2. s.columns \in SUBSET Columns /\ NodeLabel \in Columns
  <2>1. \A c \in s.columns : c \in SpecColumns
    BY DEF SpecColumns
  <2>2. QED BY <2>1 DEF Columns
<1>3. QueryKey \notin s.columns
  BY DEF RowsValid
<1>4. RowColumns(s) = s.columns \/ RowColumns(s) = s.columns \cup {NodeLabel}
  BY DEF RowColumns
<1>5. QED BY <1>1, <1>2, <1>3, <1>4

\* A step of the loop that changes one object and says of a valid spec that it is valid.
LEMMA ObjectStep ==
    ASSUME IInv, UNCHANGED << entries, scrape, reads >>, owed' \in Keys \cup {NoKey},
           NEW o \in Objects, NEW x \in Object, objects' = [objects EXCEPT ![o] = x],
           Stored(x), Judged(objects[o]) => Judged(x)
    PROVE  IInv'
<1>1. /\ objects \in [Objects -> Object]
      /\ \A p \in Objects : objects'[p] = IF p = o THEN x ELSE objects[p]
  BY DEF IInv, Typed
<1>2. Typed'
  BY <1>1 DEF IInv, Typed
<1>3. \A p \in Objects : Judged(objects[p]) => Judged(objects'[p])
  BY <1>1
<1>4. /\ \A k \in Keys : entries[k] # 0 => entries[k] \in Objects
      /\ \A k \in DOMAIN scrape.todo : scrape.todo[k] \in Objects
  BY BoundsAssumption DEF IInv, Typed, Scrape, Todos, Objects
<1>5. HeldJudged'
  BY <1>3, <1>4 DEF IInv, HeldJudged
<1>6. ReadsOnce'
  BY DEF IInv, ReadsOnce
<1>7. QED BY <1>2, <1>5, <1>6 DEF IInv

\* The same where only the entry of the object changes.
LEMMA EntryStep ==
    ASSUME IInv, UNCHANGED << entries, scrape, reads >>, owed' \in Keys \cup {NoKey},
           NEW o \in Objects, NEW f \in Entry,
           objects' = [objects EXCEPT ![o] = [objects[o] EXCEPT !.e = f]],
           Shows(f), f.invalid_reason <=> objects[o].e.invalid_reason
    PROVE  IInv'
<1> DEFINE x == [objects[o] EXCEPT !.e = f]
<1>1. objects[o] \in Object /\ Stored(objects[o])
  BY DEF IInv, Typed
<1>2. /\ x \in Object /\ x.e = f /\ x.spec = objects[o].spec /\ x.columns = objects[o].columns
  BY <1>1 DEF Object
<1> HIDE DEF x
<1>3. Stored(x) /\ (Judged(objects[o]) => Judged(x))
  BY <1>1, <1>2 DEF Stored, Judged
<1>4. objects' = [objects EXCEPT ![o] = x]
  BY DEF x
<1>5. QED BY <1>2, <1>3, <1>4, ObjectStep

-----------------------------------------------------------------------------
(* The loop's thread.                                                        *)

LEMMA HeldObjects ==
    ASSUME Typed
    PROVE  /\ \A k \in Keys : entries[k] # 0 => entries[k] \in Objects
           /\ \A k \in DOMAIN scrape.todo : k \in Keys /\ scrape.todo[k] \in Objects
BY BoundsAssumption DEF Typed, Scrape, Todos, Objects

LEMMA RegisterStep ==
    ASSUME IInv, NEW k \in Keys, NEW s \in Specs, Register(k, s) PROVE IInv'
<1> DEFINE b == InvalidReason(s)
<1>1. b \in BOOLEAN
  BY JudgmentType
<1>2. UNCHANGED << scrape, reads, owed >>
  BY DEF Register, Loop, LoopRuns
<1>3. CASE entries[k] # 0
  <2> DEFINE o == entries[k]
             f == Registered(objects[o].e, b)
             x == [objects[o] EXCEPT !.spec = s, !.e = f]
  <2>1. o \in Objects /\ objects[o] \in Object /\ Stored(objects[o])
    BY <1>3, HeldObjects DEF IInv, Typed
  <2>2. f \in Entry /\ Shows(f) /\ (f.invalid_reason <=> b)
    BY <1>1, <2>1, RegisteredType, RegisteredFields, RegisteredShows DEF Stored, Object
  <2>3. objects' = [objects EXCEPT ![o] = x]
    BY <1>3, <2>1 DEF Register, IInv, Typed, Object
  <2>4. entries' = entries
    BY <1>3 DEF Register
  <2> HIDE DEF f
  <2>5. x \in Object /\ x.e = f /\ x.spec = s /\ x.columns = objects[o].columns
    BY <2>1, <2>2 DEF Object
  <2> HIDE DEF x, o
  <2>6. Stored(x) /\ Judged(x)
    BY <2>1, <2>2, <2>5 DEF Stored, Judged
  <2>7. owed' \in Keys \cup {NoKey}
    BY <1>2 DEF IInv, Typed
  <2>8. QED BY <1>2, <2>1, <2>3, <2>4, <2>5, <2>6, <2>7, ObjectStep
<1>4. CASE entries[k] = 0
  <2> DEFINE free == DOMAIN objects \ Held(entries, scrape, reads)
             o == CHOOSE o \in free : \A x \in free : o <= x
             x == [spec |-> s, e |-> NewEntry(b), columns |-> {}, copies |-> 1]
  <2>1. /\ free # {} /\ entries' = [entries EXCEPT ![k] = o]
        /\ objects' = [objects EXCEPT ![o] = x]
    BY <1>4 DEF Register
  <2>2. o \in Objects /\ o \notin Held(entries, scrape, reads)
    <3>1. free \subseteq Objects
      BY DEF IInv, Typed
    <3>2. free \in SUBSET Nat
      BY <3>1, BoundsAssumption DEF Objects
    <3> HIDE DEF free
    <3>3. o \in free
      BY <2>1, <3>2, LeastExists
    <3>4. QED BY <3>1, <3>3 DEF free
  <2>3. x \in Object /\ Stored(x) /\ Judged(x)
    <3>1. NewEntry(b) \in Entry /\ Shows(NewEntry(b)) /\ (NewEntry(b).invalid_reason <=> b)
      BY <1>1, NewEntryType, NewEntryShows, NewEntryFields
    <3>2. QED BY <3>1 DEF Object, Stored, Judged, Copies
  <2> HIDE DEF o, x, free
  <2>4. /\ \A p \in Objects : objects'[p] = IF p = o THEN x ELSE objects[p]
        /\ objects' \in [Objects -> Object]
    BY <2>1, <2>2, <2>3 DEF IInv, Typed
  <2>5. Typed'
    <3>1. entries' \in [Keys -> 0..MaxEntries]
      BY <2>1, <2>2, BoundsAssumption DEF IInv, Typed, Objects
    <3>2. QED BY <1>2, <2>3, <2>4, <3>1 DEF IInv, Typed
  <2>6. HeldJudged'
    <3>1. \A j \in Keys : entries[j] # o
      BY <2>2 DEF Held
    <3>2. \A j \in DOMAIN scrape.todo : scrape.todo[j] # o
      BY <2>2 DEF Held
    <3>3. \A j \in Keys : entries'[j] = IF j = k THEN o ELSE entries[j]
      BY <2>1 DEF IInv, Typed
    <3>4. ASSUME NEW j \in Keys, entries'[j] # 0 PROVE Judged(objects'[entries'[j]])
      <4>1. CASE j = k
        BY <2>2, <2>3, <2>4, <3>3, <4>1
      <4>2. CASE j # k
        <5>1. entries'[j] = entries[j] /\ entries[j] \in Objects /\ entries[j] # o
          BY <3>1, <3>3, <3>4, <4>2, HeldObjects DEF IInv
        <5>2. QED BY <2>4, <3>4, <5>1 DEF IInv, HeldJudged
      <4>3. QED BY <4>1, <4>2
    <3>5. ASSUME NEW j \in DOMAIN scrape.todo PROVE Judged(objects'[scrape.todo[j]])
      BY <2>4, <3>2, HeldObjects DEF IInv, HeldJudged
    <3>6. QED BY <1>2, <3>4, <3>5 DEF HeldJudged
  <2>7. ReadsOnce'
    BY <1>2 DEF IInv, ReadsOnce
  <2>8. QED BY <2>5, <2>6, <2>7 DEF IInv
<1>5. QED BY <1>3, <1>4

LEMMA UnregisterStep == ASSUME IInv, NEW k \in Keys, Unregister(k) PROVE IInv'
<1>1. /\ entries' = [entries EXCEPT ![k] = 0] /\ UNCHANGED << scrape, reads, owed >>
      /\ objects' = Collected(Held(entries', scrape, reads))
  BY DEF Unregister, Loop, LoopRuns
<1>2. \A j \in Keys : entries'[j] = IF j = k THEN 0 ELSE entries[j]
  BY <1>1 DEF IInv, Typed
<1>3. Typed'
  <2>1. entries' \in [Keys -> 0..MaxEntries]
    BY <1>1, BoundsAssumption DEF IInv, Typed
  <2>2. QED BY <1>1, <2>1, CollectedObjects DEF IInv, Typed
<1>4. HeldJudged'
  <2>1. \A j \in Keys : entries'[j] # 0 => objects'[entries'[j]] = objects[entries'[j]]
    BY <1>1, <1>2, CollectedObjects, HeldObjects DEF Held, IInv
  <2>2. \A j \in DOMAIN scrape.todo : objects'[scrape.todo[j]] = objects[scrape.todo[j]]
    BY <1>1, CollectedObjects, HeldObjects DEF Held, IInv
  <2>3. ASSUME NEW j \in Keys, entries'[j] # 0 PROVE Judged(objects'[entries'[j]])
    <3>1. entries'[j] = entries[j] /\ entries[j] # 0
      BY <1>2, <2>3
    <3>2. Judged(objects[entries[j]])
      BY <3>1 DEF IInv, HeldJudged
    <3>3. QED BY <2>1, <2>3, <3>1, <3>2
  <2>4. ASSUME NEW j \in DOMAIN scrape.todo PROVE Judged(objects'[scrape.todo[j]])
    BY <2>2 DEF IInv, HeldJudged
  <2>5. QED BY <1>1, <2>3, <2>4 DEF HeldJudged
<1>5. ReadsOnce'
  BY <1>1 DEF IInv, ReadsOnce
<1>6. QED BY <1>3, <1>4, <1>5 DEF IInv

LEMMA RunStep ==
    ASSUME IInv, NEW k \in Keys, NEW tick \in 1..MaxTicks, NEW empty \in BOOLEAN,
           RowsArrive(k, tick, empty)
    PROVE  IInv'
<1> DEFINE o == entries[k]
           f == Updated(objects[o].e, tick, empty, FALSE)
           c == IF tick < objects[o].e.tick_ts THEN objects[o].columns
                                               ELSE RowColumns(objects[o].spec)
           n == IF tick < objects[o].e.tick_ts THEN objects[o].copies
                                               ELSE objects[o].spec.copies
           x == [objects[o] EXCEPT !.e = f, !.columns = c, !.copies = n]
<1>1. /\ o # 0 /\ RowsValid(objects[o].spec) /\ objects' = [objects EXCEPT ![o] = x]
      /\ UNCHANGED << entries, owed, scrape, reads >>
  BY DEF RowsArrive, Loop, LoopRuns
<1>2. o \in Objects /\ objects[o] \in Object /\ Stored(objects[o])
  BY <1>1, HeldObjects DEF IInv, Typed
<1>3. /\ objects[o].e \in Entry /\ Shows(objects[o].e) /\ objects[o].spec \in Specs
      /\ objects[o].columns \in SUBSET Columns /\ QueryKey \notin objects[o].columns
  BY <1>2 DEF Object, Stored
<1>4. /\ f \in Entry /\ Shows(f) /\ (f.invalid_reason <=> objects[o].e.invalid_reason)
  <2>1. tick \in Nat
    BY BoundsAssumption
  <2>2. QED BY <1>3, <2>1, UpdatedType, UpdatedShows
<1>5. c \in SUBSET Columns /\ QueryKey \notin c /\ n \in Copies
  <2>1. objects[o].copies \in Copies
    BY <1>2 DEF Object
  <2>2. objects[o].spec.copies \in Copies
    BY <1>3, SpecsAssumption DEF Copies
  <2>3. QED BY <1>1, <1>3, <2>1, <2>2, RowColumnsType
<1> HIDE DEF f, c, n
<1>6. x \in Object /\ x.e = f /\ x.columns = c /\ x.spec = objects[o].spec
  BY <1>2, <1>4, <1>5 DEF Object
<1> HIDE DEF x, o
<1>7. Stored(x) /\ (Judged(objects[o]) => Judged(x))
  BY <1>4, <1>5, <1>6 DEF Stored, Judged
<1>8. owed' \in Keys \cup {NoKey}
  BY <1>1 DEF IInv, Typed
<1>9. QED BY <1>1, <1>2, <1>6, <1>7, <1>8, ObjectStep

LEMMA MarkStep == ASSUME IInv, NEW k \in Keys, FailureMarked(k) PROVE IInv'
<1> DEFINE o == entries[k]
           f == MarkFailure(objects[o].e, "QueryError", FALSE)
<1>1. /\ o # 0 /\ objects[o].e.consecutive_failures < Limit
      /\ objects' = [objects EXCEPT ![o] = [objects[o] EXCEPT !.e = f]]
      /\ owed' = k /\ UNCHANGED << entries, scrape, reads >>
  BY DEF FailureMarked, Loop, LoopRuns
<1>2. o \in Objects /\ objects[o] \in Object /\ Stored(objects[o])
  BY <1>1, HeldObjects DEF IInv, Typed
<1>3. objects[o].e \in Entry /\ Shows(objects[o].e)
  BY <1>2 DEF Object, Stored
<1>4. f \in Entry /\ Shows(f) /\ (f.invalid_reason <=> objects[o].e.invalid_reason)
  <2>1. "QueryError" \in ErrorTypes
    BY DEF ErrorTypes
  <2>2. QED BY <1>1, <1>3, <2>1, MarkFailureType, FailureShows
<1> HIDE DEF f, o
<1>5. owed' \in Keys \cup {NoKey}
  BY <1>1
<1>6. QED BY <1>1, <1>2, <1>4, <1>5, EntryStep

LEMMA DecideStep == ASSUME IInv, FailureDecided PROVE IInv'
<1> DEFINE o == entries[owed]
           f == IF objects[o].e.consecutive_failures >= Limit
                THEN Expire(objects[o].e) ELSE objects[o].e
<1>1. /\ owed \in Keys /\ owed' = NoKey /\ UNCHANGED << entries, scrape, reads >>
      /\ objects' = [objects EXCEPT ![o] = [objects[o] EXCEPT !.e = f]]
  BY DEF FailureDecided, LoopRuns, IInv, Typed
<1>2. owed' \in Keys \cup {NoKey}
  BY <1>1
<1>3. CASE o \in Objects
  <2>1. objects[o] \in Object /\ Stored(objects[o])
    BY <1>3 DEF IInv, Typed
  <2>2. objects[o].e \in Entry /\ Shows(objects[o].e)
    BY <2>1 DEF Object, Stored
  <2>3. f \in Entry /\ Shows(f) /\ (f.invalid_reason <=> objects[o].e.invalid_reason)
    BY <2>2, ExpireFields, ExpireShows
  <2> HIDE DEF f, o
  <2>4. QED BY <1>1, <1>2, <1>3, <2>3, EntryStep
<1>4. CASE o \notin Objects
  <2>1. objects' = objects
    BY <1>1, <1>4 DEF IInv, Typed
  <2>2. QED BY <1>1, <1>2, <2>1 DEF IInv, Typed, HeldJudged, ReadsOnce
<1>5. QED BY <1>3, <1>4

-----------------------------------------------------------------------------
(* The scraper's thread.                                                     *)

LEMMA TodoType ==
    ASSUME NEW S \in SUBSET Keys, NEW f \in [S -> Objects] PROVE f \in Todos
BY DEF Todos

LEMMA NoScrapeType == NoScrape \in Scrape /\ DOMAIN NoScrape.todo = {}
<1>1. [k \in {} |-> 0] \in [{} -> Objects]
  OBVIOUS
<1>2. [k \in {} |-> 0] \in Todos
  BY <1>1, TodoType
<1>3. QED BY <1>2 DEF NoScrape, Scrape, Todos

LEMMA GateStep == ASSUME IInv, Gate PROVE IInv'
<1>1. PICK active \in BOOLEAN :
         scrape' = [NoScrape EXCEPT !.pc = IF active THEN "snapshot" ELSE "done", !.leader = active]
  BY DEF Gate
<1>2. /\ UNCHANGED << entries, objects, owed, reads >> /\ reads = {}
  BY DEF Gate, Scraper, IInv, ReadsOnce
<1>3. /\ scrape' \in Scrape /\ DOMAIN scrape'.todo = {} /\ (scrape'.leader <=> active)
      /\ scrape'.pc = IF active THEN "snapshot" ELSE "done"
  BY <1>1, NoScrapeType DEF Scrape
<1>4. Typed'
  BY <1>2, <1>3 DEF IInv, Typed
<1>5. HeldJudged'
  BY <1>2, <1>3 DEF IInv, HeldJudged
<1>6. ReadsOnce'
  BY <1>2, <1>3 DEF ReadsOnce
<1>7. QED BY <1>4, <1>5, <1>6 DEF IInv

LEMMA SnapshotStep == ASSUME IInv, Snapshot PROVE IInv'
<1> DEFINE S == {x \in Keys : entries[x] # 0}
           f == [k \in S |-> entries[k]]
<1>1. /\ scrape.pc = "snapshot" /\ scrape' = [scrape EXCEPT !.pc = "read", !.todo = f]
      /\ UNCHANGED << entries, objects, owed, reads >>
  BY DEF Snapshot, Scraper
<1>2. reads = {} /\ scrape.leader
  BY <1>1 DEF IInv, ReadsOnce
<1>3. f \in [S -> Objects]
  BY HeldObjects DEF IInv
<1>4. f \in Todos
  BY <1>3, TodoType
<1>5. \A k \in DOMAIN f : Judged(objects[f[k]])
  BY DEF IInv, HeldJudged
<1> HIDE DEF f
<1>6. scrape' \in Scrape /\ scrape'.todo = f /\ scrape'.pc = "read" /\ scrape'.leader
  BY <1>1, <1>2, <1>4 DEF IInv, Typed, Scrape, Todos
<1>7. Typed'
  BY <1>1, <1>6 DEF IInv, Typed
<1>8. HeldJudged'
  BY <1>1, <1>5, <1>6 DEF IInv, HeldJudged
<1>9. ReadsOnce'
  BY <1>1, <1>2, <1>6 DEF ReadsOnce
<1>10. QED BY <1>7, <1>8, <1>9 DEF IInv

LEMMA ReadStep == ASSUME IInv, NEW k \in Keys, ReadEntry(k) PROVE IInv'
<1> DEFINE o == scrape.todo[k]
           r == ReadOf(k, o)
           S == DOMAIN scrape.todo \ {k}
           f == [x \in S |-> scrape.todo[x]]
<1>1. /\ scrape.pc = "read" /\ k \in DOMAIN scrape.todo
      /\ scrape' = [scrape EXCEPT !.todo = f]
      /\ reads' = reads \cup {r} /\ UNCHANGED << entries, objects, owed >>
  BY DEF ReadEntry, Scraper
<1>2. /\ o \in Objects /\ objects[o] \in Object /\ Stored(objects[o]) /\ Judged(objects[o])
  BY <1>1, HeldObjects DEF IInv, Typed, HeldJudged
<1>3. f \in Todos /\ \A x \in DOMAIN f : x # k /\ x \in DOMAIN scrape.todo /\ f[x] = scrape.todo[x]
  <2>1. S \in SUBSET Keys /\ f \in [S -> Objects]
    BY HeldObjects DEF IInv
  <2>2. QED BY <2>1, TodoType
<1> HIDE DEF f
<1>4. /\ r.key = k /\ r.e = objects[o].e /\ r.spec = objects[o].spec
      /\ r.columns = objects[o].columns /\ r \in Read
  BY <1>2 DEF ReadOf, Read, Object
<1> HIDE DEF o, r
<1>5. Stored(r) /\ Judged(r)
  BY <1>2, <1>4 DEF Stored, Judged
<1>6. /\ scrape' \in Scrape /\ scrape'.todo = f /\ scrape'.pc = "read"
      /\ (scrape'.leader <=> scrape.leader)
  BY <1>1, <1>3 DEF IInv, Typed, Scrape, Todos
<1>7. Typed'
  BY <1>1, <1>4, <1>6 DEF IInv, Typed
<1>8. HeldJudged'
  BY <1>1, <1>3, <1>6 DEF IInv, HeldJudged
<1>9. ReadsOnce'
  <2>1. /\ scrape.leader /\ k \in DOMAIN scrape.todo
        /\ \A x \in reads : Stored(x) /\ Judged(x) /\ x.key \notin DOMAIN scrape.todo
        /\ \A x, y \in reads : x.key = y.key => x = y
    BY <1>1 DEF IInv, ReadsOnce
  <2>2. \A x \in reads : x.key # k
    BY <2>1
  <2>3. \A x \in reads' : Stored(x) /\ Judged(x) /\ x.key \notin DOMAIN f
    BY <1>1, <1>3, <1>4, <1>5, <2>1
  <2>4. \A x, y \in reads' : x.key = y.key => x = y
    BY <1>1, <1>4, <2>1, <2>2
  <2>5. QED BY <1>6, <2>1, <2>3, <2>4 DEF ReadsOnce
<1>10. QED BY <1>7, <1>8, <1>9 DEF IInv

LEMMA AnswerStep == ASSUME IInv, Answer PROVE IInv'
<1>1. /\ scrape.pc = "read" /\ scrape' = [scrape EXCEPT !.pc = "done"]
      /\ UNCHANGED << entries, objects, owed, reads >>
  BY DEF Answer, Scraper
<1>2. /\ scrape' \in Scrape /\ scrape'.todo = scrape.todo /\ scrape'.pc = "done"
      /\ (scrape'.leader <=> scrape.leader)
  BY <1>1 DEF IInv, Typed, Scrape
<1>3. Typed'
  BY <1>1, <1>2 DEF IInv, Typed
<1>4. HeldJudged'
  BY <1>1, <1>2 DEF IInv, HeldJudged
<1>5. ReadsOnce'
  BY <1>1, <1>2 DEF IInv, ReadsOnce
<1>6. QED BY <1>3, <1>4, <1>5 DEF IInv

LEMMA OverStep == ASSUME IInv, Over PROVE IInv'
<1>1. /\ scrape' = NoScrape /\ reads' = {} /\ UNCHANGED << entries, owed >>
      /\ objects' = Collected(Held(entries, NoScrape, {}))
  BY DEF Over
<1>2. Typed'
  BY <1>1, CollectedObjects, NoScrapeType DEF IInv, Typed
<1>3. HeldJudged'
  <2>1. ASSUME NEW k \in Keys, entries[k] # 0 PROVE objects'[entries[k]] = objects[entries[k]]
    BY <1>1, <2>1, CollectedObjects, HeldObjects DEF Held, IInv
  <2>2. \A k \in Keys : entries'[k] # 0 => Judged(objects'[entries'[k]])
    BY <1>1, <2>1 DEF IInv, HeldJudged
  <2>3. QED BY <1>1, <2>2, NoScrapeType DEF HeldJudged
<1>4. ReadsOnce'
  BY <1>1 DEF ReadsOnce, NoScrape
<1>5. QED BY <1>2, <1>3, <1>4 DEF IInv

-----------------------------------------------------------------------------
(* The invariant.                                                            *)

LEMMA InitIInv == Init => IInv
<1> SUFFICES ASSUME Init PROVE IInv
  OBVIOUS
<1>1. Typed
  BY NoObjectStored, NoScrapeType, BoundsAssumption DEF Init, Typed, Objects
<1>2. HeldJudged
  BY NoScrapeType DEF Init, HeldJudged
<1>3. ReadsOnce
  BY DEF Init, ReadsOnce, NoScrape
<1>4. QED BY <1>1, <1>2, <1>3 DEF IInv

LEMMA NextIInv == IInv /\ [Next]_vars => IInv'
<1> SUFFICES ASSUME IInv, [Next]_vars PROVE IInv'
  OBVIOUS
<1>1. ASSUME NEW k \in Keys, NEW s \in Specs, Register(k, s) PROVE IInv'
  BY <1>1, RegisterStep
<1>2. ASSUME NEW k \in Keys, Unregister(k) PROVE IInv'
  BY <1>2, UnregisterStep
<1>3. ASSUME NEW k \in Keys, FailureMarked(k) PROVE IInv'
  BY <1>3, MarkStep
<1>4. ASSUME NEW k \in Keys, ReadEntry(k) PROVE IInv'
  BY <1>4, ReadStep
<1>5. ASSUME NEW k \in Keys, NEW tick \in 1..MaxTicks, NEW empty \in BOOLEAN,
             RowsArrive(k, tick, empty)
      PROVE  IInv'
  BY <1>5, RunStep
<1>6. CASE FailureDecided
  BY <1>6, DecideStep
<1>7. CASE Gate
  BY <1>7, GateStep
<1>8. CASE Snapshot
  BY <1>8, SnapshotStep
<1>9. CASE Answer
  BY <1>9, AnswerStep
<1>10. CASE Over
  BY <1>10, OverStep
<1>11. CASE UNCHANGED vars
  BY <1>11 DEF vars, IInv, Typed, HeldJudged, ReadsOnce
<1>12. QED
  BY <1>1, <1>2, <1>3, <1>4, <1>5, <1>6, <1>7, <1>8, <1>9, <1>10, <1>11 DEF Next

LEMMA InvariantHolds == Spec => []IInv
BY InitIInv, NextIInv, PTL DEF Spec

\* The state of every entry is an entry's, within the bounds; what the scraper has yet to
\* read exists.
THEOREM TypesHold == Spec => []TypeOK
<1>1. IInv => TypeOK
  <2> SUFFICES ASSUME IInv PROVE TypeOK
    OBVIOUS
  <2>1. ASSUME NEW o \in DOMAIN objects
        PROVE  /\ objects[o].spec \in Specs /\ objects[o].e \in Entry
               /\ objects[o].e.tick_ts <= MaxTicks /\ objects[o].e.consecutive_failures <= Limit
    BY DEF IInv, Typed, Object, Stored, Shows
  <2>2. /\ scrape.pc \in {"idle", "snapshot", "read", "done"} /\ scrape.leader \in BOOLEAN
        /\ \A k \in DOMAIN scrape.todo : scrape.todo[k] \in DOMAIN objects
    BY HeldObjects DEF IInv, Typed, Scrape
  <2>3. QED BY <2>1, <2>2 DEF IInv, Typed, TypeOK
<1>2. QED BY <1>1, InvariantHolds, PTL

-----------------------------------------------------------------------------
(* The samples of a page.                                                    *)

\* What is exported was read, has rows and is valid, so query_key is none of its labels.
LEMMA GroupedReads ==
    ASSUME IInv, NEW r \in Grouped
    PROVE  /\ r \in reads /\ r \in Read /\ Stored(r) /\ ~r.e.invalid_reason /\ r.e.rows # None
           /\ QueryKey \notin DOMAIN r.spec.labels /\ QueryKey \notin r.columns
<1>1. r \in reads /\ r \in Read /\ Stored(r) /\ Judged(r)
  BY DEF Grouped, IInv, Typed, ReadsOnce
<1>2. ~r.e.invalid_reason /\ r.e.rows # None
  BY DEF Grouped, Exports
<1>3. ~InvalidReason(r.spec)
  BY <1>1, <1>2 DEF Judged
<1>4. QueryKey \in ReservedLabelNames(r.spec.type)
  BY DEF ReservedLabelNames
<1>5. QueryKey \notin DOMAIN r.spec.labels
  BY <1>3, <1>4 DEF InvalidReason
<1>6. QED BY <1>1, <1>2, <1>5 DEF Stored

LEMMA SameKey ==
    ASSUME IInv, NEW r \in reads, NEW q \in reads, r.key = q.key PROVE r = q
BY DEF IInv, ReadsOnce

\* The groups are those of the names, and none is empty.
LEMMA GroupNames ==
    ASSUME NEW group \in Groups
    PROVE  \E n : /\ group = {r \in Grouped : Name(r) = n}
                  /\ \E q \in Grouped : Name(q) = n
                  /\ UserFamily(group).name = n
<1>1. PICK q \in Grouped : group = {r \in Grouped : Name(r) = Name(q)}
  BY DEF Groups
<1>2. q \in group
  BY <1>1
<1>3. (CHOOSE r \in group : TRUE) \in group
  BY <1>2
<1>4. Name(CHOOSE r \in group : TRUE) = Name(q)
  BY <1>1, <1>3
<1>5. UserFamily(group).name = Name(q)
  BY <1>4 DEF UserFamily
<1>6. QED BY <1>1, <1>5

LEMMA GroupMembers == ASSUME NEW group \in Groups PROVE group \subseteq Grouped
BY GroupNames

LEMMA SamplesOfUser ==
    ASSUME NEW group, NEW x \in UserFamily(group).samples
    PROVE  \E r \in group : \E row \in [r.columns -> Values], i \in 1..r.copies :
              x = Sample(r, row, i, group)
BY DEF UserFamily, Samples

LEMMA SampleIsShown ==
    ASSUME NEW group, NEW r \in group, NEW row \in [r.columns -> Values], NEW i \in 1..r.copies
    PROVE  Sample(r, row, i, group) \in UserFamily(group).samples
<1>1. Sample(r, row, i, group) \in Samples(r, group)
  BY DEF Samples
<1>2. QED BY <1>1 DEF UserFamily

LEMMA SampleFields ==
    ASSUME NEW r, NEW row, NEW i, NEW group, NEW x, x = Sample(r, row, i, group)
    PROVE  /\ x.labels = LabelsOf(r, row, group) /\ x.value = r.e.rows /\ x.of = << r.key, row >>
           /\ Len(x.of) = 2 /\ x.of[1] = r.key /\ x.of[2] = row
BY DEF Sample, RowsRead

LEMMA KeySampleFields ==
    ASSUME NEW r, NEW v, NEW x, x = KeySample(r, v)
    PROVE  /\ x.labels[QueryKey] = r.key /\ x.value = v /\ Len(x.of) = 1 /\ x.of[1] = r.key
BY DEF KeySample

\* The labels of a sample, one by one.
LEMMA SampleLabels ==
    ASSUME IInv, NEW group \in Groups, NEW r \in group, NEW row \in [r.columns -> Values],
           NEW labels, labels = LabelsOf(r, row, group)
    PROVE  /\ QueryKey \in DOMAIN labels /\ labels[QueryKey] = r.key
           /\ \A l \in r.columns : l \in DOMAIN labels /\ labels[l] = row[l]
           /\ \A l \in DOMAIN r.spec.labels \ DynamicKeys(group) :
                 l \in DOMAIN labels /\ labels[l] = r.spec.labels[l]
<1>1. QueryKey \notin r.columns /\ QueryKey \notin DOMAIN r.spec.labels
  BY GroupMembers, GroupedReads
<1>2. r.columns \subseteq DynamicKeys(group) /\ DOMAIN r.spec.labels \subseteq StaticKeys(group)
  BY DEF DynamicKeys, StaticKeys
<1>3. /\ DOMAIN labels = StaticKeys(group) \cup DynamicKeys(group) \cup {QueryKey}
      /\ \A l \in DOMAIN labels :
            labels[l] = IF l = QueryKey THEN r.key
                        ELSE IF l \in DynamicKeys(group)
                             THEN IF l \in DOMAIN row THEN row[l] ELSE Blank
                        ELSE IF l \in DOMAIN r.spec.labels THEN r.spec.labels[l] ELSE Blank
  BY DEF LabelsOf
<1>4. DOMAIN row = r.columns
  OBVIOUS
<1>5. QueryKey \in DOMAIN labels /\ labels[QueryKey] = r.key
  BY <1>3
<1>6. \A l \in r.columns : l \in DOMAIN labels /\ labels[l] = row[l]
  BY <1>1, <1>2, <1>3, <1>4
<1>7. \A l \in DOMAIN r.spec.labels \ DynamicKeys(group) :
         l \in DOMAIN labels /\ labels[l] = r.spec.labels[l]
  BY <1>1, <1>2, <1>3
<1>8. QED BY <1>5, <1>6, <1>7

-----------------------------------------------------------------------------
(* Pages are well formed.                                                    *)

SystemBases == {"leader", "query_up", "query_last_success_timestamp_seconds"}
SystemFamilies == {LeaderFamily, UpFamily, SuccessFamily}

\* No user metric that may be exported is called as a family of the exporter's own.  The code
\* does not see to it, and two families of one name are what happens without it.
NoSystemNames ==
    \A s \in Specs : ~InvalidReason(s) =>
       \A base \in SystemBases : ApplyPrefix(s) # SystemName(base)

LEMMA PageFamilies ==
    ASSUME NEW f \in Page
    PROVE  f \in SystemFamilies \/ \E group \in Groups : f = UserFamily(group)
BY DEF Page, SystemFamilies

LEMMA SystemFamilyNames ==
    /\ LeaderFamily.name = SystemName("leader") /\ UpFamily.name = SystemName("query_up")
    /\ SuccessFamily.name = SystemName("query_last_success_timestamp_seconds")
    /\ \A a, b : SystemName(a) = SystemName(b) => a = b
<1>1. \A a, b : SystemName(a) = SystemName(b) => a = b
  <2> SUFFICES ASSUME NEW a, NEW b, SystemName(a) = SystemName(b) PROVE a = b
    OBVIOUS
  <2>1. SystemName(a).base = a /\ SystemName(b).base = b
    BY DEF SystemName
  <2>2. QED BY <2>1
<1>2. QED BY <1>1 DEF LeaderFamily, UpFamily, SuccessFamily, SystemFamily

LEMMA FamilyNames ==
    ASSUME IInv, NoSystemNames PROVE FamiliesUnique
<1> SUFFICES ASSUME NEW f \in Page, NEW g \in Page, f.name = g.name PROVE f = g
  BY DEF FamiliesUnique
<1>1. ASSUME NEW a \in SystemFamilies, NEW b \in SystemFamilies, a.name = b.name PROVE a = b
  <2>1. \A x, y : SystemName(x) = SystemName(y) => x = y
    BY SystemFamilyNames
  <2>2. /\ "leader" # "query_up" /\ "leader" # "query_last_success_timestamp_seconds"
        /\ "query_up" # "query_last_success_timestamp_seconds"
    OBVIOUS
  <2>3. QED BY <1>1, <2>1, <2>2, SystemFamilyNames DEF SystemFamilies
<1>2. ASSUME NEW group \in Groups, NEW b \in SystemFamilies PROVE UserFamily(group).name # b.name
  <2>1. PICK q \in Grouped : Name(q) = UserFamily(group).name
    BY GroupNames
  <2>2. q \in Read /\ ~InvalidReason(q.spec)
    BY GroupedReads DEF IInv, ReadsOnce, Judged
  <2>3. q.spec \in Specs /\ Name(q) = ApplyPrefix(q.spec)
    BY <2>2 DEF Read, Name
  <2>4. \A base \in SystemBases : ApplyPrefix(q.spec) # SystemName(base)
    BY <2>2, <2>3 DEF NoSystemNames
  <2>5. \E base \in SystemBases : b.name = SystemName(base)
    BY SystemFamilyNames DEF SystemFamilies, SystemBases
  <2>6. QED BY <2>1, <2>3, <2>4, <2>5
<1>3. ASSUME NEW A \in Groups, NEW B \in Groups, UserFamily(A).name = UserFamily(B).name
      PROVE  A = B
  BY <1>3, GroupNames
<1>4. QED BY <1>1, <1>2, <1>3, PageFamilies

LEMMA SystemSeries ==
    ASSUME IInv, NEW f \in SystemFamilies, NEW x \in f.samples, NEW y \in f.samples,
           x.labels = y.labels
    PROVE  x = y
<1>1. CASE f = LeaderFamily
  BY <1>1 DEF LeaderFamily, SystemFamily
<1>2. ASSUME NEW r \in reads, NEW q \in reads, NEW u, NEW v,
             x = KeySample(r, u), y = KeySample(q, v)
      PROVE  r = q
  BY <1>2, KeySampleFields, SameKey
<1>3. CASE f = UpFamily
  <2> DEFINE value(r) == IF UpSample(r.e) THEN 1 ELSE 0
  <2>1. f.samples = {KeySample(r, value(r)) : r \in reads}
    BY <1>3 DEF UpFamily, SystemFamily
  <2> HIDE DEF value
  <2>2. PICK r \in reads : x = KeySample(r, value(r))
    BY <2>1
  <2>3. PICK q \in reads : y = KeySample(q, value(q))
    BY <2>1
  <2>4. QED BY <1>2, <2>2, <2>3
<1>4. CASE f = SuccessFamily
  <2>1. f.samples = {KeySample(r, r.e.tick_ts) :
                        r \in {s \in reads : ~s.e.invalid_reason /\ s.e.rows # None}}
    BY <1>4 DEF SuccessFamily, SystemFamily
  <2>2. PICK r \in reads : x = KeySample(r, r.e.tick_ts)
    BY <2>1
  <2>3. PICK q \in reads : y = KeySample(q, q.e.tick_ts)
    BY <2>1
  <2>4. QED BY <1>2, <2>2, <2>3
<1>5. QED BY <1>1, <1>3, <1>4 DEF SystemFamilies

\* query_key tells the queries of a group apart, their columns the rows that differ in one.
LEMMA UserSeries ==
    ASSUME IInv, NEW group \in Groups, NEW x \in UserFamily(group).samples,
           NEW y \in UserFamily(group).samples, x.labels = y.labels
    PROVE  x.of = y.of /\ x.value = y.value
<1>1. PICK r \in group : \E row \in [r.columns -> Values], i \in 1..r.copies :
                             x = Sample(r, row, i, group)
  BY SamplesOfUser
<1>2. PICK q \in group : \E line \in [q.columns -> Values], j \in 1..q.copies :
                             y = Sample(q, line, j, group)
  BY SamplesOfUser
<1>3. PICK row \in [r.columns -> Values], i \in 1..r.copies : x = Sample(r, row, i, group)
  BY <1>1
<1>4. PICK line \in [q.columns -> Values], j \in 1..q.copies : y = Sample(q, line, j, group)
  BY <1>2
<1>5. x.labels[QueryKey] = r.key /\ \A l \in r.columns : x.labels[l] = row[l]
  <2>1. x.labels = LabelsOf(r, row, group)
    BY <1>3, SampleFields
  <2>2. QED BY <2>1, SampleLabels
<1>6. y.labels[QueryKey] = q.key /\ \A l \in q.columns : y.labels[l] = line[l]
  <2>1. y.labels = LabelsOf(q, line, group)
    BY <1>4, SampleFields
  <2>2. QED BY <2>1, SampleLabels
<1>7. r = q
  <2>1. r \in reads /\ q \in reads
    BY GroupMembers, GroupedReads
  <2>2. QED BY <1>5, <1>6, <2>1, SameKey
<1>8. \A l \in r.columns : row[l] = line[l]
  BY <1>5, <1>6, <1>7
<1>9. row = line
  BY <1>7, <1>8
<1>10. /\ x.of = << r.key, row >> /\ x.value = r.e.rows
       /\ y.of = << q.key, line >> /\ y.value = q.e.rows
  BY <1>3, <1>4, SampleFields
<1>11. QED BY <1>7, <1>9, <1>10

LEMMA SeriesAreOwned == ASSUME IInv PROVE SeriesOwned
BY PageFamilies, SystemSeries, UserSeries DEF SeriesOwned

\* Whatever the loop does while a page is made, the page has one family for each name, unless
\* a query is named as one of the exporter's own, and two samples of it that are one series
\* are rows of one result that are equal in every column: a query's series is never another's.
THEOREM PagesAreWellFormed == NoSystemNames /\ Spec => []WellFormed
<1> SUFFICES ASSUME NoSystemNames PROVE Spec => []WellFormed
  OBVIOUS
<1>1. IInv => WellFormed
  BY FamilyNames, SeriesAreOwned DEF WellFormed
<1>2. QED BY <1>1, InvariantHolds, PTL

\* No query has rows with the same labels in its result: what its author has to see to.
SingleRows == \A s \in Specs : s.copies = 1

LEMMA SeriesAreSingle == ASSUME IInv, SingleRows PROVE SeriesUnique
<1>1. ASSUME NEW group \in Groups, NEW x \in UserFamily(group).samples,
             NEW y \in UserFamily(group).samples, x.labels = y.labels
      PROVE  x = y
  <2>1. PICK r \in group : \E row \in [r.columns -> Values], i \in 1..r.copies :
                               x = Sample(r, row, i, group)
    BY SamplesOfUser
  <2>2. PICK q \in group : \E line \in [q.columns -> Values], j \in 1..q.copies :
                               y = Sample(q, line, j, group)
    BY SamplesOfUser
  <2>3. PICK row \in [r.columns -> Values], i \in 1..r.copies : x = Sample(r, row, i, group)
    BY <2>1
  <2>4. PICK line \in [q.columns -> Values], j \in 1..q.copies : y = Sample(q, line, j, group)
    BY <2>2
  <2>5. r.copies = 1 /\ q.copies = 1
    BY GroupMembers, GroupedReads DEF Read, Copies, SingleRows
  <2>6. i = 1 /\ j = 1
    BY <2>5
  <2>7. << r.key, row >> = << q.key, line >>
    BY <1>1, <2>3, <2>4, SampleFields, UserSeries
  <2>8. r.key = q.key /\ row = line
    BY <2>7
  <2>9. r = q
    BY <2>8, GroupMembers, GroupedReads, SameKey
  <2>10. QED BY <2>3, <2>4, <2>6, <2>8, <2>9
<1>2. ASSUME NEW f \in SystemFamilies, NEW x \in f.samples, NEW y \in f.samples,
             x.labels = y.labels
      PROVE  x = y
  BY <1>2, SystemSeries
<1>3. QED BY <1>1, <1>2, PageFamilies DEF SeriesUnique

\* If no query has two rows that differ in nothing but their value, no two samples of a page
\* are the same series, whatever metric names, labels and columns the queries share.
THEOREM SeriesAreTold == SingleRows /\ Spec => []SeriesUnique
<1> SUFFICES ASSUME SingleRows PROVE Spec => []SeriesUnique
  OBVIOUS
<1>1. IInv => SeriesUnique
  BY SeriesAreSingle
<1>2. QED BY <1>1, InvariantHolds, PTL

-----------------------------------------------------------------------------
(* Pages tell of a query what its entry held at one moment.                  *)

\* A sample of a query is a row of the one read of it.
LEMMA SampleOf ==
    ASSUME IInv, NEW group \in Groups, NEW x \in UserFamily(group).samples,
           NEW r \in reads, x.of[1] = r.key
    PROVE  r \in group /\ \E row \in [r.columns -> Values], i \in 1..r.copies :
                             x = Sample(r, row, i, group)
<1>1. PICK q \in group : \E row \in [q.columns -> Values], i \in 1..q.copies :
                             x = Sample(q, row, i, group)
  BY SamplesOfUser
<1>2. x.of[1] = q.key
  BY <1>1, SampleFields
<1>3. q \in reads
  BY GroupMembers, GroupedReads
<1>4. r = q
  BY <1>2, <1>3, SameKey
<1>5. QED BY <1>1, <1>4

LEMMA LabelsAreKept == ASSUME IInv PROVE LabelsKept
<1> SUFFICES ASSUME NEW group \in Groups, StaticKeys(group) \cap DynamicKeys(group) = {},
                    NEW r \in group, NEW x \in UserFamily(group).samples, x.of[1] = r.key
             PROVE  /\ Label(x, QueryKey) = r.key
                    /\ \A l \in DOMAIN r.spec.labels : Label(x, l) = r.spec.labels[l]
                    /\ \A l \in r.columns : Label(x, l) = x.of[2][l]
  BY DEF LabelsKept
<1>1. r \in reads
  BY GroupMembers, GroupedReads
<1>2. PICK row \in [r.columns -> Values], i \in 1..r.copies : x = Sample(r, row, i, group)
  BY <1>1, SampleOf
<1>3. x.labels = LabelsOf(r, row, group) /\ x.of[2] = row
  BY <1>2, SampleFields
<1>4. DOMAIN r.spec.labels \cap DynamicKeys(group) = {}
  BY DEF StaticKeys
<1>5. /\ QueryKey \in DOMAIN x.labels /\ x.labels[QueryKey] = r.key
      /\ \A l \in r.columns : l \in DOMAIN x.labels /\ x.labels[l] = row[l]
      /\ \A l \in DOMAIN r.spec.labels \ DynamicKeys(group) :
            l \in DOMAIN x.labels /\ x.labels[l] = r.spec.labels[l]
  BY <1>3, SampleLabels
<1>6. QED BY <1>3, <1>4, <1>5 DEF Label

\* A series keeps the labels of its query and of its row: those of other queries with the same
\* metric name take nothing from them, unless one has a column that is a static label of another.
THEOREM SeriesKeepTheirLabels == Spec => []LabelsKept
<1>1. IInv => LabelsKept
  BY LabelsAreKept
<1>2. QED BY <1>1, InvariantHolds, PTL

Series(k) == UNION {Sampled(f, k) : f \in Users}
Success(k) == Sampled(SuccessFamily, k)

LEMMA SeriesOfKey ==
    ASSUME IInv, NEW r \in reads, NEW x \in Series(r.key)
    PROVE  r \in Grouped /\ x.value = r.e.rows
<1>1. PICK group \in Groups : x \in UserFamily(group).samples /\ x.of[1] = r.key
  BY DEF Series, Sampled, Users
<1>2. PICK row \in [r.columns -> Values], i \in 1..r.copies : x = Sample(r, row, i, group)
  BY <1>1, SampleOf
<1>3. r \in Grouped
  BY <1>1, SampleOf, GroupMembers
<1>4. QED BY <1>2, <1>3, SampleFields

LEMMA SuccessSamples ==
    SuccessFamily.samples = {KeySample(r, r.e.tick_ts) :
                                r \in {s \in reads : ~s.e.invalid_reason /\ s.e.rows # None}}
BY DEF SuccessFamily, SystemFamily

LEMMA SuccessOfKey ==
    ASSUME IInv, NEW r \in reads, NEW y \in Success(r.key)
    PROVE  y.value = r.e.tick_ts /\ ~r.e.invalid_reason
<1>1. y \in SuccessFamily.samples /\ y.of[1] = r.key
  BY DEF Success, Sampled
<1>2. PICK q \in {s \in reads : ~s.e.invalid_reason /\ s.e.rows # None} :
         y = KeySample(q, q.e.tick_ts)
  BY <1>1, SuccessSamples
<1>3. y.of[1] = q.key /\ y.value = q.e.tick_ts
  BY <1>2, KeySampleFields
<1>4. r = q
  BY <1>1, <1>2, <1>3, SameKey
<1>5. QED BY <1>2, <1>3, <1>4

\* Who is exported has a series, as there is a row of every valuation, and a last success.
LEMMA ExportedIsShown ==
    ASSUME IInv, NEW r \in Grouped PROVE Series(r.key) # {} /\ Success(r.key) # {}
<1>1. Series(r.key) # {}
  <2> DEFINE group == {q \in Grouped : Name(q) = Name(r)}
             row == [c \in r.columns |-> CHOOSE v \in Values : TRUE]
             x == Sample(r, row, 1, group)
  <2>1. group \in Groups /\ r \in group
    BY DEF Groups
  <2>2. row \in [r.columns -> Values] /\ 1 \in 1..r.copies
    <3>1. r.copies \in Nat \ {0}
      BY GroupedReads, SpecsAssumption DEF Read, Copies
    <3>2. QED BY <3>1, ValuesAssumption
  <2> HIDE DEF group, row
  <2>3. x \in UserFamily(group).samples
    BY <2>1, <2>2, SampleIsShown
  <2>4. Len(x.of) = 2 /\ x.of[1] = r.key
    BY SampleFields
  <2> HIDE DEF x
  <2>5. x \in Sampled(UserFamily(group), r.key)
    BY <2>3, <2>4 DEF Sampled
  <2>6. QED BY <2>1, <2>5 DEF Series, Users
<1>2. Success(r.key) # {}
  <2> DEFINE y == KeySample(r, r.e.tick_ts)
  <2>1. y \in SuccessFamily.samples
    BY GroupedReads, SuccessSamples
  <2>2. Len(y.of) = 1 /\ y.of[1] = r.key
    BY KeySampleFields
  <2> HIDE DEF y
  <2>3. QED BY <2>1, <2>2 DEF Success, Sampled
<1>3. QED BY <1>1, <1>2

LEMMA StandbyShowsNothing ==
    ASSUME IInv, ~scrape.leader PROVE Page = {LeaderFamily}
<1>1. reads = {}
  BY DEF IInv, ReadsOnce
<1>2. UpFamily.samples = {}
  BY <1>1 DEF UpFamily, SystemFamily
<1>3. SuccessFamily.samples = {}
  BY <1>1 DEF SuccessFamily, SystemFamily
<1>4. Groups = {}
  BY <1>1 DEF Groups, Grouped
<1>5. QED BY <1>2, <1>3, <1>4 DEF Page

LEMMA PagesCohere == ASSUME IInv PROVE PageCoherent
<1>1. ASSUME NEW r \in reads
      PROVE  /\ UpSample(r.e) /\ ~r.e.empty => Series(r.key) # {}
             /\ \A x \in Series(r.key) : \A y \in Success(r.key) : x.value = y.value
             /\ Series(r.key) # {} => Success(r.key) # {}
             /\ r.e.invalid_reason => Series(r.key) \cup Success(r.key) = {}
  <2>1. Shows(r.e)
    BY DEF IInv, ReadsOnce, Stored
  <2>2. ASSUME UpSample(r.e), ~r.e.empty PROVE Series(r.key) # {}
    <3>1. r \in Grouped
      BY <2>1, <2>2 DEF UpSample, Shows, Exports, Grouped
    <3>2. QED BY <3>1, ExportedIsShown
  <2>3. ASSUME NEW x \in Series(r.key), NEW y \in Success(r.key) PROVE x.value = y.value
    BY <2>1, SeriesOfKey, SuccessOfKey DEF Shows
  <2>4. ASSUME Series(r.key) # {} PROVE Success(r.key) # {}
    BY <2>4, SeriesOfKey, ExportedIsShown
  <2>5. ASSUME r.e.invalid_reason PROVE Series(r.key) \cup Success(r.key) = {}
    BY <2>5, SeriesOfKey, SuccessOfKey, GroupedReads
  <2>6. QED BY <2>2, <2>3, <2>4, <2>5
<1>2. QED BY <1>1, StandbyShowsNothing DEF PageCoherent, Series, Success

\* The samples of a query are of one moment, however the loop and the scraper interleave, and
\* a page that says it is a standby's shows no query.
THEOREM PagesTellOneMoment == Spec => []PageCoherent
<1>1. IInv => PageCoherent
  BY PagesCohere
<1>2. QED BY <1>1, InvariantHolds, PTL
=============================================================================

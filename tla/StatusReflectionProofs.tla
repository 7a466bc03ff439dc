----------------------- MODULE StatusReflectionProofs -----------------------
(***************************************************************************)
(* Proofs about StatusReflection: the types, however late kopf sees its    *)
(* own patches, and that the parts of a status fit together when it sees   *)
(* each before the next reflection, for any errors, limits and bounds.     *)
(***************************************************************************)
EXTENDS StatusReflection, MetricsCollectorProofs

Statuses == [ phase : Phases, consecutiveFailures : 0..MaxFailures,
              lastSuccess : 0..MaxTicks, lastError : ErrorTypes \cup {NoError},
              failedNodes : BOOLEAN, invalidReason : BOOLEAN,
              conditions : [ConditionTypes -> {"Unset", "True", "False"}] ]

\* What is known of the entry: up and expired exclude each other, a query that is down
\* with an error, or expired, has failed at least once since it was last up.
Linked(f) ==
    /\ f.rows = f.tick_ts /\ f.tick_ts <= MaxTicks
    /\ f.consecutive_failures <= MaxFailures
    /\ f.up => f.consecutive_failures = 0 /\ ~f.expired
    /\ ~f.up /\ f.last_error # NoError => f.consecutive_failures > 0
    /\ f.expired => f.consecutive_failures > 0

IInv == TypeOK /\ Linked(e)

\* A promptly seen status is the one that was patched last.
SInv == IInv /\ seen = stored /\ Coherent

-----------------------------------------------------------------------------
(* The entry.                                                                *)

LEMMA SameRunsKeep ==
    ASSUME NEW a \in Entry, NEW b, SameRuns(a, b), Linked(a) PROVE Linked(b)
BY DEF SameRuns, Linked

LEMMA NewEntryLinked ==
    ASSUME NEW b \in BOOLEAN PROVE Linked(NewEntry(b))
BY NewEntryFields, BoundsAssumption DEF Linked

LEMMA UpdatedLinked ==
    ASSUME NEW a \in Entry, NEW n \in Nat, n <= MaxTicks, NEW b \in BOOLEAN, NEW c \in BOOLEAN,
           Linked(a)
    PROVE  Linked(Updated(a, n, b, c))
<1> DEFINE f == Updated(a, n, b, c)
<1>1. \/ f = a
      \/ /\ f.rows = n /\ f.tick_ts = n /\ f.up /\ ~f.expired
         /\ f.consecutive_failures = 0
  BY UpdatedFields
<1> HIDE DEF f
<1>2. CASE f = a
  BY <1>2 DEF f
<1>3. CASE f # a
  <2>1. Linked(f)
    BY <1>1, <1>3, BoundsAssumption DEF Linked
  <2>2. QED BY <2>1 DEF f
<1>4. QED BY <1>2, <1>3

LEMMA FailureLinked ==
    ASSUME NEW a \in Entry, NEW type \in ErrorTypes, NEW b \in BOOLEAN,
           Linked(a), a.consecutive_failures < MaxFailures
    PROVE  Linked(MarkFailure(a, type, b)) /\ Linked(Fail(a, type, b, Limit))
<1>1. Limit \in Nat /\ a.consecutive_failures \in Nat
  BY BoundsAssumption DEF Entry
<1>2. ASSUME NEW f, f.rows = a.rows, f.tick_ts = a.tick_ts, ~f.up,
             f.consecutive_failures = a.consecutive_failures + 1
      PROVE  Linked(f)
  <2>1. /\ f.consecutive_failures > 0
        /\ f.consecutive_failures <= MaxFailures
    BY <1>1, <1>2, BoundsAssumption
  <2>2. QED BY <2>1, <1>2 DEF Linked
<1>3. \A f \in {MarkFailure(a, type, b), Fail(a, type, b, Limit)} :
         f.rows = a.rows /\ f.tick_ts = a.tick_ts /\ ~f.up
         /\ f.consecutive_failures = a.consecutive_failures + 1
  BY <1>1, MarkFailureFields, FailFields
<1>4. QED BY <1>2, <1>3

-----------------------------------------------------------------------------
(* The derived status.                                                       *)

\* What the fields hold that a derived status names.
Fits(d) ==
    /\ DOMAIN d \subseteq { "phase", "consecutiveFailures", "lastSuccess", "lastError",
                            "failedNodes", "invalidReason", "conditions" }
    /\ "phase" \in DOMAIN d /\ d["phase"] \in Phases
    /\ "consecutiveFailures" \in DOMAIN d => d["consecutiveFailures"] \in 0..MaxFailures
    /\ "lastSuccess" \in DOMAIN d => d["lastSuccess"] \in 0..MaxTicks
    /\ "lastError" \in DOMAIN d => d["lastError"] \in ErrorTypes \cup {NoError}
    /\ "failedNodes" \in DOMAIN d => d["failedNodes"] \in BOOLEAN
    /\ "invalidReason" \in DOMAIN d => d["invalidReason"] \in BOOLEAN
    /\ "conditions" \in DOMAIN d =>
          d["conditions"] \in [ConditionTypes -> {"Unset", "True", "False"}]

\* A field is what the derived status says or, where it says nothing, what it was.
LEMMA PatchedType ==
    ASSUME stored \in Statuses, NEW d, Fits(d) PROVE Patched(d) \in Statuses
BY DEF Fits, Patched, Statuses

LEMMA PatchedOver ==
    ASSUME stored \in Statuses, seen = stored, NEW d, NEW f \in DOMAIN d, f \in DOMAIN stored
    PROVE  Patched(d)[f] = d[f]
BY DEF Patched

LEMMA PhaseType == ASSUME e \in Entry PROVE Phase \in Phases
BY DEF Phase, Phases, Entry

LEMMA ConditionsType ==
    ASSUME NEW current \in Statuses,
           NEW c, \A t \in DOMAIN c : c[t] \in {"Unset", "True", "False"}
    PROVE  SetConditions(current, c) \in [ConditionTypes -> {"Unset", "True", "False"}]
<1>1. current.conditions \in [ConditionTypes -> {"Unset", "True", "False"}]
  BY DEF Statuses
<1>2. QED BY <1>1 DEF SetConditions

LEMMA DeriveFits ==
    ASSUME e \in Entry, Linked(e), young \in BOOLEAN, NEW current \in Statuses
    PROVE  Fits(DeriveStatus(current))
<1>1. CASE ~registered
  BY <1>1 DEF DeriveStatus, Fits, Phases
<1>2. CASE registered /\ e.invalid_reason
  <2> DEFINE conds == SetConditions(current, [Valid |-> "False"])
  <2>1. conds \in [ConditionTypes -> {"Unset", "True", "False"}]
    BY ConditionsType
  <2> HIDE DEF conds
  <2>2. DeriveStatus(current) = [phase |-> "Invalid", invalidReason |-> TRUE, conditions |-> conds]
    BY <1>2 DEF DeriveStatus, InvalidStatus, conds
  <2>3. QED BY <2>1, <2>2 DEF Fits, Phases
<1>3. CASE registered /\ ~e.invalid_reason
  <2> DEFINE conds == SetConditions(current, Conditions)
             out == [ phase |-> Phase, consecutiveFailures |-> e.consecutive_failures,
                      lastSuccess |-> e.rows, lastError |-> FreshError,
                      failedNodes |-> e.failed_nodes, conditions |-> conds ]
  <2>1. conds \in [ConditionTypes -> {"Unset", "True", "False"}]
    <3>1. \A t \in DOMAIN Conditions : Conditions[t] \in {"Unset", "True", "False"}
      BY DEF Conditions, Truth
    <3>2. QED BY <3>1, ConditionsType
  <2>2. Phase \in Phases
    BY PhaseType
  <2>3. /\ e.consecutive_failures \in 0..MaxFailures /\ e.rows \in 0..MaxTicks
        /\ FreshError \in ErrorTypes \cup {NoError} /\ e.failed_nodes \in BOOLEAN
    BY BoundsAssumption DEF Linked, Entry, FreshError
  <2>4. DeriveStatus(current)
          = [f \in DOMAIN out \ (IF e.rows = None THEN {"lastSuccess"} ELSE {}) |-> out[f]]
    BY <1>3 DEF DeriveStatus, ValidStatus
  <2> HIDE DEF conds
  <2>5. QED BY <2>1, <2>2, <2>3, <2>4 DEF Fits
<1>4. QED BY <1>1, <1>2, <1>3

\* A status that is patched field by field is coherent once every field is.
LEMMA DeriveCoherent ==
    ASSUME e \in Entry, Linked(e), stored \in Statuses, seen = stored
    PROVE  CoherentStatus(Patched(DeriveStatus(seen)))
<1> DEFINE d == DeriveStatus(seen)
           p == Patched(d)
<1>1. ASSUME NEW f \in DOMAIN d, f \in DOMAIN stored PROVE p[f] = d[f]
  BY <1>1, PatchedOver
<1>2. DOMAIN stored = { "phase", "consecutiveFailures", "lastSuccess", "lastError",
                        "failedNodes", "invalidReason", "conditions" }
  BY DEF Statuses
<1>3. CASE ~registered \/ e.invalid_reason
  <2>1. "phase" \in DOMAIN d /\ d["phase"] \in {"Pending", "Invalid"}
    BY <1>3 DEF DeriveStatus, InvalidStatus
  <2> HIDE DEF d
  <2>2. p["phase"] \in {"Pending", "Invalid"}
    BY <1>1, <1>2, <2>1
  <2> HIDE DEF p
  <2>3. CoherentStatus(p)
    BY <2>2 DEF CoherentStatus
  <2>4. QED BY <2>3 DEF p, d
<1>4. CASE registered /\ ~e.invalid_reason
  <2> DEFINE conds == SetConditions(seen, Conditions)
             out == [ phase |-> Phase, consecutiveFailures |-> e.consecutive_failures,
                      lastSuccess |-> e.rows, lastError |-> FreshError,
                      failedNodes |-> e.failed_nodes, conditions |-> conds ]
  <2>1. d = [f \in DOMAIN out \ (IF e.rows = None THEN {"lastSuccess"} ELSE {}) |-> out[f]]
    BY <1>4 DEF DeriveStatus, ValidStatus
  <2>2. /\ {"phase", "consecutiveFailures", "failedNodes", "conditions"} \subseteq DOMAIN d
        /\ d["phase"] = Phase /\ d["consecutiveFailures"] = e.consecutive_failures
        /\ d["failedNodes"] = e.failed_nodes /\ d["conditions"] = conds
    BY <2>1
  <2>3. /\ conds["QuerySucceeded"] = Truth(e.up)
        /\ conds["AllNodesResponding"] = Truth(~e.failed_nodes)
    BY DEF SetConditions, Conditions, ConditionTypes
  <2> HIDE DEF d, conds
  <2>4. /\ p["phase"] = Phase /\ p["consecutiveFailures"] = e.consecutive_failures
        /\ p["failedNodes"] = e.failed_nodes /\ p["conditions"] = conds
    BY <1>1, <1>2, <2>2
  <2> HIDE DEF p
  <2>5. /\ Phase = "Healthy" => e.up /\ ~e.failed_nodes
        /\ Phase = "Degraded" => e.up /\ e.failed_nodes
        /\ Phase \in {"Failing", "Expired"} => ~e.up /\ (e.last_error # NoError \/ e.expired)
    BY DEF Phase, Entry, Linked
  <2>6. /\ e.up => e.consecutive_failures = 0
        /\ ~e.up /\ (e.last_error # NoError \/ e.expired) => e.consecutive_failures > 0
    BY DEF Linked
  <2>7. CoherentStatus(p)
    BY <2>3, <2>4, <2>5, <2>6 DEF CoherentStatus, Truth
  <2>8. QED BY <2>7 DEF p, d
<1>5. QED BY <1>3, <1>4

-----------------------------------------------------------------------------
(* The invariants.                                                           *)

LEMMA InitIInv == Init => IInv
<1> SUFFICES ASSUME Init PROVE IInv
  OBVIOUS
<1>1. NewEntry(FALSE) \in Entry /\ Linked(NewEntry(FALSE))
  BY NewEntryType, NewEntryLinked
<1>2. NewEntry(FALSE).tick_ts <= MaxTicks
  BY <1>1 DEF Linked
<1>3. NoStatus \in Statuses
  BY BoundsAssumption DEF NoStatus, Statuses, Phases, None
<1>4. QED
  BY <1>1, <1>2, <1>3 DEF Init, IInv, TypeOK, Statuses

LEMMA StepIInv == IInv /\ [Next \/ Seen]_vars => IInv'
<1> SUFFICES ASSUME IInv, [Next \/ Seen]_vars PROVE IInv'
  OBVIOUS
<1>1. /\ e \in Entry /\ Linked(e) /\ registered \in BOOLEAN /\ young \in BOOLEAN
      /\ emitted \in BOOLEAN /\ stored \in Statuses /\ seen \in Statuses
  BY DEF IInv, TypeOK, Statuses
<1>2. ASSUME e' \in Entry, Linked(e'), registered' \in BOOLEAN, young' \in BOOLEAN,
             emitted' \in BOOLEAN, stored' \in Statuses, seen' \in Statuses
      PROVE  IInv'
  <2>1. e'.tick_ts <= MaxTicks
    BY <1>2 DEF Linked
  <2>2. QED BY <1>2, <2>1 DEF IInv, TypeOK, Statuses
<1> USE <1>1
<1>3. CASE Reflect
  <2>1. stored' \in Statuses
    <3>1. Fits(DeriveStatus(seen))
      BY DeriveFits
    <3>2. QED BY <3>1, <1>3, PatchedType DEF Reflect
  <2>2. emitted' \in BOOLEAN
    BY <1>3 DEF Reflect
  <2>3. QED BY <1>2, <1>3, <2>1, <2>2 DEF Reflect
<1>4. ASSUME NEW invalid \in BOOLEAN, Register(invalid) PROVE IInv'
  <2>1. e' = Registered(e, invalid) \/ e' = NewEntry(invalid)
    BY <1>4 DEF Register
  <2>2. e' \in Entry /\ Linked(e')
    BY <2>1, RegisteredType, RegisteredFields, SameRunsKeep, NewEntryType, NewEntryLinked
  <2>3. QED BY <1>4, <1>2, <2>2 DEF Register
<1>5. ASSUME NEW kind \in Stalls, Stall(kind) PROVE IInv'
  <2>1. e' = MarkWaiting(e) \/ e' = RecordSkip(e)
    BY <1>5 DEF Stall, Entered
  <2>2. e' \in Entry /\ Linked(e')
    BY <2>1, SlotTypes, SlotFields, SameRunsKeep
  <2>3. QED BY <1>5, <1>2, <2>2 DEF Stall, Entered
<1>6. ASSUME NEW failed \in BOOLEAN, Succeed(failed) PROVE IInv'
  <2>1. PICK tick \in 1..MaxTicks : Entered(Updated(e, tick, FALSE, failed))
    BY <1>6 DEF Succeed
  <2>2. tick \in Nat /\ tick <= MaxTicks
    BY BoundsAssumption DEF Entry
  <2>3. Updated(e, tick, FALSE, failed) \in Entry /\ Linked(Updated(e, tick, FALSE, failed))
    BY <2>2, UpdatedType, UpdatedLinked
  <2>4. QED BY <1>6, <1>2, <2>1, <2>3 DEF Succeed, Entered
<1>7. ASSUME NEW type \in ErrorTypes, NEW failed \in BOOLEAN, NEW counted \in BOOLEAN,
             FailWith(type, failed, counted)
      PROVE  IInv'
  <2>1. /\ \/ e' = Fail(e, type, failed, Limit)
           \/ e' = MarkFailure(e, "ConnectionNotReady", e.failed_nodes)
        /\ e.consecutive_failures < MaxFailures
    BY <1>7 DEF FailWith, Entered
  <2>2. /\ "ConnectionNotReady" \in ErrorTypes /\ e.failed_nodes \in BOOLEAN /\ Limit \in Nat
    BY BoundsAssumption DEF ErrorTypes, AvailabilityErrors, Entry
  <2>3. e' \in Entry /\ Linked(e')
    BY <2>1, <2>2, FailType, MarkFailureType, FailureLinked
  <2>4. QED BY <1>7, <1>2, <2>3 DEF FailWith, Entered
<1>8. CASE Age
  BY <1>2, <1>8 DEF Age
<1>9. CASE Restart
  <2>1. NewEntry(FALSE) \in Entry /\ Linked(NewEntry(FALSE))
    BY NewEntryType, NewEntryLinked
  <2>2. QED BY <1>2, <1>9, <2>1 DEF Restart
<1>10. CASE Seen
  BY <1>2, <1>10 DEF Seen
<1>11. CASE UNCHANGED vars
  BY <1>2, <1>11 DEF vars
<1>12. Errors \subseteq ErrorTypes /\ "ConnectionNotReady" \in ErrorTypes
  BY ErrorsAssumption DEF ErrorTypes, AvailabilityErrors
<1> QED
  BY <1>3, <1>4, <1>5, <1>6, <1>7, <1>8, <1>9, <1>10, <1>11, <1>12 DEF Next, Run

\* With Prompt no patch is ever outstanding, so each is laid over the former status.
LEMMA StepSInv == Prompt /\ SInv /\ [Next]_vars => SInv'
<1> SUFFICES ASSUME Prompt, SInv, [Next]_vars PROVE SInv'
  OBVIOUS
<1>1. IInv'
  BY StepIInv DEF SInv
<1>2. CASE Reflect
  <2>1. CoherentStatus(Patched(DeriveStatus(seen)))
    BY DeriveCoherent DEF SInv, IInv, TypeOK, Statuses
  <2>2. stored' = Patched(DeriveStatus(seen)) /\ seen' = stored'
    BY <1>2 DEF Reflect
  <2>3. QED BY <1>1, <2>1, <2>2 DEF SInv, Coherent
<1>3. ASSUME ~Reflect PROVE SInv'
  <2>1. stored' = stored /\ seen' = stored
    BY <1>3 DEF SInv, Next, Run, Register, Stall, Succeed, FailWith, Entered, Age, Restart, vars
  <2>2. QED BY <1>1, <2>1 DEF SInv, Coherent
<1>4. QED BY <1>2, <1>3

-----------------------------------------------------------------------------
(* The theorems.                                                             *)

\* The entry and the status hold what derive_status and the collector's methods may put
\* there, whether kopf knows its last patch at the next reflection or not.
THEOREM TypesHold == Spec \/ LaggingSpec => []TypeOK
<1>1. Init => IInv
  BY InitIInv
<1>2. IInv /\ [Next]_vars => IInv'
  BY StepIInv
<1>3. IInv /\ [Next \/ Seen]_vars => IInv'
  BY StepIInv
<1>4. IInv => TypeOK
  BY DEF IInv
<1>5. QED
  BY <1>1, <1>2, <1>3, <1>4, PTL DEF Spec, LaggingSpec

\* status_reflector: the parts of a status fit together although each is patched on its
\* own, provided that kopf has seen the last patch when it derives the next status.
THEOREM StatusIsCoherent == Prompt /\ Spec => []Coherent
<1> SUFFICES ASSUME Prompt PROVE Spec => []Coherent
  OBVIOUS
<1>1. Init => SInv
  <2>1. Init => seen = stored /\ Coherent
    BY DEF Init, Coherent, CoherentStatus, NoStatus
  <2>2. QED BY <2>1, InitIInv DEF SInv
<1>2. SInv /\ [Next]_vars => SInv'
  BY StepSInv
<1>3. SInv => Coherent
  BY DEF SInv
<1>4. QED
  BY <1>1, <1>2, <1>3, PTL DEF Spec
=============================================================================

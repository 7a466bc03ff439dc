-------------------------- MODULE StatusReflection --------------------------
(***************************************************************************)
(* The status of one query resource (handlers/query_status.py and the      *)
(* status_reflector timer of handlers/query.py): derived from the          *)
(* collector's entry AND from the former status, compared with what kopf   *)
(* has seen of it, and patched field by field, while runs, edits and       *)
(* restarts of the operator change the entry.                              *)
(*                                                                         *)
(* Abstractions: messages, reasons and times are left out, lastSuccess is  *)
(* the tick of the rows, and an absent field has the value it has when     *)
(* empty.  The entry and its operations are MetricsCollector's.            *)
(*                                                                         *)
(* A definition named D_Something is a wrong variant of D, put in its      *)
(* place to see a property fail.                                           *)
(***************************************************************************)
EXTENDS MetricsCollector

CONSTANTS
    Errors,      \* the error types that runs end with
    Stalls,      \* why a tick starts no run: "wait", "skip"
    Limit,       \* expire_after_failures
    Prompt,      \* kopf sees its own patch before the next reflection: then it does
                 \* not matter when, and patching and seeing are one step
    MaxTicks,    \* bound: ticks that are told apart
    MaxFailures  \* bound: failures in a row

ASSUME ErrorsAssumption == Errors \subseteq ErrorTypes
ASSUME StallsAssumption == Stalls \subseteq {"wait", "skip"}
ASSUME ScopeAssumption == Prompt \in BOOLEAN
ASSUME BoundsAssumption == {Limit, MaxTicks, MaxFailures} \subseteq Nat

VARIABLES
    registered,  \* the collector has an entry
    e,           \* the entry
    young,       \* its last_error is younger than last_error_ttl
    stored,      \* .status at the API server
    seen,        \* .status as kopf knows it
    emitted      \* the last reflection emitted an Event

vars == << registered, e, young, stored, seen, emitted >>

Phases == {"None", "Pending", "Invalid", "Healthy", "Degraded", "Failing", "Expired"}
ConditionTypes == {"Valid", "QuerySucceeded", "KeepingUp", "Ready", "AllNodesResponding"}

NoStatus ==
    [ phase |-> "None", consecutiveFailures |-> 0, lastSuccess |-> None,
      lastError |-> NoError, failedNodes |-> FALSE, invalidReason |-> FALSE,
      conditions |-> [t \in ConditionTypes |-> "Unset"] ]

Init ==
    /\ registered = FALSE /\ e = NewEntry(FALSE) /\ young = FALSE
    /\ stored = NoStatus /\ seen = NoStatus /\ emitted = FALSE

(* ---- derive_status --------------------------------------------------- *)

Phase ==
    CASE e.expired -> "Expired"
      [] ~e.expired /\ e.up -> IF e.failed_nodes THEN "Degraded" ELSE "Healthy"
      [] ~e.expired /\ ~e.up ->
            IF \/ e.waiting_reason \/ e.last_error = NoError
               \/ e.last_error \in AvailabilityErrors /\ e.rows = None
            THEN "Pending" ELSE "Failing"

FreshError == IF young THEN e.last_error ELSE NoError

\* The conditions of the former status, those of c replaced.
SetConditions(current, c) ==
    [t \in ConditionTypes |-> IF t \in DOMAIN c THEN c[t] ELSE current.conditions[t]]

Truth(b) == IF b THEN "True" ELSE "False"

Conditions ==
    [ QuerySucceeded |-> Truth(e.up), KeepingUp |-> Truth(~e.behind),
      Ready |-> Truth(~e.waiting_reason), AllNodesResponding |-> Truth(~e.failed_nodes) ]

InvalidStatus(current) ==
    [ phase |-> "Invalid", invalidReason |-> TRUE,
      conditions |-> SetConditions(current, [Valid |-> "False"]) ]

ValidStatus_OmitsNoError(current) ==   \* names lastError only if there is one
    LET out == [ phase |-> Phase, consecutiveFailures |-> e.consecutive_failures,
                 lastSuccess |-> e.rows, lastError |-> FreshError,
                 failedNodes |-> e.failed_nodes,
                 conditions |-> SetConditions(current, Conditions) ]
    IN  [f \in DOMAIN out \ (IF FreshError = NoError THEN {"lastError"} ELSE {}) |-> out[f]]

\* A field that the status does not name is left as it was.
ValidStatus(current) ==
    LET out == [ phase |-> Phase, consecutiveFailures |-> e.consecutive_failures,
                 lastSuccess |-> e.rows, lastError |-> FreshError,
                 failedNodes |-> e.failed_nodes,
                 conditions |-> SetConditions(current, Conditions) ]
    IN  [f \in DOMAIN out \ (IF e.rows = None THEN {"lastSuccess"} ELSE {}) |-> out[f]]

DeriveStatus(current) ==
    IF ~registered THEN [phase |-> "Pending"]
    ELSE IF e.invalid_reason THEN InvalidStatus(current)
    ELSE ValidStatus(current)

(* ---- status_reflector ------------------------------------------------- *)

EventSignature(s) ==
    << s.phase, "failedNodes" \in DOMAIN s /\ s.failedNodes,
       IF "lastError" \in DOMAIN s THEN s.lastError ELSE NoError >>

\* Only fields that differ from the status seen are patched.
Patched_InPlace(desired) ==            \* the conditions seen were changed in place
    [f \in DOMAIN stored |->
        IF f \in DOMAIN desired \ {"conditions"} /\ desired[f] # seen[f]
        THEN desired[f] ELSE stored[f]]

Patched_PhaseFirst(desired) ==         \* the rest follows once the phase is the same
    [f \in DOMAIN stored |->
        IF f \in DOMAIN desired /\ desired[f] # seen[f]
           /\ (f = "phase" \/ desired.phase = seen.phase)
        THEN desired[f] ELSE stored[f]]

Patched_Counts(desired) ==             \* consecutiveFailures accumulates
    [f \in DOMAIN stored |->
        IF f = "consecutiveFailures" /\ f \in DOMAIN desired
        THEN stored[f] + desired[f]
        ELSE IF f \in DOMAIN desired /\ desired[f] # seen[f] THEN desired[f] ELSE stored[f]]

Patched(desired) ==
    [f \in DOMAIN stored |->
        IF f \in DOMAIN desired /\ desired[f] # seen[f] THEN desired[f] ELSE stored[f]]

Reflect ==
    LET desired == DeriveStatus(seen)
    IN  /\ emitted' = (EventSignature(seen) # EventSignature(desired))
        /\ stored' = Patched(desired)
        /\ seen' = IF Prompt THEN stored' ELSE seen
        /\ UNCHANGED << registered, e, young >>

\* The watch-event of a patch arrives.
Seen == seen # stored /\ seen' = stored /\ UNCHANGED << registered, e, young, stored, emitted >>

(* ---- what changes the entry -------------------------------------------- *)

Entered(f) == registered /\ e' = f /\ UNCHANGED << registered, stored, seen, emitted >>

\* The create, resume and update handler.
Register(invalid) ==
    /\ registered' = TRUE
    /\ e' = IF registered THEN Registered(e, invalid) ELSE NewEntry(invalid)
    /\ UNCHANGED << young, stored, seen, emitted >>

\* A run ends: also one that was started before an edit made the query invalid.
Succeed(failed) ==
    /\ \E tick \in 1..MaxTicks : Entered(Updated(e, tick, FALSE, failed))
    /\ UNCHANGED young

\* counted: the failure is followed by the check of the limit.
FailWith(type, failed, counted) ==
    /\ e.consecutive_failures < MaxFailures
    /\ Entered(IF counted THEN Fail(e, type, failed, Limit)
               ELSE MarkFailure(e, "ConnectionNotReady", e.failed_nodes))
    /\ young' = TRUE

\* A tick finds no ready connection, or maxConcurrent runs.
Stall(kind) ==
    /\ ~e.invalid_reason
    /\ Entered(IF kind = "wait" THEN MarkWaiting(e) ELSE RecordSkip(e))
    /\ UNCHANGED young

Age == young /\ young' = FALSE /\ UNCHANGED << registered, e, stored, seen, emitted >>

\* The collector is lost, .status is not.
Restart ==
    /\ registered' = FALSE /\ e' = NewEntry(FALSE) /\ young' = FALSE
    /\ seen' = stored /\ emitted' = FALSE
    /\ UNCHANGED stored

Run ==
    \/ \E failed \in BOOLEAN : Succeed(failed)
    \/ \E type \in Errors, failed \in BOOLEAN : FailWith(type, failed, TRUE)
    \/ FailWith("ConnectionNotReady", FALSE, FALSE)

Next ==
    \/ Reflect
    \/ \E invalid \in BOOLEAN : Register(invalid)
    \/ \E kind \in Stalls : Stall(kind)
    \/ Run \/ Age \/ Restart

Fairness == WF_vars(Reflect) /\ WF_vars(Age)

Spec == Init /\ [][Next]_vars /\ Fairness

\* Without Prompt, the watch-event of a patch comes later.
LaggingSpec == Init /\ [][Next \/ Seen]_vars

(* ---- properties -------------------------------------------------------- *)

TypeOK ==
    /\ registered \in BOOLEAN /\ young \in BOOLEAN /\ emitted \in BOOLEAN
    /\ e \in Entry /\ e.tick_ts <= MaxTicks
    /\ \A s \in {stored, seen} :
          s \in [ phase : Phases, consecutiveFailures : 0..MaxFailures,
                  lastSuccess : 0..MaxTicks, lastError : ErrorTypes \cup {NoError},
                  failedNodes : BOOLEAN, invalidReason : BOOLEAN,
                  conditions : [ConditionTypes -> {"Unset", "True", "False"}] ]

\* The parts of a status fit together, although each is patched on its own: a phase is
\* never shown with conditions and failed nodes of another state of the entry.
CoherentStatus(s) ==
    /\ s.phase = "Healthy" =>
          /\ ~s.failedNodes /\ s.consecutiveFailures = 0
          /\ s.conditions.QuerySucceeded = "True" /\ s.conditions.AllNodesResponding = "True"
    /\ s.phase = "Degraded" =>
          /\ s.failedNodes
          /\ s.conditions.QuerySucceeded = "True" /\ s.conditions.AllNodesResponding = "False"
    /\ s.phase \in {"Failing", "Expired"} =>
          s.conditions.QuerySucceeded = "False" /\ s.consecutiveFailures > 0
Coherent == CoherentStatus(stored)

EntryStays == <>[][FALSE]_<< registered, e >>

\* Once the entry stays as it is, so does the status, and it tells of the entry: up is
\* Healthy or Degraded, expired is Expired, a failing query is not called Pending.
Told ==
    /\ ~registered => stored.phase = "Pending"
    /\ registered /\ e.invalid_reason =>
          stored.phase = "Invalid" /\ stored.conditions.Valid = "False"
    /\ registered /\ ~e.invalid_reason =>
          /\ stored.phase \in {"Healthy", "Degraded"} <=> e.up
          /\ stored.phase = "Expired" <=> e.expired
          /\ e.rows # None /\ ~e.up /\ ~e.expired /\ ~e.waiting_reason => stored.phase = "Failing"
          /\ stored.consecutiveFailures = e.consecutive_failures
          /\ (stored.conditions.QuerySucceeded = "True") <=> e.up
          /\ (stored.conditions.KeepingUp = "True") <=> ~e.behind
          /\ (stored.conditions.Ready = "True") <=> ~e.waiting_reason
StatusFollows == EntryStays => <>[]Told

\* derive_status: the last error of a query that recovered is cleared in the end.
ErrorAgesOut == <>[](registered /\ ~e.invalid_reason /\ e.up) => <>[](stored.lastError = NoError)

\* status_reflector: Events tell of material changes, "not every tick".  Those of a
\* valid query stop when nothing changes any more.
ValidIsQuiet == EntryStays /\ <>[](registered /\ ~e.invalid_reason) => <>[](~emitted)

(* ---- false of the code -------------------------------------------------- *)

\* The same for every query: an invalid one with a former error or failed nodes emits
\* an Event at each reflection, since its derived status names neither.
AlwaysQuiet == EntryStays => <>[](~emitted)

\* query_status.py:198: the reflector "clears a stale one".  The invalidReason of a
\* query and Valid = False outlive the edit that fixes it.
FixedIsValid ==
    <>[](registered /\ ~e.invalid_reason) =>
       <>[](~stored.invalidReason /\ stored.conditions.Valid # "False")
=============================================================================

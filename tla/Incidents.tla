------------------------------ MODULE Incidents -------------------------------
(***************************************************************************)
(* Incidents of one Host: what the Coordinator's evaluation worker         *)
(* (queueIncidentEvaluation, evaluateIncidents) publishes in the farm      *)
(* database, from the desired state of FarmConfig and the Host's last      *)
(* observation, while both change.  The worker reads the database, then    *)
(* the observation, then writes: three steps in which operators, sessions  *)
(* and a restart intervene.                                                *)
(*                                                                         *)
(* The worker brackets its reads of the database by two fingerprints of    *)
(* it, which contain revisions and generations that never come back: the   *)
(* facts of an evaluation that goes on are those of one instant, and are   *)
(* read here in one step, the second fingerprint being compared in the     *)
(* next.  Timestamps, severities and the row counters are left out.        *)
(***************************************************************************)
EXTENDS FarmConfig

CONSTANTS
    Site,            \* the Host
    Observed,        \* observations an Agent may report: [gpus, busy, execs]
    MaxObservation   \* bound on observations and restarts

VARIABLES
    obs,     \* the Host's observation in the ObservedStore
    eval,    \* the worker
    cached   \* the evaluation published last, or None

incidentVars == <<obs, eval, cached>>
vars == <<farmVars, incidentVars>>

(***************************************************************************)
(* Observations.  rev counts the changes (the store's Revision and epoch). *)
(* A bootstrap is complete in mode "fresh"; execs maps the ExecutionIDs    *)
(* observed, of plans the Controller knows, to what the Agent says of      *)
(* them; busy is what unmanaged processes use.                             *)
(***************************************************************************)
Mode == {"absent", "offline", "stale", "fresh"}
NothingObserved == [gpus |-> {}, busy |-> {}, execs |-> <<>>]
Observation(mode, rev, o) ==
    [mode |-> mode, rev |-> rev, gpus |-> o.gpus, busy |-> o.busy, execs |-> o.execs]

(***************************************************************************)
(* Evaluation.                                                             *)
(***************************************************************************)
Incident(type, w, execution, device, reason) ==
    [type |-> type, workload |-> w, execution |-> execution, device |-> device,
     reason |-> reason]
OfHost(type, reason) == Incident(type, None, None, None, reason)
OfWorkload(type, w, reason) == Incident(type, w, None, None, reason)
OfDevices(type, w, devices, reason) == {Incident(type, w, None, i, reason) : i \in devices}

\* The Host's rows: what IncidentAuthority fingerprints.
Authority(d) ==
    LET here == {w \in Workloads(d) : Content(d, w).host = Site}
        plans == {k \in DOMAIN d.snapshots : d.snapshots[k].host = Site}
    IN  [hold      |-> d.holds[Site],
         workloads |-> [w \in here |-> d.workloads[w]],
         snapshots |-> [k \in plans |-> d.snapshots[k]],
         bindings  |-> [w \in here |-> d.bindings[w]]]

RunningDesired(a) == {w \in DOMAIN a.workloads : a.workloads[w].content.run}
Execution(a, w) == <<w, a.workloads[w].gen>>

\* incidentTypeForCode
TypeForCode(code) ==
    IF code \in {"INCOMPATIBLE_HARDWARE", "UNMANAGED_PROCESS_CONFLICT"} THEN code
    ELSE "CONFIGURATION_BLOCKED"

MissingDevices(o, plan) == plan.devices \ o.gpus

UnmanagedConflicts(o, w, plan) ==
    OfDevices("UNMANAGED_PROCESS_CONFLICT", w, plan.devices \cap o.busy, "UNMANAGED") \cup
    {OfWorkload("UNMANAGED_PROCESS_CONFLICT", w, "UNMANAGED") :
        cpu \in {c \in {"CPU"} \cap o.busy : plan.cpu}}

\* Executions of other workloads, by their own plans, which still hold
\* resources of this one.
OwnedResourceConflicts(a, o, w, plan) ==
    LET others == {a.snapshots[k] : k \in {k \in DOMAIN o.execs \cap DOMAIN a.snapshots :
                       k[1] # w /\ o.execs[k] # "STOPPED"}}
    IN  OfDevices("RESOURCE_CONFLICT", w,
                  plan.devices \cap UNION {other.devices : other \in others}, "CONFLICT") \cup
        {OfWorkload("RESOURCE_CONFLICT", w, "CONFLICT") :
            other \in {other \in others : plan.cpu /\ other.cpu}}

\* What an execution that is not mining as it should means; one that starts,
\* stops or mines is in order.
ExecutionIncidents ==
    [CRASHED     |-> {"RUNTIME_ERROR"},
     STOPPED     |-> {"DESIRED_RUNNING_NOT_EXECUTING"},
     CHANGING    |-> {},
     UNHEALTHY   |-> {"RUNTIME_ERROR"},
     UNKNOWN     |-> {"TELEMETRY_UNKNOWN"},
     UNAVAILABLE |-> {"TELEMETRY_UNAVAILABLE"},
     DEGRADED    |-> {"USEFUL_WORK_DEGRADED"},
     MINING      |-> {}]

Executing(a, o, w) ==
    LET k == Execution(a, w)
    IN  IF k \in DOMAIN o.execs
        THEN {Incident(type, w, k, None, o.execs[k]) : type \in ExecutionIncidents[o.execs[k]]}
        ELSE {OfWorkload("DESIRED_RUNNING_NOT_EXECUTING", w, "ABSENT")}

\* One workload has the conditions of the first cause that applies.
FirstCause(causes) ==
    LET found == {i \in DOMAIN causes : causes[i] # {}}
    IN  IF found = {} THEN {} ELSE causes[Min(found)]

WorkloadConditions(a, o, w) ==
    IF a.bindings[w].gen = a.workloads[w].gen
    THEN {OfWorkload(TypeForCode(a.bindings[w].code), w, a.bindings[w].code)}
    ELSE IF Execution(a, w) \notin DOMAIN a.snapshots
    THEN {OfWorkload("CONFIGURATION_BLOCKED", w, "NOT_FOUND")}
    ELSE LET plan == a.snapshots[Execution(a, w)]
         IN  FirstCause(<<
                 OfDevices("INCOMPATIBLE_HARDWARE", w, MissingDevices(o, plan), "MISSING"),
                 UnmanagedConflicts(o, w, plan),
                 OwnedResourceConflicts(a, o, w, plan),
                 IF a.hold.active THEN {} ELSE Executing(a, o, w)>>)

Conditions(a, o) ==
    LET running == RunningDesired(a)
    IN  {i \in {OfHost("MAINTENANCE_HOLD", "HOLD")} : a.hold.active} \cup
        {i \in {OfHost("AGENT_OFFLINE", "NOT_READY")} :
            o.mode = "offline" \/ (o.mode = "absent" /\ running # {})} \cup
        {i \in {OfHost("MONITORING_STALE", "NOT_READY")} : o.mode = "stale" /\ running # {}} \cup
        (IF o.mode = "fresh" THEN UNION {WorkloadConditions(a, o, w) : w \in running} ELSE {})

IncidentType ==
    {"AGENT_OFFLINE", "MONITORING_STALE", "DESIRED_RUNNING_NOT_EXECUTING", "RUNTIME_ERROR",
     "USEFUL_WORK_DEGRADED", "TELEMETRY_UNKNOWN", "TELEMETRY_UNAVAILABLE",
     "INCOMPATIBLE_HARDWARE", "UNMANAGED_PROCESS_CONFLICT", "RESOURCE_CONFLICT",
     "MAINTENANCE_HOLD", "CONFIGURATION_BLOCKED"}

\* Mutant of ResolvableTypes: any connected Agent is evidence of recovery.
ResolvableWhenConnected(o) ==
    IF o.mode \in {"stale", "fresh"} THEN IncidentType ELSE {"MAINTENANCE_HOLD"}

\* Recovery is not inferred from missing evidence.
ResolvableTypes(o) == IF o.mode = "fresh" THEN IncidentType ELSE {"MAINTENANCE_HOLD"}

Evaluate(a, o) == [conditions |-> Conditions(a, o), resolvable |-> ResolvableTypes(o)]

(***************************************************************************)
(* ReconcileIncidents: the rows after the publication of an evaluation.    *)
(***************************************************************************)
IsActive(rows, i) == i \in DOMAIN rows /\ rows[i].state = "ACTIVE"

Reconciled(rows, e) ==
    [i \in DOMAIN rows \cup e.conditions |->
        IF i \in e.conditions
        THEN IF i \notin DOMAIN rows THEN [state |-> "ACTIVE", count |-> 1]
             ELSE IF rows[i].state = "RESOLVED"
                  THEN [state |-> "ACTIVE", count |-> rows[i].count + 1]
                  ELSE rows[i]
        ELSE IF i.type \in e.resolvable THEN [rows[i] EXCEPT !.state = "RESOLVED"]
             ELSE rows[i]]

(***************************************************************************)
(* The worker.                                                             *)
(***************************************************************************)
Idle == [pc |-> "idle", pending |-> FALSE, auth |-> None, obs |-> None]

\* The worker ends, or goes round again if it was asked to meanwhile.
Round(pending) == IF pending THEN [Idle EXCEPT !.pc = "begin", !.pending = TRUE] ELSE Idle

\* Mutant of Listed: Hosts without a workload are forgotten.
ListedByWorkload(d) == \E w \in Workloads(d) : Content(d, w).host = Site

\* ReconcileAll's Hosts.
Listed(d) ==
    \/ \E w \in Workloads(d) : Content(d, w).host = Site
    \/ d.holds[Site].active
    \/ Live(d.barriers[Site])

Queue ==
    eval' = IF eval.pc = "idle" THEN Round(TRUE) ELSE [eval EXCEPT !.pending = TRUE]

\* The periodic tick.
Tick ==
    /\ Listed(db) /\ ~eval.pending
    /\ Queue
    /\ UNCHANGED <<farmVars, obs, cached>>

\* A session event, a retry or a Hold: scheduled when the change is made, run
\* some time after it.
Scheduled ==
    /\ ~eval.pending /\ (obs.mode # "absent" \/ Listed(db))
    /\ Queue
    /\ UNCHANGED <<farmVars, obs, cached>>

ReadAuthority ==
    /\ eval.pc = "begin"
    /\ eval' = [eval EXCEPT !.pc = "read", !.pending = FALSE, !.auth = Authority(db)]
    /\ UNCHANGED <<farmVars, obs, cached>>

\* The second fingerprint differs: once more.
AuthorityChanged ==
    /\ eval.pc = "read" /\ Authority(db) # eval.auth
    /\ eval' = Round(TRUE)
    /\ UNCHANGED <<farmVars, obs, cached>>

EvaluateObserved ==
    /\ eval.pc = "read" /\ Authority(db) = eval.auth
    /\ eval' = [eval EXCEPT !.pc = "publish", !.obs = obs]
    /\ UNCHANGED <<farmVars, obs, cached>>

\* Published as it is less than incidentTouchInterval ago.
SkipUnchanged ==
    /\ eval.pc = "publish" /\ cached = Evaluate(eval.auth, eval.obs)
    /\ eval' = Round(eval.pending)
    /\ UNCHANGED <<farmVars, obs, cached>>

\* Mutant of AuthorityStands: the observation is not looked at again.
RowsStand == Authority(db) = eval.auth

\* Under the Host lock: the observation and the Hold, then in the transaction
\* the fingerprint, are what was evaluated.
AuthorityStands == obs = eval.obs /\ Authority(db) = eval.auth

Publish ==
    LET e == Evaluate(eval.auth, eval.obs)
    IN  /\ eval.pc = "publish" /\ AuthorityStands
        /\ db' = [db EXCEPT !.incidents = Reconciled(@, e)]
        /\ cached' = e
        /\ eval' = Round(eval.pending)
        /\ UNCHANGED <<edit, obs>>

\* Mutant of PublishRefused: the refused evaluation is remembered.
RefusedAndRemembered ==
    /\ eval.pc = "publish" /\ ~AuthorityStands
    /\ eval' = Round(TRUE)
    /\ cached' = Evaluate(eval.auth, eval.obs)
    /\ UNCHANGED <<farmVars, obs>>

PublishRefused ==
    /\ eval.pc = "publish" /\ ~AuthorityStands
    /\ eval' = Round(TRUE)
    /\ UNCHANGED <<farmVars, obs, cached>>

\* A query or the transaction fails and the pass ends with nothing written: what
\* was not asked for meanwhile waits for the next tick.  Only when the Hold cannot
\* be read again is the evaluation asked for once more.
EvaluationFails ==
    /\ \/ eval.pc = "begin" /\ eval' = Idle
       \/ eval.pc \in {"read", "publish"} /\ eval' = Round(eval.pending)
       \/ eval.pc = "publish" /\ eval' = Round(TRUE)
    /\ UNCHANGED <<farmVars, obs, cached>>

(***************************************************************************)
(* The Host's session and the Controller process.                          *)
(***************************************************************************)
Known(o) == DOMAIN o.execs \subseteq DOMAIN db.snapshots

Connect ==
    /\ obs.rev < MaxObservation /\ obs.mode \in {"absent", "offline"}
    /\ obs' = Observation("stale", obs.rev + 1, NothingObserved)
    /\ UNCHANGED <<farmVars, eval, cached>>

Report ==
    /\ obs.rev < MaxObservation /\ obs.mode \in {"stale", "fresh"}
    /\ \E o \in Observed : Known(o) /\ obs' = Observation("fresh", obs.rev + 1, o)
    /\ UNCHANGED <<farmVars, eval, cached>>

Disconnect ==
    /\ obs.rev < MaxObservation /\ obs.mode \in {"stale", "fresh"}
    /\ obs' = Observation("offline", obs.rev + 1, NothingObserved)
    /\ UNCHANGED <<farmVars, eval, cached>>

\* FreshnessTimeout passes without a report: nothing is scheduled; the next
\* read of the observation finds it (refreshFreshness).
Expire ==
    /\ obs.mode = "fresh"
    /\ obs' = [obs EXCEPT !.mode = "stale"]
    /\ UNCHANGED <<farmVars, eval, cached>>

\* The database is all that is left.
RestartController ==
    /\ obs.rev < MaxObservation
    /\ obs' = Observation("absent", obs.rev + 1, NothingObserved)
    /\ eval' = Idle /\ cached' = None /\ edit' = None
    /\ UNCHANGED db

\* The Host has connected to a Controller that has just started.
Init ==
    /\ FarmInit
    /\ obs = Observation("stale", 0, NothingObserved)
    /\ eval = Idle /\ cached = None

Farm == FarmStep /\ UNCHANGED incidentVars

Worker ==
    \/ ReadAuthority \/ AuthorityChanged \/ EvaluateObserved
    \/ SkipUnchanged \/ Publish \/ PublishRefused \/ EvaluationFails

Next ==
    \/ Farm \/ Worker \/ Tick \/ Scheduled
    \/ Connect \/ Report \/ Disconnect \/ Expire
    \/ RestartController

\* The ticker's and the worker's goroutines run; a skipped evaluation is
\* published all the same once incidentTouchInterval has passed.  The database
\* may fail any number of times, and answers in the end.
Fairness ==
    /\ WF_vars(Tick)
    /\ WF_vars(ReadAuthority) /\ WF_vars(AuthorityChanged) /\ WF_vars(EvaluateObserved)
    /\ WF_vars(Publish \/ SkipUnchanged) /\ WF_vars(PublishRefused)
    /\ <>[][~EvaluationFails]_vars

Spec == Init /\ [][Next]_vars /\ Fairness

(***************************************************************************)
(* Properties.                                                             *)
(***************************************************************************)
TypeOK ==
    /\ FarmTypeOK
    /\ obs.mode \in Mode /\ obs.rev \in 0..MaxObservation
    /\ obs.gpus \subseteq Device /\ obs.busy \subseteq Device \cup {"CPU"}
    /\ DOMAIN obs.execs \subseteq WorkloadId \X (1..MaxRevision)
    /\ eval.pc \in {"idle", "begin", "read", "publish"} /\ eval.pending \in BOOLEAN
    /\ eval.pc = "idle" => eval = Idle
    /\ \A i \in DOMAIN db.incidents :
          /\ i.type \in IncidentType /\ i.workload \in WorkloadId \cup {None}
          /\ db.incidents[i].state \in {"ACTIVE", "RESOLVED"} /\ db.incidents[i].count > 0

\* A workload that is deleted leaves no ACTIVE incident, although an
\* evaluation that saw it may be about to publish: nothing would ever resolve
\* it (resolveDeletedWorkloadIncidentsTx, the fingerprint in ReconcileIncidents).
NoOrphanIncident ==
    \A i \in DOMAIN db.incidents :
        db.incidents[i].state = "ACTIVE" /\ i.workload # None => Live(db.workloads[i.workload])

\* The rows agree with an evaluation: its conditions are ACTIVE, and nothing
\* else is of the types it may resolve.
Agrees(rows, e) ==
    \A i \in DOMAIN rows \cup e.conditions :
        IF i \in e.conditions THEN IsActive(rows, i)
        ELSE IsActive(rows, i) => i.type \notin e.resolvable

\* What is published is the truth at the moment it is published, not what was
\* read before the last change of the desired or the observed state.
PublishedIsCurrent ==
    [][eval.pc = "publish" /\ eval' # eval /\ db'.incidents # db.incidents
          => Agrees(db'.incidents, Evaluate(Authority(db), obs))]_vars

\* The evaluation that is skipped because it was published before would not
\* have changed a row: whatever happened since, the rows agree with it.
SkippingIsSafe ==
    cached = Evaluate(Authority(db), obs) => Agrees(db.incidents, cached)

\* An operational incident is resolved by a complete report of the Host or the
\* deletion of its workload, never by silence, a reconnection or a restart.
RecoveryNeedsEvidence ==
    [][\A i \in DOMAIN db.incidents :
          IsActive(db.incidents, i) /\ ~IsActive(db'.incidents, i)
              => \/ i.type = "MAINTENANCE_HOLD" /\ ~db.holds[Site].active
                 \/ obs.mode = "fresh"
                 \/ i.workload # None /\ ~Live(db'.workloads[i.workload])]_vars

\* When operators and sessions come to rest, and the database answers again, the
\* incidents of a Host with a workload, a Hold or a barrier come to agree with its
\* state: no re-evaluation is lost, whatever it collided with.
IncidentsSettle ==
    <>[](\/ Agrees(db.incidents, Evaluate(Authority(db), obs))
         \/ /\ \A w \in Workloads(db) : Content(db, w).host # Site
            /\ ~db.holds[Site].active /\ ~Live(db.barriers[Site]))

(***************************************************************************)
(* What is assumed of the constants besides FarmAssumption: an Agent says  *)
(* something known of an execution, and the first database's incidents are *)
(* ones that the worker and the operations left.                           *)
(***************************************************************************)
IncidentRow == [state : {"ACTIVE", "RESOLVED"}, count : Nat]
IncidentsIn(d) ==
    \A i \in DOMAIN d.incidents :
        /\ d.incidents[i] \in IncidentRow
        /\ d.incidents[i].state = "ACTIVE" /\ i.workload # None =>
              i.workload \in WorkloadId /\ Live(d.workloads[i.workload])
        /\ i.type = "MAINTENANCE_HOLD" => i = OfHost("MAINTENANCE_HOLD", "HOLD")

ASSUME IncidentsAssumption ==
    /\ None \notin WorkloadId /\ Site \in Host
    /\ \A o \in Observed : \A k \in DOMAIN o.execs : o.execs[k] \in DOMAIN ExecutionIncidents
    /\ \A d \in InitDB : IncidentsIn(d)
===============================================================================

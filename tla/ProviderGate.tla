----------------------------- MODULE ProviderGate -----------------------------
(***************************************************************************)
(* What stands between a pipeline run and the LLM: the readiness probe     *)
(* with its persisted circuit breaker, the negotiation of structured       *)
(* output for the Narrative and the Timeline model, and the background     *)
(* task that waits, hands over to a human, fails, or starts the worker     *)
(* until its run is settled.                                               *)
(*                                                                         *)
(* Tasks are threads of one process: they share the database rows, and     *)
(* they share the Provider object kept in app.state.  Each action is one   *)
(* transaction, one access to app.state or the outcome of one request; a   *)
(* run is written by its own task alone, so its row goes with the step.    *)
(***************************************************************************)
EXTENDS Naturals, FiniteSets

CONSTANTS
    Tasks,        \* background tasks of pipeline runs, one run each
    Threshold,    \* provider_circuit_failure_threshold
    Fallback,     \* output mode of a Provider object without a capability profile
    MaxRestarts   \* bound: restarts of the process

Modes == {"STRUCTURED", "PROMPT_ONLY", "UNAVAILABLE"}

ASSUME GateAssumption ==
    /\ {"none", "timeline"} \cap Tasks = {}
    /\ IsFiniteSet(Tasks)
    /\ Threshold \in Nat \ {0}
    /\ Fallback \in {"STRUCTURED", "UNAVAILABLE"}
    /\ MaxRestarts \in Nat

\* The circuit row: a due row may be probed again.
CleanRow == [status |-> "AVAILABLE", failures |-> 0, due |-> TRUE, saved |-> FALSE]
Opened == {"WAITING_RETRY", "PAUSED"}
HealthStatus == {"AVAILABLE", "CONFIGURATION_ERROR"} \cup Opened

\* A capability profile: the base mode, the weakest mode of its output schemas, its age.
NoProfile == [base |-> Fallback, schemas |-> Fallback, fresh |-> FALSE]
Models == {"narrative", "timeline"}
Instances == Tasks \cup {"timeline"}
Nobody == "none"

VARIABLES
    circuit,    \* the row of the configured Provider
    profile,    \* the cached capability profile of each model
    shared,     \* app.state.narrative_analyst_provider, named after its maker
    applied,    \* the profile each Provider object carries
    run,        \* status, phase and issue codes of the run of each task
    pc,         \* where each task stands
    inst,       \* the Provider object it got for its checks
    seen,       \* the circuit row it read
    restarts,   \* restarts so far
    streak,     \* history: probes that failed since the last one that did not
    overlapped, \* history: a probe was begun, sent or not, while another was under way
    built       \* history: Narrative Provider objects made by this process

rows == <<circuit, profile>>
objects == <<shared, applied>>
local == <<inst, seen>>
history == <<streak, overlapped, built>>
gateVars == <<rows, objects, run, pc, local, restarts, history>>

GateInit ==
    /\ circuit = CleanRow
    /\ profile = [m \in Models |-> NoProfile]
    /\ shared = Nobody
    /\ applied = [i \in Instances |-> NoProfile]
    /\ run = [t \in Tasks |-> [status |-> "PENDING", phase |-> "QUEUED", codes |-> FALSE]]
    /\ pc = [t \in Tasks |-> "idle"]
    /\ inst = [t \in Tasks |-> Nobody]
    /\ seen = [t \in Tasks |-> CleanRow]
    /\ restarts = 0
    /\ streak = 0
    /\ overlapped = FALSE
    /\ built = 0

At(t, label) == pc[t] = label
Goto(t, label) == pc' = [pc EXCEPT ![t] = label]
SaveRun(t, status, phase, codes) ==
    run' = [run EXCEPT ![t] = [status |-> status, phase |-> phase, codes |-> codes]]

---------------------------------------------------------------------------
(* The gate of a pipeline task. *)

\* A task begins, or wakes up after a wait, says that it checks the Provider, and takes the
\* object of the process or finds it missing ...
Check(t) ==
    /\ pc[t] \in {"idle", "wait"}
    /\ SaveRun(t, run[t].status, "PROVIDER_CHECKING", run[t].codes)
    /\ inst' = [inst EXCEPT ![t] = shared]
    /\ Goto(t, IF shared = Nobody THEN "build" ELSE "circuit")
    /\ UNCHANGED <<rows, objects, seen, restarts, history>>

\* Slip: the object that was made is not published.
Published_Not(t) == shared

\* ... and then a new one is made and published.
Published(t) == t

BuildProvider(t) ==
    /\ At(t, "build")
    /\ shared' = Published(t)
    /\ applied' = [applied EXCEPT ![t] = NoProfile]
    /\ inst' = [inst EXCEPT ![t] = t]
    /\ built' = built + 1
    /\ Goto(t, "circuit")
    /\ UNCHANGED <<rows, run, seen, restarts, streak, overlapped>>

\* A task that is turned away waits for the circuit, hands over to a human, or fails.
Refused(t, reason) ==
    /\ CASE reason = "WAITING_RETRY" ->
                SaveRun(t, "RUNNING", "PROVIDER_CHECKING", TRUE) /\ Goto(t, "wait")
         [] reason = "PAUSED" ->
                SaveRun(t, "NEEDS_HUMAN_ACTION", "NEEDS_HUMAN_ACTION", TRUE) /\ Goto(t, "end")
         [] OTHER -> SaveRun(t, "FAILED", "FAILED", TRUE) /\ Goto(t, "end")
    /\ inst' = [inst EXCEPT ![t] = Nobody]
    /\ seen' = [seen EXCEPT ![t] = CleanRow]

\* A circuit that may not be probed now.
Closed(row) == row.status = "CONFIGURATION_ERROR" \/ (row.status \in Opened /\ ~row.due)

Probing == {t \in Tasks : At(t, "answer")}

TurnedAway(t) ==
    /\ At(t, "circuit")
    /\ Closed(circuit)
    /\ Refused(t, circuit.status)
    /\ UNCHANGED <<rows, objects, restarts, history>>

\* Slip: one probe too many is allowed.
FailureStatus_OneMore(failures, auth) ==
    IF auth THEN "CONFIGURATION_ERROR"
    ELSE IF failures > Threshold THEN "PAUSED" ELSE "WAITING_RETRY"
FailureStatus(failures, auth) ==
    IF auth THEN "CONFIGURATION_ERROR"
    ELSE IF failures >= Threshold THEN "PAUSED" ELSE "WAITING_RETRY"

RecordFailure(t, previous, auth) ==
    LET failures == previous.failures + 1
        status == FailureStatus(failures, auth)
    IN /\ circuit' = [status |-> status, failures |-> failures, due |-> FALSE, saved |-> TRUE]
       /\ streak' = streak + 1
       /\ Refused(t, status)
       /\ UNCHANGED <<profile, objects, restarts, built>>

\* The probe is itself structured output: an object whose profile says that this is
\* unavailable sends nothing, and the failure is recorded all the same.
Unsendable(t) == applied[inst[t]].base = "UNAVAILABLE"

ProbeUnsent(t) ==
    /\ At(t, "circuit")
    /\ ~Closed(circuit)
    /\ Unsendable(t)
    /\ RecordFailure(t, circuit, FALSE)
    /\ overlapped' = (overlapped \/ Probing # {})

Probe(t) ==
    /\ At(t, "circuit")
    /\ ~Closed(circuit)
    /\ ~Unsendable(t)
    /\ seen' = [seen EXCEPT ![t] = circuit]
    /\ overlapped' = (overlapped \/ Probing # {})
    /\ Goto(t, "answer")
    /\ UNCHANGED <<rows, objects, run, inst, restarts, streak, built>>

\* The session still holds the row it read before the request; without one it reads again.
Previous(t) == IF seen[t].saved THEN seen[t] ELSE circuit

ProbeFails(t, auth) ==
    At(t, "answer") /\ RecordFailure(t, Previous(t), auth) /\ UNCHANGED overlapped

Recovered(row) == [CleanRow EXCEPT !.saved = TRUE]

ProbeSucceeds(t) ==
    /\ At(t, "answer")
    /\ circuit' = Recovered(circuit)
    /\ streak' = 0
    /\ seen' = [seen EXCEPT ![t] = CleanRow]
    /\ Goto(t, "narrative")
    /\ UNCHANGED <<profile, objects, run, inst, restarts, overlapped, built>>

---------------------------------------------------------------------------
(* The negotiation of structured output. *)

Instance(t, m) == IF m = "timeline" THEN "timeline" ELSE inst[t]
Asking(m) == IF m = "narrative" THEN "ask_narrative" ELSE "ask_timeline"
AfterModel(m) == IF m = "narrative" THEN "timeline" ELSE "work"
Apply(t, m, p) == applied' = [applied EXCEPT ![Instance(t, m)] = p]

\* A model is admitted when its base mode and every schema that is needed are structured.
Structured(p) == p.base # "UNAVAILABLE" /\ p.schemas \notin {"UNAVAILABLE", "PROMPT_ONLY"}

Admit(t, m, p) ==
    IF Structured(p)
    THEN Goto(t, AfterModel(m)) /\ UNCHANGED <<run, local>>
    ELSE Refused(t, "UNAVAILABLE")

\* A profile that has not expired is applied as it is, whatever it says.
Cached(t, m) ==
    /\ At(t, m)
    /\ IF profile[m].fresh
       THEN Apply(t, m, profile[m]) /\ Admit(t, m, profile[m])
       ELSE Goto(t, Asking(m)) /\ UNCHANGED <<applied, run, local>>
    /\ UNCHANGED <<rows, shared, restarts, history>>

\* The outcomes of the source-free requests: schemas are probed one by one when the base is
\* there, and a probe that raises counts as UNAVAILABLE.
Negotiated ==
    [base : {"STRUCTURED"}, schemas : {"STRUCTURED", "UNAVAILABLE"}, fresh : {TRUE}]
        \cup [base : {"UNAVAILABLE"}, schemas : {"UNAVAILABLE"}, fresh : {TRUE}]

Negotiate(t, m) ==
    /\ At(t, Asking(m))
    /\ \E p \in Negotiated :
        /\ profile' = [profile EXCEPT ![m] = p]
        /\ Apply(t, m, p)
        /\ Admit(t, m, p)
    /\ UNCHANGED <<circuit, shared, restarts, history>>

---------------------------------------------------------------------------
(* The worker and its end. *)

Worked(t, status) ==
    /\ At(t, "work")
    /\ SaveRun(t, status, run[t].phase, run[t].codes)
    /\ Goto(t, "settle")
    /\ UNCHANGED <<rows, objects, local, restarts, history>>

\* Some windows wait for their retry: the worker is started again after the deadline.
WorkerWaits(t) == Worked(t, "RUNNING")
WorkerSettles(t) ==
    \E status \in {"SUCCEEDED", "FAILED", "NEEDS_HUMAN_ACTION"} : Worked(t, status)

\* An exception, before or after the Narrative result is saved.
WorkerRaises(t) ==
    /\ At(t, "work")
    /\ \E status \in {"RUNNING", "SUCCEEDED"} : SaveRun(t, status, run[t].phase, run[t].codes)
    /\ Goto(t, "raised")
    /\ UNCHANGED <<rows, objects, local, restarts, history>>

PhaseOf(status) ==
    CASE status = "SUCCEEDED" -> "COMPLETED"
      [] status = "NEEDS_HUMAN_ACTION" -> status
      [] OTHER -> "FAILED"

Settled(status) == status # "RUNNING"

Settle(t) ==
    /\ At(t, "settle")
    /\ IF Settled(run[t].status)
       THEN /\ SaveRun(t, run[t].status, PhaseOf(run[t].status),
                       run[t].codes /\ run[t].status # "SUCCEEDED")
            /\ Goto(t, "end")
       ELSE Goto(t, "work") /\ UNCHANGED run
    /\ UNCHANGED <<rows, objects, local, restarts, history>>

\* Slip: whatever the worker reached, the run has failed.
AfterRaise_Failed(status) == "FAILED"
AfterRaise(status) == IF status = "SUCCEEDED" THEN status ELSE "FAILED"

SaveFailure(t) ==
    /\ At(t, "raised")
    /\ SaveRun(t, AfterRaise(run[t].status), "FAILED", TRUE)
    /\ Goto(t, "end")
    /\ UNCHANGED <<rows, objects, local, restarts, history>>

---------------------------------------------------------------------------
(* The environment. *)

DeadlinePasses ==
    /\ ~circuit.due
    /\ circuit' = [circuit EXCEPT !.due = TRUE]
    /\ UNCHANGED <<profile, objects, run, pc, local, restarts, history>>

\* An expired profile counts for nothing.
ProfileExpires(m) ==
    /\ profile[m].fresh
    /\ profile' = [profile EXCEPT ![m] = NoProfile]
    /\ UNCHANGED <<circuit, objects, run, pc, local, restarts, history>>

\* Background tasks do not survive the process, and neither do its objects.
RestartProcess ==
    /\ restarts < MaxRestarts
    /\ restarts' = restarts + 1
    /\ pc' = [t \in Tasks |-> IF pc[t] \in {"idle", "end"} THEN pc[t] ELSE "lost"]
    /\ shared' = Nobody
    /\ applied' = [i \in Instances |-> NoProfile]
    /\ inst' = [t \in Tasks |-> Nobody]
    /\ seen' = [t \in Tasks |-> CleanRow]
    /\ built' = 0
    /\ UNCHANGED <<rows, run, streak, overlapped>>

Gate(t) ==
    \/ Check(t) \/ BuildProvider(t) \/ TurnedAway(t)
    \/ ProbeUnsent(t) \/ Probe(t) \/ ProbeSucceeds(t) \/ (\E auth \in BOOLEAN : ProbeFails(t, auth))
    \/ (\E m \in Models : Cached(t, m) \/ Negotiate(t, m))

Work(t) ==
    \/ WorkerWaits(t) \/ WorkerSettles(t) \/ WorkerRaises(t)

GateNext ==
    \/ \E t \in Tasks : Gate(t) \/ Work(t) \/ Settle(t) \/ SaveFailure(t)
    \/ DeadlinePasses
    \/ \E m \in Models : ProfileExpires(m)
    \/ RestartProcess

GateSpec == GateInit /\ [][GateNext]_gateVars

\* Requests are answered, deadlines pass, and a worker that is started again and again ends.
Fairness ==
    /\ \A t \in Tasks :
        /\ WF_gateVars(pc[t] # "idle" /\ (Gate(t) \/ Settle(t) \/ SaveFailure(t)))
        /\ SF_gateVars(WorkerSettles(t))
    /\ WF_gateVars(DeadlinePasses)

FairSpec == GateSpec /\ Fairness
---------------------------------------------------------------------------
(* What must hold. *)

Labels == {"idle", "build", "circuit", "answer", "narrative", "timeline",
           "ask_narrative", "ask_timeline", "wait", "work", "raised", "settle", "end", "lost"}
Profiles == [base : Modes, schemas : Modes, fresh : BOOLEAN]
Rows == [status : HealthStatus, failures : Nat, due : BOOLEAN, saved : BOOLEAN]
RunStatus == {"PENDING", "RUNNING", "SUCCEEDED", "FAILED", "NEEDS_HUMAN_ACTION"}
Phase == {"QUEUED", "PROVIDER_CHECKING", "COMPLETED", "FAILED", "NEEDS_HUMAN_ACTION"}

\* Every row, object and task is in one of the states the schemas and the code name.
GateTypeOK ==
    /\ circuit \in Rows
    /\ profile \in [Models -> Profiles]
    /\ shared \in Tasks \cup {Nobody}
    /\ applied \in [Instances -> Profiles]
    /\ run \in [Tasks -> [status : RunStatus, phase : Phase, codes : BOOLEAN]]
    /\ pc \in [Tasks -> Labels]
    /\ inst \in [Tasks -> Tasks \cup {Nobody}]
    /\ seen \in [Tasks -> Rows]
    /\ restarts \in 0 .. MaxRestarts
    /\ streak \in Nat
    /\ overlapped \in BOOLEAN
    /\ built \in 0 .. Cardinality(Tasks)

\* As long as no two probes ran at once, the row counts the failures since the last success,
\* whatever tasks, waits and restarts lie between them, and it pauses at the threshold.
AllowanceExact ==
    ~overlapped =>
        /\ circuit.failures = streak
        /\ circuit.status = "AVAILABLE" <=> streak = 0
        /\ circuit.status = "WAITING_RETRY" => streak < Threshold
        /\ circuit.status = "PAUSED" => streak >= Threshold

\* The worker takes the Provider object of the process, whoever made it: while only one was made
\* since the last restart, it carries a negotiated profile when the worker of a pipeline task
\* runs.  (Two first tasks may make one each, and the worker may find the one without.)
ProfileReachesWorker ==
    \A t \in Tasks :
        At(t, "work") /\ built <= 1 =>
            shared # Nobody /\ applied[shared] # NoProfile /\ applied["timeline"] # NoProfile

\* A task that ended leaves a settled run whose phase says what its status and issue codes say: a
\* success without codes is COMPLETED, one that an exception came after is reported FAILED, with
\* codes.  A run its worker settled as FAILED or for a human may have codes or none.
PhaseAgrees ==
    \A t \in Tasks :
        At(t, "end") =>
            /\ run[t].status \in {"SUCCEEDED", "FAILED", "NEEDS_HUMAN_ACTION"}
            /\ run[t].phase = "COMPLETED" <=> run[t].status = "SUCCEEDED" /\ ~run[t].codes
            /\ run[t].phase = "NEEDS_HUMAN_ACTION" <=> run[t].status = "NEEDS_HUMAN_ACTION"
            /\ run[t].phase = "FAILED" <=>
                  run[t].status = "FAILED" \/ (run[t].status = "SUCCEEDED" /\ run[t].codes)

\* Whatever ends a task before its worker has settled the run (a refusal at the gate after any
\* number of waits, an exception) is explained by issue codes.
EndsExplained ==
    [][\A t \in Tasks : pc[t] \notin {"settle", "end"} /\ pc'[t] = "end" => run'[t].codes]_gateVars

\* A configuration error stays until the row is repaired by hand: no later probe, however long
\* the wait, replaces it, except one that was already under way.
ConfigurationErrorFinal ==
    [][circuit.status = "CONFIGURATION_ERROR" /\ ~overlapped' => circuit'.status = circuit.status]_gateVars

\* An exception of the pipeline does not take back a saved Narrative result.
ResultKept ==
    [][\A t \in Tasks : run[t].status = "SUCCEEDED" => run'[t].status = "SUCCEEDED"]_gateVars

\* Every background task ends, however often probes fail and whatever they overwrite.
TasksEnd == \A t \in Tasks : ~At(t, "idle") ~> pc[t] \in {"end", "lost"}

\* A worker runs with what the gate negotiated, and the task's phase agrees with its run.
GateReported == GateTypeOK /\ ProfileReachesWorker /\ PhaseAgrees

\* Tasks end, for a reason that can be read, and neither their exceptions nor late probes take
\* back what was settled.
TasksEndWell == TasksEnd /\ EndsExplained /\ ConfigurationErrorFinal /\ ResultKept
=============================================================================

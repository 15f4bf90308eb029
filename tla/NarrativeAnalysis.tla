-------------------------- MODULE NarrativeAnalysis --------------------------
(***************************************************************************)
(* The resumable whole-document narrative analysis: one run record, one    *)
(* record per analysis window, and the background workers that execute     *)
(* NarrativeAnalysisWorker.run_pending over them.                          *)
(*                                                                         *)
(* Every repository method commits, so a repository call is one atomic     *)
(* step and two workers interleave between any two calls.  Each worker     *)
(* keeps in its own memory what it read earlier: the run payload (snap)    *)
(* and whole window payloads (the rows in todo and job), and a save writes *)
(* such a payload back over whatever the database holds by then.           *)
(***************************************************************************)
EXTENDS Naturals, Sequences, FiniteSets

CONSTANTS
    Workers,              \* background tasks started for the run
    Windows,              \* every window id a run of this shape can have
    Planned,              \* the windows create_run persists
    Kids,                 \* Kids[w]: the windows a split of w creates
    Scope,                \* Scope[w]: the pieces of source text w owns
    SingleChunk,          \* windows that read exactly one SourceChunk
    Rank,                 \* (mode, window_index) order of the windows
    Failures,             \* failure categories the Provider can produce
    Overtime,             \* {FALSE}, or BOOLEAN when attempts can use up the time budget
    MaxCallAttempts,      \* max_call_attempts of every window
    MaxLengthRecovery,    \* max_length_recovery_attempts
    MaxSchemaRepair,      \* max_schema_repair_attempts
    MaxProviderRequests,  \* the run's root cap; 0 means no cap
    MaxRestarts,          \* bound: service restarts
    MadeCap               \* bound: the two call counters saturate here

LengthFailure == "PROVIDER_LENGTH_BEFORE_FINAL_CONTENT"
SchemaFailure == "SCHEMA_VALIDATION_FAILED"
EvidenceFailure == "EVIDENCE_VALIDATION_FAILED"
TimeoutFailure == "PROVIDER_TIMEOUT"

OutputFailures == {SchemaFailure, EvidenceFailure}
\* PROVIDER_HTTP_ERROR with status 429 or 5xx takes the path of a connection error;
\* any other HTTP status takes the path of UNCLASSIFIED.
TransientFailures == {TimeoutFailure, "PROVIDER_CONNECTION_ERROR"}
FailureCategories == {LengthFailure, "UNCLASSIFIED"} \cup OutputFailures \cup TransientFailures
TerminalCategories ==
    {"SCHEMA_REPAIR_EXHAUSTED", "EVIDENCE_REPAIR_EXHAUSTED", "RECOVERY_BUDGET_EXHAUSTED"}

ASSUME ConstantsAssumption ==
    /\ IsFiniteSet(Windows) /\ Windows # {}
    /\ Planned \subseteq Windows
    /\ Kids \in [Windows -> SUBSET Windows]
    /\ \A w \in Windows : Kids[w] # {} => Scope[w] = UNION {Scope[k] : k \in Kids[w]}
    /\ SingleChunk \subseteq Windows
    /\ Rank \in [Windows -> Nat]
    /\ \A v, w \in Windows : Rank[v] = Rank[w] => v = w
    /\ Failures \subseteq FailureCategories
    /\ Overtime \subseteq BOOLEAN
    /\ MaxCallAttempts \in Nat \ {0}
    /\ MaxLengthRecovery \in Nat
    /\ MaxSchemaRepair \in 0..1
    /\ MaxProviderRequests \in Nat
    /\ MaxRestarts \in Nat
    /\ MadeCap \in Nat

\* A window owns a piece of the source, and no two of a plan or of a split own the same one:
\* a chunk belongs to the first planned window that shows it, a chunk split makes one child
\* per owned chunk, and a slice split cuts one range in two.
ASSUME OwnershipAssumption ==
    /\ \A w \in Windows : Scope[w] # {}
    /\ \A v, w \in Planned : v # w => Scope[v] \cap Scope[w] = {}
    /\ \A w \in Windows : \A j, k \in Kids[w] : j # k => Scope[j] \cap Scope[k] = {}

\* A split narrows: its windows have one chunk, or a slice of it, and the depth is bounded.
ASSUME SplitsEnd ==
    \A S \in SUBSET Windows : S # {} => \E w \in S : Kids[w] \cap S = {}

VARIABLES
    run,        \* the run row: its status and provider_requests_used
    window,     \* the window rows
    result,     \* the windows whose proposals the saved aggregate holds
    pc,         \* where each worker stands
    snap,       \* each worker's copy of the run payload
    todo,       \* each worker's windows still to execute, with the payloads it read
    job,        \* the window a worker is executing, with its payload
    delivered,  \* the SUCCEEDED windows a finalizing worker listed
    fresh,      \* workers for which the run row's updated_at is still the one they read
    restarts,   \* service restarts so far
    made,       \* history: Provider calls really made, per window
    spent       \* history: Provider calls really made, in all

dbVars == <<run, window, result>>
localVars == <<pc, snap, todo, job, delivered, fresh>>
vars == <<run, window, result, pc, snap, todo, job, delivered, fresh, restarts, made, spent>>

-----------------------------------------------------------------------------
(* Window payloads *)

RunStatus == {"PENDING", "RUNNING", "SUCCEEDED", "PARTIAL_FAILED", "FAILED", "NEEDS_HUMAN_ACTION"}
WindowStatus == {"ABSENT", "PENDING", "RESERVED", "RUNNING", "SUCCEEDED", "FAILED",
                 "EXHAUSTED", "SPLIT", "NEEDS_HUMAN_ACTION"}
Phase == {"INITIAL", "LENGTH_RECOVERY", "SCHEMA_REPAIR", "SPLIT_CHILD", "TERMINAL"}
Category == {"NONE"} \cup FailureCategories \cup TerminalCategories

\* next_eligible_retry_at is NONE, in the future (AHEAD) or in the past (DUE).
Deadline == {"NONE", "AHEAD", "DUE"}

RunPayload == [status : RunStatus, used : Nat]
WindowPayload ==
    [status : WindowStatus, calls : Nat, phase : Phase, category : Category,
     repairs : Nat, lengths : Nat, deadline : Deadline, overtime : BOOLEAN, reason : Category]
Job == [id : Windows, row : WindowPayload]

AbsentWindow ==
    [status |-> "ABSENT", calls |-> 0, phase |-> "INITIAL", category |-> "NONE",
     repairs |-> 0, lengths |-> 0, deadline |-> "NONE", overtime |-> FALSE, reason |-> "NONE"]

\* A worker's memory is blanked where the code no longer uses it.
NoRun == [status |-> "PENDING", used |-> 0]
NoJob == [id |-> CHOOSE w \in Windows : TRUE, row |-> AbsentWindow]

PlannedWindow == [AbsentWindow EXCEPT !.status = "PENDING"]

\* The payload of a window split off the failed payload r.
ChildWindow(r) ==
    [PlannedWindow EXCEPT !.phase = "SPLIT_CHILD", !.deadline = r.deadline, !.reason = r.category]

CallCap(r) == MaxCallAttempts + IF r.phase = "SCHEMA_REPAIR" THEN MaxSchemaRepair ELSE 0

BudgetExhausted(r) == r.calls >= CallCap(r) \/ r.overtime

\* Slip: the status name written as the category.
ExhaustedCategory_AsStatus(c) == IF c \in OutputFailures THEN "EXHAUSTED" ELSE c

ExhaustedCategory(c) ==
    CASE c = SchemaFailure   -> "SCHEMA_REPAIR_EXHAUSTED"
      [] c = EvidenceFailure -> "EVIDENCE_REPAIR_EXHAUSTED"
      [] c = "NONE"          -> "RECOVERY_BUDGET_EXHAUSTED"
      [] OTHER               -> c

ExhaustWindow(r, rootBudget) ==
    [r EXCEPT !.status = IF rootBudget \/ r.category \in OutputFailures
                         THEN "NEEDS_HUMAN_ACTION" ELSE "EXHAUSTED",
              !.category = ExhaustedCategory(r.category),
              !.deadline = "NONE",
              !.phase = "TERMINAL"]

Reserved(r) == [r EXCEPT !.status = "RESERVED", !.deadline = "NONE"]

Charged(r) == [r EXCEPT !.status = "RUNNING", !.category = "NONE", !.calls = @ + 1]

Answered(r, status, category, slow) ==
    [r EXCEPT !.status = status, !.category = category, !.overtime = @ \/ slow]

-----------------------------------------------------------------------------
(* What a worker decides about a payload after a Provider answer *)

\* Slip: the call cap is applied before the independent repair budget.
RepairLeft_AfterCallCap(r) ==
    r.category \in OutputFailures /\ r.repairs < MaxSchemaRepair /\ ~BudgetExhausted(r)

RepairLeft(r) == r.category \in OutputFailures /\ r.repairs < MaxSchemaRepair

ScheduleRetry(w, r) ==
    IF r.status # "FAILED" \/ RepairLeft(r) THEN r
    ELSE IF BudgetExhausted(r)
    THEN IF r.category = SchemaFailure /\ Kids[w] # {} THEN r ELSE ExhaustWindow(r, FALSE)
    ELSE IF r.category \in TransientFailures /\ r.calls < MaxCallAttempts
    THEN [r EXCEPT !.deadline = "AHEAD"]
    ELSE r

\* Kids[w] is empty at the maximum depth and for a chunk too short to slice.
Terminalize(w, r) ==
    IF /\ r.status = "FAILED"
       /\ r.category \in OutputFailures
       /\ r.repairs >= MaxSchemaRepair
       /\ r.category = EvidenceFailure \/ Kids[w] = {}
    THEN [r EXCEPT !.status = "NEEDS_HUMAN_ACTION", !.category = ExhaustedCategory(@),
                   !.deadline = "NONE", !.phase = "TERMINAL"]
    ELSE r

Completed(w, r) == Terminalize(w, ScheduleRetry(w, r))

ShouldSplit(w, r) ==
    /\ r.status = "FAILED"
    /\ Kids[w] # {}
    /\ \/ r.category \in {LengthFailure, TimeoutFailure} /\ w \notin SingleChunk
       \/ r.category = SchemaFailure /\ r.repairs >= MaxSchemaRepair

ShouldRetry(r) ==
    /\ r.status = "FAILED"
    /\ \/ /\ r.category = LengthFailure
          /\ r.lengths < MaxLengthRecovery
          /\ r.calls < MaxCallAttempts
       \/ RepairLeft(r) /\ r.calls < MaxCallAttempts + MaxSchemaRepair

RetryPayload(r) ==
    IF r.category = LengthFailure
    THEN [r EXCEPT !.phase = "LENGTH_RECOVERY", !.lengths = @ + 1]
    ELSE [r EXCEPT !.phase = "SCHEMA_REPAIR", !.repairs = @ + 1]

-----------------------------------------------------------------------------
(* The initial state: create_run has persisted the run and its planned windows. *)

Init ==
    /\ run = NoRun
    /\ window = [w \in Windows |-> IF w \in Planned THEN PlannedWindow ELSE AbsentWindow]
    /\ result = {}
    /\ pc = [p \in Workers |-> "idle"]
    /\ snap = [p \in Workers |-> NoRun]
    /\ todo = [p \in Workers |-> <<>>]
    /\ job = [p \in Workers |-> NoJob]
    /\ delivered = [p \in Workers |-> {}]
    /\ fresh = {}
    /\ restarts = 0
    /\ made = [w \in Windows |-> 0]
    /\ spent = 0

Goto(p, label) == pc' = [pc EXCEPT ![p] = label]

At(p, label) == pc[p] = label

\* _run_window returns: the worker goes on with its list.
EndWindow(p) ==
    /\ job' = [job EXCEPT ![p] = NoJob]
    /\ snap' = [snap EXCEPT ![p] = NoRun]
    /\ Goto(p, "next")

\* run_pending returns or raises.
Stop(p) ==
    /\ pc' = [pc EXCEPT ![p] = "idle"]
    /\ snap' = [snap EXCEPT ![p] = NoRun]
    /\ todo' = [todo EXCEPT ![p] = <<>>]
    /\ job' = [job EXCEPT ![p] = NoJob]
    /\ delivered' = [delivered EXCEPT ![p] = {}]

\* Every write of the run row gives it a new updated_at.
SaveRun(payload) == run' = payload /\ fresh' = {}

SaveWindow(w, payload) == window' = [window EXCEPT ![w] = payload]

\* The enumerations of the set S of windows in (mode, window_index) order.
Listings(S) ==
    {ids \in [1..Cardinality(S) -> S] :
        \A i, j \in 1..Cardinality(S) : i < j => Rank[ids[i]] < Rank[ids[j]]}

-----------------------------------------------------------------------------
(* run_pending: open the run and list the eligible windows *)

Start(p) ==
    /\ At(p, "idle")
    /\ snap' = [snap EXCEPT ![p] = run]
    /\ Goto(p, "open")
    /\ UNCHANGED <<dbVars, todo, job, delivered, fresh, restarts, made, spent>>

Open(p) ==
    /\ At(p, "open")
    /\ SaveRun([snap[p] EXCEPT !.status = "RUNNING"])
    /\ snap' = [snap EXCEPT ![p] = NoRun]
    /\ Goto(p, "list")
    /\ UNCHANGED <<window, result, todo, job, delivered, restarts, made, spent>>

\* Slip: a resume also takes up what an interrupted worker left behind.
Claimable_Reserved(w) == window[w].status \in {"PENDING", "FAILED", "RESERVED"}

\* Slip: a resume takes up everything that was not split.
Claimable_Rerun(w) == window[w].status \notin {"ABSENT", "SPLIT"}

Claimable(w) == window[w].status \in {"PENDING", "FAILED"}

\* Slip: a window that has a deadline is skipped for ever.
Eligible_Never(w) == Claimable(w) /\ window[w].deadline = "NONE"

Eligible(w) == Claimable(w) /\ window[w].deadline # "AHEAD"

List(p) ==
    /\ At(p, "list")
    /\ \E ids \in Listings({w \in Windows : Eligible(w)}) :
          todo' = [todo EXCEPT ![p] = [i \in 1..Len(ids) |-> [id |-> ids[i], row |-> window[ids[i]]]]]
    /\ Goto(p, "next")
    /\ UNCHANGED <<dbVars, snap, job, delivered, fresh, restarts, made, spent>>

-----------------------------------------------------------------------------
(* _run_window: claim, reserve, charge, call *)

Take(p) ==
    /\ At(p, "next")
    /\ todo[p] # <<>>
    /\ job' = [job EXCEPT ![p] = Head(todo[p])]
    /\ todo' = [todo EXCEPT ![p] = Tail(todo[p])]
    /\ Goto(p, "claim")
    /\ UNCHANGED <<dbVars, snap, delivered, fresh, restarts, made, spent>>

\* The exhausted payload is saved without a claim.
Exhaust(p) ==
    LET w == job[p].id IN
    /\ At(p, "claim")
    /\ BudgetExhausted(job[p].row)
    /\ SaveWindow(w, ExhaustWindow(job[p].row, FALSE))
    /\ EndWindow(p)
    /\ UNCHANGED <<run, result, todo, delivered, fresh, restarts, made, spent>>

\* claim_window compares the status only, and writes the payload the worker read.
Claim(p) ==
    LET w == job[p].id IN
    /\ At(p, "claim")
    /\ ~BudgetExhausted(job[p].row)
    /\ Claimable(w)
    /\ SaveWindow(w, Reserved(job[p].row))
    /\ job' = [job EXCEPT ![p].row = Reserved(@)]
    /\ Goto(p, "reserve")
    /\ UNCHANGED <<run, result, snap, todo, delivered, fresh, restarts, made, spent>>

ClaimLost(p) ==
    /\ At(p, "claim")
    /\ ~BudgetExhausted(job[p].row)
    /\ ~Claimable(job[p].id)
    /\ EndWindow(p)
    /\ UNCHANGED <<dbVars, todo, delivered, fresh, restarts, made, spent>>

\* Slip: the last slot is never given out.
RootBudgetSpent_Early == MaxProviderRequests > 0 /\ run.used + 1 >= MaxProviderRequests

RootBudgetSpent == MaxProviderRequests > 0 /\ run.used >= MaxProviderRequests

\* reserve_root_provider_request reads the row ...
ReadRootBudget(p) ==
    /\ At(p, "reserve")
    /\ IF RootBudgetSpent
       THEN Goto(p, "denied") /\ UNCHANGED <<snap, fresh>>
       ELSE /\ snap' = [snap EXCEPT ![p] = run]
            /\ fresh' = fresh \cup {p}
            /\ Goto(p, "swap")
    /\ UNCHANGED <<dbVars, todo, job, delivered, restarts, made, spent>>

\* Slip: the slot is not recorded.
SlotTaken_Free(r) == r

SlotTaken(r) == [r EXCEPT !.used = @ + 1]

\* ... and replaces it if its updated_at is still the one read.
SwapRootBudget(p) ==
    /\ At(p, "swap")
    /\ IF p \in fresh
       THEN /\ SaveRun(SlotTaken(snap[p]))
            /\ snap' = [snap EXCEPT ![p] = SlotTaken(@)]
            /\ Goto(p, "charge")
       ELSE Goto(p, "denied") /\ UNCHANGED <<run, snap, fresh>>
    /\ UNCHANGED <<window, result, todo, job, delivered, restarts, made, spent>>

\* A lost swap and a spent budget both come back as None.
Deny(p) ==
    /\ At(p, "denied")
    /\ SaveWindow(job[p].id, ExhaustWindow(job[p].row, TRUE))
    /\ EndWindow(p)
    /\ UNCHANGED <<run, result, todo, delivered, fresh, restarts, made, spent>>

Capped(n) == IF n < MadeCap THEN n ELSE MadeCap

Charge(p) ==
    LET w == job[p].id IN
    /\ At(p, "charge")
    /\ SaveWindow(w, Charged(job[p].row))
    /\ job' = [job EXCEPT ![p].row = Charged(@)]
    /\ made' = [made EXCEPT ![w] = Capped(@ + 1)]
    /\ spent' = Capped(spent + 1)
    /\ Goto(p, "call")
    /\ UNCHANGED <<run, result, snap, todo, delivered, fresh, restarts>>

\* The payload r a Provider call ended with is saved; a recoverable failure loops back to
\* the claim with the retry payload, which only this worker holds.
Record(p, r) ==
    LET w == job[p].id IN
    /\ SaveWindow(w, r)
    /\ IF ShouldSplit(w, r)
       THEN job' = [job EXCEPT ![p].row = r] /\ Goto(p, "createKids") /\ UNCHANGED snap
       ELSE IF ShouldRetry(r)
       THEN /\ job' = [job EXCEPT ![p].row = RetryPayload(r)]
            /\ snap' = [snap EXCEPT ![p] = NoRun]
            /\ Goto(p, "claim")
       ELSE EndWindow(p)
    /\ UNCHANGED <<run, result, todo, delivered, fresh, restarts, made, spent>>

Succeed(p) ==
    /\ At(p, "call")
    /\ \E slow \in Overtime : Record(p, Answered(job[p].row, "SUCCEEDED", "NONE", slow))

Fail(p) ==
    /\ At(p, "call")
    /\ \E category \in Failures, slow \in Overtime :
          Record(p, Completed(job[p].id, Answered(job[p].row, "FAILED", category, slow)))

-----------------------------------------------------------------------------
(* _split_failed_window and _split_schema_slice *)

\* An existing child is accepted only with exactly the payload to be created; a retry
\* deadline is a new timestamp every time.
SameChild(k, r) == window[k] = ChildWindow(r) /\ r.deadline = "NONE"

\* Slip: the last owned chunk gets no child.
CreatedKids_AllButLast(w) == {k \in Kids[w] : \E j \in Kids[w] : Rank[k] < Rank[j]}

CreatedKids(w) == Kids[w]

CreateKids(p) ==
    LET w == job[p].id
        child == ChildWindow(job[p].row)
    IN  /\ At(p, "createKids")
        /\ IF \A k \in Kids[w] : window[k].status = "ABSENT" \/ SameChild(k, job[p].row)
           THEN /\ window' = [v \in Windows |-> IF v \in CreatedKids(w) THEN child ELSE window[v]]
                /\ Goto(p, "saveSplit")
                /\ UNCHANGED <<snap, todo, job, delivered>>
           ELSE Stop(p) /\ UNCHANGED window
        /\ UNCHANGED <<run, result, fresh, restarts, made, spent>>

\* Slip: the parent keeps its FAILED status.
SplitPayload_StillFailed(r) == [r EXCEPT !.deadline = "NONE", !.reason = r.category]

SplitPayload(r) == [r EXCEPT !.status = "SPLIT", !.deadline = "NONE", !.reason = r.category]

SaveSplit(p) ==
    LET w == job[p].id IN
    /\ At(p, "saveSplit")
    /\ SaveWindow(w, SplitPayload(job[p].row))
    /\ Goto(p, IF w \in SingleChunk THEN "reread" ELSE "saveSplitRun")
    /\ UNCHANGED <<run, result, snap, todo, job, delivered, fresh, restarts, made, spent>>

\* Only the slice variant reads the run again before it saves it.
RereadRun(p) ==
    /\ At(p, "reread")
    /\ snap' = [snap EXCEPT ![p] = run]
    /\ Goto(p, "saveSplitRun")
    /\ UNCHANGED <<dbVars, todo, job, delivered, fresh, restarts, made, spent>>

\* A child whose inherited deadline lies ahead is left to a later run_pending.
Runnable(k, r) == r.deadline = "NONE" \/ window[k].deadline # "AHEAD"

SaveSplitRun(p) ==
    LET r == job[p].row IN
    /\ At(p, "saveSplitRun")
    /\ SaveRun(snap[p])
    /\ \E ids \in Listings({k \in Kids[job[p].id] : Runnable(k, r)}) :
          todo' = [todo EXCEPT
                     ![p] = [i \in 1..Len(ids) |-> [id |-> ids[i], row |-> ChildWindow(r)]] \o @]
    /\ EndWindow(p)
    /\ UNCHANGED <<window, result, delivered, restarts, made, spent>>

-----------------------------------------------------------------------------
(* _finalize_run *)

SomeWindow(statuses) == \E w \in Windows : window[w].status \in statuses

Unsettled ==
    \/ SomeWindow({"PENDING", "RESERVED", "RUNNING"})
    \/ \E w \in Windows : window[w].status = "FAILED" /\ window[w].deadline = "AHEAD"

FailedStatuses == {"FAILED", "EXHAUSTED", "NEEDS_HUMAN_ACTION"}

Verdict ==
    IF Unsettled THEN "RUNNING"
    ELSE IF SomeWindow({"NEEDS_HUMAN_ACTION"}) THEN "NEEDS_HUMAN_ACTION"
    ELSE IF ~SomeWindow(FailedStatuses) THEN "SUCCEEDED"
    ELSE IF SomeWindow({"SUCCEEDED"}) THEN "PARTIAL_FAILED" ELSE "FAILED"

ReadRun(p) ==
    /\ At(p, "next")
    /\ todo[p] = <<>>
    /\ snap' = [snap EXCEPT ![p] = run]
    /\ Goto(p, "judge")
    /\ UNCHANGED <<dbVars, todo, job, delivered, fresh, restarts, made, spent>>

Judge(p) ==
    /\ At(p, "judge")
    /\ snap' = [snap EXCEPT ![p].status = Verdict]
    /\ delivered' = [delivered EXCEPT ![p] = {w \in Windows : window[w].status = "SUCCEEDED"}]
    /\ Goto(p, "saveVerdict")
    /\ UNCHANGED <<dbVars, todo, job, fresh, restarts, made, spent>>

SaveVerdict(p) ==
    /\ At(p, "saveVerdict")
    /\ SaveRun(snap[p])
    /\ IF snap[p].status = "SUCCEEDED"
       THEN Goto(p, "aggregate") /\ UNCHANGED <<snap, todo, job, delivered>>
       ELSE Stop(p)
    /\ UNCHANGED <<window, result, restarts, made, spent>>

\* What follows the aggregate in _finalize_run is module Gate2Recovery.
SaveAggregate(p) ==
    /\ At(p, "aggregate")
    /\ result' = delivered[p]
    /\ fresh' = {}
    /\ Stop(p)
    /\ UNCHANGED <<run, window, restarts, made, spent>>

-----------------------------------------------------------------------------
(* The environment *)

\* The workers are threads of the service: a restart ends all of them.
Restart ==
    /\ restarts < MaxRestarts
    /\ \E p \in Workers : pc[p] # "idle"
    /\ restarts' = restarts + 1
    /\ pc' = [p \in Workers |-> "idle"]
    /\ snap' = [p \in Workers |-> NoRun]
    /\ todo' = [p \in Workers |-> <<>>]
    /\ job' = [p \in Workers |-> NoJob]
    /\ delivered' = [p \in Workers |-> {}]
    /\ fresh' = {}
    /\ UNCHANGED <<dbVars, made, spent>>

DeadlinePasses(w) ==
    /\ window[w].deadline = "AHEAD"
    /\ SaveWindow(w, [window[w] EXCEPT !.deadline = "DUE"])
    /\ UNCHANGED <<run, result, localVars, restarts, made, spent>>

Step(p) ==
    \/ Open(p) \/ List(p) \/ Take(p) \/ Exhaust(p) \/ Claim(p) \/ ClaimLost(p)
    \/ ReadRootBudget(p) \/ SwapRootBudget(p) \/ Deny(p) \/ Charge(p) \/ Succeed(p) \/ Fail(p)
    \/ CreateKids(p) \/ SaveSplit(p) \/ RereadRun(p) \/ SaveSplitRun(p)
    \/ ReadRun(p) \/ Judge(p) \/ SaveVerdict(p) \/ SaveAggregate(p)

Next ==
    \/ \E p \in Workers : Start(p) \/ Step(p)
    \/ \E w \in Windows : DeadlinePasses(w)
    \/ Restart

Spec == Init /\ [][Next]_vars

-----------------------------------------------------------------------------
(* Properties *)

Labels == {"idle", "open", "list", "next", "claim", "reserve", "swap", "denied", "charge", "call",
           "createKids", "saveSplit", "reread", "saveSplitRun", "judge", "saveVerdict", "aggregate"}

\* Type correctness of the database rows and of every worker's copies of them.
TypeOK ==
    /\ run \in RunPayload
    /\ window \in [Windows -> WindowPayload]
    /\ result \subseteq Windows
    /\ pc \in [Workers -> Labels]
    /\ snap \in [Workers -> RunPayload]
    /\ todo \in [Workers -> Seq(Job)]
    /\ job \in [Workers -> Job]
    /\ delivered \in [Workers -> SUBSET Windows]
    /\ fresh \subseteq Workers
    /\ restarts \in 0..MaxRestarts
    /\ made \in [Windows -> 0..MadeCap]
    /\ spent \in 0..MadeCap

\* A worker that claimed its window and has not yet saved the Provider's answer.
InFlight == {"reserve", "swap", "denied", "charge", "call"}

\* The conditional update of claim_window keeps a window with one worker from the claim to
\* the saved answer: two workers never execute the same window at the same time.
ClaimExclusive ==
    \A p, q \in Workers :
        p # q /\ pc[p] \in InFlight /\ pc[q] \in InFlight => job[p].id # job[q].id

\* A window a worker holds looks taken to every claim: whatever another worker or a stale
\* save wrote over its row, no second worker can claim it and no save shows it finished.
HeldIsTaken ==
    \A p \in Workers : pc[p] \in InFlight =>
        window[job[p].id].status \notin {"ABSENT", "PENDING", "FAILED", "SUCCEEDED"}

\* One worker executes a window, and its row says so to everybody else.
Exclusive == ClaimExclusive /\ HeldIsTaken

\* A resume never reruns a successful window: no step takes a SUCCEEDED window back to a
\* status a worker claims or executes (docs/whole_document_analysis.md:134).
NeverRerun ==
    [][\A w \in Windows : window[w].status = "SUCCEEDED" =>
          window'[w].status \notin {"PENDING", "RESERVED", "RUNNING", "FAILED"}]_vars

\* A SPLIT window has handed its whole scope over: every child it owns is persisted.
SplitKeepsScope ==
    \A w \in Windows : window[w].status = "SPLIT" =>
        \A k \in Kids[w] : window[k].status # "ABSENT"

\* The aggregate Gate 2 reviews covers the whole selected source, whichever worker saved it
\* and however the windows were split ("the whole Narrative run cannot reach Gate 2" with a
\* part missing, docs/whole_document_analysis.md:79).
AggregateComplete ==
    result # {} => UNION {Scope[w] : w \in result} = UNION {Scope[w] : w \in Planned}

\* No text is lost between the plan, the splits and the aggregate, however many workers,
\* stale saves and restarts lie between them.
ScopeKept == SplitKeepsScope /\ AggregateComplete

\* Every piece of source is owned by one window of the aggregate ("Source chunks whose
\* proposals this window exclusively owns", schemas/workflow.py:155).
AggregateOwnedOnce ==
    \A v, w \in result : v # w => Scope[v] \cap Scope[w] = {}

\* A run stands as SUCCEEDED only while every window of it does, or was split into ones that
\* do (_finalize_run).
SuccessIsComplete ==
    run.status = "SUCCEEDED" =>
        \A w \in Windows : window[w].status \in {"ABSENT", "SUCCEEDED", "SPLIT"}

\* A Provider call is paid from the root budget before it is made, across restarts: the calls
\* made never exceed the calls the run records (worker comment at :165).
ChargedBeforeCalled == spent <= run.used

\* The root cap bounds the calls made for the whole run (repository docstring at :131-136).
RootBudget == MaxProviderRequests > 0 => spent <= MaxProviderRequests

\* What the run row says holds: the calls on it were the calls made, within the cap, and a
\* SUCCEEDED run has nothing left to do.
RunHonest == ChargedBeforeCalled /\ RootBudget /\ SuccessIsComplete

\* No window is replayed without bound: its calls and its one repair, also across restarts.
WindowBudget == \A w \in Windows : made[w] <= MaxCallAttempts + MaxSchemaRepair

\* A window is handed to a human for lack of root budget only when that budget is spent.
DenialMeansSpent ==
    [][\A w \in Windows :
         /\ window[w].status = "RESERVED"
         /\ window'[w].status = "NEEDS_HUMAN_ACTION"
         => MaxProviderRequests > 0 /\ run.used >= MaxProviderRequests]_vars

\* A window goes to a human for an output failure only after its own format repair was
\* charged to it ("an earlier length recovery never consumes that child's schema repair",
\* docs/whole_document_analysis.md:116).
RepairBeforeHuman ==
    \A w \in Windows :
        window[w].category \in {"SCHEMA_REPAIR_EXHAUSTED", "EVIDENCE_REPAIR_EXHAUSTED"} =>
            window[w].repairs >= MaxSchemaRepair

\* A window gets its retries and its repair, no more, and no fewer before it asks for a human.
RetriesExact == WindowBudget /\ RepairBeforeHuman

\* Every run that is opened reaches a terminal status.
RunSettles == run.status = "RUNNING" ~> run.status \notin {"PENDING", "RUNNING"}

\* Workers are threads that keep running, the pipeline loop re-enters run_pending as long as
\* the run is RUNNING, and time passes.
Fairness ==
    /\ \A p \in Workers : WF_vars(Step(p))
    /\ \A p \in Workers : WF_vars(run.status = "RUNNING" /\ Start(p))
    /\ \A w \in Windows : WF_vars(DeadlinePasses(w))

FairSpec == Spec /\ Fairness
=============================================================================

---------------------------- MODULE Gate2Recovery ----------------------------
(***************************************************************************)
(* What follows a complete narrative analysis: the end of _finalize_run.   *)
(* The aggregate is saved and handed to Gate 2 (claim, review, save), an   *)
(* approved bundle goes to the Timeline, and for a rejected one Stage B    *)
(* reruns the windows of single proposals and reviews what they answer.    *)
(*                                                                         *)
(* All windows have succeeded, so every task that enters run_pending comes *)
(* through here.  Tasks overlap, and each keeps payloads it read earlier.  *)
(***************************************************************************)
EXTENDS Naturals, Sequences, FiniteSets

CONSTANTS
    Workers,        \* background tasks of the run
    Diagnostics,    \* the rejected proposals, in the order of recovery_diagnostics
    WindowOf,       \* WindowOf[d]: the leaf window of proposal d; NoWindow if it cannot be rerun
    NoWindow,
    Verdicts,       \* the decisions Gate 2 may come to about the aggregate
    Answers,        \* how a Provider call of Stage B may end
    Merits,         \* what Gate 2 may make of the answer
    Heavy,          \* {FALSE}, or BOOLEAN when a rerun may use up tokens or time
    MaxPerRoot,     \* max_attempts_per_root_run
    MaxRequests,    \* max_provider_requests
    MaxInterrupts   \* bound: tasks that end by a restart or an exception

Proposals == {Diagnostics[i] : i \in 1..Len(Diagnostics)}

MaxClaims == 2

RouteDecision == {"APPROVED", "REJECTED", "NEEDS_HUMAN_REVIEW", "FAILED"}

\* EMPTY is a successful answer without proposals, SCHEMA one of the wrong form.
Answer == {"OK", "EMPTY", "SCHEMA", "FAILED"}

ASSUME RecoveryAssumption ==
    /\ Diagnostics \in Seq(Proposals)
    /\ \A i, j \in 1..Len(Diagnostics) : Diagnostics[i] = Diagnostics[j] => i = j
    /\ DOMAIN WindowOf = Proposals
    /\ "root" \notin Proposals
    /\ Verdicts \subseteq RouteDecision
    /\ Answers \subseteq Answer
    /\ Merits \subseteq RouteDecision
    /\ Heavy \subseteq BOOLEAN
    /\ MaxPerRoot \in Nat /\ MaxRequests \in Nat /\ MaxInterrupts \in Nat

VARIABLES
    run,         \* the run row: status, handoff, Gate 2 artifacts
    aggregate,   \* result_payload is there
    attempt,     \* the recovery attempts, one row per proposal
    timeline,    \* the bundles handed to the Timeline
    verdict,     \* what Gate 2 makes of the aggregate, the same at every review
    pc,          \* where each task stands
    snap,        \* each task's copy of the run payload
    pos,         \* the diagnostic it is at
    job,         \* the attempt payload it is about to save, or holds
    fresh,       \* tasks for which the run row's updated_at is still the one they read
    interrupts,  \* tasks that ended before they were done, so far
    calls,       \* history: Provider calls made for each proposal
    overlapped   \* history: two tasks have been at work at the same time

dbVars == <<run, aggregate, attempt, timeline>>
localVars == <<pc, snap, pos, job, fresh>>
vars == <<run, aggregate, attempt, timeline, verdict, pc, snap, pos, job, fresh, interrupts,
          calls, overlapped>>

-----------------------------------------------------------------------------
(* Payloads *)

\* started says whether started_at lies more than five minutes back; review is NONE or the
\* decision of the stored result and route.
HandoffStatus == {"NONE", "RUNNING", "COMPLETED", "FAILED"}
RunPayload ==
    [status : {"RUNNING", "SUCCEEDED"}, handoff : HandoffStatus, claims : 0..3,
     stale : BOOLEAN, review : {"NONE"} \cup RouteDecision]

AttemptStatus == {"ABSENT", "RESERVED", "RUNNING", "PROVIDER_SUCCEEDED", "REVIEWING", "COMPLETED"}
Outcome == {"NONE"} \cup RouteDecision

\* requests and heavy are the budget usage, limit the directive's max_provider_calls;
\* produced is NONE as long as there is no new AgentRun, else what Gate 2 makes of it.
AttemptPayload ==
    [status : AttemptStatus, limit : 0..2, requests : 0..2, heavy : BOOLEAN,
     produced : Outcome, outcome : Outcome]

NewRun == [status |-> "RUNNING", handoff |-> "NONE", claims |-> 0, stale |-> FALSE, review |-> "NONE"]

NoAttempt == [status |-> "ABSENT", limit |-> 0, requests |-> 0, heavy |-> FALSE,
              produced |-> "NONE", outcome |-> "NONE"]

ReservedAttempt(limit) == [NoAttempt EXCEPT !.status = "RESERVED", !.limit = limit]

RunningAttempt(a) == [a EXCEPT !.status = "RUNNING", !.requests = 1]

\* The payload after used Provider calls, the last of which failed or produced proposals.
AfterProvider(a, produced, used, slow) ==
    [a EXCEPT !.status = IF produced = "NONE" THEN "REVIEWING" ELSE "PROVIDER_SUCCEEDED",
              !.produced = produced,
              !.requests = @ + (used - 1),
              !.heavy = slow]

Reviewing(a) == [a EXCEPT !.status = "REVIEWING"]

Completed(a, outcome) == [a EXCEPT !.status = "COMPLETED", !.outcome = outcome]

\* Slip: an attempt whose Provider answered may go back to the call.
Allowed_Backwards(status) ==
    CASE status = "RESERVED"           -> {"RUNNING"}
      [] status = "RUNNING"            -> {"PROVIDER_SUCCEEDED", "REVIEWING"}
      [] status = "PROVIDER_SUCCEEDED" -> {"REVIEWING"}
      [] OTHER                         -> {"REVIEWING", "COMPLETED"}

\* Slip: a failed rerun has no transition of its own.
Allowed_AnsweredOnly(status) ==
    CASE status = "RESERVED"           -> {"RUNNING"}
      [] status = "RUNNING"            -> {"PROVIDER_SUCCEEDED"}
      [] status = "PROVIDER_SUCCEEDED" -> {"REVIEWING"}
      [] status = "REVIEWING"          -> {"COMPLETED"}
      [] OTHER                         -> {}

\* The transitions save_attempt_transition lets through; a completed attempt is final.
Allowed(status) ==
    CASE status = "RESERVED"           -> {"RUNNING"}
      [] status = "RUNNING"            -> {"PROVIDER_SUCCEEDED", "REVIEWING"}
      [] status = "PROVIDER_SUCCEEDED" -> {"REVIEWING"}
      [] status = "REVIEWING"          -> {"COMPLETED"}
      [] OTHER                         -> {}

\* What claim_gate2_handoff refuses: a review that is stored, a handoff that is completed,
\* one that began less than five minutes ago, and a third attempt.
Claimable(r) ==
    /\ r.review = "NONE"
    /\ r.handoff # "COMPLETED"
    /\ ~(r.handoff = "RUNNING" /\ ~r.stale)
    /\ r.claims < MaxClaims

Claimed(r) == [r EXCEPT !.handoff = "RUNNING", !.claims = @ + 1, !.stale = FALSE]

Reviewed(r) == [r EXCEPT !.handoff = "COMPLETED", !.review = verdict]

Failed(r) == [r EXCEPT !.handoff = "FAILED"]

-----------------------------------------------------------------------------
Init ==
    /\ run = NewRun
    /\ aggregate = FALSE
    /\ attempt = [d \in Proposals |-> NoAttempt]
    /\ timeline = {}
    /\ verdict \in Verdicts
    /\ pc = [p \in Workers |-> "idle"]
    /\ snap = [p \in Workers |-> NewRun]
    /\ pos = [p \in Workers |-> 1]
    /\ job = [p \in Workers |-> NoAttempt]
    /\ fresh = {}
    /\ interrupts = 0
    /\ calls = [d \in Proposals |-> 0]
    /\ overlapped = FALSE

At(p, label) == pc[p] = label

Goto(p, label) == pc' = [pc EXCEPT ![p] = label]

\* run_pending returns or raises: the task's memory is gone.
Stop(p) ==
    /\ Goto(p, "idle")
    /\ snap' = [snap EXCEPT ![p] = NewRun]
    /\ pos' = [pos EXCEPT ![p] = 1]
    /\ job' = [job EXCEPT ![p] = NoAttempt]

Read(p, label) == snap' = [snap EXCEPT ![p] = run] /\ Goto(p, label)

SaveRun(r) == run' = r /\ fresh' = {}

\* The task keeps the payload it saved and goes on at label.
SaveSnap(p, r, label) == SaveRun(r) /\ snap' = [snap EXCEPT ![p] = r] /\ Goto(p, label)

Elsewhere == <<verdict, interrupts, calls>>
Recovering == <<attempt, pos, job>>

-----------------------------------------------------------------------------
(* run_pending opens the run; _finalize_run closes it and saves the aggregate *)

Start(p) ==
    /\ At(p, "idle")
    /\ Read(p, "open")
    /\ overlapped' = (overlapped \/ \E q \in Workers \ {p} : ~At(q, "idle"))
    /\ UNCHANGED <<run, aggregate, timeline, fresh, Recovering, Elsewhere>>

Opened(r) == [r EXCEPT !.status = "RUNNING"]

Open(p) ==
    /\ At(p, "open")
    /\ SaveSnap(p, Opened(snap[p]), "finalize")
    /\ UNCHANGED <<aggregate, timeline, overlapped, Recovering, Elsewhere>>

Finalize(p) ==
    /\ At(p, "finalize")
    /\ Read(p, "verdict")
    /\ UNCHANGED <<run, aggregate, timeline, fresh, overlapped, Recovering, Elsewhere>>

SaveVerdict(p) ==
    /\ At(p, "verdict")
    /\ SaveSnap(p, [snap[p] EXCEPT !.status = "SUCCEEDED"], "aggregate")
    /\ UNCHANGED <<aggregate, timeline, overlapped, Recovering, Elsewhere>>

SaveAggregate(p) ==
    /\ At(p, "aggregate")
    /\ aggregate' = TRUE
    /\ fresh' = {}
    /\ Goto(p, "ready")
    /\ UNCHANGED <<run, timeline, snap, overlapped, Recovering, Elsewhere>>

-----------------------------------------------------------------------------
(* review_if_ready *)

ReviewDue(r) == r.status = "SUCCEEDED" /\ r.review = "NONE" /\ aggregate

Ready(p) ==
    /\ At(p, "ready")
    /\ Read(p, IF ReviewDue(run) THEN "claim" ELSE "timeline")
    /\ UNCHANGED <<run, aggregate, timeline, fresh, overlapped, Recovering, Elsewhere>>

\* claim_gate2_handoff reads the row ...
ReadHandoff(p) ==
    /\ At(p, "claim")
    /\ IF Claimable(run)
       THEN Read(p, "swap") /\ fresh' = fresh \cup {p}
       ELSE Goto(p, "current") /\ UNCHANGED <<snap, fresh>>
    /\ UNCHANGED <<run, aggregate, timeline, overlapped, Recovering, Elsewhere>>

\* ... and replaces it if its updated_at is still the one read.
SwapHandoff(p) ==
    /\ At(p, "swap")
    /\ IF p \in fresh
       THEN SaveSnap(p, Claimed(snap[p]), "review")
       ELSE Goto(p, "current") /\ UNCHANGED <<run, snap, fresh>>
    /\ UNCHANGED <<aggregate, timeline, overlapped, Recovering, Elsewhere>>

\* Without a claim the caller goes on with the row as it is.
Current(p) ==
    /\ At(p, "current")
    /\ Read(p, "timeline")
    /\ UNCHANGED <<run, aggregate, timeline, fresh, overlapped, Recovering, Elsewhere>>

\* The review itself is deterministic; an exception in it leads to fail_gate2_handoff.  Both
\* read the row again and then save it.
Review(p) ==
    /\ At(p, "review")
    /\ \/ Read(p, IF run.review = "NONE" THEN "saveReview" ELSE "timeline")
       \/ Read(p, "saveFailure")
    /\ UNCHANGED <<run, aggregate, timeline, fresh, overlapped, Recovering, Elsewhere>>

SaveReview(p) ==
    /\ At(p, "saveReview")
    /\ SaveSnap(p, Reviewed(snap[p]), "timeline")
    /\ UNCHANGED <<aggregate, timeline, overlapped, Recovering, Elsewhere>>

SaveFailure(p) ==
    /\ At(p, "saveFailure")
    /\ SaveSnap(p, Failed(snap[p]), "timeline")
    /\ UNCHANGED <<aggregate, timeline, overlapped, Recovering, Elsewhere>>

TimelineReady(r) == r.status = "SUCCEEDED" /\ r.review = "APPROVED"

\* _run_timeline_if_approved of the run review_if_ready returned.
RunTimeline(p) ==
    /\ At(p, "timeline")
    /\ timeline' = IF TimelineReady(snap[p]) THEN timeline \cup {"root"} ELSE timeline
    /\ Goto(p, "recover")
    /\ UNCHANGED <<run, aggregate, snap, fresh, overlapped, Recovering, Elsewhere>>

-----------------------------------------------------------------------------
(* Stage B: recover_if_eligible *)

Recover(p) ==
    /\ At(p, "recover")
    /\ IF run.status = "SUCCEEDED" /\ run.review = "REJECTED"
       THEN Goto(p, "pick") ELSE Goto(p, "bundles")
    /\ snap' = [snap EXCEPT ![p] = NewRun]
    /\ UNCHANGED <<run, aggregate, timeline, fresh, overlapped, Recovering, Elsewhere>>

AtDiagnostic(p) == Diagnostics[pos[p]]

\* On to the next diagnostic.
Advance(p) ==
    /\ pos' = [pos EXCEPT ![p] = @ + 1]
    /\ job' = [job EXCEPT ![p] = NoAttempt]
    /\ Goto(p, "pick")

Hold(p, a, label) == job' = [job EXCEPT ![p] = a] /\ Goto(p, label) /\ UNCHANGED pos

Made == {d \in Proposals : attempt[d].status # "ABSENT"}

\* The requests of all attempts: each of them has its first and perhaps its second one here.
RequestsUsed ==
    Cardinality({request \in Proposals \X (1..2) : request[2] <= attempt[request[1]].requests})

\* Slip: the attempts of the window are not counted.
Exhausted_AnyWindow(d) ==
    \/ d \in Made
    \/ Cardinality(Made) >= MaxPerRoot
    \/ \E e \in Made : attempt[e].heavy
    \/ RequestsUsed >= MaxRequests

\* The budgets derive_directive reads: one attempt per proposal and per window, MaxPerRoot
\* for the root run, tokens and time, and the requests of all attempts.
Exhausted(d) ==
    \/ \E e \in Made : e = d \/ WindowOf[e] = WindowOf[d] \/ attempt[e].heavy
    \/ Cardinality(Made) >= MaxPerRoot
    \/ RequestsUsed >= MaxRequests

\* Slip: the requests made so far are forgotten.
CallLimit_Full == 2

CallLimit == IF MaxRequests - RequestsUsed < 2 THEN MaxRequests - RequestsUsed ELSE 2

\* An attempt that is not completed is taken up with its directive; else one is derived.
Pick(p) ==
    /\ At(p, "pick")
    /\ IF pos[p] > Len(Diagnostics)
       THEN Goto(p, "bundles") /\ UNCHANGED <<pos, job>>
       ELSE IF WindowOf[AtDiagnostic(p)] = NoWindow
       THEN Advance(p)
       ELSE Hold(p, NoAttempt,
                 IF attempt[AtDiagnostic(p)].status \in {"ABSENT", "COMPLETED"}
                 THEN "derive" ELSE "reserve")
    /\ UNCHANGED <<dbVars, snap, fresh, overlapped, Elsewhere>>

Derive(p) ==
    /\ At(p, "derive")
    /\ IF Exhausted(AtDiagnostic(p))
       THEN Advance(p)
       ELSE Hold(p, ReservedAttempt(CallLimit), "reserve")
    /\ UNCHANGED <<dbVars, snap, fresh, overlapped, Elsewhere>>

\* The unique key refuses a second row for the same proposal.
Reservable(a) == a.status = "ABSENT"

\* What is taken up without a rerun.
Resumes(a) == a.status = "PROVIDER_SUCCEEDED" \/ (a.status = "REVIEWING" /\ a.produced # "NONE")

\* reserve_attempt: the unique key lets one insert win, and only its task makes the rerun.
Reserve(p) ==
    LET d == AtDiagnostic(p)
        a == attempt[d]
    IN  /\ At(p, "reserve")
        /\ IF Reservable(a)
           THEN /\ attempt' = [attempt EXCEPT ![d] = job[p]]
                /\ Hold(p, RunningAttempt(job[p]), "save")
           ELSE /\ UNCHANGED attempt
                /\ IF ~Resumes(a) THEN Advance(p)
                   ELSE IF a.status = "PROVIDER_SUCCEEDED" THEN Hold(p, Reviewing(a), "save")
                   ELSE Hold(p, a, "judge")
        /\ UNCHANGED <<run, aggregate, timeline, snap, fresh, overlapped, Elsewhere>>

\* save_attempt_transition: a transition that is not allowed raises and ends the task; else the
\* payload replaces the row and the caller goes on from there.
Save(p) ==
    LET d == AtDiagnostic(p)
        a == job[p]
    IN  /\ At(p, "save")
        /\ IF a.status \notin Allowed(attempt[d].status)
           THEN Stop(p) /\ UNCHANGED attempt
           ELSE /\ attempt' = [attempt EXCEPT ![d] = a]
                /\ CASE a.status = "RUNNING"            -> Hold(p, a, "call")
                     [] a.status = "PROVIDER_SUCCEEDED" -> Hold(p, Reviewing(a), "save")
                     [] a.status = "REVIEWING"          ->
                          IF a.produced = "NONE" THEN Hold(p, Completed(a, "FAILED"), "save")
                          ELSE Hold(p, a, "judge")
                     [] OTHER                           -> Advance(p)
                /\ UNCHANGED snap
        /\ UNCHANGED <<run, aggregate, timeline, fresh, overlapped, Elsewhere>>

\* The last of used calls ended with answer.  A successful answer without proposals is
\* refused by the validator of the attempt: the save raises.
Answered(p, answer, used) ==
    IF answer = "EMPTY"
    THEN Stop(p) /\ interrupts' = IF interrupts > MaxInterrupts THEN interrupts ELSE interrupts + 1
    ELSE /\ \E slow \in Heavy, merit \in Merits :
               Hold(p, AfterProvider(job[p], IF answer = "OK" THEN merit ELSE "NONE", used, slow),
                    "save")
         /\ UNCHANGED <<snap, interrupts>>

Called(p) == calls' = [calls EXCEPT ![AtDiagnostic(p)] = @ + 1]

\* _rerun_stage_b_directive: the evidence repair, and one format repair if the limit allows.
Call(p) ==
    /\ At(p, "call")
    /\ Called(p)
    /\ \E answer \in Answers :
          IF answer = "SCHEMA" /\ job[p].limit >= 2
          THEN Hold(p, job[p], "repair") /\ UNCHANGED <<snap, interrupts>>
          ELSE Answered(p, answer, 1)
    /\ UNCHANGED <<dbVars, verdict, fresh, overlapped>>

Repair(p) ==
    /\ At(p, "repair")
    /\ Called(p)
    /\ \E answer \in Answers : Answered(p, answer, 2)
    /\ UNCHANGED <<dbVars, verdict, fresh, overlapped>>

\* _review_existing: a fresh, deterministic Gate 2 review of the new proposals.
Judge(p) ==
    /\ At(p, "judge")
    /\ Hold(p, Completed(job[p], job[p].produced), "save")
    /\ UNCHANGED <<dbVars, snap, fresh, overlapped, Elsewhere>>

\* _run_recovery_timelines: the approved bundles of completed attempts.
Bundles(p) ==
    /\ At(p, "bundles")
    /\ timeline' = IF run.status = "SUCCEEDED"
                   THEN timeline \cup {d \in Proposals : attempt[d].outcome = "APPROVED"}
                   ELSE timeline
    /\ Stop(p)
    /\ UNCHANGED <<run, aggregate, attempt, fresh, overlapped, Elsewhere>>

-----------------------------------------------------------------------------
(* The environment *)

\* A task ends between two steps: a restart of the service, or an exception.
Interrupt(p) ==
    /\ interrupts < MaxInterrupts
    /\ ~At(p, "idle")
    /\ interrupts' = interrupts + 1
    /\ Stop(p)
    /\ UNCHANGED <<dbVars, verdict, fresh, calls, overlapped>>

Aged(r) == IF r.handoff = "RUNNING" THEN [r EXCEPT !.stale = TRUE] ELSE r

\* Five minutes go by.
TimePasses ==
    /\ Aged(run) # run
    /\ run' = Aged(run)
    /\ snap' = [p \in Workers |-> Aged(snap[p])]
    /\ UNCHANGED <<aggregate, attempt, timeline, verdict, pc, pos, job, fresh, interrupts, calls,
                   overlapped>>

Step(p) ==
    \/ Open(p) \/ Finalize(p) \/ SaveVerdict(p) \/ SaveAggregate(p)
    \/ Ready(p) \/ ReadHandoff(p) \/ SwapHandoff(p) \/ Current(p) \/ Review(p) \/ SaveReview(p)
    \/ SaveFailure(p) \/ RunTimeline(p)
    \/ Recover(p) \/ Pick(p) \/ Derive(p) \/ Reserve(p) \/ Save(p) \/ Call(p)
    \/ Repair(p) \/ Judge(p) \/ Bundles(p)

Next ==
    \/ \E p \in Workers : Start(p) \/ Step(p) \/ Interrupt(p)
    \/ TimePasses

Spec == Init /\ [][Next]_vars

\* Tasks are threads that go on, time passes, and a run is entered again (the resume action).
Fairness ==
    /\ \A p \in Workers : WF_vars(Step(p)) /\ WF_vars(Start(p))
    /\ WF_vars(TimePasses)

FairSpec == Spec /\ Fairness

-----------------------------------------------------------------------------
(* Properties *)

Labels == {"idle", "open", "finalize", "verdict", "aggregate", "ready", "claim", "swap",
           "current", "review", "saveReview", "saveFailure", "timeline", "recover", "pick",
           "derive", "reserve", "save", "call", "repair", "judge", "bundles"}

\* Type correctness of the rows and of what the tasks hold.
TypeOK ==
    /\ run \in RunPayload
    /\ aggregate \in BOOLEAN
    /\ attempt \in [Proposals -> AttemptPayload]
    /\ timeline \subseteq Proposals \cup {"root"}
    /\ verdict \in RouteDecision
    /\ pc \in [Workers -> Labels]
    /\ snap \in [Workers -> RunPayload]
    /\ pos \in [Workers -> 1..(Len(Diagnostics) + 1)]
    /\ job \in [Workers -> AttemptPayload]
    /\ fresh \subseteq Workers
    /\ interrupts \in 0..(MaxInterrupts + 1)
    /\ calls \in [Proposals -> Nat]
    /\ overlapped \in BOOLEAN

\* However many tasks are at it, a window is rerun at most once and a root run at most
\* MaxPerRoot times, though each task counts the attempts in one transaction and inserts its
\* own in another (derive_directive, reserve_attempt; docs/architecture.md:89).
AttemptBudget ==
    /\ \A d, e \in Made : WindowOf[d] = WindowOf[e] => d = e
    /\ Cardinality(Made) <= MaxPerRoot

\* "One key yields at most one such bounded recovery execution" (docs/architecture.md:96): no
\* task repeats the calls of another, nor does a resume after an interruption.
RerunOnce == \A d \in Proposals : calls[d] <= attempt[d].limit

\* Once the Provider has answered, its calls are on the books, so the next directive sees them.
CallsOnTheBooks ==
    \A d \in Proposals :
        attempt[d].status \in {"PROVIDER_SUCCEEDED", "REVIEWING", "COMPLETED"} =>
            attempt[d].requests = calls[d]

\* The requests on the books stay within the budget as long as no two tasks overlap: each
\* directive's limit leaves room for its own calls (two tasks would derive their limits from
\* the same remainder).
RequestBudget == ~overlapped => RequestsUsed <= MaxRequests

\* Without overlap a stored Gate 2 audit is never replaced or lost ("Resume/re-entry does not
\* rerun a persisted valid Gate 2 audit", docs/whole_document_analysis.md:350).
AuditKept ==
    [][run.review # "NONE" /\ ~overlapped' =>
          run'.review = run.review /\ run'.handoff = run.handoff]_vars

\* Without overlap Gate 2 is tried at most twice, over all interruptions and resumes.
HandoffBudget == ~overlapped => run.claims <= 2

\* "terminal recovery attempt cannot be overwritten" (the refusal of save_attempt_transition):
\* with any number of tasks that resume the same attempt, its outcome stands.
OutcomeFinal ==
    [][\A d \in Proposals : attempt[d].status = "COMPLETED" => attempt'[d] = attempt[d]]_vars

\* Only what a Gate 2 review approved reaches the Timeline; the rejected root never does.
OnlyApprovedGoOn ==
    /\ "root" \in timeline => verdict = "APPROVED"
    /\ \A d \in timeline \cap Proposals :
          verdict = "REJECTED" /\ attempt[d].produced = "APPROVED"

\* An aggregate that is saved gets its review, unless tasks overlap or a task is interrupted or
\* fails twice.
GetsReviewed ==
    aggregate ~> run.review # "NONE" \/ run.claims = MaxClaims \/ overlapped

\* A reserved rerun comes to its outcome, unless a task ends early, be it interrupted or
\* because of an empty answer.
RerunEnds ==
    \A d \in Proposals :
        attempt[d].status = "RESERVED" ~>
            attempt[d].status = "COMPLETED" \/ interrupts > 0 \/ overlapped

\* However many tasks recover a run, a rerun is attempted, paid and counted once, and the
\* Timeline gets what a review approved.
RecoverySound == TypeOK /\ AttemptBudget /\ RerunOnce /\ CallsOnTheBooks /\ OnlyApprovedGoOn

\* A stored audit and the outcome of an attempt are final.
OutcomesStand == OutcomeFinal /\ AuditKept

\* One task after the other keeps every budget, over interruptions and resumes.
BudgetsKept == AttemptBudget /\ RequestBudget /\ HandoffBudget

\* What was begun is brought to its end.
WorkEnds == GetsReviewed /\ RerunEnds
=============================================================================

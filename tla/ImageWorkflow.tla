---------------------------- MODULE ImageWorkflow ----------------------------
(***************************************************************************)
(* run_workflow: one execution of an image job in a directory of its own.  *)
(* Identity anchors first, then the shots in continuity order; each target *)
(* has a few tries at the backend, a shot is then judged by the visual QA, *)
(* and a rejected one is moved away and drawn anew a bounded number of     *)
(* times.  result.json is rewritten as the execution goes on.              *)
(***************************************************************************)
EXTENDS ImagePlan

CONSTANTS
    Workers,      \* queue worker processes
    Plans,        \* the continuity parents the compiled job may have
    Anchors,      \* number of identity anchors
    Attempts,     \* generation.attempts
    VisualQA,     \* visual_qa.enabled
    MaxRepairs,   \* visual_qa.max_auto_repairs
    MaxRuns       \* bound: executions

ASSUME WorkflowAssumption ==
    /\ \A p \in Plans : p \in Seq(Nat) \ {<<>>} /\ Buildable(p)
    /\ Anchors \in Nat /\ MaxRepairs \in Nat /\ MaxRuns \in Nat
    /\ Attempts \in Nat \ {0} /\ VisualQA \in BOOLEAN

VARIABLES
    plan,   \* the parents of the job's shots, and all its targets in execution order
    runs,   \* the run directories, in the order they were made
    at      \* where each worker stands

\* build_plan.  The anchors have the numbers after the shots and are drawn first.
WorkflowPlan(p) ==
    [parent |-> p, order |-> [i \in 1..Anchors |-> Len(p) + i] \o Order(p)]

Shots == DOMAIN plan.parent
Parent(s) == plan.parent[s]
Targets == plan.order

IsShot(t) == t \in Shots

\* result.json: its status and the targets recorded as succeeded; and, as history, the shots
\* whose file shot_id.png is one that passed the visual QA.
Directory(p) ==
    [status : {"running", "succeeded", "failed"}, done : SUBSET (1..(Len(p) + Anchors)),
     passed : SUBSET (1..Len(p))]

NewDirectory == [status |-> "running", done |-> {}, passed |-> {}]

Step == {"off", "idle", "open", "draw", "judge", "sheet", "succeed", "fail"}

\* The target a worker is at, its tries since the last repair, its repairs, and its calls in all.
Standing == [step : Step, run : 0..MaxRuns, next : Nat, tries : Nat, repairs : Nat, calls : Nat]

Stand(step, r) ==
    [step |-> step, run |-> r, next |-> 1, tries |-> 0, repairs |-> 0, calls |-> 0]

-----------------------------------------------------------------------------
(* The execution in directory r by worker w *)

Run(w) == at[w].run

Target(w) == Targets[at[w].next]

\* create_run_directory, plan and request saved, result "running".
Open(w) ==
    /\ at[w].step = "open"
    /\ runs' = Append(runs, NewDirectory)
    /\ at' = [at EXCEPT ![w] = Stand("draw", Len(runs) + 1)]
    /\ UNCHANGED plan

\* An exception ends the execution: result "failed", and it is raised again.
Abort(w) ==
    /\ runs' = [runs EXCEPT ![Run(w)].status = "failed"]
    /\ at' = [at EXCEPT ![w] = Stand("fail", 0)]

\* On to the next target, or to the contact sheet.
Further(w) ==
    IF at[w].next = Len(Targets)
    THEN Stand("sheet", Run(w))
    ELSE [Stand("draw", Run(w)) EXCEPT !.next = at[w].next + 1]

\* The target is recorded as succeeded with its output.
Accept(w) ==
    /\ runs' = [runs EXCEPT ![Run(w)].done = @ \cup {Target(w)},
                            ![Run(w)].passed = @ \cup ({Target(w)} \cap Shots)]
    /\ at' = [at EXCEPT ![w] = Further(w)]

ParentReady(w) ==
    IsShot(Target(w)) /\ Parent(Target(w)) # None => Parent(Target(w)) \in runs[Run(w)].done

Draws(w) ==
    /\ at[w].step = "draw"
    /\ ParentReady(w)
    /\ IF IsShot(Target(w)) /\ VisualQA
       THEN /\ runs' = [runs EXCEPT ![Run(w)].passed = @ \ {Target(w)}]
            /\ at' = [at EXCEPT ![w] = [at[w] EXCEPT !.step = "judge", !.tries = 0, !.calls = @ + 1]]
       ELSE Accept(w)
    /\ UNCHANGED plan

\* The backend raises: the next try, or the end.
DrawFails(w) ==
    /\ at[w].step = "draw"
    /\ IF ParentReady(w) /\ at[w].tries + 1 < Attempts
       THEN /\ at' = [at EXCEPT ![w] = [at[w] EXCEPT !.tries = @ + 1, !.calls = @ + 1]]
            /\ UNCHANGED runs
       ELSE Abort(w)
    /\ UNCHANGED plan

JudgedGood(w) ==
    /\ at[w].step = "judge"
    /\ Accept(w)
    /\ UNCHANGED plan

\* Slip: the last repair is accepted as it is.
JudgedBad_Lenient(w) ==
    /\ at[w].step = "judge"
    /\ IF at[w].repairs < MaxRepairs
       THEN /\ at' = [at EXCEPT ![w] = [at[w] EXCEPT !.step = "draw", !.tries = 0, !.repairs = @ + 1]]
            /\ UNCHANGED runs
       ELSE /\ runs' = [runs EXCEPT ![Run(w)].done = @ \cup {Target(w)}]
            /\ at' = [at EXCEPT ![w] = Further(w)]
    /\ UNCHANGED plan

\* The candidate is moved away for a repair, or fails the execution and stays where it is.
JudgedBad(w) ==
    /\ at[w].step = "judge"
    /\ IF at[w].repairs < MaxRepairs
       THEN /\ at' = [at EXCEPT ![w] = [at[w] EXCEPT !.step = "draw", !.tries = 0, !.repairs = @ + 1]]
            /\ UNCHANGED runs
       ELSE Abort(w)
    /\ UNCHANGED plan

\* create_contact_sheet, and the end of the execution.
Sheet(w) ==
    /\ at[w].step = "sheet"
    /\ \/ /\ runs' = [runs EXCEPT ![Run(w)].status = "succeeded"]
          /\ at' = [at EXCEPT ![w] = Stand("succeed", Run(w))]
       \/ Abort(w)
    /\ UNCHANGED plan

RunWorkflow(w) ==
    Open(w) \/ Draws(w) \/ DrawFails(w) \/ JudgedGood(w) \/ JudgedBad(w) \/ Sheet(w)

-----------------------------------------------------------------------------
(* Properties *)

\* A shot is drawn only when the image it continues has been accepted in the same run: the
\* RuntimeError "continuity source ... is not available" is never raised, and no candidate
\* the visual QA rejected serves as a reference.
ParentAccepted ==
    \A w \in Workers : at[w].step = "draw" /\ IsShot(Target(w)) /\ Parent(Target(w)) # None =>
        Parent(Target(w)) \in runs[Run(w)].passed

\* Retries and repairs multiply, and stop there: an anchor costs at most Attempts calls of the
\* backend, a shot Attempts * (MaxRepairs + 1), in every execution.
CallsBounded ==
    \A w \in Workers :
        /\ at[w].step = "draw" =>
              at[w].calls < IF IsShot(Target(w)) THEN Attempts * (MaxRepairs + 1) ELSE Attempts
        /\ at[w].calls <= Attempts * (MaxRepairs + 1)
=============================================================================

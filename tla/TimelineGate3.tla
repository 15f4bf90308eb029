---------------------------- MODULE TimelineGate3 ----------------------------
(***************************************************************************)
(* The Timeline / Gate 3 run of one Gate 2 approved bundle: one row, the   *)
(* workers that drive it (run_if_approved, then recover after a rejection) *)
(* and the people who resolve a held review.                               *)
(*                                                                         *)
(* The row's status doubles as the lock: a conditional update moves it to  *)
(* RUNNING, RECOVERY_RUNNING or REVIEWING for one worker.  Each of those   *)
(* updates compares the status only, and writes the payload its caller     *)
(* read some time before.                                                  *)
(***************************************************************************)
EXTENDS Naturals, FiniteSets

CONSTANTS
    Workers,      \* background tasks that reach the Timeline stage of the bundle
    Reviewers,    \* requests to resolve a held run
    Qualities,    \* what a Timeline proposal can be worth to Gate 3
    MaxAttempts,  \* max_attempts of the recovery budget
    MaxCalls,     \* bound: Provider calls in all
    MaxRestarts   \* bound: service restarts

\* No issue; only ambiguous orderings; only recoverable blocking issues; other blocking
\* issues; a proposal the deterministic review raises on.
Quality == {"SOUND", "AMBIGUOUS", "FIXABLE", "UNFIXABLE", "UNREVIEWABLE"}

ASSUME ConstantsAssumption ==
    /\ Qualities \subseteq Quality
    /\ MaxAttempts \in Nat
    /\ MaxCalls \in Nat
    /\ MaxRestarts \in Nat

VARIABLES
    row,        \* the run row
    audits,     \* the AgentRun records saved for it
    pc,         \* where each worker stands
    copy,       \* the run payload a worker holds
    recovery,   \* the workers that are inside recover
    hold,       \* the payload a reviewer read, with the resolution asked for
    calls,      \* history: Provider calls of the initial run and of recoveries
    restarts,   \* service restarts so far
    usable      \* whether the approved bundle makes a Timeline input

vars == <<row, audits, pc, copy, recovery, hold, calls, restarts, usable>>

-----------------------------------------------------------------------------
(* The run payload *)

Terminal == {"APPROVED", "REJECTED", "NEEDS_HUMAN_REVIEW", "FAILED"}
Status == {"ABSENT", "RESERVED", "RUNNING", "PROVIDER_SUCCEEDED", "REVIEWING",
           "RECOVERY_RUNNING"} \cup Terminal

\* attempt is 0 for the initial call and n for the n-th recovery: the AgentRun ids of the
\* proposal and of its review are made from it.
Proposal == [id : Nat, quality : Quality \cup {"NONE"}, attempt : Nat]
NoProposal == [id |-> 0, quality |-> "NONE", attempt |-> 0]

Resolution == {"APPROVED", "REJECTED"}

\* judged is the proposal gate3_result is about, human its human_review, bundle the proposal
\* the approved bundle was built from, initial the rejected proposal a recovery keeps.
Run == [status : Status, proposal : Proposal, judged : Proposal,
        human : Resolution \cup {"NONE"}, bundle : Nat, attempts : Nat, initial : Nat]

AbsentRun == [status |-> "ABSENT", proposal |-> NoProposal, judged |-> NoProposal,
              human |-> "NONE", bundle |-> 0, attempts |-> 0, initial |-> 0]

ReservedRun == [AbsentRun EXCEPT !.status = "RESERVED"]

\* A run a human approved before the bundle was stored with the approval.
HeldProposal == [id |-> 1, quality |-> "AMBIGUOUS", attempt |-> 0]
BundlelessRun ==
    [AbsentRun EXCEPT !.status = "APPROVED", !.proposal = HeldProposal,
                      !.judged = HeldProposal, !.human = "APPROVED"]

\* Blocking issues reject, others are held for a human, an exception fails the review.
Decision(quality) ==
    CASE quality = "SOUND"                    -> "APPROVED"
      [] quality = "AMBIGUOUS"                -> "NEEDS_HUMAN_REVIEW"
      [] quality \in {"FIXABLE", "UNFIXABLE"} -> "REJECTED"
      [] OTHER                                -> "FAILED"

\* Slip: a bundle is built from the proposal the row holds, whatever was judged.
Judged_OtherBundle(r, proposal) ==
    [r EXCEPT !.status = Decision(proposal.quality),
              !.judged = proposal,
              !.human = "NONE",
              !.bundle = IF Decision(proposal.quality) = "APPROVED" THEN r.initial ELSE 0]

\* The row a worker re-read, with the review of the proposal the worker holds.
Judged(r, proposal) ==
    [r EXCEPT !.status = Decision(proposal.quality),
              !.judged = proposal,
              !.human = "NONE",
              !.bundle = IF Decision(proposal.quality) = "APPROVED" THEN proposal.id ELSE 0]

Resolved(r, resolution) ==
    [r EXCEPT !.status = resolution,
              !.human = resolution,
              !.bundle = IF resolution = "APPROVED" THEN r.proposal.id ELSE 0]

\* Slip: the rejection is not kept.
Recovering_Forgetful(r) == [r EXCEPT !.status = "RECOVERY_RUNNING", !.attempts = @ + 1]

Recovering(r) ==
    [r EXCEPT !.status = "RECOVERY_RUNNING", !.attempts = @ + 1, !.initial = r.proposal.id]

Recoverable(r) ==
    /\ r.status = "REJECTED"
    /\ r.attempts < MaxAttempts
    /\ r.judged.quality = "FIXABLE"

\* What save_transition stores over the row r.
Transition(r, new) ==
    IF /\ r.status \in Terminal
       /\ r.status # new.status
       /\ ~(r.status = "REJECTED" /\ new.initial # 0)
    THEN r ELSE new

-----------------------------------------------------------------------------
Init ==
    /\ row \in {AbsentRun, BundlelessRun}
    /\ audits = {}
    /\ pc = [p \in Workers |-> "idle"]
    /\ copy = [p \in Workers |-> AbsentRun]
    /\ recovery = {}
    /\ hold = [h \in Reviewers |-> [run |-> AbsentRun, resolution |-> "REJECTED"]]
    /\ calls = [initial |-> 0, recovery |-> 0]
    /\ restarts = 0
    /\ usable \in BOOLEAN
    /\ row = BundlelessRun => usable

At(p, label) == pc[p] = label

\* Worker p keeps the payload r and goes on at label.
Goto(p, label, r) ==
    /\ pc' = [pc EXCEPT ![p] = label]
    /\ copy' = [copy EXCEPT ![p] = r]

Leave(p) == Goto(p, "idle", AbsentRun) /\ recovery' = recovery \ {p}

\* run_if_approved or recover returns r; the caller follows a first rejection up.
Return(p, r) ==
    IF r.status = "REJECTED" /\ p \notin recovery
    THEN Goto(p, "recover", AbsentRun) /\ UNCHANGED recovery
    ELSE Leave(p)

-----------------------------------------------------------------------------
(* run_if_approved *)

\* reserve_run: the unique key makes one insert win; everyone else reads the winner's row.
Reserve(p) ==
    LET r == IF row.status = "ABSENT" THEN ReservedRun ELSE row IN
    /\ At(p, "idle")
    /\ row' = r
    /\ IF r.status \in Terminal \cup {"RUNNING"}
       THEN Return(p, r)
       ELSE /\ Goto(p, IF r.status \in {"PROVIDER_SUCCEEDED", "REVIEWING"}
                       THEN "review" ELSE "claimProvider", r)
            /\ UNCHANGED recovery
    /\ UNCHANGED <<audits, hold, calls, restarts, usable>>

ProviderFree == row.status = "RESERVED"

\* The approved bundle holds no event, no state change and no claim of a fact (claims of belief
\* and evaluation are left out): the adapter raises before the claim, outside any try.  The task
\* ends and the row stays reserved.
AdapterRaises(p) ==
    /\ At(p, "claimProvider")
    /\ ~usable
    /\ Leave(p)
    /\ UNCHANGED <<row, audits, hold, calls, restarts, usable>>

ClaimProvider(p) ==
    /\ At(p, "claimProvider")
    /\ usable
    /\ IF ProviderFree
       THEN /\ row' = [copy[p] EXCEPT !.status = "RUNNING"]
            /\ Goto(p, "reread", copy[p])
            /\ UNCHANGED recovery
       ELSE Return(p, row) /\ UNCHANGED row
    /\ UNCHANGED <<audits, hold, calls, restarts, usable>>

\* The claimed row is read again before the Provider is called.
Reread(p) ==
    /\ At(p, "reread")
    /\ Goto(p, "call", row)
    /\ UNCHANGED <<row, audits, recovery, hold, calls, restarts, usable>>

Calling(p) ==
    /\ At(p, "call")
    /\ calls.initial + calls.recovery < MaxCalls
    /\ calls' = IF p \in recovery THEN [calls EXCEPT !.recovery = @ + 1]
                                  ELSE [calls EXCEPT !.initial = @ + 1]

ProviderAnswers(p) ==
    /\ Calling(p)
    /\ \E quality \in Qualities :
          Goto(p, "audit",
               [copy[p] EXCEPT !.status = "PROVIDER_SUCCEEDED",
                               !.proposal = [id |-> calls.initial + calls.recovery + 1,
                                             quality |-> quality, attempt |-> copy[p].attempts]])
    /\ UNCHANGED <<row, audits, recovery, hold, restarts, usable>>

\* Slip: the failure is not saved.
FailureStatus_Lost == "RUNNING"

FailureStatus == "FAILED"

ProviderFails(p) ==
    /\ Calling(p)
    /\ Goto(p, "save", [copy[p] EXCEPT !.status = FailureStatus])
    /\ UNCHANGED <<row, audits, recovery, hold, restarts, usable>>

\* save_agent_run under an id that is taken raises: the task ends and the row stays behind.
Audit(p, record, label) ==
    /\ IF record \in audits
       THEN Leave(p) /\ UNCHANGED audits
       ELSE /\ audits' = audits \cup {record}
            /\ Goto(p, label, copy[p])
            /\ UNCHANGED recovery
    /\ UNCHANGED <<row, hold, calls, restarts, usable>>

AuditAnswer(p) == At(p, "audit") /\ Audit(p, <<"timeline", copy[p].attempts>>, "save")

SaveAnswer(p) ==
    LET r == Transition(row, copy[p]) IN
    /\ At(p, "save")
    /\ row' = r
    /\ IF copy[p].status = "PROVIDER_SUCCEEDED"
       THEN Goto(p, "review", r) /\ UNCHANGED recovery
       ELSE Return(p, r)
    /\ UNCHANGED <<audits, hold, calls, restarts, usable>>

-----------------------------------------------------------------------------
(* _review *)

\* Slip: an interrupted review is taken up again.
ReviewFree_Interrupted == row.status \in {"PROVIDER_SUCCEEDED", "REVIEWING"}

ReviewFree == row.status = "PROVIDER_SUCCEEDED"

ClaimReview(p) ==
    /\ At(p, "review")
    /\ IF copy[p].proposal # NoProposal /\ ReviewFree
       THEN /\ row' = [copy[p] EXCEPT !.status = "REVIEWING"]
            /\ Goto(p, "auditReview", copy[p])
            /\ UNCHANGED recovery
       ELSE /\ Return(p, IF copy[p].proposal = NoProposal THEN copy[p] ELSE row)
            /\ UNCHANGED row
    /\ UNCHANGED <<audits, hold, calls, restarts, usable>>

AuditReview(p) ==
    At(p, "auditReview") /\ Audit(p, <<"gate3", copy[p].proposal.attempt>>, "judge")

Judge(p) ==
    LET r == Transition(row, Judged(row, copy[p].proposal)) IN
    /\ At(p, "judge")
    /\ row' = r
    /\ Return(p, r)
    /\ UNCHANGED <<audits, hold, calls, restarts, usable>>

-----------------------------------------------------------------------------
(* recover *)

ReadRejection(p) ==
    /\ At(p, "recover")
    /\ IF Recoverable(row)
       THEN Goto(p, "claimRecovery", row) /\ UNCHANGED recovery
       ELSE Leave(p)
    /\ UNCHANGED <<row, audits, hold, calls, restarts, usable>>

ClaimRecovery(p) ==
    /\ At(p, "claimRecovery")
    /\ IF row.status = "REJECTED"
       THEN /\ row' = Recovering(copy[p])
            /\ Goto(p, "reread", copy[p])
            /\ recovery' = recovery \cup {p}
       ELSE Leave(p) /\ UNCHANGED row
    /\ UNCHANGED <<audits, hold, calls, restarts, usable>>

-----------------------------------------------------------------------------
(* review_gate3_run *)

\* The run is held by Gate 3, or already approved by the same person without a bundle.
Resolvable(r, resolution) ==
    \/ r.status = "NEEDS_HUMAN_REVIEW"
    \/ r.status = "APPROVED" /\ r.human = "APPROVED" /\ r.bundle = 0 /\ resolution = "APPROVED"

ReadHold(h, resolution) ==
    /\ hold[h].run = AbsentRun
    /\ Resolvable(row, resolution)
    /\ hold' = [hold EXCEPT ![h] = [run |-> row, resolution |-> resolution]]
    /\ UNCHANGED <<row, audits, pc, copy, recovery, calls, restarts, usable>>

\* Slip: the resolution is stored whatever the run's status is by now.
Unresolved_Ignored(r) == TRUE

Unresolved(r) == row.status = r.status

\* apply_human_review and finalize_human_approval: both conditional on the status read.
Resolve(h) ==
    LET r == hold[h].run IN
    /\ r # AbsentRun
    /\ row' = IF Unresolved(r) THEN Resolved(r, hold[h].resolution) ELSE row
    /\ hold' = [hold EXCEPT ![h].run = AbsentRun]
    /\ UNCHANGED <<audits, pc, copy, recovery, calls, restarts, usable>>

-----------------------------------------------------------------------------
\* Workers and requests are threads of the service: a restart ends all of them.
Restart ==
    /\ restarts < MaxRestarts
    /\ restarts' = restarts + 1
    /\ pc' = [p \in Workers |-> "idle"]
    /\ copy' = [p \in Workers |-> AbsentRun]
    /\ recovery' = {}
    /\ hold' = [h \in Reviewers |-> [run |-> AbsentRun, resolution |-> "REJECTED"]]
    /\ UNCHANGED <<row, audits, calls, usable>>

Step(p) ==
    \/ AdapterRaises(p) \/ ClaimProvider(p) \/ Reread(p) \/ ProviderAnswers(p) \/ ProviderFails(p)
    \/ AuditAnswer(p) \/ SaveAnswer(p) \/ ClaimReview(p) \/ AuditReview(p) \/ Judge(p)
    \/ ReadRejection(p) \/ ClaimRecovery(p)

Next ==
    \/ \E p \in Workers : Reserve(p) \/ Step(p)
    \/ \E h \in Reviewers : Resolve(h) \/ \E resolution \in Resolution : ReadHold(h, resolution)
    \/ Restart

Spec == Init /\ [][Next]_vars

-----------------------------------------------------------------------------
(* Properties *)

Labels == {"idle", "claimProvider", "reread", "call", "audit", "save", "review", "auditReview",
           "judge", "recover", "claimRecovery"}

\* Type correctness of the run row and of every copy of it.
TypeOK ==
    /\ row \in Run
    /\ audits \subseteq {"timeline", "gate3"} \X Nat
    /\ pc \in [Workers -> Labels]
    /\ copy \in [Workers -> Run]
    /\ recovery \subseteq Workers
    /\ hold \in [Reviewers -> [run : Run, resolution : Resolution]]
    /\ calls \in [initial : Nat, recovery : Nat]
    /\ restarts \in 0..MaxRestarts
    /\ usable \in BOOLEAN

\* Between a claim and the save that ends it.
InProvider == {"reread", "call", "audit", "save"}
InReview == {"auditReview", "judge"}

Holds(p) == pc[p] \in InProvider \cup InReview

HeldStatus(p) ==
    IF pc[p] \in InReview THEN "REVIEWING"
    ELSE IF p \in recovery THEN "RECOVERY_RUNNING" ELSE "RUNNING"

\* The status is a lock: one worker at a time is in the Provider call or in the review, the row
\* says so to everyone else, and what the worker saves at the end never meets an outcome some
\* other step stored meanwhile (save_transition has nothing to refuse).
HeldRun ==
    /\ \A p \in Workers : Holds(p) => row.status = HeldStatus(p)
    /\ \A p, q \in Workers : Holds(p) /\ Holds(q) => p = q

\* "exactly one caller may invoke Provider" (claim_provider): however often the stage is entered,
\* by however many workers, across restarts, the initial Timeline call is made at most once.
ProviderOnce == calls.initial <= 1

\* However often and by however many tasks the stage is entered, it runs once at a time and
\* pays for its call once.
StageExclusive == TypeOK /\ HeldRun /\ ProviderOnce

\* What the row decides is about the proposal it holds: a stale payload written back never joins
\* one proposal to the review of another, and StoryBible only ever gets a bundle of a proposal
\* that Gate 3 or a human approved.
VerdictOnProposal ==
    /\ row.status \in {"APPROVED", "REJECTED", "NEEDS_HUMAN_REVIEW"} => row.judged = row.proposal
    /\ row.bundle # 0 =>
          /\ row.status = "APPROVED"
          /\ row.bundle = row.proposal.id
          /\ row.proposal.quality = "SOUND" \/ row.human = "APPROVED"

\* An approval is final: no late worker and no second reviewer withdraws it or replaces the
\* Timeline it approved.
ApprovedKept ==
    [][row.status = "APPROVED" =>
          /\ row'.status = "APPROVED"
          /\ row'.proposal = row.proposal
          /\ row.bundle # 0 => row'.bundle = row.bundle]_vars

\* A human resolution is final.
HumanFinal ==
    [][row.human # "NONE" => row'.human = row.human /\ row'.status = row.status]_vars

\* "the single budgeted recovery slot" (claim_recovery): the Timeline is rerun for a rejection
\* no more often than the persisted budget says.
RecoveryBudget == calls.recovery <= MaxAttempts

\* "initial rejected Timeline artifacts must be retained together": a run that was recovered
\* still shows the proposal Gate 3 rejected first.
RejectionRetained == row.attempts > 0 => row.initial = 1

\* The one recovery a budget allows is made once and hides nothing.
RecoveryAccounted == RecoveryBudget /\ RejectionRetained

\* A reserved run whose bundle makes a Timeline input gets its verdict, unless the service is
\* restarted.  A bundle that makes none is left reserved by every task that takes it up.
TimelineSettles ==
    row.status = "RESERVED" /\ usable ~> row.status \in Terminal \/ restarts > 0

\* A reserved run gets its verdict, and a human's decision of it stands.
VerdictComes == TimelineSettles /\ HumanFinal

\* Workers are threads that keep running, and the run is taken up again after a restart.
Fairness ==
    \A p \in Workers :
        WF_vars(Step(p)) /\ WF_vars(row.status \in Status \ Terminal /\ Reserve(p))

FairSpec == Spec /\ Fairness
=============================================================================

------------------------------ MODULE StoryBible ------------------------------
(***************************************************************************)
(* From an approved Timeline bundle to a frozen StoryBible of one project: *)
(* production run and Curator call, review, freeze, and the commit of      *)
(* plans to the canonical resources, next to plans that people commit      *)
(* through the API.                                                        *)
(*                                                                         *)
(* Each action is one transaction (or one Curator call) of run_storybible, *)
(* of a repeated freeze or of a commit request; any number of workers may  *)
(* be at any of them, and a restart may end each between two actions.      *)
(***************************************************************************)
EXTENDS Naturals

CONSTANTS
    Workers,      \* background tasks and request threads
    Bundles,      \* approved Timeline bundles
    Resources,    \* ids of canonical resources
    Names,        \* the identities they may claim
    Drafts,       \* plans a Curator may write: functions from resources to rows
    Merit,        \* Merit[d]: what the review makes of draft d on its own
    ApiPlans,     \* ids of plans curated through the API
    MaxInterrupts \* bound: tasks that end by a restart or an exception

NoRow == [rev |-> 0, name |-> "none"]
Row == [rev : Nat, name : Names]
Decision == {"APPROVE", "NEEDS_HUMAN_REVIEW", "REJECT"}

\* A production run is identified by its inputs: the bundle and the hash of the canonical
\* snapshot it was prepared from.
Snapshots == [Resources -> Row \cup {NoRow}]
Keys == Bundles \X Snapshots
Base(k) == k[2]
NoKey == <<>>

ASSUME StoryBibleAssumption ==
    /\ "none" \notin Names
    /\ \A d \in Drafts :
        /\ DOMAIN d \subseteq Resources
        /\ \A r \in DOMAIN d : d[r] \in Row /\ d[r].rev # 0
    /\ Merit \in [Drafts -> Decision]
    /\ \A id \in ApiPlans : id \notin Keys /\ id # NoKey
    /\ MaxInterrupts \in Nat

VARIABLES
    canonical,   \* the canonical rows
    runs,        \* production runs by key
    audits,      \* the Curator's AgentRun of each key
    reviews,     \* reviews by key
    plans,       \* commit plans: candidate or committed
    pc,          \* where each worker stands
    key,         \* the production run, or the API plan, it is about
    context,     \* the snapshot it read first
    draft,       \* the proposal it holds
    seen,        \* workers that saw a row of their plan before they write it
    interrupts,  \* tasks that ended before they were done, so far
    calls,       \* history: Curator calls by key
    stale,       \* workers that validated their plan against rows that changed since
    raced        \* history: such a worker has written

dbVars == <<canonical, runs, audits, reviews, plans>>
localVars == <<key, context, draft, seen>>
vars == <<dbVars, localVars, pc, interrupts, calls, stale, raced>>

-----------------------------------------------------------------------------
(* Rows, plans and payloads *)

NoDraft == [r \in {} |-> NoRow]

Run == [status : {"RESERVED", "RUNNING", "SUCCEEDED", "FAILED"}, draft : Drafts \cup {NoDraft}]

\* The payload of the AgentRun: how the call ended, and the normalized proposal.
Audit == [status : {"SUCCEEDED", "FAILED"}, draft : Drafts \cup {NoDraft}]

\* frozen is the content of the bundle and who froze it, which stands for frozen_at.
NotFrozen == [content |-> [r \in Resources |-> NoRow], by |-> "nobody"]
Bundle == {NotFrozen} \cup [content : Snapshots, by : Workers]
ReviewRow == [base : Snapshots, draft : Drafts, decision : Decision, frozen : Bundle]

Plan == [draft : Drafts, committed : BOOLEAN]

\* f with one entry added or replaced.
Put(f, k, v) == [x \in DOMAIN f \cup {k} |-> IF x = k THEN v ELSE f[x]]

\* Slip: the row that arrives last wins.
Newer_Any(old, new) == TRUE

\* The revision gate in the WHERE of every canonical update.
Newer(old, new) == old.rev < new.rev

\* What the updates of a plan make of the rows.
Applied(base, updates) ==
    [r \in Resources |->
        IF r \in DOMAIN updates /\ Newer(base[r], updates[r]) THEN updates[r] ELSE base[r]]

\* Slip: the canonical rows are not looked at.
Conflict_PlanOnly(base, updates) ==
    \E r, s \in DOMAIN updates : r # s /\ updates[r].name = updates[s].name

\* The names a resource owns, in the rows or in the plan.
Owns(base, updates, r) ==
    {row.name : row \in {base[r]} \ {NoRow}}
        \cup {updates[s].name : s \in DOMAIN updates \cap {r}}

\* _validate_profile_identity over the stored profiles and the plan: no two own one name.
Conflict(base, updates) ==
    \E r, s \in Resources :
        r # s /\ Owns(base, updates, r) \cap Owns(base, updates, s) # {}

\* The deterministic review of a proposal against the snapshot of its run.
Reviewed(base, d) == IF Conflict(base, d) THEN "REJECT" ELSE Merit[d]

Claimable(status) == status = "RESERVED"

\* save_review refuses a context of another snapshot than the run's.
SameContext(ctx, k) == ctx = Base(k)

Freezable(decision) == decision = "APPROVE"

\* _expected_snapshot: the rows are those of the review with its plan applied.
AsReviewed(rows, base, d) == rows = Applied(base, d)

Unfrozen(review) == review.frozen = NotFrozen

\* Slip: a plan that is committed already is not recognised.
Receipt_Never(id) == FALSE

\* get_matching_committed_plan.
Receipt(id) == id \in DOMAIN plans /\ plans[id].committed

\* Slip: the run succeeds although its AgentRun could not be saved.
AfterAuditError_Ignored == "saveSuccess"

AfterAuditError == "saveError"

-----------------------------------------------------------------------------
Init ==
    /\ canonical = [r \in Resources |-> NoRow]
    /\ runs = [k \in {} |-> 0]
    /\ audits = [k \in {} |-> 0]
    /\ reviews = [k \in {} |-> 0]
    /\ plans = [k \in {} |-> 0]
    /\ pc = [p \in Workers |-> "idle"]
    /\ key = [p \in Workers |-> NoKey]
    /\ context = [p \in Workers |-> canonical]
    /\ draft = [p \in Workers |-> NoDraft]
    /\ seen = {}
    /\ interrupts = 0
    /\ calls = [k \in {} |-> 0]
    /\ stale = {}
    /\ raced = FALSE

At(p, label) == pc[p] = label

Goto(p, label) == pc' = [pc EXCEPT ![p] = label]

\* The operation returns or raises.
Stop(p) ==
    /\ Goto(p, "idle")
    /\ key' = [key EXCEPT ![p] = NoKey]
    /\ context' = [context EXCEPT ![p] = [r \in Resources |-> NoRow]]
    /\ draft' = [draft EXCEPT ![p] = NoDraft]
    /\ seen' = seen \ {p}
    /\ stale' = stale \ {p}

\* On to label, or the operation ends.
Or(p, condition, label) ==
    IF condition THEN Goto(p, label) /\ UNCHANGED <<localVars, stale>> ELSE Stop(p)

Hold(p, d, label) ==
    draft' = [draft EXCEPT ![p] = d] /\ Goto(p, label) /\ UNCHANGED <<key, context, seen, stale>>

History == <<interrupts, calls, raced>>

-----------------------------------------------------------------------------
(* run_storybible: context, production run, Curator call *)

\* The snapshot the review will be about is read before the production run is prepared.
Build(p) ==
    /\ At(p, "idle")
    /\ Goto(p, "reserve")
    /\ context' = [context EXCEPT ![p] = canonical]
    /\ UNCHANGED <<dbVars, key, draft, seen, stale, History>>

\* build_and_reserve reads the snapshot again and creates or returns the run of these inputs.
Reserve(p) ==
    \E b \in Bundles :
        LET k == <<b, canonical>>
            run == IF k \in DOMAIN runs THEN runs[k] ELSE [status |-> "RESERVED", draft |-> NoDraft]
        IN  /\ At(p, "reserve")
            /\ runs' = Put(runs, k, run)
            /\ IF run.status = "FAILED" THEN Stop(p)
               ELSE /\ key' = [key EXCEPT ![p] = k]
                    /\ draft' = [draft EXCEPT ![p] = run.draft]
                    /\ Goto(p, CASE run.status = "RESERVED" -> "claim"
                                 [] run.status = "RUNNING"  -> "resume"
                                 [] OTHER                   -> "review")
                    /\ UNCHANGED <<context, seen, stale>>
            /\ UNCHANGED <<canonical, audits, reviews, plans, History>>

\* claim_execution; who loses goes on with the run as it is.
Claim(p) ==
    LET k == key[p]
    IN  /\ At(p, "claim")
        /\ IF Claimable(runs[k].status)
           THEN runs' = [runs EXCEPT ![k].status = "RUNNING"] /\ Hold(p, NoDraft, "call")
           ELSE /\ UNCHANGED runs
                /\ CASE runs[k].status = "RUNNING"   -> Hold(p, NoDraft, "resume")
                     [] runs[k].status = "SUCCEEDED" -> Hold(p, runs[k].draft, "review")
                     [] OTHER                        -> Stop(p)
        /\ UNCHANGED <<canonical, audits, reviews, plans, History>>

\* The Curator call and the normalizer, either of which may fail.
Call(p) ==
    /\ At(p, "call")
    /\ calls' = Put(calls, key[p], IF key[p] \in DOMAIN calls THEN calls[key[p]] + 1 ELSE 1)
    /\ \/ \E d \in Drafts : Hold(p, d, "saveAudit")
       \/ Hold(p, NoDraft, "saveFailedAudit")
    /\ UNCHANGED <<dbVars, interrupts, raced>>

\* save_agent_run is the checkpoint; the database may refuse it.
SaveAudit(p) ==
    /\ At(p, "saveAudit")
    /\ \/ /\ audits' = Put(audits, key[p], [status |-> "SUCCEEDED", draft |-> draft[p]])
          /\ Goto(p, "saveSuccess")
       \/ UNCHANGED audits /\ Goto(p, AfterAuditError)
    /\ UNCHANGED <<canonical, runs, reviews, plans, localVars, stale, History>>

\* _record_failure goes on without the AgentRun if it cannot be saved.
SaveFailedAudit(p) ==
    /\ At(p, "saveFailedAudit")
    /\ \/ audits' = Put(audits, key[p], [status |-> "FAILED", draft |-> NoDraft])
       \/ UNCHANGED audits
    /\ Goto(p, "saveError")
    /\ UNCHANGED <<canonical, runs, reviews, plans, localVars, stale, History>>

\* save_success: from RUNNING only, else it raises.
SaveSuccess(p) ==
    LET k == key[p]
    IN  /\ At(p, "saveSuccess")
        /\ runs' = IF runs[k].status = "RUNNING"
                   THEN [runs EXCEPT ![k] = [status |-> "SUCCEEDED", draft |-> draft[p]]]
                   ELSE runs
        /\ Or(p, runs[k].status = "RUNNING", "review")
        /\ UNCHANGED <<canonical, audits, reviews, plans, History>>

\* save_failure: from RUNNING only; either way the operation ends.
SaveError(p) ==
    LET k == key[p]
    IN  /\ At(p, "saveError")
        /\ runs' = IF runs[k].status = "RUNNING"
                   THEN [runs EXCEPT ![k] = [status |-> "FAILED", draft |-> NoDraft]] ELSE runs
        /\ Stop(p)
        /\ UNCHANGED <<canonical, audits, reviews, plans, History>>

\* _resume_running: a RUNNING run is finished from its AgentRun, or not at all.
Resume(p) ==
    LET k == key[p]
    IN  /\ At(p, "resume")
        /\ IF k \notin DOMAIN audits THEN Stop(p)
           ELSE Hold(p, audits[k].draft,
                     IF audits[k].status = "SUCCEEDED" THEN "saveSuccess" ELSE "saveError")
        /\ UNCHANGED <<dbVars, History>>

-----------------------------------------------------------------------------
(* Review and freeze *)

\* The review, and save_review: a context of another snapshot is refused, a review that is
\* there already is the same one.  Only an approval goes on.
Review(p) ==
    LET k == key[p]
        decision == Reviewed(context[p], draft[p])
        new == [base |-> context[p], draft |-> draft[p], decision |-> decision,
                frozen |-> NotFrozen]
        accepted == runs[k].status = "SUCCEEDED" /\ SameContext(context[p], k)
    IN  /\ At(p, "review")
        /\ reviews' = IF accepted /\ k \notin DOMAIN reviews THEN Put(reviews, k, new) ELSE reviews
        /\ Or(p, accepted /\ decision = "APPROVE", "freeze")
        /\ UNCHANGED <<canonical, runs, audits, plans, History>>

\* A later call of freeze for a stored review.
FreezeAgain(p, k) ==
    /\ At(p, "idle")
    /\ k \in DOMAIN reviews
    /\ key' = [key EXCEPT ![p] = k]
    /\ draft' = [draft EXCEPT ![p] = reviews[k].draft]
    /\ Goto(p, "freeze")
    /\ UNCHANGED <<dbVars, context, seen, stale, History>>

\* A frozen review is returned; a plan that is committed already needs its bundle only.
Freeze(p) ==
    LET review == reviews[key[p]]
    IN  /\ At(p, "freeze")
        /\ Or(p, Unfrozen(review) /\ Freezable(review.decision),
              IF Receipt(key[p]) THEN "bundle" ELSE "before")
        /\ UNCHANGED <<dbVars, History>>

\* The rows must still be the reviewed ones.
Before(p) ==
    /\ At(p, "before")
    /\ Or(p, canonical = Base(key[p]), "commit")
    /\ UNCHANGED <<dbVars, History>>

\* commit_storybible_plan: receipt, then everything that is read and validated before the
\* first canonical row is written.
Commit(p) ==
    LET id == key[p]
    IN  /\ At(p, "commit")
        /\ IF Receipt(id)
           THEN Or(p, id \notin ApiPlans, "bundle")
           ELSE IF Conflict(canonical, draft[p]) THEN Stop(p)
           ELSE /\ Goto(p, "write")
                /\ seen' = IF id \in DOMAIN plans THEN seen \cup {p} ELSE seen
                /\ UNCHANGED <<key, context, draft, stale>>
        /\ UNCHANGED <<dbVars, History>>

\* The rest of the unit of work: all updates and the status of the plan, or nothing if another
\* task has inserted the plan meanwhile.
Write(p) ==
    LET id == key[p]
        lost == id \in DOMAIN plans /\ p \notin seen
    IN  /\ At(p, "write")
        /\ IF lost THEN Stop(p) /\ UNCHANGED <<canonical, plans, raced>>
           ELSE /\ canonical' = Applied(canonical, draft[p])
                /\ plans' = Put(plans, id, [draft |-> draft[p], committed |-> TRUE])
                /\ raced' = (raced \/ p \in stale)
                /\ IF id \notin ApiPlans
                   THEN Goto(p, "bundle") /\ UNCHANGED localVars
                   ELSE /\ Goto(p, "idle")
                        /\ key' = [key EXCEPT ![p] = NoKey]
                        /\ draft' = [draft EXCEPT ![p] = NoDraft]
                        /\ seen' = seen \ {p}
                        /\ UNCHANGED context
                /\ stale' = (stale \cup {q \in Workers \ {p} : At(q, "write")}) \ {p}
        /\ UNCHANGED <<runs, audits, reviews, interrupts, calls>>

\* The committed rows are read again and compared with the reviewed plan.
ReadBundle(p) ==
    LET review == reviews[key[p]]
    IN  /\ At(p, "bundle")
        /\ IF AsReviewed(canonical, review.base, review.draft)
           THEN /\ context' = [context EXCEPT ![p] = canonical]
                /\ Goto(p, "saveFreeze")
                /\ UNCHANGED <<key, draft, seen, stale>>
           ELSE Stop(p)
        /\ UNCHANGED <<dbVars, History>>

\* reviews.freeze: conditional on REVIEWED; the loser's bundle carries another time.
SaveFreeze(p) ==
    LET k == key[p]
    IN  /\ At(p, "saveFreeze")
        /\ reviews' = IF Unfrozen(reviews[k])
                      THEN [reviews EXCEPT ![k].frozen = [content |-> context[p], by |-> p]]
                      ELSE reviews
        /\ Stop(p)
        /\ UNCHANGED <<canonical, runs, audits, plans, History>>

-----------------------------------------------------------------------------
(* The API: curate_storybible and commit_storybible_plan *)

\* A candidate plan is stored under an id of its own, and changes nothing else.
Curate ==
    \E id \in ApiPlans \ DOMAIN plans, d \in Drafts :
        /\ plans' = Put(plans, id, [draft |-> d, committed |-> FALSE])
        /\ UNCHANGED <<canonical, runs, audits, reviews, pc, localVars, stale, History>>

\* A person approves a stored plan.
Approve(p) ==
    \E id \in ApiPlans \cap DOMAIN plans :
        /\ At(p, "idle")
        /\ key' = [key EXCEPT ![p] = id]
        /\ draft' = [draft EXCEPT ![p] = plans[id].draft]
        /\ Goto(p, "commit")
        /\ UNCHANGED <<dbVars, context, seen, stale, History>>

\* A restart, or an exception, between two steps.
Interrupt(p) ==
    /\ interrupts < MaxInterrupts
    /\ ~At(p, "idle")
    /\ interrupts' = interrupts + 1
    /\ Stop(p)
    /\ UNCHANGED <<dbVars, calls, raced>>

-----------------------------------------------------------------------------
Production(p) ==
    \/ Build(p) \/ Reserve(p) \/ Claim(p) \/ Call(p) \/ SaveAudit(p) \/ SaveFailedAudit(p)
    \/ SaveSuccess(p) \/ SaveError(p) \/ Resume(p) \/ Review(p)

Freezing(p) ==
    \/ Freeze(p) \/ Before(p) \/ Commit(p) \/ Write(p) \/ ReadBundle(p) \/ SaveFreeze(p)

Next ==
    \/ Curate
    \/ \E p \in Workers :
        \/ Production(p) \/ Freezing(p) \/ Approve(p) \/ Interrupt(p)
        \/ \E k \in DOMAIN reviews : FreezeAgain(p, k)

Spec == Init /\ [][Next]_vars

FrozenReview(k) == k \in DOMAIN reviews /\ reviews[k].frozen # NotFrozen

Committed(id) == id \in DOMAIN plans /\ plans[id].committed

Open(k) == ~FrozenReview(k) /\ Freezable(reviews[k].decision)

\* The rows are the reviewed ones, before or after the commit of the plan.
Unmoved(k) == canonical = IF Committed(k) THEN Applied(Base(k), reviews[k].draft) ELSE Base(k)

\* A running operation goes on until it returns, is interrupted or raises; and whoever wants
\* the bundle of an approved review asks for it again as long as it is not there.
Fairness ==
    /\ \A p \in Workers : WF_vars((Production(p) /\ ~At(p, "idle")) \/ Freezing(p))
    /\ SF_vars(\E p \in Workers, k \in DOMAIN reviews :
                    Open(k) /\ Unmoved(k) /\ FreezeAgain(p, k))

FairSpec == Spec /\ Fairness

-----------------------------------------------------------------------------
(* Properties *)

Labels == {"idle", "reserve", "claim", "call", "saveAudit", "saveFailedAudit", "saveSuccess",
           "saveError", "resume", "review", "freeze", "before", "commit", "write", "bundle",
           "saveFreeze"}

\* Every row, payload and local variable has its type; a payload with a bundle is accepted
\* with an approval only.
TypeOK ==
    /\ canonical \in Snapshots
    /\ \A k \in DOMAIN runs : k \in Keys /\ runs[k] \in Run
    /\ \A k \in DOMAIN audits : k \in DOMAIN runs /\ audits[k] \in Audit
    /\ \A k \in DOMAIN reviews : 
        /\ k \in DOMAIN runs /\ reviews[k] \in ReviewRow
        /\ FrozenReview(k) => reviews[k].decision = "APPROVE"
    /\ \A id \in DOMAIN plans : id \in DOMAIN reviews \cup ApiPlans /\ plans[id] \in Plan
    /\ \A p \in Workers :
        /\ pc[p] \in Labels
        /\ key[p] \in DOMAIN runs \cup ApiPlans \cup {NoKey}
        /\ context[p] \in Snapshots
        /\ draft[p] \in Drafts \cup {NoDraft}
    /\ seen \subseteq Workers /\ stale \subseteq Workers
    /\ interrupts \in 0..MaxInterrupts
    /\ \A k \in DOMAIN calls : k \in DOMAIN runs /\ calls[k] \in Nat
    /\ raced \in BOOLEAN

\* "Allow exactly one Curator call": however many tasks reserve, claim, resume or repeat a
\* production run, the Curator is called once for its inputs.
CuratorOnce == \A k \in DOMAIN calls : calls[k] <= 1

\* A production run succeeds with the proposal of its AgentRun, which is saved before it.
Checkpointed ==
    \A k \in DOMAIN runs : runs[k].status = "SUCCEEDED" =>
        /\ k \in DOMAIN audits
        /\ audits[k] = [status |-> "SUCCEEDED", draft |-> runs[k].draft]

\* A stored review is the review of its run's proposal against its run's snapshot, although
\* run_storybible reads the snapshot it hands to the review before the one of the run.
ReviewOnRun ==
    \A k \in DOMAIN reviews :
        /\ reviews[k].base = Base(k)
        /\ reviews[k].draft = runs[k].draft
        /\ reviews[k].decision = Reviewed(Base(k), runs[k].draft)

\* A frozen bundle is what its approved plan makes of the reviewed snapshot, and that plan
\* is committed, whatever other plans are committed next to it.
FrozenExact ==
    \A k \in DOMAIN reviews : FrozenReview(k) =>
        /\ reviews[k].frozen.content = Applied(reviews[k].base, reviews[k].draft)
        /\ Committed(k)

\* No plan of a production run is committed without an approving review of it.
NothingUnapproved ==
    \A k \in DOMAIN plans \ ApiPlans :
        Committed(k) => k \in DOMAIN reviews /\ reviews[k].decision = "APPROVE"

\* A committed plan is in the canonical rows: each of its updates, or a newer or equal revision.
CommittedStands ==
    \A id \in DOMAIN plans : Committed(id) =>
        \A r \in DOMAIN plans[id].draft : canonical[r].rev >= plans[id].draft[r].rev

\* Two profiles claim one name only after a plan was validated against rows that another task
\* changed before it was written.
NamesUnique ==
    raced \/ \A r, s \in Resources :
                r # s /\ canonical[r] # NoRow => canonical[r].name # canonical[s].name

\* A canonical row is replaced by a later revision only: a retried or concurrent commit never
\* takes one back or rewrites it.
RevisionFinal ==
    [][\A r \in Resources :
        canonical'[r] = canonical[r] \/ canonical'[r].rev > canonical[r].rev]_canonical

\* A frozen review keeps its bundle, whoever freezes it again.
FrozenForever == [][\A k \in DOMAIN reviews : FrozenReview(k) => reviews'[k] = reviews[k]]_reviews

\* An approved review gets its bundle, also after a restart between the commit of its plan and
\* the freeze, unless another plan has changed the rows it was about.
ApprovedGetsFrozen ==
    (\E k \in DOMAIN reviews : Open(k)) ~> \A k \in DOMAIN reviews : Open(k) => ~Unmoved(k)

\* One production is one call, one proposal and one review, of the snapshot it began with.
ProductionTraced == CuratorOnce /\ Checkpointed /\ ReviewOnRun

\* What is canonical or frozen was approved, was written as reviewed, and is still there.
CanonSound == TypeOK /\ FrozenExact /\ NothingUnapproved /\ CommittedStands /\ NamesUnique

\* Neither a canonical row nor a frozen bundle is taken back.
CanonFinal == RevisionFinal /\ FrozenForever
=============================================================================

# A verification model of longtext-comic-agent

This directory models the pipeline of the repository, from the import of a text to composed comic
pages: the parts that keep state and are driven by several actors at once as state machines, and the
rules that keep none as operators asked over bounded inputs. TLC checks small instances; TLAPS proves
every invariant they check, for every value of the constants the argument allows (section 6). Every definition is
translated from the Python code; `PROJECT.json` names, for each one, the lines it stands for. Paths
below are those of the repository; `services/`, `repositories/`, `schemas/` and `api/` are
directories of `comic_agent/`, `flux2_agent/` is `src/flux2_agent/`.

## 1. The system

A long text goes through a chain of stages, each of which leaves its outcome in the database (SQLite
or PostgreSQL through SQLAlchemy) and is followed by the next one:

    import -> Gate 1 -> chapters, chunks -> analysis windows -> aggregate -> Gate 2
           -> (Stage B recovery) -> Timeline / Gate 3 -> StoryBible -> review, freeze, commit
           -> comic planning -> comic production -> FLUX file queue -> worker -> images -> pages

### How the parts run

* **Background tasks.** The API starts long work as FastAPI background tasks
  (`api/agent_runs.py:391-449`, `api/pipeline.py`). They are synchronous functions, so each runs in
  a thread of the thread pool, each with a database session of its own. Nothing keeps a second task
  from being started for a run: the first start and every `/resume` add one, and the pipeline loop
  (`_run_pipeline_until_terminal`) re-enters the same worker as long as the run is `RUNNING`.
* **Transactions.** Every repository method commits. A stage is therefore a sequence of short
  transactions, and another task can act between any two of them. Two kinds of writes exist:
  *conditional* ones (`UPDATE ... WHERE status = ...` or `WHERE updated_at = ...`, answered by the
  row count) and *blind* ones (`save_*`), which write a whole payload read earlier over the row.
* **Restarts.** A restart of the service ends all tasks, wherever they are. Nothing is resumed by
  itself: a later request enters the stage again and finds what was committed.
* **The file queue.** Image jobs live outside the database in JSON files, one directory per state,
  shared by the API, the command line and any number of worker processes under one file lock.

### Components

| Component | State it keeps | Hard behaviour | What makes it correct | Modules |
|---|---|---|---|---|
| Narrative window execution (`services/narrative_analysis_worker.py`) | run row (status, root budget used), window rows (status, calls, phase, failure, repairs, deadline), aggregate | workers with stale copies, restarts between commits, five overlapping budgets, splits in several commits | no window executed twice at once, no success rerun, no source lost, budgets respected, every run settles | `NarrativeAnalysis` |
| Window planning and run creation (`services/narrative_analysis.py`) | none | boundaries of stride, batch and slice | every chunk owned once, the root cap pays for the splits as far as they make two pieces each | `WindowPlanning`, `SourceImport` |
| Gate 2 handoff, Stage B recovery (`services/narrative_analysis_review_coordinator.py`, `services/narrative_analysis_recovery_coordinator.py`) | handoff status, attempts and claim time in the run row; recovery attempts per rejected proposal | a slow first claimant answers after the second; a crash between call and record; budgets read in one transaction and spent in another | a rerun is attempted, paid and counted once, an outcome stands, only what was approved goes on | `Gate2Recovery` |
| Timeline and Gate 3 (`services/narrative_timeline_coordinator.py`, `repositories/timeline_gate3_repository.py`) | one run row per approved bundle, audit records | the status is the lock, conditional writes of stale payloads, audit records that can be saved once | one Provider call, one holder, verdict and bundle belong to the stored proposal, approvals final | `TimelineGate3`, `TimelineRules` |
| Provider circuit breaker and readiness (`services/provider_health_service.py`, `services/provider_capability_service.py`, `api/pipeline.py`) | circuit row, the capability profile on a shared Provider object, the pipeline's phase | rows read, changed and written back without comparison, a Provider object replaced under its users, background tasks | failures counted exactly, a worker runs with the negotiated profile, every task ends with what its outcome calls for | `ProviderGate` |
| StoryBible production, review, freeze, commit (`services/storybible_production_coordinator.py`, `services/storybible_review_service.py`, `services/storybible_freeze_service.py`, `services/commit_service.py`) | production run, AgentRun, review row with its frozen bundle, plans, canonical resources | production, API commits and freezes of the same rows in any order, an interruption between any two commits | one Curator call per input, bundle exactly what was reviewed, nothing unapproved, no row taken back | `StoryBible`, `StoryBibleRules` |
| Comic planning and production (`services/comic_production_coordinator.py`, `services/comic_page_composer.py`) | production row, next to queue files and run directories | three stores without a common transaction; two composers share a draft file | pages come from one accepted execution, a finished job is never executed again | `ComicProduction` |
| FLUX workflow runner (`flux2_agent/workflow.py`) | run directory with `result.json` | tries and repairs multiply; a continuity parent may be rejected | an image continues accepted images only, calls bounded | `ImagePlan`, `ImageWorkflow` |
| FLUX image queue (`flux2_agent/queueing.py`, `flux2_agent/locking.py`, `flux2_agent/cli.py`) | one file per job, directories as states | a change takes two file operations and the process may die between them; outcomes that arrive after a recovery | a job has one file, no result is lost, each attempt recorded once, claims in order | `QueueItem`, `AtomicQueue`, `ImageQueue` |
| Import, chapters, chunks, Gate 1 (`services/document_parser.py`, `services/review_gate1_service.py`) | document, chapter and chunk rows | offsets, boundaries, a review that must answer every input | chunks verbatim, an approved document is sound, importing again is harmless | `DocumentParsing`, `Gate1Rules`, `SourceImport` |
| Aggregation, contracts and Gate 2 rules (`services/narrative_analysis_aggregation.py`, `services/review_gate2_service.py`, `schemas/narrative.py`) | none | ids rewritten between windows, schemas applied again to what was rewritten | nothing found is lost or joined to the wrong thing, what one stage accepts the next can read | `ProposalAggregation`, `Gate2Rules`, `ProposalContracts`, `EvidenceRules` |
| Agents and Provider adapter (`agents/`, `providers/openai_compatible.py`) | none | every end of two posts is classified three times: adapter, workflow, worker | failures get the retry that can help | `ProviderCall`, `EvidenceRules`, `TimelineRules` |
| Pipeline loop and background tasks (`api/pipeline.py`) | phase and status per pipeline run | start, resume, waiting for a human, restart | a task ends with what the run row says | `ProviderGate`; the loop is a fairness assumption elsewhere |
| Storyboards, lettering and pages | pages beside a run | only composition is shared | pages belong to one execution | in `ComicProduction`, as one operation |
| Database, migrations and settings; evaluation, demo, scripts, consoles | - | - | - | not modelled (section 8) |

### How they interact

Stages call each other through rows: `run_pending` ends by saving the aggregate and handing it to
Gate 2; an approved bundle is what `run_if_approved` reserves a Timeline run for (unique key: run,
mode, bundle); the approved Timeline bundle feeds StoryBible production; a frozen StoryBible feeds a
comic plan. Between Timeline and the people who review it the row itself is shared; StoryBible
production and the API's own plans share the canonical rows; all LLM stages share the circuit row
and the Provider object. Comic production and the image worker share the file queue and the run
directories and nothing else.

## 2. Modules

State machines:

| Module | Models | Composes |
|---|---|---|
| `NarrativeAnalysis` | `NarrativeAnalysisWorker.run_pending` over one run, any number of workers | |
| `Gate2Recovery` | the end of `_finalize_run`: aggregate, claim and review of the handoff, Timeline, Stage B reruns | |
| `TimelineGate3` | one Timeline run: workers, recovery, reviewers | |
| `StoryBible` | productions, reviews, freezes and commits of one project | |
| `ProviderGate` | probe, circuit, negotiation and the background task of a pipeline run | |
| `ImageWorkflow` | one execution of an image job in its directory | extends `ImagePlan`, the order of the shots |
| `ComicProduction` | row, queue item, run directories, composers, queue workers | extends `ImageWorkflow` |
| `ImageQueue` | `QueueStore` and `run_queue_worker` as files, directories, a lock and crashes | extends `QueueItem`, implements `AtomicQueue` (`INSTANCE`) |
| `AtomicQueue` | abstract specification: every operation replaces a record at once, claims come in order | extends `QueueItem` |

`ComicProduction` uses the queue by its abstract promise (one record per job, changed atomically),
which is what the refinement `ActsAtomically` establishes for the file operations.

Rules without state, each with the module that asks it:

| Module | Rules | Asked in |
|---|---|---|
| `DocumentParsing` < `Gate1Rules` < `SourceImport` | chapters and chunks; the audit and its decision; imports and what may be read of them | `Gate1Questions` |
| `WindowPlanning` | windows, owned chunks, request cap, and what the splits below the windows may call | `MCRules` |
| `EvidenceRules` | one evidence reference from agent to commit; slices of a chunk; anchors | `MCRules` |
| `ProposalContracts` | the proposal schemas before and after normalisation and aggregation | `ContractQuestions` |
| `ProviderCall` | one structured call, negotiation, classification, repair advice | `CallQuestions` |
| `ProposalAggregation` < `Gate2Rules` | merging the windows' proposals; review, contracts of its result, route | `MCRules` |
| `TimelineRules` | Timeline input, event pairs, answers, Gate 3's structural review | `TimelineQuestions` |
| `StoryBibleRules` | event order, curator's context and normaliser, validation, review, commit, bundle | `StoryBibleQuestions` |

`Questions` is the frame: `Init` chooses a topic and an input of it, one action computes the code's
answer, and invariants compare the answer with a reference definition or with what the next stage
requires. `MCRules` extends all question modules and asks evidence, slices, windows and reviews itself.

`MC...` modules give the state machines their instances; `NarrativeAnalysisProofs`,
`Gate2RecoveryProofs`, `TimelineGate3Proofs`, `StoryBibleProofs`, `ImageQueueProofs`, `BackgroundProofs`
(`ProviderGate` and `ComicProduction`), `SourceAndAnswersProofs` and `ReviewAndCanonProofs` (the rules) hold the
theorems. Each module declares its parameters as CONSTANTS with a named assumption, and bounds (`MaxRestarts`, `MaxInterrupts`, `MaxCalls`,
`MadeCap`, `MaxRuns`, the `MaxAttempts` of the queue, `MaxCrashes`, `MaxStarts`) are marked there.
Definitions whose comment begins with `Slip:` are variants of the definition below them with a
plausible bug in it. No specification uses them: replacing the real definition by the variant must
make one particular property fail, and so shows that the property depends on that line of the code.

### NarrativeAnalysis

One action per repository call (or per Provider call). A worker's program counter names the place in
`run_pending`, `_run_window`, `_split_failed_window` / `_split_schema_slice` or `_finalize_run`:

    Start Open List -> Take -> Claim | ClaimLost | Exhaust -> ReadRootBudget SwapRootBudget | Deny
      -> Charge -> Succeed | Fail -> (retry: back to Claim) | (split: CreateKids SaveSplit
      RereadRun SaveSplitRun) | next window ... -> ReadRun Judge SaveVerdict SaveAggregate

* `run`, `window`, `result` are the database: run row, window rows, windows in the saved aggregate.
  `snap`, `todo`, `job`, `delivered` are what a worker holds in local variables. What the code
  writes back from such a variable, the model writes back from it too; that is where stale data enters.
* `fresh` is the optimistic lock of `reserve_root_provider_request`: the workers whose `updated_at`
  is still the one in the row. It replaces the timestamps.
* Deadlines are `NONE`, `AHEAD` or `DUE`; `DeadlinePasses` is the clock. The elapsed-time budget is
  the flag `overtime`, which a call may set.
* A failure is one category. Which payload it leads to is the composition of the code's
  `_schedule_retry`, `_terminalize...`, `_should_split` and `_should_retry`, in the code's order.
* A window's children (`Kids`) are fixed by its shape: one per owned chunk, the narrowed tail window,
  or two slices. `Scope` names the pieces of source each owns. `SplitsEnd` says that the forest has
  no cycle, as a split always leaves less text and the depth is bounded.
* `made` and `spent` are history variables: the calls really made, which no payload can rewind.

### Gate2Recovery

Every task that enters `run_pending` of a complete run comes through here. `claim` and `swap` are the
optimistic claim of the handoff (again after five minutes, at most twice); `review` and `saveReview`
or `saveFailure` its end, the latter a blind write. A rejected root leads to Stage B: the task goes
through the rejected proposals (`pos`), derives a directive from the attempts it reads, inserts the
attempt, calls the Provider (and once more after a schema failure), has the answer reviewed, and at
last compiles the bundles of the recovered proposals. `attempt[d]` is the stored row, `job[p]` the
payload in a task's hands, `calls` and `overlapped` history.

### TimelineGate3

`row` is the run row with the fields the decisions read: status, proposal, the proposal its review is
about, human resolution, bundle, used attempts, first rejection. `copy` is the payload in a worker's
hands, `hold` the one a reviewer read. Proposals are an id, a quality (what Gate 3 makes of it) and
the attempt number, from which the code builds AgentRun ids; `audits` holds the ids already saved,
because saving one twice raises and ends the task in the middle. `Init` also allows a run a human
approved before bundles were stored with the approval, which `finalize_human_approval` completes.
`usable` says whether the approved bundle makes a Timeline input: one without an event, a state change
or a claim of a fact does not, the adapter raises between reservation and claim (`AdapterRaises`) and
the row stays `RESERVED`.

### StoryBible

`canonical` maps resources (profiles) to a revision and a name. A production run is keyed by the
bundle and the snapshot it began with; a worker reserves it, claims it, calls the Curator, saves the
AgentRun as checkpoint, then the run, and goes on to review, freeze and commit, each in its own
transaction. `write` is separated from `commit` because the plan is validated against rows that
another task may change before the write (`stale`, and `raced` as history). `ApiPlans` are plans
people commit through the API. `Moved` tells whether other plans have changed what a review was about.

### ProviderGate

Tasks share the circuit row, `app.state`'s Provider object with its negotiated profiles, and the run
rows. The probe reads the circuit before its request and writes it after the answer; deadlines
pass at any time. A task then hands over to a human, fails, or starts the worker and waits until the
run is settled. STRICT and JSON modes are one value, STRUCTURED; an expired profile is no profile.
Its specification is called `GateSpec`, so that one module can prove about it and `ComicProduction`.

### ComicProduction, ImageWorkflow

`row`, `item` and the run directories (`runs`, with `draft` and `torn` for the two file names a
composer writes) are the three stores. `req[c]` is where an API request stands and the row it holds;
`save` writes that row over whatever is there; `moved` says whether the file a composer has open is
still the draft, is result.json by now, or neither. A worker's execution is `ImageWorkflow`: anchors,
then shots in the order of `ImagePlan`, with tries, visual repairs and acceptance. Pages are composed
by the first refresh that sees the job succeed, or by several at once.

### QueueItem, AtomicQueue, ImageQueue

`files[j][d]` is the file of job `j` in directory `d`. Every operation takes the lock (`Locks`),
repairs (`Tidy`, the code's `_repair_transitions`, is part of each operation), overwrites the record
where it lies (`Begin`) and moves the file in a second step (`Rename`); a crash may come between the
two and releases the lock, as the operating system does. `recover_running` keeps the lock over
several jobs and so has an opening, a closing and two steps per job. The record of a job is
`Record(j)`, wherever its file lies; `AtomicQueue` sees nothing else.
`enqueued_at` is one of `Times`, chosen freely at the submission, since the code reads the clock
before it takes the lock. `robbed` records that `recover_running` took a job from a worker at it.

### The rules

Data is reduced to what the rules compare. A text is a short word over classes of characters; a
proposal is its kind, id, text, layer, evidence and links; ids and mentions are values one can
compare; a resource is its names, facts and the profiles it is about. An audit input has at most one
thing wrong with each record, so that every check of Gate 1 decides somewhere on its own. Where the
code searches (the cycle check of Gate 3, the heap of the shot order), the operator states what the
search finds; where it chooses by position or order, the operator keeps the choice.

## 3. Runs

| Run | Instance | Shows |
|---|---|---|
| `narrative_solo` | one worker, a tail window that is narrowed, then sliced; five failure categories; fair | `AggregateOwnedOnce`; `RetriesExact`: the call budget of a window, and no window handed to a human before its repair; every run settles (`RunSettles`) |
| `narrative_restart` | one worker, a restart anywhere, three owned chunks, time budget used up or not | `RunHonest`: calls are on the books before they are made, the root cap holds, a `SUCCEEDED` run has nothing left to do; `DenialMeansSpent`: a window is denied only when the cap is spent |
| `narrative_race` | two workers, a restart, a window of two chunks, symmetry | `Exclusive`: claims, and what a worker holds looks taken; `ScopeKept`: splits and aggregate lose no source; `NeverRerun` |
| `handoff_race` | two tasks, a rejected root with three proposals from two windows, at most two reruns, three requests, good answers and schema failures; symmetry | `RecoverySound`: reruns are attempted, paid and counted once, only what was approved goes on; `OutcomesStand` |
| `handoff_solo` | one task, four proposals of which one cannot be rerun, all verdicts, answers and merits, two interruptions; fair | `BudgetsKept`: attempts, requests and handoffs; `WorkEnds`: an aggregate gets its review, a rerun its outcome |
| `timeline_race` | three workers, two reviewers, two restarts, every quality | `StageExclusive`: the status works as a lock, one initial Provider call; `VerdictOnProposal`; `ApprovedKept` |
| `timeline_solo` | one worker, two reviewers, one restart; fair | `RecoveryAccounted`: recovery budget and first rejection kept; `VerdictComes`: a reserved run whose bundle makes a Timeline input gets its verdict, human resolutions are final |
| `storybible` | two tasks, two profiles, two names, two competing drafts, one API plan, one interruption; fair, deadlock checked | `ProductionTraced`: one call, one checkpoint, one review of the run's own snapshot; `CanonSound`; `CanonFinal`; `ApprovedGetsFrozen` |
| `provider` | two tasks, threshold 2, one restart; fair | `AllowanceExact`: while probes do not overlap, the row counts the failures since the last success and pauses at the threshold; `GateReported`: a worker runs with what was negotiated, the phase a task leaves agrees with status and issue codes of its run; `TasksEndWell`: every task ends, a refusal or an exception leaves issue codes, a configuration error and a saved success stay |
| `production` | two API clients, two queue workers, two shots of which the second continues the first, an anchor, two tries, one repair, two executions, crashes and restarts; symmetry | `PagesSound`, `HandoffSound`, `ExecutionsFinal` |
| `queue_crash` | two jobs, two workers, a crash anywhere, retries, cancels, recoveries; fair | `RecordsSound`: one file per job, audit trail, own attempts; `ResultKept`; `ActsAtomically`, the refinement; `PendingIsTaken` |
| `rules` | all questions of section 2 | eight conjunctions, one per group of rules: `EvidenceSound`, `WindowsSuffice`, `ReviewSound`,`ContractsAgree`, `CallsHandled`, `DocumentsSound`, `PlansSound`, `TimelineSound` |

A property that is a conjunction names its parts in its definition; each part has its own comment.
Deadlock is checked in `storybible` only: elsewhere a finished run, an empty queue or a budget of
restarts that is used up are states in which the system really stops.

### Why the bounds are enough

* Two workers give every pairwise interleaving of stale copy and write; `timeline_race` has a third
  because a late worker may meet two different holders. The exclusion properties are proved for any
  number.
* A window forest of one root and two to three children reaches every branch of the split code: the
  children of a split that was begun twice, a child that fails, a narrowed window that is sliced.
  Windows do not interact except through the run row, so a second root would add interleavings
  of actions that commute. That no source is lost is proved for every forest.
* `MaxCallAttempts` 1 or 2, `MaxSchemaRepair` 1, `MaxLengthRecovery` 1 put every counter at, below and
  (through a repair) above its limit. `MaxProviderRequests` is 21 where it must not interfere and 6
  where it has to run out. The counters of calls made saturate at `MadeCap`, above each limit
  they are compared with; a run with `MadeCap = 0` checks no property that reads them.
* One restart or crash reaches every "between two commits" state; a second one (`timeline_race`,
  `handoff_solo`) the states of an interrupted resume.
* In Stage B two proposals of one window compete for its single rerun while a third counts against
  the run's budget; three requests are one less than two reruns with repairs would use.
* In `storybible` the two drafts compete for a row and for a name, so one plan can make the other
  stale, ambiguous or superfluous; the API plan adds a writer that no review precedes.
* A threshold of two failures is the smallest at which a lost update of the circuit row matters.
* In the queue two jobs of equal priority make the time stamp and the id decide; two attempts allow
  an attempt to be interrupted or fail and be retried; `MaxStarts = 2` allows a second worker
  or a restarted one. In `production` the second execution is what a retry or a recovery starts.
* `rules`: chunks of up to three characters over a letter and a sentence end (slices up to six), where
  every position of a quote relative to a limit occurs; texts of up to five characters over seven
  classes for the parser, whose limits are scaled down to `MinSentence` 1 and `MaxChunk` 3, so that a
  text can have two chapters, two paragraphs or a cut sentence; documents of up to eight chunks with
  every stride, size and batch; up to three proposals found in two windows, the fewest at which a
  proposal links to one that is merged into a third.

### Fairness

* `NarrativeAnalysis`: threads go on (`WF` of each worker's steps), time passes, and a run that is
  `RUNNING` is entered again, which is what the pipeline loop does (`api/pipeline.py:639-700`). No
  fairness is assumed of failures, of restarts or of a Provider that answers well.
* `Gate2Recovery`: threads go on, time passes (the claim's five minutes), and the run is entered
  again by the same loop. `WorkEnds` excepts interruptions and overlaps in so many words.
* `TimelineGate3`: threads go on, and a run that is not terminal is entered again, which is what
  the resume action of the user does. `TimelineSettles` excludes restarts and bundles that make no
  Timeline input in so many words, because with either the code does not keep it (section 4).
* `StoryBible`: threads go on (`WF`), and somebody asks again for the freeze of an approved review
  whose rows nobody has changed (`SF`, since another task's work interrupts the possibility); without
  a second request nothing resumes it.
* `ProviderGate`: threads go on and deadlines pass; `SF` of `WorkerSettles` says that the worker a task
  waits for ends its run, which `RunSettles` shows for the worker.
* `ImageQueue`: a process that is up goes on, and a client that holds the lock finishes what it does.
  Workers need not be started, and `Leave` and crashes may happen at any time; `PendingIsTaken` says
  "unless no worker is up".
* `ComicProduction` states no liveness: rows are brought up to date by requests only.

## 4. Where the guarantees end

Some properties hold for one worker, or without restarts or overlaps, and fail otherwise. They are
stated with that condition, which is what the following says of the code.

**Narrative windows.** With two workers `DenialMeansSpent` fails (a lost optimistic update is answered
like a spent budget), `AggregateOwnedOnce` and `SuccessIsComplete` fail (an exhausted payload is saved
without a claim and may overwrite a success), `WindowBudget` and `RootBudget` fail (stale payloads
rewind counters; a blind save of the run row takes back slots of the root budget). Deadlines are
looked at when windows are listed and not when they are claimed. After a restart `RepairBeforeHuman`
fails (the reserved repair exists in the worker only), as does `AggregateOwnedOnce` (a parent rerun
next to the children of its interrupted split); and `RunSettles` excludes restarts because windows left
`RESERVED` or `RUNNING` are never listed again, so the run stays `RUNNING`, although a restart "is
equivalent to an interruption" (`docs/whole_document_analysis.md:292`). The root cap reserves a
"conservative full binary split tree" (`services/narrative_analysis.py:231`), but a window of several
chunks is split into one child for each chunk it owns (`narrative_analysis_worker.py:575`). A first
window of three chunks may come to 22 scopes at depth 3, the cap counts 15. Windows of three chunks at a
stride of two, the defaults, own two chunks each but for the first with three and at times the last with
one, so their plan may have one first child more than the cap pays for; then windows of such a run may be
denied although none of them called more than it may. `CapPays` says exactly when the cap is enough.

**Aggregation.** An extractor is told to leave mentions of people, places and events unresolved; the
schema also takes one with an id (`ProposalMentionRefV1`, `schemas/narrative.py:266`). Neither
`rewrite_proposal_ids` (`narrative_proposal_id_normalizer.py:92`) nor
`_normalize_parallel_reference_values` (`narrative_analysis_aggregation.py:292`) touches that id, so it stays
local to its window, and Gate 2 refuses the proposal with `REFERENCE_TARGET_NOT_FOUND`, or
`REFERENCE_SCHEMA_MISMATCH`, even when the window did find what it names (`review_gate2_service.py:655`).
An id in `participant_ids` that nothing has becomes a mention instead. `OnlyPresetsLost` states both.

**Timeline.** With several workers the recovery budget can be exceeded and a human resolution
overwritten: the claim of the recovery compares the status only and writes a payload with the old
number of attempts. `RecoveryBudget` and `HumanFinal` are therefore claimed for one worker;
`RejectionRetained` was never seen to fail. `run_if_approved` commits the reservation and then makes the
Timeline input outside any `try` (`services/narrative_timeline_coordinator.py:106`): an approved bundle
whose only proposals for the Timeline are claims of belief or evaluation makes none
(`services/narrative_timeline_input_adapter.py:67`, `schemas/timeline.py:428`), so every resume raises again
and the row stays `RESERVED`, without any restart. A run left `REVIEWING` by a restart is refused by
`claim_review` for ever. A failed recovery call is not added to `provider_request_count`.

**Gate 2 and Stage B.** `RequestBudget`, `AuditKept` and `HandoffBudget` are claimed while no two tasks
overlap: two tasks derive their limits from the same remainder, and `fail_gate2_handoff` writes over a
handoff another task has completed. An attempt that a restart leaves `RESERVED` or `RUNNING` is rerun by
nothing; so is one whose Provider answered without proposals, since the save of that answer raises.

**StoryBible.** Re-entering after the commit and before the freeze makes a new production run, and so
a new Curator call; the old review is frozen only if the freeze is asked for with its id. A `RUNNING`
production without an AgentRun stays so. Two commits validated against the same rows can write one
name twice, after which later commits of either profile are refused. An API plan with the rows of a
reviewed plan leaves that review unfrozen, as it has no receipt of its own.

**Provider.** Updates of the circuit row by overlapping probes are lost. Two first tasks each build a
Provider object and a worker may get the one without a negotiated profile; a profile `UNAVAILABLE` on
the shared object makes every later preflight fail until a restart, and failures of the capability
check are cached for their time to live. Strict mode without `LLM_RESPONSE_FORMAT=json_object` can
never pass a first preflight. A restart leaves runs `PROVIDER_CHECKING` or `RUNNING` for ever; the
resume endpoint does not pass the gate, and the waiting task's refusal overwrites its status. A run its
worker settles as `FAILED` or `NEEDS_HUMAN_ACTION` keeps the issue codes it had, which may be none, or
those of an earlier wait: only a success clears them (`api/pipeline.py:680`). A success that an exception
follows keeps its status and is reported `FAILED` with codes.

**Production.** If the API process dies between the insert of the row and the save of its queue id, the
row stays `COMPILED`; of two racing inserts one is answered with an error. A late save may put a
`SUCCEEDED` row with pages back to `QUEUED` without them; the next refresh composes again and adds the
composition time twice. Two composers share `result.json.tmp`: one fails, and a torn `result.json` is
repaired by the other unless the process dies.

**Queue.** `recover_running` also takes the job of a worker that is at it; the late outcome is then
recorded as the other worker's attempt (`OwnAttempt` excepts `robbed` jobs). `AuditTrail`, `OneFile`
and `ResultKept` hold even then.

## 5. What the rules do that their texts do not say

None of these contradicts a property; most bound what a property may claim.

* *Evidence.* Offsets recorded in a sliced window are relative to the slice and refused at Gate 2.
  A reference without a quote passes its window and is refused there, too.
* *Aggregation and Gate 2.* Knowledge states from two windows that differ in local ids only escape the
  merge, become exact duplicates when aliases are rewritten, and are both rejected. Aggregates are not
  validated again after the rewrite. An approved proposal may refer to a rejected one in the result,
  which the route then drops.
* *Contracts.* An assertion of version 1.0 whose link is rewritten is declared 1.3 and can no longer be
  read; so is a signal with one quote in two references once they are normalised. State changes of
  version 1.1 are owned by no window and dropped. Practically every `BETRAYS` signal is refused, as the
  agent looks for a literal `??`. A batch takes `1` and `True` for duplicates, the aggregation does not.
* *Provider calls.* A failing name lookup, a body that is no JSON, an unsupported content type and an
  unsupported output mode are `UNKNOWN_ERROR` and not retried. A strict probe that times out makes the
  schema `UNAVAILABLE` without trying JSON mode. Rule codes are looked up by substring, so some
  rejected answers get the advice of another rule or none.
* *Import and Gate 1.* Text before the first heading is dropped. A text of headings alone is told to
  `RECHUNK`, which cannot help. A document with a forbidden character all of whose chunks have a
  twin is reported as a failed execution. Importing a stored text under another name replaces its
  review by one of chunks the document does not have, so it is no longer eligible anywhere. The look
  ahead for a sentence end beyond the longest chunk has no effect.
* *Timeline.* Conflicts and duplicate candidates of the proposal are read by nothing downstream.
  State changes of version 1.3 have no event and are reported each. The cycle check ignores
  `SIMULTANEOUS` and `OVERLAPS` (`services/review_gate3_service.py:226`): 1 before 2, 2 simultaneous with 3
  and 1 after 3 is approved, although it cannot have happened. `Gate3Sound` therefore speaks of the
  order that `BEFORE` and `AFTER` ask for (`Orderable`) and of nothing else. Without a Provider two or more events always wait for a human.
* *StoryBible.* The semantic comparison of states leaves out the profile, so equal states of two
  profiles are refused as ambiguous. States anchored by an event only overlap nothing. A plan with a
  stale revision is approved, committed and changes nothing. Conflicts of world rules and of
  relationships are looked for by the review only, so API plans may have them.

## 6. Proofs

All theorems hold for every value of the constants that satisfies the named assumptions
(`ConstantsAssumption`, `OwnershipAssumption` and `SplitsEnd`, `RecoveryAssumption`,
`StoryBibleAssumption`, `GateAssumption`, `QueueAssumption`, `BoundsAssumption`,
`WorkflowAssumption`, `ProductionAssumption` and, for names that serve as local ids,
`NamesAssumption`): any number of workers, windows, proposals,
reviewers, jobs, requests, chunks and restarts. The bounds named above only limit how often the environment
acts; the theorems hold for each value of them. `Solo` (at most one worker), `MaxRestarts = 0` and
`MaxAttempts <= 1` (the default recovery budget) are assumptions of single theorems.

Three assumptions say more than a type. `ConstantsAssumption` of `NarrativeAnalysis` has
`MaxSchemaRepair \in 0..1`, the range the schema allows (`schemas/workflow.py:285`): with two repairs
`RepairBeforeHuman` would be false. `OwnershipAssumption` says that windows of a plan, and children of
one split, own different pieces of the source: a chunk belongs to the first window that shows it,
a chunk split makes a child per owned chunk, a slice split cuts one range in two. `WorkflowAssumption`
says that a job's shots can be ordered (`Buildable`), since `build_plan` refuses every other
job; `OrderRefusesCycles` proves which those are.

### NarrativeAnalysisProofs

| Theorem | Property | Argument |
|---|---|---|
| `TypeCorrect` | `TypeOK` | inductive; the payload operators map payloads to payloads |
| `ClaimsAreExclusive` | `Exclusive` | the claim compares the status, so exclusion needs that nobody's blind write gives a held window a claimable status. Writers that hold the window are covered by exclusion itself, the others only write `EXHAUSTED`, `NEEDS_HUMAN_ACTION` or `SPLIT`, or create windows that are absent (or equal) |
| `SuccessNeverRerun` | `NeverRerun` | from `Exclusive`: only a holder writes `RESERVED`, `RUNNING` or `FAILED`, and what it holds is not `SUCCEEDED` |
| `SplitsKeepScope` | `SplitKeepsScope` | `KidsPersisted`: a worker about to save a parent as split has its children in the database, and rows are never deleted |
| `ScopeIsKept` | `ScopeKept` | `Descent` (planned windows exist, every window lies within the plan, split windows have children), `Listed` with `Own` (the same of what workers hold), `Found` (a worker that goes to the aggregate found everything settled). When nothing is unsettled, a piece of source is followed down the forest, which `SplitsEnd` lets end, to a window that succeeded. That a success then goes missing between verdict and save does not matter: what is saved is what was found |
| `SoloBudget` | `ChargedBeforeCalled`, `RootBudget` | under `Solo`. `Budget`: the worker's copy of the run is current wherever it will be saved, and between taking the slot and charging it one slot is unspent |
| `RunIsHonest` | `RunHonest` | under `Solo`, from `SoloBudget` and `Standing`: between the opening of the run and its verdict the row and every copy the worker will save say `RUNNING`, so `SUCCEEDED` is written by a verdict alone, with every window settled, and no window moves before the run is opened again |
| `DenialIsSpent` | `DenialMeansSpent` | under `Solo`. `Denials`: the worker's optimistic update is never lost (`fresh`), so a refusal at `denied` is a spent cap. A `RESERVED` window goes to a human there only: whatever else the worker has still to do, children of a split included, is not `RESERVED`, also after a restart |
| `AggregateIsOwnedOnce` | `AggregateOwnedOnce` | under `Solo` and `MaxRestarts = 0`. `Owned`: the `Live` windows, those with a row that was not split, own disjoint pieces, as do the windows found by the verdict and those in the aggregate. A split replaces a parent by children that had no rows, since whoever has one answers for part of a scope the parent still answers for (`KidsNew`). For that no window may be split again or listed twice (`Queued`) |
| `RetriesAreExact` | `RetriesExact` | under `Solo` and `MaxRestarts = 0`. `Counted`: the calls made of a window are at most the calls of its row and of every payload the worker holds of it, and these are within the attempts unless the phase says that the repair was charged (`Within`); whatever has an output failure has had its repair, except the row of a failure the worker is about to retry, whose repair exists in the worker's payload only (`Repaired`) |

### TimelineGate3Proofs

| Theorem | Property | Argument |
|---|---|---|
| `TypeCorrect`, `StatusIsLock`, `CalledOnce`, together `StageIsExclusive` | `StageExclusive` | `Lock`: who is between a claim and the save that ends it is the only one, and the row's status names the section. `Once`: after the first call the row never is `ABSENT` or `RESERVED` again |
| `VerdictsMatch` | `VerdictOnProposal` | `Sound`: every copy of the row, however old, is a good payload (verdict and bundle are about its own proposal), and whoever judges holds the proposal of the row |
| `ApprovalIsFinal` | `ApprovedKept` | from `Lock` and `Sound`: nobody holds an approved row, and whoever completes an approval completes the one that stands |
| `RecoveryIsAccounted` | `RecoveryAccounted` | under `Solo` and `MaxAttempts <= 1`. `InStep`: the worker's copy is the row wherever it is saved; `Accounted`: every recovery call is an attempt in the row, and the first rejection is kept with it |
| `ResolutionIsFinal` | `HumanFinal` | the same invariant with `Held`: a person decides only while the row waits for one, and then no worker holds it |

### Gate2RecoveryProofs

`Shape` holds for any interleaving: what is recorded of an attempt fits the calls made for it
(`Recorded`), and what a task holds at each place either is the successor of the row it is about to
replace or will be refused (`Standing`, `Saveable`); only the task whose insert won is between the
insert and the saved answer (`Single`). `Lone` holds as long as tasks have not overlapped: the copy
of the run that is to be saved is the run, and a directive leaves room for its own calls.

| Theorem | Property | Argument |
|---|---|---|
| `RecoveryIsSound` | `RecoverySound` | `Shape` and `Budgeted`. Counting the attempts and inserting one are two transactions, so what keeps the count right is an order: all tasks go through the proposals in the same one, nobody gets past a proposal that could still be rerun (`PassedBy`), hence all tasks that have counted and not inserted are at the same proposal (`OneFresh`), where the unique key lets one insert win |
| `BudgetsAreKept` | `BudgetsKept` | with `Lone`; `Booking` says what a saved transition adds to the requests of all attempts |
| `OutcomesAreFinal` | `OutcomesStand` | a completed row is neither new nor followed by an allowed transition; for the audit `Lone`: who saves a review or a failure claimed a run without review |

### StoryBibleProofs

`Inv` has a part for what is stored and one for what each worker holds where it stands. `Stored`:
call, AgentRun and run follow each other (`RunStored`), a review is about its run and its frozen
bundle about it (`ReviewStored`), a plan has its approving review and is in the rows (`PlanStored`).
`Placed`: a worker on its way to the Curator has a run that is claimed and has no AgentRun; a worker
on its way to the canonical rows holds the draft of the approving review, or of the stored plan; and
what it is about to write does not conflict with the rows unless they moved since. `OneCaller`: the
claim lets one worker through. `OthersPlaced` says once why a step of one worker leaves every other
one rightly placed: stored entries are only added to, and a run, a plan and a review never lose what
others rely on (`Onward`).

| Theorem | Property | Argument |
|---|---|---|
| `ProductionIsTraced` | `ProductionTraced` | `RunStored`, `ReviewStored`, with `OneCaller` for the single call. The snapshot read before the run is prepared may be another one; `save_review` compares it, so what is stored is about the run's |
| `CanonIsSound` | `CanonSound` | a receipt alone lets freeze skip the commit, so `Placed` and `PlanStored` relate each plan to the review whose draft it is. The bundle is compared with the rows when it is read, not when it is saved: what is saved is what was read. Rows a plan wrote stay in force because revisions only grow (`Written`) |
| `CanonIsFinal` | `CanonFinal` | `Write` alone changes rows, through the revision gate (`AppliedIs`); a review changes by its freeze alone, once |

### BackgroundProofs

What goes on in the background of the API: the pipeline tasks behind their gate, and the workers that
draw a comic. `ProviderGate` first:

| Theorem | Property | Argument |
|---|---|---|
| `AllowanceIsExact` | `AllowanceExact` | `Alone`: until probes overlap, a task that waits for an answer is the only one, and the row it read still has the count of the stored one. A probe that an UNAVAILABLE object cannot even send counts as begun: it is recorded while another may wait for its answer, which takes three tasks and so lies beyond the instance of the run |
| `GateIsReported` | `GateReported` | `MadeOnce`: a task makes one Provider object at most between two restarts (tasks at `build` and objects made are no more than tasks); `Carried`: while one object was made everybody holds it, and behind a negotiation it carries a profile; `Told`: where a run with or without a result can be |
| `SettledStays` | the safety part of `TasksEndWell` | the same invariant: nobody waits for an answer when the row says CONFIGURATION_ERROR, unless probes overlapped; a succeeded run is settling, raised or over; `RefusedIs`: whatever turns a task away at the gate writes codes |


Then `ComicProduction`. `WorkersSound` is about the workers and their directories: a worker in an execution has its own
directory, which is still running (`Executing`), and there is a directory left for every worker
that is about to make one (`Room`, a count over the workers). `RequestsSound` is about the stores
and the API requests.

| Theorem | Property | Argument |
|---|---|---|
| `HandoffIsSound` | `HandoffSound` | `Named`: past the handoff a request holds a row that names its job, and the queue never loses the job. `Drafted`: an empty draft is being filled by a request that has it open as the draft, so when another request moves it to result.json, somebody fills the result (`ReplaceKeeps`). With three requests the file that is filled late may be neither: `moved` tells the three apart, and only who fills the current result mends it |
| `PagesAreSound` | `PagesSound` | `ProgressSound` with `PagesLinked`. `Filed`: a directory lists targets of the plan, and shots that passed. `Drawing`: what a worker's directory lists are exactly the targets before the one it is at, which come after the shots they continue (`PlanIsComplete`). `Counting`: the calls for a target are those of its repairs and of its tries since the last of them. `PagesLinked`: a row with pages, a request that writes them and a finished job name a directory that is complete and stays so |
| `OrderRefusesCycles` | (what `build_plan` accepts) | for a job of any length, the heap of ready shots orders all of them exactly when no set of shots continues within itself. By induction on the turns: a turn takes a ready shot, and when none is ready the shots left are such a set |
| `EndedIsFinal` | `ExecutionsFinal` | `Executing`: who writes to a directory is the worker whose execution runs there (`ExecutionAdvances`). Putting back is `Retry` and `Recover` alone, each guarded by the state of the job |

### ImageQueueProofs

`Inv` has these parts: `OneFile`; `MoveReady` (a pending move has its file, and only a holder of the
lock has one); `Neat` (while the lock is held every other file lies where its record says, so the
rest of the operation may trust the directories); `Booked` (attempts and history agree and a running
job names its worker); `WorkerHasJob` (a worker has a job from claim to outcome, and the lock
exactly while it moves a file); `OwnAttempt`.

| Theorem | Property | Argument |
|---|---|---|
| `TypeCorrect`, `FilesAreSingle`, `AuditIsComplete`, `OwnerFinishes`, together `RecordsAreSound` | `RecordsSound` | conjuncts of `Inv`, or implied by it |
| `Refinement` | `ActsAtomically` | a write changes one record, and as the abstract operation says (`BeginStep`, `AtomicOperations`); a move, a repair and a crash change none (`RenameStep`, `RepairStep`). The order of claims carries over because `Tidy` puts exactly the records with status pending into that directory |
| `ResultsAreFinal` | `ResultKept` | from the refinement: no abstract operation touches a succeeded or cancelled record |

### SourceAndAnswersProofs and ReviewAndCanonProofs

The rules, for inputs of every size, and the theorems about the specification of `MCRules`, in two modules
that do not know of each other: the prover is several times faster when a module holds fewer facts. The few
lemmas both need (`LeastOf`, `InductiveSet`, `MaxIn`, `NumberCounts`, `Multiples`, `Division`,
`DivisionOnce` and `Topics`, each with the topics it has) are proved in both.

`SourceAndAnswersProofs`, from the text to the answers of the agents:

| Theorem | Property | Argument |
|---|---|---|
| `DocumentsAreSound` | `DocumentsSound` | three questions: a text, an audit, two imports. The first two are from the four rows below; what is left is that the texts and inputs asked about have the shape these theorems are about. Imports (`ImportsAreHarmless`): an approved upload is stored complete (`ApprovedIsStored`); approved anew under its own name it is approved whole, and under another name, as ids of chunks contain the document's, none of the stored chunks is (`RenewedReads`); what can be read follows (`CompleteReads`) |
| `ParsedChunks` | (part of `DocumentsSound`) | chapters, and in them paragraphs, are cut by a recursion that exists (`CutsExist`); their bodies and paragraphs are apart and leave out headings and blanks only (`BodiesAre`, `ParagraphsAre`), a long paragraph is cut into spans within the limit (`SpansAre`), and so are all spans of a text apart and complete (`ChunkSpansAre`, `AllSpansAre`). Counting how many spans are before each lists them in order (`InOrderIs`) |
| `ParsedIsAnswered` | (part of `DocumentsSound`) | chapters and chunks are as the audit wants them (`ParsedChaptersFine`, `ParsedChunksFine`), so it finds empty chapters, no chunks at all, forbidden characters and twins, and nothing else |
| `EveryInputAnswered` | (part of `DocumentsSound`) | case by case what the review proposes is held against the schema of its result; what the schema refuses is chunks out of order, or a document blocked without a chunk to show for it, and of these the failed result is accepted |
| `GoesOnSound` | (part of `DocumentsSound`) | no finding blocks or holds the document, so each chunk is fine by itself and no two cross (`UnblockedChunks`); ids and orders that have no twin occur once (`TwinsNone`), so the bundle lists all chunks in their order (`ApprovedStand`) |
| `WindowsAreSufficient` | `WindowsSuffice` | for documents of any length and every window size, stride and batch. `StartsFit`: the planned starts and the gaps they leave cover the batch, and every window but a lone first one has its full size; so the last chunk of a window is shown by no earlier one, and each window owns something (`OwnedInBatch`). A chunk is in one batch (`BatchOf`), so what holds within a batch holds in the document (`WindowsOwn`). This is the part of `OwnershipAssumption` about a plan. The cap: the sum of the powers of two over the depths is what a tree of slices has (`TreePaid`), by induction on the depth; so the cap and what the splits may call differ by the first children that exceed two for each window (`BudgetsCompare`), and a window of at most two chunks has two at most (`TwoChildrenEach`) |
| `EvidenceIsSound` | `EvidenceSound` | for two chunks with texts of any length over any alphabet, of which any beginning is shown, and every reference. `CutOfBeginning`: a cut within the shown beginning is the same cut of the whole text, and `OccursStill`: a quote found in the beginning is found in the text; so what is `Good` for the window is good everywhere (`GoodEverywhere`). `ReboundFits` and `RebasedFits`: what normalising puts is good, so it is put once (`NormalisedFits`, `KeptOnce`); the same of the curator's grounding (`GroundedFits`). `MidpointKeeps`: the sentence end next to the middle is taken only within the minimum of both ends, and the middle is there too; `CutsJoin` joins the halves. `AnchorAround`: the cut from the last sentence end before the first mention to the first one after it holds the mention and no other end |
| `CallsAreHandled` | `CallsHandled` | the fault of a reply is one of the answer's, the agent's or the connection's (`AnswerFaultIs`, `RepliesHave`); case by case its category, treatment and circuit follow (`CallEnds`, `Treated`, `Filed`). `ReadinessIs` and `SchemaModeIs`: a mode is reported only after a valid probe, and the automatic policy gets past a refusal. What a repair asks for is compared with the contracts (`EventsAdvised`, `EventRuleNamed`, `SignalsAdvised`), and for evidence with `EvidenceIsSound` |
| `ContractsDoAgree` | `ContractsAgree` | proposals: ids of no entity become mentions, which together name whom they named, so an event or claim linked anew keeps its contract (`RelinkedEvents`, `RelinkedClaims`), and so do the lifted version and a renamed state (`LiftedEvents`, `RenamedStates`). Changes and signals: what is normalised is put again from the window's chunks without a duplicate, whatever the chunks (`NormalisedFits`), so the supports still point at it and the first one names one chunk (`RewrittenChanges`, `RewrittenSignals`); two changes of one key had values that the batch refuses (`MergedChanges`), and `SwappedSignals` |

`ReviewAndCanonProofs`, from the proposals to the canon:

| Theorem | Property | Argument |
|---|---|---|
| `ReviewIsSound` | `ReviewSound` | the run asks about three proposals of two windows; the lemmas are about any finite `Batch`: proposals with different ids, the links of events and claims local ids, each looked up under its kind, or mentions, with an id or without. `LeaderIs`, `LeaderOnce`: equal keys have one leader, the first by window and local id, so ids and aliases lead to one envelope (`AliasIs`, `EnvelopeOnce`, `RunsAreKept`). `LinkBecomes` follows a link through namespacing, mention and alias; from it `LinksAreFaithful` and `EnvelopeLinks`: what keeps an id has an envelope of its kind. A mention with an id stays as it is (`PresetStays`), and a local id is none of an envelope, so it is refused (`LostIs`, `LinksLead`). `ReferenceIs` checks each reference against its contract, and that a link with a target is not to nothing; `Judged` adds the other checks, all of which block, so that a person is asked about ambiguous links only. `BundleIs`, `NamedAreApproved`: when nothing is refused or open, every target in the catalog is passed on. `DuplicatesDiffer`: two events or claims the Timeline calls equal, quoted from one place, had one merge key |
| `TimelineIsSound` | `TimelineSound` | three questions. The pairs (`PairsAreSpread`, any story and bound): all pairs are half of n(n - 1) (`AllPairsAre`), neighbours and related pairs have none in common (`RelatedPairsAre`), and a sample goes up from place to place, because places are more than one rounding apart (`SampleSpreads`, `RoundedNear`). One pair (`InferredIs`, any evidence): what may be quoted is what either event quotes and is at hand, once (`PairEvidenceIs`). Gate 3 (`Gate3Decides`, any events and relations): the edges of `BEFORE` and `AFTER` without a cycle have an order (`OrderOf`: some event is preceded by none, and so on down), edges with one have none (`OrderRefutes`); other kinds have no edges, and nothing is said of them; a pair with two kinds is found although only the last relation of the pair is compared (`ContrariesFound`) |
| `CyclesAgree` | (part of `TimelineSound`) | Gate 3 searches for a set of events each of which has a predecessor in it; the StoryBible closes predecessors a step at a time, once for each event. The closure is complete (`PredecessorsClosed`: as long as it grows, it has an event more), so an event before itself is in such a set, and in such a set some event is before itself |
| `PlansAreSound` | `PlansSound` | three questions, each from theorems about any stored rows, drafts and plans. The order of events (`OrderTrusted`, any events and relations): edges without a cycle have a numbering (`NumberingsExist`), edges between all events have one only, which counts what is before each (`NumberingIs`), and edges that leave two events open leave both orders of them (`OpenEitherWay`). A plan: `ApprovedStaysCoherent`; and decision and commit depend on the set of planned resources, so neither order nor repetition counts (`DecidedAlike`, `CommitsAlike`, `CommittedTwice`). A draft: the three rows below. What is left is that the drafts and plans asked about have the shape these theorems are about (`DraftsAsked`, `PlansAsked`) |
| `ApprovedStaysCoherent` | (part of `PlansSound`) | an approved plan has no problem (`ApprovedIs`), and each way to make the rows contradict each other is one: a name taken, states or relationships that hold together and differ, two rules of a name (`NamesAreTaken`, `HeldTogether`, `RelationshipsAgree`, `CoherentStays`) |
| `WordingForgotten` | (part of `PlansSound`) | what a draft restates under other local ids settles its profiles alike (`SettledAlike`), and with them all references (`RestatedRefer`), so its rows, their digests and the plan are the same (`RestatedRows`, `RestatedPlan`) |
| `NormalisedIsReviewable` | (part of `PlansSound`) | what is made of a draft refers to profiles there are (`ReferKnown`), has events that exist and evidence that is sound, and gets ids of its own (`NormalApart`), so of the validator's findings those about conflicts are left (`MadeFine`, `OnlyConflicts`) |
| `AmbiguousDraftsAlike` | (part of `PlansSound`) | two resources that come out with one digest agree in all that enters it, and ids that are settled alike are ids of profiles alike (`ReferApart`) |

### Only model-checked

Liveness (`RunSettles`, `TimelineSettles`, `PendingIsTaken`, `WorkEnds`, `ApprovedGetsFrozen`,
`TasksEnd`), which is out of the prover's reach; every invariant a run checks is stated by a theorem
above. Some of the rules fold over sequences
or texts, and what a fold computes for every input needs induction over data. Where that was needed
(`TurnsDefined`, `OrderRefusesCycles`, `TreePaid`, `FlattenIs`, `EachOnceIs`), it is stated of a recursive function
on numbers and derived from the well-founded order of the numbers: a set of numbers with 0 and all
successors has all of them (`InductiveSet`). A function that the library chooses by its recursive
equation exists (`Recursing`, `Folding`), which is what the fold of a sequence needs to be anything.

## 7. What could follow

1. A refinement of `ComicProduction`'s queue item by `ImageQueue` with its two-step file operations,
   now argued through `AtomicQueue`.
2. Planning of panels from a frozen StoryBible, and the storyboards, as rules.

## 8. What is left out, and why

* Contents of proposals, prompts, HTTP: a Provider call is its outcome. Wording, messages, ids made of
  digests and layout appear where something is decided by them.
* AgentRun audit rows of the narrative analysis: written beside the windows, never read for a decision
  there. In the Timeline and in StoryBible production they are modelled, because a second save ends
  the task or resumes it.
* Progress views, performance reports, `provider_request_count` of the Timeline row and
  `production-manifest.json`: shown, never read for a decision.
* The campus profile and the formats it alone uses; the stand-alone Timeline endpoint and its cache.
* In the file queue: errors of the file system, the model backend and its reuse between jobs,
  `--watch` polling (a worker may look at any time).
* Planning of panels, storyboards, lettering, drawing of pages and the visual check are sequential
  computations over text and pixels; the model takes their outcome.
* The database module is a schema: the models take from it one transaction per repository call and the
  unique keys. Settings, evaluation, demo, scripts and consoles are tools around the system.
* Simplifications inside the modelled parts: a snapshot read by four SELECTs is one read; the insert
  race of the first circuit row is left out; a retry or cancel of a production reads its row and changes
  the job in one step; resources of `StoryBible` are profiles only; in the rules one proposal has one
  evidence reference and an entity's type is part of its name; blank ids, blank scopes and the
  inference of old claim versions are left out; context chunks outside the Gate 1 approval, which make
  a review fail, do not occur.

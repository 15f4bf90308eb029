--------------------------- MODULE ComicProduction ---------------------------
(***************************************************************************)
(* One comic production from its request to its pages.  API clients        *)
(* (ComicProductionCoordinator) keep a row in the database and put a job   *)
(* in the image queue; queue workers execute the job (ImageWorkflow); the  *)
(* clients copy the job's state to the row when they are asked for it and  *)
(* compose the pages.  Row, queue and run directories are three stores     *)
(* that no transaction spans, and every save writes a row read earlier.    *)
(***************************************************************************)
EXTENDS ImageWorkflow

CONSTANTS
    Clients       \* concurrent API requests

ASSUME ProductionAssumption == IsFiniteSet(Workers)

VARIABLES
    row,       \* comic_production_runs: the row of this request, if any
    item,      \* the queue's record of its job, if any
    draft,     \* result.json.tmp in each run directory
    torn,      \* the run directories whose result.json is half written
    req,       \* where each API request stands, and the row it holds
    restarted  \* history: the API process has died

vars == <<plan, runs, at, row, item, draft, torn, req, restarted>>

Root == 0..MaxRuns

\* queue_id is set or not; run_root and the pages name a run directory, 0 for none.
Row == [status : {"COMPILED", "QUEUED", "RUNNING", "SUCCEEDED", "FAILED", "CANCELLED"},
        queued : BOOLEAN, root : Root, pages : Root]

NoRow == [status |-> "none", queued |-> FALSE, root |-> 0, pages |-> 0]

ItemState == {"pending", "running", "succeeded", "failed", "cancelled"}

NoItem == [status |-> "none", root |-> 0]

Compiled == [NoRow EXCEPT !.status = "COMPILED"]

Request == {"idle", "select", "insert", "enqueue", "save", "look",
            "compose", "fill", "replace", "measure"}

\* moved: what became of the draft this request writes.  It still is the draft; or it is
\* result.json now, moved there by another request; or another result.json took its place.
NoRequest == [step |-> "idle", held |-> NoRow, moved |-> "no"]

Init ==
    /\ \E p \in Plans : plan = WorkflowPlan(p)
    /\ runs = <<>>
    /\ at = [w \in Workers |-> Stand("idle", 0)]
    /\ row = NoRow
    /\ item = NoItem
    /\ draft = [r \in 1..MaxRuns |-> "none"]
    /\ torn = {}
    /\ req = [c \in Clients |-> NoRequest]
    /\ restarted = FALSE

Stores == <<row, item, draft, torn>>

Hold(c, step, held) == req' = [req EXCEPT ![c] = [step |-> step, held |-> held, moved |-> "no"]]

\* The answer is given, an error among them; the request is over.
Answer(c) == req' = [req EXCEPT ![c] = NoRequest]

Idle(c) == req[c].step = "idle"
Holds(c) == req[c].held

-----------------------------------------------------------------------------
(* POST comic-runs: compile_and_enqueue *)

\* An earlier request made the row: it is refreshed.  Else the plan is built, or refused.
Post(c) ==
    /\ Idle(c)
    /\ IF row = NoRow THEN Hold(c, "select", NoRow)
       ELSE /\ row.queued
            /\ Hold(c, "look", row)
    /\ UNCHANGED <<plan, runs, at, Stores, restarted>>

\* create_or_get looks again ...
Select(c) ==
    /\ req[c].step = "select"
    /\ IF row = NoRow THEN Hold(c, "insert", NoRow) ELSE Hold(c, "enqueue", row)
    /\ UNCHANGED <<plan, runs, at, Stores, restarted>>

\* ... before it inserts; the second of two inserts breaks the key and is answered with an error.
Insert(c) ==
    /\ req[c].step = "insert"
    /\ IF row = NoRow
       THEN row' = Compiled /\ Hold(c, "enqueue", Compiled)
       ELSE Answer(c) /\ UNCHANGED row
    /\ UNCHANGED <<plan, runs, at, item, draft, torn, restarted>>

\* Slip: the job is put in the queue whatever lies there.
Enqueue_Anew(c) ==
    /\ req[c].step = "enqueue"
    /\ item' = [status |-> "pending", root |-> 0]
    /\ Hold(c, "save", [Holds(c) EXCEPT !.status = "QUEUED", !.queued = TRUE])
    /\ UNCHANGED <<plan, runs, at, row, draft, torn, restarted>>

\* Slip: queue_id is not set.
Enqueue_Unnamed(c) ==
    /\ req[c].step = "enqueue"
    /\ item' = IF item = NoItem THEN [status |-> "pending", root |-> 0] ELSE item
    /\ Hold(c, "save", [Holds(c) EXCEPT !.status = "QUEUED"])
    /\ UNCHANGED <<plan, runs, at, row, draft, torn, restarted>>

\* "already exists" is not an error here.
Enqueue(c) ==
    /\ req[c].step = "enqueue"
    /\ item' = IF item = NoItem THEN [status |-> "pending", root |-> 0] ELSE item
    /\ Hold(c, "save", [Holds(c) EXCEPT !.status = "QUEUED", !.queued = TRUE])
    /\ UNCHANGED <<plan, runs, at, row, draft, torn, restarted>>

\* repository.save: the row read long ago, with what changed, over whatever is there.
Save(c) ==
    /\ req[c].step = "save"
    /\ row' = Holds(c)
    /\ Answer(c)
    /\ UNCHANGED <<plan, runs, at, item, draft, torn, restarted>>

-----------------------------------------------------------------------------
(* GET, retry and cancel, and the refresh that ends each of them *)

\* A row without queue_id is returned as it is, and has nothing to retry or cancel.
Ask(c) ==
    /\ Idle(c)
    /\ row.queued
    /\ Hold(c, "look", row)
    /\ UNCHANGED <<plan, runs, at, Stores, restarted>>

\* The row is read, and the item leaves its state; the refusal of a retry or cancel that does
\* not fit that state changes nothing.
Requeue(c, from, to) ==
    /\ Idle(c)
    /\ row.queued
    /\ item.status = from
    /\ item' = [item EXCEPT !.status = to]
    /\ Hold(c, "look", row)
    /\ UNCHANGED <<plan, runs, at, row, draft, torn, restarted>>

Retry(c) == Requeue(c, "failed", "pending")
Cancel(c) == Requeue(c, "pending", "cancelled")

Shown == [pending |-> "QUEUED", running |-> "RUNNING", succeeded |-> "SUCCEEDED",
          failed |-> "FAILED", cancelled |-> "CANCELLED"]

\* The state of the queue item; pages are composed once, results read each time.  A row that
\* would not change is not saved.
Look(c) ==
    LET viewed == [Holds(c) EXCEPT !.status = Shown[item.status],
                                 !.root = IF item.root # 0 THEN item.root ELSE @]
    IN /\ req[c].step = "look"
       /\ IF viewed = Holds(c) /\ (viewed.status = "SUCCEEDED" => viewed.pages # 0) THEN Answer(c)
          ELSE Hold(c, CASE viewed.status # "SUCCEEDED" -> "save"
                         [] viewed.status = "SUCCEEDED" /\ viewed.pages = 0 -> "compose"
                         [] OTHER -> "measure", viewed)
       /\ UNCHANGED <<plan, runs, at, Stores, restarted>>

-----------------------------------------------------------------------------
(* ComicPageComposer.compose, and write_json's draft file that two composers share *)

Readable(c) == Holds(c).root \notin torn

\* Read the result, draw the pages, and open the draft: it is empty at first.
Compose(c) ==
    LET r == Holds(c).root IN
    /\ req[c].step = "compose"
    /\ IF Readable(c) /\ runs[r].status = "succeeded" /\ Shots \subseteq runs[r].done
       THEN Hold(c, "fill", Holds(c)) /\ draft' = [draft EXCEPT ![r] = "part"]
       ELSE Answer(c) /\ UNCHANGED draft
    /\ UNCHANGED <<plan, runs, at, row, item, torn, restarted>>

\* What is written goes to the file that was opened, whatever its name has become.
Fill(c) ==
    LET r == Holds(c).root IN
    /\ req[c].step = "fill"
    /\ draft' = IF req[c].moved = "no" THEN [draft EXCEPT ![r] = "full"] ELSE draft
    /\ torn' = IF req[c].moved = "current" THEN torn \ {r} ELSE torn
    /\ Hold(c, "replace", Holds(c))
    /\ UNCHANGED <<plan, runs, at, row, item, restarted>>

\* temporary.replace(path): raises when the other composer has moved the file already.
Replace(c) ==
    LET r == Holds(c).root IN
    /\ req[c].step = "replace"
    /\ IF draft[r] = "none"
       THEN Answer(c) /\ UNCHANGED <<draft, torn>>
       ELSE /\ draft' = [draft EXCEPT ![r] = "none"]
            /\ torn' = IF draft[r] = "part" THEN torn \cup {r} ELSE torn \ {r}
            /\ req' = [d \in Clients |->
                          IF d = c THEN [req[c] EXCEPT !.step = "measure", !.held.pages = r]
                          ELSE IF req[d].step = "fill" /\ Holds(d).root = r
                          THEN [req[d] EXCEPT !.moved = IF @ = "no" THEN "current" ELSE "gone"]
                          ELSE req[d]]
    /\ UNCHANGED <<plan, runs, at, row, item, restarted>>

\* The performance report is read from result.json before the row is saved.
Measure(c) ==
    /\ req[c].step = "measure"
    /\ IF Readable(c) THEN Hold(c, "save", Holds(c)) ELSE Answer(c)
    /\ UNCHANGED <<plan, runs, at, Stores, restarted>>

ClientStep(c) ==
    \/ Select(c) \/ Insert(c) \/ Enqueue(c) \/ Save(c)
    \/ Look(c) \/ Compose(c) \/ Fill(c) \/ Replace(c) \/ Measure(c)

\* The API process ends, with every request in it.
Restart ==
    /\ \E c \in Clients : ~Idle(c)
    /\ req' = [c \in Clients |-> NoRequest]
    /\ restarted' = TRUE
    /\ UNCHANGED <<plan, runs, at, Stores>>

-----------------------------------------------------------------------------
(* run_queue_worker *)

Claim(w) ==
    /\ at[w].step = "idle"
    /\ item.status = "pending"
    /\ Len(runs) + Cardinality({v \in Workers : at[v].step = "open"}) < MaxRuns
    /\ item' = [item EXCEPT !.status = "running"]
    /\ at' = [at EXCEPT ![w] = Stand("open", 0)]
    /\ UNCHANGED <<plan, runs, row, draft, torn, req, restarted>>

\* The catalog, the plan or the backend does not load.
LoadFails(w) ==
    /\ at[w].step = "open"
    /\ at' = [at EXCEPT ![w] = Stand("fail", 0)]
    /\ UNCHANGED <<plan, runs, Stores, req, restarted>>

Works(w) == RunWorkflow(w) /\ UNCHANGED <<Stores, req, restarted>>

\* Refused when the item is not running (any more); the refusal is handled as a failure.
Succeed(w) ==
    /\ at[w].step = "succeed"
    /\ IF item.status = "running"
       THEN /\ item' = [status |-> "succeeded", root |-> Run(w)]
            /\ at' = [at EXCEPT ![w] = Stand("idle", 0)]
       ELSE at' = [at EXCEPT ![w] = Stand("fail", 0)] /\ UNCHANGED item
    /\ UNCHANGED <<plan, runs, row, draft, torn, req, restarted>>

\* A refused fail ends the process.
Fail(w) ==
    /\ at[w].step = "fail"
    /\ item' = IF item.status = "running" THEN [item EXCEPT !.status = "failed"] ELSE item
    /\ at' = [at EXCEPT ![w] = Stand(IF item.status = "running" THEN "idle" ELSE "off", 0)]
    /\ UNCHANGED <<plan, runs, row, draft, torn, req, restarted>>

CrashWorker(w) ==
    /\ at[w].step \notin {"off", "idle"}
    /\ at' = [at EXCEPT ![w] = Stand("idle", 0)]
    /\ UNCHANGED <<plan, runs, Stores, req, restarted>>

\* recover_running, from the command line: nobody checks that the worker is gone.
Recover ==
    /\ item.status = "running"
    /\ item' = [item EXCEPT !.status = "pending"]
    /\ UNCHANGED <<plan, runs, at, row, draft, torn, req, restarted>>

WorkerStep(w) == Works(w) \/ LoadFails(w) \/ Succeed(w) \/ Fail(w)

Next ==
    \/ \E c \in Clients : Post(c) \/ Ask(c) \/ Retry(c) \/ Cancel(c) \/ ClientStep(c)
    \/ \E w \in Workers : Claim(w) \/ WorkerStep(w) \/ CrashWorker(w)
    \/ Recover \/ Restart

Spec == Init /\ [][Next]_vars

-----------------------------------------------------------------------------
(* Properties *)

\* Type correctness of the stores, the workers and the requests.
TypeOK ==
    /\ plan.parent \in Plans /\ Range(plan.order) = 1..(Len(plan.parent) + Anchors)
    /\ runs \in Seq(Directory(plan.parent)) /\ Len(runs) <= MaxRuns
    /\ at \in [Workers -> Standing]
    /\ row \in Row \cup {NoRow}
    /\ item \in [status : ItemState, root : Root] \cup {NoItem}
    /\ draft \in [1..MaxRuns -> {"none", "part", "full"}]
    /\ torn \subseteq 1..MaxRuns
    /\ req \in [Clients -> [step : Request, held : Row \cup {NoRow}, moved : {"no", "current", "gone"}]]
    /\ restarted \in BOOLEAN

\* A row, or a request about to save one, that names a queue item names one that exists, so
\* refresh never meets an unknown id and retry and cancel reach their job.
QueuedHasItem ==
    /\ row.queued => item # NoItem
    /\ \A c \in Clients : Holds(c).queued => item # NoItem

\* Pages, in the row or in the hands of a request, come from the execution the queue holds as
\* the successful one; it is complete, and each of its images passed the visual QA.  Late
\* workers, recoveries, retries and stale saves do not mix two executions.
PagesAccepted ==
    \A r \in ({row.pages} \cup {Holds(c).pages : c \in Clients}) \ {0} :
        /\ item.status = "succeeded" /\ item.root = r
        /\ runs[r].status = "succeeded"
        /\ Shots \subseteq runs[r].passed

\* However often and by however many clients the request is repeated, its job is executed
\* anew only after a failure or a recovery: a finished or cancelled job is never put back.
ResubmissionHarmless ==
    [][item # NoItem /\ item'.status = "pending" /\ item.status # "pending" =>
         item.status \in {"failed", "running"}]_vars

\* An execution that has ended is final in its directory: no other worker, retry or later
\* execution changes what it drew, called or reported.
DirectoryFinal ==
    [][\A r \in DOMAIN runs : runs[r].status # "running" => runs'[r] = runs[r]]_vars

\* A row that does not name its job yet is being handed to the queue by the request that
\* inserted it, unless the API process died in between: nobody else would do it any more.
HandoffUnderWay ==
    row # NoRow /\ ~row.queued =>
        restarted \/ \E c \in Clients : req[c].step \in {"enqueue", "save"}

\* A result file torn by two composers is about to be filled by the one whose draft was taken,
\* unless the API process died in between: every later refresh can read it again.
TornIsFilled ==
    \A r \in torn : restarted \/
        \E c \in Clients : req[c].step = "fill" /\ req[c].moved = "current" /\ Holds(c).root = r

\* Pages show accepted images only, each continued from an accepted one and drawn within its
\* retries.
PagesSound == TypeOK /\ PagesAccepted /\ ParentAccepted /\ CallsBounded

\* Row, queue item and result file agree, or a request is under way that makes them agree.
HandoffSound == QueuedHasItem /\ HandoffUnderWay /\ TornIsFilled

\* What an execution ended with is final, whoever asks again.
ExecutionsFinal == DirectoryFinal /\ ResubmissionHarmless
=============================================================================

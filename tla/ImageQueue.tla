------------------------------ MODULE ImageQueue ------------------------------
(***************************************************************************)
(* QueueStore and run_queue_worker: a queue of image jobs kept as files    *)
(* <state>/<queue_id>.json.  Every operation runs under one file lock,     *)
(* first repairs what a crash left behind, and changes a job in two steps: *)
(* the new record is written over the file where it lies, then the file is *)
(* moved to the directory of its new state.  The process can die between   *)
(* the two, and the operating system releases its lock.                    *)
(***************************************************************************)
EXTENDS QueueItem, FiniteSets

CONSTANTS
    MaxAttempts,  \* bound: attempts after which a job is not put back
    MaxCrashes,   \* bound: crashes
    MaxStarts     \* bound: worker processes started

ASSUME BoundsAssumption ==
    /\ MaxAttempts \in Nat
    /\ MaxCrashes \in Nat
    /\ MaxStarts \in Nat

VARIABLES
    files,     \* files[j][d]: the record in the file of job j in directory d
    move,      \* the file move the holder of the lock has still to make, if any
    holder,    \* who holds the lock: a worker, a client, a client in recover_running
    pc,        \* where each worker stands
    job,       \* the item a worker claimed
    robbed,    \* history: recover_running has taken a job from a worker that was at it
    crashes,   \* crashes so far
    starts     \* worker processes started so far

vars == <<files, move, holder, pc, job, robbed, crashes, starts>>

Move == [job : Jobs, from : QueueState, to : QueueState]

-----------------------------------------------------------------------------
(* The lock and the repair every operation begins with *)

\* Slip: files are left where they lie.
Settled_AsIs(f) == f

\* The files of one job after _repair_transitions: each lies where its record says.
Settled(f) ==
    [d \in QueueState |->
        IF \E e \in QueueState : f[e].status = d
        THEN f[CHOOSE e \in QueueState : f[e].status = d]
        ELSE NoItem]

\* It raises when the destination of a move is taken.
Repairable(f) ==
    \A d, e \in QueueState :
        d # e /\ Exists(f[d]) /\ Exists(f[e]) => f[d].status \notin {e, f[e].status}

Tidy == [j \in Jobs |-> Settled(files[j])]

Locks == holder = "free" /\ \A j \in Jobs : Repairable(files[j])

In(j, d) == Exists(Tidy[j][d])

\* _write: the record of j in directory d is replaced.
Write(j, d, item) == files' = [Tidy EXCEPT ![j][d] = item]

\* The first half of an operation of p that takes j from one directory to another.
Begin(p, j, from, to, item) ==
    /\ Write(j, from, item)
    /\ move' = {[job |-> j, from |-> from, to |-> to]}
    /\ holder' = p

\* The second half, source.replace(destination), after which the lock is released.
Rename ==
    \E m \in move :
        /\ files' = [files EXCEPT ![m.job][m.to] = files[m.job][m.from],
                                  ![m.job][m.from] = NoItem]
        /\ move' = {}

-----------------------------------------------------------------------------
Init ==
    /\ files = [j \in Jobs |-> [d \in QueueState |-> NoItem]]
    /\ move = {}
    /\ holder = "free"
    /\ pc = [w \in Workers |-> "off"]
    /\ job = [w \in Workers |-> "none"]
    /\ robbed = FALSE
    /\ crashes = 0
    /\ starts = 0

Goto(w, label) == pc' = [pc EXCEPT ![w] = label]

\* The worker has no item: it is not running, or between two jobs.
Drop(w, label) == Goto(w, label) /\ job' = [job EXCEPT ![w] = "none"]

-----------------------------------------------------------------------------
(* Clients: the API, the command line *)

\* Slip: only the pending directory is searched.
Known_PendingOnly(j) == In(j, "pending")

\* _find_path searches every directory.
Known(j) == \E d \in QueueState : In(j, d)

Enqueue(j) ==
    /\ Locks
    /\ ~Known(j)
    /\ \E now \in Times : Write(j, "pending", Enqueued(now))
    /\ UNCHANGED <<move, holder, pc, job, robbed, crashes, starts>>

\* get and list_items, and every operation that is refused: they only repair.
Look ==
    /\ Locks
    /\ files' = Tidy
    /\ UNCHANGED <<move, holder, pc, job, robbed, crashes, starts>>

Retry(j) ==
    LET item == Tidy[j]["failed"] IN
    /\ Locks
    /\ In(j, "failed")
    /\ item.attempts < MaxAttempts
    /\ Begin("client", j, "failed", "pending", Retried(item))
    /\ UNCHANGED <<pc, job, robbed, crashes, starts>>

Cancel(j) ==
    /\ Locks
    /\ In(j, "pending")
    /\ Begin("client", j, "pending", "cancelled", Cancelled(Tidy[j]["pending"]))
    /\ UNCHANGED <<pc, job, robbed, crashes, starts>>

ClientMoves ==
    /\ holder = "client"
    /\ Rename
    /\ holder' = "free"
    /\ UNCHANGED <<pc, job, robbed, crashes, starts>>

\* recover_running keeps the lock while it puts back one running job after the other.
OpenRecovery ==
    /\ Locks
    /\ \E j \in Jobs : In(j, "running")
    /\ \A j \in Jobs : In(j, "running") => Tidy[j]["running"].attempts < MaxAttempts
    /\ files' = Tidy
    /\ holder' = "recover"
    /\ UNCHANGED <<move, pc, job, robbed, crashes, starts>>

\* Between the claim and the saved outcome.
AtWork == {"work", "succeed", "fail"}

Recover(j) ==
    LET item == files[j]["running"] IN
    /\ holder = "recover" /\ move = {}
    /\ Exists(item)
    /\ files' = [files EXCEPT ![j]["running"] = Recovered(item)]
    /\ move' = {[job |-> j, from |-> "running", to |-> "pending"]}
    /\ robbed' = (robbed \/ \E w \in Workers : pc[w] \in AtWork /\ job[w] = j)
    /\ UNCHANGED <<holder, pc, job, crashes, starts>>

RecoveryMoves ==
    /\ holder = "recover"
    /\ Rename
    /\ UNCHANGED <<holder, pc, job, robbed, crashes, starts>>

CloseRecovery ==
    /\ holder = "recover" /\ move = {}
    /\ \A j \in Jobs : ~Exists(files[j]["running"])
    /\ holder' = "free"
    /\ UNCHANGED <<files, move, pc, job, robbed, crashes, starts>>

-----------------------------------------------------------------------------
(* run_queue_worker *)

Start(w) ==
    /\ pc[w] = "off"
    /\ starts < MaxStarts
    /\ starts' = starts + 1
    /\ Goto(w, "loop")
    /\ UNCHANGED <<files, move, holder, job, robbed, crashes>>

\* max_jobs is reached, or the queue is empty and there is no --watch.
Leave(w) ==
    /\ pc[w] = "loop"
    /\ Goto(w, "off")
    /\ UNCHANGED <<files, move, holder, job, robbed, crashes, starts>>

\* Slip: a job that was interrupted or failed is never taken up again.
Claimable_Once(j) == In(j, "pending") /\ Tidy[j]["pending"].attempts = 0

Claimable(j) == In(j, "pending")

\* Slip: the youngest of the most urgent jobs is taken.
First_Youngest(j) ==
    \A k \in Jobs : Claimable(k) => Priority[k] > Priority[j] \/
        (Priority[k] = Priority[j] /\ Tidy[k]["pending"].at <= Tidy[j]["pending"].at)

First(j) ==
    \A k \in Jobs : Claimable(k) => ~Precedes(k, Tidy[k]["pending"], j, Tidy[j]["pending"])

Claim(w) ==
    /\ pc[w] = "loop"
    /\ Locks
    /\ \E j \in Jobs :
          /\ Claimable(j) /\ First(j)
          /\ Begin(w, j, "pending", "running", Claimed(Tidy[j]["pending"], w))
          /\ job' = [job EXCEPT ![w] = j]
    /\ Goto(w, "claim")
    /\ UNCHANGED <<robbed, crashes, starts>>

\* run_workflow returns or raises; so may anything else in the try block before succeed.
Work(w) ==
    /\ pc[w] = "work"
    /\ \E label \in {"succeed", "fail"} : Goto(w, label)
    /\ UNCHANGED <<files, move, holder, job, robbed, crashes, starts>>

Outcome(w) == IF pc[w] = "succeed" THEN "succeeded" ELSE "failed"

\* _finish asks for a running job of that id, not for the worker's own attempt.
Finish(w) ==
    LET j == job[w] IN
    /\ pc[w] \in {"succeed", "fail"}
    /\ Locks
    /\ In(j, "running")
    /\ Begin(w, j, "running", Outcome(w), Finished(Tidy[j]["running"], Outcome(w)))
    /\ Goto(w, "finish")
    /\ UNCHANGED <<job, robbed, crashes, starts>>

\* The ValueError of succeed is caught and handed to fail, whose own ends the worker.
FinishRefused(w) ==
    /\ pc[w] \in {"succeed", "fail"}
    /\ Locks
    /\ ~In(job[w], "running")
    /\ files' = Tidy
    /\ IF pc[w] = "succeed" THEN Goto(w, "fail") /\ UNCHANGED job ELSE Drop(w, "off")
    /\ UNCHANGED <<move, holder, robbed, crashes, starts>>

WorkerMoves(w) ==
    /\ holder = w
    /\ Rename
    /\ holder' = "free"
    /\ IF pc[w] = "claim" THEN Goto(w, "work") /\ UNCHANGED job ELSE Drop(w, "loop")
    /\ UNCHANGED <<robbed, crashes, starts>>

-----------------------------------------------------------------------------
(* Crashes: the process ends, and with it its lock *)

CrashWorker(w) ==
    /\ crashes < MaxCrashes
    /\ pc[w] # "off"
    /\ Drop(w, "off")
    /\ IF holder = w THEN move' = {} /\ holder' = "free" ELSE UNCHANGED <<move, holder>>
    /\ crashes' = crashes + 1
    /\ UNCHANGED <<files, robbed, starts>>

CrashClient ==
    /\ crashes < MaxCrashes
    /\ holder \in {"client", "recover"}
    /\ move' = {} /\ holder' = "free"
    /\ crashes' = crashes + 1
    /\ UNCHANGED <<files, pc, job, robbed, starts>>

WorkerStep(w) ==
    Claim(w) \/ Work(w) \/ Finish(w) \/ FinishRefused(w) \/ WorkerMoves(w)

ClientStep == ClientMoves \/ RecoveryMoves \/ CloseRecovery \/ \E j \in Jobs : Recover(j)

Next ==
    \/ \E j \in Jobs : Enqueue(j) \/ Retry(j) \/ Cancel(j)
    \/ Look \/ OpenRecovery \/ ClientStep
    \/ \E w \in Workers : Start(w) \/ Leave(w) \/ WorkerStep(w) \/ CrashWorker(w)
    \/ CrashClient

Spec == Init /\ [][Next]_vars
-----------------------------------------------------------------------------
(* Properties *)

Labels == {"off", "loop", "claim", "work", "succeed", "fail", "finish"}

\* Type correctness of the files, the lock and the workers.
TypeOK ==
    /\ files \in [Jobs -> [QueueState -> Item \cup {NoItem}]]
    /\ move \subseteq Move
    /\ holder \in Workers \cup {"free", "client", "recover"}
    /\ pc \in [Workers -> Labels]
    /\ job \in [Workers -> Jobs \cup {"none"}]
    /\ robbed \in BOOLEAN
    /\ crashes \in 0..MaxCrashes
    /\ starts \in 0..MaxStarts

\* The record of a job, in whichever directory its file lies.
Content(f) ==
    IF \E d \in QueueState : Exists(f[d])
    THEN f[CHOOSE d \in QueueState : Exists(f[d])]
    ELSE NoItem

Record(j) == Content(files[j])

\* Wherever a process died, a job has one file: _find_path never meets "queue item exists in
\* multiple states" and _repair_transitions never finds the destination of a move taken.
OneFile ==
    \A j \in Jobs : \A d, e \in QueueState :
        Exists(files[j][d]) /\ Exists(files[j][e]) => d = e

\* "One auditable execution attempt" (QueueAttempt): every attempt that has ended is in the
\* history once, also after crashes, recoveries and outcomes reported by the wrong worker.
AuditTrail ==
    \A j \in Jobs :
        Record(j).attempts = Len(Record(j).history) + IF Record(j).status = "running" THEN 1 ELSE 0

\* As long as recover_running was used for abandoned jobs only, a worker that is at a job
\* owns it: the file says running and names that worker, so the outcome goes to its attempt.
OwnAttempt ==
    ~robbed => \A w \in Workers : pc[w] \in AtWork =>
        /\ files[job[w]]["running"].status = "running"
        /\ files[job[w]]["running"].worker = w

\* What the files say of a job is one coherent story, and the story of the worker at it.
RecordsSound == TypeOK /\ OneFile /\ AuditTrail /\ OwnAttempt

\* A result is final: no crash between the two steps of a move, no repair, no recovery and no
\* late worker takes a job out of succeeded or cancelled, or touches its record.
ResultKept ==
    [][\A j \in Jobs :
         Record(j).status \in {"succeeded", "cancelled"} => Record(j)' = Record(j)]_vars

\* In the two steps of every operation, and whatever dies between them, the queue behaves like
\* one whose operations are atomic and whose claims come in order: the write is the operation,
\* moves, repairs and crashes change nothing.
Atomic == INSTANCE AtomicQueue WITH book <- [j \in Jobs |-> Record(j)]
ActsAtomically == Atomic!Spec

\* A submitted job is not left lying while a worker is up.
PendingIsTaken ==
    \A j \in Jobs : Record(j).status = "pending" ~>
        Record(j).status # "pending" \/ \A w \in Workers : pc[w] = "off"

\* A process that has work goes on with it.
Fairness == WF_vars(ClientStep) /\ \A w \in Workers : WF_vars(WorkerStep(w))

FairSpec == Spec /\ Fairness
=============================================================================

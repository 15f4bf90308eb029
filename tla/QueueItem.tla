------------------------------ MODULE QueueItem ------------------------------
(***************************************************************************)
(* The record of one image job in the FLUX file queue, the order in which  *)
(* jobs are claimed, and what each operation of QueueStore makes of a      *)
(* record.  AtomicQueue and ImageQueue share it: they differ in how a new  *)
(* record gets to the disk, not in what it says.                           *)
(***************************************************************************)
EXTENDS Naturals, Sequences

CONSTANTS
    Jobs,        \* queue ids that can be submitted
    Workers,     \* run_queue_worker processes, by worker_id
    Priority,    \* Priority[j], smaller is sooner
    Rank,        \* the order of the queue ids themselves
    Times        \* enqueued_at, read from the clock before the queue is locked

ASSUME QueueAssumption ==
    /\ Priority \in [Jobs -> Nat]
    /\ Rank \in [Jobs -> Nat]
    /\ \A j, k \in Jobs : Rank[j] = Rank[k] => j = k
    /\ Times \subseteq Nat
    /\ Workers \cap {"none", "free", "client", "recover"} = {}

QueueState == {"pending", "running", "succeeded", "failed", "cancelled"}
AttemptState == {"succeeded", "failed", "interrupted"}

Attempt == [worker : Workers, status : AttemptState]
Item == [status : QueueState, at : Times, worker : Workers \cup {"none"},
         attempts : Nat, history : Seq(Attempt)]

\* No file.
NoItem == [status |-> "absent", at |-> 0, worker |-> "none", attempts |-> 0, history |-> <<>>]

Exists(item) == item.status # "absent"

Enqueued(now) ==
    [status |-> "pending", at |-> now, worker |-> "none", attempts |-> 0, history |-> <<>>]

Claimed(item, w) ==
    [item EXCEPT !.status = "running", !.worker = w, !.attempts = @ + 1]

\* The attempt is recorded under the worker the file names, whoever finishes it.
Finished(item, status) ==
    [item EXCEPT !.status = status,
                 !.history = Append(@, [worker |-> item.worker, status |-> status])]

Retried(item) == [item EXCEPT !.status = "pending", !.worker = "none"]

Cancelled(item) == [item EXCEPT !.status = "cancelled"]

Recovered(item) ==
    [Retried(item) EXCEPT
        !.history = Append(@, [worker |-> item.worker, status |-> "interrupted"])]

\* Job j, with record a, is claimed before job k, with record b.
Precedes(j, a, k, b) ==
    \/ Priority[j] < Priority[k]
    \/ Priority[j] = Priority[k] /\ a.at < b.at
    \/ Priority[j] = Priority[k] /\ a.at = b.at /\ Rank[j] < Rank[k]
=============================================================================

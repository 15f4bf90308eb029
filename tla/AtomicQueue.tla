----------------------------- MODULE AtomicQueue -----------------------------
(***************************************************************************)
(* What the image queue promises: every job has one record, and every      *)
(* operation replaces it at once.  There are no files, no directories and  *)
(* no crashes.  ImageQueue implements it.                                  *)
(***************************************************************************)
EXTENDS QueueItem

VARIABLE book    \* the record of every job, NoItem before it is submitted

Init == book = [j \in Jobs |-> NoItem]

Is(j, status) == book[j].status = status

Put(j, item) == book' = [book EXCEPT ![j] = item]

Enqueue(j) == ~Exists(book[j]) /\ \E now \in Times : Put(j, Enqueued(now))

\* A worker gets the first pending job.
Claim(j, w) ==
    /\ Is(j, "pending")
    /\ \A k \in Jobs : Is(k, "pending") => ~Precedes(k, book[k], j, book[j])
    /\ Put(j, Claimed(book[j], w))

Finish(j, status) == Is(j, "running") /\ Put(j, Finished(book[j], status))

Retry(j) == Is(j, "failed") /\ Put(j, Retried(book[j]))

Cancel(j) == Is(j, "pending") /\ Put(j, Cancelled(book[j]))

Recover(j) == Is(j, "running") /\ Put(j, Recovered(book[j]))

Next ==
    \E j \in Jobs :
        \/ Enqueue(j) \/ Retry(j) \/ Cancel(j) \/ Recover(j)
        \/ \E w \in Workers : Claim(j, w)
        \/ \E status \in {"succeeded", "failed"} : Finish(j, status)

Spec == Init /\ [][Next]_book
=============================================================================

---------------------------- MODULE ImageQueueProofs ----------------------------
(***************************************************************************)
(* Proofs about ImageQueue.                                                *)
(*                                                                         *)
(* The inductive invariant says that a job has at most one file, that a    *)
(* move still to be made has its file to move, and that while somebody     *)
(* holds the lock every other file lies where its record says.  With it,   *)
(* writes change one record, and moves, repairs and crashes change none:   *)
(* that is the refinement of AtomicQueue.                                  *)
(***************************************************************************)
EXTENDS ImageQueue, TLAPS

Files == [QueueState -> Item \cup {NoItem}]

OnlyFile(f) ==
    \A d, e \in QueueState : Exists(f[d]) /\ Exists(f[e]) => d = e

-----------------------------------------------------------------------------
(* Records *)

\* An existing record of a file is an item, and absent is no state.
LEMMA Existing ==
    ASSUME NEW r \in Item \cup {NoItem}
    PROVE  /\ Exists(r) <=> r \in Item
           /\ r \in Item => r.status \in QueueState
           /\ Exists(r) <=> r.status \in QueueState
BY DEF Item, NoItem, Exists, QueueState

\* What an operation makes of an item is an item.
LEMMA ItemOperations ==
    ASSUME NEW r \in Item
    PROVE  /\ \A w \in Workers : Claimed(r, w) \in Item /\ Claimed(r, w).status = "running"
           /\ r.worker \in Workers =>
                 \A s \in {"succeeded", "failed"} :
                     Finished(r, s) \in Item /\ Finished(r, s).status = s
           /\ r.worker \in Workers => Recovered(r) \in Item /\ Recovered(r).status = "pending"
           /\ Retried(r) \in Item /\ Retried(r).status = "pending"
           /\ Cancelled(r) \in Item /\ Cancelled(r).status = "cancelled"
<1>1. ASSUME NEW w \in Workers
      PROVE  Claimed(r, w) \in Item /\ Claimed(r, w).status = "running"
  <2> DEFINE n == r.attempts + 1
  <2>1. n \in Nat
    BY DEF Item
  <2>2. [r EXCEPT !.status = "running", !.worker = w, !.attempts = n] \in Item
    <3> HIDE DEF n
    <3> QED BY <1>1, <2>1 DEF Item, QueueState
  <2>3. Claimed(r, w).status = "running"
    BY DEF Claimed, Item
  <2> QED BY <2>2, <2>3 DEF Claimed
<1>2. ASSUME r.worker \in Workers, NEW s \in {"succeeded", "failed"}
      PROVE  Finished(r, s) \in Item /\ Finished(r, s).status = s
  <2> DEFINE h == Append(r.history, [worker |-> r.worker, status |-> s])
  <2>1. [worker |-> r.worker, status |-> s] \in Attempt
    BY <1>2 DEF Attempt, AttemptState
  <2>2. h \in Seq(Attempt)
    BY <2>1 DEF Item
  <2>3. [r EXCEPT !.status = s, !.history = h] \in Item
    <3> HIDE DEF h
    <3> QED BY <1>2, <2>2 DEF Item, QueueState
  <2>4. Finished(r, s).status = s
    BY DEF Finished, Item
  <2> QED BY <2>3, <2>4 DEF Finished
<1>3. Retried(r) \in Item /\ Retried(r).status = "pending"
  BY DEF Item, Retried, QueueState
<1>4. ASSUME r.worker \in Workers
      PROVE  Recovered(r) \in Item /\ Recovered(r).status = "pending"
  <2> DEFINE h == Append(r.history, [worker |-> r.worker, status |-> "interrupted"])
  <2>1. [worker |-> r.worker, status |-> "interrupted"] \in Attempt
    BY <1>4 DEF Attempt, AttemptState
  <2>2. h \in Seq(Attempt)
    BY <2>1 DEF Item
  <2>3. Retried(r).history = r.history
    BY DEF Retried, Item
  <2>4. ASSUME NEW v \in Item PROVE [v EXCEPT !.history = h] \in Item
    <3> HIDE DEF h
    <3> QED BY <2>2, <2>4 DEF Item
  <2>5. Recovered(r) = [Retried(r) EXCEPT !.history = h]
    BY <2>3 DEF Recovered
  <2>6. Recovered(r).status = "pending"
    BY <1>3, <2>5 DEF Item
  <2> QED BY <1>3, <2>4, <2>5, <2>6
<1>5. Cancelled(r) \in Item /\ Cancelled(r).status = "cancelled"
  BY DEF Item, Cancelled, QueueState
<1> QED BY <1>1, <1>2, <1>3, <1>4, <1>5

-----------------------------------------------------------------------------
(* The files of one job *)

\* The only file of a job holds its record.
LEMMA ContentOfFile ==
    ASSUME NEW f \in Files, OnlyFile(f), NEW d \in QueueState, Exists(f[d])
    PROVE  Content(f) = f[d]
BY DEF Content, OnlyFile

\* A job without files has no record.
LEMMA ContentOfNothing ==
    ASSUME NEW f \in Files, \A d \in QueueState : ~Exists(f[d])
    PROVE  Content(f) = NoItem
BY DEF Content

\* A record is an item or nothing, and exists only in a file.
LEMMA ContentType ==
    ASSUME NEW f \in Files
    PROVE  /\ Content(f) \in Item \cup {NoItem}
           /\ Exists(Content(f)) <=> \E d \in QueueState : Exists(f[d])
<1>1. CASE \E d \in QueueState : Exists(f[d])
  BY <1>1 DEF Content, Files
<1>2. CASE ~\E d \in QueueState : Exists(f[d])
  BY <1>2 DEF Content, NoItem, Exists
<1> QED BY <1>1, <1>2

\* The repair never raises on a job with one file, puts that file where its record says, and
\* changes no record.
LEMMA SettledFile ==
    ASSUME NEW f \in Files, OnlyFile(f)
    PROVE  /\ Repairable(f)
           /\ Settled(f) \in Files
           /\ OnlyFile(Settled(f))
           /\ Content(Settled(f)) = Content(f)
           /\ \A d \in QueueState :
                 /\ Exists(Settled(f)[d]) <=> Content(f).status = d
                 /\ Exists(Settled(f)[d]) => Settled(f)[d] = Content(f)
<1>1. Repairable(f)
  BY DEF Repairable, OnlyFile
<1>2. CASE \A d \in QueueState : ~Exists(f[d])
  <2>1. \A d \in QueueState : f[d].status = "absent"
    BY <1>2 DEF Exists
  <2>2. \A d \in QueueState : Settled(f)[d] = NoItem
    BY <2>1 DEF Settled, QueueState
  <2>3. Settled(f) \in Files
    BY <2>2 DEF Settled, Files
  <2>4. ~Exists(NoItem) /\ NoItem.status \notin QueueState
    BY DEF Exists, NoItem, QueueState
  <2>5. Content(f) = NoItem
    BY <1>2, ContentOfNothing
  <2>6. Content(Settled(f)) = NoItem
    BY <2>2, <2>3, <2>4, ContentOfNothing
  <2> QED BY <1>1, <2>2, <2>3, <2>4, <2>5, <2>6 DEF OnlyFile
<1>3. CASE \E e \in QueueState : Exists(f[e])
  <2> PICK e \in QueueState : Exists(f[e])
    BY <1>3
  <2> DEFINE s == f[e].status
  <2>1. s \in QueueState
    BY Existing DEF Files
  <2>2. \A d \in QueueState : d # e => f[d].status = "absent"
    BY DEF OnlyFile, Exists
  <2>3. \A d, g \in QueueState : f[g].status = d <=> g = e /\ d = s
    BY <2>1, <2>2 DEF QueueState
  <2>4. Settled(f)[s] = f[e]
    BY <2>1, <2>3 DEF Settled
  <2>5. \A d \in QueueState : d # s => Settled(f)[d] = NoItem
    BY <2>3 DEF Settled
  <2>6. Settled(f) \in Files
    BY <2>4, <2>5 DEF Settled, Files
  <2>7. Content(f) = f[e]
    BY ContentOfFile
  <2>8. Exists(Settled(f)[s])
    BY <2>4
  <2>9. \A d \in QueueState : Exists(Settled(f)[d]) <=> d = s
    BY <2>5, <2>8 DEF Exists, NoItem
  <2>10. OnlyFile(Settled(f))
    BY <2>9 DEF OnlyFile
  <2>11. Content(Settled(f)) = f[e]
    BY <2>1, <2>4, <2>6, <2>8, <2>10, ContentOfFile
  <2> QED BY <1>1, <2>4, <2>6, <2>7, <2>9, <2>10, <2>11
<1> QED BY <1>2, <1>3

\* _write replaces the record of the job.
LEMMA WrittenFile ==
    ASSUME NEW f \in Files, OnlyFile(f), NEW d \in QueueState, NEW item \in Item,
           \A e \in QueueState : Exists(f[e]) => e = d,
           NEW g, g = [f EXCEPT ![d] = item]
    PROVE  /\ g \in Files /\ OnlyFile(g) /\ Content(g) = item /\ g[d] = item
           /\ \A e \in QueueState : Exists(g[e]) <=> e = d
<1>1. g \in Files /\ g[d] = item /\ \A e \in QueueState : e # d => g[e] = f[e]
  BY DEF Files
<1>2. Exists(g[d])
  BY <1>1, Existing
<1>3. \A e \in QueueState : Exists(g[e]) <=> e = d
  BY <1>1, <1>2
<1>4. OnlyFile(g)
  BY <1>3 DEF OnlyFile
<1>5. Content(g) = item
  BY <1>1, <1>2, <1>4, ContentOfFile
<1> QED BY <1>1, <1>3, <1>4, <1>5

\* source.replace(destination) leaves the record of the job alone.
LEMMA MovedFile ==
    ASSUME NEW f \in Files, OnlyFile(f), NEW d \in QueueState, NEW e \in QueueState,
           Exists(f[d]), d # e,
           NEW g \in Files, g[e] = f[d], g[d] = NoItem,
           \A c \in QueueState : c # d /\ c # e => g[c] = f[c]
    PROVE  /\ OnlyFile(g) /\ Content(g) = Content(f)
           /\ \A c \in QueueState : Exists(g[c]) <=> c = e
<1>3. \A c \in QueueState : Exists(g[c]) <=> c = e
  <2>1. ~Exists(g[d]) /\ Exists(g[e])
    BY DEF Exists, NoItem
  <2>2. ASSUME NEW c \in QueueState, c # d, c # e PROVE ~Exists(g[c])
    BY <2>2 DEF OnlyFile
  <2> QED BY <2>1, <2>2
<1>4. OnlyFile(g)
  BY <1>3 DEF OnlyFile
<1>5. Content(g) = g[e]
  BY <1>3, <1>4, ContentOfFile
<1>6. Content(f) = f[d]
  BY ContentOfFile
<1> QED BY <1>3, <1>4, <1>5, <1>6
-----------------------------------------------------------------------------
(* The inductive invariant *)

\* A move still to be made has its file to move, and its maker holds the lock.
MoveReady ==
    /\ \A m \in move :
          /\ Exists(files[m.job][m.from])
          /\ files[m.job][m.from].status = m.to
          /\ m.from # m.to
    /\ \A m, n \in move : m = n
    /\ holder = "free" => move = {}

\* While the lock is held, every other file lies where its record says.
Neat ==
    holder # "free" =>
        \A j \in Jobs, d \in QueueState :
            Exists(files[j][d]) =>
                files[j][d].status = d \/ \E m \in move : m.job = j /\ m.from = d

\* The books are in order: attempts and history agree, and a running job names its worker.
InOrder(r) ==
    /\ r.attempts = Len(r.history) + IF r.status = "running" THEN 1 ELSE 0
    /\ r.status = "running" => r.worker \in Workers

Booked == \A j \in Jobs : InOrder(Record(j))

\* A worker has an item from its claim to its outcome, and the lock while it moves a file.
WorkerHasJob ==
    \A w \in Workers :
        /\ pc[w] \in {"claim", "finish"} \cup AtWork => job[w] \in Jobs
        /\ holder = w <=> pc[w] \in {"claim", "finish"}
        /\ pc[w] = "claim" => \A m \in move :
              /\ m.job = job[w] /\ m.from = "pending" /\ m.to = "running"
              /\ files[m.job][m.from].worker = w

FilesInv == TypeOK /\ OneFile /\ MoveReady /\ Neat /\ Booked

Inv == FilesInv /\ WorkerHasJob /\ OwnAttempt

\* What a step does to the records.
Kept == \A k \in Jobs : Record(k)' = Record(k)
Changed(j, item) == \A k \in Jobs : Record(k)' = IF k = j THEN item ELSE Record(k)

-----------------------------------------------------------------------------
(* The two halves of an operation *)

\* What the repair leaves: one file per job, where its record says, with the same record.
LEMMA TidyFacts ==
    ASSUME FilesInv, NEW k \in Jobs
    PROVE  /\ files[k] \in Files /\ OnlyFile(files[k])
           /\ Repairable(files[k])
           /\ Tidy[k] \in Files /\ OnlyFile(Tidy[k]) /\ Content(Tidy[k]) = Record(k)
           /\ Record(k) \in Item \cup {NoItem}
           /\ \A d \in QueueState :
                 /\ In(k, d) <=> Exists(Tidy[k][d])
                 /\ In(k, d) <=> Record(k).status = d
                 /\ In(k, d) => Tidy[k][d] = Record(k) /\ Record(k) \in Item
<1>1. files[k] \in Files /\ OnlyFile(files[k])
  BY DEF FilesInv, TypeOK, OneFile, OnlyFile, Files
<1>2. Tidy[k] = Settled(files[k])
  BY DEF Tidy
<1>3. Record(k) \in Item \cup {NoItem}
  BY <1>1, ContentType DEF Record
<1>4. \A d \in QueueState : In(k, d) <=> Exists(Tidy[k][d])
  BY DEF In
<1>5. \A d \in QueueState :
        /\ Exists(Settled(files[k])[d]) <=> Record(k).status = d
        /\ Exists(Settled(files[k])[d]) => Settled(files[k])[d] = Record(k)
  BY <1>1, SettledFile DEF Record
<1>6. \A d \in QueueState : Record(k).status = d => Record(k) \in Item
  BY <1>3, Existing
<1>7. Repairable(files[k]) /\ Settled(files[k]) \in Files /\ OnlyFile(Settled(files[k]))
        /\ Content(Settled(files[k])) = Record(k)
  BY <1>1, SettledFile DEF Record
<1> QED BY <1>1, <1>2, <1>3, <1>4, <1>5, <1>6, <1>7

\* The repair alone changes no record and leaves no file out of place.
LEMMA RepairStep ==
    ASSUME FilesInv, files' = Tidy
    PROVE  /\ files' \in [Jobs -> Files]
           /\ OneFile'
           /\ Kept
           /\ \A j \in Jobs, d \in QueueState :
                 Exists(files'[j][d]) => files'[j][d].status = d
<1>1. files' \in [Jobs -> Files]
  BY TidyFacts DEF Tidy
<1>2. ASSUME NEW j \in Jobs PROVE OnlyFile(files'[j]) /\ Content(files'[j]) = Record(j)
  BY <1>2, TidyFacts
<1>3. ASSUME NEW j \in Jobs, NEW d \in QueueState, Exists(files'[j][d])
      PROVE  files'[j][d].status = d
  BY <1>3, TidyFacts
<1> QED BY <1>1, <1>2, <1>3 DEF OneFile, OnlyFile, Kept, Record

\* The first half changes one record and leaves one file to move.
LEMMA BeginStep ==
    ASSUME FilesInv, NEW p \in (Workers \cup {"client"}), NEW j \in Jobs,
           NEW from \in QueueState, NEW to \in QueueState, NEW item \in Item,
           from # to, item.status = to, In(j, from), Begin(p, j, from, to, item)
    PROVE  /\ files' \in [Jobs -> Files] /\ move' \subseteq Move
           /\ OneFile' /\ MoveReady' /\ Neat'
           /\ Changed(j, item)
           /\ files'[j][from] = item
           /\ \A k \in Jobs : k # j => files'[k] = Tidy[k]
<1>1. \A e \in QueueState : Exists(Tidy[j][e]) => e = from
  BY TidyFacts
<1>2. files' = [Tidy EXCEPT ![j] = [Tidy[j] EXCEPT ![from] = item]]
  BY DEF Begin, Write, Tidy
<1>3. \A k \in Jobs : k # j => files'[k] = Tidy[k]
  BY <1>2 DEF Tidy
<1>4. files'[j] = [Tidy[j] EXCEPT ![from] = item]
  BY <1>2 DEF Tidy
<1>5. /\ files'[j] \in Files /\ OnlyFile(files'[j]) /\ Content(files'[j]) = item
      /\ files'[j][from] = item
      /\ \A e \in QueueState : Exists(files'[j][e]) <=> e = from
  BY <1>1, <1>4, TidyFacts, WrittenFile
<1>6. files' \in [Jobs -> Files]
  BY <1>2, <1>3, <1>5, TidyFacts DEF Tidy
<1>7. move' = {[job |-> j, from |-> from, to |-> to]} /\ move' \subseteq Move /\ holder' = p
  BY DEF Begin, Move
<1>8. \A k \in Jobs : OnlyFile(files'[k])
  BY <1>3, <1>5, TidyFacts
<1>9. OneFile'
  BY <1>8 DEF OneFile, OnlyFile
<1>10. Changed(j, item)
  BY <1>3, <1>5, TidyFacts DEF Changed, Record
<1>11. MoveReady'
  <2>1. holder' # "free"
    BY <1>7, QueueAssumption
  <2> QED BY <1>5, <1>7, <2>1 DEF MoveReady
<1>12. Neat'
  <2> SUFFICES ASSUME NEW k \in Jobs, NEW d \in QueueState, Exists(files'[k][d])
               PROVE  files'[k][d].status = d \/ \E m \in move' : m.job = k /\ m.from = d
    BY DEF Neat
  <2>1. CASE k = j
    BY <1>5, <1>7, <2>1
  <2>2. CASE k # j
    BY <1>3, <2>2, TidyFacts
  <2> QED BY <2>1, <2>2
<1> QED BY <1>3, <1>5, <1>6, <1>7, <1>9, <1>10, <1>11, <1>12

\* The second half changes no record and leaves no file out of place.
LEMMA RenameStep ==
    ASSUME FilesInv, Rename, holder # "free"
    PROVE  /\ files' \in [Jobs -> Files] /\ move' = {}
           /\ OneFile' /\ MoveReady' /\ Neat'
           /\ Kept
           /\ \A m \in move : \A k \in Jobs :
                 files'[k] = IF k = m.job THEN [files[k] EXCEPT ![m.to] = files[k][m.from],
                                                               ![m.from] = NoItem]
                                        ELSE files[k]
           /\ \A m \in move : files'[m.job][m.to] = files[m.job][m.from]
<1> PICK m \in move : /\ files' = [files EXCEPT ![m.job][m.to] = files[m.job][m.from],
                                               ![m.job][m.from] = NoItem]
                      /\ move' = {}
  BY DEF Rename
<1>1. /\ m.job \in Jobs /\ m.from \in QueueState /\ m.to \in QueueState
      /\ Exists(files[m.job][m.from]) /\ m.from # m.to /\ files[m.job][m.from].status = m.to
  BY DEF FilesInv, TypeOK, Move, MoveReady
<1> DEFINE f == files[m.job]
           g == [f EXCEPT ![m.to] = f[m.from], ![m.from] = NoItem]
<1>2. f \in Files /\ OnlyFile(f) /\ files \in [Jobs -> Files]
  BY <1>1, TidyFacts DEF FilesInv, TypeOK, Files
<1>3. \A k \in Jobs : files'[k] = IF k = m.job THEN g ELSE files[k]
  BY <1>1, <1>2
<1>4. /\ g \in Files /\ OnlyFile(g) /\ Content(g) = Content(f) /\ g[m.to] = f[m.from]
      /\ \A c \in QueueState : Exists(g[c]) <=> c = m.to
  <2>1. Exists(f[m.from])
    BY <1>1
  <2>2. /\ g \in Files /\ g[m.to] = f[m.from] /\ g[m.from] = NoItem
        /\ \A c \in QueueState : c # m.from /\ c # m.to => g[c] = f[c]
    <3> HIDE DEF f
    <3> QED BY <1>1, <1>2 DEF Files
  <2>3. m.from \in QueueState /\ m.to \in QueueState /\ m.from # m.to /\ f \in Files /\ OnlyFile(f)
    BY <1>1, <1>2
  <2> HIDE DEF f, g
  <2> QED BY <2>1, <2>2, <2>3, MovedFile
<1>5. files' \in [Jobs -> Files]
  <2>1. files' = [k \in Jobs |-> files'[k]]
    BY <1>2
  <2> HIDE DEF f, g
  <2> QED BY <1>2, <1>3, <1>4, <2>1
<1>6. \A k \in Jobs : OnlyFile(files'[k]) /\ Content(files'[k]) = Record(k)
  <2>1. Record(m.job) = Content(f)
    BY DEF Record
  <2>2. \A k \in Jobs : OnlyFile(files[k]) /\ Content(files[k]) = Record(k)
    BY TidyFacts DEF Record
  <2> HIDE DEF f, g
  <2> QED BY <1>3, <1>4, <2>1, <2>2
<1>7. OneFile' /\ Kept
  BY <1>6 DEF OneFile, OnlyFile, Kept, Record
<1>8. MoveReady'
  BY DEF MoveReady
<1>9. \A n \in move : n = m
  BY DEF FilesInv, MoveReady
<1>10. Neat'
  <2> SUFFICES ASSUME NEW k \in Jobs, NEW d \in QueueState, Exists(files'[k][d])
               PROVE  files'[k][d].status = d
    BY DEF Neat
  <2>1. CASE k = m.job
    BY <1>1, <1>3, <1>4, <2>1
  <2>2. CASE k # m.job
    <3>1. files'[k][d] = files[k][d]
      BY <1>3, <2>2
    <3> QED BY <1>9, <2>2, <3>1 DEF FilesInv, Neat
  <2> QED BY <2>1, <2>2
<1> QED BY <1>1, <1>3, <1>4, <1>5, <1>7, <1>8, <1>9, <1>10

-----------------------------------------------------------------------------
(* Records and the abstract queue *)

\* Every operation keeps the books in order.
LEMMA BookOperations ==
    ASSUME NEW r \in Item, InOrder(r)
    PROVE  /\ r.status = "pending" =>
                 InOrder(Cancelled(r)) /\ \A w \in Workers : InOrder(Claimed(r, w))
           /\ r.status = "running" =>
                 InOrder(Recovered(r)) /\ \A s \in {"succeeded", "failed"} : InOrder(Finished(r, s))
           /\ r.status = "failed" => InOrder(Retried(r))
<1>1. r.attempts \in Nat /\ r.history \in Seq(Attempt)
  BY DEF Item
<1>2. ASSUME r.status = "pending"
      PROVE  InOrder(Cancelled(r)) /\ \A w \in Workers : InOrder(Claimed(r, w))
  BY <1>1, <1>2 DEF InOrder, Cancelled, Claimed, Item
<1>3. ASSUME r.status = "running"
      PROVE  InOrder(Recovered(r)) /\ \A s \in {"succeeded", "failed"} : InOrder(Finished(r, s))
  <2>1. \A a \in Attempt : Len(Append(r.history, a)) = Len(r.history) + 1
    BY <1>1
  <2>2. ASSUME NEW s \in AttemptState
        PROVE  [worker |-> r.worker, status |-> s] \in Attempt
    BY <1>3, <2>2 DEF InOrder, Attempt
  <2>3. r.attempts = Len(r.history) + 1
    BY <1>3 DEF InOrder
  <2>4. InOrder(Recovered(r))
    <3>1. /\ Recovered(r).status = "pending"
          /\ Recovered(r).attempts = r.attempts
          /\ Recovered(r).history =
                Append(r.history, [worker |-> r.worker, status |-> "interrupted"])
      BY DEF Recovered, Retried, Item
    <3>2. [worker |-> r.worker, status |-> "interrupted"] \in Attempt
      BY <2>2 DEF AttemptState
    <3>3. Recovered(r).attempts = Len(Recovered(r).history) + 0
      BY <1>1, <2>1, <2>3, <3>1, <3>2
    <3>4. Recovered(r).status # "running"
      BY <3>1
    <3> QED BY <3>3, <3>4 DEF InOrder
  <2>5. ASSUME NEW s \in {"succeeded", "failed"} PROVE InOrder(Finished(r, s))
    <3>1. /\ Finished(r, s).status = s
          /\ Finished(r, s).attempts = r.attempts
          /\ Finished(r, s).history = Append(r.history, [worker |-> r.worker, status |-> s])
      BY <2>5 DEF Finished, Item
    <3>2. [worker |-> r.worker, status |-> s] \in Attempt
      BY <2>2, <2>5 DEF AttemptState
    <3>3. Finished(r, s).attempts = Len(Finished(r, s).history) + 0
      BY <1>1, <2>1, <2>3, <3>1, <3>2
    <3>4. Finished(r, s).status # "running"
      BY <2>5, <3>1
    <3> QED BY <3>3, <3>4 DEF InOrder
  <2> QED BY <2>4, <2>5
<1>4. ASSUME r.status = "failed" PROVE InOrder(Retried(r))
  BY <1>1, <1>4 DEF InOrder, Retried, Item
<1> QED BY <1>2, <1>3, <1>4

LEMMA EnqueuedInOrder ==
    ASSUME NEW now \in Times
    PROVE  Enqueued(now) \in Item /\ Enqueued(now).status = "pending" /\ InOrder(Enqueued(now))
<1>1. Enqueued(now) \in Item
  BY QueueAssumption DEF Enqueued, Item, QueueState
<1>2. Len(Enqueued(now).history) = 0
  BY DEF Enqueued
<1> QED BY <1>1, <1>2 DEF Enqueued, InOrder

Book == [j \in Jobs |-> Record(j)]

\* A step that changes no record is a stuttering step of the abstract queue.
LEMMA KeptStep ==
    ASSUME Kept PROVE Book' = Book /\ (Booked => Booked')
BY DEF Kept, Book, Booked

\* A step that changes one record replaces it in the book.
LEMMA ChangedStep ==
    ASSUME NEW j \in Jobs, NEW item, Changed(j, item)
    PROVE  Book' = [Book EXCEPT ![j] = item] /\ (Booked /\ InOrder(item) => Booked')
BY DEF Changed, Book, Booked

-----------------------------------------------------------------------------
(* Every step on the files is an operation of the abstract queue, or changes no record *)

\* What the second half, the repair and the crashes do to the abstract queue: nothing.
\* What the first half does to it: the operation.
LEMMA AtomicOperations ==
    ASSUME NEW j \in Jobs
    PROVE  /\ ~Exists(Record(j)) /\ (\E now \in Times : Changed(j, Enqueued(now))) => Atomic!Next
           /\ Record(j).status = "failed" /\ Changed(j, Retried(Record(j))) => Atomic!Next
           /\ Record(j).status = "pending" /\ Changed(j, Cancelled(Record(j))) => Atomic!Next
           /\ Record(j).status = "running" /\ Changed(j, Recovered(Record(j))) => Atomic!Next
           /\ \A s \in {"succeeded", "failed"} :
                 Record(j).status = "running" /\ Changed(j, Finished(Record(j), s)) => Atomic!Next
           /\ \A w \in Workers :
                 /\ Record(j).status = "pending"
                 /\ \A k \in Jobs : Record(k).status = "pending" =>
                        ~Precedes(k, Record(k), j, Record(j))
                 /\ Changed(j, Claimed(Record(j), w))
                 => Atomic!Next
<1>1. \A item : Changed(j, item) <=> Atomic!Put(j, item)
  BY DEF Changed, Atomic!Put, Book
<1>2. \A k \in Jobs : \A status : Atomic!Is(k, status) <=> Record(k).status = status
  BY DEF Atomic!Is
<1>3. ~Exists(Record(j)) /\ (\E now \in Times : Changed(j, Enqueued(now))) => Atomic!Next
  BY <1>1 DEF Atomic!Next, Atomic!Enqueue, Atomic!Exists, Exists, Atomic!Enqueued, Enqueued
<1>4. Record(j).status = "failed" /\ Changed(j, Retried(Record(j))) => Atomic!Next
  BY <1>1, <1>2 DEF Atomic!Next, Atomic!Retry, Atomic!Retried, Retried
<1>5. Record(j).status = "pending" /\ Changed(j, Cancelled(Record(j))) => Atomic!Next
  BY <1>1, <1>2 DEF Atomic!Next, Atomic!Cancel, Atomic!Cancelled, Cancelled
<1>6. Record(j).status = "running" /\ Changed(j, Recovered(Record(j))) => Atomic!Next
  BY <1>1, <1>2 DEF Atomic!Next, Atomic!Recover, Atomic!Recovered, Recovered,
                    Atomic!Retried, Retried
<1>7. ASSUME NEW s \in {"succeeded", "failed"}
      PROVE  Record(j).status = "running" /\ Changed(j, Finished(Record(j), s)) => Atomic!Next
  BY <1>1, <1>2, <1>7 DEF Atomic!Next, Atomic!Finish, Atomic!Finished, Finished
<1>8. ASSUME NEW w \in Workers
      PROVE  /\ Record(j).status = "pending"
             /\ \A k \in Jobs : Record(k).status = "pending" =>
                    ~Precedes(k, Record(k), j, Record(j))
             /\ Changed(j, Claimed(Record(j), w))
             => Atomic!Next
  BY <1>1, <1>2, <1>8 DEF Atomic!Next, Atomic!Claim, Atomic!Claimed, Claimed,
                          Atomic!Precedes, Precedes
<1> QED BY <1>3, <1>4, <1>5, <1>6, <1>7, <1>8

\* One job of recover_running: the attempt is written off and the file waits to be moved.
LEMMA RecoverStep ==
    ASSUME FilesInv, NEW j \in Jobs, Recover(j)
    PROVE  /\ files' \in [Jobs -> Files] /\ move' \subseteq Move
           /\ OneFile' /\ MoveReady' /\ Neat'
           /\ Record(j) \in Item /\ Record(j).status = "running"
           /\ Changed(j, Recovered(Record(j)))
           /\ \A k \in Jobs : k # j => files'[k] = files[k]
<1>1. /\ holder = "recover" /\ move = {} /\ holder' = holder
      /\ Exists(files[j]["running"])
      /\ files' = [files EXCEPT ![j]["running"] = Recovered(files[j]["running"])]
      /\ move' = {[job |-> j, from |-> "running", to |-> "pending"]}
  BY DEF Recover
<1>2. files \in [Jobs -> Files] /\ \A k \in Jobs : OnlyFile(files[k])
  BY TidyFacts DEF FilesInv, TypeOK, Files
<1>3. files[j]["running"] = Record(j)
  BY <1>1, <1>2, ContentOfFile DEF Record, QueueState
<1>4. Record(j).status = "running"
  <2>1. files[j]["running"].status = "running" \/ \E m \in move : m.job = j /\ m.from = "running"
    BY <1>1 DEF FilesInv, Neat, QueueState
  <2> QED BY <1>1, <1>3, <2>1
<1>5. Record(j) \in Item
  BY <1>1, <1>3, TidyFacts, Existing
<1>6. Record(j).worker \in Workers
  BY <1>4 DEF FilesInv, Booked, InOrder
<1>7. PICK item \in Item : item = Recovered(Record(j)) /\ item.status = "pending"
  BY <1>5, <1>6, ItemOperations
<1>8. \A k \in Jobs : k # j => files'[k] = files[k]
  BY <1>1, <1>2
<1>9. files'[j] = [files[j] EXCEPT !["running"] = item]
  BY <1>1, <1>2, <1>3, <1>7
<1>10. \A e \in QueueState : Exists(files[j][e]) => e = "running"
  BY <1>1, <1>2 DEF OnlyFile, QueueState
<1>11. /\ files'[j] \in Files /\ OnlyFile(files'[j]) /\ Content(files'[j]) = item
       /\ files'[j]["running"] = item
       /\ \A e \in QueueState : Exists(files'[j][e]) <=> e = "running"
  <2>1. "running" \in QueueState
    BY DEF QueueState
  <2>2. files[j] \in Files /\ item \in Item /\ Exists(item)
    BY <1>2, <1>7, Existing
  <2>3. /\ files'[j] \in Files /\ files'[j]["running"] = item
        /\ \A e \in QueueState : e # "running" => files'[j][e] = files[j][e]
    BY <1>9, <2>1, <2>2 DEF Files
  <2>4. \A e \in QueueState : Exists(files'[j][e]) <=> e = "running"
    BY <1>10, <2>2, <2>3
  <2>5. OnlyFile(files'[j])
    BY <2>4 DEF OnlyFile
  <2> QED BY <2>1, <2>3, <2>4, <2>5, ContentOfFile
<1>12. files' \in [Jobs -> Files]
  <2>1. files' = [k \in Jobs |-> files'[k]]
    BY <1>1, <1>2
  <2> QED BY <1>2, <1>8, <1>11, <2>1
<1>13. move' \subseteq Move
  BY <1>1 DEF Move, QueueState
<1>14. OneFile'
  <2>1. \A k \in Jobs : OnlyFile(files'[k])
    BY <1>2, <1>8, <1>11
  <2> QED BY <2>1 DEF OneFile, OnlyFile
<1>15. Changed(j, item)
  BY <1>8, <1>11 DEF Changed, Record
<1>16. MoveReady'
  <2>1. holder' # "free"
    BY <1>1
  <2>2. Exists(files'[j]["running"]) /\ files'[j]["running"].status = "pending"
    BY <1>7, <1>11 DEF QueueState
  <2> QED BY <1>1, <2>1, <2>2 DEF MoveReady
<1>17. Neat'
  <2> SUFFICES ASSUME NEW k \in Jobs, NEW d \in QueueState, Exists(files'[k][d])
               PROVE  files'[k][d].status = d \/ \E m \in move' : m.job = k /\ m.from = d
    BY DEF Neat
  <2>1. CASE k = j
    BY <1>1, <1>11, <2>1
  <2>2. CASE k # j
    BY <1>1, <1>8, <2>2 DEF FilesInv, Neat
  <2> QED BY <2>1, <2>2
<1> QED BY <1>4, <1>5, <1>7, <1>8, <1>12, <1>13, <1>14, <1>15, <1>16, <1>17

\* A job is submitted.
LEMMA EnqueueStep ==
    ASSUME FilesInv, NEW j \in Jobs, Enqueue(j)
    PROVE  /\ files' \in [Jobs -> Files] /\ move' \subseteq Move
           /\ OneFile' /\ MoveReady' /\ Neat'
           /\ ~Exists(Record(j))
           /\ \E now \in Times : Changed(j, Enqueued(now))
           /\ \A k \in Jobs : k # j => files'[k] = Tidy[k]
<1>1. PICK now \in Times : Write(j, "pending", Enqueued(now))
  BY DEF Enqueue
<1> DEFINE item == Enqueued(now)
<1>2. item \in Item
  BY EnqueuedInOrder
<1>3. \A d \in QueueState : ~In(j, d)
  BY DEF Enqueue, Known
<1>4. ~Exists(Record(j))
  BY <1>3, TidyFacts, Existing
<1>5. files' = [Tidy EXCEPT ![j] = [Tidy[j] EXCEPT !["pending"] = item]]
  BY <1>1 DEF Write, Tidy
<1> HIDE DEF item
<1>6. /\ \A k \in Jobs : k # j => files'[k] = Tidy[k]
      /\ files'[j] = [Tidy[j] EXCEPT !["pending"] = item]
  BY <1>5 DEF Tidy
<1>7. files'[j] \in Files /\ OnlyFile(files'[j]) /\ Content(files'[j]) = item
  <2>1. "pending" \in QueueState
    BY DEF QueueState
  <2>2. \A e \in QueueState : Exists(Tidy[j][e]) => e = "pending"
    BY <1>3, TidyFacts
  <2>3. Tidy[j] \in Files /\ OnlyFile(Tidy[j])
    BY TidyFacts
  <2> QED BY <1>2, <1>6, <2>1, <2>2, <2>3, WrittenFile
<1>8. files' \in [Jobs -> Files]
  BY <1>5, <1>6, <1>7, TidyFacts DEF Tidy
<1>9. OneFile'
  <2>1. \A k \in Jobs : OnlyFile(files'[k])
    BY <1>6, <1>7, TidyFacts
  <2> QED BY <2>1 DEF OneFile, OnlyFile
<1>10. Changed(j, item)
  BY <1>6, <1>7, TidyFacts DEF Changed, Record
<1>11. holder' = "free" /\ move' = {} /\ move' \subseteq Move
  BY DEF Enqueue, Locks, FilesInv, MoveReady
<1>12. MoveReady' /\ Neat'
  BY <1>11 DEF MoveReady, Neat
<1> QED BY <1>4, <1>6, <1>8, <1>9, <1>10, <1>11, <1>12 DEF item

-----------------------------------------------------------------------------
(* The steps *)

\* The other half of the type invariant.
Others ==
    /\ holder \in Workers \cup {"free", "client", "recover"}
    /\ pc \in [Workers -> Labels]
    /\ job \in [Workers -> Jobs \cup {"none"}]
    /\ robbed \in BOOLEAN
    /\ crashes \in 0..MaxCrashes
    /\ starts \in 0..MaxStarts

\* Every step keeps the types of the lock and the workers.
LEMMA OthersStep ==
    ASSUME TypeOK, Next PROVE Others'
<1> USE BoundsAssumption DEF TypeOK, Others, Labels
<1>1. CASE \E j \in Jobs : Enqueue(j) \/ Retry(j) \/ Cancel(j)
  BY <1>1 DEF Enqueue, Retry, Cancel, Begin
<1>2. CASE Look \/ OpenRecovery
  BY <1>2 DEF Look, OpenRecovery
<1>3. CASE ClientStep
  BY <1>3 DEF ClientStep, ClientMoves, RecoveryMoves, CloseRecovery, Recover
<1>4. ASSUME NEW w \in Workers, Start(w) \/ Leave(w) \/ CrashWorker(w) PROVE Others'
  BY <1>4 DEF Start, Leave, CrashWorker, Goto, Drop
<1>5. ASSUME NEW w \in Workers, WorkerStep(w) PROVE Others'
  <2>1. CASE Claim(w)
    BY <2>1 DEF Claim, Begin, Goto
  <2>2. CASE Work(w)
    BY <2>2 DEF Work, Goto
  <2>3. CASE Finish(w)
    BY <2>3 DEF Finish, Begin, Goto
  <2>4. CASE FinishRefused(w)
    BY <2>4 DEF FinishRefused, Goto, Drop
  <2>5. CASE WorkerMoves(w)
    BY <2>5 DEF WorkerMoves, Goto, Drop
  <2> QED BY <1>5, <2>1, <2>2, <2>3, <2>4, <2>5 DEF WorkerStep
<1>6. CASE CrashClient
  BY <1>6 DEF CrashClient
<1> QED BY <1>1, <1>2, <1>3, <1>4, <1>5, <1>6 DEF Next

\* The files' half of the invariant, and the step of the abstract queue.
FilesGood ==
    files \in [Jobs -> Files] /\ move \subseteq Move /\ OneFile /\ MoveReady /\ Neat

Simulated == Kept \/ Atomic!Next

\* Operations that only repair.
LEMMA RepairOnly ==
    ASSUME FilesInv, Locks, files' = Tidy, move' = move
    PROVE  FilesGood' /\ Kept
<1>1. /\ files' \in [Jobs -> Files] /\ OneFile' /\ Kept
      /\ \A j \in Jobs, d \in QueueState : Exists(files'[j][d]) => files'[j][d].status = d
  BY RepairStep
<1>2. move' = {} /\ move' \subseteq Move
  BY DEF Locks, FilesInv, MoveReady
<1>3. MoveReady' /\ Neat'
  BY <1>1, <1>2 DEF MoveReady, Neat
<1> QED BY <1>1, <1>2, <1>3 DEF FilesGood

\* Steps that touch no file.
LEMMA FilesUntouched ==
    ASSUME FilesInv, files' = files,
           (move' = move /\ holder' = holder) \/ (move' = {} /\ holder' = "free")
    PROVE  FilesGood' /\ Kept
<1>1. files' \in [Jobs -> Files] /\ OneFile' /\ Kept
  BY DEF FilesInv, TypeOK, Files, OneFile, Kept, Record
<1>2. move' \subseteq Move
  BY DEF FilesInv, TypeOK
<1>3. MoveReady' /\ Neat'
  BY DEF FilesInv, MoveReady, Neat
<1> QED BY <1>1, <1>2, <1>3 DEF FilesGood

\* An operation that begins a move, on the record it finds.
LEMMA BeginOperation ==
    ASSUME FilesInv, NEW p \in (Workers \cup {"client"}), NEW j \in Jobs,
           NEW from \in QueueState, NEW to \in QueueState, NEW item \in Item,
           from # to, item.status = to, In(j, from), Begin(p, j, from, to, item)
    PROVE  FilesGood' /\ Changed(j, item)
BY BeginStep DEF FilesGood

\* The records that are there to operate on.
LEMMA Found ==
    ASSUME FilesInv, NEW j \in Jobs, NEW d \in QueueState, In(j, d)
    PROVE  /\ Record(j) \in Item /\ Record(j).status = d /\ Tidy[j][d] = Record(j)
           /\ d = "running" => Record(j).worker \in Workers
BY TidyFacts DEF FilesInv, Booked, InOrder

LEMMA ClientSimulated ==
    ASSUME FilesInv,
           \/ \E j \in Jobs : Enqueue(j) \/ Retry(j) \/ Cancel(j)
           \/ Look \/ OpenRecovery \/ ClientStep \/ CrashClient
    PROVE  FilesGood' /\ Simulated
<1>1. ASSUME NEW j \in Jobs, Enqueue(j) PROVE FilesGood' /\ Simulated
  BY <1>1, EnqueueStep, AtomicOperations DEF FilesGood, Simulated
<1>2. ASSUME NEW j \in Jobs, Retry(j) PROVE FilesGood' /\ Simulated
  <2>1. In(j, "failed") /\ Begin("client", j, "failed", "pending", Retried(Tidy[j]["failed"]))
    BY <1>2 DEF Retry
  <2>2. "failed" \in QueueState /\ "pending" \in QueueState
    BY DEF QueueState
  <2>3. Record(j) \in Item /\ Record(j).status = "failed" /\ Tidy[j]["failed"] = Record(j)
    BY <2>1, <2>2, Found
  <2>4. Retried(Record(j)) \in Item /\ Retried(Record(j)).status = "pending"
    BY <2>3, ItemOperations
  <2>5. FilesGood' /\ Changed(j, Retried(Record(j)))
    BY <2>1, <2>2, <2>3, <2>4, BeginOperation
  <2> QED BY <2>3, <2>5, AtomicOperations DEF Simulated
<1>3. ASSUME NEW j \in Jobs, Cancel(j) PROVE FilesGood' /\ Simulated
  <2>1. /\ In(j, "pending")
        /\ Begin("client", j, "pending", "cancelled", Cancelled(Tidy[j]["pending"]))
    BY <1>3 DEF Cancel
  <2>2. "cancelled" \in QueueState /\ "pending" \in QueueState
    BY DEF QueueState
  <2>3. Record(j) \in Item /\ Record(j).status = "pending" /\ Tidy[j]["pending"] = Record(j)
    BY <2>1, <2>2, Found
  <2>4. Cancelled(Record(j)) \in Item /\ Cancelled(Record(j)).status = "cancelled"
    BY <2>3, ItemOperations
  <2>5. FilesGood' /\ Changed(j, Cancelled(Record(j)))
    BY <2>1, <2>2, <2>3, <2>4, BeginOperation
  <2> QED BY <2>3, <2>5, AtomicOperations DEF Simulated
<1>4. ASSUME Look \/ OpenRecovery PROVE FilesGood' /\ Simulated
  BY <1>4, RepairOnly DEF Look, OpenRecovery, Simulated
<1>5. ASSUME ClientMoves \/ RecoveryMoves PROVE FilesGood' /\ Simulated
  <2>1. Rename /\ holder # "free"
    BY <1>5 DEF ClientMoves, RecoveryMoves
  <2> QED BY <2>1, RenameStep DEF FilesGood, Simulated
<1>6. ASSUME CloseRecovery \/ CrashClient PROVE FilesGood' /\ Simulated
  BY <1>6, FilesUntouched DEF CloseRecovery, CrashClient, Simulated
<1>7. ASSUME NEW j \in Jobs, Recover(j) PROVE FilesGood' /\ Simulated
  BY <1>7, RecoverStep, AtomicOperations DEF FilesGood, Simulated
<1> QED BY <1>1, <1>2, <1>3, <1>4, <1>5, <1>6, <1>7 DEF ClientStep

LEMMA WorkerSimulated ==
    ASSUME FilesInv, WorkerHasJob, NEW w \in Workers,
           Start(w) \/ Leave(w) \/ WorkerStep(w) \/ CrashWorker(w)
    PROVE  FilesGood' /\ Simulated
<1>1. ASSUME Start(w) \/ Leave(w) \/ Work(w) \/ CrashWorker(w) PROVE FilesGood' /\ Simulated
  <2>1. /\ files' = files
        /\ (move' = move /\ holder' = holder) \/ (move' = {} /\ holder' = "free")
    BY <1>1 DEF Start, Leave, Work, CrashWorker
  <2> QED BY <2>1, FilesUntouched DEF Simulated
<1>2. ASSUME Claim(w) PROVE FilesGood' /\ Simulated
  <2>1. PICK j \in Jobs : /\ In(j, "pending") /\ First(j)
                          /\ Begin(w, j, "pending", "running", Claimed(Tidy[j]["pending"], w))
    BY <1>2 DEF Claim, Claimable
  <2>2. "running" \in QueueState /\ "pending" \in QueueState
    BY DEF QueueState
  <2>3. Record(j) \in Item /\ Record(j).status = "pending" /\ Tidy[j]["pending"] = Record(j)
    BY <2>1, <2>2, Found
  <2>4. Claimed(Record(j), w) \in Item /\ Claimed(Record(j), w).status = "running"
    BY <2>3, ItemOperations
  <2>5. FilesGood' /\ Changed(j, Claimed(Record(j), w))
    BY <2>1, <2>2, <2>3, <2>4, BeginOperation
  <2>6. ASSUME NEW k \in Jobs, Record(k).status = "pending"
        PROVE  ~Precedes(k, Record(k), j, Record(j))
    <3>1. In(k, "pending") /\ Tidy[k]["pending"] = Record(k)
      BY <2>2, <2>6, TidyFacts
    <3> QED BY <2>1, <2>3, <3>1 DEF First, Claimable
  <2> QED BY <2>3, <2>5, <2>6, AtomicOperations DEF Simulated
<1>3. ASSUME Finish(w) PROVE FilesGood' /\ Simulated
  <2> DEFINE j == job[w]
             s == Outcome(w)
  <2>1. /\ In(j, "running") /\ s \in {"succeeded", "failed"} /\ j \in Jobs
        /\ Begin(w, j, "running", s, Finished(Tidy[j]["running"], s))
    BY <1>3 DEF Finish, Outcome, WorkerHasJob, AtWork
  <2>2. "running" \in QueueState /\ s \in QueueState /\ "running" # s
    BY <2>1 DEF QueueState
  <2> HIDE DEF s, j
  <2>3. /\ Record(j) \in Item /\ Record(j).status = "running" /\ Tidy[j]["running"] = Record(j)
        /\ Record(j).worker \in Workers
    BY <2>1, <2>2, Found
  <2>4. Finished(Record(j), s) \in Item /\ Finished(Record(j), s).status = s
    BY <2>1, <2>3, ItemOperations
  <2>5. FilesGood' /\ Changed(j, Finished(Record(j), s))
    BY <2>1, <2>2, <2>3, <2>4, BeginOperation
  <2> QED BY <2>1, <2>3, <2>5, AtomicOperations DEF Simulated
<1>4. ASSUME FinishRefused(w) PROVE FilesGood' /\ Simulated
  BY <1>4, RepairOnly DEF FinishRefused, Simulated
<1>5. ASSUME WorkerMoves(w) PROVE FilesGood' /\ Simulated
  <2>1. Rename /\ holder # "free"
    BY <1>5, QueueAssumption DEF WorkerMoves
  <2> QED BY <2>1, RenameStep DEF FilesGood, Simulated
<1> QED BY <1>1, <1>2, <1>3, <1>4, <1>5 DEF WorkerStep

\* An operation of the abstract queue keeps the books in order, and results alone.
LEMMA AtomicEffect ==
    ASSUME FilesInv, Atomic!Next
    PROVE  /\ Booked'
           /\ \A j \in Jobs : Record(j).status \in {"succeeded", "cancelled"} =>
                                Record(j)' = Record(j)
<1>1. \A k \in Jobs : \A item : Atomic!Put(k, item) <=> Changed(k, item)
  BY DEF Changed, Atomic!Put, Book
<1>2. \A k \in Jobs : \A status : Atomic!Is(k, status) <=> Record(k).status = status
  BY DEF Atomic!Is
<1>3. PICK j \in Jobs :
        \/ Atomic!Enqueue(j) \/ Atomic!Retry(j) \/ Atomic!Cancel(j) \/ Atomic!Recover(j)
        \/ \E w \in Workers : Atomic!Claim(j, w)
        \/ \E status \in {"succeeded", "failed"} : Atomic!Finish(j, status)
  BY DEF Atomic!Next
<1>4. Record(j) \in Item \cup {NoItem} /\ InOrder(Record(j))
  BY TidyFacts DEF FilesInv, Booked
<1> DEFINE r == Record(j)
           Good(item) == /\ Changed(j, item) /\ InOrder(item)
                         /\ r.status \notin {"succeeded", "cancelled"}
<1>5. ASSUME Atomic!Enqueue(j) PROVE \E item : Good(item)
  <2>1. PICK now \in Times : Changed(j, Enqueued(now)) /\ ~Exists(r)
    BY <1>1, <1>5 DEF Atomic!Enqueue, Atomic!Exists, Exists, Atomic!Enqueued, Enqueued
  <2>2. r.status \notin {"succeeded", "cancelled"}
    BY <2>1 DEF Exists
  <2> QED BY <2>1, <2>2, EnqueuedInOrder
<1>6. ASSUME NEW status \in QueueState, r.status = status PROVE r \in Item
  BY <1>4, <1>6, Existing
<1>7. ASSUME Atomic!Retry(j) PROVE \E item : Good(item)
  <2>1. r.status = "failed" /\ Changed(j, Retried(r))
    BY <1>1, <1>2, <1>7 DEF Atomic!Retry, Atomic!Retried, Retried
  <2>2. r \in Item
    BY <1>6, <2>1 DEF QueueState
  <2>3. InOrder(Retried(r))
    BY <1>4, <2>1, <2>2, BookOperations
  <2> QED BY <2>1, <2>3
<1>8. ASSUME Atomic!Cancel(j) PROVE \E item : Good(item)
  <2>1. r.status = "pending" /\ Changed(j, Cancelled(r))
    BY <1>1, <1>2, <1>8 DEF Atomic!Cancel, Atomic!Cancelled, Cancelled
  <2>2. r \in Item
    BY <1>6, <2>1 DEF QueueState
  <2>3. InOrder(Cancelled(r))
    BY <1>4, <2>1, <2>2, BookOperations
  <2> QED BY <2>1, <2>3
<1>9. ASSUME Atomic!Recover(j) PROVE \E item : Good(item)
  <2>1. r.status = "running" /\ Changed(j, Recovered(r))
    BY <1>1, <1>2, <1>9 DEF Atomic!Recover, Atomic!Recovered, Recovered, Atomic!Retried, Retried
  <2>2. r \in Item
    BY <1>6, <2>1 DEF QueueState
  <2>3. InOrder(Recovered(r))
    BY <1>4, <2>1, <2>2, BookOperations
  <2> QED BY <2>1, <2>3
<1>10. ASSUME NEW w \in Workers, Atomic!Claim(j, w) PROVE \E item : Good(item)
  <2>1. r.status = "pending" /\ Changed(j, Claimed(r, w))
    BY <1>1, <1>2, <1>10 DEF Atomic!Claim, Atomic!Claimed, Claimed
  <2>2. r \in Item
    BY <1>6, <2>1 DEF QueueState
  <2>3. InOrder(Claimed(r, w))
    BY <1>4, <2>1, <2>2, BookOperations
  <2> QED BY <2>1, <2>3
<1>11. ASSUME NEW s \in {"succeeded", "failed"}, Atomic!Finish(j, s) PROVE \E item : Good(item)
  <2>1. r.status = "running" /\ Changed(j, Finished(r, s))
    BY <1>1, <1>2, <1>11 DEF Atomic!Finish, Atomic!Finished, Finished
  <2>2. r \in Item
    BY <1>6, <2>1 DEF QueueState
  <2>3. InOrder(Finished(r, s))
    BY <1>4, <2>1, <2>2, BookOperations
  <2> QED BY <2>1, <2>3
<1>12. PICK item : Good(item)
  <2> HIDE DEF Good
  <2> QED BY <1>3, <1>5, <1>7, <1>8, <1>9, <1>10, <1>11
<1>13. Booked'
  BY <1>12 DEF FilesInv, Booked, Changed
<1>14. ASSUME NEW k \in Jobs, Record(k).status \in {"succeeded", "cancelled"}
       PROVE  Record(k)' = Record(k)
  BY <1>12, <1>14 DEF Changed
<1> QED BY <1>13, <1>14

\* Every step keeps the files in order, and is one of the abstract queue or changes no record.
LEMMA FilesStep ==
    ASSUME FilesInv, WorkerHasJob, Next PROVE FilesInv' /\ Simulated
<1>1. FilesGood' /\ Simulated
  BY ClientSimulated, WorkerSimulated DEF Next
<1>2. Others'
  BY OthersStep DEF FilesInv
<1>3. Booked'
  BY <1>1, AtomicEffect, KeptStep DEF Simulated, FilesInv
<1>4. TypeOK'
  BY <1>1, <1>2 DEF FilesGood, Others, TypeOK, Files
<1> QED BY <1>1, <1>3, <1>4 DEF FilesGood, FilesInv

-----------------------------------------------------------------------------
(* Workers and their jobs *)

\* A worker that is at a job finds it running under its own name.
LEMMA OwnedRecord ==
    ASSUME Inv, ~robbed, NEW w \in Workers, pc[w] \in AtWork
    PROVE  /\ job[w] \in Jobs
           /\ files[job[w]]["running"] = Record(job[w])
           /\ Tidy[job[w]]["running"] = Record(job[w])
           /\ Record(job[w]).status = "running" /\ Record(job[w]).worker = w
<1>1. job[w] \in Jobs /\ "running" \in QueueState
  BY DEF Inv, WorkerHasJob, QueueState
<1>2. files[job[w]]["running"].status = "running" /\ files[job[w]]["running"].worker = w
  BY DEF Inv, OwnAttempt
<1>3. Exists(files[job[w]]["running"])
  BY <1>2 DEF Exists
<1>4. files[job[w]]["running"] = Record(job[w])
  BY <1>1, <1>3, TidyFacts, ContentOfFile DEF Inv, Record
<1>5. Tidy[job[w]]["running"] = Record(job[w])
  BY <1>1, <1>2, <1>4, TidyFacts DEF Inv
<1> QED BY <1>1, <1>2, <1>4, <1>5

\* It still does after a step that leaves the files of that job alone, or only repairs them.
LEMMA StillOwned ==
    ASSUME Inv, ~robbed, NEW w \in Workers, pc[w] \in AtWork, job'[w] = job[w],
           files'[job[w]] = files[job[w]] \/ files'[job[w]] = Tidy[job[w]]
    PROVE  /\ files'[job'[w]]["running"].status = "running"
           /\ files'[job'[w]]["running"].worker = w
BY OwnedRecord

\* A move never touches the job of a worker that is at it.
LEMMA RenameSpares ==
    ASSUME Inv, Rename, holder # "free", ~robbed, NEW w \in Workers, pc[w] \in AtWork
    PROVE  files'[job[w]] = files[job[w]]
<1>1. PICK m \in move : TRUE
  BY DEF Rename
<1>2. /\ m.job \in Jobs /\ m.from \in QueueState /\ m.from # m.to
      /\ Exists(files[m.job][m.from]) /\ files[m.job][m.from].status = m.to
  BY DEF Inv, FilesInv, TypeOK, Move, MoveReady
<1>3. /\ job[w] \in Jobs /\ files[job[w]]["running"] = Record(job[w])
      /\ Record(job[w]).status = "running"
  BY OwnedRecord
<1>4. m.job # job[w]
  <2> SUFFICES ASSUME m.job = job[w] PROVE FALSE
    OBVIOUS
  <2>1. files[m.job][m.from] = Record(job[w])
    BY <1>2, TidyFacts, ContentOfFile DEF Inv, Record
  <2>2. m.to = "running"
    BY <1>2, <1>3, <2>1
  <2>3. Exists(files[m.job]["running"]) /\ "running" \in QueueState
    BY <1>3 DEF Exists, QueueState
  <2>4. m.from = "running"
    BY <1>2, <2>3 DEF Inv, FilesInv, OneFile
  <2> QED BY <1>2, <2>2, <2>4
<1>5. files'[job[w]] = files[job[w]]
  BY <1>3, <1>4, RenameStep DEF Inv
<1> QED BY <1>5

\* A step of a client leaves the workers where they stand.
LEMMA WorkersUntouched ==
    ASSUME Inv, pc' = pc, job' = job, holder \notin Workers, holder' \notin Workers
    PROVE  WorkerHasJob'
BY DEF Inv, WorkerHasJob

LEMMA OwnedAfterClient ==
    ASSUME Inv,
           \/ \E j \in Jobs : Enqueue(j) \/ Retry(j) \/ Cancel(j)
           \/ Look \/ OpenRecovery \/ ClientStep \/ CrashClient
    PROVE  WorkerHasJob' /\ OwnAttempt'
<1>1. pc' = pc /\ job' = job
  BY DEF Enqueue, Retry, Cancel, Look, OpenRecovery, ClientStep, ClientMoves, RecoveryMoves,
         CloseRecovery, Recover, CrashClient
<1>2. holder \in {"free", "client", "recover"} /\ holder' \in {"free", "client", "recover"}
  BY DEF Enqueue, Retry, Cancel, Begin, Locks, Look, OpenRecovery, ClientStep, ClientMoves,
         RecoveryMoves, CloseRecovery, Recover, CrashClient
<1>3. WorkerHasJob'
  BY <1>1, <1>2, WorkersUntouched, QueueAssumption
<1>4. ASSUME ~robbed', NEW w \in Workers, pc'[w] \in AtWork
      PROVE  /\ files'[job'[w]]["running"].status = "running"
             /\ files'[job'[w]]["running"].worker = w
  <2>1. ~robbed /\ pc[w] \in AtWork /\ job'[w] = job[w]
    <3>1. robbed \in BOOLEAN
      BY DEF Inv, FilesInv, TypeOK
    <3>2. CASE ClientStep
      BY <1>1, <1>4, <3>1, <3>2
         DEF ClientStep, ClientMoves, RecoveryMoves, CloseRecovery, Recover
    <3>3. CASE ~ClientStep
      BY <1>1, <1>4, <3>3 DEF Enqueue, Retry, Cancel, Look, OpenRecovery, CrashClient
    <3> QED BY <3>2, <3>3
  <2>2. job[w] \in Jobs /\ Record(job[w]).status = "running"
    BY <2>1, OwnedRecord
  <2> SUFFICES files'[job[w]] = files[job[w]] \/ files'[job[w]] = Tidy[job[w]]
    BY <2>1, StillOwned
  <2>3. ASSUME NEW j \in Jobs, Enqueue(j) PROVE files'[job[w]] = Tidy[job[w]]
    <3>1. ~Exists(Record(j)) /\ \A k \in Jobs : k # j => files'[k] = Tidy[k]
      BY <2>3, EnqueueStep DEF Inv
    <3> QED BY <2>2, <3>1 DEF Exists
  <2>4. ASSUME NEW j \in Jobs, Retry(j) PROVE files'[job[w]] = Tidy[job[w]]
    <3>1. In(j, "failed") /\ files' = [Tidy EXCEPT ![j]["failed"] = Retried(Tidy[j]["failed"])]
      BY <2>4 DEF Retry, Begin, Write
    <3>2. job[w] # j
      BY <2>2, <3>1, TidyFacts DEF Inv, QueueState
    <3> QED BY <2>2, <3>1, <3>2 DEF Tidy
  <2>5. ASSUME NEW j \in Jobs, Cancel(j) PROVE files'[job[w]] = Tidy[job[w]]
    <3>1. /\ In(j, "pending")
          /\ files' = [Tidy EXCEPT ![j]["pending"] = Cancelled(Tidy[j]["pending"])]
      BY <2>5 DEF Cancel, Begin, Write
    <3>2. job[w] # j
      BY <2>2, <3>1, TidyFacts DEF Inv, QueueState
    <3> QED BY <2>2, <3>1, <3>2 DEF Tidy
  <2>6. ASSUME Look \/ OpenRecovery PROVE files'[job[w]] = Tidy[job[w]]
    BY <2>6 DEF Look, OpenRecovery
  <2>7. ASSUME ClientMoves \/ RecoveryMoves PROVE files'[job[w]] = files[job[w]]
    <3>1. Rename /\ holder # "free"
      BY <2>7 DEF ClientMoves, RecoveryMoves
    <3> QED BY <2>1, <3>1, RenameSpares
  <2>8. ASSUME CloseRecovery \/ CrashClient PROVE files'[job[w]] = files[job[w]]
    BY <2>8 DEF CloseRecovery, CrashClient
  <2>9. ASSUME NEW j \in Jobs, Recover(j) PROVE files'[job[w]] = files[job[w]]
    <3>1. job[w] # j
      BY <1>4, <2>1, <2>9 DEF Recover
    <3> QED BY <2>2, <2>9, <3>1, RecoverStep DEF Inv
  <2> QED BY <2>3, <2>4, <2>5, <2>6, <2>7, <2>8, <2>9 DEF ClientStep
<1> QED BY <1>3, <1>4 DEF OwnAttempt

LEMMA OwnedAfterWorker ==
    ASSUME Inv, NEW v \in Workers,
           Start(v) \/ Leave(v) \/ WorkerStep(v) \/ CrashWorker(v)
    PROVE  WorkerHasJob' /\ OwnAttempt'
<1> DEFINE Owned(w) == /\ files'[job'[w]]["running"].status = "running"
                       /\ files'[job'[w]]["running"].worker = w
<1>1. /\ pc \in [Workers -> Labels] /\ job \in [Workers -> Jobs \cup {"none"}]
      /\ v \notin {"free", "client", "recover"}
  BY QueueAssumption DEF Inv, FilesInv, TypeOK
<1>2. ASSUME Start(v) \/ Leave(v) \/ Work(v) PROVE WorkerHasJob' /\ OwnAttempt'
  <2>1. /\ pc[v] \in {"off", "loop", "work"} /\ pc'[v] \in {"off", "loop", "succeed", "fail"}
        /\ pc'[v] \in AtWork => pc[v] \in AtWork
        /\ \A w \in Workers : w # v => pc'[w] = pc[w]
        /\ files' = files /\ move' = move /\ holder' = holder /\ job' = job /\ robbed' = robbed
    BY <1>1, <1>2 DEF Start, Leave, Work, Goto, AtWork
  <2>2. WorkerHasJob'
    BY <2>1 DEF Inv, WorkerHasJob, AtWork
  <2>3. ASSUME ~robbed', NEW w \in Workers, pc'[w] \in AtWork PROVE Owned(w)
    BY <2>1, <2>3, StillOwned
  <2> QED BY <2>2, <2>3 DEF OwnAttempt
<1>3. ASSUME Claim(v) PROVE WorkerHasJob' /\ OwnAttempt'
  <2>1. PICK j \in Jobs :
          /\ In(j, "pending")
          /\ files' = [Tidy EXCEPT ![j]["pending"] = Claimed(Tidy[j]["pending"], v)]
          /\ move' = {[job |-> j, from |-> "pending", to |-> "running"]}
          /\ job' = [job EXCEPT ![v] = j]
    BY <1>3 DEF Claim, Claimable, Begin, Write
  <2>2. /\ holder = "free" /\ holder' = v /\ pc' = [pc EXCEPT ![v] = "claim"]
        /\ robbed' = robbed
    BY <1>3 DEF Claim, Locks, Begin, Goto
  <2>3. Record(j).status = "pending" /\ Record(j) \in Item /\ Tidy[j]["pending"] = Record(j)
    BY <2>1, Found DEF Inv, QueueState
  <2>4. files'[j]["pending"] = Claimed(Record(j), v)
    <3>1. Tidy[j] \in Files /\ Tidy \in [Jobs -> Files]
      BY TidyFacts DEF Inv, Tidy
    <3> QED BY <2>1, <2>3, <3>1 DEF Files, QueueState
  <2>5. Claimed(Record(j), v).worker = v
    BY <2>3 DEF Claimed, Item
  <2>6. WorkerHasJob'
    <3> SUFFICES ASSUME NEW w \in Workers
                 PROVE  /\ pc'[w] \in {"claim", "finish"} \cup AtWork => job'[w] \in Jobs
                        /\ holder' = w <=> pc'[w] \in {"claim", "finish"}
                        /\ pc'[w] = "claim" => \A m \in move' :
                              /\ m.job = job'[w] /\ m.from = "pending" /\ m.to = "running"
                              /\ files'[m.job][m.from].worker = w
      BY DEF WorkerHasJob
    <3>1. CASE w = v
      BY <1>1, <2>1, <2>2, <2>4, <2>5, <3>1
    <3>2. CASE w # v
      BY <1>1, <2>1, <2>2, <3>2, QueueAssumption DEF Inv, WorkerHasJob
    <3> QED BY <3>1, <3>2
  <2>7. ASSUME ~robbed', NEW w \in Workers, pc'[w] \in AtWork PROVE Owned(w)
    <3>1. ~robbed /\ w # v /\ pc[w] \in AtWork /\ job'[w] = job[w]
      BY <1>1, <2>1, <2>2, <2>7 DEF AtWork
    <3>2. job[w] \in Jobs /\ job[w] # j
      BY <2>3, <3>1, OwnedRecord
    <3>3. files'[job[w]] = Tidy[job[w]]
      BY <2>1, <3>2 DEF Tidy
    <3> QED BY <3>1, <3>3, StillOwned
  <2> QED BY <2>6, <2>7 DEF OwnAttempt
<1>4. ASSUME Finish(v) PROVE WorkerHasJob' /\ OwnAttempt'
  <2> DEFINE j == job[v]
  <2>1. /\ pc[v] \in AtWork /\ holder = "free" /\ holder' = v
        /\ pc' = [pc EXCEPT ![v] = "finish"] /\ job' = job /\ robbed' = robbed
    BY <1>4 DEF Finish, Locks, Begin, Goto, AtWork
  <2>2. files' = [Tidy EXCEPT ![j]["running"] = Finished(Tidy[j]["running"], Outcome(v))]
    BY <1>4 DEF Finish, Begin, Write
  <2>3. j \in Jobs
    BY <2>1 DEF Inv, WorkerHasJob
  <2>4. WorkerHasJob'
    BY <1>1, <2>1, <2>3, QueueAssumption DEF Inv, WorkerHasJob, AtWork
  <2>5. ASSUME ~robbed', NEW w \in Workers, pc'[w] \in AtWork PROVE Owned(w)
    <3>1. ~robbed /\ w # v /\ pc[w] \in AtWork /\ job'[w] = job[w]
      BY <1>1, <2>1, <2>5 DEF AtWork
    <3>2. job[w] \in Jobs /\ job[w] # j
      BY <2>1, <3>1, OwnedRecord
    <3>3. files'[job[w]] = Tidy[job[w]]
      BY <2>2, <3>2 DEF Tidy
    <3> QED BY <3>1, <3>3, StillOwned
  <2> QED BY <2>4, <2>5 DEF OwnAttempt
<1>5. ASSUME FinishRefused(v) PROVE WorkerHasJob' /\ OwnAttempt'
  <2>1. /\ pc[v] \in AtWork /\ holder = "free" /\ holder' = holder
        /\ pc'[v] \in {"fail", "off"} /\ (pc'[v] = "fail" => job'[v] = job[v])
        /\ \A w \in Workers : w # v => pc'[w] = pc[w] /\ job'[w] = job[w]
        /\ files' = Tidy /\ robbed' = robbed
    BY <1>1, <1>5 DEF FinishRefused, Locks, Goto, Drop, AtWork
  <2>2. WorkerHasJob'
    BY <1>1, <2>1, QueueAssumption DEF Inv, WorkerHasJob, AtWork
  <2>3. ASSUME ~robbed', NEW w \in Workers, pc'[w] \in AtWork PROVE Owned(w)
    <3>1. pc[w] \in AtWork /\ job'[w] = job[w] /\ ~robbed
      BY <2>1, <2>3 DEF AtWork
    <3> QED BY <2>1, <3>1, StillOwned
  <2> QED BY <2>2, <2>3 DEF OwnAttempt
<1>6. ASSUME WorkerMoves(v) PROVE WorkerHasJob' /\ OwnAttempt'
  <2>1. /\ Rename /\ holder = v /\ holder # "free" /\ holder' = "free" /\ robbed' = robbed
        /\ pc[v] \in {"claim", "finish"}
    BY <1>1, <1>6 DEF WorkerMoves, Inv, WorkerHasJob
  <2>2. /\ IF pc[v] = "claim" THEN pc'[v] = "work" /\ job'[v] = job[v]
                               ELSE pc'[v] = "loop" /\ job'[v] = "none"
        /\ \A w \in Workers : w # v => pc'[w] = pc[w] /\ job'[w] = job[w]
    BY <1>1, <1>6 DEF WorkerMoves, Goto, Drop
  <2>3. WorkerHasJob'
    BY <1>1, <2>1, <2>2, QueueAssumption DEF Inv, WorkerHasJob, AtWork
  <2>4. ASSUME ~robbed', NEW w \in Workers, pc'[w] \in AtWork, w # v PROVE Owned(w)
    <3>1. pc[w] \in AtWork /\ job'[w] = job[w] /\ ~robbed
      BY <2>1, <2>2, <2>4
    <3> QED BY <2>1, <3>1, RenameSpares, StillOwned
  <2>5. ASSUME pc'[v] \in AtWork PROVE Owned(v)
    <3>1. pc[v] = "claim" /\ job'[v] = job[v]
      BY <2>1, <2>2, <2>5 DEF AtWork
    <3>2. PICK m \in move : TRUE
      BY <2>1 DEF Rename
    <3>3. /\ m.job = job[v] /\ m.to = "running" /\ files[m.job][m.from].worker = v
          /\ files[m.job][m.from].status = m.to
      BY <3>1 DEF Inv, WorkerHasJob, FilesInv, MoveReady
    <3>4. files'[m.job][m.to] = files[m.job][m.from]
      BY <2>1, RenameStep DEF Inv
    <3> QED BY <3>1, <3>3, <3>4
  <2> QED BY <2>3, <2>4, <2>5 DEF OwnAttempt
<1>7. ASSUME CrashWorker(v) PROVE WorkerHasJob' /\ OwnAttempt'
  <2>1. /\ pc'[v] = "off" /\ files' = files /\ robbed' = robbed
        /\ \A w \in Workers : w # v => pc'[w] = pc[w] /\ job'[w] = job[w]
        /\ IF holder = v THEN move' = {} /\ holder' = "free"
                         ELSE move' = move /\ holder' = holder
    BY <1>1, <1>7 DEF CrashWorker, Drop, Goto
  <2>2. WorkerHasJob'
    BY <1>1, <2>1, QueueAssumption DEF Inv, WorkerHasJob, AtWork
  <2>3. ASSUME ~robbed', NEW w \in Workers, pc'[w] \in AtWork PROVE Owned(w)
    <3>1. pc[w] \in AtWork /\ job'[w] = job[w] /\ ~robbed
      BY <2>1, <2>3 DEF AtWork
    <3> QED BY <2>1, <3>1, StillOwned
  <2> QED BY <2>2, <2>3 DEF OwnAttempt
<1> QED BY <1>2, <1>3, <1>4, <1>5, <1>6, <1>7 DEF WorkerStep

-----------------------------------------------------------------------------
(* The theorems *)

LEMMA Initially == Init => Inv /\ Atomic!Init
<1> SUFFICES ASSUME Init PROVE Inv /\ Atomic!Init
  OBVIOUS
<1>1. /\ files = [j \in Jobs |-> [d \in QueueState |-> NoItem]] /\ move = {} /\ holder = "free"
      /\ pc = [w \in Workers |-> "off"] /\ job = [w \in Workers |-> "none"]
      /\ robbed = FALSE /\ crashes = 0 /\ starts = 0
  BY DEF Init
<1>2. ASSUME NEW j \in Jobs PROVE \A d \in QueueState : ~Exists(files[j][d])
  BY <1>1, <1>2 DEF Exists, NoItem
<1>3. ASSUME NEW j \in Jobs PROVE Record(j) = NoItem
  BY <1>2, <1>3 DEF Record, Content
<1>4. TypeOK
  <2>1. files \in [Jobs -> [QueueState -> Item \cup {NoItem}]]
    BY <1>1
  <2>2. pc \in [Workers -> Labels] /\ job \in [Workers -> Jobs \cup {"none"}]
    BY <1>1 DEF Labels
  <2>3. crashes \in 0..MaxCrashes /\ starts \in 0..MaxStarts
    BY <1>1, BoundsAssumption
  <2> QED BY <1>1, <2>1, <2>2, <2>3 DEF TypeOK
<1>5. OneFile /\ MoveReady /\ Neat
  BY <1>1, <1>2 DEF OneFile, MoveReady, Neat
<1>6. Booked
  <2>1. InOrder(NoItem)
    BY DEF InOrder, NoItem
  <2> QED BY <1>3, <2>1 DEF Booked
<1>7. WorkerHasJob /\ OwnAttempt
  BY <1>1, QueueAssumption DEF WorkerHasJob, OwnAttempt, AtWork
<1>8. Atomic!Init
  BY <1>3 DEF Atomic!Init, NoItem, Atomic!NoItem
<1> QED BY <1>4, <1>5, <1>6, <1>7, <1>8 DEF Inv, FilesInv

LEMMA Stutter == Inv /\ UNCHANGED vars => Inv' /\ Kept
BY DEF vars, Inv, FilesInv, TypeOK, OneFile, MoveReady, Neat, Booked, Record, WorkerHasJob,
       OwnAttempt, AtWork, Kept

LEMMA InvStep == Inv /\ [Next]_vars => Inv' /\ Simulated
<1>1. ASSUME Inv, Next PROVE Inv' /\ Simulated
  <2>1. FilesInv' /\ Simulated
    BY <1>1, FilesStep DEF Inv
  <2>2. WorkerHasJob' /\ OwnAttempt'
    BY <1>1, OwnedAfterClient, OwnedAfterWorker DEF Next
  <2> QED BY <2>1, <2>2 DEF Inv
<1> QED BY <1>1, Stutter DEF Simulated

\* What a reachable state of the queue satisfies, for any jobs, workers and bounds.
THEOREM Invariance == Spec => []Inv
BY Initially, InvStep, PTL DEF Spec

\* The files, the lock and the workers have their types.
THEOREM TypeCorrect == Spec => []TypeOK
<1>1. Inv => TypeOK
  BY DEF Inv, FilesInv
<1> QED BY <1>1, Invariance, PTL

\* No crash leaves two files of one job: neither _find_path nor _repair_transitions ever raises.
THEOREM FilesAreSingle == Spec => []OneFile
<1>1. Inv => OneFile
  BY DEF Inv, FilesInv
<1> QED BY <1>1, Invariance, PTL

\* Every attempt that has ended is in the history once.
THEOREM AuditIsComplete == Spec => []AuditTrail
<1>1. Inv => AuditTrail
  BY DEF Inv, FilesInv, Booked, InOrder, AuditTrail
<1> QED BY <1>1, Invariance, PTL

\* Unless recover_running took a job from it, a worker reports the outcome of its own attempt.
THEOREM OwnerFinishes == Spec => []OwnAttempt
<1>1. Inv => OwnAttempt
  BY DEF Inv
<1> QED BY <1>1, Invariance, PTL

\* No step changes the record of a job that has succeeded or was cancelled.
THEOREM ResultsAreFinal == Spec => ResultKept
<1>1. Inv /\ [Next]_vars =>
        [\A j \in Jobs :
            Record(j).status \in {"succeeded", "cancelled"} => Record(j)' = Record(j)]_vars
  BY InvStep, AtomicEffect DEF Simulated, Kept, Inv
<1> QED BY <1>1, Invariance, PTL DEF Spec, ResultKept

\* The queue of files implements the queue of atomic operations.
THEOREM Refinement == Spec => ActsAtomically
<1>1. Init => Atomic!Init
  BY Initially
<1>2. Inv /\ [Next]_vars => [Atomic!Next]_Book
  BY InvStep, KeptStep DEF Simulated
<1>3. Spec => [][Atomic!Next]_Book
  BY <1>2, Invariance, PTL DEF Spec
<1> QED BY <1>1, <1>3, PTL DEF Spec, ActsAtomically, Atomic!Spec, Book

\* What the files, the history and the workers say of a job is one coherent story, through
\* every crash and whichever process moves a file.
THEOREM RecordsAreSound == Spec => []RecordsSound
<1>1. TypeOK /\ OneFile /\ AuditTrail /\ OwnAttempt => RecordsSound
  BY DEF RecordsSound
<1> QED BY <1>1, TypeCorrect, FilesAreSingle, AuditIsComplete, OwnerFinishes, PTL
=============================================================================

----------------------- MODULE NarrativeAnalysisProofs -----------------------
(***************************************************************************)
(* Theorems about NarrativeAnalysis for any number of workers, any forest  *)
(* of windows and any bounds.                                              *)
(***************************************************************************)
EXTENDS NarrativeAnalysis, FiniteSetTheorems, SequenceTheorems, TLAPS

-----------------------------------------------------------------------------
(* The payload operators map window payloads to window payloads. *)

LEMMA AbsentTyped == AbsentWindow \in WindowPayload
BY DEF AbsentWindow, WindowPayload, WindowStatus, Phase, Category, Deadline

LEMMA NoRunTyped == NoRun \in RunPayload
BY DEF NoRun, RunPayload, RunStatus

LEMMA NoJobTyped == NoJob \in Job
BY AbsentTyped, ConstantsAssumption DEF NoJob, Job

LEMMA PlannedTyped == PlannedWindow \in WindowPayload
BY AbsentTyped DEF PlannedWindow, WindowPayload, WindowStatus

LEMMA ExhaustedCategoryTyped ==
    ASSUME NEW c \in Category
    PROVE  ExhaustedCategory(c) \in Category
BY DEF ExhaustedCategory, Category, TerminalCategories

LEMMA UpdatesTyped ==
    ASSUME NEW r \in WindowPayload
    PROVE  /\ ChildWindow(r) \in WindowPayload
           /\ \A b \in BOOLEAN : ExhaustWindow(r, b) \in WindowPayload
           /\ Reserved(r) \in WindowPayload
           /\ Charged(r) \in WindowPayload
           /\ RetryPayload(r) \in WindowPayload
           /\ SplitPayload(r) \in WindowPayload
<1>1. /\ r.category \in Category /\ ExhaustedCategory(r.category) \in Category
      /\ r.calls + 1 \in Nat /\ r.repairs + 1 \in Nat /\ r.lengths + 1 \in Nat
    BY ExhaustedCategoryTyped DEF WindowPayload
<1>2. ChildWindow(r) \in WindowPayload
    BY <1>1, PlannedTyped DEF ChildWindow, WindowPayload, Phase
<1>3. \A b \in BOOLEAN : ExhaustWindow(r, b) \in WindowPayload
    BY <1>1 DEF ExhaustWindow, WindowPayload, WindowStatus, Deadline, Phase
<1>4. Reserved(r) \in WindowPayload
    BY DEF Reserved, WindowPayload, WindowStatus, Deadline
<1>5. Charged(r) \in WindowPayload
    <2>1. "NONE" \in Category /\ "RUNNING" \in WindowStatus
        BY DEF Category, WindowStatus
    <2>2. QED BY <1>1, <2>1 DEF Charged, WindowPayload
<1>6. RetryPayload(r) \in WindowPayload
    <2>1. [r EXCEPT !.phase = "LENGTH_RECOVERY", !.lengths = @ + 1] \in WindowPayload
        BY <1>1 DEF WindowPayload, Phase
    <2>2. [r EXCEPT !.phase = "SCHEMA_REPAIR", !.repairs = @ + 1] \in WindowPayload
        BY <1>1 DEF WindowPayload, Phase
    <2>3. QED BY <2>1, <2>2 DEF RetryPayload
<1>7. SplitPayload(r) \in WindowPayload
    BY <1>1 DEF SplitPayload, WindowPayload, WindowStatus, Deadline
<1>8. QED BY <1>2, <1>3, <1>4, <1>5, <1>6, <1>7

LEMMA AnsweredTyped ==
    ASSUME NEW r \in WindowPayload, NEW s \in {"SUCCEEDED", "FAILED"},
           NEW c \in Category, NEW slow \in BOOLEAN
    PROVE  Answered(r, s, c, slow) \in WindowPayload
BY DEF Answered, WindowPayload, WindowStatus

LEMMA CompletedTyped ==
    ASSUME NEW r \in WindowPayload, NEW w \in Windows
    PROVE  Completed(w, r) \in WindowPayload
<1>1. ScheduleRetry(w, r) \in WindowPayload
    <2>1. [r EXCEPT !.deadline = "AHEAD"] \in WindowPayload
        BY DEF WindowPayload, Deadline
    <2>2. QED BY <2>1, UpdatesTyped DEF ScheduleRetry
<1>2. \A q \in WindowPayload : Terminalize(w, q) \in WindowPayload
    <2> TAKE q \in WindowPayload
    <2>1. q.category \in Category /\ ExhaustedCategory(q.category) \in Category
        BY ExhaustedCategoryTyped DEF WindowPayload
    <2>2. [q EXCEPT !.status = "NEEDS_HUMAN_ACTION", !.category = ExhaustedCategory(@),
                    !.deadline = "NONE", !.phase = "TERMINAL"] \in WindowPayload
        BY <2>1 DEF WindowPayload, WindowStatus, Deadline, Phase
    <2>3. QED BY <2>2 DEF Terminalize
<1>3. QED BY <1>1, <1>2 DEF Completed

\* Whatever the Provider answered, the saved payload is FAILED or a terminal failure.
LEMMA CompletedStatus ==
    ASSUME NEW r \in WindowPayload, NEW w \in Windows, r.status = "FAILED"
    PROVE  Completed(w, r).status \in {"FAILED", "EXHAUSTED", "NEEDS_HUMAN_ACTION"}
<1>1. ScheduleRetry(w, r) \in WindowPayload
      /\ ScheduleRetry(w, r).status \in {"FAILED", "EXHAUSTED", "NEEDS_HUMAN_ACTION"}
    <2>1. [r EXCEPT !.deadline = "AHEAD"] \in WindowPayload
        BY DEF WindowPayload, Deadline
    <2>2. ExhaustWindow(r, FALSE).status \in {"EXHAUSTED", "NEEDS_HUMAN_ACTION"}
        BY DEF ExhaustWindow, WindowPayload
    <2>3. [r EXCEPT !.deadline = "AHEAD"].status = "FAILED"
        BY DEF WindowPayload
    <2>4. QED BY <2>1, <2>2, <2>3, UpdatesTyped DEF ScheduleRetry
<1>2. QED BY <1>1 DEF Completed, Terminalize, WindowPayload

-----------------------------------------------------------------------------
(* Type correctness *)

\* A listing of a set of windows is a sequence over it.
LEMMA ListingIsSeq ==
    ASSUME NEW S \in SUBSET Windows, NEW ids \in Listings(S)
    PROVE  ids \in Seq(S)
<1>1. Cardinality(S) \in Nat
    BY FS_Subset, FS_CardinalityType, ConstantsAssumption
<1>2. ids \in [1..Cardinality(S) -> S]
    BY DEF Listings
<1>3. QED BY <1>1, <1>2

\* With a payload for each of its windows, it is a list of jobs.
LEMMA ListingTyped ==
    ASSUME NEW S \in SUBSET Windows, NEW ids \in Listings(S),
           NEW row \in [Windows -> WindowPayload]
    PROVE  [i \in 1..Len(ids) |-> [id |-> ids[i], row |-> row[ids[i]]]] \in Seq(Job)
<1>1. ids \in Seq(S) /\ Len(ids) \in Nat
    BY ListingIsSeq
<1>2. \A i \in 1..Len(ids) : ids[i] \in Windows
    BY <1>1, ElementOfSeq
<1>3. \A i \in 1..Len(ids) : [id |-> ids[i], row |-> row[ids[i]]] \in Job
    BY <1>2 DEF Job
<1>4. QED BY <1>1, <1>3

LEMMA InitTyped == Init => TypeOK
BY AbsentTyped, NoRunTyped, NoJobTyped, PlannedTyped, ConstantsAssumption
   DEF Init, TypeOK, Labels

\* run_pending has returned or raised: the worker's memory is blank.
LEMMA StopTyped ==
    ASSUME TypeOK, NEW p \in Workers, Stop(p)
    PROVE  /\ pc' \in [Workers -> Labels]
           /\ snap' \in [Workers -> RunPayload]
           /\ todo' \in [Workers -> Seq(Job)]
           /\ job' \in [Workers -> Job]
           /\ delivered' \in [Workers -> SUBSET Windows]
BY NoRunTyped, NoJobTyped DEF TypeOK, Stop, Labels

LEMMA EndWindowTyped ==
    ASSUME TypeOK, NEW p \in Workers, EndWindow(p)
    PROVE  /\ pc' \in [Workers -> Labels]
           /\ snap' \in [Workers -> RunPayload]
           /\ job' \in [Workers -> Job]
BY NoRunTyped, NoJobTyped DEF TypeOK, EndWindow, Goto, Labels

LEMMA JobTyped ==
    ASSUME TypeOK, NEW p \in Workers
    PROVE  job[p].id \in Windows /\ job[p].row \in WindowPayload
BY DEF TypeOK, Job

LEMMA SaveWindowTyped ==
    ASSUME TypeOK, NEW w \in Windows, NEW r \in WindowPayload, SaveWindow(w, r)
    PROVE  window' \in [Windows -> WindowPayload]
BY DEF TypeOK, SaveWindow

\* The row of the window a worker is executing, after an update of its copy.
LEMMA JobRowTyped ==
    ASSUME TypeOK, NEW p \in Workers, NEW r \in WindowPayload,
           job' = [job EXCEPT ![p].row = r]
    PROVE  job' \in [Workers -> Job]
BY DEF TypeOK, Job

\* The answer of a Provider call, whatever it is.
LEMMA RecordTyped ==
    ASSUME TypeOK, NEW p \in Workers, NEW r \in WindowPayload, Record(p, r)
    PROVE  TypeOK'
<1>1. job[p].id \in Windows BY JobTyped
<1>2. RetryPayload(r) \in WindowPayload BY UpdatesTyped
<1>3. window' \in [Windows -> WindowPayload]
    BY <1>1, SaveWindowTyped DEF Record
<1>4. /\ pc' \in [Workers -> Labels]
      /\ snap' \in [Workers -> RunPayload]
      /\ job' \in [Workers -> Job]
    <2>1. CASE ShouldSplit(job[p].id, r)
        BY <2>1, JobRowTyped DEF Record, TypeOK, Goto, Labels
    <2>2. CASE ~ShouldSplit(job[p].id, r) /\ ShouldRetry(r)
        BY <2>2, <1>2, JobRowTyped, NoRunTyped DEF Record, TypeOK, Goto, Labels
    <2>3. CASE ~ShouldSplit(job[p].id, r) /\ ~ShouldRetry(r)
        BY <2>3, EndWindowTyped DEF Record
    <2>4. QED BY <2>1, <2>2, <2>3
<1>5. QED BY <1>3, <1>4 DEF Record, TypeOK

\* Every answer a worker records is a well-formed payload.
LEMMA AnswerTyped ==
    ASSUME TypeOK, NEW p \in Workers
    PROVE  /\ \A slow \in Overtime : Answered(job[p].row, "SUCCEEDED", "NONE", slow) \in WindowPayload
           /\ \A c \in Failures, slow \in Overtime :
                Completed(job[p].id, Answered(job[p].row, "FAILED", c, slow)) \in WindowPayload
<1>1. Failures \subseteq Category /\ "NONE" \in Category /\ Overtime \subseteq BOOLEAN
    BY ConstantsAssumption DEF Category
<1>2. job[p].id \in Windows /\ job[p].row \in WindowPayload
    BY JobTyped
<1>3. \A s \in {"SUCCEEDED", "FAILED"}, c \in Category, slow \in BOOLEAN :
        Answered(job[p].row, s, c, slow) \in WindowPayload
    BY <1>2, AnsweredTyped
<1>4. QED BY <1>1, <1>2, <1>3, CompletedTyped

LEMMA CappedTyped ==
    ASSUME NEW n \in 0..MadeCap
    PROVE  Capped(n + 1) \in 0..MadeCap
BY ConstantsAssumption DEF Capped

LEMMA StepTyped ==
    ASSUME TypeOK, NEW p \in Workers, Start(p) \/ Step(p)
    PROVE  TypeOK'
<1> DEFINE w == job[p].id
           r == job[p].row
<1>0. w \in Windows /\ r \in WindowPayload
    BY JobTyped
<1> USE DEF TypeOK, dbVars
<1> HIDE DEF w, r
<1>1. CASE Start(p)
    BY <1>1 DEF Start, Goto, Labels
<1>2. CASE Open(p)
    <2>1. run' \in RunPayload
        BY <1>2 DEF Open, SaveRun, RunPayload, RunStatus
    <2>2. QED BY <1>2, <2>1, NoRunTyped DEF Open, SaveRun, Goto, Labels
<1>3. CASE List(p)
    <2>1. PICK ids \in Listings({v \in Windows : Eligible(v)}) :
            todo' = [todo EXCEPT ![p] =
                        [i \in 1..Len(ids) |-> [id |-> ids[i], row |-> window[ids[i]]]]]
        BY <1>3 DEF List
    <2>2. [i \in 1..Len(ids) |-> [id |-> ids[i], row |-> window[ids[i]]]] \in Seq(Job)
        BY <2>1, ListingTyped
    <2>3. todo' \in [Workers -> Seq(Job)]
        BY <2>1, <2>2
    <2>4. QED BY <1>3, <2>3 DEF List, Goto, Labels
<1>4. CASE Take(p)
    <2>1. Head(todo[p]) \in Job /\ Tail(todo[p]) \in Seq(Job)
        BY <1>4, HeadTailProperties DEF Take
    <2>2. QED BY <1>4, <2>1 DEF Take, Goto, Labels
<1>5. CASE Exhaust(p)
    BY <1>0, <1>5, UpdatesTyped, SaveWindowTyped, EndWindowTyped DEF Exhaust, w, r
<1>6. CASE Claim(p)
    <2>1. window' \in [Windows -> WindowPayload]
        BY <1>0, <1>6, UpdatesTyped, SaveWindowTyped DEF Claim, w, r
    <2>2. job' \in [Workers -> Job]
        BY <1>0, <1>6, UpdatesTyped, JobRowTyped DEF Claim, w, r
    <2>3. QED BY <1>6, <2>1, <2>2 DEF Claim, Goto, Labels
<1>7. CASE ClaimLost(p)
    BY <1>7, EndWindowTyped DEF ClaimLost
<1>8. CASE ReadRootBudget(p)
    BY <1>8 DEF ReadRootBudget, Goto, Labels
<1>9. CASE SwapRootBudget(p)
    <2>1. SlotTaken(snap[p]) \in RunPayload
        <3>1. snap[p] \in RunPayload /\ snap[p].used + 1 \in Nat
            BY DEF RunPayload
        <3>2. QED BY <3>1 DEF SlotTaken, RunPayload
    <2>2. QED BY <1>9, <2>1 DEF SwapRootBudget, SaveRun, Goto, Labels
<1>10. CASE Deny(p)
    BY <1>0, <1>10, UpdatesTyped, SaveWindowTyped, EndWindowTyped DEF Deny, w, r
<1>11. CASE Charge(p)
    <2>1. window' \in [Windows -> WindowPayload]
        BY <1>0, <1>11, UpdatesTyped, SaveWindowTyped DEF Charge, w, r
    <2>2. job' \in [Workers -> Job]
        BY <1>0, <1>11, UpdatesTyped, JobRowTyped DEF Charge, w, r
    <2>3. made' \in [Windows -> 0..MadeCap] /\ spent' \in 0..MadeCap
        BY <1>0, <1>11, CappedTyped DEF Charge, w
    <2>4. QED BY <1>11, <2>1, <2>2, <2>3 DEF Charge, Goto, Labels
<1>12. CASE Succeed(p)
    BY <1>12, AnswerTyped, RecordTyped DEF Succeed
<1>13. CASE Fail(p)
    BY <1>13, AnswerTyped, RecordTyped DEF Fail
<1>14. CASE CreateKids(p)
    <2>1. ChildWindow(r) \in WindowPayload
        BY <1>0, UpdatesTyped
    <2>2. window' \in [Windows -> WindowPayload]
        BY <1>14, <2>1 DEF CreateKids, r
    <2>3. CASE Stop(p)
        BY <1>14, <2>2, <2>3, StopTyped DEF CreateKids
    <2>4. CASE ~Stop(p)
        BY <1>14, <2>2, <2>4 DEF CreateKids, Goto, Labels
    <2>5. QED BY <2>3, <2>4
<1>15. CASE SaveSplit(p)
    <2>1. window' \in [Windows -> WindowPayload]
        BY <1>0, <1>15, UpdatesTyped, SaveWindowTyped DEF SaveSplit, w, r
    <2>2. QED BY <1>15, <2>1 DEF SaveSplit, Goto, Labels
<1>16. CASE RereadRun(p)
    BY <1>16 DEF RereadRun, Goto, Labels
<1>17. CASE SaveSplitRun(p)
    <2> DEFINE rows == [v \in Windows |-> ChildWindow(r)]
    <2>1. rows \in [Windows -> WindowPayload]
        BY <1>0, UpdatesTyped
    <2>2. PICK ids \in Listings({k \in Kids[w] : Runnable(k, r)}) :
            todo' = [todo EXCEPT
                       ![p] = [i \in 1..Len(ids) |-> [id |-> ids[i], row |-> ChildWindow(r)]] \o @]
        BY <1>17 DEF SaveSplitRun, w, r
    <2>3. {k \in Kids[w] : Runnable(k, r)} \in SUBSET Windows
        BY <1>0, ConstantsAssumption
    <2>4. \A i \in 1..Len(ids) : ids[i] \in Windows
        BY <2>2, <2>3, ListingIsSeq, ElementOfSeq
    <2>5. [i \in 1..Len(ids) |-> [id |-> ids[i], row |-> rows[ids[i]]]] \in Seq(Job)
        BY <2>1, <2>2, <2>3, ListingTyped
    <2>6. [i \in 1..Len(ids) |-> [id |-> ids[i], row |-> rows[ids[i]]]]
            = [i \in 1..Len(ids) |-> [id |-> ids[i], row |-> ChildWindow(r)]]
        BY <2>4
    <2>7. todo' \in [Workers -> Seq(Job)]
        BY <2>2, <2>5, <2>6, ConcatProperties
    <2>8. QED BY <1>17, <2>7, EndWindowTyped DEF SaveSplitRun, SaveRun
<1>18. CASE ReadRun(p)
    BY <1>18 DEF ReadRun, Goto, Labels
<1>19. CASE Judge(p)
    <2>1. Verdict \in RunStatus
        BY DEF Verdict, RunStatus
    <2>2. snap' \in [Workers -> RunPayload]
        BY <1>19, <2>1 DEF Judge, RunPayload
    <2>3. QED BY <1>19, <2>2 DEF Judge, Goto, Labels
<1>20. CASE SaveVerdict(p)
    <2>1. CASE snap[p].status = "SUCCEEDED"
        BY <1>20, <2>1 DEF SaveVerdict, SaveRun, Goto, Labels
    <2>2. CASE snap[p].status # "SUCCEEDED"
        BY <1>20, <2>2, StopTyped DEF SaveVerdict, SaveRun
    <2>3. QED BY <2>1, <2>2
<1>21. CASE SaveAggregate(p)
    BY <1>21, StopTyped DEF SaveAggregate
<1>22. QED
    BY <1>1, <1>2, <1>3, <1>4, <1>5, <1>6, <1>7, <1>8, <1>9, <1>10, <1>11, <1>12, <1>13,
       <1>14, <1>15, <1>16, <1>17, <1>18, <1>19, <1>20, <1>21 DEF Step

LEMMA RestartTyped == TypeOK /\ Restart => TypeOK'
BY NoRunTyped, NoJobTyped, ConstantsAssumption DEF TypeOK, Restart, dbVars, Labels

LEMMA DeadlineTyped ==
    ASSUME TypeOK, NEW w \in Windows, DeadlinePasses(w)
    PROVE  TypeOK'
<1>1. [window[w] EXCEPT !.deadline = "DUE"] \in WindowPayload
    <2>1. window[w] \in WindowPayload
        BY DEF TypeOK
    <2>2. QED BY <2>1 DEF WindowPayload, Deadline
<1>2. window' \in [Windows -> WindowPayload]
    BY <1>1, SaveWindowTyped DEF DeadlinePasses
<1>3. QED BY <1>2 DEF DeadlinePasses, TypeOK, localVars

LEMMA NextTyped == TypeOK /\ [Next]_vars => TypeOK'
<1> SUFFICES ASSUME TypeOK, [Next]_vars PROVE TypeOK'
    OBVIOUS
<1>1. CASE Next
    BY <1>1, StepTyped, RestartTyped, DeadlineTyped DEF Next
<1>2. CASE UNCHANGED vars
    BY <1>2 DEF vars, TypeOK
<1>3. QED BY <1>1, <1>2

\* Every row the workers write, and every copy of one they keep, is well formed, for any
\* number of workers, any forest of windows and any budgets.
THEOREM TypeCorrect == Spec => []TypeOK
BY InitTyped, NextTyped, PTL DEF Spec

-----------------------------------------------------------------------------
(* Exclusive claims *)

\* The two statuses a window may be found in when a worker's save leaves it unclaimed.
LEMMA ExhaustStatus ==
    ASSUME NEW r \in WindowPayload, NEW b \in BOOLEAN
    PROVE  ExhaustWindow(r, b).status \in {"EXHAUSTED", "NEEDS_HUMAN_ACTION"}
BY DEF ExhaustWindow, WindowPayload

\* A worker that stays out of flight disturbs nobody when what it writes cannot be claimed.
LEMMA WriteBySaver ==
    ASSUME TypeOK, Exclusive, NEW p \in Workers, NEW w \in Windows, NEW r \in WindowPayload,
           SaveWindow(w, r), r.status \in {"EXHAUSTED", "NEEDS_HUMAN_ACTION", "SPLIT"},
           \A q \in Workers \ {p} : pc'[q] = pc[q] /\ job'[q] = job[q],
           pc'[p] \notin InFlight
    PROVE  Exclusive'
<1>1. \A q \in Workers : pc'[q] \in InFlight =>
        q # p /\ pc[q] \in InFlight /\ job'[q].id = job[q].id /\ job[q].id \in Windows
    BY JobTyped
<1>2. \A v \in Windows : window'[v] = IF v = w THEN r ELSE window[v]
    BY DEF TypeOK, SaveWindow
<1>3. ClaimExclusive'
    BY <1>1 DEF Exclusive, ClaimExclusive
<1>4. HeldIsTaken'
    BY <1>1, <1>2 DEF Exclusive, HeldIsTaken
<1>5. QED BY <1>3, <1>4 DEF Exclusive

\* A worker that writes the window it holds disturbs nobody: nobody else holds it.
LEMMA WriteByHolder ==
    ASSUME TypeOK, Exclusive, NEW p \in Workers, NEW r \in WindowPayload,
           pc[p] \in InFlight, SaveWindow(job[p].id, r),
           \A q \in Workers \ {p} : pc'[q] = pc[q] /\ job'[q] = job[q],
           pc'[p] \notin InFlight
    PROVE  Exclusive'
<1>1. \A q \in Workers : pc'[q] \in InFlight =>
        q # p /\ pc[q] \in InFlight /\ job'[q].id = job[q].id /\ job[q].id \in Windows
    BY JobTyped
<1>2. \A v \in Windows : window'[v] = IF v = job[p].id THEN r ELSE window[v]
    BY DEF TypeOK, SaveWindow
<1>3. ClaimExclusive'
    BY <1>1 DEF Exclusive, ClaimExclusive
<1>4. HeldIsTaken'
    BY <1>1, <1>2 DEF Exclusive, ClaimExclusive, HeldIsTaken
<1>5. QED BY <1>3, <1>4 DEF Exclusive

\* A step that writes no window and takes no worker into flight keeps every hold.
LEMMA NoWrite ==
    ASSUME TypeOK, Exclusive, NEW p \in Workers, window' = window,
           \A q \in Workers \ {p} : pc'[q] = pc[q] /\ job'[q] = job[q],
           pc'[p] \in InFlight => pc[p] \in InFlight /\ job'[p].id = job[p].id
    PROVE  Exclusive'
BY DEF TypeOK, Exclusive, ClaimExclusive, HeldIsTaken

\* create_windows writes a child only where there is none, or where it stands as created.
LEMMA KidsWritten ==
    ASSUME TypeOK, NEW p \in Workers, CreateKids(p), NEW v \in Windows
    PROVE  \/ window'[v] = window[v]
           \/ /\ window[v].status \in {"ABSENT", "PENDING"}
              /\ window'[v].status = "PENDING"
<1>1. ChildWindow(job[p].row).status = "PENDING"
    BY DEF ChildWindow, PlannedWindow, AbsentWindow
<1>2. CASE window' = window
    BY <1>2
<1>3. CASE window' # window
    <2>1. /\ \A k \in Kids[job[p].id] :
               window[k].status = "ABSENT" \/ window[k] = ChildWindow(job[p].row)
          /\ window'[v] = IF v \in Kids[job[p].id] THEN ChildWindow(job[p].row) ELSE window[v]
        BY <1>3 DEF CreateKids, CreatedKids, SameChild
    <2>2. QED BY <1>1, <2>1
<1>4. QED BY <1>2, <1>3

\* A worker that holds its window, or has just claimed it, may write it and stay in flight.
LEMMA WriteInFlight ==
    ASSUME TypeOK, Exclusive, NEW p \in Workers, NEW r \in WindowPayload,
           SaveWindow(job[p].id, r), r.status \in {"RESERVED", "RUNNING"},
           \A q \in Workers \ {p} : pc'[q] = pc[q] /\ job'[q] = job[q],
           job'[p].id = job[p].id,
           \A q \in Workers \ {p} : pc[q] \in InFlight => job[q].id # job[p].id
    PROVE  Exclusive'
<1>1. \A q \in Workers : job'[q].id = job[q].id /\ job[q].id \in Windows
    BY JobTyped
<1>2. \A v \in Windows : window'[v] = IF v = job[p].id THEN r ELSE window[v]
    BY DEF TypeOK, SaveWindow
<1>3. ClaimExclusive'
    BY <1>1 DEF Exclusive, ClaimExclusive
<1>4. HeldIsTaken'
    BY <1>1, <1>2 DEF Exclusive, HeldIsTaken
<1>5. QED BY <1>3, <1>4 DEF Exclusive

LEMMA StepExclusive ==
    ASSUME TypeOK, Exclusive, NEW p \in Workers, Start(p) \/ Step(p)
    PROVE  Exclusive'
<1>0. job[p].id \in Windows /\ job[p].row \in WindowPayload
    BY JobTyped
<1>1. pc \in [Workers -> Labels] /\ job \in [Workers -> Job]
    BY DEF TypeOK
<1>2. CASE Start(p) \/ Open(p) \/ List(p) \/ Take(p) \/ ReadRun(p) \/ Judge(p)
           \/ RereadRun(p)
    <2>1. /\ window' = window
          /\ \A q \in Workers \ {p} : pc'[q] = pc[q] /\ job'[q] = job[q]
          /\ pc'[p] \notin InFlight
        BY <1>1, <1>2 DEF Start, Open, List, Take, ReadRun, Judge, RereadRun, SaveRun, Goto,
                          dbVars, InFlight
    <2>2. QED BY <2>1, NoWrite
<1>3. CASE ClaimLost(p) \/ SaveSplitRun(p)
    <2>1. /\ window' = window
          /\ \A q \in Workers \ {p} : pc'[q] = pc[q] /\ job'[q] = job[q]
          /\ pc'[p] \notin InFlight
        BY <1>1, <1>3 DEF ClaimLost, SaveSplitRun, EndWindow, Goto, dbVars, InFlight
    <2>2. QED BY <2>1, NoWrite
<1>4. CASE SaveVerdict(p) \/ SaveAggregate(p)
    <2>1. /\ window' = window
          /\ \A q \in Workers \ {p} : pc'[q] = pc[q] /\ job'[q] = job[q]
          /\ pc'[p] \notin InFlight
        BY <1>1, <1>4 DEF SaveVerdict, SaveAggregate, Stop, Goto, InFlight
    <2>2. QED BY <2>1, NoWrite
<1>5. CASE ReadRootBudget(p) \/ SwapRootBudget(p)
    <2>1. /\ window' = window /\ job' = job
          /\ \A q \in Workers \ {p} : pc'[q] = pc[q]
          /\ pc[p] \in InFlight
        BY <1>1, <1>5 DEF ReadRootBudget, SwapRootBudget, At, Goto, dbVars, InFlight
    <2>2. QED BY <2>1, NoWrite
<1>6. CASE Exhaust(p) \/ Deny(p)
    <2>1. \E b \in BOOLEAN : SaveWindow(job[p].id, ExhaustWindow(job[p].row, b))
        BY <1>6 DEF Exhaust, Deny
    <2>2. /\ \A q \in Workers \ {p} : pc'[q] = pc[q] /\ job'[q] = job[q]
          /\ pc'[p] \notin InFlight
        BY <1>1, <1>6 DEF Exhaust, Deny, EndWindow, Goto, InFlight
    <2>3. QED BY <1>0, <2>1, <2>2, UpdatesTyped, ExhaustStatus, WriteBySaver
<1>7. CASE SaveSplit(p)
    <2>1. SplitPayload(job[p].row) \in WindowPayload /\ SplitPayload(job[p].row).status = "SPLIT"
        BY <1>0, UpdatesTyped DEF SplitPayload, WindowPayload
    <2>2. /\ SaveWindow(job[p].id, SplitPayload(job[p].row))
          /\ \A q \in Workers \ {p} : pc'[q] = pc[q] /\ job'[q] = job[q]
          /\ pc'[p] \notin InFlight
        BY <1>1, <1>7 DEF SaveSplit, Goto, InFlight
    <2>3. QED BY <1>0, <2>1, <2>2, WriteBySaver
<1>8. CASE Claim(p)
    <2>1. Reserved(job[p].row) \in WindowPayload /\ Reserved(job[p].row).status = "RESERVED"
        BY <1>0, UpdatesTyped DEF Reserved, WindowPayload
    <2>2. /\ SaveWindow(job[p].id, Reserved(job[p].row))
          /\ \A q \in Workers \ {p} : pc'[q] = pc[q] /\ job'[q] = job[q]
          /\ job'[p].id = job[p].id
        BY <1>1, <1>8 DEF Claim, Goto, Job
    <2>3. \A q \in Workers \ {p} : pc[q] \in InFlight => job[q].id # job[p].id
        BY <1>8 DEF Claim, Claimable, Exclusive, HeldIsTaken
    <2>4. QED BY <2>1, <2>2, <2>3, WriteInFlight
<1>9. CASE Charge(p)
    <2>1. Charged(job[p].row) \in WindowPayload /\ Charged(job[p].row).status = "RUNNING"
        BY <1>0, UpdatesTyped DEF Charged, WindowPayload
    <2>2. /\ SaveWindow(job[p].id, Charged(job[p].row))
          /\ \A q \in Workers \ {p} : pc'[q] = pc[q] /\ job'[q] = job[q]
          /\ job'[p].id = job[p].id
        BY <1>1, <1>9 DEF Charge, Goto, Job
    <2>3. \A q \in Workers \ {p} : pc[q] \in InFlight => job[q].id # job[p].id
        BY <1>9 DEF Charge, At, InFlight, Exclusive, ClaimExclusive
    <2>4. QED BY <2>1, <2>2, <2>3, WriteInFlight
<1>10. CASE Succeed(p) \/ Fail(p)
    <2>1. PICK r \in WindowPayload : Record(p, r) /\ pc[p] = "call"
        BY <1>10, AnswerTyped DEF Succeed, Fail, At
    <2>2. SaveWindow(job[p].id, r) /\ pc[p] \in InFlight
        BY <2>1 DEF Record, InFlight
    <2>3. /\ \A q \in Workers \ {p} : pc'[q] = pc[q] /\ job'[q] = job[q]
          /\ pc'[p] \notin InFlight
        BY <1>1, <2>1 DEF Record, EndWindow, Goto, InFlight
    <2>4. QED BY <2>2, <2>3, WriteByHolder
<1>11. CASE CreateKids(p)
    <2>1. /\ \A q \in Workers \ {p} : pc'[q] = pc[q] /\ job'[q] = job[q]
          /\ pc'[p] \notin InFlight
        BY <1>1, <1>11 DEF CreateKids, Stop, Goto, InFlight
    <2>2. \A v \in Windows :
            window[v].status \notin {"ABSENT", "PENDING"} => window'[v] = window[v]
        BY <1>11, KidsWritten
    <2>3. \A q \in Workers : pc'[q] \in InFlight =>
            q # p /\ pc[q] \in InFlight /\ job'[q].id = job[q].id /\ job[q].id \in Windows
        BY <2>1, JobTyped
    <2>4. ClaimExclusive'
        BY <2>3 DEF Exclusive, ClaimExclusive
    <2>5. HeldIsTaken'
        BY <2>2, <2>3 DEF Exclusive, HeldIsTaken
    <2>6. QED BY <2>4, <2>5 DEF Exclusive
<1>12. QED
    BY <1>2, <1>3, <1>4, <1>5, <1>6, <1>7, <1>8, <1>9, <1>10, <1>11 DEF Step

LEMMA InitExclusive == Init => Exclusive
BY DEF Init, Exclusive, ClaimExclusive, HeldIsTaken, InFlight

LEMMA NextExclusive == TypeOK /\ Exclusive /\ [Next]_vars => Exclusive'
<1> SUFFICES ASSUME TypeOK, Exclusive, [Next]_vars PROVE Exclusive'
    OBVIOUS
<1>1. CASE \E p \in Workers : Start(p) \/ Step(p)
    BY <1>1, StepExclusive
<1>2. CASE \E w \in Windows : DeadlinePasses(w)
    <2>1. PICK w \in Windows : DeadlinePasses(w)
        BY <1>2
    <2>2. pc' = pc /\ job' = job
        BY <2>1 DEF DeadlinePasses, localVars
    <2>3. \A v \in Windows : window'[v].status = window[v].status
        BY <2>1 DEF DeadlinePasses, SaveWindow, TypeOK, WindowPayload
    <2>4. \A p \in Workers : job[p].id \in Windows
        BY JobTyped
    <2>5. QED BY <2>2, <2>3, <2>4 DEF Exclusive, ClaimExclusive, HeldIsTaken
<1>3. CASE Restart
    BY <1>3 DEF Restart, Exclusive, ClaimExclusive, HeldIsTaken, InFlight
<1>4. CASE UNCHANGED vars
    BY <1>4 DEF vars, Exclusive, ClaimExclusive, HeldIsTaken
<1>5. QED BY <1>1, <1>2, <1>3, <1>4 DEF Next

LEMMA AlwaysExclusive == Spec => []Exclusive
BY InitExclusive, NextExclusive, TypeCorrect, PTL DEF Spec

\* However many workers run, whatever they saved from stale payloads and however often the
\* service restarted, two workers never execute the same window at the same time, and the row
\* of an executed window says so.
THEOREM ClaimsAreExclusive == Spec => []Exclusive
BY AlwaysExclusive

-----------------------------------------------------------------------------
(* What a step can do to a window *)

\* The kinds of writes: a terminal save, a claim, a save by the worker that holds the
\* window, the creation of a child, and the save that hands the scope to the children.
LEMMA Writes ==
    ASSUME TypeOK, NEW p \in Workers, Start(p) \/ Step(p), NEW w \in Windows
    PROVE  \/ window'[w] = window[w]
           \/ window'[w].status \in {"EXHAUSTED", "NEEDS_HUMAN_ACTION"}
           \/ window'[w].status = "RESERVED" /\ Claimable(w)
           \/ /\ w = job[p].id /\ pc[p] \in InFlight
              /\ window'[w].status \in
                    {"RUNNING", "SUCCEEDED", "FAILED", "EXHAUSTED", "NEEDS_HUMAN_ACTION"}
           \/ window'[w].status = "PENDING" /\ window[w].status \in {"ABSENT", "PENDING"}
           \/ window'[w].status = "SPLIT" /\ w = job[p].id /\ SaveSplit(p)
<1>0. job[p].id \in Windows /\ job[p].row \in WindowPayload /\ window \in [Windows -> WindowPayload]
    BY JobTyped DEF TypeOK
<1>1. ASSUME NEW r, SaveWindow(job[p].id, r)
      PROVE  window'[w] = IF w = job[p].id THEN r ELSE window[w]
    BY <1>0, <1>1 DEF SaveWindow
<1>2. CASE window' = window
    BY <1>2
<1>3. CASE Exhaust(p) \/ Deny(p)
    BY <1>0, <1>1, <1>3, ExhaustStatus DEF Exhaust, Deny
<1>4. CASE Claim(p)
    <2>1. Reserved(job[p].row).status = "RESERVED"
        BY <1>0 DEF Reserved, WindowPayload
    <2>2. QED BY <1>1, <1>4, <2>1 DEF Claim
<1>5. CASE Charge(p)
    <2>1. Charged(job[p].row).status = "RUNNING"
        BY <1>0 DEF Charged, WindowPayload
    <2>2. QED BY <1>1, <1>5, <2>1 DEF Charge, At, InFlight
<1>6. CASE Succeed(p)
    <2>1. \A slow \in Overtime : Answered(job[p].row, "SUCCEEDED", "NONE", slow).status = "SUCCEEDED"
        BY <1>0 DEF Answered, WindowPayload
    <2>2. QED BY <1>1, <1>6, <2>1 DEF Succeed, Record, At, InFlight
<1>7. CASE Fail(p)
    <2>1. \A c \in Failures, slow \in Overtime :
            /\ Answered(job[p].row, "FAILED", c, slow) \in WindowPayload
            /\ Answered(job[p].row, "FAILED", c, slow).status = "FAILED"
        <3>1. \A c \in Failures, slow \in Overtime : c \in Category /\ slow \in BOOLEAN
            BY ConstantsAssumption DEF Category
        <3>2. QED BY <1>0, <3>1, AnsweredTyped DEF Answered, WindowPayload
    <2>2. \A c \in Failures, slow \in Overtime :
            Completed(job[p].id, Answered(job[p].row, "FAILED", c, slow)).status
                \in {"FAILED", "EXHAUSTED", "NEEDS_HUMAN_ACTION"}
        BY <1>0, <2>1, CompletedStatus
    <2>3. QED BY <1>1, <1>7, <2>2 DEF Fail, Record, At, InFlight
<1>8. CASE CreateKids(p)
    BY <1>8, KidsWritten
<1>9. CASE SaveSplit(p)
    <2>1. SplitPayload(job[p].row).status = "SPLIT"
        BY <1>0 DEF SplitPayload, WindowPayload
    <2>2. QED BY <1>1, <1>9, <2>1 DEF SaveSplit
<1>10. QED
    BY <1>2, <1>3, <1>4, <1>5, <1>6, <1>7, <1>8, <1>9
       DEF Step, Start, Open, List, Take, ClaimLost, ReadRootBudget, SwapRootBudget, RereadRun,
           SaveSplitRun, ReadRun, Judge, SaveVerdict, SaveAggregate, dbVars

\* The environment writes no status.
LEMMA StatusKept ==
    ASSUME TypeOK, Restart \/ (\E v \in Windows : DeadlinePasses(v)) \/ UNCHANGED vars,
           NEW w \in Windows
    PROVE  window'[w].status = window[w].status
<1>1. window \in [Windows -> WindowPayload]
    BY DEF TypeOK
<1>2. CASE Restart \/ UNCHANGED vars
    BY <1>2 DEF Restart, vars, dbVars
<1>3. CASE \E v \in Windows : DeadlinePasses(v)
    <2>1. PICK v \in Windows : window' = [window EXCEPT ![v] = [window[v] EXCEPT !.deadline = "DUE"]]
        BY <1>3 DEF DeadlinePasses, SaveWindow
    <2>2. [window[v] EXCEPT !.deadline = "DUE"].status = window[v].status
        BY <1>1 DEF WindowPayload
    <2>3. QED BY <1>1, <2>1, <2>2
<1>4. QED BY <1>2, <1>3

-----------------------------------------------------------------------------
(* Successful windows are not run again *)

\* No worker, resume or restart takes a successful window back to a status a worker claims
\* or executes: the Provider is never paid twice for a window that has its answer.
THEOREM SuccessNeverRerun == Spec => NeverRerun
<1>1. TypeOK /\ Exclusive /\ [Next]_vars =>
        [\A w \in Windows : window[w].status = "SUCCEEDED" =>
            window'[w].status \notin {"PENDING", "RESERVED", "RUNNING", "FAILED"}]_vars
    <2> SUFFICES ASSUME TypeOK, Exclusive, [Next]_vars,
                        NEW w \in Windows, window[w].status = "SUCCEEDED"
                 PROVE  window'[w].status \notin {"PENDING", "RESERVED", "RUNNING", "FAILED"}
        OBVIOUS
    <2>1. CASE \E p \in Workers : Start(p) \/ Step(p)
        <3>1. PICK p \in Workers : Start(p) \/ Step(p)
            BY <2>1
        <3>2. ~Claimable(w)
            BY DEF Claimable
        <3>3. ~(pc[p] \in InFlight /\ w = job[p].id)
            BY DEF Exclusive, HeldIsTaken
        <3>4. QED BY <3>1, <3>2, <3>3, Writes
    <2>2. CASE Restart \/ (\E v \in Windows : DeadlinePasses(v)) \/ UNCHANGED vars
        BY <2>2, StatusKept
    <2>3. QED BY <2>1, <2>2 DEF Next
<1>2. QED BY <1>1, TypeCorrect, AlwaysExclusive, PTL DEF Spec, NeverRerun

-----------------------------------------------------------------------------
(* A split loses no scope *)

\* Between create_windows and the save of the SPLIT parent every child is persisted.
KidsPersisted ==
    \A p \in Workers : pc[p] = "saveSplit" =>
        \A k \in Kids[job[p].id] : window[k].status # "ABSENT"

\* No row is ever deleted.
LEMMA RowsStay ==
    ASSUME TypeOK, [Next]_vars, NEW w \in Windows, window[w].status # "ABSENT"
    PROVE  window'[w].status # "ABSENT"
<1>1. CASE \E p \in Workers : Start(p) \/ Step(p)
    BY <1>1, Writes
<1>2. CASE Restart \/ (\E v \in Windows : DeadlinePasses(v)) \/ UNCHANGED vars
    BY <1>2, StatusKept
<1>3. QED BY <1>1, <1>2 DEF Next

\* Only create_windows takes a worker to the save of the SPLIT parent.
LEMMA SaveSplitEntered ==
    ASSUME TypeOK, NEW p \in Workers, Start(p) \/ Step(p), ~CreateKids(p)
    PROVE  /\ \A q \in Workers \ {p} : pc'[q] = pc[q] /\ job'[q] = job[q]
           /\ pc'[p] # "saveSplit"
<1>0. pc \in [Workers -> Labels] /\ job \in [Workers -> Job]
    BY DEF TypeOK
<1>1. CASE Start(p) \/ Open(p) \/ List(p) \/ Take(p) \/ ReadRun(p) \/ Judge(p)
           \/ RereadRun(p) \/ ReadRootBudget(p) \/ SwapRootBudget(p)
    BY <1>0, <1>1 DEF Start, Open, List, Take, ReadRun, Judge, RereadRun, ReadRootBudget,
                      SwapRootBudget, SaveRun, Goto, At
<1>2. CASE Exhaust(p) \/ ClaimLost(p) \/ Deny(p) \/ SaveSplitRun(p)
    BY <1>0, <1>2 DEF Exhaust, ClaimLost, Deny, SaveSplitRun, EndWindow, Goto
<1>3. CASE SaveVerdict(p) \/ SaveAggregate(p)
    BY <1>0, <1>3 DEF SaveVerdict, SaveAggregate, Stop, Goto
<1>4. CASE Claim(p) \/ Charge(p) \/ SaveSplit(p)
    BY <1>0, <1>4 DEF Claim, Charge, SaveSplit, Goto
<1>5. CASE Succeed(p) \/ Fail(p)
    <2>1. PICK r : Record(p, r)
        BY <1>5 DEF Succeed, Fail
    <2>2. QED BY <1>0, <2>1 DEF Record, EndWindow, Goto
<1>6. QED BY <1>1, <1>2, <1>3, <1>4, <1>5 DEF Step

LEMMA KidsPersistedStep ==
    ASSUME TypeOK, KidsPersisted, [Next]_vars
    PROVE  KidsPersisted'
<1>0. \A p \in Workers : \A k \in Kids[job[p].id] :
        window[k].status # "ABSENT" => window'[k].status # "ABSENT"
    BY RowsStay, JobTyped, ConstantsAssumption
<1>1. ASSUME NEW p \in Workers, CreateKids(p)
      PROVE  KidsPersisted'
    <2>1. pc \in [Workers -> Labels]
        BY DEF TypeOK
    <2>2. /\ \A q \in Workers \ {p} : pc'[q] = pc[q] /\ job'[q] = job[q]
          /\ pc'[p] = "saveSplit" =>
               /\ job' = job
               /\ \A k \in Kids[job[p].id] : window'[k] = ChildWindow(job[p].row)
        <3>1. Kids[job[p].id] \subseteq Windows
            BY JobTyped, ConstantsAssumption
        <3>2. CASE Stop(p)
            BY <2>1, <3>2 DEF Stop
        <3>3. CASE ~Stop(p)
            <4>1. /\ window' = [v \in Windows |-> IF v \in Kids[job[p].id]
                                                 THEN ChildWindow(job[p].row) ELSE window[v]]
                  /\ pc' = [pc EXCEPT ![p] = "saveSplit"] /\ job' = job
                BY <1>1, <3>3 DEF CreateKids, CreatedKids, Goto
            <4>2. QED BY <2>1, <3>1, <4>1
        <3>4. QED BY <3>2, <3>3
    <2>3. ChildWindow(job[p].row).status # "ABSENT"
        BY DEF ChildWindow, PlannedWindow, AbsentWindow
    <2>4. QED BY <1>0, <2>2, <2>3 DEF KidsPersisted
<1>2. ASSUME NEW p \in Workers, Start(p) \/ Step(p), ~CreateKids(p)
      PROVE  KidsPersisted'
    BY <1>0, <1>2, SaveSplitEntered DEF KidsPersisted
<1>3. CASE Restart
    BY <1>3 DEF Restart, KidsPersisted
<1>4. CASE (\E w \in Windows : DeadlinePasses(w)) \/ UNCHANGED vars
    BY <1>0, <1>4 DEF DeadlinePasses, localVars, vars, KidsPersisted
<1>5. QED BY <1>1, <1>2, <1>3, <1>4 DEF Next

LEMMA SplitKeepsScopeStep ==
    ASSUME TypeOK, KidsPersisted, SplitKeepsScope, [Next]_vars
    PROVE  SplitKeepsScope'
<1> SUFFICES ASSUME NEW w \in Windows, window'[w].status = "SPLIT", NEW k \in Kids[w]
             PROVE  window'[k].status # "ABSENT"
    BY DEF SplitKeepsScope
<1>0. k \in Windows
    BY ConstantsAssumption
<1>1. CASE window[w].status = "SPLIT"
    BY <1>0, <1>1, RowsStay DEF SplitKeepsScope
<1>2. CASE window[w].status # "SPLIT"
    <2>1. PICK p \in Workers : Start(p) \/ Step(p)
        BY <1>2, StatusKept DEF Next
    <2>2. SaveSplit(p) /\ w = job[p].id
        BY <1>2, <2>1, Writes
    <2>3. window[k].status # "ABSENT"
        BY <2>2 DEF SaveSplit, At, KidsPersisted
    <2>4. QED BY <1>0, <2>3, RowsStay
<1>3. QED BY <1>1, <1>2

\* A window marked SPLIT has every one of its children in the database, wherever workers were
\* interrupted between the two commits of a split: no piece of source is left without a window.
THEOREM SplitsKeepScope == Spec => []SplitKeepsScope
<1>1. Init => KidsPersisted /\ SplitKeepsScope
    BY DEF Init, KidsPersisted, SplitKeepsScope, PlannedWindow, AbsentWindow
<1>2. TypeOK /\ KidsPersisted /\ SplitKeepsScope /\ [Next]_vars
        => KidsPersisted' /\ SplitKeepsScope'
    BY KidsPersistedStep, SplitKeepsScopeStep
<1>3. QED BY <1>1, <1>2, TypeCorrect, PTL DEF Spec

-----------------------------------------------------------------------------
(* The aggregate covers the planned source *)

Known(w) == window[w].status # "ABSENT"

PlannedScope == UNION {Scope[w] : w \in Planned}

Covers(S) == UNION {Scope[w] : w \in S} = PlannedScope

\* The places at which the worker has a window.
Executing == InFlight \cup {"claim", "createKids", "saveSplit", "reread", "saveSplitRun"}

\* Windows come from the plan or from a split, and whoever splits one has its row.
Descent ==
    /\ \A w \in Planned : Known(w)
    /\ \A w \in Windows : Known(w) => Scope[w] \subseteq PlannedScope
    /\ \A w \in Windows : window[w].status = "SPLIT" => Kids[w] # {}

\* What a worker lists, executes or splits is in the database.
Own(p) ==
    /\ \A i \in 1..Len(todo[p]) : Known(todo[p][i].id)
    /\ pc[p] \in Executing => Known(job[p].id)
    /\ pc[p] \in {"createKids", "saveSplit"} => Kids[job[p].id] # {}
    /\ pc[p] \in {"saveSplit", "reread", "saveSplitRun"} => \A k \in Kids[job[p].id] : Known(k)

Listed == \A p \in Workers : Own(p)

\* Who has found the run successful has windows for the whole source.
Found ==
    \A p \in Workers :
        pc[p] = "aggregate" \/ (pc[p] = "saveVerdict" /\ snap[p].status = "SUCCEEDED") =>
            Covers(delivered[p])

\* Nothing is left to do: follow a piece of source down to the window that has its answer.
LEMMA SettledCovers ==
    ASSUME TypeOK, Descent, SplitKeepsScope, Verdict = "SUCCEEDED"
    PROVE  Covers({w \in Windows : window[w].status = "SUCCEEDED"})
<1> DEFINE Done == {w \in Windows : window[w].status = "SUCCEEDED"}
<1>1. \A w \in Windows : window[w].status \in {"ABSENT", "SUCCEEDED", "SPLIT"}
    <2>1. ~Unsettled /\ ~SomeWindow(FailedStatuses)
        BY DEF Verdict
    <2>2. \A w \in Windows : window[w].status \in WindowStatus
        BY DEF TypeOK, WindowPayload
    <2>3. QED BY <2>1, <2>2 DEF Unsettled, SomeWindow, FailedStatuses, WindowStatus
<1>2. \A w \in Done : Scope[w] \subseteq PlannedScope
    BY DEF Descent, Known
<1>3. ASSUME NEW x \in PlannedScope PROVE \E w \in Done : x \in Scope[w]
    <2> DEFINE Owners == {w \in Windows : Known(w) /\ x \in Scope[w]}
    <2>1. PICK w \in Planned : x \in Scope[w]
        BY <1>3 DEF PlannedScope
    <2>2. w \in Owners
        BY <2>1, ConstantsAssumption DEF Descent
    <2>3. PICK v \in Owners : Kids[v] \cap Owners = {}
        BY <2>2, SplitsEnd
    <2>4. window[v].status # "SPLIT"
        <3> SUFFICES ASSUME window[v].status = "SPLIT" PROVE FALSE
            OBVIOUS
        <3>1. Kids[v] # {}
            BY DEF Descent
        <3>2. PICK k \in Kids[v] : x \in Scope[k]
            BY <3>1, ConstantsAssumption
        <3>3. k \in Owners
            BY <3>2, ConstantsAssumption DEF SplitKeepsScope, Known
        <3>4. QED BY <2>3, <3>2, <3>3
    <2>5. QED BY <1>1, <2>3, <2>4 DEF Known
<1>4. QED BY <1>2, <1>3 DEF Covers, PlannedScope

\* Rows come from create_windows, and everything else is written where the worker has a row.
LEMMA RowsWritten ==
    ASSUME TypeOK, Exclusive, Listed, NEW p \in Workers, Start(p) \/ Step(p), NEW w \in Windows,
           ~Known(w), Known(w)'
    PROVE  CreateKids(p) /\ w \in Kids[job[p].id]
<1>0. job[p].id \in Windows
    BY JobTyped
<1>1. CASE CreateKids(p)
    BY <1>1 DEF CreateKids, CreatedKids, Known
<1>2. CASE Exhaust(p) \/ Claim(p) \/ Deny(p) \/ Charge(p) \/ SaveSplit(p)
    <2>1. Known(job[p].id)
        BY <1>2 DEF Exhaust, Claim, Deny, Charge, SaveSplit, At, Listed, Own, Own, Executing, InFlight
    <2>2. PICK r : SaveWindow(job[p].id, r)
        BY <1>2 DEF Exhaust, Claim, Deny, Charge, SaveSplit
    <2>3. QED BY <2>1, <2>2 DEF SaveWindow, Known, TypeOK
<1>3. CASE Succeed(p) \/ Fail(p)
    <2>1. Known(job[p].id)
        BY <1>3 DEF Succeed, Fail, At, Listed, Own, Executing, InFlight
    <2>2. PICK r : SaveWindow(job[p].id, r)
        BY <1>3 DEF Succeed, Fail, Record
    <2>3. QED BY <2>1, <2>2 DEF SaveWindow, Known, TypeOK
<1>4. CASE window' = window
    BY <1>4 DEF Known
<1>5. QED
    BY <1>1, <1>2, <1>3, <1>4
       DEF Step, Start, Open, List, Take, ClaimLost, ReadRootBudget, SwapRootBudget, RereadRun,
           SaveSplitRun, ReadRun, Judge, SaveVerdict, SaveAggregate, dbVars

LEMMA DescentStep ==
    ASSUME TypeOK, Exclusive, Descent, Listed, [Next]_vars
    PROVE  Descent'
<1>1. \A w \in Planned : Known(w)'
    BY RowsStay, ConstantsAssumption DEF Descent, Known
<1>2. ASSUME NEW w \in Windows, Known(w)' PROVE Scope[w] \subseteq PlannedScope
    <2>1. CASE Known(w)
        BY <2>1 DEF Descent
    <2>2. CASE ~Known(w)
        <3>1. PICK p \in Workers : Start(p) \/ Step(p)
            BY <1>2, <2>2, StatusKept DEF Next, Known
        <3>2. CreateKids(p) /\ w \in Kids[job[p].id]
            BY <1>2, <2>2, <3>1, RowsWritten
        <3>3. Known(job[p].id) /\ job[p].id \in Windows
            BY <3>2, JobTyped DEF CreateKids, At, Listed, Own, Executing
        <3>4. Scope[w] \subseteq Scope[job[p].id]
            BY <3>2, <3>3, ConstantsAssumption
        <3>5. QED BY <3>3, <3>4 DEF Descent
    <2>3. QED BY <2>1, <2>2
<1>3. ASSUME NEW w \in Windows, window'[w].status = "SPLIT" PROVE Kids[w] # {}
    <2>1. CASE window[w].status = "SPLIT"
        BY <2>1 DEF Descent
    <2>2. CASE window[w].status # "SPLIT"
        <3>1. PICK p \in Workers : Start(p) \/ Step(p)
            BY <1>3, <2>2, StatusKept DEF Next
        <3>2. SaveSplit(p) /\ w = job[p].id
            BY <1>3, <2>2, <3>1, Writes
        <3>3. QED BY <3>2 DEF SaveSplit, At, Listed, Own
    <2>3. QED BY <2>1, <2>2
<1>4. PlannedScope' = PlannedScope
    BY DEF PlannedScope
<1>5. QED BY <1>1, <1>2, <1>3 DEF Descent, PlannedScope

\* A worker keeps its list, and its window unless it lets go of it.
LEMMA OwnKept ==
    ASSUME TypeOK, Listed, [Next]_vars, NEW q \in Workers, todo'[q] = todo[q],
           pc'[q] \in Executing => pc[q] \in Executing /\ job'[q].id = job[q].id,
           pc'[q] \in {"createKids", "saveSplit"} => Kids[job[q].id] # {},
           pc'[q] \in {"saveSplit", "reread", "saveSplitRun"} =>
              \/ pc[q] \in {"saveSplit", "reread", "saveSplitRun"}
              \/ \A k \in Kids[job[q].id] : Known(k)'
    PROVE  Own(q)'
<1>1. \A i \in 1..Len(todo[q]) : todo[q][i].id \in Windows
    <2>1. todo[q] \in Seq(Job)
        BY DEF TypeOK
    <2>2. \A i \in 1..Len(todo[q]) : todo[q][i] \in Job
        BY <2>1, ElementOfSeq
    <2>3. QED BY <2>2 DEF Job
<1>2. job[q].id \in Windows /\ Kids[job[q].id] \subseteq Windows
    BY JobTyped, ConstantsAssumption
<1>3. \A w \in Windows : Known(w) => Known(w)'
    BY RowsStay DEF Known
<1>4. {"createKids", "saveSplit", "reread", "saveSplitRun"} \subseteq Executing
    BY DEF Executing
<1>5. QED BY <1>1, <1>2, <1>3, <1>4 DEF Listed, Own

\* What a worker puts on its list is in the database.
LEMMA ListKnown ==
    ASSUME NEW S \in SUBSET Windows, NEW ids \in Listings(S), \A w \in S : Known(w)
    PROVE  Len(ids) \in Nat /\ \A i \in 1..Len(ids) : Known(ids[i])
BY ListingIsSeq, ElementOfSeq

LEMMA OwnStep ==
    ASSUME TypeOK, Listed, NEW p \in Workers, Start(p) \/ Step(p)
    PROVE  Own(p)'
<1> [Next]_vars
    BY DEF Next
<1>0. pc \in [Workers -> Labels] /\ job \in [Workers -> Job] /\ todo \in [Workers -> Seq(Job)]
    BY DEF TypeOK
<1>1. CASE Start(p) \/ Open(p) \/ ReadRun(p) \/ Judge(p) \/ RereadRun(p) \/ ReadRootBudget(p)
           \/ SwapRootBudget(p)
    <2>1. /\ todo'[p] = todo[p] /\ job'[p] = job[p]
          /\ pc'[p] \in Executing => pc[p] \in Executing
          /\ pc'[p] \notin {"createKids", "saveSplit"}
          /\ pc'[p] \in {"reread", "saveSplitRun"} => pc[p] = "reread"
        BY <1>0, <1>1 DEF Start, Open, ReadRun, Judge, RereadRun, ReadRootBudget,
                          SwapRootBudget, Goto, At, Executing, InFlight
    <2>2. QED BY <2>1, OwnKept
<1>2. CASE Claim(p) \/ Charge(p)
    <2>1. /\ todo'[p] = todo[p] /\ job'[p].id = job[p].id
          /\ pc[p] \in Executing /\ pc'[p] \in InFlight
        BY <1>0, <1>2 DEF Claim, Charge, Goto, At, Executing, InFlight, Job
    <2>2. QED BY <2>1, OwnKept DEF InFlight
<1>3. CASE Exhaust(p) \/ ClaimLost(p) \/ Deny(p)
    <2>1. todo'[p] = todo[p] /\ pc'[p] = "next"
        BY <1>0, <1>3 DEF Exhaust, ClaimLost, Deny, EndWindow, Goto
    <2>2. QED BY <2>1, OwnKept DEF Executing, InFlight
<1>4. CASE Succeed(p) \/ Fail(p)
    <2>1. PICK r : Record(p, r) /\ pc[p] = "call"
        BY <1>4 DEF Succeed, Fail, At
    <2>2. /\ todo'[p] = todo[p]
          /\ \/ pc'[p] = "createKids" /\ job'[p].id = job[p].id /\ Kids[job[p].id] # {}
             \/ pc'[p] = "claim" /\ job'[p].id = job[p].id
             \/ pc'[p] = "next"
        BY <1>0, <2>1 DEF Record, ShouldSplit, EndWindow, Goto, Job
    <2>3. pc[p] \in Executing /\ "next" \notin Executing
        BY <2>1 DEF Executing, InFlight
    <2>4. QED BY <2>2, <2>3, OwnKept
<1>5. CASE CreateKids(p)
    <2>1. pc[p] = "createKids" /\ Kids[job[p].id] # {} /\ pc[p] \in Executing
        BY <1>5 DEF CreateKids, At, Listed, Own, Executing
    <2>2. CASE Stop(p)
        <3>1. todo'[p] = <<>> /\ pc'[p] = "idle"
            BY <1>0, <2>2 DEF Stop
        <3>2. QED BY <3>1 DEF Own, Executing, InFlight
    <2>3. CASE ~Stop(p)
        <3>1. /\ todo' = todo /\ job' = job /\ pc'[p] = "saveSplit"
              /\ window' = [v \in Windows |-> IF v \in Kids[job[p].id]
                                              THEN ChildWindow(job[p].row) ELSE window[v]]
            BY <1>0, <1>5, <2>3 DEF CreateKids, CreatedKids, Goto
        <3>2. ChildWindow(job[p].row).status = "PENDING"
            BY DEF ChildWindow, PlannedWindow, AbsentWindow
        <3>3. \A k \in Kids[job[p].id] : Known(k)'
            BY <3>1, <3>2, JobTyped, ConstantsAssumption DEF Known
        <3>4. QED BY <2>1, <3>1, <3>3, OwnKept
    <2>4. QED BY <2>2, <2>3
<1>6. CASE SaveSplit(p)
    <2>1. /\ todo' = todo /\ job' = job /\ pc[p] = "saveSplit"
          /\ pc'[p] \in {"reread", "saveSplitRun"}
        BY <1>0, <1>6 DEF SaveSplit, Goto, At
    <2>2. QED BY <2>1, OwnKept DEF Executing
<1>7. CASE List(p)
    <2>1. PICK ids \in Listings({w \in Windows : Eligible(w)}) :
            todo' = [todo EXCEPT ![p] =
                        [i \in 1..Len(ids) |-> [id |-> ids[i], row |-> window[ids[i]]]]]
        BY <1>7 DEF List
    <2>2. Len(ids) \in Nat /\ \A i \in 1..Len(ids) : Known(ids[i])
        BY <2>1, ListKnown DEF Eligible, Claimable, Known
    <2>3. pc'[p] = "next" /\ window' = window
        BY <1>0, <1>7 DEF List, Goto, dbVars
    <2>4. /\ Len(todo'[p]) = Len(ids)
          /\ \A i \in 1..Len(ids) : todo'[p][i].id = ids[i]
        BY <1>0, <2>1, <2>2
    <2>5. QED BY <2>2, <2>3, <2>4 DEF Own, Known, Executing, InFlight
<1>8. CASE Take(p)
    <2>1. todo[p] \in Seq(Job) /\ todo[p] # <<>>
        BY <1>0, <1>8 DEF Take
    <2>2. /\ pc'[p] = "claim" /\ window' = window
          /\ job'[p] = Head(todo[p]) /\ todo'[p] = Tail(todo[p])
        BY <1>0, <1>8 DEF Take, Goto, dbVars
    <2>3. \A i \in 1..Len(todo[p]) : Known(todo[p][i].id)
        BY DEF Listed, Own
    <2>4. Known(Head(todo[p]).id)
        BY <2>1, <2>3
    <2>5. \A i \in 1..Len(Tail(todo[p])) : Known(Tail(todo[p])[i].id)
        BY <2>1, <2>3
    <2>6. QED BY <2>2, <2>4, <2>5 DEF Own, Known
<1>9. CASE SaveSplitRun(p)
    <2> DEFINE r == job[p].row
               S == {k \in Kids[job[p].id] : Runnable(k, r)}
    <2>1. PICK ids \in Listings(S) :
            todo' = [todo EXCEPT
                       ![p] = [i \in 1..Len(ids) |-> [id |-> ids[i], row |-> ChildWindow(r)]] \o @]
        BY <1>9 DEF SaveSplitRun
    <2>2. S \in SUBSET Windows /\ \A w \in S : Known(w)
        BY <1>9, JobTyped, ConstantsAssumption DEF SaveSplitRun, At, Listed, Own
    <2>3. Len(ids) \in Nat /\ \A i \in 1..Len(ids) : Known(ids[i]) /\ ids[i] \in Windows
        BY <2>1, <2>2, ListKnown, ListingIsSeq, ElementOfSeq
    <2> DEFINE front == [i \in 1..Len(ids) |-> [id |-> ids[i], row |-> ChildWindow(r)]]
    <2>4. front \in Seq(Job) /\ Len(front) = Len(ids)
        <3>1. ChildWindow(r) \in WindowPayload
            BY JobTyped, UpdatesTyped
        <3>2. QED BY <2>3, <3>1 DEF Job
    <2>5. \A i \in 1..Len(front) : Known(front[i].id)
        BY <2>3, <2>4
    <2>6. \A i \in 1..Len(todo[p]) : Known(todo[p][i].id)
        BY DEF Listed, Own
    <2>7. todo'[p] = front \o todo[p] /\ todo[p] \in Seq(Job)
        BY <1>0, <2>1
    <2> HIDE DEF front
    <2>8. \A i \in 1..Len(front \o todo[p]) : Known((front \o todo[p])[i].id)
        BY <2>4, <2>5, <2>6, <2>7, ConcatProperties
    <2>9. pc'[p] = "next" /\ window' = window
        BY <1>0, <1>9 DEF SaveSplitRun, EndWindow, Goto
    <2>10. QED BY <2>7, <2>8, <2>9 DEF Own, Known, Executing, InFlight
<1>10. CASE SaveVerdict(p)
    <2>1. \/ pc'[p] = "aggregate" /\ todo'[p] = todo[p]
          \/ pc'[p] = "idle" /\ todo'[p] = <<>>
        BY <1>0, <1>10 DEF SaveVerdict, Stop, Goto
    <2>2. CASE pc'[p] = "aggregate" /\ todo'[p] = todo[p]
        BY <2>2, OwnKept DEF Executing, InFlight
    <2>3. CASE pc'[p] = "idle" /\ todo'[p] = <<>>
        BY <2>3 DEF Own, Executing, InFlight
    <2>4. QED BY <2>1, <2>2, <2>3
<1>11. CASE SaveAggregate(p)
    <2>1. pc'[p] = "idle" /\ todo'[p] = <<>>
        BY <1>0, <1>11 DEF SaveAggregate, Stop
    <2>2. QED BY <2>1 DEF Own, Executing, InFlight
<1>12. QED
    BY <1>1, <1>2, <1>3, <1>4, <1>5, <1>6, <1>7, <1>8, <1>9, <1>10, <1>11 DEF Step

\* A step of one worker leaves the lists and hands of the others alone.
LEMMA OthersKept ==
    ASSUME TypeOK, NEW p \in Workers, Start(p) \/ Step(p), NEW q \in Workers \ {p}
    PROVE  /\ pc'[q] = pc[q] /\ job'[q] = job[q] /\ todo'[q] = todo[q]
           /\ snap'[q] = snap[q] /\ delivered'[q] = delivered[q]
<1>0. /\ pc \in [Workers -> Labels] /\ job \in [Workers -> Job] /\ todo \in [Workers -> Seq(Job)]
      /\ snap \in [Workers -> RunPayload] /\ delivered \in [Workers -> SUBSET Windows]
    BY DEF TypeOK
<1>1. CASE Start(p) \/ Open(p) \/ List(p) \/ Take(p) \/ ReadRun(p) \/ Judge(p)
           \/ RereadRun(p) \/ ReadRootBudget(p) \/ SwapRootBudget(p)
    BY <1>0, <1>1 DEF Start, Open, List, Take, ReadRun, Judge, RereadRun, ReadRootBudget,
                      SwapRootBudget, SaveRun, Goto, At
<1>2. CASE Exhaust(p) \/ ClaimLost(p) \/ Deny(p) \/ SaveSplitRun(p)
    BY <1>0, <1>2 DEF Exhaust, ClaimLost, Deny, SaveSplitRun, EndWindow, Goto
<1>3. CASE SaveVerdict(p) \/ SaveAggregate(p) \/ CreateKids(p)
    BY <1>0, <1>3 DEF SaveVerdict, SaveAggregate, CreateKids, Stop, Goto
<1>4. CASE Claim(p) \/ Charge(p) \/ SaveSplit(p)
    BY <1>0, <1>4 DEF Claim, Charge, SaveSplit, Goto
<1>5. CASE Succeed(p) \/ Fail(p)
    <2>1. PICK r : Record(p, r)
        BY <1>5 DEF Succeed, Fail
    <2>2. QED BY <1>0, <2>1 DEF Record, EndWindow, Goto
<1>6. QED BY <1>1, <1>2, <1>3, <1>4, <1>5 DEF Step

LEMMA ListedStep ==
    ASSUME TypeOK, Listed, [Next]_vars
    PROVE  Listed'
<1>1. CASE \E p \in Workers : Start(p) \/ Step(p)
    <2>1. PICK p \in Workers : Start(p) \/ Step(p)
        BY <1>1
    <2>2. ASSUME NEW q \in Workers \ {p} PROVE Own(q)'
        <3>1. pc'[q] = pc[q] /\ job'[q] = job[q] /\ todo'[q] = todo[q]
            BY <2>1, OthersKept
        <3>2. QED BY <3>1, OwnKept DEF Listed, Own
    <2>3. QED BY <2>1, <2>2, OwnStep DEF Listed
<1>2. CASE Restart
    BY <1>2 DEF Restart, Listed, Own, Executing, InFlight
<1>3. CASE (\E w \in Windows : DeadlinePasses(w)) \/ UNCHANGED vars
    <2>1. pc' = pc /\ job' = job /\ todo' = todo
        BY <1>3 DEF DeadlinePasses, localVars, vars
    <2>2. QED BY <2>1, OwnKept DEF Listed, Own
<1>4. QED BY <1>1, <1>2, <1>3 DEF Next

LEMMA FoundStep ==
    ASSUME TypeOK, Descent, SplitKeepsScope, Found, AggregateComplete, [Next]_vars
    PROVE  Found' /\ AggregateComplete'
<1> DEFINE Finds(p) ==
        pc[p] = "aggregate" \/ (pc[p] = "saveVerdict" /\ snap[p].status = "SUCCEEDED")
<1>0. /\ pc \in [Workers -> Labels] /\ delivered \in [Workers -> SUBSET Windows]
      /\ snap \in [Workers -> RunPayload]
    BY DEF TypeOK
<1>1. ASSUME NEW p \in Workers, Start(p) \/ Step(p), Finds(p)' PROVE Covers(delivered'[p])
    <2>1. CASE Judge(p)
        <3>1. Verdict = "SUCCEEDED"
            BY <1>0, <1>1, <2>1 DEF Judge, Goto, RunPayload
        <3>2. delivered'[p] = {w \in Windows : window[w].status = "SUCCEEDED"}
            BY <1>0, <2>1 DEF Judge
        <3>3. QED BY <3>1, <3>2, SettledCovers
    <2>2. CASE SaveVerdict(p)
        <3>1. pc[p] = "saveVerdict" /\ snap[p].status = "SUCCEEDED" /\ delivered' = delivered
            BY <1>0, <1>1, <2>2 DEF SaveVerdict, Stop, Goto, At
        <3>2. QED BY <3>1 DEF Found
    <2>3. CASE ~Judge(p) /\ ~SaveVerdict(p)
        <3>1. pc'[p] \notin {"aggregate", "saveVerdict"}
            <4>1. CASE Start(p) \/ Open(p) \/ List(p) \/ Take(p) \/ ReadRun(p)
                       \/ RereadRun(p) \/ ReadRootBudget(p) \/ SwapRootBudget(p)
                BY <1>0, <4>1 DEF Start, Open, List, Take, ReadRun, RereadRun, ReadRootBudget,
                                  SwapRootBudget, Goto, At
            <4>2. CASE Exhaust(p) \/ ClaimLost(p) \/ Deny(p) \/ SaveSplitRun(p)
                BY <1>0, <4>2 DEF Exhaust, ClaimLost, Deny, SaveSplitRun, EndWindow, Goto
            <4>3. CASE SaveAggregate(p) \/ CreateKids(p)
                BY <1>0, <4>3 DEF SaveAggregate, CreateKids, Stop, Goto
            <4>4. CASE Claim(p) \/ Charge(p) \/ SaveSplit(p)
                BY <1>0, <4>4 DEF Claim, Charge, SaveSplit, Goto
            <4>5. CASE Succeed(p) \/ Fail(p)
                <5>1. PICK r : Record(p, r)
                    BY <4>5 DEF Succeed, Fail
                <5>2. QED BY <1>0, <5>1 DEF Record, EndWindow, Goto
            <4>6. QED BY <1>1, <2>3, <4>1, <4>2, <4>3, <4>4, <4>5 DEF Step
        <3>2. QED BY <1>1, <3>1
    <2>4. QED BY <2>1, <2>2, <2>3
<1>2. ASSUME NEW p \in Workers, Start(p) \/ Step(p) PROVE AggregateComplete'
    <2>1. CASE SaveAggregate(p)
        <3>1. pc[p] = "aggregate" /\ result' = delivered[p]
            BY <2>1 DEF SaveAggregate, At
        <3>2. Covers(delivered[p])
            BY <3>1 DEF Found
        <3>3. QED BY <3>1, <3>2 DEF Covers, PlannedScope, AggregateComplete
    <2>2. CASE result' = result
        BY <2>2 DEF AggregateComplete
    <2>3. QED
        BY <1>2, <2>1, <2>2
           DEF Step, Start, Open, List, Take, Exhaust, Claim, ClaimLost, ReadRootBudget,
               SwapRootBudget, Deny, Charge, Succeed, Fail, Record, CreateKids, SaveSplit,
               RereadRun, SaveSplitRun, ReadRun, Judge, SaveVerdict, dbVars
<1>3. CASE \E p \in Workers : Start(p) \/ Step(p)
    <2>1. PICK p \in Workers : Start(p) \/ Step(p)
        BY <1>3
    <2>2. ASSUME NEW q \in Workers, Finds(q)' PROVE Covers(delivered'[q])
        <3>1. CASE q = p
            BY <1>1, <2>1, <2>2, <3>1
        <3>2. CASE q # p
            BY <2>1, <2>2, <3>2, OthersKept DEF Found
        <3>3. QED BY <3>1, <3>2
    <2>3. Found'
        BY <2>2 DEF Found, Covers, PlannedScope
    <2>4. QED BY <1>2, <2>1, <2>3
<1>4. CASE Restart
    BY <1>4 DEF Restart, dbVars, Found, AggregateComplete
<1>5. CASE (\E w \in Windows : DeadlinePasses(w)) \/ UNCHANGED vars
    BY <1>5 DEF DeadlinePasses, localVars, vars, Found, Covers, PlannedScope, AggregateComplete
<1>6. QED BY <1>3, <1>4, <1>5 DEF Next

LEMMA InitDescends == Init => Descent /\ Listed /\ Found /\ AggregateComplete
<1> SUFFICES ASSUME Init PROVE Descent /\ Listed /\ Found /\ AggregateComplete
    OBVIOUS
<1>1. \A w \in Windows : window[w].status = IF w \in Planned THEN "PENDING" ELSE "ABSENT"
    BY DEF Init, PlannedWindow, AbsentWindow
<1>2. Descent
    BY <1>1, ConstantsAssumption DEF Descent, Known, PlannedScope
<1>3. Listed
    BY DEF Init, Listed, Own, Executing, InFlight
<1>4. Found /\ AggregateComplete
    BY DEF Init, Found, AggregateComplete
<1>5. QED BY <1>2, <1>3, <1>4

LEMMA AlwaysListed == Spec => [](Descent /\ Listed /\ Found /\ AggregateComplete)
<1> DEFINE I == Descent /\ Listed /\ Found /\ AggregateComplete
<1>1. Init => I
    BY InitDescends
<1>2. TypeOK /\ Exclusive /\ SplitKeepsScope /\ I /\ [Next]_vars => I'
    BY DescentStep, ListedStep, FoundStep
<1>3. QED BY <1>1, <1>2, TypeCorrect, AlwaysExclusive, SplitsKeepScope, PTL DEF Spec

\* No text is lost between the plan, the splits and the aggregate, for any number of workers,
\* stale saves and restarts and any forest of windows: what is handed to Gate 2 covers the
\* planned source.
THEOREM ScopeIsKept == Spec => []ScopeKept
<1>1. AggregateComplete /\ SplitKeepsScope => ScopeKept
    BY DEF ScopeKept
<1>2. QED BY <1>1, AlwaysListed, SplitsKeepScope, PTL

-----------------------------------------------------------------------------
(* The root budget, when one worker at a time runs *)

Solo == \A p, q \in Workers : p = q

\* The places at which the worker holds the run payload it read or wrote last.
Holding == {"open", "swap", "charge", "call", "createKids", "saveSplit", "saveSplitRun",
            "judge", "saveVerdict"}

\* The copy is current, and the slot taken for the next call is still unspent.
Budget ==
    /\ MaxProviderRequests > 0 => run.used <= MaxProviderRequests
    /\ spent <= run.used
    /\ \A p \in Workers :
          /\ pc[p] \in Holding => snap[p].used = run.used
          /\ pc[p] = "swap" /\ MaxProviderRequests > 0 => run.used < MaxProviderRequests
          /\ pc[p] = "charge" => spent < run.used

LEMMA StepBudget ==
    ASSUME Solo, TypeOK, Budget, NEW p \in Workers, Start(p) \/ Step(p)
    PROVE  Budget'
<1>0. /\ pc \in [Workers -> Labels] /\ snap \in [Workers -> RunPayload]
      /\ run \in RunPayload /\ run.used \in Nat /\ snap[p].used \in Nat
      /\ spent \in Nat /\ MaxProviderRequests \in Nat
      /\ \A q \in Workers : q = p
    BY ConstantsAssumption DEF TypeOK, RunPayload, Solo
<1>1. CASE Start(p) \/ ReadRun(p) \/ RereadRun(p)
    BY <1>0, <1>1 DEF Start, ReadRun, RereadRun, Goto, Budget, Holding, dbVars
<1>2. CASE Open(p)
    BY <1>0, <1>2 DEF Open, At, SaveRun, Goto, Budget, Holding, RunPayload
<1>3. CASE List(p) \/ Take(p) \/ Claim(p)
    BY <1>0, <1>3 DEF List, Take, Claim, Goto, Budget, Holding, dbVars
<1>4. CASE Exhaust(p) \/ ClaimLost(p) \/ Deny(p)
    BY <1>0, <1>4 DEF Exhaust, ClaimLost, Deny, EndWindow, Goto, Budget, Holding, dbVars
<1>5. CASE ReadRootBudget(p)
    BY <1>0, <1>5 DEF ReadRootBudget, RootBudgetSpent, Goto, Budget, Holding, dbVars
<1>6. CASE SwapRootBudget(p)
    <2>1. SlotTaken(snap[p]).used = snap[p].used + 1
        BY <1>0 DEF SlotTaken, RunPayload
    <2>2. QED BY <1>0, <1>6, <2>1 DEF SwapRootBudget, At, SaveRun, Goto, Budget, Holding
<1>7. CASE Charge(p)
    <2>1. spent' <= spent + 1 /\ spent' \in Nat
        BY <1>0, <1>7, ConstantsAssumption DEF Charge, Capped
    <2>2. QED BY <1>0, <1>7, <2>1 DEF Charge, At, Goto, Budget, Holding
<1>8. CASE Succeed(p) \/ Fail(p)
    <2>1. PICK r : Record(p, r) /\ pc[p] = "call"
        BY <1>8 DEF Succeed, Fail, At
    <2>2. QED BY <1>0, <2>1 DEF Record, EndWindow, Goto, Budget, Holding
<1>9. CASE CreateKids(p)
    BY <1>0, <1>9 DEF CreateKids, At, Stop, Goto, Budget, Holding
<1>10. CASE SaveSplit(p)
    BY <1>0, <1>10 DEF SaveSplit, At, Goto, Budget, Holding
<1>11. CASE SaveSplitRun(p)
    BY <1>0, <1>11 DEF SaveSplitRun, At, SaveRun, EndWindow, Goto, Budget, Holding
<1>12. CASE Judge(p)
    BY <1>0, <1>12 DEF Judge, At, Goto, Budget, Holding, dbVars, RunPayload
<1>13. CASE SaveVerdict(p) \/ SaveAggregate(p)
    BY <1>0, <1>13 DEF SaveVerdict, SaveAggregate, At, SaveRun, Stop, Goto, Budget, Holding
<1>14. QED
    BY <1>1, <1>2, <1>3, <1>4, <1>5, <1>6, <1>7, <1>8, <1>9, <1>10, <1>11, <1>12, <1>13 DEF Step

\* As long as one worker at a time executes the run, every Provider call is recorded on the run
\* before it is made and the root cap is never exceeded, over any number of restarts.  (Two
\* workers save the run from stale payloads: neither holds for them.)
THEOREM SoloBudget ==
    ASSUME Solo
    PROVE  Spec => [](ChargedBeforeCalled /\ RootBudget)
<1>1. Init => Budget
    BY ConstantsAssumption DEF Init, Budget, NoRun, Holding
<1>2. TypeOK /\ Budget /\ [Next]_vars => Budget'
    <2> SUFFICES ASSUME TypeOK, Budget, [Next]_vars PROVE Budget'
        OBVIOUS
    <2>1. CASE \E p \in Workers : Start(p) \/ Step(p)
        BY <2>1, StepBudget
    <2>2. CASE Restart
        BY <2>2 DEF Restart, dbVars, Budget, Holding
    <2>3. CASE (\E w \in Windows : DeadlinePasses(w)) \/ UNCHANGED vars
        BY <2>3 DEF DeadlinePasses, localVars, vars, Budget
    <2>4. QED BY <2>1, <2>2, <2>3 DEF Next
<1>3. TypeOK /\ Budget => ChargedBeforeCalled /\ RootBudget
    <2>1. TypeOK => run.used \in Nat /\ spent \in Nat
        BY ConstantsAssumption DEF TypeOK, RunPayload
    <2>2. QED BY <2>1, ConstantsAssumption DEF Budget, ChargedBeforeCalled, RootBudget
<1>4. QED BY <1>1, <1>2, <1>3, TypeCorrect, PTL DEF Spec

-----------------------------------------------------------------------------
(* What the run row says, when one worker at a time runs *)

\* The places between the opening of the run and its verdict.
Busy == Labels \ {"idle", "open", "saveVerdict", "aggregate"}

Settled == \A w \in Windows : window[w].status \in {"ABSENT", "SUCCEEDED", "SPLIT"}

\* The run is marked RUNNING as long as a window can change, and the copy the worker saves
\* says so too; a verdict of success is saved and kept only while every window is settled.
Standing ==
    /\ run.status = "SUCCEEDED" => Settled
    /\ \A p \in Workers :
          /\ pc[p] \in Busy => run.status = "RUNNING"
          /\ pc[p] \in Busy \cap Holding => snap[p].status = "RUNNING"
          /\ pc[p] = "saveVerdict" /\ snap[p].status = "SUCCEEDED" => Settled

LEMMA VerdictSettled ==
    ASSUME TypeOK, Verdict = "SUCCEEDED"
    PROVE  Settled
<1>1. ~Unsettled /\ ~SomeWindow(FailedStatuses)
    BY DEF Verdict
<1>2. \A w \in Windows : window[w].status \in WindowStatus
    BY DEF TypeOK, WindowPayload
<1>3. QED BY <1>1, <1>2 DEF Unsettled, SomeWindow, FailedStatuses, WindowStatus, Settled

LEMMA StandingStep ==
    ASSUME Solo, TypeOK, Standing, NEW p \in Workers, Start(p) \/ Step(p)
    PROVE  Standing'
<1>0. /\ pc \in [Workers -> Labels] /\ snap \in [Workers -> RunPayload]
      /\ run \in RunPayload /\ \A q \in Workers : q = p
    BY DEF TypeOK, Solo
<1>1. CASE Start(p)
    BY <1>0, <1>1 DEF Start, Goto, Standing, Settled, Busy, Holding, dbVars
<1>2. CASE Open(p)
    <2>1. run'.status = "RUNNING" /\ pc'[p] = "list"
        BY <1>0, <1>2 DEF Open, SaveRun, Goto, RunPayload
    <2>2. QED BY <1>0, <2>1 DEF Standing, Busy, Holding
<1>3. CASE List(p) \/ Take(p) \/ Exhaust(p) \/ Claim(p) \/ ClaimLost(p) \/ ReadRootBudget(p)
           \/ Deny(p) \/ Charge(p) \/ SaveSplit(p) \/ RereadRun(p) \/ ReadRun(p)
    <2>1. run' = run /\ run.status = "RUNNING"
        BY <1>0, <1>3 DEF List, Take, Exhaust, Claim, ClaimLost, ReadRootBudget, Deny, Charge,
                          SaveSplit, RereadRun, ReadRun, At, Standing, Busy, Labels, dbVars
    <2>2. /\ pc'[p] \in Busy
          /\ pc'[p] \in Holding => snap'[p] = run \/ (snap'[p] = snap[p] /\ pc[p] \in Holding)
        BY <1>0, <1>3 DEF List, Take, Exhaust, Claim, ClaimLost, ReadRootBudget, Deny, Charge,
                          SaveSplit, RereadRun, ReadRun, EndWindow, At, Goto, Busy, Labels, Holding
    <2>3. pc[p] \in Busy
        BY <1>0, <1>3 DEF List, Take, Exhaust, Claim, ClaimLost, ReadRootBudget, Deny, Charge,
                          SaveSplit, RereadRun, ReadRun, At, Busy, Labels
    <2>4. QED BY <1>0, <2>1, <2>2, <2>3 DEF Standing, Busy
<1>4. CASE SwapRootBudget(p)
    <2>1. SlotTaken(snap[p]).status = snap[p].status
        BY <1>0 DEF SlotTaken, RunPayload
    <2>2. pc[p] = "swap" /\ run.status = "RUNNING" /\ snap[p].status = "RUNNING"
        BY <1>4 DEF SwapRootBudget, At, Standing, Busy, Labels, Holding
    <2>3. QED BY <1>0, <1>4, <2>1, <2>2 DEF SwapRootBudget, SaveRun, Goto, Standing, Busy, Holding
<1>5. CASE Succeed(p) \/ Fail(p)
    <2>1. PICK r : Record(p, r) /\ pc[p] = "call"
        BY <1>5 DEF Succeed, Fail, At
    <2>2. run' = run /\ run.status = "RUNNING" /\ snap[p].status = "RUNNING"
        BY <2>1 DEF Record, Standing, Busy, Labels, Holding
    <2>3. /\ pc'[p] \in {"createKids", "claim", "next"}
          /\ pc'[p] = "createKids" => snap'[p] = snap[p]
        BY <1>0, <2>1 DEF Record, EndWindow, Goto
    <2>4. QED BY <1>0, <2>2, <2>3 DEF Standing, Holding
<1>6. CASE CreateKids(p)
    <2>1. run' = run /\ run.status = "RUNNING" /\ snap[p].status = "RUNNING"
        BY <1>6 DEF CreateKids, At, Standing, Busy, Labels, Holding
    <2>2. pc'[p] = "idle" \/ (pc'[p] = "saveSplit" /\ snap'[p] = snap[p])
        BY <1>0, <1>6 DEF CreateKids, Stop, Goto
    <2>3. QED BY <1>0, <2>1, <2>2 DEF Standing, Busy
<1>7. CASE SaveSplitRun(p)
    <2>1. run' = snap[p] /\ snap[p].status = "RUNNING" /\ pc'[p] = "next"
        BY <1>0, <1>7 DEF SaveSplitRun, SaveRun, EndWindow, Goto, At, Standing, Busy, Labels,
                          Holding
    <2>2. QED BY <1>0, <2>1 DEF Standing, Holding
<1>8. CASE Judge(p)
    <2>1. /\ run' = run /\ window' = window /\ run.status = "RUNNING"
          /\ snap'[p].status = Verdict /\ pc'[p] = "saveVerdict"
        BY <1>0, <1>8 DEF Judge, Goto, At, Standing, Busy, Labels, dbVars, RunPayload
    <2>2. Verdict = "SUCCEEDED" => Settled'
        BY <2>1, VerdictSettled DEF Settled
    <2>3. QED BY <1>0, <2>1, <2>2 DEF Standing, Busy
<1>9. CASE SaveVerdict(p)
    <2>1. /\ run' = snap[p] /\ window' = window /\ pc'[p] \in {"aggregate", "idle"}
          /\ snap[p].status = "SUCCEEDED" => Settled
        BY <1>0, <1>9 DEF SaveVerdict, SaveRun, Stop, Goto, At, Standing
    <2>2. QED BY <1>0, <2>1 DEF Standing, Settled, Busy
<1>10. CASE SaveAggregate(p)
    <2>1. run' = run /\ window' = window /\ pc'[p] = "idle"
        BY <1>0, <1>10 DEF SaveAggregate, Stop
    <2>2. QED BY <1>0, <2>1 DEF Standing, Settled, Busy
<1>11. QED
    BY <1>1, <1>2, <1>3, <1>4, <1>5, <1>6, <1>7, <1>8, <1>9, <1>10 DEF Step

LEMMA AlwaysStanding ==
    ASSUME Solo
    PROVE  Spec => []Standing
<1>1. Init => Standing
    BY DEF Init, Standing, NoRun, Busy
<1>2. TypeOK /\ Standing /\ [Next]_vars => Standing'
    <2> SUFFICES ASSUME TypeOK, Standing, [Next]_vars PROVE Standing'
        OBVIOUS
    <2>1. CASE \E p \in Workers : Start(p) \/ Step(p)
        BY <2>1, StandingStep
    <2>2. CASE Restart
        BY <2>2 DEF Restart, dbVars, Standing, Settled, Busy
    <2>3. CASE (\E w \in Windows : DeadlinePasses(w)) \/ UNCHANGED vars
        <3>1. run' = run /\ pc' = pc /\ snap' = snap
            BY <2>3 DEF DeadlinePasses, localVars, vars
        <3>2. Settled => Settled'
            BY <2>3, StatusKept DEF Settled
        <3>3. QED BY <3>1, <3>2 DEF Standing
    <2>4. QED BY <2>1, <2>2, <2>3 DEF Next
<1>3. QED BY <1>1, <1>2, TypeCorrect, PTL DEF Spec

\* What the run row says holds for one worker at a time, over any number of restarts: its calls
\* are at least the calls made and within the root cap (_reserve_budget), and it stands as
\* SUCCEEDED only while every window does or was split (_finalize_run).
THEOREM RunIsHonest ==
    ASSUME Solo
    PROVE  Spec => []RunHonest
<1>1. Spec => [](ChargedBeforeCalled /\ RootBudget)
    BY SoloBudget
<1>2. Spec => []Standing
    BY AlwaysStanding
<1>3. ChargedBeforeCalled /\ RootBudget /\ Standing => RunHonest
    BY DEF Standing, Settled, SuccessIsComplete, RunHonest
<1>4. QED BY <1>1, <1>2, <1>3, PTL

-----------------------------------------------------------------------------
(* A window goes to a human for the budget only when it is spent *)

Reserving == {"reserve", "swap", "denied", "charge"}

Splitting == {"saveSplit", "reread", "saveSplitRun"}

\* With one worker the optimistic update of the run row is never lost, and a window stands
\* RESERVED only where it waits for its slot: nothing the worker has still to do is RESERVED.
Denial(p) ==
    /\ pc[p] = "swap" => p \in fresh
    /\ pc[p] = "denied" => MaxProviderRequests > 0 /\ run.used >= MaxProviderRequests
    /\ pc[p] \in {"claim", "call"} => window[job[p].id].status # "RESERVED"
    /\ pc[p] \in Splitting => \A k \in Kids[job[p].id] : window[k].status # "RESERVED"
    /\ \A i \in 1..Len(todo[p]) :
          window[todo[p][i].id].status = "RESERVED" =>
             pc[p] \in Reserving /\ todo[p][i].id = job[p].id

Denials == \A p \in Workers : Denial(p)

LEMMA TodoTyped ==
    ASSUME TypeOK, NEW p \in Workers
    PROVE  todo[p] \in Seq(Job) /\ \A i \in 1..Len(todo[p]) : todo[p][i].id \in Windows
<1>1. todo[p] \in Seq(Job)
    BY DEF TypeOK
<1>2. \A i \in 1..Len(todo[p]) : todo[p][i] \in Job
    BY <1>1, ElementOfSeq
<1>3. QED BY <1>1, <1>2 DEF Job

\* What a save of the worker's window leaves of the others.
LEMMA Saved ==
    ASSUME TypeOK, NEW w \in Windows, NEW r \in WindowPayload, SaveWindow(w, r)
    PROVE  \A v \in Windows : window'[v] = IF v = w THEN r ELSE window[v]
BY DEF TypeOK, SaveWindow

\* The list has an entry with the payload r for each of ids, and then those of rest.
Prepended(ids, r, rest, list) ==
    /\ Len(list) = Len(ids) + Len(rest)
    /\ \A i \in 1..Len(ids) : list[i] = [id |-> ids[i], row |-> r]
    /\ \A i \in 1..Len(rest) : list[Len(ids) + i] = rest[i]
    /\ \A i \in 1..Len(list) : i \in 1..Len(ids) \/ \E j \in 1..Len(rest) : i = Len(ids) + j

LEMMA SplitListed ==
    ASSUME NEW ids \in Seq(Windows), NEW r, NEW front \in Seq(Job), NEW rest \in Seq(Job),
           front = [i \in 1..Len(ids) |-> [id |-> ids[i], row |-> r]], Len(front) = Len(ids)
    PROVE  Prepended(ids, r, rest, front \o rest)
<1>1. Len(ids) \in Nat /\ Len(rest) \in Nat
    OBVIOUS
<1>2. Len(front \o rest) = Len(ids) + Len(rest)
    BY ConcatProperties
<1>3. \A i \in 1..Len(ids) : (front \o rest)[i] = front[i]
    BY <1>1, ConcatProperties
<1>4. \A i \in 1..Len(rest) : (front \o rest)[Len(ids) + i] = rest[i]
    BY <1>1, ConcatProperties
<1>5. ASSUME NEW i \in 1..(Len(ids) + Len(rest)), i \notin 1..Len(ids)
      PROVE  \E j \in 1..Len(rest) : i = Len(ids) + j
    <2>1. i - Len(ids) \in 1..Len(rest) /\ i = Len(ids) + (i - Len(ids))
        BY <1>1, <1>5
    <2>2. QED BY <2>1
<1>6. QED BY <1>2, <1>3, <1>4, <1>5 DEF Prepended

\* The list after a split: the children to run at once, and then what was listed before.
LEMMA SplitList ==
    ASSUME TypeOK, NEW p \in Workers, SaveSplitRun(p)
    PROVE  \E ids \in Seq(Windows) :
              /\ ids \in Listings({k \in Kids[job[p].id] : Runnable(k, job[p].row)})
              /\ \A i \in 1..Len(ids) : ids[i] \in Kids[job[p].id]
              /\ Prepended(ids, ChildWindow(job[p].row), todo[p], todo'[p])
<1> DEFINE r == job[p].row
           S == {k \in Kids[job[p].id] : Runnable(k, r)}
<1>1. PICK ids \in Listings(S) :
        todo' = [todo EXCEPT
                   ![p] = [i \in 1..Len(ids) |-> [id |-> ids[i], row |-> ChildWindow(r)]] \o @]
    BY DEF SaveSplitRun
<1>2. S \in SUBSET Windows
    BY JobTyped, ConstantsAssumption
<1>3. ids \in Seq(S) /\ Len(ids) \in Nat
    BY <1>1, <1>2, ListingIsSeq
<1>4. \A i \in 1..Len(ids) : ids[i] \in S
    BY <1>3, ElementOfSeq
<1>5. ids \in Seq(Windows)
    BY <1>2, <1>3, <1>4
<1> DEFINE front == [i \in 1..Len(ids) |-> [id |-> ids[i], row |-> ChildWindow(r)]]
<1>6. front \in Seq(Job) /\ Len(front) = Len(ids)
    <2>1. ChildWindow(r) \in WindowPayload
        BY JobTyped, UpdatesTyped
    <2>2. QED BY <1>2, <1>3, <1>4, <2>1 DEF Job
<1>7. todo'[p] = front \o todo[p] /\ todo[p] \in Seq(Job)
    BY <1>1 DEF TypeOK
<1>8. Prepended(ids, ChildWindow(r), todo[p], front \o todo[p])
    BY <1>5, <1>6, <1>7, SplitListed
<1>9. QED BY <1>1, <1>4, <1>5, <1>7, <1>8

LEMMA DenialStep ==
    ASSUME Solo, TypeOK, Exclusive, Denials, NEW p \in Workers, Start(p) \/ Step(p)
    PROVE  Denials'
<1>0. /\ pc \in [Workers -> Labels] /\ job \in [Workers -> Job] /\ todo \in [Workers -> Seq(Job)]
      /\ \A q \in Workers : q = p
    BY DEF TypeOK, Solo
<1>1. job[p].id \in Windows /\ job[p].row \in WindowPayload /\ Kids[job[p].id] \subseteq Windows
    BY JobTyped, ConstantsAssumption
<1>2. Denial(p) /\ \A i \in 1..Len(todo[p]) : todo[p][i].id \in Windows
    BY TodoTyped DEF Denials
<1> SUFFICES Denial(p)'
    BY <1>0 DEF Denials
<1>3. CASE Start(p) \/ Open(p) \/ ReadRun(p) \/ Judge(p)
    <2>1. /\ window' = window /\ todo'[p] = todo[p]
          /\ pc'[p] \in {"open", "list", "judge", "saveVerdict"}
          /\ pc[p] \notin Reserving
        BY <1>0, <1>3 DEF Start, Open, ReadRun, Judge, Goto, At, dbVars, Reserving
    <2>2. QED BY <1>2, <2>1 DEF Denial, Splitting
<1>4. CASE List(p)
    <2>1. PICK ids \in Listings({w \in Windows : Eligible(w)}) :
            todo' = [todo EXCEPT ![p] =
                        [i \in 1..Len(ids) |-> [id |-> ids[i], row |-> window[ids[i]]]]]
        BY <1>4 DEF List
    <2>2. ids \in Seq({w \in Windows : Eligible(w)}) /\ Len(ids) \in Nat
        BY <2>1, ListingIsSeq
    <2>3. \A i \in 1..Len(ids) : window[ids[i]].status # "RESERVED"
        BY <2>2, ElementOfSeq DEF Eligible, Claimable
    <2>4. /\ Len(todo'[p]) = Len(ids)
          /\ \A i \in 1..Len(ids) : todo'[p][i].id = ids[i]
        BY <1>0, <2>1, <2>2
    <2>5. pc'[p] = "next" /\ window' = window
        BY <1>0, <1>4 DEF List, Goto, dbVars
    <2>6. QED BY <2>3, <2>4, <2>5 DEF Denial, Splitting
<1>5. CASE Take(p)
    <2>1. /\ pc[p] = "next" /\ todo[p] \in Seq(Job) /\ todo[p] # <<>>
          /\ pc'[p] = "claim" /\ window' = window
          /\ job'[p] = Head(todo[p]) /\ todo'[p] = Tail(todo[p])
        BY <1>0, <1>5 DEF Take, At, Goto, dbVars
    <2>2. \A i \in 1..Len(todo[p]) : window[todo[p][i].id].status # "RESERVED"
        BY <1>2, <2>1 DEF Denial, Reserving
    <2>3. window[Head(todo[p]).id].status # "RESERVED"
        BY <2>1, <2>2
    <2>4. \A i \in 1..Len(Tail(todo[p])) : window[Tail(todo[p])[i].id].status # "RESERVED"
        BY <2>1, <2>2
    <2>5. QED BY <2>1, <2>3, <2>4 DEF Denial, Splitting
<1>6. CASE ClaimLost(p)
    <2>1. window' = window /\ todo'[p] = todo[p] /\ pc'[p] = "next" /\ pc[p] = "claim"
        BY <1>0, <1>6 DEF ClaimLost, EndWindow, At, Goto, dbVars
    <2>2. QED BY <1>2, <2>1 DEF Denial, Splitting, Reserving
<1>7. CASE Exhaust(p) \/ Deny(p)
    <2>1. PICK b \in BOOLEAN : SaveWindow(job[p].id, ExhaustWindow(job[p].row, b))
        BY <1>7 DEF Exhaust, Deny
    <2>2. \A v \in Windows : window'[v] = IF v = job[p].id THEN ExhaustWindow(job[p].row, b)
                                         ELSE window[v]
        BY <1>1, <2>1, UpdatesTyped, Saved
    <2>3. ExhaustWindow(job[p].row, b).status # "RESERVED"
        BY <1>1, ExhaustStatus
    <2>4. todo'[p] = todo[p] /\ pc'[p] = "next"
        BY <1>0, <1>7 DEF Exhaust, Deny, EndWindow, Goto
    <2>5. QED BY <1>2, <2>2, <2>3, <2>4 DEF Denial, Splitting
<1>8. CASE Claim(p)
    <2>1. \A v \in Windows : v # job[p].id => window'[v] = window[v]
        BY <1>1, <1>8, UpdatesTyped, Saved DEF Claim
    <2>2. /\ todo'[p] = todo[p] /\ pc'[p] = "reserve" /\ pc[p] = "claim"
          /\ job'[p].id = job[p].id
        BY <1>0, <1>8 DEF Claim, Goto, At, Job
    <2>3. QED BY <1>2, <2>1, <2>2 DEF Denial, Splitting, Reserving
<1>9. CASE ReadRootBudget(p)
    <2>1. /\ window' = window /\ todo' = todo /\ job' = job /\ run' = run /\ pc[p] = "reserve"
          /\ \/ pc'[p] = "denied" /\ RootBudgetSpent
             \/ pc'[p] = "swap" /\ p \in fresh'
        BY <1>0, <1>9 DEF ReadRootBudget, Goto, At, dbVars
    <2>2. QED BY <1>2, <2>1 DEF Denial, Splitting, Reserving, RootBudgetSpent
<1>10. CASE SwapRootBudget(p)
    <2>1. pc[p] = "swap" /\ p \in fresh
        BY <1>2, <1>10 DEF SwapRootBudget, At, Denial
    <2>2. window' = window /\ todo' = todo /\ job' = job /\ pc'[p] = "charge"
        BY <1>0, <1>10, <2>1 DEF SwapRootBudget, Goto
    <2>3. QED BY <1>2, <2>1, <2>2 DEF Denial, Splitting, Reserving
<1>11. CASE Charge(p)
    <2>1. Charged(job[p].row).status = "RUNNING"
        BY <1>1 DEF Charged, WindowPayload
    <2>2. \A v \in Windows : window'[v] = IF v = job[p].id THEN Charged(job[p].row) ELSE window[v]
        BY <1>1, <1>11, UpdatesTyped, Saved DEF Charge
    <2>3. todo'[p] = todo[p] /\ pc'[p] = "call" /\ job'[p].id = job[p].id
        BY <1>0, <1>11 DEF Charge, Goto, Job
    <2>4. QED BY <1>1, <1>2, <2>1, <2>2, <2>3 DEF Denial, Splitting
<1>12. CASE Succeed(p) \/ Fail(p)
    <2>1. PICK r \in WindowPayload : Record(p, r) /\ pc[p] = "call"
        BY <1>12, AnswerTyped DEF Succeed, Fail, At
    <2>2. window'[job[p].id].status # "RESERVED"
        <3>1. ~Claimable(job[p].id)
            BY <2>1 DEF Claimable, Exclusive, HeldIsTaken, InFlight
        <3>2. window[job[p].id].status # "RESERVED"
            BY <1>2, <2>1 DEF Denial
        <3>3. QED BY <1>1, <3>1, <3>2, Writes
    <2>3. \A v \in Windows : v # job[p].id => window'[v] = window[v]
        BY <1>1, <2>1, Saved DEF Record
    <2>4. /\ todo'[p] = todo[p]
          /\ pc'[p] \in {"createKids", "claim", "next"}
          /\ pc'[p] = "claim" => job'[p].id = job[p].id
        BY <1>0, <2>1 DEF Record, EndWindow, Goto, Job
    <2>5. QED BY <1>1, <1>2, <2>1, <2>2, <2>3, <2>4 DEF Denial, Splitting, Reserving
<1>13. CASE CreateKids(p)
    <2>1. \A v \in Windows : window'[v].status = "RESERVED" => window[v].status = "RESERVED"
        BY <1>13, KidsWritten
    <2>2. pc[p] = "createKids"
        BY <1>13 DEF CreateKids, At
    <2>3. CASE Stop(p)
        <3>1. todo'[p] = <<>> /\ pc'[p] = "idle"
            BY <1>0, <2>3 DEF Stop
        <3>2. QED BY <3>1 DEF Denial, Splitting
    <2>4. CASE ~Stop(p)
        <3>1. /\ todo' = todo /\ job' = job /\ pc'[p] = "saveSplit"
              /\ window' = [v \in Windows |-> IF v \in Kids[job[p].id]
                                              THEN ChildWindow(job[p].row) ELSE window[v]]
            BY <1>0, <1>13, <2>4 DEF CreateKids, CreatedKids, Goto
        <3>2. ChildWindow(job[p].row).status = "PENDING"
            BY DEF ChildWindow, PlannedWindow, AbsentWindow
        <3>3. \A k \in Kids[job[p].id] : window'[k].status # "RESERVED"
            BY <1>1, <3>1, <3>2
        <3>4. QED BY <1>2, <2>1, <2>2, <3>1, <3>3 DEF Denial, Splitting, Reserving
    <2>5. QED BY <2>3, <2>4
<1>14. CASE SaveSplit(p)
    <2>1. SplitPayload(job[p].row).status = "SPLIT"
        BY <1>1 DEF SplitPayload, WindowPayload
    <2>2. \A v \in Windows : window'[v] = IF v = job[p].id THEN SplitPayload(job[p].row)
                                         ELSE window[v]
        BY <1>1, <1>14, UpdatesTyped, Saved DEF SaveSplit
    <2>3. /\ todo' = todo /\ job' = job /\ pc[p] = "saveSplit"
          /\ pc'[p] \in {"reread", "saveSplitRun"}
        BY <1>0, <1>14 DEF SaveSplit, Goto, At
    <2>4. QED BY <1>1, <1>2, <2>1, <2>2, <2>3 DEF Denial, Splitting, Reserving
<1>15. CASE RereadRun(p)
    <2>1. /\ window' = window /\ todo' = todo /\ job' = job
          /\ pc[p] = "reread" /\ pc'[p] = "saveSplitRun"
        BY <1>0, <1>15 DEF RereadRun, Goto, At, dbVars
    <2>2. QED BY <1>2, <2>1 DEF Denial, Splitting, Reserving
<1>16. CASE SaveSplitRun(p)
    <2>1. PICK ids \in Seq(Windows) :
            /\ \A i \in 1..Len(ids) : ids[i] \in Kids[job[p].id]
            /\ Prepended(ids, ChildWindow(job[p].row), todo[p], todo'[p])
        BY <1>16, SplitList
    <2>2. window' = window /\ pc[p] = "saveSplitRun" /\ pc'[p] = "next"
        BY <1>0, <1>16 DEF SaveSplitRun, EndWindow, Goto, At
    <2>3. \A i \in 1..Len(ids) : window[ids[i]].status # "RESERVED"
        BY <1>2, <2>1, <2>2 DEF Denial, Splitting
    <2>4. \A i \in 1..Len(todo[p]) : window[todo[p][i].id].status # "RESERVED"
        BY <1>2, <2>2 DEF Denial, Reserving
    <2>5. \A i \in 1..Len(todo'[p]) : window[todo'[p][i].id].status # "RESERVED"
        <3> SUFFICES ASSUME NEW i \in 1..Len(todo'[p])
                     PROVE  window[todo'[p][i].id].status # "RESERVED"
            OBVIOUS
        <3>1. CASE i \in 1..Len(ids)
            <4>1. todo'[p][i] = [id |-> ids[i], row |-> ChildWindow(job[p].row)]
                BY <2>1, <3>1 DEF Prepended
            <4>2. QED BY <2>3, <3>1, <4>1
        <3>2. CASE i \notin 1..Len(ids)
            <4>1. PICK j \in 1..Len(todo[p]) : i = Len(ids) + j
                BY <2>1, <3>2 DEF Prepended
            <4>2. todo'[p][i] = todo[p][j]
                BY <2>1, <4>1 DEF Prepended
            <4>3. QED BY <2>4, <4>2
        <3>3. QED BY <3>1, <3>2
    <2>6. QED BY <2>2, <2>5 DEF Denial, Splitting
<1>17. CASE SaveVerdict(p)
    <2>1. /\ window' = window /\ pc[p] = "saveVerdict"
          /\ \/ pc'[p] = "aggregate" /\ todo'[p] = todo[p]
             \/ pc'[p] = "idle" /\ todo'[p] = <<>>
        BY <1>0, <1>17 DEF SaveVerdict, Stop, Goto, At
    <2>2. QED BY <1>2, <2>1 DEF Denial, Splitting, Reserving
<1>18. CASE SaveAggregate(p)
    <2>1. pc'[p] = "idle" /\ todo'[p] = <<>>
        BY <1>0, <1>18 DEF SaveAggregate, Stop
    <2>2. QED BY <2>1 DEF Denial, Splitting
<1>19. QED
    BY <1>3, <1>4, <1>5, <1>6, <1>7, <1>8, <1>9, <1>10, <1>11, <1>12, <1>13, <1>14, <1>15,
       <1>16, <1>17, <1>18 DEF Step

LEMMA AlwaysDenials ==
    ASSUME Solo
    PROVE  Spec => []Denials
<1>1. Init => Denials
    BY DEF Init, Denials, Denial, Splitting
<1>2. TypeOK /\ Exclusive /\ Denials /\ [Next]_vars => Denials'
    <2> SUFFICES ASSUME TypeOK, Exclusive, Denials, [Next]_vars PROVE Denials'
        OBVIOUS
    <2>1. CASE \E p \in Workers : Start(p) \/ Step(p)
        BY <2>1, DenialStep
    <2>2. CASE Restart
        BY <2>2 DEF Restart, Denials, Denial, Splitting
    <2>3. CASE (\E w \in Windows : DeadlinePasses(w)) \/ UNCHANGED vars
        <3>1. run' = run /\ pc' = pc /\ fresh' = fresh /\ todo' = todo /\ job' = job
            BY <2>3 DEF DeadlinePasses, localVars, vars
        <3>2. \A w \in Windows : window'[w].status = window[w].status
            BY <2>3, StatusKept
        <3>3. \A p \in Workers : /\ job[p].id \in Windows /\ Kids[job[p].id] \subseteq Windows
                                 /\ \A i \in 1..Len(todo[p]) : todo[p][i].id \in Windows
            BY JobTyped, TodoTyped, ConstantsAssumption
        <3>4. QED BY <3>1, <3>2, <3>3 DEF Denials, Denial
    <2>4. QED BY <2>1, <2>2, <2>3 DEF Next
<1>3. QED BY <1>1, <1>2, TypeCorrect, AlwaysExclusive, PTL DEF Spec

\* One worker at a time hands a window to a human for lack of root budget only when that budget
\* is spent, over any number of restarts: the optimistic update of the run row refuses nothing
\* else.  (With several workers a lost update looks like a spent budget.)
THEOREM DenialIsSpent ==
    ASSUME Solo
    PROVE  Spec => DenialMeansSpent
<1>1. TypeOK /\ Denials /\ [Next]_vars =>
        [\A w \in Windows :
            /\ window[w].status = "RESERVED"
            /\ window'[w].status = "NEEDS_HUMAN_ACTION"
            => MaxProviderRequests > 0 /\ run.used >= MaxProviderRequests]_vars
    <2> SUFFICES ASSUME TypeOK, Denials, [Next]_vars, NEW w \in Windows,
                        window[w].status = "RESERVED",
                        window'[w].status = "NEEDS_HUMAN_ACTION"
                 PROVE  MaxProviderRequests > 0 /\ run.used >= MaxProviderRequests
        OBVIOUS
    <2>1. PICK p \in Workers : Start(p) \/ Step(p)
        BY StatusKept DEF Next
    <2>2. job[p].id \in Windows /\ job[p].row \in WindowPayload
        BY JobTyped
    <2>3. CASE Deny(p)
        BY <2>3 DEF Deny, At, Denials, Denial
    <2>4. CASE Exhaust(p) \/ Succeed(p) \/ Fail(p)
        <3>1. PICK r : SaveWindow(job[p].id, r)
            BY <2>4 DEF Exhaust, Succeed, Fail, Record
        <3>2. w = job[p].id
            BY <2>2, <3>1 DEF SaveWindow, TypeOK
        <3>3. window[job[p].id].status # "RESERVED"
            BY <2>4 DEF Exhaust, Succeed, Fail, At, Denials, Denial
        <3>4. QED BY <3>2, <3>3
    <2>5. CASE Claim(p) \/ Charge(p) \/ SaveSplit(p)
        <3>1. /\ Reserved(job[p].row) \in WindowPayload /\ Reserved(job[p].row).status = "RESERVED"
              /\ Charged(job[p].row) \in WindowPayload /\ Charged(job[p].row).status = "RUNNING"
              /\ SplitPayload(job[p].row) \in WindowPayload
              /\ SplitPayload(job[p].row).status = "SPLIT"
            BY <2>2, UpdatesTyped DEF Reserved, Charged, SplitPayload, WindowPayload
        <3>2. PICK r \in WindowPayload :
                SaveWindow(job[p].id, r) /\ r.status \in {"RESERVED", "RUNNING", "SPLIT"}
            BY <2>5, <3>1 DEF Claim, Charge, SaveSplit
        <3>3. QED BY <2>2, <3>2, Saved
    <2>6. CASE CreateKids(p)
        BY <2>6, KidsWritten
    <2>7. CASE window' = window
        BY <2>7
    <2>8. QED
        BY <2>1, <2>3, <2>4, <2>5, <2>6, <2>7
           DEF Step, Start, Open, List, Take, ClaimLost, ReadRootBudget, SwapRootBudget,
               RereadRun, SaveSplitRun, ReadRun, Judge, SaveVerdict, SaveAggregate, dbVars
<1>2. Spec => []Denials
    BY AlwaysDenials
<1>3. QED BY <1>1, <1>2, TypeCorrect, PTL DEF Spec, DenialMeansSpent

-----------------------------------------------------------------------------
(* Every piece of source is owned once, while no restart interrupts the worker *)

Apart(S) == \A v, w \in S : v # w => Scope[v] \cap Scope[w] = {}

\* The windows that answer for their scope: a parent until its children have their rows.
Live ==
    {w \in Windows : /\ window[w].status \notin {"ABSENT", "SPLIT"}
                     /\ \A p \in Workers : ~(pc[p] = "saveSplit" /\ job[p].id = w)}

\* The places at which the worker may still write the window it has.
Writing == Executing \ {"reread", "saveSplitRun"}

\* The worker has every window on its list once, and none of them was split.
Queued(p) ==
    /\ \A i, j \in 1..Len(todo[p]) : i # j => todo[p][i].id # todo[p][j].id
    /\ \A i \in 1..Len(todo[p]) :
          /\ window[todo[p][i].id].status # "SPLIT"
          /\ pc[p] \in Executing => todo[p][i].id # job[p].id
          /\ pc[p] \in Splitting => todo[p][i].id \notin Kids[job[p].id]
    /\ pc[p] \in Writing => window[job[p].id].status # "SPLIT"
    /\ pc[p] \in Splitting => \A k \in Kids[job[p].id] : window[k].status # "SPLIT"

Owned ==
    /\ Apart(Live)
    /\ Apart(result)
    /\ \A p \in Workers :
          /\ Queued(p)
          /\ pc[p] \in {"saveVerdict", "aggregate"} => Apart(delivered[p])

\* Apart from the creation of children, a step writes at most the window the worker has.
LEMMA WrittenWhere ==
    ASSUME TypeOK, NEW p \in Workers, Start(p) \/ Step(p), ~CreateKids(p),
           NEW w \in Windows, window'[w] # window[w]
    PROVE  w = job[p].id /\ pc[p] \in Writing
<1>1. CASE window' = window
    BY <1>1
<1>2. CASE Exhaust(p) \/ Claim(p) \/ Deny(p) \/ Charge(p) \/ SaveSplit(p)
    <2>1. PICK r : SaveWindow(job[p].id, r)
        BY <1>2 DEF Exhaust, Claim, Deny, Charge, SaveSplit
    <2>2. pc[p] \in Writing
        BY <1>2 DEF Exhaust, Claim, Deny, Charge, SaveSplit, At, Writing, Executing, InFlight
    <2>3. QED BY <2>1, <2>2 DEF SaveWindow, TypeOK
<1>3. CASE Succeed(p) \/ Fail(p)
    <2>1. PICK r : SaveWindow(job[p].id, r)
        BY <1>3 DEF Succeed, Fail, Record
    <2>2. pc[p] \in Writing
        BY <1>3 DEF Succeed, Fail, At, Writing, Executing, InFlight
    <2>3. QED BY <2>1, <2>2 DEF SaveWindow, TypeOK
<1>4. QED
    BY <1>1, <1>2, <1>3
       DEF Step, Start, Open, List, Take, ClaimLost, ReadRootBudget, SwapRootBudget, RereadRun,
           SaveSplitRun, ReadRun, Judge, SaveVerdict, SaveAggregate, dbVars

\* A window is split by the save of its worker, once and for all.
LEMMA SplitOnce ==
    ASSUME TypeOK, Owned, NEW p \in Workers, Start(p) \/ Step(p), NEW w \in Windows
    PROVE  window'[w].status = "SPLIT" <=>
              window[w].status = "SPLIT" \/ (SaveSplit(p) /\ w = job[p].id)
<1>1. ASSUME window[w].status = "SPLIT" PROVE window'[w].status = "SPLIT"
    <2>1. CASE CreateKids(p)
        BY <1>1, <2>1, KidsWritten
    <2>2. CASE ~CreateKids(p)
        <3>1. pc[p] \in Writing => window[job[p].id].status # "SPLIT"
            BY DEF Owned, Queued
        <3>2. window'[w] # window[w] => w = job[p].id /\ pc[p] \in Writing
            BY <2>2, WrittenWhere
        <3>3. QED BY <1>1, <3>1, <3>2
    <2>3. QED BY <2>1, <2>2
<1>2. ASSUME SaveSplit(p), w = job[p].id PROVE window'[w].status = "SPLIT"
    <2>1. SplitPayload(job[p].row) \in WindowPayload /\ SplitPayload(job[p].row).status = "SPLIT"
        <3>1. job[p].row \in WindowPayload
            BY JobTyped
        <3>2. QED BY <3>1, UpdatesTyped DEF SplitPayload, WindowPayload
    <2>2. job[p].id \in Windows
        BY JobTyped
    <2>3. QED BY <1>2, <2>1, <2>2, Saved DEF SaveSplit
<1>3. ASSUME window'[w].status = "SPLIT", window[w].status # "SPLIT"
      PROVE  SaveSplit(p) /\ w = job[p].id
    BY <1>3, Writes
<1>4. QED BY <1>1, <1>2, <1>3

LEMMA NotOwnKid ==
    ASSUME NEW w \in Windows
    PROVE  w \notin Kids[w]
<1>1. {w} \in SUBSET Windows /\ {w} # {}
    OBVIOUS
<1>2. PICK v \in {w} : Kids[v] \cap {w} = {}
    BY <1>1, SplitsEnd
<1>3. QED BY <1>2

\* The children a split creates had no rows: whoever has one answers for a part of the scope
\* the parent still answers for.
LEMMA KidsNew ==
    ASSUME Solo, TypeOK, Listed, Owned, NEW p \in Workers, CreateKids(p), ~Stop(p),
           NEW k \in Kids[job[p].id]
    PROVE  window[k].status = "ABSENT"
<1>1. job[p].id \in Windows /\ k \in Windows /\ Scope[k] # {} /\ k # job[p].id
    BY JobTyped, NotOwnKid, ConstantsAssumption, OwnershipAssumption
<1>2. Scope[k] \subseteq Scope[job[p].id]
    BY <1>1, ConstantsAssumption
<1>3. pc[p] = "createKids" /\ \A q \in Workers : q = p
    BY DEF CreateKids, At, Solo
<1>4. job[p].id \in Live
    BY <1>1, <1>3 DEF Live, Listed, Own, Known, Owned, Queued, Executing, Writing
<1>5. k \notin Live
    BY <1>1, <1>2, <1>4 DEF Owned, Apart
<1>6. window[k].status = "ABSENT" \/ SameChild(k, job[p].row)
    BY DEF CreateKids
<1>7. ChildWindow(job[p].row).status = "PENDING"
    BY DEF ChildWindow, PlannedWindow, AbsentWindow
<1>8. QED BY <1>1, <1>3, <1>5, <1>6, <1>7 DEF SameChild, Live

\* The list and the window of the worker, when it keeps them.
LEMMA QueueKept ==
    ASSUME TypeOK, Owned, NEW p \in Workers, Start(p) \/ Step(p), ~SaveSplit(p),
           todo'[p] = todo[p],
           pc'[p] \in Executing => pc[p] \in Executing /\ job'[p].id = job[p].id,
           pc'[p] \in Writing => pc[p] \in Writing,
           pc'[p] \in Splitting => pc[p] \in Splitting
    PROVE  Queued(p)'
<1>1. \A w \in Windows : window[w].status # "SPLIT" => window'[w].status # "SPLIT"
    BY SplitOnce
<1>2. /\ \A i \in 1..Len(todo[p]) : todo[p][i].id \in Windows
      /\ job[p].id \in Windows /\ Kids[job[p].id] \subseteq Windows
    BY JobTyped, TodoTyped, ConstantsAssumption
<1>3. Queued(p)
    BY DEF Owned
<1>4. Writing \subseteq Executing /\ Splitting \subseteq Executing
    BY DEF Writing, Splitting, Executing
<1>5. QED BY <1>1, <1>2, <1>3, <1>4 DEF Queued

\* Nothing is listed twice.
LEMMA ListedOnce ==
    ASSUME NEW S \in SUBSET Windows, NEW ids \in Listings(S)
    PROVE  \A i, j \in 1..Len(ids) : i # j => ids[i] # ids[j]
<1>1. ids \in Seq(S) /\ ids \in [1..Cardinality(S) -> S]
    BY ListingIsSeq DEF Listings
<1>2. Cardinality(S) \in Nat
    BY FS_Subset, FS_CardinalityType, ConstantsAssumption
<1>3. Len(ids) = Cardinality(S)
    BY <1>1, <1>2
<1>4. \A i, j \in 1..Len(ids) : i < j => Rank[ids[i]] < Rank[ids[j]]
    BY <1>3 DEF Listings
<1>5. \A i \in 1..Len(ids) : Rank[ids[i]] \in Nat
    BY <1>1, <1>3, ConstantsAssumption
<1>6. ASSUME NEW i \in 1..Len(ids), NEW j \in 1..Len(ids), i # j PROVE ids[i] # ids[j]
    <2>1. i < j \/ j < i
        BY <1>2, <1>3, <1>6
    <2>2. Rank[ids[i]] < Rank[ids[j]] \/ Rank[ids[j]] < Rank[ids[i]]
        BY <1>4, <2>1
    <2>3. QED BY <1>5, <2>2
<1>7. QED BY <1>6

LEMMA LiveKept ==
    ASSUME TypeOK, Exclusive, Listed, Owned, NEW p \in Workers, Start(p) \/ Step(p),
           ~CreateKids(p), ~SaveSplit(p),
           pc[p] # "saveSplit"
    PROVE  Live' \subseteq Live
<1> SUFFICES ASSUME NEW w \in Live' PROVE w \in Live
    OBVIOUS
<1>1. w \in Windows /\ window'[w].status \notin {"ABSENT", "SPLIT"}
    BY DEF Live
<1>2. window[w].status # "ABSENT"
    BY <1>1, RowsWritten DEF Known
<1>3. window[w].status # "SPLIT"
    BY <1>1, SplitOnce
<1>4. ASSUME NEW q \in Workers, pc[q] = "saveSplit", job[q].id = w PROVE FALSE
    <2>1. pc'[q] = "saveSplit" /\ job'[q].id = w
        BY <1>4, OthersKept
    <2>2. QED BY <2>1 DEF Live
<1>5. QED BY <1>1, <1>2, <1>3, <1>4 DEF Live

LEMMA QueueStep ==
    ASSUME Solo, TypeOK, Listed, Owned, NEW p \in Workers, Start(p) \/ Step(p)
    PROVE  Queued(p)'
<1>0. pc \in [Workers -> Labels] /\ job \in [Workers -> Job] /\ todo \in [Workers -> Seq(Job)]
    BY DEF TypeOK
<1>1. job[p].id \in Windows /\ job[p].row \in WindowPayload /\ Kids[job[p].id] \subseteq Windows
    BY JobTyped, ConstantsAssumption
<1>2. Queued(p) /\ Own(p) /\ \A i \in 1..Len(todo[p]) : todo[p][i].id \in Windows
    BY TodoTyped DEF Owned, Listed
<1>3. CASE Start(p) \/ Open(p) \/ ReadRun(p) \/ Judge(p) \/ RereadRun(p) \/ ReadRootBudget(p)
           \/ SwapRootBudget(p)
    <2>1. /\ todo'[p] = todo[p] /\ job'[p] = job[p]
          /\ \/ pc'[p] \in {"open", "list", "judge", "saveVerdict"}
             \/ pc[p] = "reread" /\ pc'[p] = "saveSplitRun"
             \/ pc[p] \in Reserving /\ pc'[p] \in Reserving
        BY <1>0, <1>3 DEF Start, Open, ReadRun, Judge, RereadRun, ReadRootBudget,
                          SwapRootBudget, Goto, At, Reserving
    <2>2. ~SaveSplit(p)
        BY <1>0, <2>1 DEF SaveSplit, Goto, At, Reserving
    <2>3. QED BY <2>1, <2>2, QueueKept DEF Writing, Executing, InFlight, Splitting, Reserving
<1>4. CASE Claim(p) \/ Charge(p)
    <2>1. /\ todo'[p] = todo[p] /\ job'[p].id = job[p].id
          /\ pc[p] \in {"claim", "charge"} /\ pc'[p] \in {"reserve", "call"}
        BY <1>0, <1>4 DEF Claim, Charge, Goto, At, Job
    <2>2. ~SaveSplit(p)
        BY <2>1 DEF SaveSplit, At
    <2>3. QED BY <2>1, <2>2, QueueKept DEF Writing, Executing, InFlight, Splitting
<1>5. CASE Exhaust(p) \/ ClaimLost(p) \/ Deny(p)
    <2>1. todo'[p] = todo[p] /\ pc'[p] = "next" /\ pc[p] \in {"claim", "denied"}
        BY <1>0, <1>5 DEF Exhaust, ClaimLost, Deny, EndWindow, Goto, At
    <2>2. ~SaveSplit(p)
        BY <2>1 DEF SaveSplit, At
    <2>3. QED BY <2>1, <2>2, QueueKept DEF Writing, Executing, InFlight, Splitting
<1>6. CASE Succeed(p) \/ Fail(p)
    <2>1. PICK r : Record(p, r) /\ pc[p] = "call"
        BY <1>6 DEF Succeed, Fail, At
    <2>2. /\ todo'[p] = todo[p]
          /\ \/ pc'[p] \in {"createKids", "claim"} /\ job'[p].id = job[p].id
             \/ pc'[p] = "next"
        BY <1>0, <2>1 DEF Record, EndWindow, Goto, Job
    <2>3. ~SaveSplit(p)
        BY <2>1 DEF SaveSplit, At
    <2>4. QED BY <2>1, <2>2, <2>3, QueueKept DEF Writing, Executing, InFlight, Splitting
<1>7. CASE CreateKids(p)
    <2>1. CASE Stop(p)
        <3>1. todo'[p] = <<>> /\ pc'[p] = "idle"
            BY <1>0, <2>1 DEF Stop
        <3>2. QED BY <3>1 DEF Queued, Executing, InFlight, Splitting, Writing
    <2>2. CASE ~Stop(p)
        <3>1. /\ todo' = todo /\ job' = job /\ pc[p] = "createKids" /\ pc'[p] = "saveSplit"
              /\ window' = [v \in Windows |-> IF v \in Kids[job[p].id]
                                              THEN ChildWindow(job[p].row) ELSE window[v]]
            BY <1>0, <1>7, <2>2 DEF CreateKids, CreatedKids, At, Goto
        <3>2. ChildWindow(job[p].row).status = "PENDING"
            BY DEF ChildWindow, PlannedWindow, AbsentWindow
        <3>3. \A w \in Windows : window[w].status # "SPLIT" => window'[w].status # "SPLIT"
            BY <3>1, <3>2
        <3>4. \A k \in Kids[job[p].id] : window[k].status = "ABSENT"
            BY <1>7, <2>2, KidsNew
        <3>5. \A i \in 1..Len(todo[p]) : todo[p][i].id \notin Kids[job[p].id]
            BY <1>2, <3>4 DEF Own, Known
        <3>6. \A k \in Kids[job[p].id] : window'[k].status # "SPLIT"
            BY <1>1, <3>1, <3>2
        <3>7. pc[p] \in Executing /\ pc[p] \in Writing
            BY <3>1 DEF Executing, Writing
        <3>8. QED BY <1>1, <1>2, <3>1, <3>3, <3>5, <3>6, <3>7 DEF Queued
    <2>3. QED BY <2>1, <2>2
<1>8. CASE SaveSplit(p)
    <2>1. /\ todo' = todo /\ job' = job /\ pc[p] = "saveSplit"
          /\ pc'[p] \in {"reread", "saveSplitRun"}
        BY <1>0, <1>8 DEF SaveSplit, Goto, At
    <2>2. \A w \in Windows :
            w # job[p].id /\ window[w].status # "SPLIT" => window'[w].status # "SPLIT"
        BY SplitOnce
    <2>3. job[p].id \notin Kids[job[p].id]
        BY <1>1, NotOwnKid
    <2>4. pc[p] \in Executing /\ pc[p] \in Splitting /\ pc'[p] \notin Writing
        BY <2>1 DEF Executing, Splitting, Writing
    <2>5. QED BY <1>1, <1>2, <2>1, <2>2, <2>3, <2>4 DEF Queued
<1>9. CASE List(p)
    <2>1. PICK ids \in Listings({w \in Windows : Eligible(w)}) :
            todo' = [todo EXCEPT ![p] =
                        [i \in 1..Len(ids) |-> [id |-> ids[i], row |-> window[ids[i]]]]]
        BY <1>9 DEF List
    <2>2. ids \in Seq({w \in Windows : Eligible(w)}) /\ Len(ids) \in Nat
        BY <2>1, ListingIsSeq
    <2>3. \A i \in 1..Len(ids) : window[ids[i]].status # "SPLIT"
        BY <2>2, ElementOfSeq DEF Eligible, Claimable
    <2>4. \A i, j \in 1..Len(ids) : i # j => ids[i] # ids[j]
        BY <2>1, ListedOnce
    <2>5. /\ Len(todo'[p]) = Len(ids)
          /\ \A i \in 1..Len(ids) : todo'[p][i].id = ids[i]
        BY <1>0, <2>1, <2>2
    <2>6. pc'[p] = "next" /\ window' = window
        BY <1>0, <1>9 DEF List, Goto, dbVars
    <2>7. QED BY <2>3, <2>4, <2>5, <2>6 DEF Queued, Writing, Executing, InFlight, Splitting
<1>10. CASE Take(p)
    <2>1. /\ todo[p] \in Seq(Job) /\ todo[p] # <<>>
          /\ pc'[p] = "claim" /\ window' = window
          /\ job'[p] = Head(todo[p]) /\ todo'[p] = Tail(todo[p])
        BY <1>0, <1>10 DEF Take, Goto, dbVars
    <2>2. /\ Head(todo[p]) = todo[p][1] /\ Len(todo[p]) \in Nat /\ 1 \in 1..Len(todo[p])
          /\ Len(todo'[p]) = Len(todo[p]) - 1
          /\ \A i \in 1..Len(todo'[p]) : todo'[p][i] = todo[p][i + 1] /\ i + 1 \in 1..Len(todo[p])
        BY <2>1
    <2>3. ASSUME NEW i \in 1..Len(todo'[p]), NEW j \in 1..Len(todo'[p]), i # j
          PROVE  todo'[p][i].id # todo'[p][j].id
        <3>1. i + 1 \in 1..Len(todo[p]) /\ j + 1 \in 1..Len(todo[p]) /\ i + 1 # j + 1
            BY <2>2, <2>3
        <3>2. todo[p][i + 1].id # todo[p][j + 1].id
            BY <1>2, <3>1 DEF Queued
        <3>3. QED BY <2>2, <3>2
    <2>4. \A i \in 1..Len(todo'[p]) :
            window[todo'[p][i].id].status # "SPLIT" /\ todo'[p][i].id # job'[p].id
        BY <1>2, <2>1, <2>2 DEF Queued
    <2>5. window[job'[p].id].status # "SPLIT"
        BY <1>2, <2>1, <2>2 DEF Queued
    <2>6. QED BY <2>1, <2>3, <2>4, <2>5 DEF Queued, Splitting
<1>11. CASE SaveSplitRun(p)
    <2>1. PICK ids \in Seq(Windows) :
            /\ ids \in Listings({k \in Kids[job[p].id] : Runnable(k, job[p].row)})
            /\ \A i \in 1..Len(ids) : ids[i] \in Kids[job[p].id]
            /\ Prepended(ids, ChildWindow(job[p].row), todo[p], todo'[p])
        BY <1>11, SplitList
    <2>2. window' = window /\ pc[p] = "saveSplitRun" /\ pc'[p] = "next"
        BY <1>0, <1>11 DEF SaveSplitRun, EndWindow, Goto, At
    <2>3. {k \in Kids[job[p].id] : Runnable(k, job[p].row)} \in SUBSET Windows
        BY <1>1
    <2>4. \A i, j \in 1..Len(ids) : i # j => ids[i] # ids[j]
        BY <2>1, <2>3, ListedOnce
    <2>5. \A i \in 1..Len(ids) : window[ids[i]].status # "SPLIT"
        BY <1>2, <2>1, <2>2 DEF Queued, Splitting
    <2>6. \A i \in 1..Len(todo[p]) :
            window[todo[p][i].id].status # "SPLIT" /\ todo[p][i].id \notin Kids[job[p].id]
        BY <1>2, <2>2 DEF Queued, Splitting
    <2>7. ASSUME NEW i \in 1..Len(todo'[p]), i \notin 1..Len(ids)
          PROVE  \E j \in 1..Len(todo[p]) : i = Len(ids) + j /\ todo'[p][i] = todo[p][j]
        BY <2>1, <2>7 DEF Prepended
    <2>7a. ASSUME NEW i \in 1..Len(ids) PROVE todo'[p][i].id = ids[i]
        <3>1. todo'[p][i] = [id |-> ids[i], row |-> ChildWindow(job[p].row)]
            BY <2>1 DEF Prepended
        <3>2. QED BY <3>1
    <2>8. ASSUME NEW i \in 1..Len(todo'[p]) PROVE window[todo'[p][i].id].status # "SPLIT"
        <3>1. CASE i \in 1..Len(ids)
            BY <2>5, <2>7a, <3>1
        <3>2. CASE i \notin 1..Len(ids)
            BY <2>6, <2>7, <3>2
        <3>3. QED BY <3>1, <3>2
    <2>9. ASSUME NEW i \in 1..Len(todo'[p]), NEW j \in 1..Len(todo'[p]), i # j
          PROVE  todo'[p][i].id # todo'[p][j].id
        <3>1. CASE i \in 1..Len(ids) /\ j \in 1..Len(ids)
            BY <2>4, <2>7a, <2>9, <3>1
        <3>2. CASE i \notin 1..Len(ids) /\ j \notin 1..Len(ids)
            <4>1. PICK k \in 1..Len(todo[p]) : i = Len(ids) + k /\ todo'[p][i] = todo[p][k]
                BY <2>7, <3>2
            <4>2. PICK l \in 1..Len(todo[p]) : j = Len(ids) + l /\ todo'[p][j] = todo[p][l]
                BY <2>7, <3>2
            <4>3. k # l
                BY <2>9, <4>1, <4>2
            <4>4. QED BY <1>2, <4>1, <4>2, <4>3 DEF Queued
        <3>3. CASE i \in 1..Len(ids) /\ j \notin 1..Len(ids)
            BY <2>1, <2>6, <2>7, <2>7a, <3>3
        <3>4. CASE i \notin 1..Len(ids) /\ j \in 1..Len(ids)
            BY <2>1, <2>6, <2>7, <2>7a, <3>4
        <3>5. QED BY <3>1, <3>2, <3>3, <3>4
    <2>10. QED BY <2>2, <2>8, <2>9 DEF Queued, Writing, Executing, InFlight, Splitting
<1>12. CASE SaveVerdict(p)
    <2>1. /\ pc[p] = "saveVerdict"
          /\ \/ pc'[p] = "aggregate" /\ todo'[p] = todo[p]
             \/ pc'[p] = "idle" /\ todo'[p] = <<>>
        BY <1>0, <1>12 DEF SaveVerdict, Stop, Goto, At
    <2>2. CASE pc'[p] = "aggregate" /\ todo'[p] = todo[p]
        <3>1. ~SaveSplit(p)
            BY <2>1 DEF SaveSplit, At
        <3>2. QED BY <2>2, <3>1, QueueKept DEF Writing, Executing, InFlight, Splitting
    <2>3. CASE pc'[p] = "idle" /\ todo'[p] = <<>>
        BY <2>3 DEF Queued, Executing, InFlight, Splitting, Writing
    <2>4. QED BY <2>1, <2>2, <2>3
<1>13. CASE SaveAggregate(p)
    <2>1. todo'[p] = <<>> /\ pc'[p] = "idle"
        BY <1>0, <1>13 DEF SaveAggregate, Stop
    <2>2. QED BY <2>1 DEF Queued, Executing, InFlight, Splitting, Writing
<1>14. QED
    BY <1>3, <1>4, <1>5, <1>6, <1>7, <1>8, <1>9, <1>10, <1>11, <1>12, <1>13 DEF Step

\* From the save of the SPLIT parent there is nothing else to do.
LEMMA SaveSplitOnly ==
    ASSUME NEW p \in Workers, Start(p) \/ Step(p), ~SaveSplit(p)
    PROVE  pc[p] # "saveSplit"
BY DEF Step, Start, Open, List, Take, Exhaust, Claim, ClaimLost, ReadRootBudget, SwapRootBudget,
       Deny, Charge, Succeed, Fail, CreateKids, SaveSplit, RereadRun, SaveSplitRun, ReadRun,
       Judge, SaveVerdict, SaveAggregate, At

\* Only the verdict leads to the aggregate.
LEMMA VerdictEntered ==
    ASSUME TypeOK, NEW p \in Workers, Start(p) \/ Step(p), ~Judge(p), ~SaveVerdict(p)
    PROVE  pc'[p] \notin {"aggregate", "saveVerdict"}
<1>0. pc \in [Workers -> Labels]
    BY DEF TypeOK
<1>1. CASE Start(p) \/ Open(p) \/ List(p) \/ Take(p) \/ ReadRun(p)
           \/ RereadRun(p) \/ ReadRootBudget(p) \/ SwapRootBudget(p)
    BY <1>0, <1>1 DEF Start, Open, List, Take, ReadRun, RereadRun, ReadRootBudget,
                      SwapRootBudget, Goto, At
<1>2. CASE Exhaust(p) \/ ClaimLost(p) \/ Deny(p) \/ SaveSplitRun(p)
    BY <1>0, <1>2 DEF Exhaust, ClaimLost, Deny, SaveSplitRun, EndWindow, Goto
<1>3. CASE SaveAggregate(p) \/ CreateKids(p)
    BY <1>0, <1>3 DEF SaveAggregate, CreateKids, Stop, Goto
<1>4. CASE Claim(p) \/ Charge(p) \/ SaveSplit(p)
    BY <1>0, <1>4 DEF Claim, Charge, SaveSplit, Goto
<1>5. CASE Succeed(p) \/ Fail(p)
    <2>1. PICK r : Record(p, r)
        BY <1>5 DEF Succeed, Fail
    <2>2. QED BY <1>0, <2>1 DEF Record, EndWindow, Goto
<1>6. QED BY <1>1, <1>2, <1>3, <1>4, <1>5 DEF Step

\* The aggregate is saved by one action.
LEMMA ResultKept ==
    ASSUME NEW p \in Workers, Start(p) \/ Step(p), ~SaveAggregate(p)
    PROVE  result' = result
BY DEF Step, Start, Open, List, Take, Exhaust, Claim, ClaimLost, ReadRootBudget, SwapRootBudget,
       Deny, Charge, Succeed, Fail, Record, CreateKids, SaveSplit, RereadRun, SaveSplitRun,
       ReadRun, Judge, SaveVerdict, dbVars

\* What the step leaves of the answers for the source.
LEMMA OwnedStep ==
    ASSUME Solo, TypeOK, Exclusive, Listed, Owned, NEW p \in Workers, Start(p) \/ Step(p)
    PROVE  Owned'
<1>0. /\ pc \in [Workers -> Labels] /\ job \in [Workers -> Job]
      /\ delivered \in [Workers -> SUBSET Windows] /\ \A q \in Workers : q = p
    BY DEF TypeOK, Solo
<1>1. job[p].id \in Windows /\ Kids[job[p].id] \subseteq Windows
    BY JobTyped, ConstantsAssumption
<1>2. Queued(p)'
    BY QueueStep
<1>3. Apart(Live')
    <2>1. CASE SaveSplit(p)
        <3>1. pc[p] = "saveSplit"
            BY <2>1 DEF SaveSplit, At
        <3>2. ASSUME NEW w \in Live' PROVE w \in Live
            <4>1. w \in Windows /\ window'[w].status \notin {"ABSENT", "SPLIT"}
                BY <3>2 DEF Live
            <4>2. w # job[p].id
                BY <2>1, <4>1, SplitOnce
            <4>3. window'[w] = window[w]
                BY <2>1, <4>1, <4>2 DEF SaveSplit, SaveWindow, TypeOK
            <4>4. QED BY <1>0, <4>1, <4>2, <4>3 DEF Live
        <3>3. QED BY <3>2 DEF Owned, Apart
    <2>2. CASE CreateKids(p) /\ ~Stop(p)
        <3>1. /\ pc[p] = "createKids" /\ pc'[p] = "saveSplit" /\ job' = job
              /\ window' = [v \in Windows |-> IF v \in Kids[job[p].id]
                                              THEN ChildWindow(job[p].row) ELSE window[v]]
            BY <1>0, <2>2 DEF CreateKids, CreatedKids, At, Goto
        <3>2. job[p].id \in Live
            BY <1>0, <1>1, <3>1 DEF Live, Listed, Own, Known, Owned, Queued, Executing, Writing
        <3>3. ASSUME NEW w \in Live', w \notin Kids[job[p].id]
              PROVE  w \in Live /\ w # job[p].id
            <4>1. w \in Windows /\ window'[w].status \notin {"ABSENT", "SPLIT"}
                BY <3>3 DEF Live
            <4>2. w # job[p].id
                BY <3>1, <3>3 DEF Live
            <4>3. window'[w] = window[w]
                BY <3>1, <3>3, <4>1
            <4>4. QED BY <1>0, <3>1, <4>1, <4>2, <4>3 DEF Live
        <3>4. ASSUME NEW k \in Kids[job[p].id], NEW w \in Live', w \notin Kids[job[p].id]
              PROVE  Scope[k] \cap Scope[w] = {}
            <4>1. Scope[k] \subseteq Scope[job[p].id]
                BY <1>1, ConstantsAssumption
            <4>2. Scope[job[p].id] \cap Scope[w] = {}
                BY <3>2, <3>3, <3>4 DEF Owned, Apart
            <4>3. QED BY <4>1, <4>2
        <3>5. \A j, k \in Kids[job[p].id] : j # k => Scope[j] \cap Scope[k] = {}
            BY <1>1, OwnershipAssumption
        <3>6. \A v, w \in Live : v # w => Scope[v] \cap Scope[w] = {}
            BY DEF Owned, Apart
        <3>7. ASSUME NEW v \in Live', NEW w \in Live', v # w PROVE Scope[v] \cap Scope[w] = {}
            <4>1. CASE v \in Kids[job[p].id] /\ w \in Kids[job[p].id]
                BY <3>5, <3>7, <4>1
            <4>2. CASE v \notin Kids[job[p].id] /\ w \notin Kids[job[p].id]
                BY <3>3, <3>6, <3>7, <4>2
            <4>3. CASE v \in Kids[job[p].id] /\ w \notin Kids[job[p].id]
                BY <3>4, <4>3
            <4>4. CASE v \notin Kids[job[p].id] /\ w \in Kids[job[p].id]
                BY <3>4, <4>4
            <4>5. QED BY <4>1, <4>2, <4>3, <4>4
        <3>8. QED BY <3>7 DEF Apart
    <2>3. CASE CreateKids(p) /\ Stop(p)
        <3>1. window' = window /\ pc[p] = "createKids"
            BY <1>0, <2>3 DEF CreateKids, At, Stop, Goto
        <3>2. Live' \subseteq Live
            BY <1>0, <3>1 DEF Live
        <3>3. QED BY <3>2 DEF Owned, Apart
    <2>4. CASE ~SaveSplit(p) /\ ~CreateKids(p)
        <3>1. pc[p] # "saveSplit"
            BY <2>4, SaveSplitOnly
        <3>2. Live' \subseteq Live
            BY <2>4, <3>1, LiveKept
        <3>3. QED BY <3>2 DEF Owned, Apart
    <2>5. QED BY <2>1, <2>2, <2>3, <2>4
<1>4. pc'[p] \in {"saveVerdict", "aggregate"} => Apart(delivered'[p])
    <2>1. CASE Judge(p)
        <3>1. /\ delivered'[p] = {w \in Windows : window[w].status = "SUCCEEDED"}
              /\ pc[p] = "judge"
            BY <1>0, <2>1 DEF Judge, At
        <3>2. delivered'[p] \subseteq Live
            BY <1>0, <3>1 DEF Live
        <3>3. QED BY <3>2 DEF Owned, Apart
    <2>2. CASE SaveVerdict(p)
        BY <1>0, <2>2 DEF SaveVerdict, At, Stop, Goto, Owned
    <2>3. CASE ~Judge(p) /\ ~SaveVerdict(p)
        BY <2>3, VerdictEntered
    <2>4. QED BY <2>1, <2>2, <2>3
<1>5. Apart(result')
    <2>1. CASE SaveAggregate(p)
        BY <2>1 DEF SaveAggregate, At, Owned
    <2>2. CASE ~SaveAggregate(p)
        BY <2>2, ResultKept DEF Owned
    <2>3. QED BY <2>1, <2>2
<1>6. QED BY <1>0, <1>2, <1>3, <1>4, <1>5 DEF Owned, Apart

LEMMA AlwaysOwned ==
    ASSUME Solo, MaxRestarts = 0
    PROVE  Spec => []Owned
<1>1. Init => Owned
    <2> SUFFICES ASSUME Init PROVE Owned
        OBVIOUS
    <2>1. \A w \in Windows : window[w].status = IF w \in Planned THEN "PENDING" ELSE "ABSENT"
        BY DEF Init, PlannedWindow, AbsentWindow
    <2>2. Live \subseteq Planned
        BY <2>1 DEF Live
    <2>3. Apart(Live)
        BY <2>2, OwnershipAssumption DEF Apart
    <2>4. Apart(result) /\ \A p \in Workers : Queued(p) /\ pc[p] = "idle"
        BY DEF Init, Apart, Queued, Executing, InFlight, Splitting, Writing
    <2>5. QED BY <2>3, <2>4 DEF Owned
<1>2. TypeOK /\ Exclusive /\ Listed /\ Owned /\ [Next]_vars => Owned'
    <2> SUFFICES ASSUME TypeOK, Exclusive, Listed, Owned, [Next]_vars PROVE Owned'
        OBVIOUS
    <2>1. CASE \E p \in Workers : Start(p) \/ Step(p)
        BY <2>1, OwnedStep
    <2>2. CASE Restart
        BY <2>2 DEF Restart, TypeOK
    <2>3. CASE (\E w \in Windows : DeadlinePasses(w)) \/ UNCHANGED vars
        <3>1. /\ pc' = pc /\ delivered' = delivered /\ todo' = todo /\ job' = job
              /\ result' = result
            BY <2>3 DEF DeadlinePasses, localVars, vars
        <3>2. \A w \in Windows : window'[w].status = window[w].status
            BY <2>3, StatusKept
        <3>3. \A p \in Workers : /\ job[p].id \in Windows /\ Kids[job[p].id] \subseteq Windows
                                 /\ \A i \in 1..Len(todo[p]) : todo[p][i].id \in Windows
            BY JobTyped, TodoTyped, ConstantsAssumption
        <3>4. Live' = Live
            BY <3>1, <3>2 DEF Live
        <3>5. \A p \in Workers : Queued(p)'
            BY <3>1, <3>2, <3>3 DEF Owned, Queued
        <3>6. QED BY <3>1, <3>4, <3>5 DEF Owned, Apart
    <2>4. QED BY <2>1, <2>2, <2>3 DEF Next
<1>3. QED BY <1>1, <1>2, TypeCorrect, AlwaysExclusive, AlwaysListed, PTL DEF Spec

\* As long as no restart interrupts the worker, the aggregate handed to Gate 2 owns every chunk
\* once, for every forest of windows: a parent never answers for the scope of its children, and
\* no window is listed, run or split a second time.
THEOREM AggregateIsOwnedOnce ==
    ASSUME Solo, MaxRestarts = 0
    PROVE  Spec => []AggregateOwnedOnce
<1>1. Spec => []Owned
    BY AlwaysOwned
<1>2. Owned => AggregateOwnedOnce
    BY DEF Owned, Apart, AggregateOwnedOnce
<1>3. QED BY <1>1, <1>2, PTL

-----------------------------------------------------------------------------
(* Every window gets its retries and its repair, while no restart interrupts the worker *)

RepairExhausted == {"SCHEMA_REPAIR_EXHAUSTED", "EVIDENCE_REPAIR_EXHAUSTED"}

\* The calls of a payload: beyond max_call_attempts only for a repair, which has been charged.
Within(r) ==
    /\ r.calls <= MaxCallAttempts + MaxSchemaRepair
    /\ r.phase \notin {"SCHEMA_REPAIR", "TERMINAL"} => r.calls <= MaxCallAttempts
    /\ r.phase = "SCHEMA_REPAIR" => r.repairs >= MaxSchemaRepair
    /\ r.phase = "TERMINAL" => r.status \in {"EXHAUSTED", "NEEDS_HUMAN_ACTION"}

Repaired(r) == r.category \in OutputFailures \cup RepairExhausted => r.repairs >= MaxSchemaRepair

\* A payload a worker may execute.
Payable(r) == Within(r) /\ Repaired(r) /\ r.phase # "TERMINAL"

LEMMA FailuresLeaveRepair ==
    FailureCategories \cap RepairExhausted = {}
BY DEF FailureCategories, RepairExhausted, OutputFailures, TransientFailures, LengthFailure,
       SchemaFailure, EvidenceFailure, TimeoutFailure

LEMMA WithinKept ==
    ASSUME NEW r \in WindowPayload, NEW s \in WindowPayload, Within(r),
           s.calls = r.calls, s.phase = r.phase, s.repairs = r.repairs, r.phase # "TERMINAL"
    PROVE  Within(s) /\ s.phase # "TERMINAL"
BY DEF Within

LEMMA ReservedCounts ==
    ASSUME NEW r \in WindowPayload, Payable(r)
    PROVE  /\ Payable(Reserved(r)) /\ Reserved(r).calls = r.calls
           /\ CallCap(Reserved(r)) = CallCap(r) /\ Reserved(r).status = "RESERVED"
<1>1. /\ Reserved(r).calls = r.calls /\ Reserved(r).phase = r.phase
      /\ Reserved(r).repairs = r.repairs /\ Reserved(r).category = r.category
      /\ Reserved(r).status = "RESERVED"
    BY DEF Reserved, WindowPayload
<1>2. QED BY <1>1 DEF Payable, Within, Repaired, CallCap

LEMMA ChargedCounts ==
    ASSUME NEW r \in WindowPayload, Payable(r), r.calls < CallCap(r)
    PROVE  /\ Payable(Charged(r)) /\ Charged(r).calls = r.calls + 1
           /\ Charged(r).status = "RUNNING"
<1>1. /\ Charged(r).calls = r.calls + 1 /\ Charged(r).phase = r.phase
      /\ Charged(r).repairs = r.repairs /\ Charged(r).category = "NONE"
      /\ Charged(r).status = "RUNNING" /\ r.calls \in Nat
    BY DEF Charged, WindowPayload
<1>2. "NONE" \notin OutputFailures \cup RepairExhausted
    BY DEF OutputFailures, SchemaFailure, EvidenceFailure, RepairExhausted
<1>3. QED BY <1>1, <1>2, ConstantsAssumption DEF Payable, Within, Repaired, CallCap

LEMMA ExhaustCounts ==
    ASSUME NEW r \in WindowPayload, Within(r), Repaired(r), NEW b \in BOOLEAN
    PROVE  /\ Within(ExhaustWindow(r, b)) /\ Repaired(ExhaustWindow(r, b))
           /\ ExhaustWindow(r, b).calls = r.calls
<1> DEFINE x == ExhaustWindow(r, b)
<1>1. /\ x.calls = r.calls /\ x.phase = "TERMINAL" /\ x.repairs = r.repairs
      /\ x.category = ExhaustedCategory(r.category)
      /\ x.status \in {"EXHAUSTED", "NEEDS_HUMAN_ACTION"}
    BY DEF ExhaustWindow, WindowPayload
<1>2. ExhaustedCategory(r.category) \in OutputFailures \cup RepairExhausted
        => r.category \in OutputFailures \cup RepairExhausted
    BY DEF ExhaustedCategory, OutputFailures, SchemaFailure, EvidenceFailure, RepairExhausted
<1> HIDE DEF x
<1>3. QED BY <1>1, <1>2 DEF Within, Repaired, x

LEMMA ChildCounts ==
    ASSUME NEW r \in WindowPayload
    PROVE  /\ Payable(ChildWindow(r)) /\ ChildWindow(r).calls = 0
           /\ ChildWindow(r).status = "PENDING"
<1>1. /\ ChildWindow(r).calls = 0 /\ ChildWindow(r).phase = "SPLIT_CHILD"
      /\ ChildWindow(r).category = "NONE" /\ ChildWindow(r).status = "PENDING"
    BY DEF ChildWindow, PlannedWindow, AbsentWindow
<1>2. "NONE" \notin OutputFailures \cup RepairExhausted
    BY DEF OutputFailures, SchemaFailure, EvidenceFailure, RepairExhausted
<1>3. QED BY <1>1, <1>2, ConstantsAssumption DEF Payable, Within, Repaired

LEMMA SplitCounts ==
    ASSUME NEW r \in WindowPayload, Payable(r)
    PROVE  /\ Within(SplitPayload(r)) /\ Repaired(SplitPayload(r))
           /\ SplitPayload(r).calls = r.calls /\ SplitPayload(r).status = "SPLIT"
<1>1. /\ SplitPayload(r).calls = r.calls /\ SplitPayload(r).phase = r.phase
      /\ SplitPayload(r).repairs = r.repairs /\ SplitPayload(r).category = r.category
      /\ SplitPayload(r).status = "SPLIT"
    BY DEF SplitPayload, WindowPayload
<1>2. QED BY <1>1 DEF Payable, Within, Repaired

\* The payload of a retry: the repair is charged to it before it is claimed.
LEMMA RetryCounts ==
    ASSUME NEW r \in WindowPayload, Within(r), r.status = "FAILED", ShouldRetry(r)
    PROVE  Payable(RetryPayload(r)) /\ RetryPayload(r).calls = r.calls
<1>0. r.repairs \in Nat /\ r.calls \in Nat
    BY DEF WindowPayload
<1>1. CASE r.category = LengthFailure
    <2>1. /\ RetryPayload(r).calls = r.calls /\ RetryPayload(r).phase = "LENGTH_RECOVERY"
          /\ RetryPayload(r).category = LengthFailure
        BY <1>1 DEF RetryPayload, WindowPayload
    <2>2. r.calls < MaxCallAttempts
        BY <1>1 DEF ShouldRetry, RepairLeft, OutputFailures, SchemaFailure, EvidenceFailure,
                    LengthFailure
    <2>3. LengthFailure \notin OutputFailures \cup RepairExhausted
        BY DEF OutputFailures, SchemaFailure, EvidenceFailure, RepairExhausted, LengthFailure
    <2>4. QED BY <1>0, <2>1, <2>2, <2>3, ConstantsAssumption DEF Payable, Within, Repaired
<1>2. CASE r.category # LengthFailure
    <2>1. /\ RetryPayload(r).calls = r.calls /\ RetryPayload(r).phase = "SCHEMA_REPAIR"
          /\ RetryPayload(r).repairs = r.repairs + 1
        BY <1>2 DEF RetryPayload, WindowPayload
    <2>2. r.repairs + 1 >= MaxSchemaRepair
        BY <1>0, ConstantsAssumption
    <2>3. QED BY <2>1, <2>2 DEF Payable, Within, Repaired
<1>3. QED BY <1>1, <1>2

\* What is decided about a failed payload.
LEMMA CompletedCounts ==
    ASSUME NEW w \in Windows, NEW r \in WindowPayload, Within(r), r.status = "FAILED",
           r.category \in FailureCategories
    PROVE  LET d == Completed(w, r) IN
             /\ Within(d) /\ d.calls = r.calls
             /\ d.status # "ABSENT"
             /\ d.status = "FAILED" => d.phase # "TERMINAL" /\ d.category \in FailureCategories
             /\ d.status # "FAILED" => Repaired(d)
<1> DEFINE s == ScheduleRetry(w, r)
<1>0. r.phase # "TERMINAL"
    BY DEF Within
<1>1. \/ s = r
      \/ s = ExhaustWindow(r, FALSE) /\ ~RepairLeft(r)
      \/ s = [r EXCEPT !.deadline = "AHEAD"]
    BY DEF ScheduleRetry
<1>2. ~RepairLeft(r) => Repaired(r)
    BY FailuresLeaveRepair, ConstantsAssumption DEF RepairLeft, Repaired, WindowPayload
<1>3. CASE s = ExhaustWindow(r, FALSE) /\ ~RepairLeft(r)
    <2>1. s \in WindowPayload /\ s.status \in {"EXHAUSTED", "NEEDS_HUMAN_ACTION"}
        BY <1>3, UpdatesTyped, ExhaustStatus
    <2>2. Completed(w, r) = s
        BY <2>1 DEF Completed, Terminalize
    <2>3. Within(s) /\ Repaired(s) /\ s.calls = r.calls
        BY <1>2, <1>3, ExhaustCounts
    <2>4. QED BY <2>1, <2>2, <2>3
<1>4. CASE s = r \/ s = [r EXCEPT !.deadline = "AHEAD"]
    <2>1. /\ s.calls = r.calls /\ s.phase = r.phase /\ s.repairs = r.repairs
          /\ s.category = r.category /\ s.status = "FAILED" /\ s \in WindowPayload
        BY <1>4 DEF WindowPayload, Deadline
    <2>2. Within(s)
        BY <1>0, <2>1, WithinKept
    <2> HIDE DEF s
    <2>3. CASE Completed(w, r) = s
        BY <1>0, <2>1, <2>2, <2>3
    <2>4. CASE Completed(w, r) # s
        <3> DEFINE t == [s EXCEPT !.status = "NEEDS_HUMAN_ACTION",
                                  !.category = ExhaustedCategory(@),
                                  !.deadline = "NONE", !.phase = "TERMINAL"]
        <3>1. Completed(w, r) = t /\ s.repairs >= MaxSchemaRepair
            BY <2>4 DEF Completed, Terminalize, s
        <3>2. /\ t.calls = s.calls /\ t.phase = "TERMINAL" /\ t.repairs = s.repairs
              /\ t.status = "NEEDS_HUMAN_ACTION"
            BY <2>1 DEF WindowPayload
        <3> HIDE DEF t
        <3>3. Within(t) /\ Repaired(t)
            BY <2>1, <2>2, <3>1, <3>2 DEF Within, Repaired
        <3>4. QED BY <2>1, <3>1, <3>2, <3>3
    <2>5. QED BY <2>3, <2>4
<1>5. QED BY <1>1, <1>3, <1>4

\* A failure that is neither split nor retried, or that is split, has had its repair.
LEMMA SettledCounts ==
    ASSUME NEW w \in Windows, NEW r \in WindowPayload, Within(r), r.status = "FAILED",
           r.phase # "TERMINAL", r.category \in FailureCategories,
           ShouldSplit(w, r) \/ ~ShouldRetry(r)
    PROVE  Repaired(r)
<1>1. r.repairs \in Nat /\ r.calls \in Nat
    BY DEF WindowPayload
<1>2. r.category \notin RepairExhausted
      /\ LengthFailure \notin OutputFailures /\ TimeoutFailure \notin OutputFailures
    BY FailuresLeaveRepair
       DEF OutputFailures, LengthFailure, SchemaFailure, EvidenceFailure, TimeoutFailure
<1>3. CASE r.category \notin OutputFailures
    BY <1>2, <1>3 DEF Repaired
<1>4. CASE r.category \in OutputFailures /\ ShouldSplit(w, r)
    BY <1>2, <1>4 DEF ShouldSplit, Repaired
<1>5. CASE r.category \in OutputFailures /\ ~ShouldRetry(r)
    <2> SUFFICES ASSUME r.repairs < MaxSchemaRepair PROVE FALSE
        BY <1>1, ConstantsAssumption DEF Repaired
    <2>1. r.calls >= MaxCallAttempts + MaxSchemaRepair
        BY <1>1, <1>5, ConstantsAssumption DEF ShouldRetry, RepairLeft
    <2>2. r.calls <= MaxCallAttempts
        BY <1>1, ConstantsAssumption DEF Within
    <2>3. QED BY <1>1, <2>1, <2>2, ConstantsAssumption
<1>6. QED BY <1>3, <1>4, <1>5

\* What the rows say of the calls made: at least as many were recorded, and whatever asks for a
\* human has had its repair, except for the row of a failure the worker is about to retry.
RowsCount ==
    \A w \in Windows :
        /\ Within(window[w])
        /\ made[w] <= window[w].calls
        /\ window[w].status = "ABSENT" => window[w].calls = 0
        /\ \/ Repaired(window[w])
           \/ /\ window[w].status = "FAILED" /\ window[w].category \notin RepairExhausted
              /\ \E p \in Workers : pc[p] = "claim" /\ job[p].id = w

\* ... and what the worker's own payloads say.
WorkCounts(p) ==
    /\ \A i \in 1..Len(todo[p]) :
          Payable(todo[p][i].row) /\ made[todo[p][i].id] <= todo[p][i].row.calls
    /\ pc[p] \in Executing => Payable(job[p].row) /\ made[job[p].id] <= job[p].row.calls
    /\ pc[p] \in Reserving => job[p].row.calls < CallCap(job[p].row)
    /\ pc[p] \in Splitting => \A k \in Kids[job[p].id] : made[k] = 0

Counted == RowsCount /\ \A p \in Workers : WorkCounts(p)

LEMMA RowsUnwritten ==
    ASSUME Solo, TypeOK, Counted, NEW p \in Workers, window' = window, made' = made,
           pc[p] = "claim" => window[job[p].id].status # "FAILED"
    PROVE  RowsCount'
<1>1. \A w \in Windows : Repaired(window[w])
    BY DEF Solo, Counted, RowsCount
<1>2. QED BY <1>1 DEF Counted, RowsCount

LEMMA RowSaved ==
    ASSUME Solo, TypeOK, Counted, NEW p \in Workers, NEW r \in WindowPayload,
           SaveWindow(job[p].id, r), Within(r), r.status # "ABSENT",
           made' = made, made[job[p].id] <= r.calls,
           \/ Repaired(r)
           \/ /\ r.status = "FAILED" /\ r.category \notin RepairExhausted
              /\ pc'[p] = "claim" /\ job'[p].id = job[p].id
    PROVE  RowsCount'
<1>1. job[p].id \in Windows
    BY JobTyped
<1>2. \A v \in Windows : window'[v] = IF v = job[p].id THEN r ELSE window[v]
    BY <1>1, Saved
<1>3. \A v \in Windows : v # job[p].id => Repaired(window[v])
    BY DEF Solo, Counted, RowsCount
<1>4. QED BY <1>1, <1>2, <1>3 DEF Counted, RowsCount

\* The worker keeps its list and what it has in hand.
LEMMA WorkKept ==
    ASSUME TypeOK, Counted, NEW p \in Workers, made' = made, todo'[p] = todo[p],
           pc'[p] \in Executing => pc[p] \in Executing /\ job'[p] = job[p],
           pc'[p] \in Reserving => pc[p] \in Reserving,
           pc'[p] \in Splitting => pc[p] \in Splitting
    PROVE  WorkCounts(p)'
<1>1. Reserving \subseteq Executing /\ Splitting \subseteq Executing
    BY DEF Reserving, Splitting, Executing, InFlight
<1>2. WorkCounts(p)
    BY DEF Counted
<1>3. QED BY <1>1, <1>2 DEF WorkCounts, CallCap

LEMMA RecordCounts ==
    ASSUME Solo, TypeOK, Counted, NEW p \in Workers, NEW r \in WindowPayload,
           pc[p] = "call", Record(p, r), Within(r), r.calls = job[p].row.calls,
           r.status # "ABSENT",
           r.status = "FAILED" => r.phase # "TERMINAL" /\ r.category \in FailureCategories,
           r.status # "FAILED" => Repaired(r)
    PROVE  RowsCount' /\ WorkCounts(p)'
<1> DEFINE w == job[p].id
<1>0. pc \in [Workers -> Labels] /\ job \in [Workers -> Job] /\ w \in Windows
    BY JobTyped DEF TypeOK
<1>1. /\ SaveWindow(w, r) /\ made' = made /\ todo'[p] = todo[p] /\ made[w] <= r.calls
    BY DEF Record, Counted, WorkCounts, Executing, InFlight
<1>2. WorkCounts(p)
    BY DEF Counted
<1>3. CASE ShouldSplit(w, r)
    <2>1. pc'[p] = "createKids" /\ job'[p].id = w /\ job'[p].row = r
        BY <1>0, <1>3 DEF Record, Goto, Job
    <2>2. r.status = "FAILED" /\ Payable(r)
        BY <1>0, <1>3, SettledCounts DEF ShouldSplit, Payable
    <2>3. RowsCount'
        BY <1>1, <2>2, RowSaved DEF Payable
    <2>4. QED BY <1>1, <1>2, <2>1, <2>2, <2>3 DEF WorkCounts, Reserving, Splitting
<1>4. CASE ~ShouldSplit(w, r) /\ ShouldRetry(r)
    <2>1. pc'[p] = "claim" /\ job'[p].id = w /\ job'[p].row = RetryPayload(r)
        BY <1>0, <1>4 DEF Record, Goto, Job
    <2>2. r.status = "FAILED" /\ r.category \notin RepairExhausted
        BY <1>4, FailuresLeaveRepair DEF ShouldRetry
    <2>3. Payable(RetryPayload(r)) /\ RetryPayload(r).calls = r.calls
        BY <1>4, <2>2, RetryCounts
    <2>4. RowsCount'
        BY <1>1, <2>1, <2>2, RowSaved
    <2>5. QED BY <1>1, <1>2, <2>1, <2>3, <2>4 DEF WorkCounts, Reserving, Splitting
<1>5. CASE ~ShouldSplit(w, r) /\ ~ShouldRetry(r)
    <2>1. pc'[p] = "next"
        BY <1>0, <1>5 DEF Record, EndWindow, Goto
    <2>2. Repaired(r)
        BY <1>0, <1>5, SettledCounts
    <2>3. RowsCount'
        BY <1>1, <2>2, RowSaved
    <2>4. QED BY <1>1, <2>1, <2>3, WorkKept DEF Executing, InFlight, Reserving, Splitting
<1>6. QED BY <1>3, <1>4, <1>5

LEMMA CountedStep ==
    ASSUME Solo, TypeOK, Listed, Owned, Counted, NEW p \in Workers, Start(p) \/ Step(p)
    PROVE  RowsCount' /\ WorkCounts(p)'
<1> DEFINE w == job[p].id
           r == job[p].row
<1>0. /\ pc \in [Workers -> Labels] /\ job \in [Workers -> Job] /\ todo \in [Workers -> Seq(Job)]
      /\ window \in [Windows -> WindowPayload] /\ made \in [Windows -> 0..MadeCap]
    BY DEF TypeOK
<1>1. w \in Windows /\ r \in WindowPayload /\ Kids[w] \subseteq Windows
    BY JobTyped, ConstantsAssumption
<1>2. WorkCounts(p) /\ RowsCount
    BY DEF Counted
<1>3. CASE Start(p) \/ Open(p) \/ ReadRun(p) \/ Judge(p) \/ RereadRun(p) \/ ReadRootBudget(p)
           \/ SwapRootBudget(p)
    <2>1. /\ window' = window /\ made' = made /\ todo'[p] = todo[p] /\ job'[p] = job[p]
          /\ \/ pc'[p] \in {"open", "list", "judge", "saveVerdict"}
             \/ pc[p] = "reread" /\ pc'[p] = "saveSplitRun"
             \/ pc[p] \in Reserving /\ pc'[p] \in Reserving
          /\ pc[p] # "claim"
        BY <1>0, <1>3 DEF Start, Open, ReadRun, Judge, RereadRun, ReadRootBudget,
                          SwapRootBudget, Goto, At, Reserving, dbVars
    <2>2. RowsCount'
        BY <2>1, RowsUnwritten
    <2>3. WorkCounts(p)'
        BY <2>1, WorkKept DEF Executing, InFlight, Splitting, Reserving
    <2>4. QED BY <2>2, <2>3
<1>4. CASE SaveVerdict(p)
    <2>1. /\ window' = window /\ made' = made /\ pc[p] = "saveVerdict"
          /\ \/ pc'[p] = "aggregate" /\ todo'[p] = todo[p]
             \/ pc'[p] = "idle" /\ todo'[p] = <<>>
        BY <1>0, <1>4 DEF SaveVerdict, Stop, Goto, At
    <2>2. RowsCount'
        BY <2>1, RowsUnwritten
    <2>3. WorkCounts(p)'
        BY <1>2, <2>1 DEF WorkCounts, Executing, InFlight, Splitting, Reserving
    <2>4. QED BY <2>2, <2>3
<1>5. CASE SaveAggregate(p)
    <2>1. /\ window' = window /\ made' = made /\ pc[p] = "aggregate"
          /\ pc'[p] = "idle" /\ todo'[p] = <<>>
        BY <1>0, <1>5 DEF SaveAggregate, Stop, At
    <2>2. RowsCount'
        BY <2>1, RowsUnwritten
    <2>3. WorkCounts(p)'
        BY <2>1 DEF WorkCounts, Executing, InFlight, Splitting, Reserving
    <2>4. QED BY <2>2, <2>3
<1>6. CASE ClaimLost(p)
    <2>1. /\ window' = window /\ made' = made /\ todo'[p] = todo[p] /\ pc'[p] = "next"
          /\ window[w].status # "FAILED"
        BY <1>0, <1>6 DEF ClaimLost, EndWindow, Goto, Claimable, dbVars
    <2>2. RowsCount'
        BY <2>1, RowsUnwritten
    <2>3. WorkCounts(p)'
        BY <2>1, WorkKept DEF Executing, InFlight, Splitting, Reserving
    <2>4. QED BY <2>2, <2>3
<1>7. CASE Exhaust(p) \/ Deny(p)
    <2>1. PICK b \in BOOLEAN : SaveWindow(w, ExhaustWindow(r, b))
        BY <1>7 DEF Exhaust, Deny
    <2>2. made' = made /\ todo'[p] = todo[p] /\ pc'[p] = "next" /\ pc[p] \in Executing
        BY <1>0, <1>7 DEF Exhaust, Deny, EndWindow, Goto, At, Executing, InFlight
    <2>3. Payable(r) /\ made[w] <= r.calls
        BY <1>2, <2>2 DEF WorkCounts
    <2>4. /\ ExhaustWindow(r, b) \in WindowPayload /\ ExhaustWindow(r, b).status # "ABSENT"
          /\ Within(ExhaustWindow(r, b)) /\ Repaired(ExhaustWindow(r, b))
          /\ ExhaustWindow(r, b).calls = r.calls
        BY <1>1, <2>3, UpdatesTyped, ExhaustStatus, ExhaustCounts DEF Payable
    <2>5. RowsCount'
        BY <2>1, <2>2, <2>3, <2>4, RowSaved
    <2>6. WorkCounts(p)'
        BY <2>2, WorkKept DEF Executing, InFlight, Splitting, Reserving
    <2>7. QED BY <2>5, <2>6
<1>8. CASE Claim(p)
    <2>1. /\ SaveWindow(w, Reserved(r)) /\ ~BudgetExhausted(r)
          /\ made' = made /\ todo'[p] = todo[p] /\ pc'[p] = "reserve" /\ pc[p] \in Executing
          /\ job'[p].id = w /\ job'[p].row = Reserved(r)
        BY <1>0, <1>8 DEF Claim, Goto, At, Executing, InFlight, Job
    <2>2. Payable(r) /\ made[w] <= r.calls
        BY <1>2, <2>1 DEF WorkCounts
    <2>3. /\ Reserved(r) \in WindowPayload /\ Reserved(r).status = "RESERVED"
          /\ Payable(Reserved(r)) /\ Reserved(r).calls = r.calls
          /\ CallCap(Reserved(r)) = CallCap(r)
        BY <1>1, <2>2, UpdatesTyped, ReservedCounts
    <2>4. r.calls < CallCap(r)
        <3>1. r.calls \in Nat /\ CallCap(r) \in Nat
            BY <1>1, ConstantsAssumption DEF WindowPayload, CallCap
        <3>2. QED BY <2>1, <3>1 DEF BudgetExhausted
    <2>5. RowsCount'
        BY <2>1, <2>2, <2>3, RowSaved DEF Payable
    <2> HIDE DEF w, r
    <2>6. WorkCounts(p)'
        BY <1>2, <2>1, <2>2, <2>3, <2>4 DEF WorkCounts, CallCap, Splitting
    <2>7. QED BY <2>5, <2>6
<1>9. CASE Charge(p)
    <2>1. /\ SaveWindow(w, Charged(r)) /\ made' = [made EXCEPT ![w] = Capped(made[w] + 1)]
          /\ todo'[p] = todo[p] /\ pc'[p] = "call" /\ pc[p] = "charge"
          /\ job'[p].id = w /\ job'[p].row = Charged(r)
        BY <1>0, <1>9 DEF Charge, Goto, At, Job
    <2>2. /\ Payable(r) /\ made[w] <= r.calls /\ r.calls < CallCap(r)
          /\ \A i \in 1..Len(todo[p]) : todo[p][i].id # w /\ todo[p][i].id \in Windows
        BY <1>2, <2>1, TodoTyped
           DEF WorkCounts, Executing, InFlight, Reserving, Owned, Queued
    <2>3. /\ Payable(Charged(r)) /\ Charged(r).calls = r.calls + 1
          /\ Charged(r).status = "RUNNING" /\ Charged(r) \in WindowPayload
        BY <1>1, <2>2, UpdatesTyped, ChargedCounts
    <2>4. /\ made'[w] <= r.calls + 1
          /\ \A v \in Windows : v # w => made'[v] = made[v]
        <3>1. made[w] \in Nat /\ r.calls \in Nat
            BY <1>0, <1>1, ConstantsAssumption DEF WindowPayload
        <3>2. Capped(made[w] + 1) <= made[w] + 1
            BY <3>1, ConstantsAssumption DEF Capped
        <3>3. made'[w] = Capped(made[w] + 1)
            BY <1>0, <1>1, <2>1
        <3>4. Capped(made[w] + 1) \in Nat
            BY <3>1, ConstantsAssumption DEF Capped
        <3>5. made'[w] <= r.calls + 1
            BY <2>2, <3>1, <3>2, <3>3, <3>4
        <3>6. QED BY <1>0, <2>1, <3>5
    <2>5. \A v \in Windows : window'[v] = IF v = w THEN Charged(r) ELSE window[v]
        BY <1>1, <2>1, <2>3, Saved
    <2>6. \A v \in Windows : Repaired(window[v])
        BY <1>2, <2>1 DEF Solo, RowsCount
    <2>7. RowsCount'
        BY <1>1, <1>2, <2>3, <2>4, <2>5, <2>6 DEF RowsCount, Payable
    <2>8. WorkCounts(p)'
        BY <1>2, <2>1, <2>2, <2>3, <2>4 DEF WorkCounts, Reserving, Splitting
    <2>9. QED BY <2>7, <2>8
<1>10. CASE Succeed(p) \/ Fail(p)
    <2>1. pc[p] = "call" /\ Payable(r)
        BY <1>2, <1>10 DEF Succeed, Fail, At, WorkCounts, Executing, InFlight
    <2>2. ASSUME NEW slow \in Overtime, NEW s \in {"SUCCEEDED", "FAILED"},
                 NEW c \in FailureCategories \cup {"NONE"}
          PROVE  LET a == Answered(r, s, c, slow) IN
                   /\ a \in WindowPayload /\ a.status = s /\ a.category = c
                   /\ a.calls = r.calls /\ Within(a) /\ a.phase # "TERMINAL"
        <3> DEFINE a == Answered(r, s, c, slow)
        <3>1. slow \in BOOLEAN /\ c \in Category
            BY ConstantsAssumption DEF Category
        <3>2. a \in WindowPayload
            BY <1>1, <3>1, AnsweredTyped
        <3>3. /\ a.status = s /\ a.category = c /\ a.calls = r.calls /\ a.phase = r.phase
              /\ a.repairs = r.repairs
            BY <1>1 DEF Answered, WindowPayload
        <3> HIDE DEF a
        <3>4. Within(a) /\ a.phase # "TERMINAL"
            BY <1>1, <2>1, <3>2, <3>3, WithinKept DEF Payable
        <3>5. QED BY <3>2, <3>3, <3>4 DEF a
    <2>3. CASE Succeed(p)
        <3>1. PICK slow \in Overtime : Record(p, Answered(r, "SUCCEEDED", "NONE", slow))
            BY <2>3 DEF Succeed
        <3> DEFINE a == Answered(r, "SUCCEEDED", "NONE", slow)
        <3>2. /\ a \in WindowPayload /\ a.status = "SUCCEEDED" /\ a.category = "NONE"
              /\ a.calls = r.calls /\ Within(a)
            BY <2>2
        <3>3. Record(p, a)
            BY <3>1
        <3> HIDE DEF a
        <3>4. Repaired(a)
            BY <3>2 DEF Repaired, OutputFailures, SchemaFailure, EvidenceFailure, RepairExhausted
        <3>5. QED BY <2>1, <3>2, <3>3, <3>4, RecordCounts
    <2>4. CASE Fail(p)
        <3>1. PICK c \in Failures, slow \in Overtime :
                Record(p, Completed(w, Answered(r, "FAILED", c, slow)))
            BY <2>4 DEF Fail
        <3> DEFINE a == Answered(r, "FAILED", c, slow)
                   d == Completed(w, a)
        <3>2. /\ a \in WindowPayload /\ a.status = "FAILED" /\ a.category \in FailureCategories
              /\ a.calls = r.calls /\ Within(a)
            <4>1. c \in FailureCategories
                BY ConstantsAssumption
            <4>2. QED BY <2>2, <4>1
        <3>3. Record(p, d)
            BY <3>1
        <3> HIDE DEF a
        <3>4. d \in WindowPayload
            BY <1>1, <3>2, CompletedTyped
        <3>5. /\ Within(d) /\ d.calls = a.calls /\ d.status # "ABSENT"
              /\ d.status = "FAILED" => d.phase # "TERMINAL" /\ d.category \in FailureCategories
              /\ d.status # "FAILED" => Repaired(d)
            BY <1>1, <3>2, CompletedCounts
        <3> HIDE DEF d
        <3>6. QED BY <2>1, <3>2, <3>3, <3>4, <3>5, RecordCounts
    <2>5. QED BY <1>10, <2>3, <2>4
<1>11. CASE CreateKids(p) /\ Stop(p)
    <2>1. /\ window' = window /\ made' = made /\ pc[p] = "createKids"
          /\ pc'[p] = "idle" /\ todo'[p] = <<>>
        BY <1>0, <1>11 DEF CreateKids, Stop, At, Goto
    <2>2. RowsCount'
        BY <2>1, RowsUnwritten
    <2>3. WorkCounts(p)'
        BY <2>1 DEF WorkCounts, Executing, InFlight, Splitting, Reserving
    <2>4. QED BY <2>2, <2>3
<1>12. CASE CreateKids(p) /\ ~Stop(p)
    <2>1. /\ todo' = todo /\ job' = job /\ made' = made
          /\ pc[p] = "createKids" /\ pc'[p] = "saveSplit"
          /\ window' = [v \in Windows |-> IF v \in Kids[w] THEN ChildWindow(r) ELSE window[v]]
        BY <1>0, <1>12 DEF CreateKids, CreatedKids, At, Goto
    <2>2. \A k \in Kids[w] : window[k].status = "ABSENT"
        BY <1>12, KidsNew
    <2>3. \A k \in Kids[w] : made[k] = 0
        <3> SUFFICES ASSUME NEW k \in Kids[w] PROVE made[k] = 0
            OBVIOUS
        <3>1. k \in Windows /\ made[k] \in Nat
            BY <1>0, <1>1, ConstantsAssumption
        <3>2. made[k] <= window[k].calls /\ window[k].calls = 0
            BY <1>2, <2>2, <3>1 DEF RowsCount
        <3>3. QED BY <3>1, <3>2
    <2>4. /\ Within(ChildWindow(r)) /\ Repaired(ChildWindow(r)) /\ ChildWindow(r).calls = 0
          /\ ChildWindow(r).status = "PENDING"
        BY <1>1, ChildCounts DEF Payable
    <2>5. \A v \in Windows : Repaired(window[v])
        BY <1>2, <2>1 DEF Solo, RowsCount
    <2> HIDE DEF w, r
    <2>6. \A v \in Windows : window'[v] = IF v \in Kids[w] THEN ChildWindow(r) ELSE window[v]
        BY <2>1
    <2>7. RowsCount'
        BY <1>2, <2>1, <2>3, <2>4, <2>5, <2>6 DEF RowsCount
    <2>8. pc[p] \in Executing /\ pc'[p] \notin Reserving
        BY <2>1 DEF Executing, Reserving
    <2>9. WorkCounts(p)'
        BY <1>2, <2>1, <2>3, <2>8 DEF WorkCounts, w
    <2>10. QED BY <2>7, <2>9
<1>13. CASE SaveSplit(p)
    <2>1. /\ SaveWindow(w, SplitPayload(r)) /\ made' = made /\ todo' = todo /\ job' = job
          /\ pc[p] = "saveSplit" /\ pc'[p] \in {"reread", "saveSplitRun"}
        BY <1>0, <1>13 DEF SaveSplit, Goto, At
    <2>2. Payable(r) /\ made[w] <= r.calls
        BY <1>2, <2>1 DEF WorkCounts, Executing
    <2>3. /\ SplitPayload(r) \in WindowPayload /\ SplitPayload(r).status = "SPLIT"
          /\ Within(SplitPayload(r)) /\ Repaired(SplitPayload(r))
          /\ SplitPayload(r).calls = r.calls
        BY <1>1, <2>2, UpdatesTyped, SplitCounts
    <2>4. RowsCount'
        BY <2>1, <2>2, <2>3, RowSaved
    <2>5. WorkCounts(p)'
        BY <2>1, WorkKept DEF Executing, InFlight, Splitting, Reserving
    <2>6. QED BY <2>4, <2>5
<1>14. CASE List(p)
    <2>1. PICK ids \in Listings({v \in Windows : Eligible(v)}) :
            todo' = [todo EXCEPT ![p] =
                        [i \in 1..Len(ids) |-> [id |-> ids[i], row |-> window[ids[i]]]]]
        BY <1>14 DEF List
    <2>2. ids \in Seq({v \in Windows : Eligible(v)}) /\ Len(ids) \in Nat
        BY <2>1, ListingIsSeq
    <2>3. pc[p] = "list" /\ pc'[p] = "next" /\ window' = window /\ made' = made
        BY <1>0, <1>14 DEF List, Goto, At, dbVars
    <2>4. ASSUME NEW v \in Windows, Eligible(v)
          PROVE  Payable(window[v]) /\ made[v] <= window[v].calls
        BY <1>2, <2>3, <2>4 DEF Solo, RowsCount, Eligible, Claimable, Payable, Within
    <2>5. /\ Len(todo'[p]) = Len(ids)
          /\ \A i \in 1..Len(ids) : todo'[p][i].id = ids[i] /\ todo'[p][i].row = window[ids[i]]
        BY <1>0, <2>1, <2>2
    <2>6. \A i \in 1..Len(ids) : ids[i] \in Windows /\ Eligible(ids[i])
        BY <2>2, ElementOfSeq
    <2>7. RowsCount'
        BY <2>3, RowsUnwritten
    <2>8. WorkCounts(p)'
        BY <2>3, <2>4, <2>5, <2>6 DEF WorkCounts, Executing, InFlight, Splitting, Reserving
    <2>9. QED BY <2>7, <2>8
<1>15. CASE Take(p)
    <2>1. /\ todo[p] \in Seq(Job) /\ todo[p] # <<>> /\ made' = made /\ window' = window
          /\ pc[p] = "next" /\ pc'[p] = "claim"
          /\ job'[p] = Head(todo[p]) /\ todo'[p] = Tail(todo[p])
        BY <1>0, <1>15 DEF Take, Goto, At, dbVars
    <2>2. /\ job'[p] = todo[p][1] /\ 1 \in 1..Len(todo[p])
          /\ \A i \in 1..Len(todo'[p]) : todo'[p][i] = todo[p][i + 1] /\ i + 1 \in 1..Len(todo[p])
        BY <2>1
    <2>3. RowsCount'
        BY <2>1, RowsUnwritten
    <2>4. WorkCounts(p)'
        BY <1>2, <2>1, <2>2 DEF WorkCounts, Splitting, Reserving
    <2>5. QED BY <2>3, <2>4
<1>16. CASE SaveSplitRun(p)
    <2>1. PICK ids \in Seq(Windows) :
            /\ \A i \in 1..Len(ids) : ids[i] \in Kids[w]
            /\ Prepended(ids, ChildWindow(r), todo[p], todo'[p])
        BY <1>16, SplitList
    <2>2. window' = window /\ made' = made /\ pc[p] = "saveSplitRun" /\ pc'[p] = "next"
        BY <1>0, <1>16 DEF SaveSplitRun, EndWindow, Goto, At
    <2>3. \A k \in Kids[w] : made[k] = 0
        BY <1>2, <2>2 DEF WorkCounts, Splitting
    <2>4. Payable(ChildWindow(r)) /\ ChildWindow(r).calls = 0
        BY <1>1, ChildCounts
    <2> HIDE DEF w, r
    <2>5. ASSUME NEW i \in 1..Len(todo'[p])
          PROVE  Payable(todo'[p][i].row) /\ made[todo'[p][i].id] <= todo'[p][i].row.calls
        <3>1. CASE i \in 1..Len(ids)
            <4>1. todo'[p][i] = [id |-> ids[i], row |-> ChildWindow(r)]
                BY <2>1, <3>1 DEF Prepended
            <4>2. made[ids[i]] = 0
                BY <2>1, <2>3, <3>1
            <4>3. QED BY <2>4, <4>1, <4>2
        <3>2. CASE i \notin 1..Len(ids)
            <4>1. PICK j \in 1..Len(todo[p]) : i = Len(ids) + j
                BY <2>1, <3>2 DEF Prepended
            <4>2. todo'[p][i] = todo[p][j]
                BY <2>1, <4>1 DEF Prepended
            <4>3. QED BY <1>2, <4>2 DEF WorkCounts
        <3>3. QED BY <3>1, <3>2
    <2>6. RowsCount'
        BY <2>2, RowsUnwritten
    <2>7. WorkCounts(p)'
        BY <2>2, <2>5 DEF WorkCounts, Executing, InFlight, Splitting, Reserving
    <2>8. QED BY <2>6, <2>7
<1>17. QED
    BY <1>3, <1>4, <1>5, <1>6, <1>7, <1>8, <1>9, <1>10, <1>11, <1>12, <1>13, <1>14, <1>15,
       <1>16 DEF Step

LEMMA DeadlineCounts ==
    ASSUME TypeOK, Counted, NEW w \in Windows, DeadlinePasses(w)
    PROVE  Counted'
<1>1. /\ pc' = pc /\ todo' = todo /\ job' = job /\ made' = made
      /\ window' = [window EXCEPT ![w] = [window[w] EXCEPT !.deadline = "DUE"]]
    BY DEF DeadlinePasses, SaveWindow, localVars
<1> DEFINE d == [window[w] EXCEPT !.deadline = "DUE"]
<1>2. window[w] \in WindowPayload /\ window \in [Windows -> WindowPayload]
    BY DEF TypeOK
<1>3. /\ d.status = window[w].status /\ d.calls = window[w].calls /\ d.phase = window[w].phase
      /\ d.repairs = window[w].repairs /\ d.category = window[w].category
    BY <1>2 DEF WindowPayload
<1> HIDE DEF d
<1>4. \A v \in Windows : window'[v] = IF v = w THEN d ELSE window[v]
    BY <1>1, <1>2 DEF d
<1>5. RowsCount'
    BY <1>1, <1>3, <1>4 DEF Counted, RowsCount, Within, Repaired
<1>6. \A p \in Workers : WorkCounts(p)'
    BY <1>1 DEF Counted, WorkCounts, CallCap
<1>7. QED BY <1>5, <1>6 DEF Counted

LEMMA AlwaysCounted ==
    ASSUME Solo, MaxRestarts = 0
    PROVE  Spec => []Counted
<1>1. Init => Counted
    <2> SUFFICES ASSUME Init PROVE Counted
        OBVIOUS
    <2>1. \A w \in Windows :
            /\ window[w].calls = 0 /\ window[w].phase = "INITIAL" /\ window[w].category = "NONE"
            /\ made[w] = 0
        BY DEF Init, PlannedWindow, AbsentWindow
    <2>2. "NONE" \notin OutputFailures \cup RepairExhausted
        BY DEF OutputFailures, SchemaFailure, EvidenceFailure, RepairExhausted
    <2>3. RowsCount
        BY <2>1, <2>2, ConstantsAssumption DEF RowsCount, Within, Repaired
    <2>4. \A p \in Workers : WorkCounts(p)
        BY DEF Init, WorkCounts, Executing, InFlight, Splitting, Reserving
    <2>5. QED BY <2>3, <2>4 DEF Counted
<1>2. TypeOK /\ Listed /\ Owned /\ Counted /\ [Next]_vars => Counted'
    <2> SUFFICES ASSUME TypeOK, Listed, Owned, Counted, [Next]_vars PROVE Counted'
        OBVIOUS
    <2>1. CASE \E p \in Workers : Start(p) \/ Step(p)
        BY <2>1, CountedStep DEF Solo, Counted
    <2>2. CASE Restart
        BY <2>2 DEF Restart, TypeOK
    <2>3. CASE \E w \in Windows : DeadlinePasses(w)
        BY <2>3, DeadlineCounts
    <2>4. CASE UNCHANGED vars
        BY <2>4 DEF vars, Counted, RowsCount, WorkCounts, CallCap
    <2>5. QED BY <2>1, <2>2, <2>3, <2>4 DEF Next
<1>3. QED BY <1>1, <1>2, TypeCorrect, AlwaysListed, AlwaysOwned, PTL DEF Spec

\* As long as no restart interrupts the worker, a window makes no more calls than its attempts
\* and its one repair, over splits and length recoveries, and goes to a human for an output
\* failure only after that repair was charged to it.
THEOREM RetriesAreExact ==
    ASSUME Solo, MaxRestarts = 0
    PROVE  Spec => []RetriesExact
<1>1. Spec => []Counted
    BY AlwaysCounted
<1>2. TypeOK /\ Counted => RetriesExact
    <2> SUFFICES ASSUME TypeOK, Counted PROVE RetriesExact
        OBVIOUS
    <2>1. ASSUME NEW w \in Windows PROVE made[w] <= MaxCallAttempts + MaxSchemaRepair
        <3>1. made[w] \in Nat /\ window[w].calls \in Nat
            BY ConstantsAssumption DEF TypeOK, WindowPayload
        <3>2. made[w] <= window[w].calls
              /\ window[w].calls <= MaxCallAttempts + MaxSchemaRepair
            BY DEF Counted, RowsCount, Within
        <3>3. QED BY <3>1, <3>2, ConstantsAssumption
    <2>2. RepairBeforeHuman
        BY DEF RepairBeforeHuman, Counted, RowsCount, Repaired, RepairExhausted
    <2>3. QED BY <2>1, <2>2 DEF RetriesExact, WindowBudget
<1>3. QED BY <1>1, <1>2, TypeCorrect, PTL
=============================================================================

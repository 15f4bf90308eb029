------------------------ MODULE Gate2RecoveryProofs ------------------------
(***************************************************************************)
(* What Gate2Recovery guarantees for any number of tasks, proposals,       *)
(* windows, interruptions and answers.                                     *)
(***************************************************************************)
EXTENDS Gate2Recovery, FiniteSetTheorems, FunctionTheorems, TLAPS

\* The places at which a task is about a proposal.
Working == {"derive", "reserve", "save", "call", "repair", "judge"}

Mine(p) == attempt[AtDiagnostic(p)]

\* A task that is about a proposal is about one that can be rerun, of an aggregate Gate 2 has
\* rejected; what it holds of the run has no other verdict than the run's.
Placed(p) ==
    /\ pc[p] \in Working => pos[p] <= Len(Diagnostics) /\ WindowOf[AtDiagnostic(p)] # NoWindow
    /\ pc[p] \in Working \cup {"pick"} => verdict = "REJECTED"
    /\ snap[p].review \in {"NONE", verdict}
    /\ pc[p] = "swap" => snap[p].claims < MaxClaims

\* What is recorded of a rerun fits the calls made for it.
Recorded(d) ==
    LET a == attempt[d] IN
    /\ a.status # "ABSENT" => a.limit >= 1 /\ verdict = "REJECTED"
    /\ a.status \in {"ABSENT", "RESERVED"} => a.requests = 0 /\ calls[d] = 0
    /\ a.status = "RUNNING" => a.requests = 1
    /\ a.status \in {"ABSENT", "RESERVED", "RUNNING"} => ~a.heavy
    /\ a.status \in {"PROVIDER_SUCCEEDED", "REVIEWING", "COMPLETED"} => a.requests = calls[d]
    /\ a.status # "COMPLETED" => a.outcome = "NONE"
    /\ a.outcome = "APPROVED" => a.produced = "APPROVED"
    /\ calls[d] <= a.limit

\* The payload after the calls: it is about to replace a running attempt.
Usage(d, b) ==
    /\ attempt[d].status = "RUNNING"
    /\ b.limit = attempt[d].limit /\ b.requests = calls[d] /\ b.requests >= 1
    /\ b.outcome = "NONE"

\* A payload to be saved, and the row it meets: either it is the successor of that row, or the
\* save will be refused.
Saveable(d, b) ==
    LET a == attempt[d] IN
    \/ b.status = "RUNNING" /\ a.status = "RESERVED" /\ b = RunningAttempt(a)
    \/ b.status \in {"PROVIDER_SUCCEEDED", "REVIEWING"} /\ Usage(d, b)
    \/ b.status = "REVIEWING" /\ a.status = "PROVIDER_SUCCEEDED" /\ b = Reviewing(a)
    \/ b.status = "REVIEWING" /\ a.status = "REVIEWING"
    \/ /\ b.status = "COMPLETED" /\ a.status = "REVIEWING" /\ b = Completed(a, b.outcome)
       /\ b.outcome = "APPROVED" => a.produced = "APPROVED"
    \/ b.status \in {"REVIEWING", "COMPLETED"} /\ a.status = "COMPLETED"

\* What a task holds of an attempt, at each place.
Standing(p) ==
    LET d == AtDiagnostic(p)
        a == attempt[d]
        b == job[p]
    IN  /\ pc[p] = "reserve" /\ a.status = "ABSENT" =>
              b = ReservedAttempt(b.limit) /\ b.limit \in 1..2
        /\ pc[p] = "save" => Saveable(d, b)
        /\ pc[p] = "call" => a.status = "RUNNING" /\ b = a /\ calls[d] = 0
        /\ pc[p] = "repair" => a.status = "RUNNING" /\ b = a /\ calls[d] = 1 /\ a.limit >= 2
        /\ pc[p] = "judge" =>
              /\ a.status \in {"REVIEWING", "COMPLETED"} /\ b.status = "REVIEWING"
              /\ a.status = "REVIEWING" => b = a

\* The task whose insert won, until the Provider's answer is saved.
Owns(p) == pc[p] \in {"save", "call", "repair"} /\ Mine(p).status \in {"RESERVED", "RUNNING"}

Single == \A p, q \in Workers : Owns(p) /\ Owns(q) /\ pos[p] = pos[q] => p = q

Books ==
    /\ run.review \in {"NONE", verdict}
    /\ "root" \in timeline => verdict = "APPROVED"
    /\ \A d \in timeline \cap Proposals : verdict = "REJECTED" /\ attempt[d].produced = "APPROVED"
    /\ \A d \in timeline \cap Proposals : attempt[d].status = "COMPLETED"
    /\ \A d \in Proposals : Recorded(d)

Tasks == (\A p \in Workers : Placed(p) /\ Standing(p)) /\ Single

Shape == TypeOK /\ Books /\ Tasks

-----------------------------------------------------------------------------
(* Payloads *)

LEMMA RunPayloads ==
    ASSUME NEW r \in RunPayload
    PROVE  /\ Opened(r) \in RunPayload /\ Failed(r) \in RunPayload /\ Aged(r) \in RunPayload
           /\ [r EXCEPT !.status = "SUCCEEDED"] \in RunPayload
           /\ verdict \in RouteDecision => Reviewed(r) \in RunPayload
           /\ r.claims < MaxClaims => Claimed(r) \in RunPayload
<1>1. /\ Opened(r) \in RunPayload /\ Failed(r) \in RunPayload /\ Aged(r) \in RunPayload
      /\ [r EXCEPT !.status = "SUCCEEDED"] \in RunPayload
    BY DEF RunPayload, Opened, Failed, Aged, HandoffStatus
<1>2. verdict \in RouteDecision => Reviewed(r) \in RunPayload
    BY DEF RunPayload, Reviewed, HandoffStatus
<1>3. ASSUME r.claims < MaxClaims PROVE Claimed(r) \in RunPayload
    <2>1. r.claims + 1 \in 0..3 /\ "RUNNING" \in HandoffStatus
        BY <1>3 DEF RunPayload, MaxClaims, HandoffStatus
    <2>2. QED BY <2>1 DEF RunPayload, Claimed
<1>4. QED BY <1>1, <1>2, <1>3

LEMMA AttemptPayloads ==
    /\ NoAttempt \in AttemptPayload
    /\ \A l \in 0..2 : ReservedAttempt(l) \in AttemptPayload
    /\ \A a \in AttemptPayload :
          /\ RunningAttempt(a) \in AttemptPayload
          /\ Reviewing(a) \in AttemptPayload
          /\ \A o \in Outcome : Completed(a, o) \in AttemptPayload
          /\ a.requests = 1 =>
                \A o \in Outcome, used \in 1..2, slow \in BOOLEAN :
                    AfterProvider(a, o, used, slow) \in AttemptPayload
<1>1. NoAttempt \in AttemptPayload /\ \A l \in 0..2 : ReservedAttempt(l) \in AttemptPayload
    <2>1. NoAttempt \in AttemptPayload
        BY DEF NoAttempt, AttemptPayload, AttemptStatus, Outcome
    <2>2. "RESERVED" \in AttemptStatus
        BY DEF AttemptStatus
    <2>3. QED BY <2>1, <2>2 DEF ReservedAttempt, AttemptPayload
<1>2. ASSUME NEW a \in AttemptPayload
      PROVE  /\ RunningAttempt(a) \in AttemptPayload
             /\ Reviewing(a) \in AttemptPayload
             /\ \A o \in Outcome : Completed(a, o) \in AttemptPayload
    <2>1. {"RUNNING", "REVIEWING", "COMPLETED"} \subseteq AttemptStatus /\ 1 \in 0..2
        BY DEF AttemptStatus
    <2>2. RunningAttempt(a) \in AttemptPayload
        BY <2>1 DEF RunningAttempt, AttemptPayload
    <2>3. Reviewing(a) \in AttemptPayload
        BY <2>1 DEF Reviewing, AttemptPayload
    <2>4. \A o \in Outcome : Completed(a, o) \in AttemptPayload
        BY <2>1 DEF Completed, AttemptPayload
    <2>5. QED BY <2>2, <2>3, <2>4
<1>3. ASSUME NEW a \in AttemptPayload, a.requests = 1, NEW o \in Outcome, NEW used \in 1..2,
             NEW slow \in BOOLEAN
      PROVE  AfterProvider(a, o, used, slow) \in AttemptPayload
    <2>1. a.requests + (used - 1) \in 0..2
        BY <1>3
    <2>2. {"REVIEWING", "PROVIDER_SUCCEEDED"} \subseteq AttemptStatus
        BY DEF AttemptStatus
    <2>3. QED BY <1>3, <2>1, <2>2 DEF AfterProvider, AttemptPayload
<1>4. QED BY <1>1, <1>2, <1>3

LEMMA Located ==
    ASSUME TypeOK, NEW p \in Workers, pos[p] <= Len(Diagnostics)
    PROVE  AtDiagnostic(p) \in Proposals /\ pos[p] \in 1..Len(Diagnostics)
BY DEF TypeOK, AtDiagnostic, Proposals

LEMMA Apart ==
    ASSUME TypeOK, NEW p \in Workers, NEW q \in Workers, pos[p] <= Len(Diagnostics),
           pos[q] <= Len(Diagnostics), AtDiagnostic(p) = AtDiagnostic(q)
    PROVE  pos[p] = pos[q]
BY Located, RecoveryAssumption DEF AtDiagnostic

-----------------------------------------------------------------------------
(* The requests on the books *)

Requested == {request \in Proposals \X (1..2) : request[2] <= attempt[request[1]].requests}

LEMMA ProposalsFinite == IsFiniteSet(Proposals) /\ IsFiniteSet(Proposals \X (1..2))
<1>1. Len(Diagnostics) \in Nat
    BY RecoveryAssumption
<1>2. IsFiniteSet(1..Len(Diagnostics)) /\ IsFiniteSet(1..2)
    <2>1. IsFiniteSet(1..Len(Diagnostics))
        BY <1>1, FS_Interval
    <2>2. 1 \in Int /\ 2 \in Int /\ IsFiniteSet(1..2)
        BY FS_Interval, 1 \in Int, 2 \in Int
    <2>3. QED BY <2>1, <2>2
<1>3. IsFiniteSet(Proposals)
    <2>1. Diagnostics \in [1..Len(Diagnostics) -> Proposals]
        BY RecoveryAssumption
    <2>2. Diagnostics \in Surjection(1..Len(Diagnostics), Proposals)
        BY <2>1, Fun_IsSurj DEF Proposals
    <2>3. IsFiniteSet(Proposals)
        BY <1>2, <2>2, FS_Surjection
    <2>4. QED BY <2>3
<1>4. QED BY <1>2, <1>3, FS_Product

LEMMA RequestsCount == RequestsUsed \in Nat /\ IsFiniteSet(Requested)
<1>1. IsFiniteSet(Requested)
    BY ProposalsFinite, FS_Subset DEF Requested
<1>2. QED BY <1>1, FS_CardinalityType DEF RequestsUsed, Requested

LEMMA MadeCount == IsFiniteSet(Made) /\ Cardinality(Made) \in Nat
<1>1. IsFiniteSet(Made)
    BY ProposalsFinite, FS_Subset DEF Made
<1>2. QED BY <1>1, FS_CardinalityType

-----------------------------------------------------------------------------
(* Steps that make no rerun *)

LEMMA InitShape == Init => Shape
<1> SUFFICES ASSUME Init PROVE Shape
    OBVIOUS
<1>1. NewRun \in RunPayload
    BY DEF NewRun, RunPayload, HandoffStatus
<1>2. TypeOK
    <2>1. /\ attempt \in [Proposals -> AttemptPayload]
          /\ snap \in [Workers -> RunPayload] /\ job \in [Workers -> AttemptPayload]
        BY <1>1, AttemptPayloads DEF Init
    <2>2. 1 \in 1..(Len(Diagnostics) + 1) /\ 0 \in 0..(MaxInterrupts + 1)
        BY RecoveryAssumption
    <2>3. pc \in [Workers -> Labels] /\ pos \in [Workers -> 1..(Len(Diagnostics) + 1)]
        BY <2>2 DEF Init, Labels
    <2>4. verdict \in RouteDecision
        BY RecoveryAssumption DEF Init
    <2>5. calls \in [Proposals -> Nat] /\ interrupts \in 0..(MaxInterrupts + 1)
        BY <2>2 DEF Init
    <2>6. QED
        BY <1>1, <2>1, <2>3, <2>4, <2>5 DEF Init, TypeOK
<1>3. Books
    <2>1. \A d \in Proposals : Recorded(d)
        BY DEF Init, Recorded, NoAttempt
    <2>2. run.review = "NONE" /\ timeline = {}
        BY DEF Init, NewRun
    <2>3. QED BY <2>1, <2>2 DEF Books
<1>4. Tasks
    BY DEF Init, Tasks, Placed, Standing, Single, Owns, Working, NewRun
<1>5. QED BY <1>2, <1>3, <1>4 DEF Shape

\* Only task p moves.
Moved(p) ==
    /\ pc' \in [Workers -> Labels] /\ pos' \in [Workers -> 1..(Len(Diagnostics) + 1)]
    /\ job' \in [Workers -> AttemptPayload] /\ snap' \in [Workers -> RunPayload]
    /\ \A q \in Workers \ {p} :
          pc'[q] = pc[q] /\ pos'[q] = pos[q] /\ job'[q] = job[q] /\ snap'[q] = snap[q]

LEMMA Placing ==
    ASSUME Tasks, NEW p \in Workers, Moved(p), verdict' = verdict, Placed(p)'
    PROVE  \A q \in Workers : Placed(q)'
<1>1. \A q \in Workers \ {p} : Placed(q) => Placed(q)'
    BY DEF Placed, Moved, AtDiagnostic
<1>2. QED BY <1>1 DEF Tasks

\* Nothing is recorded, and the task is not about to change an attempt that is under way.
LEMMA Quiet ==
    ASSUME Tasks, NEW p \in Workers, Moved(p), UNCHANGED <<attempt, calls, verdict>>,
           Placed(p)', Standing(p)', ~Owns(p)'
    PROVE  Tasks'
<1>1. \A q \in Workers \ {p} : (Owns(q)' <=> Owns(q)) /\ (Standing(q) => Standing(q)')
    BY DEF Moved, Owns, Mine, Standing, AtDiagnostic, Saveable, Usage
<1>2. Single'
    BY <1>1 DEF Tasks, Single, Moved
<1>3. QED BY <1>1, <1>2, Placing DEF Tasks

\* An attempt and its calls change; a task at another proposal does not notice.
Touches(p) ==
    LET d == AtDiagnostic(p) IN
    /\ DOMAIN attempt' = Proposals /\ DOMAIN calls' = Proposals
    /\ \A e \in Proposals \ {d} : attempt'[e] = attempt[e] /\ calls'[e] = calls[e]
    /\ verdict' = verdict

LEMMA Touching ==
    ASSUME Shape, NEW p \in Workers, pos[p] <= Len(Diagnostics), Moved(p), Touches(p),
           Placed(p)', Standing(p)',
           \A q \in Workers \ {p} :
              pos[q] <= Len(Diagnostics) /\ AtDiagnostic(q) = AtDiagnostic(p) =>
                 Standing(q)' /\ ~Owns(q)',
           Owns(p)' => pos'[p] = pos[p]
    PROVE  Tasks'
<1>1. ASSUME NEW q \in Workers \ {p}, pos[q] > Len(Diagnostics)
      PROVE  Standing(q)' /\ ~Owns(q)'
    <2>1. pc'[q] \notin Working
        BY <1>1 DEF Moved, Shape, Tasks, Placed, TypeOK
    <2>2. QED BY <2>1 DEF Standing, Owns, Working
<1>2. ASSUME NEW q \in Workers \ {p}, pos[q] <= Len(Diagnostics),
             AtDiagnostic(q) # AtDiagnostic(p)
      PROVE  Standing(q)' /\ (Owns(q)' <=> Owns(q))
    <2>1. AtDiagnostic(q)' = AtDiagnostic(q) /\ AtDiagnostic(q) \in Proposals
        BY <1>2, Located DEF AtDiagnostic, Moved, Shape
    <2>2. /\ attempt'[AtDiagnostic(q)] = attempt[AtDiagnostic(q)]
          /\ calls'[AtDiagnostic(q)] = calls[AtDiagnostic(q)]
          /\ pc'[q] = pc[q] /\ job'[q] = job[q]
        BY <1>2, <2>1 DEF Touches, Moved
    <2>3. Standing(q)
        BY DEF Shape, Tasks
    <2>4. Standing(q)'
        BY <2>1, <2>2, <2>3 DEF Standing, Saveable, Usage
    <2>5. QED BY <2>1, <2>2, <2>4 DEF Owns, Mine
<1>3. \A q \in Workers : pos[q] \in Nat
    BY DEF Shape, TypeOK
<1>4. Len(Diagnostics) \in Nat
    BY RecoveryAssumption
<1>5. \A q \in Workers \ {p} : Standing(q)'
    BY <1>1, <1>2, <1>3, <1>4
<1>6. \A q \in Workers \ {p} : Owns(q)' => Owns(q) /\ AtDiagnostic(q) # AtDiagnostic(p)
    BY <1>1, <1>2, <1>3, <1>4
<1>7. \A q \in Workers \ {p} : pos'[q] = pos[q]
    BY DEF Moved
<1>8. ASSUME NEW q \in Workers, NEW r \in Workers, Owns(q)', Owns(r)', pos'[q] = pos'[r]
      PROVE  q = r
    <2>1. ASSUME NEW t \in Workers \ {p}, Owns(t)', Owns(p)' PROVE pos'[t] # pos'[p]
        <3>1. AtDiagnostic(t) # AtDiagnostic(p) /\ pos'[t] = pos[t] /\ pos'[p] = pos[p]
            BY <1>6, <1>7, <2>1
        <3>2. QED BY <3>1 DEF AtDiagnostic
    <2>2. CASE q # p /\ r # p
        BY <1>6, <1>7, <1>8, <2>2 DEF Shape, Tasks, Single
    <2>3. QED BY <1>8, <2>1, <2>2
<1>9. Single'
    BY <1>8 DEF Single
<1>10. \A q \in Workers : Placed(q)'
    BY Placing DEF Shape, Touches
<1>11. QED BY <1>5, <1>9, <1>10 DEF Tasks

LEMMA BooksKept ==
    ASSUME Shape, NEW d \in Proposals, attempt[d].status # "COMPLETED", Recorded(d)',
           \A e \in Proposals \ {d} : attempt'[e] = attempt[e] /\ calls'[e] = calls[e],
           UNCHANGED <<run, timeline, verdict>>
    PROVE  Books'
<1>1. \A e \in Proposals \ {d} : Recorded(e) => Recorded(e)'
    BY DEF Recorded
<1>2. d \notin timeline
    BY DEF Shape, Books
<1>3. QED BY <1>1, <1>2 DEF Shape, Books

\* Task p goes on at l with the copy r of the run.
Turn(p, l, r) ==
    /\ pc' = [pc EXCEPT ![p] = l] /\ snap' = [snap EXCEPT ![p] = r]
    /\ l \in Labels \ Working /\ r \in RunPayload /\ r.review \in {"NONE", verdict}
    /\ l = "swap" => r.claims < MaxClaims
    /\ l = "pick" => verdict = "REJECTED"

Handing(p) ==
    \/ Start(p) \/ Open(p) \/ Finalize(p) \/ SaveVerdict(p) \/ SaveAggregate(p) \/ Ready(p)
    \/ ReadHandoff(p) \/ SwapHandoff(p) \/ Current(p) \/ Review(p) \/ SaveReview(p)
    \/ SaveFailure(p) \/ RunTimeline(p) \/ Recover(p)

\* What the tail of _finalize_run and the handoff do: the attempts are left alone.
LEMMA HandingStep ==
    ASSUME Shape, NEW p \in Workers, Handing(p)
    PROVE  /\ UNCHANGED <<attempt, pos, job, verdict, interrupts, calls>>
           /\ run' \in RunPayload /\ run'.review \in {"NONE", verdict}
           /\ aggregate' \in BOOLEAN /\ overlapped' \in BOOLEAN /\ fresh' \subseteq Workers
           /\ timeline' = timeline
                \/ (verdict = "APPROVED" /\ timeline' = timeline \cup {"root"})
           /\ \E l \in Labels, r \in RunPayload : Turn(p, l, r)
<1> USE RunPayloads
<1>0. /\ run \in RunPayload /\ run.review \in {"NONE", verdict} /\ snap[p] \in RunPayload
      /\ snap[p].review \in {"NONE", verdict} /\ verdict \in RouteDecision
      /\ snap \in [Workers -> RunPayload] /\ [snap EXCEPT ![p] = snap[p]] = snap
      /\ fresh \subseteq Workers /\ aggregate \in BOOLEAN /\ overlapped \in BOOLEAN
    BY DEF Shape, TypeOK, Books, Tasks, Placed
<1>a. /\ \A r \in RunPayload : Opened(r).review = r.review /\ Failed(r).review = r.review
                               /\ Claimed(r).review = r.review /\ Reviewed(r).review = verdict
                               /\ [r EXCEPT !.status = "SUCCEEDED"].review = r.review
    BY DEF RunPayload, Opened, Failed, Claimed, Reviewed
<1>b. Labels \ Working = {"idle", "open", "finalize", "verdict", "aggregate", "ready", "claim",
                          "swap", "current", "review", "saveReview", "saveFailure", "timeline",
                          "recover", "pick", "bundles"}
    BY DEF Labels, Working
<1>1. CASE Start(p)
    BY <1>0, <1>b, <1>1 DEF Start, Read, Goto, Turn, Recovering, Elsewhere
<1>2. CASE Open(p)
    BY <1>0, <1>a, <1>b, <1>2 DEF Open, SaveSnap, SaveRun, Goto, Turn, Recovering, Elsewhere
<1>3. CASE Finalize(p)
    BY <1>0, <1>b, <1>3 DEF Finalize, Read, Goto, Turn, Recovering, Elsewhere
<1>4. CASE SaveVerdict(p)
    BY <1>0, <1>a, <1>b, <1>4 DEF SaveVerdict, SaveSnap, SaveRun, Goto, Turn, Recovering, Elsewhere
<1>5. CASE SaveAggregate(p)
    BY <1>0, <1>b, <1>5 DEF SaveAggregate, Goto, Turn, Recovering, Elsewhere
<1>6. CASE Ready(p)
    BY <1>0, <1>b, <1>6 DEF Ready, Read, Goto, Turn, Recovering, Elsewhere
<1>7. CASE ReadHandoff(p)
    <2>1. CASE Claimable(run)
        BY <1>0, <1>b, <1>7, <2>1 DEF ReadHandoff, Claimable, Read, Goto, Turn, Recovering, Elsewhere
    <2>2. CASE ~Claimable(run)
        BY <1>0, <1>b, <1>7, <2>2 DEF ReadHandoff, Goto, Turn, Recovering, Elsewhere
    <2>3. QED BY <2>1, <2>2
<1>8. CASE SwapHandoff(p)
    <2>1. CASE p \in fresh
        <3>1. snap[p].claims < MaxClaims
            BY <1>8 DEF SwapHandoff, At, Shape, Tasks, Placed
        <3>2. /\ Claimed(snap[p]) \in RunPayload
              /\ Claimed(snap[p]).review = snap[p].review
              /\ Claimed(snap[p]).review \in {"NONE", verdict}
            BY <1>0, <1>a, <3>1
        <3>3. Turn(p, "review", Claimed(snap[p]))
            BY <1>b, <1>8, <2>1, <3>2 DEF SwapHandoff, SaveSnap, Goto, Turn
        <3>4. "review" \in Labels
            BY <1>b
        <3>5. QED
            BY <1>0, <1>8, <2>1, <3>2, <3>3, <3>4
               DEF SwapHandoff, SaveSnap, SaveRun, Recovering, Elsewhere
    <2>2. CASE p \notin fresh
        BY <1>0, <1>b, <1>8, <2>2 DEF SwapHandoff, Goto, Turn, Recovering, Elsewhere
    <2>3. QED BY <2>1, <2>2
<1>9. CASE Current(p)
    BY <1>0, <1>b, <1>9 DEF Current, Read, Goto, Turn, Recovering, Elsewhere
<1>10. CASE Review(p)
    BY <1>0, <1>b, <1>10 DEF Review, Read, Goto, Turn, Recovering, Elsewhere
<1>11. CASE SaveReview(p)
    BY <1>0, <1>a, <1>b, <1>11 DEF SaveReview, SaveSnap, SaveRun, Goto, Turn, Recovering, Elsewhere
<1>12. CASE SaveFailure(p)
    BY <1>0, <1>a, <1>b, <1>12 DEF SaveFailure, SaveSnap, SaveRun, Goto, Turn, Recovering, Elsewhere
<1>13. CASE RunTimeline(p)
    <2>1. TimelineReady(snap[p]) => verdict = "APPROVED"
        BY <1>0 DEF TimelineReady
    <2>2. Turn(p, "recover", snap[p])
        BY <1>0, <1>b, <1>13 DEF RunTimeline, Goto, Turn
    <2>3. "recover" \in Labels
        BY <1>b
    <2>4. timeline' = timeline \/ (verdict = "APPROVED" /\ timeline' = timeline \cup {"root"})
        BY <1>13, <2>1 DEF RunTimeline
    <2>5. QED
        BY <1>0, <1>13, <2>2, <2>3, <2>4 DEF RunTimeline, Recovering, Elsewhere
<1>14. CASE Recover(p)
    <2>1. NewRun \in RunPayload /\ NewRun.review = "NONE"
        BY DEF NewRun, RunPayload, HandoffStatus
    <2>2. \E l \in {"pick", "bundles"} : Turn(p, l, NewRun)
        <3>1. CASE run.status = "SUCCEEDED" /\ run.review = "REJECTED"
            <4>1. verdict = "REJECTED"
                BY <1>0, <3>1
            <4>2. Turn(p, "pick", NewRun)
                BY <1>b, <1>14, <2>1, <3>1, <4>1 DEF Recover, Goto, Turn
            <4>3. QED BY <4>2
        <3>2. CASE ~(run.status = "SUCCEEDED" /\ run.review = "REJECTED")
            <4>1. Turn(p, "bundles", NewRun)
                BY <1>b, <1>14, <2>1, <3>2 DEF Recover, Goto, Turn
            <4>2. QED BY <4>1
        <3>3. QED BY <3>1, <3>2
    <2>3. {"pick", "bundles"} \subseteq Labels
        BY <1>b
    <2>4. QED
        BY <1>0, <1>14, <2>1, <2>2, <2>3 DEF Recover, Recovering, Elsewhere
<1>15. QED
    BY <1>1, <1>2, <1>3, <1>4, <1>5, <1>6, <1>7, <1>8, <1>9, <1>10, <1>11, <1>12, <1>13, <1>14
       DEF Handing

LEMMA HandingShape ==
    ASSUME Shape, NEW p \in Workers, Handing(p)
    PROVE  Shape'
<1>1. PICK l \in Labels, r \in RunPayload : Turn(p, l, r)
    BY HandingStep
<1>2. UNCHANGED <<attempt, pos, job, verdict, interrupts, calls>>
    BY HandingStep
<1>3. Moved(p) /\ pc'[p] = l /\ snap'[p] = r
    BY <1>1, <1>2 DEF Turn, Moved, Shape, TypeOK
<1>4. TypeOK'
    <2>1. /\ run' \in RunPayload /\ aggregate' \in BOOLEAN /\ overlapped' \in BOOLEAN
          /\ fresh' \subseteq Workers /\ timeline' \subseteq Proposals \cup {"root"}
        BY HandingStep DEF Shape, TypeOK
    <2>2. QED BY <1>2, <1>3, <2>1 DEF Moved, Shape, TypeOK
<1>5. Books'
    <2>1. \A d \in Proposals : Recorded(d)'
        BY <1>2 DEF Shape, Books, Recorded
    <2>2. timeline' \cap Proposals = timeline \cap Proposals
        BY HandingStep, RecoveryAssumption
    <2>3. run'.review \in {"NONE", verdict} /\ ("root" \in timeline' => verdict = "APPROVED")
        BY HandingStep DEF Shape, Books
    <2>4. QED BY <1>2, <2>1, <2>2, <2>3 DEF Shape, Books
<1>6. Tasks'
    <2>1. Placed(p)' /\ pc'[p] \notin Working
        BY <1>1, <1>2, <1>3 DEF Turn, Placed, Working
    <2>2. Standing(p)' /\ ~Owns(p)'
        BY <2>1 DEF Standing, Owns, Working
    <2>3. QED BY <1>2, <1>3, <2>1, <2>2, Quiet DEF Shape
<1>7. QED BY <1>4, <1>5, <1>6 DEF Shape

-----------------------------------------------------------------------------
(* How a task moves on *)

LEMMA Holding ==
    ASSUME Shape, NEW p \in Workers, NEW a \in AttemptPayload, NEW l \in Labels, Hold(p, a, l),
           UNCHANGED snap
    PROVE  /\ Moved(p) /\ pc'[p] = l /\ job'[p] = a /\ pos' = pos
           /\ AtDiagnostic(p)' = AtDiagnostic(p)
BY DEF Shape, TypeOK, Hold, Goto, Moved, AtDiagnostic

LEMMA Advancing ==
    ASSUME Shape, NEW p \in Workers, Advance(p), UNCHANGED snap, pos[p] <= Len(Diagnostics)
    PROVE  Moved(p) /\ pc'[p] = "pick"
<1>1. pos[p] + 1 \in 1..(Len(Diagnostics) + 1) /\ "pick" \in Labels
    BY RecoveryAssumption DEF Shape, TypeOK, Labels
<1>2. NoAttempt \in AttemptPayload
    BY AttemptPayloads
<1>3. QED BY <1>1, <1>2 DEF Shape, TypeOK, Advance, Goto, Moved

LEMMA Stopping ==
    ASSUME Shape, NEW p \in Workers, Stop(p)
    PROVE  Moved(p) /\ pc'[p] = "idle" /\ snap'[p].review = "NONE"
<1>1. 1 \in 1..(Len(Diagnostics) + 1) /\ "idle" \in Labels
    BY RecoveryAssumption DEF Labels
<1>2. NoAttempt \in AttemptPayload /\ NewRun \in RunPayload /\ NewRun.review = "NONE"
    BY AttemptPayloads DEF NewRun, RunPayload, HandoffStatus
<1>3. QED BY <1>1, <1>2 DEF Shape, TypeOK, Stop, Goto, Moved

\* A task that leaves its proposal, or the run, leaves nothing behind.
LEMMA Elsewhither ==
    ASSUME Shape, NEW p \in Workers, Moved(p), verdict' = verdict,
           \/ pc'[p] = "idle" /\ snap'[p].review = "NONE"
           \/ /\ pc'[p] = "bundles" \/ (pc'[p] = "pick" /\ verdict = "REJECTED")
              /\ snap' = snap
    PROVE  Placed(p)' /\ Standing(p)' /\ ~Owns(p)'
<1>1. pc'[p] \notin Working
    BY DEF Working
<1>2. Standing(p)' /\ ~Owns(p)'
    BY <1>1 DEF Standing, Owns, Working
<1>3. Placed(p)'
    BY <1>1 DEF Placed, Shape, Tasks
<1>4. QED BY <1>2, <1>3

\* A step that records nothing and ends the task, or leads it to the next proposal.
LEMMA QuietShape ==
    ASSUME Shape, NEW p \in Workers, Moved(p), UNCHANGED <<dbVars, calls, verdict, fresh>>,
           interrupts' \in 0..(MaxInterrupts + 1), overlapped' = overlapped,
           Placed(p)', Standing(p)', ~Owns(p)'
    PROVE  Shape'
<1>1. TypeOK'
    BY DEF Shape, TypeOK, Moved, dbVars
<1>2. Books'
    BY DEF Shape, Books, Recorded, dbVars
<1>3. Tasks'
    BY Quiet DEF Shape, dbVars
<1>4. QED BY <1>1, <1>2, <1>3 DEF Shape

-----------------------------------------------------------------------------
(* The steps of Stage B *)

LEMMA PickShape ==
    ASSUME Shape, NEW p \in Workers, Pick(p)
    PROVE  Shape'
<1>0. pc[p] = "pick" /\ verdict = "REJECTED"
    BY DEF Pick, At, Shape, Tasks, Placed
<1>1. /\ UNCHANGED <<dbVars, snap, calls, verdict, fresh, interrupts>> /\ overlapped' = overlapped
      /\ interrupts' \in 0..(MaxInterrupts + 1)
    BY DEF Pick, Elsewhere, Shape, TypeOK
<1>2. CASE pos[p] > Len(Diagnostics)
    <2>1. Moved(p) /\ pc'[p] = "bundles"
        BY <1>1, <1>2 DEF Pick, Goto, Moved, Shape, TypeOK, Labels
    <2>2. QED BY <1>1, <2>1, Elsewhither, QuietShape
<1>3. CASE pos[p] <= Len(Diagnostics) /\ WindowOf[AtDiagnostic(p)] = NoWindow
    <2>1. Advance(p)
        BY <1>3, RecoveryAssumption DEF Pick, Shape, TypeOK
    <2>2. QED BY <1>0, <1>1, <1>3, <2>1, Advancing, Elsewhither, QuietShape
<1>4. CASE pos[p] <= Len(Diagnostics) /\ WindowOf[AtDiagnostic(p)] # NoWindow
    <2>1. PICK l \in {"derive", "reserve"} :
              /\ Hold(p, NoAttempt, l)
              /\ l = "reserve" => attempt[AtDiagnostic(p)].status # "ABSENT"
        BY <1>4, RecoveryAssumption DEF Pick, Shape, TypeOK
    <2>2. l \in Labels /\ NoAttempt \in AttemptPayload
        BY AttemptPayloads DEF Labels
    <2>3. /\ Moved(p) /\ pc'[p] = l /\ job'[p] = NoAttempt /\ pos' = pos
          /\ AtDiagnostic(p)' = AtDiagnostic(p)
        BY <1>1, <2>1, <2>2, Holding
    <2>4. Placed(p)'
        BY <1>0, <1>1, <1>4, <2>3 DEF Placed, Shape, Tasks
    <2>5. Standing(p)' /\ ~Owns(p)'
        BY <1>1, <2>1, <2>3 DEF Standing, Owns, dbVars
    <2>6. QED BY <1>1, <2>3, <2>4, <2>5, QuietShape
<1>5. pos[p] \in Nat /\ Len(Diagnostics) \in Nat
    BY RecoveryAssumption DEF Shape, TypeOK
<1>6. QED BY <1>2, <1>3, <1>4, <1>5

LEMMA LimitLeft ==
    ASSUME NEW d, ~Exhausted(d)
    PROVE  CallLimit \in 1..2
BY RequestsCount, RecoveryAssumption DEF Exhausted, CallLimit

LEMMA DeriveShape ==
    ASSUME Shape, NEW p \in Workers, Derive(p)
    PROVE  Shape'
<1>0. /\ pc[p] = "derive" /\ verdict = "REJECTED" /\ pos[p] <= Len(Diagnostics)
      /\ WindowOf[AtDiagnostic(p)] # NoWindow
    BY DEF Derive, At, Shape, Tasks, Placed, Working
<1>1. /\ UNCHANGED <<dbVars, snap, calls, verdict, fresh, interrupts>> /\ overlapped' = overlapped
      /\ interrupts' \in 0..(MaxInterrupts + 1)
    BY DEF Derive, Elsewhere, Shape, TypeOK
<1>2. CASE Exhausted(AtDiagnostic(p))
    <2>1. Advance(p)
        BY <1>2 DEF Derive
    <2>2. QED BY <1>0, <1>1, <2>1, Advancing, Elsewhither, QuietShape
<1>3. CASE ~Exhausted(AtDiagnostic(p))
    <2>1. Hold(p, ReservedAttempt(CallLimit), "reserve")
        BY <1>3 DEF Derive
    <2>2. CallLimit \in 1..2 /\ ReservedAttempt(CallLimit) \in AttemptPayload
        <3>1. CallLimit \in 1..2
            BY <1>3, LimitLeft
        <3>2. QED BY <3>1, AttemptPayloads
    <2>3. "reserve" \in Labels
        BY DEF Labels
    <2>4. /\ Moved(p) /\ pc'[p] = "reserve" /\ job'[p] = ReservedAttempt(CallLimit) /\ pos' = pos
          /\ AtDiagnostic(p)' = AtDiagnostic(p)
        BY <1>1, <2>1, <2>2, <2>3, Holding
    <2>5. Placed(p)'
        BY <1>0, <1>1, <2>4 DEF Placed, Shape, Tasks
    <2>6. ReservedAttempt(CallLimit).limit = CallLimit
        BY DEF ReservedAttempt, NoAttempt
    <2>7. Standing(p)' /\ ~Owns(p)'
        BY <2>2, <2>4, <2>6 DEF Standing, Owns
    <2>8. QED BY <1>1, <2>4, <2>5, <2>7, QuietShape
<1>4. QED BY <1>2, <1>3

LEMMA JudgeShape ==
    ASSUME Shape, NEW p \in Workers, Judge(p)
    PROVE  Shape'
<1>0. /\ pc[p] = "judge" /\ verdict = "REJECTED" /\ pos[p] <= Len(Diagnostics)
      /\ WindowOf[AtDiagnostic(p)] # NoWindow /\ Standing(p) /\ job[p] \in AttemptPayload
    BY DEF Judge, At, Shape, Tasks, Placed, Working, TypeOK
<1>1. /\ UNCHANGED <<dbVars, snap, calls, verdict, fresh, interrupts>> /\ overlapped' = overlapped
      /\ interrupts' \in 0..(MaxInterrupts + 1)
    BY DEF Judge, Elsewhere, Shape, TypeOK
<1> DEFINE b == Completed(job[p], job[p].produced)
<1>2. b \in AttemptPayload /\ "save" \in Labels
    BY <1>0, AttemptPayloads DEF AttemptPayload, Labels
<1>3. /\ Moved(p) /\ pc'[p] = "save" /\ job'[p] = b /\ pos' = pos
      /\ AtDiagnostic(p)' = AtDiagnostic(p)
    BY <1>1, <1>2, Holding DEF Judge
<1>4. Placed(p)'
    BY <1>0, <1>1, <1>3 DEF Placed, Shape, Tasks
<1>5. b.status = "COMPLETED" /\ b.outcome = job[p].produced
    BY <1>0 DEF Completed, AttemptPayload
<1>6. Saveable(AtDiagnostic(p), b)
    BY <1>0, <1>5 DEF Standing, Saveable
<1>7. Standing(p)' /\ ~Owns(p)'
    BY <1>0, <1>1, <1>3, <1>6 DEF Standing, Saveable, Usage, Owns, Mine, dbVars
<1>8. QED BY <1>1, <1>3, <1>4, <1>7, QuietShape

LEMMA BundlesShape ==
    ASSUME Shape, NEW p \in Workers, Bundles(p)
    PROVE  Shape'
<1>1. /\ UNCHANGED <<run, aggregate, attempt, fresh, overlapped, verdict, interrupts, calls>>
      /\ Moved(p) /\ pc'[p] = "idle" /\ snap'[p].review = "NONE"
    BY Stopping DEF Bundles, Elsewhere
<1>2. \A d \in timeline' : d \in timeline \/ (d \in Proposals /\ attempt[d].outcome = "APPROVED")
    BY DEF Bundles
<1>3. TypeOK'
    BY <1>1, <1>2 DEF Shape, TypeOK, Moved
<1>4. Books'
    <2>1. \A d \in Proposals : attempt[d].outcome = "APPROVED" =>
              /\ attempt[d].status = "COMPLETED" /\ attempt[d].produced = "APPROVED"
              /\ verdict = "REJECTED"
        BY DEF Shape, Books, Recorded
    <2>2. \A d \in Proposals : Recorded(d)'
        BY <1>1 DEF Shape, Books, Recorded
    <2>3. "root" \in timeline' => "root" \in timeline
        BY <1>2, RecoveryAssumption
    <2>4. QED BY <1>1, <1>2, <2>1, <2>2, <2>3 DEF Shape, Books
<1>5. Tasks'
    BY <1>1, Elsewhither, Quiet DEF Shape
<1>6. QED BY <1>3, <1>4, <1>5 DEF Shape

LEMMA InterruptShape ==
    ASSUME Shape, NEW p \in Workers, Interrupt(p)
    PROVE  Shape'
<1>1. /\ UNCHANGED <<dbVars, calls, verdict, fresh>> /\ overlapped' = overlapped
      /\ interrupts' \in 0..(MaxInterrupts + 1)
    BY RecoveryAssumption DEF Interrupt, Shape, TypeOK
<1>2. QED BY <1>1, Stopping, Elsewhither, QuietShape DEF Interrupt

LEMMA TimePassesShape == Shape /\ TimePasses => Shape'
<1> SUFFICES ASSUME Shape, TimePasses PROVE Shape'
    OBVIOUS
<1>1. \A r \in RunPayload : /\ Aged(r) \in RunPayload /\ Aged(r).review = r.review
                            /\ Aged(r).claims = r.claims
    BY RunPayloads DEF Aged, RunPayload
<1>2. TypeOK'
    BY <1>1 DEF TimePasses, Shape, TypeOK
<1>3. Books'
    BY <1>1 DEF TimePasses, Shape, TypeOK, Books, Recorded
<1>4. \A p \in Workers : Placed(p) => Placed(p)'
    BY <1>1 DEF TimePasses, Placed, AtDiagnostic, Shape, TypeOK
<1>5. Tasks'
    BY <1>4 DEF TimePasses, Shape, Tasks, Single, Owns, Mine, Standing, AtDiagnostic, Saveable, Usage
<1>6. QED BY <1>2, <1>3, <1>5 DEF Shape

\* Where a task at a proposal stands, while the attempt of that proposal is being made.
LEMMA AtTheSame ==
    ASSUME Shape, NEW p \in Workers, NEW q \in Workers \ {p}, pos[p] <= Len(Diagnostics),
           pos[q] <= Len(Diagnostics), AtDiagnostic(q) = AtDiagnostic(p)
    PROVE  /\ AtDiagnostic(p) \in Proposals /\ pos[q] = pos[p]
           /\ Standing(q) /\ (Owns(p) => ~Owns(q))
<1>1. AtDiagnostic(p) \in Proposals /\ pos[q] = pos[p]
    BY Located, Apart DEF Shape
<1>2. Owns(p) => ~Owns(q)
    BY <1>1 DEF Shape, Tasks, Single
<1>3. QED BY <1>1, <1>2 DEF Shape, Tasks

LEMMA ReserveShape ==
    ASSUME Shape, NEW p \in Workers, Reserve(p)
    PROVE  Shape'
<1>a. /\ pc[p] = "reserve" /\ verdict = "REJECTED" /\ pos[p] <= Len(Diagnostics)
      /\ WindowOf[AtDiagnostic(p)] # NoWindow /\ Standing(p) /\ job[p] \in AttemptPayload
    BY DEF Reserve, At, Shape, Tasks, Placed, Working, TypeOK
<1>b. PICK d \in Proposals : d = AtDiagnostic(p)
    BY <1>a, Located DEF Shape
<1> DEFINE a == attempt[d]
<1>0. /\ pc[p] = "reserve" /\ verdict = "REJECTED" /\ pos[p] <= Len(Diagnostics)
      /\ WindowOf[d] # NoWindow /\ Standing(p) /\ job[p] \in AttemptPayload
      /\ d \in Proposals /\ d = AtDiagnostic(p) /\ a \in AttemptPayload
    BY <1>a, <1>b DEF Shape, TypeOK
<1>1. /\ UNCHANGED <<run, aggregate, timeline, snap, calls, verdict, fresh, interrupts>>
      /\ overlapped' = overlapped /\ interrupts' \in 0..(MaxInterrupts + 1)
    BY DEF Reserve, Elsewhere, Shape, TypeOK
<1>2. {"save", "judge"} \subseteq Labels
    BY DEF Labels
<1>3. CASE a.status = "ABSENT"
    <2>1. attempt' = [attempt EXCEPT ![d] = job[p]] /\ Hold(p, RunningAttempt(job[p]), "save")
        BY <1>0, <1>3 DEF Reserve, Reservable
    <2>2. job[p] = ReservedAttempt(job[p].limit) /\ job[p].limit \in 1..2
        BY <1>0, <1>3 DEF Standing
    <2>3. job[p].status = "RESERVED" /\ job[p].requests = 0 /\ ~job[p].heavy
          /\ job[p].outcome = "NONE"
        BY <2>2 DEF ReservedAttempt, NoAttempt
    <2>4. RunningAttempt(job[p]) \in AttemptPayload
        BY <1>0, AttemptPayloads
    <2>5. /\ Moved(p) /\ pc'[p] = "save" /\ job'[p] = RunningAttempt(job[p]) /\ pos' = pos
          /\ AtDiagnostic(p)' = d
        BY <1>0, <1>1, <1>2, <2>1, <2>4, Holding
    <2>6. attempt'[d] = job[p] /\ attempt' \in [Proposals -> AttemptPayload] /\ Touches(p)
        BY <1>0, <1>1, <2>1 DEF Shape, TypeOK, Touches
    <2>7. TypeOK'
        BY <1>1, <2>5, <2>6 DEF Shape, TypeOK, Moved
    <2>8. Recorded(d)'
        <3>1. calls[d] = 0
            BY <1>0, <1>3 DEF Shape, Books, Recorded
        <3>2. QED BY <1>0, <1>1, <2>2, <2>3, <2>6, <3>1 DEF Recorded
    <2>9. Books'
        BY <1>0, <1>1, <1>3, <2>6, <2>8, BooksKept DEF Touches
    <2>10. Placed(p)'
        BY <1>0, <1>1, <2>5 DEF Placed, Shape, Tasks
    <2>11. Standing(p)'
        <3>1. RunningAttempt(job[p]).status = "RUNNING"
            BY <1>0 DEF RunningAttempt, AttemptPayload
        <3>2. QED BY <2>3, <2>5, <2>6, <3>1 DEF Standing, Saveable
    <2>12. ASSUME NEW q \in Workers \ {p}, pos[q] <= Len(Diagnostics), AtDiagnostic(q) = d
           PROVE  Standing(q)' /\ ~Owns(q)'
        <3>1. Standing(q)
            BY DEF Shape, Tasks
        <3>2. pc[q] \notin {"save", "call", "repair", "judge"}
            BY <1>0, <1>3, <2>12, <3>1 DEF Standing, Saveable, Usage
        <3>3. pc'[q] = pc[q] /\ AtDiagnostic(q)' = d
            BY <2>5, <2>12 DEF Moved, AtDiagnostic
        <3>4. QED BY <2>3, <2>6, <3>2, <3>3 DEF Standing, Owns
    <2>13. Tasks'
        BY <1>0, <2>5, <2>6, <2>10, <2>11, <2>12, Touching
    <2>14. QED BY <2>7, <2>9, <2>13 DEF Shape
<1>4. CASE a.status # "ABSENT"
    <2>1. attempt' = attempt
        BY <1>0, <1>4 DEF Reserve, Reservable
    <2>2. UNCHANGED <<dbVars, calls, verdict, fresh>>
        BY <1>1, <2>1 DEF dbVars
    <2>3. CASE ~Resumes(a)
        <3>1. Advance(p)
            BY <1>0, <1>4, <2>3 DEF Reserve, Reservable
        <3>2. QED BY <1>0, <1>1, <2>2, <3>1, Advancing, Elsewhither, QuietShape
    <2>4. CASE a.status = "PROVIDER_SUCCEEDED"
        <3>1. Hold(p, Reviewing(a), "save")
            BY <1>0, <1>4, <2>4 DEF Reserve, Reservable, Resumes
        <3>2. Reviewing(a) \in AttemptPayload
            BY <1>0, AttemptPayloads
        <3>3. /\ Moved(p) /\ pc'[p] = "save" /\ job'[p] = Reviewing(a) /\ pos' = pos
              /\ AtDiagnostic(p)' = d
            BY <1>0, <1>1, <1>2, <3>1, <3>2, Holding
        <3>4. Placed(p)'
            BY <1>0, <1>1, <3>3 DEF Placed, Shape, Tasks
        <3>5. Reviewing(a).status = "REVIEWING"
            BY <1>0 DEF Reviewing, AttemptPayload
        <3>6. Standing(p)' /\ ~Owns(p)'
            BY <2>1, <2>4, <3>3, <3>5 DEF Standing, Saveable, Owns, Mine
        <3>7. QED BY <1>1, <2>2, <3>3, <3>4, <3>6, QuietShape
    <2>5. CASE a.status = "REVIEWING" /\ Resumes(a)
        <3>1. Hold(p, a, "judge")
            BY <1>0, <1>4, <2>5 DEF Reserve, Reservable
        <3>2. /\ Moved(p) /\ pc'[p] = "judge" /\ job'[p] = a /\ pos' = pos
              /\ AtDiagnostic(p)' = d
            BY <1>0, <1>1, <1>2, <3>1, Holding
        <3>3. Placed(p)'
            BY <1>0, <1>1, <3>2 DEF Placed, Shape, Tasks
        <3>4. Standing(p)' /\ ~Owns(p)'
            BY <2>1, <2>5, <3>2 DEF Standing, Owns
        <3>5. QED BY <1>1, <2>2, <3>2, <3>3, <3>4, QuietShape
    <2>6. QED BY <2>3, <2>4, <2>5 DEF Resumes
<1>5. QED BY <1>3, <1>4

\* The calls of a rerun, after which the task goes on, has its answer, or is refused.
LEMMA CalledShape ==
    ASSUME Shape, NEW p \in Workers, pc[p] \in {"call", "repair"}, Called(p), Moved(p),
           UNCHANGED <<dbVars, verdict, fresh>>, overlapped' = overlapped,
           interrupts' \in 0..(MaxInterrupts + 1),
           Placed(p)', Standing(p)', Owns(p)' => pos'[p] = pos[p]
    PROVE  Shape'
<1>a. pos[p] <= Len(Diagnostics) /\ Standing(p)
    BY DEF Shape, Tasks, Placed, Working
<1>b. PICK d \in Proposals : d = AtDiagnostic(p)
    BY <1>a, Located DEF Shape
<1> DEFINE a == attempt[d]
<1>0. /\ pos[p] <= Len(Diagnostics) /\ Standing(p) /\ d = AtDiagnostic(p)
      /\ a \in AttemptPayload /\ calls \in [Proposals -> Nat]
    BY <1>a, <1>b DEF Shape, TypeOK
<1>1. /\ a.status = "RUNNING" /\ calls[d] + 1 <= a.limit /\ Owns(p)
    <2>1. a.status = "RUNNING"
        BY <1>0 DEF Standing
    <2>2. a.limit \in 0..2 /\ a.limit >= 1
        BY <1>0, <2>1 DEF AttemptPayload, Shape, Books, Recorded
    <2>3. calls[d] + 1 <= a.limit
        BY <1>0, <2>2 DEF Standing
    <2>4. QED BY <1>0, <2>1, <2>3 DEF Owns, Mine
<1>2. calls' = [calls EXCEPT ![d] = calls[d] + 1] /\ attempt' = attempt
    BY <1>0 DEF Called, dbVars
<1>3. TypeOK'
    BY <1>0, <1>2 DEF Shape, TypeOK, Moved, dbVars
<1>4. Recorded(d)'
    <2>1. calls'[d] = calls[d] + 1
        BY <1>0, <1>2
    <2>2. Recorded(d)
        BY <1>0 DEF Shape, Books
    <2>3. QED BY <1>1, <1>2, <2>1, <2>2 DEF Recorded
<1>5. Touches(p)
    BY <1>0, <1>2 DEF Touches, Shape, TypeOK
<1>6. Books'
    BY <1>0, <1>1, <1>4, <1>5, BooksKept DEF Touches, dbVars
<1>7. ASSUME NEW q \in Workers \ {p}, pos[q] <= Len(Diagnostics), AtDiagnostic(q) = d
      PROVE  Standing(q)' /\ ~Owns(q)'
    <2>1. Standing(q) /\ ~Owns(q)
        BY <1>0, <1>1, <1>7, AtTheSame
    <2>2. pc[q] \notin {"save", "call", "repair", "judge"}
        BY <1>0, <1>1, <1>7, <2>1 DEF Owns, Mine, Standing
    <2>3. pc'[q] = pc[q] /\ AtDiagnostic(q)' = d
        BY <1>7 DEF Moved, AtDiagnostic
    <2>4. QED BY <1>1, <1>2, <2>2, <2>3 DEF Standing, Owns
<1>8. Tasks'
    BY <1>0, <1>5, <1>7, Touching
<1>9. QED BY <1>3, <1>6, <1>8 DEF Shape

LEMMA AnsweredShape ==
    ASSUME Shape, NEW p \in Workers, NEW used \in 1..2, NEW answer, Called(p),
           pc[p] = (IF used = 1 THEN "call" ELSE "repair"), Answered(p, answer, used),
           UNCHANGED <<dbVars, verdict, fresh, overlapped>>
    PROVE  Shape'
<1>a. /\ pos[p] <= Len(Diagnostics) /\ WindowOf[AtDiagnostic(p)] # NoWindow
      /\ verdict = "REJECTED" /\ Standing(p) /\ interrupts \in 0..(MaxInterrupts + 1)
    BY DEF Shape, TypeOK, Tasks, Placed, Working
<1>b. PICK d \in Proposals : d = AtDiagnostic(p)
    BY <1>a, Located DEF Shape
<1>0. /\ attempt[d] \in AttemptPayload /\ calls[d] \in Nat /\ calls'[d] = calls[d] + 1
      /\ attempt[d].status = "RUNNING" /\ job[p] = attempt[d] /\ calls[d] + 1 = used
      /\ attempt[d].requests = 1 /\ attempt[d].outcome = "NONE" /\ attempt' = attempt
    <2>1. attempt[d] \in AttemptPayload /\ calls[d] \in Nat /\ calls \in [Proposals -> Nat]
        BY DEF Shape, TypeOK
    <2>2. attempt[d].status = "RUNNING" /\ job[p] = attempt[d] /\ calls[d] + 1 = used
        BY <1>a, <1>b DEF Standing
    <2>3. attempt[d].requests = 1 /\ attempt[d].outcome = "NONE"
        BY <2>2 DEF Shape, Books, Recorded
    <2>4. calls'[d] = calls[d] + 1 /\ attempt' = attempt
        BY <1>b, <2>1 DEF Called, dbVars
    <2>5. QED BY <2>1, <2>2, <2>3, <2>4
<1>1. CASE answer = "EMPTY"
    <2>1. Stop(p) /\ interrupts' \in 0..(MaxInterrupts + 1)
        <3>1. Stop(p) /\ interrupts' = IF interrupts > MaxInterrupts THEN interrupts ELSE interrupts + 1
            BY <1>1 DEF Answered
        <3>2. QED BY <1>a, <3>1, RecoveryAssumption
    <2>2. Moved(p) /\ Placed(p)' /\ Standing(p)' /\ ~Owns(p)'
        BY <2>1, Stopping, Elsewhither
    <2>3. QED BY <2>1, <2>2, CalledShape
<1>2. CASE answer # "EMPTY"
    <2>1. PICK slow \in Heavy, merit \in Merits :
              Hold(p, AfterProvider(job[p], IF answer = "OK" THEN merit ELSE "NONE", used, slow),
                   "save")
        BY <1>2 DEF Answered
    <2>2. snap' = snap /\ interrupts' = interrupts
        BY <1>2 DEF Answered
    <2> DEFINE o == IF answer = "OK" THEN merit ELSE "NONE"
               b == AfterProvider(job[p], o, used, slow)
    <2>3. o \in Outcome /\ slow \in BOOLEAN
        BY RecoveryAssumption DEF Outcome
    <2>4. b \in AttemptPayload /\ "save" \in Labels
        BY <1>0, <2>3, AttemptPayloads DEF Labels
    <2>5. /\ Moved(p) /\ pc'[p] = "save" /\ job'[p] = b /\ pos' = pos
          /\ AtDiagnostic(p)' = AtDiagnostic(p)
        BY <2>1, <2>2, <2>4, Holding
    <2>6. Placed(p)'
        BY <1>a, <2>2, <2>5 DEF Placed, Shape, Tasks
    <2>7. /\ b.status \in {"PROVIDER_SUCCEEDED", "REVIEWING"} /\ b.limit = attempt[d].limit
          /\ b.requests = 1 + (used - 1) /\ b.outcome = "NONE"
        BY <1>0 DEF AfterProvider, AttemptPayload
    <2>8. Standing(p)'
        BY <1>b, <1>0, <2>5, <2>7 DEF Standing, Saveable, Usage
    <2>9. QED BY <1>a, <2>2, <2>5, <2>6, <2>8, CalledShape
<1>3. QED BY <1>1, <1>2

LEMMA CallShape ==
    ASSUME Shape, NEW p \in Workers, Call(p)
    PROVE  Shape'
<1>1. PICK answer \in Answers :
          IF answer = "SCHEMA" /\ job[p].limit >= 2
          THEN Hold(p, job[p], "repair") /\ UNCHANGED <<snap, interrupts>>
          ELSE Answered(p, answer, 1)
    BY DEF Call
<1>2. /\ pc[p] = "call" /\ Called(p) /\ UNCHANGED <<dbVars, verdict, fresh, overlapped>>
    BY DEF Call, At
<1>3. CASE answer = "SCHEMA" /\ job[p].limit >= 2
    <2>1. /\ Hold(p, job[p], "repair") /\ snap' = snap
          /\ interrupts' = interrupts /\ interrupts \in 0..(MaxInterrupts + 1)
          /\ job[p] \in AttemptPayload /\ "repair" \in Labels
        BY <1>1, <1>3 DEF Shape, TypeOK, Labels
    <2>2. /\ Moved(p) /\ pc'[p] = "repair" /\ job'[p] = job[p] /\ pos' = pos
          /\ AtDiagnostic(p)' = AtDiagnostic(p)
        BY <2>1, Holding
    <2>3. pos[p] <= Len(Diagnostics) /\ Placed(p) /\ Standing(p) /\ calls \in [Proposals -> Nat]
        BY <1>2 DEF Shape, Tasks, Placed, Working, TypeOK
    <2>4. Placed(p)'
        BY <1>2, <2>1, <2>2, <2>3 DEF Placed, Working
    <2>5. AtDiagnostic(p) \in Proposals
        BY <2>3, Located DEF Shape
    <2>6. calls'[AtDiagnostic(p)] = 1
        BY <1>2, <2>3, <2>5 DEF Called, Standing
    <2>7. Standing(p)'
        BY <1>2, <1>3, <2>2, <2>3, <2>6 DEF Standing, dbVars
    <2>8. QED BY <1>2, <2>1, <2>2, <2>4, <2>7, CalledShape
<1>4. CASE ~(answer = "SCHEMA" /\ job[p].limit >= 2)
    BY <1>1, <1>2, <1>4, AnsweredShape
<1>5. QED BY <1>3, <1>4

LEMMA RepairShape ==
    ASSUME Shape, NEW p \in Workers, Repair(p)
    PROVE  Shape'
<1>1. /\ pc[p] = "repair" /\ Called(p) /\ UNCHANGED <<dbVars, verdict, fresh, overlapped>>
      /\ \E answer \in Answers : Answered(p, answer, 2)
    BY DEF Repair, At
<1>2. QED BY <1>1, AnsweredShape

-----------------------------------------------------------------------------
(* Saving a transition *)

\* What a save that is not refused makes of a row: one of the four steps of an attempt.
LEMMA Successor ==
    ASSUME Shape, NEW d \in Proposals, NEW b, Saveable(d, b), b.status \in Allowed(attempt[d].status)
    PROVE  \/ /\ b.status = "RUNNING" /\ attempt[d].status = "RESERVED"
              /\ b = RunningAttempt(attempt[d]) /\ calls[d] = 0
           \/ b.status \in {"PROVIDER_SUCCEEDED", "REVIEWING"} /\ Usage(d, b)
           \/ /\ b.status = "REVIEWING" /\ attempt[d].status = "PROVIDER_SUCCEEDED"
              /\ b = Reviewing(attempt[d])
           \/ /\ b.status = "COMPLETED" /\ attempt[d].status = "REVIEWING"
              /\ b = Completed(attempt[d], b.outcome)
              /\ b.outcome = "APPROVED" => attempt[d].produced = "APPROVED"
BY DEF Saveable, Allowed, Shape, Books, Recorded, Usage

\* The same for the books.
LEMMA SuccessorRecorded ==
    ASSUME Shape, NEW d \in Proposals, NEW b, Saveable(d, b), b.status \in Allowed(attempt[d].status),
           attempt' = [attempt EXCEPT ![d] = b], calls' = calls, verdict' = verdict
    PROVE  attempt[d].status # "COMPLETED" /\ Recorded(d)'
<1>1. /\ attempt'[d] = b /\ Recorded(d) /\ attempt[d] \in AttemptPayload /\ calls[d] \in Nat
    BY DEF Shape, Books, TypeOK
<1>2. attempt[d].status # "COMPLETED" /\ attempt[d].status # "ABSENT"
    BY Successor DEF Usage
<1>3. CASE b.status = "RUNNING" /\ b = RunningAttempt(attempt[d]) /\ calls[d] = 0
           /\ attempt[d].status = "RESERVED"
    BY <1>1, <1>3 DEF RunningAttempt, AttemptPayload, Recorded
<1>4. CASE b.status \in {"PROVIDER_SUCCEEDED", "REVIEWING"} /\ Usage(d, b)
    BY <1>1, <1>4 DEF Usage, Recorded
<1>5. CASE b = Reviewing(attempt[d]) /\ attempt[d].status = "PROVIDER_SUCCEEDED"
    BY <1>1, <1>5 DEF Reviewing, AttemptPayload, Recorded
<1>6. CASE /\ b = Completed(attempt[d], b.outcome) /\ attempt[d].status = "REVIEWING"
           /\ b.outcome = "APPROVED" => attempt[d].produced = "APPROVED"
    <2>1. /\ b.status = "COMPLETED" /\ b.limit = attempt[d].limit
          /\ b.requests = attempt[d].requests /\ b.produced = attempt[d].produced
        BY <1>1, <1>6 DEF Completed, AttemptPayload
    <2>2. QED BY <1>1, <1>6, <2>1 DEF Recorded
<1>7. QED BY <1>2, <1>3, <1>4, <1>5, <1>6, Successor

LEMMA SaveShape ==
    ASSUME Shape, NEW p \in Workers, Save(p)
    PROVE  Shape'
<1>a. /\ pc[p] = "save" /\ verdict = "REJECTED" /\ pos[p] <= Len(Diagnostics)
      /\ WindowOf[AtDiagnostic(p)] # NoWindow /\ Standing(p) /\ job[p] \in AttemptPayload
    BY DEF Save, At, Shape, Tasks, Placed, Working, TypeOK
<1>b. PICK d \in Proposals : d = AtDiagnostic(p)
    BY <1>a, Located DEF Shape
<1>c. /\ attempt \in [Proposals -> AttemptPayload] /\ calls \in [Proposals -> Nat]
      /\ Saveable(d, job[p])
    BY <1>a, <1>b DEF Shape, TypeOK, Standing
<1>1. /\ UNCHANGED <<run, aggregate, timeline, calls, verdict, fresh, interrupts>>
      /\ overlapped' = overlapped /\ interrupts' \in 0..(MaxInterrupts + 1)
    BY DEF Save, Elsewhere, Shape, TypeOK
<1>2. CASE job[p].status \notin Allowed(attempt[d].status)
    <2>1. Stop(p) /\ attempt' = attempt
        BY <1>b, <1>2 DEF Save
    <2>2. UNCHANGED <<dbVars, calls, verdict, fresh>>
        BY <1>1, <2>1 DEF dbVars
    <2>3. QED BY <1>1, <2>1, <2>2, Stopping, Elsewhither, QuietShape
<1>3. CASE job[p].status \in Allowed(attempt[d].status)
    <2>1. /\ attempt' = [attempt EXCEPT ![d] = job[p]] /\ snap' = snap
          /\ CASE job[p].status = "RUNNING"            -> Hold(p, job[p], "call")
               [] job[p].status = "PROVIDER_SUCCEEDED" -> Hold(p, Reviewing(job[p]), "save")
               [] job[p].status = "REVIEWING"          ->
                    IF job[p].produced = "NONE"
                    THEN Hold(p, Completed(job[p], "FAILED"), "save")
                    ELSE Hold(p, job[p], "judge")
               [] OTHER                                -> Advance(p)
        BY <1>b, <1>3 DEF Save
    <2>2. /\ attempt'[d] = job[p] /\ attempt' \in [Proposals -> AttemptPayload]
          /\ attempt[d].status # "COMPLETED" /\ Recorded(d)' /\ Touches(p)
        <3>1. attempt[d].status # "COMPLETED" /\ Recorded(d)'
            BY <1>1, <1>3, <1>c, <2>1, SuccessorRecorded
        <3>2. QED BY <1>a, <1>b, <1>c, <1>1, <2>1, <3>1 DEF Touches
    <2>3. Books'
        BY <1>1, <1>b, <2>2, BooksKept DEF Touches
    <2>4. {"call", "save", "judge"} \subseteq Labels
        BY DEF Labels
    <2>5. ASSUME NEW q \in Workers \ {p}, pos[q] <= Len(Diagnostics), AtDiagnostic(q) = AtDiagnostic(p),
                 Moved(p)
          PROVE  Standing(q)' /\ ~Owns(q)'
        <3>1. Standing(q) /\ (Owns(p) => ~Owns(q))
            BY <1>a, <2>5, AtTheSame
        <3>2. /\ pc'[q] = pc[q] /\ job'[q] = job[q] /\ AtDiagnostic(q)' = d /\ AtDiagnostic(q) = d
            BY <1>b, <2>5 DEF Moved, AtDiagnostic
        <3>3. CASE attempt[d].status \in {"RESERVED", "RUNNING"}
            <4>1. ~Owns(q)
                BY <1>a, <1>b, <3>1, <3>3 DEF Owns, Mine
            <4>2. pc[q] \notin {"save", "call", "repair", "judge"}
                BY <3>1, <3>2, <3>3, <4>1 DEF Owns, Mine, Standing
            <4>3. attempt'[d].status # "ABSENT"
                BY <1>3, <1>c, <2>2, Successor
            <4>4. QED BY <3>2, <4>2, <4>3 DEF Standing, Owns
        <3>4. CASE attempt[d].status = "PROVIDER_SUCCEEDED"
            <4>1. attempt'[d].status = "REVIEWING"
                BY <1>3, <1>c, <2>2, <3>4, Successor DEF Usage
            <4>2. pc[q] \notin {"call", "repair", "judge"}
                BY <3>1, <3>2, <3>4 DEF Standing
            <4>3. pc[q] = "save" => job[q].status = "REVIEWING"
                BY <3>1, <3>2, <3>4 DEF Standing, Saveable, Usage
            <4>4. QED BY <3>2, <4>1, <4>2, <4>3 DEF Standing, Saveable, Owns, Mine
        <3>5. CASE attempt[d].status = "REVIEWING"
            <4>1. attempt'[d].status = "COMPLETED"
                BY <1>3, <1>c, <2>2, <3>5, Successor DEF Usage
            <4>2. /\ pc[q] \notin {"call", "repair"}
                  /\ pc[q] = "judge" => job[q].status = "REVIEWING"
                BY <3>1, <3>2, <3>5 DEF Standing
            <4>3. pc[q] = "save" => job[q].status \in {"REVIEWING", "COMPLETED"}
                BY <3>1, <3>2, <3>5 DEF Standing, Saveable, Usage
            <4>4. QED BY <3>2, <4>1, <4>2, <4>3 DEF Standing, Saveable, Owns, Mine
        <3>6. QED BY <1>3, <1>c, <3>3, <3>4, <3>5, Successor DEF Usage
    <2> DEFINE Well == Moved(p) /\ Placed(p)' /\ Standing(p)' /\ (Owns(p)' => pos'[p] = pos[p])
    <2>6. ASSUME NEW b \in AttemptPayload, NEW l \in Labels, Hold(p, b, l), l \in {"call", "save", "judge"},
                 \/ l = "call" /\ job[p].status = "RUNNING" /\ b = job[p] /\ calls[d] = 0
                 \/ /\ l = "save"
                    /\ \/ /\ job[p].status = "PROVIDER_SUCCEEDED" /\ b = Reviewing(job[p])
                          /\ b.status = "REVIEWING"
                       \/ /\ job[p].status = "REVIEWING" /\ b = Completed(job[p], "FAILED")
                          /\ b.status = "COMPLETED" /\ b.outcome = "FAILED"
                 \/ l = "judge" /\ job[p].status = "REVIEWING" /\ b = job[p]
          PROVE  Well
        <3>1. /\ Moved(p) /\ pc'[p] = l /\ job'[p] = b /\ pos' = pos /\ AtDiagnostic(p)' = d
            BY <1>b, <2>1, <2>6, Holding
        <3>2. Placed(p)'
            BY <1>a, <1>b, <1>1, <2>1, <2>6, <3>1 DEF Placed, Shape, Tasks
        <3>3. Standing(p)'
            BY <1>1, <2>2, <2>6, <3>1 DEF Standing, Saveable
        <3>4. QED BY <3>1, <3>2, <3>3
    <2>7. Well
        <3>1. CASE job[p].status = "RUNNING"
            <4>1. calls[d] = 0
                BY <1>3, <1>c, <3>1, Successor DEF Usage
            <4>2. Hold(p, job[p], "call")
                BY <2>1, <3>1
            <4>3. QED BY <1>a, <2>4, <2>6, <3>1, <4>1, <4>2
        <3>2. CASE job[p].status = "PROVIDER_SUCCEEDED"
            <4>1. Hold(p, Reviewing(job[p]), "save")
                BY <2>1, <3>2
            <4>2. Reviewing(job[p]) \in AttemptPayload /\ Reviewing(job[p]).status = "REVIEWING"
                BY <1>a, AttemptPayloads DEF Reviewing, AttemptPayload
            <4>3. QED BY <2>4, <2>6, <3>2, <4>1, <4>2
        <3>3. CASE job[p].status = "REVIEWING" /\ job[p].produced = "NONE"
            <4>1. Hold(p, Completed(job[p], "FAILED"), "save")
                BY <2>1, <3>3
            <4>2. /\ Completed(job[p], "FAILED").status = "COMPLETED"
                  /\ Completed(job[p], "FAILED").outcome = "FAILED"
                BY <1>a DEF Completed, AttemptPayload
            <4>3. "FAILED" \in Outcome
                BY DEF Outcome, RouteDecision
            <4>4. Completed(job[p], "FAILED") \in AttemptPayload
                BY <1>a, <4>3, AttemptPayloads
            <4>5. QED BY <2>4, <2>6, <3>3, <4>1, <4>2, <4>4
        <3>4. CASE job[p].status = "REVIEWING" /\ job[p].produced # "NONE"
            <4>1. Hold(p, job[p], "judge")
                BY <2>1, <3>4
            <4>2. QED BY <1>a, <2>4, <2>6, <3>4, <4>1
        <3>5. CASE job[p].status \notin {"RUNNING", "PROVIDER_SUCCEEDED", "REVIEWING"}
            <4>1. Advance(p)
                BY <2>1, <3>5
            <4>2. QED BY <1>a, <1>1, <2>1, <4>1, Advancing, Elsewhither
        <3>6. QED BY <3>1, <3>2, <3>3, <3>4, <3>5
    <2>8. Tasks'
        BY <1>a, <2>2, <2>5, <2>7, Touching
    <2>9. TypeOK'
        BY <1>1, <2>2, <2>7 DEF Shape, TypeOK, Moved
    <2>10. QED BY <2>3, <2>8, <2>9 DEF Shape
<1>4. QED BY <1>2, <1>3

LEMMA ShapeStep == Shape /\ [Next]_vars => Shape'
<1> SUFFICES ASSUME Shape, [Next]_vars PROVE Shape'
    OBVIOUS
<1>1. ASSUME NEW p \in Workers, Start(p) \/ Step(p) PROVE Shape'
    BY <1>1, HandingShape, PickShape, DeriveShape, ReserveShape, SaveShape, CallShape,
       RepairShape, JudgeShape, BundlesShape DEF Step, Handing
<1>2. ASSUME NEW p \in Workers, Interrupt(p) PROVE Shape'
    BY <1>2, InterruptShape
<1>3. CASE TimePasses
    BY <1>3, TimePassesShape
<1>4. CASE UNCHANGED vars
    BY <1>4 DEF vars, Shape, TypeOK, Books, Recorded, Tasks, Placed, Standing, Saveable, Usage,
                Single, Owns, Mine, AtDiagnostic
<1>5. QED BY <1>1, <1>2, <1>3, <1>4 DEF Next

-----------------------------------------------------------------------------
(* The attempts of the root run and of a window *)

\* A task that has counted the attempts and not yet inserted its own, while nobody else has.
Fresh(p) == pc[p] = "reserve" /\ Mine(p).status = "ABSENT"

\* No task is past a proposal that could still be rerun.
PassedBy(p) ==
    \A j \in 1..Len(Diagnostics) :
        j < pos[p] => WindowOf[Diagnostics[j]] = NoWindow \/ Exhausted(Diagnostics[j])

\* What such a task has counted still holds ...
CountedBy(p) ==
    Fresh(p) =>
        /\ \A e \in Made : WindowOf[e] # WindowOf[AtDiagnostic(p)]
        /\ Cardinality(Made) < MaxPerRoot

\* ... because all such tasks are at the same proposal, for which only one insert wins.
OneFresh == \A p, q \in Workers : Fresh(p) /\ Fresh(q) => pos[p] = pos[q]

Budgeted ==
    /\ \A p \in Workers : PassedBy(p) /\ CountedBy(p)
    /\ OneFresh
    /\ AttemptBudget

\* Attempts are never taken back, and usage never shrinks.
Grown ==
    \A d \in Proposals :
        /\ attempt[d].status # "ABSENT" => attempt'[d].status # "ABSENT"
        /\ attempt[d].heavy => attempt'[d].heavy
        /\ attempt[d].requests <= attempt'[d].requests

\* No attempt is inserted.
Steady == \A d \in Proposals : attempt'[d].status = "ABSENT" <=> attempt[d].status = "ABSENT"

LEMMA ExhaustedStays ==
    ASSUME Shape, Shape', Grown, NEW d \in Proposals, Exhausted(d)
    PROVE  Exhausted(d)'
<1>1. Made \subseteq Made' /\ IsFiniteSet(Made') /\ IsFiniteSet(Made)
    <2>1. IsFiniteSet(Made') /\ IsFiniteSet(Made)
        BY ProposalsFinite, FS_Subset DEF Made
    <2>2. QED BY <2>1 DEF Grown, Made
<1>2. Cardinality(Made) <= Cardinality(Made') /\ Cardinality(Made) \in Nat /\ Cardinality(Made') \in Nat
    BY <1>1, FS_Subset, FS_CardinalityType
<1>3. Requested \subseteq Requested' /\ IsFiniteSet(Requested') /\ IsFiniteSet(Requested)
    <2>1. IsFiniteSet(Requested') /\ IsFiniteSet(Requested)
        BY ProposalsFinite, FS_Subset DEF Requested
    <2>2. \A e \in Proposals : attempt[e].requests \in Nat /\ attempt'[e].requests \in Nat
        <3>1. attempt \in [Proposals -> AttemptPayload] /\ attempt' \in [Proposals -> AttemptPayload]
            BY DEF Shape, TypeOK
        <3>2. \A a \in AttemptPayload : a.requests \in Nat
            BY DEF AttemptPayload
        <3>3. QED BY <3>1, <3>2
    <2>3. Requested \subseteq Requested'
        BY <2>2 DEF Requested, Grown
    <2>4. QED BY <2>1, <2>3
<1>4. RequestsUsed <= RequestsUsed' /\ RequestsUsed \in Nat /\ RequestsUsed' \in Nat
    BY <1>3, FS_Subset, FS_CardinalityType DEF RequestsUsed, Requested
<1>5. CASE \E e \in Made : e = d \/ WindowOf[e] = WindowOf[d] \/ attempt[e].heavy
    BY <1>1, <1>5 DEF Exhausted, Grown, Made
<1>6. CASE Cardinality(Made) >= MaxPerRoot
    BY <1>2, <1>6, RecoveryAssumption DEF Exhausted
<1>7. CASE RequestsUsed >= MaxRequests
    BY <1>4, <1>7, RecoveryAssumption DEF Exhausted
<1>8. QED BY <1>5, <1>6, <1>7 DEF Exhausted

LEMMA Unchanging ==
    ASSUME Shape, attempt' = attempt
    PROVE  Grown /\ Steady
<1>1. attempt \in [Proposals -> AttemptPayload]
    BY DEF Shape, TypeOK
<1>2. \A a \in AttemptPayload : a.requests \in Nat /\ a.requests <= a.requests
    BY DEF AttemptPayload
<1>3. QED BY <1>1, <1>2 DEF Grown, Steady

\* The next proposal comes when this one cannot be rerun (any more).
Onward(p) ==
    \/ pos'[p] = pos[p] \/ pos'[p] = 1
    \/ /\ pos'[p] = pos[p] + 1 /\ pos[p] <= Len(Diagnostics)
       /\ WindowOf[AtDiagnostic(p)] = NoWindow \/ Exhausted(AtDiagnostic(p))

LEMMA Passing ==
    ASSUME Shape, Shape', Grown, NEW p \in Workers, PassedBy(p), Onward(p)
    PROVE  PassedBy(p)'
<1> SUFFICES ASSUME NEW j \in 1..Len(Diagnostics), j < pos'[p]
             PROVE  WindowOf[Diagnostics[j]] = NoWindow \/ Exhausted(Diagnostics[j])'
    BY DEF PassedBy
<1>1. Diagnostics[j] \in Proposals /\ pos[p] \in Nat
    BY DEF Proposals, Shape, TypeOK
<1>2. j < pos[p] \/ j = pos[p]
    BY <1>1 DEF Onward
<1>3. WindowOf[Diagnostics[j]] = NoWindow \/ Exhausted(Diagnostics[j])
    <2>1. CASE j < pos[p]
        BY <2>1 DEF PassedBy
    <2>2. CASE j = pos[p]
        BY <1>1, <2>2 DEF Onward, AtDiagnostic
    <2>3. QED BY <1>2, <2>1, <2>2
<1>4. QED BY <1>1, <1>3, ExhaustedStays

Mates(p) == \A q \in Workers \ {p} : pc'[q] = pc[q] /\ pos'[q] = pos[q]

LEMMA PassingAll ==
    ASSUME Shape, Shape', Budgeted, Grown, NEW p \in Workers, Mates(p), Onward(p)
    PROVE  \A q \in Workers : PassedBy(q)'
BY Passing DEF Budgeted, Mates, Onward

LEMMA SteadyMates ==
    ASSUME Shape, NEW p \in Workers, Steady, Mates(p)
    PROVE  /\ Made' = Made
           /\ \A q \in Workers \ {p} : (Fresh(q)' <=> Fresh(q)) /\ AtDiagnostic(q)' = AtDiagnostic(q)
<1>1. Made' = Made
    BY DEF Steady, Made
<1>2. ASSUME NEW q \in Workers \ {p}
      PROVE  (Fresh(q)' <=> Fresh(q)) /\ AtDiagnostic(q)' = AtDiagnostic(q)
    <2>1. AtDiagnostic(q)' = AtDiagnostic(q) /\ pc'[q] = pc[q]
        BY DEF Mates, AtDiagnostic
    <2>2. pc[q] = "reserve" => AtDiagnostic(q) \in Proposals
        BY Located DEF Shape, Tasks, Placed, Working
    <2>3. QED BY <2>1, <2>2 DEF Fresh, Mine, Steady
<1>3. QED BY <1>1, <1>2

\* A step that inserts nothing and does not make its task fresh.
LEMMA BudgetKept ==
    ASSUME Shape, Shape', Budgeted, Grown, Steady, NEW p \in Workers, Mates(p), Onward(p), ~Fresh(p)'
    PROVE  Budgeted'
<1>1. \A q \in Workers : PassedBy(q)'
    BY PassingAll
<1>2. \A q \in Workers : CountedBy(q)'
    BY SteadyMates DEF Budgeted, CountedBy
<1>3. OneFresh'
    BY SteadyMates DEF Budgeted, OneFresh, Mates
<1>4. AttemptBudget'
    BY SteadyMates DEF Budgeted, AttemptBudget
<1>5. QED BY <1>1, <1>2, <1>3, <1>4 DEF Budgeted

\* The count of derive_directive: a task at another proposal that has counted too would have
\* passed this one, or be passed by it, and found it, or left it, exhausted.
LEMMA BudgetDerived ==
    ASSUME Shape, Shape', Budgeted, NEW p \in Workers, Mates(p), attempt' = attempt, pos' = pos,
           pc[p] = "derive", ~Exhausted(AtDiagnostic(p))
    PROVE  Budgeted'
<1>1. Grown /\ Steady /\ Onward(p)
    BY Unchanging DEF Onward
<1>2. \A q \in Workers : PassedBy(q)'
    BY <1>1, PassingAll
<1>3. /\ \A e \in Made : WindowOf[e] # WindowOf[AtDiagnostic(p)]
      /\ Cardinality(Made) < MaxPerRoot
    BY MadeCount, RecoveryAssumption DEF Exhausted
<1>4. AtDiagnostic(p)' = AtDiagnostic(p) /\ Made' = Made
    BY DEF AtDiagnostic, Made
<1>5. \A q \in Workers : CountedBy(q)'
    BY <1>1, <1>3, <1>4, SteadyMates DEF Budgeted, CountedBy
<1>6. ASSUME NEW q \in Workers \ {p}, Fresh(q) PROVE pos[q] = pos[p]
    <2>1. /\ pos[p] <= Len(Diagnostics) /\ pos[q] <= Len(Diagnostics)
          /\ WindowOf[AtDiagnostic(p)] # NoWindow /\ WindowOf[AtDiagnostic(q)] # NoWindow
        BY <1>6 DEF Shape, Tasks, Placed, Working, Fresh
    <2>2. /\ pos[p] \in 1..Len(Diagnostics) /\ pos[q] \in 1..Len(Diagnostics)
          /\ AtDiagnostic(q) \in Proposals
        BY <2>1, Located DEF Shape
    <2>3. ~(pos[p] < pos[q])
        BY <2>1, <2>2 DEF Budgeted, PassedBy, AtDiagnostic
    <2>4. ASSUME pos[q] < pos[p] PROVE FALSE
        <3>1. Exhausted(AtDiagnostic(q))
            BY <2>1, <2>2, <2>4 DEF Budgeted, PassedBy, AtDiagnostic
        <3>2. \E e \in Made : e = AtDiagnostic(q) \/ WindowOf[e] = WindowOf[AtDiagnostic(q)]
            BY <3>1 DEF Exhausted
        <3>3. QED BY <1>6, <3>2 DEF Budgeted, CountedBy
    <2>5. QED BY <2>2, <2>3, <2>4
<1>7. OneFresh'
    <2>1. \A q \in Workers \ {p} : Fresh(q)' => pos[q] = pos[p]
        BY <1>1, <1>6, SteadyMates
    <2>2. QED BY <2>1 DEF OneFresh
<1>8. AttemptBudget'
    BY <1>4 DEF Budgeted, AttemptBudget
<1>9. QED BY <1>2, <1>5, <1>7, <1>8 DEF Budgeted

\* The insert of reserve_attempt: the tasks that had counted were all after this attempt.
LEMMA BudgetInserted ==
    ASSUME Shape, Shape', Budgeted, NEW p \in Workers, Mates(p), Fresh(p), pos' = pos,
           attempt' = [attempt EXCEPT ![AtDiagnostic(p)] = job[p]], pc'[p] = "save"
    PROVE  Budgeted'
<1>a. pos[p] <= Len(Diagnostics) /\ Standing(p)
    BY DEF Shape, Tasks, Placed, Working, Fresh
<1>b. PICK d \in Proposals : d = AtDiagnostic(p)
    BY <1>a, Located DEF Shape
<1>c. /\ attempt \in [Proposals -> AttemptPayload] /\ attempt[d].status = "ABSENT"
      /\ attempt' = [attempt EXCEPT ![d] = job[p]] /\ job[p].status = "RESERVED"
    <2>1. attempt[d].status = "ABSENT"
        BY <1>b DEF Fresh, Mine
    <2>2. job[p] = ReservedAttempt(job[p].limit)
        BY <1>a, <1>b, <2>1 DEF Standing, Fresh
    <2>3. job[p].status = "RESERVED"
        BY <2>2 DEF ReservedAttempt, NoAttempt
    <2>4. QED BY <1>b, <2>1, <2>3 DEF Shape, TypeOK
<1>1. Made' = Made \cup {d} /\ d \notin Made
    BY <1>c DEF Made
<1>2. Grown
    <2>1. attempt[d].requests = 0 /\ ~attempt[d].heavy
        BY <1>c DEF Shape, Books, Recorded
    <2>2. attempt'[d].status = "RESERVED" /\ attempt'[d].requests \in Nat
        BY <1>c DEF Shape, TypeOK, AttemptPayload
    <2>3. \A e \in Proposals \ {d} : attempt'[e] = attempt[e] /\ attempt[e].requests \in Nat
        BY <1>c DEF AttemptPayload
    <2>4. QED BY <2>1, <2>2, <2>3 DEF Grown
<1>3. Onward(p)
    BY DEF Onward
<1>4. \A q \in Workers : PassedBy(q)'
    BY <1>2, <1>3, PassingAll
<1>5. ASSUME NEW q \in Workers PROVE ~Fresh(q)'
    <2>1. CASE q = p
        BY <2>1 DEF Fresh
    <2>2. CASE q # p /\ pc[q] = "reserve"
        <3>1. pos[q] <= Len(Diagnostics)
            BY <2>2 DEF Shape, Tasks, Placed, Working
        <3>2. AtDiagnostic(q) \in Proposals /\ AtDiagnostic(q)' = AtDiagnostic(q)
            BY <3>1, Located DEF Shape, AtDiagnostic
        <3>3. CASE AtDiagnostic(q) = d
            BY <1>c, <3>2, <3>3 DEF Fresh, Mine
        <3>4. CASE AtDiagnostic(q) # d
            <4>1. pos[q] # pos[p]
                BY <1>b, <3>4 DEF AtDiagnostic
            <4>2. ~Fresh(q)
                BY <4>1 DEF Budgeted, OneFresh
            <4>3. QED BY <1>c, <2>2, <3>2, <3>4, <4>2 DEF Fresh, Mine
        <3>5. QED BY <3>3, <3>4
    <2>3. CASE q # p /\ pc[q] # "reserve"
        BY <2>3 DEF Fresh, Mates
    <2>4. QED BY <2>1, <2>2, <2>3
<1>6. AttemptBudget'
    <2>1. /\ \A e \in Made : WindowOf[e] # WindowOf[d]
          /\ Cardinality(Made) < MaxPerRoot
        BY <1>b DEF Budgeted, CountedBy
    <2>2. Cardinality(Made') = Cardinality(Made) + 1
        BY <1>1, MadeCount, FS_AddElement
    <2>3. Cardinality(Made') <= MaxPerRoot
        BY <2>1, <2>2, MadeCount, RecoveryAssumption
    <2>4. \A e, f \in Made' : WindowOf[e] = WindowOf[f] => e = f
        BY <1>1, <2>1 DEF Budgeted, AttemptBudget
    <2>5. QED BY <2>3, <2>4 DEF AttemptBudget
<1>7. QED BY <1>4, <1>5, <1>6 DEF Budgeted, CountedBy, OneFresh

\* The moves of a task that do not reach the books.
LEMMA MoveKinds ==
    ASSUME Shape, NEW p \in Workers
    PROVE  /\ \A a, l : Hold(p, a, l) => pos' = pos /\ Mates(p) /\ pc'[p] = l
           /\ Advance(p) => pos'[p] = pos[p] + 1 /\ Mates(p) /\ pc'[p] = "pick"
           /\ Stop(p) => pos'[p] = 1 /\ Mates(p) /\ pc'[p] = "idle"
BY DEF Hold, Advance, Stop, Goto, Mates, Shape, TypeOK

\* A step of one task inserts an attempt, derives a directive, or does neither.
LEMMA StepKinds ==
    ASSUME Shape, NEW p \in Workers, Start(p) \/ Step(p) \/ Interrupt(p)
    PROVE  /\ Mates(p)
           /\ \/ Grown /\ Steady /\ Onward(p) /\ ~Fresh(p)'
              \/ /\ attempt' = attempt /\ pos' = pos
                 /\ pc[p] = "derive" /\ ~Exhausted(AtDiagnostic(p))
              \/ /\ Fresh(p) /\ attempt' = [attempt EXCEPT ![AtDiagnostic(p)] = job[p]]
                 /\ pos' = pos /\ pc'[p] = "save"
<1>1. CASE Handing(p)
    <2>1. attempt' = attempt /\ pos' = pos
        BY <1>1, HandingStep
    <2>2. PICK l \in Labels, r \in RunPayload : Turn(p, l, r)
        BY <1>1, HandingStep
    <2>3. Mates(p) /\ pc'[p] # "reserve"
        BY <2>1, <2>2 DEF Turn, Mates, Working, Shape, TypeOK
    <2>4. QED BY <2>1, <2>3, Unchanging DEF Onward, Fresh
<1>2. CASE Pick(p)
    <2>1. attempt' = attempt
        BY <1>2 DEF Pick, dbVars
    <2>2. CASE pos[p] > Len(Diagnostics)
        BY <1>2, <2>1, <2>2, Unchanging DEF Pick, Goto, Mates, Onward, Fresh, Shape, TypeOK
    <2>3. CASE ~(pos[p] > Len(Diagnostics)) /\ WindowOf[AtDiagnostic(p)] = NoWindow
        <3>1. pos[p] <= Len(Diagnostics)
            BY <2>3, RecoveryAssumption DEF Shape, TypeOK
        <3>2. QED BY <1>2, <2>1, <2>3, <3>1, Unchanging, MoveKinds DEF Pick, Onward, Fresh
    <2>4. CASE ~(pos[p] > Len(Diagnostics)) /\ WindowOf[AtDiagnostic(p)] # NoWindow
        <3>1. /\ pos' = pos /\ Mates(p)
              /\ pc'[p] = "reserve" => attempt[AtDiagnostic(p)].status # "ABSENT"
            BY <1>2, <2>4, MoveKinds DEF Pick
        <3>2. QED BY <2>1, <3>1, Unchanging DEF Onward, Fresh, Mine, AtDiagnostic
    <2>5. QED BY <2>2, <2>3, <2>4
<1>3. CASE Derive(p)
    <2>1. attempt' = attempt /\ pc[p] = "derive" /\ pos[p] <= Len(Diagnostics)
        BY <1>3 DEF Derive, dbVars, At, Shape, Tasks, Placed, Working
    <2>2. CASE Exhausted(AtDiagnostic(p))
        BY <1>3, <2>1, <2>2, Unchanging, MoveKinds DEF Derive, Onward, Fresh
    <2>3. CASE ~Exhausted(AtDiagnostic(p))
        BY <1>3, <2>1, <2>3, MoveKinds DEF Derive
    <2>4. QED BY <2>2, <2>3
<1>4. CASE Reserve(p)
    <2>1. pc[p] = "reserve" /\ pos[p] <= Len(Diagnostics) /\ AtDiagnostic(p) \in Proposals
        BY <1>4, Located DEF Reserve, At, Shape, Tasks, Placed, Working
    <2>2. CASE Mine(p).status = "ABSENT"
        BY <1>4, <2>1, <2>2, MoveKinds DEF Reserve, Reservable, Mine, Fresh
    <2>3. CASE Mine(p).status # "ABSENT"
        <3>1. attempt' = attempt
            BY <1>4, <2>3 DEF Reserve, Reservable, Mine
        <3>2. Exhausted(AtDiagnostic(p))
            BY <2>1, <2>3 DEF Exhausted, Made, Mine
        <3>3. CASE ~Resumes(Mine(p))
            BY <1>4, <2>1, <2>3, <3>1, <3>2, <3>3, Unchanging, MoveKinds
               DEF Reserve, Reservable, Mine, Onward, Fresh
        <3>4. CASE Resumes(Mine(p))
            <4>1. pos' = pos /\ Mates(p) /\ pc'[p] \in {"save", "judge"}
                BY <1>4, <2>3, <3>4, MoveKinds DEF Reserve, Reservable, Mine
            <4>2. QED BY <3>1, <4>1, Unchanging DEF Onward, Fresh
        <3>5. QED BY <3>3, <3>4
    <2>4. QED BY <2>2, <2>3
<1>5. CASE Save(p)
    <2>1. pos[p] <= Len(Diagnostics) /\ Standing(p) /\ pc[p] = "save"
        BY <1>5 DEF Save, At, Shape, Tasks, Placed, Working
    <2>2. PICK d \in Proposals : d = AtDiagnostic(p)
        BY <2>1, Located DEF Shape
    <2>3. Saveable(d, job[p])
        BY <2>1, <2>2 DEF Standing
    <2>4. CASE job[p].status \notin Allowed(attempt[d].status)
        BY <1>5, <2>2, <2>4, Unchanging, MoveKinds DEF Save, Onward, Fresh
    <2>5. CASE job[p].status \in Allowed(attempt[d].status)
        <3>1. /\ attempt' = [attempt EXCEPT ![d] = job[p]]
              /\ attempt \in [Proposals -> AttemptPayload] /\ job[p] \in AttemptPayload
            BY <1>5, <2>2, <2>5 DEF Save, Shape, TypeOK
        <3>2. attempt[d].status # "ABSENT" /\ job[p].status # "ABSENT"
            BY <2>3, <2>5, Successor DEF Usage
        <3>3. /\ attempt[d].heavy => job[p].heavy
              /\ attempt[d].requests <= job[p].requests
            <4>1. /\ Recorded(d) /\ attempt[d] \in AttemptPayload /\ job[p] \in AttemptPayload
                  /\ calls[d] \in Nat
                BY <3>1 DEF Shape, Books, TypeOK
            <4>2. CASE job[p] = RunningAttempt(attempt[d]) /\ attempt[d].status = "RESERVED"
                BY <4>1, <4>2 DEF RunningAttempt, AttemptPayload, Recorded
            <4>3. CASE Usage(d, job[p])
                BY <4>1, <4>3 DEF Usage, AttemptPayload, Recorded
            <4>4. CASE job[p] = Reviewing(attempt[d])
                BY <4>1, <4>4 DEF Reviewing, AttemptPayload
            <4>5. CASE job[p] = Completed(attempt[d], job[p].outcome)
                <5>1. job[p].heavy = attempt[d].heavy /\ job[p].requests = attempt[d].requests
                    BY <4>1, <4>5 DEF Completed, AttemptPayload
                <5>2. QED BY <4>1, <5>1 DEF AttemptPayload
            <4>6. QED BY <2>3, <2>5, <4>2, <4>3, <4>4, <4>5, Successor
        <3>4. Grown /\ Steady
            <4>1. \A e \in Proposals \ {d} : attempt'[e] = attempt[e] /\ attempt[e].requests \in Nat
                BY <3>1 DEF AttemptPayload
            <4>2. attempt'[d] = job[p]
                BY <3>1
            <4>3. QED BY <3>2, <3>3, <4>1, <4>2 DEF Grown, Steady
        <3>5. Exhausted(AtDiagnostic(p))
            BY <2>2, <3>2 DEF Exhausted, Made
        <3>6. \/ \E a : \E l \in {"call", "save", "judge"} : Hold(p, a, l)
              \/ Advance(p)
            BY <1>5, <2>2, <2>5 DEF Save
        <3>7. QED BY <2>1, <3>4, <3>5, <3>6, MoveKinds DEF Onward, Fresh
    <2>6. QED BY <2>4, <2>5
<1>6. CASE Call(p) \/ Repair(p)
    <2>1. attempt' = attempt
        BY <1>6 DEF Call, Repair, dbVars
    <2>2. \/ \E a : \E l \in {"save", "repair"} : Hold(p, a, l)
          \/ Stop(p)
        BY <1>6 DEF Call, Repair, Answered
    <2>3. QED BY <2>1, <2>2, Unchanging, MoveKinds DEF Onward, Fresh
<1>7. CASE Judge(p)
    BY <1>7, Unchanging, MoveKinds DEF Judge, dbVars, Onward, Fresh
<1>8. CASE Bundles(p) \/ Interrupt(p)
    BY <1>8, Unchanging, MoveKinds DEF Bundles, Interrupt, dbVars, Onward, Fresh
<1>9. QED BY <1>1, <1>2, <1>3, <1>4, <1>5, <1>6, <1>7, <1>8 DEF Step, Handing

-----------------------------------------------------------------------------

LEMMA BudgetInit == Init => Budgeted
<1> SUFFICES ASSUME Init PROVE Budgeted
    OBVIOUS
<1>1. Made = {} /\ Cardinality(Made) = 0
    BY FS_EmptySet DEF Init, Made, NoAttempt
<1>2. AttemptBudget
    BY <1>1, RecoveryAssumption DEF AttemptBudget
<1>3. \A p \in Workers : PassedBy(p) /\ ~Fresh(p)
    BY DEF Init, PassedBy, Fresh
<1>4. QED BY <1>2, <1>3 DEF Budgeted, CountedBy, OneFresh

LEMMA BudgetStep == Shape /\ Shape' /\ Budgeted /\ [Next]_vars => Budgeted'
<1> SUFFICES ASSUME Shape, Shape', Budgeted, [Next]_vars PROVE Budgeted'
    OBVIOUS
<1>1. ASSUME NEW p \in Workers, Start(p) \/ Step(p) \/ Interrupt(p) PROVE Budgeted'
    BY <1>1, StepKinds, BudgetKept, BudgetDerived, BudgetInserted
<1>2. CASE TimePasses \/ UNCHANGED vars
    <2>1. attempt' = attempt /\ pc' = pc /\ pos' = pos
        BY <1>2 DEF TimePasses, vars
    <2>2. QED
        BY <2>1 DEF Budgeted, PassedBy, CountedBy, OneFresh, AttemptBudget, Exhausted, Made,
                    RequestsUsed, Fresh, Mine, AtDiagnostic
<1>3. QED BY <1>1, <1>2 DEF Next

\* Recovery: for any number of tasks that recover the same run, each of which counts the
\* attempts in one transaction and inserts its own in another, a window is rerun once and a
\* root run at most MaxPerRoot times; no calls are repeated, those that were answered are on
\* the books, and the Timeline gets only what a review approved.
THEOREM RecoveryIsSound == Spec => []RecoverySound
<1>1. Init => Shape /\ Budgeted
    BY InitShape, BudgetInit
<1>2. Shape /\ Budgeted /\ [Next]_vars => (Shape /\ Budgeted)'
    BY ShapeStep, BudgetStep
<1>3. Shape /\ Budgeted => RecoverySound
    <2> SUFFICES ASSUME Shape, Budgeted PROVE RecoverySound
        OBVIOUS
    <2>1. TypeOK /\ AttemptBudget
        BY DEF Shape, Budgeted
    <2>2. RerunOnce /\ CallsOnTheBooks
        BY DEF Shape, Books, Recorded, RerunOnce, CallsOnTheBooks
    <2>3. OnlyApprovedGoOn
        BY DEF Shape, Books, OnlyApprovedGoOn
    <2>4. QED BY <2>1, <2>2, <2>3 DEF RecoverySound
<1>4. QED BY <1>1, <1>2, <1>3, PTL DEF Spec

-----------------------------------------------------------------------------
(* One task after the other *)

\* Where a task holds a copy of the run that it will save, or go by.
Copying == {"open", "verdict", "swap", "review", "saveReview", "saveFailure"}

Claiming == Copying \ {"open", "verdict"}

\* As long as tasks have not overlapped, the copy of the one at work is the run itself, ...
CopyFits(p) ==
    /\ pc[p] \in Copying => snap[p] = run
    /\ pc[p] \in Claiming => run.review = "NONE"

\* ... and its directive leaves room for the calls it allows.
Planned(p) ==
    /\ Fresh(p) => RequestsUsed + job[p].limit <= MaxRequests
    /\ Owns(p) => RequestsUsed + Mine(p).limit <= MaxRequests + Mine(p).requests

Lone ==
    ~overlapped =>
        /\ \A p, q \in Workers : pc[p] # "idle" /\ pc[q] # "idle" => p = q
        /\ run.claims <= MaxClaims
        /\ RequestsUsed <= MaxRequests
        /\ \A p \in Workers : CopyFits(p) /\ Planned(p)

LEMMA Sole ==
    ASSUME Shape, Lone, NEW p \in Workers, Start(p) \/ Step(p) \/ Interrupt(p), ~overlapped'
    PROVE  ~overlapped /\ \A q \in Workers \ {p} : pc[q] = "idle"
<1>1. CASE Start(p)
    BY <1>1 DEF Start, At
<1>2. CASE Step(p) \/ Interrupt(p)
    <2>1. pc[p] # "idle" /\ overlapped' = overlapped
        BY <1>2 DEF Step, Interrupt, At, Open, Finalize, SaveVerdict, SaveAggregate, Ready,
                    ReadHandoff, SwapHandoff, Current, Review, SaveReview, SaveFailure,
                    RunTimeline, Recover, Pick, Derive, Reserve, Save, Call, Repair, Judge, Bundles
    <2>2. QED BY <2>1 DEF Lone
<1>3. QED BY <1>1, <1>2

\* The run under the hands of a sole task: an audit that is stored stays, and a claim counts.
LoneRun(p) ==
    /\ run'.claims <= MaxClaims
    /\ CopyFits(p)'
    /\ run.review # "NONE" => run'.review = run.review /\ run'.handoff = run.handoff

LEMMA RunFields ==
    \A r \in RunPayload :
        /\ Opened(r).claims = r.claims /\ Opened(r).review = r.review /\ Opened(r).handoff = r.handoff
        /\ Claimed(r).claims = r.claims + 1 /\ Claimed(r).review = r.review
        /\ Reviewed(r).claims = r.claims
        /\ Failed(r).claims = r.claims /\ Failed(r).review = r.review
        /\ Aged(r).claims = r.claims /\ Aged(r).review = r.review /\ Aged(r).handoff = r.handoff
        /\ r.claims \in Nat
BY DEF RunPayload, Opened, Claimed, Reviewed, Failed, Aged

LEMMA SoleRun ==
    ASSUME Shape, Lone, ~overlapped, NEW p \in Workers, Start(p) \/ Step(p) \/ Interrupt(p)
    PROVE  LoneRun(p)
<1>0. /\ run \in RunPayload /\ run.claims <= MaxClaims /\ CopyFits(p) /\ Placed(p)
      /\ pc \in [Workers -> Labels] /\ snap \in [Workers -> RunPayload]
    BY DEF Shape, TypeOK, Tasks, Lone
<1>1. CASE Start(p) \/ Finalize(p) \/ Ready(p) \/ Current(p)
    <2>1. run' = run /\ snap'[p] = run /\ pc'[p] \notin Claiming
        BY <1>0, <1>1 DEF Start, Finalize, Ready, Current, Read, Goto, Copying, Claiming
    <2>2. QED BY <1>0, <2>1 DEF LoneRun, CopyFits
<1>2. CASE Open(p) \/ SaveVerdict(p)
    <2>1. /\ snap[p] = run /\ pc'[p] \in {"finalize", "aggregate"}
          /\ run' = Opened(run) \/ run' = [run EXCEPT !.status = "SUCCEEDED"]
        BY <1>0, <1>2 DEF Open, SaveVerdict, SaveSnap, SaveRun, Goto, At, CopyFits, Copying
    <2>2. run'.claims = run.claims /\ run'.review = run.review /\ run'.handoff = run.handoff
        <3>1. CASE run' = Opened(run)
            BY <1>0, <3>1, RunFields
        <3>2. CASE run' = [run EXCEPT !.status = "SUCCEEDED"]
            BY <1>0, <3>2 DEF RunPayload
        <3>3. QED BY <2>1, <3>1, <3>2
    <2>3. CopyFits(p)'
        BY <2>1 DEF CopyFits, Copying, Claiming
    <2>4. QED BY <1>0, <2>2, <2>3 DEF LoneRun
<1>3. CASE SaveAggregate(p)
    <2>1. run' = run /\ pc'[p] = "ready"
        BY <1>0, <1>3 DEF SaveAggregate, Goto
    <2>2. QED BY <1>0, <2>1 DEF LoneRun, CopyFits, Copying, Claiming
<1>4. CASE ReadHandoff(p)
    <2>1. /\ run' = run
          /\ \/ pc'[p] = "swap" /\ snap'[p] = run /\ run.review = "NONE"
             \/ pc'[p] = "current"
        BY <1>0, <1>4 DEF ReadHandoff, Claimable, Read, Goto
    <2>2. QED BY <1>0, <2>1 DEF LoneRun, CopyFits, Copying, Claiming
<1>5. CASE SwapHandoff(p)
    <2>1. snap[p] = run /\ run.review = "NONE" /\ run.claims < MaxClaims
        BY <1>0, <1>5 DEF SwapHandoff, At, CopyFits, Copying, Claiming, Placed
    <2>2. CASE p \in fresh
        <3>1. run' = Claimed(run) /\ snap'[p] = run' /\ pc'[p] = "review"
            BY <1>0, <1>5, <2>1, <2>2 DEF SwapHandoff, SaveSnap, SaveRun, Goto
        <3>2. run'.claims <= MaxClaims /\ run'.review = "NONE"
            BY <1>0, <2>1, <3>1, RunFields DEF MaxClaims
        <3>3. QED BY <2>1, <3>1, <3>2 DEF LoneRun, CopyFits
    <2>3. CASE p \notin fresh
        <3>1. run' = run /\ pc'[p] = "current"
            BY <1>0, <1>5, <2>3 DEF SwapHandoff, Goto
        <3>2. QED BY <1>0, <3>1 DEF LoneRun, CopyFits, Copying, Claiming
    <2>4. QED BY <2>2, <2>3
<1>6. CASE Review(p)
    <2>1. run' = run /\ snap'[p] = run /\ run.review = "NONE"
        BY <1>0, <1>6 DEF Review, At, Read, CopyFits, Copying, Claiming
    <2>2. QED BY <1>0, <2>1 DEF LoneRun, CopyFits
<1>7. CASE SaveReview(p) \/ SaveFailure(p)
    <2>1. /\ snap[p] = run /\ run.review = "NONE" /\ pc'[p] = "timeline"
          /\ run' = Reviewed(run) \/ run' = Failed(run)
        BY <1>0, <1>7 DEF SaveReview, SaveFailure, SaveSnap, SaveRun, Goto, At, CopyFits, Copying,
                          Claiming
    <2>2. run'.claims <= MaxClaims
        BY <1>0, <2>1, RunFields
    <2>3. QED BY <2>1, <2>2 DEF LoneRun, CopyFits, Copying, Claiming
<1>8. CASE \/ RunTimeline(p) \/ Recover(p) \/ Pick(p) \/ Derive(p) \/ Reserve(p) \/ Save(p)
           \/ Call(p) \/ Repair(p) \/ Judge(p) \/ Bundles(p) \/ Interrupt(p)
    <2>1. /\ \A a, l : Hold(p, a, l) => pc'[p] = l
          /\ Advance(p) => pc'[p] = "pick"
          /\ Stop(p) => pc'[p] = "idle"
          /\ \A l : Goto(p, l) => pc'[p] = l
        BY <1>0 DEF Hold, Advance, Stop, Goto
    <2>2. run' = run /\ pc'[p] \in {"idle", "recover", "pick", "bundles"} \cup Working
        <3>1. CASE RunTimeline(p) \/ Recover(p) \/ Bundles(p) \/ Interrupt(p)
            BY <2>1, <3>1 DEF RunTimeline, Recover, Bundles, Interrupt, dbVars
        <3>2. CASE Pick(p) \/ Derive(p) \/ Reserve(p) \/ Judge(p)
            BY <2>1, <3>2 DEF Pick, Derive, Reserve, Judge, dbVars, Working
        <3>3. CASE Save(p)
            BY <2>1, <3>3 DEF Save, Working
        <3>4. CASE Call(p) \/ Repair(p)
            BY <2>1, <3>4 DEF Call, Repair, Answered, dbVars, Working
        <3>5. QED BY <1>8, <3>1, <3>2, <3>3, <3>4
    <2>3. QED BY <1>0, <2>2 DEF LoneRun, CopyFits, Copying, Claiming, Working
<1>9. QED BY <1>1, <1>2, <1>3, <1>4, <1>5, <1>6, <1>7, <1>8 DEF Step

\* The requests of an attempt go on the books.
LEMMA Booking ==
    ASSUME Shape, Shape', NEW d \in Proposals,
           \A e \in Proposals \ {d} : attempt'[e] = attempt[e],
           attempt[d].requests <= attempt'[d].requests
    PROVE  RequestsUsed' + attempt[d].requests = RequestsUsed + attempt'[d].requests
<1>0. /\ attempt[d].requests \in 0..2 /\ attempt'[d].requests \in 0..2
      /\ \A e \in Proposals : attempt[e].requests \in Nat
    <2>1. attempt \in [Proposals -> AttemptPayload] /\ attempt' \in [Proposals -> AttemptPayload]
        BY DEF Shape, TypeOK
    <2>2. \A a \in AttemptPayload : a.requests \in 0..2
        BY DEF AttemptPayload
    <2>3. QED BY <2>1, <2>2
<1>1. IsFiniteSet(Requested) /\ RequestsUsed = Cardinality(Requested)
      /\ RequestsUsed' = Cardinality(Requested') /\ RequestsUsed \in Nat
    BY RequestsCount DEF RequestsUsed, Requested
<1>2. \A e \in Proposals, i \in 1..2 :
          /\ <<e, i>> \in Requested <=> i <= attempt[e].requests
          /\ <<e, i>> \in Requested' <=> i <= attempt'[e].requests
    BY DEF Requested
<1>3. Requested \subseteq Proposals \X (1..2) /\ Requested' \subseteq Proposals \X (1..2)
    BY DEF Requested
<1>4. PICK r \in 0..2, s \in 0..2 : attempt[d].requests = r /\ attempt'[d].requests = s /\ r <= s
    BY <1>0
<1>5. \A e \in Proposals, j \in 1..2 :
          <<e, j>> \in Requested' <=> <<e, j>> \in Requested \/ (e = d /\ r < j /\ j <= s)
    <2> TAKE e \in Proposals, j \in 1..2
    <2>1. CASE e = d
        <3>1. /\ <<e, j>> \in Requested <=> j <= attempt[e].requests
              /\ <<e, j>> \in Requested' <=> j <= attempt'[e].requests
            BY <1>2
        <3>2. attempt[e].requests = r /\ attempt'[e].requests = s
            BY <1>4, <2>1
        <3>3. j <= s <=> j <= r \/ (r < j /\ j <= s)
            BY <1>4
        <3>4. QED BY <2>1, <3>1, <3>2, <3>3
    <2>2. CASE e # d
        BY <1>2, <2>2
    <2>3. QED BY <2>1, <2>2
<1>6. \A A \in SUBSET (Proposals \X (1..2)) :
          (\A e \in Proposals, j \in 1..2 : <<e, j>> \in Requested' <=> <<e, j>> \in A)
              => Requested' = A
    <2> SUFFICES ASSUME NEW A \in SUBSET (Proposals \X (1..2)),
                        \A e \in Proposals, j \in 1..2 : <<e, j>> \in Requested' <=> <<e, j>> \in A
                 PROVE  Requested' = A
        OBVIOUS
    <2>1. ASSUME NEW x \in Proposals \X (1..2) PROVE x \in Requested' <=> x \in A
        <3>1. PICK e \in Proposals, j \in 1..2 : x = <<e, j>>
            OBVIOUS
        <3>2. QED BY <3>1
    <2>2. QED BY <1>3, <2>1
<1>7. \A j \in 1..2 : <<d, j>> \in Requested <=> j <= r
    BY <1>2, <1>4
<1>8. CASE s = r
    <2>1. \A j \in 1..2 : ~(r < j /\ j <= s)
        BY <1>8
    <2>2. \A e \in Proposals, j \in 1..2 : <<e, j>> \in Requested' <=> <<e, j>> \in Requested
        BY <1>5, <2>1
    <2>3. Requested' = Requested
        BY <1>3, <1>6, <2>2
    <2>4. QED BY <1>1, <1>4, <1>8, <2>3
<1>9. CASE s = r + 1
    <2> DEFINE More == Requested \cup {<<d, s>>}
    <2>1. s \in 1..2 /\ <<d, s>> \notin Requested
        BY <1>4, <1>7, <1>9
    <2>2. Requested' = More
        <3>1. More \in SUBSET (Proposals \X (1..2))
            BY <1>3, <2>1
        <3>2. ASSUME NEW e \in Proposals, NEW j \in 1..2
              PROVE  <<e, j>> \in Requested' <=> <<e, j>> \in More
            <4>1. r < j /\ j <= s <=> j = s
                BY <1>9, <2>1
            <4>2. QED BY <1>5, <4>1
        <3>3. QED BY <1>6, <3>1, <3>2
    <2>3. Cardinality(More) = Cardinality(Requested) + 1
        BY <1>1, <2>1, FS_AddElement
    <2>4. QED BY <1>1, <1>4, <1>9, <2>2, <2>3
<1>10. CASE r = 0 /\ s = 2
    <2> DEFINE One == Requested \cup {<<d, 1>>}
               Two == One \cup {<<d, 2>>}
    <2>1. <<d, 1>> \notin Requested /\ <<d, 2>> \notin One
        BY <1>7, <1>10
    <2>2. Requested' = Two
        <3>1. Two \in SUBSET (Proposals \X (1..2))
            BY <1>3
        <3>2. ASSUME NEW e \in Proposals, NEW j \in 1..2
              PROVE  <<e, j>> \in Requested' <=> <<e, j>> \in Two
            <4>1. r < j /\ j <= s /\ (j = 1 \/ j = 2)
                BY <1>10
            <4>2. QED BY <1>5, <4>1
        <3>3. QED BY <1>6, <3>1, <3>2
    <2>3. Cardinality(One) = Cardinality(Requested) + 1 /\ IsFiniteSet(One)
        BY <1>1, <2>1, FS_AddElement
    <2>4. Cardinality(Two) = Cardinality(One) + 1
        BY <2>1, <2>3, FS_AddElement
    <2>5. QED BY <1>1, <1>4, <1>10, <2>2, <2>3, <2>4
<1>11. QED BY <1>4, <1>8, <1>9, <1>10

LoneBooks(p) == RequestsUsed' <= MaxRequests /\ Planned(p)'

LEMMA SoleInsert ==
    ASSUME Shape, Shape', Lone, ~overlapped, NEW p \in Workers, Reserve(p), Fresh(p)
    PROVE  LoneBooks(p)
<1>a. pc[p] = "reserve" /\ pos[p] <= Len(Diagnostics) /\ Standing(p) /\ Planned(p)
    BY DEF Fresh, Shape, Tasks, Placed, Working, Lone
<1>b. PICK d \in Proposals : d = AtDiagnostic(p)
    BY <1>a, Located DEF Shape
<1>1. /\ attempt[d].status = "ABSENT" /\ attempt' = [attempt EXCEPT ![d] = job[p]]
      /\ pos' = pos /\ pc'[p] = "save"
    BY <1>b, MoveKinds DEF Reserve, Reservable, Fresh, Mine
<1>2. attempt'[d] = job[p] /\ \A e \in Proposals \ {d} : attempt'[e] = attempt[e]
    BY <1>1 DEF Shape, TypeOK
<1>3. job[p] = ReservedAttempt(job[p].limit) /\ job[p].limit \in 1..2
    BY <1>a, <1>b, <1>1 DEF Standing
<1>4. job[p].requests = 0 /\ attempt[d].requests = 0
    BY <1>1, <1>3 DEF ReservedAttempt, NoAttempt, Shape, Books, Recorded
<1>5. RequestsUsed' = RequestsUsed /\ RequestsUsed \in Nat
    <2>1. RequestsUsed' + attempt[d].requests = RequestsUsed + attempt'[d].requests
        BY <1>2, <1>4, Booking
    <2>2. RequestsUsed \in Nat /\ RequestsUsed' \in Nat
        <3>1. IsFiniteSet(Requested')
            BY ProposalsFinite, FS_Subset DEF Requested
        <3>2. QED BY <3>1, RequestsCount, FS_CardinalityType DEF RequestsUsed, Requested
    <2>3. attempt'[d].requests = 0
        BY <1>2, <1>4
    <2>4. PICK m \in Nat, n \in Nat : m = RequestsUsed /\ n = RequestsUsed'
        BY <2>2
    <2>5. n + 0 = m + 0
        BY <1>4, <2>1, <2>3, <2>4
    <2>6. n = m
        BY <2>5
    <2>7. QED BY <2>4, <2>6
<1>6. RequestsUsed + job[p].limit <= MaxRequests
    BY <1>a DEF Planned
<1>7. RequestsUsed' <= MaxRequests
    BY <1>3, <1>5, <1>6, RecoveryAssumption
<1>8. Planned(p)'
    <2>1. AtDiagnostic(p)' = d /\ ~Fresh(p)'
        BY <1>b, <1>1 DEF AtDiagnostic, Fresh
    <2>2. QED BY <1>2, <1>3, <1>4, <1>5, <1>6, <2>1, RecoveryAssumption DEF Planned, Mine
<1>9. QED BY <1>7, <1>8 DEF LoneBooks

LEMMA SoleSave ==
    ASSUME Shape, Shape', Lone, ~overlapped, NEW p \in Workers, Save(p),
           job[p].status \in Allowed(Mine(p).status)
    PROVE  LoneBooks(p)
<1>a. pc[p] = "save" /\ pos[p] <= Len(Diagnostics) /\ Standing(p) /\ Planned(p)
    BY DEF Save, At, Shape, Tasks, Placed, Working, Lone
<1>b. PICK d \in Proposals : d = AtDiagnostic(p)
    BY <1>a, Located DEF Shape
<1>1. /\ attempt' = [attempt EXCEPT ![d] = job[p]] /\ pc'[p] # "reserve"
      /\ pc'[p] \in {"save", "call", "repair"} => pos' = pos
    BY <1>b, MoveKinds DEF Save, Mine
<1>2. attempt'[d] = job[p] /\ \A e \in Proposals \ {d} : attempt'[e] = attempt[e]
    BY <1>1 DEF Shape, TypeOK
<1>3. /\ attempt[d] \in AttemptPayload /\ job[p] \in AttemptPayload /\ Recorded(d)
      /\ Saveable(d, job[p]) /\ job[p].status \in Allowed(attempt[d].status)
      /\ RequestsUsed \in Nat /\ calls[d] \in Nat /\ RequestsUsed <= MaxRequests
    BY <1>a, <1>b, RequestsCount DEF Shape, TypeOK, Books, Standing, Mine, Lone
<1>4. Owns(p)' => pos' = pos /\ job[p].status = "RUNNING"
    <2>1. ASSUME Owns(p)' PROVE pos' = pos /\ job[p].status = "RUNNING"
        <3>1. pos' = pos
            BY <1>1, <2>1 DEF Owns
        <3>2. attempt'[d].status \in {"RESERVED", "RUNNING"}
            BY <1>b, <2>1, <3>1 DEF Owns, Mine, AtDiagnostic
        <3>3. QED BY <1>2, <1>3, <3>1, <3>2, Successor
    <2>2. QED BY <2>1
<1>5. \/ /\ job[p].status = "RUNNING" /\ job[p].requests = 1 /\ attempt[d].requests = 0
         /\ job[p].limit = attempt[d].limit /\ attempt[d].limit >= 1
         /\ attempt[d].status = "RESERVED"
      \/ /\ job[p].status # "RUNNING" /\ attempt[d].status = "RUNNING"
         /\ attempt[d].requests = 1 /\ job[p].requests \in 1..attempt[d].limit
      \/ /\ job[p].status # "RUNNING" /\ job[p].requests = attempt[d].requests
    <2>1. CASE /\ job[p].status = "RUNNING" /\ attempt[d].status = "RESERVED"
               /\ job[p] = RunningAttempt(attempt[d])
        BY <1>3, <2>1 DEF RunningAttempt, AttemptPayload, Recorded
    <2>2. CASE job[p].status \in {"PROVIDER_SUCCEEDED", "REVIEWING"} /\ Usage(d, job[p])
        BY <1>3, <2>2 DEF Usage, AttemptPayload, Recorded
    <2>3. CASE job[p].status = "REVIEWING" /\ job[p] = Reviewing(attempt[d])
        BY <1>3, <2>3 DEF Reviewing, AttemptPayload
    <2>4. CASE job[p].status = "COMPLETED" /\ job[p] = Completed(attempt[d], job[p].outcome)
        BY <1>3, <2>4 DEF Completed, AttemptPayload
    <2>5. QED BY <1>3, <2>1, <2>2, <2>3, <2>4, Successor
<1>6. RequestsUsed' + attempt[d].requests = RequestsUsed + job[p].requests
    BY <1>2, <1>3, <1>5, Booking DEF AttemptPayload
<1>7. RequestsUsed' \in Nat
    <2>1. IsFiniteSet(Requested')
        BY ProposalsFinite, FS_Subset DEF Requested
    <2>2. QED BY <2>1, FS_CardinalityType DEF RequestsUsed, Requested
<1>8. attempt[d].status \in {"RESERVED", "RUNNING"} =>
          RequestsUsed + attempt[d].limit <= MaxRequests + attempt[d].requests
    BY <1>a, <1>b DEF Planned, Owns, Mine
<1>9. /\ attempt[d].limit \in 0..2 /\ attempt[d].requests \in 0..2 /\ job[p].requests \in 0..2
      /\ job[p].limit \in 0..2 /\ MaxRequests \in Nat
    BY <1>3, RecoveryAssumption DEF AttemptPayload
<1>10. RequestsUsed' <= MaxRequests
    BY <1>3, <1>5, <1>6, <1>7, <1>8, <1>9
<1>11. Planned(p)'
    <2>1. ~Fresh(p)'
        BY <1>1 DEF Fresh
    <2>2. ASSUME Owns(p)'
          PROVE  RequestsUsed' + attempt'[d].limit <= MaxRequests + attempt'[d].requests
        <3>1. job[p].status = "RUNNING"
            BY <1>4, <2>2
        <3>2. QED BY <1>2, <1>3, <1>5, <1>6, <1>7, <1>8, <1>9, <3>1
    <2>3. Owns(p)' => AtDiagnostic(p)' = d
        BY <1>b, <1>4 DEF AtDiagnostic
    <2>4. QED BY <2>1, <2>2, <2>3 DEF Planned, Mine
<1>12. QED BY <1>10, <1>11 DEF LoneBooks

LEMMA SoleQuiet ==
    ASSUME Lone, ~overlapped, NEW p \in Workers, attempt' = attempt,
           Fresh(p)' => RequestsUsed + job'[p].limit <= MaxRequests,
           Owns(p)' => Owns(p) /\ pos' = pos
    PROVE  LoneBooks(p)
<1>1. RequestsUsed' = RequestsUsed
    BY DEF RequestsUsed
<1>2. RequestsUsed' <= MaxRequests /\ Planned(p)
    BY <1>1 DEF Lone
<1>3. Planned(p)'
    <2>1. Owns(p)' => Mine(p)' = Mine(p) /\ RequestsUsed + Mine(p).limit <= MaxRequests + Mine(p).requests
        BY <1>2 DEF Planned, Mine, AtDiagnostic
    <2>2. QED BY <1>1, <2>1 DEF Planned
<1>4. QED BY <1>2, <1>3 DEF LoneBooks

LEMMA SoleBooks ==
    ASSUME Shape, Shape', Lone, ~overlapped, NEW p \in Workers, Start(p) \/ Step(p) \/ Interrupt(p)
    PROVE  LoneBooks(p)
<1>0. /\ \A a, l : Hold(p, a, l) => pos' = pos /\ pc'[p] = l /\ job'[p] = a
      /\ Advance(p) => pc'[p] = "pick"
      /\ Stop(p) => pc'[p] = "idle"
    BY DEF Hold, Advance, Stop, Goto, Shape, TypeOK
<1>1. CASE Handing(p)
    <2>1. attempt' = attempt
        BY <1>1, HandingStep
    <2>2. PICK l \in Labels, r \in RunPayload : Turn(p, l, r)
        BY <1>1, HandingStep
    <2>3. pc'[p] \notin Working
        BY <2>2 DEF Turn, Shape, TypeOK
    <2>4. QED BY <2>1, <2>3, SoleQuiet DEF Fresh, Owns, Working
<1>2. CASE Pick(p)
    <2>1. attempt' = attempt
        BY <1>2 DEF Pick, dbVars
    <2>2. CASE pos[p] > Len(Diagnostics)
        <3>1. pc'[p] = "bundles"
            BY <1>2, <2>2 DEF Pick, Goto, Shape, TypeOK
        <3>2. QED BY <2>1, <3>1, SoleQuiet DEF Fresh, Owns
    <2>3. CASE ~(pos[p] > Len(Diagnostics)) /\ WindowOf[AtDiagnostic(p)] = NoWindow
        BY <1>0, <1>2, <2>1, <2>3, SoleQuiet DEF Pick, Fresh, Owns
    <2>4. CASE ~(pos[p] > Len(Diagnostics)) /\ WindowOf[AtDiagnostic(p)] # NoWindow
        <3>1. /\ pos' = pos /\ pc'[p] \in {"derive", "reserve"}
              /\ pc'[p] = "reserve" => attempt[AtDiagnostic(p)].status # "ABSENT"
            BY <1>0, <1>2, <2>4 DEF Pick
        <3>2. QED BY <2>1, <3>1, SoleQuiet DEF Fresh, Owns, Mine, AtDiagnostic
    <2>5. QED BY <2>2, <2>3, <2>4
<1>3. CASE Derive(p)
    <2>1. attempt' = attempt
        BY <1>3 DEF Derive, dbVars
    <2>2. CASE Exhausted(AtDiagnostic(p))
        BY <1>0, <1>3, <2>1, <2>2, SoleQuiet DEF Derive, Fresh, Owns
    <2>3. CASE ~Exhausted(AtDiagnostic(p))
        <3>1. pc'[p] = "reserve" /\ job'[p] = ReservedAttempt(CallLimit)
            BY <1>0, <1>3, <2>3 DEF Derive
        <3>2. job'[p].limit = CallLimit
            BY <3>1 DEF ReservedAttempt, NoAttempt
        <3>3. RequestsUsed + CallLimit <= MaxRequests
            BY RequestsCount, RecoveryAssumption DEF CallLimit
        <3>4. QED BY <2>1, <3>1, <3>2, <3>3, SoleQuiet DEF Owns
    <2>4. QED BY <2>2, <2>3
<1>4. CASE Reserve(p)
    <2>1. CASE Mine(p).status = "ABSENT"
        BY <1>4, <2>1, SoleInsert DEF Reserve, At, Fresh
    <2>2. CASE Mine(p).status # "ABSENT"
        <3>1. attempt' = attempt
            BY <1>4, <2>2 DEF Reserve, Reservable, Mine
        <3>2. \/ pc'[p] \in {"pick", "judge"}
              \/ pc'[p] = "save" /\ pos' = pos /\ Mine(p).status = "PROVIDER_SUCCEEDED"
            BY <1>0, <1>4, <2>2 DEF Reserve, Reservable, Resumes, Mine
        <3>3. QED BY <3>1, <3>2, SoleQuiet DEF Fresh, Owns, Mine, AtDiagnostic
    <2>3. QED BY <2>1, <2>2
<1>5. CASE Save(p)
    <2>1. CASE job[p].status \in Allowed(Mine(p).status)
        BY <1>5, <2>1, SoleSave
    <2>2. CASE job[p].status \notin Allowed(Mine(p).status)
        BY <1>0, <1>5, <2>2, SoleQuiet DEF Save, Mine, Fresh, Owns
    <2>3. QED BY <2>1, <2>2
<1>6. CASE Call(p) \/ Repair(p)
    <2>1. attempt' = attempt /\ pc[p] \in {"call", "repair"}
        BY <1>6 DEF Call, Repair, At, dbVars
    <2>2. Owns(p)
        BY <2>1 DEF Owns, Mine, Shape, Tasks, Standing
    <2>3. \/ pc'[p] \in {"save", "repair"} /\ pos' = pos
          \/ pc'[p] = "idle"
        BY <1>0, <1>6 DEF Call, Repair, Answered
    <2>4. QED BY <2>1, <2>2, <2>3, SoleQuiet DEF Fresh, Owns
<1>7. CASE Judge(p)
    <2>1. attempt' = attempt /\ pc'[p] = "save" /\ pos' = pos
        BY <1>0, <1>7 DEF Judge, dbVars
    <2>2. Mine(p).status \in {"REVIEWING", "COMPLETED"}
        BY <1>7 DEF Judge, At, Mine, Shape, Tasks, Standing
    <2>3. QED BY <2>1, <2>2, SoleQuiet DEF Fresh, Owns, Mine, AtDiagnostic
<1>8. CASE Bundles(p) \/ Interrupt(p)
    <2>1. attempt' = attempt /\ pc'[p] = "idle"
        BY <1>0, <1>8 DEF Bundles, Interrupt, dbVars
    <2>2. QED BY <2>1, SoleQuiet DEF Fresh, Owns
<1>9. QED BY <1>1, <1>2, <1>3, <1>4, <1>5, <1>6, <1>7, <1>8 DEF Step, Handing

LEMMA LoneInit == Init => Lone
<1> SUFFICES ASSUME Init PROVE Lone
    OBVIOUS
<1>1. Requested = {}
    <2>1. \A d \in Proposals : attempt[d].requests = 0
        BY DEF Init, NoAttempt
    <2>2. QED BY <2>1 DEF Requested
<1>2. RequestsUsed <= MaxRequests
    <2>1. RequestsUsed = Cardinality(Requested)
        BY DEF RequestsUsed, Requested
    <2>2. Cardinality(Requested) = 0
        BY <1>1, FS_EmptySet
    <2>3. QED BY <2>1, <2>2, RecoveryAssumption
<1>3. \A p \in Workers : pc[p] = "idle"
    BY DEF Init
<1>4. \A p \in Workers : CopyFits(p) /\ Planned(p)
    BY <1>3 DEF CopyFits, Copying, Claiming, Planned, Fresh, Owns
<1>5. QED BY <1>2, <1>3, <1>4 DEF Lone, Init, NewRun, MaxClaims

LEMMA AloneStep ==
    ASSUME Shape, Shape', Lone, NEW p \in Workers, Start(p) \/ Step(p) \/ Interrupt(p), ~overlapped'
    PROVE  Lone' /\ ~overlapped /\ LoneRun(p)
<1>1. ~overlapped /\ \A q \in Workers \ {p} : pc[q] = "idle"
    BY Sole
<1>2. \A q \in Workers \ {p} : pc'[q] = "idle"
    BY <1>1, StepKinds DEF Mates
<1>3. LoneRun(p) /\ LoneBooks(p)
    BY <1>1, SoleRun, SoleBooks
<1>4. \A q \in Workers \ {p} : CopyFits(q)' /\ Planned(q)'
    BY <1>2 DEF CopyFits, Copying, Claiming, Planned, Fresh, Owns
<1>5. QED BY <1>1, <1>2, <1>3, <1>4 DEF Lone, LoneRun, LoneBooks

LEMMA LoneStep == Shape /\ Shape' /\ Lone /\ [Next]_vars => Lone'
<1> SUFFICES ASSUME Shape, Shape', Lone, [Next]_vars, ~overlapped' PROVE Lone'
    BY DEF Lone
<1>1. ASSUME NEW p \in Workers, Start(p) \/ Step(p) \/ Interrupt(p) PROVE Lone'
    BY <1>1, AloneStep
<1>2. CASE TimePasses
    <2>1. /\ run' = Aged(run) /\ \A p \in Workers : snap'[p] = Aged(snap[p])
          /\ UNCHANGED <<attempt, pc, pos, job, overlapped>>
        BY <1>2 DEF TimePasses
    <2>2. run'.claims = run.claims /\ run'.review = run.review
        BY <2>1, RunFields DEF Shape, TypeOK
    <2>3. \A p \in Workers : CopyFits(p) => CopyFits(p)'
        BY <2>1, <2>2 DEF CopyFits
    <2>4. \A p \in Workers : Planned(p) => Planned(p)'
        BY <2>1 DEF Planned, Fresh, Owns, Mine, AtDiagnostic, RequestsUsed
    <2>5. RequestsUsed' = RequestsUsed
        BY <2>1 DEF RequestsUsed
    <2>6. QED BY <2>1, <2>2, <2>3, <2>4, <2>5 DEF Lone
<1>3. CASE UNCHANGED vars
    BY <1>3 DEF vars, Lone, CopyFits, Planned, Fresh, Owns, Mine, AtDiagnostic, RequestsUsed
<1>4. QED BY <1>1, <1>2, <1>3 DEF Next

LEMMA AuditStep ==
    ASSUME Shape, Shape', Lone, [Next]_vars, run.review # "NONE", ~overlapped'
    PROVE  run'.review = run.review /\ run'.handoff = run.handoff
<1>1. ASSUME NEW p \in Workers, Start(p) \/ Step(p) \/ Interrupt(p)
      PROVE  run'.review = run.review /\ run'.handoff = run.handoff
    BY <1>1, AloneStep DEF LoneRun
<1>2. CASE TimePasses
    BY <1>2, RunFields DEF TimePasses, Shape, TypeOK
<1>3. CASE UNCHANGED vars
    BY <1>3 DEF vars
<1>4. QED BY <1>1, <1>2, <1>3 DEF Next

\* A completed row is not a new one, and save_attempt_transition refuses it.
LEMMA OutcomeStep ==
    ASSUME Shape, [Next]_vars, NEW d \in Proposals, attempt[d].status = "COMPLETED"
    PROVE  attempt'[d] = attempt[d]
<1>1. CASE attempt' = attempt
    BY <1>1
<1>2. ASSUME NEW p \in Workers, Reserve(p), attempt' # attempt PROVE attempt'[d] = attempt[d]
    <2>1. /\ attempt' = [attempt EXCEPT ![AtDiagnostic(p)] = job[p]]
          /\ attempt[AtDiagnostic(p)].status = "ABSENT"
        BY <1>2 DEF Reserve, Reservable
    <2>2. QED BY <2>1 DEF Shape, TypeOK
<1>3. ASSUME NEW p \in Workers, Save(p), attempt' # attempt PROVE attempt'[d] = attempt[d]
    <2>1. /\ attempt' = [attempt EXCEPT ![AtDiagnostic(p)] = job[p]]
          /\ job[p].status \in Allowed(attempt[AtDiagnostic(p)].status)
        BY <1>3 DEF Save
    <2>2. attempt[AtDiagnostic(p)].status # "COMPLETED"
        BY <2>1 DEF Allowed
    <2>3. QED BY <2>1, <2>2 DEF Shape, TypeOK
<1>4. ASSUME NEW p \in Workers, Start(p) \/ Step(p) \/ Interrupt(p), ~Reserve(p), ~Save(p)
      PROVE  attempt' = attempt
    BY <1>4, HandingStep
       DEF Step, Handing, Pick, Derive, Call, Repair, Judge, Bundles, Interrupt, dbVars
<1>5. CASE TimePasses \/ UNCHANGED vars
    BY <1>1, <1>5 DEF TimePasses, vars
<1>6. QED BY <1>1, <1>2, <1>3, <1>4, <1>5 DEF Next, Step

LEMMA LoneAlways == Spec => [](Shape /\ Lone)
<1>1. Init => Shape /\ Lone
    BY InitShape, LoneInit
<1>2. Shape /\ Lone /\ [Next]_vars => (Shape /\ Lone)'
    BY ShapeStep, LoneStep
<1>3. QED BY <1>1, <1>2, PTL DEF Spec

\* Budgets: one task after the other, with interruptions and resumes wherever they fall, keeps
\* the attempts, the Provider requests of a run and the tries of its handoff in their budgets.
THEOREM BudgetsAreKept == Spec => []BudgetsKept
<1>1. RecoverySound /\ Lone => BudgetsKept
    BY DEF RecoverySound, Lone, BudgetsKept, RequestBudget, HandoffBudget, MaxClaims
<1>2. QED BY <1>1, RecoveryIsSound, LoneAlways, PTL

\* Outcomes: the outcome of an attempt is never replaced, whichever tasks resume it, and a stored
\* audit never as long as tasks do not overlap.
THEOREM OutcomesAreFinal == Spec => OutcomesStand
<1>1. Shape /\ Shape' /\ Lone /\ [Next]_vars =>
          [\A d \in Proposals : attempt[d].status = "COMPLETED" => attempt'[d] = attempt[d]]_vars
    BY OutcomeStep
<1>2. Shape /\ Shape' /\ Lone /\ [Next]_vars =>
          [run.review # "NONE" /\ ~overlapped' =>
              run'.review = run.review /\ run'.handoff = run.handoff]_vars
    BY AuditStep
<1>3. QED BY <1>1, <1>2, LoneAlways, PTL DEF OutcomesStand, OutcomeFinal, AuditKept, Spec
=============================================================================

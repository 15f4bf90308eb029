------------------------- MODULE TimelineGate3Proofs -------------------------
(***************************************************************************)
(* What TimelineGate3 guarantees for any number of workers, reviewers,     *)
(* restarts and Provider calls.                                            *)
(***************************************************************************)
EXTENDS TimelineGate3, TLAPS

LEMMA RunTypes ==
    /\ AbsentRun \in Run
    /\ ReservedRun \in Run
    /\ BundlelessRun \in Run
    /\ NoProposal \in Proposal
  BY DEF AbsentRun, ReservedRun, BundlelessRun, HeldProposal, NoProposal, Run, Proposal, Status,
    Terminal, Resolution, Quality

\* What the operators on payloads return.
LEMMA PayloadTypes ==
    ASSUME NEW r \in Run
    PROVE  /\ \A status \in Status : [r EXCEPT !.status = status] \in Run
           /\ \A proposal \in Proposal : Judged(r, proposal) \in Run
           /\ \A resolution \in Resolution : Resolved(r, resolution) \in Run
           /\ Recovering(r) \in Run
           /\ \A new \in Run : Transition(r, new) \in Run
  <1>1. \A status \in Status : [r EXCEPT !.status = status] \in Run
    BY DEF Run
  <1>2. \A proposal \in Proposal : Judged(r, proposal) \in Run
    <2>1. \A proposal \in Proposal : Decision(proposal.quality) \in Status
      BY DEF Decision, Status, Terminal
    <2> QED BY <2>1 DEF Judged, Run, Proposal
  <1>3. \A resolution \in Resolution : Resolved(r, resolution) \in Run
    BY DEF Resolved, Run, Resolution, Status, Terminal, Proposal
  <1>4. Recovering(r) \in Run
    <2>1. r.attempts + 1 \in Nat /\ r.proposal.id \in Nat /\ "RECOVERY_RUNNING" \in Status
      BY DEF Run, Proposal, Status
    <2> QED BY <2>1 DEF Recovering, Run
  <1>5. \A new \in Run : Transition(r, new) \in Run
    BY DEF Transition
  <1> QED BY <1>1, <1>2, <1>3, <1>4, <1>5

LEMMA TypeInit == Init => TypeOK
  BY RunTypes, ConstantsAssumption DEF Init, TypeOK, Labels, Resolution

LEMMA ReturnTypes ==
    ASSUME TypeOK, NEW p \in Workers, NEW r \in Run, Return(p, r)
    PROVE  /\ pc' \in [Workers -> Labels]
           /\ copy' \in [Workers -> Run]
           /\ recovery' \subseteq Workers
  BY RunTypes DEF TypeOK, Return, Leave, Goto, Labels

LEMMA TypeStep == TypeOK /\ [Next]_vars => TypeOK'
  <1> SUFFICES ASSUME TypeOK, [Next]_vars PROVE TypeOK'
    OBVIOUS
  <1> USE RunTypes, PayloadTypes
  <1>1. ASSUME NEW p \in Workers, Reserve(p) PROVE TypeOK'
    <2> DEFINE r == IF row.status = "ABSENT" THEN ReservedRun ELSE row
    <2>1. r \in Run /\ row' = r
      BY <1>1 DEF Reserve, TypeOK
    <2>2. CASE r.status \in Terminal \cup {"RUNNING"}
      BY <1>1, <2>1, <2>2, ReturnTypes DEF Reserve, TypeOK
    <2>3. CASE r.status \notin Terminal \cup {"RUNNING"}
      BY <1>1, <2>1, <2>3 DEF Reserve, TypeOK, Goto, Labels
    <2> QED BY <2>2, <2>3
  <1>2. ASSUME NEW p \in Workers, ClaimProvider(p) PROVE TypeOK'
    <2>1. "RUNNING" \in Status
      BY DEF Status
    <2>2. CASE ProviderFree
      BY <1>2, <2>1, <2>2 DEF ClaimProvider, TypeOK, Goto, Labels
    <2>3. CASE ~ProviderFree
      BY <1>2, <2>3, ReturnTypes DEF ClaimProvider, TypeOK
    <2> QED BY <2>2, <2>3
  <1>3. ASSUME NEW p \in Workers, Reread(p) PROVE TypeOK'
    BY <1>3 DEF Reread, TypeOK, Goto, Labels
  <1>4. ASSUME NEW p \in Workers, ProviderAnswers(p) PROVE TypeOK'
    <2>1. calls' \in [initial : Nat, recovery : Nat]
      BY <1>4 DEF ProviderAnswers, Calling, TypeOK
    <2>2. PICK quality \in Qualities :
            Goto(p, "audit",
                 [copy[p] EXCEPT !.status = "PROVIDER_SUCCEEDED",
                                 !.proposal = [id |-> calls.initial + calls.recovery + 1,
                                               quality |-> quality,
                                               attempt |-> copy[p].attempts]])
      BY <1>4 DEF ProviderAnswers
    <2>3. [id |-> calls.initial + calls.recovery + 1, quality |-> quality,
           attempt |-> copy[p].attempts] \in Proposal
      <3>1. calls.initial + calls.recovery + 1 \in Nat
        BY DEF TypeOK
      <3>2. copy[p].attempts \in Nat
        BY DEF TypeOK, Run
      <3> QED BY <3>1, <3>2, ConstantsAssumption DEF Proposal
    <2>4. "PROVIDER_SUCCEEDED" \in Status /\ copy[p] \in Run
      BY DEF TypeOK, Status
    <2>5. [copy[p] EXCEPT !.status = "PROVIDER_SUCCEEDED",
                          !.proposal = [id |-> calls.initial + calls.recovery + 1,
                                        quality |-> quality,
                                        attempt |-> copy[p].attempts]] \in Run
      BY <2>3, <2>4 DEF Run
    <2> QED BY <1>4, <2>1, <2>2, <2>5 DEF ProviderAnswers, Goto, TypeOK, Labels
  <1>5. ASSUME NEW p \in Workers, ProviderFails(p) PROVE TypeOK'
    <2>1. calls' \in [initial : Nat, recovery : Nat]
      BY <1>5 DEF ProviderFails, Calling, TypeOK
    <2>2. "FAILED" \in Status
      BY DEF Status, Terminal
    <2> QED BY <1>5, <2>1, <2>2 DEF ProviderFails, FailureStatus, Goto, TypeOK, Labels
  <1>6. ASSUME NEW p \in Workers, AuditAnswer(p) PROVE TypeOK'
    <2>1. copy[p].attempts \in Nat
      BY DEF TypeOK, Run
    <2> QED BY <1>6, <2>1 DEF AuditAnswer, Audit, Leave, Goto, TypeOK, Labels
  <1>7. ASSUME NEW p \in Workers, SaveAnswer(p) PROVE TypeOK'
    <2> DEFINE r == Transition(row, copy[p])
    <2>1. r \in Run /\ row' = r
      BY <1>7 DEF SaveAnswer, TypeOK
    <2>2. CASE copy[p].status = "PROVIDER_SUCCEEDED"
      BY <1>7, <2>1, <2>2 DEF SaveAnswer, TypeOK, Goto, Labels
    <2>3. CASE copy[p].status # "PROVIDER_SUCCEEDED"
      BY <1>7, <2>1, <2>3, ReturnTypes DEF SaveAnswer, TypeOK
    <2> QED BY <2>2, <2>3
  <1>8. ASSUME NEW p \in Workers, ClaimReview(p) PROVE TypeOK'
    <2>1. "REVIEWING" \in Status /\ copy[p] \in Run
      BY DEF Status, TypeOK
    <2>2. CASE copy[p].proposal # NoProposal /\ ReviewFree
      BY <1>8, <2>1, <2>2 DEF ClaimReview, TypeOK, Goto, Labels
    <2>3. CASE ~(copy[p].proposal # NoProposal /\ ReviewFree)
      BY <1>8, <2>1, <2>3, ReturnTypes DEF ClaimReview, TypeOK
    <2> QED BY <2>2, <2>3
  <1>9. ASSUME NEW p \in Workers, AuditReview(p) PROVE TypeOK'
    <2>1. copy[p].proposal.attempt \in Nat
      BY DEF TypeOK, Run, Proposal
    <2> QED BY <1>9, <2>1 DEF AuditReview, Audit, Leave, Goto, TypeOK, Labels
  <1>10. ASSUME NEW p \in Workers, Judge(p) PROVE TypeOK'
    <2> DEFINE r == Transition(row, Judged(row, copy[p].proposal))
    <2>1. copy[p].proposal \in Proposal /\ row \in Run
      BY DEF TypeOK, Run
    <2>2. r \in Run /\ row' = r /\ Return(p, r)
      BY <1>10, <2>1 DEF Judge
    <2> QED BY <1>10, <2>2, ReturnTypes DEF Judge, TypeOK
  <1>11. ASSUME NEW p \in Workers, ReadRejection(p) PROVE TypeOK'
    BY <1>11 DEF ReadRejection, Leave, Goto, TypeOK, Labels
  <1>12. ASSUME NEW p \in Workers, ClaimRecovery(p) PROVE TypeOK'
    <2>1. copy[p] \in Run
      BY DEF TypeOK
    <2> QED BY <1>12, <2>1 DEF ClaimRecovery, Leave, Goto, TypeOK, Labels
  <1>13. ASSUME NEW h \in Reviewers, Resolve(h) PROVE TypeOK'
    <2>1. hold[h].run \in Run /\ hold[h].resolution \in Resolution
      BY DEF TypeOK
    <2>2. row' \in Run
      BY <1>13, <2>1 DEF Resolve, TypeOK
    <2> QED BY <1>13, <2>2 DEF Resolve, TypeOK
  <1>14. ASSUME NEW h \in Reviewers, NEW resolution \in Resolution, ReadHold(h, resolution)
         PROVE TypeOK'
    BY <1>14 DEF ReadHold, TypeOK
  <1>15. ASSUME Restart PROVE TypeOK'
    BY <1>15, ConstantsAssumption DEF Restart, TypeOK, Labels, Resolution
  <1>16. ASSUME UNCHANGED vars PROVE TypeOK'
    BY <1>16 DEF vars, TypeOK
  <1>17. ASSUME NEW p \in Workers, AdapterRaises(p) PROVE TypeOK'
    BY <1>17 DEF AdapterRaises, Leave, Goto, TypeOK, Labels
  <1> QED
    BY <1>1, <1>2, <1>3, <1>4, <1>5, <1>6, <1>7, <1>8, <1>9, <1>10, <1>11, <1>12, <1>13, <1>14,
       <1>15, <1>16, <1>17
       DEF Next, Step

\* The row and every copy of it stay well formed.
THEOREM TypeCorrect == Spec => []TypeOK
  BY TypeInit, TypeStep, PTL DEF Spec

-----------------------------------------------------------------------------
(* The status as a lock *)

\* What a worker's copy looks like at each step, and where it is not inside recover.
Shape ==
    \A p \in Workers :
        /\ pc[p] \in {"idle", "claimProvider", "recover", "claimRecovery"} => p \notin recovery
        /\ pc[p] = "claimProvider" => copy[p].status \notin Terminal
        /\ pc[p] = "call" => copy[p].status \in {"RUNNING", "RECOVERY_RUNNING"}
        /\ pc[p] = "audit" => copy[p].status = "PROVIDER_SUCCEEDED"
        /\ pc[p] = "save" => copy[p].status \in {"PROVIDER_SUCCEEDED", "FAILED"}
        /\ pc[p] = "review" => copy[p].status \in {"PROVIDER_SUCCEEDED", "REVIEWING"}
        /\ pc[p] = "claimRecovery" => copy[p].status = "REJECTED"

\* A reviewer only ever holds a run that was open to a resolution.
HoldShape ==
    \A h \in Reviewers :
        hold[h].run # AbsentRun => hold[h].run.status \in {"NEEDS_HUMAN_REVIEW", "APPROVED"}

Lock == TypeOK /\ HeldRun /\ Shape /\ HoldShape

LEMMA LockInit == Init => Lock
  BY TypeInit DEF Init, Lock, HeldRun, Shape, HoldShape, Holds, InProvider, InReview

\* Where a worker stands once run_if_approved or recover has returned to it.
LEMMA ReturnShape ==
    ASSUME TypeOK, NEW p \in Workers, NEW r, Return(p, r)
    PROVE  /\ pc' = [pc EXCEPT ![p] = pc'[p]]
           /\ copy' = [copy EXCEPT ![p] = AbsentRun]
           /\ pc'[p] \in {"idle", "recover"}
           /\ recovery' \subseteq recovery
           /\ p \notin recovery'
           /\ \A q \in Workers : q # p => (q \in recovery' <=> q \in recovery)
  BY DEF TypeOK, Return, Leave, Goto

\* A step of one worker that ends outside every locked section and moves the row only if it
\* held the lock itself.
LEMMA Released ==
    ASSUME Lock, TypeOK', NEW p \in Workers,
           pc' = [pc EXCEPT ![p] = pc'[p]],
           copy' = [copy EXCEPT ![p] = AbsentRun],
           pc'[p] \in {"idle", "recover"},
           p \notin recovery',
           \A q \in Workers : q # p => (q \in recovery' <=> q \in recovery),
           Holds(p) \/ row' = row \/ row.status = "ABSENT",
           UNCHANGED hold
    PROVE  Lock'
  <1>1. \A q \in Workers : q # p => (pc'[q] = pc[q] /\ copy'[q] = copy[q])
    BY DEF Lock, TypeOK
  <1>2. ~Holds(p)'
    BY DEF Holds, InProvider, InReview
  <1>3. \A q \in Workers : q # p => (Holds(q)' <=> Holds(q)) /\ HeldStatus(q)' = HeldStatus(q)
    BY <1>1 DEF Holds, HeldStatus
  <1>4. \A q \in Workers : HeldStatus(q) # "ABSENT"
    BY DEF HeldStatus
  <1>5. HeldRun'
    BY <1>2, <1>3, <1>4 DEF Lock, HeldRun
  <1>6. Shape'
    BY <1>1 DEF Lock, Shape
  <1>7. HoldShape'
    BY DEF Lock, HoldShape
  <1> QED BY <1>5, <1>6, <1>7 DEF Lock

LEMMA LeaveShape ==
    ASSUME TypeOK, NEW p \in Workers, Leave(p)
    PROVE  /\ pc' = [pc EXCEPT ![p] = pc'[p]]
           /\ copy' = [copy EXCEPT ![p] = AbsentRun]
           /\ pc'[p] \in {"idle", "recover"}
           /\ p \notin recovery'
           /\ \A q \in Workers : q # p => (q \in recovery' <=> q \in recovery)
  BY DEF TypeOK, Leave, Goto

\* A conditional update that found the row free: nobody else holds it.
LEMMA Claimed ==
    ASSUME Lock, TypeOK', NEW p \in Workers, NEW label \in {"reread", "auditReview"},
           pc' = [pc EXCEPT ![p] = label],
           copy' = copy,
           UNCHANGED hold,
           recovery' \in {recovery, recovery \cup {p}},
           row.status \in {"RESERVED", "PROVIDER_SUCCEEDED", "REJECTED"},
           row'.status = HeldStatus(p)'
    PROVE  Lock'
  <1>1. \A q \in Workers : ~Holds(q)
    BY DEF Lock, HeldRun, HeldStatus
  <1>2. \A q \in Workers : q # p => ~Holds(q)'
    BY <1>1 DEF Lock, TypeOK, Holds
  <1>3. HeldRun'
    BY <1>2 DEF Lock, HeldRun
  <1>4. Shape'
    BY DEF Lock, TypeOK, Shape
  <1>5. HoldShape'
    BY DEF Lock, HoldShape
  <1> QED BY <1>3, <1>4, <1>5 DEF Lock

\* A step inside a locked section.
LEMMA Kept ==
    ASSUME Lock, TypeOK', NEW p \in Workers, NEW label, NEW r,
           pc' = [pc EXCEPT ![p] = label],
           copy' = [copy EXCEPT ![p] = r],
           UNCHANGED <<row, recovery, hold>>,
           \/ pc[p] \in InProvider /\ label \in InProvider
           \/ pc[p] \in InReview /\ label \in InReview,
           label = "call" => r.status \in {"RUNNING", "RECOVERY_RUNNING"},
           label = "audit" => r.status = "PROVIDER_SUCCEEDED",
           label = "save" => r.status \in {"PROVIDER_SUCCEEDED", "FAILED"}
    PROVE  Lock'
  <1>1. pc'[p] = label /\ copy'[p] = r
    BY DEF Lock, TypeOK
  <1>2. \A q \in Workers : q # p => (pc'[q] = pc[q] /\ copy'[q] = copy[q])
    BY DEF Lock, TypeOK
  <1>3. \A q \in Workers : (Holds(q)' <=> Holds(q)) /\ HeldStatus(q)' = HeldStatus(q)
    BY <1>1, <1>2 DEF Holds, HeldStatus, InProvider, InReview
  <1>4. HeldRun'
    BY <1>3 DEF Lock, HeldRun
  <1>5. Shape'
    BY <1>1, <1>2 DEF Lock, Shape, InProvider, InReview
  <1>6. HoldShape'
    BY DEF Lock, HoldShape
  <1> QED BY <1>4, <1>5, <1>6 DEF Lock

\* The Provider's answer is saved: the holder lets the row go.
LEMMA LetGo ==
    ASSUME Lock, TypeOK', NEW p \in Workers, Holds(p),
           copy[p].status = "PROVIDER_SUCCEEDED",
           pc' = [pc EXCEPT ![p] = "review"],
           copy' = copy,
           UNCHANGED <<recovery, hold>>
    PROVE  Lock'
  <1>1. \A q \in Workers : ~Holds(q)'
    BY DEF Lock, TypeOK, HeldRun, Holds, InProvider, InReview
  <1>2. HeldRun'
    BY <1>1 DEF HeldRun
  <1>3. Shape'
    BY DEF Lock, TypeOK, Shape
  <1>4. HoldShape'
    BY DEF Lock, HoldShape
  <1> QED BY <1>2, <1>3, <1>4 DEF Lock

LEMMA LockStep == Lock /\ [Next]_vars => Lock'
  <1> SUFFICES ASSUME Lock, [Next]_vars PROVE Lock'
    OBVIOUS
  <1> TypeOK /\ TypeOK'
    BY TypeStep DEF Lock
  <1> USE DEF Lock
  <1>1. ASSUME NEW p \in Workers, Reserve(p) PROVE Lock'
    <2> DEFINE r == IF row.status = "ABSENT" THEN ReservedRun ELSE row
    <2>1. CASE r.status \in Terminal \cup {"RUNNING"}
      <3>1. Return(p, r) /\ UNCHANGED hold
        BY <1>1, <2>1 DEF Reserve
      <3>2. row' = row \/ row.status = "ABSENT"
        BY <1>1 DEF Reserve
      <3> QED BY <3>1, <3>2, ReturnShape, Released
    <2>2. CASE r.status \notin Terminal \cup {"RUNNING"}
      <3>1. ~Holds(p) /\ p \notin recovery
        BY <1>1 DEF Reserve, At, Shape, Holds, InProvider, InReview
      <3>2. /\ pc' = [pc EXCEPT ![p] = pc'[p]]
            /\ copy' = [copy EXCEPT ![p] = r]
            /\ recovery' = recovery
            /\ hold' = hold
            /\ \/ pc'[p] = "review" /\ r.status \in {"PROVIDER_SUCCEEDED", "REVIEWING"}
               \/ pc'[p] = "claimProvider"
        BY <1>1, <2>2 DEF Reserve, Goto, TypeOK
      <3>3. row' = row \/ row.status = "ABSENT"
        BY <1>1 DEF Reserve
      <3>4. \A q \in Workers : q # p => pc'[q] = pc[q] /\ copy'[q] = copy[q]
        BY <3>2 DEF TypeOK
      <3>5. ~Holds(p)' /\ copy'[p] = r
        BY <3>2 DEF Holds, InProvider, InReview, TypeOK
      <3>6. \A q \in Workers : q # p => (Holds(q)' <=> Holds(q)) /\ HeldStatus(q)' = HeldStatus(q)
        BY <3>2, <3>4 DEF Holds, HeldStatus
      <3>7. HeldRun'
        BY <3>3, <3>5, <3>6 DEF HeldRun, HeldStatus
      <3>8. Shape'
        BY <2>2, <3>1, <3>2, <3>4, <3>5 DEF Shape
      <3>9. HoldShape'
        BY <3>2 DEF HoldShape
      <3> QED BY <3>7, <3>8, <3>9
    <2> QED BY <2>1, <2>2
  <1>2. ASSUME NEW p \in Workers, ClaimProvider(p) PROVE Lock'
    <2>1. CASE ProviderFree
      <3>1. p \notin recovery /\ row.status = "RESERVED"
        BY <1>2, <2>1 DEF ClaimProvider, At, Shape, ProviderFree
      <3>2. /\ pc' = [pc EXCEPT ![p] = "reread"]
            /\ copy' = copy
            /\ UNCHANGED <<recovery, hold>>
            /\ row'.status = "RUNNING"
        <4>1. copy[p] \in Run
          BY DEF TypeOK
        <4> QED BY <1>2, <2>1, <4>1 DEF ClaimProvider, Goto, TypeOK, Run
      <3>3. row'.status = HeldStatus(p)'
        BY <3>1, <3>2 DEF HeldStatus, InReview, TypeOK
      <3> QED BY <3>1, <3>2, <3>3, Claimed
    <2>2. CASE ~ProviderFree
      BY <1>2, <2>2, ReturnShape, Released DEF ClaimProvider
    <2> QED BY <2>1, <2>2
  <1>3. ASSUME NEW p \in Workers, Reread(p) PROVE Lock'
    <2>1. pc[p] = "reread" /\ row.status \in {"RUNNING", "RECOVERY_RUNNING"}
      BY <1>3 DEF Reread, At, HeldRun, Holds, HeldStatus, InProvider, InReview
    <2> QED BY <1>3, <2>1, Kept DEF Reread, Goto, InProvider, InReview
  <1>4. ASSUME NEW p \in Workers, ProviderAnswers(p) PROVE Lock'
    <2>1. PICK quality \in Qualities :
            Goto(p, "audit",
                 [copy[p] EXCEPT !.status = "PROVIDER_SUCCEEDED",
                                 !.proposal = [id |-> calls.initial + calls.recovery + 1,
                                               quality |-> quality,
                                               attempt |-> copy[p].attempts]])
      BY <1>4 DEF ProviderAnswers
    <2> DEFINE r == [copy[p] EXCEPT !.status = "PROVIDER_SUCCEEDED",
                                    !.proposal = [id |-> calls.initial + calls.recovery + 1,
                                                  quality |-> quality,
                                                  attempt |-> copy[p].attempts]]
    <2>2. r.status = "PROVIDER_SUCCEEDED"
      <3>1. copy[p] \in Run
        BY DEF TypeOK
      <3> QED BY <3>1 DEF Run
    <2>3. pc[p] = "call"
      BY <1>4 DEF ProviderAnswers, Calling, At
    <2>4. Goto(p, "audit", r) /\ UNCHANGED <<row, recovery, hold>>
      BY <1>4, <2>1 DEF ProviderAnswers
    <2> HIDE DEF r
    <2> QED BY <2>2, <2>3, <2>4, Kept DEF Goto, InProvider, InReview
  <1>5. ASSUME NEW p \in Workers, ProviderFails(p) PROVE Lock'
    <2>1. PICK r : Goto(p, "save", r) /\ r.status = "FAILED"
      <3>1. copy[p] \in Run
        BY DEF TypeOK
      <3> QED BY <1>5, <3>1 DEF ProviderFails, FailureStatus, Run
    <2>2. pc[p] = "call"
      BY <1>5 DEF ProviderFails, Calling, At
    <2> QED BY <1>5, <2>1, <2>2, Kept DEF ProviderFails, Goto, InProvider, InReview
  <1>6. ASSUME NEW p \in Workers, AuditAnswer(p) PROVE Lock'
    <2>1. pc[p] = "audit" /\ copy[p].status = "PROVIDER_SUCCEEDED"
      BY <1>6 DEF AuditAnswer, At, Shape
    <2>2. CASE Leave(p)
      BY <1>6, <2>2, LeaveShape, Released DEF AuditAnswer, Audit
    <2>3. CASE Goto(p, "save", copy[p]) /\ UNCHANGED recovery
      BY <1>6, <2>1, <2>3, Kept DEF AuditAnswer, Audit, Goto, InProvider, InReview
    <2> QED BY <1>6, <2>2, <2>3 DEF AuditAnswer, Audit
  <1>7. ASSUME NEW p \in Workers, SaveAnswer(p) PROVE Lock'
    <2>1. Holds(p) /\ row.status \notin Terminal /\ pc[p] = "save"
      BY <1>7 DEF SaveAnswer, At, HeldRun, Holds, HeldStatus, InProvider, InReview, Terminal
    <2>2. row' = copy[p]
      BY <1>7, <2>1 DEF SaveAnswer, Transition
    <2>3. CASE copy[p].status = "PROVIDER_SUCCEEDED"
      <3>1. /\ pc' = [pc EXCEPT ![p] = "review"]
            /\ copy' = copy
            /\ UNCHANGED <<recovery, hold>>
        BY <1>7, <2>1, <2>3 DEF SaveAnswer, Transition, Goto, TypeOK
      <3> QED BY <2>1, <2>3, <3>1, LetGo
    <2>4. CASE copy[p].status # "PROVIDER_SUCCEEDED"
      BY <1>7, <2>1, <2>4, ReturnShape, Released DEF SaveAnswer
    <2> QED BY <2>3, <2>4
  <1>8. ASSUME NEW p \in Workers, ClaimReview(p) PROVE Lock'
    <2>1. CASE copy[p].proposal # NoProposal /\ ReviewFree
      <3>1. row.status = "PROVIDER_SUCCEEDED"
        BY <2>1 DEF ReviewFree
      <3>2. /\ pc' = [pc EXCEPT ![p] = "auditReview"]
            /\ copy' = copy
            /\ UNCHANGED <<recovery, hold>>
            /\ row'.status = "REVIEWING"
        <4>1. copy[p] \in Run
          BY DEF TypeOK
        <4> QED BY <1>8, <2>1, <4>1 DEF ClaimReview, Goto, TypeOK, Run
      <3>3. row'.status = HeldStatus(p)'
        BY <3>2 DEF HeldStatus, InReview, TypeOK
      <3> QED BY <3>1, <3>2, <3>3, Claimed
    <2>2. CASE ~(copy[p].proposal # NoProposal /\ ReviewFree)
      BY <1>8, <2>2, ReturnShape, Released DEF ClaimReview
    <2> QED BY <2>1, <2>2
  <1>9. ASSUME NEW p \in Workers, AuditReview(p) PROVE Lock'
    <2>1. pc[p] = "auditReview"
      BY <1>9 DEF AuditReview, At
    <2>2. CASE Leave(p)
      BY <1>9, <2>2, LeaveShape, Released DEF AuditReview, Audit
    <2>3. CASE Goto(p, "judge", copy[p]) /\ UNCHANGED recovery
      BY <1>9, <2>1, <2>3, Kept DEF AuditReview, Audit, Goto, InProvider, InReview
    <2> QED BY <1>9, <2>2, <2>3 DEF AuditReview, Audit
  <1>10. ASSUME NEW p \in Workers, Judge(p) PROVE Lock'
    <2>1. Holds(p)
      BY <1>10 DEF Judge, At, Holds, InReview
    <2> QED BY <1>10, <2>1, ReturnShape, Released DEF Judge
  <1>11. ASSUME NEW p \in Workers, ReadRejection(p) PROVE Lock'
    <2>1. CASE Recoverable(row)
      <3>1. p \notin recovery /\ ~Holds(p) /\ row.status = "REJECTED"
        BY <1>11, <2>1
           DEF ReadRejection, At, Shape, Holds, InProvider, InReview, Recoverable
      <3>2. /\ pc' = [pc EXCEPT ![p] = "claimRecovery"]
            /\ copy' = [copy EXCEPT ![p] = row]
            /\ UNCHANGED <<row, recovery, hold>>
        BY <1>11, <2>1 DEF ReadRejection, Goto
      <3> QED
        BY <3>1, <3>2
           DEF TypeOK, HeldRun, Holds, HeldStatus, InProvider, InReview, Shape, HoldShape
    <2>2. CASE ~Recoverable(row)
      BY <1>11, <2>2, LeaveShape, Released DEF ReadRejection
    <2> QED BY <2>1, <2>2
  <1>12. ASSUME NEW p \in Workers, ClaimRecovery(p) PROVE Lock'
    <2>1. CASE row.status = "REJECTED"
      <3>1. /\ pc' = [pc EXCEPT ![p] = "reread"]
            /\ copy' = copy
            /\ recovery' = recovery \cup {p}
            /\ UNCHANGED hold
            /\ row'.status = "RECOVERY_RUNNING"
        <4>1. copy[p] \in Run
          BY DEF TypeOK
        <4> QED BY <1>12, <2>1, <4>1 DEF ClaimRecovery, Recovering, Goto, TypeOK, Run
      <3>2. row'.status = HeldStatus(p)'
        BY <3>1 DEF HeldStatus, InReview, TypeOK
      <3> QED BY <2>1, <3>1, <3>2, Claimed
    <2>2. CASE row.status # "REJECTED"
      BY <1>12, <2>2, LeaveShape, Released DEF ClaimRecovery
    <2> QED BY <2>1, <2>2
  <1>13. ASSUME NEW h \in Reviewers, Resolve(h) PROVE Lock'
    <2>1. hold[h].run.status \in {"NEEDS_HUMAN_REVIEW", "APPROVED"}
      BY <1>13 DEF Resolve, HoldShape
    <2>2. row' = row \/ row.status \in {"NEEDS_HUMAN_REVIEW", "APPROVED"}
      BY <1>13, <2>1 DEF Resolve, Unresolved
    <2>3. UNCHANGED <<pc, copy, recovery>>
      BY <1>13 DEF Resolve
    <2>4. \A p \in Workers : HeldStatus(p) \notin {"NEEDS_HUMAN_REVIEW", "APPROVED"}
      BY DEF HeldStatus
    <2>5. HeldRun'
      BY <2>2, <2>3, <2>4 DEF HeldRun, Holds, HeldStatus
    <2>6. Shape'
      BY <2>3 DEF Shape
    <2>7. HoldShape'
      <3>1. AbsentRun \in Run
        BY RunTypes
      <3> QED BY <1>13, <3>1 DEF Resolve, HoldShape, TypeOK
    <2> QED BY <2>5, <2>6, <2>7
  <1>14. ASSUME NEW h \in Reviewers, NEW resolution \in Resolution, ReadHold(h, resolution)
         PROVE Lock'
    <2>1. row.status \in {"NEEDS_HUMAN_REVIEW", "APPROVED"}
      BY <1>14 DEF ReadHold, Resolvable
    <2>2. UNCHANGED <<row, pc, copy, recovery>>
      BY <1>14 DEF ReadHold
    <2>3. HoldShape'
      BY <1>14, <2>1 DEF ReadHold, HoldShape, TypeOK
    <2> QED BY <2>2, <2>3 DEF HeldRun, Holds, HeldStatus, Shape
  <1>15. ASSUME Restart PROVE Lock'
    BY <1>15 DEF Restart, HeldRun, Holds, InProvider, InReview, Shape, HoldShape
  <1>16. ASSUME UNCHANGED vars PROVE Lock'
    BY <1>16 DEF vars, HeldRun, Holds, HeldStatus, Shape, HoldShape
  <1>17. ASSUME NEW p \in Workers, AdapterRaises(p) PROVE Lock'
    BY <1>17, LeaveShape, Released DEF AdapterRaises
  <1> QED
    BY <1>1, <1>2, <1>3, <1>4, <1>5, <1>6, <1>7, <1>8, <1>9, <1>10, <1>11, <1>12, <1>13, <1>14,
       <1>15, <1>16, <1>17
       DEF Next, Step

LEMMA AlwaysLock == Spec => []Lock
  BY LockInit, LockStep, PTL DEF Spec

\* The status is a lock: one worker in the Provider call or in the review at a time.
THEOREM StatusIsLock == Spec => []HeldRun
  <1>1. Lock => HeldRun
    BY DEF Lock
  <1> QED BY AlwaysLock, <1>1, PTL

-----------------------------------------------------------------------------
(* The initial Provider call *)

\* Once the initial call is made, the row is past the reservation and only a recovery can be on
\* its way to another call.
Once ==
    /\ ProviderOnce
    /\ calls.initial # 0 =>
          /\ row.status \notin {"ABSENT", "RESERVED"}
          /\ \A p \in Workers : pc[p] \in {"reread", "call"} => p \in recovery

\* Every row a step stores, apart from the reservation, is past the reservation.
LEMMA PastReservation ==
    ASSUME Lock, [Next]_vars, row' # row, row.status # "ABSENT"
    PROVE  row'.status \notin {"ABSENT", "RESERVED"}
  <1>1. ASSUME NEW p \in Workers, SaveAnswer(p) PROVE row'.status \notin {"ABSENT", "RESERVED"}
    BY <1>1 DEF Lock, Shape, SaveAnswer, At, Transition
  <1>2. ASSUME NEW p \in Workers, Judge(p) PROVE row'.status \notin {"ABSENT", "RESERVED"}
    <2>1. Judged(row, copy[p].proposal).status = Decision(copy[p].proposal.quality)
      BY DEF Judged, Lock, TypeOK, Run
    <2>2. Decision(copy[p].proposal.quality) \in Terminal
      BY DEF Decision, Terminal
    <2> QED BY <1>2, <2>1, <2>2 DEF Judge, Transition, Terminal
  <1>3. ASSUME NEW h \in Reviewers, Resolve(h) PROVE row'.status \notin {"ABSENT", "RESERVED"}
    <2>1. hold[h].run \in Run /\ hold[h].resolution \in Resolution
      BY DEF Lock, TypeOK
    <2>2. Resolved(hold[h].run, hold[h].resolution).status \in Resolution
      BY <2>1 DEF Resolved, Run
    <2> QED BY <1>3, <2>2 DEF Resolve, Resolution
  <1>4. ASSUME NEW p \in Workers, ClaimProvider(p) \/ ClaimReview(p) \/ ClaimRecovery(p)
        PROVE  row'.status \notin {"ABSENT", "RESERVED"}
    <2>1. copy[p] \in Run
      BY DEF Lock, TypeOK
    <2> QED BY <1>4, <2>1 DEF ClaimProvider, ClaimReview, ClaimRecovery, Recovering, Run
  <1> QED
    BY <1>1, <1>2, <1>3, <1>4
       DEF Next, Step, vars, Reserve, AdapterRaises, Reread, ProviderAnswers, ProviderFails,
           AuditAnswer, AuditReview, Audit, ReadRejection, ReadHold, Restart

LEMMA OnceStep == Lock /\ Once /\ [Next]_vars => Once'
  <1> SUFFICES ASSUME Lock, Once, [Next]_vars PROVE Once'
    OBVIOUS
  <1> TypeOK
    BY DEF Lock
  <1>1. ASSUME calls' = calls,
               \A p \in Workers : pc'[p] \in {"reread", "call"} =>
                   \/ pc[p] \in {"reread", "call"} /\ (p \in recovery => p \in recovery')
                   \/ p \in recovery'
                   \/ row.status = "RESERVED"
        PROVE  Once'
    <2>1. CASE calls.initial = 0
      BY <1>1, <2>1 DEF Once, ProviderOnce
    <2>2. CASE calls.initial # 0
      <3>1. row'.status \notin {"ABSENT", "RESERVED"}
        BY <2>2, PastReservation DEF Once
      <3> QED BY <1>1, <2>2, <3>1 DEF Once, ProviderOnce
    <2> QED BY <2>1, <2>2
  <1>2. ASSUME NEW p \in Workers, ProviderAnswers(p) \/ ProviderFails(p) PROVE Once'
    <2>1. /\ pc[p] = "call" /\ pc'[p] \in {"audit", "save"}
          /\ \A q \in Workers : q # p => pc'[q] = pc[q]
          /\ UNCHANGED <<row, recovery>>
      BY <1>2 DEF ProviderAnswers, ProviderFails, Calling, At, Goto, TypeOK
    <2>2. /\ row.status \in {"RUNNING", "RECOVERY_RUNNING"}
          /\ \A q \in Workers : q # p => pc[q] \notin {"reread", "call"}
      BY <2>1 DEF Lock, HeldRun, Holds, HeldStatus, InProvider, InReview
    <2>3. CASE p \in recovery
      <3>1. calls'.initial = calls.initial
        BY <1>2, <2>3 DEF ProviderAnswers, ProviderFails, Calling, TypeOK
      <3> QED BY <2>1, <2>2, <3>1 DEF Once, ProviderOnce
    <2>4. CASE p \notin recovery
      <3>1. calls.initial = 0
        BY <2>1, <2>4 DEF Once
      <3>2. calls'.initial = calls.initial + 1
        BY <1>2, <2>4 DEF ProviderAnswers, ProviderFails, Calling, TypeOK
      <3> QED BY <2>1, <2>2, <3>1, <3>2 DEF Once, ProviderOnce
    <2> QED BY <2>3, <2>4
  <1>3. ASSUME NEW p \in Workers, NEW r, Return(p, r) \/ Leave(p), calls' = calls PROVE Once'
    BY <1>1, <1>3 DEF Return, Leave, Goto, TypeOK
  <1>4. ASSUME NEW p \in Workers, NEW label, NEW r, Goto(p, label, r),
               label \notin {"reread", "call"}, UNCHANGED <<recovery, calls>>
        PROVE  Once'
    BY <1>1, <1>4 DEF Goto, TypeOK
  <1>5. ASSUME NEW p \in Workers, Reserve(p) PROVE Once'
    BY <1>3, <1>4, <1>5 DEF Reserve
  <1>6. ASSUME NEW p \in Workers, ClaimProvider(p) PROVE Once'
    <2>1. CASE ProviderFree
      BY <1>1, <1>6, <2>1 DEF ClaimProvider, ProviderFree, Goto, TypeOK
    <2>2. CASE ~ProviderFree
      BY <1>3, <1>6, <2>2 DEF ClaimProvider
    <2> QED BY <2>1, <2>2
  <1>7. ASSUME NEW p \in Workers, Reread(p) PROVE Once'
    BY <1>1, <1>7 DEF Reread, At, Goto, TypeOK
  <1>8. ASSUME NEW p \in Workers,
               \/ AuditAnswer(p) \/ SaveAnswer(p) \/ ClaimReview(p) \/ AuditReview(p) \/ Judge(p)
               \/ ReadRejection(p)
        PROVE  Once'
    BY <1>3, <1>4, <1>8
       DEF AuditAnswer, SaveAnswer, ClaimReview, AuditReview, Audit, Judge, ReadRejection
  <1>9. ASSUME NEW p \in Workers, ClaimRecovery(p) PROVE Once'
    BY <1>1, <1>9 DEF ClaimRecovery, Leave, Goto, TypeOK
  <1>10. ASSUME NEW h \in Reviewers,
                Resolve(h) \/ \E resolution \in Resolution : ReadHold(h, resolution)
         PROVE  Once'
    BY <1>1, <1>10 DEF Resolve, ReadHold
  <1>11. ASSUME Restart PROVE Once'
    BY <1>1, <1>11 DEF Restart
  <1>12. ASSUME UNCHANGED vars PROVE Once'
    BY <1>1, <1>12 DEF vars
  <1>13. ASSUME NEW p \in Workers, AdapterRaises(p) PROVE Once'
    BY <1>3, <1>13 DEF AdapterRaises
  <1> QED
    BY <1>2, <1>5, <1>6, <1>7, <1>8, <1>9, <1>10, <1>11, <1>12, <1>13 DEF Next, Step

\* However many workers enter the stage, the initial Timeline call is made at most once.
THEOREM CalledOnce == Spec => []ProviderOnce
  <1>1. Init => Once
    BY DEF Init, Once, ProviderOnce
  <1>2. Once => ProviderOnce
    BY DEF Once
  <1> QED BY <1>1, <1>2, AlwaysLock, OnceStep, PTL DEF Spec

-----------------------------------------------------------------------------
(* Verdicts and approvals *)

\* VerdictOnProposal, said of any payload.
Good(r) ==
    /\ r.status \in {"APPROVED", "REJECTED", "NEEDS_HUMAN_REVIEW"} => r.judged = r.proposal
    /\ r.bundle # 0 =>
          /\ r.status = "APPROVED"
          /\ r.bundle = r.proposal.id
          /\ r.proposal.quality = "SOUND" \/ r.human = "APPROVED"

\* Stale payloads are good payloads; a worker in the review judges the proposal of the row; a
\* person completing an approval completes the one that stands.
Sound ==
    /\ Good(row)
    /\ \A p \in Workers :
          Good(copy[p]) /\ (pc[p] \in InReview => row.proposal = copy[p].proposal)
    /\ \A h \in Reviewers :
          /\ Good(hold[h].run)
          /\ hold[h].run.status = "APPROVED" =>
                /\ row.status = "APPROVED"
                /\ row.proposal = hold[h].run.proposal
                /\ hold[h].run.human = "APPROVED"
                /\ hold[h].resolution = "APPROVED"

\* What the operators on payloads do to a good payload.
LEMMA GoodPayloads ==
    ASSUME NEW r \in Run
    PROVE  /\ Good(AbsentRun) /\ Good(ReservedRun)
           /\ r.status # "APPROVED" /\ Good(r) =>
                 \A status \in {"RUNNING", "REVIEWING", "PROVIDER_SUCCEEDED", "FAILED"} :
                     Good([r EXCEPT !.status = status])
           /\ r.status # "APPROVED" /\ Good(r) => Good(Recovering(r))
           /\ Good(Judged(r, r.proposal))
           /\ r.judged = r.proposal =>
                 \A resolution \in Resolution : Good(Resolved(r, resolution))
  <1>1. Good(AbsentRun) /\ Good(ReservedRun)
    BY DEF Good, AbsentRun, ReservedRun
  <1>2. ASSUME r.status # "APPROVED", Good(r),
               NEW status \in {"RUNNING", "REVIEWING", "PROVIDER_SUCCEEDED", "FAILED"}
        PROVE  Good([r EXCEPT !.status = status])
    BY <1>2 DEF Good, Run
  <1>3. ASSUME r.status # "APPROVED", Good(r) PROVE Good(Recovering(r))
    BY <1>3 DEF Good, Recovering, Run
  <1>4. Good(Judged(r, r.proposal))
    <2>1. Decision(r.proposal.quality) = "APPROVED" => r.proposal.quality = "SOUND"
      BY DEF Decision
    <2> QED BY <2>1 DEF Good, Judged, Run
  <1>5. ASSUME r.judged = r.proposal, NEW resolution \in Resolution
        PROVE  Good(Resolved(r, resolution))
    BY <1>5 DEF Good, Resolved, Run, Resolution
  <1> QED BY <1>1, <1>2, <1>3, <1>4, <1>5

\* The row while it is REVIEWING, and what the reviewing worker holds, stay as they are.
LEMMA ReviewKeepsRow ==
    ASSUME Lock, [Next]_vars, NEW q \in Workers, pc[q] \in InReview, pc'[q] \in InReview
    PROVE  row' = row /\ copy'[q] = copy[q]
  <1>1. /\ row.status = "REVIEWING"
        /\ \A p \in Workers : Holds(p) => p = q
        /\ TypeOK
    BY DEF Lock, HeldRun, Holds, HeldStatus
  <1>2. ASSUME NEW p \in Workers, NEW r, Return(p, r) \/ Leave(p) PROVE p # q
    BY <1>1, <1>2 DEF Return, Leave, Goto, InReview, TypeOK
  <1>3. ASSUME NEW p \in Workers, NEW label, NEW r, Goto(p, label, r), p # q
        PROVE  copy'[q] = copy[q]
    BY <1>1, <1>3 DEF Goto, TypeOK
  <1>4. ASSUME NEW p \in Workers, Reserve(p) PROVE row' = row /\ copy'[q] = copy[q]
    <2>1. p # q
      BY <1>4 DEF Reserve, At, InReview
    <2> QED BY <1>1, <1>3, <1>4, <2>1 DEF Reserve, Return, Leave
  <1>5. ASSUME NEW p \in Workers,
               \/ ClaimProvider(p) \/ Reread(p) \/ ProviderAnswers(p) \/ ProviderFails(p)
               \/ AuditAnswer(p) \/ SaveAnswer(p) \/ ReadRejection(p) \/ ClaimRecovery(p)
               \/ ClaimReview(p)
        PROVE  row' = row /\ copy'[q] = copy[q]
    <2>1. p # q
      BY <1>5
         DEF ClaimProvider, Reread, ProviderAnswers, ProviderFails, Calling, AuditAnswer, SaveAnswer,
             ReadRejection, ClaimRecovery, ClaimReview, At, InReview
    <2>2. row' = row
      BY <1>1, <1>5, <2>1
         DEF ClaimProvider, ProviderFree, Reread, ProviderAnswers, ProviderFails, AuditAnswer,
             Audit, SaveAnswer, ReadRejection, ClaimRecovery, ClaimReview, ReviewFree, At, Holds,
             InProvider
    <2>3. copy'[q] = copy[q]
      BY <1>3, <1>5, <2>1
         DEF ClaimProvider, Reread, ProviderAnswers, ProviderFails, AuditAnswer, Audit, SaveAnswer,
             ReadRejection, ClaimRecovery, ClaimReview, Return, Leave
    <2> QED BY <2>2, <2>3
  <1>6. ASSUME NEW p \in Workers, AuditReview(p) PROVE row' = row /\ copy'[q] = copy[q]
    <2>1. Leave(p) \/ Goto(p, "judge", copy[p])
      BY <1>6 DEF AuditReview, Audit
    <2> QED BY <1>1, <1>6, <2>1 DEF AuditReview, Audit, Leave, Goto, TypeOK, InReview
  <1>7. ASSUME NEW p \in Workers, Judge(p) PROVE FALSE
    <2>1. p = q
      BY <1>1, <1>7 DEF Judge, At, Holds, InReview
    <2> QED BY <1>2, <1>7, <2>1 DEF Judge
  <1>8. ASSUME NEW h \in Reviewers, Resolve(h) PROVE row' = row /\ copy' = copy
    BY <1>1, <1>8 DEF Lock, HoldShape, Resolve, Unresolved
  <1>9. ASSUME Restart PROVE FALSE
    BY <1>9 DEF Restart, InReview
  <1>10. ASSUME NEW p \in Workers, AdapterRaises(p) PROVE row' = row /\ copy'[q] = copy[q]
    <2>1. p # q
      BY <1>10 DEF AdapterRaises, At, InReview
    <2> QED BY <1>3, <1>10, <2>1 DEF AdapterRaises, Leave
  <1> QED
    BY <1>4, <1>5, <1>6, <1>7, <1>8, <1>9, <1>10 DEF Next, Step, ReadHold, vars

\* An approved row keeps its approval, its Timeline and its bundle.
LEMMA KeepsApproval ==
    ASSUME Lock, Sound, [Next]_vars, row.status = "APPROVED"
    PROVE  /\ row'.status = "APPROVED"
           /\ row'.proposal = row.proposal
           /\ row.bundle # 0 => row'.bundle = row.bundle
  <1>1. \A p \in Workers : ~Holds(p)
    BY DEF Lock, HeldRun, HeldStatus
  <1>2. ASSUME NEW h \in Reviewers, Resolve(h), row' # row
        PROVE  /\ row'.status = "APPROVED"
               /\ row'.proposal = row.proposal
               /\ row.bundle # 0 => row'.bundle = row.bundle
    <2> DEFINE r == hold[h].run
    <2>1. r.status = "APPROVED" /\ row' = Resolved(r, hold[h].resolution) /\ r \in Run
      BY <1>2 DEF Resolve, Unresolved, Lock, TypeOK
    <2>2. row' = Resolved(r, "APPROVED") /\ r.proposal = row.proposal
      BY <2>1 DEF Sound
    <2>3. /\ row'.status = "APPROVED"
          /\ row'.proposal = r.proposal
          /\ row'.bundle = r.proposal.id
      BY <2>1, <2>2 DEF Resolved, Run
    <2> QED BY <2>2, <2>3 DEF Sound, Good
  <1>3. ASSUME \A h \in Reviewers : ~Resolve(h) PROVE row' = row
    BY <1>1, <1>3
       DEF Next, Step, vars, Reserve, AdapterRaises, ClaimProvider, ProviderFree, Reread,
           ProviderAnswers, ProviderFails, AuditAnswer, SaveAnswer, ClaimReview, ReviewFree, AuditReview, Audit,
           Judge, ReadRejection, ClaimRecovery, ReadHold, Restart, At, Holds, InProvider, InReview
  <1> QED BY <1>2, <1>3

LEMMA SoundInit == Init => Sound
  <1> SUFFICES ASSUME Init PROVE Sound
    OBVIOUS
  <1>1. Good(AbsentRun) /\ Good(BundlelessRun) /\ AbsentRun.status = "ABSENT"
    BY DEF Good, BundlelessRun, AbsentRun, HeldProposal
  <1>2. Good(row)
    BY <1>1 DEF Init
  <1>3. \A p \in Workers : Good(copy[p]) /\ pc[p] \notin InReview
    BY <1>1 DEF Init, InReview
  <1>4. \A h \in Reviewers : Good(hold[h].run) /\ hold[h].run.status # "APPROVED"
    BY <1>1 DEF Init
  <1> QED BY <1>2, <1>3, <1>4 DEF Sound

\* A step that stores a good row and leaves its worker with a good copy.
LEMMA SoundWorker ==
    ASSUME Lock, Sound, [Next]_vars, Good(row'), UNCHANGED hold,
           NEW p \in Workers, NEW label, NEW r, Goto(p, label, r), Good(r),
           label \in InReview /\ pc[p] \notin InReview => row'.proposal = r.proposal
    PROVE  Sound'
  <1>1. pc'[p] = label /\ copy'[p] = r
    BY DEF Lock, TypeOK, Goto
  <1>2. \A q \in Workers : q # p => (pc'[q] = pc[q] /\ copy'[q] = copy[q])
    BY DEF Lock, TypeOK, Goto
  <1>3. \A q \in Workers : Good(copy[q])'
    BY <1>1, <1>2 DEF Sound, Good
  <1>4. ASSUME NEW q \in Workers, pc'[q] \in InReview PROVE row'.proposal = copy'[q].proposal
    <2>1. CASE pc[q] \in InReview
      BY <1>4, <2>1, ReviewKeepsRow DEF Sound
    <2>2. CASE pc[q] \notin InReview
      BY <1>1, <1>2, <1>4, <2>2
    <2> QED BY <2>1, <2>2
  <1>5. \A h \in Reviewers :
           hold[h].run.status = "APPROVED" =>
              row'.status = "APPROVED" /\ row'.proposal = hold[h].run.proposal
    BY KeepsApproval DEF Sound
  <1>6. \A h \in Reviewers : Good(hold[h].run)'
    BY DEF Sound, Good
  <1>7. Good(row)'
    BY DEF Good
  <1> QED BY <1>3, <1>4, <1>5, <1>6, <1>7 DEF Sound

LEMMA SoundStep == Lock /\ Sound /\ [Next]_vars => Sound'
  <1> SUFFICES ASSUME Lock, Sound, [Next]_vars PROVE Sound'
    OBVIOUS
  <1> TypeOK /\ row \in Run /\ Good(row)
    BY DEF Lock, TypeOK, Sound
  <1>a. Good(AbsentRun) /\ Good(ReservedRun) /\ AbsentRun \in Run
    BY RunTypes, GoodPayloads
  <1>b. \A p \in Workers : copy[p] \in Run /\ Good(copy[p])
    BY DEF TypeOK, Sound
  <1>1. ASSUME NEW p \in Workers, NEW r, Return(p, r) \/ Leave(p), Good(row'), UNCHANGED hold
        PROVE  Sound'
    <2>1. PICK label \in {"idle", "recover"} : Goto(p, label, AbsentRun)
      BY <1>1 DEF Return, Leave
    <2> QED BY <1>a, <1>1, <2>1, SoundWorker DEF InReview
  <1>2. ASSUME NEW p \in Workers, NEW label, NEW r, Goto(p, label, r), Good(r), Good(row'),
               label \notin InReview, UNCHANGED hold
        PROVE  Sound'
    BY <1>2, SoundWorker
  <1>3. ASSUME NEW p \in Workers, Reserve(p) PROVE Sound'
    BY <1>a, <1>1, <1>2, <1>3 DEF Reserve, InReview
  <1>4. ASSUME NEW p \in Workers, ClaimProvider(p) PROVE Sound'
    <2>1. CASE ProviderFree
      <3>1. copy[p].status # "APPROVED"
        BY <1>4 DEF ClaimProvider, At, Lock, Shape, Terminal
      <3>2. Good([copy[p] EXCEPT !.status = "RUNNING"])
        BY <1>b, <3>1, GoodPayloads
      <3> QED BY <1>b, <1>2, <1>4, <2>1, <3>2 DEF ClaimProvider, InReview
    <2>2. CASE ~ProviderFree
      BY <1>1, <1>4, <2>2 DEF ClaimProvider
    <2> QED BY <2>1, <2>2
  <1>5. ASSUME NEW p \in Workers, Reread(p) PROVE Sound'
    BY <1>2, <1>5 DEF Reread, InReview
  <1>6. ASSUME NEW p \in Workers, ProviderAnswers(p) PROVE Sound'
    <2>1. copy[p].status # "APPROVED" /\ copy[p] \in Run /\ Good(copy[p])
      BY <1>b, <1>6 DEF ProviderAnswers, Calling, At, Lock, Shape
    <2>2. PICK quality \in Qualities :
            Goto(p, "audit",
                 [copy[p] EXCEPT !.status = "PROVIDER_SUCCEEDED",
                                 !.proposal = [id |-> calls.initial + calls.recovery + 1,
                                               quality |-> quality,
                                               attempt |-> copy[p].attempts]])
      BY <1>6 DEF ProviderAnswers
    <2> DEFINE r == [copy[p] EXCEPT !.status = "PROVIDER_SUCCEEDED",
                                    !.proposal = [id |-> calls.initial + calls.recovery + 1,
                                                  quality |-> quality,
                                                  attempt |-> copy[p].attempts]]
    <2>3. Good(r)
      BY <2>1 DEF Good, Run
    <2>4. Goto(p, "audit", r) /\ UNCHANGED <<row, hold>>
      BY <1>6, <2>2 DEF ProviderAnswers
    <2> HIDE DEF r
    <2> QED BY <1>2, <2>3, <2>4 DEF InReview
  <1>7. ASSUME NEW p \in Workers, ProviderFails(p) PROVE Sound'
    <2>1. copy[p].status # "APPROVED"
      BY <1>7 DEF ProviderFails, Calling, At, Lock, Shape
    <2>2. Good([copy[p] EXCEPT !.status = "FAILED"])
      BY <1>b, <2>1, GoodPayloads
    <2> QED BY <1>2, <1>7, <2>2 DEF ProviderFails, FailureStatus, InReview
  <1>8. ASSUME NEW p \in Workers, AuditAnswer(p) PROVE Sound'
    BY <1>b, <1>1, <1>2, <1>8 DEF AuditAnswer, Audit, InReview
  <1>9. ASSUME NEW p \in Workers, SaveAnswer(p) PROVE Sound'
    BY <1>b, <1>1, <1>2, <1>9 DEF SaveAnswer, Transition, InReview
  <1>10. ASSUME NEW p \in Workers, ClaimReview(p) PROVE Sound'
    <2>1. CASE copy[p].proposal # NoProposal /\ ReviewFree
      <3>1. copy[p].status # "APPROVED"
        BY <1>10 DEF ClaimReview, At, Lock, Shape
      <3>2. Good(row')
        BY <1>b, <1>10, <2>1, <3>1, GoodPayloads DEF ClaimReview
      <3>3. row'.proposal = copy[p].proposal
        BY <1>b, <1>10, <2>1 DEF ClaimReview, Run
      <3>4. Goto(p, "auditReview", copy[p]) /\ UNCHANGED hold
        BY <1>10, <2>1 DEF ClaimReview
      <3> QED BY <1>b, <3>2, <3>3, <3>4, SoundWorker
    <2>2. CASE ~(copy[p].proposal # NoProposal /\ ReviewFree)
      BY <1>1, <1>10, <2>2 DEF ClaimReview
    <2> QED BY <2>1, <2>2
  <1>11. ASSUME NEW p \in Workers, AuditReview(p) PROVE Sound'
    <2>1. CASE Leave(p)
      BY <1>1, <1>11, <2>1 DEF AuditReview, Audit
    <2>2. CASE Goto(p, "judge", copy[p])
      <3>1. pc[p] \in InReview /\ UNCHANGED <<row, hold>>
        BY <1>11 DEF AuditReview, Audit, At, InReview
      <3> QED BY <1>b, <2>2, <3>1, SoundWorker
    <2> QED BY <1>11, <2>1, <2>2 DEF AuditReview, Audit
  <1>12. ASSUME NEW p \in Workers, Judge(p) PROVE Sound'
    <2>1. row.proposal = copy[p].proposal /\ row.status = "REVIEWING"
      BY <1>12 DEF Judge, At, InReview, Sound, Lock, HeldRun, Holds, HeldStatus
    <2>2. row' = Judged(row, row.proposal)
      BY <1>12, <2>1 DEF Judge, Transition, Terminal
    <2>3. Good(row')
      BY <2>2, GoodPayloads
    <2> QED BY <1>1, <1>12, <2>3 DEF Judge
  <1>13. ASSUME NEW p \in Workers, ReadRejection(p) PROVE Sound'
    BY <1>1, <1>2, <1>13 DEF ReadRejection, InReview
  <1>14. ASSUME NEW p \in Workers, ClaimRecovery(p) PROVE Sound'
    <2>1. copy[p].status # "APPROVED"
      BY <1>14 DEF ClaimRecovery, At, Lock, Shape
    <2>2. Good(Recovering(copy[p]))
      BY <1>b, <2>1, GoodPayloads
    <2> QED BY <1>b, <1>1, <1>2, <1>14, <2>2 DEF ClaimRecovery, InReview
  <1>15. ASSUME NEW h \in Reviewers, Resolve(h) PROVE Sound'
    <2> DEFINE r == hold[h].run
    <2>1. r \in Run /\ hold[h].resolution \in Resolution /\ Good(r)
      BY DEF TypeOK, Sound
    <2>2. r.judged = r.proposal
      BY <1>15, <2>1 DEF Resolve, Lock, HoldShape, Good
    <2>3. Good(row')
      BY <1>15, <2>1, <2>2, GoodPayloads DEF Resolve
    <2>4. UNCHANGED <<pc, copy>>
      BY <1>15 DEF Resolve
    <2>5. ASSUME NEW p \in Workers, pc'[p] \in InReview PROVE row'.proposal = copy'[p].proposal
      BY <2>4, <2>5, ReviewKeepsRow DEF Sound
    <2>6. \A g \in Reviewers : hold'[g] = hold[g] \/ hold'[g].run = AbsentRun
      BY <1>15 DEF Resolve, TypeOK
    <2>7. AbsentRun.status # "APPROVED"
      BY DEF AbsentRun
    <2>8. \A g \in Reviewers :
             hold'[g].run.status = "APPROVED" =>
                /\ row'.status = "APPROVED"
                /\ row'.proposal = hold'[g].run.proposal
                /\ hold'[g].run.human = "APPROVED"
                /\ hold'[g].resolution = "APPROVED"
      BY <2>6, <2>7, KeepsApproval DEF Sound
    <2>9. \A g \in Reviewers : Good(hold[g].run)'
      BY <1>a, <2>6 DEF Sound, Good
    <2> QED BY <1>b, <2>3, <2>4, <2>5, <2>8, <2>9 DEF Sound, Good
  <1>16. ASSUME NEW h \in Reviewers, NEW resolution \in Resolution, ReadHold(h, resolution)
         PROVE Sound'
    <2>1. UNCHANGED <<row, pc, copy>>
      BY <1>16 DEF ReadHold
    <2>2. \A g \in Reviewers :
             hold'[g] = hold[g] \/ hold'[g] = [run |-> row, resolution |-> resolution]
      BY <1>16 DEF ReadHold, TypeOK
    <2>3. row.status = "APPROVED" => row.human = "APPROVED" /\ resolution = "APPROVED"
      BY <1>16 DEF ReadHold, Resolvable
    <2> QED BY <2>1, <2>2, <2>3 DEF Sound, Good
  <1>17. ASSUME Restart PROVE Sound'
    <2>1. AbsentRun.status # "APPROVED"
      BY DEF AbsentRun
    <2> QED BY <1>a, <1>17, <2>1 DEF Restart, Sound, Good, InReview
  <1>18. ASSUME UNCHANGED vars PROVE Sound'
    BY <1>18 DEF vars, Sound, Good
  <1>19. ASSUME NEW p \in Workers, AdapterRaises(p) PROVE Sound'
    BY <1>1, <1>19 DEF AdapterRaises
  <1> QED
    BY <1>3, <1>4, <1>5, <1>6, <1>7, <1>8, <1>9, <1>10, <1>11, <1>12, <1>13, <1>14, <1>15, <1>16,
       <1>17, <1>18, <1>19
       DEF Next, Step

LEMMA AlwaysSound == Spec => [](Lock /\ Sound)
  <1>1. Init => Lock /\ Sound
    BY LockInit, SoundInit
  <1>2. Lock /\ Sound /\ [Next]_vars => (Lock /\ Sound)'
    BY LockStep, SoundStep
  <1> QED BY <1>1, <1>2, PTL DEF Spec

\* What the row decides is about the proposal it holds, and a bundle is of an approved one.
THEOREM VerdictsMatch == Spec => []VerdictOnProposal
  <1>1. Sound => VerdictOnProposal
    BY DEF Sound, Good, VerdictOnProposal
  <1> QED BY <1>1, AlwaysSound, PTL

\* An approval, its Timeline and its bundle are final.
THEOREM ApprovalIsFinal == Spec => ApprovedKept
  <1>1. Lock /\ Sound /\ [Next]_vars =>
          (row.status = "APPROVED" =>
             /\ row'.status = "APPROVED"
             /\ row'.proposal = row.proposal
             /\ row.bundle # 0 => row'.bundle = row.bundle)
    BY KeepsApproval
  <1> QED BY <1>1, AlwaysSound, PTL DEF Spec, ApprovedKept

-----------------------------------------------------------------------------
(* One worker: the recovery budget and human resolutions *)

Solo == \A p, q \in Workers : p = q

\* The row waits for a human or has what will be kept of it.
Settled ==
    \/ row.status \in {"NEEDS_HUMAN_REVIEW", "APPROVED"}
    \/ row.status = "REJECTED" /\ row.judged.quality = "AMBIGUOUS"

\* Until the first recovery there is the first proposal only.
FirstOf(r) == r.attempts = 0 /\ r.proposal.quality # "NONE" => r.proposal.id = 1

\* The one worker's copy is the row wherever it is written back.
InStep ==
    \A p \in Workers :
        /\ pc[p] \in {"claimProvider", "call", "review", "claimRecovery"} => copy[p] = row
        /\ pc[p] \in {"audit", "save"} =>
              /\ copy[p].attempts = row.attempts
              /\ copy[p].initial = row.initial
              /\ copy[p].human = row.human
              /\ FirstOf(copy[p])
        /\ pc[p] = "claimRecovery" => Recoverable(row)
        /\ Settled => pc[p] \in {"idle", "recover"}

\* Every recovery call is an attempt on the row.
Accounted ==
    /\ calls.recovery <= row.attempts
    /\ row.attempts <= MaxAttempts
    /\ row.status \in {"ABSENT", "RESERVED", "RUNNING"} => row.attempts = 0
    /\ row.attempts > 0 => row.initial = 1
    /\ FirstOf(row)
    /\ \A p \in Workers :
          pc[p] \in {"reread", "call"} /\ p \in recovery => calls.recovery < row.attempts

\* Only a held run has a human resolution, and who resolves it has read it as it is.
Held ==
    /\ row.human # "NONE" => Settled /\ row.status = row.human
    /\ row.status = "NEEDS_HUMAN_REVIEW" => row.judged.quality = "AMBIGUOUS"
    /\ \A h \in Reviewers :
          hold[h].run # AbsentRun =>
             /\ Settled
             /\ Resolvable(hold[h].run, hold[h].resolution)
             /\ hold[h].run.attempts = row.attempts
             /\ hold[h].run.initial = row.initial
             /\ hold[h].run.judged = row.judged
             /\ hold[h].run.proposal = row.proposal

Alone == Lock /\ Sound /\ Once /\ InStep /\ Accounted /\ Held

LEMMA AloneInit == Init => InStep /\ Accounted /\ Held
  <1> SUFFICES ASSUME Init PROVE InStep /\ Accounted /\ Held
    OBVIOUS
  <1>1. /\ \A p \in Workers : pc[p] = "idle"
        /\ \A h \in Reviewers : hold[h].run = AbsentRun
        /\ calls.recovery = 0
    BY DEF Init
  <1>2. /\ row.attempts = 0
        /\ \/ row.status = "ABSENT" /\ row.human = "NONE" /\ row.proposal.quality = "NONE"
           \/ row.status = "APPROVED" /\ row.human = "APPROVED" /\ row.proposal.id = 1
    <2>1. CASE row = AbsentRun
      BY <2>1 DEF AbsentRun, NoProposal
    <2>2. CASE row = BundlelessRun
      <3>1. /\ BundlelessRun.attempts = 0 /\ BundlelessRun.status = "APPROVED"
            /\ BundlelessRun.human = "APPROVED"
            /\ BundlelessRun.proposal = [id |-> 1, quality |-> "AMBIGUOUS", attempt |-> 0]
        BY DEF BundlelessRun, AbsentRun, NoProposal, HeldProposal
      <3> QED BY <2>2, <3>1
    <2> QED BY <2>1, <2>2 DEF Init
  <1>3. InStep
    BY <1>1 DEF InStep
  <1>4. Accounted
    BY <1>1, <1>2, ConstantsAssumption DEF Accounted, FirstOf
  <1>5. Held
    BY <1>1, <1>2 DEF Held, Settled
  <1> QED BY <1>3, <1>4, <1>5

\* While the row is open, nobody holds it for a resolution.
LEMMA OpenUnheld ==
    ASSUME Held, ~Settled
    PROVE  row.human = "NONE" /\ \A h \in Reviewers : hold[h].run = AbsentRun
  BY DEF Held

\* A worker that has returned asks nothing of its copy.
LEMMA AtRest ==
    ASSUME Solo, NEW p \in Workers, pc'[p] \in {"idle", "recover"}
    PROVE  InStep' /\ \A q \in Workers : pc'[q] \notin {"reread", "call"}
  BY DEF Solo, InStep

\* Steps that leave row, calls and holds alone.
LEMMA RowKept ==
    ASSUME Accounted, Held, UNCHANGED <<row, calls, hold>>,
           \A q \in Workers : pc'[q] \in {"reread", "call"} /\ q \in recovery' =>
               pc[q] \in {"reread", "call"} /\ q \in recovery
    PROVE  Accounted' /\ Held'
  BY DEF Accounted, Held, Settled, FirstOf

\* A worker that returns leaves its part of the invariant behind.
LEMMA Back ==
    ASSUME Solo, TypeOK, Accounted, Held, NEW p \in Workers, NEW r, Return(p, r) \/ Leave(p),
           UNCHANGED <<row, calls, hold>>
    PROVE  InStep' /\ Accounted' /\ Held'
  <1>1. pc'[p] \in {"idle", "recover"}
    BY ReturnShape, LeaveShape
  <1> QED BY <1>1, AtRest, RowKept

\* A new open row, counted like the old one, with nobody holding it.
LEMMA OpenRow ==
    ASSUME Solo, TypeOK', Accounted, UNCHANGED <<calls, hold>>,
           NEW p \in Workers, p \notin recovery' \/ pc'[p] \notin {"reread", "call"},
           \A h \in Reviewers : hold[h].run = AbsentRun,
           row'.human = "NONE", row'.status # "NEEDS_HUMAN_REVIEW",
           row'.attempts = row.attempts, row'.initial = row.initial, FirstOf(row'),
           row'.status \in {"ABSENT", "RESERVED", "RUNNING"} => row.attempts = 0
    PROVE  Accounted' /\ Held'
  <1>1. Accounted'
    BY DEF Solo, Accounted, FirstOf
  <1>2. Held'
    BY DEF Held
  <1> QED BY <1>1, <1>2

LEMMA AloneStep ==
    ASSUME Solo, MaxAttempts <= 1, Alone, [Next]_vars
    PROVE  InStep' /\ Accounted' /\ Held'
  <1> TypeOK /\ TypeOK' /\ Lock /\ Sound /\ Once /\ InStep /\ Accounted /\ Held
    BY TypeStep DEF Alone, Lock
  <1> DEFINE Goal == InStep' /\ Accounted' /\ Held'
  <1>a. /\ row \in Run /\ row' \in Run /\ calls.initial \in Nat /\ calls.recovery \in Nat
        /\ \A p \in Workers : copy[p] \in Run /\ copy'[p] \in Run
        /\ MaxAttempts \in Nat
    BY ConstantsAssumption DEF TypeOK
  <1>1. ASSUME NEW p \in Workers, Reserve(p) PROVE Goal
    <2> DEFINE r == IF row.status = "ABSENT" THEN ReservedRun ELSE row
    <2>1. UNCHANGED <<calls, hold>> /\ row' = r /\ pc[p] = "idle" /\ p \notin recovery
      BY <1>1 DEF Reserve, At, Lock, Shape
    <2>2. p \notin recovery' \/ pc'[p] \notin {"reread", "call"}
      BY <1>1, <2>1, ReturnShape DEF Reserve
    <2>3. Accounted' /\ Held'
      <3>1. CASE row.status # "ABSENT"
        <4>1. \A q \in Workers : ~(pc'[q] \in {"reread", "call"} /\ q \in recovery')
          BY <2>2 DEF Solo
        <4> QED BY <2>1, <3>1, <4>1, RowKept
      <3>2. CASE row.status = "ABSENT"
        <4>1. ~Settled /\ row.attempts = 0
          BY <3>2 DEF Settled, Accounted
        <4>2. /\ row' = ReservedRun /\ row'.human = "NONE" /\ row'.status = "RESERVED"
              /\ row'.attempts = 0 /\ row'.initial = 0 /\ FirstOf(row')
          BY <2>1, <3>2 DEF ReservedRun, AbsentRun, FirstOf, NoProposal
        <4> QED
          BY <1>a, <2>1, <2>2, <4>1, <4>2, OpenUnheld DEF Solo, Accounted, Held, FirstOf
      <3> QED BY <3>1, <3>2
    <2>4. InStep'
      <3>1. CASE r.status \in Terminal \cup {"RUNNING"}
        BY <1>1, <3>1, ReturnShape, AtRest DEF Reserve
      <3>2. CASE r.status \notin Terminal \cup {"RUNNING"}
        <4>1. /\ copy'[p] = r /\ pc'[p] \in {"review", "claimProvider"}
          BY <1>1, <3>2 DEF Reserve, Goto, TypeOK
        <4>2. ~Settled'
          BY <2>1, <3>2 DEF Settled, Terminal
        <4> QED BY <2>1, <4>1, <4>2 DEF Solo, InStep
      <3> QED BY <3>1, <3>2
    <2> QED BY <2>3, <2>4
  <1>2. ASSUME NEW p \in Workers, ClaimProvider(p) PROVE Goal
    <2>1. CASE ~ProviderFree
      BY <1>2, <2>1, Back DEF ClaimProvider
    <2>2. CASE ProviderFree
      <3>1. /\ copy[p] = row /\ row.status = "RESERVED" /\ ~Settled /\ p \notin recovery
            /\ UNCHANGED <<calls, hold, recovery>>
            /\ row' = [row EXCEPT !.status = "RUNNING"]
            /\ pc'[p] = "reread"
        BY <1>2, <2>2
           DEF ClaimProvider, ProviderFree, At, InStep, Settled, Lock, Shape, Goto, TypeOK
      <3>2. /\ row'.status = "RUNNING" /\ row'.human = row.human /\ row'.attempts = row.attempts
            /\ row'.initial = row.initial /\ row'.proposal = row.proposal
        BY <1>a, <3>1 DEF Run
      <3>3. row.attempts = 0
        BY <3>1 DEF Accounted
      <3>4. FirstOf(row')
        BY <3>2 DEF Accounted, FirstOf
      <3>5. Accounted' /\ Held'
        BY <3>1, <3>2, <3>3, <3>4, OpenUnheld, OpenRow
      <3>6. InStep'
        BY <3>1, <3>2 DEF Solo, InStep, Settled
      <3> QED BY <3>5, <3>6
    <2> QED BY <2>1, <2>2
  <1>3. ASSUME NEW p \in Workers, Reread(p) PROVE Goal
    <2>1. /\ pc[p] = "reread" /\ UNCHANGED <<row, recovery, calls, hold>>
          /\ pc'[p] = "call" /\ copy'[p] = row
      BY <1>3 DEF Reread, At, Goto, TypeOK
    <2>2. ~Settled
      BY <2>1 DEF InStep
    <2>3. InStep'
      BY <2>1, <2>2 DEF Solo, InStep, Settled
    <2>4. Accounted' /\ Held'
      BY <2>1, RowKept DEF Solo
    <2> QED BY <2>3, <2>4
  <1>4. ASSUME NEW p \in Workers, ProviderAnswers(p) \/ ProviderFails(p) PROVE Goal
    <2>1. /\ pc[p] = "call" /\ copy[p] = row /\ UNCHANGED <<row, recovery, hold>>
          /\ pc'[p] \in {"audit", "save"} /\ ~Settled
      BY <1>4 DEF ProviderAnswers, ProviderFails, Calling, At, Goto, TypeOK, InStep
    <2>2. calls'.recovery = IF p \in recovery THEN calls.recovery + 1 ELSE calls.recovery
      BY <1>4, <1>a DEF ProviderAnswers, ProviderFails, Calling, TypeOK
    <2>3. Accounted'
      <3>1. calls'.recovery <= row.attempts
        BY <1>a, <2>1, <2>2 DEF Accounted, Run
      <3>2. \A q \in Workers : pc'[q] \notin {"reread", "call"}
        BY <2>1 DEF Solo
      <3> QED BY <2>1, <3>1, <3>2 DEF Accounted, FirstOf
    <2>4. Held'
      BY <2>1 DEF Held, Settled
    <2>5. /\ copy'[p].attempts = row.attempts /\ copy'[p].initial = row.initial
          /\ copy'[p].human = row.human
      <3>1. CASE ProviderFails(p)
        <4>1. copy'[p] = [row EXCEPT !.status = FailureStatus]
          BY <3>1, <2>1 DEF ProviderFails, Goto, TypeOK
        <4> QED BY <4>1, <1>a DEF Run
      <3>2. CASE ProviderAnswers(p)
        <4>1. PICK quality \in Qualities :
                 copy'[p] = [row EXCEPT
                    !.status = "PROVIDER_SUCCEEDED",
                    !.proposal = [id |-> calls.initial + calls.recovery + 1,
                                  quality |-> quality, attempt |-> row.attempts]]
          BY <3>2, <2>1 DEF ProviderAnswers, Goto, TypeOK
        <4> QED BY <4>1, <1>a DEF Run
      <3> QED BY <1>4, <3>1, <3>2
    <2>6. FirstOf(copy'[p])
      <3>1. CASE ProviderFails(p)
        <4>1. copy'[p].proposal = row.proposal
          BY <3>1, <1>a, <2>1 DEF ProviderFails, Goto, TypeOK, Run
        <4> QED BY <2>5, <4>1 DEF Accounted, FirstOf
      <3>2. CASE ProviderAnswers(p)
        <4>1. copy'[p].proposal.id = calls.initial + calls.recovery + 1
          BY <3>2, <1>a, <2>1 DEF ProviderAnswers, Goto, TypeOK, Run
        <4>2. CASE p \in recovery
          BY <1>a, <2>1, <2>5, <4>2 DEF Accounted, FirstOf, Run
        <4>3. CASE p \notin recovery
          <5>1. calls.initial = 0
            BY <2>1, <4>3 DEF Once
          <5>2. row.attempts = 0 => calls.recovery = 0
            BY <1>a DEF Accounted
          <5> QED BY <2>5, <4>1, <5>1, <5>2 DEF FirstOf
        <4> QED BY <4>2, <4>3
      <3> QED BY <1>4, <3>1, <3>2
    <2>7. InStep'
      BY <2>1, <2>5, <2>6 DEF Solo, InStep, Settled
    <2> QED BY <2>3, <2>4, <2>7
  <1>5. ASSUME NEW p \in Workers, AuditAnswer(p) \/ AuditReview(p) PROVE Goal
    <2>1. UNCHANGED <<row, calls, hold>> /\ pc[p] \in {"audit", "auditReview"}
      BY <1>5 DEF AuditAnswer, AuditReview, Audit, At
    <2>2. CASE Leave(p)
      BY <2>1, <2>2, Back
    <2>3. CASE ~Leave(p)
      <3>1. /\ copy'[p] = copy[p] /\ UNCHANGED recovery
            /\ \/ pc[p] = "audit" /\ pc'[p] = "save"
               \/ pc'[p] = "judge"
        BY <1>5, <2>3 DEF AuditAnswer, AuditReview, Audit, At, Goto, TypeOK
      <3>2. InStep'
        BY <2>1, <3>1 DEF Solo, InStep, Settled
      <3>3. Accounted' /\ Held'
        BY <2>1, <3>1, RowKept DEF Solo
      <3> QED BY <3>2, <3>3
    <2> QED BY <2>2, <2>3
  <1>6. ASSUME NEW p \in Workers, SaveAnswer(p) PROVE Goal
    <2>1. /\ pc[p] = "save" /\ UNCHANGED <<calls, hold>> /\ ~Settled
          /\ copy[p].attempts = row.attempts /\ copy[p].initial = row.initial
          /\ copy[p].human = row.human /\ FirstOf(copy[p])
          /\ copy[p].status \in {"PROVIDER_SUCCEEDED", "FAILED"}
      BY <1>6 DEF SaveAnswer, At, InStep, Lock, Shape
    <2>2. row.status \notin Terminal
      BY <2>1 DEF Lock, HeldRun, Holds, InProvider, HeldStatus, Terminal
    <2>3. row' = copy[p]
      BY <1>6, <2>2 DEF SaveAnswer, Transition
    <2>4. pc'[p] \in {"idle", "recover", "review"} /\ (pc'[p] = "review" => copy'[p] = row')
      BY <1>6, <2>3, ReturnShape DEF SaveAnswer, Goto, TypeOK
    <2>5. Accounted' /\ Held'
      BY <2>1, <2>3, <2>4, OpenUnheld, OpenRow
    <2>6. ~Settled'
      BY <2>1, <2>3 DEF Settled
    <2>7. InStep'
      BY <2>4, <2>6 DEF Solo, InStep
    <2> QED BY <2>5, <2>7
  <1>7. ASSUME NEW p \in Workers, ClaimReview(p) PROVE Goal
    <2>1. CASE ~(copy[p].proposal # NoProposal /\ ReviewFree)
      BY <1>7, <2>1, Back DEF ClaimReview
    <2>2. CASE copy[p].proposal # NoProposal /\ ReviewFree
      <3>1. /\ copy[p] = row /\ ~Settled /\ UNCHANGED <<calls, hold>>
            /\ row' = [row EXCEPT !.status = "REVIEWING"]
            /\ pc'[p] = "auditReview"
        BY <1>7, <2>2 DEF ClaimReview, At, InStep, Goto, TypeOK
      <3>2. /\ row'.status = "REVIEWING" /\ row'.human = row.human /\ row'.attempts = row.attempts
            /\ row'.initial = row.initial /\ row'.proposal = row.proposal
        BY <1>a, <3>1 DEF Run
      <3>3. FirstOf(row')
        BY <3>2 DEF Accounted, FirstOf
      <3>4. Accounted' /\ Held'
        BY <3>1, <3>2, <3>3, OpenUnheld, OpenRow
      <3>5. InStep'
        BY <3>1, <3>2 DEF Solo, InStep, Settled
      <3> QED BY <3>4, <3>5
    <2> QED BY <2>1, <2>2
  <1>8. ASSUME NEW p \in Workers, Judge(p) PROVE Goal
    <2> DEFINE q == copy[p].proposal
    <2>1. /\ pc[p] = "judge" /\ UNCHANGED <<calls, hold>> /\ ~Settled /\ q = row.proposal
          /\ row.status = "REVIEWING"
      BY <1>8 DEF Judge, At, InStep, Lock, HeldRun, Holds, InReview, HeldStatus, Sound
    <2>2. row' = Judged(row, q) /\ pc'[p] \in {"idle", "recover"}
      BY <1>8, <2>1, ReturnShape DEF Judge, Transition, Terminal
    <2>3. /\ row'.status = Decision(q.quality) /\ row'.human = "NONE" /\ row'.judged = q
          /\ row'.attempts = row.attempts /\ row'.initial = row.initial
          /\ row'.proposal = row.proposal
      BY <1>a, <2>2 DEF Judged, Run
    <2>4. /\ Decision(q.quality) \in Terminal
          /\ Decision(q.quality) = "NEEDS_HUMAN_REVIEW" => q.quality = "AMBIGUOUS"
      BY DEF Decision, Terminal
    <2>5. Held'
      BY <2>1, <2>3, <2>4, OpenUnheld DEF Held
    <2>6. Accounted'
      BY <2>1, <2>2, <2>3, <2>4, AtRest DEF Accounted, FirstOf, Terminal
    <2> QED BY <2>2, <2>5, <2>6, AtRest
  <1>9. ASSUME NEW p \in Workers, ReadRejection(p) PROVE Goal
    <2>1. CASE ~Recoverable(row)
      BY <1>9, <2>1, Back DEF ReadRejection
    <2>2. CASE Recoverable(row)
      <3>1. UNCHANGED <<row, calls, hold>> /\ copy'[p] = row /\ pc'[p] = "claimRecovery"
        BY <1>9, <2>2 DEF ReadRejection, Goto, TypeOK
      <3>2. ~Settled
        BY <2>2 DEF Recoverable, Settled
      <3>3. InStep'
        BY <2>2, <3>1, <3>2 DEF Solo, InStep, Settled, Recoverable
      <3>4. Accounted' /\ Held'
        BY <3>1, RowKept DEF Solo
      <3> QED BY <3>3, <3>4
    <2> QED BY <2>1, <2>2
  <1>10. ASSUME NEW p \in Workers, ClaimRecovery(p) PROVE Goal
    <2>1. /\ pc[p] = "claimRecovery" /\ copy[p] = row /\ Recoverable(row) /\ ~Settled
          /\ UNCHANGED <<calls, hold>>
      BY <1>10 DEF ClaimRecovery, At, InStep
    <2>2. row' = Recovering(row) /\ pc'[p] = "reread"
      BY <1>10, <2>1 DEF ClaimRecovery, Recoverable, Goto, TypeOK
    <2>3. /\ row'.status = "RECOVERY_RUNNING" /\ row'.attempts = row.attempts + 1
          /\ row'.initial = row.proposal.id /\ row'.human = row.human
      BY <1>a, <2>2 DEF Recovering, Run
    <2>4. row.attempts = 0
      BY <1>a, <2>1 DEF Recoverable, Run
    <2>5. row.proposal.id = 1
      <3>1. row.proposal.quality = "FIXABLE"
        BY <2>1 DEF Recoverable, Sound, Good
      <3> QED BY <2>4, <3>1 DEF Accounted, FirstOf
    <2>6. Accounted'
      BY <1>a, <2>1, <2>3, <2>4, <2>5 DEF Accounted, FirstOf, Recoverable
    <2>7. Held'
      BY <2>1, <2>3, OpenUnheld DEF Held
    <2>8. InStep'
      BY <2>2, <2>3 DEF Solo, InStep, Settled
    <2> QED BY <2>6, <2>7, <2>8
  <1>11. ASSUME NEW h \in Reviewers, Resolve(h) PROVE Goal
    <2> DEFINE r == hold[h].run
    <2>1. /\ r # AbsentRun /\ Settled /\ Resolvable(r, hold[h].resolution)
          /\ r.attempts = row.attempts /\ r.initial = row.initial /\ r.judged = row.judged
          /\ r.proposal = row.proposal
          /\ r \in Run /\ hold[h].resolution \in Resolution
          /\ UNCHANGED <<pc, copy, recovery, calls>>
      BY <1>11 DEF Resolve, Held, TypeOK
    <2>2. \A g \in Reviewers : hold'[g] = hold[g] \/ hold'[g].run = AbsentRun
      BY <1>11 DEF Resolve, TypeOK
    <2>3. CASE ~Unresolved(r)
      <3>1. row' = row
        BY <1>11, <2>3 DEF Resolve
      <3> QED BY <2>1, <2>2, <3>1 DEF InStep, Accounted, Held, Settled, FirstOf, Recoverable
    <2>4. CASE Unresolved(r)
      <3>1. row' = Resolved(r, hold[h].resolution) /\ row.status = r.status
        BY <1>11, <2>4 DEF Resolve, Unresolved
      <3>2. /\ row'.status = hold[h].resolution /\ row'.human = hold[h].resolution
            /\ row'.attempts = row.attempts /\ row'.initial = row.initial
            /\ row'.judged = row.judged /\ row'.proposal = row.proposal
        BY <2>1, <3>1 DEF Resolved, Run
      <3>3. Settled'
        BY <2>1, <3>1, <3>2 DEF Settled, Resolvable, Held, Resolution
      <3>4. \A p \in Workers : pc'[p] \in {"idle", "recover"}
        BY <2>1 DEF InStep
      <3>5. InStep'
        BY <3>4 DEF InStep
      <3>6. Accounted'
        BY <2>1, <3>2, <3>4 DEF Accounted, FirstOf, Resolution
      <3>7. Held'
        BY <2>1, <2>2, <3>2, <3>3 DEF Held, Resolution
      <3> QED BY <3>5, <3>6, <3>7
    <2> QED BY <2>3, <2>4
  <1>12. ASSUME NEW h \in Reviewers, NEW resolution \in Resolution, ReadHold(h, resolution)
         PROVE Goal
    <2>1. /\ UNCHANGED <<row, pc, copy, recovery, calls>> /\ Resolvable(row, resolution)
          /\ \A g \in Reviewers :
                hold'[g] = hold[g] \/ hold'[g] = [run |-> row, resolution |-> resolution]
      BY <1>12 DEF ReadHold, TypeOK
    <2>2. Settled
      BY <2>1 DEF Resolvable, Settled
    <2> QED BY <2>1, <2>2 DEF InStep, Accounted, Held, Settled, FirstOf, Recoverable
  <1>13. ASSUME Restart PROVE Goal
    <2>1. /\ UNCHANGED <<row, calls>> /\ recovery' = {}
          /\ \A p \in Workers : pc'[p] = "idle"
          /\ \A h \in Reviewers : hold'[h].run = AbsentRun
      BY <1>13 DEF Restart
    <2> QED BY <2>1 DEF InStep, Accounted, Held, Settled, FirstOf
  <1>14. ASSUME UNCHANGED vars PROVE Goal
    BY <1>14 DEF vars, InStep, Accounted, Held, Settled, FirstOf, Recoverable
  <1>15. ASSUME NEW p \in Workers, AdapterRaises(p) PROVE Goal
    BY <1>15, Back DEF AdapterRaises
  <1> QED
    BY <1>1, <1>2, <1>3, <1>4, <1>5, <1>6, <1>7, <1>8, <1>9, <1>10, <1>11, <1>12, <1>13, <1>14,
       <1>15
       DEF Next, Step

\* While a human's resolution stands no worker is past reading, and no reviewer holds the run
\* as it was before.
LEMMA ResolutionStep ==
    ASSUME Solo, MaxAttempts <= 1, Alone, [Next]_vars, row.human # "NONE"
    PROVE  row'.human = row.human /\ row'.status = row.status
  <1>1. /\ Settled /\ row.status = row.human
        /\ \A p \in Workers : pc[p] \in {"idle", "recover"}
    BY DEF Alone, Held, InStep
  <1>2. row \in Run /\ row.human \in Resolution
    BY DEF Alone, Lock, TypeOK, Run
  <1>3. ASSUME NEW p \in Workers, Reserve(p) \/ Step(p) PROVE row' = row
    BY <1>1, <1>2, <1>3
       DEF Reserve, Step, AdapterRaises, ClaimProvider, Reread, ProviderAnswers, ProviderFails,
           Calling, AuditAnswer, SaveAnswer, ClaimReview, AuditReview, Judge, ReadRejection, ClaimRecovery,
           At, Resolution
  <1>4. ASSUME NEW h \in Reviewers, Resolve(h) PROVE row'.human = row.human /\ row'.status = row.status
    <2>1. CASE ~Unresolved(hold[h].run)
      BY <1>4, <2>1 DEF Resolve
    <2>2. CASE Unresolved(hold[h].run)
      <3> DEFINE r == hold[h].run
      <3>1. /\ r \in Run /\ r # AbsentRun /\ Resolvable(r, hold[h].resolution)
            /\ row' = Resolved(r, hold[h].resolution) /\ row.status = r.status
        BY <1>4, <2>2 DEF Resolve, Unresolved, Alone, Held, Lock, TypeOK
      <3>2. r.status = "APPROVED" /\ hold[h].resolution = "APPROVED"
        BY <1>1, <1>2, <3>1 DEF Resolvable, Resolution
      <3> QED BY <1>1, <3>1, <3>2 DEF Resolved, Run
    <2> QED BY <2>1, <2>2
  <1>5. ASSUME NEW h \in Reviewers, NEW resolution \in Resolution, ReadHold(h, resolution)
        PROVE row' = row
    BY <1>5 DEF ReadHold
  <1>6. CASE Restart
    BY <1>6 DEF Restart
  <1>7. CASE UNCHANGED vars
    BY <1>7 DEF vars
  <1> QED BY <1>3, <1>4, <1>5, <1>6, <1>7 DEF Next

LEMMA AlwaysAlone ==
    ASSUME Solo, MaxAttempts <= 1
    PROVE  Spec => []Alone
  <1>1. Init => Alone
    BY LockInit, SoundInit, AloneInit DEF Init, Alone, Once, ProviderOnce
  <1>2. Alone /\ [Next]_vars => Alone'
    BY AloneStep, LockStep, SoundStep, OnceStep DEF Alone
  <1> QED BY <1>1, <1>2, PTL DEF Spec

\* One worker, restarts included, makes the one budgeted recovery call and keeps the rejection
\* it answers.
THEOREM RecoveryIsAccounted ==
    ASSUME Solo, MaxAttempts <= 1
    PROVE  Spec => []RecoveryAccounted
  <1>1. Alone => RecoveryAccounted
    BY ConstantsAssumption
       DEF Alone, Accounted, RecoveryAccounted, RecoveryBudget, RejectionRetained, Lock, TypeOK, Run
  <1> QED BY <1>1, AlwaysAlone, PTL

\* Under the same assumptions a human resolution is never overwritten.
THEOREM ResolutionIsFinal ==
    ASSUME Solo, MaxAttempts <= 1
    PROVE  Spec => HumanFinal
  <1>1. Alone /\ [Next]_vars =>
          (row.human # "NONE" => row'.human = row.human /\ row'.status = row.status)
    BY ResolutionStep
  <1> QED BY <1>1, AlwaysAlone, PTL DEF Spec, HumanFinal

\* However often the stage is entered, by however many tasks and across restarts, the status is
\* a lock and the initial call is made once.
THEOREM StageIsExclusive == Spec => []StageExclusive
  <1>1. TypeOK /\ HeldRun /\ ProviderOnce => StageExclusive
    BY DEF StageExclusive
  <1> QED BY <1>1, TypeCorrect, StatusIsLock, CalledOnce, PTL
=============================================================================

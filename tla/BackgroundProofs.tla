--------------------------- MODULE BackgroundProofs ---------------------------
(***************************************************************************)
(* What goes on in the background of the API, for any number of tasks,     *)
(* requests, workers, tries and restarts.                                  *)
(*                                                                         *)
(* ProviderGate: the circuit row counts the failures since the last        *)
(* success, a task that ends leaves what its run calls for, and a          *)
(* configuration error and a saved result stay.                            *)
(*                                                                         *)
(* ComicProduction: an execution that has ended is final in its directory  *)
(* and a finished job is not executed again; no handoff or torn result     *)
(* file is left to nobody while the API process lives; and pages show      *)
(* accepted images only, each drawn after the one it continues.            *)
(***************************************************************************)
EXTENDS ProviderGate, ComicProduction, FiniteSetTheorems, TLAPS

-----------------------------------------------------------------------------
(* The gate before the Provider *)

\* GateTypeOK without the bound of built.
Types ==
    /\ circuit \in Rows
    /\ profile \in [Models -> Profiles]
    /\ shared \in Tasks \cup {Nobody}
    /\ applied \in [Instances -> Profiles]
    /\ run \in [Tasks -> [status : RunStatus, phase : Phase, codes : BOOLEAN]]
    /\ pc \in [Tasks -> Labels]
    /\ inst \in [Tasks -> Tasks \cup {Nobody}]
    /\ seen \in [Tasks -> Rows]
    /\ restarts \in 0 .. MaxRestarts
    /\ streak \in Nat
    /\ overlapped \in BOOLEAN
    /\ built \in Nat

\* Tasks on their way to make a Provider object.
Makers == {t \in Tasks : pc[t] = "build"}

\* An object is missing until one is made; each task makes one at most.
MadeOnce ==
    /\ shared = Nobody <=> built = 0
    /\ built + Cardinality(Makers) <= Cardinality(Tasks)

\* A probe under way is alone, and the row it read still counts.
Alone ==
    ~overlapped =>
        \A t \in Tasks : At(t, "answer") =>
            /\ circuit.status # "CONFIGURATION_ERROR"
            /\ seen[t].saved => seen[t].failures = circuit.failures
            /\ \A u \in Tasks : At(u, "answer") => u = t

\* Where a run that has its result, or has not begun, may be.
Told ==
    \A t \in Tasks :
        /\ run[t].status = "SUCCEEDED" => pc[t] \in {"settle", "raised", "end", "lost"}
        /\ pc[t] = "settle" => run[t].status # "PENDING"
        /\ pc[t] = "raised" => run[t].status \in {"RUNNING", "SUCCEEDED"}

\* The places of a task that has its Provider object, and those behind each negotiation.
Holding == {"circuit", "answer", "narrative", "ask_narrative", "timeline", "ask_timeline", "work",
            "settle"}
Narrated == {"timeline", "ask_timeline", "work", "settle"}
Timed == {"work", "settle"}

\* While one object was made, it is the one everybody holds, and it carries what was negotiated.
Carried ==
    /\ \A t \in Tasks : (inst[t] # Nobody => built # 0) /\ (pc[t] \in Holding => inst[t] # Nobody)
    /\ built <= 1 =>
        \A t \in Tasks :
            /\ inst[t] \in {Nobody, shared}
            /\ pc[t] \in Narrated => applied[shared] # NoProfile
            /\ pc[t] \in Timed => applied["timeline"] # NoProfile

Inv == Types /\ MadeOnce /\ AllowanceExact /\ Alone /\ Told /\ PhaseAgrees /\ Carried

-----------------------------------------------------------------------------
LEMMA InitInv == GateInit => Inv
<1> SUFFICES ASSUME GateInit PROVE Inv
    OBVIOUS
<1>0. NoProfile \in Profiles /\ CleanRow \in Rows
    BY GateAssumption DEF NoProfile, Profiles, Modes, CleanRow, Rows, HealthStatus, Opened
<1>1. Types
    <2>1. circuit \in Rows /\ profile \in [Models -> Profiles] /\ applied \in [Instances -> Profiles]
        BY <1>0 DEF GateInit
    <2>2. [status |-> "PENDING", phase |-> "QUEUED", codes |-> FALSE]
              \in [status : RunStatus, phase : Phase, codes : BOOLEAN]
        BY DEF RunStatus, Phase
    <2>3. run \in [Tasks -> [status : RunStatus, phase : Phase, codes : BOOLEAN]]
        BY <2>2 DEF GateInit
    <2>4. pc \in [Tasks -> Labels] /\ inst \in [Tasks -> Tasks \cup {Nobody}] /\ seen \in [Tasks -> Rows]
        BY <1>0 DEF GateInit, Labels
    <2>5. 0 \in 0 .. MaxRestarts
        BY GateAssumption
    <2>6. /\ shared \in Tasks \cup {Nobody} /\ restarts \in 0 .. MaxRestarts
          /\ streak \in Nat /\ built \in Nat /\ overlapped \in BOOLEAN
        BY <2>5 DEF GateInit
    <2>7. QED BY <2>1, <2>3, <2>4, <2>6 DEF Types
<1>2. MadeOnce
    <2>1. Makers = {} /\ built = 0 /\ shared = Nobody
        BY DEF GateInit, Makers
    <2>2. QED BY <2>1, GateAssumption, FS_EmptySet, FS_CardinalityType DEF MadeOnce
<1>3. AllowanceExact
    BY DEF GateInit, AllowanceExact, CleanRow
<1>4. Alone /\ Told /\ PhaseAgrees
    BY DEF GateInit, Alone, Told, PhaseAgrees, At
<1>5. Carried
    BY DEF GateInit, Carried, Holding, Narrated, Timed
<1>6. QED BY <1>1, <1>2, <1>3, <1>4, <1>5 DEF Inv

-----------------------------------------------------------------------------
(* Steps *)

\* How a run is saved and a task moves.
LEMMA SaveRunIs ==
    ASSUME Types, NEW t \in Tasks, NEW status \in RunStatus, NEW phase \in Phase,
           NEW codes \in BOOLEAN, SaveRun(t, status, phase, codes)
    PROVE  /\ run' \in [Tasks -> [status : RunStatus, phase : Phase, codes : BOOLEAN]]
           /\ run'[t].status = status /\ run'[t].phase = phase /\ run'[t].codes = codes
           /\ \A u \in Tasks : u # t => run'[u] = run[u]
<1>1. [status |-> status, phase |-> phase, codes |-> codes]
          \in [status : RunStatus, phase : Phase, codes : BOOLEAN]
    OBVIOUS
<1>2. QED BY <1>1 DEF SaveRun, Types

LEMMA GotoIs ==
    ASSUME Types, NEW t \in Tasks, NEW label \in Labels, Goto(t, label)
    PROVE  /\ pc' \in [Tasks -> Labels] /\ pc'[t] = label
           /\ \A u \in Tasks : u # t => pc'[u] = pc[u]
BY DEF Goto, Types

\* A task that is turned away waits or ends, and lets its object go.
LEMMA RefusedIs ==
    ASSUME Types, NEW t \in Tasks, NEW reason, Refused(t, reason)
    PROVE  /\ run' \in [Tasks -> [status : RunStatus, phase : Phase, codes : BOOLEAN]]
           /\ pc' \in [Tasks -> Labels]
           /\ inst' \in [Tasks -> Tasks \cup {Nobody}] /\ seen' \in [Tasks -> Rows]
           /\ \A u \in Tasks : u # t => /\ run'[u] = run[u] /\ pc'[u] = pc[u]
                                        /\ inst'[u] = inst[u] /\ seen'[u] = seen[u]
           /\ inst'[t] = Nobody
           /\ \/ pc'[t] = "wait" /\ run'[t].status = "RUNNING"
              \/ pc'[t] = "end" /\ run'[t].status = "NEEDS_HUMAN_ACTION"
                                /\ run'[t].phase = "NEEDS_HUMAN_ACTION" /\ run'[t].codes
              \/ pc'[t] = "end" /\ run'[t].status = "FAILED" /\ run'[t].phase = "FAILED"
                                /\ run'[t].codes
<1>0. CleanRow \in Rows
    BY DEF CleanRow, Rows, HealthStatus, Opened
<1>1. /\ inst' \in [Tasks -> Tasks \cup {Nobody}] /\ seen' \in [Tasks -> Rows] /\ inst'[t] = Nobody
      /\ \A u \in Tasks : u # t => inst'[u] = inst[u] /\ seen'[u] = seen[u]
    BY <1>0 DEF Refused, Types
<1>2. CASE reason = "WAITING_RETRY"
    <2>1. SaveRun(t, "RUNNING", "PROVIDER_CHECKING", TRUE) /\ Goto(t, "wait")
        BY <1>2 DEF Refused
    <2>2. QED BY <1>1, <2>1, SaveRunIs, GotoIs DEF RunStatus, Phase, Labels
<1>3. CASE reason = "PAUSED"
    <2>1. SaveRun(t, "NEEDS_HUMAN_ACTION", "NEEDS_HUMAN_ACTION", TRUE) /\ Goto(t, "end")
        BY <1>3 DEF Refused
    <2>2. QED BY <1>1, <2>1, SaveRunIs, GotoIs DEF RunStatus, Phase, Labels
<1>4. CASE reason # "WAITING_RETRY" /\ reason # "PAUSED"
    <2>1. SaveRun(t, "FAILED", "FAILED", TRUE) /\ Goto(t, "end")
        BY <1>4 DEF Refused
    <2>2. QED BY <1>1, <2>1, SaveRunIs, GotoIs DEF RunStatus, Phase, Labels
<1>5. QED BY <1>2, <1>3, <1>4

\* What a failed probe writes.
LEMMA RecordFailureIs ==
    ASSUME Types, NEW t \in Tasks, NEW previous \in Rows, NEW auth \in BOOLEAN,
           RecordFailure(t, previous, auth)
    PROVE  /\ circuit' \in Rows /\ streak' = streak + 1
           /\ circuit'.failures = previous.failures + 1
           /\ circuit'.status = FailureStatus(previous.failures + 1, auth)
           /\ circuit'.saved = TRUE
           /\ Refused(t, circuit'.status)
           /\ UNCHANGED <<profile, objects, restarts, built>>
<1>a. PICK n \in Nat : n = previous.failures
    BY DEF Rows
<1>b. PICK status : status = FailureStatus(n + 1, auth)
    OBVIOUS
<1>1. /\ circuit' = [status |-> status, failures |-> n + 1, due |-> FALSE, saved |-> TRUE]
      /\ streak' = streak + 1 /\ Refused(t, status)
      /\ UNCHANGED <<profile, objects, restarts, built>>
    BY <1>a, <1>b DEF RecordFailure
<1>2. status \in HealthStatus
    BY <1>b DEF FailureStatus, HealthStatus, Opened
<1>3. /\ circuit' \in Rows /\ circuit'.failures = n + 1 /\ circuit'.status = status
      /\ circuit'.saved = TRUE
    BY <1>1, <1>2 DEF Rows
<1>4. QED BY <1>a, <1>b, <1>1, <1>3

LEMMA PreviousIs ==
    ASSUME Types, NEW t \in Tasks
    PROVE  Previous(t) \in Rows
BY DEF Types, Previous

\* Whose object a negotiation writes, and what an admission does.
LEMMA InstanceIs ==
    ASSUME Types, NEW t \in Tasks, NEW m \in Models, NEW p \in Profiles, Apply(t, m, p)
    PROVE  /\ applied' \in [Instances -> Profiles]
           /\ \A i \in Instances : applied'[i] = applied[i] \/ applied'[i] = p
           /\ m = "timeline" => applied'["timeline"] = p
           /\ m = "narrative" /\ inst[t] \in Instances => applied'[inst[t]] = p
BY DEF Types, Apply, Instance, Models, Instances

LEMMA AdmitIs ==
    ASSUME Types, NEW t \in Tasks, NEW m \in Models, NEW p, Admit(t, m, p)
    PROVE  \/ Goto(t, AfterModel(m)) /\ UNCHANGED <<run, local>> /\ AfterModel(m) \in Labels
           \/ Refused(t, "UNAVAILABLE")
BY DEF Admit, AfterModel, Models, Labels

LEMMA NegotiatedIs ==
    /\ NoProfile \in Profiles
    /\ \A p \in Negotiated : p \in Profiles /\ p.fresh = TRUE
<1>1. NoProfile \in Profiles
    BY GateAssumption DEF NoProfile, Profiles, Modes
<1>2. \A p \in Negotiated : p \in Profiles /\ p.fresh = TRUE
    BY DEF Negotiated, Profiles, Modes
<1>3. QED BY <1>1, <1>2

LEMMA TypesStep == Types /\ [GateNext]_gateVars => Types'
<1> SUFFICES ASSUME Types, [GateNext]_gateVars PROVE Types'
    OBVIOUS
<1>1. ASSUME NEW t \in Tasks, Check(t) PROVE Types'
    <2>1. SaveRun(t, run[t].status, "PROVIDER_CHECKING", run[t].codes)
        BY <1>1 DEF Check
    <2>2. run[t].status \in RunStatus /\ run[t].codes \in BOOLEAN
        BY DEF Types
    <2>3. run' \in [Tasks -> [status : RunStatus, phase : Phase, codes : BOOLEAN]]
        BY <2>1, <2>2, SaveRunIs DEF Phase
    <2>4. QED BY <1>1, <2>3 DEF Check, Goto, Types, Labels, rows, objects, history
<1>2. ASSUME NEW t \in Tasks, BuildProvider(t) PROVE Types'
    BY <1>2, NegotiatedIs DEF BuildProvider, Published, Goto, Types, Labels, Instances, rows
<1>3. ASSUME NEW t \in Tasks, TurnedAway(t) PROVE Types'
    BY <1>3, RefusedIs DEF TurnedAway, Types, rows, objects, history
<1>4. ASSUME NEW t \in Tasks, NEW previous \in Rows, NEW auth \in BOOLEAN,
             RecordFailure(t, previous, auth), overlapped' \in BOOLEAN
      PROVE  Types'
    <2>1. /\ circuit' \in Rows /\ streak' = streak + 1
          /\ Refused(t, circuit'.status) /\ UNCHANGED <<profile, objects, restarts, built>>
        BY <1>4, RecordFailureIs
    <2>2. QED BY <1>4, <2>1, RefusedIs DEF Types, objects
<1>5. ASSUME NEW t \in Tasks, ProbeUnsent(t) PROVE Types'
    BY <1>4, <1>5 DEF ProbeUnsent, Types
<1>6. ASSUME NEW t \in Tasks, NEW auth \in BOOLEAN, ProbeFails(t, auth) PROVE Types'
    BY <1>4, <1>6, PreviousIs DEF ProbeFails, Types
<1>7. ASSUME NEW t \in Tasks, Probe(t) PROVE Types'
    BY <1>7 DEF Probe, Goto, Types, Labels, rows, objects
<1>8. ASSUME NEW t \in Tasks, ProbeSucceeds(t) PROVE Types'
    <2>1. Recovered(circuit) \in Rows /\ CleanRow \in Rows
        BY DEF Recovered, CleanRow, Rows, HealthStatus, Opened
    <2>2. QED BY <1>8, <2>1 DEF ProbeSucceeds, Goto, Types, Labels, objects
<1>9. ASSUME NEW t \in Tasks, NEW m \in Models, NEW p \in Profiles, Apply(t, m, p), Admit(t, m, p),
             UNCHANGED <<circuit, shared, restarts, history>>, profile' \in [Models -> Profiles]
      PROVE  Types'
    <2>1. applied' \in [Instances -> Profiles]
        BY <1>9, InstanceIs
    <2>2. CASE Refused(t, "UNAVAILABLE")
        BY <1>9, <2>1, <2>2, RefusedIs DEF Types, history
    <2>3. CASE Goto(t, AfterModel(m)) /\ UNCHANGED <<run, local>> /\ AfterModel(m) \in Labels
        BY <1>9, <2>1, <2>3, GotoIs DEF Types, local, history
    <2>4. QED BY <1>9, <2>2, <2>3, AdmitIs
<1>10. ASSUME NEW t \in Tasks, NEW m \in Models, Cached(t, m) PROVE Types'
    <2>1. CASE profile[m].fresh
        <3>1. profile[m] \in Profiles
            BY DEF Types
        <3>2. QED BY <1>9, <1>10, <2>1, <3>1 DEF Cached, rows, Types
    <2>2. CASE ~profile[m].fresh
        BY <1>10, <2>2 DEF Cached, Goto, Asking, Types, Labels, Models, rows, local, history
    <2>3. QED BY <2>1, <2>2
<1>11. ASSUME NEW t \in Tasks, NEW m \in Models, Negotiate(t, m) PROVE Types'
    <2>1. PICK p \in Negotiated : profile' = [profile EXCEPT ![m] = p] /\ Apply(t, m, p) /\ Admit(t, m, p)
        BY <1>11 DEF Negotiate
    <2>2. p \in Profiles /\ profile' \in [Models -> Profiles]
        BY <2>1, NegotiatedIs DEF Types
    <2>3. QED BY <1>9, <1>11, <2>1, <2>2 DEF Negotiate
<1>12. ASSUME NEW t \in Tasks, NEW status \in RunStatus, NEW phase \in Phase, NEW codes \in BOOLEAN,
              NEW label \in Labels, SaveRun(t, status, phase, codes), Goto(t, label),
              UNCHANGED <<rows, objects, local, restarts, history>>
       PROVE  Types'
    <2>1. /\ run' \in [Tasks -> [status : RunStatus, phase : Phase, codes : BOOLEAN]]
          /\ pc' \in [Tasks -> Labels]
        BY <1>12, SaveRunIs, GotoIs
    <2>2. QED BY <1>12, <2>1 DEF Types, rows, objects, local, history
<1>13. ASSUME NEW t \in Tasks, Work(t) \/ Settle(t) \/ SaveFailure(t) PROVE Types'
    <2>0. run[t].status \in RunStatus /\ run[t].phase \in Phase /\ run[t].codes \in BOOLEAN
        BY DEF Types
    <2>1. ASSUME NEW status \in RunStatus, Worked(t, status) PROVE Types'
        BY <1>12, <2>0, <2>1 DEF Worked, Labels
    <2>2. CASE WorkerWaits(t) \/ WorkerSettles(t)
        BY <2>1, <2>2 DEF WorkerWaits, WorkerSettles, RunStatus
    <2>3. CASE WorkerRaises(t)
        BY <1>12, <2>0, <2>3 DEF WorkerRaises, RunStatus, Labels
    <2>4. CASE Settle(t)
        <3>1. PhaseOf(run[t].status) \in Phase
            BY <2>0 DEF PhaseOf, RunStatus, Phase
        <3>2. CASE Settled(run[t].status)
            <4>1. /\ SaveRun(t, run[t].status, PhaseOf(run[t].status),
                             run[t].codes /\ run[t].status # "SUCCEEDED")
                  /\ Goto(t, "end") /\ UNCHANGED <<rows, objects, local, restarts, history>>
                BY <2>4, <3>2 DEF Settle
            <4>2. (run[t].codes /\ run[t].status # "SUCCEEDED") \in BOOLEAN
                OBVIOUS
            <4>3. QED BY <1>12, <2>0, <3>1, <4>1, <4>2 DEF Labels
        <3>3. CASE ~Settled(run[t].status)
            BY <2>4, <3>3 DEF Settle, Goto, Types, Labels, rows, objects, local, history
        <3>4. QED BY <3>2, <3>3
    <2>5. CASE SaveFailure(t)
        <3>1. AfterRaise(run[t].status) \in RunStatus
            BY DEF AfterRaise, RunStatus
        <3>2. QED BY <1>12, <2>5, <3>1 DEF SaveFailure, Phase, Labels
    <2>6. QED BY <1>13, <2>2, <2>3, <2>4, <2>5 DEF Work
<1>14. ASSUME DeadlinePasses PROVE Types'
    <2>1. [circuit EXCEPT !.due = TRUE] \in Rows
        BY DEF Types, Rows
    <2>2. QED BY <1>14, <2>1 DEF DeadlinePasses, Types, objects, local, history
<1>15. ASSUME NEW m \in Models, ProfileExpires(m) PROVE Types'
    BY <1>15, NegotiatedIs DEF ProfileExpires, Types, objects, local, history
<1>16. ASSUME RestartProcess PROVE Types'
    <2>1. CleanRow \in Rows /\ NoProfile \in Profiles
        BY NegotiatedIs DEF CleanRow, Rows, HealthStatus, Opened
    <2>2. pc' \in [Tasks -> Labels] /\ restarts' \in 0 .. MaxRestarts
        BY <1>16, GateAssumption DEF RestartProcess, Types, Labels
    <2>3. QED BY <1>16, <2>1, <2>2 DEF RestartProcess, Types, rows
<1>17. CASE UNCHANGED gateVars
    BY <1>17 DEF gateVars, rows, objects, local, history, Types
<1>18. QED
    BY <1>1, <1>2, <1>3, <1>5, <1>6, <1>7, <1>8, <1>10, <1>11, <1>13, <1>14, <1>15, <1>16, <1>17
    DEF GateNext, Gate

\* A step that neither makes an object nor takes a task to the place where one is made.
LEMMA SameMakers ==
    ASSUME MadeOnce, UNCHANGED <<shared, built>>,
           \A u \in Tasks : pc'[u] = "build" <=> pc[u] = "build"
    PROVE  MadeOnce'
<1>1. Makers' = Makers
    BY DEF Makers
<1>2. QED BY <1>1 DEF MadeOnce

LEMMA MadeOnceStep == Types /\ MadeOnce /\ [GateNext]_gateVars => MadeOnce'
<1> SUFFICES ASSUME Types, MadeOnce, [GateNext]_gateVars PROVE MadeOnce'
    OBVIOUS
<1>0. IsFiniteSet(Tasks) /\ Cardinality(Tasks) \in Nat /\ built \in Nat
    BY GateAssumption, FS_CardinalityType DEF Types
<1>a. \A S : S \subseteq Tasks => /\ IsFiniteSet(S) /\ Cardinality(S) \in Nat
                                  /\ Cardinality(S) <= Cardinality(Tasks)
    BY <1>0, FS_Subset, FS_CardinalityType
<1>b. Makers \subseteq Tasks /\ Makers' \subseteq Tasks
    BY DEF Makers
<1>1. ASSUME NEW t \in Tasks, Check(t) PROVE MadeOnce'
    <2>1. CASE shared = Nobody
        <3>1. shared' = shared /\ built' = built /\ built = 0
            BY <1>1, <2>1 DEF Check, MadeOnce, objects, history
        <3>2. QED BY <1>0, <1>a, <1>b, <2>1, <3>1 DEF MadeOnce
    <2>2. CASE shared # Nobody
        <3>1. pc[t] \in {"idle", "wait"} /\ pc' = [pc EXCEPT ![t] = "circuit"] /\ UNCHANGED <<shared, built>>
            BY <1>1, <2>2 DEF Check, Goto, objects, history
        <3>2. \A u \in Tasks : pc'[u] = "build" <=> pc[u] = "build"
            BY <3>1 DEF Types
        <3>3. QED BY <3>1, <3>2, SameMakers
    <2>3. QED BY <2>1, <2>2
<1>2. ASSUME NEW t \in Tasks, BuildProvider(t) PROVE MadeOnce'
    <2>1. /\ pc[t] = "build" /\ pc' = [pc EXCEPT ![t] = "circuit"] /\ built' = built + 1 /\ shared' = t
        BY <1>2 DEF BuildProvider, Published, Goto, At
    <2>2. Makers' = Makers \ {t} /\ t \in Makers
        BY <2>1 DEF Types, Makers
    <2>3. IsFiniteSet(Makers) /\ Cardinality(Makers) \in Nat /\ Cardinality(Makers') = Cardinality(Makers) - 1
        BY <1>a, <1>b, <2>2, FS_RemoveElement
    <2>4. shared' # Nobody
        BY <2>1, GateAssumption DEF Nobody
    <2>5. QED BY <1>0, <2>1, <2>3, <2>4 DEF MadeOnce
<1>3. ASSUME NEW t \in Tasks, NEW reason, Refused(t, reason), pc[t] # "build", UNCHANGED <<shared, built>>
      PROVE  MadeOnce'
    BY <1>3, RefusedIs, SameMakers
<1>4. ASSUME NEW t \in Tasks, NEW label \in Labels, Goto(t, label), pc[t] # "build", label # "build",
             UNCHANGED <<shared, built>>
      PROVE  MadeOnce'
    BY <1>4, GotoIs, SameMakers
<1>5. ASSUME NEW t \in Tasks, TurnedAway(t) PROVE MadeOnce'
    BY <1>3, <1>5 DEF TurnedAway, At, objects, history
<1>6. ASSUME NEW t \in Tasks, ProbeUnsent(t) PROVE MadeOnce'
    BY <1>3, <1>6 DEF ProbeUnsent, RecordFailure, At, objects
<1>7. ASSUME NEW t \in Tasks, NEW auth \in BOOLEAN, ProbeFails(t, auth) PROVE MadeOnce'
    BY <1>3, <1>7 DEF ProbeFails, RecordFailure, At, objects
<1>8. ASSUME NEW t \in Tasks, Probe(t) \/ ProbeSucceeds(t) PROVE MadeOnce'
    BY <1>4, <1>8 DEF Probe, ProbeSucceeds, At, Labels, objects
<1>9. ASSUME NEW t \in Tasks, NEW m \in Models, NEW p, Admit(t, m, p), pc[t] # "build",
             UNCHANGED <<shared, built>>
      PROVE  MadeOnce'
    BY <1>3, <1>4, <1>9, AdmitIs DEF Admit, AfterModel
<1>10. ASSUME NEW t \in Tasks, NEW m \in Models, Cached(t, m) \/ Negotiate(t, m) PROVE MadeOnce'
    <2>1. CASE Cached(t, m)
        BY <1>4, <1>9, <2>1 DEF Cached, Asking, At, Models, Labels, history
    <2>2. CASE Negotiate(t, m)
        BY <1>9, <2>2 DEF Negotiate, Asking, At, Models, history
    <2>3. QED BY <1>10, <2>1, <2>2
<1>11. ASSUME NEW t \in Tasks, Work(t) \/ Settle(t) \/ SaveFailure(t) PROVE MadeOnce'
    <2>1. PICK label \in Labels : /\ label # "build" /\ pc[t] # "build" /\ Goto(t, label)
                                  /\ UNCHANGED <<shared, built>>
        BY <1>11 DEF Work, WorkerWaits, WorkerSettles, Worked, WorkerRaises, Settle, SaveFailure, At, Labels,
                     objects, history
    <2>2. QED BY <1>4, <2>1
<1>12. ASSUME DeadlinePasses \/ (\E m \in Models : ProfileExpires(m)) \/ UNCHANGED gateVars PROVE MadeOnce'
    <2>1. UNCHANGED <<shared, built, pc>>
        BY <1>12 DEF DeadlinePasses, ProfileExpires, gateVars, objects, history
    <2>2. QED BY <2>1, SameMakers
<1>13. ASSUME RestartProcess PROVE MadeOnce'
    BY <1>0, <1>a, <1>b, <1>13 DEF RestartProcess, MadeOnce
<1>14. QED
    BY <1>1, <1>2, <1>5, <1>6, <1>7, <1>8, <1>10, <1>11, <1>12, <1>13 DEF GateNext, Gate

-----------------------------------------------------------------------------
(* The allowance *)

Counted == AllowanceExact /\ Alone

\* A step that leaves the row and the history alone and begins no probe.
LEMMA SameCount ==
    ASSUME Counted, UNCHANGED <<circuit, streak, overlapped>>,
           \A u \in Tasks : pc'[u] = "answer" => pc[u] = "answer" /\ seen'[u] = seen[u]
    PROVE  Counted'
<1>1. AllowanceExact'
    BY DEF Counted, AllowanceExact
<1>2. Alone'
    BY DEF Counted, Alone, At
<1>3. QED BY <1>1, <1>2 DEF Counted

\* A failed probe, nobody else being at one, is counted once.
LEMMA FailureCounted ==
    ASSUME Types, Counted, NEW t \in Tasks, NEW previous \in Rows, NEW auth \in BOOLEAN,
           RecordFailure(t, previous, auth),
           ~overlapped' => /\ ~overlapped /\ previous.failures = circuit.failures
                           /\ \A u \in Tasks : At(u, "answer") => u = t
    PROVE  Counted'
<1>1. /\ streak' = streak + 1 /\ circuit'.failures = previous.failures + 1
      /\ circuit'.status = FailureStatus(previous.failures + 1, auth)
      /\ Refused(t, circuit'.status)
    BY RecordFailureIs
<1>2. pc'[t] # "answer" /\ \A u \in Tasks : u # t => pc'[u] = pc[u]
    BY <1>1, RefusedIs
<1>3. Alone'
    BY <1>2 DEF Alone, At
<1>4. AllowanceExact'
    <2> SUFFICES ASSUME ~overlapped'
                 PROVE  /\ circuit'.failures = streak'
                        /\ circuit'.status = "AVAILABLE" <=> streak' = 0
                        /\ circuit'.status = "WAITING_RETRY" => streak' < Threshold
                        /\ circuit'.status = "PAUSED" => streak' >= Threshold
        BY DEF AllowanceExact
    <2>a. PICK n \in Nat : n = streak
        BY DEF Types
    <2>1. previous.failures = n
        BY <2>a DEF Counted, AllowanceExact
    <2>2. streak' = n + 1 /\ circuit'.failures = n + 1 /\ circuit'.status = FailureStatus(n + 1, auth)
        BY <1>1, <2>a, <2>1
    <2>3. Threshold \in Nat
        BY GateAssumption
    <2>4. QED BY <2>2, <2>3 DEF FailureStatus
<1>5. QED BY <1>3, <1>4 DEF Counted

LEMMA CountedStep == Types /\ Counted /\ [GateNext]_gateVars => Counted'
<1> SUFFICES ASSUME Types, Counted, [GateNext]_gateVars PROVE Counted'
    OBVIOUS
<1>1. ASSUME NEW t \in Tasks, ProbeUnsent(t) PROVE Counted'
    <2>1. RecordFailure(t, circuit, FALSE) /\ overlapped' = (overlapped \/ Probing # {}) /\ circuit \in Rows
        BY <1>1 DEF ProbeUnsent, Types
    <2>2. ~overlapped' => ~overlapped /\ \A u \in Tasks : ~At(u, "answer")
        BY <2>1 DEF Probing
    <2>3. QED BY <2>1, <2>2, FailureCounted
<1>2. ASSUME NEW t \in Tasks, NEW auth \in BOOLEAN, ProbeFails(t, auth) PROVE Counted'
    <2>1. /\ RecordFailure(t, Previous(t), auth) /\ overlapped' = overlapped /\ At(t, "answer")
          /\ Previous(t) \in Rows
        BY <1>2, PreviousIs DEF ProbeFails
    <2>2. ~overlapped => /\ Previous(t).failures = circuit.failures
                         /\ \A u \in Tasks : At(u, "answer") => u = t
        BY <2>1 DEF Counted, Alone, Previous
    <2>3. QED BY <2>1, <2>2, FailureCounted
<1>3. ASSUME NEW t \in Tasks, ProbeSucceeds(t) PROVE Counted'
    <2>1. /\ circuit' = Recovered(circuit) /\ streak' = 0 /\ overlapped' = overlapped
          /\ pc' = [pc EXCEPT ![t] = "narrative"] /\ At(t, "answer")
        BY <1>3 DEF ProbeSucceeds, Goto
    <2>2. circuit'.status = "AVAILABLE" /\ circuit'.failures = 0
        BY <2>1 DEF Recovered, CleanRow
    <2>3. AllowanceExact'
        BY <2>1, <2>2, GateAssumption DEF AllowanceExact
    <2>4. ~overlapped' => \A u \in Tasks : pc'[u] # "answer"
        BY <2>1 DEF Counted, Alone, At, Types
    <2>5. QED BY <2>3, <2>4 DEF Counted, Alone, At
<1>4. ASSUME NEW t \in Tasks, Probe(t) PROVE Counted'
    <2>1. /\ ~Closed(circuit) /\ seen' = [seen EXCEPT ![t] = circuit]
          /\ overlapped' = (overlapped \/ Probing # {}) /\ pc' = [pc EXCEPT ![t] = "answer"]
          /\ circuit' = circuit /\ streak' = streak
        BY <1>4 DEF Probe, Goto, rows
    <2>2. AllowanceExact'
        BY <2>1 DEF Counted, AllowanceExact
    <2>3. Alone'
        <3>1. ~overlapped' => \A u \in Tasks : u # t => pc'[u] # "answer"
            BY <2>1 DEF Probing, At, Types
        <3>2. seen'[t] = circuit /\ circuit.status # "CONFIGURATION_ERROR"
            BY <2>1 DEF Closed, Types
        <3>3. QED BY <2>1, <3>1, <3>2 DEF Alone, At
    <2>4. QED BY <2>2, <2>3 DEF Counted
<1>5. ASSUME DeadlinePasses PROVE Counted'
    <2>1. /\ circuit'.status = circuit.status /\ circuit'.failures = circuit.failures
          /\ UNCHANGED <<streak, overlapped, pc, seen>>
        BY <1>5 DEF DeadlinePasses, Types, Rows, local, history
    <2>2. QED BY <2>1 DEF Counted, AllowanceExact, Alone, At
<1>6. ASSUME RestartProcess PROVE Counted'
    <2>1. UNCHANGED <<circuit, streak, overlapped>> /\ \A u \in Tasks : pc'[u] # "answer"
        BY <1>6 DEF RestartProcess, rows
    <2>2. QED BY <2>1, SameCount
<1>7. ASSUME NEW t \in Tasks, NEW reason, Refused(t, reason), UNCHANGED <<circuit, streak, overlapped>>
      PROVE  Counted'
    BY <1>7, RefusedIs, SameCount
<1>8. ASSUME NEW t \in Tasks, NEW label \in Labels, Goto(t, label), label # "answer",
             UNCHANGED <<circuit, streak, overlapped, seen>>
      PROVE  Counted'
    BY <1>8, GotoIs, SameCount
<1>9. ASSUME NEW t \in Tasks, Check(t) \/ BuildProvider(t) PROVE Counted'
    <2>1. PICK label \in Labels : label # "answer" /\ Goto(t, label)
                                  /\ UNCHANGED <<circuit, streak, overlapped, seen>>
        BY <1>9 DEF Check, BuildProvider, Labels, rows, history
    <2>2. QED BY <1>8, <2>1
<1>10. ASSUME NEW t \in Tasks, TurnedAway(t) PROVE Counted'
    BY <1>7, <1>10 DEF TurnedAway, rows, history
<1>11. ASSUME NEW t \in Tasks, NEW m \in Models, NEW p, Admit(t, m, p),
              UNCHANGED <<circuit, streak, overlapped>>
       PROVE  Counted'
    <2>1. CASE Refused(t, "UNAVAILABLE")
        BY <1>7, <1>11, <2>1
    <2>2. CASE Goto(t, AfterModel(m)) /\ UNCHANGED <<run, local>> /\ AfterModel(m) \in Labels
        BY <1>8, <1>11, <2>2 DEF AfterModel, local
    <2>3. QED BY <1>11, <2>1, <2>2, AdmitIs
<1>12. ASSUME NEW t \in Tasks, NEW m \in Models, Cached(t, m) \/ Negotiate(t, m) PROVE Counted'
    <2>1. CASE Cached(t, m)
        BY <1>8, <1>11, <2>1 DEF Cached, Asking, Labels, rows, local, history
    <2>2. CASE Negotiate(t, m)
        BY <1>11, <2>2 DEF Negotiate, history
    <2>3. QED BY <1>12, <2>1, <2>2
<1>13. ASSUME NEW t \in Tasks, Work(t) \/ Settle(t) \/ SaveFailure(t) PROVE Counted'
    <2>1. PICK label \in Labels : label # "answer" /\ Goto(t, label)
                                  /\ UNCHANGED <<circuit, streak, overlapped, seen>>
        BY <1>13 DEF Work, WorkerWaits, WorkerSettles, Worked, WorkerRaises, Settle, SaveFailure, Labels,
                     rows, local, history
    <2>2. QED BY <1>8, <2>1
<1>14. ASSUME (\E m \in Models : ProfileExpires(m)) \/ UNCHANGED gateVars PROVE Counted'
    <2>1. UNCHANGED <<circuit, streak, overlapped, pc, seen>>
        BY <1>14 DEF ProfileExpires, gateVars, rows, local, history
    <2>2. QED BY <2>1, SameCount
<1>15. QED
    BY <1>1, <1>2, <1>3, <1>4, <1>5, <1>6, <1>9, <1>10, <1>12, <1>13, <1>14 DEF GateNext, Gate

-----------------------------------------------------------------------------
(* What a task tells *)

Reported == Told /\ PhaseAgrees

\* A step of one task that leaves what it should.
LEMMA OthersReported ==
    ASSUME Reported, NEW t \in Tasks,
           \A u \in Tasks : u # t => pc'[u] = pc[u] /\ run'[u] = run[u],
           run'[t].status = "SUCCEEDED" => pc'[t] \in {"settle", "raised", "end", "lost"},
           pc'[t] = "settle" => run'[t].status # "PENDING",
           pc'[t] = "raised" => run'[t].status \in {"RUNNING", "SUCCEEDED"},
           pc'[t] = "end" =>
              /\ run'[t].status \in {"SUCCEEDED", "FAILED", "NEEDS_HUMAN_ACTION"}
              /\ run'[t].phase = "COMPLETED" <=> run'[t].status = "SUCCEEDED" /\ ~run'[t].codes
              /\ run'[t].phase = "NEEDS_HUMAN_ACTION" <=> run'[t].status = "NEEDS_HUMAN_ACTION"
              /\ run'[t].phase = "FAILED" <=>
                    run'[t].status = "FAILED" \/ (run'[t].status = "SUCCEEDED" /\ run'[t].codes)
    PROVE  Reported'
<1>1. Told'
    BY DEF Reported, Told
<1>2. PhaseAgrees'
    BY DEF Reported, PhaseAgrees, At
<1>3. QED BY <1>1, <1>2 DEF Reported

LEMMA ReportedStep == Types /\ Reported /\ [GateNext]_gateVars => Reported'
<1> SUFFICES ASSUME Types, Reported, [GateNext]_gateVars PROVE Reported'
    OBVIOUS
<1>0. \A u \in Tasks : /\ run[u].status \in RunStatus /\ run[u].phase \in Phase /\ run[u].codes \in BOOLEAN
                       /\ run[u].status = "SUCCEEDED" => pc[u] \in {"settle", "raised", "end", "lost"}
                       /\ pc[u] = "settle" => run[u].status # "PENDING"
                       /\ pc[u] = "raised" => run[u].status \in {"RUNNING", "SUCCEEDED"}
    BY DEF Types, Reported, Told
<1>1. ASSUME NEW t \in Tasks, NEW reason, Refused(t, reason) PROVE Reported'
    BY <1>1, RefusedIs, OthersReported
<1>2. ASSUME NEW t \in Tasks, NEW label \in Labels \ {"settle", "raised", "end"}, Goto(t, label),
             run' = run, run[t].status # "SUCCEEDED"
      PROVE  Reported'
    BY <1>2, GotoIs, OthersReported
<1>3. ASSUME NEW t \in Tasks, Check(t) PROVE Reported'
    <2>1. PICK label \in {"build", "circuit"} :
              Goto(t, label) /\ SaveRun(t, run[t].status, "PROVIDER_CHECKING", run[t].codes)
        BY <1>3 DEF Check
    <2>2. pc'[t] = label /\ run'[t].status = run[t].status /\ run[t].status # "SUCCEEDED"
          /\ \A u \in Tasks : u # t => pc'[u] = pc[u] /\ run'[u] = run[u]
        <3>1. run'[t].status = run[t].status /\ \A u \in Tasks : u # t => run'[u] = run[u]
            BY <1>0, <2>1, SaveRunIs DEF Phase
        <3>2. pc'[t] = label /\ \A u \in Tasks : u # t => pc'[u] = pc[u]
            BY <2>1, GotoIs DEF Labels
        <3>3. QED BY <1>0, <1>3, <3>1, <3>2 DEF Check
    <2>3. QED BY <2>2, OthersReported
<1>4. ASSUME NEW t \in Tasks, BuildProvider(t) \/ Probe(t) \/ ProbeSucceeds(t) PROVE Reported'
    <2>1. PICK label \in {"circuit", "answer", "narrative"} :
              Goto(t, label) /\ run' = run /\ pc[t] \in {"build", "circuit", "answer"}
        BY <1>4 DEF BuildProvider, Probe, ProbeSucceeds, At
    <2>2. QED BY <1>0, <1>2, <2>1 DEF Labels
<1>5. ASSUME NEW t \in Tasks, TurnedAway(t) PROVE Reported'
    BY <1>1, <1>5 DEF TurnedAway
<1>6. ASSUME NEW t \in Tasks, ProbeUnsent(t) PROVE Reported'
    BY <1>1, <1>6 DEF ProbeUnsent, RecordFailure
<1>7. ASSUME NEW t \in Tasks, NEW auth \in BOOLEAN, ProbeFails(t, auth) PROVE Reported'
    BY <1>1, <1>7 DEF ProbeFails, RecordFailure
<1>8. ASSUME NEW t \in Tasks, NEW m \in Models, NEW p, Admit(t, m, p),
             pc[t] \notin {"settle", "raised", "end", "lost"}
      PROVE  Reported'
    <2>1. CASE Refused(t, "UNAVAILABLE")
        BY <1>1, <2>1
    <2>2. CASE Goto(t, AfterModel(m)) /\ UNCHANGED <<run, local>> /\ AfterModel(m) \in Labels
        BY <1>0, <1>2, <1>8, <2>2 DEF AfterModel
    <2>3. QED BY <1>8, <2>1, <2>2, AdmitIs
<1>9. ASSUME NEW t \in Tasks, NEW m \in Models, Cached(t, m) \/ Negotiate(t, m) PROVE Reported'
    <2>1. pc[t] \notin {"settle", "raised", "end", "lost"}
        BY <1>9 DEF Cached, Negotiate, Asking, At, Models
    <2>2. CASE Cached(t, m)
        BY <1>0, <1>2, <1>8, <2>1, <2>2 DEF Cached, Asking, Labels
    <2>3. CASE Negotiate(t, m)
        BY <1>8, <2>1, <2>3 DEF Negotiate
    <2>4. QED BY <1>9, <2>2, <2>3
<1>10. ASSUME NEW t \in Tasks, NEW status \in {"RUNNING", "SUCCEEDED", "FAILED", "NEEDS_HUMAN_ACTION"},
              Worked(t, status)
       PROVE  Reported'
    <2>1. SaveRun(t, status, run[t].phase, run[t].codes) /\ Goto(t, "settle")
        BY <1>10 DEF Worked
    <2>2. /\ run'[t].status = status /\ pc'[t] = "settle"
          /\ \A u \in Tasks : u # t => pc'[u] = pc[u] /\ run'[u] = run[u]
        <3>1. run'[t].status = status /\ \A u \in Tasks : u # t => run'[u] = run[u]
            BY <1>0, <2>1, SaveRunIs DEF RunStatus
        <3>2. QED BY <2>1, <3>1, GotoIs DEF Labels
    <2>3. QED BY <2>2, OthersReported
<1>11. ASSUME NEW t \in Tasks, WorkerRaises(t) PROVE Reported'
    <2>1. PICK status \in {"RUNNING", "SUCCEEDED"} :
              SaveRun(t, status, run[t].phase, run[t].codes) /\ Goto(t, "raised")
        BY <1>11 DEF WorkerRaises
    <2>2. /\ run'[t].status = status /\ pc'[t] = "raised"
          /\ \A u \in Tasks : u # t => pc'[u] = pc[u] /\ run'[u] = run[u]
        <3>1. run'[t].status = status /\ \A u \in Tasks : u # t => run'[u] = run[u]
            BY <1>0, <2>1, SaveRunIs DEF RunStatus
        <3>2. QED BY <2>1, <3>1, GotoIs DEF Labels
    <2>3. QED BY <2>2, OthersReported
<1>12. ASSUME NEW t \in Tasks, Settle(t) PROVE Reported'
    <2>a. PICK status \in RunStatus, codes \in BOOLEAN :
              /\ status = run[t].status /\ codes = (run[t].codes /\ run[t].status # "SUCCEEDED")
        BY <1>0
    <2>0. pc[t] = "settle" /\ status # "PENDING"
        BY <1>0, <1>12, <2>a DEF Settle, At
    <2>1. CASE Settled(status)
        <3>1. SaveRun(t, status, PhaseOf(status), codes) /\ Goto(t, "end")
            BY <1>12, <2>a, <2>1 DEF Settle
        <3>2. PhaseOf(status) \in Phase
            BY <2>a DEF PhaseOf, RunStatus, Phase
        <3>3. /\ run'[t].status = status /\ run'[t].phase = PhaseOf(status) /\ run'[t].codes = codes
              /\ \A u \in Tasks : u # t => run'[u] = run[u]
            BY <3>1, <3>2, SaveRunIs
        <3>4. pc'[t] = "end" /\ \A u \in Tasks : u # t => pc'[u] = pc[u]
            BY <3>1, GotoIs DEF Labels
        <3>5. status = "SUCCEEDED" => ~codes
            BY <2>a
        <3>6. /\ PhaseOf(status) = "COMPLETED" <=> status = "SUCCEEDED"
              /\ PhaseOf(status) = "NEEDS_HUMAN_ACTION" <=> status = "NEEDS_HUMAN_ACTION"
              /\ PhaseOf(status) = "FAILED" <=> status = "FAILED"
              /\ status \in {"SUCCEEDED", "FAILED", "NEEDS_HUMAN_ACTION"}
            BY <2>0, <2>1 DEF PhaseOf, Settled, RunStatus
        <3>7. QED BY <3>3, <3>4, <3>5, <3>6, OthersReported
    <2>2. CASE ~Settled(status)
        <3>1. Goto(t, "work") /\ run' = run /\ run[t].status # "SUCCEEDED"
            BY <1>12, <2>a, <2>2 DEF Settle, Settled
        <3>2. QED BY <1>2, <3>1 DEF Labels
    <2>3. QED BY <2>1, <2>2
<1>13. ASSUME NEW t \in Tasks, SaveFailure(t) PROVE Reported'
    <2>a. PICK status \in {"RUNNING", "SUCCEEDED"} : status = run[t].status
        BY <1>0, <1>13 DEF SaveFailure, At
    <2>1. SaveRun(t, AfterRaise(status), "FAILED", TRUE) /\ Goto(t, "end")
        BY <1>13, <2>a DEF SaveFailure
    <2>2. AfterRaise(status) \in {"SUCCEEDED", "FAILED"}
        BY <2>a DEF AfterRaise
    <2>3. /\ run'[t].status = AfterRaise(status) /\ run'[t].phase = "FAILED" /\ run'[t].codes
          /\ \A u \in Tasks : u # t => run'[u] = run[u]
        BY <2>1, <2>2, SaveRunIs DEF RunStatus, Phase
    <2>4. pc'[t] = "end" /\ \A u \in Tasks : u # t => pc'[u] = pc[u]
        BY <2>1, GotoIs DEF Labels
    <2>5. QED BY <2>2, <2>3, <2>4, OthersReported
<1>14. ASSUME RestartProcess PROVE Reported'
    <2>1. run' = run /\ \A u \in Tasks : pc'[u] = IF pc[u] \in {"idle", "end"} THEN pc[u] ELSE "lost"
        BY <1>14 DEF RestartProcess
    <2>2. Told'
        BY <1>0, <2>1 DEF Told
    <2>3. PhaseAgrees'
        BY <2>1 DEF Reported, PhaseAgrees, At
    <2>4. QED BY <2>2, <2>3 DEF Reported
<1>15. ASSUME DeadlinePasses \/ (\E m \in Models : ProfileExpires(m)) \/ UNCHANGED gateVars PROVE Reported'
    <2>1. UNCHANGED <<run, pc>>
        BY <1>15 DEF DeadlinePasses, ProfileExpires, gateVars
    <2>2. QED BY <2>1 DEF Reported, Told, PhaseAgrees, At
<1>16. ASSUME NEW t \in Tasks, Work(t) PROVE Reported'
    BY <1>10, <1>11, <1>16 DEF Work, WorkerWaits, WorkerSettles
<1>17. QED
    BY <1>3, <1>4, <1>5, <1>6, <1>7, <1>9, <1>12, <1>13, <1>14, <1>15, <1>16 DEF GateNext, Gate

-----------------------------------------------------------------------------
(* The Provider object *)

\* A step of one task that makes no object: profiles are replaced by negotiated ones, and the
\* task gets past a negotiation with the profile on its object.
LEMMA SameObjects ==
    ASSUME Types, MadeOnce, Carried, UNCHANGED <<shared, built>>, NEW t \in Tasks,
           \A i \in Instances : applied'[i] = applied[i] \/ applied'[i] # NoProfile,
           \A u \in Tasks : u # t => pc'[u] = pc[u] /\ inst'[u] = inst[u],
           inst'[t] \in {Nobody, inst[t]},
           pc'[t] \in Holding => pc[t] \in Holding /\ inst'[t] = inst[t],
           pc'[t] \in Narrated => pc[t] \in Narrated \/ applied'[inst[t]] # NoProfile,
           pc'[t] \in Timed => pc[t] \in Timed \/ applied'["timeline"] # NoProfile
    PROVE  Carried'
<1>0. "timeline" \in Instances /\ (built # 0 => shared \in Instances)
    BY DEF Instances, MadeOnce, Types
<1>1. Narrated \subseteq Holding /\ Timed \subseteq Holding
    BY DEF Narrated, Timed, Holding
<1>2. \A u \in Tasks : (inst'[u] # Nobody => built' # 0) /\ (pc'[u] \in Holding => inst'[u] # Nobody)
    BY DEF Carried
<1>3. ASSUME built' <= 1, NEW u \in Tasks
      PROVE  /\ inst'[u] \in {Nobody, shared'}
             /\ pc'[u] \in Narrated => applied'[shared'] # NoProfile
             /\ pc'[u] \in Timed => applied'["timeline"] # NoProfile
    <2>1. /\ inst[u] \in {Nobody, shared}
          /\ pc[u] \in Narrated => applied[shared] # NoProfile
          /\ pc[u] \in Timed => applied["timeline"] # NoProfile
          /\ inst[t] \in {Nobody, shared}
        BY <1>3 DEF Carried
    <2>2. pc[u] \in Holding => built # 0
        BY DEF Carried
    <2>3. CASE u # t
        BY <1>0, <1>1, <2>1, <2>2, <2>3
    <2>4. CASE u = t
        <3>1. inst'[u] \in {Nobody, shared'}
            BY <2>1, <2>4
        <3>2. ASSUME pc'[u] \in Narrated PROVE applied'[shared'] # NoProfile
            <4>1. pc[t] \in Holding /\ inst[t] = shared /\ shared \in Instances
                BY <1>0, <1>1, <2>1, <2>2, <2>4, <3>2 DEF Carried
            <4>2. QED BY <2>1, <2>4, <3>2, <4>1
        <3>3. pc'[u] \in Timed => applied'["timeline"] # NoProfile
            BY <1>0, <2>1, <2>4
        <3>4. QED BY <3>1, <3>2, <3>3
    <2>5. QED BY <2>3, <2>4
<1>4. QED BY <1>2, <1>3 DEF Carried

LEMMA CarriedStep == Types /\ MadeOnce /\ Carried /\ [GateNext]_gateVars => Carried'
<1> SUFFICES ASSUME Types, MadeOnce, Carried, [GateNext]_gateVars PROVE Carried'
    OBVIOUS
<1>0. Narrated \subseteq Holding /\ Timed \subseteq Narrated
    BY DEF Narrated, Timed, Holding
<1>1. ASSUME NEW t \in Tasks, Check(t) PROVE Carried'
    <2>1. /\ inst' = [inst EXCEPT ![t] = shared]
          /\ pc' = [pc EXCEPT ![t] = IF shared = Nobody THEN "build" ELSE "circuit"]
          /\ UNCHANGED <<shared, applied, built>>
        BY <1>1 DEF Check, Goto, objects, history
    <2>2. \A u \in Tasks : u # t => pc'[u] = pc[u] /\ inst'[u] = inst[u]
        BY <2>1 DEF Types
    <2>3. /\ inst'[t] = shared /\ pc'[t] \notin Narrated /\ pc'[t] \notin Timed
          /\ pc'[t] \in Holding => shared # Nobody
        BY <2>1 DEF Types, Narrated, Timed, Holding
    <2>4. shared # Nobody => built # 0
        BY DEF MadeOnce
    <2>5. QED BY <2>1, <2>2, <2>3, <2>4 DEF Carried
<1>2. ASSUME NEW t \in Tasks, BuildProvider(t) PROVE Carried'
    <2>1. /\ inst' = [inst EXCEPT ![t] = t] /\ pc' = [pc EXCEPT ![t] = "circuit"]
          /\ shared' = t /\ built' = built + 1
        BY <1>2 DEF BuildProvider, Published, Goto
    <2>2. /\ inst'[t] = t /\ pc'[t] = "circuit" /\ t # Nobody
          /\ \A u \in Tasks : u # t => pc'[u] = pc[u] /\ inst'[u] = inst[u]
        BY <2>1, GateAssumption DEF Types, Nobody
    <2>3. built \in Nat /\ built' # 0 /\ (built' <= 1 => built = 0)
        BY <2>1 DEF Types
    <2>4. built = 0 => \A u \in Tasks : inst[u] = Nobody /\ pc[u] \notin Holding
        BY DEF Carried
    <2>5. pc'[t] \notin Narrated /\ pc'[t] \notin Timed
        BY <2>2 DEF Narrated, Timed
    <2>6. \A u \in Tasks : (inst'[u] # Nobody => built' # 0) /\ (pc'[u] \in Holding => inst'[u] # Nobody)
        BY <2>2, <2>3 DEF Carried
    <2>7. ASSUME built' <= 1, NEW u \in Tasks
          PROVE  inst'[u] \in {Nobody, shared'} /\ pc'[u] \notin Narrated /\ pc'[u] \notin Timed
        BY <1>0, <2>1, <2>2, <2>3, <2>4, <2>5, <2>7
    <2>8. QED BY <2>6, <2>7 DEF Carried
<1>3. ASSUME NEW t \in Tasks, NEW reason, Refused(t, reason), UNCHANGED <<shared, built>>,
             \A i \in Instances : applied'[i] = applied[i] \/ applied'[i] # NoProfile
      PROVE  Carried'
    <2>1. /\ pc'[t] \in {"wait", "end"} /\ inst'[t] = Nobody
          /\ \A u \in Tasks : u # t => pc'[u] = pc[u] /\ inst'[u] = inst[u]
        BY <1>3, RefusedIs
    <2>2. pc'[t] \notin Holding /\ pc'[t] \notin Narrated /\ pc'[t] \notin Timed
        BY <2>1 DEF Holding, Narrated, Timed
    <2>3. QED BY <1>3, <2>1, <2>2, SameObjects
<1>4. ASSUME NEW t \in Tasks, NEW label \in Labels, Goto(t, label), UNCHANGED <<shared, applied, built, inst>>,
             label \in Holding => pc[t] \in Holding,
             label \in Narrated => pc[t] \in Narrated, label \in Timed => pc[t] \in Timed
      PROVE  Carried'
    BY <1>4, GotoIs, SameObjects
<1>5. ASSUME NEW t \in Tasks, TurnedAway(t) PROVE Carried'
    BY <1>3, <1>5 DEF TurnedAway, objects, history
<1>6. ASSUME NEW t \in Tasks, ProbeUnsent(t) PROVE Carried'
    BY <1>3, <1>6 DEF ProbeUnsent, RecordFailure, objects
<1>7. ASSUME NEW t \in Tasks, NEW auth \in BOOLEAN, ProbeFails(t, auth) PROVE Carried'
    BY <1>3, <1>7 DEF ProbeFails, RecordFailure, objects
<1>8. ASSUME NEW t \in Tasks, Probe(t) \/ ProbeSucceeds(t) PROVE Carried'
    <2>1. PICK label \in {"answer", "narrative"} :
              Goto(t, label) /\ UNCHANGED <<shared, applied, built, inst>> /\ pc[t] \in {"circuit", "answer"}
        BY <1>8 DEF Probe, ProbeSucceeds, At, objects
    <2>2. label \in Labels /\ label \notin Narrated /\ label \notin Timed /\ pc[t] \in Holding
        BY <2>1 DEF Labels, Holding, Narrated, Timed
    <2>3. QED BY <1>4, <2>1, <2>2
<1>9. ASSUME NEW t \in Tasks, NEW m \in Models, NEW p \in Profiles, p.fresh = TRUE, Apply(t, m, p),
             Admit(t, m, p), UNCHANGED <<shared, built>>, pc[t] \in {m, Asking(m)}
      PROVE  Carried'
    <2>0. p # NoProfile
        BY <1>9 DEF NoProfile
    <2>1. /\ \A i \in Instances : applied'[i] = applied[i] \/ applied'[i] = p
          /\ m = "timeline" => applied'["timeline"] = p
          /\ m = "narrative" /\ inst[t] \in Instances => applied'[inst[t]] = p
        BY <1>9, InstanceIs
    <2>2. CASE Refused(t, "UNAVAILABLE")
        BY <1>3, <1>9, <2>0, <2>1, <2>2
    <2>3. CASE Goto(t, AfterModel(m)) /\ UNCHANGED <<run, local>> /\ AfterModel(m) \in Labels
        <3>1. /\ pc'[t] = AfterModel(m) /\ inst' = inst
              /\ \A u \in Tasks : u # t => pc'[u] = pc[u] /\ inst'[u] = inst[u]
            BY <2>3, GotoIs DEF local
        <3>2. /\ pc[t] \in Holding /\ (m = "timeline" => pc[t] \in Narrated)
              /\ (m = "narrative" => AfterModel(m) \notin Timed)
            BY <1>9 DEF Models, Asking, Holding, Narrated, Timed, AfterModel
        <3>3. inst[t] \in Instances
            BY <3>2 DEF Carried, Types, Instances
        <3>4. m \in {"narrative", "timeline"}
            BY DEF Models
        <3>5. pc'[t] \in Narrated => pc[t] \in Narrated \/ applied'[inst[t]] # NoProfile
            BY <2>0, <2>1, <3>2, <3>3, <3>4
        <3>6. pc'[t] \in Timed => pc[t] \in Timed \/ applied'["timeline"] # NoProfile
            BY <2>0, <2>1, <3>1, <3>2, <3>4
        <3>7. QED BY <1>9, <2>0, <2>1, <3>1, <3>2, <3>5, <3>6, SameObjects
    <2>4. QED BY <1>9, <2>2, <2>3, AdmitIs
<1>10. ASSUME NEW t \in Tasks, NEW m \in Models, Cached(t, m) PROVE Carried'
    <2>0. pc[t] = m /\ UNCHANGED <<shared, built>>
        BY <1>10 DEF Cached, At, history
    <2>1. CASE profile[m].fresh
        <3>1. profile[m] \in Profiles /\ profile[m].fresh = TRUE
            BY <2>1 DEF Types, Profiles
        <3>2. QED BY <1>9, <1>10, <2>0, <2>1, <3>1 DEF Cached
    <2>2. CASE ~profile[m].fresh
        <3>1. Goto(t, Asking(m)) /\ UNCHANGED <<applied, inst>>
            BY <1>10, <2>2 DEF Cached, local
        <3>2. /\ Asking(m) \in Labels /\ Asking(m) \notin Timed /\ pc[t] \in Holding
              /\ Asking(m) \in Narrated => pc[t] \in Narrated
            BY <2>0 DEF Asking, Models, Labels, Holding, Narrated, Timed
        <3>3. QED BY <1>4, <2>0, <3>1, <3>2
    <2>3. QED BY <2>1, <2>2
<1>11. ASSUME NEW t \in Tasks, NEW m \in Models, Negotiate(t, m) PROVE Carried'
    <2>1. PICK p \in Negotiated : Apply(t, m, p) /\ Admit(t, m, p)
        BY <1>11 DEF Negotiate
    <2>2. p \in Profiles /\ p.fresh = TRUE
        BY NegotiatedIs
    <2>3. pc[t] = Asking(m) /\ UNCHANGED <<shared, built>>
        BY <1>11 DEF Negotiate, At, history
    <2>4. QED BY <1>9, <2>1, <2>2, <2>3
<1>12. ASSUME NEW t \in Tasks, Work(t) \/ Settle(t) \/ SaveFailure(t) PROVE Carried'
    <2>1. PICK label \in {"settle", "raised", "end", "work"} :
              /\ Goto(t, label) /\ UNCHANGED <<shared, applied, built, inst>>
              /\ label \in {"settle", "work"} => pc[t] \in {"settle", "work"}
        BY <1>12 DEF Work, WorkerWaits, WorkerSettles, Worked, WorkerRaises, Settle, SaveFailure, At,
                     objects, local, history
    <2>2. /\ label \in Labels
          /\ label \in Holding \cup Narrated \cup Timed => label \in {"settle", "work"}
          /\ {"settle", "work"} \subseteq Holding \cap Narrated \cap Timed
        BY <2>1 DEF Labels, Holding, Narrated, Timed
    <2>3. QED BY <1>4, <2>1, <2>2
<1>13. ASSUME RestartProcess PROVE Carried'
    <2>1. /\ built' = 0 /\ \A u \in Tasks : inst'[u] = Nobody /\ pc'[u] \in {"idle", "end", "lost"}
        BY <1>13 DEF RestartProcess
    <2>2. QED BY <2>1 DEF Carried, Holding, Narrated, Timed
<1>14. ASSUME DeadlinePasses \/ (\E m \in Models : ProfileExpires(m)) \/ UNCHANGED gateVars PROVE Carried'
    <2>1. UNCHANGED <<shared, applied, built, inst, pc>>
        BY <1>14 DEF DeadlinePasses, ProfileExpires, gateVars, objects, local, history
    <2>2. QED BY <2>1 DEF Carried
<1>15. QED
    BY <1>1, <1>2, <1>5, <1>6, <1>7, <1>8, <1>10, <1>11, <1>12, <1>13, <1>14 DEF GateNext, Gate

-----------------------------------------------------------------------------
LEMMA SpecInv == GateSpec => []Inv
<1>1. Inv /\ [GateNext]_gateVars => Inv'
    <2> SUFFICES ASSUME Inv, [GateNext]_gateVars PROVE Inv'
        OBVIOUS
    <2>1. Types' /\ MadeOnce' /\ Carried'
        BY TypesStep, MadeOnceStep, CarriedStep DEF Inv
    <2>2. Counted'
        BY CountedStep DEF Inv, Counted
    <2>3. Reported'
        BY ReportedStep DEF Inv, Reported
    <2>4. QED BY <2>1, <2>2, <2>3 DEF Inv, Counted, Reported
<1>2. QED BY <1>1, InitInv, PTL DEF GateSpec

-----------------------------------------------------------------------------
(* Theorems *)

\* As long as no probe begins while another is under way, the circuit row counts the failures
\* since the last success and pauses at the threshold: _record_failure counts on from the row
\* preflight read before the request, and nobody else has written it meanwhile.
THEOREM AllowanceIsExact == GateSpec => []AllowanceExact
BY SpecInv, PTL DEF Inv

\* A worker runs with what the gate negotiated on the only object of the process, and the phase
\* a task leaves behind agrees with the status and the issue codes of its run.
THEOREM GateIsReported == GateSpec => []GateReported
<1>1. Inv => GateReported
    <2> SUFFICES ASSUME Inv PROVE GateReported
        OBVIOUS
    <2>1. GateTypeOK
        <3>1. IsFiniteSet(Makers) /\ Cardinality(Makers) \in Nat /\ Cardinality(Tasks) \in Nat
            BY GateAssumption, FS_Subset, FS_CardinalityType DEF Makers
        <3>2. built \in 0 .. Cardinality(Tasks)
            BY <3>1 DEF Inv, Types, MadeOnce
        <3>3. QED BY <3>2 DEF Inv, Types, GateTypeOK
    <2>2. ProfileReachesWorker
        <3> SUFFICES ASSUME NEW t \in Tasks, pc[t] = "work", built <= 1
                     PROVE  shared # Nobody /\ applied[shared] # NoProfile /\ applied["timeline"] # NoProfile
            BY DEF ProfileReachesWorker, At
        <3>1. pc[t] \in Holding /\ pc[t] \in Narrated /\ pc[t] \in Timed
            BY DEF Holding, Narrated, Timed
        <3>2. QED BY <3>1 DEF Inv, Carried, MadeOnce
    <2>3. QED BY <2>1, <2>2 DEF Inv, GateReported
<1>2. QED BY <1>1, SpecInv, PTL

\* A configuration error stays, and a saved Narrative result is not taken back: preflight turns
\* every later task away, and neither a refusal nor an exception touches a succeeded run.  A task
\* that a refusal or an exception ends leaves issue codes.
THEOREM SettledStays == GateSpec => ConfigurationErrorFinal /\ ResultKept /\ EndsExplained
<1>1. ASSUME Inv, [GateNext]_gateVars, circuit.status = "CONFIGURATION_ERROR", ~overlapped'
      PROVE  circuit'.status = circuit.status
    <2>1. ASSUME NEW t \in Tasks, At(t, "answer"), overlapped' = overlapped PROVE FALSE
        BY <1>1, <2>1 DEF Inv, Alone
    <2>2. ASSUME NEW t \in Tasks,
                 ProbeSucceeds(t) \/ (\E auth \in BOOLEAN : ProbeFails(t, auth)) \/ ProbeUnsent(t)
          PROVE  FALSE
        BY <1>1, <2>1, <2>2 DEF ProbeSucceeds, ProbeFails, ProbeUnsent, Closed
    <2>3. ASSUME NEW t \in Tasks, Gate(t) \/ Work(t) \/ Settle(t) \/ SaveFailure(t)
          PROVE  circuit' = circuit
        BY <2>2, <2>3 DEF Gate, Check, BuildProvider, TurnedAway, Probe, Cached, Negotiate, Work,
                          WorkerWaits, WorkerSettles, Worked, WorkerRaises, Settle, SaveFailure, rows
    <2>4. (\E m \in Models : ProfileExpires(m)) \/ RestartProcess \/ UNCHANGED gateVars => circuit' = circuit
        BY DEF ProfileExpires, RestartProcess, gateVars, rows
    <2>5. DeadlinePasses => circuit'.status = circuit.status
        BY DEF DeadlinePasses, Inv, Types, Rows
    <2>6. QED BY <1>1, <2>3, <2>4, <2>5 DEF GateNext
<1>2. ASSUME Inv, [GateNext]_gateVars, NEW u \in Tasks, run[u].status = "SUCCEEDED"
      PROVE  run'[u].status = "SUCCEEDED"
    <2>0. /\ Types /\ pc[u] \in {"settle", "raised", "end", "lost"}
          /\ \A t \in Tasks : run[t].status \in RunStatus /\ run[t].phase \in Phase
                              /\ run[t].codes \in BOOLEAN
        BY <1>2 DEF Inv, Told, Types
    <2>1. ASSUME NEW t \in Tasks, NEW reason, Refused(t, reason),
                 pc[t] \notin {"settle", "raised", "end", "lost"}
          PROVE  run'[u] = run[u]
        BY <2>0, <2>1, RefusedIs
    <2>2. ASSUME NEW t \in Tasks, Gate(t) PROVE run'[u] = run[u]
        <3>1. CASE pc[t] \in {"settle", "raised", "end", "lost"}
            BY <2>2, <3>1 DEF Gate, Check, BuildProvider, TurnedAway, ProbeUnsent, Probe, ProbeSucceeds,
                              ProbeFails, Cached, Negotiate, Asking, At, Models
        <3>2. CASE pc[t] \notin {"settle", "raised", "end", "lost"}
            <4>1. CASE Check(t)
                BY <2>0, <3>2, <4>1 DEF Check, SaveRun, Types
            <4>2. CASE TurnedAway(t) \/ ProbeUnsent(t) \/ \E auth \in BOOLEAN : ProbeFails(t, auth)
                BY <2>1, <3>2, <4>2 DEF TurnedAway, ProbeUnsent, ProbeFails, RecordFailure
            <4>3. CASE BuildProvider(t) \/ Probe(t) \/ ProbeSucceeds(t)
                BY <4>3 DEF BuildProvider, Probe, ProbeSucceeds
            <4>4. CASE \E m \in Models : Cached(t, m) \/ Negotiate(t, m)
                BY <2>1, <3>2, <4>4 DEF Cached, Negotiate, Admit
            <4>5. QED BY <2>2, <4>1, <4>2, <4>3, <4>4 DEF Gate
        <3>3. QED BY <3>1, <3>2
    <2>3. ASSUME NEW t \in Tasks, Work(t) \/ Settle(t) \/ SaveFailure(t), t # u
          PROVE  run'[u] = run[u]
        BY <2>0, <2>3 DEF Work, WorkerWaits, WorkerSettles, Worked, WorkerRaises, Settle, SaveFailure,
                          SaveRun, Types
    <2>4. ~Work(u)
        BY <2>0 DEF Work, WorkerWaits, WorkerSettles, Worked, WorkerRaises, At
    <2>5. ASSUME Settle(u) \/ SaveFailure(u) PROVE run'[u].status = "SUCCEEDED"
        BY <1>2, <2>0, <2>5 DEF Settle, SaveFailure, Settled, AfterRaise, SaveRun, Types
    <2>6. DeadlinePasses \/ (\E m \in Models : ProfileExpires(m)) \/ RestartProcess \/ UNCHANGED gateVars => run' = run
        BY DEF DeadlinePasses, ProfileExpires, RestartProcess, gateVars
    <2>7. QED BY <1>2, <2>2, <2>3, <2>4, <2>5, <2>6 DEF GateNext
<1>3. Inv /\ [GateNext]_gateVars =>
          [circuit.status = "CONFIGURATION_ERROR" /\ ~overlapped' => circuit'.status = circuit.status]_gateVars
    BY <1>1
<1>4. Inv /\ [GateNext]_gateVars =>
          [\A t \in Tasks : run[t].status = "SUCCEEDED" => run'[t].status = "SUCCEEDED"]_gateVars
    BY <1>2
<1>5. ASSUME Inv, [GateNext]_gateVars, NEW u \in Tasks, pc[u] \notin {"settle", "end"}, pc'[u] = "end"
      PROVE  run'[u].codes
    <2>0. Types /\ run[u].status \in RunStatus
        BY <1>5 DEF Inv, Types
    <2>1. ASSUME NEW t \in Tasks, NEW reason, Refused(t, reason) PROVE run'[u].codes
        <3>1. t = u
            BY <1>5, <2>0, <2>1, RefusedIs
        <3>2. pc'[t] = "end"
            BY <1>5, <3>1
        <3>3. run'[t].codes
            BY <2>0, <2>1, <3>2, RefusedIs
        <3>4. QED BY <3>1, <3>3, Zenon
    <2>2. ASSUME NEW t \in Tasks, NEW label \in Labels \ {"end"}, Goto(t, label) PROVE FALSE
        BY <1>5, <2>0, <2>2, GotoIs
    <2>3. ASSUME NEW t \in Tasks, Gate(t) PROVE run'[u].codes
        <3>1. CASE TurnedAway(t) \/ ProbeUnsent(t) \/ \E auth \in BOOLEAN : ProbeFails(t, auth)
            BY <2>1, <3>1 DEF TurnedAway, ProbeUnsent, ProbeFails, RecordFailure
        <3>2. CASE Check(t) \/ BuildProvider(t) \/ Probe(t) \/ ProbeSucceeds(t)
            BY <2>2, <3>2 DEF Check, BuildProvider, Probe, ProbeSucceeds, Labels
        <3>3. ASSUME NEW m \in Models, NEW p, Admit(t, m, p) PROVE run'[u].codes
            BY <2>0, <2>1, <2>2, <3>3, AdmitIs DEF AfterModel, Labels
        <3>4. CASE \E m \in Models : Cached(t, m) \/ Negotiate(t, m)
            BY <2>2, <3>3, <3>4 DEF Cached, Negotiate, Asking, Labels
        <3>5. QED BY <2>3, <3>1, <3>2, <3>4 DEF Gate
    <2>4. ASSUME NEW t \in Tasks, Work(t) PROVE FALSE
        BY <2>2, <2>4 DEF Work, WorkerWaits, WorkerSettles, Worked, WorkerRaises, Labels
    <2>5. ASSUME NEW t \in Tasks, Settle(t) PROVE FALSE
        <3>1. PICK label \in Labels : Goto(t, label) /\ pc[t] = "settle"
            BY <2>5 DEF Settle, At, Labels
        <3>2. QED BY <1>5, <2>0, <3>1, GotoIs
    <2>6. ASSUME NEW t \in Tasks, SaveFailure(t) PROVE run'[u].codes
        <3>1. Goto(t, "end") /\ SaveRun(t, AfterRaise(run[t].status), "FAILED", TRUE)
            BY <2>6 DEF SaveFailure
        <3>2. t = u
            BY <1>5, <2>0, <3>1, GotoIs DEF Labels
        <3>3. AfterRaise(run[t].status) \in RunStatus
            BY <2>0, <3>2 DEF AfterRaise, RunStatus
        <3>4. QED BY <2>0, <3>1, <3>2, <3>3, SaveRunIs DEF Phase
    <2>7. RestartProcess => FALSE
        BY <1>5 DEF RestartProcess
    <2>8. DeadlinePasses \/ (\E m \in Models : ProfileExpires(m)) \/ UNCHANGED gateVars => pc' = pc
        BY DEF DeadlinePasses, ProfileExpires, gateVars
    <2>9. QED BY <1>5, <2>3, <2>4, <2>5, <2>6, <2>7, <2>8 DEF GateNext
<1>6. Inv /\ [GateNext]_gateVars =>
          [\A t \in Tasks : pc[t] \notin {"settle", "end"} /\ pc'[t] = "end" => run'[t].codes]_gateVars
    BY <1>5, Zenon
<1>7. QED
    BY <1>3, <1>4, <1>6, SpecInv, PTL DEF GateSpec, ConfigurationErrorFinal, ResultKept, EndsExplained

-----------------------------------------------------------------------------
(* The order in which the shots are drawn *)

\* A set of numbers that holds 0 and every successor holds all numbers.
LEMMA InductiveSet ==
  ASSUME NEW S, 0 \in S, \A n \in Nat : n \in S => n + 1 \in S
  PROVE  Nat \subseteq S
<1> DEFINE T == Nat \ S
<1> SUFFICES ASSUME T # {} PROVE FALSE
  OBVIOUS
<1>1. PICK x \in T : \A y \in T : <<y, x>> \notin OpToRel(<, Nat)
  <2> HIDE DEF T
  <2>1. T \subseteq Nat
    BY DEF T
  <2> QED
    BY <2>1, NatLessThanWellFounded, WFMin
<1>2. x # 0 /\ x - 1 \in Nat /\ x - 1 < x
  OBVIOUS
<1>3. <<x - 1, x>> \in OpToRel(<, Nat)
  BY <1>2 DEF OpToRel
<1>4. x - 1 \in S
  BY <1>1, <1>2, <1>3
<1>5. (x - 1) + 1 \in S /\ (x - 1) + 1 = x
  BY <1>2, <1>4
<1> QED
  BY <1>5

\* The least of some numbers is one of them.
LEMMA MinIsIn ==
  ASSUME NEW S \in SUBSET Nat, S # {}
  PROVE  Min(S) \in S
<1>1. PICK x \in S : \A y \in S : <<y, x>> \notin OpToRel(<, Nat)
  BY NatLessThanWellFounded, WFMin
<1>2. ASSUME NEW y \in S PROVE x <= y
  <2>1. y < x => <<y, x>> \in OpToRel(<, Nat)
    BY DEF OpToRel
  <2>2. x \in Nat /\ y \in Nat
    OBVIOUS
  <2>3. ~(y < x)
    BY <1>1, <2>1
  <2> QED
    BY <2>2, <2>3
<1> QED
  BY <1>2 DEF Min

\* An interval from 1 has as many numbers as its bound says.
LEMMA CountTo ==
  ASSUME NEW n \in Nat
  PROVE  IsFiniteSet(1..n) /\ Cardinality(1..n) = n
<1>1. IsFiniteSet(1..n) /\ Cardinality(1..n) = IF 1 > n THEN 0 ELSE n - 1 + 1
  <2>1. 1 \in Int /\ n \in Int
    OBVIOUS
  <2> QED
    BY <2>1, FS_Interval
<1> QED
  BY <1>1

\* The turns are well defined: each builds on the one before.
LEMMA TurnsDefined ==
  ASSUME NEW parent, Cardinality(Positions(parent)) \in Nat
  PROVE  Turns(parent) = [n \in 0..Cardinality(Positions(parent)) |->
                             IF n = 0 THEN <<>> ELSE Take(parent, Turns(parent)[n - 1])]
<1> DEFINE N == Cardinality(Positions(parent))
           Builds(g, m) == g = [n \in 0..m |-> IF n = 0 THEN <<>> ELSE Take(parent, g[n - 1])]
           S == {m \in Nat : \E g : Builds(g, m)}
<1>1. 0 \in S
  <2>1. Builds([n \in 0..0 |-> <<>>], 0)
    OBVIOUS
  <2> QED
    BY <2>1
<1>2. ASSUME NEW m \in Nat, m \in S
      PROVE  m + 1 \in S
  <2>1. PICK g : Builds(g, m)
    BY <1>2
  <2> DEFINE h == [n \in 0..(m + 1) |-> IF n <= m THEN g[n] ELSE Take(parent, g[m])]
  <2>2. \A n \in 0..(m + 1) : h[n] = IF n = 0 THEN <<>> ELSE Take(parent, h[n - 1])
    <3> SUFFICES ASSUME NEW n \in 0..(m + 1)
                 PROVE  h[n] = IF n = 0 THEN <<>> ELSE Take(parent, h[n - 1])
      OBVIOUS
    <3>1. CASE n = 0
      BY <2>1, <3>1
    <3>2. CASE n \in 1..m
      <4>1. g[n] = Take(parent, g[n - 1])
        BY <2>1, <3>2
      <4>2. h[n] = g[n] /\ h[n - 1] = g[n - 1]
        BY <3>2
      <4> QED
        BY <3>2, <4>1, <4>2
    <3>3. CASE n = m + 1
      BY <3>3
    <3> QED
      BY <3>1, <3>2, <3>3
  <2>3. Builds(h, m + 1)
    BY <2>2
  <2> HIDE DEF h, Builds
  <2> QED
    BY <2>3
<1>3. \E g : Builds(g, N)
  <2>1. Nat \subseteq S
    <3> HIDE DEF S
    <3> QED
      BY <1>1, <1>2, InductiveSet
  <2> QED
    BY <2>1
<1>4. Turns(parent) = CHOOSE g : Builds(g, N)
  BY DEF Turns
<1> HIDE DEF Builds
<1>5. Builds(Turns(parent), N)
  BY <1>3, <1>4
<1> QED
  BY <1>5 DEF Builds

\* What the order keeps to from turn to turn: no shot twice, and none before its parent.
Orderly(parent, s) ==
    /\ s \in Seq(Positions(parent))
    /\ \A i, j \in DOMAIN s : s[i] = s[j] => i = j
    /\ \A i \in DOMAIN s : parent[s[i]] # None => \E j \in 1..(i - 1) : s[j] = parent[s[i]]

LEMMA TakeIsOrderly ==
  ASSUME NEW parent, Positions(parent) \in SUBSET Nat, NEW s, Orderly(parent, s)
  PROVE  Orderly(parent, Take(parent, s))
<1> DEFINE ready == Ready(parent, ToSet(s))
<1>1. CASE ready = {}
  BY <1>1 DEF Take
<1>2. CASE ready # {}
  <2> DEFINE x == Min(ready)
             t == Append(s, x)
  <2>1. ready \in SUBSET Nat
    BY DEF Ready
  <2>2. x \in ready
    BY <1>2, <2>1, MinIsIn
  <2>3. ToSet(s) = {s[i] : i \in DOMAIN s}
    BY DEF ToSet
  <2>4. /\ x \in Positions(parent) /\ \A i \in DOMAIN s : s[i] # x
        /\ parent[x] # None => \E j \in DOMAIN s : s[j] = parent[x]
    BY <2>2, <2>3 DEF Ready
  <2> HIDE DEF x, ready
  <2>5. /\ s \in Seq(Positions(parent)) /\ Len(s) \in Nat /\ DOMAIN s = 1..Len(s)
        /\ t \in Seq(Positions(parent)) /\ DOMAIN t = 1..(Len(s) + 1)
        /\ \A i \in DOMAIN s : t[i] = s[i]
        /\ t[Len(s) + 1] = x
    BY <2>4 DEF Orderly
  <2> HIDE DEF t
  <2>6. \A i, j \in DOMAIN t : t[i] = t[j] => i = j
    <3> SUFFICES ASSUME NEW i \in DOMAIN t, NEW j \in DOMAIN t, t[i] = t[j]
                 PROVE  i = j
      OBVIOUS
    <3>1. CASE i \in DOMAIN s /\ j \in DOMAIN s
      BY <2>5, <3>1 DEF Orderly
    <3>2. CASE i = Len(s) + 1 \/ j = Len(s) + 1
      BY <2>4, <2>5, <3>2
    <3> QED
      BY <2>5, <3>1, <3>2
  <2>7. ASSUME NEW i \in DOMAIN t, parent[t[i]] # None
        PROVE  \E j \in 1..(i - 1) : t[j] = parent[t[i]]
    <3>1. CASE i \in DOMAIN s
      <4>1. PICK j \in 1..(i - 1) : s[j] = parent[s[i]]
        BY <2>5, <2>7, <3>1 DEF Orderly
      <4>2. j \in DOMAIN s /\ t[j] = s[j] /\ t[i] = s[i]
        BY <2>5, <3>1
      <4> QED
        BY <4>1, <4>2
    <3>2. CASE i = Len(s) + 1
      <4>1. PICK j \in DOMAIN s : s[j] = parent[x]
        BY <2>4, <2>5, <2>7, <3>2
      <4> QED
        BY <2>5, <3>2, <4>1
    <3> QED
      BY <2>5, <3>1, <3>2
  <2>8. Orderly(parent, t)
    BY <2>5, <2>6, <2>7 DEF Orderly
  <2> QED
    BY <1>2, <2>8 DEF Take, t, x, ready
<1> QED
  BY <1>1, <1>2

\* The order of a job that can be built names each shot once, no shot before its parent.
LEMMA OrderIsComplete ==
  ASSUME NEW parent \in Seq(Nat), Buildable(parent)
  PROVE  /\ Orderly(parent, Order(parent))
         /\ Len(Order(parent)) = Len(parent)
         /\ \A s \in Positions(parent) : \E i \in DOMAIN Order(parent) : Order(parent)[i] = s
<1> DEFINE N == Cardinality(Positions(parent))
           S == {n \in Nat : n <= N => Orderly(parent, Turns(parent)[n])}
<1>1. /\ Len(parent) \in Nat /\ Positions(parent) = 1..Len(parent)
      /\ IsFiniteSet(Positions(parent)) /\ N = Len(parent)
  BY CountTo DEF Positions
<1> HIDE DEF N
<1>2. \A n \in 0..N : Turns(parent)[n] = IF n = 0 THEN <<>> ELSE Take(parent, Turns(parent)[n - 1])
  BY <1>1, TurnsDefined DEF N
<1>3. 0 \in S
  <2>1. Orderly(parent, <<>>)
    BY DEF Orderly
  <2> QED
    BY <1>1, <1>2, <2>1
<1>4. ASSUME NEW n \in Nat, n \in S
      PROVE  n + 1 \in S
  <2> SUFFICES ASSUME n + 1 <= N
               PROVE  Orderly(parent, Turns(parent)[n + 1])
    OBVIOUS
  <2>1. Turns(parent)[n + 1] = Take(parent, Turns(parent)[n])
    BY <1>1, <1>2
  <2>2. Orderly(parent, Turns(parent)[n])
    BY <1>1, <1>4
  <2> QED
    BY <1>1, <2>1, <2>2, TakeIsOrderly
<1>5. Orderly(parent, Order(parent))
  <2>1. Nat \subseteq S
    <3> HIDE DEF S
    <3> QED
      BY <1>3, <1>4, InductiveSet
  <2> QED
    BY <1>1, <2>1 DEF Order, N
<1>6. Len(Order(parent)) = N
  BY DEF Buildable, N
<1>7. Order(parent) \in Injection(1..N, Positions(parent))
  BY <1>1, <1>5, <1>6 DEF Orderly, Injection, IsInjective
<1>8. Order(parent) \in Surjection(1..N, Positions(parent))
  <2>1. IsFiniteSet(1..N) /\ Cardinality(1..N) = N
    BY <1>1, CountTo
  <2> QED
    BY <1>1, <1>7, <2>1, FS_Injection DEF N
<1>9. \A s \in Positions(parent) : \E i \in DOMAIN Order(parent) : Order(parent)[i] = s
  BY <1>1, <1>5, <1>6, <1>8 DEF Surjection, Orderly
<1> QED
  BY <1>1, <1>5, <1>6, <1>9

\* A sequence is known by its length and its elements, and so are two in a row.
LEMMA SequenceFacts ==
  ASSUME NEW S, NEW s \in Seq(S)
  PROVE  /\ Len(s) \in Nat /\ DOMAIN s = 1..Len(s)
         /\ \A i \in 1..Len(s) : s[i] \in S
         /\ \A T : (\A i \in 1..Len(s) : s[i] \in T) => s \in Seq(T)
OBVIOUS

LEMMA ConcatFacts ==
  ASSUME NEW S, NEW s \in Seq(S), NEW t \in Seq(S)
  PROVE  /\ s \o t \in Seq(S) /\ Len(s \o t) = Len(s) + Len(t)
         /\ \A i \in 1..Len(s) : (s \o t)[i] = s[i]
         /\ \A i \in 1..Len(t) : (s \o t)[Len(s) + i] = t[i]
OBVIOUS

\* The plan of one of the jobs.
Planned == \E p \in Plans : plan = WorkflowPlan(p)

\* The targets of a plan: every anchor and every shot once, a shot after the one it continues.
LEMMA PlanIsComplete ==
  ASSUME Planned
  PROVE  /\ plan.parent \in Plans /\ plan.parent \in Seq(Nat) /\ Len(plan.parent) \in Nat \ {0}
         /\ Shots = 1..Len(plan.parent)
         /\ Targets \in Seq(1..(Len(plan.parent) + Anchors))
         /\ Len(Targets) = Anchors + Len(plan.parent)
         /\ Range(Targets) = 1..(Len(plan.parent) + Anchors)
         /\ \A i, j \in DOMAIN Targets : Targets[i] = Targets[j] => i = j
         /\ \A i \in DOMAIN Targets : IsShot(Targets[i]) /\ Parent(Targets[i]) # None =>
               /\ IsShot(Parent(Targets[i]))
               /\ \E j \in 1..(i - 1) : Targets[j] = Parent(Targets[i])
<1>1. PICK p \in Plans : plan = WorkflowPlan(p)
  BY DEF Planned
<1>2. p \in Seq(Nat) /\ p # <<>> /\ Buildable(p)
  BY WorkflowAssumption DEF WorkflowAssumption
<1> DEFINE L == Len(p)
           o == Order(p)
           a == [i \in 1..Anchors |-> L + i]
           t == a \o o
<1>3. Anchors \in Nat /\ L \in Nat /\ L # 0
  BY <1>2, WorkflowAssumption DEF WorkflowAssumption
<1>4. plan.parent = p /\ Targets = t /\ Shots = 1..L /\ Positions(p) = 1..L
  <2>1. plan = [parent |-> p, order |-> t]
    BY <1>1 DEF WorkflowPlan
  <2>2. DOMAIN p = 1..L
    BY <1>2, SequenceFacts
  <2> HIDE DEF t, L
  <2> QED
    BY <2>1, <2>2 DEF Targets, Shots, Positions
<1>5. Orderly(p, o) /\ Len(o) = L /\ \A s \in 1..L : \E i \in DOMAIN o : o[i] = s
  BY <1>2, <1>4, OrderIsComplete
<1>6. o \in Seq(1..L) /\ Len(o) = L
  BY <1>4, <1>5 DEF Orderly
<1>7. \A i \in 1..Anchors : a[i] = L + i
  OBVIOUS
<1>8. a \in Seq(1..(L + Anchors)) /\ Len(a) = Anchors
  BY <1>3
<1> HIDE DEF o, a, L
<1>9. DOMAIN o = 1..L /\ \A i \in 1..L : o[i] \in 1..L
  BY <1>6, SequenceFacts
<1>10. \A i \in 1..L : o[i] \in 1..(L + Anchors)
  BY <1>3, <1>9
<1>11. o \in Seq(1..(L + Anchors))
  BY <1>6, <1>10, SequenceFacts
<1>12. \A i, j \in 1..L : o[i] = o[j] => i = j
  BY <1>5, <1>9 DEF Orderly
<1>13. \A i \in 1..L : p[o[i]] # None => \E j \in 1..(i - 1) : o[j] = p[o[i]]
  BY <1>5, <1>9 DEF Orderly
<1>14. /\ t \in Seq(1..(L + Anchors)) /\ Len(t) = Anchors + L /\ DOMAIN t = 1..(Anchors + L)
       /\ \A i \in 1..Anchors : t[i] = L + i
       /\ \A i \in 1..L : t[Anchors + i] = o[i]
  <2> DEFINE T == 1..(L + Anchors)
  <2>1. a \in Seq(T) /\ o \in Seq(T)
    BY <1>8, <1>11
  <2> HIDE DEF T
  <2>2. /\ t \in Seq(T) /\ Len(t) = Len(a) + Len(o)
        /\ \A i \in 1..Len(a) : t[i] = a[i]
        /\ \A i \in 1..Len(o) : t[Len(a) + i] = o[i]
    BY <2>1, ConcatFacts
  <2> HIDE DEF t
  <2>3. /\ t \in Seq(T) /\ Len(t) = Anchors + L
        /\ \A i \in 1..Anchors : t[i] = a[i]
        /\ \A i \in 1..L : t[Anchors + i] = o[i]
    BY <1>6, <1>8, <2>2
  <2>4. DOMAIN t = 1..(Anchors + L)
    BY <2>3, SequenceFacts
  <2> QED
    BY <1>7, <2>3, <2>4 DEF T
<1> HIDE DEF t
<1>15. ASSUME NEW i \in DOMAIN t
       PROVE  \/ i \in 1..Anchors /\ t[i] = L + i
              \/ i - Anchors \in 1..L /\ t[i] = o[i - Anchors] /\ t[i] \in 1..L
  <2>1. i \in 1..(Anchors + L)
    BY <1>14
  <2>2. CASE i \in 1..Anchors
    BY <1>14, <2>2
  <2>3. CASE i > Anchors
    <3>1. i - Anchors \in 1..L /\ Anchors + (i - Anchors) = i
      BY <1>3, <2>1, <2>3
    <3>2. t[Anchors + (i - Anchors)] = o[i - Anchors]
      BY <1>14, <3>1
    <3> QED
      BY <1>9, <3>1, <3>2
  <2> QED
    BY <1>3, <2>1, <2>2, <2>3
<1>16. ASSUME NEW i \in DOMAIN t, NEW j \in DOMAIN t, t[i] = t[j]
       PROVE  i = j
  <2>1. i \in 1..(Anchors + L) /\ j \in 1..(Anchors + L)
    BY <1>14
  <2>2. CASE i \in 1..Anchors /\ j \in 1..Anchors
    BY <1>3, <1>14, <1>16, <2>2
  <2>3. CASE i - Anchors \in 1..L /\ j - Anchors \in 1..L
    <3>1. o[i - Anchors] = o[j - Anchors]
      BY <1>15, <1>16, <2>1, <2>3, <1>3
    <3> QED
      BY <1>12, <2>1, <2>3, <3>1, <1>3
  <2>4. ASSUME NEW k \in DOMAIN t, NEW m \in DOMAIN t, k \in 1..Anchors, m - Anchors \in 1..L
        PROVE  t[k] # t[m]
    <3>1. m \notin 1..Anchors /\ t[k] = L + k
      <4>1. m \in 1..(Anchors + L)
        BY <1>14
      <4>2. m \notin 1..Anchors
        BY <1>3, <2>4, <4>1
      <4> QED
        BY <1>14, <2>4, <4>2
    <3>2. t[m] \in 1..L
      BY <1>15, <3>1
    <3> QED
      BY <1>3, <2>4, <3>1, <3>2
  <2> QED
    BY <1>15, <1>16, <2>2, <2>3, <2>4
<1>17. ASSUME NEW x \in 1..(L + Anchors)
       PROVE  \E i \in DOMAIN t : t[i] = x
  <2>1. CASE x \in 1..L
    <3>1. PICK i \in 1..L : o[i] = x
      BY <1>5, <1>9, <2>1
    <3>2. Anchors + i \in DOMAIN t /\ t[Anchors + i] = x
      <4>1. Anchors + i \in 1..(Anchors + L)
        BY <1>3
      <4> QED
        BY <1>14, <3>1, <4>1
    <3> QED
      BY <3>2
  <2>2. CASE x > L
    <3>1. x - L \in 1..Anchors /\ L + (x - L) = x /\ x - L \in 1..(Anchors + L)
      BY <1>3, <2>2
    <3>2. x - L \in DOMAIN t /\ t[x - L] = x
      BY <1>14, <3>1
    <3> QED
      BY <3>2
  <2> QED
    BY <1>3, <2>1, <2>2
<1>18. Range(t) = 1..(L + Anchors)
  <2>1. \A i \in DOMAIN t : t[i] \in 1..(L + Anchors)
    BY <1>14, SequenceFacts
  <2> QED
    BY <1>17, <2>1 DEF Range
<1>19. ASSUME NEW i \in DOMAIN t, t[i] \in 1..L, p[t[i]] # None
       PROVE  p[t[i]] \in 1..L /\ \E j \in 1..(i - 1) : t[j] = p[t[i]]
  <2>1. i - Anchors \in 1..L /\ t[i] = o[i - Anchors] /\ i \in 1..(Anchors + L)
    <3>1. i \notin 1..Anchors
      BY <1>3, <1>14, <1>19
    <3> QED
      BY <1>14, <1>15, <3>1
  <2>2. PICK j \in 1..(i - Anchors - 1) : o[j] = p[t[i]]
    BY <1>13, <1>19, <2>1
  <2>3. j \in 1..L /\ Anchors + j \in 1..(i - 1)
    BY <1>3, <2>1, <2>2
  <2>4. t[Anchors + j] = o[j] /\ o[j] \in 1..L
    BY <1>9, <1>14, <2>3
  <2> QED
    BY <2>2, <2>3, <2>4
<1>20. plan.parent = p /\ Targets = t /\ Shots = 1..L
  BY <1>4
<1> QED
  BY <1>2, <1>3, <1>14, <1>16, <1>18, <1>19, <1>20 DEF IsShot, Parent, L

\* No shot continues itself over others: the shots can be ranked, each above its parent.
Acyclic(parent) ==
    \E rank \in [Positions(parent) -> Nat] :
        \A s \in Positions(parent) : parent[s] # None => rank[parent[s]] < rank[s]

LEMMA TakeGoesOn ==
  ASSUME NEW parent, Positions(parent) \in SUBSET Nat, IsFiniteSet(Positions(parent)), Acyclic(parent),
         \A s \in Positions(parent) : parent[s] \in Positions(parent) \cup {None},
         NEW t, Orderly(parent, t), Len(t) < Cardinality(Positions(parent))
  PROVE  Len(Take(parent, t)) = Len(t) + 1
<1> DEFINE P == Positions(parent)
           left == P \ ToSet(t)
<1>1. /\ t \in Seq(P) /\ Len(t) \in Nat /\ DOMAIN t = 1..Len(t) /\ \A i \in 1..Len(t) : t[i] \in P
      /\ ToSet(t) = {t[i] : i \in DOMAIN t}
  <2>1. t \in Seq(P)
    BY DEF Orderly
  <2> QED
    BY <2>1, SequenceFacts DEF ToSet
<1>2. left # {}
  <2> SUFFICES ASSUME P \subseteq ToSet(t) PROVE FALSE
    OBVIOUS
  <2>1. t \in Surjection(1..Len(t), P)
    BY <1>1 DEF Surjection
  <2>2. IsFiniteSet(1..Len(t)) /\ Cardinality(1..Len(t)) = Len(t)
    BY <1>1, CountTo
  <2>3. Cardinality(P) <= Len(t)
    BY <2>1, <2>2, FS_Surjection
  <2>4. Cardinality(P) \in Nat
    BY FS_CardinalityType
  <2> QED
    BY <1>1, <2>3, <2>4
<1>3. PICK rank \in [P -> Nat] : \A s \in P : parent[s] # None => rank[parent[s]] < rank[s]
  BY DEF Acyclic
<1> DEFINE R == {rank[s] : s \in left}
<1>4. R \in SUBSET Nat /\ R # {}
  BY <1>2, <1>3
<1>5. PICK m \in R : \A n \in R : <<n, m>> \notin OpToRel(<, Nat)
  <2> HIDE DEF R
  <2> QED
    BY <1>4, NatLessThanWellFounded, WFMin
<1>6. PICK s \in left : rank[s] = m
  BY <1>5
<1>7. \A x \in left : ~(rank[x] < rank[s])
  <2> SUFFICES ASSUME NEW x \in left, rank[x] < rank[s] PROVE FALSE
    OBVIOUS
  <2>1. rank[x] \in R /\ rank[x] \in Nat /\ rank[s] \in Nat
    BY <1>3, <1>6
  <2>2. <<rank[x], m>> \in OpToRel(<, Nat)
    BY <1>6, <2>1 DEF OpToRel
  <2> QED
    BY <1>5, <2>1, <2>2
<1>8. s \in Ready(parent, ToSet(t))
  BY <1>3, <1>6, <1>7 DEF Ready
<1>9. Take(parent, t) = Append(t, Min(Ready(parent, ToSet(t))))
  BY <1>8 DEF Take
<1> DEFINE x == Min(Ready(parent, ToSet(t)))
<1>10. x \in P
  <2> DEFINE ready == Ready(parent, ToSet(t))
  <2>1. ready \in SUBSET Nat /\ ready # {} /\ ready \subseteq P
    BY <1>8 DEF Ready
  <2> HIDE DEF ready
  <2>2. Min(ready) \in ready
    BY <2>1, MinIsIn
  <2> QED
    BY <2>1, <2>2 DEF ready
<1> HIDE DEF x
<1>11. Len(Append(t, x)) = Len(t) + 1
  BY <1>1, <1>10
<1> QED
  BY <1>9, <1>11 DEF x

\* build_execution_order refuses the jobs whose shots continue each other in a circle, and no
\* others: the heap runs empty before all shots are drawn only if there is such a circle.
THEOREM OrderRefusesCycles ==
  ASSUME NEW parent \in Seq(Nat),
         \A s \in Positions(parent) : parent[s] \in Positions(parent) \cup {None}
  PROVE  Buildable(parent) <=> Acyclic(parent)
<1> DEFINE P == Positions(parent)
           N == Cardinality(P)
<1>1. /\ P = 1..Len(parent) /\ Len(parent) \in Nat /\ N = Len(parent) /\ IsFiniteSet(P)
  <2>1. Len(parent) \in Nat /\ DOMAIN parent = 1..Len(parent)
    BY SequenceFacts
  <2> QED
    BY <2>1, CountTo DEF Positions
<1>2. ASSUME Buildable(parent)
      PROVE  Acyclic(parent)
  <2> DEFINE o == Order(parent)
             Place(s) == CHOOSE i \in DOMAIN o : o[i] = s
             rank == [s \in P |-> Place(s)]
  <2>1. /\ Orderly(parent, o) /\ \A s \in P : \E i \in DOMAIN o : o[i] = s
    BY <1>2, OrderIsComplete
  <2> HIDE DEF o
  <2>2. DOMAIN o = 1..Len(o) /\ Len(o) \in Nat
    <3>1. o \in Seq(P)
      BY <2>1 DEF Orderly
    <3> QED
      BY <3>1, SequenceFacts
  <2>3. \A s \in P : Place(s) \in DOMAIN o /\ o[Place(s)] = s
    BY <2>1
  <2> HIDE DEF Place
  <2>4. ASSUME NEW s \in P, parent[s] # None
        PROVE  Place(parent[s]) < Place(s)
    <3>1. PICK j \in 1..(Place(s) - 1) : o[j] = parent[s]
      BY <2>1, <2>3, <2>4 DEF Orderly
    <3>2. Place(s) \in 1..Len(o) /\ j \in 1..Len(o) /\ j < Place(s)
      BY <2>2, <2>3, <3>1
    <3>3. parent[s] \in P
      BY <2>4
    <3>4. j = Place(parent[s])
      <4>1. \A a, b \in 1..Len(o) : o[a] = o[b] => a = b
        BY <2>1, <2>2 DEF Orderly
      <4>2. Place(parent[s]) \in 1..Len(o) /\ o[Place(parent[s])] = o[j]
        BY <2>2, <2>3, <3>1, <3>3
      <4> QED
        BY <3>2, <4>1, <4>2
    <3> QED
      BY <3>2, <3>4
  <2>5. rank \in [P -> Nat] /\ \A s \in P : parent[s] # None => rank[parent[s]] < rank[s]
    <3>1. \A s \in P : Place(s) \in Nat
      BY <2>2, <2>3
    <3> QED
      BY <2>4, <3>1
  <2> QED
    BY <2>5 DEF Acyclic
<1>3. ASSUME Acyclic(parent)
      PROVE  Buildable(parent)
  <2> DEFINE S == {n \in Nat : n <= N => Orderly(parent, Turns(parent)[n]) /\ Len(Turns(parent)[n]) = n}
  <2>1. \A n \in 0..N : Turns(parent)[n] = IF n = 0 THEN <<>> ELSE Take(parent, Turns(parent)[n - 1])
    BY <1>1, TurnsDefined
  <2> HIDE DEF N
  <2>2. 0 \in S
    <3>1. Orderly(parent, <<>>)
      BY DEF Orderly
    <3> QED
      BY <1>1, <2>1, <3>1
  <2>3. ASSUME NEW n \in Nat, n \in S
        PROVE  n + 1 \in S
    <3> SUFFICES ASSUME n + 1 <= N
                 PROVE  Orderly(parent, Turns(parent)[n + 1]) /\ Len(Turns(parent)[n + 1]) = n + 1
      OBVIOUS
    <3> DEFINE t == Turns(parent)[n]
    <3>1. Turns(parent)[n + 1] = Take(parent, t)
      BY <1>1, <2>1
    <3>2. Orderly(parent, t) /\ Len(t) = n /\ n < N
      BY <1>1, <2>3
    <3> HIDE DEF t
    <3>3. Orderly(parent, Take(parent, t))
      BY <1>1, <3>2, TakeIsOrderly
    <3>4. Len(Take(parent, t)) = n + 1
      <4>1. P \in SUBSET Nat /\ IsFiniteSet(P) /\ Len(t) < Cardinality(P)
        BY <1>1, <3>2 DEF N
      <4>2. Len(Take(parent, t)) = Len(t) + 1
        BY <1>3, <3>2, <4>1, TakeGoesOn
      <4> QED
        BY <3>2, <4>2
    <3> QED
      BY <3>1, <3>3, <3>4
  <2>4. Nat \subseteq S
    <3> HIDE DEF S
    <3> QED
      BY <2>2, <2>3, InductiveSet
  <2>5. Len(Order(parent)) = N
    BY <1>1, <2>4 DEF Order, N
  <2> QED
    BY <2>5 DEF Buildable, N
<1> QED
  BY <1>2, <1>3

-----------------------------------------------------------------------------
(* The workers and the run directories *)

IsDirectory(d) == d = [status |-> d.status, done |-> d.done, passed |-> d.passed]

\* What a run directory lists is of no account here, only that it has a status.
Recorded ==
    /\ \E S : runs \in Seq(S)
    /\ \A r \in DOMAIN runs : IsDirectory(runs[r])

Busy(w) == at[w].step \in {"draw", "judge", "sheet"}

Opening == {w \in Workers : at[w].step = "open"}

\* There is a directory left for each worker that is about to make one.
Room == Len(runs) + Cardinality(Opening) <= MaxRuns

\* A worker in an execution has its own directory, which is still running.
Executing ==
    /\ \A w \in Workers : Busy(w) => Run(w) \in DOMAIN runs /\ runs[Run(w)].status = "running"
    /\ \A v, w \in Workers : Busy(v) /\ Busy(w) /\ Run(v) = Run(w) => v = w

Succeeding == \A w \in Workers : at[w].step = "succeed" => Run(w) \in DOMAIN runs

WorkersSound ==
    /\ at \in [Workers -> Standing]
    /\ Recorded
    /\ Room
    /\ Executing
    /\ Succeeding

LEMMA WorkersInitially == Init => WorkersSound
<1> SUFFICES ASSUME Init PROVE WorkersSound
  OBVIOUS
<1>1. at \in [Workers -> Standing]
  BY WorkflowAssumption DEF Init, Stand, Standing, Step, WorkflowAssumption
<1>2. \A w \in Workers : at[w].step = "idle"
  BY DEF Init, Stand
<1>3. runs \in Seq({}) /\ Len(runs) = 0 /\ DOMAIN runs = {}
  BY DEF Init
<1>4. Recorded
  BY <1>3 DEF Recorded
<1>5. Opening = {}
  BY <1>2 DEF Opening
<1>6. Room
  BY <1>3, <1>5, FS_EmptySet, WorkflowAssumption DEF Room, WorkflowAssumption
<1>7. Executing /\ Succeeding
  BY <1>2 DEF Executing, Succeeding, Busy
<1> QED
  BY <1>1, <1>4, <1>6, <1>7 DEF WorkersSound

\* A new directory, and a directory rewritten, leave the others as they are.
LEMMA Appending ==
  ASSUME Recorded
  PROVE  /\ Recorded => Len(runs) \in Nat /\ DOMAIN runs = 1..Len(runs)
         /\ runs' = Append(runs, NewDirectory) =>
               /\ Recorded'
               /\ Len(runs') = Len(runs) + 1
               /\ DOMAIN runs' = 1..(Len(runs) + 1)
               /\ runs'[Len(runs) + 1] = NewDirectory
               /\ \A r \in DOMAIN runs : runs'[r] = runs[r]
<1>1. PICK S : runs \in Seq(S)
  BY DEF Recorded
<1>2. Len(runs) \in Nat /\ DOMAIN runs = 1..Len(runs)
  BY <1>1
<1>3. ASSUME runs' = Append(runs, NewDirectory)
      PROVE  /\ Recorded'
             /\ Len(runs') = Len(runs) + 1
             /\ DOMAIN runs' = 1..(Len(runs) + 1)
             /\ runs'[Len(runs) + 1] = NewDirectory
             /\ \A r \in DOMAIN runs : runs'[r] = runs[r]
  <2> DEFINE T == S \cup {NewDirectory}
  <2>1. runs \in Seq(T) /\ NewDirectory \in T
    BY <1>1
  <2> HIDE DEF T
  <2>2. /\ runs' \in Seq(T)
        /\ Len(runs') = Len(runs) + 1
        /\ DOMAIN runs' = 1..(Len(runs) + 1)
        /\ runs'[Len(runs) + 1] = NewDirectory
        /\ \A r \in DOMAIN runs : runs'[r] = runs[r]
    BY <1>3, <2>1, <1>2
  <2>3. IsDirectory(NewDirectory)
    BY DEF IsDirectory, NewDirectory
  <2>4. \A r \in DOMAIN runs' : IsDirectory(runs'[r])
    BY <2>2, <2>3, <1>2 DEF Recorded
  <2> QED
    BY <2>2, <2>4 DEF Recorded, IsDirectory
<1> QED
  BY <1>2, <1>3

LEMMA Rewriting ==
  ASSUME Recorded, NEW r \in DOMAIN runs, NEW d, IsDirectory(d),
         runs' = [runs EXCEPT ![r] = d]
  PROVE  /\ Recorded'
         /\ Len(runs') = Len(runs)
         /\ DOMAIN runs' = DOMAIN runs
         /\ runs'[r] = d
         /\ \A q \in DOMAIN runs : q # r => runs'[q] = runs[q]
<1>1. PICK S : runs \in Seq(S)
  BY DEF Recorded
<1> DEFINE T == S \cup {d}
<1>2. runs \in Seq(T) /\ d \in T
  BY <1>1
<1> HIDE DEF T
<1>3. /\ runs' \in Seq(T)
      /\ Len(runs') = Len(runs)
      /\ DOMAIN runs' = DOMAIN runs
      /\ runs'[r] = d
      /\ \A q \in DOMAIN runs : q # r => runs'[q] = runs[q]
  BY <1>2
<1>4. \A q \in DOMAIN runs' : IsDirectory(runs'[q])
  BY <1>3 DEF Recorded
<1> QED
  BY <1>3, <1>4 DEF Recorded, IsDirectory

\* How a worker that was in an execution leaves a step of it: its directory stays running while
\* it is busy, and no other directory is touched.
Advances(w) ==
    /\ Busy(w)
    /\ at' \in [Workers -> Standing]
    /\ \A v \in Workers : v # w => at'[v] = at[v]
    /\ Recorded'
    /\ Len(runs') = Len(runs) /\ DOMAIN runs' = DOMAIN runs
    /\ \A q \in DOMAIN runs : q # Run(w) => runs'[q] = runs[q]
    /\ \/ Busy(w)' /\ Run(w)' = Run(w) /\ runs'[Run(w)].status = "running"
       \/ at'[w].step = "succeed" /\ Run(w)' = Run(w)
       \/ at'[w].step = "fail"

LEMMA StandIsStanding ==
  ASSUME NEW step \in Step, NEW r \in 0..MaxRuns
  PROVE  /\ Stand(step, r) \in Standing
         /\ Stand(step, r).step = step
         /\ Stand(step, r).run = r
BY WorkflowAssumption DEF Stand, Standing, WorkflowAssumption

LEMMA AbortAdvances ==
  ASSUME WorkersSound, NEW w \in Workers, Busy(w), Abort(w)
  PROVE  Advances(w)
<1> DEFINE d == [runs[Run(w)] EXCEPT !.status = "failed"]
<1>1. Run(w) \in DOMAIN runs
  BY DEF WorkersSound, Executing
<1>2. IsDirectory(d)
  BY <1>1 DEF WorkersSound, Recorded, IsDirectory
<1>3. runs' = [runs EXCEPT ![Run(w)] = d]
  BY DEF Abort
<1> HIDE DEF d
<1>4. /\ Recorded'
      /\ Len(runs') = Len(runs) /\ DOMAIN runs' = DOMAIN runs
      /\ \A q \in DOMAIN runs : q # Run(w) => runs'[q] = runs[q]
  BY <1>1, <1>2, <1>3, Rewriting DEF WorkersSound
<1>5. "fail" \in Step /\ 0 \in 0..MaxRuns
  BY WorkflowAssumption DEF Step, WorkflowAssumption
<1>6. /\ at' \in [Workers -> Standing]
      /\ \A v \in Workers : v # w => at'[v] = at[v]
      /\ at'[w].step = "fail"
  BY <1>5, StandIsStanding DEF Abort, WorkersSound
<1> QED
  BY <1>4, <1>6 DEF Advances

LEMMA FurtherStands ==
  ASSUME WorkersSound, NEW w \in Workers, Busy(w)
  PROVE  /\ Further(w) \in Standing
         /\ Further(w).step \in {"draw", "sheet"}
         /\ Further(w).run = Run(w)
<1>1. at[w] \in Standing /\ Run(w) \in 0..MaxRuns /\ at[w].next \in Nat
  BY DEF WorkersSound, Standing, Run
<1>2. "draw" \in Step /\ "sheet" \in Step
  BY DEF Step
<1>3. Stand("sheet", Run(w)) \in Standing /\ Stand("draw", Run(w)) \in Standing
  BY <1>1, <1>2, StandIsStanding
<1>4. [Stand("draw", Run(w)) EXCEPT !.next = at[w].next + 1] \in Standing
  BY <1>1, <1>3 DEF Standing, Stand
<1> QED
  BY <1>3, <1>4 DEF Further, Stand

LEMMA AcceptAdvances ==
  ASSUME WorkersSound, NEW w \in Workers, Busy(w), Accept(w)
  PROVE  Advances(w)
<1> DEFINE d == [[runs[Run(w)] EXCEPT !.done = @ \cup {Target(w)}]
                     EXCEPT !.passed = @ \cup ({Target(w)} \cap Shots)]
<1>1. Run(w) \in DOMAIN runs /\ runs[Run(w)].status = "running"
  BY DEF WorkersSound, Executing
<1>2. IsDirectory(d) /\ d.status = "running"
  <2> DEFINE x == runs[Run(w)]
             a == x.done \cup {Target(w)}
             b == x.passed \cup ({Target(w)} \cap Shots)
  <2>1. IsDirectory(x) /\ x.status = "running"
    BY <1>1 DEF WorkersSound, Recorded
  <2>2. d = [status |-> x.status, done |-> a, passed |-> b]
    <3>1. x = [status |-> x.status, done |-> x.done, passed |-> x.passed]
      BY <2>1 DEF IsDirectory
    <3>2. d = [[x EXCEPT !.done = a] EXCEPT !.passed = b]
      BY <3>1
    <3> HIDE DEF x, a, b, d
    <3> QED
      BY <3>1, <3>2
  <2> HIDE DEF x, a, b, d
  <2> QED
    BY <2>1, <2>2 DEF IsDirectory
<1>3. runs' = [runs EXCEPT ![Run(w)] = d]
  BY <1>1 DEF Accept
<1> HIDE DEF d
<1>4. /\ Recorded'
      /\ Len(runs') = Len(runs) /\ DOMAIN runs' = DOMAIN runs
      /\ runs'[Run(w)] = d
      /\ \A q \in DOMAIN runs : q # Run(w) => runs'[q] = runs[q]
  BY <1>1, <1>2, <1>3, Rewriting DEF WorkersSound
<1>5. /\ at' \in [Workers -> Standing]
      /\ \A v \in Workers : v # w => at'[v] = at[v]
      /\ at'[w] = Further(w)
  BY FurtherStands DEF Accept, WorkersSound
<1>6. Busy(w)' /\ Run(w)' = Run(w)
  BY <1>5, FurtherStands DEF Busy, Run
<1> QED
  BY <1>2, <1>4, <1>5, <1>6 DEF Advances

LEMMA ExecutionAdvances ==
  ASSUME WorkersSound, NEW w \in Workers,
         Draws(w) \/ DrawFails(w) \/ JudgedGood(w) \/ JudgedBad(w) \/ Sheet(w)
  PROVE  Advances(w)
<1>1. Busy(w)
  BY DEF Draws, DrawFails, JudgedGood, JudgedBad, Sheet, Busy
<1>2. /\ at \in [Workers -> Standing] /\ at[w] \in Standing /\ Recorded
      /\ Run(w) \in DOMAIN runs /\ runs[Run(w)].status = "running"
      /\ IsDirectory(runs[Run(w)])
  BY <1>1 DEF WorkersSound, Executing, Recorded
<1>3. CASE Abort(w)
  BY <1>1, <1>3, AbortAdvances
<1>4. CASE Accept(w)
  BY <1>1, <1>4, AcceptAdvances
<1>5. ASSUME NEW s \in Standing, s.step \in {"draw", "judge"}, s.run = Run(w),
             at' = [at EXCEPT ![w] = s], runs' = runs
      PROVE  Advances(w)
  <2>1. at' \in [Workers -> Standing] /\ at'[w] = s /\ \A v \in Workers : v # w => at'[v] = at[v]
    BY <1>2, <1>5
  <2>2. Recorded'
    BY <1>2, <1>5 DEF Recorded
  <2>3. Busy(w)' /\ Run(w)' = Run(w)
    BY <2>1, <1>5 DEF Busy, Run
  <2> QED
    BY <1>1, <1>2, <1>5, <2>1, <2>2, <2>3 DEF Advances
<1>6. ASSUME NEW d, IsDirectory(d), runs' = [runs EXCEPT ![Run(w)] = d],
             NEW s \in Standing, s.run = Run(w), at' = [at EXCEPT ![w] = s],
             (s.step = "judge" /\ d.status = "running") \/ s.step = "succeed"
      PROVE  Advances(w)
  <2>1. at' \in [Workers -> Standing] /\ at'[w] = s /\ \A v \in Workers : v # w => at'[v] = at[v]
    BY <1>2, <1>6
  <2>2. /\ Recorded'
        /\ Len(runs') = Len(runs) /\ DOMAIN runs' = DOMAIN runs
        /\ runs'[Run(w)] = d
        /\ \A q \in DOMAIN runs : q # Run(w) => runs'[q] = runs[q]
    BY <1>2, <1>6, Rewriting
  <2>3. Run(w)' = Run(w) /\ (s.step = "judge" => Busy(w)')
    BY <2>1, <1>6 DEF Busy, Run
  <2> QED
    BY <1>1, <1>6, <2>1, <2>2, <2>3 DEF Advances
<1>7. CASE Draws(w)
  <2>1. CASE IsShot(Target(w)) /\ VisualQA
    <3> DEFINE d == [runs[Run(w)] EXCEPT !.passed = @ \ {Target(w)}]
               s == [at[w] EXCEPT !.step = "judge", !.tries = 0, !.calls = @ + 1]
    <3>1. IsDirectory(d) /\ d.status = "running"
      BY <1>2 DEF IsDirectory
    <3> DEFINE n == at[w].calls + 1
    <3>4. n \in Nat /\ s = [at[w] EXCEPT !.step = "judge", !.tries = 0, !.calls = n]
      BY <1>2 DEF Standing
    <3>2. s \in Standing /\ s.run = Run(w) /\ s.step = "judge"
      <4> HIDE DEF n, s
      <4> QED
        BY <1>2, <3>4 DEF Standing, Step, Run
    <3>3. runs' = [runs EXCEPT ![Run(w)] = d] /\ at' = [at EXCEPT ![w] = s]
      BY <1>7, <2>1 DEF Draws
    <3> HIDE DEF d, s
    <3> QED
      BY <3>1, <3>2, <3>3, <1>6
  <2>2. CASE ~(IsShot(Target(w)) /\ VisualQA)
    BY <1>7, <2>2, <1>4 DEF Draws
  <2> QED
    BY <2>1, <2>2
<1>8. CASE DrawFails(w)
  <2>1. CASE ParentReady(w) /\ at[w].tries + 1 < Attempts
    <3> DEFINE s == [at[w] EXCEPT !.tries = @ + 1, !.calls = @ + 1]
    <3> DEFINE m == at[w].tries + 1
               n == at[w].calls + 1
    <3>3. m \in Nat /\ n \in Nat /\ s = [at[w] EXCEPT !.tries = m, !.calls = n]
      BY <1>2 DEF Standing
    <3>1. s \in Standing /\ s.run = Run(w) /\ s.step = "draw"
      <4> HIDE DEF m, n, s
      <4> QED
        BY <1>2, <1>8, <3>3 DEF Standing, Step, Run, DrawFails
    <3>2. runs' = runs /\ at' = [at EXCEPT ![w] = s]
      BY <1>8, <2>1 DEF DrawFails
    <3> HIDE DEF s
    <3> QED
      BY <3>1, <3>2, <1>5
  <2>2. CASE ~(ParentReady(w) /\ at[w].tries + 1 < Attempts)
    BY <1>8, <2>2, <1>3 DEF DrawFails
  <2> QED
    BY <2>1, <2>2
<1>9. CASE JudgedGood(w)
  BY <1>9, <1>4 DEF JudgedGood
<1>10. CASE JudgedBad(w)
  <2>1. CASE at[w].repairs < MaxRepairs
    <3> DEFINE s == [at[w] EXCEPT !.step = "draw", !.tries = 0, !.repairs = @ + 1]
    <3> DEFINE n == at[w].repairs + 1
    <3>3. n \in Nat /\ s = [at[w] EXCEPT !.step = "draw", !.tries = 0, !.repairs = n]
      BY <1>2 DEF Standing
    <3>1. s \in Standing /\ s.run = Run(w) /\ s.step = "draw"
      <4> HIDE DEF n, s
      <4> QED
        BY <1>2, <3>3 DEF Standing, Step, Run
    <3>2. runs' = runs /\ at' = [at EXCEPT ![w] = s]
      BY <1>10, <2>1 DEF JudgedBad
    <3> HIDE DEF s
    <3> QED
      BY <3>1, <3>2, <1>5
  <2>2. CASE ~(at[w].repairs < MaxRepairs)
    BY <1>10, <2>2, <1>3 DEF JudgedBad
  <2> QED
    BY <2>1, <2>2
<1>11. CASE Sheet(w)
  <2>1. CASE /\ runs' = [runs EXCEPT ![Run(w)].status = "succeeded"]
             /\ at' = [at EXCEPT ![w] = Stand("succeed", Run(w))]
    <3> DEFINE d == [runs[Run(w)] EXCEPT !.status = "succeeded"]
               s == Stand("succeed", Run(w))
    <3>1. IsDirectory(d)
      BY <1>2 DEF IsDirectory
    <3>2. "succeed" \in Step /\ Run(w) \in 0..MaxRuns
      BY <1>2 DEF Step, Standing, Run
    <3>3. s \in Standing /\ s.run = Run(w) /\ s.step = "succeed"
      BY <3>2, StandIsStanding
    <3>4. runs' = [runs EXCEPT ![Run(w)] = d] /\ at' = [at EXCEPT ![w] = s]
      BY <2>1
    <3> HIDE DEF d, s
    <3> QED
      BY <3>1, <3>3, <3>4, <1>6
  <2> QED
    BY <1>11, <2>1, <1>3 DEF Sheet
<1> QED
  BY <1>7, <1>8, <1>9, <1>10, <1>11

\* An empty place in the count of workers that are opening, or one more of them.
LEMMA OpeningIsFinite ==
  IsFiniteSet(Opening) /\ Cardinality(Opening) \in Nat
<1>1. Opening \subseteq Workers
  BY DEF Opening
<1> QED
  BY <1>1, FS_Subset, FS_CardinalityType, ProductionAssumption DEF ProductionAssumption

LEMMA DirectoriesFit ==
  ASSUME WorkersSound
  PROVE  Len(runs) \in Nat /\ Len(runs) <= MaxRuns /\ DOMAIN runs = 1..Len(runs)
BY OpeningIsFinite, Appending, WorkflowAssumption DEF WorkersSound, Room, WorkflowAssumption

LEMMA AdvancingKeeps ==
  ASSUME WorkersSound, NEW w \in Workers, Advances(w)
  PROVE  WorkersSound'
<1>1. /\ at' \in [Workers -> Standing] /\ Recorded'
      /\ Len(runs') = Len(runs) /\ DOMAIN runs' = DOMAIN runs
      /\ at'[w].step # "open"
  BY DEF Advances, Busy
<1>2. Opening' = Opening
  BY <1>1 DEF Opening, Advances, Busy
<1>3. Room'
  BY <1>1, <1>2 DEF Room, WorkersSound
<1>4. \A v \in Workers : v # w => (Busy(v)' <=> Busy(v)) /\ Run(v)' = Run(v)
  BY DEF Advances, Busy, Run
<1>5. Busy(w)' => Run(w)' = Run(w) /\ runs'[Run(w)].status = "running"
  BY DEF Advances, Busy
<1>6. Executing'
  <2>1. ASSUME NEW v \in Workers, Busy(v)'
        PROVE  Run(v)' \in DOMAIN runs' /\ runs'[Run(v)'].status = "running"
    <3>1. CASE v = w
      BY <3>1, <2>1, <1>1, <1>5 DEF WorkersSound, Executing, Advances
    <3>2. CASE v # w
      <4>1. Busy(v) /\ Run(v)' = Run(v) /\ Run(v) # Run(w)
        BY <3>2, <2>1, <1>4 DEF WorkersSound, Executing, Advances
      <4> QED
        BY <4>1, <1>1 DEF WorkersSound, Executing, Advances
    <3> QED
      BY <3>1, <3>2
  <2>2. ASSUME NEW u \in Workers, NEW v \in Workers, Busy(u)', Busy(v)', Run(u)' = Run(v)'
        PROVE  u = v
    BY <2>2, <1>4, <1>5 DEF WorkersSound, Executing, Advances
  <2> QED
    BY <2>1, <2>2 DEF Executing
<1>7. Succeeding'
  <2>1. Run(w) \in DOMAIN runs
    BY DEF WorkersSound, Executing, Advances
  <2> QED
    BY <1>1, <1>4, <2>1 DEF WorkersSound, Succeeding, Advances, Busy, Run
<1> QED
  BY <1>1, <1>3, <1>6, <1>7 DEF WorkersSound

LEMMA OpeningKeeps ==
  ASSUME WorkersSound, NEW w \in Workers, Open(w)
  PROVE  /\ WorkersSound'
         /\ \A r \in DOMAIN runs : r \in DOMAIN runs' /\ runs'[r] = runs[r]
<1> DEFINE n == Len(runs) + 1
<1>1. /\ Len(runs) \in Nat /\ DOMAIN runs = 1..Len(runs)
      /\ Recorded' /\ Len(runs') = n /\ DOMAIN runs' = 1..n
      /\ runs'[n] = NewDirectory
      /\ \A r \in DOMAIN runs : runs'[r] = runs[r]
  BY Appending DEF Open, WorkersSound
<1>2. w \in Opening
  BY DEF Open, Opening
<1>3. Cardinality(Opening \ {w}) = Cardinality(Opening) - 1 /\ Cardinality(Opening) > 0
  BY <1>2, OpeningIsFinite, FS_RemoveElement, FS_EmptySet, FS_CardinalityType
<1>4. n <= MaxRuns
  BY <1>1, <1>3, OpeningIsFinite, WorkflowAssumption DEF WorkersSound, Room, WorkflowAssumption
<1>5. "draw" \in Step /\ n \in 0..MaxRuns
  BY <1>1, <1>4, WorkflowAssumption DEF Step, WorkflowAssumption
<1> HIDE DEF n
<1>6. /\ at' \in [Workers -> Standing]
      /\ \A v \in Workers : v # w => at'[v] = at[v]
      /\ at'[w].step = "draw" /\ at'[w].run = n
  BY <1>5, StandIsStanding DEF Open, WorkersSound, n
<1>7. Opening' = Opening \ {w}
  BY <1>6 DEF Opening
<1>8. Room'
  BY <1>1, <1>3, <1>7, OpeningIsFinite, WorkflowAssumption
     DEF WorkersSound, Room, WorkflowAssumption, n
<1>9. \A v \in Workers : v # w => (Busy(v)' <=> Busy(v)) /\ Run(v)' = Run(v)
  BY <1>6 DEF Busy, Run
<1>10. Run(w)' = n
  BY <1>6 DEF Run
<1>11. n \notin DOMAIN runs /\ n \in DOMAIN runs' /\ DOMAIN runs \subseteq DOMAIN runs'
  BY <1>1 DEF n
<1>12. NewDirectory.status = "running"
  BY DEF NewDirectory
<1>13. Executing'
  <2>1. ASSUME NEW v \in Workers, Busy(v)'
        PROVE  Run(v)' \in DOMAIN runs' /\ runs'[Run(v)'].status = "running"
    BY <2>1, <1>1, <1>9, <1>10, <1>11, <1>12 DEF WorkersSound, Executing
  <2>2. ASSUME NEW u \in Workers, NEW v \in Workers, Busy(u)', Busy(v)', Run(u)' = Run(v)'
        PROVE  u = v
    BY <2>2, <1>9, <1>10, <1>11 DEF WorkersSound, Executing
  <2> QED
    BY <2>1, <2>2 DEF Executing
<1>14. Succeeding'
  BY <1>6, <1>11 DEF WorkersSound, Succeeding, Run
<1> QED
  BY <1>1, <1>6, <1>8, <1>11, <1>13, <1>14 DEF WorkersSound

\* A worker takes up a job, or is done with one: it has no directory (any more).
LEMMA MovingKeeps ==
  ASSUME WorkersSound, NEW w \in Workers,
         NEW step \in {"off", "idle", "fail", "open"},
         at' = [at EXCEPT ![w] = Stand(step, 0)], UNCHANGED runs,
         step = "open" => Len(runs) + Cardinality(Opening) < MaxRuns /\ at[w].step = "idle"
  PROVE  WorkersSound'
<1>1. step \in Step /\ 0 \in 0..MaxRuns
  BY WorkflowAssumption DEF Step, WorkflowAssumption
<1>2. /\ at' \in [Workers -> Standing]
      /\ \A v \in Workers : v # w => at'[v] = at[v]
      /\ at'[w].step = step
  BY <1>1, StandIsStanding DEF WorkersSound
<1>3. Recorded' /\ Len(runs) \in Nat
  BY Appending DEF WorkersSound, Recorded
<1>4. Executing' /\ Succeeding'
  BY <1>2 DEF WorkersSound, Executing, Succeeding, Busy, Run
<1>5. Room'
  <2>1. CASE step = "open"
    <3>1. Opening' = Opening \cup {w} /\ w \notin Opening
      BY <1>2, <2>1 DEF Opening
    <3>2. Cardinality(Opening') = Cardinality(Opening) + 1
      BY <3>1, OpeningIsFinite, FS_AddElement
    <3> QED
      BY <3>2, <2>1, <1>3, OpeningIsFinite, WorkflowAssumption DEF Room, WorkflowAssumption
  <2>2. CASE step # "open"
    <3>1. Opening' \subseteq Opening
      BY <1>2, <2>2 DEF Opening
    <3>2. Cardinality(Opening') <= Cardinality(Opening) /\ Cardinality(Opening') \in Nat
      BY <3>1, OpeningIsFinite, FS_Subset, FS_CardinalityType
    <3> QED
      BY <3>2, <1>3, OpeningIsFinite, WorkflowAssumption
         DEF Room, WorkersSound, WorkflowAssumption
  <2> QED
    BY <2>1, <2>2
<1> QED
  BY <1>2, <1>3, <1>4, <1>5 DEF WorkersSound

\* What each step does to the workers and their directories.
LEMMA WorkersOfNext ==
  ASSUME Next
  PROVE  \/ UNCHANGED <<runs, at>>
         \/ \E w \in Workers : Works(w)
         \/ \E w \in Workers, step \in {"off", "idle", "fail", "open"} :
               /\ at' = [at EXCEPT ![w] = Stand(step, 0)]
               /\ UNCHANGED runs
               /\ step = "open" =>
                     /\ Len(runs) + Cardinality(Opening) < MaxRuns
                     /\ at[w].step = "idle"
<1>1. ASSUME NEW c \in Clients, Post(c) \/ Ask(c) \/ Retry(c) \/ Cancel(c) \/ ClientStep(c)
      PROVE  UNCHANGED <<runs, at>>
  BY <1>1 DEF Post, Ask, Retry, Cancel, Requeue, ClientStep, Select, Insert, Enqueue, Save,
              Look, Compose, Fill, Replace, Measure
<1>2. ASSUME NEW w \in Workers, Claim(w) \/ LoadFails(w) \/ Succeed(w) \/ Fail(w) \/ CrashWorker(w)
      PROVE  \E step \in {"off", "idle", "fail", "open"} :
                /\ at' = [at EXCEPT ![w] = Stand(step, 0)]
                /\ UNCHANGED runs
                /\ step = "open" =>
                      /\ Len(runs) + Cardinality(Opening) < MaxRuns
                      /\ at[w].step = "idle"
  <2>1. CASE Claim(w)
    BY <2>1 DEF Claim, Opening
  <2>2. CASE LoadFails(w)
    BY <2>2 DEF LoadFails
  <2>3. CASE Succeed(w)
    BY <2>3 DEF Succeed
  <2>4. CASE Fail(w)
    BY <2>4 DEF Fail
  <2>5. CASE CrashWorker(w)
    BY <2>5 DEF CrashWorker
  <2> QED
    BY <1>2, <2>1, <2>2, <2>3, <2>4, <2>5
<1>3. CASE Recover \/ Restart
  BY <1>3 DEF Recover, Restart
<1> QED
  BY <1>1, <1>2, <1>3 DEF Next, WorkerStep

LEMMA WorkersKept == WorkersSound /\ [Next]_vars => WorkersSound'
<1> SUFFICES ASSUME WorkersSound, [Next]_vars PROVE WorkersSound'
  OBVIOUS
<1>1. CASE UNCHANGED <<runs, at>>
  <2>1. Opening' = Opening
    BY <1>1 DEF Opening
  <2> QED
    BY <1>1, <2>1 DEF WorkersSound, Recorded, Room, Executing, Succeeding, Busy, Run
<1>2. ASSUME NEW w \in Workers, Works(w)
      PROVE  WorkersSound'
  BY <1>2, OpeningKeeps, ExecutionAdvances, AdvancingKeeps DEF Works, RunWorkflow
<1>3. ASSUME NEW w \in Workers, NEW step \in {"off", "idle", "fail", "open"},
             at' = [at EXCEPT ![w] = Stand(step, 0)], UNCHANGED runs,
             step = "open" => Len(runs) + Cardinality(Opening) < MaxRuns /\ at[w].step = "idle"
      PROVE  WorkersSound'
  BY <1>3, MovingKeeps
<1>4. CASE UNCHANGED vars
  BY <1>4, <1>1 DEF vars
<1> QED
  BY <1>1, <1>2, <1>3, <1>4, WorkersOfNext

\* An execution that has ended is final: only a worker in it writes to its directory.
LEMMA EndedStays ==
  WorkersSound /\ [Next]_vars => \A r \in DOMAIN runs : runs[r].status # "running" => runs'[r] = runs[r]
<1> SUFFICES ASSUME WorkersSound, [Next]_vars, NEW r \in DOMAIN runs, runs[r].status # "running"
             PROVE  runs'[r] = runs[r]
  OBVIOUS
<1>1. ASSUME NEW w \in Workers, Works(w)
      PROVE  runs'[r] = runs[r]
  <2>1. CASE Open(w)
    BY <2>1, OpeningKeeps
  <2>2. CASE Advances(w)
    BY <2>2 DEF Advances, WorkersSound, Executing
  <2> QED
    BY <1>1, <2>1, <2>2, ExecutionAdvances DEF Works, RunWorkflow
<1> QED
  BY <1>1, WorkersOfNext DEF vars

\* A job is put back only after a failure or a recovery.
LEMMA PutBack ==
  Next => (item # NoItem /\ item'.status = "pending" /\ item.status # "pending" =>
              item.status \in {"failed", "running"})
<1> SUFFICES ASSUME Next, item # NoItem, item'.status = "pending", item.status # "pending"
             PROVE  item.status \in {"failed", "running"}
  OBVIOUS
<1>1. ASSUME NEW c \in Clients, Post(c) \/ Ask(c) \/ Retry(c) \/ Cancel(c) \/ ClientStep(c)
      PROVE  item.status \in {"failed", "running"}
  <2>1. CASE Retry(c)
    BY <2>1 DEF Retry, Requeue
  <2>2. CASE Cancel(c)
    <3>1. item'.status = "cancelled" \/ item' = [item EXCEPT !.status = "cancelled"]
      BY <2>2 DEF Cancel, Requeue
    <3> QED
      BY <3>1, <2>2 DEF Cancel, Requeue
  <2>3. CASE UNCHANGED item
    BY <2>3
  <2> QED
    BY <1>1, <2>1, <2>2, <2>3
       DEF Post, Ask, ClientStep, Select, Insert, Enqueue, Save, Look, Compose, Fill, Replace,
           Measure, Stores
<1>2. ASSUME NEW w \in Workers, Claim(w) \/ WorkerStep(w) \/ CrashWorker(w)
      PROVE  item.status \in {"failed", "running"}
  <2>1. CASE Claim(w) \/ Succeed(w) \/ Fail(w)
    BY <2>1 DEF Claim, Succeed, Fail
  <2>2. CASE UNCHANGED item
    BY <2>2
  <2> QED
    BY <1>2, <2>1, <2>2 DEF WorkerStep, Works, LoadFails, CrashWorker, Stores
<1>3. CASE Recover \/ Restart
  BY <1>3 DEF Recover, Restart, Stores
<1> QED
  BY <1>1, <1>2, <1>3 DEF Next

-----------------------------------------------------------------------------
(* The stores and the requests *)

Moved == {"no", "current", "gone"}

\* The stores and the requests are well formed, and a job that succeeded names its directory.
Formed ==
    /\ row \in Row \cup {NoRow}
    /\ item \in [status : ItemState, root : Root] \cup {NoItem}
    /\ item.status = "succeeded" => item.root \in 1..MaxRuns
    /\ draft \in [1..MaxRuns -> {"none", "part", "full"}]
    /\ torn \subseteq 1..MaxRuns
    /\ req \in [Clients -> [step : Request, held : Row \cup {NoRow}, moved : Moved]]

\* Past the handoff, a request holds a row that names its job.
PastHandoff == {"save", "look", "compose", "fill", "replace", "measure"}

Named == \A c \in Clients : req[c].step \in PastHandoff => Holds(c).queued

\* A request that composes has a directory to read.
Composing == {"compose", "fill", "replace"}

Located == \A c \in Clients : req[c].step \in Composing => Holds(c).root \in 1..MaxRuns

\* A request in "fill", whose draft of r is still the draft ("no") or is result.json.
Writes(c, moved, r) == req[c].step = "fill" /\ req[c].moved = moved /\ Holds(c).root = r

\* An empty draft is in the hands of a request that is about to fill it.
Drafted ==
    \A r \in 1..MaxRuns : draft[r] = "part" =>
        restarted \/ \E c \in Clients : Writes(c, "no", r)

RequestsSound == Formed /\ Named /\ Located /\ QueuedHasItem /\ HandoffUnderWay /\ Drafted /\ TornIsFilled

LEMMA RowsAreNamed ==
  /\ NoRow \notin Row /\ NoRow.queued = FALSE
  /\ Compiled \in Row /\ Compiled.queued = FALSE
  /\ NoItem \notin [status : ItemState, root : Root] /\ NoItem.status \notin ItemState
<1>1. 0 \in Root
  BY WorkflowAssumption DEF Root, WorkflowAssumption
<1>2. NoRow \notin Row /\ NoRow.queued = FALSE
  BY DEF NoRow, Row
<1> DEFINE Wide == [status : {"none", "COMPILED"}, queued : BOOLEAN, root : Root, pages : Root]
<1>3. NoRow \in Wide
  BY <1>1 DEF NoRow
<1>4. Compiled \in Row /\ Compiled.queued = FALSE
  <2>1. Compiled \in Wide /\ Compiled.status = "COMPILED" /\ Compiled.queued = NoRow.queued
    BY <1>3 DEF Compiled
  <2> QED
    BY <2>1, <1>2 DEF Row
<1>5. NoItem \notin [status : ItemState, root : Root] /\ NoItem.status \notin ItemState
  BY DEF NoItem, ItemState
<1> QED
  BY <1>2, <1>4, <1>5

LEMMA RequestsInitially == Init => RequestsSound
<1> SUFFICES ASSUME Init PROVE RequestsSound
  OBVIOUS
<1>1. /\ NoRequest.step = "idle" /\ NoRequest.held = NoRow /\ NoRequest.moved = "no"
      /\ NoRequest \in [step : Request, held : Row \cup {NoRow}, moved : Moved]
  BY DEF NoRequest, Request, Moved
<1>2. Formed
  BY <1>1 DEF Init, Formed, NoItem
<1>3. \A c \in Clients : req[c] = NoRequest
  BY DEF Init
<1>4. Named /\ Located
  BY <1>1, <1>3 DEF Named, Located, PastHandoff, Composing
<1>5. QueuedHasItem /\ HandoffUnderWay
  BY <1>1, <1>3, RowsAreNamed DEF Init, QueuedHasItem, HandoffUnderWay, Holds
<1>6. Drafted /\ TornIsFilled
  BY DEF Init, Drafted, TornIsFilled
<1> QED
  BY <1>2, <1>4, <1>5, <1>6 DEF RequestsSound

\* One request moves on, the others stay as they are.
LEMMA HoldMoves ==
  ASSUME Formed, NEW c \in Clients, NEW step \in Request, NEW held \in Row \cup {NoRow},
         Hold(c, step, held)
  PROVE  /\ req' \in [Clients -> [step : Request, held : Row \cup {NoRow}, moved : Moved]]
         /\ req'[c].step = step /\ req'[c].held = held /\ req'[c].moved = "no"
         /\ \A d \in Clients : d # c => req'[d] = req[d]
BY DEF Hold, Formed, Moved

LEMMA AnswerMoves ==
  ASSUME Formed, NEW c \in Clients, Answer(c)
  PROVE  /\ req' \in [Clients -> [step : Request, held : Row \cup {NoRow}, moved : Moved]]
         /\ req'[c].step = "idle" /\ req'[c].held = NoRow /\ req'[c].moved = "no"
         /\ \A d \in Clients : d # c => req'[d] = req[d]
BY DEF Answer, NoRequest, Formed, Moved, Request

\* The item never leaves the queue.
LEMMA RequestsKeptByItem ==
  ASSUME RequestsSound, UNCHANGED <<row, draft, torn, req, restarted>>,
         item' \in [status : ItemState, root : Root],
         item'.status = "succeeded" => item'.root \in 1..MaxRuns
  PROVE  RequestsSound'
<1>1. Formed'
  BY DEF RequestsSound, Formed
<1>2. QueuedHasItem'
  BY RowsAreNamed DEF QueuedHasItem
<1>3. (Named /\ Located /\ HandoffUnderWay /\ Drafted /\ TornIsFilled)'
  BY DEF RequestsSound, Named, Located, HandoffUnderWay, Drafted, TornIsFilled, Holds, Writes
<1> QED
  BY <1>1, <1>2, <1>3 DEF RequestsSound

\* A request that leaves a step other than "enqueue", "save" or "fill", for one that is named
\* and located as it must be, and with drafts, torn files and the row as they are.
LEMMA RequestsKeptByMove ==
  ASSUME RequestsSound, NEW c \in Clients,
         req[c].step \notin {"enqueue", "save", "fill"},
         UNCHANGED <<row, draft, torn, restarted>>,
         item' = item \/ (item' \in [status : ItemState, root : Root] /\
                          (item'.status = "succeeded" => item'.root \in 1..MaxRuns)),
         req' \in [Clients -> [step : Request, held : Row \cup {NoRow}, moved : Moved]],
         \A d \in Clients : d # c => req'[d] = req[d],
         req'[c].step \in PastHandoff => req'[c].held.queued,
         req'[c].step \in Composing => req'[c].held.root \in 1..MaxRuns,
         req'[c].held.queued => item' # NoItem
  PROVE  RequestsSound'
<1>1. Formed'
  BY DEF RequestsSound, Formed
<1>2. Named' /\ Located'
  BY DEF RequestsSound, Named, Located, Holds
<1>3. QueuedHasItem'
  BY RowsAreNamed DEF RequestsSound, QueuedHasItem, Holds
<1>4. HandoffUnderWay'
  BY DEF RequestsSound, HandoffUnderWay
<1>5. Drafted'
  <2> SUFFICES ASSUME NEW r \in 1..MaxRuns, draft[r] = "part", ~restarted
               PROVE  \E d \in Clients : Writes(d, "no", r)'
    BY DEF Drafted
  <2>1. PICK d \in Clients : Writes(d, "no", r)
    BY DEF RequestsSound, Drafted
  <2> QED
    BY <2>1 DEF Writes, Holds
<1>6. TornIsFilled'
  <2> SUFFICES ASSUME NEW r \in torn, ~restarted
               PROVE  \E d \in Clients : Writes(d, "current", r)'
    BY DEF TornIsFilled, Writes
  <2>1. PICK d \in Clients : Writes(d, "current", r)
    BY DEF RequestsSound, TornIsFilled, Writes
  <2> QED
    BY <2>1 DEF Writes, Holds
<1> QED
  BY <1>1, <1>2, <1>3, <1>4, <1>5, <1>6 DEF RequestsSound

LEMMA PostKeeps ==
  ASSUME RequestsSound, NEW c \in Clients,
         Post(c) \/ Ask(c) \/ Retry(c) \/ Cancel(c) \/ Select(c)
  PROVE  RequestsSound'
<1>1. Formed /\ Named /\ Located /\ QueuedHasItem
  BY DEF RequestsSound
<1>2. req[c].step \in {"idle", "select"} /\ UNCHANGED <<row, draft, torn, restarted>>
  BY DEF Post, Ask, Retry, Cancel, Requeue, Select, Idle, Stores
<1>3. item' = item \/ (item' \in [status : ItemState, root : Root] /\
                       (item'.status = "succeeded" => item'.root \in 1..MaxRuns))
  <2>1. CASE Retry(c) \/ Cancel(c)
    <3>1. PICK to \in {"pending", "cancelled"} : item' = [item EXCEPT !.status = to]
      BY <2>1 DEF Retry, Cancel, Requeue
    <3>2. item.status \in ItemState
      BY <2>1 DEF Retry, Cancel, Requeue, ItemState
    <3>3. item \in [status : ItemState, root : Root]
      BY <1>1, <3>2, RowsAreNamed DEF Formed
    <3> QED
      BY <3>1, <3>3 DEF ItemState
  <2> QED
    BY <2>1 DEF Post, Ask, Select, Stores
<1>4. row.queued => item' # NoItem
  BY <1>1, <1>3, RowsAreNamed DEF QueuedHasItem
<1>5. \E step \in {"select", "insert", "look", "enqueue"}, held \in {NoRow, row} :
         /\ Hold(c, step, held)
         /\ step = "look" => held = row /\ row.queued
  BY DEF Post, Ask, Retry, Cancel, Requeue, Select
<1>6. PICK step \in {"select", "insert", "look", "enqueue"}, held \in {NoRow, row} :
         /\ Hold(c, step, held)
         /\ step = "look" => held = row /\ row.queued
  BY <1>5
<1>7. step \in Request /\ held \in Row \cup {NoRow}
  BY <1>1 DEF Request, Formed
<1>8. /\ req' \in [Clients -> [step : Request, held : Row \cup {NoRow}, moved : Moved]]
      /\ req'[c].step = step /\ req'[c].held = held
      /\ \A d \in Clients : d # c => req'[d] = req[d]
  BY <1>1, <1>6, <1>7, HoldMoves
<1>9. req'[c].held.queued => item' # NoItem
  BY <1>4, <1>8, RowsAreNamed
<1>10. step \in PastHandoff => held.queued
  BY <1>6 DEF PastHandoff
<1>11. step \notin Composing
  BY DEF Composing
<1> QED
  BY <1>2, <1>3, <1>8, <1>9, <1>10, <1>11, RequestsKeptByMove

\* The row appears in the hands of the request that inserts it.
LEMMA InsertKeeps ==
  ASSUME RequestsSound, NEW c \in Clients, Insert(c)
  PROVE  RequestsSound'
<1>1. Formed
  BY DEF RequestsSound
<1>2. CASE row # NoRow
  <2>1. /\ req' \in [Clients -> [step : Request, held : Row \cup {NoRow}, moved : Moved]]
        /\ req'[c].step = "idle" /\ req'[c].held = NoRow
        /\ \A d \in Clients : d # c => req'[d] = req[d]
    BY <1>1, <1>2, AnswerMoves DEF Insert
  <2> QED
    BY <1>2, <2>1, RowsAreNamed, RequestsKeptByMove DEF Insert, PastHandoff, Composing
<1>3. CASE row = NoRow
  <2>1. "enqueue" \in Request /\ Compiled \in Row \cup {NoRow}
    BY RowsAreNamed DEF Request
  <2>2. /\ req' \in [Clients -> [step : Request, held : Row \cup {NoRow}, moved : Moved]]
        /\ req'[c].step = "enqueue" /\ req'[c].held = Compiled
        /\ \A d \in Clients : d # c => req'[d] = req[d]
    BY <1>1, <1>3, <2>1, HoldMoves DEF Insert
  <2>3. row' = Compiled /\ UNCHANGED <<item, draft, torn, restarted>> /\ req[c].step = "insert"
    BY <1>3 DEF Insert
  <2>4. Formed'
    BY <1>1, <2>1, <2>2, <2>3 DEF Formed
  <2>5. Named' /\ Located'
    BY <2>2 DEF RequestsSound, Named, Located, Holds, PastHandoff, Composing
  <2>6. QueuedHasItem' /\ HandoffUnderWay'
    BY <2>2, <2>3, RowsAreNamed DEF RequestsSound, QueuedHasItem, HandoffUnderWay, Holds
  <2>7. \A d \in Clients : \A moved, r : Writes(d, moved, r) => Writes(d, moved, r)'
    BY <2>2, <2>3 DEF Writes, Holds
  <2>8. Drafted'
    BY <2>3, <2>7 DEF RequestsSound, Drafted
  <2>9. TornIsFilled'
    BY <2>3, <2>7 DEF RequestsSound, TornIsFilled, Writes
  <2> QED
    BY <2>4, <2>5, <2>6, <2>8, <2>9 DEF RequestsSound
<1> QED
  BY <1>2, <1>3

\* The handoff: the job is in the queue before the row says so.
LEMMA HandoffKeeps ==
  ASSUME RequestsSound, NEW c \in Clients, Enqueue(c) \/ Save(c)
  PROVE  RequestsSound'
<1>1. Formed /\ Named /\ QueuedHasItem
  BY DEF RequestsSound
<1>2. Holds(c) \in Row \cup {NoRow}
  BY <1>1 DEF Formed, Holds
<1>3. UNCHANGED <<draft, torn, restarted>> /\ req[c].step \in {"enqueue", "save"}
  BY DEF Enqueue, Save
<1>4. CASE Enqueue(c)
  <2> DEFINE held == [Holds(c) EXCEPT !.status = "QUEUED", !.queued = TRUE]
  <2> DEFINE Wide == [status : {"none"} \cup {x.status : x \in Row}, queued : BOOLEAN,
                      root : Root, pages : Root]
  <2>1. Holds(c) \in Wide
    <3>1. CASE Holds(c) \in Row
      BY <3>1 DEF Row
    <3>2. CASE Holds(c) = NoRow
      BY <3>2, WorkflowAssumption DEF NoRow, Root, WorkflowAssumption
    <3> QED
      BY <1>2, <3>1, <3>2
  <2>2. held \in Row /\ held.queued
    <3>1. \A x \in Wide : [x EXCEPT !.status = "QUEUED", !.queued = TRUE] \in Row
      BY DEF Row
    <3>2. \A x \in Wide : [x EXCEPT !.status = "QUEUED", !.queued = TRUE].queued
      OBVIOUS
    <3> QED
      BY <2>1, <3>1, <3>2
  <2>3. "save" \in Request /\ Hold(c, "save", held)
    BY <1>4 DEF Request, Enqueue
  <2> HIDE DEF held
  <2>4. /\ req' \in [Clients -> [step : Request, held : Row \cup {NoRow}, moved : Moved]]
        /\ req'[c].step = "save" /\ req'[c].held = held
        /\ \A d \in Clients : d # c => req'[d] = req[d]
    BY <1>1, <2>2, <2>3, HoldMoves
  <2>5. /\ UNCHANGED row
        /\ item' = item \/ item' = [status |-> "pending", root |-> 0]
        /\ item' \in [status : ItemState, root : Root] \/ item' = item
        /\ item' # NoItem
    BY <1>4, WorkflowAssumption DEF Enqueue, NoItem, ItemState, Root, WorkflowAssumption
  <2>6. Formed'
    BY <1>1, <1>3, <2>4, <2>5 DEF Formed
  <2>7. Named' /\ Located'
    BY <2>2, <2>4 DEF RequestsSound, Named, Located, Holds, Composing
  <2>8. QueuedHasItem'
    BY <2>5 DEF QueuedHasItem
  <2>9. HandoffUnderWay'
    BY <1>3, <2>4, <2>5 DEF RequestsSound, HandoffUnderWay
  <2>10. \A d \in Clients : \A moved, r : Writes(d, moved, r) => Writes(d, moved, r)'
    BY <1>3, <2>4 DEF Writes, Holds
  <2>11. Drafted'
    BY <1>3, <2>10 DEF RequestsSound, Drafted
  <2>12. TornIsFilled'
    BY <1>3, <2>10 DEF RequestsSound, TornIsFilled, Writes
  <2> QED
    BY <2>6, <2>7, <2>8, <2>9, <2>11, <2>12 DEF RequestsSound
<1>5. CASE Save(c)
  <2>1. /\ req' \in [Clients -> [step : Request, held : Row \cup {NoRow}, moved : Moved]]
        /\ req'[c].step = "idle" /\ req'[c].held = NoRow
        /\ \A d \in Clients : d # c => req'[d] = req[d]
    BY <1>1, <1>5, AnswerMoves DEF Save
  <2>2. row' = Holds(c) /\ UNCHANGED item /\ Holds(c).queued
    BY <1>1, <1>5 DEF Save, Named, PastHandoff
  <2>3. Formed'
    BY <1>1, <1>2, <1>3, <2>1, <2>2 DEF Formed
  <2>4. Named' /\ Located'
    BY <2>1 DEF RequestsSound, Named, Located, Holds, Composing, PastHandoff
  <2>5. QueuedHasItem' /\ HandoffUnderWay'
    BY <1>1, <2>1, <2>2, RowsAreNamed DEF QueuedHasItem, HandoffUnderWay, Holds
  <2>6. \A d \in Clients : \A moved, r : Writes(d, moved, r) => Writes(d, moved, r)'
    BY <1>3, <2>1 DEF Writes, Holds
  <2>7. Drafted'
    BY <1>3, <2>6 DEF RequestsSound, Drafted
  <2>8. TornIsFilled'
    BY <1>3, <2>6 DEF RequestsSound, TornIsFilled, Writes
  <2> QED
    BY <2>3, <2>4, <2>5, <2>7, <2>8 DEF RequestsSound
<1> QED
  BY <1>4, <1>5

\* A request that reads (the queue, a result) and touches no store.
LEMMA ReadingKeeps ==
  ASSUME RequestsSound, NEW c \in Clients, Look(c) \/ Measure(c)
  PROVE  RequestsSound'
<1>1. Formed /\ Named /\ Located /\ QueuedHasItem
  BY DEF RequestsSound
<1>2. /\ UNCHANGED <<row, item, draft, torn, restarted>>
      /\ req[c].step \in {"look", "measure"} /\ Holds(c).queued
  BY <1>1 DEF Look, Measure, Stores, Named, PastHandoff
<1>3. Holds(c) \in Row
  BY <1>1, <1>2, RowsAreNamed DEF Formed, Holds
<1>4. ASSUME Answer(c)
      PROVE  RequestsSound'
  <2>1. /\ req' \in [Clients -> [step : Request, held : Row \cup {NoRow}, moved : Moved]]
        /\ req'[c].step = "idle" /\ req'[c].held = NoRow
        /\ \A d \in Clients : d # c => req'[d] = req[d]
    BY <1>1, <1>4, AnswerMoves
  <2> QED
    BY <1>2, <2>1, RowsAreNamed, RequestsKeptByMove DEF PastHandoff, Composing
<1>5. ASSUME NEW step \in {"save", "compose", "measure"}, NEW held \in Row, held.queued,
             Hold(c, step, held), step = "compose" => held.root \in 1..MaxRuns
      PROVE  RequestsSound'
  <2>1. /\ req' \in [Clients -> [step : Request, held : Row \cup {NoRow}, moved : Moved]]
        /\ req'[c].step = step /\ req'[c].held = held
        /\ \A d \in Clients : d # c => req'[d] = req[d]
    BY <1>1, <1>5, HoldMoves DEF Request
  <2>2. item' # NoItem
    BY <1>1, <1>2 DEF QueuedHasItem
  <2> QED
    BY <1>2, <1>5, <2>1, <2>2, RequestsKeptByMove DEF PastHandoff, Composing
<1>6. CASE Measure(c)
  BY <1>2, <1>3, <1>4, <1>5, <1>6 DEF Measure
<1>7. CASE Look(c)
  <2> DEFINE shown == Shown[item.status]
             root == IF item.root # 0 THEN item.root ELSE Holds(c).root
             viewed == [Holds(c) EXCEPT !.status = Shown[item.status],
                                      !.root = IF item.root # 0 THEN item.root ELSE @]
  <2>1. item \in [status : ItemState, root : Root]
    BY <1>1, <1>2 DEF Formed, QueuedHasItem
  <2>2. /\ shown \in {"QUEUED", "RUNNING", "SUCCEEDED", "FAILED", "CANCELLED"}
        /\ shown = "SUCCEEDED" => item.status = "succeeded"
    BY <2>1 DEF Shown, ItemState
  <2>3. root \in Root /\ (shown = "SUCCEEDED" => root \in 1..MaxRuns)
    BY <1>1, <1>3, <2>1, <2>2, WorkflowAssumption DEF Formed, Row, Root, WorkflowAssumption
  <2>4. viewed = [Holds(c) EXCEPT !.status = shown, !.root = root]
    OBVIOUS
  <2> HIDE DEF shown, root, viewed
  <2>5. viewed \in Row /\ viewed.queued /\ viewed.root = root /\ viewed.status = shown
    BY <1>2, <1>3, <2>2, <2>3, <2>4 DEF Row
  <2>6. \/ Answer(c)
        \/ /\ viewed.status # "SUCCEEDED" /\ Hold(c, "save", viewed)
        \/ /\ viewed.status = "SUCCEEDED" /\ Hold(c, "compose", viewed)
        \/ /\ viewed.status = "SUCCEEDED" /\ Hold(c, "measure", viewed)
    <3>1. Answer(c) \/ Hold(c, CASE viewed.status # "SUCCEEDED" -> "save"
                                 [] viewed.status = "SUCCEEDED" /\ viewed.pages = 0 -> "compose"
                                 [] OTHER -> "measure", viewed)
      BY <1>7 DEF Look, viewed
    <3>2. CASE viewed.status # "SUCCEEDED"
      BY <3>1, <3>2 DEF Hold
    <3>3. CASE viewed.status = "SUCCEEDED" /\ viewed.pages = 0
      BY <3>1, <3>3 DEF Hold
    <3>4. CASE viewed.status = "SUCCEEDED" /\ viewed.pages # 0
      BY <3>1, <3>4 DEF Hold
    <3> QED
      BY <3>2, <3>3, <3>4
  <2> QED
    BY <1>4, <1>5, <2>3, <2>5, <2>6
<1> QED
  BY <1>6, <1>7

\* The draft is opened by a request that now is to fill it.
LEMMA ComposeKeeps ==
  ASSUME RequestsSound, NEW c \in Clients, Compose(c)
  PROVE  RequestsSound'
<1> DEFINE r == Holds(c).root
<1>1. Formed /\ Named /\ Located /\ QueuedHasItem
  BY DEF RequestsSound
<1>2. /\ UNCHANGED <<row, item, torn, restarted>>
      /\ req[c].step = "compose" /\ Holds(c).queued /\ r \in 1..MaxRuns
  BY <1>1 DEF Compose, Named, PastHandoff, Located, Composing
<1>3. CASE Answer(c) /\ UNCHANGED draft
  <2>1. /\ req' \in [Clients -> [step : Request, held : Row \cup {NoRow}, moved : Moved]]
        /\ req'[c].step = "idle" /\ req'[c].held = NoRow
        /\ \A d \in Clients : d # c => req'[d] = req[d]
    BY <1>1, <1>3, AnswerMoves
  <2> QED
    BY <1>2, <1>3, <2>1, RowsAreNamed, RequestsKeptByMove DEF PastHandoff, Composing
<1>4. CASE Hold(c, "fill", Holds(c)) /\ draft' = [draft EXCEPT ![r] = "part"]
  <2>1. "fill" \in Request /\ Holds(c) \in Row \cup {NoRow}
    BY <1>1 DEF Request, Formed, Holds
  <2>2. /\ req' \in [Clients -> [step : Request, held : Row \cup {NoRow}, moved : Moved]]
        /\ req'[c].step = "fill" /\ req'[c].held = Holds(c) /\ req'[c].moved = "no"
        /\ \A d \in Clients : d # c => req'[d] = req[d]
    BY <1>1, <1>4, <2>1, HoldMoves
  <2>3. Formed'
    BY <1>1, <1>2, <1>4, <2>2 DEF Formed
  <2>4. (Named /\ Located /\ QueuedHasItem)'
    BY <1>1, <1>2, <2>2 DEF Named, Located, QueuedHasItem, Holds
  <2>5. HandoffUnderWay'
    BY <1>2, <2>2 DEF RequestsSound, HandoffUnderWay
  <2>6. \A d \in Clients : \A moved, q : Writes(d, moved, q) => Writes(d, moved, q)'
    BY <1>2, <2>2 DEF Writes, Holds
  <2>8. Drafted'
    <3> SUFFICES ASSUME NEW q \in 1..MaxRuns, draft'[q] = "part", ~restarted
                 PROVE  \E d \in Clients : Writes(d, "no", q)'
      BY <1>2 DEF Drafted
    <3>1. CASE q = r
      BY <3>1, <2>2 DEF Writes, Holds
    <3>2. CASE q # r
      BY <3>2, <1>1, <1>4, <2>6 DEF Formed, RequestsSound, Drafted
    <3> QED
      BY <3>1, <3>2
  <2>9. TornIsFilled'
    BY <1>2, <2>6 DEF RequestsSound, TornIsFilled, Writes
  <2> QED
    BY <2>3, <2>4, <2>5, <2>8, <2>9 DEF RequestsSound
<1> QED
  BY <1>3, <1>4 DEF Compose

\* What is filled is the draft, the result, or a file nobody can read.
LEMMA FillKeeps ==
  ASSUME RequestsSound, NEW c \in Clients, Fill(c)
  PROVE  RequestsSound'
<1> DEFINE r == Holds(c).root
<1>1. Formed /\ Named /\ Located /\ QueuedHasItem
  BY DEF RequestsSound
<1>2. /\ UNCHANGED <<row, item, restarted>> /\ req[c].step = "fill" /\ Holds(c).queued
      /\ r \in 1..MaxRuns /\ Hold(c, "replace", Holds(c))
      /\ draft' = IF req[c].moved = "no" THEN [draft EXCEPT ![r] = "full"] ELSE draft
      /\ torn' = IF req[c].moved = "current" THEN torn \ {r} ELSE torn
  BY <1>1 DEF Fill, Named, PastHandoff, Located, Composing
<1>3. "replace" \in Request /\ Holds(c) \in Row \cup {NoRow}
  BY <1>1 DEF Request, Formed, Holds
<1>4. /\ req' \in [Clients -> [step : Request, held : Row \cup {NoRow}, moved : Moved]]
      /\ req'[c].step = "replace" /\ req'[c].held = Holds(c)
      /\ \A d \in Clients : d # c => req'[d] = req[d]
  BY <1>1, <1>2, <1>3, HoldMoves
<1>5. Formed'
  BY <1>1, <1>2, <1>4 DEF Formed
<1>6. (Named /\ Located /\ QueuedHasItem)'
  BY <1>1, <1>2, <1>4 DEF Named, Located, QueuedHasItem, Holds
<1>7. HandoffUnderWay'
  BY <1>2, <1>4 DEF RequestsSound, HandoffUnderWay
<1>8. \A d \in Clients : \A moved, q : d # c /\ Writes(d, moved, q) => Writes(d, moved, q)'
  BY <1>4 DEF Writes, Holds
<1>9. Drafted'
  <2> SUFFICES ASSUME NEW q \in 1..MaxRuns, draft'[q] = "part", ~restarted
               PROVE  \E d \in Clients : Writes(d, "no", q)'
    BY <1>2 DEF Drafted
  <2>1. draft[q] = "part" /\ ~(req[c].moved = "no" /\ q = r)
    BY <1>1, <1>2 DEF Formed
  <2>2. PICK d \in Clients : Writes(d, "no", q)
    BY <2>1 DEF RequestsSound, Drafted
  <2>3. d # c
    BY <2>1, <2>2 DEF Writes
  <2> QED
    BY <2>2, <2>3, <1>8
<1>10. TornIsFilled'
  <2> SUFFICES ASSUME NEW q \in torn', ~restarted
               PROVE  \E d \in Clients : Writes(d, "current", q)'
    BY <1>2 DEF TornIsFilled, Writes
  <2>1. q \in torn /\ ~(req[c].moved = "current" /\ q = r)
    BY <1>2
  <2>2. PICK d \in Clients : Writes(d, "current", q)
    BY <2>1 DEF RequestsSound, TornIsFilled, Writes
  <2>3. d # c
    BY <2>1, <2>2 DEF Writes
  <2> QED
    BY <2>2, <2>3, <1>8
<1> QED
  BY <1>5, <1>6, <1>7, <1>9, <1>10 DEF RequestsSound

\* The draft becomes result.json under the hands of those who still fill it.
LEMMA ReplaceKeeps ==
  ASSUME RequestsSound, NEW c \in Clients, Replace(c)
  PROVE  RequestsSound'
<1> DEFINE r == Holds(c).root
<1>1. Formed /\ Named /\ Located /\ QueuedHasItem
  BY DEF RequestsSound
<1>2. /\ UNCHANGED <<row, item, restarted>>
      /\ req[c].step = "replace" /\ Holds(c).queued /\ r \in 1..MaxRuns
  BY <1>1 DEF Replace, Named, PastHandoff, Located, Composing
<1>3. CASE draft[r] = "none"
  <2>1. Answer(c) /\ UNCHANGED <<draft, torn>>
    BY <1>3 DEF Replace
  <2>2. /\ req' \in [Clients -> [step : Request, held : Row \cup {NoRow}, moved : Moved]]
        /\ req'[c].step = "idle" /\ req'[c].held = NoRow
        /\ \A d \in Clients : d # c => req'[d] = req[d]
    BY <1>1, <2>1, AnswerMoves
  <2> QED
    BY <1>2, <2>1, <2>2, RowsAreNamed, RequestsKeptByMove DEF PastHandoff, Composing
<1>4. CASE draft[r] # "none"
  <2> DEFINE mine == [req[c] EXCEPT !.step = "measure", !.held.pages = r]
             under(d) == req[d].step = "fill" /\ Holds(d).root = r
             theirs(d) == [req[d] EXCEPT !.moved = IF @ = "no" THEN "current" ELSE "gone"]
  <2>1. /\ draft' = [draft EXCEPT ![r] = "none"]
        /\ torn' = IF draft[r] = "part" THEN torn \cup {r} ELSE torn \ {r}
        /\ req' = [d \in Clients |-> IF d = c THEN mine
                                     ELSE IF under(d) THEN theirs(d) ELSE req[d]]
    BY <1>4 DEF Replace
  <2>2. /\ mine \in [step : Request, held : Row \cup {NoRow}, moved : Moved]
        /\ mine.step = "measure" /\ mine.held.queued /\ mine.held \in Row
    <3>1. req[c] \in [step : Request, held : Row \cup {NoRow}, moved : Moved] /\ req[c].held \in Row
      BY <1>1, <1>2, RowsAreNamed DEF Formed, Holds
    <3>2. r \in Root
      BY <1>2, WorkflowAssumption DEF Root, WorkflowAssumption
    <3> DEFINE held == [req[c].held EXCEPT !.pages = r]
    <3>3. held \in Row /\ held.queued
      BY <1>2, <3>1, <3>2 DEF Row, Holds
    <3>4. mine = [req[c] EXCEPT !.step = "measure", !.held = held]
      OBVIOUS
    <3> HIDE DEF held, mine
    <3>5. "measure" \in Request
      BY DEF Request
    <3> QED
      BY <3>1, <3>3, <3>4, <3>5
  <2>3. ASSUME NEW d \in Clients, d # c
        PROVE  /\ theirs(d) \in [step : Request, held : Row \cup {NoRow}, moved : Moved]
               /\ theirs(d).step = req[d].step /\ theirs(d).held = req[d].held
               /\ theirs(d).moved = IF req[d].moved = "no" THEN "current" ELSE "gone"
    <3>1. req[d] \in [step : Request, held : Row \cup {NoRow}, moved : Moved]
      BY <1>1 DEF Formed
    <3> DEFINE m == IF req[d].moved = "no" THEN "current" ELSE "gone"
    <3>2. m \in Moved /\ theirs(d) = [req[d] EXCEPT !.moved = m]
      BY DEF Moved
    <3> HIDE DEF m
    <3>3. /\ [req[d] EXCEPT !.moved = m] \in [step : Request, held : Row \cup {NoRow}, moved : Moved]
          /\ [req[d] EXCEPT !.moved = m].step = req[d].step
          /\ [req[d] EXCEPT !.moved = m].held = req[d].held
          /\ [req[d] EXCEPT !.moved = m].moved = m
      BY <3>1, <3>2
    <3> QED
      BY <3>2, <3>3 DEF m
  <2> HIDE DEF mine, theirs
  <2>4. /\ req' \in [Clients -> [step : Request, held : Row \cup {NoRow}, moved : Moved]]
        /\ req'[c] = mine
        /\ \A d \in Clients : d # c => req'[d] = IF under(d) THEN theirs(d) ELSE req[d]
    BY <1>1, <2>1, <2>2, <2>3 DEF Formed
  <2>5. \A d \in Clients : d # c => req'[d].step = req[d].step /\ req'[d].held = req[d].held
    BY <2>3, <2>4
  <2>6. Formed'
    BY <1>1, <1>2, <2>1, <2>4 DEF Formed
  <2>7. (Named /\ Located /\ QueuedHasItem)'
    BY <1>1, <1>2, <2>2, <2>4, <2>5 DEF Named, Located, QueuedHasItem, Holds, Composing
  <2>8. HandoffUnderWay'
    BY <1>2, <2>5 DEF RequestsSound, HandoffUnderWay
  <2>9. \A d \in Clients : \A moved, q : q # r /\ Writes(d, moved, q) => Writes(d, moved, q)'
    <3> SUFFICES ASSUME NEW d \in Clients, NEW moved, NEW q, q # r, Writes(d, moved, q)
                 PROVE  Writes(d, moved, q)'
      OBVIOUS
    <3>1. d # c /\ ~under(d)
      BY <1>2 DEF Writes
    <3>2. req'[d] = req[d]
      BY <2>4, <3>1
    <3> QED
      BY <3>2 DEF Writes, Holds
  <2>10. Drafted'
    <3> SUFFICES ASSUME NEW q \in 1..MaxRuns, draft'[q] = "part", ~restarted
                 PROVE  \E d \in Clients : Writes(d, "no", q)'
      BY <1>2 DEF Drafted
    <3>1. q # r /\ draft[q] = "part"
      BY <1>1, <1>2, <2>1 DEF Formed
    <3> QED
      BY <3>1, <2>9 DEF RequestsSound, Drafted
  <2>11. TornIsFilled'
    <3> SUFFICES ASSUME NEW q \in torn', ~restarted
                 PROVE  \E d \in Clients : Writes(d, "current", q)'
      BY <1>2 DEF TornIsFilled, Writes
    <3>1. CASE q = r
      <4>1. draft[r] = "part"
        BY <2>1, <3>1
      <4>2. PICK d \in Clients : Writes(d, "no", r)
        BY <1>2, <4>1 DEF RequestsSound, Drafted
      <4>3. d # c /\ under(d) /\ req[d].moved = "no"
        BY <1>2, <4>2 DEF Writes
      <4>4. req'[d].step = "fill" /\ req'[d].moved = "current" /\ req'[d].held.root = q
        BY <2>3, <2>4, <3>1, <4>3 DEF Holds
      <4> QED
        BY <4>4 DEF Writes, Holds
    <3>2. CASE q # r
      <4>1. q \in torn
        BY <2>1, <3>2
      <4>2. PICK d \in Clients : Writes(d, "current", q)
        BY <4>1 DEF RequestsSound, TornIsFilled, Writes
      <4> QED
        BY <3>2, <4>2, <2>9
    <3> QED
      BY <3>1, <3>2
  <2> QED
    BY <2>6, <2>7, <2>8, <2>10, <2>11 DEF RequestsSound
<1> QED
  BY <1>3, <1>4

\* A restart ends every request, and is remembered.
LEMMA RestartKeeps ==
  ASSUME RequestsSound, Restart
  PROVE  RequestsSound'
<1>1. /\ NoRequest.step = "idle" /\ NoRequest.held = NoRow
      /\ NoRequest \in [step : Request, held : Row \cup {NoRow}, moved : Moved]
  BY DEF NoRequest, Request, Moved
<1>2. /\ UNCHANGED <<row, item, draft, torn>> /\ restarted' = TRUE
      /\ req' = [c \in Clients |-> NoRequest]
  BY DEF Restart, Stores
<1>3. Formed'
  BY <1>1, <1>2 DEF RequestsSound, Formed
<1>4. (Named /\ Located)'
  BY <1>1, <1>2 DEF Named, Located, PastHandoff, Composing
<1>5. QueuedHasItem'
  BY <1>1, <1>2, RowsAreNamed DEF RequestsSound, QueuedHasItem, Holds
<1>6. (HandoffUnderWay /\ Drafted /\ TornIsFilled)'
  BY <1>2 DEF HandoffUnderWay, Drafted, TornIsFilled
<1> QED
  BY <1>3, <1>4, <1>5, <1>6 DEF RequestsSound

\* The queue's record changes its state; it succeeds with the directory of a worker.
LEMMA ItemKeeps ==
  ASSUME RequestsSound, WorkersSound,
         Recover \/ \E w \in Workers : Claim(w) \/ Succeed(w) \/ Fail(w)
  PROVE  RequestsSound'
<1>1. UNCHANGED <<row, draft, torn, req, restarted>>
  BY DEF Recover, Claim, Succeed, Fail
<1>2. \/ item' = item
      \/ /\ item.status \in {"pending", "running"}
         /\ \/ \E to \in {"pending", "running", "failed"} : item' = [item EXCEPT !.status = to]
            \/ \E w \in Workers : at[w].step = "succeed" /\ item' = [status |-> "succeeded", root |-> Run(w)]
  BY DEF Recover, Claim, Succeed, Fail
<1>3. CASE item' = item
  BY <1>1, <1>3 DEF RequestsSound, Formed, Named, Located, QueuedHasItem, HandoffUnderWay,
                    Drafted, TornIsFilled, Holds, Writes
<1>4. ASSUME NEW to \in {"pending", "running", "failed"}, item' = [item EXCEPT !.status = to],
             item.status \in {"pending", "running"}
      PROVE  RequestsSound'
  <2>1. item \in [status : ItemState, root : Root]
    BY <1>4, RowsAreNamed DEF RequestsSound, Formed, NoItem
  <2>2. item' \in [status : ItemState, root : Root] /\ item'.status = to
    BY <1>4, <2>1 DEF ItemState
  <2> QED
    BY <1>1, <1>4, <2>2, RequestsKeptByItem
<1>5. ASSUME NEW w \in Workers, at[w].step = "succeed",
             item' = [status |-> "succeeded", root |-> Run(w)]
      PROVE  RequestsSound'
  <2>1. Run(w) \in 1..MaxRuns /\ Run(w) \in Root
    BY <1>5, DirectoriesFit, WorkflowAssumption
       DEF WorkersSound, Succeeding, Root, WorkflowAssumption
  <2>2. item' \in [status : ItemState, root : Root] /\ item'.root \in 1..MaxRuns
    BY <1>5, <2>1 DEF ItemState
  <2> QED
    BY <1>1, <2>2, RequestsKeptByItem
<1> QED
  BY <1>2, <1>3, <1>4, <1>5

LEMMA RequestsKept ==
  WorkersSound /\ RequestsSound /\ [Next]_vars => RequestsSound'
<1> SUFFICES ASSUME WorkersSound, RequestsSound, [Next]_vars PROVE RequestsSound'
  OBVIOUS
<1>1. CASE UNCHANGED <<row, item, draft, torn, req, restarted>>
  BY <1>1 DEF RequestsSound, Formed, Named, Located, QueuedHasItem, HandoffUnderWay,
              Drafted, TornIsFilled, Holds, Writes
<1>2. ASSUME NEW c \in Clients, Post(c) \/ Ask(c) \/ Retry(c) \/ Cancel(c) \/ ClientStep(c)
      PROVE  RequestsSound'
  BY <1>2, PostKeeps, InsertKeeps, HandoffKeeps, ReadingKeeps, ComposeKeeps, FillKeeps, ReplaceKeeps
     DEF ClientStep
<1>3. ASSUME NEW w \in Workers, Claim(w) \/ WorkerStep(w) \/ CrashWorker(w)
      PROVE  RequestsSound'
  <2>1. CASE Claim(w) \/ Succeed(w) \/ Fail(w)
    BY <2>1, ItemKeeps
  <2>2. CASE Works(w) \/ LoadFails(w) \/ CrashWorker(w)
    BY <2>2, <1>1 DEF Works, LoadFails, CrashWorker, Stores
  <2> QED
    BY <1>3, <2>1, <2>2 DEF WorkerStep
<1>4. CASE Recover
  BY <1>4, ItemKeeps
<1>5. CASE Restart
  BY <1>5, RestartKeeps
<1>6. CASE UNCHANGED vars
  BY <1>6, <1>1 DEF vars
<1> QED
  BY <1>2, <1>3, <1>4, <1>5, <1>6 DEF Next

-----------------------------------------------------------------------------
(* How far an execution has come *)

\* A run directory lists targets of the plan, and a shot it lists passed the visual QA.
Filed ==
    /\ runs \in Seq(Directory(plan.parent))
    /\ \A r \in DOMAIN runs : runs[r].done \cap Shots \subseteq runs[r].passed

\* What is recorded are the targets before the one the worker is at.
Drawing(w) ==
    at[w].step \in {"draw", "judge"} =>
        /\ at[w].next \in 1..Len(Targets)
        /\ runs[Run(w)].done = {Targets[i] : i \in 1..(at[w].next - 1)}

\* The calls for a target are those of its repairs and of its tries since the last of them.
Counting(w) ==
    /\ at[w].step = "draw" =>
          /\ at[w].tries < Attempts /\ at[w].repairs <= MaxRepairs
          /\ at[w].repairs > 0 => IsShot(Target(w))
          /\ at[w].calls <= at[w].repairs * Attempts + at[w].tries
    /\ at[w].step = "judge" =>
          /\ IsShot(Target(w)) /\ at[w].repairs <= MaxRepairs
          /\ at[w].calls <= (at[w].repairs + 1) * Attempts
    /\ at[w].step \notin {"draw", "judge"} => at[w].calls = 0

ProgressSound == Planned /\ Filed /\ \A w \in Workers : Drawing(w) /\ Counting(w)

LEMMA Multiples ==
  ASSUME NEW a \in Nat, NEW b \in Nat, NEW c \in Nat
  PROVE  /\ b * a \in Nat /\ (b + 1) * a = b * a + a /\ a * b = b * a /\ 0 * a = 0
         /\ b <= c => b * a <= c * a
<1>1. b * a \in Nat /\ (b + 1) * a = b * a + a /\ a * b = b * a /\ 0 * a = 0
  OBVIOUS
<1>2. ASSUME b <= c
      PROVE  b * a <= c * a
  <2> DEFINE d == c - b
  <2>1. d \in Nat /\ c = b + d
    BY <1>2
  <2> HIDE DEF d
  <2>2. d * a >= 0
    BY <2>1
  <2>3. c * a = b * a + d * a
    BY <2>1
  <2>4. b * a \in Nat /\ d * a \in Int /\ c * a \in Int
    BY <2>1
  <2> QED
    BY <2>2, <2>3, <2>4
<1> QED
  BY <1>1, <1>2

LEMMA ProgressInitially == Init => ProgressSound
<1> SUFFICES ASSUME Init PROVE ProgressSound
  OBVIOUS
<1>1. Planned
  BY DEF Init, Planned
<1>2. Filed
  BY DEF Init, Filed
<1>3. \A w \in Workers : at[w].step = "idle" /\ at[w].calls = 0
  BY DEF Init, Stand
<1> QED
  BY <1>1, <1>2, <1>3 DEF ProgressSound, Drawing, Counting

\* The directories stay in order when one is made, and when one is rewritten.
LEMMA FiledByOpening ==
  ASSUME Planned, Filed, UNCHANGED plan, runs' = Append(runs, NewDirectory)
  PROVE  Filed'
<1> DEFINE D == Directory(plan.parent)
<1>1. NewDirectory \in D /\ NewDirectory.done = {}
  BY DEF NewDirectory, Directory
<1>2. runs \in Seq(D)
  BY DEF Filed
<1> HIDE DEF D
<1>3. /\ runs' \in Seq(D) /\ DOMAIN runs = 1..Len(runs) /\ DOMAIN runs' = 1..(Len(runs) + 1)
      /\ Len(runs) \in Nat
      /\ \A r \in 1..Len(runs) : runs'[r] = runs[r]
      /\ runs'[Len(runs) + 1] = NewDirectory
  BY <1>1, <1>2
<1>4. \A r \in DOMAIN runs' : (r \in DOMAIN runs /\ runs'[r] = runs[r]) \/ runs'[r] = NewDirectory
  BY <1>3
<1>5. \A r \in DOMAIN runs' : runs'[r].done \cap Shots \subseteq runs'[r].passed
  BY <1>1, <1>4 DEF Filed
<1> QED
  BY <1>3, <1>5 DEF Filed, D, Shots

LEMMA FiledByWriting ==
  ASSUME Filed, UNCHANGED plan, NEW r \in DOMAIN runs, NEW d \in Directory(plan.parent),
         d.done \cap Shots \subseteq d.passed, runs' = [runs EXCEPT ![r] = d]
  PROVE  Filed' /\ runs'[r] = d /\ \A q \in DOMAIN runs : q # r => runs'[q] = runs[q]
<1> DEFINE D == Directory(plan.parent)
<1>1. runs \in Seq(D) /\ d \in D
  BY DEF Filed
<1> HIDE DEF D
<1>2. /\ runs' \in Seq(D) /\ DOMAIN runs' = DOMAIN runs
      /\ runs'[r] = d /\ \A q \in DOMAIN runs : q # r => runs'[q] = runs[q]
  BY <1>1
<1>3. \A q \in DOMAIN runs' : runs'[q].done \cap Shots \subseteq runs'[q].passed
  BY <1>2 DEF Filed
<1> QED
  BY <1>2, <1>3 DEF Filed, D, Shots

\* One worker goes on; the others and their directories are as before.
LEMMA OneProceeds ==
  ASSUME WorkersSound, ProgressSound, UNCHANGED plan, NEW w \in Workers,
         \A v \in Workers : v # w => at'[v] = at[v],
         \A v \in Workers : v # w /\ Busy(v) => runs'[Run(v)] = runs[Run(v)],
         Filed', Drawing(w)', Counting(w)'
  PROVE  ProgressSound'
<1>1. Planned'
  BY DEF ProgressSound, Planned
<1>2. ASSUME NEW v \in Workers, v # w
      PROVE  Drawing(v)' /\ Counting(v)'
  <2>1. Drawing(v) /\ Counting(v) /\ at'[v] = at[v]
    BY <1>2 DEF ProgressSound
  <2>2. Targets' = Targets /\ Shots' = Shots /\ Run(v)' = Run(v) /\ Target(v)' = Target(v)
    BY <2>1 DEF Targets, Shots, Run, Target
  <2>3. Counting(v)'
    BY <2>1, <2>2 DEF Counting, IsShot
  <2>4. Drawing(v)'
    BY <1>2, <2>1, <2>2 DEF Drawing, Busy
  <2> QED
    BY <2>3, <2>4
<1> QED
  BY <1>1, <1>2 DEF ProgressSound

\* A worker that is not at a target has nothing to account for.
LEMMA StandingStill ==
  ASSUME NEW w \in Workers, NEW step, step \notin {"draw", "judge"}, NEW r,
         at \in [Workers -> Standing], at' = [at EXCEPT ![w] = Stand(step, r)]
  PROVE  Drawing(w)' /\ Counting(w)'
<1>1. at'[w].step = step /\ at'[w].calls = 0
  BY DEF Stand
<1> QED
  BY <1>1 DEF Drawing, Counting

LEMMA OpenProgresses ==
  ASSUME WorkersSound, ProgressSound, NEW w \in Workers, Open(w)
  PROVE  ProgressSound'
<1>1. /\ UNCHANGED plan /\ runs' = Append(runs, NewDirectory)
      /\ at' = [at EXCEPT ![w] = Stand("draw", Len(runs) + 1)]
      /\ at \in [Workers -> Standing] /\ Planned /\ Filed
  BY DEF Open, WorkersSound, ProgressSound
<1>2. Filed'
  BY <1>1, FiledByOpening
<1>3. /\ at'[w].step = "draw" /\ at'[w].run = Len(runs) + 1 /\ at'[w].next = 1
      /\ at'[w].tries = 0 /\ at'[w].repairs = 0 /\ at'[w].calls = 0
      /\ \A v \in Workers : v # w => at'[v] = at[v]
  BY <1>1 DEF Stand
<1>4. /\ runs'[Len(runs) + 1] = NewDirectory
      /\ \A r \in DOMAIN runs : runs'[r] = runs[r]
  BY <1>1, Appending DEF WorkersSound
<1>5. Targets' = Targets /\ Len(Targets) \in Nat /\ Len(Targets) >= 1
  <2>1. Len(plan.parent) \in Nat \ {0} /\ Len(Targets) = Anchors + Len(plan.parent)
    BY <1>1, PlanIsComplete
  <2> QED
    BY <1>1, <2>1, WorkflowAssumption DEF Targets, WorkflowAssumption
<1>6. Drawing(w)'
  BY <1>3, <1>4, <1>5 DEF Drawing, Run, NewDirectory
<1>7. Counting(w)'
  BY <1>3, WorkflowAssumption DEF Counting, WorkflowAssumption
<1>8. \A v \in Workers : v # w /\ Busy(v) => runs'[Run(v)] = runs[Run(v)]
  BY <1>4 DEF WorkersSound, Executing
<1> QED
  BY <1>1, <1>2, <1>3, <1>6, <1>7, <1>8, OneProceeds

\* Where a worker in an execution stands, and what its directory lists.
LEMMA InExecution ==
  ASSUME WorkersSound, ProgressSound, NEW w \in Workers, at[w].step \in {"draw", "judge"}
  PROVE  /\ at \in [Workers -> Standing] /\ at[w] \in Standing /\ Run(w) \in DOMAIN runs
         /\ runs[Run(w)] \in Directory(plan.parent)
         /\ runs[Run(w)].done \cap Shots \subseteq runs[Run(w)].passed
         /\ at[w].next \in 1..Len(Targets) /\ Len(Targets) \in Nat
         /\ Target(w) = Targets[at[w].next]
         /\ Target(w) \in 1..(Len(plan.parent) + Anchors)
         /\ Target(w) \notin runs[Run(w)].done
         /\ runs[Run(w)].done \cup {Target(w)} = {Targets[i] : i \in 1..at[w].next}
         /\ \A v \in Workers : v # w /\ Busy(v) => Run(v) # Run(w)
<1>1. /\ at \in [Workers -> Standing] /\ at[w] \in Standing /\ Run(w) \in DOMAIN runs
      /\ \A v \in Workers : v # w /\ Busy(v) => Run(v) # Run(w)
  BY DEF WorkersSound, Executing, Busy
<1>2. Planned /\ Filed /\ Drawing(w)
  BY DEF ProgressSound
<1> DEFINE D == Directory(plan.parent)
           T == 1..(Len(plan.parent) + Anchors)
<1>3. runs[Run(w)] \in D /\ runs[Run(w)].done \cap Shots \subseteq runs[Run(w)].passed
  <2>1. runs \in Seq(D)
    BY <1>2 DEF Filed
  <2> HIDE DEF D
  <2> QED
    BY <1>1, <1>2, <2>1 DEF Filed
<1>4. Targets \in Seq(T) /\ \A i, j \in DOMAIN Targets : Targets[i] = Targets[j] => i = j
  BY <1>2, PlanIsComplete
<1> HIDE DEF T
<1>5. Len(Targets) \in Nat /\ DOMAIN Targets = 1..Len(Targets) /\ \A i \in 1..Len(Targets) : Targets[i] \in T
  BY <1>4, SequenceFacts
<1> DEFINE n == at[w].next
<1>6. n \in 1..Len(Targets) /\ runs[Run(w)].done = {Targets[i] : i \in 1..(n - 1)}
  BY <1>2 DEF Drawing
<1> HIDE DEF n
<1>7. /\ \A i \in 1..n : i \in 1..(n - 1) \/ i = n
      /\ \A i \in 1..(n - 1) : i \in 1..n /\ i \in 1..Len(Targets) /\ i # n
      /\ n \in 1..n
  BY <1>5, <1>6
<1>8. Targets[n] \notin {Targets[i] : i \in 1..(n - 1)}
  BY <1>4, <1>5, <1>6, <1>7
<1>9. {Targets[i] : i \in 1..(n - 1)} \cup {Targets[n]} = {Targets[i] : i \in 1..n}
  BY <1>7
<1> QED
  BY <1>1, <1>3, <1>5, <1>6, <1>8, <1>9 DEF n, Target, T

\* A directory that is rewritten by the worker in it, and the worker's next standing.
LEMMA WriterProceeds ==
  ASSUME WorkersSound, ProgressSound, UNCHANGED plan, NEW w \in Workers, Busy(w),
         NEW d \in Directory(plan.parent), d.done \cap Shots \subseteq d.passed,
         runs' = [runs EXCEPT ![Run(w)] = d],
         NEW s, at' = [at EXCEPT ![w] = s],
         Drawing(w)', Counting(w)'
  PROVE  ProgressSound'
<1>1. /\ at \in [Workers -> Standing] /\ Filed /\ Run(w) \in DOMAIN runs
      /\ \A v \in Workers : v # w /\ Busy(v) => Run(v) # Run(w) /\ Run(v) \in DOMAIN runs
  BY DEF WorkersSound, Executing, ProgressSound
<1>2. Filed' /\ \A q \in DOMAIN runs : q # Run(w) => runs'[q] = runs[q]
  BY <1>1, FiledByWriting
<1>3. \A v \in Workers : v # w => at'[v] = at[v]
  BY <1>1
<1> QED
  BY <1>1, <1>2, <1>3, OneProceeds

LEMMA StatusWritten ==
  ASSUME WorkersSound, ProgressSound, UNCHANGED plan, NEW w \in Workers, Busy(w),
         NEW status \in {"succeeded", "failed"}, NEW step \in {"succeed", "fail"}, NEW r,
         runs' = [runs EXCEPT ![Run(w)].status = status],
         at' = [at EXCEPT ![w] = Stand(step, r)]
  PROVE  ProgressSound'
<1>1. /\ at \in [Workers -> Standing] /\ Filed /\ Run(w) \in DOMAIN runs
  BY DEF WorkersSound, Executing, ProgressSound
<1> DEFINE D == Directory(plan.parent)
           x == runs[Run(w)]
           d == [x EXCEPT !.status = status]
<1>2. x \in D /\ x.done \cap Shots \subseteq x.passed
  <2>1. runs \in Seq(D)
    BY <1>1 DEF Filed
  <2> HIDE DEF D
  <2> QED
    BY <1>1, <2>1 DEF Filed
<1>3. d \in D /\ d.done = x.done /\ d.passed = x.passed
  <2> HIDE DEF x
  <2> QED
    BY <1>2 DEF Directory
<1>4. runs' = [runs EXCEPT ![Run(w)] = d]
  OBVIOUS
<1> HIDE DEF d, x
<1>5. Drawing(w)' /\ Counting(w)'
  BY <1>1, StandingStill
<1> DEFINE s == Stand(step, r)
<1>6. at' = [at EXCEPT ![w] = s]
  OBVIOUS
<1> HIDE DEF s
<1> QED
  BY <1>2, <1>3, <1>4, <1>5, <1>6, WriterProceeds

LEMMA AbortProgresses ==
  ASSUME WorkersSound, ProgressSound, UNCHANGED plan, NEW w \in Workers, Busy(w), Abort(w)
  PROVE  ProgressSound'
BY StatusWritten DEF Abort

\* The target joins those that are recorded, and the worker goes on to the next.
LEMMA AcceptProgresses ==
  ASSUME WorkersSound, ProgressSound, UNCHANGED plan, NEW w \in Workers,
         at[w].step \in {"draw", "judge"}, Accept(w)
  PROVE  ProgressSound'
<1> DEFINE D == Directory(plan.parent)
           x == runs[Run(w)]
           t == Target(w)
           a == x.done \cup {t}
           b == x.passed \cup ({t} \cap Shots)
           d == [status |-> x.status, done |-> a, passed |-> b]
<1>1. /\ at \in [Workers -> Standing] /\ Run(w) \in DOMAIN runs /\ x \in D
      /\ x.done \cap Shots \subseteq x.passed
      /\ at[w].next \in 1..Len(Targets) /\ Len(Targets) \in Nat
      /\ t \in 1..(Len(plan.parent) + Anchors)
      /\ a = {Targets[i] : i \in 1..at[w].next}
  BY InExecution
<1>2. Shots = 1..Len(plan.parent) /\ Busy(w)
  BY PlanIsComplete DEF ProgressSound, Busy
<1>3. d \in D /\ d.done = a /\ d.done \cap Shots \subseteq d.passed
  <2>1. x.status \in {"running", "succeeded", "failed"}
    BY <1>1 DEF Directory
  <2>2. a \in SUBSET (1..(Len(plan.parent) + Anchors)) /\ b \in SUBSET (1..Len(plan.parent))
    BY <1>1, <1>2 DEF Directory
  <2>3. a \cap Shots \subseteq b
    BY <1>1
  <2> HIDE DEF a, b, x
  <2> QED
    BY <2>1, <2>2, <2>3 DEF Directory
<1>4. runs' = [runs EXCEPT ![Run(w)] = d]
  <2>1. x = [status |-> x.status, done |-> x.done, passed |-> x.passed]
    BY <1>1 DEF Directory
  <2>2. runs' = [runs EXCEPT ![Run(w)] = [[x EXCEPT !.done = a] EXCEPT !.passed = b]]
    BY <1>1 DEF Accept
  <2>3. d = [[x EXCEPT !.done = a] EXCEPT !.passed = b]
    <3> DEFINE y == [x EXCEPT !.done = a]
    <3> HIDE DEF x, a, b
    <3>1. y = [status |-> x.status, done |-> a, passed |-> x.passed]
      BY <2>1
    <3> HIDE DEF y
    <3>2. d = [y EXCEPT !.passed = b]
      BY <3>1
    <3> QED
      BY <3>2 DEF y
  <2> HIDE DEF x, d, a, b
  <2> QED
    BY <2>2, <2>3
<1> HIDE DEF d, x, t, a
<1> DEFINE s == Further(w)
<1>5. at' = [at EXCEPT ![w] = s]
  BY DEF Accept
<1>6. \/ at'[w].step = "sheet" /\ at'[w].calls = 0
      \/ /\ at'[w].step = "draw" /\ at'[w].run = Run(w)
         /\ at'[w].next = at[w].next + 1 /\ at[w].next # Len(Targets)
         /\ at'[w].tries = 0 /\ at'[w].repairs = 0 /\ at'[w].calls = 0
  BY <1>1, <1>5 DEF Further, Stand
<1> HIDE DEF s
<1>7. Targets' = Targets
  BY DEF Targets
<1>8. Counting(w)'
  BY <1>6, WorkflowAssumption DEF Counting, WorkflowAssumption
<1>9. Drawing(w)'
  <2>1. runs'[Run(w)] = d
    BY <1>1, <1>3, <1>4, FiledByWriting DEF ProgressSound
  <2>2. CASE at'[w].step = "draw"
    <3>1. at'[w].next \in 1..Len(Targets) /\ at'[w].next - 1 = at[w].next
      BY <1>1, <1>6, <2>2
    <3> QED
      BY <1>1, <1>3, <1>6, <1>7, <2>1, <2>2, <3>1 DEF Drawing, Run
  <2> QED
    BY <1>6, <2>2 DEF Drawing
<1> QED
  BY <1>2, <1>3, <1>4, <1>5, <1>8, <1>9, WriterProceeds

\* The same target again: another try, or a repair.
LEMMA AgainProgresses ==
  ASSUME WorkersSound, ProgressSound, UNCHANGED <<plan, runs>>, NEW w \in Workers,
         at[w].step \in {"draw", "judge"},
         NEW s, at' = [at EXCEPT ![w] = s],
         s.step = "draw", s.next = at[w].next, s.run = at[w].run,
         Counting(w)'
  PROVE  ProgressSound'
<1>1. /\ at \in [Workers -> Standing] /\ Filed /\ Drawing(w)
  BY DEF WorkersSound, ProgressSound
<1>2. /\ at'[w] = s /\ \A v \in Workers : v # w => at'[v] = at[v]
  BY <1>1
<1>3. Filed'
  BY <1>1 DEF Filed, Shots
<1>4. Drawing(w)'
  BY <1>1, <1>2 DEF Drawing, Run, Targets
<1> QED
  BY <1>2, <1>3, <1>4, OneProceeds

\* An image is drawn, and left to the visual QA if it is one of a shot.
LEMMA DrawProgresses ==
  ASSUME WorkersSound, ProgressSound, NEW w \in Workers, Draws(w)
  PROVE  ProgressSound'
<1>1. UNCHANGED plan /\ at[w].step = "draw" /\ Counting(w) /\ Busy(w)
  BY DEF Draws, ProgressSound, Busy
<1>2. CASE ~(IsShot(Target(w)) /\ VisualQA)
  BY <1>1, <1>2, AcceptProgresses DEF Draws
<1>3. CASE IsShot(Target(w)) /\ VisualQA
  <2> DEFINE D == Directory(plan.parent)
             x == runs[Run(w)]
             b == x.passed \ {Target(w)}
             d == [x EXCEPT !.passed = b]
             n == at[w].calls + 1
             s == [at[w] EXCEPT !.step = "judge", !.tries = 0, !.calls = n]
  <2>1. /\ at \in [Workers -> Standing] /\ at[w] \in Standing /\ Run(w) \in DOMAIN runs
        /\ x \in D /\ x.done \cap Shots \subseteq x.passed
        /\ at[w].next \in 1..Len(Targets) /\ Target(w) = Targets[at[w].next]
        /\ Target(w) \notin x.done
    BY <1>1, InExecution
  <2>2. x.done = {Targets[i] : i \in 1..(at[w].next - 1)}
    BY <1>1 DEF ProgressSound, Drawing
  <2>3. runs' = [runs EXCEPT ![Run(w)] = d] /\ at' = [at EXCEPT ![w] = s]
    BY <1>3 DEF Draws
  <2>4. d \in D /\ d.done = x.done /\ d.done \cap Shots \subseteq d.passed
    <3>1. x.done \cap Shots \subseteq b
      BY <2>1
    <3>2. b \subseteq x.passed
      OBVIOUS
    <3> HIDE DEF b, x
    <3> QED
      BY <2>1, <3>1, <3>2 DEF Directory
  <2>5. n \in Nat /\ n = at[w].calls + 1
    BY <2>1 DEF Standing
  <2> HIDE DEF n
  <2>6. /\ s.step = "judge" /\ s.next = at[w].next /\ s.run = Run(w)
        /\ s.repairs = at[w].repairs /\ s.calls = n
    BY <2>1 DEF Standing, Run
  <2> HIDE DEF s, d, x
  <2>7. at'[w] = s /\ Targets' = Targets /\ Shots' = Shots /\ Target(w)' = Target(w)
    BY <1>1, <2>1, <2>3, <2>6 DEF Targets, Shots, Target
  <2>8. runs'[Run(w)] = d
    BY <1>1, <2>1, <2>3, <2>4, FiledByWriting DEF ProgressSound
  <2>9. Drawing(w)'
    BY <2>1, <2>2, <2>4, <2>6, <2>7, <2>8 DEF Drawing, Run
  <2>10. Counting(w)'
    <3> DEFINE R == at[w].repairs
               T == at[w].tries
               C == at[w].calls
    <3>1. R \in Nat /\ T \in Nat /\ C \in Nat /\ Attempts \in Nat
      BY <2>1, WorkflowAssumption DEF Standing, WorkflowAssumption
    <3>2. T < Attempts /\ R <= MaxRepairs /\ C <= R * Attempts + T
      BY <1>1 DEF Counting
    <3> HIDE DEF R, T, C
    <3>3. C + 1 <= (R + 1) * Attempts
      <4>1. (R + 1) * Attempts = R * Attempts + Attempts /\ R * Attempts \in Nat
        BY <3>1, Multiples
      <4> DEFINE P == R * Attempts
      <4>2. P \in Nat /\ C <= P + T
        BY <3>2, <4>1
      <4> HIDE DEF P
      <4>3. C + 1 <= P + Attempts
        BY <3>1, <3>2, <4>2
      <4> QED
        BY <4>1, <4>3 DEF P
    <3> QED
      BY <1>3, <2>5, <2>6, <2>7, <3>2, <3>3 DEF Counting, IsShot, R, C
  <2> QED
    BY <1>1, <2>3, <2>4, <2>9, <2>10, WriterProceeds
<1> QED
  BY <1>2, <1>3

LEMMA DrawFailProgresses ==
  ASSUME WorkersSound, ProgressSound, NEW w \in Workers, DrawFails(w)
  PROVE  ProgressSound'
<1>1. UNCHANGED plan /\ at[w].step = "draw" /\ Counting(w) /\ Busy(w)
  BY DEF DrawFails, ProgressSound, Busy
<1>2. CASE ~(ParentReady(w) /\ at[w].tries + 1 < Attempts)
  BY <1>1, <1>2, AbortProgresses DEF DrawFails
<1>3. CASE ParentReady(w) /\ at[w].tries + 1 < Attempts
  <2> DEFINE m == at[w].tries + 1
             n == at[w].calls + 1
             s == [at[w] EXCEPT !.tries = m, !.calls = n]
  <2>1. /\ at \in [Workers -> Standing] /\ at[w] \in Standing
    BY <1>1, InExecution
  <2>2. at' = [at EXCEPT ![w] = s] /\ UNCHANGED runs
    BY <1>3 DEF DrawFails
  <2>3. m = at[w].tries + 1 /\ n = at[w].calls + 1 /\ m < Attempts
    BY <1>3
  <2> HIDE DEF m, n
  <2>4. /\ s.step = "draw" /\ s.next = at[w].next /\ s.run = at[w].run
        /\ s.repairs = at[w].repairs /\ s.tries = m /\ s.calls = n
    BY <1>1, <2>1 DEF Standing
  <2> HIDE DEF s
  <2>5. at'[w] = s /\ Shots' = Shots /\ Target(w)' = Target(w)
    BY <1>1, <2>1, <2>2, <2>4 DEF Targets, Shots, Target
  <2>6. Counting(w)'
    <3> DEFINE R == at[w].repairs
               T == at[w].tries
               C == at[w].calls
               P == R * Attempts
    <3>1. R \in Nat /\ T \in Nat /\ C \in Nat /\ Attempts \in Nat
      BY <2>1, WorkflowAssumption DEF Standing, WorkflowAssumption
    <3>2. /\ R <= MaxRepairs /\ C <= P + T
          /\ R > 0 => IsShot(Target(w))
      BY <1>1 DEF Counting
    <3> HIDE DEF R, T, C
    <3>3. P \in Nat
      BY <3>1, Multiples
    <3> HIDE DEF P
    <3>4. C + 1 <= P + (T + 1)
      BY <3>1, <3>2, <3>3
    <3> QED
      BY <2>3, <2>4, <2>5, <3>2, <3>4 DEF Counting, IsShot, R, T, C, P
  <2> QED
    BY <1>1, <2>2, <2>4, <2>6, AgainProgresses
<1> QED
  BY <1>2, <1>3

LEMMA JudgedProgresses ==
  ASSUME WorkersSound, ProgressSound, NEW w \in Workers, JudgedGood(w) \/ JudgedBad(w)
  PROVE  ProgressSound'
<1>1. UNCHANGED plan /\ at[w].step = "judge" /\ Counting(w) /\ Busy(w)
  BY DEF JudgedGood, JudgedBad, ProgressSound, Busy
<1>2. CASE JudgedGood(w)
  BY <1>1, <1>2, AcceptProgresses DEF JudgedGood
<1>3. CASE Abort(w)
  BY <1>1, <1>3, AbortProgresses
<1>4. CASE JudgedBad(w) /\ at[w].repairs < MaxRepairs
  <2> DEFINE n == at[w].repairs + 1
             s == [at[w] EXCEPT !.step = "draw", !.tries = 0, !.repairs = n]
  <2>1. /\ at \in [Workers -> Standing] /\ at[w] \in Standing
    BY <1>1, InExecution
  <2>2. at' = [at EXCEPT ![w] = s] /\ UNCHANGED runs
    BY <1>4 DEF JudgedBad
  <2>3. n = at[w].repairs + 1
    OBVIOUS
  <2> HIDE DEF n
  <2>4. /\ s.step = "draw" /\ s.next = at[w].next /\ s.run = at[w].run
        /\ s.repairs = n /\ s.tries = 0 /\ s.calls = at[w].calls
    BY <2>1 DEF Standing
  <2> HIDE DEF s
  <2>5. at'[w] = s /\ Shots' = Shots /\ Target(w)' = Target(w)
    BY <1>1, <2>1, <2>2, <2>4 DEF Targets, Shots, Target
  <2>6. /\ at[w].repairs \in Nat /\ at[w].calls \in Nat
        /\ Attempts \in Nat /\ 0 < Attempts /\ MaxRepairs \in Nat
    BY <2>1, WorkflowAssumption DEF Standing, WorkflowAssumption
  <2>7. n * Attempts \in Nat
    BY <2>3, <2>6, Multiples
  <2>8. at[w].calls <= n * Attempts /\ IsShot(Target(w))
    BY <1>1, <2>3 DEF Counting
  <2>9. at[w].calls <= n * Attempts + 0
    BY <2>7, <2>8
  <2>10. n <= MaxRepairs
    BY <1>4, <2>3, <2>6
  <2>11. Counting(w)'
    BY <2>4, <2>5, <2>6, <2>8, <2>9, <2>10 DEF Counting, IsShot
  <2> QED
    BY <1>1, <2>2, <2>4, <2>11, AgainProgresses
<1> QED
  BY <1>2, <1>3, <1>4 DEF JudgedBad

LEMMA SheetProgresses ==
  ASSUME WorkersSound, ProgressSound, NEW w \in Workers, Sheet(w)
  PROVE  ProgressSound'
<1>1. UNCHANGED plan /\ Busy(w)
  BY DEF Sheet, Busy
<1> QED
  BY <1>1, StatusWritten, AbortProgresses DEF Sheet

LEMMA ProgressKept == WorkersSound /\ ProgressSound /\ [Next]_vars => ProgressSound'
<1> SUFFICES ASSUME WorkersSound, ProgressSound, [Next]_vars PROVE ProgressSound'
  OBVIOUS
<1>1. CASE UNCHANGED <<plan, runs, at>>
  BY <1>1 DEF ProgressSound, Planned, Filed, Drawing, Counting, Shots, Targets, Target, Run, IsShot
<1>2. ASSUME NEW w \in Workers, Works(w)
      PROVE  ProgressSound'
  BY <1>2, OpenProgresses, DrawProgresses, DrawFailProgresses, JudgedProgresses, SheetProgresses
     DEF Works, RunWorkflow
<1>3. ASSUME NEW w \in Workers, NEW step \in {"off", "idle", "fail", "open"},
             at' = [at EXCEPT ![w] = Stand(step, 0)], UNCHANGED <<plan, runs>>
      PROVE  ProgressSound'
  <2>1. /\ at \in [Workers -> Standing] /\ Filed
    BY DEF WorkersSound, ProgressSound
  <2>2. Drawing(w)' /\ Counting(w)'
    BY <1>3, <2>1, StandingStill
  <2>3. Filed' /\ \A v \in Workers : v # w => at'[v] = at[v]
    BY <1>3, <2>1 DEF Filed, Shots
  <2> QED
    BY <1>3, <2>2, <2>3, OneProceeds
<1>4. CASE UNCHANGED vars
  BY <1>4, <1>1 DEF vars
<1>5. ASSUME NEW w \in Workers, Works(w) \/ Claim(w) \/ LoadFails(w) \/ Succeed(w) \/ Fail(w) \/ CrashWorker(w)
      PROVE  Works(w) \/ UNCHANGED plan
  BY <1>5 DEF Claim, LoadFails, Succeed, Fail, CrashWorker
<1>6. (\E w \in Workers : Works(w)) \/ UNCHANGED plan
  <2>1. ASSUME NEW c \in Clients, Post(c) \/ Ask(c) \/ Retry(c) \/ Cancel(c) \/ ClientStep(c)
        PROVE  UNCHANGED plan
    BY <2>1 DEF Post, Ask, Retry, Cancel, Requeue, ClientStep, Select, Insert, Enqueue, Save,
                Look, Compose, Fill, Replace, Measure
  <2>2. CASE Recover \/ Restart
    BY <2>2 DEF Recover, Restart
  <2> QED
    BY <1>4, <1>5, <2>1, <2>2 DEF Next, WorkerStep, vars
<1> QED
  BY <1>1, <1>2, <1>3, <1>4, <1>6, WorkersOfNext

\* A shot is drawn from an image that passed the visual QA, and drawn a bounded number of times.
LEMMA ProgressIsAccepted ==
  ASSUME WorkersSound, ProgressSound
  PROVE  ParentAccepted /\ CallsBounded
<1>1. ParentAccepted
  <2> SUFFICES ASSUME NEW w \in Workers, at[w].step = "draw",
                      IsShot(Target(w)), Parent(Target(w)) # None
               PROVE  Parent(Target(w)) \in runs[Run(w)].passed
    BY DEF ParentAccepted
  <2>1. /\ at[w].next \in 1..Len(Targets) /\ Target(w) = Targets[at[w].next] /\ Len(Targets) \in Nat
        /\ runs[Run(w)].done \cap Shots \subseteq runs[Run(w)].passed
    BY InExecution
  <2>2. runs[Run(w)].done = {Targets[i] : i \in 1..(at[w].next - 1)}
    BY DEF ProgressSound, Drawing
  <2>3. DOMAIN Targets = 1..Len(Targets)
    BY PlanIsComplete, SequenceFacts DEF ProgressSound
  <2>4. /\ IsShot(Parent(Target(w)))
        /\ \E j \in 1..(at[w].next - 1) : Targets[j] = Parent(Target(w))
    BY <2>1, <2>3, PlanIsComplete DEF ProgressSound
  <2> QED
    BY <2>1, <2>2, <2>4 DEF IsShot
<1>2. CallsBounded
  <2> SUFFICES ASSUME NEW w \in Workers
               PROVE  /\ at[w].step = "draw" =>
                            at[w].calls < IF IsShot(Target(w)) THEN Attempts * (MaxRepairs + 1)
                                          ELSE Attempts
                      /\ at[w].calls <= Attempts * (MaxRepairs + 1)
    BY DEF CallsBounded
  <2> DEFINE R == at[w].repairs
             T == at[w].tries
             C == at[w].calls
             P == R * Attempts
             Q == Attempts * (MaxRepairs + 1)
  <2>1. /\ R \in Nat /\ T \in Nat /\ C \in Nat
        /\ Attempts \in Nat /\ 0 < Attempts /\ MaxRepairs \in Nat
    BY WorkflowAssumption DEF WorkersSound, Standing, WorkflowAssumption
  <2>2. Counting(w)
    BY DEF ProgressSound
  <2> HIDE DEF R, T, C
  <2>3. P \in Nat /\ Q \in Nat /\ (R = 0 => P = 0) /\ (R <= MaxRepairs => P + Attempts <= Q)
    <3>1. /\ P \in Nat /\ (R + 1) * Attempts = P + Attempts
          /\ 0 * Attempts = 0
      BY <2>1, Multiples
    <3>2. /\ (MaxRepairs + 1) * Attempts \in Nat /\ Q = (MaxRepairs + 1) * Attempts
          /\ R <= MaxRepairs => (R + 1) * Attempts <= (MaxRepairs + 1) * Attempts
      <4>1. MaxRepairs + 1 \in Nat /\ R + 1 \in Nat /\ (R <= MaxRepairs => R + 1 <= MaxRepairs + 1)
        BY <2>1
      <4> QED
        BY <2>1, <4>1, Multiples
    <3> QED
      BY <3>1, <3>2
  <2>4. CASE at[w].step = "draw"
    <3>1. T < Attempts /\ R <= MaxRepairs /\ (R > 0 => IsShot(Target(w))) /\ C <= P + T
      BY <2>2, <2>4 DEF Counting, R, T, C
    <3> HIDE DEF P, Q
    <3>2. C < P + Attempts /\ C < Q /\ C <= Q
      BY <2>1, <2>3, <3>1
    <3>3. ~IsShot(Target(w)) => C < Attempts
      <4>1. ~IsShot(Target(w)) => R = 0
        BY <2>1, <3>1
      <4> QED
        BY <2>1, <2>3, <3>1, <4>1
    <3> QED
      BY <2>4, <3>2, <3>3 DEF C, Q
  <2>5. CASE at[w].step = "judge"
    <3>1. R <= MaxRepairs /\ C <= (R + 1) * Attempts
      BY <2>2, <2>5 DEF Counting, R, C
    <3>2. (R + 1) * Attempts = P + Attempts
      BY <2>1, Multiples
    <3> HIDE DEF P, Q
    <3>3. C <= Q
      BY <2>1, <2>3, <3>1, <3>2
    <3> QED
      BY <2>5, <3>3 DEF C, Q
  <2>6. CASE at[w].step \notin {"draw", "judge"}
    <3>1. C = 0
      BY <2>2, <2>6 DEF Counting, C
    <3> HIDE DEF Q
    <3>2. C <= Q
      BY <2>3, <3>1
    <3> QED
      BY <2>6, <3>2 DEF C, Q
  <2> QED
    BY <2>4, <2>5, <2>6
<1> QED
  BY <1>1, <1>2

-----------------------------------------------------------------------------
(* The pages *)

\* The execution the queue holds as the successful one; each of its images passed the visual QA.
Accepted(r) ==
    /\ item.status = "succeeded" /\ item.root = r
    /\ r \in DOMAIN runs /\ runs[r].status = "succeeded"
    /\ Shots \subseteq runs[r].passed

\* A request composes what the queue holds, and what it holds itself has been composed.
Linking(c) ==
    /\ Holds(c).pages # 0 => Accepted(Holds(c).pages)
    /\ req[c].step = "compose" => item.status = "succeeded" /\ item.root = Holds(c).root
    /\ req[c].step \in {"fill", "replace"} => Accepted(Holds(c).root)

PagesLinked ==
    /\ item.status = "succeeded" => item.root \in DOMAIN runs
    /\ row.pages # 0 => Accepted(row.pages)
    /\ \A c \in Clients : Linking(c)

LEMMA PagesInitially == Init => PagesLinked
<1> SUFFICES ASSUME Init PROVE PagesLinked
  OBVIOUS
<1>1. item.status # "succeeded" /\ row.pages = 0
  BY DEF Init, NoItem, NoRow
<1>2. \A c \in Clients : Holds(c).pages = 0 /\ req[c].step = "idle"
  BY DEF Init, NoRequest, NoRow, Holds
<1> QED
  BY <1>1, <1>2 DEF PagesLinked, Linking

\* The job that succeeded stays as it is, and so does what was accepted of it.
LEMMA SucceededStays ==
  ASSUME Next, item.status = "succeeded"
  PROVE  item' = item
<1>1. item # NoItem
  BY RowsAreNamed DEF ItemState
<1>2. ASSUME NEW c \in Clients, Post(c) \/ Ask(c) \/ Retry(c) \/ Cancel(c) \/ ClientStep(c)
      PROVE  item' = item
  BY <1>1, <1>2 DEF Post, Ask, Retry, Cancel, Requeue, ClientStep, Select, Insert, Enqueue, Save,
                    Look, Compose, Fill, Replace, Measure, Stores
<1>3. ASSUME NEW w \in Workers, Claim(w) \/ WorkerStep(w) \/ CrashWorker(w)
      PROVE  item' = item
  BY <1>3 DEF Claim, WorkerStep, Works, LoadFails, Succeed, Fail, CrashWorker, Stores
<1> QED
  BY <1>2, <1>3 DEF Next, Recover, Restart, Stores

LEMMA PlanStays == [Next]_vars => UNCHANGED plan
<1> SUFFICES ASSUME [Next]_vars PROVE UNCHANGED plan
  OBVIOUS
<1>1. ASSUME NEW c \in Clients, Post(c) \/ Ask(c) \/ Retry(c) \/ Cancel(c) \/ ClientStep(c)
      PROVE  UNCHANGED plan
  BY <1>1 DEF Post, Ask, Retry, Cancel, Requeue, ClientStep, Select, Insert, Enqueue, Save,
              Look, Compose, Fill, Replace, Measure
<1>2. ASSUME NEW w \in Workers, Claim(w) \/ WorkerStep(w) \/ CrashWorker(w)
      PROVE  UNCHANGED plan
  BY <1>2 DEF Claim, WorkerStep, Works, RunWorkflow, Open, Draws, DrawFails, JudgedGood, JudgedBad,
              Sheet, LoadFails, Succeed, Fail, CrashWorker
<1> QED
  BY <1>1, <1>2 DEF Next, Recover, Restart, vars

\* Directories are made, and never taken away.
LEMMA DirectoriesStay ==
  WorkersSound /\ [Next]_vars => DOMAIN runs \subseteq DOMAIN runs'
<1> SUFFICES ASSUME WorkersSound, [Next]_vars PROVE DOMAIN runs \subseteq DOMAIN runs'
  OBVIOUS
<1>1. ASSUME NEW w \in Workers, Works(w)
      PROVE  DOMAIN runs \subseteq DOMAIN runs'
  <2>1. CASE Open(w)
    BY <2>1, OpeningKeeps
  <2>2. CASE Advances(w)
    BY <2>2 DEF Advances
  <2> QED
    BY <1>1, <2>1, <2>2, ExecutionAdvances DEF Works, RunWorkflow
<1> QED
  BY <1>1, WorkersOfNext DEF vars

LEMMA AcceptedStays ==
  ASSUME WorkersSound, [Next]_vars, NEW r, Accepted(r)
  PROVE  Accepted(r)'
<1>1. item' = item
  BY SucceededStays DEF Accepted, vars
<1>2. r \in DOMAIN runs' /\ runs'[r] = runs[r]
  BY EndedStays, DirectoriesStay DEF Accepted
<1>3. Shots' = Shots
  BY PlanStays DEF Shots
<1> QED
  BY <1>1, <1>2, <1>3 DEF Accepted

\* A request that does not move is still linked, and so is a row that was.
LEMMA LinkingStays ==
  ASSUME WorkersSound, PagesLinked, [Next]_vars, NEW c \in Clients,
         req'[c].step = req[c].step, req'[c].held = req[c].held
  PROVE  Linking(c)'
<1>1. Linking(c) /\ \A r : Accepted(r) => Accepted(r)'
  BY AcceptedStays DEF PagesLinked
<1>2. item.status = "succeeded" => item' = item
  BY SucceededStays DEF vars
<1> QED
  BY <1>1, <1>2 DEF Linking, Holds

\* One request moves, the others stay, and the row is what it was or what the request held.
LEMMA LinkedByMove ==
  ASSUME WorkersSound, PagesLinked, [Next]_vars, NEW c \in Clients,
         item'.status = "succeeded" => item.status = "succeeded",
         row' = row \/ row'.pages = 0 \/ row'.pages = Holds(c).pages,
         \A d \in Clients : d # c => req'[d].step = req[d].step /\ req'[d].held = req[d].held,
         Linking(c)'
  PROVE  PagesLinked'
<1>1. \A r : Accepted(r) => Accepted(r)'
  BY AcceptedStays
<1>2. (row.pages # 0 => Accepted(row.pages))'
  BY <1>1 DEF PagesLinked, Linking
<1>3. item'.status = "succeeded" => item'.root \in DOMAIN runs'
  BY SucceededStays, DirectoriesStay DEF PagesLinked, vars
<1>4. \A d \in Clients : Linking(d)'
  BY LinkingStays
<1> QED
  BY <1>2, <1>3, <1>4 DEF PagesLinked

\* A request at another step than composing, with pages that are none, the row's or its own.
LEMMA LinkingByStep ==
  ASSUME WorkersSound, PagesLinked, [Next]_vars, NEW c \in Clients,
         req'[c].step \notin {"compose", "fill", "replace"},
         req'[c].held.pages \in {0, row.pages, Holds(c).pages}
  PROVE  Linking(c)'
<1>1. \A r : Accepted(r) => Accepted(r)'
  BY AcceptedStays
<1> QED
  BY <1>1 DEF PagesLinked, Linking, Holds

LEMMA LinkedByHolding ==
  ASSUME WorkersSound, RequestsSound, PagesLinked, [Next]_vars, NEW c \in Clients,
         item'.status = "succeeded" => item.status = "succeeded",
         row' = row \/ row'.pages = 0 \/ row'.pages = Holds(c).pages,
         NEW step, NEW held, Hold(c, step, held) \/ (Answer(c) /\ step = "idle" /\ held = NoRow),
         step \notin {"compose", "fill", "replace"},
         held.pages \in {0, row.pages, Holds(c).pages}
  PROVE  PagesLinked'
<1>1. /\ req'[c].step = step /\ req'[c].held = held
      /\ \A d \in Clients : d # c => req'[d] = req[d]
  BY DEF Hold, Answer, NoRequest, RequestsSound, Formed
<1>2. Linking(c)'
  BY <1>1, LinkingByStep
<1> QED
  BY <1>1, <1>2, LinkedByMove

LEMMA NoPages == NoRow.pages = 0 /\ Compiled.pages = 0
<1>1. NoRow.pages = 0
  BY DEF NoRow
<1>2. Compiled.pages = NoRow.pages
  BY DEF Compiled, NoRow
<1> QED
  BY <1>1, <1>2

\* The steps of a request other than looking, composing and replacing.
LEMMA PlainlyLinked ==
  ASSUME WorkersSound, RequestsSound, PagesLinked, [Next]_vars, NEW c \in Clients,
         Post(c) \/ Ask(c) \/ Retry(c) \/ Cancel(c) \/ Select(c) \/ Insert(c) \/ Enqueue(c)
            \/ Save(c) \/ Measure(c)
  PROVE  PagesLinked'
<1>1. item'.status = "succeeded" => item.status = "succeeded"
  <2>1. CASE Retry(c) \/ Cancel(c)
    <3>1. PICK from \in {"failed", "pending"}, to \in {"pending", "cancelled"} :
             item.status = from /\ item' = [item EXCEPT !.status = to]
      BY <2>1 DEF Retry, Cancel, Requeue
    <3>2. item \in [status : ItemState, root : Root]
      BY <3>1, RowsAreNamed DEF RequestsSound, Formed, ItemState
    <3> QED
      BY <3>1, <3>2
  <2>2. CASE Enqueue(c)
    BY <2>2 DEF Enqueue
  <2>3. CASE UNCHANGED item
    BY <2>3
  <2> QED
    BY <2>1, <2>2, <2>3 DEF Post, Ask, Select, Insert, Save, Measure, Stores
<1>2. ASSUME NEW step, NEW held, Hold(c, step, held) \/ (Answer(c) /\ step = "idle" /\ held = NoRow),
             step \notin {"compose", "fill", "replace"},
             held.pages \in {0, row.pages, Holds(c).pages},
             row' = row \/ row'.pages = 0 \/ row'.pages = Holds(c).pages
      PROVE  PagesLinked'
  BY <1>1, <1>2, LinkedByHolding
<1>3. CASE Post(c) \/ Ask(c) \/ Retry(c) \/ Cancel(c) \/ Select(c)
  <2>1. \E step \in {"select", "insert", "look", "enqueue"}, held \in {NoRow, row} : Hold(c, step, held)
    BY <1>3 DEF Post, Ask, Retry, Cancel, Requeue, Select
  <2>2. row' = row
    BY <1>3 DEF Post, Ask, Retry, Cancel, Requeue, Select, Stores
  <2> QED
    BY <2>1, <2>2, <1>2, NoPages
<1>4. CASE Insert(c)
  BY <1>2, <1>4, NoPages DEF Insert
<1>5. CASE Enqueue(c)
  <2> DEFINE held == [Holds(c) EXCEPT !.status = "QUEUED", !.queued = TRUE]
  <2>1. Holds(c) \in Row \cup {NoRow}
    BY DEF RequestsSound, Formed, Holds
  <2>2. held.pages = Holds(c).pages
    BY <2>1 DEF Row, NoRow
  <2>3. Hold(c, "save", held) /\ row' = row
    BY <1>5 DEF Enqueue
  <2> HIDE DEF held
  <2> QED
    BY <2>2, <2>3, <1>2
<1>6. CASE Save(c)
  BY <1>2, <1>6, NoPages DEF Save
<1>7. CASE Measure(c)
  <2>1. row' = row
    BY <1>7 DEF Measure, Stores
  <2> QED
    BY <1>2, <1>7, <2>1, NoPages DEF Measure
<1> QED
  BY <1>3, <1>4, <1>5, <1>6, <1>7

\* A request goes on to compose what the queue holds at that moment.
LEMMA LookLinked ==
  ASSUME WorkersSound, RequestsSound, PagesLinked, [Next]_vars, NEW c \in Clients, Look(c)
  PROVE  PagesLinked'
<1> DEFINE shown == Shown[item.status]
           root == IF item.root # 0 THEN item.root ELSE Holds(c).root
           viewed == [Holds(c) EXCEPT !.status = Shown[item.status],
                                    !.root = IF item.root # 0 THEN item.root ELSE @]
<1>1. UNCHANGED <<row, item>> /\ req[c].step = "look" /\ Holds(c).queued
  BY DEF Look, Stores, RequestsSound, Named, PastHandoff
<1>2. Formed /\ item \in [status : ItemState, root : Root] /\ Holds(c) \in Row
  BY <1>1, RowsAreNamed DEF RequestsSound, Formed, QueuedHasItem, Holds
<1>3. shown = "SUCCEEDED" => item.status = "succeeded" /\ root = item.root
  <2>1. shown = "SUCCEEDED" => item.status = "succeeded"
    BY <1>2 DEF Shown, ItemState
  <2> QED
    BY <1>2, <2>1, WorkflowAssumption DEF Formed, WorkflowAssumption
<1>4. viewed = [Holds(c) EXCEPT !.status = shown, !.root = root]
  OBVIOUS
<1> HIDE DEF shown, root, viewed
<1>5. viewed.pages = Holds(c).pages /\ viewed.root = root /\ viewed.status = shown
  BY <1>2, <1>4 DEF Row
<1>6. \/ Answer(c)
      \/ Hold(c, "save", viewed) \/ Hold(c, "measure", viewed)
      \/ viewed.status = "SUCCEEDED" /\ Hold(c, "compose", viewed)
  <2>1. Answer(c) \/ Hold(c, CASE viewed.status # "SUCCEEDED" -> "save"
                               [] viewed.status = "SUCCEEDED" /\ viewed.pages = 0 -> "compose"
                               [] OTHER -> "measure", viewed)
    BY DEF Look, viewed
  <2>2. CASE viewed.status # "SUCCEEDED"
    BY <2>1, <2>2 DEF Hold
  <2>3. CASE viewed.status = "SUCCEEDED" /\ viewed.pages = 0
    BY <2>1, <2>3 DEF Hold
  <2>4. CASE viewed.status = "SUCCEEDED" /\ viewed.pages # 0
    BY <2>1, <2>4 DEF Hold
  <2> QED
    BY <2>2, <2>3, <2>4
<1>7. CASE Answer(c) \/ Hold(c, "save", viewed) \/ Hold(c, "measure", viewed)
  BY <1>1, <1>5, <1>7, NoPages, LinkedByHolding
<1>8. CASE viewed.status = "SUCCEEDED" /\ Hold(c, "compose", viewed)
  <2>1. /\ req'[c].step = "compose" /\ req'[c].held = viewed
        /\ \A d \in Clients : d # c => req'[d] = req[d]
    BY <1>2, <1>8 DEF Hold, Formed
  <2>2. \A r : Accepted(r) => Accepted(r)'
    BY AcceptedStays
  <2>3. Linking(c)'
    BY <1>1, <1>3, <1>5, <1>8, <2>1, <2>2 DEF PagesLinked, Linking, Holds
  <2> QED
    BY <1>1, <2>1, <2>3, LinkedByMove
<1> QED
  BY <1>6, <1>7, <1>8

\* The composer has read a result that is complete, and all it lists was accepted.
LEMMA ComposeLinked ==
  ASSUME WorkersSound, ProgressSound, RequestsSound, PagesLinked, [Next]_vars,
         NEW c \in Clients, Compose(c) \/ Fill(c)
  PROVE  PagesLinked'
<1>1. UNCHANGED <<row, item>> /\ \A r : Accepted(r) => Accepted(r)'
  BY AcceptedStays DEF Compose, Fill
<1>2. CASE Answer(c)
  BY <1>1, <1>2, NoPages, LinkedByHolding
<1>3. ASSUME NEW step \in {"fill", "replace"}, Hold(c, step, Holds(c)), Accepted(Holds(c).root)
      PROVE  PagesLinked'
  <2>1. /\ req'[c].step = step /\ req'[c].held = Holds(c)
        /\ \A d \in Clients : d # c => req'[d] = req[d]
    BY <1>3 DEF Hold, RequestsSound, Formed
  <2>2. Linking(c)'
    BY <1>1, <1>3, <2>1 DEF PagesLinked, Linking, Holds
  <2> QED
    BY <1>1, <2>1, <2>2, LinkedByMove
<1>4. CASE Compose(c) /\ ~Answer(c)
  <2>1. /\ req[c].step = "compose" /\ Hold(c, "fill", Holds(c))
        /\ runs[Holds(c).root].status = "succeeded" /\ Shots \subseteq runs[Holds(c).root].done
    BY <1>4 DEF Compose
  <2>2. item.status = "succeeded" /\ item.root = Holds(c).root /\ Holds(c).root \in DOMAIN runs
    BY <2>1 DEF PagesLinked, Linking
  <2>3. Shots \subseteq runs[Holds(c).root].passed
    BY <2>1, <2>2 DEF ProgressSound, Filed
  <2> QED
    BY <1>3, <2>1, <2>2, <2>3 DEF Accepted
<1>5. CASE Fill(c)
  <2>1. Hold(c, "replace", Holds(c)) /\ Accepted(Holds(c).root)
    BY <1>5 DEF Fill, PagesLinked, Linking
  <2> QED
    BY <1>3, <2>1
<1> QED
  BY <1>2, <1>4, <1>5

LEMMA ReplaceLinked ==
  ASSUME WorkersSound, RequestsSound, PagesLinked, [Next]_vars, NEW c \in Clients, Replace(c)
  PROVE  PagesLinked'
<1> DEFINE r == Holds(c).root
<1>1. /\ UNCHANGED <<row, item>> /\ Accepted(r) /\ Formed
      /\ \A q : Accepted(q) => Accepted(q)'
  BY AcceptedStays DEF Replace, PagesLinked, Linking, RequestsSound
<1>2. CASE draft[r] = "none"
  <2>1. Answer(c)
    BY <1>2 DEF Replace
  <2> QED
    BY <1>1, <2>1, NoPages, LinkedByHolding
<1>3. CASE draft[r] # "none"
  <2> DEFINE held == [req[c].held EXCEPT !.pages = r]
             mine == [req[c] EXCEPT !.step = "measure", !.held = held]
             under(d) == req[d].step = "fill" /\ Holds(d).root = r
             theirs(d) == [req[d] EXCEPT !.moved = IF @ = "no" THEN "current" ELSE "gone"]
  <2>1. req' = [d \in Clients |-> IF d = c THEN [req[c] EXCEPT !.step = "measure", !.held.pages = r]
                                  ELSE IF under(d) THEN theirs(d) ELSE req[d]]
    BY <1>3 DEF Replace
  <2>2. req[c] \in [step : Request, held : Row \cup {NoRow}, moved : Moved] /\ req[c].held \in Row \cup {NoRow}
    BY <1>1 DEF Formed
  <2>3. held.pages = r
    BY <2>2 DEF Row, NoRow
  <2>4. [req[c] EXCEPT !.step = "measure", !.held.pages = r] = mine
    OBVIOUS
  <2> HIDE DEF held
  <2>5. mine.step = "measure" /\ mine.held = held
    BY <2>2
  <2>6. \A d \in Clients : theirs(d).step = req[d].step /\ theirs(d).held = req[d].held
    BY <1>1 DEF Formed
  <2> HIDE DEF mine, theirs
  <2>7. /\ req'[c] = mine
        /\ \A d \in Clients : d # c => req'[d].step = req[d].step /\ req'[d].held = req[d].held
    BY <2>1, <2>4, <2>6
  <2>8. Linking(c)'
    BY <1>1, <2>3, <2>5, <2>7 DEF Linking, Holds
  <2> QED
    BY <1>1, <2>7, <2>8, LinkedByMove
<1> QED
  BY <1>2, <1>3

\* The queue's record changes, or a worker goes on, or every request ends.
LEMMA OthersLinked ==
  ASSUME WorkersSound, RequestsSound, PagesLinked, [Next]_vars, UNCHANGED row,
         (\A c \in Clients : req'[c] = req[c]) \/ (\A c \in Clients : req'[c] = NoRequest),
         item'.status = "succeeded" => item' = item \/ item'.root \in DOMAIN runs
  PROVE  PagesLinked'
<1>1. \A r : Accepted(r) => Accepted(r)'
  BY AcceptedStays
<1>2. item'.status = "succeeded" => item'.root \in DOMAIN runs'
  BY DirectoriesStay DEF PagesLinked
<1>3. ASSUME NEW c \in Clients PROVE Linking(c)'
  <2>1. CASE req'[c] = req[c]
    BY <2>1, LinkingStays
  <2>2. CASE req'[c] = NoRequest
    BY <2>2, NoPages DEF NoRequest, Linking, Holds
  <2> QED
    BY <2>1, <2>2
<1> QED
  BY <1>1, <1>2, <1>3 DEF PagesLinked

LEMMA PagesKept ==
  WorkersSound /\ ProgressSound /\ RequestsSound /\ PagesLinked /\ [Next]_vars => PagesLinked'
<1> SUFFICES ASSUME WorkersSound, ProgressSound, RequestsSound, PagesLinked, [Next]_vars
             PROVE  PagesLinked'
  OBVIOUS
<1>1. ASSUME NEW c \in Clients, Post(c) \/ Ask(c) \/ Retry(c) \/ Cancel(c) \/ ClientStep(c)
      PROVE  PagesLinked'
  BY <1>1, PlainlyLinked, LookLinked, ComposeLinked, ReplaceLinked DEF ClientStep
<1>2. ASSUME NEW w \in Workers, Claim(w) \/ WorkerStep(w) \/ CrashWorker(w)
      PROVE  PagesLinked'
  <2>1. UNCHANGED <<row, req>>
    BY <1>2 DEF Claim, WorkerStep, Works, LoadFails, Succeed, Fail, CrashWorker, Stores
  <2>2. item'.status = "succeeded" => item' = item \/ item'.root \in DOMAIN runs
    <3>1. CASE Claim(w)
      BY <3>1 DEF Claim, RequestsSound, Formed, NoItem
    <3>2. CASE Fail(w)
      BY <3>2 DEF Fail, RequestsSound, Formed, NoItem
    <3>3. CASE Succeed(w)
      BY <3>3 DEF Succeed, WorkersSound, Succeeding
    <3> QED
      BY <1>2, <3>1, <3>2, <3>3 DEF WorkerStep, Works, LoadFails, CrashWorker, Stores
  <2> QED
    BY <2>1, <2>2, OthersLinked
<1>3. CASE Recover
  <2>1. item'.status # "succeeded" \/ item' = item
    BY <1>3 DEF Recover, RequestsSound, Formed, NoItem
  <2> QED
    BY <1>3, <2>1, OthersLinked DEF Recover
<1>4. CASE Restart
  BY <1>4, OthersLinked DEF Restart, Stores
<1>5. CASE UNCHANGED vars
  BY <1>5, OthersLinked DEF vars
<1> QED
  BY <1>1, <1>2, <1>3, <1>4, <1>5 DEF Next

LEMMA RestartedKept ==
  restarted \in BOOLEAN /\ [Next]_vars => restarted' \in BOOLEAN
<1> SUFFICES ASSUME restarted \in BOOLEAN, [Next]_vars PROVE restarted' \in BOOLEAN
  OBVIOUS
<1>1. ASSUME NEW c \in Clients, Post(c) \/ Ask(c) \/ Retry(c) \/ Cancel(c) \/ ClientStep(c)
      PROVE  UNCHANGED restarted
  BY <1>1 DEF Post, Ask, Retry, Cancel, Requeue, ClientStep, Select, Insert, Enqueue, Save,
              Look, Compose, Fill, Replace, Measure
<1>2. ASSUME NEW w \in Workers, Claim(w) \/ WorkerStep(w) \/ CrashWorker(w)
      PROVE  UNCHANGED restarted
  BY <1>2 DEF Claim, WorkerStep, Works, LoadFails, Succeed, Fail, CrashWorker
<1> QED
  BY <1>1, <1>2 DEF Next, Recover, Restart, vars

-----------------------------------------------------------------------------
\* What an execution ended with is final in its directory, and a finished or cancelled job is
\* never put back in the queue: whoever asks again, and whichever workers have crashed.
THEOREM EndedIsFinal == Spec => ExecutionsFinal
<1>1. Init => WorkersSound
  BY WorkersInitially
<1>2. WorkersSound /\ [Next]_vars => WorkersSound'
  BY WorkersKept
<1>3. Spec => []WorkersSound
  BY <1>1, <1>2, PTL DEF Spec
<1>4. WorkersSound /\ [Next]_vars =>
         [\A r \in DOMAIN runs : runs[r].status # "running" => runs'[r] = runs[r]]_vars
  BY EndedStays
<1>5. Spec => DirectoryFinal
  BY <1>3, <1>4, PTL DEF Spec, DirectoryFinal
<1>6. [Next]_vars =>
         [item # NoItem /\ item'.status = "pending" /\ item.status # "pending" =>
             item.status \in {"failed", "running"}]_vars
  BY PutBack
<1>7. Spec => ResubmissionHarmless
  BY <1>6, PTL DEF Spec, ResubmissionHarmless
<1> QED
  BY <1>5, <1>7 DEF ExecutionsFinal

\* A row that names its job has it in the queue; and a row without its job, or a torn result
\* file, is in the hands of a request that mends it, unless the API process died in between.
THEOREM HandoffIsSound == Spec => []HandoffSound
<1>1. Init => WorkersSound /\ RequestsSound
  BY WorkersInitially, RequestsInitially
<1>2. (WorkersSound /\ RequestsSound) /\ [Next]_vars => (WorkersSound /\ RequestsSound)'
  BY WorkersKept, RequestsKept
<1>3. RequestsSound => HandoffSound
  BY DEF RequestsSound, HandoffSound
<1> QED
  BY <1>1, <1>2, <1>3, PTL DEF Spec

\* Pages show accepted images only, each continued from an accepted one and drawn within its
\* retries: for any number of shots, requests, workers, tries, repairs and executions.
THEOREM PagesAreSound == Spec => []PagesSound
<1> DEFINE Sound == /\ WorkersSound /\ ProgressSound /\ RequestsSound /\ PagesLinked
                    /\ restarted \in BOOLEAN
<1>1. Init => Sound
  BY WorkersInitially, ProgressInitially, RequestsInitially, PagesInitially DEF Init
<1>2. Sound /\ [Next]_vars => Sound'
  BY WorkersKept, ProgressKept, RequestsKept, PagesKept, RestartedKept
<1>3. Sound => PagesSound
  <2> SUFFICES ASSUME Sound PROVE PagesSound
    OBVIOUS
  <2>1. TypeOK
    <3>1. plan.parent \in Plans /\ Range(plan.order) = 1..(Len(plan.parent) + Anchors)
      BY PlanIsComplete DEF ProgressSound, Targets
    <3>2. runs \in Seq(Directory(plan.parent)) /\ Len(runs) <= MaxRuns
      BY DirectoriesFit DEF ProgressSound, Filed
    <3>3. at \in [Workers -> Standing]
      BY DEF WorkersSound
    <3> QED
      BY <3>1, <3>2, <3>3 DEF TypeOK, RequestsSound, Formed, Moved
  <2>2. PagesAccepted
    BY DEF PagesLinked, Linking, Accepted, PagesAccepted
  <2> QED
    BY <2>1, <2>2, ProgressIsAccepted DEF PagesSound
<1> HIDE DEF Sound
<1> QED
  BY <1>1, <1>2, <1>3, PTL DEF Spec
=============================================================================

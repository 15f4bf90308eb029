-------------------------- MODULE StoryBibleProofs --------------------------
(***************************************************************************)
(* What StoryBible guarantees for any number of workers, bundles, drafts,  *)
(* resources, API plans and interruptions.                                 *)
(***************************************************************************)
EXTENDS StoryBible, TLAPS

\* The variables of the workers are functions on the workers.
Memory ==
    /\ DOMAIN pc = Workers /\ DOMAIN key = Workers
    /\ DOMAIN context = Workers /\ DOMAIN draft = Workers

\* What is stored of a production run: the call, the AgentRun and the run follow each other.
RunStored(k) ==
    /\ runs[k].status = "RESERVED" => k \notin DOMAIN audits /\ k \notin DOMAIN calls
    /\ runs[k].status = "SUCCEEDED" =>
          /\ k \in DOMAIN audits /\ runs[k].draft \in Drafts
          /\ audits[k] = [status |-> "SUCCEEDED", draft |-> runs[k].draft]

ReviewStored(k) ==
    /\ runs[k].status = "SUCCEEDED"
    /\ reviews[k].base = Base(k) /\ reviews[k].draft = runs[k].draft
    /\ reviews[k].decision = Reviewed(Base(k), runs[k].draft)
    /\ FrozenReview(k) =>
          /\ reviews[k].frozen.content = Applied(reviews[k].base, reviews[k].draft)
          /\ Committed(k)

\* The plan k is that of a review, and the review approved it.
Warranted(k, d) == k \in DOMAIN reviews /\ reviews[k].decision = "APPROVE" /\ reviews[k].draft = d

PlanStored(id) ==
    /\ id \notin ApiPlans => Warranted(id, plans[id].draft)
    /\ plans[id].committed =>
          \A r \in DOMAIN plans[id].draft : canonical[r].rev >= plans[id].draft[r].rev

Stored ==
    /\ \A k \in DOMAIN runs : RunStored(k)
    /\ \A k \in DOMAIN audits : audits[k].status = "SUCCEEDED" => audits[k].draft \in Drafts
    /\ \A k \in DOMAIN calls : calls[k] = 1
    /\ \A k \in DOMAIN reviews : ReviewStored(k)
    /\ \A id \in DOMAIN plans : PlanStored(id)
    /\ NamesUnique

\* The places at which a worker is about a production run, and those of its only caller.
Producing == {"claim", "call", "saveAudit", "saveFailedAudit", "saveSuccess", "saveError",
              "resume", "review"}
Calling == {"call", "saveAudit", "saveFailedAudit"}
ForFreeze == {"freeze", "before", "bundle", "saveFreeze"}
Writing == {"commit", "write"}

\* What a worker holds at each place.
Placed(p) ==
    LET k == key[p] IN
    /\ pc[p] \in Producing => k \in DOMAIN runs
    /\ pc[p] \in Calling => runs[k].status # "RESERVED" /\ k \notin DOMAIN audits
    /\ pc[p] = "call" => k \notin DOMAIN calls
    /\ pc[p] = "saveAudit" => draft[p] \in Drafts
    /\ pc[p] = "saveSuccess" =>
          /\ k \in DOMAIN audits /\ draft[p] \in Drafts
          /\ audits[k] = [status |-> "SUCCEEDED", draft |-> draft[p]]
    /\ pc[p] = "review" => runs[k].status = "SUCCEEDED" /\ draft[p] = runs[k].draft
    /\ pc[p] \in ForFreeze => k \in DOMAIN reviews /\ draft[p] = reviews[k].draft
    /\ pc[p] \in ForFreeze \ {"freeze"} => Warranted(k, draft[p])
    /\ pc[p] \in Writing =>
          \/ k \notin ApiPlans /\ Warranted(k, draft[p])
          \/ k \in ApiPlans /\ k \in DOMAIN plans /\ draft[p] = plans[k].draft
    /\ pc[p] \in {"bundle", "saveFreeze"} => Committed(k)
    /\ pc[p] = "saveFreeze" => context[p] = Applied(reviews[k].base, reviews[k].draft)
    /\ pc[p] = "write" /\ p \notin stale => ~Conflict(canonical, draft[p])

\* The worker whose claim won, until its AgentRun is saved.
OneCaller ==
    \A p, q \in Workers : pc[p] \in Calling /\ pc[q] \in Calling /\ key[p] = key[q] => p = q

Inv == TypeOK /\ Memory /\ Stored /\ (\A p \in Workers : Placed(p)) /\ OneCaller

-----------------------------------------------------------------------------
(* Rows and plans *)

LEMMA AppliedIs ==
    ASSUME NEW base \in Snapshots, NEW d \in Drafts
    PROVE  /\ Applied(base, d) \in Snapshots
           /\ \A r \in Resources :
                 \/ Applied(base, d)[r] = base[r]
                 \/ r \in DOMAIN d /\ Applied(base, d)[r] = d[r] /\ base[r].rev < d[r].rev
           /\ \A r \in Resources : base[r].rev \in Nat /\ Applied(base, d)[r].rev >= base[r].rev
           /\ \A r \in DOMAIN d : r \in Resources /\ d[r] \in Row /\ Applied(base, d)[r].rev >= d[r].rev
<1>1. \A r \in DOMAIN d : r \in Resources /\ d[r] \in Row /\ d[r].rev \in Nat
    BY StoryBibleAssumption DEF Row
<1>2. \A r \in Resources : base[r] \in Row \cup {NoRow} /\ base[r].rev \in Nat
    BY DEF Snapshots, Row, NoRow
<1>3. \A r \in Resources :
          Applied(base, d)[r] = IF r \in DOMAIN d /\ base[r].rev < d[r].rev THEN d[r] ELSE base[r]
    BY DEF Applied, Newer
<1>4. Applied(base, d) \in Snapshots
    BY <1>1, <1>2 DEF Applied, Snapshots
<1>5. QED BY <1>1, <1>2, <1>3, <1>4

LEMMA ReviewedIs ==
    ASSUME NEW base, NEW d \in Drafts
    PROVE  Reviewed(base, d) \in Decision
BY StoryBibleAssumption DEF Reviewed, Decision

\* A plan that does not conflict with the rows leaves every name with one owner.
LEMMA NamesStay ==
    ASSUME NEW base \in Snapshots, NEW d \in Drafts, ~Conflict(base, d),
           NEW r \in Resources, NEW s \in Resources, r # s, Applied(base, d)[r] # NoRow
    PROVE  Applied(base, d)[r].name # Applied(base, d)[s].name
<1>1. ASSUME NEW t \in Resources, Applied(base, d)[t] # NoRow
      PROVE  Applied(base, d)[t].name \in Owns(base, d, t)
    <2>1. CASE Applied(base, d)[t] = base[t]
        BY <1>1, <2>1 DEF Owns
    <2>2. CASE t \in DOMAIN d /\ Applied(base, d)[t] = d[t]
        BY <2>2 DEF Owns
    <2>3. QED BY <2>1, <2>2, AppliedIs
<1>2. Owns(base, d, r) \cap Owns(base, d, s) = {}
    BY DEF Conflict
<1>3. CASE Applied(base, d)[s] # NoRow
    BY <1>1, <1>2, <1>3
<1>4. CASE Applied(base, d)[s] = NoRow
    <2>1. Applied(base, d)[r] \in Row
        BY AppliedIs DEF Snapshots
    <2>2. Applied(base, d)[r].name \in Names /\ Applied(base, d)[s].name = "none"
        BY <1>4, <2>1 DEF Row, NoRow
    <2>3. QED BY <2>2, StoryBibleAssumption
<1>5. QED BY <1>3, <1>4

-----------------------------------------------------------------------------
(* Steps *)

LEMMA InitInv == Init => Inv
<1> SUFFICES ASSUME Init PROVE Inv
    OBVIOUS
<1>1. canonical \in Snapshots
    BY DEF Init, Snapshots
<1>2. TypeOK
    <2>1. \A p \in Workers : /\ pc[p] \in Labels /\ key[p] = NoKey /\ context[p] = canonical
                            /\ draft[p] = NoDraft
        BY DEF Init, Labels
    <2>2. /\ DOMAIN runs = {} /\ DOMAIN audits = {} /\ DOMAIN reviews = {} /\ DOMAIN plans = {}
          /\ DOMAIN calls = {} /\ seen = {} /\ stale = {} /\ interrupts = 0 /\ raced = FALSE
        BY DEF Init
    <2>3. interrupts \in 0..MaxInterrupts
        BY <2>2, StoryBibleAssumption
    <2>4. QED BY <1>1, <2>1, <2>2, <2>3 DEF TypeOK
<1>3. NamesUnique
    BY DEF Init, NamesUnique
<1>4. Memory /\ Stored
    BY <1>3 DEF Init, Memory, Stored
<1>5. \A p \in Workers : Placed(p)
    BY DEF Init, Placed, Producing, Calling, ForFreeze, Writing
<1>6. OneCaller
    BY DEF Init, OneCaller, Calling
<1>7. QED BY <1>2, <1>4, <1>5, <1>6 DEF Inv

\* Worker p alone moves; its variables keep their types.
Moved(p) ==
    /\ Memory'
    /\ \A q \in Workers \ {p} :
          pc'[q] = pc[q] /\ key'[q] = key[q] /\ context'[q] = context[q] /\ draft'[q] = draft[q]
    /\ pc'[p] \in Labels /\ context'[p] \in Snapshots /\ draft'[p] \in Drafts \cup {NoDraft}
    /\ seen' \subseteq Workers /\ stale' \subseteq Workers
    /\ stale \ {p} \subseteq stale'

\* What the database does to what other workers hold.
Onward ==
    /\ DOMAIN runs \subseteq DOMAIN runs' /\ DOMAIN audits \subseteq DOMAIN audits'
    /\ DOMAIN reviews \subseteq DOMAIN reviews' /\ DOMAIN plans \subseteq DOMAIN plans'
    /\ \A k \in DOMAIN runs :
          /\ runs[k].status # "RESERVED" => runs'[k].status # "RESERVED"
          /\ runs[k].status = "SUCCEEDED" => runs'[k] = runs[k]
    /\ \A k \in DOMAIN audits : audits'[k] = audits[k]
    /\ \A k \in DOMAIN reviews :
          /\ reviews'[k].base = reviews[k].base /\ reviews'[k].draft = reviews[k].draft
          /\ reviews'[k].decision = reviews[k].decision
    /\ \A id \in DOMAIN plans :
          /\ plans'[id].draft = plans[id].draft
          /\ plans[id].committed => plans'[id].committed

\* ... among them the calls and AgentRuns of p.
LEMMA OthersPlaced ==
    ASSUME Inv, NEW p \in Workers, Moved(p), Onward,
           \A k \in DOMAIN audits' \ DOMAIN audits : k = key[p] /\ pc[p] \in Calling,
           \A k \in DOMAIN calls' \ DOMAIN calls : k = key[p] /\ pc[p] \in Calling,
           canonical' = canonical \/ \A q \in Workers \ {p} : pc[q] = "write" => q \in stale'
    PROVE  \A q \in Workers \ {p} : Placed(q)'
<1> SUFFICES ASSUME NEW q \in Workers \ {p} PROVE Placed(q)'
    OBVIOUS
<1>a. PICK k, d : k = key[q] /\ d = draft[q]
    OBVIOUS
<1>1. /\ pc'[q] = pc[q] /\ key'[q] = k /\ context'[q] = context[q] /\ draft'[q] = d
      /\ key[q] = k /\ draft[q] = d /\ Placed(q)
    BY <1>a DEF Moved, Inv
<1>2. pc[q] \in Calling => k \notin DOMAIN audits' /\ (pc[q] = "call" => k \notin DOMAIN calls')
    <2>1. ASSUME pc[q] \in Calling PROVE ~(pc[p] \in Calling /\ key[p] = k)
        BY <1>1, <2>1 DEF Inv, OneCaller
    <2>2. QED BY <1>1, <2>1 DEF Placed
<1>3. Warranted(k, d) => Warranted(k, d)'
    BY DEF Warranted, Onward
<1>4. Committed(k) => Committed(k)'
    BY DEF Committed, Onward
<1>5. /\ pc[q] \in Producing => k \in DOMAIN runs'
      /\ pc[q] \in Calling => runs'[k].status # "RESERVED"
    BY <1>1 DEF Placed, Onward, Producing, Calling
<1>6. /\ pc[q] = "saveSuccess" =>
            k \in DOMAIN audits' /\ d \in Drafts /\ audits'[k] = [status |-> "SUCCEEDED", draft |-> d]
      /\ pc[q] = "review" => runs'[k].status = "SUCCEEDED" /\ d = runs'[k].draft
    BY <1>1 DEF Placed, Onward, Producing
<1>7. /\ pc[q] \in ForFreeze => k \in DOMAIN reviews' /\ d = reviews'[k].draft
      /\ pc[q] = "saveFreeze" => context[q] = Applied(reviews'[k].base, reviews'[k].draft)
    BY <1>1 DEF Placed, Onward, ForFreeze
<1>8. /\ pc[q] \in ForFreeze \ {"freeze"} => Warranted(k, d)'
      /\ pc[q] \in Writing =>
            \/ k \notin ApiPlans /\ Warranted(k, d)'
            \/ k \in ApiPlans /\ k \in DOMAIN plans' /\ d = plans'[k].draft
      /\ pc[q] \in {"bundle", "saveFreeze"} => Committed(k)'
    BY <1>1, <1>3, <1>4 DEF Placed, Onward
<1>9. pc[q] = "write" /\ q \notin stale' => ~Conflict(canonical', d)
    BY <1>1 DEF Placed, Moved
<1>10. Warranted(key[q], draft[q])' = Warranted(k, d)' /\ Committed(key[q])' = Committed(k)'
    BY <1>1
<1>11. pc[q] = "saveAudit" => d \in Drafts
    BY <1>1 DEF Placed
<1>12. /\ pc'[q] = pc[q] /\ key'[q] = k /\ context'[q] = context[q] /\ draft'[q] = d
    BY <1>1
<1>13. /\ pc'[q] \in Calling => runs'[key'[q]].status # "RESERVED" /\ key'[q] \notin DOMAIN audits'
       /\ pc'[q] = "call" => key'[q] \notin DOMAIN calls'
       /\ pc'[q] = "saveAudit" => draft'[q] \in Drafts
       /\ pc'[q] \in Producing => key'[q] \in DOMAIN runs'
    BY <1>12, <1>2, <1>5, <1>11 DEF Calling
<1>14. /\ pc'[q] = "saveSuccess" =>
             /\ key'[q] \in DOMAIN audits' /\ draft'[q] \in Drafts
             /\ audits'[key'[q]] = [status |-> "SUCCEEDED", draft |-> draft'[q]]
       /\ pc'[q] = "review" => runs'[key'[q]].status = "SUCCEEDED" /\ draft'[q] = runs'[key'[q]].draft
    BY <1>12, <1>6
<1>15. /\ pc'[q] \in ForFreeze => key'[q] \in DOMAIN reviews' /\ draft'[q] = reviews'[key'[q]].draft
       /\ pc'[q] = "saveFreeze" =>
             context'[q] = Applied(reviews'[key'[q]].base, reviews'[key'[q]].draft)
    BY <1>12, <1>7
<1>16. /\ pc'[q] \in ForFreeze \ {"freeze"} => Warranted(key[q], draft[q])'
       /\ pc'[q] \in Writing =>
             \/ key'[q] \notin ApiPlans /\ Warranted(key[q], draft[q])'
             \/ key'[q] \in ApiPlans /\ key'[q] \in DOMAIN plans' /\ draft'[q] = plans'[key'[q]].draft
       /\ pc'[q] \in {"bundle", "saveFreeze"} => Committed(key[q])'
    BY <1>12, <1>8, <1>10
<1>17. pc'[q] = "write" /\ q \notin stale' => ~Conflict(canonical', draft'[q])
    BY <1>12, <1>9
<1>18. QED BY <1>13, <1>14, <1>15, <1>16, <1>17 DEF Placed

\* The types of what is stored, and of the counters.
StoredTypes ==
    /\ canonical \in Snapshots
    /\ \A k \in DOMAIN runs : k \in Keys /\ runs[k] \in Run
    /\ \A k \in DOMAIN audits : k \in DOMAIN runs /\ audits[k] \in Audit
    /\ \A k \in DOMAIN reviews :
        /\ k \in DOMAIN runs /\ reviews[k] \in ReviewRow
        /\ FrozenReview(k) => reviews[k].decision = "APPROVE"
    /\ \A id \in DOMAIN plans : id \in DOMAIN reviews \cup ApiPlans /\ plans[id] \in Plan
    /\ interrupts \in 0..MaxInterrupts
    /\ \A k \in DOMAIN calls : k \in DOMAIN runs /\ calls[k] \in Nat
    /\ raced \in BOOLEAN

\* A step of p that keeps the types and what is stored, and leaves p rightly placed.
LEMMA StepInv ==
    ASSUME Inv, NEW p \in Workers, Moved(p), Onward, StoredTypes', Stored', Placed(p)',
           key'[p] \in DOMAIN runs' \cup ApiPlans \cup {NoKey},
           \A k \in DOMAIN audits' \ DOMAIN audits : k = key[p] /\ pc[p] \in Calling,
           \A k \in DOMAIN calls' \ DOMAIN calls : k = key[p] /\ pc[p] \in Calling,
           canonical' = canonical \/ \A q \in Workers \ {p} : pc[q] = "write" => q \in stale',
           pc'[p] \in Calling =>
              \/ pc[p] \in Calling /\ key'[p] = key[p]
              \/ \A q \in Workers \ {p} : pc[q] \in Calling => key[q] # key'[p]
    PROVE  Inv'
<1>1. \A q \in Workers : Placed(q)'
    BY OthersPlaced
<1>2. \A q \in Workers : /\ pc'[q] \in Labels
                        /\ key'[q] \in DOMAIN runs' \cup ApiPlans \cup {NoKey}
                        /\ context'[q] \in Snapshots /\ draft'[q] \in Drafts \cup {NoDraft}
    BY DEF Inv, TypeOK, Moved, Onward
<1>3. TypeOK'
    BY <1>2 DEF StoredTypes, Moved, TypeOK
<1>4. OneCaller'
    BY DEF OneCaller, Moved, Inv
<1>5. Memory'
    BY DEF Moved
<1>6. QED BY <1>1, <1>3, <1>4, <1>5 DEF Inv

\* The ways a worker moves.
LEMMA StopMoves ==
    ASSUME Inv, NEW p \in Workers, Stop(p)
    PROVE  Moved(p) /\ pc'[p] = "idle" /\ key'[p] = NoKey /\ Placed(p)'
<1>1. Moved(p) /\ pc'[p] = "idle" /\ key'[p] = NoKey
    BY DEF Inv, TypeOK, Memory, Stop, Goto, Moved, Labels, Snapshots
<1>2. Placed(p)'
    BY <1>1 DEF Placed, Producing, Calling, ForFreeze, Writing
<1>3. QED BY <1>1, <1>2

LEMMA HoldMoves ==
    ASSUME Inv, NEW p \in Workers, NEW d \in Drafts \cup {NoDraft}, NEW label \in Labels,
           Hold(p, d, label)
    PROVE  /\ Moved(p) /\ pc'[p] = label /\ key'[p] = key[p] /\ draft'[p] = d
           /\ key' = key /\ context' = context /\ stale' = stale
BY DEF Inv, TypeOK, Memory, Hold, Goto, Moved

LEMMA GotoMoves ==
    ASSUME Inv, NEW p \in Workers, NEW label \in Labels, Goto(p, label), UNCHANGED <<localVars, stale>>
    PROVE  /\ Moved(p) /\ pc'[p] = label /\ key'[p] = key[p] /\ draft'[p] = draft[p]
           /\ key' = key /\ draft' = draft /\ context' = context /\ stale' = stale
BY DEF Inv, TypeOK, Memory, Goto, Moved, localVars

\* A step that changes nothing but what p holds.
LEMMA LocalStep ==
    ASSUME Inv, NEW p \in Workers, Moved(p), Placed(p)', UNCHANGED <<dbVars, calls, raced>>,
           interrupts' \in 0..MaxInterrupts,
           key'[p] \in DOMAIN runs \cup ApiPlans \cup {NoKey},
           pc'[p] \in Calling => pc[p] \in Calling /\ key'[p] = key[p]
    PROVE  Inv'
<1>1. StoredTypes'
    BY DEF Inv, TypeOK, StoredTypes, dbVars, FrozenReview
<1>2. Stored'
    BY DEF Inv, Stored, RunStored, ReviewStored, PlanStored, Warranted, FrozenReview, Committed,
           NamesUnique, dbVars
<1>3. Onward
    BY DEF Onward, dbVars
<1>4. QED BY <1>1, <1>2, <1>3, StepInv DEF dbVars

LEMMA StopStep ==
    ASSUME Inv, NEW p \in Workers, Stop(p), UNCHANGED <<dbVars, calls, raced>>,
           interrupts' \in 0..MaxInterrupts
    PROVE  Inv'
<1>1. Moved(p) /\ pc'[p] = "idle" /\ key'[p] = NoKey /\ Placed(p)'
    BY StopMoves
<1>2. QED BY <1>1, LocalStep DEF Calling

\* What a step that leaves the database alone leaves of it.
LEMMA SamePlace ==
    ASSUME UNCHANGED <<dbVars, calls>>, NEW k, NEW d
    PROVE  /\ Warranted(k, d)' = Warranted(k, d) /\ Committed(k)' = Committed(k)
           /\ runs' = runs /\ audits' = audits /\ reviews' = reviews /\ plans' = plans
           /\ canonical' = canonical /\ calls' = calls
BY DEF Warranted, Committed, dbVars

LEMMA BuildInv == ASSUME Inv, NEW p \in Workers, Build(p) PROVE Inv'
<1>1. Moved(p) /\ pc'[p] = "reserve" /\ key'[p] = key[p]
    BY DEF Build, At, Goto, Inv, TypeOK, Memory, Moved, Labels
<1>2. Placed(p)'
    BY <1>1 DEF Placed, Producing, Calling, ForFreeze, Writing
<1>3. interrupts' \in 0..MaxInterrupts /\ key[p] \in DOMAIN runs \cup ApiPlans \cup {NoKey}
    BY DEF Build, History, Inv, TypeOK
<1>4. QED BY <1>1, <1>2, <1>3, LocalStep DEF Build, History, Calling

LEMMA ResumeInv == ASSUME Inv, NEW p \in Workers, Resume(p) PROVE Inv'
<1>a. PICK k : k = key[p]
    OBVIOUS
<1>0. /\ pc[p] = "resume" /\ k \in DOMAIN runs /\ interrupts' \in 0..MaxInterrupts
      /\ UNCHANGED <<dbVars, calls, raced>>
    BY <1>a DEF Resume, At, Inv, TypeOK, Placed, Producing, History
<1>1. CASE k \notin DOMAIN audits
    BY <1>a, <1>0, <1>1, StopStep DEF Resume
<1>2. CASE k \in DOMAIN audits
    <2>a. PICK label : label = IF audits[k].status = "SUCCEEDED" THEN "saveSuccess" ELSE "saveError"
        OBVIOUS
    <2>1. audits[k] \in Audit /\ (audits[k].status = "SUCCEEDED" => audits[k].draft \in Drafts)
        BY <1>2 DEF Inv, TypeOK, Stored
    <2>2. \A a \in Audit : a.draft \in Drafts \cup {NoDraft} /\ a = [status |-> a.status, draft |-> a.draft]
        BY DEF Audit
    <2>3. label \in Labels /\ Hold(p, audits[k].draft, label)
        BY <1>a, <1>2, <2>a DEF Resume, Labels
    <2>4. /\ Moved(p) /\ pc'[p] = label /\ key'[p] = k /\ draft'[p] = audits[k].draft
        BY <1>a, <2>1, <2>2, <2>3, HoldMoves
    <2>5. label = "saveSuccess" \/ label = "saveError"
        BY <2>a
    <2>6. runs' = runs /\ audits' = audits
        BY <1>0 DEF dbVars
    <2>7. label = "saveSuccess" => /\ draft'[p] \in Drafts
                                   /\ audits[k] = [status |-> "SUCCEEDED", draft |-> draft'[p]]
        BY <2>a, <2>1, <2>2, <2>4
    <2>8. Placed(p)'
        BY <1>0, <1>2, <2>4, <2>5, <2>6, <2>7 DEF Placed, Producing, Calling, ForFreeze, Writing
    <2>9. QED BY <1>0, <2>4, <2>5, <2>8, LocalStep DEF Calling
<1>3. QED BY <1>1, <1>2

LEMMA FreezeAgainInv ==
    ASSUME Inv, NEW p \in Workers, NEW k \in DOMAIN reviews, FreezeAgain(p, k) PROVE Inv'
<1>0. /\ interrupts' \in 0..MaxInterrupts /\ UNCHANGED <<dbVars, calls, raced>>
    BY DEF FreezeAgain, Inv, TypeOK, History
<1>1. reviews[k].draft \in Drafts /\ k \in DOMAIN runs
    BY DEF Inv, TypeOK, ReviewRow
<1>2. Moved(p) /\ pc'[p] = "freeze" /\ key'[p] = k /\ draft'[p] = reviews[k].draft
    BY <1>1 DEF FreezeAgain, At, Goto, Inv, TypeOK, Memory, Moved, Labels
<1>3. Placed(p)'
    BY <1>0, <1>2 DEF Placed, Producing, Calling, ForFreeze, Writing, dbVars
<1>4. QED BY <1>0, <1>1, <1>2, <1>3, LocalStep DEF Calling

LEMMA ApproveInv == ASSUME Inv, NEW p \in Workers, Approve(p) PROVE Inv'
<1>0. /\ interrupts' \in 0..MaxInterrupts /\ UNCHANGED <<dbVars, calls, raced>>
    BY DEF Approve, Inv, TypeOK, History
<1>a. PICK id \in ApiPlans \cap DOMAIN plans :
          /\ key' = [key EXCEPT ![p] = id] /\ draft' = [draft EXCEPT ![p] = plans[id].draft]
          /\ Goto(p, "commit") /\ UNCHANGED <<context, seen, stale>>
    BY DEF Approve
<1>1. plans[id].draft \in Drafts
    BY DEF Inv, TypeOK, Plan
<1>2. Moved(p) /\ pc'[p] = "commit" /\ key'[p] = id /\ draft'[p] = plans[id].draft
    BY <1>a, <1>1 DEF Goto, Inv, TypeOK, Memory, Moved, Labels
<1>3. Placed(p)'
    BY <1>0, <1>2 DEF Placed, Producing, Calling, ForFreeze, Writing, dbVars
<1>4. QED BY <1>0, <1>2, <1>3, LocalStep DEF Calling

LEMMA InterruptInv == ASSUME Inv, NEW p \in Workers, Interrupt(p) PROVE Inv'
<1>1. interrupts' \in 0..MaxInterrupts
    BY StoryBibleAssumption DEF Interrupt, Inv, TypeOK
<1>2. QED BY <1>1, StopStep DEF Interrupt

LEMMA FreezeInv == ASSUME Inv, NEW p \in Workers, Freeze(p) PROVE Inv'
<1>a. PICK k : k = key[p]
    OBVIOUS
<1>0. /\ interrupts' \in 0..MaxInterrupts /\ UNCHANGED <<dbVars, calls, raced>>
      /\ pc[p] = "freeze" /\ Placed(p)
    BY DEF Freeze, At, Inv, TypeOK, History
<1>1. k \in DOMAIN reviews /\ draft[p] = reviews[k].draft /\ k \in DOMAIN runs /\ k \notin ApiPlans
    BY <1>a, <1>0, StoryBibleAssumption DEF Placed, ForFreeze, Inv, TypeOK
<1>2. CASE Unfrozen(reviews[k]) /\ Freezable(reviews[k].decision)
    <2>a. PICK label : label = IF Receipt(k) THEN "bundle" ELSE "before"
        OBVIOUS
    <2>1. Goto(p, label) /\ UNCHANGED <<localVars, stale>> /\ label \in Labels
        BY <1>a, <1>2, <2>a DEF Freeze, Or, Labels
    <2>2. Moved(p) /\ pc'[p] = label /\ key'[p] = k /\ draft'[p] = draft[p]
        BY <1>a, <2>1, GotoMoves
    <2>3. Warranted(k, draft[p]) /\ (label = "bundle" => Committed(k)) /\ label \in {"bundle", "before"}
        BY <1>1, <1>2, <2>a DEF Warranted, Freezable, Receipt, Committed
    <2>4. Warranted(key[p], draft[p])' /\ (label = "bundle" => Committed(key[p])')
        BY <1>0, <2>2, <2>3 DEF Warranted, Committed, dbVars
    <2>5. reviews' = reviews
        BY <1>0 DEF dbVars
    <2>6. Placed(p)'
        BY <1>1, <2>2, <2>3, <2>4, <2>5 DEF Placed, Producing, Calling, ForFreeze, Writing
    <2>7. QED BY <1>0, <1>1, <2>2, <2>3, <2>6, LocalStep DEF Calling
<1>3. CASE ~(Unfrozen(reviews[k]) /\ Freezable(reviews[k].decision))
    <2>1. Stop(p)
        BY <1>a, <1>3 DEF Freeze, Or
    <2>2. QED BY <1>0, <2>1, StopStep
<1>4. QED BY <1>2, <1>3

LEMMA BeforeInv == ASSUME Inv, NEW p \in Workers, Before(p) PROVE Inv'
<1>a. PICK k : k = key[p]
    OBVIOUS
<1>0. /\ interrupts' \in 0..MaxInterrupts /\ UNCHANGED <<dbVars, calls, raced>>
      /\ pc[p] = "before" /\ Placed(p)
    BY DEF Before, At, Inv, TypeOK, History
<1>1. Warranted(k, draft[p]) /\ k \in DOMAIN runs /\ k \notin ApiPlans
    BY <1>a, <1>0, StoryBibleAssumption DEF Placed, ForFreeze, Warranted, Inv, TypeOK
<1>2. CASE canonical = Base(k)
    <2>1. Goto(p, "commit") /\ UNCHANGED <<localVars, stale>>
        BY <1>a, <1>2 DEF Before, Or
    <2>2. Moved(p) /\ pc'[p] = "commit" /\ key'[p] = k /\ draft'[p] = draft[p]
        BY <1>a, <2>1, GotoMoves DEF Labels
    <2>3. Warranted(key[p], draft[p])'
        BY <1>0, <1>1, <2>2 DEF Warranted, dbVars
    <2>4. Placed(p)'
        BY <1>1, <2>2, <2>3 DEF Placed, Producing, Calling, ForFreeze, Writing
    <2>5. QED BY <1>0, <1>1, <2>2, <2>4, LocalStep DEF Calling
<1>3. CASE canonical # Base(k)
    <2>1. Stop(p)
        BY <1>a, <1>3 DEF Before, Or
    <2>2. QED BY <1>0, <2>1, StopStep
<1>4. QED BY <1>2, <1>3

LEMMA CommitInv == ASSUME Inv, NEW p \in Workers, Commit(p) PROVE Inv'
<1>a. PICK k, d : k = key[p] /\ d = draft[p]
    OBVIOUS
<1>0. /\ interrupts' \in 0..MaxInterrupts /\ UNCHANGED <<dbVars, calls, raced>>
      /\ pc[p] = "commit" /\ Placed(p) /\ key[p] \in DOMAIN runs \cup ApiPlans \cup {NoKey}
    BY DEF Commit, At, Inv, TypeOK, History
<1>1. \/ k \notin ApiPlans /\ Warranted(k, d)
      \/ k \in ApiPlans /\ k \in DOMAIN plans /\ d = plans[k].draft
    BY <1>a, <1>0 DEF Placed, Writing
<1>2. CASE Stop(p)
    BY <1>0, <1>2, StopStep
<1>3. CASE Receipt(k) /\ k \notin ApiPlans
    <2>1. Goto(p, "bundle") /\ UNCHANGED <<localVars, stale>>
        BY <1>a, <1>3 DEF Commit, Or
    <2>2. Moved(p) /\ pc'[p] = "bundle" /\ key'[p] = k /\ draft'[p] = d
        BY <1>a, <2>1, GotoMoves DEF Labels
    <2>3. Warranted(key[p], draft[p])' /\ Committed(key[p])'
        BY <1>0, <1>1, <1>3, <2>2 DEF Warranted, Receipt, Committed, dbVars
    <2>4. key'[p] \in DOMAIN reviews' /\ draft'[p] = reviews'[key'[p]].draft
        BY <2>3 DEF Warranted
    <2>5. Placed(p)'
        BY <2>2, <2>3, <2>4 DEF Placed, Producing, Calling, ForFreeze, Writing
    <2>6. QED BY <1>a, <1>0, <2>2, <2>5, LocalStep DEF Calling
<1>4. CASE ~Conflict(canonical, d) /\ Goto(p, "write") /\ UNCHANGED <<key, context, draft, stale>>
           /\ (seen' = seen \/ seen' = seen \cup {p})
    <2>1. Moved(p) /\ pc'[p] = "write" /\ key'[p] = k /\ draft'[p] = d /\ canonical' = canonical
        BY <1>a, <1>0, <1>4 DEF Goto, Inv, TypeOK, Memory, Moved, Labels, dbVars
    <2>2. \/ key'[p] \notin ApiPlans /\ Warranted(key[p], draft[p])'
          \/ key'[p] \in ApiPlans /\ key'[p] \in DOMAIN plans' /\ draft'[p] = plans'[key'[p]].draft
        BY <1>0, <1>1, <2>1 DEF Warranted, dbVars
    <2>3. Placed(p)'
        BY <1>4, <2>1, <2>2 DEF Placed, Producing, Calling, ForFreeze, Writing
    <2>4. QED BY <1>a, <1>0, <2>1, <2>3, LocalStep DEF Calling
<1>5. QED
    <2>1. CASE Receipt(k)
        BY <1>a, <1>2, <1>3, <2>1 DEF Commit, Or
    <2>2. CASE ~Receipt(k)
        BY <1>a, <1>2, <1>4, <2>2 DEF Commit
    <2>3. QED BY <2>1, <2>2

LEMMA ReadBundleInv == ASSUME Inv, NEW p \in Workers, ReadBundle(p) PROVE Inv'
<1>a. PICK k, d : k = key[p] /\ d = draft[p]
    OBVIOUS
<1>0. /\ interrupts' \in 0..MaxInterrupts /\ UNCHANGED <<dbVars, calls, raced>>
      /\ pc[p] = "bundle" /\ Placed(p) /\ key[p] \in DOMAIN runs \cup ApiPlans \cup {NoKey}
    BY DEF ReadBundle, At, Inv, TypeOK, History
<1>1. Warranted(k, d) /\ Committed(k) /\ k \in DOMAIN reviews /\ d = reviews[k].draft
    BY <1>a, <1>0 DEF Placed, ForFreeze
<1>2. CASE AsReviewed(canonical, reviews[k].base, reviews[k].draft)
    <2>1. /\ context' = [context EXCEPT ![p] = canonical] /\ Goto(p, "saveFreeze")
          /\ UNCHANGED <<key, draft, seen, stale>>
        BY <1>a, <1>2 DEF ReadBundle
    <2>2. /\ Moved(p) /\ pc'[p] = "saveFreeze" /\ key'[p] = k /\ draft'[p] = d
          /\ context'[p] = canonical
        BY <1>a, <2>1 DEF Goto, Inv, TypeOK, Memory, Moved, Labels
    <2>3. Warranted(key[p], draft[p])' /\ Committed(key[p])'
        BY <1>0, <1>1, <2>2 DEF Warranted, Committed, dbVars
    <2>4. /\ key'[p] \in DOMAIN reviews' /\ draft'[p] = reviews'[key'[p]].draft
          /\ context'[p] = Applied(reviews'[key'[p]].base, reviews'[key'[p]].draft)
        BY <1>0, <1>1, <1>2, <2>2 DEF AsReviewed, dbVars
    <2>5. Placed(p)'
        BY <2>2, <2>3, <2>4 DEF Placed, Producing, Calling, ForFreeze, Writing
    <2>6. QED BY <1>a, <1>0, <2>2, <2>5, LocalStep DEF Calling
<1>3. CASE ~AsReviewed(canonical, reviews[k].base, reviews[k].draft)
    <2>1. Stop(p)
        BY <1>a, <1>3 DEF ReadBundle
    <2>2. QED BY <1>0, <2>1, StopStep
<1>4. QED BY <1>2, <1>3

\* A step of the production runs only.
LEMMA RunsChange ==
    ASSUME Inv, UNCHANGED <<canonical, audits, reviews, plans, History>>,
           DOMAIN runs \subseteq DOMAIN runs',
           \A k \in DOMAIN runs' : k \in Keys /\ runs'[k] \in Run /\ RunStored(k)',
           \A k \in DOMAIN runs :
              /\ runs[k].status # "RESERVED" => runs'[k].status # "RESERVED"
              /\ runs[k].status = "SUCCEEDED" => runs'[k] = runs[k]
    PROVE  StoredTypes' /\ Stored' /\ Onward
<1>1. Onward
    BY DEF Onward
<1>2. StoredTypes'
    BY DEF Inv, TypeOK, StoredTypes, FrozenReview, History
<1>3. \A k \in DOMAIN reviews' : ReviewStored(k)'
    BY DEF Inv, TypeOK, Stored, ReviewStored, FrozenReview, Committed
<1>4. \A id \in DOMAIN plans' : PlanStored(id)'
    BY DEF Inv, Stored, PlanStored, Warranted
<1>5. NamesUnique' /\ (\A k \in DOMAIN calls' : calls'[k] = 1)
      /\ (\A k \in DOMAIN audits' : audits'[k].status = "SUCCEEDED" => audits'[k].draft \in Drafts)
    BY DEF Inv, Stored, NamesUnique, History
<1>6. Stored'
    BY <1>3, <1>4, <1>5 DEF Stored
<1>7. QED BY <1>1, <1>2, <1>6

LEMMA ReserveInv == ASSUME Inv, NEW p \in Workers, Reserve(p) PROVE Inv'
<1>a. PICK b, k, run :
          /\ b \in Bundles /\ k = <<b, canonical>>
          /\ run = IF k \in DOMAIN runs THEN runs[k] ELSE [status |-> "RESERVED", draft |-> NoDraft]
          /\ pc[p] = "reserve" /\ runs' = Put(runs, k, run)
          /\ IF run.status = "FAILED" THEN Stop(p)
             ELSE /\ key' = [key EXCEPT ![p] = k] /\ draft' = [draft EXCEPT ![p] = run.draft]
                  /\ Goto(p, CASE run.status = "RESERVED" -> "claim"
                               [] run.status = "RUNNING"  -> "resume"
                               [] OTHER                   -> "review")
                  /\ UNCHANGED <<context, seen, stale>>
          /\ UNCHANGED <<canonical, audits, reviews, plans, History>>
    BY DEF Reserve, At
<1>1. /\ DOMAIN runs' = DOMAIN runs \cup {k} /\ runs'[k] = run
      /\ \A x \in DOMAIN runs : runs'[x] = runs[x]
    <2>1. runs' = Put(runs, k, run) /\ (k \in DOMAIN runs => run = runs[k])
        BY <1>a
    <2>2. /\ DOMAIN runs' = DOMAIN runs \cup {k} /\ runs'[k] = run
          /\ \A x \in DOMAIN runs : x # k => runs'[x] = runs[x]
        BY <2>1 DEF Put
    <2>3. QED BY <2>1, <2>2
<1>2. k \in Keys /\ run \in Run /\ run.status \in {"RESERVED", "RUNNING", "SUCCEEDED", "FAILED"}
      /\ run.draft \in Drafts \cup {NoDraft}
    BY <1>a DEF Inv, TypeOK, Keys, Run
<1>3. \A x \in DOMAIN runs : RunStored(x)'
    BY <1>a, <1>1 DEF Inv, Stored, RunStored, History
<1>4. k \notin DOMAIN runs => RunStored(k)'
    BY <1>a, <1>1 DEF Inv, TypeOK, RunStored, History
<1>5. StoredTypes' /\ Stored' /\ Onward
    <2>1. \A x \in DOMAIN runs' : x \in Keys /\ runs'[x] \in Run /\ RunStored(x)'
        BY <1>1, <1>2, <1>3, <1>4 DEF Inv, TypeOK
    <2>2. QED BY <1>a, <1>1, <2>1, RunsChange
<1>6. CASE run.status = "FAILED"
    <2>1. Moved(p) /\ pc'[p] = "idle" /\ key'[p] = NoKey /\ Placed(p)'
        BY <1>a, <1>6, StopMoves
    <2>2. QED BY <1>a, <1>5, <2>1, StepInv DEF Calling, History
<1>7. CASE run.status # "FAILED"
    <2>a. PICK label : label = CASE run.status = "RESERVED" -> "claim"
                                 [] run.status = "RUNNING"  -> "resume"
                                 [] OTHER                   -> "review"
        OBVIOUS
    <2>1. /\ label \in {"claim", "resume", "review"}
          /\ label = "review" => run.status = "SUCCEEDED"
        BY <1>2, <1>7, <2>a
    <2>2. Moved(p) /\ pc'[p] = label /\ key'[p] = k /\ draft'[p] = run.draft
        <3>1. Goto(p, label)
            BY <1>a, <1>7, <2>a
        <3>2. QED BY <1>a, <1>2, <1>7, <2>1, <3>1 DEF Goto, Inv, TypeOK, Memory, Moved, Labels
    <2>3. Placed(p)'
        BY <1>1, <2>1, <2>2 DEF Placed, Producing, Calling, ForFreeze, Writing
    <2>4. QED BY <1>a, <1>1, <1>5, <2>1, <2>2, <2>3, StepInv DEF Calling, History
<1>8. QED BY <1>6, <1>7

LEMMA ClaimInv == ASSUME Inv, NEW p \in Workers, Claim(p) PROVE Inv'
<1>a. PICK k : k = key[p]
    OBVIOUS
<1>0. /\ pc[p] = "claim" /\ k \in DOMAIN runs /\ runs[k] \in Run /\ k \in Keys
      /\ UNCHANGED <<canonical, audits, reviews, plans, History>>
      /\ interrupts' \in 0..MaxInterrupts
    BY <1>a DEF Claim, At, Inv, TypeOK, Placed, Producing, History
<1>1. CASE runs[k].status = "RESERVED"
    <2>1. runs' = [runs EXCEPT ![k].status = "RUNNING"] /\ Hold(p, NoDraft, "call")
        BY <1>a, <1>1 DEF Claim, Claimable
    <2>2. /\ DOMAIN runs' = DOMAIN runs /\ runs'[k].status = "RUNNING" /\ runs'[k] \in Run
          /\ \A x \in DOMAIN runs : x # k => runs'[x] = runs[x]
        BY <1>0, <2>1 DEF Run
    <2>3. Moved(p) /\ pc'[p] = "call" /\ key'[p] = k
        BY <1>a, <2>1, HoldMoves DEF Labels
    <2>4. k \notin DOMAIN audits' /\ k \notin DOMAIN calls'
        BY <1>0, <1>1 DEF Inv, Stored, RunStored, History
    <2>5. StoredTypes' /\ Stored' /\ Onward
        <3>1. \A x \in DOMAIN runs' : x # k => RunStored(x)'
            BY <1>0, <2>2 DEF Inv, Stored, RunStored, History
        <3>2. RunStored(k)'
            BY <2>2 DEF RunStored
        <3>3. \A x \in DOMAIN runs' : x \in Keys /\ runs'[x] \in Run /\ RunStored(x)'
            BY <1>0, <2>2, <3>1, <3>2 DEF Inv, TypeOK
        <3>4. QED BY <1>0, <1>1, <2>2, <3>3, RunsChange
    <2>6. Placed(p)'
        BY <1>0, <2>2, <2>3, <2>4 DEF Placed, Producing, Calling, ForFreeze, Writing
    <2>7. \A q \in Workers \ {p} : pc[q] \in Calling => key[q] # k
        BY <1>1 DEF Inv, Placed
    <2>8. QED BY <1>0, <2>2, <2>3, <2>5, <2>6, <2>7, StepInv DEF History
<1>2. CASE runs[k].status # "RESERVED"
    <2>0. UNCHANGED <<dbVars, calls, raced>>
        BY <1>a, <1>0, <1>2 DEF Claim, Claimable, dbVars, History
    <2>1. CASE runs[k].status = "RUNNING"
        <3>1. Hold(p, NoDraft, "resume")
            BY <1>a, <1>2, <2>1 DEF Claim, Claimable
        <3>2. Moved(p) /\ pc'[p] = "resume" /\ key'[p] = k
            BY <1>a, <3>1, HoldMoves DEF Labels
        <3>3. Placed(p)'
            BY <1>0, <2>0, <3>2 DEF Placed, Producing, Calling, ForFreeze, Writing, dbVars
        <3>4. QED BY <1>0, <2>0, <3>2, <3>3, LocalStep DEF Calling
    <2>2. CASE runs[k].status = "SUCCEEDED"
        <3>1. Hold(p, runs[k].draft, "review")
            BY <1>a, <1>2, <2>2 DEF Claim, Claimable
        <3>2. Moved(p) /\ pc'[p] = "review" /\ key'[p] = k /\ draft'[p] = runs[k].draft
            BY <1>a, <1>0, <3>1, HoldMoves DEF Labels, Run
        <3>3. Placed(p)'
            BY <1>0, <2>0, <2>2, <3>2 DEF Placed, Producing, Calling, ForFreeze, Writing, dbVars
        <3>4. QED BY <1>0, <2>0, <3>2, <3>3, LocalStep DEF Calling
    <2>3. CASE runs[k].status = "FAILED"
        <3>1. Stop(p)
            BY <1>a, <1>2, <2>3 DEF Claim, Claimable
        <3>2. QED BY <1>0, <2>0, <3>1, StopStep
    <2>4. QED BY <1>0, <1>2, <2>1, <2>2, <2>3 DEF Run
<1>3. QED BY <1>1, <1>2

LEMMA SaveSuccessInv == ASSUME Inv, NEW p \in Workers, SaveSuccess(p) PROVE Inv'
<1>a. PICK k, d : k = key[p] /\ d = draft[p]
    OBVIOUS
<1>0. /\ pc[p] = "saveSuccess" /\ k \in DOMAIN runs /\ runs[k] \in Run /\ k \in Keys
      /\ UNCHANGED <<canonical, audits, reviews, plans, History>>
      /\ interrupts' \in 0..MaxInterrupts
      /\ k \in DOMAIN audits /\ d \in Drafts /\ audits[k] = [status |-> "SUCCEEDED", draft |-> d]
    BY <1>a DEF SaveSuccess, At, Inv, TypeOK, Placed, Producing, History
<1>1. CASE runs[k].status = "RUNNING"
    <2>1. /\ runs' = [runs EXCEPT ![k] = [status |-> "SUCCEEDED", draft |-> d]]
          /\ Goto(p, "review") /\ UNCHANGED <<localVars, stale>>
        BY <1>a, <1>1 DEF SaveSuccess, Or
    <2>2. /\ DOMAIN runs' = DOMAIN runs /\ runs'[k] = [status |-> "SUCCEEDED", draft |-> d]
          /\ \A x \in DOMAIN runs : x # k => runs'[x] = runs[x]
        BY <1>0, <2>1
    <2>3. runs'[k] \in Run /\ runs'[k].status = "SUCCEEDED" /\ runs'[k].draft = d
        BY <1>0, <2>2 DEF Run
    <2>4. Moved(p) /\ pc'[p] = "review" /\ key'[p] = k /\ draft'[p] = d
        BY <1>a, <2>1, GotoMoves DEF Labels
    <2>5. StoredTypes' /\ Stored' /\ Onward
        <3>1. \A x \in DOMAIN runs' : x # k => RunStored(x)'
            BY <1>0, <2>2 DEF Inv, Stored, RunStored, History
        <3>2. RunStored(k)'
            BY <1>0, <2>3 DEF RunStored
        <3>3. \A x \in DOMAIN runs' : x \in Keys /\ runs'[x] \in Run /\ RunStored(x)'
            BY <1>0, <2>2, <2>3, <3>1, <3>2 DEF Inv, TypeOK
        <3>4. QED BY <1>0, <1>1, <2>2, <2>3, <3>3, RunsChange
    <2>6. Placed(p)'
        BY <1>0, <2>2, <2>3, <2>4 DEF Placed, Producing, Calling, ForFreeze, Writing
    <2>7. QED BY <1>0, <2>2, <2>4, <2>5, <2>6, StepInv DEF Calling, History
<1>2. CASE runs[k].status # "RUNNING"
    <2>1. Stop(p) /\ runs' = runs
        BY <1>a, <1>2 DEF SaveSuccess, Or
    <2>2. QED BY <1>0, <2>1, StopStep DEF dbVars, History
<1>3. QED BY <1>1, <1>2

LEMMA SaveErrorInv == ASSUME Inv, NEW p \in Workers, SaveError(p) PROVE Inv'
<1>a. PICK k : k = key[p]
    OBVIOUS
<1>0. /\ k \in DOMAIN runs /\ runs[k] \in Run /\ k \in Keys /\ Stop(p)
      /\ UNCHANGED <<canonical, audits, reviews, plans, History>>
      /\ interrupts' \in 0..MaxInterrupts
    BY <1>a DEF SaveError, At, Inv, TypeOK, Placed, Producing, History
<1>1. CASE runs[k].status = "RUNNING"
    <2>1. runs' = [runs EXCEPT ![k] = [status |-> "FAILED", draft |-> NoDraft]]
        BY <1>a, <1>1 DEF SaveError
    <2>2. /\ DOMAIN runs' = DOMAIN runs /\ runs'[k] = [status |-> "FAILED", draft |-> NoDraft]
          /\ \A x \in DOMAIN runs : x # k => runs'[x] = runs[x]
        BY <1>0, <2>1
    <2>3. runs'[k] \in Run /\ runs'[k].status = "FAILED"
        BY <2>2 DEF Run
    <2>4. Moved(p) /\ pc'[p] = "idle" /\ key'[p] = NoKey /\ Placed(p)'
        BY <1>0, StopMoves
    <2>5. StoredTypes' /\ Stored' /\ Onward
        <3>1. \A x \in DOMAIN runs' : x # k => RunStored(x)'
            BY <1>0, <2>2 DEF Inv, Stored, RunStored, History
        <3>2. RunStored(k)'
            BY <2>3 DEF RunStored
        <3>3. \A x \in DOMAIN runs' : x \in Keys /\ runs'[x] \in Run /\ RunStored(x)'
            BY <1>0, <2>2, <2>3, <3>1, <3>2 DEF Inv, TypeOK
        <3>4. QED BY <1>0, <1>1, <2>2, <2>3, <3>3, RunsChange
    <2>6. QED BY <1>0, <2>4, <2>5, StepInv DEF Calling, History
<1>2. CASE runs[k].status # "RUNNING"
    <2>1. runs' = runs
        BY <1>a, <1>2 DEF SaveError
    <2>2. QED BY <1>0, <2>1, StopStep DEF dbVars, History
<1>3. QED BY <1>1, <1>2

\* The AgentRun of the only caller is saved.
LEMMA AuditSaved ==
    ASSUME Inv, NEW p \in Workers, pc[p] \in Calling, NEW a \in Audit,
           a.status = "SUCCEEDED" => a.draft \in Drafts,
           audits' = Put(audits, key[p], a), UNCHANGED <<canonical, runs, reviews, plans, History>>
    PROVE  /\ StoredTypes' /\ Stored' /\ Onward
           /\ DOMAIN audits' = DOMAIN audits \cup {key[p]} /\ audits'[key[p]] = a
<1>a. PICK k : k = key[p]
    OBVIOUS
<1>0. k \in DOMAIN runs /\ runs[k].status # "RESERVED" /\ k \notin DOMAIN audits
    BY <1>a DEF Inv, Placed, Calling, Producing
<1>1. /\ DOMAIN audits' = DOMAIN audits \cup {k} /\ audits'[k] = a
      /\ \A x \in DOMAIN audits : audits'[x] = audits[x]
    BY <1>a, <1>0 DEF Put
<1>2. Onward
    BY <1>1 DEF Onward
<1>3. StoredTypes'
    BY <1>0, <1>1 DEF Inv, TypeOK, StoredTypes, FrozenReview, History
<1>4. \A x \in DOMAIN runs' : RunStored(x)'
    BY <1>0, <1>1 DEF Inv, Stored, RunStored, History
<1>5. \A x \in DOMAIN reviews' : ReviewStored(x)'
    BY DEF Inv, Stored, ReviewStored, FrozenReview, Committed
<1>6. \A id \in DOMAIN plans' : PlanStored(id)'
    BY DEF Inv, Stored, PlanStored, Warranted
<1>7. NamesUnique' /\ (\A x \in DOMAIN calls' : calls'[x] = 1)
    BY DEF Inv, Stored, NamesUnique, History
<1>8. \A x \in DOMAIN audits' : audits'[x].status = "SUCCEEDED" => audits'[x].draft \in Drafts
    BY <1>1 DEF Inv, Stored
<1>9. Stored'
    BY <1>4, <1>5, <1>6, <1>7, <1>8 DEF Stored
<1>10. QED BY <1>a, <1>1, <1>2, <1>3, <1>9

LEMMA SaveAuditInv == ASSUME Inv, NEW p \in Workers, SaveAudit(p) PROVE Inv'
<1>a. PICK k, d : k = key[p] /\ d = draft[p]
    OBVIOUS
<1>0. /\ pc[p] = "saveAudit" /\ k \in DOMAIN runs /\ d \in Drafts
      /\ UNCHANGED <<canonical, runs, reviews, plans, localVars, stale, History>>
      /\ interrupts' \in 0..MaxInterrupts
    BY <1>a DEF SaveAudit, At, Inv, TypeOK, Placed, Producing, History
<1>1. CASE /\ audits' = Put(audits, k, [status |-> "SUCCEEDED", draft |-> d])
           /\ Goto(p, "saveSuccess")
    <2>1. /\ [status |-> "SUCCEEDED", draft |-> d] \in Audit
          /\ [status |-> "SUCCEEDED", draft |-> d].draft \in Drafts
        BY <1>0 DEF Audit
    <2>2. /\ StoredTypes' /\ Stored' /\ Onward
          /\ DOMAIN audits' = DOMAIN audits \cup {k}
          /\ audits'[k] = [status |-> "SUCCEEDED", draft |-> d]
        BY <1>a, <1>0, <1>1, <2>1, AuditSaved DEF Calling
    <2>3. Moved(p) /\ pc'[p] = "saveSuccess" /\ key'[p] = k /\ draft'[p] = d
        BY <1>a, <1>0, <1>1, GotoMoves DEF Labels
    <2>4. Placed(p)'
        BY <1>0, <2>2, <2>3 DEF Placed, Producing, Calling, ForFreeze, Writing
    <2>5. QED BY <1>a, <1>0, <2>2, <2>3, <2>4, StepInv DEF Calling, History
<1>2. CASE UNCHANGED audits /\ Goto(p, AfterAuditError)
    <2>1. Moved(p) /\ pc'[p] = "saveError" /\ key'[p] = k
        BY <1>a, <1>0, <1>2, GotoMoves DEF Labels, AfterAuditError
    <2>2. Placed(p)'
        BY <1>0, <2>1 DEF Placed, Producing, Calling, ForFreeze, Writing
    <2>3. QED BY <1>0, <1>2, <2>1, <2>2, LocalStep DEF Calling, History, dbVars
<1>3. QED BY <1>a, <1>1, <1>2 DEF SaveAudit

LEMMA SaveFailedAuditInv == ASSUME Inv, NEW p \in Workers, SaveFailedAudit(p) PROVE Inv'
<1>a. PICK k : k = key[p]
    OBVIOUS
<1>0. /\ pc[p] = "saveFailedAudit" /\ k \in DOMAIN runs /\ Goto(p, "saveError")
      /\ UNCHANGED <<canonical, runs, reviews, plans, localVars, stale, History>>
      /\ interrupts' \in 0..MaxInterrupts
    BY <1>a DEF SaveFailedAudit, At, Inv, TypeOK, Placed, Producing, History
<1>1. Moved(p) /\ pc'[p] = "saveError" /\ key'[p] = k
    BY <1>a, <1>0, GotoMoves DEF Labels
<1>2. Placed(p)'
    BY <1>0, <1>1 DEF Placed, Producing, Calling, ForFreeze, Writing
<1>3. CASE audits' = Put(audits, k, [status |-> "FAILED", draft |-> NoDraft])
    <2>1. /\ [status |-> "FAILED", draft |-> NoDraft] \in Audit
          /\ [status |-> "FAILED", draft |-> NoDraft].status # "SUCCEEDED"
        BY DEF Audit
    <2>2. /\ StoredTypes' /\ Stored' /\ Onward /\ DOMAIN audits' = DOMAIN audits \cup {k}
        BY <1>a, <1>0, <1>3, <2>1, AuditSaved DEF Calling
    <2>3. QED BY <1>a, <1>0, <1>1, <1>2, <2>2, StepInv DEF Calling, History
<1>4. CASE UNCHANGED audits
    BY <1>0, <1>1, <1>2, <1>4, LocalStep DEF Calling, History, dbVars
<1>5. QED BY <1>a, <1>3, <1>4 DEF SaveFailedAudit

LEMMA CallInv == ASSUME Inv, NEW p \in Workers, Call(p) PROVE Inv'
<1>a. PICK k, n : k = key[p] /\ n = IF k \in DOMAIN calls THEN calls[k] + 1 ELSE 1
    OBVIOUS
<1>0. /\ pc[p] = "call" /\ k \in DOMAIN runs /\ runs[k].status # "RESERVED"
      /\ k \notin DOMAIN audits /\ k \notin DOMAIN calls
      /\ UNCHANGED <<dbVars, interrupts, raced>> /\ interrupts' \in 0..MaxInterrupts
    BY <1>a DEF Call, At, Inv, TypeOK, Placed, Producing, Calling
<1>1. /\ DOMAIN calls' = DOMAIN calls \cup {k} /\ calls'[k] = 1
      /\ \A x \in DOMAIN calls : calls'[x] = calls[x]
    <2>1. calls' = Put(calls, k, n) /\ n = 1
        BY <1>a, <1>0 DEF Call
    <2>2. QED BY <1>0, <2>1 DEF Put
<1>2. PICK e, label : /\ Hold(p, e, label)
                      /\ \/ e \in Drafts /\ label = "saveAudit"
                         \/ e = NoDraft /\ label = "saveFailedAudit"
    BY DEF Call
<1>3. Moved(p) /\ pc'[p] = label /\ key'[p] = k /\ draft'[p] = e
    BY <1>a, <1>2, HoldMoves DEF Labels
<1>4. Onward
    BY <1>0 DEF Onward, dbVars
<1>5. StoredTypes'
    BY <1>0, <1>1 DEF Inv, TypeOK, StoredTypes, FrozenReview, dbVars
<1>6. Stored'
    <2>1. \A x \in DOMAIN runs' : RunStored(x)'
        BY <1>0, <1>1 DEF Inv, Stored, RunStored, dbVars
    <2>2. \A x \in DOMAIN calls' : calls'[x] = 1
        BY <1>1 DEF Inv, Stored
    <2>3. QED BY <1>0, <2>1, <2>2 DEF Inv, Stored, ReviewStored, PlanStored, Warranted,
                                     FrozenReview, Committed, NamesUnique, dbVars
<1>7. Placed(p)'
    BY <1>0, <1>2, <1>3 DEF Placed, Producing, Calling, ForFreeze, Writing, dbVars
<1>8. QED BY <1>a, <1>0, <1>1, <1>2, <1>3, <1>4, <1>5, <1>6, <1>7, StepInv DEF Calling, dbVars

LEMMA CurateInv == ASSUME Inv, Curate PROVE Inv'
<1>a. PICK id \in ApiPlans \ DOMAIN plans, d \in Drafts :
          /\ plans' = Put(plans, id, [draft |-> d, committed |-> FALSE])
          /\ UNCHANGED <<canonical, runs, audits, reviews, pc, localVars, stale, History>>
    BY DEF Curate
<1>1. /\ DOMAIN plans' = DOMAIN plans \cup {id} /\ plans'[id] = [draft |-> d, committed |-> FALSE]
      /\ \A x \in DOMAIN plans : plans'[x] = plans[x]
    BY <1>a DEF Put
<1>2. plans'[id] \in Plan /\ ~plans'[id].committed
    BY <1>1 DEF Plan
<1>3. \A x : Committed(x) = Committed(x)'
    BY <1>1, <1>2 DEF Committed
<1>4. \A x, e : Warranted(x, e) = Warranted(x, e)'
    BY <1>a DEF Warranted
<1>5. TypeOK'
    BY <1>a, <1>1, <1>2 DEF Inv, TypeOK, FrozenReview, localVars, History
<1>6. Memory' /\ OneCaller'
    BY <1>a DEF Inv, Memory, OneCaller, localVars
<1>7. Stored'
    <2>1. \A x \in DOMAIN runs' : RunStored(x)'
        BY <1>a DEF Inv, Stored, RunStored, History
    <2>2. \A x \in DOMAIN reviews' : ReviewStored(x)'
        BY <1>a, <1>3 DEF Inv, Stored, ReviewStored, FrozenReview
    <2>3. \A x \in DOMAIN plans : PlanStored(x)'
        BY <1>a, <1>1, <1>4 DEF Inv, Stored, PlanStored
    <2>4. PlanStored(id)'
        BY <1>2 DEF PlanStored
    <2>5. QED BY <1>a, <1>1, <2>1, <2>2, <2>3, <2>4 DEF Inv, Stored, NamesUnique, History
<1>8. ASSUME NEW p \in Workers PROVE Placed(p)'
    <2>1. Placed(p)
        BY DEF Inv
    <2>2. /\ pc' = pc /\ key' = key /\ draft' = draft /\ context' = context /\ runs' = runs
          /\ audits' = audits /\ reviews' = reviews /\ calls' = calls /\ canonical' = canonical
          /\ stale' = stale
        BY <1>a DEF localVars, History
    <2>3. Warranted(key[p], draft[p])' = Warranted(key[p], draft[p]) /\ Committed(key[p])' = Committed(key[p])
        BY <1>3, <1>4, <2>2
    <2>4. QED BY <1>1, <2>1, <2>2, <2>3 DEF Placed
<1>9. QED BY <1>5, <1>6, <1>7, <1>8 DEF Inv

\* A step of the reviews only, which keeps what the others rely on.
LEMMA ReviewsChange ==
    ASSUME Inv, UNCHANGED <<canonical, runs, audits, plans, History>>,
           DOMAIN reviews \subseteq DOMAIN reviews',
           \A k \in DOMAIN reviews' :
              /\ k \in DOMAIN runs /\ reviews'[k] \in ReviewRow /\ ReviewStored(k)'
              /\ FrozenReview(k)' => reviews'[k].decision = "APPROVE",
           \A k \in DOMAIN reviews :
              /\ reviews'[k].base = reviews[k].base /\ reviews'[k].draft = reviews[k].draft
              /\ reviews'[k].decision = reviews[k].decision
    PROVE  StoredTypes' /\ Stored' /\ Onward
<1>1. Onward
    BY DEF Onward
<1>2. StoredTypes'
    BY DEF Inv, TypeOK, StoredTypes, History
<1>3. \A id \in DOMAIN plans' : PlanStored(id)'
    BY DEF Inv, Stored, PlanStored, Warranted
<1>4. \A k \in DOMAIN runs' : RunStored(k)'
    BY DEF Inv, Stored, RunStored, History
<1>5. Stored'
    BY <1>3, <1>4 DEF Inv, Stored, NamesUnique, History
<1>6. QED BY <1>1, <1>2, <1>5

LEMMA ReviewInv == ASSUME Inv, NEW p \in Workers, Review(p) PROVE Inv'
<1>a. PICK k, d, c, e : k = key[p] /\ d = draft[p] /\ c = context[p] /\ e = Reviewed(c, d)
    OBVIOUS
<1>0. /\ pc[p] = "review" /\ k \in DOMAIN runs /\ runs[k].status = "SUCCEEDED"
      /\ d = runs[k].draft /\ d \in Drafts /\ c \in Snapshots /\ e \in Decision
      /\ UNCHANGED <<canonical, runs, audits, plans, History>> /\ interrupts' \in 0..MaxInterrupts
    <2>1. /\ pc[p] = "review" /\ k \in DOMAIN runs /\ runs[k].status = "SUCCEEDED"
          /\ d = runs[k].draft /\ c \in Snapshots
          /\ UNCHANGED <<canonical, runs, audits, plans, History>> /\ interrupts' \in 0..MaxInterrupts
        BY <1>a DEF Review, At, Inv, TypeOK, Placed, Producing, History
    <2>2. d \in Drafts
        BY <2>1 DEF Inv, Stored, RunStored
    <2>3. QED BY <1>a, <2>1, <2>2, ReviewedIs
<1>1. CASE c # Base(k)
    <2>1. reviews' = reviews /\ Stop(p)
        BY <1>a, <1>1 DEF Review, SameContext, Or
    <2>2. QED BY <1>0, <2>1, StopStep DEF dbVars, History
<1>2. CASE c = Base(k)
    <2>a. PICK new : new = [base |-> c, draft |-> d, decision |-> e, frozen |-> NotFrozen]
        OBVIOUS
    <2>1. /\ reviews' = IF k \notin DOMAIN reviews THEN Put(reviews, k, new) ELSE reviews
          /\ Or(p, e = "APPROVE", "freeze")
        BY <1>a, <1>0, <1>2, <2>a DEF Review, SameContext
    <2>2. /\ new \in ReviewRow /\ new.base = c /\ new.draft = d /\ new.decision = e
          /\ new.frozen = NotFrozen
        BY <1>0, <2>a DEF ReviewRow, Bundle
    <2>3. /\ DOMAIN reviews' = DOMAIN reviews \cup {k}
          /\ k \notin DOMAIN reviews => reviews'[k] = new
          /\ \A x \in DOMAIN reviews : reviews'[x] = reviews[x]
        BY <2>1 DEF Put
    <2>4. \A x \in DOMAIN reviews :
              /\ x \in DOMAIN runs /\ reviews'[x] \in ReviewRow /\ ReviewStored(x)'
              /\ FrozenReview(x)' => reviews'[x].decision = "APPROVE"
        BY <1>0, <2>3 DEF Inv, TypeOK, Stored, ReviewStored, FrozenReview, Committed
    <2>5. k \notin DOMAIN reviews =>
              /\ reviews'[k] \in ReviewRow /\ ReviewStored(k)' /\ ~FrozenReview(k)'
        BY <1>a, <1>0, <1>2, <2>2, <2>3 DEF ReviewStored, FrozenReview
    <2>6. StoredTypes' /\ Stored' /\ Onward
        BY <1>0, <2>3, <2>4, <2>5, ReviewsChange
    <2>7. CASE e = "APPROVE"
        <3>1. Goto(p, "freeze") /\ UNCHANGED <<localVars, stale>>
            BY <2>1, <2>7 DEF Or
        <3>2. Moved(p) /\ pc'[p] = "freeze" /\ key'[p] = k /\ draft'[p] = d
            BY <1>a, <3>1, GotoMoves DEF Labels
        <3>3. k \in DOMAIN reviews' /\ d = reviews'[k].draft
            BY <1>0, <2>2, <2>3 DEF Inv, Stored, ReviewStored
        <3>4. Placed(p)'
            BY <3>2, <3>3 DEF Placed, Producing, Calling, ForFreeze, Writing
        <3>5. QED BY <1>0, <2>6, <3>2, <3>4, StepInv DEF Calling, History
    <2>8. CASE e # "APPROVE"
        <3>1. Moved(p) /\ pc'[p] = "idle" /\ key'[p] = NoKey /\ Placed(p)'
            BY <2>1, <2>8, StopMoves DEF Or
        <3>2. QED BY <1>0, <2>6, <3>1, StepInv DEF Calling, History
    <2>9. QED BY <2>7, <2>8
<1>3. QED BY <1>1, <1>2

LEMMA SaveFreezeInv == ASSUME Inv, NEW p \in Workers, SaveFreeze(p) PROVE Inv'
<1>a. PICK k, c : k = key[p] /\ c = context[p]
    OBVIOUS
<1>0. /\ k \in DOMAIN reviews /\ k \in DOMAIN runs /\ reviews[k] \in ReviewRow /\ c \in Snapshots
      /\ reviews[k].decision = "APPROVE" /\ Committed(k)
      /\ c = Applied(reviews[k].base, reviews[k].draft) /\ Stop(p)
      /\ UNCHANGED <<canonical, runs, audits, plans, History>> /\ interrupts' \in 0..MaxInterrupts
    BY <1>a DEF SaveFreeze, At, Inv, TypeOK, Placed, ForFreeze, Warranted, History
<1>1. CASE Unfrozen(reviews[k])
    <2>a. PICK b : b = [content |-> c, by |-> p]
        OBVIOUS
    <2>1. reviews' = [reviews EXCEPT ![k].frozen = b]
        BY <1>a, <1>1, <2>a DEF SaveFreeze
    <2>2. b \in Bundle /\ b.content = c
        BY <1>0, <2>a DEF Bundle
    <2>3. /\ DOMAIN reviews' = DOMAIN reviews
          /\ reviews'[k] \in ReviewRow /\ reviews'[k].frozen = b
          /\ reviews'[k].base = reviews[k].base /\ reviews'[k].draft = reviews[k].draft
          /\ reviews'[k].decision = reviews[k].decision
          /\ \A x \in DOMAIN reviews : x # k => reviews'[x] = reviews[x]
        BY <1>0, <2>1, <2>2 DEF ReviewRow
    <2>4. \A x \in DOMAIN reviews : x # k =>
              /\ x \in DOMAIN runs /\ reviews'[x] \in ReviewRow /\ ReviewStored(x)'
              /\ FrozenReview(x)' => reviews'[x].decision = "APPROVE"
        BY <1>0, <2>3 DEF Inv, TypeOK, Stored, ReviewStored, FrozenReview, Committed
    <2>5. ReviewStored(k)' /\ reviews'[k].decision = "APPROVE"
        BY <1>0, <2>2, <2>3 DEF Inv, Stored, ReviewStored, Committed
    <2>6. StoredTypes' /\ Stored' /\ Onward
        BY <1>0, <2>3, <2>4, <2>5, ReviewsChange
    <2>7. Moved(p) /\ pc'[p] = "idle" /\ key'[p] = NoKey /\ Placed(p)'
        BY <1>0, StopMoves
    <2>8. QED BY <1>0, <2>6, <2>7, StepInv DEF Calling, History
<1>2. CASE ~Unfrozen(reviews[k])
    <2>1. reviews' = reviews
        BY <1>a, <1>2 DEF SaveFreeze
    <2>2. QED BY <1>0, <2>1, StopStep DEF dbVars, History
<1>3. QED BY <1>1, <1>2

\* The rows of a plan that is written: they are in force, those of the others stay in force,
\* and names stay unique unless the rows changed after the plan was validated.
LEMMA Written ==
    ASSUME Inv, NEW p \in Workers, pc[p] = "write", NEW k, k = key[p], NEW d \in Drafts, d = draft[p],
           k \in DOMAIN runs \cup ApiPlans,
           k \notin ApiPlans => Warranted(k, d),
           k \in DOMAIN plans => plans[k].draft = d,
           canonical' = Applied(canonical, d),
           plans' = Put(plans, k, [draft |-> d, committed |-> TRUE]),
           raced' = (raced \/ p \in stale),
           UNCHANGED <<runs, audits, reviews, interrupts, calls>>
    PROVE  /\ StoredTypes' /\ Stored' /\ Onward
           /\ Committed(k)' /\ \A x, e : Warranted(x, e)' = Warranted(x, e)
<1>1. /\ DOMAIN plans' = DOMAIN plans \cup {k} /\ plans'[k] = [draft |-> d, committed |-> TRUE]
      /\ \A x \in DOMAIN plans : x # k => plans'[x] = plans[x]
    BY DEF Put
<1>2. plans'[k] \in Plan /\ plans'[k].committed /\ plans'[k].draft = d
    <2>1. /\ [draft |-> d, committed |-> TRUE] \in Plan /\ [draft |-> d, committed |-> TRUE].committed
          /\ [draft |-> d, committed |-> TRUE].draft = d
        BY DEF Plan
    <2>2. QED BY <1>1, <2>1
<1>3. Committed(k)' /\ (\A x, e : Warranted(x, e)' = Warranted(x, e))
      /\ (\A x : Committed(x) => Committed(x)')
    BY <1>1, <1>2 DEF Committed, Warranted
<1>4. Onward
    BY <1>1, <1>2 DEF Onward
<1>5. canonical \in Snapshots /\ canonical' \in Snapshots
    BY AppliedIs DEF Inv, TypeOK
<1>6. StoredTypes'
    <2>1. \A x \in DOMAIN plans' : x \in DOMAIN reviews \cup ApiPlans /\ plans'[x] \in Plan
        BY <1>1, <1>2 DEF Inv, TypeOK, Warranted
    <2>2. QED BY <1>5, <2>1 DEF Inv, TypeOK, StoredTypes, FrozenReview
<1>7. /\ \A r \in Resources :
            canonical[r].rev \in Nat /\ canonical'[r].rev \in Nat /\ canonical'[r].rev >= canonical[r].rev
      /\ \A r \in DOMAIN d : canonical'[r].rev >= d[r].rev
    BY <1>5, AppliedIs DEF Snapshots, Row, NoRow
<1>8. \A x \in DOMAIN plans : x # k => PlanStored(x)'
    <2> SUFFICES ASSUME NEW x \in DOMAIN plans, x # k PROVE PlanStored(x)'
        OBVIOUS
    <2>1. PlanStored(x) /\ plans'[x] = plans[x] /\ plans[x].draft \in Drafts
        BY <1>1 DEF Inv, TypeOK, Stored, Plan
    <2>2. ASSUME plans[x].committed, NEW r \in DOMAIN plans[x].draft
          PROVE  canonical'[r].rev >= plans[x].draft[r].rev
        <3>1. canonical[r].rev >= plans[x].draft[r].rev
            BY <2>1, <2>2 DEF PlanStored
        <3>2. r \in Resources /\ plans[x].draft[r].rev \in Nat
            BY <2>1, <2>2, StoryBibleAssumption DEF Row
        <3>3. PICK m \in Nat, n \in Nat, o \in Nat :
                  m = canonical[r].rev /\ n = canonical'[r].rev /\ o = plans[x].draft[r].rev
            BY <1>7, <3>2
        <3>4. n >= m /\ m >= o
            BY <1>7, <3>1, <3>2, <3>3
        <3>5. n >= o
            BY <3>4
        <3>6. QED BY <3>3, <3>5
    <2>3. x \notin ApiPlans => Warranted(x, plans[x].draft)'
        BY <2>1 DEF PlanStored, Warranted
    <2>4. QED BY <2>1, <2>2, <2>3 DEF PlanStored
<1>9. PlanStored(k)'
    <2>1. k \notin ApiPlans => Warranted(k, plans[k].draft)'
        BY <1>2 DEF Warranted
    <2>2. QED BY <1>2, <1>7, <2>1 DEF PlanStored
<1>10. NamesUnique'
    <2> SUFFICES ASSUME ~raced', NEW r \in Resources, NEW s \in Resources, r # s, canonical'[r] # NoRow
                 PROVE  canonical'[r].name # canonical'[s].name
        BY DEF NamesUnique
    <2>1. p \notin stale
        BY DEF Inv, TypeOK
    <2>2. ~Conflict(canonical, d)
        BY <2>1 DEF Inv, Placed
    <2>3. QED BY <1>5, <2>2, NamesStay
<1>11. \A x \in DOMAIN reviews' : ReviewStored(x)'
    BY <1>3 DEF Inv, Stored, ReviewStored, FrozenReview
<1>12. \A x \in DOMAIN runs' : RunStored(x)'
    BY DEF Inv, Stored, RunStored
<1>13. Stored'
    <2>1. \A x \in DOMAIN plans' : PlanStored(x)'
        BY <1>1, <1>8, <1>9
    <2>2. QED BY <1>10, <1>11, <1>12, <2>1 DEF Inv, Stored
<1>14. QED BY <1>3, <1>4, <1>6, <1>13

\* The plan a worker holds is the stored one, if there is one.
LEMMA PlanHeld ==
    ASSUME Inv, NEW p \in Workers, pc[p] = "write", NEW k, NEW d, k = key[p], d = draft[p]
    PROVE  /\ d \in Drafts /\ k \in DOMAIN runs \cup ApiPlans
           /\ k \notin ApiPlans => Warranted(k, d)
           /\ k \in DOMAIN plans => plans[k].draft = d
<1>1. \/ k \notin ApiPlans /\ Warranted(k, d)
      \/ k \in ApiPlans /\ k \in DOMAIN plans /\ d = plans[k].draft
    BY DEF Inv, Placed, Writing
<1>2. CASE k \notin ApiPlans
    <2>1. k \in DOMAIN runs /\ d \in Drafts
        BY <1>1, <1>2 DEF Warranted, Inv, TypeOK, ReviewRow
    <2>2. k \in DOMAIN plans => plans[k].draft = d
        BY <1>1, <1>2 DEF Inv, Stored, PlanStored, Warranted
    <2>3. QED BY <1>1, <2>1, <2>2
<1>3. CASE k \in ApiPlans
    BY <1>1, <1>3 DEF Inv, TypeOK, Plan
<1>4. QED BY <1>2, <1>3

LEMMA WriteInv == ASSUME Inv, NEW p \in Workers, Write(p) PROVE Inv'
<1>a. PICK k, d : k = key[p] /\ d = draft[p]
    OBVIOUS
<1>0. /\ pc[p] = "write" /\ interrupts' \in 0..MaxInterrupts
      /\ UNCHANGED <<runs, audits, reviews, interrupts, calls>>
    BY DEF Write, At, Inv, TypeOK
<1>1. CASE Stop(p) /\ UNCHANGED <<canonical, plans, raced>>
    BY <1>0, <1>1, StopStep DEF dbVars
<1>2. CASE /\ canonical' = Applied(canonical, d)
           /\ plans' = Put(plans, k, [draft |-> d, committed |-> TRUE])
           /\ raced' = (raced \/ p \in stale)
           /\ IF k \notin ApiPlans
              THEN Goto(p, "bundle") /\ UNCHANGED localVars
              ELSE /\ Goto(p, "idle")
                   /\ key' = [key EXCEPT ![p] = NoKey]
                   /\ draft' = [draft EXCEPT ![p] = NoDraft]
                   /\ seen' = seen \ {p}
                   /\ UNCHANGED context
           /\ stale' = (stale \cup {q \in Workers \ {p} : At(q, "write")}) \ {p}
    <2>1. /\ d \in Drafts /\ k \in DOMAIN runs \cup ApiPlans
          /\ k \notin ApiPlans => Warranted(k, d)
          /\ k \in DOMAIN plans => plans[k].draft = d
        BY <1>a, <1>0, PlanHeld
    <2>2. /\ StoredTypes' /\ Stored' /\ Onward
          /\ Committed(k)' /\ \A x, e : Warranted(x, e)' = Warranted(x, e)
        BY <1>a, <1>0, <1>2, <2>1, Written
    <2>3. stale' \subseteq Workers /\ stale \ {p} \subseteq stale'
          /\ \A q \in Workers \ {p} : pc[q] = "write" => q \in stale'
        BY <1>2 DEF Inv, TypeOK, At
    <2>4. CASE k \notin ApiPlans
        <3>1. Moved(p) /\ pc'[p] = "bundle" /\ key'[p] = k /\ draft'[p] = d
            BY <1>a, <1>2, <2>3, <2>4 DEF Goto, Inv, TypeOK, Memory, Moved, Labels, localVars
        <3>2. Warranted(key[p], draft[p])' /\ Committed(key[p])'
            BY <2>1, <2>2, <2>4, <3>1 DEF Warranted, Committed
        <3>3. key'[p] \in DOMAIN reviews' /\ draft'[p] = reviews'[key'[p]].draft
            BY <3>2 DEF Warranted
        <3>4. Placed(p)'
            BY <3>1, <3>2, <3>3 DEF Placed, Producing, Calling, ForFreeze, Writing
        <3>5. QED BY <1>0, <2>1, <2>2, <2>3, <3>1, <3>4, StepInv DEF Calling
    <2>5. CASE k \in ApiPlans
        <3>1. Moved(p) /\ pc'[p] = "idle" /\ key'[p] = NoKey
            BY <1>2, <2>3, <2>5 DEF Goto, Inv, TypeOK, Memory, Moved, Labels
        <3>2. Placed(p)'
            BY <3>1 DEF Placed, Producing, Calling, ForFreeze, Writing
        <3>3. QED BY <1>0, <2>2, <2>3, <3>1, <3>2, StepInv DEF Calling
    <2>6. QED BY <2>4, <2>5
<1>3. CASE k \in DOMAIN plans /\ p \notin seen
    BY <1>a, <1>1, <1>3 DEF Write
<1>4. CASE ~(k \in DOMAIN plans /\ p \notin seen)
    BY <1>a, <1>2, <1>4 DEF Write
<1>5. QED BY <1>3, <1>4

-----------------------------------------------------------------------------
LEMMA NextInv == Inv /\ [Next]_vars => Inv'
<1> SUFFICES ASSUME Inv, [Next]_vars PROVE Inv'
    OBVIOUS
<1>1. CASE Curate
    BY <1>1, CurateInv
<1>2. ASSUME NEW p \in Workers, Production(p) PROVE Inv'
    BY <1>2, BuildInv, ReserveInv, ClaimInv, CallInv, SaveAuditInv, SaveFailedAuditInv,
       SaveSuccessInv, SaveErrorInv, ResumeInv, ReviewInv DEF Production
<1>3. ASSUME NEW p \in Workers, Freezing(p) PROVE Inv'
    BY <1>3, FreezeInv, BeforeInv, CommitInv, WriteInv, ReadBundleInv, SaveFreezeInv DEF Freezing
<1>4. ASSUME NEW p \in Workers, Approve(p) \/ Interrupt(p) PROVE Inv'
    BY <1>4, ApproveInv, InterruptInv
<1>5. ASSUME NEW p \in Workers, NEW k \in DOMAIN reviews, FreezeAgain(p, k) PROVE Inv'
    BY <1>5, FreezeAgainInv
<1>6. CASE UNCHANGED vars
    <2>1. UNCHANGED <<canonical, runs, audits, reviews, plans, pc, key, context, draft, seen,
                      interrupts, calls, stale, raced>>
        BY <1>6 DEF vars, dbVars, localVars
    <2>2. TypeOK' /\ Memory' /\ OneCaller'
        BY <2>1 DEF Inv, TypeOK, FrozenReview, Memory, OneCaller
    <2>3. Stored'
        BY <2>1 DEF Inv, Stored, RunStored, ReviewStored, PlanStored, Warranted, FrozenReview,
                    Committed, NamesUnique
    <2>4. \A p \in Workers : Placed(p)'
        BY <2>1 DEF Inv, Placed, Warranted, Committed
    <2>5. QED BY <2>2, <2>3, <2>4 DEF Inv
<1>7. QED BY <1>1, <1>2, <1>3, <1>4, <1>5, <1>6 DEF Next

LEMMA SpecInv == Spec => []Inv
BY InitInv, NextInv, PTL DEF Spec

\* Of all steps, Write alone changes the canonical rows, and by a plan of later revisions.
LEMMA RowsStep ==
    ASSUME Inv, [Next]_vars
    PROVE  \/ canonical' = canonical
           \/ \A r \in Resources : canonical'[r] = canonical[r] \/ canonical'[r].rev > canonical[r].rev
<1>1. ASSUME NEW p \in Workers, Write(p), canonical' # canonical
      PROVE  \A r \in Resources : canonical'[r] = canonical[r] \/ canonical'[r].rev > canonical[r].rev
    <2>a. PICK d : d = draft[p]
        OBVIOUS
    <2>1. pc[p] = "write" /\ canonical' = Applied(canonical, d)
        BY <1>1, <2>a DEF Write, At
    <2>2. canonical \in Snapshots /\ d \in Drafts
        BY <2>a, <2>1, PlanHeld DEF Inv, TypeOK
    <2>3. \A r \in DOMAIN d : d[r].rev \in Nat
        BY <2>2, AppliedIs DEF Row
    <2>4. QED BY <2>1, <2>2, <2>3, AppliedIs
<1>2. ASSUME NEW p \in Workers, Production(p) PROVE canonical' = canonical
    BY <1>2 DEF Production, Build, Reserve, Claim, Call, SaveAudit, SaveFailedAudit, SaveSuccess,
                SaveError, Resume, Review, dbVars
<1>3. ASSUME NEW p \in Workers, Freezing(p), ~Write(p) PROVE canonical' = canonical
    BY <1>3 DEF Freezing, Freeze, Before, Commit, ReadBundle, SaveFreeze, dbVars
<1>4. ASSUME NEW p \in Workers,
             Approve(p) \/ Interrupt(p) \/ \E k \in DOMAIN reviews : FreezeAgain(p, k)
      PROVE  canonical' = canonical
    BY <1>4 DEF Approve, Interrupt, FreezeAgain, dbVars
<1>5. Curate \/ UNCHANGED vars => canonical' = canonical
    BY DEF Curate, vars, dbVars
<1>6. QED BY <1>1, <1>2, <1>3, <1>4, <1>5 DEF Next

\* Of all steps, Review and SaveFreeze alone change the reviews: the one adds an entry, the
\* other freezes a review that is not frozen.
LEMMA ReviewsStep ==
    ASSUME Inv, [Next]_vars
    PROVE  \/ reviews' = reviews
           \/ \A k \in DOMAIN reviews : FrozenReview(k) => reviews'[k] = reviews[k]
<1>1. ASSUME NEW p \in Workers, Review(p)
      PROVE  \/ reviews' = reviews
             \/ \A k \in DOMAIN reviews : FrozenReview(k) => reviews'[k] = reviews[k]
    BY <1>1 DEF Review, Put
<1>2. ASSUME NEW p \in Workers, SaveFreeze(p)
      PROVE  \/ reviews' = reviews
             \/ \A k \in DOMAIN reviews : FrozenReview(k) => reviews'[k] = reviews[k]
    BY <1>2 DEF SaveFreeze, FrozenReview, Unfrozen
<1>3. ASSUME NEW p \in Workers, Production(p), ~Review(p) PROVE reviews' = reviews
    BY <1>3 DEF Production, Build, Reserve, Claim, Call, SaveAudit, SaveFailedAudit, SaveSuccess,
                SaveError, Resume, dbVars
<1>4. ASSUME NEW p \in Workers, Freezing(p), ~SaveFreeze(p) PROVE reviews' = reviews
    BY <1>4 DEF Freezing, Freeze, Before, Commit, Write, ReadBundle, dbVars
<1>5. ASSUME NEW p \in Workers,
             Approve(p) \/ Interrupt(p) \/ \E k \in DOMAIN reviews : FreezeAgain(p, k)
      PROVE  reviews' = reviews
    BY <1>5 DEF Approve, Interrupt, FreezeAgain, dbVars
<1>6. Curate \/ UNCHANGED vars => reviews' = reviews
    BY DEF Curate, vars, dbVars
<1>7. QED BY <1>1, <1>2, <1>3, <1>4, <1>5, <1>6 DEF Next

-----------------------------------------------------------------------------
(* Theorems *)

\* One production is one Curator call, one proposal and one review: claim_execution lets one
\* worker call, the AgentRun is saved before the run succeeds, and save_review accepts the
\* review of the run's proposal against the run's snapshot only.
THEOREM ProductionIsTraced == Spec => []ProductionTraced
<1>1. Inv => ProductionTraced
    <2> SUFFICES ASSUME Inv PROVE ProductionTraced
        OBVIOUS
    <2>1. CuratorOnce
        BY DEF Inv, Stored, CuratorOnce
    <2>2. Checkpointed
        BY DEF Inv, Stored, RunStored, Checkpointed
    <2>3. ReviewOnRun
        BY DEF Inv, Stored, ReviewStored, ReviewOnRun
    <2>4. QED BY <2>1, <2>2, <2>3 DEF ProductionTraced
<1>2. QED BY <1>1, SpecInv, PTL

\* A frozen bundle is what the approved plan makes of the reviewed rows, no plan of a
\* production run is committed without its approving review, and a committed plan stays in
\* force, whoever writes next to commit_storybible_plan and freeze.
THEOREM CanonIsSound == Spec => []CanonSound
<1>1. Inv => CanonSound
    <2> SUFFICES ASSUME Inv PROVE CanonSound
        OBVIOUS
    <2>1. FrozenExact
        BY DEF Inv, Stored, ReviewStored, FrozenExact
    <2>2. NothingUnapproved
        BY DEF Inv, Stored, PlanStored, Warranted, NothingUnapproved
    <2>3. CommittedStands
        BY DEF Inv, Stored, PlanStored, CommittedStands, Committed
    <2>4. QED BY <2>1, <2>2, <2>3 DEF Inv, Stored, CanonSound
<1>2. QED BY <1>1, SpecInv, PTL

\* A canonical row is replaced by a later revision only, and a frozen review keeps its bundle:
\* the revision gate of the update and the conditional update of freeze.
THEOREM CanonIsFinal == Spec => CanonFinal
<1>1. Inv /\ [Next]_vars =>
          [\A r \in Resources :
              canonical'[r] = canonical[r] \/ canonical'[r].rev > canonical[r].rev]_canonical
    BY RowsStep
<1>2. Inv /\ [Next]_vars =>
          [\A k \in DOMAIN reviews : FrozenReview(k) => reviews'[k] = reviews[k]]_reviews
    BY ReviewsStep
<1>3. QED BY <1>1, <1>2, SpecInv, PTL DEF Spec, CanonFinal, RevisionFinal, FrozenForever
=============================================================================

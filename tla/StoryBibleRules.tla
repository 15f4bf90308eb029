--------------------------- MODULE StoryBibleRules ---------------------------
(***************************************************************************)
(* What a StoryBible plan must be: the context a Curator gets, the         *)
(* normaliser of its draft, the validator and the review of a plan, the    *)
(* rows after its commit and the bundle they are frozen in.                *)
(*                                                                         *)
(* A resource is a profile, state, relationship or rule.  Its names are    *)
(* the folded names a profile answers to, the type of a relationship, or   *)
(* the scope and name of a rule; its facts map attribute paths to values;  *)
(* of lists the profiles it is about.  A scope of blanks, refused by       *)
(* itself, is left out, and evidence is sound or not.                      *)
(***************************************************************************)
EXTENDS Integers, FiniteSetsExt, SequencesExt

NoOrder == -1
NoEvent == 0
Open == [event |-> NoEvent, order |-> NoOrder]

Kinds == {"profile", "state", "relationship", "rule"}

\* The resources' own schemas.
WellFormed(resource) ==
    /\ NoOrder \in {resource.from.order, resource.until.order} \/ resource.from.order <= resource.until.order
    /\ resource.kind = "relationship" => resource.of[1] # resource.of[2]

OfKind(rows, kind) == {row \in rows : row.kind = kind}
Planned(updates) == {updates[i].resource : i \in DOMAIN updates}
ProfileIds(rows) == {row.id : row \in OfKind(rows, "profile")}

-----------------------------------------------------------------------------
(* The order of events that the approved Timeline establishes *)

\* The events a relation puts right before each.
Preceding(events, relations) ==
    [event \in events |->
        {r.source : r \in {r \in relations : r.kind = "BEFORE" /\ r.target = event}}
            \cup {r.target : r \in {r \in relations : r.kind = "AFTER" /\ r.source = event}}]

\* The events before each, through any number of others.
Predecessors(events, relations) ==
    LET step[k \in 0..Cardinality(events)] ==
            IF k = 0 THEN Preceding(events, relations)
            ELSE [event \in events |-> step[k - 1][event] \cup UNION {step[k - 1][one] : one \in step[k - 1][event]}]
    IN step[Cardinality(events)]

Cyclic(before) == \E event \in DOMAIN before : event \in before[event]

Total(before) == \A one, other \in DOMAIN before : one = other \/ one \in before[other] \/ other \in before[one]

\* derive_storybible_trusted_event_order, of acyclic relations.
TrustedOrder(before) == [event \in DOMAIN before |-> IF Total(before) THEN Cardinality(before[event]) ELSE NoOrder]

Context(canon, events, relations) ==
    LET before == Predecessors(events, relations)
    IN [canon |-> canon, events |-> events, before |-> before, order |-> TrustedOrder(before)]

-----------------------------------------------------------------------------
(* The normaliser of a draft *)

\* A resource without its ids; the profile of a state is one of them.
Semantic(resource) ==
    [resource EXCEPT !.id = <<>>, !.of = IF resource.kind = "state" THEN <<>> ELSE resource.of]

\* Rows that exist keep their id; others are named after their content.
SettledId(resource, ctx) ==
    IF \E row \in ctx.canon : row.kind = resource.kind /\ row.id = resource.id
    THEN resource.id ELSE <<resource.kind, Semantic(resource)>>

\* The profile meant by a local id: one of the draft, or a stored one.
Refer(updates, ctx, id) ==
    LET local == {resource \in OfKind(Planned(updates), "profile") : resource.id = id}
    IN IF local = {} THEN id ELSE SettledId(CHOOSE resource \in local : TRUE, ctx)

Remade(updates, ctx, resource) ==
    LET moved == [resource EXCEPT !.of = [i \in DOMAIN resource.of |-> Refer(updates, ctx, resource.of[i])]]
    IN [moved EXCEPT !.id = SettledId(moved, ctx)]

\* No two updates, and no two resources of a kind, share a local id.
LocalIdsDiffer(updates) ==
    \A i, j \in DOMAIN updates : i # j =>
        /\ updates[i].id # updates[j].id
        /\ <<updates[i].resource.kind, updates[i].resource.id>> # <<updates[j].resource.kind, updates[j].resource.id>>

EventsOf(resource) == {resource.from.event, resource.until.event, resource.trigger} \ {NoEvent}

\* Times are approved events, their orders those of the Timeline, and the
\* end is not before the beginning.
TemporalSound(resource, ctx) ==
    /\ EventsOf(resource) \subseteq ctx.events
    /\ \A end \in {resource.from, resource.until} : end.order # NoOrder =>
            /\ end.event # NoEvent
            /\ ctx.order[end.event] = end.order
    /\ resource.from.event = NoEvent \/ resource.until.event \notin ctx.before[resource.from.event]

\* Two resources whose content is the same are not told apart.
Distinct(updates, ctx) ==
    \A i, j \in DOMAIN updates : i # j =>
        Semantic(Remade(updates, ctx, updates[i].resource)) # Semantic(Remade(updates, ctx, updates[j].resource))

\* Declared conflicts are about updates of the draft, each named once.
ConflictsSound(raw) ==
    \A conflict \in raw.conflicts :
        /\ conflict.ours
        /\ ToSet(conflict.affected) \subseteq {raw.updates[i].id : i \in DOMAIN raw.updates}
        /\ Cardinality(ToSet(conflict.affected)) = Len(conflict.affected)

\* normalize: nothing of a draft is kept unless all of it can be trusted.
Accepts(raw, ctx) ==
    /\ raw.candidate /\ raw.ours
    /\ LocalIdsDiffer(raw.updates)
    /\ \A resource \in Planned(raw.updates) :
            /\ resource.ours /\ resource.sound
            /\ resource.kind \in {"state", "relationship"} =>
                    /\ ToSet(resource.of) \subseteq ProfileIds(ctx.canon \cup Planned(raw.updates))
                    /\ TemporalSound(resource, ctx)
    /\ Distinct(raw.updates, ctx)
    /\ ConflictsSound(raw)

\* What an update is called once its ids are settled.
UpdateOf(resource) == [id |-> <<"update", resource.kind, resource.id, Semantic(resource)>>, resource |-> resource]

NormalUpdate(raw, ctx, i) == UpdateOf(Remade(raw.updates, ctx, raw.updates[i].resource))

\* The normal form is sorted by the hashes that are its ids: an order that
\* depends on the content alone.
NormalPlan(raw, ctx) ==
    [updates |-> SetToSeq({NormalUpdate(raw, ctx, i) : i \in DOMAIN raw.updates}),
     conflicts |->
        {[affected |-> SetToSeq({NormalUpdate(raw, ctx, i).id :
                                    i \in {i \in DOMAIN raw.updates : raw.updates[i].id \in ToSet(conflict.affected)}}),
          blocking |-> conflict.blocking, ours |-> TRUE] : conflict \in raw.conflicts}]

-----------------------------------------------------------------------------
(* The validator *)

\* Slip: an interval that ends where another begins does not meet it.
OrdersOverlap_Open(left, right) ==
    /\ NoOrder \in {left.until.order, right.from.order} \/ right.from.order < left.until.order
    /\ NoOrder \in {right.until.order, left.from.order} \/ left.from.order < right.until.order

\* Intervals are inclusive, and open where they have no order.
OrdersOverlap(left, right) ==
    /\ NoOrder \in {left.until.order, right.from.order} \/ right.from.order <= left.until.order
    /\ NoOrder \in {right.until.order, left.from.order} \/ left.from.order <= right.until.order

HasOrder(resource) == {resource.from.order, resource.until.order} # {NoOrder}
HasEvent(resource) == {resource.from.event, resource.until.event} # {NoEvent}

\* By order if both have one; else by events: the same two, or none at all.
StatesOverlap(left, right) ==
    IF HasOrder(left) /\ HasOrder(right) THEN OrdersOverlap(left, right)
    ELSE /\ HasOrder(left) => ~HasEvent(right)
         /\ HasOrder(right) => ~HasEvent(left)
         /\ ~HasOrder(left) /\ ~HasOrder(right) /\ HasEvent(left) /\ HasEvent(right) =>
                left.from.event = right.from.event /\ left.until.event = right.until.event

Disagree(one, other) == \E path \in DOMAIN one.facts \cap DOMAIN other.facts : one.facts[path] # other.facts[path]

\* No name has two owners.
NamesOwnedOnce(rows) ==
    \A one, other \in OfKind(rows, "profile") : one.id # other.id => one.names \cap other.names = {}

Contradicts(earlier, later) ==
    earlier.id # later.id /\ earlier.of = later.of /\ Disagree(earlier, later) /\ StatesOverlap(earlier, later)

\* Each state is compared with those before it, the stored ones first.
StatesAgree(updates, canon) ==
    /\ \A one, other \in OfKind(canon, "state") : ~Contradicts(one, other)
    /\ \A i \in DOMAIN updates : updates[i].resource.kind = "state" =>
        \A earlier \in OfKind(canon \cup {updates[j].resource : j \in 1..(i - 1)}, "state") :
            ~Contradicts(earlier, updates[i].resource)

\* validate_commit_plan; without the stored rows, references are not checked.
ValidPlan(updates, canon, stored) ==
    LET rows == Planned(updates) \cup canon
    IN /\ LocalIdsDiffer(updates)
       /\ \A resource \in Planned(updates) : resource.ours /\ resource.sound /\ resource.canonical
       /\ NamesOwnedOnce(rows)
       /\ StatesAgree(updates, canon)
       /\ stored => \A resource \in Planned(updates) : ToSet(resource.of) \subseteq ProfileIds(rows)

-----------------------------------------------------------------------------
(* The review *)

Problem(code, blocking, ids) == [code |-> code, blocking |-> blocking, ids |-> ids]
BlockingProblem(code, ids) == Problem(code, TRUE, ids)

SameKind(updates, i) == {j \in DOMAIN updates : updates[j].resource.kind = updates[i].resource.kind}

\* Who claimed a name last before the i-th update.
Claimants(updates, canon, i, name) ==
    LET earlier == {j \in SameKind(updates, i) : j < i /\ name \in updates[j].resource.names}
    IN IF earlier = {} THEN {row \in OfKind(canon, updates[i].resource.kind) : name \in row.names}
       ELSE {updates[Max(earlier)].resource}

NameCode(one, other) ==
    CASE one.kind = "profile" -> "ENTITY_IDENTITY_CONFLICT"
      [] one.kind = "rule" /\ one.facts # other.facts -> "WORLD_RULE_CONFLICT"
      [] OTHER -> "WORLD_RULE_DUPLICATE"

\* A name of a profile, or a name in its scope of a rule, that is taken.
NameProblems(updates, canon, i) ==
    LET one == updates[i].resource
    IN {BlockingProblem(NameCode(one, other), {one.id, other.id}) :
            other \in {row \in UNION {Claimants(updates, canon, i, name) : name \in one.names} :
                            one.kind \in {"profile", "rule"} /\ row.id # one.id}}

\* What one resource may have wrong by itself.
ResourceProblems(updates, canon, events, i) ==
    LET one == updates[i].resource
        known == ProfileIds(canon \cup Planned(updates))
    IN {BlockingProblem("ID_DUPLICATE", {one.id}) : j \in {j \in SameKind(updates, i) : j < i /\ updates[j].resource.id = one.id}}
        \cup {BlockingProblem("REFERENCE_INVALID", {one.id}) : id \in ToSet(one.of) \ known}
        \cup {BlockingProblem("TIMELINE_ANCHOR_MISSING", {one.id}) :
                event \in IF one.kind \in {"state", "relationship"} THEN EventsOf(one) \ events ELSE {}}
        \cup {BlockingProblem("INVALID_EVIDENCE", {one.id}) : unsound \in {FALSE} \cap {one.sound}}

\* Two relationships of one type between the same profiles that differ
\* while both hold; only a key they share makes it a contradiction.
RelationshipProblems(updates, canon) ==
    LET planned == OfKind(Planned(updates), "relationship")
        touched == {row.id : row \in planned}
        clash(pair) ==
            LET one == pair[1] other == pair[2]
            IN /\ one.id # other.id /\ {one.id, other.id} \cap touched # {}
               /\ one.of = other.of /\ one.names = other.names /\ one.facts # other.facts
               /\ OrdersOverlap(one, other)
        all == planned \cup OfKind(canon, "relationship")
    IN {Problem("RELATIONSHIP_CONFLICT", Disagree(pair[1], pair[2]), {pair[1].id, pair[2].id}) :
            pair \in {pair \in all \X all : clash(pair)}}

\* The validator has the last word, if all evidence is sound.
ValidatorProblems(updates, canon) ==
    IF (\A resource \in Planned(updates) : resource.sound) /\ ~ValidPlan(updates, canon, TRUE)
    THEN {BlockingProblem("CANONICAL_CONFLICT", {resource.id : resource \in Planned(updates)})} ELSE {}

\* Conflicts the Curator has declared itself.
DeclaredProblems(plan) ==
    {Problem(IF conflict.blocking THEN "DECLARED_DETERMINISTIC_CONFLICT" ELSE "UNKNOWN_SEMANTIC_CONFLICT", conflict.blocking,
             {plan.updates[i].resource.id : i \in {i \in DOMAIN plan.updates : plan.updates[i].id \in ToSet(conflict.affected)}}) :
        conflict \in plan.conflicts}

\* The review looks every affected update up; an unknown one raises.
Reviewable(plan) ==
    \A conflict \in plan.conflicts : ToSet(conflict.affected) \subseteq {plan.updates[i].id : i \in DOMAIN plan.updates}

Problems(plan, canon, events, lineage) ==
    {BlockingProblem("PRODUCTION_LINEAGE_INVALID", {}) : broken \in {FALSE} \cap {lineage}}
        \cup (UNION {NameProblems(plan.updates, canon, i) \cup ResourceProblems(plan.updates, canon, events, i) : i \in DOMAIN plan.updates})
        \cup RelationshipProblems(plan.updates, canon)
        \cup ValidatorProblems(plan.updates, canon)
        \cup DeclaredProblems(plan)

PlanDecision(problems) ==
    IF \E problem \in problems : problem.blocking THEN "REJECT"
    ELSE IF problems # {} THEN "NEEDS_HUMAN_REVIEW"
    ELSE "APPROVE"

-----------------------------------------------------------------------------
(* Commit and bundle *)

Stored(canon, resource) == {row \in canon : row.kind = resource.kind /\ row.id = resource.id}

\* A newer revision replaces the row; anything else leaves it.
Replaces(canon, resource) == \A row \in Stored(canon, resource) : row.rev < resource.rev

AfterCommit(canon, updates) ==
    LET winners == {resource \in Planned(updates) : Replaces(canon, resource)}
    IN winners \cup {row \in canon : \A resource \in winners : row.kind # resource.kind \/ row.id # resource.id}

\* Every profile that states and relationships are about exists.
Preflight(updates, canon) ==
    \A resource \in Planned(updates) : ToSet(resource.of) \subseteq ProfileIds(canon \cup Planned(updates))

\* commit_storybible_plan does not raise.
Commits(updates, canon) ==
    /\ ValidPlan(updates, {}, FALSE)
    /\ Preflight(updates, canon)
    /\ ValidPlan(updates, canon, TRUE)

\* The schema of the frozen bundle, and of the snapshot before it.
FrozenContract(rows) ==
    /\ \A one, other \in rows : one.kind = other.kind /\ one.id = other.id => one = other
    /\ \A row \in rows : row.ours /\ ToSet(row.of) \subseteq ProfileIds(rows)

\* list_states_at_event: a state without orders holds at all of them.
HoldsAt(state, order) ==
    /\ state.from.order = NoOrder \/ state.from.order <= order
    /\ state.until.order = NoOrder \/ order <= state.until.order
=============================================================================

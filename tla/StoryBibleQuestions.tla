------------------------- MODULE StoryBibleQuestions -------------------------
(* Orders of events, drafts to normalise, and plans to review and commit.  *)
EXTENDS Questions, StoryBibleRules

CONSTANT TimelineEvents    \* events of the longest Timeline

AskOrder ==
    \E count \in 1..TimelineEvents :
        LET relations == {r \in [source : 1..count, target : 1..count, kind : {"BEFORE", "AFTER", "SIMULTANEOUS"}] :
                            r.source # r.target}
        IN \/ Ask("order", [events |-> 1..count, relations |-> {}])
           \/ \E one, two, three \in relations : Ask("order", [events |-> 1..count, relations |-> {one, two, three}])

AnswerOrder ==
    /\ topic = "order"
    /\ LET context == Context({}, question.events, question.relations)
       IN answer' = [cyclic |-> Cyclic(context.before), order |-> context.order]

\* The orders in which the events may have happened.
Histories ==
    {order \in [question.events -> 0..(Cardinality(question.events) - 1)] :
        /\ \A one, other \in question.events : one # other => order[one] # order[other]
        /\ \A r \in question.relations : /\ r.kind = "BEFORE" => order[r.source] < order[r.target]
                                         /\ r.kind = "AFTER" => order[r.target] < order[r.source]}

\* Events are numbered only if the Timeline leaves one possible order, and
\* then by it; relations that allow none are refused.
OrderEstablished ==
    Replied("order") =>
        /\ answer.cyclic <=> Histories = {}
        /\ ~answer.cyclic =>
            answer.order = IF Cardinality(Histories) = 1 THEN CHOOSE order \in Histories : TRUE
                           ELSE [event \in question.events |-> NoOrder]

-----------------------------------------------------------------------------
Resource(kind, id, of, names, facts) ==
    [kind |-> kind, id |-> id, of |-> of, names |-> names, facts |-> facts, from |-> Open, until |-> Open,
     trigger |-> NoEvent, rev |-> 1, canonical |-> TRUE, sound |-> TRUE, ours |-> TRUE]

Fact(path, value) == [one \in {path} |-> value]
Profile(id, names) == Resource("profile", id, <<>>, names, Fact(1, 1))
EntityState(id, of, facts) == Resource("state", id, <<of>>, {}, facts)
Relationship(id, of, facts) == Resource("relationship", id, of, {1}, facts)
Rule(id, name, facts) == Resource("rule", id, <<>>, {name}, facts)

When(event, order) == [event |-> event, order |-> order]

\* Two people are stored; so are, in some questions, facts about them.
People == {Profile(<<"c1">>, {1}), Profile(<<"c2">>, {2})}
StoredState == EntityState(<<"s1">>, <<"c1">>, Fact(1, 1))

Relations == {{}, {[source |-> 1, target |-> 2, kind |-> "BEFORE"]}, {[source |-> 1, target |-> 2, kind |-> "SIMULTANEOUS"]}}

DraftSpans ==
    {[from |-> from, until |-> Open] : from \in {Open, When(1, NoOrder), When(1, 0), When(9, NoOrder), When(NoEvent, 0)}}
        \cup {[from |-> When(2, NoOrder), until |-> When(1, NoOrder)], [from |-> Open, until |-> When(2, 0)]}

Spanned(resource, span) == [resource EXCEPT !.from = span.from, !.until = span.until]

DraftResources ==
    {Profile(id, {name}) : id \in {<<"l1">>, <<"l2">>, <<"c1">>}, name \in {1, 3}}
        \cup {Spanned(EntityState(id, of, Fact(1, 1)), span) :
                id \in {<<"l1">>, <<"l2">>, <<"s1">>}, of \in {<<"c1">>, <<"l1">>}, span \in DraftSpans}
        \cup {Relationship(id, of, Fact(1, 1)) : id \in {<<"l1">>, <<"l2">>}, of \in {<<<<"c1">>, <<"c2">>>>, <<<<"c1">>, <<"l1">>>>}}
        \cup {Rule(id, 1, Fact(1, 1)) : id \in {<<"l1">>, <<"l2">>}}
        \cup {[EntityState(<<"l1">>, <<"c1">>, Fact(1, 1)) EXCEPT !.trigger = 9], [Rule(<<"l1">>, 2, Fact(1, 1)) EXCEPT !.sound = FALSE],
              [Rule(<<"l1">>, 2, Fact(1, 1)) EXCEPT !.ours = FALSE], [Rule(<<"l1">>, 2, Fact(1, 1)) EXCEPT !.canonical = FALSE]}

Declared(affected, blocking) == {[affected |-> affected, blocking |-> blocking, ours |-> TRUE]}

Drafted(resources, ids, conflicts) ==
    [candidate |-> TRUE, ours |-> TRUE, conflicts |-> conflicts,
     updates |-> [i \in DOMAIN resources |-> [id |-> ids[i], resource |-> resources[i]]]]

AskDraft ==
    \E resources \in {<<one>> : one \in DraftResources} \cup (DraftResources \X DraftResources),
       conflicts \in {{}, Declared(<<1>>, TRUE), Declared(<<1, 1>>, FALSE), Declared(<<2>>, FALSE)}, relations \in Relations :
        /\ conflicts # {} => relations = {}
        /\ Ask("draft", [raw |-> Drafted(resources, <<1, 2>>, conflicts),
                         context |-> Context(People \cup {StoredState}, {1, 2}, relations)])

\* The same draft with its updates and its local ids in another order.
Swapped(id) == CASE id = <<"l1">> -> <<"l2">> [] id = <<"l2">> -> <<"l1">> [] OTHER -> id
Reworded(raw) ==
    LET reworded(resource) == [resource EXCEPT !.id = Swapped(resource.id), !.of = [i \in DOMAIN resource.of |-> Swapped(resource.of[i])]]
    IN [raw EXCEPT !.updates = [i \in DOMAIN raw.updates |->
            LET update == raw.updates[Len(raw.updates) + 1 - i] IN [update EXCEPT !.resource = reworded(update.resource)]]]

AnswerDraft ==
    /\ topic = "draft"
    /\ answer' = [accepted |-> Accepts(question.raw, question.context),
                  plan |-> IF Accepts(question.raw, question.context) THEN NormalPlan(question.raw, question.context) ELSE <<>>]

\* Neither the ids a model makes up nor the order it writes in decides
\* anything: the plan, and what its rows are called, depend on the content.
LocalIdsForgotten ==
    Replied("draft") =>
        LET other == Reworded(question.raw)
        IN /\ Accepts(other, question.context) <=> answer.accepted
           /\ answer.accepted => NormalPlan(other, question.context) = answer.plan

\* What the normaliser lets through has only conflicts left to review: no
\* reference, event, evidence or id in it is bad, its review never raises,
\* and the validator refuses it for names, states or a status alone.
NormalisedReviewable ==
    (Replied("draft") /\ answer.accepted) =>
        LET plan == answer.plan
            problems == Problems(plan, question.context.canon, question.context.events, TRUE)
        IN /\ Reviewable(plan) /\ LocalIdsDiffer(plan.updates) /\ Len(plan.updates) = Len(question.raw.updates)
           /\ \A problem \in problems :
                problem.code \notin {"ID_DUPLICATE", "REFERENCE_INVALID", "TIMELINE_ANCHOR_MISSING", "INVALID_EVIDENCE"}
           /\ "CANONICAL_CONFLICT" \in {problem.code : problem \in problems} =>
                \/ \E resource \in Planned(plan.updates) : ~resource.canonical
                \/ "ENTITY_IDENTITY_CONFLICT" \in {problem.code : problem \in problems}
                \/ ~StatesAgree(plan.updates, question.context.canon)

\* A draft of sound, separate resources is refused as ambiguous only when
\* two are the same but for their id, or, which the code does not tell
\* apart either, are one state of two profiles.
TakenForOne ==
    (Replied("draft") /\ LocalIdsDiffer(question.raw.updates) /\ ~Distinct(question.raw.updates, question.context)) =>
        \E i, j \in DOMAIN question.raw.updates :
            LET one == question.raw.updates[i].resource other == question.raw.updates[j].resource
            IN /\ i # j /\ one.kind = other.kind
               /\ \/ [one EXCEPT !.id = <<>>] = [other EXCEPT !.id = <<>>]
                  \/ one.kind = "state" /\ [one EXCEPT !.id = <<>>, !.of = <<>>] = [other EXCEPT !.id = <<>>, !.of = <<>>]

-----------------------------------------------------------------------------
PlanSpans ==
    {span \in [from : {Open, When(1, 0), When(2, 1), When(1, NoOrder)}, until : {Open, When(1, 0), When(2, 1)}] :
        WellFormed(Spanned(StoredState, span))} \cup {[from |-> When(2, NoOrder), until |-> Open]}

Versions(resource) == {resource, [resource EXCEPT !.rev = 2]}

PlanStates ==
    {EntityState(<<"s2">>, <<"c3">>, Fact(1, value)) : value \in 1..2} \cup
    UNION {Versions(Spanned(EntityState(id, <<"c1">>, Fact(1, value)), span)) :
            id \in {<<"s1">>, <<"s2">>}, value \in 1..2, span \in PlanSpans}

PlanRelationships ==
    {Relationship(<<"r1">>, <<<<"c1">>, <<"c4">>>>, Fact(1, 1))} \cup
    {Spanned(Relationship(id, <<<<"c1">>, <<"c2">>>>, facts), span) :
        id \in {<<"r1">>, <<"r2">>}, facts \in {Fact(1, 1), Fact(1, 2), Fact(2, 1)}, span \in PlanSpans}

PlanRules == UNION {Versions(Rule(id, name, Fact(1, value))) : id \in {<<"w1">>, <<"w2">>}, name \in 1..2, value \in 1..2}

PlanProfiles ==
    UNION {Versions(Profile(id, names)) : id \in {<<"c1">>, <<"c3">>}, names \in {{1}, {3}, {1, 2}}}

PlanRows == [state |-> PlanStates, relationship |-> PlanRelationships, rule |-> PlanRules, profile |-> PlanProfiles]

\* Rows stored before: sound, as far as reviews have made them.
StoredRows ==
    [state |-> {{}} \cup {{Spanned(StoredState, span)} : span \in PlanSpans},
     relationship |-> {{}} \cup {{Spanned(Relationship(<<"r1">>, <<<<"c1">>, <<"c2">>>>, Fact(1, 1)), span)} : span \in PlanSpans},
     rule |-> {{}, {Rule(<<"w1">>, 1, Fact(1, 1))}, {Rule(<<"w1">>, 1, Fact(1, 1)), Rule(<<"w2">>, 2, Fact(1, 1))}},
     profile |-> {{}, {Profile(<<"c3">>, {3})}}]

\* One update, or two of a kind, or a profile and something else.
AskPlan ==
    \E kind \in Kinds :
        \E stored \in StoredRows[kind], one \in PlanRows[kind] :
            \E rest \in {<<>>} \cup {<<two>> : two \in PlanRows[kind]} \cup {<<two>> : two \in PlanRows["profile"]} :
                /\ \A i \in DOMAIN rest : kind \in {"state", "relationship"} => one.rev = 1 \/ rest[i].rev = 1
                /\ Ask("plan", [canon |-> People \cup stored,
                                updates |-> [i \in 1..(1 + Len(rest)) |-> [id |-> i, resource |-> (<<one>> \o rest)[i]]]])

AnswerPlan ==
    /\ topic = "plan"
    /\ LET problems == Problems([updates |-> question.updates, conflicts |-> {}], question.canon, {1, 2}, TRUE)
       IN answer' = [decision |-> PlanDecision(problems), commits |-> Commits(question.updates, question.canon),
                     rows |-> AfterCommit(question.canon, question.updates)]

\* The canon as a reader sees it: one owner of each name, one value of each
\* attribute at each order, relationships that agree while they hold, and
\* one rule by each name in its scope.
Coherent(rows) ==
    /\ NamesOwnedOnce(rows)
    /\ \A order \in 0..1 : \A one, other \in OfKind(rows, "state") :
            one.id # other.id /\ one.of = other.of /\ HasOrder(one) /\ HasOrder(other) /\ HoldsAt(one, order) /\ HoldsAt(other, order) =>
                ~Disagree(one, other)
    /\ \A order \in 0..1 : \A one, other \in OfKind(rows, "relationship") :
            one.id # other.id /\ one.of = other.of /\ HoldsAt(one, order) /\ HoldsAt(other, order) => one.facts = other.facts
    /\ \A one, other \in OfKind(rows, "rule") : one.id # other.id => one.names # other.names

\* An approved plan is committed without a word, its rows fit the bundle
\* they are frozen in, and the canon stays coherent, whatever mixture of
\* new rows and revisions, taken up or stale, the plan is.
ApprovedCoherent ==
    (Replied("plan") /\ answer.decision = "APPROVE") =>
        /\ answer.commits
        /\ FrozenContract(answer.rows)
        /\ Coherent(question.canon) => Coherent(answer.rows)

\* Committing again changes nothing, and the order of the updates neither
\* decides a review nor what is stored.
PlanOrderFree ==
    Replied("plan") =>
        LET reversed == Reverse(question.updates)
            problems == Problems([updates |-> reversed, conflicts |-> {}], question.canon, {1, 2}, TRUE)
        IN /\ PlanDecision(problems) = answer.decision
           /\ answer.commits =>
                /\ Commits(reversed, question.canon)
                /\ AfterCommit(question.canon, reversed) = answer.rows
                /\ AfterCommit(answer.rows, question.updates) = answer.rows

\* A draft is numbered, normalised, matched and approved the same however a model words it.
PlansSound ==
    /\ OrderEstablished
    /\ LocalIdsForgotten
    /\ NormalisedReviewable
    /\ TakenForOne
    /\ ApprovedCoherent
    /\ PlanOrderFree
=============================================================================

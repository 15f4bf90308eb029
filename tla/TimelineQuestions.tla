-------------------------- MODULE TimelineQuestions --------------------------
(* The choice of event pairs, the answer about a pair, and Gate 3.         *)
EXTENDS Questions, TimelineRules, StoryBibleRules

CONSTANT StoryEvents    \* events of the longest story that is sampled

Told == [people |-> <<>>, place |-> 0]

AskPairs ==
    \/ \E count \in 0..StoryEvents, most \in 1..StoryEvents :
        Ask("pairs", [events |-> [i \in 1..count |-> Told], most |-> most])
    \/ \E events \in [1..5 -> [people : {<<>>, <<1>>, <<2, 1>>}, place : 0..1]], most \in 5..9 :
        Ask("pairs", [events |-> events, most |-> most])

AnswerPairs ==
    /\ topic = "pairs"
    /\ answer' = SelectedPairs(question.events, question.most)

\* The calls of a Timeline are bounded, no pair is asked about twice, the
\* neighbours come first, and when even those are too many the sample
\* reaches from the first event to the last without a hole.
PairsSpread ==
    Replied("pairs") =>
        LET events == question.events
            n == Len(events)
            most == question.most
            chosen == ToSet(answer)
        IN /\ Len(answer) <= most /\ Cardinality(chosen) = Len(answer)
           /\ 2 * most >= n * (n - 1) => chosen = ToSet(AllPairs(events))
           /\ most >= n - 1 => ToSet(Adjacent(events)) \subseteq chosen
           /\ most < n - 1 /\ most > 1 =>
                /\ chosen \subseteq ToSet(Adjacent(events))
                /\ {<<1, 2>>, <<n - 1, n>>} \subseteq chosen
                /\ \A i \in 1..(most - 1) : (answer[i + 1][1] - answer[i][1]) * (most - 1) < (n - 2) + (most - 1)
           /\ 2 * most < n * (n - 1) =>
                \A pair \in chosen \ ToSet(Adjacent(events)) : pair[1] \in ToSet(NearestBefore(events, pair[2]))

-----------------------------------------------------------------------------
Quotations == {[chunk |-> 1, quote |-> 1], [chunk |-> 1, quote |-> 2], [chunk |-> 2, quote |-> 1]}

PairReplies ==
    {[arrived |-> FALSE, kind |-> "UNKNOWN", indexes |-> <<>>]} \cup
    [arrived : {TRUE}, kind : {"BEFORE", "UNKNOWN"}, indexes : {<<>>, <<0>>, <<1>>, <<3>>, <<0, 0>>, <<-1>>, <<2, 0>>}]

AskPair ==
    \E first, second \in BoundedSeq(Quotations, 2) \ {<<>>}, chunks \in {{1}, {1, 2}}, replies \in PairReplies \X PairReplies :
        Ask("pair", [first |-> first, second |-> second, chunks |-> chunks, replies |-> replies])

AnswerPair ==
    /\ topic = "pair"
    /\ answer' = Inferred(PairEvidence(question.first, question.second, question.chunks), question.replies)

\* A relation is known exactly if it quotes something, only what one of
\* its two events quotes, out of the chunks at hand; a pair costs two
\* calls at most, and the Timeline fails only after a bad repair or
\* without any answer.
PairGrounded ==
    Replied("pair") =>
        /\ answer.evidence \subseteq {ref \in ToSet(question.first) \cup ToSet(question.second) : ref.chunk \in question.chunks}
        /\ ~answer.failed => (answer.kind = "UNKNOWN" <=> answer.evidence = {})
        /\ answer.failed => answer.calls = 2 \/ ~question.replies[1].arrived

-----------------------------------------------------------------------------
TemporalRelation(source, target, kind, evidence) ==
    [source |-> source, target |-> target, kind |-> kind, evidence |-> IF kind = "UNKNOWN" THEN {} ELSE evidence]

\* Of events 1 to 3, with evidence 1; relations that a stored proposal
\* could hold besides are to event 4 or quote evidence 2.
KnownRelations ==
    {TemporalRelation(pair[1], pair[2], kind, {1}) :
        pair \in {p \in (1..3) \X (1..3) : p[1] # p[2]}, kind \in {"BEFORE", "AFTER", "SIMULTANEOUS", "UNKNOWN"}}

OddRelations == {TemporalRelation(1, 4, "BEFORE", {1}), TemporalRelation(1, 2, "BEFORE", {2})}

AskGate3 ==
    \E relations \in BoundedSeq(KnownRelations \cup OddRelations, 3) : Ask("gate3", [relations |-> relations])

Gate3Asked(relations) == Gate3Review(relations, 1..3, {1})

AnswerGate3 == topic = "gate3" /\ answer' = Gate3Asked(question.relations)

\* What the agent makes: one relation of a pair, in the order of events.
FromAgent(relations) ==
    \A i \in DOMAIN relations :
        /\ relations[i].source < relations[i].target /\ relations[i].target <= 3 /\ relations[i].evidence \subseteq {1}
        /\ \A j \in DOMAIN relations : j # i => <<relations[j].source, relations[j].target>> # <<relations[i].source, relations[i].target>>

\* Some order of the events satisfies what is said of before and after.
\* Nothing is asked of SIMULTANEOUS and OVERLAPS, which Gate 3 leaves out
\* of its graph.
Orderable(relations) ==
    \E order \in [1..3 -> 1..3] :
        \A i \in DOMAIN relations : /\ relations[i].kind = "BEFORE" => order[relations[i].source] < order[relations[i].target]
                                    /\ relations[i].kind = "AFTER" => order[relations[i].target] < order[relations[i].source]

\* Gate 3 approves relations only if their BEFORE and AFTER fit one order
\* of the events, the StoryBible finds no cycle in them either, and no pair
\* is open. That is not to say that the Timeline could have happened: with
\* 1 before 2 and 1 after 3 it approves that 2 and 3 are simultaneous. Its
\* verdict does not depend on the order of relations, the review never
\* fails, and of what the agent says it finds fault with open pairs and
\* with a BEFORE and AFTER that fit no order alone.
Gate3Sound ==
    Replied("gate3") =>
        LET relations == question.relations
        IN /\ answer.decision # "FAILED"
           /\ answer.decision = "APPROVED" =>
                /\ Orderable(relations) /\ \A i \in DOMAIN relations : relations[i].kind # "UNKNOWN"
                /\ ~Cyclic(Predecessors(1..3, ToSet(relations)))
           /\ answer.decision = "NEEDS_HUMAN_REVIEW" <=> answer.held # {}
           /\ Gate3Asked(Reverse(relations)).decision = answer.decision
           /\ FromAgent(relations) => answer.codes \subseteq {"TEMPORAL_CYCLE", "AMBIGUOUS_ORDERING"}
           /\ FromAgent(relations) /\ answer.decision = "REJECTED" => ~Orderable(relations)

\* Without a model, two events or more always wait for a person.
RulesOnlyHeld ==
    Replied("pairs") /\ Len(question.events) \in 2..5 =>
        Gate3Review(UnknownRelations(question.events), DOMAIN question.events, {1}).decision = "NEEDS_HUMAN_REVIEW"

\* The way from approved proposals to an approved Timeline is bounded and
\* grounded in what was quoted, and what it says of before and after fits
\* one order.
TimelineSound == PairsSpread /\ PairGrounded /\ Gate3Sound /\ RulesOnlyHeld
=============================================================================

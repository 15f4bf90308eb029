---------------------------- MODULE TimelineRules ----------------------------
(***************************************************************************)
(* From the bundle Gate 2 approved to the verdict of Gate 3: what the      *)
(* input adapter makes of it, the event pairs the Timeline agent asks      *)
(* about, the answers it takes, and the structural review of the           *)
(* relations.  Events of a Timeline are numbered in the order of the       *)
(* input; people of an event are listed in the order of its ids.           *)
(***************************************************************************)
EXTENDS Gate2Rules, EvidenceRules

(* The input *)

\* The evidence the adapter takes: a quote of a chunk that is at hand.
InScope(ref, texts) == ref.chunk \in DOMAIN texts /\ Quoted(ref) /\ Occurs(ref.quote, texts[ref.chunk])

\* Ids an approved proposal names itself, or got from Gate 2, under a path.
Named(decision, path) ==
    {link.id : link \in {l \in decision.proposal.links : l.path = path /\ ~l.preset /\ l.id # NoId}}
        \cup {target.id : target \in UNION {r.selected : r \in {q \in decision.references : q.path = path}}}

TimelineInput(review, kind) ==
    {decision \in Decided(review.decisions, "APPROVED") : decision.proposal.kind = kind}

\* What the agent takes for the same event; for a claim its own ids count.
TimelineKey(decision) ==
    LET proposal == decision.proposal
    IN IF proposal.kind = "event"
       THEN <<proposal.text, Named(decision, "participant"), Named(decision, "location"), proposal.layer>>
       ELSE <<proposal.text, proposal.speaker, {<<link.path, link.id>> : link \in proposal.links}, proposal.layer>>

Duplicated(review, kind) ==
    {pair \in TimelineInput(review, kind) \X TimelineInput(review, kind) :
        pair[1] # pair[2] /\ TimelineKey(pair[1]) = TimelineKey(pair[2])}

-----------------------------------------------------------------------------
(* The pairs to ask about *)

\* What counts of a sequence, in its order, each once.
EachOnce(s, counted) ==
    FoldLeft(LAMBDA found, x : IF x \in counted \ ToSet(found) THEN Append(found, x) ELSE found, <<>>, s)

\* Python's round of a quotient: halves go to the even neighbour.
Rounded(n, d) ==
    CASE 2 * (n % d) < d -> n \div d
      [] 2 * (n % d) > d -> (n \div d) + 1
      [] OTHER -> (n \div d) + ((n \div d) % 2)

SampleAcrossStory(pairs, limit) ==
    CASE Len(pairs) <= limit -> pairs
      [] limit = 1 /\ Len(pairs) > 1 -> <<pairs[1]>>
      [] OTHER -> [i \in 1..limit |-> pairs[Rounded((i - 1) * (Len(pairs) - 1), limit - 1) + 1]]

Adjacent(events) == [i \in 1..(Len(events) - 1) |-> <<i, i + 1>>]

\* The last events before event j that share a person or its place.
NearestBefore(events, j) ==
    LET people == events[j].people
        latest(before) == Max({0} \cup before)
        met(who) == latest({i \in 1..(j - 1) : who \in ToSet(events[i].people)})
        there == latest({i \in 1..(j - 1) : events[i].place # 0 /\ events[i].place = events[j].place})
    IN Append([k \in DOMAIN people |-> met(people[k])], there)

\* They are paired with it, unless adjacent, each once.
RelatedPairs(events) ==
    LET before(j) == EachOnce(NearestBefore(events, j), 1..(j - 2))
    IN FlattenSeq([j \in DOMAIN events |-> [k \in DOMAIN before(j) |-> <<before(j)[k], j>>]])

AllPairs(events) == FlattenSeq([i \in DOMAIN events |-> [k \in 1..(Len(events) - i) |-> <<i, i + k>>]])

SelectedPairs(events, most) ==
    LET near == Adjacent(events)
    IN CASE Len(events) < 2 -> <<>>
         [] Len(events) >= 2 /\ Len(AllPairs(events)) <= most -> AllPairs(events)
         [] Len(AllPairs(events)) > most /\ Len(near) >= most -> SampleAcrossStory(near, most)
         [] OTHER -> near \o IF Len(near) = most THEN <<>>
                             ELSE SampleAcrossStory(RelatedPairs(events), most - Len(near))

-----------------------------------------------------------------------------
(* The answer about a pair *)

\* What the model may quote: evidence of either event that is at hand, once.
PairEvidence(first, second, chunks) ==
    EachOnce(first \o second, {ref \in ToSet(first) \cup ToSet(second) : ref.chunk \in chunks})

\* TimelinePairInferenceV1, and indexes that exist.
Usable(reply, refs) ==
    /\ reply.arrived
    /\ \A i, j \in DOMAIN reply.indexes : i # j => reply.indexes[i] # reply.indexes[j]
    /\ \A i \in DOMAIN reply.indexes : reply.indexes[i] \in 0..(Len(refs) - 1)
    /\ reply.kind = "UNKNOWN" <=> reply.indexes = <<>>

\* An answer that arrived but is no good is asked for once more.
Inferred(refs, replies) ==
    LET asked == IF replies[1].arrived /\ ~Usable(replies[1], refs) THEN 2 ELSE 1
        reply == replies[asked]
    IN [calls |-> asked, failed |-> ~Usable(reply, refs), kind |-> reply.kind,
        evidence |-> IF Usable(reply, refs) THEN {refs[i + 1] : i \in ToSet(reply.indexes)} ELSE {}]

\* Without a model every pair is left open.
UnknownRelations(events) ==
    LET pairs == AllPairs(events)
    IN [i \in DOMAIN pairs |-> [source |-> pairs[i][1], target |-> pairs[i][2], kind |-> "UNKNOWN", evidence |-> {}]]

-----------------------------------------------------------------------------
(* Gate 3 *)

Gate3Issue(code, of) ==
    [code |-> code, of |-> of, severity |-> IF code = "AMBIGUOUS_ORDERING" THEN ReviewRequired ELSE Blocking]

KnownEnds(relation, events) == {relation.source, relation.target} \subseteq events

\* Slip: AFTER is read as BEFORE.
Edge_Forward(relation) == <<relation.source, relation.target>>

Edge(relation) ==
    IF relation.kind = "BEFORE" THEN <<relation.source, relation.target>> ELSE <<relation.target, relation.source>>

Edges(relations, events) ==
    {Edge(relation) : relation \in {r \in ToSet(relations) : KnownEnds(r, events) /\ r.kind \in {"BEFORE", "AFTER"}}}

\* Some events are each preceded by another of them.
HasCycle(edges, events) ==
    \E some \in SUBSET events : some # {} /\ \A event \in some : \E one \in some : <<one, event>> \in edges

\* The last relation before the i-th that names the same pair.
SamePairBefore(relations, i, events) ==
    Max({0} \cup {j \in 1..(i - 1) : /\ KnownEnds(relations[j], events)
                                     /\ relations[j].source = relations[i].source
                                     /\ relations[j].target = relations[i].target})

RelationIssues(relations, i, events, allowed) ==
    LET relation == relations[i]
        earlier == SamePairBefore(relations, i, events)
    IN IF ~KnownEnds(relation, events) THEN {Gate3Issue("UNKNOWN_EVENT_REFERENCE", i)}
       ELSE (IF relation.evidence \subseteq allowed THEN {} ELSE {Gate3Issue("EVIDENCE_OUT_OF_SCOPE", i)})
            \cup (IF earlier # 0 /\ relations[earlier].kind # relation.kind
                  THEN {Gate3Issue("CONFLICTING_RELATIONS", i)} ELSE {})
            \cup (IF relation.kind = "UNKNOWN" THEN {Gate3Issue("AMBIGUOUS_ORDERING", i)} ELSE {})

Gate3Issues(relations, events, allowed) ==
    (UNION {RelationIssues(relations, i, events, allowed) : i \in DOMAIN relations})
        \cup (IF HasCycle(Edges(relations, events), events) THEN {Gate3Issue("TEMPORAL_CYCLE", 0)} ELSE {})

Gate3Decision(issues) ==
    CASE Severe(issues, Blocking) -> "REJECTED"
      [] issues # {} /\ ~Severe(issues, Blocking) -> "NEEDS_HUMAN_REVIEW"
      [] OTHER -> "APPROVED"

\* ApprovedTimelineBundleV1.
TimelineBundleContract(relations, events, allowed) ==
    allowed # {} /\ \A i \in DOMAIN relations : KnownEnds(relations[i], events)

\* Result and route; a contract that refuses them makes the review FAILED.
Gate3Review(relations, events, allowed) ==
    LET issues == Gate3Issues(relations, events, allowed)
        decision == Gate3Decision(issues)
        refused == decision = "APPROVED" /\ ~TimelineBundleContract(relations, events, allowed)
    IN IF refused THEN [decision |-> "FAILED", codes |-> {"REVIEW_EXECUTION_FAILED"}, held |-> {}]
       ELSE [decision |-> decision, codes |-> {issue.code : issue \in issues},
             held |-> IF decision = "NEEDS_HUMAN_REVIEW" THEN {<<issue.code, issue.of>> : issue \in issues} ELSE {}]
=============================================================================

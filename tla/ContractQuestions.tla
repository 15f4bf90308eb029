------------------------- MODULE ContractQuestions -------------------------
(* Proposals against their schemas, before and after the pipeline's changes. *)
EXTENDS Questions, ProposalContracts

RawEvents ==
    [version : {"1.0", "1.1"}, ids : SUBSET {"x", "y"}, mentions : SUBSET {"m"},
     actor : {"KNOWN", "UNKNOWN", "UNRESOLVED", "NOT_APPLICABLE", "UNSPECIFIED"},
     actorRef : {None, "u"}, place : {None, "x", "z"}, placeMention : {None, "m"}]

RawClaims ==
    [minor : 0..3, type : {"ASSERTION", "EVALUATION", "OPINION"}, scoped : BOOLEAN,
     speaker : {"CHARACTER", "DOCUMENT", "UNKNOWN"}, source : {None, "x"}, sourceMention : {None, "m"},
     event : {None, "e"}, eventMention : {None, "m"}]

RawLinks ==
    [resolved : BOOLEAN, id : {None, "x"},
     schema : {None, "ClaimProposalV1", "EventProposalV1", "EntityProposalV1"}]

RawStates ==
    [target : RawLinks, kind : {"CLAIM", "EVENT", "ENTITY_FACT", "WORLD_FACT", "UNKNOWN"},
     status : {"KNOWS", "HEARD", "BELIEVES"}, basis : {"OBSERVED", "HEARD", "STATED"}, supported : BOOLEAN]

AskEvent ==
    \E event \in RawEvents, version \in {"1.0", "1.1"}, entities \in SUBSET {"x", "y", "z"} :
        LET batch == EventBatchLifted([version |-> version, events |-> {event}])
        IN EventBatchContract(batch) /\ Ask("event", [batch |-> batch, raw |-> event, entities |-> entities])

AnswerEvent ==
    /\ topic = "event"
    /\ answer' = {EventRelinked(event, question.entities) : event \in question.batch.events}

AskClaim ==
    \E claim \in RawClaims, entities, claims \in SUBSET {"x"}, events \in SUBSET {"e", "x"} :
        /\ ClaimBatchContract([minor |-> claim.minor, claims |-> {claim}])
        /\ Ask("claim", [claim |-> claim, entities |-> entities, events |-> events, claims |-> claims])

AnswerClaim ==
    /\ topic = "claim"
    /\ answer' = ClaimRelinked(question.claim, question.entities, question.events, question.claims)

AskState == \E state \in RawStates : KnowledgeContract(state) /\ Ask("knowledge", state)

AnswerState ==
    topic = "knowledge" /\ answer' = [question EXCEPT !.target = LinkRenamed(question.target)]

\* What the schema accepted it accepts again after the aggregation, so
\* that the stored result can be read; nobody taking part is forgotten.
\* Claims of version 1.0 are the exception: rewriting one declares it to
\* be 1.3, which knows no bare ASSERTION and asks for a temporal scope.
AcceptedReread ==
    /\ Replied("event") => \A event \in answer :
            /\ EventContract(event)
            /\ event.ids \cup event.mentions = question.raw.ids \cup question.raw.mentions
            /\ {event.place, event.placeMention} = {question.raw.place, question.raw.placeMention}
    /\ Replied("claim") =>
            \/ ClaimContract(answer)
            \/ question.claim.minor = 0 /\ (question.claim.type = "ASSERTION" \/ ~question.claim.scoped)
    /\ Replied("knowledge") => KnowledgeContract(answer)

(***************************************************************************)
(* State changes and relationship signals with evidence from a window of   *)
(* two chunks.                                                             *)
(***************************************************************************)
Chunks == <<<<"a">>, <<"b">>>>

Refs == [chunk : 1..3, start : {Absent, 0}, stop : {Absent, 1}, quote : {<<"a">>, <<"b">>}]
Pairs == {<<one, two>> : one, two \in {ref \in Refs : (ref.start = Absent) = (ref.stop = Absent)}}

Indexes == {<<>>, <<0>>, <<1>>, <<2>>, <<0, 0>>, <<0, 1>>, <<1, 0>>}

Paths ==
    {"health.injury", "life_status", "location", "possession.holder", "physical.condition", "accessibility",
     "availability", "quantity", "role.status", "appearance.clothing", "appearance.hairstyle"}

Values == {"null", "blank", "text", "placeholder", "unknown", "guess", "1", "TRUE"}

Change(path, kind, old, new, persistent, supports, lasts, evidence) ==
    [minor |-> 3, path |-> path, kind |-> kind, old |-> old, new |-> new, persistent |-> persistent,
     supports |-> supports, lasts |-> lasts, evidence |-> evidence]

AskChange ==
    \E path \in {"location", "quantity"}, evidence \in Pairs, supports, lasts \in Indexes, persistent \in BOOLEAN :
        LET change == Change(path, "OBJECT", "null", IF path = "quantity" THEN "1" ELSE "text",
                             persistent, supports, lasts, evidence)
        IN /\ ChangeContract(change)
           /\ \A i \in DOMAIN evidence : Bindable(evidence[i], Chunks)
           /\ Ask("change", change)

AnswerChange ==
    /\ topic = "change"
    /\ answer' = [question EXCEPT !.evidence = Rewritten(question.evidence, Chunks)]

\* A stored change can be read again, and one window owns it: the one of
\* the chunk that holds the quote of its first support.
ChangeOwnedOnce ==
    Replied("change") =>
        /\ ChangeContract(answer)
        /\ \E chunk \in DOMAIN Chunks :
            /\ {c \in DOMAIN Chunks : ChangeOwnedBy(answer, {c})} = {chunk}
            /\ Occurs(question.evidence[question.supports[1] + 1].quote, Chunks[chunk])

AllChanges ==
    {Change(path, kind, old, new, persistent, <<0>>, IF persistent THEN <<0>> ELSE <<>>,
            <<[chunk |-> 1, start |-> Absent, stop |-> Absent, quote |-> <<"a">>]>>) :
        path \in Paths, kind \in {"CHARACTER", "OBJECT", "LOCATION", "ORGANIZATION"},
        old \in {"null", "1", "TRUE", "text"}, new \in Values, persistent \in BOOLEAN}

AskChanges ==
    LET accepted == {change \in AllChanges : ChangeContract(change)} IN
    \E one, two \in accepted :
        /\ one.path = two.path
        /\ ChangeBatchContract(<<one, two>>) /\ Ask("changes", <<one, two>>)

AnswerChanges ==
    topic = "changes" /\ answer' = {ChangeMergeKey(question[i]) : i \in DOMAIN question}

\* Two changes that a batch keeps apart are never merged afterwards.
KeptApart == Replied("changes") => Cardinality(answer) = 2

Participants ==
    {participant \in [text : {"x", "y"}, kind : {"CHARACTER", "ORGANIZATION"}, resolved : BOOLEAN, id : {None, "x", "y"}] :
        participant.resolved <=> participant.id # None}

Signal(kind, subject, counterpart, effect, basis, support, evidence) ==
    [kind |-> kind, subject |-> subject, counterpart |-> counterpart, effect |-> effect,
     denied |-> effect = "DENIAL", basis |-> basis, support |-> support,
     speaker |-> basis \in Stated, anchored |-> effect \in Changing, evidence |-> evidence]

Mention(text, kind) == [text |-> text, kind |-> kind, resolved |-> FALSE, id |-> None]

AskSignal ==
    /\ \/ \E kind \in RelationshipKinds, subject, counterpart \in Participants, effect \in {"PRESENT", "TERMINATION"} :
            question = Signal(kind, subject, counterpart, effect, "NARRATED", "EXPLICIT",
                              <<CHOOSE ref \in Refs : ref.chunk = 1>>)
       \/ \E effect \in {"PRESENT", "FORMATION", "DENIAL", "UNKNOWN"}, support \in {"EXPLICIT", "STRONG", "LIMITED"},
             basis \in {"DIRECT_STATEMENT", "NARRATED", "OBSERVED_ACTION", "INFERRED"}, evidence \in Pairs :
            /\ question = Signal("TRUSTS", Mention("x", "CHARACTER"), Mention("y", "ORGANIZATION"),
                                 effect, basis, support, evidence)
            /\ SignalAdmitted(question, Chunks)
    /\ SignalContract(question)
    /\ topic = "signal"

AnswerSignal ==
    /\ topic = "signal"
    /\ answer' = [stored |-> [question EXCEPT !.evidence = Rewritten(question.evidence, Chunks)],
                  swapped |-> [question EXCEPT !.subject = question.counterpart, !.counterpart = question.subject]]

\* A relationship between equals is one signal whichever is named first,
\* in a batch and in the aggregation; any other has a direction.
SwapIsSame ==
    Replied("signal") =>
        IF question.kind \in Symmetric
        THEN SignalContract(answer.swapped) /\ SignalKey(answer.swapped) = SignalKey(question)
        ELSE SignalKey(answer.swapped) # SignalKey(question)

\* A stored signal can be read again, unless the normalisation made one of
\* two references that carry the same quote.
SignalReread ==
    Replied("signal") =>
        \/ SignalContract(answer.stored)
        \/ \E i, j \in DOMAIN question.evidence : i # j /\ question.evidence[i].quote = question.evidence[j].quote

\* What one contract accepts, the next one reads, owns once and judges alike.
ContractsAgree ==
    /\ AcceptedReread
    /\ ChangeOwnedOnce
    /\ KeptApart
    /\ SwapIsSame
    /\ SignalReread
=============================================================================

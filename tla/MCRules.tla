------------------------------ MODULE MCRules ------------------------------
(***************************************************************************)
(* All topics of the rules in one run; evidence, slices, windows and the   *)
(* review of their aggregation are asked here.                             *)
(***************************************************************************)
EXTENDS CallQuestions, Gate1Questions, StoryBibleQuestions, TimelineQuestions, WindowPlanning, TLC

CONSTANTS
    Characters,     \* the alphabet of the texts
    TextLength,     \* a chunk's longest text
    SliceLength     \* the longest text that is cut in two

TextsUpTo(length) == UNION {[1..n -> Characters] : n \in 1..length}

(***************************************************************************)
(* Evidence: two chunks, of which the window shows a beginning, and one    *)
(* reference to them, to an unknown chunk, or to nothing definite.         *)
(***************************************************************************)
AskEvidence ==
    \E texts \in [1..2 -> TextsUpTo(TextLength)], limit \in (TextLength - 1)..TextLength,
       ref \in EvidenceRef(1..3, -1..TextLength, {<<>>} \cup TextsUpTo(2)) :
        /\ topic = "evidence"
        /\ question = [texts |-> texts, limit |-> limit, ref |-> ref]

AnswerEvidence ==
    /\ topic = "evidence"
    /\ LET view == Visible(question.texts, question.limit)
           kept == Normalised(question.ref, view)
       IN answer' = [view |-> view, kept |-> kept, window |-> ValidatedAll({kept}, view)]

\* What the window passed with a quote is good against the whole chunks
\* at Gate 2 and for everybody after it, and what an agent let through
\* passes its window.
EvidenceHolds ==
    (topic = "evidence" /\ answered) =>
        /\ Bindable(question.ref, answer.view) => answer.window.passed
        /\ answer.window.passed /\ Quoted(question.ref) =>
                /\ EvidenceIssues(answer.kept, question.texts) = {}
                /\ Accepted(answer.kept, question.texts)
                /\ InScope(answer.kept, question.texts)
                /\ Groundable(answer.kept, question.texts)

\* Normalising again changes nothing, a good reference is left alone, and
\* a quote is never turned into another.
NormalisedOnce ==
    (topic = "evidence" /\ answered) =>
        /\ Normalised(answer.kept, answer.view) = answer.kept
        /\ Validated(question.ref, answer.view).passed => answer.kept = question.ref
        /\ answer.kept.quote = question.ref.quote

\* Whatever the curator's normaliser grounds is accepted by the StoryBible
\* validator, in the same place, and stays as it is when grounded again.
GroundedAccepted ==
    (topic = "evidence" /\ answered /\ Groundable(question.ref, question.texts)) =>
        LET grounded == Grounded(question.ref, question.texts)
        IN /\ Accepted(grounded, question.texts)
           /\ EvidenceIssues(grounded, question.texts) = {}
           /\ Ranged(question.ref) => grounded.start = question.ref.start
           /\ Grounded(grounded, question.texts) = grounded

\* The failure of a window names the quote whenever a quote is missing, so
\* that the retry asks for the right thing.
FailureNamesQuote ==
    (topic = "evidence" /\ answered) =>
        LET failure == EvidenceFailure(answer.window)
        IN /\ failure = "none" <=> answer.window.passed
           /\ failure = "CHAR_RANGE_NOT_MATCHED" =>
                \A c \in DOMAIN answer.view : c = answer.kept.chunk /\ Quoted(answer.kept) =>
                    Occurs(answer.kept.quote, answer.view[c])

(***************************************************************************)
(* Slices and sentences of one text.                                       *)
(***************************************************************************)
AskSlice ==
    \E text \in TextsUpTo(SliceLength), minimum \in 1..3, natural \in BOOLEAN :
        \E start \in 0..(Len(text) - 1), mention \in TextsUpTo(2) :
            /\ CanSlice(start, Len(text), minimum)
            /\ Occurs(mention, text)
            /\ topic = "slice"
            /\ question = [text |-> text, start |-> start, minimum |-> minimum,
                           natural |-> natural, mention |-> mention]

AnswerSlice ==
    /\ topic = "slice"
    /\ answer' = [middle |-> Midpoint(question.text, question.start, Len(question.text),
                                      question.minimum, question.natural),
                  anchor |-> Anchor(1, question.text, question.mention)]

\* Both slices of a chunk keep the minimum length, so that the recovery by
\* halves ends, and together they are the text that was cut.
SlicesShare ==
    (topic = "slice" /\ answered) =>
        /\ answer.middle - question.start >= question.minimum
        /\ Len(question.text) - answer.middle >= question.minimum
        /\ Cut(question.text, question.start, answer.middle)
            \o Cut(question.text, answer.middle, Len(question.text))
              = Cut(question.text, question.start, Len(question.text))

\* The sentence that replaces a paraphrase is verbatim, holds the mention
\* and no more than its sentence, and passes the window and Gate 2.
AnchorSound ==
    (topic = "slice" /\ answered) =>
        LET at == Min(Starts(question.text, question.mention))
            anchor == answer.anchor
        IN /\ Validated(anchor, <<question.text>>).passed
           /\ EvidenceIssues(anchor, <<question.text>>) = {}
           /\ anchor.start <= at /\ at + Len(question.mention) <= anchor.stop
           /\ \A i \in (anchor.start + 1)..(anchor.stop - 1) :
                question.text[i] = Boundary => i > at /\ i <= at + Len(question.mention)

(***************************************************************************)
(* Windows of a document.                                                  *)
(***************************************************************************)
CONSTANT DocumentLength     \* chunks of the longest document

AskWindows ==
    \E chunks, size, stride, batch \in 1..DocumentLength :
        /\ topic = "windows"
        /\ question = [chunks |-> chunks, size |-> size, stride |-> stride, batch |-> batch]

AnswerWindows ==
    /\ topic = "windows"
    /\ answer' = PlannedWindows(question.chunks, question.size, question.stride, question.batch)

\* Whatever the stride, every chunk is read, and owned by one window, the
\* first that shows it; no window is paid for that owns nothing, and none
\* shows more than its size.
EveryChunkOwned ==
    (topic = "windows" /\ answered) =>
        /\ \A chunk \in 0..(question.chunks - 1) :
            /\ Cardinality({window \in answer : chunk \in window.owns}) = 1
            /\ \A shower, owner \in answer : chunk \in shower.shows /\ chunk \in owner.owns =>
                    owner.batch = shower.batch /\ owner.index <= shower.index
        /\ \A window \in answer : /\ window.owns # {} /\ window.owns \subseteq window.shows
                                   /\ Cardinality(window.shows) <= question.size

\* The budget reserved for a run pays for all its windows may come to call
\* exactly while they have at most two first children each on average: it
\* counts a full binary tree, and the worker makes a child of every owned
\* chunk. Windows of at most two chunks are always paid for.
CapPays ==
    (topic = "windows" /\ answered) =>
        /\ \A attempts \in 1..3, depth \in 0..3 :
            RequestCap(Cardinality(answer), attempts, depth) >= WorstCalls(answer, attempts, depth)
                <=> depth = 0 \/ Cardinality(FirstChildren(answer)) <= 2 * Cardinality(answer)
        /\ question.size <= 2 => Cardinality(FirstChildren(answer)) <= 2 * Cardinality(answer)

(***************************************************************************)
(* Aggregation and Gate 2: up to three proposals found in two windows.     *)
(***************************************************************************)
CONSTANTS Names     \* used as names, summaries and, by models, as ids

\* A batch is read in the order of its local ids.
ASSUME NamesAssumption == Names \subseteq Nat

Entity(id, text) == Proposal("entity", <<id>>, <<text>>, "", "", 1, {})

Entities == {Entity(id, text) : id, text \in Names}

EventLinks ==
    {{}} \cup {{Link("participant", {"entity"}, "entity", <<id>>, <<id>>)} : id \in Names}
         \cup {{Link(path, {"entity"}, NoKind, NoId, <<name>>)} : path \in {"participant", "location"}, name \in Names}
         \cup {{Preset("participant", {"entity"}, kind, <<1>>, <<2>>)} : kind \in {"entity", "event"}}

Event(layer, evidence, links) == Proposal("event", <<1>>, <<2>>, "", layer, evidence, links)

Events == {Event("ACTUAL", 1, links) : links \in EventLinks} \cup {Event("DREAM", 1, {}), Event("ACTUAL", 2, {})}

Speech(speaker) == IF speaker = "CHARACTER" THEN {"entity"} ELSE {"entity", "event", "claim"}

ClaimLinks(speaker) ==
    {{Link("source", Speech(speaker), IF speaker = "CHARACTER" THEN "entity" ELSE NoKind, <<1>>, <<1>>)},
     {Link("source", Speech(speaker), NoKind, NoId, <<2>>)},
     {Link("target", {"event"}, "event", <<1>>, <<2>>)},
     {Link("target", {"event"}, NoKind, NoId, <<2>>)},
     {Preset("target", {"event"}, "event", <<1>>, <<2>>)}}

Claims ==
    UNION {{Proposal("claim", <<1>>, <<1>>, speaker, "ACTUAL", 1, links) : links \in ClaimLinks(speaker)} :
            speaker \in {"CHARACTER", "DOCUMENT"}}

Knowing(layer, evidence, link) == Proposal("knowledge", <<1>>, <<1>>, "", layer, evidence, {link})

Unknown == Link("subject", {"entity"}, NoKind, NoId, <<2>>)

States ==
    {Knowing("DREAM", 1, Unknown), Knowing("ACTUAL", 2, Unknown)} \cup
    {Knowing("ACTUAL", 1, link) :
        link \in {Unknown, Link("subject", {"entity"}, "entity", <<1>>, <<1>>),
                  Link("target", {"event"}, "event", <<1>>, <<2>>),
                  Link("supporting", {"claim"}, "claim", <<1>>, <<1>>)}}

Changes ==
    {Proposal("change", <<1>>, <<1>>, "", "ACTUAL", evidence, {Link("target", {"entity"}, NoKind, NoId, <<1>>)}) :
        evidence \in 1..2}

\* Both windows see both chunks; each owns one.
Sources == {Source(window, proposal) : window \in 1..2, proposal \in Entities \cup Events \cup Claims \cup States \cup Changes}

\* An agent run gives every proposal of its batch an id of its own.
OneBatch(one, other) == one # other => IdOf(one) # IdOf(other)

AskReview ==
    \E one, two, three \in Sources, sound \in {{1}, {1, 2}} :
        /\ OneBatch(one, two) /\ OneBatch(one, three) /\ OneBatch(two, three)
        /\ topic = "review"
        /\ question = [sources |-> {one, two, three}, sound |-> sound]

AnswerReview ==
    /\ topic = "review"
    /\ LET sources == OwnedSources(question.sources, <<1, 2>>)
           envelopes == Aggregated(sources)
       IN answer' = [sources |-> sources, envelopes |-> envelopes,
                     review |-> Review(envelopes, {Run(source) : source \in sources}, question.sound)]

\* Every proposal found is in exactly one aggregate, which counts its run.
RunsKept ==
    (topic = "review" /\ answered) =>
        \A source \in answer.sources :
            Cardinality({envelope \in answer.envelopes :
                /\ envelope.proposal.kind = source.proposal.kind
                /\ envelope.proposal.id = Alias(IdOf(source), answer.sources)
                /\ Run(source) \in envelope.runs}) = 1

\* A participant named by the id of an entity of the same window is, in
\* the aggregate, that entity or the namesake it was merged into.
LinksFaithful ==
    (topic = "review" /\ answered) =>
        \A source, named \in answer.sources : \A link \in source.proposal.links :
            (/\ named.window = source.window /\ named.proposal.kind = "entity"
             /\ link.path = "participant" /\ ~link.preset /\ link.id = named.proposal.id
             /\ Leading(source, answer.sources) = source) =>
                \E envelope, target \in answer.envelopes :
                    /\ envelope.proposal.id = IdOf(source)
                    /\ target.proposal.kind = "entity"
                    /\ target.proposal.text = named.proposal.text
                    /\ \E kept \in envelope.proposal.links : kept.id = target.proposal.id

\* An event or a claim is rejected for a link to nothing exactly when its
\* extractor has resolved a mention itself: the local id of such a mention
\* is never rewritten and Gate 2 finds nothing by it. Whatever else names
\* no proposal has become a mention.
OnlyPresetsLost ==
    (topic = "review" /\ answered) =>
        \A decision \in answer.review.decisions :
            decision.proposal.kind \in {"event", "claim"} =>
                ((\E issue \in decision.issues :
                    issue.code \in {"REFERENCE_TARGET_NOT_FOUND", "REFERENCE_SCHEMA_MISMATCH"})
                 <=> \E link \in decision.proposal.links : link.preset)

\* Whatever the windows found, the review's own contracts hold, so that it
\* never fails as a whole.
ReviewNeverFails ==
    (topic = "review" /\ answered) =>
        /\ InputContract(answer.envelopes)
        /\ \A decision \in answer.review.decisions : DecisionContract(decision)

\* A run that goes on has approved everything, and each link it resolved
\* leads to an approved proposal of the same layer.
BundleClosed ==
    (topic = "review" /\ answered /\ Route(answer.review) = "APPROVED") =>
        /\ answer.review.bundle = {envelope.proposal : envelope \in answer.envelopes}
        /\ \A decision \in answer.review.decisions : \A reference \in decision.references :
            \A target \in reference.selected :
                /\ target \in answer.review.bundle
                /\ target.kind # "entity" => target.layer = decision.proposal.layer

\* The Timeline gets events whose people and places are approved entities,
\* and what it calls a duplicate was quoted from another place, or else
\* the aggregation would have merged it.
TimelineScoped ==
    (topic = "review" /\ answered /\ Route(answer.review) = "APPROVED") =>
        /\ \A decision \in TimelineInput(answer.review, "event") : \A path \in {"participant", "location"} :
            Named(decision, path) \subseteq {entity.proposal.id : entity \in TimelineInput(answer.review, "entity")}
        /\ \A pair \in Duplicated(answer.review, "event") \cup Duplicated(answer.review, "claim") :
            pair[1].proposal.evidence # pair[2].proposal.evidence

\* What one stage says of a quote is what the next one finds: evidence that passed its window
\* passes every later check, and a retry is told what was wrong.
EvidenceSound ==
    /\ EvidenceHolds
    /\ NormalisedOnce
    /\ GroundedAccepted
    /\ FailureNamesQuote
    /\ SlicesShare
    /\ AnchorSound

\* The plan reads and owns every chunk, and its reserved budget pays for what the split
\* windows may call as far as a binary tree of splits reaches.
WindowsSuffice ==
    /\ EveryChunkOwned
    /\ CapPays

\* Between windows, Gate 2 and Timeline no proposal is lost and none joined to what it is not
\* about.
ReviewSound ==
    /\ RunsKept
    /\ LinksFaithful
    /\ OnlyPresetsLost
    /\ ReviewNeverFails
    /\ BundleClosed
    /\ TimelineScoped

----------------------------------------------------------------------------
Init ==
    /\ answered = FALSE /\ answer = <<>>
    /\ \/ AskEvidence \/ AskSlice \/ AskWindows \/ AskReview
       \/ AskEvent \/ AskClaim \/ AskState \/ AskChange \/ AskChanges \/ AskSignal
       \/ AskCall \/ AskNegotiation \/ AskAdvice
       \/ AskText \/ AskAudit \/ AskImport
       \/ AskOrder \/ AskDraft \/ AskPlan
       \/ AskPairs \/ AskPair \/ AskGate3

Next ==
    /\ ~answered /\ answered' = TRUE
    /\ UNCHANGED <<topic, question>>
    /\ \/ AnswerEvidence \/ AnswerSlice \/ AnswerWindows \/ AnswerReview
       \/ AnswerEvent \/ AnswerClaim \/ AnswerState \/ AnswerChange \/ AnswerChanges \/ AnswerSignal
       \/ AnswerCall \/ AnswerNegotiation \/ AnswerAdvice
       \/ AnswerText \/ AnswerAudit \/ AnswerImport
       \/ AnswerOrder \/ AnswerDraft \/ AnswerPlan
       \/ AnswerPairs \/ AnswerPair \/ AnswerGate3

Spec == Init /\ [][Next]_vars
=============================================================================

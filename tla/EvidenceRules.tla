--------------------------- MODULE EvidenceRules ---------------------------
(***************************************************************************)
(* The life of one evidence reference: what the schema admits, what the    *)
(* agent of a window lets through, how the window normalises and validates *)
(* it against the text it showed the model, and how Gate 2, the commit,    *)
(* the StoryBible review, the validator and the curator's normaliser judge *)
(* it later against the whole chunks.  A text is a sequence of characters; *)
(* a view maps the ids of the chunks at hand to their texts.               *)
(***************************************************************************)
EXTENDS Integers, FiniteSetsExt, SequencesExt

Absent == -1            \* an offset left out; a quote left out is <<>>
Boundary == "."         \* any character that ends a sentence

\* Python's text[from:to].
Cut(text, from, to) == SubSeq(text, from + 1, Min({to, Len(text)}))

Starts(text, quote) ==
    {at \in 0..(Len(text) - Len(quote)) : Cut(text, at, at + Len(quote)) = quote}

Occurs(quote, text) == Starts(text, quote) # {}

EvidenceRef(chunks, offsets, quotes) ==
    {ref \in [chunk : chunks, start : offsets, stop : offsets, quote : quotes] :
        /\ (ref.start = Absent) <=> (ref.stop = Absent)
        /\ ref.start # Absent => ref.stop > ref.start}

Ranged(ref) == ref.start # Absent
Quoted(ref) == ref.quote # <<>>

\* The window shows no more than so many characters of each chunk,
\* and a slice of a chunk only the characters between its offsets.
Visible(texts, limit) == [c \in DOMAIN texts |-> Cut(texts[c], 0, limit)]

Matching(ref, view) == {c \in DOMAIN view : Occurs(ref.quote, view[c])}

\* The agents of a window: a quote in its chunk, or in one chunk only.
Bindable(ref, view) ==
    /\ Quoted(ref)
    /\ ref.chunk \in Matching(ref, view) \/ Cardinality(Matching(ref, view)) = 1

RangeFits(ref, text) ==
    /\ ref.stop <= Len(text)
    /\ Cut(text, ref.start, ref.stop) = ref.quote

Rebound(ref, view) ==
    IF ref.chunk \notin Matching(ref, view) /\ Cardinality(Matching(ref, view)) = 1
    THEN [ref EXCEPT !.chunk = CHOOSE c \in Matching(ref, view) : TRUE]
    ELSE ref

\* Slip: offsets that do not fit are kept.
Rebased_Kept(ref, text) == ref

Rebased(ref, text) ==
    CASE ~Ranged(ref) \/ RangeFits(ref, text) -> ref
      [] Ranged(ref) /\ ~RangeFits(ref, text) /\ Cardinality(Starts(text, ref.quote)) = 1 ->
            LET at == CHOOSE s \in Starts(text, ref.quote) : TRUE
            IN [ref EXCEPT !.start = at, !.stop = at + Len(ref.quote)]
      [] OTHER -> [ref EXCEPT !.start = Absent, !.stop = Absent]

Normalised(ref, view) ==
    LET bound == Rebound(ref, view)
    IN IF Quoted(ref) /\ bound.chunk \in Matching(ref, view)
       THEN Rebased(bound, view[bound.chunk]) ELSE bound

\* validate_evidence: passed, and whether quote and range matched.
Validated(ref, view) ==
    LET known == ref.chunk \in DOMAIN view
        inside == ref.stop <= Len(view[ref.chunk])
        quote == CASE ~Quoted(ref) -> "none"
                   [] Quoted(ref) /\ known /\ Occurs(ref.quote, view[ref.chunk]) -> "true"
                   [] OTHER -> "false"
        range == CASE ~Ranged(ref) -> "none"
                   [] Ranged(ref) /\ known /\ inside
                              /\ (Quoted(ref) => RangeFits(ref, view[ref.chunk])) -> "true"
                   [] OTHER -> "false"
    IN [passed |-> known /\ quote # "false" /\ range # "false", quote |-> quote, range |-> range]

Combined(values) ==
    CASE "false" \in values -> "false"
      [] "false" \notin values /\ "true" \in values -> "true"
      [] OTHER -> "none"

\* validate_evidence_refs over all references of one proposal.
ValidatedAll(refs, view) ==
    LET results == {Validated(ref, view) : ref \in refs}
    IN [passed |-> refs # {} /\ \A result \in results : result.passed,
        quote |-> Combined({result.quote : result \in results}),
        range |-> Combined({result.range : result \in results})]

EvidenceFailure(result) ==
    CASE result.passed -> "none"
      [] ~result.passed /\ result.quote = "false" -> "QUOTE_NOT_MATCHED"
      [] ~result.passed /\ result.quote # "false" /\ result.range = "false" -> "CHAR_RANGE_NOT_MATCHED"
      [] OTHER -> "EVIDENCE_VALIDATION_FAILED"

\* Gate 2, against the whole chunks of the analysis.
EvidenceIssues(ref, texts) ==
    IF ref.chunk \notin DOMAIN texts
    THEN {"EVIDENCE_OUTSIDE_ANALYSIS_SCOPE", "EVIDENCE_CHUNK_NOT_FOUND"}
    ELSE LET text == texts[ref.chunk] IN
         (IF Quoted(ref) /\ Occurs(ref.quote, text) THEN {} ELSE {"EVIDENCE_QUOTE_NOT_FOUND"})
         \cup (CASE ~Ranged(ref) -> {}
                 [] Ranged(ref) /\ ref.stop > Len(text) -> {"EVIDENCE_RANGE_OUT_OF_BOUNDS"}
                 [] Ranged(ref) /\ ref.stop <= Len(text) ->
                        IF Quoted(ref) /\ RangeFits(ref, text) THEN {} ELSE {"EVIDENCE_OFFSET_MISMATCH"})

\* What the commit, the StoryBible review and its validator all ask.
Accepted(ref, texts) ==
    /\ ref.chunk \in DOMAIN texts
    /\ Ranged(ref) => /\ ref.stop <= Len(texts[ref.chunk])
                      /\ Quoted(ref) => RangeFits(ref, texts[ref.chunk])
    /\ ~Ranged(ref) /\ Quoted(ref) => Occurs(ref.quote, texts[ref.chunk])

\* The curator's normaliser refuses a reference it cannot pin down ...
Groundable(ref, texts) == Accepted(ref, texts) /\ (Ranged(ref) \/ Quoted(ref))

\* ... and gives every other one its offsets and its exact text.
Grounded(ref, texts) ==
    IF Ranged(ref)
    THEN [ref EXCEPT !.quote = Cut(texts[ref.chunk], ref.start, ref.stop)]
    ELSE LET at == Min(Starts(texts[ref.chunk], ref.quote))
         IN [ref EXCEPT !.start = at, !.stop = at + Len(ref.quote)]

\* The sentence around the first mention of a state change's target.
Anchor(chunk, text, mention) ==
    LET at == Min(Starts(text, mention))
        marks == Starts(text, <<Boundary>>)
        start == Max({0} \cup {mark + 1 : mark \in {s \in marks : s < at}})
        stop == Min({Len(text)} \cup {mark + 1 : mark \in {s \in marks : s >= at + Len(mention)}})
    IN [chunk |-> chunk, start |-> start, stop |-> stop, quote |-> Cut(text, start, stop)]

\* What a state change keeps of a reference; a ref no longer than its
\* chunk names stays, and a paraphrase is replaced by the anchor.
StateChangeAdmits(ref, mention, view) ==
    /\ \E c \in DOMAIN view : Occurs(mention, view[c])
    /\ \/ Bindable(ref, view)
       \/ ref.chunk \in DOMAIN view /\ Occurs(mention, view[ref.chunk])

StateChangeEvidence(ref, mention, view) ==
    IF Bindable(ref, view) THEN ref ELSE Anchor(ref.chunk, view[ref.chunk], mention)

CanSlice(start, stop, minimum) == stop - start >= 2 * minimum

\* Where a window on one chunk is cut in two: at the sentence end next
\* to the middle for events, in the middle otherwise.
Midpoint(text, start, stop, minimum, natural) ==
    LET middle == start + (stop - start) \div 2
        away(at) == IF at < middle THEN middle - at ELSE at - middle
        ends == {at \in (start + minimum)..(stop - minimum) : text[at] = Boundary}
        nearest == {at \in ends : \A other \in ends : away(at) <= away(other)}
    IN IF natural /\ ends # {} THEN Min(nearest) ELSE middle
=============================================================================

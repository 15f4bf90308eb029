-------------------------- MODULE DocumentParsing --------------------------
(***************************************************************************)
(* DocumentParser: from a text to its chapters and the chunks everything   *)
(* downstream reads.  A text is a sequence of characters; "H" stands for   *)
(* what the heading pattern matches, "LS" for a separator that ends a line *)
(* for splitlines without being a newline.                                 *)
(***************************************************************************)
EXTENDS Integers, Sequences, FiniteSetsExt

CONSTANTS
    MinSentence,    \* a chunk is cut at the end of a sentence from here on
    MaxChunk        \* the longest chunk

ASSUME ChunkAssumption == MinSentence \in Nat /\ MaxChunk \in Nat \ {0} /\ MinSentence < MaxChunk

Spaces == {" ", "NL", "LS"}

Solid(text, k) == text[k] \notin Spaces
IsBlank(text) == \A k \in DOMAIN text : ~Solid(text, k)

----------------------------------------------------------------------------
\* The end of the line that begins at k, its separator included.
LineStop(text, k) == Min({j \in k..Len(text) : text[j] \in {"NL", "LS"}} \cup {Len(text)})

\* Lines that are a heading and nothing else.
Headings(text) ==
    {k \in DOMAIN text :
        /\ k = 1 \/ text[k - 1] \in {"NL", "LS"}
        /\ \E at \in k..LineStop(text, k) :
            text[at] = "H" /\ \A other \in k..LineStop(text, k) : other = at \/ ~Solid(text, other)}

\* Each chapter reaches to the next heading; what precedes the first one
\* is in no chapter.  A text without headings is one chapter.
Bodies(text) ==
    IF Headings(text) = {} THEN {[from |-> 1, to |-> Len(text)]}
    ELSE {[from |-> LineStop(text, k) + 1,
           to |-> Min({next \in Headings(text) : next > k} \cup {Len(text) + 1}) - 1] : k \in Headings(text)}

\* A newline that a blank line follows.
Break(text, k, to) ==
    /\ text[k] = "NL"
    /\ \E next \in (k + 1)..to : text[next] = "NL" /\ \A j \in (k + 1)..next : ~Solid(text, j)

\* Paragraphs begin at the first character that is no space, and end at a
\* break, without their last newlines.
Paragraphs(text, body) ==
    LET opens(k) ==
            /\ Solid(text, k)
            /\ \A prior \in body.from..(k - 1) :
                (Solid(text, prior) /\ \A j \in (prior + 1)..(k - 1) : ~Solid(text, j)) =>
                    \E j \in (prior + 1)..(k - 1) : Break(text, j, body.to)
        close(k) == Min({j \in k..body.to : Break(text, j, body.to)} \cup {body.to + 1}) - 1
    IN {[from |-> k, to |-> Max({j \in k..close(k) : text[j] # "NL"})] :
            k \in {j \in body.from..body.to : opens(j)}}

\* Slip: the first sentence that is long enough ends the chunk, however
\* long it is.
SentenceStop_AnyLength(text, from, to) ==
    Min({k \in (from + MinSentence)..to : text[k] = "."} \cup {to})

\* Where the chunk that begins here is cut: after the last sentence that
\* leaves it long enough, else at its full length, which is where looking
\* ahead for a sentence ends, too.
SentenceStop(text, from, to) ==
    Max({k \in (from + MinSentence)..(from + MaxChunk - 1) : text[k] = "."} \cup
        (IF \E k \in (from + MinSentence)..(from + MaxChunk - 1) : text[k] = "." THEN {}
         ELSE {from + MaxChunk - 1}))

Spans(text, paragraph) ==
    LET to == paragraph.to
        spans[from \in paragraph.from..(to + 1)] ==
            IF from > to THEN {}
            ELSE IF to - from < MaxChunk THEN {[from |-> from, to |-> to]}
            ELSE LET stop == SentenceStop(text, from, to)
                 IN {[from |-> from, to |-> stop]} \cup
                    spans[Min({k \in (stop + 1)..to : text[k] # "NL"} \cup {to + 1})]
    IN spans[paragraph.from]

\* Without newlines around it.
Stripped(text, span) ==
    LET kept == {k \in span.from..span.to : text[k] # "NL"}
    IN IF \A k \in kept : ~Solid(text, k) THEN {} ELSE {[from |-> Min(kept), to |-> Max(kept)]}

ChunkSpans(text, body) ==
    UNION {Stripped(text, span) : span \in UNION {Spans(text, paragraph) : paragraph \in Paragraphs(text, body)}}

----------------------------------------------------------------------------
InOrder(spans) == [k \in 1..Cardinality(spans) |->
    CHOOSE span \in spans : Cardinality({other \in spans : other.from < span.from}) = k - 1]

\* What is stored: chapters and chunks, counted from 0, with offsets.
\* Identities are made of the document's and of what is numbered here.
Parsed(document, text) ==
    LET bodies == InOrder(Bodies(text))
        spans == UNION {ChunkSpans(text, body) : body \in Bodies(text)}
        before(from) == Cardinality({span \in spans : span.from < from})
        chapterOf(span) == CHOOSE k \in DOMAIN bodies : bodies[k].from <= span.from /\ span.to <= bodies[k].to
    IN [chapters |-> [k \in DOMAIN bodies |->
            LET inside == before(bodies[k].to + 1) - before(bodies[k].from)
            IN [id |-> <<document, k - 1>>, order |-> k - 1, ours |-> TRUE, titled |-> TRUE,
                first |-> before(bodies[k].from),
                last |-> before(bodies[k].from) + (IF inside = 0 THEN 0 ELSE inside - 1)]],
        chunks |-> [k \in 1..Cardinality(spans) |->
            LET span == InOrder(spans)[k]
                cut == SubSeq(text, span.from, span.to)
            IN [id |-> <<document, k - 1, cut>>, order |-> k - 1, ours |-> TRUE,
                chapter |-> <<document, chapterOf(span) - 1>>, text |-> cut, sound |-> TRUE,
                start |-> span.from - 1, stop |-> span.to]]]
=============================================================================

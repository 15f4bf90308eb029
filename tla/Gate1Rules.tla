----------------------------- MODULE Gate1Rules -----------------------------
(***************************************************************************)
(* ReviewGate1Service: the audit of a text with its chapters and chunks,   *)
(* its routing and decision, and the contract the schema of its result     *)
(* checks.  An input is what DocumentParsing returns with the text, the    *)
(* policy's version, and whether the checksums of the document match.      *)
(* Chapters and chunks are known by their places in the input.             *)
(***************************************************************************)
EXTENDS DocumentParsing

CONSTANTS
    WarningRun,     \* newlines in a row that are worth a warning
    ReviewRun,      \* newlines in a row that a person must see
    LegacyRun       \* the same for policies of version 1.0

ASSUME RunAssumption == WarningRun < ReviewRun

Missing == -1       \* an offset that is not recorded

Finding(code, severity, chapters, chunks) ==
    [code |-> code, severity |-> severity, chapters |-> chapters, chunks |-> chunks]

Only(condition, finding) == IF condition THEN {finding} ELSE {}

\* One finding for each value that occurs more than once.
Twins(values) ==
    {twins \in {{j \in DOMAIN values : values[j] = values[i]} : i \in DOMAIN values} : Cardinality(twins) > 1}

Contiguous(orders) ==
    {orders[i] : i \in DOMAIN orders} = 0..(Len(orders) - 1)

----------------------------------------------------------------------------
\* Newlines in a row, spaces between them allowed.
LongestRun(text) ==
    LET runs == {run \in (1..Len(text)) \X (1..Len(text)) :
                    \A k \in run[1]..run[2] : text[k] \in {"NL", " "}}
    IN Max({0} \cup {Cardinality({k \in run[1]..run[2] : text[k] = "NL"}) : run \in runs})

WhitespaceFindings(text, version) ==
    LET run == LongestRun(text)
        excessive(severity) == Finding("DOCUMENT_EXCESSIVE_WHITESPACE", severity, {}, {})
    IN IF version = "1.0" THEN Only(run >= LegacyRun, excessive("REVIEW"))
       ELSE IF run >= ReviewRun THEN {excessive("REVIEW")}
       ELSE Only(run >= WarningRun, excessive("WARNING"))

DocumentFindings(input) ==
    LET found == {input.text[k] : k \in DOMAIN input.text}
    IN Only(IsBlank(input.text), Finding("DOCUMENT_EMPTY", "BLOCKING", {}, {}))
       \cup Only(~input.sound, Finding("DOCUMENT_CHECKSUM_MISMATCH", "BLOCKING", {}, {}))
       \cup Only("FFFD" \in found, Finding("DOCUMENT_TEXT_REPLACEMENT_CHARACTER", "REVIEW", {}, {}))
       \cup Only({"NUL", "CTL"} \cap found # {},
                 Finding("DOCUMENT_FORBIDDEN_CONTROL_CHARACTER",
                         IF "NUL" \in found THEN "BLOCKING" ELSE "REVIEW", {}, {}))
       \cup WhitespaceFindings(input.text, input.version)

----------------------------------------------------------------------------
Belonging(chapter, chunks) == {chunks[j].order : j \in {i \in DOMAIN chunks : chunks[i].chapter = chapter.id}}

ChapterFindings(input) ==
    LET chapters == input.chapters
        about(i) ==
            LET orders == Belonging(chapters[i], input.chunks)
                one(code, severity) == Finding(code, severity, {i}, {})
            IN Only(~chapters[i].ours, one("CHAPTER_SCOPE_MISMATCH", "BLOCKING"))
               \cup Only(~chapters[i].titled, one("CHAPTER_TITLE_BLANK", "REVIEW"))
               \cup Only(orders = {}, one("CHAPTER_EMPTY", "REVIEW"))
               \cup Only(orders # {} /\ <<Min(orders), Max(orders)>> # <<chapters[i].first, chapters[i].last>>,
                         one("CHAPTER_CHUNK_RANGE_MISMATCH", "BLOCKING"))
    IN {Finding("CHAPTER_ID_DUPLICATE", "BLOCKING", twins, {}) :
            twins \in Twins([i \in DOMAIN chapters |-> chapters[i].id])}
       \cup {Finding("CHAPTER_ORDER_DUPLICATE", "BLOCKING", twins, {}) :
            twins \in Twins([i \in DOMAIN chapters |-> chapters[i].order])}
       \cup Only(~Contiguous([i \in DOMAIN chapters |-> chapters[i].order]),
                 Finding("CHAPTER_ORDER_NON_CONTIGUOUS", "BLOCKING", {}, {}))
       \cup UNION {about(i) : i \in DOMAIN chapters}

----------------------------------------------------------------------------
Recorded(chunk) == chunk.start # Missing
InBounds(chunk, text) == chunk.start >= 0 /\ chunk.start < chunk.stop /\ chunk.stop <= Len(text)

Verbatim(chunk, text) == SubSeq(text, chunk.start + 1, chunk.stop) = chunk.text

Audited(chunk, text) == Recorded(chunk) /\ InBounds(chunk, text)

Overlapping(one, other) == one.start < other.stop /\ other.start < one.stop

\* Texts that occur in several places.
SameTexts(chunks) ==
    {twins \in Twins([i \in DOMAIN chunks |-> chunks[i].text]) :
        \E i, j \in twins : <<chunks[i].start, chunks[i].stop>> # <<chunks[j].start, chunks[j].stop>>}

ChunkFinding(input, i) ==
    LET chunk == input.chunks[i]
        one(code, severity) == Finding(code, severity, {}, {i})
    IN Only(~chunk.ours, one("CHUNK_SCOPE_MISMATCH", "BLOCKING"))
       \cup Only(\A k \in DOMAIN input.chapters : input.chapters[k].id # chunk.chapter,
                 one("CHUNK_CHAPTER_NOT_FOUND", "BLOCKING"))
       \cup Only(IsBlank(chunk.text), one("CHUNK_TEXT_WHITESPACE_ONLY", "BLOCKING"))
       \cup Only(~chunk.sound, one("CHUNK_CHECKSUM_MISMATCH", "BLOCKING"))
       \cup Only(~Recorded(chunk), one("CHUNK_OFFSETS_MISSING", "BLOCKING"))
       \cup Only(Recorded(chunk) /\ ~InBounds(chunk, input.text), one("CHUNK_OFFSET_OUT_OF_BOUNDS", "BLOCKING"))
       \cup Only(Audited(chunk, input.text) /\ ~Verbatim(chunk, input.text),
                 one("CHUNK_TEXT_RANGE_MISMATCH", "BLOCKING"))
       \cup Only(Len(chunk.text) > MaxChunk, one("CHUNK_LENGTH_EXCEEDS_POLICY", "REVIEW"))

ChunkFindings(input) ==
    LET chunks == input.chunks
        audited == {i \in DOMAIN chunks : Audited(chunks[i], input.text)}
        pairs == {pair \in audited \X audited :
                    pair[1] < pair[2] /\ Overlapping(chunks[pair[1]], chunks[pair[2]])}
        places == [i \in DOMAIN chunks |-> IF i \in audited THEN <<chunks[i].start, chunks[i].stop>> ELSE <<i>>]
    IN Only(chunks = <<>>, Finding("NO_USABLE_CHUNKS", "BLOCKING", {}, {}))
       \cup {Finding("CHUNK_ID_DUPLICATE", "BLOCKING", {}, twins) :
            twins \in Twins([i \in DOMAIN chunks |-> chunks[i].id])}
       \cup {Finding("CHUNK_ORDER_DUPLICATE", "BLOCKING", {}, twins) :
            twins \in Twins([i \in DOMAIN chunks |-> chunks[i].order])}
       \cup Only(~Contiguous([i \in DOMAIN chunks |-> chunks[i].order]),
                 Finding("CHUNK_ORDER_NON_CONTIGUOUS", "BLOCKING", {}, {}))
       \cup (UNION {ChunkFinding(input, i) : i \in DOMAIN chunks})
       \cup {Finding("CHUNK_RANGE_DUPLICATE", "BLOCKING", {}, twins) : twins \in Twins(places)}
       \cup {Finding("CHUNK_RANGE_OVERLAP", "BLOCKING", {}, {pair[1], pair[2]}) : pair \in pairs}
       \cup {Finding("CHUNK_TEXT_EXACT_DUPLICATE", "WARNING", {}, twins) : twins \in SameTexts(chunks)}

Findings(input) == DocumentFindings(input) \cup ChapterFindings(input) \cup ChunkFindings(input)

----------------------------------------------------------------------------
Of(findings, severity) == {finding \in findings : finding.severity = severity}

CheckStatus(findings) ==
    IF Of(findings, "BLOCKING") # {} THEN "FAILED"
    ELSE IF Of(findings, "REVIEW") # {} THEN "HELD"
    ELSE "PASSED"

ChapterReview(findings, i) == CheckStatus({finding \in findings : i \in finding.chapters})

\* A chunk without findings of its own shares those of a blocked document
\* and waits with a held one.
Related(findings, i) ==
    LET own == {finding \in findings : i \in finding.chunks}
    IN IF own = {} THEN Of(findings, "BLOCKING") ELSE own

ChunkReview(findings, i) ==
    IF Related(findings, i) # {} THEN CheckStatus(Related(findings, i))
    ELSE IF Of(findings, "REVIEW") # {} THEN "HELD"
    ELSE "PASSED"

\* What a failed execution finds instead.
ExecutionFailed(input) == Finding("GATE1_EXECUTION_FAILED", "BLOCKING", {}, DOMAIN input.chunks)

ReimportCodes ==
    {"DOCUMENT_EMPTY", "DOCUMENT_CHECKSUM_MISMATCH", "DOCUMENT_TEXT_REPLACEMENT_CHARACTER",
     "DOCUMENT_FORBIDDEN_CONTROL_CHARACTER"}

Action(findings) ==
    LET blocking == {finding.code : finding \in Of(findings, "BLOCKING")}
    IN IF "GATE1_EXECUTION_FAILED" \in blocking THEN "STOP"
       ELSE IF blocking \cap ReimportCodes # {} THEN "REIMPORT"
       ELSE IF blocking # {} THEN "RECHUNK"
       ELSE IF Of(findings, "REVIEW") # {} THEN "HOLD"
       ELSE "CONTINUE"

Settled(action, chunks) ==
    IF action = "CONTINUE" /\ chunks # <<>> THEN <<"APPROVED", "COMPLETED">>
    ELSE IF action = "HOLD" THEN <<"HELD", "HELD">>
    ELSE <<"REJECTED", IF action = "STOP" THEN "FAILED" ELSE "COMPLETED">>

\* Listed by their orders.
ApprovedIds(chunks) ==
    [k \in DOMAIN chunks |->
        chunks[CHOOSE i \in DOMAIN chunks : Cardinality({j \in DOMAIN chunks : chunks[j].order < chunks[i].order}) = k - 1].id]

Metrics(input, reviews) ==
    LET complete == Cardinality({i \in DOMAIN input.chunks : Recorded(input.chunks[i])})
        valid == Cardinality({i \in DOMAIN input.chunks :
                    Audited(input.chunks[i], input.text) /\ Verbatim(input.chunks[i], input.text)})
        as(status) == Cardinality({i \in DOMAIN reviews : reviews[i] = status})
    IN [chunks |-> Len(input.chunks), complete |-> complete, valid |-> valid,
        usable |-> as("PASSED"), excluded |-> as("FAILED"), held |-> as("HELD")]

----------------------------------------------------------------------------
Result(input, findings, chunkReviews, metrics) ==
    LET action == Action(findings)
        decided == Settled(action, input.chunks)
    IN [decision |-> decided[1], status |-> decided[2], action |-> action, findings |-> findings,
        chapters |-> [i \in DOMAIN input.chapters |-> ChapterReview(findings, i)],
        chunks |-> chunkReviews, metrics |-> metrics,
        bundle |-> IF decided = <<"APPROVED", "COMPLETED">> THEN ApprovedIds(input.chunks) ELSE <<>>]

\* What the code computes before the schema looks at it.
Proposed(input) ==
    LET findings == Findings(input)
        reviews == [i \in DOMAIN input.chunks |-> ChunkReview(findings, i)]
    IN Result(input, findings, reviews, Metrics(input, reviews))

FailedResult(input) ==
    LET count == Len(input.chunks)
    IN Result(input, {ExecutionFailed(input)}, [i \in DOMAIN input.chunks |-> "FAILED"],
              [chunks |-> count, complete |-> 0, valid |-> 0, usable |-> 0, excluded |-> count, held |-> 0])

RoutingContract(result) ==
    LET blocking == Of(result.findings, "BLOCKING")
        codes == {finding.code : finding \in blocking}
    IN CASE result.action = "CONTINUE" -> blocking = {} /\ Of(result.findings, "REVIEW") = {}
         [] result.action = "HOLD" -> Of(result.findings, "REVIEW") # {}
         [] result.action = "REIMPORT" -> codes \cap ReimportCodes # {}
         [] result.action = "RECHUNK" -> codes \ (ReimportCodes \cup {"GATE1_EXECUTION_FAILED"}) # {}
         [] result.action = "STOP" -> "GATE1_EXECUTION_FAILED" \in codes

MetricsContract(result) ==
    LET metrics == result.metrics
    IN /\ metrics.usable + metrics.excluded + metrics.held = metrics.chunks
       /\ metrics.chunks = Len(result.chunks)
       /\ metrics.complete <= metrics.chunks /\ metrics.valid <= metrics.chunks

VerdictContract(result) ==
    LET blocking == Of(result.findings, "BLOCKING")
        held == Of(result.findings, "REVIEW")
        some(status) == \E i \in DOMAIN result.chunks : result.chunks[i] = status
    IN CASE result.decision = "APPROVED" ->
                /\ blocking = {} /\ held = {} /\ result.bundle # <<>>
                /\ ~some("FAILED") /\ ~some("HELD")
         [] result.decision = "HELD" -> held # {} /\ result.bundle = <<>>
         [] result.decision = "REJECTED" ->
                /\ blocking # {} /\ result.bundle = <<>>
                /\ result.status = "FAILED" =>
                        "GATE1_EXECUTION_FAILED" \in {finding.code : finding \in blocking}
                /\ result.status = "COMPLETED" /\ result.chunks # <<>> => some("FAILED")

\* The bundle lists the chunks as they were given.
BundleContract(input, result) ==
    result.bundle # <<>> =>
        /\ result.bundle = [i \in DOMAIN input.chunks |-> input.chunks[i].id]
        /\ \A i, j \in DOMAIN result.bundle : result.bundle[i] = result.bundle[j] => i = j

AgreementContract(result) ==
    CASE result.decision = "APPROVED" -> result.action = "CONTINUE"
      [] result.decision = "HELD" -> result.action = "HOLD"
      [] result.decision = "REJECTED" ->
            IF result.status = "FAILED" THEN result.action = "STOP" ELSE result.action \in {"REIMPORT", "RECHUNK"}

Contract(input, result) ==
    /\ RoutingContract(result)
    /\ MetricsContract(result)
    /\ VerdictContract(result)
    /\ BundleContract(input, result)
    /\ AgreementContract(result)

\* A result the schema refuses is one more failure of the execution.
Reviewed(input) == IF Contract(input, Proposed(input)) THEN Proposed(input) ELSE FailedResult(input)
=============================================================================

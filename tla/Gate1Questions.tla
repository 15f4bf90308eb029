--------------------------- MODULE Gate1Questions ---------------------------
(* Texts to parse and review, inputs to audit, and uploads one by one.     *)
EXTENDS Questions, SourceImport

CONSTANTS
    Letters,        \* the characters of the texts
    ImportLength    \* the longest of them

Texts1(letters, length) == UNION {[1..n -> letters] : n \in 1..length}

AskText == \E text \in Texts1(Letters, ImportLength) : Ask("text", [name |-> 1, text |-> text])

AnswerText ==
    /\ topic = "text"
    /\ LET input == GateInput(question)
       IN answer' = [input |-> input, result |-> Reviewed(input)]

\* Chunks are verbatim, in order, apart, and no longer than the limit, and
\* together they hold every character but spaces, headings and what comes
\* before the first heading.
ChunksVerbatim ==
    Replied("text") =>
        LET text == question.text
            chunks == answer.input.chunks
            dropped(k) == \E head \in Headings(text) :
                            k < Min(Headings(text)) \/ (head <= k /\ k <= LineStop(text, head))
        IN /\ \A i \in DOMAIN chunks :
                /\ chunks[i].text = SubSeq(text, chunks[i].start + 1, chunks[i].stop)
                /\ ~IsBlank(chunks[i].text) /\ Len(chunks[i].text) <= MaxChunk
                /\ i > 1 => chunks[i - 1].stop <= chunks[i].start
           /\ \A k \in DOMAIN text : Solid(text, k) =>
                (dropped(k) <=> \A i \in DOMAIN chunks : k \notin (chunks[i].start + 1)..chunks[i].stop)

\* What the parser makes passes its audit: a text is sent back only when
\* it is empty, has headings alone or a forbidden character, and the last
\* is reported as a failed execution if no chunk is without a twin.
ParseAnswered ==
    Replied("text") =>
        LET text == question.text
            chunks == answer.input.chunks
            forbidden == \E k \in DOMAIN text : text[k] = "NUL"
            twin(i) == \E j \in DOMAIN chunks : j # i /\ chunks[j].text = chunks[i].text
        IN /\ answer.result.action = "STOP" <=> forbidden /\ chunks # <<>> /\ \A i \in DOMAIN chunks : twin(i)
           /\ answer.result.action = "REIMPORT" <=>
                IsBlank(text) \/ (forbidden /\ (chunks = <<>> \/ \E i \in DOMAIN chunks : ~twin(i)))
           /\ answer.result.action = "RECHUNK" <=> chunks = <<>> /\ ~forbidden /\ ~IsBlank(text)
           /\ answer.result.action = "CONTINUE" => \A i \in DOMAIN answer.result.chapters : answer.result.chapters[i] = "PASSED"

----------------------------------------------------------------------------
SoundChapter(i) ==
    [id |-> i, order |-> i - 1, ours |-> TRUE, titled |-> TRUE, first |-> i - 1, last |-> i - 1]
SoundChunk(i) ==
    [id |-> i, order |-> i - 1, ours |-> TRUE, chapter |-> i, text |-> <<"a", "b">>, sound |-> TRUE,
     start |-> 2 * (i - 1), stop |-> 2 * i]

\* A record with at most one thing wrong with it.
Chapters1(i) ==
    {SoundChapter(i)} \cup {[SoundChapter(i) EXCEPT !.id = 3 - i], [SoundChapter(i) EXCEPT !.order = 2 - i],
     [SoundChapter(i) EXCEPT !.ours = FALSE], [SoundChapter(i) EXCEPT !.titled = FALSE],
     [SoundChapter(i) EXCEPT !.last = 1]}

Chunks1(i) ==
    {SoundChunk(i)} \cup {[SoundChunk(i) EXCEPT !.id = 3 - i], [SoundChunk(i) EXCEPT !.order = 2 - i],
     [SoundChunk(i) EXCEPT !.ours = FALSE], [SoundChunk(i) EXCEPT !.chapter = 3 - i],
     [SoundChunk(i) EXCEPT !.text = <<"b", "a">>], [SoundChunk(i) EXCEPT !.text = <<" ", "NL">>],
     [SoundChunk(i) EXCEPT !.text = <<"a", "b", "a", "b">>], [SoundChunk(i) EXCEPT !.sound = FALSE],
     [SoundChunk(i) EXCEPT !.start = Missing, !.stop = Missing], [SoundChunk(i) EXCEPT !.stop = 2 * i + 1],
     [SoundChunk(i) EXCEPT !.start = 1, !.stop = 3], [SoundChunk(i) EXCEPT !.start = 0, !.stop = 2]}

AskAudit ==
    \E chapters \in {<<>>} \cup {<<one>> : one \in Chapters1(1)} \cup (Chapters1(1) \X Chapters1(2)),
       chunks \in {<<>>} \cup {<<one>> : one \in Chunks1(1)} \cup (Chunks1(1) \X Chunks1(2)),
       tail \in {<<>>, <<"NUL">>, <<"CTL">>, <<"FFFD">>, <<"NL", " ", "NL", "NL">>, <<"NL", "NL">>},
       version \in {"1.0", "1.1"}, sound \in BOOLEAN :
        /\ version = "1.0" \/ ~sound => Len(chapters) = 1 /\ Len(chunks) = 1
        /\ Ask("audit", [text |-> <<"a", "b", "a", "b">> \o tail, version |-> version, sound |-> sound,
                         chapters |-> chapters, chunks |-> chunks])

AnswerAudit ==
    /\ topic = "audit"
    /\ answer' = [input |-> question, proposed |-> Proposed(question), result |-> Reviewed(question)]

\* A document goes on only if its chunks are what the text says in those
\* places, apart and in order, each in a chapter of the document that
\* knows how far it reaches, and all are in the bundle.
ApprovalSound ==
    ((Replied("audit") \/ Replied("text")) /\ answer.result.action = "CONTINUE") =>
        LET input == answer.input
            chunks == input.chunks
        IN /\ answer.result.bundle = [i \in DOMAIN chunks |-> chunks[i].id] /\ chunks # <<>>
           /\ \A i \in DOMAIN chunks :
                /\ chunks[i].order = i - 1 /\ chunks[i].ours /\ chunks[i].sound
                /\ chunks[i].text = SubSeq(input.text, chunks[i].start + 1, chunks[i].stop)
                /\ \A j \in DOMAIN chunks : i = j \/ (chunks[i].id # chunks[j].id
                        /\ (chunks[i].stop <= chunks[j].start \/ chunks[j].stop <= chunks[i].start))
                /\ \E k \in DOMAIN input.chapters :
                        /\ input.chapters[k].id = chunks[i].chapter
                        /\ chunks[i].order \in input.chapters[k].first..input.chapters[k].last
           /\ answer.result.metrics.valid = Len(chunks) /\ answer.result.metrics.usable = Len(chunks)

\* The review answers every input with a result its schema accepts, and
\* fails to execute only for chunks listed out of order, or for a blocked
\* document whose every chunk has a lesser finding of its own.
ReviewAnswers ==
    Replied("audit") =>
        LET findings == answer.proposed.findings
        IN /\ Contract(question, answer.result)
           /\ answer.result.action = "STOP" <=>
                \/ answer.proposed.action = "CONTINUE" /\ \E i \in DOMAIN question.chunks : question.chunks[i].order # i - 1
                \/ /\ answer.proposed.action \in {"REIMPORT", "RECHUNK"} /\ question.chunks # <<>>
                   /\ \A i \in DOMAIN question.chunks : \E finding \in findings :
                        i \in finding.chunks /\ finding.severity # "BLOCKING"
                   /\ \A finding \in findings : finding.severity = "BLOCKING" => finding.chunks = {}
           /\ answer.result.action = "REIMPORT" <=> answer.result # FailedResult(question) /\
                (~question.sound \/ \E k \in DOMAIN question.text : question.text[k] = "NUL")

----------------------------------------------------------------------------
Uploads == [name : 1..2, text : Texts1({"a", "NL", "H"}, 3) \cup {<<"NUL">>, <<"a", "NL", "NL", "a">>, <<"H", "NL", "a", "NL", "H", "NL", "a">>}]

AskImport ==
    \E first, second \in Uploads, raced \in BOOLEAN :
        Ask("import", [first |-> first, second |-> second, raced |-> raced])

AnswerImport ==
    /\ topic = "import"
    /\ \E first \in {Imported({}, {}, question.first)} :
       \E second \in {Imported(IF question.raced THEN {} ELSE first.rows, first.rows, question.second)} :
            answer' = [first |-> first.status, second |-> second.status, rows |-> second.rows]

\* A text is stored once, whoever uploads it, and a stored document can be
\* analysed, as a whole and by each chapter, and read at every later gate,
\* until the same text is imported again under another name: the review
\* that replaces its own approves chunks the document does not have.
ReimportHarmless ==
    Replied("import") =>
        /\ \A one, other \in answer.rows : one.text = other.text => one = other
        /\ \A row \in answer.rows :
            LET renamed == answer.second = "existing" /\ DocumentOf(question.second) # row.document
                chapters == {row.chapters[i].id : i \in DOMAIN row.chapters}
            IN /\ Eligible(row) <=> ~renamed
               /\ MayAnalyse(row, chapters) <=> ~renamed
               /\ \A chapter \in chapters :
                    /\ Available(row, chapter) <=> ~renamed
                    /\ AllowedLater(row, {chapter}) = IF renamed THEN {} ELSE ChunksOf(row, {chapter})
        /\ answer.second = "conflict" => question.raced /\ answer.first = "created"

\* Text is kept from the file to the approved chunks, and importing it again changes nothing
\* but what was not approved.
DocumentsSound ==
    /\ ChunksVerbatim
    /\ ParseAnswered
    /\ ApprovalSound
    /\ ReviewAnswers
    /\ ReimportHarmless
=============================================================================

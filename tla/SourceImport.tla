---------------------------- MODULE SourceImport ----------------------------
(***************************************************************************)
(* The import of one upload and what NarrativeAnalysisCoordinator lets an  *)
(* analysis read of it.  An upload is a file's name and text, within one   *)
(* project; its document is known by both, a row by the checksum, which    *)
(* stands for the text.                                                    *)
(***************************************************************************)
EXTENDS Gate1Rules

DocumentOf(upload) == <<upload.name, upload.text>>

GateInput(upload) ==
    LET parsed == Parsed(DocumentOf(upload), upload.text)
    IN [text |-> upload.text, version |-> "1.1", sound |-> TRUE,
        chapters |-> parsed.chapters, chunks |-> parsed.chunks]

Row(upload, bundle) ==
    [document |-> DocumentOf(upload), text |-> upload.text, bundle |-> bundle,
     chapters |-> GateInput(upload).chapters, chunks |-> GateInput(upload).chunks]

Existing(rows, upload) == {row \in rows : row.text = upload.text}

\* Only approved uploads are stored.  A text that is there already keeps
\* its chapters and chunks and gets the new review.  An insert that another
\* one has overtaken is refused by the database.
Imported(seen, rows, upload) ==
    LET review == Reviewed(GateInput(upload))
    IN IF IsBlank(upload.text) THEN [rows |-> rows, status |-> "empty"]
       ELSE IF review.decision # "APPROVED" THEN [rows |-> rows, status |-> "gate1_blocked"]
       ELSE IF Existing(seen, upload) # {}
       THEN [rows |-> {IF row \in Existing(rows, upload) THEN [row EXCEPT !.bundle = review.bundle] ELSE row : row \in rows},
             status |-> "existing"]
       ELSE IF Existing(rows, upload) # {} THEN [rows |-> rows, status |-> "conflict"]
       ELSE [rows |-> rows \cup {Row(upload, review.bundle)}, status |-> "created"]

----------------------------------------------------------------------------
IdsIn(chunks) == {chunks[i].id : i \in DOMAIN chunks}
ApprovedIn(row) == {row.bundle[i] : i \in DOMAIN row.bundle}

ChunksOf(row, chapters) ==
    {row.chunks[i].id : i \in {j \in DOMAIN row.chunks : row.chunks[j].chapter \in chapters}}

\* chapter_selection
Eligible(row) == ApprovedIn(row) = IdsIn(row.chunks)
Available(row, chapter) ==
    ChunksOf(row, {chapter}) # {} /\ ChunksOf(row, {chapter}) \subseteq ApprovedIn(row)

\* create_run
MayAnalyse(row, chapters) ==
    /\ chapters # {} /\ chapters \subseteq {row.chapters[i].id : i \in DOMAIN row.chapters}
    /\ ChunksOf(row, chapters) # {} /\ ChunksOf(row, chapters) \subseteq ApprovedIn(row)

\* What Gate 2, the recovery and the timeline may still read of a run.
AllowedLater(row, chapters) == ChunksOf(row, chapters) \cap ApprovedIn(row)
=============================================================================

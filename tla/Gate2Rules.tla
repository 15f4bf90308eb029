----------------------------- MODULE Gate2Rules -----------------------------
(***************************************************************************)
(* ReviewGate2Service over one aggregated result, the contracts its result *)
(* schemas check, and the route the review coordinator makes of it.  An    *)
(* envelope is an aggregate of ProposalAggregation; the context gives the  *)
(* agent runs it knows and the evidence that passes EvidenceIssues.        *)
(***************************************************************************)
EXTENDS ProposalAggregation

Blocking == "BLOCKING"
ReviewRequired == "REVIEW_REQUIRED"

Issue(code, severity, path) == [code |-> code, severity |-> severity, path |-> path]

Severe(issues, severity) == \E issue \in issues : issue.severity = severity

\* What links may find: entities by name, events by summary, claims by text.
Catalog(envelopes) ==
    {e.proposal : e \in {envelope \in envelopes : envelope.proposal.kind \in {"entity", "event", "claim"}}}

\* Entities have no layer.
RealityMatches(one, other) == "entity" \in {one.kind, other.kind} \/ one.layer = other.layer

Decision(link, status, selected, candidates, issues) ==
    [path |-> link.path, among |-> link.among, status |-> status,
     selected |-> selected, candidates |-> candidates, issues |-> issues]

Refused(link, code) ==
    Decision(link, "REJECTED", {}, {}, {Issue(code, Blocking, link.path)})

Resolved(proposal, link, target) ==
    IF RealityMatches(proposal, target)
    THEN Decision(link, "RESOLVED", {target}, {target}, {})
    ELSE Refused(link, "CROSS_REALITY_LAYER_REFERENCE")

\* A link that names an id.
Explicit(proposal, link, catalog) ==
    LET named == {target \in catalog : target.kind = link.kind /\ target.id = link.id}
    IN CASE link.kind \notin link.among -> Refused(link, "REFERENCE_SCHEMA_MISMATCH")
         [] link.kind \in link.among /\ named = {} -> Refused(link, "REFERENCE_TARGET_NOT_FOUND")
         [] OTHER -> Resolved(proposal, link, CHOOSE target \in named : TRUE)

\* A mention: one namesake is taken, none is left open, several are a
\* person's choice except for a place.  No link is required downstream.
ByMention(proposal, link, catalog) ==
    LET alike == {target \in catalog : target.kind \in link.among /\ target.text = link.text}
    IN CASE Cardinality(alike) = 1 -> Resolved(proposal, link, CHOOSE target \in alike : TRUE)
         [] alike = {} \/ (Cardinality(alike) > 1 /\ link.path = "location") ->
                Decision(link, "UNRESOLVED", {}, {}, {})
         [] OTHER -> Decision(link, "AMBIGUOUS", {}, alike,
                        {Issue(IF link.among = {"event"} THEN "AMBIGUOUS_EVENT_REFERENCE"
                               ELSE "AMBIGUOUS_ENTITY_REFERENCE", ReviewRequired, link.path)})

ResolveReference(proposal, link, catalog) ==
    IF link.id # NoId THEN Explicit(proposal, link, catalog) ELSE ByMention(proposal, link, catalog)

References(proposal, catalog) == {ResolveReference(proposal, link, catalog) : link \in proposal.links}

ProvenanceIssues(envelope, known) ==
    (IF envelope.runs = {} THEN {Issue("PROVENANCE_MISSING", Blocking, "")} ELSE {})
    \cup (IF envelope.runs \subseteq known THEN {} ELSE {Issue("AGENT_RUN_NOT_FOUND", Blocking, "agent_run_ids")})

EvidenceFindings(envelope, sound) ==
    (IF envelope.evidence \subseteq sound THEN {} ELSE {Issue("EVIDENCE_QUOTE_NOT_FOUND", Blocking, "")})
    \cup (IF envelope.evidence # {} /\ envelope.proposal.evidence \in envelope.evidence THEN {}
          ELSE {Issue("EVIDENCE_MISSING", Blocking, "")})

\* Two proposals that differ in their id only.
ExactDuplicates(envelope, envelopes) ==
    {other \in envelopes : /\ other.proposal.id # envelope.proposal.id
                           /\ [other.proposal EXCEPT !.id = envelope.proposal.id] = envelope.proposal}

DuplicateIssues(envelope, envelopes) ==
    IF ExactDuplicates(envelope, envelopes) = {} THEN {} ELSE {Issue("EXACT_DUPLICATE", Blocking, "")}

Failing(issues) == IF Severe(issues, Blocking) THEN "FAILED" ELSE "PASSED"

SchemaStatus(linkIssues, duplicates) ==
    IF Severe(linkIssues \cup duplicates, Blocking) THEN "FAILED"
    ELSE IF Severe(linkIssues \cup duplicates, ReviewRequired) THEN "NEEDS_HUMAN_REVIEW"
    ELSE "PASSED"

Verdict(issues) ==
    IF Severe(issues, Blocking) THEN "REJECTED"
    ELSE IF Severe(issues, ReviewRequired) THEN "NEEDS_HUMAN_REVIEW"
    ELSE "APPROVED"

ReviewProposal(envelope, envelopes, known, sound) ==
    LET references == References(envelope.proposal, Catalog(envelopes))
        linkIssues == UNION {reference.issues : reference \in references}
        duplicates == DuplicateIssues(envelope, envelopes)
        provenance == ProvenanceIssues(envelope, known)
        evidence == EvidenceFindings(envelope, sound)
        issues == provenance \cup evidence \cup linkIssues \cup duplicates
    IN [proposal |-> envelope.proposal, decision |-> Verdict(issues), issues |-> issues,
        schema |-> SchemaStatus(linkIssues, duplicates), provenance |-> Failing(provenance),
        evidence |-> Failing(evidence), references |-> references]

Decided(decisions, verdict) == {decision \in decisions : decision.decision = verdict}

\* Everything is decided, or nothing is passed on.
Review(envelopes, known, sound) ==
    LET decisions == {ReviewProposal(envelope, envelopes, known, sound) : envelope \in envelopes}
        pending == Decided(decisions, "NEEDS_HUMAN_REVIEW") # {}
    IN [decisions |-> decisions, status |-> IF pending THEN "NEEDS_HUMAN_REVIEW" ELSE "COMPLETED",
        bundle |-> IF pending THEN {} ELSE {d.proposal : d \in Decided(decisions, "APPROVED")}]

\* The contracts of the result's parts; one that fails makes the review FAILED.
ReferenceContract(reference) ==
    /\ reference.status = "RESOLVED" => /\ Cardinality(reference.selected) = 1
                                        /\ reference.selected \subseteq reference.candidates
                                        /\ \A target \in reference.selected : target.kind \in reference.among
    /\ reference.status # "RESOLVED" => reference.selected = {}
    /\ reference.status = "UNRESOLVED" => reference.candidates = {}
    /\ reference.status = "AMBIGUOUS" => /\ Cardinality(reference.candidates) >= 2
                                         /\ Severe(reference.issues, ReviewRequired)
    /\ reference.status = "REJECTED" => Severe(reference.issues, Blocking)

DecisionContract(decision) ==
    LET checks == {decision.schema, decision.provenance, decision.evidence}
    IN /\ \A reference \in decision.references : ReferenceContract(reference)
       /\ decision.decision = "APPROVED" => checks = {"PASSED"} /\ decision.issues = {}
       /\ decision.decision = "REJECTED" => "FAILED" \in checks
       /\ decision.decision = "NEEDS_HUMAN_REVIEW" =>
            "NEEDS_HUMAN_REVIEW" \in checks /\ ~Severe(decision.issues, Blocking)

\* Every id once per kind: what the input, the bundle and the route ask.
InputContract(envelopes) ==
    /\ \A one, other \in envelopes :
            one # other => <<one.proposal.kind, one.proposal.id>> # <<other.proposal.kind, other.proposal.id>>
    /\ \A envelope \in envelopes : envelope.runs # {} /\ envelope.evidence # {}

\* The route of a completed review; only a run without rejections goes on.
Route(review) ==
    IF Decided(review.decisions, "NEEDS_HUMAN_REVIEW") # {} THEN "NEEDS_HUMAN_REVIEW"
    ELSE IF review.status = "COMPLETED" /\ Decided(review.decisions, "REJECTED") # {} THEN "REJECTED"
    ELSE "APPROVED"

\* A rejected proposal may be asked for again when its evidence failed
\* and asking again can mend whatever else did.
Retryable(decision) ==
    /\ \E issue \in decision.issues : issue.code \in {"EVIDENCE_QUOTE_NOT_FOUND", "EVIDENCE_MISSING"}
    /\ \A issue \in decision.issues :
            issue.code \notin {"EXACT_DUPLICATE", "AGENT_RUN_NOT_FOUND", "PROVENANCE_MISSING"}
=============================================================================

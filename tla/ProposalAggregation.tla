------------------------ MODULE ProposalAggregation ------------------------
(***************************************************************************)
(* aggregate_narrative_analysis: the proposals of all windows of a run     *)
(* become one set.  A proposal has a local id, unique in the batch of its  *)
(* agent run; ids and mentions are tuples, so that a model may use a name  *)
(* as an id.  A link is a typed reference of a proposal: resolved to an id *)
(* of some kind, or a mention only; a mention of an event or a claim may   *)
(* be preset, which is to come with an id from its extractor.  Windows are *)
(* numbered in the order in which the worker reads them.                   *)
(***************************************************************************)
EXTENDS Naturals, FiniteSets

NoId == <<>>
NoKind == "none"

\* A link may only name proposals of the kinds in among.
Link(path, among, kind, id, text) ==
    [path |-> path, among |-> among, kind |-> kind, id |-> id, text |-> text, preset |-> FALSE]

\* A mention its extractor has resolved itself, to a kind of its own choice.
Preset(path, among, kind, id, text) == [Link(path, among, kind, id, text) EXCEPT !.preset = TRUE]

Proposal(kind, id, text, speaker, layer, evidence, links) ==
    [kind |-> kind, id |-> id, text |-> text, speaker |-> speaker, layer |-> layer,
     evidence |-> evidence, links |-> links]

\* A window with the proposals of its own; Run names the agent run that
\* read the window for the proposal's kind.
Source(window, proposal) == [window |-> window, proposal |-> proposal]

Run(source) == <<source.proposal.kind, source.window>>

\* State changes and relationships count only in the window that owns
\* the chunk of their first evidence.
Owned(source, owner) ==
    source.proposal.kind \in {"change", "relationship"} =>
        owner[source.proposal.evidence] = source.window

OwnedSources(sources, owner) == {source \in sources : Owned(source, owner)}

GlobalId(window, kind, id) == <<window, kind, id>>

IdOf(source) == GlobalId(source.window, source.proposal.kind, source.proposal.id)

IdsOf(sources, kinds) == {IdOf(source) : source \in {s \in sources : s.proposal.kind \in kinds}}

\* The kind a link is looked up under; the source of a claim is looked up
\* for a speaking character only.
LookupKind(proposal, link) ==
    CASE proposal.kind = "event" -> "entity"
      [] proposal.kind = "claim" /\ link.path = "source" ->
            IF proposal.speaker = "CHARACTER" THEN "entity" ELSE NoKind
      [] proposal.kind = "claim" /\ link.path # "source" -> "event"
      [] OTHER -> link.kind

\* Ids a proposal names itself get their window; those of mentions do not.
Namespaced(source, link, sources) ==
    LET id == GlobalId(source.window, LookupKind(source.proposal, link), link.id)
    IN IF ~link.preset /\ link.id # NoId /\ id \in IdsOf(sources, {LookupKind(source.proposal, link)})
       THEN [link EXCEPT !.id = id] ELSE link

\* An id an event or a claim names itself, and no proposal has, is a mention.
Mentioned(proposal, link, sources) ==
    IF /\ ~link.preset /\ proposal.kind \in {"event", "claim"}
       /\ link.id # NoId /\ link.id \notin IdsOf(sources, link.among)
    THEN [link EXCEPT !.id = NoId, !.kind = NoKind, !.text = link.id] ELSE link

Normal(source, sources) ==
    [source.proposal EXCEPT
        !.id = IdOf(source),
        !.links = {Mentioned(source.proposal, Namespaced(source, link, sources), sources) :
                        link \in source.proposal.links}]

\* What makes two proposals one, on the values before normalisation.
\* The claim that supports a knowledge state is left out.
MergeKey(proposal) ==
    CASE proposal.kind = "event" -> <<"event", proposal.text, proposal.evidence>>
      [] proposal.kind = "entity" -> <<"entity", proposal.text>>
      [] proposal.kind = "claim" -> <<"claim", proposal.text, proposal.speaker, proposal.evidence>>
      [] OTHER -> <<proposal.kind, proposal.text, proposal.layer,
                    {link \in proposal.links : link.path # "supporting"}>>

SameKey(one, other) == MergeKey(one.proposal) = MergeKey(other.proposal)

\* The order of windows, and of a batch by local id.
Before(one, other) ==
    \/ one.window < other.window
    \/ one.window = other.window /\ one.proposal.id[1] < other.proposal.id[1]

Leading(source, sources) ==
    CHOOSE first \in sources :
        /\ SameKey(first, source)
        /\ \A other \in sources : SameKey(other, source) /\ other # first => Before(first, other)

\* Slip: links still name the proposals that were merged away.
Alias_Kept(id, sources) == id

\* The id of the proposal that stands for the one with this id.
Alias(id, sources) ==
    LET named == {source \in sources : IdOf(source) = id}
    IN IF named = {} THEN id ELSE IdOf(Leading(CHOOSE source \in named : TRUE, sources))

Aliased(link, sources) ==
    IF link.preset \/ link.id = NoId THEN link ELSE [link EXCEPT !.id = Alias(link.id, sources)]

\* The leader's proposal with the runs of all; evidence grows except for
\* events and claims, whose key already holds it.
Aggregate(leader, sources) ==
    LET proposal == Normal(leader, sources)
        merged == {source \in sources : SameKey(source, leader)}
    IN [proposal |-> [proposal EXCEPT !.links = {Aliased(link, sources) : link \in proposal.links}],
        runs |-> {Run(source) : source \in merged},
        evidence |-> {source.proposal.evidence : source \in merged}]

Aggregated(sources) ==
    {Aggregate(leader, sources) : leader \in {source \in sources : Leading(source, sources) = source}}
=============================================================================

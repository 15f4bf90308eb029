------------------------- MODULE ProposalContracts -------------------------
(***************************************************************************)
(* What the schemas ask of the proposals that a provider returns, and what *)
(* the pipeline makes of accepted ones without asking again: the worker    *)
(* stores proposals whose evidence it rewrote, the aggregation rewrites    *)
(* links, and whoever reads the stored record applies the schema once      *)
(* more.  A proposal that no longer satisfies it makes that reader fail.   *)
(* None stands for null; blank texts are left out.                         *)
(***************************************************************************)
EXTENDS EvidenceRules

None == ""

(***************************************************************************)
(* Links: resolved ones name a proposal and its schema, others nothing.    *)
(***************************************************************************)
LinkContract(link, schema) ==
    IF link.resolved THEN link.id # None /\ link.schema = schema
    ELSE link.id = None /\ link.schema = None

KnowledgeSchema(kind) ==
    CASE kind = "CLAIM" -> "ClaimProposalV1"
      [] kind = "EVENT" -> "EventProposalV1"
      [] kind = "ENTITY_FACT" -> "EntityProposalV1"
      [] kind \in {"WORLD_FACT", "UNKNOWN"} -> "none, so never resolved"

\* Aggregation gives every named proposal its global id.
LinkRenamed(link) == IF link.id = None THEN link ELSE [link EXCEPT !.id = "global"]

KnowledgeContract(state) ==
    /\ LinkContract(state.target, KnowledgeSchema(state.kind))
    /\ state.status = "HEARD" => state.basis = "HEARD"
    /\ state.status \in {"BELIEVES", "SUSPECTS", "DISBELIEVES"} => state.kind \in {"WORLD_FACT", "EVENT"}
    /\ state.supported => state.kind = "CLAIM" \/ state.basis \in {"STATED", "HEARD"}

(***************************************************************************)
(* Events.                                                                 *)
(***************************************************************************)
EventContract(event) ==
    LET somebody == event.ids # {} \/ event.mentions # {} IN
    /\ event.version = "1.0" => event.mentions = {} /\ event.placeMention = None
    /\ event.place = None \/ event.placeMention = None
    /\ event.actor = "KNOWN" => somebody
    /\ event.actor \in {"UNKNOWN", "UNRESOLVED", "NOT_APPLICABLE"} => ~somebody
    /\ event.actor = "UNRESOLVED" <=> event.actorRef # None

EventBatchContract(batch) ==
    /\ \A event \in batch.events : EventContract(event)
    /\ batch.version = "1.0" => \A event \in batch.events : event.version = "1.0"

\* Before validation: mentions prove that version 1.1 was meant.
EventBatchLifted(batch) ==
    IF \E event \in batch.events : event.mentions # {} \/ event.placeMention # None
    THEN [version |-> "1.1", events |-> {[event EXCEPT !.version = "1.1"] : event \in batch.events}]
    ELSE batch

\* Aggregation: ids of no entity become mentions.
EventRelinked(event, entities) ==
    LET lost == event.place # None /\ event.place \notin entities
    IN IF event.ids \subseteq entities /\ ~lost THEN event
       ELSE [event EXCEPT !.version = "1.1", !.ids = @ \cap entities,
                          !.mentions = @ \cup (event.ids \ entities),
                          !.place = IF lost THEN None ELSE @,
                          !.placeMention = IF lost THEN event.place ELSE @]

(***************************************************************************)
(* Claims; the minor version stands for the version.                       *)
(***************************************************************************)
ClaimContract(claim) ==
    /\ claim.minor >= 1 => claim.type # "ASSERTION" /\ claim.scoped
    /\ claim.minor < 2 => claim.type # "EVALUATION"
    /\ claim.minor < 3 => claim.sourceMention = None /\ claim.eventMention = None
    /\ claim.source = None \/ claim.sourceMention = None
    /\ claim.event = None \/ claim.eventMention = None
    /\ claim.speaker = "UNKNOWN" => claim.source = None /\ claim.sourceMention = None

ClaimBatchContract(batch) ==
    /\ \A claim \in batch.claims : ClaimContract(claim) /\ claim.minor = batch.minor

ClaimRelinked(claim, entities, events, claims) ==
    LET known == IF claim.speaker = "CHARACTER" THEN entities ELSE entities \cup events \cup claims
        lostSource == claim.source # None /\ claim.source \notin known
        lostEvent == claim.event # None /\ claim.event \notin events
    IN IF ~lostSource /\ ~lostEvent THEN claim
       ELSE [claim EXCEPT !.minor = 3,
                          !.source = IF lostSource THEN None ELSE @,
                          !.sourceMention = IF lostSource THEN claim.source ELSE @,
                          !.event = IF lostEvent THEN None ELSE @,
                          !.eventMention = IF lostEvent THEN claim.event ELSE @]

(***************************************************************************)
(* State changes.  A value is the class it belongs to: null, blank, text,  *)
(* placeholder ("n/a"), unknown, guess ("maybe ..."), 1 or TRUE.           *)
(***************************************************************************)
Appearance == {"appearance.clothing", "appearance.hairstyle"}

TargetKinds(path) ==
    CASE path \in {"health.injury", "life_status", "role.status"} \cup Appearance -> {"CHARACTER"}
      [] path = "location" -> {"CHARACTER", "OBJECT"}
      [] path \in {"possession.holder", "quantity"} -> {"OBJECT"}
      [] path \in {"physical.condition", "accessibility"} -> {"OBJECT", "LOCATION"}
      [] path = "availability" -> {"OBJECT", "ORGANIZATION"}

Texts == {"text", "placeholder", "unknown", "guess"}

ValueFits(value, path) ==
    CASE path = "quantity" -> value = "1"
      [] path \in {"accessibility", "availability"} -> value \in Texts \cup {"TRUE"}
      [] OTHER -> value \in Texts

\* Slip: one index too many.
IndexesFit_OffByOne(indexes, count, required) ==
    /\ required => indexes # <<>>
    /\ \A i, j \in DOMAIN indexes : indexes[i] = indexes[j] => i = j
    /\ \A i \in DOMAIN indexes : indexes[i] <= count

\* Positions in the list of evidence, counted from 0.
IndexesFit(indexes, count, required) ==
    /\ required => indexes # <<>>
    /\ \A i, j \in DOMAIN indexes : indexes[i] = indexes[j] => i = j
    /\ \A i \in DOMAIN indexes : indexes[i] < count

ChangeContract(change) ==
    /\ change.kind \in TargetKinds(change.path)
    /\ change.minor = 2 => change.path \notin Appearance
    /\ change.old # "null" => ValueFits(change.old, change.path) /\ change.old # "placeholder"
    /\ ValueFits(change.new, change.path) /\ change.new # "guess"
    /\ change.path \in Appearance => change.new \notin {"placeholder", "unknown"}
    /\ IndexesFit(change.supports, Len(change.evidence), TRUE)
    /\ IndexesFit(change.lasts, Len(change.evidence), change.persistent)
    /\ ~change.persistent => change.lasts = <<>>

\* Within a batch Python's equality decides, for which 1 is True ...
PlainValue(value) == IF value = "TRUE" THEN "1" ELSE value

ChangeBatchKey(change) ==
    <<change.kind, change.path, PlainValue(change.old), PlainValue(change.new), change.persistent>>

\* ... and in the aggregation the type does too.
ChangeMergeKey(change) == <<change.kind, change.path, change.old, change.new, change.persistent>>

ChangeBatchContract(changes) ==
    /\ \A i \in DOMAIN changes : ChangeContract(changes[i])
    /\ \A i, j \in DOMAIN changes : ChangeBatchKey(changes[i]) = ChangeBatchKey(changes[j]) => i = j

\* The window that owns a change owns the chunk of its first support.
ChangeOwnedBy(change, owned) ==
    /\ change.supports # <<>> /\ change.supports[1] < Len(change.evidence)
    /\ change.evidence[change.supports[1] + 1].chunk \in owned

(***************************************************************************)
(* Relationship signals.                                                   *)
(***************************************************************************)
Symmetric ==
    {"SIBLING_OF", "SPOUSE_OF", "ROMANTIC_PARTNER_OF", "RELATIVE_OF",
     "COOPERATES_WITH", "ALLIED_WITH", "HOSTILE_TO", "RIVALS_WITH"}

Kinship == {"PARENT_OF", "CHILD_OF", "SIBLING_OF", "SPOUSE_OF", "RELATIVE_OF"}

RelationshipKinds ==
    Symmetric \cup Kinship \cup
    {"MEMBER_OF", "LEADS", "COMMANDS", "REPORTS_TO", "MASTER_OF", "DISCIPLE_OF", "TRUSTS",
     "DISTRUSTS", "DEPENDS_ON", "PROTECTS", "THREATENS", "DECEIVES", "BETRAYS"}

PairAllowed(kind, subject, counterpart) ==
    /\ kind \in Kinship \cup {"ROMANTIC_PARTNER_OF"} => {subject, counterpart} = {"CHARACTER"}
    /\ kind \in {"MEMBER_OF", "LEADS", "COMMANDS", "REPORTS_TO", "MASTER_OF", "DISCIPLE_OF"} =>
            subject = "CHARACTER"

SameIdentity(subject, counterpart) ==
    \/ subject.resolved /\ counterpart.resolved /\ subject.id = counterpart.id
    \/ ~subject.resolved /\ ~counterpart.resolved /\ subject.text = counterpart.text

Changing == {"FORMATION", "STRENGTHENING", "WEAKENING", "TERMINATION"}
Stated == {"DIRECT_STATEMENT", "REPORTED_STATEMENT"}

Repeated(refs) == \E i, j \in DOMAIN refs : i # j /\ refs[i] = refs[j]

SignalContract(signal) ==
    /\ PairAllowed(signal.kind, signal.subject.kind, signal.counterpart.kind)
    /\ ~SameIdentity(signal.subject, signal.counterpart)
    /\ signal.effect # "UNKNOWN" /\ ~(signal.effect = "TERMINATION" /\ signal.kind \in Kinship)
    /\ (signal.effect = "DENIAL") <=> signal.denied
    /\ (signal.basis \in Stated) <=> signal.speaker
    /\ signal.support = "EXPLICIT" => signal.basis = "NARRATED"
    /\ signal.basis = "INFERRED" => /\ signal.support = "LIMITED" /\ signal.effect \notin Changing
                                    /\ Len(signal.evidence) >= 2
    /\ signal.effect \in Changing => signal.anchored
    /\ ~Repeated(signal.evidence)

\* Source order does not count between equals, in a batch and afterwards.
SignalKey(signal) ==
    <<signal.kind, signal.effect, signal.denied, signal.basis, signal.support, signal.speaker, signal.anchored,
      IF signal.kind \in Symmetric THEN {signal.subject, signal.counterpart}
      ELSE <<signal.subject, signal.counterpart>>>>

\* What a quote must hold to speak of a betrayal.
BetrayalMark == <<"?", "?">>

\* The agent reads one window's text and nothing else.
SignalAdmitted(signal, view) ==
    /\ signal.basis # "INFERRED" /\ ~signal.subject.resolved /\ ~signal.counterpart.resolved
    /\ signal.kind = "BETRAYS" => \E i \in DOMAIN signal.evidence : Occurs(BetrayalMark, signal.evidence[i].quote)
    /\ \A i \in DOMAIN signal.evidence : Bindable(signal.evidence[i], view)

\* The evidence of a proposal after its window's normalisation.
Rewritten(refs, view) == [i \in DOMAIN refs |-> Normalised(refs[i], view)]
=============================================================================

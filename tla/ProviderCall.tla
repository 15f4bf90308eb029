---------------------------- MODULE ProviderCall ----------------------------
(***************************************************************************)
(* One structured call of the OpenAI-compatible Provider: its two posts,   *)
(* the answer taken apart, the failure sorted by the workflow, the worker  *)
(* and the circuit breaker; the output mode negotiated before; and what    *)
(* the repair of a rejected answer asks the model for.                     *)
(***************************************************************************)
EXTENDS ProposalContracts

(***************************************************************************)
(* A post ends with a status or without an answer; 422 stands for every    *)
(* other request error and 500 for every error of the server.              *)
(***************************************************************************)
ConnectErrors == {"dns", "tls", "refused", "unreachable"}
BrokenOff == {"network", "protocol"}
Statuses == {"200", "400", "401", "404", "422", "429", "500"}

Contents == {"null", "list", "blank", "prose", "invalid", "valid"}

Body == [json : BOOLEAN, shaped : BOOLEAN, finish : {"stop", "length"}, content : Contents]

Again == {"timeout", "429", "500"} \cup ConnectErrors

\* The reply that counts, and the attempts the diagnostics speak of.
Posted(first, second) ==
    IF first.end \notin Again THEN [reply |-> first, posts |-> 1, noted |-> 1]
    ELSE [reply |-> second, posts |-> 2, noted |-> IF second.end \in BrokenOff THEN 1 ELSE 2]

\* What is wrong with an answer of status 200, in the order of the checks.
AnswerFault(body) ==
    CASE ~body.json -> "undecodable"
      [] body.json /\ ~body.shaped -> "format"
      [] body.json /\ body.shaped /\ body.finish = "length" -> "length"
      [] OTHER -> CASE body.content \in {"null", "blank"} -> "missing"
                    [] body.content = "list" -> "unsupported"
                    [] body.content = "prose" -> "json"
                    [] body.content = "invalid" -> "schema"
                    [] body.content = "valid" -> None

\* The agent's own checks come after the Provider's: it may find a
\* proposal ungrounded or against another of its rules.
Fault(reply, verdict) ==
    CASE reply.end # "200" -> IF reply.end \in Statuses THEN "http" ELSE reply.end
      [] OTHER -> IF AnswerFault(reply.body) # None THEN AnswerFault(reply.body) ELSE verdict

\* classify_exception, by the type and the words of the exception.
Category_ByContent(fault) ==
    CASE fault = None -> None
      [] fault = "timeout" -> "PROVIDER_TIMEOUT"
      [] fault = "length" -> "SCHEMA_VALIDATION_FAILED"
      [] fault = "missing" -> "PROVIDER_CONTENT_MISSING"
      [] fault = "json" -> "PROVIDER_INVALID_JSON"
      [] fault = "http" -> "PROVIDER_HTTP_ERROR"
      [] fault \in {"tls", "refused", "unreachable", "network"} -> "PROVIDER_CONNECTION_ERROR"
      [] fault = "format" -> "PROVIDER_RESPONSE_FORMAT_INVALID"
      [] fault = "ungrounded" -> "EVIDENCE_VALIDATION_FAILED"
      [] fault = "schema" -> "SCHEMA_VALIDATION_FAILED"
      [] OTHER -> "UNKNOWN_ERROR"

Category(fault) ==
    CASE fault = None -> None
      [] fault = "timeout" -> "PROVIDER_TIMEOUT"
      [] fault = "length" -> "PROVIDER_LENGTH_BEFORE_FINAL_CONTENT"
      [] fault = "missing" -> "PROVIDER_CONTENT_MISSING"
      [] fault = "json" -> "PROVIDER_INVALID_JSON"
      [] fault = "http" -> "PROVIDER_HTTP_ERROR"
      [] fault \in {"tls", "refused", "unreachable", "network"} -> "PROVIDER_CONNECTION_ERROR"
      [] fault = "format" -> "PROVIDER_RESPONSE_FORMAT_INVALID"
      [] fault = "ungrounded" -> "EVIDENCE_VALIDATION_FAILED"
      [] fault = "schema" -> "SCHEMA_VALIDATION_FAILED"
      [] OTHER -> "UNKNOWN_ERROR"

\* What the worker does first about a failed window that has attempts left.
Treatment(category, end) ==
    CASE category \in {"PROVIDER_TIMEOUT", "PROVIDER_CONNECTION_ERROR"} -> "wait"
      [] category = "PROVIDER_HTTP_ERROR" -> IF end \in {"429", "500"} THEN "wait" ELSE "stop"
      [] category \in {"SCHEMA_VALIDATION_FAILED", "EVIDENCE_VALIDATION_FAILED"} -> "repair"
      [] category = "PROVIDER_LENGTH_BEFORE_FINAL_CONTENT" -> "shorten"
      [] OTHER -> "stop"

\* The same failure as the circuit breaker files it.
CircuitCategory(category, end) ==
    CASE end = "401" -> "AUTH" [] end = "429" -> "RATE_LIMITED" [] end = "500" -> "SERVER"
      [] OTHER -> CASE category = "PROVIDER_TIMEOUT" -> "TIMEOUT"
                    [] category = "PROVIDER_CONNECTION_ERROR" -> "CONNECTION"
                    [] category = "SCHEMA_VALIDATION_FAILED" -> "SCHEMA"
                    [] OTHER -> "UNKNOWN"

\* Guidance for the operator.
Advised(category, end) ==
    IF category = "PROVIDER_HTTP_ERROR" /\ end \in {"429", "500"} THEN "wait and resume"
    ELSE IF category = "PROVIDER_HTTP_ERROR" /\ end \in {"400", "401", "404"} THEN "check settings"
    ELSE "by category"

(***************************************************************************)
(* Negotiation of the output mode.  A probe is answered validly, with some *)
(* object, with text that is no object, refused (400, 404, 415, 422),      *)
(* denied (any other status), not connected, misshaped, or timed out.      *)
(***************************************************************************)
Modes == {"STRICT", "JSON"}
Policies == {"AUTO", "REQUIRE_STRICT", "JSON_OBJECT_ONLY"}
ProbeAnswers == {"valid", "object", "text", "refused", "denied", "unconnected", "misshaped", "timeout"}

Tried(policy, mode) ==
    policy # (IF mode = "STRICT" THEN "JSON_OBJECT_ONLY" ELSE "REQUIRE_STRICT")

\* Only a refusal makes the readiness probe go on to the next mode.
Readiness(policy, answers) ==
    LET strict == IF Tried(policy, "STRICT") THEN answers["STRICT"] ELSE "refused"
        json == IF Tried(policy, "JSON") THEN answers["JSON"] ELSE "refused"
    IN CASE strict = "valid" -> "STRICT"
         [] strict = "refused" /\ json = "valid" -> "JSON"
         [] strict = "refused" /\ json = "refused" -> "UNAVAILABLE"
         [] OTHER -> "FAILED"

\* Errors that the probe of a schema does not take for a refusal.
Escaping == {"misshaped", "timeout"}

SchemaMode(policy, answers) ==
    LET fits(mode) == Tried(policy, mode) /\ answers[mode] \in {"valid", "object"}
        breaks(mode) == Tried(policy, mode) /\ answers[mode] \in Escaping
    IN CASE fits("STRICT") -> "STRICT"
         [] breaks("STRICT") -> "UNAVAILABLE"
         [] ~Tried(policy, "STRICT") \/ answers["STRICT"] \notin {"valid", "object"} \cup Escaping ->
                IF fits("JSON") THEN "JSON" ELSE "UNAVAILABLE"

\* The profile kept for a model: schemas are probed only when it is ready.
ProfileOf(policy, ready, schema) ==
    LET base == Readiness(policy, ready)
    IN IF base \in Modes THEN [base |-> base, schema |-> SchemaMode(policy, schema)]
       ELSE [base |-> "UNAVAILABLE", schema |-> "UNAVAILABLE"]

\* The mode of a call; without a profile the settings decide.
SelectedMode(profiled, profile, policy, formatted) ==
    CASE profiled -> profile.schema
      [] ~profiled /\ ~formatted /\ policy = "REQUIRE_STRICT" -> "UNAVAILABLE"
      [] OTHER -> "JSON"

(***************************************************************************)
(* What a repair asks for.                                                 *)
(***************************************************************************)
EventAdvice(event) ==
    /\ event.actor = "KNOWN" => event.ids # {} \/ event.mentions # {}
    /\ event.actor \in {"UNKNOWN", "UNRESOLVED", "NOT_APPLICABLE"} => event.ids = {} /\ event.mentions = {}
    /\ event.actor = "UNRESOLVED" <=> event.actorRef # None

\* The code of the rule an event broke, which the repair names.  A rule is
\* looked up by words its message contains, and "UNKNOWN actor ..."
\* contains "KNOWN actor ..."; three messages are not in the table.
EventRuleCode(event) ==
    LET somebody == event.ids # {} \/ event.mentions # {} IN
    IF event.version = "1.0" /\ (event.mentions # {} \/ event.placeMention # None) THEN "MENTIONS"
    ELSE IF event.place # None /\ event.placeMention # None THEN "LOCATION"
    ELSE IF event.actor = "KNOWN" /\ ~somebody THEN "KNOWN"
    ELSE IF event.actor \in {"UNKNOWN", "UNRESOLVED", "NOT_APPLICABLE"} /\ somebody THEN None
    ELSE IF event.actor = "UNKNOWN" /\ event.actorRef # None THEN "KNOWN"
    ELSE IF (event.actor = "UNRESOLVED") # (event.actorRef # None) THEN event.actor
    ELSE None

SignalAdvice(signal) ==
    /\ signal.basis = "NARRATED" => ~signal.speaker
    /\ signal.basis \in Stated => signal.speaker /\ signal.support # "EXPLICIT"
    /\ signal.basis = "OBSERVED_ACTION" => ~signal.speaker /\ signal.support # "EXPLICIT"
    /\ signal.basis # "INFERRED"
    /\ signal.effect \in Changing => signal.anchored
    /\ signal.effect = "DENIAL" <=> signal.denied
    /\ ~signal.subject.resolved /\ ~signal.counterpart.resolved

EvidenceAdvice(ref, view) ==
    /\ ref.chunk \in DOMAIN view /\ Quoted(ref) /\ Occurs(ref.quote, view[ref.chunk])
    /\ ~Ranged(ref)
=============================================================================

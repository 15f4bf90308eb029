--------------------------- MODULE CallQuestions ---------------------------
(* Calls of the Provider, the negotiation before them, the repairs after.  *)
EXTENDS ContractQuestions, ProviderCall

NoBody == [json |-> FALSE, shaped |-> FALSE, finish |-> "stop", content |-> "null"]

Replies ==
    {[end |-> "200", body |-> body] : body \in Body} \cup
    {[end |-> end, body |-> NoBody] :
        end \in (Statuses \ {"200"}) \cup {"timeout"} \cup ConnectErrors \cup BrokenOff}

AskCall ==
    \E first, second \in Replies, verdict \in {None, "ungrounded", "forbidden"} :
        /\ first.end = "200" => second = first
        /\ Ask("call", [first |-> first, second |-> second, verdict |-> verdict])

AnswerCall ==
    /\ topic = "call"
    /\ LET posted == Posted(question.first, question.second)
           category == Category(Fault(posted.reply, question.verdict))
           end == posted.reply.end
       IN answer' = [posted |-> posted, category |-> category, end |-> end,
                     treatment |-> Treatment(category, end), circuit |-> CircuitCategory(category, end),
                     advised |-> Advised(category, end)]

\* A window is cut down exactly when the model ran out of tokens, whatever
\* else is wrong with the rest of that answer, and an answer is repaired
\* only when it came whole; no answer is taken for good that was cut off.
CutOffShortened ==
    Replied("call") =>
        LET body == answer.posted.reply.body
            answered200 == answer.end = "200" /\ body.json /\ body.shaped
        IN /\ answer.treatment = "shorten" <=> answered200 /\ body.finish = "length"
           /\ answer.treatment = "repair" =>
                answered200 /\ body.finish = "stop" /\ body.content \in {"invalid", "valid"}
           /\ answer.category = None =>
                answered200 /\ body.finish = "stop" /\ body.content = "valid" /\ question.verdict = None

\* Provider, worker and circuit breaker agree on what may pass by itself:
\* what a second post did not cure the worker waits for, unless the name
\* of the host was not found, which no category is made for; what the
\* endpoint refused is posted once, never waited for, and left to the
\* operator.
TransientAgreed ==
    Replied("call") =>
        /\ answer.end \in Again => answer.treatment = (IF answer.end = "dns" THEN "stop" ELSE "wait")
        /\ answer.treatment = "wait" => answer.end \in Again \cup {"network"}
        /\ question.first.end \in {"400", "401", "404", "422"} => answer.posted.posts = 1
        /\ answer.end \in {"400", "401", "404", "422"} => answer.treatment = "stop"
        /\ answer.circuit = "AUTH" => answer.treatment = "stop" /\ answer.advised = "check settings"
        /\ answer.circuit \in {"TIMEOUT", "CONNECTION", "RATE_LIMITED", "SERVER"} => answer.treatment = "wait"
        /\ answer.posted.noted # answer.posted.posts => answer.end \in BrokenOff

----------------------------------------------------------------------------
AskNegotiation ==
    \E policy \in Policies, ready, schema \in [Modes -> ProbeAnswers], profiled, formatted \in BOOLEAN :
        /\ ~profiled => \A mode \in Modes : ready[mode] = "valid" /\ schema[mode] = "valid"
        /\ profiled => ~formatted
        /\ Ask("negotiation", [policy |-> policy, ready |-> ready, schema |-> schema,
                               profiled |-> profiled, formatted |-> formatted])

AnswerNegotiation ==
    /\ topic = "negotiation"
    /\ LET profile == ProfileOf(question.policy, question.ready, question.schema)
       IN answer' = [profile |-> profile,
                     mode |-> SelectedMode(question.profiled, profile, question.policy, question.formatted)]

\* A negotiated call is sent in a mode that its endpoint has answered for
\* this very schema and that the policy allows, or not at all.  A strict
\* policy is kept without negotiation too, unless the settings ask for
\* json_object themselves.
ModeAnswered ==
    Replied("negotiation") =>
        IF question.profiled
        THEN answer.mode \in Modes =>
                /\ question.schema[answer.mode] \in {"valid", "object"}
                /\ Tried(question.policy, answer.mode)
                /\ \E mode \in Modes : question.ready[mode] = "valid"
        ELSE question.policy = "REQUIRE_STRICT" /\ answer.mode # "UNAVAILABLE" => question.formatted

\* With the automatic policy an endpoint that is ready and answers the
\* schema in the weaker mode is used, unless the stronger one fails in a
\* way that is not an answer.
FallsBack ==
    (/\ Replied("negotiation") /\ question.profiled /\ question.policy = "AUTO"
     /\ question.ready["STRICT"] \in {"valid", "refused"} /\ question.ready["JSON"] = "valid"
     /\ question.schema["STRICT"] \notin Escaping /\ question.schema["JSON"] \in {"valid", "object"}) =>
        answer.mode # "UNAVAILABLE"

----------------------------------------------------------------------------
AskAdvice ==
    \/ \E event \in RawEvents : Ask("event advice", event)
    \/ \E signal \in
            [kind : {"TRUSTS", "PARENT_OF"}, subject : {Mention("x", "CHARACTER")},
             counterpart : {Mention("y", "CHARACTER"), [Mention("y", "CHARACTER") EXCEPT !.resolved = TRUE, !.id = "y"]},
             effect : Changing \cup {"PRESENT", "DENIAL", "UNKNOWN"}, denied : BOOLEAN,
             basis : Stated \cup {"NARRATED", "OBSERVED_ACTION", "INFERRED"},
             support : {"EXPLICIT", "STRONG", "LIMITED"}, speaker : BOOLEAN, anchored : BOOLEAN,
             evidence : {<<CHOOSE ref \in Refs : TRUE>>}] :
        Ask("signal advice", signal)

AnswerAdvice ==
    \/ /\ topic = "event advice"
       /\ answer' = [follows |-> EventAdvice(question), accepted |-> EventContract(question),
                     code |-> EventRuleCode(question)]
    \/ /\ topic = "signal advice"
       /\ answer' = [follows |-> SignalAdvice(question), accepted |-> SignalContract(question), code |-> None]

\* A model that does what the repair asks for is accepted: events need one
\* location at most besides, and the version of their mentions; signals a
\* known effect that their kind allows.  A rule is named only when it was
\* broken, and for the event's own status, except that an unknown actor
\* is told the rule of known ones.
AdviceAccepted ==
    /\ (Replied("event advice") /\ answer.follows) =>
            \/ answer.accepted
            \/ question.place # None /\ question.placeMention # None
            \/ question.version = "1.0"
    /\ (Replied("signal advice") /\ answer.follows) =>
            \/ answer.accepted
            \/ question.effect = "UNKNOWN" \/ (question.kind = "PARENT_OF" /\ question.effect = "TERMINATION")
    /\ (Replied("event advice") /\ answer.code # None) =>
            /\ ~answer.accepted
            /\ answer.code \in {"MENTIONS", "LOCATION", question.actor} \/ question.actor = "UNKNOWN"
    /\ (Replied("evidence") /\ EvidenceAdvice(question.ref, answer.view)) =>
            Bindable(question.ref, answer.view) /\ answer.window.passed

\* Every way a call can end is told apart as the retries and the readiness check need it.
CallsHandled ==
    /\ CutOffShortened
    /\ TransientAgreed
    /\ ModeAnswered
    /\ FallsBack
    /\ AdviceAccepted
=============================================================================

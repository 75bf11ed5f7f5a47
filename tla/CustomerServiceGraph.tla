------------------------- MODULE CustomerServiceGraph ------------------------
(***************************************************************************)
(* One conversation and the graph that answers its messages one by one     *)
(* (graph/workflow.py, graph/context.py): topic, intent, search, answer,   *)
(* verification; with the calls of the model inside the nodes. Each        *)
(* message runs on a thread of its own.                                    *)
(***************************************************************************)
EXTENDS LanguageModel, ContextResolution, GroundedAnswer

CONSTANTS
    Questions,        \* what the user may ask
    ModelDecisions    \* what the intent model may reply

ASSUME GraphAssumption ==
    /\ Questions \subseteq QuestionType
    /\ \A d \in ModelDecisions : ValidDecision(d)
    /\ MaxTopics \in Nat \ {0}

MaxGraphSteps == 12

VARIABLES
    run,        \* the state of the graph for the last message
    topics,     \* of the stored context
    confirmed   \* intents the decisions named since the last reset

graphVars == <<run, topics, confirmed>>
vars == <<modelVars, graphVars>>

NoRun ==
    [status |-> "none", node |-> "none", steps |-> 0, question |-> None,
     topic |-> None, reset |-> FALSE, raw |-> None, decision |-> None,
     target |-> None, pending |-> <<>>, required |-> {}, quality |-> "answer",
     evidence |-> <<>>, override |-> FALSE, grounded |-> None,
     answer |-> Plainly("none"), billed |-> 0, error |-> None,
     next |-> <<>>, stored |-> FALSE]

\* A run that ends without an answer.
Over(status, error) == [NoRun EXCEPT !.status = status, !.error = error]

Nodes == {"initialize", "validate_input", "resolve_context", "classify_intent",
          "retrieve_knowledge", "generate_grounded", "verify_claims",
          "general_chat", "human_review", "deterministic_response", "finalize", "fail"}
Codes == {"MODEL_UNAVAILABLE", "MODEL_BAD_RESPONSE", "INTERNAL_ERROR", "INPUT"}

\* Every channel, topic and counter is of its type and within its bound.
TypeOK ==
    /\ ModelTypeOK
    /\ run.status \in {"none", "running", "paused", "completed", "failed", "cancelled"}
    /\ run.node \in Nodes \cup {"none"}
    /\ run.steps \in 0..MaxGraphSteps
    /\ run.decision = None \/ ValidDecision(run.decision)
    /\ run.target \in Targets \cup {None}
    /\ Len(run.evidence) <= MaxParents /\ IsInjective(run.evidence)
    /\ run.answer.kind \in {"none", "full", "claims", "notice", "chat", "fixed"}
    /\ run.error \in Codes \cup {None}
    /\ \A s \in {topics, run.next} : Len(s) <= MaxTopics /\ IsInjective(s)
    /\ confirmed \subseteq Intents

Init ==
    /\ ModelInit
    /\ run = NoRun
    /\ topics = <<>>
    /\ confirmed = {}

Asked == Effective(run.question, run.topic)

-----------------------------------------------------------------------------
(* The user *)

\* The next message comes when the last one is over, or waits for a reviewer.
Free == /\ run.status \in {"none", "failed", "cancelled"} \/ run.stored
        /\ run.status # "running" /\ ~StreamLive

Send(q) ==
    /\ Free
    /\ run' = [NoRun EXCEPT !.status = "running", !.node = "initialize", !.question = q]
    /\ usage' = NoUsage
    /\ stream' = NoStream
    /\ UNCHANGED <<call, topics, confirmed>>

\* POST /chat/stream, beside the conversation.
AskStream == run.status = "none" /\ OpenStream /\ UNCHANGED <<call, usage, graphVars>>

\* Only a pause has an interrupt to resume.
Resume ==
    /\ run.status = "paused" /\ run.stored
    /\ run' = [run EXCEPT !.status = "running", !.node = "deterministic_response",
                          !.override = TRUE, !.steps = @ + 1]
    /\ UNCHANGED <<modelVars, topics, confirmed>>

-----------------------------------------------------------------------------
(* Nodes without a call *)

At(node) == run.status = "running" /\ run.node = node /\ call.task = "none"
Rest == UNCHANGED <<modelVars, topics, confirmed>>
Go(node) == [run EXCEPT !.node = node, !.steps = @ + 1]

Initialize == At("initialize") /\ run' = Go("validate_input") /\ Rest

\* The sum of steps, the blank and the long question.
ValidateInput ==
    /\ At("validate_input")
    /\ run' = IF run.steps < MaxGraphSteps /\ run.question.size = "ok"
              THEN Go("resolve_context") ELSE Go("fail")
    /\ Rest

FailNode ==
    /\ At("fail")
    /\ run' = Over("failed", "INPUT")
    /\ Rest

\* A question back leaves the context as it is.
WithResolution(r) ==
    IF r.kind = "ambiguous"
    THEN [Go("deterministic_response") EXCEPT !.target = "clarification",
              !.override = TRUE, !.next = topics]
    ELSE [Go("classify_intent") EXCEPT !.topic = r.topic, !.reset = r.reset]

ResolveByRule ==
    /\ At("resolve_context")
    /\ ResolvedByRule(run.question, topics) # None
    /\ run' = WithResolution(ResolvedByRule(run.question, topics))
    /\ Rest

WithDecision(d) ==
    [Go(NodeAfterIntent(Target(d))) EXCEPT
        !.decision = d, !.target = Target(d), !.next = Advanced(topics, d, run.reset),
        !.pending = IF d = None THEN <<>> ELSE SearchDomains(d)]

ClassifyByRule ==
    /\ At("classify_intent")
    /\ Asked.rule # "none"
    /\ run' = WithDecision(RuleDecision(Asked.rule))
    /\ Rest

\* interrupt_enabled: the checkpoint store is there; otherwise the fixed text.
HumanReview(interrupts) ==
    /\ At("human_review")
    /\ run' = IF interrupts THEN [run EXCEPT !.status = "paused"]
              ELSE [Go("deterministic_response") EXCEPT !.override = TRUE]
    /\ Rest

\* What the search of a domain may come to, by the entities the question names.
Searches ==
    [domain \in Domains |->
        {[required |-> Range(required), result |-> PolicyResult(required, view, supplement)] :
            required \in {s \in BoundedSeq(Entities, Cardinality(Entities)) : IsInjective(s)},
            view \in Views(domain), supplement \in Views(domain)}]

\* One domain: a search, and a second one when an entity is not covered.
RetrieveDomain ==
    /\ At("retrieve_knowledge")
    /\ run.pending # <<>>
    /\ \E search \in Searches[run.pending[1]] :
         run' = [run EXCEPT !.pending = Tail(@),
                               !.required = @ \cup search.required,
                               !.quality = Stricter(@, search.result.quality),
                               !.evidence = AddEvidence(@, search.result.parents)]
    /\ Rest

\* No domain to search, or a search that fails.
RetrievalFallsBack(failed) ==
    /\ At("retrieve_knowledge")
    /\ failed \/ SearchDomains(run.decision) = <<>>
    /\ run' = [Go("deterministic_response") EXCEPT
                  !.override = TRUE, !.pending = <<>>, !.evidence = <<>>]
    /\ Rest

Accepted(quality) == quality = "answer"

FinishRetrieval ==
    /\ At("retrieve_knowledge")
    /\ run.pending = <<>> /\ SearchDomains(run.decision) # <<>>
    /\ run' = IF Accepted(run.quality) THEN Go("generate_grounded")
              ELSE [Go("deterministic_response") EXCEPT !.override = TRUE, !.evidence = <<>>]
    /\ Rest

\* The inference model of the claims may be unavailable.
VerifyClaims(mode, nli) ==
    /\ At("verify_claims")
    /\ run' = [Go("finalize") EXCEPT
                  !.answer = IF run.grounded = None THEN Plainly("notice")
                             ELSE Published(run.grounded, mode, nli),
                  !.billed = usage.tokens, !.grounded = None, !.required = {}]
    /\ Rest

\* The override, or the text of the plan.
DeterministicResponse ==
    /\ At("deterministic_response")
    /\ run' = [Go("finalize") EXCEPT !.answer = Plainly("fixed"),
                                     !.billed = 0]
    /\ Rest

\* A run without its full response must not end as completed.
Finalize ==
    /\ At("finalize")
    /\ run' = IF run.answer.kind = "none"
              THEN Over("failed", "INTERNAL_ERROR")
              ELSE [Go("finalize") EXCEPT !.status = "completed"]
    /\ Rest

\* _persist_outcome stores the context of a run that completed or paused. The
\* next message has a run of its own, so nothing else is remembered of this one.
StoreTurn ==
    /\ run.status \in {"completed", "paused"} /\ ~run.stored
    /\ topics' = run.next
    /\ confirmed' = (IF run.reset THEN {} ELSE confirmed)
                      \cup IF run.decision = None THEN {} ELSE Range(run.decision.intents)
    /\ run' = [NoRun EXCEPT !.status = run.status, !.node = run.node, !.steps = run.steps,
                           !.stored = TRUE]
    /\ UNCHANGED <<call, stream>>
    /\ usage' = NoUsage

-----------------------------------------------------------------------------
(* Nodes that call the model *)

RestOfGraph == UNCHANGED <<run, topics, confirmed, stream>>
RestOfCall == UNCHANGED <<topics, confirmed, stream>>

AskModel ==
    /\ \/ /\ At("resolve_context") /\ Ask("resolve")
          /\ ResolvedByRule(run.question, topics) = None
       \/ At("classify_intent") /\ Asked.rule = "none" /\ Ask("classify")
       \/ At("generate_grounded") /\ Ask("grounded")
       \/ At("general_chat") /\ Ask("chat")
    /\ RestOfGraph

Code(outcome) == CASE outcome = "unavailable" -> "MODEL_UNAVAILABLE"
                   [] outcome = "bad_response" -> "MODEL_BAD_RESPONSE"
                   [] OTHER -> "INTERNAL_ERROR"

\* The exception leaves the graph: the node is a failed task of the checkpoint.
Broken(outcome) == Over("failed", Code(outcome))

RepeatCall(outcome) ==
    /\ call.task # "none" /\ MayEnd(outcome)
    /\ Repeat(outcome)
    /\ RestOfGraph

\* An error, or a reply that never parses, at the end of the attempts.
CallFails(outcome) ==
    /\ call.task # "none" /\ MayEnd(outcome)
    /\ outcome = "unparsed" => call.task # "chat"
    /\ EndCall(outcome)
    /\ run' = IF outcome = "unexpected" \/ call.task = "chat" THEN Broken(outcome)
              ELSE CASE call.task = "resolve" -> WithResolution(Ambiguous)
                     [] call.task = "classify" -> WithDecision(None)
                     [] call.task = "grounded" ->
                          IF outcome = "unparsed" THEN Go("verify_claims")
                          ELSE [Go("deterministic_response") EXCEPT
                                  !.override = TRUE, !.error = Code(outcome)]
    /\ RestOfCall

\* A key the model made up.
Invented == <<"technical", "troubleshoot">>

ResolverReplies ==
    /\ call.task = "resolve"
    /\ EndCall("reply")
    /\ LET candidates == Candidates(run.question, topics)
       IN  \E m \in ModelResolutions(Range(candidates) \cup {Invented}) :
             run' = WithResolution(Validated(candidates, m))
    /\ RestOfCall

ClassifierReplies ==
    /\ call.task = "classify"
    /\ EndCall("reply")
    /\ \E d \in ModelDecisions :
         run' = [WithDecision(HybridDecision(Asked, d)) EXCEPT !.raw = d]
    /\ RestOfCall

\* The answer and its citations are checked before it reaches the verifier.
GroundedReplies ==
    /\ call.task = "grounded"
    /\ EndCall("reply")
    /\ \E answer \in Answers(run.evidence) :
         run' = [Go("verify_claims") EXCEPT
                    !.grounded = IF CitesEvidence(answer, run.evidence) THEN answer ELSE None]
    /\ RestOfCall

ChatReplies ==
    /\ call.task = "chat"
    /\ EndCall("reply")
    /\ run' = [Go("finalize") EXCEPT !.answer = Plainly("chat"),
                                     !.billed = usage'.tokens]
    /\ RestOfCall

\* The client leaves while the graph works.
Cancel ==
    /\ run.status = "running"
    /\ run' = Over("cancelled", None)
    /\ IF call.task = "none" THEN UNCHANGED <<call, usage>> ELSE EndCall("cancelled")
    /\ RestOfCall

-----------------------------------------------------------------------------
Outcomes == Errors \cup {"unparsed"}

ModelStep ==
    \/ AskModel
    \/ Backoff /\ UNCHANGED graphVars
    \/ \E outcome \in Outcomes : RepeatCall(outcome) \/ CallFails(outcome)
    \/ ResolverReplies
    \/ ClassifierReplies
    \/ GroundedReplies
    \/ ChatReplies

NodeStep ==
    \/ Initialize
    \/ ValidateInput
    \/ FailNode
    \/ ResolveByRule
    \/ ClassifyByRule
    \/ \E interrupts \in BOOLEAN : HumanReview(interrupts)
    \/ RetrieveDomain
    \/ \E failed \in BOOLEAN : RetrievalFallsBack(failed)
    \/ FinishRetrieval
    \/ \E mode \in {"enforce", "shadow"}, nli \in BOOLEAN : VerifyClaims(mode, nli)
    \/ DeterministicResponse
    \/ Finalize
    \/ StoreTurn

Streaming == StreamStep /\ UNCHANGED <<call, usage, graphVars>>

Next ==
    \/ \E q \in Questions : Send(q)
    \/ AskStream
    \/ Resume
    \/ Cancel
    \/ LeaveStream /\ UNCHANGED <<call, usage, graphVars>>
    \/ ModelStep
    \/ NodeStep
    \/ Streaming

\* Every call has a timeout and every node is awaited: the server goes on, the
\* user and the reviewer need not.
Spec == Init /\ [][Next]_vars /\ WF_vars(ModelStep) /\ WF_vars(NodeStep) /\ WF_vars(Streaming)

-----------------------------------------------------------------------------
(* Properties *)

\* What the user reads as knowledge consists of claims that cite evidence of
\* this very search; an enforcing verifier lets only claims through that stand
\* in the evidence or follow from it, an observing one at least no wrong number
\* and no turned negation (publish_grounded_answer after verify_claims).
PublishedIsSupported ==
    run.answer.kind \in {"full", "claims"} =>
        /\ run.answer.claims # {}
        /\ \A c \in run.answer.claims :
             /\ c.cites \in DOMAIN run.evidence
             /\ IF run.answer.mode = "enforce" THEN c.truth \in True ELSE c.truth \notin Hard

\* A business request that the model rates high, or that names an intent whose
\* floor is high, anywhere among its intents, waits for a person and is
\* answered by neither model nor search; an unsafe one is refused
\* (HybridIntentPolicy.apply, CustomerServiceRouter.route).
SevereGoesToReview ==
    LET d == run.raw
        severe == /\ d.route = "supported"
                  /\ \/ d.risk \in {"high", "critical"}
                     \/ \E i \in Range(d.intents) : RiskFloorOf(i) = "high"
    IN  d # None =>
          /\ severe => run.target = "human_review"
          /\ d.source = "model" /\ d.route = "unsafe" => run.target = "safety"
          /\ severe \/ d.route = "unsafe" => run.answer.kind \in {"none", "fixed"}

\* The topic a short question is completed with was named by an intent decision
\* of this conversation after the user last dropped the subject, whatever the
\* model invents (ConversationContextResolver, advance_conversation_context).
TopicWasConfirmed == run.topic # None => run.topic \in confirmed

\* When the model is asked for a grounded answer, what it is given names every
\* product the question names, and has something of every domain asked, unless
\* the evidence is full: one domain alone never fills it past its own parents.
\* The coverage is judged before a domain's parents are cut to TopK, so the
\* question may not name more products than that (coverage_aware_parent_order,
\* build_knowledge_evidence).
EvidenceCoversQuestion ==
    LET domains == SearchDomains(run.decision)
    IN  run.node = "generate_grounded" =>
          \/ Len(run.evidence) = MaxParents /\ (Len(domains) > 1 \/ TopK > MaxParents)
          \/ Cardinality(run.required) > TopK
          \/ /\ run.required \subseteq Covered(Range(run.evidence))
             /\ Range(domains) \subseteq {DomainOf[p] : p \in Range(run.evidence)}

\* Every call ChatService makes leaves one record, also the repeated, failed and
\* cancelled ones, and the usage published with an answer counts every reply of
\* the run, not only the last (complete_grounded, complete).
CallsAreRecorded ==
    /\ usage.records + (IF Accounted(call.task) THEN 1 ELSE 0) = usage.calls
    /\ run.status = "completed" /\ run.answer.kind # "fixed" => run.billed = usage.tokens

\* What a streamed chat showed is the beginning of one text, without a repetition,
\* and all of it when it ends as a success; its end is recorded once
\* (OpenAICompatibleProvider.stream, ChatService.stream).
StreamNeverRepeats ==
    /\ \A i \in DOMAIN stream.shown : stream.shown[i] = i
    /\ stream.phase = "success" => Len(stream.shown) = MaxChunks
    /\ stream.records = 1 <=> stream.phase \in {"success", "error", "cancelled"}

\* recommend_recovery, from the last checkpoint and the audited error.
Advice ==
    CASE run.status = "paused" -> "resume_review"
      [] run.status = "failed" ->
            IF run.error \in {"MODEL_UNAVAILABLE", "INTERNAL_ERROR"} THEN "retry_checkpoint"
            ELSE IF run.error = "INPUT" THEN "correct_input" ELSE "operator_inspect"
      [] OTHER -> "none"

\* How a run may end: with its answer, with its context stored and a review to
\* resume, with advice to the operator, or because the client left.
Ended ==
    \/ run.status = "completed" /\ run.answer.kind # "none" /\ Advice = "none"
    \/ run.status = "paused" /\ run.stored /\ Advice = "resume_review"
    \/ run.status = "failed" /\ Advice # "none"
    \/ run.status = "cancelled"

\* Every message comes to such an end, and every stream ends, however often the
\* provider fails and the replies do not parse.
RunEnds == /\ run.status = "running" ~> Ended
           /\ StreamLive ~> ~StreamLive
=============================================================================

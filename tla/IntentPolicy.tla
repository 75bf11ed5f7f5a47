----------------------------- MODULE IntentPolicy ----------------------------
(***************************************************************************)
(* What a question is taken to ask: the rules that answer before the       *)
(* model (intent/rules.py), the corrections of the model's decision        *)
(* (intent/policies.py), their combination (intent/hybrid.py) and the      *)
(* branch of the graph a decision leads to (routing.py).                   *)
(*                                                                         *)
(* A question is the record of what the code's patterns see in its text;   *)
(* an intent is a pair <<domain, action>>.                                 *)
(***************************************************************************)
EXTENDS SequenceParts

CONSTANT None

Domains == {"membership", "order", "account", "creator", "content",
            "community", "technical", "human_service"}
Actions == {"query", "cancel", "refund", "recover", "appeal", "report", "troubleshoot",
            "modify", "transfer"}
Intents == Domains \X Actions

EntityTypes == {"product", "order_id", "transaction_id", "account_id", "creator_id",
                "content_id", "time_range", "amount", "payment_channel", "issue", "other"}

\* asks: a marker of a process ("how do I"), of an execution ("please do"), or
\* neither. ids: the identifiers the patterns find. danger: credential theft
\* or covert self-harm.
QuestionType ==
    [size : {"empty", "ok", "long"}, form : {"plain", "ellipsis", "reset"},
     slot : {"price", "effect", "benefit", "cancel", "other"},
     rule : {"none", "greeting", "transfer", "price"},
     asks : {"process", "execution", "neither"},
     ids : SUBSET {"order_id", "content_id"}, danger : BOOLEAN]

Routes == {"supported", "out_of_domain", "chitchat", "unsafe"}
Risks == <<"low", "medium", "high", "critical">>
RiskOrder(r) == CHOOSE i \in 1..4 : Risks[i] = r
Graver(r, s) == IF RiskOrder(r) < RiskOrder(s) THEN s ELSE r

\* The floors of _INTENT_RISK_FLOORS; every other pair has the lowest.
RiskFloorOf(intent) ==
    CASE intent = <<"account", "recover">> -> "high"
      [] intent \in {<<"membership", "refund">>, <<"order", "refund">>}
                    \cup {"account", "creator", "content", "community"} \X {"appeal"}
                    \cup {"content", "community"} \X {"report"} -> "medium"
      [] OTHER -> "low"

\* IntentDecision and its validate_decision: what a parsed reply may be.
ValidDecision(d) ==
    /\ d \in [route : Routes, intents : Seq(Intents), entities : SUBSET EntityTypes,
              risk : Range(Risks), clarify : BOOLEAN, source : {"model", "rule", "hybrid"}]
    /\ d.route = "supported" <=> d.intents # <<>>
    /\ d.route = "unsafe" => d.risk # "low"
    /\ IsInjective(d.intents)

ASSUME NoneIsNoDecision == ~ValidDecision(None)

-----------------------------------------------------------------------------
(* Rules *)

LowRisk(route, intents) ==
    [route |-> route, intents |-> intents, entities |-> {}, risk |-> "low",
     clarify |-> FALSE, source |-> "rule"]

RuleDecision(rule) ==
    CASE rule = "greeting" -> LowRisk("chitchat", <<>>)
      [] rule = "transfer" -> LowRisk("supported", << <<"human_service", "transfer">> >>)
      [] rule = "price" -> [LowRisk("supported", << <<"membership", "query">> >>)
                              EXCEPT !.entities = {"product"}]

-----------------------------------------------------------------------------
(* The policy after the model *)

GravestFloor(intents) ==
    FoldLeft(LAMBDA risk, i : Graver(risk, RiskFloorOf(i)), "low", intents)

\* Mutant of RiskFloor: the floor of the first intent only.
FirstFloor(q, d) ==
    IF d.route = "unsafe" THEN IF q.danger THEN "critical" ELSE "medium"
    ELSE IF d.intents = <<>> THEN "low" ELSE RiskFloorOf(d.intents[1])

RiskFloor(q, d) ==
    IF d.route = "unsafe" THEN IF q.danger THEN "critical" ELSE "medium"
    ELSE GravestFloor(d.intents)

\* What an intent needs before it can be carried out, and does not have.
Lacks(q, d, intent) ==
    \/ /\ intent \in {"order"} \X {"query", "cancel", "refund"}
       /\ "order_id" \notin d.entities \cup q.ids
    \/ /\ intent = <<"membership", "refund">>
       /\ {"order_id", "transaction_id"} \cap d.entities = {}
    \/ /\ intent = <<"content", "report">>
       /\ "content_id" \notin d.entities \cup q.ids
    \/ /\ intent = <<"account", "modify">>
       /\ {"account_id", "other"} \cap d.entities = {}

MissingParameter(q, d) ==
    /\ d.route = "supported"
    /\ q.asks = "execution"
    /\ \E i \in Range(d.intents) : Lacks(q, d, i)

\* apply: the risk only rises, a question back to the user is only added.
Corrected(q, d) ==
    LET risk == Graver(d.risk, RiskFloor(q, d))
        clarify == d.clarify \/ MissingParameter(q, d)
    IN  IF risk = d.risk /\ clarify = d.clarify THEN d
        ELSE [d EXCEPT !.risk = risk, !.clarify = clarify, !.source = "hybrid"]

\* classify: a model that claims another source is not believed.
HybridDecision(q, d) == IF d.source = "model" THEN Corrected(q, d) ELSE None

-----------------------------------------------------------------------------
(* CustomerServiceRouter.route *)

RequestsHuman(d) == <<"human_service", "transfer">> \in Range(d.intents)

Target(d) ==
    IF d = None THEN "human_review"
    ELSE CASE d.route = "unsafe" -> "safety"
           [] d.route = "out_of_domain" -> "out_of_scope"
           [] d.route = "chitchat" -> "general_chat"
           [] d.route = "supported" ->
                IF d.risk \in {"high", "critical"} THEN "human_review"
                ELSE IF d.clarify THEN "clarification"
                ELSE IF RequestsHuman(d) THEN "human_service" ELSE "knowledge_rag"

Targets == {"safety", "out_of_scope", "general_chat", "human_review",
            "clarification", "human_service", "knowledge_rag"}

\* The domains to search, in the order they are named.
SearchDomains(d) ==
    LET named == [i \in DOMAIN d.intents |-> d.intents[i][1]]
    IN  Once(Within(named, Domains \ {"human_service"}))

\* route_after_intent
NodeAfterIntent(target) ==
    CASE target = "knowledge_rag" -> "retrieve_knowledge"
      [] target = "general_chat" -> "general_chat"
      [] target \in {"human_review", "human_service"} -> "human_review"
      [] OTHER -> "deterministic_response"
=============================================================================

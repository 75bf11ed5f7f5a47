--------------------------- MODULE ContextResolution -------------------------
(***************************************************************************)
(* How a short question ("how much is it?") finds the topic it is about,   *)
(* and how the topics of a conversation grow (conversation_context.py).    *)
(* A topic is the intent a decision named; the newest comes first.         *)
(***************************************************************************)
EXTENDS IntentPolicy

CONSTANT MaxTopics     \* how many topics a conversation keeps

\* The domains a question's slot can be about; "other" fits them all.
SlotDomains(slot) ==
    CASE slot = "price" -> {"membership", "order"}
      [] slot = "effect" -> {"membership", "order", "account"}
      [] slot = "benefit" -> {"membership"}
      [] slot = "cancel" -> {"membership", "order"}
      [] slot = "other" -> Domains

Fits(q, topic) == topic[1] \in SlotDomains(q.slot)

CompatibleTopics(q, topics) == Within(topics, {t \in Range(topics) : Fits(q, t)})

\* compatible or topics: what the model may choose from.
Candidates(q, topics) ==
    LET compatible == CompatibleTopics(q, topics)
    IN  IF compatible = <<>> THEN topics ELSE compatible

Standalone(reset) == [kind |-> "standalone", topic |-> None, reset |-> reset]
Resolved(key) == [kind |-> "resolved", topic |-> key, reset |-> FALSE]
Ambiguous == [kind |-> "ambiguous", topic |-> None, reset |-> FALSE]

\* resolve, as far as it goes without the model.
ResolvedByRule(q, topics) ==
    LET compatible == CompatibleTopics(q, topics)
    IN  IF q.form # "ellipsis" THEN Standalone(q.form = "reset")
        ELSE IF Len(compatible) = 1 THEN Resolved(compatible[1]) ELSE None

\* _validate_model_resolution: the model may only choose among the candidates,
\* and what it leaves out ends in a question back.
ModelResolutions(keys) ==
    [kind : {"standalone", "resolved", "ambiguous"}, key : keys \cup {None},
     query : BOOLEAN, question : BOOLEAN]

Validated(candidates, m) ==
    CASE /\ m.kind = "resolved" /\ m.query
         /\ m.key \in Range(candidates) -> Resolved(m.key)
      [] m.kind = "standalone" /\ m.query -> Standalone(FALSE)
      [] OTHER -> Ambiguous

\* A completed price question names the membership and so meets its rule.
Effective(q, topic) ==
    IF topic = None THEN q
    ELSE [q EXCEPT !.rule = IF /\ q.slot = "price"
                               /\ topic[1] = "membership" THEN "price" ELSE q.rule]

-----------------------------------------------------------------------------
(* advance_conversation_context *)

\* Mutant of BaseTopics: a new question forgets nothing.
AllTopics(topics, reset) == topics

BaseTopics(topics, reset) == IF reset THEN <<>> ELSE topics

PushTopic(topics, intent) == <<intent>> \o Within(topics, Range(topics) \ {intent})

\* Mutant of NewestTopics: no topic is ever dropped.
EveryTopic(topics) == topics

NewestTopics(topics) == FirstOf(topics, MaxTopics)

\* The intents of a decision are pushed one by one.
PushedTopics(topics, intents) == FoldLeft(PushTopic, topics, intents)

\* Without intents the topics stay as they are.
Advanced(topics, d, reset) ==
    IF d = None \/ d.intents = <<>> THEN BaseTopics(topics, reset)
    ELSE NewestTopics(PushedTopics(BaseTopics(topics, reset), d.intents))
=============================================================================

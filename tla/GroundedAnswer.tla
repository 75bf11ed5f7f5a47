---------------------------- MODULE GroundedAnswer ---------------------------
(***************************************************************************)
(* From what a search returned to what the user may read: the coverage and *)
(* the quality decision (knowledge/coverage.py, retrieval_policy.py,       *)
(* services/policy_retrieval.py), the numbered evidence (evidence.py), the *)
(* contract of a grounded answer (grounded_answer.py), the verdict on its  *)
(* claims (claim_verification.py) and its publication (answer_policy.py).  *)
(*                                                                         *)
(* A hit is a parent with the score of its stage: 0 below the line of a    *)
(* question back, 1 below the line of an answer, 2 above both.             *)
(***************************************************************************)
EXTENDS FiniteSets, SequenceParts

CONSTANTS
    Parents,       \* parent chunks
    DomainOf,      \* the domain of a parent's document
    Entities,      \* products a question can name
    CoverOf,       \* the entities a parent's title or text names
    CandidateK,    \* parents a search returns
    TopK,          \* parents a domain keeps
    MaxParents     \* parents that fit the evidence of an answer

ASSUME GroundedAssumption ==
    /\ DomainOf \in [Parents -> STRING]
    /\ CoverOf \in [Parents -> SUBSET Entities]
    /\ {CandidateK, TopK, MaxParents} \subseteq Nat \ {0}
    /\ TopK <= CandidateK

Hits(domain) == [parent : {p \in Parents : DomainOf[p] = domain}, score : 0..2]

\* What a search may return: distinct parents, the best first.
Views(domain) ==
    {v \in BoundedSeq(Hits(domain), CandidateK) :
        \A i, j \in DOMAIN v : i < j => /\ v[i].parent # v[j].parent
                                        /\ v[i].score >= v[j].score}

ParentsIn(view) == {view[i].parent : i \in DOMAIN view}
Covered(parents) == UNION {CoverOf[p] : p \in parents}

-----------------------------------------------------------------------------
(* PolicyAwareKnowledgeRetriever.retrieve *)

\* _merge_views: the second search adds what the first did not return.
Merged(first, second) ==
    first \o Within(second, {h \in Range(second) : h.parent \notin ParentsIn(first)})

\* The best hit of the second search decides whether it counts at all.
Supplemented(view, required, supplement) ==
    IF /\ ~(required \subseteq Covered(ParentsIn(view)))
       /\ supplement # <<>>
       /\ supplement[1].score >= 1
    THEN Merged(view, supplement)
    ELSE view

\* The position of the first hit that covers an entity; 0 when there is none.
Covering(e, view) == SelectInSeq(view, LAMBDA h : e \in CoverOf[h.parent])

\* The first hit of each entity (required is a sequence here).
Chosen(required, view) ==
    LET covered == Within(required, {e \in Entities : Covering(e, view) # 0})
    IN  Once([i \in DOMAIN covered |-> view[Covering(covered[i], view)]])

\* Mutant of ParentOrder: what the search ranked first, whatever it covers.
RankOrder(required, view) == FirstOf(view, TopK)

\* coverage_aware_parent_order: those first, then the rest as it was ranked.
ParentOrder(required, view) ==
    LET chosen == Chosen(required, view)
    IN  FirstOf(chosen \o Within(view, Range(view) \ Range(chosen)), TopK)

\* decide_retrieval_quality: covered is judged before the view is cut to TopK.
Quality(kept, missing) ==
    IF kept = <<>> THEN "refuse"
    ELSE IF missing # {} THEN "clarify"
    ELSE CASE kept[1].score = 0 -> "refuse"
           [] kept[1].score = 1 -> "clarify"
           [] kept[1].score = 2 -> "answer"

PolicyResult(required, view, supplement) ==
    LET whole == Supplemented(view, Range(required), supplement)
        kept == ParentOrder(required, whole)
    IN  [parents |-> [i \in DOMAIN kept |-> kept[i].parent],
         quality |-> Quality(kept, Range(required) \ Covered(ParentsIn(whole)))]

\* The most cautious decision of all domains: max over answer, clarify, refuse.
Strictness(q) == CASE q = "answer" -> 0 [] q = "clarify" -> 1 [] q = "refuse" -> 2
Stricter(q, r) == IF Strictness(q) < Strictness(r) THEN r ELSE q

\* build_knowledge_evidence: the parents of the domains in their order, each
\* once, as far as the budget reaches. Evidence En is the n-th of them.
AddEvidence(evidence, parents) == Collect(evidence, parents, MaxParents)

-----------------------------------------------------------------------------
(* GroundedAnswer and its verdict *)

\* What is true of a claim, given the evidence it cites: the text stands there,
\* a number does not, a predicate is negated there, or the model finds that it
\* follows, that it contradicts, or neither.
Truths == {"exact", "number", "negation", "entailed", "contradicted", "unclear"}
True == {"exact", "entailed"}
Hard == {"number", "negation"}

\* A parsed answer: one or two claims, each with the evidence number it cites,
\* which may be one that was never given: the
\* verdict asks no more of the number.
Claims(evidence) == [cites : {1, Len(evidence) + 1}, truth : Truths]
Answers(evidence) ==
    [claims : {{c, d} : c, d \in Claims(evidence)}, complete : BOOLEAN]

\* validate_grounded_answer_evidence
CitesEvidence(answer, evidence) ==
    \A c \in answer.claims : c.cites \in DOMAIN evidence

\* _hard_rule_verification, then the inference model, which may be down.
Verdict(claim, nli) ==
    CASE claim.truth = "exact" -> "supported"
      [] claim.truth = "number" -> "unsupported"
      [] claim.truth = "negation" -> "conflict"
      [] claim.truth = "unclear" -> "unknown"
      [] claim.truth = "entailed" -> IF nli THEN "supported" ELSE "unknown"
      [] claim.truth = "contradicted" -> IF nli THEN "conflict" ELSE "unknown"

\* Mutant of Decision: a claim the model could not judge does not count.
LenientDecision(answer, verdicts) ==
    IF verdicts \cap {"conflict", "unsupported"} # {} THEN "reject"
    ELSE IF ~answer.complete THEN "degrade" ELSE "pass"

\* _verification_decision
Decision(answer, verdicts) ==
    IF verdicts \cap {"conflict", "unsupported"} # {} THEN "reject"
    ELSE IF "unknown" \in verdicts \/ ~answer.complete THEN "degrade" ELSE "pass"

\* publish_grounded_answer: the whole text, the supported claims, or a notice.
Published(answer, mode, nli) ==
    LET verdict(c) == Verdict(c, nli)
        supported == {c \in answer.claims : verdict(c) = "supported"}
        hardFailure == \E c \in answer.claims : c.truth \in Hard
        decision == Decision(answer, {verdict(c) : c \in answer.claims})
        whole == (mode = "shadow" /\ ~hardFailure) \/ decision = "pass"
        some == ~hardFailure /\ supported # {}
    IN  [mode |-> mode,
         kind |-> IF whole THEN "full" ELSE IF some THEN "claims" ELSE "notice",
         claims |-> IF whole THEN answer.claims ELSE IF some THEN supported ELSE {}]

\* Every answer that is not made of claims.
Plainly(kind) == [kind |-> kind, claims |-> {}, mode |-> "none"]
=============================================================================

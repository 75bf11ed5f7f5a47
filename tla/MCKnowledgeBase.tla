---------------------------- MODULE MCKnowledgeBase --------------------------
(* The instance of KnowledgeBase that TLC checks. *)
EXTENDS KnowledgeBase, TLC

CONSTANTS c1, c2

\* One content fills more than one batch.
MCChildren == [c \in Contents |-> IF c = c1 THEN 2 ELSE 1]

Symmetry == Permutations(Configs)
=============================================================================

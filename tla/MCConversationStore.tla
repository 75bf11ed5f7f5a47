------------------------ MODULE MCConversationStore -------------------------
(* Instances of ConversationStore for TLC. *)
EXTENDS ConversationStore, TLC

CONSTANTS t1, t2, t3, r1

Symmetry == Permutations(Turns)
=============================================================================

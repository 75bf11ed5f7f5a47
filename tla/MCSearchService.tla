---------------------------- MODULE MCSearchService --------------------------
(* The instance of SearchService that TLC checks. *)
EXTENDS SearchService, TLC

CONSTANTS t1, t2, w1, w2, i1, i2, d1

MCSurfaces == t1 :> {w1} @@ t2 :> {w1, w2}
MCDocument == i1 :> d1 @@ i2 :> d1
MCMentions == i1 :> {t1, t2} @@ i2 :> {t2}

Symmetry == Permutations(Reviewers) \cup Permutations(Publishers)
            \cup Permutations(Changes)
=============================================================================

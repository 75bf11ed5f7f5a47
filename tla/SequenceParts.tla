---------------------------- MODULE SequenceParts ----------------------------
(***************************************************************************)
(* Parts of a sequence the models take, as folds: proofs know no           *)
(* SelectSeq.                                                              *)
(***************************************************************************)
EXTENDS Integers, Sequences, SequencesExt

\* The part of a sequence that lies in a set.
Within(s, set) == FoldLeft(LAMBDA r, x : IF x \in set THEN Append(r, x) ELSE r, <<>>, s)

\* A sequence and what another one adds to it, each element once, while there
\* is room.
Collect(base, s, room) ==
    FoldLeft(LAMBDA r, x : IF x \in Range(r) \/ Len(r) >= room THEN r ELSE Append(r, x),
             base, s)

\* Each element once, where it stands first.
Once(s) == Collect(<<>>, s, Len(s))

\* The first n elements, or all.
FirstOf(s, n) == SubSeq(s, 1, IF Len(s) < n THEN Len(s) ELSE n)
=============================================================================

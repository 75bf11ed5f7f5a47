----------------------------- MODULE SequenceFacts ---------------------------
(***************************************************************************)
(* Facts about natural numbers and sequences that the proofs of several    *)
(* modules rest on.                                                        *)
(***************************************************************************)
EXTENDS SequenceParts, SequenceTheorems, FiniteSetTheorems, FiniteSetsExt, TLAPS

-----------------------------------------------------------------------------
(* Induction, with a set in the place of a predicate *)

\* A set of natural numbers has a least element: the intervals 1..n are
\* finite sets, and those are well-founded under strict inclusion.
LEMMA LeastElement ==
    ASSUME NEW T \in SUBSET Nat, T # {}
    PROVE  \E m \in T : \A k \in T : m <= k
<1> DEFINE Intervals == {1..n : n \in T}
<1>1. Intervals \subseteq FiniteSubsetsOf(Nat)
  <2>1. \A n \in T : IsFiniteSet(1..n) /\ (1..n) \subseteq Nat
    BY FS_Interval
  <2>q. QED
    BY <2>1 DEF FiniteSubsetsOf
<1>2. Intervals # {}
  OBVIOUS
<1>3. IsWellFoundedOn(StrictSubsetOrdering(Nat), FiniteSubsetsOf(Nat))
  BY FS_StrictSubsetOrderingWellFounded
<1>4. PICK I \in Intervals :
         \A J \in Intervals : <<J, I>> \notin StrictSubsetOrdering(Nat)
  <2> HIDE DEF Intervals
  <2>q. QED
    BY <1>1, <1>2, <1>3, WFMin
<1>5. PICK m \in T : I = 1..m
  OBVIOUS
<1>6. ASSUME NEW k \in T, k < m
      PROVE  FALSE
  <2>1. (1..k) \subseteq Nat /\ (1..m) \subseteq Nat
    BY <1>6
  <2>2. m \in 1..m /\ m \notin 1..k
    BY <1>6
  <2>3. (1..k) \subseteq (1..m) /\ (1..k) # (1..m)
    BY <1>6, <2>2
  <2>4. <<1..k, 1..m>> \in StrictSubsetOrdering(Nat)
    BY <2>1, <2>3 DEF StrictSubsetOrdering
  <2>q. QED
    BY <2>4, <1>4, <1>5
<1>q. QED
  BY <1>6

\* A set that holds 0 and the successor of each of its numbers holds them all.
LEMMA Induction ==
    ASSUME NEW S \in SUBSET Nat, 0 \in S, \A n \in S : n + 1 \in S
    PROVE  S = Nat
<1>1. SUFFICES ASSUME Nat \ S # {}
               PROVE  FALSE
  OBVIOUS
<1>2. PICK m \in Nat \ S : \A k \in Nat \ S : m <= k
  BY <1>1, LeastElement
<1>3. m - 1 \in Nat /\ m - 1 \notin Nat \ S
  BY <1>2
<1>q. QED
  BY <1>2, <1>3

-----------------------------------------------------------------------------
(* Sequences *)

\* The elements of a sequence.
LEMMA RangeIs ==
    ASSUME NEW S, NEW s \in Seq(S)
    PROVE  /\ Range(s) = {s[i] : i \in 1..Len(s)}
           /\ Range(s) \subseteq S
           /\ DOMAIN s = 1..Len(s) /\ Len(s) \in Nat
BY RangeOfSeq, RangeEquality, LenProperties

\* Appending adds one element.
LEMMA RangeOfAppend ==
    ASSUME NEW S, NEW s \in Seq(S), NEW x \in S
    PROVE  /\ Append(s, x) \in Seq(S)
           /\ Range(Append(s, x)) = Range(s) \cup {x}
<1>1. Append(s, x) \in Seq(S) /\ Len(Append(s, x)) = Len(s) + 1
  BY AppendProperties
<1>2. Range(Append(s, x)) = {Append(s, x)[i] : i \in 1..Len(Append(s, x))}
  BY <1>1, RangeEquality
<1>3. Range(s) = {s[i] : i \in 1..Len(s)} /\ Len(s) \in Nat
  BY RangeIs
<1>4. \A i \in 1..(Len(s) + 1) :
         Append(s, x)[i] = IF i = Len(s) + 1 THEN x ELSE s[i]
  BY <1>3, AppendProperties
<1>q. QED
  BY <1>1, <1>2, <1>3, <1>4

\* The empty sequence has no elements.
LEMMA RangeOfEmpty == Range(<<>>) = {} /\ DOMAIN <<>> = {} /\ Len(<<>>) = 0
<1>1. <<>> \in Seq({}) /\ Len(<<>>) = 0
  BY EmptySeq
<1>2. Range(<<>>) = {<<>>[i] : i \in 1..0} /\ DOMAIN <<>> = 1..0
  BY <1>1, RangeEquality, LenProperties
<1>3. 1..0 = {}
  OBVIOUS
<1>q. QED
  BY <1>1, <1>2, <1>3

\* A sequence of bounded length is a sequence.
LEMMA BoundedIsSeq ==
    ASSUME NEW S, NEW n, NEW s \in BoundedSeq(S, n)
    PROVE  s \in Seq(S)
<1>1. PICK m \in 0..n : s \in [1..m -> S]
  BY DEF BoundedSeq, SeqOf
<1>2. m \in Nat
  BY <1>1
<1>q. QED
  BY <1>1, <1>2, IsASeq

-----------------------------------------------------------------------------
(* Folds.  FoldLeft is a recursive function on the sets of positions. *)

\* The greatest number of a set of positions.
LEMMA MaxIs ==
    ASSUME NEW n \in Nat, NEW t \in SUBSET (1..n), t # {}
    PROVE  Max(t) \in t /\ \A y \in t : y <= Max(t)
<1> DEFINE bounds == {m \in Nat : \A y \in t : y <= m}
<1>1. n \in bounds /\ bounds \in SUBSET Nat
  OBVIOUS
<1>2. PICK m \in bounds : \A k \in bounds : m <= k
  <2> HIDE DEF bounds
  <2>q. QED
    BY <1>1, LeastElement
<1>3. m \in t
  <2>1. SUFFICES ASSUME m \notin t
                 PROVE  FALSE
    OBVIOUS
  <2>2. m \in Nat /\ m # 0
    <3>1. PICK y \in t : TRUE
      OBVIOUS
    <3>2. y \in 1..n /\ y <= m
      BY <3>1
    <3>q. QED
      BY <3>2
  <2>3. m - 1 \in bounds
    BY <2>1, <2>2
  <2>q. QED
    BY <1>2, <2>2, <2>3
<1>4. \E x \in t : \A y \in t : x >= y
  BY <1>3
<1>q. QED
  BY <1>4 DEF Max

\* The greatest number of the first n positions is the last of them.
LEMMA MaxOfInterval ==
    ASSUME NEW n \in Nat, n # 0
    PROVE  Max(1..n) = n /\ (1..n) \ {n} = 1..(n - 1) /\ 1..n # {}
<1>1. n \in 1..n /\ (1..n) \in SUBSET (1..n)
  OBVIOUS
<1>2. Max(1..n) \in 1..n /\ n <= Max(1..n)
  BY <1>1, MaxIs
<1>q. QED
  BY <1>2

\* What a fold from b by the steps of G is for every set of positions: the last
\* position is taken last.
Folds(X, n, b, G) ==
    {it \in [SUBSET (1..n) -> X] :
        \A t \in SUBSET (1..n) :
            it[t] = IF t = {} THEN b ELSE G[<<it[t \ {Max(t)}], Max(t)>>]}

\* The recursion of a fold has a solution: one for the first m positions gives
\* one for the first m + 1.
LEMMA FoldExists ==
    ASSUME NEW X, NEW n \in Nat, NEW b \in X, NEW G \in [X \X (1..n) -> X]
    PROVE  Folds(X, n, b, G) # {}
<1> DEFINE S == {m \in Nat : m <= n => Folds(X, m, b, G) # {}}
<1>1. 0 \in S
  <2>1. (1..0) = {} /\ SUBSET {} = {{}}
    OBVIOUS
  <2>2. [t \in SUBSET (1..0) |-> b] \in Folds(X, 0, b, G)
    BY <2>1 DEF Folds
  <2>q. QED
    BY <2>2
<1>2. ASSUME NEW m \in S
      PROVE  m + 1 \in S
  <2>1. SUFFICES ASSUME m + 1 <= n
                 PROVE  Folds(X, m + 1, b, G) # {}
    OBVIOUS
  <2>0. m \in Nat /\ m + 1 \in Nat /\ m + 1 \in 1..n
    BY <2>1
  <2>2. PICK it : it \in Folds(X, m, b, G)
    BY <2>1
  <2>3. it \in [SUBSET (1..m) -> X]
    BY <2>2 DEF Folds
  <2> DEFINE up == [t \in SUBSET (1..(m + 1)) |->
                      IF m + 1 \in t THEN G[<<it[t \ {m + 1}], m + 1>>] ELSE it[t]]
  <2>4. ASSUME NEW t \in SUBSET (1..(m + 1)), m + 1 \in t
        PROVE  /\ up[t] \in X /\ t # {} /\ Max(t) = m + 1
               /\ up[t] = G[<<up[t \ {Max(t)}], Max(t)>>]
    <3>1. t \ {m + 1} \in SUBSET (1..m) /\ t \ {m + 1} \in SUBSET (1..(m + 1))
      OBVIOUS
    <3>2. it[t \ {m + 1}] \in X /\ up[t \ {m + 1}] = it[t \ {m + 1}]
      BY <2>3, <3>1
    <3>3. Max(t) \in t /\ m + 1 <= Max(t)
      BY <2>0, <2>4, MaxIs
    <3>4. Max(t) = m + 1
      <4>1. Max(t) \in 1..(m + 1)
        BY <3>3
      <4>q. QED
        BY <2>0, <3>3, <4>1
    <3>5. <<it[t \ {m + 1}], m + 1>> \in X \X (1..n)
      BY <2>0, <3>2
    <3>6. up[t] = G[<<it[t \ {m + 1}], m + 1>>]
      BY <2>4
    <3>q. QED
      BY <2>4, <3>2, <3>4, <3>5, <3>6
  <2>5. ASSUME NEW t \in SUBSET (1..(m + 1)), m + 1 \notin t
        PROVE  /\ up[t] \in X
               /\ up[t] = IF t = {} THEN b ELSE G[<<up[t \ {Max(t)}], Max(t)>>]
    <3>1. t \in SUBSET (1..m)
      BY <2>5
    <3>2. up[t] = it[t] /\ it[t] \in X
      BY <2>3, <2>5, <3>1
    <3>3. it[t] = IF t = {} THEN b ELSE G[<<it[t \ {Max(t)}], Max(t)>>]
      BY <2>2, <3>1 DEF Folds
    <3>4. t \ {Max(t)} \in SUBSET (1..(m + 1)) /\ m + 1 \notin t \ {Max(t)}
      BY <2>5
    <3>5. up[t \ {Max(t)}] = it[t \ {Max(t)}]
      BY <3>4
    <3> HIDE DEF up
    <3>q. QED
      BY <3>2, <3>3, <3>5
  <2>6. up \in [SUBSET (1..(m + 1)) -> X]
    BY <2>4, <2>5
  <2>7. up \in Folds(X, m + 1, b, G)
    <3> HIDE DEF up
    <3>q. QED
      BY <2>4, <2>5, <2>6 DEF Folds
  <2>q. QED
    BY <2>7
<1>3. S = Nat
  <2> HIDE DEF S
  <2>0. S \in SUBSET Nat
    BY DEF S
  <2>q. QED
    BY <1>1, <1>2, <2>0, Induction
<1>q. QED
  BY <1>3

\* What holds at the start of a fold, and after each position if it held before
\* it, holds in the end.
LEMMA FoldStays ==
    ASSUME NEW n \in Nat, NEW it, NEW Inv,
           it[{}] \in Inv[0],
           \A k \in 1..n : it[1..(k - 1)] \in Inv[k - 1] => it[1..k] \in Inv[k]
    PROVE  it[1..n] \in Inv[n]
<1> DEFINE S == {k \in Nat : k <= n => it[1..k] \in Inv[k]}
<1>1. 0 \in S
  <2>1. 1..0 = {}
    OBVIOUS
  <2>q. QED
    BY <2>1
<1>2. ASSUME NEW k \in S
      PROVE  k + 1 \in S
  <2>1. k \in Nat /\ (k + 1) - 1 = k
    OBVIOUS
  <2>2. ASSUME k + 1 <= n
        PROVE  it[1..(k + 1)] \in Inv[k + 1]
    <3>1. k + 1 \in 1..n /\ it[1..k] \in Inv[k]
      BY <2>1, <2>2
    <3>q. QED
      BY <2>1, <3>1
  <2>q. QED
    BY <2>1, <2>2
<1>3. S = Nat
  <2>0. S \in SUBSET Nat
    OBVIOUS
  <2> HIDE DEF S
  <2>q. QED
    BY <1>1, <1>2, <2>0, Induction
<1>q. QED
  BY <1>3

-----------------------------------------------------------------------------
(* The parts of a sequence that are folds *)

\* Within goes through a sequence position by position.
LEMMA WithinFold ==
    ASSUME NEW S, NEW s \in Seq(S), NEW set
    PROVE  \E it : /\ Within(s, set) = it[1..Len(s)] /\ it[{}] = <<>>
                   /\ \A k \in 1..Len(s) :
                        it[1..k] = IF s[k] \in set THEN Append(it[1..(k - 1)], s[k])
                                   ELSE it[1..(k - 1)]
<1> DEFINE n == Len(s)
           Eq(it) == it = [t \in SUBSET (1..n) |->
                             IF t = {} THEN <<>>
                             ELSE IF s[Max(t)] \in set
                                  THEN Append(it[t \ {Max(t)}], s[Max(t)])
                                  ELSE it[t \ {Max(t)}]]
           G == [p \in Seq(S) \X (1..n) |->
                   IF s[p[2]] \in set THEN Append(p[1], s[p[2]]) ELSE p[1]]
           fold == CHOOSE it : Eq(it)
<1>1. DOMAIN s = 1..n /\ n \in Nat
  BY LenProperties
<1>2. Within(s, set) = fold[1..n]
  BY <1>1 DEF Within, FoldLeft, MapThenFoldSet
<1>3. G \in [Seq(S) \X (1..n) -> Seq(S)] /\ <<>> \in Seq(S)
  <2>1. \A r \in Seq(S), k \in 1..n : Append(r, s[k]) \in Seq(S)
    BY <1>1, AppendProperties, ElementOfSeq
  <2>q. QED
    BY <2>1, EmptySeq
<1>4. PICK f \in Folds(Seq(S), n, <<>>, G) : TRUE
  <2> HIDE DEF G, n
  <2>q. QED
    BY <1>1, <1>3, FoldExists
<1>5. Eq(f)
  <2>1. ASSUME NEW t \in SUBSET (1..n), t # {}
        PROVE  f[t] = IF s[Max(t)] \in set THEN Append(f[t \ {Max(t)}], s[Max(t)])
                      ELSE f[t \ {Max(t)}]
    <3>1. Max(t) \in 1..n /\ t \ {Max(t)} \in SUBSET (1..n)
      BY <1>1, <2>1, MaxIs
    <3>2. <<f[t \ {Max(t)}], Max(t)>> \in Seq(S) \X (1..n)
      BY <1>4, <3>1 DEF Folds
    <3>3. f[t] = G[<<f[t \ {Max(t)}], Max(t)>>]
      BY <1>4, <2>1 DEF Folds
    <3>q. QED
      BY <3>2, <3>3
  <2>2. f[{}] = <<>> /\ DOMAIN f = SUBSET (1..n) /\ f = [t \in SUBSET (1..n) |-> f[t]]
    BY <1>4 DEF Folds
  <2> HIDE DEF G
  <2>q. QED
    BY <2>1, <2>2
<1>6. Eq(fold)
  <2> HIDE DEF Eq
  <2>q. QED
    BY <1>5
<1>7. fold[{}] = <<>>
  BY <1>6
<1>8. ASSUME NEW k \in 1..n
      PROVE  fold[1..k] = IF s[k] \in set THEN Append(fold[1..(k - 1)], s[k])
                          ELSE fold[1..(k - 1)]
  <2>1. 1..k \in SUBSET (1..n) /\ k \in Nat /\ k # 0
    BY <1>1
  <2>2. Max(1..k) = k /\ (1..k) \ {k} = 1..(k - 1) /\ 1..k # {}
    BY <2>1, MaxOfInterval
  <2> HIDE DEF fold
  <2>q. QED
    BY <1>6, <2>1, <2>2
<1> HIDE DEF fold
<1>q. QED
  BY <1>2, <1>7, <1>8

\* Distinct positions hold distinct elements.
Distinct(s) == \A i, j \in 1..Len(s) : s[i] = s[j] => i = j

LEMMA InjectiveIsDistinct ==
    ASSUME NEW S, NEW s \in Seq(S)
    PROVE  IsInjective(s) <=> Distinct(s)
<1>1. DOMAIN s = 1..Len(s)
  BY LenProperties
<1>q. QED
  BY <1>1 DEF IsInjective, Distinct

\* Within keeps the elements of the set, all of them, and repeats none.
LEMMA WithinIs ==
    ASSUME NEW S, NEW s \in Seq(S), NEW set
    PROVE  /\ Within(s, set) \in Seq(S)
           /\ Range(Within(s, set)) = Range(s) \cap set
           /\ Len(Within(s, set)) <= Len(s)
           /\ Distinct(s) => Distinct(Within(s, set))
<1> DEFINE n == Len(s)
           Part(k) == {r \in Seq(S) :
                         /\ Len(r) <= k
                         /\ \A i \in 1..Len(r) : \E j \in 1..k : r[i] = s[j] /\ s[j] \in set
                         /\ \A j \in 1..k : s[j] \in set => s[j] \in Range(r)
                         /\ Distinct(s) => Distinct(r)}
           Inv == [k \in 0..n |-> Part(k)]
<1>0. n \in Nat
  BY LenProperties
<1>1. PICK it : /\ Within(s, set) = it[1..n] /\ it[{}] = <<>>
                /\ \A k \in 1..n :
                        it[1..k] = IF s[k] \in set THEN Append(it[1..(k - 1)], s[k])
                                   ELSE it[1..(k - 1)]
  BY WithinFold
<1>2. it[{}] \in Inv[0]
  <2>1. <<>> \in Seq(S) /\ Len(<<>>) = 0
    BY EmptySeq
  <2>q. QED
    BY <1>0, <1>1, <2>1 DEF Distinct
<1>3. ASSUME NEW k \in 1..n, it[1..(k - 1)] \in Inv[k - 1]
      PROVE  it[1..k] \in Inv[k]
  <2>0. k \in Nat /\ k - 1 \in 0..n /\ k \in 0..n /\ s[k] \in S
    BY <1>0, ElementOfSeq
  <2>1. PICK r : r = it[1..(k - 1)] /\ r \in Part(k - 1)
    BY <1>3, <2>0
  <2>2. r \in Seq(S) /\ Len(r) \in Nat /\ Len(r) <= k
    BY <2>0, <2>1, LenProperties
  <2>3. CASE s[k] \notin set
    <3>0. \A j \in 1..k : s[j] \in set => j \in 1..(k - 1)
      BY <2>0, <2>3
    <3>1. r \in Part(k)
      BY <2>0, <2>1, <2>2, <3>0
    <3>q. QED
      BY <1>1, <2>0, <2>1, <2>3, <3>1
  <2>4. CASE s[k] \in set
    <3> DEFINE a == Append(r, s[k])
    <3>1. /\ a \in Seq(S) /\ Len(a) = Len(r) + 1 /\ a[Len(r) + 1] = s[k]
          /\ \A i \in 1..Len(r) : a[i] = r[i]
      BY <2>0, <2>2, AppendProperties
    <3>0. Range(a) = Range(r) \cup {s[k]}
      BY <2>0, <2>2, RangeOfAppend
    <3> HIDE DEF a
    <3>9. \A j \in 1..k : s[j] \in set => s[j] \in Range(a)
      <4>1. \A j \in 1..k : j = k \/ j \in 1..(k - 1)
        BY <2>0
      <4>2. \A j \in 1..(k - 1) : s[j] \in set => s[j] \in Range(r)
        BY <2>1
      <4>q. QED
        BY <3>0, <4>1, <4>2
    <3>2. \A i \in 1..Len(r) : \E j \in 1..(k - 1) : a[i] = s[j] /\ s[j] \in set
      BY <2>1, <3>1
    <3>3. \A i \in 1..Len(a) : i = Len(r) + 1 \/ i \in 1..Len(r)
      BY <2>2, <3>1
    <3>4. \A i \in 1..Len(a) : \E j \in 1..k : a[i] = s[j] /\ s[j] \in set
      BY <2>0, <2>4, <3>1, <3>2, <3>3
    <3>5. ASSUME Distinct(s)
          PROVE  Distinct(a)
      <4>1. \A i \in 1..Len(r) : a[i] # s[k]
        BY <2>0, <3>2, <3>5 DEF Distinct
      <4>2. Distinct(r)
        BY <2>1, <3>5
      <4>q. QED
        BY <3>1, <3>3, <4>1, <4>2 DEF Distinct
    <3>6. Len(a) <= k
      <4>1. Len(r) <= k - 1
        BY <2>1
      <4>q. QED
        BY <2>0, <2>2, <3>1, <4>1
    <3>7. it[1..k] = a
      BY <1>1, <2>1, <2>4 DEF a
    <3>q. QED
      BY <2>0, <3>1, <3>4, <3>5, <3>6, <3>7, <3>9
  <2>q. QED
    BY <2>3, <2>4
<1>4. it[1..n] \in Inv[n]
  <2> HIDE DEF Inv, n
  <2>q. QED
    BY <1>0, <1>2, <1>3, FoldStays
<1>5. Within(s, set) \in Part(n)
  BY <1>0, <1>1, <1>4
<1>6. Range(Within(s, set)) = Range(s) \cap set
  <2>1. Within(s, set) \in Seq(S)
    BY <1>5
  <2>2. /\ Range(Within(s, set)) = {Within(s, set)[i] : i \in 1..Len(Within(s, set))}
        /\ Range(s) = {s[i] : i \in 1..n}
    BY <2>1, RangeIs
  <2>q. QED
    BY <1>5, <2>2
<1>q. QED
  BY <1>5, <1>6

\* A sequence of distinct elements is as long as it has elements.
LEMMA DistinctCount ==
    ASSUME NEW S, NEW s \in Seq(S), Distinct(s)
    PROVE  IsFiniteSet(Range(s)) /\ Cardinality(Range(s)) = Len(s)
<1>1. /\ Range(s) = {s[i] : i \in 1..Len(s)} /\ Len(s) \in Nat
      /\ DOMAIN s = 1..Len(s) /\ s \in [1..Len(s) -> S]
  BY RangeIs, LenProperties
<1>2. s \in [1..Len(s) -> Range(s)]
  BY <1>1
<1>3. s \in Bijection(1..Len(s), Range(s))
  BY <1>1, <1>2 DEF Distinct, Bijection, Injection, Surjection, IsInjective
<1>4. IsFiniteSet(1..Len(s)) /\ Cardinality(1..Len(s)) = Len(s)
  BY <1>1, FS_Interval
<1>q. QED
  BY <1>3, <1>4, FS_Bijection DEF ExistsBijection

\* Collect goes through the second sequence position by position.
LEMMA CollectFold ==
    ASSUME NEW S, NEW base \in Seq(S), NEW s \in Seq(S), NEW room
    PROVE  \E it : /\ Collect(base, s, room) = it[1..Len(s)] /\ it[{}] = base
                   /\ \A k \in 1..Len(s) :
                        it[1..k] = IF \/ s[k] \in Range(it[1..(k - 1)])
                                      \/ Len(it[1..(k - 1)]) >= room
                                   THEN it[1..(k - 1)]
                                   ELSE Append(it[1..(k - 1)], s[k])
<1> DEFINE n == Len(s)
           Eq(it) == it = [t \in SUBSET (1..n) |->
                             IF t = {} THEN base
                             ELSE IF \/ s[Max(t)] \in Range(it[t \ {Max(t)}])
                                     \/ Len(it[t \ {Max(t)}]) >= room
                                  THEN it[t \ {Max(t)}]
                                  ELSE Append(it[t \ {Max(t)}], s[Max(t)])]
           G == [p \in Seq(S) \X (1..n) |->
                   IF s[p[2]] \in Range(p[1]) \/ Len(p[1]) >= room THEN p[1]
                   ELSE Append(p[1], s[p[2]])]
           fold == CHOOSE it : Eq(it)
<1>1. DOMAIN s = 1..n /\ n \in Nat
  BY LenProperties
<1>2. Collect(base, s, room) = fold[1..n]
  BY <1>1 DEF Collect, FoldLeft, MapThenFoldSet
<1>3. G \in [Seq(S) \X (1..n) -> Seq(S)]
  <2>1. \A r \in Seq(S), k \in 1..n : Append(r, s[k]) \in Seq(S)
    BY <1>1, AppendProperties, ElementOfSeq
  <2>q. QED
    BY <2>1
<1>4. PICK f \in Folds(Seq(S), n, base, G) : TRUE
  <2> HIDE DEF G, n
  <2>q. QED
    BY <1>1, <1>3, FoldExists
<1>5. Eq(f)
  <2>1. ASSUME NEW t \in SUBSET (1..n), t # {}
        PROVE  f[t] = IF \/ s[Max(t)] \in Range(f[t \ {Max(t)}])
                         \/ Len(f[t \ {Max(t)}]) >= room
                      THEN f[t \ {Max(t)}] ELSE Append(f[t \ {Max(t)}], s[Max(t)])
    <3>1. Max(t) \in 1..n /\ t \ {Max(t)} \in SUBSET (1..n)
      BY <1>1, <2>1, MaxIs
    <3>2. <<f[t \ {Max(t)}], Max(t)>> \in Seq(S) \X (1..n)
      BY <1>4, <3>1 DEF Folds
    <3>3. f[t] = G[<<f[t \ {Max(t)}], Max(t)>>]
      BY <1>4, <2>1 DEF Folds
    <3>q. QED
      BY <3>2, <3>3
  <2>2. f[{}] = base /\ DOMAIN f = SUBSET (1..n) /\ f = [t \in SUBSET (1..n) |-> f[t]]
    BY <1>4 DEF Folds
  <2> HIDE DEF G
  <2>q. QED
    BY <2>1, <2>2
<1>6. Eq(fold)
  <2> HIDE DEF Eq
  <2>q. QED
    BY <1>5
<1>7. fold[{}] = base
  BY <1>6
<1>8. ASSUME NEW k \in 1..n
      PROVE  fold[1..k] = IF \/ s[k] \in Range(fold[1..(k - 1)])
                             \/ Len(fold[1..(k - 1)]) >= room
                          THEN fold[1..(k - 1)] ELSE Append(fold[1..(k - 1)], s[k])
  <2>1. 1..k \in SUBSET (1..n) /\ k \in Nat /\ k # 0
    BY <1>1
  <2>2. Max(1..k) = k /\ (1..k) \ {k} = 1..(k - 1) /\ 1..k # {}
    BY <2>1, MaxOfInterval
  <2> HIDE DEF fold
  <2>q. QED
    BY <1>6, <2>1, <2>2
<1> HIDE DEF fold
<1>q. QED
  BY <1>2, <1>7, <1>8

\* What was there stays, what comes in is of the second sequence and comes once,
\* and nothing is left out while there is room.
LEMMA CollectIs ==
    ASSUME NEW S, NEW base \in Seq(S), NEW s \in Seq(S), NEW room \in Nat
    PROVE  LET c == Collect(base, s, room)
           IN  /\ c \in Seq(S) /\ Len(c) <= Len(base) + Len(s)
               /\ Len(base) <= Len(c)
               /\ Range(base) \subseteq Range(c)
               /\ Range(c) \subseteq Range(base) \cup Range(s)
               /\ Len(base) <= room => Len(c) <= room
               /\ Distinct(base) => Distinct(c)
               /\ \/ Range(s) \subseteq Range(c)
                  \/ Len(c) >= room /\ Len(base) + Len(s) > room
<1> DEFINE n == Len(s)
           All(k) == {r \in Seq(S) :
                        /\ Len(r) <= Len(base) + k /\ Len(base) <= Len(r)
                        /\ Range(base) \subseteq Range(r)
                        /\ Range(r) \subseteq Range(base) \cup Range(s)
                        /\ Len(base) <= room => Len(r) <= room
                        /\ Distinct(base) => Distinct(r)
                        /\ \/ \A j \in 1..k : s[j] \in Range(r)
                           \/ Len(r) >= room /\ Len(base) + k > room}
           Inv == [k \in 0..n |-> All(k)]
<1>0. n \in Nat /\ Len(base) \in Nat
  BY LenProperties
<1>1. PICK it : /\ Collect(base, s, room) = it[1..n] /\ it[{}] = base
                /\ \A k \in 1..n :
                        it[1..k] = IF \/ s[k] \in Range(it[1..(k - 1)])
                                      \/ Len(it[1..(k - 1)]) >= room
                                   THEN it[1..(k - 1)]
                                   ELSE Append(it[1..(k - 1)], s[k])
  BY CollectFold
<1>2. it[{}] \in Inv[0]
  BY <1>0, <1>1
<1>3. ASSUME NEW k \in 1..n, it[1..(k - 1)] \in Inv[k - 1]
      PROVE  it[1..k] \in Inv[k]
  <2>0. k \in Nat /\ k - 1 \in 0..n /\ k \in 0..n /\ s[k] \in S /\ s[k] \in Range(s)
    BY <1>0, ElementOfSeq, RangeIs
  <2>1. PICK r : r = it[1..(k - 1)] /\ r \in All(k - 1)
    BY <1>3, <2>0
  <2>2. /\ r \in Seq(S) /\ Len(r) \in Nat /\ Len(r) <= Len(base) + (k - 1)
        /\ Len(base) <= Len(r)
    BY <2>1, LenProperties
  <2>3. CASE s[k] \in Range(r)
    <3>1. \A j \in 1..k : j = k \/ j \in 1..(k - 1)
      BY <2>0
    <3>2. r \in All(k)
      BY <1>0, <2>0, <2>1, <2>2, <2>3, <3>1
    <3>q. QED
      BY <1>1, <2>0, <2>1, <2>3, <3>2
  <2>4. CASE s[k] \notin Range(r) /\ Len(r) >= room
    <3>1. Len(base) + k > room
      BY <1>0, <2>0, <2>2, <2>4
    <3>2. r \in All(k)
      BY <1>0, <2>0, <2>1, <2>2, <2>4, <3>1
    <3>q. QED
      BY <1>1, <2>0, <2>1, <2>4, <3>2
  <2>5. CASE s[k] \notin Range(r) /\ ~(Len(r) >= room)
    <3> DEFINE a == Append(r, s[k])
    <3>1. /\ a \in Seq(S) /\ Len(a) = Len(r) + 1 /\ a[Len(r) + 1] = s[k]
          /\ \A i \in 1..Len(r) : a[i] = r[i]
      BY <2>0, <2>2, AppendProperties
    <3>2. Range(a) = Range(r) \cup {s[k]}
      BY <2>0, <2>2, RangeOfAppend
    <3> HIDE DEF a
    <3>3. \A j \in 1..k : s[j] \in Range(a)
      <4>1. \A j \in 1..(k - 1) : s[j] \in Range(r)
        BY <2>1, <2>5
      <4>2. \A j \in 1..k : j = k \/ j \in 1..(k - 1)
        BY <2>0
      <4>q. QED
        BY <3>2, <4>1, <4>2
    <3>4. Len(a) <= Len(base) + k /\ Len(base) <= Len(a) /\ Len(a) <= room
      BY <1>0, <2>0, <2>2, <2>5, <3>1
    <3>5. ASSUME Distinct(base)
          PROVE  Distinct(a)
      <4>1. \A i \in 1..Len(r) : r[i] \in Range(r)
        BY <2>2, RangeIs
      <4>2. Distinct(r)
        BY <2>1, <3>5
      <4>3. \A i \in 1..Len(a) : i = Len(r) + 1 \/ i \in 1..Len(r)
        BY <2>2, <3>1
      <4>q. QED
        BY <2>5, <3>1, <4>1, <4>2, <4>3 DEF Distinct
    <3>6. Range(base) \subseteq Range(a) /\ Range(a) \subseteq Range(base) \cup Range(s)
      BY <2>0, <2>1, <3>2
    <3>7. a \in All(k)
      BY <3>1, <3>3, <3>4, <3>5, <3>6
    <3>8. it[1..k] = a
      BY <1>1, <2>1, <2>5 DEF a
    <3>q. QED
      BY <2>0, <3>7, <3>8
  <2>q. QED
    BY <2>3, <2>4, <2>5
<1>4. it[1..n] \in Inv[n]
  <2> HIDE DEF Inv, n
  <2>q. QED
    BY <1>0, <1>2, <1>3, FoldStays
<1>5. Collect(base, s, room) \in All(n)
  BY <1>0, <1>1, <1>4
<1>6. Range(s) = {s[i] : i \in 1..n}
  BY RangeIs
<1>q. QED
  BY <1>5, <1>6

\* Once keeps every element, each at one place.
LEMMA OnceIs ==
    ASSUME NEW S, NEW s \in Seq(S)
    PROVE  /\ Once(s) \in Seq(S) /\ Len(Once(s)) <= Len(s)
           /\ Range(Once(s)) = Range(s) /\ Distinct(Once(s))
<1> DEFINE c == Collect(<<>>, s, Len(s))
<1>1. <<>> \in Seq(S) /\ Len(<<>>) = 0 /\ Range(<<>>) = {} /\ Distinct(<<>>)
  <2>1. <<>> \in Seq(S) /\ Len(<<>>) = 0
    BY EmptySeq
  <2>q. QED
    BY <2>1, RangeOfEmpty DEF Distinct
<1>2. Len(s) \in Nat
  BY LenProperties
<1>3. /\ c \in Seq(S) /\ Len(c) <= Len(<<>>) + Len(s)
      /\ Range(c) \subseteq Range(<<>>) \cup Range(s)
      /\ Distinct(<<>>) => Distinct(c)
      /\ \/ Range(s) \subseteq Range(c)
         \/ Len(c) >= Len(s) /\ Len(<<>>) + Len(s) > Len(s)
  BY <1>1, <1>2, CollectIs
<1> HIDE DEF c
<1>4. Range(s) \subseteq Range(c)
  BY <1>1, <1>2, <1>3
<1>q. QED
  BY <1>1, <1>2, <1>3, <1>4 DEF Once, c

\* The beginning of a sequence.
LEMMA FirstOfIs ==
    ASSUME NEW S, NEW s \in Seq(S), NEW n \in Nat
    PROVE  LET f == FirstOf(s, n)
               m == IF Len(s) < n THEN Len(s) ELSE n
           IN  /\ f \in Seq(S) /\ Len(f) = m /\ m \in 0..Len(s) /\ m <= n
               /\ \A i \in 1..m : f[i] = s[i] /\ i \in 1..Len(s)
               /\ Range(f) \subseteq Range(s)
               /\ Distinct(s) => Distinct(f)
<1> DEFINE m == IF Len(s) < n THEN Len(s) ELSE n
           f == SubSeq(s, 1, m)
<1>1. Len(s) \in Nat /\ m \in 0..Len(s) /\ m <= n
  BY LenProperties
<1>2. FirstOf(s, n) = f
  BY DEF FirstOf
<1> HIDE DEF m
<1>3. \A i \in 1..m : i \in 1..Len(s) /\ s[i] \in S
  <2>1. \A i \in 1..m : i \in 1..Len(s)
    BY <1>1
  <2>q. QED
    BY <2>1, ElementOfSeq
<1>4. f \in Seq(S) /\ Len(f) = m /\ \A i \in 1..m : f[i] = s[i]
  BY <1>1, <1>3, SubSeqProperties
<1> HIDE DEF f
<1>5. Range(f) \subseteq Range(s)
  BY <1>3, <1>4, RangeIs
<1>6. Distinct(s) => Distinct(f)
  BY <1>3, <1>4 DEF Distinct
<1>q. QED
  BY <1>1, <1>2, <1>3, <1>4, <1>5, <1>6 DEF m

-----------------------------------------------------------------------------
(* Folds, step by step *)

\* What holds at the start, and after each step if it held before it, holds in
\* the end.
LEMMA StepsStay ==
    ASSUME NEW n \in Nat, NEW f, NEW Inv, f[0] \in Inv[0],
           \A k \in 1..n : f[k - 1] \in Inv[k - 1] => f[k] \in Inv[k]
    PROVE  f[n] \in Inv[n]
<1> DEFINE S == {k \in Nat : k <= n => f[k] \in Inv[k]}
<1>1. 0 \in S
  OBVIOUS
<1>2. ASSUME NEW k \in S
      PROVE  k + 1 \in S
  <2>1. k \in Nat /\ (k + 1) - 1 = k
    OBVIOUS
  <2>2. ASSUME k + 1 <= n
        PROVE  f[k + 1] \in Inv[k + 1]
    <3>1. k + 1 \in 1..n /\ f[k] \in Inv[k]
      BY <2>1, <2>2
    <3>q. QED
      BY <2>1, <3>1
  <2>q. QED
    BY <2>1, <2>2
<1>3. S = Nat
  <2>0. S \in SUBSET Nat
    OBVIOUS
  <2> HIDE DEF S
  <2>q. QED
    BY <1>1, <1>2, <2>0, Induction
<1>q. QED
  BY <1>3

\* The concatenation grows by one sequence at a step.
LEMMA FlattenFold ==
    ASSUME NEW S, NEW ss \in Seq(Seq(S))
    PROVE  \E f \in [0..Len(ss) -> Seq(S)] :
              /\ FlattenSeq(ss) = f[Len(ss)] /\ f[0] = <<>>
              /\ \A k \in 1..Len(ss) : f[k] = f[k - 1] \o ss[k]
<1> DEFINE n == Len(ss)
           G == [p \in Seq(S) \X (1..n) |-> p[1] \o ss[p[2]]]
<1>1. n \in Nat /\ \A k \in 1..n : ss[k] \in Seq(S)
  BY LenProperties, ElementOfSeq
<1>2. G \in [Seq(S) \X (1..n) -> Seq(S)] /\ <<>> \in Seq(S)
  <2>1. \A r \in Seq(S), k \in 1..n : r \o ss[k] \in Seq(S)
    BY <1>1, ConcatProperties
  <2>q. QED
    BY <2>1, EmptySeq
<1>3. PICK g \in Folds(Seq(S), n, <<>>, G) : TRUE
  <2> HIDE DEF G, n
  <2>q. QED
    BY <1>1, <1>2, FoldExists
<1> DEFINE f == [k \in 0..n |-> g[1..k]]
<1>4. \A k \in 0..n : 1..k \in SUBSET (1..n) /\ f[k] \in Seq(S)
  BY <1>1, <1>3 DEF Folds
<1>5. f[0] = <<>>
  <2>1. 1..0 = {} /\ 0 \in 0..n
    BY <1>1
  <2>2. {} \in SUBSET (1..n)
    OBVIOUS
  <2>3. g[{}] = <<>>
    BY <1>3, <2>2 DEF Folds
  <2>q. QED
    BY <2>1, <2>3
<1>6. ASSUME NEW k \in 1..n
      PROVE  f[k] = f[k - 1] \o ss[k]
  <2>1. k \in Nat /\ k # 0 /\ k \in 0..n /\ k - 1 \in 0..n
    BY <1>1
  <2>2. Max(1..k) = k /\ (1..k) \ {k} = 1..(k - 1) /\ 1..k # {}
    BY <2>1, MaxOfInterval
  <2>3. g[1..k] = G[<<g[1..(k - 1)], k>>]
    BY <1>3, <1>4, <2>1, <2>2 DEF Folds
  <2>4. <<g[1..(k - 1)], k>> \in Seq(S) \X (1..n)
    BY <1>4, <2>1
  <2>q. QED
    BY <2>1, <2>3, <2>4
<1>7. FlattenSeq(ss) = f[n]
  <2>1. CASE n = 0
    <3>1. ss = <<>>
      BY <2>1, EmptySeq
    <3>2. FlattenSeq(ss) = ss
      BY <2>1 DEF FlattenSeq
    <3>q. QED
      BY <2>1, <1>5, <3>1, <3>2
  <2>2. CASE n # 0
    <3> DEFINE Eq(h) == h = [i \in 1..n |-> IF i = 1 THEN ss[i] ELSE h[i - 1] \o ss[i]]
               whole == CHOOSE h : Eq(h)
               h0 == [i \in 1..n |-> f[i]]
    <3>1. FlattenSeq(ss) = whole[n]
      BY <2>2 DEF FlattenSeq
    <3>2. \A i \in 1..n : h0[i] = IF i = 1 THEN ss[i] ELSE h0[i - 1] \o ss[i]
      <4>1. ASSUME NEW i \in 1..n, i # 1
            PROVE  i - 1 \in 1..n
        BY <1>1, <4>1
      <4>2. ss[1] = f[1]
        <5>1. 1 \in 1..n /\ ss[1] \in Seq(S)
          BY <1>1, <2>2
        <5> HIDE DEF f
        <5>2. f[1] = f[1 - 1] \o ss[1]
          BY <1>6, <5>1
        <5>0. 1 - 1 = 0
          OBVIOUS
        <5>3. f[1] = <<>> \o ss[1]
          BY <1>5, <5>0, <5>2, Zenon
        <5>4. <<>> \o ss[1] = ss[1]
          BY <5>1, ConcatEmptySeq
        <5>q. QED
          BY <5>3, <5>4
      <4> HIDE DEF f
      <4>q. QED
        BY <1>6, <4>1, <4>2
    <3>3. Eq(h0)
      <4> HIDE DEF f
      <4>q. QED
        BY <3>2
    <3>4. Eq(whole)
      <4> HIDE DEF Eq, h0
      <4>q. QED
        BY <3>3
    <3> DEFINE T == {k \in Nat : k + 1 <= n => whole[k + 1] = f[k + 1]}
    <3>5. \A i \in 1..n : whole[i] = IF i = 1 THEN ss[i] ELSE whole[i - 1] \o ss[i]
      <4> HIDE DEF whole
      <4>q. QED
        BY <3>4
    <3> HIDE DEF whole, f
    <3>6. 0 \in T
      <4>1. 1 \in 1..n
        BY <1>1, <2>2
      <4>2. whole[1] = ss[1] /\ f[1] = ss[1]
        BY <3>2, <3>5, <4>1
      <4>q. QED
        BY <4>2
    <3>7. ASSUME NEW k \in T
          PROVE  k + 1 \in T
      <4>1. SUFFICES ASSUME (k + 1) + 1 <= n
                     PROVE  whole[(k + 1) + 1] = f[(k + 1) + 1]
        OBVIOUS
      <4>2. /\ k \in Nat /\ k + 1 <= n /\ (k + 1) + 1 \in 1..n /\ (k + 1) + 1 # 1
            /\ ((k + 1) + 1) - 1 = k + 1 /\ whole[k + 1] = f[k + 1]
        BY <1>1, <4>1
      <4>3. f[(k + 1) + 1] = f[((k + 1) + 1) - 1] \o ss[(k + 1) + 1]
        BY <1>6, <4>2
      <4>4. whole[(k + 1) + 1] = whole[((k + 1) + 1) - 1] \o ss[(k + 1) + 1]
        BY <3>5, <4>2
      <4>q. QED
        BY <4>2, <4>3, <4>4
    <3>8. T = Nat
      <4>0. T \in SUBSET Nat
        OBVIOUS
      <4> HIDE DEF T
      <4>q. QED
        BY <3>6, <3>7, <4>0, Induction
    <3>9. n - 1 \in Nat /\ (n - 1) + 1 = n /\ n <= n
      BY <1>1, <2>2
    <3>10. n - 1 \in T
      BY <3>8, <3>9
    <3>11. whole[(n - 1) + 1] = f[(n - 1) + 1]
      BY <3>9, <3>10
    <3> HIDE DEF n
    <3>q. QED
      BY <3>1, <3>9, <3>11
  <2>q. QED
    BY <2>1, <2>2
<1>8. f \in [0..n -> Seq(S)]
  BY <1>4
<1>q. QED
  <2> HIDE DEF f
  <2>q. QED
    BY <1>5, <1>6, <1>7, <1>8

\* A concatenation holds what its parts hold.
LEMMA RangeOfConcat ==
    ASSUME NEW S, NEW s \in Seq(S), NEW t \in Seq(S)
    PROVE  Range(s \o t) = Range(s) \cup Range(t)
<1> DEFINE st == s \o t
<1>0. Len(s) \in Nat /\ Len(t) \in Nat
  BY LenProperties
<1>1. /\ st \in Seq(S) /\ Len(st) = Len(s) + Len(t)
      /\ \A i \in 1..(Len(s) + Len(t)) : st[i] = IF i <= Len(s) THEN s[i] ELSE t[i - Len(s)]
  BY ConcatProperties
<1> HIDE DEF st
<1>2. /\ Range(st) = {st[i] : i \in 1..Len(st)} /\ Range(s) = {s[i] : i \in 1..Len(s)}
      /\ Range(t) = {t[i] : i \in 1..Len(t)}
  BY <1>1, RangeIs
<1>3. ASSUME NEW i \in 1..Len(st)
      PROVE  st[i] \in Range(s) \cup Range(t)
  <2>1. CASE i <= Len(s)
    BY <1>0, <1>1, <1>2, <2>1
  <2>2. CASE ~(i <= Len(s))
    <3>1. i - Len(s) \in 1..Len(t) /\ st[i] = t[i - Len(s)]
      BY <1>0, <1>1, <2>2
    <3>q. QED
      BY <1>2, <3>1
  <2>q. QED
    BY <2>1, <2>2
<1>4. ASSUME NEW i \in 1..Len(s)
      PROVE  s[i] \in Range(st)
  <2>1. i \in 1..Len(st) /\ st[i] = s[i]
    BY <1>0, <1>1
  <2>q. QED
    BY <1>2, <2>1
<1>5. ASSUME NEW i \in 1..Len(t)
      PROVE  t[i] \in Range(st)
  <2>1. /\ i + Len(s) \in 1..Len(st) /\ ~(i + Len(s) <= Len(s))
        /\ (i + Len(s)) - Len(s) = i
    BY <1>0, <1>1
  <2>2. st[i + Len(s)] = t[i]
    BY <1>0, <1>1, <2>1
  <2>q. QED
    BY <1>2, <2>1, <2>2
<1>6. Range(st) = Range(s) \cup Range(t)
  BY <1>2, <1>3, <1>4, <1>5
<1>q. QED
  BY <1>6 DEF st
=============================================================================

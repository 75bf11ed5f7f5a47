---------------------------- MODULE Chunking_proofs --------------------------
(***************************************************************************)
(* What the chunk strategies keep, for every document.                     *)
(***************************************************************************)
EXTENDS Chunking, SequenceFacts

-----------------------------------------------------------------------------
(* The loops of the strategies, step by step: X is closed under a step that *)
(* takes an element of S                                                    *)

TakesRuns(X, S, key) == \A r \in X, e \in S : AddToRuns(key, r, e) \in X

\* Runs grow block by block.
LEMMA RunsFold ==
    ASSUME NEW X, NEW S, NEW s \in Seq(S), NEW key, <<>> \in X,
           TakesRuns(X, S, key)
    PROVE  \E f : /\ Runs(s, key) = f[Len(s)] /\ f[0] = <<>>
                  /\ \A k \in 1..Len(s) : f[k] = AddToRuns(key, f[k - 1], s[k])
<1> DEFINE n == Len(s)
           Eq(it) == it = [t \in SUBSET (1..n) |->
                             IF t = {} THEN <<>>
                             ELSE AddToRuns(key, it[t \ {Max(t)}], s[Max(t)])]
           G == [p \in X \X (1..n) |-> AddToRuns(key, p[1], s[p[2]])]
           fold == CHOOSE it : Eq(it)
<1>1. DOMAIN s = 1..n /\ n \in Nat
  BY LenProperties
<1>2. Runs(s, key) = fold[1..n]
  BY <1>1 DEF Runs, FoldLeft, MapThenFoldSet
<1>3. G \in [X \X (1..n) -> X]
  <2>1. \A r \in X, k \in 1..n : AddToRuns(key, r, s[k]) \in X
    BY <1>1, ElementOfSeq DEF TakesRuns
  <2>q. QED
    BY <2>1
<1>4. PICK h \in Folds(X, n, <<>>, G) : TRUE
  <2> HIDE DEF G, n
  <2>q. QED
    BY <1>1, <1>3, FoldExists
<1>5. Eq(h)
  <2>1. ASSUME NEW t \in SUBSET (1..n), t # {}
        PROVE  h[t] = AddToRuns(key, h[t \ {Max(t)}], s[Max(t)])
    <3>1. Max(t) \in 1..n /\ t \ {Max(t)} \in SUBSET (1..n)
      BY <1>1, <2>1, MaxIs
    <3>2. <<h[t \ {Max(t)}], Max(t)>> \in X \X (1..n)
      BY <1>4, <3>1 DEF Folds
    <3>3. h[t] = G[<<h[t \ {Max(t)}], Max(t)>>]
      BY <1>4, <2>1 DEF Folds
    <3>q. QED
      BY <3>2, <3>3
  <2>2. h[{}] = <<>> /\ DOMAIN h = SUBSET (1..n) /\ h = [t \in SUBSET (1..n) |-> h[t]]
    BY <1>4 DEF Folds
  <2> HIDE DEF G
  <2>q. QED
    BY <2>1, <2>2
<1>6. Eq(fold)
  <2> HIDE DEF Eq
  <2>q. QED
    BY <1>5
<1> DEFINE f == [k \in 0..n |-> fold[1..k]]
<1>7. f[0] = <<>>
  <2>1. 1..0 = {} /\ 0 \in 0..n /\ {} \in SUBSET (1..n)
    BY <1>1
  <2> HIDE DEF fold
  <2>2. fold[{}] = <<>>
    BY <1>6, <2>1
  <2>q. QED
    BY <2>1, <2>2
<1>8. ASSUME NEW k \in 1..n
      PROVE  f[k] = AddToRuns(key, f[k - 1], s[k])
  <2>1. 1..k \in SUBSET (1..n) /\ k \in Nat /\ k # 0 /\ k \in 0..n /\ k - 1 \in 0..n
    BY <1>1
  <2>2. Max(1..k) = k /\ (1..k) \ {k} = 1..(k - 1) /\ 1..k # {}
    BY <2>1, MaxOfInterval
  <2>3. f[k] = fold[1..k] /\ f[k - 1] = fold[1..(k - 1)]
    BY <2>1
  <2> HIDE DEF fold, f
  <2>4. fold[1..k] = AddToRuns(key, fold[1..(k - 1)], s[k])
    BY <1>6, <2>1, <2>2
  <2>q. QED
    BY <2>3, <2>4
<1>9. n \in 0..n /\ f[n] = fold[1..n]
  BY <1>1
<1> HIDE DEF fold, f
<1>q. QED
  BY <1>2, <1>7, <1>8, <1>9

TakesParts(X, S) == \A r \in X, e \in S : PackSentence(r, e) \in X
PartsFrom(base, s) == FoldLeft(PackSentence, base, s)

\* Parts grow sentence by sentence.
LEMMA PackFold ==
    ASSUME NEW X, NEW S, NEW s \in Seq(S), NEW base \in X,
           TakesParts(X, S)
    PROVE  \E f : /\ PartsFrom(base, s) = f[Len(s)] /\ f[0] = base
                  /\ \A k \in 1..Len(s) : f[k] = PackSentence(f[k - 1], s[k])
<1> DEFINE n == Len(s)
           Eq(it) == it = [t \in SUBSET (1..n) |->
                             IF t = {} THEN base
                             ELSE PackSentence(it[t \ {Max(t)}], s[Max(t)])]
           G == [p \in X \X (1..n) |-> PackSentence(p[1], s[p[2]])]
           fold == CHOOSE it : Eq(it)
<1>1. DOMAIN s = 1..n /\ n \in Nat
  BY LenProperties
<1>2. PartsFrom(base, s) = fold[1..n]
  BY <1>1 DEF PartsFrom, FoldLeft, MapThenFoldSet
<1>3. G \in [X \X (1..n) -> X]
  <2>1. \A r \in X, k \in 1..n : PackSentence(r, s[k]) \in X
    BY <1>1, ElementOfSeq DEF TakesParts
  <2>q. QED
    BY <2>1
<1>4. PICK h \in Folds(X, n, base, G) : TRUE
  <2> HIDE DEF G, n
  <2>q. QED
    BY <1>1, <1>3, FoldExists
<1>5. Eq(h)
  <2>1. ASSUME NEW t \in SUBSET (1..n), t # {}
        PROVE  h[t] = PackSentence(h[t \ {Max(t)}], s[Max(t)])
    <3>1. Max(t) \in 1..n /\ t \ {Max(t)} \in SUBSET (1..n)
      BY <1>1, <2>1, MaxIs
    <3>2. <<h[t \ {Max(t)}], Max(t)>> \in X \X (1..n)
      BY <1>4, <3>1 DEF Folds
    <3>3. h[t] = G[<<h[t \ {Max(t)}], Max(t)>>]
      BY <1>4, <2>1 DEF Folds
    <3>q. QED
      BY <3>2, <3>3
  <2>2. h[{}] = base /\ DOMAIN h = SUBSET (1..n) /\ h = [t \in SUBSET (1..n) |-> h[t]]
    BY <1>4 DEF Folds
  <2> HIDE DEF G
  <2>q. QED
    BY <2>1, <2>2
<1>6. Eq(fold)
  <2> HIDE DEF Eq
  <2>q. QED
    BY <1>5
<1> DEFINE f == [k \in 0..n |-> fold[1..k]]
<1>7. f[0] = base
  <2>1. 1..0 = {} /\ 0 \in 0..n /\ {} \in SUBSET (1..n)
    BY <1>1
  <2> HIDE DEF fold
  <2>2. fold[{}] = base
    BY <1>6, <2>1
  <2>q. QED
    BY <2>1, <2>2
<1>8. ASSUME NEW k \in 1..n
      PROVE  f[k] = PackSentence(f[k - 1], s[k])
  <2>1. 1..k \in SUBSET (1..n) /\ k \in Nat /\ k # 0 /\ k \in 0..n /\ k - 1 \in 0..n
    BY <1>1
  <2>2. Max(1..k) = k /\ (1..k) \ {k} = 1..(k - 1) /\ 1..k # {}
    BY <2>1, MaxOfInterval
  <2>3. f[k] = fold[1..k] /\ f[k - 1] = fold[1..(k - 1)]
    BY <2>1
  <2> HIDE DEF fold, f
  <2>4. fold[1..k] = PackSentence(fold[1..(k - 1)], s[k])
    BY <1>6, <2>1, <2>2
  <2>q. QED
    BY <2>3, <2>4
<1>9. n \in 0..n /\ f[n] = fold[1..n]
  BY <1>1
<1> HIDE DEF fold, f
<1>q. QED
  BY <1>2, <1>7, <1>8, <1>9

TakesUnits(X, S) == \A r \in X, e \in S : AddFragment(r, e) \in X
UnitsFrom(base, s) == FoldLeft(AddFragment, base, s)

\* Units grow fragment by fragment.
LEMMA FragmentFold ==
    ASSUME NEW X, NEW S, NEW s \in Seq(S), NEW base \in X,
           TakesUnits(X, S)
    PROVE  \E f : /\ UnitsFrom(base, s) = f[Len(s)] /\ f[0] = base
                  /\ \A k \in 1..Len(s) : f[k] = AddFragment(f[k - 1], s[k])
<1> DEFINE n == Len(s)
           Eq(it) == it = [t \in SUBSET (1..n) |->
                             IF t = {} THEN base
                             ELSE AddFragment(it[t \ {Max(t)}], s[Max(t)])]
           G == [p \in X \X (1..n) |-> AddFragment(p[1], s[p[2]])]
           fold == CHOOSE it : Eq(it)
<1>1. DOMAIN s = 1..n /\ n \in Nat
  BY LenProperties
<1>2. UnitsFrom(base, s) = fold[1..n]
  BY <1>1 DEF UnitsFrom, FoldLeft, MapThenFoldSet
<1>3. G \in [X \X (1..n) -> X]
  <2>1. \A r \in X, k \in 1..n : AddFragment(r, s[k]) \in X
    BY <1>1, ElementOfSeq DEF TakesUnits
  <2>q. QED
    BY <2>1
<1>4. PICK h \in Folds(X, n, base, G) : TRUE
  <2> HIDE DEF G, n
  <2>q. QED
    BY <1>1, <1>3, FoldExists
<1>5. Eq(h)
  <2>1. ASSUME NEW t \in SUBSET (1..n), t # {}
        PROVE  h[t] = AddFragment(h[t \ {Max(t)}], s[Max(t)])
    <3>1. Max(t) \in 1..n /\ t \ {Max(t)} \in SUBSET (1..n)
      BY <1>1, <2>1, MaxIs
    <3>2. <<h[t \ {Max(t)}], Max(t)>> \in X \X (1..n)
      BY <1>4, <3>1 DEF Folds
    <3>3. h[t] = G[<<h[t \ {Max(t)}], Max(t)>>]
      BY <1>4, <2>1 DEF Folds
    <3>q. QED
      BY <3>2, <3>3
  <2>2. h[{}] = base /\ DOMAIN h = SUBSET (1..n) /\ h = [t \in SUBSET (1..n) |-> h[t]]
    BY <1>4 DEF Folds
  <2> HIDE DEF G
  <2>q. QED
    BY <2>1, <2>2
<1>6. Eq(fold)
  <2> HIDE DEF Eq
  <2>q. QED
    BY <1>5
<1> DEFINE f == [k \in 0..n |-> fold[1..k]]
<1>7. f[0] = base
  <2>1. 1..0 = {} /\ 0 \in 0..n /\ {} \in SUBSET (1..n)
    BY <1>1
  <2> HIDE DEF fold
  <2>2. fold[{}] = base
    BY <1>6, <2>1
  <2>q. QED
    BY <2>1, <2>2
<1>8. ASSUME NEW k \in 1..n
      PROVE  f[k] = AddFragment(f[k - 1], s[k])
  <2>1. 1..k \in SUBSET (1..n) /\ k \in Nat /\ k # 0 /\ k \in 0..n /\ k - 1 \in 0..n
    BY <1>1
  <2>2. Max(1..k) = k /\ (1..k) \ {k} = 1..(k - 1) /\ 1..k # {}
    BY <2>1, MaxOfInterval
  <2>3. f[k] = fold[1..k] /\ f[k - 1] = fold[1..(k - 1)]
    BY <2>1
  <2> HIDE DEF fold, f
  <2>4. fold[1..k] = AddFragment(fold[1..(k - 1)], s[k])
    BY <1>6, <2>1, <2>2
  <2>q. QED
    BY <2>3, <2>4
<1>9. n \in 0..n /\ f[n] = fold[1..n]
  BY <1>1
<1> HIDE DEF fold, f
<1>q. QED
  BY <1>2, <1>7, <1>8, <1>9

TakesLines(X, S) == \A r \in X, e \in S : FaqLine(r, e) \in X
LinesFrom(base, s) == FoldLeft(FaqLine, base, s)

\* The machine of the FAQ reads line by line.
LEMMA LineFold ==
    ASSUME NEW X, NEW S, NEW s \in Seq(S), NEW base \in X,
           TakesLines(X, S)
    PROVE  \E f : /\ LinesFrom(base, s) = f[Len(s)] /\ f[0] = base
                  /\ \A k \in 1..Len(s) : f[k] = FaqLine(f[k - 1], s[k])
<1> DEFINE n == Len(s)
           Eq(it) == it = [t \in SUBSET (1..n) |->
                             IF t = {} THEN base
                             ELSE FaqLine(it[t \ {Max(t)}], s[Max(t)])]
           G == [p \in X \X (1..n) |-> FaqLine(p[1], s[p[2]])]
           fold == CHOOSE it : Eq(it)
<1>1. DOMAIN s = 1..n /\ n \in Nat
  BY LenProperties
<1>2. LinesFrom(base, s) = fold[1..n]
  BY <1>1 DEF LinesFrom, FoldLeft, MapThenFoldSet
<1>3. G \in [X \X (1..n) -> X]
  <2>1. \A r \in X, k \in 1..n : FaqLine(r, s[k]) \in X
    BY <1>1, ElementOfSeq DEF TakesLines
  <2>q. QED
    BY <2>1
<1>4. PICK h \in Folds(X, n, base, G) : TRUE
  <2> HIDE DEF G, n
  <2>q. QED
    BY <1>1, <1>3, FoldExists
<1>5. Eq(h)
  <2>1. ASSUME NEW t \in SUBSET (1..n), t # {}
        PROVE  h[t] = FaqLine(h[t \ {Max(t)}], s[Max(t)])
    <3>1. Max(t) \in 1..n /\ t \ {Max(t)} \in SUBSET (1..n)
      BY <1>1, <2>1, MaxIs
    <3>2. <<h[t \ {Max(t)}], Max(t)>> \in X \X (1..n)
      BY <1>4, <3>1 DEF Folds
    <3>3. h[t] = G[<<h[t \ {Max(t)}], Max(t)>>]
      BY <1>4, <2>1 DEF Folds
    <3>q. QED
      BY <3>2, <3>3
  <2>2. h[{}] = base /\ DOMAIN h = SUBSET (1..n) /\ h = [t \in SUBSET (1..n) |-> h[t]]
    BY <1>4 DEF Folds
  <2> HIDE DEF G
  <2>q. QED
    BY <2>1, <2>2
<1>6. Eq(fold)
  <2> HIDE DEF Eq
  <2>q. QED
    BY <1>5
<1> DEFINE f == [k \in 0..n |-> fold[1..k]]
<1>7. f[0] = base
  <2>1. 1..0 = {} /\ 0 \in 0..n /\ {} \in SUBSET (1..n)
    BY <1>1
  <2> HIDE DEF fold
  <2>2. fold[{}] = base
    BY <1>6, <2>1
  <2>q. QED
    BY <2>1, <2>2
<1>8. ASSUME NEW k \in 1..n
      PROVE  f[k] = FaqLine(f[k - 1], s[k])
  <2>1. 1..k \in SUBSET (1..n) /\ k \in Nat /\ k # 0 /\ k \in 0..n /\ k - 1 \in 0..n
    BY <1>1
  <2>2. Max(1..k) = k /\ (1..k) \ {k} = 1..(k - 1) /\ 1..k # {}
    BY <2>1, MaxOfInterval
  <2>3. f[k] = fold[1..k] /\ f[k - 1] = fold[1..(k - 1)]
    BY <2>1
  <2> HIDE DEF fold, f
  <2>4. fold[1..k] = FaqLine(fold[1..(k - 1)], s[k])
    BY <1>6, <2>1, <2>2
  <2>q. QED
    BY <2>3, <2>4
<1>9. n \in 0..n /\ f[n] = fold[1..n]
  BY <1>1
<1> HIDE DEF fold, f
<1>q. QED
  BY <1>2, <1>7, <1>8, <1>9

TakesBlocks(X, S) == \A r \in X, e \in S : FaqBlock(r, e) \in X
BlocksFrom(base, s) == FoldLeft(FaqBlock, base, s)

\* and block by block.
LEMMA BlockFold ==
    ASSUME NEW X, NEW S, NEW s \in Seq(S), NEW base \in X,
           TakesBlocks(X, S)
    PROVE  \E f : /\ BlocksFrom(base, s) = f[Len(s)] /\ f[0] = base
                  /\ \A k \in 1..Len(s) : f[k] = FaqBlock(f[k - 1], s[k])
<1> DEFINE n == Len(s)
           Eq(it) == it = [t \in SUBSET (1..n) |->
                             IF t = {} THEN base
                             ELSE FaqBlock(it[t \ {Max(t)}], s[Max(t)])]
           G == [p \in X \X (1..n) |-> FaqBlock(p[1], s[p[2]])]
           fold == CHOOSE it : Eq(it)
<1>1. DOMAIN s = 1..n /\ n \in Nat
  BY LenProperties
<1>2. BlocksFrom(base, s) = fold[1..n]
  BY <1>1 DEF BlocksFrom, FoldLeft, MapThenFoldSet
<1>3. G \in [X \X (1..n) -> X]
  <2>1. \A r \in X, k \in 1..n : FaqBlock(r, s[k]) \in X
    BY <1>1, ElementOfSeq DEF TakesBlocks
  <2>q. QED
    BY <2>1
<1>4. PICK h \in Folds(X, n, base, G) : TRUE
  <2> HIDE DEF G, n
  <2>q. QED
    BY <1>1, <1>3, FoldExists
<1>5. Eq(h)
  <2>1. ASSUME NEW t \in SUBSET (1..n), t # {}
        PROVE  h[t] = FaqBlock(h[t \ {Max(t)}], s[Max(t)])
    <3>1. Max(t) \in 1..n /\ t \ {Max(t)} \in SUBSET (1..n)
      BY <1>1, <2>1, MaxIs
    <3>2. <<h[t \ {Max(t)}], Max(t)>> \in X \X (1..n)
      BY <1>4, <3>1 DEF Folds
    <3>3. h[t] = G[<<h[t \ {Max(t)}], Max(t)>>]
      BY <1>4, <2>1 DEF Folds
    <3>q. QED
      BY <3>2, <3>3
  <2>2. h[{}] = base /\ DOMAIN h = SUBSET (1..n) /\ h = [t \in SUBSET (1..n) |-> h[t]]
    BY <1>4 DEF Folds
  <2> HIDE DEF G
  <2>q. QED
    BY <2>1, <2>2
<1>6. Eq(fold)
  <2> HIDE DEF Eq
  <2>q. QED
    BY <1>5
<1> DEFINE f == [k \in 0..n |-> fold[1..k]]
<1>7. f[0] = base
  <2>1. 1..0 = {} /\ 0 \in 0..n /\ {} \in SUBSET (1..n)
    BY <1>1
  <2> HIDE DEF fold
  <2>2. fold[{}] = base
    BY <1>6, <2>1
  <2>q. QED
    BY <2>1, <2>2
<1>8. ASSUME NEW k \in 1..n
      PROVE  f[k] = FaqBlock(f[k - 1], s[k])
  <2>1. 1..k \in SUBSET (1..n) /\ k \in Nat /\ k # 0 /\ k \in 0..n /\ k - 1 \in 0..n
    BY <1>1
  <2>2. Max(1..k) = k /\ (1..k) \ {k} = 1..(k - 1) /\ 1..k # {}
    BY <2>1, MaxOfInterval
  <2>3. f[k] = fold[1..k] /\ f[k - 1] = fold[1..(k - 1)]
    BY <2>1
  <2> HIDE DEF fold, f
  <2>4. fold[1..k] = FaqBlock(fold[1..(k - 1)], s[k])
    BY <1>6, <2>1, <2>2
  <2>q. QED
    BY <2>3, <2>4
<1>9. n \in 0..n /\ f[n] = fold[1..n]
  BY <1>1
<1> HIDE DEF fold, f
<1>q. QED
  BY <1>2, <1>7, <1>8, <1>9

-----------------------------------------------------------------------------
(* Documents and drafts *)

\* The lines of a document, and the blocks that may be made of them.
LinesOf(doc) ==
    {l \in [block : DOMAIN doc, pos : Nat, kind : LineKinds] :
        l.pos \in DOMAIN doc[l.block].lines /\ l.kind = doc[l.block].lines[l.pos]}

BlocksOf(doc) ==
    {b \in [ordinal : DOMAIN doc, type : {"heading", "paragraph", "list", "table"},
            path : DOMAIN SectionType, lines : Seq(LinesOf(doc)) \ {<<>>}] :
        \A l \in Range(b.lines) : l.block = b.ordinal}

Char == Nat \X Nat \X Nat

KeywordText(doc) == UNION {Chars(l) : l \in {m \in LinesOf(doc) : m.kind = "keywords"}}

Strategies == {"generic", "policy", "manual", "faq", "table"}
Ids == (Strategies \X Nat \X Nat) \cup (Strategies \X Nat \X Nat \X Nat) \cup {<<>>}

Draft == [kind : {"parent", "child", "error"}, id : Ids, parent : Ids,
          sources : SUBSET Nat, text : SUBSET Char]

\* The name of the family of a draft.
Stem(d) == <<d.id[1], d.id[2], d.id[3]>>

Parents(drafts) == {d \in Range(drafts) : d.kind = "parent"}
Children(drafts) == {d \in Range(drafts) : d.kind = "child"}

\* An exception is together with the line before it; under the policy strategy
\* every child is so.
Together(doc, text) ==
    \A l \in LinesOf(doc) :
        l.kind = "except" /\ l.pos > 1 /\ Chars(l) \cap text # {} =>
            \E m \in LinesOf(doc) : /\ m.block = l.block /\ m.pos = l.pos - 1
                                    /\ Chars(m) \subseteq text

Linked(doc, d) == d.kind = "child" /\ d.id[1] = "policy" => Together(doc, d.text)

IdsDiffer(drafts) == \A m, n \in 1..Len(drafts) : drafts[m].id = drafts[n].id => m = n

Paired(doc, drafts) ==
    /\ \A p \in Parents(drafts) : \E c \in Children(drafts) : c.parent = p.id
    /\ \A c \in Children(drafts) : \E p \in Parents(drafts) :
          /\ c.parent = p.id /\ Front(c.id) = p.id
          /\ c.text \subseteq p.text \cup KeywordText(doc)

Said(doc, drafts) ==
    (UNION {p.text : p \in Parents(drafts)})
    \cup (KeywordText(doc) \cap UNION {c.text : c \in Children(drafts)})

\* Drafts without an error are of the families in stems and keep the text.
Sound(doc, drafts, stems, text) ==
    /\ drafts \in Seq(Draft)
    /\ (\A d \in Range(drafts) : d.kind # "error") =>
          /\ IdsDiffer(drafts)
          /\ Paired(doc, drafts)
          /\ text \subseteq Said(doc, drafts)
          /\ \A d \in Range(drafts) : Stem(d) \in stems /\ Linked(doc, d)

LEMMA NoDrafts ==
    ASSUME NEW doc
    PROVE  Sound(doc, <<>>, {}, {})
<1>1. <<>> \in Seq(Draft) /\ Len(<<>>) = 0 /\ Range(<<>>) = {}
  BY EmptySeq, RangeOfEmpty
<1>q. QED
  BY <1>1 DEF Sound, IdsDiffer, Paired, Parents, Children

\* Less may be said, and of more families.
LEMMA SoundIsMonotone ==
    ASSUME NEW doc, NEW drafts, NEW stems, NEW text, Sound(doc, drafts, stems, text),
           NEW more, stems \subseteq more, NEW less, less \subseteq text
    PROVE  Sound(doc, drafts, more, less)
BY DEF Sound

\* Drafts of different families go together.
LEMMA SoundTogether ==
    ASSUME NEW doc, NEW a, NEW b, NEW H, NEW G, NEW T, NEW U,
           Sound(doc, a, H, T), Sound(doc, b, G, U), H \cap G = {}
    PROVE  Sound(doc, a \o b, H \cup G, T \cup U)
<1> DEFINE c == a \o b
<1>0. a \in Seq(Draft) /\ b \in Seq(Draft)
  BY DEF Sound
<1>1. /\ Len(a) \in Nat /\ Len(b) \in Nat
      /\ c \in Seq(Draft) /\ Len(c) = Len(a) + Len(b)
      /\ \A i \in 1..(Len(a) + Len(b)) : c[i] = IF i <= Len(a) THEN a[i] ELSE b[i - Len(a)]
  BY <1>0, ConcatProperties, LenProperties
<1>2. Range(c) = Range(a) \cup Range(b)
  BY <1>0, RangeOfConcat
<1>3. /\ Range(a) = {a[i] : i \in 1..Len(a)} /\ Range(b) = {b[i] : i \in 1..Len(b)}
  BY <1>0, RangeIs
<1> HIDE DEF c
<1>4. SUFFICES ASSUME \A d \in Range(c) : d.kind # "error"
               PROVE  /\ IdsDiffer(c) /\ Paired(doc, c) /\ T \cup U \subseteq Said(doc, c)
                      /\ \A d \in Range(c) : Stem(d) \in H \cup G /\ Linked(doc, d)
  BY <1>1 DEF Sound, c
<1>5. /\ IdsDiffer(a) /\ Paired(doc, a) /\ T \subseteq Said(doc, a)
      /\ \A d \in Range(a) : Stem(d) \in H /\ Linked(doc, d)
  BY <1>2, <1>4 DEF Sound
<1>6. /\ IdsDiffer(b) /\ Paired(doc, b) /\ U \subseteq Said(doc, b)
      /\ \A d \in Range(b) : Stem(d) \in G /\ Linked(doc, d)
  BY <1>2, <1>4 DEF Sound
<1>7. Parents(c) = Parents(a) \cup Parents(b) /\ Children(c) = Children(a) \cup Children(b)
  BY <1>2 DEF Parents, Children
<1>8. Paired(doc, c)
  BY <1>5, <1>6, <1>7 DEF Paired
<1>9. T \cup U \subseteq Said(doc, c)
  <2>1. Said(doc, a) \subseteq Said(doc, c) /\ Said(doc, b) \subseteq Said(doc, c)
    BY <1>7 DEF Said
  <2>q. QED
    BY <1>5, <1>6, <2>1
<1>10. IdsDiffer(c)
  <2>1. \A m \in 1..Len(a), n \in 1..Len(b) : a[m].id # b[n].id
    <3>1. ASSUME NEW m \in 1..Len(a), NEW n \in 1..Len(b), a[m].id = b[n].id
          PROVE  FALSE
      <4>1. Stem(a[m]) \in H /\ Stem(b[n]) \in G
        BY <1>3, <1>5, <1>6
      <4>2. Stem(a[m]) = Stem(b[n])
        BY <3>1 DEF Stem
      <4>q. QED
        BY <4>1, <4>2
    <3>q. QED
      BY <3>1
  <2>2. SUFFICES ASSUME NEW m \in 1..Len(c), NEW n \in 1..Len(c), c[m].id = c[n].id
                 PROVE  m = n
    BY DEF IdsDiffer
  <2>3. \A i \in 1..Len(c) : \/ i \in 1..Len(a) /\ c[i] = a[i]
                             \/ i - Len(a) \in 1..Len(b) /\ c[i] = b[i - Len(a)]
    BY <1>1
  <2>4. CASE m \in 1..Len(a) /\ c[m] = a[m] /\ n \in 1..Len(a) /\ c[n] = a[n]
    BY <1>5, <2>2, <2>4 DEF IdsDiffer
  <2>5. CASE /\ m - Len(a) \in 1..Len(b) /\ c[m] = b[m - Len(a)]
             /\ n - Len(a) \in 1..Len(b) /\ c[n] = b[n - Len(a)]
    <3>1. m - Len(a) = n - Len(a)
      BY <1>6, <2>2, <2>5 DEF IdsDiffer
    <3>q. QED
      BY <1>1, <3>1
  <2>q. QED
    BY <2>1, <2>2, <2>3, <2>4, <2>5
<1>q. QED
  BY <1>2, <1>5, <1>6, <1>8, <1>9, <1>10

Joined(F, n) == UNION {F[i] : i \in 1..n}

EachSound(doc, ss, H, T) ==
    /\ \A i \in 1..Len(ss) : Sound(doc, ss[i], H[i], T[i])
    /\ \A i, j \in 1..Len(ss) : i # j => H[i] \cap H[j] = {}

\* So do the drafts of any number of parts.
LEMMA SoundParts ==
    ASSUME NEW doc, NEW ss \in Seq(Seq(Draft)), NEW H, NEW T, EachSound(doc, ss, H, T)
    PROVE  Sound(doc, FlattenSeq(ss), Joined(H, Len(ss)), Joined(T, Len(ss)))
<1> DEFINE n == Len(ss)
           Stems(k) == UNION {H[i] : i \in 1..k}
           Texts(k) == UNION {T[i] : i \in 1..k}
           Inv == [k \in 0..n |-> {s \in Seq(Draft) : Sound(doc, s, Stems(k), Texts(k))}]
<1>0. n \in Nat
  BY LenProperties
<1>1. PICK f \in [0..n -> Seq(Draft)] :
         /\ FlattenSeq(ss) = f[n] /\ f[0] = <<>>
         /\ \A k \in 1..n : f[k] = f[k - 1] \o ss[k]
  BY FlattenFold
<1>2. f[0] \in Inv[0]
  <2>1. Stems(0) = {} /\ Texts(0) = {}
    OBVIOUS
  <2> HIDE DEF Stems, Texts
  <2>2. Sound(doc, <<>>, Stems(0), Texts(0)) /\ <<>> \in Seq(Draft)
    BY <2>1, NoDrafts, EmptySeq
  <2>q. QED
    BY <1>0, <1>1, <2>2
<1>3. ASSUME NEW k \in 1..n, f[k - 1] \in Inv[k - 1]
      PROVE  f[k] \in Inv[k]
  <2>0. k \in Nat /\ k - 1 \in 0..n /\ k \in 0..n /\ 1..k = (1..(k - 1)) \cup {k}
    BY <1>0
  <2>1. Stems(k) = Stems(k - 1) \cup H[k] /\ Texts(k) = Texts(k - 1) \cup T[k]
    BY <2>0
  <2>2. Stems(k - 1) \cap H[k] = {}
    <3>1. \A i \in 1..(k - 1) : i \in 1..n /\ i # k
      BY <1>0
    <3>q. QED
      BY <3>1 DEF EachSound
  <2> HIDE DEF Stems, Texts
  <2>3. Sound(doc, f[k - 1], Stems(k - 1), Texts(k - 1))
    BY <1>3, <2>0
  <2>4. Sound(doc, f[k - 1] \o ss[k], Stems(k - 1) \cup H[k], Texts(k - 1) \cup T[k])
    BY <2>2, <2>3, SoundTogether DEF EachSound
  <2>5. Sound(doc, f[k], Stems(k), Texts(k))
    BY <1>1, <2>1, <2>4
  <2>q. QED
    BY <1>1, <2>0, <2>5
<1>4. f[n] \in Inv[n]
  <2> HIDE DEF Inv, n
  <2>q. QED
    BY <1>0, <1>2, <1>3, StepsStay
<1>5. Sound(doc, f[n], Stems(n), Texts(n))
  <2> HIDE DEF Stems, Texts
  <2>q. QED
    BY <1>0, <1>4
<1>q. QED
  BY <1>1, <1>5 DEF Joined

LEMMA SaidByChildren ==
    ASSUME NEW doc, NEW drafts, NEW d \in Children(drafts)
    PROVE  d.text \cap KeywordText(doc) \subseteq Said(doc, drafts)
<1>1. d.text \subseteq UNION {c.text : c \in Children(drafts)}
  OBVIOUS
<1>q. QED
  BY <1>1 DEF Said

LEMMA FrontIs ==
    ASSUME NEW a, NEW b, NEW c, NEW d
    PROVE  Front(<<a, b, c, d>>) = <<a, b, c>>
<1> DEFINE s == <<a, b, c, d>>
<1>1. Len(s) = 4 /\ s[1] = a /\ s[2] = b /\ s[3] = c /\ s[4] = d
  OBVIOUS
<1>2. Front(s) = [i \in 1..3 |-> s[i]]
  <2>1. Front(s) = SubSeq(s, 1, 3)
    BY <1>1 DEF Front
  <2>2. s \in Seq({a, b, c, d})
    OBVIOUS
  <2> HIDE DEF s
  <2>q. QED
    BY <1>1, <2>1, <2>2, SubSeqProperties
<1> HIDE DEF s
<1>3. [i \in 1..3 |-> s[i]] = <<s[1], s[2], s[3]>>
  OBVIOUS
<1>q. QED
  BY <1>1, <1>2, <1>3 DEF s

\* A parent and children that say no more than it does, but keywords.
LEMMA FamilySound ==
    ASSUME NEW doc, NEW strategy \in Strategies, NEW ordinal \in Nat, NEW number \in Nat,
           NEW sources \in SUBSET Nat, NEW text \in SUBSET Char,
           NEW children \in Seq(SUBSET Char), children # <<>>,
           \A i \in 1..Len(children) : children[i] \subseteq text \cup KeywordText(doc),
           strategy = "policy" => \A i \in 1..Len(children) : Together(doc, children[i])
    PROVE  Sound(doc, Family(strategy, ordinal, number, sources, text, children),
                 {<<strategy, ordinal, number>>},
                 text \cup (KeywordText(doc) \cap UNION Range(children)))
<1> DEFINE id == <<strategy, ordinal, number>>
           p == [kind |-> "parent", id |-> id, parent |-> <<>>, sources |-> sources,
                 text |-> text]
           kid(i) == [kind |-> "child", id |-> <<strategy, ordinal, number, i>>, parent |-> id,
                    sources |-> sources, text |-> children[i]]
           n == Len(children)
           cs == [i \in 1..n |-> kid(i)]
           s == <<p>> \o cs
<1>0. /\ n \in Nat /\ n > 0 /\ DOMAIN children = 1..n
      /\ \A i \in 1..n : children[i] \in SUBSET Char
  BY LenProperties, ElementOfSeq, EmptySeq
<1>1. Family(strategy, ordinal, number, sources, text, children) = s
  BY <1>0 DEF Family
<1>2. p \in Draft
  BY DEF Draft, Ids
<1>3. \A i \in 1..n : kid(i) \in Draft
  BY <1>0 DEF Draft, Ids
<1>4. /\ <<p>> \in Seq(Draft) /\ Len(<<p>>) = 1 /\ <<p>>[1] = p
      /\ cs \in Seq(Draft) /\ Len(cs) = n /\ \A i \in 1..n : cs[i] = kid(i)
  <2> HIDE DEF p
  <2>1. <<p>> \in Seq(Draft) /\ Len(<<p>>) = 1 /\ <<p>>[1] = p
    BY <1>2
  <2>2. cs \in [1..n -> Draft]
    BY <1>3
  <2> HIDE DEF kid
  <2>3. cs \in Seq(Draft) /\ Len(cs) = n
    BY <1>0, <2>2, IsASeq
  <2>q. QED
    BY <2>1, <2>3
<1>5. /\ p.kind = "parent" /\ p.id = id /\ p.text = text /\ Stem(p) = id
      /\ \A i \in 1..n : /\ kid(i).kind = "child" /\ kid(i).parent = id /\ Stem(kid(i)) = id
                         /\ kid(i).text = children[i] /\ kid(i).id[1] = strategy
                         /\ Front(kid(i).id) = id
  BY FrontIs DEF Stem
<1>6. /\ \A i, j \in 1..n : kid(i).id = kid(j).id => i = j
      /\ \A i \in 1..n : kid(i).id # p.id
  OBVIOUS
<1> HIDE DEF p, kid, id
<1>7. /\ s \in Seq(Draft) /\ Len(s) = 1 + n
      /\ \A i \in 1..(1 + n) : s[i] = IF i <= 1 THEN p ELSE kid(i - 1)
  <2>1. /\ s \in Seq(Draft) /\ Len(s) = 1 + n
        /\ \A i \in 1..(1 + n) : s[i] = IF i <= 1 THEN <<p>>[i] ELSE cs[i - 1]
    BY <1>0, <1>4, ConcatProperties
  <2> HIDE DEF s, cs
  <2>2. \A i \in 1..(1 + n) : ~(i <= 1) => i - 1 \in 1..n
    BY <1>0
  <2>3. \A i \in 1..(1 + n) : i <= 1 => i = 1
    BY <1>0
  <2>q. QED
    BY <1>4, <2>1, <2>2, <2>3
<1> HIDE DEF s
<1>8. Range(s) = {p} \cup {kid(i) : i \in 1..n}
  <2>1. Range(s) = {s[i] : i \in 1..(1 + n)}
    BY <1>7, RangeIs
  <2>2. s[1] = p /\ 1 \in 1..(1 + n)
    BY <1>0, <1>7
  <2>3. \A i \in 1..n : i + 1 \in 1..(1 + n) /\ s[i + 1] = kid(i)
    <3>1. \A i \in 1..n : i + 1 \in 1..(1 + n) /\ ~(i + 1 <= 1) /\ (i + 1) - 1 = i
      BY <1>0
    <3>q. QED
      BY <1>7, <3>1
  <2>4. \A i \in 1..(1 + n) : s[i] = p \/ (i - 1 \in 1..n /\ s[i] = kid(i - 1))
    BY <1>0, <1>7
  <2>q. QED
    BY <2>1, <2>2, <2>3, <2>4
<1>9. Parents(s) = {p} /\ Children(s) = {kid(i) : i \in 1..n}
  BY <1>5, <1>8 DEF Parents, Children
<1>10. IdsDiffer(s)
  <2>1. \A i \in 1..(1 + n) : i = 1 \/ (i - 1 \in 1..n /\ s[i] = kid(i - 1))
    BY <1>0, <1>7
  <2>2. s[1] = p
    BY <1>0, <1>7
  <2>3. ASSUME NEW i \in 1..Len(s), NEW j \in 1..Len(s), s[i].id = s[j].id
        PROVE  i = j
    <3>1. CASE i = 1 \/ j = 1
      BY <1>6, <1>7, <2>1, <2>2, <2>3, <3>1
    <3>2. CASE i # 1 /\ j # 1
      <4>1. i - 1 = j - 1
        BY <1>6, <1>7, <2>1, <2>3, <3>2
      <4>q. QED
        BY <1>0, <1>7, <4>1
    <3>q. QED
      BY <3>1, <3>2
  <2>q. QED
    BY <2>3 DEF IdsDiffer
<1>11. Paired(doc, s)
  <2>1. 1 \in 1..n
    BY <1>0
  <2>q. QED
    BY <1>5, <1>9, <2>1 DEF Paired
<1>12. text \cup (KeywordText(doc) \cap UNION Range(children)) \subseteq Said(doc, s)
  <2>1. Range(children) = {children[i] : i \in 1..n}
    BY RangeIs
  <2>2. text \subseteq Said(doc, s)
    BY <1>5, <1>9 DEF Said
  <2>3. ASSUME NEW i \in 1..n
        PROVE  children[i] \cap KeywordText(doc) \subseteq Said(doc, s)
    <3>1. kid(i) \in Children(s) /\ kid(i).text = children[i]
      BY <1>5, <1>9
    <3>q. QED
      BY <3>1, SaidByChildren
  <2>q. QED
    BY <2>1, <2>2, <2>3
<1>13. \A d \in Range(s) : Stem(d) \in {id} /\ Linked(doc, d)
  BY <1>5, <1>8 DEF Linked
<1>q. QED
  BY <1>1, <1>7, <1>10, <1>11, <1>12, <1>13 DEF Sound, id

-----------------------------------------------------------------------------
(* Blocks and their text *)

LEMMA LineLengthIs ==
    ASSUME NEW kind
    PROVE  LineLength(kind) \in Nat /\ LineLength(kind) > 0
BY ChunkingAssumption DEF LineLength

\* The characters of a line say which line it is.
LEMMA CharsAre ==
    ASSUME NEW doc \in Seq(SourceBlock), NEW l \in LinesOf(doc)
    PROVE  /\ Chars(l) \in SUBSET Char /\ Chars(l) # {}
           /\ \A c \in Chars(l) : c[1] = l.block /\ c[2] = l.pos
           /\ l.block \in Nat /\ l.pos \in Nat
<1>1. l.block \in Nat /\ l.pos \in Nat
  <2>1. DOMAIN doc = 1..Len(doc) /\ Len(doc) \in Nat
    BY LenProperties
  <2>q. QED
    BY <2>1 DEF LinesOf
<1>2. LineLength(l.kind) \in Nat /\ 1 \in 1..LineLength(l.kind)
  BY LineLengthIs
<1>3. <<l.block, l.pos, 1>> \in Chars(l)
  BY <1>2 DEF Chars
<1>4. Chars(l) \in SUBSET Char
  BY <1>1, <1>2 DEF Chars, Char
<1>5. \A c \in Chars(l) : c[1] = l.block /\ c[2] = l.pos
  BY DEF Chars
<1>q. QED
  BY <1>1, <1>3, <1>4, <1>5

\* Two lines that share a character are the same line.
LEMMA CharsDiffer ==
    ASSUME NEW doc \in Seq(SourceBlock), NEW l \in LinesOf(doc), NEW m \in LinesOf(doc),
           Chars(l) \cap Chars(m) # {}
    PROVE  l = m
<1>1. l.block = m.block /\ l.pos = m.pos
  BY CharsAre
<1>2. l.kind = m.kind
  BY <1>1 DEF LinesOf
<1>3. /\ l = [block |-> l.block, pos |-> l.pos, kind |-> l.kind]
      /\ m = [block |-> m.block, pos |-> m.pos, kind |-> m.kind]
  BY DEF LinesOf
<1>q. QED
  BY <1>1, <1>2, <1>3

LEMMA TextIs ==
    ASSUME NEW doc \in Seq(SourceBlock), NEW lines \in Seq(LinesOf(doc))
    PROVE  /\ Text(lines) \in SUBSET Char
           /\ \A i \in 1..Len(lines) : Chars(lines[i]) \subseteq Text(lines)
           /\ Text(lines) = UNION {Chars(lines[i]) : i \in 1..Len(lines)}
           /\ Text(lines) = UNION {Chars(l) : l \in Range(lines)}
<1>1. /\ DOMAIN lines = 1..Len(lines) /\ Range(lines) = {lines[i] : i \in 1..Len(lines)}
      /\ \A i \in 1..Len(lines) : lines[i] \in LinesOf(doc)
  BY LenProperties, RangeIs, ElementOfSeq
<1>2. \A i \in 1..Len(lines) : Chars(lines[i]) \in SUBSET Char
  BY <1>1, CharsAre
<1>q. QED
  BY <1>1, <1>2 DEF Text

\* The ordinals differ.
Apart(blocks) ==
    \A i, j \in 1..Len(blocks) : blocks[i].ordinal = blocks[j].ordinal => i = j

\* The text under the headings.
BodyOf(blocks) == UNION {Text(b.lines) : b \in {c \in Range(blocks) : c.type # "heading"}}

\* The names the strategies in K may give to families of some blocks.
StemsOf(K, blocks) == K \X Sources(blocks) \X Nat

LEMMA BlocksAre ==
    ASSUME NEW doc \in Seq(SourceBlock), NEW blocks \in Seq(BlocksOf(doc))
    PROVE  /\ DOMAIN blocks = 1..Len(blocks) /\ Len(blocks) \in Nat
           /\ Range(blocks) = {blocks[i] : i \in 1..Len(blocks)}
           /\ Sources(blocks) = {blocks[i].ordinal : i \in 1..Len(blocks)}
           /\ Sources(blocks) = {b.ordinal : b \in Range(blocks)}
           /\ TextOf(blocks) = UNION {Text(b.lines) : b \in Range(blocks)}
           /\ Sources(blocks) \in SUBSET Nat
           /\ TextOf(blocks) = UNION {Text(blocks[i].lines) : i \in 1..Len(blocks)}
           /\ TextOf(blocks) \in SUBSET Char
           /\ \A i \in 1..Len(blocks) :
                 /\ blocks[i] \in BlocksOf(doc) /\ blocks[i].ordinal \in Nat
                 /\ blocks[i].lines \in Seq(LinesOf(doc)) /\ blocks[i].lines # <<>>
                 /\ Text(blocks[i].lines) \subseteq TextOf(blocks)
                 /\ \A l \in Range(blocks[i].lines) : l.block = blocks[i].ordinal
<1>1. /\ DOMAIN blocks = 1..Len(blocks) /\ Len(blocks) \in Nat
      /\ Range(blocks) = {blocks[i] : i \in 1..Len(blocks)}
      /\ \A i \in 1..Len(blocks) : blocks[i] \in BlocksOf(doc)
  BY LenProperties, RangeIs, ElementOfSeq
<1>2. DOMAIN doc \subseteq Nat
  BY LenProperties
<1>3. \A i \in 1..Len(blocks) :
         /\ blocks[i].ordinal \in Nat
         /\ blocks[i].lines \in Seq(LinesOf(doc)) /\ blocks[i].lines # <<>>
         /\ \A l \in Range(blocks[i].lines) : l.block = blocks[i].ordinal
  BY <1>1, <1>2 DEF BlocksOf
<1>4. \A i \in 1..Len(blocks) : Text(blocks[i].lines) \in SUBSET Char
  BY <1>3, TextIs
<1>5. Sources(blocks) = {blocks[i].ordinal : i \in 1..Len(blocks)}
  BY <1>1 DEF Sources
<1>6. TextOf(blocks) = UNION {Text(blocks[i].lines) : i \in 1..Len(blocks)}
  BY <1>1 DEF TextOf
<1>7. Sources(blocks) = {b.ordinal : b \in Range(blocks)}
  BY <1>1, <1>5
<1>8. TextOf(blocks) = UNION {Text(b.lines) : b \in Range(blocks)}
  BY <1>1, <1>6
<1>q. QED
  BY <1>1, <1>3, <1>4, <1>5, <1>6, <1>7, <1>8

-----------------------------------------------------------------------------
(* Runs *)

\* Runs that share nothing and repeat nothing.
Disjoint(runs) ==
    /\ \A i \in 1..Len(runs) : runs[i] # <<>> /\ Distinct(runs[i])
    /\ \A i, j \in 1..Len(runs) : i # j => Range(runs[i]) \cap Range(runs[j]) = {}

AllOf(runs) == UNION {Range(runs[i]) : i \in 1..Len(runs)}

Longer(S, runs, b, new) ==
    \E n \in Nat, r \in Seq(S) :
        /\ Len(new) = n /\ n > 0 /\ new[n] = Append(r, b)
        /\ \/ Len(runs) = n /\ r = runs[n]
           \/ Len(runs) = n - 1 /\ r = <<>>
        /\ \A i \in 1..(n - 1) : new[i] = runs[i] /\ i \in 1..Len(runs)

\* A block continues the last run or starts the next one.
LEMMA AddToRunsIs ==
    ASSUME NEW S, NEW key, NEW runs \in Seq(Seq(S)), NEW b \in S,
           NEW new, new = AddToRuns(key, runs, b)
    PROVE  new \in Seq(Seq(S)) /\ Longer(S, runs, b, new)
<1>0. /\ Len(runs) \in Nat /\ runs \in [1..Len(runs) -> Seq(S)]
      /\ \A i \in 1..Len(runs) : runs[i] \in Seq(S)
  BY LenProperties, ElementOfSeq
<1>1. CASE runs # <<>> /\ key[Last(Last(runs))] = key[b]
  <2> DEFINE n == Len(runs)
  <2>1. new = [runs EXCEPT ![n] = Append(@, b)]
    BY <1>1 DEF AddToRuns
  <2>0. n \in Nat /\ n # 0
    BY <1>0, <1>1, EmptySeq
  <2>2. n \in Nat /\ n > 0 /\ n \in 1..n /\ \A i \in 1..(n - 1) : i \in 1..n /\ i # n
    BY <2>0
  <2>3. runs[n] \in Seq(S) /\ Append(runs[n], b) \in Seq(S)
    BY <1>0, <2>2, AppendProperties
  <2>4. new \in Seq(Seq(S)) /\ Len(new) = n
    BY <2>1, <2>2, <2>3, ExceptSeq
  <2>5. new[n] = Append(runs[n], b)
    BY <1>0, <2>1, <2>2
  <2>6. \A i \in 1..(n - 1) : new[i] = runs[i]
    BY <1>0, <2>1, <2>2
  <2> HIDE DEF n
  <2>7. Len(runs) = n
    BY DEF n
  <2>q. QED
    BY <2>2, <2>3, <2>4, <2>5, <2>6, <2>7 DEF Longer
<1>2. CASE ~(runs # <<>> /\ key[Last(Last(runs))] = key[b])
  <2> DEFINE n == Len(runs) + 1
  <2>1. new = Append(runs, <<b>>)
    BY <1>2 DEF AddToRuns
  <2>2. <<b>> \in Seq(S) /\ <<>> \in Seq(S) /\ <<b>> = Append(<<>>, b)
    BY EmptySeq
  <2>3. /\ new \in Seq(Seq(S)) /\ Len(new) = n /\ new[n] = <<b>>
        /\ \A i \in 1..Len(runs) : new[i] = runs[i]
    BY <2>1, <2>2, AppendProperties
  <2>4. n \in Nat /\ n > 0 /\ Len(runs) = n - 1
    BY <1>0
  <2> HIDE DEF n
  <2>5. new[n] = Append(<<>>, b)
    BY <2>2, <2>3
  <2>q. QED
    BY <2>2, <2>3, <2>4, <2>5 DEF Longer
<1>q. QED
  BY <1>1, <1>2

\* Appending what was not there repeats nothing.
LEMMA AppendIsDistinct ==
    ASSUME NEW S, NEW s \in Seq(S), NEW x \in S, Distinct(s), x \notin Range(s)
    PROVE  Distinct(Append(s, x)) /\ Append(s, x) # <<>>
<1>1. /\ Len(Append(s, x)) = Len(s) + 1 /\ Len(s) \in Nat
      /\ \A i \in 1..Len(s) : Append(s, x)[i] = s[i] /\ s[i] \in Range(s)
      /\ Append(s, x)[Len(s) + 1] = x
  BY RangeIs, AppendProperties
<1>2. Append(s, x) # <<>>
  BY <1>1, RangeOfEmpty
<1>q. QED
  BY <1>1, <1>2 DEF Distinct

\* The runs are a partition.
LEMMA RunsAre ==
    ASSUME NEW S, NEW s \in Seq(S), NEW key, Distinct(s)
    PROVE  LET runs == Runs(s, key)
           IN  runs \in Seq(Seq(S)) /\ Disjoint(runs) /\ AllOf(runs) = Range(s)
<1> DEFINE n == Len(s)
           Inv == [k \in 0..n |-> {r \in Seq(Seq(S)) :
                                     Disjoint(r) /\ AllOf(r) = {s[i] : i \in 1..k}}]
<1>0. n \in Nat /\ \A k \in 1..n : s[k] \in S
  BY LenProperties, ElementOfSeq
<1>1. \A r \in Seq(Seq(S)), e \in S : AddToRuns(key, r, e) \in Seq(Seq(S))
  BY AddToRunsIs
<1>2. PICK f : /\ Runs(s, key) = f[Len(s)] /\ f[0] = <<>>
               /\ \A k \in 1..Len(s) : f[k] = AddToRuns(key, f[k - 1], s[k])
  <2> DEFINE X == Seq(Seq(S))
  <2>1. <<>> \in X /\ TakesRuns(X, S, key)
    BY <1>1, EmptySeq DEF TakesRuns
  <2> HIDE DEF X
  <2>q. QED
    BY <2>1, RunsFold
<1>3. f[0] \in Inv[0]
  <2>1. <<>> \in Seq(Seq(S)) /\ Disjoint(<<>>) /\ AllOf(<<>>) = {}
    BY EmptySeq, RangeOfEmpty DEF Disjoint, AllOf
  <2>2. {s[i] : i \in 1..0} = {} /\ 0 \in 0..n
    BY <1>0
  <2>q. QED
    BY <1>2, <2>1, <2>2
<1>4. ASSUME NEW k \in 1..n, f[k - 1] \in Inv[k - 1]
      PROVE  f[k] \in Inv[k]
  <2> DEFINE old == f[k - 1]
             b == s[k]
             new == AddToRuns(key, old, b)
  <2>0. k \in 0..n /\ k - 1 \in 0..n /\ k \in Nat /\ b \in S /\ f[k] = new
    BY <1>0, <1>2
  <2>1. /\ old \in Seq(Seq(S)) /\ Disjoint(old)
        /\ AllOf(old) = {s[i] : i \in 1..(k - 1)}
    BY <1>4, <2>0
  <2>2. b \notin AllOf(old)
    <3>1. \A i \in 1..(k - 1) : i \in 1..n /\ i # k
      BY <1>0
    <3>q. QED
      BY <2>1, <3>1 DEF Distinct
  <2>3. {s[i] : i \in 1..k} = AllOf(old) \cup {b}
    BY <2>0, <2>1
  <2> HIDE DEF b, old
  <2> HIDE DEF new
  <2>11. new = AddToRuns(key, old, b)
    BY DEF new
  <2>13. old \in Seq(Seq(S)) /\ b \in S
    BY <2>0, <2>1
  <2>12. new \in Seq(Seq(S)) /\ Longer(S, old, b, new)
    BY <2>11, <2>13, AddToRunsIs
  <2>4. PICK m \in Nat, r \in Seq(S) :
                  /\ Len(new) = m /\ m > 0 /\ new[m] = Append(r, b)
                  /\ \/ Len(old) = m /\ r = old[m]
                     \/ Len(old) = m - 1 /\ r = <<>>
                  /\ \A i \in 1..(m - 1) : new[i] = old[i] /\ i \in 1..Len(old)
    BY <2>12 DEF Longer
  <2>5. Distinct(r) /\ b \notin Range(r) /\ Range(r) \subseteq AllOf(old)
    <3>1. CASE Len(old) = m /\ r = old[m]
      BY <2>1, <2>2, <2>4, <3>1 DEF Disjoint, AllOf
    <3>2. CASE Len(old) = m - 1 /\ r = <<>>
      BY <3>2, RangeOfEmpty DEF Distinct
    <3>q. QED
      BY <2>4, <3>1, <3>2
  <2>6. Distinct(new[m]) /\ new[m] # <<>> /\ Range(new[m]) = Range(r) \cup {b}
    BY <2>0, <2>4, <2>5, AppendIsDistinct, RangeOfAppend
  <2>7. \A i \in 1..(m - 1) : Range(new[i]) \subseteq AllOf(old)
                              /\ Range(new[i]) \cap Range(r) = {}
    <3>1. ASSUME NEW i \in 1..(m - 1)
          PROVE  Range(old[i]) \subseteq AllOf(old) /\ Range(old[i]) \cap Range(r) = {}
      <4>1. i \in 1..Len(old) /\ i # m
        BY <2>4
      <4>2. CASE Len(old) = m /\ r = old[m]
        BY <2>1, <2>4, <4>1, <4>2 DEF Disjoint, AllOf
      <4>3. CASE Len(old) = m - 1 /\ r = <<>>
        BY <4>1, <4>3, RangeOfEmpty DEF AllOf
      <4>q. QED
        BY <2>4, <4>2, <4>3
    <3>q. QED
      BY <2>4, <3>1
  <2>8. \A i \in 1..m : i = m \/ i \in 1..(m - 1)
    BY <2>4
  <2>9. Disjoint(new)
    <3>1. \A i \in 1..m : new[i] # <<>> /\ Distinct(new[i])
      BY <2>1, <2>4, <2>6, <2>8 DEF Disjoint
    <3>2. ASSUME NEW i \in 1..(m - 1)
          PROVE  Range(new[i]) \cap Range(new[m]) = {}
      BY <2>2, <2>6, <2>7
    <3>3. ASSUME NEW i \in 1..(m - 1), NEW j \in 1..(m - 1), i # j
          PROVE  Range(new[i]) \cap Range(new[j]) = {}
      BY <2>1, <2>4, <3>3 DEF Disjoint
    <3>q. QED
      BY <2>4, <2>8, <3>1, <3>2, <3>3 DEF Disjoint
  <2>10. AllOf(new) = AllOf(old) \cup {b}
    <3>1. m \in 1..m /\ \A i \in 1..(m - 1) : i \in 1..m
      BY <2>4
    <3>2. AllOf(new) \subseteq AllOf(old) \cup {b}
      BY <2>4, <2>5, <2>6, <2>7, <2>8 DEF AllOf
    <3>3. ASSUME NEW i \in 1..Len(old)
          PROVE  Range(old[i]) \subseteq AllOf(new)
      <4>1. CASE i \in 1..(m - 1)
        BY <2>4, <3>1, <4>1 DEF AllOf
      <4>2. CASE i \notin 1..(m - 1)
        <5>1. Len(old) = m /\ i = m /\ r = old[i]
          BY <2>4, <4>2
        <5>q. QED
          BY <2>4, <2>6, <3>1, <5>1 DEF AllOf
      <4>q. QED
        BY <4>1, <4>2
    <3>4. b \in AllOf(new)
      BY <2>4, <2>6, <3>1 DEF AllOf
    <3>5. AllOf(old) \subseteq AllOf(new)
      BY <3>3 DEF AllOf
    <3>q. QED
      BY <3>2, <3>4, <3>5
  <2>q. QED
    BY <2>0, <2>3, <2>9, <2>10, <2>12
<1>5. f[n] \in Inv[n]
  <2> HIDE DEF Inv, n
  <2>q. QED
    BY <1>0, <1>3, <1>4, StepsStay
<1>6. Range(s) = {s[i] : i \in 1..n}
  BY RangeIs
<1>q. QED
  BY <1>0, <1>2, <1>5, <1>6

\* Blocks are apart when none is repeated and their ordinals name them.
LEMMA ApartIs ==
    ASSUME NEW doc \in Seq(SourceBlock), NEW blocks \in Seq(BlocksOf(doc))
    PROVE  Apart(blocks) <=> /\ Distinct(blocks)
                             /\ \A b, c \in Range(blocks) : b.ordinal = c.ordinal => b = c
<1>1. Range(blocks) = {blocks[i] : i \in 1..Len(blocks)}
  BY BlocksAre
<1>q. QED
  BY <1>1 DEF Apart, Distinct

\* What a part of the blocks has of them.
LEMMA PartOfBlocks ==
    ASSUME NEW doc \in Seq(SourceBlock), NEW blocks \in Seq(BlocksOf(doc)), Apart(blocks), NEW K,
           NEW part \in Seq(BlocksOf(doc)), Distinct(part), Range(part) \subseteq Range(blocks)
    PROVE  /\ Apart(part)
           /\ Sources(part) \subseteq Sources(blocks)
           /\ StemsOf(K, part) \subseteq StemsOf(K, blocks)
           /\ BodyOf(part) \subseteq BodyOf(blocks)
<1>1. Apart(part)
  BY ApartIs
<1>2. /\ Sources(part) = {b.ordinal : b \in Range(part)}
      /\ Sources(blocks) = {b.ordinal : b \in Range(blocks)}
  BY BlocksAre
<1>3. Sources(part) \subseteq Sources(blocks)
  BY <1>2
<1>4. StemsOf(K, part) \subseteq StemsOf(K, blocks)
  BY <1>3 DEF StemsOf
<1>5. BodyOf(part) \subseteq BodyOf(blocks)
  BY DEF BodyOf
<1>q. QED
  BY <1>1, <1>3, <1>4, <1>5

\* Content leaves out the headings, and no text under them.
LEMMA ContentIs ==
    ASSUME NEW doc \in Seq(SourceBlock), NEW blocks \in Seq(BlocksOf(doc)), Apart(blocks),
           NEW K
    PROVE  LET content == Content(blocks)
           IN  /\ content \in Seq(BlocksOf(doc)) /\ Apart(content)
               /\ StemsOf(K, content) \subseteq StemsOf(K, blocks)
               /\ BodyOf(content) = BodyOf(blocks) /\ BodyOf(blocks) = TextOf(content)
<1> DEFINE c == Content(blocks)
           bodies == {b \in Range(blocks) : b.type # "heading"}
<1>1. c \in Seq(BlocksOf(doc)) /\ Range(c) = Range(blocks) \cap bodies /\ Distinct(c)
  <2>1. Distinct(blocks)
    BY ApartIs
  <2>q. QED
    BY <2>1, WithinIs DEF Content
<1> HIDE DEF c
<1>2. Range(c) = bodies
  BY <1>1
<1>3. Apart(c) /\ StemsOf(K, c) \subseteq StemsOf(K, blocks)
  BY <1>1, PartOfBlocks
<1>4. BodyOf(blocks) = UNION {Text(b.lines) : b \in bodies}
  BY DEF BodyOf
<1>5. {b \in Range(c) : b.type # "heading"} = bodies
  BY <1>2
<1> HIDE DEF bodies
<1>6. BodyOf(c) = UNION {Text(b.lines) : b \in bodies}
  BY <1>5 DEF BodyOf
<1>7. TextOf(c) = UNION {Text(b.lines) : b \in Range(c)}
  BY <1>1, BlocksAre
<1>q. QED
  BY <1>1, <1>2, <1>3, <1>4, <1>6, <1>7 DEF c

\* The runs of blocks that are apart are so.
LEMMA RunsApart ==
    ASSUME NEW doc \in Seq(SourceBlock), NEW blocks \in Seq(BlocksOf(doc)), Apart(blocks), NEW K,
           NEW runs \in Seq(Seq(BlocksOf(doc))), Disjoint(runs), AllOf(runs) = Range(blocks)
    PROVE  /\ DOMAIN runs = 1..Len(runs)
           /\ \A i \in 1..Len(runs) : /\ Apart(runs[i]) /\ runs[i] \in Seq(BlocksOf(doc))
                                      /\ StemsOf(K, runs[i]) \subseteq StemsOf(K, blocks)
                                      /\ runs[i] # <<>> /\ Range(runs[i]) \subseteq Range(blocks)
<1>1. DOMAIN runs = 1..Len(runs) /\ \A i \in 1..Len(runs) : runs[i] \in Seq(BlocksOf(doc))
  BY LenProperties, ElementOfSeq
<1>2. \A i \in 1..Len(runs) : /\ Distinct(runs[i]) /\ runs[i] # <<>>
                               /\ Range(runs[i]) \subseteq Range(blocks)
  BY DEF Disjoint, AllOf
<1>q. QED
  BY <1>1, <1>2, PartOfBlocks

\* The drafts of the runs make the drafts of the blocks.
LEMMA SoundRuns ==
    ASSUME NEW doc \in Seq(SourceBlock), NEW blocks \in Seq(BlocksOf(doc)), Apart(blocks), NEW K,
           NEW runs \in Seq(Seq(BlocksOf(doc))), Disjoint(runs), AllOf(runs) = Range(blocks),
           NEW D \in [DOMAIN runs -> Seq(Draft)],
           \A i \in 1..Len(runs) :
              Apart(runs[i]) => Sound(doc, D[i], StemsOf(K, runs[i]), BodyOf(runs[i]))
    PROVE  Sound(doc, FlattenSeq(D), StemsOf(K, blocks), BodyOf(blocks))
<1> DEFINE n == Len(runs)
           H == [i \in 1..n |-> StemsOf(K, runs[i])]
           T == [i \in 1..n |-> BodyOf(runs[i])]
<1>1. n \in Nat /\ DOMAIN runs = 1..n /\ \A i \in 1..n : runs[i] \in Seq(BlocksOf(doc))
  BY LenProperties, ElementOfSeq
<1>2. D \in Seq(Seq(Draft)) /\ Len(D) = n
  <2> HIDE DEF n
  <2>1. D \in [1..n -> Seq(Draft)]
    BY <1>1
  <2>q. QED
    BY <1>1, <2>1, IsASeq
<1>3. \A i \in 1..n : Distinct(runs[i]) /\ Range(runs[i]) \subseteq Range(blocks)
  BY DEF Disjoint, AllOf
<1>4. \A i \in 1..n : /\ Apart(runs[i])
                      /\ StemsOf(K, runs[i]) \subseteq StemsOf(K, blocks)
  BY <1>1, <1>3, PartOfBlocks
<1>5. \A i \in 1..n : Sound(doc, D[i], H[i], T[i])
  BY <1>4
<1>6. ASSUME NEW i \in 1..n, NEW j \in 1..n, i # j
      PROVE  H[i] \cap H[j] = {}
  <2>1. Range(runs[i]) \cap Range(runs[j]) = {}
    BY <1>6 DEF Disjoint
  <2>2. \A b, c \in Range(blocks) : b.ordinal = c.ordinal => b = c
    BY ApartIs
  <2>3. /\ Sources(runs[i]) = {b.ordinal : b \in Range(runs[i])}
        /\ Sources(runs[j]) = {b.ordinal : b \in Range(runs[j])}
    BY <1>1, BlocksAre
  <2>4. ASSUME NEW b \in Range(runs[i]), NEW c \in Range(runs[j])
        PROVE  b.ordinal # c.ordinal
    BY <1>3, <2>1, <2>2
  <2>5. Sources(runs[i]) \cap Sources(runs[j]) = {}
    BY <2>3, <2>4
  <2>q. QED
    BY <2>5 DEF StemsOf
<1>7. Joined(H, n) \subseteq StemsOf(K, blocks)
  BY <1>4 DEF Joined
<1>8. BodyOf(blocks) \subseteq Joined(T, n)
  <2>1. \A b \in Range(blocks) : \E i \in 1..n : b \in Range(runs[i])
    BY DEF AllOf
  <2>2. ASSUME NEW b \in Range(blocks), b.type # "heading"
        PROVE  Text(b.lines) \subseteq Joined(T, n)
    <3>1. PICK i \in 1..n : b \in Range(runs[i])
      BY <2>1
    <3>2. Text(b.lines) \subseteq BodyOf(runs[i])
      BY <2>2, <3>1 DEF BodyOf
    <3>q. QED
      BY <3>2 DEF Joined
  <2> HIDE DEF T
  <2>q. QED
    BY <2>2 DEF BodyOf
<1> HIDE DEF H, T, n
<1>10. EachSound(doc, D, H, T)
  BY <1>2, <1>5, <1>6 DEF EachSound
<1>9. Sound(doc, FlattenSeq(D), Joined(H, n), Joined(T, n))
  BY <1>2, <1>10, SoundParts
<1>q. QED
  BY <1>7, <1>8, <1>9, SoundIsMonotone

-----------------------------------------------------------------------------
(* GenericChunkStrategy *)

\* The state of the packing, and whether there is something in it.
Packing(U) == [parts : Seq(SUBSET U), current : SUBSET U]
Begun(s) == s.parts # <<>> \/ s.current # {}

LEMMA ClosePartIs ==
    ASSUME NEW U, NEW s \in Packing(U)
    PROVE  ClosePart(s) \in Seq(SUBSET U) /\ (Begun(s) => ClosePart(s) # <<>>)
<1>1. s.parts \in Seq(SUBSET U) /\ s.current \in SUBSET U
  BY DEF Packing
<1>2. /\ Append(s.parts, s.current) \in Seq(SUBSET U)
      /\ Len(Append(s.parts, s.current)) = Len(s.parts) + 1 /\ Len(s.parts) \in Nat
  BY <1>1, AppendProperties, LenProperties
<1>3. Append(s.parts, s.current) # <<>>
  BY <1>2, RangeOfEmpty
<1>q. QED
  BY <1>1, <1>2, <1>3 DEF ClosePart, Begun

LEMMA QuotientIsNatural ==
    ASSUME NEW a \in Nat, NEW b \in Nat, b > 0
    PROVE  a \div b \in Nat
OBVIOUS

\* A long line has windows.
LEMMA WindowsAre ==
    ASSUME NEW U, NEW line, Chars(line) \subseteq U, LineLength(line.kind) > ChildMaxChars
    PROVE  Windows(line) \in Seq(SUBSET U) /\ Windows(line) # <<>>
<1> DEFINE step == ChildMaxChars - ChildOverlapChars
           rest == LineLength(line.kind) - ChildMaxChars
           count == 1 + (rest + step - 1) \div step
           part(i) == {char \in Chars(line) : char[3] - (i - 1) * step \in 1..ChildMaxChars}
           w == [i \in 1..count |-> part(i)]
<1>1. step \in Nat /\ step > 0 /\ rest + step - 1 \in Nat
  BY ChunkingAssumption, LineLengthIs
<1> HIDE DEF step, rest
<1>2. (rest + step - 1) \div step \in Nat
  BY <1>1, QuotientIsNatural
<1>3. count \in Nat /\ count > 0
  BY <1>2
<1>4. Windows(line) = w
  BY DEF Windows, step, rest
<1> HIDE DEF count
<1>5. w \in [1..count -> SUBSET U]
  OBVIOUS
<1> HIDE DEF w
<1>6. w \in Seq(SUBSET U) /\ Len(w) = count
  BY <1>3, <1>5, IsASeq
<1>7. w # <<>>
  BY <1>3, <1>6, RangeOfEmpty
<1>q. QED
  BY <1>4, <1>6, <1>7

\* A sentence is packed into what is being made of the text U.
LEMMA PackSentenceIs ==
    ASSUME NEW U, NEW s \in Packing(U), NEW line,
           Chars(line) \subseteq U, Chars(line) # {}
    PROVE  PackSentence(s, line) \in Packing(U) /\ Begun(PackSentence(s, line))
<1>1. ClosePart(s) \in Seq(SUBSET U)
  BY ClosePartIs
<1>2. CASE LineLength(line.kind) > ChildMaxChars
  <2>1. PackSentence(s, line) = [parts |-> ClosePart(s) \o Windows(line), current |-> {}]
    BY <1>2 DEF PackSentence
  <2>2. Windows(line) \in Seq(SUBSET U) /\ Windows(line) # <<>>
    BY <1>2, WindowsAre
  <2>3. ClosePart(s) \o Windows(line) \in Seq(SUBSET U)
    BY <1>1, <2>2, ConcatProperties
  <2>4. Len(ClosePart(s) \o Windows(line)) = Len(ClosePart(s)) + Len(Windows(line))
    BY <1>1, <2>2, ConcatProperties
  <2>5. Len(ClosePart(s)) \in Nat /\ Len(Windows(line)) \in Nat /\ Len(Windows(line)) # 0
    BY <1>1, <2>2, LenProperties, EmptySeq
  <2>6. ClosePart(s) \o Windows(line) # <<>>
    BY <2>4, <2>5, RangeOfEmpty
  <2>q. QED
    BY <2>1, <2>3, <2>6 DEF Packing, Begun
<1>3. CASE ~(LineLength(line.kind) > ChildMaxChars)
  <2>1. CASE Cardinality(s.current) + LineLength(line.kind) <= ChildMaxChars
    <3>1. PackSentence(s, line) = [s EXCEPT !.current = @ \cup Chars(line)]
      BY <1>3, <2>1 DEF PackSentence
    <3>q. QED
      BY <3>1 DEF Packing, Begun
  <2>2. CASE ~(Cardinality(s.current) + LineLength(line.kind) <= ChildMaxChars)
    <3>1. PackSentence(s, line) = [parts |-> ClosePart(s), current |-> Chars(line)]
      BY <1>3, <2>2 DEF PackSentence
    <3>q. QED
      BY <1>1, <3>1 DEF Packing, Begun
  <2>q. QED
    BY <2>1, <2>2
<1>q. QED
  BY <1>2, <1>3

\* The children of a block take their text from its lines.
LEMMA SplitContentIs ==
    ASSUME NEW doc \in Seq(SourceBlock), NEW lines \in Seq(LinesOf(doc)), lines # <<>>
    PROVE  SplitContent(lines) \in Seq(SUBSET Text(lines)) /\ SplitContent(lines) # <<>>
<1> DEFINE U == Text(lines)
           X == Packing(U)
           S == {l \in LinesOf(doc) : Chars(l) \subseteq U}
           start == [parts |-> <<>>, current |-> {}]
           n == Len(lines)
<1>1. /\ n \in Nat /\ n > 0 /\ lines \in [1..n -> LinesOf(doc)]
      /\ \A i \in 1..n : lines[i] \in LinesOf(doc) /\ Chars(lines[i]) \subseteq U
  <2>1. n \in Nat /\ n # 0 /\ lines \in [1..n -> LinesOf(doc)]
    BY LenProperties, EmptySeq
  <2>2. \A i \in 1..n : lines[i] \in LinesOf(doc) /\ Chars(lines[i]) \subseteq U
    BY <2>1, TextIs
  <2>q. QED
    BY <2>1, <2>2
<1>2. lines \in Seq(S)
  <2>1. lines \in [1..n -> S]
    BY <1>1
  <2> HIDE DEF n, S
  <2>q. QED
    BY <1>1, <2>1, IsASeq
<1>3. \A l \in S : Chars(l) \subseteq U /\ Chars(l) # {}
  BY CharsAre
<1> HIDE DEF U
<1>4. start \in X
  BY EmptySeq DEF Packing
<1>5. \A r \in X, l \in S : PackSentence(r, l) \in X /\ Begun(PackSentence(r, l))
  BY <1>3, PackSentenceIs
<1> HIDE DEF X, S, start
<1>6. TakesParts(X, S)
  BY <1>5 DEF TakesParts
<1>7. PICK f : /\ PartsFrom(start, lines) = f[Len(lines)] /\ f[0] = start
               /\ \A k \in 1..Len(lines) : f[k] = PackSentence(f[k - 1], lines[k])
  BY <1>2, <1>4, <1>6, PackFold
<1> DEFINE Inv == [k \in 0..n |-> {r \in X : k > 0 => Begun(r)}]
<1>8. f[0] \in Inv[0]
  BY <1>1, <1>4, <1>7
<1>9. ASSUME NEW k \in 1..n, f[k - 1] \in Inv[k - 1]
      PROVE  f[k] \in Inv[k]
  <2>1. k \in 0..n /\ k - 1 \in 0..n
    BY <1>1
  <2>2. f[k - 1] \in X /\ lines[k] \in S
    BY <1>2, <1>9, <2>1, ElementOfSeq
  <2>3. f[k] \in X /\ Begun(f[k])
    BY <1>5, <1>7, <2>2
  <2>q. QED
    BY <2>1, <2>3
<1>10. f[n] \in Inv[n]
  <2> HIDE DEF Inv, n
  <2>q. QED
    BY <1>1, <1>8, <1>9, StepsStay
<1>11. f[n] \in Packing(U) /\ Begun(f[n])
  BY <1>1, <1>10 DEF X
<1>12. SplitContent(lines) = ClosePart(f[n])
  BY <1>7 DEF SplitContent, PartsFrom, start
<1>q. QED
  BY <1>11, <1>12, ClosePartIs DEF U

\* A group of blocks, and children that take their text from it.
LEMMA GroupFamilySound ==
    ASSUME NEW doc \in Seq(SourceBlock), NEW strategy \in Strategies,
           NEW K, strategy \in K,
           NEW group \in Seq(BlocksOf(doc)), group # <<>>,
           NEW children \in Seq(SUBSET TextOf(group)), children # <<>>,
           strategy = "policy" => \A i \in 1..Len(children) : Together(doc, children[i])
    PROVE  Sound(doc, GroupFamily(strategy, group, children), StemsOf(K, group), BodyOf(group))
<1> DEFINE text == TextOf(group)
           ordinal == group[1].ordinal
<1>1. /\ Len(group) \in Nat /\ 1 \in 1..Len(group)
      /\ \A i \in 1..Len(children) : children[i] \in SUBSET text
  <2>1. Len(group) \in Nat /\ Len(group) # 0
    BY LenProperties, EmptySeq
  <2>q. QED
    BY <2>1, ElementOfSeq
<1>2. /\ ordinal \in Sources(group) /\ ordinal \in Nat
      /\ Sources(group) \in SUBSET Nat /\ text \in SUBSET Char
  BY <1>1, BlocksAre
<1>3. children \in Seq(SUBSET Char)
  <2>1. SUBSET text \subseteq SUBSET Char
    BY <1>2
  <2>2. children \in [1..Len(children) -> SUBSET text] /\ Len(children) \in Nat
    BY LenProperties
  <2>3. children \in [1..Len(children) -> SUBSET Char]
    BY <2>1, <2>2
  <2>q. QED
    BY <2>2, <2>3, IsASeq
<1>4. GroupFamily(strategy, group, children)
        = Family(strategy, ordinal, 0, Sources(group), text, children)
  BY DEF GroupFamily
<1> DEFINE stem == <<strategy, ordinal, 0>>
<1>5. {stem} \subseteq StemsOf(K, group)
  BY <1>2 DEF StemsOf
<1>6. BodyOf(group) \subseteq text
  BY BlocksAre DEF BodyOf
<1> HIDE DEF text, ordinal
<1>7. \A i \in 1..Len(children) : children[i] \subseteq text \cup KeywordText(doc)
  BY <1>1
<1>8. 0 \in Nat
  OBVIOUS
<1>9. Sound(doc, Family(strategy, ordinal, 0, Sources(group), text, children),
            {stem}, text \cup (KeywordText(doc) \cap UNION Range(children)))
  BY <1>2, <1>3, <1>7, <1>8, FamilySound
<1>10. BodyOf(group) \subseteq text \cup (KeywordText(doc) \cap UNION Range(children))
  BY <1>6
<1> HIDE DEF stem
<1>q. QED
  BY <1>4, <1>5, <1>9, <1>10, SoundIsMonotone

\* Every block for itself.
Singles(blocks) == [i \in DOMAIN blocks |-> <<blocks[i]>>]

LEMMA SinglesAre ==
    ASSUME NEW doc \in Seq(SourceBlock), NEW blocks \in Seq(BlocksOf(doc)), Apart(blocks)
    PROVE  /\ Singles(blocks) \in Seq(Seq(BlocksOf(doc)))
           /\ DOMAIN Singles(blocks) = 1..Len(blocks) /\ Len(Singles(blocks)) = Len(blocks)
           /\ Disjoint(Singles(blocks)) /\ AllOf(Singles(blocks)) = Range(blocks)
           /\ \A i \in 1..Len(blocks) :
                 /\ Singles(blocks)[i] = <<blocks[i]>> /\ <<blocks[i]>> # <<>>
                 /\ <<blocks[i]>> \in Seq(BlocksOf(doc))
                 /\ TextOf(<<blocks[i]>>) = Text(blocks[i].lines)
<1> DEFINE n == Len(blocks)
           runs == Singles(blocks)
<1>1. /\ n \in Nat /\ DOMAIN blocks = 1..n /\ Range(blocks) = {blocks[i] : i \in 1..n}
      /\ \A i \in 1..n : blocks[i] \in BlocksOf(doc)
  BY BlocksAre
<1>2. Distinct(blocks)
  BY ApartIs
<1>3. ASSUME NEW b \in BlocksOf(doc)
      PROVE  /\ <<b>> \in Seq(BlocksOf(doc)) /\ <<b>> # <<>> /\ Distinct(<<b>>)
             /\ Range(<<b>>) = {b} /\ TextOf(<<b>>) = Text(b.lines)
  <2>1. <<b>> \in Seq(BlocksOf(doc)) /\ Len(<<b>>) = 1 /\ <<b>>[1] = b /\ <<b>> # <<>>
    OBVIOUS
  <2>2. Range(<<b>>) = {<<b>>[i] : i \in 1..1}
    BY <2>1, RangeIs
  <2>3. Range(<<b>>) = {b}
    BY <2>1, <2>2
  <2>4. TextOf(<<b>>) = UNION {Text(c.lines) : c \in {b}}
    BY <2>1, <2>3, BlocksAre
  <2>5. TextOf(<<b>>) = Text(b.lines)
    BY <2>4
  <2>6. Distinct(<<b>>)
    BY <2>1 DEF Distinct
  <2>q. QED
    BY <2>1, <2>3, <2>5, <2>6
<1>4. /\ runs \in [1..n -> Seq(BlocksOf(doc))]
      /\ \A i \in 1..n : runs[i] = <<blocks[i]>>
  BY <1>1, <1>3 DEF Singles
<1> HIDE DEF n, runs
<1>5. runs \in Seq(Seq(BlocksOf(doc))) /\ Len(runs) = n /\ DOMAIN runs = 1..n
  BY <1>1, <1>4, IsASeq
<1>6. \A i \in 1..n : Range(runs[i]) = {blocks[i]} /\ runs[i] # <<>> /\ Distinct(runs[i])
  BY <1>1, <1>3, <1>4
<1>7. Disjoint(runs)
  BY <1>2, <1>5, <1>6 DEF Disjoint, Distinct, n
<1>8. AllOf(runs) = Range(blocks)
  BY <1>1, <1>5, <1>6 DEF AllOf
<1>9. \A i \in 1..n : /\ <<blocks[i]>> # <<>> /\ <<blocks[i]>> \in Seq(BlocksOf(doc))
                      /\ TextOf(<<blocks[i]>>) = Text(blocks[i].lines)
  BY <1>1, <1>3
<1>q. QED
  BY <1>4, <1>5, <1>7, <1>8, <1>9 DEF n, runs

LEMMA GenericSound ==
    ASSUME NEW doc \in Seq(SourceBlock), NEW blocks \in Seq(BlocksOf(doc)), Apart(blocks)
    PROVE  Sound(doc, Generic(blocks), StemsOf({"generic"}, blocks), BodyOf(blocks))
<1> DEFINE content == Content(blocks)
           runs == Singles(content)
           D == [i \in DOMAIN content |->
                    GroupFamily("generic", <<content[i]>>, SplitContent(content[i].lines))]
<1>1. /\ content \in Seq(BlocksOf(doc)) /\ Apart(content)
      /\ StemsOf({"generic"}, content) \subseteq StemsOf({"generic"}, blocks)
      /\ BodyOf(content) = BodyOf(blocks)
  BY ContentIs
<1>2. Generic(blocks) = FlattenSeq(D)
  BY DEF Generic
<1> HIDE DEF content
<1>3. /\ runs \in Seq(Seq(BlocksOf(doc))) /\ DOMAIN runs = 1..Len(content)
      /\ Len(runs) = Len(content) /\ Disjoint(runs) /\ AllOf(runs) = Range(content)
      /\ DOMAIN content = 1..Len(content)
      /\ \A i \in 1..Len(content) : runs[i] = <<content[i]>>
  BY <1>1, SinglesAre, LenProperties
<1>4. ASSUME NEW i \in 1..Len(content)
      PROVE  Sound(doc, D[i], StemsOf({"generic"}, runs[i]), BodyOf(runs[i]))
  <2> DEFINE b == content[i]
             group == <<b>>
  <2>1. /\ group \in Seq(BlocksOf(doc)) /\ group # <<>> /\ TextOf(group) = Text(b.lines)
        /\ runs[i] = group
    BY <1>1, SinglesAre
  <2>2. b.lines \in Seq(LinesOf(doc)) /\ b.lines # <<>>
    BY <1>1, BlocksAre
  <2>3. D[i] = GroupFamily("generic", group, SplitContent(b.lines))
    BY <1>3
  <2> HIDE DEF b, group, runs, D
  <2>4. SplitContent(b.lines) \in Seq(SUBSET TextOf(group)) /\ SplitContent(b.lines) # <<>>
    BY <2>1, <2>2, SplitContentIs
  <2>5. "generic" \in Strategies /\ "generic" # "policy" /\ "generic" \in {"generic"}
    BY DEF Strategies
  <2>6. Sound(doc, GroupFamily("generic", group, SplitContent(b.lines)),
              StemsOf({"generic"}, group), BodyOf(group))
    BY <2>1, <2>4, <2>5, GroupFamilySound
  <2>q. QED
    BY <2>1, <2>3, <2>6
<1>5. D \in [DOMAIN runs -> Seq(Draft)]
  <2>1. \A i \in 1..Len(content) : D[i] \in Seq(Draft)
    BY <1>4 DEF Sound
  <2>2. DOMAIN D = DOMAIN runs /\ D = [i \in DOMAIN D |-> D[i]]
    BY <1>3
  <2> HIDE DEF D, runs
  <2>q. QED
    BY <1>3, <2>1, <2>2
<1> HIDE DEF D, runs
<1>6. Sound(doc, FlattenSeq(D), StemsOf({"generic"}, content), BodyOf(content))
  BY <1>1, <1>3, <1>4, <1>5, SoundRuns
<1>q. QED
  BY <1>1, <1>2, <1>6, SoundIsMonotone

-----------------------------------------------------------------------------
(* TableChunkStrategy *)

\* A part of the text for every line.
LEMMA LineTextsAre ==
    ASSUME NEW doc \in Seq(SourceBlock), NEW lines \in Seq(LinesOf(doc)),
           NEW U, Text(lines) \subseteq U
    PROVE  /\ [k \in DOMAIN lines |-> Chars(lines[k])] \in Seq(SUBSET U)
           /\ Len([k \in DOMAIN lines |-> Chars(lines[k])]) = Len(lines)
<1> DEFINE n == Len(lines)
           t == [k \in DOMAIN lines |-> Chars(lines[k])]
<1>1. n \in Nat /\ DOMAIN lines = 1..n /\ \A i \in 1..n : Chars(lines[i]) \subseteq U
  BY LenProperties, TextIs
<1>2. t \in [1..n -> SUBSET U]
  BY <1>1
<1> HIDE DEF n, t
<1>3. t \in Seq(SUBSET U) /\ Len(t) = n
  BY <1>1, <1>2, IsASeq
<1>q. QED
  BY <1>3 DEF n, t

LEMMA TableSound ==
    ASSUME NEW doc \in Seq(SourceBlock), NEW blocks \in Seq(BlocksOf(doc)), Apart(blocks)
    PROVE  Sound(doc, Table(blocks), StemsOf(Strategies, blocks), BodyOf(blocks))
<1> DEFINE runs == Singles(blocks)
           D == [i \in DOMAIN blocks |->
                    GroupFamily("table", <<blocks[i]>>,
                                [k \in DOMAIN blocks[i].lines |-> Chars(blocks[i].lines[k])])]
<1>2. Table(blocks) = FlattenSeq(D)
  BY DEF Table
<1>3. /\ runs \in Seq(Seq(BlocksOf(doc))) /\ DOMAIN runs = 1..Len(blocks)
      /\ Len(runs) = Len(blocks) /\ Disjoint(runs) /\ AllOf(runs) = Range(blocks)
      /\ DOMAIN blocks = 1..Len(blocks)
      /\ \A i \in 1..Len(blocks) : runs[i] = <<blocks[i]>>
  BY SinglesAre, LenProperties
<1>4. ASSUME NEW i \in 1..Len(blocks)
      PROVE  Sound(doc, D[i], StemsOf(Strategies, runs[i]), BodyOf(runs[i]))
  <2> DEFINE b == blocks[i]
             group == <<b>>
             children == [k \in DOMAIN b.lines |-> Chars(b.lines[k])]
  <2>1. /\ group \in Seq(BlocksOf(doc)) /\ group # <<>> /\ TextOf(group) = Text(b.lines)
        /\ runs[i] = group
    BY SinglesAre
  <2>2. b.lines \in Seq(LinesOf(doc)) /\ b.lines # <<>>
    BY BlocksAre
  <2>3. D[i] = GroupFamily("table", group, children)
    BY <1>3
  <2> HIDE DEF b, group, runs, D
  <2>4. children \in Seq(SUBSET TextOf(group)) /\ Len(children) = Len(b.lines)
    BY <2>1, <2>2, LineTextsAre
  <2> HIDE DEF children
  <2>5. children # <<>>
    BY <2>2, <2>4, EmptySeq
  <2>6. "table" \in Strategies /\ "table" # "policy"
    BY DEF Strategies
  <2>7. Sound(doc, GroupFamily("table", group, children), StemsOf(Strategies, group), BodyOf(group))
    BY <2>1, <2>4, <2>5, <2>6, GroupFamilySound
  <2>q. QED
    BY <2>1, <2>3, <2>7
<1>5. D \in [DOMAIN runs -> Seq(Draft)]
  <2>1. \A i \in 1..Len(blocks) : D[i] \in Seq(Draft)
    BY <1>4 DEF Sound
  <2>2. DOMAIN D = DOMAIN runs /\ D = [i \in DOMAIN D |-> D[i]]
    BY <1>3
  <2> HIDE DEF D, runs
  <2>q. QED
    BY <1>3, <2>1, <2>2
<1> HIDE DEF D, runs
<1>6. Sound(doc, FlattenSeq(D), StemsOf(Strategies, blocks), BodyOf(blocks))
  BY <1>3, <1>4, <1>5, SoundRuns
<1>q. QED
  BY <1>2, <1>6

-----------------------------------------------------------------------------
(* ManualChunkStrategy *)

LEMMA FlattenIsSeq ==
    ASSUME NEW S, NEW ss \in Seq(Seq(S))
    PROVE  FlattenSeq(ss) \in Seq(S)
<1>1. Len(ss) \in Nat /\ Len(ss) \in 0..Len(ss)
  BY LenProperties
<1>2. PICK f \in [0..Len(ss) -> Seq(S)] :
         /\ FlattenSeq(ss) = f[Len(ss)] /\ f[0] = <<>>
         /\ \A k \in 1..Len(ss) : f[k] = f[k - 1] \o ss[k]
  BY FlattenFold
<1>q. QED
  BY <1>1, <1>2

LEMMA StepsAre ==
    ASSUME NEW doc \in Seq(SourceBlock), NEW group \in Seq(BlocksOf(doc))
    PROVE  StepsOf(group) \in Seq(SUBSET TextOf(group))
<1> DEFINE n == Len(group)
           U == TextOf(group)
           part(i) == IF group[i].type = "list" THEN <<Text(group[i].lines)>>
                      ELSE [k \in DOMAIN StepLines(group[i]) |-> Chars(StepLines(group[i])[k])]
           parts == [i \in 1..n |-> part(i)]
<1>1. n \in Nat /\ DOMAIN group = 1..n
  BY BlocksAre
<1>2. StepsOf(group) = FlattenSeq(parts)
  BY <1>1 DEF StepsOf
<1>3. ASSUME NEW i \in 1..n
      PROVE  part(i) \in Seq(SUBSET U)
  <2> DEFINE b == group[i]
             lines == StepLines(b)
  <2>1. b.lines \in Seq(LinesOf(doc)) /\ Text(b.lines) \subseteq U
    BY BlocksAre
  <2>2. lines \in Seq(LinesOf(doc)) /\ Range(lines) \subseteq Range(b.lines)
    BY <2>1, WithinIs DEF StepLines
  <2> HIDE DEF b, lines, U
  <2>3. /\ Text(lines) = UNION {Chars(l) : l \in Range(lines)}
        /\ Text(b.lines) = UNION {Chars(l) : l \in Range(b.lines)}
    BY <2>1, <2>2, TextIs
  <2>4. Text(lines) \subseteq U
    BY <2>1, <2>2, <2>3
  <2>5. [k \in DOMAIN lines |-> Chars(lines[k])] \in Seq(SUBSET U)
    BY <2>2, <2>4, LineTextsAre
  <2>6. <<Text(b.lines)>> \in Seq(SUBSET U)
    BY <2>1
  <2>q. QED
    BY <2>5, <2>6 DEF b, lines
<1>4. parts \in Seq(Seq(SUBSET U))
  <2>1. parts \in [1..n -> Seq(SUBSET U)]
    BY <1>3
  <2> HIDE DEF parts, n, U
  <2>q. QED
    BY <1>1, <2>1, IsASeq
<1> HIDE DEF parts
<1>q. QED
  BY <1>2, <1>4, FlattenIsSeq

LEMMA DescriptionsAre ==
    ASSUME NEW doc \in Seq(SourceBlock), NEW group \in Seq(BlocksOf(doc))
    PROVE  Descriptions(group) \subseteq TextOf(group)
<1>1. TextOf(group) = UNION {Text(b.lines) : b \in Range(group)}
  BY BlocksAre
<1>2. ASSUME NEW b \in Range(group), NEW l \in Range(b.lines)
      PROVE  Chars(l) \subseteq TextOf(group)
  <2>1. b.lines \in Seq(LinesOf(doc))
    BY BlocksAre
  <2>2. Text(b.lines) = UNION {Chars(m) : m \in Range(b.lines)}
    BY <2>1, TextIs
  <2>q. QED
    BY <1>1, <2>2
<1>q. QED
  BY <1>2 DEF Descriptions

LEMMA ManualGroupSound ==
    ASSUME NEW doc \in Seq(SourceBlock), NEW group \in Seq(BlocksOf(doc)),
           Apart(group), group # <<>>
    PROVE  Sound(doc, ManualGroup(group), StemsOf(Strategies, group), BodyOf(group))
<1> DEFINE steps == StepsOf(group)
           n == Len(steps)
           child(i) == steps[i] \cup Descriptions(group) \cup (IF i = 1 THEN {} ELSE steps[i - 1])
           children == [i \in DOMAIN steps |-> child(i)]
<1>1. CASE steps = <<>>
  <2>1. ManualGroup(group) = Generic(group)
    BY <1>1 DEF ManualGroup
  <2>2. StemsOf({"generic"}, group) \subseteq StemsOf(Strategies, group)
    BY DEF StemsOf, Strategies
  <2>3. Sound(doc, Generic(group), StemsOf({"generic"}, group), BodyOf(group))
    BY GenericSound
  <2>q. QED
    BY <2>1, <2>2, <2>3, SoundIsMonotone
<1>2. CASE steps # <<>>
  <2>1. ManualGroup(group) = GroupFamily("manual", group, children)
    BY <1>2 DEF ManualGroup
  <2>2. /\ steps \in Seq(SUBSET TextOf(group)) /\ n \in Nat /\ n # 0
        /\ DOMAIN steps = 1..n /\ \A i \in 1..n : steps[i] \in SUBSET TextOf(group)
    <3>1. steps \in Seq(SUBSET TextOf(group))
      BY StepsAre
    <3> HIDE DEF steps
    <3>q. QED
      BY <1>2, <3>1, LenProperties, ElementOfSeq, EmptySeq
  <2>3. Descriptions(group) \subseteq TextOf(group)
    BY DescriptionsAre
  <2> HIDE DEF steps
  <2>4. \A i \in 1..n : child(i) \in SUBSET TextOf(group)
    <3>1. \A i \in 1..n : i # 1 => i - 1 \in 1..n
      BY <2>2
    <3>q. QED
      BY <2>2, <2>3, <3>1
  <2>5. children \in [1..n -> SUBSET TextOf(group)]
    BY <2>2, <2>4
  <2> HIDE DEF children, n
  <2>6. children \in Seq(SUBSET TextOf(group)) /\ Len(children) = n
    BY <2>2, <2>5, IsASeq
  <2>7. children # <<>>
    BY <2>2, <2>6, EmptySeq
  <2>8. "manual" \in Strategies /\ "manual" # "policy"
    BY DEF Strategies
  <2>9. Sound(doc, GroupFamily("manual", group, children), StemsOf(Strategies, group), BodyOf(group))
    BY <2>6, <2>7, <2>8, GroupFamilySound
  <2>q. QED
    BY <2>1, <2>9
<1>q. QED
  BY <1>1, <1>2

LEMMA ManualSound ==
    ASSUME NEW doc \in Seq(SourceBlock), NEW blocks \in Seq(BlocksOf(doc)), Apart(blocks)
    PROVE  Sound(doc, Manual(blocks), StemsOf(Strategies, blocks), BodyOf(blocks))
<1> DEFINE content == Content(blocks)
           runs == ContentGroups(blocks)
           D == [i \in DOMAIN runs |-> ManualGroup(runs[i])]
<1>1. /\ content \in Seq(BlocksOf(doc)) /\ Apart(content)
      /\ StemsOf(Strategies, content) \subseteq StemsOf(Strategies, blocks)
      /\ BodyOf(content) = BodyOf(blocks)
  BY ContentIs
<1>2. Manual(blocks) = FlattenSeq(D)
  BY DEF Manual
<1>3. /\ runs \in Seq(Seq(BlocksOf(doc))) /\ Disjoint(runs) /\ AllOf(runs) = Range(content)
  <2>1. Distinct(content)
    BY <1>1, ApartIs
  <2> HIDE DEF content
  <2>q. QED
    BY <1>1, <2>1, RunsAre DEF ContentGroups, content
<1> HIDE DEF content, runs
<1>4. ASSUME NEW i \in 1..Len(runs), Apart(runs[i])
      PROVE  Sound(doc, ManualGroup(runs[i]), StemsOf(Strategies, runs[i]), BodyOf(runs[i]))
  <2>1. runs[i] \in Seq(BlocksOf(doc)) /\ runs[i] # <<>>
    BY <1>3, ElementOfSeq DEF Disjoint
  <2>q. QED
    BY <1>4, <2>1, ManualGroupSound
<1>5. DOMAIN runs = 1..Len(runs) /\ \A i \in 1..Len(runs) : Apart(runs[i])
  BY <1>1, <1>3, RunsApart
<1>6. D \in [DOMAIN runs -> Seq(Draft)]
  BY <1>4, <1>5 DEF Sound
<1>7. \A i \in 1..Len(runs) :
         Apart(runs[i]) => Sound(doc, D[i], StemsOf(Strategies, runs[i]), BodyOf(runs[i]))
  BY <1>4, <1>5
<1> HIDE DEF D
<1>8. Sound(doc, FlattenSeq(D), StemsOf(Strategies, content), BodyOf(content))
  BY <1>1, <1>3, <1>6, <1>7, SoundRuns
<1>q. QED
  BY <1>1, <1>2, <1>8, SoundIsMonotone

-----------------------------------------------------------------------------
(* PolicyChunkStrategy *)

\* The lines of a block in the order of the document.
InOrder(b) == \A k \in 1..Len(b.lines) : b.lines[k].block = b.ordinal /\ b.lines[k].pos = k

\* Every line but the first of a block follows the one before it.
Follows(lines) ==
    \A j \in 1..Len(lines) : lines[j].pos > 1 =>
        /\ j > 1
        /\ lines[j - 1].block = lines[j].block /\ lines[j - 1].pos = lines[j].pos - 1

LEMMA FollowsTogether ==
    ASSUME NEW doc \in Seq(SourceBlock), NEW s \in Seq(LinesOf(doc)),
           NEW t \in Seq(LinesOf(doc)), Follows(s), Follows(t)
    PROVE  Follows(s \o t)
<1>1. /\ Len(s) \in Nat /\ Len(t) \in Nat /\ Len(s \o t) = Len(s) + Len(t)
      /\ \A i \in 1..(Len(s) + Len(t)) : (s \o t)[i] = IF i <= Len(s) THEN s[i] ELSE t[i - Len(s)]
  BY ConcatProperties, LenProperties
<1> SUFFICES ASSUME NEW j \in 1..(Len(s) + Len(t)), (s \o t)[j].pos > 1
             PROVE  /\ j > 1 /\ (s \o t)[j - 1].block = (s \o t)[j].block
                    /\ (s \o t)[j - 1].pos = (s \o t)[j].pos - 1
  BY <1>1 DEF Follows
<1>2. CASE j <= Len(s)
  <2>1. j \in 1..Len(s) /\ (s \o t)[j] = s[j]
    BY <1>1, <1>2
  <2>2. j > 1 /\ s[j - 1].block = s[j].block /\ s[j - 1].pos = s[j].pos - 1
    BY <2>1 DEF Follows
  <2>3. (s \o t)[j - 1] = s[j - 1]
    BY <1>1, <1>2, <2>2
  <2>q. QED
    BY <2>1, <2>2, <2>3
<1>3. CASE ~(j <= Len(s))
  <2> DEFINE i == j - Len(s)
  <2>1. i \in 1..Len(t) /\ (s \o t)[j] = t[i]
    BY <1>1, <1>3
  <2>2. i > 1 /\ t[i - 1].block = t[i].block /\ t[i - 1].pos = t[i].pos - 1
    BY <2>1 DEF Follows
  <2>3. j - 1 \in 1..(Len(s) + Len(t)) /\ ~(j - 1 <= Len(s)) /\ (j - 1) - Len(s) = i - 1 /\ j > 1
    BY <1>1, <2>2
  <2>4. (s \o t)[j - 1] = t[i - 1]
    BY <1>1, <2>3
  <2> HIDE DEF i
  <2>q. QED
    BY <2>1, <2>2, <2>3, <2>4
<1>q. QED
  BY <1>2, <1>3

\* The lines of a group of whole blocks.
LinesOfGroup(group) == FlattenSeq([i \in DOMAIN group |-> group[i].lines])

LEMMA LinesOfGroupAre ==
    ASSUME NEW doc \in Seq(SourceBlock), NEW group \in Seq(BlocksOf(doc)), group # <<>>,
           \A b \in Range(group) : InOrder(b)
    PROVE  /\ LinesOfGroup(group) \in Seq(LinesOf(doc)) /\ LinesOfGroup(group) # <<>>
           /\ Follows(LinesOfGroup(group))
           /\ \A l \in Range(LinesOfGroup(group)) : Chars(l) \subseteq TextOf(group)
<1> DEFINE n == Len(group)
           U == TextOf(group)
           ls == [i \in DOMAIN group |-> group[i].lines]
           L == LinesOf(doc)
<1>1. /\ n \in Nat /\ n > 0 /\ DOMAIN group = 1..n
      /\ \A i \in 1..n : /\ group[i].lines \in Seq(L) /\ group[i].lines # <<>>
                         /\ Text(group[i].lines) \subseteq U /\ group[i] \in Range(group)
  <2>1. n \in Nat /\ n # 0 /\ DOMAIN group = 1..n /\ Range(group) = {group[i] : i \in 1..n}
    BY BlocksAre, EmptySeq
  <2>2. \A i \in 1..n : /\ group[i].lines \in Seq(L) /\ group[i].lines # <<>>
                        /\ Text(group[i].lines) \subseteq U
    BY BlocksAre
  <2>q. QED
    BY <2>1, <2>2
<1>2. ls \in Seq(Seq(L)) /\ Len(ls) = n /\ \A i \in 1..n : ls[i] = group[i].lines
  <2>1. ls \in [1..n -> Seq(L)] /\ \A i \in 1..n : ls[i] = group[i].lines
    BY <1>1
  <2>2. n \in Nat
    BY <1>1
  <2> HIDE DEF ls, n, L
  <2>3. ls \in Seq(Seq(L)) /\ Len(ls) = n
    BY <2>1, <2>2, IsASeq
  <2>q. QED
    BY <2>1, <2>3
<1> HIDE DEF ls
<1>3. PICK f \in [0..Len(ls) -> Seq(L)] :
         /\ FlattenSeq(ls) = f[Len(ls)] /\ f[0] = <<>>
         /\ \A k \in 1..Len(ls) : f[k] = f[k - 1] \o ls[k]
  BY <1>2, FlattenFold
<1> DEFINE Good(r) == Follows(r) /\ \A l \in Range(r) : Chars(l) \subseteq U
           Inv == [k \in 0..n |-> {r \in Seq(L) : Good(r) /\ (k > 0 => r # <<>>)}]
<1>4. f[0] \in Inv[0]
  <2>1. Good(<<>>) /\ <<>> \in Seq(L)
    BY RangeOfEmpty, EmptySeq DEF Follows
  <2> HIDE DEF Good
  <2>q. QED
    BY <1>1, <1>3, <2>1
<1>5. ASSUME NEW k \in 1..n, f[k - 1] \in Inv[k - 1]
      PROVE  f[k] \in Inv[k]
  <2> DEFINE r == f[k - 1]
             t == ls[k]
  <2>0. k \in 0..n /\ k - 1 \in 0..n /\ f[k] = r \o t
    <3>1. n \in Nat /\ \A j \in 1..n : f[j] = f[j - 1] \o ls[j]
      BY <1>1, <1>2, <1>3
    <3>2. k \in 0..n /\ k - 1 \in 0..n
      BY <3>1
    <3>3. f[k] = f[k - 1] \o ls[k]
      BY <3>1, Zenon
    <3>q. QED
      BY <3>2, <3>3
  <2>1. r \in Seq(L) /\ Good(r)
    BY <1>5, <2>0
  <2>2. t \in Seq(L) /\ t # <<>> /\ Text(t) \subseteq U /\ t = group[k].lines
    BY <1>1, <1>2
  <2> HIDE DEF r, t
  <2>3. Follows(t)
    <3>1. InOrder(group[k])
      BY <1>1
    <3>2. \A j \in 1..Len(t) : t[j].block = group[k].ordinal /\ t[j].pos = j
      BY <2>2, <3>1 DEF InOrder
    <3>3. Len(t) \in Nat
      BY <2>2, LenProperties
    <3>4. \A j \in 1..Len(t) : j > 1 => j - 1 \in 1..Len(t)
      BY <3>3
    <3>q. QED
      BY <3>2, <3>4 DEF Follows
  <2>4. Follows(r \o t)
    BY <2>1, <2>2, <2>3, FollowsTogether
  <2>5. Range(r \o t) = Range(r) \cup Range(t) /\ r \o t \in Seq(L)
    BY <2>1, <2>2, RangeOfConcat, ConcatProperties
  <2>6. \A l \in Range(t) : Chars(l) \subseteq U
    <3>1. Text(t) = UNION {Chars(l) : l \in Range(t)}
      BY <2>2, TextIs
    <3>q. QED
      BY <2>2, <3>1
  <2>7. r \o t # <<>>
    <3>1. Len(r \o t) = Len(r) + Len(t) /\ Len(r) \in Nat /\ Len(t) \in Nat /\ Len(t) # 0
      BY <2>1, <2>2, ConcatProperties, LenProperties, EmptySeq
    <3>q. QED
      BY <3>1, RangeOfEmpty
  <2>q. QED
    BY <2>0, <2>1, <2>4, <2>5, <2>6, <2>7
<1>6. f[n] \in Inv[n]
  <2> HIDE DEF Inv, n
  <2>q. QED
    BY <1>1, <1>4, <1>5, StepsStay
<1>7. LinesOfGroup(group) = f[n]
  BY <1>2, <1>3 DEF LinesOfGroup, ls
<1>8. f[n] \in Seq(L) /\ Good(f[n]) /\ f[n] # <<>>
  <2>1. n \in Nat /\ n > 0
    BY <1>1
  <2> HIDE DEF Good, n, L
  <2>q. QED
    BY <1>6, <2>1
<1>q. QED
  BY <1>7, <1>8

\* A line is added to a text that has the line before it, or is no exception.
LEMMA TogetherGrows ==
    ASSUME NEW doc \in Seq(SourceBlock), NEW line \in LinesOf(doc),
           NEW text, Together(doc, text),
           line.kind = "except" /\ line.pos > 1 =>
              \E m \in LinesOf(doc) : /\ m.block = line.block /\ m.pos = line.pos - 1
                                      /\ Chars(m) \subseteq text
    PROVE  Together(doc, text \cup Chars(line))
<1> SUFFICES ASSUME NEW l \in LinesOf(doc), l.kind = "except", l.pos > 1,
                    Chars(l) \cap (text \cup Chars(line)) # {}
             PROVE  \E m \in LinesOf(doc) : /\ m.block = l.block /\ m.pos = l.pos - 1
                                            /\ Chars(m) \subseteq text \cup Chars(line)
  BY DEF Together
<1>1. CASE Chars(l) \cap text # {}
  BY <1>1 DEF Together
<1>2. CASE Chars(l) \cap Chars(line) # {}
  <2>1. l = line
    BY <1>2, CharsDiffer
  <2>q. QED
    BY <2>1
<1>q. QED
  BY <1>1, <1>2

AllTogether(doc, units) == \A i \in 1..Len(units) : Together(doc, units[i])

\* The last unit has the line before this one.
Precedes(doc, units, line) ==
    line.pos > 1 =>
        /\ units # <<>>
        /\ \E m \in LinesOf(doc) : /\ m.block = line.block /\ m.pos = line.pos - 1
                                   /\ Chars(m) \subseteq units[Len(units)]

\* A unit takes a fragment.
LEMMA AddFragmentIs ==
    ASSUME NEW doc \in Seq(SourceBlock), NEW U, NEW units \in Seq(SUBSET U),
           NEW line \in LinesOf(doc), Chars(line) \subseteq U,
           NEW new, new = AddFragment(units, line)
    PROVE  /\ new \in Seq(SUBSET U) /\ new # <<>>
           /\ Chars(line) \subseteq new[Len(new)]
           /\ AllTogether(doc, units) /\ Precedes(doc, units, line) => AllTogether(doc, new)
<1> DEFINE n == Len(units)
<1>0. /\ n \in Nat /\ units \in [1..n -> SUBSET U]
      /\ \A i \in 1..n : units[i] \in SUBSET U
  BY LenProperties, ElementOfSeq
<1>1. CASE units # <<>> /\ line.kind = "except"
  <2>1. new = [units EXCEPT ![n] = @ \cup Chars(line)]
    BY <1>1 DEF AddFragment
  <2>2. n # 0
    BY <1>0, <1>1, EmptySeq
  <2>3. n \in 1..n
    BY <1>0, <2>2
  <2>4. units[n] \cup Chars(line) \in SUBSET U
    BY <1>0, <2>3
  <2>5. new \in Seq(SUBSET U) /\ Len(new) = n
    BY <2>1, <2>3, <2>4, ExceptSeq
  <2>6. /\ new[n] = units[n] \cup Chars(line)
        /\ \A i \in 1..n : i # n => new[i] = units[i]
    BY <1>0, <2>1, <2>3
  <2>7. new # <<>>
    BY <2>2, <2>5, RangeOfEmpty
  <2> HIDE DEF n
  <2>8. Len(units) = n
    BY DEF n
  <2>9. ASSUME \A i \in 1..n : Together(doc, units[i]),
               line.pos > 1 =>
                     \E m \in LinesOf(doc) : /\ m.block = line.block /\ m.pos = line.pos - 1
                                             /\ Chars(m) \subseteq units[n]
        PROVE  \A i \in 1..n : Together(doc, new[i])
    <3>1. Together(doc, units[n])
      BY <2>3, <2>9
    <3>2. Together(doc, units[n] \cup Chars(line))
      BY <2>9, <3>1, TogetherGrows
    <3>q. QED
      BY <2>6, <2>9, <3>2
  <2>q. QED
    BY <2>5, <2>6, <2>7, <2>8, <2>9 DEF AllTogether, Precedes
<1>2. CASE ~(units # <<>> /\ line.kind = "except")
  <2>1. new = Append(units, Chars(line))
    BY <1>2 DEF AddFragment
  <2>2. /\ new \in Seq(SUBSET U) /\ Len(new) = n + 1 /\ new[n + 1] = Chars(line)
        /\ \A i \in 1..n : new[i] = units[i]
    BY <2>1, AppendProperties
  <2>3. new # <<>>
    BY <1>0, <2>2, RangeOfEmpty
  <2>4. ASSUME \A i \in 1..n : Together(doc, units[i]),
               line.pos > 1 => units # <<>>
        PROVE  \A i \in 1..(n + 1) : Together(doc, new[i])
    <3>1. Together(doc, {})
      BY DEF Together
    <3>2. ~(line.kind = "except" /\ line.pos > 1)
      BY <1>2, <2>4
    <3>3. Together(doc, {} \cup Chars(line))
      BY <3>1, <3>2, TogetherGrows
    <3>4. Together(doc, new[n + 1])
      BY <2>2, <3>3
    <3>5. \A i \in 1..(n + 1) : i = n + 1 \/ i \in 1..n
      BY <1>0
    <3>q. QED
      BY <2>2, <2>4, <3>4, <3>5
  <2>q. QED
    BY <2>2, <2>3, <2>4 DEF AllTogether, Precedes
<1>q. QED
  BY <1>1, <1>2

\* Units take all their text from the lines, and keep every exception together
\* with the line before it.
LEMMA UnitsAre ==
    ASSUME NEW doc \in Seq(SourceBlock), NEW U, NEW lines \in Seq(LinesOf(doc)),
           lines # <<>>, Follows(lines), \A l \in Range(lines) : Chars(l) \subseteq U
    PROVE  /\ UnitsFrom(<<>>, lines) \in Seq(SUBSET U) /\ UnitsFrom(<<>>, lines) # <<>>
           /\ AllTogether(doc, UnitsFrom(<<>>, lines))
<1> DEFINE X == Seq(SUBSET U)
           S == {l \in LinesOf(doc) : Chars(l) \subseteq U}
           n == Len(lines)
<1>1. /\ n \in Nat /\ n > 0 /\ \A k \in 1..n : lines[k] \in S
  <2>1. n \in Nat /\ n # 0 /\ Range(lines) = {lines[k] : k \in 1..n}
    BY RangeIs, EmptySeq
  <2>2. \A k \in 1..n : lines[k] \in LinesOf(doc)
    BY ElementOfSeq
  <2>q. QED
    BY <2>1, <2>2
<1>2. lines \in Seq(S)
  <2>1. lines \in [1..n -> LinesOf(doc)]
    BY LenProperties
  <2>2. lines \in [1..n -> S]
    BY <1>1, <2>1
  <2> HIDE DEF n, S
  <2>q. QED
    BY <1>1, <2>2, IsASeq
<1>3. <<>> \in X
  BY EmptySeq
<1>4. TakesUnits(X, S)
  BY AddFragmentIs DEF TakesUnits
<1> HIDE DEF X, S
<1>5. PICK f : /\ UnitsFrom(<<>>, lines) = f[Len(lines)] /\ f[0] = <<>>
               /\ \A k \in 1..Len(lines) : f[k] = AddFragment(f[k - 1], lines[k])
  BY <1>2, <1>3, <1>4, FragmentFold
<1> DEFINE Good(r, k) == /\ AllTogether(doc, r)
                         /\ k > 0 => r # <<>> /\ Chars(lines[k]) \subseteq r[Len(r)]
           Inv == [k \in 0..n |-> {r \in X : Good(r, k)}]
<1>6. f[0] \in Inv[0]
  <2>1. Good(<<>>, 0)
    BY RangeOfEmpty DEF AllTogether
  <2> HIDE DEF Good
  <2>q. QED
    BY <1>1, <1>3, <1>5, <2>1
<1>7. ASSUME NEW k \in 1..n, f[k - 1] \in Inv[k - 1]
      PROVE  f[k] \in Inv[k]
  <2> DEFINE r == f[k - 1]
             line == lines[k]
             new == f[k]
  <2>1. k \in 0..n /\ k - 1 \in 0..n /\ k > 0
    BY <1>1
  <2>2. r \in X /\ Good(r, k - 1)
    BY <1>7, <2>1
  <2>3. line \in LinesOf(doc) /\ Chars(line) \subseteq U
    BY <1>1 DEF S
  <2>4. new = AddFragment(r, line)
    BY <1>5
  <2>5. Precedes(doc, r, line)
    <3>0. SUFFICES ASSUME line.pos > 1
                   PROVE  /\ r # <<>>
                          /\ \E m \in LinesOf(doc) :
                                /\ m.block = line.block /\ m.pos = line.pos - 1
                                /\ Chars(m) \subseteq r[Len(r)]
      BY DEF Precedes
    <3>1. /\ k > 1 /\ lines[k - 1].block = line.block /\ lines[k - 1].pos = line.pos - 1
      BY <3>0 DEF Follows
    <3>2. k - 1 \in 1..n /\ k - 1 > 0
      BY <1>1, <3>1
    <3>3. lines[k - 1] \in LinesOf(doc)
      BY <1>1, <3>2 DEF S
    <3>q. QED
      BY <2>2, <3>1, <3>2, <3>3
  <2> HIDE DEF r, new
  <2>6. r \in Seq(SUBSET U) /\ AllTogether(doc, r)
    BY <2>2 DEF X
  <2> HIDE DEF line
  <2>7. /\ new \in Seq(SUBSET U) /\ new # <<>> /\ Chars(line) \subseteq new[Len(new)]
        /\ AllTogether(doc, new)
    BY <2>3, <2>4, <2>5, <2>6, AddFragmentIs
  <2>q. QED
    BY <2>1, <2>7 DEF X, line, new
<1>8. f[n] \in Inv[n]
  <2> HIDE DEF Inv, n
  <2>q. QED
    BY <1>1, <1>6, <1>7, StepsStay
<1>9. f[n] \in X /\ Good(f[n], n)
  <2>1. n \in 0..n
    BY <1>1
  <2> HIDE DEF Good, n
  <2>q. QED
    BY <1>8, <2>1
<1>q. QED
  BY <1>1, <1>5, <1>9 DEF X

LEMMA PolicyGroupSound ==
    ASSUME NEW doc \in Seq(SourceBlock), NEW group \in Seq(BlocksOf(doc)), group # <<>>,
           \A b \in Range(group) : InOrder(b)
    PROVE  Sound(doc, GroupFamily("policy", group, PolicyUnits(group)),
                 StemsOf(Strategies, group), BodyOf(group))
<1> DEFINE units == PolicyUnits(group)
           lines == LinesOfGroup(group)
           U == TextOf(group)
<1>1. units = UnitsFrom(<<>>, lines)
  BY DEF PolicyUnits, UnitsFrom, LinesOfGroup
<1>2. /\ lines \in Seq(LinesOf(doc)) /\ lines # <<>> /\ Follows(lines)
      /\ \A l \in Range(lines) : Chars(l) \subseteq U
  BY LinesOfGroupAre
<1> HIDE DEF units, lines, U
<1>3. units \in Seq(SUBSET U) /\ units # <<>> /\ AllTogether(doc, units)
  BY <1>1, <1>2, UnitsAre
<1>4. "policy" \in Strategies /\ \A i \in 1..Len(units) : Together(doc, units[i])
  BY <1>3 DEF Strategies, AllTogether
<1>5. Sound(doc, GroupFamily("policy", group, units), StemsOf(Strategies, group), BodyOf(group))
  BY <1>3, <1>4, GroupFamilySound DEF U
<1>q. QED
  BY <1>5 DEF units

LEMMA PolicySound ==
    ASSUME NEW doc \in Seq(SourceBlock), NEW blocks \in Seq(BlocksOf(doc)), Apart(blocks),
           \A b \in Range(blocks) : InOrder(b)
    PROVE  Sound(doc, Policy(blocks), StemsOf(Strategies, blocks), BodyOf(blocks))
<1> DEFINE content == Content(blocks)
           runs == ContentGroups(blocks)
           D == [i \in DOMAIN runs |-> GroupFamily("policy", runs[i], PolicyUnits(runs[i]))]
<1>1. /\ content \in Seq(BlocksOf(doc)) /\ Apart(content)
      /\ StemsOf(Strategies, content) \subseteq StemsOf(Strategies, blocks)
      /\ BodyOf(content) = BodyOf(blocks)
  BY ContentIs
<1>2. Policy(blocks) = FlattenSeq(D)
  BY DEF Policy
<1>3. Range(content) \subseteq Range(blocks)
  BY WithinIs DEF Content
<1>4. /\ runs \in Seq(Seq(BlocksOf(doc))) /\ Disjoint(runs) /\ AllOf(runs) = Range(content)
  <2>1. Distinct(content)
    BY <1>1, ApartIs
  <2> HIDE DEF content
  <2>q. QED
    BY <1>1, <2>1, RunsAre DEF ContentGroups, content
<1> HIDE DEF content, runs
<1>5. /\ DOMAIN runs = 1..Len(runs)
      /\ \A i \in 1..Len(runs) : /\ Apart(runs[i]) /\ runs[i] \in Seq(BlocksOf(doc))
                                 /\ runs[i] # <<>> /\ Range(runs[i]) \subseteq Range(content)
  BY <1>1, <1>4, RunsApart
<1>6. ASSUME NEW i \in 1..Len(runs)
      PROVE  Sound(doc, GroupFamily("policy", runs[i], PolicyUnits(runs[i])),
                   StemsOf(Strategies, runs[i]), BodyOf(runs[i]))
  <2>1. \A b \in Range(runs[i]) : InOrder(b)
    BY <1>3, <1>5
  <2>q. QED
    BY <1>5, <2>1, PolicyGroupSound
<1>7. D \in [DOMAIN runs -> Seq(Draft)]
  BY <1>5, <1>6 DEF Sound
<1>8. \A i \in 1..Len(runs) :
         Apart(runs[i]) => Sound(doc, D[i], StemsOf(Strategies, runs[i]), BodyOf(runs[i]))
  BY <1>5, <1>6
<1> HIDE DEF D
<1>9. Sound(doc, FlattenSeq(D), StemsOf(Strategies, content), BodyOf(content))
  BY <1>1, <1>4, <1>7, <1>8, SoundRuns
<1>q. QED
  BY <1>1, <1>2, <1>9, SoundIsMonotone

-----------------------------------------------------------------------------
(* FaqChunkStrategy *)

\* A record without a question is blank, one with a question has a source in O.
FaqRecords(doc, O) ==
    {r \in [question : SUBSET Char, answer : SUBSET Char,
            keywords : SUBSET (Char \cap KeywordText(doc)), sources : Seq(O)] :
        IF r.question = {} THEN r.answer = {} /\ r.keywords = {} ELSE r.sources # <<>>}

Asked(doc, O) == {r \in FaqRecords(doc, O) : r.question # {}}

FaqStates(doc, O) ==
    [record : FaqRecords(doc, O), records : Seq(Asked(doc, O)),
     orphans : Seq(LinesOf(doc)), fallback : Seq(BlocksOf(doc)), error : BOOLEAN]

RecordText(r) == r.question \cup r.answer \cup r.keywords
Recorded(s) == UNION {RecordText(r) : r \in Range(s.records)}
Heard(s) == Recorded(s) \cup RecordText(s.record)

LEMMA NoRecordIs ==
    ASSUME NEW doc, NEW O
    PROVE  /\ NoRecord \in FaqRecords(doc, O) /\ FaqStart \in FaqStates(doc, O)
           /\ RecordText(NoRecord) = {} /\ NoRecord.question = {}
<1>1. <<>> \in Seq(O) /\ <<>> \in Seq(Asked(doc, O)) /\ <<>> \in Seq(LinesOf(doc))
      /\ <<>> \in Seq(BlocksOf(doc))
  BY EmptySeq
<1>2. NoRecord \in FaqRecords(doc, O) /\ RecordText(NoRecord) = {} /\ NoRecord.question = {}
  BY <1>1 DEF NoRecord, FaqRecords, RecordText
<1> HIDE DEF NoRecord
<1>3. FaqStart \in FaqStates(doc, O)
  BY <1>1, <1>2 DEF FaqStart, FaqStates
<1>q. QED
  BY <1>2, <1>3

\* What was heard is written down, or the machine refuses.
LEMMA FlushIs ==
    ASSUME NEW doc, NEW O, NEW s \in FaqStates(doc, O)
    PROVE  LET t == Flush(s)
           IN  /\ t \in FaqStates(doc, O)
               /\ t.orphans = s.orphans /\ t.fallback = s.fallback
               /\ ~t.error => ~s.error /\ Recorded(t) = Heard(s) /\ t.record.question = {}
<1>0. /\ s.record \in FaqRecords(doc, O) /\ s.records \in Seq(Asked(doc, O))
      /\ s.orphans \in Seq(LinesOf(doc)) /\ s.fallback \in Seq(BlocksOf(doc))
      /\ s.error \in BOOLEAN
  BY DEF FaqStates
<1>1. CASE s.record.question = {}
  <2>1. Flush(s) = s
    BY <1>1 DEF Flush
  <2>2. RecordText(s.record) = {}
    BY <1>0, <1>1 DEF FaqRecords, RecordText
  <2>q. QED
    BY <1>1, <2>1, <2>2 DEF Heard
<1>2. CASE s.record.question # {} /\ s.record.answer = {}
  <2>1. Flush(s) = [s EXCEPT !.error = TRUE]
    BY <1>2 DEF Flush
  <2>2. Flush(s) \in FaqStates(doc, O)
    BY <2>1 DEF FaqStates
  <2>3. Flush(s).orphans = s.orphans /\ Flush(s).fallback = s.fallback /\ Flush(s).error = TRUE
    BY <2>1 DEF FaqStates
  <2>q. QED
    BY <2>2, <2>3
<1>3. CASE s.record.question # {} /\ s.record.answer # {}
  <2> DEFINE rs == Append(s.records, s.record)
             t == [s EXCEPT !.records = rs, !.record = NoRecord]
  <2>1. Flush(s) = t
    BY <1>3 DEF Flush
  <2>2. s.record \in Asked(doc, O)
    BY <1>0, <1>3 DEF Asked
  <2>3. rs \in Seq(Asked(doc, O)) /\ Range(rs) = Range(s.records) \cup {s.record}
    BY <1>0, <2>2, RangeOfAppend
  <2> HIDE DEF rs
  <2>4. NoRecord \in FaqRecords(doc, O) /\ NoRecord.question = {}
    BY NoRecordIs
  <2> HIDE DEF NoRecord
  <2>5. t \in FaqStates(doc, O)
    BY <2>3, <2>4 DEF FaqStates
  <2>6. /\ t.orphans = s.orphans /\ t.fallback = s.fallback /\ t.error = s.error
        /\ t.records = rs /\ t.record = NoRecord
    BY DEF FaqStates
  <2> HIDE DEF t
  <2>7. Recorded(t) = Heard(s)
    BY <2>3, <2>6 DEF Recorded, Heard
  <2>q. QED
    BY <2>1, <2>4, <2>5, <2>6, <2>7
<1>q. QED
  BY <1>1, <1>2, <1>3

LEMMA AskQuestionIs ==
    ASSUME NEW doc \in Seq(SourceBlock), NEW O, NEW s \in FaqStates(doc, O),
           NEW line \in LinesOf(doc), line.block \in O
    PROVE  LET t == AskQuestion(s, line)
           IN  /\ t \in FaqStates(doc, O)
               /\ t.orphans = s.orphans /\ t.fallback = s.fallback
               /\ ~t.error => ~s.error /\ Heard(s) \cup Chars(line) \subseteq Heard(t)
<1> DEFINE f == Flush(s)
           r == [NoRecord EXCEPT !.question = Chars(line), !.sources = <<line.block>>]
           t == [f EXCEPT !.record = r]
<1>1. AskQuestion(s, line) = t
  BY DEF AskQuestion
<1>2. /\ f \in FaqStates(doc, O) /\ f.orphans = s.orphans /\ f.fallback = s.fallback
      /\ ~f.error => ~s.error /\ Recorded(f) = Heard(s)
  BY FlushIs
<1> HIDE DEF f
<1>3. Chars(line) \in SUBSET Char /\ Chars(line) # {}
  BY CharsAre
<1>4. /\ r.question = Chars(line) /\ r.answer = {} /\ r.keywords = {}
      /\ r.sources = <<line.block>>
      /\ r \in [question : {Chars(line)}, answer : {{}}, keywords : {{}},
               sources : {<<line.block>>}]
  <2> DEFINE src == <<line.block>>
             ask == Chars(line)
  <2>1. NoRecord \in [question : {{}}, answer : {{}}, keywords : {{}}, sources : {<<>>}]
    BY DEF NoRecord
  <2> HIDE DEF src, ask
  <2>2. [NoRecord EXCEPT !.question = ask, !.sources = src]
          \in [question : {ask}, answer : {{}}, keywords : {{}}, sources : {src}]
    BY <2>1
  <2> HIDE DEF r
  <2>3. r \in [question : {ask}, answer : {{}}, keywords : {{}}, sources : {src}]
    BY <2>2 DEF r, ask, src
  <2>q. QED
    BY <2>3 DEF ask, src
<1>5. <<line.block>> \in Seq(O) /\ <<line.block>> # <<>>
  OBVIOUS
<1> HIDE DEF r
<1>6. r \in FaqRecords(doc, O) /\ RecordText(r) = Chars(line)
  BY <1>3, <1>4, <1>5 DEF FaqRecords, RecordText
<1>7. /\ t \in FaqStates(doc, O)
      /\ t.orphans = f.orphans /\ t.fallback = f.fallback /\ t.error = f.error
      /\ t.records = f.records /\ t.record = r
  BY <1>2, <1>6 DEF FaqStates
<1> HIDE DEF t
<1>8. Heard(t) = Recorded(f) \cup Chars(line)
  BY <1>6, <1>7 DEF Heard, Recorded
<1>q. QED
  BY <1>1, <1>2, <1>7, <1>8

LEMMA RememberIs ==
    ASSUME NEW doc, NEW O, NEW s \in FaqStates(doc, O), s.record.question # {}, NEW o \in O
    PROVE  LET t == Remember(s, o)
           IN  /\ t \in FaqStates(doc, O)
               /\ t.orphans = s.orphans /\ t.fallback = s.fallback /\ t.error = s.error
               /\ Heard(t) = Heard(s)
<1>1. CASE o \in Range(s.record.sources)
  BY <1>1 DEF Remember
<1>2. CASE o \notin Range(s.record.sources)
  <2> DEFINE a == s.record
             more == Append(a.sources, o)
             r == [a EXCEPT !.sources = more]
             t == [s EXCEPT !.record = r]
  <2>1. Remember(s, o) = t
    BY <1>2 DEF Remember
  <2>2. a \in FaqRecords(doc, O) /\ a.sources \in Seq(O)
    BY DEF FaqStates, FaqRecords
  <2>3. more \in Seq(O) /\ more # <<>>
    <3>1. more \in Seq(O) /\ Len(more) = Len(a.sources) + 1 /\ Len(a.sources) \in Nat
      BY <2>2, AppendProperties, LenProperties
    <3>q. QED
      BY <3>1, RangeOfEmpty
  <2> HIDE DEF a, more
  <2>4. r \in FaqRecords(doc, O) /\ RecordText(r) = RecordText(a)
    <3>1. a.question # {}
      BY DEF a
    <3>q. QED
      BY <2>2, <2>3, <3>1 DEF FaqRecords, RecordText
  <2> HIDE DEF r
  <2>5. /\ t \in FaqStates(doc, O)
        /\ t.orphans = s.orphans /\ t.fallback = s.fallback /\ t.error = s.error
        /\ t.records = s.records /\ t.record = r
    BY <2>4 DEF FaqStates
  <2> HIDE DEF t
  <2>6. Heard(t) = Heard(s)
    BY <2>4, <2>5 DEF Heard, Recorded, a
  <2>q. QED
    BY <2>1, <2>5, <2>6
<1>q. QED
  BY <1>1, <1>2

\* What a line does to the machine: it is heard, or left over.
Listens(s, line, t) ==
    /\ t.fallback = s.fallback
    /\ Range(t.orphans) \subseteq Range(s.orphans) \cup {line}
    /\ ~t.error => /\ ~s.error /\ Heard(s) \subseteq Heard(t)
                   /\ Range(s.orphans) \subseteq Range(t.orphans)
                   /\ Chars(line) \subseteq Heard(t) \/ line \in Range(t.orphans)

LEMMA FaqLineIs ==
    ASSUME NEW doc \in Seq(SourceBlock), NEW O, NEW s \in FaqStates(doc, O),
           NEW line \in LinesOf(doc), line.block \in O,
           NEW t, t = FaqLine(s, line)
    PROVE  t \in FaqStates(doc, O) /\ Listens(s, line, t)
<1> DEFINE a == s.record
<1>0. a \in FaqRecords(doc, O) /\ s.orphans \in Seq(LinesOf(doc)) /\ s.error \in BOOLEAN
  BY DEF FaqStates
<1>1. CASE s.error
  <2>1. t = s
    BY <1>1 DEF FaqLine
  <2>q. QED
    BY <1>1, <2>1 DEF Listens
<1>2. CASE ~s.error /\ line.kind = "question"
  <2>1. t = AskQuestion(s, line)
    BY <1>2 DEF FaqLine
  <2>q. QED
    BY <2>1, AskQuestionIs DEF Listens
<1>3. CASE /\ ~s.error /\ line.kind # "question" /\ a.question = {}
           /\ line.kind \in {"answer", "keywords"}
  <2>1. t = [s EXCEPT !.error = TRUE]
    BY <1>3 DEF FaqLine
  <2>2. t \in FaqStates(doc, O) /\ t.fallback = s.fallback /\ t.orphans = s.orphans /\ t.error
    BY <2>1 DEF FaqStates
  <2>q. QED
    BY <2>2 DEF Listens
<1>4. CASE /\ ~s.error /\ line.kind # "question" /\ a.question = {}
           /\ line.kind \notin {"answer", "keywords"}
  <2> DEFINE left == Append(s.orphans, line)
  <2>1. t = [s EXCEPT !.orphans = left]
    BY <1>4 DEF FaqLine
  <2>2. left \in Seq(LinesOf(doc)) /\ Range(left) = Range(s.orphans) \cup {line}
    BY <1>0, RangeOfAppend
  <2> HIDE DEF left
  <2>3. /\ t \in FaqStates(doc, O) /\ t.fallback = s.fallback /\ t.orphans = left
        /\ t.error = s.error /\ t.record = a /\ t.records = s.records
    BY <2>1, <2>2 DEF FaqStates
  <2>4. Heard(t) = Heard(s)
    BY <2>3 DEF Heard, Recorded
  <2>q. QED
    BY <1>4, <2>2, <2>3, <2>4 DEF Listens
<1>5. CASE ~s.error /\ line.kind # "question" /\ a.question # {} /\ line.kind = "keywords"
  <2> DEFINE ask == Chars(line)
             r == [a EXCEPT !.keywords = @ \cup ask]
             u == [s EXCEPT !.record = r]
  <2>1. t = Remember(u, line.block)
    BY <1>5 DEF FaqLine
  <2>2. ask \in SUBSET (Char \cap KeywordText(doc))
    BY <1>5, CharsAre DEF KeywordText
  <2> HIDE DEF ask, a
  <2>3. r \in FaqRecords(doc, O) /\ RecordText(r) = RecordText(a) \cup ask /\ r.question # {}
    BY <1>0, <1>5, <2>2 DEF FaqRecords, RecordText
  <2> HIDE DEF r
  <2>4. /\ u \in FaqStates(doc, O) /\ u.fallback = s.fallback /\ u.orphans = s.orphans
        /\ u.error = s.error /\ u.record = r /\ u.records = s.records
    BY <2>3 DEF FaqStates
  <2> HIDE DEF u
  <2>5. Heard(u) = Heard(s) \cup ask
    BY <2>3, <2>4 DEF Heard, Recorded, a
  <2>6. /\ t \in FaqStates(doc, O)
        /\ t.orphans = u.orphans /\ t.fallback = u.fallback /\ t.error = u.error
        /\ Heard(t) = Heard(u)
    BY <2>1, <2>3, <2>4, RememberIs
  <2>q. QED
    BY <1>5, <2>4, <2>5, <2>6 DEF Listens, ask
<1>6. CASE ~s.error /\ line.kind # "question" /\ a.question # {} /\ line.kind # "keywords"
  <2> DEFINE ask == Chars(line)
             r == [a EXCEPT !.answer = @ \cup ask]
             u == [s EXCEPT !.record = r]
  <2>1. t = Remember(u, line.block)
    BY <1>6 DEF FaqLine
  <2>2. ask \in SUBSET Char
    BY CharsAre
  <2> HIDE DEF ask, a
  <2>3. r \in FaqRecords(doc, O) /\ RecordText(r) = RecordText(a) \cup ask /\ r.question # {}
    BY <1>0, <1>6, <2>2 DEF FaqRecords, RecordText
  <2> HIDE DEF r
  <2>4. /\ u \in FaqStates(doc, O) /\ u.fallback = s.fallback /\ u.orphans = s.orphans
        /\ u.error = s.error /\ u.record = r /\ u.records = s.records
    BY <2>3 DEF FaqStates
  <2> HIDE DEF u
  <2>5. Heard(u) = Heard(s) \cup ask
    BY <2>3, <2>4 DEF Heard, Recorded, a
  <2>6. /\ t \in FaqStates(doc, O)
        /\ t.orphans = u.orphans /\ t.fallback = u.fallback /\ t.error = u.error
        /\ Heard(t) = Heard(u)
    BY <2>1, <2>3, <2>4, RememberIs
  <2>q. QED
    BY <1>6, <2>4, <2>5, <2>6 DEF Listens, ask
<1>q. QED
  BY <1>1, <1>2, <1>3, <1>4, <1>5, <1>6

\* The lines of a block are heard, or left over.
LEMMA LinesHeard ==
    ASSUME NEW doc \in Seq(SourceBlock), NEW O, NEW s \in FaqStates(doc, O), s.orphans = <<>>,
           NEW lines \in Seq(LinesOf(doc)), \A l \in Range(lines) : l.block \in O
    PROVE  LET t == LinesFrom(s, lines)
           IN  /\ t \in FaqStates(doc, O) /\ t.fallback = s.fallback
               /\ Range(t.orphans) \subseteq Range(lines)
               /\ ~t.error => /\ ~s.error /\ Heard(s) \subseteq Heard(t)
                              /\ Text(lines) \subseteq Heard(t) \cup Text(t.orphans)
<1> DEFINE X == FaqStates(doc, O)
           S == {l \in LinesOf(doc) : l.block \in O}
           n == Len(lines)
<1>1. /\ n \in Nat /\ lines \in [1..n -> LinesOf(doc)] /\ Range(lines) = {lines[k] : k \in 1..n}
      /\ \A k \in 1..n : lines[k] \in S
  <2>1. n \in Nat /\ lines \in [1..n -> LinesOf(doc)] /\ Range(lines) = {lines[k] : k \in 1..n}
    BY LenProperties, RangeIs
  <2>q. QED
    BY <2>1
<1>2. lines \in Seq(S)
  <2>1. lines \in [1..n -> S]
    BY <1>1
  <2> HIDE DEF n, S
  <2>q. QED
    BY <1>1, <2>1, IsASeq
<1>3. TakesLines(X, S)
  BY FaqLineIs DEF TakesLines
<1>4. s \in X
  OBVIOUS
<1> HIDE DEF X
<1>5. PICK f : /\ LinesFrom(s, lines) = f[Len(lines)] /\ f[0] = s
               /\ \A k \in 1..Len(lines) : f[k] = FaqLine(f[k - 1], lines[k])
  <2> HIDE DEF S
  <2>q. QED
    BY <1>2, <1>3, <1>4, LineFold
<1> DEFINE Good(r, k) ==
              /\ r.fallback = s.fallback
              /\ Range(r.orphans) \subseteq {lines[i] : i \in 1..k}
              /\ ~r.error => /\ ~s.error /\ Heard(s) \subseteq Heard(r)
                             /\ \A i \in 1..k : \/ Chars(lines[i]) \subseteq Heard(r)
                                                \/ lines[i] \in Range(r.orphans)
           Inv == [k \in 0..n |-> {r \in X : Good(r, k)}]
<1>6. f[0] \in Inv[0]
  <2>1. Good(s, 0)
    BY RangeOfEmpty
  <2> HIDE DEF Good
  <2>q. QED
    BY <1>1, <1>4, <1>5, <2>1
<1>7. ASSUME NEW k \in 1..n, f[k - 1] \in Inv[k - 1]
      PROVE  f[k] \in Inv[k]
  <2> DEFINE r == f[k - 1]
             line == lines[k]
             t == f[k]
  <2>1. k \in 0..n /\ k - 1 \in 0..n /\ \A i \in 1..k : i = k \/ i \in 1..(k - 1)
    BY <1>1
  <2>2. r \in X /\ Good(r, k - 1)
    <3> HIDE DEF Good
    <3>q. QED
      BY <1>7, <2>1
  <2>3. line \in LinesOf(doc) /\ line.block \in O
    BY <1>1
  <2>4. t = FaqLine(r, line)
    BY <1>5
  <2>5. t \in X /\ Listens(r, line, t)
    <3> HIDE DEF r, line, t
    <3>q. QED
      BY <2>2, <2>3, <2>4, FaqLineIs DEF X
  <2> HIDE DEF r, t
  <2>6. Good(t, k)
    <3>1. t.fallback = s.fallback
      BY <2>2, <2>5 DEF Listens
    <3>2. Range(t.orphans) \subseteq {lines[i] : i \in 1..k}
      <4>1. {lines[i] : i \in 1..(k - 1)} \cup {line} \subseteq {lines[i] : i \in 1..k}
        BY <1>1
      <4>q. QED
        BY <2>2, <2>5, <4>1 DEF Listens
    <3>3. ASSUME ~t.error
          PROVE  /\ ~s.error /\ Heard(s) \subseteq Heard(t)
                 /\ \A i \in 1..k : \/ Chars(lines[i]) \subseteq Heard(t)
                                    \/ lines[i] \in Range(t.orphans)
      <4>1. /\ ~r.error /\ Heard(r) \subseteq Heard(t)
            /\ Range(r.orphans) \subseteq Range(t.orphans)
            /\ Chars(line) \subseteq Heard(t) \/ line \in Range(t.orphans)
        BY <2>5, <3>3 DEF Listens
      <4>2. \A i \in 1..(k - 1) : \/ Chars(lines[i]) \subseteq Heard(r)
                                  \/ lines[i] \in Range(r.orphans)
        BY <2>2, <4>1
      <4>3. ~s.error /\ Heard(s) \subseteq Heard(t)
        BY <2>2, <4>1
      <4>q. QED
        BY <2>1, <4>1, <4>2, <4>3
    <3>q. QED
      BY <3>1, <3>2, <3>3
  <2> HIDE DEF Good
  <2>q. QED
    BY <2>1, <2>5, <2>6 DEF t
<1>8. f[n] \in Inv[n]
  <2> HIDE DEF Inv, n
  <2>q. QED
    BY <1>1, <1>6, <1>7, StepsStay
<1> DEFINE t == f[n]
<1>9. t \in X /\ Good(t, n)
  <2>1. n \in 0..n
    BY <1>1
  <2> HIDE DEF Good, n
  <2>q. QED
    BY <1>8, <2>1
<1>10. LinesFrom(s, lines) = t
  BY <1>5
<1>11. Range(t.orphans) \subseteq Range(lines)
  BY <1>1, <1>9
<1>12. ASSUME ~t.error
       PROVE  Text(lines) \subseteq Heard(t) \cup Text(t.orphans)
  <2>1. t.orphans \in Seq(LinesOf(doc))
    BY <1>9 DEF X, FaqStates
  <2>2. Text(t.orphans) = UNION {Chars(l) : l \in Range(t.orphans)}
    BY <2>1, TextIs
  <2>3. Text(lines) = UNION {Chars(lines[i]) : i \in 1..n}
    BY TextIs
  <2>4. \A i \in 1..n : Chars(lines[i]) \subseteq Heard(t) \/ lines[i] \in Range(t.orphans)
    BY <1>9, <1>12
  <2> HIDE DEF t
  <2>5. \A i \in 1..n : Chars(lines[i]) \subseteq Heard(t) \cup Text(t.orphans)
    BY <2>2, <2>4
  <2>q. QED
    BY <2>3, <2>5
<1>q. QED
  BY <1>9, <1>10, <1>11, <1>12 DEF X

\* What a block does to the machine.
Reads(doc, s, block, t) ==
    /\ \/ t.fallback = s.fallback
       \/ \E b \in BlocksOf(doc) :
             b.ordinal = block.ordinal /\ t.fallback = Append(s.fallback, b)
    /\ ~t.error => /\ ~s.error /\ Heard(s) \subseteq Heard(t)
                   /\ block.type # "heading" =>
                         Text(block.lines) \subseteq Heard(t) \cup BodyOf(t.fallback)

LEMMA FaqBlockIs ==
    ASSUME NEW doc \in Seq(SourceBlock), NEW O, NEW s \in FaqStates(doc, O),
           NEW block \in BlocksOf(doc), block.ordinal \in O,
           NEW t, t = FaqBlock(s, block)
    PROVE  t \in FaqStates(doc, O) /\ Reads(doc, s, block, t)
<1> DEFINE s0 == [s EXCEPT !.orphans = <<>>]
           lines == block.lines
           u == LinesFrom(s0, lines)
<1>1. /\ lines \in Seq(LinesOf(doc)) /\ lines # <<>> /\ block.ordinal \in DOMAIN doc
      /\ \A l \in Range(lines) : l.block \in O
  BY DEF BlocksOf
<1>2. /\ s0 \in FaqStates(doc, O) /\ s0.orphans = <<>>
      /\ s0.fallback = s.fallback /\ s0.error = s.error /\ Heard(s0) = Heard(s)
  <2>1. <<>> \in Seq(LinesOf(doc))
    BY EmptySeq
  <2>2. /\ s0 \in FaqStates(doc, O) /\ s0.orphans = <<>> /\ s0.fallback = s.fallback
        /\ s0.error = s.error /\ s0.record = s.record /\ s0.records = s.records
    BY <2>1 DEF FaqStates
  <2> HIDE DEF s0
  <2>q. QED
    BY <2>2 DEF Heard, Recorded
<1>3. CASE block.type = "heading" /\ lines[1].kind = "question"
  <2>1. t = AskQuestion(s, lines[1])
    BY <1>3 DEF FaqBlock
  <2>2. lines[1] \in LinesOf(doc) /\ lines[1].block \in O
    <3>1. 1 \in 1..Len(lines)
      BY <1>1, LenProperties, EmptySeq
    <3>2. lines[1] \in LinesOf(doc) /\ lines[1] \in Range(lines)
      BY <1>1, <3>1, ElementOfSeq, RangeIs
    <3>q. QED
      BY <1>1, <3>2
  <2> HIDE DEF lines
  <2>q. QED
    BY <1>3, <2>1, <2>2, AskQuestionIs DEF Reads
<1>4. CASE block.type = "heading" /\ lines[1].kind # "question"
  <2>1. t = s
    BY <1>4 DEF FaqBlock
  <2>q. QED
    BY <1>4, <2>1 DEF Reads
<1> HIDE DEF s0
<1>5. /\ u \in FaqStates(doc, O) /\ u.fallback = s.fallback
      /\ Range(u.orphans) \subseteq Range(lines)
      /\ ~u.error => /\ ~s.error /\ Heard(s) \subseteq Heard(u)
                     /\ Text(lines) \subseteq Heard(u) \cup Text(u.orphans)
  <2> HIDE DEF lines
  <2>q. QED
    BY <1>1, <1>2, LinesHeard
<1>6. /\ block.type # "heading" /\ u.orphans = <<>> => t = u
      /\ block.type # "heading" /\ u.orphans # <<>> =>
            t = [u EXCEPT !.fallback = Append(@, [block EXCEPT !.lines = u.orphans])]
  BY DEF FaqBlock, LinesFrom, s0
<1> HIDE DEF u
<1>7. CASE block.type # "heading" /\ u.orphans = <<>>
  <2>1. Text(u.orphans) = {}
    BY <1>7, RangeOfEmpty DEF Text
  <2>q. QED
    BY <1>5, <1>6, <1>7, <2>1 DEF Reads
<1>8. CASE block.type # "heading" /\ u.orphans # <<>>
  <2> DEFINE b == [block EXCEPT !.lines = u.orphans]
             more == Append(u.fallback, b)
  <2>1. u.orphans \in Seq(LinesOf(doc)) /\ u.fallback \in Seq(BlocksOf(doc))
    BY <1>5 DEF FaqStates
  <2>2. /\ b \in BlocksOf(doc) /\ b.ordinal = block.ordinal
        /\ b.type = block.type /\ b.lines = u.orphans
    BY <1>5, <1>8, <2>1 DEF BlocksOf
  <2>3. t = [u EXCEPT !.fallback = more]
    BY <1>6, <1>8
  <2> HIDE DEF b
  <2>4. more \in Seq(BlocksOf(doc)) /\ Range(more) = Range(u.fallback) \cup {b}
    BY <2>1, <2>2, RangeOfAppend
  <2> HIDE DEF more
  <2>5. /\ t \in FaqStates(doc, O) /\ t.fallback = more
        /\ t.error = u.error /\ t.record = u.record /\ t.records = u.records
    BY <1>5, <2>3, <2>4 DEF FaqStates
  <2>6. Heard(t) = Heard(u)
    BY <2>5 DEF Heard, Recorded
  <2>7. Text(u.orphans) \subseteq BodyOf(t.fallback)
    BY <1>8, <2>2, <2>4, <2>5 DEF BodyOf
  <2>8. t.fallback = Append(s.fallback, b)
    BY <1>5, <2>5 DEF more
  <2>q. QED
    BY <1>5, <2>2, <2>5, <2>6, <2>7, <2>8 DEF Reads
<1>q. QED
  BY <1>3, <1>4, <1>7, <1>8

\* The blocks are read: their text is in records, or left over in parts of them.
LEMMA BlocksRead ==
    ASSUME NEW doc \in Seq(SourceBlock), NEW blocks \in Seq(BlocksOf(doc)), Apart(blocks)
    PROVE  LET t == BlocksFrom(FaqStart, blocks)
           IN  /\ t \in FaqStates(doc, Sources(blocks))
               /\ Apart(t.fallback) /\ Sources(t.fallback) \subseteq Sources(blocks)
               /\ ~t.error => BodyOf(blocks) \subseteq Heard(t) \cup BodyOf(t.fallback)
<1> DEFINE O == Sources(blocks)
           X == FaqStates(doc, O)
           S == {b \in BlocksOf(doc) : b.ordinal \in O}
           n == Len(blocks)
<1>1. /\ n \in Nat /\ blocks \in [1..n -> BlocksOf(doc)]
      /\ O = {blocks[k].ordinal : k \in 1..n} /\ Range(blocks) = {blocks[k] : k \in 1..n}
      /\ \A k \in 1..n : blocks[k] \in S
  <2>1. /\ n \in Nat /\ blocks \in [1..n -> BlocksOf(doc)]
        /\ O = {blocks[k].ordinal : k \in 1..n} /\ Range(blocks) = {blocks[k] : k \in 1..n}
    BY LenProperties, BlocksAre
  <2> HIDE DEF O
  <2>q. QED
    BY <2>1
<1>2. blocks \in Seq(S)
  <2>1. blocks \in [1..n -> S]
    BY <1>1
  <2> HIDE DEF n, S
  <2>q. QED
    BY <1>1, <2>1, IsASeq
<1>3. TakesBlocks(X, S)
  <2> HIDE DEF O
  <2>q. QED
    BY FaqBlockIs DEF TakesBlocks
<1>4. FaqStart \in X
  BY NoRecordIs
<1> HIDE DEF X, O
<1>5. PICK f : /\ BlocksFrom(FaqStart, blocks) = f[Len(blocks)] /\ f[0] = FaqStart
               /\ \A k \in 1..Len(blocks) : f[k] = FaqBlock(f[k - 1], blocks[k])
  <2> HIDE DEF S
  <2>q. QED
    BY <1>2, <1>3, <1>4, BlockFold
<1> DEFINE Good(r, k) ==
              /\ Apart(r.fallback)
              /\ \A i \in 1..Len(r.fallback) :
                    r.fallback[i].ordinal \in {blocks[j].ordinal : j \in 1..k}
              /\ ~r.error => \A i \in 1..k :
                    blocks[i].type # "heading" =>
                       Text(blocks[i].lines) \subseteq Heard(r) \cup BodyOf(r.fallback)
           Inv == [k \in 0..n |-> {r \in X : Good(r, k)}]
<1>6. f[0] \in Inv[0]
  <2>1. FaqStart.fallback = <<>>
    BY DEF FaqStart
  <2>2. Good(FaqStart, 0)
    BY <2>1, RangeOfEmpty DEF Apart
  <2> HIDE DEF Good
  <2>q. QED
    BY <1>1, <1>4, <1>5, <2>2
<1>7. ASSUME NEW k \in 1..n, f[k - 1] \in Inv[k - 1]
      PROVE  f[k] \in Inv[k]
  <2> DEFINE r == f[k - 1]
             block == blocks[k]
             t == f[k]
             F == r.fallback
  <2>1. /\ k \in 0..n /\ k - 1 \in 0..n /\ \A i \in 1..k : i = k \/ i \in 1..(k - 1)
        /\ \A i \in 1..(k - 1) : i \in 1..n /\ i # k /\ i \in 1..k
        /\ k \in 1..k
    BY <1>1
  <2>2. r \in X /\ Good(r, k - 1)
    <3> HIDE DEF Good
    <3>q. QED
      BY <1>7, <2>1
  <2>3. block \in BlocksOf(doc) /\ block.ordinal \in O
    BY <1>1
  <2>4. t = FaqBlock(r, block)
    BY <1>5
  <2>5. t \in X /\ Reads(doc, r, block, t)
    <3> HIDE DEF r, block, t
    <3>q. QED
      BY <2>2, <2>3, <2>4, FaqBlockIs DEF X
  <2>6. F \in Seq(BlocksOf(doc)) /\ Len(F) \in Nat
    <3>1. F \in Seq(BlocksOf(doc))
      BY <2>2 DEF X, FaqStates
    <3>q. QED
      BY <3>1, LenProperties
  <2> HIDE DEF r, t
  <2>7. \A j \in 1..(k - 1) : blocks[j].ordinal # block.ordinal
    BY <2>1 DEF Apart
  <2>8. Good(t, k)
    <3>1. CASE t.fallback = F
      <4>1. \A i \in 1..Len(F) : F[i].ordinal \in {blocks[j].ordinal : j \in 1..k}
        <5>1. {blocks[j].ordinal : j \in 1..(k - 1)} \subseteq {blocks[j].ordinal : j \in 1..k}
          BY <2>1
        <5>q. QED
          BY <2>2, <5>1
      <4>2. ASSUME ~t.error, NEW i \in 1..k, blocks[i].type # "heading"
            PROVE  Text(blocks[i].lines) \subseteq Heard(t) \cup BodyOf(t.fallback)
        <5>1. /\ ~r.error /\ Heard(r) \subseteq Heard(t)
              /\ block.type # "heading" =>
                    Text(block.lines) \subseteq Heard(t) \cup BodyOf(t.fallback)
          BY <2>5, <4>2 DEF Reads
        <5>2. CASE i = k
          BY <4>2, <5>1, <5>2
        <5>3. CASE i \in 1..(k - 1)
          <6>1. Text(blocks[i].lines) \subseteq Heard(r) \cup BodyOf(F)
            BY <2>2, <4>2, <5>1, <5>3
          <6>q. QED
            BY <3>1, <5>1, <6>1
        <5>q. QED
          BY <2>1, <5>2, <5>3
      <4>3. Apart(t.fallback)
        BY <2>2, <3>1
      <4>q. QED
        BY <3>1, <4>1, <4>2, <4>3
    <3>2. CASE \E b \in BlocksOf(doc) : b.ordinal = block.ordinal /\ t.fallback = Append(F, b)
      <4>1. PICK b \in BlocksOf(doc) : b.ordinal = block.ordinal /\ t.fallback = Append(F, b)
        BY <3>2
      <4>2. /\ Len(t.fallback) = Len(F) + 1 /\ t.fallback[Len(F) + 1] = b
            /\ \A i \in 1..Len(F) : t.fallback[i] = F[i]
        BY <2>6, <4>1, AppendProperties
      <4>3. Range(F) \subseteq Range(t.fallback)
        BY <2>6, <4>1, RangeOfAppend
      <4>4. BodyOf(F) \subseteq BodyOf(t.fallback)
        BY <4>3 DEF BodyOf
      <4>5. \A i \in 1..(Len(F) + 1) : i = Len(F) + 1 \/ i \in 1..Len(F)
        BY <2>6
      <4>6. \A i \in 1..Len(F) : /\ F[i].ordinal \in {blocks[j].ordinal : j \in 1..k}
                                 /\ F[i].ordinal # block.ordinal
        <5>1. {blocks[j].ordinal : j \in 1..(k - 1)} \subseteq {blocks[j].ordinal : j \in 1..k}
          BY <2>1
        <5>q. QED
          BY <2>2, <2>7, <5>1
      <4>7. \A i \in 1..Len(t.fallback) :
               t.fallback[i].ordinal \in {blocks[j].ordinal : j \in 1..k}
        <5>1. block.ordinal \in {blocks[j].ordinal : j \in 1..k}
          BY <2>1
        <5>q. QED
          BY <4>1, <4>2, <4>5, <4>6, <5>1
      <4>8. Apart(t.fallback)
        <5>1. \A i, j \in 1..Len(F) : F[i].ordinal = F[j].ordinal => i = j
          BY <2>2 DEF Apart
        <5> HIDE DEF block
        <5>q. QED
          BY <4>1, <4>2, <4>5, <4>6, <5>1 DEF Apart
      <4>9. ASSUME ~t.error, NEW i \in 1..k, blocks[i].type # "heading"
            PROVE  Text(blocks[i].lines) \subseteq Heard(t) \cup BodyOf(t.fallback)
        <5>1. /\ ~r.error /\ Heard(r) \subseteq Heard(t)
              /\ block.type # "heading" =>
                    Text(block.lines) \subseteq Heard(t) \cup BodyOf(t.fallback)
          BY <2>5, <4>9 DEF Reads
        <5>2. CASE i = k
          BY <4>9, <5>1, <5>2
        <5>3. CASE i \in 1..(k - 1)
          <6>1. Text(blocks[i].lines) \subseteq Heard(r) \cup BodyOf(F)
            BY <2>2, <4>9, <5>1, <5>3
          <6>q. QED
            BY <4>4, <5>1, <6>1
        <5>q. QED
          BY <2>1, <5>2, <5>3
      <4>q. QED
        BY <4>7, <4>8, <4>9
    <3>q. QED
      BY <2>5, <3>1, <3>2 DEF Reads
  <2> HIDE DEF Good
  <2>q. QED
    BY <2>1, <2>5, <2>8 DEF t
<1>8. f[n] \in Inv[n]
  <2> HIDE DEF Inv, n
  <2>q. QED
    BY <1>1, <1>6, <1>7, StepsStay
<1> DEFINE t == f[n]
<1>9. t \in X /\ Good(t, n)
  <2>1. n \in 0..n
    BY <1>1
  <2> HIDE DEF Good, n
  <2>q. QED
    BY <1>8, <2>1
<1>10. BlocksFrom(FaqStart, blocks) = t
  BY <1>5
<1>11. Sources(t.fallback) \subseteq O
  <2>1. t.fallback \in Seq(BlocksOf(doc))
    BY <1>9 DEF X, FaqStates
  <2>2. Sources(t.fallback) = {t.fallback[i].ordinal : i \in 1..Len(t.fallback)}
    BY <2>1, BlocksAre
  <2>q. QED
    BY <1>1, <1>9, <2>2
<1>12. ASSUME ~t.error
       PROVE  BodyOf(blocks) \subseteq Heard(t) \cup BodyOf(t.fallback)
  <2>1. \A i \in 1..n : blocks[i].type # "heading" =>
           Text(blocks[i].lines) \subseteq Heard(t) \cup BodyOf(t.fallback)
    BY <1>9, <1>12
  <2> HIDE DEF t
  <2>2. \A b \in Range(blocks) : b.type # "heading" =>
           Text(b.lines) \subseteq Heard(t) \cup BodyOf(t.fallback)
    BY <1>1, <2>1
  <2>q. QED
    BY <2>2 DEF BodyOf
<1>q. QED
  BY <1>9, <1>10, <1>11, <1>12 DEF X, O

LEMMA RecordFamilySound ==
    ASSUME NEW doc \in Seq(SourceBlock), NEW O \in SUBSET Nat,
           NEW record \in Asked(doc, O), NEW number \in Nat
    PROVE  /\ record.sources[1] \in O
           /\ Sound(doc, RecordFamily(record, number),
                    {<<"faq", record.sources[1], number>>}, RecordText(record))
<1> DEFINE o == record.sources[1]
           text == record.question \cup record.answer
           child == record.question \cup record.keywords
           sources == Range(record.sources)
           children == <<child>>
<1>1. /\ record.question \in SUBSET Char /\ record.answer \in SUBSET Char
      /\ record.keywords \in SUBSET Char /\ record.keywords \subseteq KeywordText(doc)
      /\ record.sources \in Seq(O) /\ record.sources # <<>>
  BY DEF Asked, FaqRecords
<1>2. o \in O /\ sources \in SUBSET Nat
  <2>1. 1 \in 1..Len(record.sources)
    BY <1>1, LenProperties, EmptySeq
  <2>q. QED
    BY <1>1, <2>1, ElementOfSeq, RangeIs
<1>3. /\ text \in SUBSET Char /\ child \in SUBSET Char
      /\ child \subseteq text \cup KeywordText(doc)
  BY <1>1
<1> HIDE DEF sources, o
<1>4. RecordFamily(record, number) = Family("faq", o, number, sources, text, children)
  BY DEF RecordFamily, sources, o
<1> HIDE DEF child
<1>5. /\ children \in Seq(SUBSET Char) /\ children # <<>> /\ Len(children) = 1
      /\ children[1] = child /\ Range(children) = {child}
  <2>1. children \in Seq(SUBSET Char) /\ children # <<>> /\ Len(children) = 1 /\ children[1] = child
    BY <1>3
  <2> HIDE DEF children
  <2>2. Range(children) = {children[i] : i \in 1..1}
    BY <2>1, RangeIs
  <2>q. QED
    BY <2>1, <2>2
<1> HIDE DEF children, text
<1>6. \A i \in 1..Len(children) : children[i] \subseteq text \cup KeywordText(doc)
  BY <1>3, <1>5
<1>7. "faq" \in Strategies /\ "faq" # "policy" /\ o \in Nat
  BY <1>2 DEF Strategies
<1> DEFINE stem == <<"faq", o, number>>
           said == text \cup (KeywordText(doc) \cap UNION Range(children))
<1>8. Sound(doc, Family("faq", o, number, sources, text, children), {stem}, said)
  BY <1>2, <1>3, <1>5, <1>6, <1>7, FamilySound
<1>9. RecordText(record) \subseteq said
  <2>1. UNION Range(children) = child
    BY <1>5
  <2>2. RecordText(record) \subseteq text \cup (KeywordText(doc) \cap child)
    BY <1>1 DEF RecordText, text, child
  <2>q. QED
    BY <2>1, <2>2
<1> HIDE DEF said, stem
<1>10. Sound(doc, RecordFamily(record, number), {stem}, RecordText(record))
  BY <1>4, <1>8, <1>9, SoundIsMonotone
<1>q. QED
  BY <1>2, <1>10 DEF stem, o

\* A refusal is no set of chunks.
LEMMA RejectionIs ==
    ASSUME NEW doc, NEW stems, NEW text
    PROVE  Sound(doc, Rejection, stems, text) /\ \E d \in Range(Rejection) : d.kind = "error"
<1> DEFINE d == [kind |-> "error", id |-> <<>>, parent |-> <<>>, sources |-> {}, text |-> {}]
<1>1. d \in Draft /\ d.kind = "error"
  BY DEF Draft, Ids
<1> HIDE DEF d
<1>2. <<d>> \in Seq(Draft) /\ Len(<<d>>) = 1 /\ <<d>>[1] = d
  BY <1>1
<1>3. Rejection = <<d>>
  BY DEF Rejection, d
<1>4. Range(<<d>>) = {<<d>>[i] : i \in 1..1}
  BY <1>2, RangeIs
<1>5. d \in Range(Rejection)
  BY <1>2, <1>3, <1>4
<1>q. QED
  BY <1>1, <1>2, <1>3, <1>5 DEF Sound

LEMMA FaqSound ==
    ASSUME NEW doc \in Seq(SourceBlock), NEW blocks \in Seq(BlocksOf(doc)), Apart(blocks)
    PROVE  Sound(doc, Faq(blocks), StemsOf(Strategies, blocks), BodyOf(blocks))
<1> DEFINE O == Sources(blocks)
           t == BlocksFrom(FaqStart, blocks)
           end == Flush(t)
           records == end.records
           fallback == end.fallback
           n == Len(records)
           D == [i \in DOMAIN records |-> RecordFamily(records[i], i)]
           K == {"generic"}
<1>1. /\ t \in FaqStates(doc, O)
      /\ Apart(t.fallback) /\ Sources(t.fallback) \subseteq O
      /\ ~t.error => BodyOf(blocks) \subseteq Heard(t) \cup BodyOf(t.fallback)
  BY BlocksRead
<1>2. O \in SUBSET Nat
  BY BlocksAre
<1>3. Faq(blocks) = IF end.error THEN Rejection ELSE FlattenSeq(D) \o Generic(fallback)
  BY DEF Faq, BlocksFrom
<1> HIDE DEF t, O
<1>4. /\ end \in FaqStates(doc, O) /\ fallback = t.fallback
      /\ ~end.error => ~t.error /\ Recorded(end) = Heard(t)
  BY <1>1, FlushIs
<1> HIDE DEF end
<1>5. CASE end.error
  BY <1>3, <1>5, RejectionIs
<1>6. CASE ~end.error
  <2>1. records \in Seq(Asked(doc, O)) /\ fallback \in Seq(BlocksOf(doc))
    BY <1>4 DEF FaqStates
  <2>2. n \in Nat /\ DOMAIN records = 1..n /\ \A i \in 1..n : records[i] \in Asked(doc, O)
    BY <2>1, LenProperties, ElementOfSeq
  <2> HIDE DEF records, fallback
  <2> DEFINE H == [i \in 1..n |-> {<<"faq", records[i].sources[1], i>>}]
             T == [i \in 1..n |-> RecordText(records[i])]
  <2>3. ASSUME NEW i \in 1..n
        PROVE  /\ records[i].sources[1] \in O
               /\ Sound(doc, RecordFamily(records[i], i),
                        {<<"faq", records[i].sources[1], i>>}, RecordText(records[i]))
    <3>1. i \in Nat
      BY <2>2
    <3>q. QED
      BY <1>2, <2>2, <3>1, RecordFamilySound
  <2>4. D \in Seq(Seq(Draft)) /\ Len(D) = n
    <3>1. \A i \in 1..n : RecordFamily(records[i], i) \in Seq(Draft)
      BY <2>3 DEF Sound
    <3>2. D \in [1..n -> Seq(Draft)]
      BY <2>2, <3>1
    <3> HIDE DEF D, n
    <3>q. QED
      BY <2>2, <3>2, IsASeq
  <2>5. EachSound(doc, D, H, T)
    <3>1. \A i \in 1..n : Sound(doc, D[i], H[i], T[i])
      BY <2>2, <2>3
    <3>2. \A i, j \in 1..n : i # j => H[i] \cap H[j] = {}
      OBVIOUS
    <3> HIDE DEF D, H, T
    <3>q. QED
      BY <2>4, <3>1, <3>2 DEF EachSound
  <2>6. \A x \in Joined(H, n) : x[1] = "faq" /\ x \in StemsOf(Strategies, blocks)
    <3>1. ASSUME NEW i \in 1..n
          PROVE  /\ <<"faq", records[i].sources[1], i>>[1] = "faq"
                 /\ <<"faq", records[i].sources[1], i>> \in StemsOf(Strategies, blocks)
      <4> DEFINE o == records[i].sources[1]
      <4>0. i \in Nat /\ "faq" \in Strategies
        BY <2>2 DEF Strategies
      <4>1. o \in O
        BY <2>3
      <4> HIDE DEF o
      <4>2. <<"faq", o, i>> \in StemsOf(Strategies, blocks)
        BY <4>0, <4>1 DEF StemsOf, O
      <4>3. <<"faq", o, i>>[1] = "faq"
        OBVIOUS
      <4>q. QED
        BY <4>2, <4>3 DEF o
    <3>q. QED
      BY <3>1 DEF Joined
  <2>7. Joined(T, n) = Recorded(end)
    <3>1. Range(records) = {records[i] : i \in 1..n}
      BY <2>1, RangeIs
    <3>2. Recorded(end) = UNION {RecordText(r) : r \in Range(records)}
      BY DEF Recorded, records
    <3>q. QED
      BY <3>1, <3>2 DEF Joined
  <2> HIDE DEF D, H, T, n
  <2>8. Sound(doc, FlattenSeq(D), Joined(H, n), Joined(T, n))
    BY <2>4, <2>5, SoundParts
  <2>9. Sound(doc, Generic(fallback), StemsOf(K, fallback), BodyOf(fallback))
    BY <1>1, <1>4, <2>1, GenericSound
  <2>10. \A x \in StemsOf(K, fallback) : x[1] # "faq" /\ x \in StemsOf(Strategies, blocks)
    BY <1>1, <1>4 DEF StemsOf, Strategies, O
  <2>11. Joined(H, n) \cap StemsOf(K, fallback) = {}
    BY <2>6, <2>10
  <2> HIDE DEF K
  <2>12. Sound(doc, FlattenSeq(D) \o Generic(fallback),
               Joined(H, n) \cup StemsOf(K, fallback), Joined(T, n) \cup BodyOf(fallback))
    BY <2>8, <2>9, <2>11, SoundTogether
  <2>13. Joined(H, n) \cup StemsOf(K, fallback) \subseteq StemsOf(Strategies, blocks)
    BY <2>6, <2>10
  <2>14. BodyOf(blocks) \subseteq Joined(T, n) \cup BodyOf(fallback)
    BY <1>1, <1>4, <1>6, <2>7
  <2>15. Faq(blocks) = FlattenSeq(D) \o Generic(fallback)
    BY <1>3, <1>6 DEF D
  <2>q. QED
    BY <2>12, <2>13, <2>14, <2>15, SoundIsMonotone
<1>q. QED
  BY <1>5, <1>6

-----------------------------------------------------------------------------
(* StrategySelector *)

LEMMA DraftsSound ==
    ASSUME NEW doc \in Seq(SourceBlock), NEW blocks \in Seq(BlocksOf(doc)), Apart(blocks),
           \A b \in Range(blocks) : InOrder(b),
           NEW type \in {"generic", "policy", "manual", "faq"}
    PROVE  Sound(doc, Drafts(type, blocks), StemsOf(Strategies, blocks), BodyOf(blocks))
<1>1. CASE type = "generic"
  <2>1. Sound(doc, Generic(blocks), StemsOf({"generic"}, blocks), BodyOf(blocks))
    BY GenericSound
  <2>2. StemsOf({"generic"}, blocks) \subseteq StemsOf(Strategies, blocks)
    BY DEF StemsOf, Strategies
  <2>3. Drafts(type, blocks) = Generic(blocks)
    BY <1>1 DEF Drafts
  <2>q. QED
    BY <2>1, <2>2, <2>3, SoundIsMonotone
<1>2. CASE type = "policy"
  <2>1. Drafts(type, blocks) = Policy(blocks)
    BY <1>2 DEF Drafts
  <2>q. QED
    BY <2>1, PolicySound
<1>3. CASE type = "manual"
  <2>1. Drafts(type, blocks) = Manual(blocks)
    BY <1>3 DEF Drafts
  <2>q. QED
    BY <2>1, ManualSound
<1>4. CASE type = "faq"
  <2>1. Drafts(type, blocks) = Faq(blocks)
    BY <1>4 DEF Drafts
  <2>q. QED
    BY <2>1, FaqSound
<1>q. QED
  BY <1>1, <1>2, <1>3, <1>4

LEMMA DraftsByTypeSound ==
    ASSUME NEW doc \in Seq(SourceBlock), NEW blocks \in Seq(BlocksOf(doc)), Apart(blocks),
           \A b \in Range(blocks) : InOrder(b),
           NEW type \in {"generic", "policy", "manual", "faq", "mixed"}
    PROVE  Sound(doc, DraftsByType(type, blocks), StemsOf(Strategies, blocks), BodyOf(blocks))
<1> DEFINE runs == Runs(blocks, [b \in Range(blocks) |-> SectionType[b.path]])
           D == [i \in DOMAIN runs |-> Drafts(SectionType[runs[i][1].path], runs[i])]
<1>1. CASE type # "mixed"
  <2>1. DraftsByType(type, blocks) = Drafts(type, blocks)
    BY <1>1 DEF DraftsByType
  <2>q. QED
    BY <1>1, <2>1, DraftsSound
<1>2. CASE type = "mixed"
  <2>1. DraftsByType(type, blocks) = FlattenSeq(D)
    BY <1>2 DEF DraftsByType
  <2>2. Distinct(blocks)
    BY ApartIs
  <2>3. runs \in Seq(Seq(BlocksOf(doc))) /\ Disjoint(runs) /\ AllOf(runs) = Range(blocks)
    BY <2>2, RunsAre
  <2> HIDE DEF runs
  <2>4. /\ DOMAIN runs = 1..Len(runs)
        /\ \A i \in 1..Len(runs) : /\ Apart(runs[i]) /\ runs[i] \in Seq(BlocksOf(doc))
                                   /\ runs[i] # <<>> /\ Range(runs[i]) \subseteq Range(blocks)
    BY <2>3, RunsApart
  <2>5. ASSUME NEW i \in 1..Len(runs)
        PROVE  Sound(doc, Drafts(SectionType[runs[i][1].path], runs[i]),
                     StemsOf(Strategies, runs[i]), BodyOf(runs[i]))
    <3> DEFINE run == runs[i]
               kind == SectionType[run[1].path]
    <3>1. run \in Seq(BlocksOf(doc)) /\ run # <<>> /\ Apart(run)
      BY <2>4
    <3>2. \A b \in Range(run) : InOrder(b)
      BY <2>4
    <3> HIDE DEF run
    <3>3. run[1] \in BlocksOf(doc)
      BY <3>1, LenProperties, ElementOfSeq, EmptySeq
    <3>4. kind \in {"generic", "policy", "manual", "faq"}
      BY <3>3, ChunkingAssumption DEF BlocksOf
    <3> HIDE DEF kind
    <3>5. Sound(doc, Drafts(kind, run), StemsOf(Strategies, run), BodyOf(run))
      BY <3>1, <3>2, <3>4, DraftsSound
    <3>q. QED
      BY <3>5 DEF kind, run
  <2>6. D \in [DOMAIN runs -> Seq(Draft)]
    BY <2>4, <2>5 DEF Sound
  <2>7. \A i \in 1..Len(runs) :
           Apart(runs[i]) => Sound(doc, D[i], StemsOf(Strategies, runs[i]), BodyOf(runs[i]))
    BY <2>4, <2>5
  <2> HIDE DEF D
  <2>8. Sound(doc, FlattenSeq(D), StemsOf(Strategies, blocks), BodyOf(blocks))
    BY <2>3, <2>6, <2>7, SoundRuns
  <2>q. QED
    BY <2>1, <2>8
<1>q. QED
  BY <1>1, <1>2

\* A document numbers its blocks and lines.
LEMMA NumberedIs ==
    ASSUME NEW doc \in Seq(SourceBlock)
    PROVE  /\ Numbered(doc) \in Seq(BlocksOf(doc)) /\ Apart(Numbered(doc))
           /\ \A b \in Range(Numbered(doc)) : InOrder(b)
           /\ BodyOf(Numbered(doc)) = UNION {Text(Numbered(doc)[o].lines) :
                                               o \in {n \in DOMAIN doc : doc[n].type # "heading"}}
           /\ \A o \in DOMAIN doc : \A l \in Range(Numbered(doc)[o].lines) : l \in LinesOf(doc)
<1> DEFINE n == Len(doc)
           line(o, k) == [block |-> o, pos |-> k, kind |-> doc[o].lines[k]]
           lines(o) == [k \in DOMAIN doc[o].lines |-> line(o, k)]
           block(o) == [ordinal |-> o, type |-> doc[o].type, path |-> doc[o].path,
                        lines |-> lines(o)]
           blocks == Numbered(doc)
<1>1. n \in Nat /\ DOMAIN doc = 1..n /\ \A o \in 1..n : doc[o] \in SourceBlock
  BY LenProperties, ElementOfSeq
<1>2. ASSUME NEW o \in 1..n
      PROVE  /\ block(o) \in BlocksOf(doc) /\ InOrder(block(o)) /\ block(o).ordinal = o
             /\ block(o).type = doc[o].type /\ block(o).lines = lines(o)
             /\ \A l \in Range(lines(o)) : l \in LinesOf(doc)
  <2> DEFINE src == doc[o].lines
             m == Len(src)
  <2>1. src \in Seq(LineKinds) /\ src # <<>>
    BY <1>1 DEF SourceBlock
  <2>2. m \in Nat /\ m # 0 /\ DOMAIN src = 1..m /\ \A k \in 1..m : src[k] \in LineKinds
    <3> HIDE DEF src
    <3>q. QED
      BY <2>1, LenProperties, ElementOfSeq, EmptySeq
  <2>3. \A k \in 1..m : line(o, k) \in LinesOf(doc) /\ line(o, k).block = o /\ line(o, k).pos = k
    BY <1>1, <2>2 DEF LinesOf
  <2>4. lines(o) \in [1..m -> LinesOf(doc)] /\ \A k \in 1..m : lines(o)[k] = line(o, k)
    BY <2>2, <2>3
  <2> HIDE DEF line, lines, src, m
  <2>5. lines(o) \in Seq(LinesOf(doc)) /\ Len(lines(o)) = m
    BY <2>2, <2>4, IsASeq
  <2>6. lines(o) # <<>> /\ Range(lines(o)) = {lines(o)[k] : k \in 1..m}
    BY <2>2, <2>5, RangeIs, EmptySeq
  <2>7. \A l \in Range(lines(o)) : l \in LinesOf(doc) /\ l.block = o
    BY <2>3, <2>4, <2>6
  <2>8. /\ block(o).ordinal = o /\ block(o).type = doc[o].type /\ block(o).lines = lines(o)
        /\ block(o).path = doc[o].path
    OBVIOUS
  <2>9. block(o) \in BlocksOf(doc)
    <3>1. /\ doc[o].type \in {"heading", "paragraph", "list", "table"}
          /\ doc[o].path \in DOMAIN SectionType /\ o \in DOMAIN doc
      BY <1>1 DEF SourceBlock
    <3>q. QED
      BY <2>5, <2>6, <2>7, <3>1 DEF BlocksOf
  <2> HIDE DEF block
  <2>10. InOrder(block(o))
    BY <2>3, <2>4, <2>5, <2>8 DEF InOrder
  <2>q. QED
    BY <2>7, <2>8, <2>9, <2>10
<1>3. DOMAIN blocks = 1..n /\ \A o \in 1..n : blocks[o] = block(o)
  BY <1>1 DEF Numbered
<1>4. blocks = [o \in 1..n |-> blocks[o]]
  BY <1>1 DEF Numbered
<1> HIDE DEF blocks, block, n, lines
<1>5. blocks \in [1..n -> BlocksOf(doc)]
  BY <1>2, <1>3, <1>4
<1>6. blocks \in Seq(BlocksOf(doc)) /\ Len(blocks) = n
  BY <1>1, <1>5, IsASeq
<1>7. Range(blocks) = {blocks[o] : o \in 1..n}
  BY <1>6, RangeIs
<1>8. Apart(blocks) /\ \A b \in Range(blocks) : InOrder(b)
  BY <1>2, <1>3, <1>6, <1>7 DEF Apart
<1>9. BodyOf(blocks) = UNION {Text(blocks[o].lines) : o \in {i \in 1..n : doc[i].type # "heading"}}
  <2>1. \A o \in 1..n : blocks[o].type = doc[o].type
    BY <1>2, <1>3
  <2>2. {b \in Range(blocks) : b.type # "heading"}
          = {blocks[o] : o \in {i \in 1..n : doc[i].type # "heading"}}
    BY <1>7, <2>1
  <2>q. QED
    BY <2>2 DEF BodyOf
<1>10. \A o \in DOMAIN doc : \A l \in Range(blocks[o].lines) : l \in LinesOf(doc)
  BY <1>1, <1>2, <1>3
<1>q. QED
  BY <1>1, <1>6, <1>8, <1>9, <1>10 DEF blocks

\* What the selector makes of a document is sound, or a refusal.
LEMMA ChunksSound ==
    ASSUME NEW type \in {"generic", "policy", "manual", "faq", "mixed"},
           NEW doc \in Seq(SourceBlock)
    PROVE  \/ Chunks(type, doc) = Rejection
           \/ /\ Sound(doc, Chunks(type, doc), StemsOf(Strategies, Numbered(doc)),
                       BodyOf(Numbered(doc)))
              /\ \A d \in Range(Chunks(type, doc)) : d.kind # "error"
<1> DEFINE blocks == Numbered(doc)
           runs == Runs(blocks, [b \in Range(blocks) |-> b.type = "table"])
           part(i) == IF runs[i][1].type = "table" THEN Table(runs[i])
                      ELSE DraftsByType(type, runs[i])
           D == [i \in DOMAIN runs |-> part(i)]
           drafts == FlattenSeq(D)
<1>1. /\ blocks \in Seq(BlocksOf(doc)) /\ Apart(blocks)
      /\ \A b \in Range(blocks) : InOrder(b)
  BY NumberedIs
<1>2. Chunks(type, doc) =
         IF \E i \in DOMAIN drafts : drafts[i].kind = "error" THEN Rejection ELSE drafts
  BY DEF Chunks
<1> HIDE DEF blocks
<1>3. runs \in Seq(Seq(BlocksOf(doc))) /\ Disjoint(runs) /\ AllOf(runs) = Range(blocks)
  <2>1. Distinct(blocks)
    BY <1>1, ApartIs
  <2>q. QED
    BY <1>1, <2>1, RunsAre
<1> HIDE DEF runs
<1>4. /\ DOMAIN runs = 1..Len(runs)
      /\ \A i \in 1..Len(runs) : /\ Apart(runs[i]) /\ runs[i] \in Seq(BlocksOf(doc))
                                 /\ Range(runs[i]) \subseteq Range(blocks)
  BY <1>1, <1>3, RunsApart
<1>5. ASSUME NEW i \in 1..Len(runs)
      PROVE  Sound(doc, part(i), StemsOf(Strategies, runs[i]), BodyOf(runs[i]))
  <2> DEFINE run == runs[i]
  <2>1. run \in Seq(BlocksOf(doc)) /\ Apart(run) /\ \A b \in Range(run) : InOrder(b)
    BY <1>1, <1>4
  <2> HIDE DEF run
  <2>2. Sound(doc, Table(run), StemsOf(Strategies, run), BodyOf(run))
    BY <2>1, TableSound
  <2>3. Sound(doc, DraftsByType(type, run), StemsOf(Strategies, run), BodyOf(run))
    BY <2>1, DraftsByTypeSound
  <2>q. QED
    BY <2>2, <2>3 DEF run
<1> HIDE DEF part
<1>6. D \in [DOMAIN runs -> Seq(Draft)]
  BY <1>4, <1>5 DEF Sound
<1>7. \A i \in 1..Len(runs) :
         Apart(runs[i]) => Sound(doc, D[i], StemsOf(Strategies, runs[i]), BodyOf(runs[i]))
  BY <1>4, <1>5
<1> HIDE DEF D
<1>8. Sound(doc, drafts, StemsOf(Strategies, blocks), BodyOf(blocks))
  BY <1>1, <1>3, <1>6, <1>7, SoundRuns
<1> HIDE DEF drafts
<1>9. Range(drafts) = {drafts[i] : i \in DOMAIN drafts}
  <2>1. drafts \in Seq(Draft)
    BY <1>8 DEF Sound
  <2>q. QED
    BY <2>1, RangeIs
<1>q. QED
  BY <1>2, <1>8, <1>9 DEF blocks
=============================================================================

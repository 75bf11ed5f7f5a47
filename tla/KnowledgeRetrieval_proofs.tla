----------------------- MODULE KnowledgeRetrieval_proofs ----------------------
(***************************************************************************)
(* What a search promises while the catalogue changes under it: it shows   *)
(* current parents only, whatever the stores and the reranker return, the  *)
(* local BM25 indexes are what their keys say, and the lock, the slots and *)
(* the cache keep their limits.  How a document is chunked enters as       *)
(* ChunksSound (Chunking_proofs): a child has its parent, and debug_chunks *)
(* shows chunks that keep the text of the document.                        *)
(***************************************************************************)
EXTENDS KnowledgeRetrieval, Chunking_proofs

-----------------------------------------------------------------------------
(* Chunks *)

\* What is chunked has one of the knowledge types, and blocks with text.
LEMMA MaterialIs ==
    ASSUME NEW m \in Material
    PROVE  /\ m.type \in {"generic", "policy", "manual", "faq", "mixed"}
           /\ m.doc \in Seq(SourceBlock)
BY DEF Material

\* The name of a child leads to its parent.
LEMMA ChildrenHaveParents ==
    ASSUME NEW v \in Versions, NEW c \in DraftsOf[v], c.kind = "child"
    PROVE  \E p \in DraftsOf[v] : p.kind = "parent" /\ p.id = Front(c.id)
<1> DEFINE type == TextOfVersion[v].type
           doc == TextOfVersion[v].doc
           chunks == Chunks(type, doc)
<1>1. type \in {"generic", "policy", "manual", "faq", "mixed"} /\ doc \in Seq(SourceBlock)
  BY RetrievalAssumption, MaterialIs
<1>2. DraftsOf[v] = Range(chunks)
  BY DEF DraftsOf
<1> HIDE DEF type, doc
<1>3. CASE chunks = Rejection
  <2>1. \A d \in Range(Rejection) : d.kind = "error"
    BY DEF Range, Rejection
  <2>q. QED
    BY <1>2, <1>3, <2>1
<1>4. CASE chunks # Rejection
  <2>1. Paired(doc, chunks)
    BY <1>1, <1>4, ChunksSound DEF Sound
  <2>2. c \in Children(chunks)
    BY <1>2 DEF Children
  <2>3. PICK p \in Parents(chunks) : Front(c.id) = p.id
    BY <2>1, <2>2 DEF Paired
  <2>q. QED
    BY <1>2, <2>3 DEF Parents
<1>q. QED
  BY <1>3, <1>4

-----------------------------------------------------------------------------
(* Rows and hits *)

RowsOfKind(kind) == UNION {UNION {Rows(v, p, kind) : p \in 0..1} : v \in Versions}

\* A hit names the version its index was built from.
HitSet == {h \in [child : RowsOfKind("child"), index : Indexes] :
             h.child \in UNION {Rows(VersionOf[h.index], p, "child") : p \in 0..1}}

LEMMA RowsAre ==
    ASSUME NEW v, NEW p, NEW kind, NEW row \in Rows(v, p, kind)
    PROVE  /\ row.version = v /\ row.parse = p
           /\ \E d \in DraftsOf[v] : /\ d.kind = kind
                                     /\ row = [version |-> v, parse |-> p, id |-> d.id]
<1>1. PICK d \in {e \in DraftsOf[v] : e.kind = kind} :
          row = [version |-> v, parse |-> p, id |-> d.id]
  BY DEF Rows
<1>q. QED
  BY <1>1

\* The parent of a child is a row of the same version and parse.
LEMMA ParentIs ==
    ASSUME NEW v \in Versions, NEW p, NEW child \in Rows(v, p, "child")
    PROVE  ParentOf(child) \in Rows(v, p, "parent")
<1>1. PICK c \in DraftsOf[v] :
          c.kind = "child" /\ child = [version |-> v, parse |-> p, id |-> c.id]
  BY RowsAre
<1>2. PICK d \in DraftsOf[v] : d.kind = "parent" /\ d.id = Front(c.id)
  BY <1>1, ChildrenHaveParents
<1>3. ParentOf(child) = [version |-> v, parse |-> p, id |-> d.id]
  BY <1>1, <1>2 DEF ParentOf
<1>4. [version |-> v, parse |-> p, id |-> d.id] \in Rows(v, p, "parent")
  BY <1>2 DEF Rows
<1>q. QED
  BY <1>3, <1>4

\* Whatever a store was given is a hit.
LEMMA HitsAre ==
    ASSUME NEW i \in Indexes, NEW p \in 0..1, NEW c \in Rows(VersionOf[i], p, "child")
    PROVE  Hit(c, i) \in HitSet
<1>1. VersionOf[i] \in Versions
  BY RetrievalAssumption
<1>2. c \in RowsOfKind("child")
  BY <1>1 DEF RowsOfKind
<1>3. c \in UNION {Rows(VersionOf[i], q, "child") : q \in 0..1}
  OBVIOUS
<1> HIDE DEF Rows
<1>q. QED
  BY <1>2, <1>3 DEF HitSet, Hit

-----------------------------------------------------------------------------
(* Types *)

Entry == [key : [indexes : SUBSET Indexes, signature : Nat], corpus : SUBSET HitSet, tokens : Nat]

ChannelType ==
    [state : {"off", "open", "locking", "building", "failed", "found"}, hits : SUBSET HitSet]

ReqType ==
    [pc : {"idle", "recalling", "waiting", "reranking", "done", "error", "cancelled"},
     listed : SUBSET Indexes, vector : ChannelType, words : ChannelType, signature : Nat,
     parents : Seq(RowsOfKind("parent")), applied : BOOLEAN]

CatalogTyped ==
    /\ active \subseteq Indexes /\ synced \subseteq Indexes /\ live \subseteq Documents
    /\ parse \in [Versions -> 0..1]
    /\ dictionary \in Nat /\ changes \in Nat /\ dictionary <= changes /\ changes <= MaxChanges

CacheTyped == cache \in Seq(Entry) /\ lock \in Requests \cup {None}

ReqTyped == req \in [Requests -> ReqType]

Typed == CatalogTyped /\ CacheTyped /\ ReqTyped

\* The requests other than r stay as they are.
OthersStay(r) == \A s \in Requests \ {r} : req'[s] = req[s]

\* What a step of a channel leaves alone.
RecallGoesOn(r) ==
    /\ req'[r].pc = req[r].pc /\ req'[r].listed = req[r].listed
    /\ req'[r].parents = req[r].parents /\ req'[r].applied = req[r].applied

LEMMA IdleTyped ==
    /\ Idle \in ReqType
    /\ \A pc \in {"idle", "done", "error", "cancelled"} : [Idle EXCEPT !.pc = pc] \in ReqType
<1>1. <<>> \in Seq(RowsOfKind("parent"))
  BY EmptySeq
<1>2. Channel("off", {}) \in ChannelType
  BY DEF Channel, ChannelType
<1>q. QED
  BY <1>1, <1>2 DEF Idle, ReqType

LEMMA KnownAre ==
    ASSUME CatalogTyped, NEW indexes \in SUBSET Indexes
    PROVE  Known(indexes) \subseteq HitSet
<1>1. ASSUME NEW h \in Known(indexes)
      PROVE  h \in HitSet
  <2>1. PICK i \in indexes :
          h \in {Hit(c, i) : c \in UNION {Rows(VersionOf[i], p, "child") :
                                            p \in 0..parse[VersionOf[i]]}}
    BY DEF Known
  <2>2. PICK p \in 0..parse[VersionOf[i]] :
          \E c \in Rows(VersionOf[i], p, "child") : h = Hit(c, i)
    BY <2>1
  <2>3. VersionOf[i] \in Versions /\ parse[VersionOf[i]] \in 0..1
    BY RetrievalAssumption DEF CatalogTyped
  <2>4. p \in 0..1
    BY <2>3
  <2>q. QED
    BY <2>2, <2>4, HitsAre
<1>q. QED
  BY <1>1

\* The children of some indexes, as the chunks are now.
Corpus(indexes) ==
    UNION {{Hit(c, i) : c \in Rows(VersionOf[i], parse[VersionOf[i]], "child")} : i \in indexes}

LEMMA CorpusIs ==
    ASSUME CatalogTyped, NEW indexes \in SUBSET Indexes
    PROVE  Corpus(indexes) \subseteq HitSet
<1>1. ASSUME NEW h \in Corpus(indexes)
      PROVE  h \in HitSet
  <2>1. PICK i \in indexes :
          \E c \in Rows(VersionOf[i], parse[VersionOf[i]], "child") : h = Hit(c, i)
    BY DEF Corpus
  <2>2. VersionOf[i] \in Versions /\ parse[VersionOf[i]] \in 0..1
    BY RetrievalAssumption DEF CatalogTyped
  <2>q. QED
    BY <2>1, <2>2, HitsAre
<1>q. QED
  BY <1>1

\* One channel of a request gets a state and hits.
LEMMA VectorSet ==
    ASSUME ReqTyped, NEW r \in Requests, NEW channel \in ChannelType, SetVector(r, channel)
    PROVE  /\ ReqTyped' /\ OthersStay(r) /\ RecallGoesOn(r)
           /\ req'[r].vector = channel /\ req'[r].words = req[r].words
           /\ req'[r].signature = req[r].signature
<1> DEFINE new == [req[r] EXCEPT !.vector = channel]
<1>1. req[r] \in ReqType
  BY DEF ReqTyped
<1>2. /\ new \in ReqType /\ new.pc = req[r].pc /\ new.listed = req[r].listed
      /\ new.parents = req[r].parents /\ new.applied = req[r].applied
      /\ new.vector = channel /\ new.words = req[r].words
      /\ new.signature = req[r].signature
  BY <1>1 DEF ReqType
<1>3. req' = [req EXCEPT ![r] = new]
  BY DEF SetVector
<1> HIDE DEF new
<1>q. QED
  BY <1>2, <1>3 DEF ReqTyped, OthersStay, RecallGoesOn

LEMMA WordsSet ==
    ASSUME ReqTyped, NEW r \in Requests, NEW channel \in ChannelType, SetWords(r, channel)
    PROVE  /\ ReqTyped' /\ OthersStay(r) /\ RecallGoesOn(r)
           /\ req'[r].words = channel /\ req'[r].vector = req[r].vector
           /\ req'[r].signature = req[r].signature
<1> DEFINE new == [req[r] EXCEPT !.words = channel]
<1>1. req[r] \in ReqType
  BY DEF ReqTyped
<1>2. /\ new \in ReqType /\ new.pc = req[r].pc /\ new.listed = req[r].listed
      /\ new.parents = req[r].parents /\ new.applied = req[r].applied
      /\ new.words = channel /\ new.vector = req[r].vector
      /\ new.signature = req[r].signature
  BY <1>1 DEF ReqType
<1>3. req' = [req EXCEPT ![r] = new]
  BY DEF SetWords
<1> HIDE DEF new
<1>q. QED
  BY <1>2, <1>3 DEF ReqTyped, OthersStay, RecallGoesOn

-----------------------------------------------------------------------------
(* What every step of a search does *)

LEMMA VectorIs ==
    ASSUME CatalogTyped, ReqTyped, NEW r \in Requests, VectorRecall(r)
    PROVE  /\ ReqTyped' /\ OthersStay(r) /\ RecallGoesOn(r)
           /\ req'[r].words = req[r].words /\ req'[r].signature = req[r].signature
<1>1. req[r].listed \cap Compatible \in SUBSET Indexes
  BY DEF ReqTyped, ReqType
<1>2. Known(req[r].listed \cap Compatible) \subseteq HitSet
  BY <1>1, KnownAre
<1>3. PICK channel \in ChannelType : SetVector(r, channel)
  BY <1>2 DEF VectorRecall, Channel, ChannelType
<1>q. QED
  BY <1>3, VectorSet

LEMMA StoreIs ==
    ASSUME CatalogTyped, ReqTyped, NEW r \in Requests, SearchStore(r)
    PROVE  /\ ReqTyped' /\ OthersStay(r) /\ RecallGoesOn(r)
           /\ req[r].words.state = "open" /\ req'[r].words.state \in {"found", "failed"}
           /\ req'[r].signature = req[r].signature
<1> DEFINE indexes == {i \in synced : DocumentOfIndex(i) \in Permitted}
<1>1. indexes \in SUBSET Indexes
  BY DEF CatalogTyped
<1>2. Known(indexes) \subseteq HitSet
  <2> HIDE DEF indexes
  <2>q. QED
    BY <1>1, KnownAre
<1> HIDE DEF indexes
<1>3. PICK channel \in ChannelType :
          SetWords(r, channel) /\ channel.state \in {"found", "failed"}
  BY <1>2 DEF SearchStore, Channel, ChannelType, indexes
<1>4. req[r].words.state = "open"
  BY DEF SearchStore
<1>q. QED
  BY <1>3, <1>4, WordsSet

\* The words are searched in an index that is there.
LEMMA CachedIs ==
    ASSUME CacheTyped, ReqTyped, NEW r \in Requests, NEW key, SearchCached(r, key)
    PROVE  /\ ReqTyped' /\ OthersStay(r) /\ RecallGoesOn(r)
           /\ req'[r].words.state = "found" /\ req'[r].signature = req[r].signature
<1>1. PICK n \in Cached(key) : SetWords(r, Channel("found", cache[n].corpus))
  BY DEF SearchCached
<1>2. cache[n] \in Entry
  <2>1. n \in 1..Len(cache)
    BY LenProperties DEF CacheTyped, Cached
  <2>q. QED
    BY <2>1, ElementOfSeq DEF CacheTyped
<1>3. Channel("found", cache[n].corpus) \in ChannelType
  BY <1>2 DEF Entry, Channel, ChannelType
<1>4. Channel("found", cache[n].corpus).state = "found"
  BY DEF Channel
<1>q. QED
  BY <1>1, <1>3, <1>4, WordsSet

LEMMA AskIs ==
    ASSUME Typed, NEW r \in Requests, AskIndex(r)
    PROVE  /\ ReqTyped' /\ OthersStay(r) /\ RecallGoesOn(r)
           /\ req[r].words.state = "open"
           /\ \/ req'[r].words.state = "found" /\ req'[r].signature = req[r].signature
              \/ req'[r].words.state = "locking" /\ req'[r].signature = dictionary
<1> DEFINE key == CacheKey(req[r].listed, dictionary)
           words == [req[r].words EXCEPT !.state = "locking"]
           new == [req[r] EXCEPT !.words = words, !.signature = dictionary]
<1>0. req[r] \in ReqType /\ req[r].words \in ChannelType /\ dictionary \in Nat
  BY DEF Typed, CatalogTyped, ReqTyped, ReqType
<1>1. CASE Cached(key) # {}
  <2>1. SearchCached(r, key) /\ req[r].words.state = "open"
    BY <1>1 DEF AskIndex
  <2> HIDE DEF key
  <2>q. QED
    BY <2>1, CachedIs DEF Typed
<1>2. CASE Cached(key) = {}
  <2>1. req' = [req EXCEPT ![r] = new] /\ req[r].words.state = "open"
    <3>1. /\ req' = [req EXCEPT ![r].words.state = "locking", ![r].signature = dictionary]
          /\ req[r].words.state = "open"
      BY <1>2 DEF AskIndex
    <3>2. [req EXCEPT ![r].words.state = "locking", ![r].signature = dictionary]
            = [req EXCEPT ![r] = new]
      BY <1>0 DEF Typed, ReqTyped, ReqType, ChannelType
    <3>q. QED
      BY <3>1, <3>2
  <2>2. words \in ChannelType /\ words.state = "locking"
    BY <1>0 DEF ChannelType
  <2> HIDE DEF words
  <2>3. /\ new \in ReqType /\ new.pc = req[r].pc /\ new.listed = req[r].listed
        /\ new.parents = req[r].parents /\ new.applied = req[r].applied
        /\ new.words.state = "locking" /\ new.signature = dictionary
    BY <1>0, <2>2 DEF ReqType
  <2> HIDE DEF new
  <2>q. QED
    BY <2>1, <2>3 DEF Typed, ReqTyped, OthersStay, RecallGoesOn
<1>q. QED
  BY <1>1, <1>2

LEMMA LockIs ==
    ASSUME Typed, NEW r \in Requests, LockIndex(r)
    PROVE  /\ ReqTyped' /\ OthersStay(r) /\ RecallGoesOn(r)
           /\ req'[r].signature = req[r].signature
           /\ req[r].words.state = "locking" /\ lock = None /\ UNCHANGED cache
           /\ \/ req'[r].words.state = "found" /\ lock' = lock
              \/ /\ req'[r].words.state = "building" /\ lock' = r
                 /\ Cached(CacheKey(req[r].listed, req[r].signature)) = {}
<1> DEFINE key == CacheKey(req[r].listed, req[r].signature)
           words == [req[r].words EXCEPT !.state = "building"]
<1>0. req[r] \in ReqType /\ req[r].words \in ChannelType
  BY DEF Typed, ReqTyped, ReqType
<1>a. req[r].words.state = "locking" /\ lock = None /\ UNCHANGED cache
  BY DEF LockIndex
<1>1. CASE Cached(key) # {}
  <2>1. SearchCached(r, key) /\ lock' = lock
    BY <1>1 DEF LockIndex
  <2> HIDE DEF key
  <2>q. QED
    BY <1>a, <2>1, CachedIs DEF Typed
<1>2. CASE Cached(key) = {}
  <2>1. lock' = r /\ req' = [req EXCEPT ![r].words.state = "building"]
    BY <1>2 DEF LockIndex
  <2>2. SetWords(r, words)
    <3>1. [req EXCEPT ![r].words.state = "building"] = [req EXCEPT ![r].words = words]
      BY <1>0 DEF Typed, ReqTyped, ReqType, ChannelType
    <3>q. QED
      BY <2>1, <3>1 DEF SetWords
  <2>3. words \in ChannelType /\ words.state = "building"
    BY <1>0 DEF ChannelType
  <2> HIDE DEF words
  <2>4. /\ ReqTyped' /\ OthersStay(r) /\ RecallGoesOn(r) /\ req'[r].words = words
        /\ req'[r].signature = req[r].signature
    BY <2>2, <2>3, WordsSet DEF Typed
  <2>q. QED
    BY <1>2, <1>a, <2>1, <2>3, <2>4
<1>q. QED
  BY <1>1, <1>2

LEMMA BuildIs ==
    ASSUME Typed, NEW r \in Requests, BuildIndex(r)
    PROVE  LET e == [key |-> CacheKey(req[r].listed, req[r].signature),
                     corpus |-> Corpus(req[r].listed), tokens |-> dictionary]
           IN  /\ ReqTyped' /\ OthersStay(r) /\ RecallGoesOn(r)
               /\ req'[r].signature = req[r].signature
               /\ req[r].words.state = "building" /\ lock' = None
               /\ req'[r].words.state \in {"found", "failed"}
               /\ e \in Entry
               /\ cache' = cache \/ cache' = Append(Evicted(cache), e)
<1> DEFINE e == [key |-> CacheKey(req[r].listed, req[r].signature),
                 corpus |-> Corpus(req[r].listed), tokens |-> dictionary]
<1>0. /\ req[r].listed \in SUBSET Indexes /\ req[r].signature \in Nat /\ dictionary \in Nat
  BY DEF Typed, CatalogTyped, ReqTyped, ReqType
<1>1. Corpus(req[r].listed) \subseteq HitSet
  BY <1>0, CorpusIs DEF Typed
<1>2. e \in Entry
  BY <1>0, <1>1 DEF Entry, CacheKey
<1>3. \E channel \in ChannelType :
          /\ SetWords(r, channel) /\ channel.state \in {"found", "failed"}
          /\ cache' = cache \/ cache' = Append(Evicted(cache), e)
  <2>1. /\ Channel("found", Corpus(req[r].listed)) \in ChannelType
        /\ Channel("found", Corpus(req[r].listed)).state = "found"
        /\ Channel("failed", {}) \in ChannelType
        /\ Channel("failed", {}).state = "failed"
    BY <1>1 DEF Channel, ChannelType
  <2>2. \/ /\ cache' = Append(Evicted(cache), e)
           /\ SetWords(r, Channel("found", Corpus(req[r].listed)))
        \/ SetWords(r, Channel("failed", {})) /\ UNCHANGED cache
    BY DEF BuildIndex, Corpus
  <2> HIDE DEF e
  <2>q. QED
    BY <2>1, <2>2
<1> HIDE DEF e
<1>4. PICK channel \in ChannelType :
          /\ SetWords(r, channel) /\ channel.state \in {"found", "failed"}
          /\ cache' = cache \/ cache' = Append(Evicted(cache), e)
  BY <1>3
<1>5. req[r].words.state = "building" /\ lock' = None
  BY DEF BuildIndex
<1>q. QED
  BY <1>2, <1>4, <1>5, WordsSet DEF Typed, e

LEMMA BeginIs ==
    ASSUME ReqTyped, NEW r \in Requests, Begin(r)
    PROVE  /\ ReqTyped' /\ OthersStay(r) /\ req[r] = Idle
           /\ req'[r].pc \in {"done", "recalling"} /\ req'[r].parents = <<>>
           /\ req'[r].words.state \in {"off", "open"} /\ req'[r].signature = 0
<1> DEFINE targets == {i \in Indexes : Readable(i)}
           listed == IF ModeOf[r] = "vector" THEN targets \cap Compatible ELSE targets
           vector == IF ModeOf[r] = "bm25" THEN "off"
                     ELSE IF listed \cap Compatible = {} THEN "found" ELSE "open"
           words == IF ModeOf[r] = "vector" THEN "off" ELSE "open"
           search == [Idle EXCEPT !.pc = "recalling", !.listed = listed,
                                  !.vector = Channel(vector, {}), !.words = Channel(words, {})]
           new == IF listed = {} THEN [Idle EXCEPT !.pc = "done"] ELSE search
<1>1. req' = [req EXCEPT ![r] = new] /\ req[r] = Idle
  BY DEF Begin
<1>2. listed \in SUBSET Indexes /\ vector \in {"off", "open", "found"} /\ words \in {"off", "open"}
  OBVIOUS
<1> HIDE DEF listed, vector, words
<1>3. /\ search.pc = "recalling" /\ search.parents = <<>> /\ search.signature = 0
      /\ search.words.state = words /\ search \in ReqType
  <2>1. /\ Channel(vector, {}) \in ChannelType /\ Channel(words, {}) \in ChannelType
        /\ Channel(words, {}).state = words
    BY <1>2 DEF Channel, ChannelType
  <2>2. <<>> \in Seq(RowsOfKind("parent"))
    BY EmptySeq
  <2>q. QED
    BY <1>2, <2>1, <2>2 DEF Idle, ReqType
<1>4. LET ended == [Idle EXCEPT !.pc = "done"]
      IN  /\ ended.pc = "done" /\ ended.parents = <<>> /\ ended.signature = 0
          /\ ended.words.state = "off" /\ ended \in ReqType
  <2>1. [Idle EXCEPT !.pc = "done"] \in ReqType
    BY IdleTyped
  <2>q. QED
    BY <2>1 DEF Idle, Channel
<1>5. /\ new.pc \in {"done", "recalling"} /\ new.parents = <<>> /\ new.signature = 0
      /\ new.words.state \in {"off", "open"} /\ new \in ReqType
  <2> HIDE DEF search
  <2>q. QED
    BY <1>2, <1>3, <1>4
<1> HIDE DEF new
<1>q. QED
  BY <1>1, <1>5 DEF ReqTyped, OthersStay

\* The parents that may be shown now.
Current == UNION {Rows(VersionOf[i], parse[VersionOf[i]], "parent") : i \in {j \in Indexes : Readable(j)}}

LEMMA CurrentTyped ==
    ASSUME CatalogTyped
    PROVE  Current \subseteq RowsOfKind("parent")
<1>1. ASSUME NEW row \in Current
      PROVE  row \in RowsOfKind("parent")
  <2>1. PICK i \in Indexes : row \in Rows(VersionOf[i], parse[VersionOf[i]], "parent")
    BY DEF Current
  <2>2. VersionOf[i] \in Versions /\ parse[VersionOf[i]] \in 0..1
    BY RetrievalAssumption DEF CatalogTyped
  <2>q. QED
    BY <2>1, <2>2 DEF RowsOfKind
<1>q. QED
  BY <1>1

\* A hit that passes the check in MySQL has a parent that may be shown.
LEMMA ValidIs ==
    ASSUME CatalogTyped, NEW r, NEW h \in HitSet, Valid(r, h)
    PROVE  ParentOf(h.child) \in Current
<1>1. /\ h.index \in Indexes /\ Readable(h.index) /\ VersionOf[h.index] \in Versions
      /\ h.child.parse = parse[h.child.version]
  BY RetrievalAssumption DEF HitSet, Valid
<1>2. PICK p \in 0..1 : h.child \in Rows(VersionOf[h.index], p, "child")
  BY DEF HitSet
<1>3. h.child.version = VersionOf[h.index] /\ h.child.parse = p
  BY <1>2, RowsAre
<1>4. ParentOf(h.child) \in Rows(VersionOf[h.index], parse[VersionOf[h.index]], "parent")
  BY <1>1, <1>2, <1>3, ParentIs
<1>q. QED
  BY <1>1, <1>4 DEF Current

\* What is planned from checked hits are parents that may be shown, each once.
LEMMA PlanIs ==
    ASSUME CatalogTyped, ReqTyped, NEW r \in Requests, NEW hits \in Accepted(r)
    PROVE  Plan(hits) \in Seq(Current) /\ Distinct(Plan(hits))
<1> DEFINE valid == {h \in RawHits(r) : Valid(r, h)}
           parents == [n \in 1..Len(hits) |-> ParentOf(hits[n].child)]
<1>1. hits \in Seq(valid)
  <2>1. hits \in BoundedSeq(valid, ChildTopK)
    BY DEF Accepted
  <2> HIDE DEF valid
  <2>q. QED
    BY <2>1, BoundedIsSeq
<1>2. valid \subseteq HitSet /\ \A h \in valid : Valid(r, h)
  BY DEF RawHits, ReqTyped, ReqType, ChannelType
<1> HIDE DEF valid
<1>3. DOMAIN hits = 1..Len(hits) /\ Len(hits) \in Nat
  BY <1>1, LenProperties
<1>4. \A n \in 1..Len(hits) : ParentOf(hits[n].child) \in Current
  <2>1. ASSUME NEW n \in 1..Len(hits)
        PROVE  ParentOf(hits[n].child) \in Current
    <3>1. hits[n] \in valid
      BY <1>1, ElementOfSeq
    <3>q. QED
      BY <1>2, <3>1, ValidIs
  <2>q. QED
    BY <2>1
<1>5. parents \in Seq(Current)
  BY <1>3, <1>4, IsASeq
<1>6. Plan(hits) = Once(parents)
  BY <1>3 DEF Plan
<1> HIDE DEF parents
<1>q. QED
  BY <1>5, <1>6, OnceIs

LEMMA ExpandIs ==
    ASSUME CatalogTyped, ReqTyped, NEW r \in Requests, Expand(r)
    PROVE  /\ ReqTyped' /\ OthersStay(r)
           /\ req[r].pc = "recalling" /\ req[r].words.state \notin {"open", "locking", "building"}
           /\ req'[r].pc \in {"error", "waiting", "done"}
           /\ req'[r].words.state = "off" /\ req'[r].signature = 0
           /\ req'[r].applied = FALSE
           /\ req'[r].parents \in Seq(Current) /\ Distinct(req'[r].parents)
<1>1. req[r].pc = "recalling" /\ req[r].words.state \notin {"open", "locking", "building"}
  BY DEF Expand, Open
<1>2. CASE req' = [req EXCEPT ![r] = [Idle EXCEPT !.pc = "error"]]
  <2> DEFINE new == [Idle EXCEPT !.pc = "error"]
  <2>1. /\ new \in ReqType /\ new.pc = "error" /\ new.words.state = "off"
        /\ new.signature = 0 /\ new.applied = FALSE /\ new.parents = <<>>
    <3>1. new \in ReqType
      BY IdleTyped
    <3>q. QED
      BY <3>1 DEF Idle, Channel
  <2>2. req' = [req EXCEPT ![r] = new]
    BY <1>2
  <2> HIDE DEF new
  <2>3. <<>> \in Seq(Current) /\ Distinct(<<>>)
    BY EmptySeq, RangeOfEmpty DEF Distinct
  <2>q. QED
    BY <1>1, <2>1, <2>2, <2>3 DEF ReqTyped, OthersStay
<1>3. ASSUME NEW hits \in Accepted(r), NEW rerank \in BOOLEAN,
             req' = [req EXCEPT ![r] = [Idle EXCEPT
                  !.pc = IF rerank /\ Plan(hits) # <<>> THEN "waiting" ELSE "done",
                  !.parents = FirstOf(Plan(hits), IF rerank THEN CandidateK ELSE ParentTopK)]]
      PROVE  /\ ReqTyped' /\ OthersStay(r)
             /\ req'[r].pc \in {"waiting", "done"}
             /\ req'[r].words.state = "off" /\ req'[r].signature = 0
             /\ req'[r].applied = FALSE
             /\ req'[r].parents \in Seq(Current) /\ Distinct(req'[r].parents)
  <2> DEFINE k == IF rerank THEN CandidateK ELSE ParentTopK
             pc == IF rerank /\ Plan(hits) # <<>> THEN "waiting" ELSE "done"
             shown == FirstOf(Plan(hits), k)
             new == [Idle EXCEPT !.pc = pc, !.parents = shown]
  <2>1. Plan(hits) \in Seq(Current) /\ Distinct(Plan(hits))
    BY PlanIs
  <2>2. k \in Nat /\ pc \in {"waiting", "done"}
    BY RetrievalAssumption
  <2>3. req' = [req EXCEPT ![r] = new]
    BY <1>3
  <2> HIDE DEF k, pc
  <2>4. shown \in Seq(Current) /\ Distinct(shown)
    BY <2>1, <2>2, FirstOfIs
  <2> HIDE DEF shown
  <2>5. shown \in Seq(RowsOfKind("parent"))
    BY <2>4, CurrentTyped, SeqMonotonic
  <2>6. /\ new \in ReqType /\ new.pc = pc /\ new.words.state = "off"
        /\ new.signature = 0 /\ new.applied = FALSE /\ new.parents = shown
    <3>1. Channel("off", {}) \in ChannelType /\ Channel("off", {}).state = "off"
      BY DEF Channel, ChannelType
    <3>q. QED
      BY <2>2, <2>5, <3>1 DEF Idle, ReqType
  <2> HIDE DEF new
  <2>q. QED
    BY <2>2, <2>3, <2>4, <2>6 DEF ReqTyped, OthersStay
<1>q. QED
  <2>1. \/ req' = [req EXCEPT ![r] = [Idle EXCEPT !.pc = "error"]]
        \/ \E plan \in {Plan(hits) : hits \in Accepted(r)}, rerank \in BOOLEAN :
               req' = [req EXCEPT ![r] = [Idle EXCEPT
                  !.pc = IF rerank /\ plan # <<>> THEN "waiting" ELSE "done",
                  !.parents = FirstOf(plan, IF rerank THEN CandidateK ELSE ParentTopK)]]
    BY DEF Expand
  <2>2. CASE ~(req' = [req EXCEPT ![r] = [Idle EXCEPT !.pc = "error"]])
    <3>1. PICK plan \in {Plan(hits) : hits \in Accepted(r)}, rerank \in BOOLEAN :
               req' = [req EXCEPT ![r] = [Idle EXCEPT
                  !.pc = IF rerank /\ plan # <<>> THEN "waiting" ELSE "done",
                  !.parents = FirstOf(plan, IF rerank THEN CandidateK ELSE ParentTopK)]]
      BY <2>1, <2>2
    <3>2. PICK hits \in Accepted(r) : plan = Plan(hits)
      OBVIOUS
    <3>q. QED
      BY <1>1, <1>3, <3>1, <3>2
  <2>q. QED
    BY <1>2, <2>2

\* What the reranking leaves alone.
RestStays(r) ==
    /\ req'[r].words = req[r].words /\ req'[r].signature = req[r].signature
    /\ req'[r].listed = req[r].listed

LEMMA TakeIs ==
    ASSUME ReqTyped, NEW r \in Requests, TakeSlot(r)
    PROVE  /\ ReqTyped' /\ OthersStay(r) /\ RestStays(r)
           /\ req[r].pc = "waiting" /\ req'[r].pc = "reranking"
           /\ req'[r].parents = req[r].parents /\ req'[r].applied = req[r].applied
<1> DEFINE new == [req[r] EXCEPT !.pc = "reranking"]
<1>1. req' = [req EXCEPT ![r] = new] /\ req[r].pc = "waiting" /\ req[r] \in ReqType
  BY DEF TakeSlot, ReqTyped
<1>2. /\ new \in ReqType /\ new.pc = "reranking" /\ new.parents = req[r].parents
      /\ new.words = req[r].words /\ new.signature = req[r].signature
      /\ new.listed = req[r].listed
      /\ new.applied = req[r].applied
  BY <1>1 DEF ReqType
<1> HIDE DEF new
<1>q. QED
  BY <1>1, <1>2 DEF ReqTyped, OthersStay, RestStays

\* The part of the order that is shown.
Shown(parents) == FirstOf(parents, ParentTopK)

LEMMA ShownIs ==
    ASSUME NEW S, NEW s \in Seq(S)
    PROVE  /\ Shown(s) \in Seq(S) /\ Range(Shown(s)) \subseteq Range(s)
           /\ Len(Shown(s)) = IF Len(s) < ParentTopK THEN Len(s) ELSE ParentTopK
           /\ Distinct(s) => Distinct(Shown(s))
<1>1. ParentTopK \in Nat
  BY RetrievalAssumption
<1>q. QED
  BY <1>1, FirstOfIs DEF Shown

LEMMA FallIs ==
    ASSUME ReqTyped, NEW r \in Requests, FallBack(r)
    PROVE  /\ ReqTyped' /\ OthersStay(r) /\ RestStays(r)
           /\ MayTimeOut(r) /\ req'[r].pc = "done"
           /\ req'[r].parents = Shown(req[r].parents)
<1> DEFINE shown == Shown(req[r].parents)
           new == [req[r] EXCEPT !.pc = "done", !.parents = shown]
<1>0. req[r] \in ReqType /\ req[r].parents \in Seq(RowsOfKind("parent"))
  BY DEF ReqTyped, ReqType
<1>1. req' = [req EXCEPT ![r] = new] /\ MayTimeOut(r)
  <2>1. /\ req' = [req EXCEPT ![r].pc = "done", ![r].parents = FirstOf(@, ParentTopK)]
        /\ MayTimeOut(r)
    BY DEF FallBack
  <2>2. [req EXCEPT ![r].pc = "done", ![r].parents = FirstOf(@, ParentTopK)]
          = [req EXCEPT ![r] = new]
    BY <1>0 DEF ReqTyped, ReqType, Shown
  <2>q. QED
    BY <2>1, <2>2
<1>2. shown \in Seq(RowsOfKind("parent"))
  BY <1>0, ShownIs
<1> HIDE DEF shown
<1>3. /\ new \in ReqType /\ new.pc = "done" /\ new.parents = shown
      /\ new.words = req[r].words /\ new.signature = req[r].signature
      /\ new.listed = req[r].listed
  BY <1>0, <1>2 DEF ReqType
<1> HIDE DEF new
<1>q. QED
  BY <1>1, <1>3 DEF ReqTyped, OthersStay, RestStays, shown

\* A complete answer has the parents it was asked about, as many times each.
LEMMA CompleteIs ==
    ASSUME NEW S, NEW parents \in Seq(S), Distinct(parents), NEW descending,
           NEW items \in Answers(parents), Complete(parents, items, descending)
    PROVE  /\ items \in Seq(S) /\ Range(items) = Range(parents)
           /\ Distinct(items) /\ Len(items) = Len(parents)
<1>1. items \in Seq(Range(parents) \cup {None})
  BY BoundedIsSeq DEF Answers
<1>2. IsInjective(items) /\ Range(items) = Range(parents)
  BY DEF Complete
<1>3. Distinct(items)
  BY <1>1, <1>2, InjectiveIsDistinct
<1>4. items \in Seq(S)
  <2>1. items \in Seq(Range(items)) /\ Range(items) \subseteq S
    BY <1>1, <1>2, SeqOfRange, RangeIs
  <2>q. QED
    BY <2>1, SeqMonotonic
<1>5. Cardinality(Range(items)) = Len(items) /\ Cardinality(Range(parents)) = Len(parents)
  BY <1>3, <1>4, DistinctCount
<1>q. QED
  BY <1>2, <1>3, <1>4, <1>5

LEMMA RerankIs ==
    ASSUME ReqTyped, NEW r \in Requests, Distinct(req[r].parents), NEW descending \in BOOLEAN,
           NEW items \in Answers(req[r].parents), Reranked(r, items, descending)
    PROVE  /\ ReqTyped' /\ OthersStay(r) /\ RestStays(r)
           /\ req[r].pc = "reranking" /\ req'[r].pc = "done"
           /\ Len(req'[r].parents) = Len(Shown(req[r].parents))
           /\ Distinct(req'[r].parents) /\ Range(req'[r].parents) \subseteq Range(req[r].parents)
           /\ ~req'[r].applied => req'[r].parents = Shown(req[r].parents)
<1> DEFINE applied == Complete(req[r].parents, items, descending)
           order == IF applied THEN items ELSE req[r].parents
           shown == Shown(order)
           new == [req[r] EXCEPT !.pc = "done", !.applied = applied, !.parents = shown]
<1>0. req[r] \in ReqType /\ req[r].parents \in Seq(RowsOfKind("parent"))
  BY DEF ReqTyped, ReqType
<1>1. req' = [req EXCEPT ![r] = new] /\ req[r].pc = "reranking"
  <2>1. /\ req' = [req EXCEPT ![r].pc = "done", ![r].applied = applied,
                    ![r].parents = FirstOf(IF applied THEN items ELSE @, ParentTopK)]
        /\ req[r].pc = "reranking"
    BY DEF Reranked
  <2> HIDE DEF applied
  <2>2. [req EXCEPT ![r].pc = "done", ![r].applied = applied,
                    ![r].parents = FirstOf(IF applied THEN items ELSE @, ParentTopK)]
          = [req EXCEPT ![r] = new]
    BY <1>0 DEF ReqTyped, ReqType, Shown
  <2>q. QED
    BY <2>1, <2>2
<1>2. /\ order \in Seq(RowsOfKind("parent")) /\ Range(order) = Range(req[r].parents)
      /\ Distinct(order) /\ Len(order) = Len(req[r].parents)
  BY <1>0, CompleteIs
<1>3. applied \in BOOLEAN /\ (~applied => order = req[r].parents)
  BY DEF Complete
<1> HIDE DEF order, applied
<1>4. /\ shown \in Seq(RowsOfKind("parent")) /\ Range(shown) \subseteq Range(req[r].parents)
      /\ Distinct(shown) /\ Len(shown) = Len(Shown(req[r].parents))
      /\ ~applied => shown = Shown(req[r].parents)
  BY <1>0, <1>2, <1>3, ShownIs
<1> HIDE DEF shown
<1>5. /\ new \in ReqType /\ new.pc = "done" /\ new.parents = shown /\ new.applied = applied
      /\ new.words = req[r].words /\ new.signature = req[r].signature
      /\ new.listed = req[r].listed
  BY <1>0, <1>3, <1>4 DEF ReqType
<1> HIDE DEF new
<1>q. QED
  BY <1>1, <1>4, <1>5 DEF ReqTyped, OthersStay, RestStays

LEMMA CancelIs ==
    ASSUME ReqTyped, NEW r \in Requests, Cancel(r)
    PROVE  /\ ReqTyped' /\ OthersStay(r)
           /\ req[r].pc \in {"recalling", "waiting", "reranking"}
           /\ req'[r].pc = "cancelled" /\ req'[r].parents = <<>>
           /\ req'[r].words.state = "off" /\ req'[r].signature = 0
           /\ lock' = IF lock = r THEN None ELSE lock
<1> DEFINE new == [Idle EXCEPT !.pc = "cancelled"]
<1>1. /\ req' = [req EXCEPT ![r] = new] /\ req[r].pc \in {"recalling", "waiting", "reranking"}
      /\ lock' = IF lock = r THEN None ELSE lock
  BY DEF Cancel
<1>2. /\ new \in ReqType /\ new.pc = "cancelled" /\ new.parents = <<>>
      /\ new.words.state = "off" /\ new.signature = 0
  <2>1. new \in ReqType
    BY IdleTyped
  <2>q. QED
    BY <2>1 DEF Idle, Channel
<1> HIDE DEF new
<1>q. QED
  BY <1>1, <1>2 DEF ReqTyped, OthersStay

-----------------------------------------------------------------------------
(* Types, and the parents of a search *)

\* A search has no parents before the check, and afterwards each of them once;
\* what awaits the reranker is not applied yet.
RankInv ==
    \A r \in Requests :
        /\ req[r].pc = "recalling" => req[r].parents = <<>>
        /\ MayTimeOut(r) => Distinct(req[r].parents)

\* The catalogue and the dictionary change, and the searches do not.
CatalogMoves ==
    \/ \E i \in Indexes : Activate(i)
    \/ \E d \in Documents : Delete(d)
    \/ \E v \in Versions : Reparse(v)
    \/ Release
    \/ \E sample \in Samples : DebugChunks(sample)

\* No parse and no dictionary comes back.
LEMMA CatalogIs ==
    ASSUME CatalogTyped, CatalogMoves
    PROVE  /\ CatalogTyped' /\ UNCHANGED <<cache, lock, req>>
           /\ dictionary <= dictionary'
           /\ \A v \in Versions : parse'[v] = 0 => parse[v] = 0
<1>0. MaxChanges \in Nat
  BY RetrievalAssumption
<1>1. ASSUME NEW i \in Indexes, Activate(i)
      PROVE  /\ CatalogTyped' /\ UNCHANGED <<cache, lock, req>> /\ UNCHANGED <<dictionary, parse>>
  BY <1>0, <1>1 DEF Activate, Change, CatalogTyped
<1>2. ASSUME NEW d \in Documents, Delete(d)
      PROVE  /\ CatalogTyped' /\ UNCHANGED <<cache, lock, req>> /\ UNCHANGED <<dictionary, parse>>
  BY <1>0, <1>2 DEF Delete, Change, CatalogTyped
<1>3. ASSUME NEW v \in Versions, Reparse(v)
      PROVE  /\ CatalogTyped' /\ UNCHANGED <<cache, lock, req>> /\ UNCHANGED dictionary
             /\ \A w \in Versions : parse'[w] = 0 => parse[w] = 0
  BY <1>0, <1>3 DEF Reparse, Change, CatalogTyped
<1>4. CASE Release
  BY <1>0, <1>4 DEF Release, Change, CatalogTyped
<1>5. ASSUME NEW sample \in Samples, DebugChunks(sample)
      PROVE  /\ CatalogTyped' /\ UNCHANGED <<cache, lock, req>> /\ UNCHANGED <<dictionary, parse>>
  BY <1>5 DEF DebugChunks, catalogVars, CatalogTyped
<1>6. UNCHANGED dictionary => dictionary <= dictionary'
  BY DEF CatalogTyped
<1>q. QED
  BY <1>1, <1>2, <1>3, <1>4, <1>5, <1>6 DEF CatalogMoves

\* A search changes nothing of the catalogue.
SearchMoves(r) ==
    \/ Begin(r) \/ VectorRecall(r) \/ SearchStore(r) \/ AskIndex(r) \/ LockIndex(r)
    \/ BuildIndex(r) \/ Expand(r) \/ FallBack(r) \/ TakeSlot(r) \/ Cancel(r)
    \/ \E items \in Answers(req[r].parents), descending \in BOOLEAN :
          Reranked(r, items, descending)

LEMMA MovesAre ==
    ASSUME [Next]_vars
    PROVE  \/ CatalogMoves
           \/ \E r \in Requests : SearchMoves(r) /\ UNCHANGED catalogVars
           \/ UNCHANGED <<catalogVars, cache, lock, req>>
<1>1. ASSUME NEW r \in Requests, SearchMoves(r)
      PROVE  UNCHANGED catalogVars
  <2>1. CASE Begin(r) \/ Cancel(r)
    BY <2>1 DEF Begin, Cancel
  <2>2. CASE VectorRecall(r) \/ SearchStore(r) \/ AskIndex(r)
    BY <2>2 DEF VectorRecall, SearchStore, AskIndex, RestOfRecall
  <2>3. CASE LockIndex(r) \/ BuildIndex(r) \/ Expand(r)
    BY <2>3 DEF LockIndex, BuildIndex, Expand, RestOfRecall
  <2>4. CASE FallBack(r) \/ TakeSlot(r)
    BY <2>4 DEF FallBack, TakeSlot, RestOfRerank
  <2>5. ASSUME NEW items \in Answers(req[r].parents), NEW descending \in BOOLEAN,
               Reranked(r, items, descending)
        PROVE  UNCHANGED catalogVars
    BY <2>5 DEF Reranked, RestOfRerank
  <2>q. QED
    BY <1>1, <2>1, <2>2, <2>3, <2>4, <2>5 DEF SearchMoves
<1>2. CASE Next
  <2>1. CatalogMoves \/ \E r \in Requests : SearchMoves(r)
    BY <1>2 DEF Next, Search, CatalogMoves, SearchMoves
  <2>q. QED
    BY <1>1, <2>1
<1>3. CASE UNCHANGED vars
  BY <1>3 DEF vars, catalogVars
<1>q. QED
  BY <1>2, <1>3

\* A search changes its own record only, and the cache and the lock when it
\* builds an index.
LEMMA SearchIs ==
    ASSUME Typed, RankInv, NEW r \in Requests, SearchMoves(r)
    PROVE  /\ ReqTyped' /\ OthersStay(r)
           /\ BuildIndex(r) \/ UNCHANGED cache
           /\ BuildIndex(r) \/ LockIndex(r) \/ Cancel(r) \/ UNCHANGED lock
<1>1. CASE Begin(r) \/ Cancel(r)
  BY <1>1, BeginIs, CancelIs DEF Typed, Begin, Cancel
<1>2. CASE VectorRecall(r) \/ SearchStore(r) \/ AskIndex(r)
  BY <1>2, VectorIs, StoreIs, AskIs DEF Typed, VectorRecall, SearchStore, AskIndex
<1>3. CASE LockIndex(r) \/ BuildIndex(r)
  BY <1>3, LockIs, BuildIs
<1>4. CASE Expand(r)
  BY <1>4, ExpandIs DEF Typed, Expand
<1>5. CASE FallBack(r) \/ TakeSlot(r)
  BY <1>5, FallIs, TakeIs DEF Typed, FallBack, TakeSlot, RestOfRerank
<1>6. ASSUME NEW items \in Answers(req[r].parents), NEW descending \in BOOLEAN,
             Reranked(r, items, descending)
      PROVE  /\ ReqTyped' /\ OthersStay(r) /\ UNCHANGED <<cache, lock>>
  <2>1. req[r].pc = "reranking"
    BY <1>6 DEF Reranked
  <2>2. Distinct(req[r].parents)
    BY <2>1 DEF RankInv, MayTimeOut
  <2>q. QED
    BY <1>6, <2>2, RerankIs DEF Typed, Reranked, RestOfRerank
<1>q. QED
  BY <1>1, <1>2, <1>3, <1>4, <1>5, <1>6 DEF SearchMoves

\* Only a lock starts a build, only its end or a cancellation ends it, and the
\* key of what is built stays.
LEMMA WordsAre ==
    ASSUME Typed, RankInv, NEW r \in Requests, SearchMoves(r)
    PROVE  /\ req'[r].signature \in {req[r].signature, dictionary, 0}
           /\ ~(BuildIndex(r) \/ LockIndex(r) \/ Cancel(r)) =>
                 /\ req'[r].words.state = "building" <=> req[r].words.state = "building"
                 /\ req'[r].words.state = "building" =>
                       /\ req'[r].listed = req[r].listed
                       /\ req'[r].signature = req[r].signature
<1>1. CASE Begin(r)
  <2>1. req[r].words.state = "off"
    BY <1>1, BeginIs DEF Idle, Channel, Typed
  <2>q. QED
    BY <1>1, <2>1, BeginIs DEF Typed
<1>2. CASE VectorRecall(r)
  BY <1>2, VectorIs DEF Typed, RecallGoesOn
<1>3. CASE SearchStore(r)
  BY <1>3, StoreIs DEF Typed
<1>4. CASE AskIndex(r)
  BY <1>4, AskIs
<1>5. CASE LockIndex(r) \/ BuildIndex(r)
  BY <1>5, LockIs, BuildIs
<1>6. CASE Cancel(r)
  BY <1>6, CancelIs DEF Typed
<1>7. CASE Expand(r)
  BY <1>7, ExpandIs DEF Typed
<1>8. CASE FallBack(r) \/ TakeSlot(r)
  BY <1>8, FallIs, TakeIs DEF Typed, RestStays
<1>9. ASSUME NEW items \in Answers(req[r].parents), NEW descending \in BOOLEAN,
             Reranked(r, items, descending)
      PROVE  RestStays(r)
  <2>1. req[r].pc = "reranking"
    BY <1>9 DEF Reranked
  <2>2. Distinct(req[r].parents)
    BY <2>1 DEF RankInv, MayTimeOut
  <2>q. QED
    BY <1>9, <2>2, RerankIs DEF Typed
<1>q. QED
  BY <1>1, <1>2, <1>3, <1>4, <1>5, <1>6, <1>7, <1>8, <1>9 DEF SearchMoves, RestStays

-----------------------------------------------------------------------------
(* The cache *)

\* A process keeps no more indexes than it may, one for a key, and none yet for
\* the key of what is being built: whoever waited for the lock looked again.
KeysInv ==
    /\ Len(cache) <= MaxCached
    /\ \A m, n \in 1..Len(cache) : cache[m].key = cache[n].key => m = n
    /\ \A r \in Requests : req[r].words.state = "building" =>
          \A n \in 1..Len(cache) : cache[n].key # CacheKey(req[r].listed, req[r].signature)

\* Dropping the oldest entry leaves the others.
LEMMA EvictedIs ==
    ASSUME CacheTyped, Len(cache) <= MaxCached
    PROVE  /\ Evicted(cache) \in Seq(Entry) /\ Len(Evicted(cache)) \in 0..(MaxCached - 1)
           /\ \E k \in 0..1 : \A n \in 1..Len(Evicted(cache)) :
                 n + k \in 1..Len(cache) /\ Evicted(cache)[n] = cache[n + k]
<1>0. MaxCached \in Nat \ {0} /\ cache \in Seq(Entry) /\ Len(cache) \in Nat
  BY RetrievalAssumption, LenProperties DEF CacheTyped
<1>1. CASE Len(cache) >= MaxCached
  <2>1. cache # <<>>
    BY <1>0, <1>1, EmptySeq
  <2>2. /\ Tail(cache) \in Seq(Entry) /\ Len(Tail(cache)) = Len(cache) - 1
        /\ \A n \in 1..Len(Tail(cache)) : Tail(cache)[n] = cache[n + 1]
    BY <1>0, <2>1, HeadTailProperties
  <2>3. \A n \in 1..Len(Tail(cache)) : n + 1 \in 1..Len(cache)
    BY <1>0, <2>2
  <2>4. Evicted(cache) = Tail(cache)
    BY <1>1 DEF Evicted
  <2>5. Len(cache) - 1 \in 0..(MaxCached - 1)
    BY <1>0, <1>1
  <2>q. QED
    BY <2>2, <2>3, <2>4, <2>5
<1>2. CASE ~(Len(cache) >= MaxCached)
  <2>1. Evicted(cache) = cache /\ Len(cache) \in 0..(MaxCached - 1)
    BY <1>0, <1>2 DEF Evicted
  <2>2. \A n \in 1..Len(cache) : n + 0 \in 1..Len(cache) /\ cache[n] = cache[n + 0]
    BY <1>0
  <2>q. QED
    BY <1>0, <2>1, <2>2
<1>q. QED
  BY <1>1, <1>2

\* An index is filed behind those that stay.
LEMMA FiledIs ==
    ASSUME CacheTyped, Len(cache) <= MaxCached, NEW e \in Entry,
           cache' = Append(Evicted(cache), e)
    PROVE  /\ cache' \in Seq(Entry) /\ Len(cache') <= MaxCached /\ Len(cache') \in Nat
           /\ \E k \in 0..1 : \A n \in 1..Len(cache') :
                 \/ n = Len(cache') /\ cache'[n] = e
                 \/ n + k \in 1..Len(cache) /\ cache'[n] = cache[n + k] /\ n # Len(cache')
<1> DEFINE kept == Evicted(cache)
<1>1. kept \in Seq(Entry) /\ Len(kept) \in 0..(MaxCached - 1) /\ MaxCached \in Nat
  BY EvictedIs, RetrievalAssumption
<1>2. PICK k \in 0..1 : \A n \in 1..Len(kept) :
                           n + k \in 1..Len(cache) /\ kept[n] = cache[n + k]
  BY EvictedIs
<1>3. cache' = Append(kept, e)
  OBVIOUS
<1> HIDE DEF kept
<1>4. /\ cache' \in Seq(Entry) /\ Len(cache') = Len(kept) + 1
      /\ \A n \in 1..Len(kept) : cache'[n] = kept[n]
      /\ cache'[Len(kept) + 1] = e
  BY <1>1, <1>3, AppendProperties
<1>5. \A n \in 1..Len(cache') :
         \/ n = Len(cache')
         \/ n \in 1..Len(kept) /\ n # Len(cache')
  BY <1>1, <1>4
<1>6. Len(cache') <= MaxCached /\ Len(cache') \in Nat
  BY <1>1, <1>4
<1>q. QED
  BY <1>2, <1>4, <1>5, <1>6

-----------------------------------------------------------------------------
(* The invariants hold at first *)

\* The lock is held by the request that builds.
LockInv == \A r \in Requests : lock = r <=> req[r].words.state = "building"

\* The children of some indexes, as their first parse wrote them.
FirstCorpus(indexes) ==
    UNION {{Hit(c, i) : c \in Rows(VersionOf[i], 0, "child")} : i \in indexes}

\* An index was counted with a dictionary at least as late as the one its key
\* names, and before the one in use, and holds the children of its targets.
CorpusInv ==
    /\ \A r \in Requests : req[r].signature <= dictionary
    /\ \A n \in 1..Len(cache) :
          /\ cache[n].key.signature <= cache[n].tokens /\ cache[n].tokens <= dictionary
          /\ (\A i \in cache[n].key.indexes : parse[VersionOf[i]] = 0)
                => cache[n].corpus = FirstCorpus(cache[n].key.indexes)

Slots == {r \in Requests : req[r].pc = "reranking"}

\* No more rerankers are asked at once than there are slots.
SlotInv == IsFiniteSet(Slots) /\ Cardinality(Slots) <= RerankSlots

RetrievalInv ==
    Typed /\ RankInv /\ LockInv /\ KeysInv /\ CorpusInv /\ SlotInv

LEMMA InitRetrieval == Init => RetrievalInv
<1>1. SUFFICES ASSUME Init
               PROVE  RetrievalInv
  OBVIOUS
<1>2. <<>> \in Seq(Entry) /\ Len(<<>>) = 0
  BY EmptySeq
<1>3. \A r \in Requests : /\ req[r] = Idle /\ req[r].pc = "idle" /\ req[r].signature = 0
                          /\ req[r].words.state = "off"
  BY <1>1 DEF Init, Idle, Channel
<1>4. /\ MaxChanges \in Nat /\ MaxCached \in Nat \ {0} /\ RerankSlots \in Nat
      /\ None \notin Requests /\ Established \subseteq Indexes
  BY RetrievalAssumption
<1>5. Typed
  <2>1. CatalogTyped
    BY <1>1, <1>4 DEF Init, CatalogTyped
  <2>2. CacheTyped
    BY <1>1, <1>2 DEF Init, CacheTyped
  <2>3. ReqTyped
    BY <1>1, IdleTyped DEF Init, ReqTyped
  <2>q. QED
    BY <2>1, <2>2, <2>3 DEF Typed
<1>6. RankInv
  BY <1>3 DEF RankInv, MayTimeOut
<1>7. LockInv
  BY <1>1, <1>3, <1>4 DEF Init, LockInv
<1>8. cache = <<>> /\ dictionary = 0 /\ Len(cache) = 0
  BY <1>1, <1>2 DEF Init
<1>9. KeysInv
  BY <1>3, <1>4, <1>8 DEF KeysInv
<1>10. CorpusInv
  BY <1>3, <1>8 DEF CorpusInv
<1>11. SlotInv
  <2>1. Slots = {}
    BY <1>3 DEF Slots
  <2>q. QED
    BY <1>4, <2>1, FS_EmptySet DEF SlotInv
<1>q. QED
  BY <1>5, <1>6, <1>7, <1>9, <1>10, <1>11 DEF RetrievalInv

-----------------------------------------------------------------------------
(* Every step keeps them *)

LEMMA StepTyped ==
    ASSUME Typed, RankInv, KeysInv, [Next]_vars
    PROVE  Typed'
<1>1. CASE CatalogMoves
  BY <1>1, CatalogIs DEF Typed, CacheTyped, ReqTyped
<1>2. ASSUME NEW r \in Requests, SearchMoves(r), UNCHANGED catalogVars
      PROVE  Typed'
  <2>1. CatalogTyped'
    BY <1>2 DEF Typed, CatalogTyped, catalogVars
  <2>2. ReqTyped'
    BY <1>2, SearchIs
  <2>3. cache' \in Seq(Entry)
    <3>1. CASE BuildIndex(r)
      <4>1. PICK e \in Entry : cache' = cache \/ cache' = Append(Evicted(cache), e)
        BY <3>1, BuildIs
      <4>2. CacheTyped /\ Len(cache) <= MaxCached
        BY DEF Typed, KeysInv
      <4>q. QED
        BY <4>1, <4>2, FiledIs DEF CacheTyped
    <3>2. CASE ~BuildIndex(r)
      <4>1. UNCHANGED cache
        BY <1>2, <3>2, SearchIs
      <4>q. QED
        BY <4>1 DEF Typed, CacheTyped
    <3>q. QED
      BY <3>1, <3>2
  <2>4. lock' \in Requests \cup {None}
    <3>1. CASE BuildIndex(r) \/ LockIndex(r)
      BY <3>1, BuildIs, LockIs DEF Typed, CacheTyped
    <3>2. CASE Cancel(r)
      BY <3>2, CancelIs DEF Typed, CacheTyped
    <3>3. CASE ~(BuildIndex(r) \/ LockIndex(r) \/ Cancel(r))
      <4>1. UNCHANGED lock
        BY <1>2, <3>3, SearchIs
      <4>q. QED
        BY <4>1 DEF Typed, CacheTyped
    <3>q. QED
      BY <3>1, <3>2, <3>3
  <2>q. QED
    BY <2>1, <2>2, <2>3, <2>4 DEF Typed, CacheTyped
<1>3. CASE UNCHANGED <<catalogVars, cache, lock, req>>
  BY <1>3 DEF Typed, CatalogTyped, CacheTyped, ReqTyped, catalogVars
<1>q. QED
  BY <1>1, <1>2, <1>3, MovesAre

LEMMA StepRank ==
    ASSUME Typed, RankInv, [Next]_vars
    PROVE  RankInv'
<1> DEFINE Ranked(q) == /\ q.pc = "recalling" => q.parents = <<>>
                        /\ q.pc \in {"waiting", "reranking"} => Distinct(q.parents)
<1>a. RankInv <=> \A r \in Requests : Ranked(req[r])
  BY DEF RankInv, MayTimeOut
<1>b. RankInv' <=> \A r \in Requests : Ranked(req'[r])
  BY DEF RankInv, MayTimeOut
<1>1. ASSUME NEW r \in Requests, SearchMoves(r)
      PROVE  Ranked(req'[r])
  <2>1. CASE Begin(r) \/ Cancel(r)
    BY <2>1, BeginIs, CancelIs DEF Typed
  <2>2. CASE VectorRecall(r) \/ SearchStore(r)
    BY <1>a, <2>2, VectorIs, StoreIs DEF Typed, RecallGoesOn
  <2>3. CASE AskIndex(r) \/ LockIndex(r) \/ BuildIndex(r)
    BY <1>a, <2>3, AskIs, LockIs, BuildIs DEF RecallGoesOn
  <2>4. CASE Expand(r)
    BY <2>4, ExpandIs DEF Typed
  <2>5. CASE TakeSlot(r)
    BY <1>a, <2>5, TakeIs DEF Typed
  <2>6. CASE FallBack(r)
    BY <2>6, FallIs DEF Typed
  <2>7. ASSUME NEW items \in Answers(req[r].parents), NEW descending \in BOOLEAN,
               Reranked(r, items, descending)
        PROVE  req'[r].pc = "done"
    <3>1. req[r].pc = "reranking"
      BY <2>7 DEF Reranked
    <3>2. Distinct(req[r].parents)
      BY <1>a, <3>1
    <3>q. QED
      BY <2>7, <3>2, RerankIs DEF Typed
  <2>q. QED
    BY <1>1, <2>1, <2>2, <2>3, <2>4, <2>5, <2>6, <2>7 DEF SearchMoves
<1>2. ASSUME NEW r \in Requests, SearchMoves(r)
      PROVE  \A s \in Requests : Ranked(req'[s])
  <2>1. \A s \in Requests \ {r} : req'[s] = req[s]
    BY <1>2, SearchIs DEF OthersStay
  <2> HIDE DEF Ranked
  <2>q. QED
    BY <1>1, <1>2, <1>a, <2>1
<1>3. CASE UNCHANGED req
  BY <1>3, <1>a, <1>b
<1>4. CatalogMoves => UNCHANGED req
  BY CatalogIs DEF Typed
<1>q. QED
  BY <1>2, <1>3, <1>4, <1>b, MovesAre

LEMMA StepLock ==
    ASSUME Typed, RankInv, LockInv, [Next]_vars
    PROVE  LockInv'
<1>0. None \notin Requests
  BY RetrievalAssumption
<1>1. ASSUME NEW r \in Requests, SearchMoves(r)
      PROVE  LockInv'
  <2>1. \A s \in Requests \ {r} : req'[s] = req[s]
    BY <1>1, SearchIs DEF OthersStay
  <2>2. CASE BuildIndex(r)
    <3>1. /\ req[r].words.state = "building" /\ req'[r].words.state # "building"
          /\ lock' = None
      BY <2>2, BuildIs
    <3>q. QED
      BY <1>0, <2>1, <3>1 DEF LockInv
  <2>3. CASE LockIndex(r)
    <3>1. /\ req[r].words.state = "locking" /\ lock = None
          /\ \/ req'[r].words.state = "found" /\ lock' = lock
             \/ req'[r].words.state = "building" /\ lock' = r
      BY <2>3, LockIs
    <3>q. QED
      BY <1>0, <2>1, <3>1 DEF LockInv
  <2>4. CASE Cancel(r)
    <3>1. req'[r].words.state = "off" /\ lock' = IF lock = r THEN None ELSE lock
      BY <2>4, CancelIs DEF Typed
    <3>q. QED
      BY <1>0, <2>1, <3>1 DEF LockInv
  <2>5. CASE ~(BuildIndex(r) \/ LockIndex(r) \/ Cancel(r))
    <3>1. UNCHANGED lock /\ (req'[r].words.state = "building" <=> req[r].words.state = "building")
      BY <1>1, <2>5, SearchIs, WordsAre
    <3>q. QED
      BY <2>1, <3>1 DEF LockInv
  <2>q. QED
    BY <2>2, <2>3, <2>4, <2>5
<1>2. CASE UNCHANGED <<lock, req>>
  BY <1>2 DEF LockInv
<1>3. CatalogMoves => UNCHANGED <<lock, req>>
  BY CatalogIs DEF Typed
<1>q. QED
  BY <1>1, <1>2, <1>3, MovesAre

LEMMA StepKeys ==
    ASSUME Typed, RankInv, LockInv, KeysInv, [Next]_vars
    PROVE  KeysInv'
<1> DEFINE Key(q) == CacheKey(q.listed, q.signature)
           Fresh(q) == q.words.state = "building" =>
                          \A n \in 1..Len(cache) : cache[n].key # Key(q)
<1>1. ASSUME NEW r \in Requests, BuildIndex(r)
      PROVE  KeysInv'
  <2> DEFINE e == [key |-> Key(req[r]), corpus |-> Corpus(req[r].listed), tokens |-> dictionary]
  <2>1. /\ OthersStay(r) /\ req[r].words.state = "building"
        /\ req'[r].words.state \in {"found", "failed"} /\ e \in Entry
        /\ cache' = cache \/ cache' = Append(Evicted(cache), e)
    BY <1>1, BuildIs
  <2>2. e.key = Key(req[r])
    OBVIOUS
  <2> HIDE DEF e, Key
  <2>3. \A s \in Requests : req'[s].words.state # "building"
    <3>1. \A s \in Requests \ {r} : req[s].words.state # "building"
      BY <2>1 DEF LockInv
    <3>q. QED
      BY <2>1, <3>1 DEF OthersStay
  <2>4. \A n \in 1..Len(cache) : cache[n].key # e.key
    BY <2>1, <2>2 DEF KeysInv, Key
  <2>5. CASE cache' = Append(Evicted(cache), e)
    <3>1. Len(cache) <= MaxCached /\ CacheTyped
      BY DEF KeysInv, Typed
    <3>2. /\ Len(cache') <= MaxCached /\ Len(cache') \in Nat
          /\ \E k \in 0..1 : \A n \in 1..Len(cache') :
                 \/ n = Len(cache') /\ cache'[n] = e
                 \/ n + k \in 1..Len(cache) /\ cache'[n] = cache[n + k] /\ n # Len(cache')
      BY <2>1, <2>5, <3>1, FiledIs
    <3>3. PICK k \in 0..1 : \A n \in 1..Len(cache') :
                 \/ n = Len(cache') /\ cache'[n] = e
                 \/ n + k \in 1..Len(cache) /\ cache'[n] = cache[n + k] /\ n # Len(cache')
      BY <3>2
    <3>4. ASSUME NEW m \in 1..Len(cache'), NEW n \in 1..Len(cache'),
                 cache'[m].key = cache'[n].key
          PROVE  m = n
      <4>1. \/ m = Len(cache') /\ cache'[m] = e
            \/ m + k \in 1..Len(cache) /\ cache'[m] = cache[m + k] /\ m # Len(cache')
        BY <3>3
      <4>2. \/ n = Len(cache') /\ cache'[n] = e
            \/ n + k \in 1..Len(cache) /\ cache'[n] = cache[n + k] /\ n # Len(cache')
        BY <3>3
      <4>3. CASE m = Len(cache') /\ n = Len(cache')
        BY <4>3
      <4>4. CASE m # Len(cache') /\ n # Len(cache')
        <5>1. m + k = n + k
          BY <3>4, <4>1, <4>2, <4>4 DEF KeysInv
        <5>q. QED
          BY <3>2, <5>1
      <4>q. QED
        BY <2>4, <3>4, <4>1, <4>2, <4>3, <4>4
    <3>q. QED
      BY <2>3, <3>2, <3>4 DEF KeysInv
  <2>6. CASE cache' = cache
    BY <2>3, <2>6 DEF KeysInv
  <2>q. QED
    BY <2>1, <2>5, <2>6
<1>2. ASSUME NEW r \in Requests, SearchMoves(r), ~BuildIndex(r)
      PROVE  KeysInv'
  <2>1. UNCHANGED cache /\ \A s \in Requests \ {r} : req'[s] = req[s]
    BY <1>2, SearchIs DEF OthersStay
  <2>2. Fresh(req'[r])
    <3>1. CASE LockIndex(r)
      <4>1. /\ req'[r].words.state = "found"
               \/ Cached(CacheKey(req[r].listed, req[r].signature)) = {}
            /\ req'[r].listed = req[r].listed /\ req'[r].signature = req[r].signature
        BY <3>1, LockIs DEF RecallGoesOn
      <4>2. DOMAIN cache = 1..Len(cache)
        BY LenProperties DEF Typed, CacheTyped
      <4>q. QED
        BY <4>1, <4>2 DEF Cached
    <3>2. CASE Cancel(r)
      BY <3>2, CancelIs DEF Typed
    <3>3. CASE ~(LockIndex(r) \/ Cancel(r))
      BY <1>2, <3>3, WordsAre DEF KeysInv
    <3>q. QED
      BY <3>1, <3>2, <3>3
  <2>3. \A s \in Requests \ {r} : Fresh(req'[s])
    BY <2>1 DEF KeysInv
  <2>q. QED
    BY <2>1, <2>2, <2>3 DEF KeysInv
<1>3. CASE UNCHANGED <<cache, req>>
  BY <1>3 DEF KeysInv
<1>4. CatalogMoves => UNCHANGED <<cache, req>>
  BY CatalogIs DEF Typed
<1>q. QED
  BY <1>1, <1>2, <1>3, <1>4, MovesAre

\* An entry that is as its key says stays so: a parse that was replaced does not
\* come back, and the dictionary only gets later.
LEMMA StepCorpus ==
    ASSUME Typed, RankInv, KeysInv, CorpusInv, [Next]_vars
    PROVE  CorpusInv'
<1> DEFINE Counted(e) == /\ e.key.signature <= e.tokens /\ e.tokens <= dictionary
                         /\ (\A i \in e.key.indexes : parse[VersionOf[i]] = 0)
                               => e.corpus = FirstCorpus(e.key.indexes)
<1>0. \A n \in 1..Len(cache) : cache[n] \in Entry /\ Counted(cache[n])
  BY ElementOfSeq DEF Typed, CacheTyped, CorpusInv
<1>1. CASE CatalogMoves
  <2>1. /\ CatalogTyped /\ CatalogTyped' /\ UNCHANGED <<cache, req>> /\ dictionary <= dictionary'
        /\ \A v \in Versions : parse'[v] = 0 => parse[v] = 0
    BY <1>1, CatalogIs DEF Typed
  <2>2. dictionary \in Nat /\ dictionary' \in Nat
    BY <2>1 DEF CatalogTyped
  <2>3. \A r \in Requests : req'[r].signature <= dictionary'
    <3>1. ASSUME NEW r \in Requests
          PROVE  req'[r].signature <= dictionary'
      <4>1. req[r].signature \in Nat /\ req[r].signature <= dictionary /\ req'[r] = req[r]
        BY <2>1 DEF Typed, ReqTyped, ReqType, CorpusInv
      <4>q. QED
        BY <2>1, <2>2, <4>1
    <3>q. QED
      BY <3>1
  <2>4. ASSUME NEW n \in 1..Len(cache)
        PROVE  /\ cache[n].key.signature <= cache[n].tokens /\ cache[n].tokens <= dictionary'
               /\ (\A i \in cache[n].key.indexes : parse'[VersionOf[i]] = 0)
                     => cache[n].corpus = FirstCorpus(cache[n].key.indexes)
    <3>1. Counted(cache[n]) /\ cache[n].tokens \in Nat /\ cache[n].key.indexes \subseteq Indexes
      BY <1>0 DEF Entry
    <3>2. \A i \in cache[n].key.indexes : VersionOf[i] \in Versions
      BY <3>1, RetrievalAssumption
    <3>3. cache[n].tokens <= dictionary'
      BY <2>1, <2>2, <3>1
    <3>q. QED
      BY <2>1, <3>1, <3>2, <3>3
  <2>q. QED
    BY <2>1, <2>3, <2>4 DEF CorpusInv
<1>2. ASSUME NEW r \in Requests, SearchMoves(r), UNCHANGED catalogVars
      PROVE  CorpusInv'
  <2>0. UNCHANGED <<dictionary, parse>> /\ dictionary \in Nat
    BY <1>2 DEF catalogVars, Typed, CatalogTyped
  <2>1. \A s \in Requests : req'[s].signature <= dictionary'
    <3>1. req'[r].signature \in {req[r].signature, dictionary, 0}
      BY <1>2, WordsAre
    <3>2. \A s \in Requests \ {r} : req'[s] = req[s]
      BY <1>2, SearchIs DEF OthersStay
    <3>q. QED
      BY <2>0, <3>1, <3>2 DEF CorpusInv
  <2>2. CASE BuildIndex(r)
    <3> DEFINE listed == req[r].listed
               e == [key |-> CacheKey(listed, req[r].signature),
                     corpus |-> Corpus(listed), tokens |-> dictionary]
    <3>1. e \in Entry /\ (cache' = cache \/ cache' = Append(Evicted(cache), e))
      BY <2>2, BuildIs
    <3>2. Counted(e)
      <4>1. req[r].signature <= dictionary /\ dictionary <= dictionary
        BY <2>0 DEF CorpusInv
      <4>2. (\A i \in listed : parse[VersionOf[i]] = 0) => Corpus(listed) = FirstCorpus(listed)
        <5> HIDE DEF listed
        <5>q. QED
          BY DEF Corpus, FirstCorpus
      <4>3. /\ e.key.signature = req[r].signature /\ e.key.indexes = listed
            /\ e.tokens = dictionary /\ e.corpus = Corpus(listed)
        BY DEF CacheKey
      <4> HIDE DEF e, listed
      <4>q. QED
        BY <4>1, <4>2, <4>3
    <3> HIDE DEF e
    <3>3. CASE cache' = Append(Evicted(cache), e)
      <4>1. CacheTyped /\ Len(cache) <= MaxCached
        BY DEF Typed, KeysInv
      <4>2. PICK k \in 0..1 : \A n \in 1..Len(cache') :
               \/ n = Len(cache') /\ cache'[n] = e
               \/ n + k \in 1..Len(cache) /\ cache'[n] = cache[n + k] /\ n # Len(cache')
        BY <3>1, <3>3, <4>1, FiledIs
      <4>3. \A n \in 1..Len(cache') : Counted(cache'[n])
        <5> HIDE DEF Counted
        <5>q. QED
          BY <1>0, <3>2, <4>2
      <4>q. QED
        BY <2>0, <2>1, <4>3 DEF CorpusInv
    <3>4. CASE cache' = cache
      BY <2>0, <2>1, <3>4 DEF CorpusInv
    <3>q. QED
      BY <3>1, <3>3, <3>4
  <2>3. CASE ~BuildIndex(r)
    <3>1. UNCHANGED cache
      BY <1>2, <2>3, SearchIs
    <3>q. QED
      BY <2>0, <2>1, <3>1 DEF CorpusInv
  <2>q. QED
    BY <2>2, <2>3
<1>3. CASE UNCHANGED <<catalogVars, cache, lock, req>>
  BY <1>3 DEF CorpusInv, catalogVars
<1>q. QED
  BY <1>1, <1>2, <1>3, MovesAre

LEMMA StepSlots ==
    ASSUME Typed, RankInv, SlotInv, [Next]_vars
    PROVE  SlotInv'
<1>0. RerankSlots \in Nat
  BY RetrievalAssumption
<1>a. ASSUME Slots' \subseteq Slots
      PROVE  SlotInv'
  <2>1. IsFiniteSet(Slots') /\ Cardinality(Slots') <= Cardinality(Slots)
    BY <1>a, FS_Subset DEF SlotInv
  <2>2. Cardinality(Slots) \in Nat /\ Cardinality(Slots') \in Nat
    BY <2>1, FS_CardinalityType DEF SlotInv
  <2>q. QED
    BY <1>0, <2>1, <2>2 DEF SlotInv
<1>1. ASSUME NEW r \in Requests, SearchMoves(r)
      PROVE  SlotInv'
  <2>1. \A s \in Requests \ {r} : req'[s] = req[s]
    BY <1>1, SearchIs DEF OthersStay
  <2>2. CASE TakeSlot(r)
    <3>1. /\ req[r].pc = "waiting" /\ req'[r].pc = "reranking"
          /\ Cardinality(Slots) < RerankSlots
      BY <2>2, TakeIs DEF Typed, TakeSlot, Slots
    <3>2. Slots' = Slots \cup {r} /\ r \notin Slots
      BY <2>1, <3>1 DEF Slots
    <3>3. /\ IsFiniteSet(Slots \cup {r}) /\ Cardinality(Slots \cup {r}) = Cardinality(Slots) + 1
          /\ Cardinality(Slots) \in Nat
      BY <3>2, FS_AddElement, FS_CardinalityType DEF SlotInv
    <3>q. QED
      BY <1>0, <3>1, <3>2, <3>3 DEF SlotInv
  <2>3. CASE ~TakeSlot(r)
    <3>1. req'[r].pc = "reranking" => req[r].pc = "reranking"
      <4>1. CASE Begin(r) \/ Cancel(r) \/ Expand(r) \/ FallBack(r)
        BY <4>1, BeginIs, CancelIs, ExpandIs, FallIs DEF Typed
      <4>2. CASE VectorRecall(r) \/ SearchStore(r)
        BY <4>2, VectorIs, StoreIs DEF Typed, RecallGoesOn
      <4>3. CASE AskIndex(r) \/ LockIndex(r) \/ BuildIndex(r)
        BY <4>3, AskIs, LockIs, BuildIs DEF RecallGoesOn
      <4>4. ASSUME NEW items \in Answers(req[r].parents), NEW descending \in BOOLEAN,
                   Reranked(r, items, descending)
            PROVE  req[r].pc = "reranking"
        BY <4>4 DEF Reranked
      <4>q. QED
        BY <1>1, <2>3, <4>1, <4>2, <4>3, <4>4 DEF SearchMoves
    <3>2. Slots' \subseteq Slots
      BY <2>1, <3>1 DEF Slots
    <3>q. QED
      BY <1>a, <3>2
  <2>q. QED
    BY <2>2, <2>3
<1>2. CASE UNCHANGED req
  BY <1>2, <1>a DEF Slots
<1>3. CatalogMoves => UNCHANGED req
  BY CatalogIs DEF Typed
<1>q. QED
  BY <1>1, <1>2, <1>3, MovesAre

\* Whatever is done to the catalogue, the searches and their shared index, the
\* invariant holds in every state.
THEOREM RetrievalInvariant == Spec => []RetrievalInv
<1>1. RetrievalInv /\ [Next]_vars => RetrievalInv'
  BY StepTyped, StepRank, StepLock, StepKeys, StepCorpus, StepSlots DEF RetrievalInv
<1>q. QED
  BY <1>1, InitRetrieval, PTL DEF Spec

-----------------------------------------------------------------------------
(* What it says *)

\* Every variable is of its type; the lock is held exactly by who builds, the
\* cache keeps MaxCached indexes and no two alike, and no more than RerankSlots
\* rerankers are asked at once.
THEOREM RetrievalTyped == Spec => []TypeOK
<1>1. RetrievalInv => TypeOK
  <2>1. SUFFICES ASSUME RetrievalInv
                 PROVE  TypeOK
    OBVIOUS
  <2>2. dictionary \in 0..MaxChanges /\ changes \in 0..MaxChanges
    BY RetrievalAssumption, <2>1 DEF RetrievalInv, Typed, CatalogTyped
  <2>3. IsInjective(cache)
    <3>1. Distinct(cache)
      BY <2>1 DEF RetrievalInv, KeysInv, Distinct
    <3>q. QED
      BY <2>1, <3>1, InjectiveIsDistinct DEF RetrievalInv, Typed, CacheTyped
  <2>4. ASSUME NEW r \in Requests
        PROVE  /\ req[r].pc \in {"idle", "recalling", "waiting", "reranking"} \/ Ended(req[r].pc)
               /\ req[r].words.state \in
                     {"off", "open", "locking", "building", "failed", "found"}
               /\ lock = r <=> req[r].words.state = "building"
    BY <2>1 DEF RetrievalInv, Typed, ReqTyped, ReqType, ChannelType, Ended, LockInv
  <2>5. Cardinality({r \in Requests : req[r].pc = "reranking"}) <= RerankSlots
    BY <2>1 DEF RetrievalInv, SlotInv, Slots
  <2>q. QED
    BY <2>1, <2>2, <2>3, <2>4, <2>5
       DEF RetrievalInv, Typed, CatalogTyped, CacheTyped, KeysInv, TypeOK
<1>q. QED
  BY <1>1, RetrievalInvariant, PTL

\* A search that finds a local index for its targets and the dictionary in use
\* finds all their children in it and nothing else, unless a version was parsed
\* again.
THEOREM CorpusIsOfKey == Spec => []CorpusMatchesKey
<1>1. RetrievalInv => CorpusMatchesKey
  <2>1. SUFFICES ASSUME RetrievalInv, NEW n \in DOMAIN cache,
                        cache[n].key = CacheKey(cache[n].key.indexes, dictionary),
                        \A i \in cache[n].key.indexes : parse[VersionOf[i]] = 0
                 PROVE  /\ cache[n].tokens = dictionary
                        /\ cache[n].corpus = FirstCorpus(cache[n].key.indexes)
    BY DEF CorpusMatchesKey, FirstCorpus
  <2>2. n \in 1..Len(cache)
    BY <2>1, LenProperties DEF RetrievalInv, Typed, CacheTyped
  <2>3. cache[n] \in Entry /\ dictionary \in Nat
    BY <2>1, <2>2, ElementOfSeq DEF RetrievalInv, Typed, CacheTyped, CatalogTyped
  <2>4. cache[n].key.signature = dictionary
    BY <2>1 DEF CacheKey
  <2>5. dictionary <= cache[n].tokens /\ cache[n].tokens <= dictionary
    BY <2>1, <2>2, <2>4 DEF RetrievalInv, CorpusInv
  <2>6. cache[n].tokens = dictionary
    BY <2>3, <2>5 DEF Entry
  <2>q. QED
    BY <2>1, <2>2, <2>6 DEF RetrievalInv, CorpusInv
<1>q. QED
  BY <1>1, RetrievalInvariant, PTL

\* How the parents of a search change in a step.
ShowsCurrent(r) ==
    LET before == req[r].parents
        after == req'[r].parents
    IN  /\ req[r].pc = "recalling" /\ after # <<>> =>
             IsInjective(after) /\ Range(after) \subseteq Current
        /\ MayTimeOut(r) /\ req'[r].pc = "done" =>
             /\ IsInjective(after) /\ Range(after) \subseteq Range(before)
             /\ Len(after) = Len(Shown(before))
             /\ ~req'[r].applied => after = Shown(before)

LEMMA StepShows ==
    ASSUME Typed, RankInv, NEW r \in Requests, SearchMoves(r)
    PROVE  ShowsCurrent(r)
<1>0. req[r].parents \in Seq(RowsOfKind("parent"))
  BY DEF Typed, ReqTyped, ReqType
<1>1. CASE Begin(r)
  <2>1. req[r].pc = "idle"
    BY <1>1, BeginIs DEF Typed, Idle
  <2>q. QED
    BY <2>1 DEF ShowsCurrent, MayTimeOut
<1>2. CASE RecallGoesOn(r)
  BY <1>2 DEF ShowsCurrent, RecallGoesOn, RankInv, MayTimeOut
<1>3. CASE VectorRecall(r) \/ SearchStore(r) \/ AskIndex(r) \/ LockIndex(r) \/ BuildIndex(r)
  <2>1. RecallGoesOn(r)
    BY <1>3, VectorIs, StoreIs, AskIs, LockIs, BuildIs DEF Typed
  <2>q. QED
    BY <1>2, <2>1
<1>4. CASE Expand(r)
  <2>1. /\ req[r].pc = "recalling" /\ req'[r].parents \in Seq(Current)
        /\ Distinct(req'[r].parents)
    BY <1>4, ExpandIs DEF Typed
  <2>2. IsInjective(req'[r].parents) /\ Range(req'[r].parents) \subseteq Current
    BY <2>1, InjectiveIsDistinct, RangeIs
  <2>q. QED
    BY <2>1, <2>2 DEF ShowsCurrent, MayTimeOut
<1>5. CASE TakeSlot(r)
  BY <1>5, TakeIs DEF Typed, ShowsCurrent
<1>6. CASE FallBack(r)
  <2>1. MayTimeOut(r) /\ req'[r].parents = Shown(req[r].parents) /\ Distinct(req[r].parents)
    BY <1>6, FallIs DEF Typed, RankInv
  <2>2. /\ req'[r].parents \in Seq(RowsOfKind("parent")) /\ Distinct(req'[r].parents)
        /\ Range(req'[r].parents) \subseteq Range(req[r].parents)
    BY <1>0, <2>1, ShownIs
  <2>3. IsInjective(req'[r].parents)
    BY <2>2, InjectiveIsDistinct
  <2>q. QED
    BY <2>1, <2>2, <2>3 DEF ShowsCurrent, MayTimeOut
<1>7. ASSUME NEW items \in Answers(req[r].parents), NEW descending \in BOOLEAN,
             Reranked(r, items, descending)
      PROVE  ShowsCurrent(r)
  <2>1. req[r].pc = "reranking"
    BY <1>7 DEF Reranked
  <2>2. Distinct(req[r].parents)
    BY <2>1 DEF RankInv, MayTimeOut
  <2>3. /\ ReqTyped' /\ Len(req'[r].parents) = Len(Shown(req[r].parents))
        /\ Distinct(req'[r].parents) /\ Range(req'[r].parents) \subseteq Range(req[r].parents)
        /\ ~req'[r].applied => req'[r].parents = Shown(req[r].parents)
    BY <1>7, <2>2, RerankIs DEF Typed
  <2>4. req'[r].parents \in Seq(RowsOfKind("parent"))
    BY <2>3 DEF ReqTyped, ReqType
  <2>5. IsInjective(req'[r].parents)
    BY <2>3, <2>4, InjectiveIsDistinct
  <2>q. QED
    BY <2>1, <2>3, <2>5 DEF ShowsCurrent
<1>8. CASE Cancel(r)
  BY <1>8, CancelIs DEF Typed, ShowsCurrent
<1>q. QED
  BY <1>1, <1>3, <1>4, <1>5, <1>6, <1>7, <1>8 DEF SearchMoves

\* A search shows only parents that are current when its hits are checked, each
\* once, and whatever the reranker answers or however late, the search ends with
\* as many of those as it may show, in the order of the fusion if the answer was
\* not complete.
THEOREM ShowsWhatIsCurrent == Spec => EvidenceIsCurrent
<1>1. RetrievalInv /\ [Next]_vars => \A r \in Requests : ShowsCurrent(r)
  <2>1. SUFFICES ASSUME RetrievalInv, [Next]_vars, NEW r \in Requests
                 PROVE  ShowsCurrent(r)
    OBVIOUS
  <2>2. CASE UNCHANGED req
    BY <2>1, <2>2 DEF RetrievalInv, RankInv, ShowsCurrent, MayTimeOut
  <2>3. CASE CatalogMoves
    <3>1. UNCHANGED req
      BY <2>1, <2>3, CatalogIs DEF RetrievalInv, Typed
    <3>q. QED
      BY <2>2, <3>1
  <2>4. ASSUME NEW s \in Requests, SearchMoves(s)
        PROVE  ShowsCurrent(r)
    <3>1. CASE r = s
      BY <2>1, <2>4, <3>1, StepShows DEF RetrievalInv
    <3>2. CASE r # s
      <4>1. req'[r] = req[r]
        BY <2>1, <2>4, <3>2, SearchIs DEF RetrievalInv, OthersStay
      <4>q. QED
        BY <2>1, <4>1 DEF RetrievalInv, RankInv, ShowsCurrent, MayTimeOut
    <3>q. QED
      BY <3>1, <3>2
  <2>q. QED
    BY <2>1, <2>2, <2>3, <2>4, MovesAre
<1>2. (\A r \in Requests : ShowsCurrent(r)) =>
      \A r \in Requests :
         LET current == UNION {Rows(VersionOf[i], parse[VersionOf[i]], "parent") :
                                 i \in {j \in Indexes : Readable(j)}}
             before == req[r].parents
             after == req'[r].parents
             full == FirstOf(before, ParentTopK)
         IN  /\ req[r].pc = "recalling" /\ after # <<>> =>
                  IsInjective(after) /\ Range(after) \subseteq current
             /\ MayTimeOut(r) /\ req'[r].pc = "done" =>
                  /\ IsInjective(after) /\ Range(after) \subseteq Range(before)
                  /\ Len(after) = Len(full)
                  /\ ~req'[r].applied => after = full
  BY DEF ShowsCurrent, Shown, Current
<1>q. QED
  BY <1>1, <1>2, RetrievalInvariant, PTL DEF Spec, EvidenceIsCurrent

-----------------------------------------------------------------------------
(* debug_chunks *)

\* What debug_chunks shows are the chunks of a sample.
PreviewIs == preview = None \/ \E sample \in Samples :
            preview = [sample |-> sample, chunks |-> Chunks(sample.type, sample.doc)]

\* The text under the headings, of the document and of its numbered blocks.
BodyOfDoc(doc) ==
    UNION {Text(Numbered(doc)[o].lines) : o \in {n \in DOMAIN doc : doc[n].type # "heading"}}

\* A character names its line.
LEMMA CharIs ==
    ASSUME NEW doc, NEW l \in LinesOf(doc), NEW char \in Chars(l)
    PROVE  char[1] = l.block /\ char[2] = l.pos /\ doc[char[1]].lines[char[2]] = l.kind
BY DEF LinesOf, Chars

\* No line is empty.
LEMMA LineHasText ==
    ASSUME NEW l
    PROVE  <<l.block, l.pos, 1>> \in Chars(l)
<1>1. LineLength(l.kind) \in Nat /\ 1 <= LineLength(l.kind)
  BY ChunkingAssumption DEF LineLength
<1>q. QED
  BY <1>1 DEF Chars

\* The text of a keyword line is of the kind that says so.
LEMMA KeywordsAre ==
    ASSUME NEW doc, NEW char \in KeywordText(doc)
    PROVE  doc[char[1]].lines[char[2]] = "keywords"
<1>1. PICK l \in {m \in LinesOf(doc) : m.kind = "keywords"} : char \in Chars(l)
  BY DEF KeywordText
<1>q. QED
  BY <1>1, CharIs

\* The body is made of lines of the document.
LEMMA BodyIs ==
    ASSUME NEW doc \in Seq(SourceBlock), NEW char \in BodyOfDoc(doc)
    PROVE  \E l \in LinesOf(doc) : char \in Chars(l)
<1>1. PICK o \in DOMAIN doc : char \in Text(Numbered(doc)[o].lines)
  BY DEF BodyOfDoc
<1>2. PICK k \in DOMAIN Numbered(doc)[o].lines : char \in Chars(Numbered(doc)[o].lines[k])
  BY <1>1 DEF Text
<1>3. Numbered(doc)[o].lines[k] \in Range(Numbered(doc)[o].lines)
  BY <1>2 DEF Range
<1>4. \A p \in DOMAIN doc : \A l \in Range(Numbered(doc)[p].lines) : l \in LinesOf(doc)
  BY NumberedIs
<1>5. Numbered(doc)[o].lines[k] \in LinesOf(doc)
  BY <1>3, <1>4
<1>q. QED
  BY <1>2, <1>5

\* What debug_chunks shows of a sample is sound: Chunking_proofs, in the words
\* of the property.
LEMMA PreviewIsSound == RetrievalAssumption /\ PreviewIs => ChunksAreSound
<1> SUFFICES ASSUME RetrievalAssumption, NEW sample \in Samples,
                    preview = [sample |-> sample, chunks |-> Chunks(sample.type, sample.doc)],
                    preview # None, preview.chunks # Rejection
             PROVE  ChunksAreSound
  BY DEF PreviewIs, ChunksAreSound
<1> DEFINE chunks == preview.chunks
           doc == preview.sample.doc
           parents == {d \in Range(chunks) : d.kind = "parent"}
           children == Range(chunks) \ parents
           kind(char) == doc[char[1]].lines[char[2]]
           keywords == {c \in UNION {d.text : d \in children} : kind(c) = "keywords"}
           body == UNION {Text(Numbered(doc)[o].lines) :
                            o \in {n \in DOMAIN doc : doc[n].type # "heading"}}
           said == keywords \cup UNION {d.text : d \in parents}
<1>1. /\ sample.type \in {"generic", "policy", "manual", "faq", "mixed"}
      /\ doc \in Seq(SourceBlock) /\ doc = sample.doc
      /\ chunks = Chunks(sample.type, sample.doc) /\ chunks # Rejection
  <2>1. sample \in Material
    BY DEF RetrievalAssumption
  <2>q. QED
    BY <2>1, MaterialIs
<1>2. parents = Parents(chunks)
  BY DEF Parents
<1>3. body = BodyOfDoc(doc) /\ body = BodyOf(Numbered(doc))
  <2> HIDE DEF doc
  <2>q. QED
    BY <1>1, NumberedIs DEF BodyOfDoc
<1>4. \A char : kind(char) = doc[char[1]].lines[char[2]]
  OBVIOUS
<1>5. keywords = {c \in UNION {d.text : d \in children} : kind(c) = "keywords"}
  OBVIOUS
<1>6. said = keywords \cup UNION {d.text : d \in parents}
  OBVIOUS
<1>7. children = Range(chunks) \ parents
  OBVIOUS
<1> HIDE DEF chunks, doc, parents, children, kind, keywords, body, said
<1>8. /\ Sound(doc, chunks, StemsOf(Strategies, Numbered(doc)), BodyOf(Numbered(doc)))
      /\ \A d \in Range(chunks) : d.kind # "error"
  BY <1>1, ChunksSound
<1>9. /\ chunks \in Seq(Draft) /\ IdsDiffer(chunks) /\ Paired(doc, chunks)
      /\ body \subseteq Said(doc, chunks)
      /\ \A d \in Range(chunks) : Linked(doc, d)
  BY <1>3, <1>8 DEF Sound
<1>10. children = Children(chunks)
  <2>1. \A d \in Range(chunks) : d.kind \in {"parent", "child"}
    <3>1. Range(chunks) \subseteq Draft
      BY <1>9, RangeIs, LenProperties, ElementOfSeq
    <3>q. QED
      BY <1>8, <3>1 DEF Draft
  <2>q. QED
    BY <1>2, <1>7, <2>1 DEF Parents, Children
<1>11. \A c \in children : \A x \in c.text \cap KeywordText(doc) : x \in keywords
  <2>1. \A x \in KeywordText(doc) : kind(x) = "keywords"
    BY <1>4, KeywordsAre
  <2>q. QED
    BY <1>5, <2>1
<1>12. IsInjective([n \in DOMAIN chunks |-> chunks[n].id])
  <2>1. DOMAIN chunks = 1..Len(chunks)
    BY <1>9, LenProperties
  <2>q. QED
    BY <1>9, <2>1 DEF IdsDiffer, IsInjective
<1>13. body \subseteq said
  <2>1. ASSUME NEW x \in body
        PROVE  x \in said
    <3>1. x \in Said(doc, chunks)
      BY <1>9
    <3>2. CASE x \in UNION {p.text : p \in parents}
      BY <1>6, <3>2
    <3>3. CASE x \in KeywordText(doc) \cap UNION {c.text : c \in children}
      <4>1. PICK c \in children : x \in c.text
        BY <3>3
      <4>q. QED
        BY <1>6, <1>11, <3>3, <4>1
    <3>q. QED
      BY <1>2, <1>10, <3>1, <3>2, <3>3 DEF Said
  <2>q. QED
    BY <2>1
<1>14. \A p \in parents : \E c \in children : c.parent = p.id
  BY <1>2, <1>9, <1>10 DEF Paired
<1>15. \A c \in children : \E p \in parents :
          c.parent = p.id /\ c.text \subseteq p.text \cup keywords
  <2>1. ASSUME NEW c \in children
        PROVE  \E p \in parents : c.parent = p.id /\ c.text \subseteq p.text \cup keywords
    <3>1. PICK p \in parents : c.parent = p.id /\ c.text \subseteq p.text \cup KeywordText(doc)
      BY <1>2, <1>9, <1>10 DEF Paired
    <3>q. QED
      BY <1>11, <3>1
  <2>q. QED
    BY <2>1
<1>16. ASSUME NEW c \in children, NEW char \in body,
              char \in c.text, c.id[1] = "policy", kind(char) = "except", char[2] > 1
       PROVE  \E b \in c.text : b[1] = char[1] /\ b[2] = char[2] - 1
  <2>1. PICK l \in LinesOf(doc) : char \in Chars(l)
    BY <1>1, <1>3, BodyIs
  <2>2. char[1] = l.block /\ char[2] = l.pos /\ l.kind = "except"
    BY <1>4, <1>16, <2>1, CharIs
  <2>3. Together(doc, c.text)
    BY <1>7, <1>9, <1>10, <1>16 DEF Linked, Children
  <2>4. PICK m \in LinesOf(doc) : /\ m.block = l.block /\ m.pos = l.pos - 1
                                  /\ Chars(m) \subseteq c.text
    BY <1>16, <2>1, <2>2, <2>3 DEF Together
  <2>5. <<m.block, m.pos, 1>> \in c.text
    BY <2>4, LineHasText
  <2>q. QED
    BY <2>2, <2>4, <2>5
<1>17. \A c \in children, char \in body :
          /\ char \in c.text /\ c.id[1] = "policy"
          /\ kind(char) = "except" /\ char[2] > 1
          => \E b \in c.text : b[1] = char[1] /\ b[2] = char[2] - 1
  BY <1>16
<1>18. /\ IsInjective([n \in DOMAIN chunks |-> chunks[n].id])
       /\ body \subseteq said
       /\ \A p \in parents : \E c \in children : c.parent = p.id
       /\ \A c \in children : \E p \in parents :
            c.parent = p.id /\ c.text \subseteq p.text \cup keywords
       /\ \A c \in children, char \in body :
            /\ char \in c.text /\ c.id[1] = "policy"
            /\ kind(char) = "except" /\ char[2] > 1
            => \E b \in c.text : b[1] = char[1] /\ b[2] = char[2] - 1
  BY <1>12, <1>13, <1>14, <1>15, <1>17
<1>q. QED
  BY <1>18, Zenon DEF ChunksAreSound, chunks, doc, parents, children, kind, keywords, body, said

\* The preview is made by debug_chunks alone, and taken away by what happens next.
LEMMA PreviewStays ==
    ASSUME PreviewIs, [Next]_vars
    PROVE  PreviewIs'
<1>1. CASE preview' = None
  BY <1>1 DEF PreviewIs
<1>2. CASE preview' = preview
  BY <1>2 DEF PreviewIs
<1>3. CASE \E sample \in Samples :
              preview' = [sample |-> sample, chunks |-> Chunks(sample.type, sample.doc)]
  BY <1>3 DEF PreviewIs
<1>4. \/ preview' \in {None, preview}
      \/ \E sample \in Samples :
            preview' = [sample |-> sample, chunks |-> Chunks(sample.type, sample.doc)]
  <2>1. ASSUME NEW i, Activate(i)
        PROVE  preview' = None
    BY <2>1 DEF Activate, Change
  <2>2. ASSUME NEW d, Delete(d)
        PROVE  preview' = None
    BY <2>2 DEF Delete, Change
  <2>3. ASSUME NEW v, Reparse(v)
        PROVE  preview' = None
    BY <2>3 DEF Reparse, Change
  <2>4. CASE Release
    BY <2>4 DEF Release, Change
  <2>5. ASSUME NEW sample \in Samples, DebugChunks(sample)
        PROVE  preview' = [sample |-> sample, chunks |-> Chunks(sample.type, sample.doc)]
    BY <2>5 DEF DebugChunks
  <2>6. ASSUME NEW r, Begin(r)
        PROVE  preview' = None
    BY <2>6 DEF Begin
  <2>7. ASSUME NEW r, Search(r)
        PROVE  preview' = preview
    BY <2>7 DEF Search, VectorRecall, SearchStore, AskIndex, LockIndex, BuildIndex, Expand,
                FallBack, RestOfRecall, RestOfRerank
  <2>8. ASSUME NEW r, TakeSlot(r) \/ Cancel(r)
        PROVE  preview' = preview
    BY <2>8 DEF TakeSlot, Cancel, RestOfRerank
  <2>9. ASSUME NEW r, NEW items, NEW descending, Reranked(r, items, descending)
        PROVE  preview' = preview
    BY <2>9 DEF Reranked, RestOfRerank
  <2>10. CASE UNCHANGED vars
    BY <2>10 DEF vars
  <2>q. QED
    BY <2>1, <2>2, <2>3, <2>4, <2>5, <2>6, <2>7, <2>8, <2>9, <2>10 DEF Next
<1>q. QED
  BY <1>1, <1>2, <1>3, <1>4

\* Chunking keeps its promises for every document of blocks with text and every
\* knowledge type: no text is lost, every child leads to its parent and says
\* nothing but what its parent says and keywords, names are unique, and a policy
\* never finds an exception without its rule (StrategySelector, debug_chunks).
THEOREM ChunksKeepText == Spec => []ChunksAreSound
<1>1. Init => PreviewIs
  BY DEF Init, PreviewIs
<1>2. PreviewIs /\ [Next]_vars => PreviewIs'
  BY PreviewStays
<1>3. PreviewIs => ChunksAreSound
  BY PreviewIsSound, RetrievalAssumption
<1>q. QED
  BY <1>1, <1>2, <1>3, PTL DEF Spec
=============================================================================

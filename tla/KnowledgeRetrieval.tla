-------------------------- MODULE KnowledgeRetrieval -------------------------
(***************************************************************************)
(* Searches over a catalogue that changes under them                       *)
(* (services/retrieval.py): the white list of active indexes, the recall   *)
(* by vectors and by words with the cache of local BM25 indexes, the       *)
(* fusion, the check against MySQL with the way from children to parents,  *)
(* and the reranking with its slots and timeouts.  Beside them             *)
(* debug_chunks, which shows how a document would be chunked.              *)
(*                                                                         *)
(* A version is current and ready while an index of it is active           *)
(* (KnowledgeIndexing), so the active indexes stand for these flags.  A    *)
(* chunk is named by its version, by the parse that wrote it and by its    *)
(* draft.  What Milvus and Elasticsearch return is any ranking of what     *)
(* they were ever given and do not filter away.                            *)
(***************************************************************************)
EXTENDS Chunking, SequenceParts

CONSTANTS
    None,
    Versions, DocumentOf,    \* versions of documents
    TextOfVersion,           \* their knowledge type and blocks
    Samples,                 \* knowledge types and blocks for debug_chunks
    Indexes, VersionOf,      \* index versions
    Compatible,              \* those of the collection and model in use
    Permitted,               \* documents of the user, domain and scope
    Requests, ModeOf,        \* searches: "vector", "bm25" or "hybrid"
    ChildTopK, ParentTopK, CandidateK,
    MaxCached,               \* BM25 indexes a process keeps
    RerankSlots,             \* rerank_max_concurrency
    Reparsed,                \* versions parsed twice
    Established,             \* the indexes that may be active at first
    MaxChanges               \* changes of the catalogue and the dictionary

ASSUME RetrievalAssumption ==
    /\ DocumentOf \in [Versions -> STRING] /\ VersionOf \in [Indexes -> Versions]
    /\ {ChildTopK, ParentTopK, CandidateK, MaxCached, RerankSlots} \subseteq Nat \ {0}
    /\ Established \subseteq Indexes /\ MaxChanges \in Nat /\ None \notin Requests
    /\ TextOfVersion \in [Versions -> Material] /\ Samples \subseteq Material

VARIABLES
    preview,      \* what debug_chunks shows
    external,     \* whether the words are searched in Elasticsearch
    active,       \* indexes of status active
    synced,       \* indexes the word index was ever built with
    live,         \* documents of status active
    changes,      \* history: how often the catalogue changed
    parse,        \* the parse the chunks of a version are from
    dictionary,   \* the signature of the tokenizer's file
    cache,        \* _bm25_indexes, the oldest first
    lock,         \* _bm25_lock
    req           \* the local state of every search

catalogVars == <<active, synced, live, parse, dictionary, changes>>
vars == <<preview, external, catalogVars, cache, lock, req>>

Documents == {DocumentOf[v] : v \in Versions}
DocumentOfIndex(i) == DocumentOf[VersionOf[i]]

\* The drafts of a version, as rows.
DraftsOf == [v \in Versions |-> Range(Chunks(TextOfVersion[v].type, TextOfVersion[v].doc))]

Rows(v, p, kind) ==
    {[version |-> v, parse |-> p, id |-> d.id] : d \in {e \in DraftsOf[v] : e.kind = kind}}

\* A child is numbered within its parent (Chunking's Family).
ParentOf(child) == [child EXCEPT !.id = Front(@)]

Hit(child, index) == [child |-> child, index |-> index]

Channel(state, hits) == [state |-> state, hits |-> hits]
Open(channel) == channel.state \in {"open", "locking", "building"}

Idle == [pc |-> "idle", listed |-> {}, vector |-> Channel("off", {}),
         words |-> Channel("off", {}), signature |-> 0, parents |-> <<>>,
         applied |-> FALSE]

Ended(pc) == pc \in {"done", "error", "cancelled"}

\* Every variable is of its type, the cache and the slots within their limits.
TypeOK ==
    /\ active \subseteq Indexes /\ synced \subseteq Indexes /\ live \subseteq Documents
    /\ parse \in [Versions -> 0..1] /\ dictionary \in 0..MaxChanges /\ changes \in 0..MaxChanges
    /\ Len(cache) <= MaxCached /\ IsInjective(cache)
    /\ lock \in Requests \cup {None}
    /\ \A r \in Requests :
         /\ req[r].pc \in {"idle", "recalling", "waiting", "reranking"} \/ Ended(req[r].pc)
         /\ req[r].words.state \in {"off", "open", "locking", "building", "failed", "found"}
         /\ lock = r <=> req[r].words.state = "building"
    /\ Cardinality({r \in Requests : req[r].pc = "reranking"}) <= RerankSlots

Init ==
    /\ preview = None
    /\ external \in BOOLEAN
    /\ active \in SUBSET Established /\ synced = active
    /\ live = Documents
    /\ parse = [v \in Versions |-> 0]
    /\ dictionary = 0 /\ changes = 0 /\ cache = <<>> /\ lock = None
    /\ req = [r \in Requests |-> Idle]

-----------------------------------------------------------------------------
(* The catalogue meanwhile *)

Change ==
    /\ changes < MaxChanges
    /\ changes' = changes + 1
    /\ preview' = None
    /\ UNCHANGED <<external, cache, lock, req>>

\* Activation supersedes the other indexes of the document; the word index
\* follows at some time.
Activate(i) ==
    /\ i \notin active /\ DocumentOfIndex(i) \in live
    /\ active' = {i} \cup {j \in active : DocumentOfIndex(j) # DocumentOfIndex(i)}
    /\ synced' = synced \cup {i}
    /\ UNCHANGED <<live, parse, dictionary>> /\ Change

Delete(d) ==
    /\ d \in live
    /\ live' = live \ {d}
    /\ UNCHANGED <<active, synced, parse, dictionary>> /\ Change

\* The second of two parses of one version replaces its chunks.
Reparse(v) ==
    /\ v \in Reparsed /\ parse[v] = 0
    /\ parse' = [parse EXCEPT ![v] = 1]
    /\ UNCHANGED <<active, synced, live, dictionary>> /\ Change

\* A published dictionary replaces the file.
Release ==
    /\ dictionary' = dictionary + 1
    /\ UNCHANGED <<active, synced, live, parse>> /\ Change

-----------------------------------------------------------------------------
(* debug_chunks *)

\* Reads and writes nothing of the catalogue, so it is only asked before there
\* is one, and shown until something happens.
DebugChunks(sample) ==
    /\ preview = None /\ synced = {} /\ changes = 0
    /\ \A r \in Requests : req[r] = Idle
    /\ preview' = [sample |-> sample, chunks |-> Chunks(sample.type, sample.doc)]
    /\ UNCHANGED <<external, catalogVars, cache, lock, req>>

-----------------------------------------------------------------------------
(* retrieve: the targets *)

Readable(i) == i \in active /\ DocumentOfIndex(i) \in live \cap Permitted

\* _active_targets; an empty white list ends the search at once.
Begin(r) ==
    LET targets == {i \in Indexes : Readable(i)}
        listed == IF ModeOf[r] = "vector" THEN targets \cap Compatible ELSE targets
        vector == IF ModeOf[r] = "bm25" THEN "off"
                  ELSE IF listed \cap Compatible = {} THEN "found" ELSE "open"
    IN
    /\ req[r] = Idle
    /\ req' = [req EXCEPT ![r] =
          IF listed = {} THEN [Idle EXCEPT !.pc = "done"]
          ELSE [Idle EXCEPT !.pc = "recalling", !.listed = listed,
                            !.vector = Channel(vector, {}),
                            !.words = Channel(IF ModeOf[r] = "vector" THEN "off"
                                              ELSE "open", {})]]
    /\ preview' = None
    /\ UNCHANGED <<external, catalogVars, cache, lock>>

-----------------------------------------------------------------------------
(* Recall *)

RestOfRecall == UNCHANGED <<preview, external, catalogVars>>
SetVector(r, channel) == req' = [req EXCEPT ![r].vector = channel]
SetWords(r, channel) == req' = [req EXCEPT ![r].words = channel]

\* The stores may still have the chunks of an earlier parse.
Known(indexes) ==
    UNION {{Hit(c, i) : c \in UNION {Rows(VersionOf[i], p, "child") : p \in 0..parse[VersionOf[i]]}} :
             i \in indexes}

\* The vector store filters by the white list.
VectorRecall(r) ==
    /\ req[r].vector.state = "open"
    /\ \/ SetVector(r, Channel("found", Known(req[r].listed \cap Compatible)))
       \/ SetVector(r, Channel("failed", {}))
    /\ RestOfRecall /\ UNCHANGED <<cache, lock>>

\* Elasticsearch filters by user, domain and scope, as it was last told.
SearchStore(r) ==
    /\ external /\ req[r].words.state = "open"
    /\ \/ SetWords(r, Channel("found", Known({i \in synced : DocumentOfIndex(i) \in Permitted})))
       \/ SetWords(r, Channel("failed", {}))
    /\ RestOfRecall /\ UNCHANGED <<cache, lock>>

\* Mutant of CacheKey: without the version of the tokenizer.
KeyOfTargets(listed, signature) == [indexes |-> listed, signature |-> 0]

CacheKey(listed, signature) == [indexes |-> listed, signature |-> signature]

Cached(key) == {n \in DOMAIN cache : cache[n].key = key}

\* A word search over a cached index; the key is made anew by every look.
SearchCached(r, key) ==
    \E n \in Cached(key) : SetWords(r, Channel("found", cache[n].corpus))

\* The signature the key has is the one of the file now.
AskIndex(r) ==
    LET key == CacheKey(req[r].listed, dictionary) IN
    /\ ~external /\ req[r].words.state = "open"
    /\ IF Cached(key) # {} THEN SearchCached(r, key)
       ELSE req' = [req EXCEPT ![r].words.state = "locking", ![r].signature = dictionary]
    /\ RestOfRecall /\ UNCHANGED <<cache, lock>>

\* Whoever waited may find that the index was built meanwhile.
LockIndex(r) ==
    LET key == CacheKey(req[r].listed, req[r].signature) IN
    /\ req[r].words.state = "locking" /\ lock = None
    /\ IF Cached(key) # {} THEN SearchCached(r, key) /\ UNCHANGED lock
       ELSE /\ lock' = r
            /\ req' = [req EXCEPT ![r].words.state = "building"]
    /\ RestOfRecall /\ UNCHANGED cache

\* Mutant of Evicted: nothing is dropped.
KeepAll(entries) == entries

Evicted(entries) == IF Len(entries) >= MaxCached THEN Tail(entries) ELSE entries

\* The children are read, and counted with the dictionary of that moment.
BuildIndex(r) ==
    LET corpus == UNION {{Hit(c, i) : c \in Rows(VersionOf[i], parse[VersionOf[i]], "child")} :
                            i \in req[r].listed}
    IN
    /\ req[r].words.state = "building"
    /\ \/ /\ cache' = Append(Evicted(cache),
                 [key |-> CacheKey(req[r].listed, req[r].signature),
                  corpus |-> corpus, tokens |-> dictionary])
          /\ SetWords(r, Channel("found", corpus))
       \/ SetWords(r, Channel("failed", {})) /\ UNCHANGED cache
    /\ lock' = None
    /\ RestOfRecall

-----------------------------------------------------------------------------
(* Fusion, and _validate_and_expand in one transaction *)

Failed(channel) == channel.state # "found"

\* One failed channel of two degrades the search, the only one ends it.
Unanswered(r) == Failed(req[r].vector) /\ Failed(req[r].words)

\* ReciprocalRankFusion refuses a chunk that the channels place in different
\* indexes.
Conflict(r) ==
    \E g \in req[r].vector.hits, h \in req[r].words.hits :
        g.child = h.child /\ g.index # h.index

RawHits(r) == req[r].vector.hits \cup req[r].words.hits

\* Mutant of Valid: the white list alone.
Listed(r, hit) == hit.index \in req[r].listed

Valid(r, hit) ==
    /\ hit.index \in req[r].listed
    /\ Readable(hit.index)
    /\ hit.child.parse = parse[hit.child.version]

\* The rankings are arbitrary, and so is their fusion: any order of some of the
\* hits, each chunk once, of which those that are not valid are left out.
Accepted(r) ==
    {s \in BoundedSeq({h \in RawHits(r) : Valid(r, h)}, ChildTopK) :
        \A m, n \in DOMAIN s : s[m].child = s[n].child => m = n}

\* SmallToBigExpander.plan: a parent stands where its first child stood.
Plan(hits) == Once([n \in DOMAIN hits |-> ParentOf(hits[n].child)])

\* The provider is asked where there is something to rerank.
Expand(r) ==
    /\ req[r].pc = "recalling" /\ ~Open(req[r].vector) /\ ~Open(req[r].words)
    /\ \/ /\ Unanswered(r) \/ Conflict(r)
          /\ req' = [req EXCEPT ![r] = [Idle EXCEPT !.pc = "error"]]
       \/ /\ ~Unanswered(r)
          /\ \E plan \in {Plan(hits) : hits \in Accepted(r)}, rerank \in BOOLEAN :
               req' = [req EXCEPT ![r] = [Idle EXCEPT
                  !.pc = IF rerank /\ plan # <<>> THEN "waiting" ELSE "done",
                  !.parents = FirstOf(plan, IF rerank THEN CandidateK ELSE ParentTopK)]]
    /\ RestOfRecall /\ UNCHANGED <<cache, lock>>

-----------------------------------------------------------------------------
(* _rerank_parents *)

RestOfRerank == UNCHANGED <<preview, external, catalogVars, cache, lock>>

\* The semaphore.
TakeSlot(r) ==
    /\ req[r].pc = "waiting"
    /\ Cardinality({s \in Requests : req[s].pc = "reranking"}) < RerankSlots
    /\ req' = [req EXCEPT ![r].pc = "reranking"]
    /\ RestOfRerank

\* validate_rerank_response
Complete(parents, items, descending) ==
    IsInjective(items) /\ Range(items) = Range(parents) /\ descending

\* A reply may leave out, repeat and invent parents, or disagree with its scores.
Answers(parents) == BoundedSeq(Range(parents) \cup {None}, Len(parents))

Reranked(r, items, descending) ==
    /\ req[r].pc = "reranking"
    /\ LET applied == Complete(req[r].parents, items, descending)
       IN  req' = [req EXCEPT
              ![r].pc = "done", ![r].applied = applied,
              ![r].parents = FirstOf(IF applied THEN items ELSE @, ParentTopK)]
    /\ RestOfRerank

\* Mutant of MayTimeOut: the timeout covers the wait for a slot only.
WaitsForSlot(r) == req[r].pc = "waiting"

MayTimeOut(r) == req[r].pc \in {"waiting", "reranking"}

\* Too slow, or a provider that raises: the order of the fusion stays.
FallBack(r) ==
    /\ MayTimeOut(r)
    /\ req' = [req EXCEPT ![r].pc = "done", ![r].parents = FirstOf(@, ParentTopK)]
    /\ RestOfRerank

\* The caller gives up; the lock and the slot are released on the way.
Cancel(r) ==
    /\ req[r].pc \in {"recalling", "waiting", "reranking"}
    /\ req' = [req EXCEPT ![r] = [Idle EXCEPT !.pc = "cancelled"]]
    /\ lock' = IF lock = r THEN None ELSE lock
    /\ UNCHANGED <<preview, external, catalogVars, cache>>

-----------------------------------------------------------------------------
Search(r) ==
    \/ VectorRecall(r)
    \/ SearchStore(r)
    \/ AskIndex(r)
    \/ LockIndex(r)
    \/ BuildIndex(r)
    \/ Expand(r)
    \/ FallBack(r)

Next ==
    \/ \E i \in Indexes : Activate(i)
    \/ \E d \in Documents : Delete(d)
    \/ \E v \in Versions : Reparse(v)
    \/ Release
    \/ \E sample \in Samples : DebugChunks(sample)
    \/ \E r \in Requests :
          \/ Begin(r)
          \/ Search(r)
          \/ TakeSlot(r)
          \/ \E items \in Answers(req[r].parents), descending \in BOOLEAN :
                Reranked(r, items, descending)
          \/ Cancel(r)

\* The stores answer or fail and the clock runs; a reranker need not answer.
Spec == Init /\ [][Next]_vars /\ \A r \in Requests : WF_vars(Search(r))

-----------------------------------------------------------------------------
(* Properties *)

\* A document that is not refused has all its text in parents, every parent has
\* a child to be found by, a child points to a parent of the same document and
\* says nothing its parent does not say but keywords, ids are unique, and under
\* the policy strategy an exception is only found together with the sentence
\* before it (what StrategySelector.select(...).chunk promises to _process and
\* to the debug page).
ChunksAreSound ==
    preview # None => LET chunks == preview.chunks
                          doc == preview.sample.doc
                          parents == {d \in Range(chunks) : d.kind = "parent"}
                          children == Range(chunks) \ parents
                          kind(char) == doc[char[1]].lines[char[2]]
                          keywords == {c \in UNION {d.text : d \in children} : kind(c) = "keywords"}
                          body == UNION {Text(Numbered(doc)[o].lines) :
                                           o \in {n \in DOMAIN doc : doc[n].type # "heading"}}
                          said == keywords \cup UNION {d.text : d \in parents}
                      IN  chunks # Rejection =>
                            /\ IsInjective([n \in DOMAIN chunks |-> chunks[n].id])
                            /\ body \subseteq said
                            /\ \A p \in parents : \E c \in children : c.parent = p.id
                            /\ \A c \in children : \E p \in parents :
                                 c.parent = p.id /\ c.text \subseteq p.text \cup keywords
                            /\ \A c \in children, char \in body :
                                 /\ char \in c.text /\ c.id[1] = "policy"
                                 /\ kind(char) = "except" /\ char[2] > 1
                                 => \E b \in c.text : b[1] = char[1] /\ b[2] = char[2] - 1

\* A search shows no chunk of a document that was deleted, of an index that was
\* superseded or of a parse that was replaced before its hits were checked, in
\* whatever order the stores, the check and the switch come; the reranker can
\* neither add nor lose a parent, only choose among those checked
\* (_validate_and_expand, _rerank_parents).
EvidenceIsCurrent ==
    [][\A r \in Requests :
         LET current == UNION {Rows(VersionOf[i], parse[VersionOf[i]], "parent") :
                                 i \in {j \in Indexes : Readable(j)}}
             before == req[r].parents
             after == req'[r].parents
             full == FirstOf(before, ParentTopK)
         IN  /\ req[r].pc = "recalling" /\ after # <<>> =>
                  IsInjective(after) /\ Range(after) \subseteq current
             /\ MayTimeOut(r) /\ req'[r].pc = "done" =>
                  /\ IsInjective(after) /\ Range(after) \subseteq Range(before)
                  /\ Len(after) = Len(full)
                  /\ ~req'[r].applied => after = full]_vars

\* The local index a search finds in the cache holds exactly the children of its
\* targets, counted with the dictionary in use, unless a version was parsed again
\* (the key of _bm25_indexes, built without holding the request's snapshot).
CorpusMatchesKey ==
    \A n \in DOMAIN cache :
        LET indexes == cache[n].key.indexes
        IN  /\ cache[n].key = CacheKey(indexes, dictionary)
            /\ \A i \in indexes : parse[VersionOf[i]] = 0
            => /\ cache[n].tokens = dictionary
               /\ cache[n].corpus = UNION {{Hit(c, i) : c \in Rows(VersionOf[i], 0, "child")} :
                                              i \in indexes}

\* Every search ends, also when no reranker ever answers and all slots are taken.
SearchEnds == \A r \in Requests : req[r] # Idle ~> Ended(req[r].pc)
=============================================================================

# A TLA+ model of the customer-service backend

This directory models the parts of `bili_support` whose correctness depends on
the order in which things happen: who may settle a review, which store a turn
reads, what a crash leaves behind, what a search sees while its index is
replaced, what of a generated answer may be published. The modules are
translated from `src/bili_support`; every definition that stands for code is
listed with its lines in the `map` of `PROJECT.json`. TLC checks small
instances; TLAPS proves the safety properties, for all values of the constants.

## 1. The system

A FastAPI process serves conversations. A message is routed through a LangGraph
graph that answers it, asks back, or pauses it for a person. Documents are
parsed, indexed in Milvus and mirrored in Elasticsearch so that the graph can
ground its answers. All handlers are coroutines of one event loop; they
interleave at every `await`, and several processes may run over the same stores.

| component (source) | state | operations | what is hard | what makes it correct |
|---|---|---|---|---|
| human review (`services/conversations.py`, `repositories/graph_reviews.py`) | row of `graph_reviews` (MySQL), checkpoint (MongoDB), rows of `model_calls` | `send`, `stream`, `resume_execution`, `_ensure_pending_review`, `_release_review_claim`, `_persist_resume_outcome` | two stores without a common transaction; two reviewers; retries after a late failure; cancelled requests; expiring checkpoints; reused request ids | one reviewer at a time, one outcome per execution, a final verdict, no verdict nobody gave, no promised review without a row, claims end |
| conversation memory (`services/conversations.py`, `core/cache.py`, `repositories/conversation_context.py`) | `messages`, `conversation_context_snapshots` (MySQL); history and context keys (Redis) | `_save_user_message`, `_persist_outcome`, the cache helpers | read-modify-write of the copies around commits; overlapping turns; misses and failed calls; first insert of the snapshot | copies never ahead of MySQL, a turn sees the conversation, versions never go back, no turn's context is lost |
| customer service graph (`graph/*`, `routing.py`, `intent/*`, `conversation_context.py`) | channels of the checkpoint, topics of the conversation | twelve nodes, four routers | fallbacks of every node, step limit, several intents and domains in one question | every run ends with an answer or a named failure; severe requests reach a person; topics are confirmed ones |
| answer policy (`knowledge/coverage.py`, `evidence.py`, `grounded_answer.py`, `claim_verification.py`, `services/policy_retrieval.py`) | evidence and claims of a run | the supplementary search, quality decision, citation check, verdict, publication | judged before it is cut; verifier down; claims that fail beside claims that pass | what is published cites evidence of this search and is supported by it |
| LLM service (`llm/*`) | usage records | `complete`, `stream`, `complete_grounded` | nested retries, streams that already showed text, cancellation | no text twice, bounded attempts, every attempt recorded |
| knowledge ingestion (`services/knowledge.py`, `knowledge/storage.py`) | documents, versions, jobs, blocks, chunks (MySQL); files | `upload`, `retry`, `delete`, `_process`, `_mark_failed` | check-then-act between transactions, calls that die while parsing, a second parse under readers | rows, files and chunks agree; same bytes give one version; a job has somebody who ends it |
| knowledge indexing (`services/indexing.py`, `knowledge/vector_store.py`) | index versions and jobs (MySQL), vectors (Milvus) | `build`, `retry`, `process`, `_activate`, `_mark_failed` | concurrent attempts on one index version, failure after activation, one collection for all configurations | one active index per document, it is complete, and it serves until another replaces it |
| chunking (`knowledge/chunking.py`, `chunk_strategies.py`) | none | five strategies and their selection, `debug_chunks` | line-by-line machines, boundaries between tables, headings and exceptions | no text lost, every parent has a child, ids unique |
| dictionary (`services/dictionary.py`) | terms, versions (MySQL), artifact file | `create_candidate`, `review`, `publish`, `sync_active_artifact` | concurrent reviews and publications, order of file writes | one active version, the file is the active version |
| lexical synchronisation (`services/lexical_sync.py`, `knowledge/elasticsearch_store.py`, `lexical_sync_cli.py`) | physical indices, read alias (Elasticsearch) | `synchronize`, `rebuild` | a second process, stale snapshots, deduplication by generation, lost answers | the alias always names a complete index |
| lifecycle (`main.py`) | started stores, `last_result` | start with its repairs, `/ready`, crash | order, required and degraded stores | `/ready` says what is served |
| retrieval (`services/retrieval.py`, `knowledge/bm25.py`, `fusion.py`, `reranking.py`) | BM25 indexes of the process, rerank slots | `retrieve`: white list, recall, fusion, check, expansion, rerank | state read before an `await` and used after it; timeouts | only permitted, active, current chunks leave it; every search ends |

Interactions: the conversation service runs the graph; the graph calls the
model and the policy-aware retriever, which calls the retriever over MySQL,
Milvus and Elasticsearch; ingestion, indexing and dictionary each trigger a
lexical synchronisation after their commit. Nothing is called back.

## 2. Modules

| module | what it is |
|---|---|
| `ReviewDecision` | what the review feature promises: an execution is opened, held by one caller, given back or settled with verdict and answer in one step |
| `ReviewedExecution` | the code: turns, resume calls, checkpoint, row and audit rows, with all faults |
| `ReviewedExecution_proofs` | its proofs, the refinement among them |
| `ConversationStore` | messages, snapshot and their Redis copies under overlapping turns |
| `ConversationStore_proofs` | its proofs, for overlapping and for serial turns |
| `KnowledgeCatalog` | the MySQL rows ingestion and indexing share, with the queries on them |
| `KnowledgeIngestion` | uploads, retries, parses and deletions over the catalogue |
| `KnowledgeIndexing` | builds and retries of indexes over the catalogue, and the vectors |
| `IndexSwitch` | what searches are promised meanwhile: a document changes its index and its current version together, and for good reason only |
| `KnowledgeBase` | ingestion and indexing together, at one catalogue; the properties |
| `KnowledgeBase_proofs` | their proofs, for any number of calls, the refinement among them |
| `KnowledgeDictionary` | terms, versions, publications, the artifact file |
| `LexicalSync` | `synchronize` and `rebuild`, extends the dictionary it takes its snapshot of |
| `SearchService` | the server around both: start, repair, readiness, crash, and a second process |
| `SearchService_proofs` | the proofs about the dictionary, the alias, the artifact file and readiness |
| `IntentPolicy` | rules, risk floors, missing parameters, the route |
| `ContextResolution` | which topic a short question is about; the topics of a conversation |
| `GroundedAnswer` | coverage, quality, evidence, contract, verdict, publication |
| `LanguageModel` | calls of the model: retries, repetitions, records, the stream |
| `CustomerServiceGraph` | the graph: one action per node over the channels, composed of the four modules before |
| `CustomerServiceGraph_proofs` | its proofs |
| `Chunking` | the chunk strategies as operators on documents |
| `Chunking_proofs` | what they keep, for every document |
| `KnowledgeRetrieval` | searches over a changing catalogue, whose chunks are those of `Chunking` |
| `KnowledgeRetrieval_proofs` | its proofs |
| `SequenceParts` | the loops of the code over lists as folds: filter, collect, without repetition, first of each key |
| `SequenceFacts` | lemmas about those folds, and induction over the natural numbers from well-founded sets |
| `MC...` | the instances TLC checks |

### ReviewedExecution

An execution id is `thread_id:request_id`. `checkpoint[e]` is the MongoDB state
reduced to the next node and the two channels a verdict travels through;
`review[e]` the row with its status and the call that set it; `turn[t]` and
`resume[r]` the local state of the handlers, whose program counters are the
places where the code awaits; `calls` the audit rows with the answer of the
assistant message each points to.

| action | code |
|---|---|
| `Receive` | `_save_user_message` committed |
| `GraphPauses`, `GraphAnswersTurn`, `GraphRaises`, `GraphRefusesQuestion`, `GraphCutOff` | `_run_graph`: the outcomes of `ainvoke` and of the state read after it |
| `PersistTurn` | `_persist_outcome` |
| `LookForReview`, `OpenReview`, `OpenReviewConflicts` | `_ensure_pending_review`: a query, then an insert under a unique constraint |
| `FinishStream`, `TurnCutOff` | the end of the stream, the except and finally branches |
| `Claim`, `Refuse` | the first transaction of `resume_execution` |
| `ResumeGraph`, `ResumeGraphRaises`, `ResumeGraphFails`, `ResumeGraphPauses` | `ainvoke(Command(resume=...))` and its outcomes, a second pause included |
| `Release` | `_release_review_claim` |
| `Settle` | `_persist_resume_outcome` |
| `ResumeCutOff` | everything that ends the call outside the try block |
| `Crash`, `Expire` | the process dies; the TTL index removes a checkpoint |

`by` names the resume call, while the column holds the reviewer's user id: the
model tells two calls of one reviewer apart. A checkpoint whose first run
stopped at some node before `human_review` is `unfinished`; what `Command`
does there is to go on without reading its payload. A rerun on the same thread
inherits `response_override` and `answer`, because the graph's input does not
reset them. The mode with interrupts disabled (no MongoDB) has no reviews and
is left out, and so are two overlapping `ainvoke` calls inside one run: a run
is one step here, and its nodes are those of `CustomerServiceGraph`.

### ConversationStore

One conversation. `messages` and `snapshot` are MySQL, `cachedHistory` and
`cachedContext` are Redis, `handler[h]` is a call: a turn or the tail of a
resumption. A transaction reads what was committed at its first query (MySQL's
default isolation), except for the snapshot it locks. A context is a version
and the set of turns whose topics it holds; a turn advances it, starts over, or
leaves it alone when it asks the user back.

| action | code |
|---|---|
| `Begin`, `ReadContext`, `ReadHistory`, `SaveUserMessage`, `CacheUserMessage` | `_save_user_message`, one per await |
| `GraphReturns`, `GraphFails` | the run of the graph; a stream closed early keeps its context and drops its answer |
| `PersistOutcome`, `FindNoSnapshot`, `InsertSnapshot`, `InsertConflicts` | the transaction of `_persist_outcome`, atomic under the row lock, in two steps when there is no row to lock |
| `CacheContext`, `LookUpConversation`, `RereadHistory`, `CacheAnswer` | the copies after the commit |
| `SettleReview` | the message of `_persist_resume_outcome` |
| `Stop`, `ExpireHistory`, `ExpireContext` | a handler ends anywhere; a key reaches its TTL |

The branch that replaces an unreadable snapshot by an empty one is left out:
only dumps of valid contexts are stored. Listing order is commit order; in
MySQL `created_at` has no fraction of a second, so messages of one second may
really be listed in either order (see the hazards). The audit row that
`_persist_outcome` writes in the same commit is modelled in `ReviewedExecution`.

### KnowledgeCatalog, KnowledgeIngestion, KnowledgeIndexing, KnowledgeBase

All uploads carry one owner, title and domain, so they compete for one logical
document. An upload creates at most one document, one version and one job, all
named by it. The chunks of a version are named by the call that wrote them,
because a second parse replaces the rows by rows with new ids; a chunk id is
`[writer, ordinal]`. An index version is a document version under one
configuration; all configurations share one Milvus collection whose primary key
is the chunk id, so `vectors` maps a chunk id to the index that holds it.

| action | code |
|---|---|
| `Upload` | `upload` to the write of the file: lookup by hash, the file under the new version's id, or the existing version |
| `CommitUpload` | its commit; `Refused` is the two unique constraints |
| `Retry` | `retry`, which reads the status in a transaction of its own |
| `StartParse`, `ReplaceChunks`, `MarkFailed` | the transactions of `_process` and `_mark_failed` |
| `Delete` | `delete` |
| `BuildRequest`, `CreateIndex` | `build`: its queries, then the insert under the lock on the document |
| `RetryRequest` | `retry` |
| `StartAttempt` | `_start_attempt`; the job is taken without a look at its status |
| `ClearLeftovers`, `ReadPage`, `UpsertPage`, `IncreaseProgress` | `process` and `_write_batches`, one step per await |
| `Activate` | `_activate`, one transaction under the lock on the document |
| `VectorsFail`, `MarkIndexFailed`, `DropVectors` | the except branches |
| `StopIngest`, `StopIndexing` | a call ends at any await |

A transaction is one step at its commit. `reparsed` and `overlapped` are history
variables: versions that were parsed although the status the call had checked
had changed, and indexes with an attempt that began beside another. The properties
that overlapping attempts can break exclude them by name, `ActiveIsComplete` in
its invariant and `ImplementsSwitch` through `contested` (see "Known limits").

`KnowledgeBase` implements `IndexSwitch`: `serving[d]` is the set of active
indexes of document `d`, `shown[d]` the current ones among its versions, and
`contested` is `overlapped`. `Activate` is the abstract `Switch`, the commit of a
first version is `Create`, and everything else an attempt does rests, or contests
or withdraws an index. A value that SQLAlchemy would not
write because it was loaded with that value is written in the model; this
differs only for overlapping attempts.

### KnowledgeDictionary, LexicalSync, SearchService

The catalogue is reduced to the set `active` of active index versions, changed
by `ActivateIndex` and `DeleteDocument`, the two operations that are followed by
`synchronize`. A physical index is named by its generation, as in the code: the
active index ids and the dictionary hash. A record is an index with the terms
its text was marked with.

| action | code |
|---|---|
| `CreateCandidate`, `ReviewRequest`, `DecideTerm` | `create_candidate`, `review`: read, then written by key |
| `PublishRequest`, `KeepVersion`, `CommitVersion` | `publish` from its queries to its commit; `NumberTaken` is the unique constraints |
| `DeployArtifact`, `DeployFails`, `PublishSynchronizes` | the file after the commit, then the synchronisation |
| `TakeSnapshot` | `synchronize` behind the lock of its process |
| `Probe`, `DeleteLeftover`, `CreatePhysical`, `WriteBatch`, `SwitchAlias`, `CleanUp` | the calls of `rebuild` |
| `SearchFails`, `SwitchUnanswered` | an error, and an answer that is lost after the switch happened |
| `StartServer`, `RepairManifest`, `RepairArtifact`, `RepairFails`, `Serve`, `Crash` | `lifespan`, whose repair may fail with the database and is then skipped |
| `Ready` | `/ready` |

`Command` is `lexical_sync_cli`, a process with a lock of its own. `contended`,
`swallowed`, `missed` and `crossed` record what the code does not protect
against: two processes rebuilding at a time, a lost answer to the alias switch,
a publication that ended before it synchronised, and one that crossed another;
`refilled` records two publications that both found the manifest of one version
empty and both filled it in.

### CustomerServiceGraph and the modules it composes

A question is the record of what the code's patterns see in it (form, slot,
rule, identifiers, danger), an intent a pair of domain and action. `run` holds
the channels, `topics` the stored context, `call` the open call of the model,
`usage` what `ChatService` wrote down, `stream` the chat endpoint that streams.
`confirmed` is history: the intents decided since the user last dropped the
subject.

| action | code |
|---|---|
| `Send`, `Resume`, `Cancel`, `AskStream`, `LeaveStream` | what the user and the reviewer do |
| `Initialize`, `ValidateInput`, `FailNode`, `ResolveByRule`, `ClassifyByRule`, `HumanReview`, `RetrieveDomain`, `RetrievalFallsBack`, `FinishRetrieval`, `VerifyClaims`, `DeterministicResponse`, `Finalize` | the nodes, with the router behind each |
| `AskModel`, `Backoff`, `RepeatCall`, `CallFails` | the call a node makes, its HTTP attempts, its repetitions, its error branches |
| `ResolverReplies`, `ClassifierReplies`, `GroundedReplies`, `ChatReplies` | what the node does with the reply, which is any parsed reply |
| `StoreTurn` | `_persist_outcome` of a run that completed or paused |
| `Connect`, `Chunk`, `StreamBreaks`, ... | `OpenAICompatibleProvider.stream` under `ChatService.stream` |

The retriever is replaced by every ranking it may return (`Views`): distinct
parents in descending score. A score is one of three classes, because the policy
compares it with two thresholds. `Validated`, `Corrected`, `Target`, `Quality`,
`Verdict` and `Decision` are the pure decisions of the code as operators. What
becomes of a pause that is resumed is in `ReviewedExecution`; here `Resume` goes
on with the text of the verdict.

### Chunking and KnowledgeRetrieval

A block has a type, a heading path and lines, each of the kind the patterns of
the strategies see in it; the text of a chunk is the set of characters it takes
from the document, so that "no text is lost" is a statement about sets. Each
strategy is a fold over blocks or lines, as the code loops over them.

`KnowledgeRetrieval` takes the chunks of its versions from `Chunking`. The
stores return any ranking of what they were ever given and do not filter away.

| action | code |
|---|---|
| `Begin` | `_active_targets`, the white list |
| `VectorRecall`, `SearchStore` | the two remote recalls |
| `AskIndex`, `LockIndex`, `BuildIndex` | `_bm25_index`: look, lock, look again, build, evict |
| `Expand` | fusion, `_validate_and_expand`, the cut to the candidates |
| `TakeSlot`, `Reranked`, `FallBack` | `_rerank_parents`: semaphore, reply, timeout or error |
| `Cancel` | the caller gives up at any await |
| `Activate`, `Delete`, `Reparse`, `Release` | the catalogue and the dictionary meanwhile |
| `DebugChunks` | `debug_chunks` |

The modules share no variable across their groups. A run of the graph is one
step of `ReviewedExecution`; the retriever of `CustomerServiceGraph` returns
what `KnowledgeRetrieval` may return; the catalogue of `KnowledgeRetrieval` and
of `KnowledgeDictionary` is that of `KnowledgeCatalog` reduced to the set of
active indexes. That these reductions fit is argued here and not checked.

## 3. What the runs check

| run | instance | result |
|---|---|---|
| `review` | one execution, two turns on it, two resume calls, all seven faults | passes, 288 342 states |
| `review_liveness` | the same, faults `invoke` and `expiry`, weak fairness | passes, 154 108 states |
| `review_release` | faults `view`, `mysql` | `FailedResumeReleases` is violated |
| `review_verdict` | one turn, fault `invoke` | `VerdictMatchesAnswer` is violated |
| `review_reuse` | no fault | `TurnAnswersItself` is violated |
| `store` | two overlapping turns, one resumption, all faults | passes, 1 270 344 states |
| `store_turns` | three turns and a resumption, one at a time, fault `expiry` | passes, 11 721 states |
| `store_overwrite` | two overlapping turns, no fault | `NoTurnOverwritten` is violated |
| `knowledge` | two uploads, one retried parse, two contents, two builds, one retried build, two configurations, all faults, two calls open at a time | passes, 2 186 180 states |
| `lexical` | two terms, one reviewer, two publications, two indexes of one document, two changes, the command line, one crash, all faults | passes, 4 499 774 states |
| `answer` | six questions, seven decisions of the model, three parents in two domains, one HTTP retry, one repetition, weak fairness | passes, 239 114 states |
| `retrieval` | two versions, three indexes, a hybrid and a BM25 search, two changes of the catalogue; all 4 095 sample documents for the strategies | passes, 186 545 states |

### Properties

* **Reviews.** `ClaimIsExclusive`, `OneOutcome`, `VerdictIsFinal`,
  `VerdictWasGiven`, `ReportedPauseHasReview` and the refinement
  `ImplementsDecision` hold under every fault; `ClaimEnds` under the faults the
  try block catches.
* **Conversation.** `HistoryIsCommitted`, `QuestionFirst` and `CacheNotAhead`
  bound what Redis may hold, `SnapshotNeverBack` is about the version of the
  context; `TurnSeesConversation` and `CopiesAgree` hold when users wait for
  their answers.
* **Knowledge base.** `RowsAreBacked` relates files, version, job and chunks.
  `OneActiveIndex` and the refinement `ImplementsSwitch` are what a reader of the
  search relies on: an index stays active until another replaces it, unless
  attempts on it overlap, and a build that ends after its document was deleted
  switches nothing; `ActiveIsComplete` relates the collection in Milvus to the rows in
  MySQL; `ProcessingHasWorker` says that a job nobody finishes was stopped.
* **Search service.** `AliasIsComplete` and `AliasServes` are about every step
  of a rebuild; `ReadyMeansFresh` is about what the failures of several calls
  and a restart add up to; `LastVersionIsActive` and `FileFollowsActive` about
  overlapping publications.
* **Answers.** `PublishedIsSupported` relates the published text to the claims,
  the evidence and the verifier's mode; `SevereGoesToReview` runs over all
  intents of a question; `TopicWasConfirmed` follows a topic through the stored
  context over several messages; `EvidenceCoversQuestion` compares what was
  judged sufficient with what is left after the cuts; `CallsAreRecorded` counts
  through retries and repairs; `StreamNeverRepeats` through broken streams;
  `RunEnds` is liveness, and says how: completed, paused, failed with advice
  (`recommend_recovery`), or left by the client.
* **Retrieval.** `EvidenceIsCurrent` is about the check and about reranking;
  `CorpusMatchesKey` about the cache of BM25 indexes; `SearchEnds` is liveness
  with rerankers that never answer; `ChunksAreSound` compares every chunk
  strategy with what it must keep, over all documents of up to three of nine
  blocks and five document types.

### Bounds

Executions do not interact except through `Crash`, so one execution with two
turns and two resumers has every conflict over a row: insert against insert,
claim against claim, retry after release, a turn against a settlement. An
instance with two executions and three turns exceeds five million states and
adds no new pair of conflicting steps. In the store two turns and a resumption
give three writers of each copy; `CacheLimit` is 3 with up to 7 messages, so
the list overflows, and `Window` is 2.

`MaxOpen`, the number of handlers at work, is an assumption about the users,
not a limit of the code; where it is 2 every pair of handlers overlaps at every
await. In `knowledge` one of the contents has two children and a batch is one
vector, so a build is interrupted between batches; `u1` may be a version from
before chunks were stored (`Legacy`), which a build backfills. `MaxRetries` and
`MaxStops` are 1. In `lexical` a second term whose words contain those of the
first lets dictionaries differ without differing hashes; one crash meets every
await of two calls. In `answer` the candidates are three parents of which one is
kept (`TopK` 1) and at most two become evidence, so each cut can lose a product
or a domain; `MaxTopics` 2 is reached by three messages; `MaxGraphSteps` is 12
as in the code. In `retrieval` the cache holds one index (8 in the code), so a
second key evicts the first; one slot makes the second search wait and time out;
the two versions have chunks from `Chunking` at four characters per child, with
an overlap of one. Symmetry is used only over sets whose elements the
specification treats alike and in runs without liveness.

Deadlock is not checked: when every call has ended and no new one arrives, the
models stop.

### Fairness

Each `FairSpec` gives weak fairness to the steps of every handler that has
started: the event loop runs each coroutine that is ready, and every await
returns or raises. Nothing forces a user or a reviewer to call. `ClaimEnds`
holds under faults the try block catches; with `view`, `mysql`, `cancel` or
`crash` it does not, which is what `review_release` shows in its simplest form.
In `answer` the model's client has a timeout, so a call replies or fails, and
nodes are awaited by the graph; in `retrieval` the stores answer or fail and the
clock runs, but a reranker need not ever answer: the fallback at the timeout is
what ends the search.

### Findings

1. `resume_execution` returns a claim only when `ainvoke` itself raises. Any
   later failure, and any cancellation, leaves the row `processing`, and no
   operation accepts such a row again (`review_release`).
2. If `ainvoke` fails after `human_review` has run, the verdict stays in the
   checkpoint. A retry with the other decision publishes the first verdict and
   records the second (`review_verdict`).
3. A client that repeats its `X-Request-ID` runs a new message on the finished
   checkpoint of the old one and may receive the old verdict as its answer
   (`review_reuse`).
4. Two overlapping turns write the same context version; the later commit
   replaces the earlier turn's topics although the row is locked, since the
   context was computed from a read before the lock. Redis may then hold either
   (`store_overwrite`).

Three more disagreements between the stores follow from the model and are not
runs of their own: after a failed Redis write the next turn reads the old copy
as if it were the history (`store_turns` with the fault `redis`); a listing
read between another turn's commit and its append makes the answer appear twice
in the copy; and the second of two first turns loses its whole transaction.

### Known limits of the code

Where a property has an exclusion it is named, and the behaviour behind it is
in the model. These are the places.

Knowledge base:

* Two retries of one index, or a retry that starts between `_mark_failed` and
  the failing attempt's `delete_index_version`, overlap on one index version;
  the failing attempt removes the vectors of the other (`overlapped`).
* A version parsed by two calls gets its chunks replaced under an index that is
  being built or active (`reparsed`, `services/knowledge.py:561`), although
  `doc/week7-learning-record.md:90` calls versions and chunks immutable.
* The chunk id is the primary key of the one collection, so indexing a version
  under a second configuration takes the vectors of the first.
* Two first uploads of one title create two documents
  (`services/knowledge.py:107`).

Search service:

* Two processes that rebuild the same generation write into one physical index
  and may switch the alias to it half written (`contended`,
  `elasticsearch_store.py:57-69`). A lost answer to the alias switch makes the
  clean-up delete the index the alias names (`swallowed`, `:88-101`).
* A publication whose file write fails after its commit does not synchronise
  (`missed`, `services/dictionary.py:210-212`); two publications that cross may
  leave the older file until the next start (`crossed`).
* Two publications of an unchanged artifact both find the manifest of the active
  version empty, when the repair at the start failed, and both fill it in from
  the terms each has read; the later commit may carry the earlier terms, and the
  alias, whose generation is the same, keeps the other ones (`refilled`,
  `services/dictionary.py:186-192`).
* The generation does not depend on chunk ids or on the manifest: a rebuild by
  the command line before the start has filled in the manifest stays without
  domain terms. An approved term whose words are in the artifact already never
  enters the manifest.
* Two reviewers of one term: the last writer wins (`services/dictionary.py:150`).

Answers:

* `StandaloneQueryRewriter` may attach the old topic again after the user
  dropped the subject; chitchat that the model rates high is answered by the
  chat model; a price matched by rule bypasses the model's decision.
* Of a verified answer the whole text is published although only its claims
  were verified.
* Several domains share `max_parents` and the character budget; a later domain
  can be left without evidence (the disjunct of `EvidenceCoversQuestion`).
* Coverage is judged on all parents a search returned, and the parents are cut
  to `parent_top_k` afterwards (`services/policy_retrieval.py:152`): a question
  with more entities than that loses some of them (the second disjunct).
* The message schema admits 4000 characters
  (`schemas/conversations.py:31`), the graph refuses more than 2000.
* `step_count` is added up over the runs of one thread (`workflow.py:92`), so a
  request id reused often enough fails by itself.
* A process that dies between two nodes leaves a running checkpoint for which
  `recommend_recovery` recommends nothing (`replay.py:84-90`).

Retrieval:

* The cached BM25 index of a version parsed a second time keeps the ids of
  deleted rows; the check drops such hits (the exclusion of `CorpusMatchesKey`).
* Recalls that disagree about the identity of a chunk make a hybrid search
  raise, not degrade.
* The FAQ strategy takes text after a non-question heading as part of the answer
  before it, and rejects a document with a table between question and answer.

## 4. What is proved

The theorems hold for arbitrary sets of executions, calls, documents, contents,
configurations, terms, questions and searches, and for any bounds. Each group has
one inductive invariant, a conjunction of named parts; its proof has one step for
each action and part. Every safety invariant and action property of the runs
that pass has a theorem.

**ReviewedExecution**, under `ConstantsAssumption` (every turn has an execution;
`None` is not one of the other values):

* `TypeCorrect`: `TypeOK` is inductive by itself.
* `Exclusive`, `Outcome`: `Inv` is `TypeOK`, `ClaimIsExclusive` and `OneOutcome`
  together. Neither of the last two is inductive without the other: a settlement
  adds the only audit row because its call holds the claim, and a claim is
  exclusive because rows that are settled are never claimed.
* `Final`: under `Inv`, the only actions that write a row write one that is
  absent, pending, or held by the writing call.
* `PromisedReview`: a row, once there, never disappears, and a pause is reported
  only behind the insert or the query that saw a row.
* `VerdictsAreGiven`: the strengthening `AllGiven` follows a verdict through
  every place it can be in: the checkpoint's `response_override` and `answer`,
  the locals of turns and resumptions, the audit rows. In each place there is a
  resume call on that execution that decided so.
* `Refinement`: with status as phase, `by` as holder and the answer of the
  resume's audit row as publication, the initial state maps to the initial state
  and every step to `Open`, `Hold`, `GiveBack`, `Settle` or a stutter. It needs
  `Inv` in two places: the single audit row makes the published answer a
  function, and the claim makes a release or settlement start from `held`.

**KnowledgeBase**, under `CatalogAssumption`, `NoneIsNoVersion`,
`IngestionAssumption`, `IndexingAssumption` (batches are not empty; a largest
number of children exists) and `BaseAssumption`. `BaseInv` has three parts:

* `IngestInv`: the types; `NumbersInv`, that the versions of a document are
  numbered 1 to k without a gap and a number a call has read is at most k + 1, so
  that a number that is still free at the commit proves the call read all rows;
  and that calls work on versions that exist or are reserved for them.
* `RowsInv`: `RowsAreBacked`, that a committing upload has its file, and that a
  job in processing has a parser. The proof shows why a version that fails after
  it was ready is no contradiction: version and job are written together.
* `IndexInv`: what the rows say of the locals of every build (`CallsInv`); that
  an active index has a succeeded job and the only current version
  (`ActiveInv`); that without overlap an index has one attempt, and no attempt
  when it is active (`AttemptsInv`); that a job in processing has an indexer.

`BaseTyped`, `RowsBacked`, `ActiveIsUnique` and `NoOrphanedJob` follow from it. The uniqueness of the active index is
the work of `_activate`, one transaction under the lock on the document; nothing
in `build` is needed for it.

`SwitchIsImplemented`: every step is a step of `IndexSwitch` or rests. It needs
the invariant where an index stops being active (`OneIndexStops`): it was the only
one of its document, and whoever writes it is one of several attempts on it, so
the abstract step is `Withdraw` and contests it; and in `Activate`
(`ActivationSwitches`), where what is superseded is exactly what the document
served and the index belongs to no other document.

`ActiveHoldsChildren` needs more, `PublishInv`: a version parsed once is parsed by
one call and has no chunks before (`ParseInv`); a call past its first transaction
has its index row (`CallRowsInv`); the ids of a page were written by a parse that
is over, for the version the call indexes (`PagesInv`); and the vectors an attempt
holds are the ids of the pages before the progress it has read, without a gap
(`VectorsInv`). The exclusions of the property are what `VectorsInv` assumes of an
index: no overlapping attempt, no second parse, no second configuration.

**SearchService**, under `NoneIsNoGeneration`:

* `VersionsInOrder`: `VersionsInv` numbers the versions by position and keeps a
  number a publication has read at most one beyond the last; the unique
  constraints then let through only the publication that read the last row.
* `AliasComplete`, `AliasStays`: `AliasInv` with `CallInv` says of every
  await in `rebuild` what the physical index of the call contains, and that the
  calls beside it are in front of their first step, or hold the lock of the other
  process. The proof uses the lock of each process and the negation of
  `contended`, and nothing about the dictionary or the server.

On the artifact file and readiness the proofs go on from there:

* `FileIsActive`: the file holds the artifact of the last version, or a
  publication is about to write it and its artifact is that of the last version
  (`FileKept`); no publication runs before the server serves (`OnlyServing`).
  That two publications cannot both be about to write is the exclusion `crossed`.
* `ReadyIsFresh`: `MarksInv`, that the words in every record, written or still to
  be written, are those of the version whose artifact the generation names, or
  none, with `HashUnique`, that no two versions have one artifact; and
  `FreshInv`, that outside of the steps that change the catalogue whoever
  rebuilds builds what is active now, and that the alias names it when nobody
  does and the last call did not fail. The first draft of the property was not
  inductive, and the state it failed in is reachable: this is how `refilled` and
  the fault `database` came into the model.

**ConversationStore**, under `ConstantsAssumption` (the handlers are finitely
many) and `NoneIsNoContext`. For overlapping turns `Inv` is `TypeOK` with

* `CountInv`: a version is at most the number of turns that have committed one,
  which bounds the counter whatever is dropped;
* `CommitInv`: what a handler holds or is about to write was committed
  (`OnlyCommittedHistory`);
* `OrderInv`: the answer of an unanswered turn is nowhere, and no copy or view
  shows an answer before its question (`QuestionsComeFirst`);
* `VersionInv`: a context is cached behind the commit that stored it or a later
  one (`ContextCopyTrails`; `SnapshotIsMonotone` is about the commits).

`SerialTurnsSeeConversation` and `SerialCopiesAgree` assume `OneAtATime`: one
handler is at work at a time, and keys may expire at any time. `SerialInv` says
that nobody is at work and the copies are absent or current, or that one handler
is and what it has read agrees with the stores at each of its awaits.

**CustomerServiceGraph**, under `GraphAssumption`, `ModelAssumption`, the
assumptions on the sizes of the cuts and `NoneIsNoDecision`. The parts are proved
one after another, each from `Shape` (the channels and the call at its node) and
those before it:

| theorem | what is inductive |
|---|---|
| `EveryCallIsRecorded` | `UsageInv`: open calls and records add up to the attempts, and what is billed is what was recorded when the grounded call ended |
| `NoChunkTwice` | `StreamInv`: a connection that waits has shown nothing, the next chunk of an open one follows what was shown |
| `KnowledgeIsSupported` | `PublishInv`: between the check of the citations and the publication nothing touches the evidence |
| `SevereIsReviewed` | `ReviewInv`: a severe reply of the model leads to the reviewer, an unsafe one to the fixed text, and neither meets a model or a search afterwards; the highest floor wins in any order |
| `TopicIsConfirmed` | `TopicInv`: the topic of a run, the stored and the next topics are all in `confirmed`; before the intent is known only the stored ones count |
| `EvidenceIsSufficient` | `EvidenceInv`: after each searched domain the evidence is full, or more is required than a domain keeps, or it covers what is required of the domains searched so far |
| `GraphTyped` | `PlaceInv`, that the steps of a run are at most those on the longest way to its node, because the graph has no cycle; `ContentInv`, `MemoryInv` and `CallInv`, the bounds of channels, topics and attempts |

**Chunking**, under `ChunkingAssumption`: a child takes at least one character and
more than the overlap, and the markers of a path select one of four strategies.
`ChunksSound` is about every sequence of blocks with text, of any length: the
drafts of a document are a refusal, or `Sound` and without an error. `Sound` is
made so that it can be put together:

* it speaks of *families*, a parent with its children, whose names begin with a
  stem (strategy, ordinal of the first block, number). Drafts of disjoint sets of
  stems go together (`SoundTogether`), and so do the parts of a list of drafts
  (`SoundParts`). That the sets are disjoint is the reason why ids are unique: the
  runs and groups of a document share no block, the records of a FAQ have a
  number, and the fallback has the name of another strategy;
* the text still to be said is a parameter. A strategy answers for the body of the
  blocks it is given (`GenericSound`, `TableSound`, `ManualSound`, `PolicySound`,
  `FaqSound`); the runs of a document have its body together (`SoundRuns`);
* each loop has its invariant: the packer of sentences has every character in its
  parts or in its buffer, a unit of a policy that holds an exception holds the
  line before it (`FollowsTogether`, `TogetherGrows`), and what the reader of a
  FAQ has heard is in a record, in the record being read, in the lines left over
  or in the fallback (`LinesHeard`, `BlocksRead`).

`ChunksKeepText` says it of what `debug_chunks` shows, and `ChildrenHaveParents`
of the chunks of a version. An earlier form of `ChunksAreSound` spoke of policies
alone; the proof showed that an exception stays with its rule in the policy
sections of a mixed document as well, and the property says so now.

**KnowledgeRetrieval**, under `RetrievalAssumption`. `ChildrenHaveParents` is the
only fact about chunking the searches use. `RetrievalInvariant` has six parts:
types; `RankInv`, that parents are distinct before they are reranked, so that a
reply can neither add nor lose one; `LockInv`, that the lock is held by who
builds; `KeysInv`, that whoever waited for the lock has looked again, hence no key
is twice in the cache; `CorpusInv`, that signature of the key, dictionary of the
tokens and dictionary in use are in this order, so a key that names the
dictionary in use was counted with it; `SlotInv`, that no more rerankers are asked
than there are slots. `RetrievalTyped`, `CorpusIsOfKey` and `ShowsWhatIsCurrent`
follow. The last is about a step: the parents are checked, and the catalogue read
for the check, in the transaction the step stands for.

**Folds.** The loops of the code over lists are folds with `FoldLeft`. Induction
theorems that take a predicate are out of reach, so `SequenceFacts` proves
`Induction` for a *set* of numbers, from the well-foundedness of finite sets under
inclusion, and from it that a fold is the last value of a function on positions
(`FoldExists`) and keeps what its step keeps (`FoldStays`). `WithinIs`,
`CollectIs`, `OnceIs` and `FirstOfIs` say what the folds of `SequenceParts` return,
in order and without repetition.

**What the proofs changed in the model.** The guards of some `CASE`s overlapped,
so that a case chosen freely would have been another program; they are disjoint
now, in the order of the code's branches. Filters written with a recursive
operator became folds, and the domains of a plan are collected without repetition
as in `route_domains`. `refilled` and `RepairFails` are described above.

**Only model-checked.** Liveness (`ClaimEnds`, `RunEnds`, `SearchEnds`) is out of
the prover's reach.

## Not modelled

The UI, the offline evaluation, the document loaders (files to blocks), HTTP
plumbing and authentication, configuration and logging keep no state that other
parts read. Of the modelled components these parts are abstracted: the regular
expressions of rules and claim checks are flags of questions and claims; BM25
and fusion scores are any order; tokenization is the name of the dictionary;
embeddings are left out; the wording of prompts and of the context window,
and the stateless rewriter of queries, are left out. Read-only views and listings
change nothing and are no actions.

## 5. What is left

`ReviewedExecution` taking the outcomes of a run from `CustomerServiceGraph`.

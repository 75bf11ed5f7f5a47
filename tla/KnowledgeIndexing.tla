--------------------------- MODULE KnowledgeIndexing -------------------------
(***************************************************************************)
(* Building the vector index of a document version and switching to it     *)
(* (services/indexing.py, knowledge/vector_store.py).  An index version is *)
(* a document version under one configuration (model, chunk schema); all   *)
(* configurations of the model share one collection of Milvus, whose       *)
(* primary key is the chunk id.                                            *)
(*                                                                         *)
(* build and retry run process in the same call: a transaction that takes  *)
(* the job, the removal of left-over vectors, pages of read, embed, upsert *)
(* and count, and the transaction that activates; whatever raises leads to *)
(* the transaction that records the failure and to a removal that may fail.*)
(***************************************************************************)
EXTENDS KnowledgeCatalog

CONSTANTS
    Configs,     \* embedding and chunk configurations of successive releases
    Builds,      \* calls of build
    IndexRetries,\* calls of retry
    BatchSize    \* children embedded at a time

ASSUME IndexingAssumption ==
    /\ Builds \cap IndexRetries = {}
    /\ None \notin Builds \cup IndexRetries
    /\ BatchSize \in Nat \ {0}
    /\ \E c \in Contents : \A o \in Contents : Children[o] <= Children[c]

VARIABLES
    index,       \* knowledge_index_versions, with the status of their job
    vectors,     \* Milvus: the index version that holds a chunk's vector
    build,       \* the local state of every call
    overlapped   \* history: indexes with an attempt that was started while
                 \* another was open, or on a status that had changed

indexVars == <<index, vectors, build, overlapped>>

Indexes == Uploads \X Configs

ASSUME NoneIsNoIndex == None \notin Indexes

Indexers == Builds \cup IndexRetries
Ordinals == 1..(CHOOSE n \in {Children[c] : c \in Contents} :
                   \A c \in Contents : Children[c] <= n)
ChunkIds == [writer : Parsers, ordinal : Ordinals]

Doc(i) == version[i[1]].doc

Index == [status : {"absent", "building", "active", "superseded", "failed"},
          job : JobStatus, total : Nat, indexed : Nat]

\* page: the ids just read; after: the last ordinal that was counted.
Build == [pc : {"idle", "creating", "starting", "clearing", "reading",
                "upserting", "counting", "activating", "failing", "dropping",
                "closed", "stopped"},
          index : Indexes \cup {None}, saw : JobStatus,
          page : SUBSET ChunkIds, after : Nat]

IndexTypeOK ==
    /\ index \in [Indexes -> Index]
    /\ vectors \in [ChunkIds -> Indexes \cup {None}]
    /\ build \in [Indexers -> Build]
    /\ overlapped \in SUBSET Indexes

\* A call that has not read a page; one that has; one that holds nothing (any
\* more).
BuildOf(pc, i, saw) == [pc |-> pc, index |-> i, saw |-> saw, page |-> {},
                        after |-> 0]

PageOf(pc, i, page, after) == [pc |-> pc, index |-> i, saw |-> "absent",
                               page |-> page, after |-> after]

BuildAt(pc) == BuildOf(pc, None, "absent")

Row(i, status, state) == [status |-> status, job |-> state,
                          total |-> index[i].total, indexed |-> index[i].indexed]

IndexInit ==
    /\ index = [i \in Indexes |->
                  [status |-> "absent", job |-> "absent", total |-> 0,
                   indexed |-> 0]]
    /\ vectors = [k \in ChunkIds |-> None]
    /\ build = [b \in Indexers |-> BuildAt("idle")]
    /\ overlapped = {}

-----------------------------------------------------------------------------
(* build and retry *)

\* Only a ready version of an active document is indexed; an index that
\* exists is returned as it is.
BuildRequest(b, i) ==
    /\ build[b].pc = "idle"
    /\ i[1] \in Versions
    /\ document[Doc(i)] = "active"
    /\ version[i[1]].status = "ready"
    /\ index[i].status = "absent"
    /\ build' = [build EXCEPT ![b] = BuildOf("creating", i, "absent")]
    /\ UNCHANGED <<catalogVars, index, vectors, overlapped>>

\* The lock on the document orders the inserts; the rows were read before it
\* was taken, and the unique build key refuses the second insert.
CreateIndex(b) ==
    LET i == build[b].index IN
    /\ build[b].pc = "creating"
    /\ IF index[i].status = "absent"
       THEN /\ index' = [index EXCEPT ![i] = Row(i, "building", "queued")]
            /\ build' = [build EXCEPT ![b] = BuildOf("starting", i, "queued")]
       ELSE /\ build' = [build EXCEPT ![b] = BuildAt("closed")]
            /\ UNCHANGED index
    /\ UNCHANGED <<catalogVars, vectors, overlapped>>

RetryRequest(r, i) ==
    /\ build[r].pc = "idle"
    /\ index[i].job = "failed"
    /\ document[Doc(i)] = "active"
    /\ build' = [build EXCEPT ![r] = BuildOf("starting", i, "failed")]
    /\ UNCHANGED <<catalogVars, index, vectors, overlapped>>

-----------------------------------------------------------------------------
(* process *)

OpenIndexings == {b \in Indexers : build[b].pc \notin {"idle", "closed", "stopped"}}

OthersOpen(b) == \E o \in OpenIndexings \ {b} :
                    /\ build[o].index = build[b].index
                    /\ build[o].pc \notin {"creating", "starting"}

SourceReady(i) == /\ document[Doc(i)] = "active"
                  /\ version[i[1]].status = "ready"

\* The job is taken without a look at its status; an index without children
\* fails after this transaction.
StartAttempt(b) ==
    LET i == build[b].index IN
    /\ build[b].pc = "starting"
    /\ overlapped' = IF index[i].job # build[b].saw \/ OthersOpen(b)
                     THEN overlapped \cup {i} ELSE overlapped
    /\ IF SourceReady(i)
       THEN /\ index' = [index EXCEPT
                  ![i] = [status |-> "building", job |-> "processing",
                          total |-> ChildCount(i[1]), indexed |-> 0]]
            /\ build' = [build EXCEPT
                  ![b] = BuildOf(IF ChildCount(i[1]) = 0 THEN "failing"
                                                         ELSE "clearing",
                                 i, "absent")]
       ELSE /\ build' = [build EXCEPT ![b] = BuildOf("failing", i, "absent")]
            /\ UNCHANGED index
    /\ UNCHANGED <<catalogVars, vectors>>

\* Mutant of WithoutVectorsOf: the filter names the document version.
WithoutVectorsOfDocument(i) ==
    [k \in ChunkIds |-> IF vectors[k] # None /\ Doc(vectors[k]) = Doc(i)
                        THEN None ELSE vectors[k]]

WithoutVectorsOf(i) ==
    [k \in ChunkIds |-> IF vectors[k] = i THEN None ELSE vectors[k]]

\* ensure_collection, then delete_index_version.
ClearLeftovers(b) ==
    /\ build[b].pc = "clearing"
    /\ vectors' = WithoutVectorsOf(build[b].index)
    /\ build' = [build EXCEPT ![b].pc = "reading"]
    /\ UNCHANGED <<catalogVars, index, overlapped>>

\* The next page by ordinal; no page is left when every child was read.
ReadPage(b) ==
    LET i == build[b].index
        page == ChildIds(i[1], build[b].after + 1, build[b].after + BatchSize)
    IN
    /\ build[b].pc = "reading"
    /\ build' = [build EXCEPT
          ![b] = PageOf(IF page = {} THEN "activating" ELSE "upserting",
                        i, page, @.after)]
    /\ UNCHANGED <<catalogVars, index, vectors, overlapped>>

\* An upsert replaces the vector of a chunk id, whichever index held it.
UpsertPage(b) ==
    /\ build[b].pc = "upserting"
    /\ vectors' = [k \in ChunkIds |-> IF k \in build[b].page
                                      THEN build[b].index ELSE vectors[k]]
    /\ build' = [build EXCEPT ![b].pc = "counting"]
    /\ UNCHANGED <<catalogVars, index, overlapped>>

IncreaseProgress(b) ==
    LET i == build[b].index
        indexed == index[i].indexed + Cardinality(build[b].page)
    IN
    /\ build[b].pc = "counting"
    /\ IF indexed > index[i].total
       THEN /\ build' = [build EXCEPT ![b] = BuildOf("failing", i, "absent")]
            /\ UNCHANGED index
       ELSE /\ index' = [index EXCEPT ![i].indexed = indexed]
            /\ build' = [build EXCEPT
                  ![b] = PageOf("reading", i, {},
                                @.after + Cardinality(@.page))]
    /\ UNCHANGED <<catalogVars, vectors, overlapped>>

\* Mutant of Superseded: only indexes of the same document version.
SupersededOfVersion(i) ==
    {j \in Indexes : j[1] = i[1] /\ index[j].status = "active" /\ j # i}

Superseded(i) ==
    {j \in Indexes : /\ index[j].status = "active" /\ j # i
                     /\ Doc(j) = Doc(i)}

Complete(i) == index[i].indexed = index[i].total

\* Mutant of Undeleted: the status that was checked when the attempt started.
CheckedBefore(i) == TRUE

\* The row that was locked.
Undeleted(i) == document[Doc(i)] = "active"

\* Mutant of SwitchCurrent: the id of the index for that of the version.
FlagIndex(i) == current' = (current \ VersionsOf(Doc(i))) \cup {i}

SwitchCurrent(i) == current' = (current \ VersionsOf(Doc(i))) \cup {i[1]}

\* Under the lock on the document.
Activate(b) ==
    LET i == build[b].index IN
    /\ build[b].pc = "activating"
    /\ IF Complete(i) /\ Undeleted(i)
       THEN /\ index' = [j \in Indexes |->
                  IF j = i THEN Row(i, "active", "succeeded")
                  ELSE IF j \in Superseded(i)
                       THEN Row(j, "superseded", index[j].job)
                       ELSE index[j]]
            /\ SwitchCurrent(i)
            /\ build' = [build EXCEPT ![b] = BuildAt("closed")]
       ELSE /\ build' = [build EXCEPT ![b].pc = "failing"]
            /\ UNCHANGED <<index, current>>
    /\ UNCHANGED <<document, version, job, blocks, chunks, vectors, overlapped>>

\* Mutant of AfterError: the vectors are removed and the job is left as it is.
OnlyDrop == "dropping"

AfterError == "failing"

\* The vector store, the embedding model or the check of its answer raises.
VectorsFail(b) ==
    /\ "vectors" \in Faults
    /\ build[b].pc \in {"clearing", "upserting"}
    /\ build' = [build EXCEPT ![b] = BuildOf(AfterError, @.index, "absent")]
    /\ UNCHANGED <<catalogVars, index, vectors, overlapped>>

\* Whatever raised, and whatever the row says by now.
MarkIndexFailed(b) ==
    /\ build[b].pc = "failing"
    /\ index' = [index EXCEPT
          ![build[b].index] = Row(build[b].index, "failed", "failed")]
    /\ build' = [build EXCEPT ![b] = BuildOf("dropping", @.index, "absent")]
    /\ UNCHANGED <<catalogVars, vectors, overlapped>>

DropVectors(b) ==
    /\ build[b].pc = "dropping"
    /\ \/ vectors' = WithoutVectorsOf(build[b].index)
       \/ "vectors" \in Faults /\ UNCHANGED vectors
    /\ build' = [build EXCEPT ![b] = BuildAt("closed")]
    /\ UNCHANGED <<catalogVars, index, overlapped>>

StopIndexing(b) ==
    /\ "stop" \in Faults
    /\ build[b].pc \notin {"idle", "closed", "stopped"}
    /\ build' = [build EXCEPT
          ![b] = BuildOf("stopped", @.index, "absent")]
    /\ UNCHANGED <<catalogVars, index, vectors, overlapped>>

-----------------------------------------------------------------------------

BeginIndexing(b) ==
    \E i \in Indexes : \/ b \in Builds /\ BuildRequest(b, i)
                       \/ b \in IndexRetries /\ RetryRequest(b, i)

StepIndexing(b) ==
    \/ b \in Builds /\ CreateIndex(b)
    \/ StartAttempt(b)
    \/ ClearLeftovers(b)
    \/ ReadPage(b)
    \/ UpsertPage(b)
    \/ IncreaseProgress(b)
    \/ Activate(b)
    \/ VectorsFail(b)
    \/ MarkIndexFailed(b)
    \/ DropVectors(b)
=============================================================================

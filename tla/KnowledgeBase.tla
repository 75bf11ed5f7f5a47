----------------------------- MODULE KnowledgeBase ---------------------------
(***************************************************************************)
(* Ingestion and indexing at work on one catalogue: uploads and retries    *)
(* that parse, builds and retries that index, and deletions, each a        *)
(* coroutine of one process or of several.                                 *)
(***************************************************************************)
EXTENDS KnowledgeIngestion, KnowledgeIndexing

CONSTANTS
    MaxOpen,     \* how many calls work at a time
    MaxRetries,  \* how many retries, of parses and of builds, are made
    MaxStops     \* how many calls stop on the way

ASSUME BaseAssumption ==
    MaxOpen \in Nat \ {0} /\ MaxRetries \in Nat /\ MaxStops \in Nat

vars == <<catalogVars, ingestVars, indexVars>>

\* Every row, file, vector and call is of its type.
TypeOK == CatalogTypeOK /\ IngestTypeOK /\ IndexTypeOK

Init == CatalogInit /\ IngestInit /\ IndexInit

MayBegin == Cardinality(OpenIngests) + Cardinality(OpenIndexings) < MaxOpen

Stopped == {c \in Parsers : ingest[c].pc = "stopped"}
           \cup {b \in Indexers : build[b].pc = "stopped"}

MayStop == Cardinality(Stopped) < MaxStops

Retried == {c \in Retries : ingest[c].pc # "idle"}
           \cup {b \in IndexRetries : build[b].pc # "idle"}

MayRetry == Cardinality(Retried) < MaxRetries

\* Calls of one kind differ in their name only, so they begin in a fixed
\* order.
First(calls) == IF calls = {} THEN {} ELSE {CHOOSE c \in calls : TRUE}

NextIngests == LET idle == {c \in Parsers : ingest[c].pc = "idle"} IN
               First(idle \cap Uploads)
               \cup (IF MayRetry THEN First(idle \cap Retries) ELSE {})

NextIndexings == LET idle == {b \in Indexers : build[b].pc = "idle"} IN
                 First(idle \cap Builds)
                 \cup (IF MayRetry THEN First(idle \cap IndexRetries) ELSE {})

Next ==
    \/ /\ \/ MayBegin /\ \E c \in NextIngests : BeginIngest(c)
          \/ \E c \in Parsers : StepIngest(c) \/ (MayStop /\ StopIngest(c))
          \/ \E d \in Uploads : Delete(d)
       /\ UNCHANGED indexVars
    \/ /\ \/ MayBegin /\ \E b \in NextIndexings : BeginIndexing(b)
          \/ \E b \in Indexers : StepIndexing(b) \/ (MayStop /\ StopIndexing(b))
       /\ UNCHANGED ingestVars

Spec == Init /\ [][Next]_vars

-----------------------------------------------------------------------------
(* Properties *)

\* A version whose row exists has its file stored; the job and the version
\* fail and succeed together, and only a version with chunks is ready, however
\* parses of it overlap (the order of _process and upload).
RowsAreBacked ==
    \A v \in Versions :
       /\ v \in files
       /\ job[v] = "succeeded" => version[v].status = "ready"
       /\ job[v] = "failed" => version[v].status = "failed"
       /\ version[v].status = "ready" => v \in Legacy \/ chunks[v] # None

Active(d) == {i \in Indexes : /\ i[1] \in Versions
                              /\ Doc(i) = d
                              /\ index[i].status = "active"}

\* However builds of one document overlap, at most one of its indexes is
\* active (lock_document and supersede_active_indexes in _activate), and its
\* version is the only current one.
OneActiveIndex ==
    \A d \in Uploads :
       /\ Cardinality(Active(d)) <= 1
       /\ Active(d) # {} => \E i \in Active(d) :
                               current \cap VersionsOf(d) = {i[1]}

\* A search over an active index finds every child of its version and
\* nothing else, unless attempts on that index or parses of that version
\* overlapped, or the version was also indexed under another configuration:
\* the chunk id is the primary key of the collection that all configurations
\* share, so that build takes the vectors over.
ActiveIsComplete ==
    \A i \in Indexes :
       (/\ index[i].status = "active"
        /\ i \notin overlapped
        /\ i[1] \notin reparsed
        /\ \A j \in Indexes : (j[1] = i[1] /\ j # i) => index[j].status = "absent")
       => {k \in ChunkIds : vectors[k] = i} = AllChildIds(i[1])

\* A job that says processing has a call that works on it, or one that
\* stopped: attempts that overlap or fail late leave no job behind that
\* nobody finishes and retry refuses.
ProcessingHasWorker ==
    /\ \A v \in Uploads : job[v] = "processing" =>
          \E c \in Parsers : /\ ingest[c].version = v
                             /\ ingest[c].pc \in {"parsing", "stopped"}
    /\ \A i \in Indexes : index[i].job = "processing" =>
          \E b \in Indexers : /\ build[b].index = i
                              /\ build[b].pc \notin {"idle", "starting", "closed"}

-----------------------------------------------------------------------------
(* Implementation of the abstract switch *)

Serving == [d \in Uploads |-> Active(d)]
Shown == [d \in Uploads |-> current \cap VersionsOf(d)]

Switching == INSTANCE IndexSwitch WITH
    Documents <- Uploads,
    Versions <- Uploads,
    status <- document,
    serving <- Serving,
    shown <- Shown,
    contested <- overlapped

\* However uploads, builds, retries and deletions overlap, and wherever they
\* stop, a document, its index and its current version change as IndexSwitch
\* says: an index stays active until another one of its document replaces it,
\* unless attempts on the index itself overlap; a build that ends after its
\* document was deleted switches nothing; and no step touches two documents
\* (_activate, supersede_active_indexes and switch_current_document_version
\* under lock_document).
ImplementsSwitch == Switching!Spec
=============================================================================

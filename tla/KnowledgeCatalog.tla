--------------------------- MODULE KnowledgeCatalog --------------------------
(***************************************************************************)
(* The rows of MySQL that ingestion and indexing share (models/entities.py *)
(* and repositories/knowledge.py): logical documents, their file versions, *)
(* the parse job of each version and the chunks a parse left behind.       *)
(*                                                                         *)
(* All uploads of the model carry one owner, title and domain, so they     *)
(* compete for one logical document.  An upload creates at most one        *)
(* document, one version and one job; each is named by that upload.  The   *)
(* chunks of a version are named by the call that wrote them: a second     *)
(* parse replaces them by rows with new ids.                               *)
(***************************************************************************)
EXTENDS Integers, FiniteSets

CONSTANTS
    Uploads,      \* calls of upload
    Retries,      \* calls of retry
    Contents,     \* the bytes that are uploaded
    Children,     \* Children[c]: child chunks of content c, 0 if it has none
    Legacy,       \* uploads that may date from before chunks were stored
    Faults,       \* the failures that may happen, see FaultKinds
    None          \* an absent value

\* storage: reading a file fails; vectors: a call of the embedding model or of
\* the vector store fails; stop: a call ends between two steps (an exception
\* nobody catches, a failed transaction, a process that dies).
FaultKinds == {"storage", "vectors", "stop"}

ASSUME CatalogAssumption ==
    /\ Uploads \cap Retries = {}
    /\ None \notin Uploads \cup Retries
    /\ Children \in [Contents -> Nat]
    /\ Legacy \subseteq Uploads
    /\ Faults \subseteq FaultKinds

VARIABLES
    document,     \* knowledge_documents.status
    version,      \* knowledge_document_versions
    current,      \* the versions whose is_current is set
    job,          \* knowledge_ingestion_jobs.status
    blocks,       \* the versions with rows in knowledge_source_blocks
    chunks        \* knowledge_chunks: who wrote those of a version

catalogVars == <<document, version, current, job, blocks, chunks>>

Parsers == Uploads \cup Retries

Version == [doc : Uploads, content : Contents, number : Nat \ {0},
            status : {"pending", "ready", "failed"}]

ASSUME NoneIsNoVersion == None \notin Version

JobStatus == {"absent", "queued", "processing", "succeeded", "failed"}

CatalogTypeOK ==
    /\ document \in [Uploads -> {"absent", "active", "deleted"}]
    /\ version \in [Uploads -> Version \cup {None}]
    /\ current \in SUBSET Uploads
    /\ job \in [Uploads -> JobStatus]
    /\ blocks \in SUBSET Uploads
    /\ chunks \in [Uploads -> Parsers \cup {None}]

\* A version of the time before chunks were stored was parsed successfully
\* and has source blocks only; there may be some or none.
CatalogInit ==
    \E old \in SUBSET Legacy : \E bytes \in [old -> Contents] :
       /\ document = [u \in Uploads |-> IF u \in old THEN "active" ELSE "absent"]
       /\ version = [u \in Uploads |->
             IF u \in old
             THEN [doc |-> u, content |-> bytes[u], number |-> 1,
                   status |-> "ready"]
             ELSE None]
       /\ current = {}
       /\ job = [u \in Uploads |-> IF u \in old THEN "succeeded" ELSE "absent"]
       /\ blocks = old
       /\ chunks = [u \in Uploads |-> None]

-----------------------------------------------------------------------------
(* Queries *)

Versions == {v \in Uploads : version[v] # None}

VersionsOf(d) == {v \in Versions : version[v].doc = d}

\* No order is asked for: any of several matches may be returned.
ActiveDocuments == {d \in Uploads : document[d] = "active"}

VersionsByHash(d, content) == {v \in VersionsOf(d) : version[v].content = content}

NextVersionNumber(d) ==
    1 + CHOOSE n \in {0} \cup {version[v].number : v \in VersionsOf(d)} :
           \A v \in VersionsOf(d) : version[v].number <= n

ChildCount(v) == IF chunks[v] = None THEN 0 ELSE Children[version[v].content]

\* The ids of the child chunks of a version with ordinals first..last.
ChildIds(v, first, last) ==
    {[writer |-> chunks[v], ordinal |-> n] :
        n \in {m \in first..last : m <= ChildCount(v)}}

AllChildIds(v) == ChildIds(v, 1, ChildCount(v))
=============================================================================

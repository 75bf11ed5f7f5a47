-------------------------- MODULE KnowledgeIngestion -------------------------
(***************************************************************************)
(* Uploading, parsing and deleting documents (services/knowledge.py).  An  *)
(* upload stores the file, commits version and job, and parses in the same *)
(* call: a transaction that takes the job, the parse outside of any        *)
(* transaction, and a transaction that replaces the chunks or records the  *)
(* failure.  A transaction reads the rows as of its first query.           *)
(***************************************************************************)
EXTENDS KnowledgeCatalog

CONSTANT Parsable    \* the contents a loader and a chunk strategy accept

ASSUME IngestionAssumption == Parsable \subseteq Contents

VARIABLES
    files,       \* the versions whose file is stored
    ingest,      \* the local state of every upload and retry
    reparsed     \* history: versions that were parsed although the status
                 \* the call had checked had changed meanwhile

ingestVars == <<files, ingest, reparsed>>

\* doc, number, content: what the upload is about to commit; saw: the status
\* of the job the call relies on.
Ingest == [pc : {"idle", "committing", "starting", "parsing", "closed",
                 "stopped"},
           doc : Uploads \cup {None}, content : Contents \cup {None},
           number : Nat, version : Uploads \cup {None},
           saw : JobStatus]

IngestTypeOK ==
    /\ files \in SUBSET Uploads
    /\ ingest \in [Parsers -> Ingest]
    /\ reparsed \in SUBSET Uploads

\* A call that works on a version whose row exists.
IngestOf(pc, v, saw) == [pc |-> pc, doc |-> None, content |-> None,
                         number |-> 0, version |-> v, saw |-> saw]

\* A call that holds nothing (any more).
IngestAt(pc) == IngestOf(pc, None, "absent")

IngestInit ==
    /\ files = Versions
    /\ ingest = [c \in Parsers |->
                   IngestAt(IF c \in Versions THEN "closed" ELSE "idle")]
    /\ reparsed = {}

-----------------------------------------------------------------------------
(* upload *)

\* Mutant of StoreFile: the bytes are kept until the rows are committed.
KeepBytes(u) == UNCHANGED files

StoreFile(u) == files' = files \cup {u}

\* The document is the active one of that title, or a new one, named by the
\* upload.  Bytes that are known give the existing version; it is parsed
\* again only when its parse succeeded and left blocks without chunks.  Else
\* the file is written under a key made of the new version's id, while the
\* transaction is still open.
Upload(u, content, d) ==
    LET found == VersionsByHash(d, content) IN
    /\ ingest[u].pc = "idle"
    /\ d \in (IF ActiveDocuments = {} THEN {u} ELSE ActiveDocuments)
    /\ \/ /\ found = {}
          /\ StoreFile(u)
          /\ ingest' = [ingest EXCEPT
                ![u] = [pc |-> "committing", doc |-> d, content |-> content,
                        number |-> NextVersionNumber(d), version |-> None,
                        saw |-> "absent"]]
       \/ \E v \in found :
             /\ ingest' = [ingest EXCEPT
                   ![u] = IF job[v] = "succeeded" /\ v \in blocks
                             /\ chunks[v] = None
                          THEN IngestOf("starting", v, "succeeded")
                          ELSE IngestAt("closed")]
             /\ UNCHANGED files
    /\ UNCHANGED <<catalogVars, reparsed>>

\* The unique constraints on (document, hash) and (document, number) refuse
\* the second of two uploads that read the same versions.
Refused(row) ==
    \E v \in VersionsOf(row.doc) : \/ version[v].content = row.content
                                   \/ version[v].number = row.number

CommitUpload(u) ==
    LET row == [doc |-> ingest[u].doc, content |-> ingest[u].content,
                number |-> ingest[u].number, status |-> "pending"] IN
    /\ ingest[u].pc = "committing"
    /\ IF Refused(row)
       THEN /\ ingest' = [ingest EXCEPT ![u] = IngestAt("closed")]
            /\ UNCHANGED catalogVars
       ELSE /\ version' = [version EXCEPT ![u] = row]
            /\ document' = [document EXCEPT
                               ![row.doc] = IF @ = "absent" THEN "active" ELSE @]
            /\ job' = [job EXCEPT ![u] = "queued"]
            /\ ingest' = [ingest EXCEPT ![u] = IngestOf("starting", u, "queued")]
            /\ UNCHANGED <<current, blocks, chunks>>
    /\ UNCHANGED <<files, reparsed>>

\* The status is read in a transaction of its own.
Retry(r, v) ==
    /\ ingest[r].pc = "idle"
    /\ job[v] = "failed"
    /\ ingest' = [ingest EXCEPT ![r] = IngestOf("starting", v, "failed")]
    /\ UNCHANGED <<catalogVars, files, reparsed>>

-----------------------------------------------------------------------------
(* _process *)

\* The job is taken without a look at its status.
StartParse(c) ==
    LET v == ingest[c].version IN
    /\ ingest[c].pc = "starting"
    /\ job' = [job EXCEPT ![v] = "processing"]
    /\ ingest' = [ingest EXCEPT ![c] = IngestOf("parsing", v, "absent")]
    /\ reparsed' = IF job[v] = ingest[c].saw /\ chunks[v] = None
                   THEN reparsed ELSE reparsed \cup {v}
    /\ UNCHANGED <<document, version, current, blocks, chunks, files>>

\* Blocks and chunks of an earlier parse are deleted in the transaction that
\* inserts those of this one.
WriteChunks(c, v) == /\ blocks' = blocks \cup {v}
                     /\ chunks' = [chunks EXCEPT ![v] = c]

ReplaceChunks(c) ==
    LET v == ingest[c].version IN
    /\ ingest[c].pc = "parsing"
    /\ version[v].content \in Parsable
    /\ WriteChunks(c, v)
    /\ version' = [version EXCEPT ![v].status = "ready"]
    /\ job' = [job EXCEPT ![v] = "succeeded"]
    /\ ingest' = [ingest EXCEPT ![c] = IngestAt("closed")]
    /\ UNCHANGED <<document, current, files, reparsed>>

MarkFailed(c) ==
    LET v == ingest[c].version IN
    /\ ingest[c].pc = "parsing"
    /\ version[v].content \notin Parsable \/ "storage" \in Faults
    /\ version' = [version EXCEPT ![v].status = "failed"]
    /\ job' = [job EXCEPT ![v] = "failed"]
    /\ ingest' = [ingest EXCEPT ![c] = IngestAt("closed")]
    /\ UNCHANGED <<document, current, blocks, chunks, files, reparsed>>

-----------------------------------------------------------------------------
(* delete, and the end of a call at any await *)

Delete(d) ==
    /\ document[d] = "active"
    /\ document' = [document EXCEPT ![d] = "deleted"]
    /\ UNCHANGED <<version, current, job, blocks, chunks, ingestVars>>

StopIngest(c) ==
    /\ "stop" \in Faults
    /\ ingest[c].pc \in {"committing", "starting", "parsing"}
    /\ ingest' = [ingest EXCEPT
          ![c] = IngestOf("stopped", ingest[c].version, "absent")]
    /\ UNCHANGED <<catalogVars, files, reparsed>>

-----------------------------------------------------------------------------

BeginIngest(c) ==
    \/ c \in Uploads /\ \E content \in Contents, d \in Uploads : Upload(c, content, d)
    \/ c \in Retries /\ \E v \in Versions : Retry(c, v)

StepIngest(c) ==
    \/ c \in Uploads /\ CommitUpload(c)
    \/ StartParse(c)
    \/ ReplaceChunks(c)
    \/ MarkFailed(c)

OpenIngests == {c \in Parsers : ingest[c].pc \notin {"idle", "closed", "stopped"}}
=============================================================================

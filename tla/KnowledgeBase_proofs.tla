-------------------------- MODULE KnowledgeBase_proofs -----------------------
(***************************************************************************)
(* Ingestion and indexing, for every set of uploads, builds, retries,      *)
(* contents and configurations, and however many of them work at a time.   *)
(***************************************************************************)
EXTENDS KnowledgeBase, FiniteSetTheorems, TLAPS

-----------------------------------------------------------------------------
(* Document versions *)

Numbers(d) == {version[v].number : v \in VersionsOf(d)}

\* An upload that has not committed has no version yet.  The versions of a
\* document are numbered without gaps, and the number an upload read is at
\* most the next one.
NumbersInv ==
    /\ \A u \in Uploads : ingest[u].pc \in {"idle", "committing"} => version[u] = None
    /\ \A d \in Uploads : \E k \in Nat : Numbers(d) = 1..k
    /\ \A u \in Uploads : ingest[u].pc = "committing" =>
          /\ ingest[u].doc \in Uploads
          /\ ingest[u].content \in Contents
          /\ ingest[u].number \in Nat \ {0}
          /\ \A d \in Uploads, k \in Nat :
                (ingest[u].doc = d /\ Numbers(d) = 1..k) => ingest[u].number <= k + 1

\* The version a call works on has its row.
WorkOnVersions ==
    \A c \in Parsers : ingest[c].pc \in {"starting", "parsing"} =>
       ingest[c].version \in Versions

IngestInv == CatalogTypeOK /\ IngestTypeOK /\ NumbersInv /\ WorkOnVersions

LEMMA IngestAtTyped ==
    /\ \A pc \in {"idle", "closed"} : IngestAt(pc) \in Ingest
    /\ \A pc \in {"starting", "parsing", "stopped"}, v \in Uploads \cup {None},
          saw \in JobStatus : IngestOf(pc, v, saw) \in Ingest
  BY DEF IngestAt, IngestOf, Ingest, JobStatus

\* The next number is the successor of the last one.
LEMMA NextNumber ==
    ASSUME NEW d \in Uploads, NEW k \in Nat, Numbers(d) = 1..k
    PROVE  NextVersionNumber(d) = k + 1
<1> DEFINE T == {0} \cup {version[v].number : v \in VersionsOf(d)}
           Largest(n) == \A v \in VersionsOf(d) : version[v].number <= n
<1>1. T = 0..k /\ \A v \in VersionsOf(d) : version[v].number \in 1..k
  BY DEF Numbers
<1>2. k \in T /\ Largest(k)
  BY <1>1
<1>3. \A n \in T : Largest(n) => n = k
  <2> SUFFICES ASSUME NEW n \in T, Largest(n), n # k
               PROVE  FALSE
    OBVIOUS
  <2>1. n \in 0..k /\ k \in 1..k
    BY <1>1
  <2>2. PICK v \in VersionsOf(d) : version[v].number = k
    BY <2>1 DEF Numbers
  <2>q. QED
    BY <2>1, <2>2
<1>4. (CHOOSE n \in T : Largest(n)) = k
  BY <1>2, <1>3
<1>5. NextVersionNumber(d) = 1 + CHOOSE n \in T : Largest(n)
  BY DEF NextVersionNumber
<1> HIDE DEF T, Largest
<1>6. NextVersionNumber(d) = 1 + k
  BY <1>4, <1>5, Zenon
<1>q. QED
  BY <1>6

\* Rows of versions that are written in place keep what identifies them.
RowsKept ==
    \A v \in Uploads :
       /\ version'[v] = None <=> version[v] = None
       /\ version[v] # None => /\ version'[v].doc = version[v].doc
                               /\ version'[v].content = version[v].content
                               /\ version'[v].number = version[v].number

LEMMA KeptRows ==
    ASSUME RowsKept
    PROVE  /\ Versions' = Versions
           /\ \A d : VersionsOf(d)' = VersionsOf(d)
           /\ \A d : Numbers(d)' = Numbers(d)
<1>1. Versions' = Versions
  BY DEF RowsKept, Versions
<1>2. \A d : VersionsOf(d)' = VersionsOf(d)
  BY <1>1 DEF RowsKept, VersionsOf, Versions
<1>3. \A d : \A v \in VersionsOf(d) : version'[v].number = version[v].number
  BY DEF RowsKept, VersionsOf, Versions
<1>q. QED
  BY <1>1, <1>2, <1>3 DEF Numbers

LEMMA StatusWritten ==
    ASSUME CatalogTypeOK, NEW v \in Versions, NEW s \in {"pending", "ready", "failed"},
           version' = [version EXCEPT ![v].status = s]
    PROVE  /\ version' \in [Uploads -> Version \cup {None}]
           /\ RowsKept
           /\ version'[v].status = s
           /\ \A w \in Uploads \ {v} : version'[w] = version[w]
<1>1. version \in [Uploads -> Version \cup {None}] /\ v \in Uploads
  BY DEF CatalogTypeOK, Versions
<1>2. version[v] \in Version
  BY <1>1 DEF Versions
<1>3. [version[v] EXCEPT !.status = s] \in Version
  BY <1>2 DEF Version
<1>4. /\ version'[v] = [version[v] EXCEPT !.status = s]
      /\ \A w \in Uploads \ {v} : version'[w] = version[w]
      /\ version' \in [Uploads -> Version \cup {None}]
  BY <1>1, <1>3
<1>5. /\ [version[v] EXCEPT !.status = s].doc = version[v].doc
      /\ [version[v] EXCEPT !.status = s].content = version[v].content
      /\ [version[v] EXCEPT !.status = s].number = version[v].number
      /\ [version[v] EXCEPT !.status = s].status = s
  BY <1>2 DEF Version
<1>6. version'[v] # None
  BY <1>3, <1>4, NoneIsNoVersion
<1>q. QED
  BY <1>1, <1>2, <1>4, <1>5, <1>6, NoneIsNoVersion DEF RowsKept

LEMMA IngestStarts ==
    ASSUME CatalogInit, IngestInit
    PROVE  IngestInv
<1>0. PICK old \in SUBSET Legacy : \E bytes \in [old -> Contents] :
         /\ document = [u \in Uploads |-> IF u \in old THEN "active" ELSE "absent"]
         /\ version = [u \in Uploads |->
               IF u \in old
               THEN [doc |-> u, content |-> bytes[u], number |-> 1, status |-> "ready"]
               ELSE None]
         /\ current = {}
         /\ job = [u \in Uploads |-> IF u \in old THEN "succeeded" ELSE "absent"]
         /\ blocks = old
         /\ chunks = [u \in Uploads |-> None]
  BY DEF CatalogInit
<1>1. PICK bytes \in [old -> Contents] :
         /\ document = [u \in Uploads |-> IF u \in old THEN "active" ELSE "absent"]
         /\ version = [u \in Uploads |->
               IF u \in old
               THEN [doc |-> u, content |-> bytes[u], number |-> 1, status |-> "ready"]
               ELSE None]
         /\ current = {}
         /\ job = [u \in Uploads |-> IF u \in old THEN "succeeded" ELSE "absent"]
         /\ blocks = old
         /\ chunks = [u \in Uploads |-> None]
  BY <1>0
<1>2. old \subseteq Uploads
  BY CatalogAssumption
<1>3. \A u \in old : /\ version[u] \in Version
                     /\ version[u].doc = u
                     /\ version[u].number = 1
                     /\ version[u] # None
  BY <1>1, <1>2, NoneIsNoVersion DEF Version
<1>4. Versions = old
  BY <1>1, <1>2, <1>3 DEF Versions
<1>5. CatalogTypeOK
  BY <1>1, <1>2, <1>3 DEF CatalogTypeOK, JobStatus
<1>6. IngestTypeOK
  BY <1>2, <1>4, IngestAtTyped DEF IngestInit, IngestTypeOK
<1>7. \A c \in Parsers : ingest[c].pc \in {"idle", "closed"}
  BY DEF IngestInit, IngestAt, IngestOf
<1>8. \A u \in Uploads : ingest[u].pc \in {"idle", "committing"} => version[u] = None
  BY <1>1, <1>4 DEF IngestInit, IngestAt, IngestOf, Parsers
<1>9. ASSUME NEW d \in Uploads
      PROVE  \E k \in Nat : Numbers(d) = 1..k
  <2>1. VersionsOf(d) = old \cap {d}
    BY <1>3, <1>4 DEF VersionsOf
  <2>2. CASE d \in old
    <3>1. Numbers(d) = {1}
      BY <1>3, <2>1, <2>2 DEF Numbers
    <3>q. QED
      BY <3>1
  <2>3. CASE d \notin old
    <3>1. Numbers(d) = {}
      BY <2>1, <2>3 DEF Numbers
    <3>2. Numbers(d) = 1..0
      BY <3>1
    <3>q. QED
      BY <3>2
  <2>q. QED
    BY <2>2, <2>3
<1>q. QED
  BY <1>5, <1>6, <1>7, <1>8, <1>9 DEF IngestInv, NumbersInv, WorkOnVersions, Parsers

\* A call of ingestion that moves, and no row of a version that changes.
LEMMA OneIngestMoves ==
    ASSUME IngestInv, CatalogTypeOK', NEW c \in Parsers, NEW s \in Ingest,
           ingest' = [ingest EXCEPT ![c] = s],
           files' \in SUBSET Uploads, reparsed' \in SUBSET Uploads,
           RowsKept,
           s.pc # "idle",
           s.pc \in {"starting", "parsing"} => s.version \in Versions,
           s.pc = "committing" =>
              /\ ingest[c].pc = "idle"
              /\ s.doc \in Uploads
              /\ s.content \in Contents
              /\ s.number \in Nat \ {0}
              /\ \A d \in Uploads, k \in Nat :
                    (s.doc = d /\ Numbers(d) = 1..k) => s.number <= k + 1
    PROVE  IngestInv'
<1>1. /\ ingest' \in [Parsers -> Ingest]
      /\ ingest'[c] = s
      /\ \A d \in Parsers \ {c} : ingest'[d] = ingest[d]
  BY DEF IngestInv, IngestTypeOK
<1>2. IngestTypeOK'
  BY <1>1 DEF IngestTypeOK
<1>3. /\ Versions' = Versions
      /\ \A d : Numbers(d)' = Numbers(d)
  BY KeptRows
<1>4. Uploads \subseteq Parsers
  BY DEF Parsers
<1>5. NumbersInv'
  <2>1. \A u \in Uploads : ingest'[u].pc \in {"idle", "committing"} => version'[u] = None
    BY <1>1, <1>4 DEF RowsKept, IngestInv, NumbersInv
  <2>2. \A d \in Uploads : \E k \in Nat : Numbers(d)' = 1..k
    BY <1>3 DEF IngestInv, NumbersInv
  <2>3. ASSUME NEW u \in Uploads, ingest'[u].pc = "committing"
        PROVE  /\ ingest'[u].doc \in Uploads
               /\ ingest'[u].content \in Contents
               /\ ingest'[u].number \in Nat \ {0}
               /\ \A d \in Uploads, k \in Nat :
                     (ingest'[u].doc = d /\ Numbers(d)' = 1..k)
                     => ingest'[u].number <= k + 1
    <3>1. CASE u = c
      BY <1>1, <1>3, <2>3, <3>1
    <3>2. CASE u # c
      BY <1>1, <1>3, <1>4, <2>3, <3>2 DEF IngestInv, NumbersInv
    <3>q. QED
      BY <3>1, <3>2
  <2>q. QED
    BY <2>1, <2>2, <2>3 DEF NumbersInv
<1>6. WorkOnVersions'
  BY <1>1, <1>3 DEF IngestInv, WorkOnVersions
<1>q. QED
  BY <1>2, <1>5, <1>6 DEF IngestInv

\* Nothing but the call and the stored files changes.
LEMMA SameCatalog ==
    ASSUME IngestInv, UNCHANGED catalogVars
    PROVE  CatalogTypeOK' /\ RowsKept
  BY DEF IngestInv, CatalogTypeOK, catalogVars, RowsKept

\* The transaction of an upload inserts the next version of its document.
LEMMA CommitKeepsNumbers ==
    ASSUME IngestInv, NEW u \in Uploads, CommitUpload(u)
    PROVE  IngestInv'
<1> DEFINE row == [doc |-> ingest[u].doc, content |-> ingest[u].content,
                   number |-> ingest[u].number, status |-> "pending"]
<1>u. u \in Parsers /\ ingest[u] \in Ingest /\ Uploads \subseteq Parsers
  BY DEF Parsers, IngestInv, IngestTypeOK
<1>1. CASE Refused(row)
  <2>1. /\ ingest' = [ingest EXCEPT ![u] = IngestAt("closed")]
        /\ UNCHANGED <<catalogVars, files, reparsed>>
    BY <1>1 DEF CommitUpload
  <2>2. IngestAt("closed") \in Ingest /\ IngestAt("closed").pc = "closed"
    BY IngestAtTyped DEF IngestAt, IngestOf
  <2>3. CatalogTypeOK' /\ RowsKept
    BY <2>1, SameCatalog
  <2>q. QED
    BY <1>u, <2>1, <2>2, <2>3, OneIngestMoves DEF IngestInv, IngestTypeOK
<1>2. CASE ~Refused(row)
  <2>1. /\ version[u] = None
        /\ row.doc \in Uploads
        /\ row.content \in Contents
        /\ row.number \in Nat \ {0}
        /\ \A k \in Nat : Numbers(row.doc) = 1..k => row.number <= k + 1
    BY DEF CommitUpload, IngestInv, NumbersInv
  <2>2. row \in Version /\ row # None
    BY <2>1, NoneIsNoVersion DEF Version
  <2>3. /\ version' = [version EXCEPT ![u] = row]
        /\ document' = [document EXCEPT ![row.doc] = IF @ = "absent" THEN "active" ELSE @]
        /\ job' = [job EXCEPT ![u] = "queued"]
        /\ ingest' = [ingest EXCEPT ![u] = IngestOf("starting", u, "queued")]
        /\ UNCHANGED <<current, blocks, chunks, files, reparsed>>
    BY <1>2 DEF CommitUpload
  <2>4. /\ version' \in [Uploads -> Version \cup {None}]
        /\ version'[u] = row
        /\ \A v \in Uploads \ {u} : version'[v] = version[v]
    BY <2>2, <2>3 DEF IngestInv, CatalogTypeOK
  <2>5. CatalogTypeOK'
    <3>1. document' \in [Uploads -> {"absent", "active", "deleted"}]
      BY <2>1, <2>3 DEF IngestInv, CatalogTypeOK
    <3>2. job' \in [Uploads -> JobStatus]
      BY <2>3 DEF IngestInv, CatalogTypeOK, JobStatus
    <3>q. QED
      BY <2>3, <2>4, <3>1, <3>2 DEF IngestInv, CatalogTypeOK
  <2>6. /\ ingest' \in [Parsers -> Ingest]
        /\ ingest'[u].pc = "starting"
        /\ ingest'[u].version = u
        /\ \A c \in Parsers \ {u} : ingest'[c] = ingest[c]
    <3>1. IngestOf("starting", u, "queued") \in Ingest
      BY IngestAtTyped DEF JobStatus
    <3>2. /\ IngestOf("starting", u, "queued").pc = "starting"
          /\ IngestOf("starting", u, "queued").version = u
      BY DEF IngestOf
    <3>q. QED
      BY <1>u, <2>3, <3>1, <3>2 DEF IngestInv, IngestTypeOK
  <2>7. Versions' = Versions \cup {u} /\ u \notin Versions
    BY <2>1, <2>2, <2>4 DEF Versions
  <2>8. \A d : VersionsOf(d)' = IF d = row.doc THEN VersionsOf(d) \cup {u} ELSE VersionsOf(d)
    BY <2>4, <2>7 DEF VersionsOf, Versions
  <2>9. \A d : Numbers(d)' = IF d = row.doc THEN Numbers(d) \cup {row.number} ELSE Numbers(d)
    <3>1. \A d : \A v \in VersionsOf(d) : version'[v].number = version[v].number
      BY <2>4, <2>7 DEF VersionsOf, Versions
    <3>q. QED
      BY <2>4, <2>8, <3>1 DEF Numbers
  <2>10. PICK k \in Nat : Numbers(row.doc) = 1..k
    BY <2>1 DEF IngestInv, NumbersInv
  <2>11. row.number \notin Numbers(row.doc)
    BY <1>2 DEF Refused, Numbers
  <2>12. row.number = k + 1
    BY <2>1, <2>10, <2>11
  <2>13. ASSUME NEW d \in Uploads, d = row.doc
         PROVE  Numbers(d)' = 1..(k + 1)
    <3>1. Numbers(d)' = Numbers(d) \cup {k + 1} /\ Numbers(d) = 1..k
      BY <2>9, <2>10, <2>12, <2>13
    <3>q. QED
      BY <3>1
  <2>14. NumbersInv'
    <3>1. \A v \in Uploads : ingest'[v].pc \in {"idle", "committing"} => version'[v] = None
      BY <1>u, <2>4, <2>6 DEF IngestInv, NumbersInv
    <3>2. \A d \in Uploads : \E m \in Nat : Numbers(d)' = 1..m
      <4> SUFFICES ASSUME NEW d \in Uploads
                   PROVE  \E m \in Nat : Numbers(d)' = 1..m
        OBVIOUS
      <4>1. CASE d = row.doc
        BY <2>13, <4>1
      <4>2. CASE d # row.doc
        BY <2>9, <4>2 DEF IngestInv, NumbersInv
      <4>q. QED
        BY <4>1, <4>2
    <3>3. ASSUME NEW v \in Uploads, ingest'[v].pc = "committing"
          PROVE  /\ ingest'[v].doc \in Uploads
                 /\ ingest'[v].content \in Contents
                 /\ ingest'[v].number \in Nat \ {0}
                 /\ \A d \in Uploads, m \in Nat :
                       (ingest'[v].doc = d /\ Numbers(d)' = 1..m)
                       => ingest'[v].number <= m + 1
      <4>1. v # u /\ ingest'[v] = ingest[v]
        BY <1>u, <2>6, <3>3
      <4>2. /\ ingest[v].doc \in Uploads
            /\ ingest[v].content \in Contents
            /\ ingest[v].number \in Nat \ {0}
            /\ \A d \in Uploads, m \in Nat :
                  (ingest[v].doc = d /\ Numbers(d) = 1..m) => ingest[v].number <= m + 1
        BY <3>3, <4>1 DEF IngestInv, NumbersInv
      <4>3. ASSUME NEW d \in Uploads, NEW m \in Nat,
                   ingest[v].doc = d, Numbers(d)' = 1..m
            PROVE  ingest[v].number <= m + 1
        <5>1. CASE d = row.doc
          <6>1. ingest[v].number <= k + 1
            BY <2>10, <4>2, <4>3, <5>1
          <6>2. m = k + 1
            BY <2>13, <4>3, <5>1
          <6>q. QED
            BY <4>2, <6>1, <6>2
        <5>2. CASE d # row.doc
          BY <2>9, <4>2, <4>3, <5>2
        <5>q. QED
          BY <5>1, <5>2
      <4>q. QED
        BY <4>1, <4>2, <4>3
    <3>q. QED
      BY <3>1, <3>2, <3>3 DEF NumbersInv
  <2>15. WorkOnVersions'
    BY <2>6, <2>7 DEF IngestInv, WorkOnVersions
  <2>q. QED
    BY <2>3, <2>5, <2>6, <2>14, <2>15 DEF IngestInv, IngestTypeOK
<1>q. QED
  BY <1>1, <1>2

-----------------------------------------------------------------------------
(* The steps of ingestion *)

ParseHasWorker ==
    \A v \in Uploads : job[v] = "processing" =>
       \E c \in Parsers : ingest[c].version = v /\ ingest[c].pc \in {"parsing", "stopped"}

\* The file of an upload is stored before its row is committed.
RowsInv ==
    /\ RowsAreBacked
    /\ \A u \in Uploads : ingest[u].pc = "committing" => u \in files
    /\ ParseHasWorker

\* A step that leaves the rows alone and moves a call that does not parse.
LEMMA CatalogStays ==
    ASSUME IngestInv, RowsInv, UNCHANGED <<version, job, chunks>>,
           files \subseteq files', NEW c \in Parsers,
           \A o \in Parsers \ {c} : ingest'[o] = ingest[o],
           c \in Uploads /\ ingest'[c].pc = "committing" => c \in files',
           \/ ingest[c].pc \notin {"parsing", "stopped"}
           \/ ingest'[c].pc = "stopped" /\ ingest'[c].version = ingest[c].version
    PROVE  RowsInv'
<1>1. RowsAreBacked'
  BY DEF RowsInv, RowsAreBacked, Versions
<1>2. \A u \in Uploads : ingest'[u].pc = "committing" => u \in files'
  BY DEF RowsInv, Parsers
<1>3. ParseHasWorker'
  <2> SUFFICES ASSUME NEW v \in Uploads, job[v] = "processing"
               PROVE  \E o \in Parsers : /\ ingest'[o].version = v
                                         /\ ingest'[o].pc \in {"parsing", "stopped"}
    BY DEF ParseHasWorker
  <2>1. PICK o \in Parsers : /\ ingest[o].version = v
                             /\ ingest[o].pc \in {"parsing", "stopped"}
    BY DEF RowsInv, ParseHasWorker
  <2>q. QED
    BY <2>1
<1>q. QED
  BY <1>1, <1>2, <1>3 DEF RowsInv

LEMMA UploadSteps ==
    ASSUME IngestInv, RowsInv, NEW u \in Uploads, NEW content \in Contents,
           NEW d \in Uploads, Upload(u, content, d)
    PROVE  IngestInv' /\ RowsInv'
<1>0. u \in Parsers /\ ingest \in [Parsers -> Ingest]
  BY DEF Parsers, IngestInv, IngestTypeOK
<1>1. CatalogTypeOK' /\ RowsKept /\ UNCHANGED catalogVars
  BY SameCatalog DEF Upload
<1>2. ingest[u].pc = "idle" /\ reparsed' = reparsed
  BY DEF Upload
<1>3. CASE /\ StoreFile(u)
           /\ ingest' = [ingest EXCEPT
                 ![u] = [pc |-> "committing", doc |-> d, content |-> content,
                         number |-> NextVersionNumber(d), version |-> None,
                         saw |-> "absent"]]
  <2> DEFINE s == [pc |-> "committing", doc |-> d, content |-> content,
                   number |-> NextVersionNumber(d), version |-> None,
                   saw |-> "absent"]
  <2>1. PICK k \in Nat : Numbers(d) = 1..k
    BY DEF IngestInv, NumbersInv
  <2>2. s.number = k + 1
    BY <2>1, NextNumber
  <2>3. s \in Ingest
    BY <2>2 DEF Ingest, JobStatus
  <2>4. \A e \in Uploads, m \in Nat : (s.doc = e /\ Numbers(e) = 1..m) => s.number <= m + 1
    BY <2>1, <2>2
  <2>5. IngestInv'
    <3>1. /\ s.pc = "committing"
          /\ s.doc \in Uploads
          /\ s.content \in Contents
          /\ s.number \in Nat \ {0}
      BY <2>2
    <3>2. /\ ingest' = [ingest EXCEPT ![u] = s]
          /\ files' \in SUBSET Uploads
          /\ reparsed' \in SUBSET Uploads
      BY <1>2, <1>3 DEF StoreFile, IngestInv, IngestTypeOK
    <3> HIDE DEF s
    <3>q. QED
      BY <1>0, <1>1, <1>2, <2>3, <2>4, <3>1, <3>2, OneIngestMoves
  <2>q. QED
    BY <1>0, <1>1, <1>2, <1>3, <2>5, CatalogStays DEF StoreFile, catalogVars
<1>4. ASSUME NEW v \in VersionsByHash(d, content),
             \/ ingest' = [ingest EXCEPT ![u] = IngestOf("starting", v, "succeeded")]
             \/ ingest' = [ingest EXCEPT ![u] = IngestAt("closed")],
             UNCHANGED files
      PROVE  IngestInv' /\ RowsInv'
  <2>1. v \in Versions /\ v \in Uploads
    BY DEF VersionsByHash, VersionsOf, Versions
  <2>2. /\ IngestOf("starting", v, "succeeded") \in Ingest
        /\ IngestAt("closed") \in Ingest
    BY <2>1, IngestAtTyped DEF JobStatus
  <2>3. IngestInv'
    BY <1>0, <1>1, <1>2, <1>4, <2>1, <2>2, OneIngestMoves
    DEF IngestInv, IngestTypeOK, IngestOf, IngestAt
  <2>4. ingest'[u].pc # "committing" /\ \A o \in Parsers \ {u} : ingest'[o] = ingest[o]
    BY <1>0, <1>4 DEF IngestOf, IngestAt
  <2>q. QED
    BY <1>0, <1>1, <1>2, <1>4, <2>3, <2>4, CatalogStays DEF catalogVars
<1>q. QED
  BY <1>3, <1>4 DEF Upload

LEMMA RetrySteps ==
    ASSUME IngestInv, RowsInv, NEW r \in Parsers, NEW v \in Versions, Retry(r, v)
    PROVE  IngestInv' /\ RowsInv'
<1> DEFINE s == IngestOf("starting", v, "failed")
<1>1. CatalogTypeOK' /\ RowsKept /\ UNCHANGED catalogVars
  BY SameCatalog DEF Retry
<1>2. /\ ingest[r].pc = "idle"
      /\ ingest' = [ingest EXCEPT ![r] = s]
      /\ UNCHANGED <<files, reparsed>>
  BY DEF Retry
<1>3. s \in Ingest /\ s.pc = "starting" /\ s.version = v
  BY IngestAtTyped DEF JobStatus, IngestOf, Versions
<1> HIDE DEF s
<1>4. IngestInv'
  BY <1>1, <1>2, <1>3, OneIngestMoves DEF IngestInv, IngestTypeOK
<1>5. ingest'[r].pc # "committing" /\ \A o \in Parsers \ {r} : ingest'[o] = ingest[o]
  BY <1>2, <1>3 DEF IngestInv, IngestTypeOK
<1>q. QED
  BY <1>1, <1>2, <1>4, <1>5, CatalogStays DEF catalogVars

LEMMA StopIngestSteps ==
    ASSUME IngestInv, RowsInv, NEW c \in Parsers, StopIngest(c)
    PROVE  IngestInv' /\ RowsInv'
<1> DEFINE s == IngestOf("stopped", ingest[c].version, "absent")
<1>1. CatalogTypeOK' /\ RowsKept /\ UNCHANGED catalogVars
  BY SameCatalog DEF StopIngest
<1>2. /\ ingest' = [ingest EXCEPT ![c] = s]
      /\ UNCHANGED <<files, reparsed>>
  BY DEF StopIngest
<1>3. ingest \in [Parsers -> Ingest] /\ ingest[c].version \in Uploads \cup {None}
  BY DEF IngestInv, IngestTypeOK, Ingest
<1>4. s \in Ingest /\ s.pc = "stopped" /\ s.version = ingest[c].version
  BY <1>3, IngestAtTyped DEF JobStatus, IngestOf
<1> HIDE DEF s
<1>5. IngestInv'
  BY <1>1, <1>2, <1>4, OneIngestMoves DEF IngestInv, IngestTypeOK
<1>6. ingest'[c] = s /\ \A o \in Parsers \ {c} : ingest'[o] = ingest[o]
  BY <1>2, <1>3
<1>q. QED
  BY <1>1, <1>2, <1>4, <1>5, <1>6, CatalogStays DEF catalogVars

LEMMA CommitSteps ==
    ASSUME IngestInv, RowsInv, NEW u \in Uploads, CommitUpload(u)
    PROVE  IngestInv' /\ RowsInv'
<1> DEFINE row == [doc |-> ingest[u].doc, content |-> ingest[u].content,
                   number |-> ingest[u].number, status |-> "pending"]
<1>0. u \in Parsers /\ ingest \in [Parsers -> Ingest] /\ ingest[u].pc = "committing"
  BY DEF Parsers, IngestInv, IngestTypeOK, CommitUpload
<1>1. IngestInv'
  BY CommitKeepsNumbers
<1>2. CASE Refused(row)
  <2>1. /\ ingest' = [ingest EXCEPT ![u] = IngestAt("closed")]
        /\ UNCHANGED <<version, job, chunks, files>>
    BY <1>2 DEF CommitUpload, catalogVars
  <2>2. ingest'[u].pc # "committing" /\ \A o \in Parsers \ {u} : ingest'[o] = ingest[o]
    BY <1>0, <2>1 DEF IngestAt, IngestOf
  <2>q. QED
    BY <1>0, <1>1, <2>1, <2>2, CatalogStays
<1>3. CASE ~Refused(row)
  <2>1. /\ version' = [version EXCEPT ![u] = row]
        /\ job' = [job EXCEPT ![u] = "queued"]
        /\ ingest' = [ingest EXCEPT ![u] = IngestOf("starting", u, "queued")]
        /\ UNCHANGED <<chunks, files>>
    BY <1>3 DEF CommitUpload
  <2>2. /\ version'[u].status = "pending"
        /\ job'[u] = "queued"
        /\ u \in files
        /\ \A v \in Uploads \ {u} : version'[v] = version[v] /\ job'[v] = job[v]
    BY <1>0, <2>1 DEF IngestInv, CatalogTypeOK, RowsInv
  <2>3. RowsAreBacked'
    BY <2>1, <2>2 DEF RowsInv, RowsAreBacked, Versions
  <2>4. /\ ingest'[u].pc = "starting"
        /\ \A o \in Parsers \ {u} : ingest'[o] = ingest[o]
    BY <1>0, <2>1 DEF IngestOf
  <2>5. \A w \in Uploads : ingest'[w].pc = "committing" => w \in files'
    BY <2>1, <2>4 DEF RowsInv, Parsers
  <2>6. ASSUME NEW v \in Uploads, job'[v] = "processing"
        PROVE  \E c \in Parsers : /\ ingest'[c].version = v
                                  /\ ingest'[c].pc \in {"parsing", "stopped"}
    <3>1. PICK c \in Parsers : /\ ingest[c].version = v
                               /\ ingest[c].pc \in {"parsing", "stopped"}
      BY <2>2, <2>6 DEF RowsInv, ParseHasWorker
    <3>q. QED
      BY <1>0, <2>4, <3>1
  <2>q. QED
    BY <1>1, <2>3, <2>5, <2>6 DEF RowsInv, ParseHasWorker
<1>q. QED
  BY <1>2, <1>3

\* A parse that begins or ends writes its version and its job.
LEMMA JobWritten ==
    ASSUME IngestInv, RowsInv, NEW c \in Parsers, NEW v \in Versions,
           ingest[c].version = v,
           NEW state \in JobStatus, job' = [job EXCEPT ![v] = state],
           \A w \in Uploads \ {v} : version'[w] = version[w] /\ chunks'[w] = chunks[w],
           Versions' = Versions,
           state = "succeeded" => version'[v].status = "ready",
           state = "failed" => version'[v].status = "failed",
           version'[v].status = "ready" => v \in Legacy \/ chunks'[v] # None,
           UNCHANGED files,
           \A o \in Parsers \ {c} : ingest'[o] = ingest[o],
           ingest'[c].pc # "committing",
           state = "processing" => ingest'[c].version = v /\ ingest'[c].pc = "parsing"
    PROVE  RowsInv'
<1>1. /\ v \in Uploads
      /\ job'[v] = state
      /\ \A w \in Uploads \ {v} : job'[w] = job[w]
  BY DEF IngestInv, CatalogTypeOK, Versions
<1>2. RowsAreBacked'
  <2> SUFFICES ASSUME NEW w \in Versions
               PROVE  /\ w \in files'
                      /\ job'[w] = "succeeded" => version'[w].status = "ready"
                      /\ job'[w] = "failed" => version'[w].status = "failed"
                      /\ version'[w].status = "ready" => w \in Legacy \/ chunks'[w] # None
    BY DEF RowsAreBacked
  <2>1. CASE w = v
    BY <1>1, <2>1 DEF RowsInv, RowsAreBacked
  <2>2. CASE w # v
    BY <1>1, <2>2 DEF RowsInv, RowsAreBacked, Versions
  <2>q. QED
    BY <2>1, <2>2
<1>3. \A u \in Uploads : ingest'[u].pc = "committing" => u \in files'
  BY DEF RowsInv, Parsers
<1>4. ASSUME NEW w \in Uploads, job'[w] = "processing"
      PROVE  \E o \in Parsers : /\ ingest'[o].version = w
                                /\ ingest'[o].pc \in {"parsing", "stopped"}
  <2>1. CASE w = v
    BY <1>1, <1>4, <2>1
  <2>2. CASE w # v
    <3>1. PICK o \in Parsers : /\ ingest[o].version = w
                               /\ ingest[o].pc \in {"parsing", "stopped"}
      BY <1>1, <1>4, <2>2 DEF RowsInv, ParseHasWorker
    <3>q. QED
      BY <2>2, <3>1
  <2>q. QED
    BY <2>1, <2>2
<1>q. QED
  BY <1>2, <1>3, <1>4 DEF RowsInv, ParseHasWorker

LEMMA StartSteps ==
    ASSUME IngestInv, RowsInv, NEW c \in Parsers, StartParse(c)
    PROVE  IngestInv' /\ RowsInv'
<1> DEFINE v == ingest[c].version
           s == IngestOf("parsing", v, "absent")
<1>1. v \in Versions /\ v \in Uploads
  BY DEF StartParse, IngestInv, WorkOnVersions, Versions
<1>2. /\ job' = [job EXCEPT ![v] = "processing"]
      /\ ingest' = [ingest EXCEPT ![c] = s]
      /\ reparsed' \in {reparsed, reparsed \cup {v}}
      /\ UNCHANGED <<document, version, current, blocks, chunks, files>>
  BY DEF StartParse
<1>3. s \in Ingest /\ s.pc = "parsing" /\ s.version = v
  BY <1>1, IngestAtTyped DEF JobStatus, IngestOf
<1>4. CatalogTypeOK' /\ RowsKept
  BY <1>2 DEF IngestInv, CatalogTypeOK, JobStatus, RowsKept
<1>5. reparsed' \in SUBSET Uploads /\ files' \in SUBSET Uploads
  BY <1>1, <1>2 DEF IngestInv, IngestTypeOK
<1>6. ingest'[c] = s /\ \A o \in Parsers \ {c} : ingest'[o] = ingest[o]
  BY <1>2 DEF IngestInv, IngestTypeOK
<1>7. version[v].status = "ready" => v \in Legacy \/ chunks[v] # None
  BY <1>1 DEF RowsInv, RowsAreBacked
<1>8. Versions' = Versions /\ "processing" \in JobStatus
  BY <1>4, KeptRows DEF JobStatus
<1> HIDE DEF s, v
<1>9. IngestInv'
  BY <1>1, <1>2, <1>3, <1>4, <1>5, OneIngestMoves
<1>10. RowsInv'
  <2>1. ingest[c].version = v
    BY DEF v
  <2>q. QED
    BY <1>1, <1>2, <1>3, <1>6, <1>7, <1>8, <2>1, JobWritten
<1>q. QED
  BY <1>9, <1>10

LEMMA EndSteps ==
    ASSUME IngestInv, RowsInv, NEW c \in Parsers, ReplaceChunks(c) \/ MarkFailed(c)
    PROVE  IngestInv' /\ RowsInv'
<1> DEFINE v == ingest[c].version
           s == IngestAt("closed")
<1>1. v \in Versions /\ v \in Uploads
  BY DEF ReplaceChunks, MarkFailed, IngestInv, WorkOnVersions, Versions
<1>2. /\ ingest' = [ingest EXCEPT ![c] = s]
      /\ UNCHANGED <<document, current, files, reparsed>>
  BY DEF ReplaceChunks, MarkFailed
<1>3. s \in Ingest /\ s.pc = "closed"
  BY IngestAtTyped DEF IngestAt, IngestOf
<1>6. ingest'[c] = s /\ \A o \in Parsers \ {c} : ingest'[o] = ingest[o]
  BY <1>2 DEF IngestInv, IngestTypeOK
<1>7. ingest[c].version = v /\ c # None
  BY CatalogAssumption DEF Parsers
<1>8. {"succeeded", "failed"} \subseteq JobStatus
  BY DEF JobStatus
<1>9. CASE ReplaceChunks(c)
  <2>1. /\ version' = [version EXCEPT ![v].status = "ready"]
        /\ job' = [job EXCEPT ![v] = "succeeded"]
        /\ chunks' = [chunks EXCEPT ![v] = c]
        /\ blocks' = blocks \cup {v}
    BY <1>9 DEF ReplaceChunks, WriteChunks
  <2> HIDE DEF s, v
  <2>2. /\ version' \in [Uploads -> Version \cup {None}]
        /\ RowsKept
        /\ version'[v].status = "ready"
        /\ \A w \in Uploads \ {v} : version'[w] = version[w]
    BY <1>1, <2>1, StatusWritten DEF IngestInv
  <2>3. chunks'[v] = c /\ \A w \in Uploads \ {v} : chunks'[w] = chunks[w]
    BY <1>1, <2>1 DEF IngestInv, CatalogTypeOK
  <2>4. CatalogTypeOK'
    BY <1>1, <1>2, <1>8, <2>1, <2>2 DEF IngestInv, CatalogTypeOK
  <2>5. Versions' = Versions
    BY <2>2, KeptRows
  <2>6. IngestInv'
    BY <1>2, <1>3, <2>2, <2>4, OneIngestMoves DEF IngestInv, IngestTypeOK
  <2>7. RowsInv'
    <3>1. /\ \A w \in Uploads \ {v} : version'[w] = version[w] /\ chunks'[w] = chunks[w]
          /\ chunks'[v] # None
          /\ ingest'[c].pc = "closed"
          /\ UNCHANGED files
      BY <1>2, <1>3, <1>6, <1>7, <2>2, <2>3
    <3>2. job' = [job EXCEPT ![v] = "succeeded"] /\ "succeeded" \in JobStatus
      BY <1>8, <2>1
    <3>q. QED
      BY <1>1, <1>6, <1>7, <2>2, <2>5, <3>1, <3>2, JobWritten
  <2>q. QED
    BY <2>6, <2>7
<1>10. CASE MarkFailed(c)
  <2>1. /\ version' = [version EXCEPT ![v].status = "failed"]
        /\ job' = [job EXCEPT ![v] = "failed"]
        /\ UNCHANGED <<chunks, blocks>>
    BY <1>10 DEF MarkFailed
  <2> HIDE DEF s, v
  <2>2. /\ version' \in [Uploads -> Version \cup {None}]
        /\ RowsKept
        /\ version'[v].status = "failed"
        /\ \A w \in Uploads \ {v} : version'[w] = version[w]
    BY <1>1, <2>1, StatusWritten DEF IngestInv
  <2>4. CatalogTypeOK'
    BY <1>1, <1>2, <1>8, <2>1, <2>2 DEF IngestInv, CatalogTypeOK
  <2>5. Versions' = Versions
    BY <2>2, KeptRows
  <2>6. IngestInv'
    BY <1>2, <1>3, <2>2, <2>4, OneIngestMoves DEF IngestInv, IngestTypeOK
  <2>7. RowsInv'
    BY <1>1, <1>2, <1>3, <1>6, <1>7, <1>8, <2>1, <2>2, <2>5, JobWritten
  <2>q. QED
    BY <2>6, <2>7
<1>q. QED
  BY <1>9, <1>10

\* A deletion marks the document and changes nothing else.
LEMMA DeleteSteps ==
    ASSUME IngestInv, RowsInv, NEW d \in Uploads, Delete(d)
    PROVE  IngestInv' /\ RowsInv' /\ RowsKept
<1>1. CatalogTypeOK' /\ RowsKept
  BY DEF Delete, IngestInv, CatalogTypeOK, RowsKept
<1>2. /\ Versions' = Versions
      /\ \A e : Numbers(e)' = Numbers(e)
  BY <1>1, KeptRows
<1>3. UNCHANGED <<version, job, chunks, files, ingest, reparsed>>
  BY DEF Delete, ingestVars
<1>4. IngestInv'
  BY <1>1, <1>2, <1>3 DEF IngestInv, IngestTypeOK, NumbersInv, WorkOnVersions
<1>5. RowsInv'
  BY <1>2, <1>3 DEF RowsInv, RowsAreBacked, ParseHasWorker
<1>q. QED
  BY <1>1, <1>4, <1>5

\* Indexing writes nothing that ingestion reads, but the current version.
LEMMA IngestRests ==
    ASSUME IngestInv, RowsInv, current' \in SUBSET Uploads,
           UNCHANGED <<document, version, job, blocks, chunks, ingestVars>>
    PROVE  IngestInv' /\ RowsInv' /\ RowsKept
<1>1. CatalogTypeOK' /\ RowsKept
  BY DEF IngestInv, CatalogTypeOK, RowsKept
<1>2. /\ Versions' = Versions
      /\ \A e : Numbers(e)' = Numbers(e)
  BY <1>1, KeptRows
<1>3. UNCHANGED <<version, job, chunks, files, ingest, reparsed>>
  BY DEF ingestVars
<1>4. IngestInv'
  BY <1>1, <1>2, <1>3 DEF IngestInv, IngestTypeOK, NumbersInv, WorkOnVersions
<1>5. RowsInv'
  BY <1>2, <1>3 DEF RowsInv, RowsAreBacked, ParseHasWorker
<1>q. QED
  BY <1>1, <1>4, <1>5

-----------------------------------------------------------------------------
(* The invariant of indexing *)

\* A call past the transaction that takes the job.
Attempts == {b \in Indexers : build[b].pc \in
                {"clearing", "reading", "upserting", "counting", "activating",
                 "failing", "dropping"}}

\* Calls and index rows are of versions that exist; a call that takes a job
\* saw it queued or failed.
CallsInv ==
    /\ IndexTypeOK
    /\ \A b \in Indexers : IsFiniteSet(build[b].page)
    /\ \A b \in Indexers : build[b].pc \notin {"idle", "closed"} =>
          build[b].index \in Indexes /\ build[b].index[1] \in Versions
    /\ \A b \in Indexers : build[b].pc = "starting" => build[b].saw \in {"queued", "failed"}
    /\ \A i \in Indexes : (index[i].status # "absent" \/ index[i].job # "absent") =>
          i[1] \in Versions

\* One index of a document is active, its job succeeded, and its version is
\* the current one.
ActiveInv ==
    /\ current \subseteq Versions
    /\ \A i \in Indexes : index[i].status = "active" =>
          /\ index[i].job = "succeeded"
          /\ current \cap VersionsOf(Doc(i)) = {i[1]}
    /\ \A i, j \in Indexes :
          (index[i].status = "active" /\ index[j].status = "active" /\ Doc(i) = Doc(j))
          => i = j

\* As long as attempts on an index do not overlap, one works at a time, and
\* never on an active index.
AttemptsInv ==
    \A b \in Attempts : build[b].index \notin overlapped =>
       /\ index[build[b].index].status # "active"
       /\ \A o \in Attempts : build[o].index = build[b].index => o = b

\* A job that is processing has an attempt that will write it once more, or
\* one that stopped.
IndexHasWorker ==
    \A i \in Indexes : index[i].job = "processing" =>
       \E b \in Indexers : /\ build[b].index = i
                           /\ \/ build[b].pc = "stopped"
                              \/ (b \in Attempts /\ build[b].pc # "dropping")

IndexInv == CallsInv /\ ActiveInv /\ AttemptsInv /\ IndexHasWorker

LEMMA BuildOfTyped ==
    /\ BuildAt("idle") \in Build /\ BuildAt("closed") \in Build
    /\ \A pc \in {"creating", "starting", "clearing", "failing", "dropping", "stopped"},
          i \in Indexes \cup {None}, saw \in JobStatus : BuildOf(pc, i, saw) \in Build
    /\ \A pc \in {"reading", "upserting", "activating"}, i \in Indexes,
          page \in SUBSET ChunkIds, after \in Nat : PageOf(pc, i, page, after) \in Build
  BY DEF BuildAt, BuildOf, PageOf, Build, JobStatus

LEMMA RowTyped ==
    ASSUME IndexTypeOK, NEW i \in Indexes, NEW state \in JobStatus,
           NEW status \in {"absent", "building", "active", "superseded", "failed"}
    PROVE  /\ Row(i, status, state) \in Index
           /\ Row(i, status, state).status = status
           /\ Row(i, status, state).job = state
<1>1. index[i] \in Index
  BY DEF IndexTypeOK
<1>q. QED
  BY <1>1 DEF Row, Index

LEMMA ChildCountTyped ==
    ASSUME CatalogTypeOK, NEW v \in Versions
    PROVE  /\ ChildCount(v) \in Nat
           /\ ChildCount(v) > 0 => chunks[v] \in Parsers
           /\ \A n \in 1..ChildCount(v) : n \in Ordinals
<1> DEFINE T == {Children[c] : c \in Contents}
           Largest(n) == \A c \in Contents : Children[c] <= n
<1>1. v \in Uploads /\ version[v] \in Version
  BY DEF CatalogTypeOK, Versions
<1>2. version[v].content \in Contents
  BY <1>1 DEF Version
<1>3. chunks[v] \in Parsers \cup {None}
  BY <1>1 DEF CatalogTypeOK
<1>4. Children[version[v].content] \in Nat
  BY <1>2, CatalogAssumption
<1>5. \E n \in T : Largest(n)
  BY IndexingAssumption
<1>6. /\ (CHOOSE n \in T : Largest(n)) \in T
      /\ Largest(CHOOSE n \in T : Largest(n))
  BY <1>5
<1>7. PICK m \in Nat : Ordinals = 1..m /\ Largest(m)
  <2>1. T \subseteq Nat
    BY CatalogAssumption
  <2>2. Ordinals = 1..(CHOOSE n \in T : Largest(n))
    BY DEF Ordinals
  <2> HIDE DEF T, Largest
  <2>q. QED
    BY <1>6, <2>1, <2>2
<1>8. Children[version[v].content] <= m
  BY <1>2, <1>7
<1>q. QED
  BY <1>3, <1>4, <1>7, <1>8 DEF ChildCount

\* A page is a finite set of ids of chunks.
LEMMA PageTyped ==
    ASSUME CatalogTypeOK, NEW v \in Versions, NEW first \in Nat \ {0}, NEW last \in Nat
    PROVE  /\ ChildIds(v, first, last) \in SUBSET ChunkIds
           /\ IsFiniteSet(ChildIds(v, first, last))
<1> DEFINE N == {m \in first..last : m <= ChildCount(v)}
           f == [n \in N |-> [writer |-> chunks[v], ordinal |-> n]]
<1>1. \A n \in N : n \in 1..ChildCount(v) /\ ChildCount(v) > 0
  BY ChildCountTyped
<1>2. \A n \in N : [writer |-> chunks[v], ordinal |-> n] \in ChunkIds
  BY <1>1, ChildCountTyped DEF ChunkIds
<1>3. ChildIds(v, first, last) = {[writer |-> chunks[v], ordinal |-> n] : n \in N}
  BY DEF ChildIds
<1>4. IsFiniteSet(N)
  <2>1. IsFiniteSet(first..last)
    BY FS_Interval
  <2>2. N \in SUBSET (first..last)
    OBVIOUS
  <2> HIDE DEF N
  <2>q. QED
    BY <2>1, <2>2, FS_Subset
<1>5. f \in Surjection(N, ChildIds(v, first, last))
  <2>1. f \in [N -> ChildIds(v, first, last)]
    BY <1>3
  <2>2. \A k \in ChildIds(v, first, last) : \E n \in N : f[n] = k
    BY <1>3
  <2> HIDE DEF f, N
  <2>q. QED
    BY <2>1, <2>2 DEF Surjection
<1>6. IsFiniteSet(ChildIds(v, first, last))
  BY <1>4, <1>5, FS_Surjection
<1>q. QED
  BY <1>2, <1>3, <1>6

LEMMA IndexStarts ==
    ASSUME IngestInv, current = {}, IndexInit
    PROVE  IndexInv
<1>1. IndexTypeOK
  BY BuildOfTyped DEF IndexInit, IndexTypeOK, Index, JobStatus
<1>2. \A b \in Indexers : build[b].pc = "idle" /\ build[b].page = {}
  BY DEF IndexInit, BuildAt, BuildOf
<1>3. \A i \in Indexes : index[i].status = "absent" /\ index[i].job = "absent"
  BY DEF IndexInit
<1>4. CallsInv
  BY <1>1, <1>2, <1>3, FS_EmptySet DEF CallsInv
<1>q. QED
  BY <1>2, <1>3, <1>4 DEF IndexInv, ActiveInv, AttemptsInv, Attempts, IndexHasWorker

-----------------------------------------------------------------------------
(* The steps of indexing *)

\* Rows of versions are added and keep their documents.
RowsGrow ==
    \A v \in Versions : v \in Versions' /\ version'[v].doc = version[v].doc

\* Ingestion adds versions that are not current and have no index.
LEMMA IndexRests ==
    ASSUME IndexInv, RowsGrow, UNCHANGED <<indexVars, current>>
    PROVE  IndexInv'
<1>0. UNCHANGED <<index, vectors, build, overlapped>>
  BY DEF indexVars
<1>1. Versions \subseteq Versions'
  BY DEF RowsGrow
<1>2. CallsInv'
  <2>1. IndexTypeOK'
    BY <1>0 DEF IndexInv, CallsInv, IndexTypeOK
  <2>q. QED
    BY <1>0, <1>1, <2>1 DEF IndexInv, CallsInv
<1>3. \A i \in Indexes : index[i].status = "active" =>
         i[1] \in Versions /\ Doc(i)' = Doc(i)
  BY DEF IndexInv, CallsInv, RowsGrow, Doc
<1>4. \A d : current \cap VersionsOf(d)' = current \cap VersionsOf(d)
  BY <1>1 DEF IndexInv, ActiveInv, RowsGrow, VersionsOf
<1>5. ActiveInv'
  BY <1>0, <1>1, <1>3, <1>4 DEF IndexInv, ActiveInv
<1>6. AttemptsInv' /\ IndexHasWorker'
  BY <1>0 DEF IndexInv, AttemptsInv, Attempts, IndexHasWorker
<1>q. QED
  BY <1>2, <1>5, <1>6 DEF IndexInv

\* A call that moves on keeps the types of all of them.
LEMMA CallTyped ==
    ASSUME CallsInv, NEW b \in Indexers, NEW s \in Build,
           build' = [build EXCEPT ![b] = s],
           IsFiniteSet(s.page),
           s.pc \notin {"idle", "closed"} => s.index \in Indexes /\ s.index[1] \in Versions,
           s.pc = "starting" => s.saw \in {"queued", "failed"},
           index' \in [Indexes -> Index],
           vectors' \in [ChunkIds -> Indexes \cup {None}],
           overlapped' \in SUBSET Indexes,
           Versions' = Versions,
           \A i \in Indexes : (index'[i].status # "absent" \/ index'[i].job # "absent") =>
              i[1] \in Versions
    PROVE  /\ CallsInv'
           /\ build'[b] = s
           /\ \A o \in Indexers \ {b} : build'[o] = build[o]
<1>1. /\ build' \in [Indexers -> Build]
      /\ build'[b] = s
      /\ \A o \in Indexers \ {b} : build'[o] = build[o]
  BY DEF CallsInv, IndexTypeOK
<1>2. IndexTypeOK'
  BY <1>1 DEF IndexTypeOK
<1>3. \A o \in Indexers : IsFiniteSet(build'[o].page)
  BY <1>1 DEF CallsInv
<1>4. \A o \in Indexers : build'[o].pc \notin {"idle", "closed"} =>
         build'[o].index \in Indexes /\ build'[o].index[1] \in Versions
  BY <1>1 DEF CallsInv
<1>5. \A o \in Indexers : build'[o].pc = "starting" => build'[o].saw \in {"queued", "failed"}
  BY <1>1 DEF CallsInv
<1>q. QED
  BY <1>1, <1>2, <1>3, <1>4, <1>5 DEF CallsInv

\* A call that moves on without a new attempt, and writes no row.
LEMMA CallGoesOn ==
    ASSUME IndexInv, NEW b \in Indexers, NEW s \in Build,
           build' = [build EXCEPT ![b] = s],
           IsFiniteSet(s.page),
           s.pc \notin {"idle", "closed"} => s.index \in Indexes /\ s.index[1] \in Versions,
           s.pc = "starting" => s.saw \in {"queued", "failed"},
           vectors' \in [ChunkIds -> Indexes \cup {None}],
           UNCHANGED <<catalogVars, index, overlapped>>,
           s.pc \in {"clearing", "reading", "upserting", "counting", "activating",
                    "failing", "dropping"} =>
              b \in Attempts /\ s.index = build[b].index,
           (build[b].pc = "stopped" \/ (b \in Attempts /\ build[b].pc # "dropping")) =>
              /\ s.index = build[b].index
              /\ s.pc \in {"clearing", "reading", "upserting", "counting",
                          "activating", "failing", "stopped"}
    PROVE  IndexInv'
<1>0. UNCHANGED <<version, current>> /\ Versions' = Versions
  BY DEF catalogVars, Versions
<1>1. /\ CallsInv'
      /\ build'[b] = s
      /\ \A o \in Indexers \ {b} : build'[o] = build[o]
  <2>1. /\ CallsInv
        /\ index' \in [Indexes -> Index]
        /\ overlapped' \in SUBSET Indexes
        /\ \A i \in Indexes : (index'[i].status # "absent" \/ index'[i].job # "absent") =>
              i[1] \in Versions
    BY DEF IndexInv, CallsInv, IndexTypeOK
  <2>q. QED
    BY <1>0, <2>1, CallTyped
<1>2. ActiveInv'
  BY <1>0 DEF IndexInv, ActiveInv, VersionsOf, Doc
<1>3. \A o \in Attempts' : o \in Attempts /\ build'[o].index = build[o].index
  BY <1>1 DEF Attempts
<1>4. AttemptsInv'
  BY <1>3 DEF IndexInv, AttemptsInv
<1>5. \A o \in Indexers :
         (build[o].pc = "stopped" \/ (o \in Attempts /\ build[o].pc # "dropping")) =>
            /\ build'[o].index = build[o].index
            /\ build'[o].pc = "stopped" \/ (o \in Attempts' /\ build'[o].pc # "dropping")
  BY <1>1 DEF Attempts
<1>6. IndexHasWorker'
  BY <1>5 DEF IndexInv, IndexHasWorker
<1>q. QED
  BY <1>1, <1>2, <1>4, <1>6 DEF IndexInv

LEMMA RequestSteps ==
    ASSUME IndexInv, NEW b \in Indexers, NEW i \in Indexes,
           BuildRequest(b, i) \/ RetryRequest(b, i)
    PROVE  IndexInv'
<1>1. PICK pc \in {"creating", "starting"}, saw \in JobStatus :
         /\ build' = [build EXCEPT ![b] = BuildOf(pc, i, saw)]
         /\ pc = "starting" => saw = "failed"
  BY DEF BuildRequest, RetryRequest, JobStatus
<1>2. i[1] \in Versions
  BY DEF BuildRequest, RetryRequest, IndexInv, CallsInv
<1> DEFINE s == BuildOf(pc, i, saw)
<1>3. s \in Build /\ s.pc = pc /\ s.index = i /\ s.saw = saw /\ s.page = {}
  BY BuildOfTyped DEF BuildOf
<1>4. /\ build[b].pc = "idle"
      /\ UNCHANGED <<catalogVars, index, vectors, overlapped>>
      /\ vectors' \in [ChunkIds -> Indexes \cup {None}]
  BY DEF BuildRequest, RetryRequest, IndexInv, CallsInv, IndexTypeOK
<1>5. b \notin Attempts
  BY <1>4 DEF Attempts
<1> HIDE DEF s
<1>q. QED
  BY <1>1, <1>2, <1>3, <1>4, <1>5, CallGoesOn, FS_EmptySet DEF s

\* What is known of the index a call works on.
LEMMA WorksOn ==
    ASSUME CallsInv, NEW b \in Indexers, build[b].pc \notin {"idle", "closed"}
    PROVE  /\ build[b] \in Build
           /\ build[b].index \in Indexes
           /\ build[b].index[1] \in Versions
           /\ build[b].after \in Nat
           /\ build[b].page \in SUBSET ChunkIds
           /\ IsFiniteSet(build[b].page)
  BY DEF CallsInv, IndexTypeOK, Build

LEMMA VectorsTyped ==
    ASSUME CallsInv, NEW i \in Indexes
    PROVE  WithoutVectorsOf(i) \in [ChunkIds -> Indexes \cup {None}]
  BY DEF WithoutVectorsOf, CallsInv, IndexTypeOK

\* Steps of an attempt that write no row.
LEMMA AttemptSteps ==
    ASSUME IngestInv, IndexInv, NEW b \in Indexers,
           \/ ClearLeftovers(b)
           \/ ReadPage(b)
           \/ UpsertPage(b)
           \/ VectorsFail(b)
           \/ DropVectors(b)
           \/ StopIndexing(b)
    PROVE  IndexInv'
<1> DEFINE i == build[b].index
<1>0. build[b].pc \notin {"idle", "closed"}
  BY DEF ClearLeftovers, ReadPage, UpsertPage, VectorsFail, DropVectors, StopIndexing
<1>1. /\ build[b] \in Build
      /\ i \in Indexes
      /\ i[1] \in Versions
      /\ build[b].after \in Nat
      /\ build[b].page \in SUBSET ChunkIds
      /\ IsFiniteSet(build[b].page)
      /\ vectors \in [ChunkIds -> Indexes \cup {None}]
  BY <1>0, WorksOn DEF IndexInv, CallsInv, IndexTypeOK
<1>2. UNCHANGED <<catalogVars, index, overlapped>>
  BY DEF ClearLeftovers, ReadPage, UpsertPage, VectorsFail, DropVectors, StopIndexing
<1>3. "absent" \in JobStatus /\ build \in [Indexers -> Build]
  BY DEF JobStatus, IndexInv, CallsInv, IndexTypeOK
<1>f. ASSUME NEW pc \in {"reading", "counting"}
      PROVE  /\ [build EXCEPT ![b].pc = pc] = [build EXCEPT ![b] = [build[b] EXCEPT !.pc = pc]]
             /\ [build[b] EXCEPT !.pc = pc] \in Build
             /\ [build[b] EXCEPT !.pc = pc].pc = pc
             /\ [build[b] EXCEPT !.pc = pc].index = i
             /\ [build[b] EXCEPT !.pc = pc].page = build[b].page
  BY <1>1, <1>3 DEF Build
<1>4. CASE ClearLeftovers(b)
  <2> DEFINE s == [build[b] EXCEPT !.pc = "reading"]
  <2>1. build' = [build EXCEPT ![b] = s] /\ vectors' = WithoutVectorsOf(i)
    BY <1>4, <1>f DEF ClearLeftovers
  <2>2. s \in Build /\ s.pc = "reading" /\ s.index = i /\ s.page = build[b].page
    BY <1>f
  <2>3. b \in Attempts
    BY <1>4 DEF ClearLeftovers, Attempts
  <2>4. vectors' \in [ChunkIds -> Indexes \cup {None}]
    BY <1>1, <2>1, VectorsTyped DEF IndexInv
  <2> HIDE DEF s
  <2>q. QED
    BY <1>1, <1>2, <2>1, <2>2, <2>3, <2>4, CallGoesOn
<1>5. CASE ReadPage(b)
  <2> DEFINE page == ChildIds(i[1], build[b].after + 1, build[b].after + BatchSize)
             pc == IF page = {} THEN "activating" ELSE "upserting"
             s == PageOf(pc, i, page, build[b].after)
  <2>1. build' = [build EXCEPT ![b] = s] /\ UNCHANGED vectors
    BY <1>5 DEF ReadPage
  <2>2. build[b].after + 1 \in Nat \ {0} /\ build[b].after + BatchSize \in Nat
    BY <1>1, IndexingAssumption
  <2>3. page \in SUBSET ChunkIds /\ IsFiniteSet(page)
    BY <1>1, <2>2, PageTyped DEF IngestInv
  <2> HIDE DEF page
  <2>4. /\ s \in Build
        /\ s.pc \in {"activating", "upserting"}
        /\ s.index = i
        /\ s.page = page
    BY <1>1, <2>3, BuildOfTyped DEF PageOf
  <2>5. b \in Attempts
    BY <1>5 DEF ReadPage, Attempts
  <2> HIDE DEF s
  <2>q. QED
    BY <1>1, <1>2, <2>1, <2>3, <2>4, <2>5, CallGoesOn
<1>6. CASE UpsertPage(b)
  <2> DEFINE s == [build[b] EXCEPT !.pc = "counting"]
  <2>1. build' = [build EXCEPT ![b] = s]
    BY <1>6, <1>f DEF UpsertPage
  <2>2. s \in Build /\ s.pc = "counting" /\ s.index = i /\ s.page = build[b].page
    BY <1>f
  <2>3. b \in Attempts
    BY <1>6 DEF UpsertPage, Attempts
  <2>4. vectors' \in [ChunkIds -> Indexes \cup {None}]
    BY <1>1, <1>6 DEF UpsertPage
  <2> HIDE DEF s
  <2>q. QED
    BY <1>1, <1>2, <2>1, <2>2, <2>3, <2>4, CallGoesOn
<1>7. CASE VectorsFail(b)
  <2> DEFINE s == BuildOf("failing", i, "absent")
  <2>1. build' = [build EXCEPT ![b] = s] /\ UNCHANGED vectors
    BY <1>7 DEF VectorsFail, AfterError
  <2>2. s \in Build /\ s.pc = "failing" /\ s.index = i /\ s.page = {}
    BY <1>1, <1>3, BuildOfTyped DEF BuildOf
  <2>3. b \in Attempts
    BY <1>7 DEF VectorsFail, Attempts
  <2> HIDE DEF s
  <2>q. QED
    BY <1>1, <1>2, <2>1, <2>2, <2>3, CallGoesOn, FS_EmptySet
<1>8. CASE DropVectors(b)
  <2> DEFINE s == BuildAt("closed")
  <2>1. build' = [build EXCEPT ![b] = s] /\ build[b].pc = "dropping"
    BY <1>8 DEF DropVectors
  <2>2. s \in Build /\ s.pc = "closed" /\ s.page = {}
    BY BuildOfTyped DEF BuildAt, BuildOf
  <2>3. vectors' \in [ChunkIds -> Indexes \cup {None}]
    BY <1>1, <1>8, VectorsTyped DEF DropVectors, IndexInv
  <2> HIDE DEF s
  <2>q. QED
    BY <1>2, <2>1, <2>2, <2>3, CallGoesOn, FS_EmptySet
<1>9. CASE StopIndexing(b)
  <2> DEFINE s == BuildOf("stopped", i, "absent")
  <2>1. build' = [build EXCEPT ![b] = s] /\ UNCHANGED vectors
    BY <1>9 DEF StopIndexing
  <2>2. s \in Build /\ s.pc = "stopped" /\ s.index = i /\ s.page = {}
    BY <1>1, <1>3, BuildOfTyped DEF BuildOf
  <2> HIDE DEF s
  <2>q. QED
    BY <1>1, <1>2, <2>1, <2>2, CallGoesOn, FS_EmptySet
<1>q. QED
  BY <1>4, <1>5, <1>6, <1>7, <1>8, <1>9

\* The action property: what stops being active was replaced, or attempts on
\* it overlapped.
KeepsActive ==
    \A i \in Indexes :
       (index[i].status = "active" /\ index'[i].status # "active")
       => i \in overlapped' \/ Active(Doc(i))' # {}

\* A row that is written does not become active.
LEMMA RowWritten ==
    ASSUME IndexInv, NEW i \in Indexes, NEW row \in Index,
           index' = [index EXCEPT ![i] = row],
           row.status = "active" => index[i].status = "active" /\ row.job = index[i].job,
           UNCHANGED <<version, current>>
    PROVE  /\ index' \in [Indexes -> Index]
           /\ index'[i] = row
           /\ \A j \in Indexes \ {i} : index'[j] = index[j]
           /\ Versions' = Versions
           /\ ActiveInv'
<1>1. /\ index' \in [Indexes -> Index]
      /\ index'[i] = row
      /\ \A j \in Indexes \ {i} : index'[j] = index[j]
  BY DEF IndexInv, CallsInv, IndexTypeOK
<1>2. /\ Versions' = Versions
      /\ \A d : VersionsOf(d)' = VersionsOf(d)
      /\ \A j \in Indexes : Doc(j)' = Doc(j)
  BY DEF Versions, VersionsOf, Doc
<1>3. \A j \in Indexes : index'[j].status = "active" =>
         index[j].status = "active" /\ index'[j].job = index[j].job
  BY <1>1
<1>4. current' \subseteq Versions'
  BY <1>2 DEF IndexInv, ActiveInv
<1>5. \A j \in Indexes : index'[j].status = "active" =>
         /\ index'[j].job = "succeeded"
         /\ current' \cap VersionsOf(Doc(j))' = {j[1]}
  <2> SUFFICES ASSUME NEW j \in Indexes, index'[j].status = "active"
               PROVE  /\ index'[j].job = "succeeded"
                      /\ current' \cap VersionsOf(Doc(j))' = {j[1]}
    OBVIOUS
  <2>1. /\ index[j].job = "succeeded"
        /\ current \cap VersionsOf(Doc(j)) = {j[1]}
    BY <1>3 DEF IndexInv, ActiveInv
  <2>2. VersionsOf(Doc(j))' = VersionsOf(Doc(j))
    BY DEF VersionsOf, Versions, Doc
  <2>q. QED
    BY <1>3, <2>1, <2>2
<1>6. \A j, k \in Indexes :
         (index'[j].status = "active" /\ index'[k].status = "active" /\ Doc(j)' = Doc(k)')
         => j = k
  BY <1>2, <1>3 DEF IndexInv, ActiveInv
<1>7. ActiveInv'
  BY <1>4, <1>5, <1>6 DEF ActiveInv
<1>q. QED
  BY <1>1, <1>2, <1>7

\* The calls after a step of b that writes the row of its index.
LEMMA CallsAfter ==
    ASSUME IndexInv, NEW b \in Indexers, NEW s \in Build,
           build' = [build EXCEPT ![b] = s],
           IsFiniteSet(s.page),
           s.pc \notin {"idle", "closed"} => s.index \in Indexes /\ s.index[1] \in Versions,
           s.pc = "starting" => s.saw \in {"queued", "failed"},
           NEW i \in Indexes, i[1] \in Versions,
           index' \in [Indexes -> Index],
           \A j \in Indexes \ {i} :
              /\ index'[j].job = index[j].job
              /\ index[j].status = "absent" => index'[j].status = "absent",
           UNCHANGED vectors,
           overlapped' \in SUBSET Indexes,
           Versions' = Versions
    PROVE  /\ CallsInv'
           /\ build'[b] = s
           /\ \A o \in Indexers \ {b} : build'[o] = build[o]
<1>1. /\ CallsInv
      /\ vectors' \in [ChunkIds -> Indexes \cup {None}]
  BY DEF IndexInv, CallsInv, IndexTypeOK
<1>2. \A j \in Indexes : (index'[j].status # "absent" \/ index'[j].job # "absent") =>
         j[1] \in Versions
  <2> SUFFICES ASSUME NEW j \in Indexes, index'[j].status # "absent" \/ index'[j].job # "absent"
               PROVE  j[1] \in Versions
    OBVIOUS
  <2>1. CASE j = i
    BY <2>1
  <2>2. CASE j # i
    <3>1. index[j].status # "absent" \/ index[j].job # "absent"
      BY <2>2
    <3>q. QED
      BY <3>1 DEF IndexInv, CallsInv
  <2>q. QED
    BY <2>1, <2>2
<1>q. QED
  BY <1>1, <1>2, CallTyped

LEMMA CreateSteps ==
    ASSUME IngestInv, IndexInv, NEW b \in Indexers, CreateIndex(b)
    PROVE  IndexInv' /\ KeepsActive
<1> DEFINE i == build[b].index
<1>1. /\ build[b].pc = "creating" /\ i \in Indexes /\ i[1] \in Versions
      /\ UNCHANGED <<catalogVars, vectors, overlapped>>
      /\ UNCHANGED <<version, current>>
      /\ b \notin Attempts
  BY WorksOn DEF CreateIndex, IndexInv, Attempts, catalogVars
<1>2. CASE index[i].status # "absent"
  <2> DEFINE s == BuildAt("closed")
  <2>1. build' = [build EXCEPT ![b] = s] /\ UNCHANGED index
    BY <1>2 DEF CreateIndex
  <2>2. s \in Build /\ s.pc = "closed" /\ s.page = {}
    BY BuildOfTyped DEF BuildAt, BuildOf
  <2>3. vectors' \in [ChunkIds -> Indexes \cup {None}]
    BY <1>1 DEF IndexInv, CallsInv, IndexTypeOK
  <2> HIDE DEF s
  <2>4. IndexInv'
    BY <1>1, <2>1, <2>2, <2>3, CallGoesOn, FS_EmptySet
  <2>q. QED
    BY <2>1, <2>4 DEF KeepsActive
<1>3. CASE index[i].status = "absent"
  <2> DEFINE s == BuildOf("starting", i, "queued")
             row == Row(i, "building", "queued")
  <2>1. build' = [build EXCEPT ![b] = s] /\ index' = [index EXCEPT ![i] = row]
    BY <1>3 DEF CreateIndex
  <2>2. /\ s \in Build /\ s.pc = "starting" /\ s.page = {}
        /\ s.index = i /\ s.saw = "queued"
    BY <1>1, BuildOfTyped DEF BuildOf, JobStatus
  <2>3. row \in Index /\ row.status = "building" /\ row.job = "queued"
    BY <1>1, RowTyped DEF IndexInv, CallsInv, JobStatus
  <2> HIDE DEF s, row
  <2>4. /\ index' \in [Indexes -> Index]
        /\ index'[i] = row
        /\ \A j \in Indexes \ {i} : index'[j] = index[j]
        /\ Versions' = Versions
        /\ ActiveInv'
    BY <1>1, <2>1, <2>3, RowWritten
  <2>5. overlapped' = overlapped /\ overlapped' \in SUBSET Indexes /\ UNCHANGED vectors
    BY <1>1 DEF IndexInv, CallsInv, IndexTypeOK
  <2>6. /\ CallsInv'
        /\ build'[b] = s
        /\ \A o \in Indexers \ {b} : build'[o] = build[o]
    <3>1. \A j \in Indexes \ {i} :
             /\ index'[j].job = index[j].job
             /\ index[j].status = "absent" => index'[j].status = "absent"
      BY <2>4
    <3>2. IsFiniteSet(s.page)
      BY <2>2, FS_EmptySet
    <3> HIDE DEF i
    <3>q. QED
      BY <1>1, <2>1, <2>2, <2>4, <2>5, <3>1, <3>2, CallsAfter
  <2>7. Attempts' = Attempts
    BY <1>1, <2>2, <2>6 DEF Attempts
  <2>8. AttemptsInv'
    <3>1. \A o \in Attempts' : /\ o \in Attempts \ {b}
                               /\ build'[o] = build[o]
                               /\ build[o].index \in Indexes
      BY <1>1, <2>6, <2>7, WorksOn DEF Attempts, IndexInv
    <3>2. \A j \in Indexes : index'[j].status = "active" => index[j].status = "active"
      BY <2>3, <2>4
    <3>q. QED
      BY <2>5, <3>1, <3>2 DEF IndexInv, AttemptsInv
  <2>9. IndexHasWorker'
    BY <1>1, <2>2, <2>3, <2>4, <2>6, <2>7 DEF IndexInv, IndexHasWorker
  <2>10. KeepsActive
    BY <1>3, <2>4 DEF KeepsActive
  <2>q. QED
    BY <2>4, <2>6, <2>8, <2>9, <2>10 DEF IndexInv
<1>q. QED
  BY <1>2, <1>3

\* An attempt that writes the row of its index, or leaves it, without
\* activating it.
LEMMA AttemptWrites ==
    ASSUME IndexInv, NEW b \in Indexers, NEW s \in Build, NEW i \in Indexes,
           NEW row \in Index,
           i[1] \in Versions, build[b].index = i,
           build' = [build EXCEPT ![b] = s],
           index' = [index EXCEPT ![i] = row],
           UNCHANGED <<catalogVars, vectors>>,
           overlapped \subseteq overlapped', overlapped' \in SUBSET Indexes,
           s.index = i, IsFiniteSet(s.page),
           s.pc \in {"clearing", "reading", "failing", "dropping"},
           row.job = "processing" => s.pc # "dropping",
           row.status = "active" => index[i].status = "active" /\ row.job = index[i].job,
           i \notin overlapped' =>
              /\ index[i].status # "active"
              /\ \A o \in Attempts : build[o].index = i => o = b
    PROVE  IndexInv' /\ KeepsActive
<1>0. UNCHANGED <<version, current>>
  BY DEF catalogVars
<1>1. /\ index' \in [Indexes -> Index]
      /\ index'[i] = row
      /\ \A j \in Indexes \ {i} : index'[j] = index[j]
      /\ Versions' = Versions
      /\ ActiveInv'
  BY <1>0, RowWritten
<1>2. /\ CallsInv'
      /\ build'[b] = s
      /\ \A o \in Indexers \ {b} : build'[o] = build[o]
  <2>1. \A j \in Indexes \ {i} :
           /\ index'[j].job = index[j].job
           /\ index[j].status = "absent" => index'[j].status = "absent"
    BY <1>1
  <2>2. UNCHANGED vectors
    OBVIOUS
  <2>q. QED
    BY <1>1, <2>1, <2>2, CallsAfter
<1>3. \A o \in Attempts' : o = b \/ (o \in Attempts /\ build'[o] = build[o])
  BY <1>2 DEF Attempts
<1>4. AttemptsInv'
  <2> SUFFICES ASSUME NEW o \in Attempts', build'[o].index \notin overlapped'
               PROVE  /\ index'[build'[o].index].status # "active"
                      /\ \A p \in Attempts' : build'[p].index = build'[o].index => p = o
    BY DEF AttemptsInv
  <2>1. CASE i \notin overlapped' /\ build'[o].index = i
    BY <1>1, <1>2, <1>3, <2>1
  <2>2. CASE build'[o].index # i
    <3>1. o \in Attempts /\ o # b /\ build'[o] = build[o] /\ build[o].index \in Indexes
      BY <1>2, <1>3, <2>2, WorksOn DEF Attempts, IndexInv
    <3>2. /\ index[build[o].index].status # "active"
          /\ \A p \in Attempts : build[p].index = build[o].index => p = o
      BY <3>1 DEF IndexInv, AttemptsInv
    <3>q. QED
      BY <1>1, <1>2, <1>3, <2>2, <3>1, <3>2
  <2>q. QED
    BY <2>1, <2>2
<1>5. IndexHasWorker'
  <2> SUFFICES ASSUME NEW j \in Indexes, index'[j].job = "processing"
               PROVE  \E o \in Indexers : /\ build'[o].index = j
                                          /\ \/ build'[o].pc = "stopped"
                                             \/ (o \in Attempts' /\ build'[o].pc # "dropping")
    BY DEF IndexHasWorker
  <2>1. CASE j = i
    BY <1>1, <1>2, <2>1 DEF Attempts
  <2>2. CASE j # i
    <3>1. PICK o \in Indexers : /\ build[o].index = j
                                /\ \/ build[o].pc = "stopped"
                                   \/ (o \in Attempts /\ build[o].pc # "dropping")
      BY <1>1, <2>2 DEF IndexInv, IndexHasWorker
    <3>2. o # b /\ build'[o] = build[o]
      BY <1>2, <2>2, <3>1
    <3>q. QED
      BY <3>1, <3>2 DEF Attempts
  <2>q. QED
    BY <2>1, <2>2
<1>6. KeepsActive
  BY <1>1 DEF KeepsActive
<1>q. QED
  BY <1>1, <1>2, <1>4, <1>5, <1>6 DEF IndexInv

\* The attempt that counts, activates or fails may go on: unless attempts
\* overlapped it is alone, and its index is not active.
LEMMA AttemptAlone ==
    ASSUME IndexInv, NEW b \in Attempts
    PROVE  /\ build[b] \in Build
           /\ build[b].index \in Indexes
           /\ build[b].index[1] \in Versions
           /\ index[build[b].index] \in Index
           /\ build[b].index \notin overlapped =>
                 /\ index[build[b].index].status # "active"
                 /\ \A o \in Attempts : build[o].index = build[b].index => o = b
<1>1. b \in Indexers /\ build[b].pc \notin {"idle", "closed"}
  BY DEF Attempts
<1>2. /\ build[b] \in Build
      /\ build[b].index \in Indexes
      /\ build[b].index[1] \in Versions
  BY <1>1, WorksOn DEF IndexInv
<1>3. index[build[b].index] \in Index
  BY <1>2 DEF IndexInv, CallsInv, IndexTypeOK
<1>q. QED
  BY <1>2, <1>3 DEF IndexInv, AttemptsInv

LEMMA StartAttemptSteps ==
    ASSUME IngestInv, IndexInv, NEW b \in Indexers, StartAttempt(b)
    PROVE  IndexInv' /\ KeepsActive
<1> DEFINE i == build[b].index
<1>1. /\ build[b].pc = "starting"
      /\ i \in Indexes /\ i[1] \in Versions
      /\ index[i] \in Index
      /\ build[b].saw \in {"queued", "failed"}
      /\ UNCHANGED <<catalogVars, vectors>>
  BY WorksOn DEF StartAttempt, IndexInv, CallsInv, IndexTypeOK
<1>2. /\ overlapped \subseteq overlapped'
      /\ overlapped' \in SUBSET Indexes
      /\ i \notin overlapped' => index[i].job = build[b].saw /\ ~OthersOpen(b)
  BY <1>1 DEF StartAttempt, IndexInv, CallsInv, IndexTypeOK
<1>3. i \notin overlapped' => index[i].status # "active"
  BY <1>1, <1>2 DEF IndexInv, ActiveInv
<1>4. i \notin overlapped' => \A o \in Attempts : build[o].index = i => o = b
  BY <1>2 DEF OthersOpen, OpenIndexings, Attempts
<1>5. ASSUME NEW pc \in {"clearing", "failing"}
      PROVE  /\ BuildOf(pc, i, "absent") \in Build
             /\ BuildOf(pc, i, "absent").pc = pc
             /\ BuildOf(pc, i, "absent").index = i
             /\ IsFiniteSet(BuildOf(pc, i, "absent").page)
  BY <1>1, BuildOfTyped, FS_EmptySet DEF BuildOf, JobStatus
<1>6. ChildCount(i[1]) \in Nat
  BY <1>1, ChildCountTyped DEF IngestInv
<1>7. CASE SourceReady(i)
  <2> DEFINE pc == IF ChildCount(i[1]) = 0 THEN "failing" ELSE "clearing"
             s == BuildOf(pc, i, "absent")
             row == [status |-> "building", job |-> "processing",
                     total |-> ChildCount(i[1]), indexed |-> 0]
  <2>1. build' = [build EXCEPT ![b] = s] /\ index' = [index EXCEPT ![i] = row]
    BY <1>7 DEF StartAttempt
  <2>2. pc \in {"clearing", "failing"}
    OBVIOUS
  <2>3. row \in Index /\ row.status = "building"
    BY <1>6 DEF Index, JobStatus
  <2> HIDE DEF pc, row
  <2>4. s \in Build /\ s.pc = pc /\ s.index = i /\ IsFiniteSet(s.page)
    BY <1>5, <2>2
  <2> HIDE DEF s
  <2>q. QED
    BY <1>1, <1>2, <1>3, <1>4, <2>1, <2>2, <2>3, <2>4, AttemptWrites
<1>8. CASE ~SourceReady(i)
  <2> DEFINE s == BuildOf("failing", i, "absent")
  <2>1. build' = [build EXCEPT ![b] = s] /\ index' = [index EXCEPT ![i] = index[i]]
    BY <1>1, <1>8 DEF StartAttempt, IndexInv, CallsInv, IndexTypeOK
  <2>2. s \in Build /\ s.pc = "failing" /\ s.index = i /\ IsFiniteSet(s.page)
    BY <1>5
  <2> HIDE DEF s
  <2>q. QED
    BY <1>1, <1>2, <1>3, <1>4, <2>1, <2>2, AttemptWrites
<1>q. QED
  BY <1>7, <1>8

\* Counting a page, the failure of an activation and the record of a failure.
LEMMA RecordSteps ==
    ASSUME IngestInv, IndexInv, NEW b \in Indexers,
           \/ IncreaseProgress(b)
           \/ Activate(b) /\ ~(Complete(build[b].index) /\ Undeleted(build[b].index))
           \/ MarkIndexFailed(b)
    PROVE  IndexInv' /\ KeepsActive
<1> DEFINE i == build[b].index
<1>1. b \in Attempts
  BY DEF IncreaseProgress, Activate, MarkIndexFailed, Attempts
<1>2. /\ build[b] \in Build
      /\ i \in Indexes
      /\ i[1] \in Versions
      /\ index[i] \in Index
      /\ i \notin overlapped =>
            /\ index[i].status # "active"
            /\ \A o \in Attempts : build[o].index = i => o = b
  BY <1>1, AttemptAlone
<1>3. /\ UNCHANGED <<catalogVars, vectors>>
      /\ overlapped' = overlapped
      /\ overlapped \in SUBSET Indexes
      /\ index = [index EXCEPT ![i] = index[i]]
  BY <1>2 DEF IncreaseProgress, Activate, MarkIndexFailed, catalogVars,
              IndexInv, CallsInv, IndexTypeOK
<1>4. ASSUME NEW s \in Build, NEW row \in Index,
             build' = [build EXCEPT ![b] = s],
             index' = [index EXCEPT ![i] = row],
             s.index = i, IsFiniteSet(s.page),
             s.pc \in {"clearing", "reading", "failing", "dropping"},
             row.job = "processing" => s.pc # "dropping",
             row.status = "active" => index[i].status = "active" /\ row.job = index[i].job
      PROVE  IndexInv' /\ KeepsActive
  <2> HIDE DEF i
  <2>1. build[b].index = i
    BY DEF i
  <2>q. QED
    BY <1>2, <1>3, <1>4, <2>1, AttemptWrites
<1>5. ASSUME NEW pc \in {"failing", "dropping"}
      PROVE  /\ BuildOf(pc, i, "absent") \in Build
             /\ BuildOf(pc, i, "absent").pc = pc
             /\ BuildOf(pc, i, "absent").index = i
             /\ IsFiniteSet(BuildOf(pc, i, "absent").page)
  BY <1>2, BuildOfTyped, FS_EmptySet DEF BuildOf, JobStatus
<1>6. CASE IncreaseProgress(b)
  <2> DEFINE n == index[i].indexed + Cardinality(build[b].page)
  <2>1. CASE n > index[i].total
    <3> DEFINE s == BuildOf("failing", i, "absent")
    <3>1. build' = [build EXCEPT ![b] = s] /\ index' = [index EXCEPT ![i] = index[i]]
      BY <1>3, <1>6, <2>1 DEF IncreaseProgress
    <3>2. s \in Build /\ s.pc = "failing" /\ s.index = i /\ IsFiniteSet(s.page)
      BY <1>5
    <3> HIDE DEF s, i
    <3>q. QED
      BY <1>2, <1>4, <3>1, <3>2
  <2>2. CASE ~(n > index[i].total)
    <3> DEFINE s == PageOf("reading", i, {}, build[b].after + Cardinality(build[b].page))
               row == [index[i] EXCEPT !.indexed = n]
    <3>1. Cardinality(build[b].page) \in Nat
      BY <1>1, FS_CardinalityType DEF IndexInv, CallsInv, Attempts
    <3>2. build[b].after \in Nat
      BY <1>2 DEF Build
    <3>3. index' = [index EXCEPT ![i].indexed = n] /\ build' = [build EXCEPT ![b] = s]
      BY <1>6, <2>2 DEF IncreaseProgress
    <3>4. index' = [index EXCEPT ![i] = row]
      BY <1>2, <3>3 DEF IndexInv, CallsInv, IndexTypeOK
    <3>5. row \in Index /\ row.status = index[i].status /\ row.job = index[i].job
      BY <1>2, <3>1 DEF Index
    <3>6. s \in Build /\ s.pc = "reading" /\ s.index = i /\ IsFiniteSet(s.page)
      <4> DEFINE after == build[b].after + Cardinality(build[b].page)
      <4>1. after \in Nat /\ IsFiniteSet({})
        BY <3>1, <3>2, FS_EmptySet
      <4> HIDE DEF after, i
      <4>2. PageOf("reading", i, {}, after) \in Build
        BY <1>2, <4>1, BuildOfTyped DEF PageOf
      <4>q. QED
        BY <4>1, <4>2 DEF PageOf, after
    <3> HIDE DEF s, row, i
    <3>q. QED
      BY <1>4, <3>3, <3>4, <3>5, <3>6
  <2>q. QED
    BY <2>1, <2>2
<1>7. CASE Activate(b) /\ ~(Complete(i) /\ Undeleted(i))
  <2> DEFINE s == [build[b] EXCEPT !.pc = "failing"]
  <2>1. build' = [build EXCEPT ![b] = s] /\ index' = [index EXCEPT ![i] = index[i]]
    BY <1>2, <1>3, <1>7 DEF Activate, IndexInv, CallsInv, IndexTypeOK
  <2>2. s \in Build /\ s.pc = "failing" /\ s.index = i /\ IsFiniteSet(s.page)
    BY <1>1, <1>2 DEF Build, IndexInv, CallsInv, Attempts
  <2> HIDE DEF s, i
  <2>q. QED
    BY <1>2, <1>4, <2>1, <2>2
<1>8. CASE MarkIndexFailed(b)
  <2> DEFINE s == BuildOf("dropping", i, "absent")
             row == Row(i, "failed", "failed")
  <2>1. row \in Index /\ row.status = "failed" /\ row.job = "failed"
    BY <1>2, RowTyped DEF JobStatus, IndexInv, CallsInv
  <2>2. build' = [build EXCEPT ![b] = s]
    BY <1>8 DEF MarkIndexFailed
  <2>3. index' = [index EXCEPT ![i] = row]
    BY <1>2, <1>8 DEF MarkIndexFailed, IndexInv, CallsInv, IndexTypeOK
  <2>4. s \in Build /\ s.pc = "dropping" /\ s.index = i /\ IsFiniteSet(s.page)
    BY <1>5
  <2> HIDE DEF s, row, i
  <2>q. QED
    BY <1>4, <2>1, <2>2, <2>3, <2>4
<1>q. QED
  BY <1>6, <1>7, <1>8

\* The switch: what was active of the document is superseded, and the version
\* of the index is the current one.
LEMMA ActivateSteps ==
    ASSUME IngestInv, IndexInv, NEW b \in Indexers, Activate(b),
           Complete(build[b].index), Undeleted(build[b].index)
    PROVE  IndexInv' /\ KeepsActive
<1> DEFINE i == build[b].index
           s == BuildAt("closed")
           S == Superseded(i)
<1>1. /\ b \in Attempts
      /\ i \in Indexes
      /\ i[1] \in Versions
      /\ i \notin overlapped =>
            \A o \in Attempts : build[o].index = i => o = b
  <2>1. b \in Attempts
    BY DEF Activate, Attempts
  <2>q. QED
    BY <2>1, AttemptAlone
<1>2. /\ build' = [build EXCEPT ![b] = s]
      /\ index' = [j \in Indexes |->
                     IF j = i THEN Row(i, "active", "succeeded")
                     ELSE IF j \in S THEN Row(j, "superseded", index[j].job)
                     ELSE index[j]]
      /\ current' = (current \ VersionsOf(Doc(i))) \cup {i[1]}
      /\ UNCHANGED <<document, version, job, blocks, chunks, vectors, overlapped>>
  BY DEF Activate, SwitchCurrent
<1>3. s \in Build /\ s.pc = "closed" /\ IsFiniteSet(s.page)
  BY BuildOfTyped, FS_EmptySet DEF BuildAt, BuildOf
<1>4. /\ Versions' = Versions
      /\ \A d : VersionsOf(d)' = VersionsOf(d)
      /\ \A j \in Indexes : Doc(j)' = Doc(j)
  BY <1>2 DEF Versions, VersionsOf, Doc
<1>5. \A j \in Indexes : index[j].job \in JobStatus
  BY DEF IndexInv, CallsInv, IndexTypeOK, Index
<1>6. /\ index' \in [Indexes -> Index]
      /\ index'[i].status = "active" /\ index'[i].job = "succeeded"
      /\ \A j \in Indexes \ {i} : index'[j].job = index[j].job
      /\ \A j \in Indexes \ {i} : index'[j].status = "absent" <=> index[j].status = "absent"
      /\ \A j \in Indexes \ {i} : index'[j].status = "active" <=>
            (index[j].status = "active" /\ Doc(j) # Doc(i))
  <2>1. IndexTypeOK
    BY DEF IndexInv, CallsInv
  <2>2. /\ Row(i, "active", "succeeded") \in Index
        /\ Row(i, "active", "succeeded").status = "active"
        /\ Row(i, "active", "succeeded").job = "succeeded"
    BY <1>1, <2>1, RowTyped DEF JobStatus
  <2>3. ASSUME NEW j \in Indexes
        PROVE  /\ Row(j, "superseded", index[j].job) \in Index
               /\ Row(j, "superseded", index[j].job).status = "superseded"
               /\ Row(j, "superseded", index[j].job).job = index[j].job
    BY <1>5, <2>1, RowTyped
  <2>4. \A j \in Indexes : j \in S <=>
           index[j].status = "active" /\ j # i /\ Doc(j) = Doc(i)
    BY DEF Superseded
  <2> HIDE DEF i, S
  <2>5. \A j \in Indexes \ {i} : index'[j] = IF j \in S THEN Row(j, "superseded", index[j].job)
                                             ELSE index[j]
    BY <1>2
  <2>6. index'[i] = Row(i, "active", "succeeded")
    BY <1>1, <1>2
  <2>7. index' \in [Indexes -> Index]
    BY <1>2, <2>1, <2>2, <2>3 DEF IndexTypeOK
  <2>q. QED
    BY <2>2, <2>3, <2>4, <2>5, <2>6, <2>7
<1> HIDE DEF i, S, s
<1>7. /\ CallsInv'
      /\ build'[b] = s
      /\ \A o \in Indexers \ {b} : build'[o] = build[o]
  <2>1. \A j \in Indexes \ {i} :
           /\ index'[j].job = index[j].job
           /\ index[j].status = "absent" => index'[j].status = "absent"
    BY <1>6
  <2>2. UNCHANGED vectors /\ overlapped' \in SUBSET Indexes
    BY <1>2 DEF IndexInv, CallsInv, IndexTypeOK
  <2>q. QED
    BY <1>1, <1>2, <1>3, <1>4, <1>6, <2>1, <2>2, CallsAfter
<1>8. i[1] \in VersionsOf(Doc(i)) /\ \A d : d # Doc(i) => VersionsOf(d) \cap VersionsOf(Doc(i)) = {}
  BY <1>1 DEF VersionsOf, Doc
<1>9. ActiveInv'
  <2>1. current' \subseteq Versions'
    BY <1>1, <1>2, <1>4 DEF IndexInv, ActiveInv
  <2>2. ASSUME NEW j \in Indexes, index'[j].status = "active"
        PROVE  /\ index'[j].job = "succeeded"
               /\ current' \cap VersionsOf(Doc(j))' = {j[1]}
    <3>0. VersionsOf(Doc(j))' = VersionsOf(Doc(j))
      BY <1>2 DEF VersionsOf, Versions, Doc
    <3>1. CASE j = i
      BY <1>2, <1>6, <1>8, <3>0, <3>1
    <3>2. CASE j # i
      <4>1. index[j].status = "active" /\ Doc(j) # Doc(i) /\ index'[j].job = index[j].job
        BY <1>6, <2>2, <3>2
      <4>2. index[j].job = "succeeded" /\ current \cap VersionsOf(Doc(j)) = {j[1]}
        BY <4>1 DEF IndexInv, ActiveInv
      <4>q. QED
        BY <1>2, <1>8, <3>0, <4>1, <4>2
    <3>q. QED
      BY <3>1, <3>2
  <2>3. \A j, k \in Indexes :
           (index'[j].status = "active" /\ index'[k].status = "active" /\ Doc(j)' = Doc(k)')
           => j = k
    BY <1>1, <1>4, <1>6 DEF IndexInv, ActiveInv
  <2>q. QED
    BY <2>1, <2>2, <2>3 DEF ActiveInv
<1>10. \A o \in Attempts' : o \in Attempts \ {b} /\ build'[o] = build[o]
  BY <1>3, <1>7 DEF Attempts
<1>11. AttemptsInv'
  <2> SUFFICES ASSUME NEW o \in Attempts', build'[o].index \notin overlapped'
               PROVE  /\ index'[build'[o].index].status # "active"
                      /\ \A p \in Attempts' : build'[p].index = build'[o].index => p = o
    BY DEF AttemptsInv
  <2>1. o \in Attempts /\ o # b /\ build'[o] = build[o] /\ build[o].index \in Indexes
    BY <1>10, AttemptAlone
  <2>2. /\ index[build[o].index].status # "active"
        /\ \A p \in Attempts : build[p].index = build[o].index => p = o
    BY <1>2, <2>1 DEF IndexInv, AttemptsInv
  <2>3. build[o].index # i
    BY <1>1, <2>1, <2>2 DEF i
  <2>q. QED
    BY <1>6, <1>10, <2>1, <2>2, <2>3
<1>12. IndexHasWorker'
  <2> SUFFICES ASSUME NEW j \in Indexes, index'[j].job = "processing"
               PROVE  \E o \in Indexers : /\ build'[o].index = j
                                          /\ \/ build'[o].pc = "stopped"
                                             \/ (o \in Attempts' /\ build'[o].pc # "dropping")
    BY DEF IndexHasWorker
  <2>1. j # i /\ index[j].job = "processing"
    BY <1>6
  <2>2. PICK o \in Indexers : /\ build[o].index = j
                              /\ \/ build[o].pc = "stopped"
                                 \/ (o \in Attempts /\ build[o].pc # "dropping")
    BY <2>1 DEF IndexInv, IndexHasWorker
  <2>3. o # b /\ build'[o] = build[o]
    BY <1>7, <2>1, <2>2 DEF i
  <2>q. QED
    BY <2>2, <2>3 DEF Attempts
<1>13. KeepsActive
  <2> SUFFICES ASSUME NEW j \in Indexes, index[j].status = "active", index'[j].status # "active"
               PROVE  Active(Doc(j))' # {}
    BY DEF KeepsActive
  <2>1. Doc(j) = Doc(i)
    BY <1>6
  <2>2. version'[i[1]].doc = version'[j[1]].doc
    BY <1>2, <2>1 DEF Doc
  <2>3. i \in Active(Doc(j))'
    BY <1>1, <1>4, <1>6, <2>2 DEF Active, Doc
  <2>q. QED
    BY <2>3
<1>q. QED
  BY <1>7, <1>9, <1>11, <1>12, <1>13 DEF IndexInv

-----------------------------------------------------------------------------
(* All steps *)

BaseInv == IngestInv /\ RowsInv /\ IndexInv

\* Ingestion adds versions and keeps the rows of those there are, and never
\* touches which of them is current.
LEMMA IngestionSteps ==
    ASSUME IngestInv, RowsInv, NEW c \in Parsers,
           BeginIngest(c) \/ StepIngest(c) \/ StopIngest(c)
    PROVE  IngestInv' /\ RowsInv' /\ RowsGrow /\ UNCHANGED current
<1>0. /\ UNCHANGED version => RowsGrow
      /\ RowsKept => RowsGrow
  BY DEF RowsKept, RowsGrow, Versions
<1>1. CASE BeginIngest(c)
  <2>1. CASE c \in Uploads /\ \E content \in Contents, d \in Uploads : Upload(c, content, d)
    <3>1. PICK content \in Contents, d \in Uploads : Upload(c, content, d)
      BY <2>1
    <3>2. UNCHANGED <<version, current>>
      BY <3>1 DEF Upload, catalogVars
    <3>q. QED
      BY <1>0, <2>1, <3>1, <3>2, UploadSteps
  <2>2. CASE c \in Retries /\ \E v \in Versions : Retry(c, v)
    <3>1. PICK v \in Versions : Retry(c, v)
      BY <2>2
    <3>2. UNCHANGED <<version, current>>
      BY <3>1 DEF Retry, catalogVars
    <3>q. QED
      BY <1>0, <3>1, <3>2, RetrySteps
  <2>q. QED
    BY <1>1, <2>1, <2>2 DEF BeginIngest
<1>2. CASE c \in Uploads /\ CommitUpload(c)
  <2>1. version[c] = None
    BY <1>2 DEF CommitUpload, IngestInv, NumbersInv
  <2>2. \A v \in Versions : version'[v] = version[v] /\ v \in Uploads
    BY <1>2, <2>1 DEF CommitUpload, catalogVars, Versions, IngestInv, CatalogTypeOK
  <2>3. RowsGrow /\ UNCHANGED current
    BY <1>2, <2>2 DEF CommitUpload, catalogVars, RowsGrow, Versions
  <2>q. QED
    BY <1>2, <2>3, CommitSteps
<1>3. CASE StartParse(c)
  <2>1. UNCHANGED <<version, current>>
    BY <1>3 DEF StartParse
  <2>q. QED
    BY <1>0, <1>3, <2>1, StartSteps
<1>4. CASE ReplaceChunks(c) \/ MarkFailed(c)
  <2>1. ingest[c].version \in Versions
    BY <1>4 DEF ReplaceChunks, MarkFailed, IngestInv, WorkOnVersions
  <2>2. RowsKept /\ UNCHANGED current
    BY <1>4, <2>1, StatusWritten DEF ReplaceChunks, MarkFailed, IngestInv
  <2>q. QED
    BY <1>0, <1>4, <2>2, EndSteps
<1>5. CASE StopIngest(c)
  <2>1. UNCHANGED <<version, current>>
    BY <1>5 DEF StopIngest, catalogVars
  <2>q. QED
    BY <1>0, <1>5, <2>1, StopIngestSteps
<1>q. QED
  BY <1>1, <1>2, <1>3, <1>4, <1>5 DEF StepIngest

\* Indexing keeps the invariant of indexing, keeps an active index until it is
\* replaced, and leaves ingestion alone but for the current version.
LEMMA IndexingSteps ==
    ASSUME BaseInv, NEW b \in Indexers,
           BeginIndexing(b) \/ StepIndexing(b) \/ StopIndexing(b),
           UNCHANGED ingestVars
    PROVE  BaseInv' /\ KeepsActive
<1>0. IngestInv /\ RowsInv /\ IndexInv
  BY DEF BaseInv
<1>1. UNCHANGED index => KeepsActive
  BY DEF KeepsActive
<1>2. IndexInv' /\ KeepsActive
  <2>1. CASE BeginIndexing(b)
    <3>1. PICK i \in Indexes : BuildRequest(b, i) \/ RetryRequest(b, i)
      BY <2>1 DEF BeginIndexing
    <3>2. UNCHANGED index
      BY <3>1 DEF BuildRequest, RetryRequest
    <3>q. QED
      BY <1>0, <1>1, <3>1, <3>2, RequestSteps
  <2>2. CASE CreateIndex(b)
    BY <1>0, <2>2, CreateSteps
  <2>3. CASE StartAttempt(b)
    BY <1>0, <2>3, StartAttemptSteps
  <2>4. CASE \/ ClearLeftovers(b)
             \/ ReadPage(b)
             \/ UpsertPage(b)
             \/ VectorsFail(b)
             \/ DropVectors(b)
             \/ StopIndexing(b)
    <3>1. UNCHANGED index
      BY <2>4 DEF ClearLeftovers, ReadPage, UpsertPage, VectorsFail, DropVectors, StopIndexing
    <3>q. QED
      BY <1>0, <1>1, <2>4, <3>1, AttemptSteps
  <2>5. CASE IncreaseProgress(b) \/ MarkIndexFailed(b)
    BY <1>0, <2>5, RecordSteps
  <2>6. CASE Activate(b)
    BY <1>0, <2>6, RecordSteps, ActivateSteps
  <2>q. QED
    BY <2>1, <2>2, <2>3, <2>4, <2>5, <2>6 DEF StepIndexing
<1>3. UNCHANGED <<document, version, job, blocks, chunks>>
  BY DEF BeginIndexing, StepIndexing, BuildRequest, RetryRequest, CreateIndex, StartAttempt,
         ClearLeftovers, ReadPage, UpsertPage, IncreaseProgress, Activate, VectorsFail,
         MarkIndexFailed, DropVectors, StopIndexing, catalogVars
<1>4. current' \in SUBSET Uploads
  <2>1. current' \subseteq Versions'
    BY <1>2 DEF IndexInv, ActiveInv
  <2>q. QED
    BY <2>1 DEF Versions
<1>5. IngestInv' /\ RowsInv'
  BY <1>0, <1>3, <1>4, IngestRests
<1>q. QED
  BY <1>2, <1>5 DEF BaseInv

LEMMA BaseSteps ==
    ASSUME BaseInv, [Next]_vars
    PROVE  BaseInv' /\ KeepsActive
<1>0. IngestInv /\ RowsInv /\ IndexInv
  BY DEF BaseInv
<1>1. ASSUME IngestInv', RowsInv', RowsGrow, UNCHANGED current, UNCHANGED indexVars
      PROVE  BaseInv' /\ KeepsActive
  <2>1. IndexInv'
    BY <1>0, <1>1, IndexRests
  <2>2. UNCHANGED index
    BY <1>1 DEF indexVars
  <2>q. QED
    BY <1>1, <2>1, <2>2 DEF BaseInv, KeepsActive
<1>2. ASSUME NEW c \in Parsers, BeginIngest(c) \/ StepIngest(c) \/ StopIngest(c),
             UNCHANGED indexVars
      PROVE  BaseInv' /\ KeepsActive
  BY <1>0, <1>1, <1>2, IngestionSteps
<1>3. ASSUME NEW d \in Uploads, Delete(d), UNCHANGED indexVars
      PROVE  BaseInv' /\ KeepsActive
  <2>1. IngestInv' /\ RowsInv' /\ RowsKept
    BY <1>0, <1>3, DeleteSteps
  <2>2. RowsGrow /\ UNCHANGED current
    BY <1>3, <2>1 DEF Delete, RowsKept, RowsGrow, Versions
  <2>q. QED
    BY <1>1, <1>3, <2>1, <2>2
<1>4. CASE UNCHANGED vars
  <2>1. UNCHANGED <<document, version, current, job, blocks, chunks, ingestVars, indexVars>>
    BY <1>4 DEF vars, catalogVars
  <2>2. current' \in SUBSET Uploads
    BY <1>0, <2>1 DEF IngestInv, CatalogTypeOK
  <2>3. IngestInv' /\ RowsInv' /\ RowsKept
    BY <1>0, <2>1, <2>2, IngestRests
  <2>4. RowsGrow
    BY <2>3 DEF RowsKept, RowsGrow, Versions
  <2>q. QED
    BY <1>1, <2>1, <2>3, <2>4
<1>5. NextIngests \subseteq Parsers /\ NextIndexings \subseteq Indexers
  BY DEF NextIngests, NextIndexings, First, Parsers, Indexers
<1>6. ASSUME NEW b \in Indexers, BeginIndexing(b) \/ StepIndexing(b) \/ StopIndexing(b),
             UNCHANGED ingestVars
      PROVE  BaseInv' /\ KeepsActive
  BY <1>6, IndexingSteps
<1>q. QED
  BY <1>2, <1>3, <1>4, <1>5, <1>6 DEF Next

LEMMA BaseStarts == Init => BaseInv
<1> SUFFICES ASSUME CatalogInit, IngestInit, IndexInit
             PROVE  BaseInv
  BY DEF Init
<1>1. IngestInv
  BY IngestStarts
<1>2. current = {}
  BY DEF CatalogInit
<1>3. IndexInv
  BY <1>1, <1>2, IndexStarts
<1>4. RowsInv
  <2>1. PICK old \in SUBSET Legacy :
           /\ \E bytes \in [old -> Contents] :
                 version = [u \in Uploads |->
                    IF u \in old
                    THEN [doc |-> u, content |-> bytes[u], number |-> 1, status |-> "ready"]
                    ELSE None]
           /\ job = [u \in Uploads |-> IF u \in old THEN "succeeded" ELSE "absent"]
    BY DEF CatalogInit
  <2>2. PICK bytes \in [old -> Contents] :
           version = [u \in Uploads |->
              IF u \in old
              THEN [doc |-> u, content |-> bytes[u], number |-> 1, status |-> "ready"]
              ELSE None]
    BY <2>1
  <2>3. \A v \in Versions : /\ v \in Uploads
                            /\ v \in Legacy
                            /\ version[v].status = "ready"
                            /\ job[v] = "succeeded"
    BY <2>1, <2>2 DEF Versions
  <2>4. \A u \in Uploads : job[u] # "processing"
    BY <2>1
  <2>5. files = Versions /\ \A u \in Uploads : ingest[u].pc # "committing"
    BY DEF IngestInit, IngestAt, IngestOf, Parsers
  <2>q. QED
    BY <2>3, <2>4, <2>5 DEF RowsInv, RowsAreBacked, ParseHasWorker
<1>q. QED
  BY <1>1, <1>3, <1>4 DEF BaseInv

THEOREM BaseInvariant == Spec => []BaseInv
<1>1. Init => BaseInv
  BY BaseStarts
<1>2. BaseInv /\ [Next]_vars => BaseInv'
  BY BaseSteps
<1>q. QED
  BY <1>1, <1>2, PTL DEF Spec

-----------------------------------------------------------------------------
(* Parses *)

\* A call starts on a job it saw at rest.  As long as no parse of a version
\* overlaps another, the version that is parsed has no chunks and one call
\* works on it.  Chunks are written by the last step of a call, for one version.
ParseInv ==
    /\ \A c \in Parsers : ingest[c].pc = "starting" => ingest[c].saw # "processing"
    /\ \A c \in Parsers :
          (ingest[c].pc = "parsing" /\ ingest[c].version \notin reparsed) =>
             /\ chunks[ingest[c].version] = None
             /\ job[ingest[c].version] = "processing"
             /\ \A o \in Parsers :
                   (ingest[o].pc = "parsing" /\ ingest[o].version = ingest[c].version)
                   => o = c
    /\ \A v \in Uploads : chunks[v] # None => ingest[chunks[v]].pc = "closed"
    /\ \A v, w \in Uploads : (chunks[v] # None /\ chunks[v] = chunks[w]) => v = w

\* What ingestion may do to the chunks: a call that closed stays closed, and
\* the chunks of a version are written by a call that parses it.
ChunksMove ==
    /\ \A c \in Parsers : ingest[c].pc = "closed" => ingest'[c].pc = "closed"
    /\ reparsed \subseteq reparsed'
    /\ \A v \in Uploads :
          chunks'[v] # chunks[v] =>
             \E c \in Parsers : /\ chunks'[v] = c
                                /\ ingest[c].pc = "parsing"
                                /\ ingest[c].version = v
    /\ \A v \in Versions : v \in Versions' /\ version'[v].content = version[v].content

\* A call that moves without a parse that begins or ends.
LEMMA ParserMoves ==
    ASSUME IngestInv, ParseInv, NEW c \in Parsers, NEW s,
           ingest' = [ingest EXCEPT ![c] = s],
           ingest[c].pc # "closed",
           s.pc # "parsing",
           s.pc = "starting" => s.saw # "processing",
           \A v \in Versions : v \in Versions' /\ version'[v].content = version[v].content,
           \A v \in Versions : job'[v] = job[v],
           UNCHANGED <<chunks, reparsed>>
    PROVE  ParseInv' /\ ChunksMove
<1>1. /\ ingest'[c] = s
      /\ \A o \in Parsers \ {c} : ingest'[o] = ingest[o]
  BY DEF IngestInv, IngestTypeOK
<1>2. \A o \in Parsers : ingest[o].pc = "parsing" => ingest[o].version \in Versions
  BY DEF IngestInv, WorkOnVersions
<1>3. \A v \in Uploads : chunks[v] # None => chunks[v] \in Parsers
  BY DEF IngestInv, CatalogTypeOK
<1>q. QED
  BY <1>1, <1>2, <1>3 DEF ParseInv, ChunksMove

LEMMA ParseBegins ==
    ASSUME IngestInv, ParseInv, NEW c \in Parsers, StartParse(c)
    PROVE  ParseInv' /\ ChunksMove
<1> DEFINE v == ingest[c].version
           s == IngestOf("parsing", v, "absent")
<1>1. v \in Versions /\ v \in Uploads
  BY DEF StartParse, IngestInv, WorkOnVersions, Versions
<1>2. /\ ingest[c].pc = "starting"
      /\ job' = [job EXCEPT ![v] = "processing"]
      /\ ingest' = [ingest EXCEPT ![c] = s]
      /\ reparsed' = IF job[v] = ingest[c].saw /\ chunks[v] = None
                     THEN reparsed ELSE reparsed \cup {v}
      /\ UNCHANGED <<version, chunks>>
  BY DEF StartParse
<1>3. s.pc = "parsing" /\ s.version = v
  BY DEF IngestOf
<1>4. ingest[c].saw # "processing" /\ ingest[c].version = v
  BY <1>2 DEF ParseInv
<1> HIDE DEF s, v
<1>5. /\ ingest'[c] = s
      /\ \A o \in Parsers \ {c} : ingest'[o] = ingest[o]
      /\ job'[v] = "processing"
      /\ \A w \in Uploads \ {v} : job'[w] = job[w]
  BY <1>1, <1>2 DEF IngestInv, IngestTypeOK, CatalogTypeOK
<1>6. \A o \in Parsers : ingest[o].pc = "parsing" => ingest[o].version \in Uploads
  BY DEF IngestInv, WorkOnVersions, Versions
<1>7. \A w \in Uploads : chunks[w] # None => chunks[w] \in Parsers
  BY DEF IngestInv, CatalogTypeOK
<1>8. ASSUME v \notin reparsed'
      PROVE  /\ chunks[v] = None
             /\ \A o \in Parsers \ {c} : ~(ingest[o].pc = "parsing" /\ ingest[o].version = v)
  <2>1. job[v] # "processing" /\ chunks[v] = None /\ v \notin reparsed
    BY <1>2, <1>4, <1>8
  <2>q. QED
    BY <2>1 DEF ParseInv
<1>9. reparsed \subseteq reparsed'
  BY <1>2
<1>10. ASSUME NEW o \in Parsers, ingest'[o].pc = "parsing", ingest'[o].version \notin reparsed'
       PROVE  /\ chunks'[ingest'[o].version] = None
              /\ job'[ingest'[o].version] = "processing"
              /\ \A p \in Parsers :
                    (ingest'[p].pc = "parsing" /\ ingest'[p].version = ingest'[o].version)
                    => p = o
  <2>1. CASE o = c
    BY <1>2, <1>3, <1>5, <1>8, <1>10, <2>1
  <2>2. CASE o # c
    <3>1. ingest[o].pc = "parsing" /\ ingest[o].version \notin reparsed /\ ingest'[o] = ingest[o]
      BY <1>5, <1>9, <1>10, <2>2
    <3>2. ingest[o].version # v
      BY <1>8, <1>10, <2>2, <3>1
    <3>q. QED
      BY <1>2, <1>3, <1>5, <1>6, <3>1, <3>2 DEF ParseInv
  <2>q. QED
    BY <2>1, <2>2
<1>11. ParseInv'
  <2>1. \A o \in Parsers : ingest'[o].pc = "starting" => ingest'[o].saw # "processing"
    BY <1>3, <1>5 DEF ParseInv
  <2>2. \A w \in Uploads : chunks'[w] # None => ingest'[chunks'[w]].pc = "closed"
    BY <1>2, <1>5, <1>7 DEF ParseInv
  <2>3. \A w, x \in Uploads : (chunks'[w] # None /\ chunks'[w] = chunks'[x]) => w = x
    BY <1>2 DEF ParseInv
  <2>q. QED
    BY <1>10, <2>1, <2>2, <2>3 DEF ParseInv
<1>12. ChunksMove
  BY <1>2, <1>5, <1>9 DEF ChunksMove, Versions
<1>q. QED
  BY <1>11, <1>12

LEMMA ParseEnds ==
    ASSUME IngestInv, ParseInv, NEW c \in Parsers, ReplaceChunks(c) \/ MarkFailed(c)
    PROVE  ParseInv' /\ ChunksMove
<1> DEFINE v == ingest[c].version
           s == IngestAt("closed")
<1>1. v \in Versions /\ v \in Uploads
  BY DEF ReplaceChunks, MarkFailed, IngestInv, WorkOnVersions, Versions
<1>2. /\ ingest[c].pc = "parsing"
      /\ ingest' = [ingest EXCEPT ![c] = s]
      /\ \E state \in {"succeeded", "failed"} : job' = [job EXCEPT ![v] = state]
      /\ \E status \in {"ready", "failed"} : version' = [version EXCEPT ![v].status = status]
      /\ chunks' = [chunks EXCEPT ![v] = c] \/ UNCHANGED chunks
      /\ UNCHANGED reparsed
  BY DEF ReplaceChunks, MarkFailed, WriteChunks
<1>3. s.pc = "closed" /\ ingest[c].version = v
  BY DEF IngestAt, IngestOf
<1>4. RowsKept
  BY <1>1, <1>2, StatusWritten DEF IngestInv
<1> HIDE DEF s, v
<1>5. /\ ingest'[c] = s
      /\ \A o \in Parsers \ {c} : ingest'[o] = ingest[o]
      /\ \A w \in Uploads \ {v} : job'[w] = job[w] /\ chunks'[w] = chunks[w]
      /\ chunks'[v] \in {c, chunks[v]}
  BY <1>1, <1>2 DEF IngestInv, IngestTypeOK, CatalogTypeOK
<1>6. \A o \in Parsers : ingest[o].pc = "parsing" => ingest[o].version \in Uploads
  BY DEF IngestInv, WorkOnVersions, Versions
<1>7. \A w \in Uploads : chunks[w] # None => chunks[w] \in Parsers \ {c}
  BY <1>2 DEF IngestInv, CatalogTypeOK, ParseInv
<1>8. \A o \in Parsers \ {c} :
         (ingest[o].pc = "parsing" /\ ingest[o].version = v) => v \in reparsed
  BY <1>2, <1>3 DEF ParseInv
<1>9. ASSUME NEW o \in Parsers, ingest'[o].pc = "parsing", ingest'[o].version \notin reparsed'
       PROVE  /\ chunks'[ingest'[o].version] = None
              /\ job'[ingest'[o].version] = "processing"
              /\ \A p \in Parsers :
                    (ingest'[p].pc = "parsing" /\ ingest'[p].version = ingest'[o].version)
                    => p = o
  <2>1. /\ o # c
        /\ ingest'[o] = ingest[o]
        /\ ingest[o].version \in Uploads \ {v}
    BY <1>2, <1>3, <1>5, <1>6, <1>8, <1>9
  <2>2. \A p \in Parsers : ingest'[p].pc = "parsing" => ingest'[p] = ingest[p]
    BY <1>3, <1>5
  <2>q. QED
    BY <1>2, <1>5, <1>9, <2>1, <2>2 DEF ParseInv
<1>10. \A w \in Uploads : chunks'[w] # None => ingest'[chunks'[w]].pc = "closed"
  <2> SUFFICES ASSUME NEW w \in Uploads, chunks'[w] # None
               PROVE  ingest'[chunks'[w]].pc = "closed"
    OBVIOUS
  <2>1. CASE chunks'[w] = c
    BY <1>3, <1>5, <2>1
  <2>2. CASE chunks'[w] # c
    <3>1. chunks'[w] = chunks[w]
      BY <1>5, <2>2
    <3>q. QED
      BY <1>5, <1>7, <3>1 DEF ParseInv
  <2>q. QED
    BY <2>1, <2>2
<1>11. \A w, x \in Uploads : (chunks'[w] # None /\ chunks'[w] = chunks'[x]) => w = x
  BY <1>5, <1>7 DEF ParseInv
<1>12. ParseInv'
  <2>1. \A o \in Parsers : ingest'[o].pc = "starting" => ingest'[o].saw # "processing"
    BY <1>3, <1>5 DEF ParseInv
  <2>q. QED
    BY <1>9, <1>10, <1>11, <2>1 DEF ParseInv
<1>13. ChunksMove
  <2>1. \A w \in Versions : w \in Versions' /\ version'[w].content = version[w].content
    BY <1>4, KeptRows DEF RowsKept, Versions
  <2>2. \A w \in Uploads : chunks'[w] # chunks[w] => w = v /\ chunks'[w] = c
    BY <1>5
  <2>3. \A o \in Parsers : ingest[o].pc = "closed" => ingest'[o].pc = "closed"
    BY <1>2, <1>5
  <2>q. QED
    BY <1>2, <1>3, <2>1, <2>2, <2>3 DEF ChunksMove
<1>q. QED
  BY <1>12, <1>13

\* All steps of ingestion.
LEMMA ParseSteps ==
    ASSUME IngestInv, ParseInv,
           \/ \E c \in Parsers : BeginIngest(c) \/ StepIngest(c) \/ StopIngest(c)
           \/ \E d \in Uploads : Delete(d)
    PROVE  ParseInv' /\ ChunksMove
<1>1. UNCHANGED version =>
         \A v \in Versions : v \in Versions' /\ version'[v].content = version[v].content
  BY DEF Versions
<1>2. ASSUME NEW c \in Parsers, NEW s,
             UNCHANGED <<catalogVars, reparsed>>,
             ingest' = [ingest EXCEPT ![c] = s],
             ingest[c].pc # "closed",
             s.pc # "parsing",
             s.pc = "starting" => s.saw # "processing"
      PROVE  ParseInv' /\ ChunksMove
  <2>1. UNCHANGED <<version, job, chunks>>
    BY <1>2 DEF catalogVars
  <2>q. QED
    BY <1>1, <1>2, <2>1, ParserMoves
<1>3. ASSUME NEW c \in Parsers, StopIngest(c)
      PROVE  ParseInv' /\ ChunksMove
  <2> DEFINE s == IngestOf("stopped", ingest[c].version, "absent")
  <2>1. ingest' = [ingest EXCEPT ![c] = s] /\ s.pc = "stopped"
    BY <1>3 DEF StopIngest, IngestOf
  <2> HIDE DEF s
  <2>q. QED
    BY <1>2, <1>3, <2>1 DEF StopIngest
<1>4. ASSUME NEW c \in Parsers, NEW content \in Contents, NEW d \in Uploads,
             Upload(c, content, d)
      PROVE  ParseInv' /\ ChunksMove
  <2>1. PICK s : /\ ingest' = [ingest EXCEPT ![c] = s]
                 /\ s.pc # "parsing"
                 /\ s.pc = "starting" => s.saw # "processing"
    BY <1>4 DEF Upload, IngestOf, IngestAt
  <2>q. QED
    BY <1>2, <1>4, <2>1 DEF Upload
<1>5. ASSUME NEW c \in Parsers, NEW v \in Versions, Retry(c, v)
      PROVE  ParseInv' /\ ChunksMove
  <2> DEFINE s == IngestOf("starting", v, "failed")
  <2>1. ingest' = [ingest EXCEPT ![c] = s] /\ s.pc = "starting" /\ s.saw = "failed"
    BY <1>5 DEF Retry, IngestOf
  <2> HIDE DEF s
  <2>q. QED
    BY <1>2, <1>5, <2>1 DEF Retry
<1>6. ASSUME NEW c \in Uploads, CommitUpload(c)
      PROVE  ParseInv' /\ ChunksMove
  <2>1. c \in Parsers /\ ingest[c].pc = "committing" /\ c \notin Versions
    BY <1>6 DEF CommitUpload, Parsers, IngestInv, NumbersInv, Versions
  <2>2. PICK s \in {IngestAt("closed"), IngestOf("starting", c, "queued")} :
           ingest' = [ingest EXCEPT ![c] = s]
    BY <1>6 DEF CommitUpload
  <2>5. s.pc \in {"closed", "starting"} /\ s.saw # "processing"
    BY DEF IngestOf, IngestAt
  <2>3. /\ UNCHANGED <<chunks, reparsed>>
        /\ \A v \in Versions : job'[v] = job[v] /\ version'[v] = version[v]
    BY <1>6, <2>1 DEF CommitUpload, catalogVars, Versions, IngestInv, CatalogTypeOK
  <2>4. \A v \in Versions : v \in Versions' /\ version'[v].content = version[v].content
    BY <2>3 DEF Versions
  <2>q. QED
    BY <2>1, <2>2, <2>3, <2>4, <2>5, ParserMoves
<1>7. ASSUME NEW d \in Uploads, Delete(d)
      PROVE  ParseInv' /\ ChunksMove
  <2>1. UNCHANGED <<version, job, chunks, ingest, reparsed>>
    BY <1>7 DEF Delete, ingestVars
  <2>q. QED
    BY <1>1, <2>1 DEF ParseInv, ChunksMove
<1>q. QED
  BY <1>3, <1>4, <1>5, <1>6, <1>7, ParseBegins, ParseEnds DEF BeginIngest, StepIngest

-----------------------------------------------------------------------------
(* Pages and vectors *)

\* An index without a row has no job, and a call past its first transaction
\* has its row.
CallRowsInv ==
    /\ \A i \in Indexes : index[i].status = "absent" => index[i].job = "absent"
    /\ \A b \in Indexers : build[b].pc \notin {"idle", "creating", "closed", "stopped"} =>
          index[build[b].index].status # "absent"

\* The ids of a page were written by a parse that is over, and for no other
\* version than the one the call indexes.
PagesInv ==
    \A b \in Indexers : \A k \in build[b].page :
       /\ ingest[k.writer].pc = "closed"
       /\ \A v \in Uploads : chunks[v] = k.writer => v = build[b].index[1]

\* An index that no overlap has touched, and the only one of its version.
Sole(i) ==
    /\ i \notin overlapped
    /\ i[1] \notin reparsed
    /\ \A j \in Indexes : (j[1] = i[1] /\ j # i) => index[j].status = "absent"

\* The chunks whose vectors an index holds.
Held(i) == {k \in ChunkIds : vectors[k] = i}

\* The last child of the page that begins after the n-th.
PageEnd(v, n) == IF n + BatchSize <= ChildCount(v) THEN n + BatchSize ELSE ChildCount(v)

\* What an attempt knows that nothing overlaps: the count of its index is the
\* last ordinal it counted, and the index holds the children up to there, and
\* the page that was upserted and not counted yet.
Progress(b, i) ==
    LET v == i[1]
        n == build[b].after IN
    build[b].pc \in {"clearing", "reading", "upserting", "counting", "activating"} =>
       /\ chunks[v] # None
       /\ index[i].total = ChildCount(v) /\ index[i].indexed = n /\ n <= ChildCount(v)
       /\ build[b].pc = "clearing" => n = 0
       /\ build[b].pc \in {"reading", "upserting", "activating"} => Held(i) = ChildIds(v, 1, n)
       /\ build[b].pc \in {"upserting", "counting"} =>
             build[b].page = ChildIds(v, n + 1, PageEnd(v, n))
       /\ build[b].pc = "counting" => Held(i) = ChildIds(v, 1, PageEnd(v, n))

VectorsInv ==
    /\ \A b \in Attempts, i \in Indexes :
          (build[b].index = i /\ Sole(i)) => Progress(b, i)
    /\ \A i \in Indexes : (index[i].status = "active" /\ Sole(i)) =>
          chunks[i[1]] # None /\ Held(i) = AllChildIds(i[1])

PublishInv == ParseInv /\ CallRowsInv /\ PagesInv /\ VectorsInv

\* Pages follow each other without a gap, and each is as large as the progress
\* it makes.
LEMMA PagesJoin ==
    ASSUME CatalogTypeOK, NEW v \in Versions, NEW n \in Nat, n <= ChildCount(v)
    PROVE  /\ ChildCount(v) \in Nat
           /\ PageEnd(v, n) \in Nat
           /\ n <= PageEnd(v, n) /\ PageEnd(v, n) <= ChildCount(v)
           /\ ChildIds(v, 1, 0) = {}
           /\ ChildIds(v, n + 1, n + BatchSize) = ChildIds(v, n + 1, PageEnd(v, n))
           /\ ChildIds(v, 1, n) \cup ChildIds(v, n + 1, PageEnd(v, n))
              = ChildIds(v, 1, PageEnd(v, n))
           /\ Cardinality(ChildIds(v, n + 1, PageEnd(v, n))) = PageEnd(v, n) - n
<1> DEFINE N == ChildCount(v)
           e == PageEnd(v, n)
           id(m) == [writer |-> chunks[v], ordinal |-> m]
<1>1. N \in Nat /\ BatchSize \in Nat \ {0}
  BY ChildCountTyped, IndexingAssumption
<1>2. e \in Nat /\ n <= e /\ e <= N /\ (e = n + BatchSize \/ (e = N /\ N < n + BatchSize))
  BY <1>1 DEF PageEnd
<1>3. \A f, l : ChildIds(v, f, l) = {id(m) : m \in {o \in f..l : o <= N}}
  BY DEF ChildIds
<1> HIDE DEF N, e
<1>4. {o \in 1..0 : o <= N} = {}
  OBVIOUS
<1>5. {o \in (n + 1)..(n + BatchSize) : o <= N} = (n + 1)..e
  BY <1>1, <1>2
<1>6. /\ {o \in (n + 1)..e : o <= N} = (n + 1)..e
      /\ {o \in 1..n : o <= N} = 1..n
      /\ {o \in 1..e : o <= N} = 1..e
  BY <1>1, <1>2
<1>7. (1..n) \cup ((n + 1)..e) = 1..e
  BY <1>1, <1>2
<1>8. Cardinality({id(m) : m \in (n + 1)..e}) = e - n
  <2> DEFINE S == (n + 1)..e
             T == {id(m) : m \in S}
             g == [m \in S |-> id(m)]
  <2>1. g \in Surjection(S, T) /\ g \in Injection(S, T)
    <3>1. g \in [S -> T] /\ \A k \in T : \E m \in S : g[m] = k
      OBVIOUS
    <3>2. \A m, o \in S : g[m] = g[o] => m = o
      OBVIOUS
    <3>q. QED
      BY <3>1, <3>2 DEF Injection, Surjection, IsInjective
  <2>2. IsFiniteSet(S) /\ Cardinality(S) = IF n + 1 > e THEN 0 ELSE e - (n + 1) + 1
    BY <1>2, FS_Interval
  <2> HIDE DEF S, T, g
  <2>3. Cardinality(T) = Cardinality(S)
    BY <2>1, <2>2, FS_Surjection
  <2>4. Cardinality(S) = e - n
    BY <1>2, <2>2
  <2>q. QED
    BY <2>3, <2>4 DEF S, T
<1>9. /\ ChildIds(v, 1, 0) = {}
      /\ ChildIds(v, n + 1, n + BatchSize) = ChildIds(v, n + 1, e)
      /\ ChildIds(v, 1, n) \cup ChildIds(v, n + 1, e) = ChildIds(v, 1, e)
      /\ Cardinality(ChildIds(v, n + 1, e)) = e - n
  <2>1. ChildIds(v, 1, 0) = {}
    BY <1>3, <1>4
  <2>2. /\ ChildIds(v, n + 1, n + BatchSize) = {id(m) : m \in (n + 1)..e}
        /\ ChildIds(v, n + 1, e) = {id(m) : m \in (n + 1)..e}
    BY <1>3, <1>5, <1>6
  <2>3. ChildIds(v, 1, n) = {id(m) : m \in 1..n} /\ ChildIds(v, 1, e) = {id(m) : m \in 1..e}
    BY <1>3, <1>6
  <2> HIDE DEF id
  <2>4. {id(m) : m \in 1..n} \cup {id(m) : m \in (n + 1)..e} = {id(m) : m \in 1..e}
    BY <1>7
  <2>q. QED
    BY <1>8, <2>1, <2>2, <2>3, <2>4
<1>q. QED
  BY <1>1, <1>2, <1>9 DEF N, e

\* A child count, the ids and the end of a page depend on rows of ingestion only.
LEMMA SameChildren ==
    ASSUME NEW v, chunks'[v] = chunks[v], version'[v].content = version[v].content
    PROVE  /\ ChildCount(v)' = ChildCount(v)
           /\ \A f, l : ChildIds(v, f, l)' = ChildIds(v, f, l)
           /\ \A n : PageEnd(v, n)' = PageEnd(v, n)
           /\ AllChildIds(v)' = AllChildIds(v)
<1>1. ChildCount(v)' = ChildCount(v)
  BY DEF ChildCount
<1>2. \A f, l : ChildIds(v, f, l)' = ChildIds(v, f, l)
  BY <1>1 DEF ChildIds
<1>q. QED
  BY <1>1, <1>2 DEF PageEnd, AllChildIds

\* Ingestion leaves the chunks of an index alone that no parse overlaps.
LEMMA PublishRests ==
    ASSUME BaseInv, PublishInv, ParseInv', ChunksMove, UNCHANGED indexVars
    PROVE  PublishInv'
<1>0. UNCHANGED <<index, vectors, build, overlapped>>
  BY DEF indexVars
<1>1. CallRowsInv'
  BY <1>0 DEF PublishInv, CallRowsInv
<1>2. PagesInv'
  <2> SUFFICES ASSUME NEW b \in Indexers, NEW k \in build[b].page
               PROVE  /\ ingest'[k.writer].pc = "closed"
                      /\ \A v \in Uploads : chunks'[v] = k.writer => v = build[b].index[1]
    BY <1>0 DEF PagesInv
  <2>1. /\ ingest[k.writer].pc = "closed"
        /\ \A v \in Uploads : chunks[v] = k.writer => v = build[b].index[1]
    BY DEF PublishInv, PagesInv
  <2>2. k.writer \in Parsers
    BY DEF BaseInv, IndexInv, CallsInv, IndexTypeOK, Build, ChunkIds
  <2>3. \A v \in Uploads : chunks'[v] = k.writer => chunks[v] = k.writer
    BY <2>1 DEF ChunksMove
  <2>q. QED
    BY <2>1, <2>2, <2>3 DEF ChunksMove
<1>3. \A i \in Indexes : Sole(i)' => Sole(i) /\ i[1] \notin reparsed'
  BY <1>0 DEF Sole, ChunksMove
<1>4. ASSUME NEW i \in Indexes, Sole(i)', i[1] \in Versions, chunks[i[1]] # None
      PROVE  /\ chunks'[i[1]] = chunks[i[1]]
             /\ version'[i[1]].content = version[i[1]].content
  <2>1. i[1] \in Uploads
    BY DEF Indexes
  <2>2. i[1] \notin reparsed
    BY <1>3, <1>4 DEF Sole
  <2>q. QED
    BY <1>4, <2>1, <2>2 DEF ChunksMove, PublishInv, ParseInv
<1>5. \A i \in Indexes : Held(i)' = Held(i)
  BY <1>0 DEF Held
<1>6. ASSUME NEW b \in Attempts', NEW i \in Indexes, build'[b].index = i, Sole(i)'
      PROVE  Progress(b, i)'
  <2>1. b \in Attempts /\ build'[b] = build[b] /\ i[1] \in Versions
    BY <1>0, <1>6 DEF Attempts, BaseInv, IndexInv, CallsInv
  <2>2. Progress(b, i)
    BY <1>3, <1>6, <2>1 DEF PublishInv, VectorsInv
  <2>3. CASE build[b].pc \in {"clearing", "reading", "upserting", "counting", "activating"}
    <3>1. chunks[i[1]] # None
      BY <2>2, <2>3 DEF Progress
    <3>2. /\ chunks'[i[1]] = chunks[i[1]]
          /\ version'[i[1]].content = version[i[1]].content
      BY <1>4, <1>6, <2>1, <3>1
    <3>3. /\ ChildCount(i[1])' = ChildCount(i[1])
          /\ \A f, l : ChildIds(i[1], f, l)' = ChildIds(i[1], f, l)
          /\ \A n : PageEnd(i[1], n)' = PageEnd(i[1], n)
      BY <3>2, SameChildren
    <3>q. QED
      BY <1>0, <1>5, <2>2, <2>3, <3>2, <3>3 DEF Progress
  <2>4. CASE build[b].pc \notin {"clearing", "reading", "upserting", "counting", "activating"}
    BY <1>0, <2>4 DEF Progress
  <2>q. QED
    BY <2>3, <2>4
<1>7. ASSUME NEW i \in Indexes, index'[i].status = "active", Sole(i)'
      PROVE  chunks'[i[1]] # None /\ Held(i)' = AllChildIds(i[1])'
  <2>1. i[1] \in Versions /\ index[i].status = "active"
    BY <1>0, <1>7 DEF BaseInv, IndexInv, CallsInv
  <2>2. chunks[i[1]] # None /\ Held(i) = AllChildIds(i[1])
    BY <1>3, <1>7, <2>1 DEF PublishInv, VectorsInv
  <2>3. /\ chunks'[i[1]] = chunks[i[1]]
        /\ version'[i[1]].content = version[i[1]].content
    BY <1>4, <1>7, <2>1, <2>2
  <2>q. QED
    BY <1>5, <2>2, <2>3, SameChildren
<1>8. VectorsInv'
  BY <1>6, <1>7 DEF VectorsInv
<1>q. QED
  BY <1>1, <1>2, <1>8 DEF PublishInv

\* What a step of a call that works on an index may do to the rest: the rows
\* and the vectors of other indexes that nothing overlaps stay, and whatever it
\* writes for its own index it writes during an attempt.
OthersStay(b, i) ==
    /\ \A o \in Indexers \ {b} : build'[o] = build[o]
    /\ overlapped \subseteq overlapped'
    /\ UNCHANGED <<version, job, chunks, ingestVars>>
    /\ \A j \in Indexes : index'[j].status = "absent" => index'[j] = index[j]
    /\ \A j \in Indexes \ {i} :
          /\ index'[j].total = index[j].total
          /\ index'[j].indexed = index[j].indexed
          /\ index'[j].status = "active" => index[j].status = "active"
    /\ \A j \in Indexes \ {i} :
          (Sole(j) /\ chunks[j[1]] # None /\ Held(j) \subseteq AllChildIds(j[1]))
          => Held(j)' = Held(j)
    /\ \/ b \in Attempts /\ build[b].index = i
       \/ b \in Attempts' /\ build'[b].index = i
       \/ index[i].status = "absent"
       \/ UNCHANGED <<index, vectors>>

\* The call's own page, row and progress after its step.
OwnKept(b, i) ==
    /\ build'[b].pc \notin {"idle", "creating", "closed", "stopped"} =>
          index'[i].status # "absent" /\ build'[b].index = i
    /\ \A k \in build'[b].page :
          \/ k \in build[b].page /\ build'[b].index = build[b].index
          \/ k.writer = chunks[i[1]] /\ chunks[i[1]] # None /\ build'[b].index = i
    /\ (b \in Attempts' /\ Sole(i)') => Progress(b, i)'
    /\ (index'[i].status = "active" /\ Sole(i)') =>
          chunks[i[1]] # None /\ Held(i)' = AllChildIds(i[1])

LEMMA SoleWas ==
    ASSUME NEW b, NEW i, OthersStay(b, i), NEW j \in Indexes, Sole(j)'
    PROVE  Sole(j) /\ j \notin overlapped'
<1>1. /\ overlapped \subseteq overlapped'
      /\ reparsed' = reparsed
      /\ \A l \in Indexes : index'[l].status = "absent" => index'[l] = index[l]
  BY DEF OthersStay, ingestVars
<1>q. QED
  BY <1>1 DEF Sole

\* Part of the children is held.
LEMMA HeldSoFar ==
    ASSUME IngestInv, NEW j \in Indexes, j[1] \in Versions, NEW b, Progress(b, j),
           build[b].after \in Nat,
           build[b].pc \in {"reading", "upserting", "counting", "activating"}
    PROVE  chunks[j[1]] # None /\ Held(j) \subseteq AllChildIds(j[1])
<1> DEFINE n == build[b].after
<1>1. CatalogTypeOK /\ n <= ChildCount(j[1]) /\ chunks[j[1]] # None /\ n \in Nat
  BY DEF Progress, IngestInv
<1>2. /\ ChildCount(j[1]) \in Nat
      /\ PageEnd(j[1], n) \in Nat
      /\ PageEnd(j[1], n) <= ChildCount(j[1])
  BY <1>1, PagesJoin
<1>3. Held(j) = ChildIds(j[1], 1, n) \/ Held(j) = ChildIds(j[1], 1, PageEnd(j[1], n))
  BY DEF Progress
<1> HIDE DEF n
<1>4. \A e \in Nat : ChildIds(j[1], 1, e) \subseteq ChildIds(j[1], 1, ChildCount(j[1]))
  BY <1>2 DEF ChildIds
<1>q. QED
  BY <1>1, <1>2, <1>3, <1>4 DEF AllChildIds

\* What the invariant needs of a step of indexing.
LEMMA PublishMoves ==
    ASSUME BaseInv, BaseInv', PublishInv, NEW b \in Indexers, NEW i \in Indexes,
           OthersStay(b, i), OwnKept(b, i)
    PROVE  PublishInv'
<1>1. /\ \A o \in Indexers \ {b} : build'[o] = build[o]
      /\ UNCHANGED <<version, job, chunks, files, ingest, reparsed>>
      /\ \A j \in Indexes : index'[j].status = "absent" => index'[j] = index[j]
  BY DEF OthersStay, ingestVars
<1>2. ParseInv'
  BY <1>1 DEF PublishInv, ParseInv
<1>t. /\ IngestInv
      /\ \A o \in Indexers : build[o].pc \notin {"idle", "closed"} =>
            /\ build[o].index \in Indexes
            /\ build[o].index[1] \in Versions
            /\ build[o].after \in Nat
  BY DEF BaseInv, IndexInv, CallsInv, IndexTypeOK, Build
<1>3. CallRowsInv'
  <2>1. \A j \in Indexes : index'[j].status = "absent" => index'[j].job = "absent"
    BY <1>1 DEF PublishInv, CallRowsInv
  <2>2. ASSUME NEW o \in Indexers, build'[o].pc \notin {"idle", "creating", "closed", "stopped"}
        PROVE  index'[build'[o].index].status # "absent"
    <3>1. CASE o = b
      BY <2>2, <3>1 DEF OwnKept
    <3>2. CASE o # b
      BY <1>1, <1>t, <2>2, <3>2 DEF PublishInv, CallRowsInv
    <3>q. QED
      BY <3>1, <3>2
  <2>q. QED
    BY <2>1, <2>2 DEF CallRowsInv
<1>4. PagesInv'
  <2> SUFFICES ASSUME NEW o \in Indexers, NEW k \in build'[o].page
               PROVE  /\ ingest[k.writer].pc = "closed"
                      /\ \A v \in Uploads : chunks[v] = k.writer => v = build'[o].index[1]
    BY <1>1 DEF PagesInv
  <2>1. CASE k \in build[o].page /\ build'[o].index = build[o].index
    BY <2>1 DEF PublishInv, PagesInv
  <2>2. CASE ~(k \in build[o].page /\ build'[o].index = build[o].index)
    <3>1. o = b /\ k.writer = chunks[i[1]] /\ chunks[i[1]] # None /\ build'[o].index = i
      BY <1>1, <2>2 DEF OwnKept
    <3>2. i[1] \in Uploads
      BY DEF Indexes
    <3>q. QED
      BY <3>1, <3>2 DEF PublishInv, ParseInv
  <2>q. QED
    BY <2>1, <2>2
<1>5. \A j \in Indexes : Sole(j)' => Sole(j) /\ j \notin overlapped'
  BY SoleWas
<1>6. \A v : /\ ChildCount(v)' = ChildCount(v)
             /\ \A f, l : ChildIds(v, f, l)' = ChildIds(v, f, l)
             /\ \A n : PageEnd(v, n)' = PageEnd(v, n)
             /\ AllChildIds(v)' = AllChildIds(v)
  BY <1>1, SameChildren
<1>7. ASSUME NEW o \in Attempts', NEW j \in Indexes, build'[o].index = j, Sole(j)'
      PROVE  Progress(o, j)'
  <2>0. o \in Indexers
    BY DEF Attempts
  <2>1. CASE o = b
    <3>1. build'[b].pc \notin {"idle", "creating", "closed", "stopped"}
      BY <2>1 DEF Attempts
    <3>2. j = i
      BY <1>7, <2>1, <3>1 DEF OwnKept
    <3>q. QED
      BY <1>7, <2>1, <3>2 DEF OwnKept
  <2>2. CASE o # b
    <3>1. build'[o] = build[o] /\ o \in Attempts
      BY <1>1, <2>0, <2>2 DEF Attempts
    <3>2. /\ Sole(j) /\ j \notin overlapped' /\ j \notin overlapped
          /\ Progress(o, j)
          /\ build[o].index = j /\ j[1] \in Versions /\ build[o].after \in Nat
          /\ index[j].status # "absent"
      BY <1>5, <1>7, <1>t, <3>1 DEF PublishInv, VectorsInv, CallRowsInv, Attempts, Sole
    <3>3. CASE UNCHANGED <<index, vectors>>
      BY <1>1, <1>6, <3>1, <3>2, <3>3 DEF Progress, Held
    <3>4. CASE j # i
      <4>1. index'[j].total = index[j].total /\ index'[j].indexed = index[j].indexed
        BY <3>4 DEF OthersStay
      <4>2. CASE build[o].pc \in {"reading", "upserting", "counting", "activating"}
        <5>1. Held(j)' = Held(j)
          BY <1>t, <3>2, <3>4, <4>2, HeldSoFar DEF OthersStay
        <5>q. QED
          BY <1>1, <1>6, <3>1, <3>2, <4>1, <4>2, <5>1 DEF Progress
      <4>3. CASE build[o].pc = "clearing"
        BY <1>1, <1>6, <3>1, <3>2, <4>1, <4>3 DEF Progress
      <4>4. CASE build[o].pc \in {"failing", "dropping"}
        BY <3>1, <4>4 DEF Progress
      <4>q. QED
        BY <3>1, <4>2, <4>3, <4>4 DEF Attempts
    <3>5. CASE j = i /\ ~UNCHANGED <<index, vectors>>
      <4>1. CASE b \in Attempts /\ build[b].index = i
        BY <2>2, <3>1, <3>2, <3>5, <4>1 DEF BaseInv, IndexInv, AttemptsInv
      <4>2. CASE b \in Attempts' /\ build'[b].index = i
        BY <1>7, <2>2, <3>2, <3>5, <4>2 DEF BaseInv, IndexInv, AttemptsInv
      <4>q. QED
        BY <3>2, <3>5, <4>1, <4>2 DEF OthersStay
    <3>q. QED
      BY <3>3, <3>4, <3>5
  <2>q. QED
    BY <2>1, <2>2
<1>8. ASSUME NEW j \in Indexes, index'[j].status = "active", Sole(j)'
      PROVE  chunks'[j[1]] # None /\ Held(j)' = AllChildIds(j[1])'
  <2>1. CASE j = i
    BY <1>1, <1>6, <1>8, <2>1 DEF OwnKept
  <2>2. CASE j # i
    <3>1. Sole(j) /\ index[j].status = "active"
      BY <1>5, <1>8, <2>2 DEF OthersStay
    <3>2. chunks[j[1]] # None /\ Held(j) = AllChildIds(j[1])
      BY <3>1 DEF PublishInv, VectorsInv
    <3>3. Held(j)' = Held(j)
      BY <2>2, <3>1, <3>2 DEF OthersStay
    <3>q. QED
      BY <1>1, <1>6, <3>2, <3>3
  <2>q. QED
    BY <2>1, <2>2
<1>9. VectorsInv'
  BY <1>7, <1>8 DEF VectorsInv
<1>q. QED
  BY <1>2, <1>3, <1>4, <1>9 DEF PublishInv

\* A step that writes neither rows nor vectors.
LEMMA OnlyCallMoves ==
    ASSUME PublishInv, NEW b \in Indexers, NEW i \in Indexes,
           UNCHANGED <<version, job, chunks, ingestVars, index, vectors, overlapped>>,
           \A o \in Indexers \ {b} : build'[o] = build[o]
    PROVE  /\ OthersStay(b, i)
           /\ (index'[i].status = "active" /\ Sole(i)') =>
                 chunks[i[1]] # None /\ Held(i)' = AllChildIds(i[1])
<1>1. OthersStay(b, i)
  BY DEF OthersStay, Held
<1>2. Sole(i)' => Sole(i)
  BY <1>1, SoleWas
<1>q. QED
  BY <1>1, <1>2 DEF PublishInv, VectorsInv, Held

LEMMA PublishRequests ==
    ASSUME BaseInv, BaseInv', PublishInv, NEW b \in Indexers, UNCHANGED ingestVars,
           BeginIndexing(b)
    PROVE  PublishInv'
<1>1. PICK i \in Indexes : BuildRequest(b, i) \/ RetryRequest(b, i)
  BY DEF BeginIndexing
<1>2. PICK s \in {BuildOf("creating", i, "absent"), BuildOf("starting", i, "failed")} :
         /\ build' = [build EXCEPT ![b] = s]
         /\ s.pc = "creating" \/ (s.pc = "starting" /\ index[i].job = "failed")
  BY <1>1 DEF BuildRequest, RetryRequest, BuildOf
<1>3. s.index = i /\ s.page = {}
  BY DEF BuildOf
<1>4. UNCHANGED <<version, job, chunks, index, vectors, overlapped>>
  BY <1>1 DEF BuildRequest, RetryRequest, catalogVars
<1>5. build'[b] = s /\ \A o \in Indexers \ {b} : build'[o] = build[o]
  BY <1>2 DEF BaseInv, IndexInv, CallsInv, IndexTypeOK
<1>6. s.pc = "starting" => index'[i].status # "absent"
  BY <1>2, <1>4 DEF PublishInv, CallRowsInv
<1>7. b \notin Attempts'
  BY <1>2, <1>5 DEF Attempts
<1>8. OthersStay(b, i) /\ OwnKept(b, i)
  BY <1>2, <1>3, <1>4, <1>5, <1>6, <1>7, OnlyCallMoves DEF OwnKept
<1>q. QED
  BY <1>8, PublishMoves

LEMMA PublishCreates ==
    ASSUME BaseInv, BaseInv', PublishInv, NEW b \in Indexers, UNCHANGED ingestVars,
           CreateIndex(b)
    PROVE  PublishInv'
<1>0. PICK i \in Indexes : build[b].index = i
  BY WorksOn DEF CreateIndex, BaseInv, IndexInv
<1>1. UNCHANGED <<version, job, chunks, vectors, overlapped>>
  BY DEF CreateIndex, catalogVars
<1>2. CASE index[i].status # "absent"
  <2>1. /\ build' = [build EXCEPT ![b] = BuildAt("closed")]
        /\ UNCHANGED index
    BY <1>0, <1>2 DEF CreateIndex
  <2>2. build'[b] = BuildAt("closed") /\ \A o \in Indexers \ {b} : build'[o] = build[o]
    BY <2>1 DEF BaseInv, IndexInv, CallsInv, IndexTypeOK
  <2>3. build'[b].pc = "closed" /\ build'[b].page = {}
    BY <2>2 DEF BuildAt, BuildOf
  <2>4. b \notin Attempts'
    BY <2>3 DEF Attempts
  <2>5. OthersStay(b, i) /\ OwnKept(b, i)
    BY <1>1, <2>1, <2>2, <2>3, <2>4, OnlyCallMoves DEF OwnKept
  <2>q. QED
    BY <2>5, PublishMoves
<1>3. CASE index[i].status = "absent"
  <2>1. /\ build' = [build EXCEPT ![b] = BuildOf("starting", i, "queued")]
        /\ index' = [index EXCEPT ![i] = Row(i, "building", "queued")]
    BY <1>0, <1>3 DEF CreateIndex
  <2>2. /\ build'[b] = BuildOf("starting", i, "queued")
        /\ \A o \in Indexers \ {b} : build'[o] = build[o]
        /\ index'[i] = Row(i, "building", "queued")
        /\ \A j \in Indexes \ {i} : index'[j] = index[j]
    BY <2>1 DEF BaseInv, IndexInv, CallsInv, IndexTypeOK
  <2>3. /\ build'[b].pc = "starting" /\ build'[b].page = {} /\ build'[b].index = i
        /\ index'[i].status = "building"
    BY <2>2 DEF BuildOf, Row
  <2>4. b \notin Attempts'
    BY <2>3 DEF Attempts
  <2>5. OthersStay(b, i)
    BY <1>1, <1>3, <2>2, <2>3 DEF OthersStay, Held
  <2>6. OwnKept(b, i)
    BY <2>3, <2>4 DEF OwnKept
  <2>q. QED
    BY <2>5, <2>6, PublishMoves
<1>q. QED
  BY <1>2, <1>3

LEMMA PublishStarts ==
    ASSUME BaseInv, BaseInv', PublishInv, NEW b \in Indexers, UNCHANGED ingestVars,
           StartAttempt(b)
    PROVE  PublishInv'
<1>0. PICK i \in Indexes : build[b].index = i /\ i[1] \in Versions
  BY WorksOn DEF StartAttempt, BaseInv, IndexInv
<1>1. /\ UNCHANGED <<version, job, chunks, vectors>>
      /\ overlapped \subseteq overlapped'
      /\ build[b].pc = "starting"
      /\ index[i].status # "absent"
  BY <1>0 DEF StartAttempt, catalogVars, PublishInv, CallRowsInv
<1>2. PICK pc \in {"failing", "clearing"} :
         /\ build' = [build EXCEPT ![b] = BuildOf(pc, i, "absent")]
         /\ pc = "clearing" => ChildCount(i[1]) # 0 /\ SourceReady(i)
         /\ \/ UNCHANGED index
            \/ index' = [index EXCEPT
                  ![i] = [status |-> "building", job |-> "processing",
                          total |-> ChildCount(i[1]), indexed |-> 0]]
         /\ pc = "clearing" =>
               index' = [index EXCEPT
                  ![i] = [status |-> "building", job |-> "processing",
                          total |-> ChildCount(i[1]), indexed |-> 0]]
  BY <1>0 DEF StartAttempt
<1>3. /\ build'[b] = BuildOf(pc, i, "absent")
      /\ \A o \in Indexers \ {b} : build'[o] = build[o]
      /\ index'[i] = index[i] \/ index'[i].status = "building"
      /\ pc = "clearing" => index'[i].total = ChildCount(i[1]) /\ index'[i].indexed = 0
      /\ \A j \in Indexes \ {i} : index'[j] = index[j]
  BY <1>2 DEF BaseInv, IndexInv, CallsInv, IndexTypeOK
<1>4. /\ build'[b].pc = pc /\ build'[b].page = {} /\ build'[b].index = i
      /\ build'[b].after = 0
  BY <1>3 DEF BuildOf
<1>5. b \in Attempts'
  BY <1>4 DEF Attempts
<1>6. OthersStay(b, i)
  BY <1>1, <1>3, <1>4, <1>5 DEF OthersStay, Held
<1>7. pc = "clearing" => /\ chunks[i[1]] # None
                         /\ ChildCount(i[1])' = ChildCount(i[1])
                         /\ 0 <= ChildCount(i[1])
  BY <1>0, <1>1, <1>2, ChildCountTyped DEF ChildCount, BaseInv, IngestInv
<1>8. Progress(b, i)'
  BY <1>1, <1>3, <1>4, <1>7 DEF Progress
<1>9. Sole(i)' => index'[i].status # "active"
  BY <1>4, <1>5 DEF Sole, BaseInv, IndexInv, AttemptsInv
<1>10. OwnKept(b, i)
  BY <1>1, <1>3, <1>4, <1>8, <1>9 DEF OwnKept
<1>q. QED
  BY <1>6, <1>10, PublishMoves

\* What is known of an attempt and its index.
LEMMA AttemptKnows ==
    ASSUME BaseInv, PublishInv, NEW b \in Attempts
    PROVE  /\ b \in Indexers
           /\ CatalogTypeOK
           /\ build \in [Indexers -> Build] /\ build[b] \in Build
           /\ index \in [Indexes -> Index]
           /\ build[b].after \in Nat
           /\ \E i \in Indexes :
                 /\ build[b].index = i
                 /\ i[1] \in Versions
                 /\ index[i].status # "absent"
                 /\ Sole(i) => Progress(b, i) /\ index[i].status # "active"
<1>1. b \in Indexers /\ build[b].pc \notin {"idle", "creating", "closed", "stopped"}
  BY DEF Attempts
<1>2. CallsInv /\ AttemptsInv /\ IngestInv
  BY DEF BaseInv, IndexInv
<1>3. PICK i \in Indexes : build[b].index = i
  BY <1>1, <1>2, WorksOn
<1>4. i[1] \in Versions /\ build[b].after \in Nat /\ build[b] \in Build
  BY <1>1, <1>2, <1>3, WorksOn
<1>5. index[i].status # "absent" /\ (Sole(i) => Progress(b, i))
  BY <1>1, <1>3 DEF PublishInv, CallRowsInv, VectorsInv
<1>6. Sole(i) => index[i].status # "active"
  BY <1>2, <1>3 DEF AttemptsInv, Sole
<1>q. QED
  BY <1>1, <1>2, <1>3, <1>4, <1>5, <1>6 DEF IngestInv, CallsInv, IndexTypeOK

\* An attempt that fails, writes its failure, or ends keeps no progress.
LEMMA PublishGivesUp ==
    ASSUME BaseInv, BaseInv', PublishInv, NEW b \in Indexers, UNCHANGED ingestVars,
           VectorsFail(b) \/ MarkIndexFailed(b) \/ DropVectors(b)
    PROVE  PublishInv'
<1>1. b \in Attempts
  BY DEF VectorsFail, MarkIndexFailed, DropVectors, Attempts
<1>2. PICK i \in Indexes :
         /\ build[b].index = i
         /\ index[i].status # "absent"
         /\ Sole(i) => index[i].status # "active"
  BY <1>1, AttemptKnows
<1>3. build \in [Indexers -> Build] /\ index \in [Indexes -> Index]
  BY <1>1, AttemptKnows
<1>4. PICK s \in {BuildOf("failing", i, "absent"), BuildOf("dropping", i, "absent"),
                  BuildAt("closed")} :
         build' = [build EXCEPT ![b] = s]
  BY <1>2 DEF VectorsFail, MarkIndexFailed, DropVectors, AfterError
<1>5. /\ s.pc \in {"failing", "dropping", "closed"}
      /\ s.pc # "closed" => s.index = i
      /\ s.page = {}
  BY DEF BuildOf, BuildAt
<1>6. build'[b] = s /\ \A o \in Indexers \ {b} : build'[o] = build[o]
  BY <1>3, <1>4
<1>7. UNCHANGED <<version, job, chunks, overlapped>>
  BY DEF VectorsFail, MarkIndexFailed, DropVectors, catalogVars
<1>8. /\ \A j \in Indexes \ {i} : index'[j] = index[j]
      /\ index'[i].status \in {index[i].status, "failed"}
  BY <1>2, <1>3 DEF VectorsFail, MarkIndexFailed, DropVectors, Row
<1>9. \A j \in Indexes \ {i} : Held(j)' = Held(j)
  <2>1. UNCHANGED vectors \/ vectors' = WithoutVectorsOf(i)
    BY <1>2 DEF VectorsFail, MarkIndexFailed, DropVectors
  <2>q. QED
    BY <2>1, NoneIsNoIndex DEF WithoutVectorsOf, Held
<1>10. OthersStay(b, i)
  BY <1>1, <1>2, <1>6, <1>7, <1>8, <1>9 DEF OthersStay
<1>11. OwnKept(b, i)
  <2>1. Progress(b, i)'
    BY <1>5, <1>6 DEF Progress
  <2>2. Sole(i)' => index'[i].status # "active"
    BY <1>2, <1>8, <1>10, SoleWas
  <2>3. index'[i].status # "absent"
    BY <1>2, <1>8
  <2>q. QED
    BY <1>5, <1>6, <2>1, <2>2, <2>3 DEF OwnKept
<1>q. QED
  BY <1>10, <1>11, PublishMoves

\* A call that stops leaves rows and vectors as they are.
LEMMA PublishStops ==
    ASSUME BaseInv, BaseInv', PublishInv, NEW b \in Indexers, UNCHANGED ingestVars,
           StopIndexing(b)
    PROVE  PublishInv'
<1>1. PICK i \in Indexes : build[b].index = i
  BY WorksOn DEF StopIndexing, BaseInv, IndexInv
<1>2. /\ build' = [build EXCEPT ![b] = BuildOf("stopped", i, "absent")]
      /\ UNCHANGED <<version, job, chunks, index, vectors, overlapped>>
  BY <1>1 DEF StopIndexing, catalogVars
<1>3. /\ build'[b] = BuildOf("stopped", i, "absent")
      /\ \A o \in Indexers \ {b} : build'[o] = build[o]
  BY <1>2 DEF BaseInv, IndexInv, CallsInv, IndexTypeOK
<1>4. build'[b].pc = "stopped" /\ build'[b].page = {}
  BY <1>3 DEF BuildOf
<1>5. b \notin Attempts'
  BY <1>4 DEF Attempts
<1>6. OthersStay(b, i) /\ OwnKept(b, i)
  BY <1>2, <1>3, <1>4, <1>5, OnlyCallMoves DEF OwnKept
<1>q. QED
  BY <1>6, PublishMoves

\* The vectors an earlier attempt left behind are removed.
LEMMA PublishClears ==
    ASSUME BaseInv, BaseInv', PublishInv, NEW b \in Indexers, UNCHANGED ingestVars,
           ClearLeftovers(b)
    PROVE  PublishInv'
<1>1. b \in Attempts /\ build[b].pc = "clearing"
  BY DEF ClearLeftovers, Attempts
<1>2. PICK i \in Indexes :
         /\ build[b].index = i
         /\ i[1] \in Versions
         /\ index[i].status # "absent"
         /\ Sole(i) => Progress(b, i) /\ index[i].status # "active"
  BY <1>1, AttemptKnows
<1>3. build \in [Indexers -> Build] /\ build[b] \in Build /\ CatalogTypeOK
  BY <1>1, AttemptKnows
<1>4. /\ build' = [build EXCEPT ![b].pc = "reading"]
      /\ vectors' = WithoutVectorsOf(i)
      /\ UNCHANGED <<version, job, chunks, index, overlapped>>
  BY <1>2 DEF ClearLeftovers, catalogVars
<1>5. /\ build'[b].pc = "reading" /\ build'[b].index = i
      /\ build'[b].after = build[b].after /\ build'[b].page = build[b].page
      /\ \A o \in Indexers \ {b} : build'[o] = build[o]
  BY <1>2, <1>3, <1>4 DEF Build
<1>6. /\ \A j \in Indexes \ {i} : Held(j)' = Held(j)
      /\ Held(i)' = {}
  BY <1>4, NoneIsNoIndex DEF WithoutVectorsOf, Held
<1>7. OthersStay(b, i)
  BY <1>1, <1>2, <1>4, <1>5, <1>6 DEF OthersStay
<1>8. Sole(i)' => Sole(i)
  BY <1>7, SoleWas
<1>9. Sole(i) => Progress(b, i)'
  <2> SUFFICES ASSUME Sole(i)
               PROVE  Progress(b, i)'
    OBVIOUS
  <2>1. /\ chunks[i[1]] # None
        /\ index[i].total = ChildCount(i[1])
        /\ index[i].indexed = build[b].after
        /\ build[b].after = 0
        /\ 0 <= ChildCount(i[1])
    BY <1>1, <1>2 DEF Progress
  <2>2. ChildIds(i[1], 1, 0) = {}
    BY <1>2, <1>3, <2>1, PagesJoin
  <2>3. ChildCount(i[1])' = ChildCount(i[1]) /\ ChildIds(i[1], 1, 0)' = ChildIds(i[1], 1, 0)
    BY <1>4, SameChildren
  <2>q. QED
    BY <1>4, <1>5, <1>6, <2>1, <2>2, <2>3 DEF Progress
<1>10. OwnKept(b, i)
  BY <1>2, <1>4, <1>5, <1>8, <1>9 DEF OwnKept
<1>q. QED
  BY <1>7, <1>10, PublishMoves

LEMMA PublishReads ==
    ASSUME BaseInv, BaseInv', PublishInv, NEW b \in Indexers, UNCHANGED ingestVars,
           ReadPage(b)
    PROVE  PublishInv'
<1>1. b \in Attempts /\ build[b].pc = "reading"
  BY DEF ReadPage, Attempts
<1>2. PICK i \in Indexes :
         /\ build[b].index = i
         /\ i[1] \in Versions
         /\ index[i].status # "absent"
         /\ Sole(i) => Progress(b, i) /\ index[i].status # "active"
  BY <1>1, AttemptKnows
<1>3. /\ build \in [Indexers -> Build] /\ build[b] \in Build /\ CatalogTypeOK
      /\ build[b].after \in Nat
  BY <1>1, AttemptKnows
<1> DEFINE n == build[b].after
           page == ChildIds(i[1], n + 1, n + BatchSize)
           pc == IF page = {} THEN "activating" ELSE "upserting"
<1>4. /\ build' = [build EXCEPT ![b] = PageOf(pc, i, page, n)]
      /\ UNCHANGED <<version, job, chunks, index, vectors, overlapped>>
  BY <1>2 DEF ReadPage, catalogVars
<1> HIDE DEF page
<1>5. /\ build'[b].pc = pc /\ build'[b].index = i
      /\ build'[b].after = n /\ build'[b].page = page
      /\ \A o \in Indexers \ {b} : build'[o] = build[o]
  BY <1>3, <1>4 DEF PageOf
<1>6. pc \in {"activating", "upserting"}
  OBVIOUS
<1> HIDE DEF pc
<1>7. /\ OthersStay(b, i)
      /\ (index'[i].status = "active" /\ Sole(i)') =>
                 chunks[i[1]] # None /\ Held(i)' = AllChildIds(i[1])
  BY <1>4, <1>5, OnlyCallMoves
<1>8. Sole(i)' => Sole(i)
  BY <1>7, SoleWas
<1>9. \A k \in page : k.writer = chunks[i[1]] /\ chunks[i[1]] # None
  BY <1>2, <1>3, ChildCountTyped DEF page, ChildIds, ChildCount
<1>10. Sole(i) => Progress(b, i)'
  <2> SUFFICES ASSUME Sole(i)
               PROVE  Progress(b, i)'
    OBVIOUS
  <2>1. /\ chunks[i[1]] # None
        /\ index[i].total = ChildCount(i[1])
        /\ index[i].indexed = n
        /\ n <= ChildCount(i[1])
        /\ Held(i) = ChildIds(i[1], 1, n)
    BY <1>1, <1>2 DEF Progress
  <2>2. page = ChildIds(i[1], n + 1, PageEnd(i[1], n))
    BY <1>2, <1>3, <2>1, PagesJoin DEF page
  <2>3. /\ ChildCount(i[1])' = ChildCount(i[1])
        /\ \A f, l : ChildIds(i[1], f, l)' = ChildIds(i[1], f, l)
        /\ \A m : PageEnd(i[1], m)' = PageEnd(i[1], m)
    BY <1>4, SameChildren
  <2>q. QED
    BY <1>4, <1>5, <1>6, <2>1, <2>2, <2>3 DEF Progress, Held
<1>11. OwnKept(b, i)
  BY <1>2, <1>4, <1>5, <1>6, <1>7, <1>8, <1>9, <1>10 DEF OwnKept
<1>q. QED
  BY <1>7, <1>11, PublishMoves

\* The upsert of a page takes no vector from an index of another version.
LEMMA PublishUpserts ==
    ASSUME BaseInv, BaseInv', PublishInv, NEW b \in Indexers, UNCHANGED ingestVars,
           UpsertPage(b)
    PROVE  PublishInv'
<1>1. b \in Attempts /\ build[b].pc = "upserting"
  BY DEF UpsertPage, Attempts
<1>2. PICK i \in Indexes :
         /\ build[b].index = i
         /\ i[1] \in Versions
         /\ index[i].status # "absent"
         /\ Sole(i) => Progress(b, i) /\ index[i].status # "active"
  BY <1>1, AttemptKnows
<1>3. /\ build \in [Indexers -> Build] /\ build[b] \in Build /\ CatalogTypeOK
      /\ build[b].after \in Nat
      /\ build[b].page \in SUBSET ChunkIds
  BY <1>1, AttemptKnows DEF Build
<1> DEFINE n == build[b].after
           page == build[b].page
<1>4. /\ build' = [build EXCEPT ![b].pc = "counting"]
      /\ vectors' = [k \in ChunkIds |-> IF k \in page THEN i ELSE vectors[k]]
      /\ UNCHANGED <<version, job, chunks, index, overlapped>>
  BY <1>2 DEF UpsertPage, catalogVars
<1>5. /\ build'[b].pc = "counting" /\ build'[b].index = i
      /\ build'[b].after = n /\ build'[b].page = page
      /\ \A o \in Indexers \ {b} : build'[o] = build[o]
  BY <1>2, <1>3, <1>4 DEF Build
<1>6. /\ Held(i)' = Held(i) \cup page
      /\ \A j \in Indexes \ {i} : Held(j)' = Held(j) \ page
  BY <1>3, <1>4 DEF Held
<1>7. ASSUME NEW j \in Indexes \ {i}, Sole(j), Held(j) \subseteq AllChildIds(j[1])
      PROVE  Held(j)' = Held(j)
  <2>1. j[1] # i[1]
    BY <1>2, <1>7 DEF Sole
  <2>2. j[1] \in Uploads
    BY DEF Indexes
  <2>3. \A k \in page : chunks[j[1]] # k.writer
    BY <1>2, <2>1, <2>2 DEF PublishInv, PagesInv
  <2>4. \A k \in AllChildIds(j[1]) : k.writer = chunks[j[1]]
    BY DEF AllChildIds, ChildIds
  <2>q. QED
    BY <1>6, <1>7, <2>3, <2>4
<1>8. OthersStay(b, i)
  BY <1>1, <1>2, <1>4, <1>5, <1>7 DEF OthersStay
<1>9. Sole(i)' => Sole(i)
  BY <1>8, SoleWas
<1>10. Sole(i) => Progress(b, i)'
  <2> SUFFICES ASSUME Sole(i)
               PROVE  Progress(b, i)'
    OBVIOUS
  <2>1. /\ chunks[i[1]] # None
        /\ index[i].total = ChildCount(i[1])
        /\ index[i].indexed = n
        /\ n <= ChildCount(i[1])
        /\ Held(i) = ChildIds(i[1], 1, n)
        /\ page = ChildIds(i[1], n + 1, PageEnd(i[1], n))
    BY <1>1, <1>2 DEF Progress
  <2>2. ChildIds(i[1], 1, n) \cup ChildIds(i[1], n + 1, PageEnd(i[1], n))
        = ChildIds(i[1], 1, PageEnd(i[1], n))
    BY <1>2, <1>3, <2>1, PagesJoin
  <2>3. Held(i)' = ChildIds(i[1], 1, PageEnd(i[1], n))
    BY <1>6, <2>1, <2>2
  <2>4. /\ ChildCount(i[1])' = ChildCount(i[1])
        /\ \A f, l : ChildIds(i[1], f, l)' = ChildIds(i[1], f, l)
        /\ \A m : PageEnd(i[1], m)' = PageEnd(i[1], m)
    BY <1>4, SameChildren
  <2>q. QED
    BY <1>4, <1>5, <2>1, <2>3, <2>4 DEF Progress
<1>11. OwnKept(b, i)
  BY <1>2, <1>4, <1>5, <1>9, <1>10 DEF OwnKept
<1>q. QED
  BY <1>8, <1>11, PublishMoves

LEMMA PublishCounts ==
    ASSUME BaseInv, BaseInv', PublishInv, NEW b \in Indexers, UNCHANGED ingestVars,
           IncreaseProgress(b)
    PROVE  PublishInv'
<1>1. b \in Attempts /\ build[b].pc = "counting"
  BY DEF IncreaseProgress, Attempts
<1>2. PICK i \in Indexes :
         /\ build[b].index = i
         /\ i[1] \in Versions
         /\ index[i].status # "absent"
         /\ Sole(i) => Progress(b, i) /\ index[i].status # "active"
  BY <1>1, AttemptKnows
<1>3. /\ build \in [Indexers -> Build] /\ build[b] \in Build /\ CatalogTypeOK
      /\ index \in [Indexes -> Index]
      /\ build[b].after \in Nat
  BY <1>1, AttemptKnows
<1> DEFINE n == build[b].after
           size == Cardinality(build[b].page)
           indexed == index[i].indexed + size
<1>4. UNCHANGED <<version, job, chunks, vectors, overlapped>>
  BY DEF IncreaseProgress, catalogVars
<1>5. \A j \in Indexes : Held(j)' = Held(j)
  BY <1>4 DEF Held
<1>6. CASE indexed > index[i].total
  <2>1. /\ build' = [build EXCEPT ![b] = BuildOf("failing", i, "absent")]
        /\ UNCHANGED index
    BY <1>2, <1>6 DEF IncreaseProgress
  <2>2. /\ build'[b].pc = "failing" /\ build'[b].index = i /\ build'[b].page = {}
        /\ \A o \in Indexers \ {b} : build'[o] = build[o]
    BY <1>3, <2>1 DEF BuildOf
  <2>3. OthersStay(b, i) /\ OwnKept(b, i)
    BY <1>2, <1>4, <2>1, <2>2, OnlyCallMoves DEF OwnKept, Progress
  <2>q. QED
    BY <2>3, PublishMoves
<1>7. CASE ~(indexed > index[i].total)
  <2>1. /\ build' = [build EXCEPT ![b] = PageOf("reading", i, {}, n + size)]
        /\ index' = [index EXCEPT ![i].indexed = indexed]
    BY <1>2, <1>7 DEF IncreaseProgress
  <2>2. /\ build'[b].pc = "reading" /\ build'[b].index = i /\ build'[b].page = {}
        /\ build'[b].after = n + size
        /\ \A o \in Indexers \ {b} : build'[o] = build[o]
    BY <1>3, <2>1 DEF PageOf
  <2>3. /\ index'[i].indexed = indexed
        /\ index'[i].total = index[i].total
        /\ index'[i].status = index[i].status
        /\ \A j \in Indexes \ {i} : index'[j] = index[j]
    BY <1>3, <2>1 DEF Index
  <2>4. OthersStay(b, i)
    BY <1>1, <1>2, <1>4, <1>5, <2>2, <2>3 DEF OthersStay
  <2>5. Sole(i)' => Sole(i)
    BY <2>4, SoleWas
  <2>6. Sole(i) => Progress(b, i)'
    <3> SUFFICES ASSUME Sole(i)
                 PROVE  Progress(b, i)'
      OBVIOUS
    <3>1. /\ chunks[i[1]] # None
          /\ index[i].total = ChildCount(i[1])
          /\ index[i].indexed = n
          /\ n <= ChildCount(i[1])
          /\ Held(i) = ChildIds(i[1], 1, PageEnd(i[1], n))
          /\ build[b].page = ChildIds(i[1], n + 1, PageEnd(i[1], n))
      BY <1>1, <1>2 DEF Progress
    <3>2. /\ PageEnd(i[1], n) \in Nat
          /\ PageEnd(i[1], n) <= ChildCount(i[1])
          /\ size = PageEnd(i[1], n) - n
      BY <1>2, <1>3, <3>1, PagesJoin
    <3>3. n + size = PageEnd(i[1], n) /\ indexed = PageEnd(i[1], n)
      BY <1>3, <3>1, <3>2
    <3>4. /\ ChildCount(i[1])' = ChildCount(i[1])
          /\ \A f, l : ChildIds(i[1], f, l)' = ChildIds(i[1], f, l)
      BY <1>4, SameChildren
    <3> HIDE DEF n, size, indexed
    <3>q. QED
      BY <1>4, <1>5, <2>2, <2>3, <3>1, <3>2, <3>3, <3>4 DEF Progress
  <2>7. OwnKept(b, i)
    BY <1>2, <2>2, <2>3, <2>5, <2>6 DEF OwnKept
  <2>q. QED
    BY <2>4, <2>7, PublishMoves
<1>q. QED
  BY <1>6, <1>7

\* An index is switched to when all that was counted is all there is.
LEMMA PublishActivates ==
    ASSUME BaseInv, BaseInv', PublishInv, NEW b \in Indexers, UNCHANGED ingestVars,
           Activate(b)
    PROVE  PublishInv'
<1>1. b \in Attempts /\ build[b].pc = "activating"
  BY DEF Activate, Attempts
<1>2. PICK i \in Indexes :
         /\ build[b].index = i
         /\ i[1] \in Versions
         /\ index[i].status # "absent"
         /\ Sole(i) => Progress(b, i) /\ index[i].status # "active"
  BY <1>1, AttemptKnows
<1>3. /\ build \in [Indexers -> Build] /\ build[b] \in Build
      /\ index \in [Indexes -> Index]
  BY <1>1, AttemptKnows
<1>4. UNCHANGED <<version, job, chunks, vectors, overlapped>>
  BY DEF Activate
<1>5. \A j \in Indexes : Held(j)' = Held(j)
  BY <1>4 DEF Held
<1>6. CASE Complete(i) /\ Undeleted(i)
  <2>1. /\ build' = [build EXCEPT ![b] = BuildAt("closed")]
        /\ index' = [j \in Indexes |->
                 IF j = i THEN Row(i, "active", "succeeded")
                 ELSE IF j \in Superseded(i)
                      THEN Row(j, "superseded", index[j].job)
                      ELSE index[j]]
    BY <1>2, <1>6 DEF Activate
  <2>2. /\ build'[b].pc = "closed" /\ build'[b].page = {}
        /\ \A o \in Indexers \ {b} : build'[o] = build[o]
    BY <1>3, <2>1 DEF BuildAt, BuildOf
  <2>3. /\ \A j \in Indexes \ {i} :
              /\ index'[j].total = index[j].total
              /\ index'[j].indexed = index[j].indexed
              /\ index'[j].status = "active" => index[j].status = "active"
        /\ \A j \in Indexes : index'[j].status = "absent" => index'[j] = index[j]
    BY <2>1 DEF Row
  <2>4. OthersStay(b, i)
    BY <1>1, <1>2, <1>4, <1>5, <2>2, <2>3 DEF OthersStay
  <2>5. Sole(i)' => Sole(i)
    BY <2>4, SoleWas
  <2>6. Sole(i) => chunks[i[1]] # None /\ Held(i)' = AllChildIds(i[1])
    BY <1>1, <1>2, <1>5, <1>6 DEF Progress, Complete, AllChildIds
  <2>7. b \notin Attempts'
    BY <2>2 DEF Attempts
  <2>8. OwnKept(b, i)
    BY <2>2, <2>5, <2>6, <2>7 DEF OwnKept
  <2>q. QED
    BY <2>4, <2>8, PublishMoves
<1>7. CASE ~(Complete(i) /\ Undeleted(i))
  <2>1. /\ build' = [build EXCEPT ![b].pc = "failing"]
        /\ UNCHANGED index
    BY <1>2, <1>7 DEF Activate
  <2>2. /\ build'[b].pc = "failing" /\ build'[b].index = i
        /\ build'[b].page = build[b].page
        /\ \A o \in Indexers \ {b} : build'[o] = build[o]
    BY <1>2, <1>3, <2>1 DEF Build
  <2>3. OthersStay(b, i) /\ OwnKept(b, i)
    BY <1>2, <1>4, <2>1, <2>2, OnlyCallMoves DEF OwnKept, Progress
  <2>q. QED
    BY <2>3, PublishMoves
<1>q. QED
  BY <1>6, <1>7

LEMMA PublishSteps ==
    ASSUME BaseInv, PublishInv, [Next]_vars
    PROVE  BaseInv' /\ PublishInv'
<1>1. BaseInv'
  BY BaseSteps
<1>2. ASSUME \/ \E c \in Parsers : BeginIngest(c) \/ StepIngest(c) \/ StopIngest(c)
             \/ \E d \in Uploads : Delete(d),
             UNCHANGED indexVars
      PROVE  PublishInv'
  <2>1. ParseInv' /\ ChunksMove
    BY <1>2, ParseSteps DEF BaseInv, PublishInv
  <2>q. QED
    BY <1>2, <2>1, PublishRests
<1>3. ASSUME NEW b \in Indexers, BeginIndexing(b) \/ StepIndexing(b) \/ StopIndexing(b),
             UNCHANGED ingestVars
      PROVE  PublishInv'
  BY <1>1, <1>3, PublishRequests, PublishCreates, PublishStarts, PublishClears, PublishReads,
     PublishUpserts, PublishCounts, PublishActivates, PublishGivesUp, PublishStops
  DEF StepIndexing
<1>4. CASE UNCHANGED vars
  <2>1. UNCHANGED indexVars /\ UNCHANGED <<version, job, chunks, ingest, reparsed>>
    BY <1>4 DEF vars, catalogVars, ingestVars
  <2>2. ParseInv' /\ ChunksMove
    BY <2>1 DEF PublishInv, ParseInv, ChunksMove, Versions
  <2>q. QED
    BY <1>1, <2>1, <2>2, PublishRests
<1>5. NextIngests \subseteq Parsers /\ NextIndexings \subseteq Indexers
  BY DEF NextIngests, NextIndexings, First, Parsers, Indexers
<1>q. QED
  BY <1>1, <1>2, <1>3, <1>4, <1>5 DEF Next

LEMMA PublishInit == Init => PublishInv
<1> SUFFICES ASSUME CatalogInit, IngestInit, IndexInit
             PROVE  PublishInv
  BY DEF Init
<1>1. \A v \in Uploads : chunks[v] = None
  BY DEF CatalogInit
<1>2. \A c \in Parsers : ingest[c].pc \notin {"starting", "parsing"}
  BY DEF IngestInit, IngestAt, IngestOf
<1>3. /\ \A b \in Indexers : build[b].pc = "idle" /\ build[b].page = {}
      /\ \A i \in Indexes : index[i].status = "absent" /\ index[i].job = "absent"
  BY DEF IndexInit, BuildAt, BuildOf
<1>4. ParseInv
  BY <1>1, <1>2 DEF ParseInv
<1>q. QED
  BY <1>3, <1>4 DEF PublishInv, CallRowsInv, PagesInv, VectorsInv, Attempts

-----------------------------------------------------------------------------
(* The properties *)

\* Every row, file, vector and call is of its type, whatever happens.
THEOREM BaseTyped == Spec => []TypeOK
<1>1. BaseInv => TypeOK
  BY DEF BaseInv, IngestInv, IndexInv, CallsInv, TypeOK
<1>q. QED
  BY <1>1, BaseInvariant, PTL

\* Rows, files and chunks agree however uploads, parses and retries overlap
\* and wherever they stop.
THEOREM RowsBacked == Spec => []RowsAreBacked
<1>1. BaseInv => RowsAreBacked
  BY DEF BaseInv, RowsInv
<1>q. QED
  BY <1>1, BaseInvariant, PTL

\* A document has one active index at most, and its version is the current
\* one, for any number of builds at a time.
THEOREM ActiveIsUnique == Spec => []OneActiveIndex
<1>1. ASSUME BaseInv, NEW d \in Uploads
      PROVE  /\ Cardinality(Active(d)) <= 1
             /\ Active(d) # {} => \E i \in Active(d) : current \cap VersionsOf(d) = {i[1]}
  <2>1. \A i, j \in Active(d) : i = j
    BY <1>1 DEF BaseInv, IndexInv, ActiveInv, Active
  <2>2. \A i \in Active(d) : current \cap VersionsOf(d) = {i[1]}
    BY <1>1 DEF BaseInv, IndexInv, ActiveInv, Active
  <2>3. CASE Active(d) = {}
    BY <2>3, FS_EmptySet
  <2>4. CASE Active(d) # {}
    <3>1. PICK i \in Active(d) : TRUE
      BY <2>4
    <3>2. Active(d) = {i}
      BY <2>1, <3>1
    <3>3. Cardinality(Active(d)) = 1
      BY <3>2, FS_Singleton
    <3>q. QED
      BY <2>2, <3>1, <3>3
  <2>q. QED
    BY <2>3, <2>4
<1>2. BaseInv => OneActiveIndex
  BY <1>1 DEF OneActiveIndex
<1>q. QED
  BY <1>2, BaseInvariant, PTL

\* No job stays in processing without a call that will write it or one that
\* was stopped.
THEOREM NoOrphanedJob == Spec => []ProcessingHasWorker
<1>1. ASSUME BaseInv PROVE ProcessingHasWorker
  <2>1. ParseHasWorker /\ IndexHasWorker
    BY <1>1 DEF BaseInv, RowsInv, IndexInv
  <2>q. QED
    BY <2>1 DEF ParseHasWorker, IndexHasWorker, Attempts, ProcessingHasWorker
<1>2. BaseInv => ProcessingHasWorker
  BY <1>1
<1>q. QED
  BY <1>2, BaseInvariant, PTL

\* What is found through an active index is what its version consists of: every
\* child and nothing else, for any number of builds, batches and failures, as
\* long as no attempts, parses or configurations meet on that version.
THEOREM ActiveHoldsChildren == Spec => []ActiveIsComplete
<1>1. Init => BaseInv /\ PublishInv
  BY BaseStarts, PublishInit
<1>2. BaseInv /\ PublishInv /\ [Next]_vars => (BaseInv /\ PublishInv)'
  BY PublishSteps
<1>3. PublishInv => ActiveIsComplete
  BY DEF PublishInv, VectorsInv, Sole, Held, ActiveIsComplete
<1>q. QED
  BY <1>1, <1>2, <1>3, PTL DEF Spec

-----------------------------------------------------------------------------
(* The abstract switch *)

\* The documents, their indexes and current versions stay as they are.
SwitchRests ==
    UNCHANGED <<document, overlapped>> /\ Serving' = Serving /\ Shown' = Shown

\* An active index and a current version belong to versions that are there.
LEMMA ActiveAre ==
    ASSUME ActiveInv, NEW i \in Indexes, index[i].status = "active"
    PROVE  /\ i[1] \in Versions /\ i \in Active(Doc(i))
           /\ \A d \in Uploads : i \in Active(d) => d = Doc(i)
<1>1. current \cap VersionsOf(Doc(i)) = {i[1]}
  BY DEF ActiveInv
<1>2. i[1] \in Versions
  BY <1>1 DEF VersionsOf
<1>q. QED
  BY <1>2 DEF Active

\* Where rows are only added and no index moves, nothing is switched.
LEMMA ServingRests ==
    ASSUME ActiveInv, RowsGrow, Versions' \subseteq Uploads,
           UNCHANGED <<index, current>>
    PROVE  Serving' = Serving /\ Shown' = Shown
<1>1. \A v \in Versions : v \in Versions' /\ version'[v].doc = version[v].doc
  BY DEF RowsGrow
<1>2. ASSUME NEW d \in Uploads
      PROVE  Active(d)' = Active(d)
  <2>1. ASSUME NEW i \in Indexes, i \in Active(d)
        PROVE  i \in Active(d)'
    BY <1>1, <2>1 DEF Active, Doc
  <2>2. ASSUME NEW i \in Indexes, i \in Active(d)'
        PROVE  i \in Active(d)
    <3>1. index[i].status = "active" /\ version'[i[1]].doc = d
      BY <2>2 DEF Active, Doc
    <3>2. i[1] \in Versions
      BY <3>1, ActiveAre
    <3>q. QED
      BY <1>1, <3>1, <3>2 DEF Active, Doc
  <2>3. Active(d) \subseteq Indexes /\ Active(d)' \subseteq Indexes
    BY DEF Active, Indexes
  <2>q. QED
    BY <2>1, <2>2, <2>3
<1>3. ASSUME NEW d \in Uploads
      PROVE  (current \cap VersionsOf(d))' = current \cap VersionsOf(d)
  <2>1. current \subseteq Versions /\ current' = current
    BY DEF ActiveInv
  <2>q. QED
    BY <1>1, <2>1 DEF VersionsOf
<1>q. QED
  BY <1>2, <1>3 DEF Serving, Shown

\* Where one index moves that is not active afterwards, it was not active
\* before, or it is taken away; it is contested by then.
LEMMA OneIndexStops ==
    ASSUME IngestInv, IndexInv, KeepsActive, NEW i \in Indexes,
           \A j \in Indexes \ {i} : index'[j].status = index[j].status,
           index'[i].status # "active",
           UNCHANGED <<document, version, current>>,
           overlapped' = overlapped \/ overlapped' = overlapped \cup {i}
    PROVE  SwitchRests \/ Switching!Next
<1> DEFINE d == Doc(i)
<1>1. \A e \in Uploads : VersionsOf(e)' = VersionsOf(e)
  BY DEF VersionsOf, Versions
<1>2. Shown' = Shown
  BY <1>1 DEF Shown
<1>3. \A e \in Uploads : Active(e)' = Active(e) \ {i}
  <2>1. ASSUME NEW e \in Uploads, NEW j \in Indexes
        PROVE  j \in Active(e)' <=> j \in Active(e) /\ j # i
    BY DEF Active, Doc, Versions
  <2>2. \A e \in Uploads : Active(e) \subseteq Indexes /\ Active(e)' \subseteq Indexes
    BY DEF Active, Indexes
  <2>q. QED
    BY <2>1, <2>2
<1>4. CASE index[i].status # "active"
  <2>1. \A e \in Uploads : Active(e)' = Active(e)
    BY <1>3, <1>4 DEF Active
  <2>2. Serving' = Serving
    BY <2>1 DEF Serving
  <2>3. CASE overlapped' = overlapped
    BY <1>2, <2>2, <2>3 DEF SwitchRests
  <2>4. CASE overlapped' = overlapped \cup {i}
    <3>1. Switching!Contest(i)
      BY <1>2, <2>2, <2>4 DEF Switching!Contest
    <3>q. QED
      BY <3>1 DEF Switching!Next, Switching!Indexes, Indexes
  <2>q. QED
    BY <2>3, <2>4
<1>5. CASE index[i].status = "active"
  <2>1. /\ i[1] \in Versions /\ i \in Active(d)
        /\ \A e \in Uploads : i \in Active(e) => e = d
    BY <1>5, ActiveAre DEF IndexInv
  <2>2. d \in Uploads
    BY <2>1 DEF IngestInv, CatalogTypeOK, Versions, Version, Doc
  <2>3. Active(d) = {i}
    BY <2>1, <2>2, <1>5 DEF Active, IndexInv, ActiveInv
  <2>4. i \in overlapped'
    <3>1. PICK e \in Uploads : e = d
      BY <2>2
    <3>2. Active(e)' = {}
      BY <1>3, <2>3, <3>1
    <3>3. Doc(i)' = e
      BY <3>1 DEF Doc
    <3>4. Active(Doc(i))' = {}
      BY <3>2, <3>3 DEF Active
    <3>q. QED
      BY <1>5, <3>4 DEF KeepsActive
  <2>5. Serving[d] = {i} /\ Serving' = [Serving EXCEPT ![d] = {}]
    <3> HIDE DEF d
    <3>1. \A e \in Uploads : Active(e)' = IF e = d THEN {} ELSE Active(e)
      <4>1. \A e \in Uploads : e # d => i \notin Active(e)
        BY <2>1
      <4>q. QED
        BY <1>3, <2>3, <4>1
    <3>q. QED
      BY <2>2, <2>3, <3>1 DEF Serving
  <2>6. overlapped' = overlapped \cup Serving[d]
    BY <2>4, <2>5
  <2>7. Switching!Withdraw(d)
    BY <1>2, <2>5, <2>6 DEF Switching!Withdraw
  <2>q. QED
    BY <2>2, <2>7 DEF Switching!Next
<1>q. QED
  BY <1>4, <1>5

\* The switch of _activate is the switch.
LEMMA ActivationSwitches ==
    ASSUME IngestInv, IndexInv, NEW b \in Indexers, Activate(b),
           Complete(build[b].index), Undeleted(build[b].index)
    PROVE  Switching!Next
<1> DEFINE i == build[b].index
           d == Doc(i)
           S == Superseded(i)
<1>1. i \in Indexes /\ i[1] \in Versions /\ d \in Uploads
  <2>1. b \in Attempts
    BY DEF Activate, Attempts
  <2>2. i \in Indexes /\ i[1] \in Versions
    BY <2>1, AttemptAlone
  <2>q. QED
    BY <2>2 DEF IngestInv, CatalogTypeOK, Versions, Version, Doc
<1>2. /\ index' = [j \in Indexes |->
                     IF j = i THEN Row(i, "active", "succeeded")
                     ELSE IF j \in S THEN Row(j, "superseded", index[j].job)
                     ELSE index[j]]
      /\ current' = (current \ VersionsOf(d)) \cup {i[1]}
      /\ document[d] = "active"
      /\ UNCHANGED <<document, version, overlapped>>
  BY DEF Activate, SwitchCurrent, Undeleted
<1>3. \A j \in Indexes : index'[j].status = "active" <=>
         j = i \/ (index[j].status = "active" /\ Doc(j) # d)
  <2>1. \A j \in Indexes : j \in S <=> index[j].status = "active" /\ j # i /\ Doc(j) = d
    BY DEF Superseded
  <2>2. \A j : Row(j, "superseded", index[j].job).status = "superseded"
    BY DEF Row
  <2>3. Row(i, "active", "succeeded").status = "active"
    BY DEF Row
  <2> HIDE DEF i, S, d
  <2>4. \A j \in Indexes : index'[j] = IF j = i THEN Row(i, "active", "succeeded")
                                       ELSE IF j \in S THEN Row(j, "superseded", index[j].job)
                                       ELSE index[j]
    BY <1>2
  <2>q. QED
    BY <2>1, <2>2, <2>3, <2>4
<1> HIDE DEF i, S
<1>4. \A e \in Uploads : Active(e)' = IF e = d THEN {i} ELSE Active(e)
  <2>1. ASSUME NEW e \in Uploads, NEW j \in Indexes
        PROVE  j \in Active(e)' <=> IF e = d THEN j = i ELSE j \in Active(e)
    <3>1. j \in Active(e)' <=> j[1] \in Versions /\ Doc(j) = e /\ index'[j].status = "active"
      BY <1>2 DEF Active, Doc, Versions
    <3>2. j \in Active(e) <=> j[1] \in Versions /\ Doc(j) = e /\ index[j].status = "active"
      BY DEF Active
    <3>3. index[j].status = "active" => j[1] \in Versions
      BY ActiveAre DEF IndexInv
    <3>q. QED
      BY <1>1, <1>3, <3>1, <3>2, <3>3
  <2>2. \A e \in Uploads : Active(e) \subseteq Indexes /\ Active(e)' \subseteq Indexes
    BY DEF Active, Indexes
  <2>q. QED
    BY <1>1, <2>1, <2>2
<1>5. Serving' = [Serving EXCEPT ![d] = {i}]
  BY <1>1, <1>4 DEF Serving
<1>6. Shown' = [Shown EXCEPT ![d] = {i[1]}]
  <2>1. \A e \in Uploads : VersionsOf(e)' = VersionsOf(e)
    BY <1>2 DEF VersionsOf, Versions
  <2>2. i[1] \in VersionsOf(d)
    BY <1>1 DEF VersionsOf, Doc
  <2>3. \A e \in Uploads : e # d => VersionsOf(e) \cap VersionsOf(d) = {}
    BY DEF VersionsOf
  <2>4. \A e \in Uploads : current' \cap VersionsOf(e) = IF e = d THEN {i[1]}
                                                         ELSE current \cap VersionsOf(e)
    <3> HIDE DEF d
    <3>q. QED
      BY <1>2, <2>2, <2>3
  <2> HIDE DEF d
  <2>q. QED
    BY <1>1, <2>1, <2>4 DEF Shown
<1>7. \A e \in Uploads \ {d} : i \notin Serving[e]
  BY DEF Serving, Active
<1> HIDE DEF d
<1>8. Switching!Switch(d, i)
  BY <1>2, <1>5, <1>6, <1>7 DEF Switching!Switch
<1>q. QED
  BY <1>1, <1>8 DEF Switching!Next, Switching!Indexes, Indexes

\* Every step of ingestion rests, but the first version of a document, which
\* creates it.
LEMMA IngestionSwitches ==
    ASSUME BaseInv, BaseInv', NEW c \in Parsers,
           BeginIngest(c) \/ StepIngest(c) \/ StopIngest(c),
           UNCHANGED indexVars
    PROVE  SwitchRests \/ Switching!Next
<1>1. RowsGrow /\ UNCHANGED current
  BY IngestionSteps DEF BaseInv
<1>2. Serving' = Serving /\ Shown' = Shown
  <2>1. ActiveInv /\ Versions' \subseteq Uploads /\ UNCHANGED index
    BY DEF BaseInv, IndexInv, Versions, indexVars
  <2>q. QED
    BY <1>1, <2>1, ServingRests
<1>3. overlapped' = overlapped
  BY DEF indexVars
<1>4. CASE document' = document
  BY <1>2, <1>3, <1>4 DEF SwitchRests
<1>5. CASE document' # document
  <2>1. c \in Uploads /\ CommitUpload(c)
    BY <1>5 DEF BeginIngest, StepIngest, StopIngest, Upload, Retry, StartParse, ReplaceChunks,
                MarkFailed, catalogVars
  <2> DEFINE d == ingest[c].doc
  <2>2. document' = [document EXCEPT ![d] = IF @ = "absent" THEN "active" ELSE @]
    BY <1>5, <2>1 DEF CommitUpload, catalogVars
  <2>3. document \in [Uploads -> {"absent", "active", "deleted"}]
    BY DEF BaseInv, IngestInv, CatalogTypeOK
  <2>4. d \in Uploads
    BY <2>1 DEF CommitUpload, BaseInv, IngestInv, NumbersInv
  <2> HIDE DEF d
  <2>5. document[d] = "absent" /\ document' = [document EXCEPT ![d] = "active"]
    BY <1>5, <2>2, <2>3, <2>4
  <2>6. Switching!Create(d)
    BY <1>2, <1>3, <2>5 DEF Switching!Create
  <2>q. QED
    BY <2>4, <2>6 DEF Switching!Next
<1>q. QED
  BY <1>4, <1>5

\* Every step of indexing rests, contests, withdraws or switches.
LEMMA IndexingSwitches ==
    ASSUME BaseInv, BaseInv', KeepsActive, NEW b \in Indexers,
           BeginIndexing(b) \/ StepIndexing(b) \/ StopIndexing(b)
    PROVE  SwitchRests \/ Switching!Next
<1> DEFINE i == build[b].index
<1>0. IngestInv /\ IndexInv /\ ActiveInv
  BY DEF BaseInv, IndexInv
<1>1. ASSUME UNCHANGED <<document, version, index, current, overlapped>>
      PROVE  SwitchRests
  <2>1. Versions' \subseteq Uploads /\ RowsGrow
    BY <1>1 DEF Versions, RowsGrow
  <2>q. QED
    BY <1>0, <1>1, <2>1, ServingRests DEF SwitchRests
<1>2. CASE BeginIndexing(b)
  BY <1>1, <1>2 DEF BeginIndexing, BuildRequest, RetryRequest, catalogVars
<1>3. CASE \/ ClearLeftovers(b) \/ ReadPage(b) \/ UpsertPage(b) \/ VectorsFail(b)
           \/ DropVectors(b) \/ StopIndexing(b)
  BY <1>1, <1>3 DEF ClearLeftovers, ReadPage, UpsertPage, VectorsFail, DropVectors,
                    StopIndexing, catalogVars
<1>4. ASSUME build[b].pc \notin {"idle", "closed"}
      PROVE  i \in Indexes /\ index \in [Indexes -> Index]
  BY <1>0, <1>4, WorksOn DEF IndexInv, CallsInv, IndexTypeOK
<1>5. CASE CreateIndex(b)
  <2>1. UNCHANGED <<document, version, current, overlapped>>
    BY <1>5 DEF CreateIndex, catalogVars
  <2>2. CASE UNCHANGED index
    BY <1>1, <2>1, <2>2
  <2>3. CASE index' # index
    <3>1. i \in Indexes /\ index \in [Indexes -> Index]
      BY <1>4, <1>5 DEF CreateIndex
    <3>2. index' = [index EXCEPT ![i] = Row(i, "building", "queued")]
      BY <1>5, <2>3 DEF CreateIndex
    <3>3. Row(i, "building", "queued").status = "building"
      BY DEF Row
    <3> HIDE DEF i
    <3>4. /\ \A j \in Indexes \ {i} : index'[j].status = index[j].status
          /\ index'[i].status # "active"
      BY <3>1, <3>2, <3>3
    <3>q. QED
      BY <1>0, <2>1, <3>1, <3>4, OneIndexStops
  <2>q. QED
    BY <2>2, <2>3
<1>6. CASE StartAttempt(b)
  <2>1. /\ UNCHANGED <<document, version, current>>
        /\ overlapped' = overlapped \/ overlapped' = overlapped \cup {i}
    BY <1>6 DEF StartAttempt, catalogVars
  <2>2. i \in Indexes /\ index \in [Indexes -> Index]
    BY <1>4, <1>6 DEF StartAttempt
  <2>3. CASE SourceReady(i)
    <3> DEFINE row == [status |-> "building", job |-> "processing",
                       total |-> ChildCount(i[1]), indexed |-> 0]
    <3>1. index' = [index EXCEPT ![i] = row]
      BY <1>6, <2>3 DEF StartAttempt
    <3>2. row.status = "building"
      OBVIOUS
    <3> HIDE DEF i, row
    <3>3. /\ \A j \in Indexes \ {i} : index'[j].status = index[j].status
          /\ index'[i].status # "active"
      BY <2>2, <3>1, <3>2
    <3>q. QED
      BY <1>0, <2>1, <2>2, <3>3, OneIndexStops
  <2>4. CASE ~SourceReady(i)
    <3>1. UNCHANGED index
      BY <1>6, <2>4 DEF StartAttempt
    <3>2. Serving' = Serving /\ Shown' = Shown
      <4>1. Versions' \subseteq Uploads /\ RowsGrow
        BY <2>1 DEF Versions, RowsGrow
      <4>q. QED
        BY <1>0, <2>1, <3>1, <4>1, ServingRests
    <3>3. CASE overlapped' = overlapped
      BY <2>1, <3>2, <3>3 DEF SwitchRests
    <3>4. CASE overlapped' = overlapped \cup {i}
      <4>1. Switching!Contest(i)
        BY <2>1, <3>2, <3>4 DEF Switching!Contest
      <4>q. QED
        BY <2>2, <4>1 DEF Switching!Next, Switching!Indexes, Indexes
    <3>q. QED
      BY <2>1, <3>3, <3>4
  <2>q. QED
    BY <2>3, <2>4
<1>7. CASE IncreaseProgress(b)
  <2>1. UNCHANGED <<document, version, current, overlapped>>
    BY <1>7 DEF IncreaseProgress, catalogVars
  <2>2. i \in Indexes /\ index \in [Indexes -> Index]
    BY <1>4, <1>7 DEF IncreaseProgress
  <2>3. \A j \in Indexes : index'[j].status = index[j].status
    <3>1. CASE UNCHANGED index
      BY <3>1
    <3>2. CASE index' # index
      <4> DEFINE n == index[i].indexed + Cardinality(build[b].page)
      <4>1. index' = [index EXCEPT ![i].indexed = n]
        BY <1>7, <3>2 DEF IncreaseProgress
      <4> HIDE DEF n, i
      <4>2. index[i] \in [status : {"absent", "building", "active", "superseded", "failed"},
                          job : JobStatus, total : Nat, indexed : Nat]
        BY <2>2 DEF Index
      <4>3. \A j \in Indexes : index'[j] = IF j = i THEN [index[i] EXCEPT !.indexed = n]
                                           ELSE index[j]
        BY <2>2, <4>1
      <4>q. QED
        BY <4>2, <4>3
    <3>q. QED
      BY <3>1, <3>2
  <2>4. \A e \in Uploads : Active(e)' = Active(e)
    BY <2>1, <2>3 DEF Active, Doc, Versions
  <2>5. \A e \in Uploads : VersionsOf(e)' = VersionsOf(e)
    BY <2>1 DEF VersionsOf, Versions
  <2>q. QED
    BY <2>1, <2>4, <2>5 DEF SwitchRests, Serving, Shown
<1>8. CASE MarkIndexFailed(b)
  <2>1. UNCHANGED <<document, version, current, overlapped>>
    BY <1>8 DEF MarkIndexFailed, catalogVars
  <2>2. i \in Indexes /\ index \in [Indexes -> Index]
    BY <1>4, <1>8 DEF MarkIndexFailed
  <2>3. index' = [index EXCEPT ![i] = Row(i, "failed", "failed")]
    BY <1>8 DEF MarkIndexFailed
  <2>4. Row(i, "failed", "failed").status = "failed"
    BY DEF Row
  <2> HIDE DEF i
  <2>5. /\ \A j \in Indexes \ {i} : index'[j].status = index[j].status
        /\ index'[i].status # "active"
    BY <2>2, <2>3, <2>4
  <2>q. QED
    BY <1>0, <2>1, <2>2, <2>5, OneIndexStops
<1>9. CASE Activate(b)
  <2>1. CASE Complete(i) /\ Undeleted(i)
    BY <1>0, <1>9, <2>1, ActivationSwitches
  <2>2. CASE ~(Complete(i) /\ Undeleted(i))
    BY <1>1, <1>9, <2>2 DEF Activate
  <2>q. QED
    BY <2>1, <2>2
<1>q. QED
  BY <1>2, <1>3, <1>5, <1>6, <1>7, <1>8, <1>9 DEF StepIndexing

\* A deletion retires the document and nothing else.
LEMMA DeletionSwitches ==
    ASSUME BaseInv, NEW d \in Uploads, Delete(d), UNCHANGED indexVars
    PROVE  Switching!Next
<1>1. UNCHANGED <<version, index, current, overlapped>>
  BY DEF Delete, indexVars
<1>2. Versions' \subseteq Uploads /\ RowsGrow /\ ActiveInv
  BY <1>1 DEF Versions, RowsGrow, BaseInv, IndexInv
<1>3. Serving' = Serving /\ Shown' = Shown
  BY <1>1, <1>2, ServingRests
<1>4. Switching!Delete(d)
  BY <1>1, <1>3 DEF Delete, Switching!Delete
<1>q. QED
  BY <1>4 DEF Switching!Next

LEMMA SwitchSteps ==
    ASSUME BaseInv, BaseInv', [Next]_vars
    PROVE  [Switching!Next]_(Switching!vars)
<1>0. KeepsActive
  BY BaseSteps
<1>1. SwitchRests => UNCHANGED Switching!vars
  BY DEF SwitchRests, Switching!vars
<1>2. NextIngests \subseteq Parsers /\ NextIndexings \subseteq Indexers
  BY DEF NextIngests, NextIndexings, First, Parsers, Indexers
<1>3. ASSUME NEW c \in Parsers, BeginIngest(c) \/ StepIngest(c) \/ StopIngest(c),
             UNCHANGED indexVars
      PROVE  SwitchRests \/ Switching!Next
  BY <1>3, IngestionSwitches
<1>4. ASSUME NEW d \in Uploads, Delete(d), UNCHANGED indexVars
      PROVE  Switching!Next
  BY <1>4, DeletionSwitches
<1>5. ASSUME NEW b \in Indexers, BeginIndexing(b) \/ StepIndexing(b) \/ StopIndexing(b)
      PROVE  SwitchRests \/ Switching!Next
  BY <1>0, <1>5, IndexingSwitches
<1>6. CASE UNCHANGED vars
  <2>1. UNCHANGED <<document, version, index, current, overlapped>>
    BY <1>6 DEF vars, catalogVars, indexVars
  <2>2. Versions' \subseteq Uploads /\ RowsGrow /\ ActiveInv
    BY <2>1 DEF Versions, RowsGrow, BaseInv, IndexInv
  <2>3. SwitchRests
    BY <2>1, <2>2, ServingRests DEF SwitchRests
  <2>q. QED
    BY <1>1, <2>3
<1>q. QED
  BY <1>1, <1>2, <1>3, <1>4, <1>5, <1>6 DEF Next

LEMMA SwitchStarts == Init => Switching!Init
<1> SUFFICES ASSUME Init PROVE Switching!Init
  OBVIOUS
<1>1. document \in [Uploads -> {"absent", "active"}] /\ current = {}
  BY DEF Init, CatalogInit
<1>2. \A i \in Indexes : index[i].status = "absent"
  BY DEF Init, IndexInit
<1>3. overlapped = {}
  BY DEF Init, IndexInit
<1>4. Serving = [d \in Uploads |-> {}]
  BY <1>2 DEF Serving, Active
<1>5. Shown = [d \in Uploads |-> {}]
  BY <1>1 DEF Shown
<1>q. QED
  BY <1>1, <1>3, <1>4, <1>5 DEF Switching!Init

\* However many calls work on however many documents, a document changes the
\* index it serves and its current version together, one document in a step,
\* never after it was deleted, and loses an index only to another one or to
\* attempts that overlap on it.
THEOREM SwitchIsImplemented == Spec => ImplementsSwitch
<1>1. Init => Switching!Init
  BY SwitchStarts
<1>2. BaseInv /\ BaseInv' /\ [Next]_vars => [Switching!Next]_(Switching!vars)
  BY SwitchSteps
<1>q. QED
  BY <1>1, <1>2, BaseInvariant, PTL DEF Spec, ImplementsSwitch, Switching!Spec
=============================================================================

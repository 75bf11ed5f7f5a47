--------------------------- MODULE KnowledgeDictionary -----------------------
(***************************************************************************)
(* Domain terms and their published versions (services/dictionary.py,      *)
(* repositories/dictionary.py, knowledge/dictionary.py).  A term is        *)
(* submitted, reviewed once and published with all approved terms.  A      *)
(* version holds the Jieba artifact (which words, without grouping) and    *)
(* the manifest (which word belongs to which term); the artifact is then   *)
(* written to a file of the server.                                        *)
(*                                                                         *)
(* A transaction reads the rows as of its first query (REPEATABLE READ),   *)
(* while its updates see what is committed and wait for other updates.     *)
(***************************************************************************)
EXTENDS Integers, Sequences, FiniteSets

CONSTANTS
    Terms,        \* knowledge_dictionary_terms: (business domain, term)
    Earlier,      \* the terms that may be approved from the start
    Surfaces,     \* Surfaces[t]: the term and its aliases as written
    Reviewers,    \* calls of review
    Publishers,   \* calls of publish
    Faults,       \* the failures that may happen, see the composition
    None

ASSUME DictionaryAssumption ==
    /\ Earlier \subseteq Terms
    /\ Reviewers \cap Publishers = {}
    /\ None \notin Terms \cup Reviewers \cup Publishers

VARIABLES
    term,         \* the status of every term
    versions,     \* knowledge_dictionary_versions in the order of commits
    deployed,     \* the artifact in the file of the server
    review,       \* the local state of every call of review
    publish,      \* the local state of every call of publish
    crossed,      \* history: a version was committed while the artifact of
                  \* another was still to be written, or it was not written
    refilled      \* history: a manifest was filled in twice, with other terms

dictionaryVars == <<term, versions, deployed, review, publish, crossed, refilled>>

Words == UNION {Surfaces[t] : t \in Terms}

\* A version older than the manifest column has the empty manifest.
Version == [number : Nat \ {0}, status : {"active", "superseded"},
            artifact : SUBSET Words, manifest : SUBSET Terms]

\* read: the approved terms; saw: the position of the active version that was
\* read, 0 if there was none; fill: its manifest was empty; last: the highest
\* number that was read.
PublishCall == [pc : {"idle", "read", "deploying", "syncing", "closed"},
                read : SUBSET Terms, saw : Nat, fill : BOOLEAN, last : Nat,
                artifact : SUBSET Words]

ReviewCall == [pc : {"idle", "read", "closed"}, of : Terms \cup {None}]

DictionaryTypeOK ==
    /\ term \in [Terms -> {"absent", "candidate", "approved", "rejected"}]
    /\ \A n \in DOMAIN versions : versions[n] \in Version
    /\ deployed \in SUBSET Words
    /\ review \in [Reviewers -> ReviewCall]
    /\ publish \in [Publishers -> PublishCall]
    /\ {crossed, refilled} \subseteq BOOLEAN

ReviewAt(pc) == [pc |-> pc, of |-> None]

PublishAt(pc) == [pc |-> pc, read |-> {}, saw |-> 0, fill |-> FALSE,
                  last |-> 0, artifact |-> {}]

Artifact(approved) == UNION {Surfaces[t] : t \in approved}

\* Terms that are approved already; a version of before the manifest column
\* may hold some of them.
DictionaryInit ==
    \E old \in SUBSET Earlier : \E published \in SUBSET old :
       /\ term = [t \in Terms |-> IF t \in old THEN "approved" ELSE "absent"]
       /\ versions = IF published = {} THEN <<>>
                     ELSE <<[number |-> 1, status |-> "active",
                             artifact |-> Artifact(published), manifest |-> {}]>>
       /\ deployed = Artifact(published)
       /\ review = [v \in Reviewers |-> ReviewAt("idle")]
       /\ publish = [p \in Publishers |-> PublishAt("idle")]
       /\ crossed = FALSE
       /\ refilled = FALSE

-----------------------------------------------------------------------------
(* Queries *)

ApprovedTerms == {t \in Terms : term[t] = "approved"}

ActivePositions == {n \in DOMAIN versions : versions[n].status = "active"}

\* active_version asks for no order: any active row.
ActivePosition == IF ActivePositions = {} THEN 0
                  ELSE CHOOSE n \in ActivePositions : TRUE

LastNumber == IF versions = <<>> THEN 0 ELSE versions[Len(versions)].number

ActiveTerms == IF ActivePosition = 0 THEN {}
               ELSE versions[ActivePosition].manifest

\* The words stand for their hash.
DictionaryHash == IF ActivePosition = 0 THEN None
                  ELSE versions[ActivePosition].artifact

-----------------------------------------------------------------------------
(* create_candidate and review *)

\* A term that exists is returned as it is; of two that insert at a time the
\* unique constraint refuses one.
CreateCandidate(t) ==
    /\ term[t] = "absent"
    /\ term' = [term EXCEPT ![t] = "candidate"]
    /\ UNCHANGED <<versions, deployed, review, publish, crossed, refilled>>

ReviewRequest(v, t) ==
    /\ review[v].pc = "idle"
    /\ term[t] = "candidate"
    /\ review' = [review EXCEPT ![v] = [pc |-> "read", of |-> t]]
    /\ UNCHANGED <<term, versions, deployed, publish, crossed, refilled>>

\* The row is written by its key, whatever its status is by now.
DecideTerm(v, status) ==
    /\ review[v].pc = "read"
    /\ term' = [term EXCEPT ![review[v].of] = status]
    /\ review' = [review EXCEPT ![v] = ReviewAt("closed")]
    /\ UNCHANGED <<versions, deployed, publish, crossed, refilled>>

-----------------------------------------------------------------------------
(* publish *)

PublishRequest(p) ==
    /\ publish[p].pc = "idle"
    /\ ApprovedTerms # {}
    /\ publish' = [publish EXCEPT
          ![p] = [pc |-> "read", read |-> ApprovedTerms,
                  saw |-> ActivePosition,
                  fill |-> ActivePosition # 0 /\ ActiveTerms = {},
                  last |-> LastNumber,
                  artifact |-> Artifact(ApprovedTerms)]]
    /\ UNCHANGED <<term, versions, deployed, review, crossed, refilled>>

SameAsActive(p) ==
    /\ publish[p].saw # 0
    /\ versions[publish[p].saw].artifact = publish[p].artifact

Superseded ==
    [n \in DOMAIN versions |-> [versions[n] EXCEPT !.status = "superseded"]]

\* Mutant of NumberTaken: no unique constraint on the number.
HashTaken(p) == \E n \in DOMAIN versions : versions[n].artifact = publish[p].artifact

NumberTaken(p) == \/ HashTaken(p)
                  \/ \E n \in DOMAIN versions :
                        versions[n].number = publish[p].last + 1

\* Another publication or the start filled in other terms since p read.
Refills(p) ==
    /\ publish[p].fill
    /\ versions[publish[p].saw].manifest \notin {{}, publish[p].read}

\* The same artifact publishes nothing, but fills in a missing manifest.
KeepVersion(p) ==
    /\ publish[p].pc = "read"
    /\ SameAsActive(p)
    /\ versions' = IF publish[p].fill
                   THEN [versions EXCEPT
                           ![publish[p].saw].manifest = publish[p].read]
                   ELSE versions
    /\ publish' = [publish EXCEPT ![p].pc = "deploying"]
    /\ crossed' = (crossed \/ versions[publish[p].saw].status # "active")
    /\ refilled' = (refilled \/ Refills(p))
    /\ UNCHANGED <<term, deployed, review>>

\* The unique constraints on number and hash refuse the second of two
\* publications that read the same versions.
CommitVersion(p) ==
    /\ publish[p].pc = "read"
    /\ ~SameAsActive(p)
    /\ IF NumberTaken(p)
       THEN /\ publish' = [publish EXCEPT ![p] = PublishAt("closed")]
            /\ UNCHANGED <<versions, crossed>>
       ELSE /\ versions' = Append(Superseded,
                  [number |-> publish[p].last + 1, status |-> "active",
                   artifact |-> publish[p].artifact,
                   manifest |-> publish[p].read])
            /\ publish' = [publish EXCEPT ![p].pc = "deploying"]
            /\ crossed' = (crossed \/ \E o \in Publishers \ {p} :
                                         publish[o].pc = "deploying")
    /\ UNCHANGED <<term, deployed, review, refilled>>

\* The file is replaced in one step.
DeployArtifact(p) ==
    /\ publish[p].pc = "deploying"
    /\ deployed' = publish[p].artifact
    /\ publish' = [publish EXCEPT ![p] = PublishAt("syncing")]
    /\ UNCHANGED <<term, versions, review, crossed, refilled>>

\* What it raises goes past the synchronisation of the search index.
DeployFails(p) ==
    /\ "file" \in Faults
    /\ publish[p].pc = "deploying"
    /\ publish' = [publish EXCEPT ![p] = PublishAt("closed")]
    /\ crossed' = TRUE
    /\ UNCHANGED <<term, versions, deployed, review, refilled>>

-----------------------------------------------------------------------------
(* sync_active_artifact, when the server starts *)

\* An old version gets its manifest only from approved terms that give the
\* same artifact again.
BackfillManifest ==
    /\ versions' = [n \in DOMAIN versions |->
          IF /\ n = ActivePosition
             /\ versions[n].manifest = {}
             /\ Artifact(ApprovedTerms) = versions[n].artifact
          THEN [versions[n] EXCEPT !.manifest = ApprovedTerms]
          ELSE versions[n]]
    /\ UNCHANGED <<term, deployed, review, publish, crossed, refilled>>

\* No publication is under way.
RepairFile ==
    /\ deployed' = IF ActivePosition = 0 THEN deployed
                   ELSE versions[ActivePosition].artifact
    /\ crossed' = FALSE
    /\ UNCHANGED <<term, versions, review, publish, refilled>>

-----------------------------------------------------------------------------

OpenReviews == {v \in Reviewers : review[v].pc = "read"}

OpenPublishes == {p \in Publishers : publish[p].pc \notin {"idle", "closed"}}

\* The calls of the server end with it.
StopDictionary ==
    /\ review' = [v \in Reviewers |-> IF v \in OpenReviews
                                      THEN ReviewAt("closed") ELSE review[v]]
    /\ publish' = [p \in Publishers |-> IF p \in OpenPublishes
                                        THEN PublishAt("closed") ELSE publish[p]]
    /\ UNCHANGED <<term, versions, deployed, crossed, refilled>>

StepDictionary ==
    \/ \E v \in Reviewers, status \in {"approved", "rejected"} : DecideTerm(v, status)
    \/ \E p \in Publishers : \/ KeepVersion(p)
                             \/ CommitVersion(p)
                             \/ DeployArtifact(p)
                             \/ DeployFails(p)

BeginDictionary ==
    \/ \E v \in Reviewers, t \in Terms : ReviewRequest(v, t)
    \/ \E p \in Publishers : PublishRequest(p)
=============================================================================

------------------------- MODULE SearchService_proofs ------------------------
(***************************************************************************)
(* The dictionary's versions and the read alias of the search index, for   *)
(* every set of terms, index versions, requests, crashes and failures, and *)
(* what the server promises between two calls: the file holds the artifact *)
(* of the active dictionary version, and a server that reports             *)
(* Elasticsearch as ready serves the active knowledge.                     *)
(***************************************************************************)
EXTENDS SearchService, SequenceTheorems, TLAPS

-----------------------------------------------------------------------------
(* The rows of the dictionary's versions *)

\* What the publications rely on: the rows are typed and numbered in order,
\* the last one is active, and no publication read a number that was never
\* given.
VersionsInv ==
    /\ versions \in Seq(Version)
    /\ LastVersionIsActive
    /\ \A p \in Publishers : publish[p].last <= Len(versions)

\* Rows written in place are the same number of rows.
LEMMA RowsInPlace ==
    ASSUME NEW S, NEW s \in Seq(S), NEW f \in [DOMAIN s -> S]
    PROVE  f \in Seq(S) /\ Len(f) = Len(s)
<1>1. Len(s) \in Nat /\ DOMAIN s = 1..Len(s)
  BY LenProperties
<1>2. f \in [1..Len(s) -> S]
  BY <1>1
<1>3. f \in Seq(S)
  BY <1>1, <1>2, SeqDef
<1>4. Len(f) \in Nat /\ DOMAIN f = 1..Len(f)
  BY <1>3, LenProperties
<1>5. 1..Len(f) = 1..Len(s)
  BY <1>2, <1>4
<1>q. QED
  BY <1>1, <1>3, <1>4, <1>5

\* The surfaces of some terms are words.
LEMMA ArtifactTyped ==
    ASSUME NEW T \in SUBSET Terms
    PROVE  Artifact(T) \in SUBSET Words
  BY DEF Artifact, Words

\* The queries answer with what the rows hold.
LEMMA QueriesTyped ==
    ASSUME DictionaryTypeOK, VersionsInv
    PROVE  /\ ActivePosition \in Nat
           /\ ActivePosition # 0 => /\ ActivePosition \in DOMAIN versions
                                    /\ versions[ActivePosition] \in Version
           /\ ApprovedTerms \in SUBSET Terms
           /\ ActiveTerms \in SUBSET Terms
           /\ DictionaryHash \in (SUBSET Words) \cup {None}
           /\ LastNumber = Len(versions)
           /\ Len(versions) \in Nat
           /\ DOMAIN versions = 1..Len(versions)
<1>1. Len(versions) \in Nat /\ DOMAIN versions = 1..Len(versions)
  BY LenProperties DEF VersionsInv
<1>2. \A n \in DOMAIN versions : versions[n] \in Version
  BY DEF DictionaryTypeOK
<1>3. ActivePosition = 0 \/ ActivePosition \in DOMAIN versions
  BY DEF ActivePosition, ActivePositions
<1>4. ActiveTerms \in SUBSET Terms
  BY <1>2, <1>3 DEF ActiveTerms, Version
<1>5. DictionaryHash \in (SUBSET Words) \cup {None}
  BY <1>2, <1>3 DEF DictionaryHash, Version
<1>6. LastNumber = Len(versions)
  <2>1. CASE versions = <<>>
    BY <2>1 DEF LastNumber
  <2>2. CASE versions # <<>>
    <3>1. Len(versions) \in DOMAIN versions
      BY <1>1, <2>2, EmptySeq DEF VersionsInv
    <3>q. QED
      BY <2>2, <3>1 DEF LastNumber, VersionsInv, LastVersionIsActive
  <2>q. QED
    BY <2>1, <2>2
<1>q. QED
  BY <1>1, <1>2, <1>3, <1>4, <1>5, <1>6 DEF ApprovedTerms

LEMMA DictionaryStarts ==
    ASSUME DictionaryInit
    PROVE  DictionaryTypeOK /\ VersionsInv
<1>1. PICK old \in SUBSET Earlier : \E published \in SUBSET old :
         /\ term = [t \in Terms |-> IF t \in old THEN "approved" ELSE "absent"]
         /\ versions = IF published = {} THEN <<>>
                       ELSE <<[number |-> 1, status |-> "active",
                               artifact |-> Artifact(published), manifest |-> {}]>>
         /\ deployed = Artifact(published)
         /\ review = [v \in Reviewers |-> ReviewAt("idle")]
         /\ publish = [p \in Publishers |-> PublishAt("idle")]
         /\ crossed = FALSE
         /\ refilled = FALSE
  BY DEF DictionaryInit
<1>p. PICK published \in SUBSET old :
         /\ versions = IF published = {} THEN <<>>
                       ELSE <<[number |-> 1, status |-> "active",
                               artifact |-> Artifact(published), manifest |-> {}]>>
         /\ deployed = Artifact(published)
  BY <1>1
<1>2. Artifact(published) \in SUBSET Words
  BY <1>p, ArtifactTyped, DictionaryAssumption
<1>3. review \in [Reviewers -> ReviewCall] /\ publish \in [Publishers -> PublishCall]
  BY <1>1 DEF ReviewAt, ReviewCall, PublishAt, PublishCall
<1>4. /\ versions \in Seq(Version)
      /\ \A n \in DOMAIN versions : versions[n] \in Version
      /\ Len(versions) \in Nat
      /\ LastVersionIsActive
  <2>1. CASE published # {}
    <3> DEFINE row == [number |-> 1, status |-> "active",
                       artifact |-> Artifact(published), manifest |-> {}]
    <3>1. versions = <<row>> /\ row \in Version
      <4>1. versions = <<row>>
        BY <1>p, <2>1
      <4>2. row \in Version
        BY <1>2 DEF Version
      <4>q. QED
        BY <4>1, <4>2
    <3>2. /\ versions \in Seq(Version)
          /\ Len(versions) = 1
          /\ DOMAIN versions = {1}
          /\ versions[1] = row
      BY <3>1
    <3>q. QED
      BY <3>1, <3>2 DEF LastVersionIsActive
  <2>2. CASE published = {}
    BY <1>p, <2>2 DEF LastVersionIsActive
  <2>q. QED
    BY <2>1, <2>2
<1>5. \A p \in Publishers : publish[p].last <= Len(versions)
  BY <1>1, <1>4 DEF PublishAt
<1>6. term \in [Terms -> {"absent", "candidate", "approved", "rejected"}]
  BY <1>1
<1>7. {crossed, refilled} \subseteq BOOLEAN
  BY <1>1
<1>q. QED
  BY <1>p, <1>2, <1>3, <1>4, <1>5, <1>6, <1>7 DEF DictionaryTypeOK, VersionsInv

-----------------------------------------------------------------------------
(* The steps of the dictionary *)

\* A publication that ends or goes on to synchronise forgets what it read.
LEMMA PublicationReset ==
    ASSUME DictionaryTypeOK, VersionsInv, NEW p \in Publishers,
           NEW pc \in {"closed", "syncing"},
           publish' = [publish EXCEPT ![p] = PublishAt(pc)]
    PROVE  /\ publish' \in [Publishers -> PublishCall]
           /\ \A o \in Publishers : publish'[o].last <= Len(versions)
<1>1. PublishAt(pc) \in PublishCall /\ PublishAt(pc).last = 0
  BY DEF PublishAt, PublishCall
<1>2. publish \in [Publishers -> PublishCall]
  BY DEF DictionaryTypeOK
<1>3. publish'[p] = PublishAt(pc) /\ \A o \in Publishers \ {p} : publish'[o] = publish[o]
  BY <1>2
<1>4. publish' \in [Publishers -> PublishCall]
  BY <1>1, <1>2
<1>q. QED
  BY <1>1, <1>3, <1>4, QueriesTyped DEF VersionsInv

\* A publication that goes on to deploy keeps what it read.
LEMMA PublicationDeploys ==
    ASSUME DictionaryTypeOK, NEW p \in Publishers,
           publish' = [publish EXCEPT ![p].pc = "deploying"]
    PROVE  /\ publish' \in [Publishers -> PublishCall]
           /\ \A o \in Publishers : publish'[o].last = publish[o].last
<1>1. publish \in [Publishers -> PublishCall]
  BY DEF DictionaryTypeOK
<1>q. QED
  BY <1>1 DEF PublishCall

\* Candidates, reviews and failed deployments leave the rows alone.
LEMMA SubmitsAndReviews ==
    ASSUME DictionaryTypeOK, VersionsInv,
           \/ \E t \in Terms : CreateCandidate(t)
           \/ \E v \in Reviewers, t \in Terms : ReviewRequest(v, t)
           \/ \E v \in Reviewers, status \in {"approved", "rejected"} :
                 DecideTerm(v, status)
           \/ \E p \in Publishers : DeployFails(p)
           \/ \E p \in Publishers : DeployArtifact(p)
    PROVE  DictionaryTypeOK' /\ VersionsInv'
<1>1. ASSUME NEW t \in Terms, CreateCandidate(t)
      PROVE  DictionaryTypeOK' /\ VersionsInv'
  BY <1>1 DEF CreateCandidate, DictionaryTypeOK, VersionsInv, LastVersionIsActive
<1>2. ASSUME NEW v \in Reviewers, NEW t \in Terms, ReviewRequest(v, t)
      PROVE  DictionaryTypeOK' /\ VersionsInv'
  <2>1. review' \in [Reviewers -> ReviewCall]
    BY <1>2 DEF ReviewRequest, DictionaryTypeOK, ReviewCall
  <2>q. QED
    BY <1>2, <2>1 DEF ReviewRequest, DictionaryTypeOK, VersionsInv, LastVersionIsActive
<1>3. ASSUME NEW v \in Reviewers, NEW status \in {"approved", "rejected"},
             DecideTerm(v, status)
      PROVE  DictionaryTypeOK' /\ VersionsInv'
  <2>1. review' \in [Reviewers -> ReviewCall]
    BY <1>3 DEF DecideTerm, DictionaryTypeOK, ReviewAt, ReviewCall
  <2>2. term' \in [Terms -> {"absent", "candidate", "approved", "rejected"}]
    BY <1>3 DEF DecideTerm, DictionaryTypeOK
  <2>q. QED
    BY <1>3, <2>1, <2>2 DEF DecideTerm, DictionaryTypeOK, VersionsInv, LastVersionIsActive
<1>4. ASSUME NEW p \in Publishers, DeployFails(p) \/ DeployArtifact(p)
      PROVE  DictionaryTypeOK' /\ VersionsInv'
  <2>0. PICK pc \in {"closed", "syncing"} :
          publish' = [publish EXCEPT ![p] = PublishAt(pc)]
    BY <1>4 DEF DeployFails, DeployArtifact
  <2>1. /\ publish' \in [Publishers -> PublishCall]
        /\ \A o \in Publishers : publish'[o].last <= Len(versions)
    BY <2>0, PublicationReset
  <2>2. deployed' \in SUBSET Words /\ crossed' \in BOOLEAN
    BY <1>4 DEF DeployFails, DeployArtifact, DictionaryTypeOK, PublishCall
  <2>q. QED
    BY <1>4, <2>1, <2>2
    DEF DeployFails, DeployArtifact, DictionaryTypeOK, VersionsInv, LastVersionIsActive
<1>q. QED
  BY <1>1, <1>2, <1>3, <1>4

\* A publication begins by reading the rows; it reads the last number.
LEMMA PublishBegins ==
    ASSUME DictionaryTypeOK, VersionsInv, NEW p \in Publishers, PublishRequest(p)
    PROVE  DictionaryTypeOK' /\ VersionsInv'
<1>1. Artifact(ApprovedTerms) \in SUBSET Words
  BY QueriesTyped, ArtifactTyped
<1>2. publish' \in [Publishers -> PublishCall]
  BY <1>1, QueriesTyped DEF PublishRequest, DictionaryTypeOK, PublishCall
<1>3. \A o \in Publishers : publish'[o].last <= Len(versions)
  BY QueriesTyped DEF PublishRequest, DictionaryTypeOK, VersionsInv
<1>q. QED
  BY <1>2, <1>3 DEF PublishRequest, DictionaryTypeOK, VersionsInv, LastVersionIsActive

\* Rows written in place keep their numbers and their statuses.
LEMMA ManifestFilled ==
    ASSUME DictionaryTypeOK, VersionsInv,
           DOMAIN versions' = DOMAIN versions,
           versions' \in [DOMAIN versions -> Version],
           \A n \in DOMAIN versions : /\ versions'[n].number = versions[n].number
                                      /\ versions'[n].status = versions[n].status
    PROVE  /\ versions' \in Seq(Version)
           /\ Len(versions') = Len(versions)
           /\ LastVersionIsActive'
           /\ \A n \in DOMAIN versions' : versions'[n] \in Version
<1>1. versions' \in Seq(Version) /\ Len(versions') = Len(versions)
  BY RowsInPlace DEF VersionsInv
<1>q. QED
  BY <1>1 DEF VersionsInv, LastVersionIsActive

\* A publication of the active artifact fills in the manifest of its row.
LEMMA KeepsVersion ==
    ASSUME DictionaryTypeOK, VersionsInv, NEW p \in Publishers, KeepVersion(p)
    PROVE  DictionaryTypeOK' /\ VersionsInv'
<1>1. /\ publish[p].read \in SUBSET Terms
      /\ \A n \in DOMAIN versions : versions[n] \in Version
  BY DEF DictionaryTypeOK, PublishCall
<1>2. versions \in [DOMAIN versions -> Version]
  BY QueriesTyped, LenProperties DEF VersionsInv
<1>3. /\ DOMAIN versions' = DOMAIN versions
      /\ versions' \in [DOMAIN versions -> Version]
      /\ \A n \in DOMAIN versions : /\ versions'[n].number = versions[n].number
                                   /\ versions'[n].status = versions[n].status
  <2>1. CASE publish[p].fill
    <3>1. versions' = [versions EXCEPT ![publish[p].saw].manifest = publish[p].read]
      BY <2>1 DEF KeepVersion
    <3>q. QED
      BY <1>1, <1>2, <3>1 DEF Version
  <2>2. CASE ~publish[p].fill
    BY <1>2, <2>2 DEF KeepVersion
  <2>q. QED
    BY <2>1, <2>2
<1>4. /\ versions' \in Seq(Version)
      /\ Len(versions') = Len(versions)
      /\ LastVersionIsActive'
      /\ \A n \in DOMAIN versions' : versions'[n] \in Version
  BY <1>3, ManifestFilled
<1>p. publish' = [publish EXCEPT ![p].pc = "deploying"]
  BY DEF KeepVersion
<1>5. publish' \in [Publishers -> PublishCall]
  BY <1>p, PublicationDeploys
<1>6. \A o \in Publishers : publish'[o].last <= Len(versions')
  BY <1>4, <1>p, PublicationDeploys DEF VersionsInv
<1>7. crossed' \in BOOLEAN
  BY DEF KeepVersion, DictionaryTypeOK
<1>q. QED
  BY <1>4, <1>5, <1>6, <1>7 DEF KeepVersion, DictionaryTypeOK, VersionsInv

\* A publication whose number is free read all rows: the new row is the next
\* one, and every other one is superseded.
LEMMA CommitsVersion ==
    ASSUME DictionaryTypeOK, VersionsInv, NEW p \in Publishers, CommitVersion(p)
    PROVE  DictionaryTypeOK' /\ VersionsInv'
<1>1. CASE NumberTaken(p)
  <2>0. publish' = [publish EXCEPT ![p] = PublishAt("closed")]
    BY <1>1 DEF CommitVersion
  <2>1. publish' \in [Publishers -> PublishCall]
    BY <2>0, PublicationReset
  <2>2. \A o \in Publishers : publish'[o].last <= Len(versions)
    BY <2>0, PublicationReset
  <2>q. QED
    BY <1>1, <2>1, <2>2
    DEF CommitVersion, DictionaryTypeOK, VersionsInv, LastVersionIsActive
<1>2. CASE ~NumberTaken(p)
  <2> DEFINE row == [number |-> publish[p].last + 1, status |-> "active",
                     artifact |-> publish[p].artifact,
                     manifest |-> publish[p].read]
  <2>0. /\ Len(versions) \in Nat
        /\ DOMAIN versions = 1..Len(versions)
        /\ \A n \in DOMAIN versions : versions[n] \in Version
    BY QueriesTyped DEF DictionaryTypeOK
  <2>1. publish[p].last \in Nat /\ row \in Version
    BY DEF DictionaryTypeOK, PublishCall, Version
  <2>2. publish[p].last = Len(versions)
    <3>1. publish[p].last + 1 \notin DOMAIN versions
      BY <1>2 DEF NumberTaken, VersionsInv, LastVersionIsActive
    <3>q. QED
      BY <2>0, <2>1, <3>1 DEF VersionsInv
  <2>3. Superseded \in Seq(Version) /\ Len(Superseded) = Len(versions)
    <3>1. Superseded \in [DOMAIN versions -> Version]
      BY <2>0 DEF Superseded, Version
    <3>q. QED
      BY <3>1, RowsInPlace DEF VersionsInv
  <2>4. versions' = Append(Superseded, row)
    BY <1>2 DEF CommitVersion
  <2>5. /\ versions' \in Seq(Version)
        /\ Len(versions') = Len(versions) + 1
        /\ DOMAIN versions' = 1..(Len(versions) + 1)
        /\ versions'[Len(versions) + 1] = row
        /\ \A n \in 1..Len(versions) : versions'[n] = Superseded[n]
    BY <2>0, <2>1, <2>3, <2>4
  <2>6. \A n \in 1..Len(versions) : /\ versions'[n].number = n
                                    /\ versions'[n].status = "superseded"
    <3> SUFFICES ASSUME NEW n \in 1..Len(versions)
                 PROVE  versions'[n].number = n /\ versions'[n].status = "superseded"
      OBVIOUS
    <3>1. versions'[n] = [versions[n] EXCEPT !.status = "superseded"]
      BY <2>0, <2>5 DEF Superseded
    <3>2. versions[n] \in Version /\ versions[n].number = n
      BY <2>0 DEF VersionsInv, LastVersionIsActive
    <3>q. QED
      BY <3>1, <3>2 DEF Version
  <2>7. LastVersionIsActive'
    BY <2>0, <2>2, <2>5, <2>6 DEF LastVersionIsActive
  <2>8. \A n \in DOMAIN versions' : versions'[n] \in Version
    BY <2>5, LenProperties
  <2>p. publish' = [publish EXCEPT ![p].pc = "deploying"]
    BY <1>2 DEF CommitVersion
  <2>9. publish' \in [Publishers -> PublishCall]
    BY <2>p, PublicationDeploys
  <2>10. \A o \in Publishers : publish'[o].last <= Len(versions')
    <3>1. \A o \in Publishers : publish'[o].last = publish[o].last
      BY <2>p, PublicationDeploys
    <3>2. \A o \in Publishers : publish[o].last \in Nat
      BY DEF DictionaryTypeOK, PublishCall
    <3>q. QED
      BY <2>0, <2>5, <3>1, <3>2 DEF VersionsInv
  <2>11. crossed' \in BOOLEAN
    BY <1>2 DEF CommitVersion, DictionaryTypeOK
  <2>q. QED
    BY <2>5, <2>7, <2>8, <2>9, <2>10, <2>11
    DEF CommitVersion, DictionaryTypeOK, VersionsInv
<1>q. QED
  BY <1>1, <1>2

\* The start fills in the manifest of the active row.
LEMMA BackfillsManifest ==
    ASSUME DictionaryTypeOK, VersionsInv, BackfillManifest
    PROVE  DictionaryTypeOK' /\ VersionsInv'
<1>1. \A n \in DOMAIN versions : versions[n] \in Version
  BY DEF DictionaryTypeOK
<1>2. ApprovedTerms \in SUBSET Terms
  BY QueriesTyped
<1>3. \A n \in DOMAIN versions :
         /\ [versions[n] EXCEPT !.manifest = ApprovedTerms] \in Version
         /\ [versions[n] EXCEPT !.manifest = ApprovedTerms].number = versions[n].number
         /\ [versions[n] EXCEPT !.manifest = ApprovedTerms].status = versions[n].status
  BY <1>1, <1>2 DEF Version
<1>4. /\ DOMAIN versions' = DOMAIN versions
      /\ versions' \in [DOMAIN versions -> Version]
      /\ \A n \in DOMAIN versions : /\ versions'[n].number = versions[n].number
                                   /\ versions'[n].status = versions[n].status
  BY <1>1, <1>3 DEF BackfillManifest
<1>5. /\ versions' \in Seq(Version)
      /\ Len(versions') = Len(versions)
      /\ LastVersionIsActive'
      /\ \A n \in DOMAIN versions' : versions'[n] \in Version
  BY <1>4, ManifestFilled
<1>q. QED
  BY <1>5 DEF BackfillManifest, DictionaryTypeOK, VersionsInv

\* A death of the server ends the calls and leaves the rows.
LEMMA DictionaryStops ==
    ASSUME DictionaryTypeOK, VersionsInv, StopDictionary
    PROVE  DictionaryTypeOK' /\ VersionsInv'
<1>1. review' \in [Reviewers -> ReviewCall]
  BY DEF StopDictionary, DictionaryTypeOK, ReviewAt, ReviewCall
<1>2. PublishAt("closed") \in PublishCall /\ PublishAt("closed").last = 0
  BY DEF PublishAt, PublishCall
<1>3. publish' \in [Publishers -> PublishCall]
  BY <1>2 DEF StopDictionary, DictionaryTypeOK
<1>4. \A p \in Publishers : publish'[p].last <= Len(versions)
  BY <1>2, QueriesTyped DEF StopDictionary, VersionsInv
<1>q. QED
  BY <1>1, <1>3, <1>4
  DEF StopDictionary, DictionaryTypeOK, VersionsInv, LastVersionIsActive

\* The start writes the artifact of the active row.
LEMMA FileRepaired ==
    ASSUME DictionaryTypeOK, VersionsInv, RepairFile
    PROVE  DictionaryTypeOK' /\ VersionsInv'
<1>1. deployed' \in SUBSET Words
  BY QueriesTyped DEF RepairFile, DictionaryTypeOK, Version
<1>q. QED
  BY <1>1 DEF RepairFile, DictionaryTypeOK, VersionsInv, LastVersionIsActive

\* What the dictionary does while requests run.
LEMMA DictionarySteps ==
    ASSUME DictionaryTypeOK, VersionsInv,
           \/ StepDictionary
           \/ BeginDictionary
           \/ \E t \in Terms : CreateCandidate(t)
    PROVE  DictionaryTypeOK' /\ VersionsInv'
  BY SubmitsAndReviews, PublishBegins, KeepsVersion, CommitsVersion
  DEF StepDictionary, BeginDictionary

LEMMA DictionaryStays ==
    ASSUME DictionaryTypeOK, VersionsInv, UNCHANGED dictionaryVars
    PROVE  DictionaryTypeOK' /\ VersionsInv'
  BY DEF dictionaryVars, DictionaryTypeOK, VersionsInv, LastVersionIsActive

-----------------------------------------------------------------------------
(* The versions *)

DictionaryInv == DictionaryTypeOK /\ VersionsInv

\* A publication that deployed goes on; it forgot what it read.
LEMMA PublicationGoesOn ==
    ASSUME DictionaryInv, NEW p \in Publishers, PublishSynchronizes(p)
    PROVE  DictionaryInv'
<1>1. publish' = [publish EXCEPT ![p] = PublishAt("closed")]
  BY DEF PublishSynchronizes
<1>2. /\ publish' \in [Publishers -> PublishCall]
      /\ \A o \in Publishers : publish'[o].last <= Len(versions)
  BY <1>1, PublicationReset DEF DictionaryInv
<1>q. QED
  BY <1>2
  DEF PublishSynchronizes, DictionaryInv, DictionaryTypeOK, VersionsInv,
      LastVersionIsActive

LEMMA DictionaryStep ==
    ASSUME DictionaryInv, [Next]_vars
    PROVE  DictionaryInv'
<1>1. CASE \E down \in SUBSET Dependencies : StartServer(down)
  BY <1>1, DictionaryStays DEF StartServer, DictionaryInv
<1>2. CASE RepairManifest
  BY <1>2, BackfillsManifest DEF RepairManifest, DictionaryInv
<1>9. CASE RepairFails
  BY <1>9
  DEF RepairFails, DictionaryInv, DictionaryTypeOK, VersionsInv, LastVersionIsActive
<1>3. CASE RepairArtifact
  <2>1. CASE HealFile
    BY <2>1, FileRepaired DEF HealFile, DictionaryInv
  <2>2. CASE crossed' = TRUE /\ UNCHANGED <<term, versions, deployed, review, publish, refilled>>
    BY <2>2 DEF DictionaryInv, DictionaryTypeOK, VersionsInv, LastVersionIsActive
  <2>q. QED
    BY <1>3, <2>1, <2>2 DEF RepairArtifact
<1>4. CASE Serve
  BY <1>4, DictionaryStays DEF Serve, DictionaryInv
<1>5. CASE Crash
  BY <1>5, DictionaryStops DEF Crash, DictionaryInv
<1>6. CASE \/ StepDictionary
           \/ BeginDictionary
           \/ \E t \in Terms : CreateCandidate(t)
  BY <1>6, DictionarySteps DEF DictionaryInv
<1>7. CASE \E p \in Publishers : PublishSynchronizes(p)
  BY <1>7, PublicationGoesOn
<1>8. CASE UNCHANGED dictionaryVars
  BY <1>8, DictionaryStays DEF DictionaryInv
<1>q. QED
  BY <1>1, <1>2, <1>3, <1>4, <1>5, <1>6, <1>7, <1>8, <1>9 DEF Next, vars

\* The versions are numbered in the order of their commits and the last one
\* is the active one, for every number of publications (dictionary.publish).
THEOREM VersionsInOrder == Spec => []LastVersionIsActive
<1>1. Init => DictionaryInv
  BY DictionaryStarts DEF Init, DictionaryInv
<1>2. DictionaryInv /\ [Next]_vars => DictionaryInv'
  BY DictionaryStep
<1>3. DictionaryInv => LastVersionIsActive
  BY DEF DictionaryInv, VersionsInv
<1>q. QED
  BY <1>1, <1>2, <1>3, PTL DEF Spec

-----------------------------------------------------------------------------
(* The types of the synchronisation *)

LEMMA SyncAtTyped ==
    \A pc \in {"idle", "waiting", "closed"} : SyncAt(pc) \in SyncCall
  BY DEF SyncAt, SyncCall

\* One call that moves leaves the others as they are.
LEMMA SyncAssign ==
    ASSUME LexicalTypeOK, NEW c \in Syncers
    PROVE  /\ \A s \in SyncCall : [sync EXCEPT ![c] = s] \in [Syncers -> SyncCall]
           /\ \A pc \in {"idle", "waiting", "probing", "deleting", "creating",
                         "writing", "cleaning", "closed"} :
                 [sync EXCEPT ![c].pc = pc] \in [Syncers -> SyncCall]
           /\ [sync EXCEPT ![c].pc = "cleaning", ![c].todo = {}]
                 \in [Syncers -> SyncCall]
           /\ \A r : [sync EXCEPT ![c].todo = @ \ {r}] \in [Syncers -> SyncCall]
<1>1. sync \in [Syncers -> SyncCall]
  BY DEF LexicalTypeOK
<1>2. sync[c] \in SyncCall
  BY <1>1
<1>3. /\ \A pc \in {"idle", "waiting", "probing", "deleting", "creating",
                    "writing", "cleaning", "closed"} :
            [sync[c] EXCEPT !.pc = pc] \in SyncCall
      /\ [sync[c] EXCEPT !.pc = "cleaning", !.todo = {}] \in SyncCall
      /\ \A r : [sync[c] EXCEPT !.todo = @ \ {r}] \in SyncCall
  BY <1>2 DEF SyncCall
<1>q. QED
  BY <1>1, <1>3

LEMMA SnapshotTyped ==
    ASSUME DictionaryInv, LexicalTypeOK
    PROVE  /\ Snapshot \in SUBSET Records
           /\ GenerationNow \in Generation
           /\ {r.index : r \in Snapshot} = active
           /\ GenerationNow.indexes = active
<1>1. \A i \in active : Matched(i) \in SUBSET Terms
  BY QueriesTyped DEF Matched, DictionaryInv
<1>2. \A i \in active : [index |-> i, terms |-> Matched(i)] \in Records
  BY <1>1 DEF Records, LexicalTypeOK
<1>3. GenerationNow \in Generation
  BY QueriesTyped DEF GenerationNow, Generation, DictionaryInv, LexicalTypeOK
<1>4. Snapshot \in SUBSET Records
  BY <1>2 DEF Snapshot
<1>5. {r.index : r \in Snapshot} \subseteq active
  BY DEF Snapshot
<1>6. active \subseteq {r.index : r \in Snapshot}
  <2>1. ASSUME NEW i \in active
        PROVE  i \in {r.index : r \in Snapshot}
    <3>1. [index |-> i, terms |-> Matched(i)] \in Snapshot
      BY DEF Snapshot
    <3>2. [index |-> i, terms |-> Matched(i)].index = i
      OBVIOUS
    <3>q. QED
      BY <3>1, <3>2
  <2>q. QED
    BY <2>1
<1>q. QED
  BY <1>3, <1>4, <1>5, <1>6 DEF GenerationNow

\* A call that works knows the generation it builds.
LexicalInv ==
    /\ LexicalTypeOK
    /\ \A c \in Rebuilding : sync[c].gen \in Generation

\* Only the local state of one call, and what it answers, changes.
LEMMA CallTyped ==
    ASSUME LexicalInv, NEW c \in Syncers, NEW s \in SyncCall,
           sync' = [sync EXCEPT ![c] = s],
           s.pc \notin {"idle", "waiting", "closed"} => s.gen \in Generation
    PROVE  /\ sync' \in [Syncers -> SyncCall]
           /\ \A d \in Rebuilding' : sync'[d].gen \in Generation
<1>1. sync \in [Syncers -> SyncCall]
  BY DEF LexicalInv, LexicalTypeOK
<1>2. /\ sync' \in [Syncers -> SyncCall]
      /\ sync'[c] = s
      /\ \A d \in Syncers \ {c} : sync'[d] = sync[d]
  BY <1>1
<1>q. QED
  BY <1>2 DEF Rebuilding, LexicalInv

\* A call that goes on, or forgets what it had to write.
LEMMA CallGoesOn ==
    ASSUME LexicalInv, NEW c \in Rebuilding,
           NEW pc \in {"probing", "deleting", "creating", "writing", "cleaning"},
           NEW todo \in SUBSET sync[c].todo,
           sync' = [sync EXCEPT ![c] = [pc |-> pc, gen |-> sync[c].gen, todo |-> todo]]
    PROVE  /\ sync' \in [Syncers -> SyncCall]
           /\ \A d \in Rebuilding' : sync'[d].gen \in Generation
<1>1. c \in Syncers /\ sync[c].gen \in Generation /\ sync[c] \in SyncCall
  BY DEF LexicalInv, LexicalTypeOK, Rebuilding
<1>2. [pc |-> pc, gen |-> sync[c].gen, todo |-> todo] \in SyncCall
  BY <1>1 DEF SyncCall
<1>q. QED
  BY <1>1, <1>2, CallTyped

\* A call that ends.
LEMMA CallEnds ==
    ASSUME LexicalInv, NEW c \in Syncers,
           NEW result \in {"succeeded", "failed"}, Finish(c, result)
    PROVE  /\ sync' \in [Syncers -> SyncCall]
           /\ \A d \in Rebuilding' : sync'[d].gen \in Generation
           /\ lastResult' \in {"none", "succeeded", "failed"}
<1>1. SyncAt("closed") \in SyncCall /\ SyncAt("closed").pc = "closed"
  BY SyncAtTyped DEF SyncAt
<1>2. sync' = [sync EXCEPT ![c] = SyncAt("closed")]
  BY DEF Finish
<1>3. lastResult' \in {"none", "succeeded", "failed"}
  BY DEF Finish, LexicalInv, LexicalTypeOK
<1>q. QED
  BY <1>1, <1>2, <1>3, CallTyped

\* What is written to a call's fields, as one record.
LEMMA CallFields ==
    ASSUME LexicalInv, NEW c \in Rebuilding
    PROVE  /\ \A pc : [sync EXCEPT ![c].pc = pc] =
                 [sync EXCEPT ![c] = [pc |-> pc, gen |-> sync[c].gen,
                                      todo |-> sync[c].todo]]
           /\ \A r : [sync EXCEPT ![c].todo = @ \ {r}] =
                 [sync EXCEPT ![c] = [pc |-> sync[c].pc, gen |-> sync[c].gen,
                                      todo |-> sync[c].todo \ {r}]]
<1>1. sync \in [Syncers -> SyncCall] /\ c \in Syncers
  BY DEF LexicalInv, LexicalTypeOK, Rebuilding
<1>2. sync[c] \in SyncCall
  BY <1>1
<1>3. \A pc : [sync[c] EXCEPT !.pc = pc] =
             [pc |-> pc, gen |-> sync[c].gen, todo |-> sync[c].todo]
  BY <1>2 DEF SyncCall
<1>4. \A r : [sync[c] EXCEPT !.todo = @ \ {r}] =
            [pc |-> sync[c].pc, gen |-> sync[c].gen, todo |-> sync[c].todo \ {r}]
  BY <1>2 DEF SyncCall
<1>5. \A pc : [sync EXCEPT ![c].pc = pc] = [sync EXCEPT ![c] = [sync[c] EXCEPT !.pc = pc]]
  BY <1>1
<1>6. \A r : [sync EXCEPT ![c].todo = @ \ {r}] =
            [sync EXCEPT ![c] = [sync[c] EXCEPT !.todo = @ \ {r}]]
  BY <1>1
<1>q. QED
  BY <1>3, <1>4, <1>5, <1>6

\* The other part of the types: the physical indexes and the alias.
StoreTyped ==
    /\ DOMAIN indices \subseteq Generation
    /\ \A g \in DOMAIN indices : indices[g] \in SUBSET Records
    /\ alias \in Generation \cup {None}

\* Removing an index, and writing one, keeps the types.
LEMMA StoreAssign ==
    ASSUME StoreTyped, NEW g \in Generation,
           alias' \in {alias, g, None},
           \/ indices' = indices
           \/ indices' = Without(g)
           \/ \E docs \in SUBSET Records : indices' = With(g, docs)
    PROVE  StoreTyped'
<1>1. CASE indices' = indices
  BY <1>1 DEF StoreTyped
<1>2. CASE indices' = Without(g)
  BY <1>2 DEF StoreTyped, Without
<1>3. ASSUME NEW docs \in SUBSET Records, indices' = With(g, docs)
      PROVE  StoreTyped'
  BY <1>3 DEF StoreTyped, With
<1>q. QED
  BY <1>1, <1>2, <1>3

\* Every step of a call keeps the types, and the generation it builds.
LEMMA SyncTyped ==
    ASSUME DictionaryInv, LexicalInv, NEW c \in Syncers, StepSync(c)
    PROVE  LexicalInv'
<1>s. /\ sync[c] \in SyncCall
      /\ sync[c].todo \in SUBSET Records
      /\ StoreTyped
  BY DEF LexicalInv, LexicalTypeOK, SyncCall, StoreTyped
<1>1. CASE TakeSnapshot(c)
  <2> DEFINE s == [pc |-> "probing", gen |-> GenerationNow, todo |-> Snapshot]
  <2>1. s \in SyncCall /\ s.gen \in Generation
    BY SnapshotTyped DEF SyncCall, LexicalInv
  <2>2. sync' = [sync EXCEPT ![c] = s]
    BY <1>1 DEF TakeSnapshot
  <2>3. /\ sync' \in [Syncers -> SyncCall]
        /\ \A d \in Rebuilding' : sync'[d].gen \in Generation
    BY <2>1, <2>2, CallTyped
  <2>4. missed' \in BOOLEAN /\ contended' \in BOOLEAN
    BY <1>1 DEF TakeSnapshot, LexicalInv, LexicalTypeOK
  <2>q. QED
    BY <1>1, <2>3, <2>4 DEF TakeSnapshot, LexicalInv, LexicalTypeOK
<1>b. ASSUME c \in Rebuilding,
             \/ \E result \in {"succeeded", "failed"} : Finish(c, result)
             \/ /\ \E pc \in {"probing", "deleting", "creating", "writing",
                               "cleaning"}, todo \in SUBSET sync[c].todo :
                      sync' = [sync EXCEPT ![c] = [pc |-> pc, gen |-> sync[c].gen,
                                                   todo |-> todo]]
                /\ UNCHANGED lastResult,
             StoreTyped',
             UNCHANGED <<active, contended, missed>>,
             swallowed' \in {swallowed, TRUE}
      PROVE  LexicalInv'
  <2>1. /\ sync' \in [Syncers -> SyncCall]
        /\ \A d \in Rebuilding' : sync'[d].gen \in Generation
        /\ lastResult' \in {"none", "succeeded", "failed"}
    BY <1>b, CallEnds, CallGoesOn DEF LexicalInv, LexicalTypeOK
  <2>q. QED
    BY <1>b, <2>1 DEF LexicalInv, LexicalTypeOK, StoreTyped
<1>2. ASSUME ~TakeSnapshot(c)
      PROVE  c \in Rebuilding /\ sync[c].gen \in Generation
  BY <1>2 DEF StepSync, Probe, DeleteLeftover, CreatePhysical, WriteBatch, SwitchAlias,
     SwitchUnanswered, SearchFails, CleanUp, Rebuilding, LexicalInv
<1>3. CASE Probe(c)
  <2>1. c \in Rebuilding
    BY <1>2, <1>3 DEF Probe, TakeSnapshot
  <2>2. StoreTyped'
    BY <1>3, <1>s DEF Probe, StoreTyped
  <2>3. CASE Finish(c, "succeeded")
    BY <1>3, <1>b, <2>1, <2>2, <2>3 DEF Probe
  <2>4. ASSUME NEW pc \in {"deleting", "creating"}, UNCHANGED lastResult,
               sync' = [sync EXCEPT ![c].pc = pc]
        PROVE  LexicalInv'
    <3>1. sync' = [sync EXCEPT ![c] = [pc |-> pc, gen |-> sync[c].gen,
                                       todo |-> sync[c].todo]]
      BY <2>1, <2>4, CallFields
    <3>2. UNCHANGED <<active, contended, swallowed, missed>>
      BY <1>3 DEF Probe
    <3>q. QED
      BY <1>b, <2>1, <2>2, <2>4, <3>1, <3>2
  <2>q. QED
    BY <1>3, <2>3, <2>4 DEF Probe
<1>4. CASE DeleteLeftover(c)
  <2>1. c \in Rebuilding /\ sync[c].gen \in Generation
    BY <1>2, <1>4 DEF DeleteLeftover, TakeSnapshot
  <2>2. StoreTyped'
    BY <1>4, <1>s, <2>1, StoreAssign DEF DeleteLeftover
  <2>3. CASE Finish(c, "failed")
    BY <1>4, <1>b, <2>1, <2>2, <2>3 DEF DeleteLeftover
  <2>4. CASE sync' = [sync EXCEPT ![c].pc = "creating"] /\ UNCHANGED lastResult
    BY <1>4, <1>b, <2>1, <2>2, <2>4, CallFields DEF DeleteLeftover
  <2>q. QED
    BY <1>4, <2>3, <2>4 DEF DeleteLeftover
<1>5. CASE CreatePhysical(c)
  <2>1. c \in Rebuilding /\ sync[c].gen \in Generation
    BY <1>2, <1>5 DEF CreatePhysical, TakeSnapshot
  <2>2. StoreTyped'
    BY <1>5, <1>s, <2>1, StoreAssign DEF CreatePhysical
  <2>3. CASE Finish(c, "failed")
    BY <1>5, <1>b, <2>1, <2>2, <2>3 DEF CreatePhysical
  <2>4. CASE sync' = [sync EXCEPT ![c].pc = "writing"] /\ UNCHANGED lastResult
    BY <1>5, <1>b, <2>1, <2>2, <2>4, CallFields DEF CreatePhysical
  <2>q. QED
    BY <1>5, <2>3, <2>4 DEF CreatePhysical
<1>6. CASE WriteBatch(c)
  <2>1. c \in Rebuilding /\ sync[c].gen \in Generation /\ sync[c].pc = "writing"
    BY <1>2, <1>6 DEF WriteBatch, TakeSnapshot
  <2>2. PICK r \in sync[c].todo :
           /\ indices' = With(sync[c].gen,
                 {r} \cup (IF sync[c].gen \in DOMAIN indices
                          THEN indices[sync[c].gen] ELSE {}))
           /\ sync' = [sync EXCEPT ![c].todo = @ \ {r}]
    BY <1>6 DEF WriteBatch
  <2>3. {r} \cup (IF sync[c].gen \in DOMAIN indices
                 THEN indices[sync[c].gen] ELSE {}) \in SUBSET Records
    BY <1>s DEF StoreTyped
  <2>4. StoreTyped'
    BY <1>6, <1>s, <2>1, <2>2, <2>3, StoreAssign DEF WriteBatch
  <2>5. sync' = [sync EXCEPT ![c] = [pc |-> "writing", gen |-> sync[c].gen,
                                     todo |-> sync[c].todo \ {r}]]
    BY <2>1, <2>2, CallFields
  <2>q. QED
    BY <1>6, <1>b, <2>1, <2>4, <2>5 DEF WriteBatch
<1>7. CASE SwitchAlias(c)
  <2>1. c \in Rebuilding /\ sync[c].gen \in Generation
    BY <1>2, <1>7 DEF SwitchAlias, TakeSnapshot
  <2>2. StoreTyped'
    BY <1>7, <1>s, <2>1, StoreAssign DEF SwitchAlias
  <2>3. CASE Finish(c, "succeeded")
    BY <1>7, <1>b, <2>1, <2>2, <2>3 DEF SwitchAlias
  <2>4. CASE sync' = [sync EXCEPT ![c].pc = "cleaning"] /\ UNCHANGED lastResult
    BY <1>7, <1>b, <2>1, <2>2, <2>4, CallFields DEF SwitchAlias
  <2>q. QED
    BY <1>7, <2>3, <2>4 DEF SwitchAlias
<1>8. CASE SwitchUnanswered(c)
  <2>1. c \in Rebuilding /\ sync[c].gen \in Generation
    BY <1>2, <1>8 DEF SwitchUnanswered, TakeSnapshot
  <2>2. StoreTyped'
    BY <1>8, <1>s, <2>1, StoreAssign DEF SwitchUnanswered
  <2>q. QED
    BY <1>8, <1>b, <2>1, <2>2, CallFields DEF SwitchUnanswered
<1>9. CASE SearchFails(c)
  <2>1. c \in Rebuilding
    BY <1>2, <1>9 DEF SearchFails, TakeSnapshot
  <2>2. StoreTyped'
    BY <1>9, <1>s DEF SearchFails, StoreTyped
  <2>3. CASE Finish(c, "failed")
    BY <1>9, <1>b, <2>1, <2>2, <2>3 DEF SearchFails
  <2>4. CASE /\ sync' = [sync EXCEPT ![c] = [pc |-> "cleaning", gen |-> @.gen,
                                             todo |-> {}]]
             /\ UNCHANGED lastResult
    BY <1>9, <1>b, <2>1, <2>2, <2>4 DEF SearchFails
  <2>q. QED
    BY <1>9, <2>3, <2>4 DEF SearchFails
<1>10. CASE CleanUp(c)
  <2>1. c \in Rebuilding /\ sync[c].gen \in Generation
    BY <1>2, <1>10 DEF CleanUp, TakeSnapshot
  <2>2. StoreTyped'
    BY <1>10, <1>s, <2>1, StoreAssign DEF CleanUp, DeleteFailed
  <2>q. QED
    BY <1>10, <1>b, <2>1, <2>2 DEF CleanUp
<1>q. QED
  BY <1>1, <1>3, <1>4, <1>5, <1>6, <1>7, <1>8, <1>9, <1>10 DEF StepSync

\* A change of the catalogue, a death of the server and the begin of a call
\* touch no physical index; the calls they move do not work afterwards.
LEMMA CallsRest ==
    ASSUME LexicalInv, StoreTyped',
           sync' \in [Syncers -> SyncCall],
           \A d \in Syncers : sync'[d] = sync[d]
                              \/ sync'[d].pc \in {"idle", "waiting", "closed"},
           active' \in SUBSET Indexes,
           lastResult' \in {"none", "succeeded", "failed"},
           {contended', swallowed', missed'} \subseteq BOOLEAN
    PROVE  LexicalInv'
  BY DEF LexicalInv, LexicalTypeOK, StoreTyped, Rebuilding

LEMMA LexicalMoves ==
    ASSUME LexicalInv,
           \/ \E c \in Changes, i \in Indexes : ActivateIndex(c, i) \/ DeleteDocument(c, i)
           \/ \E c \in Syncers : CallSynchronize(c)
           \/ StopSyncs
    PROVE  /\ LexicalInv'
           /\ UNCHANGED <<indices, alias, contended, swallowed>>
           /\ \A d \in Syncers : sync'[d] = sync[d]
                                  \/ sync'[d].pc \in {"idle", "waiting", "closed"}
<1>0. sync \in [Syncers -> SyncCall] /\ Changes \subseteq Syncers
  BY DEF LexicalInv, LexicalTypeOK, Syncers
<1>s. UNCHANGED <<indices, alias>> => StoreTyped'
  BY DEF StoreTyped, LexicalInv, LexicalTypeOK
<1>1. ASSUME NEW c \in Changes, NEW i \in Indexes, ActivateIndex(c, i) \/ DeleteDocument(c, i)
      PROVE  /\ LexicalInv'
             /\ UNCHANGED <<indices, alias, contended, swallowed>>
             /\ \A d \in Syncers : sync'[d] = sync[d]
                                    \/ sync'[d].pc \in {"idle", "waiting", "closed"}
  <2>1. sync' = [sync EXCEPT ![c].pc = "waiting"]
    BY <1>1 DEF ActivateIndex, DeleteDocument
  <2>2. sync' \in [Syncers -> SyncCall]
    BY <1>0, <2>1, SyncAssign DEF LexicalInv
  <2>3. \A d \in Syncers : sync'[d] = sync[d]
                           \/ sync'[d].pc \in {"idle", "waiting", "closed"}
    BY <1>0, <2>1 DEF SyncCall
  <2>4. /\ UNCHANGED <<indices, alias, lastResult, contended, swallowed, missed>>
        /\ active' \in SUBSET Indexes
    BY <1>1 DEF ActivateIndex, DeleteDocument, LexicalInv, LexicalTypeOK
  <2>5. /\ lastResult' \in {"none", "succeeded", "failed"}
        /\ {contended', swallowed', missed'} \subseteq BOOLEAN
    BY <2>4 DEF LexicalInv, LexicalTypeOK
  <2>q. QED
    BY <1>s, <2>2, <2>3, <2>4, <2>5, CallsRest
<1>2. ASSUME NEW c \in Syncers, CallSynchronize(c)
      PROVE  /\ LexicalInv'
             /\ UNCHANGED <<indices, alias, contended, swallowed>>
             /\ \A d \in Syncers : sync'[d] = sync[d]
                                    \/ sync'[d].pc \in {"idle", "waiting", "closed"}
  <2>1. /\ sync' = [sync EXCEPT ![c] = SyncAt("waiting")]
        /\ UNCHANGED <<active, indices, alias, lastResult, contended, swallowed, missed>>
    BY <1>2 DEF CallSynchronize
  <2>2. sync' \in [Syncers -> SyncCall]
    BY <2>1, SyncAssign, SyncAtTyped DEF LexicalInv
  <2>3. \A d \in Syncers : sync'[d] = sync[d]
                           \/ sync'[d].pc \in {"idle", "waiting", "closed"}
    BY <1>0, <2>1 DEF SyncAt
  <2>5. /\ lastResult' \in {"none", "succeeded", "failed"}
        /\ {contended', swallowed', missed'} \subseteq BOOLEAN
        /\ active' \in SUBSET Indexes
    BY <2>1 DEF LexicalInv, LexicalTypeOK
  <2>q. QED
    BY <1>s, <2>1, <2>2, <2>3, <2>5, CallsRest
<1>3. ASSUME StopSyncs
      PROVE  /\ LexicalInv'
             /\ UNCHANGED <<indices, alias, contended, swallowed>>
             /\ \A d \in Syncers : sync'[d] = sync[d]
                                    \/ sync'[d].pc \in {"idle", "waiting", "closed"}
  <2>1. /\ UNCHANGED <<active, indices, alias, contended, swallowed, missed>>
        /\ lastResult' = "none"
    BY <1>3 DEF StopSyncs
  <2>2. sync' \in [Syncers -> SyncCall]
    BY <1>0, <1>3, SyncAtTyped DEF StopSyncs
  <2>3. \A d \in Syncers : sync'[d] = sync[d]
                           \/ sync'[d].pc \in {"idle", "waiting", "closed"}
    BY <1>0, <1>3 DEF StopSyncs, SyncAt
  <2>5. /\ {contended', swallowed', missed'} \subseteq BOOLEAN
        /\ active' \in SUBSET Indexes
    BY <2>1 DEF LexicalInv, LexicalTypeOK
  <2>q. QED
    BY <1>s, <2>1, <2>2, <2>3, <2>5, CallsRest
<1>q. QED
  BY <1>1, <1>2, <1>3

\* A step of the service either moves one working call, or moves no call that
\* works and touches no index.
CallStep == \E c \in Syncers : StepSync(c)

Rests ==
    /\ UNCHANGED <<indices, alias, contended, swallowed>>
    /\ \A d \in Syncers : sync'[d] = sync[d]
                           \/ sync'[d].pc \in {"idle", "waiting", "closed"}

LEMMA LexicalStep ==
    ASSUME DictionaryInv, LexicalInv, [Next]_vars
    PROVE  LexicalInv' /\ (CallStep \/ Rests)
<1>u. ASSUME UNCHANGED <<active, indices, alias, sync, lastResult, contended, swallowed>>,
             missed' \in BOOLEAN
      PROVE  LexicalInv' /\ Rests
  BY <1>u DEF LexicalInv, LexicalTypeOK, Rebuilding, Rests
<1>v. ASSUME UNCHANGED lexicalVars
      PROVE  LexicalInv' /\ Rests
  BY <1>u, <1>v DEF lexicalVars, LexicalInv, LexicalTypeOK
<1>0. {Startup, Command} \subseteq Syncers /\ Publishers \subseteq Syncers
  BY DEF Syncers
<1>1. CASE \E down \in SUBSET Dependencies : StartServer(down)
  BY <1>1, <1>v DEF StartServer
<1>2. CASE RepairManifest
  BY <1>2, <1>v DEF RepairManifest
<1>3. CASE RepairArtifact \/ RepairFails
  BY <1>0, <1>3, LexicalMoves DEF RepairArtifact, RepairFails, Rests
<1>4. CASE Serve
  BY <1>4, <1>v DEF Serve
<1>5. CASE Crash
  BY <1>5, LexicalMoves DEF Crash, Rests
<1>6. CASE /\ missed' = (missed \/ \E p \in Publishers : /\ publish[p].pc = "deploying"
                                                       /\ publish'[p].pc = "closed")
           /\ UNCHANGED <<active, indices, alias, sync, lastResult, contended,
                          swallowed, serverVars>>
  <2>1. missed' \in BOOLEAN
    BY <1>6 DEF LexicalInv, LexicalTypeOK
  <2>q. QED
    BY <1>6, <1>u, <2>1
<1>7. CASE \E c \in Publishers \cup {Command} : CallSynchronize(c)
  BY <1>0, <1>7, LexicalMoves DEF Rests
<1>8. CASE \E c \in Syncers : StepSync(c)
  BY <1>8, SyncTyped DEF CallStep
<1>9. CASE \E c \in Changes, i \in Indexes : ActivateIndex(c, i) \/ DeleteDocument(c, i)
  BY <1>9, LexicalMoves DEF Rests
<1>10. CASE UNCHANGED vars
  BY <1>10, <1>v DEF vars
<1>q. QED
  BY <1>1, <1>2, <1>3, <1>4, <1>5, <1>6, <1>7, <1>8, <1>9, <1>10
  DEF Next, PublishSynchronizes

LEMMA LexicalStarts ==
    ASSUME LexicalInit
    PROVE  LexicalInv
<1>1. sync \in [Syncers -> SyncCall] /\ Rebuilding = {}
  BY SyncAtTyped DEF LexicalInit, Rebuilding, SyncAt
<1>2. DOMAIN indices = {}
  BY DEF LexicalInit
<1>q. QED
  BY <1>1, <1>2 DEF LexicalInit, LexicalInv, LexicalTypeOK

ServerTyped ==
    /\ server \in {"down", "repairing", "deploying", "syncing", "serving"}
    /\ crashes \in 0..MaxCrashes

LEMMA ServerStep ==
    ASSUME ServerTyped, [Next]_vars
    PROVE  ServerTyped'
<1>0. MaxCrashes \in Nat /\ crashes \in Nat
  BY ServiceAssumption DEF ServerTyped
<1>1. CASE Crash
  BY <1>0, <1>1 DEF Crash, ServerTyped
<1>2. CASE UNCHANGED serverVars
  BY <1>2 DEF ServerTyped, serverVars
<1>3. CASE \/ \E down \in SUBSET Dependencies : StartServer(down)
           \/ RepairManifest
           \/ RepairFails
           \/ RepairArtifact
           \/ Serve
  BY <1>3 DEF StartServer, RepairManifest, RepairFails, RepairArtifact, Serve, ServerTyped
<1>4. CASE \E p \in Publishers : PublishSynchronizes(p)
  BY <1>2, <1>4 DEF PublishSynchronizes
<1>q. QED
  BY <1>1, <1>2, <1>3, <1>4 DEF Next, vars

ServiceInv == DictionaryInv /\ LexicalInv /\ ServerTyped

LEMMA ServiceInvInductive ==
    /\ Init => ServiceInv
    /\ ServiceInv /\ [Next]_vars => ServiceInv'
<1>1. Init => ServiceInv
  <2>1. Init => ServerTyped
    BY ServiceAssumption DEF Init, ServerTyped
  <2>q. QED
    BY <2>1, DictionaryStarts, LexicalStarts DEF Init, ServiceInv, DictionaryInv
<1>2. ServiceInv /\ [Next]_vars => ServiceInv'
  BY DictionaryStep, LexicalStep, ServerStep DEF ServiceInv
<1>q. QED
  BY <1>1, <1>2

\* Every row, physical index, file and call is of its type, for every number
\* of requests, terms and crashes.
THEOREM ServiceTyped == Spec => []TypeOK
<1>1. ServiceInv => TypeOK
  BY DEF ServiceInv, DictionaryInv, LexicalInv, ServerTyped, TypeOK
<1>q. QED
  BY <1>1, ServiceInvInductive, PTL DEF Spec

-----------------------------------------------------------------------------
(* The read alias *)

Named(records) == {r.index : r \in records}

\* What a call that works on a generation has done and has still to do.
CallInv(c) ==
    LET g == sync[c].gen IN
    /\ sync[c].pc \in {"probing", "deleting", "creating"} =>
          Named(sync[c].todo) = g.indexes
    /\ sync[c].pc \in {"deleting", "creating", "writing"} => alias # g
    /\ sync[c].pc = "writing" =>
          /\ g \in DOMAIN indices
          /\ Named(indices[g]) \cup Named(sync[c].todo) = g.indexes
    /\ (sync[c].pc = "cleaning" /\ ~swallowed) => alias # g

\* As long as the lock of one process was enough, one call works at a time
\* and never on the index behind the alias.
AliasInv ==
    /\ AliasIsComplete
    /\ ~contended => /\ \A c, d \in Rebuilding : c = d
                     /\ \A c \in Rebuilding : CallInv(c)

\* What a step of the lock's only holder has to show.
LEMMA HolderMoves ==
    ASSUME LexicalInv, AliasInv, NEW c \in Rebuilding,
           sync' \in [Syncers -> SyncCall],
           \A d \in Syncers \ {c} : sync'[d] = sync[d],
           UNCHANGED contended,
           AliasIsComplete',
           (~contended /\ c \in Rebuilding') => CallInv(c)'
    PROVE  AliasInv'
<1>1. Rebuilding' \subseteq Rebuilding
  BY DEF Rebuilding
<1>2. SUFFICES ASSUME ~contended
               PROVE  /\ \A d, e \in Rebuilding' : d = e
                      /\ \A d \in Rebuilding' : CallInv(d)'
  BY DEF AliasInv
<1>3. \A d \in Rebuilding : d = c
  BY <1>2 DEF AliasInv
<1>4. \A d \in Rebuilding' : d = c
  BY <1>1, <1>3
<1>q. QED
  BY <1>2, <1>4

\* A call that ends leaves the alias to what the other facts say of it.
LEMMA HolderEnds ==
    ASSUME LexicalInv, AliasInv, NEW c \in Rebuilding, NEW result,
           Finish(c, result), UNCHANGED contended, AliasIsComplete'
    PROVE  AliasInv'
<1>1. sync \in [Syncers -> SyncCall] /\ c \in Syncers
  BY DEF LexicalInv, LexicalTypeOK, Rebuilding
<1>2. /\ sync' \in [Syncers -> SyncCall]
      /\ \A d \in Syncers \ {c} : sync'[d] = sync[d]
      /\ sync'[c].pc = "closed"
  BY <1>1, SyncAtTyped DEF Finish, SyncAt
<1>3. c \notin Rebuilding'
  BY <1>2 DEF Rebuilding
<1>q. QED
  BY <1>2, <1>3, HolderMoves

\* A call that goes on.
LEMMA HolderGoesOn ==
    ASSUME LexicalInv, AliasInv, NEW c \in Rebuilding,
           NEW pc \in {"probing", "deleting", "creating", "writing", "cleaning"},
           NEW todo \in SUBSET sync[c].todo,
           sync' = [sync EXCEPT ![c] = [pc |-> pc, gen |-> sync[c].gen, todo |-> todo]],
           UNCHANGED contended, AliasIsComplete',
           ~contended =>
              LET g == sync[c].gen IN
              /\ pc \in {"probing", "deleting", "creating"} => Named(todo) = g.indexes
              /\ pc \in {"deleting", "creating", "writing"} => alias' # g
              /\ pc = "writing" => /\ g \in DOMAIN indices'
                                  /\ Named(indices'[g]) \cup Named(todo) = g.indexes
              /\ (pc = "cleaning" /\ ~swallowed') => alias' # g
    PROVE  AliasInv'
<1>1. sync \in [Syncers -> SyncCall] /\ c \in Syncers
  BY DEF LexicalInv, LexicalTypeOK, Rebuilding
<1>2. /\ sync' \in [Syncers -> SyncCall]
      /\ \A d \in Syncers \ {c} : sync'[d] = sync[d]
      /\ sync'[c] = [pc |-> pc, gen |-> sync[c].gen, todo |-> todo]
  BY <1>1, CallGoesOn
<1>3. ~contended => CallInv(c)'
  BY <1>2 DEF CallInv
<1>q. QED
  BY <1>2, <1>3, HolderMoves

\* An index other than the one behind the alias is removed or written.
LEMMA OtherIndexChanges ==
    ASSUME LexicalInv, AliasInv, NEW g \in Generation, alias # g,
           UNCHANGED <<alias, contended>>,
           \/ indices' = indices
           \/ indices' = Without(g)
           \/ \E docs : indices' = With(g, docs)
    PROVE  AliasIsComplete'
<1>1. SUFFICES ASSUME alias # None, ~contended
               PROVE  /\ alias \in DOMAIN indices'
                      /\ {r.index : r \in indices'[alias]} = alias.indexes
  BY DEF AliasIsComplete
<1>2. /\ alias \in DOMAIN indices
      /\ {r.index : r \in indices[alias]} = alias.indexes
  BY <1>1 DEF AliasInv, AliasIsComplete
<1>3. alias \in DOMAIN indices' /\ indices'[alias] = indices[alias]
  <2>1. CASE indices' = indices
    BY <1>2, <2>1
  <2>2. CASE indices' = Without(g)
    BY <1>2, <2>2 DEF Without
  <2>3. ASSUME NEW docs, indices' = With(g, docs)
        PROVE  alias \in DOMAIN indices' /\ indices'[alias] = indices[alias]
    BY <1>2, <2>3 DEF With
  <2>q. QED
    BY <2>1, <2>2, <2>3
<1>q. QED
  BY <1>2, <1>3

\* A step that moves no working call and no index.
LEMMA AliasRests ==
    ASSUME AliasInv, Rests
    PROVE  AliasInv'
<1>1. AliasIsComplete'
  BY DEF AliasInv, AliasIsComplete, Rests
<1>2. /\ Rebuilding' \subseteq Rebuilding
      /\ \A d \in Rebuilding' : sync'[d] = sync[d]
  BY DEF Rebuilding, Rests
<1>3. ASSUME ~contended, NEW d \in Rebuilding'
      PROVE  CallInv(d)'
  BY <1>2, <1>3 DEF AliasInv, CallInv, Rests
<1>q. QED
  BY <1>1, <1>2, <1>3 DEF AliasInv, Rests

\* What a step of one call does to the alias, and what it may not do.
LEMMA AliasStep ==
    ASSUME DictionaryInv, LexicalInv, AliasInv, NEW c \in Syncers, StepSync(c)
    PROVE  /\ AliasInv'
           /\ (alias # None /\ ~contended' /\ ~swallowed') => alias' # None
<1> DEFINE g == sync[c].gen
           Serves == (alias # None /\ ~contended' /\ ~swallowed') => alias' # None
<1>s. sync[c] \in SyncCall /\ sync[c].todo \in SUBSET Records
  BY DEF LexicalInv, LexicalTypeOK, SyncCall
<1>a. (c \in Rebuilding /\ ~contended) => CallInv(c)
  BY DEF AliasInv
<1>g. c \in Rebuilding => g \in Generation /\ g # None
  BY NoneIsNoGeneration DEF LexicalInv
<1>1. CASE TakeSnapshot(c)
  <2> DEFINE new == [pc |-> "probing", gen |-> GenerationNow, todo |-> Snapshot]
  <2>1. /\ UNCHANGED <<indices, alias, swallowed>>
        /\ sync' = [sync EXCEPT ![c] = new]
        /\ sync[c].pc = "waiting"
    BY <1>1 DEF TakeSnapshot
  <2>2. ~contended' => ~contended /\ Rebuilding = {}
    <3>1. ~contended' => /\ ~contended
                         /\ Command \notin Rebuilding
                         /\ c = Command => Rebuilding = {}
      BY <1>1 DEF TakeSnapshot
    <3>2. c # Command => Rebuilding \cap Served = {}
      BY <1>1 DEF TakeSnapshot, LockFree
    <3>q. QED
      BY <3>1, <3>2 DEF Rebuilding, Served
  <2>3. AliasIsComplete'
    BY <2>1, <2>2 DEF AliasInv, AliasIsComplete
  <2>4. /\ sync'[c] = new
        /\ \A d \in Syncers \ {c} : sync'[d] = sync[d]
    BY <2>1 DEF LexicalInv, LexicalTypeOK
  <2>5. ~contended' => Rebuilding' \subseteq {c}
    BY <2>2, <2>4 DEF Rebuilding
  <2>6. CallInv(c)'
    BY <2>4, SnapshotTyped DEF CallInv, Named, LexicalInv
  <2>q. QED
    BY <2>1, <2>3, <2>5, <2>6 DEF AliasInv
<1>2. ASSUME ~TakeSnapshot(c)
      PROVE  c \in Rebuilding
  BY <1>2 DEF StepSync, Probe, DeleteLeftover, CreatePhysical, WriteBatch, SwitchAlias,
     SwitchUnanswered, SearchFails, CleanUp, Rebuilding
<1>3. CASE Probe(c)
  <2>1. c \in Rebuilding
    BY <1>2, <1>3 DEF Probe, TakeSnapshot
  <2>2. sync[c].pc = "probing" /\ UNCHANGED <<indices, alias, contended, swallowed>>
    BY <1>3 DEF Probe
  <2>3. AliasIsComplete'
    BY <2>2 DEF AliasInv, AliasIsComplete
  <2>4. CASE Finish(c, "succeeded")
    BY <2>1, <2>2, <2>3, <2>4, HolderEnds
  <2>5. ASSUME NEW pc \in {"deleting", "creating"},
               sync' = [sync EXCEPT ![c].pc = pc],
               g \notin DOMAIN indices \/ alias # g
        PROVE  AliasInv'
    <3>1. sync' = [sync EXCEPT ![c] = [pc |-> pc, gen |-> sync[c].gen,
                                       todo |-> sync[c].todo]]
      BY <2>1, <2>5, CallFields
    <3>2. ~contended => Named(sync[c].todo) = g.indexes /\ alias' # g
      BY <1>a, <1>g, <2>1, <2>2, <2>5 DEF CallInv, AliasInv, AliasIsComplete
    <3>q. QED
      BY <2>1, <2>2, <2>3, <3>1, <3>2, HolderGoesOn
  <2>q. QED
    BY <1>3, <2>2, <2>4, <2>5 DEF Probe
<1>4. CASE DeleteLeftover(c)
  <2>1. c \in Rebuilding
    BY <1>2, <1>4 DEF DeleteLeftover, TakeSnapshot
  <2>2. sync[c].pc = "deleting" /\ UNCHANGED <<contended, swallowed>>
    BY <1>4 DEF DeleteLeftover
  <2>3. ~contended => alias # g /\ Named(sync[c].todo) = g.indexes
    BY <1>a, <2>1, <2>2 DEF CallInv
  <2>4. CASE Finish(c, "failed") /\ UNCHANGED <<indices, alias>>
    <3>1. AliasIsComplete'
      BY <2>2, <2>4 DEF AliasInv, AliasIsComplete
    <3>q. QED
      BY <2>1, <2>2, <2>4, <3>1, HolderEnds
  <2>5. CASE /\ indices' = Without(g)
             /\ alias' = IF alias = g THEN None ELSE alias
             /\ sync' = [sync EXCEPT ![c].pc = "creating"]
    <3>1. AliasIsComplete' /\ (~contended => alias' = alias)
      BY <1>g, <2>1, <2>2, <2>3, <2>5, OtherIndexChanges DEF AliasIsComplete
    <3>2. sync' = [sync EXCEPT ![c] = [pc |-> "creating", gen |-> sync[c].gen,
                                       todo |-> sync[c].todo]]
      BY <2>1, <2>5, CallFields
    <3>q. QED
      BY <2>1, <2>2, <2>3, <3>1, <3>2, HolderGoesOn
  <2>q. QED
    BY <1>4, <2>4, <2>5 DEF DeleteLeftover
<1>5. CASE CreatePhysical(c)
  <2>1. c \in Rebuilding
    BY <1>2, <1>5 DEF CreatePhysical, TakeSnapshot
  <2>2. sync[c].pc = "creating" /\ UNCHANGED <<alias, contended, swallowed>>
    BY <1>5 DEF CreatePhysical
  <2>3. ~contended => alias # g /\ Named(sync[c].todo) = g.indexes
    BY <1>a, <2>1, <2>2 DEF CallInv
  <2>4. CASE Finish(c, "failed") /\ UNCHANGED indices
    <3>1. AliasIsComplete'
      BY <2>2, <2>4 DEF AliasInv, AliasIsComplete
    <3>q. QED
      BY <2>1, <2>2, <2>4, <3>1, HolderEnds
  <2>5. CASE /\ indices' = With(g, {})
             /\ sync' = [sync EXCEPT ![c].pc = "writing"]
    <3>1. AliasIsComplete'
      BY <1>g, <2>1, <2>2, <2>3, <2>5, OtherIndexChanges DEF AliasIsComplete
    <3>2. sync' = [sync EXCEPT ![c] = [pc |-> "writing", gen |-> sync[c].gen,
                                       todo |-> sync[c].todo]]
      BY <2>1, <2>5, CallFields
    <3>3. g \in DOMAIN indices' /\ indices'[g] = {}
      BY <2>5 DEF With
    <3>4. Named({}) = {}
      BY DEF Named
    <3>5. ~contended => /\ alias' # g
                        /\ g \in DOMAIN indices'
                        /\ Named(indices'[g]) \cup Named(sync[c].todo) = g.indexes
      BY <2>2, <2>3, <3>3, <3>4
    <3>q. QED
      BY <2>1, <2>2, <3>1, <3>2, <3>5, HolderGoesOn
  <2>q. QED
    BY <1>5, <2>2, <2>4, <2>5 DEF CreatePhysical
<1>6. CASE WriteBatch(c)
  <2>1. c \in Rebuilding
    BY <1>2, <1>6 DEF WriteBatch, TakeSnapshot
  <2>2. sync[c].pc = "writing" /\ UNCHANGED <<alias, contended, swallowed>>
    BY <1>6 DEF WriteBatch
  <2>3. ~contended => /\ alias # g
                      /\ g \in DOMAIN indices
                      /\ Named(indices[g]) \cup Named(sync[c].todo) = g.indexes
    BY <1>a, <2>1, <2>2 DEF CallInv
  <2>4. PICK r \in sync[c].todo :
           /\ indices' = With(g, {r} \cup (IF g \in DOMAIN indices
                                           THEN indices[g] ELSE {}))
           /\ sync' = [sync EXCEPT ![c].todo = @ \ {r}]
    BY <1>6 DEF WriteBatch
  <2>5. AliasIsComplete'
    BY <1>g, <2>1, <2>2, <2>3, <2>4, OtherIndexChanges DEF AliasIsComplete
  <2>6. sync' = [sync EXCEPT ![c] = [pc |-> "writing", gen |-> sync[c].gen,
                                     todo |-> sync[c].todo \ {r}]]
    BY <2>1, <2>2, <2>4, CallFields
  <2>7. ~contended => g \in DOMAIN indices' /\ indices'[g] = {r} \cup indices[g]
    BY <2>3, <2>4 DEF With
  <2>8. Named({r} \cup indices[g]) \cup Named(sync[c].todo \ {r})
           = Named(indices[g]) \cup Named(sync[c].todo)
    BY DEF Named
  <2>9. ~contended =>
           /\ alias' # g
           /\ g \in DOMAIN indices'
           /\ Named(indices'[g]) \cup Named(sync[c].todo \ {r}) = g.indexes
    BY <2>2, <2>3, <2>7, <2>8
  <2>10. sync[c].todo \ {r} \in SUBSET sync[c].todo /\ UNCHANGED contended
    BY <2>2
  <2>q. QED
    BY <2>1, <2>2, <2>5, <2>6, <2>9, <2>10, HolderGoesOn
<1>7. CASE SwitchAlias(c) \/ SwitchUnanswered(c)
  <2>1. c \in Rebuilding
    BY <1>2, <1>7 DEF SwitchAlias, SwitchUnanswered, TakeSnapshot
  <2>2. sync[c].pc = "writing" /\ UNCHANGED <<indices, contended>>
    BY <1>7 DEF SwitchAlias, SwitchUnanswered
  <2>3. ~contended => /\ alias # g
                      /\ g \in DOMAIN indices
                      /\ Named(indices[g]) \cup Named(sync[c].todo) = g.indexes
    BY <1>a, <2>1, <2>2 DEF CallInv
  <2>4. ASSUME alias' = g, sync[c].todo = {}
        PROVE  AliasIsComplete'
    <3>1. Named({}) = {}
      BY DEF Named
    <3>2. ~contended => Named(indices[g]) = g.indexes
      BY <2>3, <2>4, <3>1
    <3>q. QED
      BY <2>2, <2>3, <2>4, <3>2 DEF AliasIsComplete, Named
  <2>5. CASE SwitchAlias(c)
    <3>1. sync[c].todo = {} /\ swallowed' = swallowed
      BY <2>5 DEF SwitchAlias, Written
    <3>2. CASE alias' = g /\ Finish(c, "succeeded")
      <4>1. AliasIsComplete'
        BY <2>4, <3>1, <3>2
      <4>q. QED
        BY <1>g, <2>1, <2>2, <3>2, <4>1, HolderEnds
    <3>3. CASE sync' = [sync EXCEPT ![c].pc = "cleaning"] /\ UNCHANGED alias
      <4>1. AliasIsComplete'
        BY <2>2, <3>3 DEF AliasInv, AliasIsComplete
      <4>2. sync' = [sync EXCEPT ![c] = [pc |-> "cleaning", gen |-> sync[c].gen,
                                         todo |-> sync[c].todo]]
        BY <2>1, <3>3, CallFields
      <4>3. ~contended => alias' # g
        BY <2>3, <3>3
      <4>4. AliasInv'
        BY <2>1, <2>2, <4>1, <4>2, <4>3, HolderGoesOn
      <4>q. QED
        BY <3>3, <4>4
    <3>q. QED
      BY <2>5, <3>2, <3>3 DEF SwitchAlias
  <2>6. CASE SwitchUnanswered(c)
    <3>1. /\ sync[c].todo = {}
          /\ alias' = g
          /\ swallowed' = TRUE
          /\ sync' = [sync EXCEPT ![c].pc = "cleaning"]
      BY <2>6 DEF SwitchUnanswered
    <3>2. AliasIsComplete'
      BY <2>4, <3>1
    <3>3. sync' = [sync EXCEPT ![c] = [pc |-> "cleaning", gen |-> sync[c].gen,
                                       todo |-> sync[c].todo]]
      BY <2>1, <3>1, CallFields
    <3>q. QED
      BY <2>1, <2>2, <3>1, <3>2, <3>3, HolderGoesOn
  <2>q. QED
    BY <1>7, <2>5, <2>6
<1>8. CASE SearchFails(c)
  <2>1. c \in Rebuilding
    BY <1>2, <1>8 DEF SearchFails, TakeSnapshot
  <2>2. UNCHANGED <<indices, alias, contended, swallowed>>
    BY <1>8 DEF SearchFails
  <2>3. AliasIsComplete'
    BY <2>2 DEF AliasInv, AliasIsComplete
  <2>4. CASE Finish(c, "failed")
    BY <2>1, <2>2, <2>3, <2>4, HolderEnds
  <2>5. CASE /\ sync[c].pc = "writing"
             /\ sync' = [sync EXCEPT ![c] = [pc |-> "cleaning", gen |-> @.gen,
                                             todo |-> {}]]
    <3>1. ~contended => alias' # g
      BY <1>a, <2>1, <2>2, <2>5 DEF CallInv
    <3>2. {} \in SUBSET sync[c].todo
      OBVIOUS
    <3>q. QED
      BY <2>1, <2>2, <2>3, <2>5, <3>1, <3>2, HolderGoesOn
  <2>q. QED
    BY <1>8, <2>4, <2>5 DEF SearchFails
<1>9. CASE CleanUp(c)
  <2>1. c \in Rebuilding
    BY <1>2, <1>9 DEF CleanUp, TakeSnapshot
  <2>2. UNCHANGED <<contended, swallowed>> /\ Finish(c, "failed")
    BY <1>9 DEF CleanUp
  <2>3. (~contended /\ ~swallowed) => alias # g
    BY <1>9, <1>a, <2>1 DEF CleanUp, CallInv
  <2>4. CASE UNCHANGED <<indices, alias>>
    <3>1. AliasIsComplete'
      BY <2>2, <2>4 DEF AliasInv, AliasIsComplete
    <3>q. QED
      BY <2>1, <2>2, <2>4, <3>1, HolderEnds
  <2>5. CASE /\ indices' = Without(g)
             /\ alias' = IF alias \in DOMAIN indices' THEN alias ELSE None
    <3>1. CASE alias = g
      <4>1. alias' = None
        BY <2>5, <3>1 DEF Without
      <4>2. AliasIsComplete'
        BY <4>1 DEF AliasIsComplete
      <4>q. QED
        BY <2>1, <2>2, <2>3, <3>1, <4>2, HolderEnds
    <3>2. CASE alias # g
      <4>1. (alias # None /\ ~contended) => alias \in DOMAIN indices'
        BY <2>5, <3>2 DEF AliasInv, AliasIsComplete, Without
      <4>2. ASSUME ~contended, alias # None
            PROVE  alias' = alias /\ AliasIsComplete'
        BY <1>g, <2>1, <2>2, <2>5, <3>2, <4>1, <4>2, OtherIndexChanges
      <4>3. ASSUME alias = None
            PROVE  AliasIsComplete'
        BY <2>5, <4>3 DEF AliasIsComplete
      <4>4. AliasIsComplete'
        BY <2>2, <4>2, <4>3 DEF AliasIsComplete
      <4>q. QED
        BY <2>1, <2>2, <4>2, <4>4, HolderEnds
    <3>q. QED
      BY <3>1, <3>2
  <2>q. QED
    BY <1>9, <2>4, <2>5 DEF CleanUp, DeleteFailed
<1>q. QED
  BY <1>1, <1>3, <1>4, <1>5, <1>6, <1>7, <1>8, <1>9 DEF StepSync

LEMMA AliasInvInductive ==
    /\ Init => AliasInv
    /\ (ServiceInv /\ AliasInv /\ [Next]_vars) =>
          /\ AliasInv'
          /\ (alias # None /\ ~contended' /\ ~swallowed') => alias' # None
<1>1. Init => AliasInv
  BY DEF Init, LexicalInit, AliasInv, AliasIsComplete, Rebuilding, SyncAt
<1>2. ASSUME ServiceInv, AliasInv, [Next]_vars
      PROVE  /\ AliasInv'
             /\ (alias # None /\ ~contended' /\ ~swallowed') => alias' # None
  <2>1. CallStep \/ Rests
    BY <1>2, LexicalStep DEF ServiceInv
  <2>2. CASE CallStep
    BY <1>2, <2>2, AliasStep DEF CallStep, ServiceInv
  <2>3. CASE Rests
    BY <1>2, <2>3, AliasRests DEF Rests
  <2>q. QED
    BY <2>1, <2>2, <2>3
<1>q. QED
  BY <1>1, <1>2

\* A search never sees half of the knowledge: the read alias names an index
\* with every record of its snapshot, for every number of calls and failures,
\* unless two processes rebuilt at a time (elasticsearch_store.rebuild).
THEOREM AliasComplete == Spec => []AliasIsComplete
<1>1. AliasInv => AliasIsComplete
  BY DEF AliasInv
<1>q. QED
  BY <1>1, ServiceInvInductive, AliasInvInductive, PTL DEF Spec

\* No failure of a rebuild and no crash takes the alias away, unless two
\* processes rebuilt at a time or the answer to a switch was lost.
THEOREM AliasStays == Spec => AliasServes
<1>1. (ServiceInv /\ AliasInv /\ [Next]_vars) =>
         [(alias # None /\ ~contended' /\ ~swallowed') => alias' # None]_vars
  BY AliasInvInductive
<1>q. QED
  BY <1>1, ServiceInvInductive, AliasInvInductive, PTL DEF Spec, AliasServes

-----------------------------------------------------------------------------
(* The artifact file and readiness *)

Up == server \in {"syncing", "serving"}

-----------------------------------------------------------------------------
(* The rows, as the publications see them *)

\* Every publication knows a version that is there.
SawIsThere == \A p \in Publishers : publish[p].saw <= Len(versions)

\* No artifact is published twice (the unique constraint on the hash).
HashUnique ==
    \A m, n \in DOMAIN versions : versions[m].artifact = versions[n].artifact => m = n

\* The active version is the last one.
LEMMA LastIsActive ==
    ASSUME DictionaryInv
    PROVE  /\ Len(versions) \in Nat
           /\ DOMAIN versions = 1..Len(versions)
           /\ ActivePosition = Len(versions)
<1>1. Len(versions) \in Nat /\ DOMAIN versions = 1..Len(versions)
  BY QueriesTyped DEF DictionaryInv
<1>2. \A n \in DOMAIN versions : versions[n].status = "active" <=> n = Len(versions)
  BY DEF DictionaryInv, VersionsInv, LastVersionIsActive
<1>3. CASE Len(versions) = 0
  <2>1. ActivePositions = {}
    BY <1>1, <1>3 DEF ActivePositions
  <2>q. QED
    BY <1>1, <1>3, <2>1 DEF ActivePosition
<1>4. CASE Len(versions) # 0
  <2>1. Len(versions) \in DOMAIN versions
    BY <1>1, <1>4
  <2>2. ActivePositions = {Len(versions)}
    BY <1>2, <2>1 DEF ActivePositions
  <2>q. QED
    BY <1>1, <2>2 DEF ActivePosition
<1>q. QED
  BY <1>1, <1>3, <1>4

\* The rows are as many when they have the same positions.
LEMMA SamePositions ==
    ASSUME NEW a \in Nat, NEW b \in Nat, 1..a = 1..b
    PROVE  a = b
  OBVIOUS

\* The rows are written in place, and only their manifests.
ManifestsOnly ==
    /\ DOMAIN versions' = DOMAIN versions
    /\ Len(versions') = Len(versions)
    /\ \A n \in DOMAIN versions :
          /\ versions'[n].artifact = versions[n].artifact
          /\ versions'[n].status = versions[n].status

\* The version p wrote is the next row; the others keep what they hold.
NewRow(p) ==
    /\ Len(versions') = Len(versions) + 1
    /\ DOMAIN versions' = 1..(Len(versions) + 1)
    /\ versions'[Len(versions) + 1].artifact = publish[p].artifact
    /\ \A n \in DOMAIN versions :
          /\ versions'[n].artifact = versions[n].artifact
          /\ versions'[n].manifest = versions[n].manifest
    /\ \A n \in DOMAIN versions : versions[n].artifact # publish[p].artifact

LEMMA RowsUnchanged ==
    ASSUME UNCHANGED versions
    PROVE  ManifestsOnly
  BY DEF ManifestsOnly

LEMMA KeepFills ==
    ASSUME DictionaryInv, NEW p \in Publishers, KeepVersion(p)
    PROVE  /\ ManifestsOnly
           /\ (publish[p].saw \in DOMAIN versions /\ ~Refills(p)) =>
                 \A n \in DOMAIN versions : \/ versions[n].manifest = {}
                                            \/ versions'[n].manifest = versions[n].manifest
<1>0. \A n \in DOMAIN versions : versions[n] \in Version
  BY DEF DictionaryInv, DictionaryTypeOK
<1>1. CASE ~publish[p].fill
  <2>1. versions' = versions
    BY <1>1 DEF KeepVersion
  <2>q. QED
    BY <2>1, RowsUnchanged
<1>2. CASE publish[p].fill
  <2>1. versions' = [versions EXCEPT ![publish[p].saw].manifest = publish[p].read]
    BY <1>2 DEF KeepVersion
  <2>2. /\ DOMAIN versions' = DOMAIN versions
        /\ \A n \in DOMAIN versions : /\ versions'[n].artifact = versions[n].artifact
                                      /\ versions'[n].status = versions[n].status
    BY <1>0, <2>1 DEF Version
  <2>3. DictionaryInv' /\ Len(versions') = Len(versions)
    <3>1. DictionaryTypeOK' /\ VersionsInv'
      BY KeepsVersion DEF DictionaryInv
    <3>2. DOMAIN versions' = 1..Len(versions') /\ Len(versions') \in Nat
      BY <3>1, LenProperties DEF VersionsInv
    <3>3. DOMAIN versions = 1..Len(versions) /\ Len(versions) \in Nat
      BY LenProperties DEF DictionaryInv, VersionsInv
    <3>q. QED
      BY <2>2, <3>1, <3>2, <3>3, SamePositions DEF DictionaryInv
  <2>4. ASSUME publish[p].saw \in DOMAIN versions, ~Refills(p), NEW n \in DOMAIN versions
        PROVE  versions[n].manifest = {} \/ versions'[n].manifest = versions[n].manifest
    <3>1. CASE n # publish[p].saw
      BY <2>1, <3>1
    <3>2. CASE n = publish[p].saw
      <4>1. versions'[n].manifest = publish[p].read
        BY <1>0, <2>1, <2>4, <3>2 DEF Version
      <4>q. QED
        BY <1>2, <2>4, <3>2, <4>1 DEF Refills
    <3>q. QED
      BY <3>1, <3>2
  <2>q. QED
    BY <2>2, <2>3, <2>4 DEF ManifestsOnly
<1>q. QED
  BY <1>1, <1>2

LEMMA BackfillFills ==
    ASSUME DictionaryInv, BackfillManifest
    PROVE  /\ ManifestsOnly
           /\ \A n \in DOMAIN versions : \/ versions[n].manifest = {}
                                         \/ versions'[n].manifest = versions[n].manifest
<1>0. \A n \in DOMAIN versions : versions[n] \in Version
  BY DEF DictionaryInv, DictionaryTypeOK
<1>1. /\ DOMAIN versions' = DOMAIN versions
      /\ \A n \in DOMAIN versions :
            /\ versions'[n].artifact = versions[n].artifact
            /\ versions'[n].status = versions[n].status
            /\ versions[n].manifest = {} \/ versions'[n].manifest = versions[n].manifest
  BY <1>0 DEF BackfillManifest, Version
<1>2. Len(versions') = Len(versions)
  <2>1. DictionaryTypeOK' /\ VersionsInv'
    BY BackfillsManifest DEF DictionaryInv
  <2>2. DOMAIN versions' = 1..Len(versions') /\ Len(versions') \in Nat
    BY <2>1, LenProperties DEF VersionsInv
  <2>3. DOMAIN versions = 1..Len(versions) /\ Len(versions) \in Nat
    BY LenProperties DEF DictionaryInv, VersionsInv
  <2>q. QED
    BY <1>1, <2>2, <2>3, SamePositions
<1>q. QED
  BY <1>1, <1>2 DEF ManifestsOnly

LEMMA CommitAppends ==
    ASSUME DictionaryInv, NEW p \in Publishers, CommitVersion(p), ~NumberTaken(p)
    PROVE  /\ NewRow(p)
           /\ publish' = [publish EXCEPT ![p].pc = "deploying"]
           /\ crossed' = (crossed \/ \E o \in Publishers \ {p} :
                                        publish[o].pc = "deploying")
           /\ UNCHANGED deployed
<1> DEFINE row == [number |-> publish[p].last + 1, status |-> "active",
                   artifact |-> publish[p].artifact, manifest |-> publish[p].read]
<1>1. /\ versions' = Append(Superseded, row)
      /\ publish' = [publish EXCEPT ![p].pc = "deploying"]
      /\ crossed' = (crossed \/ \E o \in Publishers \ {p} : publish[o].pc = "deploying")
      /\ UNCHANGED deployed
  BY DEF CommitVersion
<1>2. /\ versions \in Seq(Version)
      /\ Len(versions) \in Nat
      /\ DOMAIN versions = 1..Len(versions)
      /\ \A n \in DOMAIN versions : versions[n] \in Version
  BY LenProperties DEF DictionaryInv, DictionaryTypeOK, VersionsInv
<1>3. Superseded \in Seq(Version) /\ Len(Superseded) = Len(versions)
  <2>1. Superseded \in [DOMAIN versions -> Version]
    BY <1>2 DEF Superseded, Version
  <2>q. QED
    BY <1>2, <2>1, RowsInPlace
<1>r. row \in Version
  BY DEF DictionaryInv, DictionaryTypeOK, PublishCall, Version
<1> HIDE DEF row
<1>4. /\ Len(versions') = Len(versions) + 1
      /\ DOMAIN versions' = 1..(Len(versions) + 1)
      /\ versions'[Len(versions) + 1] = row
      /\ \A n \in 1..Len(versions) : versions'[n] = Superseded[n]
  BY <1>1, <1>2, <1>3, <1>r
<1>5. \A n \in DOMAIN versions : /\ Superseded[n].artifact = versions[n].artifact
                                 /\ Superseded[n].manifest = versions[n].manifest
  BY <1>2 DEF Superseded, Version
<1>6. \A n \in DOMAIN versions : versions[n].artifact # publish[p].artifact
  BY DEF NumberTaken, HashTaken
<1>7. row.artifact = publish[p].artifact
  BY DEF row
<1>8. NewRow(p)
  BY <1>2, <1>4, <1>5, <1>6, <1>7 DEF NewRow
<1>q. QED
  BY <1>1, <1>8

-----------------------------------------------------------------------------
(* The file *)

\* Publications run while the server serves.
OnlyServing == server # "serving" => OpenPublishes = {}

\* The file is the active artifact, or the publication that wrote the active
\* version has still to write it.
FileKept ==
    (Up /\ ~crossed) =>
       /\ Len(versions) # 0 =>
             \/ deployed = versions[Len(versions)].artifact
             \/ \E p \in Publishers : publish[p].pc = "deploying"
       /\ \A p \in Publishers : publish[p].pc = "deploying" =>
             /\ Len(versions) # 0
             /\ publish[p].artifact = versions[Len(versions)].artifact

FileInv == SawIsThere /\ OnlyServing /\ FileKept

\* A call of publish that moves, and the others.
LEMMA PublishMoves ==
    ASSUME DictionaryTypeOK, NEW p \in Publishers, NEW r,
           publish' = [publish EXCEPT ![p] = r]
    PROVE  publish'[p] = r /\ \A o \in Publishers \ {p} : publish'[o] = publish[o]
  BY DEF DictionaryTypeOK

\* A call of publish that goes on to deploy.
LEMMA PublishDeploys ==
    ASSUME DictionaryTypeOK, NEW p \in Publishers,
           publish' = [publish EXCEPT ![p].pc = "deploying"]
    PROVE  /\ publish'[p].pc = "deploying"
           /\ publish'[p].saw = publish[p].saw
           /\ publish'[p].artifact = publish[p].artifact
           /\ \A o \in Publishers \ {p} : publish'[o] = publish[o]
  BY DEF DictionaryTypeOK, PublishCall

\* Whoever publishes, the server serves.
LEMMA OpenServes ==
    ASSUME OnlyServing, NEW p \in Publishers, publish[p].pc \notin {"idle", "closed"}
    PROVE  server = "serving"
  BY DEF OnlyServing, OpenPublishes

LEMMA FileRests ==
    ASSUME FileInv, UNCHANGED <<versions, deployed, publish, crossed, server>>
    PROVE  FileInv'
  BY DEF FileInv, SawIsThere, OnlyServing, OpenPublishes, FileKept, Up

\* No publication is under way while the server starts.
LEMMA FileWhileStarting ==
    ASSUME DictionaryInv, FileInv, server # "serving",
           UNCHANGED publish,
           Len(versions') = Len(versions),
           \/ ~Up'
           \/ crossed'
           \/ /\ UNCHANGED versions
              /\ Len(versions) # 0 => deployed' = versions[Len(versions)].artifact
    PROVE  FileInv'
<1>1. SawIsThere'
  BY DEF FileInv, SawIsThere
<1>2. OpenPublishes = {} /\ OpenPublishes' = {}
  BY DEF FileInv, OnlyServing, OpenPublishes
<1>3. OnlyServing'
  BY <1>2 DEF OnlyServing
<1>4. \A p \in Publishers : publish'[p].pc # "deploying"
  BY <1>2 DEF OpenPublishes
<1>5. FileKept'
  BY <1>4 DEF FileKept
<1>q. QED
  BY <1>1, <1>3, <1>5 DEF FileInv

LEMMA FileStarts ==
    ASSUME DictionaryInv, FileInv,
           \/ \E down \in SUBSET Dependencies : StartServer(down)
           \/ RepairManifest
           \/ RepairFails
           \/ RepairArtifact
    PROVE  FileInv'
<1>1. ASSUME NEW down, StartServer(down)
      PROVE  FileInv'
  <2>1. UNCHANGED <<versions, publish>> /\ server = "down" /\ ~Up'
    BY <1>1 DEF StartServer, dictionaryVars, Up
  <2>q. QED
    BY <2>1, FileWhileStarting
<1>2. CASE RepairManifest
  <2>1. UNCHANGED publish /\ server = "repairing" /\ ~Up' /\ Len(versions') = Len(versions)
    BY <1>2, BackfillFills DEF RepairManifest, BackfillManifest, ManifestsOnly, Up
  <2>q. QED
    BY <2>1, FileWhileStarting
<1>3. CASE RepairFails
  <2>1. UNCHANGED <<versions, publish>> /\ server = "repairing" /\ crossed'
    BY <1>3 DEF RepairFails
  <2>q. QED
    BY <2>1, FileWhileStarting
<1>4. CASE RepairArtifact
  <2>1. UNCHANGED <<versions, publish>> /\ server = "deploying"
    BY <1>4 DEF RepairArtifact, HealFile, RepairFile
  <2>2. \/ crossed'
        \/ Len(versions) # 0 => deployed' = versions[Len(versions)].artifact
    BY <1>4, LastIsActive DEF RepairArtifact, HealFile, RepairFile
  <2>q. QED
    BY <2>1, <2>2, FileWhileStarting
<1>q. QED
  BY <1>1, <1>2, <1>3, <1>4

LEMMA FileCrashes ==
    ASSUME DictionaryInv, FileInv, Crash
    PROVE  FileInv'
<1>1. ~Up' /\ UNCHANGED versions
  BY DEF Crash, StopDictionary, Up
<1>2. \A p \in Publishers : \/ publish'[p] = PublishAt("closed")
                            \/ p \notin OpenPublishes /\ publish'[p] = publish[p]
  BY DEF Crash, StopDictionary
<1>3. OpenPublishes' = {}
  BY <1>2 DEF OpenPublishes, PublishAt
<1>4. SawIsThere'
  BY <1>1, <1>2, LastIsActive DEF FileInv, SawIsThere, PublishAt
<1>q. QED
  BY <1>1, <1>3, <1>4 DEF FileInv, OnlyServing, FileKept

\* Reading, and ending without a version, leaves the file alone.
LEMMA FileOthers ==
    ASSUME DictionaryInv, FileInv, NEW p \in Publishers, NEW r,
           publish' = [publish EXCEPT ![p] = r],
           publish[p].pc # "deploying", r.pc # "deploying",
           r.saw <= Len(versions), server = "serving",
           UNCHANGED <<versions, deployed, crossed, server>>
    PROVE  FileInv'
<1>1. publish'[p] = r /\ \A o \in Publishers \ {p} : publish'[o] = publish[o]
  BY PublishMoves DEF DictionaryInv
<1>2. SawIsThere'
  BY <1>1 DEF FileInv, SawIsThere
<1>3. OnlyServing'
  BY DEF OnlyServing
<1>4. \A o \in Publishers : /\ publish'[o].pc = "deploying" <=> publish[o].pc = "deploying"
                            /\ publish'[o].pc = "deploying" =>
                                  publish'[o].artifact = publish[o].artifact
  BY <1>1
<1>5. FileKept'
  BY <1>4 DEF FileInv, FileKept, Up
<1>q. QED
  BY <1>2, <1>3, <1>5 DEF FileInv

LEMMA FileRequests ==
    ASSUME DictionaryInv, FileInv, NEW p \in Publishers, PublishRequest(p),
           server = "serving", UNCHANGED server
    PROVE  FileInv'
<1> DEFINE r == [pc |-> "read", read |-> ApprovedTerms,
                 saw |-> ActivePosition,
                 fill |-> ActivePosition # 0 /\ ActiveTerms = {},
                 last |-> LastNumber,
                 artifact |-> Artifact(ApprovedTerms)]
<1>1. /\ publish' = [publish EXCEPT ![p] = r]
      /\ publish[p].pc = "idle"
      /\ UNCHANGED <<versions, deployed, crossed>>
  BY DEF PublishRequest
<1>2. r.pc = "read" /\ r.saw = ActivePosition
  OBVIOUS
<1> HIDE DEF r
<1>3. r.saw <= Len(versions)
  BY <1>2, LastIsActive
<1>q. QED
  BY <1>1, <1>2, <1>3, FileOthers

\* The row a publication keeps is there.
LEMMA SawRow ==
    ASSUME DictionaryInv, SawIsThere, NEW p \in Publishers, SameAsActive(p)
    PROVE  publish[p].saw \in DOMAIN versions
<1>1. publish[p].saw \in Nat /\ publish[p].saw # 0 /\ publish[p].saw <= Len(versions)
  BY DEF DictionaryInv, DictionaryTypeOK, PublishCall, SameAsActive, SawIsThere
<1>q. QED
  BY <1>1, LastIsActive

LEMMA FileKeeps ==
    ASSUME DictionaryInv, FileInv, NEW p \in Publishers, KeepVersion(p), UNCHANGED server
    PROVE  FileInv'
<1>1. /\ publish[p].pc = "read"
      /\ SameAsActive(p)
      /\ publish' = [publish EXCEPT ![p].pc = "deploying"]
      /\ crossed' = (crossed \/ versions[publish[p].saw].status # "active")
      /\ UNCHANGED deployed
  BY DEF KeepVersion
<1>2. ManifestsOnly
  BY KeepFills
<1>3. /\ publish'[p].pc = "deploying"
      /\ publish'[p].saw = publish[p].saw
      /\ publish'[p].artifact = publish[p].artifact
      /\ \A o \in Publishers \ {p} : publish'[o] = publish[o]
  BY <1>1, PublishDeploys DEF DictionaryInv
<1>4. SawIsThere'
  BY <1>2, <1>3 DEF FileInv, SawIsThere, ManifestsOnly
<1>5. OnlyServing'
  BY <1>1, OpenServes DEF FileInv, OnlyServing
<1>6. publish[p].saw \in DOMAIN versions
  BY <1>1, SawRow DEF FileInv
<1>7. ~crossed' => publish[p].saw = Len(versions)
  BY <1>1, <1>6 DEF DictionaryInv, VersionsInv, LastVersionIsActive
<1>8. /\ Len(versions) \in Nat
      /\ DOMAIN versions = 1..Len(versions)
      /\ Len(versions') = Len(versions)
      /\ Len(versions) # 0 =>
            versions'[Len(versions)].artifact = versions[Len(versions)].artifact
  BY <1>2, LastIsActive DEF ManifestsOnly
<1>9. FileKept'
  <2>1. SUFFICES ASSUME Up, ~crossed'
                 PROVE  /\ publish'[p].pc = "deploying"
                        /\ \A o \in Publishers : publish'[o].pc = "deploying" =>
                              /\ Len(versions) # 0
                              /\ publish'[o].artifact = versions[Len(versions)].artifact
    BY <1>8 DEF FileKept, Up
  <2>2. Len(versions) # 0 /\ publish[p].artifact = versions[Len(versions)].artifact
    BY <1>1, <1>6, <1>7, <1>8, <2>1 DEF SameAsActive
  <2>3. ~crossed
    BY <1>1, <2>1
  <2>4. \A o \in Publishers \ {p} : publish'[o].pc = "deploying" =>
           /\ Len(versions) # 0
           /\ publish'[o].artifact = versions[Len(versions)].artifact
    BY <1>3, <2>1, <2>3 DEF FileInv, FileKept
  <2>q. QED
    BY <1>3, <2>2, <2>4
<1>q. QED
  BY <1>4, <1>5, <1>9 DEF FileInv

LEMMA FileCommits ==
    ASSUME DictionaryInv, FileInv, NEW p \in Publishers, CommitVersion(p), UNCHANGED server
    PROVE  FileInv'
<1>0. publish[p].pc = "read" /\ server = "serving"
  BY OpenServes DEF CommitVersion, FileInv
<1>1. CASE NumberTaken(p)
  <2>1. /\ publish' = [publish EXCEPT ![p] = PublishAt("closed")]
        /\ UNCHANGED <<versions, deployed, crossed>>
    BY <1>1 DEF CommitVersion
  <2>2. PublishAt("closed").pc = "closed" /\ PublishAt("closed").saw = 0
    BY DEF PublishAt
  <2>3. PublishAt("closed").saw <= Len(versions)
    BY <2>2, LastIsActive
  <2>q. QED
    BY <1>0, <2>1, <2>2, <2>3, FileOthers
<1>2. CASE ~NumberTaken(p)
  <2>1. /\ NewRow(p)
        /\ publish' = [publish EXCEPT ![p].pc = "deploying"]
        /\ crossed' = (crossed \/ \E o \in Publishers \ {p} : publish[o].pc = "deploying")
    BY <1>2, CommitAppends
  <2>2. /\ publish'[p].pc = "deploying"
        /\ publish'[p].saw = publish[p].saw
        /\ publish'[p].artifact = publish[p].artifact
        /\ \A o \in Publishers \ {p} : publish'[o] = publish[o]
    BY <2>1, PublishDeploys DEF DictionaryInv
  <2>3. /\ Len(versions) \in Nat
        /\ Len(versions') = Len(versions) + 1
        /\ versions'[Len(versions')].artifact = publish[p].artifact
    BY <2>1, LastIsActive DEF NewRow
  <2>4. \A o \in Publishers : publish[o].saw \in Nat /\ publish'[o].saw = publish[o].saw
    BY <2>2 DEF DictionaryInv, DictionaryTypeOK, PublishCall
  <2>5. SawIsThere'
    BY <2>3, <2>4 DEF FileInv, SawIsThere
  <2>6. OnlyServing'
    BY <1>0 DEF OnlyServing
  <2>7. ~crossed' => \A o \in Publishers : publish'[o].pc = "deploying" => o = p
    BY <2>1, <2>2
  <2>8. FileKept'
    BY <2>2, <2>3, <2>7 DEF FileKept
  <2>q. QED
    BY <2>5, <2>6, <2>8 DEF FileInv
<1>q. QED
  BY <1>1, <1>2

LEMMA FileDeploys ==
    ASSUME DictionaryInv, FileInv, NEW p \in Publishers,
           DeployArtifact(p) \/ DeployFails(p), UNCHANGED server
    PROVE  FileInv'
<1>0. /\ publish[p].pc = "deploying"
      /\ UNCHANGED versions
      /\ DeployArtifact(p) => deployed' = publish[p].artifact /\ UNCHANGED crossed
      /\ DeployFails(p) => crossed'
  BY DEF DeployArtifact, DeployFails
<1>1. PICK pc \in {"syncing", "closed"} : publish' = [publish EXCEPT ![p] = PublishAt(pc)]
  BY DEF DeployArtifact, DeployFails
<1>2. server = "serving"
  BY <1>0, OpenServes DEF FileInv
<1>3. publish'[p] = PublishAt(pc) /\ \A o \in Publishers \ {p} : publish'[o] = publish[o]
  BY <1>1, PublishMoves DEF DictionaryInv
<1>4. PublishAt(pc).pc # "deploying" /\ PublishAt(pc).saw = 0
  BY DEF PublishAt
<1>5. SawIsThere'
  BY <1>0, <1>3, <1>4, LastIsActive DEF FileInv, SawIsThere
<1>6. OnlyServing'
  BY <1>2 DEF OnlyServing
<1>7. FileKept'
  <2>1. SUFFICES ASSUME Up, ~crossed'
                 PROVE  /\ deployed' = versions[Len(versions)].artifact
                        /\ \A o \in Publishers : publish'[o].pc = "deploying" =>
                              /\ Len(versions) # 0
                              /\ publish'[o].artifact = versions[Len(versions)].artifact
    BY <1>0 DEF FileKept, Up
  <2>2. deployed' = publish[p].artifact /\ ~crossed
    BY <1>0, <2>1
  <2>3. \A o \in Publishers : publish[o].pc = "deploying" =>
           /\ Len(versions) # 0
           /\ publish[o].artifact = versions[Len(versions)].artifact
    BY <2>1, <2>2 DEF FileInv, FileKept
  <2>q. QED
    BY <1>0, <1>3, <1>4, <2>2, <2>3
<1>q. QED
  BY <1>5, <1>6, <1>7 DEF FileInv

LEMMA FileStep ==
    ASSUME DictionaryInv, FileInv, [Next]_vars
    PROVE  FileInv'
<1>1. CASE \/ \E down \in SUBSET Dependencies : StartServer(down)
           \/ RepairManifest
           \/ RepairFails
           \/ RepairArtifact
  BY <1>1, FileStarts
<1>2. CASE Serve
  <2>1. /\ UNCHANGED <<versions, deployed, publish, crossed>>
        /\ server = "syncing"
        /\ server' = "serving"
    BY <1>2 DEF Serve, dictionaryVars
  <2>q. QED
    BY <2>1 DEF FileInv, SawIsThere, OnlyServing, FileKept, Up
<1>3. CASE Crash
  BY <1>3, FileCrashes
<1>4. CASE /\ UNCHANGED serverVars
           /\ \/ StepDictionary
              \/ /\ server = "serving"
                 /\ BeginDictionary \/ \E t \in Terms : CreateCandidate(t)
  <2>0. UNCHANGED server
    BY <1>4 DEF serverVars
  <2>1. ASSUME NEW v \in Reviewers, NEW status, DecideTerm(v, status)
        PROVE  FileInv'
    BY <2>0, <2>1, FileRests DEF DecideTerm
  <2>2. ASSUME NEW p \in Publishers, KeepVersion(p) \/ CommitVersion(p)
        PROVE  FileInv'
    BY <2>0, <2>2, FileKeeps, FileCommits
  <2>3. ASSUME NEW p \in Publishers, DeployArtifact(p) \/ DeployFails(p)
        PROVE  FileInv'
    BY <2>0, <2>3, FileDeploys
  <2>4. ASSUME NEW v \in Reviewers, NEW t \in Terms, ReviewRequest(v, t)
        PROVE  FileInv'
    BY <2>0, <2>4, FileRests DEF ReviewRequest
  <2>5. ASSUME NEW p \in Publishers, PublishRequest(p), server = "serving"
        PROVE  FileInv'
    BY <2>0, <2>5, FileRequests
  <2>6. ASSUME NEW t \in Terms, CreateCandidate(t)
        PROVE  FileInv'
    BY <2>0, <2>6, FileRests DEF CreateCandidate
  <2>q. QED
    BY <1>4, <2>1, <2>2, <2>3, <2>4, <2>5, <2>6 DEF StepDictionary, BeginDictionary
<1>5. ASSUME NEW p \in Publishers, PublishSynchronizes(p)
      PROVE  FileInv'
  <2>1. /\ publish[p].pc = "syncing"
        /\ publish' = [publish EXCEPT ![p] = PublishAt("closed")]
        /\ UNCHANGED <<versions, deployed, crossed, server>>
    BY <1>5 DEF PublishSynchronizes, serverVars
  <2>2. PublishAt("closed").pc = "closed" /\ PublishAt("closed").saw = 0
    BY DEF PublishAt
  <2>3. PublishAt("closed").saw <= Len(versions) /\ server = "serving"
    BY <2>1, <2>2, LastIsActive, OpenServes DEF FileInv
  <2>q. QED
    BY <2>1, <2>2, <2>3, FileOthers
<1>6. CASE UNCHANGED <<dictionaryVars, server>>
  BY <1>6, FileRests DEF dictionaryVars
<1>q. QED
  BY <1>1, <1>2, <1>3, <1>4, <1>5, <1>6 DEF Next, vars, serverVars

LEMMA FileBegins ==
    ASSUME Init
    PROVE  FileInv
<1>1. DictionaryInv
  BY DictionaryStarts DEF Init, DictionaryInv
<1>2. publish = [p \in Publishers |-> PublishAt("idle")] /\ server = "down"
  BY DEF Init, DictionaryInit
<1>3. \A p \in Publishers : publish[p].pc = "idle" /\ publish[p].saw = 0
  BY <1>2 DEF PublishAt
<1>q. QED
  BY <1>1, <1>2, <1>3, LastIsActive
  DEF FileInv, SawIsThere, OnlyServing, OpenPublishes, FileKept, Up

\* When no call is under way the file of the server holds the artifact of the
\* active version, for every number of publications, crashes and failed
\* repairs, unless two publications crossed or the file could not be written
\* (dictionary.publish, sync_active_artifact).
THEOREM FileIsActive == Spec => []FileFollowsActive
<1>1. Init => DictionaryInv /\ FileInv
  BY DictionaryStarts, FileBegins DEF Init, DictionaryInv
<1>2. DictionaryInv /\ FileInv /\ [Next]_vars => DictionaryInv' /\ FileInv'
  BY DictionaryStep, FileStep
<1>3. DictionaryInv /\ FileInv => FileFollowsActive
  <2>1. SUFFICES ASSUME DictionaryInv, FileInv, Quiet, ~crossed, ActivePosition # 0
                 PROVE  deployed = versions[ActivePosition].artifact
    BY DEF FileFollowsActive
  <2>2. ActivePosition = Len(versions)
    BY <2>1, LastIsActive
  <2>3. Up /\ OpenPublishes = {}
    BY <2>1 DEF Quiet, Up, Open
  <2>4. \A p \in Publishers : publish[p].pc # "deploying"
    BY <2>3 DEF OpenPublishes
  <2>q. QED
    BY <2>1, <2>2, <2>3, <2>4 DEF FileInv, FileKept
<1>q. QED
  BY <1>1, <1>2, <1>3, PTL DEF Spec

-----------------------------------------------------------------------------
(* What a step does to the rows *)

\* A manifest that was filled in stays as it is.
ManifestsStay ==
    \A n \in DOMAIN versions : \/ versions[n].manifest = {}
                               \/ versions'[n].manifest = versions[n].manifest

\* A step writes manifests, the missing ones only unless two publications
\* filled in one, or it appends a row that is still to be deployed.
LEMMA RowsMove ==
    ASSUME DictionaryInv, FileInv, [Next]_vars
    PROVE  /\ refilled => refilled'
           /\ \/ ManifestsOnly /\ (refilled' \/ ManifestsStay)
              \/ \E p \in Publishers : NewRow(p) /\ publish'[p].pc = "deploying"
<1>1. ASSUME UNCHANGED <<versions, refilled>>
      PROVE  /\ refilled => refilled'
             /\ ManifestsOnly /\ ManifestsStay
  BY <1>1, RowsUnchanged DEF ManifestsStay
<1>2. CASE RepairManifest
  BY <1>2, BackfillFills DEF RepairManifest, BackfillManifest, ManifestsStay
<1>3. ASSUME NEW p \in Publishers, KeepVersion(p)
      PROVE  /\ refilled => refilled'
             /\ ManifestsOnly /\ (refilled' \/ ManifestsStay)
  <2>1. publish[p].saw \in DOMAIN versions
    BY <1>3, SawRow DEF FileInv, KeepVersion
  <2>2. refilled' = (refilled \/ Refills(p))
    BY <1>3 DEF KeepVersion
  <2>q. QED
    BY <1>3, <2>1, <2>2, KeepFills DEF ManifestsStay
<1>4. ASSUME NEW p \in Publishers, CommitVersion(p)
      PROVE  /\ refilled => refilled'
             /\ \/ ManifestsOnly /\ ManifestsStay
                \/ NewRow(p) /\ publish'[p].pc = "deploying"
  <2>1. CASE NumberTaken(p)
    BY <1>1, <1>4, <2>1 DEF CommitVersion
  <2>2. CASE ~NumberTaken(p)
    <3>1. NewRow(p) /\ publish' = [publish EXCEPT ![p].pc = "deploying"]
      BY <1>4, <2>2, CommitAppends
    <3>2. publish'[p].pc = "deploying"
      BY <3>1, PublishDeploys DEF DictionaryInv
    <3>3. UNCHANGED refilled
      BY <1>4 DEF CommitVersion
    <3>q. QED
      BY <3>1, <3>2, <3>3
  <2>q. QED
    BY <2>1, <2>2
<1>5. CASE \/ \E down \in SUBSET Dependencies : StartServer(down)
           \/ RepairFails
           \/ RepairArtifact
           \/ Serve
           \/ Crash
           \/ \E p \in Publishers : PublishSynchronizes(p)
  <2>1. UNCHANGED <<versions, refilled>>
    BY <1>5
    DEF StartServer, RepairFails, RepairArtifact, HealFile, RepairFile, Serve, Crash,
        StopDictionary, PublishSynchronizes, dictionaryVars
  <2>q. QED
    BY <1>1, <2>1
<1>6. CASE \/ StepDictionary
           \/ BeginDictionary
           \/ \E t \in Terms : CreateCandidate(t)
  <2>1. CASE \/ \E v \in Reviewers, status \in {"approved", "rejected"} :
                   DecideTerm(v, status)
             \/ \E p \in Publishers : DeployArtifact(p) \/ DeployFails(p)
             \/ BeginDictionary
             \/ \E t \in Terms : CreateCandidate(t)
    <3>1. UNCHANGED <<versions, refilled>>
      BY <2>1
      DEF DecideTerm, DeployArtifact, DeployFails, BeginDictionary, ReviewRequest,
          PublishRequest, CreateCandidate
    <3>q. QED
      BY <1>1, <3>1
  <2>q. QED
    BY <1>3, <1>4, <1>6, <2>1 DEF StepDictionary
<1>7. CASE UNCHANGED dictionaryVars
  BY <1>1, <1>7 DEF dictionaryVars
<1>q. QED
  BY <1>2, <1>5, <1>6, <1>7 DEF Next, vars

LEMMA HashStays ==
    ASSUME DictionaryInv, FileInv, HashUnique, [Next]_vars
    PROVE  HashUnique'
<1>1. CASE ManifestsOnly
  BY <1>1 DEF ManifestsOnly, HashUnique
<1>2. ASSUME NEW p \in Publishers, NewRow(p)
      PROVE  HashUnique'
  <2>1. /\ Len(versions) \in Nat
        /\ DOMAIN versions = 1..Len(versions)
        /\ DOMAIN versions' = 1..(Len(versions) + 1)
    BY <1>2, LastIsActive DEF NewRow
  <2>2. \A n \in DOMAIN versions' : n \in DOMAIN versions \/ n = Len(versions) + 1
    BY <2>1
  <2>q. QED
    BY <1>2, <2>2 DEF NewRow, HashUnique
<1>q. QED
  BY <1>1, <1>2, RowsMove

-----------------------------------------------------------------------------
(* The marks of the records *)

\* A record is marked with the terms of the version its index is named after,
\* or was written before that version had a manifest.
MarkSound(hash, r) ==
    \/ r.terms = {}
    \/ \E n \in DOMAIN versions :
          /\ versions[n].artifact = hash
          /\ r.terms = versions[n].manifest \cap Mentions[r.index]

\* What is written, and what a call has still to write.
Marks ==
    /\ \A g \in DOMAIN indices : \A r \in indices[g] : MarkSound(g.hash, r)
    /\ \A c \in Rebuilding : \A r \in sync[c].todo : MarkSound(sync[c].gen.hash, r)

MarksInv == ~refilled => Marks

\* The rows that appear or are filled in contradict no mark.
LEMMA MarkStays ==
    ASSUME DictionaryInv, FileInv, [Next]_vars, ~refilled',
           NEW hash, NEW r, MarkSound(hash, r)
    PROVE  MarkSound(hash, r)'
<1>1. CASE r.terms = {}
  BY <1>1 DEF MarkSound
<1>2. ASSUME NEW n \in DOMAIN versions,
             versions[n].artifact = hash,
             r.terms = versions[n].manifest \cap Mentions[r.index]
      PROVE  MarkSound(hash, r)'
  <2>1. CASE ManifestsOnly /\ ManifestsStay
    <3>1. n \in DOMAIN versions' /\ versions'[n].artifact = hash
      BY <1>2, <2>1 DEF ManifestsOnly
    <3>2. CASE versions[n].manifest = {}
      <4>1. r.terms = {}
        BY <1>2, <3>2
      <4>q. QED
        BY <4>1 DEF MarkSound
    <3>3. CASE versions'[n].manifest = versions[n].manifest
      BY <1>2, <3>1, <3>3 DEF MarkSound
    <3>q. QED
      BY <2>1, <3>2, <3>3 DEF ManifestsStay
  <2>2. ASSUME NEW p \in Publishers, NewRow(p)
        PROVE  MarkSound(hash, r)'
    <3>1. n \in DOMAIN versions'
      BY <2>2, LastIsActive DEF NewRow
    <3>q. QED
      BY <1>2, <2>2, <3>1 DEF NewRow, MarkSound
  <2>q. QED
    BY <2>1, <2>2, RowsMove
<1>q. QED
  BY <1>1, <1>2 DEF MarkSound

\* The snapshot is marked with the active version.
LEMMA SnapshotMarked ==
    ASSUME DictionaryInv, NEW r \in Snapshot
    PROVE  MarkSound(DictionaryHash, r)
<1>1. PICK i \in active : r = [index |-> i, terms |-> Matched(i)]
  BY DEF Snapshot
<1>2. r.terms = ActiveTerms \cap Mentions[r.index]
  BY <1>1 DEF Matched
<1>3. CASE ActivePosition = 0
  BY <1>2, <1>3 DEF ActiveTerms, MarkSound
<1>4. CASE ActivePosition # 0
  <2>1. ActivePosition \in DOMAIN versions
    BY <1>4, QueriesTyped DEF DictionaryInv
  <2>q. QED
    BY <1>2, <1>4, <2>1 DEF ActiveTerms, DictionaryHash, MarkSound
<1>q. QED
  BY <1>3, <1>4

\* One call moves, and goes on with its generation or ends.
LEMMA CallMoves ==
    ASSUME LexicalInv, NEW c \in Rebuilding, StepSync(c)
    PROVE  /\ \A d \in Syncers \ {c} : sync'[d] = sync[d]
           /\ sync'[c].pc \notin {"idle", "waiting"}
           /\ \/ sync'[c].pc = "closed"
              \/ /\ sync'[c].gen = sync[c].gen
                 /\ sync'[c].todo \subseteq sync[c].todo
<1>0. sync \in [Syncers -> SyncCall] /\ c \in Syncers /\ sync[c].pc \notin {"idle", "waiting", "closed"}
  BY DEF LexicalInv, LexicalTypeOK, Rebuilding
<1>1. CASE \E result : Finish(c, result)
  <2>1. sync' = [sync EXCEPT ![c] = SyncAt("closed")]
    BY <1>1 DEF Finish
  <2>2. SyncAt("closed").pc = "closed"
    BY DEF SyncAt
  <2>q. QED
    BY <1>0, <2>1, <2>2
<1>2. CASE \E pc \in {"deleting", "creating", "writing", "cleaning"} :
             sync' = [sync EXCEPT ![c].pc = pc]
  <2>1. PICK pc \in {"deleting", "creating", "writing", "cleaning"} :
            sync' = [sync EXCEPT ![c].pc = pc]
    BY <1>2
  <2>2. sync' = [sync EXCEPT ![c] = [pc |-> pc, gen |-> sync[c].gen,
                                     todo |-> sync[c].todo]]
    BY <2>1, CallFields
  <2>q. QED
    BY <1>0, <2>2
<1>3. CASE \E r : sync' = [sync EXCEPT ![c].todo = @ \ {r}]
  <2>1. PICK r : sync' = [sync EXCEPT ![c].todo = @ \ {r}]
    BY <1>3
  <2>2. sync' = [sync EXCEPT ![c] = [pc |-> sync[c].pc, gen |-> sync[c].gen,
                                     todo |-> sync[c].todo \ {r}]]
    BY <2>1, CallFields
  <2>q. QED
    BY <1>0, <2>2
<1>4. CASE sync' = [sync EXCEPT ![c] = [pc |-> "cleaning", gen |-> @.gen, todo |-> {}]]
  BY <1>0, <1>4
<1>5. ~TakeSnapshot(c)
  BY DEF TakeSnapshot, Rebuilding
<1>q. QED
  BY <1>1, <1>2, <1>3, <1>4, <1>5
  DEF StepSync, Probe, DeleteLeftover, CreatePhysical, WriteBatch, SwitchAlias,
      SwitchUnanswered, SearchFails, CleanUp

\* Of the records of an index, each one was there or is one the call had to
\* write; what the call still has to write it had to write before.
LEMMA RecordsMove ==
    ASSUME LexicalInv, NEW c \in Rebuilding, StepSync(c)
    PROVE  /\ \A d \in Rebuilding' : /\ d \in Rebuilding
                                     /\ sync'[d].gen = sync[d].gen
                                     /\ sync'[d].todo \subseteq sync[d].todo
           /\ \A g \in DOMAIN indices' : \A r \in indices'[g] :
                 \/ g \in DOMAIN indices /\ r \in indices[g]
                 \/ g = sync[c].gen /\ r \in sync[c].todo
<1>0. sync \in [Syncers -> SyncCall] /\ c \in Syncers
  BY DEF LexicalInv, LexicalTypeOK, Rebuilding
<1>1. /\ \A d \in Syncers \ {c} : sync'[d] = sync[d]
      /\ \/ sync'[c].pc = "closed"
         \/ /\ sync'[c].gen = sync[c].gen
            /\ sync'[c].todo \subseteq sync[c].todo
  BY CallMoves
<1>2. \/ indices' = indices
      \/ indices' = Without(sync[c].gen)
      \/ /\ sync[c].gen \notin DOMAIN indices
         /\ indices' = With(sync[c].gen, {})
      \/ \E r \in sync[c].todo :
            indices' = With(sync[c].gen,
                            {r} \cup (IF sync[c].gen \in DOMAIN indices
                                      THEN indices[sync[c].gen] ELSE {}))
  BY DEF StepSync, TakeSnapshot, Probe, DeleteLeftover, CreatePhysical, WriteBatch,
         SwitchAlias, SwitchUnanswered, SearchFails, CleanUp, DeleteFailed
<1>3. \A g \in DOMAIN indices' : \A r \in indices'[g] :
         \/ g \in DOMAIN indices /\ r \in indices[g]
         \/ g = sync[c].gen /\ r \in sync[c].todo
  <2>1. CASE indices' = indices
    BY <2>1
  <2>2. CASE indices' = Without(sync[c].gen)
    BY <2>2 DEF Without
  <2>3. CASE indices' = With(sync[c].gen, {})
    BY <2>3 DEF With
  <2>4. ASSUME NEW q \in sync[c].todo,
               indices' = With(sync[c].gen,
                               {q} \cup (IF sync[c].gen \in DOMAIN indices
                                         THEN indices[sync[c].gen] ELSE {}))
        PROVE  \A g \in DOMAIN indices' : \A r \in indices'[g] :
                  \/ g \in DOMAIN indices /\ r \in indices[g]
                  \/ g = sync[c].gen /\ r \in sync[c].todo
    BY <2>4 DEF With
  <2>q. QED
    BY <1>2, <2>1, <2>2, <2>3, <2>4
<1>4. \A d \in Rebuilding' : d \in Syncers /\ sync'[d].pc # "closed"
  BY DEF Rebuilding
<1>5. \A d \in Rebuilding' \ {c} : d \in Rebuilding
  BY <1>1 DEF Rebuilding
<1>q. QED
  BY <1>1, <1>3, <1>4, <1>5

LEMMA MarksStep ==
    ASSUME ServiceInv, FileInv, MarksInv, [Next]_vars
    PROVE  MarksInv'
<1> SUFFICES ASSUME ~refilled'
             PROVE  Marks'
  BY DEF MarksInv
<1>0. DictionaryInv /\ LexicalInv
  BY DEF ServiceInv
<1>1. Marks
  BY <1>0, RowsMove DEF MarksInv
<1>2. \A hash, r : MarkSound(hash, r) => MarkSound(hash, r)'
  BY <1>0, MarkStays
<1>3. CASE Rests
  <2>1. UNCHANGED indices
    BY <1>3 DEF Rests
  <2>2. \A d \in Rebuilding' : d \in Rebuilding /\ sync'[d] = sync[d]
    BY <1>3 DEF Rests, Rebuilding
  <2>q. QED
    BY <1>1, <1>2, <2>1, <2>2 DEF Marks
<1>4. ASSUME NEW c \in Syncers, TakeSnapshot(c)
      PROVE  Marks'
  <2>1. /\ sync' = [sync EXCEPT ![c] = [pc |-> "probing", gen |-> GenerationNow,
                                        todo |-> Snapshot]]
        /\ UNCHANGED indices
    BY <1>4 DEF TakeSnapshot
  <2>2. /\ sync'[c].gen = GenerationNow
        /\ sync'[c].todo = Snapshot
        /\ \A d \in Syncers \ {c} : sync'[d] = sync[d]
    BY <1>0, <2>1 DEF LexicalInv, LexicalTypeOK
  <2>3. \A r \in Snapshot : MarkSound(GenerationNow.hash, r)
    BY <1>0, SnapshotMarked DEF GenerationNow
  <2>4. \A d \in Rebuilding' : d \in Syncers /\ (d # c => d \in Rebuilding)
    BY <2>2 DEF Rebuilding
  <2>q. QED
    BY <1>1, <1>2, <2>1, <2>2, <2>3, <2>4 DEF Marks
<1>5. ASSUME NEW c \in Syncers, StepSync(c), ~TakeSnapshot(c)
      PROVE  Marks'
  <2>1. c \in Rebuilding
    BY <1>5
    DEF StepSync, Probe, DeleteLeftover, CreatePhysical, WriteBatch, SwitchAlias,
        SwitchUnanswered, SearchFails, CleanUp, Rebuilding
  <2>2. /\ \A d \in Rebuilding' : /\ d \in Rebuilding
                                  /\ sync'[d].gen = sync[d].gen
                                  /\ sync'[d].todo \subseteq sync[d].todo
        /\ \A g \in DOMAIN indices' : \A r \in indices'[g] :
              \/ g \in DOMAIN indices /\ r \in indices[g]
              \/ g = sync[c].gen /\ r \in sync[c].todo
    BY <1>0, <1>5, <2>1, RecordsMove
  <2>q. QED
    BY <1>1, <1>2, <2>1, <2>2 DEF Marks
<1>q. QED
  BY <1>0, <1>3, <1>4, <1>5, LexicalStep DEF CallStep

-----------------------------------------------------------------------------
(* The freshness of the alias *)

\* A change was committed and the call that synchronises it has not begun.
Pending ==
    \/ \E c \in Served : sync[c].pc = "waiting"
    \/ \E p \in Publishers : publish[p].pc \in {"deploying", "syncing"}

Settled == Up /\ ~contended /\ ~missed /\ ~Pending

\* Who rebuilds builds what is active now; when nobody of the server does and
\* the last call did not fail, the alias is at what is active now.
UpToDate ==
    /\ \A c \in Rebuilding : sync[c].gen = GenerationNow
    /\ (~swallowed /\ lastResult # "failed" /\ Rebuilding \cap Served = {}) =>
          alias = GenerationNow

\* The calls of the server run while it is up.
OnlyUp == ~Up => \A c \in Served : sync[c].pc \in {"idle", "closed"}

FreshInv == OnlyUp /\ (Settled => UpToDate)

LEMMA CallersServed ==
    /\ Publishers \subseteq Served
    /\ Changes \subseteq Served
    /\ Startup \in Served
    /\ Command \in Syncers
    /\ Served = Syncers \ {Command}
  BY LexicalAssumption DEF Served, Syncers

\* The artifact of the active version is what it was unless a row was added.
LEMMA GenerationStays ==
    ASSUME DictionaryInv, ManifestsOnly, UNCHANGED active
    PROVE  GenerationNow' = GenerationNow
<1>1. /\ Len(versions) \in Nat
      /\ DOMAIN versions = 1..Len(versions)
      /\ ActivePosition = Len(versions)
  BY LastIsActive
<1>2. ActivePositions' = ActivePositions
  BY DEF ActivePositions, ManifestsOnly
<1>3. ActivePosition' = ActivePosition
  BY <1>2 DEF ActivePosition
<1>4. ActivePosition # 0 => ActivePosition \in DOMAIN versions
  BY <1>1
<1>5. DictionaryHash' = DictionaryHash
  BY <1>3, <1>4 DEF DictionaryHash, ManifestsOnly
<1>q. QED
  BY <1>5 DEF GenerationNow

\* Whoever is about to synchronise is pending, whatever becomes of the rest.
LEMMA FreshWhenPending ==
    ASSUME FreshInv, Up', NEW c \in Served, sync'[c].pc = "waiting"
    PROVE  FreshInv'
  BY DEF FreshInv, OnlyUp, Settled, Pending

\* Steps that leave the search index and the calls alone.
LEMMA FreshRests ==
    ASSUME FreshInv, Up' <=> Up,
           UNCHANGED <<active, indices, alias, sync, lastResult, contended, swallowed>>,
           ~missed' => ~missed,
           \/ Pending'
           \/ ~Pending /\ GenerationNow' = GenerationNow
           \/ missed'
    PROVE  FreshInv'
  BY DEF FreshInv, OnlyUp, Settled, UpToDate, Rebuilding

LEMMA FreshStarts ==
    ASSUME DictionaryInv, LexicalInv, FileInv, FreshInv,
           \/ \E down \in SUBSET Dependencies : StartServer(down)
           \/ RepairManifest
           \/ RepairFails
           \/ RepairArtifact
           \/ Serve
    PROVE  FreshInv'
<1>0. sync \in [Syncers -> SyncCall]
  BY DEF LexicalInv, LexicalTypeOK
<1>1. CASE (\E down \in SUBSET Dependencies : StartServer(down)) \/ RepairManifest
  <2>1. ~Up /\ ~Up' /\ UNCHANGED sync
    BY <1>1 DEF StartServer, RepairManifest, lexicalVars, Up
  <2>q. QED
    BY <2>1 DEF FreshInv, OnlyUp, Settled
<1>2. CASE RepairFails \/ RepairArtifact
  <2>1. Up' /\ sync' = [sync EXCEPT ![Startup] = SyncAt("waiting")]
    BY <1>2 DEF RepairFails, RepairArtifact, CallSynchronize, Up
  <2>2. sync'[Startup].pc = "waiting"
    BY <1>0, <2>1, CallersServed DEF SyncAt
  <2>q. QED
    BY <2>1, <2>2, CallersServed, FreshWhenPending
<1>3. CASE Serve
  <2>1. /\ Up /\ Up'
        /\ UNCHANGED <<dictionaryVars, lexicalVars>>
    BY <1>3 DEF Serve, Up
  <2>2. UNCHANGED <<active, indices, alias, sync, lastResult, contended, swallowed,
                    missed, publish, versions>>
    BY <2>1 DEF dictionaryVars, lexicalVars
  <2>3. Pending' = Pending
    BY <2>2 DEF Pending
  <2>4. GenerationNow' = GenerationNow
    BY <2>2, RowsUnchanged, GenerationStays
  <2>q. QED
    BY <2>1, <2>2, <2>3, <2>4, FreshRests
<1>q. QED
  BY <1>1, <1>2, <1>3

LEMMA FreshCrashes ==
    ASSUME FreshInv, Crash
    PROVE  FreshInv'
<1>1. ~Up'
  BY DEF Crash, Up
<1>2. \A c \in Served : sync'[c].pc \in {"idle", "closed"}
  BY DEF Crash, StopSyncs, Served, SyncAt
<1>q. QED
  BY <1>1, <1>2 DEF FreshInv, OnlyUp, Settled

\* A publication under way is pending until it synchronised or was missed.
LEMMA PendingMoves ==
    ASSUME DictionaryInv,
           \/ StepDictionary
           \/ BeginDictionary
           \/ \E t \in Terms : CreateCandidate(t)
    PROVE  \A p \in Publishers : publish[p].pc \in {"deploying", "syncing"} =>
              \/ publish'[p].pc \in {"deploying", "syncing"}
              \/ publish[p].pc = "deploying" /\ publish'[p].pc = "closed"
<1>1. CASE UNCHANGED publish
  BY <1>1
<1>2. ASSUME NEW o \in Publishers,
             KeepVersion(o) \/ CommitVersion(o) \/ PublishRequest(o)
      PROVE  \A p \in Publishers : publish[p].pc \in {"deploying", "syncing"} =>
                publish'[p].pc \in {"deploying", "syncing"}
  <2>1. publish[o].pc \in {"read", "idle"}
    BY <1>2 DEF KeepVersion, CommitVersion, PublishRequest
  <2>2. \A p \in Publishers \ {o} : publish'[p] = publish[p]
    BY <1>2
    DEF KeepVersion, CommitVersion, PublishRequest, DictionaryInv, DictionaryTypeOK
  <2>q. QED
    BY <2>1, <2>2
<1>3. ASSUME NEW o \in Publishers, DeployArtifact(o) \/ DeployFails(o)
      PROVE  \A p \in Publishers : publish[p].pc \in {"deploying", "syncing"} =>
                \/ publish'[p].pc \in {"deploying", "syncing"}
                \/ publish[p].pc = "deploying" /\ publish'[p].pc = "closed"
  <2>1. PICK pc \in {"syncing", "closed"} : publish' = [publish EXCEPT ![o] = PublishAt(pc)]
    BY <1>3 DEF DeployArtifact, DeployFails
  <2>2. publish'[o] = PublishAt(pc) /\ \A p \in Publishers \ {o} : publish'[p] = publish[p]
    BY <2>1, PublishMoves DEF DictionaryInv
  <2>3. publish[o].pc = "deploying" /\ PublishAt(pc).pc = pc
    BY <1>3 DEF DeployArtifact, DeployFails, PublishAt
  <2>q. QED
    BY <2>2, <2>3
<1>q. QED
  BY <1>1, <1>2, <1>3
  DEF StepDictionary, BeginDictionary, DecideTerm, ReviewRequest, CreateCandidate

LEMMA FreshDictionary ==
    ASSUME DictionaryInv, FileInv, FreshInv, [Next]_vars,
           \/ StepDictionary
           \/ BeginDictionary
           \/ \E t \in Terms : CreateCandidate(t),
           missed' = (missed \/ \E p \in Publishers : /\ publish[p].pc = "deploying"
                                                       /\ publish'[p].pc = "closed"),
           UNCHANGED <<active, indices, alias, sync, lastResult, contended,
                       swallowed, serverVars>>
    PROVE  FreshInv'
<1>1. UNCHANGED server /\ (Up' <=> Up)
  BY DEF serverVars, Up
<1>2. ~missed' => ~missed
  OBVIOUS
<1>3. (~missed' /\ Pending) => Pending'
  BY PendingMoves DEF Pending
<1>4. CASE ManifestsOnly
  BY <1>1, <1>2, <1>3, <1>4, GenerationStays, FreshRests
<1>5. ASSUME NEW p \in Publishers, publish'[p].pc = "deploying"
      PROVE  Pending'
  BY <1>5 DEF Pending
<1>q. QED
  BY <1>1, <1>2, <1>4, <1>5, RowsMove, FreshRests

LEMMA FreshRequests ==
    ASSUME DictionaryInv, LexicalInv, FileInv, FreshInv,
           \/ \E p \in Publishers : PublishSynchronizes(p)
           \/ /\ server = "serving"
              /\ \E c \in Changes, i \in Indexes :
                    ActivateIndex(c, i) \/ DeleteDocument(c, i)
              /\ UNCHANGED <<dictionaryVars, serverVars>>
           \/ CallSynchronize(Command) /\ UNCHANGED <<dictionaryVars, serverVars>>
    PROVE  FreshInv'
<1>0. sync \in [Syncers -> SyncCall]
  BY DEF LexicalInv, LexicalTypeOK
<1>1. ASSUME NEW p \in Publishers, PublishSynchronizes(p)
      PROVE  FreshInv'
  <2>1. server = "serving"
    BY <1>1, OpenServes DEF PublishSynchronizes, FileInv
  <2>2. Up' /\ sync' = [sync EXCEPT ![p] = SyncAt("waiting")]
    BY <1>1, <2>1 DEF PublishSynchronizes, CallSynchronize, serverVars, Up
  <2>3. p \in Served /\ sync'[p].pc = "waiting"
    BY <1>0, <2>2, CallersServed DEF SyncAt
  <2>q. QED
    BY <2>2, <2>3, FreshWhenPending
<1>2. ASSUME NEW c \in Changes, NEW i \in Indexes,
             server = "serving", UNCHANGED serverVars,
             ActivateIndex(c, i) \/ DeleteDocument(c, i)
      PROVE  FreshInv'
  <2>1. Up' /\ sync' = [sync EXCEPT ![c].pc = "waiting"]
    BY <1>2 DEF ActivateIndex, DeleteDocument, serverVars, Up
  <2>2. c \in Served /\ sync'[c].pc = "waiting"
    BY <1>0, <2>1, CallersServed DEF SyncCall
  <2>q. QED
    BY <2>1, <2>2, FreshWhenPending
<1>3. CASE CallSynchronize(Command) /\ UNCHANGED <<dictionaryVars, serverVars>>
  <2>1. /\ sync' = [sync EXCEPT ![Command] = SyncAt("waiting")]
        /\ UNCHANGED <<active, indices, alias, lastResult, contended, swallowed, missed>>
        /\ UNCHANGED <<publish, versions, server>>
    BY <1>3 DEF CallSynchronize, dictionaryVars, serverVars
  <2>2. /\ \A d \in Served : sync'[d] = sync[d]
        /\ sync'[Command].pc = "waiting"
    BY <1>0, <2>1, CallersServed DEF SyncAt
  <2>3. GenerationNow' = GenerationNow
    BY <2>1, RowsUnchanged, GenerationStays
  <2>4. /\ \A d \in Rebuilding' : d \in Rebuilding /\ sync'[d] = sync[d]
        /\ Rebuilding' \cap Served = Rebuilding \cap Served
    BY <2>2, CallersServed DEF Rebuilding
  <2>5. Settled' => Settled
    BY <2>1, <2>2 DEF Settled, Pending, Up
  <2>6. OnlyUp'
    BY <2>1, <2>2 DEF FreshInv, OnlyUp, Up
  <2>7. UpToDate => UpToDate'
    BY <2>1, <2>3, <2>4 DEF UpToDate
  <2>q. QED
    BY <2>5, <2>6, <2>7 DEF FreshInv
<1>q. QED
  BY <1>1, <1>2, <1>3

\* What a call that rebuilds makes of the alias: it stays or moves to what the
\* call builds, and a call of the server that ends without an error leaves it
\* there.
LEMMA CallOutcome ==
    ASSUME LexicalInv, AliasInv, NEW c \in Rebuilding, StepSync(c),
           ~contended, ~swallowed'
    PROVE  /\ alias' \in {alias, sync[c].gen}
           /\ c = Command => lastResult' = lastResult
           /\ (c # Command /\ c \notin Rebuilding') =>
                 lastResult' = "failed" \/ alias' = sync[c].gen
<1> DEFINE g == sync[c].gen
<1>0. sync \in [Syncers -> SyncCall] /\ c \in Syncers /\ g \in Generation /\ g # None
  BY NoneIsNoGeneration DEF LexicalInv, LexicalTypeOK, Rebuilding
<1>1. CallInv(c)
  BY DEF AliasInv
<1>2. ~TakeSnapshot(c)
  BY DEF TakeSnapshot, Rebuilding
<1>3. ASSUME NEW pc \in {"probing", "deleting", "creating", "writing", "cleaning"},
             sync' = [sync EXCEPT ![c].pc = pc]
      PROVE  c \in Rebuilding'
  BY <1>0, <1>3 DEF Rebuilding, SyncCall
<1>4. CASE Probe(c)
  <2>1. UNCHANGED alias
    BY <1>4 DEF Probe
  <2>2. CASE g \in DOMAIN indices /\ alias = g
    BY <1>4, <2>1, <2>2 DEF Probe, Finish
  <2>3. CASE ~(g \in DOMAIN indices /\ alias = g)
    <3>1. PICK pc \in {"deleting", "creating"} : sync' = [sync EXCEPT ![c].pc = pc]
      BY <1>4, <2>3 DEF Probe
    <3>2. UNCHANGED lastResult
      BY <1>4, <2>3 DEF Probe
    <3>q. QED
      BY <1>3, <2>1, <3>1, <3>2
  <2>q. QED
    BY <2>2, <2>3
<1>5. CASE DeleteLeftover(c)
  <2>1. alias # g
    BY <1>1, <1>5 DEF DeleteLeftover, CallInv
  <2>2. CASE g \in DOMAIN indices
    <3>1. /\ sync' = [sync EXCEPT ![c].pc = "creating"]
          /\ UNCHANGED <<alias, lastResult>>
      BY <1>5, <2>1, <2>2 DEF DeleteLeftover
    <3>q. QED
      BY <1>3, <3>1
  <2>3. CASE g \notin DOMAIN indices
    BY <1>5, <2>3 DEF DeleteLeftover, Finish
  <2>q. QED
    BY <2>2, <2>3
<1>6. CASE CreatePhysical(c)
  <2>1. CASE g \notin DOMAIN indices
    <3>1. sync' = [sync EXCEPT ![c].pc = "writing"] /\ UNCHANGED <<alias, lastResult>>
      BY <1>6, <2>1 DEF CreatePhysical
    <3>q. QED
      BY <1>3, <3>1
  <2>2. CASE g \in DOMAIN indices
    BY <1>6, <2>2 DEF CreatePhysical, Finish
  <2>q. QED
    BY <2>1, <2>2
<1>7. CASE WriteBatch(c)
  <2>1. PICK r \in sync[c].todo : sync' = [sync EXCEPT ![c].todo = @ \ {r}]
    BY <1>7 DEF WriteBatch
  <2>2. sync[c].pc = "writing" /\ UNCHANGED <<alias, lastResult>>
    BY <1>7 DEF WriteBatch
  <2>3. sync'[c].pc = "writing"
    BY <1>0, <2>1, <2>2 DEF SyncCall
  <2>4. c \in Rebuilding'
    BY <1>0, <2>3 DEF Rebuilding
  <2>q. QED
    BY <2>2, <2>4
<1>8. CASE SwitchAlias(c)
  <2>1. CASE g \in DOMAIN indices
    BY <1>8, <2>1 DEF SwitchAlias, Finish
  <2>2. CASE g \notin DOMAIN indices
    <3>1. sync' = [sync EXCEPT ![c].pc = "cleaning"] /\ UNCHANGED <<alias, lastResult>>
      BY <1>8, <2>2 DEF SwitchAlias
    <3>q. QED
      BY <1>3, <3>1
  <2>q. QED
    BY <2>1, <2>2
<1>9. CASE SwitchUnanswered(c)
  BY <1>9 DEF SwitchUnanswered
<1>10. CASE SearchFails(c)
  <2>1. UNCHANGED alias
    BY <1>10 DEF SearchFails
  <2>2. CASE sync[c].pc = "writing"
    <3>1. /\ sync' = [sync EXCEPT ![c] = [pc |-> "cleaning", gen |-> @.gen, todo |-> {}]]
          /\ UNCHANGED lastResult
      BY <1>10, <2>2 DEF SearchFails
    <3>2. sync'[c].pc = "cleaning"
      BY <1>0, <3>1
    <3>3. c \in Rebuilding'
      BY <1>0, <3>2 DEF Rebuilding
    <3>q. QED
      BY <2>1, <3>1, <3>3
  <2>3. CASE sync[c].pc # "writing"
    BY <1>10, <2>1, <2>3 DEF SearchFails, Finish
  <2>q. QED
    BY <2>2, <2>3
<1>11. CASE CleanUp(c)
  <2>1. UNCHANGED swallowed /\ Finish(c, "failed")
    BY <1>11 DEF CleanUp
  <2>2. alias # g
    BY <1>1, <1>11, <2>1 DEF CleanUp, CallInv
  <2>3. UNCHANGED alias
    <3>1. CASE UNCHANGED <<indices, alias>>
      BY <3>1
    <3>2. CASE /\ indices' = Without(g)
               /\ alias' = IF alias \in DOMAIN indices' THEN alias ELSE None
      <4>1. alias # None => alias \in DOMAIN indices'
        BY <2>2, <3>2 DEF AliasInv, AliasIsComplete, Without
      <4>q. QED
        BY <3>2, <4>1
    <3>q. QED
      BY <1>11, <3>1, <3>2 DEF CleanUp, DeleteFailed
  <2>q. QED
    BY <2>1, <2>3 DEF Finish
<1>q. QED
  BY <1>2, <1>4, <1>5, <1>6, <1>7, <1>8, <1>9, <1>10, <1>11 DEF StepSync

LEMMA FreshSnapshot ==
    ASSUME DictionaryInv, LexicalInv, FreshInv,
           NEW c \in Syncers, TakeSnapshot(c), UNCHANGED <<dictionaryVars, serverVars>>
    PROVE  FreshInv'
<1>1. /\ sync[c].pc = "waiting"
      /\ LockFree(c)
      /\ sync' = [sync EXCEPT ![c] = [pc |-> "probing", gen |-> GenerationNow,
                                      todo |-> Snapshot]]
      /\ contended' = \/ contended
                      \/ Command \in Rebuilding
                      \/ c = Command /\ Rebuilding # {}
      /\ missed' = IF c = Command THEN missed ELSE FALSE
      /\ UNCHANGED <<active, indices, alias, lastResult, swallowed>>
  BY DEF TakeSnapshot
<1>2. /\ sync'[c].pc = "probing"
      /\ sync'[c].gen = GenerationNow
      /\ \A d \in Syncers \ {c} : sync'[d] = sync[d]
  BY <1>1 DEF LexicalInv, LexicalTypeOK
<1>3. UNCHANGED <<publish, versions, server>> /\ (Up' <=> Up)
  BY DEF dictionaryVars, serverVars, Up
<1>4. GenerationNow' = GenerationNow
  BY <1>1, <1>3, RowsUnchanged, GenerationStays
<1>5. ~contended' => ~contended /\ Rebuilding = {}
  <2>1. ~contended' => /\ ~contended
                       /\ Command \notin Rebuilding
                       /\ c = Command => Rebuilding = {}
    BY <1>1
  <2>2. c # Command => Rebuilding \cap Served = {}
    BY <1>1 DEF LockFree
  <2>q. QED
    BY <2>1, <2>2 DEF Rebuilding, Served
<1>6. c \in Rebuilding' /\ (~contended' => Rebuilding' = {c})
  BY <1>2, <1>5 DEF Rebuilding
<1>7. OnlyUp'
  <2>1. ~Up => c = Command
    BY <1>1, CallersServed DEF FreshInv, OnlyUp
  <2>q. QED
    BY <1>2, <1>3, <2>1, CallersServed DEF FreshInv, OnlyUp
<1>8. CASE c # Command
  <2>1. Rebuilding' \cap Served # {}
    BY <1>6, <1>8, CallersServed
  <2>2. ~contended' => UpToDate'
    BY <1>2, <1>4, <1>6, <2>1 DEF UpToDate
  <2>q. QED
    BY <1>7, <2>2 DEF FreshInv, Settled
<1>9. CASE c = Command
  <2>1. Settled' => Settled /\ Rebuilding = {}
    BY <1>1, <1>2, <1>3, <1>5, <1>9, CallersServed DEF Settled, Pending
  <2>2. Settled' => UpToDate'
    BY <1>1, <1>2, <1>4, <1>6, <2>1 DEF FreshInv, UpToDate, Settled
  <2>q. QED
    BY <1>7, <2>2 DEF FreshInv
<1>q. QED
  BY <1>8, <1>9

LEMMA FreshCall ==
    ASSUME DictionaryInv, LexicalInv, AliasInv, FreshInv,
           NEW c \in Syncers, StepSync(c), UNCHANGED <<dictionaryVars, serverVars>>
    PROVE  FreshInv'
<1>1. CASE TakeSnapshot(c)
  BY <1>1, FreshSnapshot
<1>2. CASE ~TakeSnapshot(c)
  <2>1. c \in Rebuilding /\ UNCHANGED <<active, contended, missed>>
    BY <1>2
    DEF StepSync, Probe, DeleteLeftover, CreatePhysical, WriteBatch, SwitchAlias,
        SwitchUnanswered, SearchFails, CleanUp, Rebuilding
  <2>2. \A d \in Rebuilding' : d \in Rebuilding /\ sync'[d].gen = sync[d].gen
    BY <2>1, RecordsMove
  <2>3. /\ \A d \in Syncers \ {c} : sync'[d] = sync[d]
        /\ sync'[c].pc # "waiting"
    BY <1>2, <2>1, CallMoves
  <2>4. UNCHANGED <<publish, versions, server>> /\ (Up' <=> Up)
    BY DEF dictionaryVars, serverVars, Up
  <2>5. GenerationNow' = GenerationNow
    BY <2>1, <2>4, RowsUnchanged, GenerationStays
  <2>6. Settled' => Settled
    <3>1. Pending => Pending'
      <4>1. c \in Rebuilding => sync[c].pc # "waiting"
        BY DEF Rebuilding
      <4>q. QED
        BY <2>1, <2>3, <2>4, <4>1 DEF Pending, Served
    <3>q. QED
      BY <2>1, <2>4, <3>1 DEF Settled
  <2>7. OnlyUp'
    <3>1. ~Up => c = Command
      BY <2>1, CallersServed DEF FreshInv, OnlyUp, Rebuilding
    <3>q. QED
      BY <2>3, <2>4, <3>1, CallersServed DEF FreshInv, OnlyUp
  <2>8. ASSUME Settled'
        PROVE  UpToDate'
    <3>1. UpToDate /\ ~contended
      BY <2>6, <2>8 DEF FreshInv, Settled
    <3>2. \A d \in Rebuilding' : sync'[d].gen = GenerationNow'
      BY <2>2, <2>5, <3>1 DEF UpToDate
    <3>3. ASSUME ~swallowed', lastResult' # "failed", Rebuilding' \cap Served = {}
          PROVE  alias' = GenerationNow
      <4>1. /\ alias' \in {alias, sync[c].gen}
            /\ c = Command => lastResult' = lastResult
            /\ (c # Command /\ c \notin Rebuilding') =>
                  lastResult' = "failed" \/ alias' = sync[c].gen
        BY <2>1, <3>1, <3>3, CallOutcome
      <4>2. sync[c].gen = GenerationNow
        BY <2>1, <3>1 DEF UpToDate
      <4>3. CASE c # Command
        BY <3>3, <4>1, <4>2, <4>3, CallersServed
      <4>4. CASE c = Command
        <5>1. Rebuilding \cap Served = {}
          BY <2>1, <3>1, <4>4 DEF AliasInv, Served
        <5>2. ~swallowed
          BY <3>3 DEF StepSync, TakeSnapshot, Probe, DeleteLeftover, CreatePhysical,
             WriteBatch, SwitchAlias, SwitchUnanswered, SearchFails, CleanUp
        <5>3. alias = GenerationNow
          BY <3>1, <3>3, <4>1, <4>4, <5>1, <5>2 DEF UpToDate
        <5>q. QED
          BY <4>1, <4>2, <5>3
      <4>q. QED
        BY <4>3, <4>4
    <3>q. QED
      BY <2>5, <3>2, <3>3 DEF UpToDate
  <2>q. QED
    BY <2>7, <2>8 DEF FreshInv
<1>q. QED
  BY <1>1, <1>2

LEMMA FreshStep ==
    ASSUME ServiceInv, AliasInv, FileInv, FreshInv, [Next]_vars
    PROVE  FreshInv'
<1>0. DictionaryInv /\ LexicalInv
  BY DEF ServiceInv
<1>1. CASE \/ \E down \in SUBSET Dependencies : StartServer(down)
           \/ RepairManifest
           \/ RepairFails
           \/ RepairArtifact
           \/ Serve
  BY <1>0, <1>1, FreshStarts
<1>2. CASE Crash
  BY <1>2, FreshCrashes
<1>3. CASE /\ \/ StepDictionary
              \/ BeginDictionary
              \/ \E t \in Terms : CreateCandidate(t)
           /\ missed' = (missed \/ \E p \in Publishers : /\ publish[p].pc = "deploying"
                                                          /\ publish'[p].pc = "closed")
           /\ UNCHANGED <<active, indices, alias, sync, lastResult, contended,
                          swallowed, serverVars>>
  BY <1>0, <1>3, FreshDictionary
<1>4. CASE \/ \E p \in Publishers : PublishSynchronizes(p)
           \/ /\ server = "serving"
              /\ \E c \in Changes, i \in Indexes :
                    ActivateIndex(c, i) \/ DeleteDocument(c, i)
              /\ UNCHANGED <<dictionaryVars, serverVars>>
           \/ CallSynchronize(Command) /\ UNCHANGED <<dictionaryVars, serverVars>>
  BY <1>0, <1>4, FreshRequests
<1>5. ASSUME NEW c \in Syncers, StepSync(c), UNCHANGED <<dictionaryVars, serverVars>>
      PROVE  FreshInv'
  BY <1>0, <1>5, FreshCall
<1>6. CASE UNCHANGED vars
  <2>1. UNCHANGED <<active, indices, alias, sync, lastResult, contended, swallowed,
                    missed, publish, versions, server>>
    BY <1>6 DEF vars, dictionaryVars, lexicalVars, serverVars
  <2>2. (Pending' <=> Pending) /\ (Up' <=> Up)
    BY <2>1 DEF Pending, Up
  <2>3. GenerationNow' = GenerationNow
    BY <1>0, <2>1, RowsUnchanged, GenerationStays
  <2>q. QED
    BY <2>1, <2>2, <2>3, FreshRests
<1>q. QED
  BY <1>1, <1>2, <1>3, <1>4, <1>5, <1>6 DEF Next

-----------------------------------------------------------------------------

FreshnessInv == ServiceInv /\ AliasInv /\ FileInv /\ HashUnique /\ MarksInv /\ FreshInv

LEMMA FreshnessBegins ==
    ASSUME Init
    PROVE  FreshnessInv
<1>1. ServiceInv /\ AliasInv /\ FileInv
  BY ServiceInvInductive, AliasInvInductive, FileBegins
<1>2. Rebuilding = {} /\ DOMAIN indices = {}
  BY DEF Init, LexicalInit, Rebuilding, SyncAt
<1>3. \A c \in Syncers : sync[c].pc = "idle"
  BY DEF Init, LexicalInit, SyncAt
<1>4. ~Up
  BY DEF Init, Up
<1>5. HashUnique
  <2>1. PICK a : versions \in {<<>>, <<a>>}
    BY DEF Init, DictionaryInit
  <2>2. DOMAIN versions \subseteq {1}
    BY <2>1
  <2>q. QED
    BY <2>2 DEF HashUnique
<1>6. MarksInv
  BY <1>2 DEF MarksInv, Marks
<1>7. FreshInv
  BY <1>3, <1>4 DEF FreshInv, OnlyUp, Settled, Served
<1>q. QED
  BY <1>1, <1>5, <1>6, <1>7 DEF FreshnessInv

LEMMA FreshnessStep ==
    ASSUME FreshnessInv, [Next]_vars
    PROVE  FreshnessInv'
<1>0. DictionaryInv
  BY DEF FreshnessInv, ServiceInv
<1>1. ServiceInv' /\ AliasInv'
  BY ServiceInvInductive, AliasInvInductive DEF FreshnessInv
<1>2. FileInv' /\ HashUnique'
  BY <1>0, FileStep, HashStays DEF FreshnessInv
<1>3. MarksInv' /\ FreshInv'
  BY MarksStep, FreshStep DEF FreshnessInv
<1>q. QED
  BY <1>1, <1>2, <1>3 DEF FreshnessInv

\* What the settled, quiet server serves.
LEMMA QuietIsFresh ==
    ASSUME FreshnessInv
    PROVE  ReadyMeansFresh
<1> SUFFICES ASSUME Quiet, "elasticsearch" \notin Degraded({}),
                    ~contended, ~missed, ~swallowed
             PROVE  /\ alias # None
                    /\ {r.index : r \in indices[alias]} = active
                    /\ ~refilled =>
                          \A r \in indices[alias] : r.terms \in {Matched(r.index), {}}
  BY DEF ReadyMeansFresh
<1>0. DictionaryInv /\ LexicalInv /\ AliasInv
  BY DEF FreshnessInv, ServiceInv
<1>1. Open = {} /\ Up
  BY DEF Quiet, Up
<1>2. /\ \A p \in Publishers : publish[p].pc \in {"idle", "closed"}
      /\ \A c \in Syncers : sync[c].pc \in {"idle", "closed"}
  BY <1>1 DEF Open, OpenPublishes
<1>3. Settled /\ Rebuilding = {}
  BY <1>1, <1>2 DEF Settled, Pending, Rebuilding, Served
<1>4. lastResult # "failed"
  BY DEF Degraded, Dependencies
<1>5. alias = GenerationNow
  BY <1>3, <1>4 DEF FreshnessInv, FreshInv, UpToDate
<1>6. GenerationNow \in Generation /\ GenerationNow.indexes = active
  BY <1>0, SnapshotTyped DEF LexicalInv
<1>7. alias # None
  BY <1>5, <1>6, NoneIsNoGeneration
<1>8. alias \in DOMAIN indices /\ {r.index : r \in indices[alias]} = active
  BY <1>0, <1>5, <1>6, <1>7 DEF AliasInv, AliasIsComplete
<1>9. ASSUME ~refilled, NEW r \in indices[alias]
      PROVE  r.terms \in {Matched(r.index), {}}
  <2>1. MarkSound(DictionaryHash, r)
    BY <1>5, <1>8, <1>9 DEF FreshnessInv, MarksInv, Marks, GenerationNow
  <2>2. ASSUME NEW n \in DOMAIN versions,
               versions[n].artifact = DictionaryHash,
               r.terms = versions[n].manifest \cap Mentions[r.index]
        PROVE  r.terms = Matched(r.index)
    <3>1. ActivePosition \in DOMAIN versions /\ ActivePosition # 0
      BY <1>0, LastIsActive
    <3>2. n = ActivePosition
      BY <2>2, <3>1 DEF FreshnessInv, HashUnique, DictionaryHash
    <3>q. QED
      BY <2>2, <3>1, <3>2 DEF Matched, ActiveTerms
  <2>q. QED
    BY <2>1, <2>2 DEF MarkSound
<1>q. QED
  BY <1>7, <1>8, <1>9

\* A server that reports Elasticsearch as ready, with no call under way, serves
\* exactly the active indexes, marked with the terms of the active dictionary,
\* for every number of requests, crashes and failures; unless two processes
\* rebuilt at a time, a publication never synchronised, the answer to a switch
\* was lost or, for the marks, two publications filled in one manifest
\* (lexical_sync.synchronize, dictionary.publish, /ready).
THEOREM ReadyIsFresh == Spec => []ReadyMeansFresh
  BY FreshnessBegins, FreshnessStep, QuietIsFresh, PTL DEF Spec
=============================================================================

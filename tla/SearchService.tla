------------------------------ MODULE SearchService --------------------------
(***************************************************************************)
(* The server around the dictionary and the search index (main.py): its    *)
(* start repairs what a crash left behind, then requests review, publish,  *)
(* activate and delete, each followed by a synchronisation, while the      *)
(* command line may synchronise from a process of its own.                 *)
(***************************************************************************)
EXTENDS LexicalSync

CONSTANTS
    Required,     \* the dependencies the settings call required
    MaxOpen,      \* how many calls work at a time
    MaxRequests,  \* how many calls are made in all
    MaxCrashes    \* how often the server dies

\* search: a call of Elasticsearch fails; answer: the answer to an alias switch
\* is lost; file: writing the artifact fails; database: the repair of the
\* dictionary fails.
FaultKinds == {"search", "answer", "file", "database"}

Dependencies == {"database", "checkpoint", "claim_verifier", "redis", "milvus",
                 "elasticsearch"}

ASSUME ServiceAssumption ==
    /\ Faults \subseteq FaultKinds
    /\ Required \subseteq Dependencies
    /\ {MaxOpen, MaxRequests, MaxCrashes} \subseteq Nat

VARIABLES
    server,       \* how far the server is
    crashes       \* how often it died

serverVars == <<server, crashes>>
vars == <<dictionaryVars, lexicalVars, serverVars>>

\* Every row, index, file and call is of its type.
TypeOK ==
    /\ DictionaryTypeOK
    /\ LexicalTypeOK
    /\ server \in {"down", "repairing", "deploying", "syncing", "serving"}
    /\ crashes \in 0..MaxCrashes

Init == /\ DictionaryInit
        /\ LexicalInit
        /\ server = "down"
        /\ crashes = 0

-----------------------------------------------------------------------------
(* lifespan *)

\* The verifier's warm-up and a checkpoint store that is required must
\* succeed; create_schema and a failure of another dependency change nothing
\* here.
MayStart(down) == /\ "claim_verifier" \notin down
                  /\ "checkpoint" \in down => "checkpoint" \notin Required

StartServer(down) ==
    /\ server = "down"
    /\ MayStart(down)
    /\ server' = "repairing"
    /\ UNCHANGED <<dictionaryVars, lexicalVars, crashes>>

RepairManifest ==
    /\ server = "repairing"
    /\ BackfillManifest
    /\ server' = "deploying"
    /\ UNCHANGED <<lexicalVars, crashes>>

\* What raises is logged, and the start goes on: neither the manifest nor the
\* file is repaired.
RepairFails ==
    /\ "database" \in Faults
    /\ server = "repairing"
    /\ server' = "syncing"
    /\ crossed' = TRUE
    /\ CallSynchronize(Startup)
    /\ UNCHANGED <<term, versions, deployed, review, publish, refilled, crashes>>

\* Mutant of HealFile: the start trusts the file it finds.
TrustFile == /\ crossed' = FALSE
             /\ UNCHANGED <<term, versions, deployed, review, publish, refilled>>

HealFile == RepairFile

RepairArtifact ==
    /\ server = "deploying"
    /\ \/ HealFile
       \/ /\ "file" \in Faults
          /\ crossed' = TRUE
          /\ UNCHANGED <<term, versions, deployed, review, publish, refilled>>
    /\ server' = "syncing"
    /\ CallSynchronize(Startup)
    /\ UNCHANGED crashes

Serve ==
    /\ server = "syncing"
    /\ sync[Startup].pc = "closed"
    /\ server' = "serving"
    /\ UNCHANGED <<dictionaryVars, lexicalVars, crashes>>

\* Open transactions are rolled back; what is committed, written or sent stays.
Crash ==
    /\ server # "down"
    /\ crashes < MaxCrashes
    /\ server' = "down"
    /\ crashes' = crashes + 1
    /\ StopDictionary
    /\ StopSyncs

-----------------------------------------------------------------------------
(* /ready *)

\* The entries of checks that say degraded; database and claim_verifier have
\* no such entry.
Degraded(down) ==
    {d \in Dependencies \ {"database", "claim_verifier"} :
        \/ d \in down
        \/ d = "elasticsearch" /\ lastResult = "failed"}

Ready(down) ==
    /\ server = "serving"
    /\ {"database", "claim_verifier"} \cap down = {}
    /\ Degraded(down) \cap Required = {}

-----------------------------------------------------------------------------
(* Requests *)

Open == OpenReviews \cup OpenPublishes
        \cup {c \in Syncers : sync[c].pc \notin {"idle", "closed"}}

Made == {v \in Reviewers : review[v].pc # "idle"}
        \cup {p \in Publishers : publish[p].pc # "idle"}
        \cup {c \in Changes \cup {Command} : sync[c].pc # "idle"}

MayBegin == /\ Cardinality(Open) < MaxOpen
            /\ Cardinality(Made) < MaxRequests

\* A publication that deployed goes on with synchronize.
PublishSynchronizes(p) ==
    /\ publish[p].pc = "syncing"
    /\ publish' = [publish EXCEPT ![p] = PublishAt("closed")]
    /\ CallSynchronize(p)
    /\ UNCHANGED <<term, versions, deployed, review, crossed, refilled, serverVars>>

Next ==
    \/ \E down \in SUBSET Dependencies : StartServer(down)
    \/ RepairManifest
    \/ RepairFails
    \/ RepairArtifact
    \/ Serve
    \/ Crash
    \/ /\ \/ StepDictionary
          \/ /\ server = "serving"
             /\ MayBegin
             /\ BeginDictionary \/ \E t \in Terms : CreateCandidate(t)
       /\ missed' = (missed \/ \E p \in Publishers : /\ publish[p].pc = "deploying"
                                                     /\ publish'[p].pc = "closed")
       /\ UNCHANGED <<active, indices, alias, sync, lastResult, contended,
                      swallowed, serverVars>>
    \/ \E p \in Publishers : PublishSynchronizes(p)
    \/ /\ \/ \E c \in Syncers : StepSync(c)
          \/ /\ server = "serving"
             /\ MayBegin
             /\ \E c \in Changes, i \in Indexes :
                   ActivateIndex(c, i) \/ DeleteDocument(c, i)
       /\ UNCHANGED <<dictionaryVars, serverVars>>
    \/ /\ sync[Command].pc = "idle"
       /\ MayBegin
       /\ CallSynchronize(Command)
       /\ UNCHANGED <<dictionaryVars, serverVars>>

Spec == Init /\ [][Next]_vars

-----------------------------------------------------------------------------
(* Properties *)

\* The read alias names a physical index that holds every record of the
\* snapshot it was built for: a search never sees half of the knowledge,
\* however rebuilds fail, unless two processes rebuilt at a time
\* (elasticsearch_store.rebuild).
AliasIsComplete ==
    (alias # None /\ ~contended) =>
       /\ alias \in DOMAIN indices
       /\ {r.index : r \in indices[alias]} = alias.indexes

\* Once the alias serves, it serves: no failure of a later rebuild and no
\* crash takes it away, unless two processes rebuilt at a time or the answer
\* to a switch was lost.
AliasServes ==
    [][(alias # None /\ ~contended' /\ ~swallowed') => alias' # None]_vars

Quiet == server = "serving" /\ Open = {}

\* A server that reports Elasticsearch as ready, with no call under way,
\* serves exactly the active indexes of MySQL, marked with the terms of the
\* active dictionary, whatever failed or crashed before; unless two processes
\* rebuilt at a time, a publication failed between its commit and its
\* synchronisation, or the answer to the switch was lost.  Records without
\* terms are those of a version whose manifest was filled in later: its hash is
\* the same, so the index is kept.  For that reason the marks may be others
\* when two publications filled in one manifest.
ReadyMeansFresh ==
    (/\ Quiet
     /\ "elasticsearch" \notin Degraded({})
     /\ ~contended /\ ~missed /\ ~swallowed)
    => /\ alias # None
       /\ {r.index : r \in indices[alias]} = active
       /\ ~refilled =>
             \A r \in indices[alias] : r.terms \in {Matched(r.index), {}}

\* The versions are numbered 1, 2, ... in the order of their commits and the
\* last one is the active one, although publications read and write without a
\* lock.
LastVersionIsActive ==
    \A n \in DOMAIN versions :
       /\ versions[n].number = n
       /\ versions[n].status = "active" <=> n = Len(versions)

\* When no call is under way the file holds the artifact of the active
\* version, also after a crash between commit and deployment, unless two
\* publications crossed or the file could not be written.
FileFollowsActive ==
    (Quiet /\ ~crossed /\ ActivePosition # 0) =>
       deployed = versions[ActivePosition].artifact
=============================================================================

------------------------------ MODULE LexicalSync ----------------------------
(***************************************************************************)
(* Copying the active knowledge into Elasticsearch (services/lexical_sync, *)
(* knowledge/elasticsearch_store, knowledge/lexical_sync_cli).  A call of  *)
(* synchronize waits for the lock of its process, reads a snapshot, and    *)
(* rebuilds the physical index that is named after the snapshot; the read  *)
(* alias moves to it when it is complete.                                  *)
(*                                                                         *)
(* The catalogue is the set of active index versions; its changes are      *)
(* those of KnowledgeIndexing and KnowledgeIngestion that are followed by  *)
(* a call of synchronize: activation and deletion.                         *)
(***************************************************************************)
EXTENDS KnowledgeDictionary

CONSTANTS
    Indexes,      \* index versions that are activated
    Document,     \* Document[i]: the logical document of an index version
    Mentions,     \* Mentions[i]: the terms whose words its text contains
    Changes,      \* calls that activate an index or delete a document
    Command,      \* the call of the command line, a process of its own
    Startup       \* the call of the server when it starts

ASSUME LexicalAssumption ==
    /\ Command # Startup
    /\ {Command, Startup} \cap (Changes \cup Publishers) = {}
    /\ Changes \cap Publishers = {}

VARIABLES
    active,       \* MySQL: the active index versions
    indices,      \* Elasticsearch: the physical indexes and their documents
    alias,        \* the physical index behind the read alias
    sync,         \* the local state of every call of synchronize
    lastResult,   \* last_result of the server
    contended,    \* history: calls of two processes were in rebuild at a time
    swallowed,    \* history: the answer to the alias switch was lost
    missed        \* history: the catalogue or the dictionary changed and the
                  \* call ended before it synchronised

lexicalVars == <<active, indices, alias, sync, lastResult, contended,
                 swallowed, missed>>

Syncers == Changes \cup Publishers \cup {Command, Startup}

Served == Syncers \ {Command}       \* the calls of the server

Records == [index : Indexes, terms : SUBSET Terms]

Generation == [indexes : SUBSET Indexes, hash : (SUBSET Words) \cup {None}]

ASSUME NoneIsNoGeneration == None \notin Generation

\* todo: the records still to be written.
SyncCall == [pc : {"idle", "waiting", "probing", "deleting", "creating",
                   "writing", "cleaning", "closed"},
             gen : Generation \cup {None}, todo : SUBSET Records]

LexicalTypeOK ==
    /\ active \in SUBSET Indexes
    /\ DOMAIN indices \subseteq Generation
    /\ \A g \in DOMAIN indices : indices[g] \in SUBSET Records
    /\ alias \in Generation \cup {None}
    /\ sync \in [Syncers -> SyncCall]
    /\ lastResult \in {"none", "succeeded", "failed"}
    /\ {contended, swallowed, missed} \subseteq BOOLEAN

SyncAt(pc) == [pc |-> pc, gen |-> None, todo |-> {}]

LexicalInit ==
    /\ active = {}
    /\ indices = [g \in {} |-> {}]
    /\ alias = None
    /\ sync = [c \in Syncers |-> SyncAt("idle")]
    /\ lastResult = "none"
    /\ contended = FALSE
    /\ swallowed = FALSE
    /\ missed = FALSE

-----------------------------------------------------------------------------
(* The changes that are followed by synchronize *)

\* _activate: the other indexes of the document are superseded.
ActivateIndex(c, i) ==
    /\ sync[c].pc = "idle"
    /\ i \notin active
    /\ active' = {j \in active : Document[j] # Document[i]} \cup {i}
    /\ sync' = [sync EXCEPT ![c].pc = "waiting"]
    /\ UNCHANGED <<indices, alias, lastResult, contended, swallowed, missed>>

DeleteDocument(c, i) ==
    /\ sync[c].pc = "idle"
    /\ i \in active
    /\ active' = active \ {i}
    /\ sync' = [sync EXCEPT ![c].pc = "waiting"]
    /\ UNCHANGED <<indices, alias, lastResult, contended, swallowed, missed>>

CallSynchronize(c) ==
    /\ sync' = [sync EXCEPT ![c] = SyncAt("waiting")]
    /\ UNCHANGED <<active, indices, alias, lastResult, contended, swallowed,
                   missed>>

-----------------------------------------------------------------------------
(* synchronize *)

Rebuilding == {c \in Syncers : sync[c].pc \notin {"idle", "waiting", "closed"}}

\* Mutant of LockFree: a process without a lock.
NoLock(c) == TRUE

\* One asyncio.Lock per process.
LockFree(c) == IF c = Command THEN TRUE ELSE Rebuilding \cap Served = {}

\* Mutant of Matched: the words that match, not the terms they belong to.
MatchedWords(i) == UNION {Surfaces[t] : t \in ActiveTerms \cap Mentions[i]}

Matched(i) == ActiveTerms \cap Mentions[i]

Snapshot == {[index |-> i, terms |-> Matched(i)] : i \in active}

\* The schema version, the active index ids and the hash of the dictionary.
GenerationNow == [indexes |-> active, hash |-> DictionaryHash]

TakeSnapshot(c) ==
    /\ sync[c].pc = "waiting"
    /\ LockFree(c)
    /\ sync' = [sync EXCEPT ![c] = [pc |-> "probing", gen |-> GenerationNow,
                                    todo |-> Snapshot]]
    /\ contended' = \/ contended
                    \/ Command \in Rebuilding
                    \/ c = Command /\ Rebuilding # {}
    /\ missed' = IF c = Command THEN missed ELSE FALSE
    /\ UNCHANGED <<active, indices, alias, lastResult, swallowed>>

Without(g) == [h \in DOMAIN indices \ {g} |-> indices[h]]

With(g, docs) == [h \in DOMAIN indices \cup {g} |->
                    IF h = g THEN docs ELSE indices[h]]

Finish(c, result) ==
    /\ sync' = [sync EXCEPT ![c] = SyncAt("closed")]
    /\ lastResult' = IF c = Command THEN lastResult ELSE result

\* An index of this generation behind the alias is taken as it is.
Probe(c) ==
    LET g == sync[c].gen IN
    /\ sync[c].pc = "probing"
    /\ IF g \in DOMAIN indices /\ alias = g
       THEN Finish(c, "succeeded")
       ELSE /\ sync' = [sync EXCEPT
                  ![c].pc = IF g \in DOMAIN indices THEN "deleting" ELSE "creating"]
            /\ UNCHANGED lastResult
    /\ UNCHANGED <<active, indices, alias, contended, swallowed, missed>>

\* A left-over of a rebuild that died; an index is deleted with its alias.
DeleteLeftover(c) ==
    LET g == sync[c].gen IN
    /\ sync[c].pc = "deleting"
    /\ IF g \in DOMAIN indices
       THEN /\ indices' = Without(g)
            /\ alias' = IF alias = g THEN None ELSE alias
            /\ sync' = [sync EXCEPT ![c].pc = "creating"]
            /\ UNCHANGED lastResult
       ELSE /\ Finish(c, "failed")
            /\ UNCHANGED <<indices, alias>>
    /\ UNCHANGED <<active, contended, swallowed, missed>>

CreatePhysical(c) ==
    LET g == sync[c].gen IN
    /\ sync[c].pc = "creating"
    /\ IF g \notin DOMAIN indices
       THEN /\ indices' = With(g, {})
            /\ sync' = [sync EXCEPT ![c].pc = "writing"]
            /\ UNCHANGED lastResult
       ELSE /\ Finish(c, "failed")
            /\ UNCHANGED indices
    /\ UNCHANGED <<active, alias, contended, swallowed, missed>>

\* A batch; Elasticsearch creates an index that is not there.
WriteBatch(c) ==
    LET g == sync[c].gen IN
    /\ sync[c].pc = "writing"
    /\ \E r \in sync[c].todo :
          /\ indices' = With(g, {r} \cup (IF g \in DOMAIN indices THEN indices[g]
                                                                 ELSE {}))
          /\ sync' = [sync EXCEPT ![c].todo = @ \ {r}]
    /\ UNCHANGED <<active, alias, lastResult, contended, swallowed, missed>>

\* Mutant of Written: the alias moves while records are still to be written.
SomeWritten(c) == TRUE

Written(c) == sync[c].todo = {}

\* refresh and update_aliases; an index that is gone is an error.
SwitchAlias(c) ==
    LET g == sync[c].gen IN
    /\ sync[c].pc = "writing"
    /\ Written(c)
    /\ IF g \in DOMAIN indices
       THEN alias' = g /\ Finish(c, "succeeded")
       ELSE /\ sync' = [sync EXCEPT ![c].pc = "cleaning"]
            /\ UNCHANGED <<alias, lastResult>>
    /\ UNCHANGED <<active, indices, contended, swallowed, missed>>

\* The switch happened, but the client saw only timeouts.
SwitchUnanswered(c) ==
    LET g == sync[c].gen IN
    /\ "answer" \in Faults
    /\ sync[c].pc = "writing"
    /\ sync[c].todo = {}
    /\ g \in DOMAIN indices
    /\ alias' = g
    /\ sync' = [sync EXCEPT ![c].pc = "cleaning"]
    /\ swallowed' = TRUE
    /\ UNCHANGED <<active, indices, lastResult, contended, missed>>

\* Elasticsearch answers with an error, or not at all.
SearchFails(c) ==
    /\ "search" \in Faults
    /\ sync[c].pc \in {"probing", "deleting", "creating", "writing"}
    /\ IF sync[c].pc = "writing"
       THEN /\ sync' = [sync EXCEPT ![c] = [pc |-> "cleaning", gen |-> @.gen, todo |-> {}]]
            /\ UNCHANGED lastResult
       ELSE Finish(c, "failed")
    /\ UNCHANGED <<active, indices, alias, contended, swallowed, missed>>

\* Mutant of DeleteFailed: the index behind the alias is deleted.
DeleteServing(g) == IF alias \in DOMAIN indices THEN Without(alias) ELSE indices

DeleteFailed(g) == Without(g)

\* The except clause; the deletion may fail as well.
CleanUp(c) ==
    LET g == sync[c].gen IN
    /\ sync[c].pc = "cleaning"
    /\ \/ /\ indices' = DeleteFailed(g)
          /\ alias' = IF alias \in DOMAIN indices' THEN alias ELSE None
       \/ "search" \in Faults /\ UNCHANGED <<indices, alias>>
    /\ Finish(c, "failed")
    /\ UNCHANGED <<active, contended, swallowed, missed>>

-----------------------------------------------------------------------------

StepSync(c) ==
    \/ TakeSnapshot(c)
    \/ Probe(c)
    \/ DeleteLeftover(c)
    \/ CreatePhysical(c)
    \/ WriteBatch(c)
    \/ SwitchAlias(c)
    \/ SwitchUnanswered(c)
    \/ SearchFails(c)
    \/ CleanUp(c)

\* The calls of the server end with it; the start runs again.
StopSyncs ==
    /\ sync' = [c \in Syncers |->
          IF c = Startup THEN SyncAt("idle")
          ELSE IF c \in Served /\ sync[c].pc # "idle" THEN SyncAt("closed")
          ELSE sync[c]]
    /\ lastResult' = "none"
    /\ UNCHANGED <<active, indices, alias, contended, swallowed, missed>>
=============================================================================

-------------------------- MODULE ConversationStore -------------------------
(***************************************************************************)
(* What a conversation remembers, and where: the messages and the context  *)
(* snapshot in MySQL, their copies in Redis (services/conversations.py,    *)
(* core/cache.py).  Every turn reads history and context from Redis, or    *)
(* from MySQL when Redis has nothing, commits the user's message, runs the *)
(* graph on what it read and commits the answer with the next context;     *)
(* each commit is followed by a read and a write of the copies.            *)
(*                                                                         *)
(* One conversation.  One action is one database transaction, one call of  *)
(* Redis or the run of the graph; handlers interleave between them.  A     *)
(* MySQL transaction reads the rows as they were at its first query        *)
(* (REPEATABLE READ), except for the row it locks.  A message is who wrote *)
(* it, a context is its version and the turns whose topics it holds.       *)
(***************************************************************************)
EXTENDS Integers, Sequences, FiniteSets, SequencesExt

CONSTANTS
    Turns,       \* calls of send or stream
    Resumes,     \* calls of resume_execution that settle a review
    MaxOpen,     \* how many handlers work at a time
    Window,      \* messages of the history the graph reads
    CacheLimit,  \* messages Redis keeps
    Faults,      \* the failures that may happen, see FaultKinds
    None         \* an absent value

Handlers == Turns \cup Resumes

\* redis: a call of Redis fails; expiry: a key reaches its TTL; stop: a
\* handler ends between two steps (a failed transaction, a cancelled task, a
\* process that dies).
FaultKinds == {"redis", "expiry", "stop"}

ASSUME ConstantsAssumption ==
    /\ Turns \cap Resumes = {}
    /\ IsFiniteSet(Handlers)
    /\ None \notin Handlers
    /\ MaxOpen \in Nat \ {0}
    /\ Window \in Nat \ {0}
    /\ CacheLimit \in Nat /\ CacheLimit >= Window
    /\ Faults \subseteq FaultKinds

VARIABLES
    messages,       \* the rows of messages, in the order of their commits
    snapshot,       \* the row of conversation_context_snapshots
    cachedHistory,  \* the Redis key of the history
    cachedContext,  \* the Redis key of the context
    handler         \* the local state of every call

vars == <<messages, snapshot, cachedHistory, cachedContext, handler>>

-----------------------------------------------------------------------------
(* Types *)

Message == [from : Handlers, role : {"user", "assistant"}]

Context == [version : 0..Cardinality(Turns), topics : SUBSET Turns]

ASSUME NoneIsNoContext == None \notin Context

EmptyContext == [version |-> 0, topics |-> {}]

\* The places where a handler awaits.
Pcs == {"idle", "readingContext", "readingHistory", "saving", "caching",
        "running", "persisting", "inserting", "cachingContext", "looking",
        "rereading", "cachingAnswer", "closed", "failed"}

\* view and row: messages and snapshot as the open transaction sees them;
\* history, context: what the turn runs on; next: the context it produced;
\* answers: whether it has an answer to store.  A local that is not read
\* again is reset.
Handler ==
    [pc : Pcs, view : Seq(Message), row : Context \cup {None},
     history : Seq(Message), context : Context \cup {None},
     next : Context \cup {None}, answers : BOOLEAN]

\* Every row, key and handler is of its type, and Redis keeps no more than
\* its limit.
TypeOK ==
    /\ messages \in Seq(Message)
    /\ snapshot \in Context \cup {None}
    /\ cachedHistory = None \/ /\ cachedHistory \in Seq(Message)
                               /\ Len(cachedHistory) <= CacheLimit
    /\ cachedContext \in Context \cup {None}
    /\ handler \in [Handlers -> Handler]

Init ==
    /\ messages = <<>>
    /\ snapshot = None
    /\ cachedHistory = None
    /\ cachedContext = None
    /\ handler = [h \in Handlers |->
                     [pc |-> "idle", view |-> <<>>, row |-> None,
                      history |-> <<>>, context |-> None, next |-> None,
                      answers |-> FALSE]]

-----------------------------------------------------------------------------
(* Redis *)

LastOf(seq, n) == SubSeq(seq, (IF Len(seq) > n THEN Len(seq) - n ELSE 0) + 1,
                         Len(seq))

\* A call that fails reads as a miss.
Fetched(value) == {value} \cup {None : f \in Faults \cap {"redis"}}

\* Mutant of StoreHistory: the list is not cut.
StoreUntrimmed(history) ==
    \/ cachedHistory' = history
    \/ "redis" \in Faults /\ UNCHANGED cachedHistory

\* A call that fails is ignored.
StoreHistory(history) ==
    \/ cachedHistory' = LastOf(history, CacheLimit)
    \/ "redis" \in Faults /\ UNCHANGED cachedHistory

StoreContext(context) ==
    \/ cachedContext' = context
    \/ "redis" \in Faults /\ UNCHANGED cachedContext

ExpireHistory ==
    /\ "expiry" \in Faults
    /\ cachedHistory # None
    /\ cachedHistory' = None
    /\ UNCHANGED <<messages, snapshot, cachedContext, handler>>

ExpireContext ==
    /\ "expiry" \in Faults
    /\ cachedContext # None
    /\ cachedContext' = None
    /\ UNCHANGED <<messages, snapshot, cachedHistory, handler>>

-----------------------------------------------------------------------------
(* The first half of a turn: _save_user_message *)

Open == {h \in Handlers : handler[h].pc \notin {"idle", "closed", "failed"}}

Said(h, role) == [from |-> h, role |-> role]

\* The transaction begins with a query for the user.
Begin(t) ==
    /\ handler[t].pc = "idle"
    /\ Cardinality(Open) < MaxOpen
    /\ handler' = [handler EXCEPT ![t].pc = "readingContext",
                                  ![t].view = messages, ![t].row = snapshot]
    /\ UNCHANGED <<messages, snapshot, cachedHistory, cachedContext>>

\* The snapshot is only read when Redis has no context.
ReadContext(t) ==
    LET stored == IF handler[t].row = None THEN EmptyContext
                                           ELSE handler[t].row IN
    /\ handler[t].pc = "readingContext"
    /\ \E cached \in Fetched(cachedContext) :
          handler' = [handler EXCEPT
             ![t].pc = "readingHistory", ![t].row = None,
             ![t].context = IF cached = None THEN stored ELSE cached]
    /\ UNCHANGED <<messages, snapshot, cachedHistory, cachedContext>>

\* Mutant of ReadHistory: the listing comes newest first.
ReadNewestFirst(t) ==
    /\ handler[t].pc = "readingHistory"
    /\ \E cached \in Fetched(cachedHistory) :
          handler' = [handler EXCEPT
             ![t].pc = "saving", ![t].view = <<>>,
             ![t].history = IF cached = None THEN Reverse(handler[t].view)
                                             ELSE cached]
    /\ UNCHANGED <<messages, snapshot, cachedHistory, cachedContext>>

\* Mutant of ReadHistory: the copy is extended before the commit.
ReadAndCacheHistory(t) ==
    /\ handler[t].pc = "readingHistory"
    /\ \E cached \in Fetched(cachedHistory) :
          LET history == IF cached = None THEN handler[t].view ELSE cached IN
          /\ StoreHistory(Append(history, Said(t, "user")))
          /\ handler' = [handler EXCEPT ![t].pc = "saving", ![t].view = <<>>,
                                        ![t].history = history]
    /\ UNCHANGED <<messages, snapshot, cachedContext>>

ReadHistory(t) ==
    /\ handler[t].pc = "readingHistory"
    /\ \E cached \in Fetched(cachedHistory) :
          handler' = [handler EXCEPT
             ![t].pc = "saving", ![t].view = <<>>,
             ![t].history = IF cached = None THEN handler[t].view ELSE cached]
    /\ UNCHANGED <<messages, snapshot, cachedHistory, cachedContext>>

SaveUserMessage(t) ==
    /\ handler[t].pc = "saving"
    /\ messages' = Append(messages, Said(t, "user"))
    /\ handler' = [handler EXCEPT ![t].pc = "caching"]
    /\ UNCHANGED <<snapshot, cachedHistory, cachedContext>>

CacheUserMessage(t) ==
    /\ handler[t].pc = "caching"
    /\ StoreHistory(Append(handler[t].history, Said(t, "user")))
    /\ handler' = [handler EXCEPT ![t].pc = "running"]
    /\ UNCHANGED <<messages, snapshot, cachedContext>>

-----------------------------------------------------------------------------
(* The run of the graph *)

\* advance_conversation_context counts every classified turn; a turn may
\* start over, and one that asks the user back leaves the context alone.
NextContexts(t, context) ==
    {context}
    \cup {[version |-> context.version + 1, topics |-> topics \cup {t}] :
             topics \in {context.topics, {}}}

\* Mutant of GraphReturns: the copy of the context is written at once.
GraphReturnsAndCaches(t) ==
    /\ handler[t].pc = "running"
    /\ \E next \in NextContexts(t, handler[t].context), answers \in BOOLEAN :
          /\ StoreContext(next)
          /\ handler' = [handler EXCEPT ![t].pc = "persisting",
                                        ![t].history = <<>>,
                                        ![t].context = None,
                                        ![t].next = next,
                                        ![t].answers = answers]
    /\ UNCHANGED <<messages, snapshot, cachedHistory>>

\* The run succeeds; a stream may be closed before its answer was read, and
\* then it keeps the context and not the answer.
GraphReturns(t) ==
    /\ handler[t].pc = "running"
    /\ \E next \in NextContexts(t, handler[t].context), answers \in BOOLEAN :
          handler' = [handler EXCEPT ![t].pc = "persisting",
                                     ![t].history = <<>>,
                                     ![t].context = None,
                                     ![t].next = next,
                                     ![t].answers = answers]
    /\ UNCHANGED <<messages, snapshot, cachedHistory, cachedContext>>

\* The run fails or is cancelled: only the audit row is written.
GraphFails(t) ==
    /\ handler[t].pc = "running"
    /\ handler' = [handler EXCEPT ![t].pc = "closed", ![t].history = <<>>,
                                  ![t].context = None]
    /\ UNCHANGED <<messages, snapshot, cachedHistory, cachedContext>>

-----------------------------------------------------------------------------
(* The second half of a turn: _persist_outcome *)

\* One commit holds the answer, the audit row and the context.
CommitOutcome(t, context) ==
    /\ messages' = IF handler[t].answers
                   THEN Append(messages, Said(t, "assistant"))
                   ELSE messages
    /\ snapshot' = context
    /\ handler' = [handler EXCEPT ![t].pc = "cachingContext"]
    /\ UNCHANGED <<cachedHistory, cachedContext>>

\* Mutant of PersistOutcome: the versions are not compared.
PersistAnyVersion(t) ==
    /\ handler[t].pc = "persisting"
    /\ snapshot # None
    /\ CommitOutcome(t, handler[t].next)

\* The row is locked from the read to the commit.
PersistOutcome(t) ==
    /\ handler[t].pc = "persisting"
    /\ snapshot # None
    /\ CommitOutcome(t, IF handler[t].next.version >= snapshot.version
                        THEN handler[t].next ELSE snapshot)

\* There is no row to lock yet: the insert comes later.
FindNoSnapshot(t) ==
    /\ handler[t].pc = "persisting"
    /\ snapshot = None
    /\ handler' = [handler EXCEPT ![t].pc = "inserting"]
    /\ UNCHANGED <<messages, snapshot, cachedHistory, cachedContext>>

InsertSnapshot(t) ==
    /\ handler[t].pc = "inserting"
    /\ snapshot = None
    /\ CommitOutcome(t, handler[t].next)

\* Another turn inserted the row first (uq_context_snapshot_conversation):
\* the whole transaction is lost, with the answer and the audit row.
InsertConflicts(t) ==
    /\ handler[t].pc = "inserting"
    /\ snapshot # None
    /\ handler' = [handler EXCEPT ![t].pc = "failed"]
    /\ UNCHANGED <<messages, snapshot, cachedHistory, cachedContext>>

\* Mutant of CacheContext: a closed stream leaves the copy as it is.
CacheAnsweredContext(t) ==
    /\ handler[t].pc = "cachingContext"
    /\ IF handler[t].answers THEN StoreContext(handler[t].next)
                             ELSE UNCHANGED cachedContext
    /\ handler' = [handler EXCEPT
          ![t].pc = IF handler[t].answers THEN "looking" ELSE "closed"]
    /\ UNCHANGED <<messages, snapshot, cachedHistory>>

\* The copy is written whether or not the row was.
CacheContext(t) ==
    /\ handler[t].pc = "cachingContext"
    /\ StoreContext(handler[t].next)
    /\ handler' = [handler EXCEPT
          ![t].pc = IF handler[t].answers THEN "looking" ELSE "closed"]
    /\ UNCHANGED <<messages, snapshot, cachedHistory>>

\* A resumed review commits its answer after the turn that waited for it.
SettleReview(r) ==
    /\ handler[r].pc = "idle"
    /\ Cardinality(Open) < MaxOpen
    /\ \E t \in Turns : Said(t, "assistant") \in Range(messages)
    /\ messages' = Append(messages, Said(r, "assistant"))
    /\ handler' = [handler EXCEPT ![r].pc = "looking"]
    /\ UNCHANGED <<snapshot, cachedHistory, cachedContext>>

\* _cached_history_by_conversation begins with a query for the conversation.
LookUpConversation(h) ==
    /\ handler[h].pc = "looking"
    /\ handler' = [handler EXCEPT ![h].pc = "rereading",
                                  ![h].view = messages]
    /\ UNCHANGED <<messages, snapshot, cachedHistory, cachedContext>>

\* Mutant of RereadHistory: the answer is appended to the listing too.
RereadAndAppend(h) ==
    /\ handler[h].pc = "rereading"
    /\ \E cached \in Fetched(cachedHistory) :
          handler' = [handler EXCEPT
             ![h].pc = "cachingAnswer", ![h].view = <<>>,
             ![h].history = Append(IF cached = None THEN handler[h].view
                                                    ELSE cached,
                                   Said(h, "assistant"))]
    /\ UNCHANGED <<messages, snapshot, cachedHistory, cachedContext>>

\* The listing holds the answer already, the copy does not.
RereadHistory(h) ==
    /\ handler[h].pc = "rereading"
    /\ \E cached \in Fetched(cachedHistory) :
          handler' = [handler EXCEPT
             ![h].pc = "cachingAnswer", ![h].view = <<>>,
             ![h].history = IF cached = None
                            THEN handler[h].view
                            ELSE Append(cached, Said(h, "assistant"))]
    /\ UNCHANGED <<messages, snapshot, cachedHistory, cachedContext>>

CacheAnswer(h) ==
    /\ handler[h].pc = "cachingAnswer"
    /\ StoreHistory(handler[h].history)
    /\ handler' = [handler EXCEPT ![h].pc = "closed", ![h].history = <<>>]
    /\ UNCHANGED <<messages, snapshot, cachedContext>>

Stop(h) ==
    /\ "stop" \in Faults
    /\ h \in Open
    /\ handler' = [handler EXCEPT ![h].pc = "failed"]
    /\ UNCHANGED <<messages, snapshot, cachedHistory, cachedContext>>

-----------------------------------------------------------------------------

TurnStep(t) ==
    \/ Begin(t) \/ ReadContext(t) \/ ReadHistory(t)
    \/ SaveUserMessage(t) \/ CacheUserMessage(t)
    \/ GraphReturns(t) \/ GraphFails(t)
    \/ PersistOutcome(t) \/ FindNoSnapshot(t)
    \/ InsertSnapshot(t) \/ InsertConflicts(t) \/ CacheContext(t)

AnswerStep(h) ==
    LookUpConversation(h) \/ RereadHistory(h) \/ CacheAnswer(h) \/ Stop(h)

Next ==
    \/ \E t \in Turns : TurnStep(t)
    \/ \E r \in Resumes : SettleReview(r)
    \/ \E h \in Handlers : AnswerStep(h)
    \/ ExpireHistory
    \/ ExpireContext

Spec == Init /\ [][Next]_vars

-----------------------------------------------------------------------------
(* Properties *)

\* Every history somebody may answer from: the listing, the copy, and what a
\* handler holds.
Histories ==
    {messages} \cup ({cachedHistory} \ {None})
    \cup {handler[h].history : h \in Handlers}

\* No turn ever answers from a message that MySQL does not have: whatever is
\* lost, Redis and the handlers only repeat committed messages
\* (_save_user_message and _persist_outcome commit before they cache).
HistoryIsCommitted ==
    \A history \in Histories : Range(history) \subseteq Range(messages)

\* A question never comes after its own answer, in MySQL, in Redis or in the
\* history of a turn, however the two read-and-write sequences of concurrent
\* turns interleave (_store_history).
QuestionFirst ==
    \A history \in Histories : \A i, j \in DOMAIN history :
        /\ history[i].from = history[j].from
        /\ history[i].role = "assistant"
        /\ history[j].role = "user"
        => j < i

\* The copy of the context may be older than the snapshot, of an earlier or
\* a concurrent turn, but never newer (_persist_outcome).
CacheNotAhead ==
    cachedContext # None =>
        snapshot # None /\ cachedContext.version <= snapshot.version

\* A late turn never takes the snapshot back to an earlier version
\* (_persist_outcome: context_version >= snapshot.version).
SnapshotNeverBack ==
    [][snapshot # None =>
          snapshot' # None /\ snapshot'.version >= snapshot.version]_vars

\* A turn whose predecessors were all finished runs on the last messages of
\* the conversation and on its snapshot, whatever expired in between
\* (_save_user_message, create_week9b_graph_input).
TurnSeesConversation ==
    \A t \in Turns : handler[t].pc = "running" =>
        /\ LastOf(Append(handler[t].history, Said(t, "user")), Window + 1) =
              LastOf(messages, Window + 1)
        /\ handler[t].context =
              IF snapshot = None THEN EmptyContext ELSE snapshot

\* Between turns that do not overlap the copies in Redis are what MySQL
\* holds, up to the limit of the list (_cached_history_by_conversation).
CopiesAgree ==
    Open = {} =>
        /\ cachedHistory \in {None, LastOf(messages, CacheLimit)}
        /\ cachedContext \in {None, snapshot}

\* The turns that advanced the context and committed it.
Advancing ==
    {t \in Turns : /\ handler[t].pc \in {"cachingContext", "looking",
                        "rereading", "cachingAnswer", "closed"}
                   /\ handler[t].next # None
                   /\ t \in handler[t].next.topics}

\* No turn of a conversation overwrites the context of another one
\* (conversation_context.py get_for_update: the lock keeps concurrent turns
\* from overwriting each other).
NoTurnOverwritten ==
    Advancing # {} => snapshot.version >= Cardinality(Advancing)
=============================================================================

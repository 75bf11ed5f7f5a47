----------------------- MODULE ConversationStore_proofs ----------------------
(***************************************************************************)
(* What Redis may hold of a conversation, for every number of overlapping  *)
(* turns and resumptions, under failing calls, expiring keys and handlers  *)
(* that stop anywhere; and what a conversation whose turns do not overlap  *)
(* reads.                                                                  *)
(***************************************************************************)
EXTENDS ConversationStore, SequenceFacts

-----------------------------------------------------------------------------
(* The inductive invariant *)

\* The turns that have produced a context.
Done == {t \in Turns : handler[t].next # None}

Reading == {"idle", "readingContext", "readingHistory", "saving", "caching",
            "running"}

Unanswered == Reading \cup {"persisting", "inserting"}

\* Every advance of a version is the work of a turn of its own.
Counted(context) == context # None => context.version <= Cardinality(Done)

CountInv ==
    /\ Counted(snapshot) /\ Counted(cachedContext)
    /\ \A h \in Handlers :
          /\ Counted(handler[h].row)
          /\ Counted(handler[h].context)
          /\ Counted(handler[h].next)
          /\ handler[h].pc \in Reading => handler[h].next = None
          /\ handler[h].pc \in {"readingHistory", "saving", "caching", "running"}
                => handler[h].context # None
          /\ handler[h].pc \in {"persisting", "inserting", "cachingContext"}
                => handler[h].next # None

\* What a handler is about to write to Redis is committed.
Committed(s) == Range(s) \subseteq Range(messages)

CommitInv ==
    /\ HistoryIsCommitted
    /\ \A h \in Handlers :
          /\ Committed(handler[h].view)
          /\ handler[h].pc = "caching" => Said(h, "user") \in Range(messages)
          /\ handler[h].pc \in {"looking", "rereading"}
                => Said(h, "assistant") \in Range(messages)
          /\ handler[h].pc = "cachingContext" /\ handler[h].answers
                => Said(h, "assistant") \in Range(messages)

Ordered(s) ==
    \A i, j \in DOMAIN s :
        /\ s[i].from = s[j].from
        /\ s[i].role = "assistant"
        /\ s[j].role = "user"
        => j < i

\* A turn that has not answered has no answer anywhere.
OrderInv ==
    /\ QuestionFirst
    /\ \A h \in Handlers : Ordered(handler[h].view)
    /\ \A t \in Turns : handler[t].pc \in Unanswered
                           => Said(t, "assistant") \notin Range(messages)

\* A context is cached behind the commit that may have stored it.
VersionInv ==
    /\ CacheNotAhead
    /\ \A h \in Handlers : handler[h].pc = "cachingContext" =>
           /\ handler[h].next # None /\ snapshot # None
           /\ handler[h].next.version <= snapshot.version

-----------------------------------------------------------------------------
(* Types *)

\* The constants' part of the types.
LEMMA ContextTyped ==
    /\ Cardinality(Turns) \in Nat /\ IsFiniteSet(Turns)
    /\ EmptyContext \in Context
    /\ None \notin Context
    /\ \A c \in Context : c.version \in Nat /\ c.version <= Cardinality(Turns)
<1>1. IsFiniteSet(Turns)
  BY ConstantsAssumption, FS_Subset DEF Handlers
<1>2. Cardinality(Turns) \in Nat
  BY <1>1, FS_CardinalityType
<1>q. QED
  BY <1>1, <1>2, NoneIsNoContext DEF Context, EmptyContext

\* The last messages of a list are messages, no more than asked for.
LEMMA LastOfTyped ==
    ASSUME NEW S, NEW s \in Seq(S), NEW n \in Nat
    PROVE  /\ LastOf(s, n) \in Seq(S)
           /\ Len(LastOf(s, n)) = IF Len(s) > n THEN n ELSE Len(s)
           /\ \A i \in 1..Len(LastOf(s, n)) :
                 LastOf(s, n)[i] = s[i + IF Len(s) > n THEN Len(s) - n ELSE 0]
<1> DEFINE skip == IF Len(s) > n THEN Len(s) - n ELSE 0
<1>1. /\ Len(s) \in Nat /\ skip \in Nat /\ skip <= Len(s)
      /\ skip + 1 \in Int /\ Len(s) \in Int
  BY LenProperties
<1>2. \A i \in (skip + 1)..Len(s) : s[i] \in S
  BY <1>1, ElementOfSeq
<1>3. /\ SubSeq(s, skip + 1, Len(s)) \in Seq(S)
      /\ Len(SubSeq(s, skip + 1, Len(s))) =
            IF skip + 1 <= Len(s) THEN Len(s) - (skip + 1) + 1 ELSE 0
      /\ \A i \in 1..(Len(s) - (skip + 1) + 1) :
            SubSeq(s, skip + 1, Len(s))[i] = s[skip + 1 + i - 1]
  <2> HIDE DEF skip
  <2>q. QED
    BY <1>1, <1>2, SubSeqProperties
<1>4. LastOf(s, n) = SubSeq(s, skip + 1, Len(s))
  BY DEF LastOf
<1>5. Len(LastOf(s, n)) = Len(s) - skip
  <2> HIDE DEF skip
  <2>q. QED
    BY <1>1, <1>3, <1>4
<1>6. \A i \in 1..Len(LastOf(s, n)) : LastOf(s, n)[i] = s[i + skip]
  <2> HIDE DEF skip
  <2>q. QED
    BY <1>1, <1>3, <1>4, <1>5
<1>7. Len(s) - skip = IF Len(s) > n THEN n ELSE Len(s)
  BY <1>1
<1>q. QED
  BY <1>3, <1>4, <1>5, <1>6, <1>7

\* One handler moves; the others stay as they are.
Moves(h, r) ==
    /\ handler' \in [Handlers -> Handler]
    /\ handler'[h] = r
    /\ \A g \in Handlers \ {h} : handler'[g] = handler[g]

LEMMA OneMoves ==
    ASSUME handler \in [Handlers -> Handler], NEW h \in Handlers,
           NEW r \in Handler, handler' = [handler EXCEPT ![h] = r]
    PROVE  Moves(h, r)
BY DEF Moves

\* The types of what a handler holds.
LEMMA Locals ==
    ASSUME TypeOK, NEW h \in Handlers
    PROVE  /\ handler[h] \in Handler
           /\ handler[h].pc \in Pcs /\ handler[h].answers \in BOOLEAN
           /\ handler[h].view \in Seq(Message)
           /\ handler[h].history \in Seq(Message)
           /\ handler[h].row \in Context \cup {None}
           /\ handler[h].context \in Context \cup {None}
           /\ handler[h].next \in Context \cup {None}
BY DEF TypeOK, Handler

\* What is said is a message.
LEMMA Messages ==
    /\ <<>> \in Seq(Message)
    /\ \A h \in Handlers : Said(h, "user") \in Message
                           /\ Said(h, "assistant") \in Message
BY EmptySeq DEF Message, Said

-----------------------------------------------------------------------------
(* What each action does to the handler that takes it *)

\* A call begins and opens its transaction.
LEMMA BeginEffect ==
    ASSUME TypeOK, NEW t \in Turns, Begin(t)
    PROVE  \E r \in Handler :
              /\ Moves(t, r)
              /\ r.pc = "readingContext"
              /\ r.view = messages
              /\ r.row = snapshot
              /\ r.history = handler[t].history
              /\ r.context = handler[t].context
              /\ r.next = handler[t].next
              /\ r.answers = handler[t].answers
<1> DEFINE r == [handler[t] EXCEPT !.pc = "readingContext", !.view = messages, !.row = snapshot]
<1>1. t \in Handlers /\ handler \in [Handlers -> Handler]
  BY DEF Handlers, TypeOK
<1>2. r \in Handler
  BY <1>1, Locals, Messages DEF Handler, Pcs, TypeOK
<1>3. handler' = [handler EXCEPT ![t] = r]
  BY <1>1 DEF Begin
<1>4. Moves(t, r)
  BY <1>1, <1>2, <1>3, OneMoves
<1>5. r.pc = "readingContext"
  BY <1>1, Locals DEF Handler
<1>q. QED
  BY <1>1, <1>2, <1>4, <1>5, Locals DEF Handler

\* The question is committed.
LEMMA SaveUserMessageEffect ==
    ASSUME TypeOK, NEW t \in Turns, SaveUserMessage(t)
    PROVE  \E r \in Handler :
              /\ Moves(t, r)
              /\ r.pc = "caching"
              /\ r.view = handler[t].view
              /\ r.row = handler[t].row
              /\ r.history = handler[t].history
              /\ r.context = handler[t].context
              /\ r.next = handler[t].next
              /\ r.answers = handler[t].answers
<1> DEFINE r == [handler[t] EXCEPT !.pc = "caching"]
<1>1. t \in Handlers /\ handler \in [Handlers -> Handler]
  BY DEF Handlers, TypeOK
<1>2. r \in Handler
  BY <1>1, Locals, Messages DEF Handler, Pcs, TypeOK
<1>3. handler' = [handler EXCEPT ![t] = r]
  BY <1>1 DEF SaveUserMessage
<1>4. Moves(t, r)
  BY <1>1, <1>2, <1>3, OneMoves
<1>5. r.pc = "caching"
  BY <1>1, Locals DEF Handler
<1>q. QED
  BY <1>1, <1>2, <1>4, <1>5, Locals DEF Handler

\* The question is cached.
LEMMA CacheUserMessageEffect ==
    ASSUME TypeOK, NEW t \in Turns, CacheUserMessage(t)
    PROVE  \E r \in Handler :
              /\ Moves(t, r)
              /\ r.pc = "running"
              /\ r.view = handler[t].view
              /\ r.row = handler[t].row
              /\ r.history = handler[t].history
              /\ r.context = handler[t].context
              /\ r.next = handler[t].next
              /\ r.answers = handler[t].answers
<1> DEFINE r == [handler[t] EXCEPT !.pc = "running"]
<1>1. t \in Handlers /\ handler \in [Handlers -> Handler]
  BY DEF Handlers, TypeOK
<1>2. r \in Handler
  BY <1>1, Locals, Messages DEF Handler, Pcs, TypeOK
<1>3. handler' = [handler EXCEPT ![t] = r]
  BY <1>1 DEF CacheUserMessage
<1>4. Moves(t, r)
  BY <1>1, <1>2, <1>3, OneMoves
<1>5. r.pc = "running"
  BY <1>1, Locals DEF Handler
<1>q. QED
  BY <1>1, <1>2, <1>4, <1>5, Locals DEF Handler

\* The run fails.
LEMMA GraphFailsEffect ==
    ASSUME TypeOK, NEW t \in Turns, GraphFails(t)
    PROVE  \E r \in Handler :
              /\ Moves(t, r)
              /\ r.pc = "closed"
              /\ r.view = handler[t].view
              /\ r.row = handler[t].row
              /\ r.history = <<>>
              /\ r.context = None
              /\ r.next = handler[t].next
              /\ r.answers = handler[t].answers
<1> DEFINE r == [handler[t] EXCEPT !.pc = "closed", !.history = <<>>, !.context = None]
<1>1. t \in Handlers /\ handler \in [Handlers -> Handler]
  BY DEF Handlers, TypeOK
<1>2. r \in Handler
  BY <1>1, Locals, Messages DEF Handler, Pcs, TypeOK
<1>3. handler' = [handler EXCEPT ![t] = r]
  BY <1>1 DEF GraphFails
<1>4. Moves(t, r)
  BY <1>1, <1>2, <1>3, OneMoves
<1>5. r.pc = "closed"
  BY <1>1, Locals DEF Handler
<1>q. QED
  BY <1>1, <1>2, <1>4, <1>5, Locals DEF Handler

\* The outcome is committed under the lock.
LEMMA PersistOutcomeEffect ==
    ASSUME TypeOK, NEW t \in Turns, PersistOutcome(t)
    PROVE  \E r \in Handler :
              /\ Moves(t, r)
              /\ r.pc = "cachingContext"
              /\ r.view = handler[t].view
              /\ r.row = handler[t].row
              /\ r.history = handler[t].history
              /\ r.context = handler[t].context
              /\ r.next = handler[t].next
              /\ r.answers = handler[t].answers
<1> DEFINE r == [handler[t] EXCEPT !.pc = "cachingContext"]
<1>1. t \in Handlers /\ handler \in [Handlers -> Handler]
  BY DEF Handlers, TypeOK
<1>2. r \in Handler
  BY <1>1, Locals, Messages DEF Handler, Pcs, TypeOK
<1>3. handler' = [handler EXCEPT ![t] = r]
  BY <1>1 DEF PersistOutcome, CommitOutcome
<1>4. Moves(t, r)
  BY <1>1, <1>2, <1>3, OneMoves
<1>5. r.pc = "cachingContext"
  BY <1>1, Locals DEF Handler
<1>q. QED
  BY <1>1, <1>2, <1>4, <1>5, Locals DEF Handler

\* There is nothing to lock.
LEMMA FindNoSnapshotEffect ==
    ASSUME TypeOK, NEW t \in Turns, FindNoSnapshot(t)
    PROVE  \E r \in Handler :
              /\ Moves(t, r)
              /\ r.pc = "inserting"
              /\ r.view = handler[t].view
              /\ r.row = handler[t].row
              /\ r.history = handler[t].history
              /\ r.context = handler[t].context
              /\ r.next = handler[t].next
              /\ r.answers = handler[t].answers
<1> DEFINE r == [handler[t] EXCEPT !.pc = "inserting"]
<1>1. t \in Handlers /\ handler \in [Handlers -> Handler]
  BY DEF Handlers, TypeOK
<1>2. r \in Handler
  BY <1>1, Locals, Messages DEF Handler, Pcs, TypeOK
<1>3. handler' = [handler EXCEPT ![t] = r]
  BY <1>1 DEF FindNoSnapshot
<1>4. Moves(t, r)
  BY <1>1, <1>2, <1>3, OneMoves
<1>5. r.pc = "inserting"
  BY <1>1, Locals DEF Handler
<1>q. QED
  BY <1>1, <1>2, <1>4, <1>5, Locals DEF Handler

\* The outcome is committed with a new row.
LEMMA InsertSnapshotEffect ==
    ASSUME TypeOK, NEW t \in Turns, InsertSnapshot(t)
    PROVE  \E r \in Handler :
              /\ Moves(t, r)
              /\ r.pc = "cachingContext"
              /\ r.view = handler[t].view
              /\ r.row = handler[t].row
              /\ r.history = handler[t].history
              /\ r.context = handler[t].context
              /\ r.next = handler[t].next
              /\ r.answers = handler[t].answers
<1> DEFINE r == [handler[t] EXCEPT !.pc = "cachingContext"]
<1>1. t \in Handlers /\ handler \in [Handlers -> Handler]
  BY DEF Handlers, TypeOK
<1>2. r \in Handler
  BY <1>1, Locals, Messages DEF Handler, Pcs, TypeOK
<1>3. handler' = [handler EXCEPT ![t] = r]
  BY <1>1 DEF InsertSnapshot, CommitOutcome
<1>4. Moves(t, r)
  BY <1>1, <1>2, <1>3, OneMoves
<1>5. r.pc = "cachingContext"
  BY <1>1, Locals DEF Handler
<1>q. QED
  BY <1>1, <1>2, <1>4, <1>5, Locals DEF Handler

\* The outcome is lost.
LEMMA InsertConflictsEffect ==
    ASSUME TypeOK, NEW t \in Turns, InsertConflicts(t)
    PROVE  \E r \in Handler :
              /\ Moves(t, r)
              /\ r.pc = "failed"
              /\ r.view = handler[t].view
              /\ r.row = handler[t].row
              /\ r.history = handler[t].history
              /\ r.context = handler[t].context
              /\ r.next = handler[t].next
              /\ r.answers = handler[t].answers
<1> DEFINE r == [handler[t] EXCEPT !.pc = "failed"]
<1>1. t \in Handlers /\ handler \in [Handlers -> Handler]
  BY DEF Handlers, TypeOK
<1>2. r \in Handler
  BY <1>1, Locals, Messages DEF Handler, Pcs, TypeOK
<1>3. handler' = [handler EXCEPT ![t] = r]
  BY <1>1 DEF InsertConflicts
<1>4. Moves(t, r)
  BY <1>1, <1>2, <1>3, OneMoves
<1>5. r.pc = "failed"
  BY <1>1, Locals DEF Handler
<1>q. QED
  BY <1>1, <1>2, <1>4, <1>5, Locals DEF Handler

\* The context is cached.
LEMMA CacheContextEffect ==
    ASSUME TypeOK, NEW t \in Turns, CacheContext(t)
    PROVE  \E r \in Handler :
              /\ Moves(t, r)
              /\ r.pc = IF handler[t].answers THEN "looking" ELSE "closed"
              /\ r.view = handler[t].view
              /\ r.row = handler[t].row
              /\ r.history = handler[t].history
              /\ r.context = handler[t].context
              /\ r.next = handler[t].next
              /\ r.answers = handler[t].answers
<1> DEFINE r == [handler[t] EXCEPT !.pc = IF handler[t].answers THEN "looking" ELSE "closed"]
<1>1. t \in Handlers /\ handler \in [Handlers -> Handler]
  BY DEF Handlers, TypeOK
<1>2. r \in Handler
  BY <1>1, Locals, Messages DEF Handler, Pcs, TypeOK
<1>3. handler' = [handler EXCEPT ![t] = r]
  BY <1>1 DEF CacheContext
<1>4. Moves(t, r)
  BY <1>1, <1>2, <1>3, OneMoves
<1>5. r.pc = IF handler[t].answers THEN "looking" ELSE "closed"
  BY <1>1, Locals DEF Handler
<1>q. QED
  BY <1>1, <1>2, <1>4, <1>5, Locals DEF Handler

\* A review is settled.
LEMMA SettleReviewEffect ==
    ASSUME TypeOK, NEW h \in Resumes, SettleReview(h)
    PROVE  \E r \in Handler :
              /\ Moves(h, r)
              /\ r.pc = "looking"
              /\ r.view = handler[h].view
              /\ r.row = handler[h].row
              /\ r.history = handler[h].history
              /\ r.context = handler[h].context
              /\ r.next = handler[h].next
              /\ r.answers = handler[h].answers
<1> DEFINE r == [handler[h] EXCEPT !.pc = "looking"]
<1>1. h \in Handlers /\ handler \in [Handlers -> Handler]
  BY DEF Handlers, TypeOK
<1>2. r \in Handler
  BY <1>1, Locals, Messages DEF Handler, Pcs, TypeOK
<1>3. handler' = [handler EXCEPT ![h] = r]
  BY <1>1 DEF SettleReview
<1>4. Moves(h, r)
  BY <1>1, <1>2, <1>3, OneMoves
<1>5. r.pc = "looking"
  BY <1>1, Locals DEF Handler
<1>q. QED
  BY <1>1, <1>2, <1>4, <1>5, Locals DEF Handler

\* The tail of a call opens its transaction.
LEMMA LookUpConversationEffect ==
    ASSUME TypeOK, NEW h \in Handlers, LookUpConversation(h)
    PROVE  \E r \in Handler :
              /\ Moves(h, r)
              /\ r.pc = "rereading"
              /\ r.view = messages
              /\ r.row = handler[h].row
              /\ r.history = handler[h].history
              /\ r.context = handler[h].context
              /\ r.next = handler[h].next
              /\ r.answers = handler[h].answers
<1> DEFINE r == [handler[h] EXCEPT !.pc = "rereading", !.view = messages]
<1>1. h \in Handlers /\ handler \in [Handlers -> Handler]
  BY DEF Handlers, TypeOK
<1>2. r \in Handler
  BY <1>1, Locals, Messages DEF Handler, Pcs, TypeOK
<1>3. handler' = [handler EXCEPT ![h] = r]
  BY <1>1 DEF LookUpConversation
<1>4. Moves(h, r)
  BY <1>1, <1>2, <1>3, OneMoves
<1>5. r.pc = "rereading"
  BY <1>1, Locals DEF Handler
<1>q. QED
  BY <1>1, <1>2, <1>4, <1>5, Locals DEF Handler

\* The answer is cached.
LEMMA CacheAnswerEffect ==
    ASSUME TypeOK, NEW h \in Handlers, CacheAnswer(h)
    PROVE  \E r \in Handler :
              /\ Moves(h, r)
              /\ r.pc = "closed"
              /\ r.view = handler[h].view
              /\ r.row = handler[h].row
              /\ r.history = <<>>
              /\ r.context = handler[h].context
              /\ r.next = handler[h].next
              /\ r.answers = handler[h].answers
<1> DEFINE r == [handler[h] EXCEPT !.pc = "closed", !.history = <<>>]
<1>1. h \in Handlers /\ handler \in [Handlers -> Handler]
  BY DEF Handlers, TypeOK
<1>2. r \in Handler
  BY <1>1, Locals, Messages DEF Handler, Pcs, TypeOK
<1>3. handler' = [handler EXCEPT ![h] = r]
  BY <1>1 DEF CacheAnswer
<1>4. Moves(h, r)
  BY <1>1, <1>2, <1>3, OneMoves
<1>5. r.pc = "closed"
  BY <1>1, Locals DEF Handler
<1>q. QED
  BY <1>1, <1>2, <1>4, <1>5, Locals DEF Handler

\* A call ends early.
LEMMA StopEffect ==
    ASSUME TypeOK, NEW h \in Handlers, Stop(h)
    PROVE  \E r \in Handler :
              /\ Moves(h, r)
              /\ r.pc = "failed"
              /\ r.view = handler[h].view
              /\ r.row = handler[h].row
              /\ r.history = handler[h].history
              /\ r.context = handler[h].context
              /\ r.next = handler[h].next
              /\ r.answers = handler[h].answers
<1> DEFINE r == [handler[h] EXCEPT !.pc = "failed"]
<1>1. h \in Handlers /\ handler \in [Handlers -> Handler]
  BY DEF Handlers, TypeOK
<1>2. r \in Handler
  BY <1>1, Locals, Messages DEF Handler, Pcs, TypeOK
<1>3. handler' = [handler EXCEPT ![h] = r]
  BY <1>1 DEF Stop
<1>4. Moves(h, r)
  BY <1>1, <1>2, <1>3, OneMoves
<1>5. r.pc = "failed"
  BY <1>1, Locals DEF Handler
<1>q. QED
  BY <1>1, <1>2, <1>4, <1>5, Locals DEF Handler

\* A call that hits or fails reads the copy or nothing.
LEMMA FetchedIs ==
    ASSUME NEW value, NEW cached \in Fetched(value)
    PROVE  cached = value \/ cached = None
BY DEF Fetched

\* The turn takes the copy of the context, or else the snapshot it saw.
LEMMA ReadContextEffect ==
    ASSUME TypeOK, NEW t \in Turns, ReadContext(t)
    PROVE  \E r \in Handler :
              /\ Moves(t, r)
              /\ r.pc = "readingHistory"
              /\ r.view = handler[t].view
              /\ r.row = None
              /\ r.history = handler[t].history
              /\ r.next = handler[t].next
              /\ r.answers = handler[t].answers
              /\ r.context \in Context
              /\ \/ r.context = cachedContext
                 \/ r.context = handler[t].row
                 \/ handler[t].row = None /\ r.context = EmptyContext
              /\ cachedContext # None /\ "redis" \notin Faults =>
                    r.context = cachedContext
              /\ cachedContext = None =>
                    r.context = IF handler[t].row = None THEN EmptyContext
                                                         ELSE handler[t].row
<1> DEFINE stored == IF handler[t].row = None THEN EmptyContext
                                              ELSE handler[t].row
<1>1. t \in Handlers /\ handler \in [Handlers -> Handler]
  BY DEF Handlers, TypeOK
<1>2. PICK cached \in Fetched(cachedContext) :
         handler' = [handler EXCEPT
            ![t].pc = "readingHistory", ![t].row = None,
            ![t].context = IF cached = None THEN stored ELSE cached]
  BY DEF ReadContext
<1>3. cached = cachedContext \/ (cached = None /\ "redis" \in Faults)
  BY <1>2 DEF Fetched
<1> DEFINE context == IF cached = None THEN stored ELSE cached
           r == [handler[t] EXCEPT !.pc = "readingHistory", !.row = None,
                                   !.context = context]
<1>4. context \in Context /\ stored \in Context
  BY <1>1, <1>3, Locals, ContextTyped DEF TypeOK
<1>5. r \in Handler
  <2> HIDE DEF context
  <2>q. QED
    BY <1>1, <1>4, Locals DEF Handler, Pcs
<1>6. Moves(t, r)
  <2>1. handler' = [handler EXCEPT ![t] = r]
    BY <1>1, <1>2
  <2>q. QED
    BY <1>1, <1>5, <2>1, OneMoves
<1>7. /\ r.pc = "readingHistory" /\ r.row = None /\ r.context = context
      /\ r.view = handler[t].view /\ r.history = handler[t].history
      /\ r.next = handler[t].next /\ r.answers = handler[t].answers
  <2> HIDE DEF context
  <2>q. QED
    BY <1>1, Locals DEF Handler
<1>q. QED
  BY <1>3, <1>4, <1>5, <1>6, <1>7

\* The turn takes the copy of the history, or else the listing it saw.
LEMMA ReadHistoryEffect ==
    ASSUME TypeOK, NEW t \in Turns, ReadHistory(t)
    PROVE  \E r \in Handler :
              /\ Moves(t, r)
              /\ r.pc = "saving"
              /\ r.view = <<>>
              /\ r.row = handler[t].row
              /\ r.context = handler[t].context
              /\ r.next = handler[t].next
              /\ r.answers = handler[t].answers
              /\ \/ r.history = handler[t].view
                 \/ cachedHistory # None /\ r.history = cachedHistory
              /\ cachedHistory # None /\ "redis" \notin Faults =>
                    r.history = cachedHistory
<1>1. t \in Handlers /\ handler \in [Handlers -> Handler]
  BY DEF Handlers, TypeOK
<1>2. PICK cached \in Fetched(cachedHistory) :
         handler' = [handler EXCEPT
            ![t].pc = "saving", ![t].view = <<>>,
            ![t].history = IF cached = None THEN handler[t].view ELSE cached]
  BY DEF ReadHistory
<1>3. cached = cachedHistory \/ (cached = None /\ "redis" \in Faults)
  BY <1>2 DEF Fetched
<1> DEFINE history == IF cached = None THEN handler[t].view ELSE cached
           r == [handler[t] EXCEPT !.pc = "saving", !.view = <<>>,
                                   !.history = history]
<1>4. history \in Seq(Message)
  BY <1>1, <1>3, Locals DEF TypeOK
<1>5. r \in Handler
  <2> HIDE DEF history
  <2>q. QED
    BY <1>1, <1>4, Locals, Messages DEF Handler, Pcs
<1>6. Moves(t, r)
  <2>1. handler' = [handler EXCEPT ![t] = r]
    BY <1>1, <1>2
  <2>q. QED
    BY <1>1, <1>5, <2>1, OneMoves
<1>7. /\ r.pc = "saving" /\ r.view = <<>> /\ r.history = history
      /\ r.row = handler[t].row /\ r.context = handler[t].context
      /\ r.next = handler[t].next /\ r.answers = handler[t].answers
  <2> HIDE DEF history
  <2>q. QED
    BY <1>1, Locals DEF Handler
<1>q. QED
  BY <1>3, <1>4, <1>5, <1>6, <1>7

\* The tail takes the copy with the answer appended, or else the listing.
LEMMA RereadHistoryEffect ==
    ASSUME TypeOK, NEW h \in Handlers, RereadHistory(h)
    PROVE  \E r \in Handler :
              /\ Moves(h, r)
              /\ r.pc = "cachingAnswer"
              /\ r.view = <<>>
              /\ r.row = handler[h].row
              /\ r.context = handler[h].context
              /\ r.next = handler[h].next
              /\ r.answers = handler[h].answers
              /\ \/ r.history = handler[h].view
                 \/ /\ cachedHistory # None
                    /\ r.history = Append(cachedHistory, Said(h, "assistant"))
              /\ cachedHistory # None /\ "redis" \notin Faults =>
                    r.history = Append(cachedHistory, Said(h, "assistant"))
<1>1. h \in Handlers /\ handler \in [Handlers -> Handler]
  BY DEF TypeOK
<1>2. PICK cached \in Fetched(cachedHistory) :
         handler' = [handler EXCEPT
            ![h].pc = "cachingAnswer", ![h].view = <<>>,
            ![h].history = IF cached = None
                           THEN handler[h].view
                           ELSE Append(cached, Said(h, "assistant"))]
  BY DEF RereadHistory
<1>3. cached = cachedHistory \/ (cached = None /\ "redis" \in Faults)
  BY <1>2 DEF Fetched
<1> DEFINE history == IF cached = None
                      THEN handler[h].view
                      ELSE Append(cached, Said(h, "assistant"))
           r == [handler[h] EXCEPT !.pc = "cachingAnswer", !.view = <<>>,
                                   !.history = history]
<1>4. history \in Seq(Message)
  BY <1>1, <1>3, Locals, Messages, AppendProperties DEF TypeOK
<1>5. r \in Handler
  <2> HIDE DEF history
  <2>q. QED
    BY <1>1, <1>4, Locals, Messages DEF Handler, Pcs
<1>6. Moves(h, r)
  <2>1. handler' = [handler EXCEPT ![h] = r]
    BY <1>1, <1>2
  <2>q. QED
    BY <1>1, <1>5, <2>1, OneMoves
<1>7. /\ r.pc = "cachingAnswer" /\ r.view = <<>> /\ r.history = history
      /\ r.row = handler[h].row /\ r.context = handler[h].context
      /\ r.next = handler[h].next /\ r.answers = handler[h].answers
  <2> HIDE DEF history
  <2>q. QED
    BY <1>1, Locals DEF Handler
<1>q. QED
  BY <1>3, <1>4, <1>5, <1>6, <1>7

\* A turn that reads has not been counted, so one more version fits.
LEMMA RoomForOne ==
    ASSUME TypeOK, CountInv, NEW t \in Turns, handler[t].pc = "running"
    PROVE  /\ t \notin Done /\ handler[t].context \in Context
           /\ Cardinality(Done) \in Nat
           /\ Cardinality(Done \cup {t}) = Cardinality(Done) + 1
           /\ Cardinality(Done \cup {t}) <= Cardinality(Turns)
           /\ handler[t].context.version <= Cardinality(Done)
<1>1. t \in Handlers
  BY DEF Handlers
<1>2. handler[t].next = None /\ handler[t].context # None
  BY <1>1 DEF CountInv, Reading
<1>3. t \notin Done
  BY <1>2 DEF Done
<1>4. handler[t].context \in Context /\ handler[t].context.version <= Cardinality(Done)
  BY <1>1, <1>2, Locals DEF CountInv, Counted
<1>5. IsFiniteSet(Done) /\ Done \cup {t} \subseteq Turns
  BY ContextTyped, FS_Subset DEF Done
<1>6. Cardinality(Done \cup {t}) = Cardinality(Done) + 1
  BY <1>3, <1>5, FS_AddElement
<1>7. Cardinality(Done) \in Nat /\ Cardinality(Done \cup {t}) <= Cardinality(Turns)
  BY <1>5, ContextTyped, FS_CardinalityType, FS_Subset
<1>q. QED
  BY <1>3, <1>4, <1>6, <1>7

\* The run of the graph leaves a context and maybe an answer.
LEMMA GraphReturnsEffect ==
    ASSUME TypeOK, CountInv, NEW t \in Turns, GraphReturns(t)
    PROVE  \E r \in Handler :
              /\ Moves(t, r)
              /\ r.pc = "persisting"
              /\ r.view = handler[t].view
              /\ r.row = handler[t].row
              /\ r.history = <<>>
              /\ r.context = None
              /\ r.next \in Context
              /\ \/ r.next = handler[t].context
                 \/ r.next.version = handler[t].context.version + 1
<1>1. t \in Handlers /\ handler \in [Handlers -> Handler]
  BY DEF Handlers, TypeOK
<1>2. PICK next \in NextContexts(t, handler[t].context), answers \in BOOLEAN :
         handler' = [handler EXCEPT ![t].pc = "persisting",
                                    ![t].history = <<>>, ![t].context = None,
                                    ![t].next = next, ![t].answers = answers]
  BY DEF GraphReturns
<1>3. handler[t].context \in Context
      /\ handler[t].context.version + 1 \in 0..Cardinality(Turns)
  <2>1. handler[t].pc = "running"
    BY DEF GraphReturns
  <2>2. /\ handler[t].context \in Context
        /\ handler[t].context.version <= Cardinality(Done)
        /\ Cardinality(Done) \in Nat
        /\ Cardinality(Done) + 1 <= Cardinality(Turns)
    BY <2>1, RoomForOne
  <2>3. handler[t].context.version \in Nat /\ Cardinality(Turns) \in Nat
    BY <2>2, ContextTyped
  <2>q. QED
    BY <2>2, <2>3
<1>4. /\ next \in Context
      /\ \/ next = handler[t].context
         \/ next.version = handler[t].context.version + 1
  BY <1>2, <1>3 DEF NextContexts, Context
<1> DEFINE r == [handler[t] EXCEPT !.pc = "persisting", !.history = <<>>,
                                   !.context = None, !.next = next,
                                   !.answers = answers]
<1>5. r \in Handler
  BY <1>1, <1>4, Locals, Messages DEF Handler, Pcs
<1>6. Moves(t, r)
  <2>1. handler' = [handler EXCEPT ![t] = r]
    BY <1>1, <1>2
  <2>q. QED
    BY <1>1, <1>5, <2>1, OneMoves
<1>7. /\ r.pc = "persisting" /\ r.history = <<>> /\ r.context = None
      /\ r.view = handler[t].view /\ r.row = handler[t].row /\ r.next = next
  BY <1>1, Locals DEF Handler
<1>q. QED
  BY <1>4, <1>5, <1>6, <1>7

-----------------------------------------------------------------------------
(* What the actions do to the rows and to the copies *)

\* A stored history is cut to the limit, or nothing was stored.
LEMMA StoredIs ==
    ASSUME TypeOK, NEW history \in Seq(Message), StoreHistory(history)
    PROVE  /\ \/ cachedHistory' = None
              \/ /\ cachedHistory' \in Seq(Message)
                 /\ Len(cachedHistory') <= CacheLimit
           /\ \/ cachedHistory' = cachedHistory
              \/ cachedHistory' = LastOf(history, CacheLimit)
<1>1. CacheLimit \in Nat
  BY ConstantsAssumption
<1>2. LastOf(history, CacheLimit) \in Seq(Message)
      /\ Len(LastOf(history, CacheLimit)) <= CacheLimit
  BY <1>1, LastOfTyped, LenProperties
<1>q. QED
  BY <1>2 DEF StoreHistory, TypeOK

\* The commit of an outcome: maybe an answer, and the later of two contexts.
LEMMA OutcomeIs ==
    ASSUME TypeOK, CountInv, NEW t \in Turns,
           PersistOutcome(t) \/ InsertSnapshot(t)
    PROVE  /\ handler[t].pc \in {"persisting", "inserting"}
           /\ handler[t].next \in Context
           /\ \/ messages' = messages
              \/ messages' = Append(messages, Said(t, "assistant"))
           /\ handler[t].answers =>
                messages' = Append(messages, Said(t, "assistant"))
           /\ messages' \in Seq(Message)
           /\ snapshot' \in Context
           /\ snapshot' = snapshot \/ snapshot' = handler[t].next
           /\ handler[t].next.version <= snapshot'.version
           /\ snapshot # None => snapshot.version <= snapshot'.version
           /\ UNCHANGED <<cachedHistory, cachedContext>>
<1>1. t \in Handlers /\ handler[t].pc \in {"persisting", "inserting"}
  BY DEF Handlers, PersistOutcome, InsertSnapshot
<1>2. handler[t].next \in Context /\ handler[t].next.version \in Nat
  BY <1>1, Locals, ContextTyped DEF CountInv
<1>3. /\ messages' = IF handler[t].answers
                     THEN Append(messages, Said(t, "assistant"))
                     ELSE messages
      /\ UNCHANGED <<cachedHistory, cachedContext>>
  BY DEF PersistOutcome, InsertSnapshot, CommitOutcome
<1>4. messages' \in Seq(Message)
  BY <1>1, <1>3, Messages, AppendProperties DEF TypeOK
<1>5. CASE PersistOutcome(t)
  <2>1. /\ snapshot \in Context /\ snapshot.version \in Nat
        /\ snapshot' = IF handler[t].next.version >= snapshot.version
                       THEN handler[t].next ELSE snapshot
    BY <1>5, ContextTyped DEF PersistOutcome, CommitOutcome, TypeOK
  <2>q. QED
    BY <1>1, <1>2, <1>3, <1>4, <2>1
<1>6. CASE InsertSnapshot(t)
  <2>1. snapshot = None /\ snapshot' = handler[t].next
    BY <1>6 DEF InsertSnapshot, CommitOutcome
  <2>q. QED
    BY <1>1, <1>2, <1>3, <1>4, <2>1
<1>q. QED
  BY <1>5, <1>6

-----------------------------------------------------------------------------
(* Types *)

\* Every step keeps the types.
LEMMA TypeKept ==
    ASSUME TypeOK, CountInv, [Next]_vars
    PROVE  TypeOK'
<1> USE DEF TypeOK
<1>1. ASSUME NEW t \in Turns, Begin(t)
      PROVE  TypeOK'
  BY <1>1, BeginEffect DEF Moves, Begin
<1>2. ASSUME NEW t \in Turns, ReadContext(t)
      PROVE  TypeOK'
  BY <1>2, ReadContextEffect DEF Moves, ReadContext
<1>3. ASSUME NEW t \in Turns, ReadHistory(t)
      PROVE  TypeOK'
  BY <1>3, ReadHistoryEffect DEF Moves, ReadHistory
<1>4. ASSUME NEW t \in Turns, SaveUserMessage(t)
      PROVE  TypeOK'
  <2>1. messages' \in Seq(Message)
    BY <1>4, Messages, AppendProperties DEF SaveUserMessage, Handlers
  <2>q. QED
    BY <1>4, <2>1, SaveUserMessageEffect DEF Moves, SaveUserMessage
<1>5. ASSUME NEW t \in Turns, CacheUserMessage(t)
      PROVE  TypeOK'
  <2>1. Append(handler[t].history, Said(t, "user")) \in Seq(Message)
    BY Locals, Messages, AppendProperties DEF Handlers
  <2>2. cachedHistory' = None \/ /\ cachedHistory' \in Seq(Message)
                                 /\ Len(cachedHistory') <= CacheLimit
    BY <1>5, <2>1, StoredIs DEF CacheUserMessage
  <2>q. QED
    BY <1>5, <2>2, CacheUserMessageEffect DEF Moves, CacheUserMessage
<1>6. ASSUME NEW t \in Turns, GraphReturns(t)
      PROVE  TypeOK'
  BY <1>6, GraphReturnsEffect DEF Moves, GraphReturns
<1>7. ASSUME NEW t \in Turns, GraphFails(t)
      PROVE  TypeOK'
  BY <1>7, GraphFailsEffect DEF Moves, GraphFails
<1>8. ASSUME NEW t \in Turns, PersistOutcome(t)
      PROVE  TypeOK'
  BY <1>8, PersistOutcomeEffect, OutcomeIs DEF Moves
<1>9. ASSUME NEW t \in Turns, FindNoSnapshot(t)
      PROVE  TypeOK'
  BY <1>9, FindNoSnapshotEffect DEF Moves, FindNoSnapshot
<1>10. ASSUME NEW t \in Turns, InsertSnapshot(t)
       PROVE  TypeOK'
  BY <1>10, InsertSnapshotEffect, OutcomeIs DEF Moves
<1>11. ASSUME NEW t \in Turns, InsertConflicts(t)
       PROVE  TypeOK'
  BY <1>11, InsertConflictsEffect DEF Moves, InsertConflicts
<1>12. ASSUME NEW t \in Turns, CacheContext(t)
       PROVE  TypeOK'
  <2>1. cachedContext' \in Context \cup {None}
    BY <1>12, Locals DEF CacheContext, StoreContext, Handlers
  <2>q. QED
    BY <1>12, <2>1, CacheContextEffect DEF Moves, CacheContext
<1>13. ASSUME NEW h \in Resumes, SettleReview(h)
       PROVE  TypeOK'
  <2>1. messages' \in Seq(Message)
    BY <1>13, Messages, AppendProperties DEF SettleReview, Handlers
  <2>q. QED
    BY <1>13, <2>1, SettleReviewEffect DEF Moves, SettleReview
<1>14. ASSUME NEW h \in Handlers, LookUpConversation(h)
       PROVE  TypeOK'
  BY <1>14, LookUpConversationEffect DEF Moves, LookUpConversation
<1>15. ASSUME NEW h \in Handlers, RereadHistory(h)
       PROVE  TypeOK'
  BY <1>15, RereadHistoryEffect DEF Moves, RereadHistory
<1>16. ASSUME NEW h \in Handlers, CacheAnswer(h)
       PROVE  TypeOK'
  <2>1. cachedHistory' = None \/ /\ cachedHistory' \in Seq(Message)
                                 /\ Len(cachedHistory') <= CacheLimit
    BY <1>16, Locals, StoredIs DEF CacheAnswer
  <2>q. QED
    BY <1>16, <2>1, CacheAnswerEffect DEF Moves, CacheAnswer
<1>17. ASSUME NEW h \in Handlers, Stop(h)
       PROVE  TypeOK'
  BY <1>17, StopEffect DEF Moves, Stop
<1>18. CASE ExpireHistory \/ ExpireContext
  BY <1>18 DEF ExpireHistory, ExpireContext
<1>19. CASE UNCHANGED vars
  BY <1>19 DEF vars
<1>q. QED
  BY <1>1, <1>2, <1>3, <1>4, <1>5, <1>6, <1>7, <1>8, <1>9, <1>10, <1>11,
     <1>12, <1>13, <1>14, <1>15, <1>16, <1>17, <1>18, <1>19
     DEF Next, TurnStep, AnswerStep

-----------------------------------------------------------------------------
(* The versions are counted *)

\* A move that produces no context counts as before.
LEMMA CountMoves ==
    ASSUME TypeOK, CountInv,
           NEW h \in Handlers, NEW r \in Handler, Moves(h, r),
           r.next = handler[h].next,
           \/ r.row = handler[h].row \/ r.row = snapshot \/ r.row = None,
           \/ r.context = handler[h].context \/ r.context = handler[h].row
           \/ r.context = cachedContext \/ r.context = EmptyContext
           \/ r.context = None,
           snapshot' = snapshot \/ snapshot' = handler[h].next,
           \/ cachedContext' = cachedContext
           \/ cachedContext' = handler[h].next \/ cachedContext' = None,
           r.pc \in Reading => r.next = None,
           r.pc \in {"readingHistory", "saving", "caching", "running"}
              => r.context # None,
           r.pc \in {"persisting", "inserting", "cachingContext"}
              => r.next # None
    PROVE  CountInv'
<1>1. Done' = Done
  BY DEF Done, Moves, Handlers
<1>2. Cardinality(Done) \in Nat /\ EmptyContext.version = 0
  BY ContextTyped, FS_Subset, FS_CardinalityType DEF Done, EmptyContext
<1>3. Counted(snapshot') /\ Counted(cachedContext')
  BY DEF CountInv, Counted
<1>4. Counted(r.row) /\ Counted(r.context) /\ Counted(r.next)
  BY <1>2 DEF CountInv, Counted
<1> HIDE DEF Done
<1>q. QED
  BY <1>1, <1>3, <1>4 DEF CountInv, Counted, Moves

\* Every step keeps the count.
LEMMA CountKept ==
    ASSUME TypeOK, CountInv, [Next]_vars
    PROVE  CountInv'
<1> USE DEF Reading
<1>0. Turns \subseteq Handlers /\ Resumes \subseteq Handlers
  BY DEF Handlers
<1>a. \A h \in Handlers :
         /\ handler[h].pc \in Reading => handler[h].next = None
         /\ handler[h].pc \in {"readingHistory", "saving", "caching",
                               "running"} => handler[h].context # None
         /\ handler[h].pc \in {"persisting", "inserting", "cachingContext"}
               => handler[h].next # None
  BY DEF CountInv
<1>1. ASSUME NEW t \in Turns, Begin(t)
      PROVE  CountInv'
  BY <1>0, <1>a, <1>1, BeginEffect, CountMoves DEF Begin
<1>2. ASSUME NEW t \in Turns, ReadContext(t)
      PROVE  CountInv'
  BY <1>0, <1>a, <1>2, ReadContextEffect, CountMoves, ContextTyped
     DEF ReadContext
<1>3. ASSUME NEW t \in Turns, ReadHistory(t)
      PROVE  CountInv'
  BY <1>0, <1>a, <1>3, ReadHistoryEffect, CountMoves DEF ReadHistory
<1>4. ASSUME NEW t \in Turns, SaveUserMessage(t)
      PROVE  CountInv'
  <2>1. PICK r \in Handler :
           /\ Moves(t, r) /\ r.pc = "caching" /\ r.row = handler[t].row
           /\ r.context = handler[t].context /\ r.next = handler[t].next
    BY <1>4, SaveUserMessageEffect
  <2>2. /\ handler[t].pc = "saving"
        /\ UNCHANGED <<snapshot, cachedContext>>
    BY <1>4 DEF SaveUserMessage
  <2>q. QED
    BY <1>0, <1>a, <2>1, <2>2, CountMoves
<1>5. ASSUME NEW t \in Turns, CacheUserMessage(t)
      PROVE  CountInv'
  BY <1>0, <1>a, <1>5, CacheUserMessageEffect, CountMoves DEF CacheUserMessage
<1>6. ASSUME NEW t \in Turns, GraphReturns(t)
      PROVE  CountInv'
  <2>1. PICK r \in Handler :
           /\ Moves(t, r) /\ r.pc = "persisting"
           /\ r.row = handler[t].row /\ r.context = None
           /\ r.next \in Context
           /\ r.next.version <= handler[t].context.version + 1
    <3>1. handler[t].context.version \in Nat
      BY <1>6, RoomForOne, ContextTyped DEF GraphReturns
    <3>q. QED
      BY <1>6, <3>1, GraphReturnsEffect
  <2>2. Done' = Done \cup {t}
    BY <1>0, <2>1, ContextTyped DEF Done, Moves
  <2>3. /\ Cardinality(Done) \in Nat
        /\ Cardinality(Done') = Cardinality(Done) + 1
        /\ handler[t].context.version <= Cardinality(Done)
        /\ handler[t].context.version \in Nat
    BY <1>6, <2>2, RoomForOne, ContextTyped DEF GraphReturns
  <2>4. r.next.version \in Nat /\ r.next.version <= Cardinality(Done')
    BY <2>1, <2>3, ContextTyped
  <2>5. \A c \in Context : c.version <= Cardinality(Done)
                              => c.version <= Cardinality(Done')
    BY <2>3, ContextTyped
  <2>6. UNCHANGED <<snapshot, cachedContext>>
    BY <1>6 DEF GraphReturns
  <2> HIDE DEF Done
  <2>7. /\ Counted(snapshot)' /\ Counted(cachedContext)'
    BY <2>5, <2>6 DEF CountInv, Counted, TypeOK
  <2>8. ASSUME NEW g \in Handlers
        PROVE  /\ \A c \in {handler'[g].row, handler'[g].context,
                            handler'[g].next} :
                     c # None => c.version <= Cardinality(Done')
               /\ handler'[g].pc \in Reading => handler'[g].next = None
               /\ handler'[g].pc \in {"readingHistory", "saving", "caching",
                     "running"} => handler'[g].context # None
               /\ handler'[g].pc \in {"persisting", "inserting",
                     "cachingContext"} => handler'[g].next # None
    <3>1. CASE g = t
      BY <1>0, <2>1, <2>4, <2>5, <3>1, Locals, ContextTyped
         DEF CountInv, Counted, Moves
    <3>2. CASE g # t
      BY <1>0, <2>1, <2>5, <3>2, Locals DEF CountInv, Counted, Moves
    <3>q. QED
      BY <3>1, <3>2
  <2>q. QED
    BY <2>7, <2>8 DEF CountInv, Counted
<1>7. ASSUME NEW t \in Turns, GraphFails(t)
      PROVE  CountInv'
  BY <1>0, <1>a, <1>7, GraphFailsEffect, CountMoves DEF GraphFails
<1>8. ASSUME NEW t \in Turns, PersistOutcome(t)
      PROVE  CountInv'
  BY <1>0, <1>a, <1>8, PersistOutcomeEffect, OutcomeIs, CountMoves
<1>9. ASSUME NEW t \in Turns, FindNoSnapshot(t)
      PROVE  CountInv'
  BY <1>0, <1>a, <1>9, FindNoSnapshotEffect, CountMoves DEF FindNoSnapshot
<1>10. ASSUME NEW t \in Turns, InsertSnapshot(t)
       PROVE  CountInv'
  BY <1>0, <1>a, <1>10, InsertSnapshotEffect, OutcomeIs, CountMoves
<1>11. ASSUME NEW t \in Turns, InsertConflicts(t)
       PROVE  CountInv'
  BY <1>0, <1>a, <1>11, InsertConflictsEffect, CountMoves DEF InsertConflicts
<1>12. ASSUME NEW t \in Turns, CacheContext(t)
       PROVE  CountInv'
  BY <1>0, <1>a, <1>12, CacheContextEffect, CountMoves
     DEF CacheContext, StoreContext
<1>13. ASSUME NEW h \in Resumes, SettleReview(h)
       PROVE  CountInv'
  BY <1>0, <1>a, <1>13, SettleReviewEffect, CountMoves DEF SettleReview
<1>14. ASSUME NEW h \in Handlers, LookUpConversation(h)
       PROVE  CountInv'
  BY <1>a, <1>14, LookUpConversationEffect, CountMoves DEF LookUpConversation
<1>15. ASSUME NEW h \in Handlers, RereadHistory(h)
       PROVE  CountInv'
  BY <1>a, <1>15, RereadHistoryEffect, CountMoves DEF RereadHistory
<1>16. ASSUME NEW h \in Handlers, CacheAnswer(h)
       PROVE  CountInv'
  BY <1>a, <1>16, CacheAnswerEffect, CountMoves DEF CacheAnswer
<1>17. ASSUME NEW h \in Handlers, Stop(h)
       PROVE  CountInv'
  BY <1>a, <1>17, StopEffect, CountMoves DEF Stop
<1>18. CASE ExpireHistory \/ ExpireContext
  BY <1>18 DEF ExpireHistory, ExpireContext, CountInv, Counted, Done
<1>19. CASE UNCHANGED vars
  BY <1>19 DEF vars, CountInv, Counted, Done
<1>q. QED
  BY <1>1, <1>2, <1>3, <1>4, <1>5, <1>6, <1>7, <1>8, <1>9, <1>10, <1>11,
     <1>12, <1>13, <1>14, <1>15, <1>16, <1>17, <1>18, <1>19
     DEF Next, TurnStep, AnswerStep

-----------------------------------------------------------------------------
(* What handlers and Redis hold is committed *)

\* The last messages of a list are messages of the list.
LEMMA RangeOfLast ==
    ASSUME NEW S, NEW s \in Seq(S), NEW n \in Nat
    PROVE  Range(LastOf(s, n)) \subseteq Range(s)
<1> DEFINE skip == IF Len(s) > n THEN Len(s) - n ELSE 0
<1>1. /\ LastOf(s, n) \in Seq(S)
      /\ Len(LastOf(s, n)) = Len(s) - skip
      /\ \A i \in 1..Len(LastOf(s, n)) : LastOf(s, n)[i] = s[i + skip]
      /\ skip \in Nat /\ Len(s) \in Nat
  <2>1. Len(s) \in Nat
    BY LenProperties
  <2>2. (IF Len(s) > n THEN n ELSE Len(s)) = Len(s) - skip /\ skip \in Nat
    BY <2>1
  <2>q. QED
    BY <2>1, <2>2, LastOfTyped
<1>2. Range(LastOf(s, n)) = {LastOf(s, n)[i] : i \in 1..Len(LastOf(s, n))}
      /\ Range(s) = {s[i] : i \in 1..Len(s)}
  BY <1>1, RangeIs
<1> HIDE DEF skip
<1>3. \A i \in 1..Len(LastOf(s, n)) : i + skip \in 1..Len(s)
  BY <1>1
<1>q. QED
  BY <1>1, <1>2, <1>3

\* The listing only grows.
LEMMA ListingGrows ==
    ASSUME TypeOK, NEW m \in Message,
           messages' = messages \/ messages' = Append(messages, m)
    PROVE  /\ Range(messages) \subseteq Range(messages')
           /\ Range(messages') \subseteq Range(messages) \cup {m}
           /\ messages' = Append(messages, m) => m \in Range(messages')
<1>1. messages \in Seq(Message)
  BY DEF TypeOK
<1>2. Range(Append(messages, m)) = Range(messages) \cup {m}
  BY <1>1, RangeOfAppend
<1>q. QED
  BY <1>2

\* A move that keeps to the committed messages.
LEMMA CommitMoves ==
    ASSUME CommitInv, NEW h \in Handlers, NEW r \in Handler, Moves(h, r),
           Range(messages) \subseteq Range(messages'),
           Range(r.view) \subseteq Range(messages'),
           Range(r.history) \subseteq Range(messages'),
           cachedHistory' # None
              => Range(cachedHistory') \subseteq Range(messages'),
           r.pc = "caching" => Said(h, "user") \in Range(messages'),
           r.pc \in {"looking", "rereading"}
              => Said(h, "assistant") \in Range(messages'),
           r.pc = "cachingContext" /\ r.answers
              => Said(h, "assistant") \in Range(messages')
    PROVE  CommitInv'
<1>1. \A g \in Handlers :
         /\ Range(handler'[g].view) \subseteq Range(messages')
         /\ Range(handler'[g].history) \subseteq Range(messages')
         /\ handler'[g].pc = "caching" => Said(g, "user") \in Range(messages')
         /\ handler'[g].pc \in {"looking", "rereading"}
               => Said(g, "assistant") \in Range(messages')
         /\ handler'[g].pc = "cachingContext" /\ handler'[g].answers
               => Said(g, "assistant") \in Range(messages')
  <2> TAKE g \in Handlers
  <2>1. CASE g = h
    BY <2>1 DEF Moves
  <2>2. CASE g # h
    <3>1. /\ Range(handler[g].view) \subseteq Range(messages)
          /\ Range(handler[g].history) \subseteq Range(messages)
          /\ handler[g].pc = "caching" => Said(g, "user") \in Range(messages)
          /\ handler[g].pc \in {"looking", "rereading"}
                => Said(g, "assistant") \in Range(messages)
          /\ handler[g].pc = "cachingContext" /\ handler[g].answers
                => Said(g, "assistant") \in Range(messages)
      BY DEF CommitInv, Committed, HistoryIsCommitted, Histories
    <3>2. handler'[g] = handler[g]
      BY <2>2 DEF Moves
    <3>q. QED
      BY <3>1, <3>2
  <2>q. QED
    BY <2>1, <2>2
<1>2. HistoryIsCommitted'
  BY <1>1 DEF HistoryIsCommitted, Histories
<1>q. QED
  BY <1>1, <1>2 DEF CommitInv, Committed

\* What is held before a step is committed.
LEMMA HeldIsCommitted ==
    ASSUME CommitInv, NEW h \in Handlers
    PROVE  /\ Range(handler[h].view) \subseteq Range(messages)
           /\ Range(handler[h].history) \subseteq Range(messages)
           /\ cachedHistory # None
                => Range(cachedHistory) \subseteq Range(messages)
           /\ handler[h].pc = "caching" => Said(h, "user") \in Range(messages)
           /\ handler[h].pc \in {"looking", "rereading"}
                => Said(h, "assistant") \in Range(messages)
           /\ handler[h].pc = "cachingContext" /\ handler[h].answers
                => Said(h, "assistant") \in Range(messages)
BY DEF CommitInv, Committed, HistoryIsCommitted, Histories

\* Every step keeps to the committed messages.
LEMMA CommitKept ==
    ASSUME TypeOK, CountInv, CommitInv, [Next]_vars
    PROVE  CommitInv'
<1>0. Turns \subseteq Handlers /\ Resumes \subseteq Handlers
  BY DEF Handlers
<1>1. ASSUME NEW t \in Turns, Begin(t)
      PROVE  CommitInv'
  BY <1>0, <1>1, BeginEffect, CommitMoves, HeldIsCommitted DEF Begin
<1>2. ASSUME NEW t \in Turns, ReadContext(t)
      PROVE  CommitInv'
  BY <1>0, <1>2, ReadContextEffect, CommitMoves, HeldIsCommitted
     DEF ReadContext
<1>3. ASSUME NEW t \in Turns, ReadHistory(t)
      PROVE  CommitInv'
  <2>1. PICK r \in Handler :
           /\ Moves(t, r) /\ r.pc = "saving" /\ r.view = <<>>
           /\ \/ r.history = handler[t].view
              \/ cachedHistory # None /\ r.history = cachedHistory
    BY <1>3, ReadHistoryEffect
  <2>2. UNCHANGED <<messages, cachedHistory>>
    BY <1>3 DEF ReadHistory
  <2>q. QED
    BY <1>0, <2>1, <2>2, CommitMoves, HeldIsCommitted, RangeOfEmpty
<1>4. ASSUME NEW t \in Turns, SaveUserMessage(t)
      PROVE  CommitInv'
  <2>1. PICK r \in Handler :
           /\ Moves(t, r) /\ r.pc = "caching" /\ r.view = handler[t].view
           /\ r.history = handler[t].history
    BY <1>4, SaveUserMessageEffect
  <2>2. /\ Range(messages) \subseteq Range(messages')
        /\ Said(t, "user") \in Range(messages')
        /\ UNCHANGED cachedHistory
    BY <1>0, <1>4, Messages, ListingGrows DEF SaveUserMessage
  <2>q. QED
    BY <1>0, <2>1, <2>2, CommitMoves, HeldIsCommitted
<1>5. ASSUME NEW t \in Turns, CacheUserMessage(t)
      PROVE  CommitInv'
  <2>1. PICK r \in Handler :
           /\ Moves(t, r) /\ r.pc = "running" /\ r.view = handler[t].view
           /\ r.history = handler[t].history
    BY <1>5, CacheUserMessageEffect
  <2>2. /\ handler[t].pc = "caching" /\ UNCHANGED messages
        /\ StoreHistory(Append(handler[t].history, Said(t, "user")))
    BY <1>5 DEF CacheUserMessage
  <2>3. /\ Append(handler[t].history, Said(t, "user")) \in Seq(Message)
        /\ Range(Append(handler[t].history, Said(t, "user"))) =
              Range(handler[t].history) \cup {Said(t, "user")}
    BY <1>0, Locals, Messages, RangeOfAppend
  <2>4. Range(LastOf(Append(handler[t].history, Said(t, "user")), CacheLimit))
           \subseteq Range(messages)
    <3>1. Range(LastOf(Append(handler[t].history, Said(t, "user")), CacheLimit))
             \subseteq Range(Append(handler[t].history, Said(t, "user")))
      BY <2>3, RangeOfLast, ConstantsAssumption
    <3>2. /\ Range(handler[t].history) \subseteq Range(messages)
          /\ Said(t, "user") \in Range(messages)
      BY <1>0, <2>2, HeldIsCommitted
    <3>q. QED
      BY <2>3, <3>1, <3>2
  <2>5. cachedHistory' # None
           => Range(cachedHistory') \subseteq Range(messages)
    BY <1>0, <2>2, <2>3, <2>4, StoredIs, HeldIsCommitted
  <2>q. QED
    BY <1>0, <2>1, <2>2, <2>5, CommitMoves, HeldIsCommitted
<1>6. ASSUME NEW t \in Turns, GraphReturns(t)
      PROVE  CommitInv'
  <2>1. PICK r \in Handler :
           /\ Moves(t, r) /\ r.pc = "persisting" /\ r.view = handler[t].view
           /\ r.history = <<>>
    BY <1>6, GraphReturnsEffect
  <2>2. UNCHANGED <<messages, cachedHistory>>
    BY <1>6 DEF GraphReturns
  <2>q. QED
    BY <1>0, <2>1, <2>2, CommitMoves, HeldIsCommitted, RangeOfEmpty
<1>7. ASSUME NEW t \in Turns, GraphFails(t)
      PROVE  CommitInv'
  BY <1>0, <1>7, GraphFailsEffect, CommitMoves, HeldIsCommitted, RangeOfEmpty
     DEF GraphFails
<1>8. ASSUME NEW t \in Turns, NEW r \in Handler,
             PersistOutcome(t) \/ InsertSnapshot(t),
             Moves(t, r), r.pc = "cachingContext",
             r.answers = handler[t].answers,
             r.view = handler[t].view, r.history = handler[t].history
      PROVE  CommitInv'
  <2>1. /\ Range(messages) \subseteq Range(messages')
        /\ r.answers => Said(t, "assistant") \in Range(messages')
        /\ UNCHANGED cachedHistory
    BY <1>0, <1>8, OutcomeIs, ListingGrows, Messages
  <2>q. QED
    BY <1>0, <1>8, <2>1, CommitMoves, HeldIsCommitted
<1>9. ASSUME NEW t \in Turns, FindNoSnapshot(t)
      PROVE  CommitInv'
  BY <1>0, <1>9, FindNoSnapshotEffect, CommitMoves, HeldIsCommitted
     DEF FindNoSnapshot
<1>10. ASSUME NEW t \in Turns, PersistOutcome(t) \/ InsertSnapshot(t)
       PROVE  CommitInv'
  BY <1>8, <1>10, PersistOutcomeEffect, InsertSnapshotEffect
<1>11. ASSUME NEW t \in Turns, InsertConflicts(t)
       PROVE  CommitInv'
  BY <1>0, <1>11, InsertConflictsEffect, CommitMoves, HeldIsCommitted
     DEF InsertConflicts
<1>12. ASSUME NEW t \in Turns, CacheContext(t)
       PROVE  CommitInv'
  <2>1. PICK r \in Handler :
           /\ Moves(t, r) /\ r.view = handler[t].view
           /\ r.pc = IF handler[t].answers THEN "looking" ELSE "closed"
           /\ r.history = handler[t].history
    BY <1>12, CacheContextEffect
  <2>2. /\ handler[t].pc = "cachingContext"
        /\ UNCHANGED <<messages, cachedHistory>>
    BY <1>12 DEF CacheContext
  <2>3. handler[t].answers => Said(t, "assistant") \in Range(messages)
    BY <1>0, <2>2, HeldIsCommitted
  <2>q. QED
    BY <1>0, <2>1, <2>2, <2>3, CommitMoves, HeldIsCommitted
<1>13. ASSUME NEW h \in Resumes, SettleReview(h)
       PROVE  CommitInv'
  <2>1. PICK r \in Handler :
           /\ Moves(h, r) /\ r.pc = "looking" /\ r.view = handler[h].view
           /\ r.history = handler[h].history
    BY <1>13, SettleReviewEffect
  <2>2. /\ Range(messages) \subseteq Range(messages')
        /\ Said(h, "assistant") \in Range(messages')
        /\ UNCHANGED cachedHistory
    BY <1>0, <1>13, Messages, ListingGrows DEF SettleReview
  <2>q. QED
    BY <1>0, <2>1, <2>2, CommitMoves, HeldIsCommitted
<1>14. ASSUME NEW h \in Handlers, LookUpConversation(h)
       PROVE  CommitInv'
  BY <1>14, LookUpConversationEffect, CommitMoves, HeldIsCommitted
     DEF LookUpConversation
<1>15. ASSUME NEW h \in Handlers, RereadHistory(h)
       PROVE  CommitInv'
  <2>1. PICK r \in Handler :
           /\ Moves(h, r) /\ r.pc = "cachingAnswer" /\ r.view = <<>>
           /\ \/ r.history = handler[h].view
              \/ /\ cachedHistory # None
                 /\ r.history = Append(cachedHistory, Said(h, "assistant"))
    BY <1>15, RereadHistoryEffect
  <2>2. /\ handler[h].pc = "rereading"
        /\ UNCHANGED <<messages, cachedHistory>>
    BY <1>15 DEF RereadHistory
  <2>3. cachedHistory # None =>
           Range(Append(cachedHistory, Said(h, "assistant"))) =
              Range(cachedHistory) \cup {Said(h, "assistant")}
    BY Messages, RangeOfAppend DEF TypeOK
  <2>4. Range(r.history) \subseteq Range(messages)
    BY <2>1, <2>2, <2>3, HeldIsCommitted
  <2>q. QED
    BY <2>1, <2>2, <2>4, CommitMoves, HeldIsCommitted, RangeOfEmpty
<1>16. ASSUME NEW h \in Handlers, CacheAnswer(h)
       PROVE  CommitInv'
  <2>1. PICK r \in Handler :
           /\ Moves(h, r) /\ r.pc = "closed" /\ r.view = handler[h].view
           /\ r.history = <<>>
    BY <1>16, CacheAnswerEffect
  <2>2. StoreHistory(handler[h].history) /\ UNCHANGED messages
    BY <1>16 DEF CacheAnswer
  <2>3. Range(LastOf(handler[h].history, CacheLimit)) \subseteq Range(messages)
    BY Locals, RangeOfLast, HeldIsCommitted, ConstantsAssumption
  <2>4. cachedHistory' # None
           => Range(cachedHistory') \subseteq Range(messages)
    BY <2>2, <2>3, Locals, StoredIs, HeldIsCommitted
  <2>q. QED
    BY <2>1, <2>2, <2>4, CommitMoves, HeldIsCommitted, RangeOfEmpty
<1>17. ASSUME NEW h \in Handlers, Stop(h)
       PROVE  CommitInv'
  BY <1>17, StopEffect, CommitMoves, HeldIsCommitted DEF Stop
<1>18. CASE ExpireHistory
  BY <1>18 DEF ExpireHistory, CommitInv, Committed, HistoryIsCommitted,
               Histories
<1>19. CASE ExpireContext \/ UNCHANGED vars
  BY <1>19 DEF ExpireContext, vars, CommitInv, Committed, HistoryIsCommitted,
               Histories
<1>q. QED
  BY <1>1, <1>2, <1>3, <1>4, <1>5, <1>6, <1>7, <1>9, <1>10, <1>11, <1>12,
     <1>13, <1>14, <1>15, <1>16, <1>17, <1>18, <1>19
     DEF Next, TurnStep, AnswerStep

-----------------------------------------------------------------------------
(* Questions come before their answers *)

\* A question may be appended as long as its answer is not there; an answer
\* may always be appended.
LEMMA OrderedAppend ==
    ASSUME NEW s \in Seq(Message), Ordered(s), NEW h \in Handlers,
           NEW role \in {"user", "assistant"},
           role = "user" => Said(h, "assistant") \notin Range(s)
    PROVE  Ordered(Append(s, Said(h, role)))
<1> DEFINE e == Append(s, Said(h, role))
<1>1. /\ Said(h, role) \in Message
      /\ \A m \in Message : m.from = h /\ m.role = "assistant"
                               => m = Said(h, "assistant")
  BY DEF Message, Said
<1>2. /\ Len(s) \in Nat /\ DOMAIN s = 1..Len(s) /\ DOMAIN e = 1..(Len(s) + 1)
      /\ \A i \in 1..Len(s) : e[i] = s[i] /\ s[i] \in Message
                              /\ s[i] \in Range(s)
      /\ e[Len(s) + 1] = Said(h, role)
  BY <1>1, RangeIs, AppendProperties, LenProperties, ElementOfSeq
<1> HIDE DEF e
<1>3. SUFFICES ASSUME NEW i \in DOMAIN e, NEW j \in DOMAIN e,
                      e[i].from = e[j].from, e[i].role = "assistant",
                      e[j].role = "user", ~(j < i)
               PROVE  FALSE
  BY DEF Ordered, e
<1>4. i # j
  BY <1>3
<1>5. i \in 1..Len(s)
  BY <1>2, <1>3, <1>4
<1>6. CASE j \in 1..Len(s)
  BY <1>2, <1>3, <1>5, <1>6 DEF Ordered
<1>7. CASE j = Len(s) + 1
  <2>1. role = "user" /\ e[i].from = h
    BY <1>2, <1>3, <1>7 DEF Said
  <2>2. s[i] = Said(h, "assistant") /\ s[i] \in Range(s)
    BY <1>1, <1>2, <1>3, <1>5, <2>1
  <2>q. QED
    BY <2>1, <2>2
<1>q. QED
  BY <1>2, <1>6, <1>7

\* The last messages of an ordered list are ordered.
LEMMA OrderedLast ==
    ASSUME NEW s \in Seq(Message), Ordered(s), NEW n \in Nat
    PROVE  Ordered(LastOf(s, n))
<1> DEFINE skip == IF Len(s) > n THEN Len(s) - n ELSE 0
           e == LastOf(s, n)
<1>1. /\ Len(s) \in Nat /\ skip \in Nat /\ Len(e) = Len(s) - skip
      /\ e \in Seq(Message) /\ \A i \in 1..Len(e) : e[i] = s[i + skip]
  <2>1. Len(s) \in Nat
    BY LenProperties
  <2>2. (IF Len(s) > n THEN n ELSE Len(s)) = Len(s) - skip /\ skip \in Nat
    BY <2>1
  <2>q. QED
    BY <2>1, <2>2, LastOfTyped
<1>2. DOMAIN s = 1..Len(s) /\ DOMAIN e = 1..Len(e)
  BY <1>1, RangeIs
<1> HIDE DEF skip, e
<1>3. SUFFICES ASSUME NEW i \in DOMAIN e, NEW j \in DOMAIN e,
                      e[i].from = e[j].from, e[i].role = "assistant",
                      e[j].role = "user"
               PROVE  j < i
  BY DEF Ordered, e
<1>4. i + skip \in DOMAIN s /\ j + skip \in DOMAIN s
  BY <1>1, <1>2, <1>3
<1>5. e[i] = s[i + skip] /\ e[j] = s[j + skip]
  BY <1>1, <1>2, <1>3
<1>6. j + skip < i + skip
  BY <1>3, <1>4, <1>5 DEF Ordered
<1>q. QED
  BY <1>1, <1>2, <1>3, <1>6

LEMMA OrderedEmpty == Ordered(<<>>)
BY RangeOfEmpty DEF Ordered

\* What is held before a step is ordered.
LEMMA HeldIsOrdered ==
    ASSUME OrderInv, NEW h \in Handlers
    PROVE  /\ Ordered(messages)
           /\ Ordered(handler[h].view) /\ Ordered(handler[h].history)
           /\ cachedHistory # None => Ordered(cachedHistory)
           /\ h \in Turns /\ handler[h].pc \in Unanswered
                => Said(h, "assistant") \notin Range(messages)
BY DEF OrderInv, QuestionFirst, Histories, Ordered

\* A move that keeps the order; only the mover may have answered.
LEMMA OrderMoves ==
    ASSUME TypeOK, OrderInv,
           NEW h \in Handlers, NEW r \in Handler, Moves(h, r),
           Ordered(messages'), Ordered(r.view), Ordered(r.history),
           cachedHistory' # None => Ordered(cachedHistory'),
           \/ messages' = messages
           \/ messages' = Append(messages, Said(h, "user"))
           \/ r.pc \notin Unanswered
              /\ messages' = Append(messages, Said(h, "assistant")),
           r.pc \in Unanswered => handler[h].pc \in Unanswered
    PROVE  OrderInv'
<1>1. \A g \in Handlers : Ordered(handler'[g].view)
                          /\ Ordered(handler'[g].history)
  <2> TAKE g \in Handlers
  <2>1. Ordered(handler[g].view) /\ Ordered(handler[g].history)
    BY HeldIsOrdered
  <2>q. QED
    BY <2>1 DEF Moves
<1>2. QuestionFirst'
  BY <1>1 DEF QuestionFirst, Histories, Ordered
<1>3. ASSUME NEW t \in Turns, handler'[t].pc \in Unanswered
      PROVE  Said(t, "assistant") \notin Range(messages')
  <2>1. t \in Handlers
    BY DEF Handlers
  <2>2. handler[t].pc \in Unanswered
    BY <1>3, <2>1 DEF Moves
  <2>3. Said(t, "assistant") \notin Range(messages)
    BY <2>1, <2>2, HeldIsOrdered
  <2>4. CASE messages' = messages
    BY <2>3, <2>4
  <2>5. CASE messages' = Append(messages, Said(h, "user"))
    <3>1. Range(messages') \subseteq Range(messages) \cup {Said(h, "user")}
      BY <2>5, ListingGrows, Messages
    <3>2. Said(t, "assistant") # Said(h, "user")
      BY DEF Said
    <3>q. QED
      BY <2>3, <3>1, <3>2
  <2>6. CASE r.pc \notin Unanswered
             /\ messages' = Append(messages, Said(h, "assistant"))
    <3>1. Range(messages') \subseteq Range(messages) \cup {Said(h, "assistant")}
      BY <2>6, ListingGrows, Messages
    <3>2. t # h
      BY <1>3, <2>6 DEF Moves
    <3>3. Said(t, "assistant") # Said(h, "assistant")
      BY <3>2 DEF Said
    <3>q. QED
      BY <2>3, <3>1, <3>3
  <2>q. QED
    BY <2>4, <2>5, <2>6
<1>q. QED
  BY <1>1, <1>2, <1>3 DEF OrderInv

\* Every step keeps the order.
LEMMA OrderKept ==
    ASSUME TypeOK, CountInv, CommitInv, OrderInv, [Next]_vars
    PROVE  OrderInv'
<1>0. Turns \subseteq Handlers /\ Resumes \subseteq Handlers
  BY DEF Handlers
<1>a. CacheLimit \in Nat
  BY ConstantsAssumption
<1>p. /\ "readingContext" \in Unanswered /\ "readingHistory" \in Unanswered
      /\ "saving" \in Unanswered /\ "caching" \in Unanswered
      /\ "running" \in Unanswered /\ "persisting" \in Unanswered
      /\ "inserting" \in Unanswered /\ "idle" \in Unanswered
      /\ "cachingContext" \notin Unanswered /\ "looking" \notin Unanswered
      /\ "rereading" \notin Unanswered /\ "cachingAnswer" \notin Unanswered
      /\ "closed" \notin Unanswered /\ "failed" \notin Unanswered
  BY DEF Unanswered, Reading
<1>1. ASSUME NEW t \in Turns, Begin(t)
      PROVE  OrderInv'
  BY <1>0, <1>p, <1>1, BeginEffect, OrderMoves, HeldIsOrdered DEF Begin
<1>2. ASSUME NEW t \in Turns, ReadContext(t)
      PROVE  OrderInv'
  BY <1>0, <1>p, <1>2, ReadContextEffect, OrderMoves, HeldIsOrdered
     DEF ReadContext
<1>3. ASSUME NEW t \in Turns, ReadHistory(t)
      PROVE  OrderInv'
  <2>1. PICK r \in Handler :
           /\ Moves(t, r) /\ r.pc = "saving" /\ r.view = <<>>
           /\ \/ r.history = handler[t].view
              \/ cachedHistory # None /\ r.history = cachedHistory
    BY <1>3, ReadHistoryEffect
  <2>2. handler[t].pc = "readingHistory"
        /\ UNCHANGED <<messages, cachedHistory>>
    BY <1>3 DEF ReadHistory
  <2>q. QED
    BY <1>0, <1>p, <2>1, <2>2, OrderMoves, HeldIsOrdered, OrderedEmpty
<1>4. ASSUME NEW t \in Turns, SaveUserMessage(t)
      PROVE  OrderInv'
  <2>1. PICK r \in Handler :
           /\ Moves(t, r) /\ r.pc = "caching" /\ r.view = handler[t].view
           /\ r.history = handler[t].history
    BY <1>4, SaveUserMessageEffect
  <2>2. /\ handler[t].pc = "saving" /\ UNCHANGED cachedHistory
        /\ messages' = Append(messages, Said(t, "user"))
    BY <1>4 DEF SaveUserMessage
  <2>3. Said(t, "assistant") \notin Range(messages) /\ Ordered(messages)
    BY <1>0, <1>p, <2>2, HeldIsOrdered
  <2>4. Ordered(messages')
    BY <1>0, <2>2, <2>3, OrderedAppend DEF TypeOK
  <2>q. QED
    BY <1>0, <1>p, <2>1, <2>2, <2>4, OrderMoves, HeldIsOrdered
<1>5. ASSUME NEW t \in Turns, CacheUserMessage(t)
      PROVE  OrderInv'
  <2> DEFINE asked == Append(handler[t].history, Said(t, "user"))
  <2>1. PICK r \in Handler :
           /\ Moves(t, r) /\ r.pc = "running" /\ r.view = handler[t].view
           /\ r.history = handler[t].history
    BY <1>5, CacheUserMessageEffect
  <2>2. /\ handler[t].pc = "caching" /\ UNCHANGED messages
        /\ StoreHistory(asked)
    BY <1>5 DEF CacheUserMessage
  <2>3. Said(t, "assistant") \notin Range(handler[t].history)
    BY <1>0, <1>p, <2>2, HeldIsOrdered, HeldIsCommitted
  <2>4. asked \in Seq(Message) /\ Ordered(asked)
    BY <1>0, <2>3, Locals, Messages, AppendProperties, HeldIsOrdered,
       OrderedAppend
  <2> HIDE DEF asked
  <2>5. Ordered(LastOf(asked, CacheLimit))
    BY <1>a, <2>4, OrderedLast
  <2>6. cachedHistory' # None => Ordered(cachedHistory')
    BY <1>0, <2>2, <2>4, <2>5, StoredIs, HeldIsOrdered
  <2>q. QED
    BY <1>0, <1>p, <2>1, <2>2, <2>6, OrderMoves, HeldIsOrdered
<1>6. ASSUME NEW t \in Turns, GraphReturns(t)
      PROVE  OrderInv'
  <2>1. PICK r \in Handler :
           /\ Moves(t, r) /\ r.pc = "persisting" /\ r.view = handler[t].view
           /\ r.history = <<>>
    BY <1>6, GraphReturnsEffect
  <2>2. handler[t].pc = "running" /\ UNCHANGED <<messages, cachedHistory>>
    BY <1>6 DEF GraphReturns
  <2>q. QED
    BY <1>0, <1>p, <2>1, <2>2, OrderMoves, HeldIsOrdered, OrderedEmpty
<1>7. ASSUME NEW t \in Turns, GraphFails(t)
      PROVE  OrderInv'
  BY <1>0, <1>p, <1>7, GraphFailsEffect, OrderMoves, HeldIsOrdered,
     OrderedEmpty DEF GraphFails
<1>8. ASSUME NEW t \in Turns, NEW r \in Handler,
             PersistOutcome(t) \/ InsertSnapshot(t),
             Moves(t, r), r.pc = "cachingContext",
             r.view = handler[t].view, r.history = handler[t].history
      PROVE  OrderInv'
  <2>1. /\ messages' = messages
             \/ messages' = Append(messages, Said(t, "assistant"))
        /\ UNCHANGED cachedHistory
    BY <1>8, OutcomeIs
  <2>2. Ordered(messages')
    BY <1>0, <2>1, HeldIsOrdered, OrderedAppend DEF TypeOK
  <2>q. QED
    BY <1>0, <1>p, <1>8, <2>1, <2>2, OrderMoves, HeldIsOrdered
<1>9. ASSUME NEW t \in Turns, FindNoSnapshot(t)
      PROVE  OrderInv'
  BY <1>0, <1>p, <1>9, FindNoSnapshotEffect, OrderMoves, HeldIsOrdered
     DEF FindNoSnapshot
<1>10. ASSUME NEW t \in Turns, PersistOutcome(t) \/ InsertSnapshot(t)
       PROVE  OrderInv'
  BY <1>8, <1>10, PersistOutcomeEffect, InsertSnapshotEffect
<1>11. ASSUME NEW t \in Turns, InsertConflicts(t)
       PROVE  OrderInv'
  BY <1>0, <1>p, <1>11, InsertConflictsEffect, OrderMoves, HeldIsOrdered
     DEF InsertConflicts
<1>12. ASSUME NEW t \in Turns, CacheContext(t)
       PROVE  OrderInv'
  BY <1>0, <1>p, <1>12, CacheContextEffect, OrderMoves, HeldIsOrdered
     DEF CacheContext
<1>13. ASSUME NEW h \in Resumes, SettleReview(h)
       PROVE  OrderInv'
  <2>1. PICK r \in Handler :
           /\ Moves(h, r) /\ r.pc = "looking" /\ r.view = handler[h].view
           /\ r.history = handler[h].history
    BY <1>13, SettleReviewEffect
  <2>2. messages' = Append(messages, Said(h, "assistant"))
        /\ UNCHANGED cachedHistory
    BY <1>13 DEF SettleReview
  <2>3. Ordered(messages')
    BY <1>0, <2>2, HeldIsOrdered, OrderedAppend DEF TypeOK
  <2>q. QED
    BY <1>0, <1>p, <2>1, <2>2, <2>3, OrderMoves, HeldIsOrdered
<1>14. ASSUME NEW h \in Handlers, LookUpConversation(h)
       PROVE  OrderInv'
  BY <1>p, <1>14, LookUpConversationEffect, OrderMoves, HeldIsOrdered
     DEF LookUpConversation
<1>15. ASSUME NEW h \in Handlers, RereadHistory(h)
       PROVE  OrderInv'
  <2>1. PICK r \in Handler :
           /\ Moves(h, r) /\ r.pc = "cachingAnswer" /\ r.view = <<>>
           /\ \/ r.history = handler[h].view
              \/ /\ cachedHistory # None
                 /\ r.history = Append(cachedHistory, Said(h, "assistant"))
    BY <1>15, RereadHistoryEffect
  <2>2. UNCHANGED <<messages, cachedHistory>>
    BY <1>15 DEF RereadHistory
  <2>3. Ordered(r.history)
    BY <2>1, HeldIsOrdered, OrderedAppend DEF TypeOK
  <2>q. QED
    BY <1>p, <2>1, <2>2, <2>3, OrderMoves, HeldIsOrdered, OrderedEmpty
<1>16. ASSUME NEW h \in Handlers, CacheAnswer(h)
       PROVE  OrderInv'
  <2>1. PICK r \in Handler :
           /\ Moves(h, r) /\ r.pc = "closed" /\ r.view = handler[h].view
           /\ r.history = <<>>
    BY <1>16, CacheAnswerEffect
  <2>2. StoreHistory(handler[h].history) /\ UNCHANGED messages
    BY <1>16 DEF CacheAnswer
  <2>3. Ordered(LastOf(handler[h].history, CacheLimit))
    BY <1>a, Locals, OrderedLast, HeldIsOrdered
  <2>4. cachedHistory' # None => Ordered(cachedHistory')
    BY <2>2, <2>3, Locals, StoredIs, HeldIsOrdered
  <2>q. QED
    BY <1>p, <2>1, <2>2, <2>4, OrderMoves, HeldIsOrdered, OrderedEmpty
<1>17. ASSUME NEW h \in Handlers, Stop(h)
       PROVE  OrderInv'
  BY <1>p, <1>17, StopEffect, OrderMoves, HeldIsOrdered DEF Stop
<1>18. CASE ExpireHistory
  BY <1>18 DEF ExpireHistory, OrderInv, QuestionFirst, Histories, Ordered
<1>19. CASE ExpireContext \/ UNCHANGED vars
  BY <1>19 DEF ExpireContext, vars, OrderInv, QuestionFirst, Histories,
               Ordered
<1>q. QED
  BY <1>1, <1>2, <1>3, <1>4, <1>5, <1>6, <1>7, <1>9, <1>10, <1>11, <1>12,
     <1>13, <1>14, <1>15, <1>16, <1>17, <1>18, <1>19
     DEF Next, TurnStep, AnswerStep

-----------------------------------------------------------------------------
(* The copy of the context is not ahead of the snapshot *)

\* A step may only raise the version of the snapshot.
SnapshotRises ==
    snapshot # None => snapshot' # None /\ snapshot'.version >= snapshot.version

\* A move behind which the copy is not ahead.
LEMMA VersionMoves ==
    ASSUME TypeOK, VersionInv, SnapshotRises, snapshot' \in Context \cup {None},
           NEW h \in Handlers, NEW r \in Handler, Moves(h, r),
           \/ cachedContext' = cachedContext \/ cachedContext' = None
           \/ cachedContext' = handler[h].next
              /\ handler[h].pc = "cachingContext",
           r.pc = "cachingContext" =>
              r.next \in Context
              /\ snapshot' # None /\ r.next.version <= snapshot'.version
    PROVE  VersionInv'
<1>1. ASSUME NEW c \in Context, snapshot # None, c.version <= snapshot.version
      PROVE  snapshot' # None /\ c.version <= snapshot'.version
  <2>1. snapshot \in Context /\ snapshot' \in Context
    BY <1>1 DEF TypeOK, SnapshotRises
  <2>2. c.version \in Nat /\ snapshot.version \in Nat /\ snapshot'.version \in Nat
    BY <1>1, <2>1, ContextTyped
  <2>q. QED
    BY <1>1, <2>1, <2>2, ContextTyped DEF SnapshotRises
<1>2. CacheNotAhead'
  <2>1. cachedContext # None =>
           cachedContext \in Context /\ snapshot # None
           /\ cachedContext.version <= snapshot.version
    BY DEF TypeOK, VersionInv, CacheNotAhead
  <2>2. handler[h].pc = "cachingContext" /\ handler[h].next # None =>
           handler[h].next \in Context /\ snapshot # None
           /\ handler[h].next.version <= snapshot.version
    BY Locals DEF VersionInv
  <2>q. QED
    BY <1>1, <2>1, <2>2 DEF CacheNotAhead
<1>3. ASSUME NEW g \in Handlers, handler'[g].pc = "cachingContext"
      PROVE  /\ handler'[g].next # None /\ snapshot' # None
             /\ handler'[g].next.version <= snapshot'.version
  <2>1. CASE g = h
    BY <1>3, <2>1, ContextTyped DEF Moves
  <2>2. CASE g # h
    <3>1. handler'[g] = handler[g]
      BY <2>2 DEF Moves
    <3>2. handler[g].next \in Context /\ snapshot # None
          /\ handler[g].next.version <= snapshot.version
      BY <1>3, <3>1, Locals DEF VersionInv
    <3>q. QED
      BY <1>1, <3>1, <3>2, ContextTyped
  <2>q. QED
    BY <2>1, <2>2
<1>q. QED
  BY <1>2, <1>3 DEF VersionInv

\* The snapshot is only written by the commit of an outcome, and only to a
\* version that is not earlier.
LEMMA SnapshotKept ==
    ASSUME TypeOK, CountInv, [Next]_vars
    PROVE  SnapshotRises
<1>1. ASSUME NEW t \in Turns, PersistOutcome(t) \/ InsertSnapshot(t)
      PROVE  SnapshotRises
  BY <1>1, OutcomeIs, ContextTyped DEF SnapshotRises, TypeOK
<1>2. CASE UNCHANGED snapshot
  BY <1>2, ContextTyped DEF SnapshotRises, TypeOK
<1>q. QED
  BY <1>1, <1>2
     DEF Next, TurnStep, AnswerStep, vars, Begin, ReadContext, ReadHistory,
         SaveUserMessage, CacheUserMessage, GraphReturns, GraphFails,
         FindNoSnapshot, InsertConflicts, CacheContext, SettleReview,
         LookUpConversation, RereadHistory, CacheAnswer, Stop, ExpireHistory,
         ExpireContext

\* Every step keeps the copy behind the snapshot.
LEMMA VersionKept ==
    ASSUME TypeOK, CountInv, VersionInv, [Next]_vars
    PROVE  VersionInv'
<1>0. Turns \subseteq Handlers /\ Resumes \subseteq Handlers
  BY DEF Handlers
<1>a. SnapshotRises /\ snapshot' \in Context \cup {None}
  BY SnapshotKept, TypeKept DEF TypeOK
<1>1. ASSUME NEW t \in Turns, Begin(t)
      PROVE  VersionInv'
  BY <1>0, <1>a, <1>1, BeginEffect, VersionMoves DEF Begin
<1>2. ASSUME NEW t \in Turns, ReadContext(t)
      PROVE  VersionInv'
  BY <1>0, <1>a, <1>2, ReadContextEffect, VersionMoves DEF ReadContext
<1>3. ASSUME NEW t \in Turns, ReadHistory(t)
      PROVE  VersionInv'
  BY <1>0, <1>a, <1>3, ReadHistoryEffect, VersionMoves DEF ReadHistory
<1>4. ASSUME NEW t \in Turns, SaveUserMessage(t)
      PROVE  VersionInv'
  BY <1>0, <1>a, <1>4, SaveUserMessageEffect, VersionMoves DEF SaveUserMessage
<1>5. ASSUME NEW t \in Turns, CacheUserMessage(t)
      PROVE  VersionInv'
  BY <1>0, <1>a, <1>5, CacheUserMessageEffect, VersionMoves
     DEF CacheUserMessage
<1>6. ASSUME NEW t \in Turns, GraphReturns(t)
      PROVE  VersionInv'
  BY <1>0, <1>a, <1>6, GraphReturnsEffect, VersionMoves DEF GraphReturns
<1>7. ASSUME NEW t \in Turns, GraphFails(t)
      PROVE  VersionInv'
  BY <1>0, <1>a, <1>7, GraphFailsEffect, VersionMoves DEF GraphFails
<1>8. ASSUME NEW t \in Turns, NEW r \in Handler,
             PersistOutcome(t) \/ InsertSnapshot(t),
             Moves(t, r), r.pc = "cachingContext", r.next = handler[t].next
      PROVE  VersionInv'
  <2>1. /\ r.next \in Context /\ snapshot' # None
        /\ r.next.version <= snapshot'.version
        /\ UNCHANGED cachedContext
    BY <1>8, OutcomeIs, ContextTyped
  <2>q. QED
    BY <1>0, <1>a, <1>8, <2>1, VersionMoves
<1>9. ASSUME NEW t \in Turns, FindNoSnapshot(t)
      PROVE  VersionInv'
  BY <1>0, <1>a, <1>9, FindNoSnapshotEffect, VersionMoves DEF FindNoSnapshot
<1>10. ASSUME NEW t \in Turns, PersistOutcome(t) \/ InsertSnapshot(t)
       PROVE  VersionInv'
  BY <1>8, <1>10, PersistOutcomeEffect, InsertSnapshotEffect
<1>11. ASSUME NEW t \in Turns, InsertConflicts(t)
       PROVE  VersionInv'
  BY <1>0, <1>a, <1>11, InsertConflictsEffect, VersionMoves
     DEF InsertConflicts
<1>12. ASSUME NEW t \in Turns, CacheContext(t)
       PROVE  VersionInv'
  BY <1>0, <1>a, <1>12, CacheContextEffect, VersionMoves
     DEF CacheContext, StoreContext
<1>13. ASSUME NEW h \in Resumes, SettleReview(h)
       PROVE  VersionInv'
  BY <1>0, <1>a, <1>13, SettleReviewEffect, VersionMoves DEF SettleReview
<1>14. ASSUME NEW h \in Handlers, LookUpConversation(h)
       PROVE  VersionInv'
  BY <1>a, <1>14, LookUpConversationEffect, VersionMoves
     DEF LookUpConversation
<1>15. ASSUME NEW h \in Handlers, RereadHistory(h)
       PROVE  VersionInv'
  BY <1>a, <1>15, RereadHistoryEffect, VersionMoves DEF RereadHistory
<1>16. ASSUME NEW h \in Handlers, CacheAnswer(h)
       PROVE  VersionInv'
  BY <1>a, <1>16, CacheAnswerEffect, VersionMoves DEF CacheAnswer
<1>17. ASSUME NEW h \in Handlers, Stop(h)
       PROVE  VersionInv'
  BY <1>a, <1>17, StopEffect, VersionMoves DEF Stop
<1>18. CASE ExpireHistory \/ ExpireContext \/ UNCHANGED vars
  BY <1>18 DEF ExpireHistory, ExpireContext, vars, VersionInv, CacheNotAhead
<1>q. QED
  BY <1>1, <1>2, <1>3, <1>4, <1>5, <1>6, <1>7, <1>9, <1>10, <1>11, <1>12,
     <1>13, <1>14, <1>15, <1>16, <1>17, <1>18
     DEF Next, TurnStep, AnswerStep

-----------------------------------------------------------------------------
(* The theorems *)

Inv == TypeOK /\ CountInv /\ CommitInv /\ OrderInv /\ VersionInv

LEMMA InitInv == Init => Inv
<1>1. SUFFICES ASSUME Init
               PROVE  Inv
  OBVIOUS
<1>2. \A h \in Handlers :
         /\ handler[h] \in Handler
         /\ handler[h].pc = "idle" /\ handler[h].view = <<>>
         /\ handler[h].row = None /\ handler[h].history = <<>>
         /\ handler[h].context = None /\ handler[h].next = None
  BY <1>1, Messages DEF Init, Handler, Pcs
<1>3. messages = <<>> /\ snapshot = None /\ cachedHistory = None
      /\ cachedContext = None
  BY <1>1 DEF Init
<1>4. TypeOK
  BY <1>1, <1>2, <1>3, Messages DEF TypeOK, Init
<1>5. CountInv
  BY <1>2, <1>3 DEF CountInv, Counted
<1>6. CommitInv
  BY <1>2, <1>3, RangeOfEmpty DEF CommitInv, Committed, HistoryIsCommitted,
                                  Histories
<1>7. OrderInv
  BY <1>2, <1>3, RangeOfEmpty DEF OrderInv, Ordered, QuestionFirst, Histories
<1>8. VersionInv
  BY <1>2, <1>3 DEF VersionInv, CacheNotAhead
<1>q. QED
  BY <1>4, <1>5, <1>6, <1>7, <1>8 DEF Inv

LEMMA NextInv == Inv /\ [Next]_vars => Inv'
BY TypeKept, CountKept, CommitKept, OrderKept, VersionKept DEF Inv

\* The invariant holds in every behaviour.
THEOREM Invariance == Spec => []Inv
BY InitInv, NextInv, PTL DEF Spec

\* Rows, copies and locals stay typed; in particular no version outgrows the
\* number of turns, and Redis keeps no more than its limit.
THEOREM TypeCorrect == Spec => []TypeOK
<1>1. Inv => TypeOK
  BY DEF Inv
<1>q. QED
  BY <1>1, Invariance, PTL

\* No turn answers from a message MySQL does not have, with any failure of
\* Redis, any expiry and any stop, for every number of overlapping turns.
THEOREM OnlyCommittedHistory == Spec => []HistoryIsCommitted
<1>1. Inv => HistoryIsCommitted
  BY DEF Inv, CommitInv
<1>q. QED
  BY <1>1, Invariance, PTL

\* No history anywhere has an answer before its question.
THEOREM QuestionsComeFirst == Spec => []QuestionFirst
<1>1. Inv => QuestionFirst
  BY DEF Inv, OrderInv
<1>q. QED
  BY <1>1, Invariance, PTL

\* The copy of the context is never newer than the snapshot.
THEOREM ContextCopyTrails == Spec => []CacheNotAhead
<1>1. Inv => CacheNotAhead
  BY DEF Inv, VersionInv
<1>q. QED
  BY <1>1, Invariance, PTL

\* No late turn takes the snapshot back.
THEOREM SnapshotIsMonotone == Spec => SnapshotNeverBack
<1>1. Inv /\ [Next]_vars => [SnapshotRises]_vars
  BY SnapshotKept DEF Inv
<1>q. QED
  BY <1>1, Invariance, PTL DEF Spec, SnapshotNeverBack, SnapshotRises

-----------------------------------------------------------------------------
(* Turns that do not overlap *)

\* The handlers that are not at work.
Rest == {"idle", "closed", "failed"}

Fresh(list, m) == list \in {None, LastOf(m, CacheLimit)}

Heard(s, m) == s = m \/ s = LastOf(m, CacheLimit)

Ends(m, x) == m # <<>> /\ m = Append(Front(m), x)

\* The copy of the history is refreshed, or not yet extended by what r adds.
ListMatters(r) ==
    \/ r.pc \in Rest \cup {"readingContext", "readingHistory", "saving",
                           "running", "persisting", "inserting"}
    \/ r.pc = "cachingContext" /\ ~r.answers

\* The answer is committed and not cached.
AnswerUncached(r) ==
    \/ r.pc \in {"looking", "rereading"}
    \/ r.pc = "cachingContext" /\ r.answers

\* What the only handler at work, h with the locals r, holds of the rows m
\* and row, and how the copies list and copy stand to them meanwhile.
Agrees(h, r, m, row, list, copy) ==
    /\ ListMatters(r) => Fresh(list, m)
    /\ r.pc \in {"readingContext", "readingHistory", "rereading"} => r.view = m
    /\ r.pc = "saving" => Heard(r.history, m)
    /\ r.pc \in {"caching", "running"} =>
          Ends(m, Said(h, "user")) /\ Heard(r.history, Front(m))
    /\ AnswerUncached(r) => Ends(m, Said(h, "assistant"))
                            /\ Fresh(list, Front(m))
    /\ r.pc = "cachingAnswer" =>
          LastOf(r.history, CacheLimit) = LastOf(m, CacheLimit)
    /\ r.pc # "cachingContext" => copy \in {None, row}
    /\ r.pc = "readingContext" => r.row = row
    /\ r.pc \in {"readingHistory", "saving", "caching", "running"} =>
          r.context = IF row = None THEN EmptyContext ELSE row
    /\ r.pc \in {"persisting", "inserting"} =>
          (row # None => row.version <= r.next.version)
    /\ r.pc = "inserting" => row = None
    /\ r.pc = "cachingContext" => row = r.next

Calm ==
    /\ \A h \in Handlers : handler[h].pc \in Rest
    /\ Fresh(cachedHistory, messages)
    /\ cachedContext \in {None, snapshot}

\* At most one handler is at work.
SerialInv ==
    \/ Calm
    \/ \E h \in Handlers :
          /\ \A g \in Handlers \ {h} : handler[g].pc \in Rest
          /\ Agrees(h, handler[h], messages, snapshot, cachedHistory,
                    cachedContext)

\* An extended list is the end of a list and one message.
LEMMA EndsAppend ==
    ASSUME NEW m \in Seq(Message), NEW x \in Message
    PROVE  /\ Ends(Append(m, x), x)
           /\ Front(Append(m, x)) = m
<1> DEFINE e == Append(m, x)
<1>1. /\ e \in Seq(Message) /\ Len(e) = Len(m) + 1 /\ Len(m) \in Nat
      /\ \A i \in 1..Len(m) : e[i] = m[i]
  BY AppendProperties, LenProperties
<1>2. \A i \in 1..Len(m) : e[i] \in Message
  BY <1>1, ElementOfSeq
<1> HIDE DEF e
<1>3. /\ SubSeq(e, 1, Len(m)) \in Seq(Message)
      /\ Len(SubSeq(e, 1, Len(m))) = Len(m)
      /\ \A i \in 1..Len(m) : SubSeq(e, 1, Len(m))[i] = e[i]
  <2>1. /\ SubSeq(e, 1, Len(m)) \in Seq(Message)
        /\ Len(SubSeq(e, 1, Len(m))) = IF 1 <= Len(m) THEN Len(m) - 1 + 1 ELSE 0
        /\ \A i \in 1..(Len(m) - 1 + 1) :
              SubSeq(e, 1, Len(m))[i] = e[1 + i - 1]
    BY <1>1, <1>2, SubSeqProperties
  <2>q. QED
    BY <1>1, <2>1
<1>4. SubSeq(e, 1, Len(m)) = m
  BY <1>1, <1>3, SeqEqual
<1>5. Front(e) = m
  BY <1>1, <1>4 DEF Front
<1>6. e # <<>>
  BY <1>1, RangeOfEmpty
<1>q. QED
  BY <1>5, <1>6 DEF Ends, e

\* What comes before the end of a list is a list.
LEMMA FrontTyped ==
    ASSUME TypeOK, NEW x \in Message, Ends(messages, x)
    PROVE  Front(messages) \in Seq(Message)
<1>1. PICK s \in Seq(Message), y \in Message : messages = Append(s, y)
  BY SequenceEmptyOrAppend DEF TypeOK, Ends
<1>q. QED
  BY <1>1, EndsAppend

\* Cutting a list before it is extended does not show in its last messages.
LEMMA AppendToLast ==
    ASSUME NEW m \in Seq(Message), NEW x \in Message,
           NEW k \in Nat, NEW n \in Nat, n <= k + 1
    PROVE  LastOf(Append(LastOf(m, k), x), n) = LastOf(Append(m, x), n)
<1> DEFINE l == LastOf(m, k)
           c == Append(l, x)
           d == Append(m, x)
           a == LastOf(c, n)
           b == LastOf(d, n)
<1>1. /\ Len(m) \in Nat /\ l \in Seq(Message)
      /\ Len(l) = IF Len(m) > k THEN k ELSE Len(m)
      /\ \A i \in 1..Len(l) : l[i] = m[i + IF Len(m) > k THEN Len(m) - k ELSE 0]
  BY LastOfTyped, LenProperties
<1> HIDE DEF l
<1>2. /\ c \in Seq(Message) /\ d \in Seq(Message)
      /\ Len(c) = Len(l) + 1 /\ Len(d) = Len(m) + 1 /\ Len(l) \in Nat
      /\ \A i \in 1..(Len(l) + 1) : c[i] = IF i = Len(l) + 1 THEN x ELSE l[i]
      /\ \A i \in 1..(Len(m) + 1) : d[i] = IF i = Len(m) + 1 THEN x ELSE m[i]
  <2>1. /\ c \in Seq(Message) /\ Len(c) = Len(l) + 1 /\ Len(l) \in Nat
        /\ (\A i \in 1..Len(l) : c[i] = l[i]) /\ c[Len(l) + 1] = x
    BY <1>1, AppendProperties, LenProperties
  <2>2. /\ d \in Seq(Message) /\ Len(d) = Len(m) + 1
        /\ (\A i \in 1..Len(m) : d[i] = m[i]) /\ d[Len(m) + 1] = x
    BY <1>1, AppendProperties
  <2> HIDE DEF c, d
  <2>q. QED
    BY <1>1, <2>1, <2>2
<1> HIDE DEF c, d
<1>3. /\ a \in Seq(Message)
      /\ Len(a) = IF Len(c) > n THEN n ELSE Len(c)
      /\ \A i \in 1..Len(a) : a[i] = c[i + IF Len(c) > n THEN Len(c) - n ELSE 0]
  BY <1>2, LastOfTyped
<1>4. /\ b \in Seq(Message)
      /\ Len(b) = IF Len(d) > n THEN n ELSE Len(d)
      /\ \A i \in 1..Len(b) : b[i] = d[i + IF Len(d) > n THEN Len(d) - n ELSE 0]
  BY <1>2, LastOfTyped
<1> HIDE DEF a, b
<1>5. Len(a) = Len(b)
  BY <1>1, <1>2, <1>3, <1>4
<1>6. ASSUME NEW i \in 1..Len(a)
      PROVE  a[i] = b[i]
  <2> DEFINE p == i + IF Len(c) > n THEN Len(c) - n ELSE 0
             q == i + IF Len(d) > n THEN Len(d) - n ELSE 0
  <2>1. /\ p \in 1..(Len(l) + 1) /\ q \in 1..(Len(m) + 1)
        /\ p = Len(l) + 1 <=> q = Len(m) + 1
        /\ p \in 1..Len(l) => q = p + IF Len(m) > k THEN Len(m) - k ELSE 0
    <3>1. CASE Len(m) > k
      <4>1. Len(l) = k /\ Len(c) = k + 1 /\ Len(a) = n /\ Len(d) > n
        BY <1>1, <1>2, <1>3, <3>1
      <4>2. p = i + (k + 1 - n) /\ q = i + (Len(m) + 1 - n) /\ i \in 1..n
        BY <1>2, <4>1
      <4> HIDE DEF p, q
      <4>3. p \in 1..(k + 1) /\ q \in 1..(Len(m) + 1) /\ q = p + (Len(m) - k)
        BY <1>1, <3>1, <4>2
      <4>0. Len(m) \in Nat
        BY <1>1
      <4>4. /\ p \in Int /\ q \in Int
            /\ p = k + 1 <=> q = Len(m) + 1
        BY <4>0, <4>3
      <4>5. (IF Len(m) > k THEN Len(m) - k ELSE 0) = Len(m) - k
        BY <3>1
      <4>q. QED
        BY <4>1, <4>3, <4>4, <4>5
    <3>2. CASE ~(Len(m) > k)
      <4>1. Len(l) = Len(m) /\ Len(c) = Len(d)
        BY <1>1, <1>2, <3>2
      <4>2. p = q /\ p \in 1..(Len(l) + 1)
        BY <1>1, <1>2, <1>3, <4>1
      <4>q. QED
        BY <1>1, <3>2, <4>1, <4>2
    <3>q. QED
      BY <3>1, <3>2
  <2>2. a[i] = c[p] /\ b[i] = d[q]
    BY <1>3, <1>4, <1>5
  <2> HIDE DEF p, q
  <2>3. CASE p = Len(l) + 1
    BY <1>2, <2>1, <2>2, <2>3
  <2>4. CASE p \in 1..Len(l)
    <3>1. p # Len(l) + 1 /\ q # Len(m) + 1
      BY <1>1, <2>1, <2>4
    <3>2. a[i] = l[p] /\ b[i] = m[q]
      BY <1>2, <2>1, <2>2, <3>1
    <3>q. QED
      BY <1>1, <2>1, <2>4, <3>2
  <2>q. QED
    BY <1>1, <2>1, <2>3, <2>4
<1>q. QED
  <2>1. a = b
    BY <1>3, <1>4, <1>5, <1>6, SeqEqual
  <2>q. QED
    BY <2>1 DEF a, b, c, d, l

\* So it does not matter whether a turn heard the list or its end.
LEMMA HeardAppend ==
    ASSUME NEW m \in Seq(Message), NEW s, Heard(s, m), NEW x \in Message,
           NEW n \in Nat, n <= CacheLimit + 1
    PROVE  LastOf(Append(s, x), n) = LastOf(Append(m, x), n)
BY AppendToLast, ConstantsAssumption DEF Heard

\* The handler at work is alone.
LEMMA Alone ==
    ASSUME SerialInv, NEW h \in Handlers, handler[h].pc \notin Rest
    PROVE  /\ \A g \in Handlers \ {h} : handler[g].pc \in Rest
           /\ Agrees(h, handler[h], messages, snapshot, cachedHistory,
                     cachedContext)
<1>1. PICK g \in Handlers :
         /\ \A f \in Handlers \ {g} : handler[f].pc \in Rest
         /\ Agrees(g, handler[g], messages, snapshot, cachedHistory,
                   cachedContext)
  BY DEF SerialInv, Calm
<1>2. g = h
  BY <1>1
<1>q. QED
  BY <1>1, <1>2

\* When nobody is at work the copies are fresh.
LEMMA BecomesCalm ==
    ASSUME SerialInv, \A h \in Handlers : handler[h].pc \in Rest
    PROVE  Calm
<1>1. SUFFICES ASSUME NEW h \in Handlers,
                      Agrees(h, handler[h], messages, snapshot, cachedHistory,
                             cachedContext)
               PROVE  Calm
  BY DEF SerialInv
<1>2. ListMatters(handler[h]) /\ handler[h].pc # "cachingContext"
  BY DEF ListMatters, Rest
<1>q. QED
  BY <1>1, <1>2 DEF Agrees, Calm

\* A move of the handler at work.
LEMMA SerialMoves ==
    ASSUME NEW h \in Handlers, NEW r \in Handler, Moves(h, r),
           \A g \in Handlers \ {h} : handler[g].pc \in Rest,
           Agrees(h, r, messages', snapshot', cachedHistory', cachedContext')
    PROVE  SerialInv'
<1>1. /\ handler'[h] = r
      /\ \A g \in Handlers \ {h} : handler'[g].pc \in Rest
  BY DEF Moves
<1>2. Agrees(h, handler'[h], messages', snapshot', cachedHistory',
             cachedContext')
  BY <1>1
<1>q. QED
  BY <1>1, <1>2 DEF SerialInv, Agrees, ListMatters, AnswerUncached, Fresh, Heard, Ends

\* Handlers work one at a time, and the only thing that may happen to Redis
\* is that a key expires.
OneAtATime == MaxOpen = 1 /\ Faults \subseteq {"expiry"}

\* Nobody is at work when a call begins.
LEMMA BeginsCalm ==
    ASSUME OneAtATime, TypeOK, SerialInv, Cardinality(Open) < MaxOpen
    PROVE  Calm
<1>1. IsFiniteSet(Open) /\ Cardinality(Open) \in Nat
  BY ConstantsAssumption, FS_Subset, FS_CardinalityType DEF Open
<1>2. Cardinality(Open) = 0
  BY <1>1 DEF OneAtATime
<1>3. Open = {}
  BY <1>1, <1>2, FS_EmptySet
<1>q. QED
  BY <1>3, BecomesCalm DEF Open, Rest

\* Redis does what it is told.
LEMMA RedisAnswers ==
    ASSUME OneAtATime
    PROVE  /\ "redis" \notin Faults /\ "stop" \notin Faults
           /\ \A s : StoreHistory(s) => cachedHistory' = LastOf(s, CacheLimit)
           /\ \A c : StoreContext(c) => cachedContext' = c
BY DEF OneAtATime, StoreHistory, StoreContext

\* Every step of turns that do not overlap keeps the copies in step.
LEMMA SerialKept ==
    ASSUME OneAtATime, TypeOK, CountInv, SerialInv, [Next]_vars
    PROVE  SerialInv'
<1>0. Turns \subseteq Handlers /\ Resumes \subseteq Handlers
  BY DEF Handlers
<1>a. CacheLimit \in Nat /\ CacheLimit <= CacheLimit + 1
  BY ConstantsAssumption
<1>b. ASSUME NEW h \in Handlers, handler[h].pc \notin Rest
      PROVE  /\ \A g \in Handlers \ {h} : handler[g].pc \in Rest
             /\ Agrees(h, handler[h], messages, snapshot, cachedHistory,
                       cachedContext)
  BY <1>b, Alone
<1> USE DEF Rest, ListMatters, AnswerUncached
<1>1. ASSUME NEW t \in Turns, Begin(t)
      PROVE  SerialInv'
  <2>1. PICK r \in Handler :
           /\ Moves(t, r) /\ r.pc = "readingContext"
           /\ r.view = messages /\ r.row = snapshot
    BY <1>1, BeginEffect
  <2>2. Calm
    BY <1>1, BeginsCalm DEF Begin
  <2>3. UNCHANGED <<messages, snapshot, cachedHistory, cachedContext>>
    BY <1>1 DEF Begin
  <2>4. Agrees(t, r, messages', snapshot', cachedHistory', cachedContext')
    BY <2>1, <2>2, <2>3 DEF Agrees, Calm
  <2>q. QED
    BY <1>0, <2>1, <2>2, <2>4, SerialMoves DEF Calm
<1>2. ASSUME NEW t \in Turns, ReadContext(t)
      PROVE  SerialInv'
  <2>1. PICK r \in Handler :
           /\ Moves(t, r) /\ r.pc = "readingHistory"
           /\ r.view = handler[t].view
           /\ cachedContext # None => r.context = cachedContext
           /\ cachedContext = None =>
                 r.context = IF handler[t].row = None THEN EmptyContext
                                                      ELSE handler[t].row
    BY <1>2, ReadContextEffect, RedisAnswers
  <2>2. /\ handler[t].pc = "readingContext"
        /\ UNCHANGED <<messages, snapshot, cachedHistory, cachedContext>>
    BY <1>2 DEF ReadContext
  <2>3. /\ Fresh(cachedHistory, messages) /\ handler[t].view = messages
        /\ cachedContext \in {None, snapshot} /\ handler[t].row = snapshot
    BY <1>0, <1>b, <2>2 DEF Agrees
  <2>4. Agrees(t, r, messages', snapshot', cachedHistory', cachedContext')
    BY <2>1, <2>2, <2>3 DEF Agrees
  <2>q. QED
    BY <1>0, <1>b, <2>1, <2>2, <2>4, SerialMoves
<1>3. ASSUME NEW t \in Turns, ReadHistory(t)
      PROVE  SerialInv'
  <2>1. PICK r \in Handler :
           /\ Moves(t, r) /\ r.pc = "saving"
           /\ r.context = handler[t].context
           /\ \/ r.history = handler[t].view
              \/ cachedHistory # None /\ r.history = cachedHistory
    BY <1>3, ReadHistoryEffect
  <2>2. /\ handler[t].pc = "readingHistory"
        /\ UNCHANGED <<messages, snapshot, cachedHistory, cachedContext>>
    BY <1>3 DEF ReadHistory
  <2>3. /\ Fresh(cachedHistory, messages) /\ handler[t].view = messages
        /\ cachedContext \in {None, snapshot}
        /\ handler[t].context = IF snapshot = None THEN EmptyContext
                                                   ELSE snapshot
    BY <1>0, <1>b, <2>2 DEF Agrees
  <2>4. Heard(r.history, messages)
    BY <2>1, <2>3 DEF Heard, Fresh
  <2>5. Agrees(t, r, messages', snapshot', cachedHistory', cachedContext')
    BY <2>1, <2>2, <2>3, <2>4 DEF Agrees
  <2>q. QED
    BY <1>0, <1>b, <2>1, <2>2, <2>5, SerialMoves
<1>4. ASSUME NEW t \in Turns, SaveUserMessage(t)
      PROVE  SerialInv'
  <2>1. PICK r \in Handler :
           /\ Moves(t, r) /\ r.pc = "caching"
           /\ r.context = handler[t].context /\ r.history = handler[t].history
    BY <1>4, SaveUserMessageEffect
  <2>2. /\ handler[t].pc = "saving"
        /\ messages' = Append(messages, Said(t, "user"))
        /\ UNCHANGED <<snapshot, cachedHistory, cachedContext>>
    BY <1>4 DEF SaveUserMessage
  <2>3. /\ Heard(handler[t].history, messages)
        /\ cachedContext \in {None, snapshot}
        /\ handler[t].context = IF snapshot = None THEN EmptyContext
                                                   ELSE snapshot
    BY <1>0, <1>b, <2>2 DEF Agrees
  <2>4. Ends(messages', Said(t, "user")) /\ Front(messages') = messages
    BY <1>0, <2>2, Messages, EndsAppend DEF TypeOK
  <2>5. Agrees(t, r, messages', snapshot', cachedHistory', cachedContext')
    BY <2>1, <2>2, <2>3, <2>4 DEF Agrees
  <2>q. QED
    BY <1>0, <1>b, <2>1, <2>2, <2>5, SerialMoves
<1>5. ASSUME NEW t \in Turns, CacheUserMessage(t)
      PROVE  SerialInv'
  <2>1. PICK r \in Handler :
           /\ Moves(t, r) /\ r.pc = "running"
           /\ r.context = handler[t].context /\ r.history = handler[t].history
    BY <1>5, CacheUserMessageEffect
  <2>2. /\ handler[t].pc = "caching"
        /\ StoreHistory(Append(handler[t].history, Said(t, "user")))
        /\ UNCHANGED <<messages, snapshot, cachedContext>>
    BY <1>5 DEF CacheUserMessage
  <2>3. /\ Ends(messages, Said(t, "user"))
        /\ Heard(handler[t].history, Front(messages))
        /\ cachedContext \in {None, snapshot}
        /\ handler[t].context = IF snapshot = None THEN EmptyContext
                                                   ELSE snapshot
    BY <1>0, <1>b, <2>2 DEF Agrees
  <2>4. cachedHistory' = LastOf(messages, CacheLimit)
    <3>1. Front(messages) \in Seq(Message) /\ Said(t, "user") \in Message
      BY <1>0, <2>3, FrontTyped, Messages
    <3>2. messages = Append(Front(messages), Said(t, "user"))
      BY <2>3 DEF Ends
    <3>3. LastOf(Append(handler[t].history, Said(t, "user")), CacheLimit) =
             LastOf(Append(Front(messages), Said(t, "user")), CacheLimit)
      BY <1>a, <2>3, <3>1, HeardAppend
    <3>q. QED
      BY <2>2, <3>2, <3>3, RedisAnswers
  <2>5. Agrees(t, r, messages', snapshot', cachedHistory', cachedContext')
    BY <2>1, <2>2, <2>3, <2>4 DEF Agrees, Fresh
  <2>q. QED
    BY <1>0, <1>b, <2>1, <2>2, <2>5, SerialMoves
<1>6. ASSUME NEW t \in Turns, GraphReturns(t)
      PROVE  SerialInv'
  <2>1. PICK r \in Handler :
           /\ Moves(t, r) /\ r.pc = "persisting" /\ r.next \in Context
           /\ \/ r.next = handler[t].context
              \/ r.next.version = handler[t].context.version + 1
    BY <1>6, GraphReturnsEffect
  <2>2. /\ handler[t].pc = "running"
        /\ UNCHANGED <<messages, snapshot, cachedHistory, cachedContext>>
    BY <1>6 DEF GraphReturns
  <2>3. /\ Fresh(cachedHistory, messages) /\ cachedContext \in {None, snapshot}
        /\ snapshot # None => handler[t].context = snapshot
    BY <1>0, <1>b, <2>2 DEF Agrees
  <2>4. snapshot # None => snapshot.version <= r.next.version
    BY <2>1, <2>3, ContextTyped DEF TypeOK
  <2>5. Agrees(t, r, messages', snapshot', cachedHistory', cachedContext')
    BY <2>1, <2>2, <2>3, <2>4 DEF Agrees
  <2>q. QED
    BY <1>0, <1>b, <2>1, <2>2, <2>5, SerialMoves
<1>7. ASSUME NEW t \in Turns, GraphFails(t)
      PROVE  SerialInv'
  <2>1. PICK r \in Handler : Moves(t, r) /\ r.pc = "closed"
    BY <1>7, GraphFailsEffect
  <2>2. /\ handler[t].pc = "running"
        /\ UNCHANGED <<messages, snapshot, cachedHistory, cachedContext>>
    BY <1>7 DEF GraphFails
  <2>3. Fresh(cachedHistory, messages) /\ cachedContext \in {None, snapshot}
    BY <1>0, <1>b, <2>2 DEF Agrees
  <2>4. Agrees(t, r, messages', snapshot', cachedHistory', cachedContext')
    BY <2>1, <2>2, <2>3 DEF Agrees
  <2>q. QED
    BY <1>0, <1>b, <2>1, <2>2, <2>4, SerialMoves
<1>8. ASSUME NEW t \in Turns, NEW r \in Handler,
             PersistOutcome(t) \/ InsertSnapshot(t),
             Moves(t, r), r.pc = "cachingContext", r.next = handler[t].next,
             r.answers = handler[t].answers
      PROVE  SerialInv'
  <2>1. /\ handler[t].pc \in {"persisting", "inserting"}
        /\ messages' = IF handler[t].answers
                       THEN Append(messages, Said(t, "assistant"))
                       ELSE messages
        /\ snapshot' = IF snapshot # None
                          /\ ~(handler[t].next.version >= snapshot.version)
                       THEN snapshot ELSE handler[t].next
        /\ UNCHANGED <<cachedHistory, cachedContext>>
    BY <1>8 DEF PersistOutcome, InsertSnapshot, CommitOutcome
  <2>2. /\ Fresh(cachedHistory, messages)
        /\ snapshot # None => snapshot.version <= handler[t].next.version
    BY <1>0, <1>b, <2>1 DEF Agrees
  <2>3. snapshot' = r.next
    <3>1. handler[t].next \in Context
      BY <1>8, OutcomeIs
    <3>2. snapshot # None =>
             snapshot.version \in Nat /\ handler[t].next.version \in Nat
      BY <3>1, ContextTyped DEF TypeOK
    <3>q. QED
      BY <1>8, <2>1, <2>2, <3>2
  <2>4. r.answers => Ends(messages', Said(t, "assistant"))
                     /\ Front(messages') = messages
    BY <1>0, <1>8, <2>1, Messages, EndsAppend DEF TypeOK
  <2>5. ~r.answers => messages' = messages
    BY <1>8, <2>1
  <2>6. Agrees(t, r, messages', snapshot', cachedHistory', cachedContext')
    BY <1>8, <2>1, <2>2, <2>3, <2>4, <2>5 DEF Agrees
  <2>q. QED
    BY <1>0, <1>b, <1>8, <2>1, <2>6, SerialMoves
<1>9. ASSUME NEW t \in Turns, FindNoSnapshot(t)
      PROVE  SerialInv'
  <2>1. PICK r \in Handler :
           Moves(t, r) /\ r.pc = "inserting" /\ r.next = handler[t].next
    BY <1>9, FindNoSnapshotEffect
  <2>2. /\ handler[t].pc = "persisting" /\ snapshot = None
        /\ UNCHANGED <<messages, snapshot, cachedHistory, cachedContext>>
    BY <1>9 DEF FindNoSnapshot
  <2>3. Fresh(cachedHistory, messages) /\ cachedContext \in {None, snapshot}
    BY <1>0, <1>b, <2>2 DEF Agrees
  <2>4. Agrees(t, r, messages', snapshot', cachedHistory', cachedContext')
    BY <2>1, <2>2, <2>3 DEF Agrees
  <2>q. QED
    BY <1>0, <1>b, <2>1, <2>2, <2>4, SerialMoves
<1>10. ASSUME NEW t \in Turns, PersistOutcome(t) \/ InsertSnapshot(t)
       PROVE  SerialInv'
  BY <1>8, <1>10, PersistOutcomeEffect, InsertSnapshotEffect
<1>11. ASSUME NEW t \in Turns, InsertConflicts(t)
       PROVE  FALSE
  BY <1>0, <1>b, <1>11 DEF InsertConflicts, Agrees
<1>12. ASSUME NEW t \in Turns, CacheContext(t)
       PROVE  SerialInv'
  <2>1. PICK r \in Handler :
           /\ Moves(t, r)
           /\ r.pc = IF handler[t].answers THEN "looking" ELSE "closed"
    BY <1>12, CacheContextEffect
  <2>2. /\ handler[t].pc = "cachingContext"
        /\ StoreContext(handler[t].next)
        /\ UNCHANGED <<messages, snapshot, cachedHistory>>
    BY <1>12 DEF CacheContext
  <2>3. /\ handler[t].answers => Ends(messages, Said(t, "assistant"))
                                 /\ Fresh(cachedHistory, Front(messages))
        /\ ~handler[t].answers => Fresh(cachedHistory, messages)
        /\ snapshot = handler[t].next
    BY <1>0, <1>b, <2>2 DEF Agrees
  <2>4. cachedContext' = snapshot'
    BY <2>2, <2>3, RedisAnswers
  <2>5. Agrees(t, r, messages', snapshot', cachedHistory', cachedContext')
    BY <2>1, <2>2, <2>3, <2>4 DEF Agrees
  <2>q. QED
    BY <1>0, <1>b, <2>1, <2>2, <2>5, SerialMoves
<1>13. ASSUME NEW h \in Resumes, SettleReview(h)
       PROVE  SerialInv'
  <2>1. PICK r \in Handler : Moves(h, r) /\ r.pc = "looking"
    BY <1>13, SettleReviewEffect
  <2>2. Calm
    BY <1>13, BeginsCalm DEF SettleReview
  <2>3. /\ messages' = Append(messages, Said(h, "assistant"))
        /\ UNCHANGED <<snapshot, cachedHistory, cachedContext>>
    BY <1>13 DEF SettleReview
  <2>4. Ends(messages', Said(h, "assistant")) /\ Front(messages') = messages
    BY <1>0, <2>3, Messages, EndsAppend DEF TypeOK
  <2>5. Agrees(h, r, messages', snapshot', cachedHistory', cachedContext')
    BY <2>1, <2>2, <2>3, <2>4 DEF Agrees, Calm
  <2>q. QED
    BY <1>0, <2>1, <2>2, <2>5, SerialMoves DEF Calm
<1>14. ASSUME NEW h \in Handlers, LookUpConversation(h)
       PROVE  SerialInv'
  <2>1. PICK r \in Handler :
           Moves(h, r) /\ r.pc = "rereading" /\ r.view = messages
    BY <1>14, LookUpConversationEffect
  <2>2. /\ handler[h].pc = "looking"
        /\ UNCHANGED <<messages, snapshot, cachedHistory, cachedContext>>
    BY <1>14 DEF LookUpConversation
  <2>3. /\ Ends(messages, Said(h, "assistant"))
        /\ Fresh(cachedHistory, Front(messages))
        /\ cachedContext \in {None, snapshot}
    BY <1>b, <2>2 DEF Agrees
  <2>4. Agrees(h, r, messages', snapshot', cachedHistory', cachedContext')
    BY <2>1, <2>2, <2>3 DEF Agrees
  <2>q. QED
    BY <1>b, <2>1, <2>2, <2>4, SerialMoves
<1>15. ASSUME NEW h \in Handlers, RereadHistory(h)
       PROVE  SerialInv'
  <2>1. PICK r \in Handler :
           /\ Moves(h, r) /\ r.pc = "cachingAnswer"
           /\ \/ r.history = handler[h].view
              \/ /\ cachedHistory # None
                 /\ r.history = Append(cachedHistory, Said(h, "assistant"))
    BY <1>15, RereadHistoryEffect
  <2>2. /\ handler[h].pc = "rereading"
        /\ UNCHANGED <<messages, snapshot, cachedHistory, cachedContext>>
    BY <1>15 DEF RereadHistory
  <2>3. /\ Ends(messages, Said(h, "assistant"))
        /\ Fresh(cachedHistory, Front(messages))
        /\ handler[h].view = messages /\ cachedContext \in {None, snapshot}
    BY <1>b, <2>2 DEF Agrees
  <2>4. LastOf(r.history, CacheLimit) = LastOf(messages, CacheLimit)
    <3>1. CASE r.history = handler[h].view
      BY <2>3, <3>1
    <3>2. CASE cachedHistory # None
               /\ r.history = Append(cachedHistory, Said(h, "assistant"))
      <4>1. Heard(cachedHistory, Front(messages))
        BY <2>3, <3>2 DEF Fresh, Heard
      <4>2. /\ Front(messages) \in Seq(Message)
            /\ Said(h, "assistant") \in Message
        BY <2>3, FrontTyped, Messages
      <4>3. messages = Append(Front(messages), Said(h, "assistant"))
        BY <2>3 DEF Ends
      <4>4. LastOf(Append(cachedHistory, Said(h, "assistant")), CacheLimit) =
               LastOf(Append(Front(messages), Said(h, "assistant")), CacheLimit)
        BY <1>a, <4>1, <4>2, HeardAppend
      <4>q. QED
        BY <3>2, <4>3, <4>4
    <3>q. QED
      BY <2>1, <3>1, <3>2
  <2>5. Agrees(h, r, messages', snapshot', cachedHistory', cachedContext')
    BY <2>1, <2>2, <2>3, <2>4 DEF Agrees
  <2>q. QED
    BY <1>b, <2>1, <2>2, <2>5, SerialMoves
<1>16. ASSUME NEW h \in Handlers, CacheAnswer(h)
       PROVE  SerialInv'
  <2>1. PICK r \in Handler : Moves(h, r) /\ r.pc = "closed"
    BY <1>16, CacheAnswerEffect
  <2>2. /\ handler[h].pc = "cachingAnswer"
        /\ StoreHistory(handler[h].history)
        /\ UNCHANGED <<messages, snapshot, cachedContext>>
    BY <1>16 DEF CacheAnswer
  <2>3. /\ LastOf(handler[h].history, CacheLimit) = LastOf(messages, CacheLimit)
        /\ cachedContext \in {None, snapshot}
    BY <1>b, <2>2 DEF Agrees
  <2>4. cachedHistory' = LastOf(messages, CacheLimit)
    BY <2>2, <2>3, RedisAnswers
  <2>5. Agrees(h, r, messages', snapshot', cachedHistory', cachedContext')
    BY <2>1, <2>2, <2>3, <2>4 DEF Agrees, Fresh
  <2>q. QED
    BY <1>b, <2>1, <2>2, <2>5, SerialMoves
<1>17. ASSUME NEW h \in Handlers, Stop(h)
       PROVE  FALSE
  BY <1>17, RedisAnswers DEF Stop
<1>18. CASE ExpireHistory
  BY <1>18 DEF ExpireHistory, SerialInv, Calm, Agrees, Fresh
<1>19. CASE ExpireContext
  BY <1>19 DEF ExpireContext, SerialInv, Calm, Agrees
<1>20. CASE UNCHANGED vars
  BY <1>20 DEF vars, SerialInv, Calm, Agrees
<1>q. QED
  BY <1>1, <1>2, <1>3, <1>4, <1>5, <1>6, <1>7, <1>9, <1>10, <1>11, <1>12,
     <1>13, <1>14, <1>15, <1>16, <1>17, <1>18, <1>19, <1>20
     DEF Next, TurnStep, AnswerStep

\* The copies stay in step in every behaviour without overlap.
LEMMA SerialInvariance ==
    ASSUME OneAtATime
    PROVE  Spec => [](Inv /\ SerialInv)
<1>1. Init => SerialInv
  <2>1. SUFFICES ASSUME Init
                 PROVE  Calm
    BY DEF SerialInv
  <2>q. QED
    BY <2>1 DEF Init, Calm, Fresh, Rest
<1>2. Inv /\ SerialInv /\ [Next]_vars => SerialInv'
  BY SerialKept DEF Inv
<1>q. QED
  BY <1>1, <1>2, InitInv, NextInv, PTL DEF Spec

\* A turn whose predecessors were finished runs on the last messages of the
\* conversation and on its snapshot, whatever expired in between, for every
\* number of turns, every window and every limit of the list.
THEOREM SerialTurnsSeeConversation ==
    ASSUME OneAtATime
    PROVE  Spec => []TurnSeesConversation
<1>1. ASSUME Inv, SerialInv
      PROVE  TurnSeesConversation
  <2>1. SUFFICES ASSUME NEW t \in Turns, handler[t].pc = "running"
                 PROVE  /\ LastOf(Append(handler[t].history, Said(t, "user")),
                                  Window + 1) = LastOf(messages, Window + 1)
                        /\ handler[t].context =
                              IF snapshot = None THEN EmptyContext ELSE snapshot
    BY DEF TurnSeesConversation
  <2>2. t \in Handlers /\ handler[t].pc \notin Rest
    BY <2>1 DEF Handlers, Rest
  <2>3. Agrees(t, handler[t], messages, snapshot, cachedHistory, cachedContext)
    BY <1>1, <2>2, Alone
  <2>4. /\ Ends(messages, Said(t, "user"))
        /\ Heard(handler[t].history, Front(messages))
        /\ handler[t].context = IF snapshot = None THEN EmptyContext ELSE snapshot
    BY <2>1, <2>3 DEF Agrees
  <2>5. Front(messages) \in Seq(Message) /\ Said(t, "user") \in Message
    BY <1>1, <2>2, <2>4, FrontTyped, Messages DEF Inv
  <2>6. Window + 1 \in Nat /\ Window + 1 <= CacheLimit + 1
    BY ConstantsAssumption
  <2>7. LastOf(Append(handler[t].history, Said(t, "user")), Window + 1) =
           LastOf(Append(Front(messages), Said(t, "user")), Window + 1)
    BY <2>4, <2>5, <2>6, HeardAppend
  <2>q. QED
    BY <2>4, <2>7 DEF Ends
<1>q. QED
  BY <1>1, SerialInvariance, PTL

\* Between turns that do not overlap the copies in Redis are what MySQL
\* holds, up to the limit of the list.
THEOREM SerialCopiesAgree ==
    ASSUME OneAtATime
    PROVE  Spec => []CopiesAgree
<1>1. ASSUME SerialInv
      PROVE  CopiesAgree
  <2>1. SUFFICES ASSUME Open = {}
                 PROVE  Fresh(cachedHistory, messages)
                        /\ cachedContext \in {None, snapshot}
    BY DEF CopiesAgree, Fresh
  <2>2. \A h \in Handlers : handler[h].pc \in Rest
    BY <2>1 DEF Open, Rest
  <2>q. QED
    BY <1>1, <2>2, BecomesCalm DEF Calm
<1>q. QED
  BY <1>1, SerialInvariance, PTL
=============================================================================

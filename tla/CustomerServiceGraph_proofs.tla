---------------------- MODULE CustomerServiceGraph_proofs ---------------------
(***************************************************************************)
(* What a conversation's graph never does, for every set of questions, of  *)
(* decisions of the model, of parents and entities, and for every number   *)
(* of retries.                                                             *)
(***************************************************************************)
EXTENDS CustomerServiceGraph, SequenceFacts

-----------------------------------------------------------------------------
(* The shape of the state *)

RunFields ==
    {"status", "node", "steps", "question", "topic", "reset", "raw", "decision",
     "target", "pending", "required", "quality", "evidence", "override",
     "grounded", "answer", "billed", "error", "next", "stored"}

NodeOf ==
    [task \in Tasks |->
        CASE task = "resolve" -> "resolve_context"
          [] task = "classify" -> "classify_intent"
          [] task = "grounded" -> "generate_grounded"
          [] task = "chat" -> "general_chat"]

\* A call belongs to the node the graph is at.
CallAtNode ==
    call.task # "none" => /\ run.status = "running"
                          /\ call.task \in Tasks /\ run.node = NodeOf[call.task]

Shape ==
    /\ DOMAIN run = RunFields
    /\ call \in [task : Tasks \cup {"none"}, http : Nat, tries : Nat]
    /\ usage \in [calls : Nat, records : Nat, tokens : Nat]
    /\ CallAtNode

LEMMA NoRunFields == DOMAIN NoRun = RunFields
BY DEF NoRun, RunFields

LEMMA InitShape == Init => Shape
BY NoRunFields DEF Init, ModelInit, NoCall, NoUsage, Shape, CallAtNode

\* A reply brings one token at most.
LEMMA TokensAreFew ==
    ASSUME NEW task, NEW outcome
    PROVE  Tokens(task, outcome) \in 0..1
BY DEF Tokens

\* The end of a call leaves one record of it.
LEMMA CallEnds ==
    ASSUME Shape, NEW outcome, EndCall(outcome)
    PROVE  /\ call' = NoCall
           /\ usage' \in [calls : Nat, records : Nat, tokens : Nat]
           /\ usage'.calls = usage.calls
           /\ usage'.records = usage.records + IF Accounted(call.task) THEN 1 ELSE 0
           /\ usage'.tokens = usage.tokens + Tokens(call.task, outcome)
<1> DEFINE n == Tokens(call.task, outcome)
           k == IF Accounted(call.task) THEN 1 ELSE 0
<1>1. n \in 0..1 /\ k \in 0..1
  BY TokensAreFew
<1>2. usage' = [usage EXCEPT !.records = @ + k, !.tokens = @ + n]
  BY DEF EndCall, WriteRecord
<1> HIDE DEF n, k
<1>3. usage' \in [calls : Nat, records : Nat, tokens : Nat]
  <2>1. usage.records + k \in Nat /\ usage.tokens + n \in Nat
    BY <1>1 DEF Shape
  <2>q. QED
    BY <1>2, <2>1 DEF Shape
<1>4. /\ usage'.calls = usage.calls /\ usage'.records = usage.records + k
      /\ usage'.tokens = usage.tokens + n
  BY <1>2 DEF Shape
<1>q. QED
  BY <1>3, <1>4 DEF EndCall, n, k

\* A repetition leaves one record of the call it repeats, and makes one more.
LEMMA CallIsRepeated ==
    ASSUME Shape, NEW outcome, Repeat(outcome)
    PROVE  /\ call' = [call EXCEPT !.http = 0, !.tries = @ + 1]
           /\ usage' \in [calls : Nat, records : Nat, tokens : Nat]
           /\ usage'.calls = usage.calls + IF Accounted(call.task) THEN 1 ELSE 0
           /\ usage'.records = usage.records + IF Accounted(call.task) THEN 1 ELSE 0
           /\ usage'.tokens = usage.tokens + Tokens(call.task, outcome)
<1> DEFINE n == Tokens(call.task, outcome)
           k == IF Accounted(call.task) THEN 1 ELSE 0
<1>1. n \in 0..1 /\ k \in 0..1
  BY TokensAreFew
<1>2. usage' = [calls |-> usage.calls + k, records |-> usage.records + k,
                tokens |-> usage.tokens + n]
  BY DEF Repeat, WriteRecord
<1> HIDE DEF n, k
<1>3. usage' \in [calls : Nat, records : Nat, tokens : Nat]
  BY <1>1, <1>2 DEF Shape
<1>4. /\ usage'.calls = usage.calls + k /\ usage'.records = usage.records + k
      /\ usage'.tokens = usage.tokens + n
  BY <1>2 DEF Shape
<1>q. QED
  BY <1>3, <1>4 DEF Repeat, NextTry, n, k

\* A run that is over holds nothing of what it worked on.
LEMMA OverIs ==
    ASSUME NEW status, NEW error
    PROVE  /\ DOMAIN Over(status, error) = RunFields
           /\ Over(status, error).status = status
           /\ Over(status, error).error = error
           /\ \A x \in RunFields \ {"status", "error"} : Over(status, error)[x] = NoRun[x]
BY DEF Over, NoRun, RunFields

\* Going to a node changes nothing else but the sum of steps.
LEMMA GoIs ==
    ASSUME Shape, NEW node
    PROVE  LET r == Go(node)
           IN  /\ DOMAIN r = RunFields /\ r.node = node /\ r.steps = run.steps + 1
               /\ \A x \in RunFields \ {"node", "steps"} : r[x] = run[x]
BY DEF Go, Shape, RunFields

\* A resolution names the topic or asks back.
LEMMA ResolutionIs ==
    ASSUME Shape, NEW resolution
    PROVE  LET r == WithResolution(resolution)
           IN  /\ DOMAIN r = RunFields /\ r.steps = run.steps + 1
               /\ r.node = IF resolution.kind = "ambiguous" THEN "deterministic_response"
                           ELSE "classify_intent"
               /\ IF resolution.kind = "ambiguous"
                  THEN /\ r.target = "clarification" /\ r.next = topics
                       /\ r.topic = run.topic /\ r.reset = run.reset
                  ELSE /\ r.topic = resolution.topic /\ r.reset = resolution.reset
                       /\ r.target = run.target /\ r.next = run.next
               /\ \A x \in RunFields \ {"node", "steps", "target", "override", "next",
                                        "topic", "reset"} : r[x] = run[x]
BY DEF WithResolution, Go, Shape, RunFields

\* A decision leads to the node of its target.
LEMMA DecisionIs ==
    ASSUME Shape, NEW decision
    PROVE  LET r == WithDecision(decision)
           IN  /\ DOMAIN r = RunFields /\ r.steps = run.steps + 1
               /\ r.node = NodeAfterIntent(Target(decision))
               /\ r.decision = decision /\ r.target = Target(decision)
               /\ r.next = Advanced(topics, decision, run.reset)
               /\ r.pending = IF decision = None THEN <<>> ELSE SearchDomains(decision)
               /\ \A x \in RunFields \ {"node", "steps", "decision", "target", "next",
                                        "pending"} : r[x] = run[x]
<1> DEFINE node == NodeAfterIntent(Target(decision))
           target == Target(decision)
           next == Advanced(topics, decision, run.reset)
           pending == IF decision = None THEN <<>> ELSE SearchDomains(decision)
<1>1. WithDecision(decision) =
        [Go(node) EXCEPT !.decision = decision, !.target = target, !.next = next,
                         !.pending = pending]
  BY DEF WithDecision
<1> HIDE DEF node, target, next, pending
<1>2. LET r == WithDecision(decision)
      IN  /\ DOMAIN r = RunFields /\ r.steps = run.steps + 1
          /\ r.node = node /\ r.decision = decision /\ r.target = target
          /\ r.next = next /\ r.pending = pending
          /\ \A x \in RunFields \ {"node", "steps", "decision", "target", "next",
                                   "pending"} : r[x] = run[x]
  BY <1>1 DEF Go, Shape, RunFields
<1>q. QED
  BY <1>2 DEF node, target, next, pending

LEMMA AfterIntent ==
    ASSUME NEW target
    PROVE  NodeAfterIntent(target) \in
             {"retrieve_knowledge", "general_chat", "human_review", "deterministic_response"}
BY DEF NodeAfterIntent

\* Where a call that fails leads.
LEMMA FailureLeads ==
    ASSUME Shape, NEW outcome \in Outcomes, CallFails(outcome)
    PROVE  /\ run.status = "running"
           /\ \/ run' = Broken(outcome)
              \/ run.node = "resolve_context" /\ run' = WithResolution(Ambiguous)
              \/ run.node = "classify_intent" /\ run' = WithDecision(None)
              \/ run.node = "generate_grounded" /\ run' = Go("verify_claims")
              \/ /\ run.node = "generate_grounded"
                 /\ run' = [Go("deterministic_response") EXCEPT
                               !.override = TRUE, !.error = Code(outcome)]
<1>1. run.status = "running" /\ call.task \in Tasks /\ run.node = NodeOf[call.task]
  BY DEF CallFails, Shape, CallAtNode
<1>2. CASE call.task = "resolve"
  BY <1>1, <1>2 DEF CallFails, NodeOf
<1>3. CASE call.task = "classify"
  BY <1>1, <1>3 DEF CallFails, NodeOf
<1>4. CASE call.task = "chat"
  BY <1>1, <1>4 DEF CallFails
<1>5. CASE call.task = "grounded"
  BY <1>1, <1>5 DEF CallFails, NodeOf
<1>q. QED
  BY <1>1, <1>2, <1>3, <1>4, <1>5 DEF Tasks

LEMMA StepShape ==
    ASSUME Shape, [Next]_vars
    PROVE  Shape'
<1> USE NoRunFields
<1>a. ASSUME UNCHANGED vars
      PROVE  Shape'
  BY <1>a DEF vars, graphVars, modelVars, Shape, CallAtNode
<1>b. ASSUME NEW q \in Questions, Send(q)
      PROVE  Shape'
  BY <1>b DEF Send, Free, Shape, CallAtNode, NoUsage
<1>c. CASE AskStream
  BY <1>c DEF AskStream, OpenStream, Shape, CallAtNode, graphVars
<1>d. CASE Resume
  BY <1>d DEF Resume, Shape, CallAtNode, modelVars
<1>e. CASE Cancel
  <2>1. CASE call.task = "none"
    BY <1>e, <2>1 DEF Cancel, Over, RestOfCall, Shape, CallAtNode
  <2>2. CASE EndCall("cancelled")
    <3>1. DOMAIN run' = RunFields
      BY <1>e DEF Cancel, Over
    <3>q. QED
      BY <2>2, <3>1, CallEnds DEF NoCall, Shape, CallAtNode
  <2>q. QED
    BY <1>e, <2>1, <2>2 DEF Cancel
<1>f. CASE (LeaveStream \/ StreamStep) /\ UNCHANGED <<call, usage, graphVars>>
  BY <1>f DEF Shape, CallAtNode, graphVars
<1>g. CASE AskModel
  BY <1>g DEF AskModel, At, Ask, Accounted, RestOfGraph, Shape, CallAtNode,
              NodeOf, Tasks, NoCall
<1>h. CASE Backoff /\ UNCHANGED graphVars
  BY <1>h DEF Backoff, graphVars, Shape, CallAtNode
<1>i. ASSUME NEW outcome \in Outcomes, RepeatCall(outcome)
      PROVE  Shape'
  <2>1. Repeat(outcome) /\ UNCHANGED run
    BY <1>i DEF RepeatCall, RestOfGraph
  <2>2. /\ call' = [call EXCEPT !.http = 0, !.tries = @ + 1]
        /\ usage' \in [calls : Nat, records : Nat, tokens : Nat]
    BY <2>1, CallIsRepeated
  <2>3. call.tries + 1 \in Nat
    BY DEF Shape
  <2>4. call' \in [task : Tasks \cup {"none"}, http : Nat, tries : Nat]
    BY <2>2, <2>3 DEF Shape
  <2>5. call'.task = call.task
    BY <2>2 DEF Shape
  <2>q. QED
    BY <2>1, <2>2, <2>4, <2>5 DEF Shape, CallAtNode
<1>j. ASSUME NEW outcome \in Outcomes, CallFails(outcome)
      PROVE  Shape'
  <2>1. call' = NoCall /\ usage' \in [calls : Nat, records : Nat, tokens : Nat]
    BY <1>j, CallEnds DEF CallFails
  <2>2. DOMAIN run' = RunFields
    BY <1>j, FailureLeads DEF Broken, Over, WithResolution, WithDecision, Go, Shape
  <2>q. QED
    BY <2>1, <2>2 DEF NoCall, Shape, CallAtNode
<1>k. CASE ResolverReplies \/ ClassifierReplies \/ GroundedReplies \/ ChatReplies
  <2>1. call' = NoCall /\ usage' \in [calls : Nat, records : Nat, tokens : Nat]
    BY <1>k, CallEnds
       DEF ResolverReplies, ClassifierReplies, GroundedReplies, ChatReplies
  <2>2. DOMAIN run' = RunFields
    BY <1>k DEF ResolverReplies, ClassifierReplies, GroundedReplies, ChatReplies,
                WithResolution, WithDecision, Go, Shape
  <2>q. QED
    BY <2>1, <2>2 DEF NoCall, Shape, CallAtNode
<1>l. CASE NodeStep
  <2>1. DOMAIN run' = RunFields
    BY <1>l DEF NodeStep, Initialize, ValidateInput, FailNode, ResolveByRule,
          ClassifyByRule, HumanReview, RetrieveDomain, RetrievalFallsBack,
          FinishRetrieval, VerifyClaims, DeterministicResponse, Finalize,
          StoreTurn, Over, WithResolution, WithDecision, Go, Shape
  <2>2. UNCHANGED call /\ call.task = "none"
    BY <1>l DEF NodeStep, Initialize, ValidateInput, FailNode, ResolveByRule,
          ClassifyByRule, HumanReview, RetrieveDomain, RetrievalFallsBack,
          FinishRetrieval, VerifyClaims, DeterministicResponse, Finalize,
          StoreTurn, At, Rest, modelVars, CallAtNode, Shape
  <2>3. usage' = usage \/ usage' = NoUsage
    BY <1>l DEF NodeStep, Initialize, ValidateInput, FailNode, ResolveByRule,
          ClassifyByRule, HumanReview, RetrieveDomain, RetrievalFallsBack,
          FinishRetrieval, VerifyClaims, DeterministicResponse, Finalize,
          StoreTurn, Rest, modelVars
  <2>q. QED
    BY <2>1, <2>2, <2>3 DEF NoUsage, Shape, CallAtNode
<1>q. QED
  BY <1>a, <1>b, <1>c, <1>d, <1>e, <1>f, <1>g, <1>h, <1>i, <1>j, <1>k, <1>l
     DEF Next, ModelStep, Streaming

-----------------------------------------------------------------------------
(* Calls and their records *)

Open(task) == IF Accounted(task) THEN 1 ELSE 0

RecordsInv == usage.records + Open(call.task) = usage.calls

\* Nothing but a call of the model adds to the usage, and none is made after the
\* usage is published.
BilledInv ==
    /\ run.status = "completed" => run.node = "finalize"
    /\ run.node = "finalize" /\ run.answer.kind # "fixed" => run.billed = usage.tokens

UsageInv == RecordsInv /\ BilledInv

LEMMA InitUsage == Init => UsageInv
BY DEF Init, ModelInit, NoCall, NoUsage, NoRun, UsageInv, RecordsInv, BilledInv, Open,
       Accounted

LEMMA StepRecords ==
    ASSUME Shape, UsageInv, [Next]_vars
    PROVE  RecordsInv'
<1>a. CASE UNCHANGED <<call, usage>>
  BY <1>a DEF UsageInv, RecordsInv, Open
<1>b. ASSUME call.task = "none", UNCHANGED call, usage' = NoUsage
      PROVE  RecordsInv'
  BY <1>b DEF NoUsage, RecordsInv, Open, Accounted
<1>c. ASSUME NEW outcome, EndCall(outcome)
      PROVE  RecordsInv'
  <2>1. /\ call'.task = "none" /\ usage'.calls = usage.calls
        /\ usage'.records = usage.records + Open(call.task)
    BY <1>c, CallEnds DEF NoCall, Open
  <2>2. usage'.records + 0 = usage'.calls
    BY <2>1 DEF UsageInv, RecordsInv, Open, Shape
  <2>q. QED
    BY <2>1, <2>2 DEF RecordsInv, Open, Accounted
<1>d. ASSUME NEW outcome \in Outcomes, RepeatCall(outcome)
      PROVE  RecordsInv'
  <2>1. call'.task = call.task
    BY <1>d DEF RepeatCall, Repeat, Shape
  <2>2. /\ usage'.calls = usage.calls + Open(call.task)
        /\ usage'.records = usage.records + Open(call.task)
    BY <1>d, CallIsRepeated DEF RepeatCall, Open
  <2>q. QED
    BY <2>1, <2>2 DEF UsageInv, RecordsInv, Open, Shape
<1>e. CASE AskModel
  <2>1. PICK task \in Tasks : Ask(task)
    BY <1>e DEF AskModel, Tasks
  <2>2. call.task = "none" /\ call'.task = task
    BY <1>e, <2>1 DEF AskModel, At, Ask, NoCall
  <2>3. usage'.calls = usage.calls + Open(task) /\ usage'.records = usage.records
    BY <2>1 DEF Ask, Open, Shape
  <2>q. QED
    BY <2>2, <2>3 DEF UsageInv, RecordsInv, Open, Accounted, Shape
<1>f. CASE Backoff
  BY <1>f DEF Backoff, UsageInv, RecordsInv, Open, Shape
<1>g. CASE NodeStep
  <2>1. \/ UNCHANGED <<call, usage>>
        \/ StoreTurn
    BY <1>g DEF NodeStep, Initialize, ValidateInput, FailNode, ResolveByRule,
          ClassifyByRule, HumanReview, RetrieveDomain, RetrievalFallsBack,
          FinishRetrieval, VerifyClaims, DeterministicResponse, Finalize, Rest, modelVars
  <2>q. QED
    BY <1>a, <1>b, <2>1 DEF StoreTurn, Shape, CallAtNode
<1>q. QED
  BY <1>a, <1>b, <1>c, <1>d, <1>e, <1>f, <1>g
     DEF Next, ModelStep, Streaming, vars, graphVars, modelVars, Send, Free, AskStream,
         Resume, Cancel, CallFails, ResolverReplies, ClassifierReplies, GroundedReplies,
         ChatReplies, Shape, CallAtNode

LEMMA StepBilled ==
    ASSUME Shape, UsageInv, [Next]_vars
    PROVE  BilledInv'
<1> USE NoRunFields DEF NoRun, RunFields, UsageInv, BilledInv
<1>a. CASE UNCHANGED <<run, usage>>
  BY <1>a
<1>b. ASSUME NEW q \in Questions, Send(q)
      PROVE  BilledInv'
  BY <1>b DEF Send
<1>c. CASE Resume
  BY <1>c DEF Resume, Shape
<1>d. CASE Cancel
  BY <1>d, OverIs DEF Cancel
<1>e. CASE AskModel \/ (Backoff /\ UNCHANGED graphVars)
  BY <1>e DEF AskModel, At, RestOfGraph, Backoff, graphVars, Shape
<1>f. ASSUME NEW outcome \in Outcomes, RepeatCall(outcome)
      PROVE  BilledInv'
  BY <1>f DEF RepeatCall, RestOfGraph, Shape, CallAtNode, NodeOf, Tasks
<1>x. ASSUME run'.node # "finalize", run'.status # "completed"
      PROVE  BilledInv'
  BY <1>x
<1>g. ASSUME NEW outcome \in Outcomes, CallFails(outcome)
      PROVE  BilledInv'
  <2>1. run.status = "running"
    BY <1>g, FailureLeads
  <2>2. CASE run' = Broken(outcome)
    BY <1>x, <2>2, OverIs DEF Broken
  <2>3. CASE run' = WithResolution(Ambiguous)
    BY <1>x, <2>1, <2>3, ResolutionIs
  <2>4. CASE run' = WithDecision(None)
    BY <1>x, <2>1, <2>4, DecisionIs, AfterIntent
  <2>5. CASE run' = Go("verify_claims")
    BY <1>x, <2>1, <2>5, GoIs
  <2>6. CASE run' = [Go("deterministic_response") EXCEPT
                       !.override = TRUE, !.error = Code(outcome)]
    BY <1>x, <2>1, <2>6, GoIs
  <2>q. QED
    BY <1>g, <2>2, <2>3, <2>4, <2>5, <2>6, FailureLeads
<1>h. CASE ResolverReplies \/ ClassifierReplies \/ GroundedReplies
  <2>1. run.status = "running"
    BY <1>h DEF ResolverReplies, ClassifierReplies, GroundedReplies, Shape, CallAtNode
  <2>2. CASE ResolverReplies
    BY <1>x, <2>1, <2>2, ResolutionIs DEF ResolverReplies
  <2>3. CASE ClassifierReplies
    BY <1>x, <2>1, <2>3, DecisionIs, AfterIntent DEF ClassifierReplies
  <2>4. CASE GroundedReplies
    BY <1>x, <2>1, <2>4 DEF GroundedReplies, Go, Shape
  <2>q. QED
    BY <1>h, <2>2, <2>3, <2>4
<1>i. CASE ChatReplies
  BY <1>i DEF ChatReplies, Go, Shape, CallAtNode, NodeOf, Tasks
<1>j. CASE StoreTurn
  BY <1>j DEF StoreTurn, NoRun, NoUsage, Shape
<1>k. ASSUME NEW mode, NEW nli, VerifyClaims(mode, nli)
      PROVE  BilledInv'
  BY <1>k DEF VerifyClaims, At, Rest, modelVars, Go, Shape
<1>l. CASE DeterministicResponse
  BY <1>l DEF DeterministicResponse, At, Go, Shape, Plainly
<1>m. CASE Finalize
  BY <1>m, OverIs DEF Finalize, At, Rest, modelVars, Go, Shape
<1>n. CASE Initialize \/ ValidateInput \/ FailNode \/ ResolveByRule \/ ClassifyByRule
           \/ RetrieveDomain \/ FinishRetrieval
           \/ (\E interrupts \in BOOLEAN : HumanReview(interrupts))
           \/ \E failed \in BOOLEAN : RetrievalFallsBack(failed)
  <2>1. run.status = "running" /\ run.node # "finalize"
    BY <1>n DEF Initialize, ValidateInput, FailNode, ResolveByRule, ClassifyByRule,
                RetrieveDomain, FinishRetrieval, HumanReview, RetrievalFallsBack, At
  <2>2. CASE FailNode \/ ResolveByRule \/ ClassifyByRule
    BY <1>x, <2>1, <2>2, OverIs, ResolutionIs, DecisionIs, AfterIntent
       DEF FailNode, ResolveByRule, ClassifyByRule
  <2>3. CASE RetrieveDomain
    BY <1>x, <2>1, <2>3 DEF RetrieveDomain, Shape
  <2>4. CASE Initialize \/ ValidateInput \/ FinishRetrieval
             \/ (\E interrupts \in BOOLEAN : HumanReview(interrupts))
             \/ \E failed \in BOOLEAN : RetrievalFallsBack(failed)
    BY <1>x, <2>1, <2>4 DEF Initialize, ValidateInput, FinishRetrieval, HumanReview,
                 RetrievalFallsBack, Go, Shape
  <2>q. QED
    BY <1>n, <2>2, <2>3, <2>4
<1>q. QED
  BY <1>a, <1>b, <1>c, <1>d, <1>e, <1>f, <1>g, <1>h, <1>i, <1>j, <1>k, <1>l, <1>m, <1>n
     DEF Next, ModelStep, NodeStep, Streaming, vars, graphVars, modelVars, AskStream

\* Every call of a conversation is written down once, and the usage published
\* with an answer is that of all its calls.
THEOREM EveryCallIsRecorded == Spec => []CallsAreRecorded
<1>1. Shape /\ UsageInv => CallsAreRecorded
  BY DEF UsageInv, RecordsInv, BilledInv, Open, CallsAreRecorded
<1>2. Shape /\ UsageInv /\ [Next]_vars => Shape' /\ UsageInv'
  BY StepShape, StepRecords, StepBilled DEF UsageInv
<1>q. QED
  BY <1>1, <1>2, InitShape, InitUsage, PTL DEF Spec

-----------------------------------------------------------------------------
(* The streamed chat *)

StreamFields == {"phase", "http", "next", "finish", "shown", "records"}

\* While the connection waits nothing was shown; while it is open the next
\* chunk follows what was shown, which is the beginning of the text.
StreamInv ==
    /\ DOMAIN stream = StreamFields
    /\ stream.phase \in {"none", "waiting", "open", "success", "error", "cancelled"}
    /\ stream.http \in 0..HttpRetries
    /\ stream.shown \in Seq(1..MaxChunks) /\ Len(stream.shown) <= MaxChunks
    /\ \A i \in 1..Len(stream.shown) : stream.shown[i] = i
    /\ stream.finish \in BOOLEAN
    /\ stream.finish => Len(stream.shown) = MaxChunks
    /\ stream.phase \in {"none", "waiting"} => stream.shown = <<>>
    /\ stream.phase = "open" => stream.next = Len(stream.shown) + 1
    /\ stream.phase = "success" => stream.finish
    /\ stream.records = IF stream.phase \in {"none", "waiting", "open"} THEN 0 ELSE 1

LEMMA InitStream == Init => StreamInv
<1>1. <<>> \in Seq(1..MaxChunks) /\ Len(<<>>) = 0
  BY EmptySeq
<1>q. QED
  BY <1>1, ModelAssumption DEF Init, ModelInit, NoStream, StreamInv, StreamFields

LEMMA StreamCloses ==
    ASSUME StreamInv, StreamLive, NEW phase \in {"success", "error", "cancelled"},
           phase = "success" => stream.finish, CloseStream(phase)
    PROVE  StreamInv'
BY DEF StreamInv, StreamLive, StreamFields, CloseStream

LEMMA StepOfStream ==
    ASSUME StreamInv, [Next]_vars
    PROVE  StreamInv'
<1>a. CASE UNCHANGED stream
  BY <1>a DEF StreamInv
<1>b. ASSUME NEW q \in Questions, Send(q)
      PROVE  StreamInv'
  <2>1. <<>> \in Seq(1..MaxChunks) /\ Len(<<>>) = 0
    BY EmptySeq
  <2>q. QED
    BY <1>b, <2>1, ModelAssumption DEF Send, NoStream, StreamInv, StreamFields
<1>c. CASE AskStream
  <2>1. <<>> \in Seq(1..MaxChunks) /\ Len(<<>>) = 0
    BY EmptySeq
  <2>q. QED
    BY <1>c, <2>1, ModelAssumption DEF AskStream, OpenStream, NoStream, StreamInv,
                                       StreamFields
<1>d. CASE LeaveStream
  BY <1>d, StreamCloses DEF LeaveStream
<1>e. CASE Connect
  <2>1. Len(<<>>) = 0
    BY EmptySeq
  <2>q. QED
    BY <1>e, <2>1 DEF Connect, StreamInv, StreamFields
<1>f. CASE Chunk
  <2> DEFINE shown == Append(stream.shown, stream.next)
  <2>1. stream.next = Len(stream.shown) + 1 /\ stream.next \in 1..MaxChunks
    BY <1>f, LenProperties, ModelAssumption DEF Chunk, StreamInv
  <2>2. shown \in Seq(1..MaxChunks) /\ Len(shown) = stream.next
    BY <2>1, AppendProperties DEF StreamInv
  <2>3. \A i \in 1..Len(shown) : shown[i] = i
    BY <2>1, <2>2, AppendProperties, LenProperties DEF StreamInv
  <2>4. stream' = [stream EXCEPT !.shown = shown, !.finish = stream.next = MaxChunks,
                                 !.next = stream.next + 1]
    BY <1>f DEF Chunk
  <2> HIDE DEF shown
  <2>q. QED
    BY <1>f, <2>1, <2>2, <2>3, <2>4 DEF Chunk, StreamInv, StreamFields
<1>g. CASE StreamBreaks
  <2>1. CASE CloseStream("error")
    BY <1>g, <2>1, StreamCloses DEF StreamBreaks
  <2>2. CASE /\ ~Emitted /\ stream.http # HttpRetries
             /\ stream' = [stream EXCEPT !.phase = "waiting", !.http = @ + 1]
    <3>1. stream.http + 1 \in 0..HttpRetries
      BY <2>2, ModelAssumption DEF StreamInv
    <3>q. QED
      BY <1>g, <2>2, <3>1 DEF StreamBreaks, StreamLive, Emitted, StreamInv, StreamFields
  <2>q. QED
    BY <1>g, <2>1, <2>2 DEF StreamBreaks
<1>h. ASSUME NEW wellFormed \in BOOLEAN, StreamEnds(wellFormed)
      PROVE  StreamInv'
  BY <1>h, StreamCloses DEF StreamEnds
<1>i. CASE NodeStep
  BY <1>a, <1>i DEF NodeStep, Initialize, ValidateInput, FailNode, ResolveByRule,
          ClassifyByRule, HumanReview, RetrieveDomain, RetrievalFallsBack,
          FinishRetrieval, VerifyClaims, DeterministicResponse, Finalize, StoreTurn,
          Rest, modelVars
<1>j. CASE ModelStep
  BY <1>a, <1>j DEF ModelStep, AskModel, Backoff, RepeatCall, CallFails, ResolverReplies,
          ClassifierReplies, GroundedReplies, ChatReplies, RestOfGraph, RestOfCall
<1>q. QED
  BY <1>a, <1>b, <1>c, <1>d, <1>e, <1>f, <1>g, <1>h, <1>i, <1>j
     DEF Next, Streaming, StreamStep, vars, modelVars, Resume, Cancel, RestOfCall

\* What a streamed chat showed is never repeated: a retry starts from the first
\* chunk again, but only as long as nothing was shown.
THEOREM NoChunkTwice == Spec => []StreamNeverRepeats
<1>1. StreamInv => StreamNeverRepeats
  BY LenProperties DEF StreamInv, StreamNeverRepeats
<1>q. QED
  BY <1>1, InitStream, StepOfStream, PTL DEF Spec

-----------------------------------------------------------------------------
(* What the user reads as knowledge *)

\* The claims cite the evidence and are true as far as the mode promises.
Supported(answer, evidence) ==
    /\ answer.claims # {}
    /\ \A c \in answer.claims :
         /\ c.cites \in DOMAIN evidence
         /\ IF answer.mode = "enforce" THEN c.truth \in True ELSE c.truth \notin Hard

Knowledge == {"full", "claims"}

\* Between the check of a grounded answer and its publication nothing touches
\* the evidence it was checked against.
PublishInv ==
    /\ run.status = "paused" => run.node = "human_review"
    /\ run.grounded # None =>
          /\ run.node = "verify_claims"
          /\ run.grounded \in Answers(run.evidence)
          /\ CitesEvidence(run.grounded, run.evidence)
    /\ run.answer.kind \in Knowledge =>
          run.node = "finalize" /\ Supported(run.answer, run.evidence)

LEMMA InitPublish == Init => PublishInv
BY DEF Init, NoRun, Plainly, PublishInv, Knowledge

\* A claim that counts as supported is true and breaks no hard rule.
LEMMA SupportedClaimIsTrue ==
    ASSUME NEW c, c.truth \in Truths, NEW nli, Verdict(c, nli) = "supported"
    PROVE  c.truth \in True /\ c.truth \notin Hard
BY DEF Truths, Verdict, True, Hard

LEMMA VerdictIsOne ==
    ASSUME NEW c, c.truth \in Truths, NEW nli
    PROVE  Verdict(c, nli) \in {"supported", "unsupported", "conflict", "unknown"}
BY DEF Truths, Verdict

\* Whatever is published of an answer that cites the evidence is supported.
LEMMA PublishedAnswer ==
    ASSUME NEW evidence, NEW answer \in Answers(evidence), CitesEvidence(answer, evidence),
           NEW mode \in {"enforce", "shadow"}, NEW nli,
           Published(answer, mode, nli).kind \in Knowledge
    PROVE  Supported(Published(answer, mode, nli), evidence)
<1> DEFINE verdict(c) == Verdict(c, nli)
           supported == {c \in answer.claims : verdict(c) = "supported"}
           hardFailure == \E c \in answer.claims : c.truth \in Hard
           decision == Decision(answer, {verdict(c) : c \in answer.claims})
           whole == (mode = "shadow" /\ ~hardFailure) \/ decision = "pass"
           some == ~hardFailure /\ supported # {}
           p == Published(answer, mode, nli)
<1>1. /\ p.mode = mode
      /\ p.kind = IF whole THEN "full" ELSE IF some THEN "claims" ELSE "notice"
      /\ p.claims = IF whole THEN answer.claims ELSE IF some THEN supported ELSE {}
  BY DEF Published
<1>2. answer.claims # {} /\ \A c \in answer.claims : c.truth \in Truths
  BY DEF Answers, Claims
<1>3. \A c \in answer.claims : c.cites \in DOMAIN evidence
  BY DEF CitesEvidence
<1>4. ASSUME decision = "pass", NEW c \in answer.claims
      PROVE  verdict(c) = "supported"
  <2>1. verdict(c) \notin {"conflict", "unsupported", "unknown"}
    BY <1>4 DEF Decision
  <2>q. QED
    BY <1>2, <2>1, VerdictIsOne
<1>5. \A c \in answer.claims : verdict(c) = "supported"
                                  => c.truth \in True /\ c.truth \notin Hard
  BY <1>2, SupportedClaimIsTrue
<1> HIDE DEF verdict, decision, p
<1>6. CASE whole
  <2>1. p.claims = answer.claims
    BY <1>1, <1>6
  <2>2. CASE mode = "shadow" /\ ~hardFailure
    BY <1>1, <1>2, <1>3, <2>1, <2>2 DEF Supported, p
  <2>3. CASE decision = "pass"
    BY <1>1, <1>2, <1>3, <1>4, <1>5, <2>1, <2>3 DEF Supported, p
  <2>q. QED
    BY <1>6, <2>2, <2>3
<1>7. CASE ~whole /\ some
  BY <1>1, <1>3, <1>5, <1>7 DEF Supported, p
<1>8. CASE ~whole /\ ~some
  BY <1>1, <1>8 DEF Knowledge, p
<1>q. QED
  BY <1>6, <1>7, <1>8

LEMMA StepPublish ==
    ASSUME Shape, PublishInv, [Next]_vars
    PROVE  PublishInv'
<1> USE NoRunFields DEF NoRun, RunFields, PublishInv, Plainly, Knowledge
<1>a. CASE UNCHANGED run
  BY <1>a
<1>n. ASSUME run'.grounded = None, run'.answer.kind \notin Knowledge,
             run'.status = "paused" => run'.node = "human_review"
      PROVE  PublishInv'
  BY <1>n
<1>b. ASSUME NEW q \in Questions, Send(q)
      PROVE  PublishInv'
  BY <1>n, <1>b DEF Send
<1>c. CASE Resume
  BY <1>c DEF Resume, Shape
<1>d. CASE Cancel
  BY <1>n, <1>d, OverIs DEF Cancel
<1>e. CASE ModelStep
  <2>1. CASE AskModel \/ (Backoff /\ UNCHANGED graphVars)
             \/ \E outcome \in Outcomes : RepeatCall(outcome)
    BY <1>a, <2>1 DEF AskModel, RestOfGraph, graphVars, RepeatCall
  <2>2. ASSUME call.task # "none"
        PROVE  /\ run.status = "running" /\ run.grounded = None
               /\ run.answer.kind \notin Knowledge
    BY <2>2 DEF Shape, CallAtNode, NodeOf, Tasks
  <2>3. ASSUME NEW outcome \in Outcomes, CallFails(outcome)
        PROVE  PublishInv'
    <3>1. call.task # "none"
      BY <2>3 DEF CallFails
    <3>2. CASE run' = Broken(outcome)
      BY <1>n, <3>2, OverIs DEF Broken
    <3>3. CASE run' = WithResolution(Ambiguous)
      BY <1>n, <2>2, <3>1, <3>3, ResolutionIs
    <3>4. CASE run' = WithDecision(None)
      BY <1>n, <2>2, <3>1, <3>4, DecisionIs
    <3>5. CASE run' = Go("verify_claims")
      BY <1>n, <2>2, <3>1, <3>5, GoIs
    <3>6. CASE run' = [Go("deterministic_response") EXCEPT
                         !.override = TRUE, !.error = Code(outcome)]
      BY <1>n, <2>2, <3>1, <3>6, GoIs
    <3>q. QED
      BY <2>3, <3>2, <3>3, <3>4, <3>5, <3>6, FailureLeads
  <2>4. CASE ResolverReplies
    BY <1>n, <2>2, <2>4, ResolutionIs DEF ResolverReplies
  <2>5. CASE ClassifierReplies
    BY <1>n, <2>2, <2>5, DecisionIs DEF ClassifierReplies
  <2>6. CASE ChatReplies
    BY <1>n, <2>2, <2>6, GoIs DEF ChatReplies
  <2>7. CASE GroundedReplies
    <3>1. PICK answer \in Answers(run.evidence) :
             run' = [Go("verify_claims") EXCEPT
                       !.grounded = IF CitesEvidence(answer, run.evidence)
                                    THEN answer ELSE None]
      BY <2>7 DEF GroundedReplies
    <3>2. /\ run'.node = "verify_claims" /\ run'.status = "running"
          /\ run'.evidence = run.evidence /\ run'.answer = run.answer
          /\ run'.grounded = IF CitesEvidence(answer, run.evidence) THEN answer ELSE None
      BY <2>2, <2>7, <3>1, GoIs DEF GroundedReplies
    <3>q. QED
      BY <2>2, <2>7, <3>2 DEF GroundedReplies
  <2>q. QED
    BY <1>e, <2>1, <2>3, <2>4, <2>5, <2>6, <2>7 DEF ModelStep
<1>f. ASSUME NEW mode \in {"enforce", "shadow"}, NEW nli \in BOOLEAN,
             VerifyClaims(mode, nli)
      PROVE  PublishInv'
  <2> DEFINE answer == IF run.grounded = None THEN Plainly("notice")
                       ELSE Published(run.grounded, mode, nli)
  <2>1. /\ run'.node = "finalize" /\ run'.status = "running" /\ run'.grounded = None
        /\ run'.answer = answer /\ run'.evidence = run.evidence
    <3> HIDE DEF answer
    <3>1. run' = [Go("finalize") EXCEPT !.answer = answer, !.billed = usage.tokens,
                                        !.grounded = None, !.required = {}]
      BY <1>f DEF VerifyClaims, answer
    <3>q. QED
      BY <1>f, <3>1 DEF VerifyClaims, At, Go, Shape
  <2>2. CASE run.grounded = None
    BY <2>1, <2>2
  <2>3. CASE run.grounded # None
    <3>1. run.grounded \in Answers(run.evidence) /\ CitesEvidence(run.grounded, run.evidence)
      BY <2>3
    <3>2. answer.kind \in Knowledge => Supported(answer, run.evidence)
      BY <2>3, <3>1, PublishedAnswer
    <3>q. QED
      BY <2>1, <3>2 DEF Supported
  <2>q. QED
    BY <2>2, <2>3
<1>g. CASE DeterministicResponse
  BY <1>n, <1>g, GoIs DEF DeterministicResponse, At
<1>h. CASE Finalize
  <2>1. run.node = "finalize" /\ run.grounded = None
    BY <1>h DEF Finalize, At
  <2>2. CASE run' = Over("failed", "INTERNAL_ERROR")
    BY <1>n, <2>2, OverIs
  <2>3. CASE run' = [Go("finalize") EXCEPT !.status = "completed"]
    <3>1. /\ run'.node = "finalize" /\ run'.status = "completed" /\ run'.grounded = None
          /\ run'.answer = run.answer /\ run'.evidence = run.evidence
      BY <2>1, <2>3, GoIs
    <3>q. QED
      BY <3>1
  <2>q. QED
    BY <1>h, <2>2, <2>3 DEF Finalize
<1>i. CASE StoreTurn
  BY <1>n, <1>i DEF StoreTurn
<1>j. CASE Initialize \/ ValidateInput \/ FailNode \/ ResolveByRule \/ ClassifyByRule
           \/ RetrieveDomain \/ FinishRetrieval
           \/ (\E interrupts \in BOOLEAN : HumanReview(interrupts))
           \/ \E failed \in BOOLEAN : RetrievalFallsBack(failed)
  <2>1. /\ run.status = "running" /\ run.grounded = None
        /\ run.answer.kind \notin Knowledge
    BY <1>j DEF Initialize, ValidateInput, FailNode, ResolveByRule, ClassifyByRule,
                RetrieveDomain, FinishRetrieval, HumanReview, RetrievalFallsBack, At
  <2>2. CASE FailNode
    BY <1>n, <2>2, OverIs DEF FailNode
  <2>3. CASE ResolveByRule
    BY <1>n, <2>1, <2>3, ResolutionIs DEF ResolveByRule
  <2>4. CASE ClassifyByRule
    BY <1>n, <2>1, <2>4, DecisionIs DEF ClassifyByRule
  <2>5. CASE RetrieveDomain
    BY <1>n, <2>1, <2>5 DEF RetrieveDomain, Shape
  <2>6. CASE Initialize \/ ValidateInput \/ FinishRetrieval
             \/ \E failed \in BOOLEAN : RetrievalFallsBack(failed)
    BY <1>n, <2>1, <2>6 DEF Initialize, ValidateInput, FinishRetrieval,
                 RetrievalFallsBack, Go, Shape
  <2>7. CASE \E interrupts \in BOOLEAN : HumanReview(interrupts)
    <3>1. CASE run' = [run EXCEPT !.status = "paused"]
      BY <1>n, <2>1, <2>7, <3>1 DEF HumanReview, At, Shape
    <3>2. CASE run' = [Go("deterministic_response") EXCEPT !.override = TRUE]
      BY <1>n, <2>1, <3>2, GoIs
    <3>q. QED
      BY <2>7, <3>1, <3>2 DEF HumanReview
  <2>q. QED
    BY <1>j, <2>2, <2>3, <2>4, <2>5, <2>6, <2>7
<1>q. QED
  BY <1>a, <1>b, <1>c, <1>d, <1>e, <1>f, <1>g, <1>h, <1>i, <1>j
     DEF Next, NodeStep, Streaming, vars, graphVars, AskStream

\* What the user reads as knowledge cites the evidence of this very search and
\* is true as far as the mode promises.
THEOREM KnowledgeIsSupported == Spec => []PublishedIsSupported
<1>1. PublishInv => PublishedIsSupported
  BY DEF PublishInv, Supported, Knowledge, PublishedIsSupported
<1>2. Shape /\ PublishInv /\ [Next]_vars => Shape' /\ PublishInv'
  BY StepShape, StepPublish
<1>q. QED
  BY <1>1, <1>2, InitShape, InitPublish, PTL DEF Spec

-----------------------------------------------------------------------------
(* The topics of a conversation *)

\* A topic that is pushed is there once.
LEMMA PushedIs ==
    ASSUME NEW S, NEW s \in Seq(S), NEW intent \in S
    PROVE  /\ PushTopic(s, intent) \in Seq(S)
           /\ Range(PushTopic(s, intent)) \subseteq Range(s) \cup {intent}
           /\ Distinct(s) => Distinct(PushTopic(s, intent))
<1> DEFINE w == Within(s, Range(s) \ {intent})
           p == PushTopic(s, intent)
<1>1. /\ w \in Seq(S) /\ Range(w) \subseteq Range(s) \ {intent}
      /\ Distinct(s) => Distinct(w)
  BY WithinIs
<1>2. /\ <<intent>> \in Seq(S) /\ Len(<<intent>>) = 1 /\ <<intent>>[1] = intent
      /\ p = <<intent>> \o w
  BY DEF PushTopic
<1> HIDE DEF w, p
<1>3. Len(w) \in Nat /\ \A i \in 1..Len(w) : w[i] \in Range(w)
  BY <1>1, RangeIs
<1>4. /\ p \in Seq(S) /\ Len(p) = 1 + Len(w)
      /\ p[1] = intent /\ \A i \in 1..Len(w) : p[i + 1] = w[i]
  BY <1>1, <1>2, <1>3, ConcatProperties
<1>5. \A i \in 1..Len(p) : i = 1 \/ \E j \in 1..Len(w) : i = j + 1
  <2>1. \A i \in 1..Len(p) : i = 1 \/ (i - 1 \in 1..Len(w) /\ i = (i - 1) + 1)
    BY <1>3, <1>4
  <2>q. QED
    BY <2>1
<1>6. Range(p) \subseteq Range(s) \cup {intent}
  <2>1. Range(p) = {p[i] : i \in 1..Len(p)}
    BY <1>4, RangeIs
  <2>q. QED
    BY <1>1, <1>3, <1>4, <1>5, <2>1
<1>7. ASSUME Distinct(s)
      PROVE  Distinct(p)
  <2>1. \A i \in 1..Len(w) : w[i] # intent
    BY <1>1, <1>3
  <2>2. Distinct(w)
    BY <1>1, <1>7
  <2>3. ASSUME NEW i \in 1..Len(p), NEW j \in 1..Len(p), p[i] = p[j]
        PROVE  i = j
    <3>1. CASE i = 1 /\ j # 1
      BY <1>4, <1>5, <2>1, <2>3, <3>1
    <3>2. CASE i # 1 /\ j = 1
      BY <1>4, <1>5, <2>1, <2>3, <3>2
    <3>3. CASE i # 1 /\ j # 1
      <4>1. PICK a \in 1..Len(w), b \in 1..Len(w) : i = a + 1 /\ j = b + 1
        BY <1>5, <3>3
      <4>q. QED
        BY <1>4, <2>2, <2>3, <4>1 DEF Distinct
    <3>q. QED
      BY <3>1, <3>2, <3>3
  <2>q. QED
    BY <2>3 DEF Distinct
<1>q. QED
  BY <1>4, <1>6, <1>7 DEF p

\* The intents of a decision are pushed one by one.
LEMMA PushFold ==
    ASSUME NEW S, NEW base \in Seq(S), NEW s \in Seq(S)
    PROVE  \E it : /\ PushedTopics(base, s) = it[1..Len(s)] /\ it[{}] = base
                   /\ \A k \in 1..Len(s) : it[1..k] = PushTopic(it[1..(k - 1)], s[k])
<1> DEFINE n == Len(s)
           Eq(it) == it = [t \in SUBSET (1..n) |->
                             IF t = {} THEN base
                             ELSE PushTopic(it[t \ {Max(t)}], s[Max(t)])]
           G == [p \in Seq(S) \X (1..n) |-> PushTopic(p[1], s[p[2]])]
           fold == CHOOSE it : Eq(it)
<1>1. DOMAIN s = 1..n /\ n \in Nat
  BY LenProperties
<1>2. PushedTopics(base, s) = fold[1..n]
  BY <1>1 DEF PushedTopics, FoldLeft, MapThenFoldSet
<1>3. G \in [Seq(S) \X (1..n) -> Seq(S)]
  <2>1. \A r \in Seq(S), k \in 1..n : PushTopic(r, s[k]) \in Seq(S)
    BY <1>1, PushedIs, ElementOfSeq
  <2>q. QED
    BY <2>1
<1>4. PICK f \in Folds(Seq(S), n, base, G) : TRUE
  <2> HIDE DEF G, n
  <2>q. QED
    BY <1>1, <1>3, FoldExists
<1>5. Eq(f)
  <2>1. ASSUME NEW t \in SUBSET (1..n), t # {}
        PROVE  f[t] = PushTopic(f[t \ {Max(t)}], s[Max(t)])
    <3>1. Max(t) \in 1..n /\ t \ {Max(t)} \in SUBSET (1..n)
      BY <1>1, <2>1, MaxIs
    <3>2. <<f[t \ {Max(t)}], Max(t)>> \in Seq(S) \X (1..n)
      BY <1>4, <3>1 DEF Folds
    <3>3. f[t] = G[<<f[t \ {Max(t)}], Max(t)>>]
      BY <1>4, <2>1 DEF Folds
    <3>q. QED
      BY <3>2, <3>3
  <2>2. f[{}] = base /\ DOMAIN f = SUBSET (1..n) /\ f = [t \in SUBSET (1..n) |-> f[t]]
    BY <1>4 DEF Folds
  <2> HIDE DEF G
  <2>q. QED
    BY <2>1, <2>2
<1>6. Eq(fold)
  <2> HIDE DEF Eq
  <2>q. QED
    BY <1>5
<1>7. fold[{}] = base
  BY <1>6
<1>8. ASSUME NEW k \in 1..n
      PROVE  fold[1..k] = PushTopic(fold[1..(k - 1)], s[k])
  <2>1. 1..k \in SUBSET (1..n) /\ k \in Nat /\ k # 0
    BY <1>1
  <2>2. Max(1..k) = k /\ (1..k) \ {k} = 1..(k - 1) /\ 1..k # {}
    BY <2>1, MaxOfInterval
  <2> HIDE DEF fold
  <2>q. QED
    BY <1>6, <2>1, <2>2
<1> HIDE DEF fold
<1>q. QED
  BY <1>2, <1>7, <1>8

\* All that pushing a sequence can bring in are its elements.
LEMMA PushedAll ==
    ASSUME NEW S, NEW base \in Seq(S), NEW s \in Seq(S)
    PROVE  LET f == PushedTopics(base, s)
           IN  /\ f \in Seq(S) /\ Range(f) \subseteq Range(base) \cup Range(s)
               /\ Distinct(base) => Distinct(f)
<1> DEFINE n == Len(s)
           All == {r \in Seq(S) : /\ Range(r) \subseteq Range(base) \cup Range(s)
                                  /\ Distinct(base) => Distinct(r)}
           Inv == [k \in 0..n |-> All]
<1>0. n \in Nat
  BY LenProperties
<1>1. PICK it : /\ PushedTopics(base, s) = it[1..n] /\ it[{}] = base
                /\ \A k \in 1..n : it[1..k] = PushTopic(it[1..(k - 1)], s[k])
  BY PushFold
<1>2. it[{}] \in Inv[0]
  BY <1>0, <1>1
<1>3. ASSUME NEW k \in 1..n, it[1..(k - 1)] \in Inv[k - 1]
      PROVE  it[1..k] \in Inv[k]
  <2>1. it[1..(k - 1)] \in All /\ s[k] \in S /\ s[k] \in Range(s)
    BY <1>0, <1>3, ElementOfSeq, RangeIs
  <2>2. PushTopic(it[1..(k - 1)], s[k]) \in All
    BY <2>1, PushedIs
  <2>q. QED
    BY <1>0, <1>1, <2>2
<1>4. it[1..n] \in Inv[n]
  <2> HIDE DEF Inv, n
  <2>q. QED
    BY <1>0, <1>2, <1>3, FoldStays
<1>q. QED
  BY <1>0, <1>1, <1>4

\* Topics are those that were kept, and the intents of the decision.
LEMMA AdvancedIs ==
    ASSUME NEW S, NEW kept \in Seq(S), NEW d, d = None \/ d.intents \in Seq(S),
           NEW reset \in BOOLEAN
    PROVE  LET next == Advanced(kept, d, reset)
               intents == IF d = None THEN {} ELSE Range(d.intents)
           IN  /\ next \in Seq(S)
               /\ Range(next) \subseteq (IF reset THEN {} ELSE Range(kept)) \cup intents
               /\ Distinct(kept) => Distinct(next)
               /\ Len(kept) <= MaxTopics => Len(next) <= MaxTopics
<1> DEFINE base == BaseTopics(kept, reset)
<1>1. /\ base \in Seq(S) /\ Range(base) = IF reset THEN {} ELSE Range(kept)
      /\ Distinct(kept) => Distinct(base)
      /\ Len(kept) <= MaxTopics => Len(base) <= MaxTopics
  <2>1. <<>> \in Seq(S) /\ Len(<<>>) = 0 /\ Range(<<>>) = {}
    BY EmptySeq, RangeOfEmpty
  <2>2. 0 <= MaxTopics
    BY GraphAssumption
  <2>3. Distinct(<<>>)
    BY <2>1 DEF Distinct
  <2>4. CASE reset
    BY <2>1, <2>2, <2>3, <2>4 DEF BaseTopics
  <2>5. CASE ~reset
    BY <2>5 DEF BaseTopics
  <2>q. QED
    BY <2>4, <2>5
<1>2. CASE d = None \/ d.intents = <<>>
  BY <1>1, <1>2 DEF Advanced
<1>3. CASE ~(d = None \/ d.intents = <<>>)
  <2> DEFINE f == PushedTopics(base, d.intents)
  <2>1. /\ f \in Seq(S) /\ Range(f) \subseteq Range(base) \cup Range(d.intents)
        /\ Distinct(base) => Distinct(f)
    BY <1>1, <1>3, PushedAll
  <2> HIDE DEF base
  <2>2. Advanced(kept, d, reset) = FirstOf(f, MaxTopics)
    BY <1>3 DEF Advanced, NewestTopics, base
  <2> HIDE DEF f
  <2>3. /\ FirstOf(f, MaxTopics) \in Seq(S) /\ Len(FirstOf(f, MaxTopics)) <= MaxTopics
        /\ Range(FirstOf(f, MaxTopics)) \subseteq Range(f)
        /\ Distinct(f) => Distinct(FirstOf(f, MaxTopics))
    BY <2>1, GraphAssumption, FirstOfIs
  <2>q. QED
    BY <1>1, <1>3, <2>1, <2>2, <2>3
<1>q. QED
  BY <1>2, <1>3

-----------------------------------------------------------------------------
(* Risks *)

RiskLevels == {"low", "medium", "high", "critical"}

LEMMA RiskOrderIs ==
    /\ Range(Risks) = RiskLevels
    /\ RiskOrder("low") = 1 /\ RiskOrder("medium") = 2
    /\ RiskOrder("high") = 3 /\ RiskOrder("critical") = 4
<1>1. /\ Risks[1] = "low" /\ Risks[2] = "medium" /\ Risks[3] = "high"
      /\ Risks[4] = "critical" /\ DOMAIN Risks = 1..4
  BY DEF Risks
<1>2. 1..4 = {1, 2, 3, 4}
  OBVIOUS
<1>3. Range(Risks) = RiskLevels
  BY <1>1, <1>2 DEF Range, RiskLevels
<1> HIDE DEF Risks
<1>4. ASSUME NEW r, NEW n \in 1..4, Risks[n] = r, \A i \in 1..4 : Risks[i] = r => i = n
      PROVE  RiskOrder(r) = n
  BY <1>4 DEF RiskOrder
<1>5. RiskOrder("low") = 1
  BY <1>1, <1>2, <1>4
<1>6. RiskOrder("medium") = 2
  BY <1>1, <1>2, <1>4
<1>7. RiskOrder("high") = 3
  BY <1>1, <1>2, <1>4
<1>8. RiskOrder("critical") = 4
  BY <1>1, <1>2, <1>4
<1>q. QED
  BY <1>3, <1>5, <1>6, <1>7, <1>8

\* The graver of two risks is one of them, and no lighter than either.
LEMMA GraverIs ==
    ASSUME NEW r \in RiskLevels, NEW s \in RiskLevels
    PROVE  /\ Graver(r, s) \in {r, s} /\ Graver(r, s) \in RiskLevels
           /\ RiskOrder(r) <= RiskOrder(Graver(r, s))
           /\ RiskOrder(s) <= RiskOrder(Graver(r, s))
           /\ RiskOrder(r) \in 1..4
<1>1. RiskOrder(r) \in 1..4 /\ RiskOrder(s) \in 1..4
  BY RiskOrderIs DEF RiskLevels
<1>2. Graver(r, s) = IF RiskOrder(r) < RiskOrder(s) THEN s ELSE r
  BY DEF Graver
<1>q. QED
  BY <1>1, <1>2

LEMMA FloorIsRisk ==
    ASSUME NEW intent
    PROVE  RiskFloorOf(intent) \in {"low", "medium", "high"}
<1> DEFINE high == intent = <<"account", "recover">>
           medium == intent \in {<<"membership", "refund">>, <<"order", "refund">>}
                    \cup {"account", "creator", "content", "community"} \X {"appeal"}
                    \cup {"content", "community"} \X {"report"}
<1>1. RiskFloorOf(intent) = CASE high -> "high" [] medium -> "medium" [] OTHER -> "low"
  BY DEF RiskFloorOf
<1>2. ~(high /\ medium)
  OBVIOUS
<1> HIDE DEF high, medium
<1>q. QED
  BY <1>1, <1>2

\* The floors of the intents are compared one by one.
LEMMA FloorFold ==
    ASSUME NEW S, NEW s \in Seq(S)
    PROVE  \E it : /\ GravestFloor(s) = it[1..Len(s)] /\ it[{}] = "low"
                   /\ \A k \in 1..Len(s) :
                        it[1..k] = Graver(it[1..(k - 1)], RiskFloorOf(s[k]))
<1> DEFINE n == Len(s)
           Eq(it) == it = [t \in SUBSET (1..n) |->
                             IF t = {} THEN "low"
                             ELSE Graver(it[t \ {Max(t)}], RiskFloorOf(s[Max(t)]))]
           G == [p \in RiskLevels \X (1..n) |-> Graver(p[1], RiskFloorOf(s[p[2]]))]
           fold == CHOOSE it : Eq(it)
<1>1. DOMAIN s = 1..n /\ n \in Nat
  BY LenProperties
<1>2. GravestFloor(s) = fold[1..n]
  BY <1>1 DEF GravestFloor, FoldLeft, MapThenFoldSet
<1>3. G \in [RiskLevels \X (1..n) -> RiskLevels] /\ "low" \in RiskLevels
  <2>1. \A r \in RiskLevels, k \in 1..n : Graver(r, RiskFloorOf(s[k])) \in RiskLevels
    BY GraverIs, FloorIsRisk DEF RiskLevels
  <2>q. QED
    BY <2>1 DEF RiskLevels
<1>4. PICK f \in Folds(RiskLevels, n, "low", G) : TRUE
  <2> HIDE DEF G, n
  <2>q. QED
    BY <1>1, <1>3, FoldExists
<1>5. Eq(f)
  <2>1. ASSUME NEW t \in SUBSET (1..n), t # {}
        PROVE  f[t] = Graver(f[t \ {Max(t)}], RiskFloorOf(s[Max(t)]))
    <3>1. Max(t) \in 1..n /\ t \ {Max(t)} \in SUBSET (1..n)
      BY <1>1, <2>1, MaxIs
    <3>2. <<f[t \ {Max(t)}], Max(t)>> \in RiskLevels \X (1..n)
      BY <1>4, <3>1 DEF Folds
    <3>3. f[t] = G[<<f[t \ {Max(t)}], Max(t)>>]
      BY <1>4, <2>1 DEF Folds
    <3>q. QED
      BY <3>2, <3>3
  <2>2. f[{}] = "low" /\ DOMAIN f = SUBSET (1..n) /\ f = [t \in SUBSET (1..n) |-> f[t]]
    BY <1>4 DEF Folds
  <2> HIDE DEF G
  <2>q. QED
    BY <2>1, <2>2
<1>6. Eq(fold)
  <2> HIDE DEF Eq
  <2>q. QED
    BY <1>5
<1>7. fold[{}] = "low"
  BY <1>6
<1>8. ASSUME NEW k \in 1..n
      PROVE  fold[1..k] = Graver(fold[1..(k - 1)], RiskFloorOf(s[k]))
  <2>1. 1..k \in SUBSET (1..n) /\ k \in Nat /\ k # 0
    BY <1>1
  <2>2. Max(1..k) = k /\ (1..k) \ {k} = 1..(k - 1) /\ 1..k # {}
    BY <2>1, MaxOfInterval
  <2> HIDE DEF fold
  <2>q. QED
    BY <1>6, <2>1, <2>2
<1> HIDE DEF fold
<1>q. QED
  BY <1>2, <1>7, <1>8

\* The gravest floor is no lighter than the floor of any intent, wherever it
\* stands.
LEMMA FloorIsGravest ==
    ASSUME NEW S, NEW s \in Seq(S)
    PROVE  /\ GravestFloor(s) \in RiskLevels
           /\ \A i \in Range(s) : RiskOrder(RiskFloorOf(i)) <= RiskOrder(GravestFloor(s))
<1> DEFINE n == Len(s)
           Above(k) == {r \in RiskLevels :
                          \A j \in 1..k : RiskOrder(RiskFloorOf(s[j])) <= RiskOrder(r)}
           Inv == [k \in 0..n |-> Above(k)]
<1>0. n \in Nat
  BY LenProperties
<1>1. PICK it : /\ GravestFloor(s) = it[1..n] /\ it[{}] = "low"
                /\ \A k \in 1..n : it[1..k] = Graver(it[1..(k - 1)], RiskFloorOf(s[k]))
  BY FloorFold
<1>2. it[{}] \in Inv[0]
  BY <1>0, <1>1 DEF RiskLevels
<1>3. ASSUME NEW k \in 1..n, it[1..(k - 1)] \in Inv[k - 1]
      PROVE  it[1..k] \in Inv[k]
  <2>0. k \in Nat /\ k - 1 \in 0..n /\ k \in 0..n
    BY <1>0
  <2>1. PICK r : r = it[1..(k - 1)] /\ r \in Above(k - 1)
    BY <1>3, <2>0
  <2> DEFINE f == RiskFloorOf(s[k])
             g == Graver(r, f)
  <2>2. r \in RiskLevels /\ f \in RiskLevels
    BY <2>1, FloorIsRisk DEF RiskLevels
  <2>3. /\ g \in RiskLevels /\ RiskOrder(r) <= RiskOrder(g) /\ RiskOrder(f) <= RiskOrder(g)
        /\ RiskOrder(r) \in 1..4 /\ RiskOrder(g) \in 1..4
    <3>1. g \in RiskLevels /\ RiskOrder(r) <= RiskOrder(g) /\ RiskOrder(f) <= RiskOrder(g)
          /\ RiskOrder(r) \in 1..4
      BY <2>2, GraverIs
    <3> HIDE DEF g
    <3>2. RiskOrder(g) \in 1..4
      BY <3>1, GraverIs
    <3>q. QED
      BY <3>1, <3>2
  <2>4. ASSUME NEW j \in 1..k
        PROVE  RiskOrder(RiskFloorOf(s[j])) <= RiskOrder(g)
    <3>1. CASE j = k
      BY <2>3, <3>1
    <3>2. CASE j # k
      <4>1. j \in 1..(k - 1)
        BY <2>0, <3>2
      <4>2. RiskOrder(RiskFloorOf(s[j])) <= RiskOrder(r)
        BY <2>1, <4>1
      <4>3. RiskFloorOf(s[j]) \in RiskLevels
        BY FloorIsRisk DEF RiskLevels
      <4>4. RiskOrder(RiskFloorOf(s[j])) \in 1..4
        BY <4>3, GraverIs
      <4> HIDE DEF g
      <4>q. QED
        BY <2>3, <4>2, <4>4
    <3>q. QED
      BY <3>1, <3>2
  <2>5. g \in Above(k)
    BY <2>3, <2>4
  <2>q. QED
    BY <1>1, <2>0, <2>1, <2>5
<1>4. it[1..n] \in Inv[n]
  <2> HIDE DEF Inv, n
  <2>q. QED
    BY <1>0, <1>2, <1>3, FoldStays
<1>5. GravestFloor(s) \in Above(n)
  BY <1>0, <1>1, <1>4
<1>6. Range(s) = {s[i] : i \in 1..n}
  BY RangeIs
<1>q. QED
  BY <1>5, <1>6

-----------------------------------------------------------------------------
(* Severe requests *)

Severe(d) ==
    /\ d.route = "supported"
    /\ \/ d.risk \in {"high", "critical"}
       \/ \E i \in Range(d.intents) : RiskFloorOf(i) = "high"

\* The policy only raises the risk: to the gravest floor at least, and to more
\* than the lowest when the request is unsafe.
LEMMA RiskRises ==
    ASSUME NEW q, NEW d, ValidDecision(d)
    PROVE  LET risk == Graver(d.risk, RiskFloor(q, d))
           IN  /\ risk \in RiskLevels
               /\ d.route = "unsafe" => risk # "low"
               /\ Severe(d) => risk \in {"high", "critical"}
<1> DEFINE floor == RiskFloor(q, d)
           risk == Graver(d.risk, floor)
<1>1. d.risk \in RiskLevels /\ d.intents \in Seq(Intents)
  BY RiskOrderIs DEF ValidDecision
<1>2. /\ GravestFloor(d.intents) \in RiskLevels
      /\ \A i \in Range(d.intents) :
            RiskOrder(RiskFloorOf(i)) <= RiskOrder(GravestFloor(d.intents))
  BY <1>1, FloorIsGravest
<1>3. floor = IF d.route = "unsafe" THEN IF q.danger THEN "critical" ELSE "medium"
              ELSE GravestFloor(d.intents)
  BY DEF RiskFloor
<1>4. floor \in RiskLevels
  BY <1>2, <1>3 DEF RiskLevels
<1> HIDE DEF floor
<1>5. /\ risk \in RiskLevels /\ RiskOrder(d.risk) <= RiskOrder(risk)
      /\ RiskOrder(floor) <= RiskOrder(risk)
  BY <1>1, <1>4, GraverIs
<1> HIDE DEF risk
<1>6. ASSUME NEW r \in RiskLevels, RiskOrder(r) <= RiskOrder(risk)
      PROVE  /\ r # "low" => risk # "low"
             /\ r \in {"high", "critical"} => risk \in {"high", "critical"}
  BY <1>5, <1>6, RiskOrderIs DEF RiskLevels
<1>7. d.route = "unsafe" => risk # "low"
  <2>1. d.route = "unsafe" => d.risk # "low"
    BY DEF ValidDecision
  <2>q. QED
    BY <1>1, <1>5, <1>6, <2>1
<1>8. ASSUME Severe(d)
      PROVE  risk \in {"high", "critical"}
  <2>1. CASE d.risk \in {"high", "critical"}
    BY <1>1, <1>5, <1>6, <2>1
  <2>2. CASE \E i \in Range(d.intents) : RiskFloorOf(i) = "high"
    <3>1. PICK i \in Range(d.intents) : RiskFloorOf(i) = "high"
      BY <2>2
    <3>2. floor = GravestFloor(d.intents)
      BY <1>3, <1>8 DEF Severe
    <3>3. RiskOrder("high") <= RiskOrder(floor)
      BY <1>2, <3>1, <3>2
    <3>4. floor \in {"high", "critical"}
      BY <1>4, <3>3, RiskOrderIs DEF RiskLevels
    <3>q. QED
      BY <1>4, <1>5, <1>6, <3>4
  <2>q. QED
    BY <1>8, <2>1, <2>2 DEF Severe
<1>q. QED
  BY <1>5, <1>7, <1>8 DEF risk, floor

\* A corrected decision keeps the route and the intents and is valid.
LEMMA CorrectedIs ==
    ASSUME NEW q, NEW d, ValidDecision(d)
    PROVE  LET c == Corrected(q, d)
           IN  /\ ValidDecision(c) /\ c.route = d.route /\ c.intents = d.intents
               /\ Severe(d) => c.risk \in {"high", "critical"}
<1> DEFINE risk == Graver(d.risk, RiskFloor(q, d))
           clarify == d.clarify \/ MissingParameter(q, d)
           c == Corrected(q, d)
<1>1. /\ risk \in RiskLevels
      /\ d.route = "unsafe" => risk # "low"
      /\ Severe(d) => risk \in {"high", "critical"}
  BY RiskRises
<1>2. clarify \in BOOLEAN
  BY DEF MissingParameter, ValidDecision
<1>3. c = IF risk = d.risk /\ clarify = d.clarify THEN d
          ELSE [d EXCEPT !.risk = risk, !.clarify = clarify, !.source = "hybrid"]
  BY DEF Corrected
<1> HIDE DEF risk, clarify, c
<1>4. CASE c = d
  BY <1>1, <1>3, <1>4 DEF ValidDecision, Severe, c
<1>5. CASE c = [d EXCEPT !.risk = risk, !.clarify = clarify, !.source = "hybrid"]
  <2> DEFINE Decisions == [route : Routes, intents : Seq(Intents),
                           entities : SUBSET EntityTypes, risk : Range(Risks),
                           clarify : BOOLEAN, source : {"model", "rule", "hybrid"}]
  <2>1. d \in Decisions /\ risk \in Range(Risks)
    BY <1>1, RiskOrderIs DEF ValidDecision
  <2>2. /\ c.route = d.route /\ c.intents = d.intents /\ c.risk = risk
        /\ c \in Decisions
    BY <1>2, <1>5, <2>1
  <2>3. /\ d.route = "supported" <=> d.intents # <<>>
        /\ IsInjective(d.intents)
    BY DEF ValidDecision
  <2>4. ValidDecision(c)
    BY <1>1, <2>2, <2>3 DEF ValidDecision
  <2>q. QED
    BY <1>1, <2>2, <2>4 DEF c
<1>q. QED
  BY <1>3, <1>4, <1>5

\* Where a decision of the model leads once the policy has seen it.
LEMMA HybridLeads ==
    ASSUME NEW q, NEW d, ValidDecision(d)
    PROVE  LET h == HybridDecision(q, d)
           IN  /\ h = None \/ ValidDecision(h)
               /\ h # None => h.intents = d.intents
               /\ Severe(d) => Target(h) = "human_review"
               /\ d.source = "model" /\ d.route = "unsafe" => Target(h) = "safety"
               /\ d.route = "unsafe" => Target(h) \in {"safety", "human_review"}
<1>1. CASE d.source # "model"
  BY <1>1 DEF HybridDecision, Target
<1>2. CASE d.source = "model"
  <2> DEFINE c == Corrected(q, d)
  <2>1. /\ ValidDecision(c) /\ c.route = d.route /\ c.intents = d.intents
        /\ Severe(d) => c.risk \in {"high", "critical"}
    BY CorrectedIs
  <2>2. HybridDecision(q, d) = c /\ c # None
    BY <1>2, <2>1, NoneIsNoDecision DEF HybridDecision
  <2> HIDE DEF c
  <2>3. Severe(d) => Target(c) = "human_review"
    BY <2>1, <2>2 DEF Target, Severe
  <2>4. d.route = "unsafe" => Target(c) = "safety"
    BY <2>1, <2>2 DEF Target
  <2>q. QED
    BY <2>1, <2>2, <2>3, <2>4
<1>q. QED
  BY <1>1, <1>2

\* A reply of the intent model is the last word on where the run goes: a severe
\* request meets neither model nor search after it.
ReviewInv ==
    /\ run.node # "finalize" => run.answer.kind = "none"
    /\ run.raw # None =>
          /\ run.node \in {"retrieve_knowledge", "generate_grounded", "verify_claims",
                           "general_chat", "human_review", "deterministic_response",
                           "finalize"}
          /\ Severe(run.raw) => run.target = "human_review"
          /\ run.raw.source = "model" /\ run.raw.route = "unsafe" => run.target = "safety"
          /\ Severe(run.raw) \/ run.raw.route = "unsafe" =>
                /\ run.node \in {"human_review", "deterministic_response", "finalize"}
                /\ run.answer.kind \in {"none", "fixed"}

LEMMA InitReview == Init => ReviewInv
BY DEF Init, NoRun, Plainly, ReviewInv

\* Person and refusal have their nodes.
LEMMA SafeNodes ==
    /\ NodeAfterIntent("human_review") = "human_review"
    /\ NodeAfterIntent("safety") = "deterministic_response"
BY DEF NodeAfterIntent

LEMMA StepReview ==
    ASSUME Shape, PublishInv, ReviewInv, [Next]_vars
    PROVE  ReviewInv'
<1> USE NoRunFields DEF NoRun, RunFields, ReviewInv, Plainly
<1>a. CASE UNCHANGED run
  BY <1>a
<1>n. ASSUME run'.raw = None, run'.node # "finalize" => run'.answer.kind = "none"
      PROVE  ReviewInv'
  BY <1>n
\* The step leaves the reply and the target alone.
<1>k. ASSUME run'.raw = run.raw, run'.target = run.target, run'.answer = run.answer,
             run.node # "finalize",
             run'.node \in {"human_review", "deterministic_response", "finalize"}
      PROVE  ReviewInv'
  BY <1>k
\* The step is one of a node no severe request comes to.
<1>m. ASSUME run'.raw = run.raw, run'.target = run.target,
             run.node \in {"retrieve_knowledge", "generate_grounded", "verify_claims",
                           "general_chat"},
             run'.node \in {"retrieve_knowledge", "generate_grounded", "verify_claims",
                            "deterministic_response", "finalize"},
             run'.node # "finalize" => run'.answer.kind = "none"
      PROVE  ReviewInv'
  BY <1>m
<1>b. ASSUME NEW q \in Questions, Send(q)
      PROVE  ReviewInv'
  BY <1>n, <1>b DEF Send
<1>c. CASE Resume
  <2>1. run.node = "human_review" /\ run.answer.kind = "none"
    BY <1>c DEF Resume, PublishInv
  <2>2. /\ run'.node = "deterministic_response" /\ run'.raw = run.raw
        /\ run'.target = run.target /\ run'.answer = run.answer
    BY <1>c DEF Resume, Shape
  <2>q. QED
    BY <1>k, <2>1, <2>2
<1>d. CASE Cancel
  BY <1>n, <1>d, OverIs DEF Cancel
<1>e. CASE ModelStep
  <2>1. CASE AskModel \/ (Backoff /\ UNCHANGED graphVars)
             \/ \E outcome \in Outcomes : RepeatCall(outcome)
    BY <1>a, <2>1 DEF AskModel, RestOfGraph, graphVars, RepeatCall
  <2>2. ASSUME NEW outcome \in Outcomes, CallFails(outcome)
        PROVE  ReviewInv'
    <3>2. CASE run' = Broken(outcome)
      BY <1>n, <3>2, OverIs DEF Broken
    <3>3. CASE run.node = "resolve_context" /\ run' = WithResolution(Ambiguous)
      BY <1>n, <3>3, ResolutionIs
    <3>4. CASE run.node = "classify_intent" /\ run' = WithDecision(None)
      BY <1>n, <3>4, DecisionIs
    <3>5. CASE run.node = "generate_grounded" /\ run' = Go("verify_claims")
      BY <1>m, <3>5, GoIs
    <3>6. CASE /\ run.node = "generate_grounded"
               /\ run' = [Go("deterministic_response") EXCEPT
                            !.override = TRUE, !.error = Code(outcome)]
      BY <1>m, <3>6, GoIs
    <3>q. QED
      BY <2>2, <3>2, <3>3, <3>4, <3>5, <3>6, FailureLeads
  <2>3. CASE ResolverReplies
    <3>1. run.node = "resolve_context"
      BY <2>3 DEF ResolverReplies, Shape, CallAtNode, NodeOf, Tasks
    <3>2. PICK r : run' = WithResolution(r)
      BY <2>3 DEF ResolverReplies
    <3>q. QED
      BY <1>n, <3>1, <3>2, ResolutionIs
  <2>4. CASE ClassifierReplies
    <3>1. run.node = "classify_intent" /\ run.answer.kind = "none"
      BY <2>4 DEF ClassifierReplies, Shape, CallAtNode, NodeOf, Tasks
    <3>2. PICK d \in ModelDecisions :
             run' = [WithDecision(HybridDecision(Asked, d)) EXCEPT !.raw = d]
      BY <2>4 DEF ClassifierReplies
    <3> DEFINE h == HybridDecision(Asked, d)
    <3>3. /\ ValidDecision(d)
          /\ Severe(d) => Target(h) = "human_review"
          /\ d.source = "model" /\ d.route = "unsafe" => Target(h) = "safety"
          /\ d.route = "unsafe" => Target(h) \in {"safety", "human_review"}
      BY GraphAssumption, HybridLeads
    <3> HIDE DEF h
    <3>4. /\ run'.raw = d /\ run'.target = Target(h) /\ run'.answer = run.answer
          /\ run'.node = NodeAfterIntent(Target(h))
      BY <3>2, DecisionIs DEF h
    <3>5. /\ Target(h) = "human_review" => run'.node = "human_review"
          /\ Target(h) = "safety" => run'.node = "deterministic_response"
      BY <3>4, SafeNodes
    <3>6. run'.node \in {"retrieve_knowledge", "general_chat", "human_review",
                         "deterministic_response"}
      BY <3>4, AfterIntent
    <3>q. QED
      BY <3>1, <3>3, <3>4, <3>5, <3>6
  <2>5. CASE GroundedReplies
    BY <1>m, <2>5, GoIs DEF GroundedReplies, Shape, CallAtNode, NodeOf, Tasks
  <2>6. CASE ChatReplies
    BY <1>m, <2>6, GoIs DEF ChatReplies, Shape, CallAtNode, NodeOf, Tasks
  <2>q. QED
    BY <1>e, <2>1, <2>2, <2>3, <2>4, <2>5, <2>6 DEF ModelStep
<1>f. ASSUME NEW mode \in {"enforce", "shadow"}, NEW nli \in BOOLEAN,
             VerifyClaims(mode, nli)
      PROVE  ReviewInv'
  <2> DEFINE answer == IF run.grounded = None THEN Plainly("notice")
                       ELSE Published(run.grounded, mode, nli)
  <2>1. run' = [Go("finalize") EXCEPT !.answer = answer, !.billed = usage.tokens,
                                      !.grounded = None, !.required = {}]
    BY <1>f DEF VerifyClaims
  <2> HIDE DEF answer
  <2>2. run'.node = "finalize" /\ run'.raw = run.raw /\ run'.target = run.target
    BY <2>1 DEF Go, Shape
  <2>q. QED
    BY <1>f, <1>m, <2>2 DEF VerifyClaims, At
<1>g. CASE DeterministicResponse
  <2>1. /\ run.node = "deterministic_response" /\ run'.node = "finalize"
        /\ run'.raw = run.raw /\ run'.target = run.target /\ run'.answer.kind = "fixed"
    BY <1>g, GoIs DEF DeterministicResponse, At
  <2>q. QED
    BY <2>1
<1>h. CASE Finalize
  <2>1. CASE run' = Over("failed", "INTERNAL_ERROR")
    BY <1>n, <2>1, OverIs
  <2>2. CASE run' = [Go("finalize") EXCEPT !.status = "completed"]
    <3>1. /\ run'.node = "finalize" /\ run'.raw = run.raw /\ run'.target = run.target
          /\ run'.answer = run.answer
      BY <2>2, GoIs
    <3>2. run.node = "finalize"
      BY <1>h DEF Finalize, At
    <3>q. QED
      BY <3>1, <3>2
  <2>q. QED
    BY <1>h, <2>1, <2>2 DEF Finalize
<1>i. CASE StoreTurn
  BY <1>n, <1>i DEF StoreTurn
<1>j. CASE Initialize \/ ValidateInput
  BY <1>n, <1>j, GoIs DEF Initialize, ValidateInput, At
<1>l. CASE FailNode
  BY <1>n, <1>l, OverIs DEF FailNode
<1>o. CASE ResolveByRule
  BY <1>n, <1>o, ResolutionIs DEF ResolveByRule, At
<1>p. CASE ClassifyByRule
  BY <1>n, <1>p, DecisionIs DEF ClassifyByRule, At
<1>r. ASSUME NEW interrupts \in BOOLEAN, HumanReview(interrupts)
      PROVE  ReviewInv'
  <2>0. run.node = "human_review"
    BY <1>r DEF HumanReview, At
  <2>1. CASE run' = [run EXCEPT !.status = "paused"]
    BY <1>k, <2>0, <2>1 DEF Shape
  <2>2. CASE run' = [Go("deterministic_response") EXCEPT !.override = TRUE]
    BY <1>k, <2>0, <2>2, GoIs
  <2>q. QED
    BY <1>r, <2>1, <2>2 DEF HumanReview
<1>s. CASE RetrieveDomain
  <2>1. /\ run.node = "retrieve_knowledge" /\ run'.node = run.node /\ run'.raw = run.raw
        /\ run'.target = run.target /\ run'.answer = run.answer
    BY <1>s DEF RetrieveDomain, At, Shape
  <2>q. QED
    BY <1>m, <2>1
<1>t. CASE FinishRetrieval \/ \E failed \in BOOLEAN : RetrievalFallsBack(failed)
  <2>1. /\ run.node = "retrieve_knowledge"
        /\ run'.node \in {"generate_grounded", "deterministic_response"}
        /\ run'.raw = run.raw /\ run'.target = run.target /\ run'.answer = run.answer
    BY <1>t DEF FinishRetrieval, RetrievalFallsBack, At, Go, Shape
  <2>q. QED
    BY <1>m, <2>1
<1>q. QED
  BY <1>a, <1>b, <1>c, <1>d, <1>e, <1>f, <1>g, <1>h, <1>i, <1>j, <1>l, <1>o, <1>p, <1>r,
     <1>s, <1>t
     DEF Next, NodeStep, Streaming, vars, graphVars, AskStream

\* A severe request waits for a person, an unsafe one is refused, and neither is
\* answered by the model or the search.
THEOREM SevereIsReviewed == Spec => []SevereGoesToReview
<1>1. ReviewInv => SevereGoesToReview
  BY DEF ReviewInv, Severe, SevereGoesToReview
<1>2. Shape /\ PublishInv /\ ReviewInv /\ [Next]_vars
        => Shape' /\ PublishInv' /\ ReviewInv'
  BY StepShape, StepPublish, StepReview
<1>q. QED
  BY <1>1, <1>2, InitShape, InitPublish, InitReview, PTL DEF Spec

-----------------------------------------------------------------------------
(* The topic of a short question *)

\* The rules resolve to a topic of the conversation, or to none.
LEMMA RuleResolves ==
    ASSUME NEW q, NEW kept \in Seq(Intents), ResolvedByRule(q, kept) # None
    PROVE  LET r == ResolvedByRule(q, kept)
           IN  /\ r.reset \in BOOLEAN
               /\ r.topic # None => r.topic \in Range(kept)
<1> DEFINE compatible == CompatibleTopics(q, kept)
<1>1. compatible \in Seq(Intents) /\ Range(compatible) \subseteq Range(kept)
  BY WithinIs DEF CompatibleTopics
<1>2. Len(compatible) = 1 => compatible[1] \in Range(compatible)
  <2> HIDE DEF compatible
  <2>q. QED
    BY <1>1, RangeIs
<1> HIDE DEF compatible
<1>3. ResolvedByRule(q, kept) =
        IF q.form # "ellipsis" THEN Standalone(q.form = "reset")
        ELSE IF Len(compatible) = 1 THEN Resolved(compatible[1]) ELSE None
  BY DEF ResolvedByRule, compatible
<1> DEFINE reset == q.form = "reset"
<1>4. reset \in BOOLEAN
  OBVIOUS
<1> HIDE DEF reset
<1>5. CASE q.form # "ellipsis"
  <2>1. ResolvedByRule(q, kept) = Standalone(reset)
    BY <1>3, <1>5 DEF reset
  <2>q. QED
    BY <1>4, <2>1 DEF Standalone
<1>6. CASE q.form = "ellipsis"
  <2>1. ResolvedByRule(q, kept) = Resolved(compatible[1]) /\ Len(compatible) = 1
    BY <1>3, <1>6
  <2>q. QED
    BY <1>1, <1>2, <2>1 DEF Resolved
<1>q. QED
  BY <1>5, <1>6

\* So does the model, whatever it replies.
LEMMA ModelResolves ==
    ASSUME NEW q, NEW kept \in Seq(Intents), NEW m
    PROVE  LET r == Validated(Candidates(q, kept), m)
           IN  /\ r.reset \in BOOLEAN
               /\ r.topic # None => r.topic \in Range(kept)
<1> DEFINE candidates == Candidates(q, kept)
<1>1. Range(candidates) \subseteq Range(kept)
  BY WithinIs DEF Candidates, CompatibleTopics
<1> HIDE DEF candidates
<1> DEFINE named == m.kind = "resolved" /\ m.query /\ m.key \in Range(candidates)
           alone == m.kind = "standalone" /\ m.query
<1>2. Validated(candidates, m) =
        CASE named -> Resolved(m.key) [] alone -> Standalone(FALSE) [] OTHER -> Ambiguous
  BY DEF Validated
<1>3. ~(named /\ alone)
  OBVIOUS
<1>4. named => m.key \in Range(kept)
  BY <1>1
<1> HIDE DEF named, alone
<1>q. QED
  BY <1>2, <1>3, <1>4 DEF Resolved, Standalone, Ambiguous, candidates

\* A rule decides for at most one intent.
LEMMA RuleDecides ==
    ASSUME NEW rule \in {"greeting", "transfer", "price"}
    PROVE  RuleDecision(rule).intents \in Seq(Intents)
<1> DEFINE transfer == <<"human_service", "transfer">>
           query == <<"membership", "query">>
<1>a. "human_service" \in Domains /\ "membership" \in Domains
  BY DEF Domains
<1>b. "transfer" \in Actions /\ "query" \in Actions
  BY DEF Actions
<1>0. transfer \in Intents /\ query \in Intents
  BY <1>a, <1>b DEF Intents
<1> HIDE DEF transfer, query
<1>1. <<>> \in Seq(Intents) /\ <<transfer>> \in Seq(Intents) /\ <<query>> \in Seq(Intents)
  BY <1>0, EmptySeq
<1> USE DEF transfer, query
<1>q. QED
  BY <1>1 DEF RuleDecision, LowRisk

IntentsOf(d) == IF d = None THEN {} ELSE Range(d.intents)

\* Topics, old and new, come from decisions of the model or of a rule: the kept
\* ones were confirmed, and the next ones will be when the turn is stored.
TopicsInv ==
    /\ topics \in Seq(Intents) /\ Range(topics) \subseteq confirmed
    /\ run.topic # None => run.topic \in confirmed
    /\ run.reset \in BOOLEAN
    /\ run.decision = None \/ run.decision.intents \in Seq(Intents)
    /\ run.next \in Seq(Intents)
    /\ Range(run.next) \subseteq (IF run.reset THEN {} ELSE confirmed)
                                   \cup IntentsOf(run.decision)

\* Until the intent is known nothing is decided.
EarlyInv ==
    /\ run.status = "running" /\ run.node \in {"initialize", "validate_input",
                                              "resolve_context"}
          => run.reset = FALSE /\ run.next = <<>>
    /\ run.status = "running" /\ run.node \in {"initialize", "validate_input", "resolve_context",
                                              "classify_intent"}
          => run.question \in QuestionType /\ run.decision = None

TopicInv == TopicsInv /\ EarlyInv

LEMMA InitTopic == Init => TopicInv
BY RangeOfEmpty, EmptySeq DEF Init, NoRun, TopicInv, TopicsInv, EarlyInv

\* A resolution of the topic keeps both parts.
LEMMA TopicResolved ==
    ASSUME Shape, TopicInv, run.status = "running", run.node = "resolve_context",
           NEW r, r.reset \in BOOLEAN, r.topic # None => r.topic \in Range(topics),
           run' = WithResolution(r), UNCHANGED <<topics, confirmed>>
    PROVE  TopicInv'
<1>1. /\ topics \in Seq(Intents) /\ Range(topics) \subseteq confirmed
      /\ run.topic # None => run.topic \in confirmed
      /\ run.reset = FALSE /\ run.decision = None /\ run.question \in QuestionType
      /\ run.next = <<>> /\ run.next \in Seq(Intents) /\ Range(run.next) = {}
  BY RangeOfEmpty DEF TopicInv, TopicsInv, EarlyInv
<1>2. run'.decision = None /\ run'.question = run.question
  BY <1>1, ResolutionIs DEF RunFields
<1>3. CASE r.kind = "ambiguous"
  <2>1. /\ run'.node = "deterministic_response" /\ run'.next = topics
        /\ run'.topic = run.topic /\ run'.reset = FALSE
    BY <1>1, <1>3, ResolutionIs
  <2>q. QED
    BY <1>1, <1>2, <2>1 DEF TopicInv, TopicsInv, EarlyInv, IntentsOf
<1>4. CASE r.kind # "ambiguous"
  <2>1. /\ run'.node = "classify_intent" /\ run'.next = run.next
        /\ run'.topic = r.topic /\ run'.reset = r.reset
    BY <1>4, ResolutionIs
  <2>q. QED
    BY <1>1, <1>2, <2>1 DEF TopicInv, TopicsInv, EarlyInv, IntentsOf
<1>q. QED
  BY <1>3, <1>4

\* So does a decision: the next topics are those that were kept, and its intents.
LEMMA TopicsAdvance ==
    ASSUME Shape, TopicInv, NEW d, d = None \/ d.intents \in Seq(Intents),
           run'.node \in {"retrieve_knowledge", "general_chat", "human_review",
                          "deterministic_response"},
           run'.topic = run.topic, run'.reset = run.reset, run'.decision = d,
           run'.next = Advanced(topics, d, run.reset), UNCHANGED <<topics, confirmed>>
    PROVE  TopicInv'
<1>1. /\ topics \in Seq(Intents) /\ Range(topics) \subseteq confirmed
      /\ run.topic # None => run.topic \in confirmed
      /\ run.reset \in BOOLEAN
  BY DEF TopicInv, TopicsInv
<1>2. /\ run'.next \in Seq(Intents)
      /\ Range(run'.next) \subseteq (IF run.reset THEN {} ELSE Range(topics)) \cup IntentsOf(d)
  <2> DEFINE next == Advanced(topics, d, run.reset)
  <2>1. /\ next \in Seq(Intents)
        /\ Range(next) \subseteq (IF run.reset THEN {} ELSE Range(topics))
                                   \cup IF d = None THEN {} ELSE Range(d.intents)
    BY <1>1, AdvancedIs
  <2> HIDE DEF next
  <2>q. QED
    BY <2>1 DEF IntentsOf, next
<1>3. Range(run'.next) \subseteq (IF run.reset THEN {} ELSE confirmed) \cup IntentsOf(d)
  BY <1>1, <1>2
<1>q. QED
  BY <1>1, <1>2, <1>3 DEF TopicInv, TopicsInv, EarlyInv

LEMMA StepTopic ==
    ASSUME Shape, TopicInv, [Next]_vars
    PROVE  TopicInv'
<1> USE NoRunFields
<1>a. ASSUME UNCHANGED <<run, topics, confirmed>>
      PROVE  TopicInv'
  BY <1>a DEF TopicInv, TopicsInv, EarlyInv
\* The step forgets the topic and the decision.
<1>n. ASSUME run'.topic = None, run'.reset = FALSE, run'.decision = None, run'.next = <<>>,
             run'.status = "running" => run'.question \in QuestionType,
             UNCHANGED <<topics, confirmed>>
      PROVE  TopicInv'
  <2>1. <<>> \in Seq(Intents) /\ Range(<<>>) = {}
    BY EmptySeq, RangeOfEmpty
  <2>q. QED
    BY <1>n, <2>1 DEF TopicInv, TopicsInv, EarlyInv
\* The step leaves the topic, the decision and what follows of them alone, and
\* comes to no early node, or to the next one.
<1>k. ASSUME run'.topic = run.topic, run'.reset = run.reset,
             run'.decision = run.decision, run'.next = run.next,
             run'.node \notin {"initialize", "validate_input", "resolve_context",
                               "classify_intent"},
             UNCHANGED <<topics, confirmed>>
      PROVE  TopicInv'
  BY <1>k DEF TopicInv, TopicsInv, EarlyInv, IntentsOf
<1>o. ASSUME NEW status, NEW error, status # "running", run' = Over(status, error),
             UNCHANGED <<topics, confirmed>>
      PROVE  TopicInv'
  <2>1. /\ run'.topic = NoRun.topic /\ run'.reset = NoRun.reset
        /\ run'.decision = NoRun.decision /\ run'.next = NoRun.next
        /\ run'.status = status
    BY <1>o, OverIs DEF RunFields
  <2>q. QED
    BY <1>n, <1>o, <2>1 DEF NoRun
<1>b. ASSUME NEW q \in Questions, Send(q)
      PROVE  TopicInv'
  <2>1. q \in QuestionType
    BY GraphAssumption
  <2>2. /\ run'.topic = None /\ run'.reset = FALSE /\ run'.decision = None
        /\ run'.next = <<>> /\ run'.question = q /\ UNCHANGED <<topics, confirmed>>
    BY <1>b DEF Send, NoRun
  <2>q. QED
    BY <1>n, <2>1, <2>2
<1>c. CASE Resume
  BY <1>k, <1>c DEF Resume, Shape, RunFields
<1>d. CASE Cancel
  BY <1>o, <1>d DEF Cancel, RestOfCall
<1>e. CASE ModelStep
  <2>1. CASE AskModel \/ (Backoff /\ UNCHANGED graphVars)
             \/ \E outcome \in Outcomes : RepeatCall(outcome)
    BY <1>a, <2>1 DEF AskModel, RestOfGraph, graphVars, RepeatCall
  <2>2. ASSUME NEW outcome \in Outcomes, CallFails(outcome)
        PROVE  TopicInv'
    <3>1. UNCHANGED <<topics, confirmed>> /\ run.status = "running"
      BY <2>2, FailureLeads DEF CallFails, RestOfCall
    <3>2. CASE run' = Broken(outcome)
      BY <1>o, <3>1, <3>2 DEF Broken
    <3>3. CASE run.node = "resolve_context" /\ run' = WithResolution(Ambiguous)
      <4>1. Ambiguous.reset \in BOOLEAN /\ Ambiguous.topic = None
        BY DEF Ambiguous
      <4>q. QED
        BY <3>1, <3>3, <4>1, TopicResolved
    <3>4. CASE run' = WithDecision(None)
      BY <3>1, <3>4, DecisionIs, AfterIntent, TopicsAdvance DEF RunFields
    <3>5. CASE run' = Go("verify_claims")
      BY <1>k, <3>1, <3>5, GoIs DEF RunFields
    <3>6. CASE run' = [Go("deterministic_response") EXCEPT
                         !.override = TRUE, !.error = Code(outcome)]
      BY <1>k, <3>1, <3>6, GoIs DEF RunFields
    <3>q. QED
      BY <2>2, <3>2, <3>3, <3>4, <3>5, <3>6, FailureLeads
  <2>3. CASE ResolverReplies
    <3>1. run.node = "resolve_context" /\ run.status = "running"
      BY <2>3 DEF ResolverReplies, Shape, CallAtNode, NodeOf, Tasks
    <3>2. PICK m : run' = WithResolution(Validated(Candidates(run.question, topics), m))
      BY <2>3 DEF ResolverReplies
    <3>3. UNCHANGED <<topics, confirmed>> /\ topics \in Seq(Intents)
      BY <2>3 DEF ResolverReplies, RestOfCall, TopicInv, TopicsInv
    <3> DEFINE r == Validated(Candidates(run.question, topics), m)
    <3>4. r.reset \in BOOLEAN /\ (r.topic # None => r.topic \in Range(topics))
      BY <3>3, ModelResolves
    <3> HIDE DEF r
    <3>q. QED
      BY <3>1, <3>2, <3>3, <3>4, TopicResolved DEF r
  <2>4. CASE ClassifierReplies
    <3>1. PICK d \in ModelDecisions :
             run' = [WithDecision(HybridDecision(Asked, d)) EXCEPT !.raw = d]
      BY <2>4 DEF ClassifierReplies
    <3> DEFINE h == HybridDecision(Asked, d)
    <3>2. h = None \/ h.intents \in Seq(Intents)
      BY GraphAssumption, HybridLeads DEF ValidDecision
    <3> HIDE DEF h
    <3>3. /\ run'.node = NodeAfterIntent(Target(h)) /\ run'.decision = h
          /\ run'.next = Advanced(topics, h, run.reset)
          /\ run'.topic = run.topic /\ run'.reset = run.reset
      BY <3>1, DecisionIs DEF RunFields, h
    <3>4. UNCHANGED <<topics, confirmed>>
      BY <2>4 DEF ClassifierReplies, RestOfCall
    <3>q. QED
      BY <3>2, <3>3, <3>4, AfterIntent, TopicsAdvance
  <2>5. CASE GroundedReplies \/ ChatReplies
    <3>1. /\ run'.node \in {"verify_claims", "finalize"}
          /\ run'.topic = run.topic /\ run'.reset = run.reset
          /\ run'.decision = run.decision /\ run'.next = run.next
      <4>1. CASE GroundedReplies
        <5>1. PICK answer : run' = [Go("verify_claims") EXCEPT !.grounded = answer]
          BY <4>1 DEF GroundedReplies
        <5>q. QED
          BY <5>1, GoIs DEF RunFields
      <4>2. CASE ChatReplies
        BY <4>2, GoIs DEF ChatReplies, RunFields
      <4>q. QED
        BY <2>5, <4>1, <4>2
    <3>2. UNCHANGED <<topics, confirmed>>
      BY <2>5 DEF GroundedReplies, ChatReplies, RestOfCall
    <3>q. QED
      BY <1>k, <3>1, <3>2
  <2>q. QED
    BY <1>e, <2>1, <2>2, <2>3, <2>4, <2>5 DEF ModelStep
<1>f. ASSUME NEW mode \in {"enforce", "shadow"}, NEW nli \in BOOLEAN,
             VerifyClaims(mode, nli)
      PROVE  TopicInv'
  <2> DEFINE answer == IF run.grounded = None THEN Plainly("notice")
                       ELSE Published(run.grounded, mode, nli)
  <2>1. run' = [Go("finalize") EXCEPT !.answer = answer, !.billed = usage.tokens,
                                      !.grounded = None, !.required = {}]
    BY <1>f DEF VerifyClaims
  <2> HIDE DEF answer
  <2>2. /\ run'.node = "finalize" /\ run'.topic = run.topic /\ run'.reset = run.reset
        /\ run'.decision = run.decision /\ run'.next = run.next
    BY <2>1, GoIs DEF RunFields
  <2>q. QED
    BY <1>f, <1>k, <2>2 DEF VerifyClaims, Rest
<1>h. CASE Finalize
  <2>0. UNCHANGED <<topics, confirmed>>
    BY <1>h DEF Finalize, Rest
  <2>1. CASE run' = Over("failed", "INTERNAL_ERROR")
    BY <1>o, <2>0, <2>1
  <2>2. CASE run' = [Go("finalize") EXCEPT !.status = "completed"]
    BY <1>k, <2>0, <2>2, GoIs DEF RunFields
  <2>q. QED
    BY <1>h, <2>1, <2>2 DEF Finalize
<1>i. CASE StoreTurn
  <2>1. /\ topics' = run.next
        /\ confirmed' = (IF run.reset THEN {} ELSE confirmed) \cup IntentsOf(run.decision)
        /\ run.status # "running"
    BY <1>i DEF StoreTurn, IntentsOf
  <2>2. /\ run'.topic = None /\ run'.reset = FALSE /\ run'.decision = None
        /\ run'.next = <<>> /\ run'.status # "running"
    BY <1>i DEF StoreTurn, NoRun
  <2>3. run.next \in Seq(Intents) /\ Range(run.next) \subseteq confirmed'
    BY <2>1 DEF TopicInv, TopicsInv
  <2>4. <<>> \in Seq(Intents) /\ Range(<<>>) = {}
    BY EmptySeq, RangeOfEmpty
  <2>q. QED
    BY <2>1, <2>2, <2>3, <2>4 DEF TopicInv, TopicsInv, EarlyInv
<1>j. CASE Initialize \/ ValidateInput
  <2>1. /\ run.status = "running" /\ run.node \in {"initialize", "validate_input"}
        /\ run'.node \in {"validate_input", "resolve_context", "fail"}
        /\ run'.topic = run.topic /\ run'.reset = run.reset /\ run'.next = run.next
        /\ run'.decision = run.decision /\ run'.question = run.question
        /\ run'.status = run.status /\ UNCHANGED <<topics, confirmed>>
    BY <1>j, GoIs DEF Initialize, ValidateInput, At, Rest, RunFields
  <2>2. /\ run.reset = FALSE /\ run.decision = None /\ run.question \in QuestionType
        /\ run.next = <<>>
    BY <2>1 DEF TopicInv, EarlyInv
  <2>q. QED
    BY <2>1, <2>2 DEF TopicInv, TopicsInv, EarlyInv, IntentsOf
<1>l. CASE FailNode
  BY <1>o, <1>l DEF FailNode, Rest
<1>p. CASE ResolveByRule
  <2> DEFINE r == ResolvedByRule(run.question, topics)
  <2>1. r.reset \in BOOLEAN /\ (r.topic # None => r.topic \in Range(topics))
    BY <1>p, RuleResolves DEF ResolveByRule, TopicInv, TopicsInv
  <2>2. /\ run.status = "running" /\ run.node = "resolve_context"
        /\ run' = WithResolution(r) /\ UNCHANGED <<topics, confirmed>>
    BY <1>p DEF ResolveByRule, At, Rest
  <2> HIDE DEF r
  <2>q. QED
    BY <2>1, <2>2, TopicResolved
<1>r. CASE ClassifyByRule
  <2>1. run.question \in QuestionType
    BY <1>r DEF ClassifyByRule, At, TopicInv, EarlyInv
  <2>2. Asked.rule \in {"none", "greeting", "transfer", "price"}
    BY <2>1 DEF Asked, Effective, QuestionType
  <2> DEFINE d == RuleDecision(Asked.rule)
  <2>3. d.intents \in Seq(Intents)
    BY <1>r, <2>2, RuleDecides DEF ClassifyByRule
  <2>4. run' = WithDecision(d) /\ UNCHANGED <<topics, confirmed>>
    BY <1>r DEF ClassifyByRule, Rest
  <2> HIDE DEF d
  <2>q. QED
    BY <2>3, <2>4, DecisionIs, AfterIntent, TopicsAdvance DEF RunFields
<1>s. CASE DeterministicResponse \/ (\E interrupts \in BOOLEAN : HumanReview(interrupts))
           \/ RetrieveDomain \/ FinishRetrieval
           \/ \E failed \in BOOLEAN : RetrievalFallsBack(failed)
  <2>1. /\ run'.node \in {"human_review", "retrieve_knowledge", "generate_grounded",
                          "deterministic_response", "finalize"}
        /\ run'.topic = run.topic /\ run'.reset = run.reset
        /\ run'.decision = run.decision /\ run'.next = run.next
    BY <1>s DEF DeterministicResponse, HumanReview, RetrieveDomain, FinishRetrieval,
                RetrievalFallsBack, At, Go, Shape, RunFields
  <2>2. UNCHANGED <<topics, confirmed>>
    BY <1>s DEF DeterministicResponse, HumanReview, RetrieveDomain, FinishRetrieval,
                RetrievalFallsBack, Rest
  <2>q. QED
    BY <1>k, <2>1, <2>2
<1>q. QED
  BY <1>a, <1>b, <1>c, <1>d, <1>e, <1>f, <1>h, <1>i, <1>j, <1>l, <1>p, <1>r, <1>s
     DEF Next, NodeStep, Streaming, vars, graphVars, AskStream

\* The topic a short question is completed with was named by an intent decision
\* after the user last dropped the subject.
THEOREM TopicIsConfirmed == Spec => []TopicWasConfirmed
<1>1. TopicInv => TopicWasConfirmed
  BY DEF TopicInv, TopicsInv, TopicWasConfirmed
<1>2. Shape /\ TopicInv /\ [Next]_vars => Shape' /\ TopicInv'
  BY StepShape, StepTopic
<1>q. QED
  BY <1>1, <1>2, InitShape, InitTopic, PTL DEF Spec

-----------------------------------------------------------------------------
(* The evidence of a search *)

HitsOf(domain) == [parent : {p \in Parents : DomainOf[p] = domain}, score : 0..2]

LEMMA ViewIs ==
    ASSUME NEW domain, NEW view \in Views(domain)
    PROVE  view \in Seq(HitsOf(domain))
<1>1. Hits(domain) = HitsOf(domain)
  BY DEF Hits, HitsOf
<1>2. view \in BoundedSeq(Hits(domain), CandidateK)
  BY DEF Views
<1>q. QED
  BY <1>1, <1>2, BoundedIsSeq

\* The second search adds hits of the same domain.
LEMMA WholeIs ==
    ASSUME NEW domain, NEW view \in Seq(HitsOf(domain)),
           NEW supplement \in Seq(HitsOf(domain)), NEW required
    PROVE  Supplemented(view, required, supplement) \in Seq(HitsOf(domain))
<1> DEFINE more == Within(supplement, {h \in Range(supplement) : h.parent \notin ParentsIn(view)})
<1>1. more \in Seq(HitsOf(domain))
  BY WithinIs
<1> HIDE DEF more
<1>2. view \o more \in Seq(HitsOf(domain))
  BY <1>1, ConcatProperties
<1>q. QED
  BY <1>2 DEF Supplemented, Merged, more

\* The first hit that covers an entity, if one does.
LEMMA CoveringIs ==
    ASSUME NEW domain, NEW view \in Seq(HitsOf(domain)), NEW e
    PROVE  LET c == Covering(e, view)
           IN  /\ c = 0 \/ (c \in 1..Len(view) /\ e \in CoverOf[view[c].parent])
               /\ e \in Covered(ParentsIn(view)) => c # 0
<1> DEFINE I == {i \in 1..Len(view) : e \in CoverOf[view[i].parent]}
<1>1. Covering(e, view) = IF I # {} THEN Min(I) ELSE 0
  BY DEF Covering, SelectInSeq
<1>2. Len(view) \in Nat /\ DOMAIN view = 1..Len(view)
  BY LenProperties
<1>3. I # {} => Min(I) \in I
  <2>1. SUFFICES ASSUME I # {}
                 PROVE  Min(I) \in I
    OBVIOUS
  <2>2. I \in SUBSET Nat
    BY <1>2
  <2> HIDE DEF I
  <2>3. \E m \in I : \A k \in I : m <= k
    BY <2>1, <2>2, LeastElement
  <2>q. QED
    BY <2>3 DEF Min
<1>4. e \in Covered(ParentsIn(view)) => I # {}
  BY <1>2 DEF Covered, ParentsIn
<1>5. \A i \in I : i # 0
  BY <1>2
<1>q. QED
  BY <1>1, <1>3, <1>4, <1>5

\* The chosen hits are hits of the view, no more than entities, and hold the
\* first one of each entity.
LEMMA ChosenIs ==
    ASSUME NEW domain, NEW view \in Seq(HitsOf(domain)), NEW required \in Seq(Entities)
    PROVE  LET c == Chosen(required, view)
           IN  /\ c \in Seq(HitsOf(domain)) /\ Range(c) \subseteq Range(view)
               /\ Len(c) <= Len(required)
               /\ \A e \in Range(required) :
                     Covering(e, view) # 0 => view[Covering(e, view)] \in Range(c)
<1> DEFINE covered == Within(required, {e \in Entities : Covering(e, view) # 0})
           hits == [i \in DOMAIN covered |-> view[Covering(covered[i], view)]]
<1>1. /\ covered \in Seq(Entities) /\ Len(covered) <= Len(required)
      /\ Range(covered) = Range(required) \cap {e \in Entities : Covering(e, view) # 0}
  BY WithinIs
<1> HIDE DEF covered
<1>2. /\ DOMAIN covered = 1..Len(covered) /\ Len(covered) \in Nat
      /\ Range(covered) = {covered[i] : i \in 1..Len(covered)}
      /\ Len(required) \in Nat /\ Range(required) \subseteq Entities
  BY <1>1, RangeIs
<1>3. ASSUME NEW i \in 1..Len(covered)
      PROVE  hits[i] \in HitsOf(domain) /\ hits[i] \in Range(view)
  <2>1. Covering(covered[i], view) # 0
    BY <1>1, <1>2
  <2>2. Covering(covered[i], view) \in 1..Len(view)
    BY <2>1, CoveringIs
  <2>3. view[Covering(covered[i], view)] \in HitsOf(domain)
    BY <2>2, ElementOfSeq
  <2>4. view[Covering(covered[i], view)] \in Range(view)
    BY <2>2, RangeIs
  <2>q. QED
    BY <1>2, <2>3, <2>4
<1>4. hits \in Seq(HitsOf(domain)) /\ Len(hits) = Len(covered)
  <2>1. hits \in [1..Len(covered) -> HitsOf(domain)]
    BY <1>2, <1>3
  <2> HIDE DEF hits
  <2>2. hits \in Seq(HitsOf(domain))
    BY <1>2, <2>1, IsASeq
  <2>q. QED
    BY <1>2, <2>1, <2>2, LenProperties
<1>5. Range(hits) = {hits[i] : i \in 1..Len(covered)}
  <2> HIDE DEF hits
  <2>q. QED
    BY <1>4, RangeIs
<1>6. \A e \in Range(required) : Covering(e, view) # 0 => view[Covering(e, view)] \in Range(hits)
  <2>1. SUFFICES ASSUME NEW e \in Range(required), Covering(e, view) # 0
                 PROVE  view[Covering(e, view)] \in Range(hits)
    OBVIOUS
  <2>2. PICK i \in 1..Len(covered) : covered[i] = e
    BY <1>1, <1>2, <2>1
  <2>3. hits[i] = view[Covering(e, view)]
    BY <1>2, <2>2
  <2> HIDE DEF hits
  <2>q. QED
    BY <1>5, <2>3
<1>7. Chosen(required, view) = Once(hits)
  BY DEF Chosen, covered
<1>8. Range(hits) \subseteq Range(view)
  BY <1>3, <1>5
<1> HIDE DEF hits
<1>9. /\ Once(hits) \in Seq(HitsOf(domain)) /\ Len(Once(hits)) <= Len(hits)
      /\ Range(Once(hits)) = Range(hits)
  BY <1>4, OnceIs
<1>10. Len(Once(hits)) <= Len(required)
  <2>1. Len(Once(hits)) \in Nat
    BY <1>9, LenProperties
  <2>q. QED
    BY <1>1, <1>2, <1>4, <1>9, <2>1
<1>q. QED
  BY <1>6, <1>7, <1>8, <1>9, <1>10

\* The order keeps what was chosen when it is no more than the domain may keep.
LEMMA OrderIs ==
    ASSUME NEW domain, NEW view \in Seq(HitsOf(domain)), NEW required \in Seq(Entities)
    PROVE  LET kept == ParentOrder(required, view)
           IN  /\ kept \in Seq(HitsOf(domain)) /\ Len(kept) <= TopK
               /\ Len(required) <= TopK => Range(Chosen(required, view)) \subseteq Range(kept)
<1> DEFINE chosen == Chosen(required, view)
           rest == Within(view, Range(view) \ Range(chosen))
           all == chosen \o rest
<1>1. /\ chosen \in Seq(HitsOf(domain)) /\ Len(chosen) <= Len(required)
      /\ Len(required) \in Nat
  BY ChosenIs, LenProperties
<1>2. rest \in Seq(HitsOf(domain))
  BY WithinIs
<1> HIDE DEF chosen, rest
<1>3. /\ all \in Seq(HitsOf(domain)) /\ Len(all) = Len(chosen) + Len(rest)
      /\ \A i \in 1..Len(chosen) : all[i] = chosen[i]
      /\ Len(chosen) \in Nat /\ Len(rest) \in Nat
  <2>1. Len(chosen) \in Nat /\ Len(rest) \in Nat
    BY <1>1, <1>2, LenProperties
  <2>2. /\ all \in Seq(HitsOf(domain)) /\ Len(all) = Len(chosen) + Len(rest)
        /\ \A i \in 1..(Len(chosen) + Len(rest)) :
              all[i] = IF i <= Len(chosen) THEN chosen[i] ELSE rest[i - Len(chosen)]
    BY <1>1, <1>2, ConcatProperties
  <2>q. QED
    BY <2>1, <2>2
<1> HIDE DEF all
<1> DEFINE kept == FirstOf(all, TopK)
           m == IF Len(all) < TopK THEN Len(all) ELSE TopK
<1>4. TopK \in Nat
  BY GroundedAssumption
<1>5. /\ kept \in Seq(HitsOf(domain)) /\ Len(kept) = m /\ m <= TopK
      /\ \A i \in 1..m : kept[i] = all[i]
  BY <1>3, <1>4, FirstOfIs
<1> HIDE DEF kept
<1>6. ASSUME Len(required) <= TopK
      PROVE  Range(chosen) \subseteq Range(kept)
  <2>1. \A i \in 1..Len(chosen) : i \in 1..m
    BY <1>1, <1>3, <1>4, <1>6
  <2>2. Range(chosen) = {chosen[i] : i \in 1..Len(chosen)}
    BY <1>1, RangeIs
  <2>3. Range(kept) = {kept[i] : i \in 1..m}
    BY <1>5, RangeIs
  <2> HIDE DEF m
  <2>4. \A i \in 1..Len(chosen) : chosen[i] = kept[i] /\ i \in 1..m
    BY <1>3, <1>5, <2>1
  <2>q. QED
    BY <2>2, <2>3, <2>4
<1>7. ParentOrder(required, view) = kept
  BY DEF ParentOrder, kept, all, rest, chosen
<1>q. QED
  BY <1>5, <1>6, <1>7 DEF chosen

\* An accepted search of a domain has parents of that domain, no more than TopK,
\* and they cover the entities of the question if these are no more than TopK.
LEMMA ResultIs ==
    ASSUME NEW domain, NEW view \in Seq(HitsOf(domain)),
           NEW supplement \in Seq(HitsOf(domain)), NEW required \in Seq(Entities)
    PROVE  LET r == PolicyResult(required, view, supplement)
           IN  /\ r.parents \in Seq(Parents) /\ Len(r.parents) <= TopK
               /\ \A p \in Range(r.parents) : DomainOf[p] = domain
               /\ r.quality \in {"answer", "clarify", "refuse"}
               /\ r.quality = "answer" => r.parents # <<>>
               /\ r.quality = "answer" /\ Len(required) <= TopK
                    => Range(required) \subseteq Covered(Range(r.parents))
<1> DEFINE whole == Supplemented(view, Range(required), supplement)
           kept == ParentOrder(required, whole)
           parents == [i \in DOMAIN kept |-> kept[i].parent]
           missing == Range(required) \ Covered(ParentsIn(whole))
           r == PolicyResult(required, view, supplement)
<1>1. whole \in Seq(HitsOf(domain))
  BY WholeIs
<1>2. r.parents = parents /\ r.quality = Quality(kept, missing)
  BY DEF PolicyResult
<1> HIDE DEF whole, r
<1>3. /\ kept \in Seq(HitsOf(domain)) /\ Len(kept) <= TopK
      /\ Len(required) <= TopK => Range(Chosen(required, whole)) \subseteq Range(kept)
  BY <1>1, OrderIs
<1> HIDE DEF kept
<1>4. /\ DOMAIN kept = 1..Len(kept) /\ Len(kept) \in Nat
      /\ Range(kept) = {kept[i] : i \in 1..Len(kept)}
      /\ \A i \in 1..Len(kept) : kept[i] \in HitsOf(domain)
  BY <1>3, RangeIs, ElementOfSeq
<1>5. \A i \in 1..Len(kept) : /\ kept[i].parent \in Parents /\ DomainOf[kept[i].parent] = domain
                              /\ kept[i].score \in 0..2
  BY <1>4 DEF HitsOf
<1>6. /\ parents \in Seq(Parents) /\ Len(parents) = Len(kept)
      /\ Range(parents) = {kept[i].parent : i \in 1..Len(kept)}
  <2>1. parents \in [1..Len(kept) -> Parents]
    BY <1>4, <1>5
  <2>2. \A i \in 1..Len(kept) : parents[i] = kept[i].parent
    BY <1>4
  <2> HIDE DEF parents
  <2>3. parents \in Seq(Parents)
    BY <1>4, <2>1, IsASeq
  <2>4. Len(parents) = Len(kept)
    BY <1>4, <2>1, <2>3, LenProperties
  <2>q. QED
    <3>1. Range(parents) = {parents[i] : i \in 1..Len(kept)}
      BY <2>3, <2>4, RangeIs
    <3>q. QED
      BY <2>2, <2>3, <2>4, <3>1
<1> HIDE DEF parents
<1>7. Quality(kept, missing) \in {"answer", "clarify", "refuse"}
  <2>1. kept # <<>> => kept[1].score \in 0..2
    <3>1. kept # <<>> => Len(kept) # 0
      BY <1>3, EmptySeq
    <3>q. QED
      BY <1>4, <1>5, <3>1
  <2>q. QED
    BY <2>1 DEF Quality
<1>8. Quality(kept, missing) = "answer" => kept # <<>> /\ missing = {}
  BY DEF Quality
<1>9. kept # <<>> => parents # <<>>
  BY <1>3, <1>6, EmptySeq
<1>10. ASSUME missing = {}, Len(required) <= TopK
       PROVE  Range(required) \subseteq Covered(Range(parents))
  <2>1. SUFFICES ASSUME NEW e \in Range(required)
                 PROVE  e \in Covered(Range(parents))
    OBVIOUS
  <2> DEFINE c == Covering(e, whole)
  <2>2. c \in 1..Len(whole) /\ e \in CoverOf[whole[c].parent] /\ c # 0
    BY <1>1, <1>10, CoveringIs
  <2>3. whole[c] \in Range(Chosen(required, whole))
    BY <1>1, <2>2, ChosenIs
  <2> HIDE DEF c
  <2>4. PICK i \in 1..Len(kept) : kept[i] = whole[c]
    BY <1>3, <1>4, <1>10, <2>3
  <2>5. kept[i].parent \in Range(parents) /\ e \in CoverOf[kept[i].parent]
    BY <1>6, <2>2, <2>4
  <2>q. QED
    BY <2>5 DEF Covered
<1> HIDE DEF missing
<1>11. \A p \in Range(parents) : DomainOf[p] = domain
  BY <1>5, <1>6
<1>12. Len(parents) <= TopK
  BY <1>3, <1>6
<1>q. QED
  BY <1>2, <1>6, <1>7, <1>8, <1>9, <1>10, <1>11, <1>12 DEF r

\* The domains to search are domains.
LEMMA SearchDomainsAre ==
    ASSUME NEW d, d.intents \in Seq(Intents)
    PROVE  SearchDomains(d) \in Seq(Domains)
<1> DEFINE named == [i \in DOMAIN d.intents |-> d.intents[i][1]]
           asked == Within(named, Domains \ {"human_service"})
<1>1. named \in Seq(Domains)
  <2>1. /\ DOMAIN d.intents = 1..Len(d.intents) /\ Len(d.intents) \in Nat
        /\ \A i \in 1..Len(d.intents) : d.intents[i] \in Intents
    BY LenProperties, ElementOfSeq
  <2>2. named \in [1..Len(d.intents) -> Domains]
    BY <2>1 DEF Intents
  <2> HIDE DEF named
  <2>q. QED
    BY <2>1, <2>2, IsASeq
<1> HIDE DEF named
<1>2. asked \in Seq(Domains)
  BY <1>1, WithinIs
<1> HIDE DEF asked
<1>3. Once(asked) \in Seq(Domains)
  BY <1>2, OnceIs
<1>q. QED
  BY <1>3 DEF SearchDomains, asked, named

\* What is required and what was found, with the domains that are still pending:
\* the evidence is full, or the question names more than a domain keeps, or all
\* of it is covered so far.
Sound(required, evidence, pending, domains) ==
    \/ Len(evidence) = MaxParents /\ (Len(domains) > 1 \/ TopK > MaxParents)
    \/ Cardinality(required) > TopK
    \/ /\ required \subseteq Covered(Range(evidence))
       /\ Range(domains) \subseteq Range(pending) \cup {DomainOf[p] : p \in Range(evidence)}

\* An accepted search of the next domain keeps it so.
LEMMA SearchAdds ==
    ASSUME NEW domains \in Seq(Domains), NEW pending \in Seq(Domains), pending # <<>>,
           Len(pending) <= Len(domains),
           NEW evidence \in Seq(Parents), Len(evidence) <= MaxParents,
           Len(pending) = Len(domains) => evidence = <<>>,
           NEW required, IsFiniteSet(required), NEW names, IsFiniteSet(names),
           NEW parents \in Seq(Parents), parents # <<>>, Len(parents) <= TopK,
           \A p \in Range(parents) : DomainOf[p] = pending[1],
           names \subseteq Covered(Range(parents)) \/ Cardinality(names) > TopK,
           Sound(required, evidence, pending, domains)
    PROVE  Sound(required \cup names, AddEvidence(evidence, parents), Tail(pending), domains)
<1> DEFINE c == Collect(evidence, parents, MaxParents)
           all == required \cup names
<1>1. MaxParents \in Nat /\ TopK \in Nat
  BY GroundedAssumption
<1>2. /\ c \in Seq(Parents) /\ Len(evidence) <= Len(c)
      /\ Range(evidence) \subseteq Range(c) /\ Len(c) <= MaxParents
      /\ \/ Range(parents) \subseteq Range(c)
         \/ Len(c) >= MaxParents /\ Len(evidence) + Len(parents) > MaxParents
  BY <1>1, CollectIs
<1> HIDE DEF c
<1>3. /\ Len(c) \in Nat /\ Len(evidence) \in Nat /\ Len(parents) \in Nat
      /\ Len(pending) \in Nat /\ Len(domains) \in Nat
  BY <1>2, LenProperties
<1>4. IsFiniteSet(all) /\ Cardinality(all) \in Nat
      /\ Cardinality(required) \in Nat /\ Cardinality(names) \in Nat
      /\ Cardinality(required) <= Cardinality(all) /\ Cardinality(names) <= Cardinality(all)
  <2>1. IsFiniteSet(all)
    BY FS_Union
  <2>2. required \subseteq all /\ names \subseteq all
    OBVIOUS
  <2> HIDE DEF all
  <2>q. QED
    BY <2>1, <2>2, FS_Subset, FS_CardinalityType
<1>5. Len(pending) # 0
  BY <1>3, EmptySeq
<1>6. CASE Cardinality(required) > TopK \/ Cardinality(names) > TopK
  <2>1. Cardinality(all) > TopK
    BY <1>1, <1>4, <1>6
  <2>q. QED
    BY <2>1 DEF Sound, all
<1>7. CASE Len(evidence) = MaxParents /\ (Len(domains) > 1 \/ TopK > MaxParents)
  <2>1. Len(c) = MaxParents
    BY <1>1, <1>2, <1>3, <1>7
  <2>q. QED
    BY <1>7, <2>1 DEF Sound, AddEvidence, c
<1>8. CASE Len(c) >= MaxParents /\ Len(evidence) + Len(parents) > MaxParents
  <2>1. Len(c) = MaxParents
    BY <1>1, <1>2, <1>3, <1>8
  <2>2. CASE Len(pending) = Len(domains)
    <3>1. Len(evidence) = 0
      BY <2>2, EmptySeq
    <3>2. TopK > MaxParents
      BY <1>1, <1>3, <1>8, <3>1
    <3>q. QED
      BY <2>1, <3>2 DEF Sound, AddEvidence, c
  <2>3. CASE Len(pending) # Len(domains)
    <3>1. Len(domains) > 1
      BY <1>3, <1>5, <2>3
    <3>q. QED
      BY <2>1, <3>1 DEF Sound, AddEvidence, c
  <2>q. QED
    BY <2>2, <2>3
<1>9. CASE /\ Range(parents) \subseteq Range(c) /\ names \subseteq Covered(Range(parents))
           /\ required \subseteq Covered(Range(evidence))
           /\ Range(domains) \subseteq Range(pending)
                                        \cup {DomainOf[p] : p \in Range(evidence)}
  <2>1. all \subseteq Covered(Range(c))
    BY <1>2, <1>9 DEF Covered
  <2>2. PICK p \in Range(parents) : DomainOf[p] = pending[1]
    <3>1. Len(parents) # 0
      BY <1>3, EmptySeq
    <3>2. Range(parents) = {parents[i] : i \in 1..Len(parents)}
      BY RangeIs
    <3>3. 1 \in 1..Len(parents)
      BY <1>3, <3>1
    <3>4. parents[1] \in Range(parents)
      BY <3>2, <3>3
    <3>q. QED
      BY <3>4
  <2>3. Range(pending) \subseteq {pending[1]} \cup Range(Tail(pending))
    <3>1. /\ Tail(pending) \in Seq(Domains) /\ Len(Tail(pending)) = Len(pending) - 1
          /\ \A i \in 1..(Len(pending) - 1) : Tail(pending)[i] = pending[i + 1]
      BY HeadTailProperties
    <3>2. /\ Range(pending) = {pending[i] : i \in 1..Len(pending)}
          /\ Range(Tail(pending)) = {Tail(pending)[i] : i \in 1..(Len(pending) - 1)}
      BY <3>1, RangeIs
    <3>3. ASSUME NEW i \in 1..Len(pending), i # 1
          PROVE  pending[i] \in Range(Tail(pending))
      <4>1. i - 1 \in 1..(Len(pending) - 1)
        BY <1>3, <3>3
      <4>2. Tail(pending)[i - 1] = pending[i]
        <5>1. (i - 1) + 1 = i
          BY <3>3
        <5>q. QED
          BY <3>1, <4>1, <5>1
      <4>q. QED
        BY <3>2, <4>1, <4>2
    <3>q. QED
      BY <3>2, <3>3
  <2>4. Range(domains) \subseteq Range(Tail(pending)) \cup {DomainOf[q] : q \in Range(c)}
    BY <1>2, <1>9, <2>2, <2>3
  <2>q. QED
    BY <2>1, <2>4 DEF Sound, AddEvidence, c, all
<1>q. QED
  BY <1>2, <1>6, <1>7, <1>8, <1>9 DEF Sound

EarlyNodes == {"initialize", "validate_input", "resolve_context", "classify_intent"}

\* The evidence through the graph: nothing before the intent is known, then what
\* the searched domains gave.
EvidenceInv ==
    /\ run.evidence \in Seq(Parents) /\ Distinct(run.evidence)
    /\ Len(run.evidence) <= MaxParents
    /\ IsFiniteSet(run.required)
    /\ run.quality \in {"answer", "clarify", "refuse"}
    /\ run.node \in EarlyNodes =>
          run.required = {} /\ run.evidence = <<>> /\ run.quality = "answer"
    /\ run.node \in {"retrieve_knowledge", "generate_grounded"} =>
          LET domains == SearchDomains(run.decision)
          IN  /\ run.pending \in Seq(Domains) /\ domains \in Seq(Domains)
              /\ Len(run.pending) <= Len(domains)
              /\ Len(run.pending) = Len(domains) => run.evidence = <<>>
              /\ run.quality = "answer" =>
                    Sound(run.required, run.evidence, run.pending, domains)
    /\ run.node = "generate_grounded" => run.pending = <<>> /\ run.quality = "answer"

\* Nothing found and nothing required.
LEMMA EmptyEvidence ==
    /\ <<>> \in Seq(Parents) /\ Distinct(<<>>) /\ Len(<<>>) = 0 /\ Len(<<>>) <= MaxParents
    /\ IsFiniteSet({}) /\ Covered(Range(<<>>)) = {}
<1>1. MaxParents \in Nat
  BY GroundedAssumption
<1>2. Len(<<>>) = 0 /\ <<>> \in Seq(Parents)
  BY EmptySeq
<1>3. 1..Len(<<>>) = {}
  BY <1>2
<1>q. QED
  BY <1>1, <1>2, <1>3, FS_EmptySet, RangeOfEmpty DEF Distinct, Covered

LEMMA InitEvidence == Init => EvidenceInv
BY EmptyEvidence DEF Init, NoRun, EvidenceInv, EarlyNodes

\* The decision of the intent sets the domains to search.
LEMMA SearchBegins ==
    ASSUME Shape, EvidenceInv, run.node = "classify_intent",
           NEW d, d = None \/ d.intents \in Seq(Intents),
           run'.node = NodeAfterIntent(Target(d)), run'.decision = d,
           run'.pending = IF d = None THEN <<>> ELSE SearchDomains(d),
           run'.evidence = run.evidence, run'.required = run.required,
           run'.quality = run.quality
    PROVE  EvidenceInv'
<1>1. run.required = {} /\ run.evidence = <<>> /\ run.quality = "answer"
  BY DEF EvidenceInv, EarlyNodes
<1>2. /\ run'.node \in {"retrieve_knowledge", "general_chat", "human_review",
                        "deterministic_response"}
      /\ d = None => run'.node = "human_review"
  BY AfterIntent DEF Target, NodeAfterIntent
<1>3. CASE run'.node # "retrieve_knowledge"
  BY <1>1, <1>2, <1>3, EmptyEvidence DEF EvidenceInv, EarlyNodes
<1>4. CASE run'.node = "retrieve_knowledge"
  <2> DEFINE domains == SearchDomains(d)
  <2>1. d # None /\ domains \in Seq(Domains) /\ run'.pending = domains
    BY <1>2, <1>4, SearchDomainsAre
  <2>2. Len(domains) <= Len(domains)
    <3>1. Len(domains) \in Nat
      BY <2>1, LenProperties
    <3>q. QED
      BY <3>1
  <2>3. SearchDomains(run'.decision) = domains
    OBVIOUS
  <2> HIDE DEF domains
  <2>4. Sound(run'.required, run'.evidence, run'.pending, domains)
    BY <1>1, <2>1, EmptyEvidence DEF Sound
  <2>q. QED
    BY <1>1, <1>4, <2>1, <2>2, <2>3, <2>4, EmptyEvidence DEF EvidenceInv, EarlyNodes
<1>q. QED
  BY <1>3, <1>4

\* A search of one domain.
LEMMA DomainSearched ==
    ASSUME Shape, EvidenceInv, RetrieveDomain
    PROVE  EvidenceInv'
<1> DEFINE domains == SearchDomains(run.decision)
           domain == run.pending[1]
<1>1. /\ run.node = "retrieve_knowledge" /\ run.pending # <<>>
      /\ run.pending \in Seq(Domains) /\ domains \in Seq(Domains)
      /\ Len(run.pending) <= Len(domains)
      /\ Len(run.pending) = Len(domains) => run.evidence = <<>>
      /\ run.quality = "answer" => Sound(run.required, run.evidence, run.pending, domains)
      /\ run.evidence \in Seq(Parents) /\ Distinct(run.evidence)
      /\ Len(run.evidence) <= MaxParents /\ IsFiniteSet(run.required)
      /\ run.quality \in {"answer", "clarify", "refuse"}
  BY DEF RetrieveDomain, At, EvidenceInv
<1>2. /\ Len(run.pending) \in Nat /\ Len(domains) \in Nat /\ Len(run.pending) # 0
      /\ domain \in Domains
      /\ Tail(run.pending) \in Seq(Domains) /\ Len(Tail(run.pending)) = Len(run.pending) - 1
  <2>1. Len(run.pending) \in Nat /\ Len(domains) \in Nat /\ Len(run.pending) # 0
    BY <1>1, LenProperties, EmptySeq
  <2>2. 1 \in 1..Len(run.pending)
    BY <2>1
  <2>q. QED
    BY <1>1, <2>1, <2>2, ElementOfSeq, HeadTailProperties
<1>3. PICK search \in Searches[domain] :
         run' = [run EXCEPT !.pending = Tail(@),
                            !.required = @ \cup search.required,
                            !.quality = Stricter(@, search.result.quality),
                            !.evidence = AddEvidence(@, search.result.parents)]
  BY DEF RetrieveDomain
<1>4. PICK required \in {s \in BoundedSeq(Entities, Cardinality(Entities)) : IsInjective(s)},
           view \in Views(domain), supplement \in Views(domain) :
         search = [required |-> Range(required),
                   result |-> PolicyResult(required, view, supplement)]
  BY <1>2, <1>3 DEF Searches
<1> DEFINE r == PolicyResult(required, view, supplement)
           names == Range(required)
           evidence == AddEvidence(run.evidence, r.parents)
           quality == Stricter(run.quality, r.quality)
<1>5. /\ required \in Seq(Entities) /\ IsInjective(required)
      /\ view \in Seq(HitsOf(domain)) /\ supplement \in Seq(HitsOf(domain))
  BY <1>4, BoundedIsSeq, ViewIs
<1>6. /\ r.parents \in Seq(Parents) /\ Len(r.parents) <= TopK
      /\ \A p \in Range(r.parents) : DomainOf[p] = domain
      /\ r.quality \in {"answer", "clarify", "refuse"}
      /\ r.quality = "answer" => r.parents # <<>>
      /\ r.quality = "answer" /\ Len(required) <= TopK
            => names \subseteq Covered(Range(r.parents))
  BY <1>5, ResultIs
<1>7. /\ IsFiniteSet(names) /\ Cardinality(names) = Len(required) /\ Len(required) \in Nat
      /\ TopK \in Nat /\ MaxParents \in Nat
  BY <1>5, InjectiveIsDistinct, DistinctCount, LenProperties, GroundedAssumption
<1>8. /\ run'.pending = Tail(run.pending) /\ run'.required = run.required \cup names
      /\ run'.quality = quality /\ run'.evidence = evidence
      /\ run'.node = run.node /\ run'.decision = run.decision
  BY <1>3, <1>4 DEF Shape, RunFields
<1> HIDE DEF r, names, domains, domain
<1>9. /\ quality \in {"answer", "clarify", "refuse"}
      /\ quality = "answer" => run.quality = "answer" /\ r.quality = "answer"
  BY <1>1, <1>6 DEF Stricter, Strictness
<1>10. /\ evidence \in Seq(Parents) /\ Distinct(evidence) /\ Len(evidence) <= MaxParents
  <2> DEFINE c == Collect(run.evidence, r.parents, MaxParents)
  <2>1. c \in Seq(Parents) /\ Distinct(c) /\ Len(c) <= MaxParents
    BY <1>1, <1>6, <1>7, CollectIs
  <2> HIDE DEF c
  <2>q. QED
    BY <2>1 DEF AddEvidence, c
<1>11. quality = "answer" =>
          Sound(run.required \cup names, evidence, Tail(run.pending), domains)
  <2>1. SUFFICES ASSUME quality = "answer"
                 PROVE  Sound(run.required \cup names, evidence, Tail(run.pending), domains)
    OBVIOUS
  <2>2. names \subseteq Covered(Range(r.parents)) \/ Cardinality(names) > TopK
    BY <1>6, <1>7, <1>9, <2>1
  <2>3. /\ r.parents # <<>>
        /\ Sound(run.required, run.evidence, run.pending, domains)
        /\ \A p \in Range(r.parents) : DomainOf[p] = run.pending[1]
    BY <1>1, <1>6, <1>9, <2>1 DEF domain
  <2>q. QED
    BY <1>1, <1>6, <1>7, <2>2, <2>3, SearchAdds
<1>12. IsFiniteSet(run.required \cup names)
  BY <1>1, <1>7, FS_Union
<1> HIDE DEF evidence, quality
<1>13. /\ Len(Tail(run.pending)) <= Len(domains) /\ Len(Tail(run.pending)) # Len(domains)
  BY <1>1, <1>2
<1>14. SearchDomains(run'.decision) = domains
  BY <1>8 DEF domains
<1>q. QED
  BY <1>1, <1>2, <1>8, <1>9, <1>10, <1>11, <1>12, <1>13, <1>14 DEF EvidenceInv, EarlyNodes

LEMMA StepEvidence ==
    ASSUME Shape, UsageInv, PublishInv, TopicInv, EvidenceInv, [Next]_vars
    PROVE  EvidenceInv'
<1> USE NoRunFields DEF RunFields
<1>a. ASSUME UNCHANGED run
      PROVE  EvidenceInv'
  BY <1>a DEF EvidenceInv
\* The step forgets the search.
<1>n. ASSUME run'.required = {}, run'.evidence = <<>>, run'.quality = "answer",
             run'.node \notin {"retrieve_knowledge", "generate_grounded"}
      PROVE  EvidenceInv'
  BY <1>n, EmptyEvidence DEF EvidenceInv
\* The step leads from an early node to another one, or past the search.
<1>k. ASSUME run'.evidence = run.evidence, run'.required = run.required,
             run'.quality = run.quality,
             run'.node \notin {"retrieve_knowledge", "generate_grounded"},
             run'.node \in EarlyNodes => run.node \in EarlyNodes
      PROVE  EvidenceInv'
  BY <1>k DEF EvidenceInv
<1>b. ASSUME NEW q \in Questions, Send(q)
      PROVE  EvidenceInv'
  BY <1>b, <1>n DEF Send, NoRun
<1>c. CASE Resume
  BY <1>c, <1>k DEF Resume, Shape, EarlyNodes
<1>o. ASSUME NEW status, NEW error, run' = Over(status, error)
      PROVE  EvidenceInv'
  BY <1>o, <1>n, OverIs DEF NoRun
<1>d. CASE Cancel
  BY <1>d, <1>o DEF Cancel
<1>e. CASE ModelStep
  <2>1. CASE AskModel \/ (Backoff /\ UNCHANGED graphVars)
             \/ \E outcome \in Outcomes : RepeatCall(outcome)
    BY <1>a, <2>1 DEF AskModel, RestOfGraph, graphVars, RepeatCall
  <2>2. ASSUME NEW outcome \in Outcomes, CallFails(outcome)
        PROVE  EvidenceInv'
    <3>1. CASE run' = Broken(outcome)
      BY <1>o, <3>1 DEF Broken
    <3>2. CASE run.node = "resolve_context" /\ run' = WithResolution(Ambiguous)
      BY <1>k, <3>2, ResolutionIs DEF EarlyNodes
    <3>3. CASE run.node = "classify_intent" /\ run' = WithDecision(None)
      BY <3>3, DecisionIs, SearchBegins
    <3>4. CASE run' = Go("verify_claims")
      BY <1>k, <3>4, GoIs DEF EarlyNodes
    <3>5. CASE run' = [Go("deterministic_response") EXCEPT
                         !.override = TRUE, !.error = Code(outcome)]
      BY <1>k, <3>5, GoIs DEF EarlyNodes
    <3>q. QED
      BY <2>2, <3>1, <3>2, <3>3, <3>4, <3>5, FailureLeads
  <2>3. CASE ResolverReplies
    <3>1. run.node = "resolve_context"
      BY <2>3 DEF ResolverReplies, Shape, CallAtNode, NodeOf, Tasks
    <3>2. PICK r : run' = WithResolution(r)
      BY <2>3 DEF ResolverReplies
    <3>q. QED
      BY <1>k, <3>1, <3>2, ResolutionIs DEF EarlyNodes
  <2>4. CASE ClassifierReplies
    <3>1. run.node = "classify_intent"
      BY <2>4 DEF ClassifierReplies, Shape, CallAtNode, NodeOf, Tasks
    <3>2. PICK d \in ModelDecisions :
             run' = [WithDecision(HybridDecision(Asked, d)) EXCEPT !.raw = d]
      BY <2>4 DEF ClassifierReplies
    <3> DEFINE h == HybridDecision(Asked, d)
    <3>3. h = None \/ h.intents \in Seq(Intents)
      BY GraphAssumption, HybridLeads DEF ValidDecision
    <3> HIDE DEF h
    <3>4. /\ run'.node = NodeAfterIntent(Target(h)) /\ run'.decision = h
          /\ run'.pending = IF h = None THEN <<>> ELSE SearchDomains(h)
          /\ run'.evidence = run.evidence /\ run'.required = run.required
          /\ run'.quality = run.quality
      BY <3>2, DecisionIs DEF h
    <3>q. QED
      BY <3>1, <3>3, <3>4, SearchBegins
  <2>5. CASE GroundedReplies
    <3>1. PICK answer : run' = [Go("verify_claims") EXCEPT !.grounded = answer]
      BY <2>5 DEF GroundedReplies
    <3>q. QED
      BY <1>k, <3>1, GoIs DEF EarlyNodes
  <2>6. CASE ChatReplies
    BY <1>k, <2>6, GoIs DEF ChatReplies, EarlyNodes
  <2>q. QED
    BY <1>e, <2>1, <2>2, <2>3, <2>4, <2>5, <2>6 DEF ModelStep
<1>f. ASSUME NEW mode \in {"enforce", "shadow"}, NEW nli \in BOOLEAN,
             VerifyClaims(mode, nli)
      PROVE  EvidenceInv'
  <2> DEFINE answer == IF run.grounded = None THEN Plainly("notice")
                       ELSE Published(run.grounded, mode, nli)
  <2>1. run' = [Go("finalize") EXCEPT !.answer = answer, !.billed = usage.tokens,
                                      !.grounded = None, !.required = {}]
    BY <1>f DEF VerifyClaims
  <2> HIDE DEF answer
  <2>2. /\ run'.node = "finalize" /\ run'.evidence = run.evidence
        /\ run'.required = {} /\ run'.quality = run.quality
    BY <2>1, GoIs
  <2>q. QED
    BY <2>2, EmptyEvidence DEF EvidenceInv, EarlyNodes
<1>h. CASE Finalize
  <2>1. CASE run' = Over("failed", "INTERNAL_ERROR")
    BY <1>o, <2>1
  <2>2. CASE run' = [Go("finalize") EXCEPT !.status = "completed"]
    BY <1>k, <2>2, GoIs DEF EarlyNodes
  <2>q. QED
    BY <1>h, <2>1, <2>2 DEF Finalize
<1>i. CASE StoreTurn
  <2>1. run.node \in {"finalize", "human_review"}
    BY <1>i DEF StoreTurn, UsageInv, BilledInv, PublishInv
  <2>q. QED
    BY <1>i, <1>n, <2>1 DEF StoreTurn, NoRun
<1>j. CASE Initialize \/ ValidateInput
  BY <1>j, <1>k, GoIs DEF Initialize, ValidateInput, At, EarlyNodes
<1>l. CASE FailNode
  BY <1>o, <1>l DEF FailNode
<1>p. CASE ResolveByRule
  BY <1>k, <1>p, ResolutionIs DEF ResolveByRule, At, EarlyNodes
<1>r. CASE ClassifyByRule
  <2>1. run.question \in QuestionType
    BY <1>r DEF ClassifyByRule, At, TopicInv, EarlyInv
  <2>2. Asked.rule \in {"none", "greeting", "transfer", "price"}
    BY <2>1 DEF Asked, Effective, QuestionType
  <2> DEFINE d == RuleDecision(Asked.rule)
  <2>3. d.intents \in Seq(Intents)
    BY <1>r, <2>2, RuleDecides DEF ClassifyByRule
  <2>4. run' = WithDecision(d) /\ run.node = "classify_intent"
    BY <1>r DEF ClassifyByRule, At
  <2> HIDE DEF d
  <2>5. /\ run'.node = NodeAfterIntent(Target(d)) /\ run'.decision = d
        /\ run'.pending = IF d = None THEN <<>> ELSE SearchDomains(d)
        /\ run'.evidence = run.evidence /\ run'.required = run.required
        /\ run'.quality = run.quality
    BY <2>4, DecisionIs
  <2>q. QED
    BY <2>3, <2>4, <2>5, SearchBegins
<1>s. CASE FinishRetrieval
  <2>1. CASE Accepted(run.quality) /\ run' = Go("generate_grounded")
    <3>1. /\ run'.node = "generate_grounded" /\ run'.pending = run.pending
          /\ run'.decision = run.decision /\ run'.evidence = run.evidence
          /\ run'.required = run.required /\ run'.quality = run.quality
      BY <2>1, GoIs
    <3>2. /\ run.node = "retrieve_knowledge" /\ run.pending = <<>> /\ run.quality = "answer"
      BY <1>s, <2>1 DEF FinishRetrieval, At, Accepted
    <3>q. QED
      BY <3>1, <3>2 DEF EvidenceInv, EarlyNodes
  <2>2. CASE run' = [Go("deterministic_response") EXCEPT !.override = TRUE, !.evidence = <<>>]
    <3>1. /\ run'.node = "deterministic_response" /\ run'.evidence = <<>>
          /\ run'.required = run.required /\ run'.quality = run.quality
      BY <2>2, GoIs
    <3>q. QED
      BY <3>1, EmptyEvidence DEF EvidenceInv, EarlyNodes
  <2>q. QED
    BY <1>s, <2>1, <2>2 DEF FinishRetrieval
<1>t. ASSUME NEW failed \in BOOLEAN, RetrievalFallsBack(failed)
      PROVE  EvidenceInv'
  <2>1. /\ run'.node = "deterministic_response" /\ run'.evidence = <<>>
        /\ run'.required = run.required /\ run'.quality = run.quality
    BY <1>t, GoIs DEF RetrievalFallsBack
  <2>q. QED
    BY <2>1, EmptyEvidence DEF EvidenceInv, EarlyNodes
<1>u. CASE DeterministicResponse \/ (\E interrupts \in BOOLEAN : HumanReview(interrupts))
  <2>1. /\ run'.node \in {"human_review", "deterministic_response", "finalize"}
        /\ run'.evidence = run.evidence
        /\ run'.required = run.required /\ run'.quality = run.quality
    BY <1>u DEF DeterministicResponse, HumanReview, At, Go, Shape
  <2>q. QED
    BY <1>k, <2>1 DEF EarlyNodes
<1>q. QED
  BY <1>a, <1>b, <1>c, <1>d, <1>e, <1>f, <1>h, <1>i, <1>j, <1>l, <1>p, <1>r, <1>s, <1>t,
     <1>u, DomainSearched
     DEF Next, NodeStep, Streaming, vars, graphVars, AskStream

\* The model is asked for a grounded answer only with evidence that names every
\* product and every domain of the question, or is full, or when the question
\* names more products than a domain keeps parents.
THEOREM EvidenceIsSufficient == Spec => []EvidenceCoversQuestion
<1>1. EvidenceInv => EvidenceCoversQuestion
  <2>1. SUFFICES ASSUME EvidenceInv, run.node = "generate_grounded"
                 PROVE  EvidenceCoversQuestion
    BY DEF EvidenceCoversQuestion
  <2>2. /\ Sound(run.required, run.evidence, run.pending, SearchDomains(run.decision))
        /\ run.pending = <<>>
    BY <2>1 DEF EvidenceInv
  <2>q. QED
    BY <2>1, <2>2, RangeOfEmpty DEF Sound, EvidenceCoversQuestion
<1>2. /\ Shape /\ UsageInv /\ PublishInv /\ TopicInv /\ EvidenceInv /\ [Next]_vars
            => Shape' /\ UsageInv' /\ PublishInv' /\ TopicInv' /\ EvidenceInv'
  BY StepShape, StepRecords, StepBilled, StepPublish, StepTopic, StepEvidence DEF UsageInv
<1>q. QED
  BY <1>1, <1>2, InitShape, InitUsage, InitPublish, InitTopic, InitEvidence, PTL DEF Spec

-----------------------------------------------------------------------------
(* Types and bounds *)

\* The steps on the longest way to a node.
WayTo(node) ==
    CASE node \in {"none", "initialize"} -> 0
      [] node = "validate_input" -> 1
      [] node \in {"resolve_context", "fail"} -> 2
      [] node = "classify_intent" -> 3
      [] node \in {"retrieve_knowledge", "general_chat", "human_review"} -> 4
      [] node = "generate_grounded" -> 5
      [] node \in {"verify_claims", "deterministic_response"} -> 6
      [] node = "finalize" -> 7

\* Where a run is: the graph has no cycle, so its sum of steps never comes to
\* the limit that validate_input enforces.
PlaceInv ==
    /\ run.status \in {"none", "running", "paused", "completed", "failed", "cancelled"}
    /\ run.node \in Nodes \cup {"none"}
    /\ run.steps \in Nat
    /\ run.steps <= WayTo(run.node) + IF run.status = "completed" THEN 1 ELSE 0

LEMMA InitPlace == Init => PlaceInv
BY DEF Init, NoRun, PlaceInv, WayTo

LEMMA WaysAre ==
    ASSUME NEW node \in Nodes \cup {"none"}
    PROVE  WayTo(node) \in 0..7
BY DEF Nodes, WayTo

LEMMA StepPlace ==
    ASSUME Shape, PublishInv, PlaceInv, [Next]_vars
    PROVE  PlaceInv'
<1> USE NoRunFields DEF RunFields
<1>a. ASSUME UNCHANGED run
      PROVE  PlaceInv'
  BY <1>a DEF PlaceInv
\* One step on.
<1>g. ASSUME NEW node \in Nodes, run.status = "running" \/ run.status = "paused",
             WayTo(run.node) + 1 <= WayTo(node),
             run'.node = node, run'.steps = run.steps + 1, run'.status = "running"
      PROVE  PlaceInv'
  <2>1. run.steps \in Nat /\ run.steps <= WayTo(run.node) + 0
    BY <1>g DEF PlaceInv
  <2>2. WayTo(node) \in Nat /\ WayTo(run.node) \in Nat
    BY <1>g, WaysAre DEF PlaceInv
  <2>3. run.steps + 1 \in Nat /\ run.steps + 1 <= WayTo(node) + 0
    BY <1>g, <2>1, <2>2
  <2>q. QED
    BY <1>g, <2>3 DEF PlaceInv
\* The next node as a set.
<1>h. ASSUME run.status = "running", run'.status = "running", run'.steps = run.steps + 1,
             \/ run.node = "initialize" /\ run'.node = "validate_input"
             \/ run.node = "validate_input" /\ run'.node \in {"resolve_context", "fail"}
             \/ run.node = "resolve_context"
                /\ run'.node \in {"deterministic_response", "classify_intent"}
             \/ run.node = "classify_intent"
                /\ run'.node \in {"retrieve_knowledge", "general_chat", "human_review",
                                  "deterministic_response"}
             \/ run.node \in {"retrieve_knowledge", "human_review"}
                /\ run'.node = "deterministic_response"
             \/ run.node = "retrieve_knowledge" /\ run'.node = "generate_grounded"
             \/ run.node = "generate_grounded"
                /\ run'.node \in {"deterministic_response", "verify_claims"}
             \/ run.node \in {"verify_claims", "deterministic_response", "general_chat"}
                /\ run'.node = "finalize"
      PROVE  PlaceInv'
  <2>1. run'.node \in Nodes /\ WayTo(run.node) + 1 <= WayTo(run'.node)
    BY <1>h DEF Nodes, WayTo
  <2>q. QED
    BY <1>g, <1>h, <2>1
<1>o. ASSUME NEW status \in {"failed", "cancelled"}, NEW error, run' = Over(status, error)
      PROVE  PlaceInv'
  <2>1. run'.status = status /\ run'.node = "none" /\ run'.steps = 0
    BY <1>o, OverIs DEF NoRun
  <2>q. QED
    BY <2>1 DEF PlaceInv, WayTo
<1>b. ASSUME NEW q \in Questions, Send(q)
      PROVE  PlaceInv'
  BY <1>b DEF Send, NoRun, PlaceInv, Nodes, WayTo
<1>c. CASE Resume
  <2>1. /\ run.status = "paused" /\ run.node = "human_review"
        /\ run'.node = "deterministic_response" /\ run'.steps = run.steps + 1
        /\ run'.status = "running"
    BY <1>c DEF Resume, PublishInv, Shape
  <2>2. "deterministic_response" \in Nodes
        /\ WayTo("human_review") + 1 <= WayTo("deterministic_response")
    BY DEF Nodes, WayTo
  <2>q. QED
    BY <1>g, <2>1, <2>2
<1>d. CASE Cancel
  BY <1>d, <1>o DEF Cancel
<1>e. CASE ModelStep
  <2>1. CASE AskModel \/ (Backoff /\ UNCHANGED graphVars)
             \/ \E outcome \in Outcomes : RepeatCall(outcome)
    BY <1>a, <2>1 DEF AskModel, RestOfGraph, graphVars, RepeatCall
  <2>2. ASSUME NEW outcome \in Outcomes, CallFails(outcome)
        PROVE  PlaceInv'
    <3>0. run.status = "running"
      BY <2>2, FailureLeads
    <3>1. CASE run' = Broken(outcome)
      BY <1>o, <3>1 DEF Broken
    <3>2. CASE run.node = "resolve_context" /\ run' = WithResolution(Ambiguous)
      BY <1>h, <3>0, <3>2, ResolutionIs
    <3>3. CASE run.node = "classify_intent" /\ run' = WithDecision(None)
      BY <1>h, <3>0, <3>3, DecisionIs, AfterIntent
    <3>4. CASE run.node = "generate_grounded" /\ run' = Go("verify_claims")
      BY <1>h, <3>0, <3>4, GoIs
    <3>5. CASE /\ run.node = "generate_grounded"
               /\ run' = [Go("deterministic_response") EXCEPT
                         !.override = TRUE, !.error = Code(outcome)]
      BY <1>h, <3>0, <3>5, GoIs
    <3>q. QED
      BY <2>2, <3>1, <3>2, <3>3, <3>4, <3>5, FailureLeads
  <2>3. CASE ResolverReplies
    <3>1. run.node = "resolve_context" /\ run.status = "running"
      BY <2>3 DEF ResolverReplies, Shape, CallAtNode, NodeOf, Tasks
    <3>2. PICK r : run' = WithResolution(r)
      BY <2>3 DEF ResolverReplies
    <3>q. QED
      BY <1>h, <3>1, <3>2, ResolutionIs
  <2>4. CASE ClassifierReplies
    <3>1. run.node = "classify_intent" /\ run.status = "running"
      BY <2>4 DEF ClassifierReplies, Shape, CallAtNode, NodeOf, Tasks
    <3>2. PICK h, d : run' = [WithDecision(h) EXCEPT !.raw = d]
      BY <2>4 DEF ClassifierReplies
    <3>q. QED
      BY <1>h, <3>1, <3>2, DecisionIs, AfterIntent
  <2>5. CASE GroundedReplies
    <3>1. run.node = "generate_grounded" /\ run.status = "running"
      BY <2>5 DEF GroundedReplies, Shape, CallAtNode, NodeOf, Tasks
    <3>2. PICK answer : run' = [Go("verify_claims") EXCEPT !.grounded = answer]
      BY <2>5 DEF GroundedReplies
    <3>q. QED
      BY <1>h, <3>1, <3>2, GoIs
  <2>6. CASE ChatReplies
    <3>1. run.node = "general_chat" /\ run.status = "running"
      BY <2>6 DEF ChatReplies, Shape, CallAtNode, NodeOf, Tasks
    <3>q. QED
      BY <1>h, <2>6, <3>1, GoIs DEF ChatReplies
  <2>q. QED
    BY <1>e, <2>1, <2>2, <2>3, <2>4, <2>5, <2>6 DEF ModelStep
<1>f. ASSUME NEW mode \in {"enforce", "shadow"}, NEW nli \in BOOLEAN,
             VerifyClaims(mode, nli)
      PROVE  PlaceInv'
  <2> DEFINE answer == IF run.grounded = None THEN Plainly("notice")
                       ELSE Published(run.grounded, mode, nli)
  <2>1. /\ run' = [Go("finalize") EXCEPT !.answer = answer, !.billed = usage.tokens,
                                      !.grounded = None, !.required = {}]
        /\ run.node = "verify_claims" /\ run.status = "running"
    BY <1>f DEF VerifyClaims, At
  <2> HIDE DEF answer
  <2>q. QED
    BY <1>h, <2>1, GoIs
<1>i. CASE Finalize
  <2>1. CASE run' = Over("failed", "INTERNAL_ERROR")
    BY <1>o, <2>1
  <2>2. CASE run' = [Go("finalize") EXCEPT !.status = "completed"]
    <3>1. /\ run'.node = "finalize" /\ run'.steps = run.steps + 1 /\ run'.status = "completed"
          /\ run.node = "finalize" /\ run.status = "running"
      BY <1>i, <2>2, GoIs DEF Finalize, At
    <3>2. run.steps + 1 \in Nat /\ run.steps + 1 <= 7 + 1
      BY <3>1 DEF PlaceInv, WayTo
    <3>q. QED
      BY <3>1, <3>2 DEF PlaceInv, Nodes, WayTo
  <2>q. QED
    BY <1>i, <2>1, <2>2 DEF Finalize
<1>j. CASE StoreTurn
  BY <1>j DEF StoreTurn, NoRun, PlaceInv
<1>k. CASE Initialize \/ ValidateInput
  BY <1>k, <1>h, GoIs DEF Initialize, ValidateInput, At
<1>l. CASE FailNode
  BY <1>o, <1>l DEF FailNode
<1>p. CASE ResolveByRule
  BY <1>h, <1>p, ResolutionIs DEF ResolveByRule, At
<1>r. CASE ClassifyByRule
  BY <1>h, <1>r, DecisionIs, AfterIntent DEF ClassifyByRule, At
<1>s. CASE FinishRetrieval \/ \E failed \in BOOLEAN : RetrievalFallsBack(failed)
  <2>1. /\ run.status = "running" /\ run.node = "retrieve_knowledge"
        /\ run'.node \in {"generate_grounded", "deterministic_response"}
        /\ run'.steps = run.steps + 1 /\ run'.status = run.status
    BY <1>s DEF FinishRetrieval, RetrievalFallsBack, At, Go, Shape
  <2>q. QED
    BY <1>h, <2>1
<1>t. CASE RetrieveDomain
  <2>1. run'.node = run.node /\ run'.steps = run.steps /\ run'.status = run.status
    BY <1>t DEF RetrieveDomain, Shape
  <2>q. QED
    BY <2>1 DEF PlaceInv
<1>u. CASE DeterministicResponse
  BY <1>h, <1>u, GoIs DEF DeterministicResponse, At
<1>v. ASSUME NEW interrupts \in BOOLEAN, HumanReview(interrupts)
      PROVE  PlaceInv'
  <2>1. CASE run' = [run EXCEPT !.status = "paused"]
    BY <1>v, <2>1 DEF HumanReview, At, PlaceInv, Shape
  <2>2. CASE run' = [Go("deterministic_response") EXCEPT !.override = TRUE]
    BY <1>h, <1>v, <2>2, GoIs DEF HumanReview, At
  <2>q. QED
    BY <1>v, <2>1, <2>2 DEF HumanReview
<1>q. QED
  BY <1>a, <1>b, <1>c, <1>d, <1>e, <1>f, <1>i, <1>j, <1>k, <1>l, <1>p, <1>r, <1>s, <1>t,
     <1>u, <1>v
     DEF Next, NodeStep, Streaming, vars, graphVars, AskStream

\* Every decision has its target.
LEMMA TargetIs ==
    ASSUME NEW d, d = None \/ ValidDecision(d)
    PROVE  Target(d) \in Targets
BY DEF Target, Targets, ValidDecision, Routes

\* A rule decides as a parsed reply would.
LEMMA RuleIsValid ==
    ASSUME NEW rule \in {"greeting", "transfer", "price"}
    PROVE  ValidDecision(RuleDecision(rule))
<1> DEFINE d == RuleDecision(rule)
<1>1. d.intents \in Seq(Intents)
  BY RuleDecides
<1>2. /\ d.route \in Routes /\ d.route # "unsafe" /\ d.risk = "low"
      /\ d.entities \subseteq EntityTypes /\ d.clarify \in BOOLEAN /\ d.source = "rule"
      /\ DOMAIN d = {"route", "intents", "entities", "risk", "clarify", "source"}
      /\ d = [route |-> d.route, intents |-> d.intents, entities |-> d.entities,
              risk |-> d.risk, clarify |-> d.clarify, source |-> d.source]
  BY DEF RuleDecision, LowRisk, Routes, EntityTypes
<1>3. /\ d.intents = <<>> \/ d.intents = << <<"human_service", "transfer">> >>
         \/ d.intents = << <<"membership", "query">> >>
      /\ d.route = "supported" <=> d.intents # <<>>
  BY DEF RuleDecision, LowRisk
<1>4. Distinct(d.intents)
  <2>1. Len(d.intents) <= 1 /\ Len(d.intents) \in Nat
    BY <1>3, EmptySeq
  <2> HIDE DEF d
  <2>q. QED
    BY <2>1 DEF Distinct
<1>5. "low" \in Range(Risks)
  BY RiskOrderIs DEF RiskLevels
<1> HIDE DEF d
<1>6. IsInjective(d.intents)
  BY <1>1, <1>4, InjectiveIsDistinct
<1>7. d \in [route : Routes, intents : Seq(Intents), entities : SUBSET EntityTypes,
             risk : Range(Risks), clarify : BOOLEAN, source : {"model", "rule", "hybrid"}]
  BY <1>1, <1>2, <1>5
<1>q. QED
  BY <1>2, <1>3, <1>6, <1>7 DEF ValidDecision, d

\* What a run holds is of its type.
ContentInv ==
    /\ run.decision = None \/ ValidDecision(run.decision)
    /\ run.target \in Targets \cup {None}
    /\ run.answer.kind \in {"none", "full", "claims", "notice", "chat", "fixed"}
    /\ run.error \in Codes \cup {None}
    /\ confirmed \subseteq Intents

LEMMA InitContent == Init => ContentInv
BY DEF Init, NoRun, Plainly, ContentInv

LEMMA StepContent ==
    ASSUME Shape, TopicInv, ContentInv, [Next]_vars
    PROVE  ContentInv'
<1> USE NoRunFields DEF RunFields
<1>a. ASSUME UNCHANGED <<run, confirmed>>
      PROVE  ContentInv'
  BY <1>a DEF ContentInv
\* The decision, the target and the error stay.
<1>k. ASSUME UNCHANGED confirmed, run'.decision = run.decision, run'.target = run.target,
             run'.error = run.error,
             run'.answer.kind \in {"none", "full", "claims", "notice", "chat", "fixed"}
      PROVE  ContentInv'
  BY <1>k DEF ContentInv
<1>s. run.answer.kind \in {"none", "full", "claims", "notice", "chat", "fixed"}
  BY DEF ContentInv
<1>o. ASSUME UNCHANGED confirmed, NEW status, NEW error \in Codes \cup {None},
             run' = Over(status, error)
      PROVE  ContentInv'
  <2>1. /\ run'.decision = None /\ run'.target = None /\ run'.error = error
        /\ run'.answer.kind = "none"
    BY <1>o, OverIs DEF NoRun, Plainly
  <2>q. QED
    BY <1>o, <2>1 DEF ContentInv
<1>w. ASSUME UNCHANGED confirmed, NEW r, run' = WithResolution(r)
      PROVE  ContentInv'
  <2>1. /\ run'.decision = run.decision /\ run'.error = run.error
        /\ run'.answer = run.answer
        /\ run'.target \in {"clarification", run.target}
    BY <1>w, ResolutionIs
  <2>q. QED
    BY <1>w, <2>1 DEF ContentInv, Targets
<1>x. ASSUME UNCHANGED confirmed, NEW d, d = None \/ ValidDecision(d),
             run'.decision = d, run'.target = Target(d), run'.error = run.error,
             run'.answer = run.answer
      PROVE  ContentInv'
  BY <1>x, TargetIs DEF ContentInv
<1>b. ASSUME NEW q \in Questions, Send(q)
      PROVE  ContentInv'
  BY <1>b DEF Send, NoRun, Plainly, ContentInv
<1>c. CASE Resume
  BY <1>c, <1>k, <1>s DEF Resume, Shape
<1>d. CASE Cancel
  BY <1>d, <1>o DEF Cancel, RestOfCall
<1>e. CASE ModelStep
  <2>1. CASE AskModel \/ (Backoff /\ UNCHANGED graphVars)
             \/ \E outcome \in Outcomes : RepeatCall(outcome)
    BY <1>a, <2>1 DEF AskModel, RestOfGraph, graphVars, RepeatCall
  <2>2. ASSUME NEW outcome \in Outcomes, CallFails(outcome)
        PROVE  ContentInv'
    <3>0. UNCHANGED confirmed /\ Code(outcome) \in Codes
      BY <2>2 DEF CallFails, RestOfCall, Code, Codes
    <3>1. CASE run' = Broken(outcome)
      BY <1>o, <3>0, <3>1 DEF Broken
    <3>2. CASE run' = WithResolution(Ambiguous)
      BY <1>w, <3>0, <3>2
    <3>3. CASE run' = WithDecision(None)
      BY <1>x, <3>0, <3>3, DecisionIs
    <3>4. CASE run' = Go("verify_claims")
      BY <1>k, <1>s, <3>0, <3>4, GoIs
    <3>5. CASE run' = [Go("deterministic_response") EXCEPT
                         !.override = TRUE, !.error = Code(outcome)]
      <4> DEFINE code == Code(outcome)
      <4> HIDE DEF code
      <4>1. /\ run'.decision = run.decision /\ run'.target = run.target
            /\ run'.error = code /\ run'.answer = run.answer
        BY <3>5, GoIs DEF code
      <4>q. QED
        BY <3>0, <4>1 DEF ContentInv, code
    <3>q. QED
      BY <2>2, <3>1, <3>2, <3>3, <3>4, <3>5, FailureLeads
  <2>3. CASE ResolverReplies
    <3>1. PICK r : run' = WithResolution(r) /\ UNCHANGED confirmed
      BY <2>3 DEF ResolverReplies, RestOfCall
    <3>q. QED
      BY <1>w, <3>1
  <2>4. CASE ClassifierReplies
    <3>1. PICK d \in ModelDecisions :
             run' = [WithDecision(HybridDecision(Asked, d)) EXCEPT !.raw = d]
      BY <2>4 DEF ClassifierReplies
    <3> DEFINE h == HybridDecision(Asked, d)
    <3>2. h = None \/ ValidDecision(h)
      BY GraphAssumption, HybridLeads
    <3> HIDE DEF h
    <3>3. /\ run'.decision = h /\ run'.target = Target(h) /\ run'.error = run.error
          /\ run'.answer = run.answer
      BY <3>1, DecisionIs DEF h
    <3>q. QED
      BY <1>x, <2>4, <3>2, <3>3 DEF ClassifierReplies, RestOfCall
  <2>5. CASE GroundedReplies
    <3>1. PICK answer : run' = [Go("verify_claims") EXCEPT !.grounded = answer]
      BY <2>5 DEF GroundedReplies
    <3>q. QED
      BY <1>k, <1>s, <2>5, <3>1, GoIs DEF GroundedReplies, RestOfCall
  <2>6. CASE ChatReplies
    <3> DEFINE billed == usage'.tokens
               answer == Plainly("chat")
    <3>1. run' = [Go("finalize") EXCEPT !.answer = answer, !.billed = billed]
      BY <2>6 DEF ChatReplies
    <3>2. answer.kind = "chat"
      BY DEF Plainly
    <3> HIDE DEF billed, answer
    <3>3. /\ run'.decision = run.decision /\ run'.target = run.target
          /\ run'.error = run.error /\ run'.answer.kind = "chat"
      BY <3>1, <3>2, GoIs
    <3>q. QED
      BY <1>k, <2>6, <3>3 DEF ChatReplies, RestOfCall
  <2>q. QED
    BY <1>e, <2>1, <2>2, <2>3, <2>4, <2>5, <2>6 DEF ModelStep
<1>f. ASSUME NEW mode \in {"enforce", "shadow"}, NEW nli \in BOOLEAN,
             VerifyClaims(mode, nli)
      PROVE  ContentInv'
  <2> DEFINE answer == IF run.grounded = None THEN Plainly("notice")
                       ELSE Published(run.grounded, mode, nli)
  <2>1. /\ run' = [Go("finalize") EXCEPT !.answer = answer, !.billed = usage.tokens,
                                      !.grounded = None, !.required = {}]
        /\ UNCHANGED confirmed
    BY <1>f DEF VerifyClaims, Rest
  <2>2. answer.kind \in {"none", "full", "claims", "notice", "chat", "fixed"}
    BY DEF Plainly, Published
  <2> HIDE DEF answer
  <2>3. /\ run'.decision = run.decision /\ run'.target = run.target
        /\ run'.error = run.error /\ run'.answer = answer
    BY <2>1, GoIs
  <2>q. QED
    BY <1>k, <2>1, <2>2, <2>3
<1>i. CASE Finalize
  <2>0. UNCHANGED confirmed
    BY <1>i DEF Finalize, Rest
  <2>1. CASE run' = Over("failed", "INTERNAL_ERROR")
    BY <1>o, <2>0, <2>1 DEF Codes
  <2>2. CASE run' = [Go("finalize") EXCEPT !.status = "completed"]
    BY <1>k, <1>s, <2>0, <2>2, GoIs
  <2>q. QED
    BY <1>i, <2>1, <2>2 DEF Finalize
<1>j. CASE StoreTurn
  <2>1. /\ run'.decision = None /\ run'.target = None /\ run'.error = None
        /\ run'.answer.kind = "none"
    BY <1>j DEF StoreTurn, NoRun, Plainly
  <2>2. IntentsOf(run.decision) \subseteq Intents
    BY RangeIs DEF TopicInv, TopicsInv, IntentsOf
  <2>3. confirmed' \subseteq confirmed \cup IntentsOf(run.decision)
    BY <1>j DEF StoreTurn, IntentsOf
  <2>q. QED
    BY <2>1, <2>2, <2>3 DEF ContentInv
<1>l. CASE FailNode
  BY <1>o, <1>l DEF FailNode, Rest, Codes
<1>p. CASE ResolveByRule
  BY <1>w, <1>p DEF ResolveByRule, Rest
<1>r. CASE ClassifyByRule
  <2>1. run.question \in QuestionType
    BY <1>r DEF ClassifyByRule, At, TopicInv, EarlyInv
  <2>2. Asked.rule \in {"none", "greeting", "transfer", "price"}
    BY <2>1 DEF Asked, Effective, QuestionType
  <2> DEFINE d == RuleDecision(Asked.rule)
  <2>3. ValidDecision(d)
    BY <1>r, <2>2, RuleIsValid DEF ClassifyByRule
  <2>4. run' = WithDecision(d) /\ UNCHANGED confirmed
    BY <1>r DEF ClassifyByRule, Rest
  <2> HIDE DEF d
  <2>q. QED
    BY <1>x, <2>3, <2>4, DecisionIs
<1>t. CASE Initialize \/ ValidateInput \/ RetrieveDomain \/ FinishRetrieval
           \/ (\E failed \in BOOLEAN : RetrievalFallsBack(failed))
           \/ (\E interrupts \in BOOLEAN : HumanReview(interrupts))
  <2>1. /\ run'.decision = run.decision /\ run'.target = run.target
        /\ run'.error = run.error /\ run'.answer = run.answer
    BY <1>t DEF Initialize, ValidateInput, RetrieveDomain, FinishRetrieval,
                RetrievalFallsBack, HumanReview, Go, Shape
  <2>2. UNCHANGED confirmed
    BY <1>t DEF Initialize, ValidateInput, RetrieveDomain, FinishRetrieval,
                RetrievalFallsBack, HumanReview, Rest
  <2>q. QED
    BY <1>k, <1>s, <2>1, <2>2
<1>u. CASE DeterministicResponse
  <2>1. /\ run'.decision = run.decision /\ run'.target = run.target
        /\ run'.error = run.error /\ run'.answer.kind = "fixed"
    BY <1>u, GoIs DEF DeterministicResponse, Plainly
  <2>q. QED
    BY <1>k, <1>u, <2>1 DEF DeterministicResponse, Rest
<1>q. QED
  BY <1>a, <1>b, <1>c, <1>d, <1>e, <1>f, <1>i, <1>j, <1>l, <1>p, <1>r, <1>t, <1>u
     DEF Next, NodeStep, Streaming, vars, graphVars, AskStream

\* A conversation keeps few topics, each once.
Bounded(s) == Distinct(s) /\ Len(s) <= MaxTopics
MemoryInv == Bounded(topics) /\ Bounded(run.next)

LEMMA NoTopics == Bounded(<<>>)
<1>1. MaxTopics \in Nat
  BY GraphAssumption
<1>2. Len(<<>>) = 0 /\ 1..Len(<<>>) = {}
  BY RangeOfEmpty
<1>q. QED
  BY <1>1, <1>2 DEF Bounded, Distinct

LEMMA InitMemory == Init => MemoryInv
BY NoTopics DEF Init, NoRun, MemoryInv

LEMMA StepMemory ==
    ASSUME Shape, TopicInv, MemoryInv, [Next]_vars
    PROVE  MemoryInv'
<1> USE NoRunFields DEF RunFields
<1>n. ASSUME UNCHANGED topics, run'.next \in {run.next, <<>>, topics}
      PROVE  MemoryInv'
  BY <1>n, NoTopics DEF MemoryInv, Bounded, Distinct
<1>w. ASSUME UNCHANGED topics, NEW r, run' = WithResolution(r)
      PROVE  MemoryInv'
  BY <1>n, <1>w, ResolutionIs
<1>x. ASSUME UNCHANGED topics, NEW d, d = None \/ d.intents \in Seq(Intents),
             run'.next = Advanced(topics, d, run.reset)
      PROVE  MemoryInv'
  <2> DEFINE next == Advanced(topics, d, run.reset)
  <2>1. /\ Distinct(topics) => Distinct(next)
        /\ Len(topics) <= MaxTopics => Len(next) <= MaxTopics
    BY <1>x, AdvancedIs DEF TopicInv, TopicsInv
  <2> HIDE DEF next
  <2>2. run'.next = next
    BY <1>x DEF next
  <2>q. QED
    BY <1>x, <2>1, <2>2 DEF MemoryInv, Bounded, Distinct
<1>e. CASE ModelStep
  <2>0. UNCHANGED topics
    BY <1>e DEF ModelStep, AskModel, RestOfGraph, RepeatCall, graphVars, CallFails,
                ResolverReplies, ClassifierReplies, GroundedReplies, ChatReplies, RestOfCall
  <2>1. CASE AskModel \/ (Backoff /\ UNCHANGED graphVars)
             \/ \E outcome \in Outcomes : RepeatCall(outcome)
    BY <1>n, <2>0, <2>1 DEF AskModel, RestOfGraph, graphVars, RepeatCall
  <2>2. ASSUME NEW outcome \in Outcomes, CallFails(outcome)
        PROVE  MemoryInv'
    <3>1. CASE run' = Broken(outcome)
      BY <1>n, <2>0, <3>1, OverIs DEF Broken, NoRun
    <3>2. CASE run' = WithResolution(Ambiguous)
      BY <1>w, <2>0, <3>2
    <3>3. CASE run' = WithDecision(None)
      BY <1>x, <2>0, <3>3, DecisionIs
    <3>4. CASE run' = Go("verify_claims")
      BY <1>n, <2>0, <3>4, GoIs
    <3>5. CASE run' = [Go("deterministic_response") EXCEPT
                         !.override = TRUE, !.error = Code(outcome)]
      BY <1>n, <2>0, <3>5, GoIs
    <3>q. QED
      BY <2>2, <3>1, <3>2, <3>3, <3>4, <3>5, FailureLeads
  <2>3. CASE ResolverReplies
    BY <1>w, <2>0, <2>3 DEF ResolverReplies
  <2>4. CASE ClassifierReplies
    <3>1. PICK d \in ModelDecisions :
             run' = [WithDecision(HybridDecision(Asked, d)) EXCEPT !.raw = d]
      BY <2>4 DEF ClassifierReplies
    <3> DEFINE h == HybridDecision(Asked, d)
    <3>2. h = None \/ h.intents \in Seq(Intents)
      BY GraphAssumption, HybridLeads DEF ValidDecision
    <3> HIDE DEF h
    <3>3. run'.next = Advanced(topics, h, run.reset)
      BY <3>1, DecisionIs DEF h
    <3>q. QED
      BY <1>x, <2>0, <3>2, <3>3
  <2>5. CASE GroundedReplies
    <3>1. PICK answer : run' = [Go("verify_claims") EXCEPT !.grounded = answer]
      BY <2>5 DEF GroundedReplies
    <3>q. QED
      BY <1>n, <2>0, <3>1, GoIs
  <2>6. CASE ChatReplies
    BY <1>n, <2>0, <2>6, GoIs DEF ChatReplies
  <2>q. QED
    BY <1>e, <2>1, <2>2, <2>3, <2>4, <2>5, <2>6 DEF ModelStep
<1>f. ASSUME NEW mode \in {"enforce", "shadow"}, NEW nli \in BOOLEAN,
             VerifyClaims(mode, nli)
      PROVE  MemoryInv'
  <2> DEFINE answer == IF run.grounded = None THEN Plainly("notice")
                       ELSE Published(run.grounded, mode, nli)
  <2>1. /\ run' = [Go("finalize") EXCEPT !.answer = answer, !.billed = usage.tokens,
                                      !.grounded = None, !.required = {}]
        /\ UNCHANGED topics
    BY <1>f DEF VerifyClaims, Rest
  <2> HIDE DEF answer
  <2>q. QED
    BY <1>n, <2>1, GoIs
<1>j. CASE StoreTurn
  BY <1>j, NoTopics DEF StoreTurn, NoRun, MemoryInv
<1>p. CASE ResolveByRule
  BY <1>w, <1>p DEF ResolveByRule, Rest
<1>r. CASE ClassifyByRule
  <2>1. run.question \in QuestionType
    BY <1>r DEF ClassifyByRule, At, TopicInv, EarlyInv
  <2>2. Asked.rule \in {"none", "greeting", "transfer", "price"}
    BY <2>1 DEF Asked, Effective, QuestionType
  <2> DEFINE d == RuleDecision(Asked.rule)
  <2>3. d.intents \in Seq(Intents)
    BY <1>r, <2>2, RuleDecides DEF ClassifyByRule
  <2>4. run' = WithDecision(d) /\ UNCHANGED topics
    BY <1>r DEF ClassifyByRule, Rest
  <2> HIDE DEF d
  <2>q. QED
    BY <1>x, <2>3, <2>4, DecisionIs
<1>t. CASE Initialize \/ ValidateInput \/ RetrieveDomain \/ FinishRetrieval
           \/ (\E failed \in BOOLEAN : RetrievalFallsBack(failed))
           \/ (\E interrupts \in BOOLEAN : HumanReview(interrupts))
           \/ DeterministicResponse \/ Resume
  <2>1. run'.next = run.next
    BY <1>t DEF Initialize, ValidateInput, RetrieveDomain, FinishRetrieval,
                RetrievalFallsBack, HumanReview, DeterministicResponse, Resume, Go, Shape
  <2>2. UNCHANGED topics
    BY <1>t DEF Initialize, ValidateInput, RetrieveDomain, FinishRetrieval,
                RetrievalFallsBack, HumanReview, DeterministicResponse, Resume, Rest
  <2>q. QED
    BY <1>n, <2>1, <2>2
<1>u. CASE Cancel \/ FailNode \/ Finalize \/ \E q \in Questions : Send(q)
  <2>1. UNCHANGED topics
    BY <1>u DEF Cancel, RestOfCall, FailNode, Finalize, Rest, Send
  <2>2. run'.next \in {run.next, <<>>}
    <3>1. CASE \E status, error : run' = Over(status, error)
      BY <3>1, OverIs DEF NoRun
    <3>2. CASE run' = [Go("finalize") EXCEPT !.status = "completed"]
      BY <3>2, GoIs
    <3>3. CASE \E q \in Questions : Send(q)
      BY <3>3 DEF Send, NoRun
    <3>q. QED
      BY <1>u, <3>1, <3>2, <3>3 DEF Cancel, FailNode, Finalize
  <2>q. QED
    BY <1>n, <2>1, <2>2
<1>q. QED
  BY <1>n, <1>e, <1>f, <1>j, <1>p, <1>r, <1>t, <1>u
     DEF Next, NodeStep, Streaming, vars, graphVars, AskStream

\* The nodes before or at a recorded call of the model.
UnaskedNodes == EarlyNodes \cup {"retrieve_knowledge", "generate_grounded", "general_chat"}

\* A run makes one recorded call at most, and repeats it within its bound.
CallInv ==
    /\ call.http <= HttpRetries /\ call.tries <= ParseRetries
    /\ usage.calls <= ParseRetries + 1
    /\ usage.tokens <= usage.records
    /\ Accounted(call.task) => usage.calls = call.tries + 1
    /\ run.status = "running" /\ run.node \in UnaskedNodes /\ ~Accounted(call.task)
          => usage.calls = 0

LEMMA InitCalls == Init => CallInv
BY ModelAssumption DEF Init, ModelInit, NoRun, NoCall, NoUsage, CallInv, Accounted

\* The end of a call keeps the bounds, when the run goes past the recorded call.
LEMMA EndKeepsBounds ==
    ASSUME Shape, CallInv, NEW outcome, EndCall(outcome),
           run'.status = "running" /\ run'.node \in UnaskedNodes =>
              run.status = "running" /\ run.node \in UnaskedNodes /\ ~Accounted(call.task)
    PROVE  CallInv'
<1> DEFINE k == IF Accounted(call.task) THEN 1 ELSE 0
           n == Tokens(call.task, outcome)
<1>1. k \in 0..1 /\ n \in 0..1 /\ n <= k
  BY DEF Tokens
<1>2. /\ call' = NoCall /\ usage'.calls = usage.calls
      /\ usage'.records = usage.records + k /\ usage'.tokens = usage.tokens + n
  BY CallEnds
<1> HIDE DEF k, n
<1>3. /\ call'.http = 0 /\ call'.tries = 0 /\ ~Accounted(call'.task)
  BY <1>2 DEF NoCall, Accounted
<1>4. /\ usage.tokens \in Nat /\ usage.records \in Nat /\ usage.tokens <= usage.records
      /\ usage.calls <= ParseRetries + 1
      /\ run.status = "running" /\ run.node \in UnaskedNodes /\ ~Accounted(call.task)
            => usage.calls = 0
  BY DEF Shape, CallInv
<1>5. usage'.tokens <= usage'.records
  BY <1>1, <1>2, <1>4
<1>q. QED
  BY <1>2, <1>3, <1>4, <1>5, ModelAssumption DEF CallInv

LEMMA StepCalls ==
    ASSUME Shape, CallInv, [Next]_vars
    PROVE  CallInv'
<1> USE NoRunFields DEF RunFields
<1>a. ASSUME UNCHANGED <<call, usage>>,
             run'.status = "running" /\ run'.node \in UnaskedNodes =>
                run.status = "running" /\ run.node \in UnaskedNodes
      PROVE  CallInv'
  BY <1>a DEF CallInv
<1>b. ASSUME UNCHANGED call, call.task = "none", usage' = NoUsage
      PROVE  CallInv'
  BY <1>b, ModelAssumption DEF CallInv, NoUsage, Accounted
<1>c. CASE \E q \in Questions : Send(q)
  BY <1>b, <1>c DEF Send, Free, Shape, CallAtNode
<1>d. CASE AskModel
  <2>1. /\ run.status = "running" /\ run.node \in UnaskedNodes /\ call.task = "none"
        /\ UNCHANGED run
    BY <1>d DEF AskModel, At, RestOfGraph, UnaskedNodes, EarlyNodes
  <2>2. PICK task \in Tasks : Ask(task)
    BY <1>d DEF AskModel, Tasks
  <2> DEFINE k == IF Accounted(task) THEN 1 ELSE 0
  <2>3. k \in 0..1 /\ (k = 1 <=> Accounted(task))
    OBVIOUS
  <2>4. /\ call' = [NoCall EXCEPT !.task = task]
        /\ usage' = [usage EXCEPT !.calls = @ + k]
    BY <2>2 DEF Ask
  <2> HIDE DEF k
  <2>5. /\ call'.task = task /\ call'.http = 0 /\ call'.tries = 0
        /\ usage'.calls = usage.calls + k
        /\ usage'.records = usage.records /\ usage'.tokens = usage.tokens
    BY <2>4 DEF NoCall, Shape
  <2>6. usage.calls = 0 /\ usage.tokens <= usage.records
    BY <2>1 DEF CallInv, Accounted
  <2>7. usage'.calls = k /\ 0 <= HttpRetries /\ 0 <= ParseRetries /\ k <= ParseRetries + 1
    BY <2>3, <2>5, <2>6, ModelAssumption
  <2>q. QED
    BY <2>3, <2>5, <2>6, <2>7 DEF CallInv
<1>e. CASE Backoff /\ UNCHANGED graphVars
  <2>1. /\ call'.http = call.http + 1 /\ call'.tries = call.tries /\ call'.task = call.task
        /\ call.http < HttpRetries /\ call.http \in Nat
    BY <1>e DEF Backoff, Shape
  <2>2. call'.http <= HttpRetries
    BY <2>1, ModelAssumption
  <2>q. QED
    BY <1>e, <2>1, <2>2 DEF CallInv, Backoff, graphVars
<1>f. ASSUME NEW outcome \in Outcomes, RepeatCall(outcome)
      PROVE  CallInv'
  <2> DEFINE k == IF Accounted(call.task) THEN 1 ELSE 0
             n == Tokens(call.task, outcome)
  <2>1. k \in 0..1 /\ n \in 0..1 /\ n <= k /\ (Accounted(call.task) <=> k = 1)
    BY DEF Tokens
  <2>2. /\ call' = [call EXCEPT !.http = 0, !.tries = @ + 1]
        /\ usage'.calls = usage.calls + k
        /\ usage'.records = usage.records + k /\ usage'.tokens = usage.tokens + n
        /\ call.tries < ParseRetries /\ UNCHANGED run
    BY <1>f, CallIsRepeated DEF RepeatCall, RestOfGraph, Repeat, MayRepeat
  <2> HIDE DEF k, n
  <2>3. /\ call'.task = call.task /\ call'.http = 0 /\ call'.tries = call.tries + 1
        /\ call.tries \in Nat /\ usage.calls \in Nat
        /\ usage.records \in Nat /\ usage.tokens \in Nat
    BY <2>2 DEF Shape
  <2>4. /\ call'.http <= HttpRetries /\ call'.tries <= ParseRetries
        /\ usage'.tokens <= usage'.records
    BY <2>1, <2>2, <2>3, ModelAssumption DEF CallInv
  <2>5. CASE Accounted(call.task)
    <3>1. usage.calls = call.tries + 1 /\ usage'.calls = usage.calls + 1
      BY <2>1, <2>2, <2>5 DEF CallInv
    <3>2. usage'.calls = call'.tries + 1 /\ usage'.calls <= ParseRetries + 1
      BY <2>2, <2>3, <3>1, ModelAssumption
    <3>q. QED
      BY <2>3, <2>4, <2>5, <3>2 DEF CallInv
  <2>6. CASE ~Accounted(call.task)
    <3>1. usage'.calls = usage.calls
      BY <2>1, <2>2, <2>3, <2>6
    <3>q. QED
      BY <2>2, <2>3, <2>4, <2>6, <3>1 DEF CallInv
  <2>q. QED
    BY <2>5, <2>6
<1>g. ASSUME NEW outcome \in Outcomes, CallFails(outcome)
      PROVE  CallInv'
  <2>1. EndCall(outcome) /\ run.status = "running" /\ run.node = NodeOf[call.task]
        /\ call.task \in Tasks
    BY <1>g DEF CallFails, Shape, CallAtNode
  <2>2. run'.status = "running" /\ run'.node \in UnaskedNodes =>
           run.node \in UnaskedNodes /\ ~Accounted(call.task)
    <3>1. CASE run' = Broken(outcome)
      BY <3>1, OverIs DEF Broken
    <3>2. CASE run.node \in {"resolve_context", "classify_intent"}
      BY <2>1, <3>2 DEF UnaskedNodes, EarlyNodes, Accounted, NodeOf, Tasks
    <3>3. CASE run' = Go("verify_claims")
      BY <3>3, GoIs DEF UnaskedNodes, EarlyNodes
    <3>4. CASE run' = [Go("deterministic_response") EXCEPT
                         !.override = TRUE, !.error = Code(outcome)]
      BY <3>4, GoIs DEF UnaskedNodes, EarlyNodes
    <3>q. QED
      BY <1>g, <3>1, <3>2, <3>3, <3>4, FailureLeads
  <2>q. QED
    BY <2>1, <2>2, EndKeepsBounds
<1>h. CASE ResolverReplies \/ ClassifierReplies
  <2>1. EndCall("reply") /\ run.status = "running" /\ run.node = NodeOf[call.task]
        /\ call.task \in {"resolve", "classify"}
    BY <1>h DEF ResolverReplies, ClassifierReplies, Shape, CallAtNode
  <2>2. run.node \in UnaskedNodes /\ ~Accounted(call.task)
    BY <2>1 DEF UnaskedNodes, EarlyNodes, Accounted, NodeOf, Tasks
  <2>q. QED
    BY <2>1, <2>2, EndKeepsBounds
<1>i. CASE GroundedReplies
  <2>1. PICK answer : run' = [Go("verify_claims") EXCEPT !.grounded = answer]
    BY <1>i DEF GroundedReplies
  <2>2. run'.node = "verify_claims"
    BY <2>1, GoIs
  <2>q. QED
    BY <1>i, <2>2, EndKeepsBounds DEF GroundedReplies, UnaskedNodes, EarlyNodes
<1>j. CASE ChatReplies
  <2>1. run'.node = "finalize"
    BY <1>j, GoIs DEF ChatReplies
  <2>q. QED
    BY <1>j, <2>1, EndKeepsBounds DEF ChatReplies, UnaskedNodes, EarlyNodes
<1>k. CASE Cancel
  <2>1. run'.status = "cancelled"
    BY <1>k, OverIs DEF Cancel
  <2>q. QED
    BY <1>a, <1>k, <2>1, EndKeepsBounds DEF Cancel
<1>l. CASE StoreTurn
  BY <1>b, <1>l DEF StoreTurn, Shape, CallAtNode
<1>m. ASSUME NEW mode \in {"enforce", "shadow"}, NEW nli \in BOOLEAN,
             VerifyClaims(mode, nli)
      PROVE  CallInv'
  <2> DEFINE answer == IF run.grounded = None THEN Plainly("notice")
                       ELSE Published(run.grounded, mode, nli)
  <2>1. /\ run' = [Go("finalize") EXCEPT !.answer = answer, !.billed = usage.tokens,
                                      !.grounded = None, !.required = {}]
        /\ UNCHANGED <<call, usage>>
    BY <1>m DEF VerifyClaims, Rest, modelVars
  <2> HIDE DEF answer
  <2>2. run'.node = "finalize"
    BY <2>1, GoIs
  <2>q. QED
    BY <1>a, <2>1, <2>2 DEF UnaskedNodes, EarlyNodes
<1>n. CASE Initialize \/ ValidateInput \/ RetrieveDomain \/ FinishRetrieval
           \/ (\E failed \in BOOLEAN : RetrievalFallsBack(failed))
           \/ ResolveByRule \/ ClassifyByRule
  <2>1. run.status = "running" /\ run.node \in UnaskedNodes
    BY <1>n DEF Initialize, ValidateInput, RetrieveDomain, FinishRetrieval,
                RetrievalFallsBack, ResolveByRule, ClassifyByRule, At, UnaskedNodes, EarlyNodes
  <2>2. UNCHANGED <<call, usage>>
    BY <1>n DEF Initialize, ValidateInput, RetrieveDomain, FinishRetrieval,
                RetrievalFallsBack, ResolveByRule, ClassifyByRule, Rest, modelVars
  <2>q. QED
    BY <1>a, <2>1, <2>2
<1>o. CASE \/ \E interrupts \in BOOLEAN : HumanReview(interrupts)
           \/ DeterministicResponse \/ Finalize \/ FailNode \/ Resume
  <2>1. UNCHANGED <<call, usage>>
    BY <1>o DEF HumanReview, DeterministicResponse, Finalize, FailNode, Resume, Rest,
                modelVars
  <2>2. \/ run'.status # "running"
        \/ run'.node \in {"finalize", "deterministic_response", "human_review"}
    <3>1. CASE \E error : run' = Over("failed", error)
      BY <3>1, OverIs
    <3>2. CASE ~\E error : run' = Over("failed", error)
      BY <1>o, <3>2 DEF HumanReview, DeterministicResponse, Finalize, FailNode, Resume,
                        At, Go, Shape
    <3>q. QED
      BY <3>1, <3>2
  <2>q. QED
    BY <1>a, <2>1, <2>2 DEF UnaskedNodes, EarlyNodes
<1>p. CASE UNCHANGED <<run, call, usage>>
  BY <1>a, <1>p
<1>q. QED
  BY <1>c, <1>d, <1>e, <1>f, <1>g, <1>h, <1>i, <1>j, <1>k, <1>l, <1>m, <1>n, <1>o, <1>p
     DEF Next, ModelStep, NodeStep, Streaming, vars, modelVars, graphVars, AskStream

\* All of it together.
BoundsInv ==
    /\ Shape /\ UsageInv /\ StreamInv /\ PublishInv /\ TopicInv /\ EvidenceInv
    /\ PlaceInv /\ ContentInv /\ MemoryInv /\ CallInv

\* Every channel, topic and counter is of its type and within its bound: no run
\* takes more steps than the limit, makes more recorded calls than one and its
\* repetitions, holds more evidence or keeps more topics than it may.
THEOREM GraphTyped == Spec => []TypeOK
<1>1. BoundsInv => TypeOK
  <2>1. SUFFICES ASSUME BoundsInv
                 PROVE  TypeOK
    OBVIOUS
  <2>2. /\ usage.calls \in Nat /\ usage.records \in Nat /\ usage.tokens \in Nat
        /\ call.http \in Nat /\ call.tries \in Nat
        /\ {HttpRetries, ParseRetries, MaxChunks} \subseteq Nat
    BY <2>1, ModelAssumption DEF BoundsInv, Shape
  <2>3. usage.records <= usage.calls
    BY <2>1, <2>2 DEF BoundsInv, UsageInv, RecordsInv, Open
  <2>4. /\ usage.calls \in 0..(ParseRetries + 1) /\ usage.records \in 0..(ParseRetries + 1)
        /\ usage.tokens \in 0..(ParseRetries + 1)
        /\ call.http \in 0..HttpRetries /\ call.tries \in 0..ParseRetries
    BY <2>1, <2>2, <2>3 DEF BoundsInv, CallInv
  <2>5. ModelTypeOK
    <3>1. call \in [task : Tasks \cup {"none"}, http : 0..HttpRetries, tries : 0..ParseRetries]
      BY <2>1, <2>4 DEF BoundsInv, Shape
    <3>2. usage \in [calls : 0..(ParseRetries + 1), records : 0..(ParseRetries + 1),
                     tokens : 0..(ParseRetries + 1)]
      BY <2>1, <2>4 DEF BoundsInv, Shape
    <3>q. QED
      BY <2>1, <3>1, <3>2 DEF BoundsInv, StreamInv, ModelTypeOK
  <2>6. run.steps \in 0..MaxGraphSteps
    <3>1. /\ WayTo(run.node) \in 0..7 /\ run.steps \in Nat
          /\ run.steps <= WayTo(run.node) + IF run.status = "completed" THEN 1 ELSE 0
      BY <2>1, WaysAre DEF BoundsInv, PlaceInv
    <3>q. QED
      BY <3>1 DEF MaxGraphSteps
  <2>7. /\ Len(run.evidence) <= MaxParents /\ IsInjective(run.evidence)
    BY <2>1, InjectiveIsDistinct DEF BoundsInv, EvidenceInv
  <2>8. \A s \in {topics, run.next} : Len(s) <= MaxTopics /\ IsInjective(s)
    BY <2>1, InjectiveIsDistinct DEF BoundsInv, MemoryInv, Bounded, TopicInv, TopicsInv
  <2>q. QED
    BY <2>1, <2>5, <2>6, <2>7, <2>8 DEF BoundsInv, PlaceInv, ContentInv, TypeOK
<1>2. Init => BoundsInv
  BY InitShape, InitUsage, InitStream, InitPublish, InitTopic, InitEvidence, InitPlace,
     InitContent, InitMemory, InitCalls DEF BoundsInv
<1>3. BoundsInv /\ [Next]_vars => BoundsInv'
  BY StepShape, StepRecords, StepBilled, StepOfStream, StepPublish, StepTopic, StepEvidence,
     StepPlace, StepContent, StepMemory, StepCalls DEF BoundsInv, UsageInv
<1>q. QED
  BY <1>1, <1>2, <1>3, PTL DEF Spec
=============================================================================

---------------------- MODULE ReviewedExecution_proofs ----------------------
(***************************************************************************)
(* ReviewedExecution for every set of turns, resume calls, executions and  *)
(* failures: its safety properties; that what users are told about a       *)
(* review is true, a promised review exists and a published verdict was    *)
(* given; and that it implements ReviewDecision: handlers that interleave, *)
(* fail and die over a row, a checkpoint and an audit table never do more  *)
(* to a review than to open, hold, give back or settle it.                 *)
(***************************************************************************)
EXTENDS ReviewedExecution, TLAPS

-----------------------------------------------------------------------------
(* Types *)

\* Assigning to the fields of one handler keeps the type of all of them.
LEMMA TurnAssign ==
    ASSUME NEW f \in [Turns -> TurnState], NEW t \in Turns, NEW pc \in TurnPcs
    PROVE  /\ [f EXCEPT ![t].pc = pc] \in [Turns -> TurnState]
           /\ \A a \in Answers \cup {None} :
                 [f EXCEPT ![t].pc = pc, ![t].answer = a]
                     \in [Turns -> TurnState]
           /\ \A s \in Statuses :
                 [f EXCEPT ![t].pc = pc, ![t].status = s]
                     \in [Turns -> TurnState]
           /\ \A m \in Modes :
                 [f EXCEPT ![t].pc = pc, ![t].mode = m]
                     \in [Turns -> TurnState]
  BY DEF TurnState

LEMMA ResumeAssign ==
    ASSUME NEW f \in [Resumes -> ResumeState], NEW r \in Resumes,
           NEW pc \in ResumePcs
    PROVE  /\ [f EXCEPT ![r].pc = pc] \in [Resumes -> ResumeState]
           /\ \A a \in Answers \cup {None} :
                 [f EXCEPT ![r].pc = pc, ![r].answer = a]
                     \in [Resumes -> ResumeState]
           /\ \A e \in Executions, d \in Decisions :
                 [f EXCEPT ![r].pc = pc, ![r].execution = e, ![r].decision = d]
                     \in [Resumes -> ResumeState]
  BY DEF ResumeState

LEMMA CheckpointAssign ==
    ASSUME NEW f \in [Executions -> Checkpoint], NEW e \in Executions
    PROVE  /\ \A c \in Checkpoint :
                 [f EXCEPT ![e] = c] \in [Executions -> Checkpoint]
           /\ \A n \in Nodes :
                 [f EXCEPT ![e].next = n] \in [Executions -> Checkpoint]
  BY DEF Checkpoint

\* Runs from a checkpoint leave checkpoints behind.
LEMMA RunsTyped ==
    ASSUME NEW c \in Checkpoint
    PROVE  /\ \A n \in Nodes : [c EXCEPT !.next = n] \in Checkpoint
           /\ \A f \in CutOffAt(c) : f \in Checkpoint
           /\ \A f \in Finished(c) :
                 f \in Checkpoint /\ f.answer \in Answers \cup {None}
<1>1. \A n \in Nodes : [c EXCEPT !.next = n] \in Checkpoint
  BY DEF Checkpoint
<1>2. \A f \in Checkpoint : f.answer \in Answers \cup {None}
  BY DEF Checkpoint, Answers
<1>3. Finished(c) \subseteq Checkpoint
  BY DEF Finished
<1>q. QED
  BY <1>1, <1>2, <1>3 DEF CutOffAt, Nodes

\* A turn changes its own handler, its checkpoint, its audit row and, when
\* it opens a review, the row of its execution.
LEMMA TurnTyped ==
    ASSUME TypeOK, NEW t \in Turns, TurnStep(t)
    PROVE  TypeOK'
<1>e. ExecutionOf[t] \in Executions
  BY ConstantsAssumption
<1>t. /\ turn[t] \in TurnState
      /\ turn[t].status \in Statuses
      /\ turn[t].mode \in Modes
      /\ turn[t].answer \in Answers \cup {None}
      /\ checkpoint[ExecutionOf[t]] \in Checkpoint
  BY <1>e DEF TypeOK, TurnState
<1>a. AfterEnsure(t) \in TurnPcs /\ AfterPersist(t) \in TurnPcs
  BY DEF AfterEnsure, AfterPersist, TurnPcs
<1>b. \A a : AfterGraph(t, a) \in TurnPcs
  BY <1>t DEF AfterGraph, TurnPcs, Modes
<1>1. CASE GraphPauses(t)
  <2>1. turn' \in [Turns -> TurnState]
    BY <1>1, <1>b, TurnAssign
       DEF GraphPauses, GraphReturns, TypeOK, Answers
  <2>q. QED
    BY <1>1, <1>e, <2>1, CheckpointAssign
       DEF GraphPauses, GraphReturns, TypeOK, Nodes
<1>2. CASE GraphAnswersTurn(t)
  <2>1. PICK c \in Finished(checkpoint[ExecutionOf[t]]) :
          /\ checkpoint' = [checkpoint EXCEPT ![ExecutionOf[t]] = c]
          /\ GraphReturns(t, c.answer)
    BY <1>2 DEF GraphAnswersTurn
  <2>2. c \in Checkpoint /\ c.answer \in Answers \cup {None}
    BY <1>t, RunsTyped
  <2>3. turn' \in [Turns -> TurnState]
    BY <2>1, <2>2, <1>b, TurnAssign DEF GraphReturns, TypeOK
  <2>q. QED
    BY <1>e, <2>1, <2>2, <2>3, CheckpointAssign DEF GraphReturns, TypeOK
<1>f. ASSUME GraphFailsTurn(t) PROVE turn' \in [Turns -> TurnState]
  <2>1. "persisting" \in TurnPcs /\ "error" \in Statuses
    BY DEF TurnPcs, Statuses
  <2>q. QED
    BY <1>f, <2>1, TurnAssign DEF GraphFailsTurn, TypeOK
<1>3. CASE GraphRaises(t)
  <2>1. "unfinished" \in Nodes
    BY DEF Nodes
  <2>q. QED
    BY <1>3, <1>e, <1>f, <2>1, CheckpointAssign
       DEF GraphRaises, GraphFailsTurn, TypeOK
<1>12. CASE GraphRefusesQuestion(t)
  <2>1. checkpoint' \in [Executions -> Checkpoint]
    BY <1>12, <1>e, CheckpointAssign DEF GraphRefusesQuestion, Nodes, TypeOK
  <2>2. CASE GraphFailsTurn(t)
    BY <2>1, <2>2, <1>f DEF GraphFailsTurn, TypeOK
  <2>3. CASE GraphReturns(t, checkpoint[ExecutionOf[t]].answer)
    <3>1. checkpoint[ExecutionOf[t]].answer \in Answers \cup {None}
      BY <1>t DEF Checkpoint, Answers
    <3>2. turn' \in [Turns -> TurnState]
      BY <2>3, <3>1, <1>b, TurnAssign DEF GraphReturns, TypeOK
    <3>q. QED
      BY <2>1, <2>3, <3>2 DEF GraphReturns, TypeOK
  <2>q. QED
    BY <1>12, <2>2, <2>3 DEF GraphRefusesQuestion
<1>4. CASE GraphCutOff(t)
  <2>1. PICK fault : turn' = [turn EXCEPT ![t].pc = "persisting",
                                 ![t].status = StatusAfter(fault)]
    BY <1>4 DEF GraphCutOff
  <2>2. "persisting" \in TurnPcs /\ StatusAfter(fault) \in Statuses
    BY DEF TurnPcs, Statuses, StatusAfter
  <2>3. turn' \in [Turns -> TurnState]
    BY <2>1, <2>2, TurnAssign DEF TypeOK
  <2>4. checkpoint' \in [Executions -> Checkpoint]
    BY <1>4, <1>e, <1>t, RunsTyped, CheckpointAssign DEF GraphCutOff, TypeOK
  <2>q. QED
    BY <1>4, <2>3, <2>4 DEF GraphCutOff, TypeOK
<1>5. CASE PersistTurn(t)
  <2>1. [execution |-> ExecutionOf[t], by |-> t, operation |-> turn[t].mode,
         status |-> turn[t].status, answer |-> PublishedAnswer(t)] \in Call
    BY <1>e, <1>t DEF PublishedAnswer, Call
  <2>q. QED
    BY <1>5, <1>a, <2>1, TurnAssign DEF PersistTurn, TypeOK
<1>6. CASE LookForReview(t)
  <2>1. "inserting" \in TurnPcs
    BY DEF TurnPcs
  <2>q. QED
    BY <1>6, <1>a, <2>1, TurnAssign DEF LookForReview, TypeOK
<1>7. CASE OpenReview(t)
  <2>1. review' \in [Executions -> ReviewRow]
    BY <1>7, <1>e DEF OpenReview, TypeOK, ReviewRow
  <2>q. QED
    BY <1>7, <1>a, <2>1, TurnAssign DEF OpenReview, TypeOK
<1>8. ASSUME NEW s \in Statuses, TurnFails(t, s) PROVE TypeOK'
  <2> DEFINE pc == IF turn[t].mode = "stream" /\ turn[t].pc # "persisting"
                   THEN "persisting" ELSE "failed"
             st == IF turn[t].pc = "persisting" THEN turn[t].status ELSE s
  <2>1. pc \in TurnPcs /\ st \in Statuses
    BY <1>t, <1>8 DEF TurnPcs
  <2>2. turn' = [turn EXCEPT ![t].pc = pc, ![t].status = st]
    BY <1>8 DEF TurnFails
  <2> HIDE DEF pc, st
  <2>3. turn' \in [Turns -> TurnState]
    BY <2>1, <2>2, TurnAssign DEF TypeOK
  <2>q. QED
    BY <1>8, <2>3 DEF TurnFails, TypeOK
<1>9. CASE OpenReviewConflicts(t)
  BY <1>8, <1>9 DEF OpenReviewConflicts, Statuses
<1>10. CASE TurnCutOff(t)
  BY <1>8, <1>10 DEF TurnCutOff, StatusAfter, Statuses
<1>11. CASE FinishStream(t)
  <2>1. "persisting" \in TurnPcs /\ {"success", "cancelled"} \subseteq Statuses
    BY DEF TurnPcs, Statuses
  <2>2. PICK s \in Statuses :
          turn' = [turn EXCEPT ![t].pc = "persisting", ![t].status = s]
    BY <1>11, <2>1 DEF FinishStream
  <2>3. turn' \in [Turns -> TurnState]
    BY <2>1, <2>2, TurnAssign DEF TypeOK
  <2>q. QED
    BY <1>11, <2>3 DEF FinishStream, TypeOK
<1>q. QED
  BY <1>1, <1>2, <1>3, <1>4, <1>5, <1>6, <1>7, <1>9, <1>10, <1>11, <1>12
     DEF TurnStep

\* A call past its claim names the execution it claimed.
Engaged == {"claimed", "broken", "invoked"}

Typed ==
    /\ TypeOK
    /\ \A r \in Resumes :
          resume[r].pc \in Engaged => resume[r].execution \in Executions

LEMMA ResumeTyped ==
    ASSUME Typed, NEW r \in Resumes, ResumeStep(r)
    PROVE  TypeOK'
<1> DEFINE e == resume[r].execution
           d == resume[r].decision
<1>t. /\ resume[r] \in ResumeState
      /\ resume[r].answer \in Answers \cup {None}
      /\ VerdictOf(d) \in Verdicts
      /\ {"invoked", "broken", "failed", "done"} \subseteq ResumePcs
  BY DEF Typed, TypeOK, ResumeState, VerdictOf, Verdicts, ResumePcs
<1>e. e \in Executions
  <2>1. resume[r].pc \in Engaged
    BY DEF ResumeStep, ResumeGraph, ResumeGraphRaises, ResumeGraphFails,
           ResumeGraphPauses, Release, Settle, ResumeCutOff, Engaged
  <2>q. QED
    BY <2>1 DEF Typed
<1>k. checkpoint[e] \in Checkpoint
  BY <1>e DEF Typed, TypeOK
<1>c. checkpoint[e].next # "absent" =>
         \A c \in Resumed(checkpoint[e], d) :
            c \in Checkpoint /\ c.answer \in Answers \cup {None}
  <2>1. \A v \in Verdicts \cup {None} : AnsweredWith(v) \in Checkpoint
    BY DEF AnsweredWith, Checkpoint, Nodes
  <2>2. checkpoint[e].override \in Verdicts \cup {None}
    BY <1>k DEF Checkpoint
  <2>3. \A c \in Checkpoint : c.answer \in Answers \cup {None}
    BY DEF Checkpoint, Answers
  <2>4. CASE checkpoint[e].next = "human_review"
    BY <1>t, <2>1, <2>3, <2>4 DEF Resumed
  <2>5. CASE checkpoint[e].next = "deterministic_response"
    BY <2>1, <2>2, <2>3, <2>5 DEF Resumed
  <2>6. CASE checkpoint[e].next = "unfinished"
    BY <1>k, <2>6, RunsTyped DEF Resumed
  <2>7. CASE checkpoint[e].next = "end"
    BY <1>k, <2>3, <2>7 DEF Resumed
  <2>q. QED
    BY <1>k, <2>4, <2>5, <2>6, <2>7 DEF Checkpoint, Nodes
<1>p. \A c \in PartlyResumed(checkpoint[e], d) : c \in Checkpoint
  <2>1. [checkpoint[e] EXCEPT !.next = "deterministic_response",
                              !.override = VerdictOf(d)] \in Checkpoint
    BY <1>k, <1>t DEF Checkpoint, Nodes
  <2>q. QED
    BY <1>k, <2>1, RunsTyped DEF PartlyResumed
<1> HIDE DEF e, d
<1>b. ASSUME NEW c \in Checkpoint, ResumeBreaks(r, c) PROVE TypeOK'
  <2>1. resume' \in [Resumes -> ResumeState]
    BY <1>b, <1>t, ResumeAssign DEF ResumeBreaks, Typed, TypeOK
  <2>2. checkpoint' \in [Executions -> Checkpoint]
    BY <1>b, <1>e, CheckpointAssign DEF ResumeBreaks, Typed, TypeOK, e
  <2>q. QED
    BY <1>b, <2>1, <2>2 DEF ResumeBreaks, Typed, TypeOK
<1>1. CASE ResumeGraph(r)
  <2>1. PICK c \in Resumed(checkpoint[e], d) :
          /\ checkpoint' = [checkpoint EXCEPT ![e] = c]
          /\ resume' = [resume EXCEPT ![r].pc = "invoked",
                                      ![r].answer = c.answer]
    BY <1>1 DEF ResumeGraph, e, d
  <2>0. c \in Checkpoint /\ c.answer \in Answers \cup {None}
    BY <1>1, <1>c DEF ResumeGraph, e
  <2>2. resume' \in [Resumes -> ResumeState]
    BY <1>t, <2>0, <2>1, ResumeAssign DEF Typed, TypeOK
  <2>3. checkpoint' \in [Executions -> Checkpoint]
    BY <2>0, <1>e, <2>1, CheckpointAssign DEF Typed, TypeOK
  <2>q. QED
    BY <1>1, <2>2, <2>3 DEF ResumeGraph, Typed, TypeOK
<1>2. CASE ResumeGraphFails(r)
  BY <1>2, <1>b, <1>p DEF ResumeGraphFails, e, d
<1>6. CASE ResumeGraphRaises(r)
  BY <1>6, <1>b, <1>k DEF ResumeGraphRaises, e
<1>7. CASE ResumeGraphPauses(r)
  <2>1. [checkpoint[e] EXCEPT !.next = "human_review"] \in Checkpoint
    BY <1>k, RunsTyped DEF Nodes
  <2>q. QED
    BY <1>7, <1>b, <2>1 DEF ResumeGraphPauses, e
<1>3. CASE Release(r)
  <2>1. Released(e) \in ReviewRow
    BY <1>e DEF Released, ReviewRow, Typed, TypeOK
  <2>2. review' \in [Executions -> ReviewRow]
    BY <1>3, <2>1 DEF Release, Typed, TypeOK, e
  <2>q. QED
    BY <1>3, <1>t, <2>2, ResumeAssign DEF Release, Typed, TypeOK
<1>4. CASE Settle(r)
  <2>1. [status |-> VerdictOf(d), by |-> r] \in ReviewRow
    BY <1>t DEF ReviewRow
  <2>2. review' \in [Executions -> ReviewRow]
    BY <1>4, <2>1 DEF Settle, Typed, TypeOK, d
  <2>3. [execution |-> e, by |-> r, operation |-> "resume",
         status |-> "success", answer |-> resume[r].answer] \in Call
    BY <1>e, <1>t DEF Call, Statuses
  <2>q. QED
    BY <1>4, <1>t, <2>2, <2>3, ResumeAssign DEF Settle, Typed, TypeOK, e
<1>5. CASE ResumeCutOff(r)
  BY <1>5, <1>t, ResumeAssign DEF ResumeCutOff, Typed, TypeOK
<1>q. QED
  BY <1>1, <1>2, <1>3, <1>4, <1>5, <1>6, <1>7 DEF ResumeStep

LEMMA TypedStep ==
    ASSUME Typed, [Next]_vars
    PROVE  Typed'
<1>1. ASSUME NEW t \in Turns, NEW mode \in Modes, Receive(t, mode)
      PROVE  Typed'
  <2>1. "running" \in TurnPcs
    BY DEF TurnPcs
  <2>q. QED
    BY <1>1, <2>1, TurnAssign DEF Receive, Typed, TypeOK
<1>2. ASSUME NEW t \in Turns, TurnStep(t)
      PROVE  Typed'
  <2>1. resume' = resume
    BY <1>2 DEF TurnStep, GraphPauses, GraphAnswersTurn, GraphReturns,
                GraphRaises, GraphRefusesQuestion, GraphFailsTurn,
                GraphCutOff, PersistTurn, LookForReview,
                OpenReview, OpenReviewConflicts, TurnCutOff, TurnFails,
                FinishStream
  <2>q. QED
    BY <1>2, <2>1, TurnTyped DEF Typed
<1>3. ASSUME NEW r \in Resumes, NEW e \in Executions, NEW d \in Decisions,
             Claim(r, e, d)
      PROVE  Typed'
  <2>1. "claimed" \in ResumePcs
    BY DEF ResumePcs
  <2>2. review' \in [Executions -> ReviewRow]
    BY <1>3 DEF Claim, Typed, TypeOK, ReviewRow
  <2>3. resume' \in [Resumes -> ResumeState]
    BY <1>3, <2>1, ResumeAssign DEF Claim, Typed, TypeOK
  <2>4. \A q \in Resumes : resume'[q].execution
                           = IF q = r THEN e ELSE resume[q].execution
    BY <1>3 DEF Claim, Typed, TypeOK, ResumeState
  <2>5. \A q \in Resumes : q # r => resume'[q] = resume[q]
    BY <1>3 DEF Claim, Typed, TypeOK
  <2>q. QED
    BY <1>3, <2>2, <2>3, <2>4, <2>5 DEF Claim, Typed, TypeOK
<1>4. ASSUME NEW r \in Resumes, NEW e \in Executions, Refuse(r, e)
      PROVE  Typed'
  <2>1. "refused" \in ResumePcs
    BY DEF ResumePcs
  <2>2. resume' \in [Resumes -> ResumeState]
    BY <1>4, <2>1, ResumeAssign DEF Refuse, Typed, TypeOK
  <2>3. \A q \in Resumes : resume'[q].pc \in Engaged => resume'[q] = resume[q]
    BY <1>4 DEF Refuse, Typed, TypeOK, ResumeState, Engaged
  <2>q. QED
    BY <1>4, <2>2, <2>3 DEF Refuse, Typed, TypeOK
<1>5. ASSUME NEW r \in Resumes, ResumeStep(r)
      PROVE  Typed'
  <2>1. TypeOK'
    BY <1>5, ResumeTyped
  <2>2. resume[r].pc \in Engaged
    BY <1>5 DEF ResumeStep, ResumeGraph, ResumeGraphRaises, ResumeGraphFails,
           ResumeGraphPauses, ResumeBreaks, Release, Settle,
           ResumeCutOff, Engaged
  <2>3. \A q \in Resumes : resume'[q].execution = resume[q].execution
    BY <1>5 DEF ResumeStep, ResumeGraph, ResumeGraphRaises, ResumeGraphFails,
           ResumeGraphPauses, ResumeBreaks, Release, Settle,
           ResumeCutOff, Typed, TypeOK, ResumeState
  <2>4. \A q \in Resumes : q # r => resume'[q] = resume[q]
    BY <1>5 DEF ResumeStep, ResumeGraph, ResumeGraphRaises, ResumeGraphFails,
           ResumeGraphPauses, ResumeBreaks, Release, Settle,
           ResumeCutOff, Typed, TypeOK
  <2>q. QED
    BY <2>1, <2>2, <2>3, <2>4 DEF Typed
<1>6. CASE Crash
  <2>1. turn' \in [Turns -> TurnState]
    BY <1>6 DEF Crash, Typed, TypeOK, TurnState, TurnPcs
  <2>2. resume' \in [Resumes -> ResumeState]
    BY <1>6 DEF Crash, Typed, TypeOK, ResumeState, ResumePcs
  <2>3. \A q \in Resumes : resume'[q].pc \notin Engaged
    BY <1>6 DEF Crash, Typed, TypeOK, ResumeState, Engaged, AtWork
  <2>q. QED
    BY <1>6, <2>1, <2>2, <2>3 DEF Crash, Typed, TypeOK
<1>7. ASSUME NEW e \in Executions, Expire(e)
      PROVE  Typed'
  <2>1. NoCheckpoint \in Checkpoint
    BY DEF NoCheckpoint, Checkpoint, Nodes
  <2>q. QED
    BY <1>7, <2>1, CheckpointAssign DEF Expire, Typed, TypeOK
<1>8. CASE UNCHANGED vars
  BY <1>8 DEF vars, Typed, TypeOK
<1>q. QED
  BY <1>1, <1>2, <1>3, <1>4, <1>5, <1>6, <1>7, <1>8 DEF Next

LEMMA TypedInit == Init => Typed
<1> SUFFICES ASSUME Init PROVE Typed
  OBVIOUS
<1>1. checkpoint \in [Executions -> Checkpoint]
  BY DEF Init, NoCheckpoint, Checkpoint, Nodes
<1>2. review \in [Executions -> ReviewRow]
  BY DEF Init, ReviewRow
<1>3. turn \in [Turns -> TurnState]
  BY DEF Init, TurnState, TurnPcs, Modes, Statuses
<1>4. resume \in [Resumes -> ResumeState]
  BY DEF Init, ResumeState, ResumePcs
<1>5. \A r \in Resumes : resume[r].pc \notin Engaged
  BY DEF Init, Engaged
<1>q. QED
  BY <1>1, <1>2, <1>3, <1>4, <1>5 DEF Init, Typed, TypeOK

\* Every row and handler keeps its type, and a call past its claim names an
\* execution, in every behaviour of the handlers and of the failures.
LEMMA TypedAlways == Spec => []Typed
<1>1. Typed /\ [Next]_vars => Typed'
  BY TypedStep
<1>q. QED
  BY <1>1, TypedInit, PTL DEF Spec

\* Whatever fails and whoever interleaves, every row, checkpoint and handler
\* keeps its type: no verdict but the two, no state a handler cannot leave.
THEOREM TypeCorrect == Spec => []TypeOK
<1>1. Typed => TypeOK
  BY DEF Typed
<1>q. QED
  BY <1>1, TypedAlways, PTL

-----------------------------------------------------------------------------
(* The claim *)

\* What a step of a turn does to the rows and to the resume calls.
LEMMA TurnFrame ==
    ASSUME Typed, NEW t \in Turns, TurnStep(t)
    PROVE  /\ resume' = resume
           /\ \A e \in Executions :
                 \/ review'[e] = review[e]
                 \/ /\ review[e].status = "absent"
                    /\ review'[e].status = "pending"
           /\ \A e \in Executions : ResumeCalls(e)' = ResumeCalls(e)
<1>1. CASE OpenReview(t)
  BY <1>1, ConstantsAssumption
     DEF OpenReview, Typed, TypeOK, ReviewRow, ResumeCalls
<1>2. CASE PersistTurn(t)
  <2>1. turn[t].mode # "resume"
    BY DEF Typed, TypeOK, TurnState, Modes
  <2>q. QED
    BY <1>2, <2>1 DEF PersistTurn, ResumeCalls
<1>3. CASE ~OpenReview(t) /\ ~PersistTurn(t)
  <2>1. UNCHANGED <<review, resume, calls>>
    BY <1>3 DEF TurnStep, GraphPauses, GraphAnswersTurn, GraphReturns,
                GraphRaises, GraphRefusesQuestion, GraphFailsTurn,
                GraphCutOff, LookForReview,
                OpenReviewConflicts, TurnCutOff, TurnFails, FinishStream
  <2>q. QED
    BY <2>1 DEF ResumeCalls
<1>q. QED
  BY <1>1, <1>2, <1>3

Inv == Typed /\ ClaimIsExclusive /\ OneOutcome

LEMMA ExclusiveStep ==
    ASSUME Typed, ClaimIsExclusive, [Next]_vars
    PROVE  ClaimIsExclusive'
<1>1. ASSUME NEW t \in Turns, NEW mode \in Modes, Receive(t, mode)
      PROVE  ClaimIsExclusive'
  BY <1>1 DEF Receive, ClaimIsExclusive
<1>2. ASSUME NEW t \in Turns, TurnStep(t)
      PROVE  ClaimIsExclusive'
  BY <1>2, TurnFrame DEF ClaimIsExclusive, Typed, Engaged
<1>3. ASSUME NEW r \in Resumes, NEW e \in Executions, NEW d \in Decisions,
             Claim(r, e, d)
      PROVE  ClaimIsExclusive'
  <2>1. /\ resume'[r].execution = e
        /\ review'[e] = [status |-> "processing", by |-> r]
    BY <1>3 DEF Claim, Typed, TypeOK, ResumeState
  <2>2. ASSUME NEW q \in Resumes, q # r, resume[q].pc \in Engaged
        PROVE  /\ resume[q].execution # e
               /\ review'[resume[q].execution] = review[resume[q].execution]
    <3>0. review[resume[q].execution] = [status |-> "processing", by |-> q]
      BY <2>2 DEF ClaimIsExclusive, Engaged
    <3>1. review[resume[q].execution].status = "processing"
      BY <3>0
    <3>2. resume[q].execution # e
      BY <1>3, <3>1 DEF Claim, Claimable
    <3>q. QED
      BY <1>3, <3>2, <2>2 DEF Claim, Typed, TypeOK
  <2>3. \A q \in Resumes : q # r => resume'[q] = resume[q]
    BY <1>3 DEF Claim, Typed, TypeOK
  <2>q. QED
    BY <2>1, <2>2, <2>3 DEF ClaimIsExclusive, Engaged
<1>4. ASSUME NEW r \in Resumes, NEW e \in Executions, Refuse(r, e)
      PROVE  ClaimIsExclusive'
  <2>1. \A q \in Resumes : resume'[q].pc \in Engaged => resume'[q] = resume[q]
    BY <1>4 DEF Refuse, Typed, TypeOK, ResumeState, Engaged
  <2>q. QED
    BY <1>4, <2>1 DEF Refuse, ClaimIsExclusive, Engaged
<1>5. ASSUME NEW r \in Resumes, ResumeStep(r)
      PROVE  ClaimIsExclusive'
  <2> DEFINE e == resume[r].execution
  <2>1. /\ resume[r].pc \in Engaged
        /\ e \in Executions
        /\ review[e] = [status |-> "processing", by |-> r]
    BY <1>5 DEF ResumeStep, ResumeGraph, ResumeGraphRaises, ResumeGraphFails,
           ResumeGraphPauses, ResumeBreaks, Release, Settle,
           ResumeCutOff, Engaged, ClaimIsExclusive, Typed
  <2>2. \A q \in Resumes : q # r => resume'[q] = resume[q]
    BY <1>5 DEF ResumeStep, ResumeGraph, ResumeGraphRaises, ResumeGraphFails,
           ResumeGraphPauses, ResumeBreaks, Release, Settle,
           ResumeCutOff, Typed, TypeOK
  <2>3. \A x \in Executions : x # e => review'[x] = review[x]
    BY <1>5 DEF ResumeStep, ResumeGraph, ResumeGraphRaises, ResumeGraphFails,
           ResumeGraphPauses, ResumeBreaks, Release, Settle,
           ResumeCutOff, Typed, TypeOK
  <2>4. ASSUME NEW q \in Resumes, q # r, resume[q].pc \in Engaged
        PROVE  review'[resume[q].execution] = [status |-> "processing", by |-> q]
    BY <2>1, <2>3, <2>4 DEF ClaimIsExclusive, Typed, Engaged
  <2>5. /\ resume'[r].execution = e
        /\ resume'[r].pc \in Engaged => review'[e] = review[e]
    <3>1. CASE ResumeGraph(r)
      BY <3>1 DEF ResumeGraph, Typed, TypeOK, ResumeState
    <3>2. CASE \E c : ResumeBreaks(r, c)
      BY <3>2 DEF ResumeBreaks, Typed, TypeOK, ResumeState
    <3>3. CASE Release(r)
      BY <3>3 DEF Release, Typed, TypeOK, ResumeState, Engaged
    <3>4. CASE Settle(r)
      BY <3>4 DEF Settle, Typed, TypeOK, ResumeState, Engaged
    <3>5. CASE ResumeCutOff(r)
      BY <3>5 DEF ResumeCutOff, Typed, TypeOK, ResumeState, Engaged
    <3>q. QED
      BY <1>5, <3>1, <3>2, <3>3, <3>4, <3>5
         DEF ResumeStep, ResumeGraphRaises, ResumeGraphFails, ResumeGraphPauses
  <2>q. QED
    BY <2>1, <2>2, <2>4, <2>5 DEF ClaimIsExclusive, Engaged
<1>6. CASE Crash
  <2>1. \A q \in Resumes : resume'[q].pc \notin Engaged
    BY <1>6 DEF Crash, Typed, TypeOK, ResumeState, Engaged, AtWork
  <2>q. QED
    BY <2>1 DEF ClaimIsExclusive, Engaged
<1>7. ASSUME NEW e \in Executions, Expire(e)
      PROVE  ClaimIsExclusive'
  BY <1>7 DEF Expire, ClaimIsExclusive
<1>8. CASE UNCHANGED vars
  BY <1>8 DEF vars, ClaimIsExclusive
<1>q. QED
  BY <1>1, <1>2, <1>3, <1>4, <1>5, <1>6, <1>7, <1>8 DEF Next

-----------------------------------------------------------------------------
(* The outcome *)

\* A settled row never changes, and a row is settled together with the first
\* and only row of its resumption.
LEMMA OutcomeStep ==
    ASSUME Inv, [Next]_vars, NEW e \in Executions
    PROVE  /\ Resolved(e) => review'[e] = review[e]
           /\ \/ /\ Resolved(e)' <=> Resolved(e)
                 /\ ResumeCalls(e)' = ResumeCalls(e)
              \/ /\ ~Resolved(e) /\ Resolved(e)'
                 /\ \E c : ResumeCalls(e)' = ResumeCalls(e) \cup {c}
<1>1. ASSUME NEW t \in Turns, TurnStep(t)
      PROVE  /\ Resolved(e) => review'[e] = review[e]
             /\ Resolved(e)' <=> Resolved(e)
             /\ ResumeCalls(e)' = ResumeCalls(e)
  BY <1>1, TurnFrame DEF Inv, Resolved, Verdicts
<1>2. ASSUME NEW r \in Resumes, NEW x \in Executions, NEW d \in Decisions,
             Claim(r, x, d)
      PROVE  /\ Resolved(e) => review'[e] = review[e]
             /\ Resolved(e)' <=> Resolved(e)
             /\ ResumeCalls(e)' = ResumeCalls(e)
  <2>1. CASE x = e
    BY <1>2, <2>1 DEF Claim, Claimable, Resolved, ResumeCalls, Verdicts,
                      Inv, Typed, TypeOK
  <2>2. CASE x # e
    BY <1>2, <2>2 DEF Claim, Resolved, ResumeCalls, Inv, Typed, TypeOK
  <2>q. QED
    BY <2>1, <2>2
<1>3. ASSUME NEW r \in Resumes, Release(r)
      PROVE  /\ Resolved(e) => review'[e] = review[e]
             /\ Resolved(e)' <=> Resolved(e)
             /\ ResumeCalls(e)' = ResumeCalls(e)
  <2>1. CASE resume[r].execution = e
    BY <1>3, <2>1 DEF Release, Releasable, Released, Resolved, ResumeCalls,
                      Verdicts, Inv, Typed, TypeOK
  <2>2. CASE resume[r].execution # e
    BY <1>3, <2>2 DEF Release, Resolved, ResumeCalls, Inv, Typed, TypeOK
  <2>q. QED
    BY <2>1, <2>2
<1>4. ASSUME NEW r \in Resumes, Settle(r), resume[r].execution # e
      PROVE  /\ Resolved(e) => review'[e] = review[e]
             /\ Resolved(e)' <=> Resolved(e)
             /\ ResumeCalls(e)' = ResumeCalls(e)
  BY <1>4 DEF Settle, Resolved, ResumeCalls, Inv, Typed, TypeOK
<1>5. ASSUME NEW r \in Resumes, Settle(r), resume[r].execution = e
      PROVE  /\ ~Resolved(e)
             /\ Resolved(e)'
             /\ \E c : ResumeCalls(e)' = ResumeCalls(e) \cup {c}
  <2>1. ~Resolved(e)
    BY <1>5 DEF Settle, Settleable, Resolved, Verdicts
  <2>2. Resolved(e)'
    BY <1>5 DEF Settle, Resolved, VerdictOf, Verdicts, Inv, Typed, TypeOK
  <2> DEFINE c == [execution |-> e, by |-> r, operation |-> "resume",
                   status |-> "success", answer |-> resume[r].answer]
  <2>3. ResumeCalls(e)' = ResumeCalls(e) \cup {c}
    BY <1>5 DEF Settle, ResumeCalls
  <2>q. QED
    BY <2>1, <2>2, <2>3
<1>6. ASSUME UNCHANGED <<review, calls>>
      PROVE  /\ Resolved(e) => review'[e] = review[e]
             /\ Resolved(e)' <=> Resolved(e)
             /\ ResumeCalls(e)' = ResumeCalls(e)
  BY <1>6 DEF Resolved, ResumeCalls
<1>7. ASSUME NEW r \in Resumes, ResumeStep(r), ~Release(r), ~Settle(r)
      PROVE  UNCHANGED <<review, calls>>
  BY <1>7 DEF ResumeStep, ResumeGraph, ResumeGraphRaises, ResumeGraphFails,
         ResumeGraphPauses, ResumeBreaks, ResumeCutOff
<1>8. ASSUME \/ \E t \in Turns, mode \in Modes : Receive(t, mode)
             \/ \E r \in Resumes, x \in Executions : Refuse(r, x)
             \/ Crash
             \/ \E x \in Executions : Expire(x)
             \/ UNCHANGED vars
      PROVE  UNCHANGED <<review, calls>>
  BY <1>8 DEF Receive, Refuse, Crash, Expire, vars
<1>q. QED
  BY <1>1, <1>2, <1>3, <1>4, <1>5, <1>6, <1>7, <1>8 DEF Next

LEMMA InvInit == Init => Inv
<1> SUFFICES ASSUME Init PROVE Inv
  OBVIOUS
<1>1. ClaimIsExclusive
  BY DEF Init, ClaimIsExclusive
<1>2. OneOutcome
  BY DEF Init, OneOutcome, Resolved, ResumeCalls, Verdicts
<1>q. QED
  BY <1>1, <1>2, TypedInit DEF Inv

LEMMA InvStep == Inv /\ [Next]_vars => Inv'
<1> SUFFICES ASSUME Inv, [Next]_vars PROVE Inv'
  OBVIOUS
<1>1. Typed' /\ ClaimIsExclusive'
  BY TypedStep, ExclusiveStep DEF Inv
<1>2. ASSUME NEW e \in Executions
      PROVE  /\ Resolved(e)' <=> ResumeCalls(e)' # {}
             /\ \A c1, c2 \in ResumeCalls(e)' : c1 = c2
  <2>1. /\ Resolved(e) <=> ResumeCalls(e) # {}
        /\ \A c1, c2 \in ResumeCalls(e) : c1 = c2
    BY DEF Inv, OneOutcome
  <2>q. QED
    BY <2>1, OutcomeStep
<1>q. QED
  BY <1>1, <1>2 DEF Inv, OneOutcome

THEOREM Invariance == Spec => []Inv
  BY InvInit, InvStep, PTL DEF Spec

\* Between a claim and the end of its call the row names that call and no
\* other: two reviewers never resume one checkpoint at the same time.
THEOREM Exclusive == Spec => []ClaimIsExclusive
<1>1. Inv => ClaimIsExclusive
  BY DEF Inv
<1>q. QED
  BY <1>1, Invariance, PTL

\* An execution is settled together with its only resumption: retries,
\* failures and crashes never publish two answers or none.
THEOREM Outcome == Spec => []OneOutcome
<1>1. Inv => OneOutcome
  BY DEF Inv
<1>q. QED
  BY <1>1, Invariance, PTL

\* No step changes a settled row.
THEOREM Final == Spec => VerdictIsFinal
<1>1. Inv /\ [Next]_vars =>
        [\A e \in Executions : Resolved(e) => review'[e] = review[e]]_vars
  BY OutcomeStep
<1>q. QED
  BY <1>1, Invariance, PTL DEF Spec, VerdictIsFinal

-----------------------------------------------------------------------------
(* The promise of a review *)

\* A row of graph_reviews is never removed.
LEMMA RowStays ==
    ASSUME Typed, [Next]_vars, NEW e \in Executions,
           review[e].status # "absent"
    PROVE  review'[e].status # "absent"
<1>1. CASE \E t \in Turns : TurnStep(t)
  BY <1>1, TurnFrame
<1>2. ASSUME NEW r \in Resumes, NEW x \in Executions, NEW d \in Decisions,
             Claim(r, x, d)
      PROVE  review'[e].status # "absent"
  BY <1>2 DEF Claim, Typed, TypeOK, ReviewRow
<1>3. ASSUME NEW r \in Resumes, ResumeStep(r)
      PROVE  review'[e].status # "absent"
  <2>1. CASE Release(r)
    BY <2>1 DEF Release, Released, Typed, TypeOK, ReviewRow
  <2>2. CASE Settle(r)
    BY <2>2 DEF Settle, VerdictOf, Typed, TypeOK, ReviewRow
  <2>3. CASE ~Release(r) /\ ~Settle(r)
    BY <1>3, <2>3 DEF ResumeStep, ResumeGraph, ResumeGraphRaises,
         ResumeGraphFails, ResumeGraphPauses, ResumeBreaks, ResumeCutOff
  <2>q. QED
    BY <2>1, <2>2, <2>3
<1>4. ASSUME \/ \E t \in Turns, mode \in Modes : Receive(t, mode)
             \/ \E r \in Resumes, x \in Executions : Refuse(r, x)
             \/ Crash
             \/ \E x \in Executions : Expire(x)
             \/ UNCHANGED vars
      PROVE  review' = review
  BY <1>4 DEF Receive, Refuse, Crash, Expire, vars
<1>q. QED
  BY <1>1, <1>2, <1>3, <1>4 DEF Next

\* A turn that becomes a reported pause finds or leaves a row.
LEMMA ReportStep ==
    ASSUME Typed, NEW t \in Turns, TurnStep(t), PauseReported(t)'
    PROVE  \/ PauseReported(t)
           \/ review'[ExecutionOf[t]].status # "absent"
<1>e. ExecutionOf[t] \in Executions
  BY ConstantsAssumption
<1>t. /\ turn \in [Turns -> TurnState]
      /\ turn[t] \in TurnState
  BY DEF Typed, TypeOK
<1>1. CASE \E a : GraphReturns(t, a)
  <2>1. PICK a : GraphReturns(t, a)
    BY <1>1
  <2>2. turn'[t] = [turn[t] EXCEPT !.pc = AfterGraph(t, a), !.answer = a]
    BY <1>t, <2>1 DEF GraphReturns
  <2>3. /\ turn'[t].pc = AfterGraph(t, a)
        /\ turn'[t].answer = a
        /\ turn'[t].mode = turn[t].mode
    BY <1>t, <2>2 DEF TurnState
  <2>q. QED
    BY <1>t, <2>3 DEF PauseReported, AfterGraph, TurnState, Modes
<1>2. CASE GraphFailsTurn(t)
  BY <1>2, <1>t DEF GraphFailsTurn, PauseReported, TurnState
<1>3. CASE GraphCutOff(t)
  BY <1>3, <1>t DEF GraphCutOff, StatusAfter, PauseReported, TurnState
<1>4. CASE PersistTurn(t)
  <2>1. turn'[t] = [turn[t] EXCEPT !.pc = AfterPersist(t)]
    BY <1>t, <1>4 DEF PersistTurn
  <2>2. /\ turn'[t].pc = AfterPersist(t)
        /\ turn'[t].answer = turn[t].answer
        /\ turn'[t].mode = turn[t].mode
        /\ turn'[t].status = turn[t].status
    BY <1>t, <2>1 DEF TurnState
  <2>q. QED
    BY <1>4, <2>2 DEF PersistTurn, PauseReported, AfterPersist
<1>5. CASE LookForReview(t)
  <2>1. CASE LacksReview(ExecutionOf[t])
    BY <1>5, <1>t, <2>1 DEF LookForReview, PauseReported, TurnState
  <2>2. CASE ~LacksReview(ExecutionOf[t])
    BY <1>5, <2>2 DEF LookForReview, LacksReview
  <2>q. QED
    BY <2>1, <2>2
<1>6. CASE OpenReview(t)
  BY <1>6, <1>e DEF OpenReview, Typed, TypeOK, ReviewRow
<1>7. CASE OpenReviewConflicts(t)
  BY <1>7 DEF OpenReviewConflicts, TurnFails
<1>8. CASE TurnCutOff(t)
  <2>1. PICK fault \in Faults : TurnFails(t, StatusAfter(fault))
    BY <1>8 DEF TurnCutOff
  <2>2. StatusAfter(fault) # "success"
    BY DEF StatusAfter
  <2> DEFINE s == StatusAfter(fault)
             pc == IF turn[t].mode = "stream" /\ turn[t].pc # "persisting"
                   THEN "persisting" ELSE "failed"
             st == IF turn[t].pc = "persisting" THEN turn[t].status ELSE s
  <2>3. turn' = [turn EXCEPT ![t].pc = pc, ![t].status = st]
    BY <2>1 DEF TurnFails
  <2> HIDE DEF s, pc, st
  <2>4. turn'[t].pc = pc /\ turn'[t].status = st
        /\ turn'[t].mode = turn[t].mode
    BY <1>t, <2>3 DEF TurnState
  <2>5. pc # "failed" => turn[t].pc # "persisting"
    BY DEF pc
  <2>6. pc \in {"failed", "persisting"} /\ (pc # "failed" => st # "success")
    BY <2>2, <2>5 DEF pc, st, s
  <2>q. QED
    BY <1>t, <2>4, <2>6 DEF PauseReported, TurnState, Modes
<1>9. CASE FinishStream(t)
  BY <1>9, <1>t DEF FinishStream, PauseReported, TurnState
<1>q. QED
  BY <1>1, <1>2, <1>3, <1>4, <1>5, <1>6, <1>7, <1>8, <1>9
     DEF TurnStep, GraphPauses, GraphAnswersTurn, GraphRaises,
         GraphRefusesQuestion

\* The steps of everybody else report nothing new.
LEMMA ReportFrame ==
    ASSUME Typed, [Next]_vars, NEW t \in Turns, ~TurnStep(t), PauseReported(t)'
    PROVE  PauseReported(t)
<1>t. turn \in [Turns -> TurnState] /\ turn[t] \in TurnState
  BY DEF Typed, TypeOK
<1>1. ASSUME NEW x \in Turns, x # t, TurnStep(x)
      PROVE  turn'[t] = turn[t]
  BY <1>1, <1>t DEF TurnStep, GraphPauses, GraphAnswersTurn, GraphReturns,
       GraphRaises, GraphRefusesQuestion, GraphFailsTurn, GraphCutOff,
       PersistTurn, LookForReview, OpenReview, OpenReviewConflicts,
       TurnCutOff, TurnFails, FinishStream
<1>2. ASSUME NEW x \in Turns, NEW mode \in Modes, Receive(x, mode)
      PROVE  PauseReported(t)
  <2>1. CASE x = t
    BY <1>2, <1>t, <2>1 DEF Receive, PauseReported, TurnState
  <2>2. CASE x # t
    BY <1>2, <1>t, <2>2 DEF Receive, PauseReported
  <2>q. QED
    BY <2>1, <2>2
<1>3. CASE Crash
  BY <1>3, <1>t DEF Crash, PauseReported, TurnState
<1>4. ASSUME \/ \E r \in Resumes : ResumeStep(r)
             \/ \E r \in Resumes, e \in Executions, d \in Decisions :
                   Claim(r, e, d)
             \/ \E r \in Resumes, e \in Executions : Refuse(r, e)
             \/ \E e \in Executions : Expire(e)
             \/ UNCHANGED vars
      PROVE  turn' = turn
  BY <1>4 DEF ResumeStep, ResumeGraph, ResumeGraphRaises, ResumeGraphFails,
       ResumeGraphPauses, ResumeBreaks, Release, Settle, ResumeCutOff, Claim,
       Refuse, Expire, vars
<1>q. QED
  BY <1>1, <1>2, <1>3, <1>4 DEF Next, PauseReported

\* Whoever is told to wait for a reviewer is in the reviewers' queue, or has
\* been: in every behaviour, with any number of turns on one execution.
THEOREM PromisedReview == Spec => []ReportedPauseHasReview
<1>1. Init => ReportedPauseHasReview
  <2> SUFFICES ASSUME Init, NEW t \in Turns PROVE ~PauseReported(t)
    BY DEF ReportedPauseHasReview
  <2>1. turn[t].answer = None /\ turn[t].pc = "idle"
    BY DEF Init
  <2>q. QED
    BY <2>1 DEF PauseReported
<1>2. Typed /\ ReportedPauseHasReview /\ [Next]_vars
        => ReportedPauseHasReview'
  <2> SUFFICES ASSUME Typed, ReportedPauseHasReview, [Next]_vars,
                      NEW t \in Turns, PauseReported(t)'
               PROVE  review'[ExecutionOf[t]].status # "absent"
    BY DEF ReportedPauseHasReview
  <2>1. ExecutionOf[t] \in Executions
    BY ConstantsAssumption
  <2>2. \/ PauseReported(t)
        \/ review'[ExecutionOf[t]].status # "absent"
    BY ReportStep, ReportFrame
  <2>q. QED
    BY <2>1, <2>2, RowStays DEF ReportedPauseHasReview
<1>q. QED
  BY <1>1, <1>2, TypedAlways, PTL DEF Spec

-----------------------------------------------------------------------------
(* The origin of a verdict *)

\* Some call that claimed execution e decided v.
Given(e, v) ==
    \E r \in Resumes : /\ resume[r].execution = e
                       /\ VerdictOf(resume[r].decision) = v

\* Wherever a verdict text is kept, from the checkpoint a run inherits to
\* the answers the handlers hold, somebody gave it.
AllGiven ==
    /\ \A e \in Executions :
          /\ checkpoint[e].override \in Verdicts
                => Given(e, checkpoint[e].override)
          /\ checkpoint[e].answer \in Verdicts
                => Given(e, checkpoint[e].answer)
    /\ \A t \in Turns :
          turn[t].answer \in Verdicts => Given(ExecutionOf[t], turn[t].answer)
    /\ \A r \in Resumes :
          /\ resume[r].pc = "invoked" /\ resume[r].answer \in Verdicts
                => Given(resume[r].execution, resume[r].answer)
          /\ resume[r].pc = "idle" => resume[r].execution = None
    /\ VerdictWasGiven

\* Decisions are not taken back.
LEMMA GivenStays ==
    ASSUME Typed, AllGiven, [Next]_vars
    PROVE  /\ \A r \in Resumes :
                 resume'[r].pc = "idle" => resume'[r].execution = None
           /\ \A e \in Executions, v \in Verdicts :
                 Given(e, v) => Given(e, v)'
<1>r. resume \in [Resumes -> ResumeState]
  BY DEF Typed, TypeOK
<1>1. ASSUME NEW r \in Resumes, NEW x \in Executions, NEW d \in Decisions,
             Claim(r, x, d)
      PROVE  \A q \in Resumes :
                /\ resume'[q].pc = "idle" => resume'[q].execution = None
                /\ resume[q].execution # None => resume'[q] = resume[q]
  BY <1>1, <1>r DEF Claim, AllGiven, ResumeState
<1>2. ASSUME \/ \E t \in Turns, mode \in Modes : Receive(t, mode)
             \/ \E t \in Turns : TurnStep(t)
             \/ \E x \in Executions : Expire(x)
             \/ UNCHANGED vars
      PROVE  resume' = resume
  BY <1>2, TurnFrame DEF Receive, Expire, vars
<1>3. ASSUME \/ \E r \in Resumes, x \in Executions : Refuse(r, x)
             \/ \E r \in Resumes : ResumeStep(r)
             \/ Crash
      PROVE  \A q \in Resumes :
                /\ resume'[q].pc = "idle" => resume'[q].execution = None
                /\ resume'[q].execution = resume[q].execution
                /\ resume'[q].decision = resume[q].decision
  <2>1. CASE Crash
    BY <2>1, <1>r DEF Crash, AllGiven, ResumeState
  <2>2. CASE \E r \in Resumes, x \in Executions : Refuse(r, x)
    BY <2>2, <1>r DEF Refuse, AllGiven, ResumeState
  <2>3. CASE \E r \in Resumes : ResumeStep(r)
    BY <2>3, <1>r DEF ResumeStep, ResumeGraph, ResumeGraphRaises,
         ResumeGraphFails, ResumeGraphPauses, ResumeBreaks, Release, Settle,
         ResumeCutOff, AllGiven, ResumeState
  <2>q. QED
    BY <1>3, <2>1, <2>2, <2>3
<1>n. \A e \in Executions : e # None
  BY ConstantsAssumption
<1>q. QED
  <2>1. CASE \E r \in Resumes, x \in Executions, d \in Decisions :
                Claim(r, x, d)
    BY <1>1, <1>n, <2>1 DEF Given
  <2>2. CASE resume' = resume
    BY <2>2 DEF Given, AllGiven
  <2>3. CASE \/ \E r \in Resumes, x \in Executions : Refuse(r, x)
             \/ \E r \in Resumes : ResumeStep(r)
             \/ Crash
    BY <1>3, <2>3 DEF Given
  <2>q. QED
    BY <1>2, <2>1, <2>2, <2>3 DEF Next

\* A run adds no verdict of its own to those its checkpoint holds.
LEMMA RunsInventNothing ==
    ASSUME NEW c \in Checkpoint
    PROVE  \A f \in Finished(c) \cup CutOffAt(c) :
              /\ f.override \in Verdicts => f.override = c.override
              /\ f.answer \in Verdicts
                    => f.answer = c.override \/ f.answer = c.answer
<1>1. \A f \in Finished(c) :
          /\ f.override \in Verdicts => f.override = c.override
          /\ f.answer \in Verdicts => f.answer = c.override
  BY ConstantsAssumption DEF Finished, GraphAnswers, Verdicts
<1>2. \A n : /\ [c EXCEPT !.next = n].override = c.override
             /\ [c EXCEPT !.next = n].answer = c.answer
  BY DEF Checkpoint
<1>q. QED
  BY <1>1, <1>2 DEF CutOffAt

LEMMA TurnGiven ==
    ASSUME Typed, AllGiven, NEW t \in Turns, TurnStep(t)
    PROVE  /\ \A e \in Executions :
                 /\ checkpoint'[e].override \in Verdicts
                       => Given(e, checkpoint'[e].override)
                 /\ checkpoint'[e].answer \in Verdicts
                       => Given(e, checkpoint'[e].answer)
           /\ \A x \in Turns :
                 turn'[x].answer \in Verdicts
                     => Given(ExecutionOf[x], turn'[x].answer)
           /\ \A c \in calls' :
                 c.answer \in Verdicts => Given(c.execution, c.answer)
<1> DEFINE e == ExecutionOf[t]
<1>e. e \in Executions /\ checkpoint[e] \in Checkpoint
  BY ConstantsAssumption DEF Typed, TypeOK
<1>t. turn \in [Turns -> TurnState] /\ checkpoint \in [Executions -> Checkpoint]
  BY DEF Typed, TypeOK
<1>g. /\ checkpoint[e].override \in Verdicts => Given(e, checkpoint[e].override)
      /\ checkpoint[e].answer \in Verdicts => Given(e, checkpoint[e].answer)
      /\ turn[t].answer \in Verdicts => Given(e, turn[t].answer)
  BY <1>e DEF AllGiven
\* What the graph leaves in the checkpoint.
<1>1. ASSUME NEW c, checkpoint' = [checkpoint EXCEPT ![e] = c],
             c.override \in Verdicts => Given(e, c.override),
             c.answer \in Verdicts => Given(e, c.answer)
      PROVE  \A x \in Executions :
                 /\ checkpoint'[x].override \in Verdicts
                       => Given(x, checkpoint'[x].override)
                 /\ checkpoint'[x].answer \in Verdicts
                       => Given(x, checkpoint'[x].answer)
  BY <1>1, <1>e, <1>t DEF AllGiven
<1>2. ASSUME NEW c \in Finished(checkpoint[e]) \cup CutOffAt(checkpoint[e])
      PROVE  /\ c.override \in Verdicts => Given(e, c.override)
             /\ c.answer \in Verdicts => Given(e, c.answer)
  BY <1>e, <1>g, RunsInventNothing
<1>3. ASSUME NEW n, checkpoint' = [checkpoint EXCEPT ![e].next = n]
      PROVE  \A x \in Executions :
                 /\ checkpoint'[x].override = checkpoint[x].override
                 /\ checkpoint'[x].answer = checkpoint[x].answer
  BY <1>3, <1>t DEF Checkpoint
\* What the handler answers.
<1>4. ASSUME NEW a, GraphReturns(t, a), a \in Verdicts => Given(e, a)
      PROVE  \A x \in Turns :
                 turn'[x].answer \in Verdicts
                     => Given(ExecutionOf[x], turn'[x].answer)
  BY <1>4, <1>t DEF GraphReturns, AllGiven, TurnState
<1>5. ASSUME \A x \in Turns : turn'[x].answer = turn[x].answer
      PROVE  \A x \in Turns :
                 turn'[x].answer \in Verdicts
                     => Given(ExecutionOf[x], turn'[x].answer)
  BY <1>5 DEF AllGiven
<1>c. ASSUME calls' = calls
      PROVE  \A c \in calls' :
                 c.answer \in Verdicts => Given(c.execution, c.answer)
  BY <1>c DEF AllGiven, VerdictWasGiven, Given
<1>f. ASSUME GraphFailsTurn(t)
      PROVE  \A x \in Turns : turn'[x].answer = turn[x].answer
  BY <1>f, <1>t DEF GraphFailsTurn, TurnState
<1> HIDE DEF e
<1>6. CASE GraphPauses(t)
  <2>1. "paused" \notin Verdicts
    BY DEF Verdicts
  <2>q. QED
    BY <1>6, <2>1, <1>3, <1>4, <1>c DEF GraphPauses, GraphReturns, AllGiven, e
<1>7. CASE GraphAnswersTurn(t)
  BY <1>7, <1>1, <1>2, <1>4, <1>c DEF GraphAnswersTurn, GraphReturns, e
<1>8. CASE GraphRaises(t)
  BY <1>8, <1>3, <1>5, <1>c, <1>f DEF GraphRaises, GraphFailsTurn, AllGiven, e
<1>9. CASE GraphRefusesQuestion(t)
  <2>1. CASE GraphFailsTurn(t)
    BY <1>9, <2>1, <1>3, <1>5, <1>c, <1>f
       DEF GraphRefusesQuestion, GraphFailsTurn, AllGiven, e
  <2>2. CASE GraphReturns(t, checkpoint[e].answer)
    BY <1>9, <2>2, <1>3, <1>4, <1>c, <1>g
       DEF GraphRefusesQuestion, GraphReturns, AllGiven, e
  <2>q. QED
    BY <1>9, <2>1, <2>2 DEF GraphRefusesQuestion, e
<1>10. CASE GraphCutOff(t)
  <2>1. \A x \in Turns : turn'[x].answer = turn[x].answer
    BY <1>10, <1>t DEF GraphCutOff, TurnState
  <2>q. QED
    BY <1>10, <2>1, <1>1, <1>2, <1>5, <1>c DEF GraphCutOff, e
<1>11. CASE PersistTurn(t)
  <2>1. \A x \in Turns : turn'[x].answer = turn[x].answer
    BY <1>11, <1>t DEF PersistTurn, TurnState
  <2>2. \A c \in calls' : c.answer \in Verdicts => Given(c.execution, c.answer)
    <3>1. \A c \in calls : c.answer \in Verdicts
                              => Given(c.execution, c.answer)
      BY DEF AllGiven, VerdictWasGiven, Given
    <3>2. PublishedAnswer(t) \in Verdicts => Given(e, PublishedAnswer(t))
      BY <1>g, ConstantsAssumption DEF PublishedAnswer, Verdicts
    <3>q. QED
      BY <1>11, <3>1, <3>2 DEF PersistTurn, e
  <2>q. QED
    BY <1>11, <2>1, <2>2, <1>5 DEF PersistTurn, AllGiven
<1>12. CASE LookForReview(t) \/ OpenReview(t) \/ FinishStream(t)
  <2>1. \A x \in Turns : turn'[x].answer = turn[x].answer
    BY <1>12, <1>t DEF LookForReview, OpenReview, FinishStream, TurnState
  <2>q. QED
    BY <1>12, <2>1, <1>5, <1>c
       DEF LookForReview, OpenReview, FinishStream, AllGiven
<1>13. ASSUME NEW s, TurnFails(t, s)
       PROVE  UNCHANGED <<checkpoint, calls>>
              /\ \A x \in Turns : turn'[x].answer = turn[x].answer
  BY <1>13, <1>t DEF TurnFails, TurnState
<1>14. CASE OpenReviewConflicts(t) \/ TurnCutOff(t)
  BY <1>14, <1>13, <1>5, <1>c DEF OpenReviewConflicts, TurnCutOff, AllGiven
<1>q. QED
  BY <1>6, <1>7, <1>8, <1>9, <1>10, <1>11, <1>12, <1>14 DEF TurnStep

LEMMA ResumeGiven ==
    ASSUME Typed, AllGiven, NEW r \in Resumes, ResumeStep(r)
    PROVE  /\ \A e \in Executions :
                 /\ checkpoint'[e].override \in Verdicts
                       => Given(e, checkpoint'[e].override)
                 /\ checkpoint'[e].answer \in Verdicts
                       => Given(e, checkpoint'[e].answer)
           /\ \A q \in Resumes :
                 resume'[q].pc = "invoked" /\ resume'[q].answer \in Verdicts
                     => Given(resume[q].execution, resume'[q].answer)
           /\ \A c \in calls' :
                 c.answer \in Verdicts => Given(c.execution, c.answer)
<1> DEFINE e == resume[r].execution
           d == resume[r].decision
           k == checkpoint[e]
<1>e. e \in Executions
  <2>1. resume[r].pc \in Engaged
    BY DEF ResumeStep, ResumeGraph, ResumeGraphRaises, ResumeGraphFails,
           ResumeGraphPauses, Release, Settle, ResumeCutOff, Engaged
  <2>q. QED
    BY <2>1 DEF Typed
<1>t. /\ checkpoint \in [Executions -> Checkpoint]
      /\ resume \in [Resumes -> ResumeState]
      /\ k \in Checkpoint
  BY <1>e DEF Typed, TypeOK
<1>v. Given(e, VerdictOf(d))
  BY DEF Given
<1>g. /\ k.override \in Verdicts => Given(e, k.override)
      /\ k.answer \in Verdicts => Given(e, k.answer)
  BY <1>e DEF AllGiven
<1>1. ASSUME NEW c, checkpoint' = [checkpoint EXCEPT ![e] = c],
             c.override \in Verdicts => Given(e, c.override),
             c.answer \in Verdicts => Given(e, c.answer)
      PROVE  \A x \in Executions :
                 /\ checkpoint'[x].override \in Verdicts
                       => Given(x, checkpoint'[x].override)
                 /\ checkpoint'[x].answer \in Verdicts
                       => Given(x, checkpoint'[x].answer)
  BY <1>1, <1>e, <1>t DEF AllGiven
<1>f. \A c \in Finished(k) \cup CutOffAt(k) :
          /\ c.override \in Verdicts => Given(e, c.override)
          /\ c.answer \in Verdicts => Given(e, c.answer)
  BY <1>t, <1>g, RunsInventNothing
<1>2. \A n : /\ [k EXCEPT !.next = n].override = k.override
             /\ [k EXCEPT !.next = n].answer = k.answer
  BY <1>t DEF Checkpoint
<1>3. ASSUME resume' = [resume EXCEPT ![r].pc = resume'[r].pc],
             resume'[r].pc # "invoked"
      PROVE  \A q \in Resumes :
                 resume'[q].pc = "invoked" /\ resume'[q].answer \in Verdicts
                     => Given(resume[q].execution, resume'[q].answer)
  BY <1>3, <1>t DEF AllGiven, ResumeState
<1>c. ASSUME calls' = calls
      PROVE  \A c \in calls' :
                 c.answer \in Verdicts => Given(c.execution, c.answer)
  BY <1>c DEF AllGiven, VerdictWasGiven, Given
<1> HIDE DEF e, d, k
<1>4. CASE ResumeGraph(r)
  <2>1. PICK c \in Resumed(k, d) :
          /\ checkpoint' = [checkpoint EXCEPT ![e] = c]
          /\ resume' = [resume EXCEPT ![r].pc = "invoked",
                                      ![r].answer = c.answer]
    BY <1>4 DEF ResumeGraph, e, d, k
  <2>2. /\ c.override \in Verdicts => Given(e, c.override)
        /\ c.answer \in Verdicts => Given(e, c.answer)
    <3>1. k.next \in Nodes \ {"absent"}
      BY <1>4, <1>t DEF ResumeGraph, Checkpoint, e, k
    <3>2. CASE k.next = "human_review"
      BY <3>2, <2>1, <1>v DEF Resumed, AnsweredWith
    <3>3. CASE k.next = "deterministic_response"
      BY <3>3, <2>1, <1>g DEF Resumed, AnsweredWith
    <3>4. CASE k.next = "unfinished"
      BY <3>4, <2>1, <1>f DEF Resumed
    <3>5. CASE k.next = "end"
      BY <3>5, <2>1, <1>g DEF Resumed
    <3>q. QED
      BY <3>1, <3>2, <3>3, <3>4, <3>5 DEF Nodes
  <2>3. \A q \in Resumes :
            resume'[q].pc = "invoked" /\ resume'[q].answer \in Verdicts
                => Given(resume[q].execution, resume'[q].answer)
    BY <1>t, <2>1, <2>2 DEF AllGiven, ResumeState, e
  <2>q. QED
    BY <1>4, <2>1, <2>2, <2>3, <1>1, <1>c DEF ResumeGraph
<1>5. ASSUME NEW c, ResumeBreaks(r, c),
             c.override \in Verdicts => Given(e, c.override),
             c.answer \in Verdicts => Given(e, c.answer)
      PROVE  /\ \A x \in Executions :
                   /\ checkpoint'[x].override \in Verdicts
                         => Given(x, checkpoint'[x].override)
                   /\ checkpoint'[x].answer \in Verdicts
                         => Given(x, checkpoint'[x].answer)
             /\ resume' = [resume EXCEPT ![r].pc = resume'[r].pc]
             /\ resume'[r].pc # "invoked"
             /\ calls' = calls
  BY <1>5, <1>1, <1>t DEF ResumeBreaks, ResumeState, e
<1>6. CASE ResumeGraphRaises(r)
  BY <1>6, <1>5, <1>3, <1>c, <1>g DEF ResumeGraphRaises, e, k
<1>7. CASE ResumeGraphPauses(r)
  BY <1>7, <1>5, <1>3, <1>c, <1>g, <1>2 DEF ResumeGraphPauses, e, k
<1>8. CASE ResumeGraphFails(r)
  <2>1. PICK c \in PartlyResumed(k, d) : ResumeBreaks(r, c)
    BY <1>8 DEF ResumeGraphFails, e, d, k
  <2>2. LET p == [k EXCEPT !.next = "deterministic_response",
                           !.override = VerdictOf(d)]
        IN  p.override = VerdictOf(d) /\ p.answer = k.answer
    BY <1>t DEF Checkpoint
  <2>3. /\ c.override \in Verdicts => Given(e, c.override)
        /\ c.answer \in Verdicts => Given(e, c.answer)
    BY <2>1, <2>2, <1>v, <1>g, <1>f DEF PartlyResumed
  <2>q. QED
    BY <2>1, <2>3, <1>5, <1>3, <1>c
<1>9. CASE Release(r) \/ ResumeCutOff(r)
  <2>1. /\ resume' = [resume EXCEPT ![r].pc = resume'[r].pc]
        /\ resume'[r].pc # "invoked"
    BY <1>9, <1>t DEF Release, ResumeCutOff, ResumeState
  <2>q. QED
    BY <1>9, <2>1, <1>3, <1>c DEF Release, ResumeCutOff, AllGiven
<1>10. CASE Settle(r)
  <2>1. /\ resume' = [resume EXCEPT ![r].pc = resume'[r].pc]
        /\ resume'[r].pc # "invoked"
    BY <1>10, <1>t DEF Settle, ResumeState
  <2>2. resume[r].answer \in Verdicts => Given(e, resume[r].answer)
    BY <1>10 DEF Settle, AllGiven, e
  <2>3. \A c \in calls : c.answer \in Verdicts => Given(c.execution, c.answer)
    BY DEF AllGiven, VerdictWasGiven, Given
  <2>4. \A c \in calls' : c.answer \in Verdicts
                              => Given(c.execution, c.answer)
    BY <1>10, <2>2, <2>3 DEF Settle, e
  <2>q. QED
    BY <1>10, <2>1, <2>4, <1>3 DEF Settle, AllGiven
<1>q. QED
  BY <1>4, <1>6, <1>7, <1>8, <1>9, <1>10 DEF ResumeStep

LEMMA AllGivenStep ==
    ASSUME Typed, AllGiven, [Next]_vars
    PROVE  AllGiven'
<1> DEFINE Kept ==
      /\ \A e \in Executions :
            /\ checkpoint'[e].override \in Verdicts
                  => Given(e, checkpoint'[e].override)
            /\ checkpoint'[e].answer \in Verdicts
                  => Given(e, checkpoint'[e].answer)
      /\ \A t \in Turns :
            turn'[t].answer \in Verdicts
                => Given(ExecutionOf[t], turn'[t].answer)
      /\ \A r \in Resumes :
            resume'[r].pc = "invoked" /\ resume'[r].answer \in Verdicts
                => /\ Given(resume[r].execution, resume'[r].answer)
                   /\ resume'[r].execution = resume[r].execution
                   /\ resume[r].execution \in Executions
      /\ \A c \in calls' :
            c.answer \in Verdicts
                => Given(c.execution, c.answer) /\ c.execution \in Executions
<1>t. /\ turn \in [Turns -> TurnState]
      /\ resume \in [Resumes -> ResumeState]
      /\ checkpoint \in [Executions -> Checkpoint]
  BY DEF Typed, TypeOK
<1>c. \A c \in calls' : c.execution \in Executions
  BY TypedStep DEF Typed, TypeOK, Call
<1>g. \A c \in calls : c.answer \in Verdicts => Given(c.execution, c.answer)
  BY DEF AllGiven, VerdictWasGiven, Given
<1>i. \A r \in Resumes :
          resume[r].pc = "invoked" /\ resume[r].answer \in Verdicts
              => /\ Given(resume[r].execution, resume[r].answer)
                 /\ resume[r].execution \in Executions
  BY DEF AllGiven, Typed, Engaged
<1>1. ASSUME NEW t \in Turns, TurnStep(t)
      PROVE  Kept
  BY <1>1, <1>c, <1>i, TurnGiven, TurnFrame
<1>2. ASSUME NEW r \in Resumes, ResumeStep(r)
      PROVE  Kept
  <2>1. turn' = turn
    BY <1>2 DEF ResumeStep, ResumeGraph, ResumeGraphRaises, ResumeGraphFails,
         ResumeGraphPauses, ResumeBreaks, Release, Settle, ResumeCutOff
  <2>2. \A q \in Resumes : resume'[q].execution = resume[q].execution
    BY <1>2, <1>t DEF ResumeStep, ResumeGraph, ResumeGraphRaises,
         ResumeGraphFails, ResumeGraphPauses, ResumeBreaks, Release, Settle,
         ResumeCutOff, ResumeState
  <2>3. \A q \in Resumes : resume'[q].pc \in Engaged
                               => resume'[q].execution \in Executions
    BY TypedStep DEF Typed
  <2>q. QED
    BY <1>2, <1>c, <2>1, <2>2, <2>3, ResumeGiven DEF AllGiven, Engaged
<1>3. ASSUME NEW t \in Turns, NEW mode \in Modes, Receive(t, mode)
      PROVE  Kept
  <2>1. \A x \in Turns : turn'[x].answer = turn[x].answer
    BY <1>3, <1>t DEF Receive, TurnState
  <2>q. QED
    BY <1>3, <2>1, <1>c, <1>g, <1>i DEF Receive, AllGiven
<1>4. ASSUME \/ \E r \in Resumes, e \in Executions, d \in Decisions :
                   Claim(r, e, d)
             \/ \E r \in Resumes, e \in Executions : Refuse(r, e)
      PROVE  Kept
  <2>1. /\ UNCHANGED <<checkpoint, turn, calls>>
        /\ \A q \in Resumes : resume'[q].pc = "invoked"
                                  => resume'[q] = resume[q]
    BY <1>4, <1>t DEF Claim, Refuse, ResumeState
  <2>q. QED
    BY <2>1, <1>c, <1>g, <1>i DEF AllGiven
<1>5. ASSUME Crash
      PROVE  Kept
  <2>1. /\ UNCHANGED <<checkpoint, calls>>
        /\ \A x \in Turns : turn'[x].answer = turn[x].answer
        /\ \A q \in Resumes : resume'[q].pc # "invoked"
    BY <1>5, <1>t DEF Crash, AtWork, TurnState, ResumeState
  <2>q. QED
    BY <2>1, <1>c, <1>g DEF AllGiven
<1>6. ASSUME NEW e \in Executions, Expire(e)
      PROVE  Kept
  <2>1. \A x \in Executions :
            \/ checkpoint'[x] = checkpoint[x]
            \/ /\ checkpoint'[x].override = None
               /\ checkpoint'[x].answer = None
    BY <1>6, <1>t DEF Expire, NoCheckpoint
  <2>2. None \notin Verdicts
    BY ConstantsAssumption DEF Verdicts
  <2>q. QED
    BY <1>6, <2>1, <2>2, <1>c, <1>g, <1>i DEF Expire, AllGiven
<1>7. ASSUME UNCHANGED vars
      PROVE  Kept
  BY <1>7, <1>c, <1>g, <1>i DEF vars, AllGiven
<1>k. Kept
  <2> HIDE DEF Kept
  <2>q. QED
    BY <1>1, <1>2, <1>3, <1>4, <1>5, <1>6, <1>7 DEF Next
<1> DEFINE Later(e, v) ==
      \E r \in Resumes : /\ resume'[r].execution = e
                         /\ VerdictOf(resume'[r].decision) = v
<1>8. \A e \in Executions, v \in Verdicts : Given(e, v) => Later(e, v)
  BY GivenStays DEF Given
<1>9. \A r \in Resumes : resume'[r].pc = "idle" => resume'[r].execution = None
  BY GivenStays
<1>10. \A t \in Turns : ExecutionOf[t] \in Executions
  BY ConstantsAssumption
<1>q. QED
  <2> HIDE DEF Later
  <2>1. \A e \in Executions :
            /\ checkpoint'[e].override \in Verdicts
                  => Later(e, checkpoint'[e].override)
            /\ checkpoint'[e].answer \in Verdicts
                  => Later(e, checkpoint'[e].answer)
    BY <1>k, <1>8
  <2>2. \A t \in Turns :
            turn'[t].answer \in Verdicts
                => Later(ExecutionOf[t], turn'[t].answer)
    BY <1>k, <1>8, <1>10
  <2>3. \A r \in Resumes :
            resume'[r].pc = "invoked" /\ resume'[r].answer \in Verdicts
                => Later(resume'[r].execution, resume'[r].answer)
    BY <1>k, <1>8
  <2>4. \A c \in calls' :
            c.answer \in Verdicts => Later(c.execution, c.answer)
    BY <1>k, <1>8
  <2>q. QED
    BY <2>1, <2>2, <2>3, <2>4, <1>9
       DEF AllGiven, VerdictWasGiven, Given, Later

\* No text that says a person approved or rejected is ever published unless
\* a call that claimed this execution decided so.  Execution ids may be
\* reused, runs cut off anywhere and checkpoints expire.
THEOREM VerdictsAreGiven == Spec => []VerdictWasGiven
<1>1. Init => AllGiven
  <2> SUFFICES ASSUME Init PROVE AllGiven
    OBVIOUS
  <2>1. None \notin Verdicts
    BY ConstantsAssumption DEF Verdicts
  <2>q. QED
    BY <2>1 DEF Init, NoCheckpoint, AllGiven, VerdictWasGiven
<1>2. Typed /\ AllGiven /\ [Next]_vars => AllGiven'
  BY AllGivenStep
<1>3. AllGiven => VerdictWasGiven
  BY DEF AllGiven
<1>q. QED
  BY <1>1, <1>2, <1>3, TypedAlways, PTL DEF Spec

-----------------------------------------------------------------------------
(* The refinement of ReviewDecision *)

\* The abstract state.
PhaseMap == [e \in Executions |-> Phase(review[e].status)]
HolderMap == [e \in Executions |-> review[e].by]
PublishedMap == [e \in Executions |-> AnswerIn(ResumeCalls(e))]

\* The rows and the resumptions of one execution determine its abstract state.
LEMMA MapFrame ==
    ASSUME NEW x, \A e \in Executions \ {x} :
                     /\ review'[e] = review[e]
                     /\ ResumeCalls(e)' = ResumeCalls(e)
    PROVE  /\ PhaseMap' = [PhaseMap EXCEPT ![x] = Phase(review'[x].status)]
           /\ HolderMap' = [HolderMap EXCEPT ![x] = review'[x].by]
           /\ PublishedMap' = [PublishedMap EXCEPT
                                  ![x] = AnswerIn(ResumeCalls(x)')]
<1>1. PhaseMap' = [e \in Executions |-> Phase(review'[e].status)]
  BY DEF PhaseMap
<1>2. HolderMap' = [e \in Executions |-> review'[e].by]
  BY DEF HolderMap
<1>3. PublishedMap' = [e \in Executions |-> AnswerIn(ResumeCalls(e)')]
  BY DEF PublishedMap, AnswerIn
<1>4. PhaseMap' = [PhaseMap EXCEPT ![x] = Phase(review'[x].status)]
  BY <1>1 DEF PhaseMap
<1>5. HolderMap' = [HolderMap EXCEPT ![x] = review'[x].by]
  BY <1>2 DEF HolderMap
<1>6. PublishedMap' = [PublishedMap EXCEPT ![x] = AnswerIn(ResumeCalls(x)')]
  BY <1>3 DEF PublishedMap
<1>q. QED
  BY <1>4, <1>5, <1>6

\* When no row changes and nothing is resumed the step is a stutter.
LEMMA MapStutter ==
    ASSUME \A e \in Executions : /\ review'[e] = review[e]
                                 /\ ResumeCalls(e)' = ResumeCalls(e)
    PROVE  UNCHANGED <<PhaseMap, HolderMap, PublishedMap>>
<1>1. PhaseMap' = [e \in Executions |-> Phase(review'[e].status)]
  BY DEF PhaseMap
<1>2. HolderMap' = [e \in Executions |-> review'[e].by]
  BY DEF HolderMap
<1>3. PublishedMap' = [e \in Executions |-> AnswerIn(ResumeCalls(e)')]
  BY DEF PublishedMap, AnswerIn
<1>q. QED
  BY <1>1, <1>2, <1>3 DEF PhaseMap, HolderMap, PublishedMap

LEMMA OpenImplements ==
    ASSUME Inv, NEW t \in Turns, OpenReview(t)
    PROVE  Decision!Open(ExecutionOf[t])
<1> DEFINE x == ExecutionOf[t]
<1>x. x \in Executions
  BY ConstantsAssumption
<1>1. \A e \in Executions : ResumeCalls(e)' = ResumeCalls(e)
  BY DEF OpenReview, ResumeCalls
<1>2. review' = [review EXCEPT ![x].status = "pending"]
  BY DEF OpenReview
<1>3. /\ review'[x].status = "pending"
      /\ review'[x].by = review[x].by
      /\ \A e \in Executions \ {x} : review'[e] = review[e]
  BY <1>x, <1>2 DEF Inv, Typed, TypeOK, ReviewRow
<1>4. review[x].status = "absent"
  BY DEF OpenReview
<1>5. /\ PhaseMap' = [PhaseMap EXCEPT ![x] = Phase(review'[x].status)]
      /\ HolderMap' = [HolderMap EXCEPT ![x] = review'[x].by]
      /\ PublishedMap' = [PublishedMap EXCEPT
                             ![x] = AnswerIn(ResumeCalls(x)')]
  BY <1>1, <1>3, MapFrame
<1>6. /\ PhaseMap[x] = "closed"
      /\ PhaseMap' = [PhaseMap EXCEPT ![x] = "open"]
  BY <1>x, <1>3, <1>4, <1>5 DEF PhaseMap, Phase
<1>7. HolderMap' = HolderMap
  BY <1>x, <1>3, <1>5 DEF HolderMap
<1>8. PublishedMap' = PublishedMap
  BY <1>x, <1>1, <1>5 DEF PublishedMap
<1>q. QED
  BY <1>6, <1>7, <1>8 DEF Decision!Open, PhaseMap, HolderMap, PublishedMap

LEMMA ClaimImplements ==
    ASSUME Inv, NEW r \in Resumes, NEW x \in Executions, NEW d \in Decisions,
           Claim(r, x, d)
    PROVE  Decision!Hold(x, r)
<1>1. \A e \in Executions : ResumeCalls(e)' = ResumeCalls(e)
  BY DEF Claim, ResumeCalls
<1>2. /\ review'[x].status = "processing"
      /\ review'[x].by = r
      /\ \A e \in Executions \ {x} : review'[e] = review[e]
      /\ review[x].status = "pending"
  BY DEF Claim, Claimable, Inv, Typed, TypeOK
<1>3. /\ PhaseMap' = [PhaseMap EXCEPT ![x] = Phase(review'[x].status)]
      /\ HolderMap' = [HolderMap EXCEPT ![x] = review'[x].by]
      /\ PublishedMap' = [PublishedMap EXCEPT
                             ![x] = AnswerIn(ResumeCalls(x)')]
  BY <1>1, <1>2, MapFrame
<1>4. /\ PhaseMap[x] = "open"
      /\ PhaseMap' = [PhaseMap EXCEPT ![x] = "held"]
  BY <1>2, <1>3 DEF PhaseMap, Phase
<1>5. HolderMap' = [HolderMap EXCEPT ![x] = r]
  BY <1>2, <1>3
<1>6. PublishedMap' = PublishedMap
  BY <1>1, <1>3 DEF PublishedMap
<1>q. QED
  BY <1>4, <1>5, <1>6 DEF Decision!Hold, PhaseMap, HolderMap, PublishedMap

LEMMA ReleaseImplements ==
    ASSUME Inv, NEW r \in Resumes, Release(r)
    PROVE  \E x \in Executions : Decision!GiveBack(x)
<1>e. /\ resume[r].execution \in Executions
      /\ review[resume[r].execution] = [status |-> "processing", by |-> r]
  BY DEF Inv, Typed, Engaged, ClaimIsExclusive, Release
<1>x. PICK x \in Executions : /\ x = resume[r].execution
                              /\ review[x] = [status |-> "processing", by |-> r]
  BY <1>e
<1>s. review[x].status = "processing"
  BY <1>x
<1>1. \A e \in Executions : ResumeCalls(e)' = ResumeCalls(e)
  BY DEF Release, ResumeCalls
<1>2. review' = [review EXCEPT ![x] = Released(x)]
  BY <1>x, <1>s DEF Release, Releasable
<1>3. /\ review'[x].status = "pending"
      /\ review'[x].by = None
      /\ \A e \in Executions \ {x} : review'[e] = review[e]
  BY <1>x, <1>2 DEF Released, Inv, Typed, TypeOK, ReviewRow
<1>4. /\ PhaseMap' = [PhaseMap EXCEPT ![x] = Phase(review'[x].status)]
      /\ HolderMap' = [HolderMap EXCEPT ![x] = review'[x].by]
      /\ PublishedMap' = [PublishedMap EXCEPT
                             ![x] = AnswerIn(ResumeCalls(x)')]
  BY <1>1, <1>3, MapFrame
<1>5. /\ PhaseMap[x] = "held"
      /\ PhaseMap' = [PhaseMap EXCEPT ![x] = "open"]
  BY <1>x, <1>s, <1>3, <1>4 DEF PhaseMap, Phase
<1>6. HolderMap' = [HolderMap EXCEPT ![x] = None]
  BY <1>3, <1>4
<1>7. PublishedMap' = PublishedMap
  BY <1>x, <1>1, <1>4 DEF PublishedMap
<1>q. QED
  BY <1>5, <1>6, <1>7 DEF Decision!GiveBack, PhaseMap, HolderMap, PublishedMap

\* The only step that needs the invariant as a whole: the row is the caller's
\* own (ClaimIsExclusive) and nothing was published before (OneOutcome).
LEMMA SettleImplements ==
    ASSUME Inv, NEW r \in Resumes, Settle(r)
    PROVE  \E x \in Executions, v \in Verdicts, a \in Answers :
               Decision!Settle(x, v, a)
<1>e. /\ resume[r].execution \in Executions
      /\ review[resume[r].execution] = [status |-> "processing", by |-> r]
  BY DEF Inv, Typed, Engaged, ClaimIsExclusive, Settle
<1>x. PICK x \in Executions : /\ x = resume[r].execution
                              /\ review[x] = [status |-> "processing", by |-> r]
  BY <1>e
<1>s. review[x].status = "processing" /\ review[x].by = r
  BY <1>x
<1>v. PICK v \in Verdicts : v = VerdictOf(resume[r].decision)
  BY DEF VerdictOf, Verdicts
<1>a. PICK a \in Answers : a = resume[r].answer
  BY DEF Settle, Inv, Typed, TypeOK, ResumeState
<1> DEFINE c == [execution |-> x, by |-> r, operation |-> "resume",
                 status |-> "success", answer |-> a]
<1>1. ResumeCalls(x) = {}
  BY <1>x, <1>s DEF Inv, OneOutcome, Resolved, Verdicts
<1>2. calls' = calls \cup {c}
  BY <1>x, <1>a DEF Settle
<1>3. ResumeCalls(x)' = {c}
  BY <1>1, <1>2 DEF ResumeCalls
<1>4. \A e \in Executions \ {x} : ResumeCalls(e)' = ResumeCalls(e)
  BY <1>2 DEF ResumeCalls
<1>5. review' = [review EXCEPT ![x] = [status |-> v, by |-> r]]
  BY <1>x, <1>v DEF Settle
<1>6. /\ review'[x].status = v
      /\ review'[x].by = r
      /\ \A e \in Executions \ {x} : review'[e] = review[e]
  BY <1>x, <1>5 DEF Inv, Typed, TypeOK
<1>7. /\ PhaseMap' = [PhaseMap EXCEPT ![x] = Phase(review'[x].status)]
      /\ HolderMap' = [HolderMap EXCEPT ![x] = review'[x].by]
      /\ PublishedMap' = [PublishedMap EXCEPT
                             ![x] = AnswerIn(ResumeCalls(x)')]
  BY <1>4, <1>6, MapFrame
<1>8. Phase(v) = v
  BY <1>v DEF Phase, Verdicts
<1>9. /\ PhaseMap[x] = "held"
      /\ PhaseMap' = [PhaseMap EXCEPT ![x] = v]
  BY <1>x, <1>s, <1>6, <1>7, <1>8 DEF PhaseMap, Phase
<1>10. HolderMap' = HolderMap
  BY <1>x, <1>s, <1>6, <1>7 DEF HolderMap
<1>11. AnswerIn({c}) = a
  <2>1. (CHOOSE y \in {c} : TRUE) = c
    OBVIOUS
  <2>q. QED
    BY <2>1 DEF AnswerIn
<1>12. PublishedMap' = [PublishedMap EXCEPT ![x] = a]
  BY <1>3, <1>7, <1>11
<1>q. QED
  BY <1>9, <1>10, <1>12
     DEF Decision!Settle, PhaseMap, HolderMap, PublishedMap

LEMMA StepImplements ==
    ASSUME Inv, [Next]_vars
    PROVE  [Decision!Next]_<<PhaseMap, HolderMap, PublishedMap>>
<1>1. ASSUME NEW t \in Turns, OpenReview(t)
      PROVE  Decision!Next
  BY <1>1, OpenImplements, ConstantsAssumption DEF Decision!Next
<1>2. ASSUME NEW r \in Resumes, NEW x \in Executions, NEW d \in Decisions,
             Claim(r, x, d)
      PROVE  Decision!Next
  BY <1>2, ClaimImplements DEF Decision!Next
<1>3. ASSUME NEW r \in Resumes, Release(r)
      PROVE  Decision!Next
  BY <1>3, ReleaseImplements DEF Decision!Next
<1>4. ASSUME NEW r \in Resumes, Settle(r)
      PROVE  Decision!Next
  BY <1>4, SettleImplements DEF Decision!Next, Verdicts
\* Everything else, the audit row of a turn included, is a stutter.
<1>5. ASSUME \A e \in Executions : /\ review'[e] = review[e]
                                   /\ ResumeCalls(e)' = ResumeCalls(e)
      PROVE  UNCHANGED <<PhaseMap, HolderMap, PublishedMap>>
  BY <1>5, MapStutter
<1>6. ASSUME NEW t \in Turns, TurnStep(t), ~OpenReview(t)
      PROVE  \A e \in Executions : /\ review'[e] = review[e]
                                   /\ ResumeCalls(e)' = ResumeCalls(e)
  <2>1. \A e \in Executions : ResumeCalls(e)' = ResumeCalls(e)
    BY <1>6, TurnFrame DEF Inv
  <2>2. review' = review
    BY <1>6 DEF TurnStep, GraphPauses, GraphAnswersTurn, GraphReturns,
         GraphRaises, GraphRefusesQuestion, GraphFailsTurn, GraphCutOff,
         PersistTurn, LookForReview, OpenReviewConflicts, TurnCutOff,
         TurnFails, FinishStream
  <2>q. QED
    BY <2>1, <2>2
<1>7. ASSUME \/ \E t \in Turns, mode \in Modes : Receive(t, mode)
             \/ \E r \in Resumes, x \in Executions : Refuse(r, x)
             \/ \E r \in Resumes : ResumeStep(r) /\ ~Release(r) /\ ~Settle(r)
             \/ Crash
             \/ \E x \in Executions : Expire(x)
             \/ UNCHANGED vars
      PROVE  \A e \in Executions : /\ review'[e] = review[e]
                                   /\ ResumeCalls(e)' = ResumeCalls(e)
  <2>1. UNCHANGED <<review, calls>>
    BY <1>7 DEF Receive, Refuse, ResumeStep, ResumeGraph, ResumeGraphRaises,
         ResumeGraphFails, ResumeGraphPauses, ResumeBreaks, ResumeCutOff,
         Crash, Expire, vars
  <2>q. QED
    BY <2>1 DEF ResumeCalls
<1>q. QED
  BY <1>1, <1>2, <1>3, <1>4, <1>5, <1>6, <1>7 DEF Next

\* The detailed specification implements the abstract one: whatever the
\* handlers, the stores and the failures do, a review is only opened, held,
\* given back and settled, and settled together with its one answer.
THEOREM Refinement == Spec => ImplementsDecision
<1>1. Init => Decision!Init
  <2> SUFFICES ASSUME Init PROVE Decision!Init
    OBVIOUS
  <2>1. \A e \in Executions :
            /\ Phase(review[e].status) = "closed"
            /\ review[e].by = None
            /\ AnswerIn(ResumeCalls(e)) = None
    BY DEF Init, Phase, ResumeCalls, AnswerIn
  <2>q. QED
    BY <2>1 DEF Decision!Init
<1>2. Inv /\ [Next]_vars => [Decision!Next]_(Decision!vars)
  BY StepImplements
     DEF Decision!vars, PhaseMap, HolderMap, PublishedMap
<1>q. QED
  BY <1>1, <1>2, Invariance, PTL DEF Spec, ImplementsDecision, Decision!Spec
=============================================================================

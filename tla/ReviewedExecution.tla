-------------------------- MODULE ReviewedExecution -------------------------
(***************************************************************************)
(* The life of a graph execution that may need a person: a turn runs the   *)
(* graph, the graph pauses at human_review, the turn's handler opens a row *)
(* in graph_reviews, and calls of the resume endpoint claim the row, resume*)
(* the MongoDB checkpoint and settle the row (services/conversations.py).  *)
(*                                                                         *)
(* One action is one database transaction, one run of the graph or one     *)
(* delivery of a failure; handlers interleave between them.  A turn and a  *)
(* resume call are one handler each.  A turn that reuses the X-Request-ID  *)
(* of another one runs on the same execution, hence ExecutionOf.           *)
(*                                                                         *)
(* Data are abstracted to what the properties tell apart: a message is the *)
(* kind of answer it carries, and a row of model_calls is a record with    *)
(* the answer of the assistant message it points to.                       *)
(***************************************************************************)

CONSTANTS
    Executions,   \* execution ids, thread_id:request_id
    Turns,        \* calls of send or stream
    Resumes,      \* calls of resume_execution
    ExecutionOf,  \* the execution each turn runs on
    Faults,       \* the failures that may happen, see FaultKinds
    None          \* an absent value

\* invoke: MongoDB fails inside a run of the graph; view: it fails when the
\* finished state is read back; mysql: a transaction fails; cancel: the
\* handler's task is cancelled; crash: the process dies; expiry: the TTL
\* index removes a checkpoint; question: a turn asks more than the graph
\* takes (MAX_QUESTION_CHARS, half of what the API takes).
FaultKinds == {"invoke", "view", "mysql", "cancel", "crash", "expiry",
               "question"}

ASSUME ConstantsAssumption ==
    /\ ExecutionOf \in [Turns -> Executions]
    /\ Faults \subseteq FaultKinds
    /\ None \notin Resumes \cup Executions
    /\ None \notin {"approve", "reject", "approved", "rejected",
                    "paused", "answered"}

VARIABLES
    checkpoint,  \* the MongoDB checkpoint of each execution
    review,      \* its row of graph_reviews
    turn,        \* the handler of each turn
    resume,      \* the handler of each resume call
    calls        \* the rows of model_calls with their assistant messages

vars == <<checkpoint, review, turn, resume, calls>>

-----------------------------------------------------------------------------
(* Types *)

Verdicts == {"approved", "rejected"}
Decisions == {"approve", "reject"}

\* "paused" is the fixed text of an interrupted run, "answered" any answer
\* of the graph that is not the text of a verdict.
Answers == {"paused", "answered"} \cup Verdicts

\* next: the node the graph would run next ("unfinished": a node no verdict
\* reaches directly; "end": none).  override and answer: the channels
\* response_override, as far as it holds a verdict text, and answer.  A new
\* run on the same thread_id inherits both.
Nodes == {"absent", "unfinished", "human_review", "deterministic_response",
          "end"}

Checkpoint ==
    [next : Nodes,
     override : {None} \cup Verdicts,
     answer : {None, "answered"} \cup Verdicts]

ReviewRow ==
    [status : {"absent", "pending", "processing"} \cup Verdicts,
     by : Resumes \cup {None}]

TurnPcs == {"idle", "running", "ensuring", "inserting", "yielding",
            "persisting", "closed", "failed", "dead"}

Modes == {"send", "stream"}
Statuses == {"success", "error", "cancelled"}

TurnState ==
    [pc : TurnPcs, mode : Modes, answer : Answers \cup {None},
     status : Statuses]

ResumePcs == {"idle", "claimed", "broken", "invoked",
              "done", "refused", "failed", "dead"}

ResumeState ==
    [pc : ResumePcs,
     execution : Executions \cup {None},
     decision : Decisions \cup {None},
     answer : Answers \cup {None}]

Call ==
    [execution : Executions,
     by : Turns \cup Resumes,
     operation : Modes \cup {"resume"},
     status : Statuses,
     answer : Answers \cup {None}]

\* Every row and handler is of its type.
TypeOK ==
    /\ checkpoint \in [Executions -> Checkpoint]
    /\ review \in [Executions -> ReviewRow]
    /\ turn \in [Turns -> TurnState]
    /\ resume \in [Resumes -> ResumeState]
    /\ calls \in SUBSET Call

NoCheckpoint == [next |-> "absent", override |-> None, answer |-> None]

Init ==
    /\ checkpoint = [e \in Executions |-> NoCheckpoint]
    /\ review = [e \in Executions |-> [status |-> "absent", by |-> None]]
    /\ turn = [t \in Turns |-> [pc |-> "idle", mode |-> "send",
                                answer |-> None, status |-> "success"]]
    /\ resume = [r \in Resumes |-> [pc |-> "idle", execution |-> None,
                                    decision |-> None, answer |-> None]]
    /\ calls = {}

-----------------------------------------------------------------------------
(* A turn: send() and stream() *)

\* The user message is committed and the graph is about to run.
Receive(t, mode) ==
    /\ turn[t].pc = "idle"
    /\ turn' = [turn EXCEPT ![t].pc = "running", ![t].mode = mode]
    /\ UNCHANGED <<checkpoint, review, resume, calls>>

\* deterministic_response prefers the override that is in the state.
GraphAnswers(override) == {"answered"} \cup ({override} \ {None})

\* Mutant of AfterGraph: stream() yields before it opens the review.
YieldsFirst(t, answer) ==
    IF turn[t].mode = "send" THEN "persisting" ELSE "yielding"

\* stream() opens the review before it yields, send() after it persisted.
AfterGraph(t, answer) ==
    CASE turn[t].mode = "send" -> "persisting"
      [] turn[t].mode = "stream" /\ answer = "paused" -> "ensuring"
      [] OTHER -> "yielding"

GraphReturns(t, answer) ==
    /\ turn' = [turn EXCEPT ![t].pc = AfterGraph(t, answer),
                            ![t].answer = answer]
    /\ UNCHANGED <<review, resume, calls>>

\* The router chose a person: the run stops in front of human_review.
GraphPauses(t) ==
    LET e == ExecutionOf[t] IN
    /\ turn[t].pc = "running"
    /\ checkpoint' = [checkpoint EXCEPT ![e].next = "human_review"]
    /\ GraphReturns(t, "paused")

\* The states a run that started in c may finish in.  A node on the way
\* (clarification, retrieval fallback) may have replaced the override of c.
Finished(c) ==
    {f \in Checkpoint : /\ f.next = "end"
                        /\ f.override \in {c.override, None}
                        /\ f.answer \in GraphAnswers(f.override)}

\* Any other route: the run finishes.
GraphAnswersTurn(t) ==
    LET e == ExecutionOf[t] IN
    /\ turn[t].pc = "running"
    /\ \E c \in Finished(checkpoint[e]) :
          /\ checkpoint' = [checkpoint EXCEPT ![e] = c]
          /\ GraphReturns(t, c.answer)

GraphFailsTurn(t) ==
    /\ turn' = [turn EXCEPT ![t].pc = "persisting", ![t].status = "error"]
    /\ UNCHANGED <<review, resume, calls>>

\* A node raises (a provider error): the run stops in front of it.
GraphRaises(t) ==
    /\ turn[t].pc = "running"
    /\ checkpoint' = [checkpoint EXCEPT ![ExecutionOf[t]].next = "unfinished"]
    /\ GraphFailsTurn(t)

\* The fail node ends the run without an answer: _run_graph raises KeyError,
\* unless an earlier run left an answer in the state.
GraphRefusesQuestion(t) ==
    LET e == ExecutionOf[t] IN
    /\ "question" \in Faults
    /\ turn[t].pc = "running"
    /\ checkpoint' = [checkpoint EXCEPT ![e].next = "end"]
    /\ IF checkpoint[e].answer = None
       THEN GraphFailsTurn(t)
       ELSE GraphReturns(t, checkpoint[e].answer)

StatusAfter(fault) == IF fault = "cancel" THEN "cancelled" ELSE "error"

\* Where a run from c may be when it is cut off: at the earliest before its
\* first checkpoint and at the latest after its last one.
CutOffAt(c) ==
    {c, [c EXCEPT !.next = "unfinished"], [c EXCEPT !.next = "human_review"]}
    \cup Finished(c)

\* The run is cut off from outside (the state is read back after the run,
\* inside _run_graph).
GraphCutOff(t) ==
    /\ turn[t].pc = "running"
    /\ \E fault \in Faults \cap {"invoke", "view", "cancel"} :
          turn' = [turn EXCEPT ![t].pc = "persisting",
                               ![t].status = StatusAfter(fault)]
    /\ \E c \in CutOffAt(checkpoint[ExecutionOf[t]]) :
          checkpoint' = [checkpoint EXCEPT ![ExecutionOf[t]] = c]
    /\ UNCHANGED <<review, resume, calls>>

\* Only a successful send() still owes the reviewers a row after this.
AfterPersist(t) ==
    IF /\ turn[t].mode = "send"
       /\ turn[t].status = "success"
       /\ turn[t].answer = "paused"
    THEN "ensuring"
    ELSE "closed"

\* Nothing is published for a turn that failed or was closed early.
PublishedAnswer(t) ==
    IF turn[t].status = "success" THEN turn[t].answer ELSE None

\* _persist_outcome: the assistant message and the audit row, in one commit.
PersistTurn(t) ==
    /\ turn[t].pc = "persisting"
    /\ calls' = calls \cup {[execution |-> ExecutionOf[t], by |-> t,
                             operation |-> turn[t].mode,
                             status |-> turn[t].status,
                             answer |-> PublishedAnswer(t)]}
    /\ turn' = [turn EXCEPT ![t].pc = AfterPersist(t)]
    /\ UNCHANGED <<checkpoint, review, resume>>

AfterEnsure(t) == IF turn[t].mode = "send" THEN "closed" ELSE "yielding"

\* by_execution(...) is None
LacksReview(e) == review[e].status = "absent"

\* _ensure_pending_review reads the row before it decides to insert one.
LookForReview(t) ==
    /\ turn[t].pc = "ensuring"
    /\ turn' = [turn EXCEPT ![t].pc = IF LacksReview(ExecutionOf[t])
                                      THEN "inserting"
                                      ELSE AfterEnsure(t)]
    /\ UNCHANGED <<checkpoint, review, resume, calls>>

\* Mutant of OpenReview: the row is written over whatever is there.
UpsertReview(t) ==
    /\ turn[t].pc = "inserting"
    /\ review' = [review EXCEPT ![ExecutionOf[t]].status = "pending"]
    /\ turn' = [turn EXCEPT ![t].pc = AfterEnsure(t)]
    /\ UNCHANGED <<checkpoint, resume, calls>>

OpenReview(t) ==
    LET e == ExecutionOf[t] IN
    /\ turn[t].pc = "inserting"
    /\ review[e].status = "absent"
    /\ review' = [review EXCEPT ![e].status = "pending"]
    /\ turn' = [turn EXCEPT ![t].pc = AfterEnsure(t)]
    /\ UNCHANGED <<checkpoint, resume, calls>>

\* An exception out of _ensure_pending_review or _persist_outcome ends send();
\* stream() catches the first one and still writes its audit row.
TurnFails(t, status) ==
    /\ turn' = [turn EXCEPT
          ![t].pc = IF turn[t].mode = "stream" /\ turn[t].pc # "persisting"
                    THEN "persisting" ELSE "failed",
          ![t].status = IF turn[t].pc = "persisting" THEN turn[t].status
                         ELSE status]
    /\ UNCHANGED <<checkpoint, review, resume, calls>>

\* Another turn inserted the row first: uq_graph_reviews_execution_id.
OpenReviewConflicts(t) ==
    /\ turn[t].pc = "inserting"
    /\ review[ExecutionOf[t]].status # "absent"
    /\ TurnFails(t, "error")

TurnCutOff(t) ==
    /\ turn[t].pc \in {"ensuring", "inserting", "persisting"}
    /\ \E fault \in Faults \cap {"mysql", "cancel"} :
          TurnFails(t, StatusAfter(fault))

\* The client read every chunk of the stream, or closed it before the end.
FinishStream(t) ==
    /\ turn[t].pc = "yielding"
    /\ \E status \in {"success", "cancelled"} :
          turn' = [turn EXCEPT ![t].pc = "persisting", ![t].status = status]
    /\ UNCHANGED <<checkpoint, review, resume, calls>>

-----------------------------------------------------------------------------
(* A call of the resume endpoint: resume_execution() *)

\* Mutants of Claimable: the claim also takes over a row that another call
\* is processing, or the row is updated whatever its status.
ClaimableTwice(e) == review[e].status \in {"pending", "processing"}
ClaimableAlways(e) == review[e].status # "absent"

\* The WHERE clause of the update that claims a row.
Claimable(e) == review[e].status = "pending"

Claim(r, e, decision) ==
    /\ resume[r].pc = "idle"
    /\ Claimable(e)
    /\ review' = [review EXCEPT ![e] = [status |-> "processing", by |-> r]]
    /\ resume' = [resume EXCEPT ![r].pc = "claimed", ![r].execution = e,
                                ![r].decision = decision]
    /\ UNCHANGED <<checkpoint, turn, calls>>

\* No such row, or the update matched none: 404 or 409.
Refuse(r, e) ==
    /\ resume[r].pc = "idle"
    /\ ~Claimable(e)
    /\ resume' = [resume EXCEPT ![r].pc = "refused"]
    /\ UNCHANGED <<checkpoint, review, turn, calls>>

\* Mutant of VerdictOf: the request's word is stored as it is.
DecisionItself(decision) == decision

VerdictOf(decision) ==
    IF decision = "approve" THEN "approved" ELSE "rejected"

\* The state of a finished run whose answer is this verdict text.
AnsweredWith(verdict) ==
    [next |-> "end", override |-> verdict, answer |-> verdict]

\* Mutant of Resumed: the graph is resumed as if every decision approved.
ResumedApproved(c, decision) ==
    CASE c.next = "human_review" -> {AnsweredWith("approved")}
      [] c.next = "deterministic_response" -> {AnsweredWith(c.override)}
      [] c.next = "unfinished" -> Finished(c)
      [] c.next = "end" -> {c}

\* The states Command(resume=...) may finish in.  It reaches human_review
\* only while the graph waits there: otherwise its payload is not read, and
\* the run goes on from its checkpoint.
Resumed(c, decision) ==
    CASE c.next = "human_review" -> {AnsweredWith(VerdictOf(decision))}
      [] c.next = "deterministic_response" -> {AnsweredWith(c.override)}
      [] c.next = "unfinished" -> Finished(c)
      [] c.next = "end" -> {c}

ResumeGraph(r) ==
    LET e == resume[r].execution IN
    /\ resume[r].pc = "claimed"
    /\ checkpoint[e].next # "absent"
    /\ \E c \in Resumed(checkpoint[e], resume[r].decision) :
          /\ checkpoint' = [checkpoint EXCEPT ![e] = c]
          /\ resume' = [resume EXCEPT ![r].pc = "invoked",
                                      ![r].answer = c.answer]
    /\ UNCHANGED <<review, turn, calls>>

\* How far an interrupted ainvoke got: from human_review nowhere or past it,
\* with the verdict in the checkpoint.
PartlyResumed(c, decision) ==
    CASE c.next = "human_review" ->
             {c, [c EXCEPT !.next = "deterministic_response",
                           !.override = VerdictOf(decision)]}
      [] c.next = "unfinished" -> CutOffAt(c)
      [] OTHER -> {c}

\* The claim is given back without an outcome: ainvoke raised, or the graph
\* paused again.
ResumeBreaks(r, c) ==
    /\ checkpoint' = [checkpoint EXCEPT ![resume[r].execution] = c]
    /\ resume' = [resume EXCEPT ![r].pc = "broken"]
    /\ UNCHANGED <<review, turn, calls>>

\* There is no checkpoint left, or the node the run stopped at raises again.
ResumeGraphRaises(r) ==
    LET c == checkpoint[resume[r].execution] IN
    /\ resume[r].pc = "claimed"
    /\ c.next \in {"absent", "unfinished"}
    /\ ResumeBreaks(r, c)

ResumeGraphFails(r) ==
    LET e == resume[r].execution IN
    /\ resume[r].pc = "claimed"
    /\ "invoke" \in Faults
    /\ \E c \in PartlyResumed(checkpoint[e], resume[r].decision) :
          ResumeBreaks(r, c)

\* A run that goes on before the router may choose a person again.
ResumeGraphPauses(r) ==
    LET c == checkpoint[resume[r].execution] IN
    /\ resume[r].pc = "claimed"
    /\ c.next = "unfinished"
    /\ ResumeBreaks(r, [c EXCEPT !.next = "human_review"])

\* Mutant of Releasable: the wrong status is compared.
ReleasablePending(e) == review[e].status = "pending"

\* _release_review_claim gives back a row that is still processing.
Releasable(e) == review[e].status = "processing"

\* Mutant of Released: reviewed_by is not cleared.
ReleasedByReviewer(e) == [review[e] EXCEPT !.status = "pending"]

Released(e) == [review[e] EXCEPT !.status = "pending", !.by = None]

Release(r) ==
    LET e == resume[r].execution IN
    /\ resume[r].pc = "broken"
    /\ review' = IF Releasable(e) THEN [review EXCEPT ![e] = Released(e)]
                                  ELSE review
    /\ resume' = [resume EXCEPT ![r].pc = "failed"]
    /\ UNCHANGED <<checkpoint, turn, calls>>

\* _persist_resume_outcome accepts only a row that is still processing.
Settleable(e) == review[e].status = "processing"

\* The verdict, the assistant message and the audit row, in one commit.
Settle(r) ==
    LET e == resume[r].execution IN
    /\ resume[r].pc = "invoked"
    /\ resume[r].answer # None
    /\ Settleable(e)
    /\ review' = [review EXCEPT ![e] =
                     [status |-> VerdictOf(resume[r].decision), by |-> r]]
    /\ calls' = calls \cup {[execution |-> e, by |-> r,
                             operation |-> "resume", status |-> "success",
                             answer |-> resume[r].answer]}
    /\ resume' = [resume EXCEPT ![r].pc = "done"]
    /\ UNCHANGED <<checkpoint, turn>>

\* Nothing after ainvoke is inside the try block, the KeyError of a state
\* without an answer included, and a cancellation is not an Exception: the
\* handler ends and leaves the row as it is.
ResumeCutOff(r) ==
    /\ \/ resume[r].pc = "claimed" /\ "cancel" \in Faults
       \/ resume[r].pc = "broken" /\ Faults \cap {"mysql", "cancel"} # {}
       \/ resume[r].pc = "invoked"
             /\ Faults \cap {"view", "mysql", "cancel"} # {}
       \/ /\ resume[r].pc = "invoked"
          /\ \/ resume[r].answer = None
             \/ ~Settleable(resume[r].execution)
    /\ resume' = [resume EXCEPT ![r].pc = "failed"]
    /\ UNCHANGED <<checkpoint, review, turn, calls>>

-----------------------------------------------------------------------------
(* The environment *)

AtWork == {"running", "ensuring", "inserting", "yielding", "persisting",
           "claimed", "broken", "invoked"}

\* The process dies and takes every handler with it; the stores survive.
Crash ==
    /\ "crash" \in Faults
    /\ \/ \E t \in Turns : turn[t].pc \in AtWork
       \/ \E r \in Resumes : resume[r].pc \in AtWork
    /\ turn' = [t \in Turns |-> IF turn[t].pc \in AtWork
                                THEN [turn[t] EXCEPT !.pc = "dead"]
                                ELSE turn[t]]
    /\ resume' = [r \in Resumes |-> IF resume[r].pc \in AtWork
                                    THEN [resume[r] EXCEPT !.pc = "dead"]
                                    ELSE resume[r]]
    /\ UNCHANGED <<checkpoint, review, calls>>

\* The TTL index of the checkpoint collection; graph_reviews has none.
Expire(e) ==
    /\ "expiry" \in Faults
    /\ checkpoint[e].next # "absent"
    /\ checkpoint' = [checkpoint EXCEPT ![e] = NoCheckpoint]
    /\ UNCHANGED <<review, turn, resume, calls>>

TurnStep(t) ==
    \/ GraphPauses(t) \/ GraphAnswersTurn(t) \/ GraphRaises(t)
    \/ GraphRefusesQuestion(t) \/ GraphCutOff(t)
    \/ PersistTurn(t) \/ LookForReview(t) \/ OpenReview(t)
    \/ OpenReviewConflicts(t) \/ TurnCutOff(t) \/ FinishStream(t)

ResumeStep(r) ==
    \/ ResumeGraph(r) \/ ResumeGraphRaises(r) \/ ResumeGraphFails(r)
    \/ ResumeGraphPauses(r) \/ Release(r) \/ Settle(r) \/ ResumeCutOff(r)

Next ==
    \/ \E t \in Turns, mode \in Modes : Receive(t, mode)
    \/ \E t \in Turns : TurnStep(t)
    \/ \E r \in Resumes, e \in Executions, d \in Decisions : Claim(r, e, d)
    \/ \E r \in Resumes, e \in Executions : Refuse(r, e)
    \/ \E r \in Resumes : ResumeStep(r)
    \/ Crash
    \/ \E e \in Executions : Expire(e)

Spec == Init /\ [][Next]_vars

\* The event loop runs every handler that is ready; nothing makes a user or
\* a reviewer call.
FairSpec ==
    /\ Spec
    /\ \A t \in Turns : WF_vars(TurnStep(t))
    /\ \A r \in Resumes : WF_vars(ResumeStep(r))

-----------------------------------------------------------------------------
(* Properties *)

Resolved(e) == review[e].status \in Verdicts

ResumeCalls(e) == {c \in calls : c.execution = e /\ c.operation = "resume"}

\* A handler between its claim and its end is the one the row names: two
\* reviewers never resume the same checkpoint at the same time, and nobody
\* works on a row that was given back or settled under him
\* (graph_reviews.py claim).
ClaimIsExclusive ==
    \A r \in Resumes :
        resume[r].pc \in {"claimed", "broken", "invoked"} =>
            review[resume[r].execution] = [status |-> "processing", by |-> r]

\* A settled row and the row of model_calls of its resumption come together
\* and at most once per execution, whatever is retried or dies: no answer is
\* published twice (services/conversations.py _persist_resume_outcome).
OneOutcome ==
    \A e \in Executions :
        /\ Resolved(e) <=> ResumeCalls(e) # {}
        /\ \A c1, c2 \in ResumeCalls(e) : c1 = c2

\* A text that says a person approved (or rejected) an execution is only
\* published, by a turn or by a resumption, if a reviewer who held the claim
\* on that execution decided so (graph/workflow.py human_review_node).
VerdictWasGiven ==
    \A c \in calls :
        c.answer \in Verdicts =>
            \E r \in Resumes : /\ resume[r].execution = c.execution
                               /\ VerdictOf(resume[r].decision) = c.answer

\* The user of turn t was told that the request waits for a reviewer.
PauseReported(t) ==
    /\ turn[t].answer = "paused"
    /\ turn[t].status = "success"
    /\ turn[t].pc \in IF turn[t].mode = "send" THEN {"closed"}
                      ELSE {"yielding", "persisting", "closed"}

\* Whoever is told to wait for a reviewer has a row in the reviewers' queue
\* or in its history: send() answers and stream() yields only after
\* _ensure_pending_review committed.
ReportedPauseHasReview ==
    \A t \in Turns :
        PauseReported(t) => review[ExecutionOf[t]].status # "absent"

\* A verdict is final: no turn that runs the execution again, no late release
\* and no second reviewer changes a settled row (week9-learning-record 7.3).
VerdictIsFinal ==
    [][\A e \in Executions : Resolved(e) => review'[e] = review[e]]_vars

\* If nothing fails after ainvoke returned, every claim ends: the row is
\* settled or back in the queue (_release_review_claim).
ClaimEnds ==
    \A e \in Executions :
        review[e].status = "processing" ~> review[e].status # "processing"

\* A resume call that ended in an exception does not keep its claim
\* (_release_review_claim: a failed resumption returns the row to pending).
FailedResumeReleases ==
    \A r \in Resumes :
        resume[r].pc = "failed" =>
            review[resume[r].execution] # [status |-> "processing", by |-> r]

\* The verdict in MySQL is the one the published answer states
\* (_persist_resume_outcome writes both in one transaction).
VerdictMatchesAnswer ==
    \A e \in Executions : \A c \in ResumeCalls(e) :
        Resolved(e) => c.answer = review[e].status

\* A turn never answers with the verdict on an earlier message of the
\* conversation (_run_graph: the request id keeps turns from polluting each
\* other's state).
TurnAnswersItself ==
    \A c \in calls : c.operation # "resume" => c.answer \notin Verdicts

-----------------------------------------------------------------------------
(* Implementation of the abstract review *)

Phase(status) ==
    CASE status = "absent" -> "closed"
      [] status = "pending" -> "open"
      [] status = "processing" -> "held"
      [] OTHER -> status

AnswerIn(rows) ==
    IF rows = {} THEN None ELSE (CHOOSE c \in rows : TRUE).answer

Decision == INSTANCE ReviewDecision WITH
    Callers <- Resumes,
    NoCaller <- None,
    NoAnswer <- None,
    phase <- [e \in Executions |-> Phase(review[e].status)],
    holder <- [e \in Executions |-> review[e].by],
    published <- [e \in Executions |-> AnswerIn(ResumeCalls(e))]

\* Claims, releases and settlements, with everything that fails in between,
\* are the steps of ReviewDecision.
ImplementsDecision == Decision!Spec
=============================================================================

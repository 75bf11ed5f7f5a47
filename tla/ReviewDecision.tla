--------------------------- MODULE ReviewDecision ---------------------------
(***************************************************************************)
(* What the human-review feature promises, without saying how.             *)
(*                                                                         *)
(* An execution that needs a person is opened for review once.  One caller *)
(* at a time holds it.  The holder either gives it back or settles it, and *)
(* settling it records the verdict and publishes one answer in the same    *)
(* step.  A settled execution is never touched again.                      *)
(*                                                                         *)
(* ReviewedExecution implements this specification over a MySQL row, a     *)
(* MongoDB checkpoint and an asyncio handler per call.                     *)
(***************************************************************************)

CONSTANTS
    Executions,  \* graph executions, one per conversation and request id
    Callers,     \* calls of the resume endpoint
    Answers,     \* texts a resumed execution may publish
    NoCaller,    \* the holder of an execution nobody holds
    NoAnswer     \* the answer of an execution that has not published one

VARIABLES
    phase,       \* phase[e]: where execution e is in its review
    holder,      \* holder[e]: the caller that holds or settled e
    published    \* published[e]: the answer the review of e published

vars == <<phase, holder, published>>

Phases == {"closed", "open", "held", "approved", "rejected"}

Settled(e) == phase[e] \in {"approved", "rejected"}

Init ==
    /\ phase = [e \in Executions |-> "closed"]
    /\ holder = [e \in Executions |-> NoCaller]
    /\ published = [e \in Executions |-> NoAnswer]

\* The execution was paused and enters the queue of the reviewers.
Open(e) ==
    /\ phase[e] = "closed"
    /\ phase' = [phase EXCEPT ![e] = "open"]
    /\ UNCHANGED <<holder, published>>

\* Exactly one caller takes the execution out of the queue.
Hold(e, c) ==
    /\ phase[e] = "open"
    /\ phase' = [phase EXCEPT ![e] = "held"]
    /\ holder' = [holder EXCEPT ![e] = c]
    /\ UNCHANGED published

\* The holder failed and the execution returns to the queue.
GiveBack(e) ==
    /\ phase[e] = "held"
    /\ phase' = [phase EXCEPT ![e] = "open"]
    /\ holder' = [holder EXCEPT ![e] = NoCaller]
    /\ UNCHANGED published

\* The holder records its verdict and publishes the answer, atomically.
Settle(e, verdict, answer) ==
    /\ phase[e] = "held"
    /\ phase' = [phase EXCEPT ![e] = verdict]
    /\ published' = [published EXCEPT ![e] = answer]
    /\ UNCHANGED holder

Next ==
    \E e \in Executions :
        \/ Open(e)
        \/ \E c \in Callers : Hold(e, c)
        \/ GiveBack(e)
        \/ \E verdict \in {"approved", "rejected"}, answer \in Answers :
               Settle(e, verdict, answer)

Spec == Init /\ [][Next]_vars
=============================================================================

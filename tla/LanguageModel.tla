---------------------------- MODULE LanguageModel ----------------------------
(***************************************************************************)
(* Calls of the model: the retries of the provider's adapter               *)
(* (llm/openai_compatible.py), the repetitions of the tasks that want a    *)
(* structured reply (intent/classifier.py, conversation_context.py,        *)
(* llm/service.py), what ChatService writes down of its own calls          *)
(* (llm/usage.py), and the streamed chat.                                  *)
(***************************************************************************)
EXTENDS Integers, Sequences

CONSTANTS
    HttpRetries,     \* max_retries of the adapter
    ParseRetries,    \* parse_retries and grounded_parse_retries
    MaxChunks        \* length of a streamed text

ASSUME ModelAssumption == {HttpRetries, ParseRetries, MaxChunks} \subseteq Nat

VARIABLES
    call,      \* the open call: its task, HTTP attempt and repetition
    usage,     \* ChatService in this run: calls made, records, tokens answered
    stream     \* the streamed chat

modelVars == <<call, usage, stream>>

Tasks == {"resolve", "classify", "grounded", "chat"}
NoCall == [task |-> "none", http |-> 0, tries |-> 0]

\* unavailable: transport errors or 429/5xx to the end; bad_response: another
\* status, or a reply without its envelope; unexpected: any other exception.
Errors == {"unavailable", "bad_response", "unexpected"}

ModelTypeOK ==
    /\ call \in [task : Tasks \cup {"none"}, http : 0..HttpRetries, tries : 0..ParseRetries]
    /\ usage \in [calls : 0..(ParseRetries + 1), records : 0..(ParseRetries + 1),
                  tokens : 0..(ParseRetries + 1)]
    /\ stream.phase \in {"none", "waiting", "open", "success", "error", "cancelled"}
    /\ stream.http \in 0..HttpRetries
    /\ stream.shown \in Seq(1..MaxChunks)
    /\ stream.records \in 0..1

NoUsage == [calls |-> 0, records |-> 0, tokens |-> 0]
NoStream == [phase |-> "none", http |-> 0, next |-> 1, finish |-> FALSE,
             shown |-> <<>>, records |-> 0]

ModelInit == call = NoCall /\ usage = NoUsage /\ stream = NoStream

\* complete and complete_grounded record; the intent and the topic do not.
Accounted(task) == task \in {"grounded", "chat"}

Ask(task) ==
    /\ call' = [NoCall EXCEPT !.task = task]
    /\ usage' = [usage EXCEPT !.calls = @ + IF Accounted(task) THEN 1 ELSE 0]

\* A transport error or a status of _RETRYABLE_STATUS_CODES while attempts are left.
Backoff ==
    /\ call.task # "none"
    /\ call.http < HttpRetries
    /\ call' = [call EXCEPT !.http = @ + 1]
    /\ UNCHANGED <<usage, stream>>

\* A reply that cannot be parsed and each error; only the last HTTP attempt
\* may end as unavailable.
MayEnd(outcome) == outcome = "unavailable" => call.http = HttpRetries

\* What each loop repeats: the resolver every AppError, the others a bad
\* response; all of them a reply that does not parse.
Repeatable(task, outcome) ==
    \/ task = "resolve" /\ outcome \in {"unavailable", "bad_response", "unparsed"}
    \/ task \in {"classify", "grounded"} /\ outcome \in {"bad_response", "unparsed"}

\* Mutant of WriteRecord: a repetition is not written down.
RecordLast(task, last) == IF Accounted(task) /\ last THEN 1 ELSE 0

\* One record per call of the provider, also when it is repeated.
WriteRecord(task, last) == IF Accounted(task) THEN 1 ELSE 0

Tokens(task, outcome) ==
    IF Accounted(task) /\ outcome \notin Errors \cup {"cancelled"} THEN 1 ELSE 0

\* Mutant of NextTry: the repetition is not counted.
SameTry(tries) == tries

NextTry(tries) == tries + 1

MayRepeat(outcome) ==
    /\ Repeatable(call.task, outcome)
    /\ call.tries < ParseRetries

\* The repaired request asks the same again.
Repeat(outcome) ==
    /\ MayRepeat(outcome)
    /\ call' = [call EXCEPT !.http = 0, !.tries = NextTry(@)]
    /\ usage' = [calls |-> usage.calls + IF Accounted(call.task) THEN 1 ELSE 0,
                 records |-> usage.records + WriteRecord(call.task, FALSE),
                 tokens |-> usage.tokens + Tokens(call.task, outcome)]

\* The call ends with its reply or its error.
EndCall(outcome) ==
    /\ ~MayRepeat(outcome)
    /\ call' = NoCall
    /\ usage' = [usage EXCEPT !.records = @ + WriteRecord(call.task, TRUE),
                              !.tokens = @ + Tokens(call.task, outcome)]

-----------------------------------------------------------------------------
(* ChatService.stream over the adapter's stream *)

StreamLive == stream.phase \in {"waiting", "open"}

OpenStream ==
    /\ stream.phase = "none"
    /\ stream' = [NoStream EXCEPT !.phase = "waiting"]

\* The finally block: one record, whatever ends the stream.
CloseStream(phase) ==
    stream' = [stream EXCEPT !.phase = phase, !.records = @ + 1]

\* The provider accepts the request and sends its text from the start.
Connect ==
    /\ stream.phase = "waiting"
    /\ stream' = [stream EXCEPT !.phase = "open", !.next = 1]

Chunk ==
    /\ stream.phase = "open"
    /\ stream.next <= MaxChunks
    /\ stream' = [stream EXCEPT !.shown = Append(@, stream.next),
                                !.finish = stream.next = MaxChunks, !.next = @ + 1]

\* Mutant of Emitted: only a finished text counts as output.
Finished == stream.finish

Emitted == stream.shown # <<>>

\* The connection breaks, or it was refused for now.
StreamBreaks ==
    /\ StreamLive
    /\ IF Emitted \/ stream.http = HttpRetries
       THEN CloseStream("error")
       ELSE stream' = [stream EXCEPT !.phase = "waiting", !.http = @ + 1]

\* A malformed event or another status: never repeated. The text must have
\* named how it finished.
StreamEnds(wellFormed) ==
    /\ StreamLive
    /\ wellFormed => stream.phase = "open"
    /\ CloseStream(IF wellFormed /\ stream.finish THEN "success" ELSE "error")

\* The client leaves (is_disconnected, or its task is cancelled).
LeaveStream == StreamLive /\ CloseStream("cancelled")

StreamStep ==
    \/ Connect
    \/ Chunk
    \/ StreamBreaks
    \/ \E wellFormed \in BOOLEAN : StreamEnds(wellFormed)
=============================================================================

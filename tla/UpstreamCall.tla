---------------------------- MODULE UpstreamCall ----------------------------
(***************************************************************************)
(* One call of the NVIDIA client through an exit of the proxy pool         *)
(* (internal/upstream/nvidia: client.go, chat.go, audio.go): an exit is    *)
(* acquired, the request is sent, a failure before the first byte was      *)
(* written is tried once more through another exit, and the answer's body  *)
(* decides how the exit is judged.  The transport, the timers and the      *)
(* context run beside the caller.  Giving a handle back does nothing and   *)
(* is left out.                                                            *)
(***************************************************************************)
EXTENDS Naturals, FiniteSets, Sequences

VARIABLES
  sending, \* where the caller is, and what it knows
  handles, \* per attempt: whether its request was written, what its exit was told
  context, \* "alive", "canceled" or "deadline"
  body     \* releaseBody: "none" or "open", semanticRequired, semanticEOF, terminal, who closed it

callVars == <<sending, handles, context, body>>

Kinds == {"stream", "whole", "speech"}
Closers == {"handler", "context", "watchdog"}
NoBody == [open |-> FALSE, good |-> FALSE, required |-> FALSE, eof |-> FALSE, terminal |-> "none",
           closed |-> {}, marked |-> FALSE, ended |-> FALSE]

CallInit ==
  /\ sending \in [at : {"acquire"}, kind : Kinds, late : {FALSE}, error : {"none"}]
  /\ handles = <<>> /\ context = "alive" /\ body = NoBody

Latest == Len(handles)
Wrote == handles[Latest].wrote
CallEnds(error) == sending' = [sending EXCEPT !.at = "over", !.error = error]
Reported(report) == [handles EXCEPT ![Latest].reports = @ \cup {report}]

(***************************************************************************)
(* doProxyAttempt.                                                         *)
(***************************************************************************)
\* AcquireWithWait gives an exit, or none in time.
AcquireExit(ok) ==
  /\ sending.at = "acquire"
  /\ IF ok
       THEN /\ handles' = Append(handles, [wrote |-> FALSE, reports |-> {}])
            /\ sending' = [sending EXCEPT !.at = "send"]
       ELSE CallEnds("no exit") /\ UNCHANGED handles
  /\ UNCHANGED <<context, body>>

\* The request cannot be built, such as when a replayed body cannot be opened.
BuildFails ==
  /\ sending.at = "send" /\ ~Wrote
  /\ CallEnds("build")
  /\ UNCHANGED <<handles, context, body>>

\* WroteRequest, on the transport's goroutine.
WroteRequest ==
  /\ sending.at = "send" /\ ~Wrote
  /\ handles' = [handles EXCEPT ![Latest].wrote = TRUE]
  /\ UNCHANGED <<sending, context, body>>

\* startFirstByteWatch: its time may also be up before the call begins.
FirstByteExpires ==
  /\ sending.at \in {"acquire", "send"} /\ ~sending.late
  /\ sending' = [sending EXCEPT !.late = TRUE]
  /\ UNCHANGED <<handles, context, body>>

ContextEnds(how) ==
  /\ context = "alive" /\ sending.at # "over"
  /\ context' = how
  /\ UNCHANGED <<sending, handles, body>>

\* Slip: the end of the body is enough.
NeedsNothing(kind) == FALSE

\* Only a stream and a whole answer need more than the end of the body: primeSSE
\* and requireNonstreamSemanticCompletion.
RequiresMark(kind) == kind \in {"stream", "whole"}

\* isProxyHTTPFault: these may be the exit's fault.
AnswerComes(status) ==
  /\ sending.at = "send" /\ Wrote
  /\ handles' = CASE status = "2xx" -> Reported("latency")
                  [] status = "fault" -> Reported("http failure")
                  [] status = "4xx" -> handles
  /\ body' = [NoBody EXCEPT !.open = TRUE, !.good = (status = "2xx"),
                            !.required = (status = "2xx" /\ RequiresMark(sending.kind))]
  /\ sending' = [sending EXCEPT !.at = "body"]
  /\ UNCHANGED context

\* The transport gives an answer without a body, or a body and an error.
AnswerComesBadly ==
  /\ sending.at = "send" /\ Wrote
  /\ CallEnds("transport")
  /\ UNCHANGED <<handles, context, body>>

FirstByteTimedOut == sending.late /\ Wrote /\ context # "canceled"

\* Slip: a request that was written is tried again.
AlwaysRetry == TRUE

MayRetry == context = "alive" /\ ~Wrote /\ ~sending.late

\* The transport fails without an answer.
TransportFails(how) ==
  /\ sending.at = "send"
  /\ IF MayRetry
       THEN /\ handles' = Reported("retired")
            /\ sending' = [sending EXCEPT !.at = "again", !.error = how]
       ELSE /\ handles' = IF FirstByteTimedOut THEN Reported("failure") ELSE handles
            /\ CallEnds(IF FirstByteTimedOut THEN "first byte" ELSE how)
  /\ UNCHANGED <<context, body>>

(***************************************************************************)
(* do: what comes after a failure that may be tried again.                 *)
(***************************************************************************)
\* replayableProxyError: what the proxy answered itself is not worth another try.
TryAgain ==
  /\ sending.at = "again"
  /\ CASE context # "alive" -> CallEnds(sending.error)
       [] context = "alive" /\ Latest = 2 -> CallEnds("transport")
       [] context = "alive" /\ Latest = 1 /\ sending.error = "refused" -> CallEnds("rejected")
       [] OTHER -> sending' = [sending EXCEPT !.at = "acquire", !.error = "none"]
  /\ UNCHANGED <<handles, context, body>>

(***************************************************************************)
(* releaseBody.                                                            *)
(***************************************************************************)
\* completeTerminal and failTerminal: the first one counts.
SetTerminal(which) ==
  /\ body' = [body EXCEPT !.terminal = IF @ = "none" THEN which ELSE @, !.ended = TRUE]
  /\ handles' = CASE body.terminal # "none" -> handles
                  [] body.terminal = "none" /\ which = "failed" -> Reported("failure")
                  [] body.terminal = "none" /\ which = "complete" ->
                       IF body.good THEN Reported("success") ELSE handles

ReadEOF ==
  /\ sending.at = "body" /\ ~body.ended /\ body.closed = {}
  /\ IF body.required
       THEN body' = [body EXCEPT !.eof = TRUE, !.ended = TRUE] /\ UNCHANGED handles
       ELSE SetTerminal("complete")
  /\ UNCHANGED <<sending, context>>

\* A read fails: by itself, or because somebody closed the body under it.
ReadFails ==
  /\ sending.at = "body" /\ ~body.ended
  /\ SetTerminal("failed")
  /\ UNCHANGED <<sending, context>>

ReadCanceled ==
  /\ sending.at = "body" /\ ~body.ended /\ context # "alive"
  /\ body' = [body EXCEPT !.ended = TRUE]
  /\ UNCHANGED <<sending, handles, context>>

\* MarkComplete: [DONE] was seen, or the whole body was read and is a good answer
\* (ValidateNonstreamChat, ValidateNonstreamAudio).
MarkComplete ==
  /\ sending.at = "body" /\ body.good /\ body.required /\ ~("handler" \in body.closed)
  /\ sending.kind = "whole" => body.eof
  /\ body' = [body EXCEPT !.terminal = IF @ = "none" THEN "complete" ELSE @, !.marked = TRUE]
  /\ handles' = IF body.terminal = "none" THEN Reported("success") ELSE handles
  /\ UNCHANGED <<sending, context>>

\* Close: by the handler at its end, by the goroutine that waits for the context,
\* or by the watchdog of a stream's writes, before or after the handler.
CloseBody(by) ==
  LET fails == body.required /\ body.eof /\ body.terminal = "none" IN
  /\ sending.at \in {"body", "closing"} /\ by \notin body.closed
  /\ by = "context" => context # "alive"
  /\ by = "watchdog" => sending.kind = "stream"
  /\ body' = [body EXCEPT !.closed = @ \cup {by}, !.terminal = IF fails THEN "failed" ELSE @]
  /\ handles' = IF fails THEN Reported("failure") ELSE handles
  /\ sending' = [sending EXCEPT !.at = IF by = "handler" THEN "closing" ELSE @]
  /\ UNCHANGED context

HandlerReturns ==
  /\ sending.at = "closing"
  /\ CallEnds("none")
  /\ UNCHANGED <<handles, context, body>>

CallNext ==
  \/ \E ok \in BOOLEAN : AcquireExit(ok)
  \/ BuildFails \/ WroteRequest \/ FirstByteExpires
  \/ \E how \in {"canceled", "deadline"} : ContextEnds(how)
  \/ \E status \in {"2xx", "fault", "4xx"} : AnswerComes(status)
  \/ AnswerComesBadly
  \/ \E how \in {"network", "refused"} : TransportFails(how)
  \/ TryAgain \/ ReadEOF \/ ReadFails \/ ReadCanceled \/ MarkComplete
  \/ \E by \in Closers : CloseBody(by)
  \/ HandlerReturns

(***************************************************************************)
(* Properties.                                                             *)
(***************************************************************************)
\* A request that was written is never sent again through another exit, although
\* the write, the failure and the timer are noticed by different goroutines
\* (client.go:332-377, 511-537).
SentOnce == Cardinality({k \in DOMAIN handles : handles[k].wrote}) <= 1

\* An exit is credited with a success only for a good answer that came to its
\* end, and nobody both credits and blames it for the reading (client.go:582-652).
SuccessIsEarned ==
  \A k \in DOMAIN handles : "success" \in handles[k].reports =>
    /\ handles[k].reports \cap {"failure", "http failure", "retired"} = {}
    /\ body.good /\ body.terminal = "complete"
    /\ sending.kind \in {"stream", "whole"} => body.marked
    /\ sending.kind \in {"speech", "whole"} => body.ended
=============================================================================

---------------------------- MODULE FreeGateway ----------------------------
(***************************************************************************)
(* A request for a model of the OpenCode Free gateway                      *)
(* (internal/httpapi/v1/opencodefree_execution.go, chat.go,                *)
(* responses_opencodefree.go, internal/upstream/opencodefree/client.go):   *)
(* no key and no queue, but two calls at most, and within a call up to     *)
(* three attempts through exits of the proxy pool.                         *)
(***************************************************************************)
EXTENDS Naturals, Sequences

CONSTANT ProxyAttempts  \* proxyAttempts

VARIABLES
  gate,    \* the handler: where it is, its call and attempt, and the last error
  copies,  \* per call: how many copies of the request reached the gateway
  answer,  \* what was written to the client, in order
  exit,    \* what the attempt's exit was told
  present, \* the client is there (the parent context)
  opened,  \* response bodies opened so far
  closed   \* response bodies closed so far

gateVars == <<gate, copies, answer, exit, present, opened, closed>>

GateInit ==
  /\ gate \in [at : {"attempt"}, stream : BOOLEAN, direct : BOOLEAN, call : {1}, attempt : {1},
               wrote : {FALSE}, error : {"none"}]
  /\ copies = <<0, 0>> /\ answer = <<>> /\ exit = {} /\ present = TRUE
  /\ opened = 0 /\ closed = 0

Goes(where) == gate' = [gate EXCEPT !.at = where]
Fails(error) == gate' = [gate EXCEPT !.at = "error", !.error = error]

(***************************************************************************)
(* do and attemptThroughProxy.                                             *)
(***************************************************************************)
\* No exit in time: the next attempt asks again.
NoExit ==
  /\ gate.at = "attempt" /\ ~gate.direct
  /\ Goes("attempted")
  /\ exit' = {}
  /\ UNCHANGED <<copies, answer, present, opened, closed>>

Connect ==
  /\ gate.at = "attempt"
  /\ Goes("sending")
  /\ exit' = {}
  /\ UNCHANGED <<copies, answer, present, opened, closed>>

RequestSent ==
  /\ gate.at = "sending" /\ ~gate.wrote
  /\ copies' = [copies EXCEPT ![gate.call] = @ + 1]
  /\ gate' = [gate EXCEPT !.wrote = TRUE]
  /\ UNCHANGED <<answer, exit, present, opened, closed>>

\* An attempt that failed before anything was written retires its exit.
SendFails ==
  /\ gate.at = "sending"
  /\ exit' = IF gate.direct \/ gate.wrote \/ ~present THEN {} ELSE {"retired"}
  /\ Goes("attempted")
  /\ UNCHANGED <<copies, answer, present, opened, closed>>

MayAttemptAgain == ~gate.direct /\ ~gate.wrote /\ present /\ gate.attempt < ProxyAttempts

AttemptFailed ==
  /\ gate.at = "attempted"
  /\ IF MayAttemptAgain
       THEN gate' = [gate EXCEPT !.at = "attempt", !.attempt = @ + 1, !.wrote = FALSE]
       ELSE Fails("transport")
  /\ UNCHANGED <<copies, answer, exit, present, opened, closed>>

\* 2xx, a transient status, 429, 404 or another one.
Answers(status) ==
  /\ gate.at = "sending" /\ gate.wrote
  /\ exit' = CASE gate.direct -> {}
               [] ~gate.direct /\ status = "2xx" -> {"latency", "success"}
               [] ~gate.direct /\ status \in {"transient", "429"} -> {"http failure"}
               [] OTHER -> {}
  /\ opened' = opened + 1
  /\ gate' = [gate EXCEPT !.at = IF status = "2xx" THEN "callback" ELSE "status", !.error = status]
  /\ UNCHANGED <<copies, answer, present, closed>>

(***************************************************************************)
(* run.                                                                    *)
(***************************************************************************)
\* classifyOpenCodeFreeStatus: only a transient status of the first call is tried
\* again.
RetryStatus == gate.error = "transient" /\ gate.call = 1

ClassifyStatus ==
  /\ gate.at = "status"
  /\ closed' = closed + 1
  /\ IF RetryStatus THEN Goes("wait")
     ELSE Fails(CASE gate.error = "404" -> "model not found"
                  [] gate.error \in {"429", "transient"} -> "unavailable"
                  [] OTHER -> "upstream error")
  /\ UNCHANGED <<copies, answer, exit, present, opened>>

\* Slip: the failure of a stream is answered once more.
ReportsFailure(how) == how # "good"

\* The stream's handler answers the client itself, whatever it met.
StreamFails(how) == FALSE

Streamed(how) ==
  /\ gate.at = "callback" /\ gate.stream
  /\ answer' = Append(answer, IF how = "nothing" THEN "error" ELSE "stream")
  /\ closed' = closed + 1
  /\ IF StreamFails(how) THEN Fails("upstream error") ELSE Goes("over")
  /\ UNCHANGED <<copies, exit, present, opened>>

\* openCodeFreeRetryableCallbackError.
RetryAnswer(how) == how \in {"empty", "malformed", "starved"} /\ gate.call = 1

\* The whole answer is validated and converted before anything is written.
Whole(how) ==
  /\ gate.at = "callback" /\ ~gate.stream
  /\ closed' = closed + 1
  /\ IF how = "good"
       THEN answer' = Append(answer, "whole") /\ Goes("over")
       ELSE /\ UNCHANGED answer
            /\ IF RetryAnswer(how) THEN Goes("wait") ELSE Fails(how)
  /\ UNCHANGED <<copies, exit, present, opened>>

\* waitForRetry: a client that leaves while waiting ends the request silently.
Waited ==
  /\ gate.at = "wait"
  /\ \/ gate' = [gate EXCEPT !.at = "attempt", !.call = 2, !.attempt = 1, !.wrote = FALSE, !.error = "none"]
     \/ ~present /\ Goes("over")
  /\ UNCHANGED <<copies, answer, exit, present, opened, closed>>

WriteChatError ==
  /\ gate.at = "error"
  /\ answer' = Append(answer, "error")
  /\ Goes("over")
  /\ UNCHANGED <<copies, exit, present, opened, closed>>

ClientLeaves ==
  /\ present /\ gate.at # "over"
  /\ present' = FALSE
  /\ UNCHANGED <<gate, copies, answer, exit, opened, closed>>

GateNext ==
  \/ NoExit \/ Connect \/ RequestSent \/ SendFails \/ AttemptFailed
  \/ \E status \in {"2xx", "transient", "429", "404", "other"} : Answers(status)
  \/ ClassifyStatus
  \/ \E how \in {"good", "truncated", "nothing"} : Streamed(how)
  \/ \E how \in {"good", "empty", "malformed", "starved", "unreadable", "unconvertible"} : Whole(how)
  \/ Waited \/ WriteChatError \/ ClientLeaves

(***************************************************************************)
(* Properties.                                                             *)
(***************************************************************************)
\* "An attempt that already reached the gateway is never replayed": one call puts
\* at most one copy of the request on the wire, over all its exits
\* (opencodefree/client.go:139-171).
OneCopyPerCall == \A c \in {1, 2} : copies[c] <= 1

\* The client gets one answer and never a second one on top of it; without any it
\* is only left if it went away, and every body that was opened is closed
\* (opencodefree_execution.go:42-99, chat.go:200-250).
OneAnswer ==
  /\ Len(answer) <= 1
  /\ gate.at = "over" => (answer = <<>> => ~present) /\ opened = closed

\* A call of the free gateway is made once and answered once.
CallsAreSingle == OneCopyPerCall /\ OneAnswer
=============================================================================

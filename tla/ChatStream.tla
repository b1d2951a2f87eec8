----------------------------- MODULE ChatStream -----------------------------
(***************************************************************************)
(* One streamed chat answer from the upstream to the client: PrimeUntil    *)
(* holds the answer back until it says something (internal/sse/prime.go),  *)
(* Proxy relays it event by event (proxy.go, decoder.go, encoder.go), the  *)
(* idle timer and the write watchdog close the upstream body from their    *)
(* own goroutines (idle.go, proxy.go), and streamResponse decides what the *)
(* client is told at the end (internal/httpapi/v1/chat.go).                *)
(* An event is its meaning: a comment without data, a thought, text, a     *)
(* finish by length, the end marker, or data that is no JSON.              *)
(***************************************************************************)
EXTENDS Naturals, FiniteSets, Sequences, SequencesExt

CONSTANTS
  Events,     \* the events an upstream sends
  MostEvents, \* bound: events of one answer
  MaxCapture  \* MaxCaptureBytes and MaxEventSize, in events

\* What an event of the upstream can mean; the handler's own words to the client
\* ("header", "error", "json") are none of them.
ASSUME EventAssumption == Events \subseteq {"comment", "thought", "text", "length", "done", "bad"}

VARIABLES
  gateway,   \* "nvidia" or "free": OpenCodeFree's answers are neither primed nor watched for silence
  made,      \* what the upstream has sent
  at,        \* how many of these have been read
  ending,    \* how the upstream's answer ends: "open", "eof" or "broken"
  body,      \* the upstream's body: "open", "idle" (closed by the idle timer) or "closed"
  stage,     \* "prime", "decode", "write", "flush", "end" or "over"
  pending,   \* comments held back before the first data
  client,    \* "reads", "stalls" or "gone"
  canceled,  \* the request's context has ended
  watchdog,  \* "off", "armed" or "fired"
  seen,      \* what the handler has learnt of the answer
  out,       \* what the client has been sent
  result     \* what Prime or Proxy returned

streamVars == <<gateway, made, at, ending, body, stage, pending, client, canceled, watchdog, seen, out, result>>

Unseen == [content |-> FALSE, length |-> FALSE, done |-> FALSE, complete |-> FALSE]

StreamInit ==
  /\ gateway \in {"nvidia", "free"}
  /\ made = <<>> /\ at = 0 /\ ending = "open" /\ body = "open"
  /\ stage = (IF gateway = "nvidia" THEN "prime" ELSE "decode") /\ pending = <<>>
  /\ client = "reads" /\ canceled = FALSE /\ watchdog = "off"
  /\ seen = Unseen /\ out = <<>> /\ result = "none"

Committed == out # <<>>
Finish(how) == stage' = "end" /\ result' = how

(***************************************************************************)
(* The upstream, the client and the timers.                                *)
(***************************************************************************)
UpstreamSends ==
  /\ ending = "open" /\ Len(made) < MostEvents /\ stage # "over"
  /\ \E e \in Events : made' = Append(made, e)
  /\ UNCHANGED <<gateway, at, ending, body, stage, pending, client, canceled, watchdog, seen, out, result>>
UpstreamEnds ==
  /\ ending = "open" /\ stage # "over"
  /\ ending' \in {"eof", "broken"}
  /\ UNCHANGED <<gateway, made, at, body, stage, pending, client, canceled, watchdog, seen, out, result>>

ClientTurns ==
  /\ stage # "over"
  /\ \/ client = "reads" /\ client' \in {"stalls", "gone"}
     \/ client = "stalls" /\ client' \in {"reads", "gone"}
  /\ UNCHANGED <<gateway, made, at, ending, body, stage, pending, canceled, watchdog, seen, out, result>>

\* The context ends with the client or at a deadline; its callback closes the body.
ContextEnds ==
  /\ ~canceled /\ stage # "over"
  /\ canceled' = TRUE
  /\ body' = IF body = "open" THEN "closed" ELSE body
  /\ UNCHANGED <<gateway, made, at, ending, stage, pending, client, watchdog, seen, out, result>>

\* The idle timer, armed when the answer is handed on: a silent upstream's body
\* is closed.
IdleMayExpire == gateway = "nvidia" /\ stage \in {"decode", "write", "flush"} /\ body = "open"
IdleExpires ==
  /\ IdleMayExpire
  /\ body' = "idle"
  /\ UNCHANGED <<gateway, made, at, ending, stage, pending, client, canceled, watchdog, seen, out, result>>

\* The write watchdog, armed around a flush.
WatchdogFires ==
  /\ watchdog = "armed"
  /\ client # "reads"
  /\ watchdog' = "fired"
  /\ body' = IF body = "open" THEN "closed" ELSE body
  /\ UNCHANGED <<gateway, made, at, ending, stage, pending, client, canceled, seen, out, result>>

(***************************************************************************)
(* Decoder.Decode: the next event, or why there is none.                   *)
(***************************************************************************)
HasEvent == at < Len(made)
NextEvent == made[at + 1]
ReadFails == body # "open" \/ (~HasEvent /\ ending # "open")
ReadError == IF body # "open" THEN (IF canceled THEN "canceled" ELSE IF body = "idle" THEN "idle" ELSE "closed")
             ELSE IF ending = "eof" THEN "eof" ELSE "broken"

(***************************************************************************)
(* PrimeUntil with semanticChatEvent: nothing is committed before an event *)
(* that says something; what was read on the way is replayed.              *)
(***************************************************************************)
Semantic(e) == e \in {"text", "thought"}

\* Slip: what Prime has read is not replayed.
Forget == at + 1

Replay == 0

PrimeReads ==
  /\ stage = "prime" /\ HasEvent
  /\ LET e == NextEvent IN
     CASE at + 1 > MaxCapture -> Finish("protocol") /\ UNCHANGED at
       [] at + 1 <= MaxCapture /\ Semantic(e) -> stage' = "decode" /\ at' = Replay /\ UNCHANGED result
       [] at + 1 <= MaxCapture /\ e = "done" -> Finish("empty") /\ UNCHANGED at
       [] at + 1 <= MaxCapture /\ e = "bad" -> Finish("undecodable") /\ UNCHANGED at
       [] OTHER -> at' = at + 1 /\ UNCHANGED <<stage, result>>
  /\ UNCHANGED <<gateway, made, ending, body, pending, client, canceled, watchdog, seen, out>>
PrimeFails ==
  /\ stage = "prime" /\ ReadFails
  /\ Finish(IF canceled THEN "canceled" ELSE "protocol")
  /\ UNCHANGED <<gateway, made, at, ending, body, pending, client, canceled, watchdog, seen, out>>

(***************************************************************************)
(* Proxy.                                                                  *)
(***************************************************************************)
\* Comments wait for the first data, up to the size of an event.
Decode ==
  /\ stage = "decode" /\ HasEvent
  /\ CASE NextEvent = "comment" /\ ~Committed /\ Len(pending) >= MaxCapture ->
            Finish("too large") /\ UNCHANGED <<at, pending, seen>>
       [] NextEvent = "comment" /\ ~Committed /\ Len(pending) < MaxCapture ->
            /\ pending' = Append(pending, NextEvent)
            /\ at' = at + 1
            /\ UNCHANGED <<stage, seen, result>>
       [] OTHER ->
            /\ stage' = "write"
            /\ seen' = [seen EXCEPT !.done = NextEvent = "done"]
            /\ UNCHANGED <<at, pending, result>>
  /\ UNCHANGED <<gateway, made, ending, body, client, canceled, watchdog, out>>

\* Slip: an early end is taken for the end.
DecodeFailsQuietly ==
  /\ stage = "decode" /\ ReadFails
  /\ Finish(IF ReadError = "eof" THEN "ok" ELSE ReadError)
  /\ UNCHANGED <<gateway, made, at, ending, body, pending, client, canceled, watchdog, seen, out>>

\* An end of the body before the end marker is an interruption.
DecodeFails ==
  /\ stage = "decode" /\ ReadFails
  /\ Finish(IF ReadError = "eof" THEN "interrupted" ELSE ReadError)
  /\ UNCHANGED <<gateway, made, at, ending, body, pending, client, canceled, watchdog, seen, out>>

\* The header and the comments go out before the first data; an answer that
\* ended by length without text is not given the end marker.
IsEmpty == seen.length /\ ~seen.content
Write ==
  /\ stage = "write"
  /\ pending' = <<>>
  /\ CASE client = "gone" -> out' = (IF Committed THEN out ELSE <<"header">>) /\ Finish("write") /\ UNCHANGED at
       [] client # "gone" /\ seen.done /\ IsEmpty -> out' = out \o pending /\ Finish("empty") /\ UNCHANGED at
       [] OTHER -> out' = Append(out \o pending, NextEvent) /\ at' = at + 1 /\ stage' = "flush" /\ UNCHANGED result
  /\ watchdog' = IF stage' = "flush" /\ watchdog = "off" THEN "armed" ELSE watchdog
  /\ UNCHANGED <<gateway, made, ending, body, client, canceled, seen>>

\* A flush returns when the client reads, at the write deadline, or with the
\* watchdog's closing.
Flush ==
  LET e == made[at] IN
  /\ stage = "flush"
  /\ client = "reads" \/ client = "gone" \/ watchdog = "fired"
  /\ IF watchdog = "fired"
       THEN Finish("stalled") /\ UNCHANGED <<seen, watchdog>>
       ELSE /\ watchdog' = "off"
            /\ seen' = IF seen.done THEN [seen EXCEPT !.complete = TRUE]
                       ELSE [seen EXCEPT !.content = @ \/ e = "text", !.length = @ \/ e = "length"]
            /\ IF seen.done THEN Finish("ok") ELSE stage' = "decode" /\ UNCHANGED result
  /\ UNCHANGED <<gateway, made, at, ending, body, pending, client, canceled, out>>

(***************************************************************************)
(* What the client is told: streamResponse after Proxy, and the attempt's  *)
(* error after Prime.                                                      *)
(***************************************************************************)
Told ==
  CASE result = "ok" -> <<>>
    [] result # "ok" /\ ~Committed -> <<"json">>
    [] result = "stalled" /\ Committed -> <<>>
    [] result = "empty" /\ Committed -> <<"error", "done">>
    [] OTHER -> IF canceled THEN <<>> ELSE <<"error", "done">>

StreamResponse ==
  /\ stage = "end"
  /\ stage' = "over"
  /\ out' = IF client = "gone" THEN out ELSE out \o Told
  /\ UNCHANGED <<gateway, made, at, ending, body, pending, client, canceled, watchdog, seen, result>>

HandlerStep ==
  \/ PrimeReads \/ PrimeFails \/ Decode \/ DecodeFails \/ Write \/ Flush \/ StreamResponse

StreamNext ==
  \/ HandlerStep
  \/ UpstreamSends \/ UpstreamEnds \/ ClientTurns \/ ContextEnds \/ IdleExpires \/ WatchdogFires

(***************************************************************************)
(* Properties.                                                             *)
(***************************************************************************)
\* The places of the data in what was sent, and how much there is up to a place.
DataOf(s) == {i \in DOMAIN s : s[i] \in Events \ {"comment", "done"}}
DataUpTo(s, n) == Cardinality({i \in DataOf(s) : i <= n})

\* The client gets the upstream's data events from the first one on, in order,
\* none twice and none left out, although the first ones were read by Prime: its
\* n-th is the upstream's n-th (prime.go:36-77, proxy.go:114-183).
RelayedInOrder ==
  \A i \in DataOf(out) :
    \E j \in DataOf(made) : made[j] = out[i] /\ DataUpTo(made, j) = DataUpTo(out, i)

\* A client that reads to the end is told how a committed answer ended: with the
\* upstream's end marker, or with an error in front of one (chat.go:364-423).
TruncationIsTold ==
  (stage = "over" /\ Committed /\ client = "reads" /\ ~canceled /\ result # "stalled" /\ out # <<"json">>)
  => /\ Last(out) = "done"
     /\ \A i \in 1 .. Len(out) - 1 : out[i] # "done"
     /\ ("error" \in ToSet(out)) = ~seen.complete

\* An answer counts as complete, for its credential too, only when its end
\* marker went out after something the client can see, or without a finish by
\* length (chat.go:332-343, proxy.go:175-179, 223-228).
CompleteHasAnswer ==
  seen.complete => "done" \in ToSet(out) /\ ("length" \in ToSet(out) => "text" \in ToSet(out))

\* Every stream ends although the upstream may fall silent and the client may
\* stop reading without closing (idle.go:16-36, proxy.go:70-80).
StreamEnds == <>(stage = "over")

\* The client, and the credential's record, learn how the answer really ended.
EndIsTold == TruncationIsTold /\ CompleteHasAnswer
=============================================================================

-------------------------- MODULE ResponsesStream --------------------------
(***************************************************************************)
(* A streamed answer in the Responses format                               *)
(* (internal/protocol/responses: stream.go, state.go, delta.go,            *)
(* nonstream.go; internal/httpapi/v1/responses.go): chat deltas are turned *)
(* into events about output items.  A delta with several parts is several  *)
(* deltas here, a text is its number of fragments, and a call's name,      *)
(* which is kept like its id, is left out.  An event that fails to reach   *)
(* the client is followed by none that does.                               *)
(***************************************************************************)
EXTENDS Integers, FiniteSets, SequencesExt

CONSTANTS
  Calls,      \* the indexes of tool calls
  MostDeltas,
  TextLimit   \* maxStreamTextBytes, maxToolArgumentsBytes, in fragments

ASSUME ResponsesAssumption == Calls \subseteq Nat /\ MostDeltas \in Nat /\ TextLimit \in Nat

VARIABLES
  conv,     \* streamState
  sent,     \* the events that reached the client
  progress, \* "new", "streaming", "over" (finalized), "cut" (the client is gone) or "closed"
  heard,    \* the deltas, as a sequence
  said,     \* how the upstream ended: "", "done", "eof", "broken", "canceled" or "bad"
  verdict   \* releaseBody.terminal: "none", "complete" or "failed"

responseVars == <<conv, sent, progress, heard, said, verdict>>

None == -1
NoState == [next |-> 0, message |-> None, text |-> 0, reasoning |-> None, thoughts |-> 0,
            tools |-> <<>>, finish |-> ""]

ResponseInit ==
  /\ conv = NoState /\ sent = <<>> /\ progress = "new"
  /\ heard = <<>> /\ said = "" /\ verdict = "none"

(***************************************************************************)
(* What the upstream sends (ParseChatDelta).                               *)
(***************************************************************************)
NoId == <<"", 0>>
Given(call) == <<"given", call>>
Fallback(n) == <<"call", n>>

Text == [kind |-> "text"]
Thought == [kind |-> "thought"]
FinishReason(reason) == [kind |-> "finish", reason |-> reason]
ToolCall(call, id, args) == [kind |-> "call", call |-> call, id |-> id, args |-> args]

Deltas ==
  {Text, Thought} \cup {FinishReason(r) : r \in {"stop", "length", "content_filter"}}
    \cup {ToolCall(c, IF named THEN Given(c) ELSE NoId, args) : c \in Calls, named \in BOOLEAN, args \in BOOLEAN}

(***************************************************************************)
(* Items and events.                                                       *)
(***************************************************************************)
MessageID == <<"msg", 0>>
ReasoningID == <<"rs", 0>>
Item(id, size) == [id |-> id, size |-> size]
Event(type, index, item) == [type |-> type, index |-> index, item |-> item]
Result(c, events, ok) == [conv |-> c, events |-> events, ok |-> ok]

(***************************************************************************)
(* applyDelta.                                                             *)
(***************************************************************************)
OpenMessage(c) ==
  Result([c EXCEPT !.message = c.next, !.next = @ + 1],
         <<Event("added", c.next, Item(MessageID, 0)), Event("part", c.next, Item(MessageID, 0))>>, TRUE)

EmitTextDelta(c) ==
  LET o == IF c.message = None THEN OpenMessage(c) ELSE Result(c, <<>>, TRUE) IN
  IF o.conv.text = TextLimit THEN [o EXCEPT !.ok = FALSE]
  ELSE Result([o.conv EXCEPT !.text = @ + 1],
              Append(o.events, Event("delta", o.conv.message, Item(MessageID, 1))), TRUE)

EmitReasoningDelta(c) ==
  LET o == IF c.reasoning = None
             THEN Result([c EXCEPT !.reasoning = c.next, !.next = @ + 1],
                         <<Event("added", c.next, Item(ReasoningID, 0))>>, TRUE)
             ELSE Result(c, <<>>, TRUE) IN
  IF o.conv.thoughts = TextLimit THEN [o EXCEPT !.ok = FALSE]
  ELSE Result([o.conv EXCEPT !.thoughts = @ + 1],
              Append(o.events, Event("delta", o.conv.reasoning, Item(ReasoningID, 1))), TRUE)

CallID(t) == IF t.id # NoId THEN t.id ELSE Fallback(t.call)

\* The id is pinned with the event that announces the call.
PinnedID(t) == [t EXCEPT !.added = TRUE, !.id = CallID(t)]

EnsureToolAdded(c, k) ==
  LET t == c.tools[k] IN
  IF t.added THEN Result(c, <<>>, TRUE)
  ELSE Result([c EXCEPT !.tools[k] = PinnedID(t)], <<Event("added", t.index, Item(CallID(t), 0))>>, TRUE)

\* A call takes its output index when it is first heard of, announced or not.
WithTool(c, call) ==
  IF \E k \in DOMAIN c.tools : c.tools[k].call = call THEN c
  ELSE [c EXCEPT !.tools = Append(@, [call |-> call, index |-> c.next, id |-> NoId, args |-> 0, added |-> FALSE]),
                 !.next = @ + 1]

ApplyToolCall(c, d) ==
  LET known == WithTool(c, d.call)
      k     == CHOOSE i \in DOMAIN known.tools : known.tools[i].call = d.call
      named == [known EXCEPT !.tools[k].id = IF @ = NoId THEN d.id ELSE @]
      a     == IF named.tools[k].id # NoId \/ d.args THEN EnsureToolAdded(named, k) ELSE Result(named, <<>>, TRUE)
      t     == a.conv.tools[k]
  IN CASE ~d.args -> a
       [] d.args /\ t.args = TextLimit -> [a EXCEPT !.ok = FALSE]
       [] OTHER -> Result([a.conv EXCEPT !.tools[k].args = @ + 1],
                          Append(a.events, Event("delta", t.index, Item(CallID(t), 1))), TRUE)

ApplyDelta(c, d) ==
  CASE d.kind = "thought" -> EmitReasoningDelta(c)
    [] d.kind = "text" -> EmitTextDelta(c)
    [] d.kind = "call" -> ApplyToolCall(c, d)
    [] d.kind = "finish" -> Result([c EXCEPT !.finish = d.reason], <<>>, TRUE)

(***************************************************************************)
(* finalize.                                                               *)
(***************************************************************************)
Ended(index, item) == <<Event("closed", index, item), Event("done", index, item)>>

CloseOpenMessage(c) == IF c.message = None THEN <<>> ELSE Ended(c.message, Item(MessageID, c.text))
CloseReasoningItem(c) == IF c.reasoning = None THEN <<>> ELSE Ended(c.reasoning, Item(ReasoningID, c.thoughts))

\* Slip: a call without an id is dropped at the end.
CloseAnnounced(c, k) ==
  LET t == c.tools[k] IN IF t.added THEN Ended(t.index, Item(CallID(t), t.args)) ELSE <<>>

\* A call that was heard of without an id is announced before it is closed.
CloseTool(c, k) ==
  LET t == c.tools[k] IN
  EnsureToolAdded(c, k).events \o Ended(t.index, Item(CallID(t), t.args))

\* The tools are closed in the order in which they were heard of.
CloseTools(c) ==
  LET closings[k \in 0 .. Len(c.tools)] ==
        IF k = 0 THEN <<>> ELSE closings[k - 1] \o CloseTool(c, k)
  IN  closings

\* outputItems: the items at their indexes, without gaps.
ItemAt(c, i) ==
  CASE c.reasoning = i -> Item(ReasoningID, c.thoughts)
    [] c.message = i -> Item(MessageID, c.text)
    [] \E k \in DOMAIN c.tools : c.tools[k].index = i ->
         LET t == c.tools[CHOOSE k \in DOMAIN c.tools : c.tools[k].index = i] IN Item(CallID(t), t.args)
    [] OTHER -> Item(NoId, 0)

Collected(c) ==
  LET items[n \in 0 .. c.next] ==
        IF n = 0 THEN <<>>
        ELSE IF ItemAt(c, n - 1).id = NoId THEN items[n - 1]
        ELSE Append(items[n - 1], ItemAt(c, n - 1))
  IN  items

OutputItems(c) == Collected(c)[c.next]

IncompleteReason(finish) == finish \in {"length", "content_filter"}
StatusForFinishReason(finish) == IF IncompleteReason(finish) THEN "incomplete" ELSE "completed"

Status(c, failed) == IF failed THEN "failed" ELSE StatusForFinishReason(c.finish)

Terminal(c, failed) == [type |-> "terminal", status |-> Status(c, failed), items |-> OutputItems(c)]
Done == [type |-> "[DONE]"]

Finalize(c, failed) ==
  LET reasoningFirst == c.reasoning # None /\ (c.message = None \/ c.reasoning < c.message)
      texts == IF reasoningFirst THEN CloseReasoningItem(c) \o CloseOpenMessage(c)
               ELSE CloseOpenMessage(c) \o CloseReasoningItem(c)
  IN texts \o CloseTools(c)[Len(c.tools)] \o <<Terminal(c, failed), Done>>

(***************************************************************************)
(* Convert, with the emitter.  The first k events reach the client.        *)
(***************************************************************************)
\* onComplete: a stream whose last event was sent is marked complete.
Marked(now, last) == IF last /\ now = "none" THEN "complete" ELSE now

Emit(events, k, next, seen) ==
  /\ k \in 0 .. Len(events)
  /\ sent' = sent \o SubSeq(events, 1, k)
  /\ progress' = IF k < Len(events) THEN "cut" ELSE next
  /\ verdict' = Marked(seen, next = "over" /\ k = Len(events))

Begin(k) ==
  /\ progress = "new"
  /\ Emit(<<[type |-> "created"], [type |-> "in_progress"]>>, k, "streaming", verdict)
  /\ UNCHANGED <<conv, heard, said>>

Delta(d, k) ==
  LET r == ApplyDelta(conv, d) IN
  /\ progress = "streaming" /\ Len(heard) < MostDeltas
  /\ heard' = Append(heard, d)
  /\ conv' = r.conv
  /\ Emit(IF r.ok THEN r.events ELSE r.events \o Finalize(r.conv, TRUE), k,
          IF r.ok THEN "streaming" ELSE "over", verdict)
  /\ UNCHANGED said

\* Next: [DONE], the end of the body, a failed read, one the context ended, or a
\* payload that is not a chat chunk.  A failed read counts against the exit at once.
SourceEnds(how, k) ==
  /\ progress = "streaming"
  /\ said' = how
  /\ Emit(Finalize(conv, how # "done"), k, "over", IF how = "broken" THEN "failed" ELSE verdict)
  /\ UNCHANGED <<conv, heard>>

\* The handler's deferred Close: an end without a mark is a failure of the exit.
BodyEnds ==
  /\ progress \in {"over", "cut"}
  /\ progress' = "closed"
  /\ verdict' = IF said = "eof" /\ verdict = "none" THEN "failed" ELSE verdict
  /\ UNCHANGED <<conv, sent, heard, said>>

MostOutput == 2 * (MostDeltas + 2) + 2 * MostDeltas

ResponseNext ==
  \/ \E k \in 0 .. 2 : Begin(k)
  \/ \E d \in Deltas, k \in 0 .. MostOutput : Delta(d, k)
  \/ \E how \in {"done", "eof", "broken", "canceled", "bad"}, k \in 0 .. MostOutput : SourceEnds(how, k)
  \/ BodyEnds

(***************************************************************************)
(* The same answer, not streamed (FromChatWithConfig): the message the     *)
(* deltas add up to, with its calls in the order of their indexes.         *)
(***************************************************************************)
Count(kind) == Cardinality({j \in DOMAIN heard : heard[j].kind = kind})
OfCall(c) == {j \in DOMAIN heard : heard[j].kind = "call" /\ heard[j].call = c}
CallsHeard == {c \in Calls : OfCall(c) # {}}
ArgsOf(c) == Cardinality({j \in OfCall(c) : heard[j].args})
GivenID(c) == \E j \in OfCall(c) : heard[j].id # NoId
NamedAtOnce(c) == \A j \in OfCall(c) : (\A k \in OfCall(c) : j <= k) => heard[j].id # NoId

\* Slip: the calls are numbered from one.
PositionFromOne(c) == Cardinality({x \in CallsHeard : x <= c})

Position(c) == Cardinality({x \in CallsHeard : x < c})

ExtractReasoning == IF Count("thought") > 0 THEN {Item(ReasoningID, Count("thought"))} ELSE {}
ExtractText == IF Count("text") > 0 THEN {Item(MessageID, Count("text"))} ELSE {}

BuildOutputItems ==
  ExtractReasoning \cup ExtractText
    \cup {Item(IF GivenID(c) THEN Given(c) ELSE Fallback(Position(c)), ArgsOf(c)) : c \in CallsHeard}

(***************************************************************************)
(* Properties.                                                             *)
(***************************************************************************)
ItemTypes == {"added", "part", "delta", "closed", "done"}
Concerns(e, i) == e.type \in ItemTypes /\ e.index = i
WasSent(type) == \E e \in ToSet(sent) : e.type = type

\* What is told about one output index: it is announced first and once, under one
\* id to the end, and nothing follows its "done"; the terminal event is the last
\* but [DONE].
WellFormed(events) ==
  \A j \in DOMAIN events :
    /\ events[j].type = "terminal" => j + 1 >= Len(events)
    /\ events[j].type \in ItemTypes =>
         /\ \E k \in 1 .. j : Concerns(events[k], events[j].index) /\ events[k].type = "added"
         /\ \A k \in 1 .. j - 1 : Concerns(events[k], events[j].index) =>
              /\ events[k].item.id = events[j].item.id
              /\ events[j].type # "added"
              /\ events[k].type # "done"

\* What the client is told is well-formed, item by item (stream.go:84-266, 359-474).
ItemsAreWellFormed == WellFormed(sent)

\* The terminal event sums up what was told item by item: every index from 0 on was
\* finished, and the list holds exactly the finished items, in the order of the
\* indexes.
SumsUp(events, c) ==
  \A j \in DOMAIN events : events[j].type = "terminal" =>
    /\ Len(events[j].items) = c.next
    /\ \A i \in 0 .. c.next - 1 : \E k \in 1 .. j - 1 :
         Concerns(events[k], i) /\ events[k].type = "done" /\ events[k].item = events[j].items[i + 1]

\* The terminal event agrees with the events before it (stream.go:271-357,
\* state.go:183-221).
TerminalAgrees == SumsUp(sent, conv)

\* A stream is "completed" or "incomplete" only after the upstream's [DONE], and
\* a client that stays is always given a terminal event (stream.go:48-82).
TerminalIsTrue ==
  /\ \A e \in ToSet(sent) : e.type = "terminal" =>
       e.status = (IF said = "done" THEN StatusForFinishReason(conv.finish) ELSE "failed")
  /\ progress = "over" => WasSent("terminal") /\ WasSent("[DONE]")

\* A client that asked for a stream and one that did not get the same items, for
\* an upstream that numbers its calls from 0, names a call when it first mentions
\* it or never, and gives it arguments (nonstream.go:128-205).
SameAsNotStreamed ==
  \A e \in ToSet(sent) :
    /\ e.type = "terminal" /\ said = "done"
    /\ CallsHeard = 0 .. Cardinality(CallsHeard) - 1
    /\ \A c \in CallsHeard : ArgsOf(c) > 0 /\ (GivenID(c) => NamedAtOnce(c))
    => ToSet(e.items) = BuildOutputItems

\* "RequireSemanticCompletion makes ordinary EOF a failed stream termination"
\* (upstream/nvidia/client.go:613): a body that ends before [DONE] is never
\* counted as a success of the exit it came through.
TruncationIsNoSuccess == progress = "closed" /\ said = "eof" => verdict # "complete"

\* A Responses stream is a consistent account of itself: well-formed items, a
\* terminal event that lists them, and a status that the upstream's end justifies.
TerminalIsRight == ItemsAreWellFormed /\ TerminalAgrees /\ TerminalIsTrue
=============================================================================

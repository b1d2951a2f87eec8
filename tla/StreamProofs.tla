---------------------------- MODULE StreamProofs ----------------------------
(***************************************************************************)
(* What the streams run checks on small instances, without its bounds: a   *)
(* call of the OpenCode Free gateway is made and answered once, the        *)
(* records of requests are neither lost nor doubled on their way to the    *)
(* table, up to the closing of the database, a streamed chat answer ends   *)
(* with one word of how it ended, the budget of request bodies is neither  *)
(* overdrawn nor leaked, chat events are relayed in order, and a streamed  *)
(* Responses answer is a consistent account, with the items of one that is *)
(* not streamed.                                                           *)
(***************************************************************************)
EXTENDS FreeGateway, GracefulStop, ChatStream, RequestBody, ResponsesStream, TLAPS, FiniteSetTheorems,
        SequenceTheorems, WellFoundedInduction

(***************************************************************************)
(* The free gateway: the inductive invariant                               *)
(***************************************************************************)
GateSpec == GateInit /\ [][GateNext]_gateVars

GateErrors ==
  {"none", "transport", "2xx", "transient", "429", "404", "other", "model not found", "unavailable",
   "upstream error", "empty", "malformed", "starved", "unreadable", "unconvertible"}

Gates ==
  [at : {"attempt", "attempted", "sending", "callback", "status", "wait", "error", "over"},
   stream : BOOLEAN, direct : BOOLEAN, call : {1, 2}, attempt : Nat, wrote : BOOLEAN, error : GateErrors]

GateTypeOK ==
  /\ gate \in Gates /\ copies \in [{1, 2} -> Nat] /\ present \in BOOLEAN
  /\ opened \in Nat /\ closed \in Nat

\* The attempt knows whether its call has reached the gateway, and the second
\* call has not before it is made.
WroteIsKnown ==
  /\ gate.wrote => copies[gate.call] = 1
  /\ ~gate.wrote => copies[gate.call] = 0
  /\ gate.call = 1 => copies[2] = 0
  /\ gate.call = 2 => copies[1] <= 1
  /\ gate.at = "attempt" => ~gate.wrote
  /\ gate.at = "wait" => gate.call = 1

\* One body is open while it is looked at, and nothing has been answered before
\* the end.
AnswerIsPending ==
  /\ gate.at \in {"callback", "status"} => opened = closed + 1
  /\ gate.at \notin {"callback", "status"} => opened = closed
  /\ gate.at # "over" => answer = <<>>
  /\ gate.at = "over" => (answer = <<>> /\ ~present) \/ Len(answer) = 1

\* The inductive invariant of a call of the free gateway.
GateInv == GateTypeOK /\ WroteIsKnown /\ AnswerIsPending

\* Nothing is of length 0.
LEMMA NoneIsEmpty == Len(<<>>) = 0
  OBVIOUS

\* A first answer is one answer.
LEMMA FirstAnswer == \A e : Len(Append(<<>>, e)) = 1 /\ Append(<<>>, e) # <<>>
  OBVIOUS

\* A call of the free gateway keeps its inductive invariant.
THEOREM GateInductive == GateSpec => []GateInv
<1>1. ASSUME GateInit
      PROVE  GateInv
  <2>1. gate \in Gates
    <3>1. {"none"} \subseteq GateErrors /\ {1} \subseteq Nat
      BY DEF GateErrors
    <3>2. gate \in [at : {"attempt"}, stream : BOOLEAN, direct : BOOLEAN, call : {1}, attempt : {1},
                    wrote : {FALSE}, error : {"none"}]
      BY <1>1 DEF GateInit
    <3>. QED  BY <3>1, <3>2 DEF Gates
  <2>2. /\ gate.at = "attempt" /\ gate.call = 1 /\ gate.wrote = FALSE
        /\ present = TRUE /\ opened = 0 /\ closed = 0 /\ answer = <<>>
    BY <1>1 DEF GateInit
  <2>3. copies \in [{1, 2} -> Nat] /\ copies[1] = 0 /\ copies[2] = 0
    <3>1. copies = <<0, 0>>
      BY <1>1 DEF GateInit
    <3>2. 1 .. 2 = {1, 2}
      OBVIOUS
    <3>3. copies \in [1 .. 2 -> Nat]
      BY <3>1
    <3>. QED  BY <3>1, <3>2, <3>3
  <2>. QED  BY <2>1, <2>2, <2>3 DEF GateInv, GateTypeOK, WroteIsKnown, AnswerIsPending
<1>2. ASSUME GateInv, [GateNext]_gateVars
      PROVE  GateInv'
  <2>. USE <1>2 DEF GateInv, GateTypeOK
  <2>1. CASE UNCHANGED gateVars
    BY <2>1 DEF gateVars, WroteIsKnown, AnswerIsPending
  <2>2. ASSUME NEW where \in {"attempt", "attempted", "sending", "callback", "status", "wait", "error", "over"},
               Goes(where)
        PROVE  /\ gate' \in Gates /\ gate'.at = where
               /\ gate'.call = gate.call /\ gate'.wrote = gate.wrote
    BY <2>2 DEF Goes, Gates
  <2>3. ASSUME NEW error \in GateErrors, Fails(error)
        PROVE  /\ gate' \in Gates /\ gate'.at = "error"
               /\ gate'.call = gate.call /\ gate'.wrote = gate.wrote
    BY <2>3 DEF Fails, Gates
  <2>4. CASE NoExit
    BY <2>2, <2>4 DEF NoExit, WroteIsKnown, AnswerIsPending
  <2>5. CASE Connect
    BY <2>2, <2>5 DEF Connect, WroteIsKnown, AnswerIsPending
  <2>6. CASE RequestSent
    <3>1. gate' \in Gates /\ gate'.at = "sending" /\ gate'.wrote = TRUE /\ gate'.call = gate.call
      BY <2>6 DEF RequestSent, Gates
    <3>2. gate.call \in {1, 2} /\ copies[gate.call] = 0
      BY <2>6 DEF RequestSent, Gates, WroteIsKnown
    <3>3. copies' \in [{1, 2} -> Nat] /\ copies'[gate.call] = 1
          /\ \A c \in {1, 2} : c # gate.call => copies'[c] = copies[c]
      BY <2>6, <3>2 DEF RequestSent
    <3>4. WroteIsKnown'
      BY <3>1, <3>2, <3>3 DEF WroteIsKnown
    <3>. QED  BY <2>6, <3>1, <3>3, <3>4 DEF RequestSent, AnswerIsPending
  <2>7. CASE SendFails
    BY <2>2, <2>7 DEF SendFails, WroteIsKnown, AnswerIsPending
  <2>8. CASE AttemptFailed
    <3>1. CASE MayAttemptAgain
      <4>1. gate' = [gate EXCEPT !.at = "attempt", !.attempt = gate.attempt + 1, !.wrote = FALSE]
        BY <2>8, <3>1 DEF AttemptFailed
      <4>3. gate' \in Gates
        <5>1. gate.attempt + 1 \in Nat
          BY DEF Gates
        <5>. QED  BY <4>1, <5>1 DEF Gates
      <4>4. gate'.at = "attempt" /\ gate'.wrote = FALSE /\ gate'.call = gate.call
        BY <4>1 DEF Gates
      <4>2. ~gate.wrote
        BY <3>1 DEF MayAttemptAgain
      <4>. QED  BY <2>8, <4>2, <4>3, <4>4 DEF AttemptFailed, WroteIsKnown, AnswerIsPending
    <3>2. CASE ~MayAttemptAgain
      <4>1. "transport" \in GateErrors
        BY DEF GateErrors
      <4>. QED  BY <4>1, <2>3, <2>8, <3>2 DEF AttemptFailed, WroteIsKnown, AnswerIsPending
    <3>. QED  BY <3>1, <3>2
  <2>9. ASSUME NEW status \in {"2xx", "transient", "429", "404", "other"}, Answers(status)
        PROVE  GateInv'
    <3>. DEFINE where == IF status = "2xx" THEN "callback" ELSE "status"
    <3>0. gate' = [gate EXCEPT !.at = where, !.error = status] /\ where \in {"callback", "status"} /\ status \in GateErrors
      BY <2>9 DEF Answers, GateErrors
    <3>1. /\ gate' \in Gates /\ gate'.at \in {"callback", "status"}
          /\ gate'.wrote = gate.wrote /\ gate'.call = gate.call
      <4>. HIDE DEF where
      <4>1. gate' \in Gates
        BY <3>0 DEF Gates
      <4>. QED  BY <3>0, <4>1 DEF Gates
    <3>2. gate.at = "sending" /\ opened' = opened + 1 /\ UNCHANGED <<copies, answer, present, closed>>
      BY <2>9 DEF Answers
    <3>. QED  BY <3>1, <3>2 DEF WroteIsKnown, AnswerIsPending
  <2>10. CASE ClassifyStatus
    <3>1. CASE RetryStatus
      <4>1. gate' \in Gates /\ gate'.at = "wait" /\ gate'.wrote = gate.wrote /\ gate'.call = gate.call
        BY <2>2, <2>10, <3>1 DEF ClassifyStatus
      <4>. QED  BY <2>10, <3>1, <4>1 DEF ClassifyStatus, RetryStatus, WroteIsKnown, AnswerIsPending
    <3>2. CASE ~RetryStatus
      <4>1. gate' \in Gates /\ gate'.at = "error" /\ gate'.wrote = gate.wrote /\ gate'.call = gate.call
        <5>1. \E e \in GateErrors : Fails(e)
          BY <2>10, <3>2 DEF ClassifyStatus, GateErrors
        <5>. QED  BY <2>3, <5>1
      <4>. QED  BY <2>10, <4>1 DEF ClassifyStatus, WroteIsKnown, AnswerIsPending
    <3>. QED  BY <3>1, <3>2
  <2>11. ASSUME NEW how \in {"good", "truncated", "nothing"}, Streamed(how)
         PROVE  GateInv'
    <3>1. gate' \in Gates /\ gate'.at = "over" /\ gate'.wrote = gate.wrote /\ gate'.call = gate.call
      BY <2>2, <2>11 DEF Streamed, StreamFails
    <3>2. Len(answer') = 1
      BY <2>11, FirstAnswer DEF Streamed, AnswerIsPending
    <3>. QED  BY <2>11, <3>1, <3>2 DEF Streamed, WroteIsKnown, AnswerIsPending
  <2>12. ASSUME NEW how \in {"good", "empty", "malformed", "starved", "unreadable", "unconvertible"}, Whole(how)
         PROVE  GateInv'
    <3>1. CASE how = "good"
      <4>1. gate' \in Gates /\ gate'.at = "over" /\ gate'.wrote = gate.wrote /\ gate'.call = gate.call
        BY <2>2, <2>12, <3>1 DEF Whole
      <4>2. Len(answer') = 1
        BY <2>12, <3>1, FirstAnswer DEF Whole, AnswerIsPending
      <4>. QED  BY <2>12, <4>1, <4>2 DEF Whole, WroteIsKnown, AnswerIsPending
    <3>2. CASE how # "good" /\ RetryAnswer(how)
      <4>1. gate' \in Gates /\ gate'.at = "wait" /\ gate'.wrote = gate.wrote /\ gate'.call = gate.call
        BY <2>2, <2>12, <3>2 DEF Whole
      <4>. QED  BY <2>12, <3>2, <4>1 DEF Whole, RetryAnswer, WroteIsKnown, AnswerIsPending
    <3>3. CASE how # "good" /\ ~RetryAnswer(how)
      <4>1. gate' \in Gates /\ gate'.at = "error" /\ gate'.wrote = gate.wrote /\ gate'.call = gate.call
        <5>1. how \in GateErrors /\ Fails(how)
          BY <2>12, <3>3 DEF Whole, GateErrors
        <5>. QED  BY <2>3, <5>1
      <4>. QED  BY <2>12, <3>3, <4>1 DEF Whole, WroteIsKnown, AnswerIsPending
    <3>. QED  BY <3>1, <3>2, <3>3
  <2>13. CASE Waited
    <3>1. CASE gate' = [gate EXCEPT !.at = "attempt", !.call = 2, !.attempt = 1, !.wrote = FALSE, !.error = "none"]
      <4>1. gate' \in Gates
        <5>1. "none" \in GateErrors
          BY DEF GateErrors
        <5>. QED  BY <3>1, <5>1 DEF Gates
      <4>2. gate'.at = "attempt" /\ gate'.wrote = FALSE /\ gate'.call = 2
        BY <3>1 DEF Gates
      <4>3. gate.call = 1 /\ copies[2] = 0 /\ copies[1] <= 1
        BY <2>13 DEF Waited, WroteIsKnown
      <4>. QED  BY <2>13, <4>1, <4>2, <4>3 DEF Waited, WroteIsKnown, AnswerIsPending
    <3>2. CASE ~present /\ Goes("over")
      BY <2>2, <2>13, <3>2 DEF Waited, WroteIsKnown, AnswerIsPending
    <3>. QED  BY <2>13, <3>1, <3>2 DEF Waited
  <2>14. CASE WriteChatError
    <3>1. gate' \in Gates /\ gate'.at = "over" /\ gate'.wrote = gate.wrote /\ gate'.call = gate.call
      BY <2>2, <2>14 DEF WriteChatError
    <3>2. Len(answer') = 1
      BY <2>14, FirstAnswer DEF WriteChatError, AnswerIsPending
    <3>. QED  BY <2>14, <3>1, <3>2 DEF WriteChatError, WroteIsKnown, AnswerIsPending
  <2>15. CASE ClientLeaves
    BY <2>15 DEF ClientLeaves, WroteIsKnown, AnswerIsPending
  <2>. QED
    BY <2>1, <2>4, <2>5, <2>6, <2>7, <2>8, <2>9, <2>10, <2>11, <2>12, <2>13, <2>14, <2>15 DEF GateNext
<1>. QED  BY <1>1, <1>2, PTL DEF GateSpec

\* A call of the free gateway puts one copy of the request on the wire, over all
\* its exits, and the client gets one answer, for any number of attempts a call
\* has (opencodefree/client.go:139-171, opencodefree_execution.go:42-99).
THEOREM GateCallsSingle == GateSpec => []CallsAreSingle
<1>1. ASSUME GateInv
      PROVE  CallsAreSingle
  <2>. USE <1>1 DEF GateInv, GateTypeOK, Gates
  <2>1. OneCopyPerCall
    BY DEF OneCopyPerCall, WroteIsKnown
  <2>2. Len(answer) <= 1
    <3>1. answer = <<>> \/ Len(answer) = 1
      BY DEF AnswerIsPending
    <3>. QED  BY <3>1, NoneIsEmpty
  <2>3. gate.at = "over" => (answer = <<>> => ~present) /\ opened = closed
    <3>1. gate.at = "over" => opened = closed /\ ((answer = <<>> /\ ~present) \/ Len(answer) = 1)
      BY DEF AnswerIsPending
    <3>2. answer = <<>> => Len(answer) # 1
      BY NoneIsEmpty
    <3>. QED  BY <3>1, <3>2, Zenon
  <2>. QED  BY <2>1, <2>2, <2>3 DEF CallsAreSingle, OneAnswer
<1>. QED  BY <1>1, GateInductive, PTL

(***************************************************************************)
(* The records: sequences that are cut and joined                          *)
(***************************************************************************)
\* What two joined sequences hold.
LEMMA SetOfJoined ==
  ASSUME NEW S, NEW s \in Seq(S), NEW t \in Seq(S)
  PROVE  ToSet(s \o t) = ToSet(s) \cup ToSet(t)
<1>1. ToSet(s) = Range(s) /\ ToSet(t) = Range(t) /\ ToSet(s \o t) = Range(s \o t)
  BY DEF ToSet, Range
<1>2. Range(s \o t) = Range(s) \cup Range(t)
  BY RangeConcatenation
<1>. QED  BY <1>1, <1>2

\* What a sequence holds after an element was added.
LEMMA SetOfLonger ==
  ASSUME NEW S, NEW s \in Seq(S), NEW e \in S
  PROVE  ToSet(Append(s, e)) = ToSet(s) \cup {e}
<1>1. /\ Append(s, e) \in Seq(S) /\ Len(Append(s, e)) = Len(s) + 1 /\ Append(s, e)[Len(s) + 1] = e
      /\ \A i \in 1 .. Len(s) : Append(s, e)[i] = s[i]
  BY AppendProperties
<1>2. Len(s) \in Nat /\ DOMAIN s = 1 .. Len(s) /\ DOMAIN Append(s, e) = 1 .. Len(s) + 1
  BY <1>1, LenProperties
<1>. QED  BY <1>1, <1>2 DEF ToSet

\* A sequence stays free of repetitions when it is given an element it lacks.
LEMMA LongerIsInjective ==
  ASSUME NEW S, NEW s \in Seq(S), NEW e \in S, IsInjective(s), e \notin ToSet(s)
  PROVE  IsInjective(Append(s, e))
<1>. DEFINE t == Append(s, e)
            n == Len(s)
<1>1. t \in Seq(S) /\ Len(t) = n + 1 /\ t[n + 1] = e /\ \A i \in 1 .. n : t[i] = s[i]
  BY AppendProperties
<1>2. n \in Nat /\ DOMAIN s = 1 .. n /\ DOMAIN t = 1 .. n + 1
  BY <1>1, LenProperties
<1>3. \A i \in 1 .. n : s[i] # e
  BY <1>2 DEF ToSet
<1>4. \A i \in 1 .. n + 1 : i \in 1 .. n \/ i = n + 1
  BY <1>2
<1>5. ASSUME NEW a \in 1 .. n + 1, NEW b \in 1 .. n + 1, t[a] = t[b]
      PROVE  a = b
  <2>. HIDE DEF t, n
  <2>1. CASE a \in 1 .. n /\ b \in 1 .. n
    BY <1>1, <1>2, <1>5, <2>1 DEF IsInjective
  <2>2. CASE a = n + 1 /\ b = n + 1
    BY <2>2
  <2>3. CASE a \in 1 .. n /\ b = n + 1
    BY <1>1, <1>3, <1>5, <2>3
  <2>4. CASE a = n + 1 /\ b \in 1 .. n
    BY <1>1, <1>3, <1>5, <2>4
  <2>. QED  BY <1>4, <2>1, <2>2, <2>3, <2>4
<1>. QED  BY <1>2, <1>5 DEF IsInjective

\* A sequence is what is cut off it and what is left.
LEMMA CutAndJoined ==
  ASSUME NEW S, NEW s \in Seq(S), NEW n \in 0 .. Len(s)
  PROVE  /\ SubSeq(s, 1, n) \in Seq(S) /\ SubSeq(s, n + 1, Len(s)) \in Seq(S)
         /\ SubSeq(s, 1, n) \o SubSeq(s, n + 1, Len(s)) = s
         /\ Len(SubSeq(s, 1, n)) = n
<1>1. Len(s) \in Nat /\ n \in Int /\ n >= 0 /\ n <= Len(s) /\ \A i \in 1 .. Len(s) : s[i] \in S
  BY LenProperties
<1>2. SubSeq(s, 1, n) \in Seq(S) /\ Len(SubSeq(s, 1, n)) = n
  <2>1. \A i \in 1 .. n : s[i] \in S
    BY <1>1
  <2>. QED  BY <1>1, <2>1, SubSeqProperties
<1>3. SubSeq(s, n + 1, Len(s)) \in Seq(S)
  <2>1. \A i \in n + 1 .. Len(s) : s[i] \in S
    BY <1>1
  <2>. QED  BY <1>1, <2>1, SubSeqProperties
<1>4. SubSeq(s, 1, n) \o SubSeq(s, n + 1, Len(s)) = SubSeq(s, 1, Len(s))
  <2>1. 1 \in 1 .. Len(s) + 1 /\ n \in 1 - 1 .. Len(s) /\ Len(s) \in n .. Len(s)
    BY <1>1
  <2>. QED  BY <2>1, ConcatAdjacentSubSeq
<1>. QED  BY <1>2, <1>3, <1>4, SubSeqFull

\* The smaller of two numbers.
LEMMA SmallerOfTwo ==
  ASSUME NEW a \in Int, NEW b \in Int
  PROVE  Min({a, b}) \in Int /\ Min({a, b}) = IF a <= b THEN a ELSE b
<1>1. \E x \in {a, b} : \A y \in {a, b} : x <= y
  OBVIOUS
<1>2. Min({a, b}) \in {a, b} /\ \A y \in {a, b} : Min({a, b}) <= y
  BY <1>1 DEF Min
<1>. QED  BY <1>2

(***************************************************************************)
(* The records: the inductive invariant                                    *)
(***************************************************************************)
StopSpec == StopInit /\ [][StopNext]_stopVars

Flushers ==
  [at : {"off", "loop", "write", "marking", "drain", "over"}, by : Flushes \cup {"itself", "drain"},
   failures : Nat]
FlushCalls ==
  [at : {"idle", "skipped", "handing", "waiting", "flushed", "failed", "stopped", "gone"},
   before : SUBSET Records]

RecordTypeOK ==
  /\ record \in [Records -> {"handled", "checked", "accepted", "dropped", "refused"}]
  /\ channel \in Seq(Records) /\ gathered \in Seq(Records) /\ stored \in Seq(Records)
  /\ flusher \in Flushers /\ force \in [Flushes -> FlushCalls]
  /\ worker \in [Workers -> {"running", "told", "stopped"}]

\* Every accepted record is in one place.
Everywhere == stored \o gathered \o channel
OnePlace == IsInjective(Everywhere) /\ ToSet(Everywhere) = Accepted

\* Nobody records any more once the flusher drains, and a flusher that ended in
\* time has left nothing.
StopIsLast ==
  /\ stopping => NoRecordUnderWay
  /\ flusher.at \in {"drain", "over"} \/ flusher.by = "drain" => stopping
  /\ flusher.at = "over" /\ ~drainOver => gathered = <<>> /\ channel = <<>>

\* What a flush promises is in the flusher's hands while it is written.
FlushesAreSound ==
  \A f \in Flushes :
    /\ force[f].before \subseteq Accepted
    /\ force[f].at = "waiting" => force[f].before \subseteq ToSet(stored) \cup ToSet(gathered)
    /\ force[f].at = "flushed" => force[f].before \subseteq ToSet(stored)
    /\ force[f].at = "stopped" => flusher.at = "over"

\* The database is closed after the recorder and the workers it waits for, and after
\* the server: handlers are left only if it abandoned them, and never started if it
\* had no listener.
ClosedInOrder ==
  /\ main \in {"workers", "closed"} => flusher.at = "over" /\ \A w \in Unawaited : worker[w] # "running"
  /\ main = "closed" => \A w \in Awaited : worker[w] = "stopped"
  /\ main \in {"server", "recorder", "workers", "closed"} => abandoned \/ serving = "unbound" \/ NoHandler

\* The inductive invariant of the records and the stop.
RecordInv == RecordTypeOK /\ OnePlace /\ StopIsLast /\ FlushesAreSound /\ ClosedInOrder

\* A step that only hands records on leaves every one in its place.
LEMMA PlacesKept ==
  ASSUME OnePlace, record' = record, Everywhere' = Everywhere
  PROVE  OnePlace'
  BY DEF OnePlace, Accepted

\* A step that takes nothing out of the table and the flusher's hands, and tells
\* no call of ForceFlush anything, keeps what they were promised.
LEMMA PromisesKept ==
  ASSUME FlushesAreSound, force' = force, Accepted \subseteq Accepted',
         flusher.at = "over" => flusher'.at = "over",
         ToSet(stored) \subseteq ToSet(stored'),
         ToSet(stored) \cup ToSet(gathered) \subseteq ToSet(stored') \cup ToSet(gathered')
  PROVE  FlushesAreSound'
<1>. SUFFICES ASSUME NEW f \in Flushes
              PROVE  /\ force'[f].before \subseteq Accepted'
                     /\ force'[f].at = "waiting" => force'[f].before \subseteq ToSet(stored') \cup ToSet(gathered')
                     /\ force'[f].at = "flushed" => force'[f].before \subseteq ToSet(stored')
                     /\ force'[f].at = "stopped" => flusher'.at = "over"
  BY DEF FlushesAreSound
<1>1. /\ force[f].before \subseteq Accepted
      /\ force[f].at = "waiting" => force[f].before \subseteq ToSet(stored) \cup ToSet(gathered)
      /\ force[f].at = "flushed" => force[f].before \subseteq ToSet(stored)
      /\ force[f].at = "stopped" => flusher.at = "over"
  BY DEF FlushesAreSound
<1>2. force'[f] = force[f]
  OBVIOUS
<1>3. force[f].before \subseteq Accepted'
  BY <1>1
<1>4. force[f].at = "waiting" => force[f].before \subseteq ToSet(stored') \cup ToSet(gathered')
  BY <1>1
<1>5. force[f].at = "flushed" => force[f].before \subseteq ToSet(stored')
  BY <1>1
<1>. QED  BY <1>1, <1>2, <1>3, <1>4, <1>5

\* Joining is associative.
LEMMA JoinedInTurn == \A s, t, u \in Seq(Records) : (s \o t) \o u = s \o (t \o u)
  BY ConcatAssociative

\* Records that move from the channel into the flusher's hands keep their order.
LEMMA TakenInOrder ==
  ASSUME stored \in Seq(Records), gathered \in Seq(Records), channel \in Seq(Records),
         gathered' \in Seq(Records), channel' \in Seq(Records), stored' = stored
  PROVE  gathered' \o channel' = gathered \o channel => Everywhere' = Everywhere
<1>1. stored \o gathered' \o channel' = stored \o (gathered' \o channel')
  BY JoinedInTurn, SMTT(30)
<1>2. stored \o gathered \o channel = stored \o (gathered \o channel)
  BY JoinedInTurn, SMTT(30)
<1>. QED  BY <1>1, <1>2 DEF Everywhere

\* slurp: what is gathered and what is left is what there was, and nothing is
\* gathered only if there was nothing.
LEMMA SlurpIsSound ==
  ASSUME RecordTypeOK, Len(gathered) < BatchSize
  PROVE  /\ Slurped(gathered, channel) \in Seq(Records) /\ Left(gathered, channel) \in Seq(Records)
         /\ Slurped(gathered, channel) \o Left(gathered, channel) = gathered \o channel
         /\ ToSet(gathered) \subseteq ToSet(Slurped(gathered, channel))
         /\ Slurped(gathered, channel) = <<>> => gathered = <<>> /\ Left(gathered, channel) = <<>>
<1>. DEFINE n == Min({Len(channel), BatchSize - Len(gathered)})
            first == SubSeq(channel, 1, n)
            rest == SubSeq(channel, n + 1, Len(channel))
<1>1. /\ gathered \in Seq(Records) /\ channel \in Seq(Records)
      /\ Len(gathered) \in Nat /\ Len(channel) \in Nat /\ BatchSize \in Nat
  BY RecordAssumption, LenProperties DEF RecordTypeOK
<1>2. n \in 0 .. Len(channel) /\ (n = 0 => Len(channel) = 0)
  <2>1. BatchSize - Len(gathered) \in Int /\ BatchSize - Len(gathered) > 0
    BY <1>1
  <2>. QED  BY <1>1, <2>1, SmallerOfTwo
<1>3. /\ first \in Seq(Records) /\ rest \in Seq(Records) /\ first \o rest = channel /\ Len(first) = n
  <2>. HIDE DEF n
  <2>. QED  BY <1>1, <1>2, CutAndJoined
<1>4. Slurped(gathered, channel) = gathered \o first
  BY DEF Slurped
<1>5. Left(gathered, channel) = rest
  <2>1. 1 + n = n + 1
    BY <1>2
  <2>. QED  BY <2>1 DEF Left
<1>. HIDE DEF first, rest, n
<1>6. gathered \o first \in Seq(Records) /\ (gathered \o first) \o rest = gathered \o (first \o rest)
  <2>1. gathered \o first \in Seq(Records)
    BY <1>1, <1>3, ConcatProperties
  <2>2. first \in Seq(Records) /\ rest \in Seq(Records)
    BY <1>3
  <2>3. (gathered \o first) \o rest = gathered \o (first \o rest)
    BY <1>1, <2>2, JoinedInTurn
  <2>. QED  BY <2>1, <2>3
<1>7. ToSet(gathered) \subseteq ToSet(gathered \o first)
  BY <1>1, <1>3, SetOfJoined
<1>8. ASSUME gathered \o first = <<>>
      PROVE  gathered = <<>> /\ rest = <<>>
  <2>1. gathered = <<>> /\ first = <<>>
    BY <1>1, <1>3, <1>8, ConcatEqualIffEmpty
  <2>2. n = 0 /\ Len(channel) = 0
    BY <1>2, <1>3, <2>1, NoneIsEmpty
  <2>3. channel = <<>>
    BY <1>1, <2>2, EmptySeq
  <2>. QED  BY <1>3, <2>1, <2>3, ConcatEmptySeq
<1>. QED  BY <1>3, <1>4, <1>5, <1>6, <1>7, <1>8

\* A step that moves no record and tells no call of ForceFlush anything: where the
\* flusher is and whether it may be over are all that can go wrong.
LEMMA NothingMoves ==
  ASSUME RecordInv, UNCHANGED <<record, channel, gathered, stored, force>>, flusher' \in Flushers,
         flusher.at = "over" => flusher'.at = "over", StopIsLast', ClosedInOrder',
         worker' \in [Workers -> {"running", "told", "stopped"}]
  PROVE  RecordInv'
<1>1. RecordTypeOK'
  BY DEF RecordInv, RecordTypeOK
<1>2. Everywhere' = Everywhere
  BY DEF Everywhere
<1>3. OnePlace'
  BY <1>2, PlacesKept DEF RecordInv
<1>4. FlushesAreSound'
  <2>1. Accepted \subseteq Accepted'
    BY DEF Accepted
  <2>. QED  BY <2>1, PromisesKept DEF RecordInv
<1>. QED  BY <1>1, <1>3, <1>4 DEF RecordInv

\* The flusher moves records from the channel into its hands, or from there into
\* the table.
LEMMA RecordsMove ==
  ASSUME RecordInv, UNCHANGED <<record, force, drainOver, stopping, serving, main, worker, abandoned>>,
         channel' \in Seq(Records), gathered' \in Seq(Records), stored' \in Seq(Records),
         Everywhere' = Everywhere, flusher' \in Flushers,
         flusher.at # "over", flusher'.at # "over" \/ (gathered' = <<>> /\ channel' = <<>>),
         flusher'.at \in {"drain", "over"} \/ flusher'.by = "drain" => stopping,
         ToSet(stored) \subseteq ToSet(stored'),
         ToSet(stored) \cup ToSet(gathered) \subseteq ToSet(stored') \cup ToSet(gathered')
  PROVE  RecordInv'
<1>1. RecordTypeOK'
  BY DEF RecordInv, RecordTypeOK
<1>2. OnePlace'
  BY PlacesKept DEF RecordInv
<1>3. StopIsLast'
  BY DEF RecordInv, StopIsLast, NoRecordUnderWay
<1>4. FlushesAreSound'
  <2>1. Accepted \subseteq Accepted'
    BY DEF Accepted
  <2>. QED  BY <2>1, PromisesKept DEF RecordInv
<1>5. ClosedInOrder'
  BY DEF RecordInv, ClosedInOrder, NoHandler
<1>. QED  BY <1>1, <1>2, <1>3, <1>4, <1>5 DEF RecordInv

\* Record: a record is accepted once, and none after the stop.
LEMMA RecordKeeps ==
  ASSUME RecordInv, NEW r \in Records, RecordChecks(r) \/ RecordSends(r),
         UNCHANGED <<serving, stopper, main, worker, abandoned>>
  PROVE  RecordInv'
<1>. DEFINE states == {"handled", "checked", "accepted", "dropped", "refused"}
<1>1. record \in [Records -> states] /\ RecordTypeOK /\ OnePlace /\ StopIsLast /\ FlushesAreSound /\ ClosedInOrder
  BY DEF RecordInv, RecordTypeOK
<1>0. ClosedInOrder'
  <2>1. ~NoHandler
    BY DEF RecordChecks, RecordSends, NoHandler
  <2>. QED  BY <1>1, <2>1 DEF ClosedInOrder, RecordChecks, RecordSends
<1>2. ASSUME NEW state \in states \ {"accepted"}, record[r] # "accepted",
             record' = [record EXCEPT ![r] = state], state = "checked" => ~stopping,
             UNCHANGED <<channel, stopping, flusher, gathered, stored, drainOver, force>>
      PROVE  RecordInv'
  <2>1. record' \in [Records -> states] /\ record'[r] = state /\ \A q \in Records : q # r => record'[q] = record[q]
    BY <1>1, <1>2
  <2>2. Accepted' = Accepted
    BY <1>2, <2>1 DEF Accepted
  <2>3. RecordTypeOK'
    BY <1>1, <1>2, <2>1 DEF RecordTypeOK
  <2>4. OnePlace'
    BY <1>1, <1>2, <2>2 DEF OnePlace, Everywhere
  <2>5. StopIsLast'
    BY <1>1, <1>2, <2>1 DEF StopIsLast, NoRecordUnderWay
  <2>6. FlushesAreSound'
    BY <1>1, <1>2, <2>2 DEF FlushesAreSound
  <2>. QED  BY <1>0, <2>3, <2>4, <2>5, <2>6 DEF RecordInv
<1>3. CASE RecordChecks(r)
  <2>1. CASE stopping
    <3>1. "refused" \in states \ {"accepted"} /\ record' = [record EXCEPT ![r] = "refused"]
      BY <1>3, <2>1 DEF RecordChecks
    <3>. QED  BY <1>2, <1>3, <3>1 DEF RecordChecks
  <2>2. CASE ~stopping
    <3>1. "checked" \in states \ {"accepted"} /\ record' = [record EXCEPT ![r] = "checked"]
      BY <1>3, <2>2 DEF RecordChecks
    <3>. QED  BY <1>2, <1>3, <2>2, <3>1 DEF RecordChecks
  <2>. QED  BY <2>1, <2>2
<1>4. CASE RecordSends(r) /\ ~(Len(channel) < Capacity)
  <2>1. "dropped" \in states \ {"accepted"} /\ record' = [record EXCEPT ![r] = "dropped"]
    BY <1>4 DEF RecordSends
  <2>. QED  BY <1>2, <1>4, <2>1 DEF RecordSends
<1>5. CASE RecordSends(r) /\ Len(channel) < Capacity
  <2>1. /\ record[r] = "checked" /\ record' = [record EXCEPT ![r] = "accepted"] /\ channel' = Append(channel, r)
        /\ UNCHANGED <<stopping, flusher, gathered, stored, drainOver, force>>
    BY <1>5 DEF RecordSends
  <2>2. record' \in [Records -> states] /\ record'[r] = "accepted" /\ \A q \in Records : q # r => record'[q] = record[q]
    BY <1>1, <2>1
  <2>3. Accepted' = Accepted \cup {r} /\ r \notin Accepted
    BY <2>1, <2>2 DEF Accepted
  <2>4. ~stopping
    BY <1>1, <2>1 DEF StopIsLast, NoRecordUnderWay
  <2>5. channel \in Seq(Records) /\ gathered \in Seq(Records) /\ stored \in Seq(Records) /\ channel' \in Seq(Records)
    BY <1>1, <2>1, AppendProperties DEF RecordTypeOK
  <2>6. stored \o gathered \in Seq(Records) /\ Everywhere \in Seq(Records)
    BY <2>5, ConcatProperties DEF Everywhere
  <2>7. Everywhere' = Append(Everywhere, r)
    <3>1. Append(channel, r) = channel \o <<r>>
      BY <2>5, AppendIsConcat
    <3>2. Append(Everywhere, r) = (stored \o gathered \o channel) \o <<r>>
      BY <2>6, AppendIsConcat DEF Everywhere
    <3>3. <<r>> \in Seq(Records)
      OBVIOUS
    <3>4. ((stored \o gathered) \o channel) \o <<r>> = (stored \o gathered) \o (channel \o <<r>>)
      <4>. DEFINE front == stored \o gathered
                  one == <<r>>
      <4>1. front \in Seq(Records) /\ channel \in Seq(Records) /\ one \in Seq(Records)
        BY <2>5, <2>6, <3>3
      <4>. HIDE DEF front, one
      <4>2. (front \o channel) \o one = front \o (channel \o one)
        BY <4>1, JoinedInTurn
      <4>. QED  BY <4>2 DEF front, one
    <3>. QED  BY <2>1, <3>1, <3>2, <3>4 DEF Everywhere
  <2>8. OnePlace'
    <3>1. IsInjective(Everywhere) /\ ToSet(Everywhere) = Accepted
      BY <1>1 DEF OnePlace
    <3>2. IsInjective(Append(Everywhere, r)) /\ ToSet(Append(Everywhere, r)) = ToSet(Everywhere) \cup {r}
      BY <2>3, <2>6, <3>1, LongerIsInjective, SetOfLonger
    <3>. QED  BY <2>3, <2>7, <3>1, <3>2 DEF OnePlace
  <2>9. RecordTypeOK'
    BY <1>1, <2>1, <2>2, <2>5 DEF RecordTypeOK
  <2>10. StopIsLast'
    BY <1>1, <2>1, <2>4 DEF StopIsLast
  <2>11. FlushesAreSound'
    BY <1>1, <2>1, <2>3, PromisesKept
  <2>. QED  BY <1>0, <2>8, <2>9, <2>10, <2>11 DEF RecordInv
<1>. QED  BY <1>3, <1>4, <1>5

\* A call of ForceFlush is asked, served after the stop, or given up.
LEMMA FlushCallKeeps ==
  ASSUME RecordInv, NEW f \in Flushes, FlushAsked(f) \/ FlushAfterStop(f) \/ FlushGivenUp(f),
         UNCHANGED <<serving, stopper, main, worker, abandoned>>
  PROVE  RecordInv'
<1>1. RecordTypeOK /\ OnePlace /\ StopIsLast /\ FlushesAreSound /\ ClosedInOrder /\ force \in [Flushes -> FlushCalls]
  BY DEF RecordInv, RecordTypeOK
<1>2. UNCHANGED <<record, channel, stopping, flusher, gathered, stored, drainOver>>
  BY DEF FlushAsked, FlushAfterStop, FlushGivenUp
<1>3. Accepted' = Accepted /\ Accepted \in SUBSET Records
  BY <1>2 DEF Accepted
<1>4. ASSUME NEW call \in FlushCalls, force' = [force EXCEPT ![f] = call],
             call.before \subseteq Accepted, call.at # "waiting",
             call.at # "flushed", call.at = "stopped" => flusher.at = "over"
      PROVE  RecordInv'
  <2>1. force' \in [Flushes -> FlushCalls] /\ force'[f] = call /\ \A g \in Flushes : g # f => force'[g] = force[g]
    BY <1>1, <1>4
  <2>2. RecordTypeOK'
    BY <1>1, <1>2, <2>1 DEF RecordTypeOK
  <2>3. OnePlace'
    BY <1>1, <1>2, <1>3 DEF OnePlace, Everywhere
  <2>4. StopIsLast'
    BY <1>1, <1>2 DEF StopIsLast, NoRecordUnderWay
  <2>5. ClosedInOrder'
    BY <1>1, <1>2 DEF ClosedInOrder, NoHandler
  <2>6. FlushesAreSound'
    <3>. SUFFICES ASSUME NEW g \in Flushes
                  PROVE  /\ force'[g].before \subseteq Accepted
                         /\ force'[g].at = "waiting" => force'[g].before \subseteq ToSet(stored) \cup ToSet(gathered)
                         /\ force'[g].at = "flushed" => force'[g].before \subseteq ToSet(stored)
                         /\ force'[g].at = "stopped" => flusher.at = "over"
      BY <1>2, <1>3 DEF FlushesAreSound
    <3>1. CASE g = f
      BY <1>4, <2>1, <3>1
    <3>2. CASE g # f
      BY <1>1, <2>1, <3>2 DEF FlushesAreSound
    <3>. QED  BY <3>1, <3>2
  <2>. QED  BY <2>2, <2>3, <2>4, <2>5, <2>6 DEF RecordInv
<1>5. CASE FlushAsked(f)
  <2>. DEFINE where == IF flusher.at = "off" THEN "skipped" ELSE "handing"
              call == [at |-> where, before |-> Accepted]
  <2>1. force' = [force EXCEPT ![f] = call]
    BY <1>5 DEF FlushAsked
  <2>2. call \in FlushCalls /\ call.before = Accepted /\ call.at \in {"skipped", "handing"}
    BY <1>3 DEF FlushCalls
  <2>. HIDE DEF call
  <2>. QED  BY <1>4, <2>1, <2>2
<1>6. ASSUME NEW where \in {"stopped", "gone"}, force' = [force EXCEPT ![f].at = where],
             where = "stopped" => flusher.at = "over"
      PROVE  RecordInv'
  <2>. DEFINE call == [force[f] EXCEPT !.at = where]
  <2>1. force' = [force EXCEPT ![f] = call] /\ force[f] \in FlushCalls
    BY <1>1, <1>6
  <2>2. call \in FlushCalls
    BY <2>1 DEF FlushCalls
  <2>3. call.at = where /\ call.before = force[f].before
    BY <2>1 DEF FlushCalls
  <2>4. call.before \subseteq Accepted
    BY <1>1, <2>3 DEF FlushesAreSound
  <2>. HIDE DEF call
  <2>. QED  BY <1>4, <1>6, <2>1, <2>2, <2>3, <2>4
<1>7. CASE FlushAfterStop(f)
  <2>1. force' = [force EXCEPT ![f].at = "stopped"] /\ flusher.at = "over"
    BY <1>7 DEF FlushAfterStop
  <2>. QED  BY <1>6, <2>1
<1>8. CASE FlushGivenUp(f)
  <2>1. force' = [force EXCEPT ![f].at = "gone"]
    BY <1>8 DEF FlushGivenUp
  <2>. QED  BY <1>6, <2>1
<1>. QED  BY <1>5, <1>7, <1>8

\* The flusher takes one record, or what it finds when its timer fires, when a
\* flush is handed to it or when it drains.
LEMMA FlusherTakes ==
  ASSUME RecordInv, TakeRecord \/ TimerFires \/ Drain, UNCHANGED <<serving, stopper, main, worker, abandoned>>
  PROVE  RecordInv'
<1>1. /\ RecordTypeOK /\ StopIsLast /\ flusher \in Flushers /\ BatchSize \in Nat \ {0}
      /\ channel \in Seq(Records) /\ gathered \in Seq(Records) /\ stored \in Seq(Records)
  BY RecordAssumption DEF RecordInv, RecordTypeOK
<1>2. UNCHANGED <<record, force, drainOver, stopping, stored>> /\ flusher.at \in {"loop", "drain"}
  BY DEF TakeRecord, TimerFires, Drain
<1>3. ASSUME channel' \in Seq(Records), gathered' \in Seq(Records),
             gathered' \o channel' = gathered \o channel, ToSet(gathered) \subseteq ToSet(gathered'),
             flusher' \in Flushers, flusher'.at # "over" \/ (gathered' = <<>> /\ channel' = <<>>),
             flusher'.at \in {"drain", "over"} \/ flusher'.by = "drain" => stopping
      PROVE  RecordInv'
  <2>1. Everywhere' = Everywhere
    BY <1>1, <1>2, <1>3, TakenInOrder
  <2>2. ToSet(stored) \cup ToSet(gathered) \subseteq ToSet(stored') \cup ToSet(gathered')
    BY <1>2, <1>3
  <2>3. stored' \in Seq(Records) /\ flusher.at # "over" /\ ToSet(stored) \subseteq ToSet(stored')
    BY <1>1, <1>2
  <2>. QED  BY <1>2, <1>3, <2>1, <2>2, <2>3, RecordsMove
<1>4. \A by \in {"itself", "drain"} : Writes(by) => flusher' \in Flushers /\ flusher'.at = "write" /\ flusher'.by = by
  BY DEF Writes, Flushers
<1>5. ~(Len(gathered) < BatchSize) => gathered # <<>>
  BY <1>1, NoneIsEmpty
<1>6. CASE TakeRecord
  <2>. DEFINE one == <<Head(channel)>>
  <2>1. Head(channel) \in Records /\ Tail(channel) \in Seq(Records)
    BY <1>1, <1>6, HeadTailProperties DEF TakeRecord
  <2>2. one \in Seq(Records) /\ gathered' = gathered \o one /\ gathered' \in Seq(Records)
    BY <1>1, <1>6, <2>1, AppendIsConcat, AppendProperties DEF TakeRecord
  <2>3. channel' = Tail(channel) /\ channel = one \o Tail(channel)
    <3>1. Len(channel) \in Nat /\ Len(channel) >= 1 /\ channel[1] = Head(channel)
      BY <1>1, <1>6, EmptySeq DEF TakeRecord
    <3>2. SubSeq(channel, 1, Len(channel)) = <<channel[1]>> \o SubSeq(channel, 2, Len(channel))
      <4>1. 1 \in 1 .. Len(channel) /\ Len(channel) \in 1 .. Len(channel) /\ 1 + 1 = 2
        BY <3>1
      <4>. QED  BY <1>1, <4>1, SubSeqRecursiveFirst
    <3>3. SubSeq(channel, 1, Len(channel)) = channel /\ SubSeq(channel, 2, Len(channel)) = Tail(channel)
      BY <1>1, <1>6, SubSeqFull, TailIsSubSeq DEF TakeRecord
    <3>. QED  BY <1>6, <3>1, <3>2, <3>3 DEF TakeRecord
  <2>4. (gathered \o one) \o Tail(channel) = gathered \o (one \o Tail(channel))
    <3>. DEFINE rest == Tail(channel)
    <3>1. gathered \in Seq(Records) /\ one \in Seq(Records) /\ rest \in Seq(Records)
      BY <1>1, <2>1, <2>2
    <3>. HIDE DEF one, rest
    <3>2. (gathered \o one) \o rest = gathered \o (one \o rest)
      BY <3>1, JoinedInTurn
    <3>. QED  BY <3>2 DEF rest
  <2>. HIDE DEF one
  <2>5. gathered' \o channel' = gathered \o channel
    BY <2>2, <2>3, <2>4
  <2>6. ToSet(gathered) \subseteq ToSet(gathered')
    BY <1>1, <2>2, SetOfJoined
  <2>7. /\ flusher' \in Flushers /\ flusher'.at # "over"
        /\ flusher'.at \in {"drain", "over"} \/ flusher'.by = "drain" => stopping
    BY <1>1, <1>4, <1>6 DEF TakeRecord, StopIsLast
  <2>. QED  BY <1>3, <2>1, <2>2, <2>3, <2>5, <2>6, <2>7
<1>7. ASSUME IF Len(gathered) < BatchSize
               THEN gathered' = Slurped(gathered, channel) /\ channel' = Left(gathered, channel)
               ELSE UNCHANGED <<gathered, channel>>
      PROVE  /\ channel' \in Seq(Records) /\ gathered' \in Seq(Records)
             /\ gathered' \o channel' = gathered \o channel /\ ToSet(gathered) \subseteq ToSet(gathered')
             /\ gathered' = <<>> => channel' = <<>>
  <2>1. CASE Len(gathered) < BatchSize
    BY <1>1, <1>7, <2>1, SlurpIsSound
  <2>2. CASE ~(Len(gathered) < BatchSize)
    BY <1>1, <1>5, <1>7, <2>2
  <2>. QED  BY <2>1, <2>2
<1>8. CASE TimerFires
  <2>1. flusher' \in Flushers /\ flusher'.at = "write" /\ flusher'.by = "itself"
    BY <1>4, <1>8 DEF TimerFires
  <2>. QED  BY <1>3, <1>7, <1>8, <2>1 DEF TimerFires
<1>9. CASE Drain
  <2>1. flusher.at = "drain" /\ stopping
    BY <1>1, <1>9 DEF Drain, StopIsLast
  <2>2. CASE gathered' = <<>>
    <3>1. flusher' \in Flushers
      BY <1>1, <1>9, <2>2 DEF Drain, Flushers
    <3>. QED  BY <1>3, <1>7, <1>9, <2>1, <2>2, <3>1 DEF Drain
  <2>3. CASE gathered' # <<>>
    <3>1. flusher' \in Flushers /\ flusher'.at = "write" /\ flusher'.by = "drain"
      BY <1>4, <1>9, <2>3 DEF Drain
    <3>. QED  BY <1>3, <1>7, <1>9, <2>1, <3>1 DEF Drain
  <2>. QED  BY <2>2, <2>3
<1>. QED  BY <1>6, <1>8, <1>9

\* The flusher writes a batch.
LEMMA FlusherStores ==
  ASSUME RecordInv, StoreBatch, UNCHANGED <<serving, stopper, main, worker, abandoned>>
  PROVE  RecordInv'
<1>. DEFINE n == Min({BatchSize, Len(gathered)})
            first == SubSeq(gathered, 1, n)
            rest == SubSeq(gathered, n + 1, Len(gathered))
<1>1. /\ RecordTypeOK /\ StopIsLast /\ flusher \in Flushers /\ BatchSize \in Nat \ {0}
      /\ channel \in Seq(Records) /\ gathered \in Seq(Records) /\ stored \in Seq(Records)
      /\ Len(gathered) \in Nat
  BY RecordAssumption, LenProperties DEF RecordInv, RecordTypeOK
<1>2. /\ UNCHANGED <<record, force, drainOver, stopping, channel>> /\ flusher.at = "write"
      /\ stored' = stored \o first /\ gathered' = rest /\ flusher' = [flusher EXCEPT !.failures = 0]
  BY DEF StoreBatch
<1>3. n \in 0 .. Len(gathered)
  BY <1>1, SmallerOfTwo, SMTT(30)
<1>4. first \in Seq(Records) /\ rest \in Seq(Records) /\ first \o rest = gathered
  <2>. HIDE DEF n
  <2>. QED  BY <1>1, <1>3, CutAndJoined
<1>. HIDE DEF first, rest
<1>5. stored \o first \in Seq(Records)
  BY <1>1, <1>4, ConcatProperties
<1>6. (stored \o first) \o rest = stored \o (first \o rest)
  <2>1. first \in Seq(Records) /\ rest \in Seq(Records)
    BY <1>4
  <2>. QED  BY <1>1, <2>1, JoinedInTurn
<1>7. Everywhere' = Everywhere
  BY <1>2, <1>4, <1>6 DEF Everywhere
<1>8. flusher' \in Flushers
  BY <1>1, <1>2 DEF Flushers
<1>9. flusher'.at = flusher.at /\ flusher'.by = flusher.by
  BY <1>1, <1>2 DEF Flushers
<1>10. /\ ToSet(stored') = ToSet(stored) \cup ToSet(first)
       /\ ToSet(gathered) = ToSet(first) \cup ToSet(rest)
  <2>1. first \in Seq(Records) /\ rest \in Seq(Records)
    BY <1>4
  <2>2. ToSet(stored \o first) = ToSet(stored) \cup ToSet(first)
    BY <1>1, <2>1, SetOfJoined
  <2>3. ToSet(first \o rest) = ToSet(first) \cup ToSet(rest)
    BY <2>1, SetOfJoined
  <2>. QED  BY <1>2, <1>4, <2>2, <2>3
<1>11. /\ ToSet(stored) \subseteq ToSet(stored')
       /\ ToSet(stored) \cup ToSet(gathered) \subseteq ToSet(stored') \cup ToSet(gathered')
  BY <1>2, <1>10
<1>12. flusher'.at \in {"drain", "over"} \/ flusher'.by = "drain" => stopping
  BY <1>1, <1>9 DEF StopIsLast
<1>13. channel' \in Seq(Records) /\ gathered' \in Seq(Records) /\ stored' \in Seq(Records)
  BY <1>1, <1>2, <1>4, <1>5
<1>. QED  BY <1>2, <1>7, <1>8, <1>9, <1>11, <1>12, <1>13, RecordsMove

\* A flush that was handed over puts everything accepted into the flusher's hands.
LEMMA FlushHandedOver ==
  ASSUME RecordInv, NEW f \in Flushes, Forced(f), UNCHANGED <<serving, stopper, main, worker, abandoned>>
  PROVE  RecordInv'
<1>1. /\ RecordTypeOK /\ OnePlace /\ StopIsLast /\ FlushesAreSound /\ ClosedInOrder
      /\ channel \in Seq(Records) /\ gathered \in Seq(Records) /\ stored \in Seq(Records)
      /\ Len(gathered) \in Nat /\ Len(channel) \in Nat /\ force \in [Flushes -> FlushCalls]
  BY LenProperties DEF RecordInv, RecordTypeOK
<1>2. /\ UNCHANGED <<record, drainOver, stopping, stored>> /\ flusher.at = "loop"
      /\ gathered' = gathered \o channel /\ force' = [force EXCEPT ![f].at = "waiting"]
      /\ flusher' = [at |-> "write", by |-> f, failures |-> 0]
      /\ channel' = SubSeq(channel, 1 + Len(gathered') - Len(gathered), Len(channel))
  BY DEF Forced, Everything, Writes
<1>3. gathered' \in Seq(Records) /\ Len(gathered') = Len(gathered) + Len(channel)
  BY <1>1, <1>2, ConcatProperties
<1>4. channel' = <<>>
  <2>. DEFINE from == 1 + Len(gathered') - Len(gathered)
  <2>1. from \in Int /\ Len(channel) \in Int /\ Len(channel) < from
    BY <1>1, <1>3
  <2>2. channel' = SubSeq(channel, from, Len(channel))
    BY <1>2
  <2>. HIDE DEF from
  <2>. QED  BY <2>1, <2>2, SubSeqEmpty
<1>5. channel' \in Seq(Records)
  BY <1>4, EmptySeq
<1>6. Everywhere' = Everywhere
  <2>1. gathered' \o channel' = gathered \o channel
    BY <1>2, <1>3, <1>4, ConcatEmptySeq
  <2>. QED  BY <1>1, <1>2, <1>3, <1>5, <2>1, TakenInOrder
<1>7. flusher' \in Flushers /\ flusher'.at = "write" /\ flusher'.by = f /\ f \notin {"itself", "drain"}
  BY <1>2, RecordAssumption DEF Flushers
<1>8. OnePlace'
  BY <1>1, <1>2, <1>6, PlacesKept
<1>9. StopIsLast'
  BY <1>1, <1>2, <1>7 DEF StopIsLast, NoRecordUnderWay
<1>10. ClosedInOrder'
  BY <1>1, <1>2 DEF ClosedInOrder, NoHandler
<1>11. Accepted' = Accepted /\ Accepted \subseteq ToSet(stored') \cup ToSet(gathered')
  <2>1. Everywhere = stored \o gathered'
    <3>1. stored \o gathered \in Seq(Records) /\ stored \o gathered' \in Seq(Records)
      BY <1>1, <1>3, ConcatProperties
    <3>2. Everywhere' = stored \o gathered'
      BY <1>2, <1>4, <3>1, ConcatEmptySeq DEF Everywhere
    <3>. QED  BY <1>6, <3>2
  <2>2. ToSet(stored \o gathered') = ToSet(stored) \cup ToSet(gathered')
    BY <1>1, <1>3, SetOfJoined
  <2>. QED  BY <1>1, <1>2, <2>1, <2>2 DEF OnePlace, Accepted
<1>12. /\ force' \in [Flushes -> FlushCalls] /\ force'[f].at = "waiting" /\ force'[f].before = force[f].before
       /\ \A g \in Flushes : g # f => force'[g] = force[g]
  BY <1>1, <1>2 DEF FlushCalls
<1>13. FlushesAreSound'
  <2>. SUFFICES ASSUME NEW g \in Flushes
                PROVE  /\ force'[g].before \subseteq Accepted
                       /\ force'[g].at = "waiting" => force'[g].before \subseteq ToSet(stored') \cup ToSet(gathered')
                       /\ force'[g].at = "flushed" => force'[g].before \subseteq ToSet(stored)
                       /\ force'[g].at # "stopped"
    BY <1>2, <1>11 DEF FlushesAreSound
  <2>1. /\ force[g].before \subseteq Accepted /\ force[g].at # "stopped"
        /\ force[g].at = "flushed" => force[g].before \subseteq ToSet(stored)
    BY <1>1, <1>2 DEF FlushesAreSound
  <2>2. /\ force'[g].before = force[g].before /\ (force'[g].at = "flushed" => force[g].at = "flushed")
        /\ force'[g].at = "stopped" => force[g].at = "stopped"
    BY <1>12
  <2>. QED  BY <1>11, <2>1, <2>2
<1>14. RecordTypeOK'
  BY <1>1, <1>2, <1>3, <1>5, <1>7, <1>12 DEF RecordTypeOK
<1>. QED  BY <1>8, <1>9, <1>10, <1>13, <1>14 DEF RecordInv

\* The writing ends: a flush that was all stored is told so.
LEMMA WritingEnds ==
  ASSUME RecordInv, WriteEnds, UNCHANGED <<serving, stopper, main, worker, abandoned>>
  PROVE  RecordInv'
<1>1. /\ RecordTypeOK /\ OnePlace /\ StopIsLast /\ FlushesAreSound /\ ClosedInOrder
      /\ flusher \in Flushers /\ force \in [Flushes -> FlushCalls]
  BY DEF RecordInv, RecordTypeOK
<1>2. /\ UNCHANGED <<record, channel, stopping, gathered, stored, drainOver>> /\ flusher.at = "write"
      /\ force' = [f \in Flushes |->
           IF flusher.by = f /\ force[f].at = "waiting"
             THEN [force[f] EXCEPT !.at = IF gathered = <<>> THEN "flushed" ELSE "failed"] ELSE force[f]]
  BY DEF WriteEnds
<1>3. /\ flusher' \in Flushers /\ flusher'.by = "itself" /\ flusher'.at \in {"loop", "drain", "over"}
      /\ flusher'.at \in {"drain", "over"} => flusher.by = "drain"
      /\ flusher'.at = "over" => drainOver
  BY <1>1 DEF WriteEnds, Flushers, DrainGivesUp
<1>4. ASSUME NEW f \in Flushes
      PROVE  /\ force'[f] \in FlushCalls /\ force'[f].before = force[f].before
             /\ force'[f].at = "waiting" => force[f].at = "waiting"
             /\ force'[f].at = "flushed" => force[f].at = "flushed" \/ (force[f].at = "waiting" /\ gathered = <<>>)
             /\ force'[f].at = "stopped" => force[f].at = "stopped"
  <2>. DEFINE where == IF gathered = <<>> THEN "flushed" ELSE "failed"
              call == [force[f] EXCEPT !.at = where]
  <2>1. force[f] \in FlushCalls /\ where \in {"flushed", "failed"}
    BY <1>1
  <2>2. call \in FlushCalls /\ call.before = force[f].before /\ call.at = where
    BY <2>1 DEF FlushCalls
  <2>3. force'[f] = force[f] \/ (force[f].at = "waiting" /\ force'[f] = call)
    BY <1>2
  <2>. HIDE DEF call
  <2>. QED  BY <2>1, <2>2, <2>3
<1>5. Accepted' = Accepted
  BY <1>2 DEF Accepted
<1>6. FlushesAreSound'
  <2>. SUFFICES ASSUME NEW g \in Flushes
                PROVE  /\ force'[g].before \subseteq Accepted
                       /\ force'[g].at = "waiting" => force'[g].before \subseteq ToSet(stored) \cup ToSet(gathered)
                       /\ force'[g].at = "flushed" => force'[g].before \subseteq ToSet(stored)
                       /\ force'[g].at # "stopped"
    BY <1>2, <1>5 DEF FlushesAreSound
  <2>1. /\ force[g].before \subseteq Accepted /\ force[g].at # "stopped"
        /\ force[g].at = "waiting" => force[g].before \subseteq ToSet(stored) \cup ToSet(gathered)
        /\ force[g].at = "flushed" => force[g].before \subseteq ToSet(stored)
    BY <1>1, <1>2 DEF FlushesAreSound
  <2>2. gathered = <<>> => ToSet(gathered) = {}
    BY DEF ToSet
  <2>3. force[g].at = "waiting" /\ gathered = <<>> => force[g].before \subseteq ToSet(stored)
    BY <2>1, <2>2
  <2>. QED  BY <1>4, <2>1, <2>3
<1>7. OnePlace'
  BY <1>1, <1>2, <1>5 DEF OnePlace, Everywhere
<1>8. StopIsLast'
  BY <1>1, <1>2, <1>3 DEF StopIsLast, NoRecordUnderWay
<1>9. ClosedInOrder'
  BY <1>1, <1>2 DEF ClosedInOrder, NoHandler
<1>10. RecordTypeOK'
  <2>1. force' \in [Flushes -> FlushCalls]
    BY <1>2, <1>4
  <2>. QED  BY <1>1, <1>2, <1>3, <2>1 DEF RecordTypeOK
<1>. QED  BY <1>6, <1>7, <1>8, <1>9, <1>10 DEF RecordInv

\* Steps of the flusher that move no record, and the time and the table around it.
LEMMA FlusherTurns ==
  ASSUME RecordInv, RunStarts \/ LoopEnds \/ StoreRetried \/ MarkStopping \/ DrainTimesOut \/ TableTurns,
         UNCHANGED <<serving, stopper, main, worker, abandoned>>
  PROVE  RecordInv'
<1>1. /\ RecordTypeOK /\ StopIsLast /\ ClosedInOrder /\ flusher \in Flushers
      /\ worker' \in [Workers -> {"running", "told", "stopped"}]
  BY DEF RecordInv, RecordTypeOK
<1>2. UNCHANGED <<record, channel, gathered, stored, force>>
  BY DEF RunStarts, LoopEnds, StoreRetried, MarkStopping, DrainTimesOut, TableTurns
<1>3. ASSUME flusher' \in Flushers, StopIsLast',
             flusher'.at = flusher.at \/ flusher.at # "over"
      PROVE  RecordInv'
  <2>1. ClosedInOrder'
    BY <1>1, <1>2, <1>3 DEF ClosedInOrder, NoHandler
  <2>. QED  BY <1>1, <1>2, <1>3, <2>1, NothingMoves
<1>4. ASSUME NEW where \in {"loop", "marking"}, flusher' = [flusher EXCEPT !.at = where],
             flusher.at \in {"off", "loop"}, UNCHANGED <<stopping, drainOver>>
      PROVE  RecordInv'
  <2>1. flusher' \in Flushers /\ flusher'.at = where /\ flusher'.by = flusher.by
    BY <1>1, <1>4 DEF Flushers
  <2>2. StopIsLast'
    BY <1>1, <1>2, <1>4, <2>1 DEF StopIsLast, NoRecordUnderWay
  <2>. QED  BY <1>3, <1>4, <2>1, <2>2
<1>5. CASE RunStarts
  BY <1>4, <1>5 DEF RunStarts
<1>6. CASE LoopEnds
  BY <1>4, <1>6 DEF LoopEnds
<1>7. CASE StoreRetried
  <2>1. flusher' = [flusher EXCEPT !.failures = flusher.failures + 1] /\ UNCHANGED <<stopping, drainOver>>
    BY <1>7 DEF StoreRetried
  <2>2. flusher.failures + 1 \in Nat
    BY <1>1 DEF Flushers
  <2>3. flusher' \in Flushers
    BY <1>1, <2>1, <2>2 DEF Flushers
  <2>4. flusher'.at = flusher.at /\ flusher'.by = flusher.by
    BY <1>1, <2>1 DEF Flushers
  <2>5. StopIsLast'
    BY <1>1, <1>2, <2>1, <2>4 DEF StopIsLast, NoRecordUnderWay
  <2>. QED  BY <1>3, <2>3, <2>4, <2>5
<1>8. CASE MarkStopping
  <2>1. flusher' = [flusher EXCEPT !.at = "drain"] /\ stopping' = TRUE /\ NoRecordUnderWay /\ flusher.at = "marking"
    BY <1>8 DEF MarkStopping
  <2>2. flusher' \in Flushers /\ flusher'.at = "drain"
    BY <1>1, <2>1 DEF Flushers
  <2>3. StopIsLast'
    BY <1>2, <2>1, <2>2 DEF StopIsLast, NoRecordUnderWay
  <2>. QED  BY <1>3, <2>1, <2>2, <2>3
<1>9. CASE DrainTimesOut
  <2>1. StopIsLast'
    BY <1>1, <1>2, <1>9 DEF DrainTimesOut, StopIsLast, NoRecordUnderWay
  <2>. QED  BY <1>1, <1>3, <1>9, <2>1 DEF DrainTimesOut
<1>10. CASE TableTurns
  <2>1. StopIsLast'
    BY <1>1, <1>2, <1>10 DEF TableTurns, StopIsLast, NoRecordUnderWay
  <2>. QED  BY <1>1, <1>3, <1>10, <2>1 DEF TableTurns
<1>. QED  BY <1>5, <1>6, <1>7, <1>8, <1>9, <1>10

\* The server, the workers and the database around the recorder.
LEMMA StopKeeps ==
  ASSUME RecordInv,
         \/ StopStep \/ ServeEnds \/ Signal \/ GraceEnds
         \/ \E w \in Awaited : WorkerStops(w)
  PROVE  RecordInv'
<1>. DEFINE states == {"running", "told", "stopped"}
<1>1. RecordTypeOK /\ StopIsLast /\ ClosedInOrder /\ worker \in [Workers -> states] /\ flusher \in Flushers
  BY DEF RecordInv, RecordTypeOK
<1>2. UNCHANGED <<record, channel, gathered, stored, force, flusher, drainOver, stopping>>
  BY DEF StopStep, ServeOn, BindFails, RequestsGone, DeadlineCloses, ServerDone, ServeFailed, StopRecorder,
         CancelRoot, CloseDatabase, ServeEnds, Signal, GraceEnds, WorkerStops, recordVars
<1>3. StopIsLast' /\ NoHandler' = NoHandler
  BY <1>1, <1>2 DEF StopIsLast, NoRecordUnderWay, NoHandler
<1>4. ASSUME worker' \in [Workers -> states], ClosedInOrder'
      PROVE  RecordInv'
  BY <1>1, <1>2, <1>3, <1>4, NothingMoves
<1>5. \A ws : Tell(ws) =>
        /\ worker' \in [Workers -> states]
        /\ \A w \in Workers : worker[w] = "stopped" => worker'[w] = "stopped"
        /\ \A w \in Workers : worker[w] # "running" => worker'[w] # "running"
  BY <1>1 DEF Tell
<1>6. CASE ServeOn \/ RequestsGone \/ DeadlineCloses \/ ServerDone \/ StopRecorder \/ ServeEnds
  BY <1>1, <1>2, <1>3, <1>4, <1>6
     DEF ServeOn, RequestsGone, DeadlineCloses, ServerDone, StopRecorder, ServeEnds, ClosedInOrder, recordVars
<1>7. CASE ServeFailed \/ BindFails \/ Signal
  <2>1. worker' \in [Workers -> states] /\ main' \in {"server", "draining"}
    BY <1>5, <1>7 DEF ServeFailed, BindFails, Signal
  <2>2. main' = "server" => abandoned' \/ serving' = "unbound"
    BY <1>7 DEF ServeFailed, BindFails, Signal
  <2>. QED  BY <1>4, <2>1, <2>2 DEF ClosedInOrder
<1>8. CASE GraceEnds
  <2>1. /\ worker' \in [Workers -> states] /\ main # "closed"
        /\ \A w \in Unawaited : worker[w] # "running" => worker'[w] # "running"
        /\ UNCHANGED <<serving, main, abandoned>>
    BY <1>5, <1>8 DEF GraceEnds, Workers
  <2>. QED  BY <1>1, <1>2, <1>3, <1>4, <2>1 DEF ClosedInOrder
<1>9. CASE CancelRoot
  <2>1. /\ worker' \in [Workers -> states] /\ main = "recorder" /\ main' = "workers" /\ flusher.at = "over"
        /\ UNCHANGED <<serving, abandoned>>
    BY <1>5, <1>9 DEF CancelRoot, RecorderDone
  <2>2. \A w \in Unawaited : worker'[w] # "running"
    BY <1>9 DEF CancelRoot, Tell, RootWorkers, Workers
  <2>. QED  BY <1>1, <1>2, <1>3, <1>4, <2>1, <2>2 DEF ClosedInOrder
<1>10. CASE CloseDatabase
  BY <1>1, <1>2, <1>3, <1>4, <1>10 DEF CloseDatabase, ClosedInOrder
<1>11. ASSUME NEW w \in Awaited, WorkerStops(w)
       PROVE  RecordInv'
  <2>1. w \in Workers
    BY DEF Workers
  <2>2. /\ worker' \in [Workers -> states] /\ UNCHANGED <<serving, main, abandoned>>
        /\ worker' = [worker EXCEPT ![w] = "stopped"]
    BY <1>1, <1>11, <2>1 DEF WorkerStops
  <2>3. \A v \in Workers : worker'[v] = "stopped" \/ worker'[v] = worker[v]
    BY <1>1, <2>1, <2>2
  <2>4. \A v \in Awaited : worker[v] = "stopped" => worker'[v] = "stopped"
    BY <2>3 DEF Workers
  <2>5. \A v \in Unawaited : worker[v] # "running" => worker'[v] # "running"
    BY <2>3 DEF Workers
  <2>. QED  BY <1>1, <1>2, <1>3, <1>4, <2>2, <2>4, <2>5 DEF ClosedInOrder
<1>. QED  BY <1>6, <1>7, <1>8, <1>9, <1>10, <1>11 DEF StopStep

\* The records keep their inductive invariant, for any number of records, flushes
\* and failures of the table, whenever the process is told to stop.
THEOREM RecordInductive == StopSpec => []RecordInv
<1>1. ASSUME StopInit
      PROVE  RecordInv
  <2>1. /\ record = [r \in Records |-> "handled"] /\ channel = <<>> /\ stopping = FALSE
        /\ flusher = [at |-> "off", by |-> "itself", failures |-> 0]
        /\ gathered = <<>> /\ stored = <<>> /\ force = [f \in Flushes |-> NoFlush]
        /\ main = "boot" /\ worker = [w \in Workers |-> "running"]
    BY <1>1 DEF StopInit, RecorderInit
  <2>2. <<>> \in Seq(Records) /\ <<>> \o <<>> = <<>>
    BY EmptySeq, ConcatEmptySeq
  <2>3. flusher \in Flushers /\ flusher.at = "off" /\ flusher.by = "itself"
    BY <2>1 DEF Flushers
  <2>4. \A f \in Flushes : force[f] \in FlushCalls /\ force[f].before = {} /\ force[f].at = "idle"
    BY <2>1 DEF NoFlush, FlushCalls
  <2>5. RecordTypeOK
    <3>1. force \in [Flushes -> FlushCalls]
      BY <2>1, <2>4
    <3>. QED  BY <2>1, <2>2, <2>3, <3>1 DEF RecordTypeOK
  <2>6. OnePlace
    <3>1. Everywhere = <<>>
      BY <2>1, <2>2 DEF Everywhere
    <3>2. IsInjective(<<>>) /\ ToSet(<<>>) = {}
      BY DEF IsInjective, ToSet
    <3>3. Accepted = {}
      BY <2>1 DEF Accepted
    <3>. QED  BY <3>1, <3>2, <3>3 DEF OnePlace
  <2>7. StopIsLast
    BY <2>1, <2>3 DEF StopIsLast
  <2>8. FlushesAreSound
    BY <2>4 DEF FlushesAreSound
  <2>9. ClosedInOrder
    BY <2>1 DEF ClosedInOrder
  <2>. QED  BY <2>5, <2>6, <2>7, <2>8, <2>9 DEF RecordInv
<1>2. ASSUME RecordInv, [StopNext]_stopVars
      PROVE  RecordInv'
  <2>1. CASE UNCHANGED stopVars
    <3>1. /\ UNCHANGED <<record, channel, gathered, stored, force, flusher, drainOver, stopping, serving, main, worker,
                      abandoned>>
      BY <2>1 DEF stopVars, recordVars
    <3>2. StopIsLast' /\ ClosedInOrder'
      BY <1>2, <3>1 DEF RecordInv, StopIsLast, NoRecordUnderWay, ClosedInOrder, NoHandler
    <3>. QED  BY <1>2, <3>1, <3>2, NothingMoves DEF RecordInv, RecordTypeOK
  <2>2. CASE RecorderMoves
    <3>0. RecorderNext /\ UNCHANGED <<serving, stopper, main, worker, abandoned>>
      BY <2>2 DEF RecorderMoves
    <3>1. ASSUME NEW r \in Records, RecordChecks(r) \/ RecordSends(r)
          PROVE  RecordInv'
      BY <1>2, <3>0, <3>1, RecordKeeps
    <3>2. ASSUME NEW f \in Flushes, FlushAsked(f) \/ FlushAfterStop(f) \/ FlushGivenUp(f)
          PROVE  RecordInv'
      BY <1>2, <3>0, <3>2, FlushCallKeeps
    <3>3. CASE TakeRecord \/ TimerFires \/ Drain
      BY <1>2, <3>0, <3>3, FlusherTakes
    <3>4. ASSUME NEW f \in Flushes, Forced(f)
          PROVE  RecordInv'
      BY <1>2, <3>0, <3>4, FlushHandedOver
    <3>5. CASE StoreBatch
      BY <1>2, <3>0, <3>5, FlusherStores
    <3>6. CASE WriteEnds
      BY <1>2, <3>0, <3>6, WritingEnds
    <3>7. CASE RunStarts \/ LoopEnds \/ StoreRetried \/ MarkStopping \/ DrainTimesOut \/ TableTurns
      BY <1>2, <3>0, <3>7, FlusherTurns
    <3>. QED  BY <3>0, <3>1, <3>2, <3>3, <3>4, <3>5, <3>6, <3>7 DEF RecorderNext, FlusherStep
  <2>3. CASE StopStep \/ ServeEnds \/ Signal \/ GraceEnds \/ \E w \in Awaited : WorkerStops(w)
    BY <1>2, <2>3, StopKeeps
  <2>. QED  BY <1>2, <2>1, <2>2, <2>3 DEF StopNext
<1>. QED  BY <1>1, <1>2, PTL DEF StopSpec

\* Every accepted record is in exactly one of the channel, the flusher's hands and
\* the table; a flush the flusher answers with success has made what came before it
\* visible, stop or no stop, and one that is answered because the flusher is over has,
\* unless the drain ran out of time; and the database closes after the flusher is over
\* and the awaited workers have stopped, with no handler left that the server did not
\* abandon (buffer.go:165-179, 229-411, shutdown.go:62-151).
THEOREM RecordsKept == StopSpec => []RecordsAreKept
<1>1. ASSUME RecordInv
      PROVE  RecordsAreKept
  <2>. USE <1>1 DEF RecordInv
  <2>1. ASSUME flusher.at = "over", ~drainOver
        PROVE  ToSet(stored) = Accepted
    <3>1. gathered = <<>> /\ channel = <<>> /\ stored \in Seq(Records)
      BY <2>1 DEF StopIsLast, RecordTypeOK
    <3>2. stored \o <<>> = stored
      BY <3>1, ConcatEmptySeq
    <3>3. Everywhere = stored
      BY <3>1, <3>2 DEF Everywhere
    <3>. QED  BY <3>3 DEF OnePlace
  <2>2. AcceptedIsKept
    BY <2>1 DEF AcceptedIsKept, OnePlace, Everywhere
  <2>3. FlushCovers
    BY <2>1 DEF FlushCovers, FlushesAreSound
  <2>4. ClosesLast
    BY <2>1 DEF ClosesLast, ClosedInOrder
  <2>. QED  BY <2>2, <2>3, <2>4 DEF RecordsAreKept
<1>. QED  BY <1>1, RecordInductive, PTL

(***************************************************************************)
(* A streamed chat answer: the inductive invariant                         *)
(***************************************************************************)
StreamSpec == StreamInit /\ [][StreamNext]_streamVars

Knowledge == [content : BOOLEAN, length : BOOLEAN, done : BOOLEAN, complete : BOOLEAN]
Words == {"comment", "thought", "text", "length", "done", "bad", "header", "error", "json"}

\* Nothing in a piece of the answer says that it is over.
Open(s) == \A i \in 1 .. Len(s) : s[i] \notin {"done", "error", "json"}

\* All but the last word of the answer.
OpenBefore(s) == \A i \in 1 .. Len(s) - 1 : s[i] \notin {"done", "error", "json"}

Has(s, e) == \E i \in 1 .. Len(s) : s[i] = e
HasBefore(s, e) == \E i \in 1 .. Len(s) - 1 : s[i] = e

ChatTypeOK ==
  /\ made \in Seq(Events) /\ at \in Nat /\ at <= Len(made)
  /\ pending \in Seq({"comment"}) /\ out \in Seq(Words) /\ seen \in Knowledge
  /\ stage \in {"prime", "decode", "write", "flush", "end", "over"}
  /\ canceled \in BOOLEAN
  /\ stage \in {"prime", "decode", "write", "flush"} => result = "none"

\* The answer is open until the end marker goes out, and Proxy knows when it does.
OutIsOpen ==
  /\ stage \in {"prime", "decode", "write"} => Open(out)
  /\ stage = "write" => at < Len(made) /\ (seen.done <=> made[at + 1] = "done")
  /\ stage = "flush" =>
       /\ Len(out) >= 1 /\ at >= 1 /\ out[Len(out)] = made[at] /\ OpenBefore(out)
       /\ seen.done <=> made[at] = "done"
  /\ stage = "end" /\ result = "ok" => Len(out) >= 1 /\ out[Len(out)] = "done" /\ OpenBefore(out)
  /\ stage = "end" /\ result \notin {"ok", "stalled"} => Open(out)

\* What the handler has learnt of the answer is what the client was sent.
SeenIsSent ==
  /\ seen.content => Has(out, "text")
  /\ stage \in {"prime", "decode", "write"} => (Has(out, "length") => seen.length)
  /\ stage = "flush" => (HasBefore(out, "length") => seen.length) /\ (seen.done => ~IsEmpty)
  /\ seen.complete => Has(out, "done") /\ (Has(out, "length") => Has(out, "text"))
  /\ seen.complete <=> result = "ok"

\* The inductive invariant of a streamed chat answer.
ChatInv == ChatTypeOK /\ OutIsOpen /\ SeenIsSent /\ TruncationIsTold

\* The answer with one word more.
LEMMA OneWordMore ==
  ASSUME NEW s \in Seq(Words), NEW e \in Words
  PROVE  LET t == Append(s, e) IN
         /\ t \in Seq(Words) /\ Len(t) >= 1 /\ t[Len(t)] = e
         /\ Open(s) => OpenBefore(t)
         /\ \A x : HasBefore(t, x) <=> Has(s, x)
         /\ \A x : Has(s, x) => Has(t, x)
<1>. DEFINE t == Append(s, e)
            n == Len(s)
<1>1. t \in Seq(Words) /\ Len(t) = n + 1 /\ t[n + 1] = e /\ \A i \in 1 .. n : t[i] = s[i]
  BY AppendProperties
<1>2. n \in Nat /\ Len(t) - 1 = n
  BY <1>1, LenProperties
<1>. HIDE DEF t, n
<1>3. Open(s) => OpenBefore(t)
  BY <1>1, <1>2 DEF Open, OpenBefore, n
<1>4. \A x : HasBefore(t, x) <=> Has(s, x)
  BY <1>1, <1>2 DEF Has, HasBefore, n
<1>5. \A x : Has(s, x) => Has(t, x)
  BY <1>1, <1>2 DEF Has, n
<1>6. Len(t) >= 1 /\ t[Len(t)] = e
  BY <1>1, <1>2
<1>. QED  BY <1>1, <1>3, <1>4, <1>5, <1>6 DEF t

\* The answer with the comments that were held back.
LEMMA WithComments ==
  ASSUME ChatTypeOK
  PROVE  LET t == out \o pending IN
         /\ t \in Seq(Words)
         /\ Open(out) => Open(t)
         /\ Has(t, "length") => Has(out, "length")
         /\ Has(out, "text") => Has(t, "text")
<1>. DEFINE t == out \o pending
            n == Len(out)
            m == Len(pending)
<1>1. out \in Seq(Words) /\ pending \in Seq({"comment"}) /\ pending \in Seq(Words)
  BY SeqMonotonic DEF ChatTypeOK, Words
<1>2. n \in Nat /\ m \in Nat /\ \A i \in 1 .. m : pending[i] = "comment"
  BY <1>1, LenProperties
<1>3. t \in Seq(Words) /\ Len(t) = n + m /\ \A i \in 1 .. n + m : t[i] = IF i <= n THEN out[i] ELSE pending[i - n]
  BY <1>1, ConcatProperties
<1>. HIDE DEF t, n, m
<1>4. \A i \in 1 .. n + m : (i \in 1 .. n /\ t[i] = out[i]) \/ t[i] = "comment"
  <2>. SUFFICES ASSUME NEW i \in 1 .. n + m
                PROVE  (i \in 1 .. n /\ t[i] = out[i]) \/ t[i] = "comment"
    OBVIOUS
  <2>1. CASE i <= n
    BY <1>2, <1>3, <2>1
  <2>2. CASE ~(i <= n)
    <3>1. i - n \in 1 .. m
      BY <1>2, <2>2
    <3>. QED  BY <1>2, <1>3, <2>2, <3>1
  <2>. QED  BY <2>1, <2>2
<1>5. \A i \in 1 .. n : i \in 1 .. n + m /\ t[i] = out[i]
  BY <1>2, <1>3
<1>6. Open(out) => Open(t)
  BY <1>3, <1>4 DEF Open, n
<1>7. Has(t, "length") => Has(out, "length")
  BY <1>3, <1>4 DEF Has, n
<1>8. Has(out, "text") => Has(t, "text")
  BY <1>3, <1>5 DEF Has, n
<1>. QED  BY <1>3, <1>6, <1>7, <1>8 DEF t

\* The upstream, the client and the timers: they tell the client nothing.
LEMMA OthersKeep ==
  ASSUME ChatInv,
         UpstreamSends \/ UpstreamEnds \/ ClientTurns \/ ContextEnds \/ IdleExpires \/ WatchdogFires
  PROVE  ChatInv'
<1>1. /\ ChatTypeOK /\ OutIsOpen /\ SeenIsSent /\ TruncationIsTold
      /\ made \in Seq(Events) /\ at \in Nat /\ at <= Len(made) /\ Len(made) \in Nat
  BY LenProperties DEF ChatInv, ChatTypeOK
<1>2. UNCHANGED <<at, stage, pending, seen, out, result>>
  BY DEF UpstreamSends, UpstreamEnds, ClientTurns, ContextEnds, IdleExpires, WatchdogFires
<1>3. stage = "over" => UNCHANGED <<client, canceled>>
  BY DEF UpstreamSends, UpstreamEnds, ClientTurns, ContextEnds, IdleExpires, WatchdogFires
<1>4. canceled' \in BOOLEAN
  BY <1>1 DEF UpstreamSends, UpstreamEnds, ClientTurns, ContextEnds, IdleExpires, WatchdogFires, ChatTypeOK
<1>5. made' \in Seq(Events) /\ Len(made') >= Len(made) /\ \A i \in 1 .. Len(made) : made'[i] = made[i]
  <2>1. CASE UpstreamSends
    <3>1. PICK e \in Events : made' = Append(made, e)
      BY <2>1 DEF UpstreamSends
    <3>2. Append(made, e) \in Seq(Events) /\ Len(Append(made, e)) = Len(made) + 1
          /\ \A i \in 1 .. Len(made) : Append(made, e)[i] = made[i]
      BY <1>1, AppendProperties
    <3>. QED  BY <1>1, <3>1, <3>2
  <2>2. CASE ~UpstreamSends
    <3>1. made' = made
      BY <2>2 DEF UpstreamEnds, ClientTurns, ContextEnds, IdleExpires, WatchdogFires
    <3>. QED  BY <1>1, <3>1
  <2>. QED  BY <2>1, <2>2
<1>6. Len(made') \in Nat
  BY <1>5, LenProperties
<1>7. at <= Len(made') /\ (at < Len(made) => at < Len(made') /\ made'[at + 1] = made[at + 1])
      /\ (at >= 1 => made'[at] = made[at])
  <2>1. at < Len(made) => at + 1 \in 1 .. Len(made)
    BY <1>1
  <2>2. at >= 1 => at \in 1 .. Len(made)
    BY <1>1
  <2>. QED  BY <1>1, <1>5, <1>6, <2>1, <2>2
<1>8. ChatTypeOK'
  BY <1>1, <1>2, <1>4, <1>5, <1>7 DEF ChatTypeOK
<1>9. OutIsOpen'
  BY <1>1, <1>2, <1>7 DEF OutIsOpen
<1>10. SeenIsSent'
  BY <1>1, <1>2 DEF SeenIsSent, IsEmpty
<1>11. TruncationIsTold'
  BY <1>1, <1>2, <1>3 DEF TruncationIsTold, Committed
<1>. QED  BY <1>8, <1>9, <1>10, <1>11 DEF ChatInv

\* Prime or Proxy returns an error before the end marker went out.
LEMMA EarlyFinish ==
  ASSUME ChatInv, stage \in {"prime", "decode"}, stage' = "end",
         result' \notin {"ok", "stalled"}, UNCHANGED <<made, at, pending, seen, out, canceled>>
  PROVE  ChatInv'
<1>1. ChatTypeOK /\ OutIsOpen /\ SeenIsSent
  BY DEF ChatInv
<1>2. ChatTypeOK'
  BY <1>1 DEF ChatTypeOK
<1>3. OutIsOpen'
  BY <1>1 DEF OutIsOpen, Open
<1>4. SeenIsSent'
  BY <1>1 DEF ChatTypeOK, SeenIsSent, Has
<1>5. TruncationIsTold'
  BY DEF TruncationIsTold
<1>. QED  BY <1>2, <1>3, <1>4, <1>5 DEF ChatInv

\* Prime and Proxy read on: nothing goes out.
LEMMA ReadsOn ==
  ASSUME ChatInv, stage \in {"prime", "decode"}, stage' \in {"prime", "decode"},
         at' \in Nat, at' <= Len(made), pending' \in Seq({"comment"}),
         UNCHANGED <<made, seen, out, canceled, result>>
  PROVE  ChatInv'
<1>1. ChatTypeOK /\ OutIsOpen /\ SeenIsSent
  BY DEF ChatInv
<1>2. ChatTypeOK'
  BY <1>1 DEF ChatTypeOK
<1>3. OutIsOpen'
  BY <1>1 DEF OutIsOpen, Open
<1>4. SeenIsSent'
  BY <1>1 DEF SeenIsSent, Has
<1>5. TruncationIsTold'
  BY DEF TruncationIsTold
<1>. QED  BY <1>2, <1>3, <1>4, <1>5 DEF ChatInv

\* PrimeUntil, and a decoder that finds no event.
LEMMA PrimeKeeps ==
  ASSUME ChatInv, PrimeReads \/ PrimeFails \/ DecodeFails
  PROVE  ChatInv'
<1>1. /\ ChatTypeOK /\ made \in Seq(Events) /\ at \in Nat /\ at <= Len(made) /\ Len(made) \in Nat
      /\ pending \in Seq({"comment"})
  BY LenProperties DEF ChatInv, ChatTypeOK
<1>2. CASE PrimeFails
  <2>1. result' \in {"canceled", "protocol"} /\ stage' = "end" /\ stage = "prime"
    BY <1>2 DEF PrimeFails, Finish
  <2>. QED  BY <1>2, <2>1, EarlyFinish DEF PrimeFails
<1>3. CASE DecodeFails
  <2>1. result' \in {"interrupted", "canceled", "idle", "closed", "broken"} /\ stage' = "end" /\ stage = "decode"
    BY <1>3 DEF DecodeFails, Finish, ReadError
  <2>. QED  BY <1>3, <2>1, EarlyFinish DEF DecodeFails
<1>4. CASE PrimeReads
  <2>1. stage = "prime" /\ at < Len(made) /\ UNCHANGED <<made, pending, canceled, seen, out>>
    BY <1>4 DEF PrimeReads, HasEvent
  <2>2. \/ stage' = "end" /\ result' \in {"protocol", "empty", "undecodable"} /\ at' = at
        \/ stage' = "decode" /\ at' = 0 /\ result' = result
        \/ stage' = stage /\ at' = at + 1 /\ result' = result
    BY <1>4 DEF PrimeReads, Finish, Replay
  <2>3. CASE stage' = "end" /\ result' \in {"protocol", "empty", "undecodable"} /\ at' = at
    BY <2>1, <2>3, EarlyFinish
  <2>4. CASE stage' = "decode" /\ at' = 0 /\ result' = result
    BY <1>1, <2>1, <2>4, ReadsOn
  <2>5. CASE stage' = stage /\ at' = at + 1 /\ result' = result
    <3>1. at' \in Nat /\ at' <= Len(made)
      BY <1>1, <2>1, <2>5
    <3>. QED  BY <1>1, <2>1, <2>5, <3>1, ReadsOn
  <2>. QED  BY <2>2, <2>3, <2>4, <2>5
<1>. QED  BY <1>2, <1>3, <1>4

\* Proxy reads an event: it waits with a comment, or is about to write.
LEMMA DecodeKeeps ==
  ASSUME ChatInv, Decode
  PROVE  ChatInv'
<1>1. /\ ChatTypeOK /\ OutIsOpen /\ SeenIsSent
      /\ made \in Seq(Events) /\ at \in Nat /\ at <= Len(made) /\ Len(made) \in Nat
      /\ pending \in Seq({"comment"}) /\ seen \in Knowledge
  BY LenProperties DEF ChatInv, ChatTypeOK
<1>2. stage = "decode" /\ at < Len(made) /\ UNCHANGED <<made, canceled, out>>
  BY DEF Decode, HasEvent
<1>. DEFINE last == NextEvent = "done"
<1>3. \/ stage' = "end" /\ result' = "too large" /\ UNCHANGED <<at, pending, seen>>
      \/ pending' = Append(pending, NextEvent) /\ NextEvent = "comment" /\ at' = at + 1 /\ UNCHANGED <<stage, seen, result>>
      \/ stage' = "write" /\ seen' = [seen EXCEPT !.done = last] /\ UNCHANGED <<at, pending, result>>
  BY DEF Decode, Finish
<1>4. CASE stage' = "end" /\ result' = "too large" /\ UNCHANGED <<at, pending, seen>>
  BY <1>2, <1>4, EarlyFinish
<1>5. CASE pending' = Append(pending, NextEvent) /\ NextEvent = "comment" /\ at' = at + 1 /\ UNCHANGED <<stage, seen, result>>
  <2>1. pending' \in Seq({"comment"})
    BY <1>1, <1>5, AppendProperties
  <2>2. at' \in Nat /\ at' <= Len(made)
    BY <1>1, <1>2, <1>5
  <2>. QED  BY <1>2, <1>5, <2>1, <2>2, ReadsOn
<1>6. CASE stage' = "write" /\ seen' = [seen EXCEPT !.done = last] /\ UNCHANGED <<at, pending, result>>
  <2>1. last \in BOOLEAN /\ (last <=> made[at + 1] = "done")
    BY DEF NextEvent
  <2>2. /\ seen' \in Knowledge /\ seen'.done = last /\ seen'.content = seen.content
        /\ seen'.length = seen.length /\ seen'.complete = seen.complete
    <3>. HIDE DEF last
    <3>. QED  BY <1>1, <1>6, <2>1 DEF Knowledge
  <2>3. ChatTypeOK'
    BY <1>1, <1>2, <1>6, <2>2 DEF ChatTypeOK
  <2>4. seen'.done <=> made'[at' + 1] = "done"
    <3>. HIDE DEF last
    <3>. QED  BY <1>2, <1>6, <2>1, <2>2
  <2>5. OutIsOpen'
    BY <1>1, <1>2, <1>6, <2>4 DEF OutIsOpen, Open
  <2>6. SeenIsSent'
    BY <1>1, <1>2, <1>6, <2>2 DEF SeenIsSent, Has
  <2>7. TruncationIsTold'
    BY <1>6 DEF TruncationIsTold
  <2>. QED  BY <2>3, <2>5, <2>6, <2>7 DEF ChatInv
<1>. QED  BY <1>3, <1>4, <1>5, <1>6

\* Proxy writes an event behind the comments it held back.
LEMMA WriteKeeps ==
  ASSUME ChatInv, Write
  PROVE  ChatInv'
<1>. DEFINE full == out \o pending
            e == NextEvent
<1>1. /\ ChatTypeOK /\ OutIsOpen /\ SeenIsSent /\ result = "none" /\ stage = "write"
      /\ made \in Seq(Events) /\ at \in Nat /\ at < Len(made) /\ Len(made) \in Nat
      /\ out \in Seq(Words) /\ Open(out) /\ (seen.done <=> made[at + 1] = "done") /\ ~seen.complete
      /\ seen.content => Has(out, "text")
      /\ Has(out, "length") => seen.length
  BY LenProperties DEF Write, ChatInv, ChatTypeOK, OutIsOpen, SeenIsSent
<1>2. pending' = <<>> /\ pending' \in Seq({"comment"}) /\ UNCHANGED <<made, canceled, seen>>
  BY EmptySeq DEF Write
<1>3. e \in Words
  <2>1. at + 1 \in 1 .. Len(made)
    BY <1>1
  <2>2. made[at + 1] \in Events
    BY <1>1, <2>1, ElementOfSeq
  <2>. QED  BY <2>2, EventAssumption DEF NextEvent, Words
<1>4. /\ full \in Seq(Words) /\ Open(full)
      /\ Has(full, "length") => Has(out, "length")
      /\ Has(out, "text") => Has(full, "text")
  BY <1>1, WithComments
<1>. HIDE DEF full, e
<1>5. \/ stage' = "end" /\ result' = "write" /\ at' = at /\ (out' = out \/ out' = <<"header">>) /\ (Committed => out' = out)
      \/ stage' = "end" /\ result' = "empty" /\ at' = at /\ out' = full
      \/ stage' = "flush" /\ result' = result /\ at' = at + 1 /\ out' = Append(full, e) /\ (seen.done => ~IsEmpty)
  BY DEF Write, Finish, full, e
<1>6. ASSUME stage' = "end", result' \in {"write", "empty"}, at' = at, out' \in Seq(Words), Open(out'),
             seen.content => Has(out', "text")
      PROVE  ChatInv'
  <2>1. ChatTypeOK'
    BY <1>1, <1>2, <1>6 DEF ChatTypeOK
  <2>2. OutIsOpen'
    BY <1>6 DEF OutIsOpen, Open
  <2>3. SeenIsSent'
    BY <1>1, <1>2, <1>6 DEF SeenIsSent, Has
  <2>4. TruncationIsTold'
    BY <1>6 DEF TruncationIsTold
  <2>. QED  BY <2>1, <2>2, <2>3, <2>4 DEF ChatInv
<1>7. CASE stage' = "end" /\ result' = "write" /\ at' = at /\ (out' = out \/ out' = <<"header">>) /\ (Committed => out' = out)
  <2>1. CASE out' = out
    BY <1>1, <1>6, <1>7, <2>1
  <2>2. CASE out' # out
    <3>1. out = <<>> /\ out' = <<"header">>
      BY <1>7, <2>2 DEF Committed
    <3>2. <<"header">> \in Seq(Words) /\ Len(<<"header">>) = 1 /\ <<"header">>[1] = "header"
      BY DEF Words
    <3>3. out' \in Seq(Words) /\ Open(out')
      BY <3>1, <3>2 DEF Open
    <3>4. ~seen.content
      BY <1>1, <3>1, NoneIsEmpty DEF Has
    <3>. QED  BY <1>6, <1>7, <3>3, <3>4
  <2>. QED  BY <2>1, <2>2
<1>8. CASE stage' = "end" /\ result' = "empty" /\ at' = at /\ out' = full
  BY <1>1, <1>4, <1>6, <1>8
<1>9. CASE stage' = "flush" /\ result' = result /\ at' = at + 1 /\ out' = Append(full, e) /\ (seen.done => ~IsEmpty)
  <2>1. /\ out' \in Seq(Words) /\ Len(out') >= 1 /\ out'[Len(out')] = e
        /\ OpenBefore(out')
        /\ HasBefore(out', "length") => Has(full, "length")
        /\ Has(full, "text") => Has(out', "text")
    BY <1>3, <1>4, <1>9, OneWordMore
  <2>2. at' \in Nat /\ at' <= Len(made') /\ at' >= 1 /\ e = made'[at']
    BY <1>1, <1>2, <1>9 DEF e, NextEvent
  <2>3. ChatTypeOK'
    BY <1>1, <1>2, <1>9, <2>1, <2>2 DEF ChatTypeOK
  <2>4. seen'.done <=> made'[at'] = "done"
    BY <1>1, <1>2, <1>9
  <2>5. OutIsOpen'
    BY <1>9, <2>1, <2>2, <2>4 DEF OutIsOpen
  <2>6. SeenIsSent'
    <3>1. seen' = seen /\ result' = "none" /\ (seen.content => Has(out', "text")) /\ (HasBefore(out', "length") => seen.length)
      BY <1>1, <1>2, <1>4, <1>9, <2>1
    <3>. QED  BY <1>1, <1>9, <3>1 DEF SeenIsSent, IsEmpty
  <2>7. TruncationIsTold'
    BY <1>9 DEF TruncationIsTold
  <2>. QED  BY <2>3, <2>5, <2>6, <2>7 DEF ChatInv
<1>. QED  BY <1>5, <1>7, <1>8, <1>9

\* The flush of an event: now the client has been shown it.
LEMMA FlushKeeps ==
  ASSUME ChatInv, Flush
  PROVE  ChatInv'
<1>. DEFINE e == made[at]
            n == Len(out)
<1>1. /\ ChatTypeOK /\ OutIsOpen /\ SeenIsSent /\ result = "none" /\ stage = "flush" /\ ~seen.complete
      /\ made \in Seq(Events) /\ at \in Nat /\ at <= Len(made) /\ at >= 1 /\ Len(made) \in Nat
      /\ out \in Seq(Words) /\ n \in Nat /\ seen \in Knowledge
  BY LenProperties DEF Flush, ChatInv, ChatTypeOK, OutIsOpen, SeenIsSent
<1>2. /\ n >= 1 /\ out[n] = e /\ OpenBefore(out) /\ (seen.done <=> e = "done")
      /\ seen.content => Has(out, "text")
      /\ HasBefore(out, "length") => seen.length
      /\ seen.done => ~IsEmpty
  BY <1>1 DEF OutIsOpen, SeenIsSent
<1>3. UNCHANGED <<made, at, pending, canceled, out>>
  BY DEF Flush
<1>4. e \in {"comment", "thought", "text", "length", "done", "bad"}
  <2>1. at \in 1 .. Len(made)
    BY <1>1
  <2>2. e \in Events
    BY <1>1, <2>1, ElementOfSeq
  <2>. QED  BY <2>2, EventAssumption
<1>5. \A i \in 1 .. n : i = n \/ i \in 1 .. n - 1
  BY <1>1
<1>. DEFINE c == seen.content \/ e = "text"
            l == seen.length \/ e = "length"
<1>6. \/ stage' = "end" /\ result' = "stalled" /\ seen' = seen
      \/ seen.done /\ stage' = "end" /\ result' = "ok" /\ seen' = [seen EXCEPT !.complete = TRUE]
      \/ ~seen.done /\ stage' = "decode" /\ result' = result /\ seen' = [seen EXCEPT !.content = c, !.length = l]
  BY DEF Flush, Finish
<1>. HIDE DEF e, n
<1>7. CASE stage' = "end" /\ result' = "stalled" /\ seen' = seen
  <2>1. ChatTypeOK'
    BY <1>1, <1>3, <1>7 DEF ChatTypeOK
  <2>2. OutIsOpen'
    BY <1>7 DEF OutIsOpen
  <2>3. SeenIsSent'
    BY <1>1, <1>2, <1>3, <1>7 DEF SeenIsSent, Has
  <2>. QED  BY <1>7, <2>1, <2>2, <2>3 DEF ChatInv, TruncationIsTold
<1>8. CASE seen.done /\ stage' = "end" /\ result' = "ok" /\ seen' = [seen EXCEPT !.complete = TRUE]
  <2>1. /\ seen' \in Knowledge /\ seen'.complete = TRUE /\ seen'.content = seen.content
    BY <1>1, <1>8 DEF Knowledge
  <2>2. ChatTypeOK'
    BY <1>1, <1>3, <1>8, <2>1 DEF ChatTypeOK
  <2>3. out[Len(out)] = "done" /\ Len(out) >= 1
    BY <1>2, <1>8 DEF n
  <2>4. OutIsOpen'
    BY <1>2, <1>3, <1>8, <2>3 DEF OutIsOpen, OpenBefore
  <2>5. Has(out, "done")
    BY <1>1, <1>2, <1>8 DEF Has, n
  <2>6. Has(out, "length") => Has(out, "text")
    <3>1. Has(out, "length") => HasBefore(out, "length")
      BY <1>2, <1>5, <1>8 DEF Has, HasBefore, n
    <3>. QED  BY <1>2, <1>8, <3>1 DEF IsEmpty
  <2>7. SeenIsSent'
    BY <1>2, <1>3, <1>8, <2>1, <2>5, <2>6 DEF SeenIsSent, Has
  <2>. QED  BY <1>8, <2>2, <2>4, <2>7 DEF ChatInv, TruncationIsTold
<1>9. CASE ~seen.done /\ stage' = "decode" /\ result' = result /\ seen' = [seen EXCEPT !.content = c, !.length = l]
  <2>1. /\ seen' \in Knowledge /\ seen'.content = c /\ seen'.length = l /\ seen'.complete = seen.complete
    <3>1. c \in BOOLEAN /\ l \in BOOLEAN
      BY <1>1 DEF Knowledge
    <3>. HIDE DEF c, l
    <3>2. seen' \in Knowledge
      BY <1>1, <1>9, <3>1 DEF Knowledge
    <3>. QED  BY <1>1, <1>9, <3>2 DEF Knowledge
  <2>2. ChatTypeOK'
    BY <1>1, <1>3, <1>9, <2>1 DEF ChatTypeOK
  <2>3. Open(out)
    BY <1>2, <1>4, <1>5, <1>9 DEF Open, OpenBefore, n
  <2>4. OutIsOpen'
    BY <1>3, <1>9, <2>3 DEF OutIsOpen, Open
  <2>5. seen'.content => Has(out, "text")
    <3>1. e = "text" => Has(out, "text")
      BY <1>1, <1>2 DEF Has, n
    <3>. QED  BY <1>2, <2>1, <3>1
  <2>6. Has(out, "length") => seen'.length
    <3>1. Has(out, "length") => HasBefore(out, "length") \/ e = "length"
      BY <1>2, <1>5 DEF Has, HasBefore, n
    <3>. QED  BY <1>2, <2>1, <3>1
  <2>7. SeenIsSent'
    BY <1>1, <1>3, <1>9, <2>1, <2>5, <2>6 DEF SeenIsSent, Has
  <2>. QED  BY <1>9, <2>2, <2>4, <2>7 DEF ChatInv, TruncationIsTold
<1>. QED  BY <1>6, <1>7, <1>8, <1>9

\* streamResponse: an answer without its end marker is closed with an error.
LEMMA ResponseKeeps ==
  ASSUME ChatInv, StreamResponse
  PROVE  ChatInv'
<1>. DEFINE n == Len(out)
<1>1. /\ ChatTypeOK /\ OutIsOpen /\ SeenIsSent /\ stage = "end"
      /\ out \in Seq(Words) /\ n \in Nat
  BY LenProperties DEF StreamResponse, ChatInv, ChatTypeOK
<1>2. /\ UNCHANGED <<made, at, pending, canceled, seen, result, client>> /\ stage' = "over"
      /\ out' = IF client = "gone" THEN out ELSE out \o Told
  BY DEF StreamResponse
<1>3. \/ Told = <<>> /\ (result = "ok" \/ result = "stalled" \/ canceled)
      \/ Told = <<"json">> /\ result # "ok" /\ out = <<>>
      \/ Told = <<"error", "done">> /\ result # "ok"
  BY DEF Told, Committed
<1>4. ASSUME NEW t \in Seq(Words)
      PROVE  /\ out \o t \in Seq(Words) /\ Len(out \o t) = n + Len(t)
             /\ \A i \in 1 .. n + Len(t) : (out \o t)[i] = IF i <= n THEN out[i] ELSE t[i - n]
    BY <1>1, ConcatProperties
<1>5. /\ <<>> \in Seq(Words) /\ out \o <<>> = out
      /\ <<"json">> \in Seq(Words) /\ <<>> \o <<"json">> = <<"json">>
      /\ <<"error", "done">> \in Seq(Words) /\ Len(<<"error", "done">>) = 2
      /\ <<"error", "done">>[1] = "error" /\ <<"error", "done">>[2] = "done"
  <2>1. <<>> \in Seq(Words) /\ out \o <<>> = out
    BY <1>1, EmptySeq, ConcatEmptySeq
  <2>2. <<"json">> \in Seq(Words) /\ <<"error", "done">> \in Seq(Words)
    BY DEF Words
  <2>3. <<>> \o <<"json">> = <<"json">>
    BY <2>2, ConcatEmptySeq
  <2>. QED  BY <2>1, <2>2, <2>3
<1>6. Told \in Seq(Words)
  BY <1>3, <1>5
<1>7. out' \in Seq(Words)
  BY <1>1, <1>2, <1>4, <1>6
<1>8. ChatTypeOK'
  BY <1>1, <1>2, <1>7 DEF ChatTypeOK
<1>9. OutIsOpen'
  BY <1>2 DEF OutIsOpen
<1>10. \A x : Has(out, x) => Has(out', x)
  <2>1. CASE client = "gone"
    BY <1>2, <2>1
  <2>2. CASE client # "gone"
    <3>. DEFINE t == Told
                m == Len(t)
                w == out \o t
    <3>1. m \in Nat
      BY <1>6, LenProperties
    <3>2. Len(w) = n + m /\ \A i \in 1 .. n + m : w[i] = IF i <= n THEN out[i] ELSE t[i - n]
      BY <1>4, <1>6
    <3>3. out' = w
      BY <1>2, <2>2
    <3>. HIDE DEF t, m, w, n
    <3>4. \A i \in 1 .. n : i \in 1 .. n + m /\ w[i] = out[i]
      BY <1>1, <3>1, <3>2
    <3>. QED  BY <3>2, <3>3, <3>4 DEF Has, n
  <2>. QED  BY <2>1, <2>2
<1>11. seen.complete => out' = out
  BY <1>1, <1>2, <1>3, <1>5 DEF SeenIsSent
<1>12. SeenIsSent'
  <2>1. seen.content => Has(out', "text")
    BY <1>1, <1>10 DEF SeenIsSent
  <2>2. seen.complete => Has(out', "done") /\ (Has(out', "length") => Has(out', "text"))
    BY <1>1, <1>11 DEF SeenIsSent
  <2>. QED  BY <1>1, <1>2, <2>1, <2>2 DEF SeenIsSent
<1>13. TruncationIsTold'
  <2>. SUFFICES ASSUME client = "reads", ~canceled, result # "stalled", out' # <<"json">>
                PROVE  /\ out'[Len(out')] = "done"
                       /\ \A i \in 1 .. Len(out') - 1 : out'[i] # "done"
                       /\ ("error" \in ToSet(out')) = ~seen.complete
    BY <1>2 DEF TruncationIsTold, Last
  <2>1. out' = out \o Told /\ DOMAIN out' = 1 .. Len(out')
    BY <1>2, <1>7, LenProperties
  <2>2. CASE result = "ok"
    <3>1. Told = <<>> /\ out' = out
      BY <1>3, <1>5, <2>1, <2>2
    <3>2. /\ Len(out) >= 1 /\ out[Len(out)] = "done"
          /\ \A i \in 1 .. Len(out) - 1 : out[i] \notin {"done", "error", "json"}
      BY <1>1, <2>2 DEF OutIsOpen, OpenBefore
    <3>3. \A i \in 1 .. Len(out) : i = Len(out) \/ i \in 1 .. Len(out) - 1
      BY <1>1
    <3>4. "error" \notin ToSet(out')
      BY <2>1, <3>1, <3>2, <3>3 DEF ToSet
    <3>5. seen.complete
      BY <1>1, <2>2 DEF SeenIsSent
    <3>6. ("error" \in ToSet(out')) = ~seen.complete
      <4>1. ("error" \in ToSet(out')) = FALSE
        <5>. DEFINE told == "error" \in ToSet(out')
        <5>1. ~told
          BY <3>4
        <5>. HIDE DEF told
        <5>2. told \in BOOLEAN
          BY DEF told
        <5>. QED  BY <5>1, <5>2 DEF told
      <4>2. (~seen.complete) = FALSE
        BY <3>5, Zenon
      <4>. QED  BY <4>1, <4>2, Zenon
    <3>. QED  BY <3>1, <3>2, <3>6
  <2>3. CASE result # "ok"
    <3>. DEFINE t == <<"error", "done">>
                w == out \o t
    <3>1. Told = t /\ out' = w
      BY <1>3, <1>5, <2>1, <2>3
    <3>2. Len(w) = n + 2 /\ \A i \in 1 .. n + 2 : w[i] = IF i <= n THEN out[i] ELSE t[i - n]
      BY <1>4, <1>5
    <3>3. t[1] = "error" /\ t[2] = "done"
      OBVIOUS
    <3>. HIDE DEF t, w
    <3>4. w[n + 2] = "done" /\ w[n + 1] = "error" /\ \A i \in 1 .. n : w[i] = out[i]
      <4>1. n + 2 \in 1 .. n + 2 /\ ~(n + 2 <= n) /\ (n + 2) - n = 2
        BY <1>1
      <4>2. n + 1 \in 1 .. n + 2 /\ ~(n + 1 <= n) /\ (n + 1) - n = 1
        BY <1>1
      <4>3. \A i \in 1 .. n : i \in 1 .. n + 2 /\ i <= n
        BY <1>1
      <4>. QED  BY <3>2, <3>3, <4>1, <4>2, <4>3
    <3>5. \A i \in 1 .. n : out[i] \notin {"done", "error", "json"}
      BY <1>1, <2>3 DEF OutIsOpen, Open
    <3>6. \A i \in 1 .. Len(w) - 1 : w[i] # "done"
      <4>1. \A i \in 1 .. Len(w) - 1 : i \in 1 .. n \/ i = n + 1
        BY <1>1, <3>2
      <4>. QED  BY <3>4, <3>5, <4>1
    <3>7. "error" \in ToSet(out')
      <4>1. n + 1 \in DOMAIN out'
        BY <1>1, <2>1, <3>1, <3>2
      <4>. QED  BY <3>1, <3>4, <4>1 DEF ToSet
    <3>8. ~seen.complete
      BY <1>1, <2>3 DEF SeenIsSent
    <3>9. ("error" \in ToSet(out')) = ~seen.complete
      BY <3>7, <3>8, Zenon
    <3>. QED  BY <3>1, <3>2, <3>4, <3>6, <3>9
  <2>. QED  BY <2>2, <2>3
<1>. QED  BY <1>8, <1>9, <1>12, <1>13 DEF ChatInv

\* A streamed chat answer keeps its inductive invariant, however long it is and
\* whatever the upstream, the client and the timers do beside the handler.
THEOREM ChatInductive == StreamSpec => []ChatInv
<1>1. ASSUME StreamInit
      PROVE  ChatInv
  <2>1. /\ made = <<>> /\ at = 0 /\ stage \in {"prime", "decode"} /\ pending = <<>> /\ canceled = FALSE
        /\ seen = Unseen /\ out = <<>> /\ result = "none"
    BY <1>1 DEF StreamInit
  <2>2. /\ <<>> \in Seq(Events) /\ <<>> \in Seq({"comment"}) /\ <<>> \in Seq(Words) /\ Len(<<>>) = 0
    BY EmptySeq
  <2>3. seen \in Knowledge /\ ~seen.content /\ ~seen.length /\ ~seen.done /\ ~seen.complete
    BY <2>1 DEF Unseen, Knowledge
  <2>4. ChatTypeOK
    <3>1. made \in Seq(Events) /\ pending \in Seq({"comment"}) /\ out \in Seq(Words)
      BY <2>1, <2>2
    <3>2. at \in Nat /\ at <= Len(made)
      BY <2>1, <2>2
    <3>. QED  BY <2>1, <2>3, <3>1, <3>2 DEF ChatTypeOK
  <2>5. OutIsOpen
    BY <2>1, <2>2 DEF OutIsOpen, Open
  <2>6. SeenIsSent
    BY <2>1, <2>2, <2>3 DEF SeenIsSent, Has
  <2>. QED  BY <2>1, <2>4, <2>5, <2>6 DEF ChatInv, TruncationIsTold
<1>2. ASSUME ChatInv, [StreamNext]_streamVars
      PROVE  ChatInv'
  <2>1. CASE UNCHANGED streamVars
    BY <1>2, <2>1
       DEF streamVars, ChatInv, ChatTypeOK, OutIsOpen, SeenIsSent, TruncationIsTold, Open, OpenBefore, Has, HasBefore,
           IsEmpty, Committed
  <2>2. CASE HandlerStep
    BY <1>2, <2>2, PrimeKeeps, DecodeKeeps, WriteKeeps, FlushKeeps, ResponseKeeps DEF HandlerStep
  <2>3. CASE UpstreamSends \/ UpstreamEnds \/ ClientTurns \/ ContextEnds \/ IdleExpires \/ WatchdogFires
    BY <1>2, <2>3, OthersKeep
  <2>. QED  BY <1>2, <2>1, <2>2, <2>3 DEF StreamNext
<1>. QED  BY <1>1, <1>2, PTL DEF StreamSpec

\* A client that reads to the end is told how the answer ended, and an answer
\* counts as complete only with its end marker and something to show, for streams
\* of any length and any bound on what is held back (chat.go:332-423,
\* proxy.go:175-228).
THEOREM ChatEndTold == StreamSpec => []EndIsTold
<1>1. ASSUME ChatInv
      PROVE  EndIsTold
  <2>1. out \in Seq(Words) /\ DOMAIN out = 1 .. Len(out)
    BY <1>1, LenProperties DEF ChatInv, ChatTypeOK
  <2>2. \A x : x \in ToSet(out) <=> Has(out, x)
    BY <2>1 DEF ToSet, Has
  <2>3. CompleteHasAnswer
    BY <1>1, <2>2 DEF ChatInv, SeenIsSent, CompleteHasAnswer
  <2>. QED  BY <1>1, <2>3 DEF ChatInv, EndIsTold
<1>. QED  BY <1>1, ChatInductive, PTL

(***************************************************************************)
(* Request bodies: the inductive invariant                                 *)
(***************************************************************************)
BodySpec == BodyInit /\ [][BodyNext]_bodyVars

BodyStages ==
  {"new", "load", "swap", "reading", "read", "parsed", "settling", "encode", "serving", "closing", "done"}
BodyRecords ==
  [at : BodyStages, kind : {"json", "audio"}, length : Lengths \cup {0}, bytes : Nat, want : Nat, saw : Nat,
   held : Nat, slot : BOOLEAN, files : SUBSET {"form", "source", "replay"},
   answer : {"none", "no budget", "too large", "unreadable", "invalid audio", "error", "served"}]

\* What a lease is worth at each stage of its request: the placeholder, what has
\* been read and, between a reservation and the read it is for, the window.
BytesAreRight(r) ==
  /\ r.at \in {"new", "done"} => r.bytes = 0 /\ r.held = 0 /\ r.files = {}
  /\ r.at \in {"load", "swap"} /\ r.bytes = 0 => r.held = 0 /\ r.want = FirstReservation(r.length)
  /\ r.at \in {"load", "swap"} /\ r.bytes # 0 =>
       r.length = -1 /\ r.bytes = ChunkedReserve + r.held /\ r.held <= BodyLimit /\ r.want = Window(r.held)
  /\ r.at = "reading" /\ r.length = -1 =>
       r.bytes = ChunkedReserve + r.held + r.want /\ r.held <= BodyLimit /\ r.want <= BodyLimit + 1 - r.held
  /\ r.at = "reading" /\ r.length # -1 => r.held = 0 /\ r.bytes >= r.length
  /\ r.at \in {"read", "parsed"} \/ (r.at = "settling" /\ r.kind = "audio") =>
       r.bytes >= r.held + (IF r.length = -1 THEN ChunkedReserve ELSE 0)
  /\ r.at \in {"settling", "encode", "serving", "closing"} => r.bytes >= r.held

\* Who has a slot, and what a swap may make of the counter.
SlotIsRight(r) ==
  r.slot <=> r.at \in {"load", "swap", "reading", "read", "parsed"} \/ (r.at = "settling" /\ r.kind = "json")
SwapIsRight(r) == r.at = "swap" => r.saw + r.want <= MaxInFlight

LeaseOK(r) == r \in BodyRecords /\ BytesAreRight(r) /\ SlotIsRight(r) /\ SwapIsRight(r)

Slots == {u \in Uploads : upload[u].slot}

BodyInv ==
  /\ inFlight \in Nat /\ inFlight <= MaxInFlight
  /\ upload \in [Uploads -> BodyRecords] /\ \A u \in Uploads : LeaseOK(upload[u])
  /\ IsFiniteSet(Leased) /\ inFlight = Cardinality(Leased)
  /\ reads = Cardinality(Slots)

\* The parts of a request's record.
LEMMA RecordTypes ==
  ASSUME NEW r, LeaseOK(r)
  PROVE  /\ r.at \in BodyStages /\ r.kind \in {"json", "audio"} /\ r.slot \in BOOLEAN
         /\ r.length = -1 \/ r.length \in Nat
         /\ r.bytes \in Nat /\ r.held \in Nat /\ r.want \in Nat /\ r.saw \in Nat
         /\ ChunkedReserve \in Nat /\ BodyLimit \in Nat /\ MaxInFlight \in Nat /\ ReadWindow \in Nat
<1>1. r \in BodyRecords
  BY DEF LeaseOK
<1>2. /\ r.at \in BodyStages /\ r.kind \in {"json", "audio"} /\ r.slot \in BOOLEAN
      /\ r.bytes \in Nat /\ r.held \in Nat /\ r.want \in Nat /\ r.saw \in Nat
  BY <1>1 DEF BodyRecords
<1>3. r.length \in Lengths \cup {0}
  BY <1>1 DEF BodyRecords
<1>4. r.length = -1 \/ r.length \in Nat
  BY <1>3, BodyAssumption
<1> QED
  BY <1>2, <1>4, BodyAssumption

\* The invariant says what the budget promises.
LEMMA BodyInvIsEnough == BodyInv => BudgetIsKept
<1> SUFFICES ASSUME BodyInv PROVE BudgetIsKept
  OBVIOUS
<1>1. ASSUME NEW u \in Uploads
      PROVE  /\ upload[u].held <= upload[u].bytes
             /\ upload[u].at = "done" => ~upload[u].slot /\ upload[u].bytes = 0 /\ upload[u].files = {}
  <2> DEFINE r == upload[u]
  <2>1. LeaseOK(r)
    BY DEF BodyInv
  <2> HIDE DEF r
  <2>2. r.bytes \in Nat /\ r.held \in Nat /\ r.want \in Nat /\ r.at \in BodyStages
        /\ ChunkedReserve \in Nat /\ (r.length = -1 \/ r.length \in Nat)
    BY <2>1, RecordTypes
  <2>3. r.held <= r.bytes
    BY <2>1, <2>2 DEF LeaseOK, BytesAreRight, BodyStages
  <2>4. r.at = "done" => ~r.slot /\ r.bytes = 0 /\ r.files = {}
    BY <2>1 DEF LeaseOK, BytesAreRight, SlotIsRight
  <2> QED
    BY <2>3, <2>4 DEF r
<1>2. BudgetIsExact
  BY <1>1 DEF BodyInv, BudgetIsExact
<1>3. NothingKept
  BY <1>1 DEF BodyInv, NothingKept, Slots, At
<1> QED
  BY <1>2, <1>3 DEF BudgetIsKept

----------------------------------------------------------------------------
(* Counting the leases and the slots.                                      *)

\* The bytes of one lease.
LEMMA LeaseSize ==
  ASSUME NEW u, NEW n \in Nat
  PROVE  IsFiniteSet({u} \X (1..n)) /\ Cardinality({u} \X (1..n)) = n
<1>1. IsFiniteSet(1..n) /\ Cardinality(1..n) = n
  <2>1. IsFiniteSet(1..n) /\ Cardinality(1..n) = IF 1 > n THEN 0 ELSE n - 1 + 1
    BY FS_Interval
  <2> QED
    BY <2>1
<1>2. IsFiniteSet({u}) /\ Cardinality({u}) = 1
  BY FS_Singleton
<1>3. IsFiniteSet({u} \X (1..n)) /\ Cardinality({u} \X (1..n)) = Cardinality({u}) * Cardinality(1..n)
  BY <1>1, <1>2, FS_Product
<1> QED
  BY <1>1, <1>2, <1>3

\* What changing one lease does to their sum.
LEMMA LeasedChange ==
  ASSUME upload \in [Uploads -> BodyRecords], NEW u \in Uploads, NEW r \in BodyRecords,
         upload' = [upload EXCEPT ![u] = r], IsFiniteSet(Leased)
  PROVE  /\ IsFiniteSet(Leased') /\ Cardinality(Leased) \in Nat /\ Cardinality(Leased') \in Nat
         /\ Cardinality(Leased') = Cardinality(Leased) - upload[u].bytes + r.bytes
<1> DEFINE others == UNION {{v} \X (1 .. upload[v].bytes) : v \in Uploads \ {u}}
           mine == {u} \X (1 .. upload[u].bytes)
           new == {u} \X (1 .. r.bytes)
<1>1. upload[u].bytes \in Nat /\ r.bytes \in Nat
  BY DEF BodyRecords
<1>2. /\ IsFiniteSet(mine) /\ Cardinality(mine) = upload[u].bytes
      /\ IsFiniteSet(new) /\ Cardinality(new) = r.bytes
  BY <1>1, LeaseSize
<1>3. Leased = others \cup mine
  BY DEF Leased
<1>4. Leased' = others \cup new
  <2>1. upload'[u] = r /\ \A v \in Uploads \ {u} : upload'[v] = upload[v]
    OBVIOUS
  <2> QED
    BY <2>1 DEF Leased
<1>5. others \cap mine = {} /\ others \cap new = {}
  <2>1. \A p \in others : \E v \in Uploads \ {u} : p \in {v} \X (1 .. upload[v].bytes)
    OBVIOUS
  <2>2. \A p \in others : p[1] # u
    BY <2>1
  <2>3. \A p \in mine : p[1] = u
    OBVIOUS
  <2>4. \A p \in new : p[1] = u
    OBVIOUS
  <2> HIDE DEF others, mine, new
  <2> QED
    BY <2>2, <2>3, <2>4
<1> HIDE DEF others, mine, new
<1>6. IsFiniteSet(others) /\ Cardinality(others) \in Nat
  <2>1. others \subseteq Leased
    BY <1>3
  <2> QED
    BY <2>1, FS_Subset, FS_CardinalityType
<1>7. Cardinality({}) = 0
  BY FS_EmptySet
<1>8. Cardinality(Leased) = Cardinality(others) + Cardinality(mine) - 0
  BY <1>2, <1>3, <1>5, <1>6, <1>7, FS_Union
<1>9. IsFiniteSet(Leased') /\ Cardinality(Leased') = Cardinality(others) + Cardinality(new) - 0
  BY <1>2, <1>4, <1>5, <1>6, <1>7, FS_Union
<1> QED
  BY <1>1, <1>2, <1>6, <1>8, <1>9

\* A number for a Boolean.
One(b) == IF b THEN 1 ELSE 0

\* What changing one slot does to their number.
LEMMA SlotsChange ==
  ASSUME upload \in [Uploads -> BodyRecords], NEW u \in Uploads, NEW r \in BodyRecords,
         upload' = [upload EXCEPT ![u] = r]
  PROVE  /\ Cardinality(Slots) \in Nat
         /\ Cardinality(Slots') = Cardinality(Slots) - One(upload[u].slot) + One(r.slot)
<1>1. Slots \subseteq Uploads
  BY DEF Slots
<1>2. IsFiniteSet(Slots) /\ Cardinality(Slots) \in Nat
  BY <1>1, BodyAssumption, FS_Subset, FS_CardinalityType
<1>3. upload[u].slot \in BOOLEAN /\ r.slot \in BOOLEAN
  BY DEF BodyRecords
<1>4. upload'[u] = r /\ \A v \in Uploads \ {u} : upload'[v] = upload[v]
  OBVIOUS
<1>5. /\ u \in Slots <=> upload[u].slot
      /\ r.slot => Slots' = Slots \cup {u}
      /\ ~r.slot => Slots' = Slots \ {u}
  BY <1>4 DEF Slots
<1>6. CASE r.slot
  <2>1. Cardinality(Slots') = IF u \in Slots THEN Cardinality(Slots) ELSE Cardinality(Slots) + 1
    BY <1>2, <1>5, <1>6, FS_AddElement
  <2> QED
    BY <1>2, <1>3, <1>5, <1>6, <2>1 DEF One
<1>7. CASE ~r.slot
  <2>1. Cardinality(Slots') = IF u \in Slots THEN Cardinality(Slots) - 1 ELSE Cardinality(Slots)
    BY <1>2, <1>5, <1>7, FS_RemoveElement
  <2> QED
    BY <1>2, <1>3, <1>5, <1>7, <2>1 DEF One
<1> QED
  BY <1>3, <1>6, <1>7

\* The slots can be counted.
LEMMA SlotsCounted == BodyInv => reads \in Nat
<1>1. Slots \subseteq Uploads
  BY DEF Slots
<1>2. Cardinality(Slots) \in Nat
  BY <1>1, BodyAssumption, FS_Subset, FS_CardinalityType
<1> QED
  BY <1>2 DEF BodyInv

\* What a step of one request has to keep.
LEMMA LeaseMoves ==
  ASSUME BodyInv, NEW u \in Uploads, NEW r, LeaseOK(r), upload' = [upload EXCEPT ![u] = r],
         inFlight' = inFlight - upload[u].bytes + r.bytes, inFlight' <= MaxInFlight,
         reads' = reads - One(upload[u].slot) + One(r.slot)
  PROVE  BodyInv'
<1>1. upload \in [Uploads -> BodyRecords] /\ r \in BodyRecords /\ IsFiniteSet(Leased)
  BY DEF BodyInv, LeaseOK
<1>2. /\ IsFiniteSet(Leased') /\ Cardinality(Leased) \in Nat /\ Cardinality(Leased') \in Nat
      /\ Cardinality(Leased') = Cardinality(Leased) - upload[u].bytes + r.bytes
  BY <1>1, LeasedChange
<1>3. Cardinality(Slots') = Cardinality(Slots) - One(upload[u].slot) + One(r.slot)
  BY <1>1, SlotsChange
<1>4. inFlight' = Cardinality(Leased') /\ inFlight' \in Nat /\ reads' = Cardinality(Slots')
  BY <1>2, <1>3 DEF BodyInv
<1>5. upload' \in [Uploads -> BodyRecords] /\ \A v \in Uploads : LeaseOK(upload'[v])
  BY <1>1 DEF BodyInv
<1> QED
  BY <1>2, <1>4, <1>5 DEF BodyInv

----------------------------------------------------------------------------
(* The steps.                                                              *)

\* How far a read may reach.
LEMMA WindowIsSmall ==
  ASSUME NEW held \in Nat, held <= BodyLimit + 1
  PROVE  Window(held) \in Nat /\ Window(held) <= BodyLimit + 1 - held /\ Window(held) <= ReadWindow
<1>1. ReadWindow \in Nat /\ BodyLimit + 1 - held \in Nat
  BY BodyAssumption
<1> DEFINE a == ReadWindow
           b == BodyLimit + 1 - held
<1> HIDE DEF a, b
<1>2. ASSUME a \in Nat, b \in Nat PROVE Min({a, b}) \in Nat /\ Min({a, b}) <= a /\ Min({a, b}) <= b
  <2>1. \E x \in {a, b} : \A y \in {a, b} : x <= y
    BY <1>2
  <2>2. Min({a, b}) \in {a, b} /\ \A y \in {a, b} : Min({a, b}) <= y
    BY <2>1 DEF Min
  <2> QED
    BY <1>2, <2>2
<1> QED
  BY <1>1, <1>2 DEF a, b, Window

\* A request is turned away or gets a slot.
LEMMA ArriveKeeps ==
  ASSUME BodyInv, NEW u \in Uploads, NEW kind \in {"json", "audio"}, NEW length \in Lengths, Arrive(u, kind, length)
  PROVE  BodyInv'
<1> DEFINE come == [Waiting EXCEPT !.kind = kind, !.length = length]
           in == [come EXCEPT !.at = "load", !.slot = TRUE, !.want = FirstReservation(length)]
<1>1. LeaseOK(Over) /\ Over.bytes = 0 /\ ~Over.slot
  BY DEF LeaseOK, Over, Waiting, BodyRecords, BodyStages, BytesAreRight, SlotIsRight, SwapIsRight
<1>2. length \in Nat \/ length = -1
  BY BodyAssumption
<1>3. FirstReservation(length) \in Nat
  BY <1>2, BodyAssumption DEF FirstReservation
<1>4. /\ come \in BodyRecords /\ come.bytes = 0 /\ come.held = 0 /\ come.length = length
  <2>1. Waiting \in BodyRecords /\ Waiting.bytes = 0 /\ Waiting.held = 0
    BY DEF Waiting, BodyRecords, BodyStages
  <2> QED
    BY <2>1 DEF BodyRecords
<1>5. LeaseOK(in) /\ in.bytes = 0 /\ in.slot
  <2> DEFINE n == FirstReservation(length)
  <2> HIDE DEF come
  <2>1. n \in Nat
    BY <1>3
  <2>2. in \in BodyRecords /\ in.at = "load" /\ in.bytes = 0 /\ in.held = 0 /\ in.slot = TRUE
        /\ in.want = n /\ in.length = length
    <3> HIDE DEF n
    <3>1. in = [come EXCEPT !.at = "load", !.slot = TRUE, !.want = n]
      BY DEF n
    <3> HIDE DEF in
    <3> QED
      BY <1>4, <2>1, <3>1 DEF BodyRecords, BodyStages
  <2> HIDE DEF in
  <2> QED
    BY <2>2 DEF LeaseOK, BytesAreRight, SlotIsRight, SwapIsRight
<1>6. upload[u].at = "new" /\ inFlight' = inFlight
  BY DEF Arrive, At
<1>7. upload[u].bytes = 0 /\ ~upload[u].slot /\ inFlight \in Nat /\ inFlight <= MaxInFlight /\ upload[u].slot \in BOOLEAN
  BY <1>6 DEF BodyInv, LeaseOK, BytesAreRight, SlotIsRight, BodyRecords
<1>8. reads \in Nat
  BY SlotsCounted
<1>9. \/ upload' = [upload EXCEPT ![u] = Over] /\ reads' = reads
      \/ upload' = [upload EXCEPT ![u] = in] /\ reads' = reads + 1
  BY DEF Arrive
<1> HIDE DEF in
<1>10. CASE upload' = [upload EXCEPT ![u] = Over] /\ reads' = reads
  <2>1. inFlight' = inFlight - upload[u].bytes + Over.bytes /\ inFlight' <= MaxInFlight
    BY <1>1, <1>6, <1>7
  <2>2. reads' = reads - One(upload[u].slot) + One(Over.slot)
    BY <1>1, <1>7, <1>8, <1>10 DEF One
  <2> QED
    BY <1>1, <1>10, <2>1, <2>2, LeaseMoves
<1>11. CASE upload' = [upload EXCEPT ![u] = in] /\ reads' = reads + 1
  <2>1. inFlight' = inFlight - upload[u].bytes + in.bytes /\ inFlight' <= MaxInFlight
    BY <1>5, <1>6, <1>7
  <2>2. reads' = reads - One(upload[u].slot) + One(in.slot)
    BY <1>5, <1>7, <1>8, <1>11 DEF One
  <2> QED
    BY <1>5, <1>11, <2>1, <2>2, LeaseMoves
<1> QED
  BY <1>9, <1>10, <1>11

\* A step that leaves the counter and the slots alone, and the lease as it is.
LEMMA QuietLease ==
  ASSUME BodyInv, NEW u \in Uploads, NEW r, LeaseOK(r), upload' = [upload EXCEPT ![u] = r],
         r.bytes = upload[u].bytes, r.slot = upload[u].slot, UNCHANGED <<inFlight, reads>>
  PROVE  BodyInv'
<1>1. inFlight \in Nat /\ inFlight <= MaxInFlight /\ LeaseOK(upload[u])
  BY DEF BodyInv
<1>2. upload[u].bytes \in Nat /\ reads \in Nat
  BY <1>1, RecordTypes, SlotsCounted
<1>3. inFlight' = inFlight - upload[u].bytes + r.bytes /\ inFlight' <= MaxInFlight
  BY <1>1, <1>2
<1>4. reads' = reads - One(upload[u].slot) + One(r.slot)
  BY <1>2 DEF One
<1> QED
  BY <1>3, <1>4, LeaseMoves

\* The reservation: loading the counter, and comparing it in vain.
LEMMA LoadKeeps ==
  ASSUME BodyInv, NEW u \in Uploads, Load(u) \/ SwapFails(u)
  PROVE  BodyInv'
<1> DEFINE o == upload[u]
<1>1. LeaseOK(o) /\ o.slot \in BOOLEAN /\ inFlight \in Nat /\ upload \in [Uploads -> BodyRecords]
  BY RecordTypes DEF BodyInv
<1>2. CASE Load(u)
  <2> DEFINE r == [o EXCEPT !.at = "swap", !.saw = inFlight]
  <2>1. /\ o.at = "load" /\ inFlight + o.want <= MaxInFlight /\ UNCHANGED <<inFlight, reads>>
        /\ upload' = [upload EXCEPT ![u] = r]
    BY <1>1, <1>2 DEF Load, At, Fits
  <2> HIDE DEF o
  <2>2. /\ r \in BodyRecords /\ r.at = "swap" /\ r.saw = inFlight /\ r.bytes = o.bytes /\ r.held = o.held
        /\ r.want = o.want /\ r.length = o.length /\ r.slot = o.slot /\ r.kind = o.kind
    BY <1>1 DEF LeaseOK, BodyRecords, BodyStages
  <2> HIDE DEF r
  <2>3. LeaseOK(r)
    BY <1>1, <2>1, <2>2 DEF LeaseOK, BytesAreRight, SlotIsRight, SwapIsRight
  <2> QED
    BY <2>1, <2>2, <2>3, QuietLease DEF o
<1>3. CASE SwapFails(u)
  <2> DEFINE r == [o EXCEPT !.at = "load", !.saw = 0]
  <2>1. o.at = "swap" /\ UNCHANGED <<inFlight, reads>> /\ upload' = [upload EXCEPT ![u] = r]
    BY <1>1, <1>3 DEF SwapFails, At
  <2> HIDE DEF o
  <2>2. /\ r \in BodyRecords /\ r.at = "load" /\ r.bytes = o.bytes /\ r.held = o.held
        /\ r.want = o.want /\ r.length = o.length /\ r.slot = o.slot /\ r.kind = o.kind
    BY <1>1 DEF LeaseOK, BodyRecords, BodyStages
  <2> HIDE DEF r
  <2>3. LeaseOK(r)
    BY <1>1, <2>1, <2>2 DEF LeaseOK, BytesAreRight, SlotIsRight, SwapIsRight
  <2> QED
    BY <2>1, <2>2, <2>3, QuietLease DEF o
<1> QED
  BY <1>2, <1>3

\* The budget is used up.
LEMMA RefusedKeeps ==
  ASSUME BodyInv, NEW u \in Uploads, Refused(u)
  PROVE  BodyInv'
<1> DEFINE o == upload[u]
<1>1. LeaseOK(o) /\ inFlight \in Nat /\ inFlight <= MaxInFlight /\ upload \in [Uploads -> BodyRecords] /\ reads \in Nat
  BY SlotsCounted DEF BodyInv
<1>2. o.at = "load" /\ inFlight' = inFlight
  BY DEF Refused, At
<1>3. CASE o.bytes = 0
  <2> DEFINE r == [Over EXCEPT !.slot = SlotGivenUp(u)]
  <2>0. /\ Over \in BodyRecords /\ Over.bytes = 0 /\ Over.held = 0 /\ Over.files = {} /\ Over.at = "done"
    BY DEF Over, Waiting, BodyRecords, BodyStages
  <2>1. r \in BodyRecords /\ r.bytes = 0 /\ r.slot = FALSE /\ r.held = 0 /\ r.files = {} /\ r.at = "done"
    BY <2>0 DEF SlotGivenUp, BodyRecords
  <2>2. upload' = [upload EXCEPT ![u] = r] /\ reads' = IF upload'[u].slot THEN reads ELSE reads - 1
    BY <1>3 DEF Refused
  <2> HIDE DEF r
  <2>3. LeaseOK(r)
    BY <2>1 DEF LeaseOK, BytesAreRight, SlotIsRight, SwapIsRight
  <2>4. upload'[u] = r
    BY <1>1, <2>2
  <2>5. o.slot
    BY <1>1, <1>2 DEF LeaseOK, SlotIsRight
  <2>6. reads' = reads - One(o.slot) + One(r.slot)
    BY <1>1, <2>1, <2>2, <2>4, <2>5 DEF One
  <2>7. inFlight' = inFlight - o.bytes + r.bytes /\ inFlight' <= MaxInFlight
    BY <1>1, <1>2, <1>3, <2>1
  <2> QED
    BY <2>2, <2>3, <2>6, <2>7, LeaseMoves
<1>4. CASE o.bytes # 0
  <2> DEFINE r == [o EXCEPT !.at = "read", !.answer = "no budget", !.held = 0]
  <2>1. upload' = [upload EXCEPT ![u] = r] /\ UNCHANGED <<inFlight, reads>>
    BY <1>1, <1>4 DEF Refused
  <2> HIDE DEF o
  <2>2. /\ r \in BodyRecords /\ r.at = "read" /\ r.bytes = o.bytes /\ r.held = 0
        /\ r.length = o.length /\ r.slot = o.slot /\ r.kind = o.kind
    BY <1>1 DEF LeaseOK, BodyRecords, BodyStages
  <2>3. o.bytes >= ChunkedReserve /\ ChunkedReserve \in Nat /\ o.bytes \in Nat
    BY <1>1, <1>2, <1>4, RecordTypes DEF LeaseOK, BytesAreRight
  <2> HIDE DEF r
  <2>4. LeaseOK(r)
    BY <1>1, <1>2, <2>2, <2>3 DEF LeaseOK, BytesAreRight, SlotIsRight, SwapIsRight
  <2> QED
    BY <2>1, <2>2, <2>4, QuietLease DEF o
<1> QED
  BY <1>3, <1>4

\* The swap that finds the counter as it was loaded.
LEMMA SwapKeeps ==
  ASSUME BodyInv, NEW u \in Uploads, Swap(u)
  PROVE  BodyInv'
<1> DEFINE o == upload[u]
           more == o.bytes = 0 /\ o.length = -1
           r == [o EXCEPT !.bytes = o.bytes + o.want, !.at = IF more THEN "load" ELSE "reading",
                          !.want = IF more THEN Window(0) ELSE o.want, !.saw = 0]
<1>1. LeaseOK(o) /\ inFlight \in Nat /\ upload \in [Uploads -> BodyRecords] /\ reads \in Nat
  BY SlotsCounted DEF BodyInv
<1>2. /\ o.at = "swap" /\ inFlight = o.saw /\ inFlight' = o.saw + o.want /\ reads' = reads
      /\ upload' = [upload EXCEPT ![u] = r]
  BY <1>1 DEF Swap, At, MaySwap, Chunked
<1> HIDE DEF o
<1>3. /\ o.kind \in {"json", "audio"} /\ o.slot \in BOOLEAN /\ (o.length = -1 \/ o.length \in Nat)
      /\ o.bytes \in Nat /\ o.held \in Nat /\ o.want \in Nat
      /\ ChunkedReserve \in Nat \ {0} /\ BodyLimit \in Nat /\ MaxInFlight \in Nat
  BY <1>1, RecordTypes, BodyAssumption
<1>4. Window(0) \in Nat
  BY <1>3, WindowIsSmall
<1>5. /\ r \in BodyRecords /\ r.bytes = o.bytes + o.want /\ r.at = (IF more THEN "load" ELSE "reading")
      /\ r.want = (IF more THEN Window(0) ELSE o.want)
      /\ r.held = o.held /\ r.length = o.length /\ r.slot = o.slot /\ r.kind = o.kind
  <2> DEFINE w == IF more THEN Window(0) ELSE o.want
             a == IF more THEN "load" ELSE "reading"
             n == o.bytes + o.want
  <2>1. w \in Nat /\ a \in BodyStages /\ n \in Nat
    BY <1>3, <1>4 DEF BodyStages
  <2>2. r = [o EXCEPT !.bytes = n, !.at = a, !.want = w, !.saw = 0]
    OBVIOUS
  <2> HIDE DEF w, a, n, r, more
  <2>3. r \in BodyRecords /\ r.bytes = n /\ r.at = a /\ r.want = w
        /\ r.held = o.held /\ r.length = o.length /\ r.slot = o.slot /\ r.kind = o.kind
    BY <1>1, <2>1, <2>2 DEF LeaseOK, BodyRecords
  <2> QED
    BY <2>3 DEF w, a, n
<1> HIDE DEF r
<1>6. o.saw + o.want <= MaxInFlight
  BY <1>1, <1>2 DEF LeaseOK, SwapIsRight
<1>7. o.bytes = 0 => o.held = 0 /\ o.want = FirstReservation(o.length)
  BY <1>1, <1>2 DEF LeaseOK, BytesAreRight
<1>8. o.bytes # 0 => o.length = -1 /\ o.bytes = ChunkedReserve + o.held /\ o.held <= BodyLimit /\ o.want = Window(o.held)
  BY <1>1, <1>2 DEF LeaseOK, BytesAreRight
<1>9. BytesAreRight(r)
  <2>1. CASE more
    <3>1. r.at = "load" /\ r.want = Window(0) /\ r.length = -1 /\ r.held = 0
      BY <1>5, <1>7, <2>1
    <3>2. r.bytes = ChunkedReserve
      BY <1>3, <1>5, <1>7, <2>1 DEF FirstReservation
    <3> QED
      BY <1>3, <3>1, <3>2 DEF BytesAreRight
  <2>2. CASE o.bytes = 0 /\ o.length # -1
    <3>1. r.at = "reading" /\ r.length # -1 /\ r.held = 0
      BY <1>5, <1>7, <2>2
    <3>2. r.bytes >= r.length
      BY <1>3, <1>5, <1>7, <2>2 DEF FirstReservation
    <3> QED
      BY <3>1, <3>2 DEF BytesAreRight
  <2>3. CASE o.bytes # 0
    <3>1. r.at = "reading" /\ r.length = -1 /\ r.held = o.held /\ r.want = Window(o.held)
      BY <1>5, <1>8, <2>3
    <3>2. r.bytes = ChunkedReserve + r.held + r.want
      BY <1>3, <1>5, <1>8, <2>3
    <3>3. Window(o.held) <= BodyLimit + 1 - o.held
      BY <1>3, <1>8, <2>3, WindowIsSmall
    <3> QED
      BY <1>8, <2>3, <3>1, <3>2, <3>3 DEF BytesAreRight
  <2> QED
    BY <2>1, <2>2, <2>3
<1>10. LeaseOK(r)
  <2>1. o.slot
    BY <1>1, <1>2 DEF LeaseOK, SlotIsRight
  <2>2. r.at \in {"load", "reading"}
    BY <1>5
  <2>3. SlotIsRight(r) /\ SwapIsRight(r)
    BY <1>5, <2>1, <2>2 DEF SlotIsRight, SwapIsRight
  <2> QED
    BY <1>5, <1>9, <2>3 DEF LeaseOK
<1>11. inFlight' = inFlight - o.bytes + r.bytes /\ inFlight' <= MaxInFlight
  BY <1>1, <1>2, <1>3, <1>5, <1>6
<1>12. reads' = reads - One(o.slot) + One(r.slot)
  BY <1>1, <1>2, <1>3, <1>5 DEF One
<1> QED
  BY <1>2, <1>10, <1>11, <1>12, LeaseMoves DEF o

\* One read of a chunked body: what the window did not fill goes back.
LEMMA ReadChunkKeeps ==
  ASSUME BodyInv, NEW u \in Uploads, NEW n \in Nat, NEW how, ReadChunk(u, n, how)
  PROVE  BodyInv'
<1> DEFINE o == upload[u]
           held == o.held + n
           rest == o.bytes - (o.want - n)
           next == [o EXCEPT !.bytes = rest, !.held = held, !.want = Window(held)]
<1>1. LeaseOK(o) /\ inFlight \in Nat /\ inFlight <= MaxInFlight /\ upload \in [Uploads -> BodyRecords] /\ reads \in Nat
  BY SlotsCounted DEF BodyInv
<1>2. /\ o.at = "reading" /\ o.length = -1 /\ n <= o.want /\ inFlight' = inFlight - (o.want - n) /\ reads' = reads
  BY DEF ReadChunk, At, Chunked, Unfilled
<1>3. \/ held > BodyLimit /\ upload' = [upload EXCEPT ![u] = [next EXCEPT !.at = "read", !.answer = "too large", !.held = 0]]
      \/ held <= BodyLimit /\ upload' = [upload EXCEPT ![u] = [next EXCEPT !.at = "read", !.answer = "unreadable", !.held = 0]]
      \/ held <= BodyLimit /\ upload' = [upload EXCEPT ![u] = [next EXCEPT !.at = "read"]]
      \/ held <= BodyLimit /\ upload' = [upload EXCEPT ![u] = [next EXCEPT !.at = "load"]]
  <2>1. held \in Nat /\ BodyLimit \in Nat
    BY <1>1, RecordTypes
  <2>2. held > BodyLimit \/ held <= BodyLimit
    BY <2>1
  <2>3. next = [upload[u] EXCEPT !.bytes = @ - Unfilled(u, n), !.held = held, !.want = Window(held)]
    BY DEF Unfilled
  <2>4. upload' = [upload EXCEPT ![u] =
          CASE held > BodyLimit -> [next EXCEPT !.at = "read", !.answer = "too large", !.held = 0]
            [] held <= BodyLimit /\ how = "fails" -> [next EXCEPT !.at = "read", !.answer = "unreadable", !.held = 0]
            [] held <= BodyLimit /\ (how = "eof" \/ (how = "more" /\ n = 0)) -> [next EXCEPT !.at = "read"]
            [] OTHER -> [next EXCEPT !.at = "load"]]
    BY <2>3 DEF ReadChunk
  <2> DEFINE big == [next EXCEPT !.at = "read", !.answer = "too large", !.held = 0]
             bad == [next EXCEPT !.at = "read", !.answer = "unreadable", !.held = 0]
             all == [next EXCEPT !.at = "read"]
             on == [next EXCEPT !.at = "load"]
             pick == CASE held > BodyLimit -> big
                       [] held <= BodyLimit /\ how = "fails" -> bad
                       [] held <= BodyLimit /\ (how = "eof" \/ (how = "more" /\ n = 0)) -> all
                       [] OTHER -> on
  <2>5. upload' = [upload EXCEPT ![u] = pick]
    BY <2>4
  <2> HIDE DEF big, bad, all, on, held
  <2>6. (held > BodyLimit /\ pick = big) \/ (held <= BodyLimit /\ (pick = bad \/ pick = all \/ pick = on))
    BY <2>1, <2>2
  <2> HIDE DEF pick
  <2> QED
    BY <2>5, <2>6 DEF big, bad, all, on
<1> HIDE DEF o
<1>4. /\ o.kind \in {"json", "audio"} /\ o.slot \in BOOLEAN
      /\ o.bytes \in Nat /\ o.held \in Nat /\ o.want \in Nat
      /\ ChunkedReserve \in Nat /\ BodyLimit \in Nat /\ MaxInFlight \in Nat
  BY <1>1, RecordTypes
<1>5. /\ o.bytes = ChunkedReserve + o.held + o.want /\ o.held <= BodyLimit /\ o.want <= BodyLimit + 1 - o.held
      /\ o.slot
  BY <1>1, <1>2 DEF LeaseOK, BytesAreRight, SlotIsRight
<1>6. /\ held \in Nat /\ held <= BodyLimit + 1 /\ rest \in Nat /\ rest = ChunkedReserve + held
      /\ rest >= ChunkedReserve /\ rest >= 0 /\ 0 + ChunkedReserve = ChunkedReserve
  BY <1>2, <1>4, <1>5
<1>7. Window(held) \in Nat
  BY <1>6, WindowIsSmall
<1>8. /\ next \in BodyRecords /\ next.bytes = rest /\ next.held = held /\ next.want = Window(held)
      /\ next.length = -1 /\ next.slot /\ next.kind = o.kind
  <2> DEFINE w == Window(held)
  <2>1. next = [o EXCEPT !.bytes = rest, !.held = held, !.want = w]
    OBVIOUS
  <2>2. w \in Nat
    BY <1>7
  <2> HIDE DEF w, next, held, rest
  <2>3. /\ next \in BodyRecords /\ next.bytes = rest /\ next.held = held /\ next.want = w
        /\ next.length = o.length /\ next.slot = o.slot /\ next.kind = o.kind
    BY <1>1, <1>6, <2>1, <2>2 DEF LeaseOK, BodyRecords
  <2> QED
    BY <1>2, <1>5, <2>3 DEF w
<1> HIDE DEF next, held
<1>9. ASSUME NEW r, LeaseOK(r), upload' = [upload EXCEPT ![u] = r], r.bytes = rest, r.slot PROVE BodyInv'
  <2>1. inFlight' = inFlight - o.bytes + r.bytes /\ inFlight' <= MaxInFlight
    BY <1>1, <1>2, <1>4, <1>6, <1>9
  <2>2. reads' = reads - One(o.slot) + One(r.slot)
    BY <1>1, <1>2, <1>5, <1>9 DEF One
  <2> QED
    BY <1>9, <2>1, <2>2, LeaseMoves DEF o
<1>10. ASSUME NEW why \in {"too large", "unreadable"},
              upload' = [upload EXCEPT ![u] = [next EXCEPT !.at = "read", !.answer = why, !.held = 0]]
       PROVE  BodyInv'
  <2> DEFINE r == [next EXCEPT !.at = "read", !.answer = why, !.held = 0]
  <2>1. r \in BodyRecords /\ r.at = "read" /\ r.held = 0 /\ r.bytes = rest /\ r.slot /\ r.length = -1 /\ r.kind = o.kind
    BY <1>8 DEF BodyRecords, BodyStages
  <2> HIDE DEF r, rest
  <2>2. r.bytes >= ChunkedReserve /\ r.bytes >= 0
    BY <1>4, <1>6, <2>1
  <2>3. BytesAreRight(r)
    <3>1. r.held + (IF r.length = -1 THEN ChunkedReserve ELSE 0) = ChunkedReserve
      BY <1>6, <2>1
    <3>2. r.bytes >= r.held + (IF r.length = -1 THEN ChunkedReserve ELSE 0)
      BY <2>2, <3>1
    <3> QED
      BY <2>1, <3>2 DEF BytesAreRight
  <2>4. LeaseOK(r)
    BY <2>1, <2>3 DEF LeaseOK, SlotIsRight, SwapIsRight
  <2> QED
    BY <1>9, <1>10, <2>1, <2>4 DEF r
<1>11. CASE upload' = [upload EXCEPT ![u] = [next EXCEPT !.at = "read"]]
  <2> DEFINE r == [next EXCEPT !.at = "read"]
  <2>1. r \in BodyRecords /\ r.at = "read" /\ r.held = held /\ r.bytes = rest /\ r.slot /\ r.length = -1 /\ r.kind = o.kind
    BY <1>8 DEF BodyRecords, BodyStages
  <2> HIDE DEF r, rest
  <2>2. LeaseOK(r)
    BY <1>4, <1>6, <2>1 DEF LeaseOK, BytesAreRight, SlotIsRight, SwapIsRight
  <2> QED
    BY <1>9, <1>11, <2>1, <2>2 DEF r
<1>12. CASE held <= BodyLimit /\ upload' = [upload EXCEPT ![u] = [next EXCEPT !.at = "load"]]
  <2> DEFINE r == [next EXCEPT !.at = "load"]
  <2>1. /\ r \in BodyRecords /\ r.at = "load" /\ r.held = held /\ r.bytes = rest /\ r.slot /\ r.length = -1
        /\ r.kind = o.kind /\ r.want = Window(held)
    BY <1>8 DEF BodyRecords, BodyStages
  <2> HIDE DEF r, rest
  <2>2. r.bytes # 0
    BY <1>6, <2>1, BodyAssumption
  <2>3. LeaseOK(r)
    BY <1>4, <1>6, <1>12, <2>1, <2>2 DEF LeaseOK, BytesAreRight, SlotIsRight, SwapIsRight
  <2> QED
    BY <1>9, <1>12, <2>1, <2>3 DEF r
<1> QED
  BY <1>3, <1>10, <1>11, <1>12

\* The steps of a request that touch neither the counter nor a slot.
LEMMA ServingKeeps ==
  ASSUME BodyInv, NEW u \in Uploads,
         \/ \E ok \in BOOLEAN : ReadBounded(u, ok) \/ EncodeUpstream(u, ok)
         \/ \E form, source, parses \in BOOLEAN : ParseMultipart(u, form, source, parses)
         \/ Serve(u)
  PROVE  BodyInv'
<1> DEFINE o == upload[u]
<1>1. LeaseOK(o) /\ upload \in [Uploads -> BodyRecords] /\ o \in BodyRecords
  BY DEF BodyInv, LeaseOK
<1>2. /\ o.at \in BodyStages /\ o.kind \in {"json", "audio"} /\ o.slot \in BOOLEAN
      /\ o.length = -1 \/ o.length \in Nat
      /\ o.bytes \in Nat /\ o.held \in Nat /\ ChunkedReserve \in Nat
  BY <1>1, RecordTypes
<1>3. ASSUME NEW ok \in BOOLEAN, ReadBounded(u, ok) PROVE BodyInv'
  <2> DEFINE h == IF ok THEN o.length ELSE 0
             a == IF ok THEN "none" ELSE "unreadable"
             r == [o EXCEPT !.at = "read", !.held = h, !.answer = a]
  <2>1. o.at = "reading" /\ o.length # -1 /\ UNCHANGED <<inFlight, reads>> /\ upload' = [upload EXCEPT ![u] = r]
    BY <1>1, <1>3 DEF ReadBounded, At, Chunked
  <2> HIDE DEF o
  <2>2. h \in Nat /\ h <= o.bytes
    BY <1>1, <1>2, <2>1 DEF LeaseOK, BytesAreRight
  <2>3. a \in {"none", "unreadable"}
    OBVIOUS
  <2> HIDE DEF h, a
  <2>4. /\ r \in BodyRecords /\ r.at = "read" /\ r.bytes = o.bytes /\ r.slot = o.slot /\ r.held = h
        /\ r.length = o.length /\ r.kind = o.kind
    BY <1>1, <2>2, <2>3 DEF BodyRecords, BodyStages
  <2> HIDE DEF r
  <2>5. LeaseOK(r)
    BY <1>1, <1>2, <2>1, <2>2, <2>4 DEF LeaseOK, BytesAreRight, SlotIsRight, SwapIsRight
  <2> QED
    BY <2>1, <2>4, <2>5, QuietLease DEF o
<1>4. ASSUME NEW ok \in BOOLEAN, EncodeUpstream(u, ok) PROVE BodyInv'
  <2> DEFINE f == Captured(o.files, ok) \ (IF ok THEN {"source"} ELSE {})
             s == IF ok THEN "serving" ELSE "closing"
             a == IF ok THEN o.answer ELSE "error"
             r == [o EXCEPT !.files = f, !.at = s, !.answer = a]
  <2>1. o.at = "encode" /\ UNCHANGED <<inFlight, reads>> /\ upload' = [upload EXCEPT ![u] = r]
    BY <1>1, <1>4 DEF EncodeUpstream, At
  <2> HIDE DEF o
  <2>2. f \subseteq {"form", "source", "replay"}
    BY <1>1 DEF BodyRecords, Captured
  <2>3. s \in {"serving", "closing"} /\ a \in {o.answer, "error"}
    OBVIOUS
  <2> HIDE DEF f, s, a
  <2>4. /\ r \in BodyRecords /\ r.at = s /\ r.bytes = o.bytes /\ r.slot = o.slot /\ r.held = o.held
        /\ r.length = o.length /\ r.kind = o.kind
    BY <1>1, <2>2, <2>3 DEF BodyRecords, BodyStages
  <2> HIDE DEF r
  <2>5. LeaseOK(r)
    BY <1>1, <1>2, <2>1, <2>3, <2>4 DEF LeaseOK, BytesAreRight, SlotIsRight, SwapIsRight
  <2> QED
    BY <2>1, <2>4, <2>5, QuietLease DEF o
<1>5. ASSUME NEW form \in BOOLEAN, NEW source \in BOOLEAN, NEW parses \in BOOLEAN,
             ParseMultipart(u, form, source, parses)
      PROVE  BodyInv'
  <2> DEFINE f == (IF form THEN {"form"} ELSE {}) \cup SourceFiles(source)
             a == IF parses THEN "none" ELSE IF o.answer = "too large" THEN o.answer ELSE "invalid audio"
             r == [o EXCEPT !.at = "parsed", !.files = f, !.answer = a]
  <2>1. o.at = "read" /\ UNCHANGED <<inFlight, reads>> /\ upload' = [upload EXCEPT ![u] = r]
    BY <1>1, <1>5 DEF ParseMultipart, At
  <2> HIDE DEF o
  <2>2. f \subseteq {"form", "source", "replay"} /\ a \in {"none", "too large", "invalid audio"}
    BY DEF SourceFiles
  <2> HIDE DEF f, a
  <2>4. /\ r \in BodyRecords /\ r.at = "parsed" /\ r.bytes = o.bytes /\ r.slot = o.slot /\ r.held = o.held
        /\ r.length = o.length /\ r.kind = o.kind
    BY <1>1, <2>2 DEF BodyRecords, BodyStages
  <2> HIDE DEF r
  <2>5. LeaseOK(r)
    BY <1>1, <1>2, <2>1, <2>4 DEF LeaseOK, BytesAreRight, SlotIsRight, SwapIsRight
  <2> QED
    BY <2>1, <2>4, <2>5, QuietLease DEF o
<1>6. CASE Serve(u)
  <2> DEFINE r == [o EXCEPT !.at = "closing", !.answer = "served"]
  <2>1. o.at = "serving" /\ UNCHANGED <<inFlight, reads>> /\ upload' = [upload EXCEPT ![u] = r]
    BY <1>1, <1>6 DEF Serve, At
  <2> HIDE DEF o
  <2>4. /\ r \in BodyRecords /\ r.at = "closing" /\ r.bytes = o.bytes /\ r.slot = o.slot /\ r.held = o.held
        /\ r.length = o.length /\ r.kind = o.kind
    BY <1>1 DEF BodyRecords, BodyStages
  <2> HIDE DEF r
  <2>5. LeaseOK(r)
    BY <1>1, <1>2, <2>1, <2>4 DEF LeaseOK, BytesAreRight, SlotIsRight, SwapIsRight
  <2> QED
    BY <2>1, <2>4, <2>5, QuietLease DEF o
<1> QED
  BY <1>3, <1>4, <1>5, <1>6

\* What settling makes of a request.
LEMMA SettledEffect ==
  ASSUME NEW u \in Uploads, upload[u] \in BodyRecords
  PROVE  /\ Settled(u) \in BodyRecords /\ Settled(u).at \in {"closing", "serving", "encode"}
         /\ Settled(u).bytes = upload[u].bytes /\ Settled(u).held = upload[u].held /\ Settled(u).slot = upload[u].slot
         /\ Settled(u).kind = upload[u].kind /\ Settled(u).length = upload[u].length
<1> DEFINE o == upload[u]
           f == o.files \ {"form"}
           a == CASE Failed(u) -> "closing"
                  [] ~Failed(u) /\ upload[u].kind = "json" -> "serving"
                  [] OTHER -> "encode"
<1>1. Settled(u) = [o EXCEPT !.files = f, !.at = a]
  BY DEF Settled
<1>2. a \in {"closing", "serving", "encode"}
  OBVIOUS
<1> HIDE DEF o
<1>3. o \in BodyRecords /\ f \subseteq {"form", "source", "replay"}
  BY DEF BodyRecords, o
<1> HIDE DEF f, a
<1>4. LET r == [o EXCEPT !.files = f, !.at = a]
      IN  /\ r \in BodyRecords /\ r.at = a /\ r.bytes = o.bytes /\ r.held = o.held /\ r.slot = o.slot
          /\ r.kind = o.kind /\ r.length = o.length
  BY <1>2, <1>3 DEF BodyRecords, BodyStages
<1> QED
  BY <1>1, <1>2, <1>4 DEF o

\* The lease is set to what the body really takes, which is never more.
LEMMA ReconcileKeeps ==
  ASSUME BodyInv, NEW u \in Uploads, Reconcile(u)
  PROVE  BodyInv'
<1> DEFINE o == upload[u]
           b == Actual(u)
           base == IF o.kind = "audio" THEN Settled(u) ELSE [o EXCEPT !.at = "settling"]
           r == [base EXCEPT !.bytes = b]
<1>1. LeaseOK(o) /\ inFlight \in Nat /\ inFlight <= MaxInFlight /\ upload \in [Uploads -> BodyRecords] /\ reads \in Nat
      /\ o \in BodyRecords
  BY SlotsCounted DEF BodyInv, LeaseOK
<1>2. /\ o.at = (IF o.kind = "audio" THEN "settling" ELSE "read") /\ reads' = reads
      /\ inFlight' = inFlight + b - o.bytes /\ upload' = [upload EXCEPT ![u] = r]
  BY DEF Reconcile, At
<1>3. /\ o.kind \in {"json", "audio"} /\ o.slot \in BOOLEAN /\ (o.length = -1 \/ o.length \in Nat)
      /\ o.bytes \in Nat /\ o.held \in Nat /\ ChunkedReserve \in Nat /\ MaxInFlight \in Nat
  BY <1>1, RecordTypes
<1>4. b = IF o.kind = "audio" THEN (IF o.length = -1 THEN o.bytes - ChunkedReserve ELSE o.bytes) ELSE o.held
  BY DEF Actual, Chunked
<1>5. /\ Settled(u) \in BodyRecords /\ Settled(u).at \in {"closing", "serving", "encode"}
      /\ Settled(u).bytes = o.bytes /\ Settled(u).held = o.held /\ Settled(u).slot = o.slot
      /\ Settled(u).kind = o.kind /\ Settled(u).length = o.length
  BY <1>1, SettledEffect
<1> HIDE DEF b, o
<1>6. o.bytes >= o.held + (IF o.length = -1 THEN ChunkedReserve ELSE 0)
  BY <1>1, <1>2, <1>3 DEF LeaseOK, BytesAreRight
<1>7. b \in Nat /\ b <= o.bytes /\ b >= o.held
  BY <1>3, <1>4, <1>6
<1>8. /\ base \in BodyRecords /\ base.held = o.held /\ base.slot = o.slot /\ base.kind = o.kind
      /\ base.at \in (IF o.kind = "audio" THEN {"closing", "serving", "encode"} ELSE {"settling"})
  <2>1. CASE o.kind = "audio"
    BY <1>5, <2>1
  <2>2. CASE o.kind # "audio"
    <3> DEFINE s == [o EXCEPT !.at = "settling"]
    <3>1. s \in BodyRecords /\ s.held = o.held /\ s.slot = o.slot /\ s.kind = o.kind /\ s.at = "settling"
      BY <1>1 DEF BodyRecords, BodyStages
    <3>2. base = s
      BY <2>2
    <3> HIDE DEF s, base
    <3> QED
      BY <2>2, <3>1, <3>2
  <2> QED
    BY <2>1, <2>2
<1> HIDE DEF base
<1>9. /\ r \in BodyRecords /\ r.bytes = b /\ r.held = o.held /\ r.slot = o.slot /\ r.kind = o.kind /\ r.at = base.at
  BY <1>7, <1>8 DEF BodyRecords
<1> HIDE DEF r
<1>10. LeaseOK(r)
  <2>1. o.slot <=> o.kind = "json"
    BY <1>1, <1>2, <1>3 DEF LeaseOK, SlotIsRight
  <2>2. BytesAreRight(r)
    BY <1>3, <1>7, <1>8, <1>9 DEF BytesAreRight
  <2>3. SlotIsRight(r) /\ SwapIsRight(r)
    BY <1>3, <1>8, <1>9, <2>1 DEF SlotIsRight, SwapIsRight
  <2> QED
    BY <1>9, <2>2, <2>3 DEF LeaseOK
<1>11. inFlight' = inFlight - o.bytes + r.bytes /\ inFlight' <= MaxInFlight
  BY <1>1, <1>2, <1>3, <1>7, <1>9
<1>12. reads' = reads - One(o.slot) + One(r.slot)
  BY <1>1, <1>2, <1>3, <1>9 DEF One
<1> QED
  BY <1>2, <1>10, <1>11, <1>12, LeaseMoves DEF o

\* The slot goes back once.
LEMMA ReleaseSlotKeeps ==
  ASSUME BodyInv, NEW u \in Uploads, ReleaseSlot(u)
  PROVE  BodyInv'
<1> DEFINE o == upload[u]
           base == IF o.kind = "json" THEN Settled(u) ELSE [o EXCEPT !.at = "settling"]
           r == [base EXCEPT !.slot = FALSE]
<1>1. LeaseOK(o) /\ inFlight \in Nat /\ inFlight <= MaxInFlight /\ upload \in [Uploads -> BodyRecords] /\ reads \in Nat
      /\ o \in BodyRecords
  BY SlotsCounted DEF BodyInv, LeaseOK
<1>2. /\ o.at = (IF o.kind = "json" THEN "settling" ELSE "parsed") /\ reads' = reads - 1
      /\ inFlight' = inFlight /\ upload' = [upload EXCEPT ![u] = r]
  BY DEF ReleaseSlot, At
<1>3. /\ o.kind \in {"json", "audio"} /\ o.slot \in BOOLEAN /\ (o.length = -1 \/ o.length \in Nat)
      /\ o.bytes \in Nat /\ o.held \in Nat /\ ChunkedReserve \in Nat
  BY <1>1, RecordTypes
<1>5. /\ Settled(u) \in BodyRecords /\ Settled(u).at \in {"closing", "serving", "encode"}
      /\ Settled(u).bytes = o.bytes /\ Settled(u).held = o.held /\ Settled(u).slot = o.slot
      /\ Settled(u).kind = o.kind /\ Settled(u).length = o.length
  BY <1>1, SettledEffect
<1> HIDE DEF o
<1>6. /\ o.slot /\ o.bytes >= o.held
      /\ o.kind = "audio" => o.bytes >= o.held + (IF o.length = -1 THEN ChunkedReserve ELSE 0)
  BY <1>1, <1>2, <1>3 DEF LeaseOK, BytesAreRight, SlotIsRight
<1>8. /\ base \in BodyRecords /\ base.held = o.held /\ base.bytes = o.bytes /\ base.kind = o.kind /\ base.length = o.length
      /\ base.at \in (IF o.kind = "json" THEN {"closing", "serving", "encode"} ELSE {"settling"})
  <2>1. CASE o.kind = "json"
    BY <1>5, <2>1
  <2>2. CASE o.kind # "json"
    <3> DEFINE s == [o EXCEPT !.at = "settling"]
    <3>1. s \in BodyRecords /\ s.held = o.held /\ s.bytes = o.bytes /\ s.kind = o.kind /\ s.at = "settling"
          /\ s.length = o.length
      BY <1>1 DEF BodyRecords, BodyStages
    <3>2. base = s
      BY <2>2
    <3> HIDE DEF s, base
    <3> QED
      BY <2>2, <3>1, <3>2
  <2> QED
    BY <2>1, <2>2
<1> HIDE DEF base
<1>9. /\ r \in BodyRecords /\ r.bytes = o.bytes /\ r.held = o.held /\ r.slot = FALSE /\ r.kind = o.kind /\ r.at = base.at
      /\ r.length = o.length
  BY <1>8 DEF BodyRecords
<1> HIDE DEF r
<1>10. LeaseOK(r)
  <2>2. BytesAreRight(r)
    BY <1>3, <1>6, <1>8, <1>9 DEF BytesAreRight
  <2>3. SlotIsRight(r) /\ SwapIsRight(r)
    BY <1>3, <1>8, <1>9 DEF SlotIsRight, SwapIsRight
  <2> QED
    BY <1>9, <2>2, <2>3 DEF LeaseOK
<1>11. inFlight' = inFlight - o.bytes + r.bytes /\ inFlight' <= MaxInFlight
  BY <1>1, <1>2, <1>3, <1>9
<1>12. reads' = reads - One(o.slot) + One(r.slot)
  BY <1>1, <1>2, <1>6, <1>9 DEF One
<1> QED
  BY <1>2, <1>10, <1>11, <1>12, LeaseMoves DEF o

\* The deferred release gives back what the lease is still worth.
LEMMA ReleaseKeeps ==
  ASSUME BodyInv, NEW u \in Uploads, Release(u)
  PROVE  BodyInv'
<1> DEFINE o == upload[u]
           r == [Over EXCEPT !.files = FilesAfterClose(u)]
<1>1. LeaseOK(o) /\ inFlight \in Nat /\ inFlight <= MaxInFlight /\ reads \in Nat
  BY SlotsCounted DEF BodyInv
<1>2. /\ o.at = "closing" /\ reads' = reads /\ inFlight' = inFlight - o.bytes /\ upload' = [upload EXCEPT ![u] = r]
  BY DEF Release, At
<1>3. /\ Over \in BodyRecords /\ Over.bytes = 0 /\ Over.held = 0 /\ Over.at = "done" /\ Over.slot = FALSE
  BY DEF Over, Waiting, BodyRecords, BodyStages
<1>4. r \in BodyRecords /\ r.bytes = 0 /\ r.slot = FALSE /\ r.held = 0 /\ r.files = {} /\ r.at = "done"
  BY <1>3 DEF FilesAfterClose, BodyRecords
<1> HIDE DEF r, o
<1>5. LeaseOK(r)
  BY <1>4 DEF LeaseOK, BytesAreRight, SlotIsRight, SwapIsRight
<1>6. ~o.slot /\ o.bytes \in Nat /\ MaxInFlight \in Nat
  BY <1>1, <1>2, RecordTypes DEF LeaseOK, SlotIsRight
<1>7. inFlight' = inFlight - o.bytes + r.bytes /\ inFlight' <= MaxInFlight
  BY <1>1, <1>2, <1>4, <1>6
<1>8. reads' = reads - One(o.slot) + One(r.slot)
  BY <1>1, <1>2, <1>4, <1>6 DEF One
<1> QED
  BY <1>2, <1>5, <1>7, <1>8, LeaseMoves DEF o

\* The invariant holds at first and every step of every request keeps it,
\* however their loads and swaps interleave (bodybudget.go:56-297, audio.go:60-165).
THEOREM BodyInductive == BodySpec => []BodyInv
<1>1. BodyInit => BodyInv
  <2> SUFFICES ASSUME BodyInit PROVE BodyInv
    OBVIOUS
  <2>1. inFlight = 0 /\ reads = 0 /\ upload = [u \in Uploads |-> Waiting]
    BY DEF BodyInit
  <2>2. LeaseOK(Waiting) /\ Waiting \in BodyRecords /\ Waiting.bytes = 0 /\ ~Waiting.slot
    BY DEF LeaseOK, Waiting, BodyRecords, BodyStages, BytesAreRight, SlotIsRight, SwapIsRight
  <2>3. Leased = {}
    <3>1. \A u \in Uploads : {u} \X (1 .. upload[u].bytes) = {}
      BY <2>1, <2>2
    <3> QED
      BY <3>1 DEF Leased
  <2>4. Slots = {}
    BY <2>1, <2>2 DEF Slots
  <2>5. IsFiniteSet({}) /\ Cardinality({}) = 0
    BY FS_EmptySet
  <2>6. upload \in [Uploads -> BodyRecords] /\ \A u \in Uploads : LeaseOK(upload[u])
    BY <2>1, <2>2
  <2>7. 0 <= MaxInFlight
    BY BodyAssumption
  <2> QED
    BY <2>1, <2>3, <2>4, <2>5, <2>6, <2>7 DEF BodyInv
<1>2. BodyInv /\ [BodyNext]_bodyVars => BodyInv'
  <2> SUFFICES ASSUME BodyInv, [BodyNext]_bodyVars PROVE BodyInv'
    OBVIOUS
  <2>1. ASSUME NEW u \in Uploads, BodyStep(u) PROVE BodyInv'
    <3>1. 0 .. ReadWindow \subseteq Nat
      BY BodyAssumption
    <3> QED
      BY <2>1, <3>1, ArriveKeeps, LoadKeeps, SwapKeeps, RefusedKeeps, ReadChunkKeeps, ServingKeeps,
         ReconcileKeeps, ReleaseSlotKeeps, ReleaseKeeps DEF BodyStep
  <2>2. CASE UNCHANGED bodyVars
    BY <2>2 DEF BodyInv, bodyVars, Leased, Slots
  <2> QED
    BY <2>1, <2>2 DEF BodyNext
<1> QED
  BY <1>1, <1>2, PTL DEF BodySpec

\* The counter of bytes in flight is the sum of the leases and never above the
\* budget, a lease covers what its request holds, and an answered request keeps
\* no slot, no bytes and no file (bodybudget.go:56-194).
THEOREM BodyBudgetKept == BodySpec => []BudgetIsKept
<1>1. BodyInv => BudgetIsKept
  BY BodyInvIsEnough
<1> QED
  BY <1>1, BodyInductive, PTL

(***************************************************************************)
(* A streamed chat answer: what is relayed                                 *)
(***************************************************************************)
Datum(e) == e \in Events \ {"comment", "done"}

\* The data of a sequence can be counted.
LEMMA DataCounted ==
  ASSUME NEW T, NEW s \in Seq(T)
  PROVE  /\ DataOf(s) \subseteq 1..Len(s) /\ IsFiniteSet(DataOf(s)) /\ Len(s) \in Nat
         /\ \A n : IsFiniteSet({i \in DataOf(s) : i <= n}) /\ DataUpTo(s, n) \in Nat
         /\ DataUpTo(s, Len(s)) = Cardinality(DataOf(s))
<1>1. DOMAIN s = 1..Len(s) /\ Len(s) \in Nat
  BY LenProperties
<1>2. DataOf(s) \subseteq 1..Len(s)
  BY <1>1 DEF DataOf
<1>3. IsFiniteSet(1..Len(s))
  BY <1>1, FS_Interval
<1>4. IsFiniteSet(DataOf(s))
  BY <1>2, <1>3, FS_Subset
<1>5. ASSUME NEW n PROVE IsFiniteSet({i \in DataOf(s) : i <= n}) /\ DataUpTo(s, n) \in Nat
  <2>1. {i \in DataOf(s) : i <= n} \subseteq DataOf(s)
    OBVIOUS
  <2> QED
    BY <1>4, <2>1, FS_Subset, FS_CardinalityType DEF DataUpTo
<1>6. {i \in DataOf(s) : i <= Len(s)} = DataOf(s)
  BY <1>1, <1>2
<1> QED
  BY <1>1, <1>2, <1>4, <1>5, <1>6 DEF DataUpTo

\* One event more.
LEMMA DataAppended ==
  ASSUME NEW T, NEW s \in Seq(T), NEW e \in T
  PROVE  LET t == Append(s, e) IN
         /\ DataOf(t) = DataOf(s) \cup (IF Datum(e) THEN {Len(s) + 1} ELSE {})
         /\ \A i \in DataOf(s) : t[i] = s[i]
         /\ \A n \in 0..Len(s) : DataUpTo(t, n) = DataUpTo(s, n)
<1> DEFINE t == Append(s, e)
<1>1. DOMAIN s = 1..Len(s) /\ Len(s) \in Nat
  BY LenProperties
<1>2. t \in Seq(T) /\ Len(t) = Len(s) + 1 /\ t[Len(s) + 1] = e /\ \A i \in 1..Len(s) : t[i] = s[i]
  BY <1>1, AppendProperties
<1> HIDE DEF t
<1>3. DOMAIN t = 1..(Len(s) + 1)
  BY <1>2, LenProperties
<1>4. \A i : i \in 1..(Len(s) + 1) <=> i \in 1..Len(s) \/ i = Len(s) + 1
  BY <1>1
<1>5. Len(s) + 1 \notin 1..Len(s)
  BY <1>1
<1>6. \A i : i \in DataOf(t) <=> i \in DataOf(s) \/ (i = Len(s) + 1 /\ Datum(e))
  BY <1>1, <1>2, <1>3, <1>4, <1>5 DEF DataOf, Datum
<1>7. DataOf(t) = DataOf(s) \cup (IF Datum(e) THEN {Len(s) + 1} ELSE {})
  BY <1>6
<1>8. \A i \in DataOf(s) : t[i] = s[i]
  BY <1>1, <1>2 DEF DataOf
<1>9. ASSUME NEW n \in 0..Len(s) PROVE DataUpTo(t, n) = DataUpTo(s, n)
  <2>1. ~(Len(s) + 1 <= n)
    BY <1>1
  <2>2. {i \in DataOf(t) : i <= n} = {i \in DataOf(s) : i <= n}
    BY <1>6, <2>1
  <2> QED
    BY <2>2 DEF DataUpTo
<1> QED
  BY <1>7, <1>8, <1>9 DEF t

\* Words that are no data.
LEMMA WordsAdded ==
  ASSUME NEW T, NEW s \in Seq(T), NEW w \in Seq(T), \A i \in 1..Len(w) : ~Datum(w[i])
  PROVE  DataOf(s \o w) = DataOf(s) /\ \A i \in DataOf(s) : (s \o w)[i] = s[i]
<1> DEFINE t == s \o w
           n == Len(s)
           m == Len(w)
<1>1. DOMAIN s = 1..n /\ n \in Nat /\ m \in Nat
  BY LenProperties
<1>2. t \in Seq(T) /\ Len(t) = n + m /\ \A i \in 1..(n + m) : t[i] = IF i <= n THEN s[i] ELSE w[i - n]
  BY <1>1, ConcatProperties
<1> HIDE DEF t, n, m
<1>3. DOMAIN t = 1..(n + m)
  BY <1>2, LenProperties
<1>4. ASSUME NEW i \in 1..(n + m)
      PROVE  (i \in 1..n /\ t[i] = s[i]) \/ (i \notin 1..n /\ ~Datum(t[i]))
  <2>1. CASE i <= n
    BY <1>1, <1>2, <2>1
  <2>2. CASE ~(i <= n)
    <3>1. i - n \in 1..m /\ i \notin 1..n
      BY <1>1, <2>2
    <3>2. ~Datum(w[i - n])
      BY <3>1 DEF m
    <3> QED
      BY <1>2, <2>2, <3>1, <3>2
  <2> QED
    BY <2>1, <2>2
<1>5. \A i \in 1..n : i \in 1..(n + m) /\ t[i] = s[i]
  BY <1>1, <1>4
<1>6. DataOf(t) = DataOf(s) /\ \A i \in DataOf(s) : t[i] = s[i]
  BY <1>1, <1>3, <1>4, <1>5 DEF DataOf, Datum
<1> QED
  BY <1>6 DEF t

\* The inductive invariant: what Proxy has written is the data of what it has read.
RelayInv ==
  /\ ChatInv
  /\ RelayedInOrder
  /\ stage = "prime" => out = <<>>
  /\ stage \in {"decode", "write", "flush"} => Cardinality(DataOf(out)) = DataUpTo(made, at)

\* The upstream sends more, and nothing goes out.
LEMMA MoreIsMade ==
  ASSUME RelayInv, made' = made \/ \E e \in Events : made' = Append(made, e),
         UNCHANGED <<at, stage, out>>
  PROVE  /\ RelayedInOrder' /\ (stage' = "prime" => out' = <<>>)
         /\ stage' \in {"decode", "write", "flush"} => Cardinality(DataOf(out')) = DataUpTo(made', at')
<1>0. made \in Seq(Events) /\ at \in 0..Len(made) /\ Len(made) \in Nat
  BY LenProperties DEF RelayInv, ChatInv, ChatTypeOK
<1>1. CASE made' = made
  BY <1>1 DEF RelayInv, RelayedInOrder
<1>2. ASSUME NEW e \in Events, made' = Append(made, e)
      PROVE  /\ RelayedInOrder'
             /\ stage' \in {"decode", "write", "flush"} => Cardinality(DataOf(out')) = DataUpTo(made', at')
  <2>1. /\ DataOf(made) \subseteq DataOf(made') /\ \A i \in DataOf(made) : made'[i] = made[i]
        /\ \A n \in 0..Len(made) : DataUpTo(made', n) = DataUpTo(made, n)
    <3>1. /\ DataOf(made') = DataOf(made) \cup (IF Datum(e) THEN {Len(made) + 1} ELSE {})
          /\ \A i \in DataOf(made) : made'[i] = made[i]
          /\ \A n \in 0..Len(made) : DataUpTo(made', n) = DataUpTo(made, n)
      BY <1>0, <1>2, DataAppended
    <3> QED
      BY <3>1
  <2>2. DataOf(made) \subseteq 0..Len(made)
    <3>1. DataOf(made) \subseteq 1..Len(made)
      BY <1>0, DataCounted
    <3> QED
      BY <1>0, <3>1
  <2>3. RelayedInOrder'
    <3> SUFFICES ASSUME NEW i \in DataOf(out)
                 PROVE  \E j \in DataOf(made') : made'[j] = out[i] /\ DataUpTo(made', j) = DataUpTo(out, i)
      BY DEF RelayedInOrder
    <3>1. PICK j \in DataOf(made) : made[j] = out[i] /\ DataUpTo(made, j) = DataUpTo(out, i)
      BY DEF RelayInv, RelayedInOrder
    <3>2. j \in DataOf(made') /\ made'[j] = out[i] /\ DataUpTo(made', j) = DataUpTo(out, i)
      BY <2>1, <2>2, <3>1
    <3> QED
      BY <3>2
  <2>4. stage \in {"decode", "write", "flush"} => Cardinality(DataOf(out)) = DataUpTo(made', at)
    BY <1>0, <2>1 DEF RelayInv
  <2> QED
    BY <2>3, <2>4
<1> QED
  BY <1>1, <1>2 DEF RelayInv

\* Nothing that the client is told beside the data changes what it was relayed.
LEMMA WordsKeepOrder ==
  ASSUME RelayInv, made' = made, DataOf(out') = DataOf(out), \A i \in DataOf(out) : out'[i] = out[i]
  PROVE  RelayedInOrder' /\ Cardinality(DataOf(out')) = Cardinality(DataOf(out))
<1>1. \A i : DataUpTo(out', i) = DataUpTo(out, i)
  BY DEF DataUpTo
<1>2. RelayedInOrder'
  BY <1>1 DEF RelayInv, RelayedInOrder
<1> QED
  BY <1>2

\* Reading an event that is no data, or writing one.
LEMMA NoDatumRead ==
  ASSUME made \in Seq(Events), at \in Nat, at < Len(made)
  PROVE  /\ ~Datum(made[at + 1]) => DataUpTo(made, at + 1) = DataUpTo(made, at)
         /\ Datum(made[at + 1]) => at + 1 \in DataOf(made) /\ DataUpTo(made, at + 1) = DataUpTo(made, at) + 1
<1> DEFINE X == {i \in DataOf(made) : i <= at}
           Y == {i \in DataOf(made) : i <= at + 1}
<1>0. DOMAIN made = 1..Len(made) /\ Len(made) \in Nat
  BY LenProperties
<1>1. DataOf(made) \subseteq 1..Len(made) /\ IsFiniteSet(X) /\ DataUpTo(made, at) \in Nat
  BY DataCounted
<1>2. \A i \in 1..Len(made) : i <= at + 1 <=> i <= at \/ i = at + 1
  BY <1>0
<1>3. at + 1 \in 1..Len(made) /\ ~(at + 1 <= at)
  BY <1>0
<1>4. at + 1 \in DataOf(made) <=> Datum(made[at + 1])
  BY <1>0, <1>3 DEF DataOf, Datum
<1>5. CASE ~Datum(made[at + 1])
  <2>1. Y = X
    BY <1>1, <1>2, <1>4, <1>5
  <2> QED
    BY <1>5, <2>1 DEF DataUpTo
<1>6. CASE Datum(made[at + 1])
  <2>1. Y = X \cup {at + 1} /\ at + 1 \notin X
    BY <1>1, <1>2, <1>3, <1>4, <1>6
  <2>2. Cardinality(Y) = Cardinality(X) + 1
    <3> HIDE DEF X, Y
    <3> QED
      BY <1>1, <2>1, FS_AddElement
  <2> QED
    BY <1>4, <1>6, <2>2 DEF DataUpTo
<1> QED
  BY <1>5, <1>6

\* Write: the event goes out behind the comments that were held back.
LEMMA EventWritten ==
  ASSUME RelayInv, stage = "write", made' = made, at' = at + 1, out' = Append(out \o pending, made[at + 1])
  PROVE  RelayedInOrder' /\ Cardinality(DataOf(out')) = DataUpTo(made, at + 1)
<1> DEFINE held == out \o pending
           e == made[at + 1]
<1>0. /\ made \in Seq(Events) /\ at \in Nat /\ at < Len(made) /\ Len(made) \in Nat
      /\ out \in Seq(Words) /\ pending \in Seq({"comment"}) /\ RelayedInOrder
      /\ Cardinality(DataOf(out)) = DataUpTo(made, at)
  BY LenProperties DEF RelayInv, ChatInv, ChatTypeOK, OutIsOpen
<1>1. /\ pending \in Seq(Words) /\ \A i \in 1..Len(pending) : ~Datum(pending[i])
  <2>1. pending \in Seq(Words)
    BY <1>0, SeqMonotonic DEF Words
  <2>2. \A i \in 1..Len(pending) : pending[i] = "comment"
    BY <1>0, ElementOfSeq
  <2> QED
    BY <2>1, <2>2 DEF Datum
<1>2. held \in Seq(Words)
  BY <1>0, <1>1, ConcatProperties
<1>3. DataOf(held) = DataOf(out) /\ \A i \in DataOf(out) : held[i] = out[i]
  BY <1>0, <1>1, WordsAdded
<1>4. e \in Words
  <2>1. at + 1 \in 1..Len(made)
    BY <1>0
  <2>2. e \in Events
    BY <1>0, <2>1, ElementOfSeq
  <2> QED
    BY <2>2, EventAssumption DEF Words
<1> HIDE DEF held, e
<1>5. /\ DataOf(out') = DataOf(held) \cup (IF Datum(e) THEN {Len(held) + 1} ELSE {})
      /\ \A i \in DataOf(held) : out'[i] = held[i]
      /\ \A n \in 0..Len(held) : DataUpTo(out', n) = DataUpTo(held, n)
  BY <1>2, <1>4, DataAppended DEF held, e
<1>6. /\ DataOf(held) \subseteq 1..Len(held) /\ IsFiniteSet(DataOf(held)) /\ Len(held) \in Nat
  BY <1>2, DataCounted
<1>7. ASSUME NEW i \in DataOf(out)
      PROVE  out'[i] = out[i] /\ DataUpTo(out', i) = DataUpTo(out, i)
  <2>1. i \in DataOf(held) /\ i \in 0..Len(held)
    BY <1>3, <1>6
  <2>2. DataUpTo(held, i) = DataUpTo(out, i)
    BY <1>3 DEF DataUpTo
  <2> QED
    BY <1>3, <1>5, <2>1, <2>2
<1>8. ASSUME NEW i \in DataOf(out)
      PROVE  \E j \in DataOf(made) : made[j] = out'[i] /\ DataUpTo(made, j) = DataUpTo(out', i)
  BY <1>0, <1>7 DEF RelayedInOrder
<1>9. CASE ~Datum(e)
  <2>1. DataOf(out') = DataOf(out)
    BY <1>3, <1>5, <1>9
  <2>2. RelayedInOrder'
    BY <1>8, <2>1 DEF RelayedInOrder
  <2>3. DataUpTo(made, at + 1) = DataUpTo(made, at)
    BY <1>0, <1>9, NoDatumRead DEF e
  <2> QED
    BY <1>0, <2>1, <2>2, <2>3
<1>10. CASE Datum(e)
  <2> DEFINE k == Len(held) + 1
  <2>1. DataOf(out') = DataOf(out) \cup {k} /\ k \notin DataOf(out)
    BY <1>3, <1>5, <1>6, <1>10
  <2>2. out'[k] = e /\ Len(out') = k /\ out' \in Seq(Words)
    <3>1. out' = Append(held, e)
      BY DEF held, e
    <3> QED
      BY <1>2, <1>4, <1>6, <3>1, AppendProperties
  <2>3. at + 1 \in DataOf(made) /\ DataUpTo(made, at + 1) = DataUpTo(made, at) + 1
    BY <1>0, <1>10, NoDatumRead DEF e
  <2>4. Cardinality(DataOf(out')) = Cardinality(DataOf(out)) + 1
    <3> HIDE DEF k
    <3> QED
      BY <1>3, <1>6, <2>1, FS_AddElement
  <2>5. DataUpTo(out', k) = Cardinality(DataOf(out'))
    BY <2>2, DataCounted
  <2>6. made[at + 1] = out'[k] /\ DataUpTo(made, at + 1) = DataUpTo(out', k)
    BY <1>0, <2>2, <2>3, <2>4, <2>5 DEF e
  <2> HIDE DEF k
  <2>7. RelayedInOrder'
    <3> SUFFICES ASSUME NEW i \in DataOf(out')
                 PROVE  \E j \in DataOf(made) : made[j] = out'[i] /\ DataUpTo(made, j) = DataUpTo(out', i)
      BY DEF RelayedInOrder
    <3>1. CASE i \in DataOf(out)
      BY <1>8, <3>1
    <3>2. CASE i = k
      BY <2>3, <2>6, <3>2
    <3> QED
      BY <2>1, <3>1, <3>2
  <2> QED
    BY <1>0, <2>3, <2>4, <2>7
<1> QED
  BY <1>9, <1>10

\* The handler's other steps: they read on, or tell how the answer ended.
LEMMA RelayStep ==
  ASSUME RelayInv, StreamNext, ChatInv'
  PROVE  RelayInv'
<1>0. /\ made \in Seq(Events) /\ at \in Nat /\ at <= Len(made) /\ Len(made) \in Nat
      /\ out \in Seq(Words) /\ pending \in Seq({"comment"}) /\ pending \in Seq(Words)
      /\ RelayedInOrder /\ ChatTypeOK
  BY LenProperties, SeqMonotonic DEF RelayInv, ChatInv, ChatTypeOK, Words
<1>1. CASE UpstreamSends \/ UpstreamEnds \/ ClientTurns \/ ContextEnds \/ IdleExpires \/ WatchdogFires
  <2>1. UNCHANGED <<at, stage, out>> /\ (made' = made \/ \E e \in Events : made' = Append(made, e))
    BY <1>1 DEF UpstreamSends, UpstreamEnds, ClientTurns, ContextEnds, IdleExpires, WatchdogFires
  <2> QED
    BY <2>1, MoreIsMade DEF RelayInv
<1>2. ASSUME UNCHANGED <<made, out>>,
             stage' = "prime" => out = <<>>,
             stage' \in {"decode", "write", "flush"} => Cardinality(DataOf(out)) = DataUpTo(made, at')
      PROVE  RelayInv'
  BY <1>0, <1>2 DEF RelayInv, RelayedInOrder
<1>3. CASE PrimeReads
  <2>1. UNCHANGED <<made, out>> /\ out = <<>>
    BY <1>3 DEF PrimeReads, RelayInv
  <2>2. stage' \in {"prime", "end"} \/ (stage' = "decode" /\ at' = 0)
    BY <1>3 DEF PrimeReads, Finish, Replay
  <2>3. Cardinality(DataOf(<<>>)) = 0 /\ DataUpTo(made, 0) = 0
    <3>1. DataOf(<<>>) = {}
      BY DEF DataOf
    <3>2. DataOf(made) \subseteq 1..Len(made)
      BY <1>0, DataCounted
    <3>3. {i \in DataOf(made) : i <= 0} = {}
      BY <1>0, <3>2
    <3>4. Cardinality({}) = 0
      BY FS_EmptySet
    <3> QED
      BY <3>1, <3>3, <3>4 DEF DataUpTo
  <2> QED
    BY <1>2, <2>1, <2>2, <2>3
<1>4. CASE PrimeFails \/ DecodeFails
  <2>1. UNCHANGED <<made, out>> /\ stage' = "end"
    BY <1>4 DEF PrimeFails, DecodeFails, Finish
  <2> QED
    BY <1>2, <2>1
<1>5. CASE Decode
  <2>1. UNCHANGED <<made, out>> /\ stage = "decode" /\ at < Len(made)
    BY <1>5 DEF Decode, HasEvent
  <2>2. \/ stage' = "end"
        \/ made[at + 1] = "comment" /\ at' = at + 1 /\ stage' = "decode"
        \/ stage' = "write" /\ at' = at
    BY <1>5 DEF Decode, Finish, NextEvent
  <2>3. Cardinality(DataOf(out)) = DataUpTo(made, at)
    BY <2>1 DEF RelayInv
  <2>4. made[at + 1] = "comment" => DataUpTo(made, at + 1) = DataUpTo(made, at)
    BY <1>0, <2>1, NoDatumRead DEF Datum
  <2> QED
    BY <1>2, <2>1, <2>2, <2>3, <2>4
<1>6. CASE Write
  <2>1. made' = made /\ stage = "write"
    BY <1>6 DEF Write
  <2>2. \/ stage' = "end" /\ out' = IF Committed THEN out ELSE <<"header">>
        \/ stage' = "end" /\ out' = out \o pending
        \/ stage' = "flush" /\ at' = at + 1 /\ out' = Append(out \o pending, made[at + 1])
    BY <1>6 DEF Write, Finish, NextEvent
  <2>3. CASE stage' = "end" /\ out' = IF Committed THEN out ELSE <<"header">>
    <3>1. CASE out' = out
      BY <1>2, <2>1, <2>3, <3>1
    <3>2. CASE out = <<>> /\ out' = <<"header">>
      <4>1. DataOf(<<>>) = {}
        BY DEF DataOf
      <4>2. DataOf(<<"header">>) = {}
        BY EventAssumption DEF DataOf
      <4>3. DataOf(out') = DataOf(out) /\ \A i \in DataOf(out) : out'[i] = out[i]
        BY <3>2, <4>1, <4>2
      <4> QED
        BY <2>1, <2>3, <4>3, WordsKeepOrder DEF RelayInv
    <3> QED
      BY <2>3, <3>1, <3>2 DEF Committed
  <2>4. CASE stage' = "end" /\ out' = out \o pending
    <3>1. \A i \in 1..Len(pending) : pending[i] = "comment"
      BY <1>0, ElementOfSeq
    <3>2. DataOf(out') = DataOf(out) /\ \A i \in DataOf(out) : out'[i] = out[i]
      BY <1>0, <2>4, <3>1, WordsAdded DEF Datum
    <3> QED
      BY <2>1, <2>4, <3>2, WordsKeepOrder DEF RelayInv
  <2>5. CASE stage' = "flush" /\ at' = at + 1 /\ out' = Append(out \o pending, made[at + 1])
    BY <2>1, <2>5, EventWritten DEF RelayInv
  <2> QED
    BY <2>2, <2>3, <2>4, <2>5
<1>7. CASE Flush
  <2>1. UNCHANGED <<made, at, out>> /\ stage' \in {"decode", "end"} /\ stage = "flush"
    BY <1>7 DEF Flush, Finish
  <2> QED
    BY <1>2, <2>1 DEF RelayInv
<1>8. CASE StreamResponse
  <2>1. made' = made /\ stage' = "over" /\ out' = IF client = "gone" THEN out ELSE out \o Told
    BY <1>8 DEF StreamResponse
  <2>2. Told \in {<<>>, <<"json">>, <<"error", "done">>}
    BY DEF Told
  <2>3. /\ Told \in Seq(Words) /\ \A i \in 1..Len(Told) : ~Datum(Told[i])
    <3>1. CASE Told = <<>>
      BY <3>1
    <3>2. CASE Told = <<"json">>
      <4>1. <<"json">> \in Seq(Words) /\ Len(<<"json">>) = 1 /\ <<"json">>[1] = "json"
        BY DEF Words
      <4> QED
        BY <3>2, <4>1, EventAssumption DEF Datum
    <3>3. CASE Told = <<"error", "done">>
      <4>1. /\ <<"error", "done">> \in Seq(Words) /\ Len(<<"error", "done">>) = 2
            /\ <<"error", "done">>[1] = "error" /\ <<"error", "done">>[2] = "done"
        BY DEF Words
      <4> QED
        BY <3>3, <4>1, EventAssumption DEF Datum
    <3> QED
      BY <2>2, <3>1, <3>2, <3>3
  <2>4. DataOf(out \o Told) = DataOf(out) /\ \A i \in DataOf(out) : (out \o Told)[i] = out[i]
    BY <1>0, <2>3, WordsAdded
  <2>5. DataOf(out') = DataOf(out) /\ \A i \in DataOf(out) : out'[i] = out[i]
    BY <2>1, <2>4
  <2> QED
    BY <2>1, <2>5, WordsKeepOrder DEF RelayInv
<1> QED
  BY <1>1, <1>3, <1>4, <1>5, <1>6, <1>7, <1>8 DEF StreamNext, HandlerStep

\* The client's n-th datum is the upstream's n-th, for answers of any length:
\* Prime's reading ahead neither loses nor doubles an event (prime.go:36-77,
\* proxy.go:114-183).
THEOREM ChatRelayedInOrder == StreamSpec => []RelayedInOrder
<1>1. ASSUME StreamInit, ChatInv PROVE RelayInv
  <2>1. made = <<>> /\ at = 0 /\ out = <<>>
    BY <1>1 DEF StreamInit
  <2>2. DataOf(<<>>) = {}
    BY DEF DataOf
  <2>3. DataUpTo(<<>>, 0) = Cardinality({})
    BY <2>2 DEF DataUpTo
  <2> QED
    BY <1>1, <2>1, <2>2, <2>3 DEF RelayInv, RelayedInOrder
<1>2. ASSUME RelayInv, [StreamNext]_streamVars, ChatInv' PROVE RelayInv'
  <2>1. CASE UNCHANGED streamVars
    BY <1>2, <2>1 DEF RelayInv, RelayedInOrder, streamVars
  <2> QED
    BY <1>2, <2>1, RelayStep
<1>3. RelayInv => RelayedInOrder
  BY DEF RelayInv
<1> QED
  BY <1>1, <1>2, <1>3, ChatInductive, PTL DEF StreamSpec

(***************************************************************************)
(* A streamed Responses answer: what the client is told                    *)
(***************************************************************************)
ResponseSpec == ResponseInit /\ [][ResponseNext]_responseVars

Ids == {MessageID, ReasoningID} \cup {Given(c) : c \in Calls} \cup {Fallback(c) : c \in Calls}
ToldItems == [id : Ids, size : Nat]
ItemEvents == [type : ItemTypes, index : Nat, item : ToldItems]
BareEvents == {[type |-> "created"], [type |-> "in_progress"], Done}
Terminals == [type : {"terminal"}, status : {"completed", "incomplete", "failed"}, items : Seq(ToldItems)]
EventsTold == ItemEvents \cup BareEvents \cup Terminals

Untold(A, i) == \A x \in Ids : <<i, x>> \notin A
Unfinished(D, i) == \A item \in ToldItems : <<i, item>> \notin D

\* Every item of A was announced, every item of D was finished.
AddedIsTold(s, A) ==
  \A i \in Nat, x \in Ids : <<i, x>> \in A =>
    \E j \in DOMAIN s : s[j].type = "added" /\ s[j].index = i /\ s[j].item.id = x
DoneIsTold(s, D) ==
  \A i \in Nat, item \in ToldItems : <<i, item>> \in D =>
    \E j \in DOMAIN s : s[j].type = "done" /\ s[j].index = i /\ s[j].item = item

\* The events announce the pairs of an index and an id in A, finish the pairs of an
\* index and an item in D, and do not end the stream.
Account(s, A, D) ==
  /\ s \in Seq(EventsTold) /\ WellFormed(s)
  /\ \A j \in DOMAIN s : s[j].type # "terminal"
  /\ \A j \in DOMAIN s : s[j].type \in ItemTypes => <<s[j].index, s[j].item.id>> \in A
  /\ AddedIsTold(s, A)
  /\ \A j \in DOMAIN s : s[j].type = "done" => <<s[j].index, s[j].item>> \in D
  /\ DoneIsTold(s, D)

\* What was told is still told when more follows.
LEMMA StillTold ==
  ASSUME NEW s, NEW t, NEW A, NEW D, AddedIsTold(s, A), DoneIsTold(s, D),
         \A j \in DOMAIN s : j \in DOMAIN t /\ t[j] = s[j]
  PROVE  AddedIsTold(t, A) /\ DoneIsTold(t, D)
<1>1. ASSUME NEW i \in Nat, NEW x \in Ids, <<i, x>> \in A
      PROVE  \E j \in DOMAIN t : t[j].type = "added" /\ t[j].index = i /\ t[j].item.id = x
  <2>1. PICK j \in DOMAIN s : s[j].type = "added" /\ s[j].index = i /\ s[j].item.id = x
    BY <1>1 DEF AddedIsTold
  <2> QED
    BY <2>1
<1>2. ASSUME NEW i \in Nat, NEW item \in ToldItems, <<i, item>> \in D
      PROVE  \E j \in DOMAIN t : t[j].type = "done" /\ t[j].index = i /\ t[j].item = item
  <2>1. PICK j \in DOMAIN s : s[j].type = "done" /\ s[j].index = i /\ s[j].item = item
    BY <1>2 DEF DoneIsTold
  <2> QED
    BY <2>1
<1>3. AddedIsTold(t, A)
  BY <1>1 DEF AddedIsTold
<1>4. DoneIsTold(t, D)
  BY <1>2 DEF DoneIsTold
<1> QED
  BY <1>3, <1>4

\* The kinds of events can be told apart.
LEMMA EventKinds ==
  ASSUME NEW e \in EventsTold
  PROVE  /\ e.type \in ItemTypes => e \in ItemEvents
         /\ e.type = "terminal" => e \in Terminals
         /\ "terminal" \notin ItemTypes
<1>1. "terminal" \notin ItemTypes /\ "created" \notin ItemTypes /\ "in_progress" \notin ItemTypes /\ "[DONE]" \notin ItemTypes
  BY DEF ItemTypes
<1>2. \A w \in BareEvents : w.type \in {"created", "in_progress", "[DONE]"}
  BY DEF BareEvents, Done
<1>3. \A t \in Terminals : t.type = "terminal"
  BY DEF Terminals
<1>4. \A t \in ItemEvents : t.type \in ItemTypes
  BY DEF ItemEvents
<1> QED
  BY <1>1, <1>2, <1>3, <1>4 DEF EventsTold

\* An event about an index and an item of it.
LEMMA EventIs ==
  ASSUME NEW type \in ItemTypes, NEW i \in Nat, NEW x \in Ids, NEW size \in Nat
  PROVE  LET e == Event(type, i, Item(x, size)) IN
         /\ e \in EventsTold /\ e.type = type /\ e.index = i /\ e.item = Item(x, size) /\ e.item.id = x
         /\ Item(x, size) \in ToldItems
  BY DEF Event, Item, EventsTold, ItemEvents, ToldItems

\* Where the events of a longer stream are.
LEMMA Longer ==
  ASSUME NEW S, NEW s \in Seq(S), NEW e \in S
  PROVE  /\ Append(s, e) \in Seq(S) /\ Len(s) \in Nat /\ Len(Append(s, e)) = Len(s) + 1
         /\ DOMAIN s = 1..Len(s) /\ DOMAIN Append(s, e) = 1..(Len(s) + 1)
         /\ (\A j \in 1..Len(s) : Append(s, e)[j] = s[j]) /\ Append(s, e)[Len(s) + 1] = e
         /\ \A j : j \in 1..(Len(s) + 1) <=> j \in 1..Len(s) \/ j = Len(s) + 1
<1>1. Len(s) \in Nat /\ DOMAIN s = 1..Len(s)
  BY LenProperties
<1>2. /\ Append(s, e) \in Seq(S) /\ Len(Append(s, e)) = Len(s) + 1
      /\ (\A j \in 1..Len(s) : Append(s, e)[j] = s[j]) /\ Append(s, e)[Len(s) + 1] = e
  BY AppendProperties
<1>3. DOMAIN Append(s, e) = 1..Len(Append(s, e))
  BY <1>2, LenProperties
<1>4. \A j : j \in 1..(Len(s) + 1) <=> j \in 1..Len(s) \/ j = Len(s) + 1
  BY <1>1
<1> QED
  BY <1>1, <1>2, <1>3, <1>4

\* What one more event must be for the stream to stay well-formed.
LEMMA StaysWellFormed ==
  ASSUME NEW s \in Seq(EventsTold), WellFormed(s), NEW e \in EventsTold,
         \A j \in DOMAIN s : s[j].type = "terminal" => j = Len(s),
         e.type \in ItemTypes =>
           /\ e.type = "added" \/ \E k \in DOMAIN s : Concerns(s[k], e.index) /\ s[k].type = "added"
           /\ \A k \in DOMAIN s : Concerns(s[k], e.index) =>
                s[k].item.id = e.item.id /\ e.type # "added" /\ s[k].type # "done"
  PROVE  WellFormed(Append(s, e))
<1> DEFINE t == Append(s, e)
           n == Len(s)
<1>1. /\ t \in Seq(EventsTold) /\ n \in Nat /\ Len(t) = n + 1
      /\ DOMAIN s = 1..n /\ DOMAIN t = 1..(n + 1)
      /\ (\A j \in 1..n : t[j] = s[j]) /\ t[n + 1] = e
      /\ \A j : j \in 1..(n + 1) <=> j \in 1..n \/ j = n + 1
  BY Longer
<1> HIDE DEF t, n
<1> SUFFICES ASSUME NEW j \in 1..(n + 1)
             PROVE  /\ t[j].type = "terminal" => j + 1 >= n + 1
                    /\ t[j].type \in ItemTypes =>
                         /\ \E k \in 1..j : Concerns(t[k], t[j].index) /\ t[k].type = "added"
                         /\ \A k \in 1..(j - 1) : Concerns(t[k], t[j].index) =>
                              t[k].item.id = t[j].item.id /\ t[j].type # "added" /\ t[k].type # "done"
  BY <1>1 DEF WellFormed, t
<1>2. CASE j \in 1..n
  <2>1. t[j] = s[j] /\ (t[j].type = "terminal" => j + 1 >= n + 1)
    <3>1. t[j] = s[j] /\ (t[j].type = "terminal" => j = n)
      BY <1>1, <1>2 DEF n
    <3> QED
      BY <1>1, <3>1
  <2>2. \A k \in 1..j : k \in 1..n /\ t[k] = s[k]
    BY <1>1, <1>2
  <2>3. \A k \in 1..(j - 1) : k \in 1..j
    BY <1>1, <1>2
  <2>4. s[j].type \in ItemTypes =>
          /\ \E k \in 1..j : Concerns(s[k], s[j].index) /\ s[k].type = "added"
          /\ \A k \in 1..(j - 1) : Concerns(s[k], s[j].index) =>
               s[k].item.id = s[j].item.id /\ s[j].type # "added" /\ s[k].type # "done"
    BY <1>1, <1>2 DEF WellFormed
  <2> QED
    BY <2>1, <2>2, <2>3, <2>4
<1>3. CASE j = n + 1
  <2>1. t[j] = e /\ j + 1 >= n + 1 /\ j \in 1..j
    BY <1>1, <1>3
  <2>2. \A k \in 1..n : k \in 1..j /\ t[k] = s[k]
    BY <1>1, <1>3
  <2>3. \A k \in 1..(j - 1) : k \in 1..n
    BY <1>1, <1>3
  <2>4. e.type \in ItemTypes => \E k \in 1..j : Concerns(t[k], e.index) /\ t[k].type = "added"
    <3> SUFFICES ASSUME e.type \in ItemTypes PROVE \E k \in 1..j : Concerns(t[k], e.index) /\ t[k].type = "added"
      OBVIOUS
    <3>1. CASE e.type = "added"
      <4>1. Concerns(t[j], e.index) /\ t[j].type = "added"
        BY <2>1, <3>1 DEF Concerns
      <4> QED
        BY <2>1, <4>1
    <3>2. CASE e.type # "added"
      <4>1. PICK k \in 1..n : Concerns(s[k], e.index) /\ s[k].type = "added"
        BY <1>1, <3>2
      <4>2. k \in 1..j /\ t[k] = s[k]
        BY <2>2
      <4> QED
        BY <4>1, <4>2
    <3> QED
      BY <3>1, <3>2
  <2> QED
    BY <1>1, <2>1, <2>2, <2>3, <2>4
<1> QED
  BY <1>1, <1>2, <1>3

\* A word that is not about an item leaves the account alone.
LEMMA WordTold ==
  ASSUME NEW s, NEW A, NEW D, Account(s, A, D), NEW e \in BareEvents
  PROVE  Account(Append(s, e), A, D)
<1> DEFINE t == Append(s, e)
           n == Len(s)
<1>1. e \in EventsTold /\ e.type \notin ItemTypes /\ e.type # "terminal" /\ e.type # "added" /\ e.type # "done"
  BY DEF EventsTold, BareEvents, Done, ItemTypes
<1>2. s \in Seq(EventsTold)
  BY DEF Account
<1>3. /\ t \in Seq(EventsTold) /\ n \in Nat /\ Len(t) = n + 1
      /\ DOMAIN s = 1..n /\ DOMAIN t = 1..(n + 1)
      /\ (\A j \in 1..n : t[j] = s[j]) /\ t[n + 1] = e
      /\ \A j : j \in 1..(n + 1) <=> j \in 1..n \/ j = n + 1
  BY <1>1, <1>2, Longer
<1>4. WellFormed(t)
  BY <1>1, StaysWellFormed DEF Account
<1> HIDE DEF t, n
<1>5. AddedIsTold(s, A) /\ DoneIsTold(s, D)
  BY DEF Account
<1>6. AddedIsTold(t, A) /\ DoneIsTold(t, D)
  BY <1>3, <1>5, StillTold
<1> QED
  BY <1>1, <1>3, <1>4, <1>6 DEF Account, t

\* The first word about an index announces it.
LEMMA AddedTold ==
  ASSUME NEW s, NEW A, NEW D, Account(s, A, D), NEW i \in Nat, NEW x \in Ids, NEW size \in Nat, Untold(A, i)
  PROVE  Account(Append(s, Event("added", i, Item(x, size))), A \cup {<<i, x>>}, D)
<1> DEFINE e == Event("added", i, Item(x, size))
           t == Append(s, e)
           n == Len(s)
<1>0. "added" \in ItemTypes
  BY DEF ItemTypes
<1>1. e \in EventsTold /\ e.type = "added" /\ e.index = i /\ e.item.id = x
  BY <1>0, EventIs
<1>2. s \in Seq(EventsTold)
  BY DEF Account
<1> HIDE DEF e
<1>3. /\ t \in Seq(EventsTold) /\ n \in Nat /\ Len(t) = n + 1
      /\ DOMAIN s = 1..n /\ DOMAIN t = 1..(n + 1)
      /\ (\A j \in 1..n : t[j] = s[j]) /\ t[n + 1] = e
      /\ \A j : j \in 1..(n + 1) <=> j \in 1..n \/ j = n + 1
  BY <1>1, <1>2, Longer
<1>4. \A k \in DOMAIN s : ~Concerns(s[k], i)
  <2> SUFFICES ASSUME NEW k \in DOMAIN s, Concerns(s[k], i) PROVE FALSE
    OBVIOUS
  <2>1. s[k] \in EventsTold /\ s[k].type \in ItemTypes /\ s[k].index = i
    BY <1>2, <1>3, ElementOfSeq DEF Concerns
  <2>2. s[k].item.id \in Ids
    BY <2>1, EventKinds DEF ItemEvents, ToldItems
  <2>3. <<i, s[k].item.id>> \in A
    BY <2>1 DEF Account
  <2> QED
    BY <2>2, <2>3 DEF Untold
<1>5. WellFormed(t)
  BY <1>1, <1>4, StaysWellFormed DEF Account
<1> HIDE DEF t, n
<1>6. \A j \in DOMAIN t : t[j].type # "terminal"
  BY <1>1, <1>3 DEF Account
<1>7. \A j \in DOMAIN t : t[j].type \in ItemTypes => <<t[j].index, t[j].item.id>> \in A \cup {<<i, x>>}
  BY <1>1, <1>3 DEF Account
<1>8. AddedIsTold(s, A) /\ DoneIsTold(s, D)
  BY DEF Account
<1>9. AddedIsTold(t, A) /\ DoneIsTold(t, D)
  BY <1>3, <1>8, StillTold
<1>10. ASSUME NEW a \in Nat, NEW y \in Ids, <<a, y>> \in A \cup {<<i, x>>}
      PROVE  \E j \in DOMAIN t : t[j].type = "added" /\ t[j].index = a /\ t[j].item.id = y
  <2>1. CASE <<a, y>> \in A
    BY <1>9, <2>1 DEF AddedIsTold
  <2>2. CASE <<a, y>> = <<i, x>>
    BY <1>1, <1>3, <2>2
  <2> QED
    BY <1>10, <2>1, <2>2
<1>11. \A j \in DOMAIN t : t[j].type = "done" => <<t[j].index, t[j].item>> \in D
  BY <1>1, <1>3 DEF Account
<1>12. AddedIsTold(t, A \cup {<<i, x>>})
  BY <1>10 DEF AddedIsTold
<1> QED
  BY <1>3, <1>5, <1>6, <1>7, <1>11, <1>12, <1>9 DEF Account, t, e

\* A later word about an index that is not finished, under its id.
LEMMA ContinuedWell ==
  ASSUME NEW s, NEW A, NEW D, Account(s, A, D), NEW i \in Nat, NEW x \in Ids, NEW size \in Nat,
         <<i, x>> \in A, Unfinished(D, i), NEW type \in {"part", "delta", "closed", "done"}
  PROVE  WellFormed(Append(s, Event(type, i, Item(x, size))))
<1> DEFINE e == Event(type, i, Item(x, size))
<1>0. type \in ItemTypes /\ type # "added"
  BY DEF ItemTypes
<1>1. e \in EventsTold /\ e.type = type /\ e.index = i /\ e.item.id = x
  BY <1>0, EventIs
<1>2. s \in Seq(EventsTold) /\ Len(s) \in Nat /\ DOMAIN s = 1..Len(s) /\ \A k \in DOMAIN s : s[k] \in EventsTold
  BY LenProperties, ElementOfSeq DEF Account
<1> HIDE DEF e
<1>3. PICK a \in DOMAIN s : s[a].type = "added" /\ s[a].index = i /\ s[a].item.id = x
  <2>1. AddedIsTold(s, A)
    BY DEF Account
  <2> QED
    BY <2>1 DEF AddedIsTold
<1>4. Concerns(s[a], i)
  BY <1>3 DEF Concerns, ItemTypes
<1>5. ASSUME NEW k \in DOMAIN s, Concerns(s[k], i) PROVE s[k].item.id = x /\ s[k].type # "done"
  <2>1. s[k].type \in ItemTypes /\ s[k].index = i /\ s[a].type \in ItemTypes
    BY <1>4, <1>5 DEF Concerns
  <2>2. s[k].item \in ToldItems
    BY <1>2, <2>1, EventKinds DEF ItemEvents
  <2>3. s[k].type # "done"
    BY <2>1, <2>2 DEF Account, Unfinished
  <2>4. a < k \/ a = k \/ k < a
    BY <1>2
  <2>5. CASE a < k
    <3>1. a \in 1..(k - 1)
      BY <1>2, <2>5
    <3> QED
      BY <1>3, <1>4, <2>1, <2>3, <3>1 DEF Account, WellFormed
  <2>6. CASE k < a
    <3>1. k \in 1..(a - 1)
      BY <1>2, <2>6
    <3> QED
      BY <1>3, <1>5, <2>1, <2>3, <3>1 DEF Account, WellFormed
  <2>7. CASE a = k
    BY <1>3, <2>3, <2>7
  <2> QED
    BY <2>4, <2>5, <2>6, <2>7
<1>6. WellFormed(Append(s, e))
  <2>1. WellFormed(s) /\ \A j \in DOMAIN s : s[j].type = "terminal" => j = Len(s)
    BY DEF Account
  <2>2. e.type \in ItemTypes =>
          /\ e.type = "added" \/ \E k \in DOMAIN s : Concerns(s[k], e.index) /\ s[k].type = "added"
          /\ \A k \in DOMAIN s : Concerns(s[k], e.index) =>
               s[k].item.id = e.item.id /\ e.type # "added" /\ s[k].type # "done"
    BY <1>0, <1>1, <1>3, <1>4, <1>5
  <2> QED
    BY <1>1, <1>2, <2>1, <2>2, StaysWellFormed
<1> QED
  BY <1>6 DEF e

\* A word about an item that is neither its first nor its last.
LEMMA MiddleTold ==
  ASSUME NEW s, NEW A, NEW D, Account(s, A, D), NEW i \in Nat, NEW x \in Ids, NEW size \in Nat,
         <<i, x>> \in A, Unfinished(D, i), NEW type \in {"part", "delta", "closed"}
  PROVE  Account(Append(s, Event(type, i, Item(x, size))), A, D)
<1> DEFINE e == Event(type, i, Item(x, size))
           t == Append(s, e)
           n == Len(s)
<1>0. type \in ItemTypes /\ type # "added" /\ type # "done" /\ type # "terminal"
  BY DEF ItemTypes
<1>1. e \in EventsTold /\ e.type = type /\ e.index = i /\ e.item.id = x
  BY <1>0, EventIs
<1>2. s \in Seq(EventsTold)
  BY DEF Account
<1>3. WellFormed(t)
  BY ContinuedWell
<1> HIDE DEF e
<1>4. /\ t \in Seq(EventsTold) /\ n \in Nat /\ Len(t) = n + 1
      /\ DOMAIN s = 1..n /\ DOMAIN t = 1..(n + 1)
      /\ (\A j \in 1..n : t[j] = s[j]) /\ t[n + 1] = e
      /\ \A j : j \in 1..(n + 1) <=> j \in 1..n \/ j = n + 1
  BY <1>1, <1>2, Longer
<1> HIDE DEF t, n
<1>5. AddedIsTold(s, A) /\ DoneIsTold(s, D)
  BY DEF Account
<1>6. AddedIsTold(t, A) /\ DoneIsTold(t, D)
  BY <1>4, <1>5, StillTold
<1> QED
  BY <1>0, <1>1, <1>3, <1>4, <1>6 DEF Account, t, e

\* The last word about an item.
LEMMA DoneTold ==
  ASSUME NEW s, NEW A, NEW D, Account(s, A, D), NEW i \in Nat, NEW x \in Ids, NEW size \in Nat,
         <<i, x>> \in A, Unfinished(D, i)
  PROVE  Account(Append(s, Event("done", i, Item(x, size))), A, D \cup {<<i, Item(x, size)>>})
<1> DEFINE e == Event("done", i, Item(x, size))
           t == Append(s, e)
           n == Len(s)
           E == D \cup {<<i, Item(x, size)>>}
<1>0. "done" \in ItemTypes
  BY DEF ItemTypes
<1>1. e \in EventsTold /\ e.type = "done" /\ e.index = i /\ e.item.id = x /\ e.item = Item(x, size)
  BY <1>0, EventIs
<1>2. s \in Seq(EventsTold)
  BY DEF Account
<1>3. WellFormed(t)
  BY ContinuedWell
<1> HIDE DEF e
<1>4. /\ t \in Seq(EventsTold) /\ n \in Nat /\ Len(t) = n + 1
      /\ DOMAIN s = 1..n /\ DOMAIN t = 1..(n + 1)
      /\ (\A j \in 1..n : t[j] = s[j]) /\ t[n + 1] = e
      /\ \A j : j \in 1..(n + 1) <=> j \in 1..n \/ j = n + 1
  BY <1>1, <1>2, Longer
<1> HIDE DEF t, n
<1>5. \A j \in DOMAIN t : t[j].type # "terminal"
  BY <1>1, <1>4 DEF Account
<1>6. \A j \in DOMAIN t : t[j].type \in ItemTypes => <<t[j].index, t[j].item.id>> \in A
  BY <1>1, <1>4 DEF Account
<1>7. AddedIsTold(s, A) /\ DoneIsTold(s, D)
  BY DEF Account
<1>8. AddedIsTold(t, A) /\ DoneIsTold(t, D)
  BY <1>4, <1>7, StillTold
<1>9. \A j \in DOMAIN t : t[j].type = "done" => <<t[j].index, t[j].item>> \in E
  BY <1>1, <1>4 DEF Account
<1>10. ASSUME NEW a \in Nat, NEW item \in ToldItems, <<a, item>> \in E
       PROVE  \E j \in DOMAIN t : t[j].type = "done" /\ t[j].index = a /\ t[j].item = item
  <2>1. CASE <<a, item>> \in D
    BY <1>8, <2>1 DEF DoneIsTold
  <2>2. CASE <<a, item>> = <<i, Item(x, size)>>
    BY <1>1, <1>4, <2>2
  <2> QED
    BY <1>10, <2>1, <2>2
<1>11. DoneIsTold(t, E)
  BY <1>10 DEF DoneIsTold
<1> HIDE DEF E
<1>12. Account(t, A, E)
  BY <1>3, <1>4, <1>5, <1>6, <1>8, <1>9, <1>11 DEF Account
<1> QED
  BY <1>12 DEF t, e, E

----------------------------------------------------------------------------
CallIds == Ids \cup {NoId}
Finishes == {"", "stop", "length", "content_filter"}
ToolItems == [call : Calls, index : Nat, id : CallIds, args : Nat, added : BOOLEAN]
Convs == [next : Nat, message : Nat \cup {None}, text : Nat, reasoning : Nat \cup {None}, thoughts : Nat,
          tools : Seq(ToolItems), finish : Finishes]

\* Every output index up to the next is the one of the message, of the reasoning or
\* of one tool call.
ConvOK(c) ==
  /\ c \in Convs
  /\ c.message < c.next /\ c.reasoning < c.next /\ (c.message = c.reasoning => c.message = None)
  /\ \A k \in DOMAIN c.tools :
       /\ c.tools[k].index < c.next
       /\ c.tools[k].index # c.message /\ c.tools[k].index # c.reasoning
       /\ c.tools[k].added => c.tools[k].id # NoId
  /\ \A k, l \in DOMAIN c.tools :
       c.tools[k].index = c.tools[l].index \/ c.tools[k].call = c.tools[l].call => k = l
  /\ \A i \in Nat : i < c.next =>
       i = c.message \/ i = c.reasoning \/ \E k \in DOMAIN c.tools : c.tools[k].index = i

\* The indexes that were announced, and under which id.
AnnouncedBy(c) ==
  {p \in Nat \X Ids :
     \/ p = <<c.message, MessageID>>
     \/ p = <<c.reasoning, ReasoningID>>
     \/ \E k \in DOMAIN c.tools : c.tools[k].added /\ p = <<c.tools[k].index, c.tools[k].id>>}

\* What a conversion step leaves behind: a good state and the account of its events.
StepOK(s, c, events) ==
  ConvOK(c) /\ events \in Seq(EventsTold) /\ Account(s \o events, AnnouncedBy(c), {})

\* One more event at the end of a longer stream.
LEMMA OneMore ==
  ASSUME NEW S, NEW s \in Seq(S), NEW u \in Seq(S), NEW e \in S
  PROVE  s \o Append(u, e) = Append(s \o u, e) /\ Append(u, e) \in Seq(S)
<1>1. Append(u, e) = u \o <<e>> /\ Append(u, e) \in Seq(S)
  BY AppendIsConcat, AppendProperties
<1>2. s \o u \in Seq(S) /\ <<e>> \in Seq(S)
  BY ConcatProperties
<1>3. Append(s \o u, e) = (s \o u) \o <<e>>
  BY <1>2, AppendIsConcat
<1>4. (s \o u) \o <<e>> = s \o (u \o <<e>>)
  BY <1>2, ConcatAssociative
<1> QED
  BY <1>1, <1>3, <1>4

\* No or one event after a stream.
LEMMA FewMore ==
  ASSUME NEW S, NEW s \in Seq(S), NEW e \in S
  PROVE  s \o <<>> = s /\ s \o <<e>> = Append(s, e) /\ <<e>> \in Seq(S) /\ <<>> \in Seq(S)
<1>1. s \o <<>> = s
  BY ConcatEmptySeq
<1>2. s \o <<e>> = Append(s, e)
  BY AppendIsConcat
<1> QED
  BY <1>1, <1>2

\* No id that a client is told is the missing one.
LEMMA RealIds == NoId \notin Ids
<1>1. \A x \in Ids : x[1] \in {"msg", "rs", "given", "call"}
  BY DEF Ids, MessageID, ReasoningID, Given, Fallback
<1>2. NoId[1] = ""
  BY DEF NoId
<1> QED
  BY <1>1, <1>2

\* The call's id, once it must have one.
LEMMA CallIDIsKnown ==
  ASSUME NEW t \in ToolItems
  PROVE  CallID(t) \in Ids /\ (t.id # NoId => CallID(t) = t.id)
  BY DEF CallID, ToolItems, CallIds, Ids

\* The next index is nobody's.
LEMMA NextIsFree ==
  ASSUME NEW c, ConvOK(c)
  PROVE  /\ c.next \in Nat /\ Untold(AnnouncedBy(c), c.next)
         /\ c.message # c.next /\ c.reasoning # c.next /\ \A k \in DOMAIN c.tools : c.tools[k].index # c.next
<1>1. c.next \in Nat /\ c.message < c.next /\ c.reasoning < c.next /\ c.message \in Int /\ c.reasoning \in Int
  BY DEF ConvOK, Convs, None
<1>2. \A k \in DOMAIN c.tools : c.tools[k].index \in Nat /\ c.tools[k].index < c.next
  <2>1. c.tools \in Seq(ToolItems)
    BY DEF ConvOK, Convs
  <2>2. \A k \in DOMAIN c.tools : c.tools[k] \in ToolItems
    BY <2>1, LenProperties, ElementOfSeq
  <2> QED
    BY <2>2 DEF ConvOK, ToolItems
<1>3. c.message # c.next /\ c.reasoning # c.next /\ \A k \in DOMAIN c.tools : c.tools[k].index # c.next
  BY <1>1, <1>2
<1>4. Untold(AnnouncedBy(c), c.next)
  BY <1>3 DEF Untold, AnnouncedBy
<1> QED
  BY <1>1, <1>3, <1>4

\* The message takes the next index.
LEMMA MessageOpened ==
  ASSUME NEW c, ConvOK(c), c.message = None
  PROVE  LET d == [c EXCEPT !.message = c.next, !.next = @ + 1] IN
         /\ ConvOK(d) /\ AnnouncedBy(d) = AnnouncedBy(c) \cup {<<c.next, MessageID>>}
         /\ d.message = c.next /\ d.text = c.text /\ d.thoughts = c.thoughts /\ d.tools = c.tools
         /\ d.reasoning = c.reasoning
<1> DEFINE d == [c EXCEPT !.message = c.next, !.next = @ + 1]
<1>1. c \in Convs /\ c.next \in Nat
  BY DEF ConvOK, Convs
<1>2. /\ d \in Convs /\ d.message = c.next /\ d.next = c.next + 1 /\ d.text = c.text /\ d.reasoning = c.reasoning
      /\ d.thoughts = c.thoughts /\ d.tools = c.tools /\ d.finish = c.finish
  <2>1. c.next + 1 \in Nat
    BY <1>1
  <2> DEFINE e == [c EXCEPT !.message = c.next]
  <2>2. d = [e EXCEPT !.next = c.next + 1]
    BY <1>1 DEF Convs
  <2>3. /\ e \in Convs /\ e.message = c.next /\ e.text = c.text /\ e.reasoning = c.reasoning
        /\ e.thoughts = c.thoughts /\ e.tools = c.tools /\ e.finish = c.finish
    BY <1>1 DEF Convs
  <2> HIDE DEF d, e
  <2> QED
    BY <2>1, <2>2, <2>3 DEF Convs
<1> HIDE DEF d
<1>3. c.reasoning \in Int /\ c.reasoning < c.next /\ c.reasoning # c.next
  BY NextIsFree DEF ConvOK, Convs, None
<1>4. \A k \in DOMAIN c.tools : c.tools[k].index \in Nat /\ c.tools[k].index < c.next
  <2>1. c.tools \in Seq(ToolItems)
    BY DEF ConvOK, Convs
  <2>2. \A k \in DOMAIN c.tools : c.tools[k] \in ToolItems
    BY <2>1, LenProperties, ElementOfSeq
  <2> QED
    BY <2>2 DEF ConvOK, ToolItems
<1>5. ConvOK(d)
  <2>1. d.message < d.next /\ d.reasoning < d.next /\ (d.message = d.reasoning => d.message = None)
    BY <1>1, <1>2, <1>3
  <2>2. \A k \in DOMAIN d.tools :
          /\ d.tools[k].index < d.next
          /\ d.tools[k].index # d.message /\ d.tools[k].index # d.reasoning
          /\ d.tools[k].added => d.tools[k].id # NoId
    <3> SUFFICES ASSUME NEW k \in DOMAIN c.tools
                 PROVE  /\ c.tools[k].index < c.next + 1
                        /\ c.tools[k].index # c.next /\ c.tools[k].index # c.reasoning
                        /\ c.tools[k].added => c.tools[k].id # NoId
      BY <1>2
    <3>1. c.tools[k].index < c.next + 1 /\ c.tools[k].index # c.next
      BY <1>1, <1>4
    <3> QED
      BY <3>1 DEF ConvOK
  <2>3. \A k, l \in DOMAIN d.tools :
          d.tools[k].index = d.tools[l].index \/ d.tools[k].call = d.tools[l].call => k = l
    BY <1>2 DEF ConvOK
  <2>4. \A i \in Nat : i < d.next =>
          i = d.message \/ i = d.reasoning \/ \E k \in DOMAIN d.tools : d.tools[k].index = i
    <3> SUFFICES ASSUME NEW i \in Nat, i < c.next + 1
                 PROVE  i = c.next \/ i = c.reasoning \/ \E k \in DOMAIN c.tools : c.tools[k].index = i
      BY <1>2
    <3>1. i < c.next \/ i = c.next
      BY <1>1
    <3>2. i # c.message
      BY DEF None
    <3> QED
      BY <3>1, <3>2 DEF ConvOK
  <2> QED
    BY <1>2, <2>1, <2>2, <2>3, <2>4 DEF ConvOK
<1>6. AnnouncedBy(d) = AnnouncedBy(c) \cup {<<c.next, MessageID>>}
  <2>1. MessageID \in Ids
    BY DEF Ids
  <2>2. <<c.message, MessageID>> \notin Nat \X Ids
    BY DEF None
  <2> QED
    BY <1>1, <1>2, <2>1, <2>2 DEF AnnouncedBy
<1> QED
  BY <1>2, <1>5, <1>6 DEF d

\* So does the reasoning.
LEMMA ReasoningOpened ==
  ASSUME NEW c, ConvOK(c), c.reasoning = None
  PROVE  LET d == [c EXCEPT !.reasoning = c.next, !.next = @ + 1] IN
         /\ ConvOK(d) /\ AnnouncedBy(d) = AnnouncedBy(c) \cup {<<c.next, ReasoningID>>}
         /\ d.reasoning = c.next /\ d.text = c.text /\ d.thoughts = c.thoughts /\ d.tools = c.tools
         /\ d.message = c.message
<1> DEFINE d == [c EXCEPT !.reasoning = c.next, !.next = @ + 1]
<1>1. c \in Convs /\ c.next \in Nat
  BY DEF ConvOK, Convs
<1>2. /\ d \in Convs /\ d.reasoning = c.next /\ d.next = c.next + 1 /\ d.text = c.text /\ d.message = c.message
      /\ d.thoughts = c.thoughts /\ d.tools = c.tools /\ d.finish = c.finish
  <2>1. c.next + 1 \in Nat
    BY <1>1
  <2> DEFINE e == [c EXCEPT !.reasoning = c.next]
  <2>2. d = [e EXCEPT !.next = c.next + 1]
    BY <1>1 DEF Convs
  <2>3. /\ e \in Convs /\ e.reasoning = c.next /\ e.text = c.text /\ e.message = c.message
        /\ e.thoughts = c.thoughts /\ e.tools = c.tools /\ e.finish = c.finish
    BY <1>1 DEF Convs
  <2> HIDE DEF d, e
  <2> QED
    BY <2>1, <2>2, <2>3 DEF Convs
<1> HIDE DEF d
<1>3. c.message \in Int /\ c.message < c.next /\ c.message # c.next
  BY NextIsFree DEF ConvOK, Convs, None
<1>4. \A k \in DOMAIN c.tools : c.tools[k].index \in Nat /\ c.tools[k].index < c.next
  <2>1. c.tools \in Seq(ToolItems)
    BY DEF ConvOK, Convs
  <2>2. \A k \in DOMAIN c.tools : c.tools[k] \in ToolItems
    BY <2>1, LenProperties, ElementOfSeq
  <2> QED
    BY <2>2 DEF ConvOK, ToolItems
<1>5. ConvOK(d)
  <2>1. d.message < d.next /\ d.reasoning < d.next /\ (d.message = d.reasoning => d.message = None)
    BY <1>1, <1>2, <1>3
  <2>2. \A k \in DOMAIN d.tools :
          /\ d.tools[k].index < d.next
          /\ d.tools[k].index # d.message /\ d.tools[k].index # d.reasoning
          /\ d.tools[k].added => d.tools[k].id # NoId
    <3> SUFFICES ASSUME NEW k \in DOMAIN c.tools
                 PROVE  /\ c.tools[k].index < c.next + 1
                        /\ c.tools[k].index # c.message /\ c.tools[k].index # c.next
                        /\ c.tools[k].added => c.tools[k].id # NoId
      BY <1>2
    <3>1. c.tools[k].index < c.next + 1 /\ c.tools[k].index # c.next
      BY <1>1, <1>4
    <3> QED
      BY <3>1 DEF ConvOK
  <2>3. \A k, l \in DOMAIN d.tools :
          d.tools[k].index = d.tools[l].index \/ d.tools[k].call = d.tools[l].call => k = l
    BY <1>2 DEF ConvOK
  <2>4. \A i \in Nat : i < d.next =>
          i = d.message \/ i = d.reasoning \/ \E k \in DOMAIN d.tools : d.tools[k].index = i
    <3> SUFFICES ASSUME NEW i \in Nat, i < c.next + 1
                 PROVE  i = c.message \/ i = c.next \/ \E k \in DOMAIN c.tools : c.tools[k].index = i
      BY <1>2
    <3>1. i < c.next \/ i = c.next
      BY <1>1
    <3>2. i # c.reasoning
      BY DEF None
    <3> QED
      BY <3>1, <3>2 DEF ConvOK
  <2> QED
    BY <1>2, <2>1, <2>2, <2>3, <2>4 DEF ConvOK
<1>6. AnnouncedBy(d) = AnnouncedBy(c) \cup {<<c.next, ReasoningID>>}
  <2>1. ReasoningID \in Ids
    BY DEF Ids
  <2>2. <<c.reasoning, ReasoningID>> \notin Nat \X Ids
    BY DEF None
  <2> QED
    BY <1>1, <1>2, <2>1, <2>2 DEF AnnouncedBy
<1> QED
  BY <1>2, <1>5, <1>6 DEF d

\* A text fragment.
LEMMA TextTold ==
  ASSUME NEW s, NEW c, ConvOK(c), Account(s, AnnouncedBy(c), {})
  PROVE  StepOK(s, EmitTextDelta(c).conv, EmitTextDelta(c).events)
<1> DEFINE o == IF c.message = None THEN OpenMessage(c) ELSE Result(c, <<>>, TRUE)
<1>1. EmitTextDelta(c) =
        IF o.conv.text = TextLimit THEN [o EXCEPT !.ok = FALSE]
        ELSE Result([o.conv EXCEPT !.text = @ + 1],
                    Append(o.events, Event("delta", o.conv.message, Item(MessageID, 1))), TRUE)
  BY DEF EmitTextDelta
<1>2. s \in Seq(EventsTold) /\ MessageID \in Ids /\ <<>> \in Seq(EventsTold)
  BY DEF Account, Ids
<1>3. \E d, ev : o = [conv |-> d, events |-> ev, ok |-> TRUE] /\ ConvOK(d) /\ ev \in Seq(EventsTold) /\ d.message # None
                 /\ Account(s \o ev, AnnouncedBy(d), {})
  <2>1. CASE c.message # None
    <3>1. o = [conv |-> c, events |-> <<>>, ok |-> TRUE]
      BY <2>1 DEF Result
    <3>2. s \o <<>> = s
      BY <1>2, ConcatEmptySeq
    <3> QED
      BY <1>2, <2>1, <3>1, <3>2
  <2>2. CASE c.message = None
    <3> DEFINE d == [c EXCEPT !.message = c.next, !.next = @ + 1]
               a == Event("added", c.next, Item(MessageID, 0))
               b == Event("part", c.next, Item(MessageID, 0))
               ev == <<a, b>>
    <3>1. o = [conv |-> d, events |-> ev, ok |-> TRUE]
      BY <2>2 DEF OpenMessage, Result
    <3>2. ConvOK(d) /\ AnnouncedBy(d) = AnnouncedBy(c) \cup {<<c.next, MessageID>>} /\ d.message = c.next
      BY <2>2, MessageOpened
    <3>3. c.next \in Nat /\ Untold(AnnouncedBy(c), c.next)
      BY NextIsFree
    <3>4. a \in EventsTold /\ b \in EventsTold
      <4>1. "added" \in ItemTypes /\ "part" \in ItemTypes /\ 0 \in Nat
        BY DEF ItemTypes
      <4> QED
        BY <1>2, <3>3, <4>1, EventIs
    <3> HIDE DEF d
    <3>5. Account(Append(s, a), AnnouncedBy(c) \cup {<<c.next, MessageID>>}, {})
      BY <1>2, <3>3, AddedTold
    <3>6. Account(Append(Append(s, a), b), AnnouncedBy(d), {})
      <4>1. <<c.next, MessageID>> \in AnnouncedBy(d) /\ Unfinished({}, c.next)
        BY <3>2 DEF Unfinished
      <4>2. Account(Append(s, a), AnnouncedBy(d), {})
        BY <3>2, <3>5
      <4> HIDE DEF a
      <4> QED
        BY <1>2, <3>3, <4>1, <4>2, MiddleTold
    <3> HIDE DEF a, b
    <3>7. ev \in Seq(EventsTold) /\ s \o ev = Append(Append(s, a), b)
      <4>1. ev = Append(<<a>>, b) /\ <<a>> \in Seq(EventsTold)
        BY <3>4
      <4>2. s \o Append(<<a>>, b) = Append(s \o <<a>>, b) /\ Append(<<a>>, b) \in Seq(EventsTold)
        BY <1>2, <3>4, <4>1, OneMore
      <4>3. s \o <<a>> = Append(s, a)
        BY <1>2, <3>4, FewMore
      <4> QED
        BY <4>1, <4>2, <4>3
    <3>8. d.message # None
      BY <3>2, <3>3 DEF None
    <3> HIDE DEF ev
    <3> QED
      BY <3>1, <3>2, <3>6, <3>7, <3>8
  <2> QED
    BY <2>1, <2>2
<1> HIDE DEF o
<1>4. PICK d, ev : o = [conv |-> d, events |-> ev, ok |-> TRUE] /\ ConvOK(d) /\ ev \in Seq(EventsTold) /\ d.message # None
                   /\ Account(s \o ev, AnnouncedBy(d), {})
  BY <1>3
<1>5. /\ o.conv = d /\ o.events = ev
      /\ [o EXCEPT !.ok = FALSE].conv = d /\ [o EXCEPT !.ok = FALSE].events = ev
  BY <1>4
<1>6. CASE d.text = TextLimit
  <2>1. EmitTextDelta(c).conv = d /\ EmitTextDelta(c).events = ev
    BY <1>1, <1>5, <1>6
  <2> QED
    BY <1>4, <2>1 DEF StepOK
<1>7. CASE d.text # TextLimit
  <2> DEFINE f == [d EXCEPT !.text = @ + 1]
             e == Event("delta", d.message, Item(MessageID, 1))
  <2>1. EmitTextDelta(c).conv = f /\ EmitTextDelta(c).events = Append(ev, e)
    BY <1>1, <1>5, <1>7 DEF Result
  <2>2. d \in Convs /\ d.message \in Nat
    BY <1>4 DEF ConvOK, Convs
  <2>3. /\ f \in Convs /\ f.next = d.next /\ f.message = d.message /\ f.reasoning = d.reasoning
        /\ f.tools = d.tools
    BY <2>2 DEF Convs
  <2>4. ConvOK(f) /\ AnnouncedBy(f) = AnnouncedBy(d)
    <3> HIDE DEF f
    <3> QED
      BY <1>4, <2>3 DEF ConvOK, AnnouncedBy
  <2>5. <<d.message, MessageID>> \in AnnouncedBy(d) /\ Unfinished({}, d.message) /\ 1 \in Nat
    BY <1>2, <2>2 DEF AnnouncedBy, Unfinished
  <2>6. Account(Append(s \o ev, e), AnnouncedBy(d), {})
    BY <1>2, <1>4, <2>2, <2>5, MiddleTold
  <2>7. e \in EventsTold
    <3>1. "delta" \in ItemTypes
      BY DEF ItemTypes
    <3> QED
      BY <1>2, <2>2, <2>5, <3>1, EventIs
  <2> HIDE DEF e, f
  <2>8. s \o Append(ev, e) = Append(s \o ev, e) /\ Append(ev, e) \in Seq(EventsTold)
    BY <1>2, <1>4, <2>7, OneMore
  <2> QED
    BY <2>1, <2>4, <2>6, <2>8 DEF StepOK
<1> QED
  BY <1>6, <1>7
\* A reasoning fragment.
LEMMA ThoughtTold ==
  ASSUME NEW s, NEW c, ConvOK(c), Account(s, AnnouncedBy(c), {})
  PROVE  StepOK(s, EmitReasoningDelta(c).conv, EmitReasoningDelta(c).events)
<1> DEFINE o == IF c.reasoning = None
                  THEN Result([c EXCEPT !.reasoning = c.next, !.next = @ + 1],
                              <<Event("added", c.next, Item(ReasoningID, 0))>>, TRUE)
                  ELSE Result(c, <<>>, TRUE)
<1>1. EmitReasoningDelta(c) =
        IF o.conv.thoughts = TextLimit THEN [o EXCEPT !.ok = FALSE]
        ELSE Result([o.conv EXCEPT !.thoughts = @ + 1],
                    Append(o.events, Event("delta", o.conv.reasoning, Item(ReasoningID, 1))), TRUE)
  BY DEF EmitReasoningDelta
<1>2. s \in Seq(EventsTold) /\ ReasoningID \in Ids /\ <<>> \in Seq(EventsTold)
  BY DEF Account, Ids
<1>3. \E d, ev : o = [conv |-> d, events |-> ev, ok |-> TRUE] /\ ConvOK(d) /\ ev \in Seq(EventsTold) /\ d.reasoning # None
                 /\ Account(s \o ev, AnnouncedBy(d), {})
  <2>1. CASE c.reasoning # None
    <3>1. o = [conv |-> c, events |-> <<>>, ok |-> TRUE]
      BY <2>1 DEF Result
    <3>2. s \o <<>> = s
      BY <1>2, ConcatEmptySeq
    <3> QED
      BY <1>2, <2>1, <3>1, <3>2
  <2>2. CASE c.reasoning = None
    <3> DEFINE d == [c EXCEPT !.reasoning = c.next, !.next = @ + 1]
               a == Event("added", c.next, Item(ReasoningID, 0))
               ev == <<a>>
    <3>1. o = [conv |-> d, events |-> ev, ok |-> TRUE]
      BY <2>2 DEF Result
    <3>2. ConvOK(d) /\ AnnouncedBy(d) = AnnouncedBy(c) \cup {<<c.next, ReasoningID>>} /\ d.reasoning = c.next
      BY <2>2, ReasoningOpened
    <3>3. c.next \in Nat /\ Untold(AnnouncedBy(c), c.next)
      BY NextIsFree
    <3>4. a \in EventsTold
      <4>1. "added" \in ItemTypes /\ 0 \in Nat
        BY DEF ItemTypes
      <4> QED
        BY <1>2, <3>3, <4>1, EventIs
    <3> HIDE DEF d
    <3>5. Account(Append(s, a), AnnouncedBy(c) \cup {<<c.next, ReasoningID>>}, {})
      BY <1>2, <3>3, AddedTold
    <3> HIDE DEF a
    <3>7. ev \in Seq(EventsTold) /\ s \o ev = Append(s, a)
      BY <1>2, <3>4, FewMore
    <3>8. d.reasoning # None
      BY <3>2, <3>3 DEF None
    <3> HIDE DEF ev
    <3> QED
      BY <3>1, <3>2, <3>5, <3>7, <3>8
  <2> QED
    BY <2>1, <2>2
<1> HIDE DEF o
<1>4. PICK d, ev : o = [conv |-> d, events |-> ev, ok |-> TRUE] /\ ConvOK(d) /\ ev \in Seq(EventsTold) /\ d.reasoning # None
                   /\ Account(s \o ev, AnnouncedBy(d), {})
  BY <1>3
<1>5. /\ o.conv = d /\ o.events = ev
      /\ [o EXCEPT !.ok = FALSE].conv = d /\ [o EXCEPT !.ok = FALSE].events = ev
  BY <1>4
<1>6. CASE d.thoughts = TextLimit
  <2>1. EmitReasoningDelta(c).conv = d /\ EmitReasoningDelta(c).events = ev
    BY <1>1, <1>5, <1>6
  <2> QED
    BY <1>4, <2>1 DEF StepOK
<1>7. CASE d.thoughts # TextLimit
  <2> DEFINE f == [d EXCEPT !.thoughts = @ + 1]
             e == Event("delta", d.reasoning, Item(ReasoningID, 1))
  <2>1. EmitReasoningDelta(c).conv = f /\ EmitReasoningDelta(c).events = Append(ev, e)
    BY <1>1, <1>5, <1>7 DEF Result
  <2>2. d \in Convs /\ d.reasoning \in Nat
    BY <1>4 DEF ConvOK, Convs
  <2>3. /\ f \in Convs /\ f.next = d.next /\ f.reasoning = d.reasoning /\ f.message = d.message
        /\ f.tools = d.tools
    BY <2>2 DEF Convs
  <2>4. ConvOK(f) /\ AnnouncedBy(f) = AnnouncedBy(d)
    <3> HIDE DEF f
    <3> QED
      BY <1>4, <2>3 DEF ConvOK, AnnouncedBy
  <2>5. <<d.reasoning, ReasoningID>> \in AnnouncedBy(d) /\ Unfinished({}, d.reasoning) /\ 1 \in Nat
    BY <1>2, <2>2 DEF AnnouncedBy, Unfinished
  <2>6. Account(Append(s \o ev, e), AnnouncedBy(d), {})
    BY <1>2, <1>4, <2>2, <2>5, MiddleTold
  <2>7. e \in EventsTold
    <3>1. "delta" \in ItemTypes
      BY DEF ItemTypes
    <3> QED
      BY <1>2, <2>2, <2>5, <3>1, EventIs
  <2> HIDE DEF e, f
  <2>8. s \o Append(ev, e) = Append(s \o ev, e) /\ Append(ev, e) \in Seq(EventsTold)
    BY <1>2, <1>4, <2>7, OneMore
  <2> QED
    BY <2>1, <2>4, <2>6, <2>8 DEF StepOK
<1> QED
  BY <1>6, <1>7

\* A tool call is changed but keeps its place, and its id once it was announced.
LEMMA ToolChanged ==
  ASSUME NEW c, ConvOK(c), NEW k \in DOMAIN c.tools, NEW u \in ToolItems,
         u.call = c.tools[k].call, u.index = c.tools[k].index, u.added => u.id # NoId,
         c.tools[k].added => u.added /\ u.id = c.tools[k].id
  PROVE  LET d == [c EXCEPT !.tools[k] = u] IN
         /\ ConvOK(d) /\ DOMAIN d.tools = DOMAIN c.tools /\ d.tools[k] = u
         /\ d.tools = [c.tools EXCEPT ![k] = u] /\ d.next = c.next /\ d.message = c.message
         /\ d.reasoning = c.reasoning /\ d.text = c.text /\ d.thoughts = c.thoughts /\ d.finish = c.finish
         /\ AnnouncedBy(d) = AnnouncedBy(c) \cup (IF u.added THEN {<<u.index, u.id>>} ELSE {})
<1> DEFINE v == [c.tools EXCEPT ![k] = u]
           d == [c EXCEPT !.tools = v]
<1>1. c \in Convs /\ c.tools \in Seq(ToolItems)
  BY DEF ConvOK, Convs
<1>2. DOMAIN c.tools = 1..Len(c.tools) /\ Len(c.tools) \in Nat /\ \A l \in DOMAIN c.tools : c.tools[l] \in ToolItems
  BY <1>1, LenProperties, ElementOfSeq
<1>3. /\ v \in Seq(ToolItems) /\ DOMAIN v = DOMAIN c.tools /\ v[k] = u
      /\ \A l \in DOMAIN c.tools : l # k => v[l] = c.tools[l]
  <2>1. k \in 1..Len(c.tools)
    BY <1>2
  <2>2. v \in Seq(ToolItems)
    BY <1>1, <2>1, ExceptSeq
  <2> QED
    BY <2>2
<1>4. [c EXCEPT !.tools[k] = u] = d
  OBVIOUS
<1> HIDE DEF v
<1>5. /\ d \in Convs /\ d.tools = v /\ d.next = c.next /\ d.message = c.message /\ d.reasoning = c.reasoning
      /\ d.text = c.text /\ d.thoughts = c.thoughts /\ d.finish = c.finish
  BY <1>1, <1>3 DEF Convs
<1> HIDE DEF d
<1>6. \A l \in DOMAIN c.tools : /\ v[l].call = c.tools[l].call /\ v[l].index = c.tools[l].index
                                /\ v[l].added => v[l].id # NoId
  BY <1>3 DEF ConvOK
<1>7. ConvOK(d)
  <2>1. /\ d.message < d.next /\ d.reasoning < d.next /\ (d.message = d.reasoning => d.message = None)
    BY <1>5 DEF ConvOK
  <2>2. \A l \in DOMAIN d.tools :
          /\ d.tools[l].index < d.next
          /\ d.tools[l].index # d.message /\ d.tools[l].index # d.reasoning
          /\ d.tools[l].added => d.tools[l].id # NoId
    BY <1>3, <1>5, <1>6 DEF ConvOK
  <2>3. \A l, m \in DOMAIN d.tools :
          d.tools[l].index = d.tools[m].index \/ d.tools[l].call = d.tools[m].call => l = m
    BY <1>3, <1>5, <1>6 DEF ConvOK
  <2>4. \A i \in Nat : i < d.next =>
          i = d.message \/ i = d.reasoning \/ \E l \in DOMAIN d.tools : d.tools[l].index = i
    BY <1>3, <1>5, <1>6 DEF ConvOK
  <2> QED
    BY <1>5, <2>1, <2>2, <2>3, <2>4 DEF ConvOK
<1>8. AnnouncedBy(d) = AnnouncedBy(c) \cup (IF u.added THEN {<<u.index, u.id>>} ELSE {})
  <2>1. u.index \in Nat /\ (u.added => u.id \in Ids)
    BY DEF ToolItems, CallIds
  <2>2. ASSUME NEW p \in Nat \X Ids
        PROVE  (\E l \in DOMAIN v : v[l].added /\ p = <<v[l].index, v[l].id>>)
                 <=> (\E l \in DOMAIN c.tools : c.tools[l].added /\ p = <<c.tools[l].index, c.tools[l].id>>)
                      \/ (u.added /\ p = <<u.index, u.id>>)
    <3>1. ASSUME NEW l \in DOMAIN v, v[l].added, p = <<v[l].index, v[l].id>>
          PROVE  \/ \E m \in DOMAIN c.tools : c.tools[m].added /\ p = <<c.tools[m].index, c.tools[m].id>>
                 \/ u.added /\ p = <<u.index, u.id>>
      <4>1. CASE l = k
        BY <1>3, <3>1, <4>1
      <4>2. CASE l # k
        BY <1>3, <3>1, <4>2
      <4> QED
        BY <4>1, <4>2
    <3>2. ASSUME NEW l \in DOMAIN c.tools, c.tools[l].added, p = <<c.tools[l].index, c.tools[l].id>>
          PROVE  \E m \in DOMAIN v : v[m].added /\ p = <<v[m].index, v[m].id>>
      <4>1. CASE l = k
        BY <1>3, <3>2, <4>1
      <4>2. CASE l # k
        BY <1>3, <3>2, <4>2
      <4> QED
        BY <4>1, <4>2
    <3>3. ASSUME u.added, p = <<u.index, u.id>>
          PROVE  \E m \in DOMAIN v : v[m].added /\ p = <<v[m].index, v[m].id>>
      BY <1>3, <3>3
    <3> QED
      BY <3>1, <3>2, <3>3
  <2>3. u.added => <<u.index, u.id>> \in Nat \X Ids
    BY <2>1
  <2>4. \A p : p \in AnnouncedBy(d) <=> p \in AnnouncedBy(c) \/ (u.added /\ p = <<u.index, u.id>>)
    BY <1>5, <2>2, <2>3 DEF AnnouncedBy
  <2> QED
    BY <2>4
<1> QED
  BY <1>3, <1>4, <1>5, <1>7, <1>8 DEF d, v

\* A call that was not announced is told nothing of.
LEMMA NotYetTold ==
  ASSUME NEW c, ConvOK(c), NEW k \in DOMAIN c.tools
  PROVE  /\ c.tools[k] \in ToolItems
         /\ ~c.tools[k].added => Untold(AnnouncedBy(c), c.tools[k].index)
         /\ c.tools[k].added => <<c.tools[k].index, c.tools[k].id>> \in AnnouncedBy(c)
<1>1. c.tools \in Seq(ToolItems)
  BY DEF ConvOK, Convs
<1>2. c.tools[k] \in ToolItems
  BY <1>1, LenProperties, ElementOfSeq
<1>3. c.tools[k].added => <<c.tools[k].index, c.tools[k].id>> \in AnnouncedBy(c)
  BY <1>2 DEF ConvOK, AnnouncedBy, ToolItems, CallIds
<1>4. ASSUME ~c.tools[k].added, NEW x \in Ids, <<c.tools[k].index, x>> \in AnnouncedBy(c) PROVE FALSE
  <2>1. c.tools[k].index # c.message /\ c.tools[k].index # c.reasoning
    BY DEF ConvOK
  <2>2. PICK l \in DOMAIN c.tools : c.tools[l].added /\ c.tools[l].index = c.tools[k].index
    BY <1>4, <2>1 DEF AnnouncedBy
  <2>3. l = k
    BY <2>2 DEF ConvOK
  <2> QED
    BY <1>4, <2>2, <2>3
<1> QED
  BY <1>2, <1>3, <1>4 DEF Untold

\* A call is announced if it was not yet.
LEMMA ToolAnnounced ==
  ASSUME NEW s, NEW c, ConvOK(c), NEW k \in DOMAIN c.tools, Account(s, AnnouncedBy(c), {})
  PROVE  LET d == EnsureToolAdded(c, k).conv
             u == c.tools[k]
         IN  /\ StepOK(s, d, EnsureToolAdded(c, k).events)
             /\ DOMAIN d.tools = DOMAIN c.tools
             /\ d.tools[k] \in ToolItems /\ d.tools[k].added /\ d.tools[k].index = u.index
             /\ d.tools[k].call = u.call /\ d.tools[k].args = u.args /\ d.tools[k].id = CallID(u)
             /\ \A l \in DOMAIN c.tools : l # k => d.tools[l] = c.tools[l]
             /\ d.next = c.next /\ d.message = c.message /\ d.reasoning = c.reasoning
             /\ d.text = c.text /\ d.thoughts = c.thoughts /\ d.finish = c.finish
<1> DEFINE u == c.tools[k]
<1>1. /\ u \in ToolItems /\ (~u.added => Untold(AnnouncedBy(c), u.index))
      /\ (u.added => u.id # NoId) /\ CallID(u) \in Ids /\ (u.id # NoId => CallID(u) = u.id)
  BY NotYetTold, CallIDIsKnown DEF ConvOK
<1>2. s \in Seq(EventsTold)
  BY DEF Account
<1> HIDE DEF u
<1>3. CASE u.added
  <2>1. EnsureToolAdded(c, k).conv = c /\ EnsureToolAdded(c, k).events = <<>>
    BY <1>3 DEF EnsureToolAdded, Result, u
  <2>2. s \o <<>> = s /\ <<>> \in Seq(EventsTold)
    BY <1>2, ConcatEmptySeq
  <2> QED
    BY <1>1, <1>3, <2>1, <2>2 DEF StepOK, u
<1>4. CASE ~u.added
  <2> DEFINE w == PinnedID(u)
             d == [c EXCEPT !.tools[k] = w]
             e == Event("added", u.index, Item(CallID(u), 0))
  <2>1. EnsureToolAdded(c, k).conv = d /\ EnsureToolAdded(c, k).events = <<e>>
    BY <1>4 DEF EnsureToolAdded, Result, u
  <2>2. /\ w \in ToolItems /\ w.added /\ w.index = u.index /\ w.call = u.call /\ w.args = u.args
        /\ w.id = CallID(u) /\ w.id # NoId
    <3>1. CallID(u) # NoId /\ CallID(u) \in CallIds
      BY <1>1, RealIds DEF CallIds
    <3> DEFINE x == CallID(u)
    <3> HIDE DEF x
    <3>2. w = [[u EXCEPT !.added = TRUE] EXCEPT !.id = x]
      BY DEF PinnedID, x
    <3>3. x # NoId /\ x \in CallIds
      BY <3>1 DEF x
    <3> HIDE DEF w
    <3>4. /\ w \in ToolItems /\ w.added /\ w.index = u.index /\ w.call = u.call /\ w.args = u.args
          /\ w.id = x
      BY <1>1, <3>2, <3>3 DEF ToolItems
    <3> QED
      BY <3>3, <3>4 DEF x
  <2> HIDE DEF w
  <2>3. /\ ConvOK(d) /\ DOMAIN d.tools = DOMAIN c.tools /\ d.tools[k] = w
        /\ d.tools = [c.tools EXCEPT ![k] = w] /\ d.next = c.next /\ d.message = c.message
        /\ d.reasoning = c.reasoning /\ d.text = c.text /\ d.thoughts = c.thoughts /\ d.finish = c.finish
        /\ AnnouncedBy(d) = AnnouncedBy(c) \cup (IF w.added THEN {<<w.index, w.id>>} ELSE {})
    BY <1>4, <2>2, ToolChanged DEF u
  <2> HIDE DEF d
  <2>4. AnnouncedBy(d) = AnnouncedBy(c) \cup {<<u.index, CallID(u)>>}
    BY <2>2, <2>3
  <2>5. u.index \in Nat /\ "added" \in ItemTypes /\ 0 \in Nat
    BY <1>1 DEF ToolItems, ItemTypes
  <2>6. Account(Append(s, e), AnnouncedBy(d), {})
    BY <1>1, <1>4, <2>4, <2>5, AddedTold
  <2>7. e \in EventsTold
    BY <1>1, <2>5, EventIs
  <2> HIDE DEF e
  <2>8. s \o <<e>> = Append(s, e) /\ <<e>> \in Seq(EventsTold)
    BY <1>2, <2>7, FewMore
  <2>9. StepOK(s, d, <<e>>)
    BY <2>3, <2>6, <2>8 DEF StepOK
  <2>10. \A l \in DOMAIN c.tools : l # k => d.tools[l] = c.tools[l]
    BY <2>3
  <2> QED
    BY <2>1, <2>2, <2>3, <2>9, <2>10 DEF u
<1> QED
  BY <1>3, <1>4

\* A call has a place once it was heard of.
LEMMA CallPlaced ==
  ASSUME NEW c, ConvOK(c), NEW call \in Calls
  PROVE  LET m == WithTool(c, call) IN
         /\ ConvOK(m) /\ AnnouncedBy(m) = AnnouncedBy(c)
         /\ \E k \in DOMAIN m.tools : m.tools[k].call = call
         /\ m.message = c.message /\ m.reasoning = c.reasoning
         /\ m.text = c.text /\ m.thoughts = c.thoughts /\ m.finish = c.finish
<1> DEFINE m == WithTool(c, call)
           new == [call |-> call, index |-> c.next, id |-> NoId, args |-> 0, added |-> FALSE]
           v == Append(c.tools, new)
           n == Len(c.tools)
<1>1. CASE \E k \in DOMAIN c.tools : c.tools[k].call = call
  <2>1. m = c
    BY <1>1 DEF WithTool
  <2> QED
    BY <1>1, <2>1
<1>2. CASE ~\E k \in DOMAIN c.tools : c.tools[k].call = call
  <2>1. c \in Convs /\ c.tools \in Seq(ToolItems) /\ c.next \in Nat
    BY DEF ConvOK, Convs
  <2>2. new \in ToolItems /\ new.call = call /\ new.index = c.next /\ ~new.added
    BY <2>1 DEF ToolItems, CallIds
  <2>3. m = [[c EXCEPT !.tools = v] EXCEPT !.next = c.next + 1]
    BY <1>2, <2>1 DEF WithTool, Convs
  <2> HIDE DEF new
  <2>4. /\ v \in Seq(ToolItems) /\ n \in Nat /\ Len(v) = n + 1
        /\ DOMAIN c.tools = 1..n /\ DOMAIN v = 1..(n + 1)
        /\ (\A j \in 1..n : v[j] = c.tools[j]) /\ v[n + 1] = new
        /\ \A j : j \in 1..(n + 1) <=> j \in 1..n \/ j = n + 1
    BY <2>1, <2>2, Longer
  <2> HIDE DEF v, n
  <2>5. /\ m \in Convs /\ m.tools = v /\ m.next = c.next + 1 /\ m.message = c.message
        /\ m.reasoning = c.reasoning /\ m.text = c.text /\ m.thoughts = c.thoughts /\ m.finish = c.finish
    <3> DEFINE e == [c EXCEPT !.tools = v]
    <3>1. /\ e \in Convs /\ e.tools = v /\ e.next = c.next /\ e.message = c.message
          /\ e.reasoning = c.reasoning /\ e.text = c.text /\ e.thoughts = c.thoughts /\ e.finish = c.finish
      BY <2>1, <2>4 DEF Convs
    <3>2. c.next + 1 \in Nat
      BY <2>1
    <3> HIDE DEF e
    <3>3. m = [e EXCEPT !.next = c.next + 1]
      BY <2>3 DEF e
    <3> HIDE DEF m
    <3> QED
      BY <3>1, <3>2, <3>3 DEF Convs
  <2> HIDE DEF m
  <2>6. /\ c.message \in Int /\ c.reasoning \in Int /\ c.message < c.next /\ c.reasoning < c.next
        /\ c.message # c.next /\ c.reasoning # c.next /\ \A k \in DOMAIN c.tools : c.tools[k].index # c.next
    BY NextIsFree DEF ConvOK, Convs, None
  <2>7. \A k \in 1..n : c.tools[k].index \in Nat /\ c.tools[k].index < c.next /\ c.tools[k].call # call
    <3>1. \A k \in 1..n : c.tools[k] \in ToolItems
      BY <2>1, <2>4, ElementOfSeq DEF n
    <3> QED
      BY <1>2, <2>4, <3>1 DEF ConvOK, ToolItems
  <2>8. ConvOK(m)
    <3>1. m.message < m.next /\ m.reasoning < m.next /\ (m.message = m.reasoning => m.message = None)
      <4>1. m.message < m.next /\ m.reasoning < m.next
        BY <2>1, <2>5, <2>6
      <4> QED
        BY <2>5, <4>1 DEF ConvOK
    <3>2. ASSUME NEW l \in DOMAIN m.tools
          PROVE  /\ m.tools[l].index < m.next
                 /\ m.tools[l].index # m.message /\ m.tools[l].index # m.reasoning
                 /\ m.tools[l].added => m.tools[l].id # NoId
      <4>1. CASE l \in 1..n
        <5>1. c.tools[l].index < c.next + 1
          BY <2>1, <2>7, <4>1
        <5> QED
          BY <2>4, <2>5, <4>1, <5>1 DEF ConvOK
      <4>2. CASE l = n + 1
        <5>1. c.next < c.next + 1
          BY <2>1
        <5> QED
          BY <2>2, <2>4, <2>5, <2>6, <4>2, <5>1
      <4> QED
        BY <2>4, <2>5, <4>1, <4>2
    <3>3. ASSUME NEW l \in DOMAIN m.tools, NEW j \in DOMAIN m.tools,
                 m.tools[l].index = m.tools[j].index \/ m.tools[l].call = m.tools[j].call
          PROVE  l = j
      <4>1. CASE l \in 1..n /\ j \in 1..n
        BY <2>4, <2>5, <3>3, <4>1 DEF ConvOK
      <4>2. CASE l = n + 1 /\ j \in 1..n
        BY <2>2, <2>4, <2>5, <2>6, <2>7, <3>3, <4>2
      <4>3. CASE l \in 1..n /\ j = n + 1
        BY <2>2, <2>4, <2>5, <2>6, <2>7, <3>3, <4>3
      <4> QED
        BY <2>4, <2>5, <4>1, <4>2, <4>3
    <3>4. ASSUME NEW i \in Nat, i < m.next
          PROVE  i = m.message \/ i = m.reasoning \/ \E l \in DOMAIN m.tools : m.tools[l].index = i
      <4>1. i < c.next \/ i = c.next
        BY <2>1, <2>5, <3>4
      <4>2. CASE i < c.next
        <5>1. i = c.message \/ i = c.reasoning \/ \E l \in DOMAIN c.tools : c.tools[l].index = i
          BY <4>2 DEF ConvOK
        <5> QED
          BY <2>4, <2>5, <5>1
      <4>3. CASE i = c.next
        BY <2>2, <2>4, <2>5, <4>3
      <4> QED
        BY <4>1, <4>2, <4>3
    <3> QED
      BY <2>5, <3>1, <3>2, <3>3, <3>4 DEF ConvOK
  <2>9. AnnouncedBy(m) = AnnouncedBy(c)
    <3>1. ASSUME NEW p
          PROVE  (\E l \in DOMAIN v : v[l].added /\ p = <<v[l].index, v[l].id>>)
                   <=> (\E l \in DOMAIN c.tools : c.tools[l].added /\ p = <<c.tools[l].index, c.tools[l].id>>)
      BY <2>2, <2>4
    <3> QED
      BY <2>5, <3>1 DEF AnnouncedBy
  <2>10. \E k \in DOMAIN m.tools : m.tools[k].call = call
    BY <2>2, <2>4, <2>5
  <2> QED
    BY <2>5, <2>8, <2>9, <2>10 DEF m
<1> QED
  BY <1>1, <1>2

\* A part of a call: its events, and what becomes of the call.
LEMMA CallTold ==
  ASSUME NEW s, NEW c, ConvOK(c), Account(s, AnnouncedBy(c), {}),
         NEW d, d.call \in Calls, d.id \in CallIds, d.args \in BOOLEAN
  PROVE  LET r == ApplyToolCall(c, d)
             m == WithTool(c, d.call)
             v == r.conv.tools
         IN  /\ StepOK(s, r.conv, r.events)
             /\ \E k \in DOMAIN m.tools :
                  /\ m.tools[k].call = d.call /\ DOMAIN v = DOMAIN m.tools
                  /\ \A l \in DOMAIN m.tools : l # k => v[l] = m.tools[l]
                  /\ v[k].call = d.call
                  /\ r.ok => v[k].args = (IF d.args THEN m.tools[k].args + 1 ELSE m.tools[k].args)
                  /\ m.tools[k].id # NoId => v[k].id = m.tools[k].id
                  /\ m.tools[k].id = NoId /\ d.id # NoId => v[k].id = d.id
                  /\ m.tools[k].id = NoId /\ d.id = NoId => v[k].id \in {NoId, Fallback(d.call)}
             /\ r.conv.message = c.message /\ r.conv.reasoning = c.reasoning
             /\ r.conv.text = c.text /\ r.conv.thoughts = c.thoughts /\ r.conv.finish = c.finish
<1> DEFINE m == WithTool(c, d.call)
           k == CHOOSE i \in DOMAIN m.tools : m.tools[i].call = d.call
           x == IF m.tools[k].id = NoId THEN d.id ELSE m.tools[k].id
           u == [m.tools[k] EXCEPT !.id = x]
           named == [m EXCEPT !.tools[k] = u]
           a == IF named.tools[k].id # NoId \/ d.args THEN EnsureToolAdded(named, k) ELSE Result(named, <<>>, TRUE)
           t == a.conv.tools[k]
           e == Event("delta", t.index, Item(CallID(t), 1))
<1>1. ApplyToolCall(c, d) =
        CASE ~d.args -> a
          [] d.args /\ t.args = TextLimit -> [a EXCEPT !.ok = FALSE]
          [] OTHER -> Result([a.conv EXCEPT !.tools[k].args = @ + 1], Append(a.events, e), TRUE)
  BY DEF ApplyToolCall
<1>2. /\ ConvOK(m) /\ AnnouncedBy(m) = AnnouncedBy(c)
      /\ (\E i \in DOMAIN m.tools : m.tools[i].call = d.call)
      /\ m.message = c.message /\ m.reasoning = c.reasoning
      /\ m.text = c.text /\ m.thoughts = c.thoughts /\ m.finish = c.finish
  <2> DEFINE call == d.call
             w == WithTool(c, call)
  <2>1. call \in Calls
    OBVIOUS
  <2> HIDE DEF call
  <2>2. /\ ConvOK(w) /\ AnnouncedBy(w) = AnnouncedBy(c)
        /\ (\E i \in DOMAIN w.tools : w.tools[i].call = call)
        /\ w.message = c.message /\ w.reasoning = c.reasoning
        /\ w.text = c.text /\ w.thoughts = c.thoughts /\ w.finish = c.finish
    BY <2>1, CallPlaced
  <2> QED
    BY <2>2 DEF call
<1>3. k \in DOMAIN m.tools /\ m.tools[k].call = d.call
  BY <1>2
<1>4. m.tools[k] \in ToolItems /\ (m.tools[k].added => m.tools[k].id # NoId)
  BY <1>2, <1>3, NotYetTold DEF ConvOK
<1> HIDE DEF m, k
<1>5. /\ u \in ToolItems /\ u.call = m.tools[k].call /\ u.index = m.tools[k].index
      /\ u.args = m.tools[k].args /\ u.added = m.tools[k].added /\ u.id = x
  <2>1. x \in CallIds
    BY <1>4 DEF ToolItems
  <2> HIDE DEF x
  <2> QED
    BY <1>4, <2>1 DEF ToolItems
<1>6. (u.added => u.id # NoId) /\ (m.tools[k].added => u.added /\ u.id = m.tools[k].id)
  BY <1>4, <1>5
<1> HIDE DEF u
<1>7. /\ ConvOK(named) /\ DOMAIN named.tools = DOMAIN m.tools /\ named.tools[k] = u
      /\ named.tools = [m.tools EXCEPT ![k] = u] /\ named.next = m.next /\ named.message = m.message
      /\ named.reasoning = m.reasoning /\ named.text = m.text /\ named.thoughts = m.thoughts
      /\ named.finish = m.finish
      /\ AnnouncedBy(named) = AnnouncedBy(m) \cup (IF u.added THEN {<<u.index, u.id>>} ELSE {})
  BY <1>2, <1>3, <1>5, <1>6, ToolChanged
<1> HIDE DEF named
<1>8. AnnouncedBy(named) = AnnouncedBy(c)
  <2>1. m.tools[k].added => <<m.tools[k].index, m.tools[k].id>> \in AnnouncedBy(m)
    BY <1>2, <1>3, NotYetTold
  <2> QED
    BY <1>2, <1>5, <1>6, <1>7, <2>1
<1>9. \A l \in DOMAIN m.tools : l # k => named.tools[l] = m.tools[l]
  BY <1>7
<1>10. s \in Seq(EventsTold) /\ Account(s, AnnouncedBy(named), {})
  BY <1>8 DEF Account
<1>11. CASE ~d.args /\ u.id = NoId
  <2>1. a.conv = named /\ a.events = <<>>
    BY <1>7, <1>11 DEF Result
  <2>2. ApplyToolCall(c, d) = a
    BY <1>1, <1>11
  <2>3. StepOK(s, named, <<>>)
    <3>1. s \o <<>> = s /\ <<>> \in Seq(EventsTold)
      BY <1>10, ConcatEmptySeq
    <3> QED
      BY <1>7, <1>10, <3>1 DEF StepOK
  <2>4. m.tools[k].id = NoId /\ d.id = NoId
    BY <1>5, <1>11
  <2> HIDE DEF a
  <2> QED
    BY <1>2, <1>3, <1>5, <1>7, <1>9, <1>11, <2>1, <2>2, <2>3, <2>4 DEF m
<1>12. CASE d.args \/ u.id # NoId
  <2> DEFINE b == a.conv
  <2>1. a = EnsureToolAdded(named, k)
    BY <1>7, <1>12
  <2>2. k \in DOMAIN named.tools
    BY <1>3, <1>7
  <2>3. /\ StepOK(s, b, a.events)
        /\ DOMAIN b.tools = DOMAIN named.tools
        /\ b.tools[k] \in ToolItems /\ b.tools[k].added /\ b.tools[k].index = u.index
        /\ b.tools[k].call = u.call /\ b.tools[k].args = u.args /\ b.tools[k].id = CallID(u)
        /\ \A l \in DOMAIN named.tools : l # k => b.tools[l] = named.tools[l]
        /\ b.next = named.next /\ b.message = named.message /\ b.reasoning = named.reasoning
        /\ b.text = named.text /\ b.thoughts = named.thoughts /\ b.finish = named.finish
    <3> DEFINE z == EnsureToolAdded(named, k)
               g == z.conv
    <3>1. /\ StepOK(s, g, z.events)
          /\ DOMAIN g.tools = DOMAIN named.tools
          /\ g.tools[k] \in ToolItems /\ g.tools[k].added /\ g.tools[k].index = named.tools[k].index
          /\ g.tools[k].call = named.tools[k].call /\ g.tools[k].args = named.tools[k].args
          /\ g.tools[k].id = CallID(named.tools[k])
          /\ \A l \in DOMAIN named.tools : l # k => g.tools[l] = named.tools[l]
          /\ g.next = named.next /\ g.message = named.message /\ g.reasoning = named.reasoning
          /\ g.text = named.text /\ g.thoughts = named.thoughts /\ g.finish = named.finish
      <4>1. ConvOK(named) /\ Account(s, AnnouncedBy(named), {})
        BY <1>7, <1>10
      <4> QED
        BY <2>2, <4>1, ToolAnnounced
    <3>2. a.events = z.events /\ b = g
      BY <2>1
    <3> HIDE DEF a, b, z, g
    <3> QED
      BY <1>7, <3>1, <3>2
  <2>4. CallID(u) = IF m.tools[k].id # NoId THEN m.tools[k].id
                    ELSE IF d.id # NoId THEN d.id ELSE Fallback(d.call)
    BY <1>3, <1>5 DEF CallID
  <2>8. \A l \in DOMAIN m.tools : l # k => b.tools[l] = m.tools[l]
    <3> HIDE DEF a, b
    <3> QED
      BY <1>7, <1>9, <2>3
  <2>9. /\ b.tools[k].call = d.call /\ b.tools[k].args = m.tools[k].args /\ b.tools[k].id = CallID(u)
        /\ DOMAIN b.tools = DOMAIN m.tools
        /\ b.message = c.message /\ b.reasoning = c.reasoning /\ b.text = c.text
        /\ b.thoughts = c.thoughts /\ b.finish = c.finish
    <3> HIDE DEF a, b
    <3> QED
      BY <1>2, <1>3, <1>5, <1>7, <2>3
  <2>5. CASE ~d.args
    <3>1. ApplyToolCall(c, d).conv = b /\ ApplyToolCall(c, d).events = a.events
      BY <1>1, <2>5
    <3> HIDE DEF a, b
    <3> QED
      BY <1>3, <2>3, <2>4, <2>5, <2>8, <2>9, <3>1 DEF m
  <2>6. CASE d.args /\ t.args = TextLimit
    <3>1. ApplyToolCall(c, d) = [a EXCEPT !.ok = FALSE]
      BY <1>1, <2>6
    <3>2. \E g, ev, ok : a = [conv |-> g, events |-> ev, ok |-> ok]
      BY <2>1 DEF EnsureToolAdded, Result
    <3> HIDE DEF a
    <3>3. /\ ApplyToolCall(c, d).conv = b /\ ApplyToolCall(c, d).events = a.events
          /\ ~ApplyToolCall(c, d).ok
      BY <3>1, <3>2
    <3> HIDE DEF b
    <3> QED
      BY <1>3, <2>3, <2>4, <2>6, <2>8, <2>9, <3>3 DEF m
  <2>7. CASE d.args /\ t.args # TextLimit
    <3> DEFINE w == [t EXCEPT !.args = @ + 1]
               f == [b EXCEPT !.tools[k] = w]
    <3>1. ApplyToolCall(c, d).conv = f /\ ApplyToolCall(c, d).events = Append(a.events, e)
      <4>1. ApplyToolCall(c, d) = Result([a.conv EXCEPT !.tools[k].args = @ + 1], Append(a.events, e), TRUE)
        BY <1>1, <2>7
      <4> HIDE DEF a
      <4> QED
        BY <4>1 DEF Result
    <3> HIDE DEF a
    <3>2. /\ ConvOK(b) /\ a.events \in Seq(EventsTold) /\ Account(s \o a.events, AnnouncedBy(b), {})
      BY <2>3 DEF StepOK
    <3> HIDE DEF b
    <3>3. t = b.tools[k] /\ k \in DOMAIN b.tools /\ t \in ToolItems /\ t.added
      BY <1>3, <1>7, <2>3 DEF b
    <3> HIDE DEF t
    <3>4. /\ w \in ToolItems /\ w.call = t.call /\ w.index = t.index /\ w.id = t.id /\ w.added = t.added
          /\ w.args = t.args + 1
      <4>1. t.args + 1 \in Nat
        BY <3>3 DEF ToolItems
      <4> QED
        BY <3>3, <4>1 DEF ToolItems
    <3> HIDE DEF w
    <3>5. t.id # NoId
      BY <3>2, <3>3 DEF ConvOK
    <3>6. /\ ConvOK(f) /\ DOMAIN f.tools = DOMAIN b.tools /\ f.tools[k] = w
          /\ f.tools = [b.tools EXCEPT ![k] = w] /\ f.next = b.next /\ f.message = b.message
          /\ f.reasoning = b.reasoning /\ f.text = b.text /\ f.thoughts = b.thoughts /\ f.finish = b.finish
          /\ AnnouncedBy(f) = AnnouncedBy(b) \cup (IF w.added THEN {<<w.index, w.id>>} ELSE {})
      BY <3>2, <3>3, <3>4, <3>5, ToolChanged
    <3> HIDE DEF f
    <3>7. <<t.index, t.id>> \in AnnouncedBy(b) /\ AnnouncedBy(f) = AnnouncedBy(b)
      <4>1. <<t.index, t.id>> \in AnnouncedBy(b)
        BY <3>2, <3>3, NotYetTold
      <4> QED
        BY <3>4, <3>6, <4>1
    <3>8. t.index \in Nat /\ CallID(t) = t.id /\ CallID(t) \in Ids /\ 1 \in Nat /\ "delta" \in ItemTypes
          /\ Unfinished({}, t.index)
      BY <3>3, <3>5, CallIDIsKnown DEF ToolItems, ItemTypes, Unfinished
    <3>9. Account(Append(s \o a.events, e), AnnouncedBy(f), {})
      BY <3>2, <3>7, <3>8, MiddleTold
    <3>10. e \in EventsTold
      BY <3>8, EventIs
    <3> HIDE DEF e
    <3>11. s \o Append(a.events, e) = Append(s \o a.events, e) /\ Append(a.events, e) \in Seq(EventsTold)
      BY <1>10, <3>2, <3>10, OneMore
    <3>12. StepOK(s, f, Append(a.events, e))
      BY <3>6, <3>9, <3>11 DEF StepOK
    <3>13. \A l \in DOMAIN m.tools : l # k => f.tools[l] = m.tools[l]
      BY <1>7, <1>9, <2>3, <3>6 DEF b
    <3>14. /\ f.tools[k].call = d.call /\ f.tools[k].args = m.tools[k].args + 1 /\ f.tools[k].id = CallID(u)
           /\ DOMAIN f.tools = DOMAIN m.tools
           /\ f.message = c.message /\ f.reasoning = c.reasoning /\ f.text = c.text
           /\ f.thoughts = c.thoughts /\ f.finish = c.finish
      BY <2>9, <3>3, <3>4, <3>6 DEF b
    <3> QED
      BY <1>3, <2>4, <2>7, <3>1, <3>12, <3>13, <3>14 DEF m
  <2> QED
    BY <2>5, <2>6, <2>7
<1> QED
  BY <1>11, <1>12

\* What one delta tells.
LEMMA DeltaTold ==
  ASSUME NEW s, NEW c, ConvOK(c), Account(s, AnnouncedBy(c), {}), NEW d \in Deltas
  PROVE  StepOK(s, ApplyDelta(c, d).conv, ApplyDelta(c, d).events)
<1>1. CASE d = Thought
  <2>1. ApplyDelta(c, d) = EmitReasoningDelta(c)
    BY <1>1 DEF ApplyDelta, Thought
  <2> QED
    BY <2>1, ThoughtTold
<1>2. CASE d = Text
  <2>1. ApplyDelta(c, d) = EmitTextDelta(c)
    BY <1>2 DEF ApplyDelta, Text
  <2> QED
    BY <2>1, TextTold
<1>3. ASSUME NEW reason \in {"stop", "length", "content_filter"}, d = FinishReason(reason)
      PROVE  StepOK(s, ApplyDelta(c, d).conv, ApplyDelta(c, d).events)
  <2> DEFINE f == [c EXCEPT !.finish = reason]
  <2>1. ApplyDelta(c, d).conv = f /\ ApplyDelta(c, d).events = <<>>
    BY <1>3 DEF ApplyDelta, FinishReason, Result
  <2>2. c \in Convs
    BY DEF ConvOK
  <2>3. /\ f \in Convs /\ f.next = c.next /\ f.message = c.message /\ f.reasoning = c.reasoning
        /\ f.tools = c.tools
    BY <2>2 DEF Convs, Finishes
  <2> HIDE DEF f
  <2>4. ConvOK(f) /\ AnnouncedBy(f) = AnnouncedBy(c)
    BY <2>3 DEF ConvOK, AnnouncedBy
  <2>5. s \o <<>> = s /\ <<>> \in Seq(EventsTold)
    <3>1. s \in Seq(EventsTold)
      BY DEF Account
    <3> QED
      BY <3>1, ConcatEmptySeq
  <2> QED
    BY <2>1, <2>4, <2>5 DEF StepOK
<1>4. ASSUME NEW call \in Calls, NEW id \in CallIds, NEW args \in BOOLEAN,
             d = [kind |-> "call", call |-> call, id |-> id, args |-> args]
      PROVE  StepOK(s, ApplyDelta(c, d).conv, ApplyDelta(c, d).events)
  <2>1. ApplyDelta(c, d) = ApplyToolCall(c, d)
    BY <1>4 DEF ApplyDelta
  <2>3. d.call \in Calls /\ d.id \in CallIds /\ d.args \in BOOLEAN
    BY <1>4
  <2> QED
    BY <2>1, <2>3, CallTold
<1>5. \/ d = Thought \/ d = Text
      \/ \E reason \in {"stop", "length", "content_filter"} : d = FinishReason(reason)
      \/ \E call \in Calls, id \in CallIds, args \in BOOLEAN :
           d = [kind |-> "call", call |-> call, id |-> id, args |-> args]
  <2>1. CASE \E call \in Calls, named \in BOOLEAN, args \in BOOLEAN :
               d = ToolCall(call, IF named THEN Given(call) ELSE NoId, args)
    <3>1. PICK call \in Calls, named \in BOOLEAN, args \in BOOLEAN :
            d = ToolCall(call, IF named THEN Given(call) ELSE NoId, args)
      BY <2>1
    <3> DEFINE id == IF named THEN Given(call) ELSE NoId
    <3>2. id \in CallIds
      BY DEF CallIds, Ids
    <3>3. d = [kind |-> "call", call |-> call, id |-> id, args |-> args]
      BY <3>1 DEF ToolCall
    <3> HIDE DEF id
    <3> QED
      BY <3>2, <3>3
  <2> QED
    BY <2>1 DEF Deltas
<1> QED
  BY <1>1, <1>2, <1>3, <1>4, <1>5

(***************************************************************************)
(* The end of a streamed Responses answer                                  *)
(***************************************************************************)
\* The two events that end an item.
LEMMA EndedTold ==
  ASSUME NEW s, NEW A, NEW D, Account(s, A, D), NEW i \in Nat, NEW x \in Ids, NEW size \in Nat,
         <<i, x>> \in A, Unfinished(D, i)
  PROVE  /\ Ended(i, Item(x, size)) \in Seq(EventsTold)
         /\ Account(s \o Ended(i, Item(x, size)), A, D \cup {<<i, Item(x, size)>>})
<1> DEFINE a == Event("closed", i, Item(x, size))
           b == Event("done", i, Item(x, size))
<1>1. a \in EventsTold /\ b \in EventsTold
  <2>1. "closed" \in ItemTypes /\ "done" \in ItemTypes
    BY DEF ItemTypes
  <2> QED
    BY <2>1, EventIs
<1>2. Account(Append(s, a), A, D)
  BY MiddleTold
<1>3. Account(Append(Append(s, a), b), A, D \cup {<<i, Item(x, size)>>})
  <2> HIDE DEF a
  <2> QED
    BY <1>2, DoneTold
<1>4. Ended(i, Item(x, size)) = <<a, b>>
  BY DEF Ended
<1> HIDE DEF a, b
<1>5. s \in Seq(EventsTold) /\ <<a>> \in Seq(EventsTold) /\ <<a, b>> = Append(<<a>>, b)
  BY <1>1 DEF Account
<1>6. s \o Append(<<a>>, b) = Append(s \o <<a>>, b) /\ Append(<<a>>, b) \in Seq(EventsTold)
  BY <1>1, <1>5, OneMore
<1>7. s \o <<a>> = Append(s, a)
  BY <1>1, <1>5, FewMore
<1> QED
  BY <1>3, <1>4, <1>5, <1>6, <1>7

\* The message and the reasoning, once they are finished.
MessageDone(c) == {p \in Nat \X ToldItems : p = <<c.message, Item(MessageID, c.text)>>}
ReasoningDone(c) == {p \in Nat \X ToldItems : p = <<c.reasoning, Item(ReasoningID, c.thoughts)>>}

\* The message is closed if there is one.
LEMMA MessageClosed ==
  ASSUME NEW s, NEW c, ConvOK(c), NEW D, Account(s, AnnouncedBy(c), D), Unfinished(D, c.message)
  PROVE  /\ CloseOpenMessage(c) \in Seq(EventsTold)
         /\ Account(s \o CloseOpenMessage(c), AnnouncedBy(c), D \cup MessageDone(c))
<1>1. c.message \in Nat \cup {None} /\ c.text \in Nat /\ MessageID \in Ids
  BY DEF ConvOK, Convs, Ids
<1>2. CASE c.message = None
  <2>1. CloseOpenMessage(c) = <<>> /\ MessageDone(c) = {}
    BY <1>2 DEF CloseOpenMessage, MessageDone, None
  <2>2. s \o <<>> = s /\ <<>> \in Seq(EventsTold)
    <3>1. s \in Seq(EventsTold)
      BY DEF Account
    <3> QED
      BY <3>1, ConcatEmptySeq
  <2> QED
    BY <2>1, <2>2
<1>3. CASE c.message # None
  <2>1. c.message \in Nat /\ <<c.message, MessageID>> \in AnnouncedBy(c)
    BY <1>1, <1>3 DEF AnnouncedBy
  <2>2. CloseOpenMessage(c) = Ended(c.message, Item(MessageID, c.text))
    BY <1>3 DEF CloseOpenMessage
  <2>3. MessageDone(c) = {<<c.message, Item(MessageID, c.text)>>}
    BY <1>1, <2>1 DEF MessageDone, ToldItems, Item
  <2> DEFINE A == AnnouncedBy(c)
             i == c.message
             x == MessageID
             size == c.text
  <2>4. Account(s, A, D) /\ i \in Nat /\ x \in Ids /\ size \in Nat /\ <<i, x>> \in A /\ Unfinished(D, i)
    BY <1>1, <2>1
  <2> HIDE DEF A, i, x, size
  <2>5. Ended(i, Item(x, size)) \in Seq(EventsTold) /\ Account(s \o Ended(i, Item(x, size)), A, D \cup {<<i, Item(x, size)>>})
    BY <2>4, EndedTold
  <2> QED
    BY <2>2, <2>3, <2>5 DEF A, i, x, size
<1> QED
  BY <1>2, <1>3

\* So is the reasoning.
LEMMA ReasoningClosed ==
  ASSUME NEW s, NEW c, ConvOK(c), NEW D, Account(s, AnnouncedBy(c), D), Unfinished(D, c.reasoning)
  PROVE  /\ CloseReasoningItem(c) \in Seq(EventsTold)
         /\ Account(s \o CloseReasoningItem(c), AnnouncedBy(c), D \cup ReasoningDone(c))
<1>1. c.reasoning \in Nat \cup {None} /\ c.thoughts \in Nat /\ ReasoningID \in Ids
  BY DEF ConvOK, Convs, Ids
<1>2. CASE c.reasoning = None
  <2>1. CloseReasoningItem(c) = <<>> /\ ReasoningDone(c) = {}
    BY <1>2 DEF CloseReasoningItem, ReasoningDone, None
  <2>2. s \o <<>> = s /\ <<>> \in Seq(EventsTold)
    <3>1. s \in Seq(EventsTold)
      BY DEF Account
    <3> QED
      BY <3>1, ConcatEmptySeq
  <2> QED
    BY <2>1, <2>2
<1>3. CASE c.reasoning # None
  <2>1. c.reasoning \in Nat /\ <<c.reasoning, ReasoningID>> \in AnnouncedBy(c)
    BY <1>1, <1>3 DEF AnnouncedBy
  <2>2. CloseReasoningItem(c) = Ended(c.reasoning, Item(ReasoningID, c.thoughts))
    BY <1>3 DEF CloseReasoningItem
  <2>3. ReasoningDone(c) = {<<c.reasoning, Item(ReasoningID, c.thoughts)>>}
    BY <1>1, <2>1 DEF ReasoningDone, ToldItems, Item
  <2> DEFINE A == AnnouncedBy(c)
             i == c.reasoning
             x == ReasoningID
             size == c.thoughts
  <2>4. Account(s, A, D) /\ i \in Nat /\ x \in Ids /\ size \in Nat /\ <<i, x>> \in A /\ Unfinished(D, i)
    BY <1>1, <2>1
  <2> HIDE DEF A, i, x, size
  <2>5. Ended(i, Item(x, size)) \in Seq(EventsTold) /\ Account(s \o Ended(i, Item(x, size)), A, D \cup {<<i, Item(x, size)>>})
    BY <2>4, EndedTold
  <2> QED
    BY <2>2, <2>3, <2>5 DEF A, i, x, size
<1> QED
  BY <1>2, <1>3

\* A tool call is closed, and announced before if it was not.
LEMMA ToolClosed ==
  ASSUME NEW s, NEW c, NEW k, c.tools[k] \in ToolItems, NEW A, NEW D, Account(s, A, D),
         c.tools[k].added => <<c.tools[k].index, c.tools[k].id>> \in A /\ c.tools[k].id # NoId,
         ~c.tools[k].added => Untold(A, c.tools[k].index),
         Unfinished(D, c.tools[k].index)
  PROVE  LET t == c.tools[k] IN
         /\ CloseTool(c, k) \in Seq(EventsTold)
         /\ Account(s \o CloseTool(c, k), A \cup {<<t.index, CallID(t)>>},
                    D \cup {<<t.index, Item(CallID(t), t.args)>>})
<1> DEFINE t == c.tools[k]
           B == A \cup {<<t.index, CallID(t)>>}
           open == EnsureToolAdded(c, k).events
           ended == Ended(t.index, Item(CallID(t), t.args))
<1>1. /\ t \in ToolItems /\ t.index \in Nat /\ t.args \in Nat /\ CallID(t) \in Ids
      /\ (t.id # NoId => CallID(t) = t.id) /\ 0 \in Nat /\ "added" \in ItemTypes
  BY CallIDIsKnown DEF ToolItems, ItemTypes
<1>2. s \in Seq(EventsTold)
  BY DEF Account
<1>3. open \in Seq(EventsTold) /\ Account(s \o open, B, D)
  <2>1. CASE t.added
    <3>1. open = <<>>
      BY <2>1 DEF EnsureToolAdded, Result
    <3>2. B = A
      BY <1>1, <2>1
    <3>3. s \o <<>> = s /\ <<>> \in Seq(EventsTold)
      BY <1>2, ConcatEmptySeq
    <3> HIDE DEF open
    <3> QED
      BY <3>1, <3>2, <3>3
  <2>2. CASE ~t.added
    <3> DEFINE e == Event("added", t.index, Item(CallID(t), 0))
    <3>1. open = <<e>>
      BY <2>2 DEF EnsureToolAdded, Result
    <3>2. Account(Append(s, e), B, D)
      BY <1>1, <2>2, AddedTold
    <3>3. e \in EventsTold
      BY <1>1, EventIs
    <3> HIDE DEF e, open
    <3>4. s \o <<e>> = Append(s, e) /\ <<e>> \in Seq(EventsTold)
      BY <1>2, <3>3, FewMore
    <3> QED
      BY <3>1, <3>2, <3>4
  <2> QED
    BY <2>1, <2>2
<1>4. CloseTool(c, k) = open \o ended
  BY DEF CloseTool
<1> HIDE DEF open
<1>5. /\ ended \in Seq(EventsTold)
      /\ Account((s \o open) \o ended, B, D \cup {<<t.index, Item(CallID(t), t.args)>>})
  <2>1. <<t.index, CallID(t)>> \in B
    OBVIOUS
  <2> HIDE DEF B
  <2> QED
    BY <1>1, <1>3, <2>1, EndedTold
<1> HIDE DEF ended
<1>6. (s \o open) \o ended = s \o (open \o ended)
  BY <1>2, <1>3, <1>5, ConcatAssociative
<1>7. open \o ended \in Seq(EventsTold)
  BY <1>3, <1>5, ConcatProperties
<1> QED
  BY <1>4, <1>5, <1>6, <1>7

\* Induction: a set that has 0 and the successor of each natural in it has them all.
LEMMA HasEveryNatural ==
  ASSUME NEW S, 0 \in S, \A n \in Nat : n \in S => n + 1 \in S
  PROVE  Nat \subseteq S
<1> DEFINE T == Nat \ S
<1> SUFFICES ASSUME T # {} PROVE FALSE
  OBVIOUS
<1>1. PICK x \in T : \A y \in T : ~(<<y, x>> \in OpToRel(<, Nat))
  <2>1. T \subseteq Nat
    OBVIOUS
  <2> HIDE DEF T
  <2> QED
    BY <2>1, WFMin, NatLessThanWellFounded
<1>2. x \in Nat /\ x # 0 /\ x - 1 \in Nat /\ x - 1 < x
  OBVIOUS
<1>3. x - 1 \in S
  BY <1>1, <1>2 DEF OpToRel
<1> QED
  BY <1>2, <1>3

\* The closing of the tools is what it says it is, tool by tool.
LEMMA CloseToolsUnfolds ==
  ASSUME NEW c, Len(c.tools) \in Nat
  PROVE  CloseTools(c) = [k \in 0..Len(c.tools) |->
                            IF k = 0 THEN <<>> ELSE CloseTools(c)[k - 1] \o CloseTool(c, k)]
<1> DEFINE Is(f, n) == f = [k \in 0..n |-> IF k = 0 THEN <<>> ELSE f[k - 1] \o CloseTool(c, k)]
           S == {n \in Nat : \E f : Is(f, n)}
<1>1. 0 \in S
  <2>1. Is([k \in 0..0 |-> <<>>], 0)
    OBVIOUS
  <2> QED
    BY <2>1
<1>2. ASSUME NEW n \in Nat, n \in S PROVE n + 1 \in S
  <2>1. PICK f : Is(f, n)
    BY <1>2
  <2> DEFINE g == [k \in 0..(n + 1) |-> IF k = n + 1 THEN f[n] \o CloseTool(c, n + 1) ELSE f[k]]
             h == [k \in 0..(n + 1) |-> IF k = 0 THEN <<>> ELSE g[k - 1] \o CloseTool(c, k)]
  <2>2. ASSUME NEW k \in 0..(n + 1) PROVE g[k] = h[k]
    <3>1. CASE k = n + 1
      <4>1. k # 0 /\ k - 1 = n /\ n \in 0..(n + 1) /\ n # n + 1
        BY <3>1
      <4>2. g[k - 1] = f[n]
        BY <4>1
      <4> QED
        BY <3>1, <4>1, <4>2
    <3>2. CASE k # n + 1
      <4>1. k \in 0..n
        BY <3>2
      <4>2. f[k] = IF k = 0 THEN <<>> ELSE f[k - 1] \o CloseTool(c, k)
        BY <2>1, <4>1
      <4>3. k # 0 => k - 1 \in 0..(n + 1) /\ k - 1 # n + 1
        BY <4>1
      <4>4. k # 0 => g[k - 1] = f[k - 1]
        BY <4>3
      <4> QED
        BY <3>2, <4>2, <4>4
    <3> QED
      BY <3>1, <3>2
  <2>3. g = h
    BY <2>2
  <2>4. Is(g, n + 1)
    BY <2>3
  <2> HIDE DEF g, h
  <2>5. \E e : Is(e, n + 1)
    BY <2>4
  <2>6. n + 1 \in Nat
    OBVIOUS
  <2> QED
    BY <2>5, <2>6
<1>3. Len(c.tools) \in S
  <2>1. \A n \in Nat : n \in S => n + 1 \in S
    BY <1>2
  <2> HIDE DEF S
  <2> QED
    BY <1>1, <2>1, HasEveryNatural
<1>4. \E f : Is(f, Len(c.tools))
  BY <1>3
<1>5. CloseTools(c) = CHOOSE f : Is(f, Len(c.tools))
  BY DEF CloseTools
<1>6. Is(CloseTools(c), Len(c.tools))
  BY <1>4, <1>5
<1> QED
  BY <1>6

\* What the closing of the first tools has announced and finished.
ToolsAnnounced(c, n) == {p \in Nat \X Ids : \E k \in 1..n : p = <<c.tools[k].index, CallID(c.tools[k])>>}
ToolsDone(c, n) ==
  {p \in Nat \X ToldItems :
     \E k \in 1..n : p = <<c.tools[k].index, Item(CallID(c.tools[k]), c.tools[k].args)>>}

\* All tools are closed.
LEMMA ToolsClosed ==
  ASSUME NEW s, NEW c, ConvOK(c), NEW D, Account(s, AnnouncedBy(c), D),
         \A k \in DOMAIN c.tools : Unfinished(D, c.tools[k].index)
  PROVE  /\ CloseTools(c)[Len(c.tools)] \in Seq(EventsTold)
         /\ Account(s \o CloseTools(c)[Len(c.tools)], AnnouncedBy(c) \cup ToolsAnnounced(c, Len(c.tools)),
                    D \cup ToolsDone(c, Len(c.tools)))
<1> DEFINE f == CloseTools(c)
           last == Len(c.tools)
           A(n) == AnnouncedBy(c) \cup ToolsAnnounced(c, n)
           E(n) == D \cup ToolsDone(c, n)
           S == {n \in Nat : n <= last => f[n] \in Seq(EventsTold) /\ Account(s \o f[n], A(n), E(n))}
<1>1. last \in Nat /\ DOMAIN c.tools = 1..last
  <2>1. c.tools \in Seq(ToolItems)
    BY DEF ConvOK, Convs
  <2> QED
    BY <2>1, LenProperties
<1>2. \A k \in 0..last : f[k] = IF k = 0 THEN <<>> ELSE f[k - 1] \o CloseTool(c, k)
  BY <1>1, CloseToolsUnfolds
<1>3. s \in Seq(EventsTold)
  BY DEF Account
<1> HIDE DEF f, last
<1>4. 0 \in S
  <2>1. 0 \in 0..last
    BY <1>1
  <2>2. f[0] = <<>>
    BY <1>2, <2>1
  <2>3. A(0) = AnnouncedBy(c) /\ E(0) = D
    BY DEF ToolsAnnounced, ToolsDone
  <2>4. s \o <<>> = s /\ <<>> \in Seq(EventsTold)
    BY <1>3, ConcatEmptySeq
  <2> QED
    BY <2>2, <2>3, <2>4
<1>5. ASSUME NEW n \in Nat, n \in S PROVE n + 1 \in S
  <2> SUFFICES ASSUME n + 1 <= last
               PROVE  f[n + 1] \in Seq(EventsTold) /\ Account(s \o f[n + 1], A(n + 1), E(n + 1))
    OBVIOUS
  <2> DEFINE k == n + 1
             t == c.tools[k]
  <2>1. k \in 0..last /\ k # 0 /\ k - 1 = n /\ n <= last /\ k \in DOMAIN c.tools /\ \A l \in 1..n : l \in DOMAIN c.tools /\ l # k
    BY <1>1
  <2>2. f[k] = f[n] \o CloseTool(c, k)
    BY <1>2, <2>1
  <2>3. f[n] \in Seq(EventsTold) /\ Account(s \o f[n], A(n), E(n))
    BY <1>5, <2>1
  <2>4. /\ t \in ToolItems /\ (~t.added => Untold(AnnouncedBy(c), t.index))
        /\ (t.added => <<t.index, t.id>> \in AnnouncedBy(c) /\ t.id # NoId) /\ CallID(t) \in Ids
    BY <2>1, NotYetTold, CallIDIsKnown DEF ConvOK
  <2>5. \A l \in 1..n : c.tools[l].index # t.index
    BY <2>1 DEF ConvOK
  <2>6. ~t.added => Untold(A(n), t.index)
    BY <2>4, <2>5 DEF Untold, ToolsAnnounced
  <2>7. Unfinished(E(n), t.index)
    BY <2>1, <2>5 DEF Unfinished, ToolsDone
  <2>8. t.added => <<t.index, t.id>> \in A(n) /\ t.id # NoId
    BY <2>4
  <2>9. t.index \in Nat /\ t.args \in Nat /\ Item(CallID(t), t.args) \in ToldItems
    BY <2>4 DEF ToolItems, Item, ToldItems
  <2>10. \A l : l \in 1..k <=> l \in 1..n \/ l = k
    OBVIOUS
  <2>11. A(k) = A(n) \cup {<<t.index, CallID(t)>>}
    <3> HIDE DEF k
    <3>1. ToolsAnnounced(c, k) = ToolsAnnounced(c, n) \cup {<<t.index, CallID(t)>>}
      BY <2>4, <2>9, <2>10 DEF ToolsAnnounced
    <3> QED
      BY <3>1
  <2>12. E(k) = E(n) \cup {<<t.index, Item(CallID(t), t.args)>>}
    <3> HIDE DEF k
    <3>1. ToolsDone(c, k) = ToolsDone(c, n) \cup {<<t.index, Item(CallID(t), t.args)>>}
      BY <2>4, <2>9, <2>10 DEF ToolsDone
    <3> QED
      BY <3>1
  <2>13. /\ CloseTool(c, k) \in Seq(EventsTold)
         /\ Account((s \o f[n]) \o CloseTool(c, k), A(n) \cup {<<t.index, CallID(t)>>},
                    E(n) \cup {<<t.index, Item(CallID(t), t.args)>>})
    <3> HIDE DEF A, E, k
    <3> QED
      BY <2>3, <2>4, <2>6, <2>7, <2>8, ToolClosed
  <2>14. (s \o f[n]) \o CloseTool(c, k) = s \o f[k] /\ f[k] \in Seq(EventsTold)
    <3> DEFINE z == CloseTool(c, k)
               g == f[n]
    <3>1. s \in Seq(EventsTold) /\ g \in Seq(EventsTold) /\ z \in Seq(EventsTold) /\ f[k] = g \o z
      BY <1>3, <2>2, <2>3, <2>13
    <3> HIDE DEF k, z, g
    <3>2. (s \o g) \o z = s \o (g \o z)
      BY <3>1, ConcatAssociative
    <3>3. g \o z \in Seq(EventsTold)
      BY <3>1, ConcatProperties
    <3> QED
      BY <3>1, <3>2, <3>3 DEF z, g
  <2> HIDE DEF A, E
  <2> QED
    BY <2>11, <2>12, <2>13, <2>14
<1>6. last \in S
  <2>1. \A n \in Nat : n \in S => n + 1 \in S
    BY <1>5
  <2> HIDE DEF S
  <2> QED
    BY <1>1, <1>4, <2>1, HasEveryNatural
<1>7. f[last] \in Seq(EventsTold) /\ Account(s \o f[last], A(last), E(last))
  BY <1>1, <1>6
<1> QED
  BY <1>7 DEF f, last

\* The message and the reasoning are closed, in whichever order.
LEMMA TextsClosed ==
  ASSUME NEW s, NEW c, ConvOK(c), Account(s, AnnouncedBy(c), {}), NEW texts,
         \/ texts = CloseReasoningItem(c) \o CloseOpenMessage(c)
         \/ texts = CloseOpenMessage(c) \o CloseReasoningItem(c)
  PROVE  /\ texts \in Seq(EventsTold)
         /\ Account(s \o texts, AnnouncedBy(c), MessageDone(c) \cup ReasoningDone(c))
<1> DEFINE m == CloseOpenMessage(c)
           r == CloseReasoningItem(c)
<1>1. s \in Seq(EventsTold)
  BY DEF Account
<1>2. Unfinished({}, c.message) /\ Unfinished({}, c.reasoning)
  BY DEF Unfinished
<1>3. c.message = c.reasoning => MessageDone(c) = {} /\ ReasoningDone(c) = {}
  BY DEF ConvOK, None, MessageDone, ReasoningDone
<1>4. Unfinished(MessageDone(c), c.reasoning)
  BY <1>3 DEF Unfinished, MessageDone
<1>5. Unfinished(ReasoningDone(c), c.message)
  BY <1>3 DEF Unfinished, ReasoningDone
<1>6. m \in Seq(EventsTold) /\ r \in Seq(EventsTold)
  BY <1>2, MessageClosed, ReasoningClosed
<1>7. CASE texts = r \o m
  <2>1. Account(s \o r, AnnouncedBy(c), {} \cup ReasoningDone(c))
    BY <1>2, ReasoningClosed
  <2>2. {} \cup ReasoningDone(c) = ReasoningDone(c)
    OBVIOUS
  <2>3. Account((s \o r) \o m, AnnouncedBy(c), ReasoningDone(c) \cup MessageDone(c))
    BY <1>5, <2>1, <2>2, MessageClosed
  <2>4. ReasoningDone(c) \cup MessageDone(c) = MessageDone(c) \cup ReasoningDone(c)
    OBVIOUS
  <2> HIDE DEF m, r
  <2>5. (s \o r) \o m = s \o texts /\ texts \in Seq(EventsTold)
    <3>1. (s \o r) \o m = s \o (r \o m)
      BY <1>1, <1>6, ConcatAssociative
    <3>2. r \o m \in Seq(EventsTold)
      BY <1>6, ConcatProperties
    <3> QED
      BY <1>7, <3>1, <3>2
  <2> QED
    BY <2>3, <2>4, <2>5
<1>8. CASE texts = m \o r
  <2>1. Account(s \o m, AnnouncedBy(c), {} \cup MessageDone(c))
    BY <1>2, MessageClosed
  <2>2. {} \cup MessageDone(c) = MessageDone(c)
    OBVIOUS
  <2>3. Account((s \o m) \o r, AnnouncedBy(c), MessageDone(c) \cup ReasoningDone(c))
    BY <1>4, <2>1, <2>2, ReasoningClosed
  <2> HIDE DEF m, r
  <2>4. (s \o m) \o r = s \o texts /\ texts \in Seq(EventsTold)
    <3>1. (s \o m) \o r = s \o (m \o r)
      BY <1>1, <1>6, ConcatAssociative
    <3>2. m \o r \in Seq(EventsTold)
      BY <1>6, ConcatProperties
    <3> QED
      BY <1>8, <3>1, <3>2
  <2> QED
    BY <2>3, <2>4
<1> QED
  BY <1>7, <1>8

\* The collection of the items is what it says it is, index by index.
LEMMA CollectedUnfolds ==
  ASSUME NEW c, c.next \in Nat
  PROVE  Collected(c) = [n \in 0..c.next |->
                           IF n = 0 THEN <<>>
                           ELSE IF ItemAt(c, n - 1).id = NoId THEN Collected(c)[n - 1]
                           ELSE Append(Collected(c)[n - 1], ItemAt(c, n - 1))]
<1> DEFINE With(q, i) == IF ItemAt(c, i - 1).id = NoId THEN q ELSE Append(q, ItemAt(c, i - 1))
           Is(f, n) == f = [i \in 0..n |-> IF i = 0 THEN <<>> ELSE With(f[i - 1], i)]
           S == {n \in Nat : \E f : Is(f, n)}
<1>5. Collected(c) = CHOOSE f : Is(f, c.next)
  BY DEF Collected
<1>a. ASSUME Is(Collected(c), c.next)
      PROVE  Collected(c) = [n \in 0..c.next |->
                           IF n = 0 THEN <<>>
                           ELSE IF ItemAt(c, n - 1).id = NoId THEN Collected(c)[n - 1]
                           ELSE Append(Collected(c)[n - 1], ItemAt(c, n - 1))]
  BY <1>a
<1> HIDE DEF With
<1>1. 0 \in S
  <2>1. Is([i \in 0..0 |-> <<>>], 0)
    OBVIOUS
  <2> QED
    BY <2>1
<1>2. ASSUME NEW n \in Nat, n \in S PROVE n + 1 \in S
  <2>1. PICK f : Is(f, n)
    BY <1>2
  <2> DEFINE g == [i \in 0..(n + 1) |-> IF i = n + 1 THEN With(f[n], n + 1) ELSE f[i]]
             h == [i \in 0..(n + 1) |-> IF i = 0 THEN <<>> ELSE With(g[i - 1], i)]
  <2>2. ASSUME NEW i \in 0..(n + 1) PROVE g[i] = h[i]
    <3>1. CASE i = n + 1
      <4>1. i # 0 /\ i - 1 = n /\ n \in 0..(n + 1) /\ n # n + 1
        BY <3>1
      <4>2. g[i - 1] = f[n]
        BY <4>1
      <4> QED
        BY <3>1, <4>1, <4>2
    <3>2. CASE i # n + 1
      <4>1. i \in 0..n
        BY <3>2
      <4>2. f[i] = IF i = 0 THEN <<>> ELSE With(f[i - 1], i)
        BY <2>1, <4>1
      <4>3. i # 0 => i - 1 \in 0..(n + 1) /\ i - 1 # n + 1
        BY <4>1
      <4>4. i # 0 => g[i - 1] = f[i - 1]
        BY <4>3
      <4> QED
        BY <3>2, <4>2, <4>4
    <3> QED
      BY <3>1, <3>2
  <2>3. g = h
    BY <2>2
  <2>4. Is(g, n + 1)
    BY <2>3
  <2> HIDE DEF g, h
  <2>5. \E e : Is(e, n + 1)
    BY <2>4
  <2>6. n + 1 \in Nat
    OBVIOUS
  <2> QED
    BY <2>5, <2>6
<1>3. c.next \in S
  <2>1. \A n \in Nat : n \in S => n + 1 \in S
    BY <1>2
  <2> HIDE DEF S
  <2> QED
    BY <1>1, <2>1, HasEveryNatural
<1>4. \E f : Is(f, c.next)
  BY <1>3
<1>6. Is(Collected(c), c.next)
  BY <1>4, <1>5
<1> QED
  BY <1>6, <1>a

\* What is finished when everything is closed.
AllDone(c) == (MessageDone(c) \cup ReasoningDone(c)) \cup ToolsDone(c, Len(c.tools))

\* Every index has its item.
LEMMA ItemIsDone ==
  ASSUME NEW c, ConvOK(c), NEW i \in Nat, i < c.next
  PROVE  /\ ItemAt(c, i) \in ToldItems /\ ItemAt(c, i).id # NoId /\ <<i, ItemAt(c, i)>> \in AllDone(c)
         /\ c.reasoning = i => ItemAt(c, i) = Item(ReasoningID, c.thoughts)
         /\ c.message = i => ItemAt(c, i) = Item(MessageID, c.text)
         /\ \A k \in DOMAIN c.tools : c.tools[k].index = i =>
              ItemAt(c, i) = Item(CallID(c.tools[k]), c.tools[k].args)
<1>1. /\ c.text \in Nat /\ c.thoughts \in Nat /\ MessageID \in Ids /\ ReasoningID \in Ids
      /\ c.tools \in Seq(ToolItems) /\ (c.message = c.reasoning => c.message # i)
  BY DEF ConvOK, Convs, Ids, None
<1>2. DOMAIN c.tools = 1..Len(c.tools)
  BY <1>1, LenProperties
<1>3. \A x \in ToldItems : x.id # NoId
  BY RealIds DEF ToldItems
<1>4. CASE c.reasoning = i
  <2>4. c.message # i /\ \A k \in DOMAIN c.tools : c.tools[k].index # i
    BY <1>1, <1>4 DEF ConvOK
  <2>1. ItemAt(c, i) = Item(ReasoningID, c.thoughts)
    BY <1>4, <2>4 DEF ItemAt
  <2>2. Item(ReasoningID, c.thoughts) \in ToldItems
    BY <1>1 DEF Item, ToldItems
  <2>3. <<i, Item(ReasoningID, c.thoughts)>> \in AllDone(c)
    BY <1>4, <2>2 DEF AllDone, ReasoningDone
  <2> QED
    BY <1>3, <2>1, <2>2, <2>3, <2>4
<1>5. CASE c.message = i
  <2>1. c.reasoning # i /\ \A k \in DOMAIN c.tools : c.tools[k].index # i
    BY <1>1, <1>5 DEF ConvOK
  <2>2. ItemAt(c, i) = Item(MessageID, c.text)
    BY <1>5, <2>1 DEF ItemAt
  <2>3. Item(MessageID, c.text) \in ToldItems
    BY <1>1 DEF Item, ToldItems
  <2>4. <<i, Item(MessageID, c.text)>> \in AllDone(c)
    BY <1>5, <2>3 DEF AllDone, MessageDone
  <2> QED
    BY <1>3, <2>1, <2>2, <2>3, <2>4
<1>6. CASE \E k \in DOMAIN c.tools : c.tools[k].index = i
  <2>1. PICK k \in DOMAIN c.tools : c.tools[k].index = i
    BY <1>6
  <2> DEFINE t == c.tools[k]
             j == CHOOSE l \in DOMAIN c.tools : c.tools[l].index = i
  <2>2. c.reasoning # i /\ c.message # i /\ \A l \in DOMAIN c.tools : c.tools[l].index = i => l = k
    BY <2>1 DEF ConvOK
  <2>3. j = k
    BY <2>1, <2>2
  <2>4. ItemAt(c, i) = LET u == c.tools[j] IN Item(CallID(u), u.args)
    BY <1>6, <2>2 DEF ItemAt
  <2> HIDE DEF j
  <2>5. ItemAt(c, i) = Item(CallID(t), t.args)
    BY <2>3, <2>4
  <2>6. CallID(t) \in Ids /\ t.args \in Nat
    BY NotYetTold, CallIDIsKnown DEF ToolItems
  <2>7. Item(CallID(t), t.args) \in ToldItems
    BY <2>6 DEF Item, ToldItems
  <2>8. <<i, Item(CallID(t), t.args)>> \in ToolsDone(c, Len(c.tools))
    BY <1>2, <2>1, <2>7 DEF ToolsDone
  <2>9. <<i, Item(CallID(t), t.args)>> \in AllDone(c)
    BY <2>8 DEF AllDone
  <2> QED
    BY <1>3, <2>1, <2>2, <2>5, <2>7, <2>9
<1> QED
  BY <1>4, <1>5, <1>6 DEF ConvOK

\* The items are listed in the order of their indexes, without gaps.
LEMMA ItemsListed ==
  ASSUME NEW c, ConvOK(c)
  PROVE  /\ OutputItems(c) \in Seq(ToldItems) /\ c.next \in Nat /\ Len(OutputItems(c)) = c.next
         /\ \A i \in 0..(c.next - 1) : OutputItems(c)[i + 1] = ItemAt(c, i)
<1> DEFINE f == Collected(c)
           Right(n) == f[n] \in Seq(ToldItems) /\ Len(f[n]) = n /\ \A i \in 0..(n - 1) : f[n][i + 1] = ItemAt(c, i)
           S == {n \in Nat : n <= c.next => Right(n)}
<1>1. c.next \in Nat
  BY DEF ConvOK, Convs
<1>2. \A n \in 0..c.next : f[n] = IF n = 0 THEN <<>>
                                  ELSE IF ItemAt(c, n - 1).id = NoId THEN f[n - 1]
                                  ELSE Append(f[n - 1], ItemAt(c, n - 1))
  BY <1>1, CollectedUnfolds
<1> HIDE DEF f
<1>3. 0 \in S
  <2>1. 0 \in 0..c.next
    BY <1>1
  <2>2. f[0] = <<>>
    BY <1>2, <2>1
  <2>3. <<>> \in Seq(ToldItems) /\ Len(<<>>) = 0 /\ 0..(0 - 1) = {}
    OBVIOUS
  <2> QED
    BY <2>2, <2>3
<1>4. ASSUME NEW n \in Nat, n \in S PROVE n + 1 \in S
  <2> SUFFICES ASSUME n + 1 <= c.next PROVE Right(n + 1)
    OBVIOUS
  <2>1. n + 1 \in 0..c.next /\ n + 1 # 0 /\ n + 1 - 1 = n /\ n <= c.next /\ n < c.next
    BY <1>1
  <2>2. ItemAt(c, n) \in ToldItems /\ ItemAt(c, n).id # NoId
    BY <2>1, ItemIsDone
  <2>3. f[n + 1] = Append(f[n], ItemAt(c, n))
    <3> DEFINE k == n + 1
    <3>1. k \in 0..c.next /\ k # 0 /\ k - 1 = n
      BY <2>1
    <3> HIDE DEF k
    <3>2. f[k] = IF ItemAt(c, k - 1).id = NoId THEN f[k - 1] ELSE Append(f[k - 1], ItemAt(c, k - 1))
      BY <1>2, <3>1
    <3>3. f[k] = Append(f[n], ItemAt(c, n))
      BY <2>2, <3>1, <3>2
    <3> QED
      BY <3>3 DEF k
  <2>4. Right(n)
    BY <1>4, <2>1
  <2>5. /\ f[n + 1] \in Seq(ToldItems) /\ Len(f[n + 1]) = n + 1
        /\ (\A i \in 1..n : f[n + 1][i] = f[n][i]) /\ f[n + 1][n + 1] = ItemAt(c, n)
    BY <2>2, <2>3, <2>4, AppendProperties
  <2>6. ASSUME NEW i \in 0..(n + 1 - 1) PROVE f[n + 1][i + 1] = ItemAt(c, i)
    <3>1. CASE i = n
      BY <2>5, <3>1
    <3>2. CASE i # n
      <4>1. i \in 0..(n - 1) /\ i + 1 \in 1..n
        BY <3>2
      <4> QED
        BY <2>4, <2>5, <4>1
    <3> QED
      BY <3>1, <3>2
  <2> QED
    BY <2>5, <2>6
<1>5. c.next \in S
  <2>1. \A n \in Nat : n \in S => n + 1 \in S
    BY <1>4
  <2> HIDE DEF S
  <2> QED
    BY <1>1, <1>3, <2>1, HasEveryNatural
<1>6. Right(c.next)
  BY <1>1, <1>5
<1>7. OutputItems(c) = f[c.next]
  BY DEF OutputItems, f
<1> QED
  BY <1>1, <1>6, <1>7

\* What every part of a stream is, up to wherever the client is lost.
Sound(s, c, failed) ==
  /\ s \in Seq(EventsTold) /\ WellFormed(s) /\ SumsUp(s, c)
  /\ \A j \in DOMAIN s : s[j].type = "terminal" => s[j] = Terminal(c, failed)

\* A stream that has not ended is sound whatever its state.
LEMMA AccountIsSound ==
  ASSUME NEW s, NEW A, NEW D, Account(s, A, D), NEW c, NEW failed
  PROVE  Sound(s, c, failed)
  BY DEF Account, Sound, SumsUp

\* So is what is left of a sound stream when the client is lost.
LEMMA CutIsSound ==
  ASSUME NEW s, NEW c, NEW failed, Sound(s, c, failed), NEW n \in 0..Len(s)
  PROVE  Sound(SubSeq(s, 1, n), c, failed)
<1> DEFINE t == SubSeq(s, 1, n)
<1>1. s \in Seq(EventsTold) /\ Len(s) \in Nat /\ DOMAIN s = 1..Len(s) /\ n \in Nat /\ n <= Len(s)
  BY LenProperties DEF Sound
<1>2. /\ t \in Seq(EventsTold) /\ Len(t) = n /\ DOMAIN t = 1..n /\ \A i \in 1..n : t[i] = s[i]
  <2>1. \A i \in 1..n : s[i] \in EventsTold
    BY <1>1, ElementOfSeq
  <2>2. 1 \in Int /\ n \in Int
    BY <1>1
  <2>3. /\ t \in Seq(EventsTold) /\ Len(t) = (IF 1 <= n THEN n - 1 + 1 ELSE 0)
        /\ \A i \in 1..(n - 1 + 1) : t[i] = s[1 + i - 1]
    BY <2>1, <2>2, SubSeqProperties
  <2> HIDE DEF t
  <2>4. Len(t) = n /\ \A i \in 1..n : t[i] = s[i]
    BY <1>1, <2>3
  <2>5. DOMAIN t = 1..n
    BY <2>3, <2>4, LenProperties
  <2> QED
    BY <2>3, <2>4, <2>5
<1> HIDE DEF t
<1>3. \A j \in 1..n : j \in 1..Len(s) /\ (\A k \in 1..j : k \in 1..n) /\ (\A k \in 1..(j - 1) : k \in 1..n)
  BY <1>1
<1>4. WellFormed(t)
  <2> SUFFICES ASSUME NEW j \in 1..n
               PROVE  /\ t[j].type = "terminal" => j + 1 >= n
                      /\ t[j].type \in ItemTypes =>
                           /\ \E k \in 1..j : Concerns(t[k], t[j].index) /\ t[k].type = "added"
                           /\ \A k \in 1..(j - 1) : Concerns(t[k], t[j].index) =>
                                t[k].item.id = t[j].item.id /\ t[j].type # "added" /\ t[k].type # "done"
    BY <1>2 DEF WellFormed
  <2>1. t[j] = s[j] /\ j \in 1..Len(s)
    BY <1>2, <1>3
  <2>2. /\ s[j].type = "terminal" => j + 1 >= Len(s)
        /\ s[j].type \in ItemTypes =>
             /\ \E k \in 1..j : Concerns(s[k], s[j].index) /\ s[k].type = "added"
             /\ \A k \in 1..(j - 1) : Concerns(s[k], s[j].index) =>
                  s[k].item.id = s[j].item.id /\ s[j].type # "added" /\ s[k].type # "done"
    BY <1>1, <2>1 DEF Sound, WellFormed
  <2>3. s[j].type = "terminal" => j + 1 >= n
    BY <1>1, <2>2
  <2>4. (\A k \in 1..j : t[k] = s[k]) /\ (\A k \in 1..(j - 1) : t[k] = s[k])
    BY <1>2, <1>3
  <2> QED
    BY <2>1, <2>2, <2>3, <2>4
<1>5. SumsUp(t, c)
  <2> SUFFICES ASSUME NEW j \in 1..n, t[j].type = "terminal"
               PROVE  /\ Len(t[j].items) = c.next
                      /\ \A i \in 0..(c.next - 1) : \E k \in 1..(j - 1) :
                           Concerns(t[k], i) /\ t[k].type = "done" /\ t[k].item = t[j].items[i + 1]
    BY <1>2 DEF SumsUp
  <2>1. t[j] = s[j] /\ j \in 1..Len(s)
    BY <1>2, <1>3
  <2>2. /\ Len(s[j].items) = c.next
        /\ \A i \in 0..(c.next - 1) : \E k \in 1..(j - 1) :
             Concerns(s[k], i) /\ s[k].type = "done" /\ s[k].item = s[j].items[i + 1]
    BY <1>1, <2>1 DEF Sound, SumsUp
  <2>3. \A k \in 1..(j - 1) : t[k] = s[k]
    BY <1>2, <1>3
  <2> QED
    BY <2>1, <2>2, <2>3
<1>6. \A j \in DOMAIN t : t[j].type = "terminal" => t[j] = Terminal(c, failed)
  BY <1>1, <1>2, <1>3 DEF Sound
<1> QED
  BY <1>2, <1>4, <1>5, <1>6 DEF Sound, t

\* The whole end of a stream: everything is closed, and the terminal event says so.
LEMMA FinalTold ==
  ASSUME NEW s, NEW c, ConvOK(c), Account(s, AnnouncedBy(c), {}), NEW failed,
         NEW all, all = s \o Finalize(c, failed)
  PROVE  /\ Finalize(c, failed) \in Seq(EventsTold) /\ Sound(all, c, failed)
         /\ \E j \in DOMAIN all : all[j].type = "terminal"
         /\ \E j \in DOMAIN all : all[j] = Done
<1> DEFINE reasoningFirst == c.reasoning # None /\ (c.message = None \/ c.reasoning < c.message)
           texts == IF reasoningFirst THEN CloseReasoningItem(c) \o CloseOpenMessage(c)
                    ELSE CloseOpenMessage(c) \o CloseReasoningItem(c)
           tools == CloseTools(c)[Len(c.tools)]
           closing == texts \o tools
           A == AnnouncedBy(c) \cup ToolsAnnounced(c, Len(c.tools))
           T == Terminal(c, failed)
           u == s \o closing
           v == Append(u, T)
           t == Append(v, Done)
<1>1. Finalize(c, failed) = closing \o <<T, Done>>
  BY DEF Finalize
<1>2. s \in Seq(EventsTold)
  BY DEF Account
<1>3. texts \in Seq(EventsTold) /\ Account(s \o texts, AnnouncedBy(c), MessageDone(c) \cup ReasoningDone(c))
  <2>1. \/ texts = CloseReasoningItem(c) \o CloseOpenMessage(c)
        \/ texts = CloseOpenMessage(c) \o CloseReasoningItem(c)
    OBVIOUS
  <2> HIDE DEF texts
  <2> QED
    BY <2>1, TextsClosed
<1> HIDE DEF texts
<1>4. \A k \in DOMAIN c.tools : Unfinished(MessageDone(c) \cup ReasoningDone(c), c.tools[k].index)
  BY DEF ConvOK, Unfinished, MessageDone, ReasoningDone
<1>5. tools \in Seq(EventsTold) /\ Account((s \o texts) \o tools, A, AllDone(c))
  BY <1>3, <1>4, ToolsClosed DEF AllDone
<1> HIDE DEF tools, A
<1>6. closing \in Seq(EventsTold) /\ (s \o texts) \o tools = u
  <2>1. (s \o texts) \o tools = s \o (texts \o tools)
    BY <1>2, <1>3, <1>5, ConcatAssociative
  <2>2. texts \o tools \in Seq(EventsTold)
    BY <1>3, <1>5, ConcatProperties
  <2> QED
    BY <2>1, <2>2
<1> HIDE DEF closing
<1> HIDE DEF u
<1>7. u \in Seq(EventsTold) /\ Account(u, A, AllDone(c))
  <2>1. Account(u, A, AllDone(c))
    BY <1>5, <1>6
  <2> QED
    BY <2>1 DEF Account
<1>8. /\ OutputItems(c) \in Seq(ToldItems) /\ c.next \in Nat /\ Len(OutputItems(c)) = c.next
      /\ \A i \in 0..(c.next - 1) : OutputItems(c)[i + 1] = ItemAt(c, i)
  BY ItemsListed
<1>9. T \in EventsTold /\ T.type = "terminal" /\ T.items = OutputItems(c) /\ T.type \notin ItemTypes
  <2> DEFINE st == Status(c, failed)
  <2>1. st \in {"completed", "incomplete", "failed"}
    BY DEF Status, StatusForFinishReason
  <2> HIDE DEF st
  <2>2. T = [type |-> "terminal", status |-> st, items |-> OutputItems(c)]
    BY DEF Terminal, st
  <2>3. T \in Terminals
    BY <1>8, <2>1, <2>2 DEF Terminals
  <2>4. "terminal" \notin ItemTypes
    BY DEF ItemTypes
  <2> HIDE DEF T
  <2> QED
    BY <2>2, <2>3, <2>4 DEF EventsTold
<1>10. Done \in EventsTold /\ Done.type = "[DONE]" /\ Done.type \notin ItemTypes /\ Done.type # "terminal"
  BY DEF Done, EventsTold, BareEvents, ItemTypes
<1> HIDE DEF T
<1>11. /\ v \in Seq(EventsTold) /\ Len(u) \in Nat /\ Len(v) = Len(u) + 1
       /\ DOMAIN u = 1..Len(u) /\ DOMAIN v = 1..(Len(u) + 1)
       /\ (\A j \in 1..Len(u) : v[j] = u[j]) /\ v[Len(u) + 1] = T
       /\ \A j : j \in 1..(Len(u) + 1) <=> j \in 1..Len(u) \/ j = Len(u) + 1
  BY <1>7, <1>9, Longer
<1>12. WellFormed(v)
  <2>1. WellFormed(u) /\ \A j \in DOMAIN u : u[j].type = "terminal" => j = Len(u)
    BY <1>7 DEF Account
  <2> QED
    BY <1>7, <1>9, <2>1, StaysWellFormed
<1> HIDE DEF v
<1>13. /\ t \in Seq(EventsTold) /\ Len(v) \in Nat /\ Len(t) = Len(v) + 1
       /\ DOMAIN v = 1..Len(v) /\ DOMAIN t = 1..(Len(v) + 1)
       /\ (\A j \in 1..Len(v) : t[j] = v[j]) /\ t[Len(v) + 1] = Done
       /\ \A j : j \in 1..(Len(v) + 1) <=> j \in 1..Len(v) \/ j = Len(v) + 1
  BY <1>10, <1>11, Longer
<1>14. \A j \in DOMAIN v : v[j].type = "terminal" => j = Len(v)
  BY <1>7, <1>11 DEF Account
<1>15. WellFormed(t)
  BY <1>10, <1>11, <1>12, <1>14, StaysWellFormed
<1> HIDE DEF t
<1>16. s \o Finalize(c, failed) = t /\ Finalize(c, failed) \in Seq(EventsTold)
  <2>1. <<T>> \in Seq(EventsTold) /\ <<T, Done>> = Append(<<T>>, Done) /\ <<T, Done>> \in Seq(EventsTold)
    BY <1>9, <1>10
  <2>2. closing \o <<T>> = Append(closing, T) /\ Append(closing, T) \in Seq(EventsTold)
    BY <1>6, <1>9, FewMore, AppendProperties
  <2>3. closing \o <<T, Done>> = Append(Append(closing, T), Done)
    <3>1. closing \o Append(<<T>>, Done) = Append(closing \o <<T>>, Done)
      BY <1>6, <1>10, <2>1, OneMore
    <3> QED
      BY <2>1, <2>2, <3>1
  <2>4. s \o Append(closing, T) = Append(u, T)
    BY <1>2, <1>6, <1>9, OneMore DEF u
  <2>5. s \o Append(Append(closing, T), Done) = Append(s \o Append(closing, T), Done)
    BY <1>2, <1>10, <2>2, OneMore
  <2>6. closing \o <<T, Done>> \in Seq(EventsTold)
    BY <1>6, <2>1, ConcatProperties
  <2> QED
    BY <1>1, <2>3, <2>4, <2>5, <2>6 DEF t, v
<1>17. \A j \in DOMAIN t : t[j].type = "terminal" => j = Len(u) + 1 /\ t[j] = T
  BY <1>7, <1>10, <1>11, <1>13, <1>14 DEF Account
<1>18. SumsUp(t, c)
  <2> SUFFICES ASSUME NEW j \in DOMAIN t, t[j].type = "terminal"
               PROVE  /\ Len(t[j].items) = c.next
                      /\ \A i \in 0..(c.next - 1) : \E k \in 1..(j - 1) :
                           Concerns(t[k], i) /\ t[k].type = "done" /\ t[k].item = t[j].items[i + 1]
    BY DEF SumsUp
  <2>1. t[j] = T /\ j = Len(u) + 1 /\ Len(t[j].items) = c.next
    BY <1>8, <1>9, <1>17
  <2>2. ASSUME NEW i \in 0..(c.next - 1)
        PROVE  \E k \in 1..(j - 1) : Concerns(t[k], i) /\ t[k].type = "done" /\ t[k].item = t[j].items[i + 1]
    <3>1. i \in Nat /\ i < c.next
      BY <1>8
    <3>2. ItemAt(c, i) \in ToldItems /\ <<i, ItemAt(c, i)>> \in AllDone(c)
      BY <3>1, ItemIsDone
    <3>3. PICK k \in DOMAIN u : u[k].type = "done" /\ u[k].index = i /\ u[k].item = ItemAt(c, i)
      <4>1. DoneIsTold(u, AllDone(c))
        BY <1>7 DEF Account
      <4> QED
        BY <3>1, <3>2, <4>1 DEF DoneIsTold
    <3>4. k \in 1..(j - 1) /\ t[k] = u[k]
      BY <1>11, <1>13, <2>1
    <3>5. t[j].items[i + 1] = ItemAt(c, i)
      BY <1>8, <1>9, <2>1
    <3>6. Concerns(t[k], i)
      BY <3>3, <3>4 DEF Concerns, ItemTypes
    <3> QED
      BY <3>3, <3>4, <3>5, <3>6
  <2> QED
    BY <2>1, <2>2
<1>19. Sound(t, c, failed)
  BY <1>13, <1>15, <1>17, <1>18 DEF Sound, T
<1>20. \E j \in DOMAIN t : t[j].type = "terminal"
  <2>1. Len(u) + 1 \in DOMAIN t /\ t[Len(u) + 1] = T
    BY <1>11, <1>13
  <2> QED
    BY <1>9, <2>1
<1>21. \E j \in DOMAIN t : t[j] = Done
  BY <1>10, <1>13
<1>22. all = t
  BY <1>16
<1> QED
  BY <1>16, <1>19, <1>20, <1>21, <1>22

(***************************************************************************)
(* A streamed Responses answer: the inductive invariant                    *)
(***************************************************************************)
\* What of the events reaches the client is sound, and all of them are all of them.
LEMMA ReachedIsSound ==
  ASSUME NEW s \in Seq(EventsTold), NEW events \in Seq(EventsTold), NEW k \in 0..Len(events),
         NEW c, NEW failed, Sound(s \o events, c, failed)
  PROVE  /\ Sound(s \o SubSeq(events, 1, k), c, failed)
         /\ k = Len(events) => s \o SubSeq(events, 1, k) = s \o events
<1> DEFINE part == SubSeq(events, 1, k)
           all == s \o events
           n == Len(s) + k
<1>1. /\ Len(s) \in Nat /\ Len(events) \in Nat /\ k \in Nat /\ k <= Len(events)
      /\ DOMAIN s = 1..Len(s) /\ DOMAIN events = 1..Len(events)
  BY LenProperties
<1>2. part \in Seq(EventsTold) /\ Len(part) = k /\ \A i \in 1..k : part[i] = events[i]
  <2>1. \A i \in 1..k : events[i] \in EventsTold
    BY <1>1, ElementOfSeq
  <2>2. /\ part \in Seq(EventsTold) /\ Len(part) = (IF 1 <= k THEN k - 1 + 1 ELSE 0)
        /\ \A i \in 1..(k - 1 + 1) : part[i] = events[1 + i - 1]
    BY <1>1, <2>1, SubSeqProperties
  <2> HIDE DEF part
  <2> QED
    BY <1>1, <2>2
<1> HIDE DEF part
<1>3. /\ s \o part \in Seq(EventsTold) /\ Len(s \o part) = n
      /\ \A i \in 1..n : (s \o part)[i] = IF i <= Len(s) THEN s[i] ELSE part[i - Len(s)]
  BY <1>1, <1>2, ConcatProperties
<1>4. /\ all \in Seq(EventsTold) /\ Len(all) = Len(s) + Len(events)
      /\ \A i \in 1..(Len(s) + Len(events)) : all[i] = IF i <= Len(s) THEN s[i] ELSE events[i - Len(s)]
  BY <1>1, ConcatProperties
<1> HIDE DEF all
<1>5. n \in 0..Len(all)
  BY <1>1, <1>4
<1>6. /\ SubSeq(all, 1, n) \in Seq(EventsTold) /\ Len(SubSeq(all, 1, n)) = n
      /\ \A i \in 1..n : SubSeq(all, 1, n)[i] = all[i]
  <2>1. \A i \in 1..n : all[i] \in EventsTold
    BY <1>1, <1>4, <1>5, ElementOfSeq, LenProperties
  <2>2. n \in Int /\ 1 \in Int
    BY <1>1
  <2>3. /\ SubSeq(all, 1, n) \in Seq(EventsTold) /\ Len(SubSeq(all, 1, n)) = (IF 1 <= n THEN n - 1 + 1 ELSE 0)
        /\ \A i \in 1..(n - 1 + 1) : SubSeq(all, 1, n)[i] = all[1 + i - 1]
    BY <2>1, <2>2, SubSeqProperties
  <2> QED
    BY <1>1, <2>3
<1>7. \A i \in 1..n : (s \o part)[i] = all[i]
  <2> TAKE i \in 1..n
  <2>1. i <= Len(s) => (s \o part)[i] = all[i]
    BY <1>1, <1>3, <1>4
  <2>2. ~(i <= Len(s)) => i - Len(s) \in 1..k /\ i \in 1..(Len(s) + Len(events))
    BY <1>1
  <2> QED
    BY <1>2, <1>3, <1>4, <2>1, <2>2
<1>8. s \o part = SubSeq(all, 1, n)
  BY <1>3, <1>6, <1>7, SeqEqual
<1>9. Sound(SubSeq(all, 1, n), c, failed)
  BY <1>5, CutIsSound DEF all
<1>10. k = Len(events) => part = events
  BY <1>1, <1>2, SeqEqual
<1> QED
  BY <1>8, <1>9, <1>10 DEF part

Ends == {"", "done", "eof", "broken", "canceled", "bad"}

\* The state and the events belong together at every point of a stream, and up to
\* the end no terminal event was told.
ResponseInv ==
  /\ progress \in {"new", "streaming", "over", "cut", "closed"}
  /\ said \in Ends
  /\ ConvOK(conv)
  /\ Sound(sent, conv, said # "done")
  /\ progress \in {"new", "streaming"} => said = ""
  /\ progress = "new" => sent = <<>> /\ conv = NoState
  /\ progress = "streaming" => Account(sent, AnnouncedBy(conv), {})
  /\ progress = "over" =>
       /\ \E j \in DOMAIN sent : sent[j].type = "terminal"
       /\ \E j \in DOMAIN sent : sent[j] = Done

\* Before the first event.
LEMMA NothingTold ==
  ConvOK(NoState) /\ Account(<<>>, AnnouncedBy(NoState), {}) /\ <<>> \in Seq(EventsTold)
<1>1. NoState \in Convs /\ NoState.tools = <<>> /\ NoState.next = 0 /\ NoState.message = None /\ NoState.reasoning = None
  BY DEF NoState, Convs, None, Finishes
<1>2. ConvOK(NoState)
  BY <1>1 DEF ConvOK, None
<1>3. AnnouncedBy(NoState) = {}
  BY <1>1 DEF AnnouncedBy, None
<1>4. <<>> \in Seq(EventsTold) /\ DOMAIN <<>> = {}
  OBVIOUS
<1>5. WellFormed(<<>>)
  BY <1>4 DEF WellFormed
<1>6. AddedIsTold(<<>>, {}) /\ DoneIsTold(<<>>, {})
  BY DEF AddedIsTold, DoneIsTold
<1> QED
  BY <1>2, <1>3, <1>4, <1>5, <1>6 DEF Account

\* Before the first event there is nothing to be wrong.
LEMMA ResponseInitInv == ResponseInit => ResponseInv
<1> SUFFICES ASSUME ResponseInit PROVE ResponseInv
  OBVIOUS
<1> DEFINE failed == said # "done"
<1> HIDE DEF failed
<1>1. Sound(sent, conv, failed)
  BY NothingTold, AccountIsSound DEF ResponseInit
<1> QED
  BY <1>1, NothingTold DEF ResponseInit, ResponseInv, Ends, failed

\* The two opening events are about no item.
LEMMA BeginInv ==
  ASSUME ResponseInv, NEW k \in 0..2, Begin(k)
  PROVE  ResponseInv'
<1> DEFINE first == [type |-> "created"]
           second == [type |-> "in_progress"]
           events == <<first, second>>
           failed == said # "done"
<1>1. progress = "new" /\ sent = <<>> /\ conv = NoState /\ said = "" /\ ConvOK(conv)
  BY DEF ResponseInv, Begin
<1>2. Account(<<>>, AnnouncedBy(conv), {}) /\ <<>> \in Seq(EventsTold)
  BY <1>1, NothingTold
<1>3. first \in BareEvents /\ second \in BareEvents /\ first \in EventsTold /\ second \in EventsTold
  BY DEF BareEvents, EventsTold
<1>4. k \in 0..Len(events) /\ sent' = sent \o SubSeq(events, 1, k)
      /\ progress' = (IF k < Len(events) THEN "cut" ELSE "streaming")
      /\ conv' = conv /\ said' = said
  BY DEF Begin, Emit
<1>5. events = Append(Append(<<>>, first), second) /\ events \in Seq(EventsTold) /\ <<>> \o events = events
  BY <1>3
<1> HIDE DEF first, second
<1>6. Account(Append(<<>>, first), AnnouncedBy(conv), {})
  BY <1>2, <1>3, WordTold
<1>7. Account(Append(Append(<<>>, first), second), AnnouncedBy(conv), {})
  BY <1>3, <1>6, WordTold
<1> HIDE DEF events, failed
<1>8. Account(sent \o events, AnnouncedBy(conv), {})
  BY <1>1, <1>5, <1>7
<1>9. Sound(sent \o events, conv, failed)
  BY <1>8, AccountIsSound
<1>10. Sound(sent', conv, failed) /\ (k = Len(events) => sent' = sent \o events)
  BY <1>1, <1>2, <1>4, <1>5, <1>9, ReachedIsSound
<1>11. Len(events) \in Nat
  BY <1>5, LenProperties
<1>12. progress' = "streaming" => k = Len(events)
  BY <1>4, <1>11
<1>13. Sound(sent', conv', said' # "done")
  BY <1>4, <1>10 DEF failed
<1>14. progress' \in {"cut", "streaming"} /\ said' = ""
  BY <1>1, <1>4
<1> QED
  BY <1>1, <1>4, <1>8, <1>10, <1>12, <1>13, <1>14 DEF ResponseInv, Ends

\* One delta, taken in or too much, and wherever the client is lost.
LEMMA DeltaInv ==
  ASSUME ResponseInv, NEW d \in Deltas, NEW k, Delta(d, k)
  PROVE  ResponseInv'
<1> DEFINE r == ApplyDelta(conv, d)
           after == r.conv
           told == r.events
           failed == said # "done"
           lastEvents == Finalize(after, failed)
           events == IF r.ok THEN told ELSE told \o lastEvents
<1>1. progress = "streaming" /\ said = "" /\ ConvOK(conv) /\ Account(sent, AnnouncedBy(conv), {})
  BY DEF ResponseInv, Delta
<1>2. failed = TRUE
  BY <1>1
<1>3. /\ k \in 0..Len(events) /\ sent' = sent \o SubSeq(events, 1, k)
      /\ progress' = (IF k < Len(events) THEN "cut" ELSE IF r.ok THEN "streaming" ELSE "over")
      /\ conv' = after /\ said' = said
  BY <1>2 DEF Delta, Emit
<1>4. StepOK(sent, after, told)
  BY <1>1, DeltaTold
<1> HIDE DEF after, told, failed
<1>5. ConvOK(after) /\ told \in Seq(EventsTold) /\ Account(sent \o told, AnnouncedBy(after), {})
  BY <1>4 DEF StepOK
<1>6. sent \in Seq(EventsTold)
  BY <1>1 DEF Account
<1> DEFINE pre == sent \o told
           all == pre \o lastEvents
<1> HIDE DEF pre
<1>7. /\ lastEvents \in Seq(EventsTold) /\ Sound(all, after, failed)
      /\ \E j \in DOMAIN all : all[j].type = "terminal"
      /\ \E j \in DOMAIN all : all[j] = Done
  <2>1. ConvOK(after) /\ Account(pre, AnnouncedBy(after), {})
    BY <1>5 DEF pre
  <2>2. ASSUME NEW f, NEW x, x = pre \o Finalize(after, f)
        PROVE  /\ Finalize(after, f) \in Seq(EventsTold) /\ Sound(x, after, f)
               /\ \E j \in DOMAIN x : x[j].type = "terminal"
               /\ \E j \in DOMAIN x : x[j] = Done
    <3>1. \A y : y = pre \o Finalize(after, f) =>
            /\ Finalize(after, f) \in Seq(EventsTold) /\ Sound(y, after, f)
            /\ \E j \in DOMAIN y : y[j].type = "terminal"
            /\ \E j \in DOMAIN y : y[j] = Done
      BY <2>1, FinalTold
    <3> QED
      BY <2>2, <3>1
  <2> QED
    BY <2>2
<1> HIDE DEF lastEvents
<1>8. all = sent \o (told \o lastEvents) /\ told \o lastEvents \in Seq(EventsTold)
  <2>1. told \in Seq(EventsTold) /\ lastEvents \in Seq(EventsTold) /\ sent \in Seq(EventsTold)
    BY <1>5, <1>6, <1>7
  <2>2. (sent \o told) \o lastEvents = sent \o (told \o lastEvents)
    BY <2>1, ConcatAssociative
  <2> QED
    BY <2>1, <2>2, ConcatProperties DEF pre
<1> HIDE DEF all
<1>9. Sound(sent \o told, after, failed)
  BY <1>5, AccountIsSound
<1>10. events \in Seq(EventsTold) /\ Sound(sent \o events, after, failed)
  BY <1>5, <1>7, <1>8, <1>9
<1>11. r.ok => events = told
  OBVIOUS
<1>12. ~r.ok => events = told \o lastEvents
  OBVIOUS
<1> HIDE DEF events, r
<1>13. Sound(sent', after, failed) /\ (k = Len(events) => sent' = sent \o events)
  BY <1>3, <1>6, <1>10, ReachedIsSound
<1>14. Len(events) \in Nat
  BY <1>10, LenProperties
<1>15. /\ progress' \in {"cut", "streaming", "over"}
       /\ progress' = "streaming" => sent' = sent \o told
       /\ progress' = "over" => sent' = all
  <2>1. progress' # "cut" => k = Len(events)
    BY <1>3, <1>14
  <2>2. progress' = "streaming" => r.ok
    BY <1>3
  <2>3. progress' = "over" => ~r.ok
    BY <1>3
  <2>4. progress' \in {"cut", "streaming", "over"}
    BY <1>3
  <2> QED
    BY <1>8, <1>11, <1>12, <1>13, <2>1, <2>2, <2>3, <2>4
<1>16. Sound(sent', conv', said' # "done")
  BY <1>3, <1>13 DEF failed
<1>17. progress' = "streaming" => Account(sent', AnnouncedBy(conv'), {})
  BY <1>3, <1>5, <1>15
<1>18. progress' = "over" => /\ \E j \in DOMAIN sent' : sent'[j].type = "terminal"
                             /\ \E j \in DOMAIN sent' : sent'[j] = Done
  BY <1>7, <1>15
<1>19. ConvOK(conv)' /\ said' = ""
  BY <1>1, <1>3, <1>5
<1> QED
  BY <1>15, <1>16, <1>17, <1>18, <1>19 DEF ResponseInv, Ends

\* The upstream's end, and wherever the client is lost.
LEMMA SourceEndsInv ==
  ASSUME ResponseInv, NEW how \in {"done", "eof", "broken", "canceled", "bad"}, NEW k, SourceEnds(how, k)
  PROVE  ResponseInv'
<1> DEFINE failed == how # "done"
           lastEvents == Finalize(conv, failed)
           t == sent \o lastEvents
<1>1. ConvOK(conv) /\ Account(sent, AnnouncedBy(conv), {})
  BY DEF ResponseInv, SourceEnds
<1>2. /\ k \in 0..Len(lastEvents) /\ sent' = sent \o SubSeq(lastEvents, 1, k)
      /\ progress' = (IF k < Len(lastEvents) THEN "cut" ELSE "over")
      /\ conv' = conv /\ said' = how
  BY DEF SourceEnds, Emit
<1> HIDE DEF failed
<1>3. sent \in Seq(EventsTold)
  BY <1>1 DEF Account
<1>4. /\ lastEvents \in Seq(EventsTold) /\ Sound(t, conv, failed)
      /\ \E j \in DOMAIN t : t[j].type = "terminal"
      /\ \E j \in DOMAIN t : t[j] = Done
  <2>1. ASSUME NEW f
        PROVE  /\ Finalize(conv, f) \in Seq(EventsTold) /\ Sound(sent \o Finalize(conv, f), conv, f)
               /\ \E j \in DOMAIN (sent \o Finalize(conv, f)) : (sent \o Finalize(conv, f))[j].type = "terminal"
               /\ \E j \in DOMAIN (sent \o Finalize(conv, f)) : (sent \o Finalize(conv, f))[j] = Done
    <3> DEFINE told == sent \o Finalize(conv, f)
    <3>1. \A x : x = told =>
            /\ Finalize(conv, f) \in Seq(EventsTold) /\ Sound(x, conv, f)
            /\ \E j \in DOMAIN x : x[j].type = "terminal"
            /\ \E j \in DOMAIN x : x[j] = Done
      BY <1>1, FinalTold
    <3> QED
      BY <3>1
  <2> QED
    BY <2>1
<1> HIDE DEF lastEvents
<1>5. Sound(sent', conv, failed) /\ (k = Len(lastEvents) => sent' = t)
  BY <1>2, <1>3, <1>4, ReachedIsSound
<1>6. Len(lastEvents) \in Nat
  BY <1>4, LenProperties
<1> HIDE DEF t
<1>7. progress' \in {"cut", "over"} /\ (progress' = "over" => sent' = t)
  <2>1. /\ k \in 0..Len(lastEvents) /\ Len(lastEvents) \in Nat
        /\ progress' = (IF k < Len(lastEvents) THEN "cut" ELSE "over")
    BY <1>2, <1>6
  <2>2. k \in Nat /\ k <= Len(lastEvents) /\ Len(lastEvents) \in Nat
    BY <2>1
  <2>3. \A a, b \in Nat : a <= b /\ ~(a < b) => a = b
    OBVIOUS
  <2>4. ~(k < Len(lastEvents)) => k = Len(lastEvents)
    BY <2>2, <2>3
  <2> QED
    BY <1>5, <2>1, <2>4
<1>8. Sound(sent', conv', said' # "done")
  BY <1>2, <1>5 DEF failed
<1>9. ConvOK(conv)' /\ said' \in Ends
  BY <1>1, <1>2 DEF Ends
<1> QED
  BY <1>4, <1>7, <1>8, <1>9 DEF ResponseInv

\* Every step keeps the invariant.
LEMMA ResponseNextInv == ResponseInv /\ [ResponseNext]_responseVars => ResponseInv'
<1> SUFFICES ASSUME ResponseInv, [ResponseNext]_responseVars PROVE ResponseInv'
  OBVIOUS
<1>1. ASSUME NEW k \in 0..2, Begin(k) PROVE ResponseInv'
  BY <1>1, BeginInv
<1>2. ASSUME NEW d \in Deltas, NEW k, Delta(d, k) PROVE ResponseInv'
  BY <1>2, DeltaInv
<1>3. ASSUME NEW how \in {"done", "eof", "broken", "canceled", "bad"}, NEW k, SourceEnds(how, k) PROVE ResponseInv'
  BY <1>3, SourceEndsInv DEF Ends
<1>4. CASE BodyEnds
  BY <1>4 DEF BodyEnds, ResponseInv
<1>5. CASE UNCHANGED responseVars
  BY <1>5 DEF responseVars, ResponseInv
<1> QED
  BY <1>1, <1>2, <1>3, <1>4, <1>5 DEF ResponseNext

\* The invariant says of every answer what the property does.
LEMMA ResponseInvIsEnough == ResponseInv => TerminalIsRight
<1> SUFFICES ASSUME ResponseInv PROVE TerminalIsRight
  OBVIOUS
<1> DEFINE failed == said # "done"
<1>1. Sound(sent, conv, failed)
  BY DEF ResponseInv
<1>2. sent \in Seq(EventsTold) /\ ToSet(sent) = {sent[j] : j \in DOMAIN sent}
  BY <1>1 DEF Sound, ToSet
<1> HIDE DEF failed
<1>3. ItemsAreWellFormed /\ TerminalAgrees
  BY <1>1 DEF Sound, ItemsAreWellFormed, TerminalAgrees
<1>4. \A e \in ToSet(sent) : e.type = "terminal" => e = Terminal(conv, failed)
  BY <1>1, <1>2 DEF Sound
<1>5. Terminal(conv, failed).status = (IF said = "done" THEN StatusForFinishReason(conv.finish) ELSE "failed")
  BY DEF Terminal, Status, failed
<1>6. progress = "over" => WasSent("terminal") /\ WasSent("[DONE]")
  <2>1. Done.type = "[DONE]"
    BY DEF Done
  <2>2. \A j \in DOMAIN sent : sent[j] \in ToSet(sent)
    BY <1>2
  <2>3. progress = "over" => WasSent("terminal")
    BY <2>2 DEF ResponseInv, WasSent
  <2>4. (\E j \in DOMAIN sent : sent[j] = Done) => WasSent("[DONE]")
    BY <2>1, <2>2, Zenon DEF WasSent
  <2>5. progress = "over" => \E j \in DOMAIN sent : sent[j] = Done
    BY DEF ResponseInv
  <2> QED
    BY <2>3, <2>4, <2>5
<1> QED
  BY <1>3, <1>4, <1>5, <1>6 DEF TerminalIsRight, TerminalIsTrue

\* A streamed Responses answer is a consistent account of itself at every point,
\* wherever the client is lost and however the upstream ends: each item is announced
\* once, keeps its id and is finished once, the terminal event comes last, lists the
\* finished items in the order of their indexes and has the status the upstream's
\* end justifies, and a client that stays is always given one (stream.go:48-474,
\* state.go:183-221).
THEOREM ResponseTold == ResponseSpec => []TerminalIsRight
<1>1. ResponseInit => ResponseInv
  BY ResponseInitInv
<1>2. ResponseInv /\ [ResponseNext]_responseVars => ResponseInv'
  BY ResponseNextInv
<1>3. ResponseInv => TerminalIsRight
  BY ResponseInvIsEnough
<1> QED
  BY <1>1, <1>2, <1>3, PTL DEF ResponseSpec

(***************************************************************************)
(* A streamed Responses answer: what was heard                             *)
(***************************************************************************)
CountIn(h, kind) == Cardinality({j \in DOMAIN h : h[j].kind = kind})
PartsIn(h, c) == {j \in DOMAIN h : h[j].kind = "call" /\ h[j].call = c}
ArgsIn(h, c) == Cardinality({j \in PartsIn(h, c) : h[j].args})
NamedIn(h, c) == \E j \in PartsIn(h, c) : h[j].id # NoId
NamedFirst(h, c) == \A j \in PartsIn(h, c) : (\A k \in PartsIn(h, c) : j <= k) => h[j].id # NoId

ToolHeard(t, h) ==
  /\ t.args = ArgsIn(h, t.call)
  /\ t.id \in {NoId, Given(t.call), Fallback(t.call)}
  /\ NamedFirst(h, t.call) => t.id = Given(t.call)
  /\ ~NamedIn(h, t.call) => t.id \in {NoId, Fallback(t.call)}

\* The state is what the deltas add up to.
HeardBy(c, h) ==
  /\ h \in Seq(Deltas)
  /\ c.text = CountIn(h, "text") /\ c.thoughts = CountIn(h, "thought")
  /\ (c.message = None <=> c.text = 0) /\ (c.reasoning = None <=> c.thoughts = 0)
  /\ \A x \in Calls : PartsIn(h, x) = {} <=> \A k \in DOMAIN c.tools : c.tools[k].call # x
  /\ \A k \in DOMAIN c.tools : ToolHeard(c.tools[k], h)

\* The kinds of deltas can be told apart.
LEMMA DeltaKinds ==
  ASSUME NEW d \in Deltas
  PROVE  /\ d.kind \in {"text", "thought", "finish", "call"}
         /\ d.kind = "call" => d.call \in Calls /\ d.id \in {NoId, Given(d.call)} /\ d.args \in BOOLEAN
         /\ d.kind = "finish" => d.reason \in {"stop", "length", "content_filter"}
<1>1. CASE d = Text \/ d = Thought
  BY <1>1 DEF Text, Thought
<1>2. CASE \E r \in {"stop", "length", "content_filter"} : d = FinishReason(r)
  BY <1>2 DEF FinishReason
<1>3. CASE \E c \in Calls, named \in BOOLEAN, args \in BOOLEAN :
             d = ToolCall(c, IF named THEN Given(c) ELSE NoId, args)
  <2>1. PICK c \in Calls, named \in BOOLEAN, args \in BOOLEAN :
          d = ToolCall(c, IF named THEN Given(c) ELSE NoId, args)
    BY <1>3
  <2> DEFINE id == IF named THEN Given(c) ELSE NoId
  <2>2. id \in {NoId, Given(c)}
    OBVIOUS
  <2>3. d = [kind |-> "call", call |-> c, id |-> id, args |-> args]
    BY <2>1 DEF ToolCall
  <2> HIDE DEF id
  <2> QED
    BY <2>2, <2>3
<1> QED
  BY <1>1, <1>2, <1>3 DEF Deltas

\* What one more delta adds to what was heard.
LEMMA OneMoreHeard ==
  ASSUME NEW h \in Seq(Deltas), NEW d \in Deltas
  PROVE  /\ Append(h, d) \in Seq(Deltas)
         /\ \A kind : /\ CountIn(h, kind) \in Nat
                      /\ d.kind = kind => CountIn(Append(h, d), kind) = CountIn(h, kind) + 1
                      /\ d.kind # kind => CountIn(Append(h, d), kind) = CountIn(h, kind)
<1> DEFINE n == Len(h) + 1
           g == Append(h, d)
<1>1. /\ g \in Seq(Deltas) /\ Len(h) \in Nat /\ DOMAIN h = 1..Len(h) /\ DOMAIN g = 1..n
      /\ (\A j \in 1..Len(h) : g[j] = h[j]) /\ g[n] = d
      /\ \A j : j \in 1..n <=> j \in 1..Len(h) \/ j = n
  BY Longer
<1> HIDE DEF g
<1>2. n \notin DOMAIN h /\ IsFiniteSet(DOMAIN h)
  BY <1>1, FS_Interval
<1>3. ASSUME NEW kind
      PROVE  /\ CountIn(h, kind) \in Nat
             /\ d.kind = kind => CountIn(g, kind) = CountIn(h, kind) + 1
             /\ d.kind # kind => CountIn(g, kind) = CountIn(h, kind)
  <2> DEFINE H == {j \in DOMAIN h : h[j].kind = kind}
             G == {j \in DOMAIN g : g[j].kind = kind}
  <2>1. IsFiniteSet(H) /\ n \notin H
    <3>1. H \in SUBSET DOMAIN h
      OBVIOUS
    <3> QED
      BY <1>2, <3>1, FS_Subset
  <2>2. d.kind = kind => G = H \cup {n}
    BY <1>1
  <2>3. d.kind # kind => G = H
    BY <1>1
  <2> HIDE DEF n, H, G
  <2>4. Cardinality(H) \in Nat /\ Cardinality(H \cup {n}) = Cardinality(H) + 1
    BY <2>1, FS_CardinalityType, FS_AddElement
  <2>5. CountIn(h, kind) = Cardinality(H) /\ CountIn(g, kind) = Cardinality(G)
    BY DEF CountIn, H, G
  <2> QED
    BY <2>2, <2>3, <2>4, <2>5
<1> QED
  BY <1>1, <1>3 DEF g

\* What one more delta adds to what was heard of the calls.
LEMMA OneMorePart ==
  ASSUME NEW h \in Seq(Deltas), NEW d \in Deltas, NEW g, g = Append(h, d), NEW c
  PROVE  /\ ArgsIn(h, c) \in Nat
         /\ d.kind # "call" \/ d.call # c =>
              /\ PartsIn(g, c) = PartsIn(h, c) /\ ArgsIn(g, c) = ArgsIn(h, c)
              /\ NamedIn(g, c) <=> NamedIn(h, c)
              /\ NamedFirst(g, c) <=> NamedFirst(h, c)
         /\ d.kind = "call" /\ d.call = c =>
              /\ PartsIn(g, c) # {}
              /\ d.args => ArgsIn(g, c) = ArgsIn(h, c) + 1
              /\ ~d.args => ArgsIn(g, c) = ArgsIn(h, c)
              /\ NamedIn(g, c) <=> NamedIn(h, c) \/ d.id # NoId
              /\ PartsIn(h, c) = {} /\ NamedFirst(g, c) => d.id # NoId
              /\ PartsIn(h, c) # {} /\ NamedFirst(g, c) => NamedFirst(h, c)
<1> DEFINE n == Len(h) + 1
           P == PartsIn(h, c)
           Q == PartsIn(g, c)
           A == {j \in P : h[j].args}
           B == {j \in Q : g[j].args}
<1>1. /\ g \in Seq(Deltas) /\ Len(h) \in Nat /\ DOMAIN h = 1..Len(h) /\ DOMAIN g = 1..n
      /\ (\A j \in 1..Len(h) : g[j] = h[j]) /\ g[n] = d
      /\ \A j : j \in 1..n <=> j \in 1..Len(h) \/ j = n
  BY Longer
<1>2. n \in Nat /\ n \notin P /\ IsFiniteSet(P) /\ \A j \in P : j \in Nat /\ j < n /\ g[j] = h[j]
  <2>1. P \in SUBSET (1..Len(h))
    BY <1>1 DEF PartsIn
  <2> HIDE DEF P
  <2>2. IsFiniteSet(P)
    <3>1. IsFiniteSet(1..Len(h))
      BY <1>1, FS_Interval
    <3> QED
      BY <2>1, <3>1, FS_Subset
  <2> QED
    BY <1>1, <2>1, <2>2
<1>3. d.kind # "call" \/ d.call # c => Q = P
  BY <1>1 DEF PartsIn
<1>4. d.kind = "call" /\ d.call = c => Q = P \cup {n}
  BY <1>1 DEF PartsIn
<1>5. ArgsIn(h, c) = Cardinality(A) /\ ArgsIn(g, c) = Cardinality(B)
  BY DEF ArgsIn
<1>6. /\ NamedIn(h, c) <=> \E j \in P : h[j].id # NoId
      /\ NamedIn(g, c) <=> \E j \in Q : g[j].id # NoId
      /\ NamedFirst(h, c) <=> \A j \in P : (\A k \in P : j <= k) => h[j].id # NoId
      /\ NamedFirst(g, c) <=> \A j \in Q : (\A k \in Q : j <= k) => g[j].id # NoId
  BY DEF NamedIn, NamedFirst
<1> HIDE DEF n, P, Q
<1>7. IsFiniteSet(A) /\ Cardinality(A) \in Nat /\ n \notin A
  <2>1. A \in SUBSET P
    OBVIOUS
  <2> QED
    BY <1>2, <2>1, FS_Subset, FS_CardinalityType
<1>8. CASE d.kind # "call" \/ d.call # c
  <2>1. Q = P /\ ~(d.kind = "call" /\ d.call = c)
    BY <1>3, <1>8
  <2>2. B = A
    BY <1>2, <2>1
  <2> HIDE DEF A, B
  <2>3. NamedIn(g, c) <=> NamedIn(h, c)
    BY <1>2, <1>6, <2>1
  <2>4. NamedFirst(g, c) <=> NamedFirst(h, c)
    BY <1>2, <1>6, <2>1
  <2> QED
    BY <1>5, <1>7, <2>1, <2>2, <2>3, <2>4 DEF P, Q
<1>9. CASE d.kind = "call" /\ d.call = c
  <2>1. Q = P \cup {n} /\ g[n] = d /\ n \in Q
    <3>1. g[n] = d
      BY <1>1
    <3> QED
      BY <1>4, <1>9, <3>1
  <2>2. d.args => B = A \cup {n}
    BY <1>2, <2>1
  <2>3. ~d.args => B = A
    BY <1>2, <2>1
  <2> HIDE DEF A, B
  <2>4. Cardinality(A \cup {n}) = Cardinality(A) + 1
    BY <1>7, FS_AddElement
  <2>5. NamedIn(g, c) <=> NamedIn(h, c) \/ d.id # NoId
    <3>1. (\E j \in Q : g[j].id # NoId) <=> (\E j \in P : g[j].id # NoId) \/ g[n].id # NoId
      BY <2>1
    <3>2. (\E j \in P : g[j].id # NoId) <=> \E j \in P : h[j].id # NoId
      BY <1>2
    <3> QED
      BY <1>6, <2>1, <3>1, <3>2
  <2>6. P = {} /\ NamedFirst(g, c) => d.id # NoId
    <3>1. P = {} => \A k \in Q : n <= k
      BY <1>2, <2>1
    <3> QED
      BY <1>6, <2>1, <3>1
  <2>7. NamedFirst(g, c) => NamedFirst(h, c)
    <3> SUFFICES ASSUME NamedFirst(g, c), NEW j \in P, \A k \in P : j <= k PROVE h[j].id # NoId
      BY <1>6
    <3>1. j \in Q /\ g[j] = h[j]
      BY <1>2, <2>1
    <3>2. j <= n
      BY <1>2
    <3>3. \A k \in Q : j <= k
      BY <2>1, <3>2
    <3> QED
      BY <1>6, <3>1, <3>3
  <2>8. d.args => ArgsIn(g, c) = ArgsIn(h, c) + 1
    BY <1>5, <2>2, <2>4
  <2>9. ~d.args => ArgsIn(g, c) = ArgsIn(h, c)
    BY <1>5, <2>3
  <2>10. ArgsIn(h, c) \in Nat
    BY <1>5, <1>7
  <2> QED
    BY <1>9, <2>1, <2>5, <2>6, <2>7, <2>8, <2>9, <2>10 DEF P, Q
<1> QED
  BY <1>8, <1>9

\* What a fragment of text changes.
LEMMA TextChanges ==
  ASSUME NEW c, ConvOK(c), NEW r, r = EmitTextDelta(c), r.ok
  PROVE  /\ r.conv.text = c.text + 1 /\ r.conv.message # None
         /\ r.conv.thoughts = c.thoughts /\ r.conv.reasoning = c.reasoning /\ r.conv.tools = c.tools
<1> DEFINE o == IF c.message = None THEN OpenMessage(c) ELSE Result(c, <<>>, TRUE)
<1>1. c \in Convs /\ c.next \in Nat /\ c.next # None
  BY DEF ConvOK, Convs, None
<1>2. \E e, ev : /\ o = [conv |-> e, events |-> ev, ok |-> TRUE] /\ e \in Convs /\ e.message # None
                 /\ e.text = c.text /\ e.thoughts = c.thoughts /\ e.reasoning = c.reasoning /\ e.tools = c.tools
  <2>1. CASE c.message # None
    BY <1>1, <2>1 DEF Result
  <2>2. CASE c.message = None
    <3> DEFINE e == [c EXCEPT !.message = c.next, !.next = @ + 1]
               ev == <<Event("added", c.next, Item(MessageID, 0)), Event("part", c.next, Item(MessageID, 0))>>
    <3>1. o = [conv |-> e, events |-> ev, ok |-> TRUE]
      BY <2>2 DEF OpenMessage, Result
    <3>2. e \in Convs /\ e.message = c.next /\ e.text = c.text /\ e.thoughts = c.thoughts
          /\ e.reasoning = c.reasoning /\ e.tools = c.tools
      <4> DEFINE b == [c EXCEPT !.message = c.next]
      <4>1. /\ b \in Convs /\ b.message = c.next /\ b.next = c.next /\ b.text = c.text
            /\ b.thoughts = c.thoughts /\ b.reasoning = c.reasoning /\ b.tools = c.tools
        BY <1>1 DEF Convs
      <4>2. e = [b EXCEPT !.next = c.next + 1]
        BY <1>1 DEF Convs
      <4> HIDE DEF e, b
      <4> QED
        BY <1>1, <4>1, <4>2 DEF Convs
    <3> HIDE DEF e, ev
    <3> QED
      BY <1>1, <3>1, <3>2
  <2> QED
    BY <2>1, <2>2
<1>3. r = IF o.conv.text = TextLimit THEN [o EXCEPT !.ok = FALSE]
          ELSE Result([o.conv EXCEPT !.text = @ + 1],
                      Append(o.events, Event("delta", o.conv.message, Item(MessageID, 1))), TRUE)
  BY DEF EmitTextDelta
<1> HIDE DEF o
<1>4. PICK e, ev : /\ o = [conv |-> e, events |-> ev, ok |-> TRUE] /\ e \in Convs /\ e.message # None
                   /\ e.text = c.text /\ e.thoughts = c.thoughts /\ e.reasoning = c.reasoning /\ e.tools = c.tools
  BY <1>2
<1>5. o.conv = e
  BY <1>4
<1>6. e.text # TextLimit
  <2> SUFFICES ASSUME e.text = TextLimit PROVE FALSE
    OBVIOUS
  <2>1. r = [o EXCEPT !.ok = FALSE]
    BY <1>3, <1>5
  <2>2. ~r.ok
    BY <1>4, <2>1
  <2> QED
    BY <2>2
<1>7. r = Result([e EXCEPT !.text = @ + 1], Append(o.events, Event("delta", o.conv.message, Item(MessageID, 1))), TRUE)
  BY <1>3, <1>5, <1>6
<1>8. r.conv = [e EXCEPT !.text = @ + 1]
  BY <1>7 DEF Result
<1> QED
  BY <1>4, <1>8 DEF Convs

\* What a fragment of reasoning changes.
LEMMA ThoughtChanges ==
  ASSUME NEW c, ConvOK(c), NEW r, r = EmitReasoningDelta(c), r.ok
  PROVE  /\ r.conv.thoughts = c.thoughts + 1 /\ r.conv.reasoning # None
         /\ r.conv.text = c.text /\ r.conv.message = c.message /\ r.conv.tools = c.tools
<1> DEFINE o == IF c.reasoning = None
                  THEN Result([c EXCEPT !.reasoning = c.next, !.next = @ + 1],
                              <<Event("added", c.next, Item(ReasoningID, 0))>>, TRUE)
                  ELSE Result(c, <<>>, TRUE)
<1>1. c \in Convs /\ c.next \in Nat /\ c.next # None
  BY DEF ConvOK, Convs, None
<1>2. \E e, ev : /\ o = [conv |-> e, events |-> ev, ok |-> TRUE] /\ e \in Convs /\ e.reasoning # None
                 /\ e.text = c.text /\ e.thoughts = c.thoughts /\ e.message = c.message /\ e.tools = c.tools
  <2>1. CASE c.reasoning # None
    BY <1>1, <2>1 DEF Result
  <2>2. CASE c.reasoning = None
    <3> DEFINE e == [c EXCEPT !.reasoning = c.next, !.next = @ + 1]
               ev == <<Event("added", c.next, Item(ReasoningID, 0))>>
    <3>1. o = [conv |-> e, events |-> ev, ok |-> TRUE]
      BY <2>2 DEF Result
    <3>2. e \in Convs /\ e.reasoning = c.next /\ e.text = c.text /\ e.thoughts = c.thoughts
          /\ e.message = c.message /\ e.tools = c.tools
      <4> DEFINE b == [c EXCEPT !.reasoning = c.next]
      <4>1. /\ b \in Convs /\ b.reasoning = c.next /\ b.next = c.next /\ b.text = c.text
            /\ b.thoughts = c.thoughts /\ b.message = c.message /\ b.tools = c.tools
        BY <1>1 DEF Convs
      <4>2. e = [b EXCEPT !.next = c.next + 1]
        BY <1>1 DEF Convs
      <4> HIDE DEF e, b
      <4> QED
        BY <1>1, <4>1, <4>2 DEF Convs
    <3> HIDE DEF e, ev
    <3> QED
      BY <1>1, <3>1, <3>2
  <2> QED
    BY <2>1, <2>2
<1>3. r = IF o.conv.thoughts = TextLimit THEN [o EXCEPT !.ok = FALSE]
          ELSE Result([o.conv EXCEPT !.thoughts = @ + 1],
                      Append(o.events, Event("delta", o.conv.reasoning, Item(ReasoningID, 1))), TRUE)
  BY DEF EmitReasoningDelta
<1> HIDE DEF o
<1>4. PICK e, ev : /\ o = [conv |-> e, events |-> ev, ok |-> TRUE] /\ e \in Convs /\ e.reasoning # None
                   /\ e.text = c.text /\ e.thoughts = c.thoughts /\ e.message = c.message /\ e.tools = c.tools
  BY <1>2
<1>5. o.conv = e
  BY <1>4
<1>6. e.thoughts # TextLimit
  <2> SUFFICES ASSUME e.thoughts = TextLimit PROVE FALSE
    OBVIOUS
  <2>1. r = [o EXCEPT !.ok = FALSE]
    BY <1>3, <1>5
  <2>2. ~r.ok
    BY <1>4, <2>1
  <2> QED
    BY <2>2
<1>7. r = Result([e EXCEPT !.thoughts = @ + 1],
                 Append(o.events, Event("delta", o.conv.reasoning, Item(ReasoningID, 1))), TRUE)
  BY <1>3, <1>5, <1>6
<1>8. r.conv = [e EXCEPT !.thoughts = @ + 1]
  BY <1>7 DEF Result
<1> QED
  BY <1>4, <1>8 DEF Convs

\* The place of a call that is new, and of one that is known.
LEMMA CallFound ==
  ASSUME NEW c, ConvOK(c), NEW call, NEW m, m = WithTool(c, call)
  PROVE  /\ (\E k \in DOMAIN c.tools : c.tools[k].call = call) => m = c
         /\ (\A k \in DOMAIN c.tools : c.tools[k].call # call) =>
              \E n : /\ n \notin DOMAIN c.tools /\ DOMAIN m.tools = DOMAIN c.tools \cup {n}
                     /\ \A k \in DOMAIN c.tools : m.tools[k] = c.tools[k]
                     /\ m.tools[n].call = call /\ m.tools[n].id = NoId /\ m.tools[n].args = 0
<1>1. CASE \E k \in DOMAIN c.tools : c.tools[k].call = call
  BY <1>1 DEF WithTool
<1>2. CASE ~\E k \in DOMAIN c.tools : c.tools[k].call = call
  <2> DEFINE new == [call |-> call, index |-> c.next, id |-> NoId, args |-> 0, added |-> FALSE]
             v == Append(c.tools, new)
             n == Len(c.tools) + 1
  <2>1. c \in Convs /\ c.tools \in Seq(ToolItems)
    BY DEF ConvOK, Convs
  <2>2. m.tools = v
    BY <1>2, <2>1 DEF WithTool, Convs
  <2>3. new.call = call /\ new.id = NoId /\ new.args = 0
    OBVIOUS
  <2> DEFINE S == ToolItems \cup {new}
  <2>4. c.tools \in Seq(S) /\ new \in S
    <3>1. Len(c.tools) \in Nat /\ DOMAIN c.tools = 1..Len(c.tools)
      BY <2>1, LenProperties
    <3>2. c.tools \in [1..Len(c.tools) -> ToolItems]
      BY <2>1, LenProperties
    <3> HIDE DEF new
    <3>3. c.tools \in [1..Len(c.tools) -> S]
      BY <3>2
    <3> QED
      BY <3>1, <3>3, SeqDef
  <2> HIDE DEF new, S
  <2>5. /\ Len(c.tools) \in Nat /\ DOMAIN c.tools = 1..Len(c.tools) /\ DOMAIN v = 1..n
        /\ (\A j \in 1..Len(c.tools) : v[j] = c.tools[j]) /\ v[n] = new
    BY <2>4, Longer
  <2>6. n \notin DOMAIN c.tools /\ DOMAIN v = DOMAIN c.tools \cup {n}
    BY <2>5
  <2> HIDE DEF v, n
  <2> QED
    BY <1>2, <2>2, <2>3, <2>5, <2>6
<1> QED
  BY <1>1, <1>2

\* A delta that is not part of a call leaves what was heard of the calls alone.
LEMMA CallsAlone ==
  ASSUME NEW c, NEW h, HeardBy(c, h), NEW d \in Deltas, d.kind # "call",
         NEW e, e.tools = c.tools
  PROVE  /\ \A x \in Calls : PartsIn(Append(h, d), x) = {} <=> \A k \in DOMAIN e.tools : e.tools[k].call # x
         /\ \A k \in DOMAIN e.tools : ToolHeard(e.tools[k], Append(h, d))
<1> DEFINE v == e.tools
           g == Append(h, d)
<1>1. h \in Seq(Deltas)
  BY DEF HeardBy
<1>2. \A x : /\ PartsIn(g, x) = PartsIn(h, x) /\ ArgsIn(g, x) = ArgsIn(h, x)
             /\ (NamedIn(g, x) <=> NamedIn(h, x)) /\ (NamedFirst(g, x) <=> NamedFirst(h, x))
  BY <1>1, OneMorePart
<1> HIDE DEF g
<1>3. \A k \in DOMAIN v : ToolHeard(v[k], h)
  BY DEF HeardBy
<1>4. \A k \in DOMAIN v : ToolHeard(v[k], g)
  BY <1>2, <1>3 DEF ToolHeard
<1> QED
  BY <1>2, <1>4 DEF HeardBy, g

\* A part of a call is added to what was heard of it.
LEMMA CallHeard ==
  ASSUME NEW s, NEW c, ConvOK(c), Account(s, AnnouncedBy(c), {}), NEW h, HeardBy(c, h),
         NEW d \in Deltas, d.kind = "call", NEW g, g = Append(h, d),
         NEW r, r = ApplyToolCall(c, d), r.ok
  PROVE  HeardBy(r.conv, g)
<1> DEFINE x == d.call
           m == WithTool(c, x)
           v == r.conv.tools
<1>1. x \in Calls /\ d.id \in {NoId, Given(x)} /\ d.args \in BOOLEAN
  BY DeltaKinds
<1>2. h \in Seq(Deltas)
  BY DEF HeardBy
<1>3. d.id \in CallIds /\ Given(x) # NoId /\ Fallback(x) # NoId
  BY <1>1, RealIds DEF CallIds, Ids
<1>4. \E k \in DOMAIN m.tools :
        /\ m.tools[k].call = x /\ DOMAIN v = DOMAIN m.tools
        /\ \A l \in DOMAIN m.tools : l # k => v[l] = m.tools[l]
        /\ v[k].call = x
        /\ v[k].args = (IF d.args THEN m.tools[k].args + 1 ELSE m.tools[k].args)
        /\ m.tools[k].id # NoId => v[k].id = m.tools[k].id
        /\ m.tools[k].id = NoId /\ d.id # NoId => v[k].id = d.id
        /\ m.tools[k].id = NoId /\ d.id = NoId => v[k].id \in {NoId, Fallback(x)}
  BY <1>1, <1>3, CallTold
<1>5. /\ r.conv.message = c.message /\ r.conv.reasoning = c.reasoning
      /\ r.conv.text = c.text /\ r.conv.thoughts = c.thoughts
  BY <1>1, <1>3, CallTold
<1>6. /\ g \in Seq(Deltas) /\ CountIn(g, "text") = CountIn(h, "text")
      /\ CountIn(g, "thought") = CountIn(h, "thought")
  <2>1. g \in Seq(Deltas) /\ \A kind : d.kind # kind => CountIn(g, kind) = CountIn(h, kind)
    BY <1>2, OneMoreHeard
  <2>2. d.kind # "text" /\ d.kind # "thought"
    OBVIOUS
  <2> QED
    BY <2>1, <2>2
<1>7. \A y : y # x => /\ PartsIn(g, y) = PartsIn(h, y) /\ ArgsIn(g, y) = ArgsIn(h, y)
                      /\ (NamedIn(g, y) <=> NamedIn(h, y)) /\ (NamedFirst(g, y) <=> NamedFirst(h, y))
  BY <1>2, OneMorePart
<1>8. /\ PartsIn(g, x) # {} /\ ArgsIn(h, x) \in Nat
      /\ d.args => ArgsIn(g, x) = ArgsIn(h, x) + 1
      /\ ~d.args => ArgsIn(g, x) = ArgsIn(h, x)
      /\ NamedIn(g, x) <=> NamedIn(h, x) \/ d.id # NoId
      /\ PartsIn(h, x) = {} /\ NamedFirst(g, x) => d.id # NoId
      /\ PartsIn(h, x) # {} /\ NamedFirst(g, x) => NamedFirst(h, x)
  BY <1>2, OneMorePart
<1>9. PICK k \in DOMAIN m.tools :
        /\ m.tools[k].call = x /\ DOMAIN v = DOMAIN m.tools
        /\ \A l \in DOMAIN m.tools : l # k => v[l] = m.tools[l]
        /\ v[k].call = x
        /\ v[k].args = (IF d.args THEN m.tools[k].args + 1 ELSE m.tools[k].args)
        /\ m.tools[k].id # NoId => v[k].id = m.tools[k].id
        /\ m.tools[k].id = NoId /\ d.id # NoId => v[k].id = d.id
        /\ m.tools[k].id = NoId /\ d.id = NoId => v[k].id \in {NoId, Fallback(x)}
  BY <1>4
<1> HIDE DEF x
<1>10. /\ m.tools[k].args = ArgsIn(h, x)
       /\ m.tools[k].id \in {NoId, Given(x), Fallback(x)}
       /\ PartsIn(h, x) # {} /\ NamedFirst(h, x) => m.tools[k].id = Given(x)
       /\ PartsIn(h, x) = {} => m.tools[k].id = NoId
       /\ ~NamedIn(h, x) => m.tools[k].id \in {NoId, Fallback(x)}
       /\ \A l \in DOMAIN m.tools : l # k => l \in DOMAIN c.tools /\ m.tools[l] = c.tools[l] /\ c.tools[l].call # x
       /\ \A l \in DOMAIN c.tools : c.tools[l].call # x => l \in DOMAIN m.tools /\ m.tools[l] = c.tools[l]
  <2>1. CASE \E l \in DOMAIN c.tools : c.tools[l].call = x
    <3>1. m = c
      BY <2>1, CallFound
    <3> HIDE DEF m, v
    <3>2. PartsIn(h, x) # {} /\ ToolHeard(c.tools[k], h)
      BY <1>1, <1>9, <2>1, <3>1 DEF HeardBy
    <3>3. \A l \in DOMAIN c.tools : l # k => c.tools[l].call # x
      BY <1>9, <3>1 DEF ConvOK
    <3> QED
      BY <1>9, <3>1, <3>2, <3>3 DEF ToolHeard
  <2>2. CASE ~\E l \in DOMAIN c.tools : c.tools[l].call = x
    <3>1. PICK n : /\ n \notin DOMAIN c.tools /\ DOMAIN m.tools = DOMAIN c.tools \cup {n}
                   /\ \A l \in DOMAIN c.tools : m.tools[l] = c.tools[l]
                   /\ m.tools[n].call = x /\ m.tools[n].id = NoId /\ m.tools[n].args = 0
      BY <2>2, CallFound
    <3> HIDE DEF m, v
    <3>2. k = n
      BY <1>9, <2>2, <3>1
    <3>3. PartsIn(h, x) = {}
      BY <1>1, <2>2 DEF HeardBy
    <3>4. ArgsIn(h, x) = 0
      <4>1. {j \in PartsIn(h, x) : h[j].args} = {}
        BY <3>3
      <4> QED
        BY <4>1, FS_EmptySet DEF ArgsIn
    <3> QED
      BY <2>2, <3>1, <3>2, <3>3, <3>4
  <2> QED
    BY <2>1, <2>2
<1> HIDE DEF m, v
<1>11. ToolHeard(v[k], g)
  <2>1. v[k].call = x /\ v[k].args = ArgsIn(g, x)
    BY <1>1, <1>8, <1>9, <1>10 DEF x
  <2>2. v[k].id \in {NoId, Given(x), Fallback(x)}
    BY <1>1, <1>9, <1>10
  <2>3. NamedFirst(g, x) => v[k].id = Given(x)
    BY <1>1, <1>3, <1>8, <1>9, <1>10
  <2>4. ~NamedIn(g, x) => v[k].id \in {NoId, Fallback(x)}
    BY <1>1, <1>3, <1>8, <1>9, <1>10
  <2> QED
    BY <2>1, <2>2, <2>3, <2>4 DEF ToolHeard
<1>12. \A l \in DOMAIN v : l # k => ToolHeard(v[l], g)
  <2> SUFFICES ASSUME NEW l \in DOMAIN v, l # k PROVE ToolHeard(v[l], g)
    OBVIOUS
  <2>1. l \in DOMAIN c.tools /\ v[l] = c.tools[l] /\ v[l].call # x
    BY <1>9, <1>10
  <2>2. ToolHeard(v[l], h)
    BY <2>1 DEF HeardBy
  <2> QED
    BY <1>7, <2>1, <2>2 DEF ToolHeard
<1>13. \A y \in Calls : PartsIn(g, y) = {} <=> \A l \in DOMAIN v : v[l].call # y
  <2> TAKE y \in Calls
  <2>1. CASE y = x
    BY <1>8, <1>9, <2>1
  <2>2. CASE y # x
    <3>1. PartsIn(g, y) = {} <=> \A l \in DOMAIN c.tools : c.tools[l].call # y
      BY <1>7, <2>2 DEF HeardBy
    <3>2. \A l \in DOMAIN c.tools : c.tools[l].call = y => l \in DOMAIN v /\ v[l] = c.tools[l]
      BY <1>9, <1>10, <2>2
    <3>3. \A l \in DOMAIN v : v[l].call = y => l \in DOMAIN c.tools /\ v[l] = c.tools[l]
      BY <1>9, <1>10, <2>2
    <3> QED
      BY <3>1, <3>2, <3>3
  <2> QED
    BY <2>1, <2>2
<1> QED
  BY <1>5, <1>6, <1>11, <1>12, <1>13 DEF HeardBy, v

\* A delta that is taken in is added to what was heard.
LEMMA DeltaHeard ==
  ASSUME NEW s, NEW c, ConvOK(c), Account(s, AnnouncedBy(c), {}), NEW h, HeardBy(c, h),
         NEW d \in Deltas, NEW g, g = Append(h, d), NEW r, r = ApplyDelta(c, d), r.ok
  PROVE  HeardBy(r.conv, g)
<1>1. /\ h \in Seq(Deltas) /\ c.text = CountIn(h, "text") /\ c.thoughts = CountIn(h, "thought")
      /\ (c.message = None <=> c.text = 0) /\ (c.reasoning = None <=> c.thoughts = 0)
  BY DEF HeardBy
<1>2. /\ g \in Seq(Deltas)
      /\ CountIn(h, "text") \in Nat /\ CountIn(h, "thought") \in Nat
      /\ d.kind = "text" => CountIn(g, "text") = CountIn(h, "text") + 1
      /\ d.kind # "text" => CountIn(g, "text") = CountIn(h, "text")
      /\ d.kind = "thought" => CountIn(g, "thought") = CountIn(h, "thought") + 1
      /\ d.kind # "thought" => CountIn(g, "thought") = CountIn(h, "thought")
  <2>1. /\ g \in Seq(Deltas)
        /\ \A kind : /\ CountIn(h, kind) \in Nat
                     /\ d.kind = kind => CountIn(g, kind) = CountIn(h, kind) + 1
                     /\ d.kind # kind => CountIn(g, kind) = CountIn(h, kind)
    BY <1>1, OneMoreHeard
  <2> QED
    BY <2>1
<1>3. CASE d.kind = "text"
  <2>1. r = EmitTextDelta(c)
    BY <1>3 DEF ApplyDelta
  <2>2. /\ r.conv.text = c.text + 1 /\ r.conv.message # None
        /\ r.conv.thoughts = c.thoughts /\ r.conv.reasoning = c.reasoning /\ r.conv.tools = c.tools
    BY <2>1, TextChanges
  <2>3. \A n \in Nat : n + 1 # 0
    OBVIOUS
  <2>4. d.kind # "call" /\ d.kind # "thought"
    BY <1>3
  <2>5. /\ \A x \in Calls : PartsIn(g, x) = {} <=> \A k \in DOMAIN r.conv.tools : r.conv.tools[k].call # x
        /\ \A k \in DOMAIN r.conv.tools : ToolHeard(r.conv.tools[k], g)
    <3> DEFINE e == r.conv
    <3>1. e.tools = c.tools
      BY <2>2
    <3> HIDE DEF e
    <3>2. /\ \A x \in Calls : PartsIn(g, x) = {} <=> \A k \in DOMAIN e.tools : e.tools[k].call # x
          /\ \A k \in DOMAIN e.tools : ToolHeard(e.tools[k], g)
      BY <2>4, <3>1, CallsAlone
    <3> QED
      BY <3>2 DEF e
  <2> QED
    BY <1>1, <1>2, <1>3, <2>2, <2>3, <2>4, <2>5 DEF HeardBy
<1>4. CASE d.kind = "thought"
  <2>1. r = EmitReasoningDelta(c)
    BY <1>4 DEF ApplyDelta
  <2>2. /\ r.conv.thoughts = c.thoughts + 1 /\ r.conv.reasoning # None
        /\ r.conv.text = c.text /\ r.conv.message = c.message /\ r.conv.tools = c.tools
    BY <2>1, ThoughtChanges
  <2>3. \A n \in Nat : n + 1 # 0
    OBVIOUS
  <2>4. d.kind # "call" /\ d.kind # "text"
    BY <1>4
  <2>5. /\ \A x \in Calls : PartsIn(g, x) = {} <=> \A k \in DOMAIN r.conv.tools : r.conv.tools[k].call # x
        /\ \A k \in DOMAIN r.conv.tools : ToolHeard(r.conv.tools[k], g)
    <3> DEFINE e == r.conv
    <3>1. e.tools = c.tools
      BY <2>2
    <3> HIDE DEF e
    <3>2. /\ \A x \in Calls : PartsIn(g, x) = {} <=> \A k \in DOMAIN e.tools : e.tools[k].call # x
          /\ \A k \in DOMAIN e.tools : ToolHeard(e.tools[k], g)
      BY <2>4, <3>1, CallsAlone
    <3> QED
      BY <3>2 DEF e
  <2> QED
    BY <1>1, <1>2, <1>4, <2>2, <2>3, <2>4, <2>5 DEF HeardBy
<1>5. CASE d.kind = "finish"
  <2> DEFINE f == [c EXCEPT !.finish = d.reason]
  <2>1. r.conv = f
    BY <1>5 DEF ApplyDelta, Result
  <2>2. /\ f.text = c.text /\ f.message = c.message
        /\ f.thoughts = c.thoughts /\ f.reasoning = c.reasoning /\ f.tools = c.tools
    BY DEF ConvOK, Convs
  <2> HIDE DEF f
  <2>4. d.kind # "call" /\ d.kind # "text" /\ d.kind # "thought"
    BY <1>5
  <2>5. /\ \A x \in Calls : PartsIn(g, x) = {} <=> \A k \in DOMAIN f.tools : f.tools[k].call # x
        /\ \A k \in DOMAIN f.tools : ToolHeard(f.tools[k], g)
    BY <2>2, <2>4, CallsAlone
  <2>6. HeardBy(f, g)
    BY <1>1, <1>2, <2>2, <2>4, <2>5 DEF HeardBy
  <2> QED
    BY <2>1, <2>6
<1>6. CASE d.kind = "call"
  <2>1. r = ApplyToolCall(c, d)
    BY <1>6 DEF ApplyDelta
  <2> QED
    BY <1>6, <2>1, CallHeard
<1> QED
  BY <1>3, <1>4, <1>5, <1>6, DeltaKinds

\* The items a state adds up to, by what was heard.
LEMMA ListedAsHeard ==
  ASSUME NEW c, ConvOK(c), NEW h, HeardBy(c, h),
         \A x \in Calls : PartsIn(h, x) # {} /\ NamedIn(h, x) => NamedFirst(h, x)
  PROVE  \A i : i \in ToSet(OutputItems(c)) <=>
           \/ CountIn(h, "thought") # 0 /\ i = Item(ReasoningID, CountIn(h, "thought"))
           \/ CountIn(h, "text") # 0 /\ i = Item(MessageID, CountIn(h, "text"))
           \/ \E x \in {y \in Calls : PartsIn(h, y) # {}} :
                i = Item(IF NamedIn(h, x) THEN Given(x) ELSE Fallback(x), ArgsIn(h, x))
<1> DEFINE listed == OutputItems(c)
           H == {x \in Calls : PartsIn(h, x) # {}}
           Due(i) == \/ CountIn(h, "thought") # 0 /\ i = Item(ReasoningID, CountIn(h, "thought"))
                     \/ CountIn(h, "text") # 0 /\ i = Item(MessageID, CountIn(h, "text"))
                     \/ \E x \in H : i = Item(IF NamedIn(h, x) THEN Given(x) ELSE Fallback(x), ArgsIn(h, x))
<1>1. /\ listed \in Seq(ToldItems) /\ c.next \in Nat /\ Len(listed) = c.next
      /\ \A i \in 0..(c.next - 1) : listed[i + 1] = ItemAt(c, i)
  BY ItemsListed
<1>2. /\ c.text = CountIn(h, "text") /\ c.thoughts = CountIn(h, "thought")
      /\ (c.message = None <=> c.text = 0) /\ (c.reasoning = None <=> c.thoughts = 0)
      /\ \A x \in Calls : PartsIn(h, x) = {} <=> \A k \in DOMAIN c.tools : c.tools[k].call # x
      /\ \A k \in DOMAIN c.tools : ToolHeard(c.tools[k], h)
  BY DEF HeardBy
<1>3. /\ c.message \in Nat \cup {None} /\ c.reasoning \in Nat \cup {None}
      /\ c.message < c.next /\ c.reasoning < c.next
      /\ \A i \in Nat : i < c.next =>
           i = c.message \/ i = c.reasoning \/ \E k \in DOMAIN c.tools : c.tools[k].index = i
      /\ \A k \in DOMAIN c.tools : c.tools[k].index < c.next
  BY DEF ConvOK, Convs
<1>4. ASSUME NEW k \in DOMAIN c.tools
      PROVE  /\ c.tools[k].call \in H /\ c.tools[k].index \in Nat
             /\ Item(CallID(c.tools[k]), c.tools[k].args)
                  = Item(IF NamedIn(h, c.tools[k].call) THEN Given(c.tools[k].call) ELSE Fallback(c.tools[k].call),
                         ArgsIn(h, c.tools[k].call))
  <2> DEFINE t == c.tools[k]
             x == t.call
  <2>1. t \in ToolItems
    BY NotYetTold
  <2>2. x \in Calls /\ t.index \in Nat
    BY <2>1 DEF ToolItems
  <2>3. ToolHeard(t, h) /\ PartsIn(h, x) # {}
    BY <1>2, <2>2
  <2>4. x \in H
    BY <2>2, <2>3
  <2>5. Given(x) # NoId /\ Fallback(x) # NoId
    BY <2>2, RealIds DEF Ids
  <2>6. NamedIn(h, x) => NamedFirst(h, x)
    BY <2>4
  <2> HIDE DEF t
  <2>7. /\ t.args = ArgsIn(h, x)
        /\ NamedIn(h, x) => t.id = Given(x)
        /\ ~NamedIn(h, x) => t.id = NoId \/ t.id = Fallback(x)
    BY <2>3, <2>6 DEF ToolHeard
  <2>8. CallID(t) = IF NamedIn(h, x) THEN Given(x) ELSE Fallback(x)
    BY <2>5, <2>7 DEF CallID
  <2> QED
    BY <2>2, <2>4, <2>7, <2>8 DEF t
<1> HIDE DEF listed
<1>5. ASSUME NEW i \in Nat, i < c.next
      PROVE  Due(ItemAt(c, i))
  <2>1. /\ c.reasoning = i => ItemAt(c, i) = Item(ReasoningID, c.thoughts)
        /\ c.message = i => ItemAt(c, i) = Item(MessageID, c.text)
        /\ \A k \in DOMAIN c.tools : c.tools[k].index = i =>
             ItemAt(c, i) = Item(CallID(c.tools[k]), c.tools[k].args)
    BY <1>5, ItemIsDone
  <2>2. i # None
    BY DEF None
  <2>3. CASE c.message = i
    BY <1>2, <2>1, <2>2, <2>3
  <2>4. CASE c.reasoning = i
    BY <1>2, <2>1, <2>2, <2>4
  <2>5. CASE \E k \in DOMAIN c.tools : c.tools[k].index = i
    <3>1. PICK k \in DOMAIN c.tools : c.tools[k].index = i
      BY <2>5
    <3>2. ItemAt(c, i) = Item(CallID(c.tools[k]), c.tools[k].args)
      BY <2>1, <3>1
    <3>3. \E x \in H : ItemAt(c, i) = Item(IF NamedIn(h, x) THEN Given(x) ELSE Fallback(x), ArgsIn(h, x))
      BY <1>4, <3>2
    <3> QED
      BY <3>3
  <2> QED
    BY <1>3, <1>5, <2>3, <2>4, <2>5
<1>6. ASSUME NEW i, Due(i)
      PROVE  \E n \in Nat : n < c.next /\ ItemAt(c, n) = i
  <2>1. CASE CountIn(h, "thought") # 0 /\ i = Item(ReasoningID, CountIn(h, "thought"))
    <3>1. c.reasoning \in Nat /\ c.reasoning < c.next
      BY <1>2, <1>3, <2>1
    <3>2. ItemAt(c, c.reasoning) = Item(ReasoningID, c.thoughts)
      BY <3>1, ItemIsDone
    <3> QED
      BY <1>2, <2>1, <3>1, <3>2
  <2>2. CASE CountIn(h, "text") # 0 /\ i = Item(MessageID, CountIn(h, "text"))
    <3>1. c.message \in Nat /\ c.message < c.next
      BY <1>2, <1>3, <2>2
    <3>2. ItemAt(c, c.message) = Item(MessageID, c.text)
      BY <3>1, ItemIsDone
    <3> QED
      BY <1>2, <2>2, <3>1, <3>2
  <2>3. CASE \E x \in H : i = Item(IF NamedIn(h, x) THEN Given(x) ELSE Fallback(x), ArgsIn(h, x))
    <3>1. PICK x \in H : i = Item(IF NamedIn(h, x) THEN Given(x) ELSE Fallback(x), ArgsIn(h, x))
      BY <2>3
    <3>2. PICK k \in DOMAIN c.tools : c.tools[k].call = x
      BY <1>2
    <3> DEFINE n == c.tools[k].index
    <3>3. n \in Nat /\ n < c.next
      BY <1>3, <1>4
    <3>4. ItemAt(c, n) = Item(CallID(c.tools[k]), c.tools[k].args)
      BY <3>3, ItemIsDone
    <3>5. ItemAt(c, n) = i
      BY <1>4, <3>1, <3>2, <3>4
    <3> HIDE DEF n
    <3> QED
      BY <3>3, <3>5
  <2> QED
    BY <1>6, <2>1, <2>2, <2>3
<1> HIDE DEF Due
<1>7. DOMAIN listed = 1..c.next
  BY <1>1, LenProperties
<1>8. ToSet(listed) = {listed[j] : j \in DOMAIN listed}
  BY DEF ToSet
<1>9. \A j \in DOMAIN listed : Due(listed[j])
  <2> TAKE j \in DOMAIN listed
  <2>1. j - 1 \in Nat /\ j - 1 < c.next /\ j - 1 \in 0..(c.next - 1) /\ (j - 1) + 1 = j
    BY <1>1, <1>7
  <2>2. listed[j] = ItemAt(c, j - 1)
    BY <1>1, <2>1
  <2> QED
    BY <1>5, <2>1, <2>2
<1>10. \A i : Due(i) => \E j \in DOMAIN listed : listed[j] = i
  <2> SUFFICES ASSUME NEW i, Due(i) PROVE \E j \in DOMAIN listed : listed[j] = i
    OBVIOUS
  <2>1. PICK n \in Nat : n < c.next /\ ItemAt(c, n) = i
    BY <1>6
  <2>2. n + 1 \in DOMAIN listed /\ listed[n + 1] = ItemAt(c, n)
    BY <1>1, <1>7, <2>1
  <2> QED
    BY <2>1, <2>2
<1>11. \A i : i \in ToSet(listed) <=> Due(i)
  BY <1>8, <1>9, <1>10
<1> QED
  BY <1>11 DEF listed, Due

\* While the deltas are taken in, and after [DONE], the state is what was heard.
HeardInv ==
  /\ ResponseInv
  /\ heard \in Seq(Deltas)
  /\ progress = "new" => heard = <<>>
  /\ progress \in {"new", "streaming"} \/ said = "done" => HeardBy(conv, heard)

\* Nothing was heard at first.
LEMMA NothingHeard == <<>> \in Seq(Deltas) /\ HeardBy(NoState, <<>>)
<1>1. NoState.tools = <<>> /\ NoState.text = 0 /\ NoState.thoughts = 0 /\ NoState.message = None /\ NoState.reasoning = None
  BY DEF NoState
<1>2. <<>> \in Seq(Deltas) /\ DOMAIN <<>> = {}
  OBVIOUS
<1>3. \A kind : CountIn(<<>>, kind) = 0
  <2>1. \A kind : {j \in DOMAIN <<>> : <<>>[j].kind = kind} = {}
    BY <1>2
  <2> QED
    BY <2>1, FS_EmptySet DEF CountIn
<1>4. \A x : PartsIn(<<>>, x) = {}
  BY <1>2 DEF PartsIn
<1> QED
  BY <1>1, <1>2, <1>3, <1>4 DEF HeardBy

\* Every step keeps the state equal to what was heard.
LEMMA HeardNextInv == HeardInv /\ [ResponseNext]_responseVars => HeardInv'
<1> SUFFICES ASSUME HeardInv, [ResponseNext]_responseVars PROVE HeardInv'
  OBVIOUS
<1>1. ResponseInv'
  BY ResponseNextInv DEF HeardInv
<1>2. ASSUME NEW k \in 0..2, Begin(k) PROVE HeardInv'
  <2>1. progress = "new" /\ said = "" /\ conv' = conv /\ heard' = heard /\ said' = said /\ progress' # "new"
    <3>1. progress' = IF k < Len(<<[type |-> "created"], [type |-> "in_progress"]>>) THEN "cut" ELSE "streaming"
      BY <1>2 DEF Begin, Emit
    <3>2. progress' # "new"
      BY <3>1
    <3> QED
      BY <1>2, <3>2 DEF Begin, HeardInv, ResponseInv
  <2> QED
    BY <1>1, <2>1 DEF HeardInv
<1>3. ASSUME NEW d \in Deltas, NEW k, Delta(d, k) PROVE HeardInv'
  <2> DEFINE r == ApplyDelta(conv, d)
             events == IF r.ok THEN r.events ELSE r.events \o Finalize(r.conv, TRUE)
  <2>1. /\ progress = "streaming" /\ said = "" /\ ConvOK(conv) /\ Account(sent, AnnouncedBy(conv), {})
        /\ heard \in Seq(Deltas) /\ HeardBy(conv, heard)
    BY <1>3 DEF HeardInv, ResponseInv, Delta
  <2>2. /\ heard' = Append(heard, d) /\ conv' = r.conv /\ said' = said
        /\ progress' = (IF k < Len(events) THEN "cut" ELSE IF r.ok THEN "streaming" ELSE "over")
    BY <1>3 DEF Delta, Emit
  <2> HIDE DEF events
  <2>3. heard' \in Seq(Deltas)
    BY <2>1, <2>2, AppendProperties
  <2>4. r.ok => HeardBy(r.conv, heard')
    BY <2>1, <2>2, DeltaHeard
  <2> HIDE DEF r
  <2>5. progress' # "new" /\ (progress' = "streaming" => r.ok)
    BY <2>2
  <2> QED
    BY <1>1, <2>1, <2>2, <2>3, <2>4, <2>5 DEF HeardInv
<1>4. ASSUME NEW how \in {"done", "eof", "broken", "canceled", "bad"}, NEW k, SourceEnds(how, k) PROVE HeardInv'
  <2>1. progress = "streaming" /\ conv' = conv /\ heard' = heard
    BY <1>4 DEF SourceEnds
  <2>2. progress' \in {"cut", "over"}
    BY <1>4 DEF SourceEnds, Emit
  <2> QED
    BY <1>1, <2>1, <2>2 DEF HeardInv
<1>5. CASE BodyEnds
  BY <1>1, <1>5 DEF BodyEnds, HeardInv
<1>6. CASE UNCHANGED responseVars
  BY <1>1, <1>6 DEF responseVars, HeardInv
<1> QED
  BY <1>2, <1>3, <1>4, <1>5, <1>6 DEF ResponseNext

\* Finitely many calls are heard of.
LEMMA FinitelyManyCalls == heard \in Seq(Deltas) => IsFiniteSet(CallsHeard)
<1> SUFFICES ASSUME heard \in Seq(Deltas) PROVE IsFiniteSet(CallsHeard)
  OBVIOUS
<1> DEFINE f == [x \in CallsHeard |-> CHOOSE j \in OfCall(x) : TRUE]
<1>1. \A x \in CallsHeard : f[x] \in OfCall(x)
  BY DEF CallsHeard
<1>2. \A x \in CallsHeard : f[x] \in DOMAIN heard /\ heard[f[x]].call = x
  BY <1>1 DEF OfCall
<1>3. f \in [CallsHeard -> DOMAIN heard]
  BY <1>2
<1> HIDE DEF f
<1>4. f \in Injection(CallsHeard, DOMAIN heard)
  BY <1>2, <1>3 DEF Injection, IsInjective
<1>5. IsFiniteSet(DOMAIN heard)
  <2>1. DOMAIN heard = 1..Len(heard) /\ Len(heard) \in Nat
    BY LenProperties
  <2> QED
    BY <2>1, FS_Interval
<1> QED
  BY <1>4, <1>5, FS_Injection

\* The numbers of calls that are numbered from 0 are their positions.
LEMMA NumberedFromZero ==
  ASSUME heard \in Seq(Deltas), CallsHeard = 0..(Cardinality(CallsHeard) - 1), NEW c \in CallsHeard
  PROVE  Position(c) = c
<1> DEFINE n == Cardinality(CallsHeard)
           B == {x \in CallsHeard : x < c}
<1>1. n \in Nat
  BY FinitelyManyCalls, FS_CardinalityType
<1>2. CallsHeard = 0..(n - 1)
  OBVIOUS
<1> HIDE DEF n
<1>3. c \in Nat /\ c <= n - 1
  BY <1>1, <1>2
<1>4. B = 0..(c - 1)
  BY <1>1, <1>2, <1>3
<1>5. Cardinality(0..(c - 1)) = c
  <2>1. 0 \in Int /\ c - 1 \in Int
    BY <1>3
  <2>2. Cardinality(0..(c - 1)) = IF 0 > c - 1 THEN 0 ELSE (c - 1) - 0 + 1
    BY <2>1, FS_Interval
  <2> QED
    BY <1>3, <2>2
<1> QED
  BY <1>4, <1>5 DEF Position

\* What is heard is what the operators of the model say of it.
LEMMA HeardIs ==
  /\ \A kind : Count(kind) = CountIn(heard, kind)
  /\ CallsHeard = {x \in Calls : PartsIn(heard, x) # {}}
  /\ \A x : ArgsOf(x) = ArgsIn(heard, x) /\ (GivenID(x) <=> NamedIn(heard, x))
            /\ (NamedAtOnce(x) <=> NamedFirst(heard, x))
<1>1. \A x : OfCall(x) = PartsIn(heard, x)
  BY DEF OfCall, PartsIn
<1>2. \A kind : Count(kind) = CountIn(heard, kind)
  BY DEF Count, CountIn
<1> QED
  BY <1>1, <1>2 DEF CallsHeard, ArgsOf, ArgsIn, GivenID, NamedIn, NamedAtOnce, NamedFirst

\* The invariant says that both ways of answering give the same items.
LEMMA HeardInvIsEnough == HeardInv => SameAsNotStreamed
<1> SUFFICES ASSUME HeardInv,
                    NEW e \in ToSet(sent), e.type = "terminal", said = "done",
                    CallsHeard = 0..(Cardinality(CallsHeard) - 1),
                    \A c \in CallsHeard : ArgsOf(c) > 0 /\ (GivenID(c) => NamedAtOnce(c))
             PROVE  ToSet(e.items) = BuildOutputItems
  BY DEF SameAsNotStreamed
<1>1. ConvOK(conv) /\ HeardBy(conv, heard) /\ heard \in Seq(Deltas)
  BY DEF HeardInv, ResponseInv
<1>2. e.items = OutputItems(conv)
  <2> DEFINE failed == said # "done"
  <2>1. Sound(sent, conv, failed)
    BY DEF HeardInv, ResponseInv
  <2> HIDE DEF failed
  <2>2. e = Terminal(conv, failed)
    BY <2>1 DEF Sound, ToSet
  <2> QED
    BY <2>2 DEF Terminal
<1>3. CallsHeard = {x \in Calls : PartsIn(heard, x) # {}}
  BY HeardIs
<1>4. \A x \in CallsHeard : NamedIn(heard, x) => NamedFirst(heard, x)
  BY HeardIs
<1>5. \A i : i \in BuildOutputItems <=>
        \/ CountIn(heard, "thought") # 0 /\ i = Item(ReasoningID, CountIn(heard, "thought"))
        \/ CountIn(heard, "text") # 0 /\ i = Item(MessageID, CountIn(heard, "text"))
        \/ \E x \in CallsHeard : i = Item(IF NamedIn(heard, x) THEN Given(x) ELSE Fallback(x), ArgsIn(heard, x))
  <2>1. /\ Count("thought") = CountIn(heard, "thought") /\ Count("text") = CountIn(heard, "text")
        /\ CountIn(heard, "thought") \in Nat /\ CountIn(heard, "text") \in Nat
    <3>1. \A kind : CountIn(heard, kind) \in Nat
      <4>1. Text \in Deltas
        BY DEF Deltas
      <4> QED
        BY <1>1, <4>1, OneMoreHeard
    <3> QED
      BY <3>1, HeardIs
  <2>2. \A x \in CallsHeard :
          Item(IF GivenID(x) THEN Given(x) ELSE Fallback(Position(x)), ArgsOf(x))
            = Item(IF NamedIn(heard, x) THEN Given(x) ELSE Fallback(x), ArgsIn(heard, x))
    <3> TAKE x \in CallsHeard
    <3>1. Position(x) = x
      BY <1>1, NumberedFromZero
    <3>2. ArgsOf(x) = ArgsIn(heard, x) /\ (GivenID(x) <=> NamedIn(heard, x))
      BY HeardIs
    <3> QED
      BY <3>1, <3>2
  <2>3. ExtractReasoning = IF CountIn(heard, "thought") # 0 THEN {Item(ReasoningID, CountIn(heard, "thought"))} ELSE {}
    <3> DEFINE n == CountIn(heard, "thought")
    <3>1. Count("thought") = n /\ n \in Nat
      BY <2>1
    <3>2. ExtractReasoning = IF Count("thought") > 0 THEN {Item(ReasoningID, Count("thought"))} ELSE {}
      BY DEF ExtractReasoning
    <3> HIDE DEF n
    <3>3. Count("thought") > 0 <=> n # 0
      BY <3>1
    <3>4. ExtractReasoning = IF n # 0 THEN {Item(ReasoningID, n)} ELSE {}
      BY <3>1, <3>2, <3>3
    <3> QED
      BY <3>4 DEF n
  <2>4. ExtractText = IF CountIn(heard, "text") # 0 THEN {Item(MessageID, CountIn(heard, "text"))} ELSE {}
    <3> DEFINE n == CountIn(heard, "text")
    <3>1. Count("text") = n /\ n \in Nat
      BY <2>1
    <3>2. ExtractText = IF Count("text") > 0 THEN {Item(MessageID, Count("text"))} ELSE {}
      BY DEF ExtractText
    <3> HIDE DEF n
    <3>3. Count("text") > 0 <=> n # 0
      BY <3>1
    <3>4. ExtractText = IF n # 0 THEN {Item(MessageID, n)} ELSE {}
      BY <3>1, <3>2, <3>3
    <3> QED
      BY <3>4 DEF n
  <2>5. \A i : i \in BuildOutputItems <=>
          \/ i \in ExtractReasoning \/ i \in ExtractText
          \/ \E x \in CallsHeard : i = Item(IF GivenID(x) THEN Given(x) ELSE Fallback(Position(x)), ArgsOf(x))
    BY DEF BuildOutputItems
  <2> QED
    BY <2>2, <2>3, <2>4, <2>5
<1>6. ToSet(OutputItems(conv)) = BuildOutputItems
  <2> DEFINE H == CallsHeard
             E == BuildOutputItems
  <2>1. /\ H = {x \in Calls : PartsIn(heard, x) # {}}
        /\ \A x \in Calls : PartsIn(heard, x) # {} /\ NamedIn(heard, x) => NamedFirst(heard, x)
    BY <1>3, <1>4
  <2>2. \A i : i \in E <=>
          \/ CountIn(heard, "thought") # 0 /\ i = Item(ReasoningID, CountIn(heard, "thought"))
          \/ CountIn(heard, "text") # 0 /\ i = Item(MessageID, CountIn(heard, "text"))
          \/ \E x \in H : i = Item(IF NamedIn(heard, x) THEN Given(x) ELSE Fallback(x), ArgsIn(heard, x))
    BY <1>5
  <2> HIDE DEF H, E
  <2>3. \A i : i \in ToSet(OutputItems(conv)) <=>
          \/ CountIn(heard, "thought") # 0 /\ i = Item(ReasoningID, CountIn(heard, "thought"))
          \/ CountIn(heard, "text") # 0 /\ i = Item(MessageID, CountIn(heard, "text"))
          \/ \E x \in {y \in Calls : PartsIn(heard, y) # {}} :
               i = Item(IF NamedIn(heard, x) THEN Given(x) ELSE Fallback(x), ArgsIn(heard, x))
    BY <1>1, <2>1, ListedAsHeard
  <2>4. \A i : i \in ToSet(OutputItems(conv)) <=> i \in E
    BY <2>1, <2>2, <2>3
  <2>5. ToSet(OutputItems(conv)) = E
    BY <2>4
  <2> QED
    BY <2>5 DEF E
<1> QED
  BY <1>2, <1>6

\* A client that asked for a stream and one that did not are given the same items,
\* for every answer of an upstream that numbers its calls from 0 and names each with
\* its first part or never: whatever order the texts, the thoughts and the parts of
\* the calls come in (stream.go:84-266, nonstream.go:128-205).
THEOREM StreamedAsNotStreamed == ResponseSpec => []SameAsNotStreamed
<1>1. ResponseInit => HeardInv
  <2> SUFFICES ASSUME ResponseInit PROVE HeardInv
    OBVIOUS
  <2>1. conv = NoState /\ heard = <<>>
    BY DEF ResponseInit
  <2> QED
    BY <2>1, ResponseInitInv, NothingHeard DEF HeardInv
<1>2. HeardInv /\ [ResponseNext]_responseVars => HeardInv'
  BY HeardNextInv
<1>3. HeardInv => SameAsNotStreamed
  BY HeardInvIsEnough
<1> QED
  BY <1>1, <1>2, <1>3, PTL DEF ResponseSpec
=============================================================================

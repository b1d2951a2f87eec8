----------------------------- MODULE MCStreams -----------------------------
(***************************************************************************)
(* What a request brings and takes away, and what is kept of it: its body, *)
(* a streamed chat answer, a streamed Responses answer, a call of the      *)
(* OpenCode Free gateway, and the records that are written until the       *)
(* process has stopped.  A behaviour is a behaviour of one of the five,    *)
(* the others stay at their beginning.                                     *)
(***************************************************************************)
EXTENDS RequestBody, ChatStream, ResponsesStream, FreeGateway, GracefulStop, TLC

VARIABLE part

MCLengths == {-1, 0, 2, 3}

Init ==
  /\ part \in {"body", "chat", "responses", "gateway", "records"}
  /\ BodyInit /\ ResponseInit /\ StopInit
  /\ StreamInit /\ (part # "chat" => gateway = "nvidia")
  /\ GateInit /\ (part # "gateway" => gate.stream /\ gate.direct)

BodyMoves ==
  part = "body" /\ BodyNext /\ UNCHANGED <<streamVars, responseVars, gateVars, stopVars, part>>
ChatMoves ==
  part = "chat" /\ StreamNext /\ UNCHANGED <<bodyVars, responseVars, gateVars, stopVars, part>>
ResponsesMoves ==
  part = "responses" /\ ResponseNext /\ UNCHANGED <<bodyVars, streamVars, gateVars, stopVars, part>>
GatewayMoves ==
  part = "gateway" /\ GateNext /\ UNCHANGED <<bodyVars, streamVars, responseVars, stopVars, part>>
RecordMoves ==
  part = "records" /\ StopNext /\ UNCHANGED <<bodyVars, streamVars, responseVars, gateVars, part>>

Next == BodyMoves \/ ChatMoves \/ ResponsesMoves \/ GatewayMoves \/ RecordMoves
Spec == Init /\ [][Next]_<<bodyVars, streamVars, responseVars, gateVars, stopVars, part>>

\* The uploads and the records are given the same model values: the parts never
\* meet, and one permutation serves both.
Symmetry == Permutations(Uploads)

\* A Responses stream alone.
ResponsesSpec ==
  Init /\ part = "responses" /\ [][ResponsesMoves]_<<bodyVars, streamVars, responseVars, gateVars, stopVars, part>>
=============================================================================

---------------------------- MODULE ModelProbe ----------------------------
(***************************************************************************)
(* One probe of one model (internal/modelcatalog: service_probe.go and the *)
(* testing half of service.go).  A chat model is asked for an answer, then *)
(* for reasoning in each wire format it might speak, then for a tool call  *)
(* in two forms; every other kind is asked once.  An NVIDIA model is tried *)
(* on a few keys, one after the other.  What the probe concludes about the *)
(* model is written to its row.  An answer is what readProbeChat and the   *)
(* validators tell apart of it.                                            *)
(***************************************************************************)
EXTENDS Naturals, Sequences, FiniteSets

CONSTANTS
  ProbeAttempts, \* the keys one probe may use, const probeAttempts
  MostKeys       \* bound: keys that are available

ASSUME ProbeAssumption == ProbeAttempts \in Nat /\ MostKeys \in Nat

VARIABLES
  subject, \* the model's provider and kind, the wire its row names, the keys there are
  probing  \* where the probe is and what it heard

probeVars == <<subject, probing>>

\* A 408 is a "refusal" here: readProbeChat counts every 4xx but 429 and 436 as one.
Answers == {"transport", "proxy", "transient", "refused", "odd",
            "empty", "malformed", "answer", "tool call"}
WireFormats == {"none", "openai", "thinking"}
Retryable == {"unreachable", "proxy"}

ProbeInit ==
  /\ subject \in [provider : {"nvidia", "opencodefree", "other"}, kind : {"chat", "asr"},
                  wire : WireFormats, keys : 0..MostKeys]
  /\ probing = [at |-> "start", used |-> 0, heard |-> {}, wires |-> <<>>, failures |-> {},
                reasoning |-> "unknown", tools |-> "unknown", canceled |-> FALSE, error |-> "none"]

\* probeReasoning: the row's own format first, then the two known ones, none twice.
WiresToTry ==
  IF subject.wire = "none" THEN <<"openai", "thinking">>
  ELSE <<subject.wire>> \o SelectSeq(<<"openai", "thinking">>, LAMBDA w : w # subject.wire)

KeysToTry == IF subject.keys > ProbeAttempts THEN ProbeAttempts ELSE subject.keys

(***************************************************************************)
(* The verdicts on one answer.                                             *)
(***************************************************************************)
\* The first call of a chat probe: classifyProbeTransport, probeClassError,
\* probeValidationError.  testTargetModel maps errors the same way, except that
\* probeStatusError calls a 408 unreachable.
BaseError(answer) ==
  CASE answer \in {"transport", "transient", "empty"} -> "unreachable"
    [] answer = "proxy" -> "proxy"
    [] answer \in {"refused", "odd", "malformed"} -> "verdict"
    [] OTHER -> "none"

\* A later call: what it was sent with fails as it is, a 5xx fails the reasoning
\* probe but is heard by the tools probe.
CallError(answer) ==
  CASE answer = "transport" -> "other"
    [] answer = "proxy" -> "proxy"
    [] answer \in {"odd", "malformed"} -> "verdict"
    [] answer = "transient" /\ probing.at = "reasoning" -> "unreachable"
    [] OTHER -> "none"

Silences == {"transient", "empty"}

\* Slip: every failure is tried on another key.
AnyFailure(error) == TRUE

\* worthAnotherKey: another credential may do better.
WorthAnotherKey(error) == error \in Retryable

\* probeNVIDIAModel, probeNVIDIAModelDetailed: one key's failure.
KeyFails(error) ==
  IF /\ subject.provider = "nvidia" /\ probing.used < KeysToTry
     /\ ~probing.canceled /\ WorthAnotherKey(error)
  THEN probing' = [probing EXCEPT !.at = "base", !.used = @ + 1, !.failures = @ \cup {error},
                                  !.heard = {}, !.reasoning = "unknown", !.tools = "unknown"]
  ELSE probing' = [probing EXCEPT !.at = "over", !.failures = @ \cup {error},
                                  !.error = IF probing.canceled /\ subject.provider = "nvidia"
                                            THEN "canceled" ELSE error]

(***************************************************************************)
(* The steps of a probe.                                                   *)
(***************************************************************************)
\* TestModelAutoDetailed, TestModelAuto: the row says which provider is asked.
StartProbe ==
  /\ probing.at = "start"
  /\ probing' =
       CASE subject.provider = "other" -> [probing EXCEPT !.at = "over", !.error = "not routable"]
         [] subject.provider = "nvidia" /\ subject.keys = 0 ->
              [probing EXCEPT !.at = "over", !.error = "no key"]
         [] OTHER -> [probing EXCEPT !.at = "base", !.used = 1]
  /\ UNCHANGED subject

\* The row, or the list of keys, cannot be read.
LoadFails ==
  /\ probing.at = "start"
  /\ probing' = [probing EXCEPT !.at = "over", !.error = "not loaded"]
  /\ UNCHANGED subject

\* WithSecret: the key was deleted or cannot be decrypted.
SecretFails ==
  /\ probing.at = "base" /\ subject.provider = "nvidia"
  /\ KeyFails("other")
  /\ UNCHANGED subject

\* probeChatCapabilities' first call, or the only one of testTargetModel and
\* testOpenCodeFreeModel, where nothing is written.
AskBase(answer) ==
  /\ probing.at = "base"
  /\ LET error == BaseError(answer) IN
     IF error # "none" THEN KeyFails(error)
     ELSE IF subject.kind = "chat"
     THEN probing' = [probing EXCEPT !.at = "reasoning", !.wires = WiresToTry]
     ELSE probing' = [probing EXCEPT !.at = "over"]
  /\ UNCHANGED subject

\* probeReasoning's verdict once every format was refused or stayed silent.
ReasoningVerdict(heard) == IF heard \cap Silences # {} THEN "unknown" ELSE "unsupported"

\* probeReasoning, one format.
AskReasoning(answer) ==
  /\ probing.at = "reasoning" /\ probing.wires # <<>>
  /\ LET heard == probing.heard \cup {answer}
         error == CallError(answer)
         rest == Tail(probing.wires) IN
     IF error # "none" THEN KeyFails(error)
     ELSE IF answer \in {"answer", "tool call"}
     THEN \E status \in {"visible", "hidden"} :
            probing' = [probing EXCEPT !.at = "write reasoning", !.reasoning = status, !.heard = heard]
     ELSE IF rest # <<>> THEN probing' = [probing EXCEPT !.wires = rest, !.heard = heard]
     ELSE probing' = [probing EXCEPT !.at = "write reasoning", !.heard = heard, !.wires = rest,
                                     !.reasoning = ReasoningVerdict(heard)]
  /\ UNCHANGED subject

\* applyProbeReasoning, applyProbeTools: an unknown verdict is not written; the
\* write fails when the row is gone or the context has ended.
WriteVerdict(ok) ==
  /\ probing.at \in {"write reasoning", "write tools"}
  /\ LET reasoning == probing.at = "write reasoning"
         verdict == IF reasoning THEN probing.reasoning ELSE probing.tools IN
     /\ (verdict = "unknown") => ok
     /\ (probing.canceled /\ verdict # "unknown") => ~ok
     /\ IF ~ok THEN KeyFails("other")
        ELSE IF reasoning THEN probing' = [probing EXCEPT !.at = "required", !.heard = {}]
        ELSE probing' = [probing EXCEPT !.at = "over"]
  /\ UNCHANGED subject

\* probeTools: after the required form, and after the auto form.
ToolsVerdict(at, heard) ==
  IF "tool call" \in heard THEN "supported"
  ELSE IF heard \cap Silences # {} THEN "unknown"
  ELSE IF at = "required" THEN "ask auto" ELSE "unsupported"

\* attemptToolsProbe, one form.
AskTools(answer) ==
  /\ probing.at \in {"required", "auto"}
  /\ LET heard == probing.heard \cup {answer}
         error == CallError(answer)
         verdict == ToolsVerdict(probing.at, heard) IN
     IF error # "none" THEN KeyFails(error)
     ELSE IF verdict = "ask auto" THEN probing' = [probing EXCEPT !.at = "auto", !.heard = heard]
     ELSE probing' = [probing EXCEPT !.at = "write tools", !.heard = heard, !.tools = verdict]
  /\ UNCHANGED subject

\* The caller gives up, or its deadline passes.
ProbeCanceled ==
  /\ probing.at # "over" /\ ~probing.canceled
  /\ probing' = [probing EXCEPT !.canceled = TRUE]
  /\ UNCHANGED subject

\* A call on an ended context is not answered.
Heard(answer) == probing.canceled => answer = "transport"

ProbeNext ==
  \/ StartProbe
  \/ LoadFails
  \/ SecretFails
  \/ \E answer \in {a \in Answers : Heard(a)} : AskBase(answer) \/ AskReasoning(answer) \/ AskTools(answer)
  \/ \E ok \in BOOLEAN : WriteVerdict(ok)
  \/ ProbeCanceled

(***************************************************************************)
(* Properties.                                                             *)
(***************************************************************************)
\* probeTools, probeReasoning: a capability is only denied when each form was
\* definitely refused or ignored.  An empty answer or a 5xx on any of them, on
\* this key, leaves the row as it is.
NoVerdictFromSilence ==
  /\ (probing.at = "write tools" /\ probing.tools = "unsupported") => probing.heard \cap Silences = {}
  /\ (probing.at = "write reasoning" /\ probing.reasoning = "unsupported") => probing.heard \cap Silences = {}

\* probeNVIDIAModelDetailed, worthAnotherKey: a second credential is only spent when
\* each failure before it could clear on another one, and a caller that gave up or
\* an answer about the model itself ends the rotation.
KeysNotBurned ==
  [][probing'.used > probing.used /\ probing.used > 0
       => ~probing.canceled /\ probing'.failures \subseteq Retryable /\ probing'.used <= ProbeAttempts]_probeVars

\* A probe denies nothing it was not told, and asks further keys only for what
\* another key could answer.
ProbesAreFair == []NoVerdictFromSilence /\ KeysNotBurned
============================================================================

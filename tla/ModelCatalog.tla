---------------------------- MODULE ModelCatalog ----------------------------
(***************************************************************************)
(* One model of the catalogue (internal/modelcatalog, httpapi/admin/       *)
(* models.go) and everybody who writes its row: administrators who save,   *)
(* patch and delete it, who test it by hand to lift a block, the           *)
(* capability probe, and the hourly comparison with the OpenCode Free      *)
(* gateway.  Save, Patch, Delete and the end of a manual test are one      *)
(* transaction each; a manual test and a probe call the upstream between   *)
(* reading and writing, and a probe writes without a transaction.          *)
(***************************************************************************)
EXTENDS Naturals, FiniteSets

CONSTANTS
  Keys,       \* NVIDIA keys that may be blocked for the model
  Targets,    \* upstream ids
  Selections, \* rows an administrator saves
  Patches,    \* fields an administrator changes: a function from some fields to values
  LastSecond, \* bound: the clock
  MostWrites  \* bound: writes of the row

\* type Patch: neither the id, the revision, the tools status nor the verification.
ASSUME CatalogAssumption ==
  \A p \in Patches : DOMAIN p \subseteq {"kind", "provider", "enabled", "tools", "reasoning", "reasoningStatus", "wire"}

VARIABLES
  row,     \* the row of table models, or Absent
  blocks,  \* table nvidia_key_model_blocks: the keys blocked for it
  now,     \* the clock, in seconds
  writes,  \* writes so far
  manual,  \* a manual test: VerifyAndUnblock
  finding, \* a capability probe: TestModelAutoDetailed
  syncing  \* SyncOpenCodeFreeModels

catalogVars == <<row, blocks, now, writes, manual, finding, syncing>>

Absent == [id |-> 0]
Present == row # Absent
RequiresVerification(kind) == kind \in {"asr", "tts"}
NanosPerSecond == 10
IdleTest == [at |-> "idle"]

CatalogInit ==
  /\ row = Absent /\ blocks = {} /\ now = 0 /\ writes = 0
  /\ manual = IdleTest /\ finding = IdleTest /\ syncing = IdleTest

(***************************************************************************)
(* The revision, column updated_at: whole seconds, moved on by a           *)
(* nanosecond when the clock has not passed the previous one.              *)
(***************************************************************************)
FormatRevisionTime(previous) ==
  LET revision == now * NanosPerSecond IN
  IF revision > previous THEN revision ELSE previous + 1

Write(new) ==
  /\ writes < MostWrites
  /\ writes' = writes + 1
  /\ row' = new
  /\ UNCHANGED now

(***************************************************************************)
(* What may be stored: normalizeSelection.                                 *)
(***************************************************************************)
NormalTools(s) ==
  /\ s.toolsStatus \in {"supported", "inferred"} => s.tools
  /\ s.toolsStatus = "unsupported" => ~s.tools
NormalReasoning(s) ==
  /\ s.reasoningStatus \in {"visible", "hidden"} => s.reasoning
  /\ s.reasoningStatus = "unsupported" => ~s.reasoning
  /\ (s.wire = "none") = ~s.reasoning
NormalizeSelection(s) ==
  /\ NormalTools(s) /\ NormalReasoning(s)
  /\ s.enabled /\ RequiresVerification(s.kind) => s.verified

Inferred(supported) == IF supported THEN "inferred" ELSE "unknown"

\* selectionDTO carries neither a tools status nor a verification.
Selected(s) ==
  [kind |-> s.kind, provider |-> s.provider, target |-> s.target, enabled |-> s.enabled,
   tools |-> s.tools, toolsStatus |-> Inferred(s.tools), reasoning |-> s.reasoning,
   reasoningStatus |-> Inferred(s.reasoning), wire |-> IF s.reasoning THEN "openai" ELSE "none",
   verified |-> FALSE]

(***************************************************************************)
(* Administrators: one at a time, mutationMu.                              *)
(***************************************************************************)
ToolsVerdicts == {"supported", "unsupported"}
ReasoningVerdicts == {"visible", "hidden", "unsupported"}

\* Slip: a save replaces the verdicts.
Overwritten(selection, old) == selection

\* saveSelection's ON CONFLICT: a row's verdicts outlive the selection.
KeepVerdicts(selection, old) ==
  LET tools == old.toolsStatus \in ToolsVerdicts
      reasoning == old.reasoningStatus \in ReasoningVerdicts IN
  [selection EXCEPT
     !.tools = IF tools THEN old.tools ELSE @,
     !.toolsStatus = IF tools THEN old.toolsStatus ELSE @,
     !.reasoning = IF reasoning THEN old.reasoning ELSE @,
     !.reasoningStatus = IF reasoning THEN old.reasoningStatus ELSE @,
     !.wire = IF reasoning THEN old.wire ELSE @]

Stored(selection, id, revision) ==
  [id |-> id, rev |-> revision, kind |-> selection.kind, provider |-> selection.provider,
   target |-> selection.target, enabled |-> selection.enabled, tools |-> selection.tools,
   toolsStatus |-> selection.toolsStatus, reasoning |-> selection.reasoning,
   reasoningStatus |-> selection.reasoningStatus, wire |-> selection.wire,
   verified |-> selection.verified]

SaveSelection(input) ==
  LET selection == Selected(input) IN
  /\ NormalizeSelection(selection)
  /\ IF Present
       THEN /\ Write(Stored(KeepVerdicts(selection, row), row.id, FormatRevisionTime(row.rev)))
            /\ blocks' = IF row.kind # selection.kind THEN {} ELSE blocks
       ELSE /\ Write(Stored(selection, writes + 1, now * NanosPerSecond))
            /\ UNCHANGED blocks
  /\ UNCHANGED <<manual, finding, syncing>>

\* applyPatch: a changed capability also changes its status, unless the patch
\* names one.
ApplyPatch(patch) ==
  LET plain == [f \in DOMAIN row |-> IF f \in DOMAIN patch THEN patch[f] ELSE row[f]] IN
  [plain EXCEPT
     !.toolsStatus = IF "tools" \in DOMAIN patch THEN Inferred(patch.tools) ELSE @,
     !.reasoningStatus = IF "reasoning" \in DOMAIN patch /\ "reasoningStatus" \notin DOMAIN patch
                           THEN IF patch.reasoning THEN "inferred" ELSE "unsupported"
                           ELSE @,
     !.verified = @ /\ plain.kind = row.kind]

\* Patch: its UPDATE has no column tools_status, so the row keeps the one it had.
PatchModel(patch) ==
  /\ Present
  /\ LET selection == ApplyPatch(patch) IN
     /\ NormalizeSelection(selection)
     /\ Write([selection EXCEPT !.toolsStatus = row.toolsStatus, !.rev = FormatRevisionTime(row.rev)])
     /\ blocks' = IF row.kind # selection.kind THEN {} ELSE blocks
  /\ UNCHANGED <<manual, finding, syncing>>

DeleteModel ==
  /\ Present
  /\ Write(Absent)
  /\ blocks' = {}
  /\ UNCHANGED <<manual, finding, syncing>>

\* A request found the key unfit for the model.
BlockKeyModel(key) ==
  /\ Present /\ key \notin blocks
  /\ blocks' = blocks \cup {key}
  /\ UNCHANGED <<row, now, writes, manual, finding, syncing>>

(***************************************************************************)
(* A manual test: the row is loaded, the upstream is called, and the row   *)
(* is marked if its revision is still the one that was loaded.             *)
(***************************************************************************)
LoadForTest(key) ==
  /\ manual.at = "idle" /\ Present
  /\ manual' = [at |-> "testing", seen |-> row, key |-> key, setBack |-> FALSE]
  /\ UNCHANGED <<row, blocks, now, writes, finding, syncing>>

TestFails ==
  /\ manual.at = "testing"
  /\ manual' = IdleTest
  /\ UNCHANGED <<row, blocks, now, writes, finding, syncing>>

SameVersion == Present /\ row.id = manual.seen.id /\ row.rev = manual.seen.rev

\* ErrModelNotFound, ErrModelVersionConflict.
VerifyConflicts ==
  /\ manual.at = "testing" /\ ~SameVersion
  /\ manual' = IdleTest
  /\ UNCHANGED <<row, blocks, now, writes, finding, syncing>>

VerifyAndUnblockModel ==
  /\ manual.at = "testing" /\ SameVersion
  /\ IF RequiresVerification(row.kind)
       THEN /\ writes < MostWrites /\ writes' = writes + 1
            /\ row' = [row EXCEPT !.verified = TRUE, !.rev = FormatRevisionTime(row.rev)]
       ELSE UNCHANGED <<row, writes>>
  /\ blocks' = blocks \ {manual.key}
  /\ manual' = IdleTest
  /\ UNCHANGED <<now, finding, syncing>>

(***************************************************************************)
(* A capability probe of an enabled chat model.  Its verdicts are written  *)
(* by applyProbe: the revision is read first, on another connection, the   *)
(* next one is made from it, and the UPDATE names only the id.             *)
(***************************************************************************)
StartFinding ==
  /\ finding.at = "idle" /\ Present /\ row.kind = "chat"
  /\ finding' = [at |-> "probing", id |-> row.id, target |-> row.target]
  /\ UNCHANGED <<row, blocks, now, writes, manual, syncing>>

\* probeReasoning, probeTools: a verdict, or the probe is over.
Updates == {[tools |-> TRUE, toolsStatus |-> "supported"], [tools |-> FALSE, toolsStatus |-> "unsupported"],
            [reasoning |-> TRUE, reasoningStatus |-> "visible", wire |-> "thinking"],
            [reasoning |-> FALSE, reasoningStatus |-> "unsupported", wire |-> "none"]}

ReadRevision(update) ==
  /\ finding.at = "probing"
  /\ IF Present /\ row.id = finding.id
       THEN finding' = [at |-> "writing", id |-> row.id, target |-> finding.target,
                        update |-> update, rev |-> FormatRevisionTime(row.rev)]
       ELSE finding' = IdleTest
  /\ UNCHANGED <<row, blocks, now, writes, manual, syncing>>

FindingEnds ==
  /\ finding.at = "probing"
  /\ finding' = IdleTest
  /\ UNCHANGED <<row, blocks, now, writes, manual, syncing>>

\* History: since a manual test loaded the row, a probe has not moved its revision on.
SetsBack == manual.at = "testing" /\ finding.rev <= row.rev

ApplyProbe ==
  /\ finding.at = "writing"
  /\ IF Present /\ row.id = finding.id
       THEN /\ Write([f \in DOMAIN row |-> IF f \in DOMAIN finding.update THEN finding.update[f]
                                           ELSE IF f = "rev" THEN finding.rev ELSE row[f]])
            /\ manual' = IF SetsBack THEN [manual EXCEPT !.setBack = TRUE] ELSE manual
            /\ finding' = IF "tools" \in DOMAIN finding.update THEN IdleTest
                          ELSE [at |-> "probing", id |-> finding.id, target |-> finding.target]
       ELSE finding' = IdleTest /\ UNCHANGED <<row, now, writes, manual>>
  /\ UNCHANGED <<blocks, syncing>>

(***************************************************************************)
(* SyncOpenCodeFreeModels: the gateway's list is fetched and the catalogue *)
(* is listed, then each stale model is disabled.                           *)
(***************************************************************************)
ListStale(gateway) ==
  /\ syncing.at = "idle" /\ Present
  /\ row.provider = "opencodefree" /\ row.enabled /\ row.target \notin gateway
  /\ syncing' = [at |-> "disabling", id |-> row.id]
  /\ UNCHANGED <<row, blocks, now, writes, manual, finding>>

\* SetEnabled.
DisableStale ==
  /\ syncing.at = "disabling"
  /\ IF Present /\ row.id = syncing.id
       THEN Write([row EXCEPT !.enabled = FALSE, !.rev = FormatRevisionTime(row.rev)])
       ELSE UNCHANGED <<row, now, writes>>
  /\ syncing' = IdleTest
  /\ UNCHANGED <<blocks, manual, finding>>

SecondPasses ==
  /\ now < LastSecond
  /\ now' = now + 1
  /\ UNCHANGED <<row, blocks, writes, manual, finding, syncing>>

CatalogNext ==
  \/ \E s \in Selections : SaveSelection(s)
  \/ \E p \in Patches : PatchModel(p)
  \/ DeleteModel
  \/ \E k \in Keys : BlockKeyModel(k) \/ LoadForTest(k)
  \/ TestFails \/ VerifyConflicts \/ VerifyAndUnblockModel
  \/ StartFinding \/ FindingEnds \/ ApplyProbe
  \/ \E u \in Updates : ReadRevision(u)
  \/ \E gateway \in SUBSET Targets : ListStale(gateway)
  \/ DisableStale
  \/ SecondPasses

(***************************************************************************)
(* Properties.                                                             *)
(***************************************************************************)
\* normalizeSelection, SetEnabled: however saves, kind changes, tests and probes
\* interleave, an audio model that requests may use was verified.
EnabledIsVerified ==
  Present /\ row.enabled /\ RequiresVerification(row.kind) => row.verified

\* formatRevisionTime, VerifyAndUnblock: a manual test that is accepted was made of the
\* row as it stands, whoever saved, patched, disabled, deleted or probed the model in
\* the meantime - as long as no capability probe has set the revision back.  One that
\* read the row before another write does: then the check misses every change of the
\* row since the load, an administrator's patch too.
AcceptedTestIsCurrent ==
  manual.at = "testing" /\ SameVersion /\ ~manual.setBack => row = manual.seen

Patched(fields) == \E p \in Patches : fields \cap DOMAIN p # {} /\ PatchModel(p)
Probed(field) == finding.at = "writing" /\ field \in DOMAIN finding.update /\ ApplyProbe

\* saveSelection, Patch, SetEnabled, VerifyAndUnblock: what a probe found out about
\* tools or reasoning, the flags that requests go by included, is replaced by the next
\* probe, and a save, a disable, a manual test or a patch of other fields does not undo
\* it.  A patch of supports_tools takes the flag away from under the verdict, and one
\* of the reasoning fields replaces the verdict (repository.go:219, 578-600).
VerdictsSurviveSaves ==
  [][Present /\ row'.id = row.id =>
       /\ row.toolsStatus \in ToolsVerdicts =>
            \/ row'.toolsStatus = row.toolsStatus /\ (row'.tools = row.tools \/ Patched({"tools"}))
            \/ Probed("tools")
       /\ row.reasoningStatus \in ReasoningVerdicts =>
            \/ /\ row'.reasoningStatus = row.reasoningStatus
               /\ row'.reasoning = row.reasoning /\ row'.wire = row.wire
            \/ Patched({"reasoning", "reasoningStatus", "wire"})
            \/ Probed("reasoning")]_catalogVars

\* "inferred tools status requires tools support" (normalizeToolsStatus,
\* capabilities.go:94-99): a stored row is one that normalizeSelection accepts, or a
\* later patch is refused for a field that it does not name.
RowStaysPatchable == Present => NormalTools(row) /\ NormalReasoning(row)

\* What is stored of a model was found out about that model as it stands, and is
\* not lost to a write that knew nothing of it.
VerificationHolds == [](EnabledIsVerified /\ AcceptedTestIsCurrent) /\ VerdictsSurviveSaves
=============================================================================

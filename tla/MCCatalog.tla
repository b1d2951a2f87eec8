----------------------------- MODULE MCCatalog -----------------------------
(***************************************************************************)
(* The models: a row of the catalogue, one capability probe, the schedule  *)
(* of the health checks, and the test jobs of the administration page.  A  *)
(* behaviour is a behaviour of one of the four, the others stay at their   *)
(* beginning.                                                              *)
(***************************************************************************)
EXTENDS ModelCatalog, ModelProbe, ModelHealth, ModelTestJobs, TLC

VARIABLE part

Selection(k, t, p, e, c) ==
  [kind |-> k, target |-> t, provider |-> p, enabled |-> e, tools |-> c, reasoning |-> c]
MCSelections ==
  {Selection("chat", 1, "nvidia", TRUE, TRUE), Selection("chat", 2, "opencodefree", TRUE, FALSE),
   Selection("asr", 1, "nvidia", FALSE, FALSE)}
MCPatches ==
  {"kind" :> "asr", "kind" :> "tts", "enabled" :> TRUE, "tools" :> FALSE, "tools" :> TRUE,
   "reasoning" :> FALSE @@ "wire" :> "none"}

Init ==
  /\ part \in {"row", "probe", "health", "jobs"}
  /\ CatalogInit /\ HealthInit /\ JobsInit
  /\ ProbeInit
  /\ Cardinality(listed) = 1
  /\ part # "health" => listed = Keyless
  /\ part # "probe" => subject = [provider |-> "nvidia", kind |-> "chat", wire |-> "none", keys |-> 0]

RowMoves == part = "row" /\ CatalogNext /\ UNCHANGED <<probeVars, healthVars, jobVars, part>>
ProbeMoves == part = "probe" /\ ProbeNext /\ UNCHANGED <<catalogVars, healthVars, jobVars, part>>
HealthMoves == part = "health" /\ HealthNext /\ UNCHANGED <<catalogVars, probeVars, jobVars, part>>
JobMoves == part = "jobs" /\ JobsNext /\ UNCHANGED <<catalogVars, probeVars, healthVars, part>>

Next == RowMoves \/ ProbeMoves \/ HealthMoves \/ JobMoves
Spec == Init /\ [][Next]_<<catalogVars, probeVars, healthVars, jobVars, part>>

Symmetry == Permutations(Jobs)

\* A row of the catalogue alone.
RowSpec == Init /\ part = "row" /\ [][RowMoves]_<<catalogVars, probeVars, healthVars, jobVars, part>>
=============================================================================

---------------------------- MODULE ModelHealth ----------------------------
(***************************************************************************)
(* The model health service (internal/modelhealth): settings that an       *)
(* administrator changes while a loop waits on a timer and on two signals  *)
(* of capacity one, a batch that probes every listed model with a few      *)
(* workers, and the table of each model's latest outcome with the run of   *)
(* failures it ends.  The settings row, the list of models and the key are *)
(* each read once, one after the other, when a batch begins.               *)
(***************************************************************************)
EXTENDS Naturals, Sequences, FiniteSets, SequencesExt

CONSTANTS
  HealthModels, \* models of the catalogue
  Keyless,      \* those of them that are not NVIDIA's: a probe of one needs no key
  Intervals,    \* probe intervals an administrator may choose
  Concurrency,  \* workers of a batch
  MostPatches,  \* bound: changes of the settings
  MostBatches   \* bound: batches

VARIABLES
  settings,  \* the row: enabled, interval
  patching,  \* PatchSettings: "idle", "committed", "woken"
  signals,   \* the channels wake and trigger
  loop,      \* the loop: where it is, its copy of the settings, the armed interval
  batch,     \* RunOnce
  keyring,   \* the NVIDIA keys: "usable", "cooling", "none"
  listed,    \* the models in the catalogue
  probes,    \* table model_health_probes, per model, oldest first
  latest,    \* table model_health_latest
  stopped,   \* the root context is canceled
  owed,      \* an enabling change has returned and no batch has begun since
  unkeyed,   \* there was no key, or the keys could not be asked for, at some time
  patches, batches \* counters of the bounds

healthVars == <<settings, patching, signals, loop, batch, keyring, listed, probes, latest,
                stopped, owed, unkeyed, patches, batches>>

adminVars == <<settings, patching, patches>>
tableVars == <<listed, probes, latest>>
keyVars == <<keyring, unkeyed>>

Default == CHOOSE i \in Intervals : TRUE
NoBatch == [at |-> "none"]
NoLatest == [outcome |-> "none", code |-> "", run |-> 0]

HealthInit ==
  /\ settings = [enabled |-> FALSE, interval |-> Default]
  /\ patching = "idle" /\ signals = {} /\ batch = NoBatch
  /\ loop = [at |-> "start", copy |-> [enabled |-> FALSE, interval |-> Default], armed |-> Default, stale |-> FALSE]
  /\ keyring = "usable" /\ listed \in SUBSET HealthModels
  /\ probes = [m \in HealthModels |-> <<>>] /\ latest = [m \in HealthModels |-> NoLatest]
  /\ stopped = FALSE /\ owed = FALSE /\ unkeyed = FALSE /\ patches = 0 /\ batches = 0

(***************************************************************************)
(* The administrator: PatchSettings commits, wakes the loop and, when the  *)
(* probes are on, asks for a batch.                                        *)
(***************************************************************************)
CommitSettings(new) ==
  /\ patching = "idle" /\ patches < MostPatches
  /\ settings' = new /\ patching' = "committed" /\ patches' = patches + 1
  /\ UNCHANGED <<tableVars, keyVars, signals, loop, batch, stopped, owed, batches>>

\* A signal that is already pending is not sent twice.
Signalled(signal) == signals \cup {signal}

\* Slip: turning the probes off wakes nobody.
WakeIfEnabled == IF settings.enabled THEN signals \cup {"wake"} ELSE signals

\* The wake-up is for everyone, also when the probes were turned off.
Woken == signals \cup {"wake"}

SendWake ==
  /\ patching = "committed"
  /\ signals' = Woken
  /\ patching' = "woken"
  /\ UNCHANGED <<tableVars, keyVars, settings, loop, batch, stopped, owed, patches, batches>>

RunNow ==
  /\ patching = "woken"
  /\ signals' = IF settings.enabled THEN Signalled("trigger") ELSE signals
  /\ owed' = (owed \/ settings.enabled)
  /\ patching' = "idle"
  /\ UNCHANGED <<tableVars, keyVars, settings, loop, batch, stopped, patches, batches>>

(***************************************************************************)
(* The loop.                                                               *)
(***************************************************************************)
\* LoadSettings fails: the defaults first, later the copy the loop already has.
LoopStarts(ok) ==
  /\ loop.at = "start"
  /\ LET copy == IF ok THEN settings ELSE [enabled |-> FALSE, interval |-> Default] IN
     /\ loop' = [at |-> "waiting", copy |-> copy, armed |-> copy.interval, stale |-> ~ok]
     /\ signals' = IF copy.enabled THEN Signalled("trigger") ELSE signals
  /\ UNCHANGED <<adminVars, tableVars, keyVars, batch, stopped, owed, batches>>

BeginBatch == batch' = [at |-> "settings"] /\ batches < MostBatches /\ batches' = batches + 1

TakeTrigger ==
  /\ loop.at = "waiting" /\ "trigger" \in signals
  /\ signals' = signals \ {"trigger"}
  /\ loop' = [loop EXCEPT !.at = "probing"]
  /\ BeginBatch
  /\ UNCHANGED <<adminVars, tableVars, keyVars, stopped, owed>>

TakeWake ==
  /\ loop.at = "waiting" /\ "wake" \in signals
  /\ signals' = signals \ {"wake"}
  /\ loop' = [loop EXCEPT !.at = "reload"]
  /\ UNCHANGED <<adminVars, tableVars, keyVars, batch, stopped, owed, batches>>

\* reloadSettings, then the timer is armed again.
ReloadSettings(ok) ==
  /\ loop.at = "reload"
  /\ LET copy == IF ok THEN settings ELSE loop.copy IN
     loop' = [at |-> "waiting", copy |-> copy, armed |-> copy.interval, stale |-> ~ok]
  /\ UNCHANGED <<adminVars, tableVars, keyVars, signals, batch, stopped, owed, batches>>

\* The timer: reload, probe when the probes are on.
TimerFires(ok) ==
  /\ loop.at = "waiting"
  /\ LET copy == IF ok THEN settings ELSE loop.copy IN
     IF copy.enabled
       THEN /\ loop' = [loop EXCEPT !.at = "probing", !.copy = copy, !.stale = ~ok]
            /\ BeginBatch
       ELSE /\ loop' = [loop EXCEPT !.copy = copy, !.armed = copy.interval, !.stale = ~ok]
            /\ UNCHANGED <<batch, batches>>
  /\ UNCHANGED <<adminVars, tableVars, keyVars, signals, stopped, owed>>

LoopStops ==
  /\ loop.at = "waiting" /\ stopped
  /\ loop' = [loop EXCEPT !.at = "stopped"]
  /\ UNCHANGED <<adminVars, tableVars, keyVars, signals, batch, stopped, owed, batches>>

(***************************************************************************)
(* RunOnce.                                                                *)
(***************************************************************************)
BatchOver ==
  /\ batch' = NoBatch
  /\ loop' = [loop EXCEPT !.at = "waiting", !.armed = loop.copy.interval]

\* The settings or the list of models cannot be read.
BatchFails ==
  /\ batch.at \in {"settings", "list"}
  /\ BatchOver
  /\ owed' = (owed /\ batch.at = "list")
  /\ UNCHANGED <<adminVars, tableVars, keyVars, signals, stopped, batches>>

ReadSettings ==
  /\ batch.at = "settings"
  /\ batch' = [at |-> "list"] /\ owed' = FALSE
  /\ UNCHANGED <<adminVars, tableVars, keyVars, signals, loop, stopped, batches>>

Feeding(models, key) == [at |-> "feeding", todo |-> models, key |-> key, busy |-> {}]

\* selectNVIDIAKey asks for a key if there is a model that needs one.
ListModels ==
  /\ batch.at = "list"
  /\ batch' = IF listed \subseteq Keyless THEN Feeding(listed, "not needed") ELSE [at |-> "key", todo |-> listed]
  /\ UNCHANGED <<adminVars, tableVars, keyVars, signals, loop, stopped, owed, batches>>

\* selectNVIDIAKey: FirstEnabledID does not see a cooling key.
FirstEnabledID(ok) ==
  /\ batch.at = "key"
  /\ batch' = CASE ~ok -> Feeding(batch.todo, "source failed")
                [] ok /\ keyring = "usable" -> Feeding(batch.todo, "usable")
                [] OTHER -> [batch EXCEPT !.at = "count"]
  /\ unkeyed' = (unkeyed \/ ~ok)
  /\ UNCHANGED <<adminVars, tableVars, signals, loop, keyring, stopped, owed, batches>>

\* CountEnabled counts the cooling ones too.  It may fail.
Counted == IF keyring = "none" THEN "missing" ELSE "cooling"

CountEnabled(ok) ==
  /\ batch.at = "count"
  /\ batch' = Feeding(batch.todo, IF ok THEN Counted ELSE "missing")
  /\ unkeyed' = (unkeyed \/ ~ok)
  /\ UNCHANGED <<adminVars, tableVars, signals, loop, keyring, stopped, owed, batches>>

HandOver(m) ==
  /\ batch.at = "feeding" /\ m \in batch.todo /\ Cardinality(batch.busy) < Concurrency
  /\ batch' = [batch EXCEPT !.todo = @ \ {m}, !.busy = @ \cup {m}]
  /\ UNCHANGED <<adminVars, tableVars, keyVars, signals, loop, stopped, owed, batches>>

\* The feeder sees the canceled context first.
FeederStops ==
  /\ batch.at = "feeding" /\ batch.todo # {} /\ stopped
  /\ batch' = [batch EXCEPT !.todo = {}]
  /\ UNCHANGED <<adminVars, tableVars, keyVars, signals, loop, stopped, owed, batches>>

ErrorCode == CASE batch.key = "cooling" -> "keys_cooling"
               [] batch.key = "missing" -> "no_credential"
               [] OTHER -> "key_source_unavailable"

\* probeOne, classifyModelProbeError: a model that lacks its key is not called, and a
\* provider may turn out not to be configured.  A canceled context overrides what was
\* found.
Outcome(m, result) ==
  CASE stopped -> [outcome |-> "canceled", code |-> "canceled"]
    [] ~stopped /\ m \notin Keyless /\ batch.key # "usable" -> [outcome |-> "skipped", code |-> ErrorCode]
    [] OTHER -> [outcome |-> result, code |-> IF result = "skipped" THEN "provider_not_configured" ELSE ""]

\* nextConsecutiveFailures: what is not a failure ends the run.
NextConsecutiveFailures(m, outcome) == IF outcome \in {"failure", "timeout"} THEN latest[m].run + 1 ELSE 0

\* Record: both tables in one transaction.  The row of a deleted model is refused,
\* and nothing is written; a canceled outcome is written on a context of its own.
RecordProbe(m, result) ==
  /\ batch.at = "feeding" /\ m \in batch.busy
  /\ result = "skipped" => m \in Keyless
  /\ batch' = [batch EXCEPT !.busy = @ \ {m}]
  /\ LET event == Outcome(m, result) IN
     IF m \in listed
       THEN /\ probes' = [probes EXCEPT ![m] = Append(@, event)]
            /\ latest' = [latest EXCEPT ![m] = [outcome |-> event.outcome, code |-> event.code,
                                                run |-> NextConsecutiveFailures(m, event.outcome)]]
       ELSE UNCHANGED <<probes, latest>>
  /\ UNCHANGED <<adminVars, keyVars, signals, loop, listed, stopped, owed, batches>>

\* The row is lost: the database is busy, or the context ends during the write.
RecordFails(m) ==
  /\ batch.at = "feeding" /\ m \in batch.busy
  /\ batch' = [batch EXCEPT !.busy = @ \ {m}]
  /\ UNCHANGED <<adminVars, tableVars, keyVars, signals, loop, stopped, owed, batches>>

\* workers.Wait, then pruneProbeHistory drops what is older than the retention.
BatchEnds(old) ==
  /\ batch.at = "feeding" /\ batch.todo = {} /\ batch.busy = {}
  /\ BatchOver
  /\ probes' = IF stopped THEN probes
               ELSE [m \in HealthModels |-> SubSeq(probes[m], 1 + old[m], Len(probes[m]))]
  /\ UNCHANGED <<adminVars, keyVars, signals, listed, latest, stopped, owed, batches>>

(***************************************************************************)
(* Everyone else: requests put keys on cooldown, administrators delete     *)
(* keys and models, the process shuts down.                                *)
(***************************************************************************)
KeyringChanges(to) ==
  /\ batch.at # "none"    \* nobody looks at the keys before a batch has begun
  /\ keyring' = to /\ keyring # to
  /\ unkeyed' = (unkeyed \/ to = "none")
  /\ UNCHANGED <<adminVars, tableVars, signals, loop, batch, stopped, owed, batches>>

ModelDeleted(m) ==
  /\ m \in listed
  /\ listed' = listed \ {m}
  /\ probes' = [probes EXCEPT ![m] = <<>>] /\ latest' = [latest EXCEPT ![m] = NoLatest]
  /\ UNCHANGED <<adminVars, keyVars, signals, loop, batch, stopped, owed, batches>>

HealthStops ==
  /\ ~stopped /\ stopped' = TRUE
  /\ UNCHANGED <<adminVars, tableVars, keyVars, signals, loop, batch, owed, batches>>

Olds == [HealthModels -> 0..1]

LoopStep ==
  \/ \E ok \in BOOLEAN : LoopStarts(ok) \/ ReloadSettings(ok)
  \/ TakeTrigger \/ TakeWake \/ LoopStops
BatchStep ==
  \/ BatchFails \/ ReadSettings \/ ListModels \/ FeederStops
  \/ \E ok \in BOOLEAN : FirstEnabledID(ok) \/ CountEnabled(ok)
  \/ \E m \in HealthModels : HandOver(m) \/ RecordFails(m)
                             \/ \E r \in {"success", "failure", "timeout", "skipped"} : RecordProbe(m, r)
  \/ \E old \in {o \in Olds : \A m \in HealthModels : o[m] <= Len(probes[m])} : BatchEnds(old)
PatchStep == SendWake \/ RunNow

HealthNext ==
  \/ \E new \in [enabled : BOOLEAN, interval : Intervals] : CommitSettings(new)
  \/ PatchStep \/ LoopStep \/ BatchStep
  \/ \E ok \in BOOLEAN : TimerFires(ok)
  \/ \E to \in {"usable", "cooling", "none"} : KeyringChanges(to)
  \/ \E m \in HealthModels : ModelDeleted(m)
  \/ HealthStops

(***************************************************************************)
(* Properties.                                                             *)
(***************************************************************************)
\* PatchSettings, loop: the wake-up is not lost, however it meets the loop's own
\* reading of the row.  A loop that waits with none pending uses the settings that
\* are stored, unless it could not read them.
ScheduleIsCurrent ==
  loop.at = "waiting" /\ "wake" \notin signals /\ patching # "committed" /\ ~loop.stale
    => loop.copy = settings /\ loop.armed = settings.interval

\* PatchSettings, RunNow: "Enabling the feature should produce a first status snapshot
\* promptly".  Requests for a batch may coalesce, but the one that is kept has not yet
\* read the settings.
EnablingIsProbed ==
  owed => "trigger" \in signals \/ batch.at = "settings" \/ loop.at = "stopped"

\* Every failure that ends in a table is classified from what the table says: the run
\* of failures of a model is the run its history ends with.
TrailingFailures(history) ==
  LET Fails(i) == \A j \in i..Len(history) : history[j].outcome \in {"failure", "timeout"}
  IN Cardinality({i \in 1..Len(history) : Fails(i)})
RunMatchesHistory ==
  \A m \in HealthModels :
    LET run == TrailingFailures(probes[m]) IN
    /\ latest[m].run >= run
    /\ run < Len(probes[m]) => latest[m].run = run
    /\ Len(probes[m]) > 0 => latest[m].outcome = Last(probes[m]).outcome

\* ClassifyStatus: what the summary shows of a skipped model.
SkippedStatus(m) == IF latest[m].code = "keys_cooling" THEN "unavailable" ELSE "unconfigured"

\* selectNVIDIAKey, ClassifyStatus: while there are keys that can be asked for, cooling
\* or not, no model that needs one is shown as unconfigured, although the two queries
\* that tell a cooling key from a missing one are not made at one moment.
CoolingIsNotMissing ==
  (\E m \in HealthModels \ Keyless : latest[m].outcome = "skipped" /\ SkippedStatus(m) = "unconfigured") => unkeyed

\* The schedule is the stored one, an enabled check is made, and what is shown
\* of a model agrees with its history and its keys.
HealthIsTrue ==
  ScheduleIsCurrent /\ EnablingIsProbed /\ RunMatchesHistory /\ CoolingIsNotMissing
=============================================================================

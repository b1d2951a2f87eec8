---------------------------- MODULE RecordBuffer ----------------------------
(***************************************************************************)
(* The buffer of request records (internal/observability/buffer.go): every *)
(* request puts its record into a bounded channel, one flusher gathers     *)
(* records and writes them in batches, retries, answers ForceFlush, and    *)
(* drains what is left when it stops.  A batch is one transaction of       *)
(* Repository.RecordBatch: all of it is stored, or nothing.                *)
(***************************************************************************)
EXTENDS Naturals, SequencesExt

CONSTANTS
  Records,      \* one request each
  Flushes,      \* calls of ForceFlush
  Capacity,     \* of the channel
  BatchSize,
  FlushRetries

\* NewBufferRecorder replaces a batch size below one by its default; the flusher
\* writes for a call of ForceFlush, for itself or for the drain.
ASSUME RecordAssumption == BatchSize \in Nat \ {0} /\ Flushes \cap {"itself", "drain"} = {}

VARIABLES
  record,      \* per request: "handled", "checked" (holds recordMu for reading), or how Record ended
  channel,     \* records
  stopping,
  flusher,     \* Run: where it is, for whom it writes, the batch's failures
  gathered,    \* pending, or what is left of it while it is written
  stored,      \* the table, in the order of writing
  table,       \* "up", "down" or "closed"
  runCanceled, \* the context of Run
  drainOver,   \* drainTimeout has passed
  force        \* per call of ForceFlush: where it is, the records accepted before it

recordVars ==
  <<record, channel, stopping, flusher, gathered, stored, table, runCanceled, drainOver, force>>

Accepted == {r \in Records : record[r] = "accepted"}
NoFlush == [at |-> "idle", before |-> {}]

RecorderInit ==
  /\ record = [r \in Records |-> "handled"]
  /\ channel = <<>> /\ stopping = FALSE
  /\ flusher = [at |-> "off", by |-> "itself", failures |-> 0]
  /\ gathered = <<>> /\ stored = <<>> /\ table = "up"
  /\ runCanceled = FALSE /\ drainOver = FALSE
  /\ force = [f \in Flushes |-> NoFlush]

(***************************************************************************)
(* Record, as the middleware calls it when its request is over.            *)
(***************************************************************************)
RecordChecks(r) ==
  /\ record[r] = "handled"
  /\ record' = [record EXCEPT ![r] = IF stopping THEN "refused" ELSE "checked"]
  /\ UNCHANGED <<channel, stopping, flusher, gathered, stored, table, runCanceled, drainOver, force>>

RecordSends(r) ==
  /\ record[r] = "checked"
  /\ IF Len(channel) < Capacity
       THEN channel' = Append(channel, r) /\ record' = [record EXCEPT ![r] = "accepted"]
       ELSE record' = [record EXCEPT ![r] = "dropped"] /\ UNCHANGED channel
  /\ UNCHANGED <<stopping, flusher, gathered, stored, table, runCanceled, drainOver, force>>

(***************************************************************************)
(* ForceFlush.                                                             *)
(***************************************************************************)
\* A buffer that was never started keeps its records and says nothing.
FlushAsked(f) ==
  /\ force[f].at = "idle"
  /\ force' = [force EXCEPT ![f] =
       [at |-> IF flusher.at = "off" THEN "skipped" ELSE "handing", before |-> Accepted]]
  /\ UNCHANGED <<record, channel, stopping, flusher, gathered, stored, table, runCanceled, drainOver>>

\* There is no flusher left to hand it to, and no error.
FlushAfterStop(f) ==
  /\ force[f].at = "handing" /\ flusher.at = "over"
  /\ force' = [force EXCEPT ![f].at = "stopped"]
  /\ UNCHANGED <<record, channel, stopping, flusher, gathered, stored, table, runCanceled, drainOver>>

FlushGivenUp(f) ==
  /\ force[f].at \in {"handing", "waiting"}
  /\ force' = [force EXCEPT ![f].at = "gone"]
  /\ UNCHANGED <<record, channel, stopping, flusher, gathered, stored, table, runCanceled, drainOver>>

(***************************************************************************)
(* The flusher's loop.                                                     *)
(***************************************************************************)
RunStarts ==
  /\ flusher.at = "off"
  /\ flusher' = [flusher EXCEPT !.at = "loop"]
  /\ UNCHANGED <<record, channel, stopping, gathered, stored, table, runCanceled, drainOver, force>>

\* slurp: up to a batch, from the channel.
Slurped(from, more) == from \o SubSeq(more, 1, Min({Len(more), BatchSize - Len(from)}))
Left(from, more) == SubSeq(more, 1 + Min({Len(more), BatchSize - Len(from)}), Len(more))

Writes(for) == flusher' = [at |-> "write", by |-> for, failures |-> 0]

\* While a batch is full nothing more is taken.
TakeRecord ==
  /\ flusher.at = "loop" /\ Len(gathered) < BatchSize /\ channel # <<>>
  /\ gathered' = Append(gathered, Head(channel))
  /\ channel' = Tail(channel)
  /\ IF Len(gathered') >= BatchSize THEN Writes("itself") ELSE UNCHANGED flusher
  /\ UNCHANGED <<record, stopping, stored, table, runCanceled, drainOver, force>>

TimerFires ==
  /\ flusher.at = "loop" /\ gathered # <<>>
  /\ IF Len(gathered) < BatchSize
       THEN gathered' = Slurped(gathered, channel) /\ channel' = Left(gathered, channel)
       ELSE UNCHANGED <<gathered, channel>>
  /\ Writes("itself")
  /\ UNCHANGED <<record, stopping, stored, table, runCanceled, drainOver, force>>

\* Slip: what is still in the channel is not flushed.
OnlyGathered == gathered

\* A handed-over flush writes what was gathered and all that is in the channel.
Everything == gathered \o channel
Forced(f) ==
  /\ flusher.at = "loop" /\ force[f].at = "handing"
  /\ gathered' = Everything
  /\ channel' = SubSeq(channel, 1 + Len(gathered') - Len(gathered), Len(channel))
  /\ force' = [force EXCEPT ![f].at = "waiting"]
  /\ Writes(f)
  /\ UNCHANGED <<record, stopping, stored, table, runCanceled, drainOver>>

LoopEnds ==
  /\ flusher.at = "loop" /\ (runCanceled \/ stopping)
  /\ flusher' = [flusher EXCEPT !.at = "marking"]
  /\ UNCHANGED <<record, channel, stopping, gathered, stored, table, runCanceled, drainOver, force>>

(***************************************************************************)
(* recordBatchWithRetry, flushPending, flushRecords.                       *)
(***************************************************************************)
\* Whose context bounds the writing.
ContextDone ==
  CASE flusher.by = "itself" -> runCanceled
    [] flusher.by = "drain" -> drainOver
    [] OTHER -> force[flusher.by].at = "gone"

StoreBatch ==
  LET n == Min({BatchSize, Len(gathered)}) IN
  /\ flusher.at = "write" /\ gathered # <<>>
  /\ table = "up" /\ ~ContextDone
  /\ stored' = stored \o SubSeq(gathered, 1, n)
  /\ gathered' = SubSeq(gathered, n + 1, Len(gathered))
  /\ flusher' = [flusher EXCEPT !.failures = 0]
  /\ UNCHANGED <<record, channel, stopping, table, runCanceled, drainOver, force>>

StoreRetried ==
  /\ flusher.at = "write" /\ gathered # <<>>
  /\ table # "up" /\ ~ContextDone /\ flusher.failures < FlushRetries
  /\ flusher' = [flusher EXCEPT !.failures = @ + 1]
  /\ UNCHANGED <<record, channel, stopping, gathered, stored, table, runCanceled, drainOver, force>>

\* Slip: the drain goes on until the table is back.
NeverGivesUp(ok) == FALSE

\* A drain whose time is up leaves what it could not write.
DrainGivesUp(ok) == ~ok /\ drainOver

\* The writing ends: all is stored, the retries are used up, or its context is over.
WriteEnds ==
  LET ok == gathered = <<>> IN
  /\ flusher.at = "write"
  /\ ok \/ ContextDone \/ (table # "up" /\ flusher.failures = FlushRetries)
  /\ flusher' = [at |-> CASE flusher.by # "drain" -> "loop"
                          [] flusher.by = "drain" /\ DrainGivesUp(ok) -> "over"
                          [] OTHER -> "drain",
                 by |-> "itself", failures |-> 0]
  /\ force' = [f \in Flushes |->
       IF flusher.by = f /\ force[f].at = "waiting"
         THEN [force[f] EXCEPT !.at = IF ok THEN "flushed" ELSE "failed"] ELSE force[f]]
  /\ UNCHANGED <<record, channel, stopping, gathered, stored, table, runCanceled, drainOver>>

(***************************************************************************)
(* Stopping.                                                               *)
(***************************************************************************)
\* markStopping takes recordMu for writing: no Record is between check and send.
NoRecordUnderWay == \A r \in Records : record[r] # "checked"
MarkStopping ==
  /\ flusher.at = "marking" /\ NoRecordUnderWay
  /\ stopping' = TRUE
  /\ flusher' = [flusher EXCEPT !.at = "drain"]
  /\ UNCHANGED <<record, channel, gathered, stored, table, runCanceled, drainOver, force>>

Drain ==
  /\ flusher.at = "drain"
  /\ IF Len(gathered) < BatchSize
       THEN gathered' = Slurped(gathered, channel) /\ channel' = Left(gathered, channel)
       ELSE UNCHANGED <<gathered, channel>>
  /\ IF gathered' = <<>> THEN flusher' = [flusher EXCEPT !.at = "over"] ELSE Writes("drain")
  /\ UNCHANGED <<record, stopping, stored, table, runCanceled, drainOver, force>>

DrainTimesOut ==
  /\ ~drainOver /\ (flusher.at = "drain" \/ (flusher.at = "write" /\ flusher.by = "drain"))
  /\ drainOver' = TRUE
  /\ UNCHANGED <<record, channel, stopping, flusher, gathered, stored, table, runCanceled, force>>

\* Whether the table is up makes a difference while a batch is written.
TableTurns ==
  /\ table # "closed" /\ flusher.at = "write"
  /\ table' = IF table = "up" THEN "down" ELSE "up"
  /\ UNCHANGED <<record, channel, stopping, flusher, gathered, stored, runCanceled, drainOver, force>>

FlusherStep ==
  \/ RunStarts \/ TakeRecord \/ TimerFires \/ (\E f \in Flushes : Forced(f)) \/ LoopEnds
  \/ StoreBatch \/ StoreRetried \/ WriteEnds \/ MarkStopping \/ Drain

RecorderNext ==
  \/ \E r \in Records : RecordChecks(r) \/ RecordSends(r)
  \/ \E f \in Flushes : FlushAsked(f) \/ FlushAfterStop(f) \/ FlushGivenUp(f)
  \/ FlusherStep \/ DrainTimesOut \/ TableTurns

(***************************************************************************)
(* Properties.                                                             *)
(***************************************************************************)
\* Every accepted record is in exactly one place - the channel, the flusher's
\* hands or the table - and once the flusher is over it is in the table, unless
\* the drain ran out of time (buffer.go:165-179, 229-234, 281-411).
AcceptedIsKept ==
  LET everywhere == stored \o gathered \o channel IN
  /\ IsInjective(everywhere) /\ ToSet(everywhere) = Accepted
  /\ (flusher.at = "over" /\ ~drainOver) => ToSet(stored) = Accepted

\* A ForceFlush that the flusher answers with success has made every record
\* visible that was accepted before it was called, also when it races with the
\* stop.  One that is answered because the flusher is over reports a success too,
\* and that covers them only if the drain was not cut short (buffer.go:246-279,
\* 310-323, 405-411).
FlushCovers ==
  \A f \in Flushes :
    /\ force[f].at = "flushed" => force[f].before \subseteq ToSet(stored)
    /\ force[f].at = "stopped" =>
         flusher.at = "over" /\ (drainOver \/ force[f].before \subseteq ToSet(stored))

\* A ForceFlush ends although the flusher it is handed to may be writing, leaving
\* its loop, or gone, and the table down (buffer.go:246-279, 310-323).
FlushesEnd ==
  \A f \in Flushes : (force[f].at = "handing") ~> (force[f].at \in {"flushed", "failed", "stopped", "gone"})
=============================================================================

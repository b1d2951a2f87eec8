--------------------------- MODULE CatalogProofs ---------------------------
(***************************************************************************)
(* The safety of the catalogue's four parts, for every instance: the model *)
(* test jobs, for every set of jobs, models and workers; a probe, for      *)
(* every set of keys and every answer; the catalogue's row, for every      *)
(* patch and every order of probes and edits; the health of a model, for   *)
(* every history of checks.                                                *)
(***************************************************************************)
EXTENDS ModelCatalog, ModelProbe, ModelHealth, ModelTestJobs, TLAPS, FiniteSetTheorems, SequenceTheorems

----------------------------------------------------------------------------
(* The test jobs.                                                          *)

Statuses == {"none", "queued", "running", "cancelled", "completed", "failed"}
Results == {"queued", "running", "success", "failed", "cancelled"}
JobRecord ==
  [status : Statuses, cancel : BOOLEAN, completed : Nat, results : [Indices -> Results]]

RunnerRecord ==
  [at : {"none", "start", "feeding", "closed", "over"}, next : 1..(Total + 1)]

JobsTypeOK ==
  /\ job \in [Jobs -> JobRecord]
  /\ jobTable \subseteq Jobs
  /\ runner \in [Jobs -> RunnerRecord]
  /\ DOMAIN testing = Jobs /\ testing = [j \in Jobs |-> testing[j]]

\* What the status of a job says of its goroutine.
StatusIsRunner(j) ==
  /\ job[j].cancel <=> job[j].status = "cancelled"
  /\ runner[j].at = "none" <=> job[j].status = "none"
  /\ job[j].status = "queued" => runner[j].at = "start"
  /\ job[j].status = "running" => runner[j].at \in {"feeding", "closed"}
  /\ job[j].status \in {"completed", "failed"} => runner[j].at = "over"
  /\ runner[j].at = "over" => Busy(j) = {} /\ job[j].status \in {"completed", "failed", "cancelled"}
  /\ runner[j].at \in {"none", "start"} => runner[j].next = 1 /\ Busy(j) = {}
  /\ runner[j].at \in {"closed", "over"} => runner[j].next = Total + 1

\* Where the results of a job that was not canceled stand: what was not handed
\* over yet is queued, what a worker holds is queued or running, the rest is over.
ResultsAreTracked(j) ==
  /\ \A i \in Busy(j) : i < runner[j].next
  /\ job[j].cancel => \A i \in Indices : ResultTerminal(job[j].results[i])
  /\ ~job[j].cancel =>
       \A i \in Indices :
         /\ i \in Busy(j) /\ testing[j][i] = "taken" => job[j].results[i] = "queued"
         /\ i \in Busy(j) /\ testing[j][i] = "testing" => job[j].results[i] = "running"
         /\ i >= runner[j].next => job[j].results[i] = "queued"
         /\ i < runner[j].next /\ i \notin Busy(j) => job[j].results[i] \in {"success", "failed"}

\* A job that ended by itself says whether a model failed.
EndIsTrue(j) ==
  job[j].status \in {"completed", "failed"} =>
    (job[j].status = "failed" <=> \E i \in Indices : job[j].results[i] = "failed")

\* The inductive invariant, for one job.
JobInv(j) ==
  /\ Busy(j) \subseteq Indices /\ \A i \in Busy(j) : testing[j][i] \in {"taken", "testing"}
  /\ job[j].completed = Cardinality(Terminal(j))
  /\ StatusIsRunner(j) /\ ResultsAreTracked(j) /\ EndIsTrue(j)

JobsInv == JobsTypeOK /\ \A j \in Jobs : JobInv(j)

JobsSpec == JobsInit /\ [][JobsNext]_jobVars

\* A job that a step leaves alone keeps its part of the invariant.
LEMMA OtherJobs ==
  ASSUME NEW j \in Jobs, JobInv(j),
         job'[j] = job[j], runner'[j] = runner[j], testing'[j] = testing[j]
  PROVE  JobInv(j)'
<1>1. Busy(j)' = Busy(j) /\ Terminal(j)' = Terminal(j)
  BY DEF Busy, Terminal
<1> QED
  BY <1>1 DEF JobInv, StatusIsRunner, ResultsAreTracked, EndIsTrue

\* The models with a result are a finite set; one more result is one more member,
\* and a set of all models counts Total.
LEMMA TerminalCount ==
  ASSUME NEW j \in Jobs
  PROVE  /\ IsFiniteSet(Terminal(j)) /\ Cardinality(Terminal(j)) \in Nat
         /\ \A i \in Indices \ Terminal(j) :
              Cardinality(Terminal(j) \cup {i}) = Cardinality(Terminal(j)) + 1
         /\ Cardinality({}) = 0 /\ Cardinality(Indices) = Total
<1>1. IsFiniteSet(Indices) /\ Cardinality(Indices) = Total
  BY TotalIsNat, FS_Interval DEF Indices
<1>2. IsFiniteSet(Terminal(j))
  BY <1>1, FS_Subset DEF Terminal
<1> QED
  BY <1>1, <1>2, FS_EmptySet, FS_CardinalityType, FS_AddElement

\* There is no job at the start.
LEMMA JobsInitInv == JobsInit => JobsInv
<1> SUFFICES ASSUME JobsInit PROVE JobsInv
  OBVIOUS
<1>1. JobsTypeOK
  BY TotalIsNat DEF JobsInit, JobsTypeOK, JobRecord, RunnerRecord, Unborn, Statuses, Results, Indices
<1>2. ASSUME NEW j \in Jobs PROVE JobInv(j)
  <2>1. Busy(j) = {} /\ job[j] = Unborn /\ runner[j] = [at |-> "none", next |-> 1]
    BY DEF JobsInit, Busy
  <2>2. Terminal(j) = {}
    BY <2>1 DEF Terminal, Unborn, ResultTerminal
  <2> QED
    BY <2>1, <2>2, TerminalCount DEF JobInv, StatusIsRunner, ResultsAreTracked, EndIsTrue, Unborn, Indices
<1> QED
  BY <1>1, <1>2 DEF JobsInv

\* The requests: a new job, a look that forgets old ones, a cancel.
LEMMA RequestKeepsJobs ==
  ASSUME JobsInv,
         \/ \E j \in Jobs, expired \in SUBSET jobTable : CreateJob(j, expired)
         \/ \E expired \in SUBSET jobTable : GetJob(expired)
         \/ \E j \in Jobs : CancelJob(j)
  PROVE  JobsInv'
<1> USE DEF JobsInv
<1>1. ASSUME NEW j \in Jobs, NEW expired \in SUBSET jobTable, CreateJob(j, expired)
      PROVE  JobsInv'
  <2>1. JobsTypeOK'
    <3>1. job' \in [Jobs -> JobRecord]
      <4>1. [job[j] EXCEPT !.status = "queued"] \in JobRecord
        BY DEF JobsTypeOK, JobRecord, Statuses
      <4> QED
        BY <1>1, <4>1 DEF CreateJob, JobsTypeOK
    <3>2. runner' \in [Jobs -> RunnerRecord]
      BY <1>1 DEF CreateJob, JobsTypeOK, RunnerRecord
    <3> QED
      BY <1>1, <3>1, <3>2 DEF CreateJob, JobsTypeOK
  <2>2. ASSUME NEW k \in Jobs, k # j PROVE JobInv(k)'
    BY <1>1, <2>2, OtherJobs DEF CreateJob, JobsTypeOK
  <2>3. /\ job'[j] = [job[j] EXCEPT !.status = "queued"]
        /\ runner'[j] = [runner[j] EXCEPT !.at = "start"] /\ testing'[j] = testing[j]
    BY <1>1 DEF CreateJob, JobsTypeOK
  <2>4. Terminal(j)' = Terminal(j) /\ Busy(j)' = Busy(j)
    BY <2>3 DEF Terminal, Busy, JobsTypeOK, JobRecord
  <2>5. JobInv(j)'
    BY <1>1, <2>3, <2>4 DEF CreateJob, JobsTypeOK, JobRecord, RunnerRecord, JobInv, StatusIsRunner, ResultsAreTracked, EndIsTrue
  <2> QED
    BY <2>1, <2>2, <2>5
<1>2. ASSUME NEW expired \in SUBSET jobTable, GetJob(expired)
      PROVE  JobsInv'
  <2>1. JobsTypeOK'
    BY <1>2 DEF GetJob, Prune, JobsTypeOK
  <2> QED
    BY <1>2, <2>1, OtherJobs DEF GetJob
<1>3. ASSUME NEW j \in Jobs, CancelJob(j)
      PROVE  JobsInv'
  <2> DEFINE cut == [i \in Indices |-> IF ResultTerminal(job[j].results[i]) THEN job[j].results[i] ELSE "cancelled"]
  <2>1. job' = [job EXCEPT ![j] = [status |-> "cancelled", cancel |-> TRUE, completed |-> Total, results |-> cut]]
    BY <1>3 DEF CancelJob, JobsTypeOK
  <2>2. cut \in [Indices -> Results] /\ \A i \in Indices : ResultTerminal(cut[i])
    BY DEF JobsTypeOK, JobRecord, Results, ResultTerminal
  <2> HIDE DEF cut
  <2>3. JobsTypeOK'
    BY <1>3, <2>1, <2>2, TotalIsNat DEF CancelJob, JobsTypeOK, JobRecord, Statuses
  <2>4. ASSUME NEW k \in Jobs, k # j PROVE JobInv(k)'
    BY <1>3, <2>1, <2>4, OtherJobs DEF CancelJob, JobsTypeOK
  <2>5. job'[j] = [status |-> "cancelled", cancel |-> TRUE, completed |-> Total, results |-> cut]
    BY <2>1 DEF JobsTypeOK
  <2>6. Terminal(j)' = Indices /\ Busy(j)' = Busy(j)
    BY <1>3, <2>2, <2>5 DEF CancelJob, Terminal, Busy
  <2>7. JobInv(j)'
    BY <1>3, <2>2, <2>5, <2>6, TerminalCount
      DEF CancelJob, Active, JobsTypeOK, RunnerRecord, JobInv, StatusIsRunner, ResultsAreTracked, EndIsTrue
  <2> QED
    BY <2>3, <2>4, <2>7
<1> QED
  BY <1>1, <1>2, <1>3

\* The goroutine of a job, up to its end.
LEMMA RunKeepsJobs ==
  ASSUME JobsInv, NEW j \in Jobs,
         MarkRunning(j) \/ Feed(j) \/ FeedCanceled(j) \/ CloseIndices(j) \/ FinishJob(j)
  PROVE  JobsInv'
<1> USE TotalIsNat DEF JobsInv
<1>0. /\ job[j] \in JobRecord /\ runner[j] \in RunnerRecord /\ JobInv(j)
  BY DEF JobsTypeOK
<1>1. CASE MarkRunning(j)
  <2>1. /\ job'[j] = IF job[j].cancel THEN job[j] ELSE [job[j] EXCEPT !.status = "running"]
        /\ runner'[j] = [runner[j] EXCEPT !.at = "feeding"] /\ testing'[j] = testing[j]
        /\ \A k \in Jobs \ {j} : job'[k] = job[k] /\ runner'[k] = runner[k] /\ testing'[k] = testing[k]
    BY <1>1 DEF MarkRunning, JobsTypeOK
  <2>2. JobsTypeOK'
    <3>1. job' \in [Jobs -> JobRecord]
      <4>1. [job[j] EXCEPT !.status = "running"] \in JobRecord
        BY <1>0 DEF JobRecord, Statuses
      <4> QED
        BY <1>1, <4>1 DEF MarkRunning, JobsTypeOK
    <3>2. runner' \in [Jobs -> RunnerRecord]
      BY <1>1 DEF MarkRunning, JobsTypeOK, RunnerRecord
    <3> QED
      BY <1>1, <3>1, <3>2 DEF MarkRunning, JobsTypeOK
  <2>3. Terminal(j)' = Terminal(j) /\ Busy(j)' = Busy(j)
    BY <1>0, <2>1 DEF Terminal, Busy, JobRecord
  <2>4. JobInv(j)'
    BY <1>0, <1>1, <2>1, <2>3
      DEF MarkRunning, JobRecord, RunnerRecord, JobInv, StatusIsRunner, ResultsAreTracked, EndIsTrue
  <2> QED
    BY <2>1, <2>2, <2>4, OtherJobs
<1>2. CASE Feed(j)
  <2> DEFINE i == runner[j].next
  <2>1. /\ job'[j] = job[j]
        /\ runner'[j] = [runner[j] EXCEPT !.next = IF job[j].cancel THEN Total + 1 ELSE i + 1]
        /\ testing'[j] = [k \in Busy(j) \cup {i} |-> IF k = i THEN "taken" ELSE testing[j][k]]
        /\ \A k \in Jobs \ {j} : job'[k] = job[k] /\ runner'[k] = runner[k] /\ testing'[k] = testing[k]
    BY <1>2 DEF Feed, JobsTypeOK
  <2>2. JobsTypeOK'
    <3>1. runner' \in [Jobs -> RunnerRecord]
      BY <1>2 DEF Feed, JobsTypeOK, RunnerRecord
    <3> QED
      BY <1>2, <3>1 DEF Feed, JobsTypeOK
  <2>3. Terminal(j)' = Terminal(j) /\ Busy(j)' = Busy(j) \cup {i}
    BY <2>1 DEF Terminal, Busy
  <2>4. i \in Indices /\ i \notin Busy(j)
    BY <1>0, <1>2 DEF Feed, RunnerRecord, Indices, JobInv, ResultsAreTracked
  <2>5. StatusIsRunner(j)'
    BY <1>0, <1>2, <2>1, <2>3 DEF Feed, RunnerRecord, JobInv, StatusIsRunner
  <2>6. ResultsAreTracked(j)'
    BY <1>0, <1>2, <2>1, <2>3, <2>4 DEF Feed, RunnerRecord, JobInv, ResultsAreTracked, Indices
  <2>7. JobInv(j)'
    BY <1>0, <2>1, <2>3, <2>4, <2>5, <2>6 DEF JobInv, EndIsTrue, StatusIsRunner
  <2> QED
    BY <2>1, <2>2, <2>7, OtherJobs
<1>3. CASE FeedCanceled(j) \/ CloseIndices(j)
  <2>1. /\ job'[j] = job[j] /\ testing'[j] = testing[j]
        /\ runner'[j] \in RunnerRecord
        /\ runner[j].at = "feeding" /\ runner'[j].at \in {"feeding", "closed"}
        /\ runner'[j].next = runner[j].next \/ job[j].cancel
        /\ runner'[j].next >= runner[j].next
        /\ runner'[j].at = "closed" => runner'[j].next = Total + 1
        /\ \A k \in Jobs \ {j} : job'[k] = job[k] /\ runner'[k] = runner[k] /\ testing'[k] = testing[k]
    BY <1>0, <1>3 DEF FeedCanceled, CloseIndices, MayClose, JobsTypeOK, RunnerRecord
  <2>2. JobsTypeOK'
    BY <1>3, <2>1 DEF FeedCanceled, CloseIndices, JobsTypeOK
  <2>3. Terminal(j)' = Terminal(j) /\ Busy(j)' = Busy(j)
    BY <2>1 DEF Terminal, Busy
  <2>4. StatusIsRunner(j)'
    BY <1>0, <2>1, <2>3 DEF JobInv, StatusIsRunner, RunnerRecord
  <2>5. ResultsAreTracked(j)'
    BY <1>0, <2>1, <2>3 DEF JobInv, ResultsAreTracked, RunnerRecord, Indices
  <2> QED
    BY <1>0, <2>1, <2>2, <2>3, <2>4, <2>5, OtherJobs DEF JobInv, EndIsTrue, StatusIsRunner
<1>4. CASE FinishJob(j)
  <2> DEFINE end == IF \E i \in Indices : job[j].results[i] = "failed" THEN "failed" ELSE "completed"
  <2>1. /\ job'[j] = IF job[j].cancel THEN job[j]
                    ELSE [job[j] EXCEPT !.completed = Cardinality(Terminal(j)), !.status = end]
        /\ runner'[j] = [runner[j] EXCEPT !.at = "over"] /\ testing'[j] = testing[j]
        /\ \A k \in Jobs \ {j} : job'[k] = job[k] /\ runner'[k] = runner[k] /\ testing'[k] = testing[k]
    BY <1>4 DEF FinishJob, JobsTypeOK
  <2>2. job'[j] \in JobRecord /\ runner'[j] \in RunnerRecord
    BY <1>0, <2>1, TerminalCount DEF JobRecord, RunnerRecord, Statuses
  <2>3. JobsTypeOK'
    BY <1>4, <2>2, <2>1 DEF FinishJob, JobsTypeOK
  <2>4. Terminal(j)' = Terminal(j) /\ Busy(j)' = Busy(j)
    BY <1>0, <2>1 DEF Terminal, Busy, JobRecord
  <2>5. end \in {"completed", "failed"} /\ (end = "failed" <=> \E i \in Indices : job[j].results[i] = "failed")
    OBVIOUS
  <2> HIDE DEF end
  <2>6. /\ runner'[j].at = "over" /\ runner'[j].next = runner[j].next
        /\ job'[j].cancel = job[j].cancel /\ job'[j].results = job[j].results
        /\ job'[j].status = IF job[j].cancel THEN job[j].status ELSE end
    BY <1>0, <2>1 DEF JobRecord, RunnerRecord
  <2>7. StatusIsRunner(j)' /\ ResultsAreTracked(j)'
    <3>1. StatusIsRunner(j)'
      BY <1>0, <1>4, <2>4, <2>5, <2>6 DEF FinishJob, WorkersDone, JobInv, StatusIsRunner
    <3>2. ResultsAreTracked(j)'
      BY <1>0, <2>1, <2>4, <2>6 DEF JobInv, ResultsAreTracked
    <3> QED
      BY <3>1, <3>2
  <2>8. EndIsTrue(j)'
    BY <1>0, <2>1, <2>5 DEF JobRecord, JobInv, EndIsTrue
  <2>9. JobInv(j)'
    BY <1>0, <2>1, <2>4, <2>7, <2>8 DEF JobRecord, JobInv
  <2> QED
    BY <2>1, <2>3, <2>9, OtherJobs
<1> QED
  BY <1>1, <1>2, <1>3, <1>4

\* runOne: the two critical sections of a worker.
LEMMA WorkerKeepsJobs ==
  ASSUME JobsInv, NEW j \in Jobs, NEW i \in Indices,
         BeginTest(j, i) \/ \E status \in {"success", "failed"} : EndTest(j, i, status)
  PROVE  JobsInv'
<1> USE TotalIsNat DEF JobsInv
<1>0. job[j] \in JobRecord /\ runner[j] \in RunnerRecord /\ JobInv(j)
  BY DEF JobsTypeOK
<1> DEFINE NewResults(result) == [k \in Indices |-> IF k = i THEN result ELSE job[j].results[k]]
           NewRecord(result, done) ==
             [status |-> job[j].status, cancel |-> job[j].cancel, completed |-> done, results |-> NewResults(result)]
<1>1. ASSUME i \in Busy(j), testing' = WithoutIndex(j, i), UNCHANGED <<job, jobTable, runner>>, job[j].cancel
      PROVE  JobsInv'
  <2>1. testing'[j] = [k \in Busy(j) \ {i} |-> testing[j][k]] /\ \A k \in Jobs \ {j} : testing'[k] = testing[k]
    BY <1>1 DEF WithoutIndex, JobsTypeOK
  <2>2. JobsTypeOK'
    BY <1>1 DEF WithoutIndex, JobsTypeOK
  <2>3. Terminal(j)' = Terminal(j) /\ Busy(j)' = Busy(j) \ {i}
    BY <1>1, <2>1 DEF Terminal, Busy
  <2>4. JobInv(j)'
    BY <1>0, <1>1, <2>1, <2>3 DEF JobInv, StatusIsRunner, ResultsAreTracked, EndIsTrue
  <2> QED
    BY <1>1, <2>1, <2>2, <2>4, OtherJobs
<1>2. ASSUME NEW result \in Results, NEW stage, NEW done \in Nat,
             i \in Busy(j), ~job[j].cancel, UNCHANGED <<jobTable, runner>>,
             job'[j] = NewRecord(result, done),
             \A k \in Jobs \ {j} : job'[k] = job[k], DOMAIN job' = Jobs, job' = [k \in Jobs |-> job'[k]],
             testing'[j] = stage, \A k \in Jobs \ {j} : testing'[k] = testing[k],
             DOMAIN testing' = Jobs, testing' = [k \in Jobs |-> testing'[k]],
             ResultsAreTracked(j)', done = Cardinality(Terminal(j)'),
             DOMAIN stage \subseteq Busy(j),
             \A k \in DOMAIN stage : stage[k] \in {"taken", "testing"}
      PROVE  JobsInv'
  <2>1. NewResults(result) \in [Indices -> Results]
    BY <1>0, <1>2 DEF JobRecord
  <2>2. NewRecord(result, done) \in JobRecord
    BY <1>0, <1>2, <2>1 DEF JobRecord
  <2>3. JobsTypeOK'
    BY <1>2, <2>2 DEF JobsTypeOK
  <2>4. Busy(j)' \subseteq Busy(j) /\ runner'[j] = runner[j] /\ runner[j].at \in {"feeding", "closed"}
        /\ \A k \in Busy(j)' : testing'[j][k] \in {"taken", "testing"}
    BY <1>0, <1>2 DEF Busy, JobInv, StatusIsRunner, RunnerRecord
  <2>5. job'[j].status = job[j].status /\ job'[j].cancel = job[j].cancel /\ job'[j].completed = done
    BY <1>2
  <2>6. StatusIsRunner(j)' /\ EndIsTrue(j)'
    BY <1>0, <2>4, <2>5 DEF JobInv, StatusIsRunner, EndIsTrue
  <2>7. JobInv(j)'
    BY <1>0, <1>2, <2>4, <2>5, <2>6 DEF JobInv
  <2> QED
    BY <1>2, <2>3, <2>7, OtherJobs
<1>3. CASE BeginTest(j, i)
  <2>1. CASE job[j].cancel
    BY <1>1, <1>3, <2>1 DEF BeginTest
  <2>2. CASE ~job[j].cancel
    <3>1. job[j].results[i] = "queued"
      BY <1>0, <1>3, <2>2 DEF BeginTest, JobInv, ResultsAreTracked
    <3>2. /\ job' = [job EXCEPT ![j].results[i] = "running"]
          /\ testing' = [testing EXCEPT ![j][i] = "testing"]
          /\ i \in Busy(j) /\ UNCHANGED <<jobTable, runner>>
      BY <1>3, <2>2, <3>1 DEF BeginTest
    <3> DEFINE stage == [testing[j] EXCEPT ![i] = "testing"]
    <3>3. /\ testing'[j] = stage /\ \A k \in Jobs \ {j} : testing'[k] = testing[k]
          /\ DOMAIN testing' = Jobs /\ testing' = [k \in Jobs |-> testing'[k]]
      BY <3>2 DEF JobsTypeOK
    <3>4. DOMAIN stage = Busy(j) /\ \A k \in Busy(j) : stage[k] = IF k = i THEN "testing" ELSE testing[j][k]
      BY DEF Busy
    <3> HIDE DEF stage
    <3>5. /\ job'[j] = NewRecord("running", job[j].completed)
          /\ (\A k \in Jobs \ {j} : job'[k] = job[k]) /\ DOMAIN job' = Jobs /\ job' = [k \in Jobs |-> job'[k]]
      BY <1>0, <3>2 DEF JobsTypeOK, JobRecord
    <3>6. Terminal(j)' = Terminal(j)
      BY <1>0, <3>1, <3>5 DEF Terminal, JobRecord, ResultTerminal
    <3>7. ResultsAreTracked(j)'
      <4>1. /\ runner'[j] = runner[j] /\ job'[j].cancel = job[j].cancel /\ Busy(j)' = Busy(j)
            /\ \A k \in Indices : job'[j].results[k] = IF k = i THEN "running" ELSE job[j].results[k]
        BY <3>2, <3>3, <3>4, <3>5 DEF Busy
      <4>2. i < runner[j].next /\ runner[j].next \in Int
        BY <1>0, <3>2 DEF JobInv, ResultsAreTracked, RunnerRecord
      <4> QED
        BY <1>0, <2>2, <3>1, <3>2, <3>3, <3>4, <4>1, <4>2 DEF JobInv, ResultsAreTracked, Indices
    <3>8. job[j].completed \in Nat /\ job[j].completed = Cardinality(Terminal(j)') /\ "running" \in Results
      BY <1>0, <3>6 DEF JobRecord, JobInv, Results
    <3>9. DOMAIN stage \subseteq Busy(j) /\ \A k \in DOMAIN stage : stage[k] \in {"taken", "testing"}
      BY <1>0, <3>4 DEF JobInv
    <3> HIDE DEF NewRecord
    <3> QED
      BY <1>2, <2>2, <3>2, <3>3, <3>5, <3>7, <3>8, <3>9
  <2> QED
    BY <2>1, <2>2
<1>4. ASSUME NEW status \in {"success", "failed"}, EndTest(j, i, status)
      PROVE  JobsInv'
  <2>1. CASE job[j].cancel
    BY <1>1, <1>4, <2>1 DEF EndTest, TooLate
  <2>2. CASE ~job[j].cancel
    <3>1. job[j].results[i] = "running"
      BY <1>0, <1>4, <2>2 DEF EndTest, JobInv, ResultsAreTracked
    <3>2. /\ job' = [job EXCEPT ![j].results[i] = status, ![j].completed = job[j].completed + 1]
          /\ testing' = WithoutIndex(j, i)
          /\ i \in Busy(j) /\ UNCHANGED <<jobTable, runner>>
      BY <1>4, <2>2 DEF EndTest, TooLate
    <3> DEFINE stage == [k \in Busy(j) \ {i} |-> testing[j][k]]
    <3>3. /\ testing'[j] = stage /\ \A k \in Jobs \ {j} : testing'[k] = testing[k]
          /\ DOMAIN testing' = Jobs /\ testing' = [k \in Jobs |-> testing'[k]]
      BY <3>2 DEF WithoutIndex, JobsTypeOK
    <3>4. DOMAIN stage = Busy(j) \ {i} /\ \A k \in Busy(j) \ {i} : stage[k] = testing[j][k]
      OBVIOUS
    <3> HIDE DEF stage
    <3>5. /\ job'[j] = NewRecord(status, job[j].completed + 1)
          /\ (\A k \in Jobs \ {j} : job'[k] = job[k]) /\ DOMAIN job' = Jobs /\ job' = [k \in Jobs |-> job'[k]]
      BY <1>0, <3>2 DEF JobsTypeOK, JobRecord
    <3>6. Terminal(j)' = Terminal(j) \cup {i} /\ i \in Indices \ Terminal(j)
      BY <1>0, <3>1, <3>5 DEF Terminal, JobRecord, ResultTerminal
    <3>7. ResultsAreTracked(j)'
      BY <1>0, <2>2, <3>1, <3>2, <3>3, <3>4, <3>5 DEF Busy, JobInv, ResultsAreTracked, JobRecord, RunnerRecord
    <3>8. job[j].completed + 1 \in Nat /\ job[j].completed + 1 = Cardinality(Terminal(j)')
      BY <1>0, <3>6, TerminalCount DEF JobInv
    <3>9. DOMAIN stage \subseteq Busy(j) /\ \A k \in DOMAIN stage : stage[k] \in {"taken", "testing"}
      BY <1>0, <3>4 DEF JobInv
    <3>10. status \in Results
      BY DEF Results
    <3> HIDE DEF NewRecord
    <3> QED
      BY <1>2, <2>2, <3>2, <3>3, <3>5, <3>7, <3>8, <3>9, <3>10
  <2> QED
    BY <2>1, <2>2
<1> QED
  BY <1>3, <1>4

\* Every step of the jobs keeps their invariant.
LEMMA JobsStepInv == JobsInv /\ [JobsNext]_jobVars => JobsInv'
<1> SUFFICES ASSUME JobsInv, [JobsNext]_jobVars PROVE JobsInv'
  OBVIOUS
<1>1. CASE UNCHANGED jobVars
  BY <1>1, OtherJobs DEF JobsInv, JobsTypeOK, jobVars
<1>2. CASE JobsNext
  BY <1>2, RequestKeepsJobs, RunKeepsJobs, WorkerKeepsJobs DEF JobsNext, JobStep, RunnerStep, WorkerStep
<1> QED
  BY <1>1, <1>2

\* The inductive invariant holds in every reachable state.
THEOREM JobsInductive == JobsSpec => []JobsInv
<1> QED
  BY JobsInitInv, JobsStepInv, PTL DEF JobsSpec

\* cancel, runOne, finish: the progress of a job is the number of its models with a
\* result, and a job that ended by itself has an outcome for each and says whether one
\* failed: whatever the jobs, their models and their workers.
THEOREM JobsTrue == JobsSpec => []JobsAreTrue
<1>1. JobsInv => JobsAreTrue
  <2> SUFFICES ASSUME JobsInv PROVE JobsAreTrue
    OBVIOUS
  <2>1. ASSUME NEW j \in Jobs, job[j].status \in {"completed", "failed"}
        PROVE  \A i \in Indices : job[j].results[i] \in {"success", "failed"}
    BY <2>1, TotalIsNat DEF JobsInv, JobInv, StatusIsRunner, ResultsAreTracked, Indices
  <2>2. ASSUME NEW j \in Jobs, job[j].status \in {"completed", "failed"}
        PROVE  (job[j].status = "failed") = (\E i \in Indices : job[j].results[i] = "failed")
    BY <2>2, Zenon DEF JobsInv, JobInv, EndIsTrue
  <2>3. EndedIsComplete
    BY <2>1, <2>2, Zenon DEF EndedIsComplete
  <2> QED
    BY <2>3 DEF JobsInv, JobInv, JobsAreTrue, CountAgrees
<1> QED
  BY <1>1, JobsInductive, PTL

\* cancel: a job that is over stays as it was answered; a test that was under way does
\* not come back into it.
THEOREM JobsOverFinal == JobsSpec => OverIsFinal
<1> DEFINE Final == \A j \in Jobs : job[j].status \in {"cancelled", "completed", "failed"} => job'[j] = job[j]
<1>1. JobsInv /\ [JobsNext]_jobVars => [Final]_jobVars
  <2> SUFFICES ASSUME JobsInv, JobsNext, NEW j \in Jobs, job[j].status \in {"cancelled", "completed", "failed"}
               PROVE  job'[j] = job[j]
    BY DEF jobVars
  <2>0. JobInv(j) /\ JobsTypeOK
    BY DEF JobsInv
  <2>1. ASSUME NEW k \in Jobs, NEW expired \in SUBSET jobTable, CreateJob(k, expired) PROVE job'[j] = job[j]
    BY <2>0, <2>1 DEF CreateJob, JobsTypeOK
  <2>2. ASSUME NEW expired \in SUBSET jobTable, GetJob(expired) PROVE job'[j] = job[j]
    BY <2>2 DEF GetJob
  <2>3. ASSUME NEW k \in Jobs, CancelJob(k) PROVE job'[j] = job[j]
    BY <2>0, <2>3 DEF CancelJob, Active, JobsTypeOK
  <2>4. ASSUME NEW k \in Jobs, MarkRunning(k) \/ Feed(k) \/ FeedCanceled(k) \/ CloseIndices(k) \/ FinishJob(k)
        PROVE  job'[j] = job[j]
    BY <2>0, <2>4 DEF MarkRunning, Feed, FeedCanceled, CloseIndices, FinishJob, JobsTypeOK, JobInv, StatusIsRunner
  <2>5. ASSUME NEW k \in Jobs, NEW i \in Indices, BeginTest(k, i) PROVE job'[j] = job[j]
    BY <2>0, <2>5 DEF BeginTest, JobsTypeOK, JobInv, StatusIsRunner
  <2>6. ASSUME NEW k \in Jobs, NEW i \in Indices, NEW status \in {"success", "failed"}, EndTest(k, i, status)
        PROVE  job'[j] = job[j]
    BY <2>0, <2>6 DEF EndTest, TooLate, JobsTypeOK, JobInv, StatusIsRunner
  <2> QED
    BY <2>1, <2>2, <2>3, <2>4, <2>5, <2>6 DEF JobsNext, JobStep, RunnerStep, WorkerStep
<1> QED
  BY <1>1, JobsInductive, PTL DEF JobsSpec, OverIsFinal

----------------------------------------------------------------------------
(* One probe of one model.                                                 *)

ProbeSpec == ProbeInit /\ [][ProbeNext]_probeVars

ProbeSteps == {"start", "base", "reasoning", "write reasoning", "required", "auto", "write tools", "over"}
ProbeTypeOK ==
  /\ subject \in [provider : {"nvidia", "opencodefree", "other"}, kind : {"chat", "asr"},
                  wire : WireFormats, keys : Nat]
  /\ DOMAIN probing = {"at", "used", "heard", "wires", "failures", "reasoning", "tools", "canceled", "error"}
  /\ probing.at \in ProbeSteps
  /\ probing.used \in Nat /\ probing.canceled \in BOOLEAN

\* The inductive invariant: while a probe goes on, every failure so far may clear on
\* another key.
ProbeInv ==
  /\ ProbeTypeOK /\ NoVerdictFromSilence
  /\ probing.at = "start" => probing.used = 0
  /\ probing.at # "over" => probing.failures \subseteq Retryable

\* What a step of the probe does to the credentials it spends.
KeysSpent ==
  probing'.used > probing.used /\ probing.used > 0
    => ~probing.canceled /\ probing'.failures \subseteq Retryable /\ probing'.used <= ProbeAttempts

\* A step that goes on with the same key, or ends the probe.
LEMMA SameKeyKeepsProbe ==
  ASSUME ProbeInv, probing.at # "over", UNCHANGED subject, DOMAIN probing' = DOMAIN probing,
         probing'.at \in ProbeSteps, probing'.at = "start" => probing.at = "start",
         probing'.used = probing.used,
         probing'.at # "over" => probing'.failures = probing.failures,
         probing'.canceled \in BOOLEAN, NoVerdictFromSilence'
  PROVE  ProbeInv' /\ KeysSpent
<1>1. ProbeTypeOK'
  BY DEF ProbeInv, ProbeTypeOK
<1>2. (probing.at = "start" => probing.used = 0)'
  BY DEF ProbeInv
<1>3. (probing.at # "over" => probing.failures \subseteq Retryable)'
  BY DEF ProbeInv
<1>4. KeysSpent
  BY DEF ProbeInv, ProbeTypeOK, KeysSpent
<1> QED
  BY <1>1, <1>2, <1>3, <1>4 DEF ProbeInv

\* Nothing is concluded by a step that writes no verdict.
LEMMA QuietKeepsVerdicts ==
  ASSUME ProbeInv,
         \/ probing'.at \notin {"write tools", "write reasoning"}
         \/ /\ probing'.at = probing.at /\ probing'.tools = probing.tools
            /\ probing'.reasoning = probing.reasoning /\ probing'.heard = probing.heard
  PROVE  NoVerdictFromSilence'
BY DEF ProbeInv, NoVerdictFromSilence

\* A key's failure: the next key begins with nothing heard, or the probe is over.
LEMMA KeyFailsKeepsProbe ==
  ASSUME ProbeInv, probing.at \notin {"start", "over"}, NEW error, KeyFails(error), UNCHANGED subject
  PROVE  ProbeInv' /\ KeysSpent
<1>1. subject.keys \in Nat /\ ProbeAttempts \in Nat
  BY ProbeAssumption DEF ProbeInv, ProbeTypeOK
<1>2. KeysToTry \in Nat /\ KeysToTry <= ProbeAttempts
  BY <1>1 DEF KeysToTry
<1>3. CASE /\ subject.provider = "nvidia" /\ probing.used < KeysToTry
           /\ ~probing.canceled /\ WorthAnotherKey(error)
  <2>1. /\ probing' = [probing EXCEPT !.at = "base", !.used = @ + 1, !.failures = @ \cup {error},
                                      !.heard = {}, !.reasoning = "unknown", !.tools = "unknown"]
        /\ error \in Retryable /\ ~probing.canceled /\ probing.used < KeysToTry
    BY <1>3, Zenon DEF KeyFails, WorthAnotherKey
  <2>2. probing.used \in Nat
    BY DEF ProbeInv, ProbeTypeOK
  <2>3. probing.used + 1 \in Nat /\ probing.used + 1 <= ProbeAttempts
    BY <1>1, <1>2, <2>1, <2>2
  <2>4. /\ DOMAIN probing' = DOMAIN probing /\ probing'.at = "base" /\ probing'.used = probing.used + 1
        /\ probing'.failures = probing.failures \cup {error} /\ probing'.canceled = probing.canceled
    BY <2>1 DEF ProbeInv, ProbeTypeOK
  <2>5. probing'.failures \subseteq Retryable
    BY <2>1, <2>4 DEF ProbeInv
  <2>6. ProbeTypeOK'
    BY <2>3, <2>4 DEF ProbeInv, ProbeTypeOK, ProbeSteps
  <2>7. NoVerdictFromSilence'
    BY <2>4, QuietKeepsVerdicts
  <2>8. KeysSpent
    BY <2>1, <2>3, <2>4, <2>5 DEF KeysSpent
  <2> QED
    BY <2>4, <2>5, <2>6, <2>7, <2>8 DEF ProbeInv
<1>4. CASE ~(/\ subject.provider = "nvidia" /\ probing.used < KeysToTry
             /\ ~probing.canceled /\ WorthAnotherKey(error))
  <2> DEFINE ending == IF probing.canceled /\ subject.provider = "nvidia" THEN "canceled" ELSE error
  <2>1. probing' = [probing EXCEPT !.at = "over", !.failures = @ \cup {error}, !.error = ending]
    BY <1>4, Zenon DEF KeyFails
  <2> HIDE DEF ending
  <2>2. /\ DOMAIN probing' = DOMAIN probing /\ probing'.at = "over" /\ probing'.used = probing.used
        /\ probing'.canceled = probing.canceled
    BY <2>1 DEF ProbeInv, ProbeTypeOK
  <2>3. probing'.canceled \in BOOLEAN
    BY <2>2 DEF ProbeInv, ProbeTypeOK
  <2> QED
    BY <2>2, <2>3, QuietKeepsVerdicts, SameKeyKeepsProbe DEF ProbeSteps
<1> QED
  BY <1>3, <1>4

\* A probe that begins has used no key and denied nothing.
LEMMA ProbeInitInv == ProbeInit => ProbeInv
BY ProbeAssumption DEF ProbeInit, ProbeInv, ProbeTypeOK, ProbeSteps, NoVerdictFromSilence

\* A probe begins with its first key, or is over before one is asked.
LEMMA StartKeepsProbe ==
  ASSUME ProbeInv, StartProbe \/ LoadFails
  PROVE  ProbeInv' /\ KeysSpent
<1>1. /\ probing.at = "start" /\ probing.used = 0 /\ UNCHANGED subject
      /\ \/ \E error \in {"not routable", "no key", "not loaded"} :
              probing' = [probing EXCEPT !.at = "over", !.error = error]
         \/ probing' = [probing EXCEPT !.at = "base", !.used = 1]
  BY DEF StartProbe, LoadFails, ProbeInv
<1>2. /\ DOMAIN probing' = DOMAIN probing /\ probing'.at \in {"over", "base"} /\ probing'.used \in {0, 1}
      /\ probing'.canceled = probing.canceled /\ probing'.failures = probing.failures
  BY <1>1 DEF ProbeInv, ProbeTypeOK
<1>3. ProbeTypeOK'
  <2>1. probing'.canceled \in BOOLEAN
    BY <1>2 DEF ProbeInv, ProbeTypeOK
  <2>2. probing'.used = 0 \/ probing'.used = 1
    BY <1>2, Zenon
  <2>3. probing'.used \in Nat
    BY <2>2
  <2>4. probing'.at \in ProbeSteps
    BY <1>2, Zenon DEF ProbeSteps
  <2> QED
    BY <1>1, <1>2, <2>1, <2>3, <2>4 DEF ProbeInv, ProbeTypeOK
<1>4. NoVerdictFromSilence'
  BY <1>2, QuietKeepsVerdicts
<1> QED
  BY <1>1, <1>2, <1>3, <1>4 DEF ProbeInv, KeysSpent

\* The plain request, which decides whether the model answers at all.
LEMMA BaseKeepsProbe ==
  ASSUME ProbeInv, NEW answer, AskBase(answer)
  PROVE  ProbeInv' /\ KeysSpent
<1> DEFINE error == BaseError(answer)
<1>1. CASE error # "none"
  <2>1. KeyFails(error) /\ probing.at = "base" /\ UNCHANGED subject
    BY <1>1 DEF AskBase
  <2> QED
    BY <2>1, KeyFailsKeepsProbe
<1>2. CASE error = "none"
  <2> DEFINE wires == WiresToTry
  <2>1. /\ \/ probing' = [probing EXCEPT !.at = "reasoning", !.wires = wires]
           \/ probing' = [probing EXCEPT !.at = "over"]
        /\ probing.at = "base" /\ UNCHANGED subject
    BY <1>2 DEF AskBase
  <2> HIDE DEF wires
  <2>2. /\ DOMAIN probing' = DOMAIN probing /\ probing'.at \in {"over", "reasoning"}
        /\ probing'.used = probing.used /\ probing'.canceled = probing.canceled
        /\ probing'.failures = probing.failures
    BY <2>1 DEF ProbeInv, ProbeTypeOK
  <2>3. probing'.canceled \in BOOLEAN
    BY <2>2 DEF ProbeInv, ProbeTypeOK
  <2> QED
    BY <2>1, <2>2, <2>3, QuietKeepsVerdicts, SameKeyKeepsProbe DEF ProbeSteps
<1> QED
  BY <1>1, <1>2

\* probeReasoning: "unsupported" is the verdict only when no format met silence.
LEMMA ReasoningKeepsProbe ==
  ASSUME ProbeInv, NEW answer, AskReasoning(answer)
  PROVE  ProbeInv' /\ KeysSpent
<1> DEFINE error == CallError(answer)
           heard == probing.heard \cup {answer}
           rest == Tail(probing.wires)
<1>0. probing.at = "reasoning" /\ UNCHANGED subject
  BY DEF AskReasoning
<1>1. CASE error # "none"
  <2> HIDE DEF error
  <2>1. KeyFails(error)
    BY <1>1, Zenon DEF AskReasoning, error
  <2> QED
    BY <1>0, <2>1, KeyFailsKeepsProbe
<1>2. CASE error = "none"
  <2>1. \/ \E status \in {"visible", "hidden"} :
             probing' = [probing EXCEPT !.at = "write reasoning", !.reasoning = status, !.heard = heard]
        \/ probing' = [probing EXCEPT !.wires = rest, !.heard = heard]
        \/ probing' = [probing EXCEPT !.at = "write reasoning", !.heard = heard, !.wires = rest,
                                      !.reasoning = ReasoningVerdict(heard)]
    BY <1>2 DEF AskReasoning
  <2> HIDE DEF heard, rest
  <2>2. ReasoningVerdict(heard) = "unsupported" => heard \cap Silences = {}
    BY DEF ReasoningVerdict
  <2>3. /\ DOMAIN probing' = DOMAIN probing /\ probing'.at \in {"write reasoning", "reasoning"}
        /\ probing'.used = probing.used /\ probing'.canceled = probing.canceled
        /\ probing'.failures = probing.failures /\ probing'.heard = heard
    BY <1>0, <2>1, ZenonT(40) DEF ProbeInv, ProbeTypeOK
  <2>4. probing'.at = "write reasoning" => probing'.reasoning \in {"visible", "hidden", ReasoningVerdict(heard)}
    BY <1>0, <2>1 DEF ProbeInv, ProbeTypeOK
  <2>5. NoVerdictFromSilence'
    BY <2>2, <2>3, <2>4 DEF NoVerdictFromSilence
  <2>6. probing'.canceled \in BOOLEAN
    BY <2>3 DEF ProbeInv, ProbeTypeOK
  <2> QED
    BY <1>0, <2>3, <2>5, <2>6, SameKeyKeepsProbe DEF ProbeSteps
<1> QED
  BY <1>1, <1>2

\* What was heard of reasoning or tools is written as a verdict, or the write fails.
LEMMA VerdictKeepsProbe ==
  ASSUME ProbeInv, NEW ok, WriteVerdict(ok)
  PROVE  ProbeInv' /\ KeysSpent
<1>1. CASE ~ok
  <2>1. KeyFails("other") /\ probing.at \in {"write reasoning", "write tools"} /\ UNCHANGED subject
    BY <1>1 DEF WriteVerdict
  <2> QED
    BY <2>1, KeyFailsKeepsProbe
<1>2. CASE ok
  <2>1. /\ \/ probing' = [probing EXCEPT !.at = "required", !.heard = {}]
           \/ probing' = [probing EXCEPT !.at = "over"]
        /\ probing.at \in {"write reasoning", "write tools"} /\ UNCHANGED subject
    BY <1>2 DEF WriteVerdict
  <2>2. /\ DOMAIN probing' = DOMAIN probing /\ probing'.at \in {"over", "required"}
        /\ probing'.used = probing.used /\ probing'.canceled = probing.canceled
        /\ probing'.failures = probing.failures
    BY <2>1 DEF ProbeInv, ProbeTypeOK
  <2>3. probing'.canceled \in BOOLEAN
    BY <2>2 DEF ProbeInv, ProbeTypeOK
  <2> QED
    BY <2>1, <2>2, <2>3, QuietKeepsVerdicts, SameKeyKeepsProbe DEF ProbeSteps
<1> QED
  BY <1>1, <1>2

\* probeTools: "unsupported" is the verdict only when neither form met silence.
LEMMA ToolsKeepsProbe ==
  ASSUME ProbeInv, NEW answer, AskTools(answer)
  PROVE  ProbeInv' /\ KeysSpent
<1> DEFINE error == CallError(answer)
           heard == probing.heard \cup {answer}
           verdict == ToolsVerdict(probing.at, heard)
<1>0. probing.at \in {"required", "auto"} /\ UNCHANGED subject
  BY DEF AskTools
<1>1. CASE error # "none"
  <2> HIDE DEF error
  <2>1. KeyFails(error)
    BY <1>1, Zenon DEF AskTools, error
  <2> QED
    BY <1>0, <2>1, KeyFailsKeepsProbe
<1>2. CASE error = "none"
  <2>1. \/ probing' = [probing EXCEPT !.at = "auto", !.heard = heard]
        \/ probing' = [probing EXCEPT !.at = "write tools", !.heard = heard, !.tools = verdict]
    BY <1>2 DEF AskTools
  <2>2. verdict = "unsupported" => heard \cap Silences = {}
    BY DEF ToolsVerdict
  <2> HIDE DEF heard, verdict
  <2>3. /\ DOMAIN probing' = DOMAIN probing /\ probing'.at \in {"write tools", "auto"}
        /\ probing'.used = probing.used /\ probing'.canceled = probing.canceled
        /\ probing'.failures = probing.failures /\ probing'.heard = heard
        /\ probing'.at = "write tools" => probing'.tools = verdict
    BY <1>0, <2>1, ZenonT(40) DEF ProbeInv, ProbeTypeOK
  <2>4. NoVerdictFromSilence'
    BY <2>2, <2>3 DEF NoVerdictFromSilence
  <2>5. probing'.canceled \in BOOLEAN
    BY <2>3 DEF ProbeInv, ProbeTypeOK
  <2> QED
    BY <1>0, <2>3, <2>4, <2>5, SameKeyKeepsProbe DEF ProbeSteps
<1> QED
  BY <1>1, <1>2

\* A probe that is given up.
LEMMA CancelKeepsProbe ==
  ASSUME ProbeInv, ProbeCanceled
  PROVE  ProbeInv' /\ KeysSpent
<1>1. probing.at # "over" /\ probing' = [probing EXCEPT !.canceled = TRUE] /\ UNCHANGED subject
  BY DEF ProbeCanceled
<1>2. /\ DOMAIN probing' = DOMAIN probing /\ probing'.at = probing.at /\ probing'.used = probing.used
      /\ probing'.failures = probing.failures /\ probing'.tools = probing.tools
      /\ probing'.reasoning = probing.reasoning /\ probing'.heard = probing.heard
  BY <1>1 DEF ProbeInv, ProbeTypeOK
<1>3. probing'.canceled = TRUE
  BY <1>1, Zenon DEF ProbeInv, ProbeTypeOK
<1>4. probing'.canceled \in BOOLEAN /\ probing'.at \in ProbeSteps
  BY <1>2, <1>3 DEF ProbeInv, ProbeTypeOK
<1> QED
  BY <1>1, <1>2, <1>4, QuietKeepsVerdicts, SameKeyKeepsProbe

\* Every step of a probe keeps its invariant, and spends keys only where it may.
LEMMA ProbeStepInv == ProbeInv /\ [ProbeNext]_probeVars => ProbeInv' /\ [KeysSpent]_probeVars
<1> SUFFICES ASSUME ProbeInv, [ProbeNext]_probeVars PROVE ProbeInv' /\ [KeysSpent]_probeVars
  OBVIOUS
<1>1. CASE UNCHANGED probeVars
  BY <1>1 DEF probeVars, ProbeInv, ProbeTypeOK, NoVerdictFromSilence
<1>2. ASSUME SecretFails PROVE ProbeInv' /\ KeysSpent
  BY <1>2, KeyFailsKeepsProbe DEF SecretFails
<1>4. CASE ProbeNext
  BY <1>2, <1>4, StartKeepsProbe, BaseKeepsProbe, ReasoningKeepsProbe, ToolsKeepsProbe, VerdictKeepsProbe,
     CancelKeepsProbe DEF ProbeNext
<1> QED
  BY <1>1, <1>4

\* The inductive invariant holds in every reachable state.
THEOREM ProbeInductive == ProbeSpec => []ProbeInv
<1> QED
  BY ProbeInitInv, ProbeStepInv, PTL DEF ProbeSpec

\* probeTools, probeReasoning, worthAnotherKey: a capability is only denied by answers
\* that deny it, and a further key is only spent, up to probeAttempts of them, on what
\* another key could answer: for every number of keys and of attempts.
THEOREM ProbesFair == ProbeSpec => ProbesAreFair
<1>1. ProbeInv => NoVerdictFromSilence
  BY DEF ProbeInv
<1>2. KeysNotBurned <=> [][KeysSpent]_probeVars
  BY PTL DEF KeysNotBurned, KeysSpent
<1> QED
  BY <1>1, <1>2, ProbeInductive, ProbeStepInv, PTL DEF ProbeSpec, ProbesAreFair

----------------------------------------------------------------------------
(* One model of the catalogue.                                             *)

CatalogSpec == CatalogInit /\ [][CatalogNext]_catalogVars

RowFields ==
  {"id", "rev", "kind", "provider", "target", "enabled", "tools", "toolsStatus", "reasoning",
   "reasoningStatus", "wire", "verified"}

\* A row, after n writes: an id was given to it by one of them.
RowOK(r, n) == r = Absent \/ (DOMAIN r = RowFields /\ r.id \in 1..n /\ r.rev \in Nat)

\* What a manual test that is under way may rely on: unless a probe has set the
\* revision back, the row with the id and the revision it loaded is the row it loaded.
TestIsTracked ==
  \/ manual = IdleTest
  \/ /\ manual.at = "testing" /\ DOMAIN manual = {"at", "seen", "key", "setBack"}
     /\ manual.seen.id \in 1..writes /\ manual.seen.rev \in Nat
     /\ ~manual.setBack /\ Present /\ row.id = manual.seen.id =>
          row.rev >= manual.seen.rev /\ (row.rev = manual.seen.rev => row = manual.seen)

FindingOK == finding.at = "writing" => finding.update \in Updates /\ finding.rev \in Nat

\* The inductive invariant.
CatalogInv ==
  /\ now \in Nat /\ writes \in Nat /\ RowOK(row, writes)
  /\ TestIsTracked /\ FindingOK /\ EnabledIsVerified

\* What a step may do to the verdict on tools, and to the one on reasoning.
ToolsUntouched == row'.toolsStatus = row.toolsStatus /\ row'.tools = row.tools
ReasoningUntouched ==
  row'.reasoningStatus = row.reasoningStatus /\ row'.reasoning = row.reasoning /\ row'.wire = row.wire
ToolsKept ==
  row.toolsStatus \in ToolsVerdicts =>
    \/ row'.toolsStatus = row.toolsStatus /\ (row'.tools = row.tools \/ Patched({"tools"}))
    \/ Probed("tools")
ReasoningKept ==
  row.reasoningStatus \in ReasoningVerdicts =>
    ReasoningUntouched \/ Patched({"reasoning", "reasoningStatus", "wire"}) \/ Probed("reasoning")
VerdictKept == Present /\ row'.id = row.id => ToolsKept /\ ReasoningKept

\* A step that leaves the verdicts and their flags alone.
LEMMA UntouchedKept ==
  ASSUME ToolsUntouched, ReasoningUntouched
  PROVE  VerdictKept
BY DEF VerdictKept, ToolsKept, ReasoningKept, ToolsUntouched

\* formatRevisionTime: a revision is later than the one it replaces, also within the
\* same second.
LEMMA RevisionMoves ==
  ASSUME now \in Nat, NEW previous \in Nat
  PROVE  FormatRevisionTime(previous) \in Nat /\ FormatRevisionTime(previous) > previous
BY DEF FormatRevisionTime, NanosPerSecond

\* What a row that is there consists of.
LEMMA RowPresent ==
  ASSUME NEW r, NEW n \in Nat, RowOK(r, n)
  PROVE  /\ r # Absent <=> r.id # 0
         /\ r # Absent => DOMAIN r = RowFields /\ r.id \in 1..n /\ r.rev \in Nat
BY DEF RowOK, Absent

\* A write that keeps the id moves the revision on, as far as a test goes by it.
LEMMA WriteKeepsRow ==
  ASSUME CatalogInv, NEW new, Write(new), manual' = manual,
         RowOK(new, writes + 1),
         new # Absent => (Present /\ new.id = row.id) \/ new.id = writes + 1,
         manual.at = "testing" /\ new # Absent /\ Present /\ new.id = row.id => new.rev > row.rev
  PROVE  now' \in Nat /\ writes' \in Nat /\ RowOK(row, writes)' /\ TestIsTracked'
<1>1. now' = now /\ writes' = writes + 1 /\ row' = new /\ writes \in Nat
  BY DEF Write, CatalogInv
<1>2. now' \in Nat /\ writes' \in Nat /\ RowOK(row, writes)'
  BY <1>1 DEF CatalogInv
<1>3. CASE manual = IdleTest
  BY <1>2, <1>3 DEF TestIsTracked, IdleTest
<1>4. CASE manual # IdleTest
  <2>1. /\ manual.at = "testing" /\ DOMAIN manual = {"at", "seen", "key", "setBack"}
        /\ manual.seen.id \in 1..writes /\ manual.seen.rev \in Nat
        /\ ~manual.setBack /\ Present /\ row.id = manual.seen.id =>
             row.rev >= manual.seen.rev /\ (row.rev = manual.seen.rev => row = manual.seen)
    BY <1>4 DEF CatalogInv, TestIsTracked
  <2>2. ASSUME ~manual.setBack, Present', row'.id = manual.seen.id
        PROVE  row'.rev >= manual.seen.rev /\ row'.rev # manual.seen.rev
    <3>1. new # Absent /\ new.id = manual.seen.id
      BY <1>1, <2>2 DEF Present
    <3>2. Present /\ new.id = row.id /\ new.rev > row.rev
      BY <1>1, <2>1, <3>1
    <3>3. row.rev \in Nat /\ new.rev \in Nat
      BY <1>1, <3>1, <3>2, RowPresent DEF CatalogInv, RowOK, Present
    <3> QED
      BY <1>1, <2>1, <2>2, <3>1, <3>2, <3>3
  <2>3. manual'.seen.id \in 1..writes'
    BY <1>1, <2>1
  <2> QED
    BY <1>2, <2>1, <2>2, <2>3 DEF TestIsTracked
<1> QED
  BY <1>3, <1>4

\* A probe that sets the revision back says so to the test that is under way.
LEMMA WriteSetsBack ==
  ASSUME CatalogInv, NEW new, Write(new), manual.at = "testing",
         manual' = [manual EXCEPT !.setBack = TRUE], RowOK(new, writes + 1)
  PROVE  now' \in Nat /\ writes' \in Nat /\ RowOK(row, writes)' /\ TestIsTracked'
<1>1. now' = now /\ writes' = writes + 1 /\ row' = new /\ writes \in Nat
  BY DEF Write, CatalogInv
<1>2. now' \in Nat /\ writes' \in Nat /\ RowOK(row, writes)'
  BY <1>1 DEF CatalogInv
<1>3. /\ DOMAIN manual = {"at", "seen", "key", "setBack"}
      /\ manual.seen.id \in 1..writes /\ manual.seen.rev \in Nat
  BY DEF CatalogInv, TestIsTracked, IdleTest
<1>4. DOMAIN manual' = DOMAIN manual /\ manual'.at = "testing" /\ manual'.seen = manual.seen
  BY <1>3
<1>5. manual'.setBack
  BY <1>3, Zenon
<1>6. manual'.seen.id \in 1..writes'
  BY <1>1, <1>3, <1>4
<1> QED
  BY <1>2, <1>3, <1>4, <1>5, <1>6 DEF TestIsTracked

\* At the start nobody tests or probes the row.
LEMMA CatalogInitInv == CatalogInit => CatalogInv
BY DEF CatalogInit, CatalogInv, RowOK, TestIsTracked, FindingOK, EnabledIsVerified, Present, IdleTest

\* saveSelection: the verdicts of the old row stay, what may be enabled comes from the
\* new selection.
LEMMA SaveKeepsCatalog ==
  ASSUME CatalogInv, NEW s, SaveSelection(s)
  PROVE  CatalogInv' /\ VerdictKept
<1> DEFINE selection == Selected(s)
           kept == KeepVerdicts(selection, row)
           next == Stored(kept, row.id, FormatRevisionTime(row.rev))
           fresh == Stored(selection, writes + 1, now * NanosPerSecond)
<1>1. /\ NormalizeSelection(selection) /\ finding' = finding
      /\ Present => Write(next) /\ manual' = manual
      /\ ~Present => Write(fresh) /\ manual' = manual
  BY DEF SaveSelection
<1>2. selection.enabled /\ RequiresVerification(selection.kind) => selection.verified
  BY <1>1, Zenon DEF NormalizeSelection
<1>3. /\ DOMAIN selection = {"kind", "provider", "target", "enabled", "tools", "toolsStatus", "reasoning",
                             "reasoningStatus", "wire", "verified"}
  BY DEF Selected
<1>4. writes \in Nat /\ now \in Nat /\ RowOK(row, writes)
  BY DEF CatalogInv
<1>5. CASE Present
  <2>1. /\ kept.enabled = selection.enabled /\ kept.kind = selection.kind /\ kept.verified = selection.verified
        /\ row.toolsStatus \in ToolsVerdicts => kept.toolsStatus = row.toolsStatus /\ kept.tools = row.tools
        /\ row.reasoningStatus \in ReasoningVerdicts =>
             kept.reasoningStatus = row.reasoningStatus /\ kept.reasoning = row.reasoning /\ kept.wire = row.wire
    BY <1>3 DEF KeepVerdicts
  <2> HIDE DEF selection, kept
  <2>2. /\ DOMAIN next = RowFields /\ next.id = row.id /\ next.rev = FormatRevisionTime(row.rev)
        /\ next.enabled = kept.enabled /\ next.kind = kept.kind /\ next.verified = kept.verified
        /\ next.toolsStatus = kept.toolsStatus /\ next.tools = kept.tools
        /\ next.reasoningStatus = kept.reasoningStatus /\ next.reasoning = kept.reasoning
        /\ next.wire = kept.wire
    BY DEF Stored, RowFields
  <2>3. Write(next) /\ manual' = manual /\ row.id \in 1..writes /\ row.rev \in Nat
    BY <1>1, <1>4, <1>5, RowPresent DEF Present
  <2>4. FormatRevisionTime(row.rev) \in Nat /\ FormatRevisionTime(row.rev) > row.rev
    BY <1>4, <2>3, RevisionMoves
  <2> HIDE DEF next
  <2>5. RowOK(next, writes + 1) /\ next.rev > row.rev
    BY <1>4, <2>2, <2>3, <2>4 DEF RowOK
  <2>6. now' \in Nat /\ writes' \in Nat /\ RowOK(row, writes)' /\ TestIsTracked'
    BY <1>5, <2>2, <2>3, <2>5, WriteKeepsRow
  <2>7. row' = next
    BY <2>3 DEF Write
  <2>8. EnabledIsVerified'
    BY <1>2, <2>1, <2>2, <2>7 DEF EnabledIsVerified
  <2>9. FindingOK'
    BY <1>1 DEF CatalogInv, FindingOK
  <2>10. VerdictKept
    BY <2>1, <2>2, <2>7 DEF VerdictKept, ToolsKept, ReasoningKept, ReasoningUntouched
  <2> QED
    BY <2>6, <2>8, <2>9, <2>10 DEF CatalogInv
<1>6. CASE ~Present
  <2> HIDE DEF selection
  <2>2. /\ DOMAIN fresh = RowFields /\ fresh.id = writes + 1 /\ fresh.rev = now * NanosPerSecond
        /\ fresh.enabled = selection.enabled /\ fresh.kind = selection.kind
        /\ fresh.verified = selection.verified
    BY DEF Stored, RowFields
  <2>3. Write(fresh) /\ manual' = manual /\ now * NanosPerSecond \in Nat
    BY <1>1, <1>4, <1>6 DEF NanosPerSecond
  <2> HIDE DEF fresh
  <2>5. RowOK(fresh, writes + 1)
    BY <1>4, <2>2, <2>3 DEF RowOK
  <2>6. now' \in Nat /\ writes' \in Nat /\ RowOK(row, writes)' /\ TestIsTracked'
    BY <1>6, <2>2, <2>3, <2>5, WriteKeepsRow
  <2>7. row' = fresh
    BY <2>3 DEF Write
  <2>8. EnabledIsVerified'
    BY <1>2, <2>2, <2>7 DEF EnabledIsVerified
  <2>9. FindingOK'
    BY <1>1 DEF CatalogInv, FindingOK
  <2> QED
    BY <1>6, <2>6, <2>8, <2>9 DEF CatalogInv, VerdictKept
<1> QED
  BY <1>5, <1>6

\* applyPatch, Patch: what may be enabled is judged on the row as it will be stored.
LEMMA PatchKeepsCatalog ==
  ASSUME CatalogInv, NEW p \in Patches, PatchModel(p)
  PROVE  CatalogInv' /\ VerdictKept
<1> DEFINE selection == ApplyPatch(p)
           next == [selection EXCEPT !.toolsStatus = row.toolsStatus, !.rev = FormatRevisionTime(row.rev)]
<1>1. /\ Present /\ NormalizeSelection(selection) /\ Write(next)
      /\ finding' = finding /\ manual' = manual
  BY DEF PatchModel
<1>2. selection.enabled /\ RequiresVerification(selection.kind) => selection.verified
  BY <1>1, Zenon DEF NormalizeSelection
<1>3. writes \in Nat /\ now \in Nat /\ DOMAIN row = RowFields /\ row.id \in 1..writes /\ row.rev \in Nat
  BY <1>1, RowPresent DEF CatalogInv, Present
<1>4. "id" \notin DOMAIN p /\ "rev" \notin DOMAIN p
  BY CatalogAssumption
<1>5. DOMAIN selection = RowFields /\ selection.id = row.id
  BY <1>3, <1>4 DEF ApplyPatch, RowFields
<1>13. "tools" \notin DOMAIN p => selection.tools = row.tools
  BY <1>3 DEF ApplyPatch, RowFields
<1>14. "reasoning" \notin DOMAIN p /\ "reasoningStatus" \notin DOMAIN p /\ "wire" \notin DOMAIN p =>
         selection.reasoning = row.reasoning /\ selection.reasoningStatus = row.reasoningStatus
         /\ selection.wire = row.wire
  BY <1>3 DEF ApplyPatch, RowFields
<1> HIDE DEF selection
<1>6. FormatRevisionTime(row.rev) \in Nat /\ FormatRevisionTime(row.rev) > row.rev
  BY <1>3, RevisionMoves
<1>7. /\ DOMAIN next = RowFields /\ next.id = row.id /\ next.rev = FormatRevisionTime(row.rev)
      /\ next.enabled = selection.enabled /\ next.kind = selection.kind
      /\ next.verified = selection.verified /\ next.toolsStatus = row.toolsStatus
      /\ next.tools = selection.tools /\ next.reasoning = selection.reasoning
      /\ next.reasoningStatus = selection.reasoningStatus /\ next.wire = selection.wire
  BY <1>5 DEF RowFields
<1> HIDE DEF next
<1>8. RowOK(next, writes + 1) /\ next.rev > row.rev
  BY <1>3, <1>6, <1>7 DEF RowOK
<1>9. now' \in Nat /\ writes' \in Nat /\ RowOK(row, writes)' /\ TestIsTracked'
  BY <1>1, <1>7, <1>8, WriteKeepsRow
<1>10. row' = next
  BY <1>1 DEF Write
<1>11. EnabledIsVerified'
  BY <1>2, <1>7, <1>10 DEF EnabledIsVerified
<1>12. FindingOK'
  BY <1>1 DEF CatalogInv, FindingOK
<1>15. ToolsKept
  <2>1. "tools" \in DOMAIN p => Patched({"tools"})
    BY Zenon DEF Patched
  <2> QED
    BY <1>7, <1>10, <1>13, <2>1 DEF ToolsKept
<1>16. ReasoningKept
  <2> DEFINE fields == {"reasoning", "reasoningStatus", "wire"}
  <2>1. fields \cap DOMAIN p # {} => Patched(fields)
    BY Zenon DEF Patched
  <2>2. fields \cap DOMAIN p = {} => ReasoningUntouched
    BY <1>7, <1>10, <1>14 DEF ReasoningUntouched
  <2> QED
    BY <2>1, <2>2 DEF ReasoningKept
<1> QED
  BY <1>9, <1>11, <1>12, <1>15, <1>16 DEF CatalogInv, VerdictKept

\* Delete: the row a test has loaded is gone, and its id is not given again.
LEMMA DeleteKeepsCatalog ==
  ASSUME CatalogInv, DeleteModel
  PROVE  CatalogInv' /\ VerdictKept
<1>1. Present /\ Write(Absent) /\ finding' = finding /\ manual' = manual
  BY DEF DeleteModel
<1>2. now' \in Nat /\ writes' \in Nat /\ RowOK(row, writes)' /\ TestIsTracked'
  BY <1>1, WriteKeepsRow DEF RowOK
<1>3. row' = Absent
  BY <1>1 DEF Write
<1>4. row.id # 0 /\ row'.id = 0
  BY <1>1, <1>3, RowPresent DEF CatalogInv, Present, Absent
<1>5. EnabledIsVerified' /\ FindingOK' /\ VerdictKept
  BY <1>1, <1>3, <1>4 DEF CatalogInv, EnabledIsVerified, Present, FindingOK, VerdictKept
<1> QED
  BY <1>2, <1>5 DEF CatalogInv

\* Steps that leave the row: a block, the end of a manual test, reading.
LEMMA SameRowKeepsCatalog ==
  ASSUME CatalogInv, UNCHANGED <<row, writes>>, now' \in Nat,
         manual' = manual \/ manual' = IdleTest, FindingOK'
  PROVE  CatalogInv' /\ VerdictKept
<1>1. RowOK(row, writes)' /\ EnabledIsVerified' /\ VerdictKept
  BY UntouchedKept DEF CatalogInv, RowOK, EnabledIsVerified, Present, ToolsUntouched, ReasoningUntouched
<1>2. TestIsTracked'
  BY DEF CatalogInv, TestIsTracked, Present
<1> QED
  BY <1>1, <1>2 DEF CatalogInv

\* The first transaction of a manual test loads the row as it stands.
LEMMA LoadKeepsCatalog ==
  ASSUME CatalogInv, NEW k, LoadForTest(k)
  PROVE  CatalogInv' /\ VerdictKept
<1>1. /\ Present /\ manual' = [at |-> "testing", seen |-> row, key |-> k, setBack |-> FALSE]
      /\ UNCHANGED <<row, now, writes, finding>>
  BY DEF LoadForTest
<1>2. row.id \in 1..writes /\ row.rev \in Nat
  BY <1>1, RowPresent DEF CatalogInv, Present
<1>3. TestIsTracked'
  BY <1>1, <1>2 DEF TestIsTracked
<1>4. RowOK(row, writes)' /\ EnabledIsVerified' /\ VerdictKept /\ FindingOK'
  BY <1>1, UntouchedKept
  DEF CatalogInv, RowOK, EnabledIsVerified, Present, FindingOK, ToolsUntouched, ReasoningUntouched
<1> QED
  BY <1>1, <1>3, <1>4 DEF CatalogInv

\* VerifyAndUnblock: the row that is marked is the one that was tested.
LEMMA VerifyKeepsCatalog ==
  ASSUME CatalogInv, VerifyAndUnblockModel
  PROVE  CatalogInv' /\ VerdictKept
<1>1. SameVersion /\ manual' = IdleTest /\ UNCHANGED <<now, finding>>
  BY DEF VerifyAndUnblockModel
<1>2. CASE ~RequiresVerification(row.kind)
  <2>1. UNCHANGED <<row, writes>>
    BY <1>2 DEF VerifyAndUnblockModel
  <2> QED
    BY <1>1, <2>1, SameRowKeepsCatalog DEF CatalogInv, FindingOK
<1>3. CASE RequiresVerification(row.kind)
  <2> DEFINE next == [row EXCEPT !.verified = TRUE, !.rev = FormatRevisionTime(row.rev)]
  <2>1. writes' = writes + 1 /\ row' = next
    BY <1>3 DEF VerifyAndUnblockModel
  <2>2. writes \in Nat /\ now \in Nat /\ DOMAIN row = RowFields /\ row.id \in 1..writes /\ row.rev \in Nat
    BY <1>1, RowPresent DEF CatalogInv, SameVersion, Present
  <2>3. FormatRevisionTime(row.rev) \in Nat
    BY <2>2, RevisionMoves
  <2>4. /\ DOMAIN next = RowFields /\ next.id = row.id /\ next.rev = FormatRevisionTime(row.rev)
        /\ next.toolsStatus = row.toolsStatus /\ next.tools = row.tools
        /\ next.reasoningStatus = row.reasoningStatus /\ next.reasoning = row.reasoning
        /\ next.wire = row.wire
    BY <2>2 DEF RowFields
  <2>5. next.verified
    BY <2>2, Zenon DEF RowFields
  <2> HIDE DEF next
  <2>6. RowOK(row, writes)' /\ writes' \in Nat
    BY <2>1, <2>2, <2>3, <2>4 DEF RowOK
  <2>7. EnabledIsVerified' /\ VerdictKept
    BY <2>1, <2>4, <2>5, UntouchedKept DEF EnabledIsVerified, ToolsUntouched, ReasoningUntouched
  <2> QED
    BY <1>1, <2>6, <2>7 DEF CatalogInv, TestIsTracked, FindingOK
<1> QED
  BY <1>2, <1>3

\* applyProbe: the update names the capability it found, and no other field but the
\* revision.
LEMMA ApplyKeepsCatalog ==
  ASSUME CatalogInv, ApplyProbe
  PROVE  CatalogInv' /\ VerdictKept
<1>1. finding.at = "writing" /\ finding.update \in Updates /\ finding.rev \in Nat
  BY DEF ApplyProbe, CatalogInv, FindingOK
<1>2. finding'.at # "writing"
  BY DEF ApplyProbe, IdleTest
<1>3. FindingOK'
  BY <1>2 DEF FindingOK
<1>4. CASE ~(Present /\ row.id = finding.id)
  <2>1. UNCHANGED <<row, now, writes, manual>>
    BY <1>4 DEF ApplyProbe
  <2> QED
    BY <1>3, <2>1, SameRowKeepsCatalog DEF CatalogInv
<1>5. CASE Present /\ row.id = finding.id
  <2> DEFINE next == [f \in DOMAIN row |-> IF f \in DOMAIN finding.update THEN finding.update[f]
                                           ELSE IF f = "rev" THEN finding.rev ELSE row[f]]
  <2>1. Write(next) /\ manual' = IF SetsBack THEN [manual EXCEPT !.setBack = TRUE] ELSE manual
    BY <1>5 DEF ApplyProbe
  <2>2. writes \in Nat /\ now \in Nat /\ DOMAIN row = RowFields /\ row.id \in 1..writes /\ row.rev \in Nat
    BY <1>5, RowPresent DEF CatalogInv, Present
  <2>4. \/ DOMAIN finding.update = {"tools", "toolsStatus"}
        \/ DOMAIN finding.update = {"reasoning", "reasoningStatus", "wire"}
    BY <1>1 DEF Updates
  <2>5. /\ DOMAIN next = RowFields /\ next.id = row.id /\ next.rev = finding.rev
        /\ next.enabled = row.enabled /\ next.kind = row.kind /\ next.verified = row.verified
        /\ "tools" \notin DOMAIN finding.update =>
             next.toolsStatus = row.toolsStatus /\ next.tools = row.tools
        /\ "reasoning" \notin DOMAIN finding.update =>
             /\ next.reasoningStatus = row.reasoningStatus /\ next.reasoning = row.reasoning
             /\ next.wire = row.wire
    BY <2>2, <2>4 DEF RowFields
  <2> HIDE DEF next
  <2>6. RowOK(next, writes + 1)
    BY <1>1, <2>2, <2>5 DEF RowOK
  <2>7. now' \in Nat /\ writes' \in Nat /\ RowOK(row, writes)' /\ TestIsTracked'
    <3>1. CASE SetsBack
      BY <2>1, <2>6, <3>1, WriteSetsBack DEF SetsBack
    <3>2. CASE ~SetsBack
      <4>1. manual.at = "testing" => finding.rev > row.rev
        BY <1>1, <2>2, <3>2 DEF SetsBack
      <4> QED
        BY <1>5, <2>1, <2>5, <2>6, <3>2, <4>1, WriteKeepsRow
    <3> QED
      BY <3>1, <3>2
  <2>8. row' = next
    BY <2>1 DEF Write
  <2>9. EnabledIsVerified'
    BY <1>5, <2>5, <2>8 DEF CatalogInv, EnabledIsVerified
  <2>10. ToolsKept /\ ReasoningKept
    BY <1>1, <2>5, <2>8 DEF ToolsKept, ReasoningKept, ReasoningUntouched, Probed
  <2> QED
    BY <1>3, <2>7, <2>9, <2>10 DEF CatalogInv, VerdictKept
<1> QED
  BY <1>4, <1>5

\* SetEnabled: a stale model is disabled.
LEMMA DisableKeepsCatalog ==
  ASSUME CatalogInv, DisableStale
  PROVE  CatalogInv' /\ VerdictKept
<1>1. FindingOK'
  BY DEF DisableStale, CatalogInv, FindingOK
<1>2. CASE ~(Present /\ row.id = syncing.id)
  <2>1. UNCHANGED <<row, now, writes, manual>>
    BY <1>2 DEF DisableStale
  <2> QED
    BY <1>1, <2>1, SameRowKeepsCatalog DEF CatalogInv
<1>3. CASE Present /\ row.id = syncing.id
  <2> DEFINE next == [row EXCEPT !.enabled = FALSE, !.rev = FormatRevisionTime(row.rev)]
  <2>1. Write(next) /\ manual' = manual
    BY <1>3 DEF DisableStale
  <2>2. writes \in Nat /\ now \in Nat /\ DOMAIN row = RowFields /\ row.id \in 1..writes /\ row.rev \in Nat
    BY <1>3, RowPresent DEF CatalogInv, Present
  <2>3. FormatRevisionTime(row.rev) \in Nat /\ FormatRevisionTime(row.rev) > row.rev
    BY <2>2, RevisionMoves
  <2>4. /\ DOMAIN next = RowFields /\ next.id = row.id /\ next.rev = FormatRevisionTime(row.rev)
        /\ next.toolsStatus = row.toolsStatus /\ next.tools = row.tools
        /\ next.reasoningStatus = row.reasoningStatus /\ next.reasoning = row.reasoning
        /\ next.wire = row.wire
    BY <2>2 DEF RowFields
  <2>5. ~next.enabled
    BY <2>2, Zenon DEF RowFields
  <2> HIDE DEF next
  <2>6. RowOK(next, writes + 1) /\ next.rev > row.rev
    BY <2>2, <2>3, <2>4 DEF RowOK
  <2>7. now' \in Nat /\ writes' \in Nat /\ RowOK(row, writes)' /\ TestIsTracked'
    BY <1>3, <2>1, <2>4, <2>6, WriteKeepsRow
  <2>8. row' = next
    BY <2>1 DEF Write
  <2>9. EnabledIsVerified' /\ VerdictKept
    BY <2>4, <2>5, <2>8, UntouchedKept DEF EnabledIsVerified, ToolsUntouched, ReasoningUntouched
  <2> QED
    BY <1>1, <2>7, <2>9 DEF CatalogInv
<1> QED
  BY <1>2, <1>3

\* Every step of the catalogue keeps its invariant and the verdicts.
LEMMA CatalogStepInv == CatalogInv /\ [CatalogNext]_catalogVars => CatalogInv' /\ [VerdictKept]_catalogVars
<1> SUFFICES ASSUME CatalogInv, [CatalogNext]_catalogVars PROVE CatalogInv' /\ [VerdictKept]_catalogVars
  OBVIOUS
<1>0. now \in Nat /\ FindingOK
  BY DEF CatalogInv
<1>1. CASE UNCHANGED catalogVars
  BY <1>0, <1>1, SameRowKeepsCatalog DEF catalogVars, FindingOK
<1>2. ASSUME NEW k \in Keys, BlockKeyModel(k) PROVE CatalogInv' /\ VerdictKept
  BY <1>0, <1>2, SameRowKeepsCatalog DEF BlockKeyModel, FindingOK
<1>3. ASSUME TestFails \/ VerifyConflicts PROVE CatalogInv' /\ VerdictKept
  BY <1>0, <1>3, SameRowKeepsCatalog DEF TestFails, VerifyConflicts, FindingOK
<1>4. ASSUME StartFinding \/ FindingEnds PROVE CatalogInv' /\ VerdictKept
  <2>1. finding'.at # "writing"
    BY <1>4 DEF StartFinding, FindingEnds, IdleTest
  <2> QED
    BY <1>0, <1>4, <2>1, SameRowKeepsCatalog DEF StartFinding, FindingEnds, FindingOK
<1>5. ASSUME NEW u \in Updates, ReadRevision(u) PROVE CatalogInv' /\ VerdictKept
  <2>1. FindingOK'
    <3>1. CASE Present /\ row.id = finding.id
      <4>1. row.rev \in Nat
        BY <3>1, RowPresent DEF CatalogInv, Present
      <4> QED
        BY <1>0, <1>5, <3>1, <4>1, RevisionMoves DEF ReadRevision, FindingOK
    <3>2. CASE ~(Present /\ row.id = finding.id)
      BY <1>5, <3>2 DEF ReadRevision, FindingOK, IdleTest
    <3> QED
      BY <3>1, <3>2
  <2> QED
    BY <1>0, <1>5, <2>1, SameRowKeepsCatalog DEF ReadRevision
<1>6. ASSUME NEW gateway \in SUBSET Targets, ListStale(gateway) PROVE CatalogInv' /\ VerdictKept
  BY <1>0, <1>6, SameRowKeepsCatalog DEF ListStale, FindingOK
<1>7. ASSUME SecondPasses PROVE CatalogInv' /\ VerdictKept
  BY <1>0, <1>7, SameRowKeepsCatalog DEF SecondPasses, FindingOK
<1>8. CASE CatalogNext
  BY <1>2, <1>3, <1>4, <1>5, <1>6, <1>7, <1>8, SaveKeepsCatalog, PatchKeepsCatalog, DeleteKeepsCatalog,
     LoadKeepsCatalog, VerifyKeepsCatalog, ApplyKeepsCatalog, DisableKeepsCatalog DEF CatalogNext
<1> QED
  BY <1>1, <1>8

\* The inductive invariant holds in every reachable state.
THEOREM CatalogInductive == CatalogSpec => []CatalogInv
<1> QED
  BY CatalogInitInv, CatalogStepInv, PTL DEF CatalogSpec

\* VerifyAndUnblock, formatRevisionTime, saveSelection: an audio model that requests may
\* use was verified, a manual test that is accepted was made of the row as it stands
\* unless a probe has set its revision back, and no save, disable or manual test undoes
\* what a probe found, nor a patch that names other fields: for every set of keys,
\* selections and patches and however long the clock runs.
THEOREM CatalogVerified == CatalogSpec => VerificationHolds
<1>1. CatalogInv => EnabledIsVerified /\ AcceptedTestIsCurrent
  <2> SUFFICES ASSUME CatalogInv, manual.at = "testing", SameVersion, ~manual.setBack
               PROVE  row = manual.seen
    BY DEF CatalogInv, AcceptedTestIsCurrent
  <2>1. manual # IdleTest
    BY DEF IdleTest
  <2> QED
    BY <2>1 DEF CatalogInv, TestIsTracked, SameVersion
<1>2. VerdictsSurviveSaves <=> [][VerdictKept]_catalogVars
  <2>1. [VerdictKept]_catalogVars <=>
          [Present /\ row'.id = row.id =>
             /\ row.toolsStatus \in ToolsVerdicts =>
                  \/ row'.toolsStatus = row.toolsStatus /\ (row'.tools = row.tools \/ Patched({"tools"}))
                  \/ Probed("tools")
             /\ row.reasoningStatus \in ReasoningVerdicts =>
                  \/ /\ row'.reasoningStatus = row.reasoningStatus
                     /\ row'.reasoning = row.reasoning /\ row'.wire = row.wire
                  \/ Patched({"reasoning", "reasoningStatus", "wire"})
                  \/ Probed("reasoning")]_catalogVars
    BY Zenon DEF VerdictKept, ToolsKept, ReasoningKept, ReasoningUntouched
  <2> QED
    BY <2>1, PTL DEF VerdictsSurviveSaves
<1> QED
  BY <1>1, <1>2, CatalogInductive, CatalogStepInv, PTL DEF CatalogSpec, VerificationHolds

----------------------------------------------------------------------------
(* The health of the models.                                               *)

HealthSpec == HealthInit /\ [][HealthNext]_healthVars

LoopSteps == {"start", "waiting", "reload", "probing", "stopped"}
BatchSteps == {"none", "settings", "list", "key", "count", "feeding"}
BatchKeys == {"usable", "cooling", "missing", "source failed", "not needed"}
ErrorCodes ==
  {"", "canceled", "keys_cooling", "no_credential", "key_source_unavailable", "provider_not_configured"}
ProbeEvents ==
  [outcome : {"success", "failure", "timeout", "skipped", "canceled"},
   code : ErrorCodes]
LatestRows ==
  [outcome : {"none", "success", "failure", "timeout", "skipped", "canceled"},
   code : ErrorCodes, run : Nat]
IsFailure(event) == event.outcome \in {"failure", "timeout"}

\* A batch runs while the loop probes, and only then.
LoopAndBatch ==
  /\ DOMAIN loop = {"at", "copy", "armed", "stale"} /\ loop.at \in LoopSteps
  /\ batch.at \in BatchSteps
  /\ batch.at = "none" <=> loop.at # "probing"
  /\ batch.at \in {"key", "count"} => DOMAIN batch = {"at", "todo"}
  /\ batch.at = "feeding" => DOMAIN batch = {"at", "todo", "key", "busy"} /\ batch.key \in BatchKeys

\* The timer is armed with the copy, and the copy, also of a loop that probes, is the
\* stored row unless a wake-up is on its way or the row could not be read.
CopyIsCurrent ==
  /\ loop.at = "waiting" => loop.armed = loop.copy.interval
  /\ loop.at \in {"waiting", "probing"} /\ "wake" \notin signals /\ patching # "committed" /\ ~loop.stale
       => loop.copy = settings

\* Whoever found no key has seen a time without one.
KeysAreKnown ==
  /\ unkeyed \in BOOLEAN
  /\ keyring = "none" => unkeyed
  /\ batch.at = "feeding" /\ batch.key \in {"missing", "source failed"} => unkeyed
  /\ batch.at = "feeding" /\ batch.key = "not needed" => batch.todo \cup batch.busy \subseteq Keyless
  /\ CoolingIsNotMissing

\* The run of failures of a model reaches back to the latest probe that did not fail,
\* or beyond the history that was kept.
HistoryIsKept(history, shown) ==
  LET n == Len(history) IN
  /\ \A i \in 1..n : i > n - shown.run => IsFailure(history[i])
  /\ shown.run < n => ~IsFailure(history[n - shown.run])
  /\ n > 0 => shown.outcome = history[n].outcome

TablesAgree ==
  /\ probes \in [HealthModels -> Seq(ProbeEvents)] /\ latest \in [HealthModels -> LatestRows]
  /\ \A m \in HealthModels : HistoryIsKept(probes[m], latest[m])

\* The inductive invariant.
HealthInv == LoopAndBatch /\ CopyIsCurrent /\ owed \in BOOLEAN /\ EnablingIsProbed /\ KeysAreKnown /\ TablesAgree

\* At the start the loop has not read its settings and nothing was probed.
LEMMA HealthInitInv == HealthInit => HealthInv
<1> SUFFICES ASSUME HealthInit PROVE HealthInv
  OBVIOUS
<1>1. LoopAndBatch /\ CopyIsCurrent /\ EnablingIsProbed
  BY DEF HealthInit, LoopAndBatch, CopyIsCurrent, EnablingIsProbed, LoopSteps, BatchSteps, NoBatch
<1>2. owed \in BOOLEAN /\ unkeyed \in BOOLEAN
  BY DEF HealthInit
<1>3. KeysAreKnown
  BY <1>2 DEF HealthInit, KeysAreKnown, CoolingIsNotMissing, NoLatest, NoBatch
<1>4. NoLatest \in LatestRows /\ <<>> \in Seq(ProbeEvents) /\ Len(<<>>) = 0
  BY EmptySeq DEF NoLatest, LatestRows, ErrorCodes
<1>5. HistoryIsKept(<<>>, NoLatest)
  <2> DEFINE none == <<>>
  <2>1. NoLatest.run = 0 /\ Len(none) = 0
    BY <1>4 DEF NoLatest
  <2> HIDE DEF none
  <2>2. HistoryIsKept(none, NoLatest)
    BY <2>1 DEF HistoryIsKept
  <2> QED
    BY <2>2 DEF none
<1>6. TablesAgree
  BY <1>4, <1>5 DEF HealthInit, TablesAgree
<1> QED
  BY <1>1, <1>2, <1>3, <1>6 DEF HealthInv

\* Steps that write neither table leave them in agreement.
LEMMA TablesKept ==
  ASSUME HealthInv, UNCHANGED <<probes, latest>>
  PROVE  TablesAgree'
BY DEF HealthInv, TablesAgree, HistoryIsKept

\* Steps that neither ask for keys nor record a probe leave what is known of them.
LEMMA KeysKept ==
  ASSUME HealthInv, UNCHANGED <<latest, keyring, unkeyed>>,
         batch'.at = "feeding" =>
           /\ batch.at = "feeding" /\ batch'.key = batch.key
           /\ batch'.todo \cup batch'.busy \subseteq batch.todo \cup batch.busy
  PROVE  KeysAreKnown'
BY DEF HealthInv, KeysAreKnown, CoolingIsNotMissing, SkippedStatus

\* PatchSettings: the row is stored before the wake-up, the wake-up is sent before the
\* request for a batch.
LEMMA PatchKeepsHealth ==
  ASSUME HealthInv,
         (\E new \in [enabled : BOOLEAN, interval : Intervals] : CommitSettings(new)) \/ SendWake \/ RunNow
  PROVE  HealthInv'
<1>1. UNCHANGED <<probes, latest, keyring, unkeyed, loop, batch>>
  BY DEF CommitSettings, SendWake, RunNow, tableVars, keyVars
<1>2. TablesAgree' /\ KeysAreKnown' /\ LoopAndBatch'
  BY <1>1, TablesKept, KeysKept DEF HealthInv, LoopAndBatch
<1>3. CopyIsCurrent'
  BY <1>1 DEF HealthInv, CopyIsCurrent, CommitSettings, SendWake, Woken, RunNow, Signalled
<1>4. CASE UNCHANGED owed
  BY <1>1, <1>2, <1>3, <1>4 DEF HealthInv, EnablingIsProbed, CommitSettings, SendWake, Woken, RunNow, Signalled
<1>5. CASE RunNow
  <2>1. /\ owed' = (owed \/ settings.enabled)
        /\ signals' = IF settings.enabled THEN signals \cup {"trigger"} ELSE signals
    BY <1>5 DEF RunNow, Signalled
  <2>2. owed' \in BOOLEAN
    BY <2>1
  <2>3. EnablingIsProbed'
    BY <1>1, <2>1 DEF HealthInv, EnablingIsProbed
  <2> QED
    BY <1>2, <1>3, <2>2, <2>3 DEF HealthInv
<1> QED
  BY <1>4, <1>5 DEF CommitSettings, SendWake

\* The loop: what it reads of the row it arms, and what it takes from a channel it acts
\* on.
LEMMA LoopKeepsHealth ==
  ASSUME HealthInv, LoopStep \/ \E ok \in BOOLEAN : TimerFires(ok)
  PROVE  HealthInv'
<1>1. UNCHANGED <<probes, latest, keyring, unkeyed, settings, patching, owed>>
  BY DEF LoopStep, LoopStarts, ReloadSettings, TakeTrigger, TakeWake, LoopStops, TimerFires,
         adminVars, tableVars, keyVars
<1>2. batch' = batch \/ batch'.at = "settings"
  <2>1. ASSUME NEW ok \in BOOLEAN, TimerFires(ok) PROVE batch' = batch \/ batch' = [at |-> "settings"]
    BY <2>1 DEF TimerFires, BeginBatch
  <2>2. batch' = batch \/ batch' = [at |-> "settings"]
    BY <2>1 DEF LoopStep, LoopStarts, ReloadSettings, TakeTrigger, TakeWake, LoopStops, BeginBatch
  <2> QED
    BY <2>2
<1>3. TablesAgree' /\ KeysAreKnown' /\ owed' \in BOOLEAN
  BY <1>1, <1>2, TablesKept, KeysKept DEF HealthInv
<1>4. DOMAIN loop = {"at", "copy", "armed", "stale"}
  BY DEF HealthInv, LoopAndBatch
<1>5. ASSUME NEW ok \in BOOLEAN, LoopStarts(ok) PROVE LoopAndBatch' /\ CopyIsCurrent' /\ EnablingIsProbed'
  <2> DEFINE copy == IF ok THEN settings ELSE [enabled |-> FALSE, interval |-> Default]
  <2>1. /\ loop.at = "start" /\ batch' = batch
        /\ loop' = [at |-> "waiting", copy |-> copy, armed |-> copy.interval, stale |-> ~ok]
        /\ signals \subseteq signals'
    BY <1>5 DEF LoopStarts, Signalled
  <2>2. ok => copy = settings
    OBVIOUS
  <2> HIDE DEF copy
  <2>3. /\ DOMAIN loop' = {"at", "copy", "armed", "stale"} /\ loop'.at = "waiting" /\ loop'.copy = copy
        /\ loop'.armed = copy.interval
    BY <2>1
  <2>4. ~loop'.stale => ok
    BY <2>1, Zenon
  <2> QED
    BY <1>1, <2>1, <2>2, <2>3, <2>4
       DEF HealthInv, LoopAndBatch, LoopSteps, CopyIsCurrent, EnablingIsProbed
<1>6. ASSUME NEW ok \in BOOLEAN, ReloadSettings(ok) PROVE LoopAndBatch' /\ CopyIsCurrent' /\ EnablingIsProbed'
  <2> DEFINE copy == IF ok THEN settings ELSE loop.copy
  <2>1. /\ loop.at = "reload" /\ batch' = batch /\ signals' = signals
        /\ loop' = [at |-> "waiting", copy |-> copy, armed |-> copy.interval, stale |-> ~ok]
    BY <1>6 DEF ReloadSettings
  <2>2. ok => copy = settings
    OBVIOUS
  <2> HIDE DEF copy
  <2>3. /\ DOMAIN loop' = {"at", "copy", "armed", "stale"} /\ loop'.at = "waiting" /\ loop'.copy = copy
        /\ loop'.armed = copy.interval
    BY <2>1
  <2>4. ~loop'.stale => ok
    BY <2>1, Zenon
  <2> QED
    BY <1>1, <2>1, <2>2, <2>3, <2>4
       DEF HealthInv, LoopAndBatch, LoopSteps, CopyIsCurrent, EnablingIsProbed
<1>7. ASSUME TakeTrigger PROVE LoopAndBatch' /\ CopyIsCurrent' /\ EnablingIsProbed'
  <2>1. /\ loop.at = "waiting" /\ loop' = [loop EXCEPT !.at = "probing"] /\ batch' = [at |-> "settings"]
        /\ signals' = signals \ {"trigger"}
    BY <1>7 DEF TakeTrigger, BeginBatch
  <2>2. /\ DOMAIN loop' = DOMAIN loop /\ loop'.at = "probing" /\ loop'.copy = loop.copy
        /\ loop'.stale = loop.stale /\ batch'.at = "settings"
    BY <1>4, <2>1
  <2> QED
    BY <1>1, <2>1, <2>2 DEF HealthInv, LoopAndBatch, LoopSteps, BatchSteps, CopyIsCurrent, EnablingIsProbed
<1>8. ASSUME TakeWake PROVE LoopAndBatch' /\ CopyIsCurrent' /\ EnablingIsProbed'
  <2>1. /\ loop.at = "waiting" /\ loop' = [loop EXCEPT !.at = "reload"] /\ batch' = batch
        /\ signals' = signals \ {"wake"}
    BY <1>8 DEF TakeWake
  <2>2. DOMAIN loop' = DOMAIN loop /\ loop'.at = "reload"
    BY <1>4, <2>1
  <2> QED
    BY <1>1, <2>1, <2>2 DEF HealthInv, LoopAndBatch, LoopSteps, CopyIsCurrent, EnablingIsProbed
<1>9. ASSUME LoopStops PROVE LoopAndBatch' /\ CopyIsCurrent' /\ EnablingIsProbed'
  <2>1. loop.at = "waiting" /\ loop' = [loop EXCEPT !.at = "stopped"] /\ batch' = batch /\ signals' = signals
    BY <1>9 DEF LoopStops
  <2>2. DOMAIN loop' = DOMAIN loop /\ loop'.at = "stopped"
    BY <1>4, <2>1
  <2> QED
    BY <1>1, <2>1, <2>2 DEF HealthInv, LoopAndBatch, LoopSteps, CopyIsCurrent, EnablingIsProbed
<1>10. ASSUME NEW ok \in BOOLEAN, TimerFires(ok) PROVE LoopAndBatch' /\ CopyIsCurrent' /\ EnablingIsProbed'
  <2> DEFINE copy == IF ok THEN settings ELSE loop.copy
  <2>1. /\ loop.at = "waiting" /\ signals' = signals
        /\ \/ /\ loop' = [loop EXCEPT !.at = "probing", !.copy = copy, !.stale = ~ok]
              /\ batch' = [at |-> "settings"]
           \/ /\ loop' = [loop EXCEPT !.copy = copy, !.armed = copy.interval, !.stale = ~ok]
              /\ batch' = batch
    BY <1>10 DEF TimerFires, BeginBatch
  <2>2. ok => copy = settings
    OBVIOUS
  <2> HIDE DEF copy
  <2>3. /\ DOMAIN loop' = DOMAIN loop /\ loop'.copy = copy
        /\ \/ loop'.at = "probing" /\ batch'.at = "settings"
           \/ loop'.at = "waiting" /\ loop'.armed = copy.interval /\ batch' = batch
    <3>1. CASE /\ loop' = [loop EXCEPT !.at = "probing", !.copy = copy, !.stale = ~ok]
               /\ batch' = [at |-> "settings"]
      BY <1>4, <3>1
    <3>2. CASE /\ loop' = [loop EXCEPT !.copy = copy, !.armed = copy.interval, !.stale = ~ok]
               /\ batch' = batch
      <4>1. DOMAIN loop' = DOMAIN loop /\ loop'.copy = copy /\ loop'.armed = copy.interval
        BY <1>4, <3>2
      <4>2. loop'.at = loop.at
        BY <1>4, <3>2
      <4> QED
        BY <2>1, <3>2, <4>1, <4>2
    <3> QED
      BY <2>1, <3>1, <3>2
  <2>4. loop'.stale = ~ok
    BY <1>4, <2>1, Zenon
  <2>5. ~loop'.stale => ok
    BY <2>4, Zenon
  <2>6. LoopAndBatch'
    BY <2>1, <2>3 DEF HealthInv, LoopAndBatch, LoopSteps, BatchSteps
  <2>7. CopyIsCurrent'
    BY <1>1, <2>1, <2>2, <2>3, <2>5 DEF CopyIsCurrent
  <2>8. EnablingIsProbed'
    BY <1>1, <2>1, <2>3 DEF HealthInv, EnablingIsProbed
  <2> QED
    BY <2>6, <2>7, <2>8
<1>11. LoopAndBatch' /\ CopyIsCurrent' /\ EnablingIsProbed'
  BY <1>5, <1>6, <1>7, <1>8, <1>9, <1>10 DEF LoopStep
<1> QED
  BY <1>3, <1>11 DEF HealthInv

\* The end of a batch: the timer is armed with the loop's copy again.
LEMMA BatchOverKeepsLoop ==
  ASSUME HealthInv, BatchOver, batch.at # "none", UNCHANGED <<settings, patching, signals>>
  PROVE  LoopAndBatch' /\ CopyIsCurrent' /\ batch'.at = "none" /\ loop'.at = "waiting" /\ loop.at = "probing"
<1>1. /\ DOMAIN loop = {"at", "copy", "armed", "stale"} /\ loop.at = "probing"
      /\ batch' = NoBatch /\ loop' = [loop EXCEPT !.at = "waiting", !.armed = loop.copy.interval]
  BY DEF HealthInv, LoopAndBatch, BatchOver
<1>2. /\ DOMAIN loop' = DOMAIN loop /\ loop'.at = "waiting" /\ loop'.armed = loop.copy.interval
      /\ loop'.copy = loop.copy /\ loop'.stale = loop.stale
  BY <1>1
<1>3. batch'.at = "none"
  BY <1>1 DEF NoBatch
<1> QED
  BY <1>1, <1>2, <1>3 DEF HealthInv, LoopAndBatch, LoopSteps, BatchSteps, CopyIsCurrent

\* RunOnce up to the feeding: settings, list, keys.
LEMMA PrepareKeepsHealth ==
  ASSUME HealthInv,
         BatchFails \/ ReadSettings \/ ListModels \/ \E ok \in BOOLEAN : FirstEnabledID(ok) \/ CountEnabled(ok)
  PROVE  HealthInv'
<1>1. UNCHANGED <<probes, latest, keyring, settings, patching, signals>>
  BY DEF BatchFails, ReadSettings, ListModels, FirstEnabledID, CountEnabled, adminVars, tableVars, keyVars
<1>2. TablesAgree'
  BY <1>1, TablesKept
<1>3. CASE BatchFails
  <2>1. /\ BatchOver /\ owed' = (owed /\ batch.at = "list") /\ UNCHANGED <<keyring, unkeyed>>
        /\ batch.at \in {"settings", "list"}
    BY <1>3 DEF BatchFails, keyVars
  <2>2. LoopAndBatch' /\ CopyIsCurrent' /\ batch'.at = "none" /\ loop.at = "probing"
    BY <1>1, <2>1, BatchOverKeepsLoop
  <2>3. KeysAreKnown'
    BY <1>1, <2>1, <2>2, KeysKept
  <2>4. EnablingIsProbed' /\ owed' \in BOOLEAN
    BY <1>1, <2>1, <2>2 DEF HealthInv, EnablingIsProbed
  <2> QED
    BY <1>2, <2>2, <2>3, <2>4 DEF HealthInv
<1>6. CASE ListModels /\ listed \subseteq Keyless
  <2>1. /\ loop' = loop /\ UNCHANGED <<keyring, unkeyed, owed>> /\ batch.at = "list"
        /\ batch' = [at |-> "feeding", todo |-> listed, key |-> "not needed", busy |-> {}]
    BY <1>6 DEF ListModels, Feeding, keyVars
  <2>2. /\ batch'.at = "feeding" /\ batch'.key = "not needed" /\ DOMAIN batch' = {"at", "todo", "key", "busy"}
        /\ batch'.todo = listed /\ batch'.busy = {} /\ batch'.key \in BatchKeys
    BY <2>1 DEF BatchKeys
  <2>3. LoopAndBatch' /\ CopyIsCurrent'
    BY <1>1, <2>1, <2>2 DEF HealthInv, LoopAndBatch, BatchSteps, CopyIsCurrent
  <2>4. batch'.todo \cup batch'.busy \subseteq Keyless
    BY <1>6, <2>2
  <2>5. KeysAreKnown'
    BY <1>1, <2>1, <2>2, <2>4 DEF HealthInv, KeysAreKnown, CoolingIsNotMissing, SkippedStatus
  <2>6. EnablingIsProbed' /\ owed' \in BOOLEAN
    BY <1>1, <2>1 DEF HealthInv, EnablingIsProbed
  <2> QED
    BY <1>2, <2>3, <2>5, <2>6 DEF HealthInv
<1>4. CASE ReadSettings \/ (ListModels /\ ~(listed \subseteq Keyless))
  <2>1. /\ loop' = loop /\ UNCHANGED <<keyring, unkeyed>>
        /\ \/ batch.at = "settings" /\ batch' = [at |-> "list"] /\ owed' = FALSE
           \/ batch.at = "list" /\ batch' = [at |-> "key", todo |-> listed] /\ owed' = owed
    BY <1>4 DEF ReadSettings, ListModels, keyVars
  <2>2. /\ batch.at \in {"settings", "list"} /\ batch'.at \in {"list", "key"}
        /\ batch'.at = "key" => DOMAIN batch' = {"at", "todo"}
    BY <2>1
  <2>3. LoopAndBatch' /\ CopyIsCurrent'
    BY <1>1, <2>1, <2>2 DEF HealthInv, LoopAndBatch, BatchSteps, CopyIsCurrent
  <2>4. KeysAreKnown'
    BY <1>1, <2>1, <2>2, KeysKept
  <2>5. owed' \in BOOLEAN
    BY <2>1 DEF HealthInv
  <2>6. owed' => owed /\ batch.at = "list"
    BY <2>1, Zenon
  <2>7. EnablingIsProbed'
    BY <1>1, <2>1, <2>6 DEF HealthInv, EnablingIsProbed
  <2> QED
    BY <1>2, <2>3, <2>4, <2>5, <2>7 DEF HealthInv
<1>5. ASSUME NEW ok \in BOOLEAN, FirstEnabledID(ok) \/ CountEnabled(ok) PROVE HealthInv'
  <2>1. /\ loop' = loop /\ owed' = owed /\ unkeyed' = (unkeyed \/ ~ok) /\ batch.at \in {"key", "count"}
        /\ \/ \E key \in {"usable", "source failed", "missing", "cooling"} :
                /\ batch' = [at |-> "feeding", todo |-> batch.todo, key |-> key, busy |-> {}]
                /\ key = "source failed" => ~ok
                /\ key = "missing" => ~ok \/ keyring = "none"
           \/ batch' = [batch EXCEPT !.at = "count"]
    BY <1>5 DEF FirstEnabledID, CountEnabled, Counted, Feeding
  <2>2. DOMAIN batch = {"at", "todo"}
    BY <2>1 DEF HealthInv, LoopAndBatch
  <2>3. /\ batch'.at \in {"feeding", "count"}
        /\ batch'.at = "feeding" =>
             /\ DOMAIN batch' = {"at", "todo", "key", "busy"} /\ batch'.key \in BatchKeys
             /\ batch'.key \in {"source failed", "missing"} => ~ok \/ keyring = "none"
             /\ batch'.key # "not needed"
        /\ batch'.at = "count" => DOMAIN batch' = {"at", "todo"}
    <3>1. CASE \E key \in {"usable", "source failed", "missing", "cooling"} :
                /\ batch' = [at |-> "feeding", todo |-> batch.todo, key |-> key, busy |-> {}]
                /\ key = "source failed" => ~ok
                /\ key = "missing" => ~ok \/ keyring = "none"
      <4>1. PICK key \in {"usable", "source failed", "missing", "cooling"} :
                   /\ batch' = [at |-> "feeding", todo |-> batch.todo, key |-> key, busy |-> {}]
                   /\ key = "source failed" => ~ok
                   /\ key = "missing" => ~ok \/ keyring = "none"
        BY <3>1
      <4>2. batch'.at = "feeding" /\ batch'.key = key /\ DOMAIN batch' = {"at", "todo", "key", "busy"}
        BY <4>1
      <4>3. key \in BatchKeys
        BY DEF BatchKeys
      <4>4. key \in {"source failed", "missing"} => ~ok \/ keyring = "none"
        BY <4>1
      <4> QED
        BY <4>2, <4>3, <4>4
    <3>2. CASE batch' = [batch EXCEPT !.at = "count"]
      BY <2>2, <3>2
    <3> QED
      BY <2>1, <3>1, <3>2
  <2>4. LoopAndBatch' /\ CopyIsCurrent'
    BY <1>1, <2>1, <2>3 DEF HealthInv, LoopAndBatch, BatchSteps, CopyIsCurrent
  <2>5. EnablingIsProbed' /\ owed' \in BOOLEAN
    BY <1>1, <2>1 DEF HealthInv, EnablingIsProbed
  <2>6. unkeyed' \in BOOLEAN /\ (unkeyed => unkeyed') /\ (~ok => unkeyed') /\ (keyring = "none" => unkeyed)
    BY <2>1, Zenon DEF HealthInv, KeysAreKnown
  <2>7. CoolingIsNotMissing'
    BY <1>1, <2>6 DEF HealthInv, KeysAreKnown, CoolingIsNotMissing, SkippedStatus
  <2>8. KeysAreKnown'
    BY <1>1, <2>3, <2>6, <2>7 DEF KeysAreKnown
  <2> QED
    BY <1>2, <2>4, <2>5, <2>8 DEF HealthInv
<1> QED
  BY <1>3, <1>4, <1>5, <1>6

\* The workers of a batch change which models are left, not what the batch knows.
LEMMA FeedingKeepsBatch ==
  ASSUME HealthInv, batch.at = "feeding", NEW todo, NEW busy,
         batch' = [batch EXCEPT !.todo = todo, !.busy = busy],
         todo \cup busy \subseteq batch.todo \cup batch.busy,
         UNCHANGED <<loop, settings, patching, signals, owed>>
  PROVE  /\ LoopAndBatch' /\ CopyIsCurrent' /\ EnablingIsProbed' /\ owed' \in BOOLEAN
         /\ batch'.at = "feeding" /\ batch'.key = batch.key
         /\ batch'.todo \cup batch'.busy \subseteq batch.todo \cup batch.busy
<1>1. DOMAIN batch = {"at", "todo", "key", "busy"} /\ batch.key \in BatchKeys
  BY DEF HealthInv, LoopAndBatch
<1>2. /\ DOMAIN batch' = DOMAIN batch /\ batch'.at = "feeding" /\ batch'.key = batch.key
      /\ batch'.todo = todo /\ batch'.busy = busy
  BY <1>1
<1>3. LoopAndBatch' /\ CopyIsCurrent'
  BY <1>1, <1>2 DEF HealthInv, LoopAndBatch, CopyIsCurrent
<1> QED
  BY <1>2, <1>3 DEF HealthInv, EnablingIsProbed

\* A batch hands a model to a worker, cannot record, or stops: the tables stay.
LEMMA WorkersKeepHealth ==
  ASSUME HealthInv, FeederStops \/ \E m \in HealthModels : HandOver(m) \/ RecordFails(m)
  PROVE  HealthInv'
<1>1. /\ UNCHANGED <<probes, latest, keyring, unkeyed, loop, settings, patching, signals, owed>>
      /\ batch.at = "feeding"
  BY DEF FeederStops, HandOver, RecordFails, adminVars, tableVars, keyVars
<1>2. DOMAIN batch = {"at", "todo", "key", "busy"}
  BY <1>1 DEF HealthInv, LoopAndBatch
<1>3. \E todo, busy : /\ batch' = [batch EXCEPT !.todo = todo, !.busy = busy]
                      /\ todo \cup busy \subseteq batch.todo \cup batch.busy
  <2>1. CASE FeederStops
    <3>1. batch' = [batch EXCEPT !.todo = {}]
      BY <2>1 DEF FeederStops
    <3>2. batch' = [batch EXCEPT !.todo = {}, !.busy = batch.busy]
      BY <1>2, <3>1
    <3>3. {} \cup batch.busy \subseteq batch.todo \cup batch.busy
      OBVIOUS
    <3> QED
      BY <3>2, <3>3
  <2>2. ASSUME NEW m \in HealthModels, HandOver(m)
        PROVE  \E todo, busy : /\ batch' = [batch EXCEPT !.todo = todo, !.busy = busy]
                               /\ todo \cup busy \subseteq batch.todo \cup batch.busy
    <3>1. batch' = [batch EXCEPT !.todo = batch.todo \ {m}, !.busy = batch.busy \cup {m}] /\ m \in batch.todo
      BY <2>2 DEF HandOver
    <3>2. (batch.todo \ {m}) \cup (batch.busy \cup {m}) \subseteq batch.todo \cup batch.busy
      BY <3>1
    <3> QED
      BY <3>1, <3>2, Zenon
  <2>3. ASSUME NEW m \in HealthModels, RecordFails(m)
        PROVE  \E todo, busy : /\ batch' = [batch EXCEPT !.todo = todo, !.busy = busy]
                               /\ todo \cup busy \subseteq batch.todo \cup batch.busy
    <3>1. batch' = [batch EXCEPT !.busy = batch.busy \ {m}]
      BY <2>3 DEF RecordFails
    <3>2. batch' = [batch EXCEPT !.todo = batch.todo, !.busy = batch.busy \ {m}]
      BY <1>2, <3>1
    <3>3. batch.todo \cup (batch.busy \ {m}) \subseteq batch.todo \cup batch.busy
      OBVIOUS
    <3> QED
      BY <3>2, <3>3, Zenon
  <2> QED
    BY <2>1, <2>2, <2>3
<1>4. /\ LoopAndBatch' /\ CopyIsCurrent' /\ EnablingIsProbed' /\ owed' \in BOOLEAN
      /\ batch'.at = "feeding" /\ batch'.key = batch.key
      /\ batch'.todo \cup batch'.busy \subseteq batch.todo \cup batch.busy
  BY <1>1, <1>3, FeedingKeepsBatch
<1> QED
  BY <1>1, <1>4, TablesKept, KeysKept DEF HealthInv

\* One more probe: a failure lengthens the run, anything else ends it.
LEMMA HistoryGrows ==
  ASSUME NEW history \in Seq(ProbeEvents), NEW shown \in LatestRows, HistoryIsKept(history, shown),
         NEW event \in ProbeEvents, NEW next \in LatestRows, next.outcome = event.outcome,
         IsFailure(event) => next.run = shown.run + 1, ~IsFailure(event) => next.run = 0
  PROVE  HistoryIsKept(Append(history, event), next)
<1> DEFINE longer == Append(history, event)
           n == Len(history)
           k == Len(longer)
<1>1. /\ n \in Nat /\ k = n + 1 /\ longer[k] = event
      /\ \A i \in 1..n : longer[i] = history[i]
  BY AppendProperties, LenProperties
<1>2. shown.run \in Nat /\ next.run \in Nat
  BY DEF LatestRows
<1>3. /\ \A i \in 1..n : i > n - shown.run => IsFailure(history[i])
      /\ shown.run < n => ~IsFailure(history[n - shown.run])
  BY DEF HistoryIsKept
<1> HIDE DEF longer, n, k
<1>4. ASSUME NEW i \in 1..k, i > k - next.run PROVE IsFailure(longer[i])
  <2>1. CASE IsFailure(event)
    BY <1>1, <1>2, <1>3, <1>4, <2>1
  <2>2. CASE ~IsFailure(event)
    BY <1>1, <1>2, <1>4, <2>2
  <2> QED
    BY <2>1, <2>2
<1>5. ASSUME next.run < k PROVE ~IsFailure(longer[k - next.run])
  <2>1. CASE IsFailure(event)
    <3>1. shown.run < n /\ k - next.run = n - shown.run /\ n - shown.run \in 1..n
      BY <1>1, <1>2, <1>5, <2>1
    <3> QED
      BY <1>1, <1>3, <3>1
  <2>2. CASE ~IsFailure(event)
    BY <1>1, <1>2, <2>2
  <2> QED
    BY <2>1, <2>2
<1>6. HistoryIsKept(longer, next)
  <2>1. k > 0 => next.outcome = longer[k].outcome
    BY <1>1
  <2> QED
    BY <1>4, <1>5, <2>1 DEF HistoryIsKept, k
<1> QED
  BY <1>6 DEF longer

\* pruneProbeHistory: dropping the oldest probes leaves the run, or all that is left of it.
LEMMA HistoryShrinks ==
  ASSUME NEW history \in Seq(ProbeEvents), NEW shown \in LatestRows, HistoryIsKept(history, shown),
         NEW old \in 0..Len(history)
  PROVE  LET rest == SubSeq(history, 1 + old, Len(history)) IN
         rest \in Seq(ProbeEvents) /\ HistoryIsKept(rest, shown)
<1> DEFINE n == Len(history)
           rest == SubSeq(history, 1 + old, n)
<1>0. n \in Nat
  BY LenProperties
<1>1. n \in Nat /\ old \in Nat /\ old <= n /\ shown.run \in Nat
  <2>1. shown.run \in Nat
    BY DEF LatestRows
  <2>2. old \in Nat /\ old <= n
    BY <1>0
  <2> QED
    BY <1>0, <2>1, <2>2
<1>2. \A i \in (1 + old)..n : history[i] \in ProbeEvents
  BY <1>1, ElementOfSeq
<1>3. rest \in Seq(ProbeEvents)
  BY <1>1, <1>2, SubSeqProperties
<1>4. Len(rest) = n - old /\ \A i \in 1..(n - old) : rest[i] = history[i + old]
  <2>1. Len(rest) = IF 1 + old <= n THEN n - (1 + old) + 1 ELSE 0
    BY <1>1, SubSeqProperties
  <2>2. \A i \in 1..n - (1 + old) + 1 : rest[i] = history[(1 + old) + i - 1]
    BY <1>1, SubSeqProperties
  <2>3. Len(rest) = n - old
    BY <1>1, <2>1
  <2>4. ASSUME NEW i \in 1..(n - old) PROVE rest[i] = history[i + old]
    <3>1. i \in 1..n - (1 + old) + 1 /\ (1 + old) + i - 1 = i + old
      BY <1>1
    <3> QED
      BY <2>2, <3>1
  <2> QED
    BY <2>3, <2>4
<1>5. /\ \A i \in 1..n : i > n - shown.run => IsFailure(history[i])
      /\ shown.run < n => ~IsFailure(history[n - shown.run])
      /\ n > 0 => shown.outcome = history[n].outcome
  BY DEF HistoryIsKept
<1> HIDE DEF rest, n
<1>6. ASSUME NEW i \in 1..(n - old), i > n - old - shown.run PROVE IsFailure(rest[i])
  <2>1. i + old \in 1..n /\ i + old > n - shown.run
    BY <1>1, <1>6
  <2> QED
    BY <1>4, <1>5, <2>1
<1>7. ASSUME shown.run < n - old PROVE ~IsFailure(rest[n - old - shown.run])
  <2>1. n - old - shown.run \in 1..(n - old) /\ (n - old - shown.run) + old = n - shown.run /\ shown.run < n
    BY <1>1, <1>7
  <2>2. rest[n - old - shown.run] = history[n - shown.run]
    BY <1>4, <2>1
  <2> QED
    BY <1>5, <2>1, <2>2
<1>8. ASSUME n - old > 0 PROVE shown.outcome = rest[n - old].outcome
  <2>1. n - old \in 1..(n - old) /\ (n - old) + old = n /\ n > 0
    BY <1>1, <1>8
  <2> QED
    BY <1>4, <1>5, <2>1
<1>9. HistoryIsKept(rest, shown)
  BY <1>4, <1>6, <1>7, <1>8 DEF HistoryIsKept
<1> QED
  BY <1>3, <1>9 DEF rest, n

\* Record: the outcome of a probe and the run it ends are written together.
LEMMA RecordKeepsHealth ==
  ASSUME HealthInv, NEW m \in HealthModels, NEW r \in {"success", "failure", "timeout", "skipped"}, RecordProbe(m, r)
  PROVE  HealthInv'
<1> DEFINE event == Outcome(m, r)
           shown == [outcome |-> event.outcome, code |-> event.code,
                     run |-> NextConsecutiveFailures(m, event.outcome)]
<1>1. /\ batch.at = "feeding" /\ m \in batch.busy /\ batch' = [batch EXCEPT !.busy = batch.busy \ {m}]
      /\ UNCHANGED <<loop, settings, patching, signals, owed, keyring, unkeyed>>
  BY DEF RecordProbe, adminVars, keyVars
<1>2. DOMAIN batch = {"at", "todo", "key", "busy"} /\ batch.key \in BatchKeys
  BY <1>1 DEF HealthInv, LoopAndBatch
<1>3. batch' = [batch EXCEPT !.todo = batch.todo, !.busy = batch.busy \ {m}]
  BY <1>1, <1>2
<1>4. /\ LoopAndBatch' /\ CopyIsCurrent' /\ EnablingIsProbed' /\ owed' \in BOOLEAN
      /\ batch'.at = "feeding" /\ batch'.key = batch.key
      /\ batch'.todo \cup batch'.busy \subseteq batch.todo \cup batch.busy
  BY <1>1, <1>3, FeedingKeepsBatch
<1>5. CASE m \notin listed
  <2>1. UNCHANGED <<probes, latest>>
    BY <1>5 DEF RecordProbe
  <2> QED
    BY <1>1, <1>4, <2>1, TablesKept, KeysKept DEF HealthInv
<1>6. CASE m \in listed
  <2>1. probes' = [probes EXCEPT ![m] = Append(probes[m], event)] /\ latest' = [latest EXCEPT ![m] = shown]
    BY <1>6 DEF RecordProbe
  <2>2. \/ event = [outcome |-> "canceled", code |-> "canceled"]
        \/ batch.key # "usable" /\ event = [outcome |-> "skipped", code |-> ErrorCode]
        \/ event = [outcome |-> r, code |-> IF r = "skipped" THEN "provider_not_configured" ELSE ""]
    BY DEF Outcome
  <2>16. r = "skipped" => m \in Keyless
    BY DEF RecordProbe
  <2>3. /\ ErrorCode \in {"keys_cooling", "no_credential", "key_source_unavailable"}
        /\ batch.key = "cooling" => ErrorCode = "keys_cooling"
    BY DEF ErrorCode
  <2> HIDE DEF event
  <2>4. /\ event \in ProbeEvents
        /\ event.outcome = "skipped" => m \in Keyless \/ (batch.key # "usable" /\ event.code = ErrorCode)
    <3>1. CASE event = [outcome |-> "canceled", code |-> "canceled"]
      BY <3>1 DEF ProbeEvents, ErrorCodes
    <3>2. CASE batch.key # "usable" /\ event = [outcome |-> "skipped", code |-> ErrorCode]
      <4> DEFINE code == ErrorCode
      <4>1. code \in {"keys_cooling", "no_credential", "key_source_unavailable"}
        BY <2>3
      <4>2. event = [outcome |-> "skipped", code |-> code]
        BY <3>2
      <4> HIDE DEF code
      <4>3. event \in ProbeEvents /\ event.code = code
        BY <4>1, <4>2 DEF ProbeEvents, ErrorCodes
      <4> QED
        BY <3>2, <4>3 DEF code
    <3>3. CASE event = [outcome |-> r, code |-> IF r = "skipped" THEN "provider_not_configured" ELSE ""]
      BY <2>16, <3>3 DEF ProbeEvents, ErrorCodes
    <3> QED
      BY <2>2, <3>1, <3>2, <3>3
  <2>5. /\ probes[m] \in Seq(ProbeEvents) /\ latest[m] \in LatestRows /\ latest[m].run + 1 \in Nat
        /\ HistoryIsKept(probes[m], latest[m])
    <3>1. /\ probes[m] \in Seq(ProbeEvents) /\ latest[m] \in LatestRows
          /\ HistoryIsKept(probes[m], latest[m])
      BY DEF HealthInv, TablesAgree
    <3>2. latest[m].run \in Nat
      BY <3>1 DEF LatestRows
    <3> QED
      BY <3>1, <3>2
  <2>6. /\ IsFailure(event) => NextConsecutiveFailures(m, event.outcome) = latest[m].run + 1
        /\ ~IsFailure(event) => NextConsecutiveFailures(m, event.outcome) = 0
    BY DEF IsFailure, NextConsecutiveFailures
  <2>7. NextConsecutiveFailures(m, event.outcome) \in Nat
    BY <2>5, <2>6
  <2>8. /\ shown.outcome = event.outcome /\ shown.code = event.code
        /\ shown.run = NextConsecutiveFailures(m, event.outcome) /\ shown \in LatestRows
    BY <2>4, <2>7 DEF LatestRows, ProbeEvents
  <2> HIDE DEF shown
  <2>9. HistoryIsKept(Append(probes[m], event), shown)
    BY <2>4, <2>5, <2>6, <2>8, HistoryGrows
  <2>10. Append(probes[m], event) \in Seq(ProbeEvents)
    BY <2>4, <2>5, AppendProperties
  <2>11. /\ probes'[m] = Append(probes[m], event) /\ latest'[m] = shown
         /\ \A d \in HealthModels \ {m} : probes'[d] = probes[d] /\ latest'[d] = latest[d]
         /\ probes' \in [HealthModels -> Seq(ProbeEvents)] /\ latest' \in [HealthModels -> LatestRows]
    BY <2>1, <2>8, <2>10 DEF HealthInv, TablesAgree
  <2>12. TablesAgree'
    BY <2>9, <2>11 DEF HealthInv, TablesAgree
  <2>13. m \notin Keyless /\ event.outcome = "skipped" /\ event.code # "keys_cooling" => unkeyed
    <3> SUFFICES ASSUME m \notin Keyless, event.outcome = "skipped", event.code # "keys_cooling" PROVE unkeyed
      OBVIOUS
    <3>2. batch.key # "not needed"
      BY <1>1 DEF HealthInv, KeysAreKnown
    <3>1. batch.key \in {"missing", "source failed"}
      BY <1>2, <2>3, <2>4, <3>2 DEF BatchKeys
    <3> QED
      BY <1>1, <3>1 DEF HealthInv, KeysAreKnown
  <2>14. CoolingIsNotMissing'
    <3> SUFFICES ASSUME NEW d \in HealthModels \ Keyless, latest'[d].outcome = "skipped", latest'[d].code # "keys_cooling"
                 PROVE  unkeyed'
      BY DEF CoolingIsNotMissing, SkippedStatus
    <3>1. CASE d = m
      BY <1>1, <2>8, <2>11, <2>13, <3>1
    <3>2. CASE d # m
      <4>1. latest[d].outcome = "skipped" /\ latest[d].code # "keys_cooling"
        BY <2>11, <3>2
      <4> QED
        BY <1>1, <4>1 DEF HealthInv, KeysAreKnown, CoolingIsNotMissing, SkippedStatus
    <3> QED
      BY <3>1, <3>2
  <2>15. KeysAreKnown'
    BY <1>1, <1>4, <2>14 DEF HealthInv, KeysAreKnown
  <2> QED
    BY <1>4, <2>12, <2>15 DEF HealthInv
<1> QED
  BY <1>5, <1>6

\* workers.Wait, pruneProbeHistory.
LEMMA EndKeepsHealth ==
  ASSUME HealthInv, NEW old \in Olds, \A m \in HealthModels : old[m] <= Len(probes[m]), BatchEnds(old)
  PROVE  HealthInv'
<1>1. /\ batch.at = "feeding" /\ BatchOver
      /\ UNCHANGED <<settings, patching, signals, owed, keyring, unkeyed, latest>>
      /\ \/ probes' = probes
         \/ probes' = [m \in HealthModels |-> SubSeq(probes[m], 1 + old[m], Len(probes[m]))]
  BY DEF BatchEnds, adminVars, keyVars
<1>2. LoopAndBatch' /\ CopyIsCurrent' /\ batch'.at = "none" /\ loop.at = "probing"
  BY <1>1, BatchOverKeepsLoop
<1>3. KeysAreKnown'
  BY <1>1, <1>2, KeysKept
<1>4. EnablingIsProbed' /\ owed' \in BOOLEAN
  BY <1>1, <1>2 DEF HealthInv, EnablingIsProbed
<1>5. TablesAgree'
  <2>1. CASE probes' = probes
    BY <1>1, <2>1, TablesKept
  <2>2. CASE probes' = [m \in HealthModels |-> SubSeq(probes[m], 1 + old[m], Len(probes[m]))]
    <3>1. ASSUME NEW m \in HealthModels
          PROVE  probes'[m] \in Seq(ProbeEvents) /\ HistoryIsKept(probes'[m], latest[m])
      <4>1. /\ probes[m] \in Seq(ProbeEvents) /\ latest[m] \in LatestRows
            /\ HistoryIsKept(probes[m], latest[m])
        BY DEF HealthInv, TablesAgree
      <4>2. Len(probes[m]) \in Nat
        BY <4>1, LenProperties
      <4>3. old[m] \in 0..Len(probes[m])
        BY <4>2 DEF Olds
      <4>4. probes'[m] = SubSeq(probes[m], 1 + old[m], Len(probes[m]))
        BY <2>2
      <4> QED
        BY <4>1, <4>3, <4>4, HistoryShrinks
    <3>2. probes' \in [HealthModels -> Seq(ProbeEvents)]
      BY <2>2, <3>1
    <3> QED
      BY <1>1, <3>1, <3>2 DEF HealthInv, TablesAgree
  <2> QED
    BY <1>1, <2>1, <2>2
<1> QED
  BY <1>2, <1>3, <1>4, <1>5 DEF HealthInv

\* Keys come and go, models are deleted, the process stops.
LEMMA OthersKeepHealth ==
  ASSUME HealthInv,
         \/ \E to \in {"usable", "cooling", "none"} : KeyringChanges(to)
         \/ \E m \in HealthModels : ModelDeleted(m)
         \/ HealthStops
  PROVE  HealthInv'
<1>1. UNCHANGED <<settings, patching, signals, loop, batch, owed>>
  BY DEF KeyringChanges, ModelDeleted, HealthStops, adminVars
<1>2. LoopAndBatch' /\ CopyIsCurrent' /\ EnablingIsProbed' /\ owed' \in BOOLEAN
  BY <1>1 DEF HealthInv, LoopAndBatch, CopyIsCurrent, EnablingIsProbed
<1>3. ASSUME NEW to \in {"usable", "cooling", "none"}, KeyringChanges(to) PROVE HealthInv'
  <2>1. keyring' = to /\ unkeyed' = (unkeyed \/ to = "none") /\ UNCHANGED <<probes, latest>>
    BY <1>3 DEF KeyringChanges, tableVars
  <2>2. unkeyed' \in BOOLEAN /\ (unkeyed => unkeyed') /\ (to = "none" => unkeyed')
    BY <2>1, Zenon DEF HealthInv, KeysAreKnown
  <2>3. CoolingIsNotMissing'
    BY <2>1, <2>2 DEF HealthInv, KeysAreKnown, CoolingIsNotMissing, SkippedStatus
  <2>4. KeysAreKnown'
    BY <1>1, <2>1, <2>2, <2>3 DEF HealthInv, KeysAreKnown
  <2> QED
    BY <1>2, <2>1, <2>4, TablesKept DEF HealthInv
<1>4. ASSUME NEW m \in HealthModels, ModelDeleted(m) PROVE HealthInv'
  <2>1. /\ probes' = [probes EXCEPT ![m] = <<>>] /\ latest' = [latest EXCEPT ![m] = NoLatest]
        /\ UNCHANGED <<keyring, unkeyed>>
    BY <1>4 DEF ModelDeleted, keyVars
  <2>2. NoLatest \in LatestRows /\ NoLatest.outcome = "none" /\ <<>> \in Seq(ProbeEvents)
    BY EmptySeq DEF NoLatest, LatestRows, ErrorCodes
  <2>3. HistoryIsKept(<<>>, NoLatest)
    <3> DEFINE none == <<>>
    <3>1. NoLatest.run = 0 /\ Len(none) = 0
      BY EmptySeq DEF NoLatest
    <3> HIDE DEF none
    <3>2. HistoryIsKept(none, NoLatest)
      BY <3>1 DEF HistoryIsKept
    <3> QED
      BY <3>2 DEF none
  <2>4. /\ probes'[m] = <<>> /\ latest'[m] = NoLatest
        /\ \A d \in HealthModels \ {m} : probes'[d] = probes[d] /\ latest'[d] = latest[d]
        /\ probes' \in [HealthModels -> Seq(ProbeEvents)] /\ latest' \in [HealthModels -> LatestRows]
    BY <2>1, <2>2 DEF HealthInv, TablesAgree
  <2>5. TablesAgree'
    BY <2>3, <2>4 DEF HealthInv, TablesAgree
  <2>6. CoolingIsNotMissing'
    BY <2>1, <2>2, <2>4 DEF HealthInv, KeysAreKnown, CoolingIsNotMissing, SkippedStatus
  <2>7. KeysAreKnown'
    BY <1>1, <2>1, <2>6 DEF HealthInv, KeysAreKnown
  <2> QED
    BY <1>2, <2>5, <2>7 DEF HealthInv
<1>5. CASE HealthStops
  <2>1. UNCHANGED <<probes, latest, keyring, unkeyed>>
    BY <1>5 DEF HealthStops, tableVars, keyVars
  <2> QED
    BY <1>1, <1>2, <2>1, TablesKept, KeysKept DEF HealthInv
<1> QED
  BY <1>3, <1>4, <1>5

\* Every step of the health service keeps its invariant.
LEMMA HealthStepInv == HealthInv /\ [HealthNext]_healthVars => HealthInv'
<1> SUFFICES ASSUME HealthInv, [HealthNext]_healthVars PROVE HealthInv'
  OBVIOUS
<1>1. CASE UNCHANGED healthVars
  <2>1. TablesAgree' /\ KeysAreKnown'
    BY <1>1, TablesKept, KeysKept DEF healthVars
  <2> QED
    BY <1>1, <2>1 DEF healthVars, HealthInv, LoopAndBatch, CopyIsCurrent, EnablingIsProbed
<1>2. CASE BatchStep
  BY <1>2, PrepareKeepsHealth, WorkersKeepHealth, RecordKeepsHealth, EndKeepsHealth DEF BatchStep
<1>3. CASE HealthNext
  BY <1>2, <1>3, PatchKeepsHealth, LoopKeepsHealth, OthersKeepHealth DEF HealthNext, PatchStep
<1> QED
  BY <1>1, <1>3

\* The inductive invariant holds in every reachable state.
THEOREM HealthInductive == HealthSpec => []HealthInv
<1> QED
  BY HealthInitInv, HealthStepInv, PTL DEF HealthSpec

\* A run that is shorter than the history is the number of failures the history ends
\* with; otherwise all that is left of the history failed.
LEMMA RunIsCounted ==
  ASSUME NEW history \in Seq(ProbeEvents), NEW shown \in LatestRows, HistoryIsKept(history, shown)
  PROVE  /\ shown.run < Len(history) => TrailingFailures(history) = shown.run
         /\ shown.run >= Len(history) => TrailingFailures(history) = Len(history)
<1> DEFINE n == Len(history)
           Fails(i) == \A j \in i..Len(history) : history[j].outcome \in {"failure", "timeout"}
           run == {i \in 1..Len(history) : Fails(i)}
<1>1. n \in Nat /\ shown.run \in Nat
  BY LenProperties DEF LatestRows
<1>2. TrailingFailures(history) = Cardinality(run)
  BY DEF TrailingFailures
<1>3. /\ \A i \in 1..n : i > n - shown.run => history[i].outcome \in {"failure", "timeout"}
      /\ shown.run < n => history[n - shown.run].outcome \notin {"failure", "timeout"}
  BY DEF HistoryIsKept, IsFailure
<1>4. ASSUME shown.run < n PROVE Cardinality(run) = shown.run
  <2>1. n - shown.run \in 1..n /\ n - shown.run + 1 \in Int /\ n - (n - shown.run + 1) + 1 = shown.run
    BY <1>1, <1>4
  <2>2. ASSUME NEW i \in 1..n, Fails(i) PROVE i > n - shown.run
    <3>1. CASE i <= n - shown.run
      <4>1. n - shown.run \in i..Len(history)
        BY <1>1, <2>1, <3>1
      <4> QED
        BY <1>3, <1>4, <2>2, <4>1
    <3> QED
      BY <1>1, <3>1
  <2>3. ASSUME NEW i \in 1..n, i > n - shown.run PROVE Fails(i)
    BY <1>1, <1>3, <2>3
  <2> HIDE DEF Fails
  <2>4. run = (n - shown.run + 1)..n
    BY <1>1, <2>1, <2>2, <2>3
  <2> DEFINE first == n - shown.run + 1
  <2>5. first \in Int /\ n \in Int /\ n - first + 1 = shown.run /\ (first > n => shown.run = 0)
    BY <1>1
  <2>6. run = first..n
    BY <2>4
  <2> HIDE DEF n, run, first
  <2>7. Cardinality(first..n) = IF first > n THEN 0 ELSE n - first + 1
    BY <2>5, FS_Interval
  <2>8. Cardinality(run) = Cardinality(first..n)
    BY <2>6
  <2> QED
    BY <2>5, <2>7, <2>8
<1>5. ASSUME shown.run >= n PROVE Cardinality(run) = n
  <2>1. ASSUME NEW i \in 1..n PROVE Fails(i)
    BY <1>1, <1>3, <1>5
  <2> HIDE DEF Fails
  <2>2. run = 1..n
    BY <2>1
  <2> HIDE DEF n, run
  <2>3. Cardinality(1..n) = IF 1 > n THEN 0 ELSE n - 1 + 1
    BY <1>1, FS_Interval
  <2>4. Cardinality(run) = Cardinality(1..n)
    BY <2>2
  <2> QED
    BY <1>1, <2>3, <2>4
<1> QED
  BY <1>2, <1>4, <1>5

\* PatchSettings, RunOnce, Record: the schedule a waiting loop keeps is the stored one,
\* an enabled check is made, the run of failures of a model is the one its history ends
\* with, and no model is shown as unconfigured while keys could be asked for: for every
\* set of models and of intervals, any number of workers, changes and batches.
THEOREM HealthTrue == HealthSpec => []HealthIsTrue
<1>1. HealthInv => HealthIsTrue
  <2> SUFFICES ASSUME HealthInv PROVE HealthIsTrue
    OBVIOUS
  <2>1. ScheduleIsCurrent
    BY DEF HealthInv, CopyIsCurrent, ScheduleIsCurrent
  <2>2. ASSUME NEW m \in HealthModels
        PROVE  /\ latest[m].run >= TrailingFailures(probes[m])
               /\ TrailingFailures(probes[m]) < Len(probes[m]) => latest[m].run = TrailingFailures(probes[m])
               /\ Len(probes[m]) > 0 => latest[m].outcome = Last(probes[m]).outcome
    <3>1. /\ probes[m] \in Seq(ProbeEvents) /\ latest[m] \in LatestRows
          /\ HistoryIsKept(probes[m], latest[m])
      BY DEF HealthInv, TablesAgree
    <3>2. Len(probes[m]) \in Nat /\ latest[m].run \in Nat
      BY <3>1, LenProperties DEF LatestRows
    <3>3. /\ latest[m].run < Len(probes[m]) => TrailingFailures(probes[m]) = latest[m].run
          /\ latest[m].run >= Len(probes[m]) => TrailingFailures(probes[m]) = Len(probes[m])
      BY <3>1, RunIsCounted
    <3>4. Len(probes[m]) > 0 => latest[m].outcome = Last(probes[m]).outcome
      BY <3>1 DEF HistoryIsKept, Last
    <3> QED
      BY <3>2, <3>3, <3>4
  <2>3. RunMatchesHistory
    BY <2>2 DEF RunMatchesHistory
  <2> QED
    BY <2>1, <2>3 DEF HealthInv, KeysAreKnown, HealthIsTrue
<1> QED
  BY <1>1, HealthInductive, PTL

=============================================================================

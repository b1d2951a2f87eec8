---------------------------- MODULE ModelTestJobs ----------------------------
(***************************************************************************)
(* The model test jobs of the administration API (httpapi/admin/           *)
(* model_test_jobs.go): a job tests its models with a few workers that an  *)
(* unbuffered channel feeds, while other requests read it, cancel it or    *)
(* let it expire.  Every access to a job is under one mutex, but a test    *)
(* itself runs between two critical sections of runOne.                    *)
(***************************************************************************)
EXTENDS Naturals, FiniteSets

CONSTANTS
  Jobs,          \* job ids
  Total,         \* models of a job
  JobWorkers,    \* the concurrency of a job
  MaxActiveJobs, \* const modelTestMaxActiveJobs
  Untimed        \* the models of a job whose test has no deadline: NVIDIA's chat models

ASSUME TotalIsNat == Total \in Nat

VARIABLES
  job,      \* each job's record, kept by its goroutines after the table forgot it
  jobTable, \* the map of jobs
  runner,   \* the goroutine of run: where it is and the next index
  testing   \* per job: the indices its workers hold, with the stage of runOne

jobVars == <<job, jobTable, runner, testing>>

Indices == 1..Total
Active == {"queued", "running"}
ResultTerminal(status) == status \in {"success", "failed", "cancelled"}
Unborn == [status |-> "none", cancel |-> FALSE, completed |-> 0, results |-> [i \in Indices |-> "queued"]]

JobsInit ==
  /\ job = [j \in Jobs |-> Unborn] /\ jobTable = {}
  /\ runner = [j \in Jobs |-> [at |-> "none", next |-> 1]]
  /\ testing = [j \in Jobs |-> [i \in {} |-> "taken"]]

Terminal(j) == {i \in Indices : ResultTerminal(job[j].results[i])}
ActiveJobs == {j \in jobTable : job[j].status \in Active}

\* pruneLocked, on every request: finished jobs past their time are forgotten.
Prune(expired) ==
  /\ expired \subseteq {j \in jobTable : job[j].status \notin Active}
  /\ jobTable' = jobTable \ expired

(***************************************************************************)
(* The requests.                                                           *)
(***************************************************************************)
\* create, newJob: the goroutine starts after the answer was written.
CreateJob(j, expired) ==
  /\ job[j].status = "none"
  /\ Cardinality(ActiveJobs) < MaxActiveJobs
  /\ expired \subseteq {k \in jobTable : job[k].status \notin Active}
  /\ jobTable' = (jobTable \ expired) \cup {j}
  /\ job' = [job EXCEPT ![j].status = "queued"]
  /\ runner' = [runner EXCEPT ![j].at = "start"]
  /\ UNCHANGED testing

GetJob(expired) ==
  /\ expired # {} /\ Prune(expired)
  /\ UNCHANGED <<job, runner, testing>>

CancelJob(j) ==
  /\ j \in jobTable /\ job[j].status \in Active
  /\ job' = [job EXCEPT ![j] =
       [status |-> "cancelled", cancel |-> TRUE, completed |-> Total,
        results |-> [i \in Indices |-> IF ResultTerminal(@.results[i]) THEN @.results[i] ELSE "cancelled"]]]
  /\ UNCHANGED <<jobTable, runner, testing>>

(***************************************************************************)
(* run: the goroutine of a job.                                            *)
(***************************************************************************)
MarkRunning(j) ==
  /\ runner[j].at = "start"
  /\ runner' = [runner EXCEPT ![j].at = "feeding"]
  /\ job' = IF job[j].cancel THEN job ELSE [job EXCEPT ![j].status = "running"]
  /\ UNCHANGED <<jobTable, testing>>

Busy(j) == DOMAIN testing[j]

\* A free worker receives the next index.  A canceled job ends the loop after it.
Feed(j) ==
  /\ runner[j].at = "feeding" /\ runner[j].next <= Total
  /\ Cardinality(Busy(j)) < JobWorkers
  /\ LET i == runner[j].next IN
     testing' = [testing EXCEPT ![j] = [k \in Busy(j) \cup {i} |-> IF k = i THEN "taken" ELSE testing[j][k]]]
  /\ runner' = [runner EXCEPT ![j].next = IF job[j].cancel THEN Total + 1 ELSE @ + 1]
  /\ UNCHANGED <<job, jobTable>>

FeedCanceled(j) ==
  /\ runner[j].at = "feeding" /\ runner[j].next <= Total /\ job[j].cancel
  /\ runner' = [runner EXCEPT ![j].next = Total + 1]
  /\ UNCHANGED <<job, jobTable, testing>>

\* close(indices) lets the workers end.
MayClose(j) == runner[j].next > Total
CloseIndices(j) ==
  /\ runner[j].at = "feeding" /\ MayClose(j)
  /\ runner' = [runner EXCEPT ![j].at = "closed"]
  /\ UNCHANGED <<job, jobTable, testing>>

\* Slip: the job ends before its workers.
NotAwaiting(j) == TRUE

\* workers.Wait.
WorkersDone(j) == Busy(j) = {}

FinishJob(j) ==
  /\ runner[j].at = "closed" /\ WorkersDone(j)
  /\ runner' = [runner EXCEPT ![j].at = "over"]
  /\ job' = IF job[j].cancel THEN job
            ELSE [job EXCEPT ![j].completed = Cardinality(Terminal(j)),
                             ![j].status = IF \E i \in Indices : job[j].results[i] = "failed"
                                             THEN "failed" ELSE "completed"]
  /\ UNCHANGED <<jobTable, testing>>

(***************************************************************************)
(* runOne: two critical sections with the test between them.               *)
(***************************************************************************)
WithoutIndex(j, i) == [testing EXCEPT ![j] = [k \in Busy(j) \ {i} |-> testing[j][k]]]

BeginTest(j, i) ==
  /\ i \in Busy(j) /\ testing[j][i] = "taken"
  /\ IF job[j].cancel \/ job[j].results[i] # "queued"
       THEN testing' = WithoutIndex(j, i) /\ UNCHANGED job
       ELSE /\ testing' = [testing EXCEPT ![j][i] = "testing"]
            /\ job' = [job EXCEPT ![j].results[i] = "running"]
  /\ UNCHANGED <<jobTable, runner>>

\* Slip: a late result is recorded after the cancel.
NeverLate(j) == FALSE

\* The second look at CancelRequested: a test that ends after the job was canceled
\* leaves no trace.
TooLate(j) == job[j].cancel

EndTest(j, i, status) ==
  /\ i \in Busy(j) /\ testing[j][i] = "testing"
  /\ testing' = WithoutIndex(j, i)
  /\ job' = IF TooLate(j) THEN job
            ELSE [job EXCEPT ![j].results[i] = status, ![j].completed = @ + 1]
  /\ UNCHANGED <<jobTable, runner>>

RunnerStep(j) == MarkRunning(j) \/ Feed(j) \/ FeedCanceled(j) \/ CloseIndices(j) \/ FinishJob(j)
WorkerStep(j, i) == BeginTest(j, i) \/ \E status \in {"success", "failed"} : EndTest(j, i, status)
JobStep(j) == RunnerStep(j) \/ \E i \in Indices : WorkerStep(j, i)

\* A test that only the upstream ends: its context has no deadline, the transports
\* bound the response header and not the body, and nobody has canceled the job.
Withheld(j, i) ==
  i \in Untimed \cap Busy(j) /\ testing[j][i] = "testing" /\ ~job[j].cancel

JobsNext ==
  \/ \E j \in Jobs, expired \in SUBSET jobTable : CreateJob(j, expired)
  \/ \E expired \in SUBSET jobTable : GetJob(expired)
  \/ \E j \in Jobs : CancelJob(j) \/ JobStep(j)

(***************************************************************************)
(* Properties.                                                             *)
(***************************************************************************)
\* cancel, runOne, finish: the progress that a reader is shown is the number of models
\* with a result, whichever of a late test, the end of the job and a cancel came first.
CountAgrees == \A j \in Jobs : job[j].completed = Cardinality(Terminal(j))

\* cancel: a job that is over stays as it was answered; tests that were under way do
\* not come back into it.
OverIsFinal ==
  [][\A j \in Jobs : job[j].status \in {"cancelled", "completed", "failed"} => job'[j] = job[j]]_jobVars

\* finish: a job that ended by itself has an outcome for every model and says whether
\* one failed.
EndedIsComplete ==
  \A j \in Jobs : job[j].status \in {"completed", "failed"} =>
    /\ \A i \in Indices : job[j].results[i] \in {"success", "failed"}
    /\ (job[j].status = "failed") = (\E i \in Indices : job[j].results[i] = "failed")

\* run: the goroutines of a job end unless the upstream withholds one of its answers
\* for ever and nobody cancels the job, also when it is canceled before it starts,
\* while an index is handed over or during a test (service_probe.go:74-103, 387-393).
JobsEnd ==
  \A j \in Jobs :
    (\A i \in Untimed : []<>~Withheld(j, i)) => (runner[j].at = "start" ~> runner[j].at = "over")

\* The progress and the end of a job are those of its models.
JobsAreTrue == CountAgrees /\ EndedIsComplete
=============================================================================

------------------------------- MODULE MCLive -------------------------------
(***************************************************************************)
(* What must come to an end, under the fairness of its own goroutines and  *)
(* timers: a request in the retry loop, an update of the proxy settings, a *)
(* streamed answer, the shutdown, a test job.  A behaviour is a behaviour  *)
(* of one of the five, the others stay at their beginning, and so fairness *)
(* is asked of the part at work only.                                      *)
(***************************************************************************)
EXTENDS Attempt, ExitSettings, ChatStream, GracefulStop, ModelTestJobs, TLC

CONSTANT Streamed  \* the request that is a stream

VARIABLE part

OneFault == {[FaultOf(429, "transient_credential", TRUE) EXCEPT
                !.retryAfter = 2 * Second, !.retryAfterValid = TRUE]}
DefaultListed == {429, 500, 502, 503, 504, 529}

Patch(on, url, setting) ==
  [on |-> on, url |-> url, setting |-> setting, fixed |-> FALSE, clear |-> FALSE]
MCPatches ==
  {Patch(TRUE, "u", Keep), Patch(FALSE, "", "other"), [Patch(Keep, Keep, Keep) EXCEPT !.fixed = TRUE]}
MCEnvironment ==
  [pool |-> TRUE, on |-> TRUE, url |-> "env", setting |-> "default", source |-> "database"]
MCRows == {NoRow, [kind |-> "fixed", on |-> FALSE, url |-> "u", setting |-> "default"]}

Init ==
  /\ part \in {"request", "settings", "stream", "stop", "job"}
  /\ AttemptInit /\ blocked = {} /\ invalid = {}
  /\ SettingsInit /\ (part # "settings" => row = NoRow)
  /\ StreamInit /\ (part # "stream" => gateway = "nvidia")
  /\ StopInit /\ JobsInit

\* One request is a stream, the other is answered in one piece.
RequestMoves ==
  /\ part = "request"
  /\ AttemptNext /\ UNCHANGED <<settingsVars, streamVars, stopVars, jobVars, part>>
  /\ \A r \in Requests : pc[r] = "idle" /\ pc'[r] # "idle" => stream'[r] = (r = Streamed)
SettingsMoves ==
  part = "settings" /\ SettingsNext /\ UNCHANGED <<attemptVars, streamVars, stopVars, jobVars, part>>
StreamMoves ==
  part = "stream" /\ StreamNext /\ UNCHANGED <<attemptVars, settingsVars, stopVars, jobVars, part>>
\* The end of a worker is looked at once, by the stop that waits for it.
StopMoves ==
  /\ part = "stop" /\ StopNext
  /\ main # "workers" => \A w \in Awaited : worker'[w] = "stopped" => worker[w] = "stopped"
  /\ UNCHANGED <<attemptVars, settingsVars, streamVars, jobVars, part>>
JobMoves ==
  part = "job" /\ JobsNext /\ UNCHANGED <<attemptVars, settingsVars, streamVars, stopVars, part>>

Next == RequestMoves \/ SettingsMoves \/ StreamMoves \/ StopMoves \/ JobMoves

\* The goroutine of a request runs on; the queue timer, the transport and the
\* client end every wait it may be in; the clock advances.
RequestFairness ==
  /\ WF_attemptVars(part = "request" /\ Tick)
  /\ \A r \in Requests : WF_attemptVars(part = "request" /\ Step(r))

\* Every goroutine goes on: fetches, validations and statements have timeouts,
\* and a Go mutex goes to whoever has waited longest.
SettingsFairness ==
  /\ \A u \in Updates : WF_settingsVars(part = "settings" /\ UpdateStep(u))
  /\ \A r \in Refreshes :
       /\ WF_settingsVars(part = "settings" /\ (BeginRefresh(r) \/ RefreshEnds(r)))
       /\ SF_settingsVars(part = "settings" /\ RefreshFetches(r))
  /\ \A m \in Managers :
       /\ WF_settingsVars(part = "settings" /\ (RunFetched(m) \/ CollectorCloses(m) \/ RunEnds(m)))
       /\ SF_settingsVars(part = "settings" /\ RunFetches(m))

\* The handler goes on, its timers fire, the first token and all of a request to
\* OpenCodeFree have deadlines; a client that reads again and again lets a flush
\* return.
StreamFairness ==
  /\ WF_streamVars(part = "stream" /\ HandlerStep)
  /\ SF_streamVars(part = "stream" /\ Flush)
  /\ WF_streamVars(part = "stream" /\ IdleExpires)
  /\ WF_streamVars(part = "stream" /\ WatchdogFires)
  /\ WF_streamVars(part = "stream" /\ (stage = "prime" \/ gateway = "free") /\ ContextEnds)

\* The goroutines go on, the deadline of the grace period and the drain's timer run,
\* and a worker that was told to stop does; a select does not pass over a ready
\* channel for ever.  Nothing
\* makes the table come back or the signal come.
StopFairness ==
  /\ WF_stopVars(part = "stop" /\ StopStep)
  /\ WF_stopVars(part = "stop" /\ stopper = "finishing" /\ ServeEnds)
  /\ WF_stopVars(part = "stop" /\ main = "workers" /\ \E w \in Awaited : WorkerStops(w))
  /\ WF_recordVars(part = "stop" /\ \E r \in Records : RecordSends(r))
  /\ WF_recordVars(part = "stop" /\ FlusherStep)
  /\ SF_recordVars(part = "stop" /\ LoopEnds)
  /\ \A f \in Flushes :
       /\ SF_recordVars(part = "stop" /\ Forced(f))
       /\ WF_recordVars(part = "stop" /\ FlushAfterStop(f))
  /\ WF_recordVars(part = "stop" /\ DrainTimesOut)

\* The goroutines run, and a test ends that has a deadline or whose job is canceled;
\* nothing makes the upstream end one that it withholds.
JobsFairness ==
  \A j \in Jobs :
    WF_jobVars(part = "job" /\ (RunnerStep(j) \/ \E i \in Indices : ~Withheld(j, i) /\ WorkerStep(j, i)))

Spec ==
  /\ Init /\ [][Next]_<<attemptVars, settingsVars, streamVars, stopVars, jobVars, part>>
  /\ RequestFairness /\ SettingsFairness /\ StreamFairness /\ StopFairness /\ JobsFairness

\* Every streamed answer ends although the upstream may fall silent and the client
\* may stop reading without closing (idle.go:16-36, proxy.go:70-80).
EveryStreamEnds == part = "stream" => StreamEnds

\* Nothing hangs: a request leaves the retry loop, an update of the proxy settings,
\* a streamed answer, the shutdown and a flush come to their end, whatever the
\* upstream, the client and the database withhold; a test job does once it is
\* canceled, or unless the upstream withholds an answer to a chat model for ever.
EverythingEnds ==
  /\ RequestsEnd /\ UpdatesEnd /\ EveryStreamEnds
  /\ ShutdownEnds /\ FlushesEnd /\ JobsEnd
=============================================================================

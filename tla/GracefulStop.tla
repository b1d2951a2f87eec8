---------------------------- MODULE GracefulStop ----------------------------
(***************************************************************************)
(* The end of the process (internal/app: shutdown.go, server.go, Serve and *)
(* Close of app.go), composed with the buffer of request records: the HTTP *)
(* server stops with a deadline, then the recorder, the workers and last   *)
(* the database.  A request whose record is not yet recorded is a request  *)
(* that is still being handled.                                            *)
(***************************************************************************)
EXTENDS RecordBuffer

VARIABLES
  serving, \* Server.Serve's goroutine: "new", "unbound" (no listener), "listening" or "finished"
  stopper, \* Server.shutdown: "none", "begun", "finishing" (its goroutine waits for Serve) or "done"
  main,    \* Serve and Close: where they are
  worker,  \* per worker: "running", "told" or "stopped"
  abandoned \* handlers may be left that the stop no longer waits for

stopVars == <<recordVars, serving, stopper, main, worker, abandoned>>

\* The workers that write to the database: those the stop waits for, and those it
\* only tells.  Two more it does not even tell, and they are not counted here: a
\* test job, and the note of an access key's last use.
Awaited == {"model health", "cleanup", "health"}
Unawaited == {"free sync", "capability probe"}
Workers == Awaited \cup Unawaited
RootWorkers == {"model health"} \cup Unawaited

StopInit ==
  /\ RecorderInit
  /\ serving = "new" /\ stopper = "none" /\ main = "boot"
  /\ worker = [w \in Workers |-> "running"] /\ abandoned = FALSE

\* A request that was not recorded yet is still being handled.
NoHandler == \A r \in Records : record[r] \notin {"handled", "checked"}

Tell(ws) == worker' = [w \in Workers |-> IF w \in ws /\ worker[w] = "running" THEN "told" ELSE worker[w]]

(***************************************************************************)
(* The server.                                                             *)
(***************************************************************************)
ServeOn ==
  /\ main = "boot"
  /\ main' = "serving" /\ serving' = "listening"
  /\ UNCHANGED <<recordVars, stopper, worker, abandoned>>

\* No listener: Close begins the shutdown of a server that serves nobody.
BindFails ==
  /\ main = "boot"
  /\ main' = "server" /\ serving' = "unbound" /\ stopper' = "finishing"
  /\ Tell({"cleanup", "health"})
  /\ UNCHANGED <<recordVars, abandoned>>

\* Serve returns when the listener fails, or once the server is being shut down.
ServeEnds ==
  /\ serving = "listening"
  /\ serving' = "finished"
  /\ UNCHANGED <<recordVars, stopper, main, worker, abandoned>>

\* The signal: shutdown, which first runs beginShutdown once.  Without a listener
\* it does not ask httpServer to drain.
Signal ==
  /\ main = "serving"
  /\ main' = "draining" /\ stopper' = "begun"
  /\ abandoned' = (serving = "finished")
  /\ Tell({"cleanup", "health"})
  /\ UNCHANGED <<recordVars, serving>>

\* httpServer.Shutdown returns when no request is left.
RequestsGone ==
  /\ main = "draining" /\ (abandoned \/ NoHandler)
  /\ main' = "server" /\ stopper' = "finishing"
  /\ UNCHANGED <<recordVars, serving, worker, abandoned>>

\* At the deadline Close drops the connections and not their handlers.
DeadlineCloses ==
  /\ main = "draining"
  /\ main' = "server" /\ stopper' = "finishing" /\ abandoned' = TRUE
  /\ UNCHANGED <<recordVars, serving, worker>>

ServerDone ==
  /\ stopper = "finishing" /\ serving \in {"finished", "unbound"}
  /\ stopper' = "done"
  /\ UNCHANGED <<recordVars, serving, main, worker, abandoned>>

\* The listener failed: Close begins the shutdown itself, and drains nobody.
ServeFailed ==
  /\ main = "serving" /\ serving = "finished"
  /\ main' = "server" /\ stopper' = "finishing" /\ abandoned' = TRUE
  /\ Tell({"cleanup", "health"})
  /\ UNCHANGED <<recordVars, serving>>

\* The grace period's timer ends the root context.
GraceEnds ==
  /\ main \notin {"boot", "serving", "closed"} /\ worker["model health"] = "running"
  /\ Tell(RootWorkers)
  /\ UNCHANGED <<recordVars, serving, stopper, main, abandoned>>

(***************************************************************************)
(* finishShutdown.                                                         *)
(***************************************************************************)
StopRecorder ==
  /\ main = "server" /\ stopper = "done"
  /\ main' = "recorder" /\ runCanceled' = TRUE
  /\ UNCHANGED <<record, channel, stopping, flusher, gathered, stored, table, drainOver, force,
                 serving, stopper, worker, abandoned>>

RecorderDone == flusher.at = "over"
CancelRoot ==
  /\ main = "recorder" /\ RecorderDone
  /\ main' = "workers"
  /\ Tell(RootWorkers)
  /\ UNCHANGED <<recordVars, serving, stopper, abandoned>>

CloseDatabase ==
  /\ main = "workers" /\ \A w \in Awaited : worker[w] = "stopped"
  /\ main' = "closed" /\ table' = "closed"
  /\ UNCHANGED <<record, channel, stopping, flusher, gathered, stored, runCanceled, drainOver, force,
                 serving, stopper, worker, abandoned>>

\* When a worker stops that nobody waits for makes no difference.
WorkerStops(w) ==
  /\ worker[w] = "told"
  /\ worker' = [worker EXCEPT ![w] = "stopped"]
  /\ UNCHANGED <<recordVars, serving, stopper, main, abandoned>>

StopStep ==
  \/ ServeOn \/ BindFails \/ RequestsGone \/ DeadlineCloses \/ ServerDone \/ ServeFailed
  \/ StopRecorder \/ CancelRoot \/ CloseDatabase

\* Nobody handles a request before there is a listener.
RecorderMoves ==
  /\ RecorderNext /\ UNCHANGED <<serving, stopper, main, worker, abandoned>>
  /\ serving \in {"new", "unbound"} => record' = record

StopNext ==
  \/ RecorderMoves
  \/ StopStep \/ ServeEnds \/ Signal \/ GraceEnds
  \/ \E w \in Awaited : WorkerStops(w)

(***************************************************************************)
(* Properties.                                                             *)
(***************************************************************************)
\* When the database closes, every record that was accepted has been written, or
\* the drain ran out of time; every worker the stop waits for has stopped and the
\* others have been told; and nobody handles a request any more, unless the
\* listener failed or the deadline cut the handlers off (shutdown.go:62-151,
\* server.go:155-181, app.go:330-348).
ClosesLast ==
  main = "closed" =>
    /\ flusher.at = "over" /\ (drainOver \/ ToSet(stored) = Accepted)
    /\ \A w \in Awaited : worker[w] = "stopped"
    /\ \A w \in Unawaited : worker[w] # "running"
    /\ abandoned \/ serving = "unbound" \/ NoHandler

\* Once it is told to stop, or cannot serve, the process ends, although requests
\* may hang, the table may be down and Serve, the recorder and the workers wait for
\* each other (server.go:75-81, 140-205, shutdown.go:56-159).
ShutdownEnds == (main \in {"draining", "server"}) ~> (main = "closed")

\* No accepted record is lost or doubled, by a flush, a stop or the shutdown that
\* closes the database under both.
RecordsAreKept == AcceptedIsKept /\ FlushCovers /\ ClosesLast
=============================================================================

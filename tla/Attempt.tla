------------------------------ MODULE Attempt ------------------------------
(***************************************************************************)
(* The retry loop of internal/router: a request takes a lease from the     *)
(* pool, runs one upstream call on it, records what came of it and either  *)
(* answers, or gives the lease back and tries the next key.                *)
(*                                                                         *)
(* The pool is what the loop can see of it: leases on keys that are not    *)
(* cooling, a bounded queue, and the refusals with their codes.  KeyPool   *)
(* models it in full.  The clock counts seconds.                           *)
(***************************************************************************)
EXTENDS Fault, FiniteSets

CONSTANTS
  Requests, Keys, NoKey,
  Slots,          \* leases a key serves at once
  QueueCapacity,
  MaxAttempts,    \* max_attempts_per_request
  RetryBudget,    \* retry_budget_ms, in seconds
  TotalBudget,    \* nonstream_total_timeout_ms, in seconds
  Upstream,       \* the faults a call may end with
  Listed,         \* statuses in the failover list
  Horizon         \* bound: the clock stops here

ASSUME KeyAssumption == NoKey \notin Keys
ASSUME BudgetAssumption ==
  /\ Slots \in Nat \ {0} /\ QueueCapacity \in Nat /\ MaxAttempts \in Nat \ {0}
  /\ RetryBudget \in Nat \ {0} /\ TotalBudget \in Nat \ {0} /\ Horizon \in Nat
ASSUME RequestsAndKeysAreFinite == IsFiniteSet(Requests) /\ IsFiniteSet(Keys)
\* A Retry-After that Classify takes over is never negative, and a fault has a status.
ASSUME UpstreamAssumption ==
  Upstream \subseteq {f \in Faults : f.retryAfter >= 0 /\ f.status # 0}

VARIABLES
  now,
  inUse,      \* the leases out on each key
  bench,      \* when a key may be used again
  invalid,    \* keys that are switched off or whose credential is rejected
  blocked,    \* keys the model is blocked on
  down,       \* the pool has been shut down
  pc,         \* where each request is in Run
  stream,     \* its kind
  started,    \* when Run began
  ended,      \* why its context ended, or "no"
  attempted,  \* the keys it has tried
  lease,      \* the key whose lease it holds
  last,       \* lastFault
  commit,     \* CommitState of the attempt
  wake,       \* when its backoff is over
  outcome,    \* what Run returned
  calls,      \* history: upstream calls made
  late,       \* history: those begun after the retry window
  answered,   \* history: the upstream gave a 2xx
  blamed      \* history: keys whose upstream call failed

poolVars == <<inUse, bench, invalid, blocked, down>>
requestVars == <<pc, stream, started, ended, attempted, lease, last, commit, wake, outcome>>
history == <<calls, late, answered, blamed>>
attemptVars == <<now, poolVars, requestVars, history>>

NoFault == FaultOf(0, "request", FALSE)

States == {"idle", "acquire", "entering", "queued", "granted", "execute", "succeeded",
           "failing", "faulted", "backoff", "serving", "done"}

\* The codes of unavailableError.
NoKeysLeft == {"no_available_keys", "all_keys_cooling_down"}
Refusals == NoKeysLeft \cup {"model_not_available", "nvidia_key_rate_limited"}
Outcomes == {"none", "ok", "fault", "queue_timeout", "queue_full", "canceled",
             "server_shutting_down", "internal", "proxy_rejected"} \cup Refusals

AttemptInit ==
  /\ now = 0
  /\ inUse = [k \in Keys |-> 0]
  /\ bench = [k \in Keys |-> 0]
  /\ invalid \in SUBSET Keys
  /\ blocked \in SUBSET Keys
  /\ down = FALSE
  /\ pc = [r \in Requests |-> "idle"]
  /\ stream = [r \in Requests |-> FALSE]
  /\ started = [r \in Requests |-> 0]
  /\ ended = [r \in Requests |-> "no"]
  /\ attempted = [r \in Requests |-> {}]
  /\ lease = [r \in Requests |-> NoKey]
  /\ last = [r \in Requests |-> NoFault]
  /\ commit = [r \in Requests |-> FALSE]
  /\ wake = [r \in Requests |-> 0]
  /\ outcome = [r \in Requests |-> "none"]
  /\ calls = [r \in Requests |-> 0]
  /\ late = [r \in Requests |-> 0]
  /\ answered = [r \in Requests |-> FALSE]
  /\ blamed = {}

(***************************************************************************)
(* Budget                                                                  *)
(***************************************************************************)
totalDeadline(r) == started[r] + TotalBudget

\* A stream has no total deadline; otherwise the retry window ends with it.
retryDeadline(r) ==
  IF ~stream[r] /\ TotalBudget < RetryBudget
  THEN totalDeadline(r) ELSE started[r] + RetryBudget

preCommitDeadline(r) == retryDeadline(r)

\* The context of acquire, and of a call that is not a stream, ends with the
\* request or with the retry window.
WindowOver(r) == ended[r] # "no" \/ now >= preCommitDeadline(r)

Attempts(r) == Cardinality(attempted[r])

(***************************************************************************)
(* The pool                                                                *)
(***************************************************************************)
Enabled == Keys \ invalid
Allowed == Enabled \ blocked
Awake == {k \in Allowed : bench[k] <= now}
Ready(r) == Awake \ attempted[r]
Saturated(k) == inUse[k] >= Slots
Queue == {r \in Requests : pc[r] = "queued"}

\* Which keys have used up their requests per minute depends on everybody's
\* traffic: any set of them may have.
Free(r, limited) == {k \in Ready(r) \ limited : ~Saturated(k)}

\* Why tryAcquireLocked finds nothing for r.
unavailable(r, limited) ==
  CASE Enabled = {} -> "no_available_keys"
    [] Enabled # {} /\ Allowed = {} -> "model_not_available"
    [] Allowed # {} /\ Awake = {} -> "all_keys_cooling_down"
    [] Awake # {} /\ Ready(r) # {} /\ Ready(r) \subseteq limited -> "nvidia_key_rate_limited"
    [] OTHER -> "busy"

\* What a busy pool would wait for: a fresh key, or an attempted one to come back.
WorthQueueing(r) == Ready(r) # {} \/ \E k \in attempted[r] \cap Awake : Saturated(k)

Grant(r, k, state) ==
  /\ pc' = [pc EXCEPT ![r] = state]
  /\ lease' = [lease EXCEPT ![r] = k]
  /\ inUse' = [inUse EXCEPT ![k] = inUse[k] + 1]

\* executeLease on a lease: attempted and the call are recorded together.  Nobody
\* looks at the retry window here.
Begin(r, k) ==
  /\ attempted' = [attempted EXCEPT ![r] = attempted[r] \cup {k}]
  /\ commit' = [commit EXCEPT ![r] = FALSE]
  /\ calls' = [calls EXCEPT ![r] = calls[r] + 1]
  /\ late' = [late EXCEPT ![r] = late[r] + (IF now >= retryDeadline(r) THEN 1 ELSE 0)]

(***************************************************************************)
(* Run                                                                     *)
(***************************************************************************)
\* A handler calls Run with a stream or a request that is answered in one piece.
\* Bound: early enough for the retry window to close before the clock stops.
Start(r, s) ==
  /\ pc[r] = "idle" /\ now + RetryBudget <= Horizon
  /\ pc' = [pc EXCEPT ![r] = "acquire"]
  /\ stream' = [stream EXCEPT ![r] = s]
  /\ started' = [started EXCEPT ![r] = now]
  /\ UNCHANGED <<now, poolVars, ended, attempted, lease, last, commit, wake, outcome, history>>

Return(r, result) ==
  /\ pc' = [pc EXCEPT ![r] = "done"]
  /\ outcome' = [outcome EXCEPT ![r] = result]

\* Slip: the pool's own error always wins.
AcquireErrorAlone(r, error) == error

\* What Run makes of an error of acquire that is not a queue limit: of the pool's
\* refusals only two give way to the fault of an earlier call.
chooseAcquireError(r, error) ==
  IF last[r] # NoFault
     /\ (ended[r] # "no" \/ error \in NoKeysLeft)
  THEN "fault" ELSE error

AcquireFails(r, result) ==
  /\ Return(r, result)
  /\ UNCHANGED <<now, poolVars, stream, started, ended, attempted, lease, last,
                 commit, wake, history>>

\* The context has ended before the pool looks at the request: a deadline is
\* reported as a queue timeout, a disconnect as such.
ContextEnded(r) ==
  IF ended[r] = "canceled" THEN chooseAcquireError(r, "canceled") ELSE "queue_timeout"

AcquireExpired(r) ==
  /\ pc[r] = "acquire" /\ WindowOver(r)
  /\ AcquireFails(r, ContextEnded(r))

\* The context is looked at once, before the pool's lock is taken; while the
\* request waits for the lock its window may close and its client may leave.
AcquireEnters(r) ==
  /\ pc[r] = "acquire" /\ ~WindowOver(r)
  /\ pc' = [pc EXCEPT ![r] = "entering"]
  /\ UNCHANGED <<now, poolVars, stream, started, ended, attempted, lease, last,
                 commit, wake, outcome, history>>

AcquireDown(r) ==
  /\ pc[r] = "entering" /\ down
  /\ AcquireFails(r, chooseAcquireError(r, "server_shutting_down"))

AcquireNow(r, k, limited) ==
  /\ pc[r] = "entering" /\ ~down
  /\ Queue = {} /\ k \in Free(r, limited)
  /\ Grant(r, k, "execute")
  /\ Begin(r, k)
  /\ UNCHANGED <<now, bench, invalid, blocked, down, stream, started, ended, last, wake,
                 outcome, answered, blamed>>

\* Nothing is free: the pool says why, or that nothing is there to wait for.
AcquireRefused(r, limited) ==
  LET reason == unavailable(r, limited)
  IN  /\ pc[r] = "entering" /\ ~down
      /\ Queue = {} /\ Free(r, limited) = {}
      /\ reason = "busy" => ~WorthQueueing(r)
      /\ AcquireFails(r, chooseAcquireError(r,
           IF reason = "busy" THEN "no_available_keys" ELSE reason))

MustQueue(r, limited) ==
  \/ Queue # {}
  \/ Free(r, limited) = {} /\ unavailable(r, limited) = "busy" /\ WorthQueueing(r)

AcquireFull(r, limited) ==
  /\ pc[r] = "entering" /\ ~down /\ MustQueue(r, limited)
  /\ Cardinality(Queue) >= QueueCapacity
  /\ AcquireFails(r, "queue_full")

AcquireQueue(r, limited) ==
  /\ pc[r] = "entering" /\ ~down /\ MustQueue(r, limited)
  /\ Cardinality(Queue) < QueueCapacity
  /\ pc' = [pc EXCEPT ![r] = "queued"]
  /\ UNCHANGED <<now, poolVars, stream, started, ended, attempted, lease, last,
                 commit, wake, outcome, history>>

\* The dispatcher serves a waiter whose context is alive, or fails it.  It looks at
\* the context under the lock it grants under: a context that ends in between has,
\* for the waiter, ended right after the grant.
DispatchServe(r, k, limited) ==
  /\ pc[r] = "queued" /\ ~WindowOver(r) /\ ~down /\ k \in Free(r, limited)
  /\ Grant(r, k, "granted")
  /\ UNCHANGED <<now, bench, invalid, blocked, down, stream, started, ended, attempted, last,
                 commit, wake, outcome, history>>

DispatchFail(r, limited) ==
  LET reason == unavailable(r, limited)
  IN  /\ pc[r] = "queued" /\ ~down /\ ~WindowOver(r)
      /\ Free(r, limited) = {} /\ reason # "busy"
      /\ AcquireFails(r, chooseAcquireError(r, reason))

\* Shutdown answers the waiters.
DispatchDown(r) ==
  /\ pc[r] = "queued" /\ down
  /\ AcquireFails(r, chooseAcquireError(r, "server_shutting_down"))

\* The wait ends with the queue timer or with the context.
QueueTimeout(r) ==
  /\ pc[r] = "queued"
  /\ AcquireFails(r, "queue_timeout")

QueueExpired(r) ==
  /\ pc[r] = "queued" /\ WindowOver(r)
  /\ AcquireFails(r, ContextEnded(r))

\* Slip: the lease is dropped without being released.
GiveBackForgotten(r) ==
  /\ lease' = [lease EXCEPT ![r] = NoKey]
  /\ inUse' = inUse

GiveBack(r) ==
  /\ lease' = [lease EXCEPT ![r] = NoKey]
  /\ inUse' = [inUse EXCEPT ![lease[r]] = inUse[lease[r]] - 1]

\* Select takes either the answer or the end of the wait that came with it.
Receive(r) ==
  /\ pc[r] = "granted"
  /\ pc' = [pc EXCEPT ![r] = "execute"]
  /\ Begin(r, lease[r])
  /\ UNCHANGED <<now, poolVars, stream, started, ended, lease, last, wake,
                 outcome, answered, blamed>>

Abandon(r) ==
  /\ pc[r] = "granted"
  /\ GiveBack(r)
  /\ \/ WindowOver(r) /\ Return(r, ContextEnded(r))
     \/ Return(r, "queue_timeout")
  /\ UNCHANGED <<now, bench, invalid, blocked, down, stream, started, ended, attempted, last,
                 commit, wake, history>>

(***************************************************************************)
(* executeLease                                                            *)
(***************************************************************************)
\* Run gives the lease back and returns something that is no fault.
ExecuteError(r, result) ==
  /\ Return(r, result)
  /\ GiveBack(r)
  /\ UNCHANGED <<now, bench, invalid, blocked, down, stream, started, ended, attempted, last,
                 commit, wake, history>>

\* The secret cannot be read: the context is over, the key is gone, the
\* ciphertext does not open.
SecretFails(r) == pc[r] = "execute" /\ ExecuteError(r, "internal")

\* The proxy refused the request with an answer of its own.
ProxyRejected(r) == pc[r] = "execute" /\ ExecuteError(r, "proxy_rejected")

\* A call that ended with fault f, before anything is recorded, and the keys the
\* upstream complained of.
Faulted(r, f, state, complained) ==
  /\ pc' = [pc EXCEPT ![r] = state]
  /\ last' = [last EXCEPT ![r] = f]
  /\ blamed' = blamed \cup complained
  /\ UNCHANGED <<now, poolVars, stream, started, ended, attempted, lease,
                 commit, wake, outcome, calls, late, answered>>

\* No healthy exit, or an exit that died: the key is not to blame.
ProxyFails(r) ==
  /\ pc[r] = "execute"
  /\ \E status \in {502, 503} : Faulted(r, upstreamFault(status, TRUE), "faulted", {})

CallFails(r, f) == pc[r] = "execute" /\ Faulted(r, f, "failing", {lease[r]})

\* The context of the call ended under it. A stream's call lives on the
\* request's own context.
CallExpires(r) ==
  /\ pc[r] = "execute"
  /\ ended[r] # "no" \/ (~stream[r] /\ WindowOver(r))
  /\ Faulted(r, classifyRequestError(IF ended[r] = "canceled" THEN "canceled" ELSE "timeout"),
             "failing", {lease[r]})

\* A 2xx; a stream has been primed and may already be committed.
CallSucceeds(r, committed) ==
  /\ pc[r] = "execute" /\ (committed => stream[r])
  /\ pc' = [pc EXCEPT ![r] = "succeeded"]
  /\ commit' = [commit EXCEPT ![r] = committed]
  /\ answered' = [answered EXCEPT ![r] = TRUE]
  /\ UNCHANGED <<now, poolVars, stream, started, ended, attempted, lease, last,
                 wake, outcome, calls, late, blamed>>

Serve(r) ==
  /\ pc' = [pc EXCEPT ![r] = "serving"]
  /\ outcome' = [outcome EXCEPT ![r] = "ok"]
  /\ UNCHANGED <<now, inUse, blocked, down, stream, started, ended, attempted, lease,
                 last, commit, wake, history>>

\* MarkSuccess and ApplySuccess: the key's cooldown and its invalidity are cleared.
MarkSuccess(r) ==
  /\ pc[r] = "succeeded"
  /\ bench' = [bench EXCEPT ![lease[r]] = 0]
  /\ invalid' = invalid \ {lease[r]}
  /\ Serve(r)

\* MarkSuccess failed: the answer is delivered all the same, unless the write
\* failed because nobody is there any more to take it.
MarkSuccessFails(r) ==
  /\ pc[r] = "succeeded"
  /\ \/ Serve(r) /\ UNCHANGED <<bench, invalid>>
     \/ /\ ended[r] # "no"
        /\ Faulted(r, classifyRequestError(IF ended[r] = "canceled" THEN "canceled" ELSE "timeout"),
                  "faulted", {})

\* When a key with this fault may be used again; the level of the key's ladder
\* is left to KeyLadder.
BenchUntil(k, f) ==
  LET duration == Floored(f, CalculateCooldown(f, 0, 10).duration)
  IN  IF duration = 0 THEN bench[k] ELSE now + duration \div Second

MarkFailure(r) ==
  /\ pc[r] = "failing"
  /\ bench' = [bench EXCEPT ![lease[r]] = BenchUntil(lease[r], last[r])]
  /\ invalid' = IF last[r].disableKey THEN invalid \cup {lease[r]} ELSE invalid
  /\ blocked' = IF last[r].blockModel THEN blocked \cup {lease[r]} ELSE blocked
  /\ pc' = [pc EXCEPT ![r] = "faulted"]
  /\ UNCHANGED <<now, inUse, down, stream, started, ended, attempted, lease, last,
                 commit, wake, outcome, history>>

\* MarkFailure failed: Run returns the error, or the fault when the write failed
\* because the request is over.
MarkFailureFails(r) ==
  /\ pc[r] = "failing"
  /\ \/ ExecuteError(r, "internal")
     \/ ended[r] # "no" /\ Faulted(r, last[r], "faulted", {})

(***************************************************************************)
(* After a fault                                                           *)
(***************************************************************************)
\* Slip: the window is left to the context, which a stream's has no deadline of.
GivesUpWithContext(r) ==
  \/ ~shouldRetry(last[r], Listed)
  \/ commit[r]
  \/ ended[r] # "no"
  \/ Attempts(r) >= MaxAttempts

GivesUp(r) ==
  \/ ~shouldRetry(last[r], Listed)
  \/ commit[r]
  \/ ended[r] # "no"
  \/ Attempts(r) >= MaxAttempts
  \/ now >= retryDeadline(r)

Seconds(milliseconds) == (milliseconds + Second - 1) \div Second

\* The wait before the next key: none before the second key unless the upstream
\* asked for one, never past the retry window.
backoff(r) ==
  LET f == last[r]
      n == Attempts(r)
      step == IF n < 2 THEN 100 ELSE 100 * 2 ^ (n - 2)
      growing == IF step > 2000 \/ step <= 0 THEN 2000 ELSE step
      hint == Capped(f.retryAfter)
      delay == IF n <= 1 /\ f.retryAfter <= 0 THEN 0
               ELSE IF hint > growing THEN hint ELSE growing
      until == now + Seconds(delay)
  IN  IF until > retryDeadline(r) THEN retryDeadline(r) ELSE until

ReturnFault(r) ==
  /\ pc[r] = "faulted" /\ GivesUp(r)
  /\ Return(r, "fault")
  /\ GiveBack(r)
  /\ UNCHANGED <<now, bench, invalid, blocked, down, stream, started, ended, attempted, last,
                 commit, wake, history>>

Retry(r) ==
  /\ pc[r] = "faulted" /\ ~GivesUp(r)
  /\ pc' = [pc EXCEPT ![r] = "backoff"]
  /\ wake' = [wake EXCEPT ![r] = backoff(r)]
  /\ GiveBack(r)
  /\ UNCHANGED <<now, bench, invalid, blocked, down, stream, started, ended, attempted, last,
                 commit, outcome, history>>

BackoffOver(r) ==
  /\ pc[r] = "backoff" /\ now >= wake[r]
  /\ pc' = [pc EXCEPT ![r] = "acquire"]
  /\ UNCHANGED <<now, poolVars, stream, started, ended, attempted, lease, last,
                 commit, wake, outcome, history>>

BackoffCut(r) ==
  /\ pc[r] = "backoff" /\ now < wake[r] /\ ended[r] # "no"
  /\ AcquireFails(r, "fault")

\* The handler has delivered the answer, or lost its client, and calls Release.
Release(r) ==
  /\ pc[r] = "serving"
  /\ pc' = [pc EXCEPT ![r] = "done"]
  /\ GiveBack(r)
  /\ UNCHANGED <<now, bench, invalid, blocked, down, stream, started, ended, attempted, last,
                 commit, wake, outcome, history>>

(***************************************************************************)
(* The world                                                               *)
(***************************************************************************)
Disconnect(r) ==
  /\ pc[r] \notin {"idle", "done"} /\ ended[r] = "no"
  /\ ended' = [ended EXCEPT ![r] = "canceled"]
  /\ UNCHANGED <<now, poolVars, pc, stream, started, attempted, lease, last,
                 commit, wake, outcome, history>>

Shutdown ==
  /\ ~down
  /\ down' = TRUE
  /\ UNCHANGED <<now, inUse, bench, invalid, blocked, requestVars, history>>

\* Time passes; the context of a request with a total deadline ends with it.
Tick ==
  /\ now < Horizon
  /\ now' = now + 1
  /\ ended' = [r \in Requests |->
       IF /\ pc[r] \notin {"idle", "done"} /\ ~stream[r] /\ ended[r] = "no"
          /\ now + 1 >= totalDeadline(r)
       THEN "deadline" ELSE ended[r]]
  /\ UNCHANGED <<poolVars, pc, stream, started, attempted, lease, last, commit,
                 wake, outcome, history>>

Acquire(r) ==
  \/ AcquireExpired(r) \/ AcquireEnters(r) \/ AcquireDown(r)
  \/ \E limited \in SUBSET Ready(r) :
       \/ AcquireRefused(r, limited) \/ AcquireFull(r, limited) \/ AcquireQueue(r, limited)
       \/ \E k \in Keys : AcquireNow(r, k, limited)

Wait(r) ==
  \/ DispatchDown(r) \/ QueueTimeout(r) \/ QueueExpired(r) \/ Receive(r) \/ Abandon(r)
  \/ \E limited \in SUBSET Ready(r) :
       DispatchFail(r, limited) \/ \E k \in Keys : DispatchServe(r, k, limited)

Execute(r) ==
  \/ SecretFails(r) \/ ProxyRejected(r) \/ ProxyFails(r) \/ CallExpires(r)
  \/ \E f \in Upstream : CallFails(r, f)
  \/ \E committed \in BOOLEAN : CallSucceeds(r, committed)

Record(r) ==
  \/ MarkSuccess(r) \/ MarkSuccessFails(r) \/ MarkFailure(r) \/ MarkFailureFails(r)

Decide(r) ==
  \/ ReturnFault(r) \/ Retry(r) \/ BackoffOver(r) \/ BackoffCut(r)

Step(r) == Acquire(r) \/ Wait(r) \/ Execute(r) \/ Record(r) \/ Decide(r) \/ Release(r)

AttemptNext ==
  \/ \E r \in Requests : Step(r) \/ Disconnect(r) \/ \E s \in BOOLEAN : Start(r, s)
  \/ Shutdown
  \/ Tick

(***************************************************************************)
(* Properties                                                              *)
(***************************************************************************)
AttemptTypeOK ==
  /\ now \in 0..Horizon
  /\ inUse \in [Keys -> Nat] /\ bench \in [Keys -> Nat]
  /\ invalid \subseteq Keys /\ blocked \subseteq Keys /\ down \in BOOLEAN
  /\ pc \in [Requests -> States] /\ stream \in [Requests -> BOOLEAN]
  /\ started \in [Requests -> 0..Horizon]
  /\ ended \in [Requests -> {"no", "canceled", "deadline"}]
  /\ attempted \in [Requests -> SUBSET Keys]
  /\ lease \in [Requests -> Keys \cup {NoKey}]
  /\ last \in [Requests -> Faults] /\ commit \in [Requests -> BOOLEAN]
  /\ wake \in [Requests -> Nat] /\ outcome \in [Requests -> Outcomes]
  /\ calls \in [Requests -> Nat] /\ late \in [Requests -> Nat]
  /\ answered \in [Requests -> BOOLEAN] /\ blamed \subseteq Keys

Holding == {"granted", "execute", "succeeded", "failing", "faulted", "serving"}

\* Every path out of executeLease either keeps the lease for the handler or
\* gives it back: a lease is out exactly while a request is using it, and a
\* key's count is the number of requests that hold one.
LeasesBalance ==
  /\ \A r \in Requests : lease[r] # NoKey <=> pc[r] \in Holding
  /\ \A k \in Keys : inUse[k] = Cardinality({r \in Requests : lease[r] = k})

\* One request makes at most max_attempts_per_request upstream calls, each on
\* a key of its own (attempt.go:188, attempt.go:229).
BoundedFanOut ==
  \A r \in Requests : calls[r] = Attempts(r) /\ calls[r] <= MaxAttempts

\* Where a request may still come to make another call.
Asking == {"idle", "acquire", "entering", "queued", "granted", "backoff"}

\* The retry window ends the loop and not the call: a lease that was asked for in
\* time may be handed over, and its call begun, when the window is over, for a
\* stream with no bound but its own.  Such a call is the request's only one and its
\* last: whatever it ends with, no further key is asked for or waited for
\* (attempt.go:229-234, 333-342, queue.go:115-119).
LateCallIsLast ==
  \A r \in Requests : late[r] <= 1 /\ (pc[r] \in Asking => late[r] = 0)

\* A 2xx of the upstream reaches a client that is still there, whatever the
\* database says to the success record (attempt.go:456-470).
SuccessReachesClient ==
  \A r \in Requests :
    answered[r] /\ pc[r] = "done" => outcome[r] = "ok" \/ ended[r] # "no"

\* Who is told that there are no keys, or that all are cooling down, has not used
\* one: a request whose own calls emptied the pool gets the fault of the last of
\* them.  The code does not say as much of the two other refusals: the model
\* blocked everywhere, or the rest of the keys rate limited (attempt.go:566-576).
ExhaustionShowsFault ==
  \A r \in Requests : outcome[r] \in NoKeysLeft => calls[r] = 0

\* A key cools only for what the upstream did with it: neither an empty proxy
\* pool nor a dead exit takes keys out of service (attempt.go:422-446).
ProxySparesKeys == \A k \in Keys : bench[k] > 0 => k \in blamed

\* Every request that enters Run leaves it, and its handler releases.
RequestsEnd == \A r \in Requests : pc[r] # "idle" ~> pc[r] = "done"

\* The upstream calls of a request are made on leases of its own, as many as it
\* may, and every one of them is given back on every path out of executeLease.
CallsOnLeases == AttemptTypeOK /\ LeasesBalance /\ BoundedFanOut

\* What the client is told, and what is held against a key, is what the upstream
\* did: a success is passed on, a fault is shown instead of the lack of keys it
\* caused, and what went wrong in front of the upstream spares the keys.
OutcomesAreTrue == SuccessReachesClient /\ ExhaustionShowsFault /\ ProxySparesKeys
=============================================================================

# A TLA+ model of nvidia-router

nvidia-router is an OpenAI-compatible gateway in front of NVIDIA's API and the
OpenCode Free gateway. It keeps a table of NVIDIA keys, leases one of them to
every request, switches keys when an upstream call fails, takes failing keys and
failing egress proxies out of service for a while, relays and translates
streamed answers, and lets administrators change all of this under traffic. This
directory models the parts in which the order of events matters, checks them
with TLC on small instances, and proves every safety property that a passing run
checks, the credential pool's refinement included, with TLAPS for every instance.
What rests on TLC alone is liveness.

Paths below are relative to the repository; `pool.go` without a directory means
`internal/pool/pool.go`.

## 1. The system

| Component | State | What is hard | What makes it correct | Modules |
|---|---|---|---|---|
| `internal/pool`, `keystate` | keys with slots, cooldowns and request windows; rotation order and cursor; FIFO of waiters; one mutex | timeouts racing a dispatched lease, wake-ups, queue rotation, leases on removed keys | slots equal leases; no lease lost; FIFO; no lost wake-up; every wait ends | `LeaseTable`, `KeyPool`, `KeyPoolTable`; `KeyPoolProofs`, `KeyPoolTableProofs` |
| `internal/router` | per request: attempted keys, deadlines, lease, last fault, commit state | four deadlines, a dozen ways out of one function, failing state writes | bounded upstream calls, a late one is the last; leases balance; a success is delivered; honest errors | `Attempt`; `AttemptProofs` |
| `internal/fault` | none | boundaries of durations and status ranges | escalation; a key that is left rests, unless only the operator's list made the router leave it; exact matching | `Fault`, `KeyLadder`, `FailoverMatcher`; `KeyProofs` |
| `internal/nvidiakey` | rows of `nvidia_keys` and `nvidia_key_model_blocks` | commit and memory update are two steps of different goroutines | table and pool agree once everybody is done | `KeySync`; `KeyProofs` |
| `internal/xkproxy` | exits with health and ejection; cache of transports; manager, collector, switcher; stored settings | fetches merged into exits requests have ejected; transports built without a lock; replacement under traffic | isolation is earned and served; no closed manager in use; no manager left behind | `ExitPool`, `ExitTransports`, `ExitSettings`; `ExitProofs` |
| `internal/upstream/nvidia` | one call: its handles, flags set by the transport, how the body ended | timers, transport and reader report from different goroutines | a request is sent once; an exit is credited for a complete answer only | `UpstreamCall`; `ExitProofs` |
| `internal/upstream/opencodefree` | one request: two calls of up to three exits each | retries across exits and across calls | sent once per call, answered once | `FreeGateway`; `StreamProofs` |
| `internal/accesskey` | row, cached identity, limiter bucket | check-then-store cache, counters across policy changes and restarts | slots not leaked; staleness bounded; spending never refunded | `AccessKeys`; `AccessProofs` |
| `internal/adminauth` | account, sessions, table of login attempts | bounded table, cached flags, competing password changes | guesses limited; forced change holds; one session survives | `LoginGate`, `AdminSessions`; `AccessProofs` |
| `internal/httpapi/v1` | body budget, read slots, temporary files; the end of a stream | lock-free counters, a return on every error path | the budget is what is in memory; truncation is told | `RequestBody`, `ChatStream`; `StreamProofs` |
| `internal/sse` | primed events, idle timer, write watchdog | timers closing a body in use | relayed in order; every stream ends | `ChatStream`; `StreamProofs` |
| `internal/protocol/responses` | converter: items, open calls, terminal state | late names, truncation, two code paths for one meaning | well-formed items; terminal event agrees with them | `ResponsesStream`; `StreamProofs` |
| `internal/observability`, `internal/app` | channel, flusher, drain; stages of the shutdown | stop against record, flush against exit, the database closing under writers, handlers that outlive the deadline | accepted records are kept; what is waited for comes first; the process ends | `RecordBuffer`, `GracefulStop`; `StreamProofs` |
| `internal/modelcatalog` | model rows with a revision; verdicts of probes | calls between two transactions, partial failure of a probe | verdicts are about the row as it stands | `ModelCatalog`, `ModelProbe`; `CatalogProofs` |
| `internal/modelhealth` | settings, loop with timer and signals, batch, outcomes | settings change at any moment; signals of capacity one | schedule is current; run of failures agrees with history | `ModelHealth`; `CatalogProofs` |
| `internal/httpapi/admin` | test jobs | cancel during hand-over and test | progress agrees; over is final; goroutines end | `ModelTestJobs`; `CatalogProofs`, and the login and password handlers in `AdminSessions`, `LoginGate` |

Interactions. A handler reads the body under the body budget, authenticates the
access key, and calls `Attempt.Run`. `Run` acquires a lease from the pool, reads
the key's secret from the table, calls the upstream through an exit of the proxy
pool, writes the result to the key's row (`MarkSuccess`, `MarkFailure`), applies
it to the pool (`ApplySuccess`, `ApplyFailure`) and either hands the lease to the
handler or releases it and tries the next key. The handler relays or converts the
answer; the body it reads judges the exit when it ends, and the record of the
request goes to the buffer. Administrators commit to the same rows and then call
the same pool operations; the health checker and the probes do the same. SQLite
has a single writer connection and the pool has one mutex, but nothing orders a
transaction with the memory update that follows it: most of the races below are
of this kind.

`PROJECT.json` lists the hazards of the code line by line, each with the
properties that would catch it.

## 2. Modules

A component's module declares its state, one action per operation, handler or
step, its next-state relation (`...Next`) and its properties. An `MC` module
gives the constants and the inputs for TLC, and a `Proofs` module holds the
theorems about one or several components. Names follow the source.

### The credential pool: LeaseTable, KeyPool, KeyPoolTable

`LeaseTable` is what the pool promises its users: callers ask, are granted a key
that is usable for their model and has room, or are refused; a lease is given
back once; a removed key takes its leases with it. `KeyPool` is `pool.go`,
`queue.go`, `state.go` and `lease.go`. `KeyPoolTable` is the refinement mapping:
a caller "asks" from its entry into `acquire` until it has a lease or has left,
wherever it waits meanwhile, and a pair of key and model is usable when the scan
would consider it.

* `Pool.mu` is the variable `stage`. An operation takes the lock from `"free"`,
  makes its change and leaves `"pass"`, the loop of `dispatchWaitersLocked`. Each
  iteration of the loop is a step, because contexts are cancelled and the clock
  moves between iterations; no other operation gets the lock before it is over.
  A caller that waits for its channel, or gives up waiting, does so without it.
* `AcquireEnter .. AcquireEnqueue` are the branches of `acquire`; `PassServe`,
  `PassRotate`, `PassFail`, `RelaxServe`, `RelaxFail`, `NoRelax`, `PassCancelled`
  those of the loop; `Receive`, `GiveUp`, `AbandonQueued`, `AbandonAnswered`,
  `Drain` the two halves of a wait; `Release`, `Shutdown` and the StateSync
  operations are one action each.
* `RemoveKey` orphans the leases on the removed `keyState`: a later `release`
  works on that object, not on one that `UpsertKey` creates for the same id.
* Time is abstract: `CooldownExpires` and `WindowSlides` may happen whenever they
  could, and set `ticked`, because nothing in the code wakes the queue then.
* Latency routing picks any eligible key; every candidate's weight is positive.

### Keys in use: Attempt, Fault, KeyLadder, FailoverMatcher, KeySync

`Attempt` is `attempt.go`, `budget.go`, `commit.go` over a pool reduced to a count
of slots and a queue (KeyPool justifies that abstraction: slots equal leases,
FIFO, every wait ends). The deadlines are those of `newBudget`; a stream has no
total deadline; `preCommitDeadline` limits acquire and the call until the response
is committed. As in `queue.go:115-130` a request looks at its context once, before it
waits for the pool's mutex (`AcquireEnters`), and the grant does not look again
(`AcquireNow`); `late` counts the calls that begin after the retry window because
of it. The pool's refusals keep the codes of `unavailableError`, because
`chooseAcquireError` shows the last fault in place of two of the four only. A key
may be over its requests per minute at any time, since that depends on
everybody's traffic. Each way out of `executeLease` is an action; durations are ticks; a
cooldown is the first rung of the ladder (its growth is KeyLadder's subject).

`Fault` holds the classifier, the retry decision and `CalculateCooldown` as
operators in milliseconds. `KeyLadder` applies them to the row of one key, fault
after fault, with jitter at both ends of its range and failures at the start and
in the middle of a second (`formatTimestamp` keeps whole seconds). Which faults the
router goes on from depends on the operator's list too (`Covered`): it may name
statuses whose faults are not retryable and get no cooldown.
`FailoverMatcher` models the operator's list: parsing of tokens, merging of
ranges, the binary search, compared with plain membership.

`KeySync` is the table and the pool's copy of it: every worker (a request, an
administrator, a probe of the sweep) commits a transaction, keeps the snapshot it
read back and applies it later. A restart drops the workers and loads the table.

### The way out: ExitPool, ExitTransports, ExitSettings, UpstreamCall

`ExitPool` is the pool of exits with transport failures, HTTP failures, ejection,
isolation, removal, the brake on ejections in a storm, and the collector's cycle
of fetch, validation, merge and grace. Points in time are kept as ticks since or
until them. The history `owed` is what is left of the isolation last imposed on an
exit, whatever becomes of its record. `ExitTransports` is the manager's cache of
transports: look-up, selection and building without a lock, installation, eviction, retirement,
closing. `ExitSettings` is a change of the configuration: the settings service's
checks and row, the switcher's read-write lock, and the lives of managers and
collectors. `UpstreamCall` is one call of the NVIDIA client with the second
attempt through another exit, the first-byte timer, and the judgement of the
exit by how the body ends.

### Who may come in: AccessKeys, LoginGate, AdminSessions

`AccessKeys` is one downstream key: its row, the cached identity, the limiter's
bucket, authentication as three steps (look-up, read, store), slots, charging,
the throttled write-back, policy updates, revocation and restart. `LoginGate` is
the login limiter with its bounded table in order of last use. `AdminSessions` is
the account, the sessions and the handlers that use them, each statement of which
may fail.

### What a request brings and takes: RequestBody, ChatStream, ResponsesStream, FreeGateway

`RequestBody` is the body budget with its compare-and-swap operations and the
temporary files of audio uploads. `ChatStream` is one streamed chat answer from
the upstream to the client: priming, relaying, idle timer, watchdog, and what the
client is told at the end. `ResponsesStream` is the converter of chat deltas to
Responses events together with the non-streamed conversion of the same deltas.
`FreeGateway` is a request for the free gateway, with its two calls and their
exits.

### What is kept: RecordBuffer, GracefulStop

`RecordBuffer` is the buffer of request records with its flusher, retries,
ForceFlush, stop and drain. A call of ForceFlush that the flusher answers
("flushed") and one that finds it gone ("stopped") both return nil, and promise
different things. `GracefulStop` extends it with the server, the stages
of `finishShutdown`, the workers and the closing of the database. A request whose
record is not recorded yet is a handler that runs. The server may have no listener
(`BindFails`), lose it (`ServeEnds`, `ServeFailed`) or drop the connections at the
deadline (`DeadlineCloses`); in the last two `abandoned` says that handlers may be
left which nobody waits for. `Awaited` are the workers the stop waits for,
`Unawaited` those it only tells: the synchronisation with the free gateway
(`app.go:330`, `modelcatalog/service.go:662-704`) and the capability probe
(`app.go:348`), which write under the root context. The goroutines of a test job
(`model_test_jobs.go:174`) and the note of an access key's last use
(`accesskey/service.go:270`) are neither told nor awaited and are left out.

### Models: ModelCatalog, ModelProbe, ModelHealth, ModelTestJobs

`ModelCatalog` is one row of the catalogue and everybody who writes it.
`ModelProbe` is one capability probe with every kind of answer on every key.
`ModelHealth` is the schedule: settings, loop, signals, batches and outcomes. The
models of `Keyless` belong to another provider: they are probed although no NVIDIA
key can be used, and a catalogue of such models only does not ask for a key.
`ModelTestJobs` is the administration page's test jobs with their workers.
`Untimed` are the NVIDIA chat models, whose test nothing but the upstream or a
cancel bounds.

### How the MC modules put them together

`MCKeyPool` and `MCKeyPoolLoads` instantiate the pool alone. `MCKeys`,
`MCExits`, `MCAccess`, `MCStreams`, `MCCatalog` and `MCLive` each check several
components that the same goroutines pass through but that share no variable: the
variable `part` says which of them a behaviour is about, the others stay in an
initial state, and so the state space is the sum of the parts and not their
product. Where components do share state they are composed for real:
`GracefulStop` over `RecordBuffer`, `KeyLadder` and `Attempt` over `Fault`,
`KeyPoolTable` over `LeaseTable`.

In the same way a "load" or "cast" (`MCKeys`, `MCKeyPoolLoads`) restricts which
calls arrive, which keys they find and which faults they meet, so that each
question can afford the bounds it needs. It changes no action.

## 3. What TLC checks

| Run | Instance | Properties |
|---|---|---|
| `pool_queue` | 3 callers, 2 keys, queue of 2, request window of 1; fresh, retried and failover requests | `AnsweredOnce`, `QueueKeepsArrivalOrder`, `NoReuseOfAttempted` |
| `pool_sync` | loads "mixed" (2 callers, 2 keys, short, streaming and latency-routed requests, any one StateSync operation, every health), "resize" (3 keys, 3 insertions or removals around one lease), "replace" (one key removed and inserted again under two callers) | `TypeOK`, `SlotsMatchLeases`, `NoLeaseLeaked`, `NoLostWakeup`, `RotationIsSound`, `ImplementsLeaseTable` |
| `pool_live` | 2 callers, 1 key, one StateSync operation, fairness | `WaitingEnds` |
| `pool_failover` | 2 callers, 2 keys | violated: `FailoverQueuesForFreshKey` |
| `keys` | parts "ladder", "matcher", "alone" (1 request on 3 keys, every class of fault), "contention" (2 requests, slots of 1), "everybody" and "no tests" (a key's row and the pool under 1 request, 1 administrator, 1 probe, 1 restart) | `BlameIsJust`, `LadderClimbs`, `MatcherIsExact`, `CallsOnLeases`, `LateCallIsLast`, `OutcomesAreTrue`, `PoolFollowsTable` |
| `exits` | 2 exits and 1 request at a time; 3 requests on 2 sessions and a cache of 1; 2 updates, 1 refresh, 1 acquire; 1 call | `ExitsAreCurrent`, `IsolationIsEarned`, `TransportsAreSound`, `ManagersAreSound`, `SentOnce`, `SuccessIsEarned` |
| `access` | 2 callers of one key and 1 policy update; 3 logins from 2 addresses, table of 3; 3 requests of the administrator, 1 reset | `PolicyHolds`, `SpendNeverRefunded`, `LoginsAreLimited`, `SessionsFollowPassword` |
| `streams` | 3 bodies against 4 units; up to 3 events; up to 3 deltas of 2 calls; 2 calls of 3 exits; 3 records, 1 flush, the shutdown with 3 workers it waits for and 2 it does not | `BudgetIsKept`, `RelayedInOrder`, `EndIsTold`, `TerminalIsRight`, `SameAsNotStreamed`, `CallsAreSingle`, `RecordsAreKept` |
| `catalog` | 1 row under 4 writes; 1 probe on up to 3 of 4 keys; 2 patches and 2 batches over 1 model with or without a key of ours; 2 jobs of 3 models with 2 workers | `VerificationHolds`, `ProbesAreFair`, `HealthIsTrue`, `JobsAreTrue`, `OverIsFinal` |
| `live` | 2 requests on 1 key; 1 update and 1 refresh; 1 stream; 1 record, 1 flush and the shutdown; 1 job of a timed and an untimed model, fairness | `EverythingEnds` |
| `responses_truncated` | the Responses part of `streams` | violated: `TruncationIsNoSuccess` |
| `model_patch` | the row part of `catalog` | violated: `RowStaysPatchable` |

Several properties are conjunctions of named parts; each part has its own comment
where it is defined, and a counterexample names the part. A plausible slip of the
code is kept beside the definition it would replace, under a comment that begins
with `Slip:`; each property is known to fail under one.

| Property | Its parts |
|---|---|
| `RotationIsSound` | the rotation order is the sorted key ids; the cursor still points at the key in turn after insertions and removals |
| `BlameIsJust` | types; a key the router leaves rests past the current second, is blocked for the model, is out for good, was named a wait of nothing by the upstream, or, when only the operator's list made the router go on, is exactly as it was; only a 401 or 403 disables; a timeout after writing is neither retried nor punished |
| `CallsOnLeases` | types; every path out of `executeLease` balances its lease; calls per request are bounded, each on another key |
| `OutcomesAreTrue` | a success reaches a client that is there; who is told that there are no keys or that all are cooling has used none; an empty or broken proxy pool costs no key |
| `PoolFollowsTable` | types; no key and no switch of the pool differs from the table's, and in the cast "no tests" no cooldown of the table is missing in the pool, unless a worker is about to apply it |
| `ExitsAreCurrent`, `IsolationIsEarned` | a removed exit stays out; no exit outlives two TTLs; an isolation is served until time or a success ends it, as long as the pool remembers the exit; in a storm no HTTP failure isolates or removes an exit |
| `TransportsAreSound` | a handle names the exit it dials; a closed manager holds nothing; the cache is bounded; a request retires its own transport only |
| `ManagersAreSound` | a used manager is open; a collector closes after its last fetch; no manager is left running |
| `PolicyHolds` | no slot outlives its request; a stale identity outlives its row by the TTL at most |
| `LoginsAreLimited` | guesses per address and window are bounded; the table forgets what was used longest ago |
| `SessionsFollowPassword` | nothing before the forced change; no second demand after it; one replacement session survives |
| `BudgetIsKept` | the counter is the sum of the leases and covers what is held; a finished request keeps nothing |
| `EndIsTold` | truncation is told; a complete answer has content |
| `TerminalIsRight` | well-formed items; the terminal event lists them; its status is what the upstream's end justifies |
| `CallsAreSingle` | one copy per call; one answer per request |
| `RecordsAreKept` | an accepted record is in one place and reaches the table; a flush the flusher answered covers what preceded it, one that found it gone does if the drain was not cut short; the database closes after the recorder and the awaited workers, the others have been told, and no handler runs unless the listener failed or the deadline cut it off |
| `VerificationHolds` | an enabled audio model is verified; an accepted manual test is of the current row, unless a probe set the revision back since it was loaded; a verdict and its flags are changed by the next probe and by patches of these fields only |
| `ProbesAreFair` | nothing is denied on silence; a second key only where another key could help |
| `HealthIsTrue` | the loop uses the stored schedule; enabling is probed; runs of failures match the history; a model that needs a key is not "unconfigured" while there is one |
| `JobsAreTrue` | progress is the number of results; an ended job is complete |
| `EverythingEnds` | a request leaves `Run`; an update ends; a stream ends; the shutdown ends; a ForceFlush ends; the goroutines of a job end unless the upstream withholds an untimed answer for ever and nobody cancels the job |

**Bounds, and why they are enough.** The races of the pool need one waiter that
gives up, one that is served and one that is rotated past, hence three callers; a
key to be taken and one to be offered, hence two keys; a third key only moves the
cursor past a removed one ("resize"). `MaxChanges` bounds the StateSync
operations: each property relates one of them to one call, except the ones about
a key that returns under its old id ("replace"). A retried request needs a key that failed, one
that serves and one it never reaches ("alone"), and two requests need one slot to
meet ("contention"). `RetryBudget`, `TotalBudget` and `Horizon` make each deadline
fall before, on and after the others. In KeySync keys do not interact, so one is
enough; `SyncHorizon` outlives one cooldown, and the whole cast runs only before
the first cooldown is over, since a cooldown that is over is one the health check
may clear. In ExitPool every limit is the smallest that has a step before it
(`FailureLimit = 2`) or after it (`MaxEjections = 1`), and `ProxyTTL = 2` leaves
room for a grace period; an isolation of two (`BaseWindow`) lasts as long as a TTL,
so that a fetch may refresh an isolated exit, or bring it back after it expired.
The provider names both exits each time (`Lists`), and which of them is found to
work is open. One request at a time carries failures, but its exit may
be merged, aged or removed before it reports. In "contention" all requests that
have begun are of one kind and one client leaves at most, which still lets the
windows of two requests close between look and grant. A cache of one transport
for two sessions makes every installation an eviction. `Deadline`, `Window`,
`StateLifetime` and `GateDeadline` let one window pass while another is open; a
table of three states for three logins, two per login, makes the limiter forget;
`SpentBefore` lets a key be new or have used its budget up.
A body unit is what the checks tell apart, and three bodies of up to three units
against four (`MaxInFlight`) make each of reserve, extend, trim and reconcile fail
and succeed. `MostEvents` and `MostDeltas` of three hold a beginning, a middle and
an end, and two calls interleaved with text. A buffer of two for three records
drops, fills and drains. `MostWrites`, `LastSecond`, `MostPatches` and
`MostBatches` bound writers and clock in the catalogue; four writes are a test's
two transactions and two of others, and both fall into one clock reading or not.
ModelHealth has one model in the catalogue at a time, one that needs a key or one
that does not, because models do not share anything but the batch's key. In
`live` a worker's end is looked at once the stop waits for it, and the table
changes only while a batch is written: earlier changes cannot be told apart.

`MCKeyPool`'s views forget the arguments of calls that are over. The symmetry sets
permute values that no constant and no definition tells apart; where two parts of
an MC module use the same model values for their own sets, the parts never meet.
Neither views nor symmetry are used for liveness. KeyPool's safety runs and
`pool_live` check for deadlock. The composed runs switch that check off because
their parts really stop: a finite set of requests, jobs, records or streams ends,
and bounded clocks and bounded writes run out; that they do not stop too early is
what `EverythingEnds` is about.

**Fairness.** `pool_live`: the holder of the mutex runs on; a caller whose channel
is ready or whose timer has fired continues; a caller that keeps waiting for the
mutex gets it, which is strong fairness of the lock and what `sync.Mutex`
guarantees through its starvation mode. Nobody is assumed to call `Acquire`, to
cancel or to release a lease it holds.

`live` states its fairness per part, in `MCLive`:

* `RequestFairness`: the goroutine of a request runs on, and every wait in it ends
  because the queue wait has a timer, the upstream call a first-byte and an idle
  timeout, and the backoff a timer; the clock advances.
* `SettingsFairness`: fetches, validations and statements have timeouts; locks go
  to whoever waited longest (a waiting writer stops new readers of an `RWMutex`).
* `StreamFairness`: the handler goes on and its timers fire. A flush that the
  client interrupts with pauses returns again and again (strong); nothing makes
  the upstream speak or the client read or close. The first token has a deadline,
  and so has all of a call to the free gateway.
* `StopFairness`: the goroutines go on, the drain's timer runs, and a worker that
  was told to stop does. A `select` does not pass over a ready channel for ever
  (strong). The server's deadline comes. Nothing makes the table come back, or the
  signal come.
* `JobsFairness`: the goroutines run, and a test ends if it has a deadline or if its
  job is canceled. The audio and free-gateway tests have one
  (`modelVerificationTimeoutFor`). The test of an NVIDIA chat model has none: its
  context is the job's, the transport bounds the response header only, and
  `readProbeChat` reads the whole body (`service_probe.go:57-104`, 390,
  `model_test_jobs.go:181`). `JobsEnd` is conditional on such an answer not being
  withheld for ever (`Withheld`).

### Where code and comments disagree

Three disagreements have a run; `PROJECT.json` quotes the lines.

* `FailoverQueuesForFreshKey`: a failover request queues behind a busy key that
  it may never use again, where the comment says that it fails fast.
* `TruncationIsNoSuccess`: a Responses stream that ends before `[DONE]` is told
  `response.failed`, but the `[DONE]` the converter then writes itself marks the
  body complete, and closing it credits the exit.
* `RowStaysPatchable`: a patch that takes tools support away stores the flag
  without the status that goes with it; every later patch that leaves
  `supports_tools` out is refused. A patch that names it resets the status in memory
  and is accepted, and makes the row consistent again if it gives the flag the value
  the stored status asks for.

These were met while modelling; the models behave as the code does, and no run
checks them:

* `queue_timeout` is told to a request that slept out a long Retry-After and never
  stood in the queue (`internal/router/attempt.go:344`, comments 175-176 and 345);
  a 401 or 403 ends a request on its first key, where the comments at 218-220 and
  249-250 call it retryable.
* A request whose own calls left the model blocked everywhere, or every other key
  over its requests per minute, is told `model_not_available` or
  `nvidia_key_rate_limited` and not its last fault (`attempt.go:573-576`), where the
  comment at 569-572 has every exhausted pool show the fault.
* The window of a request is looked at before the pool's mutex is taken and not
  again (`queue.go:115-130`), so a call may begin after its retry window.
* A key that was left for a status only the operator's list covers (a 404, a 501,
  the 502 of an unexpected response: `classifier.go:92`, 116) gets no cooldown
  (`cooldown.go:39-52`), and the next request may take it at once.
* An exit whose TTL ends while it is isolated comes back with the next fetch as an
  exit without a past (`xkproxy/pool.go:503-506`), where the comment at 535-539 says
  that success is what clears the isolation.
* `ForceFlush` returns nil when the flusher has stopped (`buffer.go:257-268`), also
  when the drain ran out of time and records were lost; its comment (241-245) says
  that they stay buffered until the drain writes them, and that it returns nil when
  its context is cancelled, where it returns the context's error.
* The stop waits neither for the free gateway's synchronisation nor for the
  capability probe, nor for handlers that the deadline cut off (`server.go:177-179`)
  or that were running when the listener failed (155, 176): they may find the
  database closed.
* `idle.go:10-13` and `httpapi/v1/chat.go:393` and 412-416 say that nothing more can
  be written to a client whose stream was committed; `chat.go:421` writes the error
  event.
* A success committed after a younger 401 clears `auth_invalid`
  (`internal/nvidiakey/repository.go:368`, comments 303-305); a test or import
  re-inserts a key another administrator deleted in between
  (`internal/httpapi/admin/nvidia_keys.go:165`); a block is applied to memory
  after the unblock that was committed later (`pool.go:277`).
* `ParseMultipart` turns an exhausted body budget into `400 invalid_audio`
  (`internal/protocol/audio/transcriptions.go:65-73`, comment
  `bodybudget.go:279-282`).
* A probe reads the row's revision outside the transaction that writes it
  (`internal/modelcatalog/probe_repository.go:15-46`) and may set it back: a manual
  test that loaded the row in between is then accepted although an administrator
  patched the row since. A patch of `supports_tools` takes the flag from under a
  verdict that stays in the row. A block recorded during a manual test is erased by
  its success; a synchronisation disables a model that
  was changed after it was listed.
* The outcome "timeout" of a health probe is practically never recorded, and the
  status 408 that `readProbeChat` treats as a refusal cannot reach it.
* A call without arguments has `""` in a streamed Responses answer and `{}` in a
  whole one.
* The limit on test jobs counts jobs by status; the goroutines of a cancelled job
  that is still inside a test are not counted.

`PoolFollowsTable` says how far the merge rules of `ApplyFailure` and
`SetKeyEnabled` do protect the pool: with one administrator at a time, and for
cooldowns with one request per key and no concurrent test.

## 4. What TLAPS proves

A theorem speaks of every value of the constants: any number of keys, callers,
requests, exits, records, models and workers, any limit and any clock. Two kinds
of bound disappear with it: the sizes of the sets, and the caps on counters
(`MaxChanges`, `Horizon`, `MostWrites`, ...), which may be any number there.

| Module | Theorem | States | Inductive invariant |
|---|---|---|---|
| `KeyPoolProofs` | `TypeCorrect` | `Spec => []TypeOK` | `Inv` (`Inductive`) |
| | `SlotsSafe` | `Spec => []SlotsMatchLeases` | |
| | `LeasesKept` | `Spec => []NoLeaseLeaked` | |
| | `ChannelsSafe` | `Spec => []AnsweredOnce` | |
| | `QueueFIFO` | `Spec => []QueueKeepsArrivalOrder` | |
| | `FailoverSafe` | `Spec => []NoReuseOfAttempted` | |
| `KeyPoolTableProofs` | `WakeupsKept` | `Spec => []NoLostWakeup` | `PoolInv` (`PoolInductive`) |
| | `RotationSafe` | `Spec => RotationIsSound` | `RotationInv` |
| | `PoolImplementsTable` | `Spec => ImplementsLeaseTable` | `Inv` |
| `AttemptProofs` | `AttemptCallsOnLeases` | `AttemptSpec => []CallsOnLeases` | `AttemptInv` (`AttemptInductive`) |
| | `AttemptOutcomesTrue` | `AttemptSpec => []OutcomesAreTrue` | |
| | `AttemptWindowKept` | `AttemptSpec => []LateCallIsLast` | |
| `KeyProofs` | `KeysFollowTable` | `SyncSpec => [](SyncTypeOK /\ SameKeys /\ SwitchKept)`, with one administrator | `SyncInv` (`SyncInductive`) |
| | `PoolFollows` | `Spec => []PoolFollowsTable`, with one administrator and one client | `KeysInv` (`KeysInductive`) |
| | `LadderAlwaysClimbs` | `LadderSpec => LadderClimbs` | `LadderInv` (`LadderInductive`) |
| | `LadderBlameIsJust` | `LadderSpec => BlameIsJust` | |
| | `MatcherExact` | `MatcherSpec => []MatcherIsExact` | `MatcherInv` |
| `ExitProofs` | `ExitsCurrent` | `ExitSpec => []ExitsAreCurrent` | `ExitInv` (`ExitInductive`) |
| | `IsolationEarned` | `ExitSpec => IsolationIsEarned` | |
| | `SettingsManagersSound` | `SettingsSpec => []ManagersAreSound` | `SettingsInv` (`SettingsInductive`) |
| | `CallSentOnce` | `CallSpec => []SentOnce` | `CallInv` (`CallInductive`) |
| | `CallSuccessEarned` | `CallSpec => []SuccessIsEarned` | |
| | `TransportsHold` | `TransportsSpec => TransportsAreSound` | `TransportsInv` |
| `AccessProofs` | `AccessPolicyHolds` | `AccessSpec => []PolicyHolds` | `AccessInv` (`AccessInductive`) |
| | `AccessSpendKept` | `AccessSpec => SpendNeverRefunded` | |
| | `AdminSessionsFollow` | `AdminSpec => []SessionsFollowPassword` | `AdminInv` (`AdminInductive`) |
| | `LoginsLimited` | `LimiterSpec => LoginsAreLimited` | `GateInv` (`LimiterInductive`) |
| `StreamProofs` | `GateCallsSingle` | `GateSpec => []CallsAreSingle` | `GateInv` (`GateInductive`) |
| | `RecordsKept` | `StopSpec => []RecordsAreKept` | `RecordInv` (`RecordInductive`) |
| | `BodyBudgetKept` | `BodySpec => []BudgetIsKept` | `BodyInv` (`BodyInductive`) |
| | `ChatEndTold` | `StreamSpec => []EndIsTold` | `ChatInv` (`ChatInductive`) |
| | `ChatRelayedInOrder` | `StreamSpec => []RelayedInOrder` | `RelayInv` |
| | `ResponseTold` | `ResponseSpec => []TerminalIsRight` | `ResponseInv` |
| | `StreamedAsNotStreamed` | `ResponseSpec => []SameAsNotStreamed` | `HeardInv` |
| `CatalogProofs` | `ProbesFair` | `ProbeSpec => ProbesAreFair` | `ProbeInv` (`ProbeInductive`) |
| | `CatalogVerified` | `CatalogSpec => VerificationHolds` | `CatalogInv` (`CatalogInductive`) |
| | `HealthTrue` | `HealthSpec => []HealthIsTrue` | `HealthInv` (`HealthInductive`) |
| | `JobsTrue` | `JobsSpec => []JobsAreTrue` | `JobsInv` (`JobsInductive`) |
| | `JobsOverFinal` | `JobsSpec => OverIsFinal` | |

`KeyPool` has its specification `Spec`; `PoolFollows` is about the `Spec` of
`MCKeys`, which the run checks. The other specifications are the component's own
`...Init` and `...Next`, without fairness, which safety does not need. Each
inductive invariant was checked by TLC on the run's instance before it was proved.

### Why the properties are not inductive alone

* **The pool.** `Inv` adds three conjuncts to the properties. `Rotated` describes
  the queue in the middle of a pass: the waiters still to be visited stand in
  front, the rotated ones behind them, each group in arrival order; when nothing is
  left to visit this is `QueueKeepsArrivalOrder`. `LockAndChannels` says who holds
  the mutex and who may have an answer; without it a receive could find a channel
  of a caller that is not waiting. `LiveKeysPooled` says that a lease that was not
  orphaned is on a pooled key; without it, releasing a lease could free a slot of a
  key re-inserted under the same id. The counters need `SlotsMatchLeases` for their
  types (a decrement stays a natural number because a holder exists), so type
  correctness is proved together with it.
* **No lost wake-up.** `PoolInv` adds that only an open pool dispatches and
  `VisitedAreStuck`: in a pass that no clock step disturbed, nobody whom the pass
  has left behind can be served. A grant keeps that, because it only takes room
  (`GrantTakesRoom`); an operation that makes room starts a pass over everybody.
* **The refinement.** `PoolImplementsTable` takes the steps of KeyPool one by one:
  a grant, at entry or by a dispatch, is a grant of LeaseTable on a usable pair with
  room; leaving by any of the errors is a refusal; the passage through the queue, a
  receive and the rotation are stutters.
* **The retry loop.** `AttemptInv` says for every request what the place in `Run` implies:
  it holds a lease exactly in the places that use one (`LeaseIsOwn`), the keys it
  has attempted count its calls, with room for one more wherever a key may be asked
  for (`CallsAreCounted`), what it has been told fits (`OutcomeFits`), the key
  of a failed call is blamed before its cooldown is stored (`BlameComesFirst`), who
  asks again remembers the fault (`FaultIsKept`), and the window of a late call is
  over, so that nobody who may ask again has made one (`LateEndsLoop`).
  `CountsBalance` relates the pool's counters to all requests at once.
* **Table and pool.** `SyncInv` says of each worker that what it is about to apply
  agrees with the table on the switch, and of each key that a difference between
  table and memory is owed by a worker that is about to remove it. `CalmInv` is the
  same for cooldowns, where nobody tests keys.
* **The ladder.** The rung a key stands on is the longest wait of its level at most
  (`LadderInv`); the next level's shortest wait, jitter included, is longer.
* **The failover list.** The list in use is the one built from the saved tokens
  (`MatcherInv`), so the property is about every list of tokens. Sorting keeps the
  ranges and puts them in order, by induction on the number of ranges inserted.
  Merging keeps the covered codes and leaves gaps between neighbours, again by
  induction. In a sorted list with gaps the first range that ends at or after a
  status is the only one that can contain it, which makes the binary search exact.
* **Exits.** The age of an exit and what it has left add up to two TTLs at most:
  the reason why grace periods do not add up. An exit in the pool is isolated for what
  it owes, or has no past (`DebtIsKept`). For managers: the switcher is on
  exactly while it has an open manager, which everybody inside uses; an update's
  manager is its own until it is applied, and afterwards it is in use or somebody
  is about to close it (`NoneIsForgotten`). For a call: an attempt that is over was
  not written (`EarlierAreSpent`), and what the last exit was told follows from the
  body's state (`LastIsJudged`). For the cache of transports: a cached transport
  dials the exit it is filed under, and so does what a request holds
  (`EntriesAreBuilt`, `HandlesAreBuilt`); a request about to install had its
  transport dial the exit it selected (`SelectionsAreDialled`), however long ago that
  was; a closed manager has an empty cache, whoever comes back late.
* **Access.** A request that read the row before it changed took its clock reading
  before the change (`ReadingsArePast`), which bounds the life of a stale identity
  that is stored late. The table's spent budget is behind the bucket's, the one
  writer's value lies between them, and an unseeded bucket is seeded from a count
  that is the table's own (`SpendIsBehind`). For sessions: the flag is believed to
  be down only when it is, and its reader holds the lock over read and store
  (`FlagIsSound`). For the login limiter: the table has one entry per key, in order
  of last use and within its bound (`TableOK`), an address whose guesses were
  counted is known to it, and the recorded attempts of an address cover its guesses
  of the last window (`Covers`). An entry that is dropped for its age has no guess
  in the window, because a window is not longer than an entry's life.
* **Streams.** A free-gateway attempt knows whether its call was written, and one
  body is open while it is looked at. Records: stored, gathered and channel together
  hold every accepted record once (`OnePlace`); nobody records once the flusher drains
  (`StopIsLast`); what a flush promised is in the flusher's hands (`FlushesAreSound`).
  Once the server is done no handler runs, unless it gave them up or never had a
  listener, and the workers stop in order (`ClosedInOrder`). Chat: the answer is open until the end
  marker goes out, and what the handler has learnt is what the client was sent. The
  number of data events written is the number of data events among those read
  (`RelayInv`), so that the next one written is the next one owed.
* **Request bodies.** `BytesAreRight` says what a lease is worth at each stage of its
  life: nothing, the length that was announced, or what has been read with the
  window that was reserved ahead. `SwapIsRight`: whoever is about to swap the counter
  has seen a value that leaves room, so that a swap that succeeds keeps the limit.
  The counter is then the number of bytes under lease, a cardinality which each
  operation changes by as much as it changes its own request's lease.
* **Responses.** Before the end, what the client was sent accounts for what the state
  has announced, once each and in order (`Account`), and the output indexes below
  the next one each belong to the message, the reasoning or exactly one call
  (`ConvOK`); closing then closes each of them once, and the terminal event lists
  them. `HeardInv` adds that the state is what the deltas heard so far add up to: the
  length of the text and of the reasoning, and for each call its name and arguments.
  The conversion of the whole answer reads the same sums off the sequence at once.
* **Catalogue.** A manual test that is under way has the row it loaded, or the row
  is another one or of a later revision, or a probe has set the revision back since
  (`TestIsTracked`; `setBack` is history). Health: the
  loop's copy is the stored row unless a wake-up is on its way (`CopyIsCurrent`), a
  batch without a key has models that need none or has seen a time without one
  (`KeysAreKnown`), and the run of failures of a model reaches back to its latest
  probe that did not fail
  (`HistoryIsKept`). Jobs: where each model's result stands follows from the
  runner's next index and the workers' hands (`ResultsAreTracked`).

A proof has one step per action of the next-state relation and below it one per
conjunct that the action can disturb. What the operators of a model make of a
record, and facts on sequences and cardinalities, are lemmas of their own.

### What the proofs assume

Each assumption is an `ASSUME` of the component's module, which TLC evaluates on
every run, or a hypothesis of the theorem.

* Sets whose members are counted are finite (keys, callers, requests), key ids are
  naturals, names that stand for nothing ("no key", "gone", "nobody") are none of
  the values they stand beside, and bounds and limits are natural numbers.
* Limits that the code normalises are positive: `normalized` and
  `validPoolSettings` for the exits (with a longest window not below the base
  window), `NewBufferRecorder` for the batch size, the validation of the
  configuration for slots, attempts and budgets.
* What comes from outside has the form that the code's own parsing leaves: the
  upstream's Retry-After is never negative (`ParseRetryAfter` calls a negative
  number malformed), an event of a stream is one of the kinds that are told apart,
  a patch has the fields of `type Patch` (`internal/modelcatalog/model.go:148-171`:
  neither the id, the revision, the tools status nor the verification), a policy has limits that are
  natural numbers.
* `KeyLadder`: jitter is within `applyJitter`'s range, and a moment within a second
  is 0 to 999 milliseconds; the failover list holds error statuses
  (`matcher.go:108`, 115). `KeySync`: requests, administrators and probes are
  different workers, and among the cooldowns there is a longest one, as the
  ladder's caps guarantee.
* `FailoverMatcher`: the built-in default list parses. `MustFailoverMatcher` panics
  at start-up when it does not.
* `LoginGate`: an entry lives at least as long as a window, and the table has room
  for one (`ratelimit.go:13-17`). `RequestBody`: the read window and the reserve of a chunked
  body are positive, and a length is a natural number or -1, as `Content-Length` is.
  `ExitTransports`: the bound of the cache is a natural number.
* `OneAdministrator` (`KeysFollowTable`, `PoolFollows`) and `OneClient`
  (`PoolFollows`) are hypotheses and not facts about the code. They are as far as
  the code's protection goes: with two administrators a test re-inserts a key that
  was deleted in between, and with two requests on one key the older result may be
  applied last; section 3 lists both. The number of keys, probes and restarts stays
  free, and so does the number of requests in `KeysFollowTable`.

### Only model-checked

* `WaitingEnds` and `EverythingEnds`: liveness under fairness rests on ENABLED,
  which the installed provers do not handle.
* The three properties that are violated.

The library's theorems on induction take an operator as a parameter, which the
provers cannot instantiate. The proofs that need an induction (over a list, a
sequence of events, a sum) take it from the order of the natural numbers instead:
the set of the lengths at which a fact fails has a least element if it is not empty
(`WFMin` with `NatLessThanWellFounded`), and that element is refuted. This reaches
functions that are defined recursively on the naturals. Operators that the modules
of sequences define by recursion (`SelectSeq`, `FlattenSeq`, `SortSeq`) stay closed to
the provers. The models therefore say which positions of a sequence stay, and build
the result as a function of these.

## 5. Not modelled

* Data that no property tells apart: latency averages, weights and quality scores;
  the wording of error bodies (whether one names a credential error is an input);
  byte-level framing of events; hashing, encryption and masking.
* Pure rewriting of JSON without state: `compat`, `protocol/responses/request.go`,
  most of `protocol/chat`, `embeddings` and `audio`, the decoding halves of the
  handlers. Table tests reach them.
* Statistics queries, retention, audit rows, middleware, metrics, the web
  interface, scripts, start-up and the parsing of the configuration: SQL, I/O and
  rendering without an order of events to get wrong.
* The event hub (it drops events for slow subscribers by design, and a full
  subscriber is not told what it missed), the embedding cache (one LRU list under
  one mutex), the process lock (one `flock`), and the runtime settings, whose
  versioned update has the shape of the proxy settings.
* The sticky bindings of the proxy pool, which no caller uses.
* Not yet: master key rotation and migrations, with a crash in between.

## 6. Plan

* Rotation of the master key over every encrypted row with a crash between two of
  them, and migrations applied once and in order.
* `PoolFollowsTable` with several requests on one key, once the code orders the
  application of results by the revision of the row; today the property is false.

------------------------------ MODULE KeyPool ------------------------------
(***************************************************************************)
(* The in-memory credential scheduler of internal/pool: per-key slots and  *)
(* request windows, the round-robin scan, the bounded FIFO queue of        *)
(* waiting requests and the operations of StateSync that change what the   *)
(* scan sees.                                                              *)
(*                                                                         *)
(* Pool.mu is modelled by `stage': an operation that takes the lock starts *)
(* from "free", applies its own change and leaves the lock in "pass", the  *)
(* dispatch loop of dispatchWaitersLocked, whose iterations are steps of   *)
(* their own because contexts can end and the clock can move between two   *)
(* of them. Nobody else gets the lock until the loop is over. Callers that *)
(* wait for their result channel, or give up, do so without the lock.      *)
(*                                                                         *)
(* Time is abstract: a cooldown is a flag that CooldownExpires lowers, and *)
(* the sliding window of a key is the number of requests still inside it.  *)
(***************************************************************************)
EXTENDS Integers, Sequences, FiniteSets, SequencesExt

CONSTANTS
  Keys,          \* NVIDIA key ids, ordered as the integers they are
  Models,        \* model ids
  Callers,       \* goroutines that call Acquire
  Requests,      \* the calls they may make: see Request
  Capacity,      \* settings.capacity, the bound of the wait queue
  MaxStreaming,  \* settings.maxStreamingPerKey
  RequestLimit,  \* keyRequestLimit
  Snapshots,     \* the key snapshots that the database may hand over
  MaxChanges,    \* bound on the number of StateSync operations
  NoLease,       \* a nil Lease
  NoCaller       \* the lock holder is not in Acquire

Request == [model : Models, attempted : SUBSET Keys, stream : BOOLEAN,
            noRelax : BOOLEAN, latency : BOOLEAN]

Lease == [key : Keys, stream : BOOLEAN, live : BOOLEAN]

Snapshot == [enabled : BOOLEAN, authInvalid : BOOLEAN, cooling : BOOLEAN]

ASSUME KeysAssumption == Keys \subseteq Nat /\ IsFiniteSet(Keys)
ASSUME CallersAssumption == IsFiniteSet(Callers) /\ NoCaller \notin Callers
ASSUME RequestsAssumption == Requests \subseteq Request
ASSUME SnapshotsAssumption == Snapshots \subseteq Snapshot
ASSUME BoundsAssumption ==
  /\ Capacity \in Nat \ {0}
  /\ MaxStreaming \in Nat \ {0}
  /\ RequestLimit \in Nat \ {0}
  /\ MaxChanges \in Nat
ASSUME NoLeaseAssumption == NoLease \notin Lease

VARIABLES
  keys,       \* the ids in p.keys
  key,        \* id -> keyState; meaningful for the ids in keys
  off,        \* models known to be disabled in p.models
  order,      \* p.order
  cursor,     \* p.cursor, an index from 0
  waiters,    \* p.waiters, front first
  closed,     \* p.closed
  stage,      \* what the holder of p.mu is doing
  left,       \* `remaining' of the dispatch loop
  owner,      \* the caller in whose Acquire the lock is held, or NoCaller
  pc,         \* where each caller is
  req,        \* the arguments of its current Acquire
  cancelled,  \* its ctx.Err() # nil
  result,     \* the content of its result channel
  lease,      \* the lease granted to it and not yet released
  arrivals,   \* history: the queued callers in the order they were pushed
  ticked,     \* history: the clock moved since the last dispatch began
  changes     \* StateSync operations counted against MaxChanges

poolVars == <<keys, key, off, order, cursor, closed>>
lockVars == <<stage, left, owner>>
callVars == <<pc, req, cancelled, result, lease>>
vars == <<poolVars, lockVars, callVars, waiters, arrivals, ticked, changes>>

----------------------------------------------------------------------------
(* What tryAcquireLocked sees of a key.                                    *)

KeyState == [snapshot : Snapshot, blocks : SUBSET Models, busy : BOOLEAN,
             streams : 0..MaxStreaming, used : 0..RequestLimit]

newKeyState(snap) ==
  [snapshot |-> snap, blocks |-> {}, busy |-> FALSE, streams |-> 0, used |-> 0]

Enabled(k) == key[k].snapshot.enabled /\ ~key[k].snapshot.authInvalid
Unblocked(k, m) == Enabled(k) /\ m \notin key[k].blocks
Ready(k, m) == Unblocked(k, m) /\ ~key[k].snapshot.cooling
RateLimited(k) == key[k].used >= RequestLimit

\* Slip: one stream too many.
SaturatedOffByOne(k, stream) ==
  IF stream THEN key[k].streams > MaxStreaming ELSE key[k].busy

Saturated(k, stream) ==
  IF stream THEN key[k].streams >= MaxStreaming ELSE key[k].busy

\* The ready keys that one scan considers; a relaxed scan ignores attempted.
Considered(q, relaxed) ==
  {k \in keys : Ready(k, q.model) /\ (relaxed \/ k \notin q.attempted)}

Eligible(q, relaxed) ==
  {k \in Considered(q, relaxed) : ~RateLimited(k) /\ ~Saturated(k, q.stream)}

CanServe(q, relaxed) == q.model \notin off /\ Eligible(q, relaxed) # {}

\* Why tryAcquireLocked returned no lease.
Unavailable(q, relaxed) ==
  LET RateLimitedOnly ==
        /\ \E k \in Considered(q, relaxed) : RateLimited(k)
        /\ ~ \E k \in Considered(q, relaxed) : ~RateLimited(k) /\ Saturated(k, q.stream)
  IN  IF q.model \in off                              THEN "model_blocked"
      ELSE IF ~ \E k \in keys : Enabled(k)            THEN "disabled"
      ELSE IF ~ \E k \in keys : Unblocked(k, q.model) THEN "model_blocked"
      ELSE IF ~ \E k \in keys : Ready(k, q.model)     THEN "cooling"
      ELSE IF RateLimitedOnly                         THEN "rate_limited"
      ELSE "busy"

\* hasUnattemptedEligibleLocked and hasBusyAttemptedEligibleLocked.
HasUnattempted(q) ==
  \E k \in keys : Ready(k, q.model) /\ k \notin q.attempted

HasBusyAttempted(q) ==
  \E k \in keys : /\ Ready(k, q.model)
                  /\ k \in q.attempted
                  /\ Saturated(k, q.stream)

----------------------------------------------------------------------------
(* The scan and what it reserves.                                          *)

\* The position in order, from 0, of the offset-th key of the scan.
ScanIndex(offset) == (cursor + offset) % Len(order)

\* The scan stops at index: the first eligible key in rotation order or, with
\* latency routing, any eligible one (every candidate has a positive weight).
Picks(q, relaxed, index) ==
  \E offset \in 0..(Len(order) - 1) :
    /\ index = ScanIndex(offset)
    /\ order[index + 1] \in Eligible(q, relaxed)
    /\ \/ q.latency
       \/ \A earlier \in 0..(offset - 1) :
            order[ScanIndex(earlier) + 1] \notin Eligible(q, relaxed)

\* reserveRequest and the slot that the lease takes.
Reserve(state, stream) ==
  IF stream
  THEN [state EXCEPT !.used = state.used + 1, !.streams = state.streams + 1]
  ELSE [state EXCEPT !.used = state.used + 1, !.busy = TRUE]

\* A lease for caller c on a key that the scan picks; the cursor moves past it.
Grant(c, q, relaxed) ==
  /\ CanServe(q, relaxed)
  /\ \E index \in 0..(Len(order) - 1) :
       /\ Picks(q, relaxed, index)
       /\ LET k == order[index + 1] IN
            /\ key' = [key EXCEPT ![k] = Reserve(key[k], q.stream)]
            /\ lease' = [lease EXCEPT ![c] =
                 [key |-> k, stream |-> q.stream, live |-> TRUE]]
       /\ cursor' = (index + 1) % Len(order)
  /\ UNCHANGED <<keys, off, order, closed>>

----------------------------------------------------------------------------
(* The dispatch loop.                                                      *)

\* Slip: the pass stops before the last waiter.
DispatchShort ==
  /\ stage' = IF closed THEN "free" ELSE "pass"
  /\ left' = IF closed \/ waiters' = << >> THEN 0 ELSE Len(waiters') - 1
  /\ ticked' = FALSE
  /\ owner' = NoCaller

\* What every operation does last: dispatchWaitersLocked, then unlock. A
\* closed pool does not dispatch.
Dispatch ==
  /\ stage' = IF closed THEN "free" ELSE "pass"
  /\ left' = IF closed THEN 0 ELSE Len(waiters')
  /\ ticked' = FALSE
  /\ owner' = NoCaller

\* waitQueue.remove.
Drop(s, c) == RemoveAt(s, CHOOSE i \in DOMAIN s : s[i] = c)

\* Take w, at the front of the queue, off it and answer it.
Deliver(w, answer) ==
  /\ result' = [result EXCEPT ![w] = answer]
  /\ waiters' = Tail(waiters)
  /\ arrivals' = Drop(arrivals, w)

InPass ==
  /\ stage \in {"entry", "pass"}
  /\ left > 0
  /\ waiters # << >>
  /\ left' = left - 1
  /\ UNCHANGED <<stage, owner, pc, req, cancelled, ticked, changes>>

PassCancelled ==
  /\ InPass
  /\ cancelled[Head(waiters)]
  /\ Deliver(Head(waiters), "cancelled")
  /\ UNCHANGED <<poolVars, lease>>

PassServe ==
  /\ InPass
  /\ LET w == Head(waiters) IN
       /\ ~cancelled[w]
       /\ Grant(w, req[w], FALSE)
       /\ Deliver(w, "lease")

PassRotate ==
  /\ InPass
  /\ LET w == Head(waiters) IN
       /\ ~cancelled[w]
       /\ ~CanServe(req[w], FALSE)
       /\ Unavailable(req[w], FALSE) = "busy"
       /\ waiters' = Append(Tail(waiters), w)
  /\ UNCHANGED <<poolVars, result, lease, arrivals>>

PassFail ==
  /\ InPass
  /\ LET w == Head(waiters) IN
       /\ ~cancelled[w]
       /\ ~CanServe(req[w], FALSE)
       /\ Unavailable(req[w], FALSE) # "busy"
       /\ Deliver(w, Unavailable(req[w], FALSE))
  /\ UNCHANGED <<poolVars, lease>>

\* The loop is over: acquire goes on to try for itself, everyone else unlocks.
PassEnds ==
  /\ stage \in {"entry", "pass"}
  /\ left = 0
  /\ stage' = IF stage = "entry" THEN "try" ELSE "free"
  /\ owner' = IF stage = "entry" THEN owner ELSE NoCaller
  /\ UNCHANGED <<left, pc, req, cancelled, ticked, changes>>

\* Slip: the request's opt-out is not consulted.
MayRelaxAlways ==
  /\ waiters # << >>
  /\ Eligible(req[Head(waiters)], FALSE) = {}

\* The head waiter may reuse an idle key it has already attempted, unless its
\* context forbids it or an unattempted key is idle.
MayRelax ==
  /\ waiters # << >>
  /\ ~req[Head(waiters)].noRelax
  /\ Eligible(req[Head(waiters)], FALSE) = {}

RelaxServe ==
  /\ PassEnds
  /\ MayRelax
  /\ Grant(Head(waiters), req[Head(waiters)], TRUE)
  /\ Deliver(Head(waiters), "lease")

RelaxFail ==
  /\ PassEnds
  /\ MayRelax
  /\ LET q == req[Head(waiters)] IN
       /\ ~CanServe(q, TRUE)
       /\ Unavailable(q, TRUE) # "busy"
       /\ Deliver(Head(waiters), Unavailable(q, TRUE))
  /\ UNCHANGED <<poolVars, lease>>

NoRelax ==
  /\ PassEnds
  /\ MayRelax => LET q == req[Head(waiters)] IN
                   ~CanServe(q, TRUE) /\ Unavailable(q, TRUE) = "busy"
  /\ UNCHANGED <<poolVars, result, lease, waiters, arrivals>>

----------------------------------------------------------------------------
(* Acquire.                                                                *)

\* A closed pool answers server_shutting_down and changes nothing.
AcquireClosed(c) ==
  /\ stage = "free" /\ closed
  /\ pc[c] = "idle"
  /\ UNCHANGED vars

\* Entry: the lock, the closed check and the first dispatch.
AcquireEnter(c) ==
  /\ stage = "free" /\ ~closed
  /\ pc[c] = "idle"
  /\ \E q \in Requests : req' = [req EXCEPT ![c] = q]
  /\ pc' = [pc EXCEPT ![c] = "acquiring"]
  /\ cancelled' = [cancelled EXCEPT ![c] = FALSE]
  /\ stage' = "entry" /\ left' = Len(waiters) /\ owner' = c
  /\ ticked' = FALSE
  /\ UNCHANGED <<poolVars, result, lease, waiters, arrivals, changes>>

Unlock(c, where) ==
  /\ stage' = "free" /\ owner' = NoCaller
  /\ pc' = [pc EXCEPT ![c] = where]
  /\ UNCHANGED <<left, req, cancelled, result, waiters, arrivals, ticked, changes>>

AcquireNow(c) ==
  /\ stage = "try" /\ owner = c
  /\ waiters = << >>
  /\ Grant(c, req[c], FALSE)
  /\ Unlock(c, "holding")

\* The attempt cannot be served now: a request that finds the queue occupied
\* does not even try.
CannotServe(q) == waiters # << >> \/ ~CanServe(q, FALSE)

\* It then ends in an error for a reason other than busy, for want of a key
\* worth waiting for (both only when the queue was empty), or at a full queue.
MustRefuse(q) ==
  \/ /\ waiters = << >>
     /\ \/ Unavailable(q, FALSE) # "busy"
        \/ ~HasUnattempted(q) /\ ~HasBusyAttempted(q)
  \/ Len(waiters) >= Capacity

AcquireRefused(c) ==
  /\ stage = "try" /\ owner = c
  /\ CannotServe(req[c])
  /\ MustRefuse(req[c])
  /\ Unlock(c, "idle")
  /\ UNCHANGED <<poolVars, lease>>

AcquireEnqueue(c) ==
  /\ stage = "try" /\ owner = c
  /\ CannotServe(req[c])
  /\ ~MustRefuse(req[c])
  /\ waiters' = Append(waiters, c)
  /\ arrivals' = Append(arrivals, c)
  /\ pc' = [pc EXCEPT ![c] = "waiting"]
  /\ stage' = "pass" /\ left' = Len(waiters) + 1
  /\ ticked' = FALSE
  /\ UNCHANGED <<poolVars, owner, req, cancelled, result, lease, changes>>

\* waitForResult: the result channel.
Receive(c) ==
  /\ pc[c] = "waiting" /\ owner # c
  /\ result[c] # "none"
  /\ pc' = [pc EXCEPT ![c] = IF result[c] = "lease" THEN "holding" ELSE "idle"]
  /\ result' = [result EXCEPT ![c] = "none"]
  /\ UNCHANGED <<poolVars, lockVars, req, cancelled, lease, waiters, arrivals,
                 ticked, changes>>

\* waitForResult: ctx.Done() or the queue timer, which the select may choose
\* even when a result is there.
GiveUp(c) ==
  /\ pc[c] = "waiting" /\ owner # c
  /\ pc' = [pc EXCEPT ![c] = "abandoning"]
  /\ UNCHANGED <<poolVars, lockVars, req, cancelled, result, lease, waiters,
                 arrivals, ticked, changes>>

\* abandonWaiter: still queued, or answered in the meantime.
AbandonQueued(c) ==
  /\ stage = "free"
  /\ pc[c] = "abandoning"
  /\ c \in ToSet(waiters)
  /\ waiters' = Drop(waiters, c)
  /\ arrivals' = Drop(arrivals, c)
  /\ pc' = [pc EXCEPT ![c] = "idle"]
  /\ Dispatch
  /\ UNCHANGED <<poolVars, req, cancelled, result, lease, changes>>

\* Slip: wait for a late answer without looking whether the waiter is queued.
AbandonBlindly(c) ==
  /\ stage = "free"
  /\ pc[c] = "abandoning"
  /\ pc' = [pc EXCEPT ![c] = "draining"]
  /\ UNCHANGED <<poolVars, lockVars, req, cancelled, result, lease, waiters,
                 arrivals, ticked, changes>>

AbandonAnswered(c) ==
  /\ stage = "free"
  /\ pc[c] = "abandoning"
  /\ c \notin ToSet(waiters)
  /\ pc' = [pc EXCEPT ![c] = "draining"]
  /\ UNCHANGED <<poolVars, lockVars, req, cancelled, result, lease, waiters,
                 arrivals, ticked, changes>>

\* Slip: the late answer is thrown away, a lease in it included.
DrainAndForget(c) ==
  /\ pc[c] = "draining"
  /\ result[c] # "none"
  /\ pc' = [pc EXCEPT ![c] = "idle"]
  /\ result' = [result EXCEPT ![c] = "none"]
  /\ UNCHANGED <<poolVars, lockVars, req, cancelled, lease, waiters, arrivals,
                 ticked, changes>>

\* abandonWaiter: the late answer; a lease in it has to be given back.
Drain(c) ==
  /\ pc[c] = "draining"
  /\ result[c] # "none"
  /\ pc' = [pc EXCEPT ![c] = IF result[c] = "lease" THEN "releasing" ELSE "idle"]
  /\ result' = [result EXCEPT ![c] = "none"]
  /\ UNCHANGED <<poolVars, lockVars, req, cancelled, lease, waiters, arrivals,
                 ticked, changes>>

\* Slip: a stream gives back the short slot.
VacateShort(state, stream) == [state EXCEPT !.busy = FALSE]

\* The slot that release gives back.
Vacate(state, stream) ==
  IF stream THEN [state EXCEPT !.streams = state.streams - 1]
            ELSE [state EXCEPT !.busy = FALSE]

\* release works on the keyState that the lease captured: once the key has
\* been removed from the pool that is no longer the state the pool schedules.
Release(c) ==
  /\ stage = "free"
  /\ pc[c] \in {"holding", "releasing"}
  /\ key' = IF ~lease[c].live THEN key
            ELSE [key EXCEPT ![lease[c].key] =
                   Vacate(key[lease[c].key], lease[c].stream)]
  /\ lease' = [lease EXCEPT ![c] = NoLease]
  /\ pc' = [pc EXCEPT ![c] = "idle"]
  /\ UNCHANGED <<keys, off, order, cursor, closed, req, cancelled, result,
                 waiters, arrivals, changes>>
  /\ Dispatch

\* The request's context ends: client gone or deadline reached.
Cancel(c) ==
  /\ pc[c] \in {"acquiring", "waiting", "abandoning"}
  /\ ~cancelled[c]
  /\ cancelled' = [cancelled EXCEPT ![c] = TRUE]
  /\ UNCHANGED <<poolVars, lockVars, pc, req, result, lease, waiters, arrivals,
                 ticked, changes>>

\* Slip: the queue is emptied without answering those in it.
ShutdownSilently ==
  /\ stage = "free" /\ ~closed
  /\ closed' = TRUE
  /\ waiters' = << >>
  /\ arrivals' = << >>
  /\ UNCHANGED <<keys, key, off, order, cursor, lockVars, callVars, ticked, changes>>

Shutdown ==
  /\ stage = "free" /\ ~closed
  /\ closed' = TRUE
  /\ result' = [c \in Callers |-> IF c \in ToSet(waiters) THEN "shutting_down"
                                                          ELSE result[c]]
  /\ waiters' = << >>
  /\ arrivals' = << >>
  /\ UNCHANGED <<keys, key, off, order, cursor, lockVars, pc, req, cancelled,
                 lease, ticked, changes>>

----------------------------------------------------------------------------
(* StateSync and the model switches.                                       *)

\* Slip: the change is made without waking the queue.
SyncQuietly ==
  /\ stage = "free"
  /\ changes < MaxChanges /\ changes' = changes + 1
  /\ UNCHANGED <<closed, pc, req, cancelled, result, waiters, arrivals, lockVars, ticked>>

Sync ==
  /\ stage = "free"
  /\ changes < MaxChanges /\ changes' = changes + 1
  /\ UNCHANGED <<closed, pc, req, cancelled, result, waiters, arrivals>>
  /\ Dispatch

SetModelEnabled(m, enabled) ==
  /\ Sync
  /\ off' = IF enabled THEN off \ {m} ELSE off \cup {m}
  /\ UNCHANGED <<keys, key, order, cursor, lease>>

ClearModelBlocks(m) ==
  /\ Sync
  /\ key' = [k \in Keys |-> IF k \in keys
                            THEN [key[k] EXCEPT !.blocks = key[k].blocks \ {m}]
                            ELSE key[k]]
  /\ UNCHANGED <<keys, off, order, cursor, lease>>

\* The position, from 1, at which id has to stand in the sorted order.
SortedPosition(id) == Cardinality({i \in DOMAIN order : order[i] < id}) + 1

UpsertKey(k, snap) ==
  /\ Sync
  /\ IF k \in keys
     THEN /\ key' = [key EXCEPT ![k].snapshot = snap]
          /\ UNCHANGED <<keys, order, cursor>>
     ELSE /\ keys' = keys \cup {k}
          /\ key' = [key EXCEPT ![k] = newKeyState(snap)]
          /\ order' = InsertAt(order, SortedPosition(k), k)
          /\ IF order = << >> THEN cursor' = 0
             ELSE \E i \in DOMAIN order' : /\ order'[i] = order[cursor + 1]
                                          /\ cursor' = i - 1
  /\ UNCHANGED <<off, lease>>

SetKeyEnabled(k, enabled) ==
  /\ Sync
  /\ key' = IF k \in keys THEN [key EXCEPT ![k].snapshot.enabled = enabled] ELSE key
  /\ UNCHANGED <<keys, off, order, cursor, lease>>

\* Slip: leases follow the id instead of the keyState they captured.
OrphanNone(k) == lease' = lease

\* The leases on a removed key keep its old keyState.
Orphan(k) ==
  lease' = [c \in Callers |-> IF lease[c] # NoLease /\ lease[c].key = k
                              THEN [lease[c] EXCEPT !.live = FALSE] ELSE lease[c]]

\* Slip: the cursor is not moved with the keys behind the removed one.
RemoveKeyKeepCursor(k) ==
  /\ Sync
  /\ IF k \notin keys THEN UNCHANGED <<keys, order, cursor, lease>>
     ELSE /\ keys' = keys \ {k}
          /\ Orphan(k)
          /\ \E i \in DOMAIN order :
               /\ order[i] = k
               /\ order' = RemoveAt(order, i)
               /\ cursor' = IF cursor >= Len(order') THEN 0 ELSE cursor
  /\ UNCHANGED <<key, off>>

RemoveKey(k) ==
  /\ Sync
  /\ IF k \notin keys THEN UNCHANGED <<keys, order, cursor, lease>>
     ELSE /\ keys' = keys \ {k}
          /\ Orphan(k)
          /\ \E i \in DOMAIN order :
               /\ order[i] = k
               /\ order' = RemoveAt(order, i)
               /\ LET moved == IF i - 1 < cursor THEN cursor - 1 ELSE cursor
                  IN  cursor' = IF moved >= Len(order') THEN 0 ELSE moved
  /\ UNCHANGED <<key, off>>

ApplySuccess(k) ==
  /\ Sync
  /\ key' = IF k \in keys
            THEN [key EXCEPT ![k].snapshot.authInvalid = FALSE,
                             ![k].snapshot.cooling = FALSE]
            ELSE key
  /\ UNCHANGED <<keys, off, order, cursor, lease>>

\* Only the fields the failure path owns are merged.
ApplyFailure(k, m, authInvalid, cooling, blockModel) ==
  /\ Sync
  /\ key' = IF k \in keys
            THEN [key EXCEPT
                   ![k].snapshot.authInvalid = authInvalid,
                   ![k].snapshot.cooling = cooling,
                   ![k].blocks = key[k].blocks \cup (IF blockModel THEN {m} ELSE {})]
            ELSE key
  /\ UNCHANGED <<keys, off, order, cursor, lease>>

SetModelBlock(k, m, blocked) ==
  /\ Sync
  /\ key' = IF k \in keys
            THEN [key EXCEPT ![k].blocks = IF blocked THEN @ \cup {m} ELSE @ \ {m}]
            ELSE key
  /\ UNCHANGED <<keys, off, order, cursor, lease>>

----------------------------------------------------------------------------
(* The clock.                                                              *)

ClockMoves ==
  /\ ticked' = TRUE
  /\ UNCHANGED <<keys, off, order, cursor, closed, lockVars, callVars, waiters,
                 arrivals, changes>>

CooldownExpires(k) ==
  /\ k \in keys /\ key[k].snapshot.cooling
  /\ key' = [key EXCEPT ![k].snapshot.cooling = FALSE]
  /\ ClockMoves

\* The oldest request of the key leaves its window.
WindowSlides(k) ==
  /\ k \in keys /\ key[k].used > 0
  /\ key' = [key EXCEPT ![k].used = @ - 1]
  /\ ClockMoves

----------------------------------------------------------------------------

\* New and LoadSnapshot: the pool starts with the persisted keys, before any
\* request is served.
Init ==
  /\ keys \in SUBSET Keys
  /\ key \in [Keys -> {newKeyState(snap) : snap \in Snapshots}]
  /\ order \in {s \in [1..Cardinality(keys) -> keys] :
                 \A i, j \in DOMAIN s : i < j => s[i] < s[j]}
  /\ cursor = 0
  /\ off = {} /\ closed = FALSE
  /\ waiters = << >> /\ arrivals = << >>
  /\ stage = "free" /\ left = 0 /\ owner = NoCaller
  /\ pc = [c \in Callers |-> "idle"]
  /\ req \in [Callers -> Requests]
  /\ cancelled = [c \in Callers |-> FALSE]
  /\ result = [c \in Callers |-> "none"]
  /\ lease = [c \in Callers |-> NoLease]
  /\ ticked = FALSE
  /\ changes \in 0..MaxChanges

DispatchStep ==
  PassCancelled \/ PassServe \/ PassRotate \/ PassFail
    \/ RelaxServe \/ RelaxFail \/ NoRelax

TryStep(c) == AcquireNow(c) \/ AcquireRefused(c) \/ AcquireEnqueue(c)

CallerStep(c) ==
  \/ AcquireEnter(c) \/ AcquireClosed(c) \/ TryStep(c)
  \/ Receive(c) \/ GiveUp(c) \/ AbandonQueued(c) \/ AbandonAnswered(c)
  \/ Drain(c) \/ Release(c) \/ Cancel(c)

KeyStep(k) ==
  \/ \E snap \in Snapshots : UpsertKey(k, snap)
  \/ \E enabled \in BOOLEAN : SetKeyEnabled(k, enabled)
  \/ RemoveKey(k)
  \/ ApplySuccess(k)
  \/ \E m \in Models, auth, cool, block \in BOOLEAN :
       ApplyFailure(k, m, auth, cool, block)
  \/ \E m \in Models, blocked \in BOOLEAN : SetModelBlock(k, m, blocked)
  \/ CooldownExpires(k)
  \/ WindowSlides(k)

ModelStep(m) ==
  ClearModelBlocks(m) \/ \E enabled \in BOOLEAN : SetModelEnabled(m, enabled)

Next ==
  \/ DispatchStep
  \/ \E c \in Callers : CallerStep(c)
  \/ \E k \in Keys : KeyStep(k)
  \/ \E m \in Models : ModelStep(m)
  \/ Shutdown

Spec == Init /\ [][Next]_vars

\* The goroutine that holds the lock runs on; a channel receive or a fired
\* timer is taken; sync.RWMutex hands the lock to a writer that keeps waiting
\* for it. Nobody has to call Acquire, cancel, or finish with a lease.
Fairness ==
  /\ WF_vars(DispatchStep)
  /\ \A c \in Callers :
       /\ WF_vars(TryStep(c))
       /\ WF_vars(Receive(c) \/ GiveUp(c))
       /\ SF_vars(AbandonQueued(c) \/ AbandonAnswered(c))
       /\ WF_vars(Drain(c))
       /\ SF_vars(Release(c) /\ pc[c] = "releasing")

FairSpec == Spec /\ Fairness

----------------------------------------------------------------------------

PoolTypeOK ==
  /\ keys \subseteq Keys
  /\ key \in [Keys -> KeyState]
  /\ off \subseteq Models
  /\ order \in Seq(Keys) /\ cursor \in Nat
  /\ closed \in BOOLEAN

Answers == {"lease", "cancelled", "shutting_down", "model_blocked", "disabled",
            "cooling", "rate_limited", "busy"}

QueueTypeOK ==
  /\ waiters \in Seq(Callers) /\ Len(waiters) <= Capacity
  /\ stage \in {"free", "entry", "try", "pass"}
  /\ left \in Nat
  /\ owner \in Callers \cup {NoCaller}
  /\ pc \in [Callers -> {"idle", "acquiring", "waiting", "abandoning",
                         "draining", "releasing", "holding"}]
  /\ req \in [Callers -> Request]
  /\ cancelled \in [Callers -> BOOLEAN]
  /\ result \in [Callers -> Answers \cup {"none"}]
  /\ lease \in [Callers -> Lease \cup {NoLease}]
  /\ arrivals \in Seq(Callers)
  /\ ticked \in BOOLEAN
  /\ changes \in 0..MaxChanges

\* Type correctness of the pool's state; no per-key counter leaves its range and
\* the queue never exceeds its capacity.
TypeOK == PoolTypeOK /\ QueueTypeOK

\* The callers whose unreleased lease occupies the short slot, or a streaming
\* slot, of key k in the pool.
ShortHolders(k) ==
  {c \in Callers : lease[c] # NoLease /\ lease[c].key = k /\ lease[c].live
                     /\ ~lease[c].stream}
StreamHolders(k) ==
  {c \in Callers : lease[c] # NoLease /\ lease[c].key = k /\ lease[c].live
                     /\ lease[c].stream}

\* tryAcquireLocked, release and RemoveKey keep the slots of every pooled key
\* equal to the leases outstanding on it: one short request at most, and as
\* many streams as the counter says. A lost decrement would starve the key, a
\* second one would let it be used beyond its quota.
SlotsMatchLeases ==
  \A k \in keys :
    /\ key[k].busy <=> ShortHolders(k) # {}
    /\ Cardinality(ShortHolders(k)) <= 1
    /\ key[k].streams = Cardinality(StreamHolders(k))

\* Every lease is in the hands of a caller that will release it, or in the
\* channel of one that will find it there: abandonWaiter loses none.
NoLeaseLeaked ==
  \A c \in Callers :
    lease[c] # NoLease <=> pc[c] \in {"holding", "releasing"} \/ result[c] = "lease"

Distinct(s) == \A i, j \in DOMAIN s : i # j => s[i] # s[j]

\* A caller is queued exactly while it waits unanswered, so the send under the
\* lock finds an empty channel, and abandonWaiter's receive finds an answer.
AnsweredOnce ==
  /\ \A c \in Callers :
       /\ c \in ToSet(waiters) <=>
            pc[c] \in {"waiting", "abandoning"} /\ result[c] = "none"
       /\ pc[c] = "draining" => result[c] # "none"
  /\ Distinct(waiters)

\* One dispatch pass rotates each busy waiter once: outside the lock the queue
\* is in arrival order, whatever was served or abandoned in between.
QueueKeepsArrivalOrder == stage = "free" => waiters = arrivals

\* Every operation that could free a key dispatches before it unlocks: no
\* request stays queued while an idle key could serve it, unless the clock has
\* moved since (nothing wakes the queue when a cooldown or a window ends).
NoLostWakeup ==
  stage = "free" /\ ~closed /\ ~ticked =>
    \A i \in DOMAIN waiters : ~CanServe(req[waiters[i]], FALSE)

\* A failover acquire (WithNoAttemptedRelaxation) never gets back a key that
\* the request has already tried, on whichever path the lease reaches it.
NoReuseOfAttempted ==
  \A c \in Callers :
    lease[c] # NoLease /\ req[c].noRelax => lease[c].key \notin req[c].attempted

\* Where in arrival order the i-th of n queued callers stands when l of them
\* are still to be visited.
Place(i, l, n) == IF i <= l THEN i + n - l ELSE i - l

\* The shape of the queue inside a pass: what is still to be visited stands in
\* front, what has been visited and rotated behind it, both in arrival order.
Rotated ==
  /\ Len(arrivals) = Len(waiters)
  /\ left <= Len(waiters)
  /\ stage \in {"free", "try"} => left = 0
  /\ \A i \in DOMAIN waiters :
       waiters[i] = arrivals[Place(i, left, Len(waiters))]

\* Who holds the lock and who has an answer.
LockAndChannels ==
  /\ stage \in {"entry", "try"} => owner \in Callers /\ pc[owner] = "acquiring"
  /\ stage = "free" => owner = NoCaller
  /\ \A c \in Callers :
       /\ result[c] # "none" => pc[c] \in {"waiting", "abandoning", "draining"}
       /\ pc[c] = "acquiring" => owner = c /\ stage \in {"entry", "try"}

\* A lease that has not been orphaned is on a key of the pool.
LiveKeysPooled ==
  \A c \in Callers : lease[c] # NoLease /\ lease[c].live => lease[c].key \in keys

\* The inductive invariant.
Inv ==
  /\ TypeOK /\ SlotsMatchLeases /\ NoLeaseLeaked /\ AnsweredOnce
  /\ Rotated /\ LockAndChannels /\ LiveKeysPooled /\ NoReuseOfAttempted

\* p.order holds exactly the keys of the map, ascending, and the cursor is a
\* valid index: the scan never dereferences a missing key.
OrderIsSortedKeys ==
  /\ ToSet(order) = keys
  /\ \A i, j \in DOMAIN order : i < j => order[i] < order[j]
  /\ IF order = << >> THEN cursor = 0 ELSE cursor < Len(order)

\* Adding or removing a key does not disturb the rotation: the next key in turn
\* stays next unless it is the one removed.
RotationSurvivesResize ==
  [][keys' # keys /\ order # << >> /\ order[cursor + 1] \in keys'
       => order'[cursor' + 1] = order[cursor + 1]]_vars

\* The scan always runs over the pooled keys in ascending order, and no
\* insertion or removal costs a key its turn.
RotationIsSound == []OrderIsSortedKeys /\ RotationSurvivesResize

\* acquire fails fast once every eligible key is already attempted
\* (queue.go:138-139): a failover request queues only for a ready key outside
\* its attempted set.
FailoverQueuesForFreshKey ==
  [][\A c \in Callers :
       pc[c] = "acquiring" /\ pc'[c] = "waiting" /\ req[c].noRelax
         => HasUnattempted(req[c])]_vars

\* Whoever waits in the queue, or has given up waiting, comes back to its
\* caller: the timer, the answer and the drain never block each other.
WaitingEnds ==
  \A c \in Callers :
    pc[c] \in {"waiting", "abandoning", "draining", "releasing"}
      ~> pc[c] \in {"idle", "holding"}

=============================================================================

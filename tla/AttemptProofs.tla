---------------------------- MODULE AttemptProofs ----------------------------
(***************************************************************************)
(* Proofs about the retry loop, for any requests, keys, budgets and faults *)
(* of the upstream: its leases balance, its calls are bounded and made on  *)
(* keys of their own, one that begins after the retry window is its        *)
(* request's last, and what the client is told is what the upstream did.   *)
(***************************************************************************)
EXTENDS Attempt, TLAPS, FiniteSetTheorems

\* The retry loop without fairness: all that its safety needs.
AttemptSpec == AttemptInit /\ [][AttemptNext]_attemptVars

\* A request holds a lease in the states that use one, of a key it has not
\* called yet when the call is still to come.
LeaseIsOwn(r) ==
  /\ lease[r] # NoKey <=> pc[r] \in Holding
  /\ pc[r] = "granted" => lease[r] \notin attempted[r]

\* The calls are counted by the keys attempted, and there is room for one more
\* wherever another key may be asked for.
CallsAreCounted(r) ==
  /\ calls[r] = Attempts(r) /\ Attempts(r) <= MaxAttempts
  /\ pc[r] \in Asking => Attempts(r) < MaxAttempts

\* What Run has returned so far, and what became of a 2xx.
OutcomeFits(r) ==
  /\ pc[r] \notin {"serving", "done"} => outcome[r] = "none"
  /\ pc[r] = "serving" => outcome[r] = "ok"
  /\ outcome[r] \in NoKeysLeft => calls[r] = 0
  /\ answered[r] => \/ pc[r] \in {"succeeded", "serving"}
                    \/ pc[r] \in {"faulted", "done"} /\ (outcome[r] = "ok" \/ ended[r] # "no")

\* The key of a failed call is blamed before its cooldown is recorded, and the
\* cooldown cannot end before it begins.
BlameComesFirst(r) ==
  /\ pc[r] = "failing" => lease[r] \in blamed
  /\ last[r].retryAfter >= 0

\* A request that asks for another key, or decides whether to, keeps the fault of
\* its last call.
FaultIsKept(r) ==
  /\ pc[r] \in {"failing", "faulted"} => last[r].status # 0
  /\ pc[r] \in Asking /\ calls[r] > 0 => last[r].status # 0

\* The window of a late call is over, and no call of a request that may still make
\* one was late.
LateEndsLoop(r) ==
  /\ late[r] <= 1
  /\ late[r] = 1 => now >= retryDeadline(r)
  /\ pc[r] \in Asking => late[r] = 0

RequestInv(r) ==
  /\ LeaseIsOwn(r) /\ CallsAreCounted(r) /\ OutcomeFits(r) /\ BlameComesFirst(r)
  /\ FaultIsKept(r) /\ LateEndsLoop(r)

\* A key's count is the number of the requests that hold one of its leases.
CountsBalance == \A k \in Keys : inUse[k] = Cardinality({r \in Requests : lease[r] = k})

\* The inductive invariant of the retry loop.
AttemptInv ==
  /\ AttemptTypeOK
  /\ CountsBalance
  /\ ProxySparesKeys
  /\ \A r \in Requests : RequestInv(r)

(***************************************************************************)
(* The operators of the loop                                               *)
(***************************************************************************)
SoundFaults == {f \in Faults : f.retryAfter >= 0 /\ f.status # 0}

\* The faults the router makes itself are faults with a status and without a
\* negative hint, and so none of them is NoFault.
LEMMA RouterFaults ==
  /\ NoFault \in Faults /\ NoFault.retryAfter = 0 /\ NoFault.status = 0
  /\ \A e \in {"canceled", "timeout"} : classifyRequestError(e) \in SoundFaults
<1>1. NoFault \in Faults /\ NoFault.retryAfter = 0 /\ NoFault.status = 0
  BY DEF NoFault, FaultOf, Faults, Scopes
<1>2. classifyRequestError("canceled") \in SoundFaults
  <2>1. classifyRequestError("canceled") = requestFault(499)
    BY DEF classifyRequestError
  <2>2. requestFault(499) \in SoundFaults
    BY DEF requestFault, FaultOf, SoundFaults, Faults, Scopes
  <2>. QED  BY <2>1, <2>2
<1>3. classifyRequestError("timeout") \in SoundFaults
  <2>1. classifyRequestError("timeout") = upstreamFault(504, TRUE)
    BY DEF classifyRequestError
  <2>2. upstreamFault(504, TRUE) \in SoundFaults
    BY DEF upstreamFault, FaultOf, SoundFaults, Faults, Scopes
  <2>. QED  BY <2>1, <2>2
<1>. QED  BY <1>1, <1>2, <1>3

\* The cooldown of a fault is a time from now on, never a negative one.
LEMMA BenchIsTime ==
  ASSUME AttemptTypeOK, NEW k \in Keys, NEW f \in Faults, f.retryAfter >= 0
  PROVE  BenchUntil(k, f) \in Nat
<1>1. CalculateCooldown(f, 0, 10).duration \in Nat
  <2>1. rateLimitCooldown(0) = 5000
    <3>1. 2 ^ 0 = 1
      BY SMT
    <3>. QED  BY <3>1 DEF rateLimitCooldown, maximumCooldownLevel, initialRateLimitCooldown, Second
  <2>2. applyJitter(rateLimitCooldown(0), 10) \in Nat
    BY <2>1 DEF applyJitter, Capped, maximumRateLimitCooldown, Second
  <2>3. f.retryAfter \in Nat /\ Capped(f.retryAfter) \in Nat
    BY DEF Faults, Capped, maximumRateLimitCooldown, Second
  <2>4. f.status \in Int /\ f.retryAfterValid \in BOOLEAN /\ f.retryable \in BOOLEAN
    BY DEF Faults
  <2>. QED  BY <2>2, <2>3, <2>4 DEF CalculateCooldown, transientCooldown, Second
<1>2. Floored(f, CalculateCooldown(f, 0, 10).duration) \in Nat
  BY <1>1 DEF Floored, Second
<1>. QED
  BY <1>2, BudgetAssumption DEF BenchUntil, AttemptTypeOK, Second

\* The end of a backoff is a time.
LEMMA WakeIsTime ==
  ASSUME AttemptTypeOK, NEW r \in Requests
  PROVE  backoff(r) \in Nat
<1>1. now \in Nat /\ started[r] \in Nat
  BY BudgetAssumption DEF AttemptTypeOK
<1>2. retryDeadline(r) \in Nat
  BY <1>1, BudgetAssumption DEF retryDeadline, totalDeadline
<1>3. Attempts(r) \in Nat
  BY FS_Subset, FS_CardinalityType, RequestsAndKeysAreFinite DEF Attempts, AttemptTypeOK
<1>4. last[r].retryAfter \in Int
  BY DEF AttemptTypeOK, Faults
<1>5. Capped(last[r].retryAfter) \in Int
  BY <1>4 DEF Capped, maximumRateLimitCooldown, Second
<1>. DEFINE step == IF Attempts(r) < 2 THEN 100 ELSE 100 * 2 ^ (Attempts(r) - 2)
            growing == IF step > 2000 \/ step <= 0 THEN 2000 ELSE step
            delay == IF Attempts(r) <= 1 /\ last[r].retryAfter <= 0 THEN 0
                     ELSE IF Capped(last[r].retryAfter) > growing
                     THEN Capped(last[r].retryAfter) ELSE growing
            until == now + Seconds(delay)
<1>6. step \in Int
  <2>1. CASE Attempts(r) < 2
    BY <2>1
  <2>2. CASE ~(Attempts(r) < 2)
    <3>1. Attempts(r) - 2 \in Nat
      BY <1>3, <2>2
    <3>2. 2 ^ (Attempts(r) - 2) \in Int
      BY <3>1, SMT
    <3>. QED  BY <2>2, <3>2
  <2>. QED  BY <2>1, <2>2
<1>. HIDE DEF step
<1>7. growing \in Nat
  BY <1>6
<1>. HIDE DEF growing
<1>8. delay \in Nat
  BY <1>3, <1>4, <1>5, <1>7
<1>. HIDE DEF delay
<1>9. until \in Nat
  BY <1>1, <1>8 DEF Seconds, Second
<1>10. backoff(r) = IF until > retryDeadline(r) THEN retryDeadline(r) ELSE until
  BY DEF backoff, until, delay, growing, step
<1>. HIDE DEF until
<1>. QED  BY <1>2, <1>9, <1>10

(***************************************************************************)
(* Leases and their counts                                                 *)
(***************************************************************************)
\* A granted lease is counted.
LEMMA GrantBalances ==
  ASSUME AttemptTypeOK, CountsBalance, NEW r \in Requests, NEW k \in Keys, NEW state \in States,
         lease[r] = NoKey, Grant(r, k, state)
  PROVE  /\ lease' \in [Requests -> Keys \cup {NoKey}] /\ inUse' \in [Keys -> Nat]
         /\ pc' \in [Requests -> States] /\ CountsBalance'
<1>1. /\ lease' = [lease EXCEPT ![r] = k] /\ inUse' = [inUse EXCEPT ![k] = inUse[k] + 1]
      /\ pc' = [pc EXCEPT ![r] = state]
  BY DEF Grant
<1>2. /\ lease \in [Requests -> Keys \cup {NoKey}] /\ inUse \in [Keys -> Nat]
      /\ pc \in [Requests -> States]
  BY DEF AttemptTypeOK
<1>3. ASSUME NEW j \in Keys
      PROVE  inUse'[j] = Cardinality({q \in Requests : lease'[q] = j})
  <2>. DEFINE Held == {q \in Requests : lease[q] = j}
  <2>1. IsFiniteSet(Held) /\ inUse[j] = Cardinality(Held)
    BY FS_Subset, RequestsAndKeysAreFinite DEF CountsBalance
  <2>2. CASE j = k
    <3>1. {q \in Requests : lease'[q] = j} = Held \cup {r} /\ r \notin Held
      BY <1>1, <1>2, <2>2, KeyAssumption
    <3>2. Cardinality(Held \cup {r}) = Cardinality(Held) + 1
      BY <2>1, <3>1, FS_AddElement
    <3>3. inUse'[j] = inUse[j] + 1
      BY <1>1, <1>2, <2>2
    <3>. QED  BY <2>1, <3>1, <3>2, <3>3
  <2>3. CASE j # k
    <3>1. {q \in Requests : lease'[q] = j} = Held
      BY <1>1, <1>2, <2>3, KeyAssumption
    <3>. QED  BY <1>1, <1>2, <2>1, <2>3, <3>1
  <2>. QED  BY <2>2, <2>3
<1>. QED  BY <1>1, <1>2, <1>3 DEF CountsBalance

\* A lease given back is counted off, and there was one to count off.
LEMMA GiveBackBalances ==
  ASSUME AttemptTypeOK, CountsBalance, NEW r \in Requests, lease[r] # NoKey, GiveBack(r)
  PROVE  /\ lease' \in [Requests -> Keys \cup {NoKey}] /\ inUse' \in [Keys -> Nat]
         /\ CountsBalance' /\ lease'[r] = NoKey
         /\ \A q \in Requests \ {r} : lease'[q] = lease[q]
<1>. DEFINE k == lease[r]
<1>1. lease' = [lease EXCEPT ![r] = NoKey] /\ inUse' = [inUse EXCEPT ![k] = inUse[k] - 1]
  BY DEF GiveBack
<1>2. lease \in [Requests -> Keys \cup {NoKey}] /\ inUse \in [Keys -> Nat] /\ k \in Keys
  BY DEF AttemptTypeOK
<1>3. ASSUME NEW j \in Keys
      PROVE  inUse'[j] \in Nat /\ inUse'[j] = Cardinality({q \in Requests : lease'[q] = j})
  <2>. DEFINE Held == {q \in Requests : lease[q] = j}
  <2>1. IsFiniteSet(Held) /\ inUse[j] = Cardinality(Held)
    BY FS_Subset, RequestsAndKeysAreFinite DEF CountsBalance
  <2>2. CASE j = k
    <3>1. {q \in Requests : lease'[q] = j} = Held \ {r} /\ r \in Held
      BY <1>1, <1>2, <2>2, KeyAssumption
    <3>2. Cardinality(Held \ {r}) = Cardinality(Held) - 1 /\ IsFiniteSet(Held \ {r})
      BY <2>1, <3>1, FS_RemoveElement
    <3>3. Cardinality(Held \ {r}) \in Nat
      BY <3>2, FS_CardinalityType
    <3>4. inUse'[j] = inUse[j] - 1
      BY <1>1, <1>2, <2>2
    <3>. QED  BY <2>1, <3>1, <3>2, <3>3, <3>4
  <2>3. CASE j # k
    <3>1. {q \in Requests : lease'[q] = j} = Held
      BY <1>1, <1>2, <2>3, KeyAssumption
    <3>. QED  BY <1>1, <1>2, <2>1, <2>3, <3>1
  <2>. QED  BY <2>2, <2>3
<1>4. DOMAIN inUse' = Keys /\ inUse' = [j \in Keys |-> inUse'[j]]
  BY <1>1, <1>2
<1>5. inUse' \in [Keys -> Nat]
  BY <1>3, <1>4
<1>. QED  BY <1>1, <1>2, <1>3, <1>5 DEF CountsBalance

(***************************************************************************)
(* One request moves at a time                                             *)
(***************************************************************************)
OthersKept(r) ==
  /\ now' = now
  /\ \A q \in Requests \ {r} :
    /\ pc'[q] = pc[q] /\ lease'[q] = lease[q] /\ attempted'[q] = attempted[q]
    /\ calls'[q] = calls[q] /\ outcome'[q] = outcome[q] /\ last'[q] = last[q]
    /\ ended'[q] = ended[q] /\ answered'[q] = answered[q] /\ late'[q] = late[q]
    /\ stream'[q] = stream[q] /\ started'[q] = started[q]

\* A request that does not move keeps its invariant: what its neighbour does to
\* the history can only add to the blamed keys.
LEMMA RequestFrame ==
  ASSUME AttemptInv, NEW r, OthersKept(r), blamed \subseteq blamed',
         NEW q \in Requests \ {r}
  PROVE  RequestInv(q)'
<1>1. RequestInv(q)
  BY DEF AttemptInv
<1>2. Attempts(q)' = Attempts(q)
  BY DEF OthersKept, Attempts
<1>3. LeaseIsOwn(q)' /\ BlameComesFirst(q)'
  BY <1>1 DEF RequestInv, LeaseIsOwn, BlameComesFirst, OthersKept
<1>4. CallsAreCounted(q)'
  BY <1>1, <1>2 DEF RequestInv, CallsAreCounted, OthersKept
<1>5. OutcomeFits(q)'
  BY <1>1, Zenon DEF RequestInv, OutcomeFits, OthersKept
<1>6. FaultIsKept(q)'
  BY <1>1, Zenon DEF RequestInv, FaultIsKept, OthersKept
<1>7. LateEndsLoop(q)'
  BY <1>1, Zenon DEF RequestInv, LateEndsLoop, OthersKept, retryDeadline, totalDeadline
<1>. QED  BY <1>3, <1>4, <1>5, <1>6, <1>7 DEF RequestInv

\* A step of one request keeps the invariant if it keeps that request's.
LEMMA StepKeeps ==
  ASSUME AttemptInv, NEW r \in Requests, OthersKept(r), blamed \subseteq blamed',
         AttemptTypeOK', CountsBalance', ProxySparesKeys', RequestInv(r)'
  PROVE  AttemptInv'
<1>1. \A q \in Requests : RequestInv(q)'
  BY RequestFrame
<1>. QED  BY <1>1 DEF AttemptInv

\* Run returns from a state in which it holds no lease.
LEMMA AcquireFailsStep ==
  ASSUME AttemptInv, NEW r \in Requests, NEW result \in Outcomes,
         pc[r] \in {"acquire", "entering", "queued", "backoff"},
         result \in NoKeysLeft => calls[r] = 0,
         AcquireFails(r, result)
  PROVE  AttemptInv'
<1>1. /\ pc' = [pc EXCEPT ![r] = "done"] /\ outcome' = [outcome EXCEPT ![r] = result]
      /\ UNCHANGED <<now, inUse, bench, invalid, blocked, down, stream, started, ended, attempted,
                     lease, last, commit, wake, calls, late, answered, blamed>>
  BY DEF AcquireFails, Return, poolVars, history
<1>2. AttemptTypeOK /\ CountsBalance /\ ProxySparesKeys /\ RequestInv(r)
  BY DEF AttemptInv
<1>3. pc \in [Requests -> States] /\ outcome \in [Requests -> Outcomes]
  BY <1>2 DEF AttemptTypeOK
<1>4. /\ pc'[r] = "done" /\ outcome'[r] = result
      /\ \A q \in Requests \ {r} : pc'[q] = pc[q] /\ outcome'[q] = outcome[q]
  BY <1>1, <1>3
<1>5. AttemptTypeOK'
  <2>1. pc' \in [Requests -> States] /\ outcome' \in [Requests -> Outcomes]
    BY <1>1, <1>3 DEF States
  <2>. QED  BY <1>1, <1>2, <2>1 DEF AttemptTypeOK
<1>6. CountsBalance' /\ ProxySparesKeys'
  BY <1>1, <1>2 DEF CountsBalance, ProxySparesKeys
<1>7. OthersKept(r) /\ blamed \subseteq blamed'
  BY <1>1, <1>4 DEF OthersKept
<1>8. RequestInv(r)'
  <2>1. LeaseIsOwn(r)' /\ BlameComesFirst(r)'
    BY <1>1, <1>2, <1>4 DEF RequestInv, LeaseIsOwn, BlameComesFirst, Holding
  <2>2. Attempts(r)' = Attempts(r)
    BY <1>1 DEF Attempts
  <2>3. CallsAreCounted(r)'
    BY <1>1, <1>2, <1>4, <2>2 DEF RequestInv, CallsAreCounted, Asking
  <2>4. OutcomeFits(r)'
    BY <1>1, <1>2, <1>4, Zenon DEF RequestInv, OutcomeFits
  <2>5. FaultIsKept(r)'
    BY <1>4 DEF FaultIsKept, Asking
  <2>6. LateEndsLoop(r)'
    BY <1>1, <1>2, <1>4, Zenon
    DEF RequestInv, LateEndsLoop, retryDeadline, totalDeadline, Asking
  <2>. QED  BY <2>1, <2>3, <2>4, <2>5, <2>6 DEF RequestInv
<1>. QED  BY <1>5, <1>6, <1>7, <1>8, StepKeeps

\* A request gives its lease back and returns, or goes on to wait for the next key.
LEMMA GivesBackStep ==
  ASSUME AttemptInv, NEW r \in Requests, NEW state \in {"done", "backoff"},
         NEW result \in Outcomes, pc[r] \in Holding,
         state = "backoff" => /\ result = "none" /\ Attempts(r) < MaxAttempts /\ ~answered[r]
                              /\ last[r].status # 0 /\ late[r] = 0,
         result \notin NoKeysLeft,
         answered[r] => result = "ok" \/ ended[r] # "no",
         pc' = [pc EXCEPT ![r] = state], outcome' = [outcome EXCEPT ![r] = result],
         GiveBack(r), wake' \in [Requests -> Nat],
         UNCHANGED <<now, bench, invalid, blocked, down, stream, started, ended, attempted, last,
                     commit, history>>
  PROVE  AttemptInv'
<1>1. AttemptTypeOK /\ CountsBalance /\ ProxySparesKeys /\ RequestInv(r)
  BY DEF AttemptInv
<1>2. lease[r] # NoKey
  BY <1>1 DEF RequestInv, LeaseIsOwn
<1>3. /\ lease' \in [Requests -> Keys \cup {NoKey}] /\ inUse' \in [Keys -> Nat]
      /\ CountsBalance' /\ lease'[r] = NoKey
      /\ \A q \in Requests \ {r} : lease'[q] = lease[q]
  BY <1>1, <1>2, GiveBackBalances
<1>4. UNCHANGED <<calls, late, answered, blamed>>
  BY DEF history
<1>5. pc \in [Requests -> States] /\ outcome \in [Requests -> Outcomes]
  BY <1>1 DEF AttemptTypeOK
<1>6. /\ pc'[r] = state /\ outcome'[r] = result
      /\ \A q \in Requests \ {r} : pc'[q] = pc[q] /\ outcome'[q] = outcome[q]
  BY <1>5
<1>7. AttemptTypeOK'
  <2>1. pc' \in [Requests -> States] /\ outcome' \in [Requests -> Outcomes]
    BY <1>5 DEF States
  <2>. QED  BY <1>1, <1>3, <1>4, <2>1 DEF AttemptTypeOK
<1>8. ProxySparesKeys'
  BY <1>1, <1>4 DEF ProxySparesKeys
<1>9. OthersKept(r) /\ blamed \subseteq blamed'
  BY <1>3, <1>4, <1>6 DEF OthersKept
<1>10. RequestInv(r)'
  <2>1. LeaseIsOwn(r)' /\ BlameComesFirst(r)'
    BY <1>1, <1>3, <1>4, <1>6 DEF RequestInv, LeaseIsOwn, BlameComesFirst, Holding
  <2>2. Attempts(r)' = Attempts(r)
    BY DEF Attempts
  <2>3. CallsAreCounted(r)'
    BY <1>1, <1>4, <1>6, <2>2 DEF RequestInv, CallsAreCounted, Asking
  <2>4. OutcomeFits(r)'
    <3>1. CASE state = "done"
      BY <1>1, <1>4, <1>6, <3>1, Zenon DEF RequestInv, OutcomeFits
    <3>2. CASE state = "backoff"
      BY <1>1, <1>4, <1>6, <3>2 DEF RequestInv, OutcomeFits
    <3>. QED  BY <3>1, <3>2
  <2>5. FaultIsKept(r)'
    BY <1>6 DEF FaultIsKept, Asking
  <2>6. LateEndsLoop(r)'
    <3>1. CASE state = "done"
      BY <1>1, <1>4, <1>6, <3>1, Zenon
      DEF RequestInv, LateEndsLoop, retryDeadline, totalDeadline, Asking
    <3>2. CASE state = "backoff"
      BY <1>4, <3>2 DEF LateEndsLoop
    <3>. QED  BY <3>1, <3>2
  <2>. QED  BY <2>1, <2>3, <2>4, <2>5, <2>6 DEF RequestInv
<1>. QED  BY <1>3, <1>7, <1>8, <1>9, <1>10, StepKeeps

\* executeLease counts one call more, on a key the request has not called.
LEMMA BeginCounts ==
  ASSUME AttemptTypeOK, NEW r \in Requests, NEW k \in Keys, k \notin attempted[r],
         calls[r] = Attempts(r), Begin(r, k)
  PROVE  /\ attempted' \in [Requests -> SUBSET Keys] /\ commit' \in [Requests -> BOOLEAN]
         /\ calls' \in [Requests -> Nat] /\ late' \in [Requests -> Nat]
         /\ late'[r] = late[r] + (IF now >= retryDeadline(r) THEN 1 ELSE 0)
         /\ Attempts(r)' = Attempts(r) + 1 /\ calls'[r] = Attempts(r)' /\ Attempts(r) \in Nat
         /\ \A q \in Requests \ {r} : /\ attempted'[q] = attempted[q] /\ calls'[q] = calls[q]
                                     /\ late'[q] = late[q]
<1>1. /\ attempted' = [attempted EXCEPT ![r] = attempted[r] \cup {k}]
      /\ commit' = [commit EXCEPT ![r] = FALSE] /\ calls' = [calls EXCEPT ![r] = calls[r] + 1]
      /\ late' = [late EXCEPT ![r] = late[r] + (IF now >= retryDeadline(r) THEN 1 ELSE 0)]
  BY DEF Begin
<1>2. /\ attempted \in [Requests -> SUBSET Keys] /\ commit \in [Requests -> BOOLEAN]
      /\ calls \in [Requests -> Nat] /\ late \in [Requests -> Nat]
  BY DEF AttemptTypeOK
<1>3. IsFiniteSet(attempted[r])
  BY <1>2, FS_Subset, RequestsAndKeysAreFinite
<1>4. Cardinality(attempted[r] \cup {k}) = Cardinality(attempted[r]) + 1
  BY <1>3, FS_AddElement
<1>5. Attempts(r)' = Attempts(r) + 1 /\ Attempts(r) \in Nat
  BY <1>1, <1>2, <1>3, <1>4, FS_CardinalityType DEF Attempts
<1>6. /\ attempted' \in [Requests -> SUBSET Keys] /\ commit' \in [Requests -> BOOLEAN]
      /\ calls' \in [Requests -> Nat]
  BY <1>1, <1>2
<1>7. late' \in [Requests -> Nat]
  <2>. DEFINE more == IF now >= retryDeadline(r) THEN 1 ELSE 0
  <2>1. late[r] + more \in Nat
    BY <1>2
  <2>. HIDE DEF more
  <2>2. late' = [late EXCEPT ![r] = late[r] + more]
    BY <1>1 DEF more
  <2>. QED  BY <1>2, <2>1, <2>2
<1>. QED  BY <1>1, <1>2, <1>5, <1>6, <1>7

\* The pool serves a request at once, or serves a waiter.
LEMMA GrantStep ==
  ASSUME AttemptInv, NEW r \in Requests, NEW k \in Keys, NEW state \in {"execute", "granted"},
         pc[r] \in {"entering", "queued"}, k \in Ready(r), Grant(r, k, state),
         \/ state = "execute" /\ Begin(r, k)
         \/ state = "granted" /\ UNCHANGED <<attempted, commit, calls, late>>,
         UNCHANGED <<now, bench, invalid, blocked, down, stream, started, ended, last, wake, outcome,
                     answered, blamed>>
  PROVE  AttemptInv'
<1>1. AttemptTypeOK /\ CountsBalance /\ ProxySparesKeys /\ RequestInv(r)
  BY DEF AttemptInv
<1>2. lease[r] = NoKey /\ k \notin attempted[r] /\ calls[r] = Attempts(r) /\ Attempts(r) < MaxAttempts
  BY <1>1 DEF RequestInv, LeaseIsOwn, CallsAreCounted, Holding, Asking, Ready
<1>3. state \in States
  BY DEF States
<1>4. /\ lease' \in [Requests -> Keys \cup {NoKey}] /\ inUse' \in [Keys -> Nat]
      /\ pc' \in [Requests -> States] /\ CountsBalance'
  BY <1>1, <1>2, <1>3, GrantBalances
<1>5. /\ pc'[r] = state /\ lease'[r] = k
      /\ \A q \in Requests \ {r} : pc'[q] = pc[q] /\ lease'[q] = lease[q]
  BY <1>1 DEF Grant, AttemptTypeOK
<1>6. /\ attempted' \in [Requests -> SUBSET Keys] /\ commit' \in [Requests -> BOOLEAN]
      /\ calls' \in [Requests -> Nat] /\ late' \in [Requests -> Nat]
      /\ late'[r] \in {0, 1} /\ (late'[r] = 1 => now >= retryDeadline(r))
      /\ state = "granted" => late'[r] = 0 /\ calls'[r] = calls[r]
      /\ calls'[r] = Attempts(r)' /\ Attempts(r)' <= MaxAttempts
      /\ state = "granted" => Attempts(r)' < MaxAttempts /\ k \notin attempted'[r]
      /\ \A q \in Requests \ {r} : /\ attempted'[q] = attempted[q] /\ calls'[q] = calls[q]
                                  /\ late'[q] = late[q]
  <2>0. late[r] = 0
    BY <1>1 DEF RequestInv, LateEndsLoop, Asking
  <2>1. CASE state = "execute" /\ Begin(r, k)
    <3>1. /\ attempted' \in [Requests -> SUBSET Keys] /\ commit' \in [Requests -> BOOLEAN]
          /\ calls' \in [Requests -> Nat] /\ late' \in [Requests -> Nat]
          /\ late'[r] = late[r] + (IF now >= retryDeadline(r) THEN 1 ELSE 0)
          /\ Attempts(r)' = Attempts(r) + 1 /\ calls'[r] = Attempts(r)' /\ Attempts(r) \in Nat
          /\ \A q \in Requests \ {r} : /\ attempted'[q] = attempted[q] /\ calls'[q] = calls[q]
                                      /\ late'[q] = late[q]
      BY <1>1, <1>2, <2>1, BeginCounts
    <3>2. late'[r] \in {0, 1} /\ (late'[r] = 1 => now >= retryDeadline(r))
      BY <2>0, <3>1
    <3>. QED  BY <1>2, <2>1, <3>1, <3>2, BudgetAssumption
  <2>2. CASE state = "granted" /\ UNCHANGED <<attempted, commit, calls, late>>
    <3>1. Attempts(r)' = Attempts(r)
      BY <2>2 DEF Attempts
    <3>2. Attempts(r) <= MaxAttempts
      BY <1>1 DEF RequestInv, CallsAreCounted
    <3>. QED  BY <1>1, <1>2, <2>0, <2>2, <3>1, <3>2 DEF AttemptTypeOK
  <2>. QED  BY <2>1, <2>2
<1>7. AttemptTypeOK'
  BY <1>1, <1>4, <1>6 DEF AttemptTypeOK
<1>8. ProxySparesKeys'
  BY <1>1 DEF ProxySparesKeys
<1>9. OthersKept(r) /\ blamed \subseteq blamed'
  BY <1>5, <1>6 DEF OthersKept
<1>10. RequestInv(r)'
  <2>1. LeaseIsOwn(r)' /\ BlameComesFirst(r)'
    BY <1>1, <1>5, <1>6, KeyAssumption DEF RequestInv, LeaseIsOwn, BlameComesFirst, Holding
  <2>2. CallsAreCounted(r)'
    BY <1>5, <1>6 DEF CallsAreCounted, Asking
  <2>3. OutcomeFits(r)'
    BY <1>1, <1>5 DEF RequestInv, OutcomeFits, NoKeysLeft
  <2>4. FaultIsKept(r)'
    BY <1>1, <1>5, <1>6 DEF RequestInv, FaultIsKept, Asking
  <2>5. LateEndsLoop(r)'
    BY <1>5, <1>6 DEF LateEndsLoop, retryDeadline, totalDeadline, Asking
  <2>. QED  BY <2>1, <2>2, <2>3, <2>4, <2>5 DEF RequestInv
<1>. QED  BY <1>4, <1>7, <1>8, <1>9, <1>10, StepKeeps

\* A waiter takes the lease it was granted.
LEMMA ReceiveStep ==
  ASSUME AttemptInv, NEW r \in Requests, Receive(r)
  PROVE  AttemptInv'
<1>1. AttemptTypeOK /\ CountsBalance /\ ProxySparesKeys /\ RequestInv(r)
  BY DEF AttemptInv
<1>2. /\ pc[r] = "granted" /\ pc' = [pc EXCEPT ![r] = "execute"] /\ Begin(r, lease[r])
      /\ UNCHANGED <<now, inUse, bench, invalid, blocked, down, stream, started, ended, lease, last, wake,
                     outcome, answered, blamed>>
  BY DEF Receive, poolVars
<1>3. /\ lease[r] \in Keys /\ lease[r] \notin attempted[r] /\ calls[r] = Attempts(r)
      /\ Attempts(r) < MaxAttempts
  BY <1>1, <1>2 DEF RequestInv, LeaseIsOwn, CallsAreCounted, Holding, Asking, AttemptTypeOK
<1>4. /\ attempted' \in [Requests -> SUBSET Keys] /\ commit' \in [Requests -> BOOLEAN]
      /\ calls' \in [Requests -> Nat] /\ late' \in [Requests -> Nat]
      /\ late'[r] = late[r] + (IF now >= retryDeadline(r) THEN 1 ELSE 0)
      /\ Attempts(r)' = Attempts(r) + 1 /\ calls'[r] = Attempts(r)' /\ Attempts(r) \in Nat
      /\ \A q \in Requests \ {r} : /\ attempted'[q] = attempted[q] /\ calls'[q] = calls[q]
                                  /\ late'[q] = late[q]
  BY <1>1, <1>2, <1>3, BeginCounts
<1>5. /\ pc' \in [Requests -> States] /\ pc'[r] = "execute"
      /\ \A q \in Requests \ {r} : pc'[q] = pc[q]
  BY <1>1, <1>2 DEF AttemptTypeOK, States
<1>6. AttemptTypeOK'
  BY <1>1, <1>2, <1>4, <1>5 DEF AttemptTypeOK
<1>7. CountsBalance' /\ ProxySparesKeys'
  BY <1>1, <1>2 DEF CountsBalance, ProxySparesKeys
<1>8. OthersKept(r) /\ blamed \subseteq blamed'
  BY <1>2, <1>4, <1>5 DEF OthersKept
<1>9. RequestInv(r)'
  <2>1. LeaseIsOwn(r)' /\ BlameComesFirst(r)'
    BY <1>1, <1>2, <1>5 DEF RequestInv, LeaseIsOwn, BlameComesFirst, Holding
  <2>2. CallsAreCounted(r)'
    BY <1>3, <1>4, <1>5, BudgetAssumption DEF CallsAreCounted, Asking
  <2>3. OutcomeFits(r)'
    BY <1>1, <1>2, <1>5 DEF RequestInv, OutcomeFits, NoKeysLeft
  <2>4. FaultIsKept(r)'
    BY <1>5 DEF FaultIsKept, Asking
  <2>5. late[r] = 0
    BY <1>1, <1>2 DEF RequestInv, LateEndsLoop, Asking
  <2>6. late'[r] \in {0, 1} /\ (late'[r] = 1 => now >= retryDeadline(r))
    BY <1>4, <2>5
  <2>7. LateEndsLoop(r)'
    BY <1>2, <1>5, <2>6 DEF LateEndsLoop, retryDeadline, totalDeadline, Asking
  <2>. QED  BY <2>1, <2>2, <2>3, <2>4, <2>7 DEF RequestInv
<1>. QED  BY <1>6, <1>7, <1>8, <1>9, StepKeeps

\* A call ends with a fault, or a fault stands for a record that could not be written.
LEMMA FaultedStep ==
  ASSUME AttemptInv, NEW r \in Requests, NEW f \in SoundFaults,
         NEW state \in {"failing", "faulted"}, NEW complained \in SUBSET Keys,
         pc[r] \in {"execute", "succeeded", "failing"},
         answered[r] => state = "faulted" /\ ended[r] # "no",
         state = "failing" => lease[r] \in complained,
         Faulted(r, f, state, complained)
  PROVE  AttemptInv'
<1>1. AttemptTypeOK /\ CountsBalance /\ ProxySparesKeys /\ RequestInv(r)
  BY DEF AttemptInv
<1>2. /\ pc' = [pc EXCEPT ![r] = state] /\ last' = [last EXCEPT ![r] = f]
      /\ blamed' = blamed \cup complained
      /\ UNCHANGED <<now, inUse, bench, invalid, blocked, down, stream, started, ended, attempted, lease,
                     commit, wake, outcome, calls, late, answered>>
  BY DEF Faulted, poolVars
<1>3. f \in Faults /\ f.retryAfter >= 0 /\ f.status # 0
  BY DEF SoundFaults
<1>4. pc \in [Requests -> States] /\ last \in [Requests -> Faults]
  BY <1>1 DEF AttemptTypeOK
<1>5. /\ pc' \in [Requests -> States] /\ last' \in [Requests -> Faults]
      /\ pc'[r] = state /\ last'[r] = f
      /\ \A q \in Requests \ {r} : pc'[q] = pc[q] /\ last'[q] = last[q]
  <2>. HIDE DEF SoundFaults
  <2>. QED  BY <1>2, <1>3, <1>4 DEF States
<1>6. AttemptTypeOK'
  BY <1>1, <1>2, <1>5 DEF AttemptTypeOK
<1>7. CountsBalance' /\ ProxySparesKeys'
  BY <1>1, <1>2 DEF CountsBalance, ProxySparesKeys
<1>8. OthersKept(r) /\ blamed \subseteq blamed'
  BY <1>2, <1>5 DEF OthersKept
<1>9. RequestInv(r)'
  <2>1. LeaseIsOwn(r)' /\ BlameComesFirst(r)'
    BY <1>1, <1>2, <1>3, <1>5 DEF RequestInv, LeaseIsOwn, BlameComesFirst, Holding
  <2>2. Attempts(r)' = Attempts(r)
    BY <1>2 DEF Attempts
  <2>3. CallsAreCounted(r)'
    BY <1>1, <1>2, <1>5, <2>2 DEF RequestInv, CallsAreCounted, Asking
  <2>4. OutcomeFits(r)'
    BY <1>1, <1>2, <1>5 DEF RequestInv, OutcomeFits
  <2>5. FaultIsKept(r)'
    BY <1>3, <1>5 DEF FaultIsKept, Asking
  <2>6. LateEndsLoop(r)'
    BY <1>1, <1>2, <1>5, Zenon
    DEF RequestInv, LateEndsLoop, retryDeadline, totalDeadline, Asking
  <2>. QED  BY <2>1, <2>3, <2>4, <2>5, <2>6 DEF RequestInv
<1>. QED  BY <1>6, <1>7, <1>8, <1>9, StepKeeps

\* A step that moves a request between states that hold its lease, and records
\* something about its key.
LEMMA HoldingStep ==
  ASSUME AttemptInv, NEW r \in Requests, NEW state \in {"succeeded", "faulted", "serving"},
         pc[r] \in {"execute", "succeeded", "failing"},
         state = "faulted" => pc[r] = "failing",
         pc' = [pc EXCEPT ![r] = state],
         UNCHANGED <<now, inUse, down, stream, started, ended, attempted, lease, last, wake,
                     calls, late, blamed>>,
         bench' \in [Keys -> Nat], invalid' \subseteq Keys, blocked' \subseteq Keys, commit' \in [Requests -> BOOLEAN],
         ProxySparesKeys',
         answered' \in [Requests -> BOOLEAN], \A q \in Requests \ {r} : answered'[q] = answered[q],
         answered'[r] => state \in {"succeeded", "serving"},
         outcome' = IF state = "serving" THEN [outcome EXCEPT ![r] = "ok"] ELSE outcome
  PROVE  AttemptInv'
<1>1. AttemptTypeOK /\ CountsBalance /\ RequestInv(r)
  BY DEF AttemptInv
<1>2. pc \in [Requests -> States] /\ outcome \in [Requests -> Outcomes]
  BY <1>1 DEF AttemptTypeOK
<1>3. /\ pc' \in [Requests -> States] /\ outcome' \in [Requests -> Outcomes]
      /\ pc'[r] = state /\ outcome'[r] = (IF state = "serving" THEN "ok" ELSE outcome[r])
      /\ \A q \in Requests \ {r} : pc'[q] = pc[q] /\ outcome'[q] = outcome[q]
  BY <1>2 DEF States, Outcomes
<1>4. AttemptTypeOK'
  BY <1>1, <1>3 DEF AttemptTypeOK
<1>5. CountsBalance'
  BY <1>1 DEF CountsBalance
<1>6. OthersKept(r) /\ blamed \subseteq blamed'
  BY <1>3 DEF OthersKept
<1>7. RequestInv(r)'
  <2>1. LeaseIsOwn(r)' /\ BlameComesFirst(r)'
    BY <1>1, <1>3 DEF RequestInv, LeaseIsOwn, BlameComesFirst, Holding
  <2>2. Attempts(r)' = Attempts(r)
    BY DEF Attempts
  <2>3. CallsAreCounted(r)'
    BY <1>1, <1>3, <2>2 DEF RequestInv, CallsAreCounted, Asking
  <2>4. OutcomeFits(r)'
    BY <1>1, <1>3 DEF RequestInv, OutcomeFits, NoKeysLeft
  <2>5. FaultIsKept(r)'
    BY <1>1, <1>3 DEF RequestInv, FaultIsKept, Asking
  <2>6. LateEndsLoop(r)'
    BY <1>1, <1>3, Zenon
    DEF RequestInv, LateEndsLoop, retryDeadline, totalDeadline, Asking
  <2>. QED  BY <2>1, <2>3, <2>4, <2>5, <2>6 DEF RequestInv
<1>. QED  BY <1>4, <1>5, <1>6, <1>7, StepKeeps

(***************************************************************************)
(* The steps of Run, one lemma for each group of Step                      *)
(***************************************************************************)
\* A request moves on between the states in which it holds no lease.
LEMMA WaitingStep ==
  ASSUME AttemptInv, NEW r \in Requests, NEW state \in {"acquire", "entering", "queued"},
         pc[r] \in {"acquire", "entering", "backoff"}, pc' = [pc EXCEPT ![r] = state],
         UNCHANGED <<now, poolVars, stream, started, ended, attempted, lease, last, commit, wake,
                     outcome, history>>
  PROVE  AttemptInv'
<1>1. UNCHANGED <<now, inUse, bench, invalid, blocked, down, stream, started, ended, attempted,
                  lease, last, commit, wake, outcome, calls, late, answered, blamed>>
  BY DEF poolVars, history
<1>2. AttemptTypeOK /\ CountsBalance /\ ProxySparesKeys /\ RequestInv(r)
  BY DEF AttemptInv
<1>3. /\ pc' \in [Requests -> States] /\ pc'[r] = state
      /\ \A q \in Requests \ {r} : pc'[q] = pc[q]
  BY <1>2 DEF AttemptTypeOK, States
<1>4. AttemptTypeOK' /\ CountsBalance' /\ ProxySparesKeys'
  BY <1>1, <1>2, <1>3 DEF AttemptTypeOK, CountsBalance, ProxySparesKeys
<1>5. OthersKept(r) /\ blamed \subseteq blamed'
  BY <1>1, <1>3 DEF OthersKept
<1>6. Attempts(r)' = Attempts(r)
  BY <1>1 DEF Attempts
<1>7. LeaseIsOwn(r)' /\ CallsAreCounted(r)' /\ OutcomeFits(r)' /\ BlameComesFirst(r)'
  BY <1>1, <1>2, <1>3, <1>6
  DEF RequestInv, LeaseIsOwn, CallsAreCounted, OutcomeFits, BlameComesFirst, Holding, Asking
<1>8. FaultIsKept(r)' /\ LateEndsLoop(r)'
  BY <1>1, <1>2, <1>3
  DEF RequestInv, FaultIsKept, LateEndsLoop, retryDeadline, totalDeadline, Asking
<1>. QED  BY <1>4, <1>5, <1>7, <1>8, StepKeeps DEF RequestInv

\* Of the pool's refusals, the lack of keys is reported as such only to a request
\* that has made no call.
LEMMA RefusalsAreReported ==
  ASSUME AttemptInv, NEW r \in Requests, pc[r] \in Asking,
         NEW e \in Refusals \cup {"canceled", "server_shutting_down"}
  PROVE  /\ chooseAcquireError(r, e) \in Outcomes
         /\ chooseAcquireError(r, e) \in NoKeysLeft => calls[r] = 0
<1>1. chooseAcquireError(r, e) \in {"fault", e}
  BY DEF chooseAcquireError
<1>2. chooseAcquireError(r, e) \in Outcomes
  BY <1>1 DEF Outcomes, Refusals, NoKeysLeft
<1>3. ASSUME chooseAcquireError(r, e) \in NoKeysLeft
      PROVE  calls[r] = 0
  <2>1. e \in NoKeysLeft
    BY <1>1, <1>3 DEF NoKeysLeft
  <2>2. last[r] = NoFault
    BY <1>3, <2>1 DEF chooseAcquireError, NoKeysLeft
  <2>3. ~(calls[r] > 0)
    BY <2>2, RouterFaults DEF AttemptInv, RequestInv, FaultIsKept
  <2>4. calls[r] \in Nat
    BY DEF AttemptInv, AttemptTypeOK
  <2>. QED  BY <2>3, <2>4
<1>. QED  BY <1>2, <1>3

\* The end of the context is no refusal.
LEMMA EndIsReported ==
  ASSUME NEW r \in Requests
  PROVE  ContextEnded(r) \in Outcomes /\ ContextEnded(r) \notin NoKeysLeft
BY DEF ContextEnded, chooseAcquireError, Outcomes, NoKeysLeft

\* What the pool says is one of its refusals.
LEMMA ReasonIsRefusal ==
  ASSUME NEW r \in Requests, NEW limited
  PROVE  unavailable(r, limited) \in Refusals \cup {"busy"}
BY DEF unavailable, Refusals, NoKeysLeft

\* acquire keeps the invariant.
LEMMA AcquireKeeps ==
  ASSUME AttemptInv, NEW r \in Requests, Acquire(r)
  PROVE  AttemptInv'
<1>1. CASE AcquireExpired(r)
  <2>1. pc[r] = "acquire" /\ AcquireFails(r, ContextEnded(r))
    BY <1>1 DEF AcquireExpired
  <2>. QED  BY <2>1, EndIsReported, AcquireFailsStep
<1>2. CASE AcquireEnters(r)
  BY <1>2, WaitingStep DEF AcquireEnters
<1>3. CASE AcquireDown(r)
  <2>1. pc[r] = "entering" /\ AcquireFails(r, chooseAcquireError(r, "server_shutting_down"))
    BY <1>3 DEF AcquireDown
  <2>2. pc[r] \in Asking
    BY <2>1 DEF Asking
  <2>. QED  BY <2>1, <2>2, RefusalsAreReported, AcquireFailsStep
<1>4. ASSUME NEW limited, AcquireRefused(r, limited)
      PROVE  AttemptInv'
  <2>. DEFINE reason == unavailable(r, limited)
              e == IF reason = "busy" THEN "no_available_keys" ELSE reason
  <2>1. pc[r] = "entering" /\ AcquireFails(r, chooseAcquireError(r, e))
    BY <1>4 DEF AcquireRefused
  <2>2. e \in Refusals
    BY ReasonIsRefusal DEF Refusals, NoKeysLeft
  <2>3. pc[r] \in Asking
    BY <2>1 DEF Asking
  <2>. HIDE DEF e
  <2>. QED  BY <2>1, <2>2, <2>3, RefusalsAreReported, AcquireFailsStep
<1>5. ASSUME NEW limited, AcquireFull(r, limited)
      PROVE  AttemptInv'
  <2>1. /\ pc[r] = "entering" /\ AcquireFails(r, "queue_full")
        /\ "queue_full" \in Outcomes /\ "queue_full" \notin NoKeysLeft
    BY <1>5 DEF AcquireFull, Outcomes, NoKeysLeft
  <2>. QED  BY <2>1, AcquireFailsStep
<1>6. ASSUME NEW limited, AcquireQueue(r, limited)
      PROVE  AttemptInv'
  BY <1>6, WaitingStep DEF AcquireQueue
<1>7. ASSUME NEW k \in Keys, NEW limited, AcquireNow(r, k, limited)
      PROVE  AttemptInv'
  <2>1. /\ pc[r] = "entering" /\ k \in Ready(r) /\ Grant(r, k, "execute") /\ Begin(r, k)
        /\ UNCHANGED <<now, bench, invalid, blocked, down, stream, started, ended, last, wake,
                       outcome, answered, blamed>>
    BY <1>7 DEF AcquireNow, Free
  <2>. QED  BY <2>1, GrantStep
<1>. QED  BY <1>1, <1>2, <1>3, <1>4, <1>5, <1>6, <1>7 DEF Acquire

\* The wait in the queue keeps the invariant.
LEMMA WaitKeeps ==
  ASSUME AttemptInv, NEW r \in Requests, Wait(r)
  PROVE  AttemptInv'
<1>1. ASSUME NEW limited, DispatchFail(r, limited)
      PROVE  AttemptInv'
  <2>. DEFINE reason == unavailable(r, limited)
  <2>1. /\ pc[r] = "queued" /\ reason # "busy"
        /\ AcquireFails(r, chooseAcquireError(r, reason))
    BY <1>1 DEF DispatchFail
  <2>2. reason \in Refusals
    BY <2>1, ReasonIsRefusal
  <2>3. pc[r] \in Asking
    BY <2>1 DEF Asking
  <2>. HIDE DEF reason
  <2>. QED  BY <2>1, <2>2, <2>3, RefusalsAreReported, AcquireFailsStep
<1>2. CASE DispatchDown(r)
  <2>1. pc[r] = "queued" /\ AcquireFails(r, chooseAcquireError(r, "server_shutting_down"))
    BY <1>2 DEF DispatchDown
  <2>2. pc[r] \in Asking
    BY <2>1 DEF Asking
  <2>. QED  BY <2>1, <2>2, RefusalsAreReported, AcquireFailsStep
<1>3. CASE QueueTimeout(r)
  <2>1. /\ pc[r] = "queued" /\ AcquireFails(r, "queue_timeout")
        /\ "queue_timeout" \in Outcomes /\ "queue_timeout" \notin NoKeysLeft
    BY <1>3 DEF QueueTimeout, Outcomes, NoKeysLeft
  <2>. QED  BY <2>1, AcquireFailsStep
<1>4. CASE QueueExpired(r)
  <2>1. pc[r] = "queued" /\ AcquireFails(r, ContextEnded(r))
    BY <1>4 DEF QueueExpired
  <2>. QED  BY <2>1, EndIsReported, AcquireFailsStep
<1>5. CASE Receive(r)
  BY <1>5, ReceiveStep
<1>6. CASE Abandon(r)
  <2>1. /\ pc[r] = "granted" /\ GiveBack(r)
        /\ UNCHANGED <<now, bench, invalid, blocked, down, stream, started, ended, attempted, last,
                       commit, wake, history>>
    BY <1>6 DEF Abandon
  <2>2. \E result \in Outcomes \ NoKeysLeft : Return(r, result)
    BY <1>6, EndIsReported DEF Abandon, Outcomes, NoKeysLeft
  <2>3. PICK result \in Outcomes \ NoKeysLeft : Return(r, result)
    BY <2>2
  <2>4. pc[r] \in Holding /\ wake' \in [Requests -> Nat] /\ ~answered[r]
    BY <2>1 DEF Holding, AttemptInv, AttemptTypeOK, RequestInv, OutcomeFits
  <2>. QED  BY <2>1, <2>3, <2>4, GivesBackStep DEF Return
<1>7. ASSUME NEW k \in Keys, NEW limited, DispatchServe(r, k, limited)
      PROVE  AttemptInv'
  <2>1. /\ pc[r] = "queued" /\ k \in Ready(r) /\ Grant(r, k, "granted")
        /\ UNCHANGED <<now, bench, invalid, blocked, down, stream, started, ended, last, wake,
                       outcome, answered, blamed>>
        /\ UNCHANGED <<attempted, commit, calls, late>>
    BY <1>7 DEF DispatchServe, Free, history
  <2>. QED  BY <2>1, GrantStep
<1>. QED  BY <1>1, <1>2, <1>3, <1>4, <1>5, <1>6, <1>7 DEF Wait

\* Run returns an error that is no fault: the lease goes back.
LEMMA ExecuteErrorKeeps ==
  ASSUME AttemptInv, NEW r \in Requests, NEW result \in {"internal", "proxy_rejected"},
         pc[r] \in {"execute", "failing"}, ExecuteError(r, result)
  PROVE  AttemptInv'
<1>1. /\ pc' = [pc EXCEPT ![r] = "done"] /\ outcome' = [outcome EXCEPT ![r] = result] /\ GiveBack(r)
      /\ UNCHANGED <<now, bench, invalid, blocked, down, stream, started, ended, attempted, last,
                     commit, wake, history>>
  BY DEF ExecuteError, Return
<1>2. pc[r] \in Holding /\ wake' \in [Requests -> Nat] /\ ~answered[r]
  BY <1>1 DEF Holding, AttemptInv, AttemptTypeOK, RequestInv, OutcomeFits
<1>3. result \in Outcomes /\ result \notin NoKeysLeft
  BY DEF Outcomes, NoKeysLeft
<1>. QED  BY <1>1, <1>2, <1>3, GivesBackStep

\* executeLease keeps the invariant.
LEMMA ExecuteKeeps ==
  ASSUME AttemptInv, NEW r \in Requests, Execute(r)
  PROVE  AttemptInv'
<1>1. /\ pc[r] = "execute" => lease[r] \in Keys /\ ~answered[r]
      /\ answered \in [Requests -> BOOLEAN] /\ commit \in [Requests -> BOOLEAN]
      /\ bench \in [Keys -> Nat] /\ invalid \subseteq Keys /\ blocked \subseteq Keys
      /\ ProxySparesKeys
  BY DEF AttemptInv, AttemptTypeOK, RequestInv, LeaseIsOwn, OutcomeFits, Holding
<1>2. CASE SecretFails(r) \/ ProxyRejected(r)
  BY <1>2, ExecuteErrorKeeps DEF SecretFails, ProxyRejected
<1>3. CASE ProxyFails(r)
  <2>1. PICK status \in {502, 503} : Faulted(r, upstreamFault(status, TRUE), "faulted", {})
    BY <1>3 DEF ProxyFails
  <2>. DEFINE f == upstreamFault(status, TRUE)
  <2>2. f \in SoundFaults
    BY DEF upstreamFault, FaultOf, SoundFaults, Faults, Scopes
  <2>3. Faulted(r, f, "faulted", {})
    BY <2>1
  <2>4. pc[r] = "execute"
    BY <1>3 DEF ProxyFails
  <2>. HIDE DEF f
  <2>. QED  BY <1>1, <2>2, <2>3, <2>4, FaultedStep
<1>4. CASE CallExpires(r)
  <2>. DEFINE e == IF ended[r] = "canceled" THEN "canceled" ELSE "timeout"
  <2>1. pc[r] = "execute" /\ Faulted(r, classifyRequestError(e), "failing", {lease[r]})
    BY <1>4 DEF CallExpires
  <2>2. e \in {"canceled", "timeout"}
    OBVIOUS
  <2>. HIDE DEF e
  <2>3. classifyRequestError(e) \in SoundFaults
    BY <2>2, RouterFaults
  <2>. QED  BY <1>1, <2>1, <2>3, FaultedStep
<1>5. ASSUME NEW f \in Upstream, CallFails(r, f)
      PROVE  AttemptInv'
  <2>1. pc[r] = "execute" /\ Faulted(r, f, "failing", {lease[r]})
    BY <1>5 DEF CallFails
  <2>2. f \in SoundFaults
    BY UpstreamAssumption DEF SoundFaults
  <2>. QED  BY <1>1, <2>1, <2>2, FaultedStep
<1>6. ASSUME NEW committed \in BOOLEAN, CallSucceeds(r, committed)
      PROVE  AttemptInv'
  <2>1. /\ pc[r] = "execute" /\ pc' = [pc EXCEPT ![r] = "succeeded"]
        /\ commit' = [commit EXCEPT ![r] = committed] /\ answered' = [answered EXCEPT ![r] = TRUE]
        /\ UNCHANGED <<now, inUse, bench, invalid, blocked, down, stream, started, ended, attempted, lease,
                       last, wake, outcome, calls, late, blamed>>
    BY <1>6 DEF CallSucceeds, poolVars
  <2>2. /\ commit' \in [Requests -> BOOLEAN] /\ answered' \in [Requests -> BOOLEAN]
        /\ \A q \in Requests \ {r} : answered'[q] = answered[q]
    BY <1>1, <2>1
  <2>3. /\ bench' \in [Keys -> Nat] /\ invalid' \subseteq Keys /\ blocked' \subseteq Keys
        /\ ProxySparesKeys'
    BY <1>1, <2>1 DEF ProxySparesKeys
  <2>4. outcome' = IF "succeeded" = "serving" THEN [outcome EXCEPT ![r] = "ok"] ELSE outcome
    BY <2>1
  <2>. QED  BY <2>1, <2>2, <2>3, <2>4, HoldingStep
<1>. QED  BY <1>2, <1>3, <1>4, <1>5, <1>6 DEF Execute

\* Serve keeps the invariant, whatever becomes of the key's cooldown.
LEMMA ServeKeeps ==
  ASSUME AttemptInv, NEW r \in Requests, pc[r] = "succeeded", Serve(r),
         bench' \in [Keys -> Nat], \A k \in Keys : bench'[k] > 0 => bench[k] > 0,
         invalid' \subseteq invalid
  PROVE  AttemptInv'
<1>1. /\ pc' = [pc EXCEPT ![r] = "serving"] /\ outcome' = [outcome EXCEPT ![r] = "ok"]
      /\ UNCHANGED <<now, inUse, blocked, down, stream, started, ended, attempted, lease,
                     last, commit, wake, calls, late, answered, blamed>>
  BY DEF Serve, history
<1>2. /\ answered \in [Requests -> BOOLEAN] /\ commit \in [Requests -> BOOLEAN]
      /\ invalid \subseteq Keys /\ blocked \subseteq Keys /\ ProxySparesKeys
  BY DEF AttemptInv, AttemptTypeOK
<1>3. ProxySparesKeys'
  BY <1>1, <1>2 DEF ProxySparesKeys
<1>4. /\ commit' \in [Requests -> BOOLEAN] /\ answered' \in [Requests -> BOOLEAN]
      /\ \A q \in Requests \ {r} : answered'[q] = answered[q]
      /\ invalid' \subseteq Keys /\ blocked' \subseteq Keys
  BY <1>1, <1>2
<1>5. outcome' = IF "serving" = "serving" THEN [outcome EXCEPT ![r] = "ok"] ELSE outcome
  BY <1>1
<1>. QED  BY <1>1, <1>2, <1>3, <1>4, <1>5, HoldingStep

\* The records about a key keep the invariant: a cooldown is only put on a key
\* whose call failed.
LEMMA RecordKeeps ==
  ASSUME AttemptInv, NEW r \in Requests, Record(r)
  PROVE  AttemptInv'
<1>1. AttemptTypeOK /\ ProxySparesKeys /\ RequestInv(r)
  BY DEF AttemptInv
<1>2. /\ pc[r] \in {"succeeded", "failing"} => lease[r] \in Keys
      /\ pc[r] = "failing" => lease[r] \in blamed /\ ~answered[r]
      /\ last[r] \in Faults /\ last[r].retryAfter >= 0
      /\ pc[r] = "failing" => last[r] \in SoundFaults
  BY <1>1 DEF AttemptTypeOK, RequestInv, LeaseIsOwn, BlameComesFirst, OutcomeFits, FaultIsKept,
              Holding, SoundFaults
<1>3. /\ answered \in [Requests -> BOOLEAN] /\ commit \in [Requests -> BOOLEAN]
      /\ bench \in [Keys -> Nat] /\ invalid \subseteq Keys /\ blocked \subseteq Keys
  BY <1>1 DEF AttemptTypeOK
<1>4. CASE MarkSuccess(r)
  <2>1. /\ pc[r] = "succeeded" /\ bench' = [bench EXCEPT ![lease[r]] = 0] /\ Serve(r)
        /\ invalid' \subseteq invalid
    BY <1>4 DEF MarkSuccess
  <2>2. bench' \in [Keys -> Nat] /\ \A k \in Keys : bench'[k] > 0 => bench[k] > 0
    BY <1>2, <1>3, <2>1
  <2>. QED  BY <2>1, <2>2, ServeKeeps
<1>5. CASE MarkSuccessFails(r)
  <2>. DEFINE e == IF ended[r] = "canceled" THEN "canceled" ELSE "timeout"
  <2>1. /\ pc[r] = "succeeded"
        /\ \/ Serve(r) /\ bench' = bench /\ invalid' = invalid
           \/ ended[r] # "no" /\ Faulted(r, classifyRequestError(e), "faulted", {})
    BY <1>5 DEF MarkSuccessFails
  <2>2. e \in {"canceled", "timeout"}
    OBVIOUS
  <2>. HIDE DEF e
  <2>3. classifyRequestError(e) \in SoundFaults
    BY <2>2, RouterFaults
  <2>4. CASE Serve(r) /\ bench' = bench /\ invalid' = invalid
    BY <1>3, <2>1, <2>4, ServeKeeps
  <2>5. CASE ended[r] # "no" /\ Faulted(r, classifyRequestError(e), "faulted", {})
    BY <2>1, <2>3, <2>5, FaultedStep
  <2>. QED  BY <2>1, <2>4, <2>5
<1>6. CASE MarkFailure(r)
  <2>1. /\ pc[r] = "failing"
        /\ bench' = [bench EXCEPT ![lease[r]] = BenchUntil(lease[r], last[r])]
        /\ invalid' = (IF last[r].disableKey THEN invalid \cup {lease[r]} ELSE invalid)
        /\ blocked' = (IF last[r].blockModel THEN blocked \cup {lease[r]} ELSE blocked)
        /\ pc' = [pc EXCEPT ![r] = "faulted"]
        /\ UNCHANGED <<now, inUse, down, stream, started, ended, attempted, lease, last,
                       commit, wake, outcome, calls, late, answered, blamed>>
    BY <1>6 DEF MarkFailure, history
  <2>2. BenchUntil(lease[r], last[r]) \in Nat
    BY <1>1, <1>2, <2>1, BenchIsTime
  <2>3. bench' \in [Keys -> Nat] /\ invalid' \subseteq Keys /\ blocked' \subseteq Keys
    BY <1>2, <1>3, <2>1, <2>2
  <2>4. ProxySparesKeys'
    BY <1>1, <1>2, <1>3, <2>1 DEF ProxySparesKeys
  <2>5. outcome' = IF "faulted" = "serving" THEN [outcome EXCEPT ![r] = "ok"] ELSE outcome
    BY <2>1
  <2>6. /\ commit' \in [Requests -> BOOLEAN] /\ answered' \in [Requests -> BOOLEAN]
        /\ \A q \in Requests \ {r} : answered'[q] = answered[q] /\ ~answered'[r]
    BY <1>2, <1>3, <2>1
  <2>7. ~answered'[r]
    BY <1>2, <2>1
  <2>. QED  BY <2>1, <2>3, <2>4, <2>5, <2>6, <2>7, HoldingStep
<1>7. CASE MarkFailureFails(r)
  <2>1. CASE ExecuteError(r, "internal")
    BY <1>7, <2>1, ExecuteErrorKeeps DEF MarkFailureFails
  <2>2. CASE ended[r] # "no" /\ Faulted(r, last[r], "faulted", {})
    BY <1>2, <1>7, <2>2, FaultedStep DEF MarkFailureFails
  <2>. QED  BY <1>7, <2>1, <2>2 DEF MarkFailureFails
<1>. QED  BY <1>4, <1>5, <1>6, <1>7 DEF Record

\* What follows a fault, and the handler's Release, keep the invariant.
LEMMA DecideKeeps ==
  ASSUME AttemptInv, NEW r \in Requests, Decide(r) \/ Release(r)
  PROVE  AttemptInv'
<1>1. AttemptTypeOK /\ CountsBalance /\ ProxySparesKeys /\ RequestInv(r)
  BY DEF AttemptInv
<1>2. wake \in [Requests -> Nat] /\ outcome \in [Requests -> Outcomes] /\ pc \in [Requests -> States]
  BY <1>1 DEF AttemptTypeOK
<1>3. /\ pc[r] \in {"faulted", "serving"} => pc[r] \in Holding
      /\ pc[r] = "faulted" => /\ outcome[r] = "none" /\ (answered[r] => ended[r] # "no")
                              /\ last[r].status # 0
      /\ pc[r] = "serving" => outcome[r] = "ok"
      /\ pc[r] = "backoff" => outcome[r] = "none" /\ ~answered[r]
  BY <1>1 DEF RequestInv, OutcomeFits, FaultIsKept, Holding
<1>4. /\ "fault" \in Outcomes /\ "none" \in Outcomes /\ "ok" \in Outcomes
      /\ "fault" \notin NoKeysLeft /\ "none" \notin NoKeysLeft /\ "ok" \notin NoKeysLeft
  BY DEF Outcomes, NoKeysLeft
<1>5. CASE ReturnFault(r)
  BY <1>2, <1>3, <1>4, <1>5, GivesBackStep DEF ReturnFault, Return
<1>6. CASE Retry(r)
  <2>1. /\ pc[r] = "faulted" /\ ~GivesUp(r) /\ pc' = [pc EXCEPT ![r] = "backoff"]
        /\ wake' = [wake EXCEPT ![r] = backoff(r)] /\ GiveBack(r)
        /\ UNCHANGED <<now, bench, invalid, blocked, down, stream, started, ended, attempted, last,
                       commit, outcome, history>>
    BY <1>6 DEF Retry
  <2>2. wake' \in [Requests -> Nat]
    BY <1>1, <1>2, <2>1, WakeIsTime
  <2>3. Attempts(r) \in Nat
    BY <1>1, FS_Subset, FS_CardinalityType, RequestsAndKeysAreFinite DEF Attempts, AttemptTypeOK
  <2>4. Attempts(r) < MaxAttempts /\ ended[r] = "no"
    BY <2>1, <2>3, BudgetAssumption DEF GivesUp
  <2>5. late[r] = 0
    <3>1. ~(now >= retryDeadline(r))
      BY <2>1 DEF GivesUp
    <3>2. late[r] \in Nat /\ late[r] <= 1 /\ late[r] # 1
      BY <1>1, <3>1 DEF AttemptTypeOK, RequestInv, LateEndsLoop
    <3>. QED  BY <3>2
  <2>6. outcome' = [outcome EXCEPT ![r] = "none"] /\ ~answered[r]
    BY <1>2, <1>3, <2>1, <2>4
  <2>. QED  BY <1>3, <1>4, <2>1, <2>2, <2>4, <2>5, <2>6, GivesBackStep
<1>7. CASE BackoffOver(r)
  BY <1>7, WaitingStep DEF BackoffOver
<1>8. CASE BackoffCut(r)
  BY <1>4, <1>8, AcquireFailsStep DEF BackoffCut
<1>9. CASE Release(r)
  <2>1. /\ pc[r] = "serving" /\ pc' = [pc EXCEPT ![r] = "done"] /\ GiveBack(r)
        /\ UNCHANGED <<now, bench, invalid, blocked, down, stream, started, ended, attempted, last,
                       commit, wake, outcome, history>>
    BY <1>9 DEF Release
  <2>2. outcome' = [outcome EXCEPT ![r] = "ok"]
    BY <1>2, <1>3, <2>1
  <2>. QED  BY <1>2, <1>3, <1>4, <2>1, <2>2, GivesBackStep
<1>. QED  BY <1>5, <1>6, <1>7, <1>8, <1>9 DEF Decide

\* A request that begins keeps the invariant.
LEMMA StartKeeps ==
  ASSUME AttemptInv, NEW r \in Requests, NEW s \in BOOLEAN, Start(r, s)
  PROVE  AttemptInv'
<1>1. /\ pc[r] = "idle" /\ pc' = [pc EXCEPT ![r] = "acquire"]
      /\ stream' = [stream EXCEPT ![r] = s] /\ started' = [started EXCEPT ![r] = now]
      /\ UNCHANGED <<now, inUse, bench, invalid, blocked, down, ended, attempted, lease, last, commit,
                     wake, outcome, calls, late, answered, blamed>>
  BY DEF Start, poolVars, history
<1>2. AttemptTypeOK /\ CountsBalance /\ ProxySparesKeys /\ RequestInv(r)
  BY DEF AttemptInv
<1>3. /\ pc' \in [Requests -> States] /\ pc'[r] = "acquire"
      /\ \A q \in Requests \ {r} : pc'[q] = pc[q]
  BY <1>1, <1>2 DEF AttemptTypeOK, States
<1>4. stream' \in [Requests -> BOOLEAN] /\ started' \in [Requests -> 0..Horizon]
  BY <1>1, <1>2 DEF AttemptTypeOK
<1>5. AttemptTypeOK'
  BY <1>1, <1>2, <1>3, <1>4 DEF AttemptTypeOK
<1>6. CountsBalance' /\ ProxySparesKeys'
  BY <1>1, <1>2 DEF CountsBalance, ProxySparesKeys
<1>7. OthersKept(r) /\ blamed \subseteq blamed'
  BY <1>1, <1>3 DEF OthersKept
<1>8. Attempts(r)' = Attempts(r)
  BY <1>1 DEF Attempts
<1>9. LeaseIsOwn(r)' /\ CallsAreCounted(r)' /\ OutcomeFits(r)' /\ BlameComesFirst(r)'
  BY <1>1, <1>2, <1>3, <1>8
  DEF RequestInv, LeaseIsOwn, CallsAreCounted, OutcomeFits, BlameComesFirst, Holding, Asking
<1>10. FaultIsKept(r)'
  BY <1>1, <1>2, <1>3 DEF RequestInv, FaultIsKept, Asking
<1>11. LateEndsLoop(r)'
  BY <1>1, <1>2 DEF RequestInv, LateEndsLoop, Asking
<1>. QED  BY <1>5, <1>6, <1>7, <1>9, <1>10, <1>11, StepKeeps DEF RequestInv

\* The world: clients that leave, deadlines, the shutdown. A context that has
\* ended stays so.
LEMMA WorldKeeps ==
  ASSUME AttemptInv, \/ \E r \in Requests : Disconnect(r)
                     \/ Shutdown \/ Tick \/ UNCHANGED attemptVars
  PROVE  AttemptInv'
<1>1. AttemptTypeOK /\ CountsBalance /\ ProxySparesKeys /\ \A q \in Requests : RequestInv(q)
  BY DEF AttemptInv
<1>2. /\ UNCHANGED <<inUse, bench, invalid, blocked, pc, stream, started, attempted, lease, last, commit,
                     wake, outcome, calls, late, answered, blamed>>
      /\ now' >= now
  <2>0. now \in Nat
    BY <1>1, BudgetAssumption DEF AttemptTypeOK
  <2>1. ASSUME NEW r \in Requests, Disconnect(r)
        PROVE  <1>2!1 /\ now' >= now
    BY <2>0, <2>1 DEF Disconnect, poolVars, history
  <2>2. CASE Shutdown
    BY <2>0, <2>2 DEF Shutdown, requestVars, history
  <2>3. CASE Tick
    BY <2>0, <2>3 DEF Tick, poolVars, history
  <2>4. CASE UNCHANGED attemptVars
    BY <2>0, <2>4 DEF attemptVars, poolVars, requestVars, history
  <2>. QED  BY <2>1, <2>2, <2>3, <2>4
<1>3. /\ now' \in 0..Horizon /\ down' \in BOOLEAN
      /\ ended' \in [Requests -> {"no", "canceled", "deadline"}]
      /\ \A q \in Requests : ended[q] # "no" => ended'[q] # "no"
  <2>1. /\ now \in 0..Horizon /\ down \in BOOLEAN
        /\ ended \in [Requests -> {"no", "canceled", "deadline"}]
    BY <1>1 DEF AttemptTypeOK
  <2>2. ASSUME NEW r \in Requests, Disconnect(r)
        PROVE  <1>3
    BY <2>1, <2>2 DEF Disconnect, poolVars
  <2>3. CASE Shutdown
    BY <2>1, <2>3 DEF Shutdown, requestVars
  <2>4. CASE Tick
    BY <2>1, <2>4, BudgetAssumption DEF Tick, poolVars
  <2>5. CASE UNCHANGED attemptVars
    BY <2>1, <2>5 DEF attemptVars, poolVars, requestVars
  <2>. QED  BY <2>2, <2>3, <2>4, <2>5
<1>4. AttemptTypeOK' /\ CountsBalance' /\ ProxySparesKeys'
  BY <1>1, <1>2, <1>3 DEF AttemptTypeOK, CountsBalance, ProxySparesKeys
<1>5. ASSUME NEW q \in Requests
      PROVE  RequestInv(q)'
  <2>1. Attempts(q)' = Attempts(q)
    BY <1>2 DEF Attempts
  <2>2. LeaseIsOwn(q)' /\ CallsAreCounted(q)' /\ BlameComesFirst(q)'
    BY <1>1, <1>2, <2>1 DEF RequestInv, LeaseIsOwn, CallsAreCounted, BlameComesFirst
  <2>3. OutcomeFits(q)'
    BY <1>1, <1>2, <1>3, Zenon DEF RequestInv, OutcomeFits
  <2>4. FaultIsKept(q)'
    BY <1>1, <1>2 DEF RequestInv, FaultIsKept
  <2>5. LateEndsLoop(q)'
    <3>1. retryDeadline(q)' = retryDeadline(q)
      BY <1>2 DEF retryDeadline, totalDeadline
    <3>2. now \in Nat /\ now' \in Nat /\ retryDeadline(q) \in Nat
      BY <1>1, <1>3, BudgetAssumption DEF AttemptTypeOK, retryDeadline, totalDeadline
    <3>. QED  BY <1>1, <1>2, <3>1, <3>2 DEF RequestInv, LateEndsLoop
  <2>. QED  BY <2>2, <2>3, <2>4, <2>5 DEF RequestInv
<1>. QED  BY <1>4, <1>5 DEF AttemptInv

(***************************************************************************)
(* Theorems                                                                *)
(***************************************************************************)
\* The invariant of the retry loop holds for any number of requests and keys and
\* whatever the budgets are: in particular a count never goes below zero and no
\* path out of executeLease loses a lease (attempt.go:150-260, 380-480).
THEOREM AttemptInductive == AttemptSpec => []AttemptInv
<1>1. AttemptInit => AttemptInv
  <2>. SUFFICES ASSUME AttemptInit PROVE AttemptInv
    OBVIOUS
  <2>1. AttemptTypeOK
    <3>1. NoFault \in Faults
      BY RouterFaults
    <3>2. /\ inUse \in [Keys -> Nat] /\ bench \in [Keys -> Nat] /\ calls \in [Requests -> Nat]
          /\ late \in [Requests -> Nat]
          /\ wake \in [Requests -> Nat] /\ started \in [Requests -> 0..Horizon] /\ now \in 0..Horizon
      BY BudgetAssumption DEF AttemptInit
    <3>3. /\ pc \in [Requests -> States] /\ outcome \in [Requests -> Outcomes]
          /\ ended \in [Requests -> {"no", "canceled", "deadline"}]
      BY DEF AttemptInit, States, Outcomes
    <3>4. /\ invalid \subseteq Keys /\ blocked \subseteq Keys /\ attempted \in [Requests -> SUBSET Keys]
          /\ lease \in [Requests -> Keys \cup {NoKey}] /\ last \in [Requests -> Faults]
          /\ blamed \subseteq Keys
      BY <3>1 DEF AttemptInit
    <3>5. /\ down \in BOOLEAN /\ stream \in [Requests -> BOOLEAN]
          /\ commit \in [Requests -> BOOLEAN] /\ answered \in [Requests -> BOOLEAN]
      BY DEF AttemptInit
    <3>. QED  BY <3>2, <3>3, <3>4, <3>5 DEF AttemptTypeOK
  <2>2. CountsBalance
    <3>1. \A k \in Keys : {r \in Requests : lease[r] = k} = {}
      BY KeyAssumption DEF AttemptInit
    <3>. QED  BY <3>1, FS_EmptySet DEF AttemptInit, CountsBalance
  <2>3. ProxySparesKeys
    BY DEF AttemptInit, ProxySparesKeys
  <2>4. ASSUME NEW r \in Requests
        PROVE  RequestInv(r)
    <3>1. Attempts(r) = 0
      BY FS_EmptySet DEF AttemptInit, Attempts
    <3>2. last[r].retryAfter >= 0
      BY RouterFaults DEF AttemptInit
    <3>3. LeaseIsOwn(r) /\ OutcomeFits(r) /\ BlameComesFirst(r)
      BY <3>2 DEF AttemptInit, LeaseIsOwn, OutcomeFits, BlameComesFirst, Holding, NoKeysLeft
    <3>5. FaultIsKept(r) /\ LateEndsLoop(r)
      BY DEF AttemptInit, FaultIsKept, LateEndsLoop
    <3>4. CallsAreCounted(r)
      BY <3>1, BudgetAssumption DEF AttemptInit, CallsAreCounted
    <3>. QED  BY <3>3, <3>4, <3>5 DEF RequestInv
  <2>. QED  BY <2>1, <2>2, <2>3, <2>4 DEF AttemptInv
<1>2. AttemptInv /\ [AttemptNext]_attemptVars => AttemptInv'
  BY AcquireKeeps, WaitKeeps, ExecuteKeeps, RecordKeeps, DecideKeeps, StartKeeps, WorldKeeps
  DEF AttemptNext, Step
<1>. QED  BY <1>1, <1>2, PTL DEF AttemptSpec

\* Every upstream call is made on a lease of the request's own, on a key it has
\* not called before and at most max_attempts_per_request times, and every lease
\* is given back on every path (attempt.go:188, 229, 240).
THEOREM AttemptCallsOnLeases == AttemptSpec => []CallsOnLeases
<1>1. AttemptInv => CallsOnLeases
  <2>. SUFFICES ASSUME AttemptInv PROVE CallsOnLeases
    OBVIOUS
  <2>1. LeasesBalance
    BY DEF AttemptInv, CountsBalance, RequestInv, LeaseIsOwn, LeasesBalance
  <2>2. BoundedFanOut
    BY DEF AttemptInv, RequestInv, CallsAreCounted, BoundedFanOut
  <2>. QED  BY <2>1, <2>2 DEF CallsOnLeases, AttemptInv
<1>. QED  BY <1>1, AttemptInductive, PTL

\* A 2xx reaches a client that is still there, whoever is told that no key is left
\* has not called one, and only a call that failed puts a cooldown on its
\* key (attempt.go:422-470).
THEOREM AttemptOutcomesTrue == AttemptSpec => []OutcomesAreTrue
<1>1. AttemptInv => OutcomesAreTrue
  <2>. SUFFICES ASSUME AttemptInv PROVE OutcomesAreTrue
    OBVIOUS
  <2>1. SuccessReachesClient
    BY DEF AttemptInv, RequestInv, OutcomeFits, SuccessReachesClient
  <2>2. ExhaustionShowsFault
    BY DEF AttemptInv, RequestInv, OutcomeFits, ExhaustionShowsFault
  <2>. QED  BY <2>1, <2>2 DEF OutcomesAreTrue, AttemptInv
<1>. QED  BY <1>1, AttemptInductive, PTL

\* A call may begin after the retry window, on a lease that was asked for in time,
\* but only one, and nothing follows it (attempt.go:229-234, queue.go:115-119).
THEOREM AttemptWindowKept == AttemptSpec => []LateCallIsLast
<1>1. AttemptInv => LateCallIsLast
  BY DEF AttemptInv, RequestInv, LateEndsLoop, LateCallIsLast
<1>. QED  BY <1>1, AttemptInductive, PTL

=============================================================================

------------------------------- MODULE MCKeys -------------------------------
(***************************************************************************)
(* How the upstream keys are used, in four parts that share no state: the  *)
(* history of one key, the operator's failover list, the retry loop of     *)
(* requests, and a key's row in the table and in the pool.  A behaviour is *)
(* a behaviour of one part, the others stay at their beginning.  The retry *)
(* loop runs under two loads: one request that meets every fault on more   *)
(* keys than it may try, and two of one kind, which meet at the same slots *)
(* of two keys, with one fault and one client that may leave.  The table   *)
(* and the pool have two casts: everybody, before any cooldown is over,    *)
(* and, as the clock moves, all but those who test or probe a key.         *)
(***************************************************************************)
EXTENDS KeyLadder, FailoverMatcher, Attempt, KeySync, TLC

VARIABLE part

\* One status of every class the classifier tells apart and the Retry-After
\* headers at its boundaries.
Header(k, v) == [kind |-> k, value |-> v]

Headers ==
  {Header("absent", 0), Header("malformed", 0), Header("date", -1000),
   Header("seconds", 1), Header("seconds", 600), Header("date", 500)}

AllResponses ==
  [status : {304, 400, 401, 403, 408, 429, 501, 503},
   credential : BOOLEAN, header : Headers]

AllListed == 400..599
JitterEnds == {8, 12}
HalfSeconds == {0, 500}

\* Adjacent, overlapping, nested and invalid ranges around the ends of the
\* accepted codes.
Edges == {399, 400, 402, 403, 405, 600}
AnyStatus == {0, 399, 600, 428, 429, 430, 501, 504, 529} \cup 400..406
DefaultRanges ==
  << Codes(429, 429), Codes(500, 500), Codes(502, 502), Codes(503, 503), Codes(504, 504),
     Codes(529, 529) >>

\* A rate limit with a hint, an overloaded server, a blocked model, a rejected
\* credential and a first-byte timeout.
RateLimited == [FaultOf(429, "transient_credential", TRUE) EXCEPT
                  !.retryAfter = 2 * Second, !.retryAfterValid = TRUE]

EveryFault ==
  {RateLimited, upstreamFault(503, TRUE), ModelNotAvailable(403),
   credentialFault(401, TRUE), classifyRequestError("first_byte_timeout")}

DefaultListed == {429, 500, 502, 503, 504, 529}

\* The keys of the retry loop are interchangeable: one set of blocked or of
\* invalid keys of each size is enough to begin with.
Init ==
  /\ part \in {"ladder", "matcher", "alone", "contention", "everybody", "no tests"}
  /\ LadderInit /\ MatcherInit /\ SyncInit
  /\ AttemptInit
  /\ \E n \in 0..Cardinality(Keys) : \E m \in n..Cardinality(Keys) :
       blocked = 1..n /\ invalid = Keys \ (1..m) /\ (blocked = {} \/ invalid = {})
  /\ part = "contention" => blocked = {1} /\ invalid = {}
  /\ part \notin {"alone", "contention"} => blocked = {} /\ invalid = {}

WithinLoad ==
  \/ part = "alone" /\ Cardinality({r \in Requests : pc[r] # "idle"}) <= 1
  \/ /\ part = "contention"
     /\ \A r \in Requests : last[r] \notin EveryFault \ {RateLimited}
     /\ Cardinality({r \in Requests : ended[r] = "canceled"}) <= 1
     /\ \A r, q \in Requests : "idle" \notin {pc[r], pc[q]} => stream[r] = stream[q]

WithinCast ==
  \/ part = "everybody" /\ instant = 1
  \/ part = "no tests" /\ \A w \in Workers : op[w].step \notin {"testing", "taken"}

LadderMoves == part = "ladder" /\ LadderNext /\ UNCHANGED <<matcherVars, attemptVars, syncVars, part>>
MatcherMoves == part = "matcher" /\ MatcherNext /\ UNCHANGED <<ladderVars, attemptVars, syncVars, part>>
AttemptMoves ==
  /\ part \in {"alone", "contention"}
  /\ AttemptNext /\ UNCHANGED <<ladderVars, matcherVars, syncVars, part>>
  /\ WithinLoad'
SyncMoves ==
  /\ part \in {"everybody", "no tests"}
  /\ SyncNext /\ UNCHANGED <<ladderVars, matcherVars, attemptVars, part>>
  /\ WithinCast'

Next == LadderMoves \/ MatcherMoves \/ AttemptMoves \/ SyncMoves
Spec == Init /\ [][Next]_<<ladderVars, matcherVars, attemptVars, syncVars, part>>

\* Where one request at a time uses a key and nobody tests or probes it, a
\* cooldown in the table is in memory too, whatever the administrator switches:
\* the pool does not schedule a key during its own cooldown (SetKeyEnabled,
\* pool.go:193-198).
TogglesKeepCooldown == part = "no tests" => CooldownKept

Symmetry == Permutations(Requests)

\* However commits and their application to memory interleave, with one
\* administrator the pool has the keys, the switches and, where one request at a
\* time uses a key, the cooldowns of the table.
PoolFollowsTable == SyncTypeOK /\ SameKeys /\ SwitchKept /\ TogglesKeepCooldown
=============================================================================

------------------------------- MODULE Fault -------------------------------
(***************************************************************************)
(* What an upstream failure means: the classifier of internal/fault, the   *)
(* retry decision of the router and the cooldown a failure earns.  Pure    *)
(* operators; durations are milliseconds.                                  *)
(***************************************************************************)
EXTENDS Integers

Second == 1000

Scopes == {"request", "credential", "model_credential",
           "transient_credential", "upstream_global"}

\* The fields of fault.Fault that decide anything; firstByte says that the
\* cause is ErrFirstByteTimeout.
Faults ==
  [status : Int, scope : Scopes, retryable : BOOLEAN, retryAfter : Int,
   retryAfterValid : BOOLEAN, disableKey : BOOLEAN, blockModel : BOOLEAN,
   firstByte : BOOLEAN]

FaultOf(status, scope, retryable) ==
  [status |-> status, scope |-> scope, retryable |-> retryable,
   retryAfter |-> 0, retryAfterValid |-> FALSE, disableKey |-> FALSE,
   blockModel |-> FALSE, firstByte |-> FALSE]

\* A Retry-After header: a number of seconds, a date that lies value
\* milliseconds ahead, or nothing usable ("malformed" covers negative numbers
\* and numbers of seconds that do not fit a Duration).
ParseRetryAfter(header) ==
  CASE header.kind = "seconds" ->
         [after |-> header.value * Second, valid |-> TRUE]
    [] header.kind = "date" ->
         [after |-> IF header.value < 0 THEN 0 ELSE header.value, valid |-> TRUE]
    [] header.kind \in {"absent", "malformed"} ->
         [after |-> 0, valid |-> FALSE]

\* The error bodies name a bad credential without the authority to say so when
\* the status is neither 401 nor 403: such a key is not disabled.
credentialFault(status, disable) ==
  IF disable
  THEN [FaultOf(status, "credential", FALSE) EXCEPT !.disableKey = TRUE]
  ELSE FaultOf(status, "request", FALSE)

requestFault(status) == FaultOf(status, "request", FALSE)
upstreamFault(status, retryable) == FaultOf(status, "upstream_global", retryable)

\* fault.Protocol and fault.EmptyResponse: defects of a response body.
Protocol == FaultOf(502, "upstream_global", TRUE)
EmptyResponse ==
  [FaultOf(429, "transient_credential", TRUE) EXCEPT !.retryAfter = Second]

ModelNotAvailable(status) ==
  [FaultOf(status, "model_credential", TRUE) EXCEPT !.blockModel = TRUE]

Hinted(f, header) ==
  LET hint == ParseRetryAfter(header)
  IN  [f EXCEPT !.retryAfter = hint.after, !.retryAfterValid = hint.valid]

\* Statuses of a server in trouble that another attempt may get past.
Overloaded == {500, 502, 503, 504, 529}

\* Classify for a response: its status, whether the body names a credential
\* error, and its Retry-After header.
ClassifyResponse(response, modelsRequest) ==
  LET status == response.status IN
  CASE status = 401 -> credentialFault(status, TRUE)
    [] status = 403 /\ (response.credential \/ modelsRequest) ->
         credentialFault(status, TRUE)
    [] status = 403 /\ ~response.credential /\ ~modelsRequest ->
         ModelNotAvailable(status)
    [] status \in 400..499 \ {401, 403} /\ response.credential ->
         credentialFault(status, FALSE)
    [] status = 429 /\ ~response.credential ->
         Hinted(FaultOf(status, "transient_credential", TRUE), response.header)
    [] status \in 400..499 \ {401, 403, 429} /\ ~response.credential ->
         requestFault(status)
    [] status \in Overloaded ->
         LET f == upstreamFault(status, TRUE)
         IN  IF ParseRetryAfter(response.header).after > 0
             THEN Hinted(f, response.header) ELSE f
    [] status \in 500..599 \ Overloaded -> upstreamFault(status, FALSE)
    [] status \notin 400..599 -> upstreamFault(502, FALSE)

\* Classify for a request that produced no response.
RequestErrors ==
  {"canceled", "first_byte_timeout", "timeout", "connection", "other"}

classifyRequestError(error) ==
  CASE error = "canceled" -> requestFault(499)
    [] error = "first_byte_timeout" ->
         [upstreamFault(504, FALSE) EXCEPT !.firstByte = TRUE]
    [] error = "timeout" -> upstreamFault(504, TRUE)
    [] error = "connection" -> upstreamFault(502, TRUE)
    [] error = "other" -> upstreamFault(502, FALSE)

\* The router's retry decision: Classify's flag, widened by the statuses the
\* operator listed, never for a request that timed out after it was written.
shouldRetry(f, matched) ==
  /\ ~f.firstByte
  /\ f.retryable \/ f.status \in matched

(***************************************************************************)
(* The cooldown ladder.                                                    *)
(***************************************************************************)
initialRateLimitCooldown == 5 * Second
maximumRateLimitCooldown == 300 * Second
transientCooldown == 15 * Second
maximumCooldownLevel == 6

\* No number of rungs takes a key out for longer than the maximum.
Capped(duration) ==
  IF duration > maximumRateLimitCooldown
  THEN maximumRateLimitCooldown ELSE duration

\* The jitter factor, in tenths.
JitterTenths == 8..12

\* Slip: the factor spreads from a half to one and a half.
WideJitter(base, tenths) == Capped((base * (10 + (5 * (tenths - 10)) \div 2)) \div 10)

applyJitter(base, tenths) == Capped((base * tenths) \div 10)

rateLimitCooldown(level) ==
  IF level >= maximumCooldownLevel
  THEN maximumRateLimitCooldown
  ELSE initialRateLimitCooldown * 2 ^ level

nextCooldownLevel(level) ==
  IF level < maximumCooldownLevel THEN level + 1 ELSE level

\* The duration and the next level.
CalculateCooldown(f, level, tenths) ==
  CASE f.status = 429 /\ (f.retryAfterValid \/ f.retryAfter > 0) ->
         [duration |-> Capped(f.retryAfter), level |-> nextCooldownLevel(level)]
    [] f.status = 429 /\ ~f.retryAfterValid /\ f.retryAfter <= 0 ->
         [duration |-> applyJitter(rateLimitCooldown(level), tenths),
          level |-> nextCooldownLevel(level)]
    [] f.status \in 500..599 /\ f.retryable ->
         [duration |-> IF f.retryAfter > 0 THEN Capped(f.retryAfter)
                       ELSE transientCooldown,
          level |-> level]
    [] OTHER -> [duration |-> 0, level |-> level]

\* Slip: no floor.
Unfloored(f, duration) == duration

\* The two-second floor markFailure puts under a short Retry-After of a 429.
Floored(f, duration) ==
  IF f.status = 429 /\ f.retryAfter > 0 /\ f.retryAfter < 2 * Second
  THEN 2 * Second ELSE duration

\* formatTimestamp keeps whole seconds: what is left of a cooldown of the given
\* duration that was recorded phase milliseconds into a second.
Stored(phase, duration) ==
  ((phase + duration) \div Second) * Second - phase
=============================================================================

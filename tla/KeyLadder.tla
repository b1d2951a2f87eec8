----------------------------- MODULE KeyLadder -----------------------------
(***************************************************************************)
(* The failure history of one key: what markSuccess and markFailure of     *)
(* internal/nvidiakey/repository.go do to its row, fault after fault.      *)
(***************************************************************************)
EXTENDS Fault

CONSTANTS
  Responses,   \* upstream responses that are not 2xx
  Phases,      \* how far into a second a failure may happen
  Jitters,     \* the tenths applyJitter may draw
  Covered      \* statuses in the operator's failover list

ASSUME JitterAssumption == Jitters \subseteq JitterTenths
ASSUME PhaseAssumption == Phases \subseteq 0..(Second - 1)
\* ParseFailoverMatcher accepts error statuses only (matcher.go:108, 115).
ASSUME CoveredAssumption == Covered \subseteq 400..599
ASSUME ResponsesAssumption ==
  \A response \in Responses :
    /\ response.status \in Int /\ response.credential \in BOOLEAN
    /\ response.header.kind \in {"seconds", "date", "absent", "malformed"}
    /\ response.header.value \in Int
    /\ response.header.kind = "seconds" => response.header.value >= 0

VARIABLES
  row,     \* the scheduling columns of nvidia_keys, and the block on the model
  recent,  \* the fault recorded last
  rung     \* the longest cooldown drawn from the ladder since the last success

ladderVars == <<row, recent, rung>>

\* The columns a fresh or a successful key has; cooldown is what cooldown_until
\* left at the moment it was recorded, 0 or less when it left nothing.
FreshKey == [authInvalid |-> FALSE, cooldown |-> 0, level |-> 0, blocked |-> FALSE]

NoRecord == FaultOf(0, "request", FALSE)

\* Faults of a request: responses, failed requests and defective bodies.
Failures ==
  {ClassifyResponse(response, FALSE) : response \in Responses}
    \cup {classifyRequestError(error) : error \in RequestErrors}
    \cup {Protocol, EmptyResponse}

\* Faults of the credential test an administrator starts.
TestFailures ==
  {ClassifyResponse(response, TRUE) : response \in Responses}
    \cup {classifyRequestError(error) : error \in RequestErrors}
    \cup {Protocol}

LadderInit ==
  /\ row = FreshKey
  /\ recent = NoRecord
  /\ rung = 0

\* The row after markFailure: a cooldown is recorded for a 429 and for whatever
\* CalculateCooldown gives a duration to; auth_invalid is never taken back.
FailedRow(f, phase, tenths) ==
  LET ladder == CalculateCooldown(f, row.level, tenths)
      duration == Floored(f, ladder.duration)
      recorded == f.status = 429 \/ duration > 0
  IN [authInvalid |-> row.authInvalid \/ f.disableKey \/ f.status = 401,
      cooldown |-> IF recorded THEN Stored(phase, duration) ELSE row.cooldown,
      level |-> IF recorded THEN ladder.level ELSE row.level,
      blocked |-> row.blocked \/ f.blockModel]

\* The fault came without a hint, so its cooldown is a rung of the ladder.
OnLadder(f) == f.status = 429 /\ ~f.retryAfterValid /\ f.retryAfter <= 0

markFailure(f) ==
  \E phase \in Phases, tenths \in Jitters :
    /\ row' = FailedRow(f, phase, tenths)
    /\ recent' = f
    /\ rung' = IF OnLadder(f)
               THEN applyJitter(rateLimitCooldown(row.level), tenths) ELSE rung

\* markSuccess resets the scheduling columns and leaves the model block.
markSuccess ==
  /\ row' = [FreshKey EXCEPT !.blocked = row.blocked]
  /\ recent' = NoRecord
  /\ rung' = 0

LadderNext ==
  \/ \E f \in Failures : markFailure(f)
  \/ \E f \in TestFailures : markFailure(f)
  \/ markSuccess

(***************************************************************************)
(* Properties                                                              *)
(***************************************************************************)
LadderTypeOK ==
  /\ row \in [authInvalid : BOOLEAN, cooldown : Int, level : 0..maximumCooldownLevel,
              blocked : BOOLEAN]
  /\ recent \in Faults
  /\ rung \in 0..maximumRateLimitCooldown

\* Rate limits without a hint escalate: whatever jitter was drawn and whatever
\* faults came between, the next rung is longer than every one since the last
\* success until the ladder is at its top (CalculateCooldown, applyJitter).
LadderClimbs ==
  [][OnLadder(recent') /\ recent' # NoRecord /\ row.level \in 1..(maximumCooldownLevel - 1)
       => rung' > rung]_ladderVars

\* The upstream names no wait itself, or one of a server error below a second.
NamesNoWait(f) ==
  \/ f.retryAfterValid /\ f.retryAfter = 0
  \/ f.status # 429 /\ f.retryAfter \in 1..(Second - 1)

\* The fault makes its key rest, or the model rest on its key.
Rests(f) == (f.retryable \/ f.status = 429) /\ ~NamesNoWait(f)

\* Only the operator's list makes the router go on from the fault: a 404, a 501, the
\* 502 of a request that failed for no known reason or of an unexpected response.
OnlyListed(f) == ~f.retryable /\ ~f.disableKey /\ f.status # 429

\* Whenever the router goes on to another key, what it leaves behind on the key the
\* fault happened on is one of five things: a cooldown that, cut to whole seconds, is
\* still ahead; a block on the model; a key that is out for good; a rest the upstream
\* itself named as nothing; or, for a fault only the operator's list covers, the row
\* exactly as it was, so that the next request may take the same key at once.
RetriedKeyRests ==
  [][shouldRetry(recent', Covered) =>
       \/ row'.cooldown > 0
       \/ recent'.blockModel /\ row'.blocked
       \/ recent'.disableKey /\ row'.authInvalid
       \/ NamesNoWait(recent')
       \/ OnlyListed(recent') /\ row' = row]_ladderVars

\* A key goes invalid only on the upstream's own word, a 401 or a 403: there is
\* no automatic way back (credentialFault).
OnlyAuthorityDisables ==
  [][row'.authInvalid /\ ~row.authInvalid => recent'.status \in {401, 403}]_ladderVars

\* A request that was written and then timed out says nothing of the key: it is
\* neither retried, whatever the operator listed, nor held against the key.
TimeoutSparesKey ==
  [][recent'.firstByte => row' = row /\ ~shouldRetry(recent', Covered)]_ladderVars

\* What a fault does to a key is what its classification says: a key that is
\* switched away from rests or is left exactly as it was, only the upstream's word
\* takes it out for good, and a timeout after the request was written is not held
\* against it.
BlameIsJust == []LadderTypeOK /\ RetriedKeyRests /\ OnlyAuthorityDisables /\ TimeoutSparesKey
=============================================================================

----------------------------- MODULE MCKeyPool -----------------------------
(* KeyPool for TLC: requests for one model, and the view that forgets the  *)
(* arguments of calls that are over.                                       *)
EXTENDS KeyPoolTable

CONSTANTS m1, c1, c2, c3

Fresh(stream, latency) ==
  [model |-> m1, attempted |-> {}, stream |-> stream, noRelax |-> FALSE,
   latency |-> latency]

Retry(tried, noRelax) ==
  [model |-> m1, attempted |-> tried, stream |-> FALSE, noRelax |-> noRelax,
   latency |-> FALSE]

ShortRequests == {Fresh(FALSE, FALSE), Retry({1}, FALSE), Retry({1}, TRUE)}
RetryRequests == {Fresh(FALSE, FALSE), Retry({1}, FALSE)}
MixedRequests == {Fresh(FALSE, TRUE), Fresh(TRUE, FALSE)}

Snap(enabled, authInvalid, cooling) ==
  [enabled |-> enabled, authInvalid |-> authInvalid, cooling |-> cooling]

Healthy == {Snap(TRUE, FALSE, FALSE)}
Rested == {Snap(TRUE, FALSE, FALSE), Snap(TRUE, FALSE, TRUE)}
AnyHealth == {Snap(TRUE, FALSE, FALSE), Snap(FALSE, FALSE, FALSE),
              Snap(TRUE, TRUE, FALSE), Snap(TRUE, FALSE, TRUE)}

CallerSymmetry == Permutations(Callers)

InCall(c) == IF pc[c] = "idle" THEN <<>> ELSE <<req[c], cancelled[c]>>

LiveState ==
  <<keys, [k \in keys |-> key[k]], off, order, cursor, closed, lockVars, pc, result, lease, waiters, arrivals, ticked, changes,
    [c \in Callers |-> InCall(c)]>>
=============================================================================

---------------------------- MODULE KeyPoolTable ----------------------------
(* KeyPool implements LeaseTable: a caller asks until it has a lease or its *)
(* Acquire is over, wherever it waits meanwhile; a key is usable for a      *)
(* model when the scan would consider it.                                   *)
EXTENDS KeyPool

UsablePairs ==
  {pair \in keys \X Models : Ready(pair[1], pair[2]) /\ pair[2] \notin off}

AskingCallers ==
  {c \in Callers : /\ pc[c] \in {"acquiring", "waiting", "abandoning", "draining"}
                   /\ lease[c] = NoLease}

Table ==
  INSTANCE LeaseTable WITH open <- ~closed, usable <- UsablePairs,
                           asking <- AskingCallers, want <- req, held <- lease

\* Acquire, Release and StateSync, with the lock, the queue, the dispatch
\* passes and abandonWaiter between them, are steps of the lease table: no key
\* is granted beyond its quota, unusable, already attempted against the
\* caller's wish or after Shutdown, whichever path the lease takes to its
\* caller, and a removed key's leases never count against its successor.
ImplementsLeaseTable == Table!TableSpec
=============================================================================

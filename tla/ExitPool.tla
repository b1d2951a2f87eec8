------------------------------ MODULE ExitPool ------------------------------
(***************************************************************************)
(* The pool of egress exits (internal/xkproxy/pool.go, model.go) and the   *)
(* collector's fetch cycle that feeds it (collector.go).  Points in time   *)
(* are kept as the ticks since or until them, so that the model needs no   *)
(* clock; an exit is its key.  Latencies and quality scores, which only    *)
(* order the candidates, are an arbitrary choice among them.  The sticky   *)
(* bindings of the pool, which no caller uses, are left out.               *)
(***************************************************************************)
EXTENDS Naturals

CONSTANTS
  Exits, Carried,  \* exits; requests carried through them
  Lists,           \* what the provider may answer
  Gone,            \* no exit, no record
  FailureLimit, HTTPFailureLimit, MaxEjections, \* EjectionPolicy
  BaseWindow, MaxWindow,                        \* its isolation windows
  ProxyTTL,        \* the collector's TTL of an exit
  RemovalCooldown, \* how long a removed exit stays out
  RecentWindow,    \* httpEjectSuccessWindow and httpFailureWindow
  FetchAttempts    \* validationRetryLimit

\* The record of an exit.
ExitRecords ==
  [age : Nat, left : Nat, isolated : Nat, ejections : Nat, fails : Nat, http : Nat,
   httpAge : Nat, served : Nat]

\* EjectionPolicy.normalized and validPoolSettings.
ASSUME ExitAssumption ==
  /\ FailureLimit \in Nat \ {0} /\ HTTPFailureLimit \in Nat \ {0} /\ MaxEjections \in Nat \ {0}
  /\ BaseWindow \in Nat \ {0} /\ MaxWindow \in Nat /\ MaxWindow >= BaseWindow
  /\ ProxyTTL \in Nat \ {0} /\ RemovalCooldown \in Nat /\ RecentWindow \in Nat
  /\ FetchAttempts \in Nat /\ Gone \notin Exits /\ Gone \notin ExitRecords
  /\ Lists \subseteq SUBSET Exits

VARIABLES
  exit,    \* per exit: its record in proxies, or Gone
  removed, \* per exit: how much longer it is kept out
  fetch,   \* the fetch cycle: where it is, its batch, its attempt, how old its answer is
  served,  \* per request: the exit it was given and reports on
  owed     \* history, per exit: what is left of the isolation last imposed on it

exitVars == <<exit, removed, fetch, served, owed>>

Long == RecentWindow + 1 \* longer ago than any window
LiveAt(x) == x # Gone /\ x.left > 0
AvailableAt(x) == LiveAt(x) /\ x.isolated = 0

NoFetch == [at |-> "idle", batch |-> {}, attempt |-> 0, age |-> 0, checked |-> 0]

ExitInit ==
  /\ exit = [e \in Exits |-> Gone]
  /\ removed = [e \in Exits |-> 0]
  /\ fetch = NoFetch
  /\ served = [r \in Carried |-> Gone]
  /\ owed = [e \in Exits |-> 0]

\* pruneLocked: what has expired goes.
Pruned == [e \in Exits |-> IF LiveAt(exit[e]) THEN exit[e] ELSE Gone]

(***************************************************************************)
(* Selection: available exits, in a panic all live ones.                   *)
(***************************************************************************)
Live == {e \in Exits : LiveAt(exit[e])}
Available == {e \in Exits : AvailableAt(exit[e])}
Candidates == IF Available # {} THEN Available ELSE Live

Select(r) ==
  /\ served[r] = Gone
  /\ \E e \in Candidates : served' = [served EXCEPT ![r] = e]
  /\ UNCHANGED <<exit, removed, fetch, owed>>

(***************************************************************************)
(* Reports from requests; an exit that has left the pool is nobody.        *)
(***************************************************************************)
\* An isolation is owed from its beginning to its end in time or to a success; what
\* becomes of the exit's record does not change that.
Owing(e, x) ==
  CASE x = Gone -> owed[e]
    [] x # Gone /\ x.isolated > 0 -> x.isolated
    [] x # Gone /\ x.isolated = 0 -> IF x.served = 0 THEN 0 ELSE owed[e]

\* The record of the exit a request reports on becomes x, if the exit is still there.
RecordOf(r) == exit[served[r]]
Report(r, x) ==
  LET e == served[r] IN
  /\ e # Gone
  /\ exit' = [Pruned EXCEPT ![e] = IF LiveAt(RecordOf(r)) THEN x ELSE Gone]
  /\ removed' = IF LiveAt(RecordOf(r)) /\ x = Gone THEN [removed EXCEPT ![e] = RemovalCooldown] ELSE removed
  /\ served' = [served EXCEPT ![r] = Gone]
  /\ owed' = [owed EXCEPT ![e] = IF LiveAt(RecordOf(r)) THEN Owing(e, x) ELSE owed[e]]
  /\ UNCHANGED fetch

EjectionWindow(ejections) ==
  IF BaseWindow * ejections > MaxWindow THEN MaxWindow ELSE BaseWindow * ejections

\* One more ejection: isolation, or removal once there were too many.
Eject(x) ==
  LET count == x.ejections + 1 IN
  IF count > MaxEjections THEN Gone
  ELSE [x EXCEPT !.ejections = count, !.isolated = EjectionWindow(count)]

TransportFailed(x) ==
  IF x.fails + 1 < FailureLimit THEN [x EXCEPT !.fails = x.fails + 1]
  ELSE Eject([x EXCEPT !.fails = 0])
ReportFailure(r) == Report(r, TransportFailed(RecordOf(r)))

\* Slip: HTTP failures isolate in a storm too.
CanEjectAlways == TRUE

\* An HTTP failure isolates only while some exit has served a request recently.
CanEject == \E e \in Live : exit[e].served <= RecentWindow

\* With no failure counted the age of the last one means nothing, and is Long.
CountHTTP(x) ==
  IF x.httpAge > RecentWindow THEN 1
  ELSE IF x.http < HTTPFailureLimit THEN x.http + 1 ELSE x.http

HTTPFailed(x) ==
  LET count == CountHTTP(x) IN
  IF CanEject /\ count >= HTTPFailureLimit
    THEN Eject([x EXCEPT !.http = 0, !.httpAge = Long])
    ELSE [x EXCEPT !.http = count, !.httpAge = 0]
ReportHTTPFailure(r) == Report(r, HTTPFailed(RecordOf(r)))

\* The upstream's own overload (529) blames no exit; a body that breaks off
\* (ReportRequestFailure) only lowers the exit's score.
Blameless(x) == x
ReportBlameless(r) == Report(r, Blameless(RecordOf(r)))

Down(n) == IF n > 0 THEN n - 1 ELSE 0

RequestSucceeded(x) ==
  [x EXCEPT !.http = 0, !.httpAge = Long, !.served = 0, !.fails = Down(x.fails),
            !.ejections = Down(x.ejections), !.isolated = 0]
ReportSuccess(r) == Report(r, RequestSucceeded(RecordOf(r)))

(***************************************************************************)
(* The collector.                                                          *)
(***************************************************************************)
\* The provider answers with a list, with nothing, or with an error.
Fetch ==
  /\ fetch.at \in {"idle", "again"}
  /\ \/ \E batch \in Lists :
          /\ batch # {}
          /\ fetch' = [NoFetch EXCEPT !.at = "fetched", !.batch = batch, !.attempt = fetch.attempt + 1]
     \/ fetch' = [NoFetch EXCEPT !.at = "grace"]
  /\ UNCHANGED <<exit, removed, served, owed>>

\* validateBatch: the exits that pass carry the time of their validation.
ValidateBatch ==
  /\ fetch.at = "fetched"
  /\ \E good \in SUBSET fetch.batch :
       fetch' = CASE good # {} -> [NoFetch EXCEPT !.at = "merge", !.batch = good, !.age = fetch.age]
                  [] good = {} /\ fetch.attempt < FetchAttempts ->
                       [NoFetch EXCEPT !.at = "again", !.attempt = fetch.attempt]
                  [] OTHER -> [NoFetch EXCEPT !.at = "grace"]
  /\ UNCHANGED <<exit, removed, served, owed>>

\* A new exit, and one the pool has: it keeps its isolation and its history.
Collected ==
  [age |-> fetch.checked, left |-> ProxyTTL - fetch.age, isolated |-> 0, ejections |-> 0,
   fails |-> 0, http |-> 0, httpAge |-> Long, served |-> Long]
Refreshed(x) ==
  [x EXCEPT !.age = fetch.checked, !.left = ProxyTTL - fetch.age, !.fails = Down(x.fails)]

StillLive(e) == e \in fetch.batch /\ fetch.age < ProxyTTL
Admits(e) == StillLive(e) /\ removed[e] = 0

Merge ==
  /\ fetch.at = "merge"
  /\ exit' = [e \in Exits |->
               CASE ~Admits(e) -> Pruned[e]
                 [] Admits(e) /\ Pruned[e] = Gone -> Collected
                 [] OTHER -> Refreshed(Pruned[e])]
  /\ fetch' = NoFetch
  /\ UNCHANGED <<removed, served, owed>>

\* gracePool after a cycle without a result: live exits live on for half a TTL,
\* at most two TTLs after their validation.
GraceLeft(x) == IF x.age < 2 * ProxyTTL THEN 2 * ProxyTTL - x.age ELSE 0

Graced(x) ==
  LET wanted == x.left + ProxyTTL \div 2
      granted == IF wanted > GraceLeft(x) THEN GraceLeft(x) ELSE wanted IN
  IF granted > x.left THEN [x EXCEPT !.left = granted] ELSE x

Grace ==
  /\ fetch.at = "grace"
  /\ exit' = [e \in Exits |-> IF LiveAt(exit[e]) THEN Graced(exit[e]) ELSE exit[e]]
  /\ fetch' = NoFetch
  /\ UNCHANGED <<removed, served, owed>>

\* A tick of the clock; ages are counted as far as anything depends on them.
Older(n, most) == IF n < most THEN n + 1 ELSE n

ExitTick ==
  /\ exit' = [e \in Exits |->
       IF ~LiveAt(exit[e]) \/ exit[e].left = 1 THEN Gone
       ELSE [exit[e] EXCEPT !.age = Older(@, 2 * ProxyTTL), !.left = @ - 1, !.isolated = Down(@),
                            !.httpAge = Older(@, Long), !.served = Older(@, Long)]]
  /\ removed' = [e \in Exits |-> Down(removed[e])]
  /\ owed' = [e \in Exits |-> Down(owed[e])]
  /\ fetch' = IF fetch.at \in {"fetched", "merge"}
                THEN [fetch EXCEPT !.age = Older(@, ProxyTTL),
                                   !.checked = IF fetch.at = "merge" THEN Older(@, ProxyTTL) ELSE @]
                ELSE fetch
  /\ UNCHANGED served

ExitNext ==
  \/ \E r \in Carried :
       Select(r) \/ ReportFailure(r) \/ ReportHTTPFailure(r) \/ ReportBlameless(r) \/ ReportSuccess(r)
  \/ Fetch \/ ValidateBatch \/ Merge \/ Grace \/ ExitTick

(***************************************************************************)
(* Properties.                                                             *)
(***************************************************************************)
\* An exit removed for failing again and again stays out for the whole removal
\* cooldown, although every fetch keeps naming it and a batch that was fetched
\* before the removal is merged after it (pool.go:485-506, 600-606).
RemovedStaysOut == \A e \in Exits : removed[e] > 0 => exit[e] = Gone

\* However often the collector fails, no exit is offered later than two TTLs
\* after it was last validated (pool.go:868-911).
StaleExitsAgeOut == \A e \in Live : exit[e].age < 2 * ProxyTTL

\* An isolation is served to its end unless a request succeeds through the exit: a
\* fetch that finds the exit working and refreshes it does not end it, nor does an
\* outage of the provider (pool.go:517-543, 746-771).  The pool keeps it no longer
\* than the exit's record, though: an exit that expires or is removed while it is
\* isolated comes back with the next fetch that names it as an exit without a past
\* (pool.go:503-506), and that is the only one offered before its time.
IsolationIsServed ==
  \A e \in Live : exit[e].isolated = owed[e] \/ exit[e].ejections = 0

\* No live exit has served a request recently.
Storm == \A e \in Live : exit[e].served > RecentWindow

\* In a storm of HTTP failures no exit is isolated, isolated for longer or removed,
\* however often it fails and however often it has been isolated before: an exit is
\* spared, or its TTL ends, or it fails at the transport for the FailureLimit'th time
\* (pool.go:597-611, 645-719).
StormSparesPool ==
  [][Storm => \A e \in Live :
       \/ /\ exit'[e] # Gone
          /\ exit'[e].ejections <= exit[e].ejections /\ exit'[e].isolated <= exit[e].isolated
       \/ exit[e].left = 1 /\ exit'[e] = Gone /\ UNCHANGED served
       \/ /\ exit[e].fails + 1 >= FailureLimit
          /\ \E r \in Carried : served[r] = e /\ ReportFailure(r)
          /\ \A r \in Carried : ~ReportHTTPFailure(r)]_exitVars

\* What the pool offers was validated recently and not removed since.
ExitsAreCurrent == RemovedStaysOut /\ StaleExitsAgeOut

\* Isolation is earned and served: it is imposed for the exit's own failures and
\* ends by its own success or in time, for as long as the pool remembers the exit.
IsolationIsEarned == []IsolationIsServed /\ StormSparesPool
=============================================================================

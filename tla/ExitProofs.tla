----------------------------- MODULE ExitProofs -----------------------------
(***************************************************************************)
(* What the runs check of the egress side on small instances, for any      *)
(* number of exits, requests and updates and any limits: the pool of exits *)
(* offers only current ones and isolates them for their own failures, the  *)
(* managers that are replaced under traffic are closed after their last    *)
(* use, a call through the exits puts one copy of the request on the wire  *)
(* and tells an exit what it earned, and the cache of transports keeps its *)
(* bound and its sessions apart.                                           *)
(***************************************************************************)
EXTENDS ExitPool, ExitTransports, ExitSettings, UpstreamCall, TLAPS, FiniteSetTheorems, SequenceTheorems

(***************************************************************************)
(* The pool of exits: the inductive invariant                              *)
(***************************************************************************)
ExitSpec == ExitInit /\ [][ExitNext]_exitVars

Fetches ==
  [at : {"idle", "again", "fetched", "merge", "grace"}, batch : SUBSET Exits, attempt : Nat,
   age : 0..ProxyTTL, checked : 0..ProxyTTL]

ExitTypeOK ==
  /\ exit \in [Exits -> ExitRecords \cup {Gone}]
  /\ removed \in [Exits -> Nat]
  /\ fetch \in Fetches
  /\ served \in [Carried -> Exits \cup {Gone}]
  /\ owed \in [Exits -> Nat]

\* What an exit has left never reaches past two TTLs after its validation: the
\* reason why the tick, which ages it, cannot leave an old one on offer.
LeftIsBounded == \A e \in Exits : exit[e] # Gone => exit[e].age + exit[e].left <= 2 * ProxyTTL

\* An exit is isolated for what it owes, unless the pool has forgotten its past.
Kept(x, o) == x.isolated = o \/ (x.ejections = 0 /\ x.isolated = 0)
DebtIsKept == \A e \in Exits : exit[e] # Gone => Kept(exit[e], owed[e])

\* The inductive invariant of the pool of exits.
ExitInv == ExitTypeOK /\ LeftIsBounded /\ RemovedStaysOut /\ DebtIsKept

\* An exit one tick later.
Aged(x) ==
  [x EXCEPT !.age = Older(@, 2 * ProxyTTL), !.left = @ - 1, !.isolated = Down(@),
            !.httpAge = Older(@, Long), !.served = Older(@, Long)]

\* Whatever happens, this is what happens to one exit.
ExitMoved(e) ==
  \/ exit'[e] \in {exit[e], Gone} /\ removed'[e] = removed[e] /\ owed'[e] = owed[e]
  \/ /\ LiveAt(exit[e])
     /\ \/ exit'[e] = TransportFailed(exit[e]) \/ exit'[e] = HTTPFailed(exit[e])
        \/ exit'[e] = RequestSucceeded(exit[e]) \/ exit'[e] = exit[e]
     /\ removed'[e] = IF exit'[e] = Gone THEN RemovalCooldown ELSE removed[e]
     /\ owed'[e] = Owing(e, exit'[e])
  \/ /\ Admits(e) /\ ~LiveAt(exit[e])
     /\ exit'[e] = Collected /\ removed'[e] = removed[e] /\ owed'[e] = owed[e]
  \/ /\ Admits(e) /\ LiveAt(exit[e])
     /\ exit'[e] = Refreshed(exit[e]) /\ removed'[e] = removed[e] /\ owed'[e] = owed[e]
  \/ /\ LiveAt(exit[e])
     /\ exit'[e] = Graced(exit[e]) /\ removed'[e] = removed[e] /\ owed'[e] = owed[e]
  \/ /\ removed'[e] = Down(removed[e]) /\ owed'[e] = Down(owed[e])
     /\ exit'[e] = Gone \/ (LiveAt(exit[e]) /\ exit[e].left # 1 /\ exit'[e] = Aged(exit[e]))

(***************************************************************************)
(* What the operators make of a record                                     *)
(***************************************************************************)
\* Counting down stays a number.
LEMMA DownIsNat == \A n \in Nat : Down(n) \in Nat /\ Down(n) <= n
BY DEF Down

\* Counting up to a limit stays a number, and within the limit.
LEMMA OlderIsNat ==
  ASSUME NEW n \in Nat, NEW most \in Nat
  PROVE  Older(n, most) \in Nat /\ Older(n, most) <= n + 1 /\ (n <= most => Older(n, most) <= most)
BY DEF Older

\* Every isolation lasts at least a moment.
LEMMA WindowIsPositive ==
  ASSUME NEW n \in Nat \ {0}
  PROVE  EjectionWindow(n) \in Nat \ {0}
<1>. DEFINE w == BaseWindow * n
<1>1. w \in Nat \ {0}
  BY ExitAssumption
<1>2. EjectionWindow(n) = IF w > MaxWindow THEN MaxWindow ELSE w
  BY DEF EjectionWindow
<1>. HIDE DEF w
<1>. QED  BY <1>1, <1>2, ExitAssumption

\* An ejection removes the exit or isolates it; its times stay.
LEMMA EjectEffect ==
  ASSUME NEW x \in ExitRecords, Eject(x) # Gone
  PROVE  /\ Eject(x) \in ExitRecords /\ Eject(x).age = x.age /\ Eject(x).left = x.left
         /\ Eject(x).isolated > 0
<1>. DEFINE count == x.ejections + 1
            w == EjectionWindow(count)
<1>1. count \in Nat \ {0}
  BY DEF ExitRecords
<1>2. Eject(x) = [x EXCEPT !.ejections = count, !.isolated = w]
  BY DEF Eject
<1>. HIDE DEF count
<1>3. w \in Nat \ {0}
  BY <1>1, WindowIsPositive
<1>. HIDE DEF w
<1>4. Eject(x) \in ExitRecords
  BY <1>1, <1>2, <1>3 DEF ExitRecords
<1>5. Eject(x).age = x.age /\ Eject(x).left = x.left
  BY <1>2 DEF ExitRecords
<1>6. Eject(x).isolated = w
  BY <1>2 DEF ExitRecords
<1>. QED  BY <1>3, <1>4, <1>5, <1>6

\* A transport failure keeps the times of an exit and isolates it or leaves its
\* isolation as it is; below the limit it ejects nothing.
LEMMA TransportFailedEffect ==
  ASSUME NEW x \in ExitRecords, TransportFailed(x) # Gone
  PROVE  /\ TransportFailed(x) \in ExitRecords
         /\ TransportFailed(x).age = x.age /\ TransportFailed(x).left = x.left
         /\ TransportFailed(x).isolated > 0
              \/ (/\ TransportFailed(x).isolated = x.isolated /\ TransportFailed(x).served = x.served
                  /\ TransportFailed(x).ejections = x.ejections)
<1>. DEFINE n == x.fails + 1
            counted == [x EXCEPT !.fails = n]
            reset == [x EXCEPT !.fails = 0]
<1>1. n \in Nat /\ x.fails \in Nat
  BY DEF ExitRecords
<1>2. TransportFailed(x) = IF n < FailureLimit THEN counted ELSE Eject(reset)
  BY DEF TransportFailed
<1>. HIDE DEF n
<1>4. /\ counted \in ExitRecords /\ counted.age = x.age /\ counted.left = x.left
      /\ counted.isolated = x.isolated /\ counted.ejections = x.ejections /\ counted.served = x.served
  BY <1>1 DEF ExitRecords
<1>5. reset \in ExitRecords /\ reset.age = x.age /\ reset.left = x.left
  BY DEF ExitRecords
<1>. HIDE DEF counted, reset
<1>6. CASE n < FailureLimit
  BY <1>2, <1>4, <1>6
<1>7. CASE ~(n < FailureLimit)
  BY <1>2, <1>5, <1>7, EjectEffect
<1>. QED  BY <1>6, <1>7

\* Below the limit a transport failure is only counted.
LEMMA TransportCounted ==
  ASSUME NEW x \in ExitRecords, ~(x.fails + 1 >= FailureLimit)
  PROVE  /\ TransportFailed(x) \in ExitRecords
         /\ TransportFailed(x).isolated = x.isolated /\ TransportFailed(x).ejections = x.ejections
<1>. DEFINE n == x.fails + 1
            counted == [x EXCEPT !.fails = n]
<1>1. n \in Nat /\ n < FailureLimit
  BY ExitAssumption DEF ExitRecords
<1>2. TransportFailed(x) = counted
  BY <1>1 DEF TransportFailed
<1>. HIDE DEF n
<1>3. counted \in ExitRecords /\ counted.isolated = x.isolated /\ counted.ejections = x.ejections
  BY <1>1 DEF ExitRecords
<1>. QED  BY <1>2, <1>3

\* An HTTP failure keeps the times of an exit and isolates it or leaves its isolation
\* as it is; in a storm it is only counted.
LEMMA HTTPFailedEffect ==
  ASSUME NEW x \in ExitRecords
  PROVE  /\ HTTPFailed(x) # Gone =>
              /\ HTTPFailed(x) \in ExitRecords
              /\ HTTPFailed(x).age = x.age /\ HTTPFailed(x).left = x.left
              /\ HTTPFailed(x).isolated > 0
                   \/ (/\ HTTPFailed(x).isolated = x.isolated /\ HTTPFailed(x).served = x.served
                       /\ HTTPFailed(x).ejections = x.ejections)
         /\ ~CanEject =>
              /\ HTTPFailed(x) \in ExitRecords
              /\ HTTPFailed(x).ejections = x.ejections /\ HTTPFailed(x).isolated = x.isolated
<1>. DEFINE count == CountHTTP(x)
            reset == [x EXCEPT !.http = 0, !.httpAge = Long]
            counted == [x EXCEPT !.http = count, !.httpAge = 0]
<1>1. count \in Nat /\ Long \in Nat
  BY ExitAssumption DEF CountHTTP, ExitRecords, Long
<1>2. HTTPFailed(x) = IF CanEject /\ count >= HTTPFailureLimit THEN Eject(reset) ELSE counted
  BY DEF HTTPFailed
<1>. HIDE DEF count
<1>3. /\ counted \in ExitRecords /\ counted.age = x.age /\ counted.left = x.left
      /\ counted.isolated = x.isolated /\ counted.ejections = x.ejections /\ counted.served = x.served
  BY <1>1 DEF ExitRecords
<1>4. reset \in ExitRecords /\ reset.age = x.age /\ reset.left = x.left
  BY <1>1 DEF ExitRecords
<1>. HIDE DEF counted, reset
<1>5. CASE CanEject /\ count >= HTTPFailureLimit
  BY <1>2, <1>4, <1>5, EjectEffect
<1>6. CASE ~(CanEject /\ count >= HTTPFailureLimit)
  BY <1>2, <1>3, <1>6
<1>. QED  BY <1>5, <1>6

\* A success keeps the times of an exit and takes an ejection back.
LEMMA SucceededEffect ==
  ASSUME NEW x \in ExitRecords
  PROVE  /\ RequestSucceeded(x) \in ExitRecords
         /\ RequestSucceeded(x).age = x.age /\ RequestSucceeded(x).left = x.left
         /\ RequestSucceeded(x).served = 0 /\ RequestSucceeded(x).ejections <= x.ejections
         /\ RequestSucceeded(x).isolated = 0
<1>. DEFINE f == Down(x.fails)
            j == Down(x.ejections)
<1>1. f \in Nat /\ j \in Nat /\ j <= x.ejections /\ Long \in Nat
  BY DownIsNat, ExitAssumption DEF ExitRecords, Long
<1>2. RequestSucceeded(x) =
        [x EXCEPT !.http = 0, !.httpAge = Long, !.served = 0, !.fails = f, !.ejections = j, !.isolated = 0]
  BY DEF RequestSucceeded
<1>. HIDE DEF f, j
<1>3. RequestSucceeded(x) \in ExitRecords
  <2>. DEFINE half == [x EXCEPT !.http = 0, !.httpAge = Long, !.served = 0]
              full == [half EXCEPT !.fails = f, !.ejections = j, !.isolated = 0]
  <2>1. half \in ExitRecords
    BY <1>1 DEF ExitRecords
  <2>2. RequestSucceeded(x) = full
    BY <1>2
  <2>. HIDE DEF half
  <2>3. full \in ExitRecords
    BY <1>1, <2>1 DEF ExitRecords
  <2>. QED  BY <2>2, <2>3
<1>4. RequestSucceeded(x).age = x.age /\ RequestSucceeded(x).left = x.left
  BY <1>2 DEF ExitRecords
<1>5. RequestSucceeded(x).served = 0 /\ RequestSucceeded(x).ejections = j /\ RequestSucceeded(x).isolated = 0
  BY <1>2 DEF ExitRecords
<1>. QED  BY <1>1, <1>3, <1>4, <1>5

\* What a fetch brings lives for a TTL at most, and keeps isolation and history.
LEMMA MergedEffect ==
  ASSUME ExitTypeOK, NEW e \in Exits, Admits(e)
  PROVE  /\ Collected \in ExitRecords /\ Collected.age + Collected.left <= 2 * ProxyTTL
         /\ Collected.isolated = 0 /\ Collected.ejections = 0
         /\ \A x \in ExitRecords :
              /\ Refreshed(x) \in ExitRecords /\ Refreshed(x).age + Refreshed(x).left <= 2 * ProxyTTL
              /\ Refreshed(x).isolated = x.isolated /\ Refreshed(x).ejections = x.ejections
<1>. DEFINE a == fetch.checked
            l == ProxyTTL - fetch.age
<1>1. a \in Nat /\ l \in Nat /\ a + l <= 2 * ProxyTTL
  BY ExitAssumption DEF ExitTypeOK, Fetches, Admits, StillLive
<1>2. Long \in Nat
  BY ExitAssumption DEF Long
<1>3. Collected = [age |-> a, left |-> l, isolated |-> 0, ejections |-> 0, fails |-> 0, http |-> 0,
                   httpAge |-> Long, served |-> Long]
  BY DEF Collected
<1>4. ASSUME NEW x \in ExitRecords
      PROVE  /\ Refreshed(x) \in ExitRecords /\ Refreshed(x).age + Refreshed(x).left <= 2 * ProxyTTL
             /\ Refreshed(x).isolated = x.isolated /\ Refreshed(x).ejections = x.ejections
  <2>. DEFINE f == Down(x.fails)
  <2>1. f \in Nat
    BY DownIsNat DEF ExitRecords
  <2>2. Refreshed(x) = [x EXCEPT !.age = a, !.left = l, !.fails = f]
    BY DEF Refreshed
  <2>. HIDE DEF a, l, f
  <2>3. /\ Refreshed(x) \in ExitRecords /\ Refreshed(x).age = a /\ Refreshed(x).left = l
        /\ Refreshed(x).isolated = x.isolated /\ Refreshed(x).ejections = x.ejections
    BY <1>1, <2>1, <2>2 DEF ExitRecords
  <2>. QED  BY <1>1, <2>3
<1>. HIDE DEF a, l
<1>. QED  BY <1>1, <1>2, <1>3, <1>4 DEF ExitRecords

\* The grace reaches two TTLs after the validation at most.
LEMMA GracedEffect ==
  ASSUME NEW x \in ExitRecords, x.age + x.left <= 2 * ProxyTTL
  PROVE  /\ Graced(x) \in ExitRecords /\ Graced(x).age + Graced(x).left <= 2 * ProxyTTL
         /\ Graced(x).isolated = x.isolated /\ Graced(x).ejections = x.ejections
<1>. DEFINE wanted == x.left + ProxyTTL \div 2
            most == GraceLeft(x)
            granted == IF wanted > most THEN most ELSE wanted
            longer == [x EXCEPT !.left = granted]
<1>1. x.age \in Nat /\ x.left \in Nat /\ ProxyTTL \in Nat
  BY ExitAssumption DEF ExitRecords
<1>2. wanted \in Nat
  BY <1>1
<1>3. most \in Nat /\ (x.age < 2 * ProxyTTL => x.age + most <= 2 * ProxyTTL)
      /\ (~(x.age < 2 * ProxyTTL) => most = 0)
  BY <1>1 DEF GraceLeft
<1>4. Graced(x) = IF granted > x.left THEN longer ELSE x
  BY DEF Graced
<1>. HIDE DEF wanted, most
<1>5. granted \in Nat /\ granted <= most
  BY <1>2, <1>3
<1>. HIDE DEF granted
<1>6. granted > x.left => x.age + granted <= 2 * ProxyTTL
  BY <1>1, <1>3, <1>5
<1>7. /\ longer \in ExitRecords /\ longer.age = x.age /\ longer.left = granted
      /\ longer.isolated = x.isolated /\ longer.ejections = x.ejections
  BY <1>5 DEF ExitRecords
<1>. HIDE DEF longer
<1>. QED  BY <1>4, <1>6, <1>7

\* A tick takes from what is left what it adds to the age.
LEMMA AgedEffect ==
  ASSUME NEW x \in ExitRecords, x.left > 0, x.age + x.left <= 2 * ProxyTTL
  PROVE  /\ Aged(x) \in ExitRecords /\ Aged(x).age + Aged(x).left <= 2 * ProxyTTL
         /\ Aged(x).left < x.left /\ Aged(x).ejections = x.ejections
         /\ Aged(x).isolated = Down(x.isolated)
<1>. DEFINE a == Older(x.age, 2 * ProxyTTL)
            l == x.left - 1
            i == Down(x.isolated)
            h == Older(x.httpAge, Long)
            s == Older(x.served, Long)
<1>1. /\ x.age \in Nat /\ x.left \in Nat /\ x.isolated \in Nat /\ x.httpAge \in Nat /\ x.served \in Nat
      /\ 2 * ProxyTTL \in Nat /\ Long \in Nat
  BY ExitAssumption DEF ExitRecords, Long
<1>2. a \in Nat /\ a <= x.age + 1 /\ i \in Nat /\ h \in Nat /\ s \in Nat
  BY <1>1, OlderIsNat, DownIsNat
<1>3. l \in Nat /\ l < x.left
  BY <1>1
<1>4. Aged(x) = [x EXCEPT !.age = a, !.left = l, !.isolated = i, !.httpAge = h, !.served = s]
  BY DEF Aged
<1>5. a + l <= 2 * ProxyTTL
  <2>. HIDE DEF a
  <2>. QED  BY <1>1, <1>2, ExitAssumption
<1>. HIDE DEF a, l, h, s
<1>6. i = Down(x.isolated)
  OBVIOUS
<1>. HIDE DEF i
<1>7. /\ Aged(x) \in ExitRecords /\ Aged(x).age = a /\ Aged(x).left = l
      /\ Aged(x).ejections = x.ejections /\ Aged(x).isolated = i
  BY <1>2, <1>3, <1>4 DEF ExitRecords
<1>. QED  BY <1>3, <1>5, <1>6, <1>7

(***************************************************************************)
(* The steps of one exit                                                   *)
(***************************************************************************)
\* A report replaces the record of the live exit it is about and no other live one's.
LEMMA ReportEffect ==
  ASSUME ExitTypeOK, NEW r \in Carried, NEW x, Report(r, x), NEW e \in Exits, LiveAt(exit[e])
  PROVE  (e # served[r] => exit'[e] = exit[e]) /\ (e = served[r] => exit'[e] = x)
<1>. DEFINE d == served[r]
            y == IF LiveAt(exit[d]) THEN x ELSE Gone
<1>1. exit' = [Pruned EXCEPT ![d] = y]
  BY DEF Report, RecordOf
<1>2. DOMAIN Pruned = Exits /\ Pruned[e] = exit[e]
  BY DEF Pruned
<1>3. e = d => y = x
  OBVIOUS
<1>. HIDE DEF d, y
<1>4. (e # d => exit'[e] = exit[e]) /\ (e = d => exit'[e] = x)
  BY <1>1, <1>2, <1>3
<1>. QED  BY <1>4 DEF d

\* A report replaces the record of the exit it is about, if that is still there.
LEMMA ReportMoves ==
  ASSUME ExitTypeOK, NEW r \in Carried, NEW x, Report(r, x),
         \/ x = TransportFailed(RecordOf(r)) \/ x = HTTPFailed(RecordOf(r))
         \/ x = RequestSucceeded(RecordOf(r)) \/ x = RecordOf(r),
         NEW e \in Exits
  PROVE  ExitMoved(e)
<1>. DEFINE d == served[r]
<1>1. /\ d \in Exits /\ exit \in [Exits -> ExitRecords \cup {Gone}] /\ removed \in [Exits -> Nat]
      /\ owed \in [Exits -> Nat]
  BY DEF ExitTypeOK, Report
<1>2. /\ exit' = [Pruned EXCEPT ![d] = IF LiveAt(exit[d]) THEN x ELSE Gone]
      /\ removed' = IF LiveAt(exit[d]) /\ x = Gone THEN [removed EXCEPT ![d] = RemovalCooldown] ELSE removed
      /\ owed' = [owed EXCEPT ![d] = IF LiveAt(exit[d]) THEN Owing(d, x) ELSE owed[d]]
  BY DEF Report, RecordOf
<1>3. \/ x = TransportFailed(exit[d]) \/ x = HTTPFailed(exit[d])
      \/ x = RequestSucceeded(exit[d]) \/ x = exit[d]
  BY DEF RecordOf
<1>4. \A f \in Exits : Pruned[f] \in {exit[f], Gone}
  BY DEF Pruned
<1>5. DOMAIN Pruned = Exits
  BY DEF Pruned
<1>. HIDE DEF d
<1>6. CASE e # d
  <2>1. exit'[e] \in {exit[e], Gone} /\ removed'[e] = removed[e] /\ owed'[e] = owed[e]
    BY <1>1, <1>2, <1>4, <1>5, <1>6
  <2>. QED  BY <2>1 DEF ExitMoved
<1>7. CASE e = d /\ ~LiveAt(exit[d])
  <2>1. exit'[e] = Gone /\ removed'[e] = removed[e] /\ owed'[e] = owed[e]
    BY <1>1, <1>2, <1>5, <1>7
  <2>. QED  BY <2>1 DEF ExitMoved
<1>8. CASE e = d /\ LiveAt(exit[d])
  <2>1. /\ exit'[e] = x /\ removed'[e] = IF exit'[e] = Gone THEN RemovalCooldown ELSE removed[e]
        /\ owed'[e] = Owing(e, x)
    BY <1>1, <1>2, <1>5, <1>8
  <2>. QED  BY <1>3, <1>8, <2>1 DEF ExitMoved
<1>. QED  BY <1>6, <1>7, <1>8

\* Every step of the pool is one of the moves above, for every exit.
LEMMA EveryExitMoves ==
  ASSUME ExitTypeOK, ExitNext, NEW e \in Exits
  PROVE  ExitMoved(e)
<1>1. exit \in [Exits -> ExitRecords \cup {Gone}] /\ removed \in [Exits -> Nat]
  BY DEF ExitTypeOK
<1>2. ASSUME NEW r \in Carried,
             Select(r) \/ ReportFailure(r) \/ ReportHTTPFailure(r) \/ ReportBlameless(r) \/ ReportSuccess(r)
      PROVE  ExitMoved(e)
  <2>1. CASE Select(r)
    BY <2>1 DEF Select, ExitMoved
  <2>2. CASE ReportFailure(r)
    BY <2>2, ReportMoves DEF ReportFailure
  <2>3. CASE ReportHTTPFailure(r)
    BY <2>3, ReportMoves DEF ReportHTTPFailure
  <2>4. CASE ReportBlameless(r)
    BY <2>4, ReportMoves DEF ReportBlameless, Blameless
  <2>5. CASE ReportSuccess(r)
    BY <2>5, ReportMoves DEF ReportSuccess
  <2>. QED  BY <1>2, <2>1, <2>2, <2>3, <2>4, <2>5
<1>3. CASE Fetch \/ ValidateBatch
  BY <1>3 DEF Fetch, ValidateBatch, ExitMoved
<1>4. CASE Merge
  <2>. DEFINE p == IF LiveAt(exit[e]) THEN exit[e] ELSE Gone
  <2>1. Pruned[e] = p /\ removed' = removed /\ owed' = owed
    BY <1>4 DEF Pruned, Merge
  <2>2. exit'[e] = CASE ~Admits(e) -> Pruned[e]
                     [] Admits(e) /\ Pruned[e] = Gone -> Collected
                     [] OTHER -> Refreshed(Pruned[e])
    BY <1>4 DEF Merge
  <2>3. CASE ~Admits(e)
    BY <2>1, <2>2, <2>3 DEF ExitMoved
  <2>4. CASE Admits(e) /\ ~LiveAt(exit[e])
    BY <2>1, <2>2, <2>4 DEF ExitMoved
  <2>5. CASE Admits(e) /\ LiveAt(exit[e])
    <3>1. Pruned[e] = exit[e] /\ exit[e] # Gone
      BY <2>1, <2>5 DEF LiveAt
    <3>. QED  BY <2>1, <2>2, <2>5, <3>1 DEF ExitMoved
  <2>. QED  BY <2>3, <2>4, <2>5
<1>5. CASE Grace
  <2>1. exit'[e] = IF LiveAt(exit[e]) THEN Graced(exit[e]) ELSE exit[e]
    BY <1>5 DEF Grace
  <2>2. removed' = removed /\ owed' = owed
    BY <1>5 DEF Grace
  <2>. QED  BY <2>1, <2>2 DEF ExitMoved
<1>6. CASE ExitTick
  <2>1. exit'[e] = IF ~LiveAt(exit[e]) \/ exit[e].left = 1 THEN Gone ELSE Aged(exit[e])
    BY <1>6 DEF ExitTick, Aged
  <2>2. removed'[e] = Down(removed[e]) /\ owed'[e] = Down(owed[e])
    BY <1>6 DEF ExitTick
  <2>. QED  BY <2>1, <2>2 DEF ExitMoved
<1>. QED  BY <1>2, <1>3, <1>4, <1>5, <1>6 DEF ExitNext

\* Whatever isolates an exit or leaves its isolation as it is keeps the debt.
LEMMA OwingIsKept ==
  ASSUME NEW e \in Exits, owed[e] \in Nat, NEW x \in ExitRecords, Kept(x, owed[e]), NEW y \in ExitRecords,
         \/ y.isolated > 0
         \/ y.isolated = x.isolated /\ y.ejections = x.ejections
         \/ y.isolated = 0 /\ y.served = 0
  PROVE  Owing(e, y) \in Nat /\ Kept(y, Owing(e, y))
<1>1. y # Gone /\ y.isolated \in Nat /\ x.isolated \in Nat
  BY ExitAssumption DEF ExitRecords
<1>2. Owing(e, y) = IF y.isolated > 0 THEN y.isolated ELSE IF y.served = 0 THEN 0 ELSE owed[e]
  BY <1>1 DEF Owing
<1>. QED  BY <1>1, <1>2 DEF Kept

\* A move of an exit keeps what the invariant says of it.
LEMMA MovedIsSound ==
  ASSUME ExitInv, NEW e \in Exits, ExitMoved(e)
  PROVE  /\ exit'[e] \in ExitRecords \cup {Gone} /\ removed'[e] \in Nat /\ owed'[e] \in Nat
         /\ exit'[e] # Gone => exit'[e].age + exit'[e].left <= 2 * ProxyTTL
         /\ removed'[e] > 0 => exit'[e] = Gone
         /\ exit'[e] # Gone => Kept(exit'[e], owed'[e])
<1>1. /\ ExitTypeOK /\ exit[e] \in ExitRecords \cup {Gone} /\ removed[e] \in Nat /\ owed[e] \in Nat
      /\ exit[e] # Gone => exit[e].age + exit[e].left <= 2 * ProxyTTL
      /\ removed[e] > 0 => exit[e] = Gone
      /\ exit[e] # Gone => Kept(exit[e], owed[e])
  BY DEF ExitInv, ExitTypeOK, LeftIsBounded, RemovedStaysOut, DebtIsKept
<1>2. LiveAt(exit[e]) =>
        /\ exit[e] \in ExitRecords /\ removed[e] = 0 /\ exit[e].age + exit[e].left <= 2 * ProxyTTL
        /\ Kept(exit[e], owed[e])
  BY <1>1 DEF LiveAt
<1>3. CASE exit'[e] \in {exit[e], Gone} /\ removed'[e] = removed[e] /\ owed'[e] = owed[e]
  BY <1>1, <1>3
<1>4. CASE /\ LiveAt(exit[e])
           /\ \/ exit'[e] = TransportFailed(exit[e]) \/ exit'[e] = HTTPFailed(exit[e])
              \/ exit'[e] = RequestSucceeded(exit[e]) \/ exit'[e] = exit[e]
           /\ removed'[e] = IF exit'[e] = Gone THEN RemovalCooldown ELSE removed[e]
           /\ owed'[e] = Owing(e, exit'[e])
  <2>1. exit'[e] # Gone =>
          /\ exit'[e] \in ExitRecords /\ exit'[e].age = exit[e].age /\ exit'[e].left = exit[e].left
          /\ \/ exit'[e].isolated > 0
             \/ exit'[e].isolated = exit[e].isolated /\ exit'[e].ejections = exit[e].ejections
             \/ exit'[e].isolated = 0 /\ exit'[e].served = 0
    BY <1>2, <1>4, TransportFailedEffect, HTTPFailedEffect, SucceededEffect
  <2>2. exit'[e] = Gone => owed'[e] = owed[e]
    BY <1>4 DEF Owing
  <2>3. exit'[e] # Gone => owed'[e] \in Nat /\ Kept(exit'[e], owed'[e])
    BY <1>1, <1>2, <1>4, <2>1, OwingIsKept
  <2>. QED  BY <1>1, <1>2, <1>4, <2>1, <2>2, <2>3, ExitAssumption
<1>5. CASE /\ Admits(e) /\ ~LiveAt(exit[e])
           /\ exit'[e] = Collected /\ removed'[e] = removed[e] /\ owed'[e] = owed[e]
  <2>1. removed[e] = 0
    BY <1>5 DEF Admits
  <2>. QED  BY <1>1, <1>5, <2>1, MergedEffect DEF Kept
<1>6. CASE /\ Admits(e) /\ LiveAt(exit[e])
           /\ exit'[e] = Refreshed(exit[e]) /\ removed'[e] = removed[e] /\ owed'[e] = owed[e]
  BY <1>1, <1>2, <1>6, MergedEffect DEF Kept
<1>7. CASE /\ LiveAt(exit[e])
           /\ exit'[e] = Graced(exit[e]) /\ removed'[e] = removed[e] /\ owed'[e] = owed[e]
  BY <1>1, <1>2, <1>7, GracedEffect DEF Kept
<1>8. CASE /\ removed'[e] = Down(removed[e]) /\ owed'[e] = Down(owed[e])
           /\ exit'[e] = Gone \/ (LiveAt(exit[e]) /\ exit[e].left # 1 /\ exit'[e] = Aged(exit[e]))
  <2>1. /\ Down(removed[e]) \in Nat /\ Down(removed[e]) <= removed[e]
        /\ Down(owed[e]) \in Nat
    BY <1>1, DownIsNat
  <2>2. CASE exit'[e] = Gone
    BY <1>8, <2>1, <2>2
  <2>3. CASE LiveAt(exit[e]) /\ exit[e].left # 1 /\ exit'[e] = Aged(exit[e])
    <3>1. /\ exit'[e] \in ExitRecords /\ exit'[e].age + exit'[e].left <= 2 * ProxyTTL
          /\ exit'[e].isolated = Down(exit[e].isolated) /\ exit'[e].ejections = exit[e].ejections
      BY <1>2, <2>3, AgedEffect DEF LiveAt
    <3>2. removed'[e] = 0
      BY <1>2, <1>8, <2>1, <2>3
    <3>3. Kept(exit'[e], owed'[e])
      BY <1>2, <1>8, <2>3, <3>1 DEF Kept, Down
    <3>. QED  BY <1>8, <2>1, <3>1, <3>2, <3>3
  <2>. QED  BY <1>8, <2>2, <2>3
<1>. QED  BY <1>3, <1>4, <1>5, <1>6, <1>7, <1>8 DEF ExitMoved

\* The fetch cycle and the requests keep their types.
LEMMA FetchKeepsTypes ==
  ASSUME ExitTypeOK, ExitNext
  PROVE  fetch' \in Fetches /\ served' \in [Carried -> Exits \cup {Gone}]
<1>1. fetch \in Fetches /\ served \in [Carried -> Exits \cup {Gone}] /\ ProxyTTL \in Nat
  BY ExitAssumption DEF ExitTypeOK
<1>2. NoFetch \in Fetches /\ NoFetch.age = 0 /\ NoFetch.checked = 0
  BY <1>1 DEF NoFetch, Fetches
<1>3. CASE Fetch
  <2>1. served' = served
    BY <1>3 DEF Fetch
  <2>2. ASSUME NEW batch \in SUBSET Exits,
               fetch' = [NoFetch EXCEPT !.at = "fetched", !.batch = batch, !.attempt = fetch.attempt + 1]
        PROVE  fetch' \in Fetches
    <3>. DEFINE n == fetch.attempt + 1
    <3>1. n \in Nat
      BY <1>1 DEF Fetches
    <3>2. fetch' = [NoFetch EXCEPT !.at = "fetched", !.batch = batch, !.attempt = n]
      BY <2>2
    <3>. HIDE DEF n
    <3>. QED  BY <1>2, <3>1, <3>2 DEF Fetches
  <2>3. CASE fetch' = [NoFetch EXCEPT !.at = "grace"]
    BY <1>1, <1>2, <2>1, <2>3 DEF Fetches
  <2>4. Lists \subseteq SUBSET Exits
    BY ExitAssumption
  <2>. QED  BY <1>1, <1>3, <2>1, <2>2, <2>3, <2>4 DEF Fetch
<1>4. CASE ValidateBatch
  <2>1. served' = served
    BY <1>4 DEF ValidateBatch
  <2>2. PICK good \in SUBSET fetch.batch :
          \/ fetch' = [NoFetch EXCEPT !.at = "merge", !.batch = good, !.age = fetch.age]
          \/ fetch' = [NoFetch EXCEPT !.at = "again", !.attempt = fetch.attempt]
          \/ fetch' = [NoFetch EXCEPT !.at = "grace"]
    BY <1>4 DEF ValidateBatch
  <2>3. good \in SUBSET Exits /\ fetch.attempt \in Nat /\ fetch.age \in 0..ProxyTTL
    BY <1>1 DEF Fetches
  <2>4. CASE fetch' = [NoFetch EXCEPT !.at = "merge", !.batch = good, !.age = fetch.age]
    <3>. DEFINE a == fetch.age
    <3>1. fetch' = [NoFetch EXCEPT !.at = "merge", !.batch = good, !.age = a] /\ a \in 0..ProxyTTL
      BY <2>3, <2>4
    <3>. HIDE DEF a
    <3>. QED  BY <1>1, <1>2, <2>1, <2>3, <3>1 DEF Fetches
  <2>5. CASE fetch' = [NoFetch EXCEPT !.at = "again", !.attempt = fetch.attempt]
    BY <1>1, <1>2, <2>1, <2>3, <2>5 DEF Fetches
  <2>6. CASE fetch' = [NoFetch EXCEPT !.at = "grace"]
    BY <1>1, <1>2, <2>1, <2>6 DEF Fetches
  <2>. QED  BY <2>2, <2>4, <2>5, <2>6
<1>5. CASE Merge \/ Grace
  BY <1>1, <1>2, <1>5 DEF Merge, Grace
<1>6. CASE ExitTick
  <2>1. served' = served
    BY <1>6 DEF ExitTick
  <2>. DEFINE a == Older(fetch.age, ProxyTTL)
              c == IF fetch.at = "merge" THEN Older(fetch.checked, ProxyTTL) ELSE fetch.checked
  <2>2. fetch' = IF fetch.at \in {"fetched", "merge"} THEN [fetch EXCEPT !.age = a, !.checked = c] ELSE fetch
    BY <1>6 DEF ExitTick
  <2>3. a \in 0..ProxyTTL /\ c \in 0..ProxyTTL
    BY <1>1, OlderIsNat DEF Fetches
  <2>. HIDE DEF a, c
  <2>. QED  BY <1>1, <2>1, <2>2, <2>3 DEF Fetches
<1>7. ASSUME NEW r \in Carried, Select(r)
      PROVE  fetch' \in Fetches /\ served' \in [Carried -> Exits \cup {Gone}]
  BY <1>1, <1>7 DEF Select, Candidates, Available, Live
<1>8. ASSUME NEW r \in Carried,
             ReportFailure(r) \/ ReportHTTPFailure(r) \/ ReportBlameless(r) \/ ReportSuccess(r)
      PROVE  fetch' \in Fetches /\ served' \in [Carried -> Exits \cup {Gone}]
  <2>1. served' = [served EXCEPT ![r] = Gone] /\ fetch' = fetch
    BY <1>8 DEF ReportFailure, ReportHTTPFailure, ReportBlameless, ReportSuccess, Report
  <2>. QED  BY <1>1, <2>1
<1>. QED  BY <1>3, <1>4, <1>5, <1>6, <1>7, <1>8 DEF ExitNext

\* The pool's maps stay maps.
LEMMA MapsStayMaps ==
  ASSUME ExitTypeOK, ExitNext
  PROVE  /\ exit' = [e \in Exits |-> exit'[e]] /\ removed' = [e \in Exits |-> removed'[e]]
         /\ owed' = [e \in Exits |-> owed'[e]]
<1>1. /\ exit \in [Exits -> ExitRecords \cup {Gone}] /\ removed \in [Exits -> Nat]
      /\ owed \in [Exits -> Nat]
  BY DEF ExitTypeOK
<1>2. DOMAIN Pruned = Exits /\ Pruned = [e \in Exits |-> Pruned[e]]
  BY DEF Pruned
<1>3. ASSUME NEW r \in Carried, NEW x, Report(r, x)
      PROVE  /\ exit' = [e \in Exits |-> exit'[e]] /\ removed' = [e \in Exits |-> removed'[e]]
         /\ owed' = [e \in Exits |-> owed'[e]]
  <2>. DEFINE d == served[r]
              y == IF LiveAt(RecordOf(r)) THEN x ELSE Gone
              o == IF LiveAt(RecordOf(r)) THEN Owing(d, x) ELSE owed[d]
  <2>1. exit' = [Pruned EXCEPT ![d] = y]
    BY <1>3 DEF Report
  <2>2. removed' = removed \/ removed' = [removed EXCEPT ![d] = RemovalCooldown]
    BY <1>3 DEF Report
  <2>3. owed' = [owed EXCEPT ![d] = o]
    BY <1>3 DEF Report
  <2>. HIDE DEF d, y, o
  <2>. QED  BY <1>1, <1>2, <2>1, <2>2, <2>3
<1>4. ASSUME NEW r \in Carried,
             Select(r) \/ ReportFailure(r) \/ ReportHTTPFailure(r) \/ ReportBlameless(r) \/ ReportSuccess(r)
      PROVE  /\ exit' = [e \in Exits |-> exit'[e]] /\ removed' = [e \in Exits |-> removed'[e]]
         /\ owed' = [e \in Exits |-> owed'[e]]
  <2>1. CASE Select(r)
    BY <1>1, <2>1 DEF Select
  <2>. QED  BY <1>3, <1>4, <2>1 DEF ReportFailure, ReportHTTPFailure, ReportBlameless, ReportSuccess
<1>5. CASE Fetch \/ ValidateBatch \/ Merge \/ Grace \/ ExitTick
  BY <1>1, <1>5 DEF Fetch, ValidateBatch, Merge, Grace, ExitTick
<1>. QED  BY <1>4, <1>5 DEF ExitNext

(***************************************************************************)
(* The theorems about the pool of exits                                    *)
(***************************************************************************)
\* The pool of exits keeps its inductive invariant: for any exits, any fetches
\* and any reports, however late they come.
THEOREM ExitInductive == ExitSpec => []ExitInv
<1>1. ExitInit => ExitInv
  <2>1. ExitInit => ExitTypeOK
    <3>1. ASSUME ExitInit
          PROVE  fetch \in Fetches
      BY <3>1, ExitAssumption DEF ExitInit, NoFetch, Fetches
    <3>. QED  BY <3>1 DEF ExitInit, ExitTypeOK
  <2>. QED  BY <2>1 DEF ExitInit, ExitInv, LeftIsBounded, RemovedStaysOut, DebtIsKept
<1>2. ExitInv /\ [ExitNext]_exitVars => ExitInv'
  <2>1. ASSUME ExitInv, ExitNext
        PROVE  ExitInv'
    <3>1. ExitTypeOK
      BY <2>1 DEF ExitInv
    <3>2. \A e \in Exits :
            /\ exit'[e] \in ExitRecords \cup {Gone} /\ removed'[e] \in Nat /\ owed'[e] \in Nat
            /\ exit'[e] # Gone => exit'[e].age + exit'[e].left <= 2 * ProxyTTL
            /\ removed'[e] > 0 => exit'[e] = Gone
            /\ exit'[e] # Gone => Kept(exit'[e], owed'[e])
      BY <2>1, <3>1, EveryExitMoves, MovedIsSound
    <3>3. /\ exit' \in [Exits -> ExitRecords \cup {Gone}] /\ removed' \in [Exits -> Nat]
          /\ owed' \in [Exits -> Nat]
      BY <2>1, <3>1, <3>2, MapsStayMaps
    <3>4. ExitTypeOK'
      BY <2>1, <3>1, <3>3, FetchKeepsTypes DEF ExitTypeOK
    <3>. QED  BY <3>2, <3>4 DEF ExitInv, LeftIsBounded, RemovedStaysOut, DebtIsKept
  <2>2. ASSUME ExitInv, UNCHANGED exitVars
        PROVE  ExitInv'
    BY <2>2 DEF ExitInv, ExitTypeOK, LeftIsBounded, RemovedStaysOut, DebtIsKept, exitVars
  <2>. QED  BY <2>1, <2>2
<1>. QED  BY <1>1, <1>2, PTL DEF ExitSpec

\* A removed exit stays out for its cooldown, and none is offered later than two
\* TTLs after its validation (pool.go:485-506, 868-911).
THEOREM ExitsCurrent == ExitSpec => []ExitsAreCurrent
<1>1. ExitInv => ExitsAreCurrent
  <2>1. ASSUME ExitInv, NEW e \in Live
        PROVE  exit[e].age < 2 * ProxyTTL
    <3>1. e \in Exits /\ exit[e] # Gone /\ exit[e].left > 0
      BY DEF Live, LiveAt
    <3>2. exit[e].age \in Nat /\ exit[e].left \in Nat /\ exit[e].age + exit[e].left <= 2 * ProxyTTL
      BY <2>1, <3>1 DEF ExitInv, ExitTypeOK, LeftIsBounded, ExitRecords
    <3>. QED  BY <3>1, <3>2, ExitAssumption
  <2>. QED  BY <2>1 DEF ExitInv, ExitsAreCurrent, StaleExitsAgeOut
<1>. QED  BY <1>1, ExitInductive, PTL

\* In a storm an HTTP failure changes no exit's isolation and removes none.
LEMMA StormHTTP ==
  ASSUME ExitInv, Storm, NEW r \in Carried, ReportHTTPFailure(r), NEW e \in Live
  PROVE  /\ exit'[e] # Gone
         /\ exit'[e].ejections <= exit[e].ejections /\ exit'[e].isolated <= exit[e].isolated
<1>. DEFINE x == HTTPFailed(RecordOf(r))
<1>1. /\ ExitTypeOK /\ e \in Exits /\ LiveAt(exit[e]) /\ exit[e] \in ExitRecords
      /\ exit[e].isolated \in Nat /\ exit[e].ejections \in Nat
  BY DEF ExitInv, ExitTypeOK, Live, LiveAt, ExitRecords
<1>2. ~CanEject
  <2>1. \A f \in Live : exit[f].served \in Nat
    BY DEF Live, LiveAt, ExitInv, ExitTypeOK, ExitRecords
  <2>. QED  BY <2>1, ExitAssumption DEF CanEject, Storm
<1>3. Report(r, x)
  BY DEF ReportHTTPFailure
<1>4. (e # served[r] => exit'[e] = exit[e]) /\ (e = served[r] => exit'[e] = HTTPFailed(exit[e]))
  <2>. HIDE DEF x
  <2>1. (e # served[r] => exit'[e] = exit[e]) /\ (e = served[r] => exit'[e] = x)
    BY <1>1, <1>3, ReportEffect
  <2>. QED  BY <2>1 DEF x, RecordOf
<1>5. exit[e] # Gone
  BY <1>1 DEF LiveAt
<1>6. HTTPFailed(exit[e]) # Gone
  BY <1>1, <1>2, HTTPFailedEffect, ExitAssumption
<1>. QED  BY <1>1, <1>2, <1>4, <1>5, <1>6, HTTPFailedEffect

\* Any other step leaves a live exit alone, unless its time is over or it fails at
\* the transport for the last time.
LEMMA OtherSteps ==
  ASSUME ExitInv, ExitNext, \A r \in Carried : ~ReportHTTPFailure(r), NEW e \in Live
  PROVE  \/ /\ exit'[e] # Gone
            /\ exit'[e].ejections <= exit[e].ejections /\ exit'[e].isolated <= exit[e].isolated
         \/ exit[e].left = 1 /\ exit'[e] = Gone /\ UNCHANGED served
         \/ /\ exit[e].fails + 1 >= FailureLimit
            /\ \E r \in Carried : served[r] = e /\ ReportFailure(r)
<1>1. /\ ExitTypeOK /\ e \in Exits /\ LiveAt(exit[e]) /\ exit[e] \in ExitRecords /\ exit[e] # Gone
      /\ exit[e].isolated \in Nat /\ exit[e].ejections \in Nat /\ exit[e].left \in Nat \ {0}
      /\ exit[e].age + exit[e].left <= 2 * ProxyTTL
  BY DEF ExitInv, ExitTypeOK, LeftIsBounded, Live, LiveAt, ExitRecords
<1>2. ASSUME NEW r \in Carried, Select(r) \/ ReportBlameless(r)
      PROVE  exit'[e] = exit[e]
  <2>1. CASE Select(r)
    BY <2>1 DEF Select
  <2>2. CASE ReportBlameless(r)
    <3>. DEFINE x == RecordOf(r)
    <3>1. Report(r, x)
      BY <2>2 DEF ReportBlameless, Blameless
    <3>2. e = served[r] => x = exit[e]
      BY DEF RecordOf
    <3>. HIDE DEF x
    <3>. QED  BY <1>1, <3>1, <3>2, ReportEffect
  <2>. QED  BY <1>2, <2>1, <2>2
<1>3. ASSUME NEW r \in Carried, ReportFailure(r)
      PROVE  \/ /\ exit'[e] # Gone
                /\ exit'[e].ejections <= exit[e].ejections /\ exit'[e].isolated <= exit[e].isolated
             \/ exit[e].fails + 1 >= FailureLimit /\ served[r] = e
  <2>. DEFINE x == TransportFailed(RecordOf(r))
  <2>1. Report(r, x)
    BY <1>3 DEF ReportFailure
  <2>2. e = served[r] => x = TransportFailed(exit[e])
    BY DEF RecordOf
  <2>. HIDE DEF x
  <2>3. (e # served[r] => exit'[e] = exit[e]) /\ (e = served[r] => exit'[e] = TransportFailed(exit[e]))
    BY <1>1, <2>1, <2>2, ReportEffect
  <2>. QED  BY <1>1, <2>3, TransportCounted, ExitAssumption
<1>4. ASSUME NEW r \in Carried, ReportSuccess(r)
      PROVE  /\ exit'[e] # Gone
             /\ exit'[e].ejections <= exit[e].ejections /\ exit'[e].isolated <= exit[e].isolated
  <2>. DEFINE x == RequestSucceeded(RecordOf(r))
  <2>1. Report(r, x)
    BY <1>4 DEF ReportSuccess
  <2>2. e = served[r] => x = RequestSucceeded(exit[e])
    BY DEF RecordOf
  <2>. HIDE DEF x
  <2>3. (e # served[r] => exit'[e] = exit[e]) /\ (e = served[r] => exit'[e] = RequestSucceeded(exit[e]))
    BY <1>1, <2>1, <2>2, ReportEffect
  <2>. QED  BY <1>1, <2>3, SucceededEffect, ExitAssumption
<1>5. CASE Merge
  <2>1. Pruned[e] = exit[e]
    BY <1>1 DEF Pruned
  <2>2. exit'[e] = exit[e] \/ (Admits(e) /\ exit'[e] = Refreshed(exit[e]))
    BY <1>1, <1>5, <2>1 DEF Merge
  <2>. QED  BY <1>1, <2>2, MergedEffect, ExitAssumption
<1>6. CASE Grace
  <2>1. exit'[e] = Graced(exit[e])
    BY <1>1, <1>6 DEF Grace
  <2>. QED  BY <1>1, <2>1, GracedEffect, ExitAssumption
<1>7. CASE ExitTick
  <2>1. exit'[e] = (IF exit[e].left = 1 THEN Gone ELSE Aged(exit[e])) /\ served' = served
    BY <1>1, <1>7 DEF ExitTick, Aged
  <2>2. Aged(exit[e]) \in ExitRecords /\ Aged(exit[e]).ejections = exit[e].ejections
        /\ Aged(exit[e]).isolated = Down(exit[e].isolated) /\ Down(exit[e].isolated) <= exit[e].isolated
    BY <1>1, AgedEffect, DownIsNat
  <2>. QED  BY <1>1, <2>1, <2>2, ExitAssumption
<1>8. CASE \E r \in Carried :
             Select(r) \/ ReportFailure(r) \/ ReportHTTPFailure(r) \/ ReportBlameless(r) \/ ReportSuccess(r)
  BY <1>1, <1>2, <1>3, <1>4, <1>8
<1>9. CASE Fetch \/ ValidateBatch
  <2>1. exit' = exit
    BY <1>9 DEF Fetch, ValidateBatch
  <2>. QED  BY <1>1, <2>1
<1>. QED  BY <1>5, <1>6, <1>7, <1>8, <1>9 DEF ExitNext

\* An isolation is served to its end unless a request succeeds or the pool forgets the
\* exit, and a storm of HTTP failures isolates and removes no exit, one short of its
\* limits included (pool.go:503-543, 597-611, 645-719, 746-771).
THEOREM IsolationEarned == ExitSpec => IsolationIsEarned
<1>1. ExitInv => IsolationIsServed
  BY DEF ExitInv, DebtIsKept, Kept, IsolationIsServed, Live, LiveAt
<1>2. ASSUME ExitInv, ExitNext, Storm, NEW e \in Live
      PROVE  \/ /\ exit'[e] # Gone
                /\ exit'[e].ejections <= exit[e].ejections /\ exit'[e].isolated <= exit[e].isolated
             \/ exit[e].left = 1 /\ exit'[e] = Gone /\ UNCHANGED served
             \/ /\ exit[e].fails + 1 >= FailureLimit
                /\ \E r \in Carried : served[r] = e /\ ReportFailure(r)
                /\ \A r \in Carried : ~ReportHTTPFailure(r)
  <2>1. CASE \E r \in Carried : ReportHTTPFailure(r)
    BY <1>2, <2>1, StormHTTP
  <2>2. CASE \A r \in Carried : ~ReportHTTPFailure(r)
    BY <1>2, <2>2, OtherSteps
  <2>. QED  BY <2>1, <2>2
<1>3. ExitInv /\ [ExitNext]_exitVars =>
        [Storm => \A e \in Live :
           \/ /\ exit'[e] # Gone
              /\ exit'[e].ejections <= exit[e].ejections /\ exit'[e].isolated <= exit[e].isolated
           \/ exit[e].left = 1 /\ exit'[e] = Gone /\ UNCHANGED served
           \/ /\ exit[e].fails + 1 >= FailureLimit
              /\ \E r \in Carried : served[r] = e /\ ReportFailure(r)
              /\ \A r \in Carried : ~ReportHTTPFailure(r)]_exitVars
  BY <1>2
<1>. QED  BY <1>1, <1>3, ExitInductive, PTL DEF ExitSpec, IsolationIsEarned, StormSparesPool

(***************************************************************************)
(* The managers under changing settings: the inductive invariant           *)
(***************************************************************************)
SettingsSpec == SettingsInit /\ [][SettingsNext]_settingsVars

UpdatePlaces == {"start", "persist", "apply", "retire", "dispose", "done", "failed", "unchanged"}
CallRecords == [at : {"start", "in", "queued", "fetching", "refused", "done"}, uses : Managers \cup {Nobody}]

\* A configuration may be any value.
IsUpdate(r) == r \in [at : UpdatePlaces, next : {r.next}, closes : Managers \cup {Nobody}]

SettingsTypeOK ==
  /\ live \in Managers \cup {Nobody} /\ switcher \in {"on", "off", "closed"}
  /\ manages \in [Managers -> {"none", "open", "closing", "closed"}]
  /\ runs \in [Managers -> {"off", "timer", "queued", "fetching", "ended"}]
  /\ call \in [Calls -> CallRecords]
  /\ update = [u \in Updates |-> update[u]] /\ \A u \in Updates : IsUpdate(update[u])

\* The switcher is on exactly while it has a manager, which is open; who is
\* inside uses that one.
SwitcherIsSound ==
  /\ switcher = "on" <=> live # Nobody
  /\ live # Nobody => manages[live] = "open" /\ (live = Boot \/ update[live].at \in {"retire", "done"})
  /\ \A c \in Inside : live # Nobody /\ call[c].uses = live

\* A closed collector's goroutine is over.
RunsAreOver == \A m \in Managers : manages[m] = "closed" => runs[m] \in {"off", "ended"}

\* An update's manager is its own until the update is applied, and what it must
\* close is a manager whose own update has passed that point, and not the one in use.
UpdatesAreSound ==
  \A u \in Updates :
    /\ update[u].at = "start" => manages[u] = "none"
    /\ update[u].at \in {"persist", "apply"} => manages[u] = IF update[u].next.on THEN "open" ELSE "none"
    /\ update[u].at \in {"start", "persist", "apply"} => update[u].closes = Nobody
    /\ update[u].closes # Nobody =>
         /\ update[u].closes # live
         /\ update[u].closes = Boot \/ update[update[u].closes].at \in {"retire", "dispose", "done", "failed"}

\* From the moment an update is applied or given up, its manager is in use or
\* somebody is about to close it.
NoneIsForgotten ==
  \A m \in Managers :
    (manages[m] = "open" /\ (m = Boot \/ update[m].at \notin {"start", "persist", "apply"}))
    => live = m \/ \E u \in Updates : update[u].closes = m /\ ~Ended(u)

\* The inductive invariant of the settings.
SettingsInv ==
  SettingsTypeOK /\ SwitcherIsSound /\ RunsAreOver /\ UpdatesAreSound /\ NoneIsForgotten

\* It holds what the run checks.
LEMMA SettingsInvIsEnough == SettingsInv => ManagersAreSound
<1>. SUFFICES ASSUME SettingsInv PROVE ManagersAreSound
  OBVIOUS
<1>1. UsedManagerIsOpen
  BY DEF SettingsInv, SwitcherIsSound, UsedManagerIsOpen
<1>2. ClosedAfterLastFetch
  <2>1. ASSUME NEW m \in Managers, manages[m] = "closed", NEW r \in Refreshes,
               call[r].at = "fetching", call[r].uses = m
        PROVE  FALSE
    <3>1. r \in Inside
      BY <2>1 DEF Inside, Calls
    <3>. QED  BY <1>1, <2>1, <3>1 DEF UsedManagerIsOpen
  <2>. QED  BY <2>1 DEF SettingsInv, RunsAreOver, ClosedAfterLastFetch, Fetching
<1>3. NoManagerLeaks
  BY DEF SettingsInv, NoneIsForgotten, NoManagerLeaks, Ended
<1>. QED  BY <1>1, <1>2, <1>3 DEF ManagersAreSound

\* A step of the calls: nobody gets in but with the manager in use.
LEMMA CallsKeep ==
  ASSUME SettingsInv, NEW c \in Calls, NEW x \in CallRecords, call' = [call EXCEPT ![c] = x],
         x.at \in {"in", "queued", "fetching"} => live # Nobody /\ x.uses = live,
         UNCHANGED <<live, switcher, manages, runs, update>>
  PROVE  SettingsInv'
<1>1. call \in [Calls -> CallRecords]
  BY DEF SettingsInv, SettingsTypeOK
<1>2. call' \in [Calls -> CallRecords] /\ call'[c] = x /\ \A d \in Calls \ {c} : call'[d] = call[d]
  BY <1>1
<1>3. SettingsTypeOK'
  BY <1>2 DEF SettingsInv, SettingsTypeOK, IsUpdate
<1>4. SwitcherIsSound'
  <2>1. ASSUME NEW d \in Inside'
        PROVE  live' # Nobody /\ call'[d].uses = live'
    <3>1. d \in Calls /\ call'[d].at \in {"in", "queued", "fetching"}
      BY DEF Inside
    <3>2. CASE d = c
      BY <1>2, <3>1, <3>2
    <3>3. CASE d # c
      BY <1>2, <3>1, <3>3 DEF SettingsInv, SwitcherIsSound, Inside
    <3>. QED  BY <3>2, <3>3
  <2>. QED  BY <2>1 DEF SettingsInv, SwitcherIsSound
<1>5. RunsAreOver' /\ UpdatesAreSound' /\ NoneIsForgotten'
  BY DEF SettingsInv, RunsAreOver, UpdatesAreSound, NoneIsForgotten, Ended
<1>. QED  BY <1>3, <1>4, <1>5 DEF SettingsInv

\* Requests and refreshes keep the invariant.
LEMMA CallStepsKeep ==
  ASSUME SettingsInv,
         \/ \E c \in Calls : Enter(c)
         \/ \E r \in Refreshes : RefreshStep(r)
         \/ \E a \in Acquires : Acquired(a)
  PROVE  SettingsInv'
<1>1. call \in [Calls -> CallRecords] /\ live \in Managers \cup {Nobody}
  BY DEF SettingsInv, SettingsTypeOK
<1>2. ASSUME NEW c \in Calls, Enter(c)
      PROVE  SettingsInv'
  <2>. DEFINE x == IF switcher = "on" THEN [at |-> "in", uses |-> live]
                                      ELSE [at |-> "refused", uses |-> Nobody]
  <2>1. call' = [call EXCEPT ![c] = x] /\ UNCHANGED <<live, switcher, manages, runs, update>>
    BY <1>2 DEF Enter
  <2>2. x \in CallRecords
    BY <1>1 DEF CallRecords
  <2>3. x.at \in {"in", "queued", "fetching"} => live # Nobody /\ x.uses = live
    BY DEF SettingsInv, SwitcherIsSound
  <2>. HIDE DEF x
  <2>. QED  BY <2>1, <2>2, <2>3, CallsKeep
<1>3. ASSUME NEW c \in Calls, NEW at \in {"queued", "refused", "fetching", "done"}, c \in Inside,
             call' = [call EXCEPT ![c].at = at], UNCHANGED <<live, switcher, manages, runs, update>>
      PROVE  SettingsInv'
  <2>. DEFINE x == [call[c] EXCEPT !.at = at]
  <2>1. call' = [call EXCEPT ![c] = x]
    BY <1>3
  <2>2. x \in CallRecords /\ x.at = at /\ x.uses = call[c].uses
    BY <1>1 DEF CallRecords
  <2>3. live # Nobody /\ call[c].uses = live
    BY <1>3 DEF SettingsInv, SwitcherIsSound
  <2>. HIDE DEF x
  <2>. QED  BY <1>3, <2>1, <2>2, <2>3, CallsKeep
<1>4. ASSUME NEW r \in Refreshes, RefreshStep(r)
      PROVE  SettingsInv'
  <2>1. r \in Calls
    BY DEF Calls
  <2>2. CASE BeginRefresh(r)
    <3>. DEFINE at == IF manages[call[r].uses] = "open" THEN "queued" ELSE "refused"
    <3>1. call' = [call EXCEPT ![r].at = at] /\ UNCHANGED <<live, switcher, manages, runs, update>>
      BY <2>2 DEF BeginRefresh
    <3>2. r \in Inside /\ at \in {"queued", "refused", "fetching", "done"}
      BY <2>1, <2>2 DEF BeginRefresh, Inside
    <3>. HIDE DEF at
    <3>. QED  BY <1>3, <2>1, <3>1, <3>2
  <2>3. CASE RefreshFetches(r)
    BY <1>3, <2>1, <2>3 DEF RefreshFetches, Inside
  <2>4. CASE RefreshEnds(r)
    BY <1>3, <2>1, <2>4 DEF RefreshEnds, Inside
  <2>. QED  BY <1>4, <2>2, <2>3, <2>4 DEF RefreshStep
<1>5. ASSUME NEW a \in Acquires, Acquired(a)
      PROVE  SettingsInv'
  <2>1. a \in Calls
    BY DEF Calls
  <2>. QED  BY <1>3, <1>5, <2>1 DEF Acquired, Inside
<1>. QED  BY <1>2, <1>4, <1>5

\* The collectors' goroutines, and a collector that closes after the last fetch.
LEMMA CollectorsKeep ==
  ASSUME SettingsInv, NEW m \in Managers, FetchSingleFlight(m) \/ RunStep(m)
  PROVE  SettingsInv'
<1>1. /\ runs \in [Managers -> {"off", "timer", "queued", "fetching", "ended"}]
      /\ manages \in [Managers -> {"none", "open", "closing", "closed"}]
  BY DEF SettingsInv, SettingsTypeOK
<1>2. ASSUME NEW from \in {"timer", "queued", "fetching"}, NEW to \in {"timer", "queued", "fetching", "ended"},
             RunMoves(m, from, to)
      PROVE  SettingsInv'
  <2>1. /\ runs[m] = from /\ runs' = [runs EXCEPT ![m] = to]
        /\ UNCHANGED <<live, switcher, manages, update, call>>
    BY <1>2 DEF RunMoves
  <2>2. SettingsTypeOK'
    BY <1>1, <2>1 DEF SettingsInv, SettingsTypeOK, IsUpdate
  <2>3. RunsAreOver'
    BY <1>1, <2>1 DEF SettingsInv, RunsAreOver
  <2>4. SwitcherIsSound' /\ UpdatesAreSound' /\ NoneIsForgotten'
    BY <2>1 DEF SettingsInv, SwitcherIsSound, UpdatesAreSound, NoneIsForgotten, Ended, Inside
  <2>. QED  BY <2>2, <2>3, <2>4 DEF SettingsInv
<1>3. CASE CollectorCloses(m)
  <2>1. /\ manages[m] = "closing" /\ runs[m] \in {"off", "ended"}
        /\ manages' = [manages EXCEPT ![m] = "closed"]
        /\ UNCHANGED <<live, switcher, runs, update, call>>
    BY <1>3 DEF CollectorCloses, Drained, Counted
  <2>2. /\ manages' \in [Managers -> {"none", "open", "closing", "closed"}]
        /\ manages'[m] = "closed" /\ \A n \in Managers \ {m} : manages'[n] = manages[n]
    BY <1>1, <2>1
  <2>3. SettingsTypeOK'
    BY <2>1, <2>2 DEF SettingsInv, SettingsTypeOK, IsUpdate
  <2>4. RunsAreOver'
    BY <2>1, <2>2 DEF SettingsInv, RunsAreOver
  <2>5. SwitcherIsSound'
    BY <2>1, <2>2 DEF SettingsInv, SettingsTypeOK, SwitcherIsSound, Inside
  <2>6. UpdatesAreSound'
    BY <2>1, <2>2 DEF SettingsInv, UpdatesAreSound, Managers
  <2>7. NoneIsForgotten'
    BY <2>1, <2>2 DEF SettingsInv, NoneIsForgotten, Ended
  <2>. QED  BY <2>3, <2>4, <2>5, <2>6, <2>7 DEF SettingsInv
<1>. QED  BY <1>2, <1>3 DEF FetchSingleFlight, RunStep, RunFetches, RunFetched, RunEnds

\* An update that moves keeps its configuration.
LEMMA UpdateMoves ==
  ASSUME SettingsTypeOK, NEW u \in Updates, NEW at \in UpdatePlaces, update' = [update EXCEPT ![u].at = at]
  PROVE  /\ update' = [v \in Updates |-> update'[v]] /\ \A v \in Updates : IsUpdate(update'[v])
         /\ update'[u].at = at /\ update'[u].next = update[u].next /\ update'[u].closes = update[u].closes
         /\ \A v \in Updates \ {u} : update'[v] = update[v]
<1>. DEFINE r == [update[u] EXCEPT !.at = at]
<1>1. IsUpdate(update[u]) /\ update' = [update EXCEPT ![u] = r] /\ update = [v \in Updates |-> update[v]]
  BY DEF SettingsTypeOK
<1>2. /\ r \in [at : UpdatePlaces, next : {update[u].next}, closes : Managers \cup {Nobody}]
      /\ r.at = at /\ r.next = update[u].next /\ r.closes = update[u].closes
  BY <1>1 DEF IsUpdate
<1>3. IsUpdate(r)
  BY <1>2 DEF IsUpdate
<1>. HIDE DEF r
<1>4. update'[u] = r /\ \A v \in Updates \ {u} : update'[v] = update[v]
  BY <1>1
<1>5. update' = [v \in Updates |-> update'[v]]
  BY <1>1
<1>. QED  BY <1>2, <1>3, <1>4, <1>5 DEF SettingsTypeOK

\* An update that moves and gets a manager to close.
LEMMA UpdateMustClose ==
  ASSUME SettingsTypeOK, NEW u \in Updates, NEW at \in UpdatePlaces, NEW m \in Managers \cup {Nobody},
         update' = [update EXCEPT ![u].at = at, ![u].closes = m]
  PROVE  /\ update' = [v \in Updates |-> update'[v]] /\ \A v \in Updates : IsUpdate(update'[v])
         /\ update'[u].at = at /\ update'[u].next = update[u].next /\ update'[u].closes = m
         /\ \A v \in Updates \ {u} : update'[v] = update[v]
<1>. DEFINE r1 == [update[u] EXCEPT !.at = at]
            g1 == [update EXCEPT ![u] = r1]
            r2 == [g1[u] EXCEPT !.closes = m]
<1>1. IsUpdate(update[u]) /\ update' = [g1 EXCEPT ![u] = r2] /\ update = [v \in Updates |-> update[v]]
  BY DEF SettingsTypeOK
<1>2. /\ r1 \in [at : UpdatePlaces, next : {update[u].next}, closes : Managers \cup {Nobody}]
      /\ r1.at = at /\ r1.next = update[u].next
  BY <1>1 DEF IsUpdate
<1>. HIDE DEF r1
<1>3. /\ g1[u] = r1 /\ g1 = [v \in Updates |-> g1[v]]
      /\ \A v \in Updates \ {u} : g1[v] = update[v]
  BY <1>1
<1>. HIDE DEF g1
<1>4. /\ r2 \in [at : UpdatePlaces, next : {update[u].next}, closes : Managers \cup {Nobody}]
      /\ r2.at = at /\ r2.next = update[u].next /\ r2.closes = m
  BY <1>2, <1>3
<1>5. IsUpdate(r2)
  BY <1>4 DEF IsUpdate
<1>. HIDE DEF r2
<1>6. update'[u] = r2 /\ \A v \in Updates \ {u} : update'[v] = update[v]
  BY <1>1, <1>3
<1>7. update' = [v \in Updates |-> update'[v]]
  BY <1>1, <1>3
<1>. QED  BY <1>4, <1>5, <1>6, <1>7 DEF SettingsTypeOK

\* The beginning of an update: its manager is its own.
LEMMA BeginUpdateKeeps ==
  ASSUME SettingsInv, NEW u \in Updates, NEW p \in Patches, BeginUpdate(u, p)
  PROVE  SettingsInv'
<1>. DEFINE next == ApplyPatch(current, p)
<1>1. /\ SettingsTypeOK /\ update[u].at = "start" /\ u \in Managers /\ u # Boot /\ u # Nobody
      /\ manages[u] = "none" /\ update[u].closes = Nobody /\ IsUpdate(update[u])
      /\ manages \in [Managers -> {"none", "open", "closing", "closed"}]
      /\ runs \in [Managers -> {"off", "timer", "queued", "fetching", "ended"}]
      /\ update = [v \in Updates |-> update[v]]
      /\ UNCHANGED <<live, switcher, call>>
  BY SettingsAssumption DEF SettingsInv, SettingsTypeOK, UpdatesAreSound, BeginUpdate, Managers
<1>2. live # u /\ \A v \in Updates : update[v].closes # u
  BY <1>1 DEF SettingsInv, SwitcherIsSound, UpdatesAreSound
<1>3. CASE \E at \in {"unchanged", "failed"} :
             update' = [update EXCEPT ![u].at = at] /\ UNCHANGED <<manages, runs>>
  <2>1. PICK at \in {"unchanged", "failed"} :
               update' = [update EXCEPT ![u].at = at] /\ UNCHANGED <<manages, runs>>
    BY <1>3
  <2>2. at \in UpdatePlaces
    BY DEF UpdatePlaces
  <2>3. /\ update' = [v \in Updates |-> update'[v]] /\ \A v \in Updates : IsUpdate(update'[v])
        /\ update'[u].at = at /\ update'[u].next = update[u].next /\ update'[u].closes = update[u].closes
        /\ \A v \in Updates \ {u} : update'[v] = update[v]
    BY <1>1, <2>1, <2>2, UpdateMoves
  <2>4. SettingsTypeOK'
    BY <1>1, <2>1, <2>3 DEF SettingsTypeOK
  <2>5. SwitcherIsSound'
    BY <1>1, <1>2, <2>1, <2>3 DEF SettingsInv, SettingsTypeOK, SwitcherIsSound, Inside, Managers
  <2>6. RunsAreOver'
    BY <2>1 DEF SettingsInv, RunsAreOver
  <2>7. UpdatesAreSound'
    <3>1. ASSUME NEW v \in Updates, v # u
          PROVE  /\ update'[v].at = "start" => manages'[v] = "none"
                 /\ update'[v].at \in {"persist", "apply"} =>
                      manages'[v] = IF update'[v].next.on THEN "open" ELSE "none"
                 /\ update'[v].at \in {"start", "persist", "apply"} => update'[v].closes = Nobody
                 /\ update'[v].closes # Nobody =>
                      /\ update'[v].closes # live'
                      /\ \/ update'[v].closes = Boot
                         \/ update'[update'[v].closes].at \in {"retire", "dispose", "done", "failed"}
      <4>1. update'[v] = update[v] /\ update[v].closes # u /\ IsUpdate(update[v])
        BY <1>1, <1>2, <2>3, <3>1 DEF SettingsTypeOK
      <4>2. update[v].closes \in Updates => update'[update[v].closes] = update[update[v].closes]
        BY <2>3, <4>1
      <4>3. update[v].closes \in Updates \cup {Boot, Nobody}
        BY <4>1 DEF IsUpdate, Managers
      <4>. QED  BY <1>1, <2>1, <4>1, <4>2, <4>3 DEF SettingsInv, UpdatesAreSound
    <3>. QED  BY <1>1, <2>3, <3>1 DEF UpdatesAreSound
  <2>8. NoneIsForgotten'
    <3>1. ASSUME NEW m \in Managers, manages'[m] = "open",
                 m = Boot \/ update'[m].at \notin {"start", "persist", "apply"}
          PROVE  live' = m \/ \E v \in Updates : update'[v].closes = m /\ ~Ended(v)'
      <4>1. m # u
        BY <1>1, <2>1, <3>1
      <4>2. live = m \/ \E v \in Updates : update[v].closes = m /\ ~Ended(v)
        BY <1>1, <2>1, <2>3, <3>1, <4>1 DEF SettingsInv, NoneIsForgotten, Managers
      <4>3. ASSUME NEW v \in Updates, update[v].closes = m, ~Ended(v)
            PROVE  update'[v].closes = m /\ ~Ended(v)'
        <5>1. v # u
          BY <1>1, <4>3, SettingsAssumption DEF Managers
        <5>. QED  BY <2>3, <4>3, <5>1 DEF Ended
      <4>. QED  BY <1>1, <4>2, <4>3
    <3>. QED  BY <3>1 DEF NoneIsForgotten
  <2>. QED  BY <2>4, <2>5, <2>6, <2>7, <2>8 DEF SettingsInv
<1>4. CASE /\ update' = [update EXCEPT ![u].at = "persist", ![u].next = next]
           /\ manages' = [manages EXCEPT ![u] = IF next.on THEN "open" ELSE @]
           /\ runs' = [runs EXCEPT ![u] = IF next.on THEN "timer" ELSE @]
  <2>1. /\ update' = [v \in Updates |-> update'[v]] /\ \A v \in Updates : IsUpdate(update'[v])
        /\ update'[u].at = "persist" /\ update'[u].next = next /\ update'[u].closes = Nobody
        /\ \A v \in Updates \ {u} : update'[v] = update[v]
    <3>. HIDE DEF next
    <3>. DEFINE r1 == [update[u] EXCEPT !.at = "persist"]
                g1 == [update EXCEPT ![u] = r1]
                r2 == [g1[u] EXCEPT !.next = next]
    <3>1. update' = [g1 EXCEPT ![u] = r2]
      BY <1>4
    <3>2. /\ r1 \in [at : UpdatePlaces, next : {update[u].next}, closes : Managers \cup {Nobody}]
          /\ r1.at = "persist" /\ r1.closes = Nobody
      BY <1>1 DEF IsUpdate, UpdatePlaces
    <3>. HIDE DEF r1
    <3>3. /\ g1[u] = r1 /\ g1 = [v \in Updates |-> g1[v]]
          /\ \A v \in Updates \ {u} : g1[v] = update[v]
      BY <1>1
    <3>. HIDE DEF g1
    <3>4. /\ r2 \in [at : UpdatePlaces, next : {next}, closes : Managers \cup {Nobody}]
          /\ r2.at = "persist" /\ r2.next = next /\ r2.closes = Nobody
      BY <3>2, <3>3
    <3>5. IsUpdate(r2)
      BY <3>4 DEF IsUpdate
    <3>. HIDE DEF r2
    <3>6. update'[u] = r2 /\ \A v \in Updates \ {u} : update'[v] = update[v]
      BY <3>1, <3>3
    <3>7. update' = [v \in Updates |-> update'[v]]
      BY <3>1, <3>3
    <3>. QED  BY <1>1, <3>4, <3>5, <3>6, <3>7 DEF SettingsTypeOK
  <2>2. /\ manages' \in [Managers -> {"none", "open", "closing", "closed"}]
        /\ manages'[u] = IF next.on THEN "open" ELSE "none"
        /\ \A m \in Managers \ {u} : manages'[m] = manages[m]
    <3>. HIDE DEF next
    <3>. QED  BY <1>1, <1>4
  <2>3. /\ runs' \in [Managers -> {"off", "timer", "queued", "fetching", "ended"}]
        /\ \A m \in Managers \ {u} : runs'[m] = runs[m]
    <3>. HIDE DEF next
    <3>. QED  BY <1>1, <1>4
  <2>. HIDE DEF next
  <2>4. SettingsTypeOK'
    BY <1>1, <2>1, <2>2, <2>3 DEF SettingsTypeOK
  <2>5. SwitcherIsSound'
    BY <1>1, <1>2, <2>1, <2>2 DEF SettingsInv, SettingsTypeOK, SwitcherIsSound, Inside, Managers
  <2>6. RunsAreOver'
    BY <1>1, <2>2, <2>3 DEF SettingsInv, RunsAreOver
  <2>7. UpdatesAreSound'
    <3>1. ASSUME NEW v \in Updates, v # u
          PROVE  /\ update'[v].at = "start" => manages'[v] = "none"
                 /\ update'[v].at \in {"persist", "apply"} =>
                      manages'[v] = IF update'[v].next.on THEN "open" ELSE "none"
                 /\ update'[v].at \in {"start", "persist", "apply"} => update'[v].closes = Nobody
                 /\ update'[v].closes # Nobody =>
                      /\ update'[v].closes # live'
                      /\ \/ update'[v].closes = Boot
                         \/ update'[update'[v].closes].at \in {"retire", "dispose", "done", "failed"}
      <4>1. /\ update'[v] = update[v] /\ update[v].closes # u /\ IsUpdate(update[v])
            /\ manages'[v] = manages[v]
        BY <1>1, <1>2, <2>1, <2>2, <3>1 DEF SettingsTypeOK, Managers
      <4>2. update[v].closes \in Updates => update'[update[v].closes] = update[update[v].closes]
        BY <2>1, <4>1
      <4>3. update[v].closes \in Updates \cup {Boot, Nobody}
        BY <4>1 DEF IsUpdate, Managers
      <4>. QED  BY <1>1, <4>1, <4>2, <4>3 DEF SettingsInv, UpdatesAreSound
    <3>. QED  BY <2>1, <2>2, <3>1 DEF UpdatesAreSound
  <2>8. NoneIsForgotten'
    <3>1. ASSUME NEW m \in Managers, manages'[m] = "open",
                 m = Boot \/ update'[m].at \notin {"start", "persist", "apply"}
          PROVE  live' = m \/ \E v \in Updates : update'[v].closes = m /\ ~Ended(v)'
      <4>1. m # u
        BY <1>1, <2>1, <3>1
      <4>2. live = m \/ \E v \in Updates : update[v].closes = m /\ ~Ended(v)
        BY <1>1, <2>1, <2>2, <3>1, <4>1 DEF SettingsInv, NoneIsForgotten, Managers
      <4>3. ASSUME NEW v \in Updates, update[v].closes = m, ~Ended(v)
            PROVE  update'[v].closes = m /\ ~Ended(v)'
        <5>1. v # u
          BY <1>1, <4>3, SettingsAssumption DEF Managers
        <5>. QED  BY <2>1, <4>3, <5>1 DEF Ended
      <4>. QED  BY <1>1, <4>2, <4>3
    <3>. QED  BY <3>1 DEF NoneIsForgotten
  <2>. QED  BY <2>4, <2>5, <2>6, <2>7, <2>8 DEF SettingsInv
<1>. QED  BY <1>3, <1>4 DEF BeginUpdate

\* What an update does leaves the other updates sound.
LEMMA OthersKeep ==
  ASSUME SettingsInv, NEW u \in Updates, NEW v \in Updates \ {u}, manages' = manages,
         \A w \in Updates \ {u} : update'[w] = update[w],
         live' \in {live, u, Nobody}, live' = u /\ live # u => update[u].at = "apply",
         \/ update[u].at \in {"persist", "apply"}
         \/ update'[u].at \in {"retire", "dispose", "done", "failed"}
  PROVE  /\ update'[v].at = "start" => manages'[v] = "none"
         /\ update'[v].at \in {"persist", "apply"} =>
              manages'[v] = IF update'[v].next.on THEN "open" ELSE "none"
         /\ update'[v].at \in {"start", "persist", "apply"} => update'[v].closes = Nobody
         /\ update'[v].closes # Nobody =>
              /\ update'[v].closes # live'
              /\ \/ update'[v].closes = Boot
                 \/ update'[update'[v].closes].at \in {"retire", "dispose", "done", "failed"}
<1>1. /\ update'[v] = update[v] /\ IsUpdate(update[v]) /\ u # Boot
      /\ update[v].at = "start" => manages[v] = "none"
      /\ update[v].at \in {"persist", "apply"} => manages[v] = IF update[v].next.on THEN "open" ELSE "none"
      /\ update[v].at \in {"start", "persist", "apply"} => update[v].closes = Nobody
      /\ update[v].closes # Nobody =>
           /\ update[v].closes # live
           /\ update[v].closes = Boot \/ update[update[v].closes].at \in {"retire", "dispose", "done", "failed"}
  BY SettingsAssumption DEF SettingsInv, SettingsTypeOK, UpdatesAreSound
<1>2. update[v].closes \in Updates \cup {Boot, Nobody}
  BY <1>1 DEF IsUpdate, Managers
<1>3. ASSUME update[v].closes # Nobody
      PROVE  /\ update[v].closes # live'
             /\ update[v].closes = Boot \/ update'[update[v].closes].at \in {"retire", "dispose", "done", "failed"}
  <2>1. update[v].closes = u => update[u].at \notin {"persist", "apply"}
    BY <1>1, <1>3
  <2>2. update[v].closes # live'
    BY <1>1, <1>3, <2>1
  <2>3. CASE update[v].closes = u
    BY <2>1, <2>2, <2>3
  <2>4. CASE update[v].closes # u
    BY <1>1, <1>2, <1>3, <2>2, <2>4
  <2>. QED  BY <2>3, <2>4
<1>. QED  BY <1>1, <1>3

\* A step that leaves the managers and everybody who uses or replaces them alone.
LEMMA SettingsFrame ==
  ASSUME SettingsInv, UNCHANGED <<live, switcher, manages, runs, update, call>>
  PROVE  SettingsInv'
<1>1. SettingsTypeOK'
  BY DEF SettingsInv, SettingsTypeOK, IsUpdate
<1>2. SwitcherIsSound'
  BY DEF SettingsInv, SwitcherIsSound, Inside
<1>3. RunsAreOver' /\ UpdatesAreSound'
  BY DEF SettingsInv, RunsAreOver, UpdatesAreSound
<1>4. NoneIsForgotten'
  BY DEF SettingsInv, NoneIsForgotten, Ended
<1>. QED  BY <1>1, <1>2, <1>3, <1>4 DEF SettingsInv

\* Storing the row of an update, or failing to.
LEMMA PersistKeeps ==
  ASSUME SettingsInv, NEW u \in Updates, Persist(u)
  PROVE  SettingsInv'
<1>1. /\ SettingsTypeOK /\ update[u].at = "persist" /\ u \in Managers /\ u # Boot /\ u # Nobody
      /\ update[u].closes = Nobody /\ UNCHANGED <<live, switcher, manages, runs, call>>
      /\ manages[u] = IF update[u].next.on THEN "open" ELSE "none"
  BY SettingsAssumption DEF SettingsInv, SettingsTypeOK, UpdatesAreSound, Persist, Managers
<1>2. live # u
  BY <1>1 DEF SettingsInv, SwitcherIsSound
<1>3. PICK at \in {"apply", "dispose"}, m \in {Nobody, u} :
        /\ update' = [v \in Updates |-> update'[v]] /\ \A v \in Updates : IsUpdate(update'[v])
        /\ update'[u].at = at /\ update'[u].next = update[u].next /\ update'[u].closes = m
        /\ \A v \in Updates \ {u} : update'[v] = update[v]
        /\ at = "apply" => m = Nobody
        /\ at = "dispose" => m = u
  <2>1. "apply" \in UpdatePlaces /\ "dispose" \in UpdatePlaces
    BY DEF UpdatePlaces
  <2>2. CASE update' = [update EXCEPT ![u].at = "apply"]
    BY <1>1, <2>1, <2>2, UpdateMoves
  <2>3. CASE update' = [update EXCEPT ![u].at = "dispose", ![u].closes = u]
    <3>. DEFINE at == "dispose"
    <3>1. at \in UpdatePlaces /\ u \in Managers \cup {Nobody} /\ update' = [update EXCEPT ![u].at = at, ![u].closes = u]
      BY <1>1, <2>1, <2>3
    <3>. HIDE DEF at
    <3>2. /\ update' = [v \in Updates |-> update'[v]] /\ \A v \in Updates : IsUpdate(update'[v])
          /\ update'[u].at = at /\ update'[u].next = update[u].next /\ update'[u].closes = u
          /\ \A v \in Updates \ {u} : update'[v] = update[v]
      BY <1>1, <3>1, UpdateMustClose
    <3>. QED  BY <3>2 DEF at
  <2>. QED  BY <2>2, <2>3 DEF Persist, PersistFails
<1>4. SettingsTypeOK'
  BY <1>1, <1>3 DEF SettingsTypeOK
<1>5. SwitcherIsSound'
  BY <1>1, <1>2, <1>3 DEF SettingsInv, SettingsTypeOK, SwitcherIsSound, Inside, Managers
<1>6. RunsAreOver'
  BY <1>1 DEF SettingsInv, RunsAreOver
<1>7. UpdatesAreSound'
  <2>1. \A v \in Updates \ {u} :
          /\ update'[v].at = "start" => manages'[v] = "none"
          /\ update'[v].at \in {"persist", "apply"} =>
               manages'[v] = IF update'[v].next.on THEN "open" ELSE "none"
          /\ update'[v].at \in {"start", "persist", "apply"} => update'[v].closes = Nobody
          /\ update'[v].closes # Nobody =>
               /\ update'[v].closes # live'
               /\ \/ update'[v].closes = Boot
                  \/ update'[update'[v].closes].at \in {"retire", "dispose", "done", "failed"}
    BY <1>1, <1>3, OthersKeep
  <2>. QED  BY <1>1, <1>2, <1>3, <2>1 DEF UpdatesAreSound
<1>8. NoneIsForgotten'
  <2>1. ASSUME NEW k \in Managers, manages'[k] = "open",
               k = Boot \/ update'[k].at \notin {"start", "persist", "apply"}
        PROVE  live' = k \/ \E v \in Updates : update'[v].closes = k /\ ~Ended(v)'
    <3>1. CASE k = u
      BY <1>1, <1>3, <2>1, <3>1 DEF Ended
    <3>2. CASE k # u
      <4>1. live = k \/ \E v \in Updates : update[v].closes = k /\ ~Ended(v)
        BY <1>1, <1>3, <2>1, <3>2 DEF SettingsInv, NoneIsForgotten, Managers
      <4>2. ASSUME NEW v \in Updates, update[v].closes = k, ~Ended(v)
            PROVE  update'[v].closes = k /\ ~Ended(v)'
        <5>1. v # u
          BY <1>1, <4>2, SettingsAssumption DEF Managers
        <5>. QED  BY <1>3, <4>2, <5>1 DEF Ended
      <4>. QED  BY <1>1, <4>1, <4>2
    <3>. QED  BY <3>1, <3>2
  <2>. QED  BY <2>1 DEF NoneIsForgotten
<1>. QED  BY <1>4, <1>5, <1>6, <1>7, <1>8 DEF SettingsInv

\* The switch: the new manager takes the old one's place while nobody is inside.
LEMMA ApplyKeeps ==
  ASSUME SettingsInv, NEW u \in Updates, Apply(u)
  PROVE  SettingsInv'
<1>. DEFINE mine == IF update[u].next.on THEN u ELSE Nobody
<1>1. /\ SettingsTypeOK /\ update[u].at = "apply" /\ u \in Managers /\ u # Boot /\ u # Nobody
      /\ update[u].closes = Nobody /\ UNCHANGED <<manages, runs, call>> /\ Inside = {}
      /\ manages[u] = IF update[u].next.on THEN "open" ELSE "none"
      /\ live \in Managers \cup {Nobody}
  BY SettingsAssumption
     DEF SettingsInv, SettingsTypeOK, UpdatesAreSound, Apply, Managers, MayWrite, NoReader
<1>2. live # u /\ \A v \in Updates : update[v].closes # u
  BY <1>1 DEF SettingsInv, SwitcherIsSound, UpdatesAreSound
<1>3. /\ mine \in {u, Nobody} /\ (mine = u => manages[u] = "open")
      /\ (mine = Nobody => manages[u] # "open") /\ (mine = u <=> update[u].next.on)
  BY <1>1
<1>4. /\ switcher = "closed" =>
           /\ update' = [update EXCEPT ![u].at = "dispose", ![u].closes = mine]
           /\ live' = live /\ switcher' = switcher
      /\ switcher # "closed" =>
           /\ update' = [update EXCEPT ![u].at = "retire", ![u].closes = live]
           /\ live' = mine /\ switcher' = IF update[u].next.on THEN "on" ELSE "off"
  BY DEF Apply
<1>. HIDE DEF mine
<1>5. PICK at \in {"retire", "dispose"}, m \in Managers \cup {Nobody} :
        /\ update' = [v \in Updates |-> update'[v]] /\ \A v \in Updates : IsUpdate(update'[v])
        /\ update'[u].at = at /\ update'[u].next = update[u].next /\ update'[u].closes = m
        /\ \A v \in Updates \ {u} : update'[v] = update[v]
        /\ at = "dispose" => m = mine /\ live' = live /\ switcher' = switcher /\ switcher = "closed"
        /\ at = "retire" =>
             m = live /\ live' = mine /\ switcher' = IF update[u].next.on THEN "on" ELSE "off"
  <2>1. "retire" \in UpdatePlaces /\ "dispose" \in UpdatePlaces /\ mine \in Managers \cup {Nobody}
    BY <1>1, <1>3 DEF UpdatePlaces
  <2>2. CASE switcher = "closed"
    BY <1>1, <1>4, <2>1, <2>2, UpdateMustClose
  <2>3. CASE switcher # "closed"
    BY <1>1, <1>4, <2>1, <2>3, UpdateMustClose
  <2>. QED  BY <2>2, <2>3
<1>6. /\ live' \in {live, u, Nobody} /\ (at = "dispose" => live' = Nobody)
      /\ live' \in Managers \cup {Nobody}
  BY <1>1, <1>3, <1>5 DEF SettingsInv, SwitcherIsSound
<1>7. SettingsTypeOK'
  BY <1>1, <1>5, <1>6 DEF SettingsTypeOK
<1>8. SwitcherIsSound'
  <2>1. Inside' = {}
    BY <1>1 DEF Inside
  <2>2. CASE at = "dispose"
    BY <1>5, <1>6, <2>1, <2>2 DEF SwitcherIsSound
  <2>3. CASE at = "retire"
    <3>1. switcher' = "on" <=> live' # Nobody
      BY <1>1, <1>3, <1>5, <2>3
    <3>2. live' # Nobody => live' = u /\ manages'[u] = "open" /\ update'[u].at = "retire"
      BY <1>1, <1>3, <1>5, <2>3
    <3>. QED  BY <2>1, <3>1, <3>2 DEF SwitcherIsSound
  <2>. QED  BY <2>2, <2>3
<1>9. RunsAreOver'
  BY <1>1 DEF SettingsInv, RunsAreOver
<1>10. UpdatesAreSound'
  <2>1. \A v \in Updates \ {u} :
          /\ update'[v].at = "start" => manages'[v] = "none"
          /\ update'[v].at \in {"persist", "apply"} =>
               manages'[v] = IF update'[v].next.on THEN "open" ELSE "none"
          /\ update'[v].at \in {"start", "persist", "apply"} => update'[v].closes = Nobody
          /\ update'[v].closes # Nobody =>
               /\ update'[v].closes # live'
               /\ \/ update'[v].closes = Boot
                  \/ update'[update'[v].closes].at \in {"retire", "dispose", "done", "failed"}
    BY <1>1, <1>5, <1>6, OthersKeep
  <2>2. update'[u].closes # Nobody =>
          /\ update'[u].closes # live'
          /\ \/ update'[u].closes = Boot
             \/ update'[update'[u].closes].at \in {"retire", "dispose", "done", "failed"}
    <3>1. CASE at = "dispose"
      BY <1>3, <1>5, <1>6, <3>1
    <3>2. CASE at = "retire"
      <4>1. live # Nobody => live = Boot \/ (live \in Updates \ {u} /\ update[live].at \in {"retire", "done"})
        BY <1>1, <1>2 DEF SettingsInv, SwitcherIsSound, Managers
      <4>2. live # Nobody => live' # live
        BY <1>2, <1>3, <1>5, <3>2
      <4>. QED  BY <1>5, <3>2, <4>1, <4>2
    <3>. QED  BY <3>1, <3>2
  <2>. QED  BY <1>5, <2>1, <2>2 DEF UpdatesAreSound
<1>11. NoneIsForgotten'
  <2>1. ASSUME NEW k \in Managers, manages'[k] = "open",
               k = Boot \/ update'[k].at \notin {"start", "persist", "apply"}
        PROVE  live' = k \/ \E v \in Updates : update'[v].closes = k /\ ~Ended(v)'
    <3>1. ~Ended(u)'
      BY <1>5 DEF Ended
    <3>2. CASE k = u
      <4>1. mine = u
        BY <1>1, <1>3, <2>1, <3>2
      <4>. QED  BY <1>5, <3>1, <3>2, <4>1
    <3>3. CASE k # u
      <4>1. live = k \/ \E v \in Updates : update[v].closes = k /\ ~Ended(v)
        BY <1>1, <1>5, <2>1, <3>3 DEF SettingsInv, NoneIsForgotten, Managers
      <4>2. k # Nobody
        BY SettingsAssumption DEF Managers
      <4>3. CASE live = k
        BY <1>5, <3>1, <4>3
      <4>4. ASSUME NEW v \in Updates, update[v].closes = k, ~Ended(v)
            PROVE  update'[v].closes = k /\ ~Ended(v)'
        <5>1. v # u
          BY <1>1, <4>2, <4>4
        <5>. QED  BY <1>5, <4>4, <5>1 DEF Ended
      <4>. QED  BY <4>1, <4>3, <4>4
    <3>. QED  BY <3>2, <3>3
  <2>. QED  BY <2>1 DEF NoneIsForgotten
<1>. QED  BY <1>7, <1>8, <1>9, <1>10, <1>11 DEF SettingsInv

\* The end of an update: what it had to close is closed.
LEMMA CommitKeeps ==
  ASSUME SettingsInv, NEW u \in Updates, Commit(u)
  PROVE  SettingsInv'
<1>1. /\ SettingsTypeOK /\ update[u].at \in {"retire", "dispose"} /\ u \in Managers /\ u # Boot /\ u # Nobody
      /\ UNCHANGED <<live, switcher, manages, runs, call>>
  BY SettingsAssumption DEF SettingsInv, SettingsTypeOK, Commit, Managers
<1>2. update[u].closes # Nobody => manages[update[u].closes] \in {"none", "closed"}
  BY DEF Commit
<1>3. PICK at \in {"done", "failed"} :
        /\ update' = [v \in Updates |-> update'[v]] /\ \A v \in Updates : IsUpdate(update'[v])
        /\ update'[u].at = at /\ update'[u].next = update[u].next /\ update'[u].closes = update[u].closes
        /\ \A v \in Updates \ {u} : update'[v] = update[v]
        /\ update[u].at = "retire" => at = "done"
  <2>1. "done" \in UpdatePlaces /\ "failed" \in UpdatePlaces
    BY DEF UpdatePlaces
  <2>2. CASE update[u].at = "retire"
    <3>1. update' = [update EXCEPT ![u].at = "done"]
      BY <2>2 DEF Commit
    <3>. QED  BY <1>1, <2>1, <3>1, UpdateMoves
  <2>3. CASE update[u].at = "dispose"
    <3>1. update' = [update EXCEPT ![u].at = "failed"]
      BY <2>3 DEF Commit
    <3>. QED  BY <1>1, <2>1, <2>3, <3>1, UpdateMoves
  <2>. QED  BY <1>1, <2>2, <2>3
<1>4. SettingsTypeOK'
  BY <1>1, <1>3 DEF SettingsTypeOK
<1>5. SwitcherIsSound'
  BY <1>1, <1>3 DEF SettingsInv, SettingsTypeOK, SwitcherIsSound, Inside, Managers
<1>6. RunsAreOver'
  BY <1>1 DEF SettingsInv, RunsAreOver
<1>7. UpdatesAreSound'
  <2>1. \A v \in Updates \ {u} :
          /\ update'[v].at = "start" => manages'[v] = "none"
          /\ update'[v].at \in {"persist", "apply"} =>
               manages'[v] = IF update'[v].next.on THEN "open" ELSE "none"
          /\ update'[v].at \in {"start", "persist", "apply"} => update'[v].closes = Nobody
          /\ update'[v].closes # Nobody =>
               /\ update'[v].closes # live'
               /\ \/ update'[v].closes = Boot
                  \/ update'[update'[v].closes].at \in {"retire", "dispose", "done", "failed"}
    BY <1>1, <1>3, OthersKeep
  <2>2. update'[u].closes # Nobody =>
          /\ update'[u].closes # live'
          /\ \/ update'[u].closes = Boot
             \/ update'[update'[u].closes].at \in {"retire", "dispose", "done", "failed"}
    <3>1. /\ IsUpdate(update[u])
          /\ update[u].closes # Nobody =>
               /\ update[u].closes # live
               /\ \/ update[u].closes = Boot
                  \/ update[update[u].closes].at \in {"retire", "dispose", "done", "failed"}
      BY <1>1 DEF SettingsInv, SettingsTypeOK, UpdatesAreSound
    <3>2. update[u].closes \in Updates \cup {Boot, Nobody}
      BY <3>1 DEF IsUpdate, Managers
    <3>3. CASE update[u].closes = u
      BY <1>1, <1>3, <3>1, <3>3
    <3>4. CASE update[u].closes # u
      BY <1>1, <1>3, <3>1, <3>2, <3>4
    <3>. QED  BY <3>3, <3>4
  <2>. QED  BY <1>3, <2>1, <2>2 DEF UpdatesAreSound
<1>8. NoneIsForgotten'
  <2>1. ASSUME NEW m \in Managers, manages'[m] = "open",
               m = Boot \/ update'[m].at \notin {"start", "persist", "apply"}
        PROVE  live' = m \/ \E v \in Updates : update'[v].closes = m /\ ~Ended(v)'
    <3>1. m = Boot \/ update[m].at \notin {"start", "persist", "apply"}
      BY <1>1, <1>3, <2>1 DEF Managers
    <3>2. live = m \/ \E v \in Updates : update[v].closes = m /\ ~Ended(v)
      BY <1>1, <2>1, <3>1 DEF SettingsInv, NoneIsForgotten
    <3>3. ASSUME NEW v \in Updates, update[v].closes = m, ~Ended(v)
          PROVE  update'[v].closes = m /\ ~Ended(v)'
      <4>1. v # u
        BY <1>1, <1>2, <2>1, <3>3, SettingsAssumption DEF Managers
      <4>. QED  BY <1>3, <3>3, <4>1 DEF Ended
    <3>. QED  BY <1>1, <3>2, <3>3
  <2>. QED  BY <2>1 DEF NoneIsForgotten
<1>. QED  BY <1>4, <1>5, <1>6, <1>7, <1>8 DEF SettingsInv

\* Closing a manager that is not in use, and the shutdown.
LEMMA ClosingKeeps ==
  ASSUME SettingsInv, (\E u \in Updates : Closes(u)) \/ CloseService \/ CloseSwitcher
  PROVE  SettingsInv'
<1>1. /\ SettingsTypeOK /\ manages \in [Managers -> {"none", "open", "closing", "closed"}]
      /\ live \in Managers \cup {Nobody}
  BY DEF SettingsInv, SettingsTypeOK
<1>2. ASSUME NEW m \in Managers, manages[m] = "open",
             manages' = [manages EXCEPT ![m] = "closing"], UNCHANGED <<runs, update, call>>,
             m = Boot \/ update[m].at \in {"retire", "dispose", "done", "failed"},
             \/ live' = live /\ switcher' = switcher /\ m # live
             \/ live' = Nobody /\ switcher' = "closed" /\ m = live /\ Inside = {}
      PROVE  SettingsInv'
  <2>1. /\ manages' \in [Managers -> {"none", "open", "closing", "closed"}]
        /\ manages'[m] = "closing" /\ \A n \in Managers \ {m} : manages'[n] = manages[n]
    BY <1>1, <1>2
  <2>2. SettingsTypeOK'
    BY <1>2, <2>1 DEF SettingsInv, SettingsTypeOK, IsUpdate
  <2>3. RunsAreOver'
    BY <1>2, <2>1 DEF SettingsInv, RunsAreOver
  <2>4. SwitcherIsSound'
    <3>1. CASE live' = live /\ switcher' = switcher /\ m # live
      BY <1>1, <1>2, <2>1, <3>1 DEF SettingsInv, SwitcherIsSound, Inside
    <3>2. CASE live' = Nobody /\ switcher' = "closed" /\ m = live /\ Inside = {}
      BY <1>2, <3>2 DEF SwitcherIsSound, Inside
    <3>. QED  BY <1>2, <3>1, <3>2
  <2>5. UpdatesAreSound'
    <3>1. ASSUME NEW u \in Updates
          PROVE  /\ update[u].at = "start" => manages'[u] = "none"
                 /\ update[u].at \in {"persist", "apply"} =>
                      manages'[u] = IF update[u].next.on THEN "open" ELSE "none"
                 /\ update[u].closes # Nobody => update[u].closes # live'
      <4>1. update[u].at \in {"start", "persist", "apply"} => u # m /\ u \in Managers
        BY <1>2, SettingsAssumption DEF Managers
      <4>2. update[u].closes # Nobody => update[u].closes # live'
        BY <1>2 DEF SettingsInv, UpdatesAreSound
      <4>. QED  BY <2>1, <4>1, <4>2 DEF SettingsInv, UpdatesAreSound
    <3>. QED  BY <1>2, <3>1 DEF SettingsInv, UpdatesAreSound
  <2>6. NoneIsForgotten'
    BY <1>2, <2>1 DEF SettingsInv, NoneIsForgotten, Ended
  <2>. QED  BY <2>2, <2>3, <2>4, <2>5, <2>6 DEF SettingsInv
<1>3. ASSUME NEW u \in Updates, Closes(u)
      PROVE  SettingsInv'
  <2>. DEFINE m == update[u].closes
  <2>1. /\ m # Nobody /\ manages[m] = "open" /\ manages' = [manages EXCEPT ![m] = "closing"]
        /\ UNCHANGED <<runs, update, call, live, switcher>> /\ IsUpdate(update[u])
    BY <1>1, <1>3 DEF Closes, SettingsTypeOK
  <2>2. m \in Managers
    BY <2>1 DEF IsUpdate
  <2>3. m # live /\ (m = Boot \/ update[m].at \in {"retire", "dispose", "done", "failed"})
    BY <2>1 DEF SettingsInv, UpdatesAreSound
  <2>. HIDE DEF m
  <2>. QED  BY <1>2, <2>1, <2>2, <2>3
<1>4. CASE CloseSwitcher
  <2>1. /\ switcher' = "closed" /\ live' = Nobody /\ UNCHANGED <<runs, update, call>> /\ Inside = {}
        /\ manages' = IF live = Nobody THEN manages ELSE [manages EXCEPT ![live] = "closing"]
    BY <1>4 DEF CloseSwitcher, MayWrite, NoReader
  <2>2. CASE live = Nobody
    <3>1. UNCHANGED <<live, manages>>
      BY <2>1, <2>2
    <3>2. SettingsTypeOK'
      BY <2>1, <3>1 DEF SettingsInv, SettingsTypeOK, IsUpdate
    <3>3. SwitcherIsSound'
      BY <2>1 DEF SwitcherIsSound, Inside
    <3>4. RunsAreOver' /\ UpdatesAreSound' /\ NoneIsForgotten'
      BY <2>1, <3>1 DEF SettingsInv, RunsAreOver, UpdatesAreSound, NoneIsForgotten, Ended
    <3>. QED  BY <3>2, <3>3, <3>4 DEF SettingsInv
  <2>3. CASE live # Nobody
    <3>1. /\ live \in Managers /\ manages[live] = "open"
          /\ live = Boot \/ update[live].at \in {"retire", "dispose", "done", "failed"}
      BY <1>1, <2>3 DEF SettingsInv, SwitcherIsSound
    <3>. QED  BY <1>2, <2>1, <2>3, <3>1
  <2>. QED  BY <2>2, <2>3
<1>5. CASE CloseService
  BY <1>5, SettingsFrame DEF CloseService
<1>. QED  BY <1>3, <1>4, <1>5

\* Whatever updates, refreshes, requests and the shutdown do to each other, the
\* managers keep the inductive invariant.
THEOREM SettingsInductive == SettingsSpec => []SettingsInv
<1>1. ASSUME SettingsInit
      PROVE  SettingsInv
  <2>1. /\ live = IF current.on THEN Boot ELSE Nobody
        /\ switcher = IF current.on THEN "on" ELSE "off"
        /\ manages = [m \in Managers |-> IF m = Boot /\ current.on THEN "open" ELSE "none"]
        /\ runs = [m \in Managers |-> IF m = Boot /\ current.on THEN "timer" ELSE "off"]
        /\ update = [u \in Updates |-> [at |-> "start", next |-> Refused, closes |-> Nobody]]
        /\ call = [c \in Calls |-> [at |-> "start", uses |-> Nobody]]
    BY <1>1 DEF SettingsInit
  <2>2. Boot \in Managers /\ Updates \subseteq Managers /\ Boot # Nobody /\ Boot \notin Updates
    BY SettingsAssumption DEF Managers
  <2>3. update = [u \in Updates |-> update[u]] /\ \A u \in Updates : IsUpdate(update[u])
    BY <2>1 DEF IsUpdate, UpdatePlaces
  <2>4. call \in [Calls -> CallRecords] /\ Inside = {}
    BY <2>1 DEF CallRecords, Inside
  <2>5. SettingsTypeOK
    BY <2>1, <2>2, <2>3, <2>4 DEF SettingsTypeOK
  <2>6. SwitcherIsSound
    BY <2>1, <2>2, <2>4 DEF SwitcherIsSound
  <2>7. RunsAreOver /\ UpdatesAreSound
    BY <2>1, <2>2 DEF RunsAreOver, UpdatesAreSound
  <2>8. NoneIsForgotten
    BY <2>1, <2>2 DEF NoneIsForgotten
  <2>. QED  BY <2>5, <2>6, <2>7, <2>8 DEF SettingsInv
<1>2. ASSUME SettingsInv, [SettingsNext]_settingsVars
      PROVE  SettingsInv'
  <2>1. ASSUME NEW u \in Updates, UpdateStep(u) \/ \E p \in Patches : BeginUpdate(u, p)
        PROVE  SettingsInv'
    BY <1>2, <2>1, PersistKeeps, ApplyKeeps, ClosingKeeps, CommitKeeps, BeginUpdateKeeps DEF UpdateStep
  <2>2. ASSUME NEW m \in Managers, FetchSingleFlight(m) \/ RunStep(m)
        PROVE  SettingsInv'
    BY <1>2, <2>2, CollectorsKeep
  <2>3. CASE UNCHANGED settingsVars
    BY <1>2, <2>3, SettingsFrame DEF settingsVars
  <2>. QED  BY <1>2, <2>1, <2>2, <2>3, CallStepsKeep, ClosingKeeps DEF SettingsNext
<1>. QED  BY <1>1, <1>2, PTL DEF SettingsSpec

\* A manager is open while a request or a refresh uses it, its client is closed
\* after the last fetch, and none is left behind (switcher.go:45-118,
\* collector.go:228-247, 493-517, settings.go:235-248).
THEOREM SettingsManagersSound == SettingsSpec => []ManagersAreSound
BY SettingsInductive, SettingsInvIsEnough, PTL

(***************************************************************************)
(* One call through an exit: the inductive invariant                       *)
(***************************************************************************)
CallSpec == CallInit /\ [][CallNext]_callVars

ReportNames == {"latency", "success", "failure", "http failure", "retired"}
HandleRecords == [wrote : BOOLEAN, reports : SUBSET ReportNames]
CallErrors ==
  {"none", "no exit", "build", "transport", "first byte", "network", "refused", "rejected"}
Sendings ==
  [at : {"acquire", "send", "again", "body", "closing", "over"}, kind : Kinds, late : BOOLEAN,
   error : CallErrors]
Bodies ==
  [open : BOOLEAN, good : BOOLEAN, required : BOOLEAN, eof : BOOLEAN,
   terminal : {"none", "complete", "failed"}, closed : SUBSET Closers, marked : BOOLEAN, ended : BOOLEAN]

CallTypeOK ==
  /\ sending \in Sendings /\ handles \in Seq(HandleRecords)
  /\ context \in {"alive", "canceled", "deadline"} /\ body \in Bodies

\* An attempt that is over and was not the last one was never written, nor credited.
EarlierAreSpent ==
  \A k \in 1..Len(handles) :
    k < Len(handles) \/ sending.at \in {"acquire", "again"}
    => ~handles[k].wrote /\ "success" \notin handles[k].reports

\* While the body is read, the last attempt was told what the body's state says.
Judged(reports) ==
  /\ body.good => (body.required <=> sending.kind # "speech")
  /\ body.eof => body.ended
  /\ "retired" \notin reports /\ (body.good => "http failure" \notin reports)
  /\ body.terminal = "none" => "success" \notin reports /\ "failure" \notin reports
  /\ body.terminal = "complete" => "failure" \notin reports
  /\ "success" \in reports =>
       /\ body.good /\ body.terminal = "complete"
       /\ sending.kind \in {"stream", "whole"} => body.marked
       /\ sending.kind \in {"speech", "whole"} => body.ended

LastIsJudged ==
  /\ sending.at \in {"send", "again", "body", "closing"} => Len(handles) >= 1
  /\ sending.at = "send" => handles[Len(handles)].reports = {}
  /\ sending.at \in {"body", "closing"} => Judged(handles[Len(handles)].reports)

\* The inductive invariant of a call.
CallInv == CallTypeOK /\ EarlierAreSpent /\ LastIsJudged /\ SuccessIsEarned

\* What is not the last attempt came before it.
LEMMA BelowLast == \A n \in Nat : \A k \in 1..n : k # n <=> k < n
OBVIOUS

\* At most one attempt of a call was written.
LEMMA OneWasWritten == CallInv => SentOnce
<1>. SUFFICES ASSUME CallInv PROVE SentOnce
  OBVIOUS
<1>. DEFINE W == {k \in DOMAIN handles : handles[k].wrote}
<1>1. handles \in Seq(HandleRecords) /\ DOMAIN handles = 1..Len(handles) /\ Len(handles) \in Nat
  BY LenProperties DEF CallInv, CallTypeOK
<1>2. W \subseteq {Len(handles)}
  BY <1>1 DEF CallInv, EarlierAreSpent
<1>. HIDE DEF W
<1>3. IsFiniteSet({Len(handles)}) /\ Cardinality({Len(handles)}) = 1
  BY FS_Singleton
<1>4. Cardinality(W) <= Cardinality({Len(handles)})
  BY <1>2, <1>3, FS_Subset
<1>. QED  BY <1>3, <1>4 DEF W, SentOnce

\* A report is added to what the last attempt was told.
LEMMA ReportedEffect ==
  ASSUME CallTypeOK, Len(handles) >= 1, NEW r \in ReportNames, handles' = Reported(r)
  PROVE  /\ handles' \in Seq(HandleRecords) /\ Len(handles') = Len(handles)
         /\ \A k \in 1..Len(handles) : handles'[k].wrote = handles[k].wrote
         /\ \A k \in 1..Len(handles) : k # Len(handles) => handles'[k] = handles[k]
         /\ handles'[Len(handles)].reports = handles[Len(handles)].reports \cup {r}
<1>. DEFINE n == Len(handles)
            h == [handles[n] EXCEPT !.reports = handles[n].reports \cup {r}]
<1>1. handles \in Seq(HandleRecords) /\ n \in Nat /\ n \in 1..n
  BY LenProperties DEF CallTypeOK
<1>2. handles[n] \in HandleRecords
  BY <1>1, ElementOfSeq
<1>3. handles' = [handles EXCEPT ![n] = h]
  BY DEF Reported, Latest
<1>4. /\ h \in HandleRecords /\ h.wrote = handles[n].wrote
      /\ h.reports = handles[n].reports \cup {r}
  BY <1>2 DEF HandleRecords
<1>. HIDE DEF h
<1>5. /\ [handles EXCEPT ![n] = h] \in Seq(HandleRecords)
      /\ Len([handles EXCEPT ![n] = h]) = Len(handles)
      /\ \A j \in 1..Len(handles) : [handles EXCEPT ![n] = h][j] = IF j = n THEN h ELSE handles[j]
  BY <1>1, <1>4, ExceptSeq
<1>. QED  BY <1>1, <1>3, <1>4, <1>5

\* The caller's record changes place and error, not kind.
LEMMA SendingMoves ==
  ASSUME CallTypeOK, NEW at \in {"acquire", "send", "again", "body", "closing", "over"}, NEW e \in CallErrors,
         sending' = [sending EXCEPT !.at = at, !.error = e] \/ sending' = [sending EXCEPT !.at = at]
  PROVE  sending' \in Sendings /\ sending'.at = at /\ sending'.kind = sending.kind
<1>1. sending \in Sendings
  BY DEF CallTypeOK
<1>2. CASE sending' = [sending EXCEPT !.at = at, !.error = e]
  <2>1. sending' \in Sendings
    BY <1>1, <1>2 DEF Sendings
  <2>2. sending'.at = at /\ sending'.kind = sending.kind
    BY <1>1, <1>2 DEF Sendings
  <2>. QED  BY <2>1, <2>2
<1>3. CASE sending' = [sending EXCEPT !.at = at]
  BY <1>1, <1>3 DEF Sendings
<1>. QED  BY <1>2, <1>3

\* A call that ends, or whose context does, leaves what was told as it is.
LEMMA CallEndsKeep ==
  ASSUME CallInv, sending' \in Sendings, sending'.kind = sending.kind,
         handles' = handles, body' = body, context' \in {"alive", "canceled", "deadline"},
         \/ sending'.at = "over" \/ sending'.at = sending.at
         \/ sending.at = "again" /\ sending'.at = "acquire"
         \/ sending.at = "body" /\ sending'.at = "closing"
  PROVE  CallInv'
<1>1. CallTypeOK'
  BY DEF CallInv, CallTypeOK
<1>2. EarlierAreSpent'
  BY DEF CallInv, EarlierAreSpent
<1>3. LastIsJudged'
  BY DEF CallInv, LastIsJudged, Judged
<1>4. SuccessIsEarned'
  BY DEF CallInv, SuccessIsEarned
<1>. QED  BY <1>1, <1>2, <1>3, <1>4 DEF CallInv

\* A step on the body that tells the last attempt something, or nothing.
LEMMA BodyFrame ==
  ASSUME CallInv, sending.at \in {"body", "closing"}, sending'.at \in {"body", "closing"},
         sending' \in Sendings, sending'.kind = sending.kind, body' \in Bodies, context' = context,
         handles' = handles \/ \E r \in ReportNames \ {"retired"} : handles' = Reported(r),
         Judged(handles[Len(handles)].reports)'
  PROVE  CallInv'
<1>1. /\ handles \in Seq(HandleRecords) /\ Len(handles) \in Nat /\ Len(handles) >= 1 /\ CallTypeOK
      /\ DOMAIN handles = 1..Len(handles)
  BY LenProperties DEF CallInv, CallTypeOK, LastIsJudged
<1>2. /\ handles' \in Seq(HandleRecords) /\ Len(handles') = Len(handles)
      /\ \A k \in 1..Len(handles) : handles'[k].wrote = handles[k].wrote
      /\ \A k \in 1..Len(handles) : k # Len(handles) => handles'[k] = handles[k]
  BY <1>1, ReportedEffect
<1>3. CallTypeOK'
  BY <1>2 DEF CallInv, CallTypeOK
<1>0. ASSUME NEW k \in 1..Len(handles), k # Len(handles)
      PROVE  handles'[k] = handles[k] /\ ~handles'[k].wrote /\ "success" \notin handles'[k].reports
  <2>1. k < Len(handles)
    BY <1>0, <1>1, BelowLast
  <2>2. ~handles[k].wrote /\ "success" \notin handles[k].reports
    BY <2>1 DEF CallInv, EarlierAreSpent
  <2>3. handles'[k] = handles[k]
    BY <1>0, <1>2
  <2>. QED  BY <2>2, <2>3
<1>4. EarlierAreSpent'
  <2>1. \A k \in 1..Len(handles) : k < Len(handles) => k # Len(handles)
    BY <1>1, BelowLast
  <2>. QED  BY <1>0, <1>2, <2>1 DEF EarlierAreSpent
<1>5. LastIsJudged'
  BY <1>1, <1>2 DEF LastIsJudged
<1>6. SuccessIsEarned'
  <2>1. ASSUME NEW k \in 1..Len(handles), "success" \in handles'[k].reports
        PROVE  k = Len(handles)
    BY <1>0, <2>1
  <2>2. DOMAIN handles' = 1..Len(handles)
    BY <1>2, LenProperties
  <2>3. "success" \in handles'[Len(handles)].reports =>
          /\ handles'[Len(handles)].reports \cap {"failure", "http failure", "retired"} = {}
          /\ body'.good /\ body'.terminal = "complete"
          /\ sending'.kind \in {"stream", "whole"} => body'.marked
          /\ sending'.kind \in {"speech", "whole"} => body'.ended
    BY <1>2 DEF Judged
  <2>. QED  BY <2>1, <2>2, <2>3 DEF SuccessIsEarned
<1>. QED  BY <1>3, <1>4, <1>5, <1>6 DEF CallInv

\* The steps before there is a body: only an attempt whose request was not
\* written is followed by another one.
LEMMA BeforeTheBody ==
  ASSUME CallInv,
         \/ \E ok \in BOOLEAN : AcquireExit(ok)
         \/ BuildFails \/ WroteRequest \/ FirstByteExpires
         \/ \E how \in {"canceled", "deadline"} : ContextEnds(how)
         \/ AnswerComesBadly \/ TryAgain \/ HandlerReturns
  PROVE  CallInv'
<1>1. /\ CallTypeOK /\ sending \in Sendings /\ handles \in Seq(HandleRecords) /\ Len(handles) \in Nat
      /\ context \in {"alive", "canceled", "deadline"} /\ DOMAIN handles = 1..Len(handles)
  BY LenProperties DEF CallInv, CallTypeOK
<1>2. ASSUME NEW e \in CallErrors, CallEnds(e), UNCHANGED <<handles, context, body>>
      PROVE  CallInv'
  <2>1. sending' = [sending EXCEPT !.at = "over", !.error = e]
    BY <1>2 DEF CallEnds
  <2>2. sending' \in Sendings /\ sending'.at = "over" /\ sending'.kind = sending.kind
    BY <1>1, <2>1, SendingMoves
  <2>. QED  BY <1>1, <1>2, <2>2, CallEndsKeep
<1>3. ASSUME NEW ok \in BOOLEAN, AcquireExit(ok)
      PROVE  CallInv'
  <2>1. sending.at = "acquire" /\ UNCHANGED <<context, body>>
    BY <1>3 DEF AcquireExit
  <2>2. CASE handles' = Append(handles, [wrote |-> FALSE, reports |-> {}])
             /\ sending' = [sending EXCEPT !.at = "send"]
    <3>. DEFINE h == [wrote |-> FALSE, reports |-> {}]
                n == Len(handles)
    <3>1. h \in HandleRecords /\ h.reports = {}
      BY DEF HandleRecords
    <3>2. handles' = Append(handles, h)
      BY <2>2
    <3>. HIDE DEF h
    <3>3. /\ handles' \in Seq(HandleRecords) /\ Len(handles') = n + 1
          /\ \A k \in 1..n : handles'[k] = handles[k]
          /\ handles'[n + 1] = h
      BY <1>1, <3>1, <3>2, AppendProperties
    <3>4. sending' \in Sendings /\ sending'.at = "send" /\ sending'.kind = sending.kind
      BY <1>1, <2>2 DEF Sendings
    <3>5. CallTypeOK'
      BY <1>1, <2>1, <3>3, <3>4 DEF CallInv, CallTypeOK
    <3>6. \A k \in 1..n : ~handles[k].wrote /\ "success" \notin handles[k].reports
      BY <2>1 DEF CallInv, EarlierAreSpent
    <3>7. EarlierAreSpent'
      <4>1. ASSUME NEW k \in 1..Len(handles'), k < Len(handles')
            PROVE  ~handles'[k].wrote /\ "success" \notin handles'[k].reports
        <5>1. k \in 1..n
          BY <1>1, <3>3, <4>1
        <5>2. handles'[k] = handles[k]
          BY <3>3, <5>1
        <5>. QED  BY <3>6, <5>1, <5>2
      <4>. QED  BY <3>4, <4>1 DEF EarlierAreSpent
    <3>8. LastIsJudged'
      BY <1>1, <3>1, <3>3, <3>4 DEF LastIsJudged
    <3>9. SuccessIsEarned'
      <4>1. ASSUME NEW k \in DOMAIN handles'
            PROVE  "success" \notin handles'[k].reports
        <5>1. k \in 1..(n + 1)
          BY <3>3, LenProperties
        <5>2. CASE k \in 1..n
          BY <3>3, <3>6, <5>2
        <5>3. CASE k = n + 1
          BY <3>1, <3>3, <5>3
        <5>. QED  BY <1>1, <5>1, <5>2, <5>3
      <4>. QED  BY <4>1 DEF SuccessIsEarned
    <3>. QED  BY <3>5, <3>7, <3>8, <3>9 DEF CallInv
  <2>3. CASE CallEnds("no exit") /\ UNCHANGED handles
    BY <1>2, <2>1, <2>3 DEF CallErrors
  <2>. QED  BY <1>3, <2>2, <2>3 DEF AcquireExit
<1>4. CASE BuildFails
  BY <1>2, <1>4 DEF BuildFails, CallErrors
<1>5. CASE WroteRequest
  <2>. DEFINE n == Len(handles)
              h == [handles[n] EXCEPT !.wrote = TRUE]
  <2>1. /\ sending.at = "send" /\ UNCHANGED <<sending, context, body>>
        /\ handles' = [handles EXCEPT ![n] = h]
    BY <1>5 DEF WroteRequest, Latest
  <2>2. n >= 1 /\ handles[n].reports = {}
    BY <2>1 DEF CallInv, LastIsJudged
  <2>3. handles[n] \in HandleRecords /\ n \in 1..n
    BY <1>1, <2>2, ElementOfSeq
  <2>4. h \in HandleRecords /\ h.reports = {}
    BY <2>2, <2>3 DEF HandleRecords
  <2>. HIDE DEF h
  <2>5. /\ handles' \in Seq(HandleRecords) /\ Len(handles') = n
        /\ \A k \in 1..n : handles'[k] = IF k = n THEN h ELSE handles[k]
    BY <1>1, <2>1, <2>3, <2>4, ExceptSeq
  <2>6. CallTypeOK'
    BY <1>1, <2>1, <2>5 DEF CallInv, CallTypeOK
  <2>7. EarlierAreSpent'
    <3>1. ASSUME NEW k \in 1..n, k < n
          PROVE  ~handles'[k].wrote /\ "success" \notin handles'[k].reports
      <4>1. ~handles[k].wrote /\ "success" \notin handles[k].reports
        BY <3>1 DEF CallInv, EarlierAreSpent
      <4>2. k # n
        BY <1>1, <3>1, BelowLast
      <4>3. handles'[k] = handles[k]
        BY <2>5, <4>2
      <4>. QED  BY <4>1, <4>3
    <3>. QED  BY <2>1, <2>5, <3>1 DEF EarlierAreSpent
  <2>8. LastIsJudged'
    BY <2>1, <2>2, <2>3, <2>4, <2>5 DEF LastIsJudged
  <2>9. SuccessIsEarned'
    <3>1. DOMAIN handles' = 1..n
      BY <2>5, LenProperties
    <3>2. \A k \in 1..n : handles'[k].reports = handles[k].reports
      BY <2>2, <2>4, <2>5
    <3>. QED  BY <1>1, <2>1, <3>1, <3>2 DEF CallInv, SuccessIsEarned
  <2>. QED  BY <2>6, <2>7, <2>8, <2>9 DEF CallInv
<1>6. CASE FirstByteExpires
  <2>1. sending' \in Sendings /\ sending'.at = sending.at /\ sending'.kind = sending.kind
    BY <1>1, <1>6 DEF FirstByteExpires, Sendings
  <2>. QED  BY <1>1, <1>6, <2>1, CallEndsKeep DEF FirstByteExpires
<1>7. ASSUME NEW how \in {"canceled", "deadline"}, ContextEnds(how)
      PROVE  CallInv'
  BY <1>1, <1>7, CallEndsKeep DEF ContextEnds
<1>8. CASE AnswerComesBadly
  BY <1>2, <1>8 DEF AnswerComesBadly, CallErrors
<1>9. CASE TryAgain
  <2>1. sending.at = "again" /\ UNCHANGED <<handles, context, body>> /\ sending.error \in CallErrors
    BY <1>1, <1>9 DEF TryAgain, Sendings
  <2>2. \/ CallEnds(sending.error) \/ CallEnds("transport") \/ CallEnds("rejected")
        \/ sending' = [sending EXCEPT !.at = "acquire", !.error = "none"]
    BY <1>9 DEF TryAgain
  <2>3. CASE sending' = [sending EXCEPT !.at = "acquire", !.error = "none"]
    <3>1. "none" \in CallErrors
      BY DEF CallErrors
    <3>2. sending' \in Sendings /\ sending'.at = "acquire" /\ sending'.kind = sending.kind
      BY <1>1, <2>3, <3>1, SendingMoves
    <3>. QED  BY <1>1, <2>1, <3>2, CallEndsKeep
  <2>. QED  BY <1>2, <2>1, <2>2, <2>3 DEF CallErrors
<1>10. CASE HandlerReturns
  BY <1>2, <1>10 DEF HandlerReturns, CallErrors
<1>. QED  BY <1>3, <1>4, <1>5, <1>6, <1>7, <1>8, <1>9, <1>10

\* A transport that fails: what was written is not tried again.
LEMMA TransportFailsKeeps ==
  ASSUME CallInv, NEW how \in {"network", "refused"}, TransportFails(how)
  PROVE  CallInv'
<1>. DEFINE n == Len(handles)
<1>1. /\ CallTypeOK /\ sending \in Sendings /\ handles \in Seq(HandleRecords) /\ n \in Nat
      /\ DOMAIN handles = 1..n /\ sending.at = "send" /\ UNCHANGED <<context, body>>
  BY LenProperties DEF CallInv, CallTypeOK, TransportFails
<1>2. n >= 1 /\ handles[n].reports = {}
  BY <1>1 DEF CallInv, LastIsJudged
<1>3. \A k \in 1..n : k < n => ~handles[k].wrote /\ "success" \notin handles[k].reports
  BY DEF CallInv, EarlierAreSpent
<1>4. ASSUME NEW r \in {"retired", "failure"}, handles' = Reported(r),
             NEW at \in {"again", "over"}, sending' \in Sendings, sending'.at = at,
             at = "again" => ~handles[n].wrote
      PROVE  CallInv'
  <2>1. r \in ReportNames
    BY DEF ReportNames
  <2>2. /\ handles' \in Seq(HandleRecords) /\ Len(handles') = n
        /\ \A k \in 1..n : handles'[k].wrote = handles[k].wrote
        /\ \A k \in 1..n : k # n => handles'[k] = handles[k]
        /\ handles'[n].reports = handles[n].reports \cup {r}
    BY <1>1, <1>2, <1>4, <2>1, ReportedEffect
  <2>3. \A k \in 1..n : "success" \notin handles'[k].reports
    <3>1. ASSUME NEW k \in 1..n
          PROVE  "success" \notin handles'[k].reports
      <4>1. CASE k = n
        BY <1>2, <1>4, <2>2, <4>1
      <4>2. CASE k # n
        <5>1. k < n
          BY <1>1, <4>2, BelowLast
        <5>. QED  BY <1>3, <2>2, <4>2, <5>1
      <4>. QED  BY <4>1, <4>2
    <3>. QED  BY <3>1
  <2>4. CallTypeOK'
    BY <1>1, <1>4, <2>2 DEF CallInv, CallTypeOK
  <2>5. EarlierAreSpent'
    <3>1. ASSUME NEW k \in 1..n, k < n \/ at = "again"
          PROVE  ~handles'[k].wrote
      <4>1. CASE k = n
        <5>1. at = "again"
          BY <1>1, <3>1, <4>1
        <5>2. handles'[n].wrote = handles[n].wrote
          BY <2>2, <4>1
        <5>. QED  BY <1>4, <4>1, <5>1, <5>2, Zenon
      <4>2. CASE k # n
        <5>1. k < n
          BY <1>1, <4>2, BelowLast
        <5>2. handles'[k] = handles[k]
          BY <2>2, <4>2
        <5>. QED  BY <1>3, <5>1, <5>2
      <4>. QED  BY <4>1, <4>2
    <3>. QED  BY <1>4, <2>2, <2>3, <3>1 DEF EarlierAreSpent
  <2>6. LastIsJudged'
    BY <1>2, <1>4, <2>2 DEF LastIsJudged
  <2>7. SuccessIsEarned'
    <3>1. DOMAIN handles' = 1..n
      BY <2>2, LenProperties
    <3>. QED  BY <2>3, <3>1 DEF SuccessIsEarned
  <2>. QED  BY <2>4, <2>5, <2>6, <2>7 DEF CallInv
<1>5. how \in CallErrors /\ "first byte" \in CallErrors
  BY DEF CallErrors
<1>6. CASE MayRetry
  <2>1. handles' = Reported("retired") /\ sending' = [sending EXCEPT !.at = "again", !.error = how]
    BY <1>6 DEF TransportFails
  <2>2. sending' \in Sendings /\ sending'.at = "again"
    BY <1>1, <1>5, <2>1, SendingMoves
  <2>3. ~handles[n].wrote
    BY <1>6 DEF MayRetry, Wrote, Latest
  <2>. QED  BY <1>4, <2>1, <2>2, <2>3
<1>7. CASE ~MayRetry
  <2>. DEFINE e == IF FirstByteTimedOut THEN "first byte" ELSE how
  <2>1. handles' \in {Reported("failure"), handles} /\ CallEnds(e)
    BY <1>7 DEF TransportFails
  <2>2. e \in CallErrors
    BY <1>5
  <2>. HIDE DEF e
  <2>3. sending' = [sending EXCEPT !.at = "over", !.error = e]
    BY <2>1 DEF CallEnds
  <2>4. sending' \in Sendings /\ sending'.at = "over" /\ sending'.kind = sending.kind
    BY <1>1, <2>2, <2>3, SendingMoves
  <2>5. CASE handles' = Reported("failure")
    BY <1>4, <2>4, <2>5
  <2>6. CASE handles' = handles
    BY <1>1, <2>4, <2>6, CallEndsKeep DEF CallTypeOK
  <2>. QED  BY <2>1, <2>5, <2>6
<1>. QED  BY <1>6, <1>7

\* The answer: its status opens the body and is the first thing an exit is told.
LEMMA AnswerComesKeeps ==
  ASSUME CallInv, NEW status \in {"2xx", "fault", "4xx"}, AnswerComes(status)
  PROVE  CallInv'
<1>. DEFINE n == Len(handles)
            good == status = "2xx"
            required == status = "2xx" /\ RequiresMark(sending.kind)
<1>1. /\ CallTypeOK /\ sending \in Sendings /\ handles \in Seq(HandleRecords) /\ n \in Nat
      /\ DOMAIN handles = 1..n /\ sending.at = "send" /\ context' = context
  BY LenProperties DEF CallInv, CallTypeOK, AnswerComes
<1>2. n >= 1 /\ handles[n].reports = {} /\ n \in 1..n
  BY <1>1 DEF CallInv, LastIsJudged
<1>3. \A k \in 1..n : k < n => ~handles[k].wrote /\ "success" \notin handles[k].reports
  BY DEF CallInv, EarlierAreSpent
<1>4. /\ body' \in Bodies /\ body'.good = good /\ body'.required = required
      /\ body'.eof = FALSE /\ body'.terminal = "none"
  <2>1. body' = [NoBody EXCEPT !.open = TRUE, !.good = good, !.required = required]
    BY DEF AnswerComes
  <2>2. good \in BOOLEAN /\ required \in BOOLEAN
    BY Zenon DEF RequiresMark
  <2>. HIDE DEF good, required
  <2>3. body' \in Bodies
    BY <2>1, <2>2 DEF NoBody, Bodies
  <2>4. body'.eof = FALSE /\ body'.terminal = "none"
    BY <2>1 DEF NoBody
  <2>5. body'.good = good /\ body'.required = required
    BY <2>1, Zenon DEF NoBody
  <2>. QED  BY <2>3, <2>4, <2>5, Zenon
<1>5. sending' \in Sendings /\ sending'.at = "body" /\ sending'.kind = sending.kind
  BY <1>1 DEF AnswerComes, Sendings
<1>6. /\ handles' \in Seq(HandleRecords) /\ Len(handles') = n
      /\ \A k \in 1..n : k # n => handles'[k] = handles[k]
      /\ handles'[n].reports \subseteq {"latency", "http failure"}
      /\ status = "2xx" => "http failure" \notin handles'[n].reports
  <2>1. "latency" \in ReportNames /\ "http failure" \in ReportNames
    BY DEF ReportNames
  <2>2. CASE status = "2xx"
    <3>1. handles' = Reported("latency")
      BY <2>2 DEF AnswerComes
    <3>. QED  BY <1>1, <1>2, <2>1, <3>1, ReportedEffect
  <2>3. CASE status = "fault"
    <3>1. handles' = Reported("http failure")
      BY <2>3 DEF AnswerComes
    <3>. QED  BY <1>1, <1>2, <2>1, <2>3, <3>1, ReportedEffect
  <2>4. CASE status = "4xx"
    <3>1. handles' = handles
      BY <2>4 DEF AnswerComes
    <3>. QED  BY <1>1, <1>2, <2>4, <3>1
  <2>. QED  BY <2>2, <2>3, <2>4
<1>7. CallTypeOK'
  BY <1>1, <1>4, <1>5, <1>6 DEF CallTypeOK
<1>8. ASSUME NEW k \in 1..n, k # n
      PROVE  ~handles'[k].wrote /\ "success" \notin handles'[k].reports
  <2>1. k < n
    BY <1>1, <1>8, BelowLast
  <2>2. handles'[k] = handles[k]
    BY <1>6, <1>8
  <2>. QED  BY <1>3, <2>1, <2>2
<1>9. EarlierAreSpent'
  <2>1. \A k \in 1..n : k < n => k # n
    BY <1>1, BelowLast
  <2>. QED  BY <1>5, <1>6, <1>8, <2>1 DEF EarlierAreSpent
<1>10. LastIsJudged'
  <2>1. body'.good => (body'.required <=> sending'.kind # "speech")
    <3>1. sending.kind \in {"stream", "whole", "speech"}
      BY <1>1 DEF Sendings, Kinds
    <3>2. RequiresMark(sending.kind) <=> sending.kind # "speech"
      BY <3>1 DEF RequiresMark
    <3>. QED  BY <1>4, <1>5, <3>2, Zenon
  <2>2. body'.good => status = "2xx"
    BY <1>4, Zenon
  <2>3. Judged(handles[Len(handles)].reports)'
    <3>1. handles'[Len(handles')].reports = handles'[n].reports
      BY <1>6
    <3>2. /\ "retired" \notin handles'[n].reports /\ "success" \notin handles'[n].reports
          /\ "failure" \notin handles'[n].reports
      BY <1>6
    <3>3. body'.good => "http failure" \notin handles'[n].reports
      BY <1>6, <2>2
    <3>4. body'.eof => body'.ended
      BY <1>4
    <3>5. body'.terminal = "none"
      BY <1>4
    <3>. QED  BY <2>1, <3>1, <3>2, <3>3, <3>4, <3>5 DEF Judged
  <2>. QED  BY <1>2, <1>5, <1>6, <2>3 DEF LastIsJudged
<1>11. SuccessIsEarned'
  <2>1. DOMAIN handles' = 1..n
    BY <1>6, LenProperties
  <2>2. "success" \notin handles'[n].reports
    BY <1>6
  <2>3. \A k \in 1..n : "success" \notin handles'[k].reports
    BY <1>8, <2>2
  <2>. QED  BY <2>1, <2>3 DEF SuccessIsEarned
<1>. QED  BY <1>7, <1>9, <1>10, <1>11 DEF CallInv

\* The reading of the body, its completion and its closing: the first verdict counts.
LEMMA BodyKeeps ==
  ASSUME CallInv,
         \/ ReadEOF \/ ReadFails \/ ReadCanceled \/ MarkComplete
         \/ \E by \in Closers : CloseBody(by)
  PROVE  CallInv'
<1>. DEFINE n == Len(handles)
            old == handles[n].reports
            new == handles'[n].reports
<1>1. /\ CallTypeOK /\ sending \in Sendings /\ handles \in Seq(HandleRecords) /\ n \in Nat
      /\ body \in Bodies /\ sending.at \in {"body", "closing"} /\ context' = context
  BY LenProperties
     DEF CallInv, CallTypeOK, ReadEOF, ReadFails, ReadCanceled, MarkComplete, CloseBody
<1>2. n >= 1 /\ Judged(old)
  BY <1>1 DEF CallInv, LastIsJudged
<1>3. "success" \in ReportNames /\ "failure" \in ReportNames
  BY DEF ReportNames
<1>4. \A r \in ReportNames : handles' = Reported(r) => Len(handles') = n /\ new = old \cup {r}
  BY <1>1, <1>2, ReportedEffect
<1>5. handles' = handles => Len(handles') = n /\ new = old
  OBVIOUS
<1>13. ASSUME Len(handles') = n, new = old \cup {"failure"}, body'.terminal = "failed",
              body.terminal = "none", body'.good = body.good, body'.required = body.required,
              body'.eof => body'.ended, sending'.kind = sending.kind
       PROVE  Judged(handles[Len(handles)].reports)'
  <2>1. handles'[Len(handles')].reports = new
    BY <1>13
  <2>2. "retired" \notin old /\ "success" \notin old /\ (body.good => "http failure" \notin old)
    BY <1>2, <1>13 DEF Judged
  <2>3. "retired" \notin new /\ "success" \notin new /\ (body.good => "http failure" \notin new)
    <3>. HIDE DEF old, new
    <3>. QED  BY <1>13, <2>2
  <2>4. body'.good => (body'.required <=> sending'.kind # "speech")
    BY <1>2, <1>13 DEF Judged
  <2>. HIDE DEF new, n, old
  <2>5. /\ "retired" \notin (handles'[Len(handles')]).reports
        /\ "success" \notin (handles'[Len(handles')]).reports
        /\ body'.good => "http failure" \notin (handles'[Len(handles')]).reports
    BY <1>13, <2>1, <2>3
  <2>. QED  BY <1>13, <2>4, <2>5 DEF Judged
<1>14. ASSUME Len(handles') = n, new = old \cup {"success"}, body'.terminal = "complete",
              body.terminal = "none", body'.good = body.good, body'.required = body.required,
              body'.eof => body'.ended, sending'.kind = sending.kind, body.good,
              sending.kind \in {"stream", "whole"} => body'.marked,
              sending.kind \in {"speech", "whole"} => body'.ended
       PROVE  Judged(handles[Len(handles)].reports)'
  <2>1. handles'[Len(handles')].reports = new
    BY <1>14
  <2>2. "retired" \notin old /\ "failure" \notin old /\ "http failure" \notin old
    BY <1>2, <1>14 DEF Judged
  <2>3. "retired" \notin new /\ "failure" \notin new /\ "http failure" \notin new
    <3>. HIDE DEF old, new
    <3>. QED  BY <1>14, <2>2
  <2>4. body'.good => (body'.required <=> sending'.kind # "speech")
    BY <1>2, <1>14 DEF Judged
  <2>. HIDE DEF new, n, old
  <2>5. /\ "retired" \notin (handles'[Len(handles')]).reports
        /\ "failure" \notin (handles'[Len(handles')]).reports
        /\ "http failure" \notin (handles'[Len(handles')]).reports
    BY <2>1, <2>3
  <2>. QED  BY <1>14, <2>4, <2>5 DEF Judged
<1>6. ASSUME NEW which \in {"complete", "failed"}, SetTerminal(which), sending' = sending,
             which = "complete" => ~body.required
      PROVE  CallInv'
  <2>. DEFINE t == IF body.terminal = "none" THEN which ELSE body.terminal
  <2>1. body' = [body EXCEPT !.terminal = t, !.ended = TRUE]
    BY <1>6 DEF SetTerminal
  <2>2. t \in {"none", "complete", "failed"}
    BY <1>1 DEF Bodies
  <2>3. body' \in Bodies
    <3>. HIDE DEF t
    <3>. QED  BY <1>1, <2>1, <2>2 DEF Bodies
  <2>4. /\ body'.terminal = t /\ body'.ended = TRUE
    <3>. HIDE DEF t
    <3>. QED  BY <1>1, <2>1 DEF Bodies
  <2>5. /\ body'.good = body.good /\ body'.required = body.required
        /\ body'.eof = body.eof /\ body'.marked = body.marked
    <3>. HIDE DEF t
    <3>. QED  BY <1>1, <2>1 DEF Bodies
  <2>6. CASE body.terminal # "none"
    <3>1. handles' = handles
      BY <1>6, <2>6 DEF SetTerminal
    <3>2. Judged(handles[Len(handles)].reports)'
      BY <1>2, <1>5, <1>6, <2>4, <2>5, <2>6, <3>1 DEF Judged
    <3>. QED  BY <1>1, <1>6, <2>3, <3>1, <3>2, BodyFrame
  <2>7. CASE body.terminal = "none" /\ which = "failed"
    <3>1. handles' = Reported("failure")
      BY <1>6, <2>7 DEF SetTerminal
    <3>2. Len(handles') = n /\ new = old \cup {"failure"}
      BY <1>3, <1>4, <3>1
    <3>3. Judged(handles[Len(handles)].reports)'
      BY <1>6, <1>13, <2>4, <2>5, <2>7, <3>2
    <3>. QED  BY <1>1, <1>3, <1>6, <2>3, <3>1, <3>3, BodyFrame
  <2>8. CASE body.terminal = "none" /\ which = "complete" /\ body.good
    <3>1. handles' = Reported("success")
      BY <1>6, <2>8 DEF SetTerminal
    <3>2. Len(handles') = n /\ new = old \cup {"success"}
      BY <1>3, <1>4, <3>1
    <3>3. sending.kind = "speech"
      BY <1>2, <1>6, <2>8 DEF Judged
    <3>4. Judged(handles[Len(handles)].reports)'
      BY <1>6, <1>14, <2>4, <2>5, <2>8, <3>2, <3>3
    <3>. QED  BY <1>1, <1>3, <1>6, <2>3, <3>1, <3>4, BodyFrame
  <2>9. CASE body.terminal = "none" /\ which = "complete" /\ ~body.good
    <3>1. handles' = handles
      BY <1>6, <2>9 DEF SetTerminal
    <3>2. Judged(handles[Len(handles)].reports)'
      BY <1>2, <1>5, <1>6, <2>4, <2>5, <2>9, <3>1 DEF Judged
    <3>. QED  BY <1>1, <1>6, <2>3, <3>1, <3>2, BodyFrame
  <2>. QED  BY <2>6, <2>7, <2>8, <2>9
<1>7. CASE ReadEOF
  <2>1. CASE body.required
    <3>1. body' = [body EXCEPT !.eof = TRUE, !.ended = TRUE] /\ UNCHANGED <<handles, sending>>
      BY <1>7, <2>1 DEF ReadEOF
    <3>2. body' \in Bodies
      BY <1>1, <3>1 DEF Bodies
    <3>3. /\ body'.good = body.good /\ body'.required = body.required /\ body'.ended = TRUE
          /\ body'.terminal = body.terminal /\ body'.marked = body.marked
      BY <1>1, <3>1 DEF Bodies
    <3>4. Judged(handles[Len(handles)].reports)'
      BY <1>2, <3>1, <3>3 DEF Judged
    <3>. QED  BY <1>1, <3>1, <3>2, <3>4, BodyFrame
  <2>2. CASE ~body.required
    BY <1>6, <1>7, <2>2 DEF ReadEOF
  <2>. QED  BY <2>1, <2>2
<1>8. CASE ReadFails
  BY <1>6, <1>8 DEF ReadFails
<1>9. CASE ReadCanceled
  <2>1. body' = [body EXCEPT !.ended = TRUE] /\ UNCHANGED <<handles, sending>>
    BY <1>9 DEF ReadCanceled
  <2>2. body' \in Bodies
    BY <1>1, <2>1 DEF Bodies
  <2>3. /\ body'.good = body.good /\ body'.required = body.required /\ body'.ended = TRUE
        /\ body'.terminal = body.terminal /\ body'.marked = body.marked
    BY <1>1, <2>1 DEF Bodies
  <2>4. Judged(handles[Len(handles)].reports)'
    BY <1>2, <2>1, <2>3 DEF Judged
  <2>. QED  BY <1>1, <2>1, <2>2, <2>4, BodyFrame
<1>10. CASE MarkComplete
  <2>. DEFINE t == IF body.terminal = "none" THEN "complete" ELSE body.terminal
  <2>1. /\ body' = [body EXCEPT !.terminal = t, !.marked = TRUE] /\ sending' = sending
        /\ body.good /\ body.required /\ (sending.kind = "whole" => body.eof)
        /\ handles' = IF body.terminal = "none" THEN Reported("success") ELSE handles
    BY <1>10 DEF MarkComplete
  <2>2. t \in {"none", "complete", "failed"}
    BY <1>1 DEF Bodies
  <2>3. body' \in Bodies
    <3>. HIDE DEF t
    <3>. QED  BY <1>1, <2>1, <2>2 DEF Bodies
  <2>4. body'.terminal = t /\ body'.marked = TRUE
    <3>. HIDE DEF t
    <3>. QED  BY <1>1, <2>1 DEF Bodies
  <2>5. /\ body'.good = body.good /\ body'.required = body.required
        /\ body'.eof = body.eof /\ body'.ended = body.ended
    <3>. HIDE DEF t
    <3>. QED  BY <1>1, <2>1 DEF Bodies
  <2>6. CASE body.terminal = "none"
    <3>1. Len(handles') = n /\ new = old \cup {"success"}
      BY <1>3, <1>4, <2>1, <2>6
    <3>2. sending.kind # "speech" /\ (sending.kind = "whole" => body.ended)
      BY <1>2, <2>1 DEF Judged
    <3>3. sending'.kind = sending.kind /\ (body'.eof => body'.ended)
      BY <1>2, <2>1, <2>5 DEF Judged
    <3>4. Judged(handles[Len(handles)].reports)'
      BY <1>14, <2>1, <2>4, <2>5, <2>6, <3>1, <3>2, <3>3
    <3>. QED  BY <1>1, <1>3, <2>1, <2>3, <2>6, <3>4, BodyFrame
  <2>7. CASE body.terminal # "none"
    <3>1. Judged(handles[Len(handles)].reports)'
      BY <1>2, <1>5, <2>1, <2>4, <2>5, <2>7 DEF Judged
    <3>. QED  BY <1>1, <2>1, <2>3, <2>7, <3>1, BodyFrame
  <2>. QED  BY <2>6, <2>7
<1>11. ASSUME NEW by \in Closers, CloseBody(by)
       PROVE  CallInv'
  <2>. DEFINE fails == body.required /\ body.eof /\ body.terminal = "none"
              t == IF fails THEN "failed" ELSE body.terminal
              c == body.closed \cup {by}
              at == IF by = "handler" THEN "closing" ELSE sending.at
  <2>1. /\ body' = [body EXCEPT !.closed = c, !.terminal = t]
        /\ handles' = IF fails THEN Reported("failure") ELSE handles
        /\ sending' = [sending EXCEPT !.at = at]
    BY <1>11 DEF CloseBody
  <2>2. t \in {"none", "complete", "failed"} /\ c \in SUBSET Closers /\ at \in {"body", "closing"}
    BY <1>1 DEF Bodies
  <2>3. body' \in Bodies
    <3>. HIDE DEF t, c
    <3>. QED  BY <1>1, <2>1, <2>2 DEF Bodies
  <2>4. /\ body'.terminal = t /\ body'.good = body.good /\ body'.required = body.required
        /\ body'.eof = body.eof /\ body'.ended = body.ended /\ body'.marked = body.marked
    <3>. HIDE DEF t, c
    <3>. QED  BY <1>1, <2>1 DEF Bodies
  <2>5. sending' \in Sendings /\ sending'.at \in {"body", "closing"} /\ sending'.kind = sending.kind
    <3>. HIDE DEF at
    <3>. QED  BY <1>1, <2>1, <2>2 DEF Sendings
  <2>6. CASE fails
    <3>1. Len(handles') = n /\ new = old \cup {"failure"}
      BY <1>3, <1>4, <2>1, <2>6
    <3>2. Judged(handles[Len(handles)].reports)'
      <4>1. body'.eof => body'.ended
        BY <1>2, <2>4 DEF Judged
      <4>. QED  BY <1>13, <2>4, <2>5, <2>6, <3>1, <4>1
    <3>. QED  BY <1>1, <1>3, <2>1, <2>3, <2>5, <2>6, <3>2, BodyFrame
  <2>7. CASE ~fails
    <3>1. handles' = handles
      BY <2>1, <2>7
    <3>2. Judged(handles[Len(handles)].reports)'
      BY <1>2, <1>5, <2>4, <2>5, <2>7, <3>1 DEF Judged
    <3>. QED  BY <1>1, <2>3, <2>5, <3>1, <3>2, BodyFrame
  <2>. QED  BY <2>6, <2>7
<1>. QED  BY <1>7, <1>8, <1>9, <1>10, <1>11

\* A call keeps its inductive invariant, whatever the transport, the timers and
\* the context do beside the caller.
THEOREM CallInductive == CallSpec => []CallInv
<1>1. ASSUME CallInit
      PROVE  CallInv
  <2>1. sending \in Sendings /\ sending.at = "acquire"
    BY <1>1 DEF CallInit, Sendings, CallErrors
  <2>2. handles = <<>> /\ handles \in Seq(HandleRecords) /\ Len(handles) = 0 /\ DOMAIN handles = {}
    BY <1>1, EmptySeq DEF CallInit
  <2>3. body \in Bodies
    BY <1>1 DEF CallInit, NoBody, Bodies
  <2>4. CallTypeOK
    BY <1>1, <2>1, <2>2, <2>3 DEF CallInit, CallTypeOK
  <2>5. EarlierAreSpent /\ LastIsJudged
    BY <2>1, <2>2 DEF EarlierAreSpent, LastIsJudged
  <2>6. SuccessIsEarned
    BY <2>2 DEF SuccessIsEarned
  <2>. QED  BY <2>4, <2>5, <2>6 DEF CallInv
<1>2. ASSUME CallInv, [CallNext]_callVars
      PROVE  CallInv'
  <2>1. CASE CallNext
    BY <1>2, <2>1, BeforeTheBody, TransportFailsKeeps, AnswerComesKeeps, BodyKeeps DEF CallNext
  <2>2. CASE UNCHANGED callVars
    BY <1>2, <2>2
       DEF callVars, CallInv, CallTypeOK, EarlierAreSpent, LastIsJudged, Judged, SuccessIsEarned
  <2>. QED  BY <1>2, <2>1, <2>2
<1>. QED  BY <1>1, <1>2, PTL DEF CallSpec

\* A request that was written is not sent again (client.go:332-377, 511-537).
THEOREM CallSentOnce == CallSpec => []SentOnce
BY CallInductive, OneWasWritten, PTL

\* An exit is credited only for a good answer that came to its end, and never
\* blamed for it as well (client.go:582-652).
THEOREM CallSuccessEarned == CallSpec => []SuccessIsEarned
<1>1. CallInv => SuccessIsEarned
  BY DEF CallInv
<1>. QED  BY <1>1, CallInductive, PTL

(***************************************************************************)
(* The cache of transports: its operations                                 *)
(***************************************************************************)
CacheEntries == [session : Sessions, transport : Requests, exit : PoolExits, old : BOOLEAN]
Handles == [transport : Requests, exit : PoolExits]
OnePerSession(entries) ==
  \A i, j \in DOMAIN entries : entries[i].session = entries[j].session => i = j

\* The places of a sequence without one of its members.
LEMMA RemoveAtPlaces ==
  ASSUME NEW S, NEW s \in Seq(S), NEW i \in 1..Len(s)
  PROVE  /\ RemoveAt(s, i) \in Seq(S)
         /\ Len(RemoveAt(s, i)) = Len(s) - 1
         /\ \A j \in 1..(Len(s) - 1) :
              RemoveAt(s, i)[j] = IF j < i THEN s[j] ELSE s[j + 1]
<1>. DEFINE front == SubSeq(s, 1, i - 1)
            back == SubSeq(s, i + 1, Len(s))
<1>1. Len(s) \in Nat
  BY LenProperties
<1>2. /\ front \in Seq(S) /\ Len(front) = i - 1
      /\ \A j \in 1..(i - 1) : front[j] = s[j]
  BY <1>1, SubSeqProperties
<1>3. /\ back \in Seq(S) /\ Len(back) = Len(s) - i
      /\ \A j \in 1..(Len(s) - i) : back[j] = s[i + j]
  <2>1. /\ back \in Seq(S)
        /\ Len(back) = IF i + 1 <= Len(s) THEN Len(s) - (i + 1) + 1 ELSE 0
        /\ \A j \in 1..(Len(s) - (i + 1) + 1) : back[j] = s[(i + 1) + j - 1]
    BY <1>1, SubSeqProperties
  <2>. QED  BY <1>1, <2>1
<1>4. RemoveAt(s, i) = front \o back
  BY DEF RemoveAt
<1>. HIDE DEF front, back
<1>5. front \o back \in Seq(S) /\ Len(front \o back) = Len(s) - 1
  <2>1. front \o back \in Seq(S) /\ Len(front \o back) = Len(front) + Len(back)
    BY <1>2, <1>3, ConcatProperties
  <2>. QED  BY <1>1, <1>2, <1>3, <2>1
<1>6. ASSUME NEW j \in 1..(Len(s) - 1)
      PROVE  (front \o back)[j] = IF j < i THEN s[j] ELSE s[j + 1]
  <2>1. (front \o back)[j] = IF j <= Len(front) THEN front[j] ELSE back[j - Len(front)]
    BY <1>1, <1>2, <1>3, <1>6, ConcatProperties
  <2>. QED  BY <1>1, <1>2, <1>3, <1>6, <2>1
<1>. QED  BY <1>4, <1>5, <1>6

\* Without takes the entry of one session out and leaves the others.
LEMMA WithoutLeavesOthers ==
  ASSUME cache \in Seq(CacheEntries), OnePerSession(cache), NEW session
  PROVE  /\ Without(session) \in Seq(CacheEntries)
         /\ Len(Without(session)) <= Len(cache)
         /\ OnePerSession(Without(session))
         /\ ToSet(Without(session)) = {e \in ToSet(cache) : e.session # session}
<1> DEFINE w == Without(session)
<1>0. DOMAIN cache = 1..Len(cache) /\ Len(cache) \in Nat
  BY LenProperties
<1>1. CASE EntriesOf(session) = {}
  <2>1. w = cache
    BY <1>1 DEF Without
  <2>2. \A e \in ToSet(cache) : e.session # session
    BY <1>1 DEF EntriesOf
  <2> QED
    BY <1>0, <2>1, <2>2
<1>2. CASE EntriesOf(session) # {}
  <2> DEFINE p == CHOOSE i \in DOMAIN cache : cache[i].session = session
  <2>1. \E i \in DOMAIN cache : cache[i].session = session
    BY <1>2 DEF EntriesOf, ToSet
  <2>2. p \in 1..Len(cache) /\ cache[p].session = session
    BY <1>0, <2>1
  <2>3. w = RemoveAt(cache, p)
    BY <1>2 DEF Without
  <2> HIDE DEF p, w
  <2>4. /\ w \in Seq(CacheEntries) /\ Len(w) = Len(cache) - 1
        /\ \A j \in 1..(Len(cache) - 1) : w[j] = IF j < p THEN cache[j] ELSE cache[j + 1]
    BY <2>2, <2>3, RemoveAtPlaces
  <2>5. DOMAIN w = 1..(Len(cache) - 1)
    BY <2>4, LenProperties
  <2> DEFINE from(j) == IF j < p THEN j ELSE j + 1
  <2>6. \A j \in DOMAIN w : from(j) \in DOMAIN cache /\ from(j) # p /\ w[j] = cache[from(j)]
    BY <1>0, <2>2, <2>4, <2>5
  <2>7. \A j, k \in DOMAIN w : from(j) = from(k) => j = k
    BY <2>2, <2>5
  <2>8. \A i \in DOMAIN cache : i # p => \E j \in DOMAIN w : from(j) = i
    <3> TAKE i \in DOMAIN cache
    <3> HAVE i # p
    <3>1. CASE i < p
      BY <1>0, <2>2, <2>5, <3>1
    <3>2. CASE i > p
      <4>1. i - 1 \in DOMAIN w /\ from(i - 1) = i
        BY <1>0, <2>2, <2>5, <3>2
      <4> QED
        BY <4>1
    <3> QED
      BY <1>0, <2>2, <3>1, <3>2
  <2> HIDE DEF from
  <2>9. OnePerSession(w)
    BY <2>6, <2>7 DEF OnePerSession
  <2>10. \A i \in DOMAIN cache : cache[i].session = session => i = p
    BY <1>0, <2>2 DEF OnePerSession
  <2>11. ToSet(w) = {e \in ToSet(cache) : e.session # session}
    BY <2>2, <2>6, <2>8, <2>10 DEF ToSet
  <2> QED
    BY <1>0, <2>4, <2>9, <2>11 DEF w
<1> QED
  BY <1>1, <1>2

\* Put moves an entry to the young end and keeps the bound.
LEMMA PutKeepsBound ==
  ASSUME cache \in Seq(CacheEntries), OnePerSession(cache), Len(cache) <= MaxCached,
         MaxCached \in Nat, NEW entry \in CacheEntries
  PROVE  /\ Put(entry) \in Seq(CacheEntries)
         /\ Len(Put(entry)) <= MaxCached
         /\ OnePerSession(Put(entry))
         /\ ToSet(Put(entry)) \subseteq ToSet(cache) \cup {entry}
<1> DEFINE w == Without(entry.session)
           a == Append(w, entry)
<1>1. /\ w \in Seq(CacheEntries) /\ Len(w) <= Len(cache) /\ OnePerSession(w)
      /\ ToSet(w) = {e \in ToSet(cache) : e.session # entry.session}
  BY WithoutLeavesOthers
<1>2. Len(w) \in Nat /\ Len(cache) \in Nat /\ DOMAIN w = 1..Len(w)
  BY <1>1, LenProperties
<1> HIDE DEF w
<1>3. /\ a \in Seq(CacheEntries) /\ Len(a) = Len(w) + 1 /\ DOMAIN a = 1..(Len(w) + 1)
      /\ \A i \in 1..Len(w) : a[i] = w[i]
      /\ a[Len(w) + 1] = entry
  BY <1>1, <1>2, AppendProperties, LenProperties
<1> HIDE DEF a
<1>4. \A i \in 1..Len(w) : a[i].session # entry.session
  BY <1>1, <1>2, <1>3 DEF ToSet
<1>5. OnePerSession(a)
  BY <1>1, <1>2, <1>3, <1>4 DEF OnePerSession
<1>6. ToSet(a) \subseteq ToSet(cache) \cup {entry}
  <2>1. \A i \in 1..Len(w) : w[i] \in ToSet(w)
    BY <1>2 DEF ToSet
  <2>2. \A i \in 1..(Len(w) + 1) : i \in 1..Len(w) \/ i = Len(w) + 1
    BY <1>2
  <2>3. \A i \in DOMAIN a : a[i] \in ToSet(cache) \cup {entry}
    BY <1>1, <1>3, <2>1, <2>2
  <2> QED
    BY <2>3 DEF ToSet
<1>7. CASE Len(a) > MaxCached
  <2> DEFINE t == Tail(a)
  <2>1. Put(entry) = t
    BY <1>7 DEF Put, EvictLeastRecentlyUsed, a, w
  <2>2. a # <<>> /\ Len(a) \in Nat
    BY <1>2, <1>3
  <2>3. /\ t \in Seq(CacheEntries) /\ Len(t) = Len(a) - 1
        /\ \A i \in 1..Len(t) : t[i] = a[i + 1]
    BY <1>3, <2>2, HeadTailProperties
  <2>4. DOMAIN t = 1..(Len(a) - 1) /\ DOMAIN a = 1..Len(a)
    BY <1>3, <2>2, <2>3, LenProperties
  <2> HIDE DEF t
  <2>5. OnePerSession(t)
    <3> SUFFICES ASSUME NEW i \in DOMAIN t, NEW j \in DOMAIN t, t[i].session = t[j].session
                 PROVE  i = j
      BY DEF OnePerSession
    <3>1. i + 1 \in DOMAIN a /\ j + 1 \in DOMAIN a /\ t[i] = a[i + 1] /\ t[j] = a[j + 1]
      BY <2>2, <2>3, <2>4
    <3>2. i + 1 = j + 1
      BY <1>5, <3>1 DEF OnePerSession
    <3> QED
      BY <2>2, <2>4, <3>2
  <2>6. ToSet(t) \subseteq ToSet(a)
    <3>1. \A i \in DOMAIN t : i + 1 \in DOMAIN a /\ t[i] = a[i + 1]
      BY <2>2, <2>3, <2>4
    <3>2. \A i \in DOMAIN t : t[i] \in ToSet(a)
      BY <3>1 DEF ToSet
    <3> QED
      BY <3>2 DEF ToSet
  <2>7. Len(t) <= MaxCached
    BY <1>1, <1>2, <1>3, <2>3
  <2>8. ToSet(t) \subseteq ToSet(cache) \cup {entry}
    BY <1>6, <2>6
  <2> QED
    BY <2>1, <2>3, <2>5, <2>7, <2>8
<1>8. CASE ~(Len(a) > MaxCached)
  <2>1. Put(entry) = a
    BY <1>8 DEF Put, EvictLeastRecentlyUsed, a, w
  <2> QED
    BY <1>2, <1>3, <1>5, <1>6, <1>8, <2>1
<1> QED
  BY <1>7, <1>8

----------------------------------------------------------------------------
(* The inductive invariant.                                                *)

\* A request has installed the transport it built, or uses one.
Installed(r) == req[r].at \in {"held", "done"}

Steps == {"start", "waits", "closed", "miss", "rebuild", "touch", "replace", "install", "none",
          "unhealthy", "held", "done"}

RequestRecords ==
  [Requests -> [at : Steps, session : Sessions \cup {NoEntry}, seen : CacheEntries \cup {NoEntry},
                selected : PoolExits \cup {NoEntry}, handle : Handles \cup {NoEntry},
                dials : PoolExits \cup {NoEntry}]]

TransportsTypeOK ==
  /\ cache \in Seq(CacheEntries)
  /\ exitIs \in [PoolExits -> {"available", "ejected", "gone"}]
  /\ manager \in {"open", "closed"}
  /\ req \in RequestRecords

\* What is in the cache was installed by the request that built it, and names
\* the exit which that request had it dial.
EntriesAreBuilt ==
  \A e \in ToSet(cache) : Installed(e.transport) /\ e.exit = req[e.transport].dials

HandlesAreBuilt ==
  \A r \in Requests : At(r, "held") =>
    /\ req[r].handle \in Handles
    /\ Installed(req[r].handle.transport)
    /\ req[r].handle.exit = req[req[r].handle.transport].dials

\* A request that is about to install a transport had it dial what it selected.
SelectionsAreDialled ==
  \A r \in Requests :
    /\ ~At(r, "start") => req[r].session \in Sessions
    /\ At(r, "install") \/ At(r, "replace") => req[r].selected \in PoolExits /\ req[r].dials = req[r].selected

TransportsInv ==
  /\ TransportsTypeOK
  /\ EntriesAreBuilt
  /\ HandlesAreBuilt
  /\ SelectionsAreDialled
  /\ OnePerSession(cache) /\ Len(cache) <= MaxCached
  /\ ClosedKeepsNothing

TransportsSpec == TransportsInit /\ [][TransportsNext]_transportVars

\* The empty cache.
LEMMA EmptyCache ==
  /\ <<>> \in Seq(CacheEntries) /\ Len(<<>>) = 0
  /\ ToSet(<<>>) = {} /\ OnePerSession(<<>>)
  BY EmptySeq DEF ToSet, OnePerSession

\* The invariant holds of an empty cache and of requests that have not begun.
LEMMA TransportsInitially == TransportsInit => TransportsInv
<1> SUFFICES ASSUME TransportsInit PROVE TransportsInv
  OBVIOUS
<1> USE DEF TransportsInit
<1>1. TransportsTypeOK
  BY EmptyCache DEF TransportsTypeOK, NewRequest, Steps, RequestRecords
<1>2. EntriesAreBuilt /\ HandlesAreBuilt /\ SelectionsAreDialled
  BY EmptyCache DEF EntriesAreBuilt, HandlesAreBuilt, SelectionsAreDialled, At, NewRequest
<1>3. OnePerSession(cache) /\ Len(cache) <= MaxCached /\ ClosedKeepsNothing
  BY EmptyCache, MaxCachedAssumption DEF ClosedKeepsNothing
<1> QED
  BY <1>1, <1>2, <1>3 DEF TransportsInv

\* EntryOf finds the entry of a session, or none.
LEMMA EntryOfSession ==
  ASSUME TransportsTypeOK, NEW session
  PROVE  /\ EntryOf(session) \in CacheEntries \cup {NoEntry}
         /\ EntryOf(session) # NoEntry =>
              EntryOf(session) \in ToSet(cache) /\ EntryOf(session) \in CacheEntries /\ EntryOf(session).session = session
<1>1. \A e \in ToSet(cache) : e \in CacheEntries
  BY LenProperties, ElementOfSeq DEF TransportsTypeOK, ToSet
<1>2. CASE EntriesOf(session) = {}
  BY <1>2 DEF EntryOf
<1>3. CASE EntriesOf(session) # {}
  <2>1. EntryOf(session) \in EntriesOf(session)
    BY <1>3 DEF EntryOf
  <2> QED
    BY <1>1, <2>1 DEF EntriesOf
<1> QED
  BY <1>2, <1>3

\* A step of a request that has no transport yet, before it gets one.
LEMMA SearchingStep ==
  ASSUME TransportsInv, NEW r \in Requests, ~Installed(r),
         UNCHANGED <<cache, exitIs, manager>>,
         req' \in RequestRecords,
         \A q \in Requests \ {r} : req'[q] = req[q],
         ~Installed(r)', req'[r].at # "start" => req'[r].session \in Sessions,
         req'[r].at \in {"install", "replace"} =>
           req'[r].selected \in PoolExits /\ req'[r].dials = req'[r].selected
  PROVE  TransportsInv'
<1>0. \A e \in ToSet(cache) : e \in CacheEntries
  BY LenProperties, ElementOfSeq DEF TransportsInv, TransportsTypeOK, ToSet
<1>1. TransportsTypeOK'
  BY DEF TransportsInv, TransportsTypeOK
<1>2. EntriesAreBuilt'
  <2> SUFFICES ASSUME NEW e \in ToSet(cache)
               PROVE  Installed(e.transport)' /\ e.exit = req'[e.transport].dials
    BY DEF EntriesAreBuilt
  <2>1. e.transport \in Requests /\ Installed(e.transport) /\ e.exit = req[e.transport].dials
    BY <1>0 DEF TransportsInv, EntriesAreBuilt, CacheEntries
  <2>2. e.transport # r
    BY <2>1
  <2> QED
    BY <2>1, <2>2 DEF Installed
<1>3. HandlesAreBuilt'
  <2> SUFFICES ASSUME NEW q \in Requests, At(q, "held")'
               PROVE  /\ req'[q].handle \in Handles
                      /\ Installed(req[q].handle.transport)'
                      /\ req'[q].handle.exit = req'[req'[q].handle.transport].dials
                      /\ req'[q] = req[q]
    BY DEF HandlesAreBuilt
  <2>1. q # r /\ req'[q] = req[q]
    BY DEF At, Installed
  <2>2. /\ req[q].handle \in Handles /\ Installed(req[q].handle.transport)
        /\ req[q].handle.exit = req[req[q].handle.transport].dials
    BY <2>1 DEF TransportsInv, HandlesAreBuilt, At
  <2>3. req[q].handle.transport \in Requests \ {r}
    BY <2>2 DEF Handles
  <2> QED
    BY <2>1, <2>2, <2>3 DEF Installed
<1>4. SelectionsAreDialled'
  <2> SUFFICES ASSUME NEW q \in Requests
               PROVE  /\ ~At(q, "start")' => req'[q].session \in Sessions
                      /\ At(q, "install")' \/ At(q, "replace")' =>
                           req'[q].selected \in PoolExits /\ req'[q].dials = req'[q].selected
    BY DEF SelectionsAreDialled
  <2>1. CASE q = r
    BY <2>1 DEF At
  <2>2. CASE q # r
    BY <2>2 DEF At, TransportsInv, SelectionsAreDialled
  <2> QED
    BY <2>1, <2>2
<1> QED
  BY <1>1, <1>2, <1>3, <1>4 DEF TransportsInv, ClosedKeepsNothing, OnePerSession

\* A request gets a handle on an entry that it has put into the cache.
LEMMA HandleStep ==
  ASSUME TransportsInv, NEW r \in Requests, ~Installed(r), ~At(r, "start"), manager = "open",
         NEW entry \in CacheEntries, cache' = Put(entry), Handle(r, entry), UNCHANGED <<exitIs, manager>>,
         entry.transport = r \/ Installed(entry.transport), entry.exit = req[entry.transport].dials
  PROVE  TransportsInv'
<1>0. \A e \in ToSet(cache) : e \in CacheEntries
  BY LenProperties, ElementOfSeq DEF TransportsInv, TransportsTypeOK, ToSet
<1>1. /\ cache' \in Seq(CacheEntries) /\ Len(cache') <= MaxCached /\ OnePerSession(cache')
      /\ ToSet(cache') \subseteq ToSet(cache) \cup {entry}
  BY PutKeepsBound, MaxCachedAssumption DEF TransportsInv, TransportsTypeOK
<1>2. /\ req' \in RequestRecords
      /\ \A q \in Requests \ {r} : req'[q] = req[q]
      /\ req'[r].at = "held" /\ req'[r].session = req[r].session /\ req'[r].dials = req[r].dials
      /\ req'[r].handle = [transport |-> entry.transport, exit |-> entry.exit]
      /\ req'[r].handle \in Handles
  <2> DEFINE h == [transport |-> entry.transport, exit |-> entry.exit]
  <2>1. h \in Handles
    BY DEF Handles, CacheEntries
  <2>2. req' = [req EXCEPT ![r].at = "held", ![r].handle = h]
    BY DEF Handle
  <2>3. "held" \in Steps
    BY DEF Steps
  <2> HIDE DEF h
  <2>4. /\ req' \in RequestRecords
        /\ \A q \in Requests \ {r} : req'[q] = req[q]
        /\ req'[r].at = "held" /\ req'[r].session = req[r].session /\ req'[r].dials = req[r].dials
        /\ req'[r].handle = h
    BY <2>1, <2>2, <2>3 DEF TransportsInv, TransportsTypeOK, RequestRecords
  <2> QED
    BY <2>1, <2>4 DEF h
<1>3. TransportsTypeOK'
  BY <1>1, <1>2 DEF TransportsInv, TransportsTypeOK
<1>4. \A q \in Requests : req'[q].dials = req[q].dials /\ (Installed(q) \/ q = r => Installed(q)')
  BY <1>2 DEF Installed
<1>5. EntriesAreBuilt'
  <2> SUFFICES ASSUME NEW e \in ToSet(cache')
               PROVE  Installed(e.transport)' /\ e.exit = req'[e.transport].dials
    BY DEF EntriesAreBuilt
  <2>1. e.transport \in Requests /\ (Installed(e.transport) \/ e.transport = r) /\ e.exit = req[e.transport].dials
    BY <1>0, <1>1 DEF TransportsInv, EntriesAreBuilt, CacheEntries
  <2> QED
    BY <1>4, <2>1 DEF Installed
<1>6. HandlesAreBuilt'
  <2> SUFFICES ASSUME NEW q \in Requests, At(q, "held")'
               PROVE  /\ req'[q].handle \in Handles
                      /\ req'[req'[q].handle.transport].at \in {"held", "done"}
                      /\ req'[q].handle.exit = req'[req'[q].handle.transport].dials
    BY DEF HandlesAreBuilt, Installed
  <2>1. CASE q = r
    <3>1. req'[q].handle.transport = entry.transport /\ req'[q].handle.exit = entry.exit
      BY <1>2, <2>1
    <3>2. entry.transport \in Requests
      BY DEF CacheEntries
    <3> QED
      BY <1>2, <1>4, <2>1, <3>1, <3>2 DEF Installed
  <2>2. CASE q # r
    <3>1. /\ req'[q] = req[q] /\ req[q].handle \in Handles /\ Installed(req[q].handle.transport)
          /\ req[q].handle.exit = req[req[q].handle.transport].dials
      BY <1>2, <2>2 DEF TransportsInv, HandlesAreBuilt, At
    <3>2. req[q].handle.transport \in Requests
      BY <3>1 DEF Handles
    <3> QED
      BY <1>4, <3>1, <3>2 DEF Installed
  <2> QED
    BY <2>1, <2>2
<1>7. SelectionsAreDialled'
  BY <1>2 DEF TransportsInv, SelectionsAreDialled, At
<1> QED
  BY <1>1, <1>3, <1>5, <1>6, <1>7 DEF TransportsInv, ClosedKeepsNothing

\* A request takes its transport out of the cache, or finds another there.
LEMMA DropStep ==
  ASSUME TransportsInv, NEW r \in Requests, At(r, "held"), cache' = DropIfSame(r), Refuse(r, "done"),
         exitIs' \in [PoolExits -> {"available", "ejected", "gone"}], UNCHANGED manager
  PROVE  /\ TransportsInv'
         /\ \A e \in ToSet(cache) : e.transport # req[r].handle.transport => e \in ToSet(cache')
<1>0. \A e \in ToSet(cache) : e \in CacheEntries
  BY LenProperties, ElementOfSeq DEF TransportsInv, TransportsTypeOK, ToSet
<1>1. /\ req' \in RequestRecords
      /\ \A q \in Requests \ {r} : req'[q] = req[q]
      /\ req'[r].at = "done" /\ req'[r].session = req[r].session /\ req'[r].dials = req[r].dials
  BY DEF TransportsInv, TransportsTypeOK, RequestRecords, Refuse, Steps
<1>2. /\ cache' \in Seq(CacheEntries) /\ Len(cache') <= MaxCached /\ OnePerSession(cache')
      /\ ToSet(cache') \subseteq ToSet(cache)
      /\ \A e \in ToSet(cache) : e.transport # req[r].handle.transport => e \in ToSet(cache')
  <2>1. CASE Current(r) # NoEntry /\ Current(r).transport = req[r].handle.transport
    <3> DEFINE w == Without(req[r].session)
    <3>1. cache' = w
      BY <2>1 DEF DropIfSame
    <3>2. /\ w \in Seq(CacheEntries) /\ Len(w) <= Len(cache) /\ OnePerSession(w)
          /\ ToSet(w) = {e \in ToSet(cache) : e.session # req[r].session}
      BY WithoutLeavesOthers DEF TransportsInv, TransportsTypeOK
    <3>3. Len(w) \in Nat /\ Len(cache) \in Nat
      BY <3>2, LenProperties DEF TransportsInv, TransportsTypeOK
    <3> HIDE DEF w
    <3>4. /\ Current(r) \in ToSet(cache) /\ Current(r).session = req[r].session
      BY <2>1, EntryOfSession DEF TransportsInv, Current
    <3>5. ASSUME NEW e \in ToSet(cache), e.transport # req[r].handle.transport
          PROVE  e.session # req[r].session
      <4>1. PICK i \in DOMAIN cache : cache[i] = e
        BY DEF ToSet
      <4>2. PICK j \in DOMAIN cache : cache[j] = Current(r)
        BY <3>4 DEF ToSet
      <4>3. e.session = req[r].session => i = j
        BY <3>4, <4>1, <4>2 DEF TransportsInv, OnePerSession
      <4> QED
        BY <2>1, <3>5, <4>1, <4>2, <4>3
    <3>6. Len(w) <= MaxCached
      BY <3>2, <3>3, MaxCachedAssumption DEF TransportsInv
    <3> QED
      BY <3>1, <3>2, <3>5, <3>6
  <2>2. CASE ~(Current(r) # NoEntry /\ Current(r).transport = req[r].handle.transport)
    <3>1. cache' = cache
      BY <2>2 DEF DropIfSame
    <3> QED
      BY <3>1 DEF TransportsInv, TransportsTypeOK
  <2> QED
    BY <2>1, <2>2
<1>3. TransportsTypeOK'
  BY <1>1, <1>2 DEF TransportsInv, TransportsTypeOK
<1>4. \A q \in Requests : req'[q].dials = req[q].dials /\ (Installed(q) => req'[q].at \in {"held", "done"})
  BY <1>1 DEF Installed
<1>5. EntriesAreBuilt'
  <2> SUFFICES ASSUME NEW e \in ToSet(cache')
               PROVE  Installed(e.transport)' /\ e.exit = req'[e.transport].dials
    BY DEF EntriesAreBuilt
  <2>1. e.transport \in Requests /\ Installed(e.transport) /\ e.exit = req[e.transport].dials
    BY <1>0, <1>2 DEF TransportsInv, EntriesAreBuilt, CacheEntries
  <2> QED
    BY <1>4, <2>1 DEF Installed
<1>6. HandlesAreBuilt'
  <2> SUFFICES ASSUME NEW q \in Requests, At(q, "held")'
               PROVE  /\ req'[q].handle \in Handles
                      /\ req'[req'[q].handle.transport].at \in {"held", "done"}
                      /\ req'[q].handle.exit = req'[req'[q].handle.transport].dials
    BY DEF HandlesAreBuilt, Installed
  <2>1. q # r
    BY <1>1 DEF At
  <2>2. /\ req'[q] = req[q] /\ req[q].handle \in Handles /\ Installed(req[q].handle.transport)
        /\ req[q].handle.exit = req[req[q].handle.transport].dials
    BY <1>1, <2>1 DEF TransportsInv, HandlesAreBuilt, At
  <2>3. req[q].handle.transport \in Requests
    BY <2>2 DEF Handles
  <2> QED
    BY <1>4, <2>2, <2>3
<1>7. SelectionsAreDialled'
  BY <1>1 DEF TransportsInv, SelectionsAreDialled, At
<1>8. ClosedKeepsNothing'
  <2> SUFFICES ASSUME manager = "closed" PROVE cache' = <<>>
    BY DEF ClosedKeepsNothing
  <2>1. cache = <<>>
    BY DEF TransportsInv, ClosedKeepsNothing
  <2>2. Len(cache') = 0
    <3>1. ToSet(cache') = {}
      BY <1>2, <2>1, EmptyCache
    <3>2. DOMAIN cache' = 1..Len(cache') /\ Len(cache') \in Nat
      BY <1>2, LenProperties
    <3>3. \A i \in DOMAIN cache' : cache'[i] \in ToSet(cache')
      BY DEF ToSet
    <3>4. 1 \notin 1..Len(cache')
      BY <3>1, <3>2, <3>3
    <3> QED
      BY <3>2, <3>4
  <2> QED
    BY <1>2, <2>2, EmptySeq
<1> QED
  BY <1>2, <1>3, <1>5, <1>6, <1>7, <1>8 DEF TransportsInv

\* Acquire's read-locked look.
LEMMA LookKeeps ==
  ASSUME TransportsInv, NEW r \in Requests, NEW session \in Sessions, Look(r, session)
  PROVE  TransportsInv'
<1> DEFINE entry == EntryOf(session)
<1>1. PICK next \in {"closed", "miss", "rebuild", "touch"} :
        req' = [req EXCEPT ![r].at = next, ![r].session = session, ![r].seen = entry]
  BY DEF Look
<1>2. entry \in CacheEntries \cup {NoEntry}
  BY EntryOfSession DEF TransportsInv
<1>3. next \in Steps
  BY DEF Steps
<1> HIDE DEF entry
<1>4. /\ req' \in RequestRecords
      /\ \A q \in Requests \ {r} : req'[q] = req[q]
      /\ req'[r].at = next /\ req'[r].session = session
  <2> DEFINE looked == [req[r] EXCEPT !.at = next, !.session = session, !.seen = entry]
  <2>1. req' = [req EXCEPT ![r] = looked] /\ req \in RequestRecords
    BY <1>1 DEF TransportsInv, TransportsTypeOK
  <2>2. /\ looked \in [at : Steps, session : Sessions \cup {NoEntry}, seen : CacheEntries \cup {NoEntry},
                       selected : PoolExits \cup {NoEntry}, handle : Handles \cup {NoEntry},
                       dials : PoolExits \cup {NoEntry}]
        /\ looked.at = next /\ looked.session = session
    BY <1>2, <1>3, <2>1 DEF RequestRecords
  <2> HIDE DEF looked
  <2> QED
    BY <2>1, <2>2 DEF RequestRecords
<1>5. ~Installed(r) /\ ~Installed(r)'
  BY <1>4 DEF Look, At, Installed
<1> QED
  BY <1>4, <1>5, SearchingStep DEF Look

\* The selections and the wait, which only choose how to go on.
LEMMA SelectionsKeep ==
  ASSUME TransportsInv, NEW r \in Requests, Reselect(r) \/ SelectForMiss(r) \/ Await(r)
  PROVE  TransportsInv'
<1>0. Selectable \subseteq PoolExits
  BY DEF Selectable
<1>1. UNCHANGED <<cache, exitIs, manager>>
  BY DEF Reselect, SelectForMiss, Await
<1>2. \/ \E next \in {"touch", "none", "waits", "unhealthy"} : req' = [req EXCEPT ![r].at = next]
      \/ \E x \in PoolExits, next \in {"replace", "install"} :
           req' = [req EXCEPT ![r].at = next, ![r].selected = x, ![r].dials = x]
  <2>1. CASE Reselect(r)
    BY <1>0, <2>1 DEF Reselect, Refuse
  <2>2. CASE SelectForMiss(r)
    BY <1>0, <2>2 DEF SelectForMiss, Refuse
  <2>3. CASE Await(r)
    BY <2>3 DEF Await, Refuse
  <2> QED
    BY <2>1, <2>2, <2>3
<1>3. ~Installed(r) /\ req[r].at # "start" /\ req[r].session \in Sessions
  BY DEF Reselect, SelectForMiss, Await, At, Installed, TransportsInv, SelectionsAreDialled
<1>4. CASE \E next \in {"touch", "none", "waits", "unhealthy"} : req' = [req EXCEPT ![r].at = next]
  <2>1. PICK next \in {"touch", "none", "waits", "unhealthy"} : req' = [req EXCEPT ![r].at = next]
    BY <1>4
  <2>2. next \in Steps
    BY DEF Steps
  <2>3. /\ req' \in RequestRecords
        /\ \A q \in Requests \ {r} : req'[q] = req[q]
        /\ req'[r].at = next /\ req'[r].session = req[r].session
    BY <2>1, <2>2 DEF TransportsInv, TransportsTypeOK, RequestRecords
  <2>4. ~Installed(r)'
    BY <2>3 DEF Installed
  <2> QED
    BY <1>1, <1>3, <2>3, <2>4, SearchingStep
<1>5. CASE \E x \in PoolExits, next \in {"replace", "install"} :
             req' = [req EXCEPT ![r].at = next, ![r].selected = x, ![r].dials = x]
  <2>1. PICK x \in PoolExits, next \in {"replace", "install"} :
             req' = [req EXCEPT ![r].at = next, ![r].selected = x, ![r].dials = x]
    BY <1>5
  <2>2. next \in Steps
    BY DEF Steps
  <2>3. /\ req' \in RequestRecords
        /\ \A q \in Requests \ {r} : req'[q] = req[q]
        /\ req'[r].at = next /\ req'[r].session = req[r].session
        /\ req'[r].selected = x /\ req'[r].dials = x
    BY <2>1, <2>2 DEF TransportsInv, TransportsTypeOK, RequestRecords
  <2>4. ~Installed(r)'
    BY <2>3 DEF Installed
  <2> QED
    BY <1>1, <1>3, <2>3, <2>4, SearchingStep
<1> QED
  BY <1>2, <1>4, <1>5

\* A refusal: the request goes on, or ends, without a transport.
LEMMA RefusalKeeps ==
  ASSUME TransportsInv, NEW r \in Requests, ~Installed(r), ~At(r, "start"),
         NEW why \in {"closed", "miss"}, Refuse(r, why), UNCHANGED <<cache, exitIs, manager>>
  PROVE  TransportsInv'
<1>1. why \in Steps
  BY DEF Steps
<1>2. /\ req' \in RequestRecords
      /\ \A q \in Requests \ {r} : req'[q] = req[q]
      /\ req'[r].at = why /\ req'[r].session = req[r].session
  BY <1>1 DEF Refuse, TransportsInv, TransportsTypeOK, RequestRecords
<1>3. ~Installed(r)'
  BY <1>2 DEF Installed
<1>4. req[r].session \in Sessions
  BY DEF TransportsInv, SelectionsAreDialled
<1> QED
  BY <1>2, <1>3, <1>4, SearchingStep

\* The cached entry is used.
LEMMA CurrentIsHandedOut ==
  ASSUME TransportsInv, NEW r \in Requests, ~Installed(r), ~At(r, "start"),
         Current(r) # NoEntry, cache' = Put(Current(r)), Handle(r, Current(r)), UNCHANGED <<exitIs, manager>>
  PROVE  TransportsInv'
<1>1. Current(r) \in ToSet(cache) /\ Current(r) \in CacheEntries
  BY EntryOfSession DEF TransportsInv, Current
<1>2. Installed(Current(r).transport) /\ Current(r).exit = req[Current(r).transport].dials
  BY <1>1 DEF TransportsInv, EntriesAreBuilt
<1>3. manager = "open"
  <2>1. cache # <<>>
    BY <1>1, EmptyCache
  <2> QED
    BY <2>1 DEF TransportsInv, TransportsTypeOK, ClosedKeepsNothing
<1> DEFINE entry == Current(r)
<1>4. entry \in CacheEntries /\ cache' = Put(entry) /\ Handle(r, entry)
      /\ Installed(entry.transport) /\ entry.exit = req[entry.transport].dials
  BY <1>1, <1>2
<1> HIDE DEF entry
<1> QED
  BY <1>3, <1>4, HandleStep

\* The transport that the request has built is installed.
LEMMA BuiltIsHandedOut ==
  ASSUME TransportsInv, NEW r \in Requests, At(r, "install") \/ At(r, "replace"), manager = "open",
         InstallAnyway(r), UNCHANGED <<exitIs, manager>>
  PROVE  TransportsInv'
<1> DEFINE entry == Built(r)
<1>1. ~Installed(r) /\ ~At(r, "start")
  BY DEF Installed, At
<1>2. req[r].session \in Sessions /\ req[r].selected \in PoolExits /\ req[r].dials = req[r].selected
  BY <1>1 DEF TransportsInv, SelectionsAreDialled
<1>3. entry \in CacheEntries /\ entry.transport = r /\ entry.exit = req[entry.transport].dials
  BY <1>2 DEF Built, CacheEntries
<1>4. cache' = Put(entry) /\ Handle(r, entry)
  BY DEF InstallAnyway
<1> HIDE DEF entry
<1> QED
  BY <1>1, <1>3, <1>4, HandleStep

\* Touch, Replace and Install.
LEMMA InstallingKeeps ==
  ASSUME TransportsInv, NEW r \in Requests, Touch(r) \/ Replace(r) \/ Install(r)
  PROVE  TransportsInv'
<1>0. ~Installed(r) /\ ~At(r, "start") /\ UNCHANGED <<exitIs, manager>>
  BY DEF Touch, Replace, Install, At, Installed
<1>1. CASE Touch(r)
  <2>1. CASE SeenIsCurrent(r)
    BY <1>0, <1>1, <2>1, CurrentIsHandedOut DEF Touch, SeenIsCurrent
  <2>2. CASE ~SeenIsCurrent(r)
    BY <1>0, <1>1, <2>2, RefusalKeeps DEF Touch
  <2> QED
    BY <2>1, <2>2
<1>2. CASE Replace(r)
  <2>0. manager \in {"open", "closed"}
    BY DEF TransportsInv, TransportsTypeOK
  <2>1. CASE manager = "closed"
    BY <1>0, <1>2, <2>1, RefusalKeeps DEF Replace
  <2>2. CASE manager = "open"
    BY <1>0, <1>2, <2>2, BuiltIsHandedOut DEF Replace
  <2> QED
    BY <2>0, <2>1, <2>2
<1>3. CASE Install(r)
  <2>0. manager \in {"open", "closed"}
    BY DEF TransportsInv, TransportsTypeOK
  <2>1. CASE manager = "closed"
    BY <1>0, <1>3, <2>1, RefusalKeeps DEF Install
  <2>2. CASE manager = "open" /\ Current(r) # NoEntry
    BY <1>0, <1>3, <2>2, CurrentIsHandedOut DEF Install, UseExisting
  <2>3. CASE manager = "open" /\ Current(r) = NoEntry
    BY <1>0, <1>3, <2>3, BuiltIsHandedOut DEF Install
  <2> QED
    BY <2>0, <2>1, <2>2, <2>3
<1> QED
  BY <1>1, <1>2, <1>3

\* Retire and Invalidate.
LEMMA GivingUpKeeps ==
  ASSUME TransportsInv, NEW r \in Requests, Retire(r) \/ Invalidate(r)
  PROVE  /\ TransportsInv'
         /\ \A e \in ToSet(cache) : e.transport # req[r].handle.transport => e \in ToSet(cache')
<1>1. At(r, "held") /\ cache' = DropIfSame(r) /\ Refuse(r, "done") /\ UNCHANGED manager
  BY DEF Retire, Invalidate
<1>2. req[r].handle.exit \in PoolExits
  BY <1>1 DEF TransportsInv, HandlesAreBuilt, Handles
<1>3. exitIs' \in [PoolExits -> {"available", "ejected", "gone"}]
  <2>1. CASE Retire(r)
    <3>1. PICK is \in {"available", "ejected", "gone"} : exitIs' = [exitIs EXCEPT ![req[r].handle.exit] = is]
      BY <1>2, <2>1 DEF Retire, TransportsInv, TransportsTypeOK
    <3> QED
      BY <1>2, <3>1 DEF TransportsInv, TransportsTypeOK
  <2>2. CASE Invalidate(r)
    BY <2>2 DEF Invalidate, TransportsInv, TransportsTypeOK
  <2> QED
    BY <2>1, <2>2
<1> QED
  BY <1>1, <1>3, DropStep

\* An entry grows old; nothing else of it changes.
LEMMA GrowOldKeeps ==
  ASSUME TransportsInv, NEW i \in DOMAIN cache, GrowOld(i)
  PROVE  TransportsInv'
<1>0. cache \in Seq(CacheEntries) /\ DOMAIN cache = 1..Len(cache) /\ Len(cache) \in Nat
  BY LenProperties DEF TransportsInv, TransportsTypeOK
<1>1. \A j \in DOMAIN cache : cache[j] \in CacheEntries
  BY <1>0, ElementOfSeq
<1> DEFINE aged == [cache[i] EXCEPT !.old = TRUE]
<1>2. /\ aged \in CacheEntries
      /\ aged.session = cache[i].session /\ aged.transport = cache[i].transport /\ aged.exit = cache[i].exit
  BY <1>1 DEF CacheEntries
<1>3. cache' = [cache EXCEPT ![i] = aged]
  BY DEF GrowOld
<1> HIDE DEF aged
<1>4. cache' \in Seq(CacheEntries) /\ Len(cache') = Len(cache) /\ DOMAIN cache' = DOMAIN cache
  BY <1>0, <1>2, <1>3, ExceptSeq, LenProperties
<1>5. \A j \in DOMAIN cache :
        /\ cache'[j].session = cache[j].session
        /\ cache'[j].transport = cache[j].transport
        /\ cache'[j].exit = cache[j].exit
  BY <1>0, <1>2, <1>3
<1>6. OnePerSession(cache')
  BY <1>4, <1>5 DEF TransportsInv, OnePerSession
<1>7. EntriesAreBuilt'
  <2> SUFFICES ASSUME NEW e \in ToSet(cache')
               PROVE  Installed(e.transport)' /\ e.exit = req'[e.transport].dials
    BY DEF EntriesAreBuilt
  <2>1. PICK j \in DOMAIN cache : e = cache'[j]
    BY <1>4 DEF ToSet
  <2>2. cache[j] \in ToSet(cache)
    BY DEF ToSet
  <2>3. Installed(cache[j].transport) /\ cache[j].exit = req[cache[j].transport].dials
    BY <2>2 DEF TransportsInv, EntriesAreBuilt
  <2> QED
    BY <1>5, <2>1, <2>3 DEF GrowOld, Installed
<1>8. ClosedKeepsNothing'
  <2>1. cache # <<>>
    BY <1>0
  <2> QED
    BY <2>1 DEF GrowOld, TransportsInv, ClosedKeepsNothing
<1>9. HandlesAreBuilt' /\ SelectionsAreDialled'
  BY DEF GrowOld, TransportsInv, HandlesAreBuilt, SelectionsAreDialled, Installed, At
<1> QED
  BY <1>4, <1>6, <1>7, <1>8, <1>9 DEF GrowOld, TransportsInv, TransportsTypeOK

\* Every step keeps the invariant.
LEMMA TransportsStep == TransportsInv /\ [TransportsNext]_transportVars => TransportsInv'
<1> SUFFICES ASSUME TransportsInv, [TransportsNext]_transportVars PROVE TransportsInv'
  OBVIOUS
<1>1. ASSUME NEW r \in Requests, NEW session \in Sessions, Look(r, session) PROVE TransportsInv'
  BY <1>1, LookKeeps
<1>2. ASSUME NEW r \in Requests, Reselect(r) \/ SelectForMiss(r) \/ Await(r) PROVE TransportsInv'
  BY <1>2, SelectionsKeep
<1>3. ASSUME NEW r \in Requests, Touch(r) \/ Replace(r) \/ Install(r) PROVE TransportsInv'
  BY <1>3, InstallingKeeps
<1>4. ASSUME NEW r \in Requests, Retire(r) \/ Invalidate(r) PROVE TransportsInv'
  BY <1>4, GivingUpKeeps
<1>5. ASSUME NEW x \in PoolExits, NEW is \in {"available", "ejected", "gone"}, ExitTurns(x, is)
      PROVE  TransportsInv'
  <2>1. exitIs' \in [PoolExits -> {"available", "ejected", "gone"}] /\ UNCHANGED <<cache, manager, req>>
    BY <1>5 DEF ExitTurns, TransportsInv, TransportsTypeOK
  <2> QED
    BY <2>1 DEF TransportsInv, TransportsTypeOK, EntriesAreBuilt, HandlesAreBuilt, SelectionsAreDialled,
      ClosedKeepsNothing, Installed, At
<1>6. ASSUME NEW i \in DOMAIN cache, GrowOld(i) PROVE TransportsInv'
  BY <1>6, GrowOldKeeps
<1>7. CASE Close
  <2>1. cache' = <<>> /\ manager' = "closed" /\ UNCHANGED <<exitIs, req>>
    BY <1>7 DEF Close
  <2>2. /\ cache' \in Seq(CacheEntries) /\ Len(cache') <= MaxCached
        /\ ToSet(cache') = {} /\ OnePerSession(cache')
    BY <2>1, EmptyCache, MaxCachedAssumption
  <2> QED
    BY <2>1, <2>2 DEF TransportsInv, TransportsTypeOK, EntriesAreBuilt, HandlesAreBuilt, SelectionsAreDialled,
      ClosedKeepsNothing, Installed, At
<1>8. CASE UNCHANGED transportVars
  BY <1>8 DEF transportVars, TransportsInv, TransportsTypeOK, EntriesAreBuilt, HandlesAreBuilt,
    SelectionsAreDialled, ClosedKeepsNothing, Installed, At
<1> QED
  BY <1>1, <1>2, <1>3, <1>4, <1>5, <1>6, <1>7, <1>8 DEF TransportsNext

\* No step but a request's own giving up takes it from "held" to "done".
LEMMA GivesUpOwn ==
  TransportsInv /\ [TransportsNext]_transportVars =>
    \A r \in Requests : (At(r, "held") /\ req'[r].at = "done") =>
      \A e \in ToSet(cache) : e.transport # req[r].handle.transport => e \in ToSet(cache')
<1> SUFFICES ASSUME TransportsInv, [TransportsNext]_transportVars, NEW r \in Requests,
                    At(r, "held"), req'[r].at = "done"
             PROVE  \A e \in ToSet(cache) : e.transport # req[r].handle.transport => e \in ToSet(cache')
  OBVIOUS
<1>0. /\ req \in RequestRecords
      /\ req[r].at = "held" /\ req'[r] # req[r]
  BY DEF TransportsInv, TransportsTypeOK, At
<1>1. ASSUME NEW q \in Requests, q # r,
             \/ \E session \in Sessions : Look(q, session)
             \/ Touch(q) \/ Reselect(q) \/ Replace(q) \/ SelectForMiss(q) \/ Install(q) \/ Await(q)
             \/ Retire(q) \/ Invalidate(q)
      PROVE  FALSE
  <2>1. req'[r] = req[r]
    BY <1>0, <1>1 DEF RequestRecords, Look, Touch, Reselect, Replace, SelectForMiss, Install, Await, Retire, Invalidate,
      Refuse, Handle, InstallAnyway, UseExisting
  <2> QED
    BY <1>0, <2>1
<1>2. ASSUME \/ \E session \in Sessions : Look(r, session)
             \/ Touch(r) \/ Reselect(r) \/ Replace(r) \/ SelectForMiss(r) \/ Install(r) \/ Await(r)
      PROVE  FALSE
  BY <1>0, <1>2 DEF Look, Touch, Reselect, Replace, SelectForMiss, Install, Await, At
<1>3. Retire(r) \/ Invalidate(r)
  <2>1. ~UNCHANGED req
    BY <1>0
  <2> QED
    BY <1>1, <1>2, <2>1 DEF TransportsNext, transportVars, ExitTurns, GrowOld, Close
<1> QED
  BY <1>3, GivingUpKeeps

\* The cache of transports under concurrent requests, evictions, rebuilds and the
\* end of the manager (manager.go:230-415, 483-521, 773): every handle names the
\* exit that is really dialled, a closed manager holds no transport, a session has
\* one entry and the cache its bound, and giving a transport up takes away no
\* other request's.
THEOREM TransportsHold == TransportsSpec => TransportsAreSound
<1>1. TransportsInit => TransportsInv
  BY TransportsInitially
<1>2. TransportsInv /\ [TransportsNext]_transportVars => TransportsInv'
  BY TransportsStep
<1>3. TransportsInv => HandleNamesDialled /\ ClosedKeepsNothing /\ CacheBounded
  BY DEF TransportsInv, HandlesAreBuilt, HandleNamesDialled, CacheBounded, OnePerSession
<1>4. TransportsInv /\ [TransportsNext]_transportVars =>
        [\A r \in Requests : (At(r, "held") /\ req'[r].at = "done")
           => \A e \in ToSet(cache) : e.transport # req[r].handle.transport => e \in ToSet(cache')]_transportVars
  BY GivesUpOwn
<1> QED
  BY <1>1, <1>2, <1>3, <1>4, PTL DEF TransportsSpec, TransportsAreSound, RetiresOwnOnly

=============================================================================

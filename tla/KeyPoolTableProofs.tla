------------------------ MODULE KeyPoolTableProofs ------------------------
(***************************************************************************)
(* What the credential pool promises, for every set of keys, callers and   *)
(* requests: nobody waits for a key that is there, the rotation survives   *)
(* the keys that come and go, and KeyPool implements LeaseTable.           *)
(***************************************************************************)
EXTENDS KeyPoolTable, KeyPoolProofs

----------------------------------------------------------------------------
(* No lost wakeup.                                                         *)

\* Only an open pool dispatches.
OpenInside == stage # "free" => ~closed

\* In a pass that no clock step disturbed, nobody behind the waiters still to be
\* visited can be served: each was looked at, and keys only fill up since.
VisitedAreStuck ==
  ~closed /\ ~ticked =>
    \A i \in DOMAIN waiters, q \in Request :
      i > left /\ q = req[waiters[i]] => ~CanServe(q, FALSE)

\* The inductive invariant of this module, on top of Inv.
PoolInv == Inv /\ OpenInside /\ VisitedAreStuck

\* A grant takes room: what can be served after it could be served before, and
\* no key becomes usable or unusable for a model.
LEMMA GrantTakesRoom ==
  ASSUME TypeOK, NEW c \in Callers, NEW q \in Request, NEW relaxed \in BOOLEAN,
         Grant(c, q, relaxed)
  PROVE  /\ \A k \in Keys, m \in Models : Ready(k, m)' <=> Ready(k, m)
         /\ \A r \in Request : CanServe(r, FALSE)' => CanServe(r, FALSE)
         /\ UNCHANGED <<keys, off, closed>>
<1>1. PICK k \in Eligible(q, relaxed) :
        /\ key' = [key EXCEPT ![k] = Reserve(key[k], q.stream)]
        /\ UNCHANGED <<keys, off, order, closed>>
  BY GrantEffect
<1>2. k \in Keys /\ key[k] \in KeyState /\ q.stream \in BOOLEAN
  BY EligibleHasRoom DEF TypeOK, PoolTypeOK, QueueTypeOK, Request
<1>. DEFINE after == Reserve(key[k], q.stream)
<1>3. /\ after.snapshot = key[k].snapshot /\ after.blocks = key[k].blocks
      /\ after.used = key[k].used + 1 /\ after.streams >= key[k].streams /\ after.streams \in Int
      /\ key[k].busy => after.busy
  BY <1>2 DEF Reserve, KeyState
<1>. HIDE DEF after
<1>4. \A j \in Keys : key'[j] = IF j = k THEN after ELSE key[j]
  BY <1>1, <1>2 DEF after, TypeOK, PoolTypeOK
<1>5. \A j \in Keys : key[j].used \in Nat /\ key[j].streams \in Nat
  BY BoundsAssumption DEF TypeOK, PoolTypeOK, KeyState
<1>6. ASSUME NEW j \in Keys, NEW m \in Models PROVE Ready(j, m)' <=> Ready(j, m)
  BY <1>3, <1>4 DEF Ready, Unblocked, Enabled
<1>7. ASSUME NEW j \in Keys PROVE RateLimited(j) => RateLimited(j)'
  BY <1>2, <1>3, <1>4, <1>5, BoundsAssumption DEF RateLimited
<1>8. ASSUME NEW j \in Keys, NEW stream \in BOOLEAN
      PROVE  Saturated(j, stream) => Saturated(j, stream)'
  <2>1. key'[j].streams >= key[j].streams /\ key'[j].streams \in Int
    BY <1>3, <1>4, <1>5
  <2>2. key[j].busy => key'[j].busy
    BY <1>3, <1>4
  <2>. QED  BY <1>5, <2>1, <2>2, BoundsAssumption DEF Saturated
<1>9. ASSUME NEW r \in Request, CanServe(r, FALSE)' PROVE CanServe(r, FALSE)
  <2>1. r.model \in Models /\ r.stream \in BOOLEAN
    BY DEF Request
  <2>2. PICK j \in keys : /\ Ready(j, r.model)' /\ j \notin r.attempted
                          /\ ~RateLimited(j)' /\ ~Saturated(j, r.stream)'
    BY <1>1, <1>9 DEF CanServe, Eligible, Considered
  <2>3. j \in Keys
    BY DEF TypeOK, PoolTypeOK
  <2>4. Ready(j, r.model) /\ ~RateLimited(j) /\ ~Saturated(j, r.stream)
    BY <1>6, <1>7, <1>8, <2>1, <2>2, <2>3
  <2>5. r.model \notin off
    BY <1>1, <1>9 DEF CanServe
  <2>. QED  BY <2>2, <2>4, <2>5 DEF CanServe, Eligible, Considered
<1>. QED  BY <1>1, <1>6, <1>9

\* A step that begins a dispatch leaves every waiter to be visited.
LEMMA DispatchStuck ==
  ASSUME closed' = closed, Dispatch, waiters' \in Seq(Callers)
  PROVE  VisitedAreStuck' /\ OpenInside'
<1>1. DOMAIN waiters' = 1..Len(waiters') /\ Len(waiters') \in Nat
  BY LenProperties
<1>2. ~closed => left' = Len(waiters')
  BY DEF Dispatch
<1>3. OpenInside'
  BY DEF Dispatch, OpenInside
<1>4. ASSUME ~closed, NEW i \in DOMAIN waiters' PROVE ~(i > left')
  BY <1>1, <1>2, <1>4
<1>5. VisitedAreStuck'
  BY <1>4 DEF VisitedAreStuck
<1>. QED  BY <1>3, <1>5

\* A step that leaves the pool and the queue alone.
LEMMA StuckFrame ==
  ASSUME PoolInv, UNCHANGED <<keys, key, off, closed, waiters, left, ticked>>,
         \A i \in DOMAIN waiters : req'[waiters[i]] = req[waiters[i]],
         stage' = stage \/ stage # "free"
  PROVE  VisitedAreStuck' /\ OpenInside'
<1>1. ASSUME NEW q \in Request, CanServe(q, FALSE)' PROVE CanServe(q, FALSE)
  BY <1>1 DEF CanServe, Eligible, Considered, Ready, Unblocked, Enabled, RateLimited, Saturated
<1>. QED  BY <1>1 DEF PoolInv, VisitedAreStuck, OpenInside

\* Answering the front waiter.
LEMMA DeliverStuck ==
  ASSUME PoolInv, waiters # << >>, NEW answer, Deliver(Head(waiters), answer),
         left' = IF left > 0 THEN left - 1 ELSE 0,
         UNCHANGED <<req, ticked>>, stage # "free",
         \/ UNCHANGED poolVars
         \/ \E relaxed \in BOOLEAN : Grant(Head(waiters), req[Head(waiters)], relaxed)
  PROVE  VisitedAreStuck' /\ OpenInside'
<1>1. /\ waiters \in Seq(Callers) /\ Distinct(waiters) /\ left \in Nat /\ TypeOK
      /\ left <= Len(waiters)
  BY DEF PoolInv, Inv, TypeOK, QueueTypeOK, AnsweredOnce, Rotated
<1>2. /\ Head(waiters) \in Callers /\ Len(waiters) \in Nat \ {0}
      /\ waiters' = Tail(waiters) /\ Len(waiters') = Len(waiters) - 1
      /\ \A i \in 1..(Len(waiters) - 1) : waiters'[i] = waiters[i + 1]
      /\ DOMAIN waiters = 1..Len(waiters) /\ DOMAIN waiters' = 1..(Len(waiters) - 1)
  BY <1>1, TailProperties, LenProperties DEF Deliver
<1>3. req[Head(waiters)] \in Request
  BY <1>1, <1>2 DEF TypeOK, QueueTypeOK
<1>4. closed' = closed /\ \A q \in Request : CanServe(q, FALSE)' => CanServe(q, FALSE)
  <2>1. CASE UNCHANGED poolVars
    BY <2>1 DEF poolVars, CanServe, Eligible, Considered, Ready, Unblocked, Enabled, RateLimited, Saturated
  <2>2. CASE \E relaxed \in BOOLEAN : Grant(Head(waiters), req[Head(waiters)], relaxed)
    BY <1>1, <1>2, <1>3, <2>2, GrantTakesRoom
  <2>. QED  BY <2>1, <2>2
<1>5. ASSUME NEW i \in 1..(Len(waiters) - 1), i > left'
      PROVE  i + 1 \in 1..Len(waiters) /\ i + 1 > left
  BY <1>1, <1>2, <1>5
<1>6. VisitedAreStuck'
  <2>1. SUFFICES ASSUME ~closed, ~ticked, NEW i \in 1..(Len(waiters) - 1), NEW q \in Request,
                        i > left', q = req[waiters[i + 1]]
                 PROVE  ~CanServe(q, FALSE)'
    BY <1>2, <1>4 DEF VisitedAreStuck
  <2>2. ~CanServe(q, FALSE)
    BY <1>2, <1>5, <2>1 DEF PoolInv, VisitedAreStuck
  <2>. QED  BY <1>4, <2>2
<1>. QED  BY <1>4, <1>6 DEF PoolInv, OpenInside

\* The iterations of the dispatch loop and its relaxed end.
LEMMA LoopStuck ==
  ASSUME PoolInv, DispatchStep
  PROVE  VisitedAreStuck' /\ OpenInside'
<1>1. /\ left \in Nat /\ waiters \in Seq(Callers) /\ Distinct(waiters) /\ left <= Len(waiters)
  BY DEF PoolInv, Inv, TypeOK, QueueTypeOK, AnsweredOnce, Rotated
<1>2. CASE PassCancelled
  BY <1>2, DeliverStuck DEF PassCancelled, InPass
<1>3. CASE PassServe
  <2>1. /\ InPass /\ Deliver(Head(waiters), "lease")
        /\ Grant(Head(waiters), req[Head(waiters)], FALSE)
    BY <1>3 DEF PassServe
  <2>. QED  BY <2>1, DeliverStuck DEF InPass
<1>4. CASE PassFail
  <2>1. /\ InPass /\ Deliver(Head(waiters), Unavailable(req[Head(waiters)], FALSE))
        /\ UNCHANGED poolVars
    BY <1>4 DEF PassFail
  <2>. QED  BY <2>1, DeliverStuck DEF InPass
<1>5. CASE RelaxServe
  <2>1. /\ PassEnds /\ waiters # << >> /\ Deliver(Head(waiters), "lease")
        /\ Grant(Head(waiters), req[Head(waiters)], TRUE)
    BY <1>5 DEF RelaxServe, MayRelax
  <2>2. /\ left' = IF left > 0 THEN left - 1 ELSE 0
        /\ UNCHANGED <<req, ticked>> /\ stage # "free"
    BY <1>1, <2>1 DEF PassEnds
  <2>. QED  BY <2>1, <2>2, DeliverStuck
<1>6. CASE RelaxFail
  <2>1. /\ PassEnds /\ waiters # << >> /\ UNCHANGED poolVars
        /\ Deliver(Head(waiters), Unavailable(req[Head(waiters)], TRUE))
    BY <1>6 DEF RelaxFail, MayRelax
  <2>2. /\ left' = IF left > 0 THEN left - 1 ELSE 0
        /\ UNCHANGED <<req, ticked>> /\ stage # "free"
    BY <1>1, <2>1 DEF PassEnds
  <2>. QED  BY <2>1, <2>2, DeliverStuck
<1>7. CASE PassRotate
  <2>. DEFINE n == Len(waiters)
  <2>1. /\ waiters # << >> /\ left > 0 /\ left' = left - 1 /\ stage' = stage
        /\ waiters' = Append(Tail(waiters), Head(waiters))
        /\ UNCHANGED <<keys, key, off, closed, req, ticked>>
        /\ ~CanServe(req[Head(waiters)], FALSE)
    BY <1>7 DEF PassRotate, InPass, poolVars
  <2>2. /\ Len(waiters') = n /\ n \in Nat \ {0} /\ Head(waiters) = waiters[1]
        /\ \A i \in 1..(n - 1) : waiters'[i] = waiters[i + 1]
        /\ waiters'[n] = waiters[1]
        /\ DOMAIN waiters = 1..n /\ DOMAIN waiters' = 1..n
    BY <1>1, <2>1, RotateProperties, TailProperties, LenProperties
  <2>3. \A q \in Request : CanServe(q, FALSE)' => CanServe(q, FALSE)
    BY <2>1 DEF CanServe, Eligible, Considered, Ready, Unblocked, Enabled, RateLimited, Saturated
  <2>. HIDE DEF n
  <2>4. ASSUME NEW i \in 1..n, NEW q \in Request, ~closed, ~ticked,
               i > left', q = req[waiters'[i]]
        PROVE  ~CanServe(q, FALSE)
    <3>1. CASE i = n
      BY <2>1, <2>2, <2>4, <3>1
    <3>2. CASE i # n
      <4>1. i + 1 \in 1..n /\ i + 1 > left /\ waiters'[i] = waiters[i + 1]
        BY <1>1, <2>1, <2>2, <2>4, <3>2
      <4>. QED  BY <2>2, <2>4, <4>1 DEF PoolInv, VisitedAreStuck
    <3>. QED  BY <3>1, <3>2
  <2>5. VisitedAreStuck'
    BY <2>1, <2>2, <2>3, <2>4 DEF VisitedAreStuck
  <2>. QED  BY <2>1, <2>5 DEF PoolInv, OpenInside
<1>8. CASE NoRelax
  <2>1. /\ stage # "free" /\ UNCHANGED <<keys, key, off, closed, waiters, left, ticked, req>>
    BY <1>8 DEF NoRelax, PassEnds, poolVars
  <2>. QED  BY <2>1, StuckFrame
<1>. QED  BY <1>2, <1>3, <1>4, <1>5, <1>6, <1>7, <1>8 DEF DispatchStep

\* The steps of a caller.
LEMMA CallerStuck ==
  ASSUME PoolInv, Inv', NEW c \in Callers, CallerStep(c)
  PROVE  VisitedAreStuck' /\ OpenInside'
<1>1. /\ waiters \in Seq(Callers) /\ waiters' \in Seq(Callers) /\ Len(waiters) \in Nat
      /\ DOMAIN waiters = 1..Len(waiters) /\ DOMAIN waiters' = 1..Len(waiters')
  BY LenProperties DEF PoolInv, Inv, TypeOK, QueueTypeOK
<1>2. CASE AcquireEnter(c)
  <2>1. /\ left' = Len(waiters) /\ waiters' = waiters /\ ~closed /\ closed' = closed
    BY <1>2 DEF AcquireEnter, poolVars
  <2>2. \A i \in DOMAIN waiters' : ~(i > left')
    BY <1>1, <2>1
  <2>. QED  BY <2>1, <2>2 DEF VisitedAreStuck, OpenInside
<1>3. CASE AcquireEnqueue(c)
  <2>1. /\ left' = Len(waiters) + 1 /\ waiters' = Append(waiters, c) /\ stage # "free" /\ closed' = closed
    BY <1>3 DEF AcquireEnqueue, poolVars
  <2>2. Len(waiters') = Len(waiters) + 1
    BY <1>1, <2>1, AppendProperties
  <2>3. \A i \in DOMAIN waiters' : ~(i > left')
    BY <1>1, <2>1, <2>2
  <2>. QED  BY <2>1, <2>3 DEF VisitedAreStuck, OpenInside, PoolInv
<1>4. CASE AcquireNow(c)
  <2>1. DOMAIN waiters' = {} /\ stage' = "free"
    BY <1>1, <1>4 DEF AcquireNow, Unlock
  <2>. QED  BY <2>1 DEF VisitedAreStuck, OpenInside
<1>5. CASE AcquireRefused(c)
  BY <1>5, StuckFrame DEF AcquireRefused, Unlock, poolVars
<1>6. CASE AcquireClosed(c)
  BY <1>6, StuckFrame DEF AcquireClosed, vars, poolVars, lockVars, callVars
<1>7. CASE Receive(c) \/ GiveUp(c) \/ AbandonAnswered(c) \/ Drain(c) \/ Cancel(c)
  <2>1. UNCHANGED <<keys, key, off, closed, waiters, left, ticked, req, stage>>
    BY <1>7 DEF Receive, GiveUp, AbandonAnswered, Drain, Cancel, poolVars, lockVars
  <2>. QED  BY <2>1, StuckFrame
<1>8. CASE AbandonQueued(c) \/ Release(c)
  BY <1>1, <1>8, DispatchStuck DEF AbandonQueued, Release, poolVars
<1>. QED  BY <1>2, <1>3, <1>4, <1>5, <1>6, <1>7, <1>8 DEF CallerStep, TryStep

\* Every step.
LEMMA PoolStep == PoolInv /\ [Next]_vars => PoolInv'
<1>. SUFFICES ASSUME PoolInv, [Next]_vars PROVE PoolInv'
  OBVIOUS
<1>1. Inv'
  BY StutterInv, DispatchInv, CallerInv, KeyInv, ModelInv, ShutdownInv DEF PoolInv, Next
<1>2. waiters' \in Seq(Callers)
  BY <1>1 DEF Inv, TypeOK, QueueTypeOK
<1>3. CASE UNCHANGED vars
  BY <1>1, <1>3, StuckFrame DEF PoolInv, vars, poolVars, lockVars, callVars
<1>4. CASE DispatchStep
  BY <1>1, <1>4, LoopStuck DEF PoolInv
<1>5. ASSUME NEW c \in Callers, CallerStep(c) PROVE PoolInv'
  BY <1>1, <1>5, CallerStuck DEF PoolInv
<1>6. CASE Sync
  BY <1>1, <1>2, <1>6, DispatchStuck DEF PoolInv, Sync
<1>7. ASSUME NEW k \in Keys, KeyStep(k) PROVE PoolInv'
  <2>1. CASE CooldownExpires(k) \/ WindowSlides(k)
    <3>1. ticked' = TRUE /\ UNCHANGED <<stage, closed>>
      BY <2>1 DEF CooldownExpires, WindowSlides, ClockMoves, lockVars
    <3>. QED  BY <1>1, <3>1 DEF PoolInv, OpenInside, VisitedAreStuck
  <2>2. CASE ~(CooldownExpires(k) \/ WindowSlides(k))
    <3>1. Sync
      BY <1>7, <2>2 DEF KeyStep, UpsertKey, SetKeyEnabled, RemoveKey, ApplySuccess, ApplyFailure, SetModelBlock
    <3>. QED  BY <1>6, <3>1
  <2>. QED  BY <2>1, <2>2
<1>8. ASSUME NEW m \in Models, ModelStep(m) PROVE PoolInv'
  BY <1>6, <1>8 DEF ModelStep, ClearModelBlocks, SetModelEnabled
<1>9. CASE Shutdown
  BY <1>1, <1>9 DEF Shutdown, lockVars, PoolInv, OpenInside, VisitedAreStuck
<1>. QED  BY <1>3, <1>4, <1>5, <1>7, <1>8, <1>9 DEF Next

\* The invariant of this module holds in every reachable state.
THEOREM PoolInductive == Spec => []PoolInv
<1>1. Init => PoolInv
  <2>. SUFFICES ASSUME Init PROVE PoolInv
    OBVIOUS
  <2>1. Inv
    BY InitInv
  <2>2. DOMAIN << >> = {}
    OBVIOUS
  <2>3. stage = "free" /\ DOMAIN waiters = {}
    BY <2>2 DEF Init
  <2>. QED  BY <2>1, <2>3 DEF PoolInv, OpenInside, VisitedAreStuck
<1>. QED  BY <1>1, PoolStep, PTL DEF Spec

\* Every operation that could free a key dispatches before it unlocks, and a dispatch
\* leaves nobody behind: outside the lock no request is queued that an idle key could
\* serve, unless the clock has moved since.
THEOREM WakeupsKept == Spec => []NoLostWakeup
<1>1. PoolInv => NoLostWakeup
  <2>. SUFFICES ASSUME PoolInv, stage = "free", ~closed, ~ticked, NEW i \in DOMAIN waiters
                PROVE  ~CanServe(req[waiters[i]], FALSE)
    BY DEF NoLostWakeup
  <2>. DEFINE q == req[waiters[i]]
  <2>1. i > left /\ waiters[i] \in Callers
    BY LenProperties DEF PoolInv, Inv, Rotated, TypeOK, QueueTypeOK
  <2>2. q \in Request /\ q = req[waiters[i]]
    BY <2>1 DEF PoolInv, Inv, TypeOK, QueueTypeOK
  <2>. HIDE DEF q
  <2>3. ~CanServe(q, FALSE)
    BY <2>1, <2>2 DEF PoolInv, VisitedAreStuck
  <2>. QED  BY <2>2, <2>3
<1>. QED  BY <1>1, PoolInductive, PTL

----------------------------------------------------------------------------
(* The rotation.                                                           *)

\* Inserting at position i moves what stood there, and what follows, up by one.
LEMMA InsertAtValues ==
  ASSUME NEW S, NEW s \in Seq(S), NEW i \in 1..(Len(s) + 1), NEW e \in S
  PROVE  /\ InsertAt(s, i, e) \in Seq(S) /\ Len(InsertAt(s, i, e)) = Len(s) + 1
         /\ \A j \in 1..(Len(s) + 1) :
              InsertAt(s, i, e)[j] = IF j < i THEN s[j] ELSE IF j = i THEN e ELSE s[j - 1]
<1>. DEFINE front == SubSeq(s, 1, i - 1)
            back == SubSeq(s, i, Len(s))
            both == front \o <<e>>
<1>1. Len(s) \in Nat
  BY LenProperties
<1>2. /\ front \in Seq(S) /\ Len(front) = i - 1
      /\ \A j \in 1..(i - 1) : front[j] = s[j]
  BY <1>1, SubSeqProperties
<1>3. /\ back \in Seq(S) /\ Len(back) = Len(s) - i + 1
      /\ \A j \in 1..(Len(s) - i + 1) : back[j] = s[i + j - 1]
  <2>1. /\ back \in Seq(S)
        /\ Len(back) = IF i <= Len(s) THEN Len(s) - i + 1 ELSE 0
        /\ \A j \in 1..(Len(s) - i + 1) : back[j] = s[i + j - 1]
    BY <1>1, SubSeqProperties
  <2>. QED  BY <1>1, <2>1
<1>4. InsertAt(s, i, e) = both \o back
  BY DEF InsertAt
<1>5. <<e>> \in Seq(S) /\ Len(<<e>>) = 1 /\ <<e>>[1] = e
  OBVIOUS
<1>. HIDE DEF front, back
<1>6. /\ both \in Seq(S) /\ Len(both) = i
      /\ \A j \in 1..i : both[j] = IF j < i THEN s[j] ELSE e
  <2>1. /\ both \in Seq(S) /\ Len(both) = Len(front) + Len(<<e>>)
        /\ \A j \in 1..(Len(front) + Len(<<e>>)) :
             both[j] = IF j <= Len(front) THEN front[j] ELSE <<e>>[j - Len(front)]
    BY <1>2, <1>5, ConcatProperties
  <2>. QED  BY <1>1, <1>2, <1>5, <2>1
<1>. HIDE DEF both
<1>7. /\ both \o back \in Seq(S) /\ Len(both \o back) = Len(both) + Len(back)
      /\ \A j \in 1..(Len(both) + Len(back)) :
           (both \o back)[j] = IF j <= Len(both) THEN both[j] ELSE back[j - Len(both)]
  BY <1>3, <1>6, ConcatProperties
<1>8. ASSUME NEW j \in 1..(Len(s) + 1)
      PROVE  (both \o back)[j] = IF j < i THEN s[j] ELSE IF j = i THEN e ELSE s[j - 1]
  <2>1. j \in 1..(Len(both) + Len(back))
    BY <1>1, <1>3, <1>6
  <2>2. CASE j <= i
    BY <1>1, <1>6, <1>7, <2>1, <2>2
  <2>3. CASE j > i
    <3>1. j - i \in 1..(Len(s) - i + 1) /\ i + (j - i) - 1 = j - 1
      BY <1>1, <2>3
    <3>2. (both \o back)[j] = back[j - i]
      BY <1>1, <1>6, <1>7, <2>1, <2>3
    <3>3. back[j - i] = s[i + (j - i) - 1]
      BY <1>3, <3>1
    <3>4. (both \o back)[j] = s[j - 1]
      BY <3>1, <3>2, <3>3
    <3>5. ~(j < i) /\ j # i
      BY <1>1, <2>3
    <3>. QED  BY <3>4, <3>5
  <2>4. j <= i \/ j > i
    BY <1>1
  <2>. QED  BY <2>2, <2>3, <2>4
<1>. QED  BY <1>1, <1>3, <1>4, <1>6, <1>7, <1>8

Sorted(s) == \A i, j \in DOMAIN s : i < j => s[i] < s[j]

\* The sorted position of an id: everything smaller stands before it.
LEMMA PositionSplits ==
  ASSUME order \in Seq(Keys), Sorted(order), NEW k \in Keys
  PROVE  /\ SortedPosition(k) \in 1..(Len(order) + 1)
         /\ \A i \in DOMAIN order : order[i] < k <=> i < SortedPosition(k)
<1>. DEFINE below == {i \in DOMAIN order : order[i] < k}
            p == Cardinality(below)
<1>1. /\ DOMAIN order = 1..Len(order) /\ Len(order) \in Nat
      /\ \A i \in 1..Len(order) : order[i] \in Nat
  BY LenProperties, KeysAssumption
<1>2. IsFiniteSet(1..Len(order)) /\ Cardinality(1..Len(order)) = Len(order)
  BY <1>1, FS_Interval
<1>3. below \in SUBSET (1..Len(order))
  BY <1>1
<1>4. IsFiniteSet(below) /\ p \in Nat /\ p <= Len(order)
  BY <1>2, <1>3, FS_Subset, FS_CardinalityType
<1>5. ASSUME NEW i \in below PROVE i \in 1..p
  <2>1. i \in 1..Len(order) /\ order[i] < k
    BY <1>3
  <2>2. ASSUME NEW j \in 1..i PROVE j \in below
    BY <1>1, <2>1, KeysAssumption DEF Sorted
  <2>3. 1..i \in SUBSET below
    BY <2>2
  <2>4. Cardinality(1..i) = i
    BY <2>1, FS_Interval
  <2>5. Cardinality(1..i) <= p
    BY <1>4, <2>3, FS_Subset
  <2>. QED  BY <1>4, <2>1, <2>4, <2>5
<1>6. below = 1..p
  <2>1. IsFiniteSet(1..p) /\ Cardinality(1..p) = p
    BY <1>4, FS_Interval
  <2>2. below \in SUBSET (1..p)
    BY <1>5
  <2>. QED  BY <2>1, <2>2, FS_Subset
<1>7. SortedPosition(k) = p + 1
  BY DEF SortedPosition
<1>8. ASSUME NEW i \in DOMAIN order PROVE order[i] < k <=> i \in below
  OBVIOUS
<1>. HIDE DEF below, p
<1>9. ASSUME NEW i \in DOMAIN order PROVE order[i] < k <=> i < SortedPosition(k)
  BY <1>1, <1>4, <1>6, <1>7, <1>8
<1>. QED  BY <1>1, <1>4, <1>7, <1>9

\* A key that joins takes its place in the order, and the cursor stays on the key
\* whose turn it is.
LEMMA InsertKeepsOrder ==
  ASSUME TypeOK, OrderIsSortedKeys, NEW k \in Keys, NEW snap \in Snapshots,
         UpsertKey(k, snap), k \notin keys
  PROVE  OrderIsSortedKeys' /\ (order # << >> => order'[cursor' + 1] = order[cursor + 1])
<1>. DEFINE p == SortedPosition(k)
            n == Len(order)
<1>0. /\ order \in Seq(Keys) /\ Sorted(order) /\ ToSet(order) = keys /\ keys \subseteq Keys
  BY DEF TypeOK, PoolTypeOK, OrderIsSortedKeys, Sorted
<1>1. /\ order \in Seq(Keys) /\ Sorted(order) /\ ToSet(order) = keys /\ keys \subseteq Keys
      /\ DOMAIN order = 1..n /\ n \in Nat /\ \A i \in 1..n : order[i] \in Nat
  BY <1>0, LenProperties, KeysAssumption
<1>2. p \in 1..(n + 1) /\ \A i \in 1..n : order[i] < k <=> i < p
  BY <1>1, PositionSplits
<1>3. /\ keys' = keys \cup {k} /\ order' = InsertAt(order, p, k)
      /\ order = << >> => cursor' = 0
      /\ order # << >> => \E i \in DOMAIN order' : order'[i] = order[cursor + 1] /\ cursor' = i - 1
  BY DEF UpsertKey
<1>4. /\ order' \in Seq(Keys) /\ Len(order') = n + 1
      /\ \A j \in 1..(n + 1) : order'[j] = IF j < p THEN order[j] ELSE IF j = p THEN k ELSE order[j - 1]
  <2>. HIDE DEF p
  <2>1. LET r == InsertAt(order, p, k) IN
        /\ r \in Seq(Keys) /\ Len(r) = n + 1
        /\ \A j \in 1..(n + 1) : r[j] = IF j < p THEN order[j] ELSE IF j = p THEN k ELSE order[j - 1]
    BY <1>1, <1>2, InsertAtValues
  <2>. QED  BY <1>3, <2>1
<1>5. DOMAIN order' = 1..(n + 1)
  BY <1>4, LenProperties
<1>. HIDE DEF p, n
<1>6. \A i \in 1..n : order[i] # k
  BY <1>1 DEF ToSet
<1>7. ToSet(order') = keys \cup {k}
  <2>1. ASSUME NEW j \in 1..(n + 1) PROVE order'[j] \in keys \cup {k}
    <3>1. j < p => j \in 1..n
      BY <1>1, <1>2
    <3>2. j > p => j - 1 \in 1..n
      BY <1>1, <1>2
    <3>3. \A i \in 1..n : order[i] \in keys
      BY <1>1 DEF ToSet
    <3>. QED  BY <1>2, <1>4, <3>1, <3>2, <3>3
  <2>2. order'[p] = k /\ p \in 1..(n + 1)
    BY <1>1, <1>2, <1>4
  <2>3. ASSUME NEW x \in keys PROVE \E j \in 1..(n + 1) : order'[j] = x
    <3>1. PICK i \in 1..n : order[i] = x
      BY <1>1 DEF ToSet
    <3>2. CASE i < p
      BY <1>1, <1>4, <3>1, <3>2
    <3>3. CASE ~(i < p)
      <4>1. i + 1 \in 1..(n + 1) /\ ~(i + 1 < p) /\ i + 1 # p /\ (i + 1) - 1 = i
        BY <1>1, <1>2, <3>3
      <4>. QED  BY <1>4, <3>1, <4>1
    <3>. QED  BY <3>2, <3>3
  <2>. QED  BY <1>5, <2>1, <2>2, <2>3 DEF ToSet
<1>8. ASSUME NEW i \in 1..(n + 1), NEW j \in 1..(n + 1), i < j PROVE order'[i] < order'[j]
  <2>1. CASE j < p
    <3>1. order'[i] = order[i] /\ order'[j] = order[j] /\ i \in 1..n /\ j \in 1..n
      BY <1>1, <1>2, <1>4, <1>8, <2>1
    <3>. QED  BY <1>1, <1>8, <3>1 DEF Sorted
  <2>2. CASE j = p
    <3>1. order'[i] = order[i] /\ order'[j] = k /\ i \in 1..n
      BY <1>1, <1>2, <1>4, <1>8, <2>2
    <3>. QED  BY <1>2, <1>8, <2>2, <3>1
  <2>3. CASE j > p
    <3>1. order'[j] = order[j - 1] /\ j - 1 \in 1..n /\ ~(j - 1 < p)
      BY <1>1, <1>2, <1>4, <2>3
    <3>2. CASE i < p
      <4>1. order'[i] = order[i] /\ i \in 1..n /\ i < j - 1
        BY <1>1, <1>2, <1>4, <2>3, <3>2
      <4>. QED  BY <1>1, <3>1, <4>1 DEF Sorted
    <3>3. CASE i = p
      <4>1. order'[i] = k /\ ~(order[j - 1] < k) /\ order[j - 1] # k
        BY <1>2, <1>4, <1>6, <3>1, <3>3
      <4>. QED  BY <1>1, <3>1, <4>1, KeysAssumption
    <3>4. CASE i > p
      <4>1. order'[i] = order[i - 1] /\ i - 1 \in 1..n /\ i - 1 < j - 1
        BY <1>1, <1>2, <1>4, <1>8, <3>4
      <4>. QED  BY <1>1, <3>1, <4>1 DEF Sorted
    <3>. QED  BY <1>2, <3>2, <3>3, <3>4
  <2>. QED  BY <1>2, <2>1, <2>2, <2>3
<1>9. /\ cursor' < Len(order') /\ order' # << >>
      /\ order # << >> => order'[cursor' + 1] = order[cursor + 1]
  <2>1. order' # << >>
    BY <1>1, <1>4
  <2>2. CASE order = << >>
    BY <1>1, <1>3, <1>4, <2>1, <2>2
  <2>3. CASE order # << >>
    <3>1. PICK i \in 1..(n + 1) : order'[i] = order[cursor + 1] /\ cursor' = i - 1
      BY <1>3, <1>5, <2>3
    <3>. QED  BY <1>1, <1>4, <2>1, <3>1
  <2>. QED  BY <2>2, <2>3
<1>10. ToSet(order)' = ToSet(order')
  BY DEF ToSet
<1>. QED  BY <1>3, <1>5, <1>7, <1>8, <1>9, <1>10 DEF OrderIsSortedKeys

\* A key that leaves closes its gap; the key whose turn it is keeps it, unless it is
\* the one that leaves.
LEMMA RemoveKeepsOrder ==
  ASSUME TypeOK, OrderIsSortedKeys, NEW k \in Keys, RemoveKey(k), k \in keys
  PROVE  OrderIsSortedKeys' /\ (order[cursor + 1] # k => order'[cursor' + 1] = order[cursor + 1])
<1>. DEFINE n == Len(order)
<1>0. /\ order \in Seq(Keys) /\ Sorted(order) /\ ToSet(order) = keys /\ keys \subseteq Keys
      /\ cursor \in Nat /\ (order # << >> => cursor < Len(order))
  BY DEF TypeOK, PoolTypeOK, OrderIsSortedKeys, Sorted
<1>1. DOMAIN order = 1..n /\ n \in Nat /\ \A i \in 1..n : order[i] \in Nat
  BY <1>0, LenProperties, KeysAssumption
<1>2. keys' = keys \ {k}
  BY DEF RemoveKey
<1>3. PICK i \in 1..n :
        /\ order[i] = k /\ order' = RemoveAt(order, i)
        /\ LET moved == IF i - 1 < cursor THEN cursor - 1 ELSE cursor
           IN  cursor' = IF moved >= Len(order') THEN 0 ELSE moved
  BY <1>1 DEF RemoveKey
<1>4. /\ order' \in Seq(Keys) /\ Len(order') = n - 1
      /\ \A j \in 1..(n - 1) : order'[j] = IF j < i THEN order[j] ELSE order[j + 1]
  <2>1. LET r == RemoveAt(order, i) IN
        /\ r \in Seq(Keys) /\ Len(r) = n - 1
        /\ \A j \in 1..(n - 1) : r[j] = IF j < i THEN order[j] ELSE order[j + 1]
    BY <1>0, <1>1, RemoveAtProperties
  <2>. QED  BY <1>3, <2>1
<1>5. DOMAIN order' = 1..(n - 1)
  BY <1>4, LenProperties
<1>. HIDE DEF n
<1>6. \A j \in 1..n : order[j] = k => j = i
  <2>. SUFFICES ASSUME NEW j \in 1..n, order[j] = k, j # i PROVE FALSE
    OBVIOUS
  <2>1. j < i \/ i < j
    BY <1>1
  <2>2. order[j] < order[i] \/ order[i] < order[j]
    BY <1>0, <1>1, <2>1 DEF Sorted
  <2>. QED  BY <1>1, <1>3, <2>2
<1>7. ToSet(order') = keys \ {k}
  <2>1. ASSUME NEW j \in 1..(n - 1) PROVE order'[j] \in keys \ {k}
    <3>1. j \in 1..n /\ j + 1 \in 1..n
      BY <1>1
    <3>2. \A x \in 1..n : order[x] \in keys
      BY <1>0, <1>1 DEF ToSet
    <3>3. CASE j < i
      <4>1. order'[j] = order[j] /\ j # i
        BY <1>4, <3>3
      <4>. QED  BY <1>6, <3>1, <3>2, <4>1
    <3>4. CASE ~(j < i)
      <4>1. order'[j] = order[j + 1] /\ j + 1 # i
        BY <1>1, <1>4, <3>4
      <4>. QED  BY <1>6, <3>1, <3>2, <4>1
    <3>. QED  BY <3>3, <3>4
  <2>2. ASSUME NEW x \in keys \ {k} PROVE \E j \in 1..(n - 1) : order'[j] = x
    <3>1. PICK j \in 1..n : order[j] = x /\ j # i
      BY <1>0, <1>1, <1>3 DEF ToSet
    <3>2. CASE j < i
      <4>1. j \in 1..(n - 1)
        BY <1>1, <3>2
      <4>. QED  BY <1>4, <3>1, <3>2, <4>1
    <3>3. CASE j > i
      <4>1. j - 1 \in 1..(n - 1) /\ ~(j - 1 < i) /\ (j - 1) + 1 = j
        BY <1>1, <3>3
      <4>. QED  BY <1>4, <3>1, <4>1
    <3>4. j < i \/ j > i
      BY <1>1, <3>1
    <3>. QED  BY <3>2, <3>3, <3>4
  <2>. QED  BY <1>5, <2>1, <2>2 DEF ToSet
<1>8. ASSUME NEW a \in 1..(n - 1), NEW b \in 1..(n - 1), a < b PROVE order'[a] < order'[b]
  <2>. DEFINE At(j) == IF j < i THEN j ELSE j + 1
  <2>1. order'[a] = order[At(a)] /\ order'[b] = order[At(b)]
    BY <1>4
  <2>2. At(a) \in 1..n /\ At(b) \in 1..n /\ At(a) < At(b)
    BY <1>1, <1>8
  <2>. QED  BY <1>0, <1>1, <2>1, <2>2 DEF Sorted
<1>9. order # << >> /\ n > 0 /\ cursor < n
  BY <1>0, <1>1, <1>3 DEF n
<1>10. /\ IF order' = << >> THEN cursor' = 0 ELSE cursor' < Len(order')
       /\ order[cursor + 1] # k => order'[cursor' + 1] = order[cursor + 1]
  <2>1. CASE n = 1
    <3>1. Len(order') = 0 /\ cursor = 0 /\ i = 1
      BY <1>0, <1>1, <1>3, <1>4, <1>9, <2>1
    <3>2. order' = << >>
      BY <1>4, <3>1, EmptySeq
    <3>. QED  BY <1>3, <3>1, <3>2
  <2>2. CASE n > 1
    <3>1. order' # << >> /\ Len(order') > 0
      BY <1>1, <1>4, <2>2
    <3>2. CASE i - 1 < cursor
      <4>1. cursor' = cursor - 1 /\ cursor < n /\ cursor - 1 < n - 1
        BY <1>0, <1>1, <1>3, <1>4, <1>9, <3>2
      <4>2. cursor \in 1..(n - 1) /\ ~(cursor < i) /\ cursor' + 1 = cursor
        BY <1>0, <1>1, <1>9, <3>2, <4>1
      <4>. QED  BY <1>4, <3>1, <4>1, <4>2
    <3>3. CASE i - 1 = cursor
      <4>1. order[cursor + 1] = k
        BY <1>0, <1>1, <1>3, <3>3
      <4>2. cursor' < Len(order')
        BY <1>0, <1>1, <1>3, <1>4, <1>9, <2>2, <3>3
      <4>. QED  BY <3>1, <4>1, <4>2
    <3>4. CASE i - 1 > cursor
      <4>1. cursor' = cursor /\ cursor + 1 \in 1..(n - 1) /\ cursor + 1 < i
        BY <1>0, <1>1, <1>3, <1>4, <1>9, <3>4
      <4>2. cursor < Len(order')
        BY <1>0, <1>1, <1>4, <4>1
      <4>. QED  BY <1>4, <3>1, <4>1, <4>2
    <3>. QED  BY <1>0, <1>1, <3>2, <3>3, <3>4
  <2>. QED  BY <1>1, <1>9, <2>1, <2>2
<1>11. ToSet(order)' = ToSet(order')
  BY DEF ToSet
<1>. QED  BY <1>2, <1>5, <1>7, <1>8, <1>10, <1>11 DEF OrderIsSortedKeys

\* The scan leaves the order alone and the cursor inside it.
LEMMA GrantKeepsOrder ==
  ASSUME TypeOK, OrderIsSortedKeys, NEW c, NEW q, NEW relaxed, Grant(c, q, relaxed)
  PROVE  OrderIsSortedKeys' /\ keys' = keys
<1>1. PICK index \in 0..(Len(order) - 1) : cursor' = (index + 1) % Len(order)
  BY DEF Grant
<1>2. UNCHANGED <<keys, order>>
  BY DEF Grant
<1>3. Len(order) \in Nat \ {0}
  BY <1>1, LenProperties DEF TypeOK, PoolTypeOK
<1>4. cursor' < Len(order) /\ order # << >>
  BY <1>1, <1>3
<1>. QED  BY <1>2, <1>4 DEF OrderIsSortedKeys, ToSet

RotationInv == Inv /\ OrderIsSortedKeys
NextKeyStays ==
  keys' # keys /\ order # << >> /\ order[cursor + 1] \in keys'
    => order'[cursor' + 1] = order[cursor + 1]

\* Every step of the pool keeps the order sorted and the turn with its key.
LEMMA RotationStep == RotationInv /\ [Next]_vars => RotationInv' /\ NextKeyStays
<1>. SUFFICES ASSUME RotationInv, [Next]_vars PROVE RotationInv' /\ NextKeyStays
  OBVIOUS
<1>1. TypeOK /\ OrderIsSortedKeys
  BY DEF RotationInv, Inv
<1>2. Inv'
  BY StutterInv, DispatchInv, CallerInv, KeyInv, ModelInv, ShutdownInv DEF RotationInv, Next
<1>. SUFFICES OrderIsSortedKeys' /\ NextKeyStays
  BY <1>2 DEF RotationInv
<1>3. CASE UNCHANGED <<keys, order, cursor>>
  BY <1>1, <1>3 DEF OrderIsSortedKeys, ToSet, NextKeyStays
<1>4. ASSUME NEW c, NEW q, NEW relaxed, Grant(c, q, relaxed) PROVE OrderIsSortedKeys' /\ NextKeyStays
  BY <1>1, <1>4, GrantKeepsOrder DEF NextKeyStays
<1>5. CASE UNCHANGED vars
  BY <1>3, <1>5 DEF vars, poolVars
<1>6. CASE DispatchStep
  BY <1>3, <1>4, <1>6 DEF DispatchStep, PassCancelled, PassServe, PassRotate, PassFail,
     RelaxServe, RelaxFail, NoRelax, poolVars
<1>7. ASSUME NEW c \in Callers, CallerStep(c) PROVE OrderIsSortedKeys' /\ NextKeyStays
  <2>1. CASE AcquireNow(c)
    BY <1>4, <2>1 DEF AcquireNow
  <2>2. CASE ~AcquireNow(c)
    BY <1>3, <1>7, <2>2 DEF CallerStep, TryStep, AcquireEnter, AcquireClosed, AcquireRefused, AcquireEnqueue,
       Receive, GiveUp, AbandonQueued, AbandonAnswered, Drain, Release, Cancel, vars, poolVars
  <2>. QED  BY <2>1, <2>2
<1>8. ASSUME NEW k \in Keys, KeyStep(k) PROVE OrderIsSortedKeys' /\ NextKeyStays
  <2>1. ASSUME NEW snap \in Snapshots, UpsertKey(k, snap) PROVE OrderIsSortedKeys' /\ NextKeyStays
    <3>1. CASE k \in keys
      BY <1>3, <2>1, <3>1 DEF UpsertKey
    <3>2. CASE k \notin keys
      BY <1>1, <2>1, <3>2, InsertKeepsOrder DEF NextKeyStays
    <3>. QED  BY <3>1, <3>2
  <2>2. CASE RemoveKey(k)
    <3>1. CASE k \notin keys
      BY <1>3, <2>2, <3>1 DEF RemoveKey
    <3>2. CASE k \in keys
      <4>1. keys' = keys \ {k}
        BY <2>2, <3>2 DEF RemoveKey
      <4>. QED  BY <1>1, <2>2, <3>2, <4>1, RemoveKeepsOrder DEF NextKeyStays
    <3>. QED  BY <3>1, <3>2
  <2>3. CASE ~RemoveKey(k) /\ ~\E snap \in Snapshots : UpsertKey(k, snap)
    BY <1>3, <1>8, <2>3 DEF KeyStep, SetKeyEnabled, ApplySuccess, ApplyFailure, SetModelBlock,
       CooldownExpires, WindowSlides, ClockMoves
  <2>. QED  BY <2>1, <2>2, <2>3
<1>9. ASSUME NEW m \in Models, ModelStep(m) PROVE OrderIsSortedKeys' /\ NextKeyStays
  BY <1>3, <1>9 DEF ModelStep, ClearModelBlocks, SetModelEnabled
<1>10. CASE Shutdown
  BY <1>3, <1>10 DEF Shutdown
<1>. QED  BY <1>5, <1>6, <1>7, <1>8, <1>9, <1>10 DEF Next

\* LoadSnapshot: an ascending sequence of as many keys as there are holds them all.
LEMMA InitOrder ==
  ASSUME Init
  PROVE  OrderIsSortedKeys
<1>. DEFINE n == Cardinality(keys)
<1>1. /\ keys \subseteq Keys /\ order \in [1..n -> keys] /\ cursor = 0
      /\ \A i, j \in DOMAIN order : i < j => order[i] < order[j]
  BY DEF Init
<1>2. IsFiniteSet(keys) /\ n \in Nat
  BY <1>1, KeysAssumption, FS_Subset, FS_CardinalityType
<1>3. IsFiniteSet(1..n) /\ Cardinality(1..n) = n
  BY <1>2, FS_Interval
<1>4. order \in Injection(1..n, keys)
  <2>1. ASSUME NEW i \in 1..n, NEW j \in 1..n, order[i] = order[j] PROVE i = j
    <3>1. order[i] \in Nat /\ order[j] \in Nat
      BY <1>1, KeysAssumption
    <3>. QED  BY <1>1, <1>2, <2>1, <3>1
  <2>. QED  BY <1>1, <2>1 DEF Injection, IsInjective
<1>5. order \in Surjection(1..n, keys)
  BY <1>2, <1>3, <1>4, FS_Injection
<1>6. ToSet(order) = keys
  BY <1>1, <1>5 DEF Surjection, ToSet
<1>7. order = << >> \/ cursor < Len(order)
  <2>1. order \in Seq(Keys) /\ Len(order) = n
    BY <1>1, <1>2, SeqDef, LenProperties
  <2>. QED  BY <1>1, <1>2, <2>1, EmptySeq
<1>. QED  BY <1>1, <1>6, <1>7 DEF OrderIsSortedKeys

\* p.order holds exactly the keys of the map in ascending order, the cursor is a valid
\* index, and whichever keys come and go the key in turn keeps its turn.
THEOREM RotationSafe == Spec => RotationIsSound
<1>1. Init => RotationInv
  BY InitInv, InitOrder DEF RotationInv
<1>2. RotationInv => OrderIsSortedKeys
  BY DEF RotationInv
<1>3. RotationInv /\ [Next]_vars => [NextKeyStays]_vars
  BY RotationStep
<1>. QED  BY <1>1, <1>2, <1>3, RotationStep, PTL
          DEF Spec, RotationIsSound, RotationSurvivesResize, NextKeyStays

----------------------------------------------------------------------------
(* The lease table.                                                        *)

\* The instance counts as this module does.
LEMMA SameCardinality == \A S : Table!Cardinality(S) = Cardinality(S)
  BY Zenon DEF Table!Cardinality, Cardinality

\* A step that leaves the keys' health, the leases and the callers alone.
LEMMA TableFrame ==
  ASSUME keys' = keys, off' = off, closed' = closed, req' = req, lease' = lease,
         \A k \in keys, m \in Models : Ready(k, m)' <=> Ready(k, m),
         AskingCallers' = AskingCallers
  PROVE  UNCHANGED Table!tableVars
<1>1. UsablePairs' = UsablePairs
  <2>1. ASSUME NEW pair \in keys \X Models PROVE Ready(pair[1], pair[2])' <=> Ready(pair[1], pair[2])
    BY <2>1
  <2>. QED  BY <2>1 DEF UsablePairs
<1>. QED  BY <1>1 DEF Table!tableVars

\* The lease that a grant hands out.
LEMMA GrantLease ==
  ASSUME TypeOK, NEW c \in Callers, NEW relaxed \in BOOLEAN, Grant(c, req[c], relaxed)
  PROVE  \E k \in Eligible(req[c], relaxed) :
           lease' = [lease EXCEPT ![c] = [key |-> k, stream |-> req[c].stream, live |-> TRUE]]
<1>. DEFINE q == req[c]
<1>1. q \in Request /\ Grant(c, q, relaxed)
  BY DEF TypeOK, QueueTypeOK
<1>2. SUFFICES \E k \in Eligible(q, relaxed) :
        lease' = [lease EXCEPT ![c] = [key |-> k, stream |-> q.stream, live |-> TRUE]]
  OBVIOUS
<1>. HIDE DEF q
<1>. QED  BY <1>1, GrantEffect

\* A grant of the scan is a grant of the table.
LEMMA GrantIsGrantKey ==
  ASSUME PoolInv, NEW c \in Callers, NEW relaxed \in BOOLEAN,
         Grant(c, req[c], relaxed), relaxed => ~req[c].noRelax,
         ~closed, lease[c] = NoLease, c \in AskingCallers,
         req' = req, AskingCallers' = AskingCallers \ {c}
  PROVE  \E k \in Keys : Table!GrantKey(c, k)
<1>1. TypeOK /\ SlotsMatchLeases /\ req[c] \in Request
  BY DEF PoolInv, Inv, TypeOK, QueueTypeOK
<1>2. PICK k \in Eligible(req[c], relaxed) :
        /\ lease' = [lease EXCEPT ![c] = [key |-> k, stream |-> req[c].stream, live |-> TRUE]]
        /\ UNCHANGED <<keys, off, closed>>
  BY <1>1, GrantEffect
<1>3. /\ k \in keys /\ k \in Keys /\ Ready(k, req[c].model) /\ req[c].model \notin off
      /\ relaxed \/ k \notin req[c].attempted
      /\ IF req[c].stream THEN ~(key[k].streams >= MaxStreaming) ELSE ~key[k].busy
  BY <1>1 DEF Grant, CanServe, Eligible, Considered, Saturated, TypeOK, PoolTypeOK
<1>4. req[c].model \in Models /\ req[c].stream \in BOOLEAN /\ key[k].streams \in Nat
  BY <1>1, <1>3, BoundsAssumption DEF Request, TypeOK, PoolTypeOK, KeyState
<1>5. <<k, req[c].model>> \in UsablePairs
  BY <1>3, <1>4 DEF UsablePairs
<1>6. Table!HasRoom(k, req[c].stream)
  <2>1. Table!Using(k, TRUE) = StreamHolders(k) /\ Table!Using(k, FALSE) = ShortHolders(k)
    <3>1. \A d \in Callers : lease[d] # NoLease => lease[d].stream \in BOOLEAN /\ lease[d].live \in BOOLEAN
      BY <1>1 DEF TypeOK, QueueTypeOK, Lease
    <3>. QED  BY <3>1 DEF Table!Using, StreamHolders, ShortHolders
  <2>2. /\ key[k].busy <=> ShortHolders(k) # {}
        /\ key[k].streams = Cardinality(StreamHolders(k))
    BY <1>1, <1>3 DEF SlotsMatchLeases
  <2>3. CASE req[c].stream
    <3>1. Cardinality(StreamHolders(k)) < MaxStreaming
      BY <1>3, <1>4, <2>2, <2>3, BoundsAssumption
    <3>2. req[c].stream = TRUE
      BY <1>4, <2>3
    <3>3. Table!Cardinality(Table!Using(k, TRUE)) < MaxStreaming
      BY <2>1, <3>1, SameCardinality
    <3>. QED  BY <3>2, <3>3 DEF Table!HasRoom
  <2>4. CASE ~req[c].stream
    BY <1>3, <2>1, <2>2, <2>4 DEF Table!HasRoom
  <2>. QED  BY <2>3, <2>4
<1>7. UsablePairs' = UsablePairs
  <2>1. \A j \in Keys, m \in Models : Ready(j, m)' <=> Ready(j, m)
    BY <1>1, GrantTakesRoom
  <2>2. ASSUME NEW pair \in keys \X Models PROVE Ready(pair[1], pair[2])' <=> Ready(pair[1], pair[2])
    <3>1. pair[1] \in Keys /\ pair[2] \in Models
      BY <1>1 DEF TypeOK, PoolTypeOK
    <3>. QED  BY <2>1, <3>1
  <2>. QED  BY <1>2, <2>2 DEF UsablePairs
<1>8. Table!GrantKey(c, k)
  BY <1>2, <1>3, <1>5, <1>6, <1>7 DEF Table!GrantKey
<1>. QED  BY <1>3, <1>8

\* A step on the health of keys and models.
LEMMA HealthStep ==
  ASSUME Inv', UNCHANGED <<closed, pc, req, lease>>
  PROVE  Table!HealthChanges
<1>1. AskingCallers' = AskingCallers
  BY DEF AskingCallers
<1>2. UsablePairs' \subseteq Keys \X Models
  BY DEF UsablePairs, Inv, TypeOK, PoolTypeOK
<1>. QED  BY <1>1, <1>2 DEF Table!HealthChanges

\* The dispatch loop: a grant, or nothing that the table shows.
LEMMA LoopRefines ==
  ASSUME PoolInv, DispatchStep
  PROVE  [Table!TableNext]_Table!tableVars
<1>. DEFINE w == Head(waiters)
<1>1. /\ TypeOK /\ AnsweredOnce /\ NoLeaseLeaked /\ OpenInside
      /\ waiters \in Seq(Callers) /\ Distinct(waiters)
  BY DEF PoolInv, Inv, TypeOK, QueueTypeOK, AnsweredOnce
<1>2. ASSUME waiters # << >>, stage # "free"
      PROVE  /\ w \in Callers /\ lease[w] = NoLease /\ w \in AskingCallers /\ ~closed
  <2>1. w \in Callers /\ w \in ToSet(waiters)
    BY <1>1, <1>2, TailProperties
  <2>2. pc[w] \in {"waiting", "abandoning"} /\ result[w] = "none"
    BY <1>1, <2>1 DEF AnsweredOnce
  <2>3. lease[w] = NoLease
    BY <1>1, <2>1, <2>2 DEF NoLeaseLeaked
  <2>. QED  BY <1>1, <1>2, <2>1, <2>2, <2>3 DEF AskingCallers, OpenInside
<1>3. ASSUME NEW relaxed \in BOOLEAN, waiters # << >>, stage # "free",
             Grant(w, req[w], relaxed), relaxed => ~req[w].noRelax, UNCHANGED <<pc, req>>
      PROVE  Table!TableNext
  <2>. HIDE DEF w
  <2>1. w \in Callers /\ lease[w] = NoLease /\ w \in AskingCallers /\ ~closed /\ req[w] \in Request
    BY <1>1, <1>2, <1>3 DEF TypeOK, QueueTypeOK
  <2>2. PICK k \in Eligible(req[w], relaxed) :
          lease' = [lease EXCEPT ![w] = [key |-> k, stream |-> req[w].stream, live |-> TRUE]]
    BY <1>1, <1>3, <2>1, GrantLease
  <2>3. lease'[w] # NoLease
    <3>1. [key |-> k, stream |-> req[w].stream, live |-> TRUE] \in Lease
      BY <1>1, <2>1 DEF Eligible, Considered, Lease, Request, TypeOK, PoolTypeOK
    <3>. QED  BY <1>1, <2>1, <2>2, <3>1, NoLeaseAssumption DEF TypeOK, QueueTypeOK
  <2>4. \A d \in Callers \ {w} : lease'[d] = lease[d]
    BY <1>1, <2>2 DEF TypeOK, QueueTypeOK
  <2>5. AskingCallers' = AskingCallers \ {w}
    BY <1>3, <2>3, <2>4 DEF AskingCallers
  <2>6. \E j \in Keys : Table!GrantKey(w, j)
    BY <1>3, <2>1, <2>5, GrantIsGrantKey
  <2>. QED  BY <2>1, <2>6 DEF Table!TableNext
<1>4. CASE PassServe
  <2>1. /\ waiters # << >> /\ stage # "free" /\ Grant(w, req[w], FALSE) /\ UNCHANGED <<pc, req>>
    BY <1>4 DEF PassServe, InPass
  <2>. QED  BY <1>3, <2>1
<1>5. CASE RelaxServe
  <2>1. /\ waiters # << >> /\ stage # "free" /\ Grant(w, req[w], TRUE) /\ UNCHANGED <<pc, req>>
        /\ ~req[w].noRelax
    BY <1>5 DEF RelaxServe, PassEnds, MayRelax
  <2>. QED  BY <1>3, <2>1
<1>6. CASE ~PassServe /\ ~RelaxServe
  <2>1. UNCHANGED <<keys, key, off, closed, lease, pc, req>>
    BY <1>6 DEF DispatchStep, PassCancelled, PassRotate, PassFail, RelaxFail, NoRelax, InPass, PassEnds, poolVars
  <2>2. \A k \in keys, m \in Models : Ready(k, m)' <=> Ready(k, m)
    BY <2>1 DEF Ready, Unblocked, Enabled
  <2>3. AskingCallers' = AskingCallers
    BY <2>1 DEF AskingCallers
  <2>. QED  BY <2>1, <2>2, <2>3, TableFrame
<1>. QED  BY <1>4, <1>5, <1>6

\* A caller that asks, is granted or refused, gives back, or only moves on.
LEMMA CallerRefines ==
  ASSUME PoolInv, NEW c \in Callers, CallerStep(c)
  PROVE  [Table!TableNext]_Table!tableVars
<1>1. /\ TypeOK /\ AnsweredOnce /\ NoLeaseLeaked /\ LockAndChannels /\ LiveKeysPooled /\ OpenInside
      /\ pc \in [Callers -> {"idle", "acquiring", "waiting", "abandoning", "draining", "releasing", "holding"}]
      /\ result \in [Callers -> Answers \cup {"none"}]
      /\ lease \in [Callers -> Lease \cup {NoLease}]
  BY DEF PoolInv, Inv, TypeOK, QueueTypeOK
<1>2. ASSUME UNCHANGED <<keys, key, off, closed, lease, req>>, AskingCallers' = AskingCallers
      PROVE  UNCHANGED Table!tableVars
  <2>1. \A k \in keys, m \in Models : Ready(k, m)' <=> Ready(k, m)
    BY <1>2 DEF Ready, Unblocked, Enabled
  <2>. QED  BY <1>2, <2>1, TableFrame
<1>3. ASSUME UNCHANGED <<keys, key, off, closed, lease, req>>, c \in AskingCallers,
             AskingCallers' = AskingCallers \ {c}
      PROVE  Table!TableNext
  <2>1. UsablePairs' = UsablePairs
    BY <1>3 DEF UsablePairs, Ready, Unblocked, Enabled
  <2>2. Table!Refuse(c)
    BY <1>3, <2>1 DEF Table!Refuse
  <2>. QED  BY <2>2 DEF Table!TableNext
<1>4. CASE AcquireEnter(c)
  <2>1. /\ ~closed /\ pc[c] = "idle" /\ UNCHANGED <<keys, key, off, closed, lease>>
        /\ pc' = [pc EXCEPT ![c] = "acquiring"]
    BY <1>4 DEF AcquireEnter, poolVars
  <2>2. PICK q \in Requests : req' = [req EXCEPT ![c] = q]
    BY <1>4 DEF AcquireEnter
  <2>3. lease[c] = NoLease /\ c \notin AskingCallers
    BY <1>1, <2>1 DEF NoLeaseLeaked, LockAndChannels, AskingCallers
  <2>4. AskingCallers' = AskingCallers \cup {c}
    BY <1>1, <2>1, <2>3 DEF AskingCallers
  <2>5. UsablePairs' = UsablePairs
    BY <2>1 DEF UsablePairs, Ready, Unblocked, Enabled
  <2>6. Table!Ask(c)
    BY <2>1, <2>2, <2>3, <2>4, <2>5 DEF Table!Ask
  <2>. QED  BY <2>6 DEF Table!TableNext
<1>5. CASE AcquireClosed(c)
  <2>1. UNCHANGED <<keys, key, off, closed, lease, req, pc>>
    BY <1>5 DEF AcquireClosed, vars, poolVars, callVars
  <2>2. AskingCallers' = AskingCallers
    BY <2>1 DEF AskingCallers
  <2>. QED  BY <1>2, <2>1, <2>2
<1>6. CASE AcquireNow(c)
  <2>1. /\ stage # "free" /\ owner = c /\ Grant(c, req[c], FALSE) /\ req' = req
        /\ pc' = [pc EXCEPT ![c] = "holding"] /\ stage \in {"entry", "try"}
    BY <1>6 DEF AcquireNow, Unlock
  <2>2. pc[c] = "acquiring" /\ ~closed
    BY <1>1, <2>1 DEF LockAndChannels, OpenInside
  <2>3. lease[c] = NoLease
    BY <1>1, <2>2 DEF NoLeaseLeaked, LockAndChannels
  <2>4. req[c] \in Request
    BY <1>1 DEF TypeOK, QueueTypeOK
  <2>5. PICK k \in Eligible(req[c], FALSE) :
          lease' = [lease EXCEPT ![c] = [key |-> k, stream |-> req[c].stream, live |-> TRUE]]
    BY <1>1, <2>1, GrantLease
  <2>6. \A d \in Callers \ {c} : lease'[d] = lease[d] /\ pc'[d] = pc[d]
    BY <1>1, <2>1, <2>5
  <2>7. c \in AskingCallers /\ AskingCallers' = AskingCallers \ {c}
    BY <1>1, <2>1, <2>2, <2>3, <2>6 DEF AskingCallers
  <2>8. \E j \in Keys : Table!GrantKey(c, j)
    BY <2>1, <2>2, <2>3, <2>7, GrantIsGrantKey
  <2>. QED  BY <2>8 DEF Table!TableNext
<1>7. CASE AcquireRefused(c)
  <2>1. /\ UNCHANGED <<keys, key, off, closed, lease, req>> /\ owner = c /\ stage \in {"entry", "try"}
        /\ pc' = [pc EXCEPT ![c] = "idle"]
    BY <1>7 DEF AcquireRefused, Unlock, poolVars
  <2>2. pc[c] = "acquiring" /\ lease[c] = NoLease
    BY <1>1, <2>1 DEF LockAndChannels, NoLeaseLeaked
  <2>3. c \in AskingCallers /\ AskingCallers' = AskingCallers \ {c}
    BY <1>1, <2>1, <2>2 DEF AskingCallers
  <2>. QED  BY <1>3, <2>1, <2>3
<1>8. CASE AcquireEnqueue(c)
  <2>1. /\ UNCHANGED <<keys, key, off, closed, lease, req>> /\ owner = c /\ stage \in {"entry", "try"}
        /\ pc' = [pc EXCEPT ![c] = "waiting"]
    BY <1>8 DEF AcquireEnqueue, poolVars
  <2>2. pc[c] = "acquiring"
    BY <1>1, <2>1 DEF LockAndChannels
  <2>3. AskingCallers' = AskingCallers
    BY <1>1, <2>1, <2>2 DEF AskingCallers
  <2>. QED  BY <1>2, <2>1, <2>3
<1>9. CASE Receive(c) \/ Drain(c)
  <2>1. /\ UNCHANGED <<keys, key, off, closed, lease, req>>
        /\ pc[c] \in {"waiting", "draining"} /\ result[c] # "none"
        /\ \E to \in {"holding", "releasing", "idle"} : pc' = [pc EXCEPT ![c] = to]
    BY <1>9 DEF Receive, Drain, poolVars
  <2>2. CASE result[c] = "lease"
    <3>1. lease[c] # NoLease
      BY <1>1, <2>2 DEF NoLeaseLeaked
    <3>2. AskingCallers' = AskingCallers
      BY <1>1, <2>1, <3>1 DEF AskingCallers
    <3>. QED  BY <1>2, <2>1, <3>2
  <2>3. CASE result[c] # "lease"
    <3>1. lease[c] = NoLease
      BY <1>1, <2>1, <2>3 DEF NoLeaseLeaked
    <3>2. c \in AskingCallers /\ AskingCallers' = AskingCallers \ {c}
      BY <1>1, <2>1, <3>1 DEF AskingCallers
    <3>. QED  BY <1>3, <2>1, <3>2
  <2>. QED  BY <2>2, <2>3
<1>10. CASE GiveUp(c) \/ AbandonAnswered(c) \/ Cancel(c)
  <2>1. /\ UNCHANGED <<keys, key, off, closed, lease, req>>
        /\ pc[c] \in {"acquiring", "waiting", "abandoning"}
        /\ pc' = pc \/ \E to \in {"abandoning", "draining"} : pc' = [pc EXCEPT ![c] = to]
    BY <1>10 DEF GiveUp, AbandonAnswered, Cancel, poolVars
  <2>2. AskingCallers' = AskingCallers
    BY <1>1, <2>1 DEF AskingCallers
  <2>. QED  BY <1>2, <2>1, <2>2
<1>11. CASE AbandonQueued(c)
  <2>1. /\ UNCHANGED <<keys, key, off, closed, lease, req>>
        /\ pc[c] = "abandoning" /\ c \in ToSet(waiters) /\ pc' = [pc EXCEPT ![c] = "idle"]
    BY <1>11 DEF AbandonQueued, poolVars
  <2>2. lease[c] = NoLease
    BY <1>1, <2>1 DEF AnsweredOnce, NoLeaseLeaked
  <2>3. c \in AskingCallers /\ AskingCallers' = AskingCallers \ {c}
    BY <1>1, <2>1, <2>2 DEF AskingCallers
  <2>. QED  BY <1>3, <2>1, <2>3
<1>12. CASE Release(c)
  <2>1. /\ UNCHANGED <<keys, off, closed, req>> /\ lease' = [lease EXCEPT ![c] = NoLease]
        /\ pc[c] \in {"holding", "releasing"} /\ pc' = [pc EXCEPT ![c] = "idle"]
        /\ key' = IF ~lease[c].live THEN key
                  ELSE [key EXCEPT ![lease[c].key] = Vacate(key[lease[c].key], lease[c].stream)]
    BY <1>12 DEF Release
  <2>2. lease[c] # NoLease /\ lease[c] \in Lease
    BY <1>1, <2>1 DEF NoLeaseLeaked
  <2>3. AskingCallers' = AskingCallers
    BY <1>1, <2>1 DEF AskingCallers
  <2>4. ASSUME NEW k \in Keys
        PROVE  key'[k].snapshot = key[k].snapshot /\ key'[k].blocks = key[k].blocks
    <3>1. key[k] \in KeyState /\ key \in [Keys -> KeyState]
      BY <1>1 DEF TypeOK, PoolTypeOK
    <3>2. /\ Vacate(key[k], lease[c].stream).snapshot = key[k].snapshot
          /\ Vacate(key[k], lease[c].stream).blocks = key[k].blocks
      BY <3>1 DEF Vacate, KeyState
    <3>3. key'[k] = key[k] \/ key'[k] = Vacate(key[k], lease[c].stream)
      BY <2>1, <3>1
    <3>. QED  BY <3>2, <3>3
  <2>5. \A k \in Keys, m \in Models : Ready(k, m)' <=> Ready(k, m)
    BY <2>4 DEF Ready, Unblocked, Enabled
  <2>6. UsablePairs' = UsablePairs
    <3>1. ASSUME NEW pair \in keys \X Models PROVE Ready(pair[1], pair[2])' <=> Ready(pair[1], pair[2])
      <4>1. pair[1] \in Keys /\ pair[2] \in Models
        BY <1>1 DEF TypeOK, PoolTypeOK
      <4>. QED  BY <2>5, <4>1
    <3>. QED  BY <2>1, <3>1 DEF UsablePairs
  <2>7. Table!GiveBackLease(c)
    BY <2>1, <2>2, <2>3, <2>6 DEF Table!GiveBackLease
  <2>. QED  BY <2>7 DEF Table!TableNext
<1>. QED  BY <1>4, <1>5, <1>6, <1>7, <1>8, <1>9, <1>10, <1>11, <1>12 DEF CallerStep, TryStep

\* Keys, models, the clock, shutdown.
LEMMA OperationRefines ==
  ASSUME PoolInv, Inv',
         (\E k \in Keys : KeyStep(k)) \/ (\E m \in Models : ModelStep(m)) \/ Shutdown
  PROVE  [Table!TableNext]_Table!tableVars
<1>1. ASSUME NEW k \in Keys, RemoveKey(k), k \in keys PROVE Table!TableNext
  <2>1. /\ keys' = keys \ {k} /\ UNCHANGED <<key, off, closed, pc, req>>
        /\ lease' = [c \in Callers |-> IF lease[c] # NoLease /\ lease[c].key = k
                                       THEN [lease[c] EXCEPT !.live = FALSE] ELSE lease[c]]
    BY <1>1 DEF RemoveKey, Orphan, Sync
  <2>2. UsablePairs' = {pair \in UsablePairs : pair[1] # k}
    BY <2>1 DEF UsablePairs, Ready, Unblocked, Enabled
  <2>3. \A c \in Callers : lease[c] = NoLease <=> lease'[c] = NoLease
    <3>. SUFFICES ASSUME NEW c \in Callers, lease[c] # NoLease, lease[c].key = k
                  PROVE  lease'[c] # NoLease
      BY <2>1
    <3>1. lease[c] \in Lease
      BY DEF PoolInv, Inv, TypeOK, QueueTypeOK
    <3>2. [lease[c] EXCEPT !.live = FALSE] \in Lease
      BY <3>1 DEF Lease
    <3>. QED  BY <2>1, <3>2, NoLeaseAssumption
  <2>4. AskingCallers' = AskingCallers
    BY <2>1, <2>3 DEF AskingCallers
  <2>5. Table!Retire(k)
    BY <2>1, <2>2, <2>4 DEF Table!Retire
  <2>. QED  BY <2>5 DEF Table!TableNext
<1>2. ASSUME UNCHANGED <<closed, pc, req, lease>> PROVE Table!TableNext
  BY <1>2, HealthStep DEF Table!TableNext
<1>3. ASSUME NEW k \in Keys, KeyStep(k) PROVE Table!TableNext
  <2>1. CASE RemoveKey(k) /\ k \in keys
    BY <1>1, <2>1
  <2>2. CASE ~(RemoveKey(k) /\ k \in keys)
    <3>1. UNCHANGED <<closed, pc, req, lease>>
      BY <1>3, <2>2 DEF KeyStep, UpsertKey, SetKeyEnabled, RemoveKey, ApplySuccess, ApplyFailure, SetModelBlock,
         CooldownExpires, WindowSlides, ClockMoves, Sync, callVars
    <3>. QED  BY <1>2, <3>1
  <2>. QED  BY <2>1, <2>2
<1>4. ASSUME NEW m \in Models, ModelStep(m) PROVE Table!TableNext
  <2>1. UNCHANGED <<closed, pc, req, lease>>
    BY <1>4 DEF ModelStep, ClearModelBlocks, SetModelEnabled, Sync
  <2>. QED  BY <1>2, <2>1
<1>5. CASE Shutdown
  <2>1. closed' = TRUE /\ UNCHANGED <<keys, key, off, pc, req, lease>>
    BY <1>5 DEF Shutdown
  <2>2. UsablePairs' = UsablePairs /\ AskingCallers' = AskingCallers
    BY <2>1 DEF UsablePairs, AskingCallers, Ready, Unblocked, Enabled
  <2>3. Table!Close
    BY <2>1, <2>2 DEF Table!Close
  <2>. QED  BY <2>3 DEF Table!TableNext
<1>. QED  BY <1>3, <1>4, <1>5

\* Every step of the pool is a step of the lease table or leaves it alone: whatever
\* path a lease takes through the queue, the channel and abandonWaiter, its key was
\* usable, had room and was not one the caller refused, and Shutdown ends the grants.
THEOREM PoolImplementsTable == Spec => ImplementsLeaseTable
<1>1. Init => Table!Start
  <2>. SUFFICES ASSUME Init PROVE Table!Start
    OBVIOUS
  <2>1. UsablePairs \subseteq Keys \X Models
    BY DEF Init, UsablePairs
  <2>2. AskingCallers = {}
    BY DEF Init, AskingCallers
  <2>3. closed = FALSE /\ req \in [Callers -> Requests] /\ lease = [c \in Callers |-> NoLease]
    BY DEF Init
  <2>. QED  BY <2>1, <2>2, <2>3 DEF Table!Start
<1>2. PoolInv /\ PoolInv' /\ [Next]_vars => [Table!TableNext]_Table!tableVars
  <2>. SUFFICES ASSUME PoolInv, PoolInv', [Next]_vars PROVE [Table!TableNext]_Table!tableVars
    OBVIOUS
  <2>1. CASE UNCHANGED vars
    <3>1. UNCHANGED <<keys, key, off, closed, pc, req, lease>>
      BY <2>1 DEF vars, poolVars, callVars
    <3>2. UsablePairs' = UsablePairs /\ AskingCallers' = AskingCallers
      BY <3>1 DEF UsablePairs, AskingCallers, Ready, Unblocked, Enabled
    <3>. QED  BY <3>1, <3>2 DEF Table!tableVars
  <2>2. CASE Next
    BY <2>2, LoopRefines, CallerRefines, OperationRefines DEF Next, PoolInv
  <2>. QED  BY <2>1, <2>2
<1>. QED  BY <1>1, <1>2, PoolInductive, PTL DEF Spec, ImplementsLeaseTable, Table!TableSpec

=============================================================================

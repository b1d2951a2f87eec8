--------------------------- MODULE KeyPoolProofs ---------------------------
(***************************************************************************)
(* The safety of the credential pool, for every set of keys, callers and   *)
(* requests and every capacity and quota: Inv is inductive, and the        *)
(* invariants the runs check on small instances follow from it.            *)
(***************************************************************************)
EXTENDS KeyPool, TLAPS, FiniteSetTheorems, SequenceTheorems

----------------------------------------------------------------------------
(* The queue operations.                                                   *)

\* Removing position i shifts what follows it.
LEMMA RemoveAtProperties ==
  ASSUME NEW S, NEW s \in Seq(S), NEW i \in 1..Len(s)
  PROVE  /\ RemoveAt(s, i) \in Seq(S)
         /\ Len(RemoveAt(s, i)) = Len(s) - 1
         /\ \A j \in 1..(Len(s) - 1) :
              RemoveAt(s, i)[j] = IF j < i THEN s[j] ELSE s[j + 1]
<1>. DEFINE front == SubSeq(s, 1, i - 1)
            back == SubSeq(s, i + 1, Len(s))
<1>1. Len(s) \in Nat
  BY LenProperties
<1>2. /\ front \in Seq(S) /\ Len(front) = i - 1
      /\ \A j \in 1..(i - 1) : front[j] = s[j]
  BY <1>1, SubSeqProperties
<1>3. /\ back \in Seq(S) /\ Len(back) = Len(s) - i
      /\ \A j \in 1..(Len(s) - i) : back[j] = s[i + j]
  <2>1. /\ back \in Seq(S)
        /\ Len(back) = IF i + 1 <= Len(s) THEN Len(s) - (i + 1) + 1 ELSE 0
        /\ \A j \in 1..(Len(s) - (i + 1) + 1) : back[j] = s[(i + 1) + j - 1]
    BY <1>1, SubSeqProperties
  <2>. QED  BY <1>1, <2>1
<1>4. RemoveAt(s, i) = front \o back
  BY DEF RemoveAt
<1>. HIDE DEF front, back
<1>5. front \o back \in Seq(S) /\ Len(front \o back) = Len(s) - 1
  <2>1. front \o back \in Seq(S) /\ Len(front \o back) = Len(front) + Len(back)
    BY <1>2, <1>3, ConcatProperties
  <2>. QED  BY <1>1, <1>2, <1>3, <2>1
<1>6. ASSUME NEW j \in 1..(Len(s) - 1)
      PROVE  (front \o back)[j] = IF j < i THEN s[j] ELSE s[j + 1]
  <2>1. (front \o back)[j] = IF j <= Len(front) THEN front[j]
                                                ELSE back[j - Len(front)]
    BY <1>1, <1>2, <1>3, ConcatProperties
  <2>2. CASE j < i
    BY <1>1, <1>2, <2>1, <2>2
  <2>3. CASE ~(j < i)
    <3>1. j - (i - 1) \in 1..(Len(s) - i) /\ i + (j - (i - 1)) = j + 1
      BY <1>1, <2>3
    <3>. QED  BY <1>2, <1>3, <2>1, <2>3, <3>1
  <2>. QED  BY <2>2, <2>3
<1>. QED  BY <1>4, <1>5, <1>6

\* Inserting keeps a sequence over the set.
LEMMA InsertAtProperties ==
  ASSUME NEW S, NEW s \in Seq(S), NEW i \in 1..(Len(s) + 1), NEW e \in S
  PROVE  InsertAt(s, i, e) \in Seq(S)
<1>1. SubSeq(s, 1, i - 1) \in Seq(S) /\ SubSeq(s, i, Len(s)) \in Seq(S)
  BY SubSeqProperties, LenProperties
<1>2. <<e>> \in Seq(S)
  OBVIOUS
<1>3. SubSeq(s, 1, i - 1) \o <<e>> \in Seq(S)
  BY <1>1, <1>2, ConcatProperties
<1>. QED  BY <1>1, <1>3, ConcatProperties DEF InsertAt

\* Taking the front of the queue.
LEMMA TailProperties ==
  ASSUME NEW S, NEW s \in Seq(S), s # << >>, Distinct(s)
  PROVE  /\ Tail(s) \in Seq(S) /\ Head(s) \in S
         /\ Head(s) = s[1] /\ Len(s) \in Nat \ {0}
         /\ Len(Tail(s)) = Len(s) - 1
         /\ \A i \in 1..(Len(s) - 1) : Tail(s)[i] = s[i + 1]
         /\ ToSet(Tail(s)) = ToSet(s) \ {Head(s)}
         /\ Head(s) \in ToSet(s)
         /\ Distinct(Tail(s))
<1>1. /\ Tail(s) \in Seq(S) /\ Head(s) \in S
      /\ Head(s) = s[1] /\ Len(s) \in Nat \ {0}
      /\ Len(Tail(s)) = Len(s) - 1
      /\ \A i \in 1..(Len(s) - 1) : Tail(s)[i] = s[i + 1]
      /\ DOMAIN s = 1..Len(s) /\ DOMAIN Tail(s) = 1..(Len(s) - 1)
  BY HeadTailProperties, LenProperties
<1>2. Head(s) \in ToSet(s)
  BY <1>1 DEF ToSet
<1>3. ToSet(Tail(s)) = ToSet(s) \ {Head(s)}
  <2>1. ASSUME NEW x \in ToSet(Tail(s)) PROVE x \in ToSet(s) \ {Head(s)}
    BY <1>1 DEF ToSet, Distinct
  <2>2. ASSUME NEW x \in ToSet(s) \ {Head(s)} PROVE x \in ToSet(Tail(s))
    <3>1. PICK i \in 1..Len(s) : x = s[i]
      BY <1>1 DEF ToSet
    <3>2. i - 1 \in 1..(Len(s) - 1) /\ Tail(s)[i - 1] = s[i]
      BY <1>1, <3>1
    <3>. QED  BY <1>1, <3>1, <3>2 DEF ToSet
  <2>. QED  BY <2>1, <2>2
<1>4. Distinct(Tail(s))
  BY <1>1 DEF Distinct
<1>. QED  BY <1>1, <1>2, <1>3, <1>4

\* Pushing a newcomer.
LEMMA PushProperties ==
  ASSUME NEW S, NEW s \in Seq(S), NEW c \in S, c \notin ToSet(s), Distinct(s)
  PROVE  /\ Append(s, c) \in Seq(S)
         /\ Len(Append(s, c)) = Len(s) + 1
         /\ \A i \in 1..Len(s) : Append(s, c)[i] = s[i]
         /\ Append(s, c)[Len(s) + 1] = c
         /\ ToSet(Append(s, c)) = ToSet(s) \cup {c}
         /\ Distinct(Append(s, c))
<1>1. /\ Append(s, c) \in Seq(S)
      /\ Len(Append(s, c)) = Len(s) + 1 /\ Len(s) \in Nat
      /\ \A i \in 1..Len(s) : Append(s, c)[i] = s[i]
      /\ Append(s, c)[Len(s) + 1] = c
      /\ DOMAIN s = 1..Len(s) /\ DOMAIN Append(s, c) = 1..(Len(s) + 1)
  BY AppendProperties, LenProperties
<1>2. ToSet(Append(s, c)) = ToSet(s) \cup {c}
  BY <1>1 DEF ToSet
<1>3. Distinct(Append(s, c))
  BY <1>1 DEF Distinct, ToSet
<1>. QED  BY <1>1, <1>2, <1>3

\* Moving the front to the back.
LEMMA RotateProperties ==
  ASSUME NEW S, NEW s \in Seq(S), s # << >>, Distinct(s)
  PROVE  /\ Append(Tail(s), Head(s)) \in Seq(S)
         /\ Len(Append(Tail(s), Head(s))) = Len(s)
         /\ \A i \in 1..(Len(s) - 1) : Append(Tail(s), Head(s))[i] = s[i + 1]
         /\ Append(Tail(s), Head(s))[Len(s)] = s[1]
         /\ ToSet(Append(Tail(s), Head(s))) = ToSet(s)
         /\ Distinct(Append(Tail(s), Head(s)))
<1>1. /\ Tail(s) \in Seq(S) /\ Head(s) \in S
      /\ Head(s) = s[1] /\ Len(s) \in Nat \ {0}
      /\ Len(Tail(s)) = Len(s) - 1
      /\ \A i \in 1..(Len(s) - 1) : Tail(s)[i] = s[i + 1]
      /\ ToSet(Tail(s)) = ToSet(s) \ {Head(s)}
      /\ Head(s) \in ToSet(s)
      /\ Distinct(Tail(s))
  BY TailProperties
<1>2. /\ Append(Tail(s), Head(s)) \in Seq(S)
      /\ Len(Append(Tail(s), Head(s))) = Len(Tail(s)) + 1
      /\ \A i \in 1..Len(Tail(s)) : Append(Tail(s), Head(s))[i] = Tail(s)[i]
      /\ Append(Tail(s), Head(s))[Len(Tail(s)) + 1] = Head(s)
      /\ ToSet(Append(Tail(s), Head(s))) = ToSet(Tail(s)) \cup {Head(s)}
      /\ Distinct(Append(Tail(s), Head(s)))
  BY <1>1, PushProperties
<1>3. ToSet(Append(Tail(s), Head(s))) = ToSet(s)
  BY <1>1, <1>2
<1>4. Len(Append(Tail(s), Head(s))) = Len(s)
  BY <1>1, <1>2
<1>5. Append(Tail(s), Head(s))[Len(s)] = s[1]
  BY <1>1, <1>2
<1>6. \A i \in 1..(Len(s) - 1) : Append(Tail(s), Head(s))[i] = s[i + 1]
  BY <1>1, <1>2
<1>. QED  BY <1>2, <1>3, <1>4, <1>5, <1>6

\* Taking a caller out of the queue, wherever it stands.
LEMMA DropProperties ==
  ASSUME NEW S, NEW s \in Seq(S), NEW i \in 1..Len(s), Distinct(s)
  PROVE  /\ Drop(s, s[i]) \in Seq(S)
         /\ Len(Drop(s, s[i])) = Len(s) - 1
         /\ \A j \in 1..(Len(s) - 1) :
              Drop(s, s[i])[j] = IF j < i THEN s[j] ELSE s[j + 1]
         /\ ToSet(Drop(s, s[i])) = ToSet(s) \ {s[i]}
         /\ Distinct(Drop(s, s[i]))
<1>. DEFINE t == RemoveAt(s, i)
<1>1. DOMAIN s = 1..Len(s) /\ Len(s) \in Nat
  BY LenProperties
<1>2. (CHOOSE j \in DOMAIN s : s[j] = s[i]) = i
  <2>1. i \in DOMAIN s
    BY <1>1
  <2>2. \A j \in DOMAIN s : s[j] = s[i] => j = i
    BY <2>1 DEF Distinct
  <2>. QED  BY <2>1, <2>2
<1>3. Drop(s, s[i]) = t
  BY <1>2 DEF Drop
<1>4. /\ t \in Seq(S) /\ Len(t) = Len(s) - 1
      /\ \A j \in 1..(Len(s) - 1) : t[j] = IF j < i THEN s[j] ELSE s[j + 1]
  BY RemoveAtProperties
<1>5. DOMAIN t = 1..(Len(s) - 1)
  BY <1>4, LenProperties
<1>. HIDE DEF t
<1>. DEFINE at(j) == IF j < i THEN j ELSE j + 1
<1>a. \A j \in 1..(Len(s) - 1) : at(j) \in 1..Len(s) /\ at(j) # i
  BY <1>1
<1>b. \A j, k \in 1..(Len(s) - 1) : j # k => at(j) # at(k)
  BY <1>1
<1>c. \A j \in 1..(Len(s) - 1) : t[j] = s[at(j)]
  BY <1>4
<1>. HIDE DEF at
<1>6. Distinct(t)
  <2>1. SUFFICES ASSUME NEW j \in 1..(Len(s) - 1), NEW k \in 1..(Len(s) - 1), j # k
                 PROVE  t[j] # t[k]
    BY <1>5 DEF Distinct
  <2>2. /\ at(j) \in DOMAIN s /\ at(k) \in DOMAIN s /\ at(j) # at(k)
        /\ t[j] = s[at(j)] /\ t[k] = s[at(k)]
    BY <1>1, <1>a, <1>b, <1>c, <2>1
  <2>. QED  BY <2>2 DEF Distinct
<1>7. ToSet(t) = ToSet(s) \ {s[i]}
  <2>1. ASSUME NEW x \in ToSet(t) PROVE x \in ToSet(s) \ {s[i]}
    <3>1. PICK j \in 1..(Len(s) - 1) : x = t[j]
      BY <1>5 DEF ToSet
    <3>2. at(j) \in 1..Len(s) /\ at(j) # i /\ x = s[at(j)]
      BY <1>a, <1>c, <3>1
    <3>. QED  BY <1>1, <3>2 DEF ToSet, Distinct
  <2>2. ASSUME NEW x \in ToSet(s) \ {s[i]} PROVE x \in ToSet(t)
    <3>1. PICK j \in 1..Len(s) : x = s[j] /\ j # i
      BY <1>1 DEF ToSet
    <3>2. CASE j < i
      BY <1>1, <1>4, <1>5, <3>1, <3>2 DEF ToSet
    <3>3. CASE j > i
      <4>1. j - 1 \in 1..(Len(s) - 1) /\ t[j - 1] = x
        BY <1>1, <1>4, <3>1, <3>3
      <4>. QED  BY <1>5, <4>1 DEF ToSet
    <3>. QED  BY <3>1, <3>2, <3>3
  <2>. QED  BY <2>1, <2>2
<1>. QED  BY <1>3, <1>4, <1>6, <1>7

----------------------------------------------------------------------------
(* Slots and leases.                                                       *)

\* What a granted lease changes.
LEMMA GrantEffect ==
  ASSUME TypeOK, NEW c \in Callers, NEW q \in Request, NEW relaxed \in BOOLEAN,
         Grant(c, q, relaxed)
  PROVE  /\ \E k \in Eligible(q, relaxed) :
              /\ key' = [key EXCEPT ![k] = Reserve(key[k], q.stream)]
              /\ lease' = [lease EXCEPT ![c] =
                             [key |-> k, stream |-> q.stream, live |-> TRUE]]
         /\ cursor' \in Nat
         /\ UNCHANGED <<keys, off, order, closed>>
<1>1. PICK index \in 0..(Len(order) - 1) :
        /\ Picks(q, relaxed, index)
        /\ key' = [key EXCEPT ![order[index + 1]] =
                     Reserve(key[order[index + 1]], q.stream)]
        /\ lease' = [lease EXCEPT ![c] = [key |-> order[index + 1],
                                         stream |-> q.stream, live |-> TRUE]]
        /\ cursor' = (index + 1) % Len(order)
  BY DEF Grant
<1>2. order[index + 1] \in Eligible(q, relaxed)
  BY <1>1 DEF Picks
<1>3. Len(order) \in Nat \ {0}
  BY <1>1, LenProperties DEF TypeOK, PoolTypeOK, QueueTypeOK
<1>4. cursor' \in Nat
  BY <1>1, <1>3
<1>5. UNCHANGED <<keys, off, order, closed>>
  BY DEF Grant
<1>. QED  BY <1>1, <1>2, <1>4, <1>5

\* An eligible key has room in its window and in the quota the request needs.
LEMMA EligibleHasRoom ==
  ASSUME NEW q \in Request, NEW relaxed \in BOOLEAN, NEW k \in Eligible(q, relaxed)
  PROVE  /\ k \in keys
         /\ ~(key[k].used >= RequestLimit)
         /\ IF q.stream THEN ~(key[k].streams >= MaxStreaming) ELSE ~key[k].busy
         /\ relaxed \/ k \notin q.attempted
  BY DEF Eligible, Considered, RateLimited, Saturated

\* Taking a slot that is free keeps the counters in range.
LEMMA ReserveType ==
  ASSUME NEW state \in KeyState, NEW stream \in BOOLEAN,
         ~(state.used >= RequestLimit),
         IF stream THEN ~(state.streams >= MaxStreaming) ELSE ~state.busy
  PROVE  Reserve(state, stream) \in KeyState
<1>1. state.used + 1 \in 0..RequestLimit
  BY BoundsAssumption DEF KeyState
<1>2. CASE stream
  <2>1. state.streams + 1 \in 0..MaxStreaming
    BY <1>2, BoundsAssumption DEF KeyState
  <2>2. [state EXCEPT !.used = state.used + 1, !.streams = state.streams + 1] \in KeyState
    BY <1>1, <2>1 DEF KeyState
  <2>. QED  BY <1>2, <2>2 DEF Reserve
<1>3. CASE ~stream
  <2>1. [state EXCEPT !.used = state.used + 1, !.busy = TRUE] \in KeyState
    BY <1>1 DEF KeyState
  <2>. QED  BY <1>3, <2>1 DEF Reserve
<1>. QED  BY <1>2, <1>3

\* A grant respects the types: no counter leaves its range.
LEMMA GrantType ==
  ASSUME TypeOK, NEW c \in Callers, NEW q \in Request, NEW relaxed \in BOOLEAN,
         Grant(c, q, relaxed)
  PROVE  /\ key' \in [Keys -> KeyState]
         /\ lease' \in [Callers -> Lease \cup {NoLease}]
<1>1. PICK k \in Eligible(q, relaxed) :
        /\ key' = [key EXCEPT ![k] = Reserve(key[k], q.stream)]
        /\ lease' = [lease EXCEPT ![c] =
                       [key |-> k, stream |-> q.stream, live |-> TRUE]]
  BY GrantEffect
<1>2. k \in Keys /\ key[k] \in KeyState /\ q.stream \in BOOLEAN
  BY EligibleHasRoom DEF TypeOK, PoolTypeOK, QueueTypeOK, Request
<1>3. Reserve(key[k], q.stream) \in KeyState
  BY <1>2, EligibleHasRoom, ReserveType
<1>4. key' \in [Keys -> KeyState]
  BY <1>1, <1>2, <1>3 DEF TypeOK, PoolTypeOK, QueueTypeOK
<1>5. lease' \in [Callers -> Lease \cup {NoLease}]
  BY <1>1, <1>2 DEF TypeOK, PoolTypeOK, QueueTypeOK, Lease
<1>. QED  BY <1>4, <1>5

\* A grant to a caller without a lease keeps slots and leases in step.
LEMMA GrantSlots ==
  ASSUME TypeOK, SlotsMatchLeases, LiveKeysPooled,
         NEW c \in Callers, NEW q \in Request, NEW relaxed \in BOOLEAN,
         lease[c] = NoLease, Grant(c, q, relaxed)
  PROVE  SlotsMatchLeases' /\ LiveKeysPooled'
<1>1. PICK k \in Eligible(q, relaxed) :
        /\ key' = [key EXCEPT ![k] = Reserve(key[k], q.stream)]
        /\ lease' = [lease EXCEPT ![c] =
                       [key |-> k, stream |-> q.stream, live |-> TRUE]]
  BY GrantEffect
<1>2. /\ k \in keys /\ k \in Keys /\ keys' = keys
      /\ IF q.stream THEN ~(key[k].streams >= MaxStreaming) ELSE ~key[k].busy
      /\ key[k] \in KeyState /\ q.stream \in BOOLEAN
  BY EligibleHasRoom DEF TypeOK, PoolTypeOK, QueueTypeOK, Request, Grant
<1>3. [key |-> k, stream |-> q.stream, live |-> TRUE] # NoLease
  <2>1. [key |-> k, stream |-> q.stream, live |-> TRUE] \in Lease
    BY <1>2 DEF Lease
  <2>. QED  BY <2>1, NoLeaseAssumption
<1>4. \A j \in Keys :
        /\ ShortHolders(j)' = IF j = k /\ ~q.stream THEN ShortHolders(j) \cup {c}
                                                    ELSE ShortHolders(j)
        /\ StreamHolders(j)' = IF j = k /\ q.stream THEN StreamHolders(j) \cup {c}
                                                    ELSE StreamHolders(j)
  BY <1>1, <1>2, <1>3 DEF ShortHolders, StreamHolders, TypeOK, PoolTypeOK, QueueTypeOK
<1>5. SlotsMatchLeases'
  <2>1. SUFFICES ASSUME NEW j \in keys
                 PROVE  /\ key'[j].busy <=> ShortHolders(j)' # {}
                        /\ Cardinality(ShortHolders(j)') <= 1
                        /\ key'[j].streams = Cardinality(StreamHolders(j)')
    BY <1>2 DEF SlotsMatchLeases
  <2>2. /\ j \in Keys
        /\ key[j].busy <=> ShortHolders(j) # {}
        /\ Cardinality(ShortHolders(j)) <= 1
        /\ key[j].streams = Cardinality(StreamHolders(j))
    BY DEF SlotsMatchLeases, TypeOK, PoolTypeOK, QueueTypeOK
  <2>3. CASE j # k
    <3>1. ShortHolders(j)' = ShortHolders(j) /\ StreamHolders(j)' = StreamHolders(j)
      BY <1>4, <2>2, <2>3
    <3>2. key'[j] = key[j]
      BY <1>1, <1>2, <2>2, <2>3 DEF TypeOK, PoolTypeOK, QueueTypeOK
    <3>. QED  BY <2>2, <3>1, <3>2
  <2>4. CASE j = k /\ q.stream
    <3>1. ShortHolders(j)' = ShortHolders(j)
      BY <1>4, <2>2, <2>4
    <3>2. StreamHolders(j)' = StreamHolders(j) \cup {c}
      BY <1>4, <2>2, <2>4
    <3>3. key'[j] = [key[j] EXCEPT !.used = key[j].used + 1,
                                   !.streams = key[j].streams + 1]
      BY <1>1, <1>2, <2>4 DEF Reserve, TypeOK, PoolTypeOK, QueueTypeOK
    <3>4. key'[j].busy = key[j].busy /\ key'[j].streams = key[j].streams + 1
      BY <1>2, <2>4, <3>3 DEF KeyState
    <3>5. /\ c \notin StreamHolders(j)
          /\ IsFiniteSet(StreamHolders(j))
      <4>1. c \notin StreamHolders(j) /\ StreamHolders(j) \subseteq Callers
        BY DEF StreamHolders
      <4>. QED  BY <4>1, FS_Subset, CallersAssumption
    <3>6. Cardinality(StreamHolders(j) \cup {c}) = Cardinality(StreamHolders(j)) + 1
      BY <3>5, FS_AddElement
    <3>. QED  BY <2>2, <3>1, <3>2, <3>4, <3>6
  <2>5. CASE j = k /\ ~q.stream
    <3>1. StreamHolders(j)' = StreamHolders(j)
      BY <1>4, <2>2, <2>5
    <3>2. ShortHolders(j)' = ShortHolders(j) \cup {c}
      BY <1>4, <2>2, <2>5
    <3>3. key'[j] = [key[j] EXCEPT !.used = key[j].used + 1, !.busy = TRUE]
      BY <1>1, <1>2, <2>5 DEF Reserve, TypeOK, PoolTypeOK, QueueTypeOK
    <3>4. key'[j].busy = TRUE /\ key'[j].streams = key[j].streams
      BY <1>2, <2>5, <3>3 DEF KeyState
    <3>5. ShortHolders(j) = {}
      BY <1>2, <2>2, <2>5
    <3>6. ShortHolders(j)' = {c} /\ Cardinality({c}) = 1
      BY <3>2, <3>5, FS_Singleton
    <3>. QED  BY <2>2, <3>1, <3>4, <3>6
  <2>. QED  BY <1>2, <2>3, <2>4, <2>5
<1>6. LiveKeysPooled'
  BY <1>1, <1>2 DEF LiveKeysPooled, TypeOK, PoolTypeOK, QueueTypeOK
<1>. QED  BY <1>5, <1>6

\* The fields of a slot that is given back.
LEMMA VacateType ==
  ASSUME NEW state \in KeyState, NEW stream \in BOOLEAN, stream => state.streams > 0
  PROVE  Vacate(state, stream) \in KeyState
<1>1. CASE stream
  <2>1. state.streams - 1 \in 0..MaxStreaming
    BY <1>1, BoundsAssumption DEF KeyState
  <2>2. [state EXCEPT !.streams = state.streams - 1] \in KeyState
    BY <2>1 DEF KeyState
  <2>. QED  BY <1>1, <2>2 DEF Vacate
<1>2. CASE ~stream
  <2>1. [state EXCEPT !.busy = FALSE] \in KeyState
    BY DEF KeyState
  <2>. QED  BY <1>2, <2>1 DEF Vacate
<1>. QED  BY <1>1, <1>2

\* Releasing a lease keeps slots and leases in step, and the counter of the
\* key whose slot is given back is positive.
LEMMA ReleaseSlots ==
  ASSUME TypeOK, SlotsMatchLeases, LiveKeysPooled, NEW c \in Callers,
         lease[c] # NoLease, keys' = keys,
         key' = (IF ~lease[c].live THEN key
                 ELSE [key EXCEPT ![lease[c].key] =
                        Vacate(key[lease[c].key], lease[c].stream)]),
         lease' = [lease EXCEPT ![c] = NoLease]
  PROVE  SlotsMatchLeases' /\ LiveKeysPooled' /\ key' \in [Keys -> KeyState]
<1>. DEFINE k == lease[c].key
            str == lease[c].stream
<1>1. lease[c] \in Lease /\ k \in Keys /\ str \in BOOLEAN /\ lease[c].live \in BOOLEAN
  BY DEF TypeOK, PoolTypeOK, QueueTypeOK, Lease
<1>2. \A j \in Keys :
        /\ ShortHolders(j)' = IF lease[c].live /\ j = k /\ ~str
                              THEN ShortHolders(j) \ {c} ELSE ShortHolders(j)
        /\ StreamHolders(j)' = IF lease[c].live /\ j = k /\ str
                               THEN StreamHolders(j) \ {c} ELSE StreamHolders(j)
  BY <1>1 DEF ShortHolders, StreamHolders, TypeOK, PoolTypeOK, QueueTypeOK
<1>3. LiveKeysPooled'
  BY DEF LiveKeysPooled, TypeOK, PoolTypeOK, QueueTypeOK
<1>4. \A j \in Keys : IsFiniteSet(ShortHolders(j)) /\ IsFiniteSet(StreamHolders(j))
  <2>1. \A j \in Keys : ShortHolders(j) \subseteq Callers /\ StreamHolders(j) \subseteq Callers
    BY DEF ShortHolders, StreamHolders
  <2>. QED  BY <2>1, FS_Subset, CallersAssumption
<1>5. \A j \in keys :
        /\ j \in Keys
        /\ key[j].busy <=> ShortHolders(j) # {}
        /\ Cardinality(ShortHolders(j)) <= 1
        /\ key[j].streams = Cardinality(StreamHolders(j))
  BY DEF SlotsMatchLeases, TypeOK, PoolTypeOK, QueueTypeOK
<1>6. SUFFICES /\ key' \in [Keys -> KeyState]
               /\ \A j \in keys : /\ key'[j].busy <=> ShortHolders(j)' # {}
                                  /\ Cardinality(ShortHolders(j)') <= 1
                                  /\ key'[j].streams = Cardinality(StreamHolders(j)')
  BY <1>3 DEF SlotsMatchLeases
<1>7. CASE ~lease[c].live
  <2>1. key' = key
    BY <1>7
  <2>2. \A j \in Keys : ShortHolders(j)' = ShortHolders(j) /\ StreamHolders(j)' = StreamHolders(j)
    BY <1>2, <1>7
  <2>. QED  BY <1>5, <2>1, <2>2 DEF TypeOK, PoolTypeOK, QueueTypeOK
<1>8. CASE lease[c].live /\ str
  <2>1. /\ k \in keys /\ key[k] \in KeyState
        /\ key' = [key EXCEPT ![k] = Vacate(key[k], str)]
    BY <1>1, <1>8 DEF LiveKeysPooled, TypeOK, PoolTypeOK, QueueTypeOK
  <2>2. Vacate(key[k], str) = [key[k] EXCEPT !.streams = key[k].streams - 1]
    BY <1>8 DEF Vacate
  <2>3. c \in StreamHolders(k)
    BY <1>8 DEF StreamHolders
  <2>4. /\ Cardinality(StreamHolders(k) \ {c}) = Cardinality(StreamHolders(k)) - 1
        /\ Cardinality(StreamHolders(k)) \in Nat
        /\ Cardinality(StreamHolders(k)) # 0
    BY <1>1, <1>4, <2>3, FS_RemoveElement, FS_CardinalityType, FS_EmptySet
  <2>5. key[k].streams > 0
    BY <1>5, <2>1, <2>4
  <2>6. Vacate(key[k], str) \in KeyState
    BY <1>1, <2>1, <2>5, VacateType
  <2>7. key' \in [Keys -> KeyState]
    BY <1>1, <2>1, <2>6 DEF TypeOK, PoolTypeOK, QueueTypeOK
  <2>8. ASSUME NEW j \in keys
        PROVE  /\ key'[j].busy <=> ShortHolders(j)' # {}
               /\ Cardinality(ShortHolders(j)') <= 1
               /\ key'[j].streams = Cardinality(StreamHolders(j)')
    <3>1. ShortHolders(j)' = ShortHolders(j)
      BY <1>2, <1>5, <1>8
    <3>2. CASE j # k
      <4>1. StreamHolders(j)' = StreamHolders(j) /\ key'[j] = key[j]
        BY <1>1, <1>2, <1>5, <2>1, <3>2 DEF TypeOK, PoolTypeOK, QueueTypeOK
      <4>. QED  BY <1>5, <3>1, <4>1
    <3>3. CASE j = k
      <4>1. StreamHolders(j)' = StreamHolders(j) \ {c}
        BY <1>2, <1>5, <1>8, <3>3
      <4>2. key'[j] = [key[j] EXCEPT !.streams = key[j].streams - 1]
        BY <1>1, <2>1, <2>2, <3>3 DEF TypeOK, PoolTypeOK, QueueTypeOK
      <4>3. key'[j].busy = key[j].busy /\ key'[j].streams = key[j].streams - 1
        BY <2>1, <3>3, <4>2 DEF KeyState
      <4>. QED  BY <1>5, <2>4, <3>1, <3>3, <4>1, <4>3
    <3>. QED  BY <3>2, <3>3
  <2>. QED  BY <2>7, <2>8
<1>9. CASE lease[c].live /\ ~str
  <2>1. /\ k \in keys /\ key[k] \in KeyState
        /\ key' = [key EXCEPT ![k] = Vacate(key[k], str)]
    BY <1>1, <1>9 DEF LiveKeysPooled, TypeOK, PoolTypeOK, QueueTypeOK
  <2>2. Vacate(key[k], str) = [key[k] EXCEPT !.busy = FALSE]
    BY <1>9 DEF Vacate
  <2>3. c \in ShortHolders(k)
    BY <1>9 DEF ShortHolders
  <2>4. /\ Cardinality(ShortHolders(k) \ {c}) = Cardinality(ShortHolders(k)) - 1
        /\ Cardinality(ShortHolders(k)) \in Nat
        /\ Cardinality(ShortHolders(k)) # 0
    BY <1>1, <1>4, <2>3, FS_RemoveElement, FS_CardinalityType, FS_EmptySet
  <2>5. Cardinality(ShortHolders(k) \ {c}) = 0
    BY <1>5, <2>1, <2>4
  <2>6. ShortHolders(k) \ {c} = {}
    BY <1>1, <1>4, <2>5, FS_Subset, FS_EmptySet
  <2>7. Vacate(key[k], str) \in KeyState
    BY <1>1, <1>9, <2>1, VacateType
  <2>8. key' \in [Keys -> KeyState]
    BY <1>1, <2>1, <2>7 DEF TypeOK, PoolTypeOK, QueueTypeOK
  <2>9. ASSUME NEW j \in keys
        PROVE  /\ key'[j].busy <=> ShortHolders(j)' # {}
               /\ Cardinality(ShortHolders(j)') <= 1
               /\ key'[j].streams = Cardinality(StreamHolders(j)')
    <3>1. StreamHolders(j)' = StreamHolders(j)
      BY <1>2, <1>5, <1>9
    <3>2. CASE j # k
      <4>1. ShortHolders(j)' = ShortHolders(j) /\ key'[j] = key[j]
        BY <1>1, <1>2, <1>5, <2>1, <3>2 DEF TypeOK, PoolTypeOK, QueueTypeOK
      <4>. QED  BY <1>5, <3>1, <4>1
    <3>3. CASE j = k
      <4>1. ShortHolders(j)' = ShortHolders(j) \ {c}
        BY <1>2, <1>5, <1>9, <3>3
      <4>2. key'[j] = [key[j] EXCEPT !.busy = FALSE]
        BY <1>1, <2>1, <2>2, <3>3 DEF TypeOK, PoolTypeOK, QueueTypeOK
      <4>3. key'[j].busy = FALSE /\ key'[j].streams = key[j].streams
        BY <2>1, <3>3, <4>2 DEF KeyState
      <4>. QED  BY <1>5, <2>5, <2>6, <3>1, <3>3, <4>1, <4>3
    <3>. QED  BY <3>2, <3>3
  <2>. QED  BY <2>8, <2>9
<1>. QED  BY <1>1, <1>7, <1>8, <1>9

\* An operation that leaves the leases alone, and the slots of the pooled keys,
\* keeps them in step.
LEMMA SlotsFrame ==
  ASSUME SlotsMatchLeases, LiveKeysPooled, keys' = keys, lease' = lease,
         \A k \in keys : key'[k].busy = key[k].busy /\ key'[k].streams = key[k].streams
  PROVE  SlotsMatchLeases' /\ LiveKeysPooled'
<1>1. \A k \in keys : ShortHolders(k)' = ShortHolders(k) /\ StreamHolders(k)' = StreamHolders(k)
  BY DEF ShortHolders, StreamHolders
<1>. QED  BY <1>1 DEF SlotsMatchLeases, LiveKeysPooled

----------------------------------------------------------------------------
(* The queue and its arrival order.                                        *)

\* The same callers are queued and recorded as arrived.
LEMMA ArrivalsMatch ==
  ASSUME QueueTypeOK, Rotated, Distinct(waiters)
  PROVE  Distinct(arrivals) /\ ToSet(arrivals) = ToSet(waiters)
<1>. DEFINE n == Len(waiters)
            back(a) == IF a > n - left THEN a - (n - left) ELSE a + left
<1>1. /\ n \in Nat /\ left \in Nat /\ left <= n /\ Len(arrivals) = n
      /\ DOMAIN waiters = 1..n /\ DOMAIN arrivals = 1..n
  BY LenProperties DEF QueueTypeOK, Rotated
<1>2. \A i \in 1..n : waiters[i] = arrivals[Place(i, left, n)]
  BY <1>1 DEF Rotated
<1>. HIDE DEF n
<1>3. \A i \in 1..n : Place(i, left, n) \in 1..n
  BY <1>1 DEF Place
<1>4. \A a \in 1..n : back(a) \in 1..n /\ Place(back(a), left, n) = a
  BY <1>1 DEF Place
<1>5. \A a, b \in 1..n : a # b => back(a) # back(b)
  BY <1>4
<1>. HIDE DEF back
<1>6. \A a \in 1..n : arrivals[a] = waiters[back(a)]
  BY <1>2, <1>4
<1>7. Distinct(arrivals)
  <2>1. SUFFICES ASSUME NEW a \in 1..n, NEW b \in 1..n, a # b
                 PROVE  arrivals[a] # arrivals[b]
    BY <1>1 DEF Distinct
  <2>2. back(a) \in DOMAIN waiters /\ back(b) \in DOMAIN waiters /\ back(a) # back(b)
    BY <1>1, <1>4, <1>5, <2>1
  <2>. QED  BY <1>6, <2>2 DEF Distinct
<1>8. ToSet(arrivals) = ToSet(waiters)
  BY <1>1, <1>2, <1>3, <1>4, <1>6 DEF ToSet
<1>. QED  BY <1>7, <1>8

\* Taking the front waiter off keeps the rest in place, in a pass and after it.
LEMMA DeliverRotation ==
  ASSUME QueueTypeOK, Rotated, Distinct(waiters), waiters # << >>,
         waiters' = Tail(waiters), arrivals' = Drop(arrivals, Head(waiters)),
         left' = IF left > 0 THEN left - 1 ELSE 0
  PROVE  /\ arrivals' \in Seq(Callers)
         /\ Len(arrivals') = Len(waiters') /\ left' \in Nat
         /\ left' <= Len(waiters')
         /\ \A i \in DOMAIN waiters' :
              waiters'[i] = arrivals'[Place(i, left', Len(waiters'))]
<1>. DEFINE n == Len(waiters)
            p == Place(1, left, n)
<1>1. /\ n \in Nat \ {0} /\ left \in Nat /\ left <= n /\ Len(arrivals) = n
      /\ DOMAIN waiters = 1..n
      /\ Head(waiters) = waiters[1] /\ Tail(waiters) \in Seq(Callers)
      /\ Len(Tail(waiters)) = n - 1 /\ DOMAIN Tail(waiters) = 1..(n - 1)
      /\ \A i \in 1..(n - 1) : Tail(waiters)[i] = waiters[i + 1]
  BY TailProperties, LenProperties DEF QueueTypeOK, Rotated
<1>2. \A i \in 1..n : waiters[i] = arrivals[Place(i, left, n)]
  BY <1>1 DEF Rotated
<1>3. p \in 1..n /\ Head(waiters) = arrivals[p]
  BY <1>1, <1>2 DEF Place
<1>4. Distinct(arrivals)
  BY ArrivalsMatch
<1>5. /\ arrivals' \in Seq(Callers) /\ Len(arrivals') = n - 1
      /\ \A j \in 1..(n - 1) : arrivals'[j] = IF j < p THEN arrivals[j] ELSE arrivals[j + 1]
  <2>. HIDE DEF p
  <2>1. p \in 1..Len(arrivals) /\ arrivals' = Drop(arrivals, arrivals[p])
        /\ arrivals \in Seq(Callers)
    BY <1>1, <1>3 DEF QueueTypeOK
  <2>2. LET d == Drop(arrivals, arrivals[p]) IN
        /\ d \in Seq(Callers) /\ Len(d) = Len(arrivals) - 1
        /\ \A j \in 1..(Len(arrivals) - 1) :
             d[j] = IF j < p THEN arrivals[j] ELSE arrivals[j + 1]
    BY <1>4, <2>1, DropProperties
  <2>. QED  BY <1>1, <2>1, <2>2
<1>6. left' \in Nat /\ left' <= n - 1
  BY <1>1
<1>. HIDE DEF n
<1>7. ASSUME NEW i \in 1..(n - 1)
      PROVE  Tail(waiters)[i] = arrivals'[Place(i, left', n - 1)]
  <2>1. /\ Place(i, left', n - 1) \in 1..(n - 1)
        /\ Place(i + 1, left, n) = IF Place(i, left', n - 1) < p
                                   THEN Place(i, left', n - 1)
                                   ELSE Place(i, left', n - 1) + 1
    BY <1>1, <1>7 DEF Place
  <2>2. i + 1 \in 1..n
    BY <1>1
  <2>. QED  BY <1>1, <1>2, <1>5, <2>1, <2>2
<1>. QED  BY <1>1, <1>5, <1>6, <1>7

\* The queue after the front waiter has been answered.
LEMMA DeliverQueue ==
  ASSUME TypeOK, AnsweredOnce, Rotated, NoLeaseLeaked, waiters # << >>,
         NEW answer \in Answers, Deliver(Head(waiters), answer), pc' = pc,
         left' = IF left > 0 THEN left - 1 ELSE 0,
         IF answer = "lease"
         THEN \E l \in Lease : lease' = [lease EXCEPT ![Head(waiters)] = l]
         ELSE lease' = lease
  PROVE  /\ waiters' \in Seq(Callers) /\ Len(waiters') <= Capacity
         /\ arrivals' \in Seq(Callers) /\ left' \in Nat
         /\ result' \in [Callers -> Answers \cup {"none"}]
         /\ AnsweredOnce' /\ NoLeaseLeaked'
         /\ Len(arrivals') = Len(waiters') /\ left' <= Len(waiters')
         /\ \A i \in DOMAIN waiters' :
              waiters'[i] = arrivals'[Place(i, left', Len(waiters'))]
         /\ \A c \in Callers : result'[c] # "none" =>
              result[c] # "none" \/ pc[c] \in {"waiting", "abandoning"}
<1>. DEFINE w == Head(waiters)
<1>1. /\ waiters' = Tail(waiters) /\ arrivals' = Drop(arrivals, w)
      /\ result' = [result EXCEPT ![w] = answer]
  BY DEF Deliver
<1>2. waiters \in Seq(Callers) /\ Distinct(waiters) /\ Len(waiters) <= Capacity
  BY DEF TypeOK, QueueTypeOK, AnsweredOnce
<1>3. /\ Tail(waiters) \in Seq(Callers) /\ w \in Callers
      /\ Len(Tail(waiters)) = Len(waiters) - 1 /\ Len(waiters) \in Nat \ {0}
      /\ ToSet(Tail(waiters)) = ToSet(waiters) \ {w}
      /\ w \in ToSet(waiters) /\ Distinct(Tail(waiters))
  BY <1>2, TailProperties
<1>4. /\ arrivals' \in Seq(Callers) /\ left' \in Nat
      /\ Len(arrivals') = Len(waiters') /\ left' <= Len(waiters')
      /\ \A i \in DOMAIN waiters' :
           waiters'[i] = arrivals'[Place(i, left', Len(waiters'))]
  BY <1>1, <1>2, DeliverRotation DEF TypeOK
<1>5. waiters' \in Seq(Callers) /\ Len(waiters') <= Capacity
  BY <1>1, <1>2, <1>3, BoundsAssumption
<1>6. result' \in [Callers -> Answers \cup {"none"}]
  BY <1>1, <1>3 DEF TypeOK, QueueTypeOK
<1>7. pc[w] \in {"waiting", "abandoning"} /\ result[w] = "none" /\ lease[w] = NoLease
  BY <1>3 DEF AnsweredOnce, NoLeaseLeaked
<1>8. answer # "none"
  BY DEF Answers
<1>9. AnsweredOnce'
  <2>1. ASSUME NEW c \in Callers
        PROVE  /\ c \in ToSet(waiters)' <=>
                    pc'[c] \in {"waiting", "abandoning"} /\ result'[c] = "none"
               /\ pc'[c] = "draining" => result'[c] # "none"
    <3>1. ToSet(waiters)' = ToSet(waiters) \ {w}
      BY <1>1, <1>3 DEF ToSet
    <3>2. CASE c = w
      BY <1>1, <1>3, <1>8, <3>1, <3>2 DEF TypeOK, QueueTypeOK
    <3>3. CASE c # w
      <4>1. result'[c] = result[c]
        BY <1>1, <3>3 DEF TypeOK, QueueTypeOK
      <4>. QED  BY <3>1, <3>3, <4>1 DEF AnsweredOnce
    <3>. QED  BY <3>2, <3>3
  <2>2. Distinct(waiters)'
    BY <1>1, <1>3 DEF Distinct
  <2>. QED  BY <2>1, <2>2 DEF AnsweredOnce
<1>10. NoLeaseLeaked'
  <2>1. SUFFICES ASSUME NEW c \in Callers
                 PROVE  lease'[c] # NoLease <=>
                          pc'[c] \in {"holding", "releasing"} \/ result'[c] = "lease"
    BY DEF NoLeaseLeaked
  <2>2. CASE c # w
    <3>1. result'[c] = result[c] /\ lease'[c] = lease[c]
      BY <1>1, <2>2 DEF TypeOK, QueueTypeOK
    <3>. QED  BY <3>1 DEF NoLeaseLeaked
  <2>3. CASE c = w /\ answer = "lease"
    <3>1. lease'[c] \in Lease /\ result'[c] = "lease"
      BY <1>1, <1>3, <2>3 DEF TypeOK, QueueTypeOK
    <3>. QED  BY <3>1, NoLeaseAssumption
  <2>4. CASE c = w /\ answer # "lease"
    <3>1. lease'[c] = NoLease /\ result'[c] # "lease"
      BY <1>1, <1>3, <1>7, <2>4 DEF TypeOK, QueueTypeOK
    <3>. QED  BY <1>7, <2>4, <3>1
  <2>. QED  BY <2>2, <2>3, <2>4
<1>11. \A c \in Callers : result'[c] # "none" =>
         result[c] # "none" \/ pc[c] \in {"waiting", "abandoning"}
  BY <1>1, <1>7 DEF TypeOK, QueueTypeOK
<1>. QED  BY <1>4, <1>5, <1>6, <1>9, <1>10, <1>11

----------------------------------------------------------------------------
(* Frames: what whole groups of actions leave alone.                       *)

callQueue == <<pc, result, waiters, arrivals>>

\* A step that touches neither channels, queue nor leases.
LEMMA ChannelFrame ==
  ASSUME AnsweredOnce, NoLeaseLeaked, UNCHANGED callQueue,
         \A c \in Callers : lease'[c] = NoLease <=> lease[c] = NoLease
  PROVE  AnsweredOnce' /\ NoLeaseLeaked'
<1>1. pc' = pc /\ result' = result /\ waiters' = waiters
  BY DEF callQueue
<1>2. AnsweredOnce'
  BY <1>1 DEF AnsweredOnce, Distinct, ToSet
<1>3. NoLeaseLeaked'
  BY <1>1 DEF NoLeaseLeaked
<1>. QED  BY <1>2, <1>3

\* Outside a pass, starting a new one finds the queue in arrival order.
LEMMA DispatchRotation ==
  ASSUME QueueTypeOK, Rotated, stage = "free", Dispatch,
         waiters' = waiters, arrivals' = arrivals
  PROVE  Rotated'
<1>1. /\ left = 0 /\ Len(waiters) \in Nat /\ Len(arrivals) = Len(waiters)
      /\ DOMAIN waiters = 1..Len(waiters)
  BY LenProperties DEF QueueTypeOK, Rotated
<1>2. \A i \in 1..Len(waiters) : waiters[i] = arrivals[i]
  BY <1>1 DEF Rotated, Place
<1>3. left' \in Nat /\ left' <= Len(waiters)
  BY <1>1 DEF Dispatch
<1>4. left' = 0 \/ left' = Len(waiters)
  BY DEF Dispatch
<1>5. \A i \in 1..Len(waiters) : Place(i, left', Len(waiters)) = i
  BY <1>1, <1>4 DEF Place
<1>6. stage' \in {"free", "try"} => left' = 0
  BY DEF Dispatch
<1>. QED  BY <1>1, <1>2, <1>3, <1>5, <1>6 DEF Rotated

\* The StateSync operations: everything but the keys and the orphaned leases.
LEMMA SyncFrame ==
  ASSUME Inv, Sync, lease' \in [Callers -> Lease \cup {NoLease}],
         \A c \in Callers : /\ lease'[c] = NoLease <=> lease[c] = NoLease
                            /\ lease[c] # NoLease => lease'[c].key = lease[c].key,
         PoolTypeOK', SlotsMatchLeases', LiveKeysPooled'
  PROVE  Inv'
<1>1. /\ stage = "free" /\ Dispatch /\ UNCHANGED callQueue
      /\ UNCHANGED <<req, cancelled, closed>> /\ changes' \in 0..MaxChanges
  BY BoundsAssumption DEF Sync, callQueue, Inv, TypeOK, QueueTypeOK
<1>2. Rotated'
  BY <1>1, DispatchRotation DEF Inv, TypeOK, callQueue
<1>3. AnsweredOnce' /\ NoLeaseLeaked'
  BY <1>1, ChannelFrame DEF Inv
<1>4. QueueTypeOK'
  <2>1. /\ stage' \in {"free", "pass"} /\ owner' = NoCaller
        /\ ticked' = FALSE /\ left' = IF closed THEN 0 ELSE Len(waiters)
    BY <1>1 DEF Dispatch, callQueue
  <2>2. left' \in Nat
    BY <2>1, LenProperties DEF Inv, TypeOK, QueueTypeOK
  <2>. QED  BY <1>1, <2>1, <2>2 DEF Inv, TypeOK, QueueTypeOK, callQueue
<1>5. LockAndChannels'
  BY <1>1 DEF Inv, LockAndChannels, Dispatch, callQueue
<1>6. NoReuseOfAttempted'
  BY <1>1 DEF Inv, NoReuseOfAttempted
<1>. QED  BY <1>2, <1>3, <1>4, <1>5, <1>6 DEF Inv, TypeOK

\* A step that changes nothing.
LEMMA StutterInv ==
  ASSUME Inv, UNCHANGED vars
  PROVE  Inv'
<1>1. UNCHANGED <<keys, key, off, order, cursor, closed, stage, left, owner, pc, req,
                  cancelled, result, lease, waiters, arrivals, ticked, changes>>
  BY DEF vars, poolVars, lockVars, callVars
<1>2. SlotsMatchLeases' /\ LiveKeysPooled'
  BY <1>1, SlotsFrame DEF Inv
<1>3. AnsweredOnce' /\ NoLeaseLeaked'
  BY <1>1, ChannelFrame DEF Inv, callQueue
<1>4. Rotated' /\ LockAndChannels' /\ NoReuseOfAttempted'
  BY <1>1 DEF Inv, Rotated, LockAndChannels, NoReuseOfAttempted
<1>5. TypeOK'
  BY <1>1 DEF Inv, TypeOK, PoolTypeOK, QueueTypeOK
<1>. QED  BY <1>2, <1>3, <1>4, <1>5 DEF Inv

----------------------------------------------------------------------------
(* The dispatch loop.                                                      *)

\* A grant keeps everything that is about keys and leases.
LEMMA GrantInv ==
  ASSUME TypeOK, SlotsMatchLeases, LiveKeysPooled, NoReuseOfAttempted,
         NEW c \in Callers, NEW relaxed \in BOOLEAN,
         lease[c] = NoLease, Grant(c, req[c], relaxed),
         relaxed => ~req[c].noRelax, req' = req
  PROVE  /\ PoolTypeOK' /\ lease' \in [Callers -> Lease \cup {NoLease}]
         /\ \E l \in Lease : lease' = [lease EXCEPT ![c] = l]
         /\ SlotsMatchLeases' /\ LiveKeysPooled' /\ NoReuseOfAttempted'
<1>. DEFINE q == req[c]
<1>1. q \in Request
  BY DEF TypeOK, QueueTypeOK
<1>2. Grant(c, q, relaxed)
  OBVIOUS
<1>. HIDE DEF q
<1>3. PICK k \in Eligible(q, relaxed) :
        lease' = [lease EXCEPT ![c] = [key |-> k, stream |-> q.stream, live |-> TRUE]]
  BY <1>1, <1>2, GrantEffect
<1>4. /\ key' \in [Keys -> KeyState] /\ cursor' \in Nat
      /\ lease' \in [Callers -> Lease \cup {NoLease}]
      /\ UNCHANGED <<keys, off, order, closed>>
  BY <1>1, <1>2, GrantType, GrantEffect
<1>5. SlotsMatchLeases' /\ LiveKeysPooled'
  BY <1>1, <1>2, GrantSlots
<1>6. k \in keys /\ (relaxed \/ k \notin q.attempted)
  BY <1>1, EligibleHasRoom
<1>7. [key |-> k, stream |-> q.stream, live |-> TRUE] \in Lease
  <2>1. k \in Keys /\ q.stream \in BOOLEAN
    BY <1>1, <1>6 DEF Request, TypeOK, PoolTypeOK
  <2>. QED  BY <2>1 DEF Lease
<1>8. NoReuseOfAttempted'
  <2>1. SUFFICES ASSUME NEW d \in Callers, lease'[d] # NoLease, req'[d].noRelax
                 PROVE  lease'[d].key \notin req'[d].attempted
    BY DEF NoReuseOfAttempted
  <2>2. CASE d = c
    <3>1. lease'[d].key = k /\ ~relaxed
      BY <1>3, <2>1, <2>2 DEF TypeOK, QueueTypeOK
    <3>. QED  BY <1>6, <2>2, <3>1 DEF q
  <2>3. CASE d # c
    <3>1. lease'[d] = lease[d]
      BY <1>3, <2>3 DEF TypeOK, QueueTypeOK
    <3>. QED  BY <2>1, <3>1 DEF NoReuseOfAttempted
  <2>. QED  BY <2>2, <2>3
<1>9. PoolTypeOK'
  BY <1>4 DEF TypeOK, PoolTypeOK
<1>. QED  BY <1>3, <1>4, <1>5, <1>7, <1>8, <1>9

\* Answering the front waiter, with a lease or an error, keeps the invariant.
LEMMA DeliverInv ==
  ASSUME Inv, waiters # << >>, stage \in {"entry", "pass"},
         NEW answer \in Answers, Deliver(Head(waiters), answer),
         left' = IF left > 0 THEN left - 1 ELSE 0,
         UNCHANGED <<pc, req, cancelled, ticked, changes>>,
         \/ left > 0 /\ stage' = stage /\ owner' = owner
         \/ /\ left = 0
            /\ stage' = (IF stage = "entry" THEN "try" ELSE "free")
            /\ owner' = (IF stage = "entry" THEN owner ELSE NoCaller),
         \/ answer # "lease" /\ UNCHANGED <<poolVars, lease>>
         \/ /\ answer = "lease"
            /\ \E relaxed \in BOOLEAN :
                 /\ Grant(Head(waiters), req[Head(waiters)], relaxed)
                 /\ relaxed => ~req[Head(waiters)].noRelax
  PROVE  Inv'
<1>. DEFINE w == Head(waiters)
<1>1. /\ TypeOK /\ SlotsMatchLeases /\ NoLeaseLeaked /\ AnsweredOnce
      /\ Rotated /\ LockAndChannels /\ LiveKeysPooled /\ NoReuseOfAttempted
  BY DEF Inv
<1>2. /\ w \in Callers /\ w \in ToSet(waiters)
      /\ lease[w] = NoLease /\ req[w] \in Request
  <2>1. w \in Callers /\ w \in ToSet(waiters)
    BY <1>1, TailProperties DEF TypeOK, QueueTypeOK, AnsweredOnce
  <2>. QED  BY <1>1, <2>1 DEF AnsweredOnce, NoLeaseLeaked, TypeOK, QueueTypeOK
<1>3. /\ lease' \in [Callers -> Lease \cup {NoLease}]
      /\ IF answer = "lease" THEN \E l \in Lease : lease' = [lease EXCEPT ![w] = l]
                             ELSE lease' = lease
      /\ PoolTypeOK' /\ SlotsMatchLeases' /\ LiveKeysPooled' /\ NoReuseOfAttempted'
  <2>1. CASE answer # "lease"
    <3>1. UNCHANGED <<keys, key, off, order, cursor, closed, lease, req>>
      BY <2>1 DEF poolVars
    <3>2. SlotsMatchLeases' /\ LiveKeysPooled'
      BY <1>1, <3>1, SlotsFrame
    <3>. QED  BY <1>1, <2>1, <3>1, <3>2
              DEF TypeOK, PoolTypeOK, QueueTypeOK, NoReuseOfAttempted
  <2>2. CASE answer = "lease"
    <3>1. PICK relaxed \in BOOLEAN : Grant(w, req[w], relaxed)
                                     /\ (relaxed => ~req[w].noRelax)
      BY <2>2
    <3>. HIDE DEF w
    <3>2. /\ PoolTypeOK' /\ lease' \in [Callers -> Lease \cup {NoLease}]
          /\ \E l \in Lease : lease' = [lease EXCEPT ![w] = l]
          /\ SlotsMatchLeases' /\ LiveKeysPooled' /\ NoReuseOfAttempted'
      BY <1>1, <1>2, <3>1, GrantInv
    <3>. QED  BY <2>2, <3>2
  <2>. QED  BY <2>1, <2>2
<1>4. /\ waiters' \in Seq(Callers) /\ Len(waiters') <= Capacity
      /\ arrivals' \in Seq(Callers) /\ left' \in Nat
      /\ result' \in [Callers -> Answers \cup {"none"}]
      /\ AnsweredOnce' /\ NoLeaseLeaked'
      /\ Len(arrivals') = Len(waiters') /\ left' <= Len(waiters')
      /\ \A i \in DOMAIN waiters' :
           waiters'[i] = arrivals'[Place(i, left', Len(waiters'))]
      /\ \A c \in Callers : result'[c] # "none" =>
           result[c] # "none" \/ pc[c] \in {"waiting", "abandoning"}
  BY <1>1, <1>3, DeliverQueue
<1>5. Rotated'
  BY <1>4 DEF Rotated
<1>6. QueueTypeOK'
  BY <1>1, <1>3, <1>4 DEF TypeOK, QueueTypeOK
<1>7. LockAndChannels'
  BY <1>1, <1>4 DEF LockAndChannels
<1>. QED  BY <1>3, <1>4, <1>5, <1>6, <1>7 DEF Inv, TypeOK

\* Every iteration of the loop, and its relaxed end, keeps the invariant.
LEMMA DispatchInv ==
  ASSUME Inv, DispatchStep
  PROVE  Inv'
<1>1. /\ TypeOK /\ SlotsMatchLeases /\ NoLeaseLeaked /\ AnsweredOnce
      /\ Rotated /\ LockAndChannels /\ LiveKeysPooled /\ NoReuseOfAttempted
  BY DEF Inv
<1>2. /\ left \in Nat /\ "lease" \in Answers /\ "cancelled" \in Answers
      /\ \A q, r : Unavailable(q, r) \in Answers \ {"lease"}
  BY <1>1 DEF TypeOK, QueueTypeOK, Answers, Unavailable
<1>3. CASE PassCancelled
  BY <1>2, <1>3, DeliverInv DEF PassCancelled, InPass
<1>4. CASE PassServe
  <2>1. /\ InPass /\ Deliver(Head(waiters), "lease")
        /\ Grant(Head(waiters), req[Head(waiters)], FALSE)
    BY <1>4 DEF PassServe
  <2>2. \E relaxed \in BOOLEAN :
          /\ Grant(Head(waiters), req[Head(waiters)], relaxed)
          /\ relaxed => ~req[Head(waiters)].noRelax
    BY <2>1
  <2>. QED  BY <1>2, <2>1, <2>2, DeliverInv DEF InPass
<1>5. CASE PassFail
  <2>. DEFINE answer == Unavailable(req[Head(waiters)], FALSE)
  <2>1. /\ InPass /\ Deliver(Head(waiters), answer) /\ UNCHANGED <<poolVars, lease>>
    BY <1>5 DEF PassFail
  <2>2. answer \in Answers /\ answer # "lease"
    BY <1>2
  <2>. HIDE DEF answer
  <2>. QED  BY <1>2, <2>1, <2>2, DeliverInv DEF InPass
<1>6. CASE RelaxServe
  <2>1. /\ PassEnds /\ waiters # << >> /\ Deliver(Head(waiters), "lease")
        /\ Grant(Head(waiters), req[Head(waiters)], TRUE)
        /\ ~req[Head(waiters)].noRelax
    BY <1>6 DEF RelaxServe, MayRelax
  <2>2. \E relaxed \in BOOLEAN :
          /\ Grant(Head(waiters), req[Head(waiters)], relaxed)
          /\ relaxed => ~req[Head(waiters)].noRelax
    BY <2>1
  <2>3. left = 0 /\ left' = IF left > 0 THEN left - 1 ELSE 0
    BY <1>2, <2>1 DEF PassEnds
  <2>. QED  BY <1>2, <2>1, <2>2, <2>3, DeliverInv DEF PassEnds
<1>7. CASE RelaxFail
  <2>. DEFINE answer == Unavailable(req[Head(waiters)], TRUE)
  <2>1. /\ PassEnds /\ waiters # << >> /\ Deliver(Head(waiters), answer)
        /\ UNCHANGED <<poolVars, lease>>
    BY <1>7 DEF RelaxFail, MayRelax
  <2>2. answer \in Answers /\ answer # "lease"
    BY <1>2
  <2>. HIDE DEF answer
  <2>3. left = 0 /\ left' = IF left > 0 THEN left - 1 ELSE 0
    BY <1>2, <2>1 DEF PassEnds
  <2>. QED  BY <1>2, <2>1, <2>2, <2>3, DeliverInv DEF PassEnds
<1>8. CASE PassRotate
  <2>. DEFINE n == Len(waiters)
  <2>1. /\ waiters # << >> /\ left > 0 /\ left' = left - 1
        /\ waiters' = Append(Tail(waiters), Head(waiters))
        /\ UNCHANGED <<keys, key, off, order, cursor, closed, stage, owner, pc,
                       req, cancelled, ticked, changes, result, lease, arrivals>>
    BY <1>8 DEF PassRotate, InPass, poolVars
  <2>2. waiters \in Seq(Callers) /\ Distinct(waiters) /\ Len(waiters) \in Nat
    BY <1>1, LenProperties DEF TypeOK, QueueTypeOK, AnsweredOnce
  <2>3. /\ waiters' \in Seq(Callers) /\ Len(waiters') = n
        /\ \A i \in 1..(n - 1) : waiters'[i] = waiters[i + 1]
        /\ waiters'[n] = waiters[1]
        /\ ToSet(waiters)' = ToSet(waiters) /\ Distinct(waiters)'
    <3>1. LET r == Append(Tail(waiters), Head(waiters)) IN
          /\ r \in Seq(Callers) /\ Len(r) = n
          /\ \A i \in 1..(n - 1) : r[i] = waiters[i + 1]
          /\ r[n] = waiters[1]
          /\ ToSet(r) = ToSet(waiters) /\ Distinct(r)
      BY <2>1, <2>2, RotateProperties
    <3>2. ToSet(waiters)' = ToSet(waiters')
      BY DEF ToSet
    <3>3. Distinct(waiters)' <=> Distinct(waiters')
      BY DEF Distinct
    <3>. QED  BY <2>1, <3>1, <3>2, <3>3
  <2>4. AnsweredOnce' /\ NoLeaseLeaked'
    BY <1>1, <2>1, <2>3 DEF AnsweredOnce, NoLeaseLeaked
  <2>5. Rotated'
    <3>1. /\ n \in Nat /\ left \in Nat /\ left <= n /\ Len(arrivals) = n
          /\ DOMAIN waiters = 1..n /\ DOMAIN waiters' = 1..n
          /\ stage' \in {"entry", "pass"}
      BY <1>1, <1>8, <2>1, <2>2, <2>3, LenProperties
         DEF TypeOK, QueueTypeOK, Rotated, PassRotate, InPass
    <3>2. \A i \in 1..n : waiters[i] = arrivals[Place(i, left, n)]
      BY <1>1, <3>1 DEF Rotated
    <3>. HIDE DEF n
    <3>3. ASSUME NEW i \in 1..n
          PROVE  waiters'[i] = arrivals[Place(i, left - 1, n)]
      <4>1. CASE i = n
        <5>1. Place(1, left, n) = Place(n, left - 1, n) /\ 1 \in 1..n
          BY <2>1, <3>1, <4>1 DEF Place
        <5>. QED  BY <2>3, <3>2, <4>1, <5>1
      <4>2. CASE i # n
        <5>1. /\ Place(i + 1, left, n) = Place(i, left - 1, n)
              /\ i + 1 \in 1..n /\ i \in 1..(n - 1)
          BY <2>1, <3>1, <4>2 DEF Place
        <5>. QED  BY <2>3, <3>2, <5>1
      <4>. QED  BY <4>1, <4>2
    <3>. QED  BY <2>1, <2>3, <3>1, <3>3 DEF Rotated
  <2>6. SlotsMatchLeases' /\ LiveKeysPooled'
    BY <1>1, <2>1, SlotsFrame
  <2>7. PoolTypeOK' /\ LockAndChannels' /\ NoReuseOfAttempted'
    BY <1>1, <2>1 DEF TypeOK, PoolTypeOK, LockAndChannels, NoReuseOfAttempted
  <2>8. QueueTypeOK'
    BY <1>1, <2>1, <2>3 DEF TypeOK, QueueTypeOK
  <2>. QED  BY <2>4, <2>5, <2>6, <2>7, <2>8 DEF Inv, TypeOK
<1>9. CASE NoRelax
  <2>1. /\ left = 0 /\ left' = 0 /\ stage \in {"entry", "pass"}
        /\ stage' = (IF stage = "entry" THEN "try" ELSE "free")
        /\ owner' = (IF stage = "entry" THEN owner ELSE NoCaller)
        /\ UNCHANGED <<keys, key, off, order, cursor, closed, pc, waiters,
                       req, cancelled, ticked, changes, result, lease, arrivals>>
    BY <1>9 DEF NoRelax, PassEnds, poolVars
  <2>2. AnsweredOnce' /\ NoLeaseLeaked'
    BY <1>1, <2>1, ChannelFrame DEF callQueue
  <2>3. SlotsMatchLeases' /\ LiveKeysPooled'
    BY <1>1, <2>1, SlotsFrame
  <2>4. Rotated'
    BY <1>1, <2>1 DEF Rotated
  <2>5. LockAndChannels'
    BY <1>1, <2>1 DEF LockAndChannels
  <2>6. PoolTypeOK' /\ QueueTypeOK' /\ NoReuseOfAttempted'
    BY <1>1, <2>1 DEF TypeOK, PoolTypeOK, QueueTypeOK, NoReuseOfAttempted
  <2>. QED  BY <2>2, <2>3, <2>4, <2>5, <2>6 DEF Inv, TypeOK
<1>. QED  BY <1>3, <1>4, <1>5, <1>6, <1>7, <1>8, <1>9 DEF DispatchStep

----------------------------------------------------------------------------
(* The callers.                                                            *)

\* A step of one caller that leaves the pool, the leases and the queue alone.
LEMMA QueueFrame ==
  ASSUME Rotated, UNCHANGED <<waiters, arrivals, left>>, stage' \in {"free", "try"} => left = 0
  PROVE  Rotated'
  BY DEF Rotated

\* Entering Acquire, with the queue in arrival order, starts a pass.
LEMMA AcquireEnterInv ==
  ASSUME Inv, NEW c \in Callers, AcquireEnter(c)
  PROVE  Inv'
<1>1. /\ TypeOK /\ SlotsMatchLeases /\ NoLeaseLeaked /\ AnsweredOnce
      /\ Rotated /\ LockAndChannels /\ LiveKeysPooled /\ NoReuseOfAttempted
  BY DEF Inv
<1>2. PICK q \in Requests : req' = [req EXCEPT ![c] = q]
  BY DEF AcquireEnter
<1>3. /\ stage = "free" /\ pc[c] = "idle"
      /\ pc' = [pc EXCEPT ![c] = "acquiring"]
      /\ cancelled' = [cancelled EXCEPT ![c] = FALSE]
      /\ stage' = "entry" /\ left' = Len(waiters) /\ owner' = c /\ ticked' = FALSE
      /\ UNCHANGED <<keys, key, off, order, cursor, closed, result, lease,
                     waiters, arrivals, changes>>
  BY DEF AcquireEnter, poolVars
<1>4. q \in Request /\ Len(waiters) \in Nat /\ waiters \in Seq(Callers)
  BY <1>1, RequestsAssumption, LenProperties DEF TypeOK, QueueTypeOK
<1>5. lease[c] = NoLease /\ result[c] = "none"
  BY <1>1, <1>3 DEF NoLeaseLeaked, LockAndChannels
<1>6. TypeOK'
  BY <1>1, <1>2, <1>3, <1>4 DEF TypeOK, PoolTypeOK, QueueTypeOK
<1>7. SlotsMatchLeases' /\ LiveKeysPooled'
  BY <1>1, <1>3, SlotsFrame
<1>8. NoLeaseLeaked'
  BY <1>1, <1>3, <1>5 DEF NoLeaseLeaked, TypeOK, QueueTypeOK
<1>9. AnsweredOnce'
  BY <1>1, <1>3, <1>5 DEF AnsweredOnce, Distinct, ToSet, TypeOK, QueueTypeOK
<1>10. Rotated'
  <2>1. left = 0 /\ Len(arrivals) = Len(waiters) /\ DOMAIN waiters = 1..Len(waiters)
    BY <1>1, <1>3, <1>4, LenProperties DEF Rotated
  <2>2. \A i \in 1..Len(waiters) : /\ Place(i, 0, Len(waiters)) = i
                                   /\ Place(i, Len(waiters), Len(waiters)) = i
    BY <1>4 DEF Place
  <2>3. \A i \in 1..Len(waiters) : waiters[i] = arrivals[i]
    BY <1>1, <2>1, <2>2 DEF Rotated
  <2>. QED  BY <1>3, <1>4, <2>1, <2>2, <2>3 DEF Rotated
<1>11. LockAndChannels'
  BY <1>1, <1>3, <1>5, CallersAssumption DEF LockAndChannels, TypeOK, QueueTypeOK
<1>12. NoReuseOfAttempted'
  BY <1>1, <1>2, <1>3, <1>5 DEF NoReuseOfAttempted, TypeOK, QueueTypeOK
<1>. QED  BY <1>6, <1>7, <1>8, <1>9, <1>10, <1>11, <1>12 DEF Inv

\* The caller that holds the lock gets a lease, an error or a place at the back.
LEMMA TryInv ==
  ASSUME Inv, NEW c \in Callers, TryStep(c)
  PROVE  Inv'
<1>1. /\ TypeOK /\ SlotsMatchLeases /\ NoLeaseLeaked /\ AnsweredOnce
      /\ Rotated /\ LockAndChannels /\ LiveKeysPooled /\ NoReuseOfAttempted
  BY DEF Inv
<1>2. stage = "try" /\ owner = c
  BY DEF TryStep, AcquireNow, AcquireRefused, AcquireEnqueue
<1>3. /\ pc[c] = "acquiring" /\ result[c] = "none" /\ lease[c] = NoLease
      /\ c \notin ToSet(waiters) /\ left = 0
      /\ \A d \in Callers : d # c => pc[d] # "acquiring"
  BY <1>1, <1>2 DEF LockAndChannels, NoLeaseLeaked, AnsweredOnce, Rotated
<1>4. CASE AcquireNow(c)
  <2>1. /\ Grant(c, req[c], FALSE) /\ waiters' = waiters /\ arrivals' = arrivals
        /\ stage' = "free" /\ owner' = NoCaller
        /\ pc' = [pc EXCEPT ![c] = "holding"]
        /\ UNCHANGED <<left, req, cancelled, result, ticked, changes>>
    BY <1>4 DEF AcquireNow, Unlock
  <2>2. /\ PoolTypeOK' /\ lease' \in [Callers -> Lease \cup {NoLease}]
        /\ \E l \in Lease : lease' = [lease EXCEPT ![c] = l]
        /\ SlotsMatchLeases' /\ LiveKeysPooled' /\ NoReuseOfAttempted'
    BY <1>1, <1>3, <2>1, GrantInv
  <2>3. QueueTypeOK'
    BY <1>1, <2>1, <2>2 DEF TypeOK, QueueTypeOK
  <2>4. NoLeaseLeaked'
    <3>1. lease'[c] # NoLease /\ \A d \in Callers : d # c => lease'[d] = lease[d]
      BY <1>1, <2>2, NoLeaseAssumption DEF TypeOK, QueueTypeOK
    <3>. QED  BY <1>1, <2>1, <3>1 DEF NoLeaseLeaked, TypeOK, QueueTypeOK
  <2>5. AnsweredOnce'
    BY <1>1, <1>3, <2>1 DEF AnsweredOnce, Distinct, ToSet, TypeOK, QueueTypeOK
  <2>6. Rotated'
    BY <1>1, <1>3, <2>1, QueueFrame
  <2>7. LockAndChannels'
    BY <1>1, <1>2, <1>3, <2>1 DEF LockAndChannels, TypeOK, QueueTypeOK
  <2>. QED  BY <2>2, <2>3, <2>4, <2>5, <2>6, <2>7 DEF Inv, TypeOK
<1>5. CASE AcquireRefused(c)
  <2>1. /\ stage' = "free" /\ owner' = NoCaller
        /\ pc' = [pc EXCEPT ![c] = "idle"]
        /\ UNCHANGED <<keys, key, off, order, cursor, closed, left, req, cancelled,
                       result, lease, waiters, arrivals, ticked, changes>>
    BY <1>5 DEF AcquireRefused, Unlock, poolVars
  <2>2. TypeOK'
    BY <1>1, <2>1 DEF TypeOK, PoolTypeOK, QueueTypeOK
  <2>3. SlotsMatchLeases' /\ LiveKeysPooled' /\ NoReuseOfAttempted'
    BY <1>1, <2>1, SlotsFrame DEF NoReuseOfAttempted
  <2>4. NoLeaseLeaked'
    BY <1>1, <1>3, <2>1 DEF NoLeaseLeaked, TypeOK, QueueTypeOK
  <2>5. AnsweredOnce'
    BY <1>1, <1>3, <2>1 DEF AnsweredOnce, Distinct, ToSet, TypeOK, QueueTypeOK
  <2>6. Rotated'
    BY <1>1, <1>3, <2>1, QueueFrame
  <2>7. LockAndChannels'
    BY <1>1, <1>2, <1>3, <2>1 DEF LockAndChannels, TypeOK, QueueTypeOK
  <2>. QED  BY <2>2, <2>3, <2>4, <2>5, <2>6, <2>7 DEF Inv
<1>6. CASE AcquireEnqueue(c)
  <2>1. /\ ~MustRefuse(req[c])
        /\ waiters' = Append(waiters, c) /\ arrivals' = Append(arrivals, c)
        /\ pc' = [pc EXCEPT ![c] = "waiting"]
        /\ stage' = "pass" /\ left' = Len(waiters) + 1 /\ ticked' = FALSE
        /\ UNCHANGED <<keys, key, off, order, cursor, closed, owner, req, cancelled,
                       result, lease, changes>>
    BY <1>6 DEF AcquireEnqueue, poolVars
  <2>2. /\ Distinct(arrivals) /\ ToSet(arrivals) = ToSet(waiters) /\ Distinct(waiters)
        /\ waiters \in Seq(Callers) /\ arrivals \in Seq(Callers)
        /\ Len(waiters) \in Nat /\ Len(arrivals) = Len(waiters)
    BY <1>1, ArrivalsMatch, LenProperties DEF TypeOK, QueueTypeOK, AnsweredOnce, Rotated
  <2>3. Len(waiters) < Capacity
    <3>1. ~(Len(waiters) >= Capacity)
      BY <2>1, Zenon DEF MustRefuse
    <3>. QED  BY <2>2, <3>1, BoundsAssumption
  <2>4. /\ waiters' \in Seq(Callers) /\ Len(waiters') = Len(waiters) + 1
        /\ \A i \in 1..Len(waiters) : waiters'[i] = waiters[i]
        /\ waiters'[Len(waiters) + 1] = c
        /\ ToSet(waiters') = ToSet(waiters) \cup {c} /\ Distinct(waiters')
    BY <1>3, <2>1, <2>2, PushProperties
  <2>5. /\ arrivals' \in Seq(Callers) /\ Len(arrivals') = Len(waiters) + 1
        /\ \A i \in 1..Len(waiters) : arrivals'[i] = arrivals[i]
        /\ arrivals'[Len(waiters) + 1] = c
    <3>1. /\ Append(arrivals, c) \in Seq(Callers)
          /\ Len(Append(arrivals, c)) = Len(arrivals) + 1
          /\ \A i \in 1..Len(arrivals) : Append(arrivals, c)[i] = arrivals[i]
          /\ Append(arrivals, c)[Len(arrivals) + 1] = c
      BY <1>3, <2>2, PushProperties
    <3>. QED  BY <2>1, <2>2, <3>1
  <2>6. TypeOK'
    <3>1. Len(waiters') <= Capacity /\ left' \in Nat
      BY <2>1, <2>2, <2>3, <2>4, BoundsAssumption
    <3>. QED  BY <1>1, <2>1, <2>4, <2>5, <3>1 DEF TypeOK, PoolTypeOK, QueueTypeOK
  <2>7. SlotsMatchLeases' /\ LiveKeysPooled' /\ NoReuseOfAttempted'
    BY <1>1, <2>1, SlotsFrame DEF NoReuseOfAttempted
  <2>8. NoLeaseLeaked'
    BY <1>1, <1>3, <2>1 DEF NoLeaseLeaked, TypeOK, QueueTypeOK
  <2>9. AnsweredOnce'
    <3>1. ToSet(waiters)' = ToSet(waiters) \cup {c} /\ Distinct(waiters)'
      BY <2>4 DEF ToSet, Distinct
    <3>. QED  BY <1>1, <1>3, <2>1, <3>1 DEF AnsweredOnce, TypeOK, QueueTypeOK
  <2>10. Rotated'
    <3>. DEFINE n == Len(waiters)
    <3>1. DOMAIN waiters = 1..n /\ DOMAIN waiters' = 1..(n + 1) /\ n \in Nat
      BY <2>2, <2>4, LenProperties
    <3>2. \A i \in 1..n : waiters[i] = arrivals[i]
      BY <1>1, <1>3, <3>1 DEF Rotated, Place
    <3>. HIDE DEF n
    <3>3. \A i \in 1..(n + 1) : waiters'[i] = arrivals'[i]
      BY <2>4, <2>5, <3>1, <3>2 DEF n
    <3>4. \A i \in 1..(n + 1) : Place(i, n + 1, n + 1) = i
      BY <3>1 DEF Place
    <3>. QED  BY <2>1, <2>4, <2>5, <3>1, <3>3, <3>4 DEF Rotated, n
  <2>11. LockAndChannels'
    BY <1>1, <1>2, <1>3, <2>1 DEF LockAndChannels, TypeOK, QueueTypeOK
  <2>. QED  BY <2>6, <2>7, <2>8, <2>9, <2>10, <2>11 DEF Inv
<1>. QED  BY <1>4, <1>5, <1>6 DEF TryStep

\* A caller takes its answer, gives up, finds it was answered or is cancelled.
LEMMA ChannelInv ==
  ASSUME Inv, NEW c \in Callers,
         Receive(c) \/ GiveUp(c) \/ AbandonAnswered(c) \/ Drain(c) \/ Cancel(c)
  PROVE  Inv'
<1>1. /\ TypeOK /\ SlotsMatchLeases /\ NoLeaseLeaked /\ AnsweredOnce
      /\ Rotated /\ LockAndChannels /\ LiveKeysPooled /\ NoReuseOfAttempted
  BY DEF Inv
<1>2. UNCHANGED <<keys, key, off, order, cursor, closed, stage, left, owner, req,
                  lease, waiters, arrivals, ticked, changes>>
  BY DEF Receive, GiveUp, AbandonAnswered, Drain, Cancel, poolVars, lockVars
<1>3. SlotsMatchLeases' /\ LiveKeysPooled' /\ NoReuseOfAttempted'
  BY <1>1, <1>2, SlotsFrame DEF NoReuseOfAttempted
<1>4. Rotated'
  BY <1>1, <1>2 DEF Rotated
<1>5. PoolTypeOK'
  BY <1>1, <1>2 DEF TypeOK, PoolTypeOK
<1>6. ToSet(waiters)' = ToSet(waiters) /\ Distinct(waiters)' = Distinct(waiters)
  BY <1>2 DEF ToSet, Distinct
<1>7. CASE Receive(c)
  <2>1. /\ pc[c] = "waiting" /\ owner # c /\ result[c] # "none"
        /\ pc' = [pc EXCEPT ![c] = IF result[c] = "lease" THEN "holding" ELSE "idle"]
        /\ result' = [result EXCEPT ![c] = "none"] /\ cancelled' = cancelled
    BY <1>7 DEF Receive
  <2>2. QueueTypeOK'
    BY <1>1, <1>2, <2>1 DEF TypeOK, QueueTypeOK
  <2>3. NoLeaseLeaked' /\ AnsweredOnce'
    BY <1>1, <1>2, <1>6, <2>1 DEF NoLeaseLeaked, AnsweredOnce, TypeOK, QueueTypeOK
  <2>4. LockAndChannels'
    BY <1>1, <1>2, <2>1 DEF LockAndChannels, TypeOK, QueueTypeOK
  <2>. QED  BY <1>3, <1>4, <1>5, <2>2, <2>3, <2>4 DEF Inv, TypeOK
<1>8. CASE GiveUp(c)
  <2>1. /\ pc[c] = "waiting" /\ pc' = [pc EXCEPT ![c] = "abandoning"]
        /\ result' = result /\ cancelled' = cancelled
    BY <1>8 DEF GiveUp
  <2>2. QueueTypeOK'
    BY <1>1, <1>2, <2>1 DEF TypeOK, QueueTypeOK
  <2>3. NoLeaseLeaked' /\ AnsweredOnce'
    BY <1>1, <1>2, <1>6, <2>1 DEF NoLeaseLeaked, AnsweredOnce, TypeOK, QueueTypeOK
  <2>4. LockAndChannels'
    BY <1>1, <1>2, <2>1 DEF LockAndChannels, TypeOK, QueueTypeOK
  <2>. QED  BY <1>3, <1>4, <1>5, <2>2, <2>3, <2>4 DEF Inv, TypeOK
<1>9. CASE AbandonAnswered(c)
  <2>1. /\ pc[c] = "abandoning" /\ pc' = [pc EXCEPT ![c] = "draining"]
        /\ c \notin ToSet(waiters) /\ result' = result /\ cancelled' = cancelled
    BY <1>9 DEF AbandonAnswered
  <2>2. QueueTypeOK'
    BY <1>1, <1>2, <2>1 DEF TypeOK, QueueTypeOK
  <2>3. NoLeaseLeaked' /\ AnsweredOnce'
    BY <1>1, <1>2, <1>6, <2>1 DEF NoLeaseLeaked, AnsweredOnce, TypeOK, QueueTypeOK
  <2>4. LockAndChannels'
    BY <1>1, <1>2, <2>1 DEF LockAndChannels, TypeOK, QueueTypeOK
  <2>. QED  BY <1>3, <1>4, <1>5, <2>2, <2>3, <2>4 DEF Inv, TypeOK
<1>10. CASE Drain(c)
  <2>1. /\ pc[c] = "draining" /\ result[c] # "none"
        /\ pc' = [pc EXCEPT ![c] = IF result[c] = "lease" THEN "releasing" ELSE "idle"]
        /\ result' = [result EXCEPT ![c] = "none"] /\ cancelled' = cancelled
    BY <1>10 DEF Drain
  <2>2. QueueTypeOK'
    BY <1>1, <1>2, <2>1 DEF TypeOK, QueueTypeOK
  <2>3. NoLeaseLeaked' /\ AnsweredOnce'
    BY <1>1, <1>2, <1>6, <2>1 DEF NoLeaseLeaked, AnsweredOnce, TypeOK, QueueTypeOK
  <2>4. LockAndChannels'
    BY <1>1, <1>2, <2>1 DEF LockAndChannels, TypeOK, QueueTypeOK
  <2>. QED  BY <1>3, <1>4, <1>5, <2>2, <2>3, <2>4 DEF Inv, TypeOK
<1>11. CASE Cancel(c)
  <2>1. /\ cancelled' = [cancelled EXCEPT ![c] = TRUE] /\ UNCHANGED <<pc, result>>
    BY <1>11 DEF Cancel
  <2>2. QueueTypeOK'
    BY <1>1, <1>2, <2>1 DEF TypeOK, QueueTypeOK
  <2>3. NoLeaseLeaked' /\ AnsweredOnce'
    BY <1>1, <1>2, <1>6, <2>1 DEF NoLeaseLeaked, AnsweredOnce
  <2>4. LockAndChannels'
    BY <1>1, <1>2, <2>1 DEF LockAndChannels
  <2>. QED  BY <1>3, <1>4, <1>5, <2>2, <2>3, <2>4 DEF Inv, TypeOK
<1>. QED  BY <1>7, <1>8, <1>9, <1>10, <1>11

\* A waiter that gave up leaves the queue, wherever it stands.
LEMMA AbandonQueuedInv ==
  ASSUME Inv, NEW c \in Callers, AbandonQueued(c)
  PROVE  Inv'
<1>. DEFINE n == Len(waiters)
<1>1. /\ TypeOK /\ SlotsMatchLeases /\ NoLeaseLeaked /\ AnsweredOnce
      /\ Rotated /\ LockAndChannels /\ LiveKeysPooled /\ NoReuseOfAttempted
  BY DEF Inv
<1>2. /\ stage = "free" /\ pc[c] = "abandoning" /\ c \in ToSet(waiters) /\ Dispatch
      /\ waiters' = Drop(waiters, c) /\ arrivals' = Drop(arrivals, c)
      /\ pc' = [pc EXCEPT ![c] = "idle"]
      /\ UNCHANGED <<keys, key, off, order, cursor, closed, req, cancelled,
                     result, lease, changes>>
  BY DEF AbandonQueued, poolVars
<1>3. /\ waiters \in Seq(Callers) /\ arrivals \in Seq(Callers)
      /\ Distinct(waiters) /\ Distinct(arrivals)
      /\ n \in Nat /\ Len(arrivals) = n /\ DOMAIN waiters = 1..n /\ DOMAIN arrivals = 1..n
  BY <1>1, ArrivalsMatch, LenProperties DEF TypeOK, QueueTypeOK, AnsweredOnce, Rotated
<1>4. PICK p \in 1..n : waiters[p] = c
  BY <1>2, <1>3 DEF ToSet
<1>5. \A i \in 1..n : waiters[i] = arrivals[i]
  BY <1>1, <1>2, <1>3 DEF Rotated, Place
<1>6. /\ waiters' \in Seq(Callers) /\ Len(waiters') = n - 1
      /\ \A j \in 1..(n - 1) : waiters'[j] = IF j < p THEN waiters[j] ELSE waiters[j + 1]
      /\ ToSet(waiters') = ToSet(waiters) \ {c} /\ Distinct(waiters')
  <2>1. p \in 1..Len(waiters) /\ waiters' = Drop(waiters, waiters[p])
    BY <1>2, <1>4
  <2>2. LET d == Drop(waiters, waiters[p]) IN
        /\ d \in Seq(Callers) /\ Len(d) = Len(waiters) - 1
        /\ \A j \in 1..(Len(waiters) - 1) :
             d[j] = IF j < p THEN waiters[j] ELSE waiters[j + 1]
        /\ ToSet(d) = ToSet(waiters) \ {waiters[p]} /\ Distinct(d)
    BY <1>3, <2>1, DropProperties
  <2>. QED  BY <1>4, <2>1, <2>2
<1>7. /\ arrivals' \in Seq(Callers) /\ Len(arrivals') = n - 1
      /\ \A j \in 1..(n - 1) : arrivals'[j] = IF j < p THEN arrivals[j] ELSE arrivals[j + 1]
  <2>1. p \in 1..Len(arrivals) /\ arrivals' = Drop(arrivals, arrivals[p])
    BY <1>2, <1>3, <1>4, <1>5
  <2>2. LET d == Drop(arrivals, arrivals[p]) IN
        /\ d \in Seq(Callers) /\ Len(d) = Len(arrivals) - 1
        /\ \A j \in 1..(Len(arrivals) - 1) :
             d[j] = IF j < p THEN arrivals[j] ELSE arrivals[j + 1]
    BY <1>3, <2>1, DropProperties
  <2>. QED  BY <1>3, <2>1, <2>2
<1>8. /\ stage' \in {"free", "pass"} /\ owner' = NoCaller /\ ticked' = FALSE
      /\ left' = 0 \/ left' = n - 1
      /\ stage' = "free" => left' = 0
  BY <1>2, <1>6 DEF Dispatch
<1>9. left' \in Nat /\ left' <= n - 1 /\ n - 1 \in Nat
  BY <1>3, <1>4, <1>8
<1>10. TypeOK'
  <2>1. Len(waiters') <= Capacity
    BY <1>1, <1>3, <1>6, BoundsAssumption DEF TypeOK, QueueTypeOK
  <2>. QED  BY <1>1, <1>2, <1>6, <1>7, <1>8, <1>9, <2>1
            DEF TypeOK, PoolTypeOK, QueueTypeOK
<1>11. SlotsMatchLeases' /\ LiveKeysPooled' /\ NoReuseOfAttempted'
  BY <1>1, <1>2, SlotsFrame DEF NoReuseOfAttempted
<1>12. result[c] = "none" /\ lease[c] = NoLease
  BY <1>1, <1>2 DEF AnsweredOnce, NoLeaseLeaked
<1>13. NoLeaseLeaked'
  BY <1>1, <1>2, <1>12 DEF NoLeaseLeaked, TypeOK, QueueTypeOK
<1>14. AnsweredOnce'
  <2>1. ToSet(waiters)' = ToSet(waiters) \ {c} /\ Distinct(waiters)'
    BY <1>6 DEF ToSet, Distinct
  <2>. QED  BY <1>1, <1>2, <1>12, <2>1 DEF AnsweredOnce, TypeOK, QueueTypeOK
<1>15. Rotated'
  <2>1. DOMAIN waiters' = 1..(n - 1)
    BY <1>6, LenProperties
  <2>. HIDE DEF n
  <2>2. \A i \in 1..(n - 1) : waiters'[i] = arrivals'[i]
    <3>1. SUFFICES ASSUME NEW i \in 1..(n - 1) PROVE waiters'[i] = arrivals'[i]
      OBVIOUS
    <3>2. i \in 1..n /\ i + 1 \in 1..n
      BY <1>3, <3>1
    <3>. QED  BY <1>5, <1>6, <1>7, <3>1, <3>2
  <2>3. \A i \in 1..(n - 1) : Place(i, left', n - 1) = i
    BY <1>3, <1>8 DEF Place
  <2>. QED  BY <1>6, <1>7, <1>8, <1>9, <2>1, <2>2, <2>3 DEF Rotated
<1>16. LockAndChannels'
  BY <1>1, <1>2, <1>8, <1>12 DEF LockAndChannels, TypeOK, QueueTypeOK
<1>. QED  BY <1>10, <1>11, <1>13, <1>14, <1>15, <1>16 DEF Inv

\* Releasing gives the slot back and dispatches.
LEMMA ReleaseInv ==
  ASSUME Inv, NEW c \in Callers, Release(c)
  PROVE  Inv'
<1>1. /\ TypeOK /\ SlotsMatchLeases /\ NoLeaseLeaked /\ AnsweredOnce
      /\ Rotated /\ LockAndChannels /\ LiveKeysPooled /\ NoReuseOfAttempted
  BY DEF Inv
<1>2. /\ stage = "free" /\ pc[c] \in {"holding", "releasing"} /\ Dispatch
      /\ key' = (IF ~lease[c].live THEN key
                 ELSE [key EXCEPT ![lease[c].key] =
                        Vacate(key[lease[c].key], lease[c].stream)])
      /\ lease' = [lease EXCEPT ![c] = NoLease]
      /\ pc' = [pc EXCEPT ![c] = "idle"]
      /\ UNCHANGED <<keys, off, order, cursor, closed, req, cancelled, result,
                     waiters, arrivals, changes>>
  BY DEF Release
<1>3. lease[c] # NoLease /\ result[c] = "none"
  BY <1>1, <1>2 DEF NoLeaseLeaked, LockAndChannels
<1>4. SlotsMatchLeases' /\ LiveKeysPooled' /\ key' \in [Keys -> KeyState]
  BY <1>1, <1>2, <1>3, ReleaseSlots
<1>5. Rotated'
  BY <1>1, <1>2, DispatchRotation DEF TypeOK
<1>6. TypeOK'
  <2>1. /\ stage' \in {"free", "pass"} /\ owner' = NoCaller
        /\ ticked' = FALSE /\ left' = IF closed THEN 0 ELSE Len(waiters)
    BY <1>2 DEF Dispatch
  <2>2. left' \in Nat
    BY <1>1, <2>1, LenProperties DEF TypeOK, QueueTypeOK
  <2>. QED  BY <1>1, <1>2, <1>4, <2>1, <2>2 DEF TypeOK, PoolTypeOK, QueueTypeOK
<1>7. NoLeaseLeaked'
  BY <1>1, <1>2, <1>3 DEF NoLeaseLeaked, TypeOK, QueueTypeOK
<1>8. AnsweredOnce'
  BY <1>1, <1>2 DEF AnsweredOnce, Distinct, ToSet, TypeOK, QueueTypeOK
<1>9. LockAndChannels'
  BY <1>1, <1>2, <1>3 DEF LockAndChannels, Dispatch, TypeOK, QueueTypeOK
<1>10. NoReuseOfAttempted'
  BY <1>1, <1>2 DEF NoReuseOfAttempted, TypeOK, QueueTypeOK
<1>. QED  BY <1>4, <1>5, <1>6, <1>7, <1>8, <1>9, <1>10 DEF Inv

\* Every step of a caller keeps the invariant.
LEMMA CallerInv ==
  ASSUME Inv, NEW c \in Callers, CallerStep(c)
  PROVE  Inv'
<1>1. CASE AcquireClosed(c)
  BY <1>1, StutterInv DEF AcquireClosed
<1>. QED  BY <1>1, AcquireEnterInv, TryInv, ChannelInv, AbandonQueuedInv, ReleaseInv
          DEF CallerStep

----------------------------------------------------------------------------
(* Keys, models, the clock and shutdown.                                   *)

\* A StateSync operation that keeps the set of keys, the leases and the slots.
LEMMA KeyFieldsInv ==
  ASSUME Inv, Sync, UNCHANGED <<keys, order, cursor, lease>>,
         off' \subseteq Models, key' \in [Keys -> KeyState],
         \A k \in keys : key'[k].busy = key[k].busy /\ key'[k].streams = key[k].streams
  PROVE  Inv'
<1>1. SlotsMatchLeases' /\ LiveKeysPooled'
  BY SlotsFrame DEF Inv
<1>2. PoolTypeOK'
  BY DEF Inv, TypeOK, PoolTypeOK, Sync
<1>3. lease' \in [Callers -> Lease \cup {NoLease}]
  BY DEF Inv, TypeOK, QueueTypeOK
<1>. QED  BY <1>1, <1>2, <1>3, SyncFrame

\* A new state for one key that leaves its slots alone.
LEMMA OneKeyInv ==
  ASSUME Inv, Sync, NEW k \in Keys, NEW state \in KeyState,
         UNCHANGED <<keys, off, order, cursor, lease>>,
         state.busy = key[k].busy, state.streams = key[k].streams,
         key' = [key EXCEPT ![k] = state] \/ key' = key
  PROVE  Inv'
<1>1. key \in [Keys -> KeyState] /\ keys \subseteq Keys /\ off' \subseteq Models
  BY DEF Inv, TypeOK, PoolTypeOK
<1>2. key' \in [Keys -> KeyState]
  BY <1>1
<1>3. \A j \in keys : key'[j].busy = key[j].busy /\ key'[j].streams = key[j].streams
  BY <1>1
<1>. QED  BY <1>1, <1>2, <1>3, KeyFieldsInv

\* A snapshot or a set of blocks replaced in a key's state.
LEMMA KeyStateFields ==
  ASSUME NEW state \in KeyState, NEW snap \in Snapshot, NEW blocks \in SUBSET Models
  PROVE  /\ state.snapshot \in Snapshot /\ state.blocks \in SUBSET Models
         /\ [state EXCEPT !.snapshot = snap] \in KeyState
         /\ [state EXCEPT !.snapshot = snap].busy = state.busy
         /\ [state EXCEPT !.snapshot = snap].streams = state.streams
         /\ [state EXCEPT !.blocks = blocks] \in KeyState
         /\ [state EXCEPT !.blocks = blocks].busy = state.busy
         /\ [state EXCEPT !.blocks = blocks].streams = state.streams
         /\ [state EXCEPT !.snapshot = snap, !.blocks = blocks] \in KeyState
         /\ [state EXCEPT !.snapshot = snap, !.blocks = blocks].busy = state.busy
         /\ [state EXCEPT !.snapshot = snap, !.blocks = blocks].streams = state.streams
  BY DEF KeyState

\* A key that enters the pool has no lease in it yet.
LEMMA InsertKeyInv ==
  ASSUME Inv, NEW k \in Keys, NEW snap \in Snapshots, UpsertKey(k, snap), k \notin keys
  PROVE  Inv'
<1>1. /\ TypeOK /\ SlotsMatchLeases /\ LiveKeysPooled
  BY DEF Inv
<1>2. /\ Sync /\ keys' = keys \cup {k} /\ key' = [key EXCEPT ![k] = newKeyState(snap)]
      /\ order' = InsertAt(order, SortedPosition(k), k)
      /\ UNCHANGED <<off, lease>>
  BY DEF UpsertKey
<1>3. newKeyState(snap) \in KeyState
  BY SnapshotsAssumption, BoundsAssumption DEF newKeyState, KeyState
<1>4. order' \in Seq(Keys)
  <2>. DEFINE below == {i \in DOMAIN order : order[i] < k}
  <2>1. order \in Seq(Keys) /\ DOMAIN order = 1..Len(order) /\ Len(order) \in Nat
    BY <1>1, LenProperties DEF TypeOK, PoolTypeOK
  <2>2. IsFiniteSet(1..Len(order)) /\ Cardinality(1..Len(order)) = Len(order)
    BY <2>1, FS_Interval
  <2>3. below \subseteq 1..Len(order)
    BY <2>1
  <2>4. Cardinality(below) \in Nat /\ Cardinality(below) <= Len(order)
    BY <2>2, <2>3, FS_Subset, FS_CardinalityType
  <2>5. SortedPosition(k) \in 1..(Len(order) + 1)
    BY <2>1, <2>4 DEF SortedPosition
  <2>. QED  BY <1>2, <2>1, <2>5, InsertAtProperties
<1>5. cursor' \in Nat
  <2>1. CASE order = << >>
    BY <2>1 DEF UpsertKey
  <2>2. CASE order # << >>
    <3>1. PICK i \in DOMAIN order' : cursor' = i - 1
      BY <2>2 DEF UpsertKey
    <3>2. i \in 1..Len(order') /\ Len(order') \in Nat
      BY <1>4, <3>1, LenProperties
    <3>. QED  BY <3>1, <3>2
  <2>. QED  BY <2>1, <2>2
<1>6. PoolTypeOK'
  BY <1>1, <1>2, <1>3, <1>4, <1>5 DEF TypeOK, PoolTypeOK, Sync
<1>7. \A j \in Keys : ShortHolders(j)' = ShortHolders(j) /\ StreamHolders(j)' = StreamHolders(j)
  BY <1>2 DEF ShortHolders, StreamHolders
<1>8. ShortHolders(k) = {} /\ StreamHolders(k) = {}
  BY <1>1 DEF ShortHolders, StreamHolders, LiveKeysPooled
<1>9. SlotsMatchLeases'
  <2>1. SUFFICES ASSUME NEW j \in keys \cup {k}
                 PROVE  /\ key'[j].busy <=> ShortHolders(j)' # {}
                        /\ Cardinality(ShortHolders(j)') <= 1
                        /\ key'[j].streams = Cardinality(StreamHolders(j)')
    BY <1>2 DEF SlotsMatchLeases
  <2>2. CASE j = k
    <3>1. key'[j].busy = FALSE /\ key'[j].streams = 0
      BY <1>1, <1>2, <2>2 DEF newKeyState, TypeOK, PoolTypeOK
    <3>. QED  BY <1>7, <1>8, <2>2, <3>1, FS_EmptySet
  <2>3. CASE j # k
    <3>1. j \in keys /\ j \in Keys /\ key'[j] = key[j]
      BY <1>1, <1>2, <2>3 DEF TypeOK, PoolTypeOK
    <3>. QED  BY <1>1, <1>7, <3>1 DEF SlotsMatchLeases
  <2>. QED  BY <2>2, <2>3
<1>10. LiveKeysPooled'
  BY <1>1, <1>2 DEF LiveKeysPooled
<1>11. lease' \in [Callers -> Lease \cup {NoLease}]
  BY <1>1, <1>2 DEF TypeOK, QueueTypeOK
<1>. QED  BY <1>2, <1>6, <1>9, <1>10, <1>11, SyncFrame

\* A key that leaves the pool takes its leases with it.
LEMMA RemoveKeyInv ==
  ASSUME Inv, NEW k \in Keys, RemoveKey(k), k \in keys
  PROVE  Inv'
<1>1. /\ TypeOK /\ SlotsMatchLeases /\ LiveKeysPooled
  BY DEF Inv
<1>2. /\ Sync /\ keys' = keys \ {k} /\ UNCHANGED <<key, off>>
      /\ lease' = [c \in Callers |-> IF lease[c] # NoLease /\ lease[c].key = k
                                     THEN [lease[c] EXCEPT !.live = FALSE] ELSE lease[c]]
  BY DEF RemoveKey, Orphan
<1>3. order' \in Seq(Keys) /\ cursor' \in Nat
  <2>1. PICK i \in DOMAIN order :
          /\ order' = RemoveAt(order, i)
          /\ \/ cursor' = 0
             \/ cursor' = cursor
             \/ i - 1 < cursor /\ cursor' = cursor - 1
    BY DEF RemoveKey
  <2>2. order \in Seq(Keys) /\ i \in 1..Len(order) /\ cursor \in Nat /\ Len(order) \in Nat
    BY <1>1, <2>1, LenProperties DEF TypeOK, PoolTypeOK
  <2>3. order' \in Seq(Keys)
    BY <2>1, <2>2, RemoveAtProperties
  <2>. QED  BY <2>1, <2>2, <2>3
<1>4. PoolTypeOK'
  BY <1>1, <1>2, <1>3 DEF TypeOK, PoolTypeOK, Sync
<1>5. ASSUME NEW c \in Callers
      PROVE  /\ lease'[c] \in Lease \cup {NoLease}
             /\ lease'[c] = NoLease <=> lease[c] = NoLease
             /\ lease[c] # NoLease =>
                  /\ lease'[c].key = lease[c].key
                  /\ lease'[c].stream = lease[c].stream
                  /\ lease[c].key # k => lease'[c] = lease[c]
                  /\ lease[c].key = k => ~lease'[c].live
  <2>1. CASE lease[c] # NoLease /\ lease[c].key = k
    <3>1. lease[c] \in Lease /\ lease'[c] = [lease[c] EXCEPT !.live = FALSE]
      BY <1>1, <1>2, <2>1 DEF TypeOK, QueueTypeOK
    <3>2. lease'[c] \in Lease /\ lease'[c].key = lease[c].key
          /\ lease'[c].stream = lease[c].stream /\ lease'[c].live = FALSE
      BY <3>1 DEF Lease
    <3>. QED  BY <2>1, <3>2, NoLeaseAssumption
  <2>2. CASE ~(lease[c] # NoLease /\ lease[c].key = k)
    <3>1. lease'[c] = lease[c] /\ lease[c] \in Lease \cup {NoLease}
      BY <1>1, <1>2, <2>2 DEF TypeOK, QueueTypeOK
    <3>. QED  BY <2>2, <3>1
  <2>. QED  BY <2>1, <2>2
<1>6. lease' \in [Callers -> Lease \cup {NoLease}]
  <2>1. DOMAIN lease' = Callers /\ lease' = [c \in Callers |-> lease'[c]]
    BY <1>2
  <2>. QED  BY <1>5, <2>1
<1>7. \A j \in keys \ {k} : /\ ShortHolders(j)' = ShortHolders(j)
                            /\ StreamHolders(j)' = StreamHolders(j)
  BY <1>5 DEF ShortHolders, StreamHolders
<1>8. SlotsMatchLeases'
  BY <1>1, <1>2, <1>7 DEF SlotsMatchLeases
<1>9. LiveKeysPooled'
  BY <1>1, <1>2, <1>5 DEF LiveKeysPooled
<1>. QED  BY <1>2, <1>4, <1>5, <1>6, <1>8, <1>9, SyncFrame

\* The operations on one key keep the invariant.
LEMMA KeyInv ==
  ASSUME Inv, NEW k \in Keys, KeyStep(k)
  PROVE  Inv'
<1>. DEFINE state == key[k]
            snapshot == key[k].snapshot
<1>1. /\ TypeOK /\ state \in KeyState /\ snapshot \in Snapshot
      /\ state.blocks \in SUBSET Models
  BY DEF Inv, TypeOK, PoolTypeOK, KeyState
<1>2. ASSUME NEW snap \in Snapshot, Sync, UNCHANGED <<keys, off, order, cursor, lease>>,
             key' = [key EXCEPT ![k] = [state EXCEPT !.snapshot = snap]] \/ key' = key
      PROVE  Inv'
  BY <1>1, <1>2, KeyStateFields, OneKeyInv
<1>3. ASSUME NEW blocks \in SUBSET Models, Sync,
             UNCHANGED <<keys, off, order, cursor, lease>>,
             key' = [key EXCEPT ![k] = [state EXCEPT !.blocks = blocks]] \/ key' = key
      PROVE  Inv'
  BY <1>1, <1>3, KeyStateFields, OneKeyInv
<1>4. ASSUME NEW snap \in Snapshots, UpsertKey(k, snap) PROVE Inv'
  <2>1. CASE k \notin keys
    BY <1>4, <2>1, InsertKeyInv
  <2>2. CASE k \in keys
    <3>1. /\ Sync /\ UNCHANGED <<keys, off, order, cursor, lease>>
          /\ key' = [key EXCEPT ![k] = [state EXCEPT !.snapshot = snap]]
      BY <1>4, <2>2 DEF UpsertKey
    <3>. QED  BY <1>2, <3>1, SnapshotsAssumption
  <2>. QED  BY <2>1, <2>2
<1>5. ASSUME NEW enabled \in BOOLEAN, SetKeyEnabled(k, enabled) PROVE Inv'
  <2>. DEFINE snap == [snapshot EXCEPT !.enabled = enabled]
  <2>1. /\ Sync /\ UNCHANGED <<keys, off, order, cursor, lease>>
        /\ key' = [key EXCEPT ![k] = [state EXCEPT !.snapshot = snap]] \/ key' = key
    BY <1>5 DEF SetKeyEnabled
  <2>2. snap \in Snapshot
    BY <1>1 DEF Snapshot
  <2>. HIDE DEF snap
  <2>. QED  BY <1>2, <2>1, <2>2
<1>6. ASSUME RemoveKey(k) PROVE Inv'
  <2>1. CASE k \in keys
    BY <1>6, <2>1, RemoveKeyInv
  <2>2. CASE k \notin keys
    <3>1. Sync /\ UNCHANGED <<keys, key, off, order, cursor, lease>>
      BY <1>6, <2>2 DEF RemoveKey
    <3>. QED  BY <1>1, <1>2, <3>1
  <2>. QED  BY <2>1, <2>2
<1>7. ASSUME ApplySuccess(k) PROVE Inv'
  <2>. DEFINE snap == [snapshot EXCEPT !.authInvalid = FALSE, !.cooling = FALSE]
  <2>1. /\ Sync /\ UNCHANGED <<keys, off, order, cursor, lease>>
        /\ key' = [key EXCEPT ![k] = [state EXCEPT !.snapshot = snap]] \/ key' = key
    <3>1. CASE k \notin keys
      BY <1>7, <3>1 DEF ApplySuccess
    <3>2. CASE k \in keys
      <4>1. key' = [key EXCEPT ![k].snapshot.authInvalid = FALSE,
                               ![k].snapshot.cooling = FALSE]
        BY <1>7, <3>2 DEF ApplySuccess
      <4>2. key \in [Keys -> KeyState]
        BY <1>1 DEF TypeOK, PoolTypeOK
      <4>3. key' = [key EXCEPT ![k] = [state EXCEPT !.snapshot = snap]]
        BY <1>1, <4>1, <4>2 DEF KeyState, Snapshot
      <4>. QED  BY <1>7, <4>3 DEF ApplySuccess
    <3>. QED  BY <3>1, <3>2
  <2>2. snap \in Snapshot
    BY <1>1 DEF Snapshot
  <2>. HIDE DEF snap
  <2>. QED  BY <1>2, <2>1, <2>2
<1>8. ASSUME NEW m \in Models, NEW auth \in BOOLEAN, NEW cool \in BOOLEAN,
             NEW block \in BOOLEAN, ApplyFailure(k, m, auth, cool, block)
      PROVE  Inv'
  <2>. DEFINE snap == [snapshot EXCEPT !.authInvalid = auth, !.cooling = cool]
              blocks == state.blocks \cup (IF block THEN {m} ELSE {})
              after == [state EXCEPT !.snapshot = snap, !.blocks = blocks]
  <2>1. Sync /\ UNCHANGED <<keys, off, order, cursor, lease>>
    BY <1>8 DEF ApplyFailure
  <2>2. key' = [key EXCEPT ![k] = after] \/ key' = key
    <3>1. CASE k \notin keys
      BY <1>8, <3>1 DEF ApplyFailure
    <3>2. CASE k \in keys
      <4>1. key' = [key EXCEPT ![k].snapshot.authInvalid = auth,
                               ![k].snapshot.cooling = cool,
                               ![k].blocks = blocks]
        BY <1>8, <3>2 DEF ApplyFailure
      <4>2. key \in [Keys -> KeyState]
        BY <1>1 DEF TypeOK, PoolTypeOK
      <4>. HIDE DEF blocks
      <4>. QED  BY <1>1, <4>1, <4>2 DEF KeyState, Snapshot
    <3>. QED  BY <3>1, <3>2
  <2>3. snap \in Snapshot /\ blocks \in SUBSET Models
    BY <1>1 DEF Snapshot
  <2>. HIDE DEF snap, blocks
  <2>4. after \in KeyState /\ after.busy = state.busy /\ after.streams = state.streams
    BY <1>1, <2>3 DEF KeyState
  <2>. HIDE DEF after
  <2>. QED  BY <2>1, <2>2, <2>4, OneKeyInv
<1>9. ASSUME NEW m \in Models, NEW blocked \in BOOLEAN, SetModelBlock(k, m, blocked)
      PROVE  Inv'
  <2>. DEFINE blocks == IF blocked THEN state.blocks \cup {m} ELSE state.blocks \ {m}
  <2>1. /\ Sync /\ UNCHANGED <<keys, off, order, cursor, lease>>
        /\ key' = [key EXCEPT ![k] = [state EXCEPT !.blocks = blocks]] \/ key' = key
    BY <1>9 DEF SetModelBlock
  <2>2. blocks \in SUBSET Models
    BY <1>1
  <2>. HIDE DEF blocks
  <2>. QED  BY <1>3, <2>1, <2>2
<1>10. ASSUME CooldownExpires(k) \/ WindowSlides(k) PROVE Inv'
  <2>1. /\ ClockMoves /\ k \in keys
        /\ UNCHANGED <<keys, off, order, cursor, closed, stage, left, owner, pc, req,
                       cancelled, result, lease, waiters, arrivals, changes>>
        /\ ticked' = TRUE
    BY <1>10 DEF CooldownExpires, WindowSlides, ClockMoves, lockVars, callVars
  <2>2. PICK after \in KeyState : /\ key' = [key EXCEPT ![k] = after]
                                  /\ after.busy = state.busy
                                  /\ after.streams = state.streams
    <3>1. CASE CooldownExpires(k)
      <4>. DEFINE snap == [snapshot EXCEPT !.cooling = FALSE]
      <4>1. key' = [key EXCEPT ![k] = [state EXCEPT !.snapshot = snap]]
        BY <3>1 DEF CooldownExpires
      <4>2. snap \in Snapshot
        BY <1>1 DEF Snapshot
      <4>. HIDE DEF snap
      <4>3. LET after == [state EXCEPT !.snapshot = snap] IN
            after \in KeyState /\ after.busy = state.busy /\ after.streams = state.streams
        BY <1>1, <4>2 DEF KeyState
      <4>. QED  BY <4>1, <4>3
    <3>2. CASE WindowSlides(k)
      <4>1. key' = [key EXCEPT ![k] = [state EXCEPT !.used = state.used - 1]]
            /\ state.used > 0
        BY <3>2 DEF WindowSlides
      <4>2. state.used - 1 \in 0..RequestLimit
        BY <1>1, <4>1, BoundsAssumption DEF KeyState
      <4>3. LET after == [state EXCEPT !.used = state.used - 1] IN
            after \in KeyState /\ after.busy = state.busy /\ after.streams = state.streams
        BY <1>1, <4>2 DEF KeyState
      <4>. QED  BY <4>1, <4>3
    <3>. QED  BY <1>10, <3>1, <3>2
  <2>3. TypeOK'
    BY <1>1, <2>1, <2>2 DEF TypeOK, PoolTypeOK, QueueTypeOK
  <2>4. SlotsMatchLeases' /\ LiveKeysPooled'
    <3>1. \A j \in keys : key'[j].busy = key[j].busy /\ key'[j].streams = key[j].streams
      BY <1>1, <2>2 DEF TypeOK, PoolTypeOK
    <3>. QED  BY <2>1, <3>1, SlotsFrame DEF Inv
  <2>5. AnsweredOnce' /\ NoLeaseLeaked'
    BY <2>1, ChannelFrame DEF Inv, callQueue
  <2>6. Rotated' /\ LockAndChannels' /\ NoReuseOfAttempted'
    BY <2>1 DEF Inv, Rotated, LockAndChannels, NoReuseOfAttempted
  <2>. QED  BY <2>3, <2>4, <2>5, <2>6 DEF Inv
<1>. QED  BY <1>4, <1>5, <1>6, <1>7, <1>8, <1>9, <1>10 DEF KeyStep

\* The model switches keep the invariant.
LEMMA ModelInv ==
  ASSUME Inv, NEW m \in Models, ModelStep(m)
  PROVE  Inv'
<1>1. /\ key \in [Keys -> KeyState] /\ keys \subseteq Keys /\ off \subseteq Models
  BY DEF Inv, TypeOK, PoolTypeOK
<1>2. CASE ClearModelBlocks(m)
  <2>1. /\ Sync /\ UNCHANGED <<keys, off, order, cursor, lease>>
        /\ key' = [k \in Keys |-> IF k \in keys
                                  THEN [key[k] EXCEPT !.blocks = key[k].blocks \ {m}]
                                  ELSE key[k]]
    BY <1>2 DEF ClearModelBlocks
  <2>2. ASSUME NEW k \in Keys
        PROVE  /\ key'[k] \in KeyState /\ key'[k].busy = key[k].busy
               /\ key'[k].streams = key[k].streams
    <3>. DEFINE blocks == key[k].blocks \ {m}
    <3>1. key[k] \in KeyState /\ blocks \in SUBSET Models
      BY <1>1 DEF KeyState
    <3>2. key'[k] = [key[k] EXCEPT !.blocks = blocks] \/ key'[k] = key[k]
      BY <2>1
    <3>. HIDE DEF blocks
    <3>3. LET after == [key[k] EXCEPT !.blocks = blocks] IN
          after \in KeyState /\ after.busy = key[k].busy /\ after.streams = key[k].streams
      BY <3>1 DEF KeyState
    <3>. QED  BY <3>1, <3>2, <3>3
  <2>3. key' \in [Keys -> KeyState]
    <3>1. key' = [k \in Keys |-> key'[k]]
      BY <2>1
    <3>. QED  BY <2>2, <3>1
  <2>. QED  BY <1>1, <2>1, <2>2, <2>3, KeyFieldsInv
<1>3. ASSUME NEW enabled \in BOOLEAN, SetModelEnabled(m, enabled) PROVE Inv'
  <2>1. /\ Sync /\ UNCHANGED <<keys, key, order, cursor, lease>> /\ off' \subseteq Models
    BY <1>1, <1>3 DEF SetModelEnabled
  <2>. QED  BY <1>1, <2>1, KeyFieldsInv
<1>. QED  BY <1>2, <1>3 DEF ModelStep

\* Shutdown answers everyone in the queue.
LEMMA ShutdownInv ==
  ASSUME Inv, Shutdown
  PROVE  Inv'
<1>1. /\ TypeOK /\ SlotsMatchLeases /\ NoLeaseLeaked /\ AnsweredOnce
      /\ Rotated /\ LockAndChannels /\ LiveKeysPooled /\ NoReuseOfAttempted
  BY DEF Inv
<1>2. /\ stage = "free" /\ closed' = TRUE
      /\ result' = [c \in Callers |-> IF c \in ToSet(waiters) THEN "shutting_down"
                                                              ELSE result[c]]
      /\ waiters' = << >> /\ arrivals' = << >>
      /\ UNCHANGED <<keys, key, off, order, cursor, stage, left, owner, pc, req,
                     cancelled, lease, ticked, changes>>
  BY DEF Shutdown, lockVars
<1>3. << >> \in Seq(Callers) /\ Len(<< >>) = 0 /\ DOMAIN << >> = {}
  OBVIOUS
<1>4. result' \in [Callers -> Answers \cup {"none"}]
  BY <1>1, <1>2 DEF TypeOK, QueueTypeOK, Answers
<1>5. TypeOK'
  BY <1>1, <1>2, <1>3, <1>4, BoundsAssumption DEF TypeOK, PoolTypeOK, QueueTypeOK
<1>6. SlotsMatchLeases' /\ LiveKeysPooled' /\ NoReuseOfAttempted'
  BY <1>1, <1>2, SlotsFrame DEF NoReuseOfAttempted
<1>7. ToSet(waiters)' = {} /\ Distinct(waiters)'
  BY <1>2, <1>3 DEF ToSet, Distinct
<1>8. AnsweredOnce'
  BY <1>1, <1>2, <1>7 DEF AnsweredOnce
<1>9. NoLeaseLeaked'
  BY <1>1, <1>2 DEF NoLeaseLeaked, AnsweredOnce
<1>10. Rotated'
  <2>1. left = 0
    BY <1>1, <1>2 DEF Rotated
  <2>. QED  BY <1>2, <1>3, <2>1 DEF Rotated
<1>11. LockAndChannels'
  BY <1>1, <1>2 DEF LockAndChannels, AnsweredOnce
<1>. QED  BY <1>5, <1>6, <1>8, <1>9, <1>10, <1>11 DEF Inv

\* The pool as New and LoadSnapshot leave it.
LEMMA InitInv ==
  ASSUME Init
  PROVE  Inv
<1>1. << >> \in Seq(Callers) /\ Len(<< >>) = 0 /\ DOMAIN << >> = {}
  OBVIOUS
<1>2. key \in [Keys -> KeyState]
  <2>1. \A snap \in Snapshots : newKeyState(snap) \in KeyState
    BY SnapshotsAssumption, BoundsAssumption DEF newKeyState, KeyState
  <2>. QED  BY <2>1 DEF Init
<1>3. order \in Seq(Keys)
  <2>1. keys \subseteq Keys /\ order \in [1..Cardinality(keys) -> keys]
    BY DEF Init
  <2>2. Cardinality(keys) \in Nat
    BY <2>1, KeysAssumption, FS_Subset, FS_CardinalityType
  <2>. QED  BY <2>1, <2>2, SeqDef
<1>4. PoolTypeOK
  BY <1>2, <1>3 DEF Init, PoolTypeOK
<1>5. QueueTypeOK
  <2>1. /\ waiters \in Seq(Callers) /\ arrivals \in Seq(Callers)
        /\ Len(waiters) <= Capacity /\ changes \in 0..MaxChanges /\ left \in Nat
    BY <1>1, BoundsAssumption DEF Init
  <2>2. /\ req \in [Callers -> Request]
        /\ lease \in [Callers -> Lease \cup {NoLease}]
        /\ result \in [Callers -> Answers \cup {"none"}]
        /\ cancelled \in [Callers -> BOOLEAN]
    BY RequestsAssumption DEF Init
  <2>3. /\ stage = "free" /\ owner = NoCaller /\ ticked = FALSE
        /\ pc = [c \in Callers |-> "idle"]
    BY DEF Init
  <2>. QED  BY <2>1, <2>2, <2>3 DEF QueueTypeOK
<1>6. SlotsMatchLeases
  <2>1. \A k \in keys : ShortHolders(k) = {} /\ StreamHolders(k) = {}
    BY DEF Init, ShortHolders, StreamHolders
  <2>2. \A k \in keys : key[k].busy = FALSE /\ key[k].streams = 0
    <3>1. SUFFICES ASSUME NEW k \in keys PROVE key[k].busy = FALSE /\ key[k].streams = 0
      OBVIOUS
    <3>2. PICK snap \in Snapshots : key[k] = newKeyState(snap)
      BY <3>1 DEF Init
    <3>. QED  BY <3>2 DEF newKeyState
  <2>. QED  BY <2>1, <2>2, FS_EmptySet DEF SlotsMatchLeases
<1>7. NoLeaseLeaked /\ LiveKeysPooled /\ NoReuseOfAttempted
  BY DEF Init, NoLeaseLeaked, LiveKeysPooled, NoReuseOfAttempted
<1>8. AnsweredOnce
  BY <1>1 DEF Init, AnsweredOnce, ToSet, Distinct
<1>9. Rotated
  BY <1>1 DEF Init, Rotated
<1>10. LockAndChannels
  BY DEF Init, LockAndChannels
<1>. QED  BY <1>4, <1>5, <1>6, <1>7, <1>8, <1>9, <1>10 DEF Inv, TypeOK

----------------------------------------------------------------------------
(* The theorems.                                                           *)

\* Inv is inductive: every operation of the pool, every iteration of the
\* dispatch loop and every clock step preserves it.
THEOREM Inductive == Spec => []Inv
<1>1. Init => Inv
  BY InitInv
<1>2. Inv /\ [Next]_vars => Inv'
  <2>1. SUFFICES ASSUME Inv, [Next]_vars PROVE Inv'
    OBVIOUS
  <2>2. CASE UNCHANGED vars
    BY <2>1, <2>2, StutterInv
  <2>3. CASE Next
    BY <2>1, <2>3, DispatchInv, CallerInv, KeyInv, ModelInv, ShutdownInv DEF Next
  <2>. QED  BY <2>1, <2>2, <2>3
<1>. QED  BY <1>1, <1>2, PTL DEF Spec

\* The counters of a key stay within its quota and its window, and the queue
\* within its capacity, for every configuration of the pool.
THEOREM TypeCorrect == Spec => []TypeOK
<1>1. Inv => TypeOK
  BY DEF Inv
<1>. QED  BY <1>1, Inductive, PTL

\* The slots that tryAcquireLocked takes and release gives back are exactly the
\* outstanding leases, through removals and re-insertions of keys.
THEOREM SlotsSafe == Spec => []SlotsMatchLeases
<1>1. Inv => SlotsMatchLeases
  BY DEF Inv
<1>. QED  BY <1>1, Inductive, PTL

\* No lease is lost between dispatch, the result channel and abandonWaiter.
THEOREM LeasesKept == Spec => []NoLeaseLeaked
<1>1. Inv => NoLeaseLeaked
  BY DEF Inv
<1>. QED  BY <1>1, Inductive, PTL

\* Every queued caller is answered at most once and every late answer is found.
THEOREM ChannelsSafe == Spec => []AnsweredOnce
<1>1. Inv => AnsweredOnce
  BY DEF Inv
<1>. QED  BY <1>1, Inductive, PTL

\* The rotation of dispatchWaitersLocked restores arrival order by the time the
\* lock is released.
THEOREM QueueFIFO == Spec => []QueueKeepsArrivalOrder
<1>1. Inv => QueueKeepsArrivalOrder
  <2>1. SUFFICES ASSUME Inv, stage = "free" PROVE waiters = arrivals
    BY DEF QueueKeepsArrivalOrder
  <2>2. /\ waiters \in Seq(Callers) /\ arrivals \in Seq(Callers) /\ left = 0
        /\ Len(waiters) = Len(arrivals) /\ Len(waiters) \in Nat
        /\ DOMAIN waiters = 1..Len(waiters)
    BY <2>1, LenProperties DEF Inv, TypeOK, QueueTypeOK, Rotated
  <2>3. \A i \in 1..Len(waiters) : waiters[i] = arrivals[i]
    BY <2>1, <2>2 DEF Inv, Rotated, Place
  <2>. QED  BY <2>2, <2>3, SeqEqual
<1>. QED  BY <1>1, Inductive, PTL

\* A failover request never gets a key back that it has already tried.
THEOREM FailoverSafe == Spec => []NoReuseOfAttempted
<1>1. Inv => NoReuseOfAttempted
  BY DEF Inv
<1>. QED  BY <1>1, Inductive, PTL

=============================================================================

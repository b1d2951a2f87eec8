---------------------------- MODULE AccessProofs ----------------------------
(***************************************************************************)
(* Proofs about who may use the gateway, for any number of requests and    *)
(* any policies, passwords and clocks: an access key's slots are its       *)
(* requests', a stale identity is served for the cache's TTL at most, the  *)
(* spent budget in the table never shrinks, the administrator's sessions   *)
(* follow the password, and logins are limited by their address.           *)
(***************************************************************************)
EXTENDS AccessKeys, AdminSessions, LoginGate, TLAPS, FiniteSetTheorems, SequenceTheorems,
        WellFoundedInduction

(***************************************************************************)
(* Access keys: types                                                      *)
(***************************************************************************)
Rows == [life : {"active", "revoked", "deleted"}, policy : AnyPolicy, spent : Nat]
CallRecords ==
  [at : {"idle", "missed", "read", "known", "running", "charged", "served", "done"},
   since : Nat, identity : Identities \cup {None}]
WriterRecords ==
  [at : {"none", "started", "writing", "written", "failed"}, since : Nat, value : Nat]

\* A request knows whom it serves once the row or the cache has told it.
Knows(c) == call[c].at \in {"read", "known", "running", "charged", "served"}

AccessTypeOK ==
  /\ row \in Rows /\ changed \in [at : Nat, times : Nat]
  /\ cached \in Entries \cup {None} /\ bucket \in Buckets \cup {None}
  /\ call \in [Callers -> CallRecords] /\ writer \in [Callers -> WriterRecords]
  /\ pending \in BOOLEAN /\ clock \in Nat
  /\ admin \in {"idle", "policy", "revoke", "forget", "remove"}
  /\ \A c \in Callers : Knows(c) => call[c].identity \in Identities

(***************************************************************************)
(* Access keys: the inductive invariant                                    *)
(***************************************************************************)
\* Clock readings and what was read at them: a request that read the row before
\* it changed took its clock reading before the change.
ReadingsArePast ==
  /\ changed.at <= clock
  /\ cached # None => cached.until <= clock + CacheTTL
  /\ \A c \in Callers :
       /\ call[c].since <= clock
       /\ call[c].at = "read" /\ (~Active \/ call[c].identity.policy # row.policy)
            => call[c].since <= changed.at

Seeded == bucket # None /\ bucket.seeded

\* Until the bucket is seeded every identity that is about has the table's own
\* count, a request under a limit runs on a seeded bucket, and so does a writer,
\* which is the only one and carries a count between the table's and the bucket's.
SpendInOrder(c) ==
  /\ Knows(c) /\ ~Seeded => call[c].identity.spent = row.spent
  /\ call[c].at \in {"running", "charged", "served"} /\ Limited(call[c].identity.policy) => Seeded
  /\ call[c].at = "charged" => call[c].identity.policy.budget > 0
  /\ writer[c].at # "none" => Seeded /\ pending
  /\ writer[c].at = "writing" => row.spent <= writer[c].value /\ writer[c].value <= bucket.spent
  /\ \A d \in Callers : writer[c].at # "none" /\ writer[d].at # "none" => c = d

\* The count in the table is behind the bucket's, never ahead of it, for as long
\* as the key is active. Only the revocation of a key forgets its bucket.
SpendIsBehind ==
  /\ admin \in {"revoke", "forget", "remove"} => ~Active
  /\ Active => /\ \A c \in Callers : SpendInOrder(c)
               /\ Seeded => row.spent <= bucket.spent
               /\ cached # None /\ ~Seeded => cached.identity.spent = row.spent

\* The inductive invariant of access keys.
AccessInv == AccessTypeOK /\ ReadingsArePast /\ PolicyHolds /\ SpendIsBehind

(***************************************************************************)
(* Access keys: types are kept                                             *)
(***************************************************************************)
\* The window of a bucket rotates without touching its slots, its spent budget
\* or its seed.
LEMMA RotatedKeeps ==
  ASSUME AccessTypeOK
  PROVE  /\ Rotated \in Buckets
         /\ bucket = None => Rotated.slots = 0 /\ ~Rotated.seeded /\ Rotated.spent = 0
         /\ bucket # None => /\ Rotated.slots = bucket.slots /\ Rotated.spent = bucket.spent
                             /\ Rotated.seeded = bucket.seeded
<1>1. clock \in Nat /\ bucket \in Buckets \cup {None}
  BY DEF AccessTypeOK
<1>2. CASE bucket = None
  <2>1. Rotated = FreshBucket
    BY <1>2 DEF Rotated
  <2>. QED  BY <1>1, <1>2, <2>1 DEF FreshBucket, Buckets
<1>3. CASE bucket # None /\ clock - bucket.start >= Minute
  <2>1. Rotated = [bucket EXCEPT !.start = clock, !.rpm = 0, !.tokens = 0]
    BY <1>3 DEF Rotated
  <2>. QED  BY <1>1, <1>3, <2>1 DEF Buckets
<1>4. CASE bucket # None /\ ~(clock - bucket.start >= Minute)
  <2>1. Rotated = bucket
    BY <1>4 DEF Rotated
  <2>. QED  BY <1>1, <1>4, <2>1
<1>. QED  BY <1>2, <1>3, <1>4

\* A bucket is seeded once, with the count the identity brings.
LEMMA SeedKeeps ==
  ASSUME NEW b \in Buckets, NEW i \in Identities
  PROVE  /\ Seed(b, i) \in Buckets /\ Seed(b, i).slots = b.slots /\ Seed(b, i).seeded
         /\ Seed(b, i).spent = IF b.seeded THEN b.spent ELSE i.spent
BY DEF Seed, Buckets, Identities

\* Where a request goes, its clock reading and its identity stay.
LEMMA GoesKeeps ==
  ASSUME AccessTypeOK, NEW c \in Callers, NEW at, Goes(c, at),
         at \in {"known", "running", "charged", "served"}
  PROVE  /\ call' \in [Callers -> CallRecords]
         /\ call'[c].at = at /\ call'[c].since = call[c].since /\ call'[c].identity = call[c].identity
         /\ \A d \in Callers \ {c} : call'[d] = call[d]
<1>1. call \in [Callers -> CallRecords]
  BY DEF AccessTypeOK
<1>2. call' = [call EXCEPT ![c] = [call[c] EXCEPT !.at = at]]
  BY DEF Goes
<1>3. call[c] \in CallRecords
  BY <1>1
<1>4. [call[c] EXCEPT !.at = at] \in CallRecords
  BY <1>3 DEF CallRecords
<1>. QED  BY <1>1, <1>2, <1>3, <1>4 DEF CallRecords

\* A request that leaves knows nobody.
LEMMA LeavesKeeps ==
  ASSUME AccessTypeOK, NEW c \in Callers, Leaves(c)
  PROVE  /\ call' \in [Callers -> CallRecords] /\ call'[c].at = "done" /\ call'[c].since = 0
         /\ \A d \in Callers \ {c} : call'[d] = call[d]
<1>1. call \in [Callers -> CallRecords]
  BY DEF AccessTypeOK
<1>2. call' = [call EXCEPT ![c] = Done]
  BY DEF Leaves
<1>3. Done = [at |-> "done", since |-> 0, identity |-> None]
  BY DEF Done, NoCall
<1>4. Done \in CallRecords
  BY <1>3 DEF CallRecords
<1>. QED  BY <1>1, <1>2, <1>3, <1>4

\* A request that missed the cache remembers when it looked.
LEMMA MissEffect ==
  ASSUME AccessTypeOK, NEW c \in Callers, LookupMiss(c)
  PROVE  /\ call' \in [Callers -> CallRecords] /\ call'[c].at = "missed" /\ call'[c].since = clock
         /\ \A d \in Callers \ {c} : call'[d] = call[d]
<1>. DEFINE m == [NoCall EXCEPT !.at = "missed", !.since = clock]
<1>1. call \in [Callers -> CallRecords] /\ clock \in Nat
  BY DEF AccessTypeOK
<1>2. call' = [call EXCEPT ![c] = m]
  BY DEF LookupMiss
<1>3. m \in CallRecords /\ m.at = "missed" /\ m.since = clock
  BY <1>1 DEF CallRecords, NoCall
<1>. HIDE DEF m
<1>. QED  BY <1>1, <1>2, <1>3

\* The row is read as it is; the clock reading stays the one before the read.
LEMMA AuthenticateEffect ==
  ASSUME AccessTypeOK, NEW c \in Callers, Authenticate(c), ~Leaves(c)
  PROVE  /\ call' \in [Callers -> CallRecords] /\ call'[c].at = "read" /\ Active
         /\ call'[c].since = call[c].since
         /\ call'[c].identity = [policy |-> row.policy, spent |-> row.spent]
         /\ call'[c].identity \in Identities
         /\ \A d \in Callers \ {c} : call'[d] = call[d]
<1>. DEFINE identity == [policy |-> row.policy, spent |-> row.spent]
<1>1. call \in [Callers -> CallRecords] /\ row \in Rows /\ call[c] \in CallRecords
  BY DEF AccessTypeOK
<1>2. call' = [call EXCEPT ![c].at = "read", ![c].identity = identity] /\ Active
  BY DEF Authenticate
<1>3. identity \in Identities
  BY <1>1 DEF Rows, Identities
<1>. HIDE DEF identity
<1>. DEFINE g == [call EXCEPT ![c] = [call[c] EXCEPT !.at = "read"]]
<1>4. g[c] \in CallRecords /\ g[c].at = "read" /\ g[c].since = call[c].since
      /\ g \in [Callers -> CallRecords] /\ \A d \in Callers \ {c} : g[d] = call[d]
  <2>1. [call[c] EXCEPT !.at = "read"] \in CallRecords
    BY <1>1 DEF CallRecords
  <2>. QED  BY <1>1, <2>1 DEF CallRecords
<1>5. call' = [g EXCEPT ![c] = [g[c] EXCEPT !.identity = identity]]
  BY <1>2
<1>. HIDE DEF g
<1>6. [g[c] EXCEPT !.identity = identity] \in CallRecords
  BY <1>3, <1>4 DEF CallRecords
<1>7. /\ call'[c] = [g[c] EXCEPT !.identity = identity] /\ call' \in [Callers -> CallRecords]
      /\ \A d \in Callers \ {c} : call'[d] = call[d]
  BY <1>4, <1>5, <1>6
<1>8. call'[c].at = "read" /\ call'[c].since = call[c].since /\ call'[c].identity = identity
  BY <1>4, <1>7 DEF CallRecords
<1>. QED  BY <1>2, <1>3, <1>7, <1>8 DEF identity

\* The limiter lets a request run without a limit, or on a seeded bucket with one
\* slot more, or sends it away.
LEMMA BeginEffect ==
  ASSUME AccessTypeOK, NEW c \in Callers, BeginRequest(c)
  PROVE  LET b == Seed(Rotated, call[c].identity) IN
         /\ call[c].at = "known" /\ call[c].identity \in Identities /\ b \in Buckets
         /\ bucket' \in Buckets \cup {None}
         /\ \/ Goes(c, "running") /\ bucket' = bucket /\ ~Limited(call[c].identity.policy)
            \/ Leaves(c) /\ bucket' = b
            \/ /\ Goes(c, "running") /\ Limited(call[c].identity.policy) /\ bucket' \in Buckets
               /\ bucket'.slots = b.slots + 1 /\ bucket'.spent = b.spent /\ bucket'.seeded = b.seeded
<1>. DEFINE b == Seed(Rotated, call[c].identity)
            n == [b EXCEPT !.rpm = b.rpm + 1, !.slots = b.slots + 1]
<1>1. /\ call[c].at = "known"
      /\ \/ Goes(c, "running") /\ bucket' = bucket /\ ~Limited(call[c].identity.policy)
         \/ Leaves(c) /\ bucket' = b
         \/ Goes(c, "running") /\ bucket' = n /\ Limited(call[c].identity.policy)
  BY DEF BeginRequest
<1>2. call[c].identity \in Identities /\ bucket \in Buckets \cup {None}
  BY <1>1 DEF AccessTypeOK, Knows
<1>3. b \in Buckets
  BY <1>2, RotatedKeeps, SeedKeeps
<1>. HIDE DEF b
<1>4. b.rpm + 1 \in Nat /\ b.slots + 1 \in Nat
  BY <1>3 DEF Buckets
<1>5. n \in Buckets /\ n.slots = b.slots + 1 /\ n.spent = b.spent /\ n.seeded = b.seeded
  <2>. DEFINE i == b.rpm + 1
              j == b.slots + 1
  <2>1. n = [b EXCEPT !.rpm = i, !.slots = j] /\ i \in Nat /\ j \in Nat
    BY <1>4
  <2>. HIDE DEF i, j
  <2>2. n \in Buckets /\ n.slots = j /\ n.spent = b.spent /\ n.seeded = b.seeded
    BY <1>3, <2>1 DEF Buckets
  <2>. QED  BY <2>2 DEF j
<1>. HIDE DEF n
<1>. QED  BY <1>1, <1>2, <1>3, <1>5 DEF b

\* A charge adds to the spent budget of the bucket, made for it if there is none,
\* and seeds nothing.
LEMMA ChargeEffect ==
  ASSUME AccessTypeOK, NEW c \in Callers, NEW n \in Usage, ChargeUsage(c, n)
  PROVE  /\ call[c].at = "running" /\ bucket' \in Buckets
         /\ bucket'.slots = Rotated.slots /\ bucket'.seeded = Rotated.seeded
         /\ bucket'.spent = Rotated.spent + n /\ n \in Nat /\ Rotated.spent \in Nat
<1>. DEFINE b == Rotated
            tokens == IF call[c].identity.policy.tpm > 0 THEN b.tokens + n ELSE b.tokens
            spent == b.spent + n
<1>1. call[c].at = "running" /\ bucket' = [b EXCEPT !.tokens = tokens, !.spent = spent]
  BY DEF ChargeUsage
<1>2. b \in Buckets /\ n \in Nat
  BY RotatedKeeps, AccessAssumption
<1>. HIDE DEF b
<1>3. tokens \in Nat /\ spent \in Nat /\ b.spent \in Nat
  BY <1>2 DEF Buckets
<1>. HIDE DEF tokens, spent
<1>4. bucket' \in Buckets /\ bucket'.slots = b.slots /\ bucket'.seeded = b.seeded /\ bucket'.spent = spent
  BY <1>1, <1>2, <1>3 DEF Buckets
<1>. QED  BY <1>1, <1>2, <1>3, <1>4 DEF b, spent

\* A released slot is one less, never less than none.
LEMMA ReleaseEffect ==
  ASSUME AccessTypeOK
  PROVE  /\ Released(bucket) \in Buckets \cup {None} /\ (Released(bucket) = None <=> bucket = None)
         /\ bucket # None =>
              /\ Released(bucket).slots = IF bucket.slots > 0 THEN bucket.slots - 1 ELSE 0
              /\ Released(bucket).spent = bucket.spent /\ Released(bucket).seeded = bucket.seeded
<1>1. bucket \in Buckets \cup {None}
  BY DEF AccessTypeOK
<1>2. CASE bucket # None /\ bucket.slots > 0
  <2>. DEFINE j == bucket.slots - 1
  <2>1. j \in Nat /\ Released(bucket) = [bucket EXCEPT !.slots = j] /\ bucket \in Buckets
    BY <1>1, <1>2 DEF Released, Buckets
  <2>. HIDE DEF j
  <2>2. /\ Released(bucket) \in Buckets /\ Released(bucket).slots = j
        /\ Released(bucket).spent = bucket.spent /\ Released(bucket).seeded = bucket.seeded
    BY <2>1 DEF Buckets
  <2>. QED  BY <1>2, <2>2, AccessAssumption DEF j
<1>3. CASE ~(bucket # None /\ bucket.slots > 0)
  <2>1. Released(bucket) = bucket
    BY <1>3 DEF Released
  <2>. QED  BY <1>1, <1>3, <2>1 DEF Buckets
<1>. QED  BY <1>2, <1>3

\* The steps of a request, its lookup to its release, keep the types.
LEMMA RequestTypes ==
  ASSUME AccessTypeOK, NEW c \in Callers, AccessRequest(c)
  PROVE  AccessTypeOK'
<1>. USE DEF Knows
<1>1. /\ call[c] \in CallRecords /\ writer[c] \in WriterRecords /\ clock \in Nat
      /\ call \in [Callers -> CallRecords] /\ writer \in [Callers -> WriterRecords]
      /\ cached \in Entries \cup {None} /\ bucket \in Buckets \cup {None} /\ row \in Rows
  BY DEF AccessTypeOK
<1>2. CASE LookupHit(c)
  <2>1. CASE Leaves(c) /\ cached' = None
    <3>1. UNCHANGED <<row, changed, bucket, writer, pending, written, admin, clock>>
      BY <1>2 DEF LookupHit
    <3>. QED  BY <2>1, <3>1, LeavesKeeps DEF AccessTypeOK
  <2>2. CASE ~(Leaves(c) /\ cached' = None)
    <3>1. /\ UNCHANGED <<row, changed, cached, bucket, writer, pending, written, admin, clock>>
          /\ call' = [call EXCEPT ![c] = [at |-> "known", since |-> clock,
                                          identity |-> cached.identity]]
          /\ cached # None
      BY <1>2, <2>2 DEF LookupHit, Hit
    <3>2. cached.identity \in Identities
      BY <1>1, <3>1 DEF Entries
    <3>3. call' \in [Callers -> CallRecords]
      BY <1>1, <3>1, <3>2 DEF CallRecords
    <3>4. \A d \in Callers : Knows(d)' => call'[d].identity \in Identities
      BY <1>1, <3>1, <3>2 DEF AccessTypeOK
    <3>. QED  BY <3>1, <3>3, <3>4 DEF AccessTypeOK
  <2>. QED  BY <2>1, <2>2
<1>3. CASE LookupMiss(c)
  <2>1. UNCHANGED <<row, changed, cached, bucket, writer, pending, written, admin, clock>>
    BY <1>3 DEF LookupMiss
  <2>. QED  BY <1>3, <2>1, MissEffect DEF AccessTypeOK
<1>4. CASE Authenticate(c)
  <2>1. UNCHANGED <<row, changed, cached, bucket, writer, pending, written, admin, clock>>
    BY <1>4 DEF Authenticate
  <2>2. CASE Leaves(c)
    BY <2>1, <2>2, LeavesKeeps DEF AccessTypeOK
  <2>3. CASE ~Leaves(c)
    BY <1>4, <2>1, <2>3, AuthenticateEffect DEF AccessTypeOK
  <2>. QED  BY <2>2, <2>3
<1>5. CASE Store(c)
  <2>1. /\ call[c].at = "read" /\ cached' = [identity |-> call[c].identity, until |-> call[c].since + CacheTTL]
        /\ Goes(c, "known")
        /\ UNCHANGED <<row, changed, bucket, writer, pending, written, admin, clock>>
    BY <1>5 DEF Store, ExpiryOfEntry
  <2>2. call[c].identity \in Identities /\ call[c].since \in Nat
    BY <1>1, <2>1 DEF AccessTypeOK, CallRecords
  <2>3. cached' \in Entries
    BY <2>1, <2>2 DEF Entries, CacheTTL
  <2>. QED  BY <2>1, <2>2, <2>3, GoesKeeps DEF AccessTypeOK
<1>6. CASE BeginRequest(c)
  <2>1. UNCHANGED <<row, changed, cached, writer, pending, written, admin, clock>>
    BY <1>6 DEF BeginRequest
  <2>2. /\ call[c].identity \in Identities /\ bucket' \in Buckets \cup {None}
        /\ Goes(c, "running") \/ Leaves(c)
    BY <1>6, BeginEffect
  <2>3. CASE Goes(c, "running")
    BY <2>1, <2>2, <2>3, GoesKeeps DEF AccessTypeOK
  <2>4. CASE Leaves(c)
    BY <2>1, <2>2, <2>4, LeavesKeeps DEF AccessTypeOK
  <2>. QED  BY <2>2, <2>3, <2>4
<1>7. ASSUME NEW n \in Usage, ChargeUsage(c, n)
      PROVE  AccessTypeOK'
  <2>. DEFINE at == IF call[c].identity.policy.budget > 0 THEN "charged" ELSE "served"
  <2>1. Goes(c, at) /\ UNCHANGED <<row, changed, cached, writer, pending, written, admin, clock>>
    BY <1>7 DEF ChargeUsage
  <2>2. call[c].at = "running" /\ bucket' \in Buckets
    BY <1>7, ChargeEffect
  <2>3. call[c].identity \in Identities /\ at \in {"charged", "served"}
    BY <2>2 DEF AccessTypeOK
  <2>. HIDE DEF at
  <2>. QED  BY <2>1, <2>2, <2>3, GoesKeeps DEF AccessTypeOK
<1>8. CASE PersistConsumed(c)
  <2>1. /\ call[c].at = "charged" /\ Goes(c, "served")
        /\ UNCHANGED <<row, changed, cached, bucket, written, admin, clock>>
        /\ \/ UNCHANGED <<writer, pending>>
           \/ /\ pending' = TRUE
              /\ writer' = [writer EXCEPT ![c] = [at |-> "started", since |-> clock, value |-> 0]]
    BY <1>8 DEF PersistConsumed, NoWriter
  <2>2. writer' \in [Callers -> WriterRecords] /\ pending' \in BOOLEAN
    <3>1. [at |-> "started", since |-> clock, value |-> 0] \in WriterRecords
      BY <1>1 DEF WriterRecords
    <3>2. pending \in BOOLEAN
      BY DEF AccessTypeOK
    <3>3. CASE UNCHANGED <<writer, pending>>
      BY <1>1, <3>2, <3>3
    <3>4. CASE ~UNCHANGED <<writer, pending>>
      BY <1>1, <2>1, <3>1, <3>4
    <3>. QED  BY <3>3, <3>4
  <2>. QED  BY <2>1, <2>2, GoesKeeps DEF AccessTypeOK
<1>9. CASE EndRequest(c)
  <2>1. /\ Leaves(c) /\ bucket' = Released(bucket)
        /\ UNCHANGED <<row, changed, cached, writer, pending, written, admin, clock>>
    BY <1>9 DEF EndRequest
  <2>2. bucket' \in Buckets \cup {None}
    BY <2>1, ReleaseEffect
  <2>. QED  BY <2>1, <2>2, LeavesKeeps DEF AccessTypeOK
<1>. QED  BY <1>2, <1>3, <1>4, <1>5, <1>6, <1>7, <1>8, <1>9 DEF AccessRequest

\* The write-back, the administrator, the eviction, the restart and the clock
\* keep the types.
LEMMA ServiceTypes ==
  ASSUME AccessTypeOK,
         (\E c \in Callers : AccessWriter(c)) \/ AccessAdmin \/ Evict \/ RestartProcess
           \/ HalfMinute \/ UNCHANGED accessVars
  PROVE  AccessTypeOK'
<1>. USE DEF Knows
<1>1. /\ clock \in Nat /\ row \in Rows /\ changed \in [at : Nat, times : Nat]
      /\ call \in [Callers -> CallRecords] /\ writer \in [Callers -> WriterRecords]
      /\ cached \in Entries \cup {None} /\ bucket \in Buckets \cup {None}
  BY DEF AccessTypeOK
<1>2. NoWriter \in WriterRecords /\ NoCall \in CallRecords /\ Done \in CallRecords
  BY DEF NoWriter, WriterRecords, NoCall, Done, CallRecords
<1>3. ASSUME NEW c \in Callers, WriterReads(c)
      PROVE  AccessTypeOK'
  <2>. DEFINE value == IF bucket = None THEN 0 ELSE bucket.spent
  <2>1. /\ writer' = [writer EXCEPT ![c].at = "writing", ![c].value = value]
        /\ UNCHANGED <<row, changed, cached, bucket, call, pending, written, admin, clock>>
    BY <1>3 DEF WriterReads
  <2>2. value \in Nat
    BY <1>1 DEF Buckets
  <2>. HIDE DEF value
  <2>3. writer' \in [Callers -> WriterRecords]
    BY <1>1, <2>1, <2>2 DEF WriterRecords
  <2>. QED  BY <2>1, <2>3 DEF AccessTypeOK
<1>4. ASSUME NEW c \in Callers, WriterWrites(c)
      PROVE  AccessTypeOK'
  <2>1. UNCHANGED <<changed, cached, bucket, call, pending, written, admin, clock>>
    BY <1>4 DEF WriterWrites
  <2>2. PICK at \in {"written", "failed"} : writer' = [writer EXCEPT ![c] = [writer[c] EXCEPT !.at = at]]
    BY <1>4 DEF WriterWrites
  <2>3. writer[c] \in WriterRecords /\ [writer[c] EXCEPT !.at = at] \in WriterRecords
    BY <1>1 DEF WriterRecords
  <2>4. writer' \in [Callers -> WriterRecords]
    BY <1>1, <2>2, <2>3
  <2>5. [row EXCEPT !.spent = writer[c].value] \in Rows
    BY <1>1, <2>3 DEF Rows, WriterRecords
  <2>6. row' \in Rows
    BY <1>1, <1>4, <2>5 DEF WriterWrites
  <2>. QED  BY <2>1, <2>4, <2>6 DEF AccessTypeOK
<1>5. ASSUME NEW c \in Callers, WriterEnds(c)
      PROVE  AccessTypeOK'
  <2>1. /\ writer' = [writer EXCEPT ![c] = NoWriter] /\ pending' = FALSE
        /\ UNCHANGED <<row, changed, cached, bucket, call, admin, clock>>
    BY <1>5 DEF WriterEnds
  <2>2. writer' \in [Callers -> WriterRecords]
    BY <1>1, <1>2, <2>1
  <2>. QED  BY <2>1, <2>2 DEF AccessTypeOK
<1>6. ASSUME NEW new \in Rows, Alters(new)
      PROVE  row' \in Rows /\ changed' \in [at : Nat, times : Nat]
  BY <1>1, <1>6 DEF Alters
<1>7. ASSUME NEW p \in Policies, NEW keep \in BOOLEAN, UpdatePolicy(p, keep)
      PROVE  AccessTypeOK'
  <2>. DEFINE q == IF keep THEN [p EXCEPT !.budget = row.policy.budget] ELSE p
  <2>1. p \in AnyPolicy /\ row.policy \in AnyPolicy
    BY <1>1, AccessAssumption DEF Rows
  <2>2. q \in AnyPolicy
    BY <2>1 DEF AnyPolicy
  <2>3. WithPolicy(p, keep) = [row EXCEPT !.policy = q]
    BY DEF WithPolicy
  <2>. HIDE DEF q
  <2>4. WithPolicy(p, keep) \in Rows
    BY <1>1, <2>2, <2>3 DEF Rows
  <2>5. /\ Alters(WithPolicy(p, keep)) /\ admin' = "policy"
        /\ UNCHANGED <<cached, bucket, call, writer, pending, written, clock>>
    BY <1>7 DEF UpdatePolicy
  <2>. QED  BY <1>6, <2>4, <2>5 DEF AccessTypeOK
<1>8. CASE Revoke
  <2>. DEFINE new == IF Active THEN [row EXCEPT !.life = "revoked"] ELSE row
  <2>1. new \in Rows
    BY <1>1 DEF Rows
  <2>2. /\ Alters(new) /\ admin' = "revoke"
        /\ UNCHANGED <<cached, bucket, call, writer, pending, written, clock>>
    BY <1>8 DEF Revoke
  <2>. HIDE DEF new
  <2>. QED  BY <1>6, <2>1, <2>2 DEF AccessTypeOK
<1>9. CASE Delete
  <2>. DEFINE new == [row EXCEPT !.life = "deleted"]
  <2>1. new \in Rows
    BY <1>1 DEF Rows
  <2>2. /\ Alters(new) /\ admin' = "revoke"
        /\ UNCHANGED <<cached, bucket, call, writer, pending, written, clock>>
    BY <1>9 DEF Delete
  <2>. HIDE DEF new
  <2>. QED  BY <1>6, <2>1, <2>2 DEF AccessTypeOK
<1>10. CASE Invalidate
  BY <1>10 DEF Invalidate, AccessTypeOK
<1>11. CASE ForgetWrites
  BY <1>11 DEF ForgetWrites, AccessTypeOK
<1>12. CASE RemoveBucket
  BY <1>12 DEF RemoveBucket, AccessTypeOK
<1>13. CASE Evict
  BY <1>13 DEF Evict, AccessTypeOK
<1>14. CASE RestartProcess
  <2>1. /\ changed' = [changed EXCEPT !.times = changed.times + 1]
        /\ cached' = None /\ bucket' = None
        /\ call' = [c \in Callers |-> IF call[c] = NoCall THEN NoCall ELSE Done]
        /\ writer' = [c \in Callers |-> NoWriter]
        /\ pending' = FALSE /\ admin' = "idle" /\ UNCHANGED <<row, clock>>
    BY <1>14 DEF RestartProcess
  <2>2. call' \in [Callers -> CallRecords] /\ writer' \in [Callers -> WriterRecords]
    BY <1>2, <2>1
  <2>3. changed' \in [at : Nat, times : Nat]
    BY <1>1, <2>1
  <2>4. \A c \in Callers : call'[c].at \in {"idle", "done"}
    BY <2>1 DEF NoCall, Done
  <2>. QED  BY <1>1, <2>1, <2>2, <2>3, <2>4 DEF AccessTypeOK
<1>15. CASE HalfMinute
  BY <1>15 DEF HalfMinute, AccessTypeOK
<1>16. CASE UNCHANGED accessVars
  BY <1>16 DEF accessVars, AccessTypeOK
<1>. QED  BY <1>3, <1>4, <1>5, <1>7, <1>8, <1>9, <1>10, <1>11, <1>12, <1>13, <1>14, <1>15, <1>16
          DEF AccessWriter, AccessAdmin

(***************************************************************************)
(* Access keys: the slots                                                  *)
(***************************************************************************)
Counts(c) ==
  call[c].at \in {"running", "charged", "served"} /\ Limited(call[c].identity.policy)

\* What a step of one request can do to the requests that hold a slot.
LEMMA CountingChange ==
  ASSUME NEW c \in Callers, \A d \in Callers \ {c} : call'[d] = call[d]
  PROVE  /\ (Counts(c)' <=> Counts(c)) => Counting' = Counting
         /\ Counts(c)' /\ ~Counts(c) => Counting' = Counting \cup {c} /\ c \notin Counting
         /\ ~Counts(c)' /\ Counts(c) => Counting' = Counting \ {c} /\ c \in Counting
<1>1. Counting = {d \in Callers : Counts(d)} /\ Counting' = {d \in Callers : Counts(d)'}
  BY DEF Counting, Serving, Counts
<1>2. \A d \in Callers \ {c} : Counts(d)' <=> Counts(d)
  BY DEF Counts
<1>. HIDE DEF Counts
<1>. QED  BY <1>1, <1>2, Zenon

\* The requests that hold a slot can be counted.
LEMMA CountingIsFinite == IsFiniteSet(Counting) /\ Cardinality(Counting) \in Nat
<1>1. Counting \subseteq Callers
  BY DEF Counting, Serving
<1>. QED  BY <1>1, AccessAssumption, FS_Subset, FS_CardinalityType

\* No step leaves a slot behind that no request holds.
LEMMA SlotsStep ==
  ASSUME AccessTypeOK, NoSlotLeaked, [AccessNext]_accessVars
  PROVE  NoSlotLeaked'
<1>1. bucket \in Buckets \cup {None} /\ (bucket # None => bucket.slots \in Nat)
  BY DEF AccessTypeOK, Buckets
<1>2. IsFiniteSet(Counting) /\ Cardinality(Counting) \in Nat
  BY CountingIsFinite
<1>3. ASSUME Counting' = Counting, bucket' = bucket
      PROVE  NoSlotLeaked'
  BY <1>3 DEF NoSlotLeaked
<1>4. ASSUME NEW c \in Callers, AccessRequest(c)
      PROVE  NoSlotLeaked'
  <2>1. CASE LookupHit(c)
    <3>1. call[c].at = "idle" /\ bucket' = bucket
      BY <2>1 DEF LookupHit
    <3>2. CASE Leaves(c)
      BY <1>3, <3>1, <3>2, LeavesKeeps, CountingChange DEF Counts
    <3>3. CASE ~Leaves(c)
      <4>1. call' = [call EXCEPT ![c] = [at |-> "known", since |-> clock, identity |-> cached.identity]]
        BY <2>1, <3>3 DEF LookupHit
      <4>2. call'[c].at = "known" /\ \A d \in Callers \ {c} : call'[d] = call[d]
        BY <4>1 DEF AccessTypeOK
      <4>. QED  BY <1>3, <3>1, <4>2, CountingChange DEF Counts
    <3>. QED  BY <3>2, <3>3
  <2>2. CASE LookupMiss(c)
    <3>1. call[c].at = "idle" /\ bucket' = bucket
      BY <2>2 DEF LookupMiss
    <3>. QED  BY <1>3, <2>2, <3>1, MissEffect, CountingChange DEF Counts
  <2>3. CASE Authenticate(c)
    <3>1. call[c].at = "missed" /\ bucket' = bucket
      BY <2>3 DEF Authenticate
    <3>2. CASE Leaves(c)
      BY <1>3, <3>1, <3>2, LeavesKeeps, CountingChange DEF Counts
    <3>3. CASE ~Leaves(c)
      BY <1>3, <2>3, <3>1, <3>3, AuthenticateEffect, CountingChange DEF Counts
    <3>. QED  BY <3>2, <3>3
  <2>4. CASE Store(c)
    <3>1. call[c].at = "read" /\ bucket' = bucket /\ Goes(c, "known")
      BY <2>4 DEF Store
    <3>. QED  BY <1>3, <3>1, GoesKeeps, CountingChange DEF Counts
  <2>5. CASE BeginRequest(c)
    <3>. DEFINE i == call[c].identity
                b == Seed(Rotated, i)
    <3>1. /\ call[c].at = "known" /\ i \in Identities /\ b \in Buckets /\ bucket' \in Buckets \cup {None}
          /\ \/ Goes(c, "running") /\ bucket' = bucket /\ ~Limited(i.policy)
             \/ Leaves(c) /\ bucket' = b
             \/ /\ Goes(c, "running") /\ Limited(i.policy) /\ bucket' \in Buckets
                /\ bucket'.slots = b.slots + 1
      BY <2>5, BeginEffect
    <3>2. b.slots \in Nat /\ b.slots <= Cardinality(Counting)
      <4>1. b.slots = Rotated.slots
        BY <3>1, RotatedKeeps, SeedKeeps
      <4>. QED  BY <1>1, <1>2, <4>1, RotatedKeeps DEF NoSlotLeaked
    <3>3. ~Counts(c)
      BY <3>1 DEF Counts
    <3>. HIDE DEF b
    <3>4. CASE Goes(c, "running") /\ bucket' = bucket /\ ~Limited(i.policy)
      BY <1>3, <3>3, <3>4, GoesKeeps, CountingChange DEF Counts
    <3>5. CASE Leaves(c) /\ bucket' = b
      <4>1. Counting' = Counting
        BY <3>3, <3>5, LeavesKeeps, CountingChange DEF Counts
      <4>. QED  BY <3>2, <3>5, <4>1 DEF NoSlotLeaked
    <3>6. CASE Goes(c, "running") /\ Limited(i.policy) /\ bucket'.slots = b.slots + 1
      <4>1. Counting' = Counting \cup {c} /\ c \notin Counting
        BY <3>3, <3>6, GoesKeeps, CountingChange DEF Counts
      <4>2. Cardinality(Counting') = Cardinality(Counting) + 1
        BY <1>2, <4>1, FS_AddElement
      <4>. QED  BY <1>2, <3>2, <3>6, <4>2 DEF NoSlotLeaked
    <3>. QED  BY <3>1, <3>4, <3>5, <3>6
  <2>6. ASSUME NEW n \in Usage, ChargeUsage(c, n)
        PROVE  NoSlotLeaked'
    <3>. DEFINE at == IF call[c].identity.policy.budget > 0 THEN "charged" ELSE "served"
    <3>1. Goes(c, at) /\ at \in {"charged", "served"}
      BY <2>6 DEF ChargeUsage
    <3>2. call[c].at = "running" /\ bucket'.slots = Rotated.slots
      BY <2>6, ChargeEffect
    <3>. HIDE DEF at
    <3>3. /\ call'[c].at = at /\ call'[c].identity = call[c].identity
          /\ \A d \in Callers \ {c} : call'[d] = call[d]
      BY <3>1, GoesKeeps
    <3>4. Counting' = Counting
      BY <3>1, <3>2, <3>3, CountingChange DEF Counts
    <3>. QED  BY <1>1, <1>2, <3>2, <3>4, RotatedKeeps DEF NoSlotLeaked
  <2>7. CASE PersistConsumed(c)
    <3>1. call[c].at = "charged" /\ bucket' = bucket /\ Goes(c, "served")
      BY <2>7 DEF PersistConsumed
    <3>2. /\ call'[c].at = "served" /\ call'[c].identity = call[c].identity
          /\ \A d \in Callers \ {c} : call'[d] = call[d]
      BY <3>1, GoesKeeps
    <3>. QED  BY <1>3, <3>1, <3>2, CountingChange DEF Counts
  <2>8. CASE EndRequest(c)
    <3>1. bucket' = Released(bucket) /\ Leaves(c)
      BY <2>8 DEF EndRequest
    <3>2. call'[c].at = "done" /\ \A d \in Callers \ {c} : call'[d] = call[d]
      BY <3>1, LeavesKeeps
    <3>3. Counting' = Counting \/ (Counting' = Counting \ {c} /\ c \in Counting)
      BY <3>2, CountingChange DEF Counts
    <3>4. Cardinality(Counting') >= Cardinality(Counting) - 1 /\ Cardinality(Counting') \in Nat
      <4>1. CASE Counting' = Counting
        BY <1>2, <4>1
      <4>2. CASE Counting' = Counting \ {c} /\ c \in Counting
        <5>1. /\ IsFiniteSet(Counting \ {c})
              /\ Cardinality(Counting \ {c}) = Cardinality(Counting) - 1
          BY <1>2, <4>2, FS_RemoveElement
        <5>2. Cardinality(Counting \ {c}) \in Nat
          BY <5>1, FS_CardinalityType
        <5>. QED  BY <1>2, <4>2, <5>1, <5>2
      <4>. QED  BY <3>3, <4>1, <4>2
    <3>. QED  BY <1>1, <1>2, <3>1, <3>4, ReleaseEffect DEF NoSlotLeaked
  <2>. QED  BY <1>4, <2>1, <2>2, <2>3, <2>4, <2>5, <2>6, <2>7, <2>8 DEF AccessRequest
<1>5. CASE UNCHANGED <<call, bucket>>
  <2>1. Counting' = Counting
    BY <1>5 DEF Counting, Serving
  <2>. QED  BY <1>3, <1>5, <2>1
<1>6. CASE bucket' = None
  BY <1>6 DEF NoSlotLeaked
<1>7. ASSUME NEW c \in Callers, AccessWriter(c)
      PROVE  UNCHANGED <<call, bucket>>
  BY <1>7 DEF AccessWriter, WriterReads, WriterWrites, WriterEnds
<1>8. AccessAdmin => UNCHANGED <<call, bucket>> \/ bucket' = None
  BY DEF AccessAdmin, UpdatePolicy, Revoke, Delete, Invalidate, ForgetWrites, RemoveBucket
<1>9. Evict \/ RestartProcess \/ HalfMinute \/ UNCHANGED accessVars
        => UNCHANGED <<call, bucket>> \/ bucket' = None
  BY DEF Evict, RestartProcess, HalfMinute, accessVars
<1>. QED  BY <1>4, <1>5, <1>6, <1>7, <1>8, <1>9 DEF AccessNext

(***************************************************************************)
(* Access keys: the cache                                                  *)
(***************************************************************************)
\* The clock readings of ReadingsArePast and the life of a stale entry, step by
\* step: an entry is dated back to before its row was read, so that it cannot be
\* stored with a later expiry than the change it missed allows.
LEMMA CacheStep ==
  ASSUME AccessTypeOK, ReadingsArePast, StaleAtMostTTL, [AccessNext]_accessVars
  PROVE  ReadingsArePast' /\ StaleAtMostTTL'
<1>. USE DEF CacheTTL
<1>1. /\ clock \in Nat /\ changed.at \in Nat /\ changed \in [at : Nat, times : Nat]
      /\ cached \in Entries \cup {None}
      /\ call \in [Callers -> CallRecords] /\ \A d \in Callers : call[d].since \in Nat
  BY DEF AccessTypeOK, CallRecords
<1>2. cached # None => cached.until \in Nat
  BY <1>1 DEF Entries
<1>3. ASSUME NEW c \in Callers, UNCHANGED <<row, changed, clock>>,
             cached' = cached \/ cached' = None,
             \A d \in Callers \ {c} : call'[d] = call[d],
             call'[c].since \in Nat, call'[c].since <= clock, call'[c].at # "read"
      PROVE  ReadingsArePast' /\ StaleAtMostTTL'
  <2>1. Active' <=> Active
    BY <1>3 DEF Active
  <2>2. StaleAtMostTTL'
    BY <1>3, <2>1 DEF StaleAtMostTTL
  <2>3. ReadingsArePast'
    BY <1>3, <2>1 DEF ReadingsArePast
  <2>. QED  BY <2>2, <2>3
<1>4. ASSUME NEW c \in Callers, AccessRequest(c), ~Store(c), ~Authenticate(c)
      PROVE  ReadingsArePast' /\ StaleAtMostTTL'
  <2>0. call[c].since <= clock /\ call[c].since \in Nat
    BY <1>1 DEF ReadingsArePast
  <2>1. CASE LookupHit(c)
    <3>1. UNCHANGED <<row, changed, clock>> /\ (cached' = cached \/ cached' = None)
      BY <2>1 DEF LookupHit
    <3>2. CASE Leaves(c)
      BY <1>1, <1>3, <3>1, <3>2, LeavesKeeps
    <3>3. CASE ~Leaves(c)
      <4>1. call' = [call EXCEPT ![c] = [at |-> "known", since |-> clock, identity |-> cached.identity]]
        BY <2>1, <3>3 DEF LookupHit
      <4>. QED  BY <1>1, <1>3, <3>1, <4>1
    <3>. QED  BY <3>2, <3>3
  <2>2. CASE LookupMiss(c)
    <3>1. UNCHANGED <<row, changed, clock, cached>>
      BY <2>2 DEF LookupMiss
    <3>. QED  BY <1>1, <1>3, <2>2, <3>1, MissEffect
  <2>3. CASE BeginRequest(c)
    <3>1. UNCHANGED <<row, changed, clock, cached>>
      BY <2>3 DEF BeginRequest
    <3>2. Goes(c, "running") \/ Leaves(c)
      BY <2>3, BeginEffect
    <3>3. CASE Goes(c, "running")
      BY <1>1, <1>3, <2>0, <3>1, <3>3, GoesKeeps
    <3>4. CASE Leaves(c)
      BY <1>1, <1>3, <3>1, <3>4, LeavesKeeps
    <3>. QED  BY <3>2, <3>3, <3>4
  <2>4. ASSUME NEW n \in Usage, ChargeUsage(c, n)
        PROVE  ReadingsArePast' /\ StaleAtMostTTL'
    <3>. DEFINE at == IF call[c].identity.policy.budget > 0 THEN "charged" ELSE "served"
    <3>1. UNCHANGED <<row, changed, clock, cached>> /\ Goes(c, at) /\ at \in {"charged", "served"}
      BY <2>4 DEF ChargeUsage
    <3>. HIDE DEF at
    <3>2. call'[c].at = at /\ call'[c].since = call[c].since /\ \A d \in Callers \ {c} : call'[d] = call[d]
      BY <3>1, GoesKeeps
    <3>. QED  BY <1>1, <1>3, <2>0, <3>1, <3>2
  <2>5. CASE PersistConsumed(c)
    <3>1. UNCHANGED <<row, changed, clock, cached>> /\ Goes(c, "served")
      BY <2>5 DEF PersistConsumed
    <3>. QED  BY <1>1, <1>3, <2>0, <3>1, GoesKeeps
  <2>6. CASE EndRequest(c)
    <3>1. UNCHANGED <<row, changed, clock, cached>> /\ Leaves(c)
      BY <2>6 DEF EndRequest
    <3>. QED  BY <1>1, <1>3, <3>1, LeavesKeeps
  <2>. QED  BY <1>4, <2>1, <2>2, <2>3, <2>4, <2>5, <2>6 DEF AccessRequest
<1>5. ASSUME NEW c \in Callers, Authenticate(c)
      PROVE  ReadingsArePast' /\ StaleAtMostTTL'
  <2>1. UNCHANGED <<row, changed, cached, clock>>
    BY <1>5 DEF Authenticate
  <2>2. CASE Leaves(c)
    BY <1>1, <1>3, <2>1, <2>2, LeavesKeeps
  <2>3. CASE ~Leaves(c)
    <3>1. /\ call'[c].at = "read" /\ Active /\ call'[c].since = call[c].since
          /\ call'[c].identity.policy = row.policy
          /\ \A d \in Callers \ {c} : call'[d] = call[d]
      BY <1>5, <2>3, AuthenticateEffect
    <3>2. Active' <=> Active
      BY <2>1 DEF Active
    <3>3. StaleAtMostTTL'
      BY <2>1, <3>2 DEF StaleAtMostTTL
    <3>4. ReadingsArePast'
      BY <2>1, <3>1, <3>2 DEF ReadingsArePast
    <3>. QED  BY <3>3, <3>4
  <2>. QED  BY <2>2, <2>3
<1>6. ASSUME NEW c \in Callers, Store(c)
      PROVE  ReadingsArePast' /\ StaleAtMostTTL'
  <2>1. /\ UNCHANGED <<row, changed, clock>> /\ Goes(c, "known") /\ call[c].at = "read"
        /\ cached' = [identity |-> call[c].identity, until |-> call[c].since + CacheTTL]
    BY <1>6 DEF Store, ExpiryOfEntry
  <2>2. /\ call'[c].at = "known" /\ call'[c].since = call[c].since
        /\ \A d \in Callers \ {c} : call'[d] = call[d]
    BY <2>1, GoesKeeps
  <2>3. Active' <=> Active
    BY <2>1 DEF Active
  <2>4. cached'.until = call[c].since + CacheTTL /\ cached'.identity = call[c].identity
    BY <2>1
  <2>5. /\ call[c].since <= clock
        /\ ~Active \/ call[c].identity.policy # row.policy => call[c].since <= changed.at
    BY <2>1 DEF ReadingsArePast
  <2>6. StaleAtMostTTL'
    BY <1>1, <2>1, <2>3, <2>4, <2>5 DEF StaleAtMostTTL
  <2>7. ReadingsArePast'
    BY <1>1, <2>1, <2>2, <2>3, <2>4, <2>5 DEF ReadingsArePast
  <2>. QED  BY <2>6, <2>7
<1>7. ASSUME NEW new, Alters(new), UNCHANGED <<cached, call, clock>>
      PROVE  ReadingsArePast' /\ StaleAtMostTTL'
  <2>1. row' = new /\ changed'.at = (IF new = row THEN changed.at ELSE clock)
    BY <1>7 DEF Alters
  <2>2. CASE new = row
    <3>1. row' = row /\ changed'.at = changed.at /\ (Active' <=> Active)
      BY <2>1, <2>2 DEF Active
    <3>. QED  BY <1>7, <3>1 DEF ReadingsArePast, StaleAtMostTTL
  <2>3. CASE new # row
    <3>1. changed'.at = clock
      BY <2>1, <2>3
    <3>. QED  BY <1>1, <1>2, <1>7, <3>1 DEF ReadingsArePast, StaleAtMostTTL
  <2>. QED  BY <2>2, <2>3
<1>8. ASSUME UNCHANGED <<row, changed, call, clock>>, cached' = cached \/ cached' = None
      PROVE  ReadingsArePast' /\ StaleAtMostTTL'
  <2>1. Active' <=> Active
    BY <1>8 DEF Active
  <2>. QED  BY <1>8, <2>1 DEF ReadingsArePast, StaleAtMostTTL
<1>9. AccessAdmin => ReadingsArePast' /\ StaleAtMostTTL'
  BY <1>7, <1>8 DEF AccessAdmin, UpdatePolicy, Revoke, Delete, Invalidate, ForgetWrites, RemoveBucket
<1>10. ASSUME NEW c \in Callers, AccessWriter(c)
       PROVE  ReadingsArePast' /\ StaleAtMostTTL'
  <2>1. CASE WriterReads(c) \/ WriterEnds(c)
    BY <1>8, <2>1 DEF WriterReads, WriterEnds
  <2>2. CASE WriterWrites(c)
    <3>1. UNCHANGED <<changed, cached, call, clock>>
      BY <2>2 DEF WriterWrites
    <3>2. row' = row \/ row' = [row EXCEPT !.spent = writer[c].value]
      BY <2>2 DEF WriterWrites
    <3>3. row'.life = row.life /\ row'.policy = row.policy
      BY <3>2 DEF AccessTypeOK, Rows
    <3>4. Active' <=> Active
      BY <3>3 DEF Active
    <3>. QED  BY <3>1, <3>3, <3>4 DEF ReadingsArePast, StaleAtMostTTL
  <2>. QED  BY <1>10, <2>1, <2>2 DEF AccessWriter
<1>11. CASE Evict \/ UNCHANGED accessVars
  BY <1>8, <1>11 DEF Evict, accessVars
<1>12. CASE RestartProcess
  <2>1. /\ changed' = [changed EXCEPT !.times = changed.times + 1] /\ cached' = None
        /\ call' = [c \in Callers |-> IF call[c] = NoCall THEN NoCall ELSE Done]
        /\ UNCHANGED <<row, clock>>
    BY <1>12 DEF RestartProcess
  <2>2. \A c \in Callers : call'[c].since = 0 /\ call'[c].at # "read"
    BY <2>1 DEF NoCall, Done
  <2>3. changed'.at = changed.at
    BY <1>1, <2>1
  <2>. QED  BY <1>1, <2>1, <2>2, <2>3 DEF ReadingsArePast, StaleAtMostTTL
<1>13. CASE HalfMinute
  <2>1. clock' = clock + 1 /\ UNCHANGED <<row, changed, cached, call>> /\ (Active' <=> Active)
    BY <1>13 DEF HalfMinute, Active
  <2>. QED  BY <1>1, <1>2, <2>1 DEF ReadingsArePast, StaleAtMostTTL
<1>. QED  BY <1>4, <1>5, <1>6, <1>9, <1>10, <1>11, <1>12, <1>13 DEF AccessNext

(***************************************************************************)
(* Access keys: the spent budget                                           *)
(***************************************************************************)
\* What a step of a request owes the count: the bucket's does not shrink, and the
\* request itself has what SpendInOrder asks of it.
LEMMA SpendFrame ==
  ASSUME AccessTypeOK, AccessTypeOK', SpendIsBehind, NEW c \in Callers,
         UNCHANGED <<row, admin, writer, pending>>,
         \A d \in Callers \ {c} : call'[d] = call[d],
         Active => /\ Seeded => Seeded' /\ bucket.spent <= bucket'.spent
                   /\ Seeded' => row.spent <= bucket'.spent
                   /\ cached' # None /\ ~Seeded' => cached'.identity.spent = row.spent
                   /\ Knows(c)' /\ ~Seeded' => call'[c].identity.spent = row.spent
                   /\ call'[c].at \in {"running", "charged", "served"}
                        /\ Limited(call'[c].identity.policy) => Seeded'
                   /\ call'[c].at = "charged" => call'[c].identity.policy.budget > 0
  PROVE  SpendIsBehind'
<1>1. Active' <=> Active
  BY DEF Active
<1>2. CASE ~Active
  BY <1>1, <1>2 DEF SpendIsBehind
<1>3. CASE Active
  <2>1. ASSUME NEW d \in Callers
        PROVE  SpendInOrder(d)'
    <3>1. SpendInOrder(d)
      BY <1>3 DEF SpendIsBehind
    <3>2. /\ writer'[d].at # "none" => Seeded' /\ pending'
          /\ \A e \in Callers : writer'[d].at # "none" /\ writer'[e].at # "none" => d = e
      BY <1>3, <3>1 DEF SpendInOrder
    <3>3. /\ writer[d].value \in Nat /\ row.spent \in Nat
          /\ bucket # None => bucket.spent \in Nat
          /\ bucket' # None => bucket'.spent \in Nat
      BY DEF AccessTypeOK, WriterRecords, Rows, Buckets
    <3>4. writer'[d].at = "writing" => row'.spent <= writer'[d].value /\ writer'[d].value <= bucket'.spent
      <4>. SUFFICES ASSUME writer[d].at = "writing"
                    PROVE  row.spent <= writer[d].value /\ writer[d].value <= bucket'.spent
        OBVIOUS
      <4>1. Seeded /\ row.spent <= writer[d].value /\ writer[d].value <= bucket.spent
        BY <3>1 DEF SpendInOrder
      <4>2. Seeded' /\ bucket.spent <= bucket'.spent
        BY <1>3, <4>1
      <4>. QED  BY <3>3, <4>1, <4>2 DEF Seeded
    <3>5. CASE d = c
      BY <1>3, <3>2, <3>4, <3>5 DEF SpendInOrder
    <3>6. CASE d # c
      <4>1. call'[d] = call[d] /\ (Knows(d)' <=> Knows(d))
        BY <3>6 DEF Knows
      <4>. QED  BY <1>3, <3>1, <3>2, <3>4, <4>1 DEF SpendInOrder
    <3>. QED  BY <3>5, <3>6
  <2>. QED  BY <1>1, <1>3, <2>1 DEF SpendIsBehind
<1>. QED  BY <1>2, <1>3

\* The steps of a request keep the table's count behind the bucket's.
LEMMA RequestSpend ==
  ASSUME AccessTypeOK, AccessTypeOK', SpendIsBehind, NEW c \in Callers, AccessRequest(c)
  PROVE  SpendIsBehind'
<1>1. /\ bucket \in Buckets \cup {None} /\ row.spent \in Nat
      /\ bucket # None => bucket.spent \in Nat
      /\ Seeded => bucket # None
  BY DEF AccessTypeOK, Rows, Buckets, Seeded
<1>2. Active => /\ SpendInOrder(c) /\ (Seeded => row.spent <= bucket.spent)
                /\ cached # None /\ ~Seeded => cached.identity.spent = row.spent
  BY DEF SpendIsBehind
<1>3. bucket' = bucket => (Seeded' <=> Seeded)
  BY DEF Seeded
<1>4. CASE LookupHit(c)
  <2>1. UNCHANGED <<row, admin, writer, pending, bucket>> /\ cached # None
    BY <1>4 DEF LookupHit, Hit
  <2>2. CASE Leaves(c) /\ cached' = None
    <3>1. call'[c].at = "done" /\ \A d \in Callers \ {c} : call'[d] = call[d]
      BY <2>2, LeavesKeeps
    <3>. QED  BY <1>1, <1>2, <1>3, <2>1, <2>2, <3>1, SpendFrame DEF Knows
  <2>3. CASE ~(Leaves(c) /\ cached' = None)
    <3>1. /\ call' = [call EXCEPT ![c] = [at |-> "known", since |-> clock, identity |-> cached.identity]]
          /\ cached' = cached
      BY <1>4, <2>3 DEF LookupHit
    <3>2. /\ call'[c].at = "known" /\ call'[c].identity = cached.identity
          /\ \A d \in Callers \ {c} : call'[d] = call[d]
      BY <3>1 DEF AccessTypeOK
    <3>. QED  BY <1>1, <1>2, <1>3, <2>1, <3>1, <3>2, SpendFrame DEF Knows
  <2>. QED  BY <2>2, <2>3
<1>5. CASE LookupMiss(c)
  <2>1. UNCHANGED <<row, admin, writer, pending, bucket, cached>>
    BY <1>5 DEF LookupMiss
  <2>2. call'[c].at = "missed" /\ \A d \in Callers \ {c} : call'[d] = call[d]
    BY <1>5, MissEffect
  <2>. QED  BY <1>1, <1>2, <1>3, <2>1, <2>2, SpendFrame DEF Knows
<1>6. CASE Authenticate(c)
  <2>1. UNCHANGED <<row, admin, writer, pending, bucket, cached>>
    BY <1>6 DEF Authenticate
  <2>2. /\ call'[c].at = "done" \/ (call'[c].at = "read" /\ call'[c].identity.spent = row.spent)
        /\ \A d \in Callers \ {c} : call'[d] = call[d]
    BY <1>6, LeavesKeeps, AuthenticateEffect
  <2>. QED  BY <1>1, <1>2, <1>3, <2>1, <2>2, SpendFrame DEF Knows
<1>7. CASE Store(c)
  <2>1. /\ UNCHANGED <<row, admin, writer, pending, bucket>> /\ Goes(c, "known") /\ call[c].at = "read"
        /\ cached' = [identity |-> call[c].identity, until |-> call[c].since + CacheTTL]
    BY <1>7 DEF Store, ExpiryOfEntry
  <2>2. /\ call'[c].at = "known" /\ call'[c].identity = call[c].identity
        /\ \A d \in Callers \ {c} : call'[d] = call[d] /\ cached'.identity = call[c].identity
    BY <2>1, GoesKeeps
  <2>3. cached'.identity = call[c].identity
    BY <2>1
  <2>4. Active /\ ~Seeded => call[c].identity.spent = row.spent
    BY <1>2, <2>1 DEF SpendInOrder, Knows
  <2>. QED  BY <1>1, <1>2, <1>3, <2>1, <2>2, <2>3, <2>4, SpendFrame DEF Knows
<1>8. CASE BeginRequest(c)
  <2>. DEFINE i == call[c].identity
              b == Seed(Rotated, i)
  <2>1. UNCHANGED <<row, admin, writer, pending, cached>>
    BY <1>8 DEF BeginRequest
  <2>2. /\ call[c].at = "known" /\ i \in Identities /\ b \in Buckets
        /\ \/ Goes(c, "running") /\ bucket' = bucket /\ ~Limited(i.policy)
           \/ Leaves(c) /\ bucket' = b
           \/ /\ Goes(c, "running") /\ bucket' \in Buckets
              /\ bucket'.spent = b.spent /\ bucket'.seeded = b.seeded
    BY <1>8, BeginEffect
  <2>3. Active /\ ~Seeded => i.spent = row.spent
    BY <1>2, <2>2 DEF SpendInOrder, Knows
  <2>4. b.seeded /\ (Seeded => b.spent = bucket.spent) /\ (~Seeded => b.spent = i.spent)
    <3>1. b.seeded /\ b.spent = IF Rotated.seeded THEN Rotated.spent ELSE i.spent
      BY <2>2, RotatedKeeps, SeedKeeps
    <3>2. CASE Seeded
      BY <3>1, <3>2, RotatedKeeps DEF Seeded
    <3>3. CASE ~Seeded
      BY <3>1, <3>3, RotatedKeeps DEF Seeded
    <3>. QED  BY <3>1, <3>2, <3>3
  <2>5. /\ call'[c].at \in {"running", "done"} /\ (call'[c].at = "running" => call'[c].identity = i)
        /\ \A d \in Callers \ {c} : call'[d] = call[d]
    BY <2>2, LeavesKeeps, GoesKeeps
  <2>. HIDE DEF b
  <2>6. CASE Goes(c, "running") /\ bucket' = bucket /\ ~Limited(i.policy)
    <3>1. call'[c].at = "running"
      BY <2>6, GoesKeeps
    <3>. QED  BY <1>1, <1>2, <1>3, <2>1, <2>3, <2>5, <2>6, <3>1, SpendFrame DEF Knows
  <2>7. CASE bucket' \in Buckets /\ bucket'.spent = b.spent /\ bucket'.seeded = b.seeded
    <3>1. Seeded'
      BY <2>4, <2>7, AccessAssumption DEF Seeded
    <3>2. Active => row.spent <= bucket'.spent /\ (Seeded => bucket.spent <= bucket'.spent)
      BY <1>1, <1>2, <2>3, <2>4, <2>7
    <3>. QED  BY <2>1, <2>5, <3>1, <3>2, SpendFrame
  <2>. QED  BY <2>2, <2>6, <2>7
<1>9. ASSUME NEW n \in Usage, ChargeUsage(c, n)
      PROVE  SpendIsBehind'
  <2>. DEFINE at == IF call[c].identity.policy.budget > 0 THEN "charged" ELSE "served"
  <2>1. UNCHANGED <<row, admin, writer, pending, cached>> /\ Goes(c, at) /\ at \in {"charged", "served"}
    BY <1>9 DEF ChargeUsage
  <2>2. /\ call[c].at = "running" /\ bucket' \in Buckets /\ bucket'.seeded = Rotated.seeded
        /\ bucket'.spent = Rotated.spent + n /\ n \in Nat /\ Rotated.spent \in Nat
    BY <1>9, ChargeEffect
  <2>3. at = "charged" => call[c].identity.policy.budget > 0
    OBVIOUS
  <2>. HIDE DEF at
  <2>4. /\ call'[c].at = at /\ call'[c].identity = call[c].identity
        /\ \A d \in Callers \ {c} : call'[d] = call[d]
    BY <2>1, GoesKeeps
  <2>5. /\ Seeded' <=> Seeded
        /\ Seeded => bucket.spent <= bucket'.spent
    BY <1>1, <2>2, RotatedKeeps, AccessAssumption DEF Seeded
  <2>6. Active => /\ ~Seeded => call[c].identity.spent = row.spent
                  /\ Limited(call[c].identity.policy) => Seeded
    BY <1>2, <2>2 DEF SpendInOrder, Knows
  <2>7. Active /\ Seeded => row.spent <= bucket'.spent
    <3>1. Seeded => bucket.spent \in Nat /\ bucket'.spent \in Nat
      BY <1>1, <2>2
    <3>. QED  BY <1>1, <1>2, <2>5, <3>1
  <2>. QED  BY <1>2, <2>1, <2>3, <2>4, <2>5, <2>6, <2>7, SpendFrame
<1>10. CASE PersistConsumed(c)
  <2>1. /\ UNCHANGED <<row, admin, bucket, cached>> /\ Goes(c, "served") /\ call[c].at = "charged"
    BY <1>10 DEF PersistConsumed
  <2>2. /\ call'[c].at = "served" /\ call'[c].identity = call[c].identity
        /\ \A d \in Callers \ {c} : call'[d] = call[d]
    BY <2>1, GoesKeeps
  <2>3. Active => /\ ~Seeded => call[c].identity.spent = row.spent
                  /\ Limited(call[c].identity.policy) => Seeded
                  /\ call[c].identity.policy.budget > 0
    BY <1>2, <2>1 DEF SpendInOrder, Knows
  <2>4. CASE UNCHANGED <<writer, pending>>
    BY <1>1, <1>2, <1>3, <2>1, <2>2, <2>3, <2>4, SpendFrame
  <2>5. CASE ~UNCHANGED <<writer, pending>>
    <3>1. /\ ~pending /\ pending' = TRUE
          /\ writer'[c].at = "started" /\ \A d \in Callers \ {c} : writer'[d] = writer[d]
      <4>1. ~Throttled /\ pending' = TRUE
            /\ writer' = [writer EXCEPT ![c] = [NoWriter EXCEPT !.at = "started", !.since = clock]]
        BY <1>10, <2>5 DEF PersistConsumed
      <4>. DEFINE w == [NoWriter EXCEPT !.at = "started", !.since = clock]
      <4>2. w.at = "started"
        BY DEF NoWriter
      <4>. HIDE DEF w
      <4>3. writer' = [writer EXCEPT ![c] = w]
        BY <4>1 DEF w
      <4>4. writer'[c].at = "started" /\ \A d \in Callers \ {c} : writer'[d] = writer[d]
        BY <4>2, <4>3 DEF AccessTypeOK
      <4>. QED  BY <4>1, <4>4 DEF Throttled
    <3>3. CASE ~Active
      BY <2>1, <3>3 DEF SpendIsBehind, Active
    <3>4. CASE Active
      <4>1. Seeded
        BY <2>3, <3>4 DEF Limited
      <4>2. Seeded' /\ Active'
        BY <1>3, <2>1, <3>4, <4>1 DEF Active
      <4>3. \A d \in Callers : writer[d].at = "none"
        BY <3>1, <3>4 DEF SpendIsBehind, SpendInOrder
      <4>4. ASSUME NEW d \in Callers
            PROVE  SpendInOrder(d)'
        <5>1. SpendInOrder(d)
          BY <3>4 DEF SpendIsBehind
        <5>2. CASE d = c
          BY <2>1, <2>2, <3>1, <4>2, <4>3, <5>2 DEF SpendInOrder, Knows
        <5>3. CASE d # c
          BY <2>1, <2>2, <3>1, <4>1, <4>2, <4>3, <5>1, <5>3 DEF SpendInOrder, Knows
        <5>. QED  BY <5>2, <5>3
      <4>. QED  BY <1>2, <2>1, <3>4, <4>1, <4>2, <4>4 DEF SpendIsBehind
    <3>. QED  BY <3>3, <3>4
  <2>. QED  BY <2>4, <2>5
<1>11. CASE EndRequest(c)
  <2>1. /\ UNCHANGED <<row, admin, writer, pending, cached>> /\ Leaves(c) /\ bucket' = Released(bucket)
    BY <1>11 DEF EndRequest
  <2>2. call'[c].at = "done" /\ \A d \in Callers \ {c} : call'[d] = call[d]
    BY <2>1, LeavesKeeps
  <2>3. (Seeded' <=> Seeded) /\ (Seeded => bucket'.spent = bucket.spent)
    BY <2>1, ReleaseEffect DEF Seeded
  <2>. QED  BY <1>1, <1>2, <2>1, <2>2, <2>3, SpendFrame DEF Knows
<1>. QED  BY <1>4, <1>5, <1>6, <1>7, <1>8, <1>9, <1>10, <1>11 DEF AccessRequest

\* The write-back carries a count between the table's and the bucket's, and only
\* a key that is not active any more loses its bucket or its write-back's mark.
LEMMA ServiceSpend ==
  ASSUME AccessTypeOK, AccessTypeOK', SpendIsBehind,
         (\E c \in Callers : AccessWriter(c)) \/ AccessAdmin \/ Evict \/ RestartProcess
           \/ HalfMinute \/ UNCHANGED accessVars
  PROVE  SpendIsBehind'
<1>1. /\ row.spent \in Nat /\ bucket \in Buckets \cup {None} /\ row \in Rows
      /\ bucket # None => bucket.spent \in Nat
      /\ writer \in [Callers -> WriterRecords] /\ \A c \in Callers : writer[c].value \in Nat
  BY DEF AccessTypeOK, Rows, Buckets, WriterRecords
<1>2. Active => \A c \in Callers : SpendInOrder(c)
  BY DEF SpendIsBehind
<1>3. ASSUME row'.life # "active"
      PROVE  SpendIsBehind'
  BY <1>3 DEF SpendIsBehind, Active
<1>4. ASSUME row'.life = row.life, row'.spent = row.spent, UNCHANGED <<bucket, call, writer, pending>>,
             cached' = cached \/ cached' = None, admin' \in {admin, "idle", "policy"}
      PROVE  SpendIsBehind'
  <2>1. (Active' <=> Active) /\ (Seeded' <=> Seeded) /\ \A c \in Callers : Knows(c)' <=> Knows(c)
    BY <1>4 DEF Active, Seeded, Knows
  <2>2. ASSUME NEW c \in Callers, SpendInOrder(c)
        PROVE  SpendInOrder(c)'
    BY <1>4, <2>1, <2>2 DEF SpendInOrder
  <2>. QED  BY <1>4, <2>1, <2>2 DEF SpendIsBehind
<1>5. ASSUME NEW c \in Callers, NEW at, at # "none", writer[c].at # "none",
             \A d \in Callers \ {c} : writer'[d] = writer[d], writer'[c].at = at,
             Active => /\ row'.spent <= bucket.spent
                       /\ row'.spent \in Nat
                       /\ at = "writing" => row'.spent <= writer'[c].value /\ writer'[c].value <= bucket.spent,
             row'.life = row.life, UNCHANGED <<bucket, call, pending, cached, admin>>
      PROVE  SpendIsBehind'
  <2>1. (Active' <=> Active) /\ (Seeded' <=> Seeded) /\ \A d \in Callers : Knows(d)' <=> Knows(d)
    BY <1>5 DEF Active, Seeded, Knows
  <2>2. ASSUME Active
        PROVE  Seeded /\ pending /\ \A d \in Callers \ {c} : writer[d].at = "none"
    BY <1>2, <1>5, <2>2 DEF SpendInOrder
  <2>3. ASSUME Active, NEW d \in Callers
        PROVE  SpendInOrder(d)'
    <3>1. SpendInOrder(d)
      BY <1>2, <2>3
    <3>2. CASE d = c
      BY <1>5, <2>1, <2>2, <2>3, <3>1, <3>2 DEF SpendInOrder
    <3>3. CASE d # c
      BY <1>5, <2>1, <2>2, <2>3, <3>1, <3>3 DEF SpendInOrder
    <3>. QED  BY <3>2, <3>3
  <2>. QED  BY <1>5, <2>1, <2>2, <2>3 DEF SpendIsBehind
<1>6. ASSUME NEW c \in Callers, WriterReads(c)
      PROVE  SpendIsBehind'
  <2>. DEFINE value == IF bucket = None THEN 0 ELSE bucket.spent
              g == [writer EXCEPT ![c] = [writer[c] EXCEPT !.at = "writing"]]
  <2>1. /\ writer[c].at = "started" /\ writer' = [g EXCEPT ![c] = [g[c] EXCEPT !.value = value]]
        /\ UNCHANGED <<row, cached, bucket, call, pending, admin>>
    BY <1>6 DEF WriterReads
  <2>. HIDE DEF value
  <2>2. /\ g \in [Callers -> WriterRecords] /\ g[c].at = "writing"
        /\ \A d \in Callers \ {c} : g[d] = writer[d]
    <3>1. [writer[c] EXCEPT !.at = "writing"] \in WriterRecords
      BY <1>1 DEF WriterRecords
    <3>. QED  BY <1>1, <3>1 DEF WriterRecords
  <2>. HIDE DEF g
  <2>3. /\ writer'[c].at = "writing" /\ writer'[c].value = value
        /\ \A d \in Callers \ {c} : writer'[d] = writer[d]
    BY <2>1, <2>2 DEF WriterRecords
  <2>4. Active => row.spent <= value /\ value <= bucket.spent /\ row.spent <= bucket.spent
    <3>1. Active => Seeded /\ row.spent <= bucket.spent
      BY <1>2, <2>1 DEF SpendInOrder, SpendIsBehind
    <3>. QED  BY <1>1, <3>1 DEF value, Seeded
  <2>. QED  BY <1>1, <1>5, <2>1, <2>3, <2>4
<1>7. ASSUME NEW c \in Callers, WriterWrites(c)
      PROVE  SpendIsBehind'
  <2>1. writer[c].at = "writing" /\ UNCHANGED <<cached, bucket, call, pending, admin>>
    BY <1>7 DEF WriterWrites
  <2>2. PICK at \in {"written", "failed"} : writer' = [writer EXCEPT ![c] = [writer[c] EXCEPT !.at = at]]
    BY <1>7 DEF WriterWrites
  <2>3. writer'[c].at = at /\ \A d \in Callers \ {c} : writer'[d] = writer[d]
    BY <1>1, <2>2 DEF WriterRecords
  <2>4. row' = row \/ (Active /\ row' = [row EXCEPT !.spent = writer[c].value])
    BY <1>7 DEF WriterWrites
  <2>5. row'.life = row.life /\ (row'.spent = row.spent \/ row'.spent = writer[c].value)
    BY <1>1, <2>4 DEF Rows
  <2>6. Active => row'.spent <= bucket.spent /\ row'.spent \in Nat
    <3>1. Active => writer[c].value <= bucket.spent /\ row.spent <= bucket.spent
      BY <1>2, <2>1 DEF SpendInOrder, SpendIsBehind
    <3>. QED  BY <1>1, <2>5, <3>1
  <2>. QED  BY <1>5, <2>1, <2>3, <2>5, <2>6
<1>8. ASSUME NEW c \in Callers, WriterEnds(c)
      PROVE  SpendIsBehind'
  <2>1. /\ writer[c].at # "none" /\ pending' = FALSE /\ writer' = [writer EXCEPT ![c] = NoWriter]
        /\ UNCHANGED <<row, cached, bucket, call, admin>>
    BY <1>8 DEF WriterEnds
  <2>2. writer'[c].at = "none" /\ \A d \in Callers \ {c} : writer'[d] = writer[d]
    BY <1>1, <2>1 DEF NoWriter
  <2>3. (Active' <=> Active) /\ (Seeded' <=> Seeded) /\ \A d \in Callers : Knows(d)' <=> Knows(d)
    BY <2>1 DEF Active, Seeded, Knows
  <2>4. Active => \A d \in Callers : writer'[d].at = "none"
    BY <1>2, <2>1, <2>2 DEF SpendInOrder
  <2>5. ASSUME Active, NEW d \in Callers
        PROVE  SpendInOrder(d)'
    BY <1>2, <2>1, <2>3, <2>4, <2>5 DEF SpendInOrder
  <2>. QED  BY <2>1, <2>3, <2>5 DEF SpendIsBehind
<1>9. ASSUME NEW p \in Policies, NEW keep \in BOOLEAN, UpdatePolicy(p, keep)
      PROVE  SpendIsBehind'
  <2>1. /\ row' = WithPolicy(p, keep) /\ admin' = "policy"
        /\ UNCHANGED <<cached, bucket, call, writer, pending>>
    BY <1>9 DEF UpdatePolicy, Alters
  <2>2. row'.life = row.life /\ row'.spent = row.spent
    BY <1>1, <2>1 DEF WithPolicy, Rows
  <2>. QED  BY <1>4, <2>1, <2>2
<1>10. CASE Revoke
  <2>1. row' = IF Active THEN [row EXCEPT !.life = "revoked"] ELSE row
    BY <1>10 DEF Revoke, Alters
  <2>2. row'.life # "active"
    BY <1>1, <2>1 DEF Rows, Active
  <2>. QED  BY <1>3, <2>2
<1>11. CASE Delete
  <2>1. row' = [row EXCEPT !.life = "deleted"]
    BY <1>11 DEF Delete, Alters
  <2>2. row'.life # "active"
    BY <1>1, <2>1 DEF Rows
  <2>. QED  BY <1>3, <2>2
<1>12. CASE Invalidate
  <2>1. /\ UNCHANGED <<row, bucket, call, writer, pending>> /\ cached' = None
        /\ admin' = (IF admin = "policy" THEN "idle" ELSE "forget") /\ admin \in {"policy", "revoke"}
    BY <1>12 DEF Invalidate
  <2>2. CASE admin = "policy"
    BY <1>4, <2>1, <2>2
  <2>3. CASE admin = "revoke"
    BY <1>3, <2>1, <2>3 DEF SpendIsBehind, Active
  <2>. QED  BY <2>1, <2>2, <2>3
<1>13. CASE ForgetWrites \/ RemoveBucket
  <2>1. row' = row /\ admin \in {"forget", "remove"}
    BY <1>13 DEF ForgetWrites, RemoveBucket
  <2>. QED  BY <1>3, <2>1 DEF SpendIsBehind, Active
<1>14. CASE Evict \/ HalfMinute \/ UNCHANGED accessVars
  BY <1>4, <1>14 DEF Evict, HalfMinute, accessVars
<1>15. CASE RestartProcess
  <2>1. /\ cached' = None /\ bucket' = None /\ row' = row /\ admin' = "idle"
        /\ call' = [c \in Callers |-> IF call[c] = NoCall THEN NoCall ELSE Done]
        /\ writer' = [c \in Callers |-> NoWriter]
    BY <1>15 DEF RestartProcess
  <2>2. \A c \in Callers : call'[c].at \in {"idle", "done"} /\ writer'[c].at = "none"
    BY <2>1 DEF NoCall, Done, NoWriter
  <2>3. \A c \in Callers : SpendInOrder(c)'
    BY <2>2 DEF SpendInOrder, Knows
  <2>4. ~Seeded'
    BY <2>1 DEF Seeded
  <2>. QED  BY <2>1, <2>3, <2>4 DEF SpendIsBehind
<1>. QED  BY <1>6, <1>7, <1>8, <1>9, <1>10, <1>11, <1>12, <1>13, <1>14, <1>15 DEF AccessWriter, AccessAdmin

(***************************************************************************)
(* Access keys: theorems                                                   *)
(***************************************************************************)
\* The types, the slots, the cache and the count of an access key, together, for
\* any number of requests and any policies (limiter.go, cache.go, service.go).
THEOREM AccessInductive == AccessSpec => []AccessInv
<1>1. AccessInit => AccessInv
  <2>. SUFFICES ASSUME AccessInit PROVE AccessInv
    OBVIOUS
  <2>1. PICK p \in Policies, n \in SpentBefore : row = [life |-> "active", policy |-> p, spent |-> n]
    BY DEF AccessInit
  <2>2. row \in Rows
    BY <2>1, AccessAssumption DEF Rows
  <2>3. /\ cached = None /\ bucket = None /\ clock = 0 /\ admin = "idle" /\ pending = FALSE
        /\ changed = [at |-> 0, times |-> 0]
        /\ call = [c \in Callers |-> NoCall] /\ writer = [c \in Callers |-> NoWriter]
    BY DEF AccessInit
  <2>4. NoCall \in CallRecords /\ NoWriter \in WriterRecords /\ NoCall.at = "idle" /\ NoCall.since = 0
    BY DEF NoCall, CallRecords, NoWriter, WriterRecords
  <2>5. \A c \in Callers : call[c].at = "idle" /\ call[c].since = 0 /\ writer[c].at = "none"
    BY <2>3, <2>4 DEF NoWriter
  <2>6. AccessTypeOK
    <3>1. call \in [Callers -> CallRecords] /\ writer \in [Callers -> WriterRecords]
      BY <2>3, <2>4
    <3>. QED  BY <2>2, <2>3, <2>5, <3>1 DEF AccessTypeOK, Knows
  <2>7. ReadingsArePast
    BY <2>3, <2>5 DEF ReadingsArePast
  <2>8. PolicyHolds
    BY <2>3 DEF PolicyHolds, NoSlotLeaked, StaleAtMostTTL
  <2>9. SpendIsBehind
    <3>1. ~Seeded
      BY <2>3 DEF Seeded
    <3>. QED  BY <2>3, <2>5, <3>1 DEF SpendIsBehind, SpendInOrder, Knows
  <2>. QED  BY <2>6, <2>7, <2>8, <2>9 DEF AccessInv
<1>2. AccessInv /\ [AccessNext]_accessVars => AccessInv'
  <2>. SUFFICES ASSUME AccessInv, [AccessNext]_accessVars PROVE AccessInv'
    OBVIOUS
  <2>1. AccessTypeOK'
    BY RequestTypes, ServiceTypes DEF AccessInv, AccessNext
  <2>2. NoSlotLeaked'
    BY SlotsStep DEF AccessInv, PolicyHolds
  <2>3. ReadingsArePast' /\ StaleAtMostTTL'
    BY CacheStep DEF AccessInv, PolicyHolds
  <2>4. SpendIsBehind'
    BY <2>1, RequestSpend, ServiceSpend DEF AccessInv, AccessNext
  <2>. QED  BY <2>1, <2>2, <2>3, <2>4 DEF AccessInv, PolicyHolds
<1>. QED  BY <1>1, <1>2, PTL DEF AccessSpec

\* No slot outlives the request that took it, through policy changes, revocation
\* under traffic and restarts, and a stale identity is served for the TTL of the
\* cache at most (limiter.go:87-134, service.go:105-127).
THEOREM AccessPolicyHolds == AccessSpec => []PolicyHolds
BY AccessInductive, PTL DEF AccessInv

\* The spent budget in the table never shrinks: no write-back carries a count
\* that is behind the table's (limiter.go:67-72, service.go:182-207).
THEOREM AccessSpendKept == AccessSpec => SpendNeverRefunded
<1>1. AccessInv /\ [AccessNext]_accessVars => [row'.spent >= row.spent]_accessVars
  <2>. SUFFICES ASSUME AccessInv, AccessNext PROVE row'.spent >= row.spent
    OBVIOUS
  <2>1. row \in Rows /\ row.spent \in Nat
    BY DEF AccessInv, AccessTypeOK, Rows
  <2>2. ASSUME NEW c \in Callers, AccessRequest(c)
        PROVE  row' = row
    BY <2>2 DEF AccessRequest, LookupHit, LookupMiss, Authenticate, Store, BeginRequest, ChargeUsage,
                PersistConsumed, EndRequest
  <2>3. ASSUME NEW c \in Callers, AccessWriter(c)
        PROVE  row'.spent >= row.spent
    <3>1. CASE row' = row
      BY <2>1, <3>1
    <3>2. CASE row' # row
      <4>1. writer[c].at = "writing" /\ Active /\ row' = [row EXCEPT !.spent = writer[c].value]
        BY <2>3, <3>2 DEF AccessWriter, WriterReads, WriterWrites, WriterEnds
      <4>2. SpendInOrder(c) /\ writer[c].value \in Nat
        BY <4>1 DEF AccessInv, SpendIsBehind, AccessTypeOK, WriterRecords
      <4>3. row.spent <= writer[c].value
        BY <4>1, <4>2 DEF SpendInOrder
      <4>. QED  BY <2>1, <4>1, <4>2, <4>3 DEF Rows
    <3>. QED  BY <3>1, <3>2
  <2>4. AccessAdmin => row'.spent = row.spent
    <3>1. ASSUME NEW p \in Policies, NEW keep \in BOOLEAN, UpdatePolicy(p, keep)
          PROVE  row'.spent = row.spent
      BY <2>1, <3>1 DEF UpdatePolicy, Alters, WithPolicy, Rows
    <3>2. CASE Revoke \/ Delete
      BY <2>1, <3>2 DEF Revoke, Delete, Alters, Rows
    <3>3. CASE Invalidate \/ ForgetWrites \/ RemoveBucket
      BY <3>3 DEF Invalidate, ForgetWrites, RemoveBucket
    <3>. QED  BY <3>1, <3>2, <3>3 DEF AccessAdmin
  <2>5. Evict \/ RestartProcess \/ HalfMinute => row' = row
    BY DEF Evict, RestartProcess, HalfMinute
  <2>. QED  BY <2>1, <2>2, <2>3, <2>4, <2>5 DEF AccessNext
<1>. QED  BY <1>1, AccessInductive, PTL DEF AccessSpec, SpendNeverRefunded

(***************************************************************************)
(* The administrator's sessions: the inductive invariant                   *)
(***************************************************************************)
AdminSpec == AdminInit /\ [][AdminNext]_adminVars

Places ==
  {"ready", "verify", "rehash", "create", "must", "reading", "read", "change", "clear",
   "changed", "revoke", "revoke all", "served", "done"}
HandlerRecords ==
  [at : Places, does : {"nothing", "login", "look", "manage", "log out", "revoke all", "change"},
   cookie : Handlers \cup {NoRequest}, current : Passwords, new : Passwords, saw : BOOLEAN]

AdminTypeOK ==
  /\ account \in [password : Passwords, outdated : BOOLEAN, must : BOOLEAN]
  /\ session \in [Handlers -> {"none", "live", "revoked", "expired", "deleted"}]
  /\ believed \in [value : {"none", "must", "need not"}, fresh : BOOLEAN]
  /\ mustLock \in Handlers \cup {NoRequest}
  /\ handler \in [Handlers -> HandlerRecords]

\* The flag is believed to be down only when it is, a reader of the flag holds
\* the lock over its read and its store, and once a change has been answered
\* nobody who saw the old flag is left to store it.
FlagIsSound ==
  /\ believed.value = "need not" => ~account.must
  /\ believed.fresh => believed.value # "none"
  /\ \A h \in Handlers :
       /\ handler[h].at \in {"clear", "changed"} => ~account.must
       /\ handler[h].at \in {"reading", "read"} => mustLock = h
       /\ handler[h].at = "read" /\ ~handler[h].saw => ~account.must
       /\ handler[h].at = "changed" =>
            \A g \in Handlers : handler[g].at = "read" => ~handler[g].saw

\* The inductive invariant of the administrator's sessions.
AdminInv == AdminTypeOK /\ FlagIsSound /\ SessionsFollowPassword

\* A handler that moves keeps the rest of its record.
LEMMA StepEffect ==
  ASSUME AdminTypeOK, NEW h \in Handlers, NEW at \in Places, Step(h, at)
  PROVE  /\ handler' \in [Handlers -> HandlerRecords] /\ handler'[h].at = at
         /\ handler'[h].saw = handler[h].saw /\ \A g \in Handlers \ {h} : handler'[g] = handler[g]
<1>1. handler \in [Handlers -> HandlerRecords] /\ handler[h] \in HandlerRecords
  BY DEF AdminTypeOK
<1>2. handler' = [handler EXCEPT ![h] = [handler[h] EXCEPT !.at = at]]
  BY DEF Step
<1>3. /\ [handler[h] EXCEPT !.at = at] \in HandlerRecords
      /\ [handler[h] EXCEPT !.at = at].at = at /\ [handler[h] EXCEPT !.at = at].saw = handler[h].saw
  BY <1>1 DEF HandlerRecords
<1>. QED  BY <1>1, <1>2, <1>3

\* A handler that is told the flag is served only when it is down.
LEMMA ToldEffect ==
  ASSUME AdminTypeOK, NEW h \in Handlers, NEW must \in BOOLEAN, Told(h, must)
  PROVE  /\ handler' \in [Handlers -> HandlerRecords]
         /\ handler'[h].at \in {"done", "served", "revoke all"}
         /\ handler'[h].at = "served" => ~must
         /\ \A g \in Handlers \ {h} : handler'[g] = handler[g]
<1>. DEFINE at == CASE handler[h].does \in {"login", "look"} \/ must -> "done"
                    [] handler[h].does = "manage" /\ ~must -> "served"
                    [] OTHER -> "revoke all"
<1>1. Step(h, at)
  BY DEF Told
<1>2. at \in {"done", "served", "revoke all"} /\ (at = "served" => ~must)
  OBVIOUS
<1>. HIDE DEF at
<1>3. at \in Places
  BY <1>2 DEF Places
<1>. QED  BY <1>1, <1>2, <1>3, StepEffect

\* The same for a handler that is told the cached flag.
LEMMA ToldBelieved ==
  ASSUME AdminTypeOK, NEW h \in Handlers, Told(h, believed.value = "must")
  PROVE  /\ handler' \in [Handlers -> HandlerRecords]
         /\ handler'[h].at \in {"done", "served", "revoke all"}
         /\ handler'[h].at = "served" => believed.value # "must"
         /\ \A g \in Handlers \ {h} : handler'[g] = handler[g]
<1>. DEFINE at == CASE handler[h].does \in {"login", "look"} \/ believed.value = "must" -> "done"
                    [] handler[h].does = "manage" /\ ~(believed.value = "must") -> "served"
                    [] OTHER -> "revoke all"
<1>1. Step(h, at)
  BY DEF Told
<1>2. at \in {"done", "served", "revoke all"} /\ (at = "served" => believed.value # "must")
  OBVIOUS
<1>. HIDE DEF at
<1>3. at \in Places
  BY <1>2 DEF Places
<1>. QED  BY <1>1, <1>2, <1>3, StepEffect

\* A step of one handler that touches neither the flag nor what is believed of it
\* keeps the invariant if the handler itself may be where it goes.
LEMMA AdminFrame ==
  ASSUME AdminInv, NEW h \in Handlers, handler' \in [Handlers -> HandlerRecords],
         \A g \in Handlers \ {h} : handler'[g] = handler[g],
         UNCHANGED <<believed, lastChange>>, account'.must = account.must,
         account' \in [password : Passwords, outdated : BOOLEAN, must : BOOLEAN],
         session' \in [Handlers -> {"none", "live", "revoked", "expired", "deleted"}],
         \A g \in Handlers : session'[g] = "live" =>
           session[g] = "live" \/ (g = h /\ handler'[h].at \in {"must", "change"}),
         handler'[h].at \notin {"clear", "changed"},
         handler'[h].at = "served" => ~account.must,
         \/ mustLock' = mustLock /\ handler'[h].at \notin {"reading", "read"}
         \/ mustLock' = NoRequest /\ mustLock = h /\ handler'[h].at \notin {"reading", "read"}
         \/ mustLock' = h /\ mustLock \in {NoRequest, h} /\ handler'[h].at = "reading"
         \/ mustLock' = h /\ mustLock = h /\ handler'[h].at = "read" /\ handler'[h].saw = account.must
  PROVE  AdminInv'
<1>1. AdminTypeOK'
  BY DEF AdminInv, AdminTypeOK
<1>2. \A g \in Handlers : handler[g].at \in {"reading", "read"} => mustLock = g
  BY DEF AdminInv, FlagIsSound
<1>3. ASSUME NEW g \in Handlers
      PROVE  handler'[g].at \in {"reading", "read"} => mustLock' = g
  <2>1. CASE g = h
    BY <2>1, AdminAssumption
  <2>2. CASE g # h
    BY <1>2, <2>2, AdminAssumption
  <2>. QED  BY <2>1, <2>2
<1>4. FlagIsSound'
  <2>1. ASSUME NEW g \in Handlers
        PROVE  /\ handler'[g].at \in {"clear", "changed"} => ~account'.must
               /\ handler'[g].at = "read" /\ ~handler'[g].saw => ~account'.must
               /\ handler'[g].at = "changed" =>
                    \A k \in Handlers : handler'[k].at = "read" => ~handler'[k].saw
    <3>1. CASE g = h
      BY <3>1 DEF AdminInv, FlagIsSound
    <3>2. CASE g # h
      BY <3>2, ZenonT(40) DEF AdminInv, FlagIsSound
    <3>. QED  BY <3>1, <3>2
  <2>. QED  BY <1>3, <2>1 DEF AdminInv, FlagIsSound
<1>5. SessionsFollowPassword'
  <2>1. ForcedChangeHolds'
    BY DEF AdminInv, SessionsFollowPassword, ForcedChangeHolds
  <2>2. ChangeIsBelieved'
    BY DEF AdminInv, SessionsFollowPassword, ChangeIsBelieved
  <2>3. OneReplacementLives'
    BY DEF AdminInv, SessionsFollowPassword, OneReplacementLives
  <2>. QED  BY <2>1, <2>2, <2>3 DEF SessionsFollowPassword
<1>. QED  BY <1>1, <1>4, <1>5 DEF AdminInv

\* A session that is revoked, by a handler that may fail to, was there before.
LEMMA RevokeEffect ==
  ASSUME AdminTypeOK, NEW h, NEW id, RevokeSession(h, id)
  PROVE  /\ session' \in [Handlers -> {"none", "live", "revoked", "expired", "deleted"}]
         /\ \A g \in Handlers : session'[g] = "live" => session[g] = "live"
<1>1. session \in [Handlers -> {"none", "live", "revoked", "expired", "deleted"}]
  BY DEF AdminTypeOK
<1>2. session' = session \/ session' = [session EXCEPT ![id] = IF session[id] = "live" THEN "revoked" ELSE session[id]]
  BY DEF RevokeSession
<1>3. CASE id \in Handlers
  BY <1>1, <1>2, <1>3
<1>4. CASE id \notin Handlers
  BY <1>1, <1>2, <1>4
<1>. QED  BY <1>3, <1>4

\* All sessions but one are revoked.
LEMMA RevokeAllEffect ==
  ASSUME AdminTypeOK, NEW keep, session' = AllRevokedBut(keep)
  PROVE  /\ session' \in [Handlers -> {"none", "live", "revoked", "expired", "deleted"}]
         /\ \A g \in Handlers : session'[g] = "live" => session[g] = "live" /\ g = keep
BY DEF AdminTypeOK, AllRevokedBut

\* The beginnings of a request: it has a place to go, and nothing else moves.
LEMMA BeginningsKeep ==
  ASSUME AdminInv, NEW h \in Handlers,
         \/ \E p \in Passwords : StartLogin(h, p)
         \/ \E c \in Handlers :
              \/ \E does \in {"look", "manage", "log out", "revoke all"} : StartWithCookie(h, does, c)
              \/ \E p, q \in Passwords : StartChange(h, c, p, q)
  PROVE  AdminInv'
<1>1. /\ handler \in [Handlers -> HandlerRecords] /\ handler[h] \in HandlerRecords
      /\ session \in [Handlers -> {"none", "live", "revoked", "expired", "deleted"}]
      /\ account \in [password : Passwords, outdated : BOOLEAN, must : BOOLEAN]
      /\ AdminTypeOK
  BY DEF AdminInv, AdminTypeOK
<1>2. ASSUME NEW r \in HandlerRecords, r.at \in {"verify", "create", "done", "revoke", "must"},
             handler' = [handler EXCEPT ![h] = r],
             UNCHANGED <<account, session, believed, mustLock, lastChange>>
      PROVE  AdminInv'
  <2>1. /\ handler' \in [Handlers -> HandlerRecords] /\ handler'[h] = r
        /\ \A g \in Handlers \ {h} : handler'[g] = handler[g]
    BY <1>1, <1>2
  <2>. QED  BY <1>1, <1>2, <2>1, AdminFrame
<1>3. ASSUME NEW p \in Passwords, StartLogin(h, p)
      PROVE  AdminInv'
  <2>. DEFINE r1 == [handler[h] EXCEPT !.at = "verify"]
              r2 == [r1 EXCEPT !.does = "login"]
              r3 == [r2 EXCEPT !.current = p]
              g1 == [handler EXCEPT ![h] = r1]
              g2 == [g1 EXCEPT ![h] = [g1[h] EXCEPT !.does = "login"]]
              g3 == [g2 EXCEPT ![h] = [g2[h] EXCEPT !.current = p]]
  <2>1. handler' = g3 /\ UNCHANGED <<account, session, believed, mustLock, lastChange>>
    BY <1>3 DEF StartLogin
  <2>2. r1 \in HandlerRecords /\ r2 \in HandlerRecords /\ r3 \in HandlerRecords /\ r3.at = "verify"
    <3>1. r1 \in HandlerRecords /\ r1.at = "verify"
      BY <1>1 DEF HandlerRecords, Places
    <3>. HIDE DEF r1
    <3>2. r2 \in HandlerRecords /\ r2.at = "verify"
      BY <3>1 DEF HandlerRecords
    <3>. HIDE DEF r2
    <3>3. r3 \in HandlerRecords /\ r3.at = "verify"
      BY <3>2 DEF HandlerRecords
    <3>. QED  BY <3>1, <3>2, <3>3
  <2>3. g3 = [handler EXCEPT ![h] = r3]
    <3>1. g1[h] = r1
      BY <1>1
    <3>2. g2 = [g1 EXCEPT ![h] = r2]
      BY <3>1
    <3>. HIDE DEF r1
    <3>3. g2[h] = r2
      BY <1>1, <3>2
    <3>4. g3 = [g2 EXCEPT ![h] = r3]
      BY <3>3
    <3>. HIDE DEF r2, r3, g3
    <3>. QED  BY <1>1, <3>2, <3>4
  <2>. HIDE DEF r3, g3
  <2>. QED  BY <1>2, <2>1, <2>2, <2>3
<1>4. ASSUME NEW c \in Handlers, NEW does \in {"look", "manage", "log out", "revoke all"},
             StartWithCookie(h, does, c)
      PROVE  AdminInv'
  <2>. DEFINE at == CASE ~Valid(c) -> "done"
                      [] Valid(c) /\ does = "log out" -> "revoke"
                      [] OTHER -> "must"
              r1 == [handler[h] EXCEPT !.does = does]
              r2 == [r1 EXCEPT !.cookie = c]
              r3 == [r2 EXCEPT !.at = at]
              g1 == [handler EXCEPT ![h] = r1]
              g2 == [g1 EXCEPT ![h] = [g1[h] EXCEPT !.cookie = c]]
              g3 == [g2 EXCEPT ![h] = [g2[h] EXCEPT !.at = at]]
  <2>0. at \in {"done", "revoke", "must"}
    OBVIOUS
  <2>1. handler' = g3 /\ UNCHANGED <<account, session, believed, mustLock, lastChange>>
    BY <1>4 DEF StartWithCookie
  <2>. HIDE DEF at
  <2>2. r1 \in HandlerRecords /\ r2 \in HandlerRecords /\ r3 \in HandlerRecords /\ r3.at = at
    <3>1. r1 \in HandlerRecords
      BY <1>1 DEF HandlerRecords
    <3>. HIDE DEF r1
    <3>2. r2 \in HandlerRecords
      BY <3>1 DEF HandlerRecords
    <3>. HIDE DEF r2
    <3>3. r3 \in HandlerRecords /\ r3.at = at
      BY <2>0, <3>2 DEF HandlerRecords, Places
    <3>. QED  BY <3>1, <3>2, <3>3
  <2>3. g3 = [handler EXCEPT ![h] = r3]
    <3>1. g1[h] = r1
      BY <1>1
    <3>2. g2 = [g1 EXCEPT ![h] = r2]
      BY <3>1
    <3>. HIDE DEF r1
    <3>3. g2[h] = r2
      BY <1>1, <3>2
    <3>4. g3 = [g2 EXCEPT ![h] = r3]
      BY <3>3
    <3>. HIDE DEF r2, r3, g3
    <3>. QED  BY <1>1, <3>2, <3>4
  <2>. HIDE DEF r3, g3
  <2>. QED  BY <1>2, <2>0, <2>1, <2>2, <2>3
<1>5. ASSUME NEW c \in Handlers, NEW p \in Passwords, NEW q \in Passwords, StartChange(h, c, p, q)
      PROVE  AdminInv'
  <2>. DEFINE at == IF Valid(c) THEN "create" ELSE "done"
              r == [Ready EXCEPT !.does = "change", !.cookie = c, !.current = p, !.new = q, !.at = at]
  <2>1. handler' = [handler EXCEPT ![h] = r] /\ UNCHANGED <<account, session, believed, mustLock, lastChange>>
    BY <1>5 DEF StartChange
  <2>2. at \in {"create", "done"}
    OBVIOUS
  <2>. HIDE DEF at
  <2>3. r \in HandlerRecords /\ r.at = at
    BY <2>2, AdminAssumption DEF Ready, HandlerRecords, Places
  <2>. HIDE DEF r
  <2>. QED  BY <1>2, <2>1, <2>2, <2>3
<1>. QED  BY <1>3, <1>4, <1>5

\* The verification of a password, the sessions and the logouts keep the invariant.
LEMMA SessionsKeep ==
  ASSUME AdminInv, NEW h \in Handlers,
         \/ VerifyPassword(h) \/ Rehash(h) \/ Create(h) \/ ChangeRefused(h) \/ Logout(h) \/ RevokeAll(h)
  PROVE  AdminInv'
<1>1. /\ handler[h] \in HandlerRecords /\ AdminTypeOK
      /\ session \in [Handlers -> {"none", "live", "revoked", "expired", "deleted"}]
      /\ account \in [password : Passwords, outdated : BOOLEAN, must : BOOLEAN]
  BY DEF AdminInv, AdminTypeOK
<1>2. ASSUME NEW at \in {"done", "rehash", "create", "must", "change"}, Step(h, at),
             UNCHANGED <<believed, lastChange, mustLock>>, account'.must = account.must,
             account' \in [password : Passwords, outdated : BOOLEAN, must : BOOLEAN],
             session' \in [Handlers -> {"none", "live", "revoked", "expired", "deleted"}],
             \A g \in Handlers : session'[g] = "live" =>
               session[g] = "live" \/ (g = h /\ at \in {"must", "change"})
      PROVE  AdminInv'
  <2>1. at \in Places
    BY DEF Places
  <2>2. /\ handler' \in [Handlers -> HandlerRecords] /\ handler'[h].at = at
        /\ \A g \in Handlers \ {h} : handler'[g] = handler[g]
    BY <1>1, <1>2, <2>1, StepEffect
  <2>. QED  BY <1>2, <2>2, AdminFrame
<1>3. CASE VerifyPassword(h)
  <2>. DEFINE at == CASE account.password # handler[h].current -> "done"
                      [] account.password = handler[h].current /\ account.outdated -> "rehash"
                      [] OTHER -> "create"
  <2>1. Step(h, at) /\ UNCHANGED <<account, session, believed, mustLock, lastChange>>
    BY <1>3 DEF VerifyPassword
  <2>2. at \in {"done", "rehash", "create"}
    OBVIOUS
  <2>. HIDE DEF at
  <2>. QED  BY <1>1, <1>2, <2>1, <2>2
<1>4. CASE Rehash(h)
  <2>1. Step(h, "create") /\ UNCHANGED <<session, believed, mustLock, lastChange>>
    BY <1>4 DEF Rehash
  <2>2. handler[h].current \in Passwords
    BY <1>1 DEF HandlerRecords
  <2>3. /\ account' \in [password : Passwords, outdated : BOOLEAN, must : BOOLEAN]
        /\ account'.must = account.must
    <3>1. account' = account \/ account' = [account EXCEPT !.password = handler[h].current, !.outdated = FALSE]
      BY <1>4 DEF Rehash
    <3>2. CASE account' = account
      BY <1>1, <3>2
    <3>3. CASE account' = [account EXCEPT !.password = handler[h].current, !.outdated = FALSE]
      <4>. DEFINE a == [account EXCEPT !.password = handler[h].current]
      <4>1. a \in [password : Passwords, outdated : BOOLEAN, must : BOOLEAN] /\ a.must = account.must
        BY <1>1, <2>2
      <4>2. account' = [a EXCEPT !.outdated = FALSE]
        BY <3>3
      <4>. HIDE DEF a
      <4>. QED  BY <4>1, <4>2
    <3>. QED  BY <3>1, <3>2, <3>3
  <2>. QED  BY <1>1, <1>2, <2>1, <2>3
<1>5. CASE Create(h)
  <2>1. UNCHANGED <<account, believed, mustLock, lastChange>>
    BY <1>5 DEF Create
  <2>2. CASE session' = [session EXCEPT ![h] = "live"]
             /\ Step(h, IF handler[h].does = "login" THEN "must" ELSE "change")
    <3>. DEFINE at == IF handler[h].does = "login" THEN "must" ELSE "change"
    <3>1. Step(h, at) /\ at \in {"must", "change"}
      BY <2>2
    <3>. HIDE DEF at
    <3>2. /\ session' \in [Handlers -> {"none", "live", "revoked", "expired", "deleted"}]
          /\ \A g \in Handlers : session'[g] = "live" => session[g] = "live" \/ g = h
      BY <1>1, <2>2
    <3>. QED  BY <1>1, <1>2, <2>1, <3>1, <3>2
  <2>3. CASE Step(h, "done") /\ session' = session
    BY <1>1, <1>2, <2>1, <2>3
  <2>. QED  BY <1>5, <2>2, <2>3 DEF Create
<1>6. CASE ChangeRefused(h)
  <2>1. RevokeSession(h, h) /\ Step(h, "done") /\ UNCHANGED <<account, believed, mustLock, lastChange>>
    BY <1>6 DEF ChangeRefused
  <2>. QED  BY <1>1, <1>2, <2>1, RevokeEffect
<1>7. CASE Logout(h)
  <2>1. /\ RevokeSession(h, handler[h].cookie) /\ Step(h, "done")
        /\ UNCHANGED <<account, believed, mustLock, lastChange>>
    BY <1>7 DEF Logout
  <2>2. /\ session' \in [Handlers -> {"none", "live", "revoked", "expired", "deleted"}]
        /\ \A g \in Handlers : session'[g] = "live" => session[g] = "live"
    BY <1>1, <2>1, RevokeEffect
  <2>. QED  BY <1>1, <1>2, <2>1, <2>2
<1>8. CASE RevokeAll(h)
  <2>1. /\ session' = session \/ session' = AllRevokedBut(NoRequest)
        /\ Step(h, "done") /\ UNCHANGED <<account, believed, mustLock, lastChange>>
    BY <1>8 DEF RevokeAll
  <2>2. /\ session' \in [Handlers -> {"none", "live", "revoked", "expired", "deleted"}]
        /\ \A g \in Handlers : session'[g] = "live" => session[g] = "live"
    BY <1>1, <2>1, RevokeAllEffect
  <2>. QED  BY <1>1, <1>2, <2>1, <2>2
<1>. QED  BY <1>3, <1>4, <1>5, <1>6, <1>7, <1>8

\* The cached flag, read and stored under its lock, keeps the invariant.
LEMMA FlagKeeps ==
  ASSUME AdminInv, NEW h \in Handlers,
         LookAtFlag(h) \/ ReadFlag(h) \/ ReadFlagFails(h) \/ StoreFlag(h)
  PROVE  AdminInv'
<1>1. /\ handler[h] \in HandlerRecords /\ AdminTypeOK /\ handler \in [Handlers -> HandlerRecords]
      /\ session \in [Handlers -> {"none", "live", "revoked", "expired", "deleted"}]
      /\ account \in [password : Passwords, outdated : BOOLEAN, must : BOOLEAN]
      /\ believed \in [value : {"none", "must", "need not"}, fresh : BOOLEAN]
  BY DEF AdminInv, AdminTypeOK
<1>2. /\ believed.value = "need not" => ~account.must
      /\ believed.fresh => believed.value # "none"
      /\ handler[h].at \in {"reading", "read"} => mustLock = h
      /\ handler[h].at = "read" /\ ~handler[h].saw => ~account.must
  BY DEF AdminInv, FlagIsSound
<1>4. CASE LookAtFlag(h)
  <2>1. UNCHANGED <<account, session, believed, lastChange>> /\ mustLock = NoRequest
    BY <1>4 DEF LookAtFlag
  <2>2. CASE believed.fresh
    <3>1. Told(h, believed.value = "must") /\ mustLock' = mustLock
      BY <1>4, <2>2 DEF LookAtFlag
    <3>2. believed.value # "must" => ~account.must
      BY <1>1, <1>2, <2>2
    <3>3. /\ handler' \in [Handlers -> HandlerRecords]
          /\ handler'[h].at \in {"done", "served", "revoke all"}
          /\ handler'[h].at = "served" => believed.value # "must"
          /\ \A g \in Handlers \ {h} : handler'[g] = handler[g]
      BY <1>1, <3>1, ToldBelieved
    <3>. QED  BY <1>1, <2>1, <3>1, <3>2, <3>3, AdminFrame
  <2>3. CASE ~believed.fresh
    <3>1. Step(h, "reading") /\ mustLock' = h /\ "reading" \in Places
      BY <1>4, <2>3 DEF LookAtFlag, Places
    <3>2. /\ handler' \in [Handlers -> HandlerRecords] /\ handler'[h].at = "reading"
          /\ \A g \in Handlers \ {h} : handler'[g] = handler[g]
      BY <1>1, <3>1, StepEffect
    <3>. QED  BY <1>1, <2>1, <3>1, <3>2, AdminFrame
  <2>. QED  BY <2>2, <2>3
<1>5. CASE ReadFlag(h)
  <2>1. /\ UNCHANGED <<account, session, believed, mustLock, lastChange>> /\ handler[h].at = "reading"
        /\ handler' = [handler EXCEPT ![h].at = "read", ![h].saw = account.must]
    BY <1>5 DEF ReadFlag, May
  <2>. DEFINE r1 == [handler[h] EXCEPT !.at = "read"]
              g1 == [handler EXCEPT ![h] = r1]
              r2 == [g1[h] EXCEPT !.saw = account.must]
  <2>2. r1 \in HandlerRecords /\ r1.at = "read" /\ g1[h] = r1 /\ account.must \in BOOLEAN
    BY <1>1 DEF HandlerRecords, Places
  <2>3. handler' = [g1 EXCEPT ![h] = r2]
    BY <2>1
  <2>4. g1 \in [Handlers -> HandlerRecords] /\ \A g \in Handlers \ {h} : g1[g] = handler[g]
    BY <1>1, <2>2
  <2>. HIDE DEF g1, r1
  <2>5. r2 \in HandlerRecords /\ r2.at = "read" /\ r2.saw = account.must
    BY <2>2 DEF HandlerRecords
  <2>. HIDE DEF r2
  <2>6. /\ handler' \in [Handlers -> HandlerRecords] /\ handler'[h] = r2
        /\ \A g \in Handlers \ {h} : handler'[g] = handler[g]
    BY <2>3, <2>4, <2>5
  <2>. QED  BY <1>1, <1>2, <2>1, <2>5, <2>6, AdminFrame
<1>6. CASE ReadFlagFails(h)
  <2>1. /\ UNCHANGED <<account, believed, lastChange>> /\ handler[h].at = "reading"
        /\ FailedRead(h) /\ mustLock' = NoRequest
    BY <1>6 DEF ReadFlagFails, May
  <2>2. CASE believed.value = "none"
    <3>1. Step(h, "done") /\ (session' = session \/ RevokeSession(h, h)) /\ "done" \in Places
      BY <2>1, <2>2 DEF FailedRead, Places
    <3>2. /\ session' \in [Handlers -> {"none", "live", "revoked", "expired", "deleted"}]
          /\ \A g \in Handlers : session'[g] = "live" => session[g] = "live"
      BY <1>1, <3>1, RevokeEffect
    <3>3. /\ handler' \in [Handlers -> HandlerRecords] /\ handler'[h].at = "done"
          /\ \A g \in Handlers \ {h} : handler'[g] = handler[g]
      BY <1>1, <3>1, StepEffect
    <3>. QED  BY <1>1, <1>2, <2>1, <3>2, <3>3, AdminFrame
  <2>3. CASE believed.value # "none"
    <3>1. Told(h, believed.value = "must") /\ session' = session
      BY <2>1, <2>3 DEF FailedRead
    <3>2. believed.value # "must" => ~account.must
      BY <1>1, <1>2, <2>3
    <3>3. /\ handler' \in [Handlers -> HandlerRecords]
          /\ handler'[h].at \in {"done", "served", "revoke all"}
          /\ handler'[h].at = "served" => believed.value # "must"
          /\ \A g \in Handlers \ {h} : handler'[g] = handler[g]
      BY <1>1, <3>1, ToldBelieved
    <3>. QED  BY <1>1, <1>2, <2>1, <3>1, <3>2, <3>3, AdminFrame
  <2>. QED  BY <2>2, <2>3
<1>7. CASE StoreFlag(h)
  <2>. DEFINE saw == handler[h].saw
  <2>1. /\ handler[h].at = "read" /\ Told(h, saw) /\ mustLock' = NoRequest
        /\ believed' = [value |-> IF saw THEN "must" ELSE "need not", fresh |-> TRUE]
        /\ UNCHANGED <<account, session, lastChange>>
    BY <1>7 DEF StoreFlag, May
  <2>2. saw \in BOOLEAN /\ (~saw => ~account.must)
    BY <1>1, <1>2, <2>1 DEF HandlerRecords
  <2>3. /\ handler' \in [Handlers -> HandlerRecords]
        /\ handler'[h].at \in {"done", "served", "revoke all"} /\ (handler'[h].at = "served" => ~saw)
        /\ \A g \in Handlers \ {h} : handler'[g] = handler[g]
    BY <1>1, <2>1, <2>2, ToldEffect
  <2>4. \A g \in Handlers \ {h} : handler[g].at \notin {"reading", "read"}
    BY <1>2, <2>1 DEF AdminInv, FlagIsSound
  <2>5. \A g \in Handlers : handler[g].at = "changed" => ~saw
    BY <2>1 DEF AdminInv, FlagIsSound
  <2>6. /\ believed' \in [value : {"none", "must", "need not"}, fresh : BOOLEAN]
        /\ believed'.value # "none" /\ (believed'.value = "need not" <=> ~saw)
    BY <2>1, <2>2
  <2>. HIDE DEF saw
  <2>7. AdminTypeOK'
    BY <1>1, <2>1, <2>3, <2>6 DEF AdminTypeOK
  <2>8. FlagIsSound'
    <3>1. ASSUME NEW g \in Handlers
          PROVE  /\ handler'[g].at \in {"clear", "changed"} => ~account'.must
                 /\ handler'[g].at \notin {"reading", "read"}
      <4>1. CASE g = h
        BY <2>3, <4>1
      <4>2. CASE g # h
        BY <2>1, <2>3, <2>4, <4>2 DEF AdminInv, FlagIsSound
      <4>. QED  BY <4>1, <4>2
    <3>. QED  BY <2>1, <2>2, <2>6, <3>1 DEF FlagIsSound
  <2>9. SessionsFollowPassword'
    <3>1. ForcedChangeHolds'
      BY <2>1, <2>2, <2>3 DEF AdminInv, SessionsFollowPassword, ForcedChangeHolds
    <3>2. ChangeIsBelieved'
      <4>1. ASSUME NEW g \in Handlers, handler'[g].at = "changed"
            PROVE  believed'.value = "need not"
        <5>1. g # h
          BY <2>3, <4>1
        <5>2. handler[g].at = "changed"
          BY <2>3, <4>1, <5>1
        <5>. QED  BY <2>5, <2>6, <5>2, Zenon
      <4>. QED  BY <4>1 DEF ChangeIsBelieved
    <3>3. OneReplacementLives'
      BY <2>1, <2>3 DEF AdminInv, SessionsFollowPassword, OneReplacementLives
    <3>. QED  BY <3>1, <3>2, <3>3 DEF SessionsFollowPassword
  <2>. QED  BY <2>7, <2>8, <2>9 DEF AdminInv
<1>. QED  BY <1>4, <1>5, <1>6, <1>7

\* The password change and the clearing of the cached flag keep the invariant:
\* the change leaves one replacement session, the clearing finds no reader.
LEMMA ChangeKeeps ==
  ASSUME AdminInv, NEW h \in Handlers, ChangePassword(h) \/ ClearFlag(h)
  PROVE  AdminInv'
<1>1. /\ handler[h] \in HandlerRecords /\ AdminTypeOK /\ handler \in [Handlers -> HandlerRecords]
      /\ session \in [Handlers -> {"none", "live", "revoked", "expired", "deleted"}]
      /\ account \in [password : Passwords, outdated : BOOLEAN, must : BOOLEAN]
      /\ believed \in [value : {"none", "must", "need not"}, fresh : BOOLEAN]
  BY DEF AdminInv, AdminTypeOK
<1>2. FlagIsSound /\ ForcedChangeHolds /\ ChangeIsBelieved /\ OneReplacementLives
  BY DEF AdminInv, SessionsFollowPassword
<1>3. CASE ChangePassword(h)
  <2>1. /\ account' = [password |-> handler[h].new, outdated |-> FALSE, must |-> FALSE]
        /\ session' = AllRevokedBut(h) /\ lastChange' = h /\ Step(h, "clear")
        /\ UNCHANGED <<believed, mustLock>> /\ handler[h].at = "change"
    BY <1>3 DEF ChangePassword, RevokeOtherSessions, May
  <2>2. handler[h].new \in Passwords /\ "clear" \in Places
    BY <1>1 DEF HandlerRecords, Places
  <2>3. /\ handler' \in [Handlers -> HandlerRecords] /\ handler'[h].at = "clear"
        /\ \A g \in Handlers \ {h} : handler'[g] = handler[g]
    BY <1>1, <2>1, <2>2, StepEffect
  <2>4. /\ session' \in [Handlers -> {"none", "live", "revoked", "expired", "deleted"}]
        /\ \A g \in Handlers : session'[g] = "live" => session[g] = "live" /\ g = h
    BY <1>1, <2>1, RevokeAllEffect
  <2>5. account' \in [password : Passwords, outdated : BOOLEAN, must : BOOLEAN] /\ ~account'.must
    BY <2>1, <2>2
  <2>6. AdminTypeOK'
    BY <1>1, <2>1, <2>3, <2>4, <2>5 DEF AdminTypeOK
  <2>7. FlagIsSound'
    <3>1. ASSUME NEW g \in Handlers
          PROVE  /\ handler'[g].at \in {"reading", "read"} => mustLock' = g
                 /\ handler'[g].at = "changed" =>
                      \A k \in Handlers : handler'[k].at = "read" => ~handler'[k].saw
      <4>1. CASE g = h
        BY <2>3, <4>1
      <4>2. CASE g # h
        BY <1>2, <2>1, <2>3, <4>2 DEF FlagIsSound
      <4>. QED  BY <4>1, <4>2
    <3>2. believed'.fresh => believed'.value # "none"
      BY <1>2, <2>1 DEF FlagIsSound
    <3>. QED  BY <2>5, <3>1, <3>2 DEF FlagIsSound
  <2>8. SessionsFollowPassword'
    <3>1. ForcedChangeHolds'
      BY <2>5 DEF ForcedChangeHolds
    <3>2. ChangeIsBelieved'
      BY <1>2, <2>1, <2>3 DEF ChangeIsBelieved
    <3>3. OneReplacementLives'
      BY <2>1, <2>4 DEF OneReplacementLives
    <3>. QED  BY <3>1, <3>2, <3>3 DEF SessionsFollowPassword
  <2>. QED  BY <2>6, <2>7, <2>8 DEF AdminInv
<1>4. CASE ClearFlag(h)
  <2>1. /\ believed' = [value |-> "need not", fresh |-> TRUE] /\ Step(h, "changed")
        /\ UNCHANGED <<account, session, mustLock, lastChange>>
        /\ mustLock = NoRequest /\ handler[h].at = "clear"
    BY <1>4 DEF ClearFlag, Cleared, May
  <2>2. "changed" \in Places
    BY DEF Places
  <2>3. /\ handler' \in [Handlers -> HandlerRecords] /\ handler'[h].at = "changed"
        /\ \A g \in Handlers \ {h} : handler'[g] = handler[g]
    BY <1>1, <2>1, <2>2, StepEffect
  <2>4. ~account.must /\ \A g \in Handlers : handler[g].at \notin {"reading", "read"}
    BY <1>2, <2>1, AdminAssumption DEF FlagIsSound
  <2>5. \A g \in Handlers : handler'[g].at \notin {"reading", "read"}
    BY <2>3, <2>4
  <2>6. /\ believed' \in [value : {"none", "must", "need not"}, fresh : BOOLEAN]
        /\ believed'.value = "need not"
    BY <2>1
  <2>7. AdminTypeOK'
    BY <1>1, <2>1, <2>3, <2>6 DEF AdminTypeOK
  <2>8. FlagIsSound'
    BY <2>1, <2>4, <2>5, <2>6 DEF FlagIsSound
  <2>9. SessionsFollowPassword'
    <3>1. ForcedChangeHolds'
      BY <2>1, <2>4 DEF ForcedChangeHolds
    <3>2. ChangeIsBelieved'
      BY <2>6 DEF ChangeIsBelieved
    <3>3. OneReplacementLives'
      BY <1>2, <2>1, <2>3 DEF OneReplacementLives
    <3>. QED  BY <3>1, <3>2, <3>3 DEF SessionsFollowPassword
  <2>. QED  BY <2>7, <2>8, <2>9 DEF AdminInv
<1>. QED  BY <1>3, <1>4

\* Sessions that expire or are deleted, a cached flag that ages and a restart keep
\* the invariant.
LEMMA TimeKeeps ==
  ASSUME AdminInv,
         \/ \E s \in Handlers : Expire(s)
         \/ DeleteExpiredOrRevoked \/ FlagAges
         \/ \E p \in Passwords : Reboot(p)
  PROVE  AdminInv'
<1>1. /\ AdminTypeOK /\ handler \in [Handlers -> HandlerRecords]
      /\ session \in [Handlers -> {"none", "live", "revoked", "expired", "deleted"}]
      /\ account \in [password : Passwords, outdated : BOOLEAN, must : BOOLEAN]
      /\ believed \in [value : {"none", "must", "need not"}, fresh : BOOLEAN]
  BY DEF AdminInv, AdminTypeOK
<1>2. FlagIsSound /\ ForcedChangeHolds /\ ChangeIsBelieved /\ OneReplacementLives
  BY DEF AdminInv, SessionsFollowPassword
<1>3. ASSUME session' \in [Handlers -> {"none", "live", "revoked", "expired", "deleted"}],
             \A g \in Handlers : session'[g] = "live" => session[g] = "live",
             UNCHANGED <<account, believed, mustLock, handler, lastChange>>
      PROVE  AdminInv'
  <2>1. AdminTypeOK'
    BY <1>1, <1>3 DEF AdminTypeOK
  <2>2. FlagIsSound'
    BY <1>2, <1>3 DEF FlagIsSound
  <2>3. ForcedChangeHolds' /\ ChangeIsBelieved' /\ OneReplacementLives'
    BY <1>2, <1>3 DEF ForcedChangeHolds, ChangeIsBelieved, OneReplacementLives
  <2>. QED  BY <2>1, <2>2, <2>3 DEF AdminInv, SessionsFollowPassword
<1>4. ASSUME NEW s \in Handlers, Expire(s)
      PROVE  AdminInv'
  <2>1. /\ session' \in [Handlers -> {"none", "live", "revoked", "expired", "deleted"}]
        /\ \A g \in Handlers : session'[g] = "live" => session[g] = "live"
        /\ UNCHANGED <<account, believed, mustLock, handler, lastChange>>
    BY <1>1, <1>4 DEF Expire
  <2>. QED  BY <1>3, <2>1
<1>5. CASE DeleteExpiredOrRevoked
  <2>1. /\ session' \in [Handlers -> {"none", "live", "revoked", "expired", "deleted"}]
        /\ \A g \in Handlers : session'[g] = "live" => session[g] = "live"
        /\ UNCHANGED <<account, believed, mustLock, handler, lastChange>>
    BY <1>1, <1>5 DEF DeleteExpiredOrRevoked
  <2>. QED  BY <1>3, <2>1
<1>6. CASE FlagAges
  <2>1. /\ believed' = [believed EXCEPT !.fresh = FALSE]
        /\ UNCHANGED <<account, session, mustLock, handler, lastChange>>
    BY <1>6 DEF FlagAges
  <2>2. /\ believed' \in [value : {"none", "must", "need not"}, fresh : BOOLEAN]
        /\ believed'.value = believed.value /\ ~believed'.fresh
    BY <1>1, <2>1
  <2>3. AdminTypeOK'
    BY <1>1, <2>1, <2>2 DEF AdminTypeOK
  <2>4. FlagIsSound'
    BY <1>2, <2>1, <2>2 DEF FlagIsSound
  <2>5. ForcedChangeHolds' /\ ChangeIsBelieved' /\ OneReplacementLives'
    BY <1>2, <2>1, <2>2 DEF ForcedChangeHolds, ChangeIsBelieved, OneReplacementLives
  <2>. QED  BY <2>3, <2>4, <2>5 DEF AdminInv, SessionsFollowPassword
<1>7. ASSUME NEW p \in Passwords, Reboot(p)
      PROVE  AdminInv'
  <2>1. /\ believed' = [value |-> "none", fresh |-> FALSE] /\ mustLock' = NoRequest
        /\ handler' = [h \in Handlers |-> IF May(h, "ready") THEN Ready ELSE [Ready EXCEPT !.at = "done"]]
    BY <1>7 DEF Reboot
  <2>2. /\ account' \in [password : Passwords, outdated : BOOLEAN, must : BOOLEAN]
        /\ session' \in [Handlers -> {"none", "live", "revoked", "expired", "deleted"}]
    <3>1. CASE UNCHANGED <<account, session>>
      BY <1>1, <3>1
    <3>2. CASE /\ account' = [password |-> p, outdated |-> FALSE, must |-> FALSE]
               /\ session' = AllRevokedBut(NoRequest)
      BY <1>1, <3>2, RevokeAllEffect
    <3>. QED  BY <1>7, <3>1, <3>2 DEF Reboot
  <2>. DEFINE over == [Ready EXCEPT !.at = "done"]
  <2>3. Ready \in HandlerRecords /\ Ready.at = "ready"
    BY AdminAssumption DEF Ready, HandlerRecords, Places
  <2>4. over \in HandlerRecords /\ over.at = "done"
    BY AdminAssumption DEF Ready, HandlerRecords, Places
  <2>. HIDE DEF over
  <2>5. /\ handler' \in [Handlers -> HandlerRecords]
        /\ \A g \in Handlers : handler'[g].at \in {"ready", "done"}
    <3>1. handler' = [h \in Handlers |-> IF May(h, "ready") THEN Ready ELSE over]
      BY <2>1 DEF over
    <3>. QED  BY <2>3, <2>4, <3>1
  <2>6. /\ believed' \in [value : {"none", "must", "need not"}, fresh : BOOLEAN]
        /\ believed'.value = "none" /\ ~believed'.fresh
    BY <2>1
  <2>7. AdminTypeOK'
    BY <2>1, <2>2, <2>5, <2>6 DEF AdminTypeOK
  <2>8. FlagIsSound'
    BY <2>5, <2>6 DEF FlagIsSound
  <2>9. ForcedChangeHolds' /\ ChangeIsBelieved' /\ OneReplacementLives'
    BY <2>5 DEF ForcedChangeHolds, ChangeIsBelieved, OneReplacementLives
  <2>. QED  BY <2>7, <2>8, <2>9 DEF AdminInv, SessionsFollowPassword
<1>. QED  BY <1>4, <1>5, <1>6, <1>7

\* The administrator's account, its sessions and the cached flag keep the inductive
\* invariant in every step, for any requests and passwords, and across restarts.
THEOREM AdminInductive == AdminSpec => []AdminInv
<1>1. ASSUME AdminInit
      PROVE  AdminInv
  <2>1. Ready \in HandlerRecords /\ Ready.at = "ready"
    BY AdminAssumption DEF Ready, HandlerRecords, Places
  <2>2. /\ handler \in [Handlers -> HandlerRecords]
        /\ \A h \in Handlers : handler[h].at = "ready"
    BY <1>1, <2>1 DEF AdminInit
  <2>3. account \in [password : Passwords, outdated : BOOLEAN, must : BOOLEAN]
    BY <1>1, AdminAssumption DEF AdminInit
  <2>4. /\ believed \in [value : {"none", "must", "need not"}, fresh : BOOLEAN]
        /\ believed.value = "none" /\ ~believed.fresh /\ mustLock = NoRequest
    BY <1>1 DEF AdminInit
  <2>5. session \in [Handlers -> {"none", "live", "revoked", "expired", "deleted"}]
    BY <1>1 DEF AdminInit
  <2>6. AdminTypeOK
    BY <2>2, <2>3, <2>4, <2>5 DEF AdminTypeOK
  <2>7. FlagIsSound
    BY <2>2, <2>4 DEF FlagIsSound
  <2>8. ForcedChangeHolds /\ ChangeIsBelieved /\ OneReplacementLives
    BY <2>2 DEF ForcedChangeHolds, ChangeIsBelieved, OneReplacementLives
  <2>. QED  BY <2>6, <2>7, <2>8 DEF AdminInv, SessionsFollowPassword
<1>2. ASSUME AdminInv, [AdminNext]_adminVars
      PROVE  AdminInv'
  <2>1. ASSUME NEW h \in Handlers, HandlerStep(h)
        PROVE  AdminInv'
    BY <1>2, <2>1, BeginningsKeep, SessionsKeep, FlagKeeps, ChangeKeeps DEF HandlerStep
  <2>2. CASE UNCHANGED adminVars
    BY <1>2, <2>2
      DEF AdminInv, AdminTypeOK, FlagIsSound, SessionsFollowPassword, ForcedChangeHolds,
          ChangeIsBelieved, OneReplacementLives, adminVars
  <2>. QED  BY <1>2, <2>1, <2>2, TimeKeeps DEF AdminNext
<1>. QED  BY <1>1, <1>2, PTL DEF AdminSpec

\* No management request is served before the forced change, a change that was
\* answered is believed, and of several changes only the last one's replacement
\* session lives (auth.go:106-137, 241-250, repository.go:118-180).
THEOREM AdminSessionsFollow == AdminSpec => []SessionsFollowPassword
<1>1. AdminInv => SessionsFollowPassword
  BY DEF AdminInv
<1>. QED  BY <1>1, AdminInductive, PTL

(***************************************************************************)
(* The login limiter: facts on numbers and sequences                       *)
(***************************************************************************)
\* A set of naturals has a least member.
LEMMA LeastNatural ==
  ASSUME NEW T, T \subseteq Nat, T # {}
  PROVE  Min(T) \in T /\ \A y \in T : Min(T) <= y
<1>1. PICK x \in T : \A y \in T : ~(<<y, x>> \in OpToRel(<, Nat))
  BY WFMin, NatLessThanWellFounded
<1>2. ASSUME NEW y \in T PROVE x <= y
  <2>1. x \in Nat /\ y \in Nat
    OBVIOUS
  <2>2. ~(<<y, x>> \in OpToRel(<, Nat))
    BY <1>1
  <2>3. ~(y < x)
    BY <2>1, <2>2 DEF OpToRel
  <2> QED
    BY <2>1, <2>3
<1>3. \E z \in T : \A y \in T : z <= y
  BY <1>2
<1> QED
  BY <1>3 DEF Min

\* The end of a sequence from one of its places on.
LEMMA SuffixPlaces ==
  ASSUME NEW S, NEW s \in Seq(S), NEW m \in 1..Len(s)
  PROVE  /\ SubSeq(s, m, Len(s)) \in Seq(S)
         /\ Len(SubSeq(s, m, Len(s))) = Len(s) - m + 1
         /\ DOMAIN SubSeq(s, m, Len(s)) = 1..(Len(s) - m + 1)
         /\ \A i \in 1..(Len(s) - m + 1) : m + i - 1 \in 1..Len(s) /\ SubSeq(s, m, Len(s))[i] = s[m + i - 1]
<1>1. Len(s) \in Nat
  BY LenProperties
<1>2. /\ SubSeq(s, m, Len(s)) \in Seq(S)
      /\ Len(SubSeq(s, m, Len(s))) = IF m <= Len(s) THEN Len(s) - m + 1 ELSE 0
      /\ \A i \in 1..(Len(s) - m + 1) : SubSeq(s, m, Len(s))[i] = s[m + i - 1]
  BY <1>1, SubSeqProperties
<1>3. Len(SubSeq(s, m, Len(s))) = Len(s) - m + 1
  BY <1>1, <1>2
<1>4. DOMAIN SubSeq(s, m, Len(s)) = 1..(Len(s) - m + 1)
  BY <1>2, <1>3, LenProperties
<1>5. \A i \in 1..(Len(s) - m + 1) : m + i - 1 \in 1..Len(s)
  BY <1>1
<1> QED
  BY <1>2, <1>3, <1>4, <1>5

\* The places of a sequence without one of its members.
LEMMA RemoveAtPlaces ==
  ASSUME NEW S, NEW s \in Seq(S), NEW i \in 1..Len(s)
  PROVE  /\ RemoveAt(s, i) \in Seq(S)
         /\ Len(RemoveAt(s, i)) = Len(s) - 1
         /\ \A j \in 1..(Len(s) - 1) :
              RemoveAt(s, i)[j] = IF j < i THEN s[j] ELSE s[j + 1]
<1>. DEFINE front == SubSeq(s, 1, i - 1)
            back == SubSeq(s, i + 1, Len(s))
<1>1. Len(s) \in Nat
  BY LenProperties
<1>2. /\ front \in Seq(S) /\ Len(front) = i - 1
      /\ \A j \in 1..(i - 1) : front[j] = s[j]
  BY <1>1, SubSeqProperties
<1>3. /\ back \in Seq(S) /\ Len(back) = Len(s) - i
      /\ \A j \in 1..(Len(s) - i) : back[j] = s[i + j]
  <2>1. /\ back \in Seq(S)
        /\ Len(back) = IF i + 1 <= Len(s) THEN Len(s) - (i + 1) + 1 ELSE 0
        /\ \A j \in 1..(Len(s) - (i + 1) + 1) : back[j] = s[(i + 1) + j - 1]
    BY <1>1, SubSeqProperties
  <2>. QED  BY <1>1, <2>1
<1>4. RemoveAt(s, i) = front \o back
  BY DEF RemoveAt
<1>. HIDE DEF front, back
<1>5. front \o back \in Seq(S) /\ Len(front \o back) = Len(s) - 1
  <2>1. front \o back \in Seq(S) /\ Len(front \o back) = Len(front) + Len(back)
    BY <1>2, <1>3, ConcatProperties
  <2>. QED  BY <1>1, <1>2, <1>3, <2>1
<1>6. ASSUME NEW j \in 1..(Len(s) - 1)
      PROVE  (front \o back)[j] = IF j < i THEN s[j] ELSE s[j + 1]
  <2>1. (front \o back)[j] = IF j <= Len(front) THEN front[j] ELSE back[j - Len(front)]
    BY <1>1, <1>2, <1>3, <1>6, ConcatProperties
  <2>. QED  BY <1>1, <1>2, <1>3, <1>6, <2>1
<1>. QED  BY <1>4, <1>5, <1>6

----------------------------------------------------------------------------
(* How many of a set of guesses a list of attempts accounts for.           *)

\* Of the guesses in L, made at the moments that since gives, no more were made
\* from t on than the list has attempts behind one that is older than t, for
\* every moment t of the window that ends now.
Covers(attempts, L, since, now) ==
  \A t \in Nat, n \in 0..Len(attempts) :
    (t + Window > now /\ (n = 0 \/ attempts[n] < t))
      => Cardinality({l \in L : since[l] >= t}) <= Len(attempts) - n

\* Fewer guesses, or a later moment.
LEMMA CoversFewer ==
  ASSUME NEW attempts \in Seq(Nat), NEW L, NEW K, IsFiniteSet(L), K \subseteq L,
         NEW since, NEW later, \A l \in K : later[l] = since[l],
         NEW now \in Nat, NEW then \in Nat, now <= then,
         Covers(attempts, L, since, now)
  PROVE  Covers(attempts, K, later, then)
<1> SUFFICES ASSUME NEW t \in Nat, NEW n \in 0..Len(attempts), t + Window > then, n = 0 \/ attempts[n] < t
             PROVE  Cardinality({l \in K : later[l] >= t}) <= Len(attempts) - n
  BY DEF Covers
<1> DEFINE X == {l \in L : since[l] >= t}
           Y == {l \in K : later[l] >= t}
<1>1. Y \subseteq X /\ X \subseteq L
  OBVIOUS
<1>2. IsFiniteSet(X) /\ Cardinality(Y) <= Cardinality(X) /\ Cardinality(X) \in Nat /\ Cardinality(Y) \in Nat
  BY <1>1, FS_Subset, FS_CardinalityType
<1>3. Cardinality(X) <= Len(attempts) - n
  BY LoginAssumption DEF Covers
<1> HIDE DEF X, Y
<1>4. Cardinality(Y) <= Len(attempts) - n
  BY <1>2, <1>3, LenProperties
<1> QED
  BY <1>4 DEF Y

\* Guesses that have left the window need no attempts.
LEMMA CoversOld ==
  ASSUME NEW attempts \in Seq(Nat), NEW L, NEW since, \A l \in L : since[l] \in Nat,
         NEW now \in Nat, \A l \in L : since[l] + Window <= now
  PROVE  Covers(attempts, L, since, now)
<1> SUFFICES ASSUME NEW t \in Nat, NEW n \in 0..Len(attempts), t + Window > now, n = 0 \/ attempts[n] < t
             PROVE  Cardinality({l \in L : since[l] >= t}) <= Len(attempts) - n
  BY DEF Covers
<1>1. {l \in L : since[l] >= t} = {}
  BY LoginAssumption
<1>2. Len(attempts) \in Nat /\ 0 <= Len(attempts) - n
  BY LenProperties
<1>3. Cardinality({l \in L : since[l] >= t}) = 0
  BY <1>1, FS_EmptySet
<1> QED
  BY <1>2, <1>3

\* keepWindowAttempts forgets nothing that still counts.
LEMMA CoversKept ==
  ASSUME NEW attempts \in Seq(Nat), NEW L, NEW since, gateClock \in Nat,
         Covers(attempts, L, since, gateClock)
  PROVE  /\ KeepWindowAttempts(attempts) \in Seq(Nat)
         /\ Len(KeepWindowAttempts(attempts)) <= Len(attempts)
         /\ Covers(KeepWindowAttempts(attempts), L, since, gateClock)
<1> DEFINE recent == {i \in DOMAIN attempts : attempts[i] + Window > gateClock}
           kept == KeepWindowAttempts(attempts)
<1>0. DOMAIN attempts = 1..Len(attempts) /\ Len(attempts) \in Nat /\ \A i \in DOMAIN attempts : attempts[i] \in Nat
  BY LenProperties, ElementOfSeq
<1>1. CASE recent = {}
  <2>1. kept = <<>>
    BY <1>1 DEF KeepWindowAttempts
  <2>2. Len(kept) = 0 /\ kept \in Seq(Nat)
    BY <2>1, EmptySeq
  <2>3. Covers(kept, L, since, gateClock)
    <3> SUFFICES ASSUME NEW t \in Nat, t + Window > gateClock
                 PROVE  Cardinality({l \in L : since[l] >= t}) <= 0
      BY <2>2 DEF Covers
    <3>1. Len(attempts) = 0 \/ attempts[Len(attempts)] < t
      BY <1>0, <1>1, LoginAssumption
    <3>2. Cardinality({l \in L : since[l] >= t}) <= Len(attempts) - Len(attempts)
      BY <1>0, <3>1 DEF Covers
    <3> QED
      BY <1>0, <3>2
  <2> QED
    BY <1>0, <2>2, <2>3
<1>2. CASE recent # {}
  <2> DEFINE m == Min(recent)
  <2>0. recent \subseteq Nat
    BY <1>0
  <2>1. m \in recent /\ \A i \in recent : m <= i
    <3> HIDE DEF recent
    <3> QED
      BY <1>2, <2>0, LeastNatural
  <2>2. kept = SubSeq(attempts, m, Len(attempts))
    BY <1>2 DEF KeepWindowAttempts
  <2>3. m \in 1..Len(attempts)
    BY <1>0, <2>1
  <2> HIDE DEF m, kept
  <2>4. /\ kept \in Seq(Nat) /\ Len(kept) = Len(attempts) - m + 1
        /\ \A i \in 1..(Len(attempts) - m + 1) : m + i - 1 \in 1..Len(attempts) /\ kept[i] = attempts[m + i - 1]
    BY <2>2, <2>3, SuffixPlaces
  <2>5. Covers(kept, L, since, gateClock)
    <3> SUFFICES ASSUME NEW t \in Nat, NEW n \in 0..Len(kept), t + Window > gateClock, n = 0 \/ kept[n] < t
                 PROVE  Cardinality({l \in L : since[l] >= t}) <= Len(kept) - n
      BY DEF Covers
    <3> DEFINE k == m - 1 + n
    <3>1. k \in 0..Len(attempts) /\ Len(kept) - n = Len(attempts) - k
      BY <1>0, <2>3, <2>4
    <3>2. k = 0 \/ attempts[k] < t
      <4>1. CASE n # 0
        <5>1. n \in 1..(Len(attempts) - m + 1) /\ m + n - 1 = k
          BY <1>0, <2>3, <2>4, <4>1
        <5> QED
          BY <2>4, <4>1, <5>1
      <4>2. CASE n = 0 /\ m # 1
        <5>1. m - 1 \in DOMAIN attempts /\ m - 1 \notin recent /\ k = m - 1
          BY <1>0, <2>1, <2>3, <4>2
        <5>2. attempts[m - 1] \in Nat /\ ~(attempts[m - 1] + Window > gateClock)
          BY <1>0, <5>1
        <5> QED
          BY <5>1, <5>2, LoginAssumption
      <4>3. CASE n = 0 /\ m = 1
        BY <4>3
      <4> QED
        BY <4>1, <4>2, <4>3
    <3>3. Cardinality({l \in L : since[l] >= t}) <= Len(attempts) - k
      BY <3>1, <3>2 DEF Covers
    <3> QED
      BY <3>1, <3>3
  <2> QED
    BY <1>0, <2>3, <2>4, <2>5 DEF kept
<1> QED
  BY <1>1, <1>2

\* One more attempt accounts for one more guess.
LEMMA CoversAppended ==
  ASSUME NEW attempts \in Seq(Nat), NEW L, IsFiniteSet(L), NEW K, NEW new, K \subseteq L \cup {new},
         NEW since, NEW later, \A l \in K \ {new} : later[l] = since[l], \A l \in K : later[l] \in Nat,
         NEW now \in Nat, \A l \in K : later[l] <= now,
         Covers(attempts, L, since, now)
  PROVE  Covers(Append(attempts, now), K, later, now)
<1>0. Len(attempts) \in Nat
  BY LenProperties
<1> DEFINE longer == Append(attempts, now)
<1>1. /\ Len(longer) = Len(attempts) + 1 /\ longer[Len(attempts) + 1] = now
      /\ \A i \in 1..Len(attempts) : longer[i] = attempts[i]
  BY <1>0, AppendProperties
<1> HIDE DEF longer
<1> SUFFICES ASSUME NEW t \in Nat, NEW n \in 0..(Len(attempts) + 1), t + Window > now, n = 0 \/ longer[n] < t
             PROVE  Cardinality({l \in K : later[l] >= t}) <= Len(attempts) + 1 - n
  BY <1>1 DEF Covers, longer
<1> DEFINE X == {l \in L : since[l] >= t}
           Y == {l \in K : later[l] >= t}
<1>2. CASE n = Len(attempts) + 1
  <2>1. now < t
    BY <1>0, <1>1, <1>2
  <2>2. Y = {}
    BY <2>1
  <2>3. Cardinality(Y) = 0
    BY <2>2, FS_EmptySet
  <2> HIDE DEF Y
  <2>4. Cardinality(Y) <= Len(attempts) + 1 - n
    BY <1>0, <1>2, <2>3
  <2> QED
    BY <2>4 DEF Y
<1>3. CASE n # Len(attempts) + 1
  <2>1. n \in 0..Len(attempts) /\ (n = 0 \/ attempts[n] < t)
    BY <1>0, <1>1, <1>3
  <2>2. Cardinality(X) <= Len(attempts) - n
    BY <2>1 DEF Covers
  <2>3. Y \subseteq X \cup {new}
    OBVIOUS
  <2>4. IsFiniteSet(X)
    BY FS_Subset
  <2> HIDE DEF X, Y
  <2>5. /\ IsFiniteSet(X \cup {new}) /\ Cardinality(X) \in Nat
        /\ Cardinality(X \cup {new}) <= Cardinality(X) + 1
    <3>1. CASE new \in X
      <4>1. X \cup {new} = X
        BY <3>1
      <4>2. Cardinality(X) \in Nat
        BY <2>4, FS_CardinalityType
      <4>3. Cardinality(X) <= Cardinality(X) + 1
        BY <4>2
      <4> QED
        BY <2>4, <4>1, <4>2, <4>3
    <3>2. CASE new \notin X
      <4>1. IsFiniteSet(X \cup {new}) /\ Cardinality(X \cup {new}) = Cardinality(X) + 1
        BY <2>4, <3>2, FS_AddElement
      <4>2. Cardinality(X) \in Nat
        BY <2>4, FS_CardinalityType
      <4> QED
        BY <4>1, <4>2
    <3> QED
      BY <3>1, <3>2
  <2>6. Cardinality(Y) <= Cardinality(X \cup {new}) /\ Cardinality(Y) \in Nat /\ Cardinality(X \cup {new}) \in Nat
    BY <2>3, <2>5, FS_Subset, FS_CardinalityType
  <2>7. Cardinality(Y) <= Len(attempts) + 1 - n
    BY <1>0, <2>1, <2>2, <2>5, <2>6
  <2> QED
    BY <2>7 DEF Y
<1> QED
  BY <1>2, <1>3

(***************************************************************************)
(* The login limiter: the table of states and its operations               *)
(***************************************************************************)
LoginKeys == (Usernames \cup {NoUser}) \X Addresses
LoginStates == [key : LoginKeys, attempts : Seq(Nat), failures : Nat, used : Nat]

\* One state per key, in the order of their last use, none above the limit.
TableOK(g) ==
  /\ g \in Seq(LoginStates)
  /\ \A i, j \in 1..Len(g) : g[i].key = g[j].key => i = j
  /\ \A i, j \in 1..Len(g) : i <= j => g[i].used <= g[j].used
  /\ \A i \in 1..Len(g) : g[i].used <= gateClock /\ Len(g[i].attempts) <= AttemptLimit

\* What h forgets of g was used no later than anything h keeps, what it keeps
\* it does not make older, and what is new in it was used now.
Fades(g, h) ==
  /\ \A old \in Range(g) : ~Known(h, old.key) => \A kept \in Range(h) : kept.used >= old.used
  /\ \A old \in Range(g), kept \in Range(h) : kept.key = old.key => kept.used >= old.used
  /\ \A new \in Range(h) : ~Known(g, new.key) => new.used = gateClock

\* A table by its members rather than by their places.
LEMMA TableMembers ==
  ASSUME NEW g, TableOK(g)
  PROVE  /\ DOMAIN g = 1..Len(g) /\ Len(g) \in Nat
         /\ \A i \in 1..Len(g) : g[i] \in LoginStates /\ g[i] \in Range(g)
         /\ \A s \in Range(g) : \E i \in 1..Len(g) : s = g[i]
         /\ Range(g) \subseteq LoginStates
         /\ \A s \in Range(g) : s.used <= gateClock /\ Len(s.attempts) <= AttemptLimit
         /\ \A s, t \in Range(g) : s.key = t.key => s = t
<1>1. DOMAIN g = 1..Len(g) /\ Len(g) \in Nat /\ \A i \in 1..Len(g) : g[i] \in LoginStates
  BY LenProperties, ElementOfSeq DEF TableOK
<1>2. /\ \A i \in 1..Len(g) : g[i] \in Range(g)
      /\ \A s \in Range(g) : \E i \in 1..Len(g) : s = g[i]
  BY <1>1 DEF Range
<1>3. Range(g) \subseteq LoginStates
  BY <1>1, <1>2
<1>4. \A s \in Range(g) : s.used <= gateClock /\ Len(s.attempts) <= AttemptLimit
  BY <1>2 DEF TableOK
<1>5. \A s, t \in Range(g) : s.key = t.key => s = t
  BY <1>2 DEF TableOK
<1> QED
  BY <1>1, <1>2, <1>3, <1>4, <1>5

\* The state of a key that the table knows.
LEMMA StateOfKnown ==
  ASSUME NEW g, TableOK(g), NEW key, Known(g, key)
  PROVE  /\ StateOf(g, key) \in Range(g) /\ StateOf(g, key) \in LoginStates /\ StateOf(g, key).key = key
         /\ \A s \in Range(g) : s.key = key => s = StateOf(g, key)
<1>1. StateOf(g, key) \in Range(g) /\ StateOf(g, key).key = key
  BY DEF Known, StateOf
<1>2. Range(g) \subseteq LoginStates /\ \A s, t \in Range(g) : s.key = t.key => s = t
  BY TableMembers
<1> HIDE DEF StateOf
<1> QED
  BY <1>1, <1>2

\* Fading goes on from table to table.
LEMMA FadesOn ==
  ASSUME NEW f, NEW g, NEW h, gateClock \in Nat, TableOK(f), TableOK(g), TableOK(h), Fades(f, g), Fades(g, h)
  PROVE  Fades(f, h)
<1>0. /\ \A s \in Range(f) : s.used \in Nat /\ s.used <= gateClock
      /\ \A s \in Range(g) : s.used \in Nat /\ s.used <= gateClock
      /\ \A s \in Range(h) : s.used \in Nat /\ s.used <= gateClock
  BY TableMembers DEF LoginStates
<1>1. ASSUME NEW old \in Range(f), NEW kept \in Range(h), kept.key = old.key
      PROVE  kept.used >= old.used
  <2>1. CASE Known(g, old.key)
    <3>1. PICK s \in Range(g) : s.key = old.key
      BY <2>1 DEF Known
    <3>2. s.used >= old.used /\ kept.used >= s.used
      BY <1>1, <3>1 DEF Fades
    <3> QED
      BY <1>0, <3>2
  <2>2. CASE ~Known(g, old.key)
    <3>1. kept.used = gateClock
      BY <1>1, <2>2 DEF Fades
    <3> QED
      BY <1>0, <3>1
  <2> QED
    BY <2>1, <2>2
<1>2. ASSUME NEW new \in Range(h), ~Known(f, new.key)
      PROVE  new.used = gateClock
  <2>1. CASE Known(g, new.key)
    <3>1. PICK s \in Range(g) : s.key = new.key
      BY <2>1 DEF Known
    <3>2. s.used = gateClock /\ new.used >= s.used
      BY <1>2, <3>1 DEF Fades
    <3> QED
      BY <1>0, <3>2
  <2>2. CASE ~Known(g, new.key)
    BY <2>2 DEF Fades
  <2> QED
    BY <2>1, <2>2
<1>3. ASSUME NEW old \in Range(f), ~Known(h, old.key), NEW kept \in Range(h)
      PROVE  kept.used >= old.used
  <2>1. CASE Known(g, old.key)
    <3>1. PICK s \in Range(g) : s.key = old.key
      BY <2>1 DEF Known
    <3>2. s.used >= old.used
      BY <3>1 DEF Fades
    <3>3. kept.used >= s.used
      BY <1>3, <3>1 DEF Fades
    <3> QED
      BY <1>0, <3>2, <3>3
  <2>2. CASE ~Known(g, old.key) /\ Known(g, kept.key)
    <3>1. PICK s \in Range(g) : s.key = kept.key
      BY <2>2 DEF Known
    <3>2. s.used >= old.used
      BY <2>2 DEF Fades
    <3>3. kept.used >= s.used
      BY <3>1 DEF Fades
    <3> QED
      BY <1>0, <3>2, <3>3
  <2>3. CASE ~Known(g, kept.key)
    <3>1. kept.used = gateClock
      BY <2>3 DEF Fades
    <3> QED
      BY <1>0, <3>1
  <2> QED
    BY <2>1, <2>2, <2>3
<1> QED
  BY <1>1, <1>2, <1>3 DEF Fades

\* cleanInactive drops states from the front, and only idle ones.
LEMMA CleanEffect ==
  ASSUME NEW g, TableOK(g), gateClock \in Nat
  PROVE  /\ TableOK(CleanInactive(g)) /\ Fades(g, CleanInactive(g))
         /\ Range(CleanInactive(g)) \subseteq Range(g)
         /\ \A s \in Range(g) : s \in Range(CleanInactive(g)) \/ Idle(s)
<1> DEFINE young == {i \in DOMAIN g : ~Idle(g[i])}
           h == CleanInactive(g)
<1>0. /\ DOMAIN g = 1..Len(g) /\ Len(g) \in Nat
      /\ \A i \in 1..Len(g) : g[i] \in LoginStates /\ g[i] \in Range(g)
      /\ \A s \in Range(g) : \E i \in 1..Len(g) : s = g[i]
  BY TableMembers
<1>1. CASE young = {}
  <2>1. h = <<>>
    BY <1>1 DEF CleanInactive
  <2> HIDE DEF h
  <2>2. h \in Seq(LoginStates) /\ Len(h) = 0 /\ DOMAIN h = {}
    BY <2>1, EmptySeq
  <2>3. Range(h) = {}
    BY <2>2 DEF Range
  <2>4. TableOK(h)
    BY <2>2 DEF TableOK
  <2>5. \A s \in Range(g) : Idle(s)
    BY <1>0, <1>1
  <2>6. Fades(g, h)
    BY <2>3 DEF Fades
  <2> QED
    BY <2>3, <2>4, <2>5, <2>6 DEF h
<1>2. CASE young # {}
  <2> DEFINE m == Min(young)
  <2>0. young \subseteq Nat
    BY <1>0
  <2>1. m \in young /\ \A i \in young : m <= i
    <3> HIDE DEF young
    <3> QED
      BY <1>2, <2>0, LeastNatural
  <2>2. h = SubSeq(g, m, Len(g))
    BY <1>2 DEF CleanInactive
  <2> HIDE DEF m, h
  <2>3. m \in 1..Len(g) /\ \A i \in 1..Len(g) : i < m => Idle(g[i])
    <3>1. m \in 1..Len(g)
      BY <1>0, <2>1
    <3>2. ASSUME NEW i \in 1..Len(g), i < m PROVE Idle(g[i])
      <4>1. i \notin young
        BY <2>1, <3>1, <3>2
      <4> QED
        BY <1>0, <4>1
    <3> QED
      BY <3>1, <3>2
  <2>4. /\ h \in Seq(LoginStates) /\ Len(h) = Len(g) - m + 1 /\ DOMAIN h = 1..(Len(g) - m + 1)
        /\ \A i \in 1..(Len(g) - m + 1) : m + i - 1 \in 1..Len(g) /\ h[i] = g[m + i - 1]
    BY <2>2, <2>3, SuffixPlaces DEF TableOK
  <2>5. TableOK(h)
    <3>1. ASSUME NEW i \in 1..Len(h), NEW j \in 1..Len(h)
          PROVE  /\ h[i].key = h[j].key => i = j
                 /\ i <= j => h[i].used <= h[j].used
                 /\ h[i].used <= gateClock /\ Len(h[i].attempts) <= AttemptLimit
      <4>1. /\ m + i - 1 \in 1..Len(g) /\ h[i] = g[m + i - 1]
            /\ m + j - 1 \in 1..Len(g) /\ h[j] = g[m + j - 1]
        BY <2>4
      <4>2. (m + i - 1 = m + j - 1 => i = j) /\ (i <= j => m + i - 1 <= m + j - 1)
        BY <1>0, <2>3
      <4> QED
        BY <4>1, <4>2 DEF TableOK
    <3> QED
      BY <2>4, <3>1 DEF TableOK
  <2>6. Range(h) = {g[i] : i \in m..Len(g)}
    <3>1. ASSUME NEW i \in m..Len(g) PROVE g[i] \in Range(h)
      <4>1. i - m + 1 \in 1..(Len(g) - m + 1) /\ m + (i - m + 1) - 1 = i
        BY <1>0, <2>3
      <4>2. h[i - m + 1] = g[i]
        BY <2>4, <4>1
      <4> QED
        BY <2>4, <4>1, <4>2 DEF Range
    <3>2. ASSUME NEW s \in Range(h) PROVE s \in {g[i] : i \in m..Len(g)}
      <4>1. PICK i \in 1..(Len(g) - m + 1) : s = h[i]
        BY <2>4 DEF Range
      <4>2. m + i - 1 \in m..Len(g) /\ s = g[m + i - 1]
        BY <1>0, <2>3, <2>4, <4>1
      <4> QED
        BY <4>2
    <3> QED
      BY <3>1, <3>2
  <2>7. \A i \in 1..Len(g) : i \in m..Len(g) \/ i < m
    BY <1>0, <2>3
  <2>8. Range(h) \subseteq Range(g) /\ \A s \in Range(g) : s \in Range(h) \/ Idle(s)
    <3>1. m..Len(g) \subseteq 1..Len(g)
      BY <1>0, <2>3
    <3>2. \A i \in 1..Len(g) : g[i] \in Range(h) \/ Idle(g[i])
      BY <2>3, <2>6, <2>7
    <3> QED
      BY <1>0, <2>6, <3>1, <3>2
  <2>9. Fades(g, h)
    <3>1. ASSUME NEW old \in Range(g), ~Known(h, old.key), NEW kept \in Range(h) PROVE kept.used >= old.used
      <4>1. PICK i \in 1..Len(g) : old = g[i]
        BY <1>0
      <4>2. old \notin Range(h)
        BY <3>1 DEF Known
      <4>3. i < m
        BY <2>6, <2>7, <4>1, <4>2
      <4>4. PICK j \in m..Len(g) : kept = g[j]
        BY <2>6
      <4>5. j \in 1..Len(g) /\ i <= j
        BY <1>0, <2>3, <4>3
      <4>6. g[i].used <= g[j].used /\ g[i].used \in Nat /\ g[j].used \in Nat
        BY <1>0, <4>5 DEF TableOK, LoginStates
      <4> QED
        BY <4>1, <4>4, <4>6
    <3>2. ASSUME NEW old \in Range(g), NEW kept \in Range(h), kept.key = old.key PROVE kept.used >= old.used
      <4>1. kept = old /\ old \in LoginStates
        BY <2>8, <3>2, TableMembers
      <4>2. old.used \in Nat
        BY <4>1 DEF LoginStates
      <4> QED
        BY <4>1, <4>2
    <3>3. \A new \in Range(h) : Known(g, new.key)
      BY <2>8 DEF Known
    <3> QED
      BY <3>1, <3>2, <3>3 DEF Fades
  <2> QED
    BY <2>5, <2>8, <2>9 DEF h
<1> QED
  BY <1>1, <1>2

\* A table with one more state, used now, under a key that it did not know.
LEMMA AppendEffect ==
  ASSUME NEW g, TableOK(g), gateClock \in Nat, NEW s \in LoginStates, ~Known(g, s.key),
         s.used = gateClock, Len(s.attempts) <= AttemptLimit
  PROVE  TableOK(Append(g, s)) /\ Range(Append(g, s)) = Range(g) \cup {s}
<1> DEFINE h == Append(g, s)
<1>0. /\ DOMAIN g = 1..Len(g) /\ Len(g) \in Nat
      /\ \A i \in 1..Len(g) : g[i] \in LoginStates /\ g[i] \in Range(g)
      /\ \A t \in Range(g) : \E i \in 1..Len(g) : t = g[i]
  BY TableMembers
<1>1. /\ h \in Seq(LoginStates) /\ Len(h) = Len(g) + 1 /\ h[Len(g) + 1] = s
      /\ \A i \in 1..Len(g) : h[i] = g[i]
  BY <1>0, AppendProperties DEF TableOK
<1> HIDE DEF h
<1>2. DOMAIN h = 1..(Len(g) + 1)
  BY <1>1, LenProperties
<1>3. \A i \in 1..(Len(g) + 1) : i \in 1..Len(g) \/ i = Len(g) + 1
  BY <1>0
<1>4. Range(h) = Range(g) \cup {s}
  <2>1. \A i \in 1..Len(g) : i \in DOMAIN h /\ g[i] = h[i]
    BY <1>0, <1>1, <1>2
  <2>2. Len(g) + 1 \in DOMAIN h
    BY <1>0, <1>2
  <2>3. Range(g) \cup {s} \subseteq Range(h)
    BY <1>0, <1>1, <2>1, <2>2 DEF Range
  <2>4. ASSUME NEW t \in Range(h) PROVE t \in Range(g) \cup {s}
    BY <1>0, <1>1, <1>2, <1>3 DEF Range
  <2> QED
    BY <2>3, <2>4
<1>5. TableOK(h)
  <2>1. ASSUME NEW i \in 1..Len(h), NEW j \in 1..Len(h), h[i].key = h[j].key PROVE i = j
    <3>1. ASSUME NEW k \in 1..Len(g) PROVE g[k].key # s.key
      BY <1>0 DEF Known
    <3>2. (i \in 1..Len(g) /\ h[i] = g[i]) \/ (i = Len(g) + 1 /\ h[i] = s)
      BY <1>1, <1>3
    <3>3. (j \in 1..Len(g) /\ h[j] = g[j]) \/ (j = Len(g) + 1 /\ h[j] = s)
      BY <1>1, <1>3
    <3> QED
      BY <2>1, <3>1, <3>2, <3>3 DEF TableOK
  <2>2. ASSUME NEW i \in 1..Len(h), NEW j \in 1..Len(h), i <= j PROVE h[i].used <= h[j].used
    <3>1. (i \in 1..Len(g) /\ h[i] = g[i] /\ g[i].used \in Nat /\ g[i].used <= gateClock) \/ (i = Len(g) + 1 /\ h[i] = s)
      BY <1>0, <1>1, <1>3 DEF TableOK, LoginStates
    <3>2. (j \in 1..Len(g) /\ h[j] = g[j]) \/ (j = Len(g) + 1 /\ h[j] = s)
      BY <1>1, <1>3
    <3>3. CASE j \in 1..Len(g)
      <4>1. i \in 1..Len(g)
        BY <1>0, <1>1, <2>2, <3>3
      <4> QED
        BY <1>1, <2>2, <3>3, <4>1 DEF TableOK
    <3>4. CASE j = Len(g) + 1
      <4>1. h[j] = s
        BY <1>1, <3>4
      <4> QED
        BY <3>1, <4>1
    <3> QED
      BY <3>2, <3>3, <3>4
  <2>3. ASSUME NEW i \in 1..Len(h) PROVE h[i].used <= gateClock /\ Len(h[i].attempts) <= AttemptLimit
    BY <1>1, <1>3 DEF TableOK
  <2> QED
    BY <1>1, <2>1, <2>2, <2>3 DEF TableOK
<1> QED
  BY <1>4, <1>5 DEF h

\* A table without the state at one place.
LEMMA RemoveEffect ==
  ASSUME NEW g, TableOK(g), NEW p \in 1..Len(g)
  PROVE  /\ TableOK(RemoveAt(g, p))
         /\ Range(RemoveAt(g, p)) = {s \in Range(g) : s.key # g[p].key}
<1> DEFINE h == RemoveAt(g, p)
<1>0. /\ DOMAIN g = 1..Len(g) /\ Len(g) \in Nat
      /\ \A i \in 1..Len(g) : g[i] \in LoginStates /\ g[i] \in Range(g)
      /\ \A s \in Range(g) : \E i \in 1..Len(g) : s = g[i]
  BY TableMembers
<1>1. /\ h \in Seq(LoginStates) /\ Len(h) = Len(g) - 1
      /\ \A j \in 1..(Len(g) - 1) : h[j] = IF j < p THEN g[j] ELSE g[j + 1]
  BY RemoveAtPlaces DEF TableOK
<1> HIDE DEF h
<1>2. DOMAIN h = 1..(Len(g) - 1)
  BY <1>1, LenProperties
<1> DEFINE At(j) == IF j < p THEN j ELSE j + 1
<1>3. \A j \in 1..(Len(g) - 1) : At(j) \in 1..Len(g) /\ At(j) # p /\ h[j] = g[At(j)]
  BY <1>0, <1>1
<1>4. \A i, j \in 1..(Len(g) - 1) : (At(i) = At(j) => i = j) /\ (i <= j => At(i) <= At(j))
  BY <1>0
<1>5. \A i \in 1..Len(g) : i # p => \E j \in 1..(Len(g) - 1) : At(j) = i
  <2> SUFFICES ASSUME NEW i \in 1..Len(g), i # p PROVE \E j \in 1..(Len(g) - 1) : At(j) = i
    OBVIOUS
  <2>1. CASE i < p
    <3>1. i \in 1..(Len(g) - 1) /\ At(i) = i
      BY <1>0, <2>1
    <3> QED
      BY <3>1
  <2>2. CASE i > p
    <3>1. i - 1 \in 1..(Len(g) - 1) /\ At(i - 1) = i
      BY <1>0, <2>2
    <3> QED
      BY <3>1
  <2> QED
    BY <1>0, <2>1, <2>2
<1> HIDE DEF At
<1>6. TableOK(h)
  <2>1. ASSUME NEW i \in 1..Len(h), NEW j \in 1..Len(h)
        PROVE  /\ h[i].key = h[j].key => i = j
               /\ i <= j => h[i].used <= h[j].used
               /\ h[i].used <= gateClock /\ Len(h[i].attempts) <= AttemptLimit
    <3>1. /\ At(i) \in 1..Len(g) /\ h[i] = g[At(i)]
          /\ At(j) \in 1..Len(g) /\ h[j] = g[At(j)]
      BY <1>1, <1>3
    <3>2. (At(i) = At(j) => i = j) /\ (i <= j => At(i) <= At(j))
      BY <1>1, <1>4
    <3> QED
      BY <3>1, <3>2 DEF TableOK
  <2> QED
    BY <1>1, <2>1 DEF TableOK
<1>7. Range(h) = {s \in Range(g) : s.key # g[p].key}
  <2>1. ASSUME NEW s \in Range(h) PROVE s \in Range(g) /\ s.key # g[p].key
    <3>1. PICK j \in 1..(Len(g) - 1) : s = h[j]
      BY <1>2 DEF Range
    <3>2. At(j) \in 1..Len(g) /\ At(j) # p /\ s = g[At(j)]
      BY <1>3, <3>1
    <3> QED
      BY <1>0, <3>2 DEF TableOK
  <2>2. ASSUME NEW s \in Range(g), s.key # g[p].key PROVE s \in Range(h)
    <3>1. PICK i \in 1..Len(g) : s = g[i]
      BY <1>0
    <3>2. PICK j \in 1..(Len(g) - 1) : At(j) = i
      BY <1>5, <2>2, <3>1
    <3>3. s = h[j]
      BY <1>3, <3>1, <3>2
    <3> QED
      BY <1>2, <3>3 DEF Range
  <2> QED
    BY <2>1, <2>2
<1> QED
  BY <1>6, <1>7 DEF h

\* Without takes the state of one key out and leaves the others.
LEMMA WithoutEffect ==
  ASSUME NEW g, TableOK(g), NEW key
  PROVE  TableOK(Without(g, key)) /\ Range(Without(g, key)) = {s \in Range(g) : s.key # key}
<1>1. CASE Known(g, key)
  <2> DEFINE p == CHOOSE i \in DOMAIN g : g[i].key = key
  <2>0. DOMAIN g = 1..Len(g)
    BY TableMembers
  <2>1. \E i \in DOMAIN g : g[i].key = key
    BY <1>1 DEF Known, Range
  <2>2. p \in 1..Len(g) /\ g[p].key = key
    BY <2>0, <2>1
  <2>3. Without(g, key) = RemoveAt(g, p)
    BY <1>1 DEF Without
  <2> HIDE DEF p
  <2> QED
    BY <2>2, <2>3, RemoveEffect
<1>2. CASE ~Known(g, key)
  <2>1. Without(g, key) = g
    BY <1>2 DEF Without
  <2> QED
    BY <1>2, <2>1 DEF Known
<1> QED
  BY <1>1, <1>2

\* touch replaces the state of a key by one that was used now.
LEMMA TouchedEffect ==
  ASSUME NEW g, TableOK(g), gateClock \in Nat, NEW s \in LoginStates, Len(s.attempts) <= AttemptLimit
  PROVE  /\ TableOK(Touched(g, s)) /\ Fades(g, Touched(g, s)) /\ Known(Touched(g, s), s.key)
         /\ Range(Touched(g, s)) = {t \in Range(g) : t.key # s.key} \cup {[s EXCEPT !.used = gateClock]}
<1> DEFINE w == Without(g, s.key)
           n == [s EXCEPT !.used = gateClock]
           h == Touched(g, s)
<1>1. TableOK(w) /\ Range(w) = {t \in Range(g) : t.key # s.key}
  BY WithoutEffect
<1>2. n \in LoginStates /\ n.key = s.key /\ n.used = gateClock /\ n.attempts = s.attempts
  BY DEF LoginStates
<1>3. h = Append(w, n)
  BY DEF Touched
<1> HIDE DEF w, n, h
<1>4. ~Known(w, n.key)
  BY <1>1, <1>2 DEF Known
<1>5. TableOK(h) /\ Range(h) = Range(w) \cup {n}
  BY <1>1, <1>2, <1>3, <1>4, AppendEffect
<1>6. Known(h, s.key)
  BY <1>2, <1>5 DEF Known
<1>7. \A old \in Range(g) : old.used \in Nat /\ old.used <= gateClock
  BY TableMembers DEF LoginStates
<1>8. \A old \in Range(g) : Known(h, old.key)
  BY <1>1, <1>2, <1>5 DEF Known
<1>9. ASSUME NEW old \in Range(g), NEW kept \in Range(h), kept.key = old.key PROVE kept.used >= old.used
  <2>1. CASE kept = n
    BY <1>2, <1>7, <2>1
  <2>2. CASE kept \in Range(g)
    <3>1. kept = old
      BY <1>9, <2>2, TableMembers
    <3> QED
      BY <1>7, <3>1
  <2> QED
    BY <1>1, <1>5, <2>1, <2>2
<1>10. ASSUME NEW new \in Range(h), ~Known(g, new.key) PROVE new.used = gateClock
  BY <1>1, <1>2, <1>5, <1>10 DEF Known
<1>11. Fades(g, h)
  BY <1>8, <1>9, <1>10 DEF Fades
<1> QED
  BY <1>1, <1>5, <1>6, <1>11 DEF n, h

\* state finds or makes the state of a key; a full table makes room at its front.
LEMMA WithStateEffect ==
  ASSUME NEW g, TableOK(g), gateClock \in Nat, NEW key \in LoginKeys
  PROVE  /\ TableOK(WithState(g, key)) /\ Fades(g, WithState(g, key)) /\ Known(WithState(g, key), key)
         /\ \A s \in Range(WithState(g, key)) :
              IF s.key = key /\ ~Known(g, key) THEN s = Fresh(key) ELSE s \in Range(g)
<1> DEFINE h == WithState(g, key)
<1>0. /\ DOMAIN g = 1..Len(g) /\ Len(g) \in Nat
      /\ \A i \in 1..Len(g) : g[i] \in LoginStates /\ g[i] \in Range(g)
      /\ \A s \in Range(g) : \E i \in 1..Len(g) : s = g[i]
      /\ \A s \in Range(g) : s.used \in Nat /\ s.used <= gateClock
      /\ \A s, t \in Range(g) : s.key = t.key => s = t
  BY TableMembers DEF LoginStates
<1>1. CASE Known(g, key)
  <2>1. h = g
    BY <1>1 DEF WithState
  <2>2. Fades(g, g)
    <3>1. \A old \in Range(g) : Known(g, old.key)
      BY DEF Known
    <3>2. \A old \in Range(g), kept \in Range(g) : kept.key = old.key => kept.used >= old.used
      BY <1>0
    <3> QED
      BY <3>1, <3>2 DEF Fades
  <2> QED
    BY <1>1, <2>1, <2>2
<1>2. CASE ~Known(g, key)
  <2> DEFINE r == IF Len(g) >= MaxStates THEN Tail(g) ELSE g
             f == Fresh(key)
  <2>1. h = Append(r, f)
    BY <1>2 DEF WithState
  <2>2. /\ f \in LoginStates /\ f.key = key /\ f.used = gateClock /\ Len(f.attempts) <= AttemptLimit
    <3>1. <<>> \in Seq(Nat) /\ Len(<<>>) = 0
      BY EmptySeq
    <3> QED
      BY <3>1, LoginAssumption DEF Fresh, LoginStates
  <2>3. TableOK(r) /\ Range(r) \subseteq Range(g)
        /\ \A old \in Range(g) : old \in Range(r) \/ \A kept \in Range(r) : kept.used >= old.used
    <3>1. CASE Len(g) >= MaxStates
      <4>1. r = RemoveAt(g, 1)
        <5>1. g # <<>>
          BY <3>1, <1>0, LoginAssumption, EmptySeq
        <5>2. r = Tail(g)
          BY <3>1
        <5>3. /\ Tail(g) \in Seq(LoginStates) /\ Len(Tail(g)) = Len(g) - 1
              /\ \A i \in 1..Len(Tail(g)) : Tail(g)[i] = g[i + 1]
          BY <5>1, HeadTailProperties DEF TableOK
        <5>4. /\ RemoveAt(g, 1) \in Seq(LoginStates) /\ Len(RemoveAt(g, 1)) = Len(g) - 1
              /\ \A j \in 1..(Len(g) - 1) : RemoveAt(g, 1)[j] = IF j < 1 THEN g[j] ELSE g[j + 1]
          <6>1. 1 \in 1..Len(g)
            BY <1>0, <3>1, LoginAssumption
          <6> QED
            BY <6>1, RemoveAtPlaces DEF TableOK
        <5>5. \A i \in 1..(Len(g) - 1) : Tail(g)[i] = RemoveAt(g, 1)[i]
          BY <1>0, <5>3, <5>4
        <5>6. Tail(g) = RemoveAt(g, 1)
          BY <5>3, <5>4, <5>5, SeqEqual
        <5> QED
          BY <5>2, <5>6
      <4>2. 1 \in 1..Len(g)
        BY <1>0, <3>1, LoginAssumption
      <4> HIDE DEF r
      <4>3. TableOK(r) /\ Range(r) = {s \in Range(g) : s.key # g[1].key}
        BY <4>1, <4>2, RemoveEffect
      <4>4. ASSUME NEW old \in Range(g), old \notin Range(r), NEW kept \in Range(r) PROVE kept.used >= old.used
        <5>1. old = g[1]
          BY <1>0, <4>2, <4>3, <4>4
        <5>2. PICK i \in 1..Len(g) : kept = g[i]
          BY <1>0, <4>3
        <5>3. g[1].used <= g[i].used
          BY <1>0, <4>2 DEF TableOK
        <5> QED
          BY <1>0, <4>2, <5>1, <5>2, <5>3
      <4> QED
        BY <4>3, <4>4
    <3>2. CASE ~(Len(g) >= MaxStates)
      BY <3>2
    <3> QED
      BY <3>1, <3>2
  <2> HIDE DEF r, f, h
  <2>4. ~Known(r, f.key)
    BY <1>2, <2>2, <2>3 DEF Known
  <2>5. TableOK(h) /\ Range(h) = Range(r) \cup {f}
    BY <2>1, <2>2, <2>3, <2>4, AppendEffect
  <2>6. Fades(g, h)
    <3>1. ASSUME NEW old \in Range(g), ~Known(h, old.key), NEW kept \in Range(h) PROVE kept.used >= old.used
      <4>1. old \notin Range(r)
        BY <2>5, <3>1 DEF Known
      <4> QED
        BY <1>0, <2>2, <2>3, <2>5, <4>1
    <3>2. ASSUME NEW old \in Range(g), NEW kept \in Range(h), kept.key = old.key PROVE kept.used >= old.used
      BY <1>0, <2>2, <2>3, <2>5, <3>2
    <3>3. ASSUME NEW new \in Range(h), ~Known(g, new.key) PROVE new.used = gateClock
      BY <2>2, <2>3, <2>5, <3>3 DEF Known
    <3> QED
      BY <3>1, <3>2, <3>3 DEF Fades
  <2>7. Known(h, key)
    BY <2>2, <2>5 DEF Known
  <2>8. \A s \in Range(h) : IF s.key = key THEN s = f ELSE s \in Range(g)
    BY <2>2, <2>3, <2>4, <2>5 DEF Known
  <2> QED
    BY <1>2, <2>5, <2>6, <2>7, <2>8 DEF h, f
<1> QED
  BY <1>1, <1>2

\* startAttempt: what becomes of the state of the key, of the others, and who is let in.
LEMMA StartOneEffect ==
  ASSUME NEW g, TableOK(g), gateClock \in Nat, NEW key \in LoginKeys
  PROVE  LET h == StartOne(g, key).table
             ok == StartOne(g, key).ok
         IN  /\ TableOK(h) /\ Fades(g, h) /\ Known(h, key)
             /\ \A s \in Range(h) : IF s.key = key THEN s.used = gateClock ELSE s \in Range(g)
             /\ \E base \in Seq(Nat) :
                  /\ \/ \E o \in Range(g) : o.key = key /\ o.attempts = base
                     \/ ~Known(g, key) /\ base = <<>>
                  /\ \A s \in Range(h) : s.key = key =>
                       s.attempts = IF ok THEN Append(KeepWindowAttempts(base), gateClock)
                                          ELSE KeepWindowAttempts(base)
<1> DEFINE w == WithState(g, key)
           o == StateOf(w, key)
           kept == KeepWindowAttempts(o.attempts)
           ok == Len(kept) < AttemptLimit
           list == IF ok THEN Append(kept, gateClock) ELSE kept
           s1 == [o EXCEPT !.attempts = list]
           h == Touched(w, s1)
<1>1. StartOne(g, key).table = h /\ StartOne(g, key).ok = ok
  BY DEF StartOne
<1>2. /\ TableOK(w) /\ Fades(g, w) /\ Known(w, key)
      /\ \A s \in Range(w) : IF s.key = key /\ ~Known(g, key) THEN s = Fresh(key) ELSE s \in Range(g)
  BY WithStateEffect
<1>3. /\ o \in Range(w) /\ o \in LoginStates /\ o.key = key
  <2> HIDE DEF w
  <2> QED
    BY <1>2, StateOfKnown
<1>4. o.attempts \in Seq(Nat) /\ Len(o.attempts) <= AttemptLimit
  <2> HIDE DEF w, o
  <2> QED
    BY <1>2, <1>3, TableMembers DEF LoginStates
<1>5. kept \in Seq(Nat) /\ Len(kept) <= Len(o.attempts) /\ Len(kept) \in Nat
  <2> HIDE DEF o
  <2>1. kept \in Seq(Nat) /\ Len(kept) <= Len(o.attempts)
    <3>1. Covers(o.attempts, {}, <<>>, gateClock)
      BY <1>4, CoversOld
    <3> QED
      BY <1>4, <3>1, CoversKept
  <2> QED
    BY <2>1, LenProperties
<1> HIDE DEF w, o, kept
<1>6. list \in Seq(Nat) /\ Len(list) <= AttemptLimit
  <2>1. CASE ok
    <3>1. list = Append(kept, gateClock) /\ Len(kept) < AttemptLimit
      BY <2>1
    <3>2. Append(kept, gateClock) \in Seq(Nat) /\ Len(Append(kept, gateClock)) = Len(kept) + 1
      BY <1>5, AppendProperties
    <3> QED
      BY <1>5, <3>1, <3>2, LoginAssumption
  <2>2. CASE ~ok
    <3>1. Len(o.attempts) \in Nat
      BY <1>4, LenProperties
    <3> QED
      BY <1>4, <1>5, <2>2, <3>1, LoginAssumption
  <2> QED
    BY <2>1, <2>2
<1> HIDE DEF ok, list
<1>7. s1 \in LoginStates /\ s1.key = key /\ s1.attempts = list
  BY <1>3, <1>6 DEF LoginStates
<1>8. /\ [s1 EXCEPT !.used = gateClock].key = key /\ [s1 EXCEPT !.used = gateClock].attempts = list
      /\ [s1 EXCEPT !.used = gateClock].used = gateClock
  BY <1>3, <1>6 DEF LoginStates
<1> HIDE DEF s1
<1>9. /\ TableOK(h) /\ Fades(w, h) /\ Known(h, key)
      /\ Range(h) = {t \in Range(w) : t.key # key} \cup {[s1 EXCEPT !.used = gateClock]}
  BY <1>2, <1>6, <1>7, TouchedEffect
<1> HIDE DEF h
<1>10. Fades(g, h)
  BY <1>2, <1>9, FadesOn
<1>11. \A s \in Range(h) : IF s.key = key THEN s.used = gateClock ELSE s \in Range(g)
  BY <1>2, <1>8, <1>9
<1>12. \A s \in Range(h) : s.key = key => s.attempts = list
  BY <1>8, <1>9
<1>13. \/ \E q \in Range(g) : q.key = key /\ q.attempts = o.attempts
       \/ ~Known(g, key) /\ o.attempts = <<>>
  <2>1. CASE Known(g, key)
    BY <1>2, <1>3, <2>1
  <2>2. CASE ~Known(g, key)
    <3>1. o = Fresh(key)
      BY <1>2, <1>3, <2>2
    <3> QED
      BY <2>2, <3>1 DEF Fresh
  <2> QED
    BY <2>1, <2>2
<1>14. list = IF ok THEN Append(KeepWindowAttempts(o.attempts), gateClock)
                    ELSE KeepWindowAttempts(o.attempts)
  BY DEF list, kept
<1>15. \E base \in Seq(Nat) :
         /\ \/ \E q \in Range(g) : q.key = key /\ q.attempts = base
            \/ ~Known(g, key) /\ base = <<>>
         /\ \A s \in Range(h) : s.key = key =>
              s.attempts = IF ok THEN Append(KeepWindowAttempts(base), gateClock)
                                 ELSE KeepWindowAttempts(base)
  BY <1>4, <1>12, <1>13, <1>14
<1> QED
  BY <1>1, <1>9, <1>10, <1>11, <1>15

\* RecordFailure leaves every list of attempts as it was.
LEMMA FailureEffect ==
  ASSUME NEW g, TableOK(g), gateClock \in Nat, NEW key \in LoginKeys
  PROVE  LET h == Failure(g, key)
             c == CleanInactive(g)
         IN  /\ TableOK(h) /\ Fades(g, h)
             /\ \A s \in Range(h) :
                  \/ \E o \in Range(c) : o.key = s.key /\ o.attempts = s.attempts
                  \/ ~Known(c, s.key) /\ s.attempts = <<>>
<1> DEFINE c == CleanInactive(g)
           w == WithState(c, key)
           o == StateOf(w, key)
           s1 == [o EXCEPT !.failures = Min({o.failures + 1, 4})]
           h == Touched(w, s1)
<1>1. Failure(g, key) = h
  BY DEF Failure
<1>2. TableOK(c) /\ Fades(g, c)
  BY CleanEffect
<1> HIDE DEF c
<1>3. /\ TableOK(w) /\ Fades(c, w) /\ Known(w, key)
      /\ \A s \in Range(w) : IF s.key = key /\ ~Known(c, key) THEN s = Fresh(key) ELSE s \in Range(c)
  BY <1>2, WithStateEffect
<1> HIDE DEF w
<1>4. /\ o \in Range(w) /\ o \in LoginStates /\ o.key = key
  BY <1>3, StateOfKnown
<1> HIDE DEF o
<1>5. Len(o.attempts) <= AttemptLimit
  BY <1>3, <1>4, TableMembers
<1>6. Min({o.failures + 1, 4}) \in Nat
  <2> DEFINE T == {o.failures + 1, 4}
  <2>1. T \subseteq Nat /\ T # {}
    BY <1>4 DEF LoginStates
  <2> HIDE DEF T
  <2>2. Min(T) \in T
    BY <2>1, LeastNatural
  <2> QED
    BY <2>1, <2>2 DEF T
<1>7. s1 \in LoginStates /\ s1.key = key /\ s1.attempts = o.attempts
  BY <1>4, <1>6 DEF LoginStates
<1>8. [s1 EXCEPT !.used = gateClock].key = key /\ [s1 EXCEPT !.used = gateClock].attempts = o.attempts
  BY <1>4, <1>6 DEF LoginStates
<1> HIDE DEF s1
<1>9. /\ TableOK(h) /\ Fades(w, h) /\ Known(h, key)
      /\ Range(h) = {t \in Range(w) : t.key # key} \cup {[s1 EXCEPT !.used = gateClock]}
  BY <1>3, <1>5, <1>7, TouchedEffect
<1> HIDE DEF h
<1>10. Fades(g, w)
  BY <1>2, <1>3, FadesOn
<1>11. Fades(g, h)
  BY <1>3, <1>9, <1>10, FadesOn
<1>12. \/ \E q \in Range(c) : q.key = key /\ q.attempts = o.attempts
       \/ ~Known(c, key) /\ o.attempts = <<>>
  <2>1. CASE Known(c, key)
    BY <1>3, <1>4, <2>1
  <2>2. CASE ~Known(c, key)
    <3>1. o = Fresh(key)
      BY <1>3, <1>4, <2>2
    <3> QED
      BY <2>2, <3>1 DEF Fresh
  <2> QED
    BY <2>1, <2>2
<1>13. ASSUME NEW s \in Range(h)
       PROVE  \/ \E q \in Range(c) : q.key = s.key /\ q.attempts = s.attempts
              \/ ~Known(c, s.key) /\ s.attempts = <<>>
  <2>1. CASE s.key = key
    <3>1. s.attempts = o.attempts
      BY <1>8, <1>9, <2>1
    <3> QED
      BY <1>12, <2>1, <3>1
  <2>2. CASE s.key # key
    <3>1. s \in Range(c)
      BY <1>3, <1>8, <1>9, <2>2
    <3> QED
      BY <3>1
  <2> QED
    BY <2>1, <2>2
<1> QED
  BY <1>1, <1>9, <1>11, <1>13 DEF c

(***************************************************************************)
(* The login limiter: the inductive invariant                              *)
(***************************************************************************)
LimiterSpec == GateInit /\ [][GateNext]_gateVars

LoginRecords ==
  [at : {"idle", "verifying", "failing", "matched", "welcome", "delayed", "refused", "done"},
   address : Addresses \cup {NoUser}, key : LoginKeys \cup {<<>>}, since : Nat]

\* The guesses of an address that the table knows of, and when they were made.
Guesses(a) == {l \in counted : login[l].address = a}
Since == [l \in Logins |-> login[l].since]

GateTypeOK ==
  /\ login \in [Logins -> LoginRecords] /\ gateClock \in Nat
  /\ \A l \in Logins : login[l].at # "idle" => login[l].key \in LoginKeys /\ login[l].address \in Addresses
  /\ \A l \in Logins : login[l].since <= gateClock

GateInv ==
  /\ GateTypeOK
  /\ TableOK(gate)
  /\ counted \subseteq Logins /\ \A l \in counted : login[l].at # "idle"
  /\ \A l \in counted : Known(gate, AddressKey(login[l].address))
  /\ \A l \in counted, s \in Range(gate) : s.key = AddressKey(login[l].address) => login[l].since <= s.used
  /\ \A a \in Addresses, s \in Range(gate) :
       s.key = AddressKey(a) => Covers(s.attempts, Guesses(a), Since, gateClock)

\* The limit follows: the newest window's guesses are at most as many as attempts.
LEMMA LimiterInvIsEnough == GateInv => GuessesBounded
<1> SUFFICES ASSUME GateInv, NEW a \in Addresses
             PROVE  Cardinality({l \in counted : login[l].address = a /\ login[l].since + Window > gateClock})
                      <= AttemptLimit
  BY DEF GuessesBounded
<1> DEFINE recent == {l \in counted : login[l].address = a /\ login[l].since + Window > gateClock}
<1>1. gateClock \in Nat /\ Window \in Nat /\ AttemptLimit \in Nat /\ counted \subseteq Logins
      /\ \A l \in Logins : login[l].since \in Nat
  BY LoginAssumption DEF GateInv, GateTypeOK, LoginRecords
<1>2. CASE recent = {}
  <2>1. Cardinality(recent) = 0
    BY <1>2, FS_EmptySet
  <2> HIDE DEF recent
  <2>2. Cardinality(recent) <= AttemptLimit
    BY <1>1, <2>1
  <2> QED
    BY <2>2 DEF recent
<1>3. CASE recent # {}
  <2>1. PICK l \in counted : login[l].address = a /\ login[l].since + Window > gateClock
    BY <1>3
  <2>2. PICK s \in Range(gate) : s.key = AddressKey(a)
    BY <2>1 DEF GateInv, Known
  <2>3. Covers(s.attempts, Guesses(a), Since, gateClock)
    BY <2>2 DEF GateInv
  <2>4. s.attempts \in Seq(Nat) /\ Len(s.attempts) <= AttemptLimit
    BY <2>2, TableMembers DEF GateInv, LoginStates
  <2>5. Len(s.attempts) \in Nat
    BY <2>4, LenProperties
  <2> DEFINE t == IF gateClock >= Window THEN gateClock - Window + 1 ELSE 0
  <2>6. t \in Nat /\ t + Window > gateClock
    BY <1>1
  <2>7. \A n \in Nat : n + Window > gateClock <=> n >= t
    BY <1>1
  <2> HIDE DEF t
  <2>8. Cardinality({k \in Guesses(a) : Since[k] >= t}) <= Len(s.attempts) - 0
    BY <2>3, <2>5, <2>6 DEF Covers
  <2>9. {k \in Guesses(a) : Since[k] >= t} = recent
    BY <1>1, <2>7 DEF Guesses, Since
  <2> HIDE DEF recent
  <2>10. recent \subseteq Logins /\ Cardinality(recent) \in Nat
    <3>1. recent \subseteq Logins
      BY <1>1 DEF recent
    <3>2. IsFiniteSet(recent)
      BY <3>1, LoginAssumption, FS_Subset
    <3> QED
      BY <3>1, <3>2, FS_CardinalityType
  <2>11. Cardinality(recent) <= Len(s.attempts)
    <3>1. Cardinality(recent) <= Len(s.attempts) - 0
      BY <2>8, <2>9
    <3> QED
      BY <2>5, <2>10, <3>1
  <2>12. Cardinality(recent) <= AttemptLimit
    BY <1>1, <2>4, <2>5, <2>10, <2>11
  <2> QED
    BY <2>12 DEF recent
<1> QED
  BY <1>2, <1>3

\* The attempts that a cleaned table still lists for an address, none if it
\* had to be made anew, account for the guesses of the address.
LEMMA BaseCovers ==
  ASSUME GateInv, NEW a \in Addresses, NEW base \in Seq(Nat),
         \/ \E o \in Range(CleanInactive(gate)) : o.key = AddressKey(a) /\ o.attempts = base
         \/ ~Known(CleanInactive(gate), AddressKey(a)) /\ base = <<>>
  PROVE  Covers(base, Guesses(a), Since, gateClock)
<1> DEFINE c == CleanInactive(gate)
<1>0. gateClock \in Nat /\ TableOK(gate)
  BY DEF GateInv, GateTypeOK
<1>1. Range(c) \subseteq Range(gate) /\ \A s \in Range(gate) : s \in Range(c) \/ Idle(s)
  BY <1>0, CleanEffect
<1> HIDE DEF c
<1>2. CASE \E o \in Range(c) : o.key = AddressKey(a) /\ o.attempts = base
  BY <1>1, <1>2 DEF GateInv
<1>3. CASE ~Known(c, AddressKey(a)) /\ base = <<>>
  <2>1. ASSUME NEW l \in Guesses(a) PROVE Since[l] \in Nat /\ Since[l] + Window <= gateClock
    <3>1. l \in counted /\ l \in Logins /\ login[l].address = a /\ login[l].since \in Nat
      BY DEF Guesses, GateInv, GateTypeOK, LoginRecords
    <3>2. PICK s \in Range(gate) : s.key = AddressKey(a)
      BY <3>1 DEF GateInv, Known
    <3>3. s \notin Range(c)
      BY <1>3, <3>2 DEF Known
    <3>4. Idle(s)
      BY <1>1, <3>3
    <3>5. login[l].since <= s.used
      BY <3>1, <3>2 DEF GateInv
    <3>6. s.used \in Nat
      BY <1>0, <3>2, TableMembers DEF LoginStates
    <3>7. login[l].since + Window <= gateClock
      BY <1>0, <3>1, <3>4, <3>5, <3>6, LoginAssumption DEF Idle
    <3> QED
      BY <3>1, <3>7 DEF Since
  <2> QED
    BY <1>0, <2>1, CoversOld
<1> QED
  BY <1>2, <1>3 DEF c

\* The steps that change the table all count the guesses again; this is what
\* they have to keep for the invariant to hold after them.
LEMMA RecountKeeps ==
  ASSUME GateInv, GateTypeOK', TableOK(gate'), gateClock' = gateClock, NEW passed, passed \subseteq Logins, Recount(passed),
         \A l \in counted : /\ login'[l].address = login[l].address /\ login'[l].since = login[l].since
                            /\ login'[l].at # "idle",
         \A old \in Range(gate), kept \in Range(gate') : kept.key = old.key => kept.used >= old.used,
         \A l \in passed : /\ login'[l].at # "idle"
                           /\ \A s \in Range(gate') : s.key = AddressKey(login'[l].address) => s.used = gateClock,
         \A a \in Addresses, s \in Range(gate') :
           s.key = AddressKey(a) => Covers(s.attempts, Guesses(a)', Since', gateClock)
  PROVE  GateInv'
<1>1. TableOK(gate)'
  BY DEF TableOK
<1>2. counted' = {l \in counted \cup passed : Known(gate', AddressKey(login'[l].address))}
  BY DEF Recount
<1>3. /\ counted' \subseteq Logins /\ \A l \in counted' : login'[l].at # "idle"
      /\ \A l \in counted' : Known(gate', AddressKey(login'[l].address))
  BY <1>2 DEF GateInv
<1>4. ASSUME NEW l \in counted', NEW s \in Range(gate'), s.key = AddressKey(login'[l].address)
      PROVE  login'[l].since <= s.used
  <2>1. CASE l \in counted
    <3>1. PICK old \in Range(gate) : old.key = AddressKey(login[l].address)
      BY <2>1 DEF GateInv, Known
    <3>2. login[l].since <= old.used /\ s.used >= old.used
      BY <1>4, <2>1, <3>1 DEF GateInv
    <3>3. old.used \in Nat /\ s.used \in Nat
      BY TableMembers DEF LoginStates, GateInv
    <3>4. login[l].since \in Nat
      BY <2>1 DEF GateInv, GateTypeOK, LoginRecords
    <3> QED
      BY <2>1, <3>2, <3>3, <3>4
  <2>2. CASE l \in passed
    <3>1. s.used = gateClock'
      BY <1>4, <2>2
    <3>2. login'[l].since <= gateClock'
      BY <2>2 DEF GateTypeOK
    <3> QED
      BY <3>1, <3>2
  <2> QED
    BY <1>2, <2>1, <2>2
<1>5. \A a \in Addresses, s \in Range(gate') :
        s.key = AddressKey(a) => Covers(s.attempts, Guesses(a)', Since', gateClock')
  OBVIOUS
<1> QED
  BY <1>1, <1>3, <1>4, <1>5 DEF GateInv

\* StartAttempt charges the address and then, if it may go on, the account.
LEMMA StartAttemptEffect ==
  ASSUME GateInv, NEW address \in Addresses, NEW user \in Usernames \cup {NoUser}
  PROVE  LET c == CleanInactive(gate)
             start == StartAttempt(address, KeyOf(user, address))
         IN  /\ TableOK(start.table) /\ Fades(gate, start.table)
             /\ \A s \in Range(start.table) : s.key = AddressKey(address) => s.used = gateClock
             /\ \A b \in Addresses, s \in Range(start.table) :
                  s.key = AddressKey(b) /\ b # address => s \in Range(gate)
             /\ \E base \in Seq(Nat) :
                  /\ \/ \E o \in Range(c) : o.key = AddressKey(address) /\ o.attempts = base
                     \/ ~Known(c, AddressKey(address)) /\ base = <<>>
                  /\ \A s \in Range(start.table) : s.key = AddressKey(address) =>
                       \/ s.attempts = Append(KeepWindowAttempts(base), gateClock)
                       \/ ~start.ok /\ s.attempts = KeepWindowAttempts(base)
<1> DEFINE c == CleanInactive(gate)
           key == KeyOf(user, address)
           first == StartOne(c, AddressKey(address))
           second == StartOne(first.table, key)
           start == StartAttempt(address, key)
<1>0. gateClock \in Nat /\ TableOK(gate)
  BY DEF GateInv, GateTypeOK
<1>1. TableOK(c) /\ Fades(gate, c) /\ Range(c) \subseteq Range(gate)
  BY <1>0, CleanEffect
<1>2. start = IF first.ok /\ key # AddressKey(address) THEN second ELSE first
  BY DEF StartAttempt
<1>3. key \in LoginKeys /\ AddressKey(address) \in LoginKeys
  BY DEF KeyOf, AddressKey, LoginKeys
<1>4. \A b \in Addresses : b # address => AddressKey(b) # AddressKey(address)
  BY DEF AddressKey, KeyOf
<1>5. key # AddressKey(address) => \A b \in Addresses : AddressKey(b) # key
  BY DEF AddressKey, KeyOf
<1> HIDE DEF c, key, start
<1>6. /\ TableOK(first.table) /\ Fades(c, first.table)
      /\ \A s \in Range(first.table) : IF s.key = AddressKey(address) THEN s.used = gateClock ELSE s \in Range(c)
  BY <1>0, <1>1, <1>3, StartOneEffect
<1>7. PICK base \in Seq(Nat) :
        /\ \/ \E o \in Range(c) : o.key = AddressKey(address) /\ o.attempts = base
           \/ ~Known(c, AddressKey(address)) /\ base = <<>>
        /\ \A s \in Range(first.table) : s.key = AddressKey(address) =>
             s.attempts = IF first.ok THEN Append(KeepWindowAttempts(base), gateClock)
                                      ELSE KeepWindowAttempts(base)
  BY <1>0, <1>1, <1>3, StartOneEffect
<1> HIDE DEF first
<1>8. Fades(gate, first.table)
  BY <1>0, <1>1, <1>6, FadesOn
<1>9. CASE first.ok /\ key # AddressKey(address)
  <2>1. start = second
    BY <1>2, <1>9
  <2>2. /\ TableOK(second.table) /\ Fades(first.table, second.table)
        /\ \A s \in Range(second.table) : s.key # key => s \in Range(first.table)
    BY <1>0, <1>3, <1>6, StartOneEffect
  <2> HIDE DEF second
  <2>3. Fades(gate, second.table)
    BY <1>0, <1>6, <1>8, <2>2, FadesOn
  <2>4. \A b \in Addresses, s \in Range(second.table) : s.key = AddressKey(b) => s \in Range(first.table)
    BY <1>5, <1>9, <2>2
  <2>5. \A s \in Range(second.table) : s.key = AddressKey(address) =>
          s.used = gateClock /\ s.attempts = Append(KeepWindowAttempts(base), gateClock)
    BY <1>6, <1>7, <1>9, <2>4
  <2>6. \A b \in Addresses, s \in Range(second.table) :
          s.key = AddressKey(b) /\ b # address => s \in Range(gate)
    BY <1>1, <1>4, <1>6, <2>4
  <2> QED
    BY <1>7, <2>1, <2>2, <2>3, <2>5, <2>6 DEF c, key, start
<1>10. CASE ~(first.ok /\ key # AddressKey(address))
  <2>1. start = first
    BY <1>2, <1>10
  <2>2. \A b \in Addresses, s \in Range(first.table) :
          s.key = AddressKey(b) /\ b # address => s \in Range(gate)
    BY <1>1, <1>4, <1>6
  <2>3. \A s \in Range(first.table) : s.key = AddressKey(address) =>
          \/ s.attempts = Append(KeepWindowAttempts(base), gateClock)
          \/ ~first.ok /\ s.attempts = KeepWindowAttempts(base)
    BY <1>7
  <2> QED
    BY <1>6, <1>7, <1>8, <2>1, <2>2, <2>3 DEF c, key, start
<1> QED
  BY <1>9, <1>10

\* A request that is let in is one more guess and one more attempt.
LEMMA LoginKeeps ==
  ASSUME GateInv, NEW l \in Logins, NEW address \in Addresses, NEW user \in Usernames \cup {NoUser},
         Login(l, address, user)
  PROVE  GateInv' /\ Fades(gate, gate')
<1> DEFINE start == StartAttempt(address, KeyOf(user, address))
           passed == IF start.ok THEN {l} ELSE {}
           new == [at |-> IF ~start.ok THEN "refused" ELSE IF user = NoUser THEN "failing" ELSE "verifying",
                   address |-> address, key |-> KeyOf(user, address), since |-> gateClock]
<1>1. /\ login[l].at = "idle" /\ gate' = start.table /\ login' = [login EXCEPT ![l] = new]
      /\ Recount(passed) /\ gateClock' = gateClock
  BY DEF Login
<1>2. PICK base \in Seq(Nat) :
        /\ \/ \E o \in Range(CleanInactive(gate)) : o.key = AddressKey(address) /\ o.attempts = base
           \/ ~Known(CleanInactive(gate), AddressKey(address)) /\ base = <<>>
        /\ \A s \in Range(start.table) : s.key = AddressKey(address) =>
             \/ s.attempts = Append(KeepWindowAttempts(base), gateClock)
             \/ ~start.ok /\ s.attempts = KeepWindowAttempts(base)
  BY StartAttemptEffect
<1>3. /\ TableOK(start.table) /\ Fades(gate, start.table)
      /\ \A s \in Range(start.table) : s.key = AddressKey(address) => s.used = gateClock
      /\ \A b \in Addresses, s \in Range(start.table) :
           s.key = AddressKey(b) /\ b # address => s \in Range(gate)
  BY StartAttemptEffect
<1>4. /\ new \in LoginRecords /\ new.at # "idle" /\ new.address = address /\ new.key \in LoginKeys
      /\ new.since = gateClock /\ gateClock \in Nat
  BY DEF LoginRecords, LoginKeys, KeyOf, GateInv, GateTypeOK
<1> HIDE DEF start, new
<1>5. /\ login \in [Logins -> LoginRecords] /\ l \notin counted /\ counted \subseteq Logins
      /\ \A k \in Logins : login[k].since <= gateClock
  BY <1>1 DEF GateInv, GateTypeOK
<1>6. login'[l] = new /\ \A k \in Logins : k # l => login'[k] = login[k]
  BY <1>1, <1>5
<1>7. GateTypeOK'
  <2>1. login' \in [Logins -> LoginRecords]
    BY <1>1, <1>4, <1>5
  <2>2. \A k \in Logins : login'[k].at # "idle" => login'[k].key \in LoginKeys /\ login'[k].address \in Addresses
    BY <1>4, <1>6 DEF GateInv, GateTypeOK
  <2>3. \A k \in Logins : login'[k].since <= gateClock'
    BY <1>1, <1>4, <1>5, <1>6
  <2> QED
    BY <1>1, <1>4, <2>1, <2>2, <2>3 DEF GateTypeOK
<1>8. passed \subseteq {l}
  OBVIOUS
<1>9. ASSUME NEW a \in Addresses, NEW s \in Range(gate'), s.key = AddressKey(a)
      PROVE  Covers(s.attempts, Guesses(a)', Since', gateClock)
  <2>0. /\ Guesses(a)' \subseteq Guesses(a) \cup passed /\ (a # address => Guesses(a)' \subseteq Guesses(a))
        /\ Guesses(a) \subseteq Logins \ {l} /\ IsFiniteSet(Guesses(a)) /\ Guesses(a)' \subseteq Logins
    <3>1. counted' \subseteq counted \cup passed
      BY <1>1 DEF Recount
    <3>2. Guesses(a) \subseteq Logins \ {l}
      BY <1>5 DEF Guesses
    <3>3. ASSUME NEW k \in Guesses(a)' PROVE k \in Logins /\ (k \in Guesses(a) \/ (k \in passed /\ a = address))
      <4>1. k \in counted \cup passed /\ login'[k].address = a
        BY <3>1 DEF Guesses
      <4>2. CASE k \in counted
        <5>1. k \in Logins /\ k # l
          BY <1>5, <4>2
        <5>2. login[k].address = a
          BY <1>6, <4>1, <5>1
        <5>3. k \in Guesses(a)
          BY <4>2, <5>2 DEF Guesses
        <5> QED
          BY <5>1, <5>3
      <4>3. CASE k \in passed
        BY <1>4, <1>6, <1>8, <4>1, <4>3
      <4> QED
        BY <4>1, <4>2, <4>3
    <3>4. IsFiniteSet(Guesses(a))
      BY <3>2, LoginAssumption, FS_Subset
    <3> QED
      BY <3>2, <3>3, <3>4
  <2>1. /\ \A k \in Guesses(a)' : Since'[k] \in Nat /\ Since'[k] <= gateClock
        /\ \A k \in Guesses(a)' \ {l} : Since'[k] = Since[k]
        /\ \A k \in Guesses(a) : Since'[k] = Since[k]
    <3>1. \A k \in Logins : Since'[k] = login'[k].since /\ Since[k] = login[k].since
      BY DEF Since
    <3>2. \A k \in Logins : login'[k].since \in Nat /\ login'[k].since <= gateClock
      BY <1>1, <1>7 DEF GateTypeOK, LoginRecords
    <3> QED
      BY <1>6, <2>0, <3>1, <3>2
  <2>2. CASE a = address
    <3>1. Covers(base, Guesses(a), Since, gateClock)
      BY <1>2, <2>2, BaseCovers
    <3> DEFINE kept == KeepWindowAttempts(base)
    <3>2. kept \in Seq(Nat) /\ Covers(kept, Guesses(a), Since, gateClock)
      BY <1>4, <3>1, CoversKept
    <3> HIDE DEF kept
    <3>3. CASE s.attempts = Append(kept, gateClock)
      <4>1. Guesses(a)' \subseteq Guesses(a) \cup {l}
        BY <1>8, <2>0
      <4>2. Covers(Append(kept, gateClock), Guesses(a)', Since', gateClock)
        BY <1>4, <2>0, <2>1, <3>2, <4>1, CoversAppended
      <4> QED
        BY <3>3, <4>2
    <3>4. CASE ~start.ok /\ s.attempts = kept
      <4>1. Guesses(a)' \subseteq Guesses(a)
        BY <2>0, <3>4
      <4>2. Covers(kept, Guesses(a)', Since', gateClock)
        BY <1>4, <2>0, <2>1, <3>2, <4>1, CoversFewer
      <4> QED
        BY <3>4, <4>2
    <3> QED
      BY <1>1, <1>2, <1>9, <2>2, <3>3, <3>4 DEF kept
  <2>3. CASE a # address
    <3>1. s \in Range(gate)
      BY <1>1, <1>3, <1>9, <2>3
    <3>2. Covers(s.attempts, Guesses(a), Since, gateClock)
      BY <1>9, <3>1 DEF GateInv
    <3>3. s.attempts \in Seq(Nat)
      BY <3>1, TableMembers DEF GateInv, LoginStates
    <3>4. Guesses(a)' \subseteq Guesses(a)
      BY <2>0, <2>3
    <3> QED
      BY <1>4, <2>0, <2>1, <3>2, <3>3, <3>4, CoversFewer
  <2> QED
    BY <2>2, <2>3
<1>10. \A k \in counted : /\ login'[k].address = login[k].address /\ login'[k].since = login[k].since
                          /\ login'[k].at # "idle"
  BY <1>5, <1>6 DEF GateInv
<1>11. \A k \in passed : /\ login'[k].at # "idle"
                         /\ \A s \in Range(gate') : s.key = AddressKey(login'[k].address) => s.used = gateClock
  BY <1>1, <1>3, <1>4, <1>6, <1>8
<1>12. \A old \in Range(gate), kept \in Range(gate') : kept.key = old.key => kept.used >= old.used
  BY <1>1, <1>3 DEF Fades
<1>13. passed \subseteq Logins
  BY <1>8
<1> HIDE DEF passed
<1>14. TableOK(gate')
  BY <1>1, <1>3
<1>15. GateInv'
  BY <1>1, <1>7, <1>9, <1>10, <1>11, <1>12, <1>13, <1>14, RecountKeeps
<1> QED
  BY <1>1, <1>3, <1>15

\* A step that changes the stage of one request only.
LEMMA StageFrame ==
  ASSUME GateInv, NEW l \in Logins, login[l].at # "idle",
         NEW stage \in {"failing", "matched", "welcome", "delayed", "done"},
         login' = [login EXCEPT ![l].at = stage], gateClock' = gateClock
  PROVE  /\ GateTypeOK'
         /\ \A k \in Logins : /\ login'[k].address = login[k].address /\ login'[k].since = login[k].since
                              /\ (login[k].at # "idle" => login'[k].at # "idle")
<1> DEFINE new == [login[l] EXCEPT !.at = stage]
<1>1. /\ login \in [Logins -> LoginRecords] /\ gateClock \in Nat
      /\ login[l].key \in LoginKeys /\ login[l].address \in Addresses
  BY DEF GateInv, GateTypeOK
<1>2. /\ new \in LoginRecords /\ new.at # "idle" /\ new.address = login[l].address /\ new.key = login[l].key
      /\ new.since = login[l].since
  <2>1. login[l] \in LoginRecords
    BY <1>1
  <2> QED
    BY <2>1 DEF LoginRecords
<1>3. login' = [login EXCEPT ![l] = new]
  BY <1>1
<1> HIDE DEF new
<1>4. login' \in [Logins -> LoginRecords] /\ login'[l] = new /\ \A k \in Logins : k # l => login'[k] = login[k]
  BY <1>1, <1>2, <1>3
<1>5. \A k \in Logins : /\ login'[k].address = login[k].address /\ login'[k].since = login[k].since
                        /\ login'[k].key = login[k].key
                        /\ (login[k].at # "idle" => login'[k].at # "idle")
                        /\ (login'[k].at # "idle" => login[k].at # "idle")
  BY <1>2, <1>4
<1>6. GateTypeOK'
  BY <1>1, <1>4, <1>5 DEF GateInv, GateTypeOK
<1> QED
  BY <1>5, <1>6

\* A list that accounted for the guesses of an address still does when some of
\* them are forgotten and nothing is added.
LEMMA FewerGuesses ==
  ASSUME GateInv, counted' \subseteq counted, NEW a \in Addresses, NEW attempts \in Seq(Nat),
         \A k \in Logins : login'[k].address = login[k].address /\ login'[k].since = login[k].since,
         NEW then \in Nat, gateClock <= then,
         Covers(attempts, Guesses(a), Since, gateClock)
  PROVE  Covers(attempts, Guesses(a)', Since', then)
<1>1. counted \subseteq Logins /\ gateClock \in Nat
  BY DEF GateInv, GateTypeOK
<1>2. Guesses(a) \subseteq Logins /\ IsFiniteSet(Guesses(a))
  <2>1. Guesses(a) \subseteq Logins
    BY <1>1 DEF Guesses
  <2> QED
    BY <2>1, LoginAssumption, FS_Subset
<1>3. Guesses(a)' \subseteq Guesses(a)
  BY <1>1 DEF Guesses
<1>4. \A k \in Guesses(a)' : Since'[k] = Since[k]
  BY <1>2, <1>3 DEF Since
<1> QED
  BY <1>1, <1>2, <1>3, <1>4, CoversFewer

\* A failure is counted in the state of its key and changes no list of attempts.
LEMMA FailureKeeps ==
  ASSUME GateInv, NEW l \in Logins, RecordFailure(l)
  PROVE  GateInv' /\ Fades(gate, gate')
<1> DEFINE c == CleanInactive(gate)
<1>1. /\ login[l].at = "failing" /\ gate' = Failure(gate, login[l].key)
      /\ login' = [login EXCEPT ![l].at = "delayed"] /\ Recount({}) /\ gateClock' = gateClock
  BY DEF RecordFailure
<1>2. gateClock \in Nat /\ TableOK(gate) /\ login[l].key \in LoginKeys /\ counted \subseteq Logins
  BY <1>1 DEF GateInv, GateTypeOK
<1>3. /\ TableOK(gate') /\ Fades(gate, gate')
      /\ \A s \in Range(gate') :
           \/ \E o \in Range(c) : o.key = s.key /\ o.attempts = s.attempts
           \/ ~Known(c, s.key) /\ s.attempts = <<>>
  BY <1>1, <1>2, FailureEffect
<1> HIDE DEF c
<1>4. /\ GateTypeOK'
      /\ \A k \in Logins : /\ login'[k].address = login[k].address /\ login'[k].since = login[k].since
                           /\ (login[k].at # "idle" => login'[k].at # "idle")
  BY <1>1, StageFrame
<1>5. counted' \subseteq counted
  BY <1>1 DEF Recount
<1>6. ASSUME NEW a \in Addresses, NEW s \in Range(gate'), s.key = AddressKey(a)
      PROVE  Covers(s.attempts, Guesses(a)', Since', gateClock)
  <2>1. s.attempts \in Seq(Nat)
    BY <1>3, TableMembers DEF LoginStates
  <2>2. Covers(s.attempts, Guesses(a), Since, gateClock)
    BY <1>3, <1>6, <2>1, BaseCovers DEF c
  <2> QED
    BY <1>2, <1>4, <1>5, <2>1, <2>2, FewerGuesses
<1>7. \A old \in Range(gate), kept \in Range(gate') : kept.key = old.key => kept.used >= old.used
  BY <1>3 DEF Fades
<1>8. \A k \in counted : /\ login'[k].address = login[k].address /\ login'[k].since = login[k].since
                         /\ login'[k].at # "idle"
  BY <1>2, <1>4 DEF GateInv
<1>9. GateInv'
  BY <1>1, <1>3, <1>4, <1>6, <1>7, <1>8, RecountKeeps
<1> QED
  BY <1>3, <1>9

\* A success forgets one key, with the guesses that were counted there.
LEMMA SuccessKeeps ==
  ASSUME GateInv, NEW l \in Logins, RecordSuccess(l)
  PROVE  GateInv'
<1> DEFINE c == CleanInactive(gate)
           key == IF login[l].at = "matched" THEN AddressKey(login[l].address) ELSE login[l].key
           stage == IF login[l].at = "matched" THEN "welcome" ELSE "done"
<1>1. /\ login[l].at # "idle" /\ gate' = Without(c, key)
      /\ login' = [login EXCEPT ![l].at = stage] /\ Recount({}) /\ gateClock' = gateClock
  BY DEF RecordSuccess
<1>2. gateClock \in Nat /\ TableOK(gate) /\ counted \subseteq Logins
  BY DEF GateInv, GateTypeOK
<1>3. TableOK(c) /\ Range(c) \subseteq Range(gate)
  BY <1>2, CleanEffect
<1>4. stage \in {"failing", "matched", "welcome", "delayed", "done"}
  OBVIOUS
<1> HIDE DEF c, key, stage
<1>5. TableOK(gate') /\ Range(gate') \subseteq Range(gate)
  BY <1>1, <1>3, WithoutEffect
<1>6. /\ GateTypeOK'
      /\ \A k \in Logins : /\ login'[k].address = login[k].address /\ login'[k].since = login[k].since
                           /\ (login[k].at # "idle" => login'[k].at # "idle")
  BY <1>1, <1>4, StageFrame
<1>7. counted' \subseteq counted
  BY <1>1 DEF Recount
<1>8. ASSUME NEW a \in Addresses, NEW s \in Range(gate'), s.key = AddressKey(a)
      PROVE  Covers(s.attempts, Guesses(a)', Since', gateClock)
  <2>1. s.attempts \in Seq(Nat)
    BY <1>5, TableMembers DEF LoginStates
  <2>2. Covers(s.attempts, Guesses(a), Since, gateClock)
    BY <1>5, <1>8 DEF GateInv
  <2> QED
    BY <1>2, <1>6, <1>7, <2>1, <2>2, FewerGuesses
<1>9. ASSUME NEW old \in Range(gate), NEW kept \in Range(gate'), kept.key = old.key PROVE kept.used >= old.used
  <2>1. kept = old
    BY <1>2, <1>5, <1>9, TableMembers
  <2>2. old.used \in Nat
    BY <1>2, TableMembers DEF LoginStates
  <2> QED
    BY <2>1, <2>2
<1>10. \A k \in counted : /\ login'[k].address = login[k].address /\ login'[k].since = login[k].since
                          /\ login'[k].at # "idle"
  BY <1>2, <1>6 DEF GateInv
<1> QED
  BY <1>1, <1>5, <1>6, <1>8, <1>9, <1>10, RecountKeeps

\* Everything else leaves the table alone; time only lets guesses grow old.
LEMMA TableStands ==
  ASSUME GateInv, UNCHANGED <<gate, counted>>, GateTypeOK', gateClock <= gateClock',
         \A k \in Logins : /\ login'[k].address = login[k].address /\ login'[k].since = login[k].since
                          /\ (login[k].at # "idle" => login'[k].at # "idle")
  PROVE  GateInv'
<1>1. gateClock \in Nat /\ gateClock' \in Nat /\ TableOK(gate) /\ counted \subseteq Logins
  BY DEF GateInv, GateTypeOK
<1>2. TableOK(gate)'
  <2>1. \A i \in 1..Len(gate) : gate[i].used \in Nat /\ gate[i].used <= gateClock
    BY <1>1, TableMembers DEF TableOK, LoginStates
  <2>2. \A i \in 1..Len(gate) : gate[i].used <= gateClock'
    BY <1>1, <2>1
  <2> QED
    BY <1>1, <2>2 DEF TableOK
<1>3. ASSUME NEW a \in Addresses, NEW s \in Range(gate'), s.key = AddressKey(a)
      PROVE  Covers(s.attempts, Guesses(a)', Since', gateClock')
  <2>1. s.attempts \in Seq(Nat)
    BY <1>1, TableMembers DEF LoginStates
  <2>2. Covers(s.attempts, Guesses(a), Since, gateClock)
    BY <1>3 DEF GateInv
  <2> QED
    BY <1>1, <2>1, <2>2, FewerGuesses
<1>4. /\ \A k \in counted' : login'[k].at # "idle" /\ Known(gate', AddressKey(login'[k].address))
      /\ \A k \in counted', s \in Range(gate') : s.key = AddressKey(login'[k].address) => login'[k].since <= s.used
  BY <1>1 DEF GateInv
<1> QED
  BY <1>1, <1>2, <1>3, <1>4 DEF GateInv

\* The steps that leave the table alone.
LEMMA QuietKeeps ==
  ASSUME GateInv, (\E l \in Logins : VerifyCredentials(l) \/ AnswerFailure(l)) \/ GateTick \/ UNCHANGED gateVars
  PROVE  GateInv' /\ gate' = gate
<1>1. ASSUME NEW l \in Logins, VerifyCredentials(l) \/ AnswerFailure(l) PROVE GateInv' /\ gate' = gate
  <2>1. PICK stage \in {"failing", "matched", "welcome", "delayed", "done"} : login' = [login EXCEPT ![l].at = stage]
    BY <1>1 DEF VerifyCredentials, AnswerFailure
  <2>2. login[l].at # "idle" /\ UNCHANGED <<gate, counted, gateClock>>
    BY <1>1 DEF VerifyCredentials, AnswerFailure
  <2>3. /\ GateTypeOK'
        /\ \A k \in Logins : /\ login'[k].address = login[k].address /\ login'[k].since = login[k].since
                             /\ (login[k].at # "idle" => login'[k].at # "idle")
    BY <2>1, <2>2, StageFrame
  <2>4. gateClock <= gateClock'
    BY <2>2 DEF GateInv, GateTypeOK
  <2> QED
    BY <2>2, <2>3, <2>4, TableStands
<1>2. CASE GateTick
  <2>1. UNCHANGED <<gate, login, counted>> /\ gateClock' = gateClock + 1 /\ gateClock \in Nat
    BY <1>2 DEF GateTick, GateInv, GateTypeOK
  <2>2. gateClock <= gateClock' /\ gateClock' \in Nat
    BY <2>1
  <2>3. \A k \in Logins : login[k].since <= gateClock'
    <3>1. \A k \in Logins : login[k].since \in Nat /\ login[k].since <= gateClock
      BY DEF GateInv, GateTypeOK, LoginRecords
    <3> QED
      BY <2>1, <2>2, <3>1
  <2>4. GateTypeOK'
    BY <2>1, <2>2, <2>3 DEF GateInv, GateTypeOK
  <2> QED
    BY <2>1, <2>2, <2>4, TableStands
<1>3. CASE UNCHANGED gateVars
  <2>1. UNCHANGED <<gate, login, counted, gateClock>>
    BY <1>3 DEF gateVars
  <2>2. GateTypeOK' /\ gateClock <= gateClock'
    BY <2>1 DEF GateInv, GateTypeOK
  <2> QED
    BY <2>1, <2>2, TableStands
<1> QED
  BY <1>1, <1>2, <1>3

\* The invariant holds at first and every step keeps it: the table has one
\* state per key in the order of its last use, and the attempts it lists for an
\* address account for the address's guesses (ratelimit.go:53-142, auth.go:38-75).
THEOREM LimiterInductive == LimiterSpec => []GateInv
<1>1. GateInit => GateInv
  <2> SUFFICES ASSUME GateInit PROVE GateInv
    OBVIOUS
  <2>1. gate = <<>> /\ login = [l \in Logins |-> NoLogin] /\ counted = {} /\ gateClock = 0
    BY DEF GateInit
  <2>2. GateTypeOK
    BY <2>1 DEF GateTypeOK, LoginRecords, NoLogin
  <2>3. gate \in Seq(LoginStates) /\ Len(gate) = 0 /\ DOMAIN gate = {}
    BY <2>1, EmptySeq
  <2>4. TableOK(gate) /\ Range(gate) = {}
    BY <2>3 DEF TableOK, Range
  <2> QED
    BY <2>1, <2>2, <2>4 DEF GateInv
<1>2. GateInv /\ [GateNext]_gateVars => GateInv'
  BY LoginKeeps, FailureKeeps, SuccessKeeps, QuietKeeps DEF GateNext
<1> QED
  BY <1>1, <1>2, PTL DEF LimiterSpec

\* While the table remembers an address, no more of its requests than the limit
\* get as far as the password in any window, and what the table forgets without
\* a login is what was used longest ago (ratelimit.go:97-138).
THEOREM LoginsLimited == LimiterSpec => LoginsAreLimited
<1> DEFINE Recent ==
      (\A l \in Logins : login[l].at \notin {"matched", "welcome"} \/ login'[l] = login[l])
        => \A old \in Range(gate) :
             ~Known(gate', old.key) => \A kept \in Range(gate') : kept.used >= old.used
<1>1. GateInv /\ [GateNext]_gateVars => [Recent]_gateVars
  <2> SUFFICES ASSUME GateInv, GateNext, \A l \in Logins : login[l].at \notin {"matched", "welcome"} \/ login'[l] = login[l]
               PROVE  \A old \in Range(gate) :
                        ~Known(gate', old.key) => \A kept \in Range(gate') : kept.used >= old.used
    OBVIOUS
  <2>1. CASE Fades(gate, gate')
    BY <2>1 DEF Fades
  <2>2. CASE gate' = gate
    BY <2>2 DEF Known
  <2>3. ASSUME NEW l \in Logins, RecordSuccess(l) PROVE FALSE
    <3>1. login[l].at \in {"matched", "welcome"} /\ login'[l] = login[l]
      BY <2>3 DEF RecordSuccess
    <3>2. login \in [Logins -> LoginRecords]
      BY DEF GateInv, GateTypeOK
    <3>3. login'[l].at = IF login[l].at = "matched" THEN "welcome" ELSE "done"
      <4>1. login' = [login EXCEPT ![l].at = IF login[l].at = "matched" THEN "welcome" ELSE "done"]
        BY <2>3 DEF RecordSuccess
      <4>2. login[l] \in LoginRecords
        BY <3>2
      <4> QED
        BY <3>2, <4>1, <4>2 DEF LoginRecords
    <3> QED
      BY <3>1, <3>3
  <2> QED
    BY <2>1, <2>2, <2>3, LoginKeeps, FailureKeeps, QuietKeeps DEF GateNext
<1>2. GateInv => GuessesBounded
  BY LimiterInvIsEnough
<1> QED
  BY <1>1, <1>2, LimiterInductive, PTL DEF LimiterSpec, LoginsAreLimited, ForgetsLeastRecent

=============================================================================

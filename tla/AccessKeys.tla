----------------------------- MODULE AccessKeys -----------------------------
(***************************************************************************)
(* One downstream access key (internal/accesskey): its row, the cached     *)
(* identity, the limiter's bucket, the requests that authenticate, take a  *)
(* slot, charge tokens and release, the throttled write-back of the spent  *)
(* budget, the administrator's operations and a restart.  A clock tick is  *)
(* half a minute: the cache keeps an entry for one tick, a rate window and *)
(* a write-back interval last two.  The last-use column and the digest     *)
(* version, which nothing here reads, are left out.                        *)
(***************************************************************************)
EXTENDS Naturals, FiniteSets

CONSTANTS
  Callers,     \* requests that present the key
  Policies,    \* policies an administrator sets
  Usage,       \* tokens a request may use
  SpentBefore, \* tokens that may have been spent before
  Deadline,    \* the last tick of the clock
  MostUpdates, \* administrative operations on the row
  Never,       \* "no expiry"
  None

\* A policy: the limits that are zero do not limit.
AnyPolicy == [rpm : Nat, tpm : Nat, slots : Nat, budget : Nat, expires : Nat \cup {Never}]
Identities == [policy : AnyPolicy, spent : Nat]
Entries == [identity : Identities, until : Nat]
Buckets ==
  [start : Nat, rpm : Nat, tokens : Nat, slots : Nat, spent : Nat, seeded : BOOLEAN]

ASSUME AccessAssumption ==
  /\ IsFiniteSet(Callers) /\ Policies \subseteq AnyPolicy
  /\ Usage \subseteq Nat /\ SpentBefore \subseteq Nat /\ Deadline \in Nat
  /\ None \notin Identities /\ None \notin Entries /\ None \notin Buckets

CacheTTL == 1
Minute == 2

VARIABLES
  row,      \* the row of access_keys
  changed,  \* when the row's policy or life was last changed, and how often
  cached,   \* cache.entries, one entry
  bucket,   \* limiter shard's bucket
  call,     \* per request: where it is, the identity it holds, its clock reading
  writer,   \* per request: the write-back goroutine it started
  pending,  \* pendingConsumed: a write-back is under way
  written,  \* lastConsumed: the tick of the last one
  admin,    \* what is left of the administrator's operation
  clock

accessVars ==
  <<row, changed, cached, bucket, call, writer, pending, written, admin, clock>>

Active == row.life = "active"
Limited(p) == p.rpm > 0 \/ p.tpm > 0 \/ p.slots > 0 \/ p.budget > 0
Expired(identity, at) == identity.policy.expires # Never /\ at >= identity.policy.expires

NoCall == [at |-> "idle", since |-> 0, identity |-> None]
Done == [NoCall EXCEPT !.at = "done"]
NoWriter == [at |-> "none", since |-> 0, value |-> 0]

AccessInit ==
  /\ \E p \in Policies, n \in SpentBefore : row = [life |-> "active", policy |-> p, spent |-> n]
  /\ changed = [at |-> 0, times |-> 0]
  /\ cached = None /\ bucket = None
  /\ call = [c \in Callers |-> NoCall]
  /\ writer = [c \in Callers |-> NoWriter]
  /\ pending = FALSE /\ written = None
  /\ admin = "idle" /\ clock = 0

(***************************************************************************)
(* Authentication.                                                         *)
(***************************************************************************)
Goes(c, at) == call' = [call EXCEPT ![c].at = at]
Leaves(c) == call' = [call EXCEPT ![c] = Done]

Hit == cached # None /\ clock < cached.until

LookupHit(c) ==
  /\ call[c].at = "idle" /\ Hit
  /\ IF Expired(cached.identity, clock)
       THEN cached' = None /\ Leaves(c)
       ELSE /\ call' = [call EXCEPT ![c] = [at |-> "known", since |-> clock,
                                            identity |-> cached.identity]]
            /\ UNCHANGED cached
  /\ UNCHANGED <<row, changed, bucket, writer, pending, written, admin, clock>>

LookupMiss(c) ==
  /\ call[c].at = "idle" /\ ~Hit
  /\ call' = [call EXCEPT ![c] = [NoCall EXCEPT !.at = "missed", !.since = clock]]
  /\ UNCHANGED <<row, changed, cached, bucket, writer, pending, written, admin, clock>>

\* The row is read through the reader connection; a revoked row is no row.
Authenticate(c) ==
  /\ call[c].at = "missed"
  /\ LET identity == [policy |-> row.policy, spent |-> row.spent] IN
     IF Active /\ ~Expired(identity, call[c].since)
       THEN call' = [call EXCEPT ![c].at = "read", ![c].identity = identity]
       ELSE Leaves(c)
  /\ UNCHANGED <<row, changed, cached, bucket, writer, pending, written, admin, clock>>

\* Slip: the life of an entry is counted from its storing.
ExpiryFromNow(c) == clock + CacheTTL

\* The entry's life is counted from the clock reading before the row was read.
ExpiryOfEntry(c) == call[c].since + CacheTTL

Store(c) ==
  /\ call[c].at = "read"
  /\ cached' = [identity |-> call[c].identity, until |-> ExpiryOfEntry(c)]
  /\ Goes(c, "known")
  /\ UNCHANGED <<row, changed, bucket, writer, pending, written, admin, clock>>

\* Another key's store finds the cache full and drops this entry.
Evict ==
  /\ cached # None
  /\ cached' = None
  /\ UNCHANGED <<row, changed, bucket, call, writer, pending, written, admin, clock>>

(***************************************************************************)
(* The limiter.                                                            *)
(***************************************************************************)
FreshBucket ==
  [start |-> clock, rpm |-> 0, tokens |-> 0, slots |-> 0, spent |-> 0, seeded |-> FALSE]

\* bucketLocked: a new bucket, or the old one with its window rotated.
Rotated ==
  CASE bucket = None -> FreshBucket
    [] bucket # None /\ clock - bucket.start >= Minute ->
         [bucket EXCEPT !.start = clock, !.rpm = 0, !.tokens = 0]
    [] OTHER -> bucket

\* Slip: a bucket starts from nothing, as after a restart.
SeedNothing(b, identity) == [b EXCEPT !.seeded = TRUE]

Seed(b, identity) ==
  IF b.seeded THEN b ELSE [b EXCEPT !.spent = identity.spent, !.seeded = TRUE]

Refuses(b, p) ==
  \/ p.slots > 0 /\ b.slots >= p.slots
  \/ p.rpm > 0 /\ b.rpm >= p.rpm
  \/ p.tpm > 0 /\ b.tokens >= p.tpm
  \/ p.budget > 0 /\ b.spent >= p.budget

BeginRequest(c) ==
  LET p == call[c].identity.policy
      b == Seed(Rotated, call[c].identity) IN
  /\ call[c].at = "known"
  /\ IF ~Limited(p)
       THEN Goes(c, "running") /\ UNCHANGED bucket
       ELSE IF Refuses(b, p)
              THEN Leaves(c) /\ bucket' = b
              ELSE /\ Goes(c, "running")
                   /\ bucket' = [b EXCEPT !.rpm = b.rpm + 1, !.slots = b.slots + 1]
  /\ UNCHANGED <<row, changed, cached, writer, pending, written, admin, clock>>

ChargeUsage(c, n) ==
  LET p == call[c].identity.policy
      b == Rotated IN
  /\ call[c].at = "running"
  /\ bucket' = [b EXCEPT !.tokens = IF p.tpm > 0 THEN b.tokens + n ELSE b.tokens,
                         !.spent = b.spent + n]
  /\ Goes(c, IF p.budget > 0 THEN "charged" ELSE "served")
  /\ UNCHANGED <<row, changed, cached, writer, pending, written, admin, clock>>

\* persistConsumed: at most one write under way, and one a minute.
Throttled == pending \/ (written # None /\ clock - written < Minute)

PersistConsumed(c) ==
  /\ call[c].at = "charged"
  /\ \/ Throttled /\ UNCHANGED <<writer, pending>>
     \/ /\ ~Throttled
        /\ writer[c].at = "none"
        /\ pending' = TRUE
        /\ writer' = [writer EXCEPT ![c] = [NoWriter EXCEPT !.at = "started", !.since = clock]]
  /\ Goes(c, "served")
  /\ UNCHANGED <<row, changed, cached, bucket, written, admin, clock>>

\* release: a request gives a slot back whether or not it took one.
Released(b) == IF b # None /\ b.slots > 0 THEN [b EXCEPT !.slots = b.slots - 1] ELSE b

\* A handler may end without usage.
EndRequest(c) ==
  /\ call[c].at \in {"running", "served"}
  /\ bucket' = Released(bucket)
  /\ Leaves(c)
  /\ UNCHANGED <<row, changed, cached, writer, pending, written, admin, clock>>

(***************************************************************************)
(* The write-back goroutines.                                              *)
(***************************************************************************)
WriterReads(c) ==
  /\ writer[c].at = "started"
  /\ writer' = [writer EXCEPT ![c].at = "writing",
                              ![c].value = IF bucket = None THEN 0 ELSE bucket.spent]
  /\ UNCHANGED <<row, changed, cached, bucket, call, pending, written, admin, clock>>

\* The update finds no row when the key was revoked; that is no error.
WriterWrites(c) ==
  /\ writer[c].at = "writing"
  /\ \/ /\ writer' = [writer EXCEPT ![c].at = "written"]
        /\ row' = IF Active THEN [row EXCEPT !.spent = writer[c].value] ELSE row
     \/ writer' = [writer EXCEPT ![c].at = "failed"] /\ UNCHANGED row
  /\ UNCHANGED <<changed, cached, bucket, call, pending, written, admin, clock>>

WriterEnds(c) ==
  /\ writer[c].at \in {"written", "failed"}
  /\ pending' = FALSE
  /\ written' = IF writer[c].at = "written" THEN writer[c].since ELSE written
  /\ writer' = [writer EXCEPT ![c] = NoWriter]
  /\ UNCHANGED <<row, changed, cached, bucket, call, admin, clock>>

(***************************************************************************)
(* The administrator.                                                      *)
(***************************************************************************)
\* A changed row is remembered with its time; a call that finds nothing to change
\* is counted too.
Alters(new) ==
  /\ changed.times < MostUpdates
  /\ row' = new
  /\ changed' = [at |-> IF new = row THEN changed.at ELSE clock, times |-> changed.times + 1]

\* A request that names no budget keeps the old one.
WithPolicy(p, keepBudget) ==
  [row EXCEPT !.policy = IF keepBudget THEN [p EXCEPT !.budget = row.policy.budget] ELSE p]

UpdatePolicy(p, keepBudget) ==
  /\ admin = "idle" /\ Active
  /\ p.expires # Never => p.expires > clock
  /\ Alters(WithPolicy(p, keepBudget))
  /\ admin' = "policy"
  /\ UNCHANGED <<cached, bucket, call, writer, pending, written, clock>>

\* Revoking what is revoked or deleted already is no error.
Revoke ==
  /\ admin = "idle"
  /\ Alters(IF Active THEN [row EXCEPT !.life = "revoked"] ELSE row)
  /\ admin' = "revoke"
  /\ UNCHANGED <<cached, bucket, call, writer, pending, written, clock>>

Delete ==
  /\ admin = "idle" /\ row.life # "deleted"
  /\ Alters([row EXCEPT !.life = "deleted"])
  /\ admin' = "revoke"
  /\ UNCHANGED <<cached, bucket, call, writer, pending, written, clock>>

Invalidate ==
  /\ admin \in {"policy", "revoke"}
  /\ cached' = None
  /\ admin' = IF admin = "policy" THEN "idle" ELSE "forget"
  /\ UNCHANGED <<row, changed, bucket, call, writer, pending, written, clock>>

ForgetWrites ==
  /\ admin = "forget"
  /\ pending' = FALSE /\ written' = None
  /\ admin' = "remove"
  /\ UNCHANGED <<row, changed, cached, bucket, call, writer, clock>>

RemoveBucket ==
  /\ admin = "remove"
  /\ bucket' = None
  /\ admin' = "idle"
  /\ UNCHANGED <<row, changed, cached, call, writer, pending, written, clock>>

(***************************************************************************)
(* A restart keeps the row.                                                *)
(***************************************************************************)
RestartProcess ==
  /\ changed.times < MostUpdates
  /\ changed' = [changed EXCEPT !.times = changed.times + 1]
  /\ cached' = None /\ bucket' = None
  /\ call' = [c \in Callers |-> IF call[c] = NoCall THEN NoCall ELSE Done]
  /\ writer' = [c \in Callers |-> NoWriter]
  /\ pending' = FALSE /\ written' = None
  /\ admin' = "idle"
  /\ UNCHANGED <<row, clock>>

HalfMinute ==
  /\ clock < Deadline
  /\ clock' = clock + 1
  /\ UNCHANGED <<row, changed, cached, bucket, call, writer, pending, written, admin>>

AccessRequest(c) ==
  \/ LookupHit(c) \/ LookupMiss(c) \/ Authenticate(c) \/ Store(c)
  \/ BeginRequest(c) \/ (\E n \in Usage : ChargeUsage(c, n))
  \/ PersistConsumed(c) \/ EndRequest(c)

AccessWriter(c) == WriterReads(c) \/ WriterWrites(c) \/ WriterEnds(c)

AccessAdmin ==
  \/ \E p \in Policies, keep \in BOOLEAN : UpdatePolicy(p, keep)
  \/ Revoke \/ Delete \/ Invalidate \/ ForgetWrites \/ RemoveBucket

AccessNext ==
  \/ \E c \in Callers : AccessRequest(c) \/ AccessWriter(c)
  \/ AccessAdmin \/ Evict \/ RestartProcess \/ HalfMinute

AccessSpec == AccessInit /\ [][AccessNext]_accessVars

(***************************************************************************)
(* Properties.                                                             *)
(***************************************************************************)
Serving == {c \in Callers : call[c].at \in {"running", "charged", "served"}}
Counting == {c \in Serving : Limited(call[c].identity.policy)}

\* The bucket never holds more slots than there are requests that took one,
\* through policy changes, revocation under traffic and window rotation: a key
\* cannot lock itself out (limiter.go:87-134).
NoSlotLeaked == bucket # None => bucket.slots <= Cardinality(Counting)

\* An entry that disagrees with its row - another policy, or a revoked key - is
\* served for at most the cache's TTL after the row changed, although a slow
\* authentication may store it after the invalidation (service.go:105-127).
StaleAtMostTTL ==
  (/\ cached # None
   /\ ~Active \/ cached.identity.policy # row.policy)
  => cached.until <= changed.at + CacheTTL

\* The spent budget in the table never shrinks: neither a restart, nor a bucket
\* that an unlimited request started, nor a late goroutine refunds it
\* (limiter.go:67-72, service.go:182-207).
SpendNeverRefunded == [][row'.spent >= row.spent]_accessVars

\* The policy that the table holds is the one in force: no request slot outlives
\* its request, and a stale entry of the cache its TTL.
PolicyHolds == NoSlotLeaked /\ StaleAtMostTTL
=============================================================================

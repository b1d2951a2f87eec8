------------------------------ MODULE KeySync ------------------------------
(***************************************************************************)
(* The two copies of a key's scheduling state: its row in nvidia_keys and  *)
(* the snapshot the pool schedules from.  Requests, administrators and the *)
(* health checker each commit to the row first and then apply what they    *)
(* committed to memory, with nothing that orders the second halves.        *)
(* SQLite has one writer connection, so every transaction is one step, and *)
(* so is every critical section of the pool.                               *)
(***************************************************************************)
EXTENDS Integers, FiniteSets

CONSTANTS
  RowIds,      \* row ids; AUTOINCREMENT never hands one out twice
  Clients,     \* requests that lease keys
  Admins,      \* administrators at work at the same time
  Operations,  \* what the administrators do
  Probers,     \* workers of one health check sweep
  Cooldowns,   \* cooldowns a failure may earn, in ticks
  SyncHorizon, \* bound on the clock
  Restarts,    \* bound on the number of restarts
  Gone         \* no row, no key

AllOperations == {"test", "enable", "delete", "unblock"}

ASSUME OperationsAssumption == Operations \subseteq AllOperations
ASSUME BoundsAssumption == /\ Cooldowns \subseteq Nat /\ Cooldowns # {}
                           /\ \E c \in Cooldowns : \A other \in Cooldowns : other <= c
                           /\ SyncHorizon \in Nat \ {0}
                           /\ Restarts \in Nat
ASSUME CastAssumption ==
  /\ Clients \cap Admins = {} /\ Clients \cap Probers = {} /\ Admins \cap Probers = {}

VARIABLES
  db,       \* the rows of nvidia_keys, with the block on the one model
  mem,      \* the pool's snapshots, with the same block
  created,  \* ids AUTOINCREMENT has handed out
  op,       \* what each worker is doing
  sweep,    \* candidates left in the work channel of the health checker
  instant,
  restarts

syncVars == <<db, mem, created, op, sweep, instant, restarts>>

Workers == Clients \cup Admins \cup Probers

Longest == CHOOSE c \in Cooldowns : \A other \in Cooldowns : other <= c

\* until = 0 is a NULL cooldown_until; failing says that the level or the
\* failure count is not zero.
Rows == [enabled : BOOLEAN, invalid : BOOLEAN, until : 0..(SyncHorizon + Longest),
         failing : BOOLEAN, blocked : BOOLEAN]

ASSUME GoneAssumption == Gone \notin Rows /\ Gone \notin RowIds

FreshRow == [enabled |-> TRUE, invalid |-> FALSE, until |-> 0, failing |-> FALSE,
             blocked |-> FALSE]

\* What a worker is at, on which key, and the snapshot its transaction read
\* back; blocks says that the fault it recorded blocks the model.
Steps == {"idle", "leased", "calling", "testing", "verifying", "taken", "probing",
          "applySuccess", "applyFailure", "upsertKey", "setKeyEnabled",
          "removeKey", "setModelBlock"}

Idle == [step |-> "idle", key |-> Gone, snap |-> Gone, blocks |-> FALSE]
At(step, k) == [Idle EXCEPT !.step = step, !.key = k]
AtWith(step, k, snap) == [At(step, k) EXCEPT !.snap = snap]

Become(w, next) == op' = [op EXCEPT ![w] = next]

\* A lease is given for a key that is enabled, valid, past its cooldown and not
\* blocked for the model; slots are KeyPool's subject.
Cooling(row) == row.until > instant
Eligible(row) ==
  /\ row # Gone
  /\ row.enabled /\ ~row.invalid /\ ~Cooling(row) /\ ~row.blocked

SyncInit ==
  /\ db = [k \in RowIds |-> Gone]
  /\ mem = [k \in RowIds |-> Gone]
  /\ created = {}
  /\ op = [w \in Workers |-> Idle]
  /\ sweep = {}
  /\ instant = 1
  /\ restarts = 0

(***************************************************************************)
(* The transactions of the key repository.                                 *)
(***************************************************************************)
\* markSuccess clears everything a failure recorded and leaves model blocks.
Succeeded(row) == [FreshRow EXCEPT !.enabled = row.enabled, !.blocked = row.blocked]

\* What a classified fault does to the row: a credential fault invalidates the
\* key, a cooldown counts a failure, a model fault blocks the model, and the
\* rest leave the scheduling columns alone.
Effects == [kind : {"revoke", "block", "ignore"}, wait : {0}]
             \cup [kind : {"cool"}, wait : Cooldowns]

Failed(row, effect) ==
  CASE effect.kind = "revoke" -> [row EXCEPT !.invalid = TRUE]
    [] effect.kind = "cool" ->
         [row EXCEPT !.until = instant + effect.wait, !.failing = TRUE]
    [] effect.kind = "block" -> [row EXCEPT !.blocked = TRUE]
    [] effect.kind = "ignore" -> row

\* A transaction that finds no row is an error, and its caller applies nothing.
RowMissing(w, from) ==
  /\ op[w].step = from
  /\ db[op[w].key] = Gone
  /\ Become(w, Idle)
  /\ UNCHANGED <<db, mem, created, sweep, instant, restarts>>

\* The call ended without a verdict on the key: a proxy error, a cancelled
\* context, a probe that did not pass, a failed model test.
NoVerdict(w, from) ==
  /\ op[w].step = from
  /\ Become(w, Idle)
  /\ UNCHANGED <<db, mem, created, sweep, instant, restarts>>

MarkKeySuccess(w, from, then) ==
  LET k == op[w].key IN
  /\ op[w].step = from
  /\ db[k] # Gone
  /\ db' = [db EXCEPT ![k] = Succeeded(db[k])]
  /\ Become(w, AtWith(then, k, Succeeded(db[k])))
  /\ UNCHANGED <<mem, created, sweep, instant, restarts>>

MarkKeyFailure(w, effect, from, then) ==
  LET k == op[w].key IN
  /\ op[w].step = from
  /\ db[k] # Gone
  /\ db' = [db EXCEPT ![k] = Failed(db[k], effect)]
  /\ Become(w, [AtWith(then, k, Failed(db[k], effect))
                  EXCEPT !.blocks = effect.kind = "block"])
  /\ UNCHANGED <<mem, created, sweep, instant, restarts>>

(***************************************************************************)
(* The pool's half, one critical section each.                             *)
(***************************************************************************)
Apply(w, step, snapshots) ==
  /\ op[w].step = step
  /\ mem' = snapshots
  /\ Become(w, Idle)
  /\ UNCHANGED <<db, created, sweep, instant, restarts>>

\* Changes the key's snapshot when the pool has the key.
Merged(k, snapshot) == IF mem[k] = Gone THEN mem ELSE [mem EXCEPT ![k] = snapshot]

ApplySuccess(w) ==
  LET k == op[w].key
  IN  Apply(w, "applySuccess", Merged(k, Succeeded(mem[k])))

\* Slip: the snapshot the transaction read is taken over whole.
ApplyFailureWhole(w) ==
  Apply(w, "applyFailure", Merged(op[w].key, op[w].snap))

\* Only the columns the failure path owns are taken over.
ApplyFailure(w) ==
  LET k == op[w].key
      snap == op[w].snap
  IN  Apply(w, "applyFailure",
            Merged(k, [mem[k] EXCEPT !.invalid = snap.invalid, !.until = snap.until,
                                     !.failing = snap.failing,
                                     !.blocked = mem[k].blocked \/ op[w].blocks]))

\* The whole snapshot replaces the key's, or the key is inserted; the block is
\* not part of a snapshot.
UpsertKey(w) ==
  LET k == op[w].key
      blocked == mem[k] # Gone /\ mem[k].blocked
  IN  Apply(w, "upsertKey",
            [mem EXCEPT ![k] = [op[w].snap EXCEPT !.blocked = blocked]])

SetKeyEnabled(w) ==
  LET k == op[w].key
  IN  Apply(w, "setKeyEnabled",
            Merged(k, [mem[k] EXCEPT !.enabled = op[w].snap.enabled]))

RemoveKey(w) == Apply(w, "removeKey", [mem EXCEPT ![op[w].key] = Gone])

SetModelBlock(w) ==
  LET k == op[w].key
  IN  Apply(w, "setModelBlock", Merged(k, [mem[k] EXCEPT !.blocked = FALSE]))

(***************************************************************************)
(* Requests.                                                               *)
(***************************************************************************)
Lease(r, k) ==
  /\ op[r].step = "idle"
  /\ Eligible(mem[k])
  /\ Become(r, At("leased", k))
  /\ UNCHANGED <<db, mem, created, sweep, instant, restarts>>

\* WithSecret reads the row before anything is sent upstream.
WithSecret(w, from, then) ==
  /\ op[w].step = from
  /\ db[op[w].key] # Gone
  /\ Become(w, At(then, op[w].key))
  /\ UNCHANGED <<db, mem, created, sweep, instant, restarts>>

RequestStep(r) ==
  \/ \E k \in RowIds : Lease(r, k)
  \/ WithSecret(r, "leased", "calling")
  \/ RowMissing(r, "leased")
  \/ MarkKeySuccess(r, "calling", "applySuccess")
  \/ \E effect \in Effects : MarkKeyFailure(r, effect, "calling", "applyFailure")
  \/ RowMissing(r, "calling")
  \/ NoVerdict(r, "calling")
  \/ ApplySuccess(r)
  \/ ApplyFailure(r)

(***************************************************************************)
(* Administrators.                                                         *)
(***************************************************************************)
Import(a, k) ==
  /\ op[a].step = "idle"
  /\ k \notin created
  /\ created' = created \cup {k}
  /\ db' = [db EXCEPT ![k] = FreshRow]
  /\ Become(a, AtWith("upsertKey", k, FreshRow))
  /\ UNCHANGED <<mem, sweep, instant, restarts>>

\* A credential test and a model test read the secret first.
BeginOperation(a, k, step) ==
  /\ op[a].step = "idle"
  /\ db[k] # Gone
  /\ Become(a, At(step, k))
  /\ UNCHANGED <<db, mem, created, sweep, instant, restarts>>

\* The models endpoint never blames a model.
TestEffects == {effect \in Effects : effect.kind # "block"}

SetEnabled(a, k, enabled) ==
  /\ op[a].step = "idle"
  /\ db[k] # Gone
  /\ db' = [db EXCEPT ![k].enabled = enabled]
  /\ Become(a, AtWith("setKeyEnabled", k, [db[k] EXCEPT !.enabled = enabled]))
  /\ UNCHANGED <<mem, created, sweep, instant, restarts>>

Delete(a, k) ==
  /\ op[a].step = "idle"
  /\ db[k] # Gone
  /\ db' = [db EXCEPT ![k] = Gone]
  /\ Become(a, At("removeKey", k))
  /\ UNCHANGED <<mem, created, sweep, instant, restarts>>

\* The model test passed: the block is deleted, whether or not there is one.
VerifyAndUnblock(a) ==
  LET k == op[a].key IN
  /\ op[a].step = "verifying"
  /\ db' = IF db[k] = Gone THEN db ELSE [db EXCEPT ![k].blocked = FALSE]
  /\ Become(a, At("setModelBlock", k))
  /\ UNCHANGED <<mem, created, sweep, instant, restarts>>

ImportStep(a) == \E k \in RowIds : Import(a, k)

TestStep(a) ==
  \/ \E k \in RowIds : BeginOperation(a, k, "testing")
  \/ MarkKeySuccess(a, "testing", "upsertKey")
  \/ \E effect \in TestEffects : MarkKeyFailure(a, effect, "testing", "upsertKey")
  \/ RowMissing(a, "testing")
  \/ NoVerdict(a, "testing")

EnableStep(a) ==
  \/ \E k \in RowIds, enabled \in BOOLEAN : SetEnabled(a, k, enabled)
  \/ SetKeyEnabled(a)

DeleteStep(a) ==
  \/ \E k \in RowIds : Delete(a, k)
  \/ RemoveKey(a)

UnblockStep(a) ==
  \/ \E k \in RowIds : BeginOperation(a, k, "verifying")
  \/ VerifyAndUnblock(a)
  \/ NoVerdict(a, "verifying")
  \/ SetModelBlock(a)

AdminStep(a) ==
  \/ ImportStep(a)
  \/ UpsertKey(a)
  \/ "test" \in Operations /\ TestStep(a)
  \/ "enable" \in Operations /\ EnableStep(a)
  \/ "delete" \in Operations /\ DeleteStep(a)
  \/ "unblock" \in Operations /\ UnblockStep(a)

(***************************************************************************)
(* The health checker: one sweep at a time, its workers share a channel of *)
(* the keys that had a failure history when the sweep listed them.         *)
(***************************************************************************)
ListKeysForHealthCheck ==
  {k \in RowIds : /\ db[k] # Gone
                  /\ db[k].enabled /\ ~db[k].invalid
                  /\ db[k].until > 0 \/ db[k].failing}

Sweep ==
  /\ sweep = {}
  /\ \A p \in Probers : op[p].step = "idle"
  /\ Probers # {}
  /\ ListKeysForHealthCheck # {}
  /\ sweep' = ListKeysForHealthCheck
  /\ UNCHANGED <<db, mem, created, op, instant, restarts>>

TakeCandidate(p) ==
  /\ op[p].step = "idle"
  /\ \E k \in sweep :
       /\ \A other \in sweep : k <= other
       /\ Become(p, At("taken", k))
       /\ sweep' = sweep \ {k}
  /\ UNCHANGED <<db, mem, created, instant, restarts>>

ProbeStep(p) ==
  \/ TakeCandidate(p)
  \/ WithSecret(p, "taken", "probing")
  \/ RowMissing(p, "taken")
  \/ MarkKeySuccess(p, "probing", "applySuccess")
  \/ RowMissing(p, "probing")
  \/ NoVerdict(p, "probing")
  \/ ApplySuccess(p)

(***************************************************************************)
(* A restart loses the workers and loads every row; the clock runs.        *)
(***************************************************************************)
LoadSnapshot ==
  /\ restarts < Restarts
  /\ restarts' = restarts + 1
  /\ mem' = db
  /\ op' = [w \in Workers |-> Idle]
  /\ sweep' = {}
  /\ UNCHANGED <<db, created, instant>>

SyncTick ==
  /\ instant < SyncHorizon
  /\ instant' = instant + 1
  /\ UNCHANGED <<db, mem, created, op, sweep, restarts>>

SyncNext ==
  \/ \E r \in Clients : RequestStep(r)
  \/ \E a \in Admins : AdminStep(a)
  \/ Sweep
  \/ \E p \in Probers : ProbeStep(p)
  \/ LoadSnapshot
  \/ SyncTick

(***************************************************************************)
(* Properties                                                              *)
(***************************************************************************)
SyncTypeOK ==
  /\ db \in [RowIds -> Rows \cup {Gone}]
  /\ mem \in [RowIds -> Rows \cup {Gone}]
  /\ created \subseteq RowIds
  /\ op \in [Workers -> [step : Steps, key : RowIds \cup {Gone},
                         snap : Rows \cup {Gone}, blocks : BOOLEAN]]
  /\ sweep \subseteq RowIds
  /\ instant \in 1..SyncHorizon
  /\ restarts \in 0..Restarts

Owes(k, steps) == \E w \in Workers : op[w].key = k /\ op[w].step \in steps

\* With one administrator at work, whatever requests and health checks commit
\* and apply late, the pool has a key the table does not have only while that
\* administrator is about to remove it, and lacks one only while it is about to
\* be inserted (ApplySuccess, ApplyFailure: unknown keys stay unknown).
SameKeys ==
  \A k \in RowIds :
    /\ mem[k] # Gone /\ db[k] = Gone => Owes(k, {"removeKey"})
    /\ mem[k] = Gone /\ db[k] # Gone => Owes(k, {"upsertKey"})

\* With one administrator, a late result of a request or a probe never rolls the
\* administrator's switch back in memory (ApplyFailure, pool.go:270-272).
SwitchKept ==
  \A k \in RowIds :
    mem[k] # Gone /\ db[k] # Gone /\ mem[k].enabled # db[k].enabled
      => Owes(k, {"setKeyEnabled", "upsertKey"})

\* A cooldown in the table is in memory too, or about to be.
CooldownKept ==
  \A k \in RowIds :
    mem[k] # Gone /\ db[k] # Gone /\ Cooling(db[k]) /\ ~Cooling(mem[k])
      => Owes(k, {"applyFailure"})
=============================================================================

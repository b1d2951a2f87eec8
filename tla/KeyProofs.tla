----------------------------- MODULE KeyProofs -----------------------------
(***************************************************************************)
(* How keys fare, for every instance.  First the two copies of a key's     *)
(* scheduling state, for every set of keys, requests, probers and          *)
(* cooldowns: with one administrator at work the pool has the keys and the *)
(* switches of the table, and with one request at a time and nobody who    *)
(* tests a key its cooldowns too.  Then the history of one key, for every  *)
(* response of the upstream and every moment of a second: its cooldowns    *)
(* climb and its blame is just.  Last the operator's failover list, of any *)
(* length: it fails over the codes it names.                               *)
(***************************************************************************)
EXTENDS MCKeys, TLAPS, WellFoundedInduction, SequenceTheorems

SyncSpec == SyncInit /\ [][SyncNext]_syncVars

OneAdministrator == \A a, b \in Admins : a = b
OneClient == \A c, d \in Clients : c = d

(***************************************************************************)
(* The inductive invariant.                                                *)
(***************************************************************************)
OwingSteps == {"upsertKey", "setKeyEnabled", "removeKey"}
AdminSteps == {"testing", "verifying", "upsertKey", "setKeyEnabled", "removeKey", "setModelBlock"}

\* A worker that is about to apply something holds what the table says of the switch,
\* and only administrators change switches or keys.
WorkerOK(w) ==
  /\ op[w].step # "idle" => op[w].key \in created
  /\ op[w].step \in AdminSteps => w \in Admins
  /\ op[w].step \in {"applyFailure", "upsertKey", "setKeyEnabled"} => op[w].snap \in Rows
  /\ op[w].step \in {"testing", "upsertKey", "setKeyEnabled"} => db[op[w].key] # Gone
  /\ op[w].step \in {"upsertKey", "setKeyEnabled"} => op[w].snap.enabled = db[op[w].key].enabled
  /\ op[w].step = "removeKey" => db[op[w].key] = Gone

\* SameKeys and SwitchKept, of one key.
KeyOK(k) ==
  /\ db[k] # Gone \/ mem[k] # Gone => k \in created
  /\ mem[k] # Gone /\ db[k] = Gone => Owes(k, {"removeKey"})
  /\ mem[k] = Gone /\ db[k] # Gone => Owes(k, {"upsertKey"})
  /\ mem[k] # Gone /\ db[k] # Gone /\ mem[k].enabled # db[k].enabled => Owes(k, {"setKeyEnabled", "upsertKey"})

SyncInv ==
  /\ SyncTypeOK /\ sweep \subseteq created
  /\ \A w \in Workers : WorkerOK(w)
  /\ \A k \in RowIds : KeyOK(k)

(***************************************************************************)
(* What the transactions and the pool make of a row.                       *)
(***************************************************************************)
\* A fresh row is enabled and rested.
LEMMA FreshIsRow == FreshRow \in Rows /\ FreshRow.enabled = TRUE /\ FreshRow.until = 0
<1>1. SyncHorizon + Longest \in Nat
  <2>1. \E c \in Cooldowns : \A other \in Cooldowns : other <= c
    BY BoundsAssumption
  <2>2. Longest \in Cooldowns
    BY <2>1, Zenon DEF Longest
  <2> QED
    BY <2>2, BoundsAssumption
<1> QED
  BY <1>1 DEF FreshRow, Rows

\* markSuccess leaves the administrator's switch.
LEMMA SucceededIsRow ==
  ASSUME NEW r \in Rows
  PROVE  Succeeded(r) \in Rows /\ Succeeded(r).enabled = r.enabled /\ Succeeded(r).until = 0
<1>1. r.enabled \in BOOLEAN /\ r.blocked \in BOOLEAN
  BY DEF Rows
<1> DEFINE fresh == FreshRow
<1>2. fresh \in Rows /\ fresh.until = 0
  BY FreshIsRow
<1>3. Succeeded(r) = [fresh EXCEPT !.enabled = r.enabled, !.blocked = r.blocked]
  BY DEF Succeeded
<1> HIDE DEF fresh
<1>4. Succeeded(r) \in Rows
  BY <1>1, <1>2, <1>3 DEF Rows
<1>5. Succeeded(r).enabled = r.enabled
  BY <1>2, <1>3 DEF Rows
<1>6. Succeeded(r).until = 0
  BY <1>2, <1>3 DEF Rows
<1> QED
  BY <1>4, <1>5, <1>6

\* markFailure neither, and its cooldown is one of those a failure may earn.
LEMMA FailedIsRow ==
  ASSUME NEW r \in Rows, NEW effect \in Effects, instant \in 1..SyncHorizon
  PROVE  Failed(r, effect) \in Rows /\ Failed(r, effect).enabled = r.enabled
<1>1. /\ effect.kind \in {"revoke", "block", "ignore", "cool"}
      /\ effect.kind = "cool" => effect.wait \in Cooldowns
  BY DEF Effects
<1>2. r = [enabled |-> r.enabled, invalid |-> r.invalid, until |-> r.until, failing |-> r.failing, blocked |-> r.blocked]
  BY DEF Rows
<1>3. CASE effect.kind = "cool"
  <2>1. \E c \in Cooldowns : \A other \in Cooldowns : other <= c
    BY BoundsAssumption
  <2>2. Longest \in Cooldowns /\ \A other \in Cooldowns : other <= Longest
    BY <2>1, Zenon DEF Longest
  <2>3. effect.wait \in Nat /\ Longest \in Nat /\ effect.wait <= Longest /\ SyncHorizon \in Nat
    BY <1>1, <1>3, <2>2, BoundsAssumption
  <2>4. instant + effect.wait \in 0..(SyncHorizon + Longest)
    BY <2>3
  <2>5. Failed(r, effect) = [r EXCEPT !.until = instant + effect.wait, !.failing = TRUE]
    BY <1>3 DEF Failed
  <2> QED
    BY <2>4, <2>5 DEF Rows
<1>4. CASE effect.kind = "revoke"
  <2>1. Failed(r, effect) = [r EXCEPT !.invalid = TRUE]
    BY <1>4 DEF Failed
  <2> QED
    BY <2>1 DEF Rows
<1>5. CASE effect.kind = "block"
  <2>1. Failed(r, effect) = [r EXCEPT !.blocked = TRUE]
    BY <1>5 DEF Failed
  <2> QED
    BY <2>1 DEF Rows
<1>6. CASE effect.kind = "ignore"
  <2>1. Failed(r, effect) = r
    BY <1>6 DEF Failed
  <2> QED
    BY <2>1
<1> QED
  BY <1>1, <1>3, <1>4, <1>5, <1>6

(***************************************************************************)
(* Frames.                                                                 *)
(***************************************************************************)
Ops == [step : Steps, key : RowIds \cup {Gone}, snap : Rows \cup {Gone}, blocks : BOOLEAN]

\* A worker without work.
LEMMA IdleIsOp == Idle \in Ops /\ Idle.step = "idle" /\ Idle.key = Gone
BY DEF Idle, Ops, Steps

\* A worker at a step, on a key.
LEMMA AtIsOp ==
  ASSUME NEW step \in Steps, NEW k \in RowIds
  PROVE  At(step, k) \in Ops /\ At(step, k).step = step /\ At(step, k).key = k
BY DEF At, Idle, Ops

\* A worker that has read a snapshot back.
LEMMA AtWithIsOp ==
  ASSUME NEW step \in Steps, NEW k \in RowIds, NEW snap \in Rows
  PROVE  /\ AtWith(step, k, snap) \in Ops /\ AtWith(step, k, snap).step = step
         /\ AtWith(step, k, snap).key = k /\ AtWith(step, k, snap).snap = snap
BY DEF AtWith, At, Idle, Ops

\* A worker that does nothing keeps what it relies on, unless an administrator changes
\* the row it works on.
LEMMA WorkerFrame ==
  ASSUME SyncInv, NEW v \in Workers, op'[v] = op[v], created \subseteq created',
         op[v].step \in AdminSteps =>
           /\ db'[op[v].key] = Gone <=> db[op[v].key] = Gone
           /\ db[op[v].key] # Gone => db'[op[v].key].enabled = db[op[v].key].enabled
  PROVE  WorkerOK(v)'
BY DEF SyncInv, WorkerOK, AdminSteps

\* A key whose switch stays and whose debts are not paid keeps its part.
LEMMA KeyFrame ==
  ASSUME SyncInv, NEW k \in RowIds, created \subseteq created',
         mem'[k] = Gone <=> mem[k] = Gone, db'[k] = Gone <=> db[k] = Gone,
         db[k] # Gone => db'[k].enabled = db[k].enabled,
         mem[k] # Gone => mem'[k].enabled = mem[k].enabled,
         \A v \in Workers : op[v].step \in OwingSteps => op'[v] = op[v]
  PROVE  KeyOK(k)'
<1>1. ASSUME NEW S \in SUBSET OwingSteps, Owes(k, S) PROVE Owes(k, S)'
  BY <1>1 DEF Owes
<1>2. KeyOK(k)
  BY DEF SyncInv
<1>3. {"removeKey"} \in SUBSET OwingSteps /\ {"upsertKey"} \in SUBSET OwingSteps
      /\ {"setKeyEnabled", "upsertKey"} \in SUBSET OwingSteps
  BY DEF OwingSteps
<1> HIDE DEF SyncInv
<1> QED
  BY <1>1, <1>2, <1>3 DEF KeyOK

\* A key on which table and pool agree owes nobody anything.
LEMMA AgreeingKey ==
  ASSUME NEW k \in RowIds, mem'[k] = Gone <=> db'[k] = Gone, db'[k] # Gone => k \in created',
         db'[k] # Gone => mem'[k].enabled = db'[k].enabled
  PROVE  KeyOK(k)'
BY DEF KeyOK

\* Most steps change neither a switch nor which keys there are.
SwitchesSame ==
  \A k \in RowIds :
    /\ mem'[k] = Gone <=> mem[k] = Gone
    /\ db'[k] = Gone <=> db[k] = Gone
    /\ db[k] # Gone => db'[k].enabled = db[k].enabled
    /\ mem[k] # Gone => mem'[k].enabled = mem[k].enabled

\* A step of one worker that leaves keys and switches alone keeps the invariant.
LEMMA HarmlessStep ==
  ASSUME SyncInv, SyncTypeOK', created' = created, sweep' \subseteq created', SwitchesSame,
         NEW w \in Workers, \A v \in Workers \ {w} : op'[v] = op[v],
         op[w].step \notin OwingSteps, WorkerOK(w)'
  PROVE  SyncInv'
<1>1. ASSUME NEW v \in Workers PROVE WorkerOK(v)'
  <2>1. CASE v = w
    BY <2>1
  <2>2. CASE v # w
    <3>1. op[v].step \in AdminSteps => op[v].key \in RowIds
      BY DEF SyncInv, WorkerOK, SyncTypeOK, AdminSteps
    <3>2. op'[v] = op[v]
      BY <2>2
    <3> QED
      BY <3>1, <3>2, WorkerFrame DEF SwitchesSame
  <2> QED
    BY <2>1, <2>2
<1>2. \A v \in Workers : op[v].step \in OwingSteps => op'[v] = op[v]
  OBVIOUS
<1>3. ASSUME NEW k \in RowIds PROVE KeyOK(k)'
  BY <1>2, KeyFrame DEF SwitchesSame
<1> QED
  BY <1>1, <1>3 DEF SyncInv

(***************************************************************************)
(* Requests and probes.                                                    *)
(***************************************************************************)
LEMMA SyncTypes ==
  ASSUME SyncInv
  PROVE  /\ op \in [Workers -> Ops] /\ db \in [RowIds -> Rows \cup {Gone}] /\ mem \in [RowIds -> Rows \cup {Gone}]
         /\ created \subseteq RowIds /\ sweep \subseteq created /\ instant \in 1..SyncHorizon /\ restarts \in 0..Restarts
BY DEF SyncInv, SyncTypeOK, Ops

\* The key a worker is on has been created, and its rows are rows.
LEMMA WorkerKey ==
  ASSUME SyncInv, NEW w \in Workers, op[w].step # "idle"
  PROVE  /\ op[w].key \in created /\ op[w].key \in RowIds
         /\ db[op[w].key] # Gone => db[op[w].key] \in Rows
         /\ mem[op[w].key] # Gone => mem[op[w].key] \in Rows
<1>1. op[w].key \in created
  BY DEF SyncInv, WorkerOK
<1> QED
  BY <1>1, SyncTypes

\* A step that changes only what its worker is at.
LEMMA QuietStep ==
  ASSUME SyncInv, NEW w \in Workers, op[w].step \notin OwingSteps,
         NEW next \in Ops, Become(w, next), UNCHANGED <<db, mem, created, instant, restarts>>,
         sweep' \subseteq sweep,
         next.step # "idle" => next.key \in created,
         next.step \notin {"applyFailure"} \cup OwingSteps,
         next.step \in AdminSteps => w \in Admins,
         next.step = "testing" => db[next.key] # Gone
  PROVE  SyncInv'
<1>1. op' = [op EXCEPT ![w] = next]
  BY DEF Become
<1>2. op' \in [Workers -> Ops] /\ op'[w] = next /\ \A v \in Workers \ {w} : op'[v] = op[v]
  BY <1>1, SyncTypes
<1>3. SyncTypeOK'
  BY <1>2, SyncTypes DEF SyncTypeOK, Ops
<1>4. WorkerOK(w)'
  BY <1>2 DEF WorkerOK, OwingSteps
<1>5. SwitchesSame
  BY DEF SwitchesSame
<1>6. sweep' \subseteq created' /\ created' = created
  BY SyncTypes
<1> QED
  BY <1>2, <1>3, <1>4, <1>5, <1>6, HarmlessStep

\* A worker that finds no row, or gets no verdict, goes home.
LEMMA GiveUpKeepsSync ==
  ASSUME SyncInv, NEW w \in Workers, NEW from, from \notin OwingSteps, RowMissing(w, from) \/ NoVerdict(w, from)
  PROVE  SyncInv'
<1>1. /\ op[w].step = from /\ Become(w, Idle) /\ UNCHANGED <<db, mem, created, instant, restarts>>
      /\ sweep' = sweep
  BY DEF RowMissing, NoVerdict
<1>2. "idle" \notin {"applyFailure"} \cup OwingSteps /\ "idle" \notin AdminSteps
  BY DEF OwingSteps, AdminSteps
<1> QED
  BY <1>1, <1>2, IdleIsOp, QuietStep

\* Reading a key's secret changes nothing.
LEMMA SecretKeepsSync ==
  ASSUME SyncInv, NEW w \in Workers, NEW from \in {"leased", "taken"}, NEW then \in {"calling", "probing"},
         WithSecret(w, from, then)
  PROVE  SyncInv'
<1>1. /\ op[w].step = from /\ Become(w, At(then, op[w].key)) /\ UNCHANGED <<db, mem, created, instant, restarts>>
      /\ sweep' = sweep
  BY DEF WithSecret
<1>2. from # "idle" /\ from \notin OwingSteps /\ then \in Steps
      /\ then \notin {"applyFailure"} \cup OwingSteps /\ then \notin AdminSteps /\ then # "testing"
  BY DEF OwingSteps, AdminSteps, Steps
<1>3. op[w].key \in created /\ op[w].key \in RowIds
  BY <1>1, <1>2, WorkerKey
<1>4. At(then, op[w].key) \in Ops /\ At(then, op[w].key).step = then /\ At(then, op[w].key).key = op[w].key
  BY <1>2, <1>3, AtIsOp
<1> QED
  BY <1>1, <1>2, <1>3, <1>4, QuietStep

\* A transaction of a request, a probe or a test: the row keeps its switch.
LEMMA CommitStep ==
  ASSUME SyncInv, NEW w \in Workers, op[w].step \notin {"idle"} \cup OwingSteps,
         NEW r \in Rows, NEW next \in Ops, Become(w, next),
         db[op[w].key] # Gone, r.enabled = db[op[w].key].enabled,
         db' = [db EXCEPT ![op[w].key] = r], UNCHANGED <<mem, created, sweep, instant, restarts>>,
         next.key = op[w].key, next.snap = r,
         \/ next.step \in {"applySuccess", "applyFailure"}
         \/ next.step = "upsertKey" /\ w \in Admins
  PROVE  SyncInv'
<1>0. op[w].key \in created /\ op[w].key \in RowIds /\ r # Gone
  BY WorkerKey, GoneAssumption
<1>1. op' = [op EXCEPT ![w] = next]
  BY DEF Become
<1>2. op' \in [Workers -> Ops] /\ op'[w] = next /\ \A v \in Workers \ {w} : op'[v] = op[v]
  BY <1>1, SyncTypes
<1>3. db' \in [RowIds -> Rows \cup {Gone}] /\ db'[op[w].key] = r /\ \A k \in RowIds \ {op[w].key} : db'[k] = db[k]
  BY <1>0, SyncTypes
<1>4. SyncTypeOK'
  BY <1>2, <1>3, SyncTypes DEF SyncTypeOK, Ops
<1>5. WorkerOK(w)'
  BY <1>0, <1>2, <1>3 DEF WorkerOK, AdminSteps
<1>6. SwitchesSame
  BY <1>0, <1>3 DEF SwitchesSame
<1>7. sweep' \subseteq created' /\ created' = created
  BY SyncTypes
<1> QED
  BY <1>2, <1>4, <1>5, <1>6, <1>7, HarmlessStep

\* MarkKeySuccess: the transaction of a success.
LEMMA SuccessKeepsSync ==
  ASSUME SyncInv, NEW w \in Workers, NEW from \in {"calling", "probing", "testing"}, NEW then \in Steps,
         MarkKeySuccess(w, from, then),
         then = "applySuccess" \/ (then = "upsertKey" /\ w \in Admins)
  PROVE  SyncInv'
<1> DEFINE k == op[w].key
           r == Succeeded(db[k])
<1>1. /\ op[w].step = from /\ db[k] # Gone /\ db' = [db EXCEPT ![k] = r]
      /\ Become(w, AtWith(then, k, r)) /\ UNCHANGED <<mem, created, sweep, instant, restarts>>
  BY DEF MarkKeySuccess
<1>2. op[w].step \notin {"idle"} \cup OwingSteps
  BY <1>1 DEF OwingSteps
<1>3. k \in RowIds /\ db[k] \in Rows
  BY <1>1, <1>2, WorkerKey
<1>4. r \in Rows /\ r.enabled = db[k].enabled
  BY <1>3, SucceededIsRow
<1> DEFINE next == AtWith(then, k, r)
<1>5. next \in Ops /\ next.step = then /\ next.key = k /\ next.snap = r
  BY <1>3, <1>4, AtWithIsOp
<1>6. Become(w, next)
  BY <1>1
<1> HIDE DEF next, r
<1> QED
  BY <1>1, <1>2, <1>4, <1>5, <1>6, CommitStep

\* MarkKeyFailure: the transaction of a failure, which keeps what it read back.
LEMMA FailureKeepsSync ==
  ASSUME SyncInv, NEW w \in Workers, NEW effect \in Effects, NEW from \in {"calling", "testing"}, NEW then \in Steps,
         MarkKeyFailure(w, effect, from, then),
         then = "applyFailure" \/ (then = "upsertKey" /\ w \in Admins)
  PROVE  SyncInv'
<1> DEFINE k == op[w].key
           r == Failed(db[k], effect)
           blocks == effect.kind = "block"
           first == AtWith(then, k, r)
           next == [first EXCEPT !.blocks = blocks]
<1>1. /\ op[w].step = from /\ db[k] # Gone /\ db' = [db EXCEPT ![k] = r]
      /\ Become(w, next) /\ UNCHANGED <<mem, created, sweep, instant, restarts>>
  BY DEF MarkKeyFailure
<1>2. op[w].step \notin {"idle"} \cup OwingSteps
  BY <1>1 DEF OwingSteps
<1>3. k \in RowIds /\ db[k] \in Rows
  BY <1>1, <1>2, WorkerKey
<1>4. r \in Rows /\ r.enabled = db[k].enabled
  BY <1>3, FailedIsRow, SyncTypes
<1>5. first \in Ops /\ first.step = then /\ first.key = k /\ first.snap = r
  BY <1>3, <1>4, AtWithIsOp
<1>6. blocks \in BOOLEAN
  OBVIOUS
<1> HIDE DEF first, r, blocks
<1>7. next \in Ops
  BY <1>5, <1>6 DEF Ops
<1>8. next.step = then /\ next.key = k /\ next.snap = r
  BY <1>5 DEF Ops
<1> HIDE DEF next
<1> QED
  BY <1>1, <1>2, <1>4, <1>7, <1>8, CommitStep

\* A late result in the pool: a key the pool has lost stays lost, and its switch stays
\* the administrator's.
LEMMA ApplyStep ==
  ASSUME SyncInv, NEW w \in Workers, NEW step \in {"applySuccess", "applyFailure", "setModelBlock"}, NEW r,
         Apply(w, step, Merged(op[w].key, r)),
         mem[op[w].key] # Gone => r \in Rows /\ r.enabled = mem[op[w].key].enabled
  PROVE  SyncInv'
<1>1. /\ op[w].step = step /\ mem' = Merged(op[w].key, r) /\ op' = [op EXCEPT ![w] = Idle]
      /\ UNCHANGED <<db, created, sweep, instant, restarts>>
  BY DEF Apply, Become
<1>2. step # "idle" /\ op[w].step \notin OwingSteps
  BY <1>1 DEF OwingSteps
<1>3. op[w].key \in RowIds
  BY <1>1, <1>2, WorkerKey
<1>4. op' \in [Workers -> Ops] /\ op'[w] = Idle /\ \A v \in Workers \ {w} : op'[v] = op[v]
  BY <1>1, SyncTypes, IdleIsOp
<1>5. mem' \in [RowIds -> Rows \cup {Gone}] /\ SwitchesSame
  <2>1. CASE mem[op[w].key] = Gone
    BY <1>1, <2>1, SyncTypes DEF Merged, SwitchesSame
  <2>2. CASE mem[op[w].key] # Gone
    <3>1. mem' = [mem EXCEPT ![op[w].key] = r] /\ r \in Rows /\ r # Gone
      BY <1>1, <2>2, GoneAssumption DEF Merged
    <3>2. /\ mem' \in [RowIds -> Rows \cup {Gone}] /\ mem'[op[w].key] = r
          /\ \A k \in RowIds \ {op[w].key} : mem'[k] = mem[k]
      BY <1>3, <3>1, SyncTypes
    <3> QED
      BY <1>1, <1>3, <2>2, <3>1, <3>2 DEF SwitchesSame
  <2> QED
    BY <2>1, <2>2
<1>6. SyncTypeOK'
  BY <1>1, <1>4, <1>5, SyncTypes DEF SyncTypeOK, Ops
<1>7. WorkerOK(w)'
  BY <1>4, IdleIsOp DEF WorkerOK, AdminSteps
<1>8. sweep' \subseteq created' /\ created' = created
  BY <1>1, SyncTypes
<1> QED
  BY <1>2, <1>4, <1>5, <1>6, <1>7, <1>8, HarmlessStep

\* ApplySuccess, ApplyFailure and SetModelBlock: what the pool learns late.
LEMMA LateResultKeepsSync ==
  ASSUME SyncInv, NEW w \in Workers, ApplySuccess(w) \/ ApplyFailure(w) \/ SetModelBlock(w)
  PROVE  SyncInv'
<1> DEFINE k == op[w].key
           snap == op[w].snap
<1>1. ASSUME op[w].step \in {"applySuccess", "applyFailure", "setModelBlock"}, mem[k] # Gone
      PROVE  mem[k] \in Rows
  BY <1>1, WorkerKey
<1>2. CASE ApplySuccess(w)
  <2>1. Apply(w, "applySuccess", Merged(k, Succeeded(mem[k]))) /\ op[w].step = "applySuccess"
    BY <1>2 DEF ApplySuccess, Apply
  <2>2. mem[k] # Gone => Succeeded(mem[k]) \in Rows /\ Succeeded(mem[k]).enabled = mem[k].enabled
    BY <1>1, <2>1, SucceededIsRow
  <2> QED
    BY <2>1, <2>2, ApplyStep
<1>3. CASE ApplyFailure(w)
  <2> DEFINE shut == mem[k].blocked \/ op[w].blocks
             r == [mem[k] EXCEPT !.invalid = snap.invalid, !.until = snap.until,
                                 !.failing = snap.failing, !.blocked = shut]
  <2>1. Apply(w, "applyFailure", Merged(k, r)) /\ op[w].step = "applyFailure"
    BY <1>3 DEF ApplyFailure, Apply
  <2>2. snap \in Rows
    BY <2>1 DEF SyncInv, WorkerOK
  <2>3. shut \in BOOLEAN
    OBVIOUS
  <2> HIDE DEF shut, snap
  <2>4. ASSUME mem[k] # Gone PROVE r \in Rows /\ r.enabled = mem[k].enabled
    <3>1. mem[k] \in Rows
      BY <1>1, <2>1, <2>4
    <3>2. snap.invalid \in BOOLEAN /\ snap.failing \in BOOLEAN /\ snap.until \in 0..(SyncHorizon + Longest)
      BY <2>2 DEF Rows
    <3>3. r \in Rows
      BY <2>3, <3>1, <3>2 DEF Rows
    <3>4. r.enabled = mem[k].enabled
      BY <3>1 DEF Rows
    <3> QED
      BY <3>3, <3>4
  <2> HIDE DEF r
  <2> QED
    BY <2>1, <2>4, ApplyStep
<1>4. CASE SetModelBlock(w)
  <2> DEFINE r == [mem[k] EXCEPT !.blocked = FALSE]
  <2>1. Apply(w, "setModelBlock", Merged(k, r)) /\ op[w].step = "setModelBlock"
    BY <1>4 DEF SetModelBlock, Apply
  <2>2. ASSUME mem[k] # Gone PROVE r \in Rows /\ r.enabled = mem[k].enabled
    BY <1>1, <2>1, <2>2 DEF Rows
  <2> HIDE DEF r
  <2> QED
    BY <2>1, <2>2, ApplyStep
<1> QED
  BY <1>2, <1>3, <1>4

(***************************************************************************)
(* The administrator.                                                      *)
(***************************************************************************)
\* With one administrator, a key it does not owe to the pool is in the pool exactly when
\* it is in the table, and with the same switch.
LEMMA NothingOwed ==
  ASSUME SyncInv, OneAdministrator, NEW a \in Admins, NEW k \in RowIds,
         op[a].step \notin OwingSteps \/ op[a].key # k
  PROVE  /\ mem[k] = Gone <=> db[k] = Gone
         /\ db[k] # Gone => mem[k].enabled = db[k].enabled
         /\ db[k] # Gone => k \in created
<1>1. ASSUME NEW S \in SUBSET OwingSteps PROVE ~Owes(k, S)
  <2> SUFFICES ASSUME NEW w \in Workers, op[w].key = k, op[w].step \in S PROVE FALSE
    BY DEF Owes
  <2>1. w \in Admins
    BY DEF SyncInv, WorkerOK, OwingSteps, AdminSteps
  <2> QED
    BY <1>1, <2>1 DEF OneAdministrator
<1>2. {"removeKey"} \in SUBSET OwingSteps /\ {"upsertKey"} \in SUBSET OwingSteps
      /\ {"setKeyEnabled", "upsertKey"} \in SUBSET OwingSteps
  BY DEF OwingSteps
<1>3. KeyOK(k)
  BY DEF SyncInv
<1> QED
  BY <1>1, <1>2, <1>3 DEF KeyOK

\* A step of the administrator changes one key; afterwards it owes that key to the pool,
\* or the pool agrees on it.
LEMMA AdminStepInv ==
  ASSUME SyncInv, OneAdministrator, NEW a \in Admins, NEW k \in RowIds, NEW next \in Ops,
         op[a].step \in OwingSteps => op[a].key = k,
         Become(a, next), db' \in [RowIds -> Rows \cup {Gone}], mem' \in [RowIds -> Rows \cup {Gone}],
         \A d \in RowIds \ {k} : db'[d] = db[d] /\ mem'[d] = mem[d],
         created \subseteq created', created' \subseteq RowIds, UNCHANGED <<sweep, instant, restarts>>,
         WorkerOK(a)', KeyOK(k)'
  PROVE  SyncInv'
<1>0. a \in Workers
  BY DEF Workers
<1>1. op' \in [Workers -> Ops] /\ op'[a] = next /\ \A v \in Workers \ {a} : op'[v] = op[v]
  BY <1>0, SyncTypes DEF Become
<1>2. SyncTypeOK'
  BY <1>1, SyncTypes DEF SyncTypeOK, Ops
<1>3. ASSUME NEW v \in Workers PROVE WorkerOK(v)'
  <2>1. CASE v = a
    BY <2>1
  <2>2. CASE v # a
    <3>1. v \notin Admins
      BY <2>2 DEF OneAdministrator
    <3>2. op[v].step \notin AdminSteps
      BY <3>1 DEF SyncInv, WorkerOK
    <3> QED
      BY <1>1, <2>2, <3>2, WorkerFrame
  <2> QED
    BY <2>1, <2>2
<1>4. ASSUME NEW d \in RowIds PROVE KeyOK(d)'
  <2>1. CASE d = k
    BY <2>1
  <2>2. CASE d # k
    <3>1. /\ mem[d] = Gone <=> db[d] = Gone
          /\ db[d] # Gone => mem[d].enabled = db[d].enabled
          /\ db[d] # Gone => d \in created
      BY <2>2, NothingOwed
    <3>2. db'[d] = db[d] /\ mem'[d] = mem[d]
      BY <2>2
    <3> QED
      BY <3>1, <3>2, AgreeingKey
  <2> QED
    BY <2>1, <2>2
<1>5. sweep' \subseteq created'
  BY SyncTypes
<1> QED
  BY <1>2, <1>3, <1>4, <1>5 DEF SyncInv

\* Import commits a key that the pool is still to learn of.
LEMMA ImportKeepsSync ==
  ASSUME SyncInv, OneAdministrator, NEW a \in Admins, NEW k \in RowIds, Import(a, k)
  PROVE  SyncInv'
<1> DEFINE next == AtWith("upsertKey", k, FreshRow)
<1>1. /\ op[a].step = "idle" /\ k \notin created /\ created' = created \cup {k}
      /\ db' = [db EXCEPT ![k] = FreshRow] /\ Become(a, next) /\ UNCHANGED <<mem, sweep, instant, restarts>>
  BY DEF Import
<1>2. FreshRow \in Rows /\ FreshRow # Gone /\ "upsertKey" \in Steps /\ a \in Workers
  BY FreshIsRow, GoneAssumption DEF Steps, Workers
<1>3. next \in Ops /\ next.step = "upsertKey" /\ next.key = k /\ next.snap = FreshRow
  BY <1>2, AtWithIsOp
<1> HIDE DEF next
<1>4. /\ db' \in [RowIds -> Rows \cup {Gone}] /\ db'[k] = FreshRow
      /\ \A d \in RowIds \ {k} : db'[d] = db[d]
  BY <1>1, <1>2, SyncTypes
<1>5. op'[a] = next
  BY <1>1, <1>2, SyncTypes DEF Become
<1>6. WorkerOK(a)'
  BY <1>1, <1>2, <1>3, <1>4, <1>5 DEF WorkerOK, AdminSteps
<1>7. mem[k] = Gone
  BY <1>1 DEF SyncInv, KeyOK
<1>8. Owes(k, {"upsertKey"})'
  BY <1>2, <1>3, <1>5 DEF Owes
<1>9. KeyOK(k)'
  BY <1>1, <1>2, <1>4, <1>7, <1>8 DEF KeyOK
<1>10. op[a].step \notin OwingSteps /\ created \subseteq created' /\ created' \subseteq RowIds
  BY <1>1, SyncTypes DEF OwingSteps
<1> QED
  BY <1>1, <1>3, <1>4, <1>6, <1>9, <1>10, AdminStepInv, SyncTypes

\* SetEnabled commits a switch that the pool is still to learn of.
LEMMA SwitchKeepsSync ==
  ASSUME SyncInv, OneAdministrator, NEW a \in Admins, NEW k \in RowIds, NEW enabled \in BOOLEAN,
         SetEnabled(a, k, enabled)
  PROVE  SyncInv'
<1> DEFINE r == [db[k] EXCEPT !.enabled = enabled]
           next == AtWith("setKeyEnabled", k, r)
<1>1. /\ op[a].step = "idle" /\ db[k] # Gone /\ db' = [db EXCEPT ![k] = r]
      /\ Become(a, next) /\ UNCHANGED <<mem, created, sweep, instant, restarts>>
  BY DEF SetEnabled
<1>2. db[k] \in Rows
  BY <1>1, SyncTypes
<1>3. r \in Rows
  BY <1>2 DEF Rows
<1> HIDE DEF r
<1>4. r # Gone /\ "setKeyEnabled" \in Steps /\ a \in Workers
  BY <1>3, GoneAssumption DEF Steps, Workers
<1>5. next \in Ops /\ next.step = "setKeyEnabled" /\ next.key = k /\ next.snap = r
  BY <1>3, <1>4, AtWithIsOp
<1> HIDE DEF next
<1>6. /\ db' \in [RowIds -> Rows \cup {Gone}] /\ db'[k] = r
      /\ \A d \in RowIds \ {k} : db'[d] = db[d]
  BY <1>1, <1>3, SyncTypes
<1>7. op'[a] = next
  BY <1>1, <1>4, SyncTypes DEF Become
<1>8. op[a].step \notin OwingSteps
  BY <1>1 DEF OwingSteps
<1>9. k \in created /\ mem[k] # Gone
  BY <1>1, <1>8, NothingOwed
<1>10. WorkerOK(a)'
  BY <1>1, <1>3, <1>4, <1>5, <1>6, <1>7, <1>9 DEF WorkerOK, AdminSteps
<1>11. Owes(k, {"setKeyEnabled", "upsertKey"})'
  BY <1>4, <1>5, <1>7 DEF Owes
<1>12. KeyOK(k)'
  BY <1>1, <1>4, <1>6, <1>9, <1>11 DEF KeyOK
<1> QED
  BY <1>1, <1>5, <1>6, <1>8, <1>10, <1>12, AdminStepInv, SyncTypes

\* Delete takes a row away that the pool still has.
LEMMA DeleteKeepsSync ==
  ASSUME SyncInv, OneAdministrator, NEW a \in Admins, NEW k \in RowIds, Delete(a, k)
  PROVE  SyncInv'
<1> DEFINE next == At("removeKey", k)
<1>1. /\ op[a].step = "idle" /\ db[k] # Gone /\ db' = [db EXCEPT ![k] = Gone]
      /\ Become(a, next) /\ UNCHANGED <<mem, created, sweep, instant, restarts>>
  BY DEF Delete
<1>2. "removeKey" \in Steps /\ a \in Workers
  BY DEF Steps, Workers
<1>3. next \in Ops /\ next.step = "removeKey" /\ next.key = k
  BY <1>2, AtIsOp
<1> HIDE DEF next
<1>4. /\ db' \in [RowIds -> Rows \cup {Gone}] /\ db'[k] = Gone
      /\ \A d \in RowIds \ {k} : db'[d] = db[d]
  BY <1>1, SyncTypes
<1>5. op'[a] = next
  BY <1>1, <1>2, SyncTypes DEF Become
<1>6. op[a].step \notin OwingSteps
  BY <1>1 DEF OwingSteps
<1>7. k \in created
  BY <1>1, <1>6, NothingOwed
<1>8. WorkerOK(a)'
  BY <1>1, <1>3, <1>4, <1>5, <1>7 DEF WorkerOK, AdminSteps
<1>9. Owes(k, {"removeKey"})'
  BY <1>2, <1>3, <1>5 DEF Owes
<1>10. KeyOK(k)'
  BY <1>1, <1>4, <1>7, <1>9 DEF KeyOK
<1> QED
  BY <1>1, <1>3, <1>4, <1>6, <1>8, <1>10, AdminStepInv, SyncTypes

\* VerifyAndUnblock deletes the block and leaves the switch.
LEMMA UnblockKeepsSync ==
  ASSUME SyncInv, OneAdministrator, NEW a \in Admins, VerifyAndUnblock(a)
  PROVE  SyncInv'
<1>0. /\ op[a].step = "verifying" /\ op[a].step # "idle" /\ op[a].step \notin OwingSteps
      /\ a \in Workers
  BY DEF VerifyAndUnblock, OwingSteps, Workers
<1>k. PICK k \in RowIds : k = op[a].key
  BY <1>0, WorkerKey
<1> DEFINE r == [db[k] EXCEPT !.blocked = FALSE]
           next == At("setModelBlock", k)
<1>1. /\ op[a].step = "verifying" /\ db' = IF db[k] = Gone THEN db ELSE [db EXCEPT ![k] = r]
      /\ Become(a, next) /\ UNCHANGED <<mem, created, sweep, instant, restarts>>
  BY <1>k DEF VerifyAndUnblock
<1>2. "setModelBlock" \in Steps /\ a \in Workers /\ op[a].step \notin OwingSteps /\ op[a].step # "idle"
  BY <1>1 DEF Steps, Workers, OwingSteps
<1>3. k \in RowIds /\ k \in created /\ (db[k] # Gone => db[k] \in Rows)
  BY <1>2, <1>k, WorkerKey
<1>4. next \in Ops /\ next.step = "setModelBlock" /\ next.key = k
  BY <1>2, <1>3, AtIsOp
<1>5. db[k] # Gone => r \in Rows /\ r.enabled = db[k].enabled /\ r # Gone
  <2> SUFFICES ASSUME db[k] # Gone PROVE r \in Rows /\ r.enabled = db[k].enabled /\ r # Gone
    OBVIOUS
  <2>1. r \in Rows /\ r.enabled = db[k].enabled
    BY <1>3 DEF Rows
  <2> QED
    BY <2>1, GoneAssumption
<1> HIDE DEF next, r
<1>6. /\ db' \in [RowIds -> Rows \cup {Gone}]
      /\ db'[k] = Gone <=> db[k] = Gone
      /\ db[k] # Gone => db'[k].enabled = db[k].enabled
      /\ \A d \in RowIds \ {k} : db'[d] = db[d]
  BY <1>1, <1>3, <1>5, SyncTypes
<1>7. op'[a] = next
  BY <1>1, <1>2, SyncTypes DEF Become
<1>8. WorkerOK(a)'
  BY <1>1, <1>3, <1>4, <1>7 DEF WorkerOK, AdminSteps
<1>9. /\ mem[k] = Gone <=> db[k] = Gone
      /\ db[k] # Gone => mem[k].enabled = db[k].enabled
      /\ db[k] # Gone => k \in created
  BY <1>2, <1>3, NothingOwed
<1>10. mem' = mem /\ created' = created /\ created \subseteq RowIds
  BY <1>1, SyncTypes
<1>11. /\ mem'[k] = Gone <=> db'[k] = Gone
       /\ db'[k] # Gone => k \in created'
       /\ db'[k] # Gone => mem'[k].enabled = db'[k].enabled
  BY <1>6, <1>9, <1>10
<1>12. KeyOK(k)'
  BY <1>11, AgreeingKey
<1>13. mem' \in [RowIds -> Rows \cup {Gone}] /\ \A d \in RowIds \ {k} : db'[d] = db[d] /\ mem'[d] = mem[d]
  BY <1>6, <1>10, SyncTypes
<1> QED
  BY <1>1, <1>2, <1>3, <1>4, <1>6, <1>8, <1>10, <1>12, <1>13, AdminStepInv

\* UpsertKey, SetKeyEnabled, RemoveKey: what is owed is given.
LEMMA OwedKeepsSync ==
  ASSUME SyncInv, OneAdministrator, NEW a \in Admins, UpsertKey(a) \/ SetKeyEnabled(a) \/ RemoveKey(a)
  PROVE  SyncInv'
<1>0. op[a].step # "idle" /\ a \in Workers
  BY DEF UpsertKey, SetKeyEnabled, RemoveKey, Apply, Workers
<1>k. PICK k \in RowIds : k = op[a].key
  BY <1>0, WorkerKey
<1> DEFINE snap == op[a].snap
<1>1. /\ op[a].step \in OwingSteps /\ Become(a, Idle) /\ a \in Workers
      /\ UNCHANGED <<db, created, sweep, instant, restarts>>
  BY DEF UpsertKey, SetKeyEnabled, RemoveKey, Apply, OwingSteps, Workers
<1>2. op[a].step # "idle" /\ k \in RowIds /\ k \in created /\ WorkerOK(a)
  BY <1>0, <1>k, WorkerKey DEF SyncInv
<1>3. op'[a] = Idle
  BY <1>1, SyncTypes DEF Become
<1>4. WorkerOK(a)'
  BY <1>3, IdleIsOp DEF WorkerOK, AdminSteps
<1>5. /\ mem' \in [RowIds -> Rows \cup {Gone}] /\ \A d \in RowIds \ {k} : mem'[d] = mem[d]
      /\ mem'[k] = Gone <=> db[k] = Gone
      /\ db[k] # Gone => mem'[k].enabled = db[k].enabled
  <2>1. CASE UpsertKey(a)
    <3> DEFINE shut == mem[k] # Gone /\ mem[k].blocked
               r == [snap EXCEPT !.blocked = shut]
    <3>1. mem' = [mem EXCEPT ![k] = r] /\ op[a].step = "upsertKey"
      BY <1>k, <2>1 DEF UpsertKey, Apply
    <3>2. snap \in Rows /\ db[k] # Gone /\ snap.enabled = db[k].enabled
      BY <1>2, <1>k, <3>1 DEF WorkerOK
    <3>3. shut \in BOOLEAN
      OBVIOUS
    <3> HIDE DEF shut, snap
    <3>4. r \in Rows
      BY <3>2, <3>3 DEF Rows
    <3>5. r.enabled = snap.enabled
      BY <3>2 DEF Rows
    <3> HIDE DEF r
    <3> QED
      BY <1>2, <3>1, <3>2, <3>4, <3>5, SyncTypes, GoneAssumption
  <2>2. CASE SetKeyEnabled(a)
    <3> DEFINE r == [mem[k] EXCEPT !.enabled = snap.enabled]
    <3>1. mem' = Merged(k, r) /\ op[a].step = "setKeyEnabled"
      BY <1>k, <2>2 DEF SetKeyEnabled, Apply
    <3>2. snap \in Rows /\ db[k] # Gone /\ snap.enabled = db[k].enabled
      BY <1>2, <1>k, <3>1 DEF WorkerOK
    <3>3. mem[k] # Gone
      <4>1. ~Owes(k, {"upsertKey"})
        <5> SUFFICES ASSUME NEW w \in Workers, op[w].key = k, op[w].step = "upsertKey" PROVE FALSE
          BY DEF Owes
        <5>1. w \in Admins
          BY DEF SyncInv, WorkerOK, AdminSteps
        <5> QED
          BY <3>1, <5>1 DEF OneAdministrator
      <4> QED
        BY <1>2, <3>2, <4>1 DEF SyncInv, KeyOK
    <3>4. mem[k] \in Rows
      BY <1>0, <1>k, <3>3, WorkerKey
    <3> HIDE DEF snap
    <3>9. snap.enabled \in BOOLEAN
      BY <3>2 DEF Rows
    <3>5. r \in Rows
      BY <3>4, <3>9 DEF Rows
    <3>6. r.enabled = snap.enabled
      BY <3>4 DEF Rows
    <3>7. mem' = [mem EXCEPT ![k] = r]
      BY <3>1, <3>3 DEF Merged
    <3> HIDE DEF r
    <3> QED
      BY <1>2, <3>2, <3>5, <3>6, <3>7, SyncTypes, GoneAssumption
  <2>3. CASE RemoveKey(a)
    <3>1. mem' = [mem EXCEPT ![k] = Gone] /\ op[a].step = "removeKey"
      BY <1>k, <2>3 DEF RemoveKey, Apply
    <3>2. db[k] = Gone
      BY <1>2, <1>k, <3>1 DEF WorkerOK
    <3> QED
      BY <1>2, <3>1, <3>2, SyncTypes
  <2> QED
    BY <2>1, <2>2, <2>3
<1>6. /\ mem'[k] = Gone <=> db'[k] = Gone
      /\ db'[k] # Gone => k \in created'
      /\ db'[k] # Gone => mem'[k].enabled = db'[k].enabled
  BY <1>1, <1>2, <1>5
<1>7. op[a].step \in OwingSteps => op[a].key = k
  BY <1>k
<1>8. KeyOK(k)'
  BY <1>6, AgreeingKey
<1>9. /\ db' \in [RowIds -> Rows \cup {Gone}]
      /\ \A d \in RowIds \ {k} : db'[d] = db[d] /\ mem'[d] = mem[d]
  BY <1>1, <1>5, SyncTypes
<1>10. created \subseteq created' /\ created' \subseteq RowIds
  BY <1>1, SyncTypes
<1> QED
  BY <1>1, <1>2, <1>4, <1>5, <1>7, <1>8, <1>9, <1>10, IdleIsOp, AdminStepInv

(***************************************************************************)
(* Every step.                                                             *)
(***************************************************************************)
LEMMA SyncInitInv ==
  ASSUME SyncInit
  PROVE  SyncInv
<1>1. op \in [Workers -> Ops] /\ \A w \in Workers : op[w] = Idle
  BY IdleIsOp DEF SyncInit
<1>2. instant \in 1..SyncHorizon /\ restarts \in 0..Restarts
  BY BoundsAssumption DEF SyncInit
<1>3. SyncTypeOK /\ sweep \subseteq created
  BY <1>1, <1>2 DEF SyncInit, SyncTypeOK, Ops
<1>4. ASSUME NEW w \in Workers PROVE WorkerOK(w)
  BY <1>1, IdleIsOp DEF WorkerOK, AdminSteps
<1>5. ASSUME NEW k \in RowIds PROVE KeyOK(k)
  BY DEF SyncInit, KeyOK
<1> QED
  BY <1>3, <1>4, <1>5 DEF SyncInv

\* A worker that takes up a key starts at a key the table has had.
LEMMA BeginStep ==
  ASSUME SyncInv, NEW w \in Workers, op[w].step = "idle",
         NEW step \in {"leased", "taken", "testing", "verifying"}, NEW k \in created, Become(w, At(step, k)),
         UNCHANGED <<db, mem, created, instant, restarts>>, sweep' \subseteq sweep,
         step \in {"testing", "verifying"} => w \in Admins /\ db[k] # Gone
  PROVE  SyncInv'
<1>1. step \in Steps /\ k \in RowIds /\ op[w].step \notin OwingSteps
      /\ step \notin {"applyFailure"} \cup OwingSteps
  BY SyncTypes DEF Steps, OwingSteps
<1>2. step \in AdminSteps => step \in {"testing", "verifying"}
  BY DEF AdminSteps
<1>3. At(step, k) \in Ops /\ At(step, k).step = step /\ At(step, k).key = k
  BY <1>1, AtIsOp
<1> QED
  BY <1>1, <1>2, <1>3, QuietStep

\* A request leases a key the pool has.
LEMMA LeaseKeepsSync ==
  ASSUME SyncInv, NEW w \in Workers, NEW k \in RowIds, Lease(w, k)
  PROVE  SyncInv'
<1>1. /\ op[w].step = "idle" /\ mem[k] # Gone /\ Become(w, At("leased", k))
      /\ UNCHANGED <<db, mem, created, instant, restarts>> /\ sweep' = sweep
  BY DEF Lease, Eligible
<1>2. k \in created
  BY <1>1 DEF SyncInv, KeyOK
<1> QED
  BY <1>1, <1>2, BeginStep

\* An administrator begins a test of a key or of a blocked model.
LEMMA OperationKeepsSync ==
  ASSUME SyncInv, NEW a \in Admins, NEW k \in RowIds, NEW step \in {"testing", "verifying"},
         BeginOperation(a, k, step)
  PROVE  SyncInv'
<1>1. /\ op[a].step = "idle" /\ db[k] # Gone /\ Become(a, At(step, k)) /\ a \in Workers
      /\ UNCHANGED <<db, mem, created, instant, restarts>> /\ sweep' = sweep
  BY DEF BeginOperation, Workers
<1>2. k \in created
  BY <1>1 DEF SyncInv, KeyOK
<1> QED
  BY <1>1, <1>2, BeginStep

\* A prober takes a key of the sweep.
LEMMA TakeKeepsSync ==
  ASSUME SyncInv, NEW w \in Workers, TakeCandidate(w)
  PROVE  SyncInv'
<1>1. PICK k \in sweep : Become(w, At("taken", k)) /\ sweep' = sweep \ {k}
  BY DEF TakeCandidate
<1>2. op[w].step = "idle" /\ UNCHANGED <<db, mem, created, instant, restarts>>
  BY DEF TakeCandidate
<1>3. k \in created
  BY SyncTypes
<1> QED
  BY <1>1, <1>2, <1>3, BeginStep

\* A sweep, a restart and the clock are nobody's steps.
LEMMA SweepKeepsSync ==
  ASSUME SyncInv, Sweep
  PROVE  SyncInv'
<1>1. sweep' = ListKeysForHealthCheck /\ UNCHANGED <<db, mem, created, op, instant, restarts>>
  BY DEF Sweep
<1>2. sweep' \subseteq created'
  BY <1>1 DEF ListKeysForHealthCheck, SyncInv, KeyOK
<1>3. SyncTypeOK'
  BY <1>1, <1>2, SyncTypes DEF SyncTypeOK, Ops
<1>4. ASSUME NEW v \in Workers PROVE WorkerOK(v)'
  BY <1>1, WorkerFrame
<1>5. ASSUME NEW k \in RowIds PROVE KeyOK(k)'
  BY <1>1, KeyFrame
<1> QED
  BY <1>2, <1>3, <1>4, <1>5 DEF SyncInv

\* A restart drops the workers and loads the table.
LEMMA LoadKeepsSync ==
  ASSUME SyncInv, LoadSnapshot
  PROVE  SyncInv'
<1>1. /\ restarts' = restarts + 1 /\ restarts < Restarts /\ mem' = db /\ op' = [w \in Workers |-> Idle]
      /\ sweep' = {} /\ UNCHANGED <<db, created, instant>>
  BY DEF LoadSnapshot
<1>2. op' \in [Workers -> Ops] /\ \A w \in Workers : op'[w] = Idle
  BY <1>1, IdleIsOp
<1>3. restarts' \in 0..Restarts
  BY <1>1, SyncTypes, BoundsAssumption
<1>4. SyncTypeOK'
  BY <1>1, <1>2, <1>3, SyncTypes DEF SyncTypeOK, Ops
<1>5. ASSUME NEW v \in Workers PROVE WorkerOK(v)'
  BY <1>2, IdleIsOp DEF WorkerOK, AdminSteps
<1>6. ASSUME NEW k \in RowIds PROVE KeyOK(k)'
  <2>1. db[k] # Gone => k \in created
    BY DEF SyncInv, KeyOK
  <2> QED
    BY <1>1, <2>1, AgreeingKey
<1> QED
  BY <1>1, <1>4, <1>5, <1>6 DEF SyncInv

\* Time passes.
LEMMA TickKeepsSync ==
  ASSUME SyncInv, SyncTick
  PROVE  SyncInv'
<1>1. instant < SyncHorizon /\ instant' = instant + 1 /\ UNCHANGED <<db, mem, created, op, sweep, restarts>>
  BY DEF SyncTick
<1>2. instant' \in 1..SyncHorizon
  BY <1>1, SyncTypes, BoundsAssumption
<1>3. SyncTypeOK'
  BY <1>1, <1>2, SyncTypes DEF SyncTypeOK, Ops
<1>4. ASSUME NEW v \in Workers PROVE WorkerOK(v)'
  BY <1>1, WorkerFrame
<1>5. ASSUME NEW k \in RowIds PROVE KeyOK(k)'
  BY <1>1, KeyFrame
<1>6. sweep' \subseteq created'
  BY <1>1, SyncTypes
<1> QED
  BY <1>3, <1>4, <1>5, <1>6 DEF SyncInv

\* The steps of a request.
LEMMA RequestKeepsSync ==
  ASSUME SyncInv, NEW r \in Clients, RequestStep(r)
  PROVE  SyncInv'
<1>1. r \in Workers /\ "leased" \notin OwingSteps /\ "calling" \notin OwingSteps
      /\ "applySuccess" \in Steps /\ "applyFailure" \in Steps
  BY DEF Workers, OwingSteps, Steps
<1>2. CASE \E k \in RowIds : Lease(r, k)
  BY <1>1, <1>2, LeaseKeepsSync
<1>3. CASE WithSecret(r, "leased", "calling")
  BY <1>1, <1>3, SecretKeepsSync
<1>4. CASE RowMissing(r, "leased") \/ RowMissing(r, "calling") \/ NoVerdict(r, "calling")
  BY <1>1, <1>4, GiveUpKeepsSync
<1>5. CASE MarkKeySuccess(r, "calling", "applySuccess")
  BY <1>1, <1>5, SuccessKeepsSync
<1>6. CASE \E effect \in Effects : MarkKeyFailure(r, effect, "calling", "applyFailure")
  BY <1>1, <1>6, FailureKeepsSync
<1>7. CASE ApplySuccess(r) \/ ApplyFailure(r)
  BY <1>1, <1>7, LateResultKeepsSync
<1> QED
  BY <1>2, <1>3, <1>4, <1>5, <1>6, <1>7 DEF RequestStep

\* The steps of a probe of the sweep.
LEMMA ProbeKeepsSync ==
  ASSUME SyncInv, NEW p \in Probers, ProbeStep(p)
  PROVE  SyncInv'
<1>1. p \in Workers /\ "taken" \notin OwingSteps /\ "probing" \notin OwingSteps /\ "applySuccess" \in Steps
  BY DEF Workers, OwingSteps, Steps
<1>2. CASE TakeCandidate(p)
  BY <1>1, <1>2, TakeKeepsSync
<1>3. CASE WithSecret(p, "taken", "probing")
  BY <1>1, <1>3, SecretKeepsSync
<1>4. CASE RowMissing(p, "taken") \/ RowMissing(p, "probing") \/ NoVerdict(p, "probing")
  BY <1>1, <1>4, GiveUpKeepsSync
<1>5. CASE MarkKeySuccess(p, "probing", "applySuccess")
  BY <1>1, <1>5, SuccessKeepsSync
<1>6. CASE ApplySuccess(p)
  BY <1>1, <1>6, LateResultKeepsSync
<1> QED
  BY <1>2, <1>3, <1>4, <1>5, <1>6 DEF ProbeStep

\* The steps of the administrator.
LEMMA AdminKeepsSync ==
  ASSUME SyncInv, OneAdministrator, NEW a \in Admins, AdminStep(a)
  PROVE  SyncInv'
<1>1. a \in Workers /\ "testing" \notin OwingSteps /\ "verifying" \notin OwingSteps /\ "upsertKey" \in Steps
  BY DEF Workers, OwingSteps, Steps
<1>2. CASE ImportStep(a)
  BY <1>2, ImportKeepsSync DEF ImportStep
<1>3. CASE UpsertKey(a) \/ SetKeyEnabled(a) \/ RemoveKey(a)
  BY <1>3, OwedKeepsSync
<1>4. CASE TestStep(a)
  <2>1. CASE \E k \in RowIds : BeginOperation(a, k, "testing")
    BY <2>1, OperationKeepsSync
  <2>2. CASE MarkKeySuccess(a, "testing", "upsertKey")
    BY <1>1, <2>2, SuccessKeepsSync
  <2>3. CASE \E effect \in TestEffects : MarkKeyFailure(a, effect, "testing", "upsertKey")
    BY <1>1, <2>3, FailureKeepsSync DEF TestEffects
  <2>4. CASE RowMissing(a, "testing") \/ NoVerdict(a, "testing")
    BY <1>1, <2>4, GiveUpKeepsSync
  <2> QED
    BY <1>4, <2>1, <2>2, <2>3, <2>4 DEF TestStep
<1>5. CASE \E k \in RowIds, enabled \in BOOLEAN : SetEnabled(a, k, enabled)
  BY <1>5, SwitchKeepsSync
<1>6. CASE \E k \in RowIds : Delete(a, k)
  BY <1>6, DeleteKeepsSync
<1>7. CASE UnblockStep(a)
  <2>1. CASE \E k \in RowIds : BeginOperation(a, k, "verifying")
    BY <2>1, OperationKeepsSync
  <2>2. CASE VerifyAndUnblock(a)
    BY <2>2, UnblockKeepsSync
  <2>3. CASE NoVerdict(a, "verifying")
    BY <1>1, <2>3, GiveUpKeepsSync
  <2>4. CASE SetModelBlock(a)
    BY <1>1, <2>4, LateResultKeepsSync
  <2> QED
    BY <1>7, <2>1, <2>2, <2>3, <2>4 DEF UnblockStep
<1> QED
  BY <1>2, <1>3, <1>4, <1>5, <1>6, <1>7 DEF AdminStep, EnableStep, DeleteStep

\* Every step of the table and the pool keeps the invariant.
LEMMA SyncStepInv ==
  ASSUME SyncInv, OneAdministrator, [SyncNext]_syncVars
  PROVE  SyncInv'
<1>1. CASE \E r \in Clients : RequestStep(r)
  BY <1>1, RequestKeepsSync
<1>2. CASE \E a \in Admins : AdminStep(a)
  BY <1>2, AdminKeepsSync
<1>3. CASE Sweep
  BY <1>3, SweepKeepsSync
<1>4. CASE \E p \in Probers : ProbeStep(p)
  BY <1>4, ProbeKeepsSync
<1>5. CASE LoadSnapshot
  BY <1>5, LoadKeepsSync
<1>6. CASE SyncTick
  BY <1>6, TickKeepsSync
<1>7. CASE UNCHANGED syncVars
  <2>1. UNCHANGED <<db, mem, created, op, sweep, instant, restarts>>
    BY <1>7 DEF syncVars
  <2>2. SyncTypeOK' /\ sweep' \subseteq created'
    BY <2>1, SyncTypes DEF SyncTypeOK, Ops
  <2>3. ASSUME NEW v \in Workers PROVE WorkerOK(v)'
    BY <2>1, WorkerFrame
  <2>4. ASSUME NEW k \in RowIds PROVE KeyOK(k)'
    BY <2>1, KeyFrame
  <2> QED
    BY <2>2, <2>3, <2>4 DEF SyncInv
<1> QED
  BY <1>1, <1>2, <1>3, <1>4, <1>5, <1>6, <1>7 DEF SyncNext

(***************************************************************************)
(* The calm cast: one request at a time, nobody tests or probes a key.     *)
(***************************************************************************)
Calm == \A w \in Workers : op[w].step \notin {"testing", "taken"}

RequestSteps == {"leased", "calling", "applySuccess", "applyFailure"}
LateSteps == {"applySuccess", "applyFailure"}

\* What a request is about to apply is what the table has; what the administrator is
\* about to insert nobody else has touched.
CalmWorker(w) ==
  /\ op[w].step \notin {"testing", "taken", "probing"}
  /\ op[w].step \in RequestSteps => w \in Clients
  /\ op[w].step = "applyFailure" /\ db[op[w].key] # Gone => op[w].snap.until = db[op[w].key].until
  /\ op[w].step = "applySuccess" /\ db[op[w].key] # Gone => db[op[w].key].until = 0
  /\ op[w].step = "upsertKey" => mem[op[w].key] = Gone /\ op[w].snap.until = db[op[w].key].until

\* CooldownKept, strengthened: the pool and the table have the same cooldown unless a
\* request is about to bring it, and nobody has leased a key the pool has not seen.
CalmKey(k) ==
  /\ mem[k] # Gone /\ db[k] # Gone => mem[k].until = db[k].until \/ Owes(k, LateSteps)
  /\ mem[k] = Gone /\ db[k] # Gone => \A w \in Workers : op[w].step \in RequestSteps => op[w].key # k

CalmInv == (\A w \in Workers : CalmWorker(w)) /\ (\A k \in RowIds : CalmKey(k))

\* A key whose cooldowns stay, and on which no request moves, keeps its part.
LEMMA CalmKeyFrame ==
  ASSUME NEW k \in RowIds, CalmKey(k), mem'[k] = Gone <=> mem[k] = Gone, db'[k] = Gone <=> db[k] = Gone,
         mem[k] # Gone => mem'[k].until = mem[k].until, db[k] # Gone => db'[k].until = db[k].until,
         \A v \in Workers : op[v].step \in RequestSteps \/ op'[v].step \in RequestSteps => op'[v] = op[v]
  PROVE  CalmKey(k)'
<1>1. Owes(k, LateSteps) => Owes(k, LateSteps)'
  BY DEF Owes, LateSteps, RequestSteps
<1> QED
  BY <1>1 DEF CalmKey

\* A step of the one request that is on its way.
LEMMA CalmRequestStep ==
  ASSUME SyncInv, CalmInv, OneClient, NEW c \in Clients, NEW k \in RowIds,
         \A v \in Workers \ {c} : op'[v] = op[v],
         \A d \in RowIds \ {k} : db'[d] = db[d] /\ mem'[d] = mem[d],
         op[c].step \in RequestSteps => op[c].key = k,
         op'[c].step \in RequestSteps => op'[c].key = k,
         mem[k] = Gone /\ db[k] # Gone => op'[c].step \notin RequestSteps /\ db'[k] = db[k],
         mem'[k] = Gone <=> mem[k] = Gone, db'[k] = Gone <=> db[k] = Gone,
         mem'[k] # Gone /\ db'[k] # Gone => mem'[k].until = db'[k].until \/ op'[c].step \in LateSteps,
         CalmWorker(c)'
  PROVE  CalmInv'
<1>0. c \in Workers /\ LateSteps \subseteq RequestSteps
  BY DEF Workers, LateSteps, RequestSteps
<1>1. ASSUME NEW v \in Workers, v # c PROVE op'[v] = op[v] /\ op[v].step \notin RequestSteps
  BY <1>1 DEF CalmInv, CalmWorker, OneClient
<1>2. ASSUME NEW v \in Workers PROVE CalmWorker(v)'
  <2>1. CASE v = c
    BY <2>1
  <2>2. CASE v # c
    <3>1. op'[v] = op[v] /\ op[v].step \notin RequestSteps /\ CalmWorker(v)
      BY <1>1, <2>2 DEF CalmInv
    <3>2. op[v].step = "upsertKey" => op[v].key \in RowIds /\ db[op[v].key] # Gone
      BY WorkerKey DEF SyncInv, WorkerOK
    <3>3. op[v].step = "upsertKey" => mem'[op[v].key] = Gone /\ db'[op[v].key] = db[op[v].key]
      BY <3>1, <3>2 DEF CalmWorker
    <3> QED
      BY <3>1, <3>3 DEF CalmWorker, RequestSteps
  <2> QED
    BY <2>1, <2>2
<1>3. ASSUME NEW d \in RowIds PROVE CalmKey(d)'
  <2>1. CASE d = k
    <3>1. op'[c].step \in LateSteps => Owes(d, LateSteps)'
      BY <1>0, <2>1 DEF Owes
    <3>2. mem'[d] = Gone /\ db'[d] # Gone => \A w \in Workers : op'[w].step \notin RequestSteps
      BY <1>1, <2>1
    <3> QED
      BY <2>1, <3>1, <3>2 DEF CalmKey
  <2>2. CASE d # k
    <3>1. db'[d] = db[d] /\ mem'[d] = mem[d] /\ CalmKey(d)
      BY <2>2 DEF CalmInv
    <3>2. ~Owes(d, LateSteps)
      BY <1>0, <1>1, <2>2 DEF Owes
    <3>3. \A w \in Workers : op'[w].step \in RequestSteps => op'[w].key # d
      BY <1>1, <2>2
    <3> QED
      BY <3>1, <3>2, <3>3 DEF CalmKey
  <2> QED
    BY <2>1, <2>2
<1> QED
  BY <1>2, <1>3 DEF CalmInv

\* A step of the administrator leaves the cooldown of a key a request works on.
LEMMA CalmAdminStep ==
  ASSUME SyncInv, CalmInv, OneAdministrator, NEW a \in Admins, NEW k \in RowIds,
         \A v \in Workers \ {a} : op'[v] = op[v],
         \A d \in RowIds \ {k} : db'[d] = db[d] /\ mem'[d] = mem[d],
         \A v \in Workers : op[v].step \in RequestSteps /\ op[v].key = k /\ db'[k] # Gone
            => db[k] # Gone /\ db'[k].until = db[k].until,
         CalmWorker(a)', CalmKey(k)'
  PROVE  CalmInv'
<1>0. a \in Workers /\ a \notin Clients
  BY CastAssumption DEF Workers
<1>1. op[a].step \notin RequestSteps /\ op'[a].step \notin RequestSteps
  BY <1>0 DEF CalmInv, CalmWorker
<1>2. ASSUME NEW v \in Workers PROVE CalmWorker(v)'
  <2>1. CASE v = a
    BY <2>1
  <2>2. CASE v # a
    <3>1. op'[v] = op[v] /\ CalmWorker(v) /\ v \notin Admins
      BY <2>2 DEF CalmInv, OneAdministrator
    <3>2. op[v].step # "upsertKey"
      BY <3>1 DEF SyncInv, WorkerOK, AdminSteps
    <3>3. op[v].step \in RequestSteps => op[v].key \in RowIds
      BY WorkerKey DEF RequestSteps
    <3>4. op[v].step \in RequestSteps /\ db'[op[v].key] # Gone
            => db[op[v].key] # Gone /\ db'[op[v].key].until = db[op[v].key].until
      BY <3>3
    <3> QED
      BY <3>1, <3>2, <3>4 DEF CalmWorker, RequestSteps
  <2> QED
    BY <2>1, <2>2
<1>3. ASSUME NEW d \in RowIds PROVE CalmKey(d)'
  <2>1. CASE d = k
    BY <2>1
  <2>2. CASE d # k
    <3>1. \A v \in Workers : op[v].step \in RequestSteps \/ op'[v].step \in RequestSteps => op'[v] = op[v]
      BY <1>1
    <3>2. CalmKey(d) /\ db'[d] = db[d] /\ mem'[d] = mem[d]
      BY <2>2 DEF CalmInv
    <3> QED
      BY <3>1, <3>2, CalmKeyFrame
  <2> QED
    BY <2>1, <2>2
<1> QED
  BY <1>2, <1>3 DEF CalmInv

KeysInv == SyncInv /\ (part = "no tests" => CalmInv)

\* What a worker becomes, and what the others stay.
LEMMA BecomeEffect ==
  ASSUME SyncInv, NEW w \in Workers, NEW next \in Ops, Become(w, next)
  PROVE  op'[w] = next /\ \A v \in Workers \ {w} : op'[v] = op[v]
BY SyncTypes DEF Become

\* The request moves on without touching table or pool.
LEMMA CalmQuietRequest ==
  ASSUME SyncInv, CalmInv, OneClient, NEW c \in Clients, NEW k \in RowIds, NEW next \in Ops, Become(c, next),
         op[c].step \in {"idle", "leased", "calling"}, next.step \in {"idle", "leased", "calling"},
         next.step # "idle" => next.key = k, op[c].step # "idle" => op[c].key = k,
         mem[k] = Gone /\ db[k] # Gone => next.step = "idle", db' = db, mem' = mem
  PROVE  CalmInv'
<1>0. c \in Workers
  BY DEF Workers
<1>1. op'[c] = next /\ \A v \in Workers \ {c} : op'[v] = op[v]
  BY <1>0, BecomeEffect
<1>2. op[c].step \in RequestSteps => op[c].step # "idle"
  BY DEF RequestSteps
<1>3. next.step \in RequestSteps => next.step # "idle"
  BY DEF RequestSteps
<1>4. CalmWorker(c)'
  BY <1>1 DEF CalmWorker
<1>5. ASSUME mem[k] # Gone, db[k] # Gone PROVE mem[k].until = db[k].until
  <2>1. ~Owes(k, LateSteps)
    <3> SUFFICES ASSUME NEW w \in Workers, op[w].step \in LateSteps PROVE FALSE
      BY DEF Owes
    <3>1. w \in Clients
      BY DEF CalmInv, CalmWorker, LateSteps, RequestSteps
    <3> QED
      BY <3>1 DEF OneClient, LateSteps
  <2> QED
    BY <1>5, <2>1 DEF CalmInv, CalmKey
<1>6. \A d \in RowIds \ {k} : db'[d] = db[d] /\ mem'[d] = mem[d]
  OBVIOUS
<1>7. mem[k] = Gone /\ db[k] # Gone => op'[c].step \notin RequestSteps
  BY <1>1 DEF RequestSteps
<1> QED
  BY <1>1, <1>2, <1>3, <1>4, <1>5, <1>6, <1>7, CalmRequestStep

\* The request leases a key.
LEMMA CalmLease ==
  ASSUME SyncInv, CalmInv, OneClient, NEW c \in Clients, NEW k \in RowIds, Lease(c, k)
  PROVE  CalmInv'
<1>1. op[c].step = "idle" /\ mem[k] # Gone /\ Become(c, At("leased", k)) /\ db' = db /\ mem' = mem
  BY DEF Lease, Eligible
<1>2. At("leased", k) \in Ops /\ At("leased", k).step = "leased" /\ At("leased", k).key = k
  BY AtIsOp DEF Steps
<1> QED
  BY <1>1, <1>2, CalmQuietRequest

\* The request reads the secret.
LEMMA CalmSecret ==
  ASSUME SyncInv, CalmInv, OneClient, NEW c \in Clients, WithSecret(c, "leased", "calling")
  PROVE  CalmInv'
<1>0. c \in Workers /\ op[c].step = "leased"
  BY DEF Workers, WithSecret
<1>1. PICK k \in RowIds : k = op[c].key
  BY <1>0, WorkerKey
<1>2. db[k] # Gone /\ Become(c, At("calling", k)) /\ db' = db /\ mem' = mem
  BY <1>1 DEF WithSecret
<1>3. At("calling", k) \in Ops /\ At("calling", k).step = "calling" /\ At("calling", k).key = k
  BY AtIsOp DEF Steps
<1>4. ~(mem[k] = Gone /\ db[k] # Gone)
  BY <1>0, <1>1 DEF CalmInv, CalmKey, RequestSteps
<1> QED
  BY <1>0, <1>1, <1>2, <1>3, <1>4, CalmQuietRequest

\* The request finds no row, or gets no verdict.
LEMMA CalmGiveUp ==
  ASSUME SyncInv, CalmInv, OneClient, NEW c \in Clients, NEW from \in {"leased", "calling"},
         RowMissing(c, from) \/ NoVerdict(c, from)
  PROVE  CalmInv'
<1>0. c \in Workers /\ op[c].step = from
  BY DEF Workers, RowMissing, NoVerdict
<1>1. PICK k \in RowIds : k = op[c].key
  BY <1>0, WorkerKey
<1>2. Become(c, Idle) /\ db' = db /\ mem' = mem
  BY DEF RowMissing, NoVerdict
<1> QED
  BY <1>0, <1>1, <1>2, IdleIsOp, CalmQuietRequest

\* A request's transaction; until is the cooldown it leaves.
LEMMA CalmCommit ==
  ASSUME SyncInv, CalmInv, OneClient, NEW c \in Clients, NEW k \in RowIds, op[c].key = k,
         op[c].step = "calling", NEW r \in Rows, NEW next \in Ops, Become(c, next),
         db[k] # Gone, db' = [db EXCEPT ![k] = r], mem' = mem,
         next.key = k, next.snap = r,
         next.step = "applyFailure" \/ (next.step = "applySuccess" /\ r.until = 0)
  PROVE  CalmInv'
<1>0. c \in Workers /\ r # Gone
  BY GoneAssumption DEF Workers
<1>1. op'[c] = next /\ \A v \in Workers \ {c} : op'[v] = op[v]
  BY <1>0, BecomeEffect
<1>2. db'[k] = r /\ \A d \in RowIds \ {k} : db'[d] = db[d]
  BY SyncTypes
<1>3. ~(mem[k] = Gone /\ db[k] # Gone)
  BY <1>0 DEF CalmInv, CalmKey, RequestSteps
<1>4. CalmWorker(c)'
  BY <1>1, <1>2 DEF CalmWorker
<1>5. op'[c].step \in LateSteps
  BY <1>1 DEF LateSteps
<1> QED
  BY <1>0, <1>1, <1>2, <1>3, <1>4, <1>5, CalmRequestStep

\* The request commits a success.
LEMMA CalmSuccess ==
  ASSUME SyncInv, CalmInv, OneClient, NEW c \in Clients, MarkKeySuccess(c, "calling", "applySuccess")
  PROVE  CalmInv'
<1>0. c \in Workers /\ op[c].step = "calling"
  BY DEF Workers, MarkKeySuccess
<1>1. PICK k \in RowIds : k = op[c].key
  BY <1>0, WorkerKey
<1> DEFINE r == Succeeded(db[k])
           next == AtWith("applySuccess", k, r)
<1>2. db[k] # Gone /\ db' = [db EXCEPT ![k] = r] /\ Become(c, next) /\ mem' = mem
  BY <1>1 DEF MarkKeySuccess
<1>3. r \in Rows /\ r.until = 0
  BY <1>0, <1>1, <1>2, WorkerKey, SucceededIsRow
<1>4. next \in Ops /\ next.step = "applySuccess" /\ next.key = k /\ next.snap = r
  BY <1>3, AtWithIsOp DEF Steps
<1> HIDE DEF next, r
<1> QED
  BY <1>0, <1>1, <1>2, <1>3, <1>4, CalmCommit

\* The request commits a failure.
LEMMA CalmFailure ==
  ASSUME SyncInv, CalmInv, OneClient, NEW c \in Clients, NEW effect \in Effects,
         MarkKeyFailure(c, effect, "calling", "applyFailure")
  PROVE  CalmInv'
<1>0. c \in Workers /\ op[c].step = "calling"
  BY DEF Workers, MarkKeyFailure
<1>1. PICK k \in RowIds : k = op[c].key
  BY <1>0, WorkerKey
<1> DEFINE r == Failed(db[k], effect)
           blocks == effect.kind = "block"
           first == AtWith("applyFailure", k, r)
           next == [first EXCEPT !.blocks = blocks]
<1>2. db[k] # Gone /\ db' = [db EXCEPT ![k] = r] /\ Become(c, next) /\ mem' = mem
  BY <1>1 DEF MarkKeyFailure
<1>3. r \in Rows
  BY <1>0, <1>1, <1>2, WorkerKey, FailedIsRow, SyncTypes
<1>4. first \in Ops /\ first.step = "applyFailure" /\ first.key = k /\ first.snap = r
  BY <1>3, AtWithIsOp DEF Steps
<1>5. blocks \in BOOLEAN
  OBVIOUS
<1> HIDE DEF first, r, blocks
<1>6. next \in Ops
  BY <1>4, <1>5 DEF Ops
<1>7. next.step = "applyFailure" /\ next.key = k /\ next.snap = r
  BY <1>4 DEF Ops
<1> HIDE DEF next
<1> QED
  BY <1>0, <1>1, <1>2, <1>3, <1>6, <1>7, CalmCommit

\* The second half of a result: the pool's cooldown becomes the table's.
LEMMA CalmApply ==
  ASSUME SyncInv, CalmInv, OneClient, NEW c \in Clients, NEW k \in RowIds, op[c].key = k,
         op[c].step \in LateSteps, NEW r, mem' = Merged(k, r), db' = db, Become(c, Idle),
         mem[k] # Gone => r \in Rows,
         mem[k] # Gone /\ db[k] # Gone => r.until = db[k].until
  PROVE  CalmInv'
<1>0. c \in Workers /\ op[c].step \in RequestSteps
  BY DEF Workers, LateSteps, RequestSteps
<1>1. op'[c] = Idle /\ \A v \in Workers \ {c} : op'[v] = op[v]
  BY <1>0, BecomeEffect, IdleIsOp
<1>2. CalmWorker(c)'
  BY <1>1, IdleIsOp DEF CalmWorker, RequestSteps
<1>3. op'[c].step \notin RequestSteps
  BY <1>1, IdleIsOp DEF RequestSteps
<1>4. /\ \A d \in RowIds \ {k} : mem'[d] = mem[d]
      /\ mem[k] = Gone => mem'[k] = Gone
      /\ mem[k] # Gone => mem'[k] = r
  BY SyncTypes DEF Merged
<1>5. /\ mem'[k] = Gone <=> mem[k] = Gone
      /\ mem'[k] # Gone /\ db'[k] # Gone => mem'[k].until = db'[k].until
  BY <1>4, GoneAssumption
<1> QED
  BY <1>0, <1>1, <1>2, <1>3, <1>4, <1>5, CalmRequestStep

\* The request brings its result to the pool.
LEMMA CalmLateResult ==
  ASSUME SyncInv, CalmInv, OneClient, NEW c \in Clients, ApplySuccess(c) \/ ApplyFailure(c)
  PROVE  CalmInv'
<1>0. c \in Workers /\ op[c].step \in LateSteps /\ op[c].step # "idle"
  BY DEF Workers, ApplySuccess, ApplyFailure, Apply, LateSteps
<1>1. PICK k \in RowIds : k = op[c].key
  BY <1>0, WorkerKey
<1>2. CalmWorker(c) /\ WorkerOK(c)
  BY <1>0 DEF CalmInv, SyncInv
<1>3. mem[k] # Gone => mem[k] \in Rows
  BY <1>0, <1>1, WorkerKey
<1>4. CASE ApplySuccess(c)
  <2>1. /\ op[c].step = "applySuccess" /\ mem' = Merged(k, Succeeded(mem[k])) /\ db' = db /\ Become(c, Idle)
    BY <1>1, <1>4 DEF ApplySuccess, Apply
  <2>2. mem[k] # Gone => Succeeded(mem[k]) \in Rows /\ Succeeded(mem[k]).until = 0
    BY <1>3, SucceededIsRow
  <2>3. db[k] # Gone => db[k].until = 0
    BY <1>1, <1>2, <2>1 DEF CalmWorker
  <2> QED
    BY <1>0, <1>1, <2>1, <2>2, <2>3, CalmApply
<1>5. CASE ApplyFailure(c)
  <2> DEFINE snap == op[c].snap
             shut == mem[k].blocked \/ op[c].blocks
             r == [mem[k] EXCEPT !.invalid = snap.invalid, !.until = snap.until,
                                 !.failing = snap.failing, !.blocked = shut]
  <2>1. /\ op[c].step = "applyFailure" /\ mem' = Merged(k, r) /\ db' = db /\ Become(c, Idle)
    BY <1>1, <1>5 DEF ApplyFailure, Apply
  <2>2. snap \in Rows
    BY <1>2, <2>1 DEF WorkerOK
  <2>3. db[k] # Gone => snap.until = db[k].until
    BY <1>1, <1>2, <2>1 DEF CalmWorker
  <2>4. shut \in BOOLEAN
    OBVIOUS
  <2> HIDE DEF shut, snap
  <2>5. snap.invalid \in BOOLEAN /\ snap.failing \in BOOLEAN /\ snap.until \in 0..(SyncHorizon + Longest)
    BY <2>2 DEF Rows
  <2>6. mem[k] # Gone => r \in Rows
    BY <1>3, <2>4, <2>5 DEF Rows
  <2>7. mem[k] # Gone => r.until = snap.until
    BY <1>3 DEF Rows
  <2> HIDE DEF r
  <2> QED
    BY <1>0, <1>1, <2>1, <2>3, <2>6, <2>7, CalmApply
<1> QED
  BY <1>4, <1>5

\* The steps of the request, where nobody tests keys.
LEMMA RequestKeepsCalm ==
  ASSUME SyncInv, CalmInv, OneClient, NEW c \in Clients, RequestStep(c)
  PROVE  CalmInv'
BY CalmLease, CalmSecret, CalmGiveUp, CalmSuccess, CalmFailure, CalmLateResult DEF RequestStep

\* The administrator's steps, one key each.
LEMMA CalmImport ==
  ASSUME SyncInv, CalmInv, OneAdministrator, NEW a \in Admins, NEW k \in RowIds, Import(a, k)
  PROVE  CalmInv'
<1> DEFINE next == AtWith("upsertKey", k, FreshRow)
<1>1. k \notin created /\ db' = [db EXCEPT ![k] = FreshRow] /\ Become(a, next) /\ mem' = mem
  BY DEF Import
<1>2. FreshRow \in Rows /\ a \in Workers
  BY FreshIsRow DEF Workers
<1>3. next \in Ops /\ next.step = "upsertKey" /\ next.key = k /\ next.snap = FreshRow
  BY <1>2, AtWithIsOp DEF Steps
<1> HIDE DEF next
<1>4. op'[a] = next /\ \A v \in Workers \ {a} : op'[v] = op[v]
  BY <1>1, <1>2, <1>3, BecomeEffect
<1>5. db'[k] = FreshRow /\ \A d \in RowIds \ {k} : db'[d] = db[d]
  BY <1>1, SyncTypes
<1>6. mem[k] = Gone
  BY <1>1 DEF SyncInv, KeyOK
<1>7. \A v \in Workers : op[v].step \in RequestSteps => op[v].key # k
  BY <1>1, WorkerKey DEF RequestSteps
<1>8. CalmWorker(a)'
  BY <1>1, <1>3, <1>4, <1>5, <1>6 DEF CalmWorker, RequestSteps
<1>9. \A v \in Workers : op'[v].step \in RequestSteps => op'[v].key # k
  BY <1>3, <1>4, <1>7 DEF RequestSteps
<1>10. CalmKey(k)'
  BY <1>1, <1>6, <1>9 DEF CalmKey
<1> QED
  BY <1>1, <1>4, <1>5, <1>7, <1>8, <1>10, CalmAdminStep

\* Steps that leave every cooldown.
LEMMA CalmKeepsUntil ==
  ASSUME SyncInv, CalmInv, OneAdministrator, NEW a \in Admins, NEW k \in RowIds, NEW next \in Ops, Become(a, next),
         next.step \notin {"testing", "taken", "probing", "upsertKey"} \cup RequestSteps,
         \A d \in RowIds \ {k} : db'[d] = db[d] /\ mem'[d] = mem[d],
         mem'[k] = Gone <=> mem[k] = Gone, db'[k] = Gone <=> db[k] = Gone,
         mem[k] # Gone => mem'[k].until = mem[k].until, db[k] # Gone => db'[k].until = db[k].until
  PROVE  CalmInv'
<1>0. a \in Workers /\ a \notin Clients
  BY CastAssumption DEF Workers
<1>1. op'[a] = next /\ \A v \in Workers \ {a} : op'[v] = op[v]
  BY <1>0, BecomeEffect
<1>2. CalmWorker(a)'
  BY <1>1 DEF CalmWorker, RequestSteps
<1>3. op[a].step \notin RequestSteps /\ CalmKey(k)
  BY <1>0 DEF CalmInv, CalmWorker
<1>4. \A v \in Workers : op[v].step \in RequestSteps \/ op'[v].step \in RequestSteps => op'[v] = op[v]
  BY <1>1, <1>3
<1>5. CalmKey(k)'
  BY <1>3, <1>4, CalmKeyFrame
<1> QED
  BY <1>1, <1>2, <1>5, CalmAdminStep

\* The administrator commits a switch: cooldowns stay.
LEMMA CalmSwitch ==
  ASSUME SyncInv, CalmInv, OneAdministrator, NEW a \in Admins, NEW k \in RowIds, NEW enabled \in BOOLEAN,
         SetEnabled(a, k, enabled)
  PROVE  CalmInv'
<1> DEFINE r == [db[k] EXCEPT !.enabled = enabled]
           next == AtWith("setKeyEnabled", k, r)
<1>1. db[k] # Gone /\ db' = [db EXCEPT ![k] = r] /\ Become(a, next) /\ mem' = mem
  BY DEF SetEnabled
<1>2. db[k] \in Rows
  BY <1>1, SyncTypes
<1>3. r \in Rows /\ r.until = db[k].until
  BY <1>2 DEF Rows
<1> HIDE DEF r
<1>4. next \in Ops /\ next.step = "setKeyEnabled"
  BY <1>3, AtWithIsOp DEF Steps
<1> HIDE DEF next
<1>5. r # Gone /\ db'[k] = r /\ \A d \in RowIds \ {k} : db'[d] = db[d]
  BY <1>1, <1>3, SyncTypes, GoneAssumption
<1>6. next.step \notin {"testing", "taken", "probing", "upsertKey"} \cup RequestSteps
  BY <1>4 DEF RequestSteps
<1> QED
  BY <1>1, <1>3, <1>4, <1>5, <1>6, CalmKeepsUntil

\* The administrator deletes a row.
LEMMA CalmDelete ==
  ASSUME SyncInv, CalmInv, OneAdministrator, NEW a \in Admins, NEW k \in RowIds, Delete(a, k)
  PROVE  CalmInv'
<1> DEFINE next == At("removeKey", k)
<1>1. db' = [db EXCEPT ![k] = Gone] /\ Become(a, next) /\ mem' = mem /\ a \in Workers
  BY DEF Delete, Workers
<1>2. next \in Ops /\ next.step = "removeKey"
  BY AtIsOp DEF Steps
<1> HIDE DEF next
<1>3. op'[a] = next /\ \A v \in Workers \ {a} : op'[v] = op[v]
  BY <1>1, <1>2, BecomeEffect
<1>4. db'[k] = Gone /\ \A d \in RowIds \ {k} : db'[d] = db[d]
  BY <1>1, SyncTypes
<1>5. CalmWorker(a)'
  BY <1>2, <1>3 DEF CalmWorker, RequestSteps
<1>6. CalmKey(k)'
  BY <1>4 DEF CalmKey
<1> QED
  BY <1>1, <1>3, <1>4, <1>5, <1>6, CalmAdminStep

\* The administrator begins a test of a blocked model.
LEMMA CalmVerifying ==
  ASSUME SyncInv, CalmInv, OneAdministrator, NEW a \in Admins, NEW k \in RowIds, BeginOperation(a, k, "verifying")
  PROVE  CalmInv'
<1>1. Become(a, At("verifying", k)) /\ db' = db /\ mem' = mem
  BY DEF BeginOperation
<1>2. At("verifying", k) \in Ops /\ At("verifying", k).step = "verifying"
  BY AtIsOp DEF Steps
<1>3. At("verifying", k).step \notin {"testing", "taken", "probing", "upsertKey"} \cup RequestSteps
  BY <1>2 DEF RequestSteps
<1> QED
  BY <1>1, <1>2, <1>3, CalmKeepsUntil

\* The administrator goes home without a verdict.
LEMMA CalmNoVerdict ==
  ASSUME SyncInv, CalmInv, OneAdministrator, NEW a \in Admins, NoVerdict(a, "verifying")
  PROVE  CalmInv'
<1>0. a \in Workers /\ op[a].step = "verifying" /\ Become(a, Idle) /\ db' = db /\ mem' = mem
  BY DEF Workers, NoVerdict
<1>1. PICK k \in RowIds : k = op[a].key
  BY <1>0, WorkerKey
<1>2. Idle.step \notin {"testing", "taken", "probing", "upsertKey"} \cup RequestSteps
  BY IdleIsOp DEF RequestSteps
<1> QED
  BY <1>0, <1>2, IdleIsOp, CalmKeepsUntil

\* The administrator commits that a block is lifted.
LEMMA CalmUnblock ==
  ASSUME SyncInv, CalmInv, OneAdministrator, NEW a \in Admins, VerifyAndUnblock(a)
  PROVE  CalmInv'
<1>0. a \in Workers /\ op[a].step = "verifying"
  BY DEF Workers, VerifyAndUnblock
<1>1. PICK k \in RowIds : k = op[a].key
  BY <1>0, WorkerKey
<1> DEFINE r == [db[k] EXCEPT !.blocked = FALSE]
           next == At("setModelBlock", k)
<1>2. db' = (IF db[k] = Gone THEN db ELSE [db EXCEPT ![k] = r]) /\ Become(a, next) /\ mem' = mem
  BY <1>1 DEF VerifyAndUnblock
<1>3. db[k] # Gone => db[k] \in Rows
  BY SyncTypes
<1>4. db[k] # Gone => r \in Rows /\ r.until = db[k].until
  BY <1>3 DEF Rows
<1>5. next \in Ops /\ next.step = "setModelBlock"
  BY AtIsOp DEF Steps
<1>6. next.step \notin {"testing", "taken", "probing", "upsertKey"} \cup RequestSteps
  BY <1>5 DEF RequestSteps
<1> HIDE DEF next, r
<1>7. /\ \A d \in RowIds \ {k} : db'[d] = db[d]
      /\ db'[k] = Gone <=> db[k] = Gone
      /\ db[k] # Gone => db'[k].until = db[k].until
  BY <1>2, <1>4, SyncTypes, GoneAssumption
<1> QED
  BY <1>2, <1>5, <1>6, <1>7, CalmKeepsUntil

\* SetKeyEnabled and SetModelBlock leave the cooldown in the pool.
LEMMA CalmMerge ==
  ASSUME SyncInv, CalmInv, OneAdministrator, NEW a \in Admins, SetKeyEnabled(a) \/ SetModelBlock(a)
  PROVE  CalmInv'
<1>0. /\ a \in Workers /\ op[a].step \in {"setKeyEnabled", "setModelBlock"} /\ op[a].step # "idle"
      /\ Become(a, Idle) /\ db' = db
  BY DEF Workers, SetKeyEnabled, SetModelBlock, Apply
<1>1. PICK k \in RowIds : k = op[a].key
  BY <1>0, WorkerKey
<1>2. mem[k] # Gone => mem[k] \in Rows
  BY SyncTypes
<1>3. PICK r : mem' = Merged(k, r) /\ (mem[k] # Gone => r \in Rows /\ r.until = mem[k].until)
  <2>1. CASE SetKeyEnabled(a)
    <3> DEFINE snap == op[a].snap
               r == [mem[k] EXCEPT !.enabled = snap.enabled]
    <3>1. mem' = Merged(k, r) /\ op[a].step = "setKeyEnabled"
      BY <1>1, <2>1 DEF SetKeyEnabled, Apply
    <3>2. snap \in Rows
      BY <1>0, <3>1 DEF SyncInv, WorkerOK
    <3> HIDE DEF snap
    <3>3. snap.enabled \in BOOLEAN
      BY <3>2 DEF Rows
    <3>4. mem[k] # Gone => r \in Rows
      BY <1>2, <3>3 DEF Rows
    <3>5. mem[k] # Gone => r.until = mem[k].until
      BY <1>2 DEF Rows
    <3> HIDE DEF r
    <3> QED
      BY <3>1, <3>4, <3>5
  <2>2. CASE SetModelBlock(a)
    <3> DEFINE r == [mem[k] EXCEPT !.blocked = FALSE]
    <3>1. mem' = Merged(k, r)
      BY <1>1, <2>2 DEF SetModelBlock, Apply
    <3>2. mem[k] # Gone => r \in Rows /\ r.until = mem[k].until
      BY <1>2 DEF Rows
    <3> HIDE DEF r
    <3> QED
      BY <3>1, <3>2
  <2> QED
    BY <2>1, <2>2
<1>4. /\ \A d \in RowIds \ {k} : mem'[d] = mem[d]
      /\ mem[k] = Gone => mem'[k] = Gone
      /\ mem[k] # Gone => mem'[k] = r
  BY <1>3, SyncTypes DEF Merged
<1>5. mem'[k] = Gone <=> mem[k] = Gone
  BY <1>3, <1>4, GoneAssumption
<1>6. Idle.step \notin {"testing", "taken", "probing", "upsertKey"} \cup RequestSteps
  BY IdleIsOp DEF RequestSteps
<1> QED
  BY <1>0, <1>3, <1>4, <1>5, <1>6, IdleIsOp, CalmKeepsUntil

\* RemoveKey takes away what the table no longer has.
LEMMA CalmRemove ==
  ASSUME SyncInv, CalmInv, OneAdministrator, NEW a \in Admins, RemoveKey(a)
  PROVE  CalmInv'
<1>0. a \in Workers /\ op[a].step = "removeKey" /\ Become(a, Idle) /\ db' = db
  BY DEF Workers, RemoveKey, Apply
<1>1. PICK k \in RowIds : k = op[a].key
  BY <1>0, WorkerKey
<1>2. db[k] = Gone
  BY <1>0, <1>1 DEF SyncInv, WorkerOK
<1>3. mem' = [mem EXCEPT ![k] = Gone]
  BY <1>1 DEF RemoveKey, Apply
<1>4. \A d \in RowIds \ {k} : mem'[d] = mem[d]
  BY <1>3, SyncTypes
<1>5. op'[a] = Idle /\ \A v \in Workers \ {a} : op'[v] = op[v]
  BY <1>0, BecomeEffect, IdleIsOp
<1>6. CalmWorker(a)'
  BY <1>5, IdleIsOp DEF CalmWorker, RequestSteps
<1>7. CalmKey(k)'
  BY <1>0, <1>2 DEF CalmKey
<1> QED
  BY <1>0, <1>2, <1>4, <1>5, <1>6, <1>7, CalmAdminStep

\* UpsertKey brings a key the pool does not have.
LEMMA CalmInsert ==
  ASSUME SyncInv, CalmInv, OneAdministrator, NEW a \in Admins, UpsertKey(a)
  PROVE  CalmInv'
<1>0. a \in Workers /\ op[a].step = "upsertKey" /\ Become(a, Idle) /\ db' = db
  BY DEF Workers, UpsertKey, Apply
<1>1. PICK k \in RowIds : k = op[a].key
  BY <1>0, WorkerKey
<1> DEFINE snap == op[a].snap
           shut == mem[k] # Gone /\ mem[k].blocked
           r == [snap EXCEPT !.blocked = shut]
<1>2. snap \in Rows /\ db[k] # Gone
  BY <1>0, <1>1 DEF SyncInv, WorkerOK
<1>3. snap.until = db[k].until
  BY <1>0, <1>1 DEF CalmInv, CalmWorker
<1>4. mem' = [mem EXCEPT ![k] = r]
  BY <1>1 DEF UpsertKey, Apply
<1>5. shut \in BOOLEAN
  OBVIOUS
<1> HIDE DEF snap, shut
<1>6. r \in Rows
  BY <1>2, <1>5 DEF Rows
<1>7. r.until = snap.until
  BY <1>2 DEF Rows
<1> HIDE DEF r
<1>8. r # Gone /\ mem'[k] = r /\ \A d \in RowIds \ {k} : mem'[d] = mem[d]
  BY <1>4, <1>6, SyncTypes, GoneAssumption
<1>9. op'[a] = Idle /\ \A v \in Workers \ {a} : op'[v] = op[v]
  BY <1>0, BecomeEffect, IdleIsOp
<1>10. CalmWorker(a)'
  BY <1>9, IdleIsOp DEF CalmWorker, RequestSteps
<1>11. CalmKey(k)'
  BY <1>0, <1>3, <1>7, <1>8 DEF CalmKey
<1> QED
  BY <1>0, <1>2, <1>8, <1>9, <1>10, <1>11, CalmAdminStep

\* Nobody begins a test, so nobody is in the middle of one.
LEMMA AdminKeepsCalm ==
  ASSUME SyncInv, CalmInv, Calm', OneAdministrator, NEW a \in Admins, AdminStep(a)
  PROVE  CalmInv'
<1>0. a \in Workers /\ op[a].step # "testing" /\ op'[a].step # "testing"
  BY DEF Workers, CalmInv, CalmWorker, Calm
<1>1. ~TestStep(a)
  <2>1. ASSUME NEW k \in RowIds, BeginOperation(a, k, "testing") PROVE FALSE
    <3>1. At("testing", k) \in Ops /\ At("testing", k).step = "testing" /\ Become(a, At("testing", k))
      BY <2>1, AtIsOp DEF Steps, BeginOperation
    <3> QED
      BY <1>0, <3>1, BecomeEffect
  <2> QED
    BY <1>0, <2>1 DEF TestStep, MarkKeySuccess, MarkKeyFailure, RowMissing, NoVerdict
<1>2. CASE ImportStep(a)
  BY <1>2, CalmImport DEF ImportStep
<1>3. CASE UpsertKey(a)
  BY <1>3, CalmInsert
<1>4. CASE EnableStep(a)
  BY <1>4, CalmSwitch, CalmMerge DEF EnableStep
<1>5. CASE DeleteStep(a)
  BY <1>5, CalmDelete, CalmRemove DEF DeleteStep
<1>6. CASE UnblockStep(a)
  BY <1>6, CalmVerifying, CalmUnblock, CalmNoVerdict, CalmMerge DEF UnblockStep
<1> QED
  BY <1>1, <1>2, <1>3, <1>4, <1>5, <1>6 DEF AdminStep

\* Without tests no prober has anything to do.
LEMMA NobodyProbes ==
  ASSUME SyncInv, CalmInv, Calm', NEW p \in Probers, ProbeStep(p)
  PROVE  FALSE
<1>0. p \in Workers /\ p \notin Clients
  BY CastAssumption DEF Workers
<1>1. op[p].step \notin {"taken", "probing", "applySuccess"} /\ op'[p].step # "taken"
  BY <1>0 DEF CalmInv, CalmWorker, Calm, RequestSteps
<1>2. ASSUME TakeCandidate(p) PROVE FALSE
  <2>1. PICK k \in sweep : Become(p, At("taken", k))
    BY <1>2 DEF TakeCandidate
  <2>2. At("taken", k) \in Ops /\ At("taken", k).step = "taken"
    BY SyncTypes, AtIsOp DEF Steps
  <2> QED
    BY <1>0, <1>1, <2>1, <2>2, BecomeEffect
<1> QED
  BY <1>1, <1>2 DEF ProbeStep, WithSecret, RowMissing, MarkKeySuccess, NoVerdict, ApplySuccess, Apply

\* Every step keeps the cooldowns, where nobody tests keys.
LEMMA CalmStepInv ==
  ASSUME SyncInv, CalmInv, Calm', OneAdministrator, OneClient, [SyncNext]_syncVars
  PROVE  CalmInv'
<1>1. CASE \E r \in Clients : RequestStep(r)
  BY <1>1, RequestKeepsCalm
<1>2. CASE \E a \in Admins : AdminStep(a)
  BY <1>2, AdminKeepsCalm
<1>3. CASE \E p \in Probers : ProbeStep(p)
  BY <1>3, NobodyProbes
<1>4. CASE Sweep \/ SyncTick \/ UNCHANGED syncVars
  <2>1. UNCHANGED <<db, mem, op>>
    BY <1>4 DEF Sweep, SyncTick, syncVars
  <2> QED
    BY <2>1 DEF CalmInv, CalmWorker, CalmKey, Owes
<1>5. CASE LoadSnapshot
  <2>1. mem' = db /\ db' = db /\ \A w \in Workers : op'[w] = Idle
    BY <1>5 DEF LoadSnapshot
  <2>2. ASSUME NEW w \in Workers PROVE CalmWorker(w)'
    BY <2>1, IdleIsOp DEF CalmWorker, RequestSteps
  <2>3. ASSUME NEW k \in RowIds PROVE CalmKey(k)'
    BY <2>1 DEF CalmKey
  <2> QED
    BY <2>2, <2>3 DEF CalmInv
<1> QED
  BY <1>1, <1>2, <1>3, <1>4, <1>5 DEF SyncNext

(***************************************************************************)
(* Theorems.                                                               *)
(***************************************************************************)
LEMMA InvImplies ==
  ASSUME SyncInv
  PROVE  SyncTypeOK /\ SameKeys /\ SwitchKept
BY DEF SyncInv, KeyOK, SameKeys, SwitchKept

\* A cooldown of the table that the pool lacks is about to be applied.
LEMMA CalmImplies ==
  ASSUME SyncInv, CalmInv
  PROVE  CooldownKept
<1> SUFFICES ASSUME NEW k \in RowIds, mem[k] # Gone, db[k] # Gone, Cooling(db[k]), ~Cooling(mem[k])
             PROVE  Owes(k, {"applyFailure"})
  BY DEF CooldownKept
<1>1. CalmKey(k)
  BY DEF CalmInv
<1>2. mem[k].until # db[k].until
  BY DEF Cooling
<1>3. PICK w \in Workers : op[w].key = k /\ op[w].step \in LateSteps
  BY <1>1, <1>2 DEF CalmKey, Owes
<1>4. op[w].step # "applySuccess"
  <2> SUFFICES ASSUME op[w].step = "applySuccess" PROVE FALSE
    OBVIOUS
  <2>1. db[k].until = 0
    BY <1>3 DEF CalmInv, CalmWorker
  <2>2. instant \in Nat
    BY SyncTypes, BoundsAssumption
  <2> QED
    BY <2>1, <2>2 DEF Cooling
<1> QED
  BY <1>3, <1>4 DEF LateSteps, Owes

\* The table and the pool, however many requests and probes: with one administrator
\* SyncInv is an invariant of KeySync on its own, whatever the clock does.
THEOREM SyncInductive ==
  ASSUME OneAdministrator
  PROVE  SyncSpec => []SyncInv
<1>1. SyncInit => SyncInv
  BY SyncInitInv
<1>2. SyncInv /\ [SyncNext]_syncVars => SyncInv'
  BY SyncStepInv
<1> QED
  BY <1>1, <1>2, PTL DEF SyncSpec

\* With one administrator, whatever requests, health checks, restarts and the clock do
\* between a commit and its second half (router/attempt.go, nvidia_keys.go,
\* pool.go:156-290), the pool lacks or keeps a key, or has another switch than the table,
\* only while that administrator is about to bring it: late results never resurrect a key
\* or roll a switch back.
THEOREM KeysFollowTable ==
  ASSUME OneAdministrator
  PROVE  SyncSpec => [](SyncTypeOK /\ SameKeys /\ SwitchKept)
<1>1. SyncInv => SyncTypeOK /\ SameKeys /\ SwitchKept
  BY InvImplies
<1> QED
  BY <1>1, SyncInductive, PTL

\* The invariant of the keys run.
THEOREM KeysInductive ==
  ASSUME OneAdministrator, OneClient
  PROVE  Spec => []KeysInv
<1>1. ASSUME Init PROVE KeysInv
  <2>1. SyncInit
    BY <1>1 DEF Init
  <2>2. SyncInv
    BY <2>1, SyncInitInv
  <2>3. ASSUME NEW w \in Workers PROVE CalmWorker(w)
    BY <2>1, IdleIsOp DEF SyncInit, CalmWorker, RequestSteps
  <2>4. ASSUME NEW k \in RowIds PROVE CalmKey(k)
    BY <2>1 DEF SyncInit, CalmKey
  <2> QED
    BY <2>2, <2>3, <2>4 DEF KeysInv, CalmInv
<1>2. ASSUME KeysInv, [Next]_<<ladderVars, matcherVars, attemptVars, syncVars, part>> PROVE KeysInv'
  <2>1. part' = part /\ [SyncNext]_syncVars /\ (UNCHANGED syncVars \/ WithinCast')
    BY <1>2 DEF Next, LadderMoves, MatcherMoves, AttemptMoves, SyncMoves
  <2>2. SyncInv'
    BY <1>2, <2>1, SyncStepInv DEF KeysInv
  <2>3. ASSUME part' = "no tests" PROVE CalmInv'
    <3>1. SyncInv /\ CalmInv
      BY <1>2, <2>1, <2>3 DEF KeysInv
    <3>2. CASE UNCHANGED syncVars
      <4>1. UNCHANGED <<db, mem, op>>
        BY <3>2 DEF syncVars
      <4> QED
        BY <3>1, <4>1 DEF CalmInv, CalmWorker, CalmKey, Owes
    <3>3. CASE WithinCast'
      <4>1. Calm'
        BY <2>3, <3>3 DEF WithinCast, Calm
      <4> QED
        BY <2>1, <3>1, <4>1, CalmStepInv
    <3> QED
      BY <2>1, <3>2, <3>3
  <2> QED
    BY <2>2, <2>3 DEF KeysInv
<1> QED
  BY <1>1, <1>2, PTL DEF Spec

\* With one administrator the pool has the keys and the switches of the table, and where
\* one request at a time uses the keys and nobody tests or probes them, the cooldowns too.
THEOREM PoolFollows ==
  ASSUME OneAdministrator, OneClient
  PROVE  Spec => []PoolFollowsTable
<1>1. KeysInv => PoolFollowsTable
  BY InvImplies, CalmImplies DEF KeysInv, PoolFollowsTable, TogglesKeepCooldown
<1> QED
  BY <1>1, KeysInductive, PTL

(***************************************************************************)
(* The history of one key.                                                 *)
(***************************************************************************)
LadderSpec == LadderInit /\ [][LadderNext]_ladderVars

\* The longest a rung can be that was drawn before the key came to a level.
LongestRung(level) ==
  IF level = 0 THEN 0
  ELSE IF level = maximumCooldownLevel THEN maximumRateLimitCooldown
  ELSE 6 * Second * 2 ^ (level - 1)

LadderInv == LadderTypeOK /\ rung <= LongestRung(row.level)

\* What Classify may say: what the row's rules rely on.
Blame(f) ==
  /\ f.disableKey => f.status \in {401, 403}
  /\ f.retryable => f.status = 429 \/ f.status \in 500..599 \/ f.blockModel
  /\ f.firstByte => f.status = 504 /\ ~f.retryable /\ ~f.disableKey /\ ~f.blockModel
  /\ f.blockModel => f.retryable
  /\ f.status = 401 => f.disableKey
  /\ f.retryAfter >= 0

Plain(status, scope) ==
  [status |-> status, scope |-> scope, retryable |-> FALSE, retryAfter |-> 0, retryAfterValid |-> FALSE,
   disableKey |-> FALSE, blockModel |-> FALSE, firstByte |-> FALSE]
Retried(status, scope) ==
  [status |-> status, scope |-> scope, retryable |-> TRUE, retryAfter |-> 0, retryAfterValid |-> FALSE,
   disableKey |-> FALSE, blockModel |-> FALSE, firstByte |-> FALSE]

\* A fault that is neither retried nor held against a key.
LEMMA PlainFault ==
  ASSUME NEW status \in Int, NEW scope \in Scopes, status # 401
  PROVE  Plain(status, scope) \in Faults /\ Blame(Plain(status, scope))
BY DEF Plain, Faults, Blame

\* A fault that is retried on another key is a rate limit or the server's.
LEMMA RetriedFault ==
  ASSUME NEW status \in Int, NEW scope \in Scopes, status = 429 \/ status \in 500..599
  PROVE  Retried(status, scope) \in Faults /\ Blame(Retried(status, scope))
BY DEF Retried, Faults, Blame

\* The statuses that may disable a key.
CredentialStatuses == {401, 403}

\* A 401, or a 403 with credential wording, disables the key.
LEMMA DisablingFault ==
  ASSUME NEW status \in CredentialStatuses
  PROVE  credentialFault(status, TRUE) \in Faults /\ Blame(credentialFault(status, TRUE))
<1> DEFINE plain == FaultOf(status, "credential", FALSE)
           yes == TRUE
           f == [plain EXCEPT !.disableKey = yes]
<1>1. plain \in Faults /\ plain.status = status /\ plain.retryAfter = 0
  BY DEF FaultOf, Faults, Scopes, CredentialStatuses
<1>2. ~plain.retryable /\ ~plain.firstByte /\ ~plain.blockModel
  BY DEF FaultOf
<1>3. yes \in BOOLEAN /\ credentialFault(status, TRUE) = f
  BY DEF credentialFault
<1> HIDE DEF plain
<1>8. f.disableKey
  BY <1>1 DEF Faults
<1> HIDE DEF yes
<1>4. f \in Faults
  BY <1>1, <1>3 DEF Faults
<1>5. f.status = status /\ f.retryAfter = 0
  BY <1>1 DEF Faults
<1>6. ~f.retryable /\ ~f.firstByte /\ ~f.blockModel
  BY <1>1, <1>2 DEF Faults
<1> HIDE DEF f
<1>7. Blame(f)
  BY <1>5, <1>6, <1>8 DEF Blame, CredentialStatuses
<1> QED
  BY <1>3, <1>4, <1>7

\* Any other 403 blocks the model on the key.
LEMMA BlockingFault ==
  ModelNotAvailable(403) \in Faults /\ Blame(ModelNotAvailable(403))
<1> DEFINE plain == FaultOf(403, "model_credential", TRUE)
           yes == TRUE
           f == [plain EXCEPT !.blockModel = yes]
<1>1. plain \in Faults /\ plain.status = 403 /\ plain.retryAfter = 0
  BY DEF FaultOf, Faults, Scopes
<1>2. ~plain.disableKey /\ ~plain.firstByte /\ plain.retryable
  BY DEF FaultOf
<1>3. yes \in BOOLEAN /\ ModelNotAvailable(403) = f
  BY DEF ModelNotAvailable
<1> HIDE DEF plain
<1>4. f.blockModel
  BY <1>1 DEF Faults
<1> HIDE DEF yes
<1>5. f \in Faults
  BY <1>1, <1>3 DEF Faults
<1>6. f.status = 403 /\ f.retryAfter = 0
  BY <1>1 DEF Faults
<1>7. ~f.disableKey /\ ~f.firstByte /\ f.retryable
  BY <1>1, <1>2 DEF Faults
<1> HIDE DEF f
<1>8. Blame(f)
  BY <1>4, <1>6, <1>7 DEF Blame
<1> QED
  BY <1>3, <1>5, <1>8

\* ParseRetryAfter never returns a negative duration.
LEMMA HintIsSound ==
  ASSUME NEW response \in Responses
  PROVE  LET hint == ParseRetryAfter(response.header)
         IN  hint.after \in Int /\ hint.after >= 0 /\ hint.valid \in BOOLEAN
<1> DEFINE header == response.header
           value == header.value
<1>1. /\ header.kind \in {"seconds", "date", "absent", "malformed"} /\ value \in Int
      /\ header.kind = "seconds" => value >= 0
  BY ResponsesAssumption
<1> HIDE DEF value
<1>2. CASE header.kind = "seconds"
  <2>1. ParseRetryAfter(header) = [after |-> value * Second, valid |-> TRUE]
    BY <1>2 DEF ParseRetryAfter, value
  <2>2. value * Second \in Int /\ value * Second >= 0
    BY <1>1, <1>2 DEF Second
  <2> QED
    BY <2>1, <2>2
<1>3. CASE header.kind = "date"
  <2>1. ParseRetryAfter(header) = [after |-> IF value < 0 THEN 0 ELSE value, valid |-> TRUE]
    BY <1>3 DEF ParseRetryAfter, value
  <2> QED
    BY <1>1, <2>1
<1>4. CASE header.kind \in {"absent", "malformed"}
  <2>1. ParseRetryAfter(header) = [after |-> 0, valid |-> FALSE]
    BY <1>4 DEF ParseRetryAfter
  <2> QED
    BY <2>1
<1> QED
  BY <1>1, <1>2, <1>3, <1>4

\* A hint does not change whom a fault blames.
LEMMA HintedIsBlame ==
  ASSUME NEW response \in Responses, NEW f \in Faults, Blame(f)
  PROVE  Hinted(f, response.header) \in Faults /\ Blame(Hinted(f, response.header))
<1> DEFINE after == ParseRetryAfter(response.header).after
           valid == ParseRetryAfter(response.header).valid
           hinted == [f EXCEPT !.retryAfter = after, !.retryAfterValid = valid]
<1>1. after \in Int /\ after >= 0 /\ valid \in BOOLEAN
  BY HintIsSound
<1>2. Hinted(f, response.header) = hinted
  BY DEF Hinted
<1> HIDE DEF after, valid
<1>3. hinted \in Faults
  BY <1>1 DEF Faults
<1>4. /\ hinted.status = f.status /\ hinted.retryable = f.retryable /\ hinted.disableKey = f.disableKey
      /\ hinted.blockModel = f.blockModel /\ hinted.firstByte = f.firstByte
  BY DEF Faults
<1>5. hinted.retryAfter = after
  BY DEF Faults
<1> HIDE DEF hinted
<1> QED
  BY <1>1, <1>2, <1>3, <1>4, <1>5 DEF Blame

\* Classify picks one of three plain faults where no other rule applies. The
\* outcomes of the other rules play no part and are names here.
LEMMA PlainRules ==
  ASSUME NEW status \in Int, NEW credential \in BOOLEAN, NEW models \in BOOLEAN,
         NEW a, NEW b, NEW c, NEW d, NEW e, NEW g, NEW h, NEW i, NEW f,
         f = CASE status = 401 -> a
               [] status = 403 /\ (credential \/ models) -> a
               [] status = 403 /\ ~credential /\ ~models -> b
               [] status \in 400..499 \ {401, 403} /\ credential -> c
               [] status = 429 /\ ~credential -> d
               [] status \in 400..499 \ {401, 403, 429} /\ ~credential -> e
               [] status \in Overloaded -> g
               [] status \in 500..599 \ Overloaded -> h
               [] status \notin 400..599 -> i
  PROVE  /\ status \in 400..499 \ {401, 403} /\ credential => f = c
         /\ status \in 400..499 \ {401, 403, 429} /\ ~credential => f = e
         /\ status \in 500..599 \ Overloaded => f = h
<1>1. ASSUME status \in 400..499 \ {401, 403}, credential PROVE f = c
  <2>1. /\ status # 401 /\ status # 403 /\ status \in 400..599
        /\ status \notin Overloaded /\ status \notin 500..599 \ Overloaded
    BY <1>1 DEF Overloaded
  <2> QED
    BY <1>1, <2>1
<1>2. ASSUME status \in 400..499 \ {401, 403, 429}, ~credential PROVE f = e
  <2>1. /\ status # 401 /\ status # 403 /\ status # 429 /\ status \in 400..599
        /\ status \notin Overloaded /\ status \notin 500..599 \ Overloaded
    BY <1>2 DEF Overloaded
  <2> QED
    BY <1>2, <2>1
<1>3. ASSUME status \in 500..599 \ Overloaded PROVE f = h
  <2>1. /\ status # 401 /\ status # 403 /\ status # 429 /\ status \in 400..599
        /\ status \notin 400..499 /\ status \notin Overloaded
    BY <1>3 DEF Overloaded
  <2> QED
    BY <1>3, <2>1
<1> QED
  BY <1>1, <1>2, <1>3

\* Classify of a response, case by case.
LEMMA ResponseIsBlame ==
  ASSUME NEW response \in Responses, NEW models \in BOOLEAN
  PROVE  ClassifyResponse(response, models) \in Faults /\ Blame(ClassifyResponse(response, models))
<1> DEFINE status == response.status
           credential == response.credential
           f == ClassifyResponse(response, models)
<1>0. status \in Int /\ credential \in BOOLEAN
  BY ResponsesAssumption
<1>s. {"request", "transient_credential", "upstream_global"} \subseteq Scopes
  BY DEF Scopes
<1>p. /\ status \in 400..499 \ {401, 403} /\ credential => f = credentialFault(status, FALSE)
      /\ status \in 400..499 \ {401, 403, 429} /\ ~credential => f = requestFault(status)
      /\ status \in 500..599 \ Overloaded => f = upstreamFault(status, FALSE)
  <2> DEFINE a == credentialFault(status, TRUE)
             b == ModelNotAvailable(status)
             c == credentialFault(status, FALSE)
             d == Hinted(FaultOf(status, "transient_credential", TRUE), response.header)
             e == requestFault(status)
             g == IF ParseRetryAfter(response.header).after > 0
                  THEN Hinted(upstreamFault(status, TRUE), response.header)
                  ELSE upstreamFault(status, TRUE)
             h == upstreamFault(status, FALSE)
             i == upstreamFault(502, FALSE)
  <2>1. f = CASE status = 401 -> a
              [] status = 403 /\ (credential \/ models) -> a
              [] status = 403 /\ ~credential /\ ~models -> b
              [] status \in 400..499 \ {401, 403} /\ credential -> c
              [] status = 429 /\ ~credential -> d
              [] status \in 400..499 \ {401, 403, 429} /\ ~credential -> e
              [] status \in Overloaded -> g
              [] status \in 500..599 \ Overloaded -> h
              [] status \notin 400..599 -> i
    BY ZenonT(60) DEF ClassifyResponse
  <2>2. /\ status \in 400..499 \ {401, 403} /\ credential => f = c
        /\ status \in 400..499 \ {401, 403, 429} /\ ~credential => f = e
        /\ status \in 500..599 \ Overloaded => f = h
    <3> HIDE DEF a, b, c, d, e, g, h, i, f, status, credential
    <3> QED
      BY <1>0, <2>1, PlainRules, SMTT(60)
  <2> QED
    BY <2>2, Zenon
<1>1. CASE status = 401 \/ (status = 403 /\ (credential \/ models))
  <2>1. ASSUME status = 401 PROVE f = credentialFault(status, TRUE)
    BY <2>1 DEF ClassifyResponse, Overloaded
  <2>2. ASSUME status = 403, credential PROVE f = credentialFault(status, TRUE)
    BY <2>2 DEF ClassifyResponse, Overloaded
  <2>3. ASSUME status = 403, models PROVE f = credentialFault(status, TRUE)
    BY <2>3 DEF ClassifyResponse, Overloaded
  <2>4. status \in CredentialStatuses
    BY <1>1 DEF CredentialStatuses
  <2> HIDE DEF f, status
  <2>5. f = credentialFault(status, TRUE)
    BY ZenonT(60), <1>1, <2>1, <2>2, <2>3
  <2>6. f \in Faults /\ Blame(f)
    BY <2>4, <2>5, DisablingFault
  <2> QED
    BY <2>6 DEF f
<1>2. CASE status = 403 /\ ~credential /\ ~models
  <2>1. f = ModelNotAvailable(403)
    BY <1>2 DEF ClassifyResponse, Overloaded, credentialFault, ModelNotAvailable
  <2> HIDE DEF f
  <2>2. f \in Faults /\ Blame(f)
    BY <2>1, BlockingFault
  <2> QED
    BY <2>2 DEF f
<1>3. CASE status \in 400..499 \ {401, 403} /\ credential
  <2>1. f = credentialFault(status, FALSE)
    BY <1>3, <1>p, ZenonT(60)
  <2>2. credentialFault(status, FALSE) = Plain(status, "request")
    BY DEF credentialFault, FaultOf, Plain
  <2>3. status # 401
    BY <1>3
  <2>4. Plain(status, "request") \in Faults /\ Blame(Plain(status, "request"))
    BY <1>0, <1>s, <2>3, PlainFault
  <2> QED
    BY <2>1, <2>2, <2>4, Zenon
<1>4. CASE status = 429 /\ ~credential
  <2>1. f = Hinted(Retried(status, "transient_credential"), response.header)
    BY <1>4 DEF ClassifyResponse, Overloaded, FaultOf, Retried
  <2>2. /\ Retried(status, "transient_credential") \in Faults
        /\ Blame(Retried(status, "transient_credential"))
    BY <1>0, <1>4, <1>s, RetriedFault
  <2> QED
    BY <2>1, <2>2, HintedIsBlame
<1>5. CASE status \in 400..499 \ {401, 403, 429} /\ ~credential
  <2>1. f = requestFault(status)
    BY <1>5, <1>p, ZenonT(60)
  <2>2. requestFault(status) = Plain(status, "request")
    BY DEF requestFault, FaultOf, Plain
  <2>3. status # 401
    BY <1>5
  <2>4. Plain(status, "request") \in Faults /\ Blame(Plain(status, "request"))
    BY <1>0, <1>s, <2>3, PlainFault
  <2> QED
    BY <2>1, <2>2, <2>4, Zenon
<1>6. CASE status \in Overloaded
  <2> DEFINE plain == Retried(status, "upstream_global")
  <2>1. f = plain \/ f = Hinted(plain, response.header)
    BY <1>6 DEF ClassifyResponse, Overloaded, upstreamFault, FaultOf, Retried
  <2>2. plain \in Faults /\ Blame(plain)
    BY <1>0, <1>6, <1>s, RetriedFault DEF Overloaded
  <2> HIDE DEF plain, f
  <2> QED
    BY <2>1, <2>2, HintedIsBlame DEF f
<1>7. CASE status \in 500..599 \ Overloaded
  <2>1. f = upstreamFault(status, FALSE)
    BY <1>7, <1>p, ZenonT(60)
  <2>2. upstreamFault(status, FALSE) = Plain(status, "upstream_global")
    BY DEF upstreamFault, FaultOf, Plain
  <2>3. status # 401
    BY <1>7
  <2>4. Plain(status, "upstream_global") \in Faults /\ Blame(Plain(status, "upstream_global"))
    BY <1>0, <1>s, <2>3, PlainFault
  <2> QED
    BY <2>1, <2>2, <2>4, Zenon
<1>8. CASE status \notin 400..599
  <2>1. f = Plain(502, "upstream_global")
    BY <1>0, <1>8 DEF ClassifyResponse, Overloaded, upstreamFault, FaultOf, Plain
  <2> QED
    BY <1>s, <2>1, PlainFault
<1> QED
  BY <1>0, <1>1, <1>2, <1>3, <1>4, <1>5, <1>6, <1>7, <1>8

\* Classify of an error without a response, case by case.
LEMMA RequestErrorIsBlame ==
  ASSUME NEW error \in RequestErrors
  PROVE  classifyRequestError(error) \in Faults /\ Blame(classifyRequestError(error))
<1>s. "request" \in Scopes /\ "upstream_global" \in Scopes
  BY DEF Scopes
<1>1. CASE error = "first_byte_timeout"
  <2>1. classifyRequestError(error) =
          [status |-> 504, scope |-> "upstream_global", retryable |-> FALSE, retryAfter |-> 0,
           retryAfterValid |-> FALSE, disableKey |-> FALSE, blockModel |-> FALSE, firstByte |-> TRUE]
    BY <1>1, ZenonT(90) DEF classifyRequestError, upstreamFault, FaultOf
  <2> QED
    BY <1>s, <2>1 DEF Faults, Blame
<1>2. CASE error # "first_byte_timeout"
  <2>1. \/ classifyRequestError(error) = Plain(499, "request")
        \/ classifyRequestError(error) = Retried(504, "upstream_global")
        \/ classifyRequestError(error) = Retried(502, "upstream_global")
        \/ classifyRequestError(error) = Plain(502, "upstream_global")
    BY <1>2 DEF classifyRequestError, requestFault, upstreamFault, FaultOf, Plain, Retried, RequestErrors
  <2> QED
    BY <1>s, <2>1, PlainFault, RetriedFault
<1> QED
  BY <1>1, <1>2

\* Whatever befalls a call or a test is a fault that blames justly.
LEMMA EveryFailureIsBlame ==
  ASSUME NEW f \in Failures \cup TestFailures
  PROVE  f \in Faults /\ Blame(f)
<1>1. Protocol \in Faults /\ Blame(Protocol)
  <2>1. Protocol = Retried(502, "upstream_global")
    BY DEF Protocol, FaultOf, Retried
  <2> QED
    BY <2>1, RetriedFault DEF Scopes
<1>2. EmptyResponse \in Faults /\ Blame(EmptyResponse)
  <2> DEFINE plain == Retried(429, "transient_credential")
             hint == Second
             hinted == [plain EXCEPT !.retryAfter = hint]
  <2>1. plain \in Faults /\ Blame(plain)
    BY RetriedFault DEF Scopes
  <2>2. plain = FaultOf(429, "transient_credential", TRUE)
    BY DEF FaultOf, Retried
  <2>3. EmptyResponse = hinted
    BY <2>2 DEF EmptyResponse
  <2>7. hint \in Int /\ hint >= 0
    BY DEF Second
  <2> HIDE DEF plain, hint
  <2>4. hinted \in Faults
    BY <2>1, <2>7 DEF Faults
  <2>5. /\ hinted.status = plain.status /\ hinted.retryable = plain.retryable /\ hinted.disableKey = plain.disableKey
        /\ hinted.blockModel = plain.blockModel /\ hinted.firstByte = plain.firstByte
    BY <2>1 DEF Faults
  <2>6. hinted.retryAfter = hint
    BY <2>1 DEF Faults
  <2> HIDE DEF hinted
  <2> QED
    BY <2>1, <2>3, <2>4, <2>5, <2>6, <2>7 DEF Blame
<1>3. ASSUME NEW response \in Responses PROVE
        /\ ClassifyResponse(response, FALSE) \in Faults /\ Blame(ClassifyResponse(response, FALSE))
        /\ ClassifyResponse(response, TRUE) \in Faults /\ Blame(ClassifyResponse(response, TRUE))
  BY ResponseIsBlame
<1> QED
  BY <1>1, <1>2, <1>3, RequestErrorIsBlame DEF Failures, TestFailures

\* The rungs: each is longer than all below it, whatever jitter they drew.
LEMMA RungBounds ==
  ASSUME NEW level \in 0..maximumCooldownLevel, NEW tenths \in JitterTenths
  PROVE  LET drawn == applyJitter(rateLimitCooldown(level), tenths)
         IN  /\ drawn \in Int /\ 4000 <= drawn /\ drawn <= maximumRateLimitCooldown
             /\ drawn <= LongestRung(nextCooldownLevel(level))
             /\ LongestRung(level) <= LongestRung(nextCooldownLevel(level))
             /\ level \in 1..(maximumCooldownLevel - 1) => drawn > LongestRung(level)
             /\ nextCooldownLevel(level) \in 0..maximumCooldownLevel
             /\ LongestRung(level) \in Int /\ LongestRung(level) <= maximumRateLimitCooldown
<1>0. tenths \in 8..12 /\ level \in 0..6
  BY DEF JitterTenths, maximumCooldownLevel
<1>p. 2 ^ 0 = 1 /\ 2 ^ 1 = 2 /\ 2 ^ 2 = 4 /\ 2 ^ 3 = 8 /\ 2 ^ 4 = 16 /\ 2 ^ 5 = 32
  OBVIOUS
<1>r. /\ rateLimitCooldown(0) = 5000 /\ rateLimitCooldown(1) = 10000 /\ rateLimitCooldown(2) = 20000
      /\ rateLimitCooldown(3) = 40000 /\ rateLimitCooldown(4) = 80000 /\ rateLimitCooldown(5) = 160000
      /\ rateLimitCooldown(6) = 300000
  BY <1>p DEF rateLimitCooldown, maximumCooldownLevel, initialRateLimitCooldown, maximumRateLimitCooldown, Second
<1>l. /\ LongestRung(0) = 0 /\ LongestRung(1) = 6000 /\ LongestRung(2) = 12000 /\ LongestRung(3) = 24000
      /\ LongestRung(4) = 48000 /\ LongestRung(5) = 96000 /\ LongestRung(6) = 300000
  BY <1>p DEF LongestRung, maximumCooldownLevel, maximumRateLimitCooldown, Second
<1>n. /\ nextCooldownLevel(0) = 1 /\ nextCooldownLevel(1) = 2 /\ nextCooldownLevel(2) = 3
      /\ nextCooldownLevel(3) = 4 /\ nextCooldownLevel(4) = 5 /\ nextCooldownLevel(5) = 6
      /\ nextCooldownLevel(6) = 6
  BY DEF nextCooldownLevel, maximumCooldownLevel
<1>j. /\ applyJitter(300000, tenths) \in Int /\ 240000 <= applyJitter(300000, tenths) /\ applyJitter(300000, tenths) <= 300000
      /\ applyJitter(5000, tenths) \in Int /\ 4000 <= applyJitter(5000, tenths) /\ applyJitter(5000, tenths) <= 6000
      /\ applyJitter(10000, tenths) \in Int /\ 8000 <= applyJitter(10000, tenths) /\ applyJitter(10000, tenths) <= 12000
      /\ applyJitter(20000, tenths) \in Int /\ 16000 <= applyJitter(20000, tenths) /\ applyJitter(20000, tenths) <= 24000
      /\ applyJitter(40000, tenths) \in Int /\ 32000 <= applyJitter(40000, tenths) /\ applyJitter(40000, tenths) <= 48000
      /\ applyJitter(80000, tenths) \in Int /\ 64000 <= applyJitter(80000, tenths) /\ applyJitter(80000, tenths) <= 96000
      /\ applyJitter(160000, tenths) \in Int /\ 128000 <= applyJitter(160000, tenths) /\ applyJitter(160000, tenths) <= 192000
  BY <1>0 DEF applyJitter, Capped, maximumRateLimitCooldown, Second
<1>m. maximumRateLimitCooldown = 300000 /\ maximumCooldownLevel = 6
  BY DEF maximumRateLimitCooldown, maximumCooldownLevel, Second
<1>1. CASE level = 0
  BY <1>0, <1>1, <1>r, <1>l, <1>n, <1>j, <1>m
<1>2. CASE level = 1
  BY <1>0, <1>2, <1>r, <1>l, <1>n, <1>j, <1>m
<1>3. CASE level = 2
  BY <1>0, <1>3, <1>r, <1>l, <1>n, <1>j, <1>m
<1>4. CASE level = 3
  BY <1>0, <1>4, <1>r, <1>l, <1>n, <1>j, <1>m
<1>5. CASE level = 4
  BY <1>0, <1>5, <1>r, <1>l, <1>n, <1>j, <1>m
<1>6. CASE level = 5
  BY <1>0, <1>6, <1>r, <1>l, <1>n, <1>j, <1>m
<1>7. CASE level = 6
  BY <1>0, <1>7, <1>r, <1>l, <1>n, <1>j, <1>m
<1> QED
  BY <1>0, <1>1, <1>2, <1>3, <1>4, <1>5, <1>6, <1>7

\* A cooldown of at least a second outlives the cut to whole seconds.
LEMMA StoredRests ==
  ASSUME NEW phase \in Phases, NEW duration \in Int
  PROVE  Stored(phase, duration) \in Int /\ (duration >= Second => Stored(phase, duration) > 0)
<1>1. phase \in 0..999
  BY PhaseAssumption DEF Second
<1> QED
  BY <1>1 DEF Stored, Second

\* What markFailure records: the next level after a 429, a second at least for whatever
\* keeps a key away, and nothing for a fault only the operator's list covers.
LEMMA CooldownOfFault ==
  ASSUME NEW f \in Faults, Blame(f), NEW level \in 0..maximumCooldownLevel, NEW tenths \in JitterTenths
  PROVE  LET ladder == CalculateCooldown(f, level, tenths)
             duration == Floored(f, ladder.duration)
         IN  /\ ladder.level = IF f.status = 429 THEN nextCooldownLevel(level) ELSE level
             /\ duration \in Int
             /\ Rests(f) => duration >= Second \/ f.blockModel
             /\ OnlyListed(f) => duration = 0
             /\ f.firstByte => duration = 0 /\ f.status # 429
<1> DEFINE ladder == CalculateCooldown(f, level, tenths)
           duration == Floored(f, ladder.duration)
           after == f.retryAfter
           drawn == applyJitter(rateLimitCooldown(level), tenths)
<1>0. f.status \in Int /\ after \in Int /\ after >= 0
  BY DEF Faults, Blame
<1>1. drawn \in Int /\ drawn >= 4000
  BY RungBounds
<1>2. CASE f.status = 429 /\ (f.retryAfterValid \/ after > 0)
  <2>1. ladder = [duration |-> Capped(after), level |-> nextCooldownLevel(level)]
    <3>1. CASE f.retryAfterValid
      BY <1>2, <3>1 DEF CalculateCooldown
    <3>2. CASE after > 0
      BY <1>0, <1>2, <3>2 DEF CalculateCooldown
    <3> QED
      BY <1>2, <3>1, <3>2
  <2>2. ladder.level = nextCooldownLevel(level) /\ ladder.duration = Capped(after)
    BY <2>1
  <2>3. Rests(f) => after > 0
    BY <1>0, <1>2 DEF Rests, NamesNoWait
  <2>4. f.firstByte => f.status # 429
    BY DEF Blame
  <2> HIDE DEF ladder
  <2>5. duration \in Int /\ (after > 0 => duration >= 2000)
    BY <1>0, <1>2, <2>2 DEF Floored, Capped, maximumRateLimitCooldown, Second
  <2> HIDE DEF duration
  <2>6. ~OnlyListed(f)
    BY <1>2 DEF OnlyListed
  <2> QED
    BY <1>2, <2>2, <2>3, <2>4, <2>5, <2>6 DEF ladder, duration, Second
<1>3. CASE f.status = 429 /\ ~f.retryAfterValid /\ after <= 0
  <2>1. ladder = [duration |-> drawn, level |-> nextCooldownLevel(level)]
    BY <1>3, <1>0 DEF CalculateCooldown
  <2>2. ladder.level = nextCooldownLevel(level) /\ ladder.duration = drawn
    BY <2>1
  <2>3. f.firstByte => f.status # 429
    BY DEF Blame
  <2> HIDE DEF ladder, drawn
  <2>4. duration = drawn
    BY <1>0, <1>3, <2>2 DEF Floored
  <2> HIDE DEF duration
  <2>6. ~OnlyListed(f)
    BY <1>3 DEF OnlyListed
  <2> QED
    BY <1>1, <1>3, <2>2, <2>3, <2>4, <2>6 DEF ladder, duration, Second
<1>4. CASE f.status # 429 /\ f.status \in 500..599 /\ f.retryable
  <2>1. ladder = [duration |-> IF after > 0 THEN Capped(after) ELSE transientCooldown, level |-> level]
    BY <1>4 DEF CalculateCooldown
  <2>2. ladder.level = level /\ ladder.duration = IF after > 0 THEN Capped(after) ELSE transientCooldown
    BY <2>1
  <2>3. Rests(f) => after = 0 \/ after >= Second
    BY <1>0, <1>4, SMTT(30) DEF Rests, NamesNoWait, Second
  <2>4. ~f.firstByte
    BY <1>4 DEF Blame
  <2> HIDE DEF ladder
  <2>5. duration \in Int /\ (after = 0 \/ after >= Second => duration >= Second)
    BY <1>0, <1>4, <2>2 DEF Floored, Capped, maximumRateLimitCooldown, transientCooldown, Second
  <2> HIDE DEF duration
  <2>6. ~OnlyListed(f)
    BY <1>4 DEF OnlyListed
  <2> QED
    BY <1>4, <2>2, <2>3, <2>4, <2>5, <2>6 DEF ladder, duration
<1>5. CASE f.status # 429 /\ ~(f.status \in 500..599 /\ f.retryable)
  <2>1. ladder = [duration |-> 0, level |-> level]
    BY <1>5 DEF CalculateCooldown
  <2>2. ladder.level = level /\ ladder.duration = 0
    BY <2>1
  <2>3. Rests(f) => f.blockModel
    BY <1>5 DEF Rests, Blame
  <2> HIDE DEF ladder
  <2>4. duration = 0
    BY <1>5, <2>2 DEF Floored
  <2> HIDE DEF duration
  <2> QED
    BY <1>5, <2>2, <2>3, <2>4 DEF ladder, duration
<1> QED
  BY <1>0, <1>2, <1>3, <1>4, <1>5

\* The longest wait of the ladder is a number.
LEMMA MaximumIsNat == maximumRateLimitCooldown \in Nat
BY DEF maximumRateLimitCooldown, Second

\* What the invariant says of the parts of a row.
LEMMA LadderTypes ==
  ASSUME LadderInv
  PROVE  /\ row.authInvalid \in BOOLEAN /\ row.cooldown \in Int /\ row.level \in 0..maximumCooldownLevel
         /\ row.blocked \in BOOLEAN
         /\ row = [authInvalid |-> row.authInvalid, cooldown |-> row.cooldown, level |-> row.level,
                   blocked |-> row.blocked]
         /\ recent \in Faults /\ rung \in 0..maximumRateLimitCooldown /\ rung <= LongestRung(row.level)
BY DEF LadderInv, LadderTypeOK

\* What one failure does to the row.
LEMMA FailureEffect ==
  ASSUME LadderInv, NEW f \in Faults, Blame(f), NEW phase \in Phases, NEW tenths \in JitterTenths,
         row' = FailedRow(f, phase, tenths), recent' = f,
         rung' = IF OnLadder(f) THEN applyJitter(rateLimitCooldown(row.level), tenths) ELSE rung
  PROVE  /\ LadderInv'
         /\ Rests(f) => row'.cooldown > 0 \/ f.blockModel
         /\ f.blockModel => row'.blocked
         /\ f.disableKey => row'.authInvalid
         /\ OnlyListed(f) => row' = row
         /\ row'.authInvalid /\ ~row.authInvalid => f.status \in {401, 403}
         /\ f.firstByte => row' = row
         /\ OnLadder(f) /\ row.level \in 1..(maximumCooldownLevel - 1) => rung' > rung
<1> DEFINE ladder == CalculateCooldown(f, row.level, tenths)
           duration == Floored(f, ladder.duration)
           recorded == f.status = 429 \/ duration > 0
           disabled == row.authInvalid \/ f.disableKey \/ f.status = 401
           shut == row.blocked \/ f.blockModel
           cooldown == IF recorded THEN Stored(phase, duration) ELSE row.cooldown
           level == IF recorded THEN ladder.level ELSE row.level
           drawn == applyJitter(rateLimitCooldown(row.level), tenths)
<1>1. row' = [authInvalid |-> disabled, cooldown |-> cooldown, level |-> level, blocked |-> shut]
  BY DEF FailedRow
<1>2. disabled \in BOOLEAN /\ shut \in BOOLEAN
  OBVIOUS
<1>3. row.level \in 0..maximumCooldownLevel /\ row.cooldown \in Int /\ rung \in 0..maximumRateLimitCooldown
      /\ rung <= LongestRung(row.level)
  BY LadderTypes
<1>4. /\ ladder.level = (IF f.status = 429 THEN nextCooldownLevel(row.level) ELSE row.level)
      /\ duration \in Int
      /\ Rests(f) => duration >= Second \/ f.blockModel
      /\ OnlyListed(f) => duration = 0 /\ f.status # 429
      /\ f.firstByte => duration = 0 /\ f.status # 429
  BY <1>3, CooldownOfFault DEF OnlyListed
<1>5. /\ drawn \in Int /\ 4000 <= drawn /\ drawn <= maximumRateLimitCooldown
      /\ drawn <= LongestRung(nextCooldownLevel(row.level))
      /\ LongestRung(row.level) <= LongestRung(nextCooldownLevel(row.level))
      /\ row.level \in 1..(maximumCooldownLevel - 1) => drawn > LongestRung(row.level)
      /\ nextCooldownLevel(row.level) \in 0..maximumCooldownLevel
  BY <1>3, RungBounds
<1>6. LongestRung(row.level) \in Int /\ LongestRung(nextCooldownLevel(row.level)) \in Int
  BY <1>3, <1>5, RungBounds
<1>7. Stored(phase, duration) \in Int /\ (duration >= Second => Stored(phase, duration) > 0)
  BY <1>4, StoredRests
<1> HIDE DEF ladder, duration, disabled, shut, drawn
<1>8. cooldown \in Int /\ level \in 0..maximumCooldownLevel
  BY <1>3, <1>4, <1>5, <1>7
<1>9. level = (IF f.status = 429 THEN nextCooldownLevel(row.level) ELSE row.level)
  BY <1>4
<1>10. Rests(f) => cooldown > 0 \/ f.blockModel
  BY <1>4, <1>7 DEF Second
<1>11. f.firstByte \/ OnlyListed(f) => cooldown = row.cooldown /\ level = row.level
  BY <1>4
<1> HIDE DEF cooldown, level
<1>12. row' \in [authInvalid : BOOLEAN, cooldown : Int, level : 0..maximumCooldownLevel, blocked : BOOLEAN]
  BY <1>1, <1>2, <1>8
<1>13. /\ row'.cooldown = cooldown /\ row'.level = level
  BY <1>1
<1>14. row'.authInvalid = disabled /\ row'.blocked = shut
  BY <1>1
<1>15. rung' = IF OnLadder(f) THEN drawn ELSE rung
  BY DEF drawn
<1>16. OnLadder(f) => f.status = 429
  BY DEF OnLadder
<1>17. rung' <= LongestRung(level)
  BY <1>3, <1>5, <1>6, <1>9, <1>15, <1>16
<1>18. rung' \in 0..maximumRateLimitCooldown
  BY <1>3, <1>5, <1>15, MaximumIsNat
<1>19. LadderInv'
  BY <1>12, <1>13, <1>17, <1>18 DEF LadderInv, LadderTypeOK
<1>20. row'.authInvalid /\ ~row.authInvalid => f.status \in {401, 403}
  BY <1>14 DEF disabled, Blame
<1>21. ASSUME f.firstByte \/ OnlyListed(f) PROVE row' = row
  <2>1. ~f.disableKey /\ ~f.blockModel /\ f.status # 401
    BY <1>21 DEF Blame, OnlyListed
  <2>2. disabled = row.authInvalid
    BY <2>1, LadderTypes DEF disabled
  <2>3. shut = row.blocked
    BY <2>1, LadderTypes DEF shut
  <2>4. row = [authInvalid |-> row.authInvalid, cooldown |-> row.cooldown, level |-> row.level,
               blocked |-> row.blocked]
    BY LadderTypes
  <2> QED
    BY <1>1, <1>11, <1>21, <2>2, <2>3, <2>4
<1>22. OnLadder(f) /\ row.level \in 1..(maximumCooldownLevel - 1) => rung' > rung
  BY <1>3, <1>5, <1>6, <1>15
<1>23. (f.blockModel => row'.blocked) /\ (f.disableKey => row'.authInvalid)
  BY <1>14 DEF disabled, shut
<1> QED
  BY <1>10, <1>13, <1>19, <1>20, <1>21, <1>22, <1>23

\* A key without a record is on no rung, does not rest and is not switched away from.
LEMMA NoRecordFacts ==
  /\ NoRecord \in Faults /\ ~OnLadder(NoRecord) /\ ~NoRecord.firstByte
  /\ ~shouldRetry(NoRecord, Covered)
  /\ FreshKey \in [authInvalid : BOOLEAN, cooldown : Int, level : 0..maximumCooldownLevel, blocked : BOOLEAN]
<1>1. NoRecord = Plain(0, "request")
  BY DEF NoRecord, FaultOf, Plain
<1>2. NoRecord \in Faults
  BY <1>1, PlainFault DEF Scopes
<1>3. NoRecord.status = 0
  BY <1>1 DEF Plain
<1>4. ~NoRecord.retryable /\ ~NoRecord.firstByte
  BY <1>1 DEF Plain
<1>5. FreshKey \in [authInvalid : BOOLEAN, cooldown : Int, level : 0..maximumCooldownLevel, blocked : BOOLEAN]
  BY DEF FreshKey, maximumCooldownLevel
<1> QED
  BY <1>2, <1>3, <1>4, <1>5, CoveredAssumption DEF OnLadder, shouldRetry

\* A success takes the key off the ladder.
LEMMA SuccessEffect ==
  ASSUME LadderInv, markSuccess
  PROVE  LadderInv' /\ recent' = NoRecord /\ ~row'.authInvalid
<1> DEFINE shut == row.blocked
           fresh == FreshKey
<1>1. shut \in BOOLEAN
  BY LadderTypes
<1>2. row' = [fresh EXCEPT !.blocked = shut] /\ recent' = NoRecord /\ rung' = 0
  BY DEF markSuccess
<1>3. fresh \in [authInvalid : BOOLEAN, cooldown : Int, level : 0..maximumCooldownLevel, blocked : BOOLEAN]
  BY NoRecordFacts
<1>4. fresh.level = 0 /\ ~fresh.authInvalid
  BY DEF FreshKey
<1> HIDE DEF shut, fresh
<1>5. row' \in [authInvalid : BOOLEAN, cooldown : Int, level : 0..maximumCooldownLevel, blocked : BOOLEAN]
  BY <1>1, <1>2, <1>3
<1>6. row'.level = 0
  BY <1>2, <1>3, <1>4
<1>7. ~row'.authInvalid
  BY <1>2, <1>3, <1>4
<1>8. LongestRung(0) = 0
  BY DEF LongestRung
<1>9. rung' \in 0..maximumRateLimitCooldown /\ recent' \in Faults
  BY <1>2, NoRecordFacts, MaximumIsNat
<1>10. rung' <= LongestRung(row'.level)
  BY <1>2, <1>6, <1>8
<1> QED
  BY <1>2, <1>5, <1>7, <1>9, <1>10 DEF LadderInv, LadderTypeOK

\* Every step of the history, with what the properties say of it.
LEMMA LadderStep ==
  ASSUME LadderInv, LadderNext
  PROVE  /\ LadderInv'
         /\ shouldRetry(recent', Covered) =>
              \/ row'.cooldown > 0
              \/ recent'.blockModel /\ row'.blocked
              \/ recent'.disableKey /\ row'.authInvalid
              \/ NamesNoWait(recent')
              \/ OnlyListed(recent') /\ row' = row
         /\ row'.authInvalid /\ ~row.authInvalid => recent'.status \in {401, 403}
         /\ recent'.firstByte => row' = row
         /\ OnLadder(recent') /\ row.level \in 1..(maximumCooldownLevel - 1) => rung' > rung
<1>1. CASE \E f \in Failures \cup TestFailures : markFailure(f)
  <2>1. PICK f \in Failures \cup TestFailures : markFailure(f)
    BY <1>1
  <2>2. f \in Faults /\ Blame(f)
    BY EveryFailureIsBlame
  <2>3. PICK phase \in Phases, tenths \in Jitters :
          /\ row' = FailedRow(f, phase, tenths)
          /\ recent' = f
          /\ rung' = IF OnLadder(f) THEN applyJitter(rateLimitCooldown(row.level), tenths) ELSE rung
    BY <2>1 DEF markFailure
  <2>4. tenths \in JitterTenths
    BY JitterAssumption
  <2>5. /\ LadderInv'
        /\ Rests(f) => row'.cooldown > 0 \/ f.blockModel
        /\ f.blockModel => row'.blocked
        /\ f.disableKey => row'.authInvalid
        /\ OnlyListed(f) => row' = row
        /\ row'.authInvalid /\ ~row.authInvalid => f.status \in {401, 403}
        /\ f.firstByte => row' = row
        /\ OnLadder(f) /\ row.level \in 1..(maximumCooldownLevel - 1) => rung' > rung
    BY <2>2, <2>3, <2>4, FailureEffect
  <2>6. NamesNoWait(f) \/ Rests(f) \/ f.disableKey \/ OnlyListed(f)
    BY DEF Rests, OnlyListed
  <2> QED
    BY <2>3, <2>5, <2>6
<1>2. CASE markSuccess
  BY <1>2, SuccessEffect, NoRecordFacts
<1> QED
  BY <1>1, <1>2 DEF LadderNext

\* A fresh key satisfies the invariant.
LEMMA LadderStart ==
  ASSUME LadderInit
  PROVE  LadderInv
<1>1. row = FreshKey /\ recent = NoRecord /\ rung = 0
  BY DEF LadderInit
<1>2. FreshKey.level = 0
  BY DEF FreshKey
<1>3. LongestRung(0) = 0 /\ 0 \in 0..maximumRateLimitCooldown
  BY MaximumIsNat DEF LongestRung
<1> QED
  BY <1>1, <1>2, <1>3, NoRecordFacts DEF LadderInv, LadderTypeOK

\* A step that changes nothing keeps the invariant.
LEMMA LadderStutter ==
  ASSUME LadderInv, UNCHANGED ladderVars
  PROVE  LadderInv'
BY DEF LadderInv, LadderTypeOK, ladderVars

\* LadderInv: the level bounds every rung drawn on the way to it.
THEOREM LadderInductive == LadderSpec => []LadderInv
<1>1. LadderInit => LadderInv
  BY LadderStart
<1>2. LadderInv /\ [LadderNext]_ladderVars => LadderInv'
  BY LadderStep, LadderStutter
<1> QED
  BY <1>1, <1>2, PTL DEF LadderSpec

\* Rate limits without a hint escalate (CalculateCooldown, applyJitter): whatever faults,
\* hints, jitters and credential tests come between, a key that is limited again rests
\* longer than it has rested since its last success, until the ladder is at its top.
THEOREM LadderAlwaysClimbs == LadderSpec => LadderClimbs
<1>1. LadderInv /\ [LadderNext]_ladderVars =>
        [OnLadder(recent') /\ recent' # NoRecord /\ row.level \in 1..(maximumCooldownLevel - 1)
           => rung' > rung]_ladderVars
  BY LadderStep
<1> QED
  BY <1>1, LadderInductive, PTL DEF LadderSpec, LadderClimbs

\* What a fault does to a key is what its classification says (markFailure,
\* repository.go), for every response, header and moment of the second.
THEOREM LadderBlameIsJust == LadderSpec => BlameIsJust
<1>1. LadderInv => LadderTypeOK
  BY DEF LadderInv
<1>2. LadderInv /\ [LadderNext]_ladderVars =>
        [shouldRetry(recent', Covered) =>
           \/ row'.cooldown > 0
           \/ recent'.blockModel /\ row'.blocked
           \/ recent'.disableKey /\ row'.authInvalid
           \/ NamesNoWait(recent')
           \/ OnlyListed(recent') /\ row' = row]_ladderVars
  BY LadderStep
<1>3. LadderInv /\ [LadderNext]_ladderVars =>
        [row'.authInvalid /\ ~row.authInvalid => recent'.status \in {401, 403}]_ladderVars
  BY LadderStep
<1>4. LadderInv /\ [LadderNext]_ladderVars =>
        [recent'.firstByte => row' = row /\ ~shouldRetry(recent', Covered)]_ladderVars
  BY LadderStep DEF shouldRetry
<1> QED
  BY <1>1, <1>2, <1>3, <1>4, LadderInductive, PTL
     DEF LadderSpec, BlameIsJust, RetriedKeyRests, OnlyAuthorityDisables, TimeoutSparesKey

(***************************************************************************)
(* The operator's failover list                                            *)
(***************************************************************************)
\* A set of naturals that is not empty has a least element.
LEMMA LeastOfSome ==
  ASSUME NEW T, T \subseteq Nat, T # {}
  PROVE  \E x \in T : \A y \in T : x <= y
<1>1. PICK x \in T : \A y \in T : ~(<<y, x>> \in OpToRel(<, Nat))
  BY WFMin, NatLessThanWellFounded
<1>2. \A y \in T : ~(y < x)
  BY <1>1 DEF OpToRel
<1>3. \A y \in T : x <= y
  <2> TAKE y \in T
  <2>1. x \in Nat /\ y \in Nat /\ ~(y < x)
    BY <1>2
  <2> QED
    BY <2>1
<1> QED
  BY <1>3

\* Induction: a set that has 0 and the successor of each natural in it has them all.
LEMMA HasAllNaturals ==
  ASSUME NEW S, 0 \in S, \A n \in Nat : n \in S => n + 1 \in S
  PROVE  Nat \subseteq S
<1> DEFINE T == Nat \ S
<1> SUFFICES ASSUME T # {} PROVE FALSE
  OBVIOUS
<1>1. PICK x \in T : \A y \in T : x <= y
  <2>1. T \subseteq Nat
    OBVIOUS
  <2> HIDE DEF T
  <2> QED
    BY <2>1, LeastOfSome
<1>2. x \in Nat /\ x # 0 /\ x - 1 \in Nat /\ ~(x <= x - 1)
  OBVIOUS
<1>3. x - 1 \in S
  BY <1>1, <1>2
<1> QED
  BY <1>2, <1>3

\* What InsertAt puts where.
LEMMA InsertAtPlaces ==
  ASSUME NEW S, NEW s \in Seq(S), NEW e \in S, NEW p \in 1..(Len(s) + 1)
  PROVE  /\ InsertAt(s, p, e) \in Seq(S)
         /\ Len(InsertAt(s, p, e)) = Len(s) + 1
         /\ \A j \in 1..(Len(s) + 1) :
              InsertAt(s, p, e)[j] = IF j < p THEN s[j] ELSE IF j = p THEN e ELSE s[j - 1]
<1> DEFINE front == SubSeq(s, 1, p - 1)
           back == SubSeq(s, p, Len(s))
           head == front \o <<e>>
<1>1. Len(s) \in Nat /\ p \in Nat /\ p >= 1 /\ p <= Len(s) + 1 /\ \A i \in 1..Len(s) : s[i] \in S
  BY LenProperties, ElementOfSeq
<1>2. /\ front \in Seq(S) /\ Len(front) = p - 1
      /\ \A i \in 1..(p - 1) : front[i] = s[i]
  <2>1. \A i \in 1..(p - 1) : s[i] \in S
    BY <1>1
  <2>2. 1 \in Int /\ p - 1 \in Int
    BY <1>1
  <2>3. /\ front \in Seq(S) /\ Len(front) = (IF 1 <= p - 1 THEN p - 1 - 1 + 1 ELSE 0)
        /\ \A i \in 1..(p - 1 - 1 + 1) : front[i] = s[1 + i - 1]
    BY <2>1, <2>2, SubSeqProperties
  <2> HIDE DEF front
  <2> QED
    BY <1>1, <2>3
<1>3. /\ back \in Seq(S) /\ Len(back) = Len(s) - p + 1
      /\ \A i \in 1..(Len(s) - p + 1) : back[i] = s[p + i - 1]
  <2>1. \A i \in p..Len(s) : s[i] \in S
    BY <1>1
  <2>2. p \in Int /\ Len(s) \in Int
    BY <1>1
  <2>3. /\ back \in Seq(S) /\ Len(back) = (IF p <= Len(s) THEN Len(s) - p + 1 ELSE 0)
        /\ \A i \in 1..(Len(s) - p + 1) : back[i] = s[p + i - 1]
    BY <2>1, <2>2, SubSeqProperties
  <2> HIDE DEF back
  <2> QED
    BY <1>1, <2>3
<1> HIDE DEF front, back
<1>4. <<e>> \in Seq(S) /\ Len(<<e>>) = 1 /\ <<e>>[1] = e
  OBVIOUS
<1>5. /\ head \in Seq(S) /\ Len(head) = p
      /\ \A i \in 1..p : head[i] = IF i < p THEN s[i] ELSE e
  <2>1. /\ head \in Seq(S) /\ Len(head) = Len(front) + 1
        /\ \A i \in 1..(Len(front) + 1) : head[i] = IF i <= Len(front) THEN front[i] ELSE <<e>>[i - Len(front)]
    BY <1>2, <1>4, ConcatProperties
  <2> HIDE DEF head
  <2>2. Len(head) = p /\ Len(front) + 1 = p
    BY <1>1, <1>2, <2>1
  <2>3. ASSUME NEW i \in 1..p PROVE head[i] = IF i < p THEN s[i] ELSE e
    <3>1. CASE i < p
      <4>1. i \in 1..(p - 1) /\ i <= Len(front) /\ i \in 1..(Len(front) + 1)
        BY <1>1, <1>2, <3>1
      <4> QED
        BY <1>2, <2>1, <3>1, <4>1
    <3>2. CASE i = p
      <4>1. i \in 1..(Len(front) + 1) /\ ~(i <= Len(front)) /\ i - Len(front) = 1
        BY <1>1, <1>2, <3>2
      <4> QED
        BY <1>1, <1>4, <2>1, <3>2, <4>1
    <3> QED
      BY <1>1, <3>1, <3>2
  <2> QED
    BY <2>1, <2>2, <2>3
<1>6. InsertAt(s, p, e) = head \o back
  BY DEF InsertAt, head, front, back
<1> HIDE DEF head
<1>7. /\ head \o back \in Seq(S) /\ Len(head \o back) = Len(head) + Len(back)
      /\ \A i \in 1..(Len(head) + Len(back)) :
           (head \o back)[i] = IF i <= Len(head) THEN head[i] ELSE back[i - Len(head)]
  BY <1>3, <1>5, ConcatProperties
<1>8. Len(head) + Len(back) = Len(s) + 1
  BY <1>1, <1>3, <1>5
<1>9. ASSUME NEW j \in 1..(Len(s) + 1)
      PROVE  (head \o back)[j] = IF j < p THEN s[j] ELSE IF j = p THEN e ELSE s[j - 1]
  <2>1. CASE j <= p
    <3>1. j \in 1..p /\ (j < p \/ j = p)
      BY <1>1, <2>1
    <3>2. (head \o back)[j] = head[j]
      BY <1>5, <1>7, <1>8, <2>1
    <3> QED
      BY <1>1, <1>5, <3>1, <3>2
  <2>2. CASE ~(j <= p)
    <3>1. j - p \in 1..(Len(s) - p + 1) /\ p + (j - p) - 1 = j - 1 /\ ~(j < p) /\ j # p
      BY <1>1, <2>2
    <3>2. (head \o back)[j] = back[j - p]
      BY <1>5, <1>7, <1>8, <2>2
    <3> QED
      BY <1>3, <3>1, <3>2
  <2> QED
    BY <2>1, <2>2
<1> QED
  BY <1>6, <1>7, <1>8, <1>9

Ascending(s) == \A i, j \in DOMAIN s : i < j => ~Less(s[j], s[i])

\* A range is put in its place: the list stays sorted.
LEMMA InsertedEffect ==
  ASSUME NEW s \in Seq(Ranges), Ascending(s), NEW r \in Ranges
  PROVE  /\ Inserted(s, r) \in Seq(Ranges) /\ Ascending(Inserted(s, r))
         /\ ToSet(Inserted(s, r)) = ToSet(s) \cup {r}
<1> DEFINE n == Len(s)
           Fits(p) == \A i \in DOMAIN s : i < p <=> ~Less(r, s[i])
           place == CHOOSE p \in 1..(n + 1) : Fits(p)
           t == Inserted(s, r)
<1>1. n \in Nat /\ DOMAIN s = 1..n
  BY LenProperties
<1>2. \A i \in 1..n : s[i] \in Ranges
  BY <1>1, ElementOfSeq
<1>3. \E p \in 1..(n + 1) : Fits(p)
  <2> DEFINE T == {i \in 1..n : Less(r, s[i])}
  <2>1. CASE T = {}
    <3>1. n + 1 \in 1..(n + 1) /\ \A i \in 1..n : i < n + 1
      BY <1>1
    <3>2. Fits(n + 1)
      BY <1>1, <2>1, <3>1
    <3> QED
      BY <3>1, <3>2
  <2>2. CASE T # {}
    <3>1. T \subseteq Nat
      BY <1>1
    <3>2. PICK p \in T : \A y \in T : p <= y
      <4> HIDE DEF T
      <4> QED
        BY <2>2, <3>1, LeastOfSome
    <3>3. ASSUME NEW i \in 1..n PROVE i < p <=> ~Less(r, s[i])
      <4>1. CASE i < p
        <5>1. ~(p <= i)
          BY <1>1, <4>1
        <5> QED
          BY <3>2, <4>1, <5>1
      <4>2. CASE i = p
        BY <1>1, <4>2
      <4>3. CASE p < i
        <5>1. ~Less(s[i], s[p])
          BY <1>1, <4>3 DEF Ascending
        <5>2. Less(r, s[p]) /\ s[i] \in Ranges /\ s[p] \in Ranges
          BY <1>2
        <5>3. Less(r, s[i])
          BY <5>1, <5>2 DEF Less, Ranges
        <5> QED
          BY <1>1, <4>3, <5>3
      <4> QED
        BY <1>1, <4>1, <4>2, <4>3
    <3>4. p \in 1..(n + 1)
      BY <1>1
    <3> QED
      BY <1>1, <3>3, <3>4
  <2> QED
    BY <2>1, <2>2
<1>4. place \in 1..(n + 1) /\ Fits(place)
  BY <1>3
<1>5. t = InsertAt(s, place, r)
  BY DEF Inserted
<1> HIDE DEF place, t
<1>6. /\ t \in Seq(Ranges) /\ Len(t) = n + 1
      /\ \A j \in 1..(n + 1) : t[j] = IF j < place THEN s[j] ELSE IF j = place THEN r ELSE s[j - 1]
  <2>1. place \in 1..(Len(s) + 1)
    BY <1>4
  <2>2. /\ InsertAt(s, place, r) \in Seq(Ranges)
        /\ Len(InsertAt(s, place, r)) = Len(s) + 1
        /\ \A j \in 1..(Len(s) + 1) : InsertAt(s, place, r)[j] =
             IF j < place THEN s[j] ELSE IF j = place THEN r ELSE s[j - 1]
    BY <2>1, InsertAtPlaces
  <2> QED
    BY <1>5, <2>2
<1>7. DOMAIN t = 1..(n + 1)
  BY <1>6, LenProperties
<1>8. \A j \in 1..(n + 1) : /\ j < place => j \in 1..n /\ t[j] = s[j] /\ ~Less(r, s[j])
                            /\ j = place => t[j] = r
                            /\ j > place => j - 1 \in 1..n /\ t[j] = s[j - 1] /\ Less(r, s[j - 1])
  <2> SUFFICES ASSUME NEW j \in 1..(n + 1)
               PROVE  /\ j < place => j \in 1..n /\ t[j] = s[j] /\ ~Less(r, s[j])
                      /\ j = place => t[j] = r
                      /\ j > place => j - 1 \in 1..n /\ t[j] = s[j - 1] /\ Less(r, s[j - 1])
    OBVIOUS
  <2>1. CASE j < place
    <3>1. j \in 1..n
      BY <1>1, <1>4, <2>1
    <3> QED
      BY <1>1, <1>4, <1>6, <2>1, <3>1
  <2>2. CASE j = place
    <3>1. ~(j < place) /\ ~(j > place)
      BY <1>1, <2>2
    <3> QED
      BY <1>6, <2>2, <3>1
  <2>3. CASE j > place
    <3>1. j - 1 \in 1..n /\ ~(j < place) /\ j # place /\ ~(j - 1 < place)
      BY <1>1, <1>4, <2>3
    <3> QED
      BY <1>1, <1>4, <1>6, <3>1
  <2> QED
    BY <1>1, <1>4, <2>1, <2>2, <2>3
<1>9. Ascending(t)
  <2> SUFFICES ASSUME NEW i \in 1..(n + 1), NEW j \in 1..(n + 1), i < j PROVE ~Less(t[j], t[i])
    BY <1>7 DEF Ascending
  <2>0. i \in Nat /\ j \in Nat /\ place \in Nat
    BY <1>1, <1>4
  <2>1. CASE j < place
    <3>1. i < place
      BY <2>0, <2>1
    <3> QED
      BY <1>1, <1>8, <2>1, <3>1 DEF Ascending
  <2>2. CASE j = place
    <3>1. i < place
      BY <2>0, <2>2
    <3>2. t[i] = s[i] /\ ~Less(r, s[i]) /\ t[j] = r
      BY <1>8, <2>2, <3>1
    <3> QED
      BY <3>2
  <2>3. CASE i < place /\ j > place
    <3>1. t[i] = s[i] /\ t[j] = s[j - 1] /\ i \in 1..n /\ j - 1 \in 1..n
      BY <1>8, <2>3
    <3>2. i < j - 1 \/ i = j - 1
      BY <2>0
    <3>3. CASE i < j - 1
      BY <1>1, <3>1, <3>3 DEF Ascending
    <3>4. CASE i = j - 1
      <4>1. t[i] = t[j] /\ t[i] \in Ranges
        BY <1>2, <3>1, <3>4
      <4> QED
        BY <4>1 DEF Less, Ranges
    <3> QED
      BY <3>2, <3>3, <3>4
  <2>4. CASE i = place
    <3>1. j > place
      BY <2>0, <2>4
    <3>2. t[i] = r /\ t[j] = s[j - 1] /\ j - 1 \in 1..n /\ Less(r, s[j - 1])
      BY <1>8, <2>4, <3>1
    <3>3. s[j - 1] \in Ranges
      BY <1>2, <3>2
    <3> QED
      BY <3>2, <3>3 DEF Less, Ranges
  <2>5. CASE i > place
    <3>1. j > place /\ i - 1 < j - 1
      BY <2>0, <2>5
    <3> QED
      BY <1>1, <1>8, <2>5, <3>1 DEF Ascending
  <2> QED
    BY <2>0, <2>1, <2>2, <2>3, <2>4, <2>5
<1>10. ToSet(t) = ToSet(s) \cup {r}
  <2>1. ASSUME NEW j \in 1..(n + 1) PROVE t[j] \in ToSet(s) \cup {r}
    <3>1. j < place \/ j = place \/ j > place
      BY <1>1, <1>4
    <3>2. \A k \in 1..n : s[k] \in ToSet(s)
      BY <1>1 DEF ToSet
    <3> QED
      BY <1>8, <3>1, <3>2
  <2>2. r \in ToSet(t)
    <3>1. t[place] = r /\ place \in DOMAIN t
      BY <1>4, <1>7, <1>8
    <3> QED
      BY <3>1 DEF ToSet
  <2>3. ASSUME NEW k \in 1..n PROVE s[k] \in ToSet(t)
    <3>1. CASE k < place
      <4>1. k \in 1..(n + 1)
        BY <1>1
      <4>2. t[k] = s[k]
        BY <1>8, <3>1, <4>1
      <4> QED
        BY <1>7, <4>1, <4>2 DEF ToSet
    <3>2. CASE ~(k < place)
      <4>1. k + 1 \in 1..(n + 1) /\ k + 1 > place /\ k + 1 - 1 = k
        BY <1>1, <1>4, <3>2
      <4>2. t[k + 1] = s[k]
        BY <1>8, <4>1
      <4> QED
        BY <1>7, <4>1, <4>2 DEF ToSet
    <3> QED
      BY <3>1, <3>2
  <2>4. ToSet(t) \subseteq ToSet(s) \cup {r}
    BY <1>7, <2>1 DEF ToSet
  <2>5. ToSet(s) \subseteq ToSet(t)
    BY <1>1, <2>3 DEF ToSet
  <2> QED
    BY <2>2, <2>4, <2>5
<1> QED
  BY <1>6, <1>9, <1>10 DEF t

\* The sort is what it says it is, at each of its steps.
LEMMA SortingUnfolds ==
  ASSUME NEW t, Len(t) \in Nat
  PROVE  Sorting(t) = [i \in 0..Len(t) |-> IF i = 0 THEN <<>> ELSE Inserted(Sorting(t)[i - 1], t[i])]
<1> DEFINE Is(f, n) == f = [i \in 0..n |-> IF i = 0 THEN <<>> ELSE Inserted(f[i - 1], t[i])]
           S == {n \in Nat : \E f : Is(f, n)}
<1>1. 0 \in S
  <2>1. Is([i \in 0..0 |-> <<>>], 0)
    OBVIOUS
  <2> QED
    BY <2>1
<1>2. ASSUME NEW n \in Nat, n \in S PROVE n + 1 \in S
  <2>1. PICK f : Is(f, n)
    BY <1>2
  <2> DEFINE g == [i \in 0..(n + 1) |-> IF i = n + 1 THEN Inserted(f[n], t[n + 1]) ELSE f[i]]
             h == [i \in 0..(n + 1) |-> IF i = 0 THEN <<>> ELSE Inserted(g[i - 1], t[i])]
  <2>2. ASSUME NEW i \in 0..(n + 1) PROVE g[i] = h[i]
    <3>1. CASE i = n + 1
      <4>1. i # 0 /\ i - 1 = n /\ n \in 0..(n + 1) /\ n # n + 1
        BY <3>1
      <4>2. g[i - 1] = f[n]
        BY <4>1
      <4> QED
        BY <3>1, <4>1, <4>2
    <3>2. CASE i # n + 1
      <4>1. i \in 0..n
        BY <3>2
      <4>2. f[i] = IF i = 0 THEN <<>> ELSE Inserted(f[i - 1], t[i])
        BY <2>1, <4>1
      <4>3. i # 0 => i - 1 \in 0..(n + 1) /\ i - 1 # n + 1
        BY <4>1
      <4>4. i # 0 => g[i - 1] = f[i - 1]
        BY <4>3
      <4> QED
        BY <3>2, <4>2, <4>4
    <3> QED
      BY <3>1, <3>2
  <2>3. g = h
    BY <2>2
  <2>4. Is(g, n + 1)
    BY <2>3
  <2>5. \E e : Is(e, n + 1)
    <3> HIDE DEF g, h
    <3> QED
      BY <2>4
  <2> QED
    BY <2>5
<1>3. Len(t) \in S
  <2>1. \A n \in Nat : n \in S => n + 1 \in S
    BY <1>2
  <2> HIDE DEF S
  <2> QED
    BY <1>1, <2>1, HasAllNaturals
<1>4. \E f : Is(f, Len(t))
  BY <1>3
<1>5. Sorting(t) = CHOOSE f : Is(f, Len(t))
  BY DEF Sorting
<1>6. Is(Sorting(t), Len(t))
  BY <1>4, <1>5
<1> QED
  BY <1>6

\* Sorting keeps the ranges and puts them in order.
LEMMA SortedEffect ==
  ASSUME NEW t \in Seq(Ranges)
  PROVE  Sorted(t) \in Seq(Ranges) /\ Ascending(Sorted(t)) /\ ToSet(Sorted(t)) = ToSet(t)
<1> DEFINE f == Sorting(t)
           Upto(n) == {t[i] : i \in 1..n}
           S == {n \in Nat : n <= Len(t) => f[n] \in Seq(Ranges) /\ Ascending(f[n]) /\ ToSet(f[n]) = Upto(n)}
<1>1. Len(t) \in Nat /\ DOMAIN t = 1..Len(t) /\ \A i \in 1..Len(t) : t[i] \in Ranges
  BY LenProperties, ElementOfSeq
<1>2. \A i \in 0..Len(t) : f[i] = IF i = 0 THEN <<>> ELSE Inserted(f[i - 1], t[i])
  BY <1>1, SortingUnfolds
<1> HIDE DEF f
<1>3. 0 \in S
  <2>1. 0 \in 0..Len(t)
    BY <1>1
  <2>2. f[0] = <<>>
    BY <1>2, <2>1
  <2>3. <<>> \in Seq(Ranges) /\ DOMAIN <<>> = {}
    OBVIOUS
  <2>4. Ascending(<<>>) /\ ToSet(<<>>) = {}
    BY <2>3 DEF Ascending, ToSet
  <2>5. Upto(0) = {}
    OBVIOUS
  <2> QED
    BY <2>2, <2>3, <2>4, <2>5
<1>4. ASSUME NEW n \in Nat, n \in S PROVE n + 1 \in S
  <2> SUFFICES ASSUME n + 1 <= Len(t)
               PROVE  f[n + 1] \in Seq(Ranges) /\ Ascending(f[n + 1]) /\ ToSet(f[n + 1]) = Upto(n + 1)
    OBVIOUS
  <2>1. n + 1 \in 0..Len(t) /\ n + 1 # 0 /\ n + 1 - 1 = n /\ n <= Len(t) /\ n + 1 \in 1..Len(t)
    BY <1>1
  <2>2. f[n + 1] = Inserted(f[n], t[n + 1])
    BY <1>2, <2>1
  <2>3. f[n] \in Seq(Ranges) /\ Ascending(f[n]) /\ ToSet(f[n]) = Upto(n) /\ t[n + 1] \in Ranges
    BY <1>1, <1>4, <2>1
  <2>4. /\ f[n + 1] \in Seq(Ranges) /\ Ascending(f[n + 1])
        /\ ToSet(f[n + 1]) = Upto(n) \cup {t[n + 1]}
    BY <2>2, <2>3, InsertedEffect
  <2>5. \A i : i \in 1..(n + 1) <=> i \in 1..n \/ i = n + 1
    OBVIOUS
  <2>6. Upto(n + 1) = Upto(n) \cup {t[n + 1]}
    BY <2>5
  <2> QED
    BY <2>4, <2>6
<1>5. Len(t) \in S
  <2>1. \A n \in Nat : n \in S => n + 1 \in S
    BY <1>4
  <2> HIDE DEF S
  <2> QED
    BY <1>1, <1>3, <2>1, HasAllNaturals
<1>6. f[Len(t)] \in Seq(Ranges) /\ Ascending(f[Len(t)]) /\ ToSet(f[Len(t)]) = Upto(Len(t))
  BY <1>1, <1>5
<1>7. Upto(Len(t)) = ToSet(t)
  BY <1>1 DEF ToSet
<1>8. Sorted(t) = f[Len(t)]
  BY DEF Sorted, f
<1> QED
  BY <1>6, <1>7, <1>8

\* A range with something in it.
Forward(r) == r \in Ranges /\ r.low <= r.high

\* One round of the merge: the list names what it named and what the new range
\* names, and the gaps between its ranges stay.
LEMMA AbsorbEffect ==
  ASSUME NEW m \in Seq(Ranges), NEW r \in Ranges, Forward(r), Apart(m),
         \A i \in DOMAIN m : Forward(m[i]),
         m # <<>> => m[Len(m)].low <= r.low
  PROVE  LET n == Absorb(m, r) IN
         /\ n \in Seq(Ranges) /\ n # <<>> /\ n[Len(n)].low <= r.low /\ Apart(n)
         /\ \A i \in DOMAIN n : Forward(n[i])
         /\ \A x \in Int : Names(n, x) <=> Names(m, x) \/ (r.low <= x /\ x <= r.high)
<1> DEFINE l == Len(m)
           n == Absorb(m, r)
<1>1. l \in Nat /\ DOMAIN m = 1..l /\ (\A i \in 1..l : m[i] \in Ranges) /\ (m # <<>> => l > 0)
  <2>1. l \in Nat /\ DOMAIN m = 1..l /\ \A i \in 1..l : m[i] \in Ranges
    BY LenProperties, ElementOfSeq
  <2>2. m # <<>> => l > 0
    BY <2>1
  <2> QED
    BY <2>1, <2>2
<1> HIDE DEF l
<1>2. CASE m # <<>> /\ r.low <= m[l].high + 1
  <2> DEFINE top == IF r.high > m[l].high THEN r.high ELSE m[l].high
             u == [m[l] EXCEPT !.high = top]
  <2>1. l \in 1..l /\ l \in DOMAIN m /\ m[l] \in Ranges
    BY <1>1, <1>2
  <2>2. n = [m EXCEPT ![l] = u]
    <3>1. n = [m EXCEPT ![l].high = top]
      BY <1>2 DEF Absorb, l
    <3> QED
      BY <3>1
  <2>3. /\ u \in Ranges /\ u.low = m[l].low /\ u.high = top /\ top \in Nat
        /\ top >= r.high /\ top >= m[l].high /\ (top = r.high \/ top = m[l].high)
    <3>1. m[l].low \in Nat /\ m[l].high \in Nat /\ r.high \in Nat
      BY <2>1 DEF Ranges
    <3>2. top \in Nat /\ top >= r.high /\ top >= m[l].high /\ (top = r.high \/ top = m[l].high)
      BY <3>1
    <3> HIDE DEF top
    <3>3. u \in Ranges /\ u.low = m[l].low /\ u.high = top
      BY <2>1, <3>2 DEF Ranges
    <3> QED
      BY <3>2, <3>3
  <2> HIDE DEF u, top
  <2>4. /\ n \in Seq(Ranges) /\ Len(n) = l /\ DOMAIN n = 1..l
        /\ \A i \in 1..l : n[i] = IF i = l THEN u ELSE m[i]
    <3>1. l \in 1..Len(m)
      BY <2>1 DEF l
    <3>2. n \in Seq(Ranges) /\ Len(n) = Len(m) /\ \A i \in 1..Len(m) : n[i] = IF i = l THEN u ELSE m[i]
      BY <2>2, <2>3, <3>1, ExceptSeq
    <3>3. DOMAIN n = 1..Len(n)
      BY <3>2, LenProperties
    <3> QED
      BY <3>2, <3>3 DEF l
  <2> HIDE DEF n
  <2>5. n # <<>> /\ n[Len(n)].low <= r.low
    <3>1. n[Len(n)] = u /\ Len(n) # 0
      BY <1>1, <1>2, <2>1, <2>4
    <3>2. m[l].low <= r.low
      BY <1>2 DEF l
    <3>3. n # <<>>
      BY <3>1
    <3> QED
      BY <2>3, <3>1, <3>2, <3>3
  <2>6. ASSUME NEW i \in 1..l PROVE Forward(n[i]) /\ n[i].low = m[i].low /\ (i # l => n[i] = m[i])
    <3>1. Forward(m[i])
      BY <1>1
    <3>2. CASE i = l
      <4>1. n[i] = u
        BY <2>4, <3>2
      <4>2. m[l].low <= m[l].high /\ m[l].low \in Nat /\ m[l].high \in Nat
        BY <3>1, <3>2 DEF Forward, Ranges
      <4>3. u.low <= u.high
        BY <2>3, <4>2
      <4> QED
        BY <2>3, <3>2, <4>1, <4>3 DEF Forward
    <3>3. CASE i # l
      BY <2>4, <3>1, <3>3
    <3> QED
      BY <3>2, <3>3
  <2>7. Apart(n)
    <3> SUFFICES ASSUME NEW i \in 1..l, NEW j \in 1..l, i < j PROVE n[i].high + 1 < n[j].low
      BY <2>4 DEF Apart
    <3>1. i # l
      BY <1>1
    <3>2. m[i].high + 1 < m[j].low
      BY <1>1 DEF Apart
    <3> QED
      BY <2>6, <3>1, <3>2
  <2>8. ASSUME NEW x \in Int PROVE Names(n, x) <=> Names(m, x) \/ (r.low <= x /\ x <= r.high)
    <3>0. m[l].low \in Nat /\ m[l].high \in Nat /\ r.low \in Nat /\ r.high \in Nat /\ m[l].low <= r.low
          /\ r.low <= m[l].high + 1 /\ m[l].low <= m[l].high /\ r.low <= r.high
      BY <1>1, <1>2, <2>1 DEF Ranges, Forward
    <3>1. (u.low <= x /\ x <= u.high) <=> (m[l].low <= x /\ x <= m[l].high) \/ (r.low <= x /\ x <= r.high)
      BY <2>3, <3>0
    <3>2. n[l] = u
      BY <2>1, <2>4
    <3>3. Names(n, x) => Names(m, x) \/ (r.low <= x /\ x <= r.high)
      <4> SUFFICES ASSUME NEW i \in 1..l, n[i].low <= x /\ x <= n[i].high
                   PROVE  Names(m, x) \/ (r.low <= x /\ x <= r.high)
        BY <2>4 DEF Names
      <4>1. CASE i = l
        <5>1. (m[l].low <= x /\ x <= m[l].high) \/ (r.low <= x /\ x <= r.high)
          BY <3>1, <3>2, <4>1
        <5> QED
          BY <2>1, <5>1 DEF Names
      <4>2. CASE i # l
        BY <1>1, <2>6, <4>2 DEF Names
      <4> QED
        BY <4>1, <4>2
    <3>4. Names(m, x) => Names(n, x)
      <4> SUFFICES ASSUME NEW i \in 1..l, m[i].low <= x /\ x <= m[i].high PROVE Names(n, x)
        BY <1>1 DEF Names
      <4>1. CASE i = l
        BY <2>1, <2>4, <3>1, <3>2, <4>1 DEF Names
      <4>2. CASE i # l
        BY <2>4, <2>6, <4>2 DEF Names
      <4> QED
        BY <4>1, <4>2
    <3>5. r.low <= x /\ x <= r.high => Names(n, x)
      BY <2>1, <2>4, <3>1, <3>2 DEF Names
    <3> QED
      BY <3>3, <3>4, <3>5
  <2> QED
    BY <2>4, <2>5, <2>6, <2>7, <2>8 DEF n
<1>3. CASE ~(m # <<>> /\ r.low <= m[l].high + 1)
  <2>1. n = Append(m, r)
    BY <1>3 DEF Absorb, l
  <2>2. /\ n \in Seq(Ranges) /\ n # <<>> /\ Len(n) = l + 1 /\ DOMAIN n = 1..(l + 1)
        /\ (\A i \in 1..l : n[i] = m[i]) /\ n[l + 1] = r
    <3>1. /\ n \in Seq(Ranges) /\ n # <<>> /\ Len(n) = Len(m) + 1
          /\ (\A i \in 1..Len(m) : n[i] = m[i]) /\ n[Len(m) + 1] = r
      BY <2>1, AppendProperties
    <3>2. DOMAIN n = 1..Len(n)
      BY <3>1, LenProperties
    <3> QED
      BY <3>1, <3>2 DEF l
  <2> HIDE DEF n
  <2>3. \A i : i \in 1..(l + 1) <=> i \in 1..l \/ i = l + 1
    BY <1>1
  <2>4. \A i \in DOMAIN n : Forward(n[i])
    BY <1>1, <2>2, <2>3
  <2>5. Apart(n)
    <3> SUFFICES ASSUME NEW i \in 1..(l + 1), NEW j \in 1..(l + 1), i < j PROVE n[i].high + 1 < n[j].low
      BY <2>2 DEF Apart
    <3>1. CASE j \in 1..l
      <4>1. i \in 1..l
        BY <1>1, <3>1
      <4> QED
        BY <1>1, <2>2, <3>1, <4>1 DEF Apart
    <3>2. CASE j = l + 1
      <4>1. i \in 1..l /\ l > 0 /\ l \in 1..l
        BY <1>1, <3>2
      <4>2. m # <<>>
        BY <1>1, <4>1
      <4>3. m[l].high + 1 < r.low
        <5>1. ~(r.low <= m[l].high + 1) /\ m[l].high \in Nat /\ r.low \in Nat
          BY <1>1, <1>3, <4>1, <4>2 DEF Ranges
        <5> QED
          BY <5>1
      <4>4. CASE i = l
        BY <2>2, <3>2, <4>1, <4>3, <4>4
      <4>5. CASE i # l
        <5>1. i < l
          BY <1>1, <4>1, <4>5
        <5>2. m[i].high + 1 < m[l].low /\ m[l].low <= m[l].high
          BY <1>1, <4>1, <5>1 DEF Apart, Forward
        <5>3. m[i].high \in Nat /\ m[l].low \in Nat /\ m[l].high \in Nat /\ r.low \in Nat
          BY <1>1, <4>1 DEF Ranges
        <5>4. m[i].high + 1 < r.low
          <6>1. \A a, b, c, d \in Nat : a + 1 < b /\ b <= c /\ c + 1 < d => a + 1 < d
            OBVIOUS
          <6> QED
            BY <4>3, <5>2, <5>3, <6>1
        <5> QED
          BY <2>2, <3>2, <4>1, <5>4
      <4> QED
        BY <4>4, <4>5
    <3> QED
      BY <2>3, <3>1, <3>2
  <2>6. ASSUME NEW x \in Int PROVE Names(n, x) <=> Names(m, x) \/ (r.low <= x /\ x <= r.high)
    BY <1>1, <2>2, <2>3 DEF Names
  <2>7. n[Len(n)].low <= r.low
    BY <2>2 DEF Ranges
  <2> QED
    BY <2>2, <2>4, <2>5, <2>6, <2>7 DEF n
<1> QED
  BY <1>2, <1>3

\* The merge is what it says it is, at each of its steps.
LEMMA MergingUnfolds ==
  ASSUME NEW s, Len(s) \in Nat
  PROVE  Merging(s) = [i \in 0..Len(s) |-> IF i = 0 THEN <<>> ELSE Absorb(Merging(s)[i - 1], s[i])]
<1> DEFINE Is(f, n) == f = [i \in 0..n |-> IF i = 0 THEN <<>> ELSE Absorb(f[i - 1], s[i])]
           S == {n \in Nat : \E f : Is(f, n)}
<1>1. 0 \in S
  <2>1. Is([i \in 0..0 |-> <<>>], 0)
    OBVIOUS
  <2> QED
    BY <2>1
<1>2. ASSUME NEW n \in Nat, n \in S PROVE n + 1 \in S
  <2>1. PICK f : Is(f, n)
    BY <1>2
  <2> DEFINE g == [i \in 0..(n + 1) |-> IF i = n + 1 THEN Absorb(f[n], s[n + 1]) ELSE f[i]]
             h == [i \in 0..(n + 1) |-> IF i = 0 THEN <<>> ELSE Absorb(g[i - 1], s[i])]
  <2>2. ASSUME NEW i \in 0..(n + 1) PROVE g[i] = h[i]
    <3>1. CASE i = n + 1
      <4>1. i # 0 /\ i - 1 = n /\ n \in 0..(n + 1) /\ n # n + 1
        BY <3>1
      <4>2. g[i - 1] = f[n]
        BY <4>1
      <4> QED
        BY <3>1, <4>1, <4>2
    <3>2. CASE i # n + 1
      <4>1. i \in 0..n
        BY <3>2
      <4>2. f[i] = IF i = 0 THEN <<>> ELSE Absorb(f[i - 1], s[i])
        BY <2>1, <4>1
      <4>3. i # 0 => i - 1 \in 0..(n + 1) /\ i - 1 # n + 1
        BY <4>1
      <4>4. i # 0 => g[i - 1] = f[i - 1]
        BY <4>3
      <4> QED
        BY <3>2, <4>2, <4>4
    <3> QED
      BY <3>1, <3>2
  <2>3. g = h
    BY <2>2
  <2>4. Is(g, n + 1)
    BY <2>3
  <2>5. \E e : Is(e, n + 1)
    <3> HIDE DEF g, h
    <3> QED
      BY <2>4
  <2> QED
    BY <2>5
<1>3. Len(s) \in S
  <2>1. \A n \in Nat : n \in S => n + 1 \in S
    BY <1>2
  <2> HIDE DEF S
  <2> QED
    BY <1>1, <2>1, HasAllNaturals
<1>4. \E f : Is(f, Len(s))
  BY <1>3
<1>5. Merging(s) = CHOOSE f : Is(f, Len(s))
  BY DEF Merging
<1>6. Is(Merging(s), Len(s))
  BY <1>4, <1>5
<1> QED
  BY <1>6

\* Merging a usable list changes nothing of what it names and leaves gaps.
LEMMA MergedEffect ==
  ASSUME NEW t \in Seq(Ranges), \A i \in DOMAIN t : Forward(t[i])
  PROVE  /\ mergeRanges(t) \in Seq(Ranges) /\ Apart(mergeRanges(t))
         /\ \A i \in DOMAIN mergeRanges(t) : Forward(mergeRanges(t)[i])
         /\ \A x \in Int : Names(mergeRanges(t), x) <=> Names(t, x)
<1> DEFINE s == Sorted(t)
           f == Merging(s)
           Upto(n, x) == \E i \in 1..n : s[i].low <= x /\ x <= s[i].high
           Right(n) == /\ f[n] \in Seq(Ranges) /\ Apart(f[n])
                       /\ \A i \in DOMAIN f[n] : Forward(f[n][i])
                       /\ (f[n] # <<>> => n \in 1..Len(s) /\ f[n][Len(f[n])].low <= s[n].low)
                       /\ \A x \in Int : Names(f[n], x) <=> Upto(n, x)
           S == {n \in Nat : n <= Len(s) => Right(n)}
<1>1. s \in Seq(Ranges) /\ Ascending(s) /\ ToSet(s) = ToSet(t)
  BY SortedEffect
<1>2. mergeRanges(t) = f[Len(s)]
  BY DEF mergeRanges
<1> HIDE DEF s
<1>3. Len(s) \in Nat /\ DOMAIN s = 1..Len(s) /\ \A i \in 1..Len(s) : s[i] \in Ranges
  BY <1>1, LenProperties, ElementOfSeq
<1>4. \A i \in 1..Len(s) : Forward(s[i])
  <2>1. \A r \in ToSet(t) : Forward(r)
    BY DEF ToSet
  <2>2. \A i \in 1..Len(s) : s[i] \in ToSet(s)
    BY <1>3 DEF ToSet
  <2> QED
    BY <1>1, <2>1, <2>2
<1>5. \A i \in 0..Len(s) : f[i] = IF i = 0 THEN <<>> ELSE Absorb(f[i - 1], s[i])
  BY <1>3, MergingUnfolds
<1> HIDE DEF f
<1>6. 0 \in S
  <2>1. f[0] = <<>>
    <3>1. 0 \in 0..Len(s)
      BY <1>3
    <3> QED
      BY <1>5, <3>1
  <2>2. <<>> \in Seq(Ranges) /\ DOMAIN <<>> = {}
    OBVIOUS
  <2>3. Apart(<<>>) /\ \A x \in Int : ~Names(<<>>, x)
    BY <2>2 DEF Apart, Names
  <2>4. \A x \in Int : ~Upto(0, x)
    OBVIOUS
  <2> QED
    BY <2>1, <2>2, <2>3, <2>4
<1>7. ASSUME NEW n \in Nat, n \in S PROVE n + 1 \in S
  <2> SUFFICES ASSUME n + 1 <= Len(s) PROVE Right(n + 1)
    OBVIOUS
  <2>1. n + 1 \in 0..Len(s) /\ n + 1 # 0 /\ n + 1 - 1 = n /\ n <= Len(s) /\ n + 1 \in 1..Len(s)
    BY <1>3
  <2>2. f[n + 1] = Absorb(f[n], s[n + 1])
    BY <1>5, <2>1
  <2>3. Right(n)
    BY <1>7, <2>1
  <2>4. s[n + 1] \in Ranges /\ Forward(s[n + 1])
    BY <1>3, <1>4, <2>1
  <2>5. f[n] # <<>> => f[n][Len(f[n])].low <= s[n + 1].low
    <3> SUFFICES ASSUME f[n] # <<>> PROVE f[n][Len(f[n])].low <= s[n + 1].low
      OBVIOUS
    <3>1. n \in 1..Len(s) /\ f[n][Len(f[n])].low <= s[n].low /\ n < n + 1
      BY <2>3
    <3>2. ~Less(s[n + 1], s[n])
      BY <1>1, <1>3, <2>1, <3>1 DEF Ascending
    <3>3. s[n].low \in Nat /\ s[n + 1].low \in Nat
      BY <1>3, <2>4, <3>1 DEF Ranges
    <3>4. s[n].low <= s[n + 1].low
      BY <3>2, <3>3 DEF Less
    <3>5. f[n][Len(f[n])].low \in Nat
      <4>1. Len(f[n]) \in 1..Len(f[n])
        BY <2>3
      <4>2. f[n][Len(f[n])] \in Ranges
        BY <2>3, <4>1, ElementOfSeq
      <4> QED
        BY <4>2 DEF Ranges
    <3> QED
      BY <3>1, <3>3, <3>4, <3>5
  <2>6. LET e == Absorb(f[n], s[n + 1]) IN
        /\ e \in Seq(Ranges) /\ e # <<>> /\ e[Len(e)].low <= s[n + 1].low /\ Apart(e)
        /\ \A i \in DOMAIN e : Forward(e[i])
        /\ \A x \in Int : Names(e, x) <=> Names(f[n], x) \/ (s[n + 1].low <= x /\ x <= s[n + 1].high)
    BY <2>3, <2>4, <2>5, AbsorbEffect
  <2>7. \A i : i \in 1..(n + 1) <=> i \in 1..n \/ i = n + 1
    OBVIOUS
  <2>8. \A x \in Int : Upto(n + 1, x) <=> Upto(n, x) \/ (s[n + 1].low <= x /\ x <= s[n + 1].high)
    BY <2>7
  <2> QED
    BY <2>1, <2>2, <2>3, <2>6, <2>8
<1>8. Right(Len(s))
  <2>1. \A n \in Nat : n \in S => n + 1 \in S
    BY <1>7
  <2>2. Len(s) \in S
    <3> HIDE DEF S
    <3> QED
      BY <1>3, <1>6, <2>1, HasAllNaturals
  <2> QED
    BY <1>3, <2>2
<1>9. ASSUME NEW x \in Int PROVE Upto(Len(s), x) <=> Names(t, x)
  <2>1. Upto(Len(s), x) <=> \E r \in ToSet(s) : r.low <= x /\ x <= r.high
    BY <1>3 DEF ToSet
  <2>2. Names(t, x) <=> \E r \in ToSet(t) : r.low <= x /\ x <= r.high
    BY DEF ToSet, Names
  <2> QED
    BY <1>1, <2>1, <2>2
<1> QED
  BY <1>2, <1>8, <1>9

\* The search finds what the list names.
LEMMA SearchIsExact ==
  ASSUME NEW m \in Seq(Ranges), Apart(m), \A i \in DOMAIN m : Forward(m[i]) /\ m[i].low > 0, NEW x \in Int
  PROVE  Match(m, x) <=> Names(m, x)
<1> DEFINE n == Len(m)
           ends == {i \in DOMAIN m : m[i].high >= x}
           first == FirstEnding(m, x)
<1>1. n \in Nat /\ DOMAIN m = 1..n
  BY LenProperties
<1>2. \A i \in 1..n : m[i].low \in Nat /\ m[i].high \in Nat /\ m[i].low > 0 /\ m[i].low <= m[i].high
  BY <1>1, ElementOfSeq DEF Ranges, Forward
<1>3. CASE ends = {}
  <2>1. first = n + 1
    BY <1>3 DEF FirstEnding
  <2>2. ~Match(m, x)
    BY <1>1, <2>1 DEF Match
  <2>3. ~Names(m, x)
    BY <1>1, <1>2, <1>3 DEF Names
  <2> QED
    BY <2>2, <2>3
<1>4. CASE ends # {}
  <2>1. ends \subseteq Nat
    BY <1>1
  <2>2. \E i \in ends : \A j \in ends : i <= j
    <3> HIDE DEF ends
    <3> QED
      BY <1>4, <2>1, LeastOfSome
  <2>3. first = CHOOSE i \in ends : \A j \in ends : i <= j
    BY <1>4 DEF FirstEnding
  <2>4. first \in ends /\ \A j \in ends : first <= j
    <3> HIDE DEF ends, first
    <3> QED
      BY <2>2, <2>3
  <2>5. Match(m, x) <=> x > 0 /\ first <= n /\ m[first].low <= x
    BY DEF Match
  <2> HIDE DEF first
  <2>6. first \in 1..n /\ m[first].high >= x
    BY <1>1, <2>4
  <2>7. Match(m, x) => Names(m, x)
    BY <1>1, <1>2, <2>5, <2>6 DEF Names
  <2>8. ASSUME NEW i \in 1..n, m[i].low <= x, x <= m[i].high PROVE Match(m, x)
    <3>1. i \in ends /\ first <= i
      BY <1>1, <1>2, <2>4, <2>8
    <3>2. x > 0 /\ first <= n
      BY <1>1, <1>2, <2>6, <2>8
    <3>3. CASE first = i
      BY <2>5, <2>8, <3>2, <3>3
    <3>4. CASE first < i
      <4>1. m[first].high + 1 < m[i].low
        BY <1>1, <2>6, <3>4 DEF Apart
      <4>2. m[first].high \in Nat /\ m[first].low \in Nat /\ m[i].low \in Nat /\ m[first].low <= m[first].high
        BY <1>2, <2>6
      <4>3. m[first].low <= x
        BY <2>8, <4>1, <4>2
      <4> QED
        BY <2>5, <3>2, <4>3
    <3> QED
      BY <1>1, <2>6, <3>1, <3>3, <3>4
  <2> QED
    BY <1>1, <2>7, <2>8 DEF Names
<1> QED
  BY <1>3, <1>4

MatcherInv ==
  /\ spec \in Seq(Tokens)
  /\ matcher = buildFailoverMatcher(spec)

\* A list that is in force can be sorted, merged and searched.
LEMMA ListIsUsable ==
  ASSUME NEW tokens \in Seq(Tokens)
  PROVE  /\ InForce(tokens) \in Seq(Ranges)
         /\ \A i \in DOMAIN InForce(tokens) : Forward(InForce(tokens)[i]) /\ InForce(tokens)[i].low >= 400
<1>1. CASE ~Usable(tokens)
  <2>1. InForce(tokens) = Default
    BY <1>1 DEF InForce
  <2>2. Default \in Seq(Ranges) /\ \A i \in DOMAIN Default : ValidToken(Default[i])
    BY DefaultAssumption DEF Usable
  <2>3. \A i \in DOMAIN Default : Default[i] \in Ranges
    BY <2>2, LenProperties, ElementOfSeq
  <2> QED
    BY <2>1, <2>2, <2>3 DEF ValidToken, Forward
<1>2. CASE Usable(tokens)
  <2>1. InForce(tokens) = tokens
    BY <1>2 DEF InForce
  <2>2. \A i \in DOMAIN tokens : tokens[i] \in Tokens /\ ValidToken(tokens[i])
    BY <1>2, LenProperties, ElementOfSeq DEF Usable
  <2>3. \A i \in DOMAIN tokens : tokens[i] \in Ranges
    BY <2>2, CodesAssumption DEF Tokens, ValidToken, Ranges
  <2>4. tokens \in Seq(Ranges)
    <3>1. tokens \in [1..Len(tokens) -> Ranges] /\ Len(tokens) \in Nat
      BY <2>3, LenProperties
    <3> QED
      BY <3>1
  <2> QED
    BY <2>1, <2>2, <2>3, <2>4 DEF ValidToken, Forward
<1> QED
  BY <1>1, <1>2

\* The matcher in force is the one of the spec in force.
LEMMA MatcherInvIsEnough ==
  ASSUME MatcherInv
  PROVE  MatcherIsExact
<1> DEFINE t == InForce(spec)
           m == mergeRanges(t)
<1>1. t \in Seq(Ranges) /\ \A i \in DOMAIN t : Forward(t[i]) /\ t[i].low >= 400
  BY ListIsUsable DEF MatcherInv
<1>2. matcher = m
  BY DEF MatcherInv, buildFailoverMatcher
<1> HIDE DEF t
<1>3. /\ m \in Seq(Ranges) /\ Apart(m) /\ \A i \in DOMAIN m : Forward(m[i])
      /\ \A x \in Int : Names(m, x) <=> Names(t, x)
  BY <1>1, MergedEffect
<1> HIDE DEF m
<1>4. ASSUME NEW i \in DOMAIN m PROVE m[i].low > 0
  <2>1. m[i].low \in Nat /\ m[i].high \in Nat /\ m[i].low <= m[i].high /\ m[i].low \in Int
    BY <1>3 DEF Forward, Ranges
  <2>2. Names(m, m[i].low)
    BY <2>1 DEF Names
  <2>3. PICK k \in DOMAIN t : t[k].low <= m[i].low
    BY <1>3, <2>1, <2>2 DEF Names
  <2>4. t[k].low \in Nat /\ t[k].low >= 400
    BY <1>1 DEF Forward, Ranges
  <2> QED
    BY <2>1, <2>3, <2>4
<1>5. ASSUME NEW x \in Int PROVE Match(m, x) <=> Names(t, x)
  <2>1. Match(m, x) <=> Names(m, x)
    BY <1>3, <1>4, SearchIsExact
  <2> QED
    BY <1>3, <2>1
<1>6. MatchMeansListed
  BY <1>2, <1>5, StatusesAssumption DEF MatchMeansListed, Means, t
<1>7. RangesApart
  BY <1>2, <1>3 DEF RangesApart
<1> QED
  BY <1>6, <1>7 DEF MatcherIsExact

\* A code fails over exactly when the list in force names it, and the merged
\* ranges keep their gaps, for every list of codes and ranges, however long
\* (matcher.go:41-173, attempt.go:269-299).
THEOREM MatcherExact == MatcherSpec => []MatcherIsExact
<1>1. MatcherInit => MatcherInv
  <2>1. <<>> \in Seq(Tokens)
    OBVIOUS
  <2> QED
    BY <2>1 DEF MatcherInit, MatcherInv
<1>2. MatcherInv /\ [MatcherNext]_matcherVars => MatcherInv'
  <2> SUFFICES ASSUME MatcherInv, [MatcherNext]_matcherVars PROVE MatcherInv'
    OBVIOUS
  <2>1. CASE Clear
    <3>1. <<>> \in Seq(Tokens)
      OBVIOUS
    <3> QED
      BY <2>1, <3>1 DEF Clear, MatcherInv
  <2>2. ASSUME NEW token \in Tokens, Configure(token) PROVE MatcherInv'
    <3>1. Append(spec, token) \in Seq(Tokens)
      BY AppendProperties DEF MatcherInv
    <3> QED
      BY <2>2, <3>1 DEF Configure, MatcherInv
  <2>3. CASE UNCHANGED matcherVars
    BY <2>3 DEF MatcherInv, matcherVars
  <2> QED
    BY <2>1, <2>2, <2>3 DEF MatcherNext
<1>3. MatcherInv => MatcherIsExact
  BY MatcherInvIsEnough
<1> QED
  BY <1>1, <1>2, <1>3, PTL DEF MatcherSpec

=============================================================================

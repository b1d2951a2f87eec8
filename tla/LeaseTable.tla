----------------------------- MODULE LeaseTable -----------------------------
(***************************************************************************)
(* What the credential pool promises the rest of the router, without the   *)
(* lock, the queue, the rotation or the counters: callers ask for a key    *)
(* and are granted one that is usable for their model and has room, or are *)
(* refused; a lease is given back once; a key that leaves the pool takes   *)
(* its leases with it, so that a key of the same id starts empty.          *)
(* KeyPoolTable shows that KeyPool implements it.                          *)
(***************************************************************************)
EXTENDS Naturals, FiniteSets

CONSTANTS
  Keys,          \* key ids
  Models,        \* model ids
  Callers,       \* who may ask
  Requests,      \* what they may ask for
  MaxStreaming,  \* streams that share one key
  NoLease        \* a caller without a lease

VARIABLES
  open,    \* the pool has not been shut down
  usable,  \* the pairs <<key, model>> that may serve
  asking,  \* the callers inside Acquire without a lease
  want,    \* what each caller asked for last
  held     \* the lease of each caller

tableVars == <<open, usable, asking, want, held>>

\* The callers with a live lease of one kind on key k.
Using(k, stream) ==
  {c \in Callers : /\ held[c] # NoLease
                   /\ held[c].key = k
                   /\ held[c].stream = stream
                   /\ held[c].live}

\* One short request and MaxStreaming streams fit on a key.
HasRoom(k, stream) ==
  IF stream THEN Cardinality(Using(k, TRUE)) < MaxStreaming
            ELSE Using(k, FALSE) = {}

Start ==
  /\ open = TRUE
  /\ usable \subseteq Keys \X Models
  /\ asking = {}
  /\ want \in [Callers -> Requests]
  /\ held = [c \in Callers |-> NoLease]

Ask(c) ==
  /\ open = TRUE
  /\ c \notin asking /\ held[c] = NoLease
  /\ asking' = asking \cup {c}
  /\ \E q \in Requests : want' = [want EXCEPT ![c] = q]
  /\ UNCHANGED <<open, usable, held>>

GrantKey(c, k) ==
  /\ open = TRUE
  /\ c \in asking /\ held[c] = NoLease
  /\ <<k, want[c].model>> \in usable
  /\ want[c].noRelax => k \notin want[c].attempted
  /\ HasRoom(k, want[c].stream)
  /\ held' = [held EXCEPT ![c] =
       [key |-> k, stream |-> want[c].stream, live |-> TRUE]]
  /\ asking' = asking \ {c}
  /\ UNCHANGED <<open, usable, want>>

Refuse(c) ==
  /\ c \in asking
  /\ asking' = asking \ {c}
  /\ UNCHANGED <<open, usable, want, held>>

GiveBackLease(c) ==
  /\ held[c] # NoLease
  /\ held' = [held EXCEPT ![c] = NoLease]
  /\ UNCHANGED <<open, usable, asking, want>>

Retire(k) ==
  /\ usable' = {pair \in usable : pair[1] # k}
  /\ held' = [c \in Callers |-> IF held[c] # NoLease /\ held[c].key = k
                                THEN [held[c] EXCEPT !.live = FALSE]
                                ELSE held[c]]
  /\ UNCHANGED <<open, asking, want>>

\* Keys join, rest, recover, are blocked or switched; models likewise.
HealthChanges ==
  /\ usable' \subseteq Keys \X Models
  /\ UNCHANGED <<open, asking, want, held>>

Close ==
  /\ open' = FALSE
  /\ UNCHANGED <<usable, asking, want, held>>

TableNext ==
  \/ \E c \in Callers :
       \/ Ask(c) \/ Refuse(c) \/ GiveBackLease(c)
       \/ \E k \in Keys : GrantKey(c, k)
  \/ \E k \in Keys : Retire(k)
  \/ HealthChanges
  \/ Close

TableSpec == Start /\ [][TableNext]_tableVars
=============================================================================

--------------------------- MODULE ExitTransports ---------------------------
(***************************************************************************)
(* The manager's cache of transports (internal/xkproxy/manager.go) under    *)
(* concurrent requests: Acquire looks the session up under the read lock,  *)
(* selects an exit and builds a transport without a lock, and installs it  *)
(* under the write lock.  A transport has the name of the request that     *)
(* built it.  The cache is kept in the order of last use, oldest first.    *)
(* What the pool says of an exit changes at any moment (ExitPool).         *)
(***************************************************************************)
EXTENDS Sequences, SequencesExt

CONSTANTS
  Requests, Sessions, PoolExits,
  MaxCached,  \* maxCachedTransports
  NoEntry     \* no transport, no exit, no session

ASSUME MaxCachedAssumption == MaxCached \in Nat

VARIABLES
  cache,   \* the cached transports
  exitIs,  \* per exit: "available", "ejected" or "gone"
  manager, \* "open" or "closed"
  req      \* per request: its step in Acquire and what it remembers

transportVars == <<cache, exitIs, manager, req>>

NewRequest == [at |-> "start", session |-> NoEntry, seen |-> NoEntry,
               selected |-> NoEntry, handle |-> NoEntry, dials |-> NoEntry]

TransportsInit ==
  /\ cache = <<>>
  /\ exitIs \in [PoolExits -> {"available", "gone"}]
  /\ manager = "open"
  /\ req = [r \in Requests |-> NewRequest]

EntriesOf(session) == {e \in ToSet(cache) : e.session = session}
EntryOf(session) == IF EntriesOf(session) = {} THEN NoEntry ELSE CHOOSE e \in EntriesOf(session) : TRUE
Without(session) ==
  IF EntriesOf(session) = {} THEN cache
  ELSE RemoveAt(cache, CHOOSE i \in DOMAIN cache : cache[i].session = session)

\* What the pool hands out: available exits, in a panic ejected ones.
Selectable ==
  LET among(kind) == {x \in PoolExits : exitIs[x] = kind} IN
  IF among("available") # {} THEN among("available") ELSE among("ejected")

\* The newest entry last; over the limit the least recently used one goes.
EvictLeastRecentlyUsed(entries) == IF Len(entries) > MaxCached THEN Tail(entries) ELSE entries
Put(entry) == EvictLeastRecentlyUsed(Append(Without(entry.session), entry))

At(r, at) == req[r].at = at

\* A handle names the exit of the entry it was cut from.
Handle(r, entry) ==
  req' = [req EXCEPT ![r].at = "held", ![r].handle = [transport |-> entry.transport, exit |-> entry.exit]]
Refuse(r, why) == req' = [req EXCEPT ![r].at = why]

(***************************************************************************)
(* Acquire.                                                                *)
(***************************************************************************)
\* The read-locked look.
Look(r, session) ==
  /\ At(r, "start") \/ (At(r, "waits") /\ session = req[r].session)
  /\ LET entry == EntryOf(session)
         next == CASE manager = "closed" -> "closed"
                   [] manager = "open" /\ entry = NoEntry -> "miss"
                   [] manager = "open" /\ entry # NoEntry /\ (entry.old \/ exitIs[entry.exit] # "available") -> "rebuild"
                   [] OTHER -> "touch" IN
     req' = [req EXCEPT ![r].at = next, ![r].session = session, ![r].seen = entry]
  /\ UNCHANGED <<cache, exitIs, manager>>

Current(r) == EntryOf(req[r].session)
SeenIsCurrent(r) == Current(r) # NoEntry /\ Current(r).transport = req[r].seen.transport

\* The entry is kept: it is still the one that was seen, or the request
\* starts over as a miss.
Touch(r) ==
  /\ At(r, "touch")
  /\ IF SeenIsCurrent(r)
       THEN /\ cache' = Put(Current(r))
            /\ Handle(r, Current(r))
       ELSE Refuse(r, "miss") /\ UNCHANGED cache
  /\ UNCHANGED <<exitIs, manager>>

\* The rebuild's selection: without an exit, or with the one it has and only
\* its age against it, the entry is kept.
Reselect(r) ==
  /\ At(r, "rebuild")
  /\ \/ /\ Selectable = {}
        /\ Refuse(r, "touch")
     \/ \E x \in Selectable :
          req' = IF req[r].seen.old /\ x = req[r].seen.exit
                   THEN [req EXCEPT ![r].at = "touch"]
                   ELSE [req EXCEPT ![r].at = "replace", ![r].selected = x, ![r].dials = x]
  /\ UNCHANGED <<cache, exitIs, manager>>

Built(r) == [session |-> req[r].session, transport |-> r, exit |-> req[r].selected, old |-> FALSE]

InstallAnyway(r) == cache' = Put(Built(r)) /\ Handle(r, Built(r))
Replace(r) ==
  /\ At(r, "replace")
  /\ IF manager = "closed"
       THEN Refuse(r, "closed") /\ UNCHANGED cache
       ELSE InstallAnyway(r)
  /\ UNCHANGED <<exitIs, manager>>

SelectForMiss(r) ==
  /\ At(r, "miss")
  /\ \/ Selectable = {} /\ Refuse(r, "none")
     \/ \E x \in Selectable : req' = [req EXCEPT ![r].at = "install", ![r].selected = x, ![r].dials = x]
  /\ UNCHANGED <<cache, exitIs, manager>>

\* Another request may have installed an entry meanwhile: that one is used.
UseExisting(r) == cache' = Put(Current(r)) /\ Handle(r, Current(r))
Install(r) ==
  /\ At(r, "install")
  /\ CASE manager = "closed" -> Refuse(r, "closed") /\ UNCHANGED cache
       [] manager = "open" /\ Current(r) # NoEntry -> UseExisting(r)
       [] OTHER -> InstallAnyway(r)
  /\ UNCHANGED <<exitIs, manager>>

\* AcquireWithWait: only an empty pool is worth another look, until the budget
\* is spent.
Await(r) ==
  /\ At(r, "none")
  /\ \E next \in {"waits", "unhealthy"} : Refuse(r, next)
  /\ UNCHANGED <<cache, exitIs, manager>>

(***************************************************************************)
(* What a request does with its handle.                                    *)
(***************************************************************************)
\* Slip: whatever the session has now is dropped.
DropSession(r) == Without(req[r].session)

\* Only the entry the handle was cut from leaves the cache.
DropIfSame(r) ==
  IF Current(r) # NoEntry /\ Current(r).transport = req[r].handle.transport
    THEN Without(req[r].session) ELSE cache

\* A transport failure: the exit is reported and the transport dropped.
Retire(r) ==
  /\ At(r, "held")
  /\ cache' = DropIfSame(r)
  /\ \E is \in IF exitIs[req[r].handle.exit] = "gone" THEN {"gone"} ELSE {exitIs[req[r].handle.exit], "ejected", "gone"} :
       exitIs' = [exitIs EXCEPT ![req[r].handle.exit] = is]
  /\ Refuse(r, "done")
  /\ UNCHANGED manager

\* The session is to take another exit, which is not at fault.
Invalidate(r) ==
  /\ At(r, "held")
  /\ cache' = DropIfSame(r)
  /\ Refuse(r, "done")
  /\ UNCHANGED <<exitIs, manager>>

(***************************************************************************)
(* The surroundings: the pool, the rebind interval, the end of the manager. *)
(***************************************************************************)
ExitTurns(x, is) ==
  /\ exitIs[x] # is
  /\ exitIs' = [exitIs EXCEPT ![x] = is]
  /\ UNCHANGED <<cache, manager, req>>

GrowOld(i) ==
  /\ ~cache[i].old
  /\ cache' = [cache EXCEPT ![i].old = TRUE]
  /\ UNCHANGED <<exitIs, manager, req>>

Close ==
  /\ manager = "open"
  /\ manager' = "closed"
  /\ cache' = <<>>
  /\ UNCHANGED <<exitIs, req>>

TransportsNext ==
  \/ \E r \in Requests :
       \/ \E session \in Sessions : Look(r, session)
       \/ Touch(r) \/ Reselect(r) \/ Replace(r) \/ SelectForMiss(r) \/ Install(r) \/ Await(r)
       \/ Retire(r) \/ Invalidate(r)
  \/ \E x \in PoolExits, is \in {"available", "ejected", "gone"} : ExitTurns(x, is)
  \/ \E i \in DOMAIN cache : GrowOld(i)
  \/ Close

(***************************************************************************)
(* Properties.                                                             *)
(***************************************************************************)
\* A handle, on which failures and successes are reported, names the exit that
\* its transport really dials, whoever built the transport (manager.go:121-127).
HandleNamesDialled ==
  \A r \in Requests : At(r, "held") => req[r].handle.exit = req[req[r].handle.transport].dials

\* Requests that were building a transport when the manager closed leave none
\* behind in it (manager.go:334, 379, 495-521).
ClosedKeepsNothing == manager = "closed" => cache = <<>>

\* A session has one cached transport and the cache keeps its bound, however
\* its requests overlap (manager.go:384-399, 403-415).
CacheBounded ==
  /\ Len(cache) <= MaxCached
  /\ \A i, j \in DOMAIN cache : cache[i].session = cache[j].session => i = j

\* A request that gives its transport up takes none away that another request
\* has put in its place since (manager.go:483, 773).
RetiresOwnOnly ==
  [][\A r \in Requests :
       (At(r, "held") /\ req'[r].at = "done")
       => \A e \in ToSet(cache) : e.transport # req[r].handle.transport => e \in ToSet(cache')]_transportVars

\* However requests, eviction and closing overlap, the cache is bounded, holds
\* nothing after the close, names what it dials and keeps others' transports.
TransportsAreSound ==
  [](HandleNamesDialled /\ ClosedKeepsNothing /\ CacheBounded) /\ RetiresOwnOnly
=============================================================================

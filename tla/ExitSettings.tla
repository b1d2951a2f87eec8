---------------------------- MODULE ExitSettings ----------------------------
(***************************************************************************)
(* Changing the egress configuration under traffic: SettingsService        *)
(* (internal/xkproxy/settings.go), the Switcher that requests go through   *)
(* (switcher.go), and the life of a manager and its collector (manager.go, *)
(* collector.go).  A configuration is whether a pool is configured, whether *)
(* it is on, its upstream URL and one more setting.  A manager has the     *)
(* name of the update that built it.                                       *)
(***************************************************************************)
EXTENDS Naturals, FiniteSets

CONSTANTS
  Updates, Refreshes, Acquires, \* concurrent calls
  Patches,                      \* what an administrator may send
  Environment,                  \* the pool configured in the environment, or NoPool
  InitialRows,                  \* rows a previous process may have left
  Boot,                         \* the name of the manager of the start
  Keep, NoPool, NoRow, Refused, Nobody

ASSUME SettingsAssumption == Boot \notin Updates /\ Nobody \notin Updates \cup {Boot}

VARIABLES
  row,      \* proxy_pool_settings
  current,  \* the configuration the service believes in
  service,  \* "open" or "closed"
  live,     \* the switcher's manager, or Nobody
  switcher, \* "on", "off" or "closed"
  manages,  \* per manager: "none", "open", "closing" or "closed"
  runs,     \* per manager: its collector goroutine
  update,   \* per update: where it is, its configuration, the manager it must close
  call      \* per refresh and acquire: where it is and the manager it uses

settingsVars == <<row, current, service, live, switcher, manages, runs, update, call>>

Managers == Updates \cup {Boot}
Calls == Refreshes \cup Acquires

(***************************************************************************)
(* Configurations: what a patch makes of one, and what a restart reads.    *)
(***************************************************************************)
Unset == [pool |-> FALSE, on |-> FALSE, url |-> "", setting |-> "default", source |-> "database"]
ValidPoolSettings(c) == c.setting # "invalid"
Choose(new, old) == IF new = Keep THEN old ELSE new

\* The pool a patch starts from: the current one, the environment's, the default.
PoolBase(c) ==
  IF c.pool THEN c
  ELSE IF Environment # NoPool THEN Environment ELSE [Unset EXCEPT !.pool = TRUE]

ApplyPoolPatch(c, p) ==
  [pool |-> TRUE, on |-> Choose(p.on, c.on), url |-> Choose(p.url, PoolBase(c).url),
   setting |-> Choose(p.setting, PoolBase(c).setting), source |-> "database"]

BuiltIn(c, p) == Environment # NoPool \/ c.pool \/ p.url # Keep

\* Fixed proxies are refused; a pool that is on has an upstream; without any
\* pool there is nothing to turn on.
ApplyPatch(c, p) ==
  LET next == ApplyPoolPatch(c, p) IN
  CASE p.fixed -> Refused
    [] ~p.fixed /\ BuiltIn(c, p) ->
         IF p.clear \/ ~ValidPoolSettings(next) \/ (next.on /\ next.url = "") THEN Refused ELSE next
    [] OTHER -> IF Choose(p.on, c.on) THEN Refused ELSE Unset

\* persist: the row of a configuration.
Persisted(c) == [kind |-> IF c.pool THEN "pool" ELSE "plain", on |-> c.on, url |-> c.url, setting |-> c.setting]

EnvironmentConfig ==
  IF Environment = NoPool THEN [Unset EXCEPT !.source = "none"]
  ELSE [Environment EXCEPT !.on = TRUE, !.source = "environment"]

\* databaseProxyConfig: a legacy row with a fixed proxy takes the environment's
\* pool or is refused; an empty upstream falls back to the environment's.
StoredPool(r) ==
  LET base == IF Environment = NoPool THEN [Unset EXCEPT !.pool = TRUE] ELSE Environment
      url == IF r.url = "" /\ Environment # NoPool THEN Environment.url ELSE r.url
      setting == IF r.kind = "pool" THEN r.setting ELSE base.setting IN
  [pool |-> TRUE, on |-> r.on, url |-> url, setting |-> setting, source |-> "database"]
LoadCurrent(r) ==
  CASE r = NoRow -> EnvironmentConfig
    [] r # NoRow /\ r.kind = "fixed" ->
         IF Environment = NoPool THEN Refused ELSE [Environment EXCEPT !.on = r.on]
    [] r # NoRow /\ (r.kind = "pool" \/ Environment # NoPool) /\ r.kind # "fixed" ->
         IF ~ValidPoolSettings(StoredPool(r)) \/ (r.on /\ StoredPool(r).url = "") THEN Refused ELSE StoredPool(r)
    [] OTHER -> IF r.on THEN Refused ELSE Unset

(***************************************************************************)
(* NewSettingsService: a process whose row cannot be read does not start.  *)
(***************************************************************************)
SettingsInit ==
  /\ \E r \in InitialRows :
       /\ LoadCurrent(r) # Refused
       /\ current = LoadCurrent(r)
       /\ row = IF r # NoRow /\ r.kind = "fixed" THEN Persisted(LoadCurrent(r)) ELSE r
  /\ service = "open"
  /\ live = IF current.on THEN Boot ELSE Nobody
  /\ switcher = IF current.on THEN "on" ELSE "off"
  /\ manages = [m \in Managers |-> IF m = Boot /\ current.on THEN "open" ELSE "none"]
  /\ runs = [m \in Managers |-> IF m = Boot /\ current.on THEN "timer" ELSE "off"]
  /\ update = [u \in Updates |-> [at |-> "start", next |-> Refused, closes |-> Nobody]]
  /\ call = [c \in Calls |-> [at |-> "start", uses |-> Nobody]]

(***************************************************************************)
(* The switcher's lock: calls hold it shared, for all of a refresh; an     *)
(* update or the shutdown that waits for it keeps new calls out.           *)
(***************************************************************************)
Inside == {c \in Calls : call[c].at \in {"in", "queued", "fetching"}}
WriterWaits == \E u \in Updates : update[u].at = "apply"
NoReader == Inside = {}

Enter(c) ==
  /\ call[c].at = "start"
  /\ ~WriterWaits
  /\ call' = [call EXCEPT ![c] = IF switcher = "on" THEN [at |-> "in", uses |-> live]
                                 ELSE [at |-> "refused", uses |-> Nobody]]
  /\ UNCHANGED <<row, current, service, live, switcher, manages, runs, update>>

Acquired(a) ==
  /\ call[a].at = "in"
  /\ call' = [call EXCEPT ![a].at = "done"]
  /\ UNCHANGED <<row, current, service, live, switcher, manages, runs, update>>

(***************************************************************************)
(* The collector: the goroutine and the administrator's refreshes fetch    *)
(* one at a time; Close waits for all of them.                             *)
(***************************************************************************)
Fetching(m) == runs[m] = "fetching" \/ \E r \in Refreshes : call[r].at = "fetching" /\ call[r].uses = m
Counted(m) == runs[m] \notin {"off", "ended"} \/ \E r \in Refreshes : call[r].at \in {"queued", "fetching"} /\ call[r].uses = m

\* Refresh, beginLifecycle: a closed collector is not fetched with.
BeginRefresh(r) ==
  /\ call[r].at = "in"
  /\ call' = [call EXCEPT ![r].at = IF manages[call[r].uses] = "open" THEN "queued" ELSE "refused"]
  /\ UNCHANGED <<row, current, service, live, switcher, manages, runs, update>>
RefreshFetches(r) ==
  /\ call[r].at = "queued"
  /\ ~Fetching(call[r].uses)
  /\ call' = [call EXCEPT ![r].at = "fetching"]
  /\ UNCHANGED <<row, current, service, live, switcher, manages, runs, update>>
RefreshEnds(r) ==
  /\ call[r].at = "fetching"
  /\ call' = [call EXCEPT ![r].at = "done"]
  /\ UNCHANGED <<row, current, service, live, switcher, manages, runs, update>>

RunMoves(m, from, to) ==
  /\ runs[m] = from
  /\ runs' = [runs EXCEPT ![m] = to]
  /\ UNCHANGED <<row, current, service, live, switcher, manages, update, call>>

\* The timer (which a new collector does not wait for), beginLifecycle, fetchMu.
FetchSingleFlight(m) == manages[m] = "open" /\ RunMoves(m, "timer", "queued")
RunFetches(m) == ~Fetching(m) /\ RunMoves(m, "queued", "fetching")
RunFetched(m) == RunMoves(m, "fetching", "timer")
RunEnds(m) == (manages[m] # "open" \/ service = "closed") /\ RunMoves(m, "timer", "ended")

\* Slip: the client is closed under a fetch.
CloseAtOnce(m) == manages[m] = "closing"

\* Collector.Close: nothing fetches any more when the client goes away.
Drained(m) == manages[m] = "closing" /\ ~Counted(m)
CollectorCloses(m) ==
  /\ Drained(m)
  /\ manages' = [manages EXCEPT ![m] = "closed"]
  /\ UNCHANGED <<row, current, service, live, switcher, runs, update, call>>

(***************************************************************************)
(* Update.                                                                 *)
(***************************************************************************)
\* Under the service's lock: a configuration that changes nothing ends the
\* update, another one gets its manager, whose collector starts at once.
BeginUpdate(u, patch) ==
  LET next == ApplyPatch(current, patch) IN
  /\ update[u].at = "start"
  /\ IF service = "closed" \/ next = Refused \/ next = current
       THEN /\ update' = [update EXCEPT ![u].at = IF service = "open" /\ next = current THEN "unchanged" ELSE "failed"]
            /\ UNCHANGED <<manages, runs>>
       ELSE /\ update' = [update EXCEPT ![u].at = "persist", ![u].next = next]
            /\ manages' = [manages EXCEPT ![u] = IF next.on THEN "open" ELSE @]
            /\ runs' = [runs EXCEPT ![u] = IF next.on THEN "timer" ELSE @]
  /\ UNCHANGED <<row, current, service, live, switcher, call>>

\* The row is written outside the lock; when that fails the manager goes.
PersistFails(u) == update' = [update EXCEPT ![u].at = "dispose", ![u].closes = u]
Persist(u) ==
  /\ update[u].at = "persist"
  /\ \/ row' = Persisted(update[u].next) /\ update' = [update EXCEPT ![u].at = "apply"]
     \/ PersistFails(u) /\ UNCHANGED row
  /\ UNCHANGED <<current, service, live, switcher, manages, runs, call>>

\* The new manager takes the old one's place; a closed switcher takes none.
MayWrite == NoReader
Apply(u) ==
  LET mine == IF update[u].next.on THEN u ELSE Nobody IN
  /\ update[u].at = "apply"
  /\ MayWrite
  /\ IF switcher = "closed"
       THEN /\ update' = [update EXCEPT ![u].at = "dispose", ![u].closes = mine]
            /\ UNCHANGED <<live, switcher>>
       ELSE /\ update' = [update EXCEPT ![u].at = "retire", ![u].closes = live]
            /\ live' = mine
            /\ switcher' = IF update[u].next.on THEN "on" ELSE "off"
  /\ UNCHANGED <<row, current, service, manages, runs, call>>

\* Manager.Close: the first caller closes the collector and waits for it.
Closes(u) ==
  /\ update[u].at \in {"retire", "dispose"}
  /\ update[u].closes # Nobody
  /\ manages[update[u].closes] = "open"
  /\ manages' = [manages EXCEPT ![update[u].closes] = "closing"]
  /\ UNCHANGED <<row, current, service, live, switcher, runs, update, call>>

\* Then the service believes in the new configuration.
Commit(u) ==
  /\ update[u].at \in {"retire", "dispose"}
  /\ LET m == update[u].closes IN IF m = Nobody THEN TRUE ELSE manages[m] \in {"none", "closed"}
  /\ IF update[u].at = "retire"
       THEN current' = update[u].next /\ update' = [update EXCEPT ![u].at = "done"]
       ELSE update' = [update EXCEPT ![u].at = "failed"] /\ UNCHANGED current
  /\ UNCHANGED <<row, service, live, switcher, manages, runs, call>>

\* Shutdown: the service, then the switcher and the manager it had.
CloseService ==
  /\ service = "open"
  /\ service' = "closed"
  /\ UNCHANGED <<row, current, live, switcher, manages, runs, update, call>>
CloseSwitcher ==
  /\ service = "closed"
  /\ switcher # "closed"
  /\ MayWrite
  /\ switcher' = "closed"
  /\ live' = Nobody
  /\ manages' = IF live = Nobody THEN manages ELSE [manages EXCEPT ![live] = "closing"]
  /\ UNCHANGED <<row, current, service, runs, update, call>>

UpdateStep(u) == Persist(u) \/ Apply(u) \/ Closes(u) \/ Commit(u)
RefreshStep(r) == BeginRefresh(r) \/ RefreshFetches(r) \/ RefreshEnds(r)
RunStep(m) == RunFetches(m) \/ RunFetched(m) \/ RunEnds(m) \/ CollectorCloses(m)

SettingsNext ==
  \/ \E u \in Updates : UpdateStep(u) \/ \E p \in Patches : BeginUpdate(u, p)
  \/ \E c \in Calls : Enter(c)
  \/ \E r \in Refreshes : RefreshStep(r)
  \/ \E a \in Acquires : Acquired(a)
  \/ \E m \in Managers : FetchSingleFlight(m) \/ RunStep(m)
  \/ CloseService \/ CloseSwitcher

(***************************************************************************)
(* Properties.                                                             *)
(***************************************************************************)
Ended(u) == update[u].at \in {"done", "failed", "unchanged"}

\* A request or a refresh that is inside the switcher uses a manager nobody is
\* closing (switcher.go:45-61, 80-90, 92-118).
UsedManagerIsOpen == \A c \in Inside : manages[call[c].uses] = "open"

\* The collector's client is closed after the last fetch that uses it, also when
\* an administrator's refresh races the replacement (collector.go:228-247, 493-517).
ClosedAfterLastFetch == \A m \in Managers : manages[m] = "closed" => ~Fetching(m)

\* However updates fail, race and meet the shutdown, every manager whose update
\* is over is the one in use or on its way out: no collector keeps fetching on
\* its own (settings.go:240-248, switcher.go:103-116).
NoManagerLeaks ==
  \A m \in Managers :
    (manages[m] = "open" /\ (m = Boot \/ Ended(m)))
    => live = m \/ \E u \in Updates : update[u].closes = m /\ ~Ended(u)

\* Every update that got past its checks ends, although it waits for the
\* switcher's readers and for the old collector's fetches (settings.go:235-248).
UpdatesEnd == \A u \in Updates : (update[u].at = "persist") ~> Ended(u)

\* A manager is open while it is used, its collector until its last fetch is over,
\* and none stays behind.
ManagersAreSound == UsedManagerIsOpen /\ ClosedAfterLastFetch /\ NoManagerLeaks
=============================================================================

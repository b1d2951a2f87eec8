------------------------------ MODULE LoginGate ------------------------------
(***************************************************************************)
(* The administrator's login and its rate limiter                          *)
(* (internal/adminauth/ratelimit.go, httpapi/admin/auth.go login): a       *)
(* bounded table of states in order of last use, one state per address and *)
(* one per username and address, sliding windows of attempts, the failure  *)
(* count that sets the delay of the answer.  Verifying a password is its   *)
(* outcome; what a matched login does next is in AdminSessions.            *)
(***************************************************************************)
EXTENDS Naturals, FiniteSets, SequencesExt

CONSTANTS
  Logins,        \* login requests
  Addresses,     \* client addresses
  Usernames,     \* usernames a request may name
  AttemptLimit,  \* loginAttemptLimit
  Window,        \* loginWindow, in ticks
  StateLifetime, \* loginStateLifetime, in ticks
  MaxStates,     \* maxLoginStates
  GateDeadline   \* the last tick of the clock

ASSUME LoginAssumption ==
  /\ IsFiniteSet(Logins)
  /\ AttemptLimit \in Nat /\ Window \in Nat /\ GateDeadline \in Nat
  /\ StateLifetime \in Nat /\ Window <= StateLifetime
  /\ MaxStates \in Nat \ {0}

NoUser == "no user"

VARIABLES
  gate,     \* expirationOrder: the states, least recently used first
  login,    \* per request: where it is, its address, key and start
  counted,  \* the requests let in since the state of their address was made
  gateClock

gateVars == <<gate, login, counted, gateClock>>

\* A key names an address, or a username at an address (loginLimiterKey).
KeyOf(user, address) == <<user, address>>
AddressKey(address) == KeyOf(NoUser, address)

NoLogin == [at |-> "idle", address |-> NoUser, key |-> <<>>, since |-> 0]

Known(g, key) == \E s \in Range(g) : s.key = key
StateOf(g, key) == CHOOSE s \in Range(g) : s.key = key
Without(g, key) ==
  IF Known(g, key) THEN RemoveAt(g, CHOOSE i \in DOMAIN g : g[i].key = key) ELSE g
Fresh(key) == [key |-> key, attempts |-> <<>>, failures |-> 0, used |-> gateClock]

GateInit ==
  /\ gate = <<>>
  /\ login = [l \in Logins |-> NoLogin]
  /\ counted = {}
  /\ gateClock = 0

(***************************************************************************)
(* The limiter's operations on the table.                                  *)
(***************************************************************************)
Idle(s) == gateClock >= s.used + StateLifetime

\* Removes from the front up to the first state that is young enough.
CleanInactive(g) ==
  LET young == {i \in DOMAIN g : ~Idle(g[i])} IN
  IF young = {} THEN <<>> ELSE SubSeq(g, Min(young), Len(g))

\* state: the key's state, made at the back; a full table drops its front.
WithState(g, key) ==
  IF Known(g, key) THEN g
  ELSE Append(IF Len(g) >= MaxStates THEN Tail(g) ELSE g, Fresh(key))

\* Slip: a touched state keeps its place.
TouchInPlace(g, s) ==
  [i \in DOMAIN g |-> IF g[i].key = s.key THEN [s EXCEPT !.used = gateClock] ELSE g[i]]

\* touch: the state s replaces the one of its key and moves to the back.
Touched(g, s) == Append(Without(g, s.key), [s EXCEPT !.used = gateClock])

\* Attempts are kept in the order of their times: the recent ones are the last.
KeepWindowAttempts(attempts) ==
  LET recent == {i \in DOMAIN attempts : attempts[i] + Window > gateClock} IN
  IF recent = {} THEN <<>> ELSE SubSeq(attempts, Min(recent), Len(attempts))

\* startAttempt: the table after one attempt of the key, and whether it is let in.
StartOne(g, key) ==
  LET with == WithState(g, key)
      kept == KeepWindowAttempts(StateOf(with, key).attempts)
      ok == Len(kept) < AttemptLimit IN
  [table |-> Touched(with, [StateOf(with, key) EXCEPT
                             !.attempts = IF ok THEN Append(kept, gateClock) ELSE kept]),
   ok |-> ok]

\* StartAttempt: the address first; its refusal leaves the account's state alone.
StartAttempt(address, key) ==
  LET first == StartOne(CleanInactive(gate), AddressKey(address)) IN
  IF first.ok /\ key # AddressKey(address) THEN StartOne(first.table, key) ELSE first

\* The failure count, as far as the delay of the answer depends on it.
Failure(g, key) ==
  LET with == WithState(CleanInactive(g), key)
      s == StateOf(with, key) IN
  Touched(with, [s EXCEPT !.failures = Min({s.failures + 1, 4})])

Recount(passed) ==
  counted' = {l \in counted \cup passed : Known(gate', AddressKey(login'[l].address))}

(***************************************************************************)
(* The login handler.                                                      *)
(***************************************************************************)
\* A body that does not decode names no user: it is charged to the address and fails.
Login(l, address, user) ==
  LET key == KeyOf(user, address)
      start == StartAttempt(address, key) IN
  /\ login[l].at = "idle"
  /\ gate' = start.table
  /\ login' = [login EXCEPT ![l] =
       [at |-> IF ~start.ok THEN "refused" ELSE IF user = NoUser THEN "failing" ELSE "verifying",
        address |-> address, key |-> key, since |-> gateClock]]
  /\ Recount(IF start.ok THEN {l} ELSE {})
  /\ UNCHANGED gateClock

\* VerifyCredentials and, when they match, the new session: either may also fail.
VerifyCredentials(l) ==
  /\ login[l].at = "verifying"
  /\ \E next \in {"failing", "matched", "done"} : login' = [login EXCEPT ![l].at = next]
  /\ UNCHANGED <<gate, counted, gateClock>>

RecordFailure(l) ==
  /\ login[l].at = "failing"
  /\ gate' = Failure(gate, login[l].key)
  /\ login' = [login EXCEPT ![l].at = "delayed"]
  /\ Recount({})
  /\ UNCHANGED gateClock

\* The delay, 2^(failures - 1) seconds up to eight, passes or the client goes away.
AnswerFailure(l) ==
  /\ login[l].at = "delayed"
  /\ login' = [login EXCEPT ![l].at = "done"]
  /\ UNCHANGED <<gate, counted, gateClock>>

\* RecordSuccess of the address, then of the account.
RecordSuccess(l) ==
  /\ login[l].at \in {"matched", "welcome"}
  /\ LET key == IF login[l].at = "matched" THEN AddressKey(login[l].address) ELSE login[l].key IN
     gate' = Without(CleanInactive(gate), key)
  /\ login' = [login EXCEPT ![l].at = IF login[l].at = "matched" THEN "welcome" ELSE "done"]
  /\ Recount({})
  /\ UNCHANGED gateClock

GateTick ==
  /\ gateClock < GateDeadline
  /\ gateClock' = gateClock + 1
  /\ UNCHANGED <<gate, login, counted>>

GateNext ==
  \/ \E l \in Logins :
       \/ \E a \in Addresses, u \in Usernames \cup {NoUser} : Login(l, a, u)
       \/ VerifyCredentials(l) \/ RecordFailure(l) \/ AnswerFailure(l) \/ RecordSuccess(l)
  \/ GateTick

(***************************************************************************)
(* Properties.                                                             *)
(***************************************************************************)
\* As long as the table remembers an address, no more than the limit of its
\* requests get as far as the password within any window, however their
\* usernames vary and whatever else fills the table (ratelimit.go:110-119).
GuessesBounded ==
  \A a \in Addresses :
    Cardinality({l \in counted : login[l].address = a /\ login[l].since + Window > gateClock})
      <= AttemptLimit

\* What the table forgets without a successful login is what was used longest
\* ago: neither the limit on its size nor the cleaning up from the front loses
\* a state that was touched after one it keeps (ratelimit.go:97-138).
ForgetsLeastRecent ==
  [][(\A l \in Logins : login[l].at \notin {"matched", "welcome"} \/ login'[l] = login[l])
     => \A old \in Range(gate) :
          ~Known(gate', old.key) => \A kept \in Range(gate') : kept.used >= old.used]_gateVars

\* Guesses are counted against their address, and the table that counts them
\* forgets in an order that cannot be used to forget a recent one early.
LoginsAreLimited == []GuessesBounded /\ ForgetsLeastRecent
=============================================================================

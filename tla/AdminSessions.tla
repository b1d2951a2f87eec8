---------------------------- MODULE AdminSessions ----------------------------
(***************************************************************************)
(* The administrator's account, the sessions and the handlers that use     *)
(* them (internal/adminauth, httpapi/admin/auth.go).  A session has the    *)
(* name of the request that made it; a password hash is the password and   *)
(* whether its parameters are outdated.  Any statement may fail: the       *)
(* client's context is the statement's context.                            *)
(***************************************************************************)
EXTENDS Naturals

CONSTANTS
  Handlers,        \* requests to the administration API
  Passwords,
  InitialPassword, \* NVIDIA_ROUTER_INITIAL_ADMIN_PASSWORD
  MostResets,      \* offline resets and restarts
  NoRequest

ASSUME AdminAssumption == InitialPassword \in Passwords /\ NoRequest \notin Handlers

VARIABLES
  account,  \* the row of admins: password, outdated hash, must_change_password
  session,  \* per request: the session it made: none, live, revoked, deleted
  believed, \* the cached must-change flag: none or its value, and whether it is fresh
  mustLock, \* mustChangeMu: the request that reads the flag under it
  handler,  \* per request: where it is, what it does, its cookie and its inputs
  lastChange, \* the request whose password change committed last
  resets

adminVars == <<account, session, believed, mustLock, handler, lastChange, resets>>

Ready == [at |-> "ready", does |-> "nothing", cookie |-> NoRequest,
          current |-> InitialPassword, new |-> InitialPassword, saw |-> FALSE]

\* EnsureAdmin has run: the row may be an older version's, with an outdated hash.
AdminInit ==
  /\ \E outdated \in BOOLEAN :
       account = [password |-> InitialPassword, outdated |-> outdated, must |-> TRUE]
  /\ session = [h \in Handlers |-> "none"]
  /\ believed = [value |-> "none", fresh |-> FALSE]
  /\ mustLock = NoRequest
  /\ handler = [h \in Handlers |-> Ready]
  /\ lastChange = NoRequest
  /\ resets = 0

Step(h, at) == handler' = [handler EXCEPT ![h].at = at]
May(h, at) == handler[h].at = at

(***************************************************************************)
(* Sessions.                                                               *)
(***************************************************************************)
Valid(cookie) == cookie # NoRequest /\ session[cookie] = "live"

\* Create; a replacement is made before the password is checked.
Create(h) ==
  /\ May(h, "create")
  /\ \/ /\ session' = [session EXCEPT ![h] = "live"]
        /\ Step(h, IF handler[h].does = "login" THEN "must" ELSE "change")
     \/ Step(h, "done") /\ UNCHANGED session
  /\ UNCHANGED <<account, believed, mustLock, lastChange, resets>>

RevokeSession(h, id) ==
  \/ session' = [session EXCEPT ![id] = IF @ = "live" THEN "revoked" ELSE @]
  \/ UNCHANGED session

AllRevokedBut(keep) ==
  [s \in Handlers |-> IF session[s] = "live" /\ s # keep THEN "revoked" ELSE session[s]]

\* The nightly worker deletes what can no longer authenticate.
DeleteExpiredOrRevoked ==
  /\ \E s \in Handlers : session[s] \in {"revoked", "expired"}
  /\ session' = [s \in Handlers |->
                  IF session[s] \in {"revoked", "expired"} THEN "deleted" ELSE session[s]]
  /\ UNCHANGED <<account, believed, mustLock, handler, lastChange, resets>>

Expire(s) ==
  /\ session[s] = "live"
  /\ session' = [session EXCEPT ![s] = "expired"]
  /\ UNCHANGED <<account, believed, mustLock, handler, lastChange, resets>>

(***************************************************************************)
(* The cached must-change flag.                                            *)
(***************************************************************************)
\* Where a request goes that was told the flag.
Told(h, must) ==
  Step(h, CASE handler[h].does \in {"login", "look"} \/ must -> "done"
            [] handler[h].does = "manage" /\ ~must -> "served"
            [] OTHER -> "revoke all")

\* A fresh flag answers at once; otherwise the lock is kept over the read.
LookAtFlag(h) ==
  /\ May(h, "must") /\ mustLock = NoRequest
  /\ IF believed.fresh
       THEN Told(h, believed.value = "must") /\ UNCHANGED mustLock
       ELSE Step(h, "reading") /\ mustLock' = h
  /\ UNCHANGED <<account, session, believed, lastChange, resets>>

ReadFlag(h) ==
  /\ May(h, "reading")
  /\ handler' = [handler EXCEPT ![h].at = "read", ![h].saw = account.must]
  /\ UNCHANGED <<account, session, believed, mustLock, lastChange, resets>>

\* A failed read answers with the last value, and fails when there is none.
FailedRead(h) ==
  IF believed.value = "none"
    THEN /\ Step(h, "done")
         /\ IF handler[h].does = "login" THEN RevokeSession(h, h) ELSE UNCHANGED session
    ELSE Told(h, believed.value = "must") /\ UNCHANGED session

ReadFlagFails(h) ==
  /\ May(h, "reading")
  /\ FailedRead(h)
  /\ mustLock' = NoRequest
  /\ UNCHANGED <<account, believed, lastChange, resets>>

StoreFlag(h) ==
  /\ May(h, "read")
  /\ believed' = [value |-> IF handler[h].saw THEN "must" ELSE "need not", fresh |-> TRUE]
  /\ Told(h, handler[h].saw)
  /\ mustLock' = NoRequest
  /\ UNCHANGED <<account, session, lastChange, resets>>

FlagAges ==
  /\ believed.fresh
  /\ believed' = [believed EXCEPT !.fresh = FALSE]
  /\ UNCHANGED <<account, session, mustLock, handler, lastChange, resets>>

Cleared(h) ==
  /\ May(h, "clear")
  /\ believed' = [value |-> "need not", fresh |-> TRUE]
  /\ Step(h, "changed")
  /\ UNCHANGED <<account, session, mustLock, lastChange, resets>>
ClearFlag(h) == mustLock = NoRequest /\ Cleared(h)

(***************************************************************************)
(* Requests.                                                               *)
(***************************************************************************)
StartLogin(h, password) ==
  /\ May(h, "ready")
  /\ handler' = [handler EXCEPT ![h].at = "verify", ![h].does = "login", ![h].current = password]
  /\ UNCHANGED <<account, session, believed, mustLock, lastChange, resets>>

\* requireSession: the cookie is looked up, then the flag where it matters.
StartWithCookie(h, does, cookie) ==
  /\ May(h, "ready") /\ session[cookie] # "none"
  /\ handler' = [handler EXCEPT ![h].does = does, ![h].cookie = cookie,
       ![h].at = CASE ~Valid(cookie) -> "done"
                   [] Valid(cookie) /\ does = "log out" -> "revoke"
                   [] OTHER -> "must"]
  /\ UNCHANGED <<account, session, believed, mustLock, lastChange, resets>>

StartChange(h, cookie, current, new) ==
  /\ May(h, "ready") /\ session[cookie] # "none"
  /\ handler' = [handler EXCEPT ![h] =
       [Ready EXCEPT !.does = "change", !.cookie = cookie, !.current = current, !.new = new,
                     !.at = IF Valid(cookie) THEN "create" ELSE "done"]]
  /\ UNCHANGED <<account, session, believed, mustLock, lastChange, resets>>

\* VerifyCredentials reads the row, then rewrites an outdated hash.
VerifyPassword(h) ==
  /\ May(h, "verify")
  /\ Step(h, CASE account.password # handler[h].current -> "done"
               [] account.password = handler[h].current /\ account.outdated -> "rehash"
               [] OTHER -> "create")
  /\ UNCHANGED <<account, session, believed, mustLock, lastChange, resets>>

Rehash(h) ==
  /\ May(h, "rehash")
  /\ \/ account' = [account EXCEPT !.password = handler[h].current, !.outdated = FALSE]
     \/ UNCHANGED account
  /\ Step(h, "create")
  /\ UNCHANGED <<session, believed, mustLock, lastChange, resets>>

\* The transaction of ChangePassword: it keeps the replacement session alone.
RevokeOtherSessions(h) == AllRevokedBut(h)

ChangePassword(h) ==
  /\ May(h, "change")
  /\ handler[h].current = account.password /\ handler[h].new # account.password
  /\ account' = [password |-> handler[h].new, outdated |-> FALSE, must |-> FALSE]
  /\ session' = RevokeOtherSessions(h)
  /\ lastChange' = h
  /\ Step(h, "clear")
  /\ UNCHANGED <<believed, mustLock, resets>>

\* A wrong or reused password, or a failed transaction: the replacement goes.
ChangeRefused(h) ==
  /\ May(h, "change")
  /\ RevokeSession(h, h)
  /\ Step(h, "done")
  /\ UNCHANGED <<account, believed, mustLock, lastChange, resets>>

Logout(h) ==
  /\ May(h, "revoke")
  /\ RevokeSession(h, handler[h].cookie)
  /\ Step(h, "done")
  /\ UNCHANGED <<account, believed, mustLock, lastChange, resets>>

RevokeAll(h) ==
  /\ May(h, "revoke all")
  /\ session' = AllRevokedBut(NoRequest) \/ UNCHANGED session
  /\ Step(h, "done")
  /\ UNCHANGED <<account, believed, mustLock, lastChange, resets>>

\* The process stops; an offline reset may run before it starts again.
Reboot(password) ==
  /\ resets < MostResets
  /\ resets' = resets + 1
  /\ believed' = [value |-> "none", fresh |-> FALSE]
  /\ mustLock' = NoRequest
  /\ lastChange' = NoRequest
  /\ handler' = [h \in Handlers |-> IF May(h, "ready") THEN Ready ELSE [Ready EXCEPT !.at = "done"]]
  /\ \/ UNCHANGED <<account, session>>
     \/ /\ account' = [password |-> password, outdated |-> FALSE, must |-> FALSE]
        /\ session' = AllRevokedBut(NoRequest)

HandlerStep(h) ==
  \/ \E p \in Passwords : StartLogin(h, p)
  \/ \E c \in Handlers :
       \/ \E does \in {"look", "manage", "log out", "revoke all"} : StartWithCookie(h, does, c)
       \/ \E p, q \in Passwords : StartChange(h, c, p, q)
  \/ VerifyPassword(h) \/ Rehash(h) \/ Create(h) \/ ChangePassword(h) \/ ChangeRefused(h)
  \/ LookAtFlag(h) \/ ReadFlag(h) \/ ReadFlagFails(h) \/ StoreFlag(h) \/ ClearFlag(h)
  \/ Logout(h) \/ RevokeAll(h)

AdminNext ==
  \/ \E h \in Handlers : HandlerStep(h) \/ Expire(h)
  \/ DeleteExpiredOrRevoked \/ FlagAges
  \/ \E p \in Passwords : Reboot(p)

(***************************************************************************)
(* Properties.                                                             *)
(***************************************************************************)
\* No management request is served before the initial password was changed,
\* also when the flag cannot be read (auth.go:106-129, 282-310).
ForcedChangeHolds == \A h \in Handlers : handler[h].at = "served" => ~account.must

\* Once a password change was answered, no request is told to change it again:
\* a reader that saw the old flag cannot overwrite the cleared one
\* (auth.go:106-137).
ChangeIsBelieved == \A h \in Handlers : handler[h].at = "changed" => believed.value = "need not"

\* Of several password changes only the last one leaves its replacement session
\* behind, whatever sessions the others had made (repository.go:118-180,
\* 255-266, auth.go:241-250).
OneReplacementLives ==
  \A h \in Handlers :
    (handler[h].at \in {"clear", "changed"} /\ session[h] = "live") => h = lastChange

\* A session may do what the password it was opened with still allows: nothing
\* before the forced change, everything after it, and nothing once another
\* change has replaced it.
SessionsFollowPassword == ForcedChangeHolds /\ ChangeIsBelieved /\ OneReplacementLives
=============================================================================

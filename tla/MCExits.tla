------------------------------ MODULE MCExits ------------------------------
(***************************************************************************)
(* How requests leave the gateway: the pool of exits, the transports that  *)
(* are cached for them, the configuration that is changed under traffic,   *)
(* and one call through an exit.  A behaviour is a behaviour of one of the *)
(* four, the other three stay at their beginning.                          *)
(***************************************************************************)
EXTENDS ExitPool, ExitTransports, ExitSettings, UpstreamCall, TLC

VARIABLE part

\* The provider names both exits; which of them is found to work is open.
MCLists == {Exits}

Patch(on, url, setting) ==
  [on |-> on, url |-> url, setting |-> setting, fixed |-> FALSE, clear |-> FALSE]
MCPatches == {Patch(TRUE, "u", Keep), Patch(FALSE, "", "other"), [Patch(Keep, Keep, Keep) EXCEPT !.fixed = TRUE]}
MCEnvironment == [pool |-> TRUE, on |-> TRUE, url |-> "env", setting |-> "default", source |-> "database"]
Stored(kind, on, url) == [kind |-> kind, on |-> on, url |-> url, setting |-> "default"]
MCRows == {NoRow, Stored("fixed", FALSE, "u")}

Init ==
  /\ part \in {"pool", "transports", "settings", "call"}
  /\ ExitInit
  /\ TransportsInit /\ (part # "transports" => \A x \in PoolExits : exitIs[x] = "gone")
  /\ SettingsInit /\ (part # "settings" => row = NoRow)
  /\ CallInit /\ (part # "call" => sending.kind = "stream")

PoolMoves == part = "pool" /\ ExitNext /\ UNCHANGED <<transportVars, settingsVars, callVars, part>>
TransportMoves == part = "transports" /\ TransportsNext /\ UNCHANGED <<exitVars, settingsVars, callVars, part>>
SettingsMoves == part = "settings" /\ SettingsNext /\ UNCHANGED <<exitVars, transportVars, callVars, part>>
CallMoves == part = "call" /\ CallNext /\ UNCHANGED <<exitVars, transportVars, settingsVars, part>>

Next == PoolMoves \/ TransportMoves \/ SettingsMoves \/ CallMoves
Spec == Init /\ [][Next]_<<exitVars, transportVars, settingsVars, callVars, part>>

\* The configuration gives the exits, the sessions and the updates the same model
\* values: the parts never meet, and one permutation serves them all.
Symmetry == Permutations(Exits)
============================================================================

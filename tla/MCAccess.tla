------------------------------ MODULE MCAccess ------------------------------
(***************************************************************************)
(* Who may use the gateway: access keys, the administrator's login and the *)
(* administrator's sessions.  The three parts share nothing; a behaviour   *)
(* is a behaviour of one of them.                                          *)
(***************************************************************************)
EXTENDS AccessKeys, LoginGate, AdminSessions, TLC

VARIABLE part

Policy(rpm, tpm, slots, budget, expires) ==
  [rpm |-> rpm, tpm |-> tpm, slots |-> slots, budget |-> budget, expires |-> expires]
Free == Policy(0, 0, 0, 0, Never)
MCPolicies == {Free, Policy(2, 1, 1, 2, 1)}

Init ==
  /\ part \in {"access keys", "login", "sessions"}
  /\ AccessInit /\ (part # "access keys" => row.policy = Free /\ row.spent = 0)
  /\ GateInit
  /\ AdminInit /\ (part # "sessions" => ~account.outdated)

AccessMoves == part = "access keys" /\ AccessNext /\ UNCHANGED <<gateVars, adminVars, part>>
GateMoves == part = "login" /\ GateNext /\ UNCHANGED <<accessVars, adminVars, part>>
AdminMoves == part = "sessions" /\ AdminNext /\ UNCHANGED <<accessVars, gateVars, part>>

Next == AccessMoves \/ GateMoves \/ AdminMoves
Spec == Init /\ [][Next]_<<accessVars, gateVars, adminVars, part>>

\* The configuration gives callers and addresses, and logins and handlers, the
\* same model values: one permutation then serves two parts, which never meet.
Symmetry ==
  Permutations(Callers) \cup Permutations(Logins) \cup Permutations(Addresses)
    \cup Permutations(Handlers)
=============================================================================

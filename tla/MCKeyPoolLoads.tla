-------------------------- MODULE MCKeyPoolLoads --------------------------
(* KeyPool under three loads, each small where the others are large: any   *)
(* one StateSync operation under mixed traffic, a pool that grows and      *)
(* shrinks around one lease, and a key that is replaced under two.         *)
EXTENDS MCKeyPool

VARIABLE load

Active == {c \in Callers : pc[c] # "idle"}

WithinLoad ==
  \/ load = "mixed" /\ keys \subseteq {1, 2}
  \/ /\ \/ /\ load = "resize"
           /\ Cardinality(Active) <= 1
           /\ \A c \in Active : ~req[c].stream
        \/ /\ load = "replace"
           /\ keys \subseteq {1}
     /\ \A k \in keys : key[k].snapshot \in Healthy /\ key[k].blocks = {}
     /\ off = {}

LoadInit ==
  /\ Init
  /\ \/ load = "mixed" /\ changes = MaxChanges - 1
     \/ load \in {"resize", "replace"} /\ changes = 0
  /\ WithinLoad

LoadNext == Next /\ load' = load /\ WithinLoad'

LoadSpec == LoadInit /\ [][LoadNext]_<<vars, load>>

LoadView == <<LiveState, load>>
=============================================================================

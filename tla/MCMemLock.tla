------------------------------ MODULE MCMemLock ------------------------------
(* Four accounts, three of which collide in one bucket, and buckets that grow *)
(* by one node at a time: a list grows twice and is recycled in any order.    *)
(* And battles of single players, of which two may watch the third; topic     *)
(* says which of the two runs.                                                *)
EXTENDS MemLock, Battle, TLC

VARIABLE topic

MCGetHash == [k \in CdKeys |-> IF k = "d" THEN 2 ELSE 1]

allVars == <<vars, battleVars, topic>>

MCInit == Init /\ BattleInit /\ topic \in {"lock", "battle"}

MCNext ==
    /\ UNCHANGED topic
    /\ \/ topic = "lock" /\ Next /\ UNCHANGED battleVars
       \/ topic = "battle" /\ BattleNext /\ UNCHANGED vars

MCSpec == MCInit /\ [][MCNext]_allVars

Symmetry == Permutations(Fighters) \cup Permutations(Battles)
==============================================================================

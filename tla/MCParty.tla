------------------------------- MODULE MCParty -------------------------------
(* Parties, battles, and the streams of an account server, each by itself:    *)
(* topic says which of them runs.                                             *)
EXTENDS Party, Battle, StreamBuffers, TLC

VARIABLE topic

allVars == <<vars, battleVars, bufferVars, topic>>

MCInit == Init /\ BattleInit /\ BufferInit /\ topic \in {"party", "battle", "streams"}

MCNext ==
    /\ UNCHANGED topic
    /\ \/ topic = "party" /\ Next /\ UNCHANGED <<battleVars, bufferVars>>
       \/ topic = "battle" /\ BattleNext /\ UNCHANGED <<vars, bufferVars>>
       \/ topic = "streams" /\ BufferNext /\ UNCHANGED <<vars, battleVars>>

MCSpec == MCInit /\ [][MCNext]_allVars

\* Every variable has its type.
TypesOK == TypeOK /\ BattleTypeOK /\ BufferTypeOK

\* The nodes of the streams have no names.
MCView == <<vars, battleVars, topic, IF topic = "streams" THEN NodeView ELSE <<>> >>

Symmetry == Permutations(Fighters)
==============================================================================

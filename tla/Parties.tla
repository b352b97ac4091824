------------------------------ MODULE Parties --------------------------------
(***************************************************************************)
(* What the party tables of the game server are to be: a division of the   *)
(* characters into parties, each with a leader.  lead[c] is the leader of  *)
(* c's party, c itself when it leads, and "none" when it is in no party.   *)
(***************************************************************************)
EXTENDS Integers, FiniteSets

CONSTANTS Chars, PartyMax

VARIABLE lead

Party(l) == {c \in Chars : lead[c] = l}

Init == lead = [c \in Chars |-> "none"]

\* c joins the party of l; l may be alone, and leads from now on.
Join(c, l) ==
    /\ c # l
    /\ lead[c] = "none"
    /\ lead[l] \in {"none", l}
    /\ Cardinality(Party(l)) < PartyMax
    /\ lead' = [lead EXCEPT ![c] = l, ![l] = l]

\* A member leaves; a leader that is left alone is in no party.
Leave(c) ==
    /\ lead[c] \notin {"none", c}
    /\ lead' = [d \in Chars |->
                  IF d = c \/ (d = lead[c] /\ Party(lead[c]) = {c, d}) THEN "none" ELSE lead[d]]

\* The party of a leader that leaves is dissolved.
Dissolve(l) ==
    /\ lead[l] = l
    /\ lead' = [d \in Chars |-> IF lead[d] = l THEN "none" ELSE lead[d]]

Next == \/ \E c, l \in Chars : Join(c, l)
        \/ \E c \in Chars : Leave(c) \/ Dissolve(c)

Spec == Init /\ [][Next]_lead
=============================================================================

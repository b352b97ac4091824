------------------------------ MODULE Mailbox --------------------------------
(* What the account server promises of the mail it has accepted: it keeps a   *)
(* mail until it has reached the game server its addressee plays on, or until *)
(* it is too old.  A mail may reach it more than once.                        *)
CONSTANT Ids

VARIABLES issued, kept, reached, old

Init == issued = {} /\ kept = {} /\ reached = {} /\ old = {}

Accept(m) == /\ m \in Ids \ issued /\ issued' = issued \cup {m} /\ kept' = kept \cup {m}
             /\ UNCHANGED <<reached, old>>
Reach(m) == m \in issued /\ reached' = reached \cup {m} /\ UNCHANGED <<issued, kept, old>>
Age(M) == M \subseteq kept /\ old' = old \cup M /\ UNCHANGED <<issued, kept, reached>>
\* With a new start of the account server no mail is old.
Renew == old' = {} /\ UNCHANGED <<issued, kept, reached>>
Forget(M) == /\ M \subseteq reached \cup old /\ kept' = kept \ M /\ old' = old \ M
             /\ UNCHANGED <<issued, reached>>

Next == \/ \E m \in Ids : Accept(m) \/ Reach(m)
        \/ \E M \in SUBSET Ids : Age(M) \/ Forget(M)
        \/ Renew

Spec == Init /\ [][Next]_<<issued, kept, reached, old>>
==============================================================================

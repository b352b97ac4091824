--------------------------- MODULE MCAccountSession ---------------------------
(* Sessions of accounts, mail, and address books, each by itself: topic says  *)
(* which of them runs.                                                        *)
EXTENDS AccountSession, Mail, AddressBook, TLC

VARIABLE topic

allVars == <<vars, mailVars, bookVars, topic>>

\* d has no card of c.
MCKnows == (People \X People) \ {<<"c", "d">>}

\* The characters play on different servers.
MCInit == /\ Init /\ MailInit
          /\ BookInit /\ \A c \in Fellows : playsOn[c] = IF c \in Movers THEN 2 ELSE 1
          /\ topic \in {"session", "mail", "book"}

MCNext ==
    /\ UNCHANGED topic
    /\ \/ topic = "session" /\ Next /\ UNCHANGED <<mailVars, bookVars>>
       \/ topic = "mail" /\ MailNext /\ UNCHANGED <<vars, bookVars>>
       \/ topic = "book" /\ BookNext /\ UNCHANGED <<vars, mailVars>>
       \/ topic \in {"mail", "book"} /\ UNCHANGED <<vars, mailVars, bookVars>> \* at the bounds

MCSpec == MCInit /\ [][MCNext]_allVars

\* Every variable has its type.
TypesOK == TypeOK /\ MailTypeOK /\ BookTypeOK

Symmetry == Permutations(Servers) \cup Permutations(Conns)
===============================================================================

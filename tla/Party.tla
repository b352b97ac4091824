-------------------------------- MODULE Party --------------------------------
(***************************************************************************)
(* Parties of players on a game server: gmsv/char/char_party.c, the choice *)
(* of a party in char/char.c and the calls of logout, death and battle.    *)
(*                                                                         *)
(* A character is named by its index in the table of characters, which is  *)
(* reused after a logout.  The five work integers PARTYINDEX1..5 of each   *)
(* are idx: for a leader itself and its members, for a member its leader   *)
(* in the first place.  Where characters stand, and whether a leader takes *)
(* members or fights, is left open; buses, which lead parties of their     *)
(* own, are left out.                                                      *)
(***************************************************************************)
EXTENDS Integers, FiniteSets

CONSTANTS Chars,      \* indices of player characters
          PartyMax,   \* CHAR_PARTYMAX
          WindowSize, \* CONNECT_WINDOWBUFSIZE
          LastSlot,   \* the item slots of a character are 0 .. LastSlot
          Kinds,      \* what a slot may hold when a character logs in
          QuitNum,    \* itemquitparty_num, the number of items that vanish
          Quiet       \* whether characters also leave without a message

ASSUME PartyAssumption == /\ PartyMax \in Nat \ {0, 1} /\ WindowSize \in Nat
                          /\ LastSlot \in Nat /\ QuitNum \in Nat \ {0}
                          /\ Kinds \subseteq {"none", "plain", "quit"}
                          /\ Quiet \in BOOLEAN /\ "none" \notin Chars

VARIABLES online,   \* the indices in use
          mode,     \* CHAR_WORKPARTYMODE
          idx,      \* CHAR_WORKPARTYINDEX1 ..
          window,   \* the characters in the window "whose party to join"
          items     \* the item slots

vars == <<online, mode, idx, window, items>>

Places == 0 .. PartyMax - 1
Slots  == 0 .. LastSlot

NoTable == [i \in Places |-> "none"]

Init == /\ online = {}
        /\ mode = [c \in Chars |-> "NONE"]
        /\ idx = [c \in Chars |-> NoTable]
        /\ window = [c \in Chars |-> {}]
        /\ items = [c \in Chars |-> [s \in Slots |-> "none"]]

CHAR_getPartyIndex(c, i) ==
    IF mode[c] = "LEADER" THEN idx[c][i]
    ELSE IF idx[c][0] \in online THEN idx[idx[c][0]][i] ELSE "none"

\* The leader that one asks to join c: c itself when it is in no party.
LeaderOf(c) == IF mode[c] = "NONE" THEN c ELSE CHAR_getPartyIndex(c, 0)

EmptyPlaces(c) ==
    IF LeaderOf(c) \in online
    THEN {i \in Places \ {0} : idx[LeaderOf(c)][i] = "none"} ELSE {}

\* The members of c's table, itself included, that exist.
Listed(table) == {table[i] : i \in Places} \cap online

----------------------------------------------------------------------------
(* Joining. *)

\* CHAR_JoinParty_Main: the first empty place of the leader's table.
CHAR_JoinParty_Main(c, target) ==
    LET l == LeaderOf(target)
    IN  /\ l \in online
        /\ \E p \in EmptyPlaces(l) :
             /\ \A q \in EmptyPlaces(l) : p <= q
             /\ idx' = [idx EXCEPT ![l] = IF mode[l] = "NONE"
                                          THEN [@ EXCEPT ![0] = l, ![p] = c]
                                          ELSE [@ EXCEPT ![p] = c],
                                   ![c][0] = l]
             /\ mode' = [mode EXCEPT ![l] = "LEADER", ![c] = "CLIENT"]

\* Those c can be offered: the party must have room.
Joinable(c) == {t \in online \ {c} :
                  LET l == IF mode[t] = "CLIENT" THEN idx[t][0] ELSE t
                  IN  l \in online /\ EmptyPlaces(l) # {}}

\* T are the characters in front of c, and near and willing leaders: a single
\* one is joined, among several the client chooses.
CHAR_JoinParty(c) ==
    /\ c \in online
    /\ mode[c] = "NONE"
    /\ \E T \in SUBSET Joinable(c) :
         /\ T # {} /\ Cardinality(T) <= WindowSize
         /\ \/ \E t \in T : T = {t} /\ CHAR_JoinParty_Main(c, t) /\ UNCHANGED window
            \/ /\ Cardinality(T) > 1
               /\ window' = [window EXCEPT ![c] = T]
               /\ UNCHANGED <<mode, idx>>
    /\ UNCHANGED <<online, items>>

\* Mutant: whether the chooser still is in no party is not looked at.
CHAR_JoinParty_WindowResult_Unchecked(c, t) ==
    /\ c \in online
    /\ t \in window[c]
    /\ window' = [window EXCEPT ![c] = {}]
    /\ \/ t \in online /\ CHAR_JoinParty_Main(c, t)
       \/ UNCHANGED <<mode, idx>>
    /\ UNCHANGED <<online, items>>

\* The choice t is an index of the moment the window was shown: it may have
\* changed its party since, or denote another character.  The conditions of
\* position and will can always fail.
CHAR_JoinParty_WindowResult(c, t) ==
    /\ c \in online
    /\ t \in window[c]
    /\ window' = [window EXCEPT ![c] = {}]
    /\ \/ t \in online /\ mode[c] = "NONE" /\ CHAR_JoinParty_Main(c, t)
       \/ UNCHANGED <<mode, idx>>
    /\ UNCHANGED <<online, items>>

----------------------------------------------------------------------------
(* Leaving. *)

\* The items that must not leave a party vanish, from every slot.
Vanish(slots) == [s \in Slots |-> IF slots[s] = "quit" THEN "none" ELSE slots[s]]

\* For the one that leaves the loop over the slots looks at the slot of the
\* other loop's counter: slot 0 at first, and as soon as that holds an item
\* the slot QuitNum.  The item there is destroyed and the slot of the loop is
\* cleared, which is slot 1.
Exists(kind) == kind \in {"plain", "quit"}

VanishLeaver(slots) ==
    LET first == IF slots[0] = "quit" THEN [slots EXCEPT ![0] = "none"] ELSE slots
    IN  IF ~ Exists(slots[0]) \/ QuitNum > LastSlot THEN first
        ELSE IF first[QuitNum] # "quit" THEN first
        ELSE [[first EXCEPT ![QuitNum] = "dead"] EXCEPT ![1] = "none"]

\* CHAR_DischargePartySub of a leader
Dissolve(c, loud) ==
    LET gone == Listed(idx[c])
    IN  /\ mode[c] = "LEADER"
        /\ mode' = [d \in Chars |-> IF d \in gone THEN "NONE" ELSE mode[d]]
        /\ idx' = [d \in Chars |-> IF d = c THEN NoTable
                                   ELSE IF d \in gone THEN [idx[d] EXCEPT ![0] = "none"]
                                   ELSE idx[d]]
        /\ items' = [d \in Chars |-> IF loud /\ d \in gone THEN Vanish(items[d]) ELSE items[d]]

\* CHAR_DischargePartySub of a member: the items of those that stay vanish
\* with or without the message.  A leader left alone leads no longer, but
\* keeps itself in its table.
LeaveTables(c, l, p) == [idx EXCEPT ![c][0] = "none", ![l][p] = "none"]

Leave(c, loud) ==
    LET l == idx[c][0]
    IN  /\ mode[c] = "CLIENT"
        /\ \/ l \notin online /\ mode' = [mode EXCEPT ![c] = "NONE"] /\ UNCHANGED <<idx, items>>
           \/ /\ l \in online
              /\ \E p \in Places :
                   LET table == LeaveTables(c, l, p)[l]
                   IN  /\ idx[l][p] = c
                       /\ \A q \in Places : idx[l][q] = c => p <= q
                       /\ idx' = LeaveTables(c, l, p)
                       /\ mode' = [mode EXCEPT ![c] = "NONE",
                            ![l] = IF \E i \in Places \ {0} : table[i] \in online THEN @ ELSE "NONE"]
                       /\ items' = [d \in Chars |->
                            IF d \in Listed(table) THEN Vanish(items[d])
                            ELSE IF d = c /\ loud THEN VanishLeaver(items[d]) ELSE items[d]]

CHAR_DischargeParty(c, loud) ==
    \/ Dissolve(c, loud)
    \/ Leave(c, loud)
    \/ mode[c] = "NONE" /\ UNCHANGED <<mode, idx, items>>

\* lssproto_PR_recv, CHAR_die, and the ends of battles: with or without message
Discharge(c) ==
    /\ c \in online
    /\ mode[c] # "NONE"
    /\ CHAR_DischargeParty(c, TRUE) \/ (Quiet /\ CHAR_DischargeParty(c, FALSE))
    /\ UNCHANGED <<online, window>>

\* Mutant: the party is not told of a logout.
CHAR_logout_Silent(c) ==
    /\ c \in online
    /\ online' = online \ {c}
    /\ window' = [window EXCEPT ![c] = {}]
    /\ UNCHANGED <<mode, idx, items>>

\* _CHAR_logout: the index is free afterwards.
CHAR_logout(c) ==
    /\ c \in online
    /\ CHAR_DischargeParty(c, TRUE)
    /\ online' = online \ {c}
    /\ window' = [window EXCEPT ![c] = {}]

\* CHAR_login gives a free index a fresh table.
CHAR_login(c) ==
    /\ c \notin online
    /\ online' = online \cup {c}
    /\ mode' = [mode EXCEPT ![c] = "NONE"]
    /\ idx' = [idx EXCEPT ![c] = NoTable]
    /\ \E slots \in [Slots -> Kinds] : items' = [items EXCEPT ![c] = slots]
    /\ UNCHANGED window

Next == \E c \in Chars :
    \/ CHAR_JoinParty(c)
    \/ \E t \in Chars : CHAR_JoinParty_WindowResult(c, t)
    \/ Discharge(c)
    \/ CHAR_logout(c)
    \/ CHAR_login(c)

Spec == Init /\ [][Next]_vars

----------------------------------------------------------------------------
TypeOK ==
    /\ online \subseteq Chars
    /\ mode \in [Chars -> {"NONE", "LEADER", "CLIENT"}]
    /\ idx \in [Chars -> [Places -> Chars \cup {"none"}]]
    /\ window \in [Chars -> SUBSET Chars]
    /\ items \in [Chars -> [Slots -> {"none", "plain", "quit", "dead"}]]

\* A member follows a leader that is online and lists it, in one place: the
\* index of a leader that logged out is never followed, nor that of the
\* character that got the index next.  A leader lists itself, at least one
\* member, and only members that are online and follow it; one that is in no
\* party lists nobody else.
TablesAgree ==
    \A l \in online :
        /\ mode[l] = "CLIENT" =>
             /\ idx[l][0] \in online /\ mode[idx[l][0]] = "LEADER"
             /\ Cardinality({i \in Places \ {0} : idx[idx[l][0]][i] = l}) = 1
        /\ mode[l] = "LEADER" =>
             /\ idx[l][0] = l
             /\ \E i \in Places \ {0} : idx[l][i] # "none"
             /\ \A i \in Places \ {0} : idx[l][i] # "none" =>
                  idx[l][i] \in online /\ mode[idx[l][i]] = "CLIENT" /\ idx[idx[l][i]][0] = l
        /\ mode[l] = "NONE" =>
             idx[l][0] \in {"none", l} /\ \A i \in Places \ {0} : idx[l][i] = "none"

PS == INSTANCE Parties WITH lead <- [c \in Chars |-> IF mode[c] = "NONE" THEN "none" ELSE idx[c][0]]

\* Whatever is joined, left and logged out, the tables describe a division of
\* the characters into parties of at most PartyMax, one join or leave a step.
ImplementsParties == PS!Spec

\* The source says of the loops that destroy items "if equal to the configured
\* item id: the item in the slot vanishes": one that leaves a party keeps none.
QuitItemsVanish ==
    [][\A c \in Chars : mode[c] = "CLIENT" /\ c \in online' /\ mode'[c] = "NONE" =>
          \A s \in Slots : items'[c][s] # "quit"]_vars
=============================================================================

-------------------------- MODULE PartyBattle_proofs --------------------------
(***************************************************************************)
(* Proofs about parties and battles.                                       *)
(*                                                                         *)
(* Parties, for every number of characters, every size of a party and      *)
(* every order of joining, leaving, logging out and reusing an index: the  *)
(* party tables agree with each other, and describe a division of the      *)
(* characters into parties of at most PartyMax.                            *)
(*                                                                         *)
(* Battles, for every number of players, battles and places of a side: a   *)
(* player is in one battle at most, and nobody watches a battle that is    *)
(* over.                                                                   *)
(***************************************************************************)
EXTENDS Party, Battle, FiniteSetTheorems, TLAPS

(* Parties. *)

USE PartyAssumption

Modes   == {"NONE", "LEADER", "CLIENT"}
Tables  == [Places -> Chars \cup {"none"}]
Others  == Places \ {0}
ItemSet == [Slots -> {"none", "plain", "quit", "dead"}]

TypeInv ==
    /\ online \subseteq Chars
    /\ mode \in [Chars -> Modes]
    /\ idx \in [Chars -> Tables]
    /\ window \in [Chars -> SUBSET Chars]
    /\ items \in [Chars -> ItemSet]

\* One that is in no party lists nobody but, perhaps, itself.
Alone(c) == idx[c][0] \in {"none", c} /\ \A i \in Others : idx[c][i] = "none"

\* A member names its leader, which lists it.
Follows(c) ==
    /\ \A i \in Others : idx[c][i] = "none"
    /\ idx[c][0] \in Chars
    /\ mode[idx[c][0]] = "LEADER"
    /\ \E i \in Others : idx[idx[c][0]][i] = c

\* A leader lists itself and, each once, members that follow it.
Leads(c) ==
    /\ idx[c][0] = c
    /\ \E i \in Others : idx[c][i] # "none"
    /\ \A i \in Others : idx[c][i] # "none" => mode[idx[c][i]] = "CLIENT" /\ idx[idx[c][i]][0] = c
    /\ \A i, j \in Others : idx[c][i] # "none" /\ idx[c][i] = idx[c][j] => i = j

PartyAt(c) ==
    /\ mode[c] = "NONE" => Alone(c)
    /\ mode[c] = "CLIENT" => Follows(c)
    /\ mode[c] = "LEADER" => Leads(c)

\* Only characters that are online are in a party, and no window offers a
\* character itself.
Present == \A c \in Chars : (mode[c] # "NONE" => c \in online) /\ c \notin window[c]

PartyIInv == TypeInv /\ Present /\ \A c \in Chars : PartyAt(c)

----------------------------------------------------------------------------
\* The places of a table start with 0 and are more than one.
LEMMA PlacesFacts ==
    /\ 0 \in Places /\ Others \subseteq Places /\ 0 \notin Others /\ Places = Others \cup {0}
    /\ \A i \in Places : i \in Int
    /\ "none" \notin Chars
BY DEF Places, Others

\* The facts about characters that every step starts from
LEMMA Typed ==
    ASSUME TypeInv, NEW c \in Chars
    PROVE  /\ mode[c] \in Modes
           /\ idx[c] \in Tables /\ \A i \in Places : idx[c][i] \in Chars \cup {"none"}
           /\ items[c] \in ItemSet
           /\ window[c] \subseteq Chars
BY DEF TypeInv, Tables

----------------------------------------------------------------------------
(* Joining. *)

\* What a join does to the tables: c, in no party, enters the first empty place
\* of the party of l.
Joins(c, l, p) ==
    /\ c \in Chars /\ l \in online /\ c # l
    /\ mode[c] = "NONE" /\ mode[l] \in {"NONE", "LEADER"}
    /\ p \in Others /\ idx[l][p] = "none"
    /\ idx' = [idx EXCEPT ![l] = [@ EXCEPT ![0] = l, ![p] = c], ![c] = [@ EXCEPT ![0] = l]]
    /\ mode' = [mode EXCEPT ![l] = "LEADER", ![c] = "CLIENT"]

\* Whoever is asked, it is a leader, or one in no party, that is joined.
LEMMA JoinMain ==
    ASSUME PartyIInv, NEW c \in online, NEW t \in online, t # c, mode[c] = "NONE", CHAR_JoinParty_Main(c, t)
    PROVE  \E l \in Chars, p \in Others : Joins(c, l, p)
<1> DEFINE l == LeaderOf(t)
<1>1. c \in Chars /\ t \in Chars /\ PartyAt(c) /\ PartyAt(t) /\ mode[t] \in Modes
  BY Typed DEF PartyIInv, TypeInv
<1>2. l \in Chars /\ mode[l] \in {"NONE", "LEADER"} /\ l # c
  <2>1. CASE mode[t] = "NONE"
    BY <1>1, <2>1 DEF LeaderOf
  <2>2. CASE mode[t] = "LEADER"
    <3>1. idx[t][0] = t
      BY <1>1, <2>2 DEF PartyAt, Leads
    <3> QED BY <1>1, <2>2, <3>1 DEF LeaderOf, CHAR_getPartyIndex
  <2>3. CASE mode[t] = "CLIENT"
    <3>1. idx[t][0] \in Chars /\ mode[idx[t][0]] = "LEADER"
      BY <1>1, <2>3 DEF PartyAt, Follows
    <3>2. idx[t][0] \in online /\ PartyAt(idx[t][0])
      BY <3>1 DEF PartyIInv, Present
    <3>3. idx[idx[t][0]][0] = idx[t][0]
      BY <3>1, <3>2 DEF PartyAt, Leads
    <3>4. l = idx[t][0]
      BY <2>3, <3>2, <3>3 DEF LeaderOf, CHAR_getPartyIndex
    <3> QED BY <3>1, <3>4
  <2> QED BY <1>1, <2>1, <2>2, <2>3 DEF Modes
<1>3. l \in online /\ PartyAt(l) /\ idx[l] \in Tables
  BY <1>2, Typed DEF CHAR_JoinParty_Main, PartyIInv
<1>4. LeaderOf(l) = l
  <2>1. mode[l] = "LEADER" => idx[l][0] = l
    BY <1>3 DEF PartyAt, Leads
  <2> HIDE DEF l
  <2> QED BY <1>2, <2>1 DEF LeaderOf, CHAR_getPartyIndex
<1>5. PICK p \in EmptyPlaces(l) :
         /\ idx' = [idx EXCEPT ![l] = IF mode[l] = "NONE" THEN [@ EXCEPT ![0] = l, ![p] = c]
                                      ELSE [@ EXCEPT ![p] = c],
                               ![c][0] = l]
         /\ mode' = [mode EXCEPT ![l] = "LEADER", ![c] = "CLIENT"]
  BY DEF CHAR_JoinParty_Main
<1>6. p \in Others /\ idx[l][p] = "none"
  BY <1>3, <1>4 DEF EmptyPlaces, Others
<1>7. idx' = [idx EXCEPT ![l] = [@ EXCEPT ![0] = l, ![p] = c], ![c] = [@ EXCEPT ![0] = l]]
  <2>1. CASE mode[l] = "NONE"
    BY <1>2, <1>5, <2>1
  <2>2. CASE mode[l] = "LEADER"
    <3>1. idx[l][0] = l
      BY <1>3, <2>2 DEF PartyAt, Leads
    <3>2. [idx[l] EXCEPT ![p] = c] = [idx[l] EXCEPT ![0] = l, ![p] = c]
      BY <1>3, <1>6, <3>1, PlacesFacts DEF Tables
    <3> QED BY <1>2, <1>5, <2>2, <3>2
  <2> QED BY <1>2, <2>1, <2>2
<1> HIDE DEF l
<1>8. Joins(c, l, p)
  BY <1>1, <1>2, <1>3, <1>5, <1>6, <1>7 DEF Joins
<1> QED BY <1>2, <1>6, <1>8

\* The tables after a join
LEMMA JoinTables ==
    ASSUME PartyIInv, NEW c \in Chars, NEW l \in Chars, NEW p \in Others, Joins(c, l, p)
    PROVE  /\ idx' \in [Chars -> Tables] /\ mode' \in [Chars -> Modes]
           /\ mode'[l] = "LEADER" /\ mode'[c] = "CLIENT"
           /\ idx'[l][0] = l /\ idx'[l][p] = c /\ idx'[c][0] = l
           /\ \A i \in Others \ {p} : idx'[l][i] = idx[l][i]
           /\ \A i \in Others : idx'[c][i] = idx[c][i]
           /\ \A d \in Chars \ {c, l} : idx'[d] = idx[d] /\ mode'[d] = mode[d]
<1>1. idx[l] \in Tables /\ idx[c] \in Tables /\ c # l
  BY Typed DEF PartyIInv, Joins
<1> DEFINE tl == [idx[l] EXCEPT ![0] = l, ![p] = c]
           tc == [idx[c] EXCEPT ![0] = l]
<1>2. /\ tl \in Tables /\ tl[0] = l /\ tl[p] = c /\ \A i \in Others \ {p} : tl[i] = idx[l][i]
      /\ tc \in Tables /\ tc[0] = l /\ \A i \in Others : tc[i] = idx[c][i]
  BY <1>1, PlacesFacts DEF Tables
<1>3. idx' = [idx EXCEPT ![l] = tl, ![c] = tc]
  BY <1>1 DEF Joins
<1> HIDE DEF tl, tc
<1>4. /\ idx' \in [Chars -> Tables] /\ idx'[l] = tl /\ idx'[c] = tc
      /\ \A d \in Chars \ {c, l} : idx'[d] = idx[d]
  BY <1>1, <1>2, <1>3 DEF PartyIInv, TypeInv
<1>5. /\ mode' \in [Chars -> Modes] /\ mode'[l] = "LEADER" /\ mode'[c] = "CLIENT"
      /\ \A d \in Chars \ {c, l} : mode'[d] = mode[d]
  BY <1>1 DEF PartyIInv, TypeInv, Joins, Modes
<1> QED BY <1>2, <1>4, <1>5

\* A join keeps the tables in agreement.
LEMMA JoinStep ==
    ASSUME PartyIInv, NEW c \in online, NEW l \in Chars, NEW p \in Others, Joins(c, l, p),
           UNCHANGED <<online, items>>, window' \in [Chars -> SUBSET Chars],
           \A d \in Chars : d \notin window'[d]
    PROVE  PartyIInv'
<1>1. c \in Chars /\ l \in online /\ c # l /\ mode[c] = "NONE" /\ mode[l] \in {"NONE", "LEADER"}
      /\ idx[l][p] = "none"
  BY DEF Joins
<1>2. /\ idx' \in [Chars -> Tables] /\ mode' \in [Chars -> Modes]
      /\ mode'[l] = "LEADER" /\ mode'[c] = "CLIENT"
      /\ idx'[l][0] = l /\ idx'[l][p] = c /\ idx'[c][0] = l
      /\ \A i \in Others \ {p} : idx'[l][i] = idx[l][i]
      /\ \A i \in Others : idx'[c][i] = idx[c][i]
      /\ \A d \in Chars \ {c, l} : idx'[d] = idx[d] /\ mode'[d] = mode[d]
  BY <1>1, JoinTables
<1>3. TypeInv' /\ Present'
  BY <1>1, <1>2 DEF PartyIInv, TypeInv, Present
<1>4. /\ \A d \in Chars : PartyAt(d) /\ mode[d] \in Modes /\ idx[d] \in Tables
      /\ Alone(c)
  BY <1>1, Typed DEF PartyIInv, PartyAt
<1>5. PartyAt(c)'
  BY <1>2, <1>4, PlacesFacts DEF PartyAt, Follows, Alone
<1>6. \A d \in Chars : mode[d] = "LEADER" => \A i \in Others : idx[d][i] # c
  BY <1>1, <1>4 DEF PartyAt, Leads
<1>7. PartyAt(l)'
  <2>1. \A i \in Others : idx'[l][i] # "none" =>
          mode'[idx'[l][i]] = "CLIENT" /\ idx'[idx'[l][i]][0] = l
    <3> SUFFICES ASSUME NEW i \in Others, idx'[l][i] # "none"
                 PROVE  mode'[idx'[l][i]] = "CLIENT" /\ idx'[idx'[l][i]][0] = l
      OBVIOUS
    <3>1. CASE i = p
      BY <1>2, <3>1
    <3>2. CASE i # p
      <4>1. idx[l][i] # "none" /\ idx'[l][i] = idx[l][i] /\ idx[l][i] \in Chars
        BY <1>2, <1>4, <3>2, PlacesFacts DEF Tables
      <4>2. mode[l] = "LEADER"
        BY <1>1, <1>4, <4>1 DEF PartyAt, Alone
      <4>3. mode[idx[l][i]] = "CLIENT" /\ idx[idx[l][i]][0] = l
        BY <1>4, <4>1, <4>2 DEF PartyAt, Leads
      <4> QED BY <1>1, <1>2, <4>1, <4>2, <4>3
    <3> QED BY <3>1, <3>2
  <2>2. \A i \in Others \ {p} : idx'[l][i] # c
    BY <1>1, <1>2, <1>4, <1>6, PlacesFacts DEF PartyAt, Alone
  <2>3. \A i, j \in Others : idx'[l][i] # "none" /\ idx'[l][i] = idx'[l][j] => i = j
    <3>1. \A i, j \in Others : idx[l][i] # "none" /\ idx[l][i] = idx[l][j] => i = j
      BY <1>1, <1>4 DEF PartyAt, Leads, Alone
    <3> QED BY <1>2, <2>2, <3>1
  <2>4. idx'[l][p] # "none"
    BY <1>1, <1>2, PlacesFacts
  <2> QED BY <1>2, <2>1, <2>3, <2>4 DEF PartyAt, Leads
<1>8. ASSUME NEW d \in Chars, d # c, d # l PROVE PartyAt(d)'
  <2>1. idx'[d] = idx[d] /\ mode'[d] = mode[d] /\ PartyAt(d)
    BY <1>2, <1>4, <1>8
  <2>2. CASE mode[d] = "NONE"
    BY <2>1, <2>2 DEF PartyAt, Alone
  <2>3. CASE mode[d] = "CLIENT"
    <3>1. Follows(d)
      BY <2>1, <2>3 DEF PartyAt
    <3> DEFINE f == idx[d][0]
    <3>2. f \in Chars /\ f # c /\ mode[f] = "LEADER" /\ mode'[f] = "LEADER"
      BY <1>1, <1>2, <3>1 DEF Follows
    <3>3. \E i \in Others : idx'[f][i] = d
      <4>1. PICK i \in Others : idx[f][i] = d
        BY <3>1 DEF Follows
      <4>2. f = l => i # p
        BY <1>1, <1>8, <4>1, PlacesFacts
      <4> QED BY <1>2, <3>2, <4>1, <4>2
    <3> QED BY <2>1, <2>3, <3>1, <3>2, <3>3 DEF PartyAt, Follows
  <2>4. CASE mode[d] = "LEADER"
    <3>1. Leads(d)
      BY <2>1, <2>4 DEF PartyAt
    <3>2. ASSUME NEW i \in Others, idx[d][i] # "none"
          PROVE  mode'[idx[d][i]] = "CLIENT" /\ idx'[idx[d][i]][0] = d
      <4>1. idx[d][i] \in Chars /\ mode[idx[d][i]] = "CLIENT" /\ idx[idx[d][i]][0] = d
        BY <1>4, <3>1, <3>2, PlacesFacts DEF Leads, Tables
      <4>2. idx[d][i] # c /\ idx[d][i] # l
        BY <1>1, <4>1
      <4> QED BY <1>2, <4>1, <4>2
    <3> QED BY <2>1, <2>4, <3>1, <3>2 DEF PartyAt, Leads
  <2> QED BY <2>1, <2>2, <2>3, <2>4, <1>4 DEF Modes
<1> QED BY <1>3, <1>5, <1>7, <1>8 DEF PartyIInv

----------------------------------------------------------------------------
(* Leaving. *)

\* Items that vanish leave slots of the same kind.
LEMMA VanishType ==
    ASSUME NEW slots \in ItemSet
    PROVE  Vanish(slots) \in ItemSet /\ VanishLeaver(slots) \in ItemSet
<1>1. Vanish(slots) \in ItemSet
  BY DEF Vanish, ItemSet
<1> DEFINE first == IF slots[0] = "quit" THEN [slots EXCEPT ![0] = "none"] ELSE slots
<1>2. first \in ItemSet
  BY DEF ItemSet
<1> HIDE DEF first
<1>3. [[first EXCEPT ![QuitNum] = "dead"] EXCEPT ![1] = "none"] \in ItemSet
  <2>1. [first EXCEPT ![QuitNum] = "dead"] \in ItemSet
    BY <1>2 DEF ItemSet
  <2> QED BY <2>1 DEF ItemSet
<1> QED BY <1>1, <1>2, <1>3 DEF VanishLeaver, first

\* The party of a leader is dissolved: those that followed it, and it, are in none.
LEMMA DissolveStep ==
    ASSUME PartyIInv, NEW c \in online, NEW loud \in BOOLEAN, Dissolve(c, loud)
    PROVE  /\ mode' \in [Chars -> Modes] /\ idx' \in [Chars -> Tables] /\ items' \in [Chars -> ItemSet]
           /\ mode'[c] = "NONE"
           /\ \A d \in Chars : mode'[d] # "NONE" => mode[d] # "NONE"
           /\ \A d \in Chars : PartyAt(d)'
           /\ mode[c] = "LEADER" /\ idx[c][0] = c
           /\ \A d \in Chars : mode'[d] = IF mode[d] # "NONE" /\ idx[d][0] = c THEN "NONE" ELSE mode[d]
           /\ \A d \in Chars : mode'[d] # "NONE" => idx'[d][0] = idx[d][0]
<1> DEFINE gone == Listed(idx[c])
<1>1. /\ c \in Chars /\ mode[c] = "LEADER"
      /\ mode' = [d \in Chars |-> IF d \in gone THEN "NONE" ELSE mode[d]]
      /\ idx' = [d \in Chars |-> IF d = c THEN NoTable
                                 ELSE IF d \in gone THEN [idx[d] EXCEPT ![0] = "none"]
                                 ELSE idx[d]]
      /\ items' = [d \in Chars |-> IF loud /\ d \in gone THEN Vanish(items[d]) ELSE items[d]]
  BY DEF Dissolve, PartyIInv, TypeInv
<1>2. /\ \A d \in Chars : PartyAt(d) /\ mode[d] \in Modes /\ idx[d] \in Tables
      /\ \A d \in Chars : mode[d] # "NONE" => d \in online
      /\ idx[c][0] = c
  BY <1>1, Typed DEF PartyIInv, PartyAt, Leads, Present
<1>3. ASSUME NEW d \in Chars PROVE d \in gone <=> mode[d] # "NONE" /\ idx[d][0] = c
  <2>1. ASSUME d \in gone PROVE mode[d] # "NONE" /\ idx[d][0] = c
    <3>1. PICK i \in Places : d = idx[c][i]
      BY <2>1 DEF Listed
    <3>2. CASE i = 0
      BY <1>1, <1>2, <3>1, <3>2
    <3>3. CASE i # 0
      BY <1>1, <1>2, <3>1, <3>3, PlacesFacts DEF PartyAt, Leads, Others
    <3> QED BY <3>2, <3>3
  <2>2. ASSUME mode[d] # "NONE", idx[d][0] = c PROVE d \in gone
    <3>1. CASE mode[d] = "LEADER"
      <4>1. d = c
        BY <1>2, <2>2, <3>1 DEF PartyAt, Leads
      <4> QED BY <1>2, <4>1, PlacesFacts DEF Listed
    <3>2. CASE mode[d] = "CLIENT"
      <4>1. PICK i \in Others : idx[c][i] = d
        BY <1>2, <2>2, <3>2 DEF PartyAt, Follows
      <4> QED BY <1>2, <3>2, <4>1, PlacesFacts DEF Listed
    <3> QED BY <1>2, <2>2, <3>1, <3>2 DEF Modes
  <2> QED BY <2>1, <2>2
<1> HIDE DEF gone
<1>4. NoTable \in Tables
  BY DEF NoTable, Tables
<1>5. /\ mode' \in [Chars -> Modes]
      /\ \A d \in Chars : mode'[d] = IF mode[d] # "NONE" /\ idx[d][0] = c THEN "NONE" ELSE mode[d]
  BY <1>1, <1>2, <1>3 DEF Modes
<1>6. ASSUME NEW d \in Chars PROVE [idx[d] EXCEPT ![0] = "none"] \in Tables
  BY <1>2, <1>6 DEF Tables
<1>7. idx' \in [Chars -> Tables]
  BY <1>1, <1>2, <1>4, <1>6
<1>8. items' \in [Chars -> ItemSet]
  <2>1. \A d \in Chars : items[d] \in ItemSet
    BY DEF PartyIInv, TypeInv
  <2> QED BY <1>1, <2>1, VanishType
<1>9. ASSUME NEW d \in Chars, mode'[d] # "NONE"
      PROVE  mode'[d] = mode[d] /\ idx'[d] = idx[d] /\ idx[d][0] # c /\ d # c
  BY <1>1, <1>2, <1>3, <1>5, <1>9
<1>10. ASSUME NEW d \in Chars PROVE PartyAt(d)'
  <2>1. CASE mode'[d] = "NONE"
    <3>1. CASE d = c
      BY <1>1, <2>1, <3>1, PlacesFacts DEF PartyAt, Alone, NoTable
    <3>2. CASE d # c /\ d \in gone
      <4>1. mode[d] = "CLIENT" /\ idx'[d] = [idx[d] EXCEPT ![0] = "none"]
        BY <1>1, <1>2, <1>3, <3>2 DEF PartyAt, Leads, Modes
      <4>2. idx'[d][0] = "none" /\ \A i \in Others : idx'[d][i] = idx[d][i]
        BY <1>2, <4>1, PlacesFacts DEF Tables
      <4>3. \A i \in Others : idx[d][i] = "none"
        BY <1>2, <4>1 DEF PartyAt, Follows
      <4> QED BY <2>1, <4>2, <4>3 DEF PartyAt, Alone
    <3>3. CASE d # c /\ d \notin gone
      <4>1. idx'[d] = idx[d] /\ mode[d] = "NONE"
        BY <1>1, <2>1, <3>3
      <4> QED BY <1>2, <2>1, <4>1 DEF PartyAt, Alone
    <3> QED BY <3>1, <3>2, <3>3
  <2>2. CASE mode'[d] = "CLIENT"
    <3>1. idx'[d] = idx[d] /\ idx[d][0] # c /\ mode[d] = "CLIENT"
      BY <1>9, <2>2
    <3>2. Follows(d)
      BY <1>2, <3>1 DEF PartyAt
    <3> DEFINE f == idx[d][0]
    <3>3. f \in Chars /\ mode[f] = "LEADER" /\ idx[f][0] = f
      BY <1>2, <3>2 DEF Follows, PartyAt, Leads
    <3>4. mode'[f] = "LEADER" /\ idx'[f] = idx[f]
      BY <1>5, <1>9, <3>1, <3>3
    <3> QED BY <2>2, <3>1, <3>2, <3>4 DEF PartyAt, Follows
  <2>3. CASE mode'[d] = "LEADER"
    <3>1. idx'[d] = idx[d] /\ d # c /\ mode[d] = "LEADER" /\ Leads(d)
      BY <1>2, <1>9, <2>3 DEF PartyAt
    <3>2. ASSUME NEW i \in Others, idx[d][i] # "none"
          PROVE  mode'[idx[d][i]] = "CLIENT" /\ idx'[idx[d][i]][0] = d
      <4>1. idx[d][i] \in Chars /\ mode[idx[d][i]] = "CLIENT" /\ idx[idx[d][i]][0] = d
        BY <1>2, <3>1, <3>2, PlacesFacts DEF Leads, Tables
      <4>2. mode'[idx[d][i]] = "CLIENT"
        BY <1>5, <3>1, <4>1
      <4> QED BY <1>9, <4>1, <4>2
    <3> QED BY <2>3, <3>1, <3>2 DEF PartyAt, Leads
  <2> QED BY <1>5, <2>1, <2>2, <2>3 DEF Modes
<1>11. /\ mode'[c] = "NONE" /\ mode[c] = "LEADER" /\ idx[c][0] = c
       /\ \A d \in Chars : mode'[d] # "NONE" => idx'[d][0] = idx[d][0] /\ mode[d] # "NONE"
  BY <1>1, <1>2, <1>5, <1>9
<1> QED BY <1>5, <1>7, <1>8, <1>10, <1>11

\* A member leaves: its leader lists it no longer, and leads on while somebody
\* else follows.
LEMMA LeaveTable ==
    ASSUME PartyIInv, NEW c \in online, NEW loud \in BOOLEAN, Leave(c, loud)
    PROVE  \E p \in Others : LET l == idx[c][0] IN
             /\ mode[c] = "CLIENT" /\ l \in online /\ l # c /\ mode[l] = "LEADER" /\ idx[l][p] = c
             /\ idx' \in [Chars -> Tables] /\ mode' \in [Chars -> Modes] /\ items' \in [Chars -> ItemSet]
             /\ mode'[c] = "NONE" /\ idx'[c][0] = "none" /\ \A i \in Others : idx'[c][i] = idx[c][i]
             /\ idx'[l][0] = l /\ idx'[l][p] = "none" /\ \A i \in Others \ {p} : idx'[l][i] = idx[l][i]
             /\ mode'[l] = IF \E i \in Others \ {p} : idx[l][i] # "none" THEN "LEADER" ELSE "NONE"
             /\ \A d \in Chars \ {c, l} : idx'[d] = idx[d] /\ mode'[d] = mode[d]
<1> DEFINE l == idx[c][0]
<1>1. /\ c \in Chars /\ mode[c] = "CLIENT" /\ l \in Chars /\ l \in online /\ l # c /\ mode[l] = "LEADER"
      /\ PartyAt(l) /\ idx[l] \in Tables /\ idx[c] \in Tables /\ idx[l][0] = l
      /\ \A d \in Chars : mode[d] # "NONE" => d \in online
  BY Typed DEF Leave, PartyIInv, TypeInv, PartyAt, Follows, Leads, Present
<1>2. PICK p \in Places :
        LET table == LeaveTables(c, l, p)[l]
        IN  /\ idx[l][p] = c
            /\ idx' = LeaveTables(c, l, p)
            /\ mode' = [mode EXCEPT ![c] = "NONE",
                 ![l] = IF \E i \in Places \ {0} : table[i] \in online THEN @ ELSE "NONE"]
            /\ items' = [d \in Chars |->
                 IF d \in Listed(table) THEN Vanish(items[d])
                 ELSE IF d = c /\ loud THEN VanishLeaver(items[d]) ELSE items[d]]
  BY <1>1 DEF Leave
<1>3. p \in Others /\ idx[l][p] = c
  BY <1>1, <1>2, PlacesFacts
<1> DEFINE tc == [idx[c] EXCEPT ![0] = "none"]
           tl == [idx[l] EXCEPT ![p] = "none"]
<1>4. /\ tl \in Tables /\ tl[0] = l /\ tl[p] = "none" /\ \A i \in Others \ {p} : tl[i] = idx[l][i]
      /\ tc \in Tables /\ tc[0] = "none" /\ \A i \in Others : tc[i] = idx[c][i]
  BY <1>1, <1>3, PlacesFacts DEF Tables
<1>5. LeaveTables(c, l, p) = [idx EXCEPT ![c] = tc, ![l] = tl]
  BY <1>1 DEF LeaveTables
<1> HIDE DEF tc, tl
<1>6. /\ idx' \in [Chars -> Tables] /\ idx'[c] = tc /\ idx'[l] = tl /\ LeaveTables(c, l, p)[l] = tl
      /\ \A d \in Chars \ {c, l} : idx'[d] = idx[d]
  <2> HIDE DEF l
  <2> QED BY <1>1, <1>2, <1>4, <1>5 DEF PartyIInv, TypeInv
<1>7. (\E i \in Others : tl[i] \in online) <=> \E i \in Others \ {p} : idx[l][i] # "none"
  <2>1. \A i \in Others : idx[l][i] # "none" => idx[l][i] \in Chars /\ mode[idx[l][i]] = "CLIENT"
    BY <1>1, PlacesFacts DEF PartyAt, Leads, Tables
  <2>2. "none" \notin online
    BY DEF PartyIInv, TypeInv
  <2> HIDE DEF l
  <2> QED BY <1>1, <1>4, <2>1, <2>2
<1>8. mode' = [mode EXCEPT ![c] = "NONE",
                 ![l] = IF \E i \in Others \ {p} : idx[l][i] # "none" THEN mode[l] ELSE "NONE"]
  <2> HIDE DEF l
  <2> QED BY <1>2, <1>6, <1>7 DEF Others
<1>9. /\ mode' \in [Chars -> Modes] /\ mode'[c] = "NONE"
      /\ mode'[l] = IF \E i \in Others \ {p} : idx[l][i] # "none" THEN "LEADER" ELSE "NONE"
      /\ \A d \in Chars \ {c, l} : mode'[d] = mode[d]
  <2> HIDE DEF l
  <2> QED BY <1>1, <1>8 DEF PartyIInv, TypeInv, Modes
<1>10. items' \in [Chars -> ItemSet]
  <2>1. \A d \in Chars : items[d] \in ItemSet
    BY DEF PartyIInv, TypeInv
  <2> QED BY <1>2, <2>1, VanishType
<1> QED BY <1>1, <1>3, <1>4, <1>6, <1>9, <1>10

\* A member that leaves keeps the tables of the others in agreement.
LEMMA LeaveStep ==
    ASSUME PartyIInv, NEW c \in online, NEW loud \in BOOLEAN, Leave(c, loud)
    PROVE  /\ mode' \in [Chars -> Modes] /\ idx' \in [Chars -> Tables] /\ items' \in [Chars -> ItemSet]
           /\ mode'[c] = "NONE"
           /\ \A d \in Chars : mode'[d] # "NONE" => mode[d] # "NONE"
           /\ \A d \in Chars : PartyAt(d)'
<1>1. PICK l \in Chars, p \in Others :
         /\ l = idx[c][0]
         /\ mode[c] = "CLIENT" /\ l \in online /\ l # c /\ mode[l] = "LEADER" /\ idx[l][p] = c
         /\ idx' \in [Chars -> Tables] /\ mode' \in [Chars -> Modes] /\ items' \in [Chars -> ItemSet]
         /\ mode'[c] = "NONE" /\ idx'[c][0] = "none" /\ \A i \in Others : idx'[c][i] = idx[c][i]
         /\ idx'[l][0] = l /\ idx'[l][p] = "none" /\ \A i \in Others \ {p} : idx'[l][i] = idx[l][i]
         /\ mode'[l] = IF \E i \in Others \ {p} : idx[l][i] # "none" THEN "LEADER" ELSE "NONE"
         /\ \A d \in Chars \ {c, l} : idx'[d] = idx[d] /\ mode'[d] = mode[d]
  BY LeaveTable DEF PartyIInv, TypeInv
<1>2. /\ c \in Chars
      /\ \A d \in Chars : PartyAt(d) /\ mode[d] \in Modes /\ idx[d] \in Tables
      /\ Follows(c) /\ Leads(l)
  BY <1>1, Typed DEF PartyIInv, TypeInv, PartyAt
<1>3. PartyAt(c)'
  BY <1>1, <1>2 DEF PartyAt, Alone, Follows
<1>4. ASSUME NEW i \in Others \ {p}, idx[l][i] # "none"
      PROVE  /\ idx[l][i] \in Chars \ {c, l} /\ mode'[idx[l][i]] = "CLIENT" /\ idx'[idx[l][i]][0] = l
             /\ idx'[l][i] = idx[l][i]
  <2>1. idx[l][i] \in Chars /\ mode[idx[l][i]] = "CLIENT" /\ idx[idx[l][i]][0] = l
    BY <1>2, <1>4, PlacesFacts DEF Leads, Tables
  <2>2. idx[l][i] # c
    BY <1>1, <1>2, <1>4 DEF Leads
  <2> QED BY <1>1, <2>1, <2>2
<1>5. PartyAt(l)'
  <2>1. CASE \E i \in Others \ {p} : idx[l][i] # "none"
    <3>1. \A i \in Others : idx'[l][i] # "none" => i # p /\ idx[l][i] # "none"
      BY <1>1
    <3>2. \A i, j \in Others : idx'[l][i] # "none" /\ idx'[l][i] = idx'[l][j] => i = j
      BY <1>1, <1>2, <3>1 DEF Leads
    <3> QED BY <1>1, <1>4, <2>1, <3>1, <3>2 DEF PartyAt, Leads
  <2>2. CASE ~ \E i \in Others \ {p} : idx[l][i] # "none"
    BY <1>1, <2>2 DEF PartyAt, Alone
  <2> QED BY <2>1, <2>2
<1>6. ASSUME NEW d \in Chars, d # c, d # l PROVE PartyAt(d)'
  <2>1. idx'[d] = idx[d] /\ mode'[d] = mode[d] /\ PartyAt(d)
    BY <1>1, <1>2, <1>6
  <2>2. CASE mode[d] = "NONE"
    BY <2>1, <2>2 DEF PartyAt, Alone
  <2>3. CASE mode[d] = "CLIENT"
    <3>1. Follows(d)
      BY <2>1, <2>3 DEF PartyAt
    <3> DEFINE f == idx[d][0]
    <3>2. f \in Chars /\ f # c /\ mode[f] = "LEADER"
      BY <1>1, <3>1 DEF Follows
    <3>3. PICK i \in Others : idx[f][i] = d
      BY <3>1 DEF Follows
    <3>4. f = l => i # p /\ idx[l][i] # "none"
      BY <1>1, <1>6, <3>3, PlacesFacts
    <3>5. idx'[f][i] = d /\ mode'[f] = "LEADER"
      BY <1>1, <3>2, <3>3, <3>4
    <3> QED BY <2>1, <2>3, <3>1, <3>2, <3>5 DEF PartyAt, Follows
  <2>4. CASE mode[d] = "LEADER"
    <3>1. Leads(d)
      BY <2>1, <2>4 DEF PartyAt
    <3>2. ASSUME NEW i \in Others, idx[d][i] # "none"
          PROVE  mode'[idx[d][i]] = "CLIENT" /\ idx'[idx[d][i]][0] = d
      <4>1. idx[d][i] \in Chars /\ mode[idx[d][i]] = "CLIENT" /\ idx[idx[d][i]][0] = d
        BY <1>2, <3>1, <3>2, PlacesFacts DEF Leads, Tables
      <4>2. idx[d][i] # c /\ idx[d][i] # l
        BY <1>1, <1>6, <4>1
      <4> QED BY <1>1, <4>1, <4>2
    <3> QED BY <2>1, <2>4, <3>1, <3>2 DEF PartyAt, Leads
  <2> QED BY <1>2, <2>1, <2>2, <2>3, <2>4 DEF Modes
<1>7. \A d \in Chars : mode'[d] # "NONE" => mode[d] # "NONE"
  BY <1>1
<1> QED BY <1>1, <1>3, <1>5, <1>6, <1>7

\* Whichever way a party is left
LEMMA DischargeStep ==
    ASSUME PartyIInv, NEW c \in online, NEW loud \in BOOLEAN, CHAR_DischargeParty(c, loud)
    PROVE  /\ mode' \in [Chars -> Modes] /\ idx' \in [Chars -> Tables] /\ items' \in [Chars -> ItemSet]
           /\ mode'[c] = "NONE"
           /\ \A d \in Chars : mode'[d] # "NONE" => mode[d] # "NONE"
           /\ \A d \in Chars : PartyAt(d)'
<1>1. CASE Dissolve(c, loud)
  BY <1>1, DissolveStep
<1>2. CASE Leave(c, loud)
  BY <1>2, LeaveStep
<1>3. CASE mode[c] = "NONE" /\ UNCHANGED <<mode, idx, items>>
  BY <1>3 DEF PartyIInv, TypeInv, PartyAt, Alone, Follows, Leads
<1> QED BY <1>1, <1>2, <1>3 DEF CHAR_DischargeParty

----------------------------------------------------------------------------
(* The invariant. *)

\* Nobody is in a party at the start.
LEMMA InitPartyIInv == Init => PartyIInv
<1> SUFFICES ASSUME Init PROVE PartyIInv
  OBVIOUS
<1>1. NoTable \in Tables /\ \A i \in Places : NoTable[i] = "none"
  BY DEF NoTable, Tables
<1>2. TypeInv
  BY <1>1 DEF Init, TypeInv, ItemSet, Modes
<1> QED BY <1>1, <1>2, PlacesFacts DEF Init, PartyIInv, Present, PartyAt, Alone

\* Every step keeps the invariant.
LEMMA NextPartyIInv == PartyIInv /\ [Next]_vars => PartyIInv'
<1> SUFFICES ASSUME PartyIInv, [Next]_vars PROVE PartyIInv'
  OBVIOUS
<1>1. online \subseteq Chars /\ window \in [Chars -> SUBSET Chars]
  BY DEF PartyIInv, TypeInv
<1>2. ASSUME NEW c \in Chars, CHAR_JoinParty(c) PROVE PartyIInv'
  <2>1. c \in online /\ mode[c] = "NONE" /\ UNCHANGED <<online, items>>
    BY <1>2 DEF CHAR_JoinParty
  <2>2. PICK T \in SUBSET Joinable(c) :
           \/ \E t \in T : T = {t} /\ CHAR_JoinParty_Main(c, t) /\ UNCHANGED window
           \/ /\ window' = [window EXCEPT ![c] = T]
              /\ UNCHANGED <<mode, idx>>
    BY <1>2 DEF CHAR_JoinParty
  <2>3. T \subseteq online \ {c}
    BY DEF Joinable
  <2>4. CASE \E t \in T : CHAR_JoinParty_Main(c, t) /\ UNCHANGED window
    <3>1. \E l \in Chars, p \in Others : Joins(c, l, p)
      BY <2>1, <2>3, <2>4, JoinMain
    <3>2. \A d \in Chars : d \notin window'[d]
      BY <2>4 DEF PartyIInv, Present
    <3> QED BY <1>1, <2>1, <2>4, <3>1, <3>2, JoinStep
  <2>5. CASE window' = [window EXCEPT ![c] = T] /\ UNCHANGED <<mode, idx>>
    BY <1>1, <2>1, <2>3, <2>5 DEF PartyIInv, TypeInv, Present, PartyAt, Alone, Follows, Leads
  <2> QED BY <2>2, <2>4, <2>5
<1>3. ASSUME NEW c \in Chars, NEW t \in Chars, CHAR_JoinParty_WindowResult(c, t) PROVE PartyIInv'
  <2>1. /\ c \in online /\ t \in window[c] /\ t # c /\ UNCHANGED <<online, items>>
        /\ window' = [window EXCEPT ![c] = {}]
    BY <1>3 DEF CHAR_JoinParty_WindowResult, PartyIInv, Present
  <2>2. window' \in [Chars -> SUBSET Chars] /\ \A d \in Chars : d \notin window'[d]
    BY <1>1, <2>1 DEF PartyIInv, Present
  <2>3. CASE t \in online /\ mode[c] = "NONE" /\ CHAR_JoinParty_Main(c, t)
    <3>1. \E l \in Chars, p \in Others : Joins(c, l, p)
      BY <2>1, <2>3, JoinMain
    <3> QED BY <2>1, <2>2, <3>1, JoinStep
  <2>4. CASE UNCHANGED <<mode, idx>>
    BY <2>1, <2>2, <2>4 DEF PartyIInv, TypeInv, Present, PartyAt, Alone, Follows, Leads
  <2> QED BY <1>3, <2>3, <2>4 DEF CHAR_JoinParty_WindowResult
<1>4. ASSUME NEW c \in Chars, Discharge(c) PROVE PartyIInv'
  <2>1. PICK loud \in BOOLEAN : c \in online /\ CHAR_DischargeParty(c, loud) /\ UNCHANGED <<online, window>>
    BY <1>4 DEF Discharge
  <2>2. /\ mode' \in [Chars -> Modes] /\ idx' \in [Chars -> Tables] /\ items' \in [Chars -> ItemSet]
        /\ \A d \in Chars : mode'[d] # "NONE" => mode[d] # "NONE"
        /\ \A d \in Chars : PartyAt(d)'
    BY <2>1, DischargeStep
  <2> QED BY <2>1, <2>2 DEF PartyIInv, TypeInv, Present
<1>5. ASSUME NEW c \in Chars, CHAR_logout(c) PROVE PartyIInv'
  <2>1. /\ c \in online /\ CHAR_DischargeParty(c, TRUE) /\ online' = online \ {c}
        /\ window' = [window EXCEPT ![c] = {}]
    BY <1>5 DEF CHAR_logout
  <2>2. /\ mode' \in [Chars -> Modes] /\ idx' \in [Chars -> Tables] /\ items' \in [Chars -> ItemSet]
        /\ mode'[c] = "NONE"
        /\ \A d \in Chars : mode'[d] # "NONE" => mode[d] # "NONE"
        /\ \A d \in Chars : PartyAt(d)'
    BY <2>1, DischargeStep
  <2>3. window' \in [Chars -> SUBSET Chars] /\ \A d \in Chars : d \notin window'[d]
    BY <1>1, <2>1 DEF PartyIInv, Present
  <2> QED BY <1>1, <2>1, <2>2, <2>3 DEF PartyIInv, TypeInv, Present
<1>6. ASSUME NEW c \in Chars, CHAR_login(c) PROVE PartyIInv'
  <2>1. PICK slots \in [Slots -> Kinds] :
           /\ c \notin online /\ online' = online \cup {c} /\ UNCHANGED window
           /\ mode' = [mode EXCEPT ![c] = "NONE"]
           /\ idx' = [idx EXCEPT ![c] = NoTable]
           /\ items' = [items EXCEPT ![c] = slots]
    BY <1>6 DEF CHAR_login
  <2>2. NoTable \in Tables /\ (\A i \in Places : NoTable[i] = "none") /\ slots \in ItemSet
    BY DEF NoTable, Tables, ItemSet
  <2>3. mode[c] = "NONE" /\ \A d \in Chars : PartyAt(d) /\ idx[d] \in Tables
    BY <2>1, Typed DEF PartyIInv, Present
  <2>4. /\ idx' \in [Chars -> Tables] /\ idx'[c] = NoTable /\ \A d \in Chars \ {c} : idx'[d] = idx[d]
        /\ mode' = mode /\ items' \in [Chars -> ItemSet]
    BY <2>1, <2>2, <2>3 DEF PartyIInv, TypeInv, Modes
  <2>5. ASSUME NEW d \in Chars PROVE PartyAt(d)'
    <3>1. CASE d = c
      BY <2>2, <2>3, <2>4, <3>1, PlacesFacts DEF PartyAt, Alone
    <3>2. CASE d # c
      <4>1. mode[d] = "CLIENT" => idx[d][0] # c
        BY <2>3, <3>2 DEF PartyAt, Follows
      <4>2. mode[d] = "LEADER" => \A i \in Others : idx[d][i] # c
        BY <2>3, <3>2, PlacesFacts DEF PartyAt, Leads
      <4>3. PartyAt(d) /\ idx'[d] = idx[d] /\ mode' = mode
        BY <2>3, <2>4, <3>2
      <4>4. mode[d] = "CLIENT" => Follows(d)'
        BY <2>4, <4>1, <4>3 DEF PartyAt, Follows
      <4>5. mode[d] = "LEADER" => Leads(d)'
        BY <2>3, <2>4, <4>2, <4>3, PlacesFacts DEF PartyAt, Leads, Tables
      <4> QED BY <4>3, <4>4, <4>5 DEF PartyAt, Alone
    <3> QED BY <3>1, <3>2
  <2> QED BY <1>1, <2>1, <2>4, <2>5 DEF PartyIInv, TypeInv, Present
<1>7. CASE UNCHANGED vars
  BY <1>7 DEF vars, PartyIInv, TypeInv, Present, PartyAt, Alone, Follows, Leads
<1> QED BY <1>2, <1>3, <1>4, <1>5, <1>6, <1>7 DEF Next

\* The inductive invariant: the tables of leaders and members agree.
THEOREM PartyInvariance == Spec => []PartyIInv
<1> QED BY InitPartyIInv, NextPartyIInv, PTL DEF Spec

\* Every place of a table holds a character or nothing, and every slot an item or not.
THEOREM PartyTypeCorrect == Spec => []TypeOK
<1>1. PartyIInv => TypeOK
  BY DEF PartyIInv, TypeInv, TypeOK, Modes, Tables, ItemSet
<1> QED BY <1>1, PartyInvariance, PTL

\* Members follow leaders that are online and list them once; leaders list
\* members that follow them: whatever index was reused meanwhile.
THEOREM TablesOfAPartyAgree == Spec => []TablesAgree
<1>1. PartyIInv => TablesAgree
  <2> SUFFICES ASSUME PartyIInv, NEW l \in online
               PROVE  /\ mode[l] = "CLIENT" =>
                           /\ idx[l][0] \in online /\ mode[idx[l][0]] = "LEADER"
                           /\ Cardinality({i \in Places \ {0} : idx[idx[l][0]][i] = l}) = 1
                      /\ mode[l] = "LEADER" =>
                           /\ idx[l][0] = l
                           /\ \E i \in Places \ {0} : idx[l][i] # "none"
                           /\ \A i \in Places \ {0} : idx[l][i] # "none" =>
                                idx[l][i] \in online /\ mode[idx[l][i]] = "CLIENT" /\ idx[idx[l][i]][0] = l
                      /\ mode[l] = "NONE" =>
                           idx[l][0] \in {"none", l} /\ \A i \in Places \ {0} : idx[l][i] = "none"
    BY DEF TablesAgree
  <2>1. /\ l \in Chars /\ \A d \in Chars : PartyAt(d) /\ idx[d] \in Tables
        /\ \A d \in Chars : mode[d] # "NONE" => d \in online
    BY Typed DEF PartyIInv, TypeInv, Present
  <2>2. CASE mode[l] = "CLIENT"
    <3> DEFINE f == idx[l][0]
    <3>1. f \in Chars /\ mode[f] = "LEADER" /\ f \in online
      BY <2>1, <2>2 DEF PartyAt, Follows
    <3>2. PICK i \in Others : idx[f][i] = l
      BY <2>1, <2>2 DEF PartyAt, Follows
    <3>3. {j \in Places \ {0} : idx[f][j] = l} = {i}
      <4>1. \A j \in Others : idx[f][j] = l => j = i
        BY <2>1, <3>1, <3>2, PlacesFacts DEF PartyAt, Leads
      <4> QED BY <3>2, <4>1 DEF Others
    <3>4. Cardinality({j \in Places \ {0} : idx[f][j] = l}) = 1
      BY <3>3, FS_Singleton
    <3> QED BY <2>2, <3>1, <3>4
  <2>3. CASE mode[l] = "LEADER"
    <3>1. \A i \in Others : idx[l][i] # "none" => idx[l][i] \in Chars
      BY <2>1, PlacesFacts DEF Tables
    <3> QED BY <2>1, <2>3, <3>1 DEF PartyAt, Leads, Others
  <2>4. CASE mode[l] = "NONE"
    BY <2>1, <2>4 DEF PartyAt, Alone, Others
  <2> QED BY <2>2, <2>3, <2>4
<1> QED BY <1>1, PartyInvariance, PTL
----------------------------------------------------------------------------
(* The division into parties. *)

\* The leader of the party that each character is in: the mapping of PS
Lead == [c \in Chars |-> IF mode[c] = "NONE" THEN "none" ELSE idx[c][0]]

\* Whose party a character is in, of one in no party and of one that leads
LEMMA LeadFacts ==
    ASSUME PartyIInv
    PROVE  /\ DOMAIN Lead = Chars
           /\ \A d \in Chars : /\ Lead[d] = IF mode[d] = "NONE" THEN "none" ELSE idx[d][0]
                               /\ mode[d] = "LEADER" <=> Lead[d] = d
                               /\ Lead[d] # "none" => /\ Lead[d] \in Chars /\ mode[Lead[d]] = "LEADER"
                                                      /\ \E i \in Places : idx[Lead[d]][i] = d
<1>1. \A d \in Chars : PartyAt(d) /\ mode[d] \in Modes /\ idx[d] \in Tables
  BY Typed DEF PartyIInv
<1>2. DOMAIN Lead = Chars /\ \A d \in Chars : Lead[d] = IF mode[d] = "NONE" THEN "none" ELSE idx[d][0]
  BY DEF Lead
<1> SUFFICES ASSUME NEW d \in Chars
             PROVE  /\ mode[d] = "LEADER" <=> Lead[d] = d
                    /\ Lead[d] # "none" => /\ Lead[d] \in Chars /\ mode[Lead[d]] = "LEADER"
                                           /\ \E i \in Places : idx[Lead[d]][i] = d
  BY <1>2
<1>3. CASE mode[d] = "NONE"
  BY <1>2, <1>3, PlacesFacts
<1>4. CASE mode[d] = "LEADER"
  BY <1>1, <1>2, <1>4, PlacesFacts DEF PartyAt, Leads
<1>5. CASE mode[d] = "CLIENT"
  <2>1. Follows(d) /\ Lead[d] = idx[d][0]
    BY <1>1, <1>2, <1>5 DEF PartyAt
  <2> QED BY <1>5, <2>1, PlacesFacts DEF Follows
<1> QED BY <1>1, <1>3, <1>4, <1>5 DEF Modes

\* A party with an empty place in its leader's table has room: each of its
\* members has a place of its own there.
LEMMA PartyHasRoom ==
    ASSUME PartyIInv, NEW l \in Chars, NEW p \in Others, idx[l][p] = "none"
    PROVE  Cardinality({d \in Chars : Lead[d] = l}) < PartyMax
<1> DEFINE P == {d \in Chars : Lead[d] = l}
           f == [d \in P |-> CHOOSE i \in Places : idx[l][i] = d]
<1>1. \A d \in P : \E i \in Places : idx[l][i] = d
  BY LeadFacts, PlacesFacts
<1>2. \A d \in P : f[d] \in Places \ {p} /\ idx[l][f[d]] = d
  BY <1>1, PlacesFacts
<1>3. f \in Injection(P, Places \ {p})
  <2>1. f \in [P -> Places \ {p}]
    BY <1>2
  <2> HIDE DEF f, P
  <2>2. \A d, e \in P : f[d] = f[e] => d = e
    BY <1>2
  <2>3. IsInjective(f)
    BY <2>1, <2>2 DEF IsInjective
  <2> QED BY <2>1, <2>3 DEF Injection
<1>4. IsFiniteSet(Places) /\ Cardinality(Places) = PartyMax
  BY FS_Interval DEF Places
<1>5. IsFiniteSet(Places \ {p}) /\ Cardinality(Places \ {p}) = PartyMax - 1
  BY <1>4, PlacesFacts, FS_RemoveElement
<1>6. Cardinality(P) <= Cardinality(Places \ {p}) /\ IsFiniteSet(P)
  BY <1>3, <1>5, FS_Injection
<1>7. Cardinality(P) \in Nat
  BY <1>6, FS_CardinalityType
<1> QED BY <1>5, <1>6, <1>7

\* A join is a join of the division.
LEMMA JoinRefines ==
    ASSUME PartyIInv, NEW c \in Chars, NEW l \in Chars, NEW p \in Others, Joins(c, l, p)
    PROVE  PS!Join(c, l)
<1>1. /\ mode'[l] = "LEADER" /\ mode'[c] = "CLIENT" /\ idx'[l][0] = l /\ idx'[c][0] = l
      /\ \A d \in Chars \ {c, l} : idx'[d] = idx[d] /\ mode'[d] = mode[d]
  BY JoinTables
<1>2. c # l /\ mode[c] = "NONE" /\ mode[l] \in {"NONE", "LEADER"} /\ idx[l][p] = "none"
  BY DEF Joins
<1>3. Lead[c] = "none" /\ Lead[l] \in {"none", l}
  BY <1>2, LeadFacts
<1>4. Lead' = [Lead EXCEPT ![c] = l, ![l] = l]
  <2>1. Lead' = [d \in Chars |-> IF mode'[d] = "NONE" THEN "none" ELSE idx'[d][0]]
    BY DEF Lead
  <2>2. Lead'[c] = l /\ Lead'[l] = l
    BY <1>1, <2>1
  <2>3. \A d \in Chars \ {c, l} : Lead'[d] = Lead[d]
    BY <1>1, <2>1, LeadFacts
  <2>4. Lead' = [d \in Chars |-> IF d \in {c, l} THEN l ELSE Lead[d]]
    <3>1. \A d \in Chars : (IF mode'[d] = "NONE" THEN "none" ELSE idx'[d][0])
                         = IF d \in {c, l} THEN l ELSE Lead[d]
      BY <2>1, <2>2, <2>3
    <3> QED BY <2>1, <3>1
  <2>5. [Lead EXCEPT ![c] = l, ![l] = l] = [d \in Chars |-> IF d \in {c, l} THEN l ELSE Lead[d]]
    BY LeadFacts
  <2> QED BY <2>4, <2>5
<1>5. Cardinality({d \in Chars : Lead[d] = l}) < PartyMax
  BY <1>2, PartyHasRoom
<1> QED BY <1>2, <1>3, <1>4, <1>5 DEF PS!Join, PS!Party, Lead, PS!Cardinality, Cardinality, PS!IsFiniteSet, IsFiniteSet

\* Leaving a party, and its end, are those of the division.
LEMMA DischargeRefines ==
    ASSUME PartyIInv, NEW c \in online, NEW loud \in BOOLEAN, CHAR_DischargeParty(c, loud)
    PROVE  PS!Leave(c) \/ PS!Dissolve(c) \/ Lead' = Lead
<1>1. c \in Chars /\ Lead' = [d \in Chars |-> IF mode'[d] = "NONE" THEN "none" ELSE idx'[d][0]]
  BY DEF PartyIInv, TypeInv, Lead
<1>2. CASE Dissolve(c, loud)
  <2>1. /\ mode[c] = "LEADER"
        /\ \A d \in Chars : mode'[d] = IF mode[d] # "NONE" /\ idx[d][0] = c THEN "NONE" ELSE mode[d]
        /\ \A d \in Chars : mode'[d] # "NONE" => idx'[d][0] = idx[d][0]
    BY <1>2, DissolveStep
  <2>2. Lead[c] = c
    BY <1>1, <2>1, LeadFacts
  <2>3. \A d \in Chars : Lead'[d] = IF Lead[d] = c THEN "none" ELSE Lead[d]
    BY <1>1, <2>1, LeadFacts, PlacesFacts
  <2>4. Lead' = [d \in Chars |-> IF Lead[d] = c THEN "none" ELSE Lead[d]]
    BY <1>1, <2>3
  <2> QED BY <2>2, <2>4 DEF PS!Dissolve, Lead
<1>3. CASE Leave(c, loud)
  <2>1. PICK l \in Chars, p \in Others :
           /\ l = idx[c][0]
           /\ mode[c] = "CLIENT" /\ l # c /\ mode[l] = "LEADER" /\ idx[l][p] = c
           /\ mode'[c] = "NONE" /\ idx'[l][0] = l
           /\ mode'[l] = IF \E i \in Others \ {p} : idx[l][i] # "none" THEN "LEADER" ELSE "NONE"
           /\ \A d \in Chars \ {c, l} : idx'[d] = idx[d] /\ mode'[d] = mode[d]
    BY <1>3, LeaveTable DEF PartyIInv, TypeInv
  <2>2. \A d \in Chars : PartyAt(d) /\ mode[d] \in Modes /\ idx[d] \in Tables
    BY Typed DEF PartyIInv
  <2>3. Lead[c] = l /\ Lead[l] = l /\ l # "none"
    BY <1>1, <2>1, LeadFacts, PlacesFacts
  <2> DEFINE P == {d \in Chars : Lead[d] = l}
  <2>4. P = {c, l} <=> ~ \E i \in Others \ {p} : idx[l][i] # "none"
    <3>1. ASSUME NEW i \in Others \ {p}, idx[l][i] # "none" PROVE P # {c, l}
      <4>1. idx[l][i] \in Chars /\ mode[idx[l][i]] = "CLIENT" /\ idx[idx[l][i]][0] = l /\ idx[l][i] # c
        BY <2>1, <2>2, <3>1, PlacesFacts DEF PartyAt, Leads, Tables
      <4>2. idx[l][i] \in P /\ idx[l][i] # l
        BY <2>1, <4>1, LeadFacts
      <4> QED BY <4>1, <4>2
    <3>2. ASSUME NEW d \in P, d \notin {c, l} PROVE \E i \in Others \ {p} : idx[l][i] # "none"
      <4>1. Lead[d] = l /\ d \in Chars
        OBVIOUS
      <4>2. mode[d] = "CLIENT" /\ idx[d][0] = l
        BY <2>2, <2>3, <3>2, <4>1, LeadFacts DEF Modes
      <4>3. PICK i \in Others : idx[l][i] = d
        BY <2>2, <4>2 DEF PartyAt, Follows
      <4>4. i # p /\ d # "none"
        BY <2>1, <3>2, <4>3, PlacesFacts
      <4> QED BY <4>3, <4>4
    <3>3. c \in P /\ l \in P
      BY <1>1, <2>3
    <3> QED BY <3>1, <3>2, <3>3
  <2>5. \A d \in Chars : Lead'[d] = IF d = c \/ (d = l /\ P = {c, d}) THEN "none" ELSE Lead[d]
    <3> HIDE DEF P
    <3>1. Lead'[c] = "none"
      BY <1>1, <2>1
    <3>2. Lead'[l] = IF P = {c, l} THEN "none" ELSE Lead[l]
      BY <1>1, <2>1, <2>3, <2>4
    <3>3. \A d \in Chars \ {c, l} : Lead'[d] = Lead[d]
      BY <1>1, <2>1, LeadFacts
    <3> QED BY <2>1, <3>1, <3>2, <3>3
  <2>6. Lead' = [d \in Chars |-> IF d = c \/ (d = Lead[c] /\ P = {c, d}) THEN "none" ELSE Lead[d]]
    <3> HIDE DEF P
    <3> QED BY <1>1, <2>3, <2>5
  <2>7. Lead[c] \notin {"none", c}
    BY <2>1, <2>3
  <2> QED BY <2>3, <2>6, <2>7 DEF PS!Leave, PS!Party, Lead
<1>4. CASE mode[c] = "NONE" /\ UNCHANGED <<mode, idx, items>>
  BY <1>4 DEF Lead
<1> QED BY <1>2, <1>3, <1>4 DEF CHAR_DischargeParty

\* Each step is a join, a leave or the end of one party, or leaves the division alone.
LEMMA NextRefines == PartyIInv /\ [Next]_vars => PS!Next \/ Lead' = Lead
<1> SUFFICES ASSUME PartyIInv, [Next]_vars PROVE PS!Next \/ Lead' = Lead
  OBVIOUS
<1>1. online \subseteq Chars
  BY DEF PartyIInv, TypeInv
<1>2. ASSUME NEW c \in online, NEW t \in online, t # c, mode[c] = "NONE", CHAR_JoinParty_Main(c, t)
      PROVE  PS!Next
  <2>1. PICK l \in Chars, p \in Others : Joins(c, l, p)
    BY <1>2, JoinMain
  <2>2. PS!Join(c, l)
    BY <1>1, <2>1, JoinRefines
  <2> QED BY <1>1, <2>2 DEF PS!Next
<1>3. ASSUME NEW c \in online, NEW loud \in BOOLEAN, CHAR_DischargeParty(c, loud)
      PROVE  PS!Next \/ Lead' = Lead
  BY <1>1, <1>3, DischargeRefines DEF PS!Next
<1>4. ASSUME NEW c \in Chars, CHAR_JoinParty(c) PROVE PS!Next \/ Lead' = Lead
  <2>1. c \in online /\ mode[c] = "NONE"
    BY <1>4 DEF CHAR_JoinParty
  <2>2. CASE \E t \in online \ {c} : CHAR_JoinParty_Main(c, t)
    BY <1>2, <2>1, <2>2
  <2>3. CASE UNCHANGED <<mode, idx>>
    BY <2>3 DEF Lead
  <2> QED BY <1>4, <2>2, <2>3 DEF CHAR_JoinParty, Joinable
<1>5. ASSUME NEW c \in Chars, NEW t \in Chars, CHAR_JoinParty_WindowResult(c, t)
      PROVE  PS!Next \/ Lead' = Lead
  <2>1. c \in online /\ t # c
    BY <1>5 DEF CHAR_JoinParty_WindowResult, PartyIInv, Present
  <2>2. CASE t \in online /\ mode[c] = "NONE" /\ CHAR_JoinParty_Main(c, t)
    BY <1>2, <2>1, <2>2
  <2>3. CASE UNCHANGED <<mode, idx>>
    BY <2>3 DEF Lead
  <2> QED BY <1>5, <2>2, <2>3 DEF CHAR_JoinParty_WindowResult
<1>6. ASSUME NEW c \in Chars, Discharge(c) PROVE PS!Next \/ Lead' = Lead
  BY <1>3, <1>6 DEF Discharge
<1>7. ASSUME NEW c \in Chars, CHAR_logout(c) PROVE PS!Next \/ Lead' = Lead
  BY <1>3, <1>7 DEF CHAR_logout
<1>8. ASSUME NEW c \in Chars, CHAR_login(c) PROVE Lead' = Lead
  <2>1. mode[c] = "NONE"
    BY <1>8 DEF CHAR_login, PartyIInv, Present
  <2>2. mode' = mode /\ \A d \in Chars \ {c} : idx'[d] = idx[d]
    BY <1>8, <2>1 DEF CHAR_login, PartyIInv, TypeInv
  <2>3. \A d \in Chars : (IF mode'[d] = "NONE" THEN "none" ELSE idx'[d][0])
                       = (IF mode[d] = "NONE" THEN "none" ELSE idx[d][0])
    BY <2>1, <2>2
  <2> QED BY <2>3 DEF Lead
<1>9. CASE UNCHANGED vars
  BY <1>9 DEF vars, Lead
<1> QED BY <1>4, <1>5, <1>6, <1>7, <1>8, <1>9 DEF Next

\* Whatever is joined, left, logged out and reused, the tables describe a
\* division of the characters into parties of at most PartyMax, one join or
\* leave a step.
THEOREM DividedIntoParties == Spec => ImplementsParties
<1>1. Init => PS!Init
  BY DEF Init, PS!Init
<1>2. PartyIInv /\ [Next]_vars => [PS!Next]_Lead
  BY NextRefines
<1>3. Spec => [][PS!Next]_Lead
  BY <1>2, PartyInvariance, PTL DEF Spec
<1> QED BY <1>1, <1>3, PTL DEF Spec, ImplementsParties, PS!Spec, Lead
----------------------------------------------------------------------------
(* Battles. *)

HIDE PartyAssumption DEF PartyAssumption
USE BattleAssumption DEF BattleAssumption

BattleModes == {"NONE", "INIT", "C_WAIT", "C_OK", "RESCUE", "FINAL", "WATCHINIT"}
Away  == {"NONE", "FINAL"}

\* Whoever follows a leader, the leader leads; parties have room on a side.
PartyInv ==
    /\ \A c \in Fighters : lead[c] # "none" => lead[lead[c]] = lead[c]
    /\ \A l \in Fighters : IsFiniteSet(Followers(l)) /\ Cardinality(Followers(l)) <= SideMax

\* Sides are finite, and who watches is on the first.
SidesInv ==
    /\ \A b \in Battles, s \in Sides : IsFiniteSet(entry[b][s])
    /\ \A b \in Battles : btype[b] = "WATCH" => entry[b][1] = {}

BattleIInv == BattleTypeOK /\ PartyInv /\ SidesInv /\ InOneBattle /\ NobodyWatchesNothing
----------------------------------------------------------------------------
(* Parties. *)

\* To send characters back keeps the parties of the others.
LEMMA SentBackParty ==
    ASSUME BattleTypeOK, PartyInv, NEW X, lead' = SentBack(X)
    PROVE  PartyInv' /\ lead' \in [Fighters -> Fighters \cup {"none"}]
<1> DEFINE stays(c) == c \notin X /\ lead[c] \notin X
           more(l)  == \E d \in Followers(l) \ {l} : stays(d)
<1>1. \A c \in Fighters : lead'[c] = IF stays(c) /\ more(lead[c]) THEN lead[c] ELSE "none"
  BY DEF SentBack
<1>2. lead \in [Fighters -> Fighters \cup {"none"}]
  BY DEF BattleTypeOK
<1>3. lead' \in [Fighters -> Fighters \cup {"none"}]
  <2>1. lead' = [c \in Fighters |-> lead'[c]]
    BY DEF SentBack
  <2> HIDE DEF stays, more
  <2> QED BY <1>1, <1>2, <2>1
<1>4. ASSUME NEW c \in Fighters, lead'[c] # "none" PROVE lead'[lead'[c]] = lead'[c]
  <2> DEFINE l == lead[c]
  <2>1. stays(c) /\ more(l) /\ lead'[c] = l /\ l \in Fighters
    BY <1>1, <1>2, <1>4
  <2>2. lead[l] = l
    BY <2>1 DEF PartyInv
  <2>3. stays(l)
    BY <2>1, <2>2
  <2> HIDE DEF stays, more
  <2> QED BY <1>1, <2>1, <2>2, <2>3
<1>5. ASSUME NEW l \in Fighters PROVE IsFiniteSet(Followers(l)') /\ Cardinality(Followers(l)') <= SideMax
  <2>1. Followers(l)' \subseteq Followers(l)
    BY <1>1, <1>2 DEF Followers
  <2>2. IsFiniteSet(Followers(l)) /\ Cardinality(Followers(l)) <= SideMax
    BY DEF PartyInv
  <2>3. /\ IsFiniteSet(Followers(l)') /\ Cardinality(Followers(l)') <= Cardinality(Followers(l))
        /\ Cardinality(Followers(l)) \in Nat /\ Cardinality(Followers(l)') \in Nat
    BY <2>1, <2>2, FS_Subset, FS_CardinalityType
  <2> QED BY <2>2, <2>3
<1> QED BY <1>3, <1>4, <1>5 DEF PartyInv

\* Who joins fits in.
LEMMA JoinParty ==
    ASSUME BattleTypeOK, PartyInv, NEW c \in Fighters, NEW t \in Fighters, CHAR_JoinParty_Free(c, t)
    PROVE  PartyInv' /\ lead' \in [Fighters -> Fighters \cup {"none"}]
<1>1. /\ c # t /\ lead[c] = "none" /\ lead[t] \in {"none", t}
      /\ Cardinality(Followers(t) \cup {t}) < SideMax
  BY DEF CHAR_JoinParty_Free
<1>2. lead \in [Fighters -> Fighters \cup {"none"}]
  BY DEF BattleTypeOK
<1>3. /\ lead' \in [Fighters -> Fighters \cup {"none"}]
      /\ \A d \in Fighters : lead'[d] = IF d \in {c, t} THEN t ELSE lead[d]
  BY <1>2 DEF CHAR_JoinParty_Free
<1>4. \A d \in Fighters : lead[d] # c
  BY <1>1 DEF PartyInv
<1>5. ASSUME NEW d \in Fighters, lead'[d] # "none" PROVE lead'[lead'[d]] = lead'[d]
  BY <1>1, <1>2, <1>3, <1>4, <1>5 DEF PartyInv
<1>6. ASSUME NEW l \in Fighters PROVE IsFiniteSet(Followers(l)') /\ Cardinality(Followers(l)') <= SideMax
  <2>1. IsFiniteSet(Followers(l)) /\ Cardinality(Followers(l)) <= SideMax
    BY DEF PartyInv
  <2>2. CASE l # t
    <3>1. Followers(l)' \subseteq Followers(l)
      BY <1>3, <2>2 DEF Followers
    <3>2. /\ IsFiniteSet(Followers(l)') /\ Cardinality(Followers(l)') <= Cardinality(Followers(l))
          /\ Cardinality(Followers(l)) \in Nat /\ Cardinality(Followers(l)') \in Nat
      BY <2>1, <3>1, FS_Subset, FS_CardinalityType
    <3> QED BY <2>1, <3>2
  <2>3. CASE l = t
    <3> DEFINE F == Followers(t) \cup {t}
    <3>1. Followers(l)' = F \cup {c}
      BY <1>1, <1>3, <2>3 DEF Followers
    <3>2. IsFiniteSet(F) /\ Cardinality(F) \in Nat /\ Cardinality(F) < SideMax
      BY <1>1, <2>1, <2>3, FS_AddElement, FS_CardinalityType
    <3> HIDE DEF F
    <3>3. IsFiniteSet(F \cup {c}) /\ Cardinality(F \cup {c}) = IF c \in F THEN Cardinality(F) ELSE Cardinality(F) + 1
      BY <3>2, FS_AddElement
    <3> QED BY <3>1, <3>2, <3>3
  <2> QED BY <2>2, <2>3
<1> QED BY <1>3, <1>5, <1>6 DEF PartyInv

\* One who follows nobody else and those it takes along fit on a side.
LEMMA WithFits ==
    ASSUME BattleTypeOK, PartyInv, NEW c \in Fighters
    PROVE  With(c) \subseteq Fighters /\ IsFiniteSet(With(c)) /\ Cardinality(With(c)) <= SideMax
<1>1. IsFiniteSet(Followers(c)) /\ Cardinality(Followers(c)) <= SideMax
  BY DEF PartyInv
<1>2. CASE lead[c] = c
  <2>1. With(c) \subseteq Followers(c)
    BY <1>2 DEF With, Followers
  <2>2. /\ IsFiniteSet(With(c)) /\ Cardinality(With(c)) <= Cardinality(Followers(c))
        /\ Cardinality(Followers(c)) \in Nat /\ Cardinality(With(c)) \in Nat
    BY <1>1, <2>1, FS_Subset, FS_CardinalityType
  <2> QED BY <1>1, <2>1, <2>2 DEF Followers
<1>3. CASE lead[c] # c
  <2>1. With(c) = {c}
    BY <1>3 DEF With, Followers, PartyInv
  <2> QED BY <2>1, FS_Singleton
<1> QED BY <1>2, <1>3
----------------------------------------------------------------------------
(* Sides of battles. *)

\* What leaving asks of the characters X that leave, and of the others
Leaves(X) ==
    /\ \A b \in Battles, s \in Sides : entry'[b][s] = entry[b][s] \ X
    /\ \A c \in Fighters :
          IF c \in X THEN cmode'[c] \in Away /\ (cmode'[c] = "FINAL" => cbattle'[c] = "none")
          ELSE /\ cbattle'[c] = cbattle[c] /\ (cmode'[c] \in Away <=> cmode[c] \in Away)
               /\ (cmode'[c] = "FINAL" => cmode[c] = "FINAL")
    /\ \A c \in Fighters : dead'[c] => c \notin X /\ cmode[c] \notin Away
    /\ \A b \in Battles : bmode'[b] = "NONE" => bmode[b] = "NONE" \/ (entry'[b][0] = {} /\ entry'[b][1] = {})
    /\ \A b \in Battles : btype'[b] = "WATCH" => btype[b] = "WATCH"

\* When characters leave the battles, sides stay within their room and in step with the characters' own marks.
LEMMA LeaveSides ==
    ASSUME BattleTypeOK, SidesInv, InOneBattle, NEW X, Leaves(X)
    PROVE  SidesInv' /\ InOneBattle'
<1>1. \A b \in Battles, s \in Sides : entry'[b][s] = entry[b][s] \ X /\ entry'[b][s] \subseteq entry[b][s]
  BY DEF Leaves
<1>2. ASSUME NEW b \in Battles, NEW s \in Sides
      PROVE  IsFiniteSet(entry'[b][s]) /\ Cardinality(entry'[b][s]) <= SideMax
  <2>1. IsFiniteSet(entry[b][s]) /\ Cardinality(entry[b][s]) <= SideMax
    BY DEF SidesInv, InOneBattle
  <2>2. /\ IsFiniteSet(entry'[b][s]) /\ Cardinality(entry'[b][s]) <= Cardinality(entry[b][s])
        /\ Cardinality(entry'[b][s]) \in Nat /\ Cardinality(entry[b][s]) \in Nat
    BY <1>1, <2>1, FS_Subset, FS_CardinalityType
  <2> QED BY <2>1, <2>2
<1>3. SidesInv'
  <2>1. \A b \in Battles : btype'[b] = "WATCH" => entry'[b][1] = {}
    BY <1>1 DEF SidesInv, Leaves, Sides
  <2> QED BY <1>2, <2>1 DEF SidesInv
<1>4. ASSUME NEW c \in Fighters
      PROVE  /\ \A b \in Battles, s \in Sides :
                   c \in entry'[b][s] => /\ cbattle'[c] = b /\ bmode'[b] # "NONE"
                                         /\ c \notin entry'[b][1 - s]
             /\ cmode'[c] \in Away <=> ~ \E b \in Battles : c \in People(b)'
             /\ cmode'[c] = "FINAL" => cbattle'[c] = "none"
             /\ dead'[c] => cmode'[c] \notin Away
  <2>1. /\ \A b \in Battles, s \in Sides :
              c \in entry[b][s] => /\ cbattle[c] = b /\ bmode[b] # "NONE"
                                   /\ c \notin entry[b][1 - s]
        /\ cmode[c] \in Away <=> ~ \E b \in Battles : c \in People(b)
        /\ cmode[c] = "FINAL" => cbattle[c] = "none"
    BY DEF InOneBattle, Away
  <2>2. \A b \in Battles : c \in People(b)' <=> c \in People(b) /\ c \notin X
    BY <1>1 DEF People, Sides
  <2>3. CASE c \in X
    BY <1>1, <2>2, <2>3 DEF Leaves
  <2>4. CASE c \notin X
    <3>1. ASSUME NEW b \in Battles, NEW s \in Sides, c \in entry'[b][s]
          PROVE  cbattle'[c] = b /\ bmode'[b] # "NONE" /\ c \notin entry'[b][1 - s]
      <4>1. c \in entry[b][s] /\ 1 - s \in Sides
        BY <1>1, <3>1 DEF Sides
      <4>2. cbattle[c] = b /\ bmode[b] # "NONE" /\ c \notin entry[b][1 - s]
        BY <2>1, <4>1
      <4>3. bmode'[b] # "NONE"
        BY <3>1, <4>2 DEF Leaves, Sides
      <4>4. cbattle'[c] = cbattle[c]
        BY <2>4 DEF Leaves
      <4> QED BY <1>1, <4>1, <4>2, <4>3, <4>4
    <3> QED BY <2>1, <2>2, <2>4, <3>1 DEF Leaves
  <2> QED BY <2>3, <2>4
<1> QED BY <1>2, <1>3, <1>4 DEF InOneBattle, Away

\* Characters that are in no battle enter b, X0 on the one and X1 on the other side.
Enters(b, X0, X1) ==
    /\ b \in Battles /\ X0 \subseteq Fighters /\ X1 \subseteq Fighters /\ X0 \cap X1 = {}
    /\ IsFiniteSet(X0) /\ IsFiniteSet(X1)
    /\ Cardinality(entry[b][0] \cup X0) <= SideMax /\ Cardinality(entry[b][1] \cup X1) <= SideMax
    /\ \A d \in Battles : IF d = b THEN entry'[d][0] = entry[d][0] \cup X0 /\ entry'[d][1] = entry[d][1] \cup X1
                          ELSE entry'[d] = entry[d]
    /\ \A c \in Fighters :
          IF c \in X0 \cup X1 THEN cmode[c] \in Away /\ cmode'[c] \notin Away /\ cbattle'[c] = b
          ELSE cmode'[c] = cmode[c] /\ cbattle'[c] = cbattle[c]
    /\ UNCHANGED dead
    /\ bmode'[b] # "NONE" /\ (btype'[b] = "WATCH" => entry[b][1] = {} /\ X1 = {})
    /\ \A d \in Battles \ {b} : bmode'[d] = bmode[d] /\ btype'[d] = btype[d]

\* So they do when a free battle is filled.
LEMMA EnterSides ==
    ASSUME BattleTypeOK, SidesInv, InOneBattle, NEW b, NEW X0, NEW X1, Enters(b, X0, X1)
    PROVE  SidesInv' /\ InOneBattle'
<1>1. ASSUME NEW d \in Battles, NEW s \in Sides
      PROVE  IsFiniteSet(entry'[d][s]) /\ Cardinality(entry'[d][s]) <= SideMax
  <2>1. IsFiniteSet(entry[d][s]) /\ Cardinality(entry[d][s]) <= SideMax
    BY DEF SidesInv, InOneBattle
  <2>2. IsFiniteSet(entry[d][s] \cup X0) /\ IsFiniteSet(entry[d][s] \cup X1)
    BY <2>1, FS_Union DEF Enters
  <2> QED BY <2>1, <2>2 DEF Enters, Sides
<1>2. SidesInv'
  <2>1. \A d \in Battles : btype'[d] = "WATCH" => entry'[d][1] = {}
    BY DEF SidesInv, Enters
  <2> QED BY <1>1, <2>1 DEF SidesInv
<1>3. ASSUME NEW c \in Fighters
      PROVE  /\ \A d \in Battles, s \in Sides :
                   c \in entry'[d][s] => /\ cbattle'[c] = d /\ bmode'[d] # "NONE"
                                         /\ c \notin entry'[d][1 - s]
             /\ cmode'[c] \in Away <=> ~ \E d \in Battles : c \in People(d)'
             /\ cmode'[c] = "FINAL" => cbattle'[c] = "none"
             /\ dead'[c] => cmode'[c] \notin Away
  <2>1. /\ \A d \in Battles, s \in Sides :
              c \in entry[d][s] => /\ cbattle[c] = d /\ bmode[d] # "NONE"
                                   /\ c \notin entry[d][1 - s]
        /\ cmode[c] \in Away <=> ~ \E d \in Battles : c \in People(d)
        /\ cmode[c] = "FINAL" => cbattle[c] = "none"
        /\ dead[c] => cmode[c] \notin Away
    BY DEF InOneBattle, Away
  <2>2. CASE c \in X0 \cup X1
    <3>1. \A d \in Battles : c \notin entry[d][0] /\ c \notin entry[d][1]
      BY <2>1, <2>2 DEF Enters, People
    <3>2. \A d \in Battles : d # b => c \notin entry'[d][0] /\ c \notin entry'[d][1]
      BY <3>1 DEF Enters
    <3>3. c \in entry'[b][0] <=> c \in X0
      BY <3>1 DEF Enters
    <3>4. c \in entry'[b][1] <=> c \in X1
      BY <3>1 DEF Enters
    <3>5. cbattle'[c] = b /\ bmode'[b] # "NONE" /\ b \in Battles /\ cmode'[c] \notin Away /\ ~ (c \in X0 /\ c \in X1)
      BY <2>2 DEF Enters
    <3>6. \E d \in Battles : c \in People(d)'
      BY <2>2, <3>3, <3>4, <3>5 DEF People
    <3>7. ASSUME NEW d \in Battles, NEW s \in Sides, c \in entry'[d][s]
          PROVE  cbattle'[c] = d /\ bmode'[d] # "NONE" /\ c \notin entry'[d][1 - s]
      <4>1. s = 0 \/ s = 1
        BY DEF Sides
      <4>2. d = b
        BY <3>2, <3>7, <4>1
      <4>3. 1 - 0 = 1 /\ 1 - 1 = 0
        OBVIOUS
      <4> QED BY <3>3, <3>4, <3>5, <3>7, <4>1, <4>2, <4>3
    <3>8. cmode'[c] # "FINAL" /\ cmode'[c] \notin Away
      BY <3>5 DEF Away
    <3> QED BY <3>6, <3>7, <3>8
  <2>3. CASE c \notin X0 \cup X1
    <3>1. cmode'[c] = cmode[c] /\ cbattle'[c] = cbattle[c] /\ dead'[c] = dead[c]
      BY <2>3 DEF Enters
    <3>2. \A d \in Battles, s \in Sides : c \in entry'[d][s] <=> c \in entry[d][s]
      BY <2>3 DEF Enters, Sides
    <3>3. \A d \in Battles : c \in People(d)' <=> c \in People(d)
      BY <3>2 DEF People, Sides
    <3>4. \A d \in Battles : bmode[d] # "NONE" => bmode'[d] # "NONE"
      BY DEF Enters
    <3>5. \A s \in Sides : 1 - s \in Sides
      BY DEF Sides
    <3> QED BY <2>1, <3>1, <3>2, <3>3, <3>4, <3>5
  <2> QED BY <2>2, <2>3
<1> QED BY <1>1, <1>2, <1>3 DEF InOneBattle, Away
----------------------------------------------------------------------------
(* Lists of battles. *)

InUse(b) == bmode[b] # "NONE"

Linked ==
    \A b \in Battles :
        /\ bnext[b] # "none" => bbefore[bnext[b]] = b /\ InUse(bnext[b]) /\ btype[bnext[b]] = "WATCH"
        /\ bbefore[b] # "none" => bnext[bbefore[b]] = b
        /\ ~ InUse(b) => bnext[b] = "none" /\ bbefore[b] = "none"

NoRing == \A b \in Battles : b \notin Watching(b)

Headed(b) == \E d \in Battles : InUse(d) /\ btype[d] # "WATCH" /\ b \in Watching(d)
Watched == \A b \in Battles : btype[b] = "WATCH" /\ InUse(b) /\ People(b) # {} => Headed(b)

\* The list property in the parts that steps disturb separately
LEMMA ListsParts == NobodyWatchesNothing <=> Linked /\ NoRing /\ Watched
BY DEF NobodyWatchesNothing, Linked, NoRing, Watched, Headed, InUse

\* A set that the list of b does not leave holds all of it.
LEMMA WatchingIn ==
    ASSUME NEW b \in Battles, NEW S \in SUBSET Battles, Closed(S), bnext[b] \in S \cup {"none"}
    PROVE  Watching(b) \subseteq S
BY DEF Watching

\* Behind a battle there are WATCH battles only.
LEMMA WatchingWatch ==
    ASSUME BattleTypeOK, Linked, NEW b \in Battles, NEW w \in Watching(b)
    PROVE  w \in Battles /\ InUse(w) /\ btype[w] = "WATCH" /\ bbefore[w] # "none"
<1> DEFINE S == {x \in Battles : InUse(x) /\ btype[x] = "WATCH" /\ bbefore[x] # "none"}
<1>1. \A x \in Battles : bnext[x] \in S \cup {"none"}
  BY DEF BattleTypeOK, Linked
<1> HIDE DEF S
<1>2. S \in SUBSET Battles
  BY DEF S
<1>3. Closed(S)
  BY <1>1, <1>2 DEF Closed
<1>4. w \in S
  BY <1>1, <1>2, <1>3, WatchingIn
<1> QED BY <1>4 DEF S

\* The lists stay as they are.
SameLists ==
    /\ UNCHANGED <<bnext, bbefore>>
    /\ \A b \in Battles : InUse(b) => InUse(b)' /\ btype'[b] = btype[b]
    /\ \A b \in Battles : btype'[b] = "WATCH" /\ InUse(b)' /\ People(b)' # {} => InUse(b) /\ People(b) # {}

\* A step that does not touch the lists keeps them.
LEMMA KeepLists ==
    ASSUME BattleTypeOK, NobodyWatchesNothing, SameLists
    PROVE  NobodyWatchesNothing'
<1>1. Linked /\ NoRing /\ Watched
  BY ListsParts
<1>2. \A b \in Battles : Watching(b)' = Watching(b)
  BY DEF Watching, Closed, SameLists
<1>3. Linked'
  BY <1>1 DEF Linked, SameLists, BattleTypeOK
<1>4. NoRing'
  BY <1>1, <1>2 DEF NoRing
<1>5. Watched'
  BY <1>1, <1>2 DEF Watched, Headed, SameLists
<1> QED BY <1>3, <1>4, <1>5 DEF NobodyWatchesNothing, Linked, NoRing, Watched, Headed, InUse

\* A WATCH battle b, not in use before, comes behind top.
LEMMA LinkLists ==
    ASSUME BattleTypeOK, NobodyWatchesNothing, NEW top \in Battles, NEW b \in Battles,
           InUse(top), ~ InUse(b), WatchLink(top, b),
           btype[top] # "WATCH" \/ People(top) # {},
           btype' = [btype EXCEPT ![b] = "WATCH"], InUse(b)', \A x \in Battles \ {b} : bmode'[x] = bmode[x],
           \A x \in Battles \ {b} : People(x)' = People(x)
    PROVE  NobodyWatchesNothing'
<1>1. Linked /\ NoRing /\ Watched
  BY ListsParts
<1>n. /\ \A x \in Battles : bnext'[x] = IF x = b THEN bnext[top] ELSE IF x = top THEN b ELSE bnext[x]
      /\ \A x \in Battles : bbefore'[x] = IF x = b THEN top ELSE IF x = bnext[top] THEN b ELSE bbefore[x]
      /\ \A x \in Battles : btype'[x] = IF x = b THEN "WATCH" ELSE btype[x]
      /\ \A x \in Battles : InUse(x)' <=> x = b \/ InUse(x)
      /\ b # top /\ bnext[b] = "none" /\ bbefore[b] = "none" /\ b # "none" /\ top # "none"
  BY <1>1 DEF BattleTypeOK, WatchLink, InUse, Linked
<1>t. \A x \in Battles : bnext[x] \in Battles \cup {"none"} /\ bbefore[x] \in Battles \cup {"none"}
  BY DEF BattleTypeOK
<1>b. \A x \in Battles : bnext[x] # b
  BY <1>1, <1>n DEF Linked
<1>2. Linked'
  BY <1>1, <1>n, <1>t, <1>b DEF Linked
<1>w. ASSUME NEW x \in Battles, NEW S, S \subseteq Battles, Closed(S)', bnext'[x] \in S \cup {"none"}, x \notin S
      PROVE  x \notin Watching(x)'
  BY <1>w DEF Watching
<1>3. NoRing'
  <2> SUFFICES ASSUME NEW x \in Battles PROVE x \notin Watching(x)'
    BY DEF NoRing
  <2>1. CASE x # b
    <3>1. PICK S0 \in SUBSET Battles : Closed(S0) /\ bnext[x] \in S0 \cup {"none"} /\ x \notin S0
      BY <1>1 DEF NoRing, Watching
    <3>2. CASE top \in S0 \/ top = x
      <4>1. Closed(S0 \cup {b})'
        BY <1>n, <2>1, <3>1, <3>2 DEF Closed
      <4>2. bnext'[x] \in (S0 \cup {b}) \cup {"none"} /\ x \notin S0 \cup {b}
        BY <1>n, <2>1, <3>1, <3>2
      <4> QED BY <1>w, <3>1, <4>1, <4>2
    <3>3. CASE top \notin S0 /\ top # x
      <4>1. Closed(S0 \ {b})'
        BY <1>n, <1>b, <2>1, <3>1, <3>3 DEF Closed
      <4>2. bnext'[x] \in (S0 \ {b}) \cup {"none"} /\ x \notin S0 \ {b}
        BY <1>n, <1>b, <2>1, <3>1, <3>3
      <4> QED BY <1>w, <3>1, <4>1, <4>2
    <3> QED BY <3>2, <3>3
  <2>2. CASE x = b
    <3>1. PICK S0 \in SUBSET Battles : Closed(S0) /\ bnext[top] \in S0 \cup {"none"} /\ top \notin S0
      BY <1>1 DEF NoRing, Watching
    <3>2. Closed(S0 \ {b})'
      BY <1>n, <1>b, <2>2, <3>1 DEF Closed
    <3>3. bnext'[x] \in (S0 \ {b}) \cup {"none"} /\ x \notin S0 \ {b}
      BY <1>n, <1>b, <2>2, <3>1
    <3> QED BY <1>w, <3>1, <3>2, <3>3
  <2> QED BY <2>1, <2>2
<1>4. ASSUME NEW d \in Battles, d # b, NEW S \in SUBSET Battles, Closed(S)', bnext'[d] \in S \cup {"none"}
      PROVE  Watching(d) \subseteq S /\ (top = d \/ top \in Watching(d) => b \in S)
  <2>1. Closed(S)
    BY <1>n, <1>4 DEF Closed
  <2>2. bnext[d] \in S \cup {"none"}
    BY <1>n, <1>4 DEF Closed
  <2>3. Watching(d) \subseteq S
    BY <2>1, <2>2, WatchingIn
  <2>4. top \in S => b \in S
    BY <1>n, <1>4 DEF Closed
  <2> QED BY <1>n, <1>4, <2>3, <2>4
<1>5. Watched'
  <2> SUFFICES ASSUME NEW x \in Battles, btype'[x] = "WATCH", InUse(x)', People(x)' # {}
               PROVE  Headed(x)'
    BY DEF Watched
  <2>1. CASE x # b
    <3>1. PICK d \in Battles : InUse(d) /\ btype[d] # "WATCH" /\ x \in Watching(d)
      BY <1>1, <1>n, <2>1 DEF Watched, Headed
    <3>2. d # b
      BY <1>n, <3>1 DEF Linked
    <3>3. x \in Watching(d)'
      BY <1>4, <3>1, <3>2 DEF Watching
    <3> QED BY <1>n, <3>1, <3>2, <3>3 DEF Headed
  <2>2. CASE x = b
    <3>1. PICK d \in Battles : InUse(d) /\ btype[d] # "WATCH" /\ (top = d \/ top \in Watching(d))
      BY <1>1 DEF Watched, Headed
    <3>2. d # b
      BY <1>n, <3>1
    <3>3. b \in Watching(d)'
      BY <1>4, <3>1, <3>2 DEF Watching
    <3> QED BY <1>n, <2>2, <3>1, <3>2, <3>3 DEF Headed
  <2> QED BY <2>1, <2>2
<1> QED BY <1>2, <1>3, <1>5 DEF NobodyWatchesNothing, Linked, NoRing, Watched, Headed, InUse

\* The WATCH battle b is deleted.
LEMMA UnlinkLists ==
    ASSUME BattleTypeOK, NobodyWatchesNothing, NEW b \in Battles, InUse(b), btype[b] = "WATCH",
           bnext' = [x \in Battles |-> IF x = b THEN "none" ELSE IF x = bbefore[b] THEN bnext[b] ELSE bnext[x]],
           bbefore' = [x \in Battles |-> IF x = b THEN "none" ELSE IF x = bnext[b] THEN bbefore[b] ELSE bbefore[x]],
           bmode' = [bmode EXCEPT ![b] = "NONE"],
           \A x \in Battles \ {b} : btype'[x] = btype[x] /\ (People(x)' # {} => People(x) # {})
    PROVE  NobodyWatchesNothing'
<1>1. Linked /\ NoRing /\ Watched
  BY ListsParts
<1> DEFINE pb == bbefore[b]
           nb == bnext[b]
<1>t. /\ \A x \in Battles : bnext[x] \in Battles \cup {"none"} /\ bbefore[x] \in Battles \cup {"none"}
      /\ "none" \notin Battles
  BY DEF BattleTypeOK
<1>n. /\ \A x \in Battles : bnext'[x] = IF x = b THEN "none" ELSE IF x = pb THEN nb ELSE bnext[x]
      /\ \A x \in Battles : bbefore'[x] = IF x = b THEN "none" ELSE IF x = nb THEN pb ELSE bbefore[x]
      /\ \A x \in Battles : InUse(x)' <=> x # b /\ InUse(x)
  BY DEF BattleTypeOK, InUse
<1>b. \A x \in Battles : /\ bnext[x] = b <=> x = pb
                         /\ bnext[x] = nb /\ nb # "none" => x = b
  BY <1>1, <1>t DEF Linked
<1>r. nb # b /\ pb # b
  BY <1>1, <1>b DEF NoRing, Watching, Closed
<1> HIDE DEF pb, nb
<1>p. (pb # "none" => bnext[pb] = b) /\ (nb # "none" => bbefore[nb] = b /\ InUse(nb) /\ btype[nb] = "WATCH")
      /\ bnext[b] = nb /\ bbefore[b] = pb /\ pb \in Battles \cup {"none"} /\ nb \in Battles \cup {"none"}
  BY <1>1, <1>t DEF Linked, pb, nb
<1>2. Linked'
  BY <1>1, <1>n, <1>t, <1>b, <1>r, <1>p DEF Linked
<1>w. ASSUME NEW x \in Battles, NEW S, S \subseteq Battles, Closed(S)', bnext'[x] \in S \cup {"none"}, x \notin S
      PROVE  x \notin Watching(x)'
  BY <1>w DEF Watching
<1>3. NoRing'
  <2> SUFFICES ASSUME NEW x \in Battles PROVE x \notin Watching(x)'
    BY DEF NoRing
  <2>1. CASE x # b
    <3>1. PICK S0 \in SUBSET Battles : Closed(S0) /\ bnext[x] \in S0 \cup {"none"} /\ x \notin S0
      BY <1>1 DEF NoRing, Watching
    <3>2. Closed(S0)' /\ bnext'[x] \in S0 \cup {"none"}
      BY <1>n, <1>t, <1>p, <2>1, <3>1 DEF Closed
    <3> QED BY <1>w, <3>1, <3>2
  <2>2. CASE x = b
    <3>1. Closed({})' /\ bnext'[x] \in {} \cup {"none"}
      BY <1>n, <2>2 DEF Closed
    <3> QED BY <1>w, <3>1
  <2> QED BY <2>1, <2>2
<1>4. ASSUME NEW d \in Battles, d # b, NEW S \in SUBSET Battles, Closed(S)', bnext'[d] \in S \cup {"none"}
      PROVE  Watching(d) \subseteq S \cup {b}
  <2>1. CASE pb \in S \/ pb = d
    <3> DEFINE T == S \cup {b}
    <3>1. Closed(T)
      BY <1>n, <1>p, <1>4, <2>1 DEF Closed
    <3>2. bnext[d] \in T \cup {"none"} /\ T \in SUBSET Battles
      BY <1>n, <1>p, <1>4
    <3> QED BY <3>1, <3>2, WatchingIn
  <2>2. CASE pb \notin S /\ pb # d
    <3> DEFINE T == S \ {b}
    <3>1. Closed(T)
      BY <1>n, <1>b, <1>4, <2>2 DEF Closed
    <3>2. bnext[d] \in T \cup {"none"} /\ T \in SUBSET Battles
      BY <1>n, <1>b, <1>4, <2>2
    <3>3. Watching(d) \subseteq T
      BY <3>1, <3>2, WatchingIn
    <3> QED BY <3>3
  <2> QED BY <2>1, <2>2
<1>5. Watched'
  <2> SUFFICES ASSUME NEW x \in Battles, btype'[x] = "WATCH", InUse(x)', People(x)' # {}
               PROVE  Headed(x)'
    BY DEF Watched
  <2>1. x # b /\ InUse(x) /\ btype[x] = "WATCH" /\ People(x) # {}
    BY <1>n
  <2>2. PICK d \in Battles : InUse(d) /\ btype[d] # "WATCH" /\ x \in Watching(d)
    BY <1>1, <2>1 DEF Watched, Headed
  <2>3. d # b
    BY <2>2
  <2>4. x \in Watching(d)'
    BY <1>4, <2>1, <2>2, <2>3 DEF Watching
  <2> QED BY <1>n, <2>2, <2>3, <2>4 DEF Headed
<1> QED BY <1>2, <1>3, <1>5 DEF NobodyWatchesNothing, Linked, NoRing, Watched, Headed, InUse

\* The battle b is deleted, and the first that watches it; nobody is left behind b.
LEMMA EndLists ==
    ASSUME BattleTypeOK, NobodyWatchesNothing, NEW b \in Battles, InUse(b), btype[b] # "WATCH",
           NEW first, first = bnext[b],
           bnext' = [x \in Battles |-> IF x \in {b, first} THEN "none" ELSE bnext[x]],
           bbefore' = [x \in Battles |-> IF bbefore[x] \in {b, first} THEN "none" ELSE bbefore[x]],
           bmode' = [x \in Battles |-> IF x \in {b, first} THEN "NONE" ELSE bmode[x]],
           \A x \in Battles \ {b, first} : btype'[x] = btype[x] /\ (People(x)' # {} => People(x) # {}),
           \A x \in Watching(b) : People(x)' = {}
    PROVE  NobodyWatchesNothing'
<1>1. Linked /\ NoRing /\ Watched
  BY ListsParts
<1>t. /\ \A x \in Battles : bnext[x] \in Battles \cup {"none"} /\ bbefore[x] \in Battles \cup {"none"}
      /\ "none" \notin Battles
  BY DEF BattleTypeOK
<1>n. /\ \A x \in Battles : bnext'[x] = IF x \in {b, first} THEN "none" ELSE bnext[x]
      /\ \A x \in Battles : bbefore'[x] = IF bbefore[x] \in {b, first} THEN "none" ELSE bbefore[x]
      /\ \A x \in Battles : InUse(x)' <=> x \notin {b, first} /\ InUse(x)
  BY DEF InUse
<1>b. /\ \A x \in Battles : bnext[x] # b /\ (bnext[x] = first /\ first # "none" => x = b)
      /\ first # "none" => btype[first] = "WATCH" /\ bbefore[first] = b
      /\ bbefore[b] = "none"
  BY <1>1, <1>t DEF Linked
<1>2. Linked'
  BY <1>1, <1>n, <1>t, <1>b DEF Linked
<1>w. ASSUME NEW x \in Battles, NEW S, S \subseteq Battles, Closed(S)', bnext'[x] \in S \cup {"none"}, x \notin S
      PROVE  x \notin Watching(x)'
  BY <1>w DEF Watching
<1>3. NoRing'
  <2> SUFFICES ASSUME NEW x \in Battles PROVE x \notin Watching(x)'
    BY DEF NoRing
  <2>1. PICK S0 \in SUBSET Battles : Closed(S0) /\ bnext[x] \in S0 \cup {"none"} /\ x \notin S0
    BY <1>1 DEF NoRing, Watching
  <2>2. Closed(S0)' /\ bnext'[x] \in S0 \cup {"none"}
    BY <1>n, <2>1 DEF Closed
  <2> QED BY <1>w, <2>1, <2>2
<1>4. ASSUME NEW d \in Battles, d # b, NEW S \in SUBSET Battles, Closed(S)', bnext'[d] \in S \cup {"none"}, d # first
      PROVE  Watching(d) \subseteq S
  <2> DEFINE T == S \ {b, first}
  <2>1. Closed(T)
    BY <1>n, <1>b, <1>4 DEF Closed
  <2>2. bnext[d] \in T \cup {"none"} /\ T \in SUBSET Battles
    BY <1>n, <1>b, <1>4
  <2>3. Watching(d) \subseteq T
    BY <2>1, <2>2, WatchingIn
  <2> QED BY <2>3
<1>5. Watched'
  <2> SUFFICES ASSUME NEW x \in Battles, btype'[x] = "WATCH", InUse(x)', People(x)' # {}
               PROVE  Headed(x)'
    BY DEF Watched
  <2>1. x \notin {b, first} /\ InUse(x) /\ btype[x] = "WATCH" /\ People(x) # {}
    BY <1>n
  <2>2. PICK d \in Battles : InUse(d) /\ btype[d] # "WATCH" /\ x \in Watching(d)
    BY <1>1, <2>1 DEF Watched, Headed
  <2>3. d # b /\ d # first
    BY <1>b, <1>t, <2>2
  <2>4. x \in Watching(d)'
    BY <1>4, <2>2, <2>3 DEF Watching
  <2>5. btype'[d] = btype[d]
    BY <2>3
  <2> QED BY <1>n, <2>2, <2>3, <2>4, <2>5 DEF Headed
<1> QED BY <1>2, <1>3, <1>5 DEF NobodyWatchesNothing, Linked, NoRing, Watched, Headed, InUse
----------------------------------------------------------------------------
(* The steps. *)

\* Only the parties change.
LEMMA PartiesOnly ==
    ASSUME SidesInv, InOneBattle, NobodyWatchesNothing, UNCHANGED <<tableVars, charVars>>
    PROVE  SidesInv' /\ InOneBattle' /\ NobodyWatchesNothing'
<1>1. SidesInv'
  BY DEF SidesInv, tableVars, charVars
<1>2. InOneBattle'
  BY DEF InOneBattle, People, tableVars, charVars
<1>3. NobodyWatchesNothing'
  BY DEF NobodyWatchesNothing, Watching, Closed, People, tableVars, charVars
<1> QED BY <1>1, <1>2, <1>3

\* A battle that is not in use is empty.
LEMMA UnusedEmpty ==
    ASSUME BattleTypeOK, InOneBattle, NEW b \in Battles, bmode[b] = "NONE"
    PROVE  entry[b][0] = {} /\ entry[b][1] = {}
BY DEF BattleTypeOK, InOneBattle, Sides

\* Who fights is in the battle its index says.
LEMMA InItsBattle ==
    ASSUME BattleTypeOK, InOneBattle, NEW t \in Fighters, cmode[t] \notin Away
    PROVE  /\ cbattle[t] \in Battles /\ bmode[cbattle[t]] # "NONE" /\ t \in People(cbattle[t])
           /\ SideOf(t) \in Sides /\ (SideOf(t) = 1 => t \in entry[cbattle[t]][1])
<1>1. PICK b \in Battles : t \in People(b)
  BY DEF InOneBattle, Away
<1>2. cbattle[t] = b /\ bmode[b] # "NONE"
  <2>1. CASE t \in entry[b][0]
    BY <2>1 DEF InOneBattle, Sides
  <2>2. CASE t \in entry[b][1]
    BY <2>2 DEF InOneBattle, Sides
  <2> QED BY <1>1, <2>1, <2>2 DEF People
<1> QED BY <1>1, <1>2 DEF SideOf, Sides

\* Enter, one side
LEMMA EnterOne ==
    ASSUME BattleTypeOK, SidesInv, InOneBattle, NEW b \in Battles, NEW s \in Sides, NEW X \in SUBSET Fighters,
           NEW m \in BattleModes \ Away, NEW w \in BOOLEAN, Enter(X, b, s, m, w),
           IsFiniteSet(X), Cardinality(entry[b][s] \cup X) <= SideMax, \A c \in X : cmode[c] \in Away,
           bmode'[b] # "NONE", btype'[b] = "WATCH" => s = 0 /\ entry[b][1] = {},
           \A d \in Battles \ {b} : bmode'[d] = bmode[d] /\ btype'[d] = btype[d]
    PROVE  /\ SidesInv' /\ InOneBattle'
           /\ entry' \in [Battles -> [Sides -> SUBSET Fighters]] /\ cmode' \in [Fighters -> BattleModes]
           /\ cbattle' \in [Fighters -> Battles \cup {"none"}] /\ watch' \in [Fighters -> BOOLEAN]
           /\ \A d \in Battles \ {b} : entry'[d] = entry[d]
<1>1. /\ \A d \in Battles, t \in Sides : entry'[d][t] = IF d = b /\ t = s THEN entry[d][t] \cup X ELSE entry[d][t]
      /\ \A d \in Battles : d # b => entry'[d] = entry[d]
      /\ entry' \in [Battles -> [Sides -> SUBSET Fighters]]
  <2>1. entry \in [Battles -> [Sides -> SUBSET Fighters]] /\ entry[b] \in [Sides -> SUBSET Fighters]
    BY DEF BattleTypeOK
  <2> DEFINE e == [entry[b] EXCEPT ![s] = entry[b][s] \cup X]
  <2>2. entry' = [entry EXCEPT ![b] = e]
    BY DEF Enter
  <2>3. e \in [Sides -> SUBSET Fighters] /\ \A t \in Sides : e[t] = IF t = s THEN entry[b][t] \cup X ELSE entry[b][t]
    BY <2>1
  <2> HIDE DEF e
  <2> QED BY <2>1, <2>2, <2>3
<1>2. /\ \A c \in Fighters : /\ cmode'[c] = IF c \in X THEN m ELSE cmode[c]
                             /\ cbattle'[c] = IF c \in X THEN b ELSE cbattle[c]
      /\ UNCHANGED dead
  BY DEF Enter
<1>3. /\ cmode' \in [Fighters -> BattleModes] /\ cbattle' \in [Fighters -> Battles \cup {"none"}]
      /\ watch' \in [Fighters -> BOOLEAN]
  BY DEF Enter, BattleTypeOK, BattleModes
<1>4. \A t \in Sides : Cardinality(entry[b][t] \cup {}) <= SideMax
  <2>1. \A t \in Sides : entry[b][t] \cup {} = entry[b][t]
    OBVIOUS
  <2> QED BY <2>1 DEF InOneBattle
<1>5. IsFiniteSet({})
  BY FS_EmptySet
<1>6. CASE s = 0
  <2>0. 0 \in Sides /\ 1 \in Sides /\ X \cap {} = {} /\ X \cup {} = X
    BY DEF Sides
  <2>a. \A d \in Battles : IF d = b THEN entry'[d][0] = entry[d][0] \cup X /\ entry'[d][1] = entry[d][1] \cup {}
                            ELSE entry'[d] = entry[d]
    <3>1. entry'[b][0] = entry[b][0] \cup X
      BY <1>1, <1>6, <2>0
    <3>2. entry'[b][1] = entry[b][1] \cup {}
      <4>1. entry'[b][1] = entry[b][1]
        <5>1. \A t \in Sides : t # s => entry'[b][t] = entry[b][t]
          BY <1>1
        <5>2. 1 \in Sides /\ 1 # s
          BY <1>6, <2>0
        <5> QED BY <5>1, <5>2
      <4>2. entry[b][1] = entry[b][1] \cup {}
        OBVIOUS
      <4> QED BY <4>1, <4>2
    <3> QED BY <1>1, <3>1, <3>2
  <2>b. \A c \in Fighters :
           IF c \in X \cup {} THEN cmode[c] \in Away /\ cmode'[c] \notin Away /\ cbattle'[c] = b
           ELSE cmode'[c] = cmode[c] /\ cbattle'[c] = cbattle[c]
    BY <1>2, <2>0
  <2>c. Cardinality(entry[b][0] \cup X) <= SideMax /\ Cardinality(entry[b][1] \cup {}) <= SideMax
    BY <1>4, <1>6, <2>0
  <2>d. btype'[b] = "WATCH" => entry[b][1] = {} /\ {} = {}
    BY <1>6
  <2>1. Enters(b, X, {})
    BY <1>2, <1>5, <2>0, <2>a, <2>b, <2>c, <2>d DEF Enters
  <2> QED BY <1>1, <1>3, <2>1, EnterSides
<1>7. CASE s = 1
  <2>0. 0 \in Sides /\ 1 \in Sides /\ {} \cap X = {} /\ {} \cup X = X
    BY DEF Sides
  <2>a. \A d \in Battles : IF d = b THEN entry'[d][0] = entry[d][0] \cup {} /\ entry'[d][1] = entry[d][1] \cup X
                            ELSE entry'[d] = entry[d]
    <3>1. entry'[b][0] = entry[b][0] \cup {}
      <4>1. entry'[b][0] = entry[b][0]
        <5>1. \A t \in Sides : t # s => entry'[b][t] = entry[b][t]
          BY <1>1
        <5>2. 0 \in Sides /\ 0 # s
          BY <1>7, <2>0
        <5> QED BY <5>1, <5>2
      <4>2. entry[b][0] = entry[b][0] \cup {}
        OBVIOUS
      <4> QED BY <4>1, <4>2
    <3>2. entry'[b][1] = entry[b][1] \cup X
      BY <1>1, <1>7, <2>0
    <3> QED BY <1>1, <3>1, <3>2
  <2>b. \A c \in Fighters :
           IF c \in {} \cup X THEN cmode[c] \in Away /\ cmode'[c] \notin Away /\ cbattle'[c] = b
           ELSE cmode'[c] = cmode[c] /\ cbattle'[c] = cbattle[c]
    BY <1>2, <2>0
  <2>c. Cardinality(entry[b][0] \cup {}) <= SideMax /\ Cardinality(entry[b][1] \cup X) <= SideMax
    BY <1>4, <1>7, <2>0
  <2>d. btype'[b] = "WATCH" => entry[b][1] = {} /\ X = {}
    BY <1>7
  <2>1. Enters(b, {}, X)
    BY <1>2, <1>5, <2>0, <2>a, <2>b, <2>c, <2>d DEF Enters
  <2> QED BY <1>1, <1>3, <2>1, EnterSides
<1> QED BY <1>6, <1>7 DEF Sides

\* A battle is created.
LEMMA CreateType ==
    ASSUME BattleTypeOK, NEW b \in Battles, NEW t \in {"P_vs_E", "P_vs_P", "WATCH"},
           NEW m \in {"INIT", "WATCHBC"}, CreateBattle(b, t, m)
    PROVE  /\ bmode' \in [Battles -> {"NONE", "INIT", "BATTLE", "FINISH",
                                      "WATCHBC", "WATCHPRE", "WATCHWAIT", "WATCHMOVIE"}]
           /\ btype' \in [Battles -> {"P_vs_E", "P_vs_P", "WATCH"}]
           /\ part' \in [Battles -> BOOLEAN] /\ turn' \in [Battles -> 0 .. Turns - 1]
           /\ bmode[b] = "NONE" /\ bmode'[b] = m /\ btype'[b] = t
           /\ \A d \in Battles \ {b} : bmode'[d] = bmode[d] /\ btype'[d] = btype[d]
BY DEF CreateBattle, BattleTypeOK

\* The lists know nothing of a new battle that is watched by nobody.
LEMMA CreateLists ==
    ASSUME BattleTypeOK, NobodyWatchesNothing, NEW b \in Battles, bmode[b] = "NONE", bmode'[b] # "NONE",
           btype'[b] # "WATCH", \A d \in Battles \ {b} : bmode'[d] = bmode[d] /\ btype'[d] = btype[d],
           \A d \in Battles \ {b} : entry'[d] = entry[d], UNCHANGED <<bnext, bbefore>>
    PROVE  NobodyWatchesNothing'
<1>1. SameLists
  BY DEF SameLists, InUse, People
<1> QED BY <1>1, KeepLists

\* An encounter with enemies keeps the invariant.
LEMMA EncounterStep ==
    ASSUME BattleIInv, NEW c \in Fighters, BATTLE_CreateVsEnemy(c)
    PROVE  BattleIInv'
<1>0. BattleTypeOK /\ PartyInv /\ SidesInv /\ InOneBattle /\ NobodyWatchesNothing
  BY DEF BattleIInv
<1>1. cmode[c] = "NONE" /\ UNCHANGED <<bnext, bbefore, lead>>
  BY DEF BATTLE_CreateVsEnemy, Encounter
<1>2. PICK b \in Battles : CreateBattle(b, "P_vs_E", "INIT") /\ Enter(With(c), b, 0, "INIT", FALSE)
  BY DEF BATTLE_CreateVsEnemy, Encounter
<1>3. /\ bmode' \in [Battles -> {"NONE", "INIT", "BATTLE", "FINISH",
                                 "WATCHBC", "WATCHPRE", "WATCHWAIT", "WATCHMOVIE"}]
      /\ btype' \in [Battles -> {"P_vs_E", "P_vs_P", "WATCH"}]
      /\ part' \in [Battles -> BOOLEAN] /\ turn' \in [Battles -> 0 .. Turns - 1]
      /\ bmode[b] = "NONE" /\ bmode'[b] = "INIT" /\ btype'[b] = "P_vs_E"
      /\ \A d \in Battles \ {b} : bmode'[d] = bmode[d] /\ btype'[d] = btype[d]
  BY <1>0, <1>2, CreateType
<1>4. /\ With(c) \in SUBSET Fighters /\ IsFiniteSet(With(c)) /\ Cardinality(With(c)) <= SideMax
      /\ \A d \in With(c) : cmode[d] \in Away
  BY <1>0, <1>1, WithFits DEF With, Away
<1>5. entry[b][0] \cup With(c) = With(c)
  BY <1>0, <1>3, UnusedEmpty
<1>6. 0 \in Sides /\ "INIT" \in BattleModes \ Away
  BY DEF Sides, BattleModes, Away
<1>7. /\ SidesInv' /\ InOneBattle'
      /\ entry' \in [Battles -> [Sides -> SUBSET Fighters]] /\ cmode' \in [Fighters -> BattleModes]
      /\ cbattle' \in [Fighters -> Battles \cup {"none"}] /\ watch' \in [Fighters -> BOOLEAN]
      /\ \A d \in Battles \ {b} : entry'[d] = entry[d]
  BY <1>0, <1>2, <1>3, <1>4, <1>5, <1>6, EnterOne
<1>8. NobodyWatchesNothing'
  BY <1>0, <1>1, <1>3, <1>7, CreateLists
<1>9. PartyInv'
  BY <1>0, <1>1 DEF PartyInv, Followers
<1>10. UNCHANGED dead
  BY <1>2 DEF Enter
<1>11. BattleTypeOK'
  BY <1>0, <1>1, <1>3, <1>7, <1>10 DEF BattleTypeOK, BattleModes
<1> QED BY <1>7, <1>8, <1>9, <1>11 DEF BattleIInv

\* Characters leave battles, the battles stay.
LEMMA BattleLeaveStep ==
    ASSUME BattleIInv, BattleTypeOK', PartyInv', NEW X, Leaves(X), UNCHANGED <<btype, bnext, bbefore>>,
           \A b \in Battles : InUse(b)' <=> InUse(b)
    PROVE  BattleIInv'
<1>0. BattleTypeOK /\ PartyInv /\ SidesInv /\ InOneBattle /\ NobodyWatchesNothing
  BY DEF BattleIInv
<1>1. SidesInv' /\ InOneBattle'
  BY <1>0, LeaveSides
<1>2. \A b \in Battles : People(b)' \subseteq People(b)
  BY DEF Leaves, People, Sides
<1>3. SameLists
  BY <1>2 DEF SameLists
<1>4. NobodyWatchesNothing'
  BY <1>0, <1>3, KeepLists
<1> QED BY <1>1, <1>4 DEF BattleIInv

\* What BATTLE_Exit leaves behind
LEMMA ExitTypes ==
    ASSUME BattleTypeOK, NEW X, BATTLE_Exit(X)
    PROVE  /\ entry' \in [Battles -> [Sides -> SUBSET Fighters]]
           /\ cbattle' \in [Fighters -> Battles \cup {"none"}] /\ watch' \in [Fighters -> BOOLEAN]
           /\ \A b \in Battles, s \in Sides : entry'[b][s] = entry[b][s] \ X
           /\ \A c \in Fighters : cbattle'[c] = IF c \in X THEN "none" ELSE cbattle[c]
BY DEF BATTLE_Exit, BattleTypeOK

\* Who leaves without a wound
LEMMA EndedLeaves ==
    ASSUME BattleTypeOK, InOneBattle, NEW X, BATTLE_Exit(X), cmode' = Ended(X), dead' = Healed(X),
           \A b \in Battles : bmode'[b] = "NONE" => bmode[b] = "NONE" \/ (entry'[b][0] = {} /\ entry'[b][1] = {}),
           \A b \in Battles : btype'[b] = "WATCH" => btype[b] = "WATCH"
    PROVE  Leaves(X) /\ cmode' \in [Fighters -> BattleModes] /\ dead' \in [Fighters -> BOOLEAN]
<1>1. /\ \A b \in Battles, s \in Sides : entry'[b][s] = entry[b][s] \ X
      /\ \A c \in Fighters : cbattle'[c] = IF c \in X THEN "none" ELSE cbattle[c]
  BY ExitTypes
<1>2. \A c \in Fighters : cmode'[c] = IF c \in X THEN "FINAL" ELSE cmode[c]
  BY DEF Ended
<1>3. \A c \in Fighters : dead'[c] => c \notin X /\ dead[c]
  BY DEF Healed
<1>4. \A c \in Fighters : dead[c] => cmode[c] \notin Away
  BY DEF InOneBattle, Away
<1>5. cmode' \in [Fighters -> BattleModes]
  BY DEF Ended, BattleTypeOK, BattleModes
<1>6. dead' \in [Fighters -> BOOLEAN]
  BY DEF Healed, BattleTypeOK
<1>7. Leaves(X)
  <2>1. \A c \in Fighters : dead'[c] => c \notin X /\ cmode[c] \notin Away
    BY <1>3, <1>4
  <2>2. ASSUME NEW c \in Fighters
        PROVE IF c \in X THEN cmode'[c] \in Away /\ (cmode'[c] = "FINAL" => cbattle'[c] = "none")
              ELSE /\ cbattle'[c] = cbattle[c] /\ (cmode'[c] \in Away <=> cmode[c] \in Away)
                   /\ (cmode'[c] = "FINAL" => cmode[c] = "FINAL")
    BY <1>1, <1>2 DEF Away
  <2> QED BY <1>1, <2>1, <2>2 DEF Leaves
<1> QED BY <1>5, <1>6, <1>7

\* So does a watcher that stops watching,
LEMMA WatchStopStep ==
    ASSUME BattleIInv, NEW c \in Fighters, BATTLE_WatchStop(c)
    PROVE  BattleIInv'
<1>0. BattleTypeOK /\ PartyInv /\ InOneBattle
  BY DEF BattleIInv
<1>1. /\ BATTLE_Exit({c}) /\ cmode' = Ended({c}) /\ dead' = Healed({c}) /\ lead' = SentBack({c})
      /\ UNCHANGED tableVars
  BY DEF BATTLE_WatchStop
<1>2. Leaves({c}) /\ cmode' \in [Fighters -> BattleModes] /\ dead' \in [Fighters -> BOOLEAN]
  BY <1>0, <1>1, EndedLeaves DEF tableVars
<1>3. PartyInv' /\ lead' \in [Fighters -> Fighters \cup {"none"}]
  BY <1>0, <1>1, SentBackParty
<1>4. BattleTypeOK'
  BY <1>0, <1>1, <1>2, <1>3, ExitTypes DEF BattleTypeOK, BattleModes, tableVars
<1> QED BY <1>1, <1>2, <1>3, <1>4, BattleLeaveStep DEF tableVars, InUse

\* a player that logs out in whatever mode it is,
LEMMA LogoutStep ==
    ASSUME BattleIInv, NEW c \in Fighters, CHAR_logout_Battle(c)
    PROVE  BattleIInv'
<1>0. BattleTypeOK /\ PartyInv /\ InOneBattle
  BY DEF BattleIInv
<1>1. lead' = SentBack({c}) /\ UNCHANGED tableVars
  BY DEF CHAR_logout_Battle
<1>2. \A b \in Battles, s \in Sides : entry'[b][s] = entry[b][s] \ {c}
  BY DEF CHAR_logout_Battle
<1>3. \A d \in Fighters : /\ cmode'[d] = IF d = c THEN "NONE" ELSE cmode[d]
                          /\ cbattle'[d] = IF d = c THEN Battle0 ELSE cbattle[d]
                          /\ dead'[d] => d # c /\ dead[d]
  BY <1>0 DEF CHAR_logout_Battle, BattleTypeOK, Healed
<1>4. \A d \in Fighters : dead[d] => cmode[d] \notin Away
  BY <1>0 DEF InOneBattle, Away
<1>5. Leaves({c})
  <2>1. \A d \in Fighters : dead'[d] => d \notin {c} /\ cmode[d] \notin Away
    BY <1>3, <1>4
  <2>2. ASSUME NEW d \in Fighters
        PROVE IF d \in {c} THEN cmode'[d] \in Away /\ (cmode'[d] = "FINAL" => cbattle'[d] = "none")
              ELSE /\ cbattle'[d] = cbattle[d] /\ (cmode'[d] \in Away <=> cmode[d] \in Away)
                   /\ (cmode'[d] = "FINAL" => cmode[d] = "FINAL")
    BY <1>3 DEF Away
  <2> QED BY <1>1, <1>2, <2>1, <2>2 DEF Leaves, tableVars
<1>6. PartyInv' /\ lead' \in [Fighters -> Fighters \cup {"none"}]
  BY <1>0, <1>1, SentBackParty
<1>7. BattleTypeOK'
  <2>1. entry' \in [Battles -> [Sides -> SUBSET Fighters]]
    BY <1>0 DEF CHAR_logout_Battle, BattleTypeOK
  <2>2. cmode' \in [Fighters -> BattleModes] /\ cbattle' \in [Fighters -> Battles \cup {"none"}]
    BY <1>0 DEF CHAR_logout_Battle, BattleTypeOK, BattleModes
  <2>3. watch' \in [Fighters -> BOOLEAN] /\ dead' \in [Fighters -> BOOLEAN]
    BY <1>0 DEF CHAR_logout_Battle, BattleTypeOK, Healed
  <2> QED BY <1>0, <1>1, <1>6, <2>1, <2>2, <2>3 DEF BattleTypeOK, BattleModes, tableVars
<1> QED BY <1>1, <1>5, <1>6, <1>7, BattleLeaveStep DEF tableVars, InUse

\* Nobody enters or leaves; whoever fights goes on fighting.
LEMMA StayStep ==
    ASSUME BattleIInv, BattleTypeOK', UNCHANGED <<entry, cbattle, dead, lead, btype, bnext, bbefore>>,
           \A b \in Battles : InUse(b)' <=> InUse(b),
           \A c \in Fighters : /\ cmode'[c] \in Away <=> cmode[c] \in Away
                               /\ cmode'[c] = "FINAL" => cmode[c] = "FINAL"
    PROVE  BattleIInv'
<1>0. BattleTypeOK /\ PartyInv /\ InOneBattle
  BY DEF BattleIInv
<1>1. \A b \in Battles, s \in Sides : entry'[b][s] = entry[b][s] \ {}
  OBVIOUS
<1>2. \A c \in Fighters : dead[c] => cmode[c] \notin Away
  BY <1>0 DEF InOneBattle, Away
<1>3. \A b \in Battles : bmode'[b] = "NONE" => bmode[b] = "NONE"
  BY DEF InUse
<1>4. Leaves({})
  BY <1>1, <1>2, <1>3 DEF Leaves
<1>5. PartyInv'
  BY <1>0 DEF PartyInv, Followers
<1> QED BY <1>4, <1>5, BattleLeaveStep

\* Who is in a battle is neither free nor at the end of one.
LEMMA PeopleFight ==
    ASSUME InOneBattle, NEW b \in Battles
    PROVE  \A c \in Fighters : c \in People(b) => cmode[c] \notin Away
BY DEF InOneBattle, Away

\* the first turn of a battle,
LEMMA InitStep ==
    ASSUME BattleIInv, NEW b \in Battles, BATTLE_Init(b)
    PROVE  BattleIInv'
<1>0. BattleTypeOK /\ InOneBattle /\ Linked
  BY ListsParts DEF BattleIInv
<1>1. /\ bmode[b] = "INIT" /\ bmode' = WatchPre(b, [bmode EXCEPT ![b] = "BATTLE"])
      /\ cmode' = [c \in Fighters |-> IF c \in People(b) THEN "C_WAIT" ELSE cmode[c]]
      /\ UNCHANGED <<btype, part, turn, bnext, bbefore, entry, cbattle, watch, dead, lead>>
  BY DEF BATTLE_Init
<1>2. \A w \in Watching(b) : InUse(w)
  BY <1>0, WatchingWatch
<1>3. \A x \in Battles : InUse(x)' <=> InUse(x)
  BY <1>0, <1>1, <1>2 DEF WatchPre, InUse, BattleTypeOK
<1>4. \A c \in Fighters : /\ cmode'[c] \in Away <=> cmode[c] \in Away
                          /\ cmode'[c] = "FINAL" => cmode[c] = "FINAL"
  BY <1>0, <1>1, PeopleFight DEF Away
<1>5. BattleTypeOK'
  BY <1>0, <1>1 DEF BattleTypeOK, WatchPre
<1> QED BY <1>1, <1>3, <1>4, <1>5, StayStep

\* a watching battle that starts,
LEMMA WatchPreStep ==
    ASSUME BattleIInv, NEW b \in Battles, BATTLE_WatchPre(b)
    PROVE  BattleIInv'
<1>0. BattleTypeOK /\ InOneBattle
  BY DEF BattleIInv
<1>1. /\ bmode[b] = "WATCHPRE" /\ bmode' = [bmode EXCEPT ![b] = "WATCHWAIT"]
      /\ cmode' = [c \in Fighters |-> IF c \in entry[b][0] /\ cmode[c] # "WATCHINIT"
                                      THEN "C_WAIT" ELSE cmode[c]]
      /\ UNCHANGED <<btype, part, turn, bnext, bbefore, entry, cbattle, watch, dead, lead>>
  BY DEF BATTLE_WatchPre
<1>2. \A x \in Battles : InUse(x)' <=> InUse(x)
  BY <1>0, <1>1 DEF InUse, BattleTypeOK
<1>3. \A c \in Fighters : /\ cmode'[c] \in Away <=> cmode[c] \in Away
                          /\ cmode'[c] = "FINAL" => cmode[c] = "FINAL"
  BY <1>0, <1>1, PeopleFight DEF Away, People
<1>4. BattleTypeOK'
  BY <1>0, <1>1 DEF BattleTypeOK
<1> QED BY <1>1, <1>2, <1>3, <1>4, StayStep

\* a command, which may be the one to stop watching,
LEMMA CommandStep ==
    ASSUME BattleIInv, NEW c \in Fighters, BattleCommandDispach(c)
    PROVE  BattleIInv'
<1>0. BattleTypeOK
  BY DEF BattleIInv
<1>1. CASE BATTLE_WatchStop(c)
  BY <1>1, WatchStopStep
<1>2. CASE /\ cmode[c] \notin Away
           /\ cmode' = [cmode EXCEPT ![c] = "C_OK"]
           /\ UNCHANGED <<tableVars, entry, cbattle, watch, dead, lead>>
  <2>1. BattleTypeOK'
    BY <1>0, <1>2 DEF BattleTypeOK, tableVars
  <2>2. \A d \in Fighters : /\ cmode'[d] \in Away <=> cmode[d] \in Away
                            /\ cmode'[d] = "FINAL" => cmode[d] = "FINAL"
    BY <1>0, <1>2 DEF Away, BattleTypeOK
  <2> QED BY <1>2, <2>1, <2>2, StayStep DEF tableVars, InUse
<1> QED BY <1>1, <1>2 DEF BattleCommandDispach, Away

\* the wait for commands, in which clients are thrown out,
LEMMA WaitStep ==
    ASSUME BattleIInv, NEW b \in Battles, NEW X, Wait(b, X)
    PROVE  BattleIInv'
<1>0. BattleTypeOK /\ PartyInv /\ InOneBattle
  BY DEF BattleIInv
<1> DEFINE told == {w \in Watching(b) : bmode[w] = "WATCHBC"}
<1>1. /\ BATTLE_Exit(X) /\ cmode' = Ended(X) /\ dead' = Healed(X) /\ lead' = SentBack(X)
      /\ part' = [part EXCEPT ![b] = part[b] \/ Given(b)]
      /\ bmode' = [w \in Battles |-> IF w \in told THEN "WATCHPRE" ELSE bmode[w]]
      /\ UNCHANGED <<btype, turn, bnext, bbefore>>
  BY DEF Wait
<1>2. \A x \in Battles : InUse(x)' <=> InUse(x)
  BY <1>1 DEF InUse
<1>3. Leaves(X) /\ cmode' \in [Fighters -> BattleModes] /\ dead' \in [Fighters -> BOOLEAN]
  BY <1>0, <1>1, <1>2, EndedLeaves DEF InUse
<1>4. PartyInv' /\ lead' \in [Fighters -> Fighters \cup {"none"}]
  BY <1>0, <1>1, SentBackParty
<1>5. part' \in [Battles -> BOOLEAN]
  <2>1. (part[b] \/ Given(b)) \in BOOLEAN
    OBVIOUS
  <2> QED BY <1>0, <1>1, <2>1 DEF BattleTypeOK
<1>6. bmode' \in [Battles -> {"NONE", "INIT", "BATTLE", "FINISH",
                              "WATCHBC", "WATCHPRE", "WATCHWAIT", "WATCHMOVIE"}]
  <2> HIDE DEF told
  <2> QED BY <1>0, <1>1 DEF BattleTypeOK
<1>7. BattleTypeOK'
  BY <1>0, <1>1, <1>3, <1>4, <1>5, <1>6, ExitTypes DEF BattleTypeOK, BattleModes
<1> QED BY <1>1, <1>2, <1>3, <1>4, <1>7, BattleLeaveStep

\* the wait of a watching battle for its film,
LEMMA WatchWaitStep ==
    ASSUME BattleIInv, NEW b \in Battles, BATTLE_WatchWait(b)
    PROVE  BattleIInv'
<1>0. BattleTypeOK /\ PartyInv /\ InOneBattle
  BY DEF BattleIInv
<1>1. /\ bmode[b] = "WATCHWAIT" /\ bmode' = [bmode EXCEPT ![b] = "WATCHMOVIE"]
      /\ UNCHANGED <<btype, part, turn, bnext, bbefore>>
  BY DEF BATTLE_WatchWait
<1>x. PICK X \in {{}, Waiting(b)} : BATTLE_Exit(X) /\ cmode' = Ended(X) /\ dead' = Healed(X) /\ lead' = SentBack(X)
  BY DEF BATTLE_WatchWait
<1>2. \A x \in Battles : InUse(x)' <=> InUse(x)
  BY <1>0, <1>1 DEF InUse, BattleTypeOK
<1>3. Leaves(X) /\ cmode' \in [Fighters -> BattleModes] /\ dead' \in [Fighters -> BOOLEAN]
  BY <1>0, <1>1, <1>x, <1>2, EndedLeaves DEF InUse
<1>4. PartyInv' /\ lead' \in [Fighters -> Fighters \cup {"none"}]
  BY <1>0, <1>x, SentBackParty
<1>5. BattleTypeOK'
  BY <1>0, <1>1, <1>x, <1>3, <1>4, ExitTypes DEF BattleTypeOK, BattleModes
<1> QED BY <1>1, <1>x, <1>2, <1>3, <1>4, <1>5, BattleLeaveStep

\* A turn: who leaves is healed, whoever lies dead at the end stays.
LEMMA TurnStep ==
    ASSUME BattleIInv, NEW b \in Battles, bmode[b] = "BATTLE", NEW X, X \subseteq People(b),
           NEW G, G \subseteq People(b), NEW D, D \subseteq People(b) \ (X \cup G), NEW f, Turn(b, X, G, D, f)
    PROVE  BattleIInv'
<1>0. BattleTypeOK /\ PartyInv /\ InOneBattle /\ Linked
  BY ListsParts DEF BattleIInv
<1>1. \E M : \E beaten \in SUBSET People(b) :
         /\ BATTLE_Exit(X \cup G \cup beaten)
         /\ cmode' = [c \in Fighters |-> IF c \in X \cup G \cup beaten THEN "FINAL"
                                         ELSE IF c \in People(b) THEN "C_WAIT" ELSE cmode[c]]
         /\ dead' = [c \in Fighters |-> IF c \in People(b) THEN c \in D \ beaten ELSE dead[c]]
         /\ lead' = SentBack(X \cup G)
         /\ bmode' = WatchPre(b, [bmode EXCEPT ![b] = M]) /\ M \in {"FINISH", "BATTLE"}
         /\ part' = [part EXCEPT ![b] = FALSE]
         /\ turn' = [turn EXCEPT ![b] = (turn[b] + 1) % Turns]
         /\ UNCHANGED <<btype, bnext, bbefore>>
  <2> DEFINE stay(s)   == entry[b][s] \ (X \cup G)
             alive(s)  == stay(s) \ D
             lost      == alive(0) = {}
             over      == lost \/ (alive(1) = {} /\ ~ f)
             M0        == IF over THEN "FINISH" ELSE "BATTLE"
             rescue(s) == IF s = 0 \/ ~ lost THEN {OnlyRescue(alive(s)) /\ ~ (s = 1 /\ f)} ELSE BOOLEAN
             B(r0, r1) == (IF r0 THEN stay(0) \cap D ELSE {}) \cup (IF r1 THEN stay(1) \cap D ELSE {})
  <2>1. PICK r0 \in rescue(0), r1 \in rescue(1) :
         /\ BATTLE_Exit(X \cup G \cup B(r0, r1))
         /\ cmode' = [c \in Fighters |-> IF c \in X \cup G \cup B(r0, r1) THEN "FINAL"
                                         ELSE IF c \in People(b) THEN "C_WAIT" ELSE cmode[c]]
         /\ dead' = [c \in Fighters |-> IF c \in People(b) THEN c \in D \ B(r0, r1) ELSE dead[c]]
         /\ lead' = SentBack(X \cup G)
         /\ bmode' = WatchPre(b, [bmode EXCEPT ![b] = M0])
         /\ part' = [part EXCEPT ![b] = FALSE]
         /\ turn' = [turn EXCEPT ![b] = (turn[b] + 1) % Turns]
         /\ UNCHANGED <<btype, bnext, bbefore>>
    BY Zenon DEF Turn
  <2> DEFINE C == B(r0, r1)
  <2>2. M0 \in {"FINISH", "BATTLE"}
    OBVIOUS
  <2>3. C \in SUBSET People(b)
    BY DEF People
  <2> HIDE DEF M0, B
  <2>4. /\ BATTLE_Exit(X \cup G \cup C)
        /\ cmode' = [c \in Fighters |-> IF c \in X \cup G \cup C THEN "FINAL"
                                        ELSE IF c \in People(b) THEN "C_WAIT" ELSE cmode[c]]
        /\ dead' = [c \in Fighters |-> IF c \in People(b) THEN c \in D \ C ELSE dead[c]]
    BY <2>1
  <2>5. /\ lead' = SentBack(X \cup G)
        /\ bmode' = WatchPre(b, [bmode EXCEPT ![b] = M0])
        /\ part' = [part EXCEPT ![b] = FALSE]
        /\ turn' = [turn EXCEPT ![b] = (turn[b] + 1) % Turns]
        /\ UNCHANGED <<btype, bnext, bbefore>>
    BY <2>1
  <2> HIDE DEF C
  <2> QED BY <2>2, <2>3, <2>4, <2>5
<1>p. PICK M : \E beaten \in SUBSET People(b) :
         /\ BATTLE_Exit(X \cup G \cup beaten)
         /\ cmode' = [c \in Fighters |-> IF c \in X \cup G \cup beaten THEN "FINAL"
                                         ELSE IF c \in People(b) THEN "C_WAIT" ELSE cmode[c]]
         /\ dead' = [c \in Fighters |-> IF c \in People(b) THEN c \in D \ beaten ELSE dead[c]]
         /\ lead' = SentBack(X \cup G)
         /\ bmode' = WatchPre(b, [bmode EXCEPT ![b] = M]) /\ M \in {"FINISH", "BATTLE"}
         /\ part' = [part EXCEPT ![b] = FALSE]
         /\ turn' = [turn EXCEPT ![b] = (turn[b] + 1) % Turns]
         /\ UNCHANGED <<btype, bnext, bbefore>>
  BY <1>1
<1>2. PICK beaten \in SUBSET People(b) :
         /\ BATTLE_Exit(X \cup G \cup beaten)
         /\ cmode' = [c \in Fighters |-> IF c \in X \cup G \cup beaten THEN "FINAL"
                                         ELSE IF c \in People(b) THEN "C_WAIT" ELSE cmode[c]]
         /\ dead' = [c \in Fighters |-> IF c \in People(b) THEN c \in D \ beaten ELSE dead[c]]
         /\ lead' = SentBack(X \cup G)
         /\ bmode' = WatchPre(b, [bmode EXCEPT ![b] = M]) /\ M \in {"FINISH", "BATTLE"}
         /\ part' = [part EXCEPT ![b] = FALSE]
         /\ turn' = [turn EXCEPT ![b] = (turn[b] + 1) % Turns]
         /\ UNCHANGED <<btype, bnext, bbefore>>
  BY <1>p
<1> DEFINE out == X \cup G \cup beaten
<1>3. out \subseteq People(b) /\ D \cap out \subseteq beaten /\ D \subseteq People(b)
  OBVIOUS
<1>4. /\ BATTLE_Exit(out)
      /\ \A c \in Fighters : cmode'[c] = IF c \in out THEN "FINAL" ELSE IF c \in People(b) THEN "C_WAIT" ELSE cmode[c]
      /\ cmode' \in [Fighters -> BattleModes]
  BY <1>0, <1>2 DEF BattleTypeOK, BattleModes
<1>5. dead' \in [Fighters -> BOOLEAN] /\ \A c \in Fighters : dead'[c] <=> IF c \in People(b) THEN c \in D \ beaten ELSE dead[c]
  <2>1. dead \in [Fighters -> BOOLEAN]
    BY <1>0 DEF BattleTypeOK
  <2>2. dead' = [c \in Fighters |-> IF c \in People(b) THEN c \in D \ beaten ELSE dead[c]]
    BY <1>2
  <2> DEFINE e(c) == IF c \in People(b) THEN c \in D \ beaten ELSE dead[c]
  <2>3. \A c \in Fighters : e(c) \in BOOLEAN
    <3> SUFFICES ASSUME NEW c \in Fighters PROVE e(c) \in BOOLEAN
      OBVIOUS
    <3>1. dead[c] \in BOOLEAN
      BY <2>1
    <3>2. (c \in D \ beaten) \in BOOLEAN
      OBVIOUS
    <3> QED BY <3>1, <3>2
  <2>4. dead' = [c \in Fighters |-> e(c)]
    BY <2>2
  <2> HIDE DEF e
  <2>5. dead' \in [Fighters -> BOOLEAN] /\ \A c \in Fighters : dead'[c] = e(c)
    BY <2>3, <2>4
  <2> QED BY <2>5 DEF e
<1> HIDE DEF out
<1>6. \A x \in Battles : InUse(x)' <=> InUse(x)
  <2>1. \A w \in Watching(b) : InUse(w)
    BY <1>0, WatchingWatch
  <2> DEFINE k == [bmode EXCEPT ![b] = M]
  <2>2. k = [x \in Battles |-> IF x = b THEN M ELSE bmode[x]]
    BY <1>0 DEF BattleTypeOK
  <2> HIDE DEF k
  <2>3. \A x \in Battles : bmode'[x] = IF x \in Watching(b) THEN "WATCHPRE" ELSE k[x]
    BY <1>2 DEF WatchPre, k
  <2>4. M # "NONE"
    BY <1>2
  <2> QED BY <2>1, <2>2, <2>3, <2>4 DEF InUse
<1>7. Leaves(out)
  <2>1. /\ \A x \in Battles, s \in Sides : entry'[x][s] = entry[x][s] \ out
        /\ \A c \in Fighters : cbattle'[c] = IF c \in out THEN "none" ELSE cbattle[c]
    BY <1>0, <1>4, ExitTypes
  <2>2. ASSUME NEW c \in Fighters
        PROVE IF c \in out THEN cmode'[c] \in Away /\ (cmode'[c] = "FINAL" => cbattle'[c] = "none")
              ELSE /\ cbattle'[c] = cbattle[c] /\ (cmode'[c] \in Away <=> cmode[c] \in Away)
                   /\ (cmode'[c] = "FINAL" => cmode[c] = "FINAL")
    BY <1>0, <1>4, <2>1, PeopleFight DEF Away
  <2>3. \A c \in Fighters : dead[c] => cmode[c] \notin Away
    BY <1>0 DEF InOneBattle, Away
  <2>4. \A c \in Fighters : dead'[c] => c \notin out /\ cmode[c] \notin Away
    BY <1>0, <1>3, <1>5, <2>3, PeopleFight
  <2>5. \A x \in Battles : bmode'[x] = "NONE" => bmode[x] = "NONE"
    BY <1>6 DEF InUse
  <2> QED BY <1>2, <2>1, <2>2, <2>4, <2>5 DEF Leaves
<1>8. PartyInv' /\ lead' \in [Fighters -> Fighters \cup {"none"}]
  BY <1>0, <1>2, SentBackParty
<1>9. BattleTypeOK'
  <2>1. turn' \in [Battles -> 0 .. Turns - 1] /\ part' \in [Battles -> BOOLEAN]
    <3> DEFINE n == turn[b]
    <3>1. n \in Nat /\ Turns \in Nat \ {0}
      BY <1>0 DEF BattleTypeOK
    <3> HIDE DEF n
    <3>2. (n + 1) % Turns \in 0 .. Turns - 1
      BY <3>1
    <3> USE DEF n
    <3> QED BY <1>0, <1>2, <3>2 DEF BattleTypeOK
  <2>2. bmode' \in [Battles -> {"NONE", "INIT", "BATTLE", "FINISH",
                                "WATCHBC", "WATCHPRE", "WATCHWAIT", "WATCHMOVIE"}]
    BY <1>0, <1>2 DEF BattleTypeOK, WatchPre
  <2>3. /\ entry' \in [Battles -> [Sides -> SUBSET Fighters]]
        /\ cbattle' \in [Fighters -> Battles \cup {"none"}] /\ watch' \in [Fighters -> BOOLEAN]
    BY <1>0, <1>4, ExitTypes
  <2> QED BY <1>0, <1>2, <1>4, <1>5, <1>8, <2>1, <2>2, <2>3 DEF BattleTypeOK, BattleModes
<1> QED BY <1>2, <1>6, <1>7, <1>8, <1>9, BattleLeaveStep

\* a turn, with those who flee, fall and are put out at its end,
LEMMA BattleStep ==
    ASSUME BattleIInv, NEW b \in Battles, BATTLE_Command(b)
    PROVE  BattleIInv'
<1>1. bmode[b] = "BATTLE"
  BY DEF BATTLE_Command, LateTurn
<1>2. ASSUME NEW X, X \subseteq People(b), AnyTurn(b, X) PROVE BattleIInv'
  <2>1. PICK G \in SUBSET ((Standing(b, 0) \cup Standing(b, 1)) \ X) :
          \E D \in SUBSET (People(b) \ (X \cup G)), f \in {FALSE, btype[b] = "P_vs_E"} : Turn(b, X, G, D, f)
    BY <1>2 DEF AnyTurn
  <2>2. PICK D \in SUBSET (People(b) \ (X \cup G)), f \in {FALSE, btype[b] = "P_vs_E"} : Turn(b, X, G, D, f)
    BY <2>1
  <2>3. G \subseteq People(b)
    BY DEF Standing, People
  <2> QED BY <1>1, <1>2, <2>2, <2>3, TurnStep
<1>3. Silent(b) \subseteq People(b) /\ Waiting(b) \subseteq People(b) /\ {} \subseteq People(b)
  BY DEF Silent, Waiting
<1>4. CASE LateTurn(b)
  BY <1>2, <1>3, <1>4 DEF LateTurn
<1>5. CASE ~ LateTurn(b)
  <2>1. PICK X \in {{}} \cup (IF part[b] THEN {Silent(b)} ELSE {}) : Wait(b, X) \/ AnyTurn(b, X)
    BY <1>5 DEF BATTLE_Command
  <2>2. X \subseteq People(b)
    BY <1>3
  <2> QED BY <1>2, <2>1, <2>2, WaitStep
<1> QED BY <1>4, <1>5

\* the end of a watching battle, which leaves the list it is in,
LEMMA FinishWatchStep ==
    ASSUME BattleIInv, NEW b \in Battles, FinishWatch(b)
    PROVE  BattleIInv'
<1>0. BattleTypeOK /\ PartyInv /\ SidesInv /\ InOneBattle /\ NobodyWatchesNothing
  BY DEF BattleIInv
<1>1. /\ btype[b] = "WATCH" /\ InUse(b) /\ bmode' = [bmode EXCEPT ![b] = "NONE"]
      /\ BATTLE_Exit(People(b)) /\ cmode' = Ended(People(b)) /\ dead' = Healed(People(b))
      /\ bnext' = [x \in Battles |-> IF x = b THEN "none" ELSE IF x = bbefore[b] THEN bnext[b] ELSE bnext[x]]
      /\ bbefore' = [x \in Battles |-> IF x = b THEN "none" ELSE IF x = bnext[b] THEN bbefore[b] ELSE bbefore[x]]
      /\ Cleared({b}) /\ UNCHANGED lead
  BY DEF FinishWatch, Over, InUse
<1>2. /\ btype' = [x \in Battles |-> IF x \in {b} THEN "P_vs_E" ELSE btype[x]]
      /\ part' \in [Battles -> BOOLEAN] /\ turn' \in [Battles -> 0 .. Turns - 1]
  <2>1. 0 \in 0 .. Turns - 1
    OBVIOUS
  <2> QED BY <1>0, <1>1, <2>1 DEF Cleared, BattleTypeOK
<1>3. /\ entry' \in [Battles -> [Sides -> SUBSET Fighters]]
      /\ cbattle' \in [Fighters -> Battles \cup {"none"}] /\ watch' \in [Fighters -> BOOLEAN]
      /\ \A x \in Battles, s \in Sides : entry'[x][s] = entry[x][s] \ People(b)
  BY <1>0, <1>1, ExitTypes
<1>4. entry'[b][0] = {} /\ entry'[b][1] = {}
  BY <1>3 DEF Sides, People
<1>5. /\ \A x \in Battles : bmode'[x] = "NONE" => bmode[x] = "NONE" \/ (entry'[x][0] = {} /\ entry'[x][1] = {})
      /\ \A x \in Battles : btype'[x] = "WATCH" => btype[x] = "WATCH"
  BY <1>0, <1>1, <1>2, <1>4 DEF BattleTypeOK
<1>6. Leaves(People(b)) /\ cmode' \in [Fighters -> BattleModes] /\ dead' \in [Fighters -> BOOLEAN]
  BY <1>0, <1>1, <1>5, EndedLeaves
<1>7. SidesInv' /\ InOneBattle'
  BY <1>0, <1>6, LeaveSides
<1>8. PartyInv'
  BY <1>0, <1>1 DEF PartyInv, Followers
<1>9. NobodyWatchesNothing'
  <2>1. \A x \in Battles \ {b} : btype'[x] = btype[x] /\ (People(x)' # {} => People(x) # {})
    BY <1>2, <1>3 DEF People, Sides
  <2> QED BY <1>0, <1>1, <2>1, UnlinkLists
<1>10. BattleTypeOK'
  BY <1>0, <1>1, <1>2, <1>3, <1>6 DEF BattleTypeOK, BattleModes
<1> QED BY <1>7, <1>8, <1>9, <1>10 DEF BattleIInv

\* the end of a battle, which ends the watching battles of its list,
LEMMA FinishStep ==
    ASSUME BattleIInv, NEW b \in Battles, BATTLE_Finish(b)
    PROVE  BattleIInv'
<1>0. BattleTypeOK /\ PartyInv /\ SidesInv /\ InOneBattle /\ NobodyWatchesNothing /\ Linked
  BY ListsParts DEF BattleIInv
<1> DEFINE gone == People(b) \cup UNION {entry[w][0] : w \in Watching(b)}
           first == bnext[b]
<1>1. /\ btype[b] # "WATCH" /\ InUse(b)
      /\ bmode' = [x \in Battles |-> IF x \in {b, first} THEN "NONE" ELSE bmode[x]]
      /\ BATTLE_Exit(gone) /\ cmode' = Ended(gone) /\ dead' = Healed(gone)
      /\ bnext' = [x \in Battles |-> IF x \in {b, first} THEN "none" ELSE bnext[x]]
      /\ bbefore' = [x \in Battles |-> IF bbefore[x] \in {b, first} THEN "none" ELSE bbefore[x]]
      /\ Cleared({b, first})
      /\ lead' = lead \/ \E c \in Fighters : lead' = SentBack({c})
  BY DEF BATTLE_Finish, EndBattle, Over, InUse
<1>2. /\ btype' = [x \in Battles |-> IF x \in {b, first} THEN "P_vs_E" ELSE btype[x]]
      /\ part' \in [Battles -> BOOLEAN] /\ turn' \in [Battles -> 0 .. Turns - 1]
  <2>1. 0 \in 0 .. Turns - 1
    OBVIOUS
  <2> QED BY <1>0, <1>1, <2>1 DEF Cleared, BattleTypeOK
<1>w. /\ \A w \in Watching(b) : w \in Battles /\ entry[w][0] \subseteq gone /\ entry[w][1] = {}
      /\ first # "none" => first \in Watching(b)
      /\ People(b) \subseteq gone
  <2>1. \A w \in Watching(b) : w \in Battles /\ btype[w] = "WATCH"
    BY <1>0, WatchingWatch
  <2>2. first # "none" => first \in Watching(b)
    BY <1>0 DEF Watching, BattleTypeOK
  <2> QED BY <1>0, <2>1, <2>2 DEF SidesInv
<1> HIDE DEF gone
<1>3. /\ entry' \in [Battles -> [Sides -> SUBSET Fighters]]
      /\ cbattle' \in [Fighters -> Battles \cup {"none"}] /\ watch' \in [Fighters -> BOOLEAN]
      /\ \A x \in Battles, s \in Sides : entry'[x][s] = entry[x][s] \ gone
  BY <1>0, <1>1, ExitTypes
<1>4. /\ entry'[b][0] = {} /\ entry'[b][1] = {}
      /\ \A w \in Watching(b) : entry'[w][0] = {} /\ entry'[w][1] = {}
  BY <1>3, <1>w DEF Sides, People
<1>f. first \in Battles \cup {"none"}
  BY <1>0 DEF BattleTypeOK
<1>5. /\ \A x \in Battles : bmode'[x] = "NONE" => bmode[x] = "NONE" \/ (entry'[x][0] = {} /\ entry'[x][1] = {})
      /\ \A x \in Battles : btype'[x] = "WATCH" => btype[x] = "WATCH"
  <2> HIDE DEF first
  <2>1. \A x \in Battles : x = first => entry'[x][0] = {} /\ entry'[x][1] = {}
    BY <1>4, <1>w
  <2> QED BY <1>1, <1>2, <1>4, <2>1
<1>6. Leaves(gone) /\ cmode' \in [Fighters -> BattleModes] /\ dead' \in [Fighters -> BOOLEAN]
  BY <1>0, <1>1, <1>5, EndedLeaves
<1>7. SidesInv' /\ InOneBattle'
  BY <1>0, <1>6, LeaveSides
<1>8. PartyInv' /\ lead' \in [Fighters -> Fighters \cup {"none"}]
  <2>1. CASE lead' = lead
    <3>1. PartyInv'
      BY <1>0, <2>1 DEF PartyInv, Followers
    <3>2. lead' \in [Fighters -> Fighters \cup {"none"}]
      BY <1>0, <2>1 DEF BattleTypeOK
    <3> QED BY <3>1, <3>2
  <2>2. CASE \E c \in Fighters : lead' = SentBack({c})
    BY <1>0, <2>2, SentBackParty
  <2> QED BY <1>1, <2>1, <2>2
<1>9. NobodyWatchesNothing'
  <2>1. \A x \in Battles \ {b, first} : btype'[x] = btype[x] /\ (People(x)' # {} => People(x) # {})
    BY <1>2, <1>3 DEF People, Sides
  <2>2. \A x \in Watching(b) : People(x)' = {}
    BY <1>4 DEF People
  <2> HIDE DEF first
  <2>3. first = bnext[b]
    BY DEF first
  <2> QED BY <1>0, <1>1, <2>1, <2>2, <2>3, EndLists
<1>10. BattleTypeOK'
  <2> HIDE DEF first
  <2>1. bmode' \in [Battles -> {"NONE", "INIT", "BATTLE", "FINISH",
                                "WATCHBC", "WATCHPRE", "WATCHWAIT", "WATCHMOVIE"}]
    BY <1>0, <1>1 DEF BattleTypeOK
  <2>2. btype' \in [Battles -> {"P_vs_E", "P_vs_P", "WATCH"}]
    BY <1>0, <1>2 DEF BattleTypeOK
  <2>3. bnext' \in [Battles -> Battles \cup {"none"}] /\ bbefore' \in [Battles -> Battles \cup {"none"}]
    BY <1>0, <1>1 DEF BattleTypeOK
  <2> QED BY <1>2, <1>3, <1>6, <1>8, <2>1, <2>2, <2>3 DEF BattleTypeOK, BattleModes
<1> QED BY <1>7, <1>8, <1>9, <1>10 DEF BattleIInv

\* c comes to the aid of t, who fights.
LEMMA AidStep ==
    ASSUME BattleIInv, NEW c \in Fighters, NEW t \in Fighters, BATTLE_RescueEntry(c, t),
           cmode[c] \in Away, cmode[t] \notin Away
    PROVE  BattleIInv'
<1>0. BattleTypeOK /\ PartyInv /\ SidesInv /\ InOneBattle /\ NobodyWatchesNothing
  BY DEF BattleIInv
<1> DEFINE b == cbattle[t]
           s == SideOf(t)
<1>1. /\ b \in Battles /\ bmode[b] # "NONE" /\ t \in People(b)
      /\ s \in Sides /\ (s = 1 => t \in entry[b][1])
  BY <1>0, InItsBattle
<1>2. /\ Cardinality(entry[b][s]) < SideMax /\ Enter({c}, b, s, "RESCUE", FALSE)
      /\ UNCHANGED <<tableVars, lead>>
  BY DEF BATTLE_RescueEntry, Aid
<1> HIDE DEF b, s
<1>3. Cardinality(entry[b][s] \cup {c}) <= SideMax
  <2> DEFINE E == entry[b][s]
  <2>1. IsFiniteSet(E) /\ Cardinality(E) \in Nat /\ Cardinality(E) < SideMax
    BY <1>0, <1>1, <1>2, FS_CardinalityType DEF SidesInv
  <2> HIDE DEF E
  <2>2. Cardinality(E \cup {c}) = IF c \in E THEN Cardinality(E) ELSE Cardinality(E) + 1
    BY <2>1, FS_AddElement
  <2>3. Cardinality(E \cup {c}) <= SideMax
    BY <2>1, <2>2
  <2> QED BY <2>3 DEF E
<1>4. btype'[b] = "WATCH" => s = 0 /\ entry[b][1] = {}
  BY <1>0, <1>1, <1>2 DEF SidesInv, tableVars, Sides
<1>5. /\ {c} \in SUBSET Fighters /\ IsFiniteSet({c}) /\ \A d \in {c} : cmode[d] \in Away
      /\ "RESCUE" \in BattleModes \ Away /\ FALSE \in BOOLEAN
  BY FS_Singleton DEF BattleModes, Away
<1>6. bmode'[b] # "NONE" /\ \A d \in Battles \ {b} : bmode'[d] = bmode[d] /\ btype'[d] = btype[d]
  BY <1>1, <1>2 DEF tableVars
<1>7. /\ SidesInv' /\ InOneBattle'
      /\ entry' \in [Battles -> [Sides -> SUBSET Fighters]] /\ cmode' \in [Fighters -> BattleModes]
      /\ cbattle' \in [Fighters -> Battles \cup {"none"}] /\ watch' \in [Fighters -> BOOLEAN]
      /\ \A d \in Battles \ {b} : entry'[d] = entry[d]
  BY <1>0, <1>1, <1>2, <1>3, <1>4, <1>5, <1>6, EnterOne
<1>8. SameLists
  BY <1>1, <1>2, <1>7 DEF SameLists, tableVars, InUse, People
<1>9. NobodyWatchesNothing'
  BY <1>0, <1>8, KeepLists
<1>10. PartyInv'
  BY <1>0, <1>2 DEF PartyInv, Followers
<1>11. UNCHANGED dead
  BY <1>2 DEF Enter
<1>12. BattleTypeOK'
  BY <1>0, <1>2, <1>7, <1>11 DEF BattleTypeOK, BattleModes, tableVars
<1> QED BY <1>7, <1>9, <1>10, <1>12 DEF BattleIInv

\* the way back from a battle, or into that of the leader,
LEMMA EncountOutStep ==
    ASSUME BattleIInv, NEW c \in Fighters, BattleEncountOut(c)
    PROVE  BattleIInv'
<1>0. BattleTypeOK /\ PartyInv /\ InOneBattle
  BY DEF BattleIInv
<1>1. cmode[c] = "FINAL"
  BY DEF BattleEncountOut
<1>2. CASE IsClient(c) /\ cmode[lead[c]] \notin {"NONE", "FINAL"} /\ BATTLE_RescueEntry(c, lead[c])
  <2>1. lead[c] \in Fighters
    BY <1>0, <1>2 DEF IsClient, BattleTypeOK
  <2> QED BY <1>1, <1>2, <2>1, AidStep DEF Away
<1>3. CASE /\ cmode' = [cmode EXCEPT ![c] = "NONE"]
           /\ watch' = [watch EXCEPT ![c] = FALSE]
           /\ UNCHANGED <<tableVars, entry, cbattle, dead, lead>>
  <2>1. BattleTypeOK'
    BY <1>0, <1>3 DEF BattleTypeOK, tableVars
  <2>2. \A d \in Fighters : /\ cmode'[d] \in Away <=> cmode[d] \in Away
                            /\ cmode'[d] = "FINAL" => cmode[d] = "FINAL"
    <3>1. \A d \in Fighters : cmode'[d] = IF d = c THEN "NONE" ELSE cmode[d]
      BY <1>0, <1>3 DEF BattleTypeOK
    <3> QED BY <1>1, <3>1 DEF Away
  <2> QED BY <1>3, <2>1, <2>2, StayStep DEF tableVars, InUse
<1> QED BY <1>2, <1>3 DEF BattleEncountOut

\* c and t fight, or rather the leader of t.
LEMMA DuelStep ==
    ASSUME BattleIInv, NEW c \in Fighters, NEW t \in Fighters, BATTLE_CreateVsPlayer(c, t)
    PROVE  BattleIInv'
<1>0. BattleTypeOK /\ PartyInv /\ SidesInv /\ InOneBattle /\ NobodyWatchesNothing
  BY DEF BattleIInv
<1> DEFINE r == ChiefOf(t)
<1>1. /\ c # t /\ lead[c] \in {"none", c} /\ cmode[c] = "NONE" /\ cmode[r] = "NONE"
      /\ lead[c] = "none" \/ lead[c] # lead[r]
      /\ UNCHANGED <<bnext, bbefore, dead, lead>>
  BY DEF BATTLE_CreateVsPlayer, IsClient
<1>2. r \in Fighters /\ r # c /\ lead[r] \in {"none", r}
  <2>1. CASE IsClient(t)
    <3>1. r = lead[t] /\ lead[t] \in Fighters /\ lead[r] = r
      BY <1>0, <2>1 DEF ChiefOf, IsClient, BattleTypeOK, PartyInv
    <3> QED BY <1>1, <3>1
  <2>2. CASE ~ IsClient(t)
    BY <1>1, <2>2 DEF ChiefOf, IsClient
  <2> QED BY <2>1, <2>2
<1>3. PICK b \in Battles :
         /\ CreateBattle(b, "P_vs_P", "INIT")
         /\ entry' = [entry EXCEPT ![b] = [s \in Sides |-> IF s = 0 THEN With(c) ELSE With(r)]]
         /\ LET X == With(c) \cup With(r)
            IN  /\ cmode' = [d \in Fighters |-> IF d \in X THEN "INIT" ELSE cmode[d]]
                /\ cbattle' = [d \in Fighters |-> IF d \in X THEN b ELSE cbattle[d]]
                /\ watch' = [d \in Fighters |-> d \notin X /\ watch[d]]
  BY DEF BATTLE_CreateVsPlayer
<1> HIDE DEF r
<1>4. /\ bmode' \in [Battles -> {"NONE", "INIT", "BATTLE", "FINISH",
                                 "WATCHBC", "WATCHPRE", "WATCHWAIT", "WATCHMOVIE"}]
      /\ btype' \in [Battles -> {"P_vs_E", "P_vs_P", "WATCH"}]
      /\ part' \in [Battles -> BOOLEAN] /\ turn' \in [Battles -> 0 .. Turns - 1]
      /\ bmode[b] = "NONE" /\ bmode'[b] = "INIT" /\ btype'[b] = "P_vs_P"
      /\ \A d \in Battles \ {b} : bmode'[d] = bmode[d] /\ btype'[d] = btype[d]
  BY <1>0, <1>3, CreateType
<1>5. /\ With(c) \subseteq Fighters /\ IsFiniteSet(With(c)) /\ Cardinality(With(c)) <= SideMax
      /\ With(r) \subseteq Fighters /\ IsFiniteSet(With(r)) /\ Cardinality(With(r)) <= SideMax
  BY <1>0, <1>2, WithFits
<1>6. With(c) \cap With(r) = {}
  BY <1>1, <1>2 DEF With, Followers
<1>7. \A d \in With(c) \cup With(r) : cmode[d] \in Away
  BY <1>1 DEF With, Away
<1> DEFINE X0 == With(c)
           X1 == With(r)
<1>8. /\ cmode' = [d \in Fighters |-> IF d \in X0 \cup X1 THEN "INIT" ELSE cmode[d]]
      /\ cbattle' = [d \in Fighters |-> IF d \in X0 \cup X1 THEN b ELSE cbattle[d]]
      /\ watch' = [d \in Fighters |-> d \notin X0 \cup X1 /\ watch[d]]
      /\ entry' = [entry EXCEPT ![b] = [s \in Sides |-> IF s = 0 THEN X0 ELSE X1]]
      /\ X0 \subseteq Fighters /\ IsFiniteSet(X0) /\ Cardinality(X0) <= SideMax
      /\ X1 \subseteq Fighters /\ IsFiniteSet(X1) /\ Cardinality(X1) <= SideMax
      /\ X0 \cap X1 = {} /\ \A d \in X0 \cup X1 : cmode[d] \in Away
  BY <1>3, <1>5, <1>6, <1>7
<1> HIDE DEF X0, X1
<1>9. /\ entry' \in [Battles -> [Sides -> SUBSET Fighters]]
      /\ entry'[b][0] = X0 /\ entry'[b][1] = X1 /\ \A d \in Battles \ {b} : entry'[d] = entry[d]
  BY <1>0, <1>8 DEF BattleTypeOK, Sides
<1>10. entry[b][0] = {} /\ entry[b][1] = {}
  BY <1>0, <1>4, UnusedEmpty
<1>11. Enters(b, X0, X1)
  <2>1. entry[b][0] \cup X0 = X0 /\ entry[b][1] \cup X1 = X1
    BY <1>10
  <2>2. \A d \in Battles : IF d = b THEN entry'[d][0] = entry[d][0] \cup X0 /\ entry'[d][1] = entry[d][1] \cup X1
                           ELSE entry'[d] = entry[d]
    BY <1>9, <2>1
  <2>3. \A d \in Fighters :
          IF d \in X0 \cup X1 THEN cmode[d] \in Away /\ cmode'[d] \notin Away /\ cbattle'[d] = b
          ELSE cmode'[d] = cmode[d] /\ cbattle'[d] = cbattle[d]
    BY <1>8 DEF Away
  <2>4. bmode'[b] # "NONE" /\ btype'[b] # "WATCH"
    BY <1>4
  <2> QED BY <1>1, <1>4, <1>8, <2>1, <2>2, <2>3, <2>4 DEF Enters
<1>12. SidesInv' /\ InOneBattle'
  BY <1>0, <1>11, EnterSides
<1>13. NobodyWatchesNothing'
  BY <1>0, <1>1, <1>4, <1>9, CreateLists
<1>14. PartyInv'
  BY <1>0, <1>1 DEF PartyInv, Followers
<1>15. BattleTypeOK'
  <2>1. cmode' \in [Fighters -> BattleModes] /\ cbattle' \in [Fighters -> Battles \cup {"none"}]
    BY <1>0, <1>8 DEF BattleTypeOK, BattleModes
  <2>2. watch' \in [Fighters -> BOOLEAN]
    BY <1>0, <1>8 DEF BattleTypeOK
  <2> QED BY <1>0, <1>1, <1>4, <1>9, <2>1, <2>2 DEF BattleTypeOK, BattleModes
<1> QED BY <1>12, <1>13, <1>14, <1>15 DEF BattleIInv

\* c and those it leads come to watch t.
LEMMA WatchEntryStep ==
    ASSUME BattleIInv, NEW c \in Fighters, NEW t \in Fighters, BATTLE_WatchEntry(c, t)
    PROVE  BattleIInv'
<1>0. BattleTypeOK /\ PartyInv /\ SidesInv /\ InOneBattle /\ NobodyWatchesNothing
  BY DEF BattleIInv
<1> DEFINE top == cbattle[t]
<1>1. cmode[c] = "NONE" /\ cmode[t] \notin Away /\ UNCHANGED lead
  BY DEF BATTLE_WatchEntry, Away
<1>2. PICK b \in Battles : /\ CreateBattle(b, "WATCH", "WATCHBC") /\ WatchLink(top, b)
                           /\ Enter(With(c), b, 0, "WATCHINIT", TRUE)
  BY DEF BATTLE_WatchEntry
<1>3. top \in Battles /\ bmode[top] # "NONE" /\ People(top) # {}
  BY <1>0, <1>1, InItsBattle
<1> HIDE DEF top
<1>4. /\ bmode' \in [Battles -> {"NONE", "INIT", "BATTLE", "FINISH",
                                 "WATCHBC", "WATCHPRE", "WATCHWAIT", "WATCHMOVIE"}]
      /\ btype' \in [Battles -> {"P_vs_E", "P_vs_P", "WATCH"}]
      /\ part' \in [Battles -> BOOLEAN] /\ turn' \in [Battles -> 0 .. Turns - 1]
      /\ bmode[b] = "NONE" /\ bmode'[b] = "WATCHBC" /\ btype'[b] = "WATCH"
      /\ \A d \in Battles \ {b} : bmode'[d] = bmode[d] /\ btype'[d] = btype[d]
  BY <1>0, <1>2, CreateType
<1>5. /\ With(c) \in SUBSET Fighters /\ IsFiniteSet(With(c)) /\ Cardinality(With(c)) <= SideMax
      /\ \A d \in With(c) : cmode[d] \in Away
  BY <1>0, <1>1, WithFits DEF With, Away
<1>6. entry[b][0] \cup With(c) = With(c) /\ entry[b][1] = {}
  BY <1>0, <1>4, UnusedEmpty
<1>7. 0 \in Sides /\ "WATCHINIT" \in BattleModes \ Away
  BY DEF Sides, BattleModes, Away
<1>8. /\ SidesInv' /\ InOneBattle'
      /\ entry' \in [Battles -> [Sides -> SUBSET Fighters]] /\ cmode' \in [Fighters -> BattleModes]
      /\ cbattle' \in [Fighters -> Battles \cup {"none"}] /\ watch' \in [Fighters -> BOOLEAN]
      /\ \A d \in Battles \ {b} : entry'[d] = entry[d]
  BY <1>0, <1>2, <1>4, <1>5, <1>6, <1>7, EnterOne
<1>9. NobodyWatchesNothing'
  <2>1. \A x \in Battles \ {b} : People(x)' = People(x)
    BY <1>8 DEF People
  <2>2. btype' = [btype EXCEPT ![b] = "WATCH"]
    BY <1>2 DEF CreateBattle
  <2>3. InUse(top) /\ ~ InUse(b) /\ InUse(b)' /\ \A x \in Battles \ {b} : bmode'[x] = bmode[x]
    BY <1>3, <1>4 DEF InUse
  <2> QED BY <1>0, <1>2, <1>3, <2>1, <2>2, <2>3, LinkLists
<1>10. PartyInv'
  BY <1>0, <1>1 DEF PartyInv, Followers
<1>11. BattleTypeOK'
  <2>1. bnext' \in [Battles -> Battles \cup {"none"}] /\ bbefore' \in [Battles -> Battles \cup {"none"}]
    BY <1>0, <1>2, <1>3 DEF WatchLink, BattleTypeOK
  <2>2. UNCHANGED dead
    BY <1>2 DEF Enter
  <2> QED BY <1>0, <1>1, <1>4, <1>8, <2>1, <2>2 DEF BattleTypeOK, BattleModes
<1> QED BY <1>8, <1>9, <1>10, <1>11 DEF BattleIInv

\* and what happens to parties outside of battles.
LEMMA PartyStep ==
    ASSUME BattleIInv, PartyInv', lead' \in [Fighters -> Fighters \cup {"none"}], UNCHANGED <<tableVars, charVars>>
    PROVE  BattleIInv'
<1>1. SidesInv' /\ InOneBattle' /\ NobodyWatchesNothing'
  BY PartiesOnly DEF BattleIInv
<1>2. BattleTypeOK'
  BY DEF BattleIInv, BattleTypeOK, tableVars, charVars
<1> QED BY <1>1, <1>2 DEF BattleIInv
----------------------------------------------------------------------------
\* At the start every battle is free and nobody is in one.
LEMMA InitBattleIInv == BattleInit => BattleIInv
<1> SUFFICES ASSUME BattleInit PROVE BattleIInv
  OBVIOUS
<1>1. BattleTypeOK
  BY DEF BattleInit, BattleTypeOK, Empty, Sides
<1>2. PartyInv
  <2>1. \A l \in Fighters : Followers(l) = {}
    BY DEF BattleInit, Followers
  <2> QED BY <2>1, FS_EmptySet DEF BattleInit, PartyInv
<1>3. \A b \in Battles, s \in Sides : entry[b][s] = {} /\ bmode[b] = "NONE" /\ btype[b] = "P_vs_E"
  BY DEF BattleInit, Empty
<1>4. SidesInv
  BY <1>3, FS_EmptySet DEF SidesInv, Sides
<1>5. InOneBattle
  BY <1>3, FS_EmptySet DEF InOneBattle, People, Sides, BattleInit
<1>6. NobodyWatchesNothing
  <2>1. \A b \in Battles : Closed({}) /\ bnext[b] = "none" /\ bbefore[b] = "none" /\ bmode[b] = "NONE"
    BY DEF Closed, BattleInit
  <2>2. \A b \in Battles : b \notin Watching(b)
    BY <2>1 DEF Watching
  <2> QED BY <2>1, <2>2 DEF NobodyWatchesNothing
<1> QED BY <1>1, <1>2, <1>4, <1>5, <1>6 DEF BattleIInv

\* Every step keeps the invariant.
LEMMA NextBattleIInv == BattleIInv /\ [BattleNext]_battleVars => BattleIInv'
<1> SUFFICES ASSUME BattleIInv, [BattleNext]_battleVars PROVE BattleIInv'
  OBVIOUS
<1>0. BattleTypeOK /\ PartyInv
  BY DEF BattleIInv
<1>1. ASSUME NEW c \in Fighters, NEW t \in Fighters, CHAR_JoinParty_Free(c, t) PROVE BattleIInv'
  <2>1. PartyInv' /\ lead' \in [Fighters -> Fighters \cup {"none"}]
    BY <1>0, <1>1, JoinParty
  <2> QED BY <1>1, <2>1, PartyStep DEF CHAR_JoinParty_Free
<1>2. ASSUME NEW c \in Fighters, LeaveParty(c) PROVE BattleIInv'
  <2>1. PartyInv' /\ lead' \in [Fighters -> Fighters \cup {"none"}]
    BY <1>0, <1>2, SentBackParty DEF LeaveParty
  <2> QED BY <1>2, <2>1, PartyStep DEF LeaveParty
<1>3. ASSUME NEW c \in Fighters, NEW t \in Fighters, BATTLE_RescueTry(c, t) PROVE BattleIInv'
  BY <1>3, AidStep DEF BATTLE_RescueTry, Away
<1>4. ASSUME NEW b \in Battles, BATTLE_Loop(b) PROVE BattleIInv'
  BY <1>4, InitStep, BattleStep, FinishWatchStep, FinishStep, WatchPreStep, WatchWaitStep DEF BATTLE_Loop
<1>5. CASE UNCHANGED battleVars
  <2>1. UNCHANGED <<tableVars, charVars>> /\ UNCHANGED lead
    BY <1>5 DEF battleVars
  <2>2. PartyInv'
    BY <1>0, <2>1 DEF PartyInv, Followers
  <2>3. lead' \in [Fighters -> Fighters \cup {"none"}]
    BY <1>0, <2>1 DEF BattleTypeOK
  <2> QED BY <2>1, <2>2, <2>3, PartyStep
<1> QED BY <1>1, <1>2, <1>3, <1>4, <1>5, DuelStep, WatchEntryStep, EncounterStep, EncountOutStep,
           CommandStep, LogoutStep DEF BattleNext

\* The inductive invariant holds for ever.
THEOREM BattleInvariance == BattleSpec => []BattleIInv
BY InitBattleIInv, NextBattleIInv, PTL DEF BattleSpec

\* The variables keep their types (battle.c).
THEOREM BattleTypeCorrect == BattleSpec => []BattleTypeOK
BY BattleInvariance, PTL DEF BattleIInv

\* A character is in one battle at most, on one side with room for it, and its
\* index, mode and wounds say so, whatever joins, flees, rescues, logs out or
\* ends (BATTLE_NewEntry, BATTLE_Exit, BATTLE_RescueEntry, _CHAR_logout).
THEOREM OneBattleEach == BattleSpec => []InOneBattle
BY BattleInvariance, PTL DEF BattleIInv

\* Whoever watches, watches a battle, and the lists of WATCH battles stay well
\* linked without a ring (BATTLE_WatchLink, BATTLE_WatchUnLink, BATTLE_Finish).
THEOREM WatchersWatch == BattleSpec => []NobodyWatchesNothing
BY BattleInvariance, PTL DEF BattleIInv
===============================================================================

------------------------- MODULE GoodsAndLoot_proofs -------------------------
(***************************************************************************)
(* Proofs about who holds what: in the battles of BattleTurn, and in the   *)
(* exchange of TradeGoods.                                                 *)
(*                                                                         *)
(* The battle: for every number of seats, players, pets, enemies and       *)
(* items, whatever everybody does in its turn, an item lies in one place,  *)
(* pets sit by their masters, and those who have fallen are settled        *)
(* between two actions.  Sound holds within an action too, Settled only    *)
(* at its end; for each function of the code there is a lemma that says    *)
(* which of them it keeps.                                                 *)
(*                                                                         *)
(* The exchange: for every set of items and pets, every number of slots    *)
(* and every amount of gold, whatever part of it fails, nothing is lost,   *)
(* doubled or owed, and the pets in use stay.                              *)
(***************************************************************************)
EXTENDS BattleTurn, TradeGoods, FiniteSetTheorems, WellFoundedInduction, TLAPS

----------------------------------------------------------------------------
\* The battle: what its record holds.

Fighters == Masters \cup Kennel \cup Foes

Battles ==
    [mode : {"command", "turn", "finish", "over"}, turn : Nat,
     entry : [Posts -> Fighters \cup {Vacant}],
     hurt : SUBSET Fighters, die : SUBSET Fighters, ult : SUBSET Int,
     todo : SUBSET Fighters, late : SUBSET Fighters,
     out : [Masters -> Kennel \cup {Vacant}],
     got : [Seats -> SUBSET Loot], own : [Masters \cup Foes -> SUBSET Loot], items : SUBSET Loot,
     lucky : SUBSET Lucky, pool : SUBSET Foes, worth : SUBSET Foes, earned : [Foes -> Nat],
     lost : SUBSET Loot, fled : SUBSET Masters]

\* Everybody sits where its kind sits, and in one place.
Seated(entry) ==
    /\ \A s \in Seats : entry[s] \in Masters \cup {Vacant} /\ entry[s + 5] \in Kennel \cup {Vacant}
    /\ \A n \in Lairs : entry[n] \in Foes \cup {Vacant}
    /\ \A m, n \in Posts : entry[m] = entry[n] /\ entry[m] # Vacant => m = n

\* A pet in the battle is five places from its master, who has it out.
WithPets(entry, out) ==
    /\ \A s \in Seats : entry[s + 5] # Vacant => /\ entry[s + 5][1] = entry[s]
                                                 /\ out[entry[s]] = entry[s + 5]
    /\ \A p \in Masters : out[p] # Vacant => out[p][1] = p

\* Enemies that are still to be created
Unborn(entry, pool, worth, hurt) ==
    \A e \in pool : e \in worth /\ e \notin hurt /\ \A n \in Posts : entry[n] # e

\* A player out of the battle has HP, or left as one that is in fled.
Apart(entry, hurt, fled) ==
    \A p \in Masters : p \in hurt /\ (\A n \in Posts : entry[n] # p) => p \in fled

\* The experience of an enemy is taken once, with its items.
Taken(worth, earned, own) ==
    \A e \in Foes : IF e \in worth THEN earned[e] = 0 ELSE earned[e] = 1 /\ own[e] = {}

\* Items are in one place each; those there are and those that are held are
\* the same but for those that are lost.
Lying(own, got, items, lost, pool) ==
    /\ \A x, y \in Masters \cup Foes : \A i \in own[x] : i \in own[y] => x = y
    /\ \A s, t \in Seats : \A i \in got[s] : i \in got[t] => s = t
    /\ \A x \in Masters \cup Foes, s \in Seats : \A i \in own[x] : i \notin got[s]
    /\ \A x \in Masters \cup Foes : own[x] \subseteq items
    /\ \A s \in Seats : got[s] \subseteq items
    /\ \A i \in items : i \in lost \/ (\E x \in Masters \cup Foes : i \in own[x]) \/ \E s \in Seats : i \in got[s]
    /\ \A e \in pool : own[e] = {} /\ Carried[e] \cap items = {}

\* What holds whatever happens, within an action too.
Sound(w) ==
    /\ w \in Battles
    /\ Seated(w.entry)
    /\ WithPets(w.entry, w.out)
    /\ Unborn(w.entry, w.pool, w.worth, w.hurt)
    /\ Apart(w.entry, w.hurt, w.fled)
    /\ Taken(w.worth, w.earned, w.own)
    /\ Lying(w.own, w.got, w.items, w.lost, w.pool)

\* What holds between actions: who has no HP counts as dead.
Settled(w) == \A n \in Posts : w.entry[n] \in w.hurt \ w.fled => w.entry[n] \in w.die

\* All but f
SettledBut(w, f) == \A n \in Posts : w.entry[n] # f /\ w.entry[n] \in w.hurt \ w.fled => w.entry[n] \in w.die

\* The places are numbers, in three kinds.
LEMMA PostsFacts ==
    /\ Posts \subseteq 0..19 /\ Posts \subseteq Int /\ Lairs \subseteq Posts /\ Seats \subseteq Posts /\ Seats \subseteq Nat
    /\ \A s \in Seats : s + 5 \in Posts /\ s + 5 \notin Seats /\ s + 5 \notin Lairs /\ s \notin Lairs /\ s + 5 - 5 = s
    /\ \A n \in Posts : n \in Seats \/ n \in Lairs \/ (n - 5 \in Seats /\ n - 5 + 5 = n)
    /\ \A n \in Posts : SideOf2(n) = 1 <=> n \in Lairs
    /\ \A n \in Posts : SideOf2(n) = 0 <=> n \notin Lairs
<1>1. Seats \subseteq 0..4 /\ Lairs \subseteq 10..19
  BY TurnAssumption DEF TurnAssumption
<1>2. \A s \in Seats : s \in Int /\ 0 <= s /\ s <= 4
  BY <1>1
<1>3. \A s \in Lairs : s \in Int /\ 10 <= s /\ s <= 19
  BY <1>1
<1>4. \A n \in Posts : n \in Seats \/ n \in Lairs \/ (n - 5 \in Seats /\ n - 5 + 5 = n)
  BY <1>2 DEF Posts
<1>5. Posts \subseteq 0..19 /\ Posts \subseteq Int /\ Lairs \subseteq Posts /\ Seats \subseteq Posts /\ Seats \subseteq Nat
  BY <1>2, <1>3 DEF Posts
<1>6. \A s \in Seats : s + 5 \in Posts /\ s + 5 \notin Seats /\ s + 5 \notin Lairs /\ s \notin Lairs /\ s + 5 - 5 = s
  BY <1>2, <1>3 DEF Posts
<1>7. \A n \in Posts : SideOf2(n) = 1 <=> n \in Lairs
  BY <1>2, <1>3 DEF Posts, SideOf2
<1>8. \A n \in Posts : SideOf2(n) = 0 <=> n \notin Lairs
  BY <1>2, <1>3 DEF Posts, SideOf2
<1> QED BY <1>4, <1>5, <1>6, <1>7, <1>8

\* No fighter is of two kinds, and none is nobody.
LEMMA KindsFacts ==
    /\ Vacant \notin Fighters /\ Masters \subseteq Fighters /\ Kennel \subseteq Fighters /\ Foes \subseteq Fighters
    /\ \A p \in Masters : p \notin Foes /\ p \notin Kennel
    /\ \A b \in Kennel : b \notin Masters /\ b \notin Foes /\ b[1] \in Masters
    /\ \A e \in Foes : e \notin Masters /\ e \notin Kennel
BY TurnAssumption DEF TurnAssumption, Fighters

\* What the record of a battle holds, field by field.
LEMMA Fields ==
    ASSUME NEW w \in Battles
    PROVE  /\ w.mode \in {"command", "turn", "finish", "over"} /\ w.turn \in Nat
           /\ w.entry \in [Posts -> Fighters \cup {Vacant}]
           /\ w.hurt \in SUBSET Fighters /\ w.die \in SUBSET Fighters /\ w.ult \in SUBSET Int
           /\ w.todo \in SUBSET Fighters /\ w.late \in SUBSET Fighters
           /\ w.out \in [Masters -> Kennel \cup {Vacant}]
           /\ w.got \in [Seats -> SUBSET Loot] /\ w.own \in [Masters \cup Foes -> SUBSET Loot] /\ w.items \in SUBSET Loot
           /\ w.lucky \in SUBSET Lucky /\ w.pool \in SUBSET Foes /\ w.worth \in SUBSET Foes /\ w.earned \in [Foes -> Nat]
           /\ w.lost \in SUBSET Loot /\ w.fled \in SUBSET Masters
BY DEF Battles

\* Where somebody who is in the battle sits.
LEMMA PlaceIs ==
    ASSUME NEW w \in Battles, NEW f, In(w, f)
    PROVE  PlaceOf(w, f) \in Posts /\ w.entry[PlaceOf(w, f)] = f
BY DEF In, PlaceOf

\* Who sits at n has n for its place.
LEMMA PlaceAt ==
    ASSUME NEW w \in Battles, Seated(w.entry), NEW n \in Posts, w.entry[n] # Vacant
    PROVE  In(w, w.entry[n]) /\ PlaceOf(w, w.entry[n]) = n
<1>1. In(w, w.entry[n])
  BY DEF In
<1>2. PlaceOf(w, w.entry[n]) \in Posts /\ w.entry[PlaceOf(w, w.entry[n])] = w.entry[n]
  BY <1>1, PlaceIs
<1> QED BY <1>1, <1>2 DEF Seated

\* Players sit on seats, pets five places further, enemies in lairs.
LEMMA KindAt ==
    ASSUME NEW w \in Battles, Seated(w.entry), NEW n \in Posts
    PROVE  /\ w.entry[n] \in Masters => n \in Seats
           /\ w.entry[n] \in Kennel => n - 5 \in Seats /\ n - 5 + 5 = n
           /\ w.entry[n] \in Foes => n \in Lairs
           /\ n \in Lairs => w.entry[n] \in Foes \cup {Vacant}
<1>1. n \in Seats => w.entry[n] \in Masters \cup {Vacant}
  BY DEF Seated
<1>2. n \in Lairs => w.entry[n] \in Foes \cup {Vacant}
  BY DEF Seated
<1>3. n - 5 \in Seats /\ n - 5 + 5 = n => w.entry[n] \in Kennel \cup {Vacant}
  <2> DEFINE s == n - 5
  <2>1. s \in Seats => w.entry[s + 5] \in Kennel \cup {Vacant}
    BY DEF Seated
  <2> QED BY <2>1
<1>4. n \in Seats \/ n \in Lairs \/ (n - 5 \in Seats /\ n - 5 + 5 = n)
  BY PostsFacts
<1> QED BY <1>1, <1>2, <1>3, <1>4, KindsFacts

----------------------------------------------------------------------------
\* Who leaves.

Gone(w, f) == {f} \cup (IF f \in Masters THEN {w.entry[PlaceOf(w, f) + 5]} \ {Vacant} ELSE {})

Healed(w, f) == {g \in Fighters : \/ f \in Masters /\ ((g = f /\ f \in w.die) \/ (g \in Kennel /\ g[1] = f))
                                  \/ f \in Foes /\ g = f}

Ended(w, f) == IF f \in Foes THEN w.own[f] ELSE {}

\* A fighter leaves, from w to u.
Leaves(w, u, f) ==
    /\ u \in Battles
    /\ \A m \in Posts : u.entry[m] = IF w.entry[m] \in Gone(w, f) THEN Vacant ELSE w.entry[m]
    /\ u.hurt = w.hurt \ Healed(w, f) /\ u.die = w.die \ Healed(w, f) /\ u.fled = w.fled \ Healed(w, f)
    /\ \A x \in Masters \cup Foes : u.own[x] = w.own[x] \ Ended(w, f)
    /\ u.items = w.items \ Ended(w, f)
    /\ u.out = w.out /\ u.got = w.got /\ u.pool = w.pool /\ u.worth = w.worth /\ u.earned = w.earned
    /\ u.lost = w.lost /\ u.ult = w.ult /\ u.mode = w.mode /\ u.lucky = w.lucky

\* What BATTLE_Exit makes of a battle when somebody leaves.
LEMMA ExitLeaves ==
    ASSUME NEW w \in Battles, Seated(w.entry), NEW f \in Fighters, In(w, f)
    PROVE  Leaves(w, BATTLE_Exit(w, f), f)
<1> DEFINE n == PlaceOf(w, f)
           gone == {f} \cup (IF f \in Masters THEN {w.entry[n + 5]} \ {Vacant} ELSE {})
           healed == CASE f \in Masters -> ({f} \cap w.die) \cup {b \in Kennel : b[1] = f}
                       [] f \in Foes -> {f}
                       [] OTHER -> {}
           ended == IF f \in Foes THEN w.own[f] ELSE {}
           entry == [m \in Posts |-> IF w.entry[m] \in gone THEN Vacant ELSE w.entry[m]]
           own == [x \in DOMAIN w.own |-> w.own[x] \ ended]
           u == [w EXCEPT !.entry = entry, !.hurt = @ \ healed, !.die = @ \ healed, !.fled = @ \ healed,
                          !.todo = @ \ gone, !.late = @ \ gone, !.own = own, !.items = @ \ ended]
<1>1. u = BATTLE_Exit(w, f)
  BY DEF BATTLE_Exit
<1>2. gone = Gone(w, f)
  BY DEF Gone
<1>3. healed = Healed(w, f)
  <2>1. CASE f \in Masters
    BY <2>1, KindsFacts DEF Healed
  <2>2. CASE f \in Foes
    BY <2>2, KindsFacts DEF Healed
  <2>3. CASE f \notin Masters /\ f \notin Foes
    BY <2>3, KindsFacts DEF Healed
  <2> QED BY <2>1, <2>2, <2>3
<1>4. ended = Ended(w, f)
  BY DEF Ended
<1>5. /\ w.entry \in [Posts -> Fighters \cup {Vacant}] /\ w.own \in [Masters \cup Foes -> SUBSET Loot]
  BY Fields
<1>6. entry \in [Posts -> Fighters \cup {Vacant}]
  <2> HIDE DEF gone
  <2> QED BY <1>5
<1>7. own \in [Masters \cup Foes -> SUBSET Loot] /\ \A x \in Masters \cup Foes : own[x] = w.own[x] \ ended
  <2> HIDE DEF ended
  <2> QED BY <1>5
<1>8. \A m \in Posts : entry[m] = IF w.entry[m] \in gone THEN Vacant ELSE w.entry[m]
  BY <1>5
<1> HIDE DEF n, gone, healed, ended, entry, own
<1>9. /\ u.entry = entry /\ u.hurt = w.hurt \ healed /\ u.die = w.die \ healed /\ u.fled = w.fled \ healed
      /\ u.own = own /\ u.items = w.items \ ended /\ u.out = w.out /\ u.got = w.got /\ u.pool = w.pool
      /\ u.worth = w.worth /\ u.earned = w.earned /\ u.lost = w.lost /\ u.ult = w.ult /\ u.mode = w.mode /\ u.lucky = w.lucky
  BY DEF Battles
<1>10. u \in Battles
  BY <1>6, <1>7 DEF Battles
<1> HIDE DEF u
<1> QED BY <1>1, <1>2, <1>3, <1>4, <1>7, <1>8, <1>9, <1>10 DEF Leaves

\* Who is not in the battle does not leave it.
LEMMA ExitOfNone ==
    ASSUME NEW w \in Battles, NEW f, ~ In(w, f)
    PROVE  BATTLE_Exit(w, f) = w
BY DEF BATTLE_Exit

\* What an empty place leaves.
LEMMA ExitOfVacant ==
    ASSUME NEW w \in Battles
    PROVE  BATTLE_Exit(w, Vacant) = w
<1>1. CASE ~ In(w, Vacant)
  BY <1>1, ExitOfNone
<1>2. CASE In(w, Vacant)
  <2> DEFINE f == Vacant
             n == PlaceOf(w, f)
             gone == {f} \cup (IF f \in Masters THEN {w.entry[n + 5]} \ {Vacant} ELSE {})
             healed == CASE f \in Masters -> ({f} \cap w.die) \cup {b \in Kennel : b[1] = f}
                         [] f \in Foes -> {f}
                         [] OTHER -> {}
             ended == IF f \in Foes THEN w.own[f] ELSE {}
             entry == [m \in Posts |-> IF w.entry[m] \in gone THEN Vacant ELSE w.entry[m]]
             own == [x \in DOMAIN w.own |-> w.own[x] \ ended]
             u == [w EXCEPT !.entry = entry, !.hurt = @ \ healed, !.die = @ \ healed, !.fled = @ \ healed,
                            !.todo = @ \ gone, !.late = @ \ gone, !.own = own, !.items = @ \ ended]
  <2>1. u = BATTLE_Exit(w, Vacant)
    BY <1>2 DEF BATTLE_Exit
  <2>2. Vacant \notin Masters /\ Vacant \notin Foes
    BY KindsFacts DEF Fighters
  <2>3. gone = {Vacant} /\ healed = {} /\ ended = {}
    BY <2>2
  <2>4. /\ w.entry \in [Posts -> Fighters \cup {Vacant}] /\ w.own \in [Masters \cup Foes -> SUBSET Loot]
        /\ w.todo \in SUBSET Fighters /\ w.late \in SUBSET Fighters
        /\ w.hurt \in SUBSET Fighters /\ w.die \in SUBSET Fighters /\ w.fled \in SUBSET Masters
    BY Fields
  <2> HIDE DEF n, gone, healed, ended
  <2>5. entry = w.entry
    BY <2>3, <2>4
  <2>6. own = w.own
    BY <2>3, <2>4
  <2>7. w.todo \ gone = w.todo /\ w.late \ gone = w.late
    BY <2>3, <2>4, KindsFacts
  <2>8. w.hurt \ healed = w.hurt /\ w.die \ healed = w.die /\ w.fled \ healed = w.fled /\ w.items \ ended = w.items
    BY <2>3, <2>4
  <2> HIDE DEF entry, own
  <2>9. u = w
    BY <2>5, <2>6, <2>7, <2>8 DEF Battles
  <2> QED BY <2>1, <2>9
<1> QED BY <1>1, <1>2

\* Of those that stay nobody is healed when somebody leaves.
LEMMA LeavesStay ==
    ASSUME NEW w \in Battles, Seated(w.entry), WithPets(w.entry, w.out), NEW f \in Fighters, In(w, f),
           NEW u, Leaves(w, u, f)
    PROVE  /\ Gone(w, f) \subseteq Fighters /\ f \in Gone(w, f)
           /\ \A m \in Posts : u.entry[m] # f
           /\ \A m \in Posts : u.entry[m] # Vacant => u.entry[m] = w.entry[m] /\ w.entry[m] \notin Gone(w, f)
           /\ \A m \in Posts : u.entry[m] # Vacant => u.entry[m] \notin Healed(w, f)
           /\ \A p \in Masters, m \in Posts : p # f /\ w.entry[m] = p => u.entry[m] = p
           /\ f \notin Masters => Gone(w, f) = {f}
<1> DEFINE n == PlaceOf(w, f)
<1>1. n \in Posts /\ w.entry[n] = f
  BY PlaceIs
<1>2. f \in Masters => n \in Seats
  BY <1>1, KindAt
<1>3. w.entry \in [Posts -> Fighters \cup {Vacant}]
  BY Fields
<1>4. Gone(w, f) \subseteq Fighters /\ f \in Gone(w, f)
  BY <1>2, <1>3, PostsFacts, KindsFacts DEF Gone
<1>5. f # Vacant
  BY KindsFacts
<1>6. \A m \in Posts : u.entry[m] = IF w.entry[m] \in Gone(w, f) THEN Vacant ELSE w.entry[m]
  BY DEF Leaves
<1>7. \A m \in Posts : u.entry[m] # f
  BY <1>4, <1>5, <1>6
<1>8. \A m \in Posts : u.entry[m] # Vacant => u.entry[m] = w.entry[m] /\ w.entry[m] \notin Gone(w, f)
  BY <1>6
<1>9. ASSUME NEW m \in Posts, u.entry[m] # Vacant PROVE u.entry[m] \notin Healed(w, f)
  <2>1. u.entry[m] = w.entry[m] /\ w.entry[m] \notin Gone(w, f) /\ w.entry[m] # f
    BY <1>8, <1>9, <1>4
  <2>2. CASE f \notin Masters
    BY <2>1, <2>2 DEF Healed
  <2>3. CASE f \in Masters
    <3>1. SUFFICES ASSUME w.entry[m] \in Kennel, w.entry[m][1] = f PROVE FALSE
      BY <2>1, <2>3, KindsFacts DEF Healed
    <3> DEFINE s == m - 5
    <3>2. s \in Seats /\ s + 5 = m
      BY <3>1, KindAt
    <3> HIDE DEF s
    <3>3. w.entry[s] = f
      BY <3>1, <3>2, KindsFacts DEF WithPets
    <3>4. s \in Posts /\ w.entry[s] # Vacant
      BY <3>2, <3>3, <1>5, PostsFacts
    <3>5. n = s
      BY <3>3, <3>4, <1>1 DEF Seated
    <3>6. w.entry[m] \in Gone(w, f)
      BY <2>3, <3>2, <3>5, <3>1, KindsFacts DEF Gone
    <3> QED BY <2>1, <3>6
  <2> QED BY <2>2, <2>3
<1>10. ASSUME NEW p \in Masters, p # f, NEW m \in Posts, w.entry[m] = p PROVE u.entry[m] = p
  <2>1. p \notin Gone(w, f)
    <3>1. SUFFICES ASSUME f \in Masters, w.entry[n + 5] = p PROVE FALSE
      BY <1>10 DEF Gone
    <3>2. n + 5 \in Posts /\ n + 5 \notin Seats
      BY <3>1, <1>2, PostsFacts
    <3> HIDE DEF n
    <3> QED BY <3>1, <3>2, KindAt
  <2> QED BY <2>1, <1>6, <1>10
<1>11. f \notin Masters => Gone(w, f) = {f}
  BY DEF Gone
<1> QED BY <1>4, <1>7, <1>8, <1>9, <1>10, <1>11

\* What a fighter leaves is as it has to be.
LEMMA LeavesKeeps ==
    ASSUME NEW w, Sound(w), NEW f \in Fighters, In(w, f), NEW u, Leaves(w, u, f)
    PROVE  /\ u \in Battles /\ Seated(u.entry) /\ WithPets(u.entry, u.out)
           /\ Unborn(u.entry, u.pool, u.worth, u.hurt) /\ Taken(u.worth, u.earned, u.own)
           /\ Lying(u.own, u.got, u.items, u.lost, u.pool)
           /\ \A p \in Masters : p # f /\ p \in u.hurt /\ (\A m \in Posts : u.entry[m] # p) => p \in u.fled
           /\ (f \in Masters /\ f \in w.hurt => f \in w.die \cup w.fled) => Apart(u.entry, u.hurt, u.fled)
           /\ SettledBut(w, f) => Settled(u)
<1>1. /\ w \in Battles /\ Seated(w.entry) /\ WithPets(w.entry, w.out)
      /\ Unborn(w.entry, w.pool, w.worth, w.hurt) /\ Apart(w.entry, w.hurt, w.fled) /\ Taken(w.worth, w.earned, w.own)
      /\ Lying(w.own, w.got, w.items, w.lost, w.pool)
  BY DEF Sound
<1>2. /\ Gone(w, f) \subseteq Fighters /\ f \in Gone(w, f)
      /\ \A m \in Posts : u.entry[m] # f
      /\ \A m \in Posts : u.entry[m] # Vacant => u.entry[m] = w.entry[m] /\ w.entry[m] \notin Gone(w, f)
      /\ \A m \in Posts : u.entry[m] # Vacant => u.entry[m] \notin Healed(w, f)
      /\ \A p \in Masters, m \in Posts : p # f /\ w.entry[m] = p => u.entry[m] = p
  BY <1>1, LeavesStay
<1>3. u \in Battles /\ u.out = w.out /\ u.got = w.got /\ u.pool = w.pool /\ u.worth = w.worth /\ u.earned = w.earned /\ u.lost = w.lost
  BY DEF Leaves
<1>4. u.hurt = w.hurt \ Healed(w, f) /\ u.die = w.die \ Healed(w, f) /\ u.fled = w.fled \ Healed(w, f)
  BY DEF Leaves
<1>5. Seated(u.entry)
  BY <1>1, <1>2, PostsFacts DEF Seated
<1>6. WithPets(u.entry, u.out)
  <2>1. ASSUME NEW s \in Seats, u.entry[s + 5] # Vacant
        PROVE  u.entry[s + 5][1] = u.entry[s] /\ u.out[u.entry[s]] = u.entry[s + 5]
    <3> DEFINE b == w.entry[s + 5]
    <3>1. s \in Posts /\ s + 5 \in Posts
      BY PostsFacts
    <3>2. u.entry[s + 5] = b /\ b \notin Gone(w, f) /\ b # Vacant
      BY <1>2, <2>1, <3>1
    <3>3. b[1] = w.entry[s] /\ w.out[w.entry[s]] = b
      BY <1>1, <3>2 DEF WithPets
    <3>4. b \in Kennel
      BY <1>1, <3>2 DEF Seated
    <3>5. w.entry[s] \in Masters
      BY <3>3, <3>4, KindsFacts
    <3>6. w.entry[s] \notin Gone(w, f)
      <4>1. CASE w.entry[s] = f
        <5>1. PlaceOf(w, f) = s
          BY <4>1, <3>1, <3>5, <1>1, PlaceAt, KindsFacts
        <5>2. b \in Gone(w, f)
          BY <5>1, <4>1, <3>5, <3>2 DEF Gone
        <5> QED BY <5>2, <3>2
      <4>2. CASE w.entry[s] # f /\ f \notin Masters
        BY <4>2 DEF Gone
      <4>3. CASE w.entry[s] # f /\ f \in Masters
        <5> DEFINE k == PlaceOf(w, f)
        <5>1. k \in Posts /\ w.entry[k] = f
          BY <1>1, PlaceIs
        <5>2. k \in Seats
          BY <5>1, <4>3, <1>1, KindAt
        <5>3. w.entry[k + 5] \in Kennel \cup {Vacant}
          BY <5>2, <1>1 DEF Seated
        <5>4. w.entry[k + 5] # w.entry[s]
          BY <5>3, <3>5, KindsFacts DEF Fighters
        <5> QED BY <5>4, <4>3 DEF Gone
      <4> QED BY <4>1, <4>2, <4>3
    <3>7. u.entry[s] = w.entry[s]
      BY <3>6, <3>1 DEF Leaves
    <3> QED BY <3>2, <3>3, <3>7, <1>3
  <2> QED BY <2>1, <1>1, <1>3 DEF WithPets
<1>7. Unborn(u.entry, u.pool, u.worth, u.hurt)
  <2>1. \A e \in w.pool : e \in Foes
    BY <1>1, Fields
  <2>2. \A e \in w.pool, m \in Posts : u.entry[m] # e
    BY <2>1, <1>1, <1>2, KindsFacts DEF Unborn
  <2> QED BY <2>2, <1>1, <1>3, <1>4 DEF Unborn
<1>13. ASSUME NEW p \in Masters, p # f, p \in u.hurt, \A m \in Posts : u.entry[m] # p
       PROVE  p \in u.fled
  <2>1. p \in w.hurt /\ p \notin Healed(w, f)
    BY <1>4, <1>13
  <2>2. \A m \in Posts : w.entry[m] # p
    BY <1>13, <1>2
  <2> QED BY <2>1, <2>2, <1>1, <1>4 DEF Apart
<1>8. (f \in Masters /\ f \in w.hurt => f \in w.die \cup w.fled) => Apart(u.entry, u.hurt, u.fled)
  <2> SUFFICES ASSUME f \in Masters /\ f \in w.hurt => f \in w.die \cup w.fled,
                      NEW p \in Masters, p \in u.hurt, \A m \in Posts : u.entry[m] # p
               PROVE  p \in u.fled
    BY DEF Apart
  <2>1. p \in w.hurt /\ p \notin Healed(w, f)
    BY <1>4
  <2>2. CASE p = f
    <3>1. p \in Fighters /\ p \notin w.die
      BY <2>1, <2>2, KindsFacts DEF Healed
    <3> QED BY <3>1, <2>1, <2>2, <1>4
  <2>3. CASE p # f
    BY <2>3, <1>13
  <2> QED BY <2>2, <2>3
<1>9. \A x \in Masters \cup Foes : u.own[x] = w.own[x] \ Ended(w, f)
  BY DEF Leaves
<1>10. Taken(u.worth, u.earned, u.own)
  BY <1>1, <1>3, <1>9 DEF Taken
<1>11. Lying(u.own, u.got, u.items, u.lost, u.pool)
  <2>1. u.items = w.items \ Ended(w, f)
    BY DEF Leaves
  <2>2. CASE f \notin Foes
    <3>1. Ended(w, f) = {}
      BY <2>2 DEF Ended
    <3>2. \A x \in Masters \cup Foes : u.own[x] = w.own[x]
      BY <3>1, <1>9
    <3>3. u.items = w.items
      BY <3>1, <2>1
    <3>4. \A e \in w.pool : e \in Foes
      BY <1>1, Fields
    <3> QED BY <3>2, <3>3, <3>4, <1>1, <1>3 DEF Lying
  <2>3. CASE f \in Foes
    <3>1. Ended(w, f) = w.own[f] /\ f \in Masters \cup Foes
      BY <2>3 DEF Ended
    <3>2. u.own[f] = {} /\ u.items = w.items \ w.own[f]
      BY <3>1, <1>9, <2>1
    <3>3. ASSUME NEW x \in Masters \cup Foes, x # f PROVE u.own[x] = w.own[x]
      <4>1. \A i \in w.own[x] : i \notin w.own[f]
        BY <3>1, <3>3, <1>1 DEF Lying
      <4>2. w.own[x] \ w.own[f] = w.own[x]
        BY <4>1
      <4> QED BY <4>2, <3>1, <3>3, <1>9
    <3>4. \A s \in Seats : \A i \in w.got[s] : i \notin w.own[f]
      BY <3>1, <1>1 DEF Lying
    <3>5. \A e \in w.pool : e \in Foes
      BY <1>1, Fields
    <3>6. \A s \in Seats : u.got[s] \subseteq u.items
      BY <3>2, <3>4, <1>1, <1>3 DEF Lying
    <3>7. \A x \in Masters \cup Foes : u.own[x] \subseteq u.items
      BY <3>1, <3>2, <1>9, <1>1 DEF Lying
    <3>8. \A x, y \in Masters \cup Foes : \A i \in u.own[x] : i \in u.own[y] => x = y
      BY <1>9, <1>1 DEF Lying
    <3>9. \A x \in Masters \cup Foes, s \in Seats : \A i \in u.own[x] : i \notin u.got[s]
      BY <1>9, <1>1, <1>3 DEF Lying
    <3>10. ASSUME NEW i \in u.items
           PROVE  i \in u.lost \/ (\E x \in Masters \cup Foes : i \in u.own[x]) \/ \E s \in Seats : i \in u.got[s]
      <4>1. i \in w.items /\ i \notin w.own[f]
        BY <3>2
      <4>2. i \in w.lost \/ (\E x \in Masters \cup Foes : i \in w.own[x]) \/ \E s \in Seats : i \in w.got[s]
        BY <4>1, <1>1 DEF Lying
      <4>3. ASSUME NEW x \in Masters \cup Foes, i \in w.own[x] PROVE i \in u.own[x]
        BY <4>1, <4>3, <3>3
      <4> QED BY <4>2, <4>3, <1>3
    <3>11. ASSUME NEW e \in u.pool PROVE u.own[e] = {} /\ Carried[e] \cap u.items = {}
      <4>1. w.own[e] = {} /\ Carried[e] \cap w.items = {} /\ e \in Masters \cup Foes
        BY <1>3, <3>5, <1>1 DEF Lying
      <4> QED BY <4>1, <3>2, <1>9
    <3>12. \A s, t \in Seats : \A i \in u.got[s] : i \in u.got[t] => s = t
      BY <1>1, <1>3 DEF Lying
    <3> QED BY <3>6, <3>7, <3>8, <3>9, <3>10, <3>11, <3>12 DEF Lying
  <2> QED BY <2>2, <2>3
<1>12. SettledBut(w, f) => Settled(u)
  <2> SUFFICES ASSUME SettledBut(w, f), NEW m \in Posts, u.entry[m] \in u.hurt \ u.fled PROVE u.entry[m] \in u.die
    BY DEF Settled
  <2>1. u.entry[m] # Vacant
    BY <1>3, Fields, KindsFacts
  <2>2. u.entry[m] = w.entry[m] /\ u.entry[m] \notin Healed(w, f) /\ w.entry[m] # f
    BY <2>1, <1>2
  <2>3. w.entry[m] \in w.hurt \ w.fled
    BY <2>2, <1>4
  <2> QED BY <2>2, <2>3, <1>4 DEF SettledBut
<1> QED BY <1>3, <1>5, <1>6, <1>7, <1>8, <1>10, <1>11, <1>12, <1>13

\* Whoever leaves a battle in which everybody is settled, or is dead or in
\* fled, or is no player, leaves it sound.
LEMMA ExitKeeps ==
    ASSUME NEW w, Sound(w), NEW f \in Fighters \cup {Vacant},
           f \in Masters /\ f \in w.hurt /\ In(w, f) => f \in w.die \cup w.fled
    PROVE  Sound(BATTLE_Exit(w, f)) /\ (SettledBut(w, f) => Settled(BATTLE_Exit(w, f)))
<1> DEFINE u == BATTLE_Exit(w, f)
<1>1. w \in Battles /\ Seated(w.entry)
  BY DEF Sound
<1>2. CASE f = Vacant
  <2>1. SettledBut(w, f) => Settled(w)
    BY <1>1, <1>2, Fields, KindsFacts DEF Settled, SettledBut
  <2> QED BY <2>1, <1>1, <1>2, ExitOfVacant
<1>3. CASE ~ In(w, f)
  <2>1. SettledBut(w, f) => Settled(w)
    BY <1>3 DEF Settled, SettledBut, In
  <2> QED BY <2>1, <1>1, <1>3, ExitOfNone
<1>4. CASE f \in Fighters /\ In(w, f)
  <2>1. Leaves(w, u, f)
    BY <1>1, <1>4, ExitLeaves
  <2> HIDE DEF u
  <2>2. /\ u \in Battles /\ Seated(u.entry) /\ WithPets(u.entry, u.out)
        /\ Unborn(u.entry, u.pool, u.worth, u.hurt) /\ Taken(u.worth, u.earned, u.own)
        /\ Lying(u.own, u.got, u.items, u.lost, u.pool)
        /\ (f \in Masters /\ f \in w.hurt => f \in w.die \cup w.fled) => Apart(u.entry, u.hurt, u.fled)
        /\ SettledBut(w, f) => Settled(u)
    BY <2>1, <1>4, LeavesKeeps
  <2>3. Apart(u.entry, u.hurt, u.fled)
    BY <2>2, <1>4
  <2>4. Sound(u)
    BY <2>2, <2>3 DEF Sound
  <2> QED BY <2>2, <2>4 DEF u
<1> QED BY <1>2, <1>3, <1>4

\* When all is settled, anybody may leave.
LEMMA ExitSettled ==
    ASSUME NEW w, Sound(w), Settled(w), NEW f \in Fighters \cup {Vacant}
    PROVE  Sound(BATTLE_Exit(w, f)) /\ Settled(BATTLE_Exit(w, f))
<1>1. ASSUME In(w, f), f \in w.hurt PROVE f \in w.die \cup w.fled
  <2>1. PICK n \in Posts : w.entry[n] = f
    BY <1>1 DEF In
  <2> QED BY <2>1, <1>1 DEF Settled
<1>2. SettledBut(w, f)
  BY DEF Settled, SettledBut
<1> QED BY <1>1, <1>2, ExitKeeps

\* What is left of the entries when somebody leaves, and who is hurt.
LEMMA ExitEntries ==
    ASSUME NEW w, Sound(w), NEW f \in Fighters
    PROVE  LET u == BATTLE_Exit(w, f)
           IN  /\ \A m \in Posts : u.entry[m] # f
               /\ \A m \in Posts : u.entry[m] # Vacant => u.entry[m] = w.entry[m]
               /\ \A p \in Masters, m \in Posts : p # f /\ w.entry[m] = p => u.entry[m] = p
               /\ u.out = w.out /\ u.hurt \subseteq w.hurt /\ u.fled \subseteq w.fled
               /\ \A m \in Posts : u.entry[m] # Vacant /\ u.entry[m] \in w.die => u.entry[m] \in u.die
<1> DEFINE u == BATTLE_Exit(w, f)
<1>1. w \in Battles /\ Seated(w.entry) /\ WithPets(w.entry, w.out)
  BY DEF Sound
<1>2. CASE ~ In(w, f)
  <2>1. u = w
    BY <1>1, <1>2, ExitOfNone
  <2> QED BY <2>1, <1>2 DEF In
<1>3. CASE In(w, f)
  <2>1. Leaves(w, u, f)
    BY <1>1, <1>3, ExitLeaves
  <2> HIDE DEF u
  <2>2. /\ \A m \in Posts : u.entry[m] # f
        /\ \A m \in Posts : u.entry[m] # Vacant => u.entry[m] = w.entry[m]
        /\ \A p \in Masters, m \in Posts : p # f /\ w.entry[m] = p => u.entry[m] = p
        /\ \A m \in Posts : u.entry[m] # Vacant => u.entry[m] \notin Healed(w, f)
    BY <2>1, <1>1, <1>3, LeavesStay
  <2>3. u.out = w.out /\ u.hurt = w.hurt \ Healed(w, f) /\ u.die = w.die \ Healed(w, f) /\ u.fled = w.fled \ Healed(w, f)
    BY <2>1 DEF Leaves
  <2>4. u.hurt \subseteq w.hurt /\ u.fled \subseteq w.fled
    BY <2>3
  <2>5. \A m \in Posts : u.entry[m] # Vacant /\ u.entry[m] \in w.die => u.entry[m] \in u.die
    BY <2>2, <2>3
  <2>6. QED BY <2>2, <2>3, <2>4, <2>5 DEF u
<1> QED BY <1>2, <1>3

\* p has no pet in the battle.
PetGone(w, p) == \A s \in Seats : w.entry[s] = p => w.entry[s + 5] = Vacant

\* A player without a pet in the battle has another one out, or none.
LEMMA OutKeeps ==
    ASSUME NEW w, Sound(w), NEW p \in Masters, PetGone(w, p), NEW b \in {Vacant} \cup {c \in Kennel : c[1] = p}
    PROVE  /\ Sound([w EXCEPT !.out[p] = b]) /\ (Settled(w) => Settled([w EXCEPT !.out[p] = b]))
           /\ PetGone([w EXCEPT !.out[p] = b], p)
<1> DEFINE out == [w.out EXCEPT ![p] = b]
           u == [w EXCEPT !.out = out]
<1>1. u = [w EXCEPT !.out[p] = b]
  OBVIOUS
<1>2. w \in Battles /\ w.out \in [Masters -> Kennel \cup {Vacant}]
  BY Fields DEF Sound
<1>3. out \in [Masters -> Kennel \cup {Vacant}] /\ out[p] = b /\ \A q \in Masters : q # p => out[q] = w.out[q]
  BY <1>2
<1> HIDE DEF out
<1>4. /\ u \in Battles /\ u.out = out /\ u.entry = w.entry /\ u.hurt = w.hurt /\ u.fled = w.fled /\ u.die = w.die
      /\ u.pool = w.pool /\ u.worth = w.worth /\ u.earned = w.earned /\ u.own = w.own /\ u.got = w.got
      /\ u.items = w.items /\ u.lost = w.lost
  BY <1>2, <1>3 DEF Battles
<1> HIDE DEF u
<1>5. WithPets(u.entry, u.out)
  <2>1. WithPets(w.entry, w.out) /\ Seated(w.entry)
    BY DEF Sound
  <2>2. ASSUME NEW s \in Seats, w.entry[s + 5] # Vacant PROVE w.entry[s + 5][1] = w.entry[s] /\ out[w.entry[s]] = w.entry[s + 5]
    <3>1. w.entry[s + 5][1] = w.entry[s] /\ w.out[w.entry[s]] = w.entry[s + 5] /\ w.entry[s + 5] \in Kennel
      BY <2>1, <2>2 DEF WithPets, Seated
    <3>2. w.entry[s] \in Masters /\ w.entry[s] # p
      BY <3>1, <2>2, KindsFacts DEF PetGone
    <3> QED BY <3>1, <3>2, <1>3
  <2>3. \A q \in Masters : out[q] # Vacant => out[q][1] = q
    BY <2>1, <1>3 DEF WithPets
  <2> QED BY <2>2, <2>3, <1>4 DEF WithPets
<1>6. Sound(u) /\ (Settled(w) => Settled(u))
  BY <1>4, <1>5 DEF Sound, Settled
<1>7. PetGone(u, p)
  BY <1>4 DEF PetGone
<1> QED BY <1>1, <1>6, <1>7

\* The pet that a player has out leaves.
LEMMA PetExitKeeps ==
    ASSUME NEW w, Sound(w), NEW p \in Masters
    PROVE  LET u == PetDefaultExit(w, p)
           IN  /\ Sound(u) /\ (SettledBut(w, w.out[p]) => Settled(u)) /\ PetGone(u, p)
               /\ \A m \in Posts : u.entry[m] # Vacant => u.entry[m] = w.entry[m]
               /\ \A q \in Masters, m \in Posts : w.entry[m] = q => u.entry[m] = q
               /\ u.hurt \subseteq w.hurt /\ u.fled \subseteq w.fled
               /\ \A m \in Posts : u.entry[m] # Vacant /\ u.entry[m] \in w.die => u.entry[m] \in u.die
<1> DEFINE u == PetDefaultExit(w, p)
           f == w.out[p]
<1>1. w \in Battles /\ f \in Kennel \cup {Vacant} /\ WithPets(w.entry, w.out)
  BY Fields DEF Sound
<1>2. CASE f = Vacant
  <2>1. u = w
    BY <1>2 DEF PetDefaultExit
  <2>2. PetGone(w, p)
    BY <1>1, <1>2 DEF PetGone, WithPets
  <2>4. SettledBut(w, f) => Settled(w)
    BY <1>1, <1>2, Fields, KindsFacts DEF Settled, SettledBut
  <2> HIDE DEF u
  <2>3. QED BY <2>1, <2>2, <2>4 DEF u
<1>3. CASE f # Vacant
  <2>1. u = BATTLE_Exit(w, f) /\ f \in Kennel /\ f \in Fighters /\ f \notin Masters
    BY <1>1, <1>3, KindsFacts DEF PetDefaultExit
  <2> HIDE DEF u
  <2>2. Sound(u) /\ (SettledBut(w, f) => Settled(u))
    BY <2>1, ExitKeeps
  <2>3. /\ \A m \in Posts : u.entry[m] # f
        /\ \A m \in Posts : u.entry[m] # Vacant => u.entry[m] = w.entry[m]
        /\ \A q \in Masters, m \in Posts : q # f /\ w.entry[m] = q => u.entry[m] = q
        /\ u.out = w.out /\ u.hurt \subseteq w.hurt /\ u.fled \subseteq w.fled
        /\ \A m \in Posts : u.entry[m] # Vacant /\ u.entry[m] \in w.die => u.entry[m] \in u.die
    BY <2>1, ExitEntries
  <2>4. PetGone(u, p)
    <3> SUFFICES ASSUME NEW s \in Seats, u.entry[s] = p, u.entry[s + 5] # Vacant PROVE FALSE
      BY DEF PetGone
    <3>1. u.out[p] = u.entry[s + 5]
      BY <2>2 DEF Sound, WithPets
    <3>2. s + 5 \in Posts
      BY PostsFacts
    <3> QED BY <3>1, <3>2, <2>3
  <2>5. QED BY <2>1, <2>2, <2>3, <2>4 DEF u
<1> QED BY <1>2, <1>3

\* It is called in, and the player has none out.
LEMMA PetInKeeps ==
    ASSUME NEW w, Sound(w), NEW p \in Masters
    PROVE  LET u == PetIn(w, p)
           IN  /\ Sound(u) /\ (SettledBut(w, w.out[p]) => Settled(u)) /\ PetGone(u, p)
               /\ \A m \in Posts : u.entry[m] # Vacant => u.entry[m] = w.entry[m]
               /\ \A q \in Masters, m \in Posts : w.entry[m] = q => u.entry[m] = q
               /\ u.hurt \subseteq w.hurt
<1> DEFINE v == PetDefaultExit(w, p)
           u == [v EXCEPT !.out[p] = Vacant]
<1>1. /\ Sound(v) /\ (SettledBut(w, w.out[p]) => Settled(v)) /\ PetGone(v, p)
      /\ \A m \in Posts : v.entry[m] # Vacant => v.entry[m] = w.entry[m]
      /\ \A q \in Masters, m \in Posts : w.entry[m] = q => v.entry[m] = q
      /\ v.hurt \subseteq w.hurt
  BY PetExitKeeps
<1> HIDE DEF v
<1>2. Sound(u) /\ (Settled(v) => Settled(u)) /\ PetGone(u, p)
  BY <1>1, OutKeeps
<1>3. u.entry = v.entry /\ u.hurt = v.hurt
  BY <1>1 DEF Sound, Battles
<1>4. u = PetIn(w, p)
  BY DEF PetIn, v
<1> HIDE DEF u
<1> QED BY <1>1, <1>2, <1>3, <1>4

\* Somebody goes for good.
LEMMA GoesKeeps ==
    ASSUME NEW w, Sound(w), NEW f \in Fighters,
           f \in Masters /\ f \in w.hurt /\ In(w, f) => f \in w.die \cup w.fled
    PROVE  Sound(Goes(w, f)) /\ (Settled(w) \/ (In(w, f) /\ SettledBut(w, f)) => Settled(Goes(w, f)))
<1>1. CASE f \in Kennel
  <2> DEFINE p == f[1]
  <2>1. p \in Masters /\ Goes(w, f) = PetIn(w, p)
    BY <1>1, KindsFacts DEF Goes
  <2>2. Settled(w) => SettledBut(w, w.out[p])
    BY DEF Settled, SettledBut
  <2>3. ASSUME In(w, f) PROVE w.out[p] = f
    <3>1. PICK n \in Posts : w.entry[n] = f
      BY <2>3 DEF In
    <3> DEFINE s == n - 5
    <3>2. s \in Seats /\ s + 5 = n /\ f # Vacant
      BY <3>1, <1>1, KindAt, KindsFacts DEF Sound
    <3> HIDE DEF s
    <3>3. f[1] = w.entry[s] /\ w.out[w.entry[s]] = f
      BY <3>1, <3>2 DEF Sound, WithPets
    <3> QED BY <3>3
  <2> HIDE DEF p
  <2> QED BY <2>1, <2>2, <2>3, PetInKeeps
<1>2. CASE f \notin Kennel
  <2>1. Goes(w, f) = BATTLE_Exit(w, f)
    BY <1>2 DEF Goes
  <2>2. Settled(w) => SettledBut(w, f)
    BY DEF Settled, SettledBut
  <2> QED BY <2>1, <2>2, ExitKeeps
<1> QED BY <1>1, <1>2

\* A player who goes though it may have just fallen: it is one of fled.
LEMMA PlayerGoes ==
    ASSUME NEW w, Sound(w), NEW f \in Masters, In(w, f), SettledBut(w, f)
    PROVE  LET v == BATTLE_Exit(w, f)
               u == [v EXCEPT !.fled = @ \cup (v.hurt \cap Masters \cap {f})]
           IN  Sound(u) /\ Settled(u)
<1> DEFINE v == BATTLE_Exit(w, f)
           more == v.hurt \cap Masters \cap {f}
           u == [v EXCEPT !.fled = @ \cup more]
<1>1. w \in Battles /\ Seated(w.entry) /\ f \in Fighters
  BY KindsFacts DEF Sound
<1>2. Leaves(w, v, f)
  BY <1>1, ExitLeaves
<1> HIDE DEF v
<1>3. /\ v \in Battles /\ Seated(v.entry) /\ WithPets(v.entry, v.out)
      /\ Unborn(v.entry, v.pool, v.worth, v.hurt) /\ Taken(v.worth, v.earned, v.own)
      /\ Lying(v.own, v.got, v.items, v.lost, v.pool)
      /\ \A p \in Masters : p # f /\ p \in v.hurt /\ (\A m \in Posts : v.entry[m] # p) => p \in v.fled
      /\ Settled(v)
  BY <1>1, <1>2, LeavesKeeps
<1>4. more \subseteq Masters /\ (f \in v.hurt => f \in more)
  OBVIOUS
<1> HIDE DEF more
<1>5. /\ u \in Battles /\ u.hurt = v.hurt /\ u.die = v.die /\ u.fled = v.fled \cup more
      /\ u.entry = v.entry /\ u.out = v.out /\ u.got = v.got /\ u.own = v.own /\ u.items = v.items
      /\ u.pool = v.pool /\ u.worth = v.worth /\ u.earned = v.earned /\ u.lost = v.lost
  BY <1>3, <1>4 DEF Battles
<1> HIDE DEF u
<1>6. Apart(u.entry, u.hurt, u.fled)
  BY <1>3, <1>4, <1>5 DEF Apart
<1>7. Settled(u)
  BY <1>3, <1>5 DEF Settled
<1>8. Sound(u)
  BY <1>3, <1>5, <1>6 DEF Sound
<1> QED BY <1>7, <1>8 DEF u, v, more

----------------------------------------------------------------------------
\* Who is hurt, dead or revived.

\* u is w but for wounds of those in the battle, and for who has still to act.
Wounded(w, u) ==
    /\ u \in Battles
    /\ u.entry = w.entry /\ u.out = w.out /\ u.got = w.got /\ u.own = w.own /\ u.items = w.items
    /\ u.pool = w.pool /\ u.worth = w.worth /\ u.earned = w.earned /\ u.lost = w.lost /\ u.fled = w.fled
    /\ \A g \in u.hurt : g \in w.hurt \/ \E n \in Posts : w.entry[n] = g

\* Wounds keep what is sound.
LEMMA WoundsKeep ==
    ASSUME NEW w, Sound(w), NEW u, Wounded(w, u)
    PROVE  Sound(u)
<1>1. Apart(u.entry, u.hurt, u.fled)
  BY DEF Sound, Wounded, Apart
<1>2. Unborn(u.entry, u.pool, u.worth, u.hurt)
  BY DEF Sound, Wounded, Unborn
<1> QED BY <1>1, <1>2 DEF Sound, Wounded

\* Those at the places X
At(w, X) == {w.entry[x] : x \in X}

\* Some are struck.
LEMMA StruckKeeps ==
    ASSUME NEW w, Sound(w), NEW X, X \subseteq Posts, \A x \in X : w.entry[x] # Vacant, NEW U, U \subseteq Int
    PROVE  LET u == Struck(w, X, U)
           IN  /\ Sound(u) /\ u.entry = w.entry /\ u.die = w.die /\ u.fled = w.fled
               /\ u.hurt = w.hurt \cup At(w, X)
<1> DEFINE hit == {w.entry[x] : x \in X}
           u == [w EXCEPT !.hurt = @ \cup hit, !.ult = @ \cup U]
<1>1. u = Struck(w, X, U)
  BY DEF Struck
<1>2. w \in Battles /\ w.entry \in [Posts -> Fighters \cup {Vacant}]
  BY Fields DEF Sound
<1>3. hit \subseteq Fighters /\ \A g \in hit : \E n \in Posts : w.entry[n] = g
  BY <1>2
<1> HIDE DEF hit
<1>4. /\ u \in Battles /\ u.hurt = w.hurt \cup hit /\ u.die = w.die
      /\ u.entry = w.entry /\ u.out = w.out /\ u.got = w.got /\ u.own = w.own /\ u.items = w.items
      /\ u.pool = w.pool /\ u.worth = w.worth /\ u.earned = w.earned /\ u.lost = w.lost /\ u.fled = w.fled
  BY <1>2, <1>3 DEF Battles
<1> HIDE DEF u
<1>5. Wounded(w, u)
  BY <1>3, <1>4 DEF Wounded
<1>6. Sound(u)
  BY <1>5, WoundsKeep
<1>7. u.hurt = w.hurt \cup At(w, X)
  BY <1>4 DEF hit, At
<1> QED BY <1>1, <1>4, <1>6, <1>7

\* One counts as dead.
LEMMA DeadKeeps ==
    ASSUME NEW w, Sound(w), NEW f \in Fighters
    PROVE  LET u == [w EXCEPT !.die = @ \cup {f}]
           IN  /\ Sound(u) /\ u.entry = w.entry /\ u.hurt = w.hurt /\ u.fled = w.fled /\ u.ult = w.ult
               /\ u.out = w.out /\ u.die = w.die \cup {f}
<1> DEFINE u == [w EXCEPT !.die = @ \cup {f}]
<1>1. w \in Battles
  BY DEF Sound
<1>2. /\ u \in Battles /\ u.hurt = w.hurt /\ u.die = w.die \cup {f} /\ u.ult = w.ult
      /\ u.entry = w.entry /\ u.out = w.out /\ u.got = w.got /\ u.own = w.own /\ u.items = w.items
      /\ u.pool = w.pool /\ u.worth = w.worth /\ u.earned = w.earned /\ u.lost = w.lost /\ u.fled = w.fled
  BY <1>1 DEF Battles
<1> HIDE DEF u
<1>3. Wounded(w, u)
  BY <1>2 DEF Wounded
<1>4. Sound(u)
  BY <1>3, WoundsKeep
<1> QED BY <1>2, <1>4 DEF u

\* Some are on their feet again.
LEMMA HealedKeeps ==
    ASSUME NEW w, Sound(w), NEW X, NEW L, L \subseteq Lucky
    PROVE  LET u == [w EXCEPT !.hurt = @ \ X, !.die = @ \ X, !.lucky = @ \cap L]
           IN  Sound(u) /\ u.entry = w.entry /\ (Settled(w) => Settled(u))
<1> DEFINE u == [w EXCEPT !.hurt = @ \ X, !.die = @ \ X, !.lucky = @ \cap L]
<1>1. w \in Battles
  BY DEF Sound
<1>2. /\ u \in Battles /\ u.hurt = w.hurt \ X /\ u.die = w.die \ X
      /\ u.entry = w.entry /\ u.out = w.out /\ u.got = w.got /\ u.own = w.own /\ u.items = w.items
      /\ u.pool = w.pool /\ u.worth = w.worth /\ u.earned = w.earned /\ u.lost = w.lost /\ u.fled = w.fled
  BY <1>1 DEF Battles
<1> HIDE DEF u
<1>3. Wounded(w, u)
  BY <1>2 DEF Wounded
<1>4. Sound(u)
  BY <1>3, WoundsKeep
<1>5. Settled(w) => Settled(u)
  BY <1>2 DEF Settled
<1> QED BY <1>2, <1>4, <1>5 DEF u

\* The dead who wear an item that revives them are revived.
LEMMA RelifeKeeps ==
    ASSUME NEW w, Sound(w)
    PROVE  Sound(Relife(w)) /\ Relife(w).entry = w.entry /\ (Settled(w) => Settled(Relife(w)))
<1> DEFINE up == {p \in w.lucky : In(w, p) /\ p \in w.die /\ PlaceOf(w, p) \notin w.ult}
           L == Lucky \ up
           u == [w EXCEPT !.hurt = @ \ up, !.die = @ \ up, !.lucky = @ \cap L]
<1>1. Relife(w) = [w EXCEPT !.hurt = @ \ up, !.die = @ \ up, !.lucky = @ \ up]
  BY DEF Relife
<1> HIDE DEF up
<1>2. w \in Battles /\ w.lucky \in SUBSET Lucky
  BY Fields DEF Sound
<1>3. w.lucky \cap L = w.lucky \ up
  BY <1>2
<1>4. Relife(w) = u
  BY <1>1, <1>3
<1>5. L \subseteq Lucky
  OBVIOUS
<1> HIDE DEF L
<1>6. Sound(u) /\ u.entry = w.entry /\ (Settled(w) => Settled(u))
  BY <1>5, HealedKeeps
<1> HIDE DEF u
<1> QED BY <1>4, <1>6

\* Who has acted acts no more.
LEMMA ActedKeeps ==
    ASSUME NEW w, Sound(w), Settled(w), NEW X
    PROVE  Sound(Acted(w, X)) /\ Settled(Acted(w, X))
<1> DEFINE u == [w EXCEPT !.todo = @ \ X]
<1>1. w \in Battles
  BY DEF Sound
<1>2. /\ u \in Battles /\ u.hurt = w.hurt /\ u.die = w.die
      /\ u.entry = w.entry /\ u.out = w.out /\ u.got = w.got /\ u.own = w.own /\ u.items = w.items
      /\ u.pool = w.pool /\ u.worth = w.worth /\ u.earned = w.earned /\ u.lost = w.lost /\ u.fled = w.fled
  BY <1>1 DEF Battles
<1>3. u = Acted(w, X)
  BY DEF Acted
<1> HIDE DEF u
<1>4. Wounded(w, u)
  BY <1>2 DEF Wounded
<1>5. Sound(u)
  BY <1>4, WoundsKeep
<1>6. Settled(u)
  BY <1>2 DEF Settled
<1> QED BY <1>3, <1>5, <1>6

----------------------------------------------------------------------------
\* What those who have fallen leave to others.

\* The items of e go to seats, one each, or are ended.
LEMMA SharesAre ==
    ASSUME NEW w \in Battles, Lying(w.own, w.got, w.items, w.lost, w.pool), NEW e \in Foes, NEW S, NEW g \in Shares(w, e, S)
    PROVE  /\ g \in [Seats -> SUBSET Loot]
           /\ \A s \in Seats : \A i \in g[s] : i \in w.got[s] \/ i \in w.own[e]
           /\ \A s, t \in Seats : \A i \in g[s] : i \in g[t] => s = t
<1> DEFINE Share(to, s) == w.got[s] \cup {i \in w.own[e] : to[i] = s}
<1>1. PICK to \in [w.own[e] -> S] : g \in [Seats -> SUBSET UNION {Share(to, s) : s \in Seats}]
                                    /\ \A s \in Seats : g[s] \in Fitting(Share(to, s), LootMax)
  BY DEF Shares
<1>2. \A s \in Seats : g[s] \subseteq Share(to, s)
  BY <1>1 DEF Fitting
<1>3. w.got \in [Seats -> SUBSET Loot] /\ w.own[e] \subseteq Loot
  BY Fields
<1>4. g \in [Seats -> SUBSET Loot]
  <2>1. \A s \in Seats : Share(to, s) \subseteq Loot
    BY <1>3
  <2>2. \A s \in Seats : g[s] \subseteq Loot
    BY <2>1, <1>2
  <2> HIDE DEF Share
  <2> QED BY <2>2, <1>1
<1>5. \A s \in Seats : \A i \in g[s] : i \in w.got[s] \/ (i \in w.own[e] /\ to[i] = s)
  BY <1>2
<1>6. ASSUME NEW s \in Seats, NEW t \in Seats, NEW i \in g[s], i \in g[t] PROVE s = t
  <2>1. e \in Masters \cup Foes
    OBVIOUS
  <2>2. \A r \in Seats : i \in w.own[e] => i \notin w.got[r]
    BY <2>1 DEF Lying
  <2>3. i \in w.got[s] /\ i \in w.got[t] => s = t
    BY DEF Lying
  <2> QED BY <2>2, <2>3, <1>5, <1>6
<1> QED BY <1>4, <1>5, <1>6

\* An enemy is robbed, and each item is in one place or ended.
LEMMA RobKeeps ==
    ASSUME NEW w, Sound(w), NEW e \in Foes, NEW S, NEW u \in Rob(w, e, S)
    PROVE  /\ Sound(u) /\ u.own[e] = {}
           /\ u.entry = w.entry /\ u.hurt = w.hurt /\ u.fled = w.fled /\ u.die = w.die /\ u.ult = w.ult /\ u.out = w.out
<1>1. /\ w \in Battles /\ Taken(w.worth, w.earned, w.own)
      /\ Lying(w.own, w.got, w.items, w.lost, w.pool)
  BY DEF Sound
<1> DEFINE own == [w.own EXCEPT ![e] = {}]
           rest(g) == w.items \ ((w.own[e] \cup UNION {w.got[s] : s \in Seats}) \ UNION {g[s] : s \in Seats})
<1>2. PICK g \in Shares(w, e, S) : u = [w EXCEPT !.own[e] = {}, !.got = g, !.items = rest(g)]
  BY DEF Rob
<1> DEFINE items == rest(g)
<1>3. /\ g \in [Seats -> SUBSET Loot]
      /\ \A s \in Seats : \A i \in g[s] : i \in w.got[s] \/ i \in w.own[e]
      /\ \A s, t \in Seats : \A i \in g[s] : i \in g[t] => s = t
  BY <1>1, SharesAre
<1>4. w.own \in [Masters \cup Foes -> SUBSET Loot] /\ w.got \in [Seats -> SUBSET Loot] /\ w.items \subseteq Loot /\ w.pool \subseteq Foes
  BY <1>1, Fields
<1>5. own \in [Masters \cup Foes -> SUBSET Loot] /\ own[e] = {} /\ \A x \in Masters \cup Foes : x # e => own[x] = w.own[x]
  BY <1>4
<1>6. /\ items \subseteq w.items
      /\ \A i \in w.items : i \notin w.own[e] /\ (\A s \in Seats : i \notin w.got[s]) => i \in items
      /\ \A i \in w.items : (\E s \in Seats : i \in g[s]) => i \in items
      /\ \A i \in items : (i \in w.own[e] \/ \E s \in Seats : i \in w.got[s]) => \E s \in Seats : i \in g[s]
  OBVIOUS
<1>7. u = [w EXCEPT !.own = own, !.got = g, !.items = items]
  BY <1>2, <1>4
<1> HIDE DEF own, items
<1>8. /\ u \in Battles /\ u.hurt = w.hurt /\ u.die = w.die /\ u.ult = w.ult
      /\ u.entry = w.entry /\ u.out = w.out /\ u.got = g /\ u.own = own /\ u.items = items
      /\ u.pool = w.pool /\ u.worth = w.worth /\ u.earned = w.earned /\ u.lost = w.lost /\ u.fled = w.fled
  <2>1. items \in SUBSET Loot
    BY <1>4, <1>6
  <2> QED BY <2>1, <1>1, <1>3, <1>5, <1>7 DEF Battles
<1>9. Taken(u.worth, u.earned, u.own)
  BY <1>1, <1>5, <1>8 DEF Taken
<1>10. Lying(own, g, items, w.lost, w.pool)
  <2>1. \A x, y \in Masters \cup Foes : \A i \in own[x] : i \in own[y] => x = y
    BY <1>1, <1>5 DEF Lying
  <2>2. \A x \in Masters \cup Foes, s \in Seats : \A i \in own[x] : i \notin g[s]
    <3> SUFFICES ASSUME NEW x \in Masters \cup Foes, NEW s \in Seats, NEW i \in own[x], i \in g[s] PROVE FALSE
      OBVIOUS
    <3>1. x # e /\ i \in w.own[x]
      BY <1>5
    <3>2. i \in w.got[s] \/ i \in w.own[e]
      BY <1>3
    <3>3. i \notin w.got[s]
      BY <3>1, <1>1 DEF Lying
    <3>4. i \in w.own[e] => x = e
      BY <3>1, <1>1 DEF Lying
    <3> QED BY <3>1, <3>2, <3>3, <3>4
  <2>3. \A x \in Masters \cup Foes : own[x] \subseteq items
    <3> SUFFICES ASSUME NEW x \in Masters \cup Foes, NEW i \in own[x] PROVE i \in items
      OBVIOUS
    <3>1. x # e /\ i \in w.own[x]
      BY <1>5
    <3>2. i \in w.items /\ \A s \in Seats : i \notin w.got[s]
      BY <3>1, <1>1 DEF Lying
    <3>3. i \notin w.own[e]
      BY <3>1, <1>1 DEF Lying
    <3> QED BY <3>2, <3>3, <1>6
  <2>4. \A s \in Seats : g[s] \subseteq items
    <3> SUFFICES ASSUME NEW s \in Seats, NEW i \in g[s] PROVE i \in items
      OBVIOUS
    <3>1. i \in w.items
      BY <1>3, <1>1 DEF Lying
    <3> QED BY <3>1, <1>6
  <2>5. \A i \in items : i \in w.lost \/ (\E x \in Masters \cup Foes : i \in own[x]) \/ \E s \in Seats : i \in g[s]
    <3> SUFFICES ASSUME NEW i \in items, i \notin w.lost, \A s \in Seats : i \notin g[s]
                 PROVE  \E x \in Masters \cup Foes : i \in own[x]
      OBVIOUS
    <3>1. i \in w.items /\ i \notin w.own[e] /\ \A s \in Seats : i \notin w.got[s]
      BY <1>6
    <3>2. PICK x \in Masters \cup Foes : i \in w.own[x]
      BY <3>1, <1>1 DEF Lying
    <3> QED BY <3>1, <3>2, <1>5
  <2>6. \A c \in w.pool : own[c] = {} /\ Carried[c] \cap items = {}
    <3> SUFFICES ASSUME NEW c \in w.pool PROVE own[c] = {} /\ Carried[c] \cap items = {}
      OBVIOUS
    <3>1. c \in Masters \cup Foes /\ w.own[c] = {} /\ Carried[c] \cap w.items = {}
      BY <1>1, <1>4 DEF Lying
    <3> QED BY <3>1, <1>5, <1>6
  <2> QED BY <2>1, <2>2, <2>3, <2>4, <2>5, <2>6, <1>3 DEF Lying
<1>11. Sound(u)
  BY <1>8, <1>9, <1>10 DEF Sound
<1> QED BY <1>5, <1>8, <1>11

\* The experience of an enemy that has been robbed is taken.
LEMMA TakeExpKeeps ==
    ASSUME NEW w, Sound(w), NEW e \in Foes, w.own[e] = {}, \E n \in Posts : w.entry[n] = e
    PROVE  LET u == TakeExp(w, e)
           IN  /\ Sound(u)
               /\ u.entry = w.entry /\ u.hurt = w.hurt /\ u.fled = w.fled /\ u.die = w.die /\ u.ult = w.ult /\ u.out = w.out
<1> DEFINE k == IF e \in w.worth THEN w.earned[e] + 1 ELSE w.earned[e]
           earned == [w.earned EXCEPT ![e] = k]
           worth == w.worth \ {e}
           u == [w EXCEPT !.earned = earned, !.worth = worth]
<1>1. /\ w \in Battles /\ Taken(w.worth, w.earned, w.own) /\ Unborn(w.entry, w.pool, w.worth, w.hurt)
  BY DEF Sound
<1>2. w.earned \in [Foes -> Nat] /\ w.worth \subseteq Foes
  BY <1>1, Fields
<1>3. k = 1
  BY <1>1, <1>2 DEF Taken
<1>4. u = TakeExp(w, e)
  BY <1>2 DEF TakeExp
<1> HIDE DEF k
<1>5. earned \in [Foes -> Nat] /\ earned[e] = 1 /\ \A x \in Foes : x # e => earned[x] = w.earned[x]
  BY <1>2, <1>3
<1>6. worth \subseteq Foes
  BY <1>2
<1>7. Taken(worth, earned, w.own)
  BY <1>1, <1>5 DEF Taken
<1>8. Unborn(w.entry, w.pool, worth, w.hurt)
  BY <1>1 DEF Unborn
<1> HIDE DEF earned, worth
<1>9. /\ u \in Battles /\ u.hurt = w.hurt /\ u.die = w.die /\ u.ult = w.ult
      /\ u.entry = w.entry /\ u.out = w.out /\ u.got = w.got /\ u.own = w.own /\ u.items = w.items
      /\ u.pool = w.pool /\ u.worth = worth /\ u.earned = earned /\ u.lost = w.lost /\ u.fled = w.fled
  BY <1>1, <1>5, <1>6 DEF Battles
<1> HIDE DEF u
<1>10. Sound(u)
  BY <1>7, <1>8, <1>9 DEF Sound
<1> QED BY <1>4, <1>9, <1>10

Calling(w, p, b) == [w EXCEPT !.out[p] = b]

\* It does not matter which pet is out when somebody leaves.
LEMMA ExitAndOut ==
    ASSUME NEW w \in Battles, NEW f, NEW p, NEW b
    PROVE  BATTLE_Exit(Calling(w, p, b), f) = Calling(BATTLE_Exit(w, f), p, b)
<1> USE DEF Calling
<1> DEFINE v == [w EXCEPT !.out[p] = b]
<1>1. v.entry = w.entry /\ v.own = w.own /\ v.die = w.die
  BY DEF Battles
<1>2. (In(v, f) <=> In(w, f)) /\ PlaceOf(v, f) = PlaceOf(w, f)
  BY <1>1 DEF In, PlaceOf
<1>3. CASE ~ In(w, f)
  <2>1. BATTLE_Exit(v, f) = v /\ BATTLE_Exit(w, f) = w
    BY <1>2, <1>3 DEF BATTLE_Exit
  <2> QED BY <2>1
<1>4. CASE In(w, f)
  <2> DEFINE n == PlaceOf(w, f)
             gone == {f} \cup (IF f \in Masters THEN {w.entry[n + 5]} \ {Vacant} ELSE {})
             healed == CASE f \in Masters -> ({f} \cap w.die) \cup {c \in Kennel : c[1] = f}
                         [] f \in Foes -> {f}
                         [] OTHER -> {}
             ended == IF f \in Foes THEN w.own[f] ELSE {}
             entry == [m \in Posts |-> IF w.entry[m] \in gone THEN Vacant ELSE w.entry[m]]
             own == [x \in DOMAIN w.own |-> w.own[x] \ ended]
             left(z) == [z EXCEPT !.entry = entry, !.hurt = @ \ healed, !.die = @ \ healed, !.fled = @ \ healed,
                                  !.todo = @ \ gone, !.late = @ \ gone, !.own = own, !.items = @ \ ended]
  <2>1. BATTLE_Exit(w, f) = left(w)
    BY <1>4 DEF BATTLE_Exit
  <2>2. BATTLE_Exit(v, f) = left(v)
    <3> HIDE DEF v
    <3> QED BY <1>1, <1>2, <1>4 DEF BATTLE_Exit
  <2> HIDE DEF n, gone, healed, ended, entry, own
  <2>3. left(v) = [left(w) EXCEPT !.out[p] = b]
    BY DEF Battles
  <2> QED BY <2>1, <2>2, <2>3
<1> QED BY <1>3, <1>4

\* A pet that leaves leaves its master without one.
LEMMA PetLeaves ==
    ASSUME NEW w, Sound(w), NEW n \in Posts, w.entry[n] \in Kennel
    PROVE  /\ PetGone(BATTLE_Exit(w, w.entry[n]), w.entry[n][1])
           /\ w.entry[n - 5] = w.entry[n][1]
<1> DEFINE f == w.entry[n]
           p == f[1]
           u == BATTLE_Exit(w, f)
           k == n - 5
<1>1. w \in Battles /\ Seated(w.entry) /\ WithPets(w.entry, w.out)
  BY DEF Sound
<1>2. f \in Fighters /\ p \in Masters /\ f \notin Masters /\ f # Vacant
  BY KindsFacts
<1>3. k \in Seats /\ k + 5 = n
  BY <1>1, KindAt
<1>4. w.entry[k] = p
  <2> HIDE DEF k
  <2> QED BY <1>1, <1>2, <1>3 DEF WithPets
<1>5. /\ \A m \in Posts : u.entry[m] # f
      /\ \A m \in Posts : u.entry[m] # Vacant => u.entry[m] = w.entry[m]
  BY <1>2, ExitEntries
<1> HIDE DEF u, k
<1>6. ASSUME NEW s \in Seats, u.entry[s] = p PROVE u.entry[s + 5] = Vacant
  <2>1. s \in Posts /\ s + 5 \in Posts /\ k \in Posts
    BY <1>3, PostsFacts
  <2>2. p # Vacant
    BY <1>2, KindsFacts
  <2>3. w.entry[s] = p
    BY <1>5, <1>6, <2>1, <2>2
  <2>4. s = k
    BY <1>1, <1>4, <2>1, <2>2, <2>3 DEF Seated
  <2>5. s + 5 = n
    BY <2>4, <1>3
  <2> QED BY <2>5, <1>5
<1>7. PetGone(u, p)
  BY <1>6 DEF PetGone
<1> QED BY <1>4, <1>7 DEF u, k

\* From w to u some have left, and none of those that stay came back to life.
Thinner(w, u) ==
    /\ \A m \in Posts : u.entry[m] # Vacant => u.entry[m] = w.entry[m]
    /\ u.hurt \subseteq w.hurt
    /\ \A m \in Posts : u.entry[m] # Vacant /\ u.entry[m] \in w.die => u.entry[m] \in u.die

\* From one leaving to the next.
LEMMA ThinnerStill ==
    ASSUME NEW w, NEW v, NEW u, Thinner(w, v), Thinner(v, u)
    PROVE  Thinner(w, u)
BY DEF Thinner

\* A dead one goes after a blow that was too hard.
LEMMA ExtraKeeps ==
    ASSUME NEW w, Sound(w), NEW n \in Posts, w.entry[n] # Vacant, w.entry[n] \in w.die
    PROVE  Sound(UltimateExtra(w, w.entry[n])) /\ Thinner(w, UltimateExtra(w, w.entry[n]))
<1> DEFINE f == w.entry[n]
           u == UltimateExtra(w, f)
<1>1. w \in Battles /\ f \in Fighters
  BY Fields DEF Sound
<1>2. CASE f \in Masters
  <2> DEFINE v == PetDefaultExit(w, f)
  <2>1. /\ Sound(v)
        /\ \A m \in Posts : v.entry[m] # Vacant => v.entry[m] = w.entry[m]
        /\ v.hurt \subseteq w.hurt
        /\ \A m \in Posts : v.entry[m] # Vacant /\ v.entry[m] \in w.die => v.entry[m] \in v.die
    BY <1>2, PetExitKeeps
  <2>2. Thinner(w, v)
    BY <2>1 DEF Thinner
  <2>3. In(v, f) => f \in v.die
    BY <2>1 DEF In
  <2>4. u = BATTLE_Exit(v, f)
    BY <1>2, KindsFacts DEF UltimateExtra
  <2> HIDE DEF v
  <2>5. Sound(u)
    BY <1>1, <2>1, <2>3, <2>4, ExitKeeps
  <2>6. Thinner(v, u)
    <3>1. /\ \A m \in Posts : u.entry[m] # Vacant => u.entry[m] = v.entry[m]
          /\ u.hurt \subseteq v.hurt
          /\ \A m \in Posts : u.entry[m] # Vacant /\ u.entry[m] \in v.die => u.entry[m] \in u.die
      BY <1>1, <2>1, <2>4, ExitEntries
    <3> QED BY <3>1 DEF Thinner
  <2> QED BY <2>2, <2>5, <2>6, ThinnerStill
<1>3. CASE f \notin Masters
  <2> DEFINE v == BATTLE_Exit(w, f)
  <2>1. Sound(v)
    BY <1>1, <1>3, ExitKeeps
  <2>2. Thinner(w, v)
    <3>1. /\ \A m \in Posts : v.entry[m] # Vacant => v.entry[m] = w.entry[m]
          /\ v.hurt \subseteq w.hurt
          /\ \A m \in Posts : v.entry[m] # Vacant /\ v.entry[m] \in w.die => v.entry[m] \in v.die
      BY <1>1, ExitEntries
    <3> QED BY <3>1 DEF Thinner
  <2>3. CASE f \notin Kennel
    <3>1. u = v
      BY <1>3, <2>3 DEF UltimateExtra
    <3> QED BY <2>1, <2>2, <3>1
  <2>4. CASE f \in Kennel
    <3> DEFINE p == f[1]
               x == [v EXCEPT !.out[p] = Vacant]
    <3>1. p \in Masters /\ PetGone(v, p)
      BY <2>4, PetLeaves, KindsFacts
    <3>2. u = BATTLE_Exit([w EXCEPT !.out[p] = Vacant], f)
      BY <1>3, <2>4 DEF UltimateExtra
    <3>3. u = x
      <4>1. u = BATTLE_Exit(Calling(w, p, Vacant), f)
        BY <3>2 DEF Calling
      <4>2. BATTLE_Exit(Calling(w, p, Vacant), f) = Calling(BATTLE_Exit(w, f), p, Vacant)
        BY <1>1, ExitAndOut
      <4> HIDE DEF u, p, f
      <4> QED BY <4>1, <4>2 DEF Calling
    <3> HIDE DEF v
    <3>4. Sound(x)
      BY <3>1, <2>1, OutKeeps
    <3>5. x.entry = v.entry /\ x.hurt = v.hurt /\ x.die = v.die
      BY <2>1 DEF Sound, Battles
    <3> HIDE DEF x
    <3>6. Thinner(w, x)
      BY <2>2, <3>5 DEF Thinner
    <3> QED BY <3>3, <3>4, <3>6
  <2> QED BY <2>3, <2>4
<1> QED BY <1>2, <1>3

\* One who has fallen counts as dead from then on.
LEMMA FallKeeps ==
    ASSUME NEW w, Sound(w), NEW n \in Posts, NEW S, NEW u \in Fall(w, n, S)
    PROVE  /\ Sound(u) /\ Thinner(w, u)
           /\ u.entry[n] \in u.hurt => u.entry[n] \in u.die
<1> DEFINE f == w.entry[n]
           robbed == IF S # {} /\ f \in Foes THEN {TakeExp(v, f) : v \in Rob(w, f, S)} ELSE {w}
           dead == {[v EXCEPT !.die = @ \cup {f}] : v \in robbed}
<1>1. w \in Battles /\ w.entry \in [Posts -> Fighters \cup {Vacant}] /\ w.hurt \subseteq Fighters
  BY Fields DEF Sound
<1>2. CASE f \notin w.hurt \ w.die
  <2>1. u = w
    BY <1>2 DEF Fall
  <2> QED BY <2>1, <1>2 DEF Thinner
<1>3. CASE f \in w.hurt \ w.die
  <2>1. f \in Fighters /\ f # Vacant
    BY <1>1, <1>3, KindsFacts
  <2>2. ASSUME NEW v \in robbed
        PROVE  Sound(v) /\ v.entry = w.entry /\ v.hurt = w.hurt /\ v.die = w.die /\ v.ult = w.ult
    <3>1. CASE S # {} /\ f \in Foes
      <4>1. PICK r \in Rob(w, f, S) : v = TakeExp(r, f)
        BY <3>1
      <4>2. /\ Sound(r) /\ r.own[f] = {}
            /\ r.entry = w.entry /\ r.hurt = w.hurt /\ r.die = w.die /\ r.ult = w.ult
        BY <3>1, RobKeeps
      <4>3. \E m \in Posts : r.entry[m] = f
        BY <4>2
      <4>4. Sound(v) /\ v.entry = r.entry /\ v.hurt = r.hurt /\ v.die = r.die /\ v.ult = r.ult
        BY <3>1, <4>1, <4>2, <4>3, TakeExpKeeps
      <4> QED BY <4>2, <4>4
    <3>2. CASE ~ (S # {} /\ f \in Foes)
      <4>1. v = w
        BY <3>2
      <4> QED BY <4>1
    <3> QED BY <3>1, <3>2
  <2> HIDE DEF robbed
  <2>3. ASSUME NEW v \in dead
        PROVE  Sound(v) /\ v.entry = w.entry /\ v.hurt = w.hurt /\ v.die = w.die \cup {f} /\ Thinner(w, v)
    <3>1. PICK r \in robbed : v = [r EXCEPT !.die = @ \cup {f}]
      OBVIOUS
    <3>2. Sound(r) /\ r.entry = w.entry /\ r.hurt = w.hurt /\ r.die = w.die
      BY <2>2
    <3>3. Sound(v) /\ v.entry = r.entry /\ v.hurt = r.hurt /\ v.die = r.die \cup {f}
      BY <2>1, <3>1, <3>2, DeadKeeps
    <3>4. Thinner(w, v)
      BY <3>2, <3>3 DEF Thinner
    <3> QED BY <3>2, <3>3, <3>4
  <2>4. u \in IF n \in w.ult THEN {UltimateExtra(v, f) : v \in dead} ELSE dead
    BY <1>3 DEF Fall, robbed
  <2> HIDE DEF dead
  <2>5. CASE n \in w.ult
    <3>1. PICK v \in dead : u = UltimateExtra(v, f)
      BY <2>4, <2>5
    <3>2. Sound(v) /\ v.entry = w.entry /\ v.die = w.die \cup {f} /\ Thinner(w, v)
      BY <2>3
    <3>3. v.entry[n] # Vacant /\ v.entry[n] \in v.die /\ v.entry[n] = f
      BY <3>2, <2>1
    <3>4. Sound(UltimateExtra(v, v.entry[n])) /\ Thinner(v, UltimateExtra(v, v.entry[n]))
      BY <3>2, <3>3, ExtraKeeps
    <3>5. Sound(u) /\ Thinner(v, u)
      BY <3>1, <3>3, <3>4
    <3>6. Thinner(w, u)
      BY <3>2, <3>5, ThinnerStill
    <3>7. u.entry[n] \in u.hurt => u.entry[n] \in u.die
      <4>1. u.entry[n] \in u.hurt => u.entry[n] # Vacant
        BY <3>5, Fields, KindsFacts DEF Sound
      <4>2. u.entry[n] # Vacant => u.entry[n] = v.entry[n] /\ (u.entry[n] \in v.die => u.entry[n] \in u.die)
        BY <3>5 DEF Thinner
      <4> QED BY <4>1, <4>2, <3>3
    <3> QED BY <3>5, <3>6, <3>7
  <2>6. CASE n \notin w.ult
    <3>1. u \in dead
      BY <2>4, <2>6
    <3> QED BY <3>1, <2>3
  <2> QED BY <2>5, <2>6
<1> QED BY <1>2, <1>3

----------------------------------------------------------------------------
\* Loops over the places.

Numbered(g, a, F, N) == g = [n \in 0..N |-> IF n = 0 THEN a ELSE F[<<g[n - 1], n>>]]

\* A set of numbers has a least one.
LEMMA FirstOfMany ==
    ASSUME NEW T \in SUBSET Nat, T # {}
    PROVE  \E k \in T : \A j \in T : k <= j
<1>1. PICK k \in T : \A j \in T : ~ (<<j, k>> \in OpToRel(<, Nat))
  BY NatLessThanWellFounded, WFMin
<1>2. \A j \in T : ~ (j < k)
  BY <1>1 DEF OpToRel
<1> QED BY <1>2

\* Steps that depend on their number lead somewhere.
LEMMA NumberedExists ==
    ASSUME NEW S, NEW a \in S, NEW N \in Nat, NEW F \in [S \X (1..N) -> S]
    PROVE  \E g \in [0..N -> S] : Numbered(g, a, F, N)
<1> DEFINE Good(g, m) == g \in [0..m -> S] /\ g[0] = a /\ \A n \in 1..m : g[n] = F[<<g[n - 1], n>>]
           T == {m \in 0..N : ~ \E g : Good(g, m)}
<1>1. T = {}
  <2>1. SUFFICES ASSUME T # {} PROVE FALSE
    OBVIOUS
  <2>2. PICK m \in T : \A j \in T : m <= j
    <3>1. T \in SUBSET Nat
      OBVIOUS
    <3> HIDE DEF T
    <3> QED BY <2>1, <3>1, FirstOfMany
  <2>3. m \in 0..N /\ m \in Nat /\ ~ \E g : Good(g, m)
    BY <2>2
  <2>4. CASE m = 0
    <3> DEFINE g == [n \in 0..0 |-> a]
    <3>1. Good(g, 0)
      OBVIOUS
    <3> HIDE DEF Good, g
    <3> QED BY <2>3, <2>4, <3>1
  <2>5. CASE m # 0
    <3> DEFINE j == m - 1
    <3>1. j \in 0..N /\ j \in Nat /\ j + 1 = m /\ ~ (m <= j)
      BY <2>3, <2>5
    <3>2. j \notin T
      <4> HIDE DEF T, j
      <4> QED BY <2>2, <3>1
    <3> HIDE DEF j
    <3>3. PICK h : Good(h, j)
      BY <3>1, <3>2
    <3> DEFINE w == F[<<h[j], m>>]
               g == [n \in 0..m |-> IF n = m THEN w ELSE h[n]]
    <3>4. \A n \in 0..m : n # m => n \in 0..j
      BY <2>3, <3>1
    <3>5. j \in 0..j /\ h[j] \in S /\ \A n \in 0..j : h[n] \in S
      BY <3>1, <3>3
    <3>10. w \in S
      <4>1. m \in 1..N
        BY <2>3, <2>5
      <4>2. <<h[j], m>> \in S \X (1..N)
        BY <3>5, <4>1
      <4> QED BY <4>2
    <3> HIDE DEF w
    <3>6. g \in [0..m -> S]
      BY <3>4, <3>5, <3>10
    <3>7. g[0] = a
      <4>1. 0 \in 0..m /\ 0 # m
        BY <2>3, <2>5
      <4> QED BY <4>1, <3>3
    <3>8. ASSUME NEW n \in 1..m PROVE g[n] = F[<<g[n - 1], n>>]
      <4>1. n \in 0..m /\ n - 1 \in 0..m /\ n - 1 # m
        BY <2>3
      <4>2. g[n - 1] = h[n - 1]
        BY <4>1
      <4>3. CASE n = m
        <5>1. n - 1 = j
          BY <4>3, <3>1
        <5>2. g[n] = w
          BY <4>1, <4>3
        <5> QED BY <4>2, <4>3, <5>1, <5>2 DEF w
      <4>4. CASE n # m
        <5>1. n \in 1..j
          BY <3>1, <4>4
        <5>2. g[n] = h[n] /\ h[n] = F[<<h[n - 1], n>>]
          BY <3>3, <4>1, <4>4, <5>1
        <5> QED BY <4>2, <5>2
      <4> QED BY <4>3, <4>4
    <3> HIDE DEF g
    <3>9. Good(g, m)
      BY <3>6, <3>7, <3>8
    <3> HIDE DEF Good
    <3> QED BY <2>3, <3>9
  <2> QED BY <2>4, <2>5
<1>2. PICK g : Good(g, N)
  <2>1. N \in 0..N
    OBVIOUS
  <2> HIDE DEF Good
  <2> QED BY <1>1, <2>1
<1>3. g = [n \in 0..N |-> IF n = 0 THEN a ELSE F[<<g[n - 1], n>>]]
  <2>1. g \in [0..N -> S] /\ g[0] = a /\ \A n \in 1..N : g[n] = F[<<g[n - 1], n>>]
    BY <1>2
  <2>2. \A n \in 0..N : n # 0 => n \in 1..N
    OBVIOUS
  <2>3. \A n \in 0..N : g[n] = IF n = 0 THEN a ELSE F[<<g[n - 1], n>>]
    BY <2>1, <2>2
  <2> QED BY <2>1, <2>3
<1>4. g \in [0..N -> S]
  BY <1>2
<1> QED BY <1>3, <1>4 DEF Numbered

\* What a loop comes to, place by place, when t[n] is its step at n.
Looped(h, w, t) ==
    h = [i \in 0..20 |-> IF i = 0 THEN {w}
                         ELSE IF i - 1 \in Posts THEN UNION {t[i - 1][v] : v \in h[i - 1]}
                         ELSE h[i - 1]]

\* A loop over the places comes to something.
LEMMA LoopExists ==
    ASSUME NEW B, NEW w \in B, NEW t \in [Posts -> [B -> SUBSET B]]
    PROVE  \E h \in [0..20 -> SUBSET B] : Looped(h, w, t)
<1> DEFINE S == SUBSET B
           a == {w}
           N == 20
           step(V, n) == IF n - 1 \in Posts THEN UNION {t[n - 1][v] : v \in V} ELSE V
           F == [x \in S \X (1..N) |-> step(x[1], x[2])]
<1>1. ASSUME NEW V \in S, NEW n \in 1..N PROVE step(V, n) \in S
  OBVIOUS
<1>2. a \in S /\ N \in Nat
  OBVIOUS
<1> HIDE DEF S, a, step, N
<1>3. F \in [S \X (1..N) -> S]
  BY <1>1
<1>4. \A V \in S, n \in 1..N : F[<<V, n>>] = step(V, n)
  OBVIOUS
<1> HIDE DEF F
<1>5. PICK h \in [0..N -> S] : Numbered(h, a, F, N)
  BY <1>2, <1>3, NumberedExists
<1>6. \A n \in 0..N : h[n] = IF n = 0 THEN a ELSE step(h[n - 1], n)
  <2>1. h = [n \in 0..N |-> IF n = 0 THEN a ELSE F[<<h[n - 1], n>>]]
    BY <1>5 DEF Numbered
  <2>2. \A n \in 0..N : n # 0 => n \in 1..N /\ h[n - 1] \in S
    BY <1>2, <1>5
  <2>3. \A n \in 0..N : n # 0 => F[<<h[n - 1], n>>] = step(h[n - 1], n)
    BY <1>4, <2>2
  <2>4. \A n \in 0..N : h[n] = IF n = 0 THEN a ELSE F[<<h[n - 1], n>>]
    BY <2>1
  <2> QED BY <2>3, <2>4
<1>7. Looped(h, w, t)
  <2>1. h = [n \in 0..20 |-> h[n]]
    BY <1>5 DEF N
  <2>2. \A n \in 0..20 : h[n] = IF n = 0 THEN {w}
                                ELSE IF n - 1 \in Posts THEN UNION {t[n - 1][v] : v \in h[n - 1]}
                                ELSE h[n - 1]
    BY <1>6 DEF N, a, step
  <2> QED BY <2>1, <2>2 DEF Looped
<1> QED BY <1>5, <1>7 DEF N, S

\* What every step keeps the loop keeps.
LEMMA LoopIn ==
    ASSUME NEW h, NEW Q, h[0] \subseteq Q[0], \A i \in 1..20 : h[i - 1] \subseteq Q[i - 1] => h[i] \subseteq Q[i]
    PROVE  h[20] \subseteq Q[20]
<1> DEFINE T == {i \in 0..20 : ~ (h[i] \subseteq Q[i])}
<1>1. SUFFICES ASSUME T # {} PROVE FALSE
  OBVIOUS
<1>2. PICK k \in T : \A j \in T : k <= j
  <2>1. T \in SUBSET Nat
    OBVIOUS
  <2> HIDE DEF T
  <2> QED BY <1>1, <2>1, FirstOfMany
<1>3. k \in 0..20 /\ ~ (h[k] \subseteq Q[k])
  BY <1>2
<1>4. k \in 1..20 /\ k - 1 \in 0..20 /\ ~ (k <= k - 1)
  BY <1>3
<1>5. k - 1 \notin T
  <2> HIDE DEF T
  <2> QED BY <1>2, <1>4
<1>6. h[k - 1] \subseteq Q[k - 1]
  BY <1>4, <1>5
<1> QED BY <1>3, <1>4, <1>6

----------------------------------------------------------------------------
\* What those who strike get for those who have fallen.

\* AddExpItem settles what has fallen, unless one of those at L has left.
LEMMA AddExpKeeps ==
    ASSUME NEW w, Sound(w), NEW L, NEW u \in AddExpItem(w, L)
    PROVE  /\ Sound(u)
           /\ Settled(w) \/ (\A n \in L : w.entry[n] # Vacant) => Settled(u)
<1> DEFINE S == {SeatOf(w, n) : n \in {n \in L : SideOf2(n) = 0}}
           G(h) == [i \in 0..20 |-> IF i = 0 THEN {w}
                                    ELSE IF i - 1 \in Posts THEN UNION {Fall(v, i - 1, S) : v \in h[i - 1]}
                                    ELSE h[i - 1]]
           C == CHOOSE h : h = G(h)
           B == {v \in Battles : Sound(v)}
           t == [n \in Posts |-> [v \in B |-> Fall(v, n, S)]]
           Dead(v, i) == \A n \in Posts : n < i /\ v.entry[n] \in v.hurt => v.entry[n] \in v.die
           Q == [i \in 0..20 |-> {v \in B : Dead(v, i)}]
<1>1. CASE \E n \in L : w.entry[n] = Vacant
  <2>1. u = w
    BY <1>1 DEF AddExpItem
  <2> QED BY <1>1, <2>1
<1>2. CASE ~ \E n \in L : w.entry[n] = Vacant
  <2>1. u \in InOrder(LAMBDA v, n : Fall(v, n, S), w)
    BY <1>2 DEF AddExpItem
  <2>2. u \in C[20]
    BY <2>1 DEF InOrder
  <2>3. w \in B
    BY DEF Sound
  <2> HIDE DEF S
  <2>4. ASSUME NEW n \in Posts, NEW v \in B PROVE Fall(v, n, S) \subseteq B
    <3>1. ASSUME NEW x \in Fall(v, n, S) PROVE x \in B
      <4>1. Sound(x)
        BY FallKeeps
      <4> QED BY <4>1 DEF Sound
    <3> QED BY <3>1
  <2>5. t \in [Posts -> [B -> SUBSET B]] /\ \A n \in Posts, v \in B : t[n][v] = Fall(v, n, S)
    <3> HIDE DEF B
    <3> QED BY <2>4
  <2> HIDE DEF t, C, B
  <2>6. PICK h \in [0..20 -> SUBSET B] : Looped(h, w, t)
    BY <2>3, <2>5, LoopExists
  <2>7. h = G(h)
    <3>1. \A i \in 0..20 : i # 0 => h[i - 1] \subseteq B
      BY <2>6
    <3>2. \A i \in 0..20 : i # 0 /\ i - 1 \in Posts => \A v \in h[i - 1] : t[i - 1][v] = Fall(v, i - 1, S)
      BY <2>5, <3>1
    <3>3. ASSUME NEW i \in 0..20, i # 0, i - 1 \in Posts
          PROVE  UNION {t[i - 1][v] : v \in h[i - 1]} = UNION {Fall(v, i - 1, S) : v \in h[i - 1]}
      <4>1. {t[i - 1][v] : v \in h[i - 1]} = {Fall(v, i - 1, S) : v \in h[i - 1]}
        BY <3>2, <3>3
      <4> QED BY <4>1
    <3>4. h = [i \in 0..20 |-> IF i = 0 THEN {w}
                               ELSE IF i - 1 \in Posts THEN UNION {t[i - 1][v] : v \in h[i - 1]}
                               ELSE h[i - 1]]
      BY <2>6 DEF Looped
    <3> QED BY <3>3, <3>4
  <2>8. C = G(C)
    <3>1. \E g : g = G(g)
      BY <2>7
    <3> HIDE DEF G
    <3> QED BY <3>1, Zenon DEF C
  <2>9. C[0] = {w} /\ \A i \in 1..20 : C[i] = IF i - 1 \in Posts THEN UNION {Fall(v, i - 1, S) : v \in C[i - 1]} ELSE C[i - 1]
    <3> DEFINE E == G(C)
    <3>1. E[0] = {w} /\ \A i \in 1..20 : E[i] = IF i - 1 \in Posts THEN UNION {Fall(v, i - 1, S) : v \in C[i - 1]} ELSE C[i - 1]
      OBVIOUS
    <3>2. C = E
      BY <2>8
    <3> HIDE DEF E
    <3> QED BY <3>1, <3>2
  <2> HIDE DEF G
  <2>10. C[0] \subseteq Q[0]
    <3>1. Dead(w, 0)
      BY PostsFacts
    <3> QED BY <2>3, <2>9, <3>1
  <2>11. ASSUME NEW i \in 1..20, C[i - 1] \subseteq Q[i - 1] PROVE C[i] \subseteq Q[i]
    <3>1. i - 1 \in 0..20 /\ i \in 0..20
      OBVIOUS
    <3>2. \A v \in C[i - 1] : v \in B /\ Dead(v, i - 1)
      <4> HIDE DEF Dead
      <4> QED BY <2>11, <3>1
    <3>3. CASE i - 1 \notin Posts
      <4>1. C[i] = C[i - 1]
        BY <2>9, <3>3
      <4>2. \A n \in Posts : n < i => n < i - 1
        BY <3>3, PostsFacts
      <4>3. \A v \in C[i] : v \in B /\ Dead(v, i)
        BY <3>2, <4>1, <4>2
      <4> HIDE DEF Dead
      <4> QED BY <3>1, <4>3
    <3>4. CASE i - 1 \in Posts
      <4> DEFINE k == i - 1
      <4>1. \A n \in Posts : n < i => n < k \/ n = k
        BY PostsFacts
      <4>2. C[i] = UNION {Fall(v, k, S) : v \in C[k]}
        BY <2>9, <3>4
      <4>3. ASSUME NEW x \in C[i] PROVE x \in B /\ Dead(x, i)
        <5>1. PICK v \in C[k] : x \in Fall(v, k, S)
          BY <4>2
        <5>2. Sound(v) /\ Dead(v, k) /\ k \in Posts
          BY <3>2, <3>4 DEF B
        <5> HIDE DEF k
        <5>3. Sound(x) /\ Thinner(v, x) /\ (x.entry[k] \in x.hurt => x.entry[k] \in x.die)
          BY <5>1, <5>2, FallKeeps
        <5>4. ASSUME NEW n \in Posts, n < i, x.entry[n] \in x.hurt PROVE x.entry[n] \in x.die
          <6>1. CASE n = k
            BY <6>1, <5>3, <5>4
          <6>2. CASE n < k
            <7>1. x.entry[n] # Vacant
              BY <5>3, <5>4, Fields, KindsFacts DEF Sound
            <7>2. x.entry[n] = v.entry[n] /\ x.entry[n] \in v.hurt
              BY <7>1, <5>3, <5>4 DEF Thinner
            <7>3. x.entry[n] \in v.die
              BY <7>2, <6>2, <5>2
            <7> QED BY <7>1, <7>3, <5>3 DEF Thinner
          <6> QED BY <6>1, <6>2, <4>1, <5>4
        <5> QED BY <5>3, <5>4 DEF B, Sound
      <4> HIDE DEF Dead
      <4> QED BY <3>1, <4>3
    <3> QED BY <3>3, <3>4
  <2>12. C[20] \subseteq Q[20]
    <3> HIDE DEF Q
    <3> QED BY <2>10, <2>11, LoopIn
  <2>13. u \in B /\ Dead(u, 20)
    <3> HIDE DEF Dead
    <3> QED BY <2>2, <2>12
  <2>14. \A n \in Posts : n < 20
    BY PostsFacts
  <2>15. Sound(u) /\ Settled(u)
    BY <2>13, <2>14 DEF B, Settled
  <2> QED BY <2>15
<1> QED BY <1>1, <1>2

----------------------------------------------------------------------------
\* Who comes.

\* f takes the place n; what was won there is lost.
Enters(w, u, f, n) ==
    /\ u \in Battles
    /\ u.entry[n] = f /\ \A m \in Posts : m # n => u.entry[m] = w.entry[m]
    /\ u.hurt = w.hurt /\ u.die = w.die /\ u.fled = w.fled /\ u.out = w.out /\ u.own = w.own /\ u.items = w.items
    /\ u.pool = w.pool /\ u.worth = w.worth /\ u.earned = w.earned
    /\ Lying(w.own, w.got, w.items, w.lost, w.pool) => Lying(u.own, u.got, u.items, u.lost, u.pool)

\* What BATTLE_NewEntry makes of a battle.
LEMMA NewEntryEnters ==
    ASSUME NEW w \in Battles, NEW f \in Fighters, NEW n \in Posts
    PROVE  Enters(w, NewEntry(w, f, n), f, n)
<1> DEFINE entry == [w.entry EXCEPT ![n] = f]
           got == [s \in Seats |-> IF s = n THEN {} ELSE w.got[s]]
           lost == IF n \in Seats THEN w.lost \cup w.got[n] ELSE w.lost
           u == [w EXCEPT !.entry = entry, !.ult = @ \ {n}, !.got = got, !.lost = lost]
<1>1. u = NewEntry(w, f, n)
  BY DEF NewEntry
<1>2. /\ w.entry \in [Posts -> Fighters \cup {Vacant}] /\ w.got \in [Seats -> SUBSET Loot] /\ w.lost \subseteq Loot
      /\ w.ult \subseteq Int
  BY Fields
<1>3. entry \in [Posts -> Fighters \cup {Vacant}] /\ entry[n] = f /\ \A m \in Posts : m # n => entry[m] = w.entry[m]
  BY <1>2
<1>4. got \in [Seats -> SUBSET Loot] /\ lost \subseteq Loot
  BY <1>2
<1>5. /\ \A s \in Seats : s # n => got[s] = w.got[s]
      /\ \A s \in Seats : s = n => got[s] = {} /\ lost = w.lost \cup w.got[s]
      /\ w.lost \subseteq lost
  OBVIOUS
<1> HIDE DEF entry, got, lost
<1>6. /\ u \in Battles /\ u.hurt = w.hurt /\ u.die = w.die
      /\ u.entry = entry /\ u.out = w.out /\ u.got = got /\ u.own = w.own /\ u.items = w.items
      /\ u.pool = w.pool /\ u.worth = w.worth /\ u.earned = w.earned /\ u.lost = lost /\ u.fled = w.fled
  BY <1>2, <1>3, <1>4 DEF Battles
<1>7. ASSUME Lying(w.own, w.got, w.items, w.lost, w.pool) PROVE Lying(w.own, got, w.items, lost, w.pool)
  <2>1. \A s \in Seats : \A i \in got[s] : i \in w.got[s]
    BY <1>5
  <2>2. ASSUME NEW i \in w.items
        PROVE  i \in lost \/ (\E x \in Masters \cup Foes : i \in w.own[x]) \/ \E s \in Seats : i \in got[s]
    <3>1. i \in w.lost \/ (\E x \in Masters \cup Foes : i \in w.own[x]) \/ \E s \in Seats : i \in w.got[s]
      BY <1>7 DEF Lying
    <3> QED BY <3>1, <1>5
  <2> QED BY <2>1, <2>2, <1>7 DEF Lying
<1> HIDE DEF u
<1> QED BY <1>1, <1>3, <1>6, <1>7 DEF Enters

\* A player enters, at a free place where there is no pet.
LEMMA PlayerEnters ==
    ASSUME NEW w, Sound(w), Settled(w), NEW p \in Masters, ~ In(w, p), NEW s \in Seats, w.entry[s] = Vacant
    PROVE  LET u == NewEntry(w, p, s)
           IN  Sound(u) /\ Settled(u) /\ u.entry[s] = p /\ PetGone(u, p) /\ u.out = w.out
<1> DEFINE u == NewEntry(w, p, s)
<1>1. /\ w \in Battles /\ Seated(w.entry) /\ WithPets(w.entry, w.out) /\ Unborn(w.entry, w.pool, w.worth, w.hurt)
      /\ Apart(w.entry, w.hurt, w.fled) /\ Taken(w.worth, w.earned, w.own) /\ Lying(w.own, w.got, w.items, w.lost, w.pool)
  BY DEF Sound
<1>2. p \in Fighters /\ s \in Posts /\ s + 5 \in Posts /\ s + 5 \notin Seats /\ s # s + 5
  BY KindsFacts, PostsFacts
<1>3. Enters(w, u, p, s)
  BY <1>1, <1>2, NewEntryEnters
<1> HIDE DEF u
<1>4. u \in Battles /\ u.entry[s] = p /\ \A m \in Posts : m # s => u.entry[m] = w.entry[m]
  BY <1>3 DEF Enters
<1>5. w.entry[s + 5] = Vacant
  <2>1. w.entry[s + 5] # Vacant => w.entry[s + 5] \in Kennel /\ w.entry[s + 5][1] = Vacant
    BY <1>1 DEF Seated, WithPets
  <2> QED BY <2>1, KindsFacts
<1>6. \A m \in Posts : w.entry[m] # p
  BY DEF In
<1>7. Seated(u.entry)
  <2>1. \A r \in Seats : u.entry[r] \in Masters \cup {Vacant} /\ u.entry[r + 5] \in Kennel \cup {Vacant}
    BY <1>1, <1>4, PostsFacts DEF Seated
  <2>2. \A n \in Lairs : u.entry[n] \in Foes \cup {Vacant}
    BY <1>1, <1>4, PostsFacts DEF Seated
  <2>3. \A m, n \in Posts : u.entry[m] = u.entry[n] /\ u.entry[m] # Vacant => m = n
    BY <1>1, <1>4, <1>6 DEF Seated
  <2> QED BY <2>1, <2>2, <2>3 DEF Seated
<1>8. WithPets(u.entry, u.out)
  <2>1. u.out = w.out
    BY <1>3 DEF Enters
  <2>2. ASSUME NEW r \in Seats, u.entry[r + 5] # Vacant PROVE u.entry[r + 5][1] = u.entry[r] /\ u.out[u.entry[r]] = u.entry[r + 5]
    <3>1. r \in Posts /\ r + 5 \in Posts /\ r + 5 # s
      BY PostsFacts
    <3>2. u.entry[r + 5] = w.entry[r + 5] /\ r # s
      BY <1>4, <1>5, <2>2, <3>1
    <3>3. u.entry[r] = w.entry[r]
      BY <1>4, <3>1, <3>2
    <3> QED BY <2>1, <2>2, <3>2, <3>3, <1>1 DEF WithPets
  <2> QED BY <2>1, <2>2, <1>1 DEF WithPets
<1>9. Unborn(u.entry, u.pool, u.worth, u.hurt)
  <2>1. \A e \in w.pool : e \in Foes /\ e # p
    BY <1>1, Fields, KindsFacts
  <2> QED BY <2>1, <1>1, <1>3 DEF Enters, Unborn
<1>10. Apart(u.entry, u.hurt, u.fled)
  <2>1. u.hurt = w.hurt /\ u.fled = w.fled
    BY <1>3 DEF Enters
  <2>2. ASSUME NEW q \in Masters, \A n \in Posts : u.entry[n] # q PROVE \A n \in Posts : w.entry[n] # q
    <3>1. q # Vacant
      BY KindsFacts
    <3> QED BY <3>1, <2>2, <1>4
  <2> QED BY <2>1, <2>2, <1>1 DEF Apart
<1>11. Sound(u)
  BY <1>1, <1>3, <1>4, <1>7, <1>8, <1>9, <1>10 DEF Sound, Enters, Taken
<1>12. Settled(u)
  <2>1. u.hurt = w.hurt /\ u.fled = w.fled /\ u.die = w.die
    BY <1>3 DEF Enters
  <2>2. p \in w.hurt => p \in w.fled
    BY <1>1, <1>6 DEF Apart
  <2> QED BY <2>1, <2>2, <1>4 DEF Settled
<1>13. PetGone(u, p)
  <2> SUFFICES ASSUME NEW r \in Seats, u.entry[r] = p PROVE u.entry[r + 5] = Vacant
    BY DEF PetGone
  <2>1. r \in Posts
    BY PostsFacts
  <2>2. r = s
    BY <2>1, <1>4, <1>6
  <2> QED BY <2>2, <1>2, <1>4, <1>5
<1>14. u.out = w.out
  BY <1>3 DEF Enters
<1> QED BY <1>4, <1>11, <1>12, <1>13, <1>14 DEF u

\* A player sends out the pet it has chosen.
LEMMA PetEntryKeeps ==
    ASSUME NEW w, Sound(w), Settled(w), NEW p \in Masters, NEW s \in Seats, w.entry[s] = p, PetGone(w, p)
    PROVE  Sound(PetDefaultEntry(w, p, s)) /\ Settled(PetDefaultEntry(w, p, s))
<1> DEFINE b == w.out[p]
           n == s + 5
           u == NewEntry(w, b, n)
<1>1. /\ w \in Battles /\ Seated(w.entry) /\ WithPets(w.entry, w.out) /\ Unborn(w.entry, w.pool, w.worth, w.hurt)
      /\ Apart(w.entry, w.hurt, w.fled) /\ Taken(w.worth, w.earned, w.own) /\ Lying(w.own, w.got, w.items, w.lost, w.pool)
  BY DEF Sound
<1>2. b \in Kennel \cup {Vacant}
  BY <1>1, Fields
<1>3. CASE b = Vacant
  BY <1>3 DEF PetDefaultEntry
<1>4. CASE b # Vacant /\ Down(w, b)
  <2>1. PetDefaultEntry(w, p, s) = [w EXCEPT !.out[p] = Vacant]
    BY <1>4 DEF PetDefaultEntry
  <2> QED BY <2>1, OutKeeps
<1>5. CASE b # Vacant /\ ~ Down(w, b)
  <2>1. w.entry[n] = Vacant
    BY DEF PetGone
  <2>2. PetDefaultEntry(w, p, s) = u
    BY <1>5, <2>1 DEF PetDefaultEntry
  <2>3. b \in Kennel /\ b \in Fighters /\ b[1] = p /\ b \notin w.hurt /\ b # Vacant
    BY <1>1, <1>2, <1>5, KindsFacts DEF WithPets, Down
  <2>4. n \in Posts /\ n \notin Seats /\ n \notin Lairs /\ s \in Posts /\ s # n
    BY PostsFacts
  <2>5. Enters(w, u, b, n)
    BY <1>1, <2>3, <2>4, NewEntryEnters
  <2>6. \A m \in Posts : w.entry[m] # b
    <3> SUFFICES ASSUME NEW m \in Posts, w.entry[m] = b PROVE FALSE
      OBVIOUS
    <3> DEFINE r == m - 5
    <3> HIDE DEF n
    <3>1. r \in Seats /\ r + 5 = m
      BY <1>1, <2>3, KindAt
    <3> HIDE DEF r
    <3>2. w.entry[r] = p /\ r \in Posts
      BY <1>1, <2>3, <3>1, PostsFacts DEF WithPets
    <3>3. w.entry[r + 5] = Vacant
      BY <3>1, <3>2 DEF PetGone
    <3> QED BY <3>1, <3>3, <2>3
  <2> HIDE DEF u, b
  <2>7. u \in Battles /\ u.entry[n] = b /\ (\A m \in Posts : m # n => u.entry[m] = w.entry[m]) /\ u.out = w.out
    BY <2>5 DEF Enters
  <2>8. Seated(u.entry)
    <3>1. \A r \in Seats : r + 5 = n => r = s
      BY PostsFacts
    <3> HIDE DEF n
    <3>2. \A r \in Seats : u.entry[r] \in Masters \cup {Vacant} /\ u.entry[r + 5] \in Kennel \cup {Vacant}
      BY <1>1, <2>3, <2>4, <2>7, PostsFacts DEF Seated
    <3>3. \A m \in Lairs : u.entry[m] \in Foes \cup {Vacant}
      BY <1>1, <2>4, <2>7, PostsFacts DEF Seated
    <3>4. \A m, k \in Posts : u.entry[m] = u.entry[k] /\ u.entry[m] # Vacant => m = k
      BY <1>1, <2>6, <2>7 DEF Seated
    <3> QED BY <3>2, <3>3, <3>4 DEF Seated
  <2>9. WithPets(u.entry, u.out)
    <3>1. ASSUME NEW r \in Seats, u.entry[r + 5] # Vacant PROVE u.entry[r + 5][1] = u.entry[r] /\ u.out[u.entry[r]] = u.entry[r + 5]
      <4>1. r \in Posts /\ r + 5 \in Posts /\ (r + 5 = n => r = s) /\ r # n
        BY <2>4, PostsFacts
      <4>2. CASE r = s
        <5>1. u.entry[r + 5] = b /\ u.entry[r] = p
          BY <4>1, <4>2, <2>4, <2>7
        <5> QED BY <5>1, <2>3, <2>7 DEF b
      <4>3. CASE r # s
        <5>1. u.entry[r + 5] = w.entry[r + 5] /\ u.entry[r] = w.entry[r]
          BY <4>1, <4>3, <2>7
        <5> QED BY <5>1, <3>1, <2>7, <1>1 DEF WithPets
      <4> QED BY <4>2, <4>3
    <3> QED BY <3>1, <2>7, <1>1 DEF WithPets
  <2>10. Unborn(u.entry, u.pool, u.worth, u.hurt)
    <3>1. \A e \in w.pool : e \in Foes /\ e # b
      BY <1>1, <2>3, Fields, KindsFacts
    <3> QED BY <3>1, <1>1, <2>5 DEF Enters, Unborn
  <2>11. Apart(u.entry, u.hurt, u.fled)
    <3>1. u.hurt = w.hurt /\ u.fled = w.fled
      BY <2>5 DEF Enters
    <3>2. ASSUME NEW q \in Masters, \A m \in Posts : u.entry[m] # q PROVE \A m \in Posts : w.entry[m] # q
      <4>1. q # Vacant
        BY KindsFacts
      <4> QED BY <4>1, <3>2, <2>1, <2>7
    <3> QED BY <3>1, <3>2, <1>1 DEF Apart
  <2>12. Sound(u)
    BY <1>1, <2>5, <2>7, <2>8, <2>9, <2>10, <2>11 DEF Sound, Enters, Taken
  <2>13. Settled(u)
    <3>1. u.hurt = w.hurt /\ u.fled = w.fled /\ u.die = w.die
      BY <2>5 DEF Enters
    <3> QED BY <3>1, <2>3, <2>7 DEF Settled
  <2> QED BY <2>2, <2>12, <2>13
<1> QED BY <1>3, <1>4, <1>5

----------------------------------------------------------------------------
\* What one does in its turn.

\* Sound, and what the one at n gets for those who have just fallen is to come.
Done(u, n) == Sound(u) /\ (Settled(u) \/ u.entry[n] # Vacant)

\* Who can be aimed at is in the battle and has HP.
LEMMA TargetFacts ==
    ASSUME NEW w \in Battles, NEW s, NEW d \in Targets(w, s)
    PROVE  /\ d \in Posts /\ w.entry[d] # Vacant /\ w.entry[d] \in Fighters
           /\ w.entry[d] \notin w.hurt /\ w.entry[d] \notin w.die /\ In(w, w.entry[d])
BY Fields DEF Targets, Down, In

\* One or more are struck, or one dies of poison.
LEMMA HitsAreDone ==
    ASSUME NEW w, Sound(w), NEW n \in Posts, w.entry[n] # Vacant,
           NEW u \in BATTLE_S_AttackDamage(w, n) \cup MAGIC_DirectUse(w, n) \cup DeepPoison(w, n)
    PROVE  Done(u, n)
<1>1. w \in Battles /\ w.entry[n] \in Fighters /\ n \in Int
  BY Fields, PostsFacts DEF Sound
<1>2. CASE u \in BATTLE_S_AttackDamage(w, n)
  <2> DEFINE Blow(x, d) == {Struck(w, {x}, U) : U \in {{}, {d}}}
  <2>1. PICK d \in Targets(w, 0) \cup Targets(w, 1) : u \in Blow(n, d) \cup Blow(d, d)
    BY <1>2 DEF BATTLE_S_AttackDamage
  <2>2. d \in Posts /\ d \in Int /\ w.entry[d] # Vacant
    BY <1>1, TargetFacts, PostsFacts
  <2>3. PICK v, U : (v = n \/ v = d) /\ U \subseteq Int /\ u = Struck(w, {v}, U)
    BY <2>1, <2>2
  <2> DEFINE X == {v}
  <2>4. X \subseteq Posts /\ (\A x \in X : w.entry[x] # Vacant) /\ U \subseteq Int /\ u = Struck(w, X, U)
    BY <2>2, <2>3
  <2> HIDE DEF X
  <2>5. Sound(u) /\ u.entry = w.entry
    BY <2>4, StruckKeeps
  <2> QED BY <2>5 DEF Done
<1>3. CASE u \in MAGIC_DirectUse(w, n)
  <2>1. PICK s \in {0, 1} : \E X \in SUBSET Targets(w, s) : u = Struck(w, X, {})
    BY <1>3 DEF MAGIC_DirectUse
  <2>2. PICK X \in SUBSET Targets(w, s) : u = Struck(w, X, {})
    BY <2>1
  <2> DEFINE U == {}
  <2>3. X \subseteq Posts /\ (\A x \in X : w.entry[x] # Vacant) /\ U \subseteq Int
    BY <1>1, TargetFacts
  <2>4. u = Struck(w, X, U)
    BY <2>2
  <2> HIDE DEF U
  <2>5. Sound(u) /\ u.entry = w.entry
    BY <2>3, <2>4, StruckKeeps
  <2> QED BY <2>5 DEF Done
<1>4. CASE u \in DeepPoison(w, n)
  <2> DEFINE f == w.entry[n]
             v == [w EXCEPT !.hurt = @ \cup {f}, !.die = @ \cup {f}]
  <2>1. u = v
    BY <1>4 DEF DeepPoison
  <2>2. /\ v \in Battles /\ v.hurt = w.hurt \cup {f}
        /\ v.entry = w.entry /\ v.out = w.out /\ v.got = w.got /\ v.own = w.own /\ v.items = w.items
        /\ v.pool = w.pool /\ v.worth = w.worth /\ v.earned = w.earned /\ v.lost = w.lost /\ v.fled = w.fled
    BY <1>1 DEF Battles
  <2> HIDE DEF v
  <2>3. Wounded(w, v)
    BY <2>2 DEF Wounded
  <2>4. Sound(v)
    BY <2>3, WoundsKeep
  <2> QED BY <2>1, <2>2, <2>4 DEF Done
<1> QED BY <1>2, <1>3, <1>4

\* One is revived, caught or made to flee, or goes.
LEMMA LeaversAreDone ==
    ASSUME NEW w, Sound(w), Settled(w), NEW n \in Posts, w.entry[n] # Vacant,
           NEW u \in Revive(w, n) \cup BATTLE_Capture(w, n) \cup BATTLE_Escape(w, n)
    PROVE  Done(u, n)
<1>1. w \in Battles /\ w.entry[n] \in Fighters
  BY Fields DEF Sound
<1>2. CASE u \in Revive(w, n)
  <2> DEFINE L == Lucky
  <2>1. PICK f : u = [w EXCEPT !.hurt = @ \ {f}, !.die = @ \ {f}]
    BY <1>2 DEF Revive
  <2> DEFINE X == {f}
             v == [w EXCEPT !.hurt = @ \ X, !.die = @ \ X, !.lucky = @ \cap L]
  <2>2. w.lucky \cap L = w.lucky
    BY <1>1, Fields
  <2>3. u = v
    BY <2>1, <2>2, <1>1 DEF Battles
  <2> HIDE DEF X
  <2>4. L \subseteq Lucky
    OBVIOUS
  <2> HIDE DEF L
  <2>5. Sound(v) /\ v.entry = w.entry
    BY <2>4, HealedKeeps
  <2> HIDE DEF v
  <2> QED BY <2>3, <2>5 DEF Done
<1>3. CASE u \in BATTLE_Capture(w, n)
  <2>1. PICK d \in Targets(w, 1) : u = BATTLE_Exit(w, w.entry[d])
    BY <1>3 DEF BATTLE_Capture
  <2>2. w.entry[d] \in Fighters
    BY <1>1, TargetFacts
  <2> QED BY <2>1, <2>2, ExitSettled DEF Done
<1>4. CASE u \in BATTLE_Escape(w, n)
  <2>1. u = BATTLE_Exit(w, w.entry[n])
    BY <1>4 DEF BATTLE_Escape
  <2> QED BY <2>1, <1>1, ExitSettled DEF Done
<1> QED BY <1>2, <1>3, <1>4

\* A player calls its pet in, or sends out another.
LEMMA PetCommandIsDone ==
    ASSUME NEW w, Sound(w), Settled(w), NEW n \in Posts, NEW u \in PetCommand(w, n)
    PROVE  Done(u, n)
<1> DEFINE p == w.entry[n]
           v == IF w.out[p] = Vacant THEN w ELSE PetIn(w, p)
<1>1. /\ w \in Battles /\ Seated(w.entry) /\ WithPets(w.entry, w.out)
  BY DEF Sound
<1>2. /\ p \in Masters
      /\ u = v \/ \E b \in {b \in Kennel : b[1] = p} : u = PetDefaultEntry([v EXCEPT !.out[p] = b], p, n)
  BY DEF PetCommand
<1>3. n \in Seats
  BY <1>1, <1>2, KindAt
<1>4. Sound(v) /\ Settled(v) /\ PetGone(v, p) /\ v.entry[n] = p
  <2>1. CASE w.out[p] = Vacant
    <3>1. PetGone(w, p)
      BY <2>1, <1>1 DEF PetGone, WithPets
    <3> QED BY <3>1, <2>1
  <2>2. CASE w.out[p] # Vacant
    <3> DEFINE y == PetIn(w, p)
    <3>1. SettledBut(w, w.out[p])
      BY DEF Settled, SettledBut
    <3>2. /\ Sound(y) /\ (SettledBut(w, w.out[p]) => Settled(y)) /\ PetGone(y, p)
          /\ \A q \in Masters, m \in Posts : w.entry[m] = q => y.entry[m] = q
      BY <1>2, PetInKeeps
    <3> HIDE DEF y
    <3>3. v = y
      BY <2>2 DEF y
    <3> HIDE DEF v
    <3> QED BY <3>1, <3>2, <3>3, <1>2
  <2> QED BY <2>1, <2>2
<1> HIDE DEF v
<1>5. CASE u = v
  BY <1>4, <1>5 DEF Done
<1>6. ASSUME NEW b \in {b \in Kennel : b[1] = p}, u = PetDefaultEntry([v EXCEPT !.out[p] = b], p, n) PROVE Done(u, n)
  <2> DEFINE x == [v EXCEPT !.out[p] = b]
  <2>1. Sound(x) /\ (Settled(v) => Settled(x)) /\ PetGone(x, p)
    BY <1>2, <1>4, OutKeeps
  <2>2. x.entry = v.entry
    BY <1>4 DEF Sound, Battles
  <2>3. u = PetDefaultEntry(x, p, n)
    BY <1>6
  <2> HIDE DEF x, p
  <2>4. Sound(u) /\ Settled(u)
    BY <1>2, <1>3, <1>4, <2>1, <2>2, <2>3, PetEntryKeeps
  <2> QED BY <2>4 DEF Done
<1> QED BY <1>2, <1>5, <1>6

\* A pet or an enemy is made to run, and a pet has no longer its master.
LEMMA RoarIsDone ==
    ASSUME NEW w, Sound(w), Settled(w), NEW n \in Posts, NEW u \in BATTLE_S_Roar(w, n)
    PROVE  Done(u, n)
<1>1. w \in Battles
  BY DEF Sound
<1>2. PICK d \in Targets(w, 0) \cup Targets(w, 1) :
        /\ w.entry[d] \notin Masters
        /\ u = IF w.entry[d] \in Foes THEN BATTLE_Exit(w, w.entry[d])
               ELSE [BATTLE_Exit(w, w.entry[d]) EXCEPT !.out[w.entry[d - 5]] = Vacant]
  BY DEF BATTLE_S_Roar
<1> DEFINE f == w.entry[d]
           v == BATTLE_Exit(w, f)
<1>3. d \in Posts /\ f \in Fighters
  BY <1>1, TargetFacts
<1>4. Sound(v) /\ Settled(v)
  BY <1>3, ExitSettled
<1>5. CASE f \in Foes
  BY <1>2, <1>4, <1>5 DEF Done
<1>6. CASE f \notin Foes
  <2>1. f \in Kennel
    BY <1>2, <1>3, <1>6 DEF Fighters
  <2> DEFINE p == w.entry[d - 5]
             x == [v EXCEPT !.out[p] = Vacant]
  <2>2. PetGone(v, p) /\ p \in Masters
    BY <2>1, <1>3, PetLeaves, KindsFacts
  <2>3. u = x
    BY <1>2, <1>6
  <2> HIDE DEF v, p
  <2>4. Sound(x) /\ (Settled(v) => Settled(x))
    BY <1>4, <2>2, OutKeeps
  <2> QED BY <1>4, <2>3, <2>4 DEF Done
<1> QED BY <1>5, <1>6

\* A pet or an enemy leaves, alone or with another.
LEMMA AbductIsDone ==
    ASSUME NEW w, Sound(w), Settled(w), NEW n \in Posts, w.entry[n] # Vacant,
           NEW u \in BATTLE_LostEscape(w, n) \cup BATTLE_Abduct(w, n)
    PROVE  Done(u, n)
<1> DEFINE f == w.entry[n]
           prey == {w.entry[d] : d \in Targets(w, 0) \cup Targets(w, 1)} \ (Masters \cup {f})
<1>1. w \in Battles /\ f \in Fighters
  BY Fields DEF Sound
<1>2. f \notin Masters /\ (u = Goes(w, f) \/ \E x \in prey : u = Goes(Goes(w, x), f))
  BY DEF BATTLE_LostEscape, BATTLE_Abduct
<1>3. CASE u = Goes(w, f)
  BY <1>1, <1>2, <1>3, GoesKeeps DEF Done
<1>4. ASSUME NEW x \in prey, u = Goes(Goes(w, x), f) PROVE Done(u, n)
  <2>1. x \in Fighters /\ x \notin Masters
    BY <1>1, TargetFacts
  <2> HIDE DEF prey, f
  <2>2. Sound(Goes(w, x)) /\ Settled(Goes(w, x))
    BY <2>1, GoesKeeps
  <2> DEFINE v == Goes(w, x)
  <2> HIDE DEF v
  <2>3. Sound(v) /\ Settled(v) /\ u = Goes(v, f)
    BY <2>2, <1>4 DEF v
  <2>4. Sound(u) /\ Settled(u)
    BY <2>3, <1>1, <1>2, GoesKeeps
  <2> QED BY <2>4 DEF Done
<1> QED BY <1>2, <1>3, <1>4

\* An enemy ends an item of a player, and leaves.
LEMMA StealIsDone ==
    ASSUME NEW w, Sound(w), Settled(w), NEW n \in Posts, w.entry[n] # Vacant, NEW u \in BATTLE_Steal(w, n)
    PROVE  Done(u, n)
<1>1. /\ w \in Battles /\ w.entry[n] \in Fighters /\ w.own \in [Masters \cup Foes -> SUBSET Loot] /\ w.items \subseteq Loot
      /\ w.pool \subseteq Foes
      /\ Taken(w.worth, w.earned, w.own) /\ Lying(w.own, w.got, w.items, w.lost, w.pool)
  BY Fields DEF Sound
<1>0. PICK d \in Posts :
        /\ w.entry[d] \in Masters
        /\ \E i \in w.own[w.entry[d]] :
             u = BATTLE_Exit([w EXCEPT !.own[w.entry[d]] = @ \ {i}, !.items = @ \ {i}], w.entry[n])
  BY DEF BATTLE_Steal, Targets
<1>2. PICK i \in w.own[w.entry[d]] :
        u = BATTLE_Exit([w EXCEPT !.own[w.entry[d]] = @ \ {i}, !.items = @ \ {i}], w.entry[n])
  BY <1>0
<1> DEFINE x == w.entry[d]
           own == [w.own EXCEPT ![x] = @ \ {i}]
           items == w.items \ {i}
           y == [w EXCEPT !.own = own, !.items = items]
<1>3. x \in Masters /\ i \in w.own[x]
  BY <1>0, <1>2
<1>4. u = BATTLE_Exit(y, w.entry[n])
  BY <1>2
<1> HIDE DEF x
<1>5. own \in [Masters \cup Foes -> SUBSET Loot] /\ items \subseteq Loot
  BY <1>1
<1>6. \A z \in Masters \cup Foes : \A j : j \in own[z] <=> j \in w.own[z] /\ j # i
  <2>1. \A z \in Masters \cup Foes : i \in w.own[z] => z = x
    BY <1>1, <1>3 DEF Lying
  <2>2. x \in Masters \cup Foes
    BY <1>3
  <2> QED BY <2>1, <2>2, <1>1
<1>7. \A j : j \in items <=> j \in w.items /\ j # i
  OBVIOUS
<1> HIDE DEF own, items
<1>8. /\ y \in Battles /\ y.entry = w.entry /\ y.hurt = w.hurt /\ y.die = w.die /\ y.fled = w.fled /\ y.out = w.out
      /\ y.got = w.got /\ y.own = own /\ y.items = items /\ y.pool = w.pool /\ y.worth = w.worth
      /\ y.earned = w.earned /\ y.lost = w.lost
  BY <1>1, <1>5 DEF Battles
<1> HIDE DEF y
<1>9. Taken(w.worth, w.earned, own)
  BY <1>1, <1>6 DEF Taken
<1>10. Lying(own, w.got, items, w.lost, w.pool)
  <2>1. \A a, b \in Masters \cup Foes : \A j \in own[a] : j \in own[b] => a = b
    BY <1>1, <1>6 DEF Lying
  <2>2. \A s, t \in Seats : \A j \in w.got[s] : j \in w.got[t] => s = t
    BY <1>1 DEF Lying
  <2>3. \A a \in Masters \cup Foes, s \in Seats : \A j \in own[a] : j \notin w.got[s]
    BY <1>1, <1>6 DEF Lying
  <2>4. \A a \in Masters \cup Foes : own[a] \subseteq items
    BY <1>1, <1>6, <1>7 DEF Lying
  <2>5. \A s \in Seats : w.got[s] \subseteq items
    <3>1. \A s \in Seats : i \notin w.got[s]
      BY <1>1, <1>3 DEF Lying
    <3> QED BY <3>1, <1>1, <1>7 DEF Lying
  <2>6. \A j \in items : j \in w.lost \/ (\E a \in Masters \cup Foes : j \in own[a]) \/ \E s \in Seats : j \in w.got[s]
    BY <1>1, <1>6, <1>7 DEF Lying
  <2>7. \A e \in w.pool : own[e] = {} /\ Carried[e] \cap items = {}
    BY <1>1, <1>6, <1>7 DEF Lying
  <2> QED BY <2>1, <2>2, <2>3, <2>4, <2>5, <2>6, <2>7 DEF Lying
<1>11. Sound(y) /\ Settled(y)
  BY <1>8, <1>9, <1>10 DEF Sound, Settled
<1> QED BY <1>1, <1>4, <1>11, ExitSettled DEF Done

\* An enemy calls another one.
LEMMA HelpIsDone ==
    ASSUME NEW w, Sound(w), Settled(w), NEW n \in Posts, NEW u \in BATTLE_E_ENEMYHELP(w, n)
    PROVE  Done(u, n)
<1>1. /\ w \in Battles /\ Seated(w.entry) /\ WithPets(w.entry, w.out) /\ Unborn(w.entry, w.pool, w.worth, w.hurt)
      /\ Apart(w.entry, w.hurt, w.fled) /\ Taken(w.worth, w.earned, w.own) /\ Lying(w.own, w.got, w.items, w.lost, w.pool)
      /\ w.pool \subseteq Foes
  BY Fields DEF Sound
<1> DEFINE free == {m \in Lairs : w.entry[m] = Vacant}
           m == CHOOSE m \in free : \A k \in free : m <= k
           v(e) == NewEntry(w, e, m)
           Come(e) == [v(e) EXCEPT !.pool = @ \ {e}, !.own[e] = Carried[e], !.items = @ \cup Carried[e]]
<1>2. free # {} /\ \E e \in w.pool : u = Come(e)
  BY DEF BATTLE_E_ENEMYHELP
<1>3. PICK e \in w.pool : u = Come(e)
  BY <1>2
<1>4. m \in Lairs /\ w.entry[m] = Vacant
  <2>1. free \in SUBSET Nat
    <3>1. Lairs \subseteq 10..19
      BY TurnAssumption DEF TurnAssumption
    <3>2. \A k \in Lairs : k \in Int /\ 10 <= k
      BY <3>1
    <3>3. \A k \in free : k \in Nat
      BY <3>2
    <3> HIDE DEF free
    <3> QED BY <3>3
  <2>2. \E k \in free : \A j \in free : k <= j
    <3> HIDE DEF free
    <3> QED BY <1>2, <2>1, FirstOfMany
  <2>3. m \in free
    <3> HIDE DEF free
    <3> QED BY <2>2
  <2> QED BY <2>3
<1> HIDE DEF m
<1>5. /\ m \in Posts /\ e \in Foes /\ e \in Fighters /\ e \notin Masters /\ e # Vacant
      /\ \A s \in Seats : s \in Posts /\ s + 5 \in Posts /\ m # s /\ m # s + 5
  BY <1>1, <1>4, PostsFacts, KindsFacts
<1> DEFINE y == NewEntry(w, e, m)
<1>6. Enters(w, y, e, m)
  BY <1>1, <1>5, NewEntryEnters
<1>7. u = [y EXCEPT !.pool = @ \ {e}, !.own[e] = Carried[e], !.items = @ \cup Carried[e]]
  BY <1>3
<1> HIDE DEF y
<1>8. /\ y \in Battles /\ y.entry[m] = e /\ (\A k \in Posts : k # m => y.entry[k] = w.entry[k])
      /\ y.hurt = w.hurt /\ y.die = w.die /\ y.fled = w.fled /\ y.out = w.out /\ y.own = w.own /\ y.items = w.items
      /\ y.pool = w.pool /\ y.worth = w.worth /\ y.earned = w.earned
      /\ Lying(y.own, y.got, y.items, y.lost, y.pool)
  BY <1>1, <1>6 DEF Enters
<1> DEFINE own == [y.own EXCEPT ![e] = Carried[e]]
           items == y.items \cup Carried[e]
           pool == y.pool \ {e}
           z == [y EXCEPT !.pool = pool, !.own = own, !.items = items]
<1>9. u = z
  BY <1>7
<1>10. /\ y.own \in [Masters \cup Foes -> SUBSET Loot] /\ y.items \subseteq Loot /\ y.pool \subseteq Foes
       /\ Carried[e] \subseteq Loot /\ y.entry \in [Posts -> Fighters \cup {Vacant}]
  BY <1>5, <1>8, Fields, TurnAssumption DEF TurnAssumption
<1>11. /\ own \in [Masters \cup Foes -> SUBSET Loot] /\ own[e] = Carried[e]
       /\ \A x \in Masters \cup Foes : x # e => own[x] = y.own[x]
  BY <1>5, <1>10
<1>12. items \subseteq Loot /\ pool \subseteq Foes
  BY <1>10
<1>13. /\ \A i : i \in items <=> i \in y.items \/ i \in Carried[e]
       /\ \A c : c \in pool <=> c \in y.pool /\ c # e
  OBVIOUS
<1> HIDE DEF own, items, pool
<1>14. /\ z \in Battles /\ z.entry = y.entry /\ z.hurt = w.hurt /\ z.die = w.die /\ z.fled = w.fled /\ z.out = w.out
       /\ z.got = y.got /\ z.own = own /\ z.items = items /\ z.pool = pool /\ z.worth = w.worth
       /\ z.earned = w.earned /\ z.lost = y.lost
  BY <1>8, <1>11, <1>12 DEF Battles
<1> HIDE DEF z
<1>15. \A k \in Posts : w.entry[k] # e
  BY <1>1 DEF Unborn
<1>16. Seated(y.entry)
  <2>1. \A s \in Seats : y.entry[s] \in Masters \cup {Vacant} /\ y.entry[s + 5] \in Kennel \cup {Vacant}
    BY <1>1, <1>5, <1>8 DEF Seated
  <2>2. \A k \in Lairs : y.entry[k] \in Foes \cup {Vacant}
    BY <1>1, <1>5, <1>8, PostsFacts DEF Seated
  <2>3. \A j, k \in Posts : y.entry[j] = y.entry[k] /\ y.entry[j] # Vacant => j = k
    BY <1>1, <1>8, <1>15 DEF Seated
  <2> QED BY <2>1, <2>2, <2>3 DEF Seated
<1>17. WithPets(y.entry, w.out)
  <2>1. \A s \in Seats : y.entry[s] = w.entry[s] /\ y.entry[s + 5] = w.entry[s + 5]
    BY <1>5, <1>8
  <2> QED BY <2>1, <1>1 DEF WithPets
<1>18. Unborn(y.entry, pool, w.worth, w.hurt)
  <2> SUFFICES ASSUME NEW c \in pool PROVE c \in w.worth /\ c \notin w.hurt /\ \A k \in Posts : y.entry[k] # c
    BY DEF Unborn
  <2>1. c \in w.pool /\ c # e
    BY <1>8, <1>13
  <2> QED BY <2>1, <1>1, <1>8 DEF Unborn
<1>19. Apart(y.entry, w.hurt, w.fled)
  <2> SUFFICES ASSUME NEW p \in Masters, p \in w.hurt, \A k \in Posts : y.entry[k] # p PROVE p \in w.fled
    BY DEF Apart
  <2>1. p # Vacant
    BY KindsFacts
  <2>2. \A k \in Posts : w.entry[k] # p
    BY <2>1, <1>4, <1>8
  <2> QED BY <2>2, <1>1 DEF Apart
<1>20. Taken(w.worth, w.earned, own)
  <2>1. e \in w.worth
    BY <1>1 DEF Unborn
  <2> QED BY <2>1, <1>1, <1>8, <1>11 DEF Taken
<1>21. Lying(own, y.got, items, y.lost, pool)
  <2>1. Carried[e] \cap y.items = {} /\ y.own[e] = {}
    BY <1>8 DEF Lying
  <2>2. \A x \in Masters \cup Foes : y.own[x] \subseteq y.items
    BY <1>8 DEF Lying
  <2>3. \A s \in Seats : y.got[s] \subseteq y.items
    BY <1>8 DEF Lying
  <2>4. e \in Masters \cup Foes
    BY <1>5
  <2>5. ASSUME NEW a \in Masters \cup Foes, NEW b \in Masters \cup Foes, NEW i \in own[a], i \in own[b] PROVE a = b
    <3>1. CASE a = e /\ b # e
      BY <3>1, <2>1, <2>2, <2>5, <1>11
    <3>2. CASE b = e /\ a # e
      BY <3>2, <2>1, <2>2, <2>5, <1>11
    <3>3. CASE a # e /\ b # e
      <4>1. i \in y.own[a] /\ i \in y.own[b]
        BY <3>3, <2>5, <1>11
      <4> QED BY <4>1, <1>8 DEF Lying
    <3> QED BY <3>1, <3>2, <3>3
  <2>6. \A s, t \in Seats : \A i \in y.got[s] : i \in y.got[t] => s = t
    BY <1>8 DEF Lying
  <2>7. ASSUME NEW a \in Masters \cup Foes, NEW s \in Seats, NEW i \in own[a], i \in y.got[s] PROVE FALSE
    <3>1. CASE a = e
      BY <3>1, <2>1, <2>3, <2>7, <1>11
    <3>2. CASE a # e
      <4>1. i \in y.own[a]
        BY <3>2, <1>11
      <4> QED BY <4>1, <2>7, <1>8 DEF Lying
    <3> QED BY <3>1, <3>2
  <2>8. \A a \in Masters \cup Foes : own[a] \subseteq items
    BY <2>2, <1>11, <1>13
  <2>9. \A s \in Seats : y.got[s] \subseteq items
    BY <2>3, <1>13
  <2>10. ASSUME NEW i \in items
         PROVE  i \in y.lost \/ (\E a \in Masters \cup Foes : i \in own[a]) \/ \E s \in Seats : i \in y.got[s]
    <3>1. CASE i \in Carried[e]
      BY <3>1, <2>4, <1>11
    <3>2. CASE i \in y.items
      <4>1. i \in y.lost \/ (\E a \in Masters \cup Foes : i \in y.own[a]) \/ \E s \in Seats : i \in y.got[s]
        BY <3>2, <1>8 DEF Lying
      <4>2. \A a \in Masters \cup Foes : i \in y.own[a] => i \in own[a]
        BY <2>1, <1>11
      <4> QED BY <4>1, <4>2
    <3> QED BY <3>1, <3>2, <1>13
  <2>11. ASSUME NEW c \in pool PROVE own[c] = {} /\ Carried[c] \cap items = {}
    <3>1. c \in y.pool /\ c # e /\ c \in Masters \cup Foes
      BY <1>12, <1>13
    <3>2. y.own[c] = {} /\ Carried[c] \cap y.items = {}
      BY <3>1, <1>8 DEF Lying
    <3>3. Carried[c] \cap Carried[e] = {}
      BY <3>1, <2>4, TurnAssumption DEF TurnAssumption
    <3> QED BY <3>1, <3>2, <3>3, <1>11, <1>13
  <2> QED BY <2>5, <2>6, <2>7, <2>8, <2>9, <2>10, <2>11 DEF Lying
<1>22. Sound(z)
  BY <1>14, <1>16, <1>17, <1>18, <1>19, <1>20, <1>21 DEF Sound
<1>23. Settled(z)
  <2>1. e \notin w.hurt
    BY <1>1 DEF Unborn
  <2> QED BY <2>1, <1>8, <1>14 DEF Settled
<1> QED BY <1>9, <1>22, <1>23 DEF Done

\* One who has lost heart leaves, even if it fell by the blow.
LEMMA TimidIsDone ==
    ASSUME NEW w, Sound(w), Settled(w), NEW n \in Posts, NEW u \in BATTLE_Timid(w, n)
    PROVE  Done(u, n)
<1>1. w \in Battles
  BY DEF Sound
<1>2. PICK d \in Targets(w, 0) \cup Targets(w, 1) : \E X \in SUBSET {d}, U \in SUBSET {d} :
        LET v == Goes(Struck(w, X, U), w.entry[d])
        IN  u = [v EXCEPT !.fled = @ \cup (v.hurt \cap Masters \cap {w.entry[d]})]
  BY DEF BATTLE_Timid
<1>3. d \in Posts /\ w.entry[d] # Vacant /\ w.entry[d] \in Fighters
  BY <1>1, TargetFacts
<1>4. PICK X \in SUBSET {d}, U \in SUBSET {d} :
        LET v == Goes(Struck(w, X, U), w.entry[d])
        IN  u = [v EXCEPT !.fled = @ \cup (v.hurt \cap Masters \cap {w.entry[d]})]
  BY <1>2
<1> DEFINE f == w.entry[d]
           y == Struck(w, X, U)
           v == Goes(y, f)
           more == v.hurt \cap Masters \cap {f}
           z == [v EXCEPT !.fled = @ \cup more]
<1>5. u = z
  BY <1>4
<1>6. X \subseteq Posts /\ (\A x \in X : w.entry[x] # Vacant) /\ U \subseteq Int
  BY <1>3, PostsFacts
<1>7. Sound(y) /\ y.entry = w.entry /\ y.die = w.die /\ y.fled = w.fled /\ y.hurt = w.hurt \cup At(w, X)
  BY <1>6, StruckKeeps
<1>8. \A g \in At(w, X) : g = f
  BY DEF At
<1> HIDE DEF y
<1>9. In(y, f) /\ SettledBut(y, f)
  <2>1. In(y, f)
    BY <1>3, <1>7 DEF In
  <2>2. SettledBut(y, f)
    <3> HIDE DEF f
    <3> QED BY <1>7, <1>8 DEF SettledBut, Settled
  <2> QED BY <2>1, <2>2
<1>10. CASE f \notin Masters
  <2>1. Sound(v) /\ Settled(v)
    BY <1>3, <1>7, <1>9, <1>10, GoesKeeps
  <2>2. more = {}
    BY <1>10
  <2> HIDE DEF v, more
  <2>3. z = v
    <3>1. v.fled \cup more = v.fled
      BY <2>2
    <3> QED BY <3>1, <2>1 DEF Sound, Battles
  <2> QED BY <1>5, <2>1, <2>3 DEF Done
<1>11. CASE f \in Masters
  <2>1. v = BATTLE_Exit(y, f)
    BY <1>11, KindsFacts DEF Goes
  <2> DEFINE x == BATTLE_Exit(y, f)
             c == [x EXCEPT !.fled = @ \cup (x.hurt \cap Masters \cap {f})]
  <2>2. Sound(c) /\ Settled(c)
    BY <1>7, <1>9, <1>11, PlayerGoes
  <2>3. z = c
    BY <2>1
  <2> HIDE DEF c, z
  <2> QED BY <1>5, <2>2, <2>3 DEF Done
<1> QED BY <1>10, <1>11

\* Whatever one does.
LEMMA DoesKeeps ==
    ASSUME NEW w, Sound(w), Settled(w), NEW n \in Posts, w.entry[n] # Vacant, NEW u \in Does(w, n)
    PROVE  Done(u, n)
<1>1. CASE u \in BATTLE_S_AttackDamage(w, n) \cup MAGIC_DirectUse(w, n) \cup DeepPoison(w, n)
  BY <1>1, HitsAreDone
<1>2. CASE u \in Revive(w, n) \cup BATTLE_Capture(w, n) \cup BATTLE_Escape(w, n)
  BY <1>2, LeaversAreDone
<1>3. CASE u \in PetCommand(w, n)
  BY <1>3, PetCommandIsDone
<1>4. CASE u \in BATTLE_S_Roar(w, n)
  BY <1>4, RoarIsDone
<1>5. CASE u \in BATTLE_LostEscape(w, n) \cup BATTLE_Abduct(w, n)
  BY <1>5, AbductIsDone
<1>6. CASE u \in BATTLE_Steal(w, n)
  BY <1>6, StealIsDone
<1>7. CASE u \in BATTLE_E_ENEMYHELP(w, n)
  BY <1>7, HelpIsDone
<1>8. CASE u \in BATTLE_Timid(w, n)
  BY <1>8, TimidIsDone
<1> QED BY <1>1, <1>2, <1>3, <1>4, <1>5, <1>6, <1>7, <1>8 DEF Does

----------------------------------------------------------------------------
\* Blows, and what they bring.

\* Some of those in the battle are struck, and others get what they leave.
LEMMA BlowsKeep ==
    ASSUME NEW w, Sound(w), NEW X, X \subseteq Posts, \A x \in X : w.entry[x] # Vacant, NEW U, U \subseteq Int,
           NEW L, \A n \in L : w.entry[n] # Vacant, NEW u \in AddExpItem(Struck(w, X, U), L)
    PROVE  Sound(u) /\ Settled(u)
<1> DEFINE y == Struck(w, X, U)
<1>1. Sound(y) /\ y.entry = w.entry
  BY StruckKeeps
<1>2. u \in AddExpItem(y, L)
  OBVIOUS
<1> HIDE DEF y
<1>3. \A n \in L : y.entry[n] # Vacant
  BY <1>1
<1>4. Sound(u) /\ (Settled(y) \/ (\A n \in L : y.entry[n] # Vacant) => Settled(u))
  BY <1>1, <1>2, AddExpKeeps
<1> QED BY <1>3, <1>4

\* A blow is answered.
LEMMA AnswersKeep ==
    ASSUME NEW w, Sound(w), NEW n \in Posts, w.entry[n] # Vacant, NEW d \in Posts, w.entry[d] # Vacant,
           NEW u \in Answers(w, n, d)
    PROVE  Sound(u) /\ Settled(u)
<1> DEFINE Answer(a, v) == UNION {AddExpItem(Struck(w, {v}, U), {a}) : U \in {{}, {n + d - a}}}
<1>1. PICK a \in {n, d} : u \in Answer(a, n) \cup Answer(a, d)
  BY DEF Answers
<1>2. PICK v \in {n, d} : u \in Answer(a, v)
  BY <1>1
<1>3. PICK U \in {{}, {n + d - a}} : u \in AddExpItem(Struck(w, {v}, U), {a})
  BY <1>2
<1> DEFINE X == {v}
           L == {a}
<1>4. U \subseteq Int
  <2>1. n \in Int /\ d \in Int /\ a \in Int
    BY PostsFacts
  <2> QED BY <2>1
<1>5. X \subseteq Posts /\ (\A x \in X : w.entry[x] # Vacant) /\ \A m \in L : w.entry[m] # Vacant
  OBVIOUS
<1>6. u \in AddExpItem(Struck(w, X, U), L)
  BY <1>3
<1> HIDE DEF X, L
<1>7. Sound(u) /\ Settled(u)
  BY <1>4, <1>5, <1>6, BlowsKeep
<1> QED BY <1>7

\* An attack with all the blows that answer it.
LEMMA AttackKeeps ==
    ASSUME NEW w, Sound(w), NEW n \in Posts, w.entry[n] # Vacant, NEW u \in Attack(w, n)
    PROVE  Sound(u) /\ Settled(u)
<1> DEFINE L == {n}
           once == Blows(w, n, {n})
           Foe(v) == UNION {Targets(v, s) : s \in {0, 1}} \ {n}
           more == {v \in once : v.entry[n] = w.entry[n] /\ ~ Down(v, v.entry[n])}
<1>1. ASSUME NEW v \in once PROVE Sound(v) /\ Settled(v)
  <2>1. v \in Blows(w, n, L)
    OBVIOUS
  <2>2. \A m \in L : w.entry[m] # Vacant
    OBVIOUS
  <2> HIDE DEF L
  <2>3. PICK X \in UNION {SUBSET (Targets(w, s) \cup {n}) : s \in {0, 1}} :
          v \in UNION {AddExpItem(Struck(w, X, U), L) : U \in SUBSET X}
    BY <2>1 DEF Blows
  <2>4. PICK U \in SUBSET X : v \in AddExpItem(Struck(w, X, U), L)
    BY <2>3
  <2>5. \A x \in X : x = n \/ x \in Targets(w, 0) \/ x \in Targets(w, 1)
    OBVIOUS
  <2>6. X \subseteq Posts /\ (\A x \in X : w.entry[x] # Vacant)
    BY <2>5 DEF Targets
  <2>7. U \subseteq Int
    BY <2>6, PostsFacts
  <2> QED BY <2>2, <2>4, <2>6, <2>7, BlowsKeep
<1>2. u \in once \/ \E v \in more : u \in UNION {Answers(v, n, d) : d \in Foe(v)}
  BY DEF Attack
<1> HIDE DEF once
<1>3. ASSUME NEW v \in more, u \in UNION {Answers(v, n, d) : d \in Foe(v)} PROVE Sound(u) /\ Settled(u)
  <2>1. PICK d \in Foe(v) : u \in Answers(v, n, d)
    BY <1>3
  <2>2. d \in Posts /\ v.entry[d] # Vacant
    BY DEF Targets
  <2>3. Sound(v) /\ v.entry[n] # Vacant
    BY <1>1
  <2> HIDE DEF more, Foe
  <2> QED BY <2>1, <2>2, <2>3, AnswersKeep
<1> QED BY <1>1, <1>2, <1>3

----------------------------------------------------------------------------
\* What is done for every place at the end of a turn, and of the battle.


\* p takes what it can carry, and the rest is ended.
LEMMA GoldKeeps ==
    ASSUME NEW w, Sound(w), Settled(w), NEW s \in Seats, NEW u \in GetExpGold(w, s)
    PROVE  Sound(u) /\ Settled(u)
<1> DEFINE p == w.entry[s]
           room == BoxMax - Cardinality(w.own[p])
<1>1. /\ w \in Battles /\ Taken(w.worth, w.earned, w.own) /\ Lying(w.own, w.got, w.items, w.lost, w.pool)
      /\ w.own \in [Masters \cup Foes -> SUBSET Loot] /\ w.got \in [Seats -> SUBSET Loot] /\ w.items \subseteq Loot
      /\ w.pool \subseteq Foes
  BY Fields DEF Sound
<1>2. CASE p \notin Masters \/ p \in w.die
  BY <1>2 DEF GetExpGold
<1>3. CASE ~ (p \notin Masters \/ p \in w.die)
  <2>1. PICK T \in Fitting(w.got[s], room) :
          u = [w EXCEPT !.own[p] = @ \cup T, !.got[s] = {}, !.items = @ \ (w.got[s] \ T)]
    BY <1>3 DEF GetExpGold
  <2> DEFINE own == [w.own EXCEPT ![p] = @ \cup T]
             got == [w.got EXCEPT ![s] = {}]
             items == w.items \ (w.got[s] \ T)
             y == [w EXCEPT !.own = own, !.got = got, !.items = items]
  <2>2. u = y
    BY <2>1
  <2>3. p \in Masters /\ p \in Masters \cup Foes
    BY <1>3
  <2>4. T \subseteq w.got[s]
    BY DEF Fitting
  <2> HIDE DEF p
  <2>5. own \in [Masters \cup Foes -> SUBSET Loot] /\ got \in [Seats -> SUBSET Loot] /\ items \subseteq Loot
    <3>1. T \subseteq Loot
      BY <2>4, <1>1
    <3> QED BY <3>1, <2>3, <1>1
  <2>6. /\ \A x \in Masters \cup Foes : \A i : i \in own[x] <=> i \in w.own[x] \/ (x = p /\ i \in T)
        /\ \A t \in Seats : \A i : i \in got[t] <=> i \in w.got[t] /\ t # s
        /\ \A i : i \in items <=> i \in w.items /\ (i \notin w.got[s] \/ i \in T)
    BY <1>1
  <2> HIDE DEF own, got, items
  <2>7. /\ y \in Battles /\ y.entry = w.entry /\ y.hurt = w.hurt /\ y.die = w.die /\ y.fled = w.fled /\ y.out = w.out
        /\ y.got = got /\ y.own = own /\ y.items = items /\ y.pool = w.pool /\ y.worth = w.worth
        /\ y.earned = w.earned /\ y.lost = w.lost
    BY <1>1, <2>5 DEF Battles
  <2> HIDE DEF y
  <2>8. Taken(w.worth, w.earned, own)
    <3>1. \A e \in Foes : e # p
      BY <2>3, KindsFacts
    <3> QED BY <3>1, <1>1, <2>6 DEF Taken
  <2>9. Lying(own, got, items, w.lost, w.pool)
    <3>1. ASSUME NEW x \in Masters \cup Foes, NEW z \in Masters \cup Foes, NEW i \in own[x], i \in own[z] PROVE x = z
      <4>1. (i \in w.own[x] \/ (x = p /\ i \in T)) /\ (i \in w.own[z] \/ (z = p /\ i \in T))
        BY <2>6, <3>1
      <4>2. i \in T => i \notin w.own[x] /\ i \notin w.own[z]
        BY <2>4, <1>1 DEF Lying
      <4>3. i \in w.own[x] /\ i \in w.own[z] => x = z
        BY <1>1 DEF Lying
      <4> QED BY <4>1, <4>2, <4>3
    <3>2. \A r, t \in Seats : \A i \in got[r] : i \in got[t] => r = t
      BY <2>6, <1>1 DEF Lying
    <3>3. ASSUME NEW x \in Masters \cup Foes, NEW t \in Seats, NEW i \in own[x], i \in got[t] PROVE FALSE
      <4>1. i \in w.got[t] /\ t # s /\ (i \in w.own[x] \/ i \in T)
        BY <2>6, <3>3
      <4>2. i \in T => t = s
        BY <4>1, <2>4, <1>1 DEF Lying
      <4>3. i \notin w.own[x]
        BY <4>1, <1>1 DEF Lying
      <4> QED BY <4>1, <4>2, <4>3
    <3>4. ASSUME NEW x \in Masters \cup Foes, NEW i \in own[x] PROVE i \in items
      <4>1. i \in w.own[x] \/ i \in T
        BY <2>6
      <4>2. i \in T => i \in w.items
        BY <2>4, <1>1 DEF Lying
      <4>3. i \in w.own[x] => i \in w.items /\ i \notin w.got[s]
        BY <1>1 DEF Lying
      <4> QED BY <4>1, <4>2, <4>3, <2>6
    <3>5. ASSUME NEW t \in Seats, NEW i \in got[t] PROVE i \in items
      <4>1. i \in w.got[t] /\ t # s
        BY <2>6
      <4>2. i \in w.items /\ i \notin w.got[s]
        BY <4>1, <1>1 DEF Lying
      <4> QED BY <4>2, <2>6
    <3>6. ASSUME NEW i \in items
          PROVE  i \in w.lost \/ (\E x \in Masters \cup Foes : i \in own[x]) \/ \E t \in Seats : i \in got[t]
      <4>1. i \in w.items /\ (i \notin w.got[s] \/ i \in T)
        BY <2>6
      <4>2. i \in w.lost \/ (\E x \in Masters \cup Foes : i \in w.own[x]) \/ \E t \in Seats : i \in w.got[t]
        BY <4>1, <1>1 DEF Lying
      <4>3. i \in T => i \in own[p]
        BY <2>3, <2>6
      <4>4. \A t \in Seats : i \in w.got[t] => i \in got[t] \/ i \in T
        BY <4>1, <2>6
      <4> QED BY <4>2, <4>3, <4>4, <2>3, <2>6
    <3>7. ASSUME NEW e \in w.pool PROVE own[e] = {} /\ Carried[e] \cap items = {}
      <4>1. e \in Masters \cup Foes /\ e # p
        BY <2>3, <1>1, KindsFacts
      <4>2. w.own[e] = {} /\ Carried[e] \cap w.items = {}
        BY <1>1 DEF Lying
      <4> QED BY <4>1, <4>2, <2>6
    <3> QED BY <3>1, <3>2, <3>3, <3>4, <3>5, <3>6, <3>7 DEF Lying
  <2>10. Sound(y) /\ Settled(y)
    BY <2>7, <2>8, <2>9 DEF Sound, Settled
  <2> QED BY <2>2, <2>10
<1> QED BY <1>2, <1>3

\* The one at a place is discharged.
LEMMA DischargedKeeps ==
    ASSUME NEW w, Sound(w), Settled(w), NEW n \in Posts, NEW u \in Discharged(w, n)
    PROVE  Sound(u) /\ Settled(u)
<1>1. PICK v \in IF n \in Seats THEN GetExpGold(w, n) ELSE {w} : u = BATTLE_Exit(v, w.entry[n])
  BY DEF Discharged
<1>2. Sound(v) /\ Settled(v)
  BY GoldKeeps
<1>3. w.entry[n] \in Fighters \cup {Vacant}
  BY Fields DEF Sound
<1> QED BY <1>1, <1>2, <1>3, ExitSettled

\* What nobody has taken is ended.
LEMMA DeleteKeeps ==
    ASSUME NEW w, Sound(w), Settled(w)
    PROVE  Sound(DeleteItem(w)) /\ Settled(DeleteItem(w))
<1> DEFINE items == w.items \ UNION {w.got[s] : s \in Seats}
           got == [s \in Seats |-> {}]
           y == [w EXCEPT !.items = items, !.got = got]
<1>1. /\ w \in Battles /\ Lying(w.own, w.got, w.items, w.lost, w.pool) /\ w.items \subseteq Loot
  BY Fields DEF Sound
<1>2. y = DeleteItem(w)
  BY DEF DeleteItem
<1>3. /\ got \in [Seats -> SUBSET Loot] /\ (\A s \in Seats : got[s] = {})
      /\ \A i : i \in items <=> i \in w.items /\ \A s \in Seats : i \notin w.got[s]
  OBVIOUS
<1>4. items \subseteq Loot
  BY <1>1
<1> HIDE DEF items, got
<1>5. /\ y \in Battles /\ y.entry = w.entry /\ y.hurt = w.hurt /\ y.die = w.die /\ y.fled = w.fled /\ y.out = w.out
      /\ y.got = got /\ y.own = w.own /\ y.items = items /\ y.pool = w.pool /\ y.worth = w.worth
      /\ y.earned = w.earned /\ y.lost = w.lost
  BY <1>1, <1>3, <1>4 DEF Battles
<1> HIDE DEF y
<1>6. Lying(w.own, got, items, w.lost, w.pool)
  <2>1. \A x \in Masters \cup Foes : w.own[x] \subseteq items
    BY <1>1, <1>3 DEF Lying
  <2>2. \A i \in items : i \in w.lost \/ \E x \in Masters \cup Foes : i \in w.own[x]
    BY <1>1, <1>3 DEF Lying
  <2>3. \A e \in w.pool : w.own[e] = {} /\ Carried[e] \cap items = {}
    BY <1>1, <1>3 DEF Lying
  <2> QED BY <2>1, <2>2, <2>3, <1>1, <1>3 DEF Lying
<1>7. Sound(y) /\ Settled(y)
  BY <1>5, <1>6 DEF Sound, Settled
<1> QED BY <1>2, <1>7

----------------------------------------------------------------------------
\* What is done for every place keeps what each of its steps keeps.

Leaving(v, n, X) == {IF n \in X THEN BATTLE_Exit(v, v.entry[n]) ELSE v}

\* The fallen of a side leave.
LEMMA LeavingKeeps ==
    ASSUME NEW w, Sound(w), Settled(w), NEW X,
           NEW u \in AllLeave(w, X)
    PROVE  Sound(u) /\ Settled(u)
<1> DEFINE G(h) == [i \in 0..20 |-> IF i = 0 THEN {w}
                                    ELSE IF i - 1 \in Posts THEN UNION {Leaving(v, i - 1, X) : v \in h[i - 1]}
                                    ELSE h[i - 1]]
           C == CHOOSE h : h = G(h)
           B == {v \in Battles : Sound(v) /\ Settled(v)}
           t == [n \in Posts |-> [v \in B |-> Leaving(v, n, X)]]
           Q == [i \in 0..20 |-> B]
<1>1. u \in C[20]
  BY DEF AllLeave, InOrder, Leaving
<1>2. w \in B
  BY DEF Sound
<1>3. ASSUME NEW n \in Posts, NEW v \in B PROVE Leaving(v, n, X) \subseteq B
  <2>0. Sound(v) /\ Settled(v) /\ v \in Battles
    OBVIOUS
  <2>1. v.entry[n] \in Fighters \cup {Vacant}
    BY <2>0, Fields
  <2>2. Sound(BATTLE_Exit(v, v.entry[n])) /\ Settled(BATTLE_Exit(v, v.entry[n]))
    BY <2>0, <2>1, ExitSettled
  <2>3. BATTLE_Exit(v, v.entry[n]) \in Battles
    BY <2>2 DEF Sound
  <2> QED BY <2>0, <2>2, <2>3 DEF Leaving
<1>4. t \in [Posts -> [B -> SUBSET B]] /\ \A n \in Posts, v \in B : t[n][v] = Leaving(v, n, X)
  <2> HIDE DEF B
  <2> QED BY <1>3
<1> HIDE DEF t, C, B
<1>5. PICK h \in [0..20 -> SUBSET B] : Looped(h, w, t)
  BY <1>2, <1>4, LoopExists
<1>6. h = G(h)
  <2>1. \A i \in 0..20 : i # 0 => h[i - 1] \subseteq B
    BY <1>5
  <2>2. \A i \in 0..20 : i # 0 /\ i - 1 \in Posts => \A v \in h[i - 1] : t[i - 1][v] = Leaving(v, i - 1, X)
    BY <1>4, <2>1
  <2>3. ASSUME NEW i \in 0..20, i # 0, i - 1 \in Posts
        PROVE  UNION {t[i - 1][v] : v \in h[i - 1]} = UNION {Leaving(v, i - 1, X) : v \in h[i - 1]}
    <3>1. {t[i - 1][v] : v \in h[i - 1]} = {Leaving(v, i - 1, X) : v \in h[i - 1]}
      BY <2>2, <2>3
    <3> QED BY <3>1
  <2>4. h = [i \in 0..20 |-> IF i = 0 THEN {w}
                             ELSE IF i - 1 \in Posts THEN UNION {t[i - 1][v] : v \in h[i - 1]}
                             ELSE h[i - 1]]
    BY <1>5 DEF Looped
  <2> QED BY <2>3, <2>4
<1>7. C = G(C)
  <2>1. \E g : g = G(g)
    BY <1>6
  <2> HIDE DEF G
  <2> QED BY <2>1, Zenon DEF C
<1>8. C[0] = {w} /\ \A i \in 1..20 : C[i] = IF i - 1 \in Posts THEN UNION {Leaving(v, i - 1, X) : v \in C[i - 1]} ELSE C[i - 1]
  <2> DEFINE E == G(C)
  <2>1. E[0] = {w} /\ \A i \in 1..20 : E[i] = IF i - 1 \in Posts THEN UNION {Leaving(v, i - 1, X) : v \in C[i - 1]} ELSE C[i - 1]
    OBVIOUS
  <2>2. C = E
    BY <1>7
  <2> HIDE DEF E
  <2> QED BY <2>1, <2>2
<1> HIDE DEF G
<1>9. \A i \in 0..20 : Q[i] = B
  OBVIOUS
<1>10. C[0] \subseteq Q[0]
  BY <1>2, <1>8, <1>9
<1>11. ASSUME NEW i \in 1..20, C[i - 1] \subseteq Q[i - 1] PROVE C[i] \subseteq Q[i]
  <2>1. Q[i] = B /\ Q[i - 1] = B
    BY <1>9
  <2>2. CASE i - 1 \notin Posts
    BY <2>1, <2>2, <1>8, <1>11
  <2>3. CASE i - 1 \in Posts
    <3>1. \A v \in C[i - 1] : Leaving(v, i - 1, X) \subseteq B
      BY <2>1, <2>3, <1>3, <1>11
    <3>2. C[i] = UNION {Leaving(v, i - 1, X) : v \in C[i - 1]}
      BY <2>3, <1>8
    <3> QED BY <2>1, <3>1, <3>2
  <2> QED BY <2>2, <2>3
<1> HIDE DEF Q
<1>12. C[20] \subseteq Q[20]
  BY <1>10, <1>11, LoopIn
<1>13. u \in B
  BY <1>1, <1>9, <1>12
<1> QED BY <1>13 DEF B

\* All are discharged.
LEMMA DischargingKeeps ==
    ASSUME NEW w, Sound(w), Settled(w), NEW u \in InOrder(Discharged, w)
    PROVE  Sound(u) /\ Settled(u)
<1> DEFINE G(h) == [i \in 0..20 |-> IF i = 0 THEN {w}
                                    ELSE IF i - 1 \in Posts THEN UNION {Discharged(v, i - 1) : v \in h[i - 1]}
                                    ELSE h[i - 1]]
           C == CHOOSE h : h = G(h)
           B == {v \in Battles : Sound(v) /\ Settled(v)}
           t == [n \in Posts |-> [v \in B |-> Discharged(v, n)]]
           Q == [i \in 0..20 |-> B]
<1>1. u \in C[20]
  BY DEF InOrder
<1>2. w \in B
  BY DEF Sound
<1>3. ASSUME NEW n \in Posts, NEW v \in B PROVE Discharged(v, n) \subseteq B
  <2>1. ASSUME NEW x \in Discharged(v, n) PROVE x \in B
    <3>1. Sound(x) /\ Settled(x)
      BY DischargedKeeps
    <3> QED BY <3>1 DEF Sound
  <2> QED BY <2>1
<1>4. t \in [Posts -> [B -> SUBSET B]] /\ \A n \in Posts, v \in B : t[n][v] = Discharged(v, n)
  <2> HIDE DEF B
  <2> QED BY <1>3
<1> HIDE DEF t, C, B
<1>5. PICK h \in [0..20 -> SUBSET B] : Looped(h, w, t)
  BY <1>2, <1>4, LoopExists
<1>6. h = G(h)
  <2>1. \A i \in 0..20 : i # 0 => h[i - 1] \subseteq B
    BY <1>5
  <2>2. \A i \in 0..20 : i # 0 /\ i - 1 \in Posts => \A v \in h[i - 1] : t[i - 1][v] = Discharged(v, i - 1)
    BY <1>4, <2>1
  <2>3. ASSUME NEW i \in 0..20, i # 0, i - 1 \in Posts
        PROVE  UNION {t[i - 1][v] : v \in h[i - 1]} = UNION {Discharged(v, i - 1) : v \in h[i - 1]}
    <3>1. {t[i - 1][v] : v \in h[i - 1]} = {Discharged(v, i - 1) : v \in h[i - 1]}
      BY <2>2, <2>3
    <3> QED BY <3>1
  <2>4. h = [i \in 0..20 |-> IF i = 0 THEN {w}
                             ELSE IF i - 1 \in Posts THEN UNION {t[i - 1][v] : v \in h[i - 1]}
                             ELSE h[i - 1]]
    BY <1>5 DEF Looped
  <2> QED BY <2>3, <2>4
<1>7. C = G(C)
  <2>1. \E g : g = G(g)
    BY <1>6
  <2> HIDE DEF G
  <2> QED BY <2>1, Zenon DEF C
<1>8. C[0] = {w} /\ \A i \in 1..20 : C[i] = IF i - 1 \in Posts THEN UNION {Discharged(v, i - 1) : v \in C[i - 1]} ELSE C[i - 1]
  <2> DEFINE E == G(C)
  <2>1. E[0] = {w} /\ \A i \in 1..20 : E[i] = IF i - 1 \in Posts THEN UNION {Discharged(v, i - 1) : v \in C[i - 1]} ELSE C[i - 1]
    OBVIOUS
  <2>2. C = E
    BY <1>7
  <2> HIDE DEF E
  <2> QED BY <2>1, <2>2
<1> HIDE DEF G
<1>9. \A i \in 0..20 : Q[i] = B
  OBVIOUS
<1>10. C[0] \subseteq Q[0]
  BY <1>2, <1>8, <1>9
<1>11. ASSUME NEW i \in 1..20, C[i - 1] \subseteq Q[i - 1] PROVE C[i] \subseteq Q[i]
  <2>1. Q[i] = B /\ Q[i - 1] = B
    BY <1>9
  <2>2. CASE i - 1 \notin Posts
    BY <2>1, <2>2, <1>8, <1>11
  <2>3. CASE i - 1 \in Posts
    <3>1. \A v \in C[i - 1] : Discharged(v, i - 1) \subseteq B
      BY <2>1, <2>3, <1>3, <1>11
    <3>2. C[i] = UNION {Discharged(v, i - 1) : v \in C[i - 1]}
      BY <2>3, <1>8
    <3> QED BY <2>1, <3>1, <3>2
  <2> QED BY <2>2, <2>3
<1> HIDE DEF Q
<1>12. C[20] \subseteq Q[20]
  BY <1>10, <1>11, LoopIn
<1>13. u \in B
  BY <1>1, <1>9, <1>12
<1> QED BY <1>13 DEF B

----------------------------------------------------------------------------
\* The actions.

\* The inductive invariant
TInv == Sound(fight) /\ Settled(fight)

\* The least of some places.
LEMMA LeastSeat ==
    ASSUME NEW T, T \subseteq Seats, T # {}
    PROVE  LET s == CHOOSE s \in T : \A t \in T : s <= t
           IN  s \in T
<1>1. T \in SUBSET Nat
  BY PostsFacts
<1>2. \E k \in T : \A j \in T : k <= j
  BY <1>1, FirstOfMany
<1> QED BY <1>2

\* A player comes to the rescue, with its pet or without.
LEMMA RescueKeeps == ASSUME TInv, NEW p \in Masters, RescueEntry(p) PROVE TInv'
<1> DEFINE free == {s \in Seats : fight.entry[s] = Vacant}
           s == CHOOSE s \in free : \A t \in free : s <= t
<1>1. ~ In(fight, p) /\ free # {}
  BY DEF RescueEntry
<1>2. PICK b \in {Vacant} \cup {b \in Kennel : b[1] = p} :
        LET v == PetDefaultEntry(NewEntry([fight EXCEPT !.out[p] = b], p, s), p, s)
        IN  fight' = [v EXCEPT !.late = @ \cup ({p, v.entry[s + 5]} \ {Vacant})]
  BY DEF RescueEntry
<1>3. s \in Seats /\ fight.entry[s] = Vacant
  <2>1. free \subseteq Seats
    OBVIOUS
  <2>2. s \in free
    <3> HIDE DEF free
    <3> QED BY <2>1, <1>1, LeastSeat
  <2> QED BY <2>2
<1> HIDE DEF s
<1> DEFINE x == [fight EXCEPT !.out[p] = b]
           y == NewEntry(x, p, s)
           v == PetDefaultEntry(y, p, s)
           more == {p, v.entry[s + 5]} \ {Vacant}
           z == [v EXCEPT !.late = @ \cup more]
<1>4. fight' = z
  BY <1>2
<1>5. Sound(fight) /\ Settled(fight) /\ fight \in Battles
  BY DEF TInv, Sound
<1>6. PetGone(fight, p)
  BY <1>1, PostsFacts DEF PetGone, In
<1>7. Sound(x) /\ (Settled(fight) => Settled(x))
  BY <1>5, <1>6, OutKeeps
<1>8. x.entry = fight.entry
  BY <1>5 DEF Battles
<1> HIDE DEF x
<1>9. ~ In(x, p) /\ x.entry[s] = Vacant
  BY <1>1, <1>3, <1>8 DEF In
<1>10. Sound(y) /\ Settled(y) /\ y.entry[s] = p /\ PetGone(y, p)
  BY <1>3, <1>5, <1>7, <1>9, PlayerEnters
<1> HIDE DEF y
<1>11. Sound(v) /\ Settled(v)
  BY <1>3, <1>10, PetEntryKeeps
<1> HIDE DEF v
<1>12. v \in Battles /\ v.entry \in [Posts -> Fighters \cup {Vacant}]
  BY <1>11, Fields DEF Sound
<1>13. more \subseteq Fighters
  <2>1. v.entry[s + 5] \in Fighters \cup {Vacant}
    BY <1>3, <1>12, PostsFacts
  <2> QED BY <2>1, KindsFacts
<1> HIDE DEF more
<1>14. /\ z \in Battles /\ z.entry = v.entry /\ z.hurt = v.hurt /\ z.die = v.die /\ z.fled = v.fled /\ z.out = v.out
       /\ z.got = v.got /\ z.own = v.own /\ z.items = v.items /\ z.pool = v.pool /\ z.worth = v.worth
       /\ z.earned = v.earned /\ z.lost = v.lost
  BY <1>12, <1>13 DEF Battles
<1> HIDE DEF z
<1>15. Sound(z) /\ Settled(z)
  BY <1>11, <1>14 DEF Sound, Settled
<1> QED BY <1>4, <1>15 DEF TInv

\* A player leaves before the turn.
LEMMA LeaveKeeps == ASSUME TInv, NEW p \in Masters, Leave(p) PROVE TInv'
<1>1. Sound(fight) /\ Settled(fight) /\ p \in Fighters
  BY KindsFacts DEF TInv
<1>2. fight' = BATTLE_Exit(fight, p)
  BY DEF Leave
<1>3. Sound(BATTLE_Exit(fight, p)) /\ Settled(BATTLE_Exit(fight, p))
  BY <1>1, ExitSettled
<1> QED BY <1>2, <1>3 DEF TInv

\* The fields that tell whose turn it is do not matter.
LEMMA ModeKeeps ==
    ASSUME NEW v, Sound(v), Settled(v), NEW z, Wounded(v, z), z.hurt = v.hurt, z.die = v.die
    PROVE  Sound(z) /\ Settled(z)
<1>1. Sound(z)
  BY WoundsKeep
<1>2. Settled(z)
  BY DEF Wounded, Settled
<1> QED BY <1>1, <1>2

\* A turn begins.
LEMMA StartKeeps == ASSUME TInv, StartTurn PROVE TInv'
<1> DEFINE todo == Range(fight.entry) \ (fight.late \cup {Vacant})
           k == fight.turn + 1
           z == [fight EXCEPT !.mode = "turn", !.turn = k, !.ult = {}, !.todo = todo]
<1>1. fight' = z
  BY DEF StartTurn
<1>2. Sound(fight) /\ Settled(fight) /\ fight \in Battles /\ fight.entry \in [Posts -> Fighters \cup {Vacant}]
  BY Fields DEF TInv, Sound
<1>3. todo \subseteq Fighters
  BY <1>2 DEF Range
<1>31. k \in Nat
  BY <1>2, Fields
<1> HIDE DEF todo, k
<1>4. /\ z \in Battles /\ z.entry = fight.entry /\ z.hurt = fight.hurt /\ z.die = fight.die /\ z.fled = fight.fled
      /\ z.out = fight.out /\ z.got = fight.got /\ z.own = fight.own /\ z.items = fight.items /\ z.pool = fight.pool
      /\ z.worth = fight.worth /\ z.earned = fight.earned /\ z.lost = fight.lost
  BY <1>2, <1>3, <1>31 DEF Battles
<1> HIDE DEF z
<1>5. Wounded(fight, z)
  BY <1>4 DEF Wounded
<1>6. Sound(z) /\ Settled(z)
  BY <1>2, <1>4, <1>5, ModeKeeps
<1> QED BY <1>1, <1>6 DEF TInv

\* Who acts sits somewhere.
LEMMA ActingSits ==
    ASSUME TInv, NEW f \in Acting
    PROVE  f \in Fighters /\ PlaceOf(fight, f) \in Posts /\ fight.entry[PlaceOf(fight, f)] = f /\ f # Vacant
<1>1. fight \in Battles /\ In(fight, f) /\ f \in fight.todo
  BY DEF TInv, Sound, Acting
<1>2. f \in Fighters /\ f # Vacant
  BY <1>1, Fields, KindsFacts
<1> QED BY <1>1, <1>2, PlaceIs

\* A fighter attacks.
LEMMA AttackTurnKeeps == ASSUME TInv, NEW f, AttackTurn(f) PROVE TInv'
<1> DEFINE n == PlaceOf(fight, f)
<1>1. f \in Acting
  BY DEF AttackTurn
<1>2. PICK w \in Attack(fight, n) : fight' = Acted(Relife(w), {f})
  BY DEF AttackTurn
<1>3. n \in Posts /\ fight.entry[n] # Vacant
  BY <1>1, ActingSits
<1> HIDE DEF n
<1>4. Sound(fight)
  BY DEF TInv
<1>5. Sound(w) /\ Settled(w)
  BY <1>2, <1>3, <1>4, AttackKeeps
<1> DEFINE v == Relife(w)
           X == {f}
<1>6. Sound(v) /\ Settled(v)
  BY <1>5, RelifeKeeps
<1>7. fight' = Acted(v, X)
  BY <1>2
<1> HIDE DEF v, X
<1>8. Sound(Acted(v, X)) /\ Settled(Acted(v, X))
  BY <1>6, ActedKeeps
<1> QED BY <1>7, <1>8 DEF TInv

\* A fighter does something else.
LEMMA OtherTurnKeeps == ASSUME TInv, NEW f, OtherTurn(f) PROVE TInv'
<1> DEFINE n == PlaceOf(fight, f)
           L == {n}
           X == {f}
<1>1. f \in Acting
  BY DEF OtherTurn
<1>2. PICK w \in Does(fight, n) : \E v \in AddExpItem(Relife(w), L) : fight' = Acted(v, X)
  BY DEF OtherTurn
<1>3. n \in Posts /\ fight.entry[n] # Vacant
  BY <1>1, ActingSits
<1>4. \A m \in L : m = n
  OBVIOUS
<1> HIDE DEF n, L, X
<1>5. Sound(fight) /\ Settled(fight)
  BY DEF TInv
<1>6. Done(w, n)
  BY <1>2, <1>3, <1>5, DoesKeeps
<1> DEFINE r == Relife(w)
<1>7. Sound(r) /\ r.entry = w.entry /\ (Settled(w) => Settled(r))
  BY <1>6, RelifeKeeps DEF Done
<1>8. PICK v \in AddExpItem(r, L) : fight' = Acted(v, X)
  BY <1>2
<1> HIDE DEF r
<1>9. Settled(r) \/ (\A m \in L : r.entry[m] # Vacant)
  BY <1>4, <1>6, <1>7 DEF Done
<1>10. Sound(v) /\ (Settled(r) \/ (\A m \in L : r.entry[m] # Vacant) => Settled(v))
  BY <1>7, <1>8, AddExpKeeps
<1>11. Sound(Acted(v, X)) /\ Settled(Acted(v, X))
  BY <1>9, <1>10, ActedKeeps
<1> QED BY <1>8, <1>11 DEF TInv

\* Some strike at once.
LEMMA ComboKeeps == ASSUME TInv, NEW X \in SUBSET Acting, ComboTurn(X) PROVE TInv'
<1> DEFINE L == {PlaceOf(fight, f) : f \in X}
<1>1. PICK s \in {0, 1} : \E d \in Targets(fight, 1 - s) : \E v \in L \cup {d} : \E U \in {{}, {v}} :
                            \E w \in AddExpItem(Struck(fight, {v}, U), L) : fight' = Acted(Relife(w), X)
  BY DEF ComboTurn
<1>2. PICK d \in Targets(fight, 1 - s) : \E v \in L \cup {d} : \E U \in {{}, {v}} :
                            \E w \in AddExpItem(Struck(fight, {v}, U), L) : fight' = Acted(Relife(w), X)
  BY <1>1
<1>3. \A n \in L : n \in Posts /\ fight.entry[n] # Vacant
  BY ActingSits
<1>4. d \in Posts /\ fight.entry[d] # Vacant
  BY <1>2 DEF Targets
<1> HIDE DEF L
<1>5. PICK v \in L \cup {d} : \E U \in {{}, {v}} : \E w \in AddExpItem(Struck(fight, {v}, U), L) : fight' = Acted(Relife(w), X)
  BY <1>2
<1> DEFINE Y == {v}
<1>6. PICK U : /\ U = {} \/ U = {v}
               /\ \E w \in AddExpItem(Struck(fight, Y, U), L) : fight' = Acted(Relife(w), X)
  BY <1>5
<1>7. v \in Posts /\ fight.entry[v] # Vacant
  BY <1>3, <1>4
<1>8. Y \subseteq Posts /\ (\A x \in Y : fight.entry[x] # Vacant)
  BY <1>7
<1>9. U \subseteq Int
  BY <1>6, <1>7, PostsFacts
<1> HIDE DEF Y
<1>10. PICK w \in AddExpItem(Struck(fight, Y, U), L) : fight' = Acted(Relife(w), X)
  BY <1>6
<1>11. Sound(fight) /\ \A n \in L : fight.entry[n] # Vacant
  BY <1>3 DEF TInv
<1>12. Sound(w) /\ Settled(w)
  BY <1>8, <1>9, <1>10, <1>11, BlowsKeep
<1> DEFINE r == Relife(w)
<1>13. Sound(r) /\ Settled(r)
  BY <1>12, RelifeKeeps
<1>14. fight' = Acted(r, X)
  BY <1>10
<1> HIDE DEF r
<1>15. Sound(Acted(r, X)) /\ Settled(Acted(r, X))
  BY <1>13, ActedKeeps
<1> QED BY <1>14, <1>15 DEF TInv

\* A turn ends.
LEMMA EndKeeps == ASSUME TInv, EndTurn PROVE TInv'
<1> DEFINE lost == CountAlive(fight, 0) = {}
           over == lost \/ CountAlive(fight, 1) = {}
           Fallen(S) == {n \in S : fight.entry[n] \in fight.hurt}
           toGo == CASE lost -> {{}, Fallen(Lairs \cap 10..14)}
                     [] ~ lost /\ CountAlive(fight, 0) \subseteq fight.late -> {Fallen(Seats)}
                     [] OTHER -> {{}}
           m == IF over THEN "finish" ELSE "command"
<1>0. \E X \in toGo : \E w \in AllLeave(fight, X) : fight' = [w EXCEPT !.mode = m, !.todo = {}, !.late = {}]
  BY DEF EndTurn
<1>9. m \in {"finish", "command"}
  OBVIOUS
<1> HIDE DEF toGo, m
<1>1. PICK X, w : w \in AllLeave(fight, X) /\ fight' = [w EXCEPT !.mode = m, !.todo = {}, !.late = {}]
  BY <1>0
<1> DEFINE z == [w EXCEPT !.mode = m, !.todo = {}, !.late = {}]
<1>2. Sound(fight) /\ Settled(fight)
  BY DEF TInv
<1>3. Sound(w) /\ Settled(w)
  BY <1>1, <1>2, LeavingKeeps
<1>4. /\ z \in Battles /\ z.entry = w.entry /\ z.hurt = w.hurt /\ z.die = w.die /\ z.fled = w.fled
      /\ z.out = w.out /\ z.got = w.got /\ z.own = w.own /\ z.items = w.items /\ z.pool = w.pool
      /\ z.worth = w.worth /\ z.earned = w.earned /\ z.lost = w.lost
  BY <1>3, <1>9 DEF Battles, Sound
<1>5. fight' = z
  BY <1>1
<1> HIDE DEF z
<1>6. Wounded(w, z)
  BY <1>4 DEF Wounded
<1>7. Sound(z) /\ Settled(z)
  BY <1>3, <1>4, <1>6, ModeKeeps
<1> QED BY <1>5, <1>7 DEF TInv

\* The battle ends, and what was won is handed out.
LEMMA FinishKeeps == ASSUME TInv, Finish PROVE TInv'
<1>1. PICK w \in InOrder(Discharged, fight) : fight' = [DeleteItem(w) EXCEPT !.mode = "over"]
  BY DEF Finish
<1> DEFINE v == DeleteItem(w)
           z == [v EXCEPT !.mode = "over"]
<1>2. Sound(fight) /\ Settled(fight)
  BY DEF TInv
<1>3. Sound(w) /\ Settled(w)
  BY <1>1, <1>2, DischargingKeeps
<1>4. Sound(v) /\ Settled(v)
  BY <1>3, DeleteKeeps
<1>5. fight' = z
  BY <1>1
<1> HIDE DEF v
<1>6. /\ z \in Battles /\ z.entry = v.entry /\ z.hurt = v.hurt /\ z.die = v.die /\ z.fled = v.fled
      /\ z.out = v.out /\ z.got = v.got /\ z.own = v.own /\ z.items = v.items /\ z.pool = v.pool
      /\ z.worth = v.worth /\ z.earned = v.earned /\ z.lost = v.lost
  BY <1>4 DEF Battles, Sound
<1> HIDE DEF z
<1>7. Wounded(v, z)
  BY <1>6 DEF Wounded
<1>8. Sound(z) /\ Settled(z)
  BY <1>4, <1>6, <1>7, ModeKeeps
<1> QED BY <1>5, <1>8 DEF TInv

\* Every step.
LEMMA TurnStep == ASSUME TInv, [TurnNext]_fight PROVE TInv'
<1>1. CASE \E p \in Masters : RescueEntry(p) \/ Leave(p)
  BY <1>1, RescueKeeps, LeaveKeeps
<1>2. CASE StartTurn
  BY <1>2, StartKeeps
<1>3. CASE EndTurn
  BY <1>3, EndKeeps
<1>4. CASE Finish
  BY <1>4, FinishKeeps
<1>5. CASE \E f \in Acting : AttackTurn(f) \/ OtherTurn(f)
  BY <1>5, AttackTurnKeeps, OtherTurnKeeps
<1>6. CASE \E X \in SUBSET Acting : ComboTurn(X)
  BY <1>6, ComboKeeps
<1>7. CASE UNCHANGED fight
  BY <1>7 DEF TInv
<1> QED BY <1>1, <1>2, <1>3, <1>4, <1>5, <1>6, <1>7 DEF TurnNext

----------------------------------------------------------------------------
\* The start.

\* A battle is sound when it starts.
LEMMA StartIsSound ==
    ASSUME NEW p \in Masters, NEW k \in 0..10, NEW foes \in Injection(1..k, Foes),
           NEW pet \in {Vacant} \cup {b \in Kennel : b[1] = p}
    PROVE  Sound(StartOfBattle(p, pet, foes)) /\ Settled(StartOfBattle(p, pet, foes))
<1> DEFINE met == Range(foes)
           entry == [n \in Posts |->
                       CASE n = 0 -> p
                         [] n = 5 /\ pet # Vacant -> pet
                         [] n \in Lairs /\ n - 9 <= Len(foes) -> foes[n - 9]
                         [] OTHER -> Vacant]
           out == [m \in Masters |-> IF m = p THEN pet ELSE Vacant]
           got == [s \in Seats |-> {}]
           own == [x \in Masters \cup Foes |-> IF x \in Foes \ met THEN {} ELSE Carried[x]]
           items == UNION {Carried[x] : x \in Masters \cup met}
           pool == Foes \ met
           earned == [e \in Foes |-> 0]
           w == StartOfBattle(p, pet, foes)
<1>1. /\ foes \in Seq(Foes) /\ met \subseteq Foes /\ DOMAIN foes = 1..Len(foes) /\ Len(foes) \in Nat
      /\ \A i, j \in 1..Len(foes) : foes[i] = foes[j] => i = j
      /\ \A i \in 1..Len(foes) : foes[i] \in met
  <2>1. k \in Nat /\ foes \in [1..k -> Foes] /\ \A i, j \in 1..k : foes[i] = foes[j] => i = j
    BY DEF Injection, IsInjective
  <2>2. foes \in Seq(Foes)
    BY <2>1
  <2>3. DOMAIN foes = 1..Len(foes) /\ Len(foes) \in Nat
    BY <2>2
  <2>4. DOMAIN foes = 1..k
    BY <2>1
  <2>5. met \subseteq Foes /\ \A i \in DOMAIN foes : foes[i] \in met
    BY <2>1 DEF Range
  <2> QED BY <2>1, <2>2, <2>3, <2>4, <2>5
<1> HIDE DEF met
<1>2. /\ Carried \in [Masters \cup Foes -> SUBSET Loot]
      /\ \A x, y \in Masters \cup Foes : x # y => Carried[x] \cap Carried[y] = {}
  BY TurnAssumption DEF TurnAssumption
<1>3. /\ \A n \in Lairs : n \in Int /\ 10 <= n /\ n \in Posts /\ n # 0 /\ n # 5
      /\ \A s \in Seats : s \in Int /\ 0 <= s /\ s <= 4 /\ s \in Posts /\ s + 5 \in Posts /\ s \notin Lairs /\ s + 5 \notin Lairs
      /\ \A n \in Posts : n \in Int
      /\ \A n \in Posts : n \in Seats \/ n \in Lairs \/ (n - 5 \in Seats /\ n - 5 + 5 = n)
  <2>1. Lairs \subseteq 10..19 /\ Seats \subseteq 0..4
    BY TurnAssumption DEF TurnAssumption
  <2>2. (\A n \in Lairs : n \in Int /\ 10 <= n) /\ \A s \in Seats : s \in Int /\ 0 <= s /\ s <= 4
    BY <2>1
  <2> QED BY <2>2, PostsFacts
<1>4. pet \in Kennel \cup {Vacant} /\ (pet # Vacant => pet \in Kennel /\ pet \in Fighters /\ pet[1] = p) /\ p \in Fighters /\ p # Vacant
  BY KindsFacts
<1>5. \A n \in Lairs : IF n - 9 <= Len(foes) THEN entry[n] = foes[n - 9] /\ n - 9 \in 1..Len(foes) ELSE entry[n] = Vacant
  BY <1>1, <1>3
<1>6. \A n \in Posts : n \notin Lairs => entry[n] = IF n = 0 THEN p ELSE IF n = 5 THEN pet ELSE Vacant
  <2> SUFFICES ASSUME NEW n \in Posts, n \notin Lairs PROVE entry[n] = IF n = 0 THEN p ELSE IF n = 5 THEN pet ELSE Vacant
    OBVIOUS
  <2>1. CASE n = 0
    BY <2>1
  <2>2. CASE n = 5 /\ pet # Vacant
    BY <2>2
  <2>3. CASE n = 5 /\ pet = Vacant
    BY <2>3
  <2>4. CASE n # 0 /\ n # 5
    BY <2>4
  <2> QED BY <2>1, <2>2, <2>3, <2>4
<1>7. DOMAIN entry = Posts /\ entry = [n \in Posts |-> entry[n]]
  OBVIOUS
<1> HIDE DEF entry
<1>8. \A n \in Lairs : entry[n] \in Foes \cup {Vacant} /\ (entry[n] # Vacant => entry[n] \in met)
  BY <1>1, <1>5
<1>9. entry \in [Posts -> Fighters \cup {Vacant}]
  <2>1. \A n \in Posts : entry[n] \in Fighters \cup {Vacant}
    BY <1>4, <1>6, <1>8, KindsFacts
  <2> QED BY <2>1, <1>7
<1>10. Seated(entry)
  <2>1. ASSUME NEW s \in Seats PROVE entry[s] \in Masters \cup {Vacant} /\ entry[s + 5] \in Kennel \cup {Vacant}
    <3>1. s # 5 /\ s + 5 # 0
      BY <1>3
    <3>2. entry[s] = (IF s = 0 THEN p ELSE Vacant) /\ entry[s + 5] = (IF s + 5 = 5 THEN pet ELSE Vacant)
      BY <3>1, <1>3, <1>6
    <3> QED BY <3>2, <1>4
  <2>2. ASSUME NEW m \in Posts, NEW n \in Posts, entry[m] = entry[n], entry[m] # Vacant PROVE m = n
    <3>1. CASE m \in Lairs /\ n \in Lairs
      <4>1. /\ m - 9 \in 1..Len(foes) /\ n - 9 \in 1..Len(foes) /\ foes[m - 9] = foes[n - 9]
        BY <3>1, <2>2, <1>5
      <4>2. m - 9 = n - 9
        BY <4>1, <1>1
      <4> QED BY <4>2, <3>1, <1>3
    <3>2. CASE m \in Lairs /\ n \notin Lairs
      <4>1. entry[m] \in Foes /\ (entry[n] = p \/ entry[n] = pet)
        BY <3>2, <2>2, <1>6, <1>8
      <4> QED BY <4>1, <2>2, <1>4, KindsFacts
    <3>3. CASE m \notin Lairs /\ n \in Lairs
      <4>1. entry[n] \in Foes /\ (entry[m] = p \/ entry[m] = pet)
        BY <3>3, <2>2, <1>6, <1>8
      <4> QED BY <4>1, <2>2, <1>4, KindsFacts
    <3>4. CASE m \notin Lairs /\ n \notin Lairs
      <4>1. (m = 0 /\ entry[m] = p) \/ (m = 5 /\ entry[m] = pet)
        BY <3>4, <2>2, <1>6
      <4>2. (n = 0 /\ entry[n] = p) \/ (n = 5 /\ entry[n] = pet)
        BY <3>4, <2>2, <1>6
      <4>3. pet # Vacant => pet # p
        BY <1>4, KindsFacts
      <4> QED BY <4>1, <4>2, <4>3, <2>2
    <3> QED BY <3>1, <3>2, <3>3, <3>4
  <2> QED BY <2>1, <2>2, <1>8 DEF Seated
<1>11. out \in [Masters -> Kennel \cup {Vacant}] /\ out[p] = pet /\ \A q \in Masters : q # p => out[q] = Vacant
  BY <1>4
<1> HIDE DEF out
<1>12. WithPets(entry, out)
  <2>1. ASSUME NEW s \in Seats, entry[s + 5] # Vacant PROVE entry[s + 5][1] = entry[s] /\ out[entry[s]] = entry[s + 5]
    <3>1. s + 5 # 0
      BY <1>3
    <3>2. s + 5 = 5 /\ entry[s + 5] = pet
      BY <3>1, <2>1, <1>3, <1>6
    <3>3. s = 0
      BY <3>2, <1>3
    <3>4. entry[s] = p
      BY <3>3, <1>3, <1>6
    <3> QED BY <3>2, <3>4, <2>1, <1>4, <1>11
  <2>2. \A q \in Masters : out[q] # Vacant => out[q][1] = q
    BY <1>4, <1>11
  <2> QED BY <2>1, <2>2 DEF WithPets
<1>13. /\ own \in [Masters \cup Foes -> SUBSET Loot] /\ got \in [Seats -> SUBSET Loot] /\ earned \in [Foes -> Nat]
       /\ \A s \in Seats : got[s] = {}
       /\ \A e \in Foes : earned[e] = 0
       /\ \A x \in Masters \cup met : own[x] = Carried[x]
       /\ \A x \in Foes : x \notin met => own[x] = {}
  <2>1. own \in [Masters \cup Foes -> SUBSET Loot]
    BY <1>2
  <2>2. \A x \in Masters \cup met : own[x] = Carried[x]
    BY <1>1, KindsFacts
  <2> QED BY <2>1, <2>2
<1>14. items \subseteq Loot /\ \A i : i \in items <=> \E x \in Masters \cup met : i \in Carried[x]
  BY <1>1, <1>2
<1>15. pool \subseteq Foes /\ \A e : e \in pool <=> e \in Foes /\ e \notin met
  OBVIOUS
<1> HIDE DEF own, got, items, pool, earned
<1>16. Unborn(entry, pool, Foes, {})
  <2> SUFFICES ASSUME NEW e \in pool, NEW n \in Posts, entry[n] = e PROVE FALSE
    BY <1>15 DEF Unborn
  <2>1. e \in Foes /\ e \notin met /\ e # Vacant
    BY <1>15, KindsFacts
  <2>2. CASE n \in Lairs
    BY <2>1, <2>2, <1>8
  <2>3. CASE n \notin Lairs
    BY <2>1, <2>3, <1>4, <1>6, KindsFacts
  <2> QED BY <2>2, <2>3
<1>17. Apart(entry, {}, {})
  BY DEF Apart
<1>18. Taken(Foes, earned, own)
  BY <1>13 DEF Taken
<1>19. Lying(own, got, items, {}, pool)
  <2>1. \A x \in Masters \cup Foes : \A i \in own[x] : x \in Masters \cup met /\ i \in Carried[x]
    BY <1>13
  <2>2. \A x, y \in Masters \cup Foes : \A i \in own[x] : i \in own[y] => x = y
    BY <2>1, <1>2
  <2>3. \A x \in Masters \cup Foes : own[x] \subseteq items
    BY <2>1, <1>14
  <2>4. \A i \in items : \E x \in Masters \cup Foes : i \in own[x]
    BY <1>1, <1>13, <1>14
  <2>5. ASSUME NEW e \in pool PROVE own[e] = {} /\ Carried[e] \cap items = {}
    <3>1. e \in Foes /\ e \notin met /\ e \notin Masters
      BY <1>15, KindsFacts
    <3>2. \A x \in Masters \cup met : x \in Masters \cup Foes /\ x # e
      BY <3>1, <1>1
    <3> QED BY <3>1, <3>2, <1>2, <1>13, <1>14
  <2> QED BY <2>2, <2>3, <2>4, <2>5, <1>13 DEF Lying
<1>20. /\ w.mode = "command" /\ w.turn = 0 /\ w.entry = entry /\ w.hurt = {} /\ w.die = {} /\ w.ult = {} /\ w.todo = {}
       /\ w.late = {} /\ w.out = out /\ w.got = got /\ w.own = own /\ w.items = items /\ w.lucky = Lucky /\ w.pool = pool
       /\ w.worth = Foes /\ w.earned = earned /\ w.lost = {} /\ w.fled = {}
  BY DEF StartOfBattle, entry, out, got, own, items, pool, earned, met
<1>21. w = [mode |-> "command", turn |-> 0, entry |-> entry, hurt |-> {}, die |-> {}, ult |-> {}, todo |-> {}, late |-> {},
            out |-> out, got |-> got, own |-> own, items |-> items, lucky |-> Lucky, pool |-> pool, worth |-> Foes,
            earned |-> earned, lost |-> {}, fled |-> {}]
  BY DEF StartOfBattle, entry, out, got, own, items, pool, earned, met
<1> HIDE DEF w
<1>22. w \in Battles
  BY <1>9, <1>11, <1>13, <1>14, <1>15, <1>21 DEF Battles
<1>23. Sound(w) /\ Settled(w)
  BY <1>10, <1>12, <1>16, <1>17, <1>18, <1>19, <1>20, <1>22 DEF Sound, Settled
<1> QED BY <1>23 DEF w

\* Every battle starts so.
LEMMA TurnStart == TurnInit => TInv
<1> SUFFICES ASSUME TurnInit PROVE TInv
  OBVIOUS
<1>1. PICK p \in Masters, foes \in UNION {Injection(1..k, Foes) : k \in 0..10} :
        \E pet \in {Vacant} \cup {b \in Kennel : b[1] = p} : fight = StartOfBattle(p, pet, foes)
  BY DEF TurnInit
<1>2. PICK k \in 0..10 : foes \in Injection(1..k, Foes)
  OBVIOUS
<1>3. PICK pet \in {Vacant} \cup {b \in Kennel : b[1] = p} : fight = StartOfBattle(p, pet, foes)
  BY <1>1
<1>4. Sound(StartOfBattle(p, pet, foes)) /\ Settled(StartOfBattle(p, pet, foes))
  BY <1>2, <1>3, StartIsSound
<1> QED BY <1>3, <1>4 DEF TInv

\* The battle stays sound, and settled between actions, whatever the fighters
\* do and in whichever order they act.
THEOREM TurnsAreSound == TurnSpec => []TInv
<1>1. TInv /\ [TurnNext]_fight => TInv'
  BY TurnStep
<1> QED BY <1>1, TurnStart, PTL DEF TurnSpec

\* An item that exists is in one place: with one player or enemy, or in one
\* entry of the battle.
THEOREM LootStaysInOnePlace == TurnSpec => []LootInOnePlace
<1>1. TInv => LootInOnePlace
  <2> SUFFICES ASSUME TInv, NEW i \in Loot
               PROVE  LET holders == {x \in Masters \cup Foes : i \in fight.own[x]} \cup {s \in Seats : i \in fight.got[s]}
                      IN  IF i \in fight.items THEN i \in fight.lost \/ Cardinality(holders) = 1 ELSE holders = {}
    BY DEF LootInOnePlace
  <2> DEFINE holders == {x \in Masters \cup Foes : i \in fight.own[x]} \cup {s \in Seats : i \in fight.got[s]}
  <2>1. Lying(fight.own, fight.got, fight.items, fight.lost, fight.pool)
    BY DEF TInv, Sound
  <2>2. i \notin fight.items => holders = {}
    BY <2>1 DEF Lying
  <2>3. ASSUME i \in fight.items, i \notin fight.lost PROVE Cardinality(holders) = 1
    <3>1. CASE \E x \in Masters \cup Foes : i \in fight.own[x]
      <4>1. PICK x \in Masters \cup Foes : i \in fight.own[x]
        BY <3>1
      <4>2. \A s \in Seats : i \notin fight.got[s]
        BY <4>1, <2>1 DEF Lying
      <4>3. \A y \in Masters \cup Foes : i \in fight.own[y] => y = x
        BY <4>1, <2>1 DEF Lying
      <4>4. holders = {x}
        BY <4>1, <4>2, <4>3
      <4> QED BY <4>4, FS_Singleton
    <3>2. CASE ~ \E x \in Masters \cup Foes : i \in fight.own[x]
      <4>1. PICK s \in Seats : i \in fight.got[s]
        BY <3>2, <2>1, <2>3 DEF Lying
      <4>2. \A t \in Seats : i \in fight.got[t] => t = s
        BY <4>1, <2>1 DEF Lying
      <4>3. holders = {s}
        BY <4>1, <4>2, <3>2
      <4> QED BY <4>3, FS_Singleton
    <3> QED BY <3>1, <3>2
  <2> QED BY <2>2, <2>3
<1> QED BY <1>1, TurnsAreSound, PTL

\* The pet five places from a player is the one it has out.
THEOREM PetsSitByTheirMasters == TurnSpec => []PetsByTheirMasters
<1>1. TInv => PetsByTheirMasters
  BY DEF TInv, Sound, WithPets, PetsByTheirMasters
<1> QED BY <1>1, TurnsAreSound, PTL

\* Who has no HP counts as dead between two actions, and what an enemy was
\* worth is taken once, with its items.
THEOREM TheFallenAreSettled == TurnSpec => []FallenAreSettled
<1>1. TInv => FallenAreSettled
  <2> SUFFICES ASSUME TInv PROVE FallenAreSettled
    OBVIOUS
  <2>1. \A n \in Posts : fight.entry[n] \in fight.hurt \ fight.fled => fight.entry[n] \in fight.die
    BY DEF TInv, Settled
  <2>2. \A e \in Foes : fight.earned[e] <= 1 /\ (fight.earned[e] = 1 => fight.own[e] = {})
    BY DEF TInv, Sound, Taken
  <2> QED BY <2>1, <2>2 DEF FallenAreSettled
<1> QED BY <1>1, TurnsAreSound, PTL

----------------------------------------------------------------------------
\* The exchange of a trade: TradeGoods.

USE GoodsAssumption

ItemSlots == [Slots -> Items \cup {"none"}]
PetTable  == [PetSlots -> Pets \cup {"none"}]

\* What a player has in the middle of an exchange, when it could be in debt
Holding == [item : ItemSlots, gold : Int, pet : PetTable,
            ride : PetSlots \cup {None}, default : PetSlots \cup {None}]

\* x is in one slot of one player.
Once(f, S, x) ==
    \E p \in Players, s \in S : \A q \in Players, t \in S : f[q][t] = x <=> q = p /\ t = s

ItemsOf(g) == [p \in Players |-> g[p].item]
PetsOf(g)  == [p \in Players |-> g[p].pet]

PetsMarked(g) == \A p \in Players : HasPet(g[p], g[p].ride) /\ HasPet(g[p], g[p].default)

IInv ==
    /\ goods \in [Players -> Goods]
    /\ \A x \in Items : Once(ItemsOf(goods), Slots, x)
    /\ \A x \in Pets : Once(PetsOf(goods), PetSlots, x)
    /\ PetsMarked(goods)

----------------------------------------------------------------------------
\* The first of some free slots is one of them.
LEMMA FirstIsOne ==
    ASSUME NEW S \in SUBSET Nat, S # {}
    PROVE  First(S) \in S
<1>1. PICK s \in S : \A t \in S : ~ (<<t, s>> \in OpToRel(<, Nat))
  BY NatLessThanWellFounded, WFMin
<1>2. \A t \in S : ~ (t < s)
  BY <1>1 DEF OpToRel
<1>3. \A t \in S : s <= t
  BY <1>2
<1> QED BY <1>3 DEF First

\* There are two players, and no slot, item or pet is mistaken for none.
LEMMA PlayersFacts ==
    /\ IsFiniteSet(Players)
    /\ \A p, q \in Players : p # q => Players = {p, q}
    /\ None \notin Slots /\ None \notin PetSlots /\ None \notin Nat
    /\ "none" \notin Items /\ "none" \notin Pets
<1>1. PICK p, q \in Players : p # q /\ Players = {p, q}
  BY DEF GoodsAssumption
<1>2. IsFiniteSet({p}) /\ IsFiniteSet({p} \cup {q}) /\ {p} \cup {q} = {p, q}
  BY FS_Singleton, FS_AddElement
<1> QED BY <1>1, <1>2 DEF GoodsAssumption, None

\* To count one is to be in one place.
LEMMA PlacedOnce ==
    ASSUME NEW f, NEW S, IsFiniteSet(S), NEW x
    PROVE  Cardinality({ps \in Players \X S : f[ps[1]][ps[2]] = x}) = 1 <=> Once(f, S, x)
<1> DEFINE P == {ps \in Players \X S : f[ps[1]][ps[2]] = x}
<1>1. IsFiniteSet(Players \X S)
  BY PlayersFacts, FS_Product
<1>2. IsFiniteSet(P)
  BY <1>1, FS_Subset
<1>3. Cardinality(P) = 1 <=> \E ps : P = {ps}
  BY <1>2, FS_Singleton
<1>4. ASSUME NEW ps, P = {ps} PROVE Once(f, S, x)
  <2>1. ps \in Players \X S /\ f[ps[1]][ps[2]] = x
    BY <1>4
  <2>2. \A q \in Players, t \in S : f[q][t] = x <=> q = ps[1] /\ t = ps[2]
    <3> SUFFICES ASSUME NEW q \in Players, NEW t \in S
                 PROVE  f[q][t] = x <=> q = ps[1] /\ t = ps[2]
      OBVIOUS
    <3>1. f[q][t] = x <=> <<q, t>> \in P
      OBVIOUS
    <3>2. <<q, t>> \in P <=> <<q, t>> = ps
      BY <1>4
    <3> QED BY <2>1, <3>1, <3>2
  <2> QED BY <2>1, <2>2 DEF Once
<1>5. ASSUME Once(f, S, x) PROVE \E ps : P = {ps}
  <2>1. PICK p \in Players, s \in S : \A q \in Players, t \in S : f[q][t] = x <=> q = p /\ t = s
    BY <1>5 DEF Once
  <2>2. P = {<<p, s>>}
    BY <2>1
  <2> QED BY <2>2
<1> QED BY <1>3, <1>4, <1>5

\* The invariant of the runs and that of the proofs say the same.
LEMMA PlacedIsOnce ==
    ASSUME NEW g
    PROVE  /\ Placed(g, "item", Items, Slots) <=> \A x \in Items : Once(ItemsOf(g), Slots, x)
           /\ Placed(g, "pet", Pets, PetSlots) <=> \A x \in Pets : Once(PetsOf(g), PetSlots, x)
<1>1. ASSUME NEW x
      PROVE  Cardinality({ps \in Players \X Slots : g[ps[1]]["item"][ps[2]] = x}) = 1
               <=> Once(ItemsOf(g), Slots, x)
  <2>1. {ps \in Players \X Slots : g[ps[1]]["item"][ps[2]] = x}
          = {ps \in Players \X Slots : ItemsOf(g)[ps[1]][ps[2]] = x}
    BY DEF ItemsOf
  <2>2. Cardinality({ps \in Players \X Slots : ItemsOf(g)[ps[1]][ps[2]] = x}) = 1
          <=> Once(ItemsOf(g), Slots, x)
    BY PlacedOnce DEF GoodsAssumption
  <2> QED BY <2>1, <2>2
<1>2. ASSUME NEW x
      PROVE  Cardinality({ps \in Players \X PetSlots : g[ps[1]]["pet"][ps[2]] = x}) = 1
               <=> Once(PetsOf(g), PetSlots, x)
  <2>1. {ps \in Players \X PetSlots : g[ps[1]]["pet"][ps[2]] = x}
          = {ps \in Players \X PetSlots : PetsOf(g)[ps[1]][ps[2]] = x}
    BY DEF PetsOf
  <2>2. Cardinality({ps \in Players \X PetSlots : PetsOf(g)[ps[1]][ps[2]] = x}) = 1
          <=> Once(PetsOf(g), PetSlots, x)
    BY PlacedOnce DEF GoodsAssumption
  <2> QED BY <2>1, <2>2
<1> QED BY <1>1, <1>2 DEF Placed

\* The contents of two slots, of two players, are swapped.
Swap(f, f1, S, p, s, q, r) ==
    /\ f1[p][s] = f[q][r] /\ f1[q][r] = f[p][s]
    /\ \A h \in Players, t \in S : ~ (h = p /\ t = s) /\ ~ (h = q /\ t = r) => f1[h][t] = f[h][t]

\* Two players that swap the contents of two slots, one of which may be empty,
\* lose and double nothing.
LEMMA Swapped ==
    ASSUME NEW f, NEW f1, NEW S, NEW p \in Players, NEW q \in Players, NEW s \in S, NEW r \in S,
           p # q, Swap(f, f1, S, p, s, q, r), NEW x, Once(f, S, x)
    PROVE  Once(f1, S, x)
<1>1. PICK h \in Players, u \in S : \A k \in Players, t \in S : f[k][t] = x <=> k = h /\ t = u
  BY DEF Once
<1>2. /\ f1[p][s] = f[q][r] /\ f1[q][r] = f[p][s]
      /\ \A k \in Players, t \in S : (k # p \/ t # s) /\ (k # q \/ t # r) => f1[k][t] = f[k][t]
  BY DEF Swap
<1>3. CASE h = p /\ u = s
  <2>1. \A k \in Players, t \in S : f1[k][t] = x <=> k = q /\ t = r
    BY <1>1, <1>2, <1>3
  <2> QED BY <2>1 DEF Once
<1>4. CASE h = q /\ u = r
  <2>1. \A k \in Players, t \in S : f1[k][t] = x <=> k = p /\ t = s
    BY <1>1, <1>2, <1>4
  <2> QED BY <2>1 DEF Once
<1>5. CASE ~ (h = p /\ u = s) /\ ~ (h = q /\ u = r)
  <2>1. \A k \in Players, t \in S : f1[k][t] = x <=> k = h /\ t = u
    BY <1>1, <1>2, <1>5
  <2> QED BY <2>1 DEF Once
<1> QED BY <1>3, <1>4, <1>5
----------------------------------------------------------------------------
(* Items and gold. *)

\* The contents of two slots are swapped, and nothing else happens.
ItemMoved(g, g1, p, s, q, r) ==
    /\ g1 \in [Players -> Holding]
    /\ \A h \in Players : /\ g1[h].gold = g[h].gold /\ g1[h].pet = g[h].pet
                          /\ g1[h].ride = g[h].ride /\ g1[h].default = g[h].default
    /\ g1[p].item[s] = g[q].item[r] /\ g1[q].item[r] = g[p].item[s]
    /\ \A h \in Players, u \in Slots :
          ~ (h = p /\ u = s) /\ ~ (h = q /\ u = r) => g1[h].item[u] = g[h].item[u]

\* One amount of gold changes hands, and nothing else happens.
GoldMoved(g, g1, p, n, q) ==
    /\ g1 \in [Players -> Holding]
    /\ \A h \in Players : /\ g1[h].item = g[h].item /\ g1[h].pet = g[h].pet
                          /\ g1[h].ride = g[h].ride /\ g1[h].default = g[h].default
    /\ g1[p].gold = g[p].gold - n /\ g1[q].gold = g[q].gold + n

\* Two item slots of two players change what they hold.
LEMMA ItemMove ==
    ASSUME NEW g \in [Players -> Holding], NEW p \in Players, NEW q \in Players, p # q,
           NEW s \in Slots, NEW r \in Slots
    PROVE  ItemMoved(g, [g EXCEPT ![q].item[r] = g[p].item[s], ![p].item[s] = g[q].item[r]], p, s, q, r)
<1> DEFINE g1 == [g EXCEPT ![q].item[r] = g[p].item[s], ![p].item[s] = g[q].item[r]]
           hp == [g[p] EXCEPT !.item = [g[p].item EXCEPT ![s] = g[q].item[r]]]
           hq == [g[q] EXCEPT !.item = [g[q].item EXCEPT ![r] = g[p].item[s]]]
<1>1. g[p] \in Holding /\ g[q] \in Holding /\ g[p].item \in ItemSlots /\ g[q].item \in ItemSlots
  BY DEF Holding
<1>2. [g[p].item EXCEPT ![s] = g[q].item[r]] \in ItemSlots /\ [g[q].item EXCEPT ![r] = g[p].item[s]] \in ItemSlots
  BY <1>1 DEF ItemSlots
<1>3. /\ hp \in Holding /\ hq \in Holding
      /\ hp.gold = g[p].gold /\ hp.pet = g[p].pet /\ hp.ride = g[p].ride /\ hp.default = g[p].default
      /\ hq.gold = g[q].gold /\ hq.pet = g[q].pet /\ hq.ride = g[q].ride /\ hq.default = g[q].default
      /\ hp.item = [g[p].item EXCEPT ![s] = g[q].item[r]]
      /\ hq.item = [g[q].item EXCEPT ![r] = g[p].item[s]]
  BY <1>1, <1>2 DEF Holding
<1>4. hp.item[s] = g[q].item[r] /\ \A u \in Slots \ {s} : hp.item[u] = g[p].item[u]
  BY <1>1, <1>3 DEF ItemSlots
<1>5. hq.item[r] = g[p].item[s] /\ \A u \in Slots \ {r} : hq.item[u] = g[q].item[u]
  BY <1>1, <1>3 DEF ItemSlots
<1>6. g1 = [g EXCEPT ![q] = hq, ![p] = hp]
  BY <1>1
<1> HIDE DEF g1, hp, hq
<1>7. g1 \in [Players -> Holding] /\ g1[p] = hp /\ g1[q] = hq /\ \A h \in Players \ {p, q} : g1[h] = g[h]
  BY <1>3, <1>6
<1>8. Players = {p, q}
  BY PlayersFacts
<1>9. \A h \in Players : /\ g1[h].gold = g[h].gold /\ g1[h].pet = g[h].pet
                         /\ g1[h].ride = g[h].ride /\ g1[h].default = g[h].default
  BY <1>3, <1>7, <1>8
<1>10. g1[p].item[s] = g[q].item[r] /\ g1[q].item[r] = g[p].item[s]
  BY <1>4, <1>5, <1>7
<1>11. ASSUME NEW h \in Players, NEW u \in Slots, ~ (h = p /\ u = s), ~ (h = q /\ u = r)
       PROVE  g1[h].item[u] = g[h].item[u]
  <2>1. CASE h = p
    BY <1>4, <1>7, <1>11, <2>1
  <2>2. CASE h = q
    BY <1>5, <1>7, <1>11, <2>2
  <2> QED BY <1>8, <2>1, <2>2
<1>12. ItemMoved(g, g1, p, s, q, r)
  BY <1>7, <1>9, <1>10, <1>11 DEF ItemMoved
<1> QED BY <1>12 DEF g1

\* Gold that one pays the other gets, and nothing else changes.
LEMMA GoldMove ==
    ASSUME NEW g \in [Players -> Holding], NEW p \in Players, NEW q \in Players, p # q, NEW n \in Int
    PROVE  GoldMoved(g, PayGold(g, p, n, q), p, n, q)
<1> DEFINE hp == [g[p] EXCEPT !.gold = g[p].gold - n]
           hq == [g[q] EXCEPT !.gold = g[q].gold + n]
<1>1. g[p] \in Holding /\ g[q] \in Holding /\ g[p].gold \in Int /\ g[q].gold \in Int
  BY DEF Holding
<1>2. /\ hp \in Holding /\ hq \in Holding
      /\ hp.item = g[p].item /\ hp.pet = g[p].pet /\ hp.ride = g[p].ride /\ hp.default = g[p].default
      /\ hq.item = g[q].item /\ hq.pet = g[q].pet /\ hq.ride = g[q].ride /\ hq.default = g[q].default
      /\ hp.gold = g[p].gold - n /\ hq.gold = g[q].gold + n
  BY <1>1 DEF Holding
<1>3. PayGold(g, p, n, q) = [g EXCEPT ![p] = hp, ![q] = hq]
  BY DEF PayGold
<1> HIDE DEF hp, hq
<1>4. Players = {p, q}
  BY PlayersFacts
<1> QED BY <1>2, <1>3, <1>4 DEF GoldMoved

\* Moving an item loses and doubles nothing.
LEMMA ItemMovedOnce ==
    ASSUME NEW g, NEW g1, NEW p \in Players, NEW q \in Players, p # q, NEW s \in Slots, NEW r \in Slots,
           ItemMoved(g, g1, p, s, q, r), NEW x, Once(ItemsOf(g), Slots, x)
    PROVE  Once(ItemsOf(g1), Slots, x)
<1> DEFINE f == ItemsOf(g)
           f1 == ItemsOf(g1)
<1>1. \A h \in Players, u \in Slots : f[h][u] = g[h].item[u] /\ f1[h][u] = g1[h].item[u]
  BY DEF ItemsOf
<1> HIDE DEF f, f1
<1>2. Swap(f, f1, Slots, p, s, q, r)
  BY <1>1 DEF ItemMoved, Swap
<1>3. Once(f, Slots, x)
  BY DEF f
<1>4. Once(f1, Slots, x)
  BY <1>2, <1>3, Swapped
<1> QED BY <1>4 DEF f1

\* What one part of the exchange does: p gives m, or nothing, and q gives t.
AnyThing == [kind : {"I"}, i : Slots \cup {None}] \cup [kind : {"G"}, i : Nat]
Cost(m)  == IF m.kind = "G" THEN m.i ELSE 0

Kept(g, g1, p, m) ==
    \A s \in Slots : g[p].item[s] # "none" /\ ~ (m.kind = "I" /\ m.i = s) => g1[p].item[s] = g[p].item[s]

Changed(g, g1, p, m, q, t) ==
    /\ g1 \in [Players -> Holding]
    /\ g1[p].gold + g1[q].gold = g[p].gold + g[q].gold
    /\ g1[p].gold >= g[p].gold - Cost(m) /\ g1[q].gold >= g[q].gold - Cost(t)
    /\ \A h \in Players : g1[h].pet = g[h].pet /\ g1[h].ride = g[h].ride /\ g1[h].default = g[h].default
    /\ \A x \in Items : Once(ItemsOf(g), Slots, x) => Once(ItemsOf(g1), Slots, x)
    /\ Kept(g, g1, p, m) /\ Kept(g, g1, q, t)

\* The item that is meant is the one that the player holds.
Meant(g, p, m, x) == m.kind = "I" /\ m.i # None => x = g[p].item[m.i]

\* The other player may as well be named first.
LEMMA ChangedMirror ==
    ASSUME NEW g \in [Players -> Holding], NEW g1, NEW p \in Players, NEW q \in Players, NEW m, NEW t,
           Changed(g, g1, q, t, p, m)
    PROVE  Changed(g, g1, p, m, q, t)
<1>1. g[p].gold \in Int /\ g[q].gold \in Int /\ g1[p].gold \in Int /\ g1[q].gold \in Int
  BY DEF Changed, Holding
<1> QED BY <1>1 DEF Changed

\* An exchange that fails changes nothing, which is a change within its bounds.
LEMMA UnchangedIsChanged ==
    ASSUME NEW g \in [Players -> Holding], NEW p \in Players, NEW q \in Players,
           NEW m \in AnyThing, NEW t \in AnyThing
    PROVE  Changed(g, g, p, m, q, t)
<1>1. g[p].gold \in Int /\ g[q].gold \in Int
  BY DEF Holding
<1>2. Cost(m) \in Nat /\ Cost(t) \in Nat
  BY DEF Cost, AnyThing
<1> QED BY <1>1, <1>2 DEF Changed, Kept

\* An item goes to a free slot of the other, if there is one.
LEMMA GiveStep ==
    ASSUME NEW g \in [Players -> Holding], NEW p \in Players, NEW q \in Players, p # q,
           NEW s \in Slots, NEW x, x = g[p].item[s], EmptySlots(g[q]) # {}
    PROVE  \E r \in Slots : g[q].item[r] = "none" /\ ItemMoved(g, GiveItem(g, p, s, x, q), p, s, q, r)
<1> DEFINE r == First(EmptySlots(g[q]))
<1>1. EmptySlots(g[q]) \in SUBSET Nat
  BY DEF EmptySlots, GoodsAssumption
<1>2. r \in EmptySlots(g[q])
  BY <1>1, FirstIsOne
<1>3. r \in Slots /\ g[q].item[r] = "none"
  BY <1>2 DEF EmptySlots
<1>4. GiveItem(g, p, s, x, q) = [g EXCEPT ![q].item[r] = g[p].item[s], ![p].item[s] = g[q].item[r]]
  BY <1>3 DEF GiveItem
<1> HIDE DEF r
<1>5. ItemMoved(g, [g EXCEPT ![q].item[r] = g[p].item[s], ![p].item[s] = g[q].item[r]], p, s, q, r)
  BY <1>3, ItemMove
<1>6. ItemMoved(g, GiveItem(g, p, s, x, q), p, s, q, r)
  BY <1>4, <1>5
<1> QED BY <1>3, <1>6

\* Moving an item of p to a free slot of q, or against an item of q that is offered
LEMMA ItemMovedIsChanged ==
    ASSUME NEW g \in [Players -> Holding], NEW g1, NEW p \in Players, NEW q \in Players, p # q,
           NEW s \in Slots, NEW r \in Slots, NEW m \in AnyThing, NEW t \in AnyThing,
           m.kind = "I", m.i = s, g[q].item[r] = "none" \/ (t.kind = "I" /\ t.i = r),
           ItemMoved(g, g1, p, s, q, r)
    PROVE  Changed(g, g1, p, m, q, t)
<1>1. g[p].gold \in Int /\ g[q].gold \in Int
  BY DEF Holding
<1>2. Cost(m) \in Nat /\ Cost(t) \in Nat
  BY DEF Cost, AnyThing
<1>3. /\ g1 \in [Players -> Holding]
      /\ \A h \in Players : /\ g1[h].gold = g[h].gold /\ g1[h].pet = g[h].pet
                            /\ g1[h].ride = g[h].ride /\ g1[h].default = g[h].default
  BY DEF ItemMoved
<1>4. \A x \in Items : Once(ItemsOf(g), Slots, x) => Once(ItemsOf(g1), Slots, x)
  BY ItemMovedOnce
<1>5. Kept(g, g1, p, m) /\ Kept(g, g1, q, t)
  BY DEF Kept, ItemMoved
<1> QED BY <1>1, <1>2, <1>3, <1>4, <1>5 DEF Changed
\* Gold is paid for nothing, or for an item that changes hands as well.
LEMMA GoldMovedIsChanged ==
    ASSUME NEW g \in [Players -> Holding], NEW g1, NEW p \in Players, NEW q \in Players, p # q,
           NEW m \in AnyThing, NEW t \in AnyThing, t.kind = "G", GoldMoved(g, g1, q, t.i, p)
    PROVE  Changed(g, g1, p, m, q, t)
<1>1. g[p].gold \in Int /\ g[q].gold \in Int
  BY DEF Holding
<1>2. Cost(m) \in Nat /\ t.i \in Nat /\ Cost(t) = t.i
  BY DEF Cost, AnyThing
<1>3. ItemsOf(g1) = ItemsOf(g)
  BY DEF GoldMoved, ItemsOf
<1>4. Kept(g, g1, p, m) /\ Kept(g, g1, q, t)
  BY DEF Kept, GoldMoved
<1> QED BY <1>1, <1>2, <1>3, <1>4 DEF Changed, GoldMoved

\* A part of the exchange, then a payment of q: the whole is a part of the exchange.
LEMMA ThenGold ==
    ASSUME NEW g \in [Players -> Holding], NEW g1, NEW g2, NEW p \in Players, NEW q \in Players, p # q,
           NEW m \in AnyThing, NEW t \in AnyThing, t.kind = "G",
           Changed(g, g1, p, m, q, t), g1[q].gold >= g[q].gold,
           GoldMoved(g1, g2, q, t.i, p)
    PROVE  Changed(g, g2, p, m, q, t)
<1>1. /\ g1 \in [Players -> Holding] /\ g2 \in [Players -> Holding]
      /\ g1[p].gold \in Int /\ g1[q].gold \in Int /\ g[p].gold \in Int /\ g[q].gold \in Int
  BY DEF Changed, GoldMoved, Holding
<1>2. Cost(m) \in Nat /\ t.i \in Nat /\ Cost(t) = t.i
  BY DEF Cost, AnyThing
<1>3. ItemsOf(g2) = ItemsOf(g1)
  BY DEF GoldMoved, ItemsOf
<1>4. Kept(g, g2, p, m) /\ Kept(g, g2, q, t)
  BY DEF Kept, Changed, GoldMoved
<1>5. /\ g2[p].gold + g2[q].gold = g[p].gold + g[q].gold
      /\ g2[p].gold >= g[p].gold - Cost(m) /\ g2[q].gold >= g[q].gold - Cost(t)
  BY <1>1, <1>2 DEF Changed, GoldMoved
<1> QED BY <1>1, <1>3, <1>4, <1>5 DEF Changed, GoldMoved

\* Items for items: slots change what they hold, or what vanishes is put back.
LEMMA ItemForItemStep ==
    ASSUME NEW g \in [Players -> Holding], NEW p \in Players, NEW q \in Players, p # q,
           NEW m \in AnyThing, NEW t \in AnyThing, m.kind = "I", t.kind = "I",
           NEW x, NEW y, Meant(g, p, m, x), Meant(g, q, t, y)
    PROVE  Changed(g, ItemForItem(g, p, m.i, x, q, t.i, y), p, m, q, t)
<1>1. m.i \in Slots \cup {None} /\ t.i \in Slots \cup {None}
  BY DEF AnyThing
<1>2. CASE m.i # None /\ t.i # None
  <2>1. m.i \in Slots /\ t.i \in Slots /\ x = g[p].item[m.i] /\ y = g[q].item[t.i]
    BY <1>1, <1>2 DEF Meant
  <2>2. ItemForItem(g, p, m.i, x, q, t.i, y)
          = [g EXCEPT ![q].item[t.i] = g[p].item[m.i], ![p].item[m.i] = g[q].item[t.i]]
    BY <1>2, <2>1 DEF ItemForItem
  <2>3. ItemMoved(g, [g EXCEPT ![q].item[t.i] = g[p].item[m.i], ![p].item[m.i] = g[q].item[t.i]],
                  p, m.i, q, t.i)
    BY <2>1, ItemMove
  <2>4. ItemMoved(g, ItemForItem(g, p, m.i, x, q, t.i, y), p, m.i, q, t.i)
    BY <2>2, <2>3
  <2> QED BY <2>1, <2>4, ItemMovedIsChanged
<1>3. CASE m.i # None /\ t.i = None
  <2>1. m.i \in Slots /\ x = g[p].item[m.i] /\ ItemForItem(g, p, m.i, x, q, t.i, y) = GiveItem(g, p, m.i, x, q)
    BY <1>1, <1>3 DEF Meant, ItemForItem
  <2>2. CASE EmptySlots(g[q]) = {}
    BY <2>1, <2>2, UnchangedIsChanged DEF GiveItem
  <2>3. CASE EmptySlots(g[q]) # {}
    <3>1. PICK r \in Slots : g[q].item[r] = "none" /\ ItemMoved(g, GiveItem(g, p, m.i, x, q), p, m.i, q, r)
      BY <2>1, <2>3, GiveStep
    <3> QED BY <2>1, <3>1, ItemMovedIsChanged
  <2> QED BY <2>2, <2>3
<1>4. CASE m.i = None /\ t.i # None
  <2>1. t.i \in Slots /\ y = g[q].item[t.i] /\ ItemForItem(g, p, m.i, x, q, t.i, y) = GiveItem(g, q, t.i, y, p)
    BY <1>1, <1>4 DEF Meant, ItemForItem
  <2>2. CASE EmptySlots(g[p]) = {}
    BY <2>1, <2>2, UnchangedIsChanged DEF GiveItem
  <2>3. CASE EmptySlots(g[p]) # {}
    <3>1. PICK r \in Slots : g[p].item[r] = "none" /\ ItemMoved(g, GiveItem(g, q, t.i, y, p), q, t.i, p, r)
      BY <2>1, <2>3, GiveStep
    <3>2. Changed(g, GiveItem(g, q, t.i, y, p), q, t, p, m)
      BY <2>1, <3>1, ItemMovedIsChanged
    <3> QED BY <2>1, <3>2, ChangedMirror
  <2> QED BY <2>2, <2>3
<1>5. CASE m.i = None /\ t.i = None
  BY <1>5, UnchangedIsChanged DEF ItemForItem
<1> QED BY <1>2, <1>3, <1>4, <1>5

\* An item for gold, or gold for nothing
LEMMA ItemForGoldStep ==
    ASSUME NEW g \in [Players -> Holding], NEW p \in Players, NEW q \in Players, p # q,
           NEW m \in AnyThing, NEW t \in AnyThing, m.kind = "I", t.kind = "G",
           NEW x, Meant(g, p, m, x)
    PROVE  Changed(g, ItemForGold(g, p, m.i, x, q, t.i), p, m, q, t)
<1>1. m.i \in Slots \cup {None} /\ t.i \in Nat /\ t.i \in Int
  BY DEF AnyThing
<1>2. CASE m.i = None
  <2>1. GoldMoved(g, PayGold(g, q, t.i, p), q, t.i, p)
    BY <1>1, GoldMove
  <2> QED BY <1>2, <2>1, GoldMovedIsChanged DEF ItemForGold
<1>3. CASE m.i # None /\ EmptySlots(g[q]) = {}
  BY <1>3, UnchangedIsChanged DEF ItemForGold
<1>4. CASE m.i # None /\ EmptySlots(g[q]) # {}
  <2> DEFINE g1 == GiveItem(g, p, m.i, x, q)
             g2 == PayGold(g1, q, t.i, p)
  <2>1. m.i \in Slots /\ x = g[p].item[m.i] /\ ItemForGold(g, p, m.i, x, q, t.i) = g2
    BY <1>1, <1>4 DEF Meant, ItemForGold
  <2>2. PICK r \in Slots : g[q].item[r] = "none" /\ ItemMoved(g, g1, p, m.i, q, r)
    BY <1>4, <2>1, GiveStep
  <2> HIDE DEF g1
  <2>3. Changed(g, g1, p, m, q, t) /\ g1 \in [Players -> Holding]
    BY <2>1, <2>2, ItemMovedIsChanged DEF ItemMoved
  <2>4. GoldMoved(g1, g2, q, t.i, p)
    BY <1>1, <2>3, GoldMove
  <2> HIDE DEF g2
  <2>5. g[p].gold \in Int /\ g[q].gold \in Int /\ g1[p].gold = g[p].gold /\ g1[q].gold = g[q].gold
    BY <2>2 DEF Holding, ItemMoved
  <2>6. g1[q].gold >= g[q].gold
    BY <2>5
  <2>7. Changed(g, g2, p, m, q, t)
    BY <2>3, <2>4, <2>6, ThenGold
  <2> QED BY <2>1, <2>7
<1> QED BY <1>2, <1>3, <1>4

\* Each of the first two parts of the exchange moves what is offered, or nothing.
LEMMA ChangeThingStep ==
    ASSUME NEW g \in [Players -> Holding], NEW p \in Players, NEW q \in Players, p # q,
           NEW m \in AnyThing, NEW t \in AnyThing, NEW x, NEW y, Meant(g, p, m, x), Meant(g, q, t, y)
    PROVE  Changed(g, ChangeThing(g, p, m, x, q, t, y), p, m, q, t)
<1>1. m.kind \in {"I", "G"} /\ t.kind \in {"I", "G"}
  BY DEF AnyThing
<1>2. CASE m.kind = "I" /\ t.kind = "I"
  BY <1>2, ItemForItemStep DEF ChangeThing
<1>3. CASE m.kind = "I" /\ t.kind = "G"
  BY <1>3, ItemForGoldStep DEF ChangeThing
<1>4. CASE m.kind = "G" /\ t.kind = "I"
  <2>1. Changed(g, ItemForGold(g, q, t.i, y, p, m.i), q, t, p, m)
    BY <1>4, ItemForGoldStep
  <2>2. Changed(g, ItemForGold(g, q, t.i, y, p, m.i), p, m, q, t)
    BY <2>1, ChangedMirror
  <2> QED BY <1>4, <2>2 DEF ChangeThing
<1>5. CASE m.kind = "G" /\ t.kind = "G"
  <2> DEFINE g1 == PayGold(g, p, m.i, q)
             g2 == PayGold(g1, q, t.i, p)
  <2>1. m.i \in Nat /\ m.i \in Int /\ t.i \in Nat /\ t.i \in Int /\ Cost(m) = m.i /\ Cost(t) = t.i
    BY <1>5 DEF AnyThing, Cost
  <2>2. GoldMoved(g, g1, p, m.i, q)
    BY <2>1, GoldMove
  <2> HIDE DEF g1
  <2>3. g1 \in [Players -> Holding]
    BY <2>2 DEF GoldMoved
  <2>4. Changed(g, g1, p, m, q, t)
    BY <1>5, <2>2, GoldMovedIsChanged, ChangedMirror
  <2>5. GoldMoved(g1, g2, q, t.i, p)
    BY <2>1, <2>3, GoldMove
  <2>6. g[p].gold \in Int /\ g[q].gold \in Int
    BY DEF Holding
  <2>7. g1[q].gold >= g[q].gold
    BY <2>1, <2>2, <2>6 DEF GoldMoved
  <2> HIDE DEF g2
  <2>8. Changed(g, g2, p, m, q, t)
    BY <1>5, <2>4, <2>5, <2>7, ThenGold
  <2>9. ChangeThing(g, p, m, x, q, t, y) = g2
    BY <1>5 DEF ChangeThing, g2, g1
  <2> QED BY <2>8, <2>9
<1> QED BY <1>1, <1>2, <1>3, <1>4, <1>5
----------------------------------------------------------------------------
(* Pets. *)

\* What h may offer of its pets and what it must have room for
MayPut(h, s, x) ==
    /\ s \in PetSlots \cup {None}
    /\ s # None => h.pet[s] # "none" /\ s # h.ride
    /\ x \in Pets \cup {"none"}
    /\ x # "none" => s # None \/ EmptyPetSlots(h) # {}
    /\ HasPet(h, h.ride) /\ HasPet(h, h.default)

\* The slots of the pets in use are as they were, or no longer marked.
UseKept(h, h1) ==
    /\ h1.ride = h.ride /\ h1.default \in {h.default, None}
    /\ h.ride # None => h1.pet[h.ride] = h.pet[h.ride]
    /\ h1.default # None => h1.pet[h1.default] = h.pet[h1.default]

\* A player that gives the pet of slot s, or none, gets x in that slot, or in an
\* empty one.
LEMMA PutStep ==
    ASSUME NEW h \in Holding, NEW s, NEW x, MayPut(h, s, x)
    PROVE  LET h1 == PutPet(Rest(h, s), PetPlace(h, s), x)
           IN  /\ h1 \in Holding /\ h1.item = h.item /\ h1.gold = h.gold
               /\ UseKept(h, h1) /\ HasPet(h1, h1.ride) /\ HasPet(h1, h1.default)
               /\ \/ /\ s = None /\ x = "none" /\ h1.pet = h.pet
                  \/ \E u \in PetSlots : /\ IF s = None THEN h.pet[u] = "none" ELSE u = s
                                         /\ h1.pet[u] = x
                                         /\ \A v \in PetSlots \ {u} : h1.pet[v] = h.pet[v]
<1> DEFINE pl == PetPlace(h, s)
           hr == Rest(h, s)
           h1 == PutPet(hr, pl, x)
<1>1. /\ s \in PetSlots \cup {None} /\ (s # None => h.pet[s] # "none" /\ s # h.ride)
      /\ x \in Pets \cup {"none"} /\ (x # "none" => s # None \/ EmptyPetSlots(h) # {})
      /\ HasPet(h, h.ride) /\ HasPet(h, h.default)
      /\ h.pet \in PetTable
  BY DEF MayPut, Holding
<1>2. /\ hr \in Holding /\ hr.item = h.item /\ hr.gold = h.gold /\ hr.pet = h.pet /\ hr.ride = h.ride
      /\ hr.default \in {h.default, None} /\ (hr.default # None => hr.default = h.default /\ hr.default # s)
  BY DEF Rest, Holding
<1>3. /\ s # None => pl = s /\ pl \in PetSlots
      /\ s = None => (pl = None /\ x = "none") \/ (pl \in PetSlots /\ h.pet[pl] = "none")
  <2>1. CASE s # None
    BY <1>1, <2>1 DEF PetPlace
  <2>2. CASE s = None /\ EmptyPetSlots(h) = {}
    BY <1>1, <2>2 DEF PetPlace
  <2>3. CASE s = None /\ EmptyPetSlots(h) # {}
    <3>1. EmptyPetSlots(h) \in SUBSET Nat
      BY DEF EmptyPetSlots, GoodsAssumption
    <3>2. First(EmptyPetSlots(h)) \in EmptyPetSlots(h)
      BY <2>3, <3>1, FirstIsOne
    <3> QED BY <2>3, <3>2 DEF PetPlace, EmptyPetSlots
  <2> QED BY <2>1, <2>2, <2>3
<1> HIDE DEF pl, hr
<1>4. CASE pl = None
  <2>1. h1 = hr /\ s = None /\ x = "none"
    BY <1>3, <1>4, PlayersFacts DEF PutPet
  <2>2. /\ h1 \in Holding /\ h1.item = h.item /\ h1.gold = h.gold
        /\ UseKept(h, h1) /\ HasPet(h1, h1.ride) /\ HasPet(h1, h1.default) /\ h1.pet = h.pet
    BY <1>1, <1>2, <2>1 DEF UseKept, HasPet
  <2> QED BY <2>1, <2>2 DEF pl, hr
<1>5. CASE pl # None
  <2>1. /\ pl \in PetSlots /\ (IF s = None THEN h.pet[pl] = "none" ELSE pl = s)
    BY <1>1, <1>3, <1>5
  <2> DEFINE t == [h.pet EXCEPT ![pl] = x]
  <2>2. t \in PetTable /\ t[pl] = x /\ \A v \in PetSlots \ {pl} : t[v] = h.pet[v]
    BY <1>1, <2>1 DEF PetTable
  <2>3. h1 = [hr EXCEPT !.pet = t]
    BY <1>2, <1>5, <2>1 DEF PutPet
  <2> HIDE DEF t, h1
  <2>4. /\ h1 \in Holding /\ h1.item = h.item /\ h1.gold = h.gold /\ h1.pet = t
        /\ h1.ride = h.ride /\ h1.default = hr.default
    BY <1>2, <2>2, <2>3 DEF Holding
  <2>5. h.ride # None => h.ride \in PetSlots /\ h.pet[h.ride] # "none" /\ h.ride # pl
    BY <1>1, <2>1 DEF HasPet
  <2>6. hr.default # None => hr.default \in PetSlots /\ h.pet[hr.default] # "none" /\ hr.default # pl
    BY <1>1, <1>2, <2>1 DEF HasPet
  <2>7. UseKept(h, h1) /\ HasPet(h1, h1.ride) /\ HasPet(h1, h1.default)
    BY <1>2, <2>2, <2>4, <2>5, <2>6 DEF UseKept, HasPet
  <2> QED BY <2>1, <2>2, <2>4, <2>7 DEF h1, pl, hr
<1> QED BY <1>4, <1>5

\* Pets change hands or stay where they are; those in use stay.
LEMMA ChangePetStep ==
    ASSUME NEW g \in [Players -> Holding], NEW p \in Players, NEW q \in Players, p # q, NEW s, NEW r,
           MayPut(g[p], s, PetAt(g[q], r)), MayPut(g[q], r, PetAt(g[p], s))
    PROVE  LET g1 == ChangePet(g, p, q, s, r)
           IN  /\ g1 \in [Players -> Holding]
               /\ \A h \in Players : /\ g1[h].item = g[h].item /\ g1[h].gold = g[h].gold
                                     /\ UseKept(g[h], g1[h])
               /\ PetsMarked(g1)
               /\ \A x \in Pets : Once(PetsOf(g), PetSlots, x) => Once(PetsOf(g1), PetSlots, x)
<1> DEFINE x == PetAt(g[q], r)
           y == PetAt(g[p], s)
           hp == PutPet(Rest(g[p], s), PetPlace(g[p], s), x)
           hq == PutPet(Rest(g[q], r), PetPlace(g[q], r), y)
           g1 == [g EXCEPT ![p] = hp, ![q] = hq]
<1>1. /\ hp \in Holding /\ hp.item = g[p].item /\ hp.gold = g[p].gold
      /\ UseKept(g[p], hp) /\ HasPet(hp, hp.ride) /\ HasPet(hp, hp.default)
      /\ \/ /\ s = None /\ x = "none" /\ hp.pet = g[p].pet
         \/ \E u \in PetSlots : /\ IF s = None THEN g[p].pet[u] = "none" ELSE u = s
                                /\ hp.pet[u] = x
                                /\ \A v \in PetSlots \ {u} : hp.pet[v] = g[p].pet[v]
  BY PutStep
<1>2. /\ hq \in Holding /\ hq.item = g[q].item /\ hq.gold = g[q].gold
      /\ UseKept(g[q], hq) /\ HasPet(hq, hq.ride) /\ HasPet(hq, hq.default)
      /\ \/ /\ r = None /\ y = "none" /\ hq.pet = g[q].pet
         \/ \E u \in PetSlots : /\ IF r = None THEN g[q].pet[u] = "none" ELSE u = r
                                /\ hq.pet[u] = y
                                /\ \A v \in PetSlots \ {u} : hq.pet[v] = g[q].pet[v]
  BY PutStep
<1>3. ChangePet(g, p, q, s, r) = g1
  BY DEF ChangePet
<1>4. /\ s = None => y = "none"
      /\ r = None => x = "none"
      /\ s # None => s \in PetSlots /\ y = g[p].pet[s] /\ y # "none"
      /\ r # None => r \in PetSlots /\ x = g[q].pet[r] /\ x # "none"
  BY DEF PetAt, MayPut
<1>5. Players = {p, q}
  BY PlayersFacts
<1> HIDE DEF x, y, hp, hq
<1>6. g1 \in [Players -> Holding] /\ g1[p] = hp /\ g1[q] = hq
  BY <1>1, <1>2
<1> HIDE DEF g1
<1>7. /\ \A h \in Players : g1[h].item = g[h].item /\ g1[h].gold = g[h].gold /\ UseKept(g[h], g1[h])
      /\ PetsMarked(g1)
  BY <1>1, <1>2, <1>5, <1>6 DEF PetsMarked
<1> DEFINE f == PetsOf(g)
           f1 == PetsOf(g1)
<1>8. \A h \in Players : f[h] = g[h].pet /\ f1[h] = g1[h].pet
  BY DEF PetsOf
<1>9. ASSUME NEW z \in Pets, Once(f, PetSlots, z) PROVE Once(f1, PetSlots, z)
  <2> HIDE DEF f, f1
  <2>1. CASE /\ s = None /\ r = None
    <3>1. \A v \in PetSlots : hp.pet[v] = g[p].pet[v] /\ hq.pet[v] = g[q].pet[v]
      BY <1>1, <1>2, <1>4, <2>1
    <3>2. \A h \in Players, v \in PetSlots : f1[h][v] = f[h][v]
      BY <1>5, <1>6, <1>8, <3>1
    <3> QED BY <1>9, <3>2 DEF Once
  <2>2. CASE ~ (s = None /\ r = None)
    <3>1. PICK u \in PetSlots : /\ IF s = None THEN g[p].pet[u] = "none" ELSE u = s
                                /\ hp.pet[u] = x
                                /\ \A v \in PetSlots \ {u} : hp.pet[v] = g[p].pet[v]
      BY <1>1, <1>4, <2>2
    <3>2. PICK w \in PetSlots : /\ IF r = None THEN g[q].pet[w] = "none" ELSE w = r
                                /\ hq.pet[w] = y
                                /\ \A v \in PetSlots \ {w} : hq.pet[v] = g[q].pet[v]
      BY <1>2, <1>4, <2>2
    <3>3. g[p].pet[u] = y /\ g[q].pet[w] = x
      BY <1>4, <3>1, <3>2
    <3>4. Swap(f, f1, PetSlots, p, u, q, w)
      BY <1>5, <1>6, <1>8, <3>1, <3>2, <3>3 DEF Swap
    <3> QED BY <1>9, <3>4, Swapped
  <2> QED BY <2>1, <2>2
<1> QED BY <1>3, <1>6, <1>7, <1>9
----------------------------------------------------------------------------
(* The exchange. *)

\* What the whole exchange does to what two players have
Exchanged(g, g1) ==
    /\ g1 \in [Players -> Goods]
    /\ \A p, q \in Players : p # q => g1[p].gold + g1[q].gold = g[p].gold + g[q].gold
    /\ \A h \in Players : UseKept(g[h], g1[h])
    /\ PetsMarked(g1)
    /\ \A x \in Items : Once(ItemsOf(g), Slots, x) => Once(ItemsOf(g1), Slots, x)
    /\ \A x \in Pets : Once(PetsOf(g), PetSlots, x) => Once(PetsOf(g1), PetSlots, x)

\* What is offered has its type, and is there.
LEMMA OfferFacts ==
    ASSUME NEW h \in Goods, NEW o \in Offer(h)
    PROVE  /\ o.a \in AnyThing /\ o.b \in AnyThing
           /\ o.b.kind = "I" /\ o.b.i # None => o.b.i \in Slots /\ h.item[o.b.i] # "none"
           /\ o.c \in PetSlots \cup {None} /\ (o.c # None => h.pet[o.c] # "none")
           /\ Pay(o) = Cost(o.a) + Cost(o.b)
<1>1. o.a \in Thing(h) /\ o.b \in Thing(h) /\ h.gold \in Nat
  BY DEF Offer, Goods
<1>2. o.a \in AnyThing /\ o.b \in AnyThing
  BY <1>1 DEF Thing, AnyThing
<1>3. o.b.kind = "I" /\ o.b.i # None => o.b.i \in Slots /\ h.item[o.b.i] # "none"
  BY <1>1 DEF Thing
<1>4. o.c \in PetSlots \cup {None} /\ (o.c # None => h.pet[o.c] # "none")
  BY DEF Offer
<1>5. "a" \in Offered(o, "G") <=> o.a.kind = "G"
  BY <1>2, PlayersFacts DEF Offered, AnyThing
<1>6. "b" \in Offered(o, "G") <=> o.b.kind = "G"
  BY <1>2, PlayersFacts DEF Offered, AnyThing
<1>7. Pay(o) = Cost(o.a) + Cost(o.b)
  BY <1>5, <1>6 DEF Pay, Cost
<1> QED BY <1>2, <1>3, <1>4, <1>7

\* The whole exchange, three parts one after the other, each of which may fail, keeps items, pets and gold.
LEMMA ExchangeStep ==
    ASSUME NEW g \in [Players -> Goods], PetsMarked(g), NEW p \in Players, NEW q \in Players, p # q,
           NEW m \in Offer(g[p]), NEW t \in Offer(g[q]), CheckItembuf(g, p, q, m, t)
    PROVE  Exchanged(g, Exchange(g, p, q, m, t))
<1> DEFINE one == ChangeThing(g, p, m.a, ItemOf(g[p], m.a), q, t.a, ItemOf(g[q], t.a))
           two == ChangeThing(one, p, m.b, ItemOf(g[p], m.b), q, t.b, ItemOf(g[q], t.b))
           g1 == ChangePet(two, p, q, m.c, t.c)
<1>1. /\ g[p] \in Goods /\ g[q] \in Goods /\ g \in [Players -> Holding] /\ Players = {p, q}
      /\ g[p].gold \in Nat /\ g[q].gold \in Nat
  BY PlayersFacts DEF Goods, Holding, ItemSlots, PetTable
<1>2. /\ m.a \in AnyThing /\ m.b \in AnyThing /\ t.a \in AnyThing /\ t.b \in AnyThing
      /\ m.b.kind = "I" /\ m.b.i # None => m.b.i \in Slots /\ g[p].item[m.b.i] # "none"
      /\ t.b.kind = "I" /\ t.b.i # None => t.b.i \in Slots /\ g[q].item[t.b.i] # "none"
      /\ m.c \in PetSlots \cup {None} /\ (m.c # None => g[p].pet[m.c] # "none")
      /\ t.c \in PetSlots \cup {None} /\ (t.c # None => g[q].pet[t.c] # "none")
      /\ Pay(m) = Cost(m.a) + Cost(m.b) /\ Pay(t) = Cost(t.a) + Cost(t.b)
  BY <1>1, OfferFacts
<1>3. /\ m.a.i = m.b.i => m.a.i = None
      /\ t.a.i = t.b.i => t.a.i = None
      /\ Pay(m) <= g[p].gold /\ Pay(t) <= g[q].gold
      /\ RoomForPet(g[p], m, t) /\ RoomForPet(g[q], t, m)
  BY DEF CheckItembuf, Distinct, Fits, GoldFits
<1>4. Changed(g, one, p, m.a, q, t.a)
  <2>1. Meant(g, p, m.a, ItemOf(g[p], m.a)) /\ Meant(g, q, t.a, ItemOf(g[q], t.a))
    BY DEF Meant, ItemOf
  <2> QED BY <1>1, <1>2, <2>1, ChangeThingStep
<1> HIDE DEF one
<1>5. Changed(one, two, p, m.b, q, t.b)
  <2>1. Meant(one, p, m.b, ItemOf(g[p], m.b))
    BY <1>2, <1>3, <1>4 DEF Meant, ItemOf, Changed, Kept
  <2>2. Meant(one, q, t.b, ItemOf(g[q], t.b))
    BY <1>2, <1>3, <1>4 DEF Meant, ItemOf, Changed, Kept
  <2>3. one \in [Players -> Holding]
    BY <1>4 DEF Changed
  <2> QED BY <1>2, <2>1, <2>2, <2>3, ChangeThingStep
<1> HIDE DEF two
<1>6. /\ one \in [Players -> Holding] /\ two \in [Players -> Holding]
      /\ \A h \in Players : two[h].pet = g[h].pet /\ two[h].ride = g[h].ride /\ two[h].default = g[h].default
      /\ \A x \in Items : Once(ItemsOf(g), Slots, x) => Once(ItemsOf(two), Slots, x)
  BY <1>4, <1>5 DEF Changed
<1>7. /\ two[p].gold \in Nat /\ two[q].gold \in Nat
      /\ two[p].gold + two[q].gold = g[p].gold + g[q].gold
  <2>1. /\ one[p].gold \in Int /\ one[q].gold \in Int /\ two[p].gold \in Int /\ two[q].gold \in Int
        /\ Cost(m.a) \in Int /\ Cost(m.b) \in Int /\ Cost(t.a) \in Int /\ Cost(t.b) \in Int
    BY <1>2, <1>6 DEF Holding, Cost, AnyThing
  <2>2. /\ one[p].gold >= g[p].gold - Cost(m.a) /\ one[q].gold >= g[q].gold - Cost(t.a)
        /\ two[p].gold >= one[p].gold - Cost(m.b) /\ two[q].gold >= one[q].gold - Cost(t.b)
        /\ one[p].gold + one[q].gold = g[p].gold + g[q].gold
        /\ two[p].gold + two[q].gold = one[p].gold + one[q].gold
    BY <1>4, <1>5 DEF Changed
  <2> QED BY <1>1, <1>2, <1>3, <2>1, <2>2
<1>8. MayPut(two[p], m.c, PetAt(two[q], t.c)) /\ MayPut(two[q], t.c, PetAt(two[p], m.c))
  <2>1. \A h \in Players : EmptyPetSlots(two[h]) = EmptyPetSlots(g[h])
    BY <1>6 DEF EmptyPetSlots
  <2>2. \A h \in Players : HasPet(two[h], two[h].ride) /\ HasPet(two[h], two[h].default)
    BY <1>6 DEF PetsMarked, HasPet
  <2>3. /\ PetAt(two[q], t.c) \in Pets \cup {"none"} /\ (t.c = None => PetAt(two[q], t.c) = "none")
        /\ PetAt(two[p], m.c) \in Pets \cup {"none"} /\ (m.c = None => PetAt(two[p], m.c) = "none")
    <3>1. two[p].pet \in PetTable /\ two[q].pet \in PetTable
      BY <1>6 DEF Holding
    <3> QED BY <1>2, <3>1 DEF PetAt, PetTable
  <2>4. /\ m.c = None \/ two[p].ride # m.c
        /\ t.c = None \/ two[q].ride # t.c
        /\ t.c # None /\ m.c = None => EmptyPetSlots(two[p]) # {}
        /\ m.c # None /\ t.c = None => EmptyPetSlots(two[q]) # {}
    BY <1>3, <1>6, <2>1 DEF RoomForPet
  <2> QED BY <1>2, <1>6, <2>2, <2>3, <2>4 DEF MayPut
<1>9. /\ g1 \in [Players -> Holding]
      /\ \A h \in Players : g1[h].item = two[h].item /\ g1[h].gold = two[h].gold /\ UseKept(two[h], g1[h])
      /\ PetsMarked(g1)
      /\ \A x \in Pets : Once(PetsOf(two), PetSlots, x) => Once(PetsOf(g1), PetSlots, x)
  BY <1>6, <1>8, ChangePetStep
<1>10. Exchange(g, p, q, m, t) = g1
  BY DEF Exchange, one, two
<1> HIDE DEF g1
<1>11. g1 \in [Players -> Goods]
  <2>1. \A h \in Players : g1[h] \in Holding /\ g1[h].gold \in Nat
    BY <1>1, <1>7, <1>9
  <2>2. \A h \in Players : g1[h] \in Goods
    BY <2>1 DEF Holding, Goods, ItemSlots, PetTable
  <2> QED BY <1>9, <2>2
<1>12. \A k, h \in Players : k # h => g1[k].gold + g1[h].gold = g[k].gold + g[h].gold
  <2>1. /\ g1[p].gold = two[p].gold /\ g1[q].gold = two[q].gold
    BY <1>9
  <2> QED BY <1>1, <1>7, <2>1
<1>13. \A h \in Players : UseKept(g[h], g1[h])
  BY <1>6, <1>9 DEF UseKept
<1>14. ItemsOf(g1) = ItemsOf(two) /\ PetsOf(two) = PetsOf(g)
  BY <1>6, <1>9 DEF ItemsOf, PetsOf
<1>15. Exchanged(g, g1)
  BY <1>6, <1>9, <1>11, <1>12, <1>13, <1>14 DEF Exchanged
<1> QED BY <1>10, <1>15

----------------------------------------------------------------------------
(* The invariant. *)

\* At the start everything is in one slot.
LEMMA InitIInv == Init => IInv
<1> SUFFICES ASSUME Init PROVE IInv
  OBVIOUS
<1>1. PICK gold \in [Players -> 0 .. MaxGold],
           item \in [Players -> [Slots -> Items \cup {"none"}]],
           pet \in [Players -> [PetSlots -> Pets \cup {"none"}]],
           ride \in [Players -> PetSlots \cup {None}], fights \in [Players -> PetSlots \cup {None}] :
             LET g == Start(gold, item, pet, ride, fights)
             IN  /\ Placed(g, "item", Items, Slots) /\ Placed(g, "pet", Pets, PetSlots)
                 /\ \A p \in Players : HasPet(g[p], ride[p]) /\ HasPet(g[p], fights[p])
                 /\ goods = g
  BY DEF Init
<1>2. Placed(goods, "item", Items, Slots) /\ Placed(goods, "pet", Pets, PetSlots)
  BY <1>1
<1>3. goods = [p \in Players |-> [item |-> item[p], gold |-> gold[p], pet |-> pet[p],
                                  ride |-> ride[p], default |-> fights[p]]]
  BY <1>1 DEF Start
<1>4. goods \in [Players -> Goods]
  <2>1. \A p \in Players : gold[p] \in Nat
    BY DEF GoodsAssumption
  <2>2. \A p \in Players : [item |-> item[p], gold |-> gold[p], pet |-> pet[p],
                            ride |-> ride[p], default |-> fights[p]] \in Goods
    BY <2>1 DEF Goods
  <2> QED BY <1>3, <2>2
<1>5. PetsMarked(goods)
  <2>1. \A p \in Players : goods[p].ride = ride[p] /\ goods[p].default = fights[p]
    BY <1>3
  <2> QED BY <1>1, <2>1 DEF PetsMarked
<1> QED BY <1>2, <1>4, <1>5, PlacedIsOnce DEF IInv

\* Every step is a whole exchange, of a state in which the marks are right.
LEMMA NextExchanges == IInv /\ [Next]_goods => Exchanged(goods, goods') \/ goods' = goods
<1> SUFFICES ASSUME IInv, NEW me \in Players, NEW to \in Players, me # to, Trade(me, to)
             PROVE  Exchanged(goods, goods')
  BY DEF Next
<1>1. PICK m \in Offer(goods[me]), t \in Offer(goods[to]) :
         CheckItembuf(goods, me, to, m, t) /\ goods' = Exchange(goods, me, to, m, t)
  BY DEF Trade
<1> QED BY <1>1, ExchangeStep DEF IInv

\* Every exchange keeps it there.
LEMMA NextIInv == IInv /\ [Next]_goods => IInv'
<1> SUFFICES ASSUME IInv, [Next]_goods PROVE IInv'
  OBVIOUS
<1>1. CASE Exchanged(goods, goods')
  <2>1. ItemsOf(goods)' = ItemsOf(goods') /\ PetsOf(goods)' = PetsOf(goods')
    BY DEF ItemsOf, PetsOf
  <2>2. PetsMarked(goods)'
    BY <1>1 DEF Exchanged, PetsMarked, HasPet
  <2> QED BY <1>1, <2>1, <2>2 DEF IInv, Exchanged
<1>2. CASE goods' = goods
  BY <1>2 DEF IInv, ItemsOf, PetsOf, PetsMarked, Once, HasPet
<1> QED BY <1>1, <1>2, NextExchanges

\* What each player has keeps its type, and nobody is in debt.
THEOREM TypeCorrect == Spec => []TypeOK
BY InitIInv, NextIInv, PTL DEF Spec, IInv, TypeOK

\* Every item and every pet is in exactly one slot of one player, whichever
\* parts of an exchange fail.
THEOREM NothingLost == Spec => []NothingLostOrDoubled
<1>1. IInv => NothingLostOrDoubled
  BY PlacedIsOnce DEF IInv, NothingLostOrDoubled
<1> QED BY <1>1, InitIInv, NextIInv, PTL DEF Spec

\* Every exchange leaves the two players as much gold as they had.
THEOREM GoldIsConserved == Spec => GoldOnlyMoves
<1>1. IInv /\ [Next]_goods =>
        [\A p, q \in Players : p # q =>
            goods'[p].gold + goods'[q].gold = goods[p].gold + goods[q].gold]_goods
  BY NextExchanges DEF Exchanged
<1> QED BY <1>1, InitIInv, NextIInv, PTL DEF Spec, GoldOnlyMoves

\* A pet that is ridden stays where it is, and the slot marked as fighting holds
\* the pet it held, after every exchange.
THEOREM PetsInUseAreKept == Spec => PetsInUseStay
<1>1. IInv /\ [Next]_goods =>
        [\A p \in Players :
            /\ goods[p].ride # None => goods'[p].pet[goods[p].ride] = goods[p].pet[goods[p].ride]
            /\ goods'[p].default # None =>
                 goods'[p].pet[goods'[p].default] = goods[p].pet[goods'[p].default]]_goods
  BY NextExchanges DEF Exchanged, UseKept
<1> QED BY <1>1, InitIInv, NextIInv, PTL DEF Spec, PetsInUseStay
==============================================================================

----------------------------- MODULE TradeGoods ------------------------------
(***************************************************************************)
(* What changes hands when two players have agreed on a trade: the checks  *)
(* and the exchange of TRADE_CheckItembuf and TRADE_ChangeItem in          *)
(* gmsv/char/trade.c.  Each player offers two things, an item or gold      *)
(* each, and a pet.  The exchange is made in three parts, one thing of     *)
(* each player against one of the other, then pet against pet.             *)
(***************************************************************************)
EXTENDS Integers, FiniteSets

CONSTANTS Players, Items, Pets,
          Slots,      \* item slots of a player, greater than 0
          PetSlots,   \* pet slots
          MaxGold,    \* CHAR_getMaxHaveGold
          Vanishing,  \* items that vanish when dropped
          FamilyPets, \* pets that guard a family
          Untamed     \* pets whose level is too high for the other player

ASSUME GoodsAssumption == /\ \E p, q \in Players : p # q /\ Players = {p, q}
                          /\ Slots \subseteq Nat \ {0} /\ PetSlots \subseteq Nat
                          /\ IsFiniteSet(Slots) /\ IsFiniteSet(PetSlots)
                          /\ MaxGold \in Nat
                          /\ Vanishing \subseteq Items
                          /\ FamilyPets \cup Untamed \subseteq Pets
                          /\ "none" \notin Items \cup Pets

VARIABLE goods    \* what each player has: item and pet slots, gold, and the
                  \* slots of the pet it rides and of the pet that fights, or -1

None == -1

Goods == [item : [Slots -> Items \cup {"none"}], gold : Nat,
          pet : [PetSlots -> Pets \cup {"none"}],
          ride : PetSlots \cup {None}, default : PetSlots \cup {None}]

HasPet(h, s) == s \in {None} \cup {t \in PetSlots : h.pet[t] # "none"}

\* Nothing is in two slots, and together the two have all there is.
Placed(g, field, things, slots) ==
    \A x \in things : Cardinality({ps \in Players \X slots : g[ps[1]][field][ps[2]] = x}) = 1

Start(gold, item, pet, ride, default) ==
    [p \in Players |-> [item |-> item[p], gold |-> gold[p], pet |-> pet[p],
                        ride |-> ride[p], default |-> default[p]]]

Init ==
    \E gold \in [Players -> 0 .. MaxGold],
       item \in [Players -> [Slots -> Items \cup {"none"}]],
       pet \in [Players -> [PetSlots -> Pets \cup {"none"}]],
       ride, default \in [Players -> PetSlots \cup {None}] :
         LET g == Start(gold, item, pet, ride, default)
         IN  /\ Placed(g, "item", Items, Slots) /\ Placed(g, "pet", Pets, PetSlots)
             /\ \A p \in Players : HasPet(g[p], ride[p]) /\ HasPet(g[p], default[p])
             /\ goods = g

----------------------------------------------------------------------------
(* Offers, as TRADE_HandleItem, HandleGold and HandlePet admit them. *)

Thing(h) == [kind : {"I"}, i : {s \in Slots : h.item[s] # "none"} \cup {None}]
            \cup [kind : {"G"}, i : 0 .. h.gold]
Offer(h) == [a : Thing(h), b : Thing(h), c : {s \in PetSlots : h.pet[s] # "none"} \cup {None}]

Offered(o, kind) == {f \in {"a", "b"} : o[f].kind = kind /\ o[f].i # None}

EmptySlots(h)    == {s \in Slots : h.item[s] = "none"}
EmptyPetSlots(h) == {s \in PetSlots : h.pet[s] = "none"}
First(S) == CHOOSE s \in S : \A t \in S : s <= t

Pay(o) == (IF "a" \in Offered(o, "G") THEN o.a.i ELSE 0) +
          (IF "b" \in Offered(o, "G") THEN o.b.i ELSE 0)

----------------------------------------------------------------------------
(* The checks.  o is what h gives and u what it gets. *)

\* Mutant: a player may offer one slot twice.
Distinct_Any(o) == TRUE

\* The two things have different numbers, whatever they are.
Distinct(o) == o.a.i = o.b.i => o.a.i = None

\* Room for the items in the end, not at each part of the exchange.
RoomForItems(h, o, u) ==
    Cardinality(Offered(u, "I")) - Cardinality(Offered(o, "I")) <= Cardinality(EmptySlots(h))

GoldFits(h, o, u) ==
    /\ Pay(o) <= MaxGold
    /\ Pay(o) <= h.gold
    /\ h.gold + Pay(u) - Pay(o) <= MaxGold

\* Mutant: a pet is taken without a free slot for it.
RoomForPet_Any(h, o, u) == o.c = None \/ h.ride # o.c

\* The pet that is ridden stays; a pet that is only taken needs a free slot.
RoomForPet(h, o, u) ==
    /\ o.c = None \/ h.ride # o.c
    /\ u.c # None /\ o.c = None => EmptyPetSlots(h) # {}

\* What h may not give.
Givable(h, o) ==
    /\ \A f \in Offered(o, "I") : h.item[o[f].i] \notin Vanishing
    /\ o.c # None => h.pet[o.c] \notin FamilyPets \cup Untamed

Fits(h, o, u) == RoomForItems(h, o, u) /\ GoldFits(h, o, u) /\ RoomForPet(h, o, u) /\ Givable(h, o)

\* TRADE_CheckItembuf up to the exchange, with both offers mirrored
CheckItembuf(g, me, to, m, t) ==
    Distinct(m) /\ Distinct(t) /\ Fits(g[me], m, t) /\ Fits(g[to], t, m)

----------------------------------------------------------------------------
(* The exchange. *)

\* The item x, of p's slot s, goes to the first free slot of q; without one
\* nothing happens.  Which items are meant was looked up before the exchange.
GiveItem(g, p, s, x, q) ==
    IF EmptySlots(g[q]) = {} THEN g
    ELSE [g EXCEPT ![q].item[First(EmptySlots(g[q]))] = x,
                   ![p].item[s] = "none"]

\* Mutant: the gold is paid to the other, and kept.
PayGold_Twice(g, p, n, q) == [g EXCEPT ![q].gold = @ + n]

PayGold(g, p, n, q) == [g EXCEPT ![p].gold = @ - n, ![q].gold = @ + n]

\* p's item against q's gold: without room for the item no gold is paid either.
ItemForGold(g, p, s, x, q, n) ==
    IF s = None THEN PayGold(g, q, n, p)
    ELSE IF EmptySlots(g[q]) = {} THEN g
    ELSE PayGold(GiveItem(g, p, s, x, q), q, n, p)

ItemForItem(g, p, s, x, q, r, y) ==
    CASE s # None /\ r # None -> [g EXCEPT ![q].item[r] = x, ![p].item[s] = y]
      [] s # None /\ r = None -> GiveItem(g, p, s, x, q)
      [] s = None /\ r # None -> GiveItem(g, q, r, y, p)
      [] s = None /\ r = None -> g

ItemOf(h, thing) == IF thing.kind = "I" /\ thing.i # None THEN h.item[thing.i] ELSE "none"

\* TRADE_ChangeItem of p's thing m and q's thing t, the items m and t being x and y
ChangeThing(g, p, m, x, q, t, y) ==
    CASE m.kind = "I" /\ t.kind = "I" -> ItemForItem(g, p, m.i, x, q, t.i, y)
      [] m.kind = "I" /\ t.kind = "G" -> ItemForGold(g, p, m.i, x, q, t.i)
      [] m.kind = "G" /\ t.kind = "I" -> ItemForGold(g, q, t.i, y, p, m.i)
      [] m.kind = "G" /\ t.kind = "G" -> PayGold(PayGold(g, p, m.i, q), q, t.i, p)

\* Mutant: the pet that fights goes away and is still to fight.
Rest_Never(h, s) == h

\* A pet that is given away no longer fights.
Rest(h, s) == IF s # None /\ s = h.default THEN [h EXCEPT !.default = None] ELSE h

\* The slot of the pet that goes is the slot of the pet that comes.
PetPlace(h, s) == IF s # None THEN s
                  ELSE IF EmptyPetSlots(h) = {} THEN None ELSE First(EmptyPetSlots(h))
PetAt(h, s)    == IF s = None THEN "none" ELSE h.pet[s]
PutPet(h, s, x) == IF s = None THEN h ELSE [h EXCEPT !.pet[s] = x]

ChangePet(g, p, q, s, r) ==
    [g EXCEPT ![p] = PutPet(Rest(g[p], s), PetPlace(g[p], s), PetAt(g[q], r)),
              ![q] = PutPet(Rest(g[q], r), PetPlace(g[q], r), PetAt(g[p], s))]

\* The three parts; what became of one is not looked at by the next.
Exchange(g, me, to, m, t) ==
    LET one == ChangeThing(g,   me, m.a, ItemOf(g[me], m.a), to, t.a, ItemOf(g[to], t.a))
        two == ChangeThing(one, me, m.b, ItemOf(g[me], m.b), to, t.b, ItemOf(g[to], t.b))
    IN  ChangePet(two, me, to, m.c, t.c)

Trade(me, to) ==
    \E m \in Offer(goods[me]), t \in Offer(goods[to]) :
        /\ CheckItembuf(goods, me, to, m, t)
        /\ goods' = Exchange(goods, me, to, m, t)

Next == \E me, to \in Players : me # to /\ Trade(me, to)

Spec == Init /\ [][Next]_goods

----------------------------------------------------------------------------
\* Nobody is left with a debt.
TypeOK == goods \in [Players -> Goods]

\* No exchange, complete or not, loses or doubles an item or a pet.
NothingLostOrDoubled ==
    Placed(goods, "item", Items, Slots) /\ Placed(goods, "pet", Pets, PetSlots)

\* What one pays the other gets, also when a part of the exchange fails.  (That
\* nobody gets more than MaxGold is not so: AllOrNothing says why.)
GoldOnlyMoves ==
    [][\A p, q \in Players : p # q =>
          goods'[p].gold + goods'[q].gold = goods[p].gold + goods[q].gold]_goods

\* A pet that is ridden stays with its rider and in its slot, and a slot that
\* is marked as fighting holds the pet that was there when it was marked.
PetsInUseStay ==
    [][\A p \in Players :
        /\ goods[p].ride # None => goods'[p].pet[goods[p].ride] = goods[p].pet[goods[p].ride]
        /\ goods'[p].default # None =>
             goods'[p].pet[goods'[p].default] = goods[p].pet[goods'[p].default]]_goods

\* What h has, without the slots.
Wealth(h) == [item |-> {h.item[s] : s \in Slots} \ {"none"}, gold |-> h.gold,
              pet |-> {h.pet[s] : s \in PetSlots} \ {"none"}]
Gives(h, o) == [item |-> {h.item[o[f].i] : f \in Offered(o, "I")}, gold |-> Pay(o),
                pet |-> {PetAt(h, o.c)} \ {"none"}]
After(w, given, got) == [item |-> (w.item \ given.item) \cup got.item,
                         gold |-> w.gold - given.gold + got.gold,
                         pet |-> (w.pet \ given.pet) \cup got.pet]

\* Before it exchanges anything the code "checks whether both item lists have
\* free slots": then both players give and get all that they agreed on.
AllOrNothing ==
    \A me, to \in Players : me # to =>
        \A m \in Offer(goods[me]), t \in Offer(goods[to]) :
            CheckItembuf(goods, me, to, m, t) =>
                LET after == Exchange(goods, me, to, m, t)
                    give  == Gives(goods[me], m)
                    get   == Gives(goods[to], t)
                IN  /\ Wealth(after[me]) = After(Wealth(goods[me]), give, get)
                    /\ Wealth(after[to]) = After(Wealth(goods[to]), get, give)
=============================================================================

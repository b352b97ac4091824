------------------------------- MODULE MCTrade -------------------------------
(* Three players that negotiate; two, with three items and gold, that         *)
(* exchange them; a table of the account server's database, in which three    *)
(* keys have one hash value; and a battle of two players, one of whom has a   *)
(* pet, against two enemies.  topic says which of them runs.                  *)
EXTENDS Trade, RankTable, BattleTurn, TLC

CONSTANTS Owners, Items, ItemSlots, MaxGold, Vanishing,
          f1, f2, e1, e2, i1, i2, i3

VARIABLES goods, topic

Goods == INSTANCE TradeGoods
           WITH Players <- Owners, Slots <- ItemSlots, Pets <- {}, PetSlots <- {},
                FamilyPets <- {}, Untamed <- {}

allVars == <<vars, goods, rankVars, fight, topic>>

MCdbHash == [k \in Keys |-> 1]

\* While nothing is exchanged the owners have nothing.
Idle == [p \in Owners |-> [item |-> [s \in ItemSlots |-> "none"], gold |-> 0,
                           pet |-> <<>>, ride |-> -1, default |-> -1]]

MCKennel == {<<f1, 0>>}
MCCarried == [x \in Masters \cup Foes |-> CASE x = e1 -> {i1} [] x = e2 -> {i2} [] x = f1 -> {i3} [] OTHER -> {}]

MCInit ==
    /\ topic \in {"trade", "goods", "rank", "battle"}
    /\ Init /\ RankInit /\ (topic # "rank" => type = "DB_STRING")
    /\ IF topic = "goods" THEN Goods!Init ELSE goods = Idle
    /\ IF topic = "battle" THEN TurnInit /\ fight = StartOfBattle(f1, <<f1, 0>>, <<e1>>) ELSE fight = Vacant

MCNext ==
    /\ UNCHANGED topic
    /\ \/ topic = "trade" /\ Next /\ UNCHANGED <<goods, rankVars, fight>>
       \/ topic = "goods" /\ Goods!Next /\ UNCHANGED <<vars, rankVars, fight>>
       \/ topic = "rank" /\ RankNext /\ UNCHANGED <<vars, goods, fight>>
       \/ /\ topic = "battle" /\ UNCHANGED <<vars, goods, rankVars>>
          /\ \/ TurnNext
             \/ (fight.mode = "over" \/ fight.turn = TurnMax) /\ UNCHANGED fight

MCSpec == MCInit /\ [][MCNext]_allVars

\* No exchange, complete or not, loses or doubles an item, nor leaves anybody
\* with a debt.
ItemsNotLostOrDoubled == topic = "goods" => Goods!TypeOK /\ Goods!NothingLostOrDoubled

\* What one pays the other gets, also when a part of the exchange fails.
GoldOnlyMoves == Goods!GoldOnlyMoves

Symmetry == Permutations(Prompt) \cup Permutations(Players \ Prompt) \cup Permutations(Offers)
==============================================================================

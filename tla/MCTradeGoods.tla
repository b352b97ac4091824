---------------------------- MODULE MCTradeGoods -----------------------------
(* Exchanges of pets; one family, of two founders and a member who are all    *)
(* online, or of two, of whom one comes and goes; and the fund of a family    *)
(* with two members.  topic says which of them runs.                          *)
EXTENDS TradeGoods, Families, FamilyBank, TLC

VARIABLE topic

allVars == <<goods, familyVars, bankVars, topic>>

\* Where the things are while nothing is traded: somewhere.
SomePlace(field, things, slots) ==
    CHOOSE f \in [Players -> [slots -> things \cup {"none"}]] :
        Placed([p \in Players |-> (field :> f[p])], field, things, slots)
Idle == Start([p \in Players |-> 0], SomePlace("item", Items, Slots),
              SomePlace("pet", Pets, PetSlots), [p \in Players |-> None], [p \in Players |-> None])

MCStarts == {[p |-> 2, q |-> 2, r |-> 2], [p |-> 1, q |-> 2, r |-> 0]}
Nowhere == FamilyStart([p |-> 0, q |-> 0, r |-> 0])

MCInit ==
    /\ BankInit
    /\ \/ topic = "pets" /\ Init /\ Nowhere
       \/ topic = "family" /\ goods = Idle /\ FamilyInit
       \/ topic = "bank" /\ goods = Idle /\ Nowhere

MCNext ==
    /\ UNCHANGED topic
    /\ \/ topic = "pets" /\ Next /\ UNCHANGED <<familyVars, bankVars>>
       \/ topic = "family" /\ FamilyNext /\ UNCHANGED <<goods, bankVars>>
       \/ topic = "bank" /\ BankNext /\ UNCHANGED <<goods, familyVars>>

MCSpec == MCInit /\ [][MCNext]_allVars
==============================================================================

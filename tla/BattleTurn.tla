------------------------------ MODULE BattleTurn ------------------------------
(***************************************************************************)
(* The turns of a battle of players and their pets against enemies:        *)
(* BATTLE_Battling of gmsv/battle/battle.c, the commands that              *)
(* gmsv/battle/battle_event.c carries out, and what the battle leaves.     *)
(*                                                                         *)
(* A player sits at a place from 0 to 4, its pet five places further, the  *)
(* enemies from 10 on.  How hard a blow is, and so who falls by it, is     *)
(* open: HP and the rest of the arithmetic are not modelled.  An operator  *)
(* for a function of the code takes the state of the battle and gives the  *)
(* next one, or the set of those that chance can bring.                    *)
(***************************************************************************)
EXTENDS Integers, FiniteSets, SequencesExt

CONSTANTS Masters,  \* players
          Kennel,   \* their pets: pairs of a player and a pet slot
          Foes,     \* enemies
          Loot,     \* items
          Seats,    \* places of players
          Lairs,    \* places of enemies
          Carried,  \* what everybody has at the start
          Lucky,    \* players who wear an item that revives them
          LootMax,  \* GETITEM_MAX
          BoxMax,   \* items that a player can carry
          TurnMax,  \* bound on the turns
          Vacant

ASSUME TurnAssumption ==
    /\ Seats \subseteq 0..4 /\ Lairs \subseteq 10..19 /\ LootMax \in Nat \ {0} /\ BoxMax \in Nat /\ TurnMax \in Nat
    /\ \A b \in Kennel : b[1] \in Masters
    /\ Masters \cap Foes = {} /\ Kennel \cap (Masters \cup Foes) = {} /\ Vacant \notin Masters \cup Foes \cup Kennel
    /\ Carried \in [Masters \cup Foes -> SUBSET Loot]
    /\ \A x, y \in Masters \cup Foes : x # y => Carried[x] \cap Carried[y] = {}

VARIABLE fight  \* the battle, Vacant while there is none

Posts == Seats \cup {s + 5 : s \in Seats} \cup Lairs
SideOf2(n) == n \div 10

\* The loops over the entries of both sides: what the battle can come to when
\* Step is taken for one place after the other.
InOrder(Step(_, _), w) ==
    LET After[i \in 0..20] == IF i = 0 THEN {w}
                              ELSE IF i - 1 \in Posts THEN UNION {Step(v, i - 1) : v \in After[i - 1]}
                              ELSE After[i - 1]
    IN  After[20]

\* What can be left of the items T where there is room for k.
Fitting(T, k) == {R \in SUBSET T : Cardinality(R) <= k /\ (R = T \/ Cardinality(R) = k)}

\* A battle at its start: p has its pet out or none, some of the enemies are there.
StartOfBattle(p, pet, foes) ==
    [mode   |-> "command", turn |-> 0,
     entry  |-> [n \in Posts |->
                   CASE n = 0 -> p
                     [] n = 5 /\ pet # Vacant -> pet
                     [] n \in Lairs /\ n - 9 <= Len(foes) -> foes[n - 9]
                     [] OTHER -> Vacant],
     hurt   |-> {},          \* those with no HP left
     die    |-> {},          \* CHAR_ISDIE
     ult    |-> {},          \* places with BENT_FLG_ULTIMATE
     todo   |-> {},          \* those in EntryList whose turn is to come
     late   |-> {},          \* those in mode RESCUE
     out    |-> [m \in Masters |-> IF m = p THEN pet ELSE Vacant], \* CHAR_DEFAULTPET
     got    |-> [s \in Seats |-> {}],  \* getitem of the entries of players
     own    |-> [x \in Masters \cup Foes |-> IF x \in Foes \ Range(foes) THEN {} ELSE Carried[x]],
     items  |-> UNION {Carried[x] : x \in Masters \cup Range(foes)}, \* items that exist
     lucky  |-> Lucky,
     pool   |-> Foes \ Range(foes),  \* enemies that have not been created
     worth  |-> Foes,        \* those whose experience nobody has taken
     earned |-> [e \in Foes |-> 0],  \* how often it was taken
     lost   |-> {},          \* history: items that an EntryInit forgot
     fled   |-> {}]          \* history: those who left with no HP, but not dead

----------------------------------------------------------------------------
(* The entries of the battle. *)

In(w, f) == \E n \in Posts : w.entry[n] = f
PlaceOf(w, f) == CHOOSE n \in Posts : w.entry[n] = f
Down(w, f) == f \in w.hurt \cup w.die

\* BATTLE_TargetCheck
Targets(w, side) ==
    {n \in Posts : /\ SideOf2(n) = side /\ w.entry[n] # Vacant
                    /\ ~ Down(w, w.entry[n]) /\ w.entry[n] \notin w.late}

CountAlive(w, side) ==
    {w.entry[n] : n \in {n \in Posts : SideOf2(n) = side}} \ (w.die \cup Kennel \cup {Vacant})

\* BATTLE_NewEntry; EntryInit forgets what was won at the place
NewEntry(w, f, n) ==
    [w EXCEPT !.entry[n] = f, !.ult = @ \ {n},
              !.got = [s \in Seats |-> IF s = n THEN {} ELSE @[s]],
              !.lost = IF n \in Seats THEN @ \cup w.got[n] ELSE @]

\* Mutant: a player who leaves leaves its pet behind.
BATTLE_Exit_Alone(w, f) ==
    IF ~ In(w, f) THEN w
    ELSE [w EXCEPT !.entry[PlaceOf(w, f)] = Vacant, !.hurt = @ \ {f}, !.die = @ \ {f}]

\* A player takes its pet along, its wounds and those of its pets are healed;
\* an enemy ceases to exist with all that it carries.
BATTLE_Exit(w, f) ==
    LET n == PlaceOf(w, f)
        gone == {f} \cup (IF f \in Masters THEN {w.entry[n + 5]} \ {Vacant} ELSE {})
        healed == CASE f \in Masters -> ({f} \cap w.die) \cup {b \in Kennel : b[1] = f}
                    [] f \in Foes -> {f}
                    [] OTHER -> {}
        ended == IF f \in Foes THEN w.own[f] ELSE {}
    IN  IF ~ In(w, f) THEN w
        ELSE [w EXCEPT !.entry = [m \in Posts |-> IF @[m] \in gone THEN Vacant ELSE @[m]],
                       !.hurt = @ \ healed, !.die = @ \ healed, !.fled = @ \ healed,
                       !.todo = @ \ gone, !.late = @ \ gone,
                       !.own = [x \in DOMAIN @ |-> @[x] \ ended], !.items = @ \ ended]

PetDefaultExit(w, p) == IF w.out[p] = Vacant THEN w ELSE BATTLE_Exit(w, w.out[p])

PetIn(w, p) == [PetDefaultExit(w, p) EXCEPT !.out[p] = Vacant]

\* s is the place of p, who has chosen its pet
PetDefaultEntry(w, p, s) ==
    CASE w.out[p] = Vacant -> w
      [] w.out[p] # Vacant /\ Down(w, w.out[p]) -> [w EXCEPT !.out[p] = Vacant]
      [] OTHER -> IF w.entry[s + 5] = Vacant THEN NewEntry(w, w.out[p], s + 5) ELSE w

\* A fighter who goes for good: a pet by way of its master
Goes(w, f) == IF f \in Kennel THEN PetIn(w, f[1]) ELSE BATTLE_Exit(w, f)

----------------------------------------------------------------------------
(* What those at the places L, of one side, get for those who have fallen. *)

\* Where the spoils of the fighter at n are kept: with those of its master
SeatOf(w, n) == IF w.entry[n] \in Kennel THEN n - 5 ELSE n

\* The items that S have when each of those of e goes to one of them: where
\* there are too many, chance says which are ended.
Shares(w, e, S) ==
    UNION {LET Share(s) == w.got[s] \cup {i \in w.own[e] : to[i] = s}
           IN  {g \in [Seats -> SUBSET UNION {Share(s) : s \in Seats}] : \A s \in Seats : g[s] \in Fitting(Share(s), LootMax)} :
             to \in [w.own[e] -> S]}

\* Mutant: the enemy keeps a hold of the items it is robbed of.
Rob_Keeps(w, e, S) == {[w EXCEPT !.got = g] : g \in Shares(w, e, S)}

Rob(w, e, S) ==
    {[w EXCEPT !.own[e] = {}, !.got = g,
               !.items = @ \ ((w.own[e] \cup UNION {w.got[s] : s \in Seats}) \ UNION {g[s] : s \in Seats})] :
       g \in Shares(w, e, S)}

\* Mutant: the experience of the enemy is not set to zero.
TakeExp_Again(w, e) == [w EXCEPT !.earned[e] = IF @ < 2 THEN @ + 1 ELSE @]

TakeExp(w, e) ==
    [w EXCEPT !.earned[e] = IF e \in w.worth THEN @ + 1 ELSE @, !.worth = @ \ {e}]

UltimateExtra(w, f) ==
    CASE f \in Masters -> BATTLE_Exit(PetDefaultExit(w, f), f)
      [] f \in Kennel  -> BATTLE_Exit([w EXCEPT !.out[f[1]] = Vacant], f)
      [] OTHER         -> BATTLE_Exit(w, f)

\* One who has fallen at n has its things taken for the seats S, and is dead
\* and, after a blow that was too hard, gone.
Fall(w, n, S) ==
    LET f == w.entry[n]
        robbed == IF S # {} /\ f \in Foes THEN {TakeExp(v, f) : v \in Rob(w, f, S)} ELSE {w}
        dead == {[v EXCEPT !.die = @ \cup {f}] : v \in robbed}
    IN  IF f \notin w.hurt \ w.die THEN {w}
        ELSE IF n \in w.ult THEN {UltimateExtra(v, f) : v \in dead} ELSE dead

\* Nobody gets anything when one of those at L has left.
AddExpItem(w, L) ==
    LET S == {SeatOf(w, n) : n \in {n \in L : SideOf2(n) = 0}}
    IN  IF \E n \in L : w.entry[n] = Vacant THEN {w}
        ELSE InOrder(LAMBDA v, n : Fall(v, n, S), w)

\* CHECK_ITEM_RELIFE: the item of a dead player revives it, and is used up
Relife(w) ==
    LET up == {p \in w.lucky : In(w, p) /\ p \in w.die /\ PlaceOf(w, p) \notin w.ult}
    IN  [w EXCEPT !.hurt = @ \ up, !.die = @ \ up, !.lucky = @ \ up]

----------------------------------------------------------------------------
(* What a fighter f, at place n, does in its turn. *)

\* Those at X lose their HP, at the places U by a blow that was too hard.
Struck(w, X, U) == [w EXCEPT !.hurt = @ \cup {w.entry[x] : x \in X}, !.ult = @ \cup U]

\* All the blows of BATTLE_COM_ATTACK, by which X fall; one who reflects a
\* blow may make f fall, which ends it.
Blows(w, n, L) ==
    UNION {UNION {AddExpItem(Struck(w, X, U), L) : U \in SUBSET X} :
             X \in UNION {SUBSET (Targets(w, s) \cup {n}) : s \in {0, 1}}}

\* The one at d answers a blow of the one at n, which may be answered again.
\* One falls, and it is the entry of the one who was struck at that is marked,
\* even if it reflects the blow.
Answers(w, n, d) ==
    LET Answer(a, v) == UNION {AddExpItem(Struck(w, {v}, U), {a}) : U \in {{}, {n + d - a}}}
    IN  UNION {Answer(a, n) \cup Answer(a, d) : a \in {n, d}}

Attack(w, n) ==
    LET once == Blows(w, n, {n})
        Foe(v) == UNION {Targets(v, s) : s \in {0, 1}} \ {n}
        more == {v \in once : v.entry[n] = w.entry[n] /\ ~ Down(v, v.entry[n])}
    IN  once \cup UNION {UNION {Answers(v, n, d) : d \in Foe(v)} : v \in more}

\* BATTLE_S_GBreak and its like: one blow, whose mark is on the entry of d
\* even if it is reflected.
BATTLE_S_AttackDamage(w, n) ==
    LET Blow(v, d) == {Struck(w, {v}, U) : U \in {{}, {d}}}
    IN  UNION {Blow(n, d) \cup Blow(d, d) : d \in (Targets(w, 0) \cup Targets(w, 1)) \ {n}}

\* Magic hits any of a side, and never too hard.
MAGIC_DirectUse(w, n) ==
    UNION {{Struck(w, X, {}) : X \in SUBSET Targets(w, s)} : s \in {0, 1}}

\* BATTLE_MultiRessurect of a dead one on the own side
Revive(w, n) ==
    {[w EXCEPT !.hurt = @ \ {f}, !.die = @ \ {f}] :
       f \in {w.entry[m] : m \in {m \in Posts \ w.ult : SideOf2(m) = SideOf2(n)}} \cap w.die}

BATTLE_Capture(w, n) ==
    {BATTLE_Exit(w, w.entry[d]) : d \in IF w.entry[n] \in Masters THEN Targets(w, 1) ELSE {}}

BATTLE_Escape(w, n) == IF w.entry[n] \in Kennel THEN {} ELSE {BATTLE_Exit(w, w.entry[n])}

\* BATTLE_COM_PETIN and BATTLE_COM_PETOUT
PetCommand(w, n) ==
    LET p == w.entry[n]
        v == IF w.out[p] = Vacant THEN w ELSE PetIn(w, p)
    IN  IF p \notin Masters THEN {}
        ELSE {v} \cup {PetDefaultEntry([v EXCEPT !.out[p] = b], p, n) : b \in {b \in Kennel : b[1] = p}}

\* Pets and enemies of some kinds run away; the master is found by the place.
BATTLE_S_Roar(w, n) ==
    {IF w.entry[d] \in Foes THEN BATTLE_Exit(w, w.entry[d])
     ELSE [BATTLE_Exit(w, w.entry[d]) EXCEPT !.out[w.entry[d - 5]] = Vacant] :
       d \in {d \in (Targets(w, 0) \cup Targets(w, 1)) \ {n} : w.entry[d] \notin Masters}}

BATTLE_LostEscape(w, n) == IF w.entry[n] \in Masters THEN {} ELSE {Goes(w, w.entry[n])}

\* The one at n takes a pet or an enemy away, or fails, and leaves.
BATTLE_Abduct(w, n) ==
    LET f == w.entry[n]
        prey == {w.entry[d] : d \in Targets(w, 0) \cup Targets(w, 1)} \ (Masters \cup {f})
    IN  IF f \in Masters \/ prey = {} THEN {} ELSE {Goes(w, f)} \cup {Goes(Goes(w, x), f) : x \in prey}

\* An enemy ends an item of a player and leaves.
BATTLE_Steal(w, n) ==
    UNION {{BATTLE_Exit([w EXCEPT !.own[w.entry[d]] = @ \ {i}, !.items = @ \ {i}], w.entry[n]) :
              i \in w.own[w.entry[d]]} :
             d \in {d \in Targets(w, 0) : w.entry[d] \in Masters /\ w.entry[n] \in Foes}}

\* An enemy calls another one to the first place that is free.
BATTLE_E_ENEMYHELP(w, n) ==
    LET free == {m \in Lairs : w.entry[m] = Vacant}
        m == CHOOSE m \in free : \A k \in free : m <= k
        Come(e) == [NewEntry(w, e, m) EXCEPT !.pool = @ \ {e}, !.own[e] = Carried[e], !.items = @ \cup Carried[e]]
    IN  IF w.entry[n] \in Foes /\ free # {} THEN {Come(e) : e \in w.pool} ELSE {}

\* The one at d is struck, loses heart and leaves, though it may have fallen:
\* then it has no HP but is not dead.
BATTLE_Timid(w, n) ==
    LET Left(d, X, U) ==
            LET v == Goes(Struck(w, X, U), w.entry[d])
            IN  [v EXCEPT !.fled = @ \cup (v.hurt \cap Masters \cap {w.entry[d]})]
    IN  UNION {{Left(d, {}, {}), Left(d, {d}, {}), Left(d, {d}, {d})} :
                 d \in (Targets(w, 0) \cup Targets(w, 1)) \ {n}}

\* BATTLE_StatusSeq: one dies of deep poison before it can act.
DeepPoison(w, n) == {[w EXCEPT !.hurt = @ \cup {w.entry[n]}, !.die = @ \cup {w.entry[n]}]}

Does(w, n) ==
    BATTLE_S_AttackDamage(w, n) \cup MAGIC_DirectUse(w, n) \cup Revive(w, n)
    \cup BATTLE_Capture(w, n) \cup BATTLE_Escape(w, n) \cup PetCommand(w, n)
    \cup BATTLE_S_Roar(w, n) \cup BATTLE_LostEscape(w, n) \cup BATTLE_Abduct(w, n)
    \cup BATTLE_Steal(w, n) \cup BATTLE_E_ENEMYHELP(w, n) \cup BATTLE_Timid(w, n)
    \cup DeepPoison(w, n)

----------------------------------------------------------------------------
(* The battle: commands are given, then the fighters have their turns. *)

\* Those who can still act in this turn, while somebody lives on each side.
Acting == {f \in fight.todo : In(fight, f) /\ ~ Down(fight, f)}
Going  == /\ fight.mode = "turn" /\ Acting # {}
          /\ CountAlive(fight, 0) # {} /\ CountAlive(fight, 1) # {}

RescueEntry(p) ==
    LET free == {s \in Seats : fight.entry[s] = Vacant}
        s == CHOOSE s \in free : \A t \in free : s <= t
    IN  /\ fight.mode = "command" /\ ~ In(fight, p) /\ free # {}
        /\ \E n \in Posts : fight.entry[n] \in Masters
        /\ \E b \in {Vacant} \cup {b \in Kennel : b[1] = p} :
             LET v == PetDefaultEntry(NewEntry([fight EXCEPT !.out[p] = b], p, s), p, s)
             IN  fight' = [v EXCEPT !.late = @ \cup ({p, v.entry[s + 5]} \ {Vacant})]

\* BATTLE_TimeOutCheck and CHAR_logout: p leaves before the turn.
Leave(p) ==
    /\ fight.mode = "command" /\ In(fight, p)
    /\ fight' = BATTLE_Exit(fight, p)

StartTurn ==
    /\ fight.mode = "command" /\ fight.turn < TurnMax
    /\ fight' = [fight EXCEPT !.mode = "turn", !.turn = @ + 1, !.ult = {},
                   !.todo = Range(fight.entry) \ (fight.late \cup {Vacant})]

\* Those who have acted act no more in this turn.
Acted(w, X) == [w EXCEPT !.todo = @ \ X]

AttackTurn(f) ==
    /\ Going /\ f \in Acting
    /\ \E w \in Attack(fight, PlaceOf(fight, f)) : fight' = Acted(Relife(w), {f})

OtherTurn(f) ==
    LET n == PlaceOf(fight, f)
    IN  /\ Going /\ f \in Acting
        /\ \E w \in Does(fight, n) : \E v \in AddExpItem(Relife(w), {n}) : fight' = Acted(v, {f})

\* BATTLE_Combo: all of X strike at once.
ComboTurn(X) ==
    LET L == {PlaceOf(fight, f) : f \in X}
    IN  /\ Going /\ Cardinality(X) > 1
        /\ \E s \in {0, 1} :
             /\ \A n \in L : SideOf2(n) = s
             /\ \E d \in Targets(fight, 1 - s) : \E v \in L \cup {d} : \E U \in {{}, {v}} :
                  \E w \in AddExpItem(Struck(fight, {v}, U), L) : fight' = Acted(Relife(w), X)

\* Those at X leave.
AllLeave(w, X) == InOrder(LAMBDA v, n : {IF n \in X THEN BATTLE_Exit(v, v.entry[n]) ELSE v}, w)

\* The end of BATTLE_Command.  The fallen of a side where only rescuers live
\* have to go; whether the enemies have to is read uninitialised when nobody of
\* the players lives.
EndTurn ==
    LET lost == CountAlive(fight, 0) = {}
        over == lost \/ CountAlive(fight, 1) = {}
        Fallen(S) == {n \in S : fight.entry[n] \in fight.hurt}
        toGo == CASE lost -> {{}, Fallen(Lairs \cap 10..14)}
                  [] ~ lost /\ CountAlive(fight, 0) \subseteq fight.late -> {Fallen(Seats)}
                  [] OTHER -> {{}}
    IN  /\ fight.mode = "turn" /\ ~ Going
        /\ \E X \in toGo : \E w \in AllLeave(fight, X) :
             fight' = [w EXCEPT !.mode = IF over THEN "finish" ELSE "command", !.todo = {}, !.late = {}]

\* BATTLE_GetExpGold: p, at s, takes as much as it can carry of what it won.
GetExpGold(w, s) ==
    LET p == w.entry[s]
        room == BoxMax - Cardinality(w.own[p])
    IN  IF p \notin Masters \/ p \in w.die THEN {w}
        ELSE {[w EXCEPT !.own[p] = @ \cup T, !.got[s] = {}, !.items = @ \ (w.got[s] \ T)] : T \in Fitting(w.got[s], room)}

DeleteItem(w) ==
    [w EXCEPT !.items = @ \ UNION {w.got[s] : s \in Seats}, !.got = [s \in Seats |-> {}]]

Discharged(w, n) ==
    {BATTLE_Exit(v, w.entry[n]) : v \in IF n \in Seats THEN GetExpGold(w, n) ELSE {w}}

Finish ==
    /\ fight.mode = "finish"
    /\ \E w \in InOrder(Discharged, fight) : fight' = [DeleteItem(w) EXCEPT !.mode = "over"]

TurnNext ==
    \/ \E p \in Masters : RescueEntry(p) \/ Leave(p)
    \/ StartTurn \/ EndTurn \/ Finish
    \/ \E f \in Acting : AttackTurn(f) \/ OtherTurn(f)
    \/ \E X \in SUBSET Acting : ComboTurn(X)

\* One player, who may have a pet out, meets some enemies.
TurnInit ==
    \E p \in Masters, foes \in UNION {Injection(1..k, Foes) : k \in 0..10} :
      \E pet \in {Vacant} \cup {b \in Kennel : b[1] = p} : fight = StartOfBattle(p, pet, foes)

TurnSpec == TurnInit /\ [][TurnNext]_fight

----------------------------------------------------------------------------
(* Properties. *)

\* An item that exists is carried by one player or one enemy, or lies in one
\* entry of the battle, until it is ended; except for what was won by one who
\* left and whose place a rescuer took, which nobody holds (battle.c:1016).
\* AddExpItem moves items from enemies to entries, BATTLE_GetExpGold from
\* there to players, and several functions end them.
LootInOnePlace == fight # Vacant =>
    \A i \in Loot :
      LET holders == {x \in Masters \cup Foes : i \in fight.own[x]} \cup {s \in Seats : i \in fight.got[s]}
      IN  IF i \in fight.items THEN i \in fight.lost \/ Cardinality(holders) = 1 ELSE holders = {}

\* The pet five places from a player is the one this player has out, whatever
\* makes players and pets leave or come: AddExpItem and BATTLE_S_Roar find the
\* master of a pet by its place, PetDefaultExit the pet by its master.
PetsByTheirMasters == fight # Vacant =>
    \A s \in Seats : LET b == fight.entry[s + 5]
                     IN  b # Vacant => b[1] = fight.entry[s] /\ fight.out[b[1]] = b

\* Between two actions everybody who has lost all HP counts as dead, so that
\* a side that has fallen ends the battle, unless it lost heart by the blow it
\* fell by, left and came back; and the experience of an enemy is taken once,
\* together with its items, even if it is revived and falls again.
FallenAreSettled == fight # Vacant =>
    /\ \A n \in Posts : fight.entry[n] \in fight.hurt \ fight.fled => fight.entry[n] \in fight.die
    /\ \A e \in Foes : /\ fight.earned[e] <= 1
                       /\ fight.earned[e] = 1 => fight.own[e] = {}
===============================================================================

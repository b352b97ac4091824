-------------------------------- MODULE Battle --------------------------------
(***************************************************************************)
(* Battles of players on a game server and the watching of them:           *)
(* gmsv/battle/battle.c, the commands that start, join, watch and leave    *)
(* battles, and logout.                                                    *)
(*                                                                         *)
(* BattleArray is a table of battles.  The requests of the clients change  *)
(* it at any time; BATTLE_Loop steps every battle in use.  One that is     *)
(* watched heads a list of WATCH battles, whose first side holds the       *)
(* spectators.  Enemies and pets are left out, but for whether an enemy is *)
(* alive; where characters stand, and what is done in a fight, is open.    *)
(***************************************************************************)
EXTENDS Integers, FiniteSets

CONSTANTS Fighters,   \* indices of player characters
          Battles,    \* indices of BattleArray
          Battle0,    \* index 0, the value of BATTLEINDEX after a login
          SideMax,    \* players of a side, and of a party
          Turns       \* turns are counted modulo this bound

ASSUME BattleAssumption == /\ Battle0 \in Battles \cup {"none"} /\ "none" \notin Battles \cup Fighters
                           /\ SideMax \in Nat \ {0} /\ Turns \in Nat \ {0}

VARIABLES bmode,    \* mode of a battle, NONE when it is not in use
          btype,    \* P_vs_E, P_vs_P or WATCH
          part,     \* whether PartTime runs: a command was given this turn
          turn,     \* the number of the turn
          entry,    \* the players on each side
          bnext, bbefore, \* pNext and pBefore
          cmode,    \* CHAR_WORKBATTLEMODE of a player
          cbattle,  \* CHAR_WORKBATTLEINDEX
          watch,    \* CHAR_WORKBATTLEWATCH
          dead,     \* CHAR_ISDIE
          lead      \* the leader of its party

tableVars == <<bmode, btype, part, turn, bnext, bbefore>>
charVars  == <<entry, cmode, cbattle, watch, dead>>
battleVars == <<tableVars, charVars, lead>>

Sides == {0, 1}
Empty == [s \in Sides |-> {}]

BattleInit ==
    /\ bmode = [b \in Battles |-> "NONE"]
    /\ btype = [b \in Battles |-> "P_vs_E"]
    /\ part = [b \in Battles |-> FALSE]
    /\ turn = [b \in Battles |-> 0]
    /\ entry = [b \in Battles |-> Empty]
    /\ bnext = [b \in Battles |-> "none"] /\ bbefore = bnext
    /\ cmode = [c \in Fighters |-> "NONE"]
    /\ cbattle = [c \in Fighters |-> Battle0]
    /\ watch = [c \in Fighters |-> FALSE] /\ dead = watch
    /\ lead = [c \in Fighters |-> "none"]

----------------------------------------------------------------------------
(* Parties, as module Parties describes them. *)

Followers(l) == {c \in Fighters : lead[c] = l}
IsClient(c)  == lead[c] \notin {"none", c}
ChiefOf(c)   == IF IsClient(c) THEN lead[c] ELSE c

\* What is left of the parties when all of X have been discharged.
SentBack(X) ==
    LET stays(c) == c \notin X /\ lead[c] \notin X
    IN  [c \in Fighters |->
           IF stays(c) /\ \E d \in Followers(lead[c]) \ {lead[c]} : stays(d)
           THEN lead[c] ELSE "none"]

\* The characters that a leader takes along: those not in a battle.
With(c) == {c} \cup {d \in Followers(c) : cmode[d] = "NONE"}

CHAR_JoinParty_Free(c, l) ==
    /\ c # l /\ lead[c] = "none" /\ lead[l] \in {"none", l}
    /\ cmode[l] = "NONE"
    /\ Cardinality(Followers(l) \cup {l}) < SideMax
    /\ lead' = [lead EXCEPT ![c] = l, ![l] = l]
    /\ UNCHANGED <<tableVars, charVars>>

LeaveParty(c) ==
    /\ lead[c] # "none"
    /\ lead' = SentBack({c})
    /\ UNCHANGED <<tableVars, charVars>>

----------------------------------------------------------------------------
(* Entering and leaving battles. *)

People(b)   == entry[b][0] \cup entry[b][1]
Standing(b, s) == {c \in entry[b][s] : ~ dead[c]}
SideOf(c)   == IF c \in entry[cbattle[c]][1] THEN 1 ELSE 0

\* The battles behind b in its list: those in every set that the list does not
\* leave.
Closed(S)   == \A x \in S : bnext[x] \in S \cup {"none"}
Watching(b) == {w \in Battles : \A S \in SUBSET Battles : Closed(S) /\ bnext[b] \in S \cup {"none"} => w \in S}

\* BATTLE_NewEntry and BATTLE_WatchNewEntry for all of X
Enter(X, b, s, m, w) ==
    /\ entry' = [entry EXCEPT ![b][s] = @ \cup X]
    /\ cmode' = [c \in Fighters |-> IF c \in X THEN m ELSE cmode[c]]
    /\ cbattle' = [c \in Fighters |-> IF c \in X THEN b ELSE cbattle[c]]
    /\ watch' = [c \in Fighters |-> IF c \in X THEN w ELSE watch[c]]
    /\ UNCHANGED dead

\* Mutant: the entry of the battle keeps the character.
BATTLE_Exit_KeepsEntry(X) ==
    /\ cbattle' = [c \in Fighters |-> IF c \in X THEN "none" ELSE cbattle[c]]
    /\ UNCHANGED <<entry, watch>>

\* BATTLE_Exit for all of X, but for their modes and wounds
BATTLE_Exit(X) ==
    /\ entry' = [b \in Battles |-> [s \in Sides |-> entry[b][s] \ X]]
    /\ cbattle' = [c \in Fighters |-> IF c \in X THEN "none" ELSE cbattle[c]]
    /\ UNCHANGED watch

Ended(X) == [c \in Fighters |-> IF c \in X THEN "FINAL" ELSE cmode[c]]
Healed(X) == [c \in Fighters |-> c \notin X /\ dead[c]]

\* BATTLE_CreateBattle: any battle that is not in use
CreateBattle(b, t, m) ==
    /\ bmode[b] = "NONE"
    /\ bmode' = [bmode EXCEPT ![b] = m]
    /\ btype' = [btype EXCEPT ![b] = t]
    /\ part' = [part EXCEPT ![b] = FALSE]
    /\ turn' = [turn EXCEPT ![b] = 0]

\* BATTLE_CreateVsEnemy: c and those it leads meet enemies.
Encounter(c) ==
    /\ ~ IsClient(c)
    /\ \E b \in Battles :
         /\ CreateBattle(b, "P_vs_E", "INIT")
         /\ Enter(With(c), b, 0, "INIT", FALSE)
    /\ UNCHANGED <<bnext, bbefore, lead>>

\* Mutant: whether c already is in a battle is not asked.
BATTLE_CreateVsEnemy_Twice(c) == Encounter(c)

\* lssproto_EN_recv
BATTLE_CreateVsEnemy(c) ==
    /\ cmode[c] = "NONE"
    /\ Encounter(c)

\* lssproto_DU_recv and the choice among several: t is found in front of c,
\* its leader is fought, who may be elsewhere.
BATTLE_CreateVsPlayer(c, t) ==
    LET r == ChiefOf(t)
    IN  /\ c # t /\ ~ IsClient(c)
        /\ cmode[c] = "NONE" /\ cmode[t] = "NONE" /\ cmode[r] = "NONE"
        /\ lead[c] = "none" \/ lead[c] # lead[r]
        /\ \E b \in Battles :
             /\ CreateBattle(b, "P_vs_P", "INIT")
             /\ entry' = [entry EXCEPT ![b] = [s \in Sides |-> IF s = 0 THEN With(c) ELSE With(r)]]
             /\ LET X == With(c) \cup With(r)
                IN  /\ cmode' = [d \in Fighters |-> IF d \in X THEN "INIT" ELSE cmode[d]]
                    /\ cbattle' = [d \in Fighters |-> IF d \in X THEN b ELSE cbattle[d]]
                    /\ watch' = [d \in Fighters |-> d \notin X /\ watch[d]]
        /\ UNCHANGED <<bnext, bbefore, dead, lead>>

\* c joins the side of t, unless players fight.  The battle of t may be one
\* that only watches.
Aid(c, t) ==
    /\ cbattle[t] # "none"
    /\ btype[cbattle[t]] # "P_vs_P"
    /\ Enter({c}, cbattle[t], SideOf(t), "RESCUE", FALSE)
    /\ UNCHANGED <<tableVars, lead>>

BATTLE_RescueEntry(c, t) ==
    /\ cbattle[t] # "none" /\ Cardinality(entry[cbattle[t]][SideOf(t)]) < SideMax
    /\ Aid(c, t)

\* lssproto_JB_recv, and the choice among several battles
BATTLE_RescueTry(c, t) ==
    /\ c # t /\ cmode[c] = "NONE" /\ lead[c] = "none"
    /\ cmode[t] \notin {"NONE", "FINAL"}
    /\ btype[cbattle[t]] = "P_vs_E"
    /\ BATTLE_RescueEntry(c, t)

\* BATTLE_WatchLink: b comes right behind top.
WatchLink(top, b) ==
    /\ bnext' = [bnext EXCEPT ![top] = b, ![b] = bnext[top]]
    /\ bbefore' = [x \in Battles |-> IF x = b THEN top
                                     ELSE IF x = bnext[top] THEN b ELSE bbefore[x]]

\* lssproto_LB_recv, lssproto_JB_recv and the choice among several: t may watch itself.
BATTLE_WatchEntry(c, t) ==
    /\ c # t /\ cmode[c] = "NONE"
    /\ cmode[t] \notin {"NONE", "FINAL"}
    /\ \E b \in Battles :
         /\ CreateBattle(b, "WATCH", "WATCHBC")
         /\ WatchLink(cbattle[t], b)
         /\ Enter(With(c), b, 0, "WATCHINIT", TRUE)
    /\ UNCHANGED lead

\* lssproto_EO_recv: the client has shown the end of its battle.  One that
\* follows a leader who is in a battle comes to his aid if he can.
BattleEncountOut(c) ==
    /\ cmode[c] = "FINAL"
    /\ \/ /\ IsClient(c) /\ cmode[lead[c]] \notin {"NONE", "FINAL"}
          /\ BATTLE_RescueEntry(c, lead[c])
       \/ /\ cmode' = [cmode EXCEPT ![c] = "NONE"]
          /\ watch' = [watch EXCEPT ![c] = FALSE]
          /\ UNCHANGED <<tableVars, entry, cbattle, dead, lead>>

\* BATTLE_WatchStop: c leaves its battle and its party.
BATTLE_WatchStop(c) ==
    /\ BATTLE_Exit({c})
    /\ cmode' = Ended({c}) /\ dead' = Healed({c})
    /\ lead' = SentBack({c})
    /\ UNCHANGED tableVars

\* BattleCommandDispach: a command, or "U" of one that watches.  One that
\* came to the aid of a spectator is no spectator and can only go on.
BattleCommandDispach(c) ==
    LET watching == cmode[c] \notin {"NONE", "FINAL"} /\ btype[cbattle[c]] = "WATCH"
    IN  \/ watching /\ watch[c] /\ BATTLE_WatchStop(c)
        \/ /\ cmode[c] = "C_WAIT" \/ (watching /\ ~ watch[c])
           /\ cmode' = [cmode EXCEPT ![c] = "C_OK"]
           /\ UNCHANGED <<tableVars, entry, cbattle, watch, dead, lead>>

\* _CHAR_logout, and the login of the next character under the index c
CHAR_logout_Battle(c) ==
    /\ entry' = [b \in Battles |-> [s \in Sides |-> entry[b][s] \ {c}]]
    /\ cmode' = [cmode EXCEPT ![c] = "NONE"]
    /\ cbattle' = [cbattle EXCEPT ![c] = Battle0]
    /\ watch' = [watch EXCEPT ![c] = FALSE] /\ dead' = Healed({c})
    /\ lead' = SentBack({c})
    /\ UNCHANGED tableVars

----------------------------------------------------------------------------
(* BATTLE_Loop: one battle. *)

\* A WATCH battle that nobody alive watches is over.
Over(b) == \/ bmode[b] = "FINISH"
           \/ bmode[b] # "NONE" /\ btype[b] = "WATCH" /\ Standing(b, 0) = {}

\* BATTLE_PreCommandSeq: the next turn, also shown to the spectators.
WatchPre(b, modes) ==
    LET W == Watching(b)
    IN  [w \in Battles |-> IF w \in W THEN "WATCHPRE" ELSE modes[w]]

BATTLE_Init(b) ==
    /\ bmode[b] = "INIT"
    /\ bmode' = WatchPre(b, [bmode EXCEPT ![b] = "BATTLE"])
    /\ cmode' = [c \in Fighters |-> IF c \in People(b) THEN "C_WAIT" ELSE cmode[c]]
    /\ UNCHANGED <<btype, part, turn, bnext, bbefore, entry, cbattle, watch, dead, lead>>

\* BATTLE_CommandWait: who has still to give a command, the dead excepted
Silent(b)  == {c \in People(b) : cmode[c] = "C_WAIT" /\ ~ dead[c]}
Given(b)   == \E c \in People(b) : cmode[c] = "C_OK" /\ ~ dead[c]

\* BATTLE_TimeOutCheck: all that have given none, the dead too
Waiting(b) == {c \in People(b) : cmode[c] = "C_WAIT"}

\* All spectators have seen the last turn.
Shown(b) == \A w \in Watching(b) : bmode[w] = "WATCHMOVIE"

\* Nobody acts yet.  X, who let the 120 seconds after the first command
\* pass, have to leave; new spectators are told of the battle.
Wait(b, X) ==
    /\ (Silent(b) \ X # {} \/ ~ Shown(b))
    /\ BATTLE_Exit(X)
    /\ cmode' = Ended(X) /\ dead' = Healed(X)
    /\ lead' = SentBack(X)
    /\ part' = [part EXCEPT ![b] = @ \/ Given(b)]
    /\ LET told == {w \in Watching(b) : bmode[w] = "WATCHBC"}
       IN  bmode' = [w \in Battles |-> IF w \in told THEN "WATCHPRE" ELSE bmode[w]]
    /\ UNCHANGED <<btype, turn, bnext, bbefore>>

\* BATTLE_OnlyRescue: of the players alive on a side all have just come.
OnlyRescue(alive) == alive # {} /\ \A c \in alive : cmode[c] = "RESCUE"

\* BATTLE_Battling and what follows.  X have been excluded for their silence;
\* G escape, are beaten out of the battle or sent elsewhere; of those that
\* stay D are dead at the end, and f says whether an enemy is alive.  When only rescuers are alive the dead have
\* to leave; when no one is on the first side that flag is not initialised
\* for the second side.
Turn(b, X, G, D, f) ==
    LET stay(s)   == entry[b][s] \ (X \cup G)
        alive(s)  == stay(s) \ D
        lost      == alive(0) = {}
        over      == lost \/ (alive(1) = {} /\ ~ f)
        rescue(s) == IF s = 0 \/ ~ lost THEN {OnlyRescue(alive(s)) /\ ~ (s = 1 /\ f)} ELSE BOOLEAN
    IN  \E r0 \in rescue(0), r1 \in rescue(1) :
          LET beaten == (IF r0 THEN stay(0) \cap D ELSE {}) \cup (IF r1 THEN stay(1) \cap D ELSE {})
              out    == X \cup G \cup beaten
          IN  /\ BATTLE_Exit(out)
              /\ cmode' = [c \in Fighters |-> IF c \in out THEN "FINAL"
                                              ELSE IF c \in People(b) THEN "C_WAIT" ELSE cmode[c]]
              /\ dead' = [c \in Fighters |-> IF c \in People(b) THEN c \in D \ beaten ELSE dead[c]]
              /\ lead' = SentBack(X \cup G)
              /\ bmode' = WatchPre(b, [bmode EXCEPT ![b] = IF over THEN "FINISH" ELSE "BATTLE"])
              /\ part' = [part EXCEPT ![b] = FALSE]
              /\ turn' = [turn EXCEPT ![b] = (@ + 1) % Turns]
              /\ UNCHANGED <<btype, bnext, bbefore>>

AnyTurn(b, X) ==
    \E G \in SUBSET ((Standing(b, 0) \cup Standing(b, 1)) \ X) :
      \E D \in SUBSET (People(b) \ (X \cup G)), f \in {FALSE, btype[b] = "P_vs_E"} : Turn(b, X, G, D, f)

\* Mutant: when the limit is reached the battle goes on waiting.
LateTurn_Waits(b) ==
    /\ bmode[b] = "BATTLE"
    /\ Silent(b) = {} /\ Shown(b) /\ AnyTurn(b, Waiting(b))

\* BATTLE_Command after BATTLE_TIME_LIMIT: the turn is played whatever is missing.
LateTurn(b) ==
    /\ bmode[b] = "BATTLE"
    /\ AnyTurn(b, Waiting(b))

BATTLE_Command(b) ==
    /\ bmode[b] = "BATTLE"
    /\ \/ \E X \in {{}} \cup (IF part[b] THEN {Silent(b)} ELSE {}) :
            \/ Wait(b, X)
            \/ Silent(b) \ X = {} /\ Shown(b) /\ AnyTurn(b, X)
       \/ LateTurn(b)

\* What a battle keeps when it is deleted is overwritten when it is used again.
Cleared(B) ==
    /\ btype' = [b \in Battles |-> IF b \in B THEN "P_vs_E" ELSE btype[b]]
    /\ part' = [b \in Battles |-> b \notin B /\ part[b]]
    /\ turn' = [b \in Battles |-> IF b \in B THEN 0 ELSE turn[b]]

\* BATTLE_Finish of a WATCH battle: it leaves the list.
FinishWatch(b) ==
    /\ Over(b) /\ btype[b] = "WATCH"
    /\ BATTLE_Exit(People(b))
    /\ cmode' = Ended(People(b)) /\ dead' = Healed(People(b))
    /\ bmode' = [bmode EXCEPT ![b] = "NONE"]
    /\ bnext' = [x \in Battles |-> IF x = b THEN "none" ELSE IF x = bbefore[b] THEN bnext[b] ELSE bnext[x]]
    /\ bbefore' = [x \in Battles |-> IF x = b THEN "none" ELSE IF x = bnext[b] THEN bbefore[b] ELSE bbefore[x]]
    /\ Cleared({b})
    /\ UNCHANGED lead

\* BATTLE_Finish of a battle: all that are gone leave; of the WATCH battles
\* only the first is deleted, as its pNext is NULL when the loop asks for the
\* next.  A loser, found by an index that may be stale, may be discharged.
EndBattle(b, gone) ==
    LET first == bnext[b]
    IN  /\ Over(b) /\ btype[b] # "WATCH"
        /\ BATTLE_Exit(gone)
        /\ cmode' = Ended(gone) /\ dead' = Healed(gone)
        /\ lead' = lead \/ \E c \in Fighters : lead' = SentBack({c})
        /\ bmode' = [x \in Battles |-> IF x \in {b, first} THEN "NONE" ELSE bmode[x]]
        /\ bnext' = [x \in Battles |-> IF x \in {b, first} THEN "none" ELSE bnext[x]]
        /\ bbefore' = [x \in Battles |-> IF bbefore[x] \in {b, first} THEN "none" ELSE bbefore[x]]
        /\ Cleared({b, first})

\* Mutant: the spectators of a battle that ends stay.
BATTLE_Finish_Forgets(b) == EndBattle(b, People(b))

BATTLE_Finish(b) == EndBattle(b, People(b) \cup UNION {entry[w][0] : w \in Watching(b)})

BATTLE_WatchPre(b) ==
    /\ bmode[b] = "WATCHPRE" /\ ~ Over(b)
    /\ bmode' = [bmode EXCEPT ![b] = "WATCHWAIT"]
    /\ cmode' = [c \in Fighters |-> IF c \in entry[b][0] /\ cmode[c] # "WATCHINIT"
                                    THEN "C_WAIT" ELSE cmode[c]]
    /\ UNCHANGED <<btype, part, turn, bnext, bbefore, entry, cbattle, watch, dead, lead>>

BATTLE_WatchWait(b) ==
    /\ bmode[b] = "WATCHWAIT" /\ ~ Over(b)
    /\ bmode' = [bmode EXCEPT ![b] = "WATCHMOVIE"]
    /\ \E X \in {{}, Waiting(b)} :
         /\ BATTLE_Exit(X)
         /\ cmode' = Ended(X) /\ dead' = Healed(X)
         /\ lead' = SentBack(X)
    /\ UNCHANGED <<btype, part, turn, bnext, bbefore>>

BATTLE_Loop(b) ==
    \/ BATTLE_Init(b)
    \/ BATTLE_Command(b)
    \/ FinishWatch(b)
    \/ BATTLE_Finish(b)
    \/ BATTLE_WatchPre(b)
    \/ BATTLE_WatchWait(b)

BattleNext ==
    \/ \E c, t \in Fighters :
         \/ CHAR_JoinParty_Free(c, t)
         \/ BATTLE_CreateVsPlayer(c, t)
         \/ BATTLE_RescueTry(c, t)
         \/ BATTLE_WatchEntry(c, t)
    \/ \E c \in Fighters :
         \/ LeaveParty(c)
         \/ BATTLE_CreateVsEnemy(c)
         \/ BattleEncountOut(c)
         \/ BattleCommandDispach(c)
         \/ CHAR_logout_Battle(c)
    \/ \E b \in Battles : BATTLE_Loop(b)

BattleSpec == BattleInit /\ [][BattleNext]_battleVars

\* The main loop keeps calling BATTLE_Loop, and time passes: a turn that does
\* not end gets late.  That fast turns get late is not assumed.
BattleFairness ==
    \A b \in Battles :
        /\ WF_battleVars(BATTLE_Loop(b))
        /\ \A n \in 0 .. Turns - 1 : WF_battleVars(turn[b] = n /\ LateTurn(b))

----------------------------------------------------------------------------
BattleTypeOK ==
    /\ bmode \in [Battles -> {"NONE", "INIT", "BATTLE", "FINISH",
                              "WATCHBC", "WATCHPRE", "WATCHWAIT", "WATCHMOVIE"}]
    /\ btype \in [Battles -> {"P_vs_E", "P_vs_P", "WATCH"}]
    /\ part \in [Battles -> BOOLEAN]
    /\ turn \in [Battles -> 0 .. Turns - 1]
    /\ entry \in [Battles -> [Sides -> SUBSET Fighters]]
    /\ bnext \in [Battles -> Battles \cup {"none"}]
    /\ bbefore \in [Battles -> Battles \cup {"none"}]
    /\ cmode \in [Fighters -> {"NONE", "INIT", "C_WAIT", "C_OK", "RESCUE", "FINAL", "WATCHINIT"}]
    /\ cbattle \in [Fighters -> Battles \cup {"none"}]
    /\ watch \in [Fighters -> BOOLEAN] /\ dead \in [Fighters -> BOOLEAN]
    /\ lead \in [Fighters -> Fighters \cup {"none"}]

\* A character is in at most one battle, on one side, and its own index leads
\* there; one that is in none is in no entry, so the index of a battle that
\* is reused, or of a character that logged out, never lends it another's
\* battle.  Its wounds end with the battle.  No side is overfull: the entries
\* behind the fifth are those of the pets.
InOneBattle ==
    /\ \A b \in Battles, s \in Sides : Cardinality(entry[b][s]) <= SideMax
    /\ \A c \in Fighters :
           /\ \A b \in Battles, s \in Sides :
                c \in entry[b][s] => /\ cbattle[c] = b /\ bmode[b] # "NONE"
                                     /\ c \notin entry[b][1 - s]
           /\ cmode[c] \in {"NONE", "FINAL"} <=> ~ \E b \in Battles : c \in People(b)
           /\ cmode[c] = "FINAL" => cbattle[c] = "none"
           /\ dead[c] => cmode[c] \notin {"NONE", "FINAL"}

\* The lists of WATCH battles are well linked in both directions, and a
\* battle that fights is only ever the head of one.  Whoever watches, watches a
\* battle: when the deletion of a battle leaves WATCH battles behind, nobody is
\* in them, and so BATTLE_Loop deletes them.
NobodyWatchesNothing ==
    \A b \in Battles :
        /\ btype[b] = "WATCH" /\ bmode[b] # "NONE" /\ People(b) # {} =>
              \E d \in Battles : bmode[d] # "NONE" /\ btype[d] # "WATCH" /\ b \in Watching(d)
        /\ bnext[b] # "none" => /\ bbefore[bnext[b]] = b
                                /\ bmode[bnext[b]] # "NONE" /\ btype[bnext[b]] = "WATCH"
        /\ bbefore[b] # "none" => bnext[bbefore[b]] = b
        /\ bmode[b] = "NONE" => bnext[b] = "none" /\ bbefore[b] = "none"
        /\ b \notin Watching(b)

\* No battle stays in a turn for ever, whether its players are silent, dead
\* or logged out and whoever comes to watch it.
TurnsEnd ==
    \A b \in Battles, n \in 0 .. Turns - 1 :
        bmode[b] = "BATTLE" /\ turn[b] = n ~> (bmode[b] # "BATTLE" \/ turn[b] # n)
==============================================================================

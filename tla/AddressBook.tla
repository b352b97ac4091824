---------------------------- MODULE AddressBook ------------------------------
(* The address books of characters: cards of other characters, each marked    *)
(* with the game server its owner plays on, 0 for none.  The account server   *)
(* keeps one entry per character in the table DB_ADDRESSBOOK.  A login or a   *)
(* logout marks the cards of the same game server directly, updates the       *)
(* table, and broadcasts; a server that hears a broadcast asks the table and  *)
(* marks its cards with the answer.  Messages of one connection keep their    *)
(* order.  gmsv/char/addressbook.c, gmsv/callfromac.c, saac/recv.c            *)
EXTENDS Integers, Sequences, FiniteSets

CONSTANTS
    Fellows,      \* characters
    Numbers,    \* the numbers of the game servers, from 1 on
    MaxCards,   \* ADDRESSBOOK_MAX - 1: the slots findBlankEntry looks at
    Movers,     \* the characters that come, go and are deleted: the others stay
    MaxMoves    \* bound on logins, logouts, deletions and crashes

ASSUME BookAssumption == /\ Numbers \subseteq Nat \ {0} /\ MaxMoves \in Nat
                         /\ IsFiniteSet(Fellows) /\ Movers \subseteq Fellows

VARIABLES
    playsOn,    \* the server a character is logged in on, 0 for none
    held,       \* the characters whose account is locked
    online,     \* DB_ADDRESSBOOK: the mark of a character, Gone if it has no entry
    cards,      \* the marks of the cards in a character's book
    savedCards, \* whose cards were in the book when it was last saved
    toAc, toGs, \* messages under way between a game server and the account server
    cutOff,     \* history: the characters whose last broadcast a crash has lost
    moves

bookVars == <<playsOn, held, online, cards, savedCards, toAc, toGs, cutOff, moves>>

Gone == -1                                    \* DBGetEntryString answers "failed"
Mark == Numbers \cup {0}

AcMessage == [t : {"save", "delete", "ask", "cast"}, of : Fellows]
                \cup [t : {"update"}, of : Fellows, mark : Mark]
                \cup [t : {"castOthers"}, of : Fellows]
GsMessage == [t : {"cast"}, of : Fellows] \cup [t : {"answer"}, of : Fellows, mark : Mark \cup {Gone}]

Msg(kind, c) == [t |-> kind, of |-> c]
Update(c, m) == [t |-> "update", of |-> c, mark |-> m]

\* Everyone plays somewhere and has everyone's card, and nothing is under way.
BookInit ==
    /\ playsOn \in [Fellows -> Numbers] /\ held = Fellows
    /\ online = playsOn
    /\ cards = [c \in Fellows |-> [d \in Fellows \ {c} |-> playsOn[d]]]
    /\ savedCards = [c \in Fellows |-> Fellows \ {c}]
    /\ toAc = [s \in Numbers |-> <<>>] /\ toGs = [s \in Numbers |-> <<>>]
    /\ cutOff = {} /\ moves = 0

Send(s, msgs) == toAc' = [toAc EXCEPT ![s] = @ \o msgs]
Move == moves < MaxMoves /\ moves' = moves + 1

\* All cards of c in the books of server s become m; Gone takes them out.
Marked(books, s, c, m) ==
    [d \in Fellows |->
        IF playsOn[d] # s \/ d = c \/ c \notin DOMAIN books[d] THEN books[d]
        ELSE IF m = Gone THEN [e \in DOMAIN books[d] \ {c} |-> books[d][e]]
        ELSE [books[d] EXCEPT ![c] = m]]

\* Mutant: the broadcast goes out before the table is written.
DpDBUpdate_CastFirst(c, m) == <<Msg("cast", c), Update(c, m)>>

\* CHAR_send_DpDBUpdate_AddressBook: the table, then a broadcast that comes back
DpDBUpdate(c, m) == <<Update(c, m), Msg("cast", c)>>

\* One request per card whose owner is not on server s, in the order of the book
Questions(s, c) ==
    LET asked == {Msg("ask", d) : d \in {e \in savedCards[c] : playsOn[e] # s}}
    IN {q \in [1..Cardinality(asked) -> asked] : asked = {q[i] : i \in DOMAIN q}}

\* A character enters the game.
notifyLogin(s, c) ==
    /\ Move
    /\ c \notin held /\ held' = held \cup {c}
    /\ playsOn' = [playsOn EXCEPT ![c] = s]
    /\ cards' = [Marked(cards, s, c, s) EXCEPT ![c] =
                    [d \in savedCards[c] |-> IF playsOn[d] = s THEN s ELSE 0]]
    /\ \E q \in Questions(s, c) : Send(s, DpDBUpdate(c, s) \o q \o <<Msg("castOthers", c)>>)
    /\ UNCHANGED <<online, savedCards, toGs, cutOff>>

\* A character leaves: CHAR_logout saves it, then marks it.
notifyLogout(c) ==
    LET s == playsOn[c] IN
    /\ Move
    /\ s # 0
    /\ playsOn' = [playsOn EXCEPT ![c] = 0]
    /\ savedCards' = [savedCards EXCEPT ![c] = DOMAIN cards[c]]
    /\ cards' = [Marked(cards, s, c, 0) EXCEPT ![c] = <<>>]
    /\ Send(s, <<Msg("save", c)>> \o DpDBUpdate(c, 0) \o <<Msg("castOthers", c)>>)
    /\ UNCHANGED <<held, online, toGs, cutOff>>

Blank(c) == Cardinality(DOMAIN cards[c]) < MaxCards
WithCard(book, c, m) == [d \in DOMAIN book \cup {c} |-> IF d \in DOMAIN book THEN book[d] ELSE m]

\* Two characters of one server swap cards; who has the other's keeps it.
addAddressBook(c, d) ==
    LET s == playsOn[c] IN
    /\ c # d /\ s # 0 /\ playsOn[d] = s
    /\ Blank(c) /\ Blank(d)
    /\ ~ (d \in DOMAIN cards[c] /\ c \in DOMAIN cards[d])
    /\ cards' = [cards EXCEPT ![c] = WithCard(@, d, s), ![d] = WithCard(@, c, s)]
    /\ UNCHANGED <<playsOn, held, online, savedCards, toAc, toGs, cutOff, moves>>

deleteEntry(c, d) ==
    /\ playsOn[c] # 0 /\ d \in DOMAIN cards[c]
    /\ cards' = [cards EXCEPT ![c] = [e \in DOMAIN @ \ {d} |-> @[e]]]
    /\ UNCHANGED <<playsOn, held, online, savedCards, toAc, toGs, cutOff, moves>>

\* A client in front of its list of characters deletes one on server s.  The
\* character that is created next under the same name has an empty book.
DeleteChar(s, c) ==
    /\ Move
    /\ playsOn[c] = 0
    /\ savedCards' = [savedCards EXCEPT ![c] = {}]
    /\ Send(s, <<Msg("delete", c), Msg("cast", c)>>)
    /\ UNCHANGED <<playsOn, held, online, cards, toGs, cutOff>>

\* gmsvBroadcast: flag 1 leaves out the server it came from
Broadcast(c, to) == toGs' = [s \in Numbers |-> IF s \in to THEN Append(toGs[s], Msg("cast", c)) ELSE toGs[s]]

\* The account server takes the next request of a game server.
AcTakes(s) ==
    /\ toAc[s] # <<>>
    /\ toAc' = [toAc EXCEPT ![s] = Tail(@)]
    /\ LET m == Head(toAc[s]) IN
       /\ \/ m.t = "save" /\ held' = held \ {m.of} /\ UNCHANGED <<online, toGs>>
          \/ m.t = "update" /\ online' = [online EXCEPT ![m.of] = m.mark] /\ UNCHANGED <<held, toGs>>
          \/ m.t = "delete" /\ online' = [online EXCEPT ![m.of] = Gone] /\ UNCHANGED <<held, toGs>>
          \/ /\ m.t = "ask" /\ UNCHANGED <<held, online>>
             /\ toGs' = [toGs EXCEPT ![s] = Append(@, [t |-> "answer", of |-> m.of, mark |-> online[m.of]])]
          \/ m.t = "cast" /\ Broadcast(m.of, Numbers) /\ UNCHANGED <<held, online>>
          \/ m.t = "castOthers" /\ Broadcast(m.of, Numbers \ {s}) /\ UNCHANGED <<held, online>>
       /\ cutOff' = IF m.t = "cast" THEN cutOff \ {m.of} ELSE cutOff
    /\ UNCHANGED <<playsOn, cards, savedCards, moves>>

\* Whatever was broadcast, the game server asks the table.
Broadcast_recv(s) ==
    /\ toGs[s] # <<>> /\ Head(toGs[s]).t = "cast"
    /\ toGs' = [toGs EXCEPT ![s] = Tail(@)]
    /\ Send(s, <<Msg("ask", Head(toGs[s]).of)>>)
    /\ UNCHANGED <<playsOn, held, online, cards, savedCards, cutOff, moves>>

\* DispatchMessage: the answer marks the cards of the server; one that says the
\* character plays here, where it does not, counts as 0 and is passed on.
DBGetEntryString_recv(s) ==
    /\ toGs[s] # <<>> /\ Head(toGs[s]).t = "answer"
    /\ toGs' = [toGs EXCEPT ![s] = Tail(@)]
    /\ LET c == Head(toGs[s]).of
           wrong == Head(toGs[s]).mark = s /\ playsOn[c] # s
           mark == IF wrong THEN 0 ELSE Head(toGs[s]).mark
       IN /\ cards' = Marked(cards, s, c, mark)
          /\ Send(s, IF wrong THEN <<Msg("castOthers", c)>> ELSE <<>>)
    /\ UNCHANGED <<playsOn, held, online, savedCards, cutOff, moves>>

\* A game server crashes and starts again: its characters are out and unlocked,
\* as last saved, and nothing is told to the table.
GsCrash(s) ==
    /\ Move
    /\ LET lost == {c \in Fellows : playsOn[c] = s}
           saving == {c \in Fellows : \E i \in DOMAIN toAc[s] : toAc[s][i] = Msg("save", c)}
       IN /\ held' = held \ (lost \cup saving)
          /\ playsOn' = [c \in Fellows |-> IF c \in lost THEN 0 ELSE playsOn[c]]
          /\ cards' = [c \in Fellows |-> IF c \in lost THEN <<>> ELSE cards[c]]
    /\ cutOff' = cutOff \cup {c \in Fellows : \E i \in DOMAIN toAc[s] : toAc[s][i] = Msg("cast", c)}
    /\ toAc' = [toAc EXCEPT ![s] = <<>>] /\ toGs' = [toGs EXCEPT ![s] = <<>>]
    /\ UNCHANGED <<online, savedCards>>

BookNext ==
    \/ \E c \in Movers, s \in Numbers : notifyLogin(s, c) \/ DeleteChar(s, c)
    \/ \E c \in Movers : notifyLogout(c)
    \/ \E c, d \in Fellows : addAddressBook(c, d) \/ deleteEntry(c, d)
    \/ \E s \in Numbers : AcTakes(s) \/ Broadcast_recv(s) \/ DBGetEntryString_recv(s) \/ GsCrash(s)

BookSpec == BookInit /\ [][BookNext]_bookVars

-----------------------------------------------------------------------------
BookTypeOK ==
    /\ playsOn \in [Fellows -> Mark] /\ held \subseteq Fellows
    /\ online \in [Fellows -> Mark \cup {Gone}]
    /\ \A c \in Fellows : DOMAIN cards[c] \subseteq Fellows \ {c} /\ \A d \in DOMAIN cards[c] : cards[c][d] \in Mark
    /\ savedCards \in [Fellows -> SUBSET Fellows]
    /\ \A s \in Numbers : toAc[s] \in Seq(AcMessage) /\ toGs[s] \in Seq(GsMessage)
    /\ cutOff \subseteq Fellows /\ moves \in 0..MaxMoves

\* At rest, when no message is under way, every card shows what the table says
\* of its owner; or what its own server knows better: that the owner plays here,
\* or does not where the table claims it.  A card of a deleted character is gone.
\* A crash that loses the broadcast of a character leaves its cards as they are.
CardsFollowTheTable ==
    (\A s \in Numbers : toAc[s] = <<>> /\ toGs[s] = <<>>) =>
        \A c \in Fellows : \A d \in DOMAIN cards[c] \ cutOff :
            \/ cards[c][d] = online[d] /\ (online[d] = playsOn[c] => playsOn[d] = playsOn[c])
            \/ cards[c][d] = playsOn[c] /\ playsOn[d] = playsOn[c]
            \/ cards[c][d] = 0 /\ online[d] = playsOn[c] /\ playsOn[d] # playsOn[c]
==============================================================================

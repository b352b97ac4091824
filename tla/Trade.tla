-------------------------------- MODULE Trade --------------------------------
(***************************************************************************)
(* How two players of a game server come to agree on a trade: the messages *)
(* of gmsv/char/trade.c, and logout and login of gmsv.  What changes hands *)
(* in the end is the subject of module TradeGoods.                         *)
(*                                                                         *)
(* A player is named by its socket, which the next player to connect may   *)
(* get.  The server handles a request of a client at once, but the client  *)
(* learns what the server did from notices that it reads later: a request  *)
(* speaks of the trade that the client still believes in.  Players in a    *)
(* party or a battle do not trade and are left out.                        *)
(***************************************************************************)
EXTENDS Integers, Sequences, FiniteSets

CONSTANTS Players,    \* sockets
          Offers,     \* what can be offered
          MaxInbox,   \* players wait while somebody has this many unread notices
          Logouts,    \* whether players log out
          Prompt      \* players that read all their notices before they act

ASSUME TradeAssumption == /\ MaxInbox \in Nat \ {0, 1}
                          /\ Logouts \in BOOLEAN
                          /\ Prompt \subseteq Players
                          /\ "none" \notin Offers \cup Players

VARIABLES online,   \* the players in the game
          mode,     \* CHAR_WORKTRADEMODE
          confirm,  \* confirm_key of the socket
          tmp,      \* TradeTmp of the socket, the agreement it has sent
          inbox,    \* notices on their way to the client
          view      \* the trade window of the client

vars == <<online, mode, confirm, tmp, inbox, view>>

(* The window: the partner, what both offer, whether they confirmed, and *)
(* whether the client has sent its agreement.                            *)
View   == [with : Players \cup {"none"}, mine : Offers \cup {"none"}, theirs : Offers \cup {"none"},
           me : BOOLEAN, them : BOOLEAN, sent : BOOLEAN]
Window(q) == [with |-> q, mine |-> "none", theirs |-> "none",
              me |-> FALSE, them |-> FALSE, sent |-> FALSE]
Closed == Window("none")

Deal   == [to : Players, mine : Offers \cup {"none"}, theirs : Offers \cup {"none"}]
NoDeal == [to |-> "none", mine |-> "none", theirs |-> "none"]
DealOf(p) == [to |-> view[p].with, mine |-> view[p].mine, theirs |-> view[p].theirs]

Notice == [type : {"C", "OK", "W"}, by : Players] \cup [type : {"T"}, by : Players, offer : Offers]

\* Mutant: the notice is built before the partner is known.
Opened_Nobody(q) == [type |-> "C", by |-> "none"]

Opened(q) == [type |-> "C", by |-> q]
Shown(q, o) == [type |-> "T", by |-> q, offer |-> o]
Confirmed(q) == [type |-> "OK", by |-> q]
Over(q) == [type |-> "W", by |-> q]

Init == /\ online = Players
        /\ mode = [p \in Players |-> "FREE"]
        /\ confirm = [p \in Players |-> FALSE]
        /\ tmp = [p \in Players |-> NoDeal]
        /\ inbox = [p \in Players |-> <<>>]
        /\ view = [p \in Players |-> Closed]

----------------------------------------------------------------------------
\* The bound of the model: nobody acts while somebody does not read.
Room(p) == /\ p \in online
           /\ \A q \in Players : Len(inbox[q]) < MaxInbox
           /\ p \in Prompt => inbox[p] = <<>>

Tell(q, m) == inbox' = [inbox EXCEPT ![q] = Append(@, m)]
TellBoth(p, m, q, n) == inbox' = [inbox EXCEPT ![p] = Append(@, m), ![q] = Append(@, n)]

\* What both sides of a trade get, whether it ends or begins.
SetBoth(f, p, q, x) == f' = [f EXCEPT ![p] = x, ![q] = x]

\* TRADE_Search: q stands in front of p and lets itself be traded with.
TRADE_Search(p, q) ==
    /\ Room(p) /\ view[p] = Closed
    /\ q \in online \ {p}
    /\ mode[p] = "FREE" /\ mode[q] = "FREE"
    /\ SetBoth(mode, p, q, "TRADING")
    /\ SetBoth(confirm, p, q, FALSE)
    /\ TellBoth(p, Opened(q), q, Opened(p))
    /\ UNCHANGED <<online, tmp, view>>

\* Mutant: an agreement outlives the trade.
TRADE_Close_KeepsDeal(p, q) ==
    /\ q \in online
    /\ SetBoth(mode, p, q, "FREE")
    /\ SetBoth(confirm, p, q, FALSE)
    /\ TellBoth(p, Over(q), q, Over(p))
    /\ UNCHANGED tmp

\* TRADE_Close: nothing happens when the player it names is gone.
TRADE_Close(p, q) ==
    \/ q \notin online /\ UNCHANGED <<mode, confirm, tmp, inbox>>
    \/ /\ q \in online
       /\ SetBoth(mode, p, q, "FREE")
       /\ SetBoth(confirm, p, q, FALSE)
       /\ SetBoth(tmp, p, q, NoDeal)
       /\ TellBoth(p, Over(q), q, Over(p))

\* The client closes its window.
Close(p) ==
    /\ Room(p)
    /\ view[p].with # "none"
    /\ TRADE_Close(p, view[p].with)
    /\ view' = [view EXCEPT ![p] = Closed]
    /\ UNCHANGED online

\* Mutant: the partner is not shown the offer.
ShowItem_Hidden(p, q, o) ==
    /\ q \in online
    /\ mode[p] = "TRADING" /\ ~ confirm[p]
    /\ UNCHANGED <<mode, confirm, tmp, inbox>>

\* TRADE_ShowItem, of an item, gold or a pet: to show something after the
\* confirmation, or outside of a trade, closes the trade.
ShowItem(p, q, o) ==
    \/ q \notin online /\ UNCHANGED <<mode, confirm, tmp, inbox>>
    \/ /\ q \in online
       /\ mode[p] = "TRADING" /\ ~ confirm[p]
       /\ Tell(q, Shown(p, o))
       /\ UNCHANGED <<mode, confirm, tmp>>
    \/ q \in online /\ (mode[p] # "TRADING" \/ confirm[p]) /\ TRADE_Close(p, q)

Show(p, o) ==
    /\ Room(p)
    /\ view[p].with # "none" /\ ~ view[p].me /\ view[p].mine # o
    /\ ShowItem(p, view[p].with, o)
    /\ view' = [view EXCEPT ![p].mine = o]
    /\ UNCHANGED online

\* 'c', and 'k' as long as not both have confirmed
Confirm(p, q) ==
    /\ IF q \in online /\ ~ confirm[p]
       THEN Tell(q, Confirmed(p)) /\ confirm' = [confirm EXCEPT ![p] = TRUE]
       ELSE UNCHANGED <<inbox, confirm>>
    /\ UNCHANGED <<mode, tmp>>

ConfirmOffer(p) ==
    /\ Room(p)
    /\ view[p].with # "none" /\ ~ view[p].me
    /\ Confirm(p, view[p].with)
    /\ view' = [view EXCEPT ![p].me = TRUE]
    /\ UNCHANGED online

\* TRADE_CheckItembuf compares what is traded, not with whom.
Mirrored(d, e) == d.mine = e.theirs /\ d.theirs = e.mine

\* A deal in which a player gives two things of one number is refused before it
\* is compared; whether this one is such a deal is left open.
MayRefuse(d) == {d.mine, d.theirs} # {"none"}

\* TRADE_SwapItem: whether the exchange succeeds or is refused, the trade is
\* over; the confirmations stay.  Without an agreement of the other that
\* matches, p's own is kept.
SwapItem(p, q, d) ==
    LET matched == Mirrored(d, tmp[q]) /\ tmp[q] # NoDeal
    IN  \/ /\ matched \/ MayRefuse(d)
           /\ SetBoth(mode, p, q, "FREE")
           /\ SetBoth(tmp, p, q, NoDeal)
           /\ TellBoth(p, Over(q), q, Over(p))
        \/ /\ ~ matched
           /\ mode' = [mode EXCEPT ![p] = "LOCK"]
           /\ tmp' = [tmp EXCEPT ![p] = d]
           /\ UNCHANGED inbox

\* 'k'
Ok(p, q, d) ==
    \/ q \notin online /\ UNCHANGED <<mode, confirm, tmp, inbox>>
    \/ q \in online /\ ~ (confirm[p] /\ confirm[q]) /\ Confirm(p, q)
    \/ /\ q \in online /\ confirm[p] /\ confirm[q]
       /\ mode[p] # "LOCK"
       /\ SwapItem(p, q, d)
       /\ UNCHANGED confirm
    \/ /\ q \in online /\ confirm[p] /\ confirm[q]
       /\ mode[p] = "LOCK"
       /\ UNCHANGED <<mode, confirm, tmp, inbox>>

\* The client agrees when it has seen that both confirmed.
CanAgree(p) == view[p].me /\ view[p].them /\ ~ view[p].sent

Agree(p) ==
    /\ Room(p)
    /\ CanAgree(p)
    /\ Ok(p, view[p].with, DealOf(p))
    /\ view' = [view EXCEPT ![p].sent = TRUE]
    /\ UNCHANGED online

\* _CHAR_logout looks after no trade; what the socket holds stays.
Logout(p) ==
    /\ Logouts
    /\ p \in online
    /\ online' = online \ {p}
    /\ inbox' = [inbox EXCEPT ![p] = <<>>]
    /\ view' = [view EXCEPT ![p] = Closed]
    /\ UNCHANGED <<mode, confirm, tmp>>

\* Mutant: the agreement of the last user of the socket is still there.
Login_KeepsDeal(p) ==
    /\ p \notin online
    /\ online' = online \cup {p}
    /\ mode' = [mode EXCEPT ![p] = "FREE"]
    /\ confirm' = [confirm EXCEPT ![p] = FALSE]
    /\ UNCHANGED <<inbox, view, tmp>>

\* initConnectOne and CHAR_login: another player on the socket
Login(p) ==
    /\ p \notin online
    /\ online' = online \cup {p}
    /\ mode' = [mode EXCEPT ![p] = "FREE"]
    /\ confirm' = [confirm EXCEPT ![p] = FALSE]
    /\ tmp' = [tmp EXCEPT ![p] = NoDeal]
    /\ UNCHANGED <<inbox, view>>

\* The client reads a notice, which changes its window.
Seen(v, m) ==
    CASE m.type = "C" -> Window(m.by)
      [] m.type = "W" -> Closed
      [] m.type = "T" -> IF v.with = m.by THEN [v EXCEPT !.theirs = m.offer] ELSE v
      [] m.type = "OK" -> IF v.with = m.by THEN [v EXCEPT !.them = TRUE] ELSE v

Read(p) ==
    /\ inbox[p] # <<>>
    /\ inbox' = [inbox EXCEPT ![p] = Tail(@)]
    /\ view' = [view EXCEPT ![p] = Seen(@, Head(inbox[p]))]
    /\ UNCHANGED <<online, mode, confirm, tmp>>

Next == \E p \in Players :
    \/ \E q \in Players : TRADE_Search(p, q)
    \/ \E o \in Offers : Show(p, o)
    \/ ConfirmOffer(p)
    \/ Agree(p)
    \/ Close(p)
    \/ Logout(p)
    \/ Login(p)
    \/ Read(p)

Spec == Init /\ [][Next]_vars

----------------------------------------------------------------------------
TypeOK ==
    /\ online \subseteq Players
    /\ mode \in [Players -> {"FREE", "TRADING", "LOCK"}]
    /\ confirm \in [Players -> BOOLEAN]
    /\ tmp \in [Players -> Deal \cup {NoDeal}]
    /\ inbox \in [Players -> Seq(Notice)]
    /\ view \in [Players -> View]

\* A player has an agreement with the server exactly while it waits for the
\* other's: none survives a cancelled trade, a trade that took place, or the
\* player that had the socket before.
AgreementWhileLocked ==
    \A p \in online : mode[p] = "LOCK" <=> tmp[p] # NoDeal

\* Between two players that trade with each other, the agreement that the server
\* finds to match is one with this player, although TRADE_CheckItembuf does not
\* compare with whom it was made.  (A player whose partner's socket got another
\* player during the trade, or that reads late, can be matched with a third.)
MatchesItsPartner ==
    \A p, q \in online \cap Prompt :
        /\ CanAgree(p) /\ view[p].with = q /\ view[q].with = p
        /\ confirm[p] /\ confirm[q] /\ mode[p] # "LOCK"
        /\ tmp[q] # NoDeal /\ Mirrored(DealOf(p), tmp[q])
        => tmp[q].to = p

\* Two players do not both agree on the trade with each other and wait forever:
\* when both have confirmed, each has been shown what the other offers, also
\* after trades that were closed and players that left.  It is claimed for
\* players that read their notices before they act, whatever the others do:
\* notices of a closed trade that are read after the next one with the same
\* player has begun count for that one.
AgreementGoesThrough ==
    \A p, q \in online \cap Prompt : ~ (/\ mode[p] = "LOCK" /\ tmp[p].to = q
                                        /\ mode[q] = "LOCK" /\ tmp[q].to = p)

\* The comment of CHAR_Trade at 'w' says that it closes the trade: whoever closes
\* is free.
CloseCloses ==
    [][\A p \in Players : Close(p) => mode'[p] = "FREE"]_vars
=============================================================================

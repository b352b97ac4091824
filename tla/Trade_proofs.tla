----------------------------- MODULE Trade_proofs -----------------------------
(***************************************************************************)
(* Proofs about the agreements of a trade, for every number of players and *)
(* offers, however late players read their notices and whoever leaves.     *)
(***************************************************************************)
EXTENDS Trade, SequenceTheorems, TLAPS

USE TradeAssumption DEF TradeAssumption

\* What the handlers of the server change, and keep: the invariant without
\* what only clients have.
ServerInv == /\ online \subseteq Players
             /\ mode \in [Players -> {"FREE", "TRADING", "LOCK"}]
             /\ confirm \in [Players -> BOOLEAN]
             /\ tmp \in [Players -> Deal \cup {NoDeal}]
             /\ inbox \in [Players -> Seq(Notice)]
             /\ AgreementWhileLocked

IInv == TypeOK /\ AgreementWhileLocked

\* What the server knows, and what the clients see
LEMMA InvParts == IInv <=> ServerInv /\ view \in [Players -> View]
BY Zenon DEF IInv, ServerInv, TypeOK

\* Notices are notices.
LEMMA NoticeType ==
    ASSUME NEW p \in Players, NEW o \in Offers
    PROVE  /\ Opened(p) \in Notice /\ Confirmed(p) \in Notice
           /\ Over(p) \in Notice /\ Shown(p, o) \in Notice
BY DEF Notice, Opened, Confirmed, Over, Shown

\* One notice more, to one player or to both.
LEMMA TellType ==
    ASSUME inbox \in [Players -> Seq(Notice)], NEW p \in Players, NEW q \in Players,
           NEW m \in Notice, NEW n \in Notice
    PROVE  /\ Tell(q, m) => inbox' \in [Players -> Seq(Notice)]
           /\ TellBoth(p, m, q, n) => inbox' \in [Players -> Seq(Notice)]
<1>1. \A s \in Seq(Notice) : Append(s, m) \in Seq(Notice) /\ Append(s, n) \in Seq(Notice)
  BY AppendProperties
<1>2. ASSUME Tell(q, m) PROVE inbox' \in [Players -> Seq(Notice)]
  BY <1>1, <1>2 DEF Tell
<1>3. ASSUME TellBoth(p, m, q, n) PROVE inbox' \in [Players -> Seq(Notice)]
  BY <1>1, <1>3 DEF TellBoth
<1> QED BY <1>2, <1>3

\* A deal is not the empty deal: it names a player.
LEMMA DealIsADeal == ASSUME NEW d \in Deal PROVE d # NoDeal
BY DEF Deal, NoDeal

\* TRADE_Close leaves neither player an agreement.
LEMMA CloseStep ==
    ASSUME ServerInv, UNCHANGED online, NEW p \in Players, NEW q \in Players, TRADE_Close(p, q)
    PROVE  ServerInv'
<1>1. CASE q \notin online /\ UNCHANGED <<mode, confirm, tmp, inbox>>
  BY <1>1 DEF ServerInv, AgreementWhileLocked
<1>2. CASE SetBoth(mode, p, q, "FREE") /\ SetBoth(confirm, p, q, FALSE)
           /\ SetBoth(tmp, p, q, NoDeal) /\ TellBoth(p, Over(q), q, Over(p))
  <2>1. inbox' \in [Players -> Seq(Notice)]
    BY <1>2, TellType, Over(p) \in Notice, Over(q) \in Notice DEF ServerInv, Over, Notice
  <2>2. /\ mode' \in [Players -> {"FREE", "TRADING", "LOCK"}]
        /\ confirm' \in [Players -> BOOLEAN]
        /\ tmp' \in [Players -> Deal \cup {NoDeal}]
    BY <1>2 DEF ServerInv, SetBoth
  <2>3. \A r \in Players : /\ mode'[r] = IF r \in {p, q} THEN "FREE" ELSE mode[r]
                           /\ tmp'[r] = IF r \in {p, q} THEN NoDeal ELSE tmp[r]
    BY <1>2 DEF ServerInv, SetBoth
  <2> QED BY <2>1, <2>2, <2>3 DEF ServerInv, AgreementWhileLocked
<1> QED BY <1>1, <1>2 DEF TRADE_Close

\* A trade begins between players that have no agreement: they were free.
LEMMA SearchStep ==
    ASSUME ServerInv, NEW p \in Players, NEW q \in Players, TRADE_Search(p, q)
    PROVE  ServerInv'
<1>1. inbox' \in [Players -> Seq(Notice)]
  BY TellType, Opened(p) \in Notice, Opened(q) \in Notice
  DEF ServerInv, TRADE_Search, Opened, Notice
<1>2. /\ mode' \in [Players -> {"FREE", "TRADING", "LOCK"}]
      /\ confirm' \in [Players -> BOOLEAN]
      /\ UNCHANGED <<online, tmp>>
  BY DEF ServerInv, TRADE_Search, SetBoth
<1>3. p \in online /\ q \in online /\ mode[p] = "FREE" /\ mode[q] = "FREE"
  BY DEF TRADE_Search, Room
<1>4. \A r \in Players : mode'[r] = IF r \in {p, q} THEN "TRADING" ELSE mode[r]
  BY DEF ServerInv, TRADE_Search, SetBoth
<1> QED BY <1>1, <1>2, <1>3, <1>4 DEF ServerInv, AgreementWhileLocked

\* An offer that is shown does not disturb agreements.
LEMMA ShowStep ==
    ASSUME ServerInv, UNCHANGED online, NEW p \in Players, NEW q \in Players,
           NEW o \in Offers, ShowItem(p, q, o)
    PROVE  ServerInv'
<1>1. CASE UNCHANGED <<mode, confirm, tmp, inbox>>
  BY <1>1 DEF ServerInv, AgreementWhileLocked
<1>2. CASE Tell(q, Shown(p, o)) /\ UNCHANGED <<mode, confirm, tmp>>
  <2>1. inbox' \in [Players -> Seq(Notice)]
    BY <1>2, TellType, NoticeType DEF ServerInv
  <2> QED BY <1>2, <2>1 DEF ServerInv, AgreementWhileLocked
<1>3. CASE TRADE_Close(p, q)
  BY <1>3, CloseStep
<1> QED BY <1>1, <1>2, <1>3 DEF ShowItem

\* A confirmation sets the flag and tells the other one.
LEMMA ConfirmStep ==
    ASSUME ServerInv, UNCHANGED online, NEW p \in Players, NEW q \in Players, Confirm(p, q)
    PROVE  ServerInv'
<1>1. CASE q \in online /\ ~ confirm[p]
  <2>1. Tell(q, Confirmed(p)) /\ confirm' = [confirm EXCEPT ![p] = TRUE]
    BY <1>1 DEF Confirm
  <2>2. Confirmed(p) \in Notice
    BY DEF Confirmed, Notice
  <2>3. inbox' \in [Players -> Seq(Notice)]
    BY <2>1, <2>2, TellType DEF ServerInv
  <2>4. confirm' \in [Players -> BOOLEAN]
    BY <2>1 DEF ServerInv
  <2> QED BY <2>3, <2>4 DEF ServerInv, AgreementWhileLocked, Confirm
<1>2. CASE ~ (q \in online /\ ~ confirm[p])
  BY <1>2 DEF ServerInv, AgreementWhileLocked, Confirm
<1> QED BY <1>1, <1>2

\* An exchange leaves neither player an agreement; one that waits has its own.
LEMMA SwapStep ==
    ASSUME ServerInv, UNCHANGED <<online, confirm>>, NEW p \in Players, NEW q \in Players,
           NEW d \in Deal, SwapItem(p, q, d)
    PROVE  ServerInv'
<1>1. CASE SetBoth(mode, p, q, "FREE") /\ SetBoth(tmp, p, q, NoDeal)
           /\ TellBoth(p, Over(q), q, Over(p))
  <2>1. inbox' \in [Players -> Seq(Notice)]
    BY <1>1, TellType, Over(p) \in Notice, Over(q) \in Notice DEF ServerInv, Over, Notice
  <2>2. /\ mode' \in [Players -> {"FREE", "TRADING", "LOCK"}]
        /\ tmp' \in [Players -> Deal \cup {NoDeal}]
    BY <1>1 DEF ServerInv, SetBoth
  <2>3. \A r \in Players : /\ mode'[r] = IF r \in {p, q} THEN "FREE" ELSE mode[r]
                           /\ tmp'[r] = IF r \in {p, q} THEN NoDeal ELSE tmp[r]
    BY <1>1 DEF ServerInv, SetBoth
  <2> QED BY <2>1, <2>2, <2>3 DEF ServerInv, AgreementWhileLocked
<1>2. CASE /\ mode' = [mode EXCEPT ![p] = "LOCK"]
           /\ tmp' = [tmp EXCEPT ![p] = d]
           /\ UNCHANGED inbox
  BY <1>2, DealIsADeal DEF ServerInv, AgreementWhileLocked
<1> QED BY <1>1, <1>2 DEF SwapItem

\* An agreement goes to the one it is for, or the trade is over for both.
LEMMA OkStep ==
    ASSUME ServerInv, UNCHANGED online, NEW p \in Players, NEW q,
           NEW d, q \in Players => d \in Deal, Ok(p, q, d)
    PROVE  ServerInv'
<1>1. CASE UNCHANGED <<mode, confirm, tmp, inbox>>
  BY <1>1 DEF ServerInv, AgreementWhileLocked
<1>2. CASE q \in online /\ Confirm(p, q)
  BY <1>2, ConfirmStep DEF ServerInv
<1>3. CASE q \in online /\ SwapItem(p, q, d) /\ UNCHANGED confirm
  BY <1>3, SwapStep DEF ServerInv
<1> QED BY <1>1, <1>2, <1>3 DEF Ok

\* At the start there is no trade.
LEMMA InitIInv == Init => IInv
<1> SUFFICES ASSUME Init PROVE IInv
  OBVIOUS
<1>1. <<>> \in Seq(Notice)
  BY EmptySeq
<1>2. Closed \in View
  BY DEF Closed, Window, View
<1> QED BY <1>1, <1>2 DEF Init, IInv, TypeOK, AgreementWhileLocked

\* Reading a notice keeps the window a window.
LEMMA SeenType ==
    ASSUME NEW v \in View, NEW m \in Notice
    PROVE  Seen(v, m) \in View
<1>1. CASE m.type = "C"
  BY <1>1 DEF Notice, View, Seen, Window
<1>2. CASE m.type = "W"
  BY <1>2 DEF Notice, View, Seen, Closed, Window
<1>3. CASE m.type = "T"
  BY <1>3 DEF Notice, View, Seen
<1>4. CASE m.type = "OK"
  BY <1>4 DEF Notice, View, Seen
<1> QED BY <1>1, <1>2, <1>3, <1>4 DEF Notice

\* Every step keeps the agreements within their trades.
LEMMA NextIInv == IInv /\ [Next]_vars => IInv'
<1> SUFFICES ASSUME IInv, [Next]_vars PROVE IInv'
  OBVIOUS
<1>s. ServerInv /\ view \in [Players -> View]
  BY InvParts
<1>p. ASSUME ServerInv', view' \in [Players -> View] PROVE IInv'
  BY <1>p DEF IInv, ServerInv, TypeOK
<1>c. Closed \in View
  BY DEF Closed, Window, View
<1>1. ASSUME NEW p \in Players, NEW q \in Players, TRADE_Search(p, q) PROVE IInv'
  BY <1>1, <1>s, <1>p, SearchStep DEF TRADE_Search
<1>2. ASSUME NEW p \in Players, NEW o \in Offers, Show(p, o) PROVE IInv'
  <2>1. view[p].with \in Players
    BY <1>2, <1>s DEF Show, View
  <2>2. ServerInv'
    BY <1>2, <1>s, <2>1, ShowStep DEF Show
  <2>3. view' \in [Players -> View]
    BY <1>2, <1>s DEF Show, View
  <2> QED BY <1>p, <2>2, <2>3
<1>3. ASSUME NEW p \in Players, ConfirmOffer(p) PROVE IInv'
  <2>1. view[p].with \in Players
    BY <1>3, <1>s DEF ConfirmOffer, View
  <2>2. ServerInv'
    BY <1>3, <1>s, <2>1, ConfirmStep DEF ConfirmOffer
  <2>3. view' \in [Players -> View]
    BY <1>3, <1>s DEF ConfirmOffer, View
  <2> QED BY <1>p, <2>2, <2>3
<1>4. ASSUME NEW p \in Players, Agree(p) PROVE IInv'
  <2>1. view[p].with \in Players => DealOf(p) \in Deal
    BY <1>s DEF DealOf, Deal, View
  <2>2. ServerInv'
    BY <1>4, <1>s, <2>1, OkStep DEF Agree
  <2>3. view' \in [Players -> View]
    BY <1>4, <1>s DEF Agree, View
  <2> QED BY <1>p, <2>2, <2>3
<1>5. ASSUME NEW p \in Players, Close(p) PROVE IInv'
  <2>1. view[p].with \in Players
    BY <1>5, <1>s DEF Close, View
  <2>2. ServerInv'
    BY <1>5, <1>s, <2>1, CloseStep DEF Close
  <2>3. view' \in [Players -> View]
    BY <1>5, <1>s, <1>c DEF Close
  <2> QED BY <1>p, <2>2, <2>3
<1>6. ASSUME NEW p \in Players, Logout(p) PROVE IInv'
  <2>1. <<>> \in Seq(Notice)
    BY EmptySeq
  <2>2. ServerInv'
    BY <1>6, <1>s, <2>1 DEF Logout, ServerInv, AgreementWhileLocked
  <2>3. view' \in [Players -> View]
    BY <1>6, <1>s, <1>c DEF Logout
  <2> QED BY <1>p, <2>2, <2>3
<1>7. ASSUME NEW p \in Players, Login(p) PROVE IInv'
  <2>1. ServerInv'
    BY <1>7, <1>s DEF Login, ServerInv, AgreementWhileLocked
  <2> QED BY <1>7, <1>s, <1>p, <2>1 DEF Login
<1>8. ASSUME NEW p \in Players, Read(p) PROVE IInv'
  <2>1. Head(inbox[p]) \in Notice /\ Tail(inbox[p]) \in Seq(Notice)
    BY <1>8, <1>s, HeadTailProperties DEF Read, ServerInv
  <2>2. ServerInv'
    BY <1>8, <1>s, <2>1 DEF Read, ServerInv, AgreementWhileLocked
  <2>3. Seen(view[p], Head(inbox[p])) \in View
    BY <1>s, <2>1, SeenType
  <2>4. view' \in [Players -> View]
    BY <1>8, <1>s, <2>3 DEF Read
  <2> QED BY <1>p, <2>2, <2>4
<1>9. CASE UNCHANGED vars
  BY <1>9 DEF vars, IInv, TypeOK, AgreementWhileLocked
<1> QED BY <1>1, <1>2, <1>3, <1>4, <1>5, <1>6, <1>7, <1>8, <1>9 DEF Next

\* The state of a trade server and its clients keeps its type.
THEOREM TypeCorrect == Spec => []TypeOK
BY InitIInv, NextIInv, PTL DEF Spec, IInv

\* TradeTmp holds an agreement exactly while its player is in mode LOCK: no
\* agreement survives its trade or the player that made it.
THEOREM AgreementsEnd == Spec => []AgreementWhileLocked
BY InitIInv, NextIInv, PTL DEF Spec, IInv
----------------------------------------------------------------------------
(* Players that read their notices before they act.                        *)
(*                                                                         *)
(* The server keeps no trace of who trades with whom: only the windows     *)
(* know.  What such a player will see when it acts next is its window      *)
(* after the notices that are on their way to it, fv in what follows.      *)

\* The box of notices turns the window v into w, one notice after the other.
Sees(v, box, w) ==
    \E h \in [0 .. Len(box) -> View] :
        h[0] = v /\ h[Len(box)] = w /\ \A i \in 1 .. Len(box) : h[i] = Seen(h[i - 1], box[i])

Watch(fv) == fv \in [Prompt -> View] /\ \A p \in Prompt : Sees(view[p], inbox[p], fv[p])

\* Nobody trades with itself.
NotItself ==
    \A p \in Players : view[p].with # p /\ \A i \in 1 .. Len(inbox[p]) : inbox[p][i].by # p

\* A player that waits with an agreement is on its way to learn of no other
\* trade, and has not turned to one.
Calm ==
    \A q \in Prompt \cap online : mode[q] = "LOCK" =>
        /\ \A i \in 1 .. Len(inbox[q]) : inbox[q][i].type \in {"T", "OK"}
        /\ view[q] = Closed \/ view[q].with = tmp[q].to

Waiting(q) == q \in Prompt \cap online /\ mode[q] = "LOCK"

\* Two that see each other in their windows see the same two offers.
SameOffers(fv) ==
    \A p, q \in Prompt : fv[p].with = q /\ fv[q].with = p => fv[p].mine = fv[q].theirs

\* One that waits has shown what its agreement says.
OwnDeal(fv) ==
    \A q \in Prompt : Waiting(q) =>
        fv[q] = Closed \/ (fv[q].with = tmp[q].to /\ fv[q].me /\ fv[q].mine = tmp[q].mine)

\* If the one it waits for sees it, that one has confirmed what the agreement says.
PartnersDeal(fv) ==
    \A p, q \in Prompt : Waiting(q) /\ tmp[q].to = p /\ fv[p].with = q =>
        fv[q].with = p /\ confirm[p] /\ tmp[q].theirs = fv[q].theirs

Deals(fv) ==
    /\ \A p \in Prompt : p \notin online => fv[p] = Closed
    /\ SameOffers(fv) /\ OwnDeal(fv) /\ PartnersDeal(fv)
    /\ \A q \in Prompt : Waiting(q) => tmp[q].to # q
    /\ AgreementGoesThrough

DealInv == IInv /\ NotItself /\ Calm /\ \E fv \in [Prompt -> View] : Watch(fv) /\ Deals(fv)

\* The windows after each kind of notice
LEMMA SeenFacts ==
    ASSUME NEW v \in View, NEW q \in Players, NEW o \in Offers
    PROVE  /\ Seen(v, Over(q)) = Closed
           /\ Seen(v, Opened(q)) = Window(q)
           /\ Seen(v, Shown(q, o)) = IF v.with = q THEN [v EXCEPT !.theirs = o] ELSE v
           /\ Seen(v, Confirmed(q)) = IF v.with = q THEN [v EXCEPT !.them = TRUE] ELSE v
BY DEF Seen, Over, Opened, Shown, Confirmed

\* Without notices the window is what is seen.
LEMMA SeesEmpty ==
    ASSUME NEW v \in View, NEW w \in View
    PROVE  Sees(v, <<>>, w) <=> v = w
<1>1. Len(<<>>) = 0 /\ 0 .. 0 = {0} /\ 1 .. 0 = {}
  BY EmptySeq
<1>2. ASSUME v = w PROVE Sees(v, <<>>, w)
  <2> DEFINE h == [i \in 0 .. 0 |-> v]
  <2>1. h \in [0 .. 0 -> View] /\ h[0] = v
    OBVIOUS
  <2> HIDE DEF h
  <2> QED BY <1>1, <1>2, <2>1 DEF Sees
<1>3. ASSUME Sees(v, <<>>, w) PROVE v = w
  <2>1. PICK h \in [0 .. Len(<<>>) -> View] : h[0] = v /\ h[Len(<<>>)] = w
    BY <1>3 DEF Sees
  <2> QED BY <1>1, <2>1
<1> QED BY <1>2, <1>3

\* A notice more is seen after the others.
LEMMA SeesAppend ==
    ASSUME NEW v \in View, NEW w \in View, NEW box \in Seq(Notice), NEW m \in Notice, Sees(v, box, w)
    PROVE  Sees(v, Append(box, m), Seen(w, m))
<1> DEFINE n == Len(box)
<1>1. PICK h \in [0 .. n -> View] : h[0] = v /\ h[n] = w /\ \A i \in 1 .. n : h[i] = Seen(h[i - 1], box[i])
  BY DEF Sees
<1>2. n \in Nat /\ Len(Append(box, m)) = n + 1 /\ Append(box, m)[n + 1] = m
      /\ \A i \in 1 .. n : Append(box, m)[i] = box[i]
  BY AppendProperties, LenProperties
<1> HIDE DEF n
<1>3. Seen(w, m) \in View
  BY SeenType
<1> DEFINE k == [i \in 0 .. n + 1 |-> IF i = n + 1 THEN Seen(w, m) ELSE h[i]]
<1>4. k \in [0 .. n + 1 -> View] /\ k[n + 1] = Seen(w, m) /\ \A i \in 0 .. n : k[i] = h[i]
  BY <1>2, <1>3
<1> HIDE DEF k
<1>5. ASSUME NEW i \in 1 .. n + 1 PROVE k[i] = Seen(k[i - 1], Append(box, m)[i])
  BY <1>1, <1>2, <1>4
<1> DEFINE longer == Append(box, m)
<1>6. Len(longer) = n + 1 /\ \A i \in 1 .. n + 1 : k[i] = Seen(k[i - 1], longer[i])
  BY <1>2, <1>5
<1> HIDE DEF longer
<1>7. k[0] = v
  BY <1>1, <1>2, <1>4
<1>8. Sees(v, longer, Seen(w, m))
  BY <1>4, <1>6, <1>7 DEF Sees
<1> QED BY <1>8 DEF longer

\* To read a notice changes nothing in what will be seen.
LEMMA SeesTail ==
    ASSUME NEW v \in View, NEW w \in View, NEW box \in Seq(Notice), box # <<>>, Sees(v, box, w)
    PROVE  Sees(Seen(v, Head(box)), Tail(box), w)
<1> DEFINE n == Len(box)
<1>1. PICK h \in [0 .. n -> View] : h[0] = v /\ h[n] = w /\ \A i \in 1 .. n : h[i] = Seen(h[i - 1], box[i])
  BY DEF Sees
<1>2. n \in Nat \ {0} /\ Head(box) = box[1] /\ Len(Tail(box)) = n - 1
      /\ \A i \in 1 .. n - 1 : Tail(box)[i] = box[i + 1]
  BY HeadTailProperties, LenProperties, EmptySeq
<1> HIDE DEF n
<1> DEFINE k == [i \in 0 .. n - 1 |-> h[i + 1]]
<1>3. k \in [0 .. n - 1 -> View] /\ \A i \in 0 .. n - 1 : k[i] = h[i + 1]
  BY <1>2
<1> HIDE DEF k
<1>4. k[0] = Seen(v, Head(box)) /\ k[n - 1] = w
  BY <1>1, <1>2, <1>3
<1>5. ASSUME NEW i \in 1 .. n - 1 PROVE k[i] = Seen(k[i - 1], Tail(box)[i])
  <2>1. i \in 0 .. n - 1 /\ i - 1 \in 0 .. n - 1 /\ i + 1 \in 1 .. n /\ (i - 1) + 1 = i /\ (i + 1) - 1 = i
    BY <1>2
  <2>2. k[i] = h[i + 1] /\ k[i - 1] = h[i] /\ Tail(box)[i] = box[i + 1]
    BY <1>2, <1>3, <2>1
  <2> QED BY <1>1, <2>1, <2>2
<1> QED BY <1>2, <1>3, <1>4, <1>5 DEF Sees
\* What is seen after a step of p, which read all its notices if it is prompt.
Acts(p, w) ==
    /\ p \in Players /\ w \in View
    /\ p \in Prompt => inbox[p] = <<>>
    /\ view' = [view EXCEPT ![p] = w]

After(fv, p, w)        == [r \in Prompt |-> IF r = p THEN w ELSE fv[r]]
AfterBoth(fv, p, w, q, u) == [r \in Prompt |-> IF r = p THEN w ELSE IF r = q THEN u ELSE fv[r]]

\* Reading ahead follows a step that tells nobody,
LEMMA WatchQuiet ==
    ASSUME TypeOK, NEW fv, Watch(fv), NEW p, NEW w, Acts(p, w), UNCHANGED inbox
    PROVE  Watch(After(fv, p, w))' /\ (p \in Prompt => fv[p] = view[p])
<1>1. \A r \in Players : view[r] \in View
  BY DEF TypeOK
<1>2. fv \in [Prompt -> View] /\ \A r \in Prompt : Sees(view[r], inbox[r], fv[r])
  BY DEF Watch
<1>3. p \in Prompt => fv[p] = view[p] /\ Sees(w, inbox[p], w)
  BY <1>1, <1>2, SeesEmpty DEF Acts
<1>4. \A r \in Players : view'[r] = IF r = p THEN w ELSE view[r]
  BY DEF Acts, TypeOK
<1> DEFINE f1 == After(fv, p, w)
<1>5. f1 \in [Prompt -> View] /\ \A r \in Prompt : f1[r] = IF r = p THEN w ELSE fv[r]
  BY <1>2 DEF After, Acts
<1> HIDE DEF f1
<1>6. \A r \in Prompt : Sees(view'[r], inbox'[r], f1[r])
  BY <1>2, <1>3, <1>4, <1>5
<1>7. Watch(f1)'
  BY <1>5, <1>6 DEF Watch
<1> QED BY <1>3, <1>7 DEF f1

\* one that tells another player,
LEMMA WatchTell ==
    ASSUME TypeOK, NEW fv, Watch(fv), NEW p, NEW w, Acts(p, w),
           NEW q \in Players, q # p, NEW m \in Notice, Tell(q, m)
    PROVE  /\ Watch(AfterBoth(fv, p, w, q, Seen(fv[q], m)))'
           /\ p \in Prompt => fv[p] = view[p]
<1>1. \A r \in Players : view[r] \in View /\ inbox[r] \in Seq(Notice)
  BY DEF TypeOK
<1>2. fv \in [Prompt -> View] /\ \A r \in Prompt : Sees(view[r], inbox[r], fv[r])
  BY DEF Watch
<1>3. p \in Prompt => fv[p] = view[p] /\ Sees(w, inbox[p], w)
  BY <1>1, <1>2, SeesEmpty DEF Acts
<1>4. \A r \in Players : /\ view'[r] = IF r = p THEN w ELSE view[r]
                         /\ inbox'[r] = IF r = q THEN Append(inbox[q], m) ELSE inbox[r]
  BY DEF Acts, TypeOK, Tell
<1> DEFINE u == Seen(fv[q], m)
           f1 == AfterBoth(fv, p, w, q, u)
<1>5. q \in Prompt => u \in View /\ Sees(view[q], Append(inbox[q], m), u)
  BY <1>1, <1>2, SeenType, SeesAppend
<1> HIDE DEF u
<1>6. f1 \in [Prompt -> View] /\ \A r \in Prompt : f1[r] = IF r = p THEN w ELSE IF r = q THEN u ELSE fv[r]
  BY <1>2, <1>5 DEF AfterBoth, Acts
<1> HIDE DEF f1
<1>7. \A r \in Prompt : Sees(view'[r], inbox'[r], f1[r])
  BY <1>2, <1>3, <1>4, <1>5, <1>6
<1>8. Watch(f1)'
  BY <1>6, <1>7 DEF Watch
<1> QED BY <1>3, <1>8 DEF f1, u

\* and one that tells both.
LEMMA WatchTellBoth ==
    ASSUME TypeOK, NEW fv, Watch(fv), NEW p, NEW w, Acts(p, w),
           NEW q \in Players, q # p, NEW m \in Notice, NEW n \in Notice, TellBoth(p, m, q, n)
    PROVE  /\ Watch(AfterBoth(fv, p, Seen(w, m), q, Seen(fv[q], n)))'
           /\ p \in Prompt => fv[p] = view[p]
<1>1. \A r \in Players : view[r] \in View /\ inbox[r] \in Seq(Notice)
  BY DEF TypeOK
<1>2. fv \in [Prompt -> View] /\ \A r \in Prompt : Sees(view[r], inbox[r], fv[r])
  BY DEF Watch
<1>3. p \in Prompt => fv[p] = view[p] /\ Sees(w, inbox[p], w)
  BY <1>1, <1>2, SeesEmpty DEF Acts
<1>4. \A r \in Players : /\ view'[r] = IF r = p THEN w ELSE view[r]
                         /\ inbox'[r] = IF r = q THEN Append(inbox[q], n)
                                        ELSE IF r = p THEN Append(inbox[p], m) ELSE inbox[r]
  BY DEF Acts, TypeOK, TellBoth
<1> DEFINE u == Seen(fv[q], n)
           z == Seen(w, m)
           f1 == AfterBoth(fv, p, z, q, u)
<1>5. q \in Prompt => u \in View /\ Sees(view[q], Append(inbox[q], n), u)
  BY <1>1, <1>2, SeenType, SeesAppend
<1>6. w \in View /\ z \in View
  BY SeenType DEF Acts
<1>7. p \in Prompt => Sees(w, Append(inbox[p], m), z)
  BY <1>1, <1>3, <1>6, SeesAppend DEF Acts
<1> HIDE DEF u, z
<1>8. f1 \in [Prompt -> View] /\ \A r \in Prompt : f1[r] = IF r = p THEN z ELSE IF r = q THEN u ELSE fv[r]
  BY <1>2, <1>5, <1>6 DEF AfterBoth
<1> HIDE DEF f1
<1>9. \A r \in Prompt : Sees(view'[r], inbox'[r], f1[r])
  BY <1>2, <1>4, <1>5, <1>7, <1>8
<1>10. Watch(f1)'
  BY <1>8, <1>9 DEF Watch
<1> QED BY <1>3, <1>10 DEF f1, u, z
----------------------------------------------------------------------------
(* What the steps do to the deals of players that read before they act. *)

\* Nothing of a deal changes with a flag of a window, or a confirmation more.
LEMMA DealsSame ==
    ASSUME NEW fv, Deals(fv), NEW f1, UNCHANGED <<online, mode, tmp>>,
           \A r \in Prompt : /\ f1[r].with = fv[r].with /\ f1[r].mine = fv[r].mine
                             /\ f1[r].theirs = fv[r].theirs /\ (fv[r].me => f1[r].me)
                             /\ (fv[r] = Closed => f1[r] = Closed),
           \A r \in Prompt : confirm[r] => confirm'[r]
    PROVE  Deals(f1)'
<1>1. (\A r \in Prompt : r \notin online => f1[r] = Closed)'
  BY DEF Deals
<1>2. SameOffers(f1)'
  BY DEF Deals, SameOffers
<1>3. OwnDeal(f1)'
  BY DEF Deals, OwnDeal, Waiting
<1>4. PartnersDeal(f1)'
  BY DEF Deals, PartnersDeal, Waiting
<1>5. (\A q \in Prompt : Waiting(q) => tmp[q].to # q)'
  BY DEF Deals, Waiting
<1>6. AgreementGoesThrough'
  BY DEF Deals, AgreementGoesThrough
<1> QED BY <1>1, <1>2, <1>3, <1>4, <1>5, <1>6 DEF Deals

\* The trade of p and q ends, for both.
LEMMA DealsEnd ==
    ASSUME IInv, NEW fv, Deals(fv), NEW p \in Players, NEW q \in Players, UNCHANGED online,
           SetBoth(mode, p, q, "FREE"), SetBoth(tmp, p, q, NoDeal),
           \A r \in Players \ {p, q} : confirm'[r] = confirm[r]
    PROVE  Deals(AfterBoth(fv, p, Closed, q, Closed))'
<1> DEFINE f1 == AfterBoth(fv, p, Closed, q, Closed)
<1>1. \A r \in Prompt : f1[r] = IF r \in {p, q} THEN Closed ELSE fv[r]
  BY DEF AfterBoth
<1>2. \A r \in Players : /\ mode'[r] = IF r \in {p, q} THEN "FREE" ELSE mode[r]
                         /\ tmp'[r] = IF r \in {p, q} THEN NoDeal ELSE tmp[r]
  BY DEF IInv, TypeOK, SetBoth
<1>3. Closed.with \notin Players
  BY DEF Closed, Window
<1> HIDE DEF f1
<1>4. \A r \in Prompt : Waiting(r)' => r \notin {p, q} /\ Waiting(r)
  BY <1>2 DEF Waiting
<1>5. (\A r \in Prompt : r \notin online => f1[r] = Closed)'
  BY <1>1 DEF Deals
<1>6. SameOffers(f1)'
  BY <1>1, <1>3 DEF Deals, SameOffers
<1>7. OwnDeal(f1)'
  BY <1>1, <1>2, <1>4 DEF Deals, OwnDeal
<1>8. PartnersDeal(f1)'
  BY <1>1, <1>2, <1>3, <1>4 DEF Deals, PartnersDeal
<1>9. (\A r \in Prompt : Waiting(r) => tmp[r].to # r)'
  BY <1>2, <1>4 DEF Deals
<1>10. AgreementGoesThrough'
  BY <1>2 DEF Deals, AgreementGoesThrough
<1>11. Deals(f1)'
  BY <1>5, <1>6, <1>7, <1>8, <1>9, <1>10 DEF Deals
<1> QED BY <1>11 DEF f1

\* A trade of p and q begins, between players that wait for nothing.
LEMMA DealsBegin ==
    ASSUME IInv, NEW fv, Deals(fv), NEW p \in Players, NEW q \in Players, p # q, UNCHANGED <<online, tmp>>,
           p \in online, q \in online,
           SetBoth(mode, p, q, "TRADING"), \A r \in Players \ {p, q} : confirm'[r] = confirm[r]
    PROVE  Deals(AfterBoth(fv, p, Window(q), q, Window(p)))'
<1> DEFINE f1 == AfterBoth(fv, p, Window(q), q, Window(p))
<1>1. \A r \in Prompt : f1[r] = IF r = p THEN Window(q) ELSE IF r = q THEN Window(p) ELSE fv[r]
  BY DEF AfterBoth
<1>2. \A r \in Players : mode'[r] = IF r \in {p, q} THEN "TRADING" ELSE mode[r]
  BY DEF IInv, TypeOK, SetBoth
<1>3. /\ Window(q).with = q /\ Window(q).mine = "none" /\ Window(q).theirs = "none"
      /\ Window(p).with = p /\ Window(p).mine = "none" /\ Window(p).theirs = "none"
  BY DEF Window
<1> HIDE DEF f1
<1>4. \A r \in Prompt : Waiting(r)' => r \notin {p, q} /\ Waiting(r)
  BY <1>2 DEF Waiting
<1>5. (\A r \in Prompt : r \notin online => f1[r] = Closed)'
  BY <1>1 DEF Deals
<1>6. SameOffers(f1)'
  BY <1>1, <1>3 DEF Deals, SameOffers
<1>7. OwnDeal(f1)'
  BY <1>1, <1>4 DEF Deals, OwnDeal
<1>8. PartnersDeal(f1)'
  BY <1>1, <1>3, <1>4 DEF Deals, PartnersDeal
<1>9. (\A r \in Prompt : Waiting(r) => tmp[r].to # r)'
  BY <1>4 DEF Deals
<1>10. AgreementGoesThrough'
  BY <1>2 DEF Deals, AgreementGoesThrough
<1>11. Deals(f1)'
  BY <1>5, <1>6, <1>7, <1>8, <1>9, <1>10 DEF Deals
<1> QED BY <1>11 DEF f1

\* p shows o to q, which is online and sees p or another.
LEMMA DealsShow ==
    ASSUME IInv, NEW fv \in [Prompt -> View], Deals(fv), NEW p \in Players, NEW q \in Players, p # q, NEW o \in Offers,
           UNCHANGED <<online, mode, tmp, confirm>>, ~ confirm[p],
           NEW w, p \in Prompt => fv[p].with = q /\ ~ fv[p].me /\ w = [fv[p] EXCEPT !.mine = o]
    PROVE  Deals(AfterBoth(fv, p, w, q, Seen(fv[q], Shown(p, o))))'
<1> DEFINE u == Seen(fv[q], Shown(p, o))
           f1 == AfterBoth(fv, p, w, q, u)
<1>1. \A r \in Prompt : f1[r] = IF r = p THEN w ELSE IF r = q THEN u ELSE fv[r]
  BY DEF AfterBoth
<1>2. q \in Prompt => u = IF fv[q].with = p THEN [fv[q] EXCEPT !.theirs = o] ELSE fv[q]
  BY SeenFacts
<1>3. \A r \in Prompt : fv[r] \in View
  OBVIOUS
<1>4. Closed.with = "none" /\ "none" \notin Players
  BY DEF Closed, Window
<1> HIDE DEF u, f1
<1>5. p \in Prompt => w.with = q /\ w.mine = o /\ w.theirs = fv[p].theirs /\ fv[p] # Closed
  BY <1>3, <1>4 DEF View
<1>6. q \in Prompt => /\ u.with = fv[q].with /\ u.mine = fv[q].mine /\ u.me = fv[q].me
                      /\ u.theirs = IF fv[q].with = p THEN o ELSE fv[q].theirs
                      /\ (fv[q] = Closed => u = Closed)
  BY <1>2, <1>3, <1>4 DEF View
<1>7. \A r \in Prompt : f1[r].with = fv[r].with
  BY <1>1, <1>5, <1>6
<1>8. (\A r \in Prompt : r \notin online => f1[r] = Closed)'
  BY <1>1, <1>5, <1>6 DEF Deals
<1>9. SameOffers(f1)'
  <2> SUFFICES ASSUME NEW r \in Prompt, NEW s \in Prompt, f1[r].with = s, f1[s].with = r
               PROVE  f1[r].mine = f1[s].theirs
    BY DEF SameOffers
  <2>1. fv[r].with = s /\ fv[s].with = r /\ fv[r].mine = fv[s].theirs
    BY <1>7 DEF Deals, SameOffers
  <2>2. CASE r = p
    BY <1>1, <1>5, <1>6, <2>1, <2>2
  <2>3. CASE r = q
    BY <1>1, <1>5, <1>6, <2>1, <2>3
  <2>4. CASE r # p /\ r # q
    BY <1>1, <1>5, <1>6, <2>1, <2>4
  <2> QED BY <2>2, <2>3, <2>4
<1>10. \A r \in Prompt : Waiting(r)' <=> Waiting(r)
  BY DEF Waiting
<1>11. OwnDeal(f1)'
  <2> SUFFICES ASSUME NEW r \in Prompt, Waiting(r)
               PROVE  f1[r] = Closed \/ (f1[r].with = tmp'[r].to /\ f1[r].me /\ f1[r].mine = tmp'[r].mine)
    BY <1>10 DEF OwnDeal
  <2>1. fv[r] = Closed \/ (fv[r].with = tmp[r].to /\ fv[r].me /\ fv[r].mine = tmp[r].mine)
    BY DEF Deals, OwnDeal
  <2> QED BY <1>1, <1>5, <1>6, <2>1
<1>12. PartnersDeal(f1)'
  <2> SUFFICES ASSUME NEW r \in Prompt, NEW s \in Prompt, Waiting(s), tmp[s].to = r, f1[r].with = s
               PROVE  f1[s].with = r /\ confirm[r] /\ tmp[s].theirs = f1[s].theirs
    BY <1>10 DEF PartnersDeal
  <2>1. fv[s].with = r /\ confirm[r] /\ tmp[s].theirs = fv[s].theirs
    BY <1>7 DEF Deals, PartnersDeal
  <2>2. r # p
    BY <2>1
  <2> QED BY <1>1, <1>5, <1>6, <2>1, <2>2
<1>13. (\A r \in Prompt : Waiting(r) => tmp[r].to # r)'
  BY <1>10 DEF Deals
<1>14. AgreementGoesThrough'
  BY DEF Deals, AgreementGoesThrough
<1>15. Deals(f1)'
  BY <1>8, <1>9, <1>11, <1>12, <1>13, <1>14 DEF Deals
<1> QED BY <1>15 DEF f1, u
\* p closes its window, or changes its offer there, with a partner that is gone.
LEMMA DealsAlone ==
    ASSUME IInv, NEW fv \in [Prompt -> View], Deals(fv), NEW p \in Players, NEW q \in Players,
           q \notin online, UNCHANGED <<online, mode, tmp, confirm>>,
           NEW w, p \in Prompt => /\ fv[p].with = q
                                  /\ w = Closed \/ (~ fv[p].me /\ w.with = q)
    PROVE  Deals(After(fv, p, w))'
<1> DEFINE f1 == After(fv, p, w)
<1>1. \A r \in Prompt : f1[r] = IF r = p THEN w ELSE fv[r]
  BY DEF After
<1>2. Closed.with = "none" /\ "none" \notin Players
  BY DEF Closed, Window
<1>3. q \in Prompt => fv[q].with = "none"
  BY <1>2 DEF Deals
<1>4. p \in Prompt => w.with \in {q, "none"} /\ fv[p] # Closed
  BY <1>2
<1> HIDE DEF f1
<1>5. p \in Prompt => ~ \E r \in Prompt : fv[p].with = r /\ fv[r].with = p
  BY <1>2, <1>3
<1>6. (\A r \in Prompt : r \notin online => f1[r] = Closed)'
  <2>1. p \in Prompt => p \in online
    BY <1>4 DEF Deals
  <2> QED BY <1>1, <2>1 DEF Deals
<1>7. SameOffers(f1)'
  <2> SUFFICES ASSUME NEW r \in Prompt, NEW s \in Prompt, f1[r].with = s, f1[s].with = r
               PROVE  f1[r].mine = f1[s].theirs
    BY DEF SameOffers
  <2>1. r # p /\ s # p
    BY <1>1, <1>2, <1>3, <1>4
  <2> QED BY <1>1, <2>1 DEF Deals, SameOffers
<1>8. \A r \in Prompt : Waiting(r)' <=> Waiting(r)
  BY DEF Waiting
<1>9. OwnDeal(f1)'
  BY <1>1, <1>4, <1>8 DEF Deals, OwnDeal
<1>10. PartnersDeal(f1)'
  <2> SUFFICES ASSUME NEW r \in Prompt, NEW s \in Prompt, Waiting(s), tmp[s].to = r, f1[r].with = s
               PROVE  f1[s].with = r /\ confirm[r] /\ tmp[s].theirs = f1[s].theirs
    BY <1>8 DEF PartnersDeal
  <2>1. r # p
    <3>1. s \in online
      BY DEF Waiting
    <3> QED BY <1>1, <1>2, <1>4, <3>1
  <2>2. fv[r].with = s /\ fv[s].with = r /\ confirm[r] /\ tmp[s].theirs = fv[s].theirs
    BY <1>1, <2>1 DEF Deals, PartnersDeal
  <2>3. s # p
    BY <1>5, <2>2
  <2> QED BY <1>1, <2>2, <2>3
<1>11. (\A r \in Prompt : Waiting(r) => tmp[r].to # r)'
  BY <1>8 DEF Deals
<1>12. AgreementGoesThrough'
  BY DEF Deals, AgreementGoesThrough
<1>13. Deals(f1)'
  BY <1>6, <1>7, <1>9, <1>10, <1>11, <1>12 DEF Deals
<1> QED BY <1>13 DEF f1

\* p sends its agreement, which q has not matched: then q has not sent its own to p.
LEMMA DealsWait ==
    ASSUME IInv, NEW fv \in [Prompt -> View], Deals(fv), NEW p \in Players, NEW q \in Players, p # q,
           p \in online, q \in online, UNCHANGED <<online, confirm>>, confirm[q],
           NEW w \in View, NEW d \in Deal, ~ (Mirrored(d, tmp[q]) /\ tmp[q] # NoDeal),
           mode' = [mode EXCEPT ![p] = "LOCK"], tmp' = [tmp EXCEPT ![p] = d],
           p \in Prompt => /\ fv[p].with = q /\ fv[p].me
                           /\ d = [to |-> q, mine |-> fv[p].mine, theirs |-> fv[p].theirs]
                           /\ w = [fv[p] EXCEPT !.sent = TRUE]
    PROVE  Deals(After(fv, p, w))'
<1> DEFINE f1 == After(fv, p, w)
<1>1. \A r \in Prompt : f1[r] = IF r = p THEN w ELSE fv[r]
  BY DEF After
<1>2. p \in Prompt => /\ w.with = q /\ w.mine = fv[p].mine /\ w.theirs = fv[p].theirs /\ w.me
                      /\ d.to = q /\ d.mine = fv[p].mine /\ d.theirs = fv[p].theirs
  BY DEF View
<1>3. \A r \in Players : /\ mode'[r] = IF r = p THEN "LOCK" ELSE mode[r]
                         /\ tmp'[r] = IF r = p THEN d ELSE tmp[r]
  BY DEF IInv, TypeOK
<1> HIDE DEF f1
<1>4. \A r \in Prompt : Waiting(r)' => r = p \/ Waiting(r)
  BY <1>3 DEF Waiting
<1>6. (\A r \in Prompt : r \notin online => f1[r] = Closed)'
  BY <1>1 DEF Deals
<1>7. SameOffers(f1)'
  <2>1. \A r \in Prompt : f1[r].with = fv[r].with /\ f1[r].mine = fv[r].mine /\ f1[r].theirs = fv[r].theirs
    BY <1>1, <1>2
  <2> QED BY <2>1 DEF Deals, SameOffers
<1>8. OwnDeal(f1)'
  BY <1>1, <1>2, <1>3, <1>4 DEF Deals, OwnDeal
<1>9. q \in Prompt /\ p \in Prompt /\ Waiting(q) => tmp[q].to # p
  <2> SUFFICES ASSUME q \in Prompt, p \in Prompt, Waiting(q), tmp[q].to = p PROVE FALSE
    OBVIOUS
  <2>1. fv[q].with = p /\ tmp[q].theirs = fv[q].theirs
    BY DEF Deals, PartnersDeal
  <2>2. fv[q].mine = tmp[q].mine
    <3>1. Closed.with = "none" /\ "none" \notin Players
      BY DEF Closed, Window
    <3> QED BY <2>1, <3>1 DEF Deals, OwnDeal
  <2>3. fv[p].mine = fv[q].theirs /\ fv[q].mine = fv[p].theirs
    BY <2>1 DEF Deals, SameOffers
  <2>4. tmp[q] # NoDeal
    BY DEF Waiting, IInv, AgreementWhileLocked
  <2> QED BY <1>2, <2>1, <2>2, <2>3, <2>4 DEF Mirrored
<1>10. PartnersDeal(f1)'
  <2> SUFFICES ASSUME NEW r \in Prompt, NEW s \in Prompt, Waiting(s)', tmp'[s].to = r, f1[r].with = s
               PROVE  f1[s].with = r /\ confirm[r] /\ tmp'[s].theirs = f1[s].theirs
    BY DEF PartnersDeal
  <2>1. CASE s = p
    BY <1>1, <1>2, <1>3, <2>1
  <2>2. CASE s # p
    <3>1. Waiting(s) /\ tmp[s].to = r /\ fv[r].with = s
      BY <1>1, <1>2, <1>3, <1>4, <2>2
    <3>2. fv[s].with = r /\ confirm[r] /\ tmp[s].theirs = fv[s].theirs
      BY <3>1 DEF Deals, PartnersDeal
    <3> QED BY <1>1, <1>3, <2>2, <3>2
  <2> QED BY <2>1, <2>2
<1>11. (\A r \in Prompt : Waiting(r) => tmp[r].to # r)'
  BY <1>2, <1>3, <1>4 DEF Deals
<1>12. AgreementGoesThrough'
  <2> SUFFICES ASSUME NEW r \in online \cap Prompt, NEW s \in online \cap Prompt,
                      mode'[r] = "LOCK", tmp'[r].to = s, mode'[s] = "LOCK", tmp'[s].to = r
               PROVE  FALSE
    BY DEF AgreementGoesThrough
  <2>1. r \in Players /\ s \in Players
    BY DEF TradeAssumption
  <2>2. CASE r = p /\ s = p
    BY <1>2, <1>3, <2>2
  <2>3. CASE r = p /\ s # p
    BY <1>2, <1>3, <1>9, <2>1, <2>3 DEF Waiting
  <2>4. CASE r # p /\ s = p
    BY <1>2, <1>3, <1>9, <2>1, <2>4 DEF Waiting
  <2>5. CASE r # p /\ s # p
    BY <1>3, <2>1, <2>5 DEF Deals, AgreementGoesThrough
  <2> QED BY <2>2, <2>3, <2>4, <2>5
<1>13. Deals(f1)'
  BY <1>6, <1>7, <1>8, <1>10, <1>11, <1>12 DEF Deals
<1> QED BY <1>13 DEF f1

\* p leaves the game, whatever its trade.
LEMMA DealsLeave ==
    ASSUME IInv, NEW fv, Deals(fv), NEW p \in Players, online' = online \ {p}, UNCHANGED <<mode, tmp, confirm>>
    PROVE  Deals(After(fv, p, Closed))'
<1> DEFINE f1 == After(fv, p, Closed)
<1>1. \A r \in Prompt : f1[r] = IF r = p THEN Closed ELSE fv[r]
  BY DEF After
<1>2. Closed.with \notin Players
  BY DEF Closed, Window
<1> HIDE DEF f1
<1>3. \A r \in Prompt : Waiting(r)' => Waiting(r) /\ r # p
  BY DEF Waiting
<1>4. (\A r \in Prompt : r \notin online => f1[r] = Closed)'
  BY <1>1 DEF Deals
<1>5. SameOffers(f1)'
  BY <1>1, <1>2 DEF Deals, SameOffers
<1>6. OwnDeal(f1)'
  BY <1>1, <1>3 DEF Deals, OwnDeal
<1>7. PartnersDeal(f1)'
  BY <1>1, <1>2, <1>3 DEF Deals, PartnersDeal
<1>8. (\A r \in Prompt : Waiting(r) => tmp[r].to # r)'
  BY <1>3 DEF Deals
<1>9. AgreementGoesThrough'
  BY DEF Deals, AgreementGoesThrough
<1>10. Deals(f1)'
  BY <1>4, <1>5, <1>6, <1>7, <1>8, <1>9 DEF Deals
<1> QED BY <1>10 DEF f1

\* Another player gets the socket of one that left.
LEMMA DealsEnter ==
    ASSUME IInv, NEW fv, Deals(fv), NEW p \in Players, Login(p)
    PROVE  Deals(fv)'
<1>1. p \notin online /\ online' = online \cup {p}
  BY DEF Login
<1>2. \A r \in Players : /\ mode'[r] = IF r = p THEN "FREE" ELSE mode[r]
                         /\ tmp'[r] = IF r = p THEN NoDeal ELSE tmp[r]
                         /\ r # p => confirm'[r] = confirm[r]
  BY DEF Login, IInv, TypeOK
<1>3. \A r \in Prompt : Waiting(r)' => Waiting(r) /\ r # p
  BY <1>1, <1>2 DEF Waiting
<1>4. p \in Prompt => fv[p].with \notin Players
  BY <1>1 DEF Deals, Closed, Window
<1>5. (\A r \in Prompt : r \notin online => fv[r] = Closed)'
  BY <1>1 DEF Deals
<1>6. SameOffers(fv)'
  BY DEF Deals, SameOffers
<1>7. OwnDeal(fv)'
  BY <1>2, <1>3 DEF Deals, OwnDeal
<1>8. PartnersDeal(fv)'
  BY <1>2, <1>3, <1>4 DEF Deals, PartnersDeal
<1>9. (\A r \in Prompt : Waiting(r) => tmp[r].to # r)'
  BY <1>2, <1>3 DEF Deals
<1>10. AgreementGoesThrough'
  BY <1>1, <1>2 DEF Deals, AgreementGoesThrough
<1> QED BY <1>5, <1>6, <1>7, <1>8, <1>9, <1>10 DEF Deals
----------------------------------------------------------------------------
(* The steps. *)

\* What is in a box after one notice more
LEMMA AppendCases ==
    ASSUME NEW box \in Seq(Notice), NEW m \in Notice, NEW i \in 1 .. Len(Append(box, m))
    PROVE  (i \in 1 .. Len(box) /\ Append(box, m)[i] = box[i]) \/ Append(box, m)[i] = m
<1>1. Len(box) \in Nat /\ Len(Append(box, m)) = Len(box) + 1 /\ Append(box, m)[Len(box) + 1] = m
      /\ \A k \in 1 .. Len(box) : Append(box, m)[k] = box[k]
  BY AppendProperties, LenProperties
<1> QED BY <1>1

\* A notice in box' was there before, or is new and good.
Kept(r, i) == i \in 1 .. Len(inbox[r]) /\ inbox'[r][i] = inbox[r][i]

\* A notice in an inbox was there before or has just been sent.
LEMMA TellKept ==
    ASSUME TypeOK, NEW p \in Players, NEW q \in Players, p # q, NEW m \in Notice, NEW n \in Notice,
           NEW r \in Players, NEW i \in 1 .. Len(inbox'[r])
    PROVE  /\ Tell(q, m) => Kept(r, i) \/ (r = q /\ inbox'[r][i] = m)
           /\ TellBoth(p, m, q, n) => Kept(r, i) \/ (r = p /\ inbox'[r][i] = m) \/ (r = q /\ inbox'[r][i] = n)
<1>1. inbox \in [Players -> Seq(Notice)]
  BY DEF TypeOK
<1>2. ASSUME Tell(q, m) PROVE Kept(r, i) \/ (r = q /\ inbox'[r][i] = m)
  <2>1. inbox'[r] = IF r = q THEN Append(inbox[q], m) ELSE inbox[r]
    BY <1>1, <1>2 DEF Tell
  <2>2. CASE r = q
    BY <1>1, <2>1, <2>2, AppendCases DEF Kept
  <2>3. CASE r # q
    BY <2>1, <2>3 DEF Kept
  <2> QED BY <2>2, <2>3
<1>3. ASSUME TellBoth(p, m, q, n)
      PROVE  Kept(r, i) \/ (r = p /\ inbox'[r][i] = m) \/ (r = q /\ inbox'[r][i] = n)
  <2>1. inbox'[r] = IF r = q THEN Append(inbox[q], n) ELSE IF r = p THEN Append(inbox[p], m) ELSE inbox[r]
    BY <1>1, <1>3 DEF TellBoth
  <2>2. CASE r = q
    BY <1>1, <2>1, <2>2, AppendCases DEF Kept
  <2>3. CASE r = p
    BY <1>1, <2>1, <2>3, AppendCases DEF Kept
  <2>4. CASE r # p /\ r # q
    BY <2>1, <2>4 DEF Kept
  <2> QED BY <2>2, <2>3, <2>4
<1> QED BY <1>2, <1>3

\* Nobody comes to trade with itself.
LEMMA NotItselfStep ==
    ASSUME TypeOK, NotItself, NEW p, NEW w, Acts(p, w), w.with # p,
           \A r \in Players : \A i \in 1 .. Len(inbox'[r]) : Kept(r, i) \/ inbox'[r][i].by # r
    PROVE  NotItself'
BY DEF NotItself, Acts, TypeOK, Kept

\* Who waits in LOCK is told of nothing but the agreement or the end of the other one.
LEMMA CalmStep ==
    ASSUME TypeOK, Calm, NEW p, NEW w, Acts(p, w),
           \A r \in Prompt : Waiting(r)' =>
               /\ Waiting(r) /\ tmp'[r] = tmp[r] /\ (r = p => w = Closed \/ (w.with = view[p].with /\ view[p] # Closed))
               /\ \A i \in 1 .. Len(inbox'[r]) : Kept(r, i) \/ inbox'[r][i].type \in {"T", "OK"}
    PROVE  Calm'
<1> SUFFICES ASSUME NEW r \in Prompt, Waiting(r)'
             PROVE  /\ \A i \in 1 .. Len(inbox'[r]) : inbox'[r][i].type \in {"T", "OK"}
                    /\ view'[r] = Closed \/ view'[r].with = tmp'[r].to
  BY DEF Calm, Waiting
<1>1. /\ Waiting(r) /\ tmp'[r] = tmp[r] /\ (r = p => w = Closed \/ (w.with = view[p].with /\ view[p] # Closed))
      /\ \A i \in 1 .. Len(inbox'[r]) : Kept(r, i) \/ inbox'[r][i].type \in {"T", "OK"}
  OBVIOUS
<1>2. /\ \A i \in 1 .. Len(inbox[r]) : inbox[r][i].type \in {"T", "OK"}
      /\ view[r] = Closed \/ view[r].with = tmp[r].to
  BY <1>1 DEF Calm, Waiting
<1>3. view'[r] = IF r = p THEN w ELSE view[r]
  BY DEF Acts, TypeOK, TradeAssumption
<1>4. p = r => w = Closed \/ w.with = tmp[r].to
  BY <1>1, <1>2
<1> QED BY <1>1, <1>2, <1>3, <1>4 DEF Kept
\* The invariant after a step, apart from the types
Rest == NotItself /\ Calm /\ \E fv \in [Prompt -> View] : Watch(fv) /\ Deals(fv)

\* A window with a flag more
Flagged(v, w) == /\ v # Closed /\ w.with = v.with /\ w.mine = v.mine /\ w.theirs = v.theirs
                 /\ (v.me => w.me)

\* A client that only marks its own window changes nothing the others rely on.
LEMMA FlagStep ==
    ASSUME DealInv, NEW p, NEW w, Acts(p, w), Flagged(view[p], w),
           UNCHANGED <<online, mode, tmp, confirm, inbox>>
    PROVE  Rest'
<1>1. p \in Players /\ TypeOK /\ NotItself /\ Calm
  BY DEF Acts, DealInv, IInv
<1>2. NotItself'
  <2>1. w.with # p
    BY <1>1 DEF Flagged, NotItself
  <2> QED BY <1>1, <2>1, NotItselfStep DEF Kept
<1>3. Calm'
  <2>1. \A r \in Prompt : Waiting(r)' => Waiting(r)
    BY DEF Waiting
  <2> QED BY <1>1, <2>1, CalmStep DEF Kept, Flagged
<1>4. PICK fv \in [Prompt -> View] : Watch(fv) /\ Deals(fv)
  BY DEF DealInv
<1> DEFINE f1 == After(fv, p, w)
<1>5. Watch(f1)' /\ (p \in Prompt => fv[p] = view[p])
  BY <1>1, <1>4, WatchQuiet
<1>6. \A r \in Prompt : f1[r] = IF r = p THEN w ELSE fv[r]
  BY DEF After
<1> HIDE DEF f1
<1>7. Deals(f1)'
  BY <1>4, <1>5, <1>6, DealsSame DEF Flagged
<1>8. f1 \in [Prompt -> View]
  BY <1>5 DEF Watch
<1> QED BY <1>2, <1>3, <1>5, <1>7, <1>8 DEF Rest

\* p confirms, which q learns of.
LEMMA ConfirmedStep ==
    ASSUME DealInv, NEW p, NEW w, Acts(p, w), Flagged(view[p], w), NEW q \in Players, p # q,
           UNCHANGED <<online, mode, tmp>>, Tell(q, Confirmed(p)), confirm' = [confirm EXCEPT ![p] = TRUE]
    PROVE  Rest'
<1>1. p \in Players /\ TypeOK /\ NotItself /\ Calm
  BY DEF Acts, DealInv, IInv
<1>m. Confirmed(p) \in Notice /\ Confirmed(p).by = p /\ Confirmed(p).type = "OK"
  BY <1>1 DEF Confirmed, Notice
<1>k. \A r \in Players : \A i \in 1 .. Len(inbox'[r]) : Kept(r, i) \/ (r = q /\ inbox'[r][i] = Confirmed(p))
  BY <1>1, <1>m, TellKept
<1>2. NotItself'
  <2>1. w.with # p
    BY <1>1 DEF Flagged, NotItself
  <2> QED BY <1>1, <1>m, <1>k, <2>1, NotItselfStep
<1>3. Calm'
  <2>1. \A r \in Prompt : Waiting(r)' => Waiting(r) /\ r \in Players
    BY DEF Waiting, TradeAssumption
  <2> QED BY <1>1, <1>m, <1>k, <2>1, CalmStep DEF Flagged
<1>4. PICK fv \in [Prompt -> View] : Watch(fv) /\ Deals(fv)
  BY DEF DealInv
<1> DEFINE u == Seen(fv[q], Confirmed(p))
           f1 == AfterBoth(fv, p, w, q, u)
<1>5. Watch(f1)' /\ (p \in Prompt => fv[p] = view[p])
  BY <1>1, <1>m, <1>4, WatchTell
<1>6. \A r \in Prompt : f1[r] = IF r = p THEN w ELSE IF r = q THEN u ELSE fv[r]
  BY DEF AfterBoth
<1>7. q \in Prompt => /\ u.with = fv[q].with /\ u.mine = fv[q].mine /\ u.theirs = fv[q].theirs
                      /\ (fv[q].me => u.me) /\ (fv[q] = Closed => u = Closed)
  <2>1. q \in Prompt => u = IF fv[q].with = p THEN [fv[q] EXCEPT !.them = TRUE] ELSE fv[q]
    <3>1. ASSUME q \in Prompt PROVE fv[q] \in View
      BY <3>1
    <3>2. ASSUME q \in Prompt PROVE u = IF fv[q].with = p THEN [fv[q] EXCEPT !.them = TRUE] ELSE fv[q]
      BY <1>1, <3>1, <3>2 DEF Seen, Confirmed
    <3> QED BY <3>2
  <2>2. Closed.with # p
    BY <1>1 DEF Closed, Window, TradeAssumption
  <2> HIDE DEF u
  <2> QED BY <2>1, <2>2 DEF View
<1>8. \A r \in Prompt : confirm[r] => confirm'[r]
  BY <1>1 DEF TypeOK, TradeAssumption
<1> HIDE DEF u, f1
<1>9. Deals(f1)'
  <2>1. \A r \in Prompt : /\ f1[r].with = fv[r].with /\ f1[r].mine = fv[r].mine
                          /\ f1[r].theirs = fv[r].theirs /\ (fv[r].me => f1[r].me)
                          /\ (fv[r] = Closed => f1[r] = Closed)
    BY <1>5, <1>6, <1>7 DEF Flagged
  <2> QED BY <1>4, <1>8, <2>1, DealsSame
<1>10. f1 \in [Prompt -> View]
  BY <1>5 DEF Watch
<1> QED BY <1>2, <1>3, <1>5, <1>9, <1>10 DEF Rest

\* p closes its window, or shows an offer, and its partner is gone.
LEMMA AloneStep ==
    ASSUME DealInv, NEW p, NEW w, Acts(p, w), view[p].with \in Players, view[p].with \notin online,
           w = Closed \/ (w.with = view[p].with /\ ~ view[p].me),
           UNCHANGED <<online, mode, tmp, confirm, inbox>>
    PROVE  Rest'
<1>1. p \in Players /\ TypeOK /\ NotItself /\ Calm /\ IInv
  BY DEF Acts, DealInv, IInv
<1>c. Closed.with = "none" /\ "none" \notin Players
  BY DEF Closed, Window, TradeAssumption
<1>2. NotItself'
  <2>1. w.with # p
    BY <1>1, <1>c DEF NotItself
  <2> QED BY <1>1, <2>1, NotItselfStep DEF Kept
<1>3. Calm'
  <2>1. \A r \in Prompt : Waiting(r)' => Waiting(r)
    BY DEF Waiting
  <2>2. view[p] # Closed
    BY <1>c
  <2> QED BY <1>1, <2>1, <2>2, CalmStep DEF Kept
<1>4. PICK fv \in [Prompt -> View] : Watch(fv) /\ Deals(fv)
  BY DEF DealInv
<1> DEFINE f1 == After(fv, p, w)
<1>5. Watch(f1)' /\ (p \in Prompt => fv[p] = view[p])
  BY <1>1, <1>4, WatchQuiet
<1>6. Deals(f1)'
  BY <1>1, <1>4, <1>5, DealsAlone
<1>7. f1 \in [Prompt -> View]
  BY <1>5 DEF Watch
<1> QED BY <1>2, <1>3, <1>5, <1>6, <1>7 DEF Rest

\* p shows an offer to its partner.
LEMMA ShownStep ==
    ASSUME DealInv, NEW p, NEW o \in Offers, NEW q \in Players, p # q,
           NEW w, w = [view[p] EXCEPT !.mine = o], Acts(p, w),
           view[p].with = q, ~ view[p].me, ~ confirm[p],
           Tell(q, Shown(p, o)), UNCHANGED <<online, mode, tmp, confirm>>
    PROVE  Rest'
<1>1. p \in Players /\ TypeOK /\ NotItself /\ Calm /\ IInv
  BY DEF Acts, DealInv, IInv
<1>c. Closed.with = "none" /\ "none" \notin Players
  BY DEF Closed, Window, TradeAssumption
<1>m. Shown(p, o) \in Notice /\ Shown(p, o).by = p /\ Shown(p, o).type = "T"
  BY <1>1 DEF Shown, Notice
<1>k. \A r \in Players : \A i \in 1 .. Len(inbox'[r]) : Kept(r, i) \/ (r = q /\ inbox'[r][i] = Shown(p, o))
  BY <1>1, <1>m, TellKept
<1>v. view[p] \in View
  BY <1>1 DEF TypeOK
<1>w. w.with = q
  BY <1>v DEF View
<1>2. NotItself'
  BY <1>1, <1>m, <1>k, <1>w, NotItselfStep
<1>3. Calm'
  <2>1. \A r \in Prompt : Waiting(r)' => Waiting(r) /\ r \in Players
    BY DEF Waiting, TradeAssumption
  <2>2. view[p] # Closed
    BY <1>c
  <2>3. \A r \in Players : \A i \in 1 .. Len(inbox'[r]) : Kept(r, i) \/ inbox'[r][i].type \in {"T", "OK"}
    BY <1>m, <1>k
  <2> QED BY <1>1, <1>w, <2>1, <2>2, <2>3, CalmStep
<1>4. PICK fv \in [Prompt -> View] : Watch(fv) /\ Deals(fv)
  BY DEF DealInv
<1> DEFINE f1 == AfterBoth(fv, p, w, q, Seen(fv[q], Shown(p, o)))
<1>5. Watch(f1)' /\ (p \in Prompt => fv[p] = view[p])
  BY <1>1, <1>m, <1>4, WatchTell
<1>6. p \in Prompt => fv[p].with = q /\ ~ fv[p].me /\ w = [fv[p] EXCEPT !.mine = o]
  BY <1>5
<1>7. Deals(f1)'
  BY <1>1, <1>4, <1>6, DealsShow
<1>8. f1 \in [Prompt -> View]
  BY <1>5 DEF Watch
<1> QED BY <1>2, <1>3, <1>5, <1>7, <1>8 DEF Rest

\* A trade that ends for both players
Ended(p, q) ==
    /\ SetBoth(mode, p, q, "FREE") /\ SetBoth(tmp, p, q, NoDeal)
    /\ TellBoth(p, Over(q), q, Over(p))
    /\ \A r \in Players \ {p, q} : confirm'[r] = confirm[r]

\* The end of a trade reaches both: neither window stays open behind it.
LEMMA EndStep ==
    ASSUME DealInv, NEW p, NEW w, Acts(p, w), w.with # p, NEW q \in Players, p # q,
           UNCHANGED online, Ended(p, q)
    PROVE  Rest'
<1>1. p \in Players /\ TypeOK /\ NotItself /\ Calm /\ IInv
  BY DEF Acts, DealInv, IInv
<1>m. Over(p) \in Notice /\ Over(q) \in Notice /\ Over(p).by = p /\ Over(q).by = q
  BY <1>1 DEF Over, Notice
<1>k. \A r \in Players : \A i \in 1 .. Len(inbox'[r]) :
         Kept(r, i) \/ (r = p /\ inbox'[r][i] = Over(q)) \/ (r = q /\ inbox'[r][i] = Over(p))
  BY <1>1, <1>m, TellKept DEF Ended
<1>2. NotItself'
  BY <1>1, <1>m, <1>k, NotItselfStep
<1>3. Calm'
  <2>1. \A r \in Players : /\ mode'[r] = IF r \in {p, q} THEN "FREE" ELSE mode[r]
                           /\ tmp'[r] = IF r \in {p, q} THEN NoDeal ELSE tmp[r]
    BY <1>1 DEF TypeOK, SetBoth, Ended
  <2>2. \A r \in Prompt : Waiting(r)' => Waiting(r) /\ r \in Players \ {p, q} /\ tmp'[r] = tmp[r]
    BY <2>1 DEF Waiting, TradeAssumption
  <2> QED BY <1>1, <1>k, <2>2, CalmStep
<1>4. PICK fv \in [Prompt -> View] : Watch(fv) /\ Deals(fv)
  BY DEF DealInv
<1>5. Seen(w, Over(q)) = Closed /\ Seen(fv[q], Over(p)) = Closed
  BY DEF Seen, Over
<1> DEFINE f1 == AfterBoth(fv, p, Closed, q, Closed)
<1>6. Watch(f1)'
  BY <1>1, <1>m, <1>4, <1>5, WatchTellBoth DEF Ended
<1>7. Deals(f1)'
  BY <1>1, <1>4, DealsEnd DEF Ended
<1>8. f1 \in [Prompt -> View]
  BY <1>6 DEF Watch
<1> QED BY <1>2, <1>3, <1>6, <1>7, <1>8 DEF Rest

\* p's agreement is kept until q's comes.
LEMMA WaitStep ==
    ASSUME DealInv, NEW p, NEW q \in Players, p # q, NEW w, w = [view[p] EXCEPT !.sent = TRUE], Acts(p, w),
           p \in online, q \in online, view[p].with = q, view[p].me, confirm[q],
           NEW d, d = DealOf(p), ~ (Mirrored(d, tmp[q]) /\ tmp[q] # NoDeal),
           mode' = [mode EXCEPT ![p] = "LOCK"], tmp' = [tmp EXCEPT ![p] = d],
           UNCHANGED <<online, confirm, inbox>>
    PROVE  Rest'
<1>1. p \in Players /\ TypeOK /\ NotItself /\ Calm /\ IInv
  BY DEF Acts, DealInv, IInv
<1>v. view[p] \in View
  BY <1>1 DEF TypeOK
<1>w. w \in View /\ w.with = q
  BY <1>v DEF View, Acts
<1>d. d \in Deal /\ d = [to |-> q, mine |-> view[p].mine, theirs |-> view[p].theirs]
  BY <1>v DEF DealOf, Deal, View
<1>2. NotItself'
  BY <1>1, <1>w, NotItselfStep DEF Kept
<1>3. Calm'
  <2> SUFFICES ASSUME NEW r \in Prompt, r \in online, mode'[r] = "LOCK"
               PROVE  /\ \A i \in 1 .. Len(inbox[r]) : inbox[r][i].type \in {"T", "OK"}
                      /\ view'[r] = Closed \/ view'[r].with = tmp'[r].to
    BY DEF Calm
  <2>1. CASE r = p
    <3>1. inbox[r] = <<>>
      BY <2>1 DEF Acts
    <3>2. view'[r] = w /\ tmp'[r] = d
      BY <1>1, <2>1 DEF Acts, TypeOK
    <3> QED BY <1>w, <1>d, <3>1, <3>2
  <2>2. CASE r # p
    <3>1. r \in Players
      BY DEF TradeAssumption
    <3>2. view'[r] = view[r] /\ tmp'[r] = tmp[r] /\ mode'[r] = mode[r]
      BY <1>1, <2>2, <3>1 DEF Acts, TypeOK
    <3> QED BY <1>1, <3>2 DEF Calm
  <2> QED BY <2>1, <2>2
<1>4. PICK fv \in [Prompt -> View] : Watch(fv) /\ Deals(fv)
  BY DEF DealInv
<1> DEFINE f1 == After(fv, p, w)
<1>5. Watch(f1)' /\ (p \in Prompt => fv[p] = view[p])
  BY <1>1, <1>4, WatchQuiet
<1>6. p \in Prompt => /\ fv[p].with = q /\ fv[p].me /\ w = [fv[p] EXCEPT !.sent = TRUE]
                      /\ d = [to |-> q, mine |-> fv[p].mine, theirs |-> fv[p].theirs]
  BY <1>5, <1>d
<1>7. Deals(f1)'
  BY <1>1, <1>4, <1>6, <1>w, <1>d, DealsWait
<1>8. f1 \in [Prompt -> View]
  BY <1>5 DEF Watch
<1> QED BY <1>2, <1>3, <1>5, <1>7, <1>8 DEF Rest

\* A trade begins.
LEMMA BeginStep ==
    ASSUME DealInv, NEW p \in Players, NEW q \in Players, TRADE_Search(p, q)
    PROVE  Rest'
<1>1. TypeOK /\ NotItself /\ Calm /\ IInv
  BY DEF DealInv, IInv
<1>p. /\ p \in online /\ q \in online /\ p # q /\ view[p] = Closed /\ UNCHANGED <<online, tmp, view>>
      /\ (p \in Prompt => inbox[p] = <<>>) /\ TellBoth(p, Opened(q), q, Opened(p))
      /\ SetBoth(mode, p, q, "TRADING") /\ SetBoth(confirm, p, q, FALSE)
  BY DEF TRADE_Search, Room
<1>c. Closed \in View /\ Closed.with # p
  BY DEF Closed, Window, View, TradeAssumption
<1>a. Acts(p, Closed)
  <2>1. view' = [view EXCEPT ![p] = Closed]
    BY <1>1, <1>p DEF TypeOK
  <2> QED BY <1>p, <1>c, <2>1 DEF Acts
<1>m. Opened(p) \in Notice /\ Opened(q) \in Notice /\ Opened(p).by = p /\ Opened(q).by = q
  BY DEF Opened, Notice
<1>k. \A r \in Players : \A i \in 1 .. Len(inbox'[r]) :
         Kept(r, i) \/ (r = p /\ inbox'[r][i] = Opened(q)) \/ (r = q /\ inbox'[r][i] = Opened(p))
  BY <1>1, <1>p, <1>m, TellKept
<1>2. NotItself'
  <2>1. \A r \in Players : \A i \in 1 .. Len(inbox'[r]) : Kept(r, i) \/ inbox'[r][i].by # r
    BY <1>p, <1>m, <1>k
  <2> QED BY <1>1, <1>c, <1>a, <2>1, NotItselfStep
<1>3. Calm'
  <2>1. \A r \in Players : mode'[r] = IF r \in {p, q} THEN "TRADING" ELSE mode[r]
    BY <1>1, <1>p DEF TypeOK, SetBoth
  <2>2. \A r \in Prompt : Waiting(r)' => Waiting(r) /\ r \in Players \ {p, q} /\ tmp'[r] = tmp[r]
    BY <1>p, <2>1 DEF Waiting, TradeAssumption
  <2> QED BY <1>1, <1>a, <1>k, <2>2, CalmStep
<1>4. PICK fv \in [Prompt -> View] : Watch(fv) /\ Deals(fv)
  BY DEF DealInv
<1>5. Seen(Closed, Opened(q)) = Window(q) /\ Seen(fv[q], Opened(p)) = Window(p)
  BY DEF Seen, Opened
<1> DEFINE f1 == AfterBoth(fv, p, Window(q), q, Window(p))
<1>6. Watch(f1)'
  BY <1>1, <1>p, <1>a, <1>m, <1>4, <1>5, WatchTellBoth
<1>7. \A r \in Players \ {p, q} : confirm'[r] = confirm[r]
  BY <1>1, <1>p DEF TypeOK, SetBoth
<1>8. Deals(f1)'
  BY <1>1, <1>p, <1>4, <1>7, DealsBegin
<1>9. f1 \in [Prompt -> View]
  BY <1>6 DEF Watch
<1> QED BY <1>2, <1>3, <1>6, <1>8, <1>9 DEF Rest

\* p leaves the game.
LEMMA LogoutStep ==
    ASSUME DealInv, NEW p \in Players, Logout(p)
    PROVE  Rest'
<1>1. TypeOK /\ NotItself /\ Calm /\ IInv
  BY DEF DealInv, IInv
<1>c. Closed \in View /\ Closed.with # p /\ <<>> \in Seq(Notice) /\ Len(<<>>) = 0 /\ 1 .. 0 = {}
  BY EmptySeq DEF Closed, Window, View, TradeAssumption
<1>2. \A r \in Players : /\ inbox'[r] = IF r = p THEN <<>> ELSE inbox[r]
                         /\ view'[r] = IF r = p THEN Closed ELSE view[r]
  BY <1>1 DEF Logout, TypeOK
<1>3. NotItself'
  BY <1>1, <1>c, <1>2 DEF NotItself
<1>4. Calm'
  BY <1>1, <1>2 DEF Calm, Logout, TradeAssumption
<1>5. PICK fv \in [Prompt -> View] : Watch(fv) /\ Deals(fv)
  BY DEF DealInv
<1> DEFINE f1 == After(fv, p, Closed)
<1>6. f1 \in [Prompt -> View] /\ \A r \in Prompt : f1[r] = IF r = p THEN Closed ELSE fv[r]
  BY <1>c, <1>5 DEF After
<1>7. Deals(f1)'
  BY <1>1, <1>5, DealsLeave DEF Logout
<1> HIDE DEF f1
<1>8. Watch(f1)'
  <2>1. Sees(Closed, <<>>, Closed)
    BY <1>c, SeesEmpty
  <2> QED BY <1>2, <1>5, <1>6, <2>1 DEF Watch, TradeAssumption
<1> QED BY <1>3, <1>4, <1>6, <1>7, <1>8 DEF Rest

\* Another player gets the socket.
LEMMA LoginStep ==
    ASSUME DealInv, NEW p \in Players, Login(p)
    PROVE  Rest'
<1>1. TypeOK /\ NotItself /\ Calm /\ IInv
  BY DEF DealInv, IInv
<1>2. UNCHANGED <<inbox, view>> /\ p \notin online /\ online' = online \cup {p}
  BY DEF Login
<1>3. \A r \in Players : mode'[r] = (IF r = p THEN "FREE" ELSE mode[r])
                         /\ tmp'[r] = (IF r = p THEN NoDeal ELSE tmp[r])
  BY <1>1 DEF Login, TypeOK
<1>4. NotItself'
  BY <1>1, <1>2 DEF NotItself
<1>5. Calm'
  BY <1>1, <1>2, <1>3 DEF Calm, TradeAssumption
<1>6. PICK fv \in [Prompt -> View] : Watch(fv) /\ Deals(fv)
  BY DEF DealInv
<1>7. Deals(fv)'
  BY <1>1, <1>6, DealsEnter
<1>8. Watch(fv)'
  BY <1>2, <1>6 DEF Watch
<1> QED BY <1>4, <1>5, <1>6, <1>7, <1>8 DEF Rest

\* p reads a notice.
LEMMA ReadStep ==
    ASSUME DealInv, NEW p \in Players, Read(p)
    PROVE  Rest'
<1>1. TypeOK /\ NotItself /\ Calm /\ IInv
  BY DEF DealInv, IInv
<1> DEFINE box == inbox[p]
           v   == view[p]
           m   == Head(box)
           s   == Seen(v, m)
           rest == Tail(box)
<1>2. box \in Seq(Notice) /\ box # <<>> /\ v \in View /\ UNCHANGED <<online, mode, confirm, tmp>>
  BY <1>1 DEF TypeOK, Read
<1>3. \A r \in Players : /\ inbox'[r] = IF r = p THEN rest ELSE inbox[r]
                         /\ view'[r] = IF r = p THEN s ELSE view[r]
  BY <1>1 DEF TypeOK, Read
<1>4. /\ 1 \in 1 .. Len(box) /\ m = box[1] /\ m \in Notice
      /\ \A i \in 1 .. Len(rest) : i + 1 \in 1 .. Len(box) /\ rest[i] = box[i + 1]
  BY <1>2, HeadTailProperties, LenProperties, EmptySeq
<1>5. /\ m.type \notin {"T", "OK"} => s = Closed \/ s.with = m.by
      /\ m.type \in {"T", "OK"} => s.with = v.with /\ s.mine = v.mine /\ s.me = v.me
      /\ m.type = "T" \/ m.type = "OK" => (v = Closed => s = Closed)
  <2>1. Closed.with = "none" /\ m.by # "none"
    BY <1>4 DEF Closed, Window, Notice, TradeAssumption
  <2>2. CASE m.type = "C"
    BY <2>2 DEF Seen, Window
  <2>3. CASE m.type = "W"
    BY <2>3 DEF Seen
  <2>4. CASE m.type = "T"
    BY <1>2, <2>1, <2>4 DEF Seen, View
  <2>5. CASE m.type = "OK"
    BY <1>2, <2>1, <2>5 DEF Seen, View
  <2>6. m.type \in {"C", "W", "T", "OK"}
    BY <1>4 DEF Notice
  <2> QED BY <2>2, <2>3, <2>4, <2>5, <2>6
<1>c. Closed.with # p
  BY DEF Closed, Window, TradeAssumption
<1>6. m.by # p /\ v.with # p
  BY <1>1, <1>4 DEF NotItself
<1>7. SUFFICES ASSUME NEW fv \in [Prompt -> View], Watch(fv), Deals(fv) PROVE Rest'
  BY DEF DealInv
<1>8. p \in Prompt => Sees(s, rest, fv[p])
  BY <1>2, <1>7, SeesTail DEF Watch
<1>9. m.type \in {"T", "OK"} \/ m.type \notin {"T", "OK"}
  OBVIOUS
<1>10. s.with # p
  BY <1>5, <1>6, <1>9, <1>c
<1> HIDE DEF s, m, v, box, rest
<1>11. NotItself'
  <2> SUFFICES ASSUME NEW r \in Players
               PROVE  view'[r].with # r /\ \A i \in 1 .. Len(inbox'[r]) : inbox'[r][i].by # r
    BY DEF NotItself
  <2>1. CASE r = p
    <3>1. \A i \in 1 .. Len(box) : box[i].by # p
      BY <1>1 DEF NotItself, box
    <3> QED BY <1>3, <1>4, <1>10, <2>1, <3>1
  <2>2. CASE r # p
    BY <1>1, <1>3, <2>2 DEF NotItself
  <2> QED BY <2>1, <2>2
<1>12. Calm'
  <2> SUFFICES ASSUME NEW r \in Prompt, r \in online, mode[r] = "LOCK"
               PROVE  /\ \A i \in 1 .. Len(inbox'[r]) : inbox'[r][i].type \in {"T", "OK"}
                      /\ view'[r] = Closed \/ view'[r].with = tmp[r].to
    BY <1>2 DEF Calm
  <2>0. r \in Players
    BY DEF TradeAssumption
  <2>1. /\ \A i \in 1 .. Len(inbox[r]) : inbox[r][i].type \in {"T", "OK"}
        /\ view[r] = Closed \/ view[r].with = tmp[r].to
    BY <1>1 DEF Calm
  <2>2. CASE r = p
    <3>1. /\ \A i \in 1 .. Len(box) : box[i].type \in {"T", "OK"}
          /\ v = Closed \/ v.with = tmp[r].to
      BY <2>1, <2>2 DEF box, v
    <3>2. m.type \in {"T", "OK"}
      BY <1>4, <3>1
    <3> QED BY <1>3, <1>4, <1>5, <2>2, <3>1, <3>2
  <2>3. CASE r # p
    BY <1>3, <2>0, <2>1, <2>3
  <2> QED BY <2>2, <2>3
<1>13. Watch(fv)'
  BY <1>3, <1>7, <1>8 DEF Watch, TradeAssumption
<1>14. Deals(fv)'
  BY <1>2, <1>7, DealsSame
<1> QED BY <1>7, <1>11, <1>12, <1>13, <1>14 DEF Rest
----------------------------------------------------------------------------
\* The window changes as the action says.
LEMMA ActsOf ==
    ASSUME TypeOK, NEW p \in Players, Room(p), NEW w \in View, view' = [view EXCEPT ![p] = w]
    PROVE  Acts(p, w)
BY DEF Acts, Room

\* TRADE_Close of a player whose window names another
LEMMA ClosedStep ==
    ASSUME DealInv, NEW p, NEW w, Acts(p, w), NEW q \in Players, view[p].with = q,
           w = Closed \/ (w.with = q /\ ~ view[p].me), UNCHANGED online, TRADE_Close(p, q)
    PROVE  Rest'
<1>1. p \in Players /\ TypeOK /\ NotItself /\ "none" \notin Players
  BY DEF Acts, DealInv, IInv, TradeAssumption
<1>2. p # q /\ w.with # p
  BY <1>1 DEF NotItself, Closed, Window
<1>3. CASE q \notin online
  <2>1. UNCHANGED <<mode, confirm, tmp, inbox>>
    BY <1>3 DEF TRADE_Close
  <2> QED BY <1>3, <2>1, AloneStep
<1>4. CASE q \in online
  <2>1. Ended(p, q)
    BY <1>1, <1>4 DEF TRADE_Close, Ended, SetBoth, TypeOK
  <2> QED BY <1>2, <2>1, EndStep
<1> QED BY <1>3, <1>4

\* Confirm, whatever becomes of it
LEMMA ConfirmingStep ==
    ASSUME DealInv, NEW p, NEW w, Acts(p, w), NEW q \in Players, view[p].with = q, Flagged(view[p], w),
           UNCHANGED online, Confirm(p, q)
    PROVE  Rest'
<1>1. p # q
  BY DEF NotItself, DealInv, Acts
<1>2. CASE q \in online /\ ~ confirm[p]
  BY <1>1, <1>2, ConfirmedStep DEF Confirm
<1>3. CASE ~ (q \in online /\ ~ confirm[p])
  BY <1>3, FlagStep DEF Confirm
<1> QED BY <1>2, <1>3

\* A window with a flag more is the same window.
LEMMA FlaggedOf ==
    ASSUME NEW v \in View
    PROVE  /\ [v EXCEPT !.me = TRUE] \in View /\ [v EXCEPT !.sent = TRUE] \in View
           /\ v # Closed => Flagged(v, [v EXCEPT !.me = TRUE]) /\ Flagged(v, [v EXCEPT !.sent = TRUE])
<1>1. [v EXCEPT !.me = TRUE] \in View
  BY DEF View
<1>2. [v EXCEPT !.sent = TRUE] \in View
  BY DEF View
<1>3. v # Closed => Flagged(v, [v EXCEPT !.me = TRUE]) /\ Flagged(v, [v EXCEPT !.sent = TRUE])
  BY DEF Flagged, View
<1> QED BY <1>1, <1>2, <1>3

\* At the start nobody waits for anybody.
LEMMA InitDeal == Init => DealInv
<1> SUFFICES ASSUME Init PROVE DealInv
  OBVIOUS
<1>1. IInv
  BY InitIInv
<1>2. Closed \in View /\ Closed.with \notin Players /\ Len(<<>>) = 0
  BY EmptySeq DEF Closed, Window, View, TradeAssumption
<1>3. NotItself
  BY <1>2 DEF Init, NotItself
<1>4. \A r \in Prompt : mode[r] = "FREE" /\ view[r] = Closed /\ inbox[r] = <<>> /\ r \in online
  BY DEF Init, TradeAssumption
<1>5. Calm
  BY <1>4 DEF Calm
<1> DEFINE fv == [r \in Prompt |-> Closed]
<1>6. fv \in [Prompt -> View] /\ \A r \in Prompt : fv[r] = Closed
  BY <1>2
<1> HIDE DEF fv
<1>7. Sees(Closed, <<>>, Closed)
  BY <1>2, SeesEmpty
<1>8. Watch(fv)
  BY <1>4, <1>6, <1>7 DEF Watch
<1>9. \A r \in Prompt : ~ Waiting(r)
  BY <1>4 DEF Waiting
<1>10. SameOffers(fv) /\ OwnDeal(fv) /\ PartnersDeal(fv)
  BY <1>2, <1>6, <1>9 DEF SameOffers, OwnDeal, PartnersDeal, TradeAssumption
<1>11. AgreementGoesThrough
  BY <1>4 DEF AgreementGoesThrough
<1>12. Deals(fv)
  BY <1>4, <1>6, <1>9, <1>10, <1>11 DEF Deals
<1> QED BY <1>1, <1>3, <1>5, <1>6, <1>8, <1>12 DEF DealInv

\* Every step keeps two that trade in step, once they read their notices.
LEMMA NextDeal == DealInv /\ [Next]_vars => DealInv'
<1> SUFFICES ASSUME DealInv, [Next]_vars PROVE DealInv'
  OBVIOUS
<1>t. TypeOK /\ NotItself /\ IInv'
  BY NextIInv DEF DealInv, IInv
<1>v. \A p \in Players : view[p] \in View /\ (view[p].with # "none" => view[p].with \in Players \ {p})
  BY <1>t DEF TypeOK, View, NotItself
<1> SUFFICES Rest'
  BY <1>t DEF DealInv, Rest
<1>1. ASSUME NEW p \in Players, NEW q \in Players, TRADE_Search(p, q) PROVE Rest'
  BY <1>1, BeginStep
<1>2. ASSUME NEW p \in Players, NEW o \in Offers, Show(p, o) PROVE Rest'
  <2> DEFINE q == view[p].with
             w == [view[p] EXCEPT !.mine = o]
  <2>1. q \in Players \ {p} /\ ~ view[p].me /\ UNCHANGED online /\ ShowItem(p, q, o)
    BY <1>2, <1>v DEF Show
  <2>2. Acts(p, w)
    <3>1. Room(p) /\ view' = [view EXCEPT ![p].mine = o]
      BY <1>2 DEF Show
    <3>2. view' = [view EXCEPT ![p] = w]
      BY <3>1
    <3>3. w \in View
      BY <1>v DEF View
    <3> QED BY <1>t, <3>1, <3>2, <3>3, ActsOf
  <2>3. w.with = q
    BY <1>v DEF View
  <2> HIDE DEF q, w
  <2>q. view[p].with = q /\ w = [view[p] EXCEPT !.mine = o]
    BY DEF q, w
  <2>4. CASE q \notin online /\ UNCHANGED <<mode, confirm, tmp, inbox>>
    BY <2>1, <2>2, <2>3, <2>4, <2>q, AloneStep
  <2>5. CASE ~ confirm[p] /\ Tell(q, Shown(p, o)) /\ UNCHANGED <<mode, confirm, tmp>>
    BY <2>1, <2>2, <2>5, <2>q, ShownStep
  <2>6. CASE TRADE_Close(p, q)
    BY <2>1, <2>2, <2>3, <2>6, <2>q, ClosedStep
  <2> QED BY <2>1, <2>4, <2>5, <2>6 DEF ShowItem
<1>3. ASSUME NEW p \in Players, ConfirmOffer(p) PROVE Rest'
  <2> DEFINE q == view[p].with
             w == [view[p] EXCEPT !.me = TRUE]
  <2>1. q \in Players /\ UNCHANGED online /\ Confirm(p, q)
    BY <1>3, <1>v DEF ConfirmOffer
  <2>2. Acts(p, w)
    <3>1. Room(p) /\ view' = [view EXCEPT ![p].me = TRUE]
      BY <1>3 DEF ConfirmOffer
    <3>2. view' = [view EXCEPT ![p] = w]
      BY <3>1
    <3>3. w \in View
      BY <1>v, FlaggedOf
    <3> QED BY <1>t, <3>1, <3>2, <3>3, ActsOf
  <2>3. Flagged(view[p], w)
    <3>1. view[p] # Closed
      BY <2>1 DEF Closed, Window, TradeAssumption
    <3> QED BY <1>v, <3>1, FlaggedOf
  <2> HIDE DEF w
  <2> QED BY <2>1, <2>2, <2>3, ConfirmingStep
<1>4. ASSUME NEW p \in Players, Agree(p) PROVE Rest'
  <2> DEFINE q == view[p].with
             w == [view[p] EXCEPT !.sent = TRUE]
             d == DealOf(p)
  <2>1. view[p].me /\ UNCHANGED online /\ Ok(p, q, d) /\ p \in online
    BY <1>4 DEF Agree, CanAgree, Room
  <2>2. Acts(p, w)
    <3>1. Room(p) /\ view' = [view EXCEPT ![p].sent = TRUE]
      BY <1>4 DEF Agree
    <3>2. view' = [view EXCEPT ![p] = w]
      BY <3>1
    <3>3. w \in View
      BY <1>v, FlaggedOf
    <3> QED BY <1>t, <3>1, <3>2, <3>3, ActsOf
  <2>3. Flagged(view[p], w) /\ w.with = q
    <3>1. view[p] # Closed
      BY <2>1 DEF Closed, Window
    <3> QED BY <1>v, <3>1, FlaggedOf DEF Flagged
  <2>4. q \in online => q \in Players \ {p}
    BY <1>t, <1>v DEF TypeOK, TradeAssumption
  <2> HIDE DEF q, w, d
  <2>q. view[p].with = q /\ w = [view[p] EXCEPT !.sent = TRUE] /\ d = DealOf(p)
    BY DEF q, w, d
  <2>5. CASE UNCHANGED <<mode, confirm, tmp, inbox>>
    BY <2>1, <2>2, <2>3, <2>5, FlagStep
  <2>6. CASE q \in online /\ Confirm(p, q)
    BY <2>1, <2>2, <2>3, <2>4, <2>6, <2>q, ConfirmingStep
  <2>7. CASE /\ q \in online /\ UNCHANGED confirm
             /\ SetBoth(mode, p, q, "FREE") /\ SetBoth(tmp, p, q, NoDeal) /\ TellBoth(p, Over(q), q, Over(p))
    <3>1. Ended(p, q)
      BY <2>7 DEF Ended
    <3> QED BY <2>1, <2>2, <2>3, <2>4, <2>7, <3>1, EndStep
  <2>8. CASE /\ q \in online /\ confirm[q] /\ UNCHANGED <<confirm, inbox>> /\ ~ (Mirrored(d, tmp[q]) /\ tmp[q] # NoDeal)
             /\ mode' = [mode EXCEPT ![p] = "LOCK"] /\ tmp' = [tmp EXCEPT ![p] = d]
    BY <2>1, <2>2, <2>4, <2>8, <2>q, WaitStep
  <2> QED BY <2>1, <2>5, <2>6, <2>7, <2>8 DEF Ok, SwapItem
<1>5. ASSUME NEW p \in Players, Close(p) PROVE Rest'
  <2> DEFINE q == view[p].with
  <2>1. q \in Players /\ UNCHANGED online /\ TRADE_Close(p, q)
    BY <1>5, <1>v DEF Close
  <2>2. Acts(p, Closed)
    <3>1. Room(p) /\ view' = [view EXCEPT ![p] = Closed] /\ Closed \in View
      BY <1>5 DEF Close, Closed, Window, View
    <3> QED BY <1>t, <3>1, ActsOf
  <2> QED BY <2>1, <2>2, ClosedStep
<1>6. ASSUME NEW p \in Players, Logout(p) PROVE Rest'
  BY <1>6, LogoutStep
<1>7. ASSUME NEW p \in Players, Login(p) PROVE Rest'
  BY <1>7, LoginStep
<1>8. ASSUME NEW p \in Players, Read(p) PROVE Rest'
  BY <1>8, ReadStep
<1>9. CASE UNCHANGED vars
  BY <1>9 DEF vars, DealInv, Rest, NotItself, Calm, Watch, Deals, SameOffers, OwnDeal, PartnersDeal, Waiting,
              AgreementGoesThrough
<1> QED BY <1>1, <1>2, <1>3, <1>4, <1>5, <1>6, <1>7, <1>8, <1>9 DEF Next

\* Two players that read their notices before they act, and trade with each
\* other, never both wait for the other's agreement: whatever closed trades,
\* other players, logouts and logins of TRADE_Close, _CHAR_logout and CHAR_login
\* came before.
THEOREM AgreementsMeet == Spec => []AgreementGoesThrough
<1>1. DealInv => AgreementGoesThrough
  BY DEF DealInv, Deals
<1> QED BY <1>1, InitDeal, NextDeal, PTL DEF Spec

\* TRADE_CheckItembuf does not compare with whom an agreement was made, and need
\* not for such players: one that matches was made with the partner.
THEOREM PartnersMatch == Spec => []MatchesItsPartner
<1>1. DealInv => MatchesItsPartner
  <2> SUFFICES ASSUME DealInv, NEW p \in online \cap Prompt, NEW q \in online \cap Prompt,
                      view[q].with = p, tmp[q] # NoDeal
               PROVE  tmp[q].to = p
    BY DEF MatchesItsPartner
  <2>1. mode[q] = "LOCK"
    BY DEF DealInv, IInv, AgreementWhileLocked
  <2>2. view[q] # Closed
    BY DEF Closed, Window, TradeAssumption
  <2> QED BY <2>1, <2>2 DEF DealInv, Calm
<1> QED BY <1>1, InitDeal, NextDeal, PTL DEF Spec
=============================================================================
